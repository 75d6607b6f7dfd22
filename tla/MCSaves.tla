------------------------------- MODULE MCSaves ------------------------------
(* Saves, with the sets of MCRegistryFile. *)
EXTENDS MCRegistryFile, Saves
=============================================================================
