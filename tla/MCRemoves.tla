----------------------------- MODULE MCRemoves ------------------------------
(* Removes, with the sets of MCRuntime. *)
EXTENDS MCRuntime, Removes

(* Names are interchangeable too. *)
Interchanged == Interchangeable \cup Permutations(Name)

Apart == ~clashed
=============================================================================
