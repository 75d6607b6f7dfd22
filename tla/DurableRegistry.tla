--------------------------- MODULE DurableRegistry --------------------------
(***************************************************************************)
(* What persisting the registry promises: the saved registry is replaced   *)
(* by the current one in a single step, and a restart brings back what was *)
(* saved, less the models whose files are gone.                            *)
(***************************************************************************)
CONSTANT Name

VARIABLES registry,  \* the names registered in memory
          saved      \* the names that a restart would find on disk

durVars == <<registry, saved>>

DurInit == saved \in SUBSET Name /\ registry \in SUBSET saved

Add(n)  == registry' = registry \cup {n} /\ UNCHANGED saved
Drop(n) == registry' = registry \ {n} /\ UNCHANGED saved
Save    == saved' = registry /\ UNCHANGED registry
Restore == registry' \in SUBSET saved /\ UNCHANGED saved

DurNext == (\E n \in Name : Add(n) \/ Drop(n)) \/ Save \/ Restore

DurSpec == DurInit /\ [][DurNext]_durVars
=============================================================================
