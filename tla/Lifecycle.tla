----------------------------- MODULE Lifecycle ------------------------------
(***************************************************************************)
(* The lifecycle of one registered model: the six states of ModelState and *)
(* the transition graph legalTransitions that Manager.Transition enforces. *)
(***************************************************************************)

ModelState ==
  {"NotPresent", "Downloaded", "Loading", "Ready", "Busy", "Unloading"}

(* Mutant: a Busy model may be unloaded too. *)
legalTransitionsFromBusy ==
  { <<"NotPresent", "Downloaded">>, <<"Downloaded", "Loading">>,
    <<"Loading", "Ready">>, <<"Loading", "Downloaded">>, <<"Ready", "Busy">>,
    <<"Ready", "Unloading">>, <<"Busy", "Ready">>, <<"Busy", "Unloading">>,
    <<"Unloading", "Downloaded">> }

(* The edges of the graph, as pairs <<from, to>>. *)
legalTransitions ==
  { <<"NotPresent", "Downloaded">>,
    <<"Downloaded", "Loading">>,
    <<"Loading", "Ready">>,
    <<"Loading", "Downloaded">>,     \* the load failed: roll back
    <<"Ready", "Busy">>,
    <<"Ready", "Unloading">>,
    <<"Busy", "Ready">>,
    <<"Unloading", "Downloaded">> }

IsLegalTransition(from, to) == <<from, to>> \in legalTransitions

(***************************************************************************)
(* The edges on which Transition touches the budget.  Ready and Busy models *)
(* keep what the edge into Loading reserved for them.                      *)
(***************************************************************************)
Reserves(from, to) == from = "Downloaded" /\ to = "Loading"
ReleasesUnloadOnly(from, to) ==  \* mutant: a failed load keeps its bytes
  from = "Unloading" /\ to = "Downloaded"
ReleasesTwice(from, to) ==       \* mutant: at both ends of an unload
  \/ to = "Unloading"
  \/ to = "Downloaded" /\ from \in {"Loading", "Unloading"}
Releases(from, to) == to = "Downloaded" /\ from \in {"Loading", "Unloading"}

(* The states in which a model's memory is accounted for. *)
ResidentState == {"Loading", "Ready", "Busy", "Unloading"}
=============================================================================
