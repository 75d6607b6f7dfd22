------------------------------ MODULE Residency -----------------------------
(***************************************************************************)
(* What the runtime promises about memory, with no registry, goroutines,   *)
(* locks or backends: models become resident only while they fit together, *)
(* one model at a time is being loaded or is serving, and neither a model  *)
(* that is being loaded nor one that is serving is evicted.                *)
(***************************************************************************)
EXTENDS Naturals

CONSTANTS Model,       \* the models
          BytesOf(_),  \* the size of a set of models
          TotalBytes   \* the budget

VARIABLES resident,  \* the models that hold memory
          loading,   \* those whose weights are being loaded
          serving    \* those that answer a request

resVars == <<resident, loading, serving>>

ResInit == resident = {} /\ loading = {} /\ serving = {}

Idle == loading = {} /\ serving = {}

Admit(m) ==
  /\ Idle /\ m \notin resident
  /\ BytesOf(resident \cup {m}) <= TotalBytes
  /\ resident' = resident \cup {m}
  /\ loading' = {m}
  /\ UNCHANGED serving

Loaded(m) == m \in loading /\ loading' = {} /\ UNCHANGED <<resident, serving>>

Abort(m) ==
  /\ m \in loading
  /\ loading' = {}
  /\ resident' = resident \ {m}
  /\ UNCHANGED serving

Serve(m) ==
  /\ Idle /\ m \in resident
  /\ serving' = {m}
  /\ UNCHANGED <<resident, loading>>

Answer(m) == m \in serving /\ serving' = {} /\ UNCHANGED <<resident, loading>>

Evict(m) ==
  /\ m \in resident \ (loading \cup serving)
  /\ resident' = resident \ {m}
  /\ UNCHANGED <<loading, serving>>

ResNext ==
  \E m \in Model :
    Admit(m) \/ Loaded(m) \/ Abort(m) \/ Serve(m) \/ Answer(m) \/ Evict(m)

ResSpec == ResInit /\ [][ResNext]_resVars
=============================================================================
