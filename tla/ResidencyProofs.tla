-------------------------- MODULE ResidencyProofs ---------------------------
(***************************************************************************)
(* The runtime implements Residency, for any number of goroutines, names   *)
(* and models: each step of a goroutine is a step of Residency or leaves   *)
(* resident, loading and serving alone.                                    *)
(***************************************************************************)
EXTENDS OwnershipProofs

Loading == At(LoadPoint)
Serving == At({"infer"})

(* Where a goroutine is, told by the state that it gave its model. *)
LEMMA GavePoint ==
  ASSUME NEW at
  PROVE  /\ at \in LoadPoint <=> Gave(at) = "Loading"
         /\ at \in {"infer"} <=> Gave(at) = "Busy"
BY DEF Gave, LoadPoint, UnloadPoint

(* What is being loaded, or served, is what is in that state, and there is at
   most one of them. *)
AsStates ==
  /\ Loading = {m \in Model : state[m] = "Loading"}
  /\ Serving = {m \in Model : state[m] = "Busy"}
  /\ \A m, o \in Loading \cup Serving : m = o

LEMMA OwnedSets == TypeOK /\ Owned => AsStates
<1> SUFFICES ASSUME TypeOK, Owned PROVE AsStates OBVIOUS
<1>1. ASSUME NEW t \in Request, Gave(pc[t]) \in {"Loading", "Busy"}
      PROVE  mdl[t] \in Model /\ Owns(t, mdl[t]) /\ state[mdl[t]] = Gave(pc[t]) /\ holder = t
  <2>1. pc[t] \in LoadPoint \cup {"infer"} BY <1>1, GavePoint
  <2>2. pc[t] \in UsesModel /\ pc[t] \in SubmitPoint \ {"submit"}
    BY <2>1 DEF LoadPoint, UsesModel, SubmitPoint
  <2>3. mdl[t] \in Model BY <2>2 DEF TypeOK, LocalType
  <2>4. Owns(t, mdl[t]) BY <1>1 DEF Owns
  <2> QED BY <2>2, <2>3, <2>4 DEF Owned, OwnerState, MutexHeld
<1>2. ASSUME NEW m \in Model, state[m] \in {"Loading", "Busy"}
      PROVE  \E t \in Request : mdl[t] = m /\ Gave(pc[t]) = state[m]
  BY <1>2 DEF Owned, HasOwner, Passing, OwnerState, Owns
<1>3. Loading = {m \in Model : state[m] = "Loading"}
  BY <1>1, <1>2, GavePoint DEF Loading, At
<1>4. Serving = {m \in Model : state[m] = "Busy"}
  BY <1>1, <1>2, GavePoint DEF Serving, At
<1>5. \A m \in Loading \cup Serving : m = mdl[holder]
  BY <1>1, <1>2, <1>3, <1>4
<1> QED BY <1>3, <1>4, <1>5 DEF AsStates

LEMMA OwnedSetsNext == (TypeOK /\ Owned)' => AsStates'
BY OwnedSets, PTL
-----------------------------------------------------------------------------
(* One model changes state, by an edge of the graph or on its registration. *)

Edge(m, from, to) ==
  /\ m \in Model /\ state[m] = from
  /\ state' = [state EXCEPT ![m] = to]

(* An edge moves its model, and no other, between the sets. *)
LEMMA EdgeSets ==
  ASSUME TypeOK, AsStates, AsStates', NEW m, NEW from, NEW to, Edge(m, from, to)
  PROVE  /\ Loading' = IF to = "Loading" THEN Loading \cup {m} ELSE Loading \ {m}
         /\ Serving' = IF to = "Busy" THEN Serving \cup {m} ELSE Serving \ {m}
         /\ Resident' = IF to \in ResidentState THEN Resident \cup {m} ELSE Resident \ {m}
         /\ m \in Loading <=> from = "Loading"
         /\ m \in Serving <=> from = "Busy"
         /\ m \in Resident <=> from \in ResidentState
<1>1. m \in Model /\ state[m] = from /\ state'[m] = to
      /\ \A o \in Model \ {m} : state'[o] = state[o]
  BY DEF Edge, TypeOK, StoreType
<1>2. /\ Loading = {o \in Model : state[o] = "Loading"}
      /\ Loading' = {o \in Model : state'[o] = "Loading"}
      /\ Serving = {o \in Model : state[o] = "Busy"}
      /\ Serving' = {o \in Model : state'[o] = "Busy"}
  BY DEF AsStates
<1>3. Resident' = {o \in Model : state'[o] \in ResidentState} BY DEF Resident
<1> QED BY <1>1, <1>2, <1>3 DEF Resident

(* A model that is going to be loaded or to serve finds no other that is. *)
LEMMA EdgeIdle ==
  ASSUME TypeOK, AsStates, AsStates', NEW m, NEW from, NEW to \in {"Loading", "Busy"},
         Edge(m, from, to), from \notin {"Loading", "Busy"}
  PROVE  Loading = {} /\ Serving = {}
<1>1. m \in Loading' \cup Serving' /\ m \notin Loading \cup Serving BY EdgeSets
<1>2. Loading \cup Serving \subseteq Loading' \cup Serving' BY EdgeSets
<1>3. \A o \in Loading' \cup Serving' : o = m BY <1>1 DEF AsStates
<1> QED BY <1>1, <1>2, <1>3

(* Each edge is a step of Residency, or none. *)
LEMMA EdgeStep ==
  ASSUME TypeOK, AsStates, AsStates', WithinBudget', NEW m, NEW from, NEW to,
         Edge(m, from, to),
         IsLegalTransition(from, to) \/ (from = "Unallocated" /\ to = "NotPresent")
  PROVE  [Abstract!ResNext]_<<Resident, Loading, Serving>>
<1>1. m \in Model BY DEF Edge
<1>2. CASE from = "Downloaded" /\ to = "Loading"
  <2>1. Loading = {} /\ Serving = {} BY <1>2, EdgeIdle
  <2>2. Resident' = Resident \cup {m} /\ m \notin Resident /\ Loading' = {m} /\ Serving' = {}
    BY <1>2, <2>1, EdgeSets DEF ResidentState
  <2>3. BytesOf(Resident \cup {m}) <= TotalBytes
    BY <2>2 DEF WithinBudget
  <2>4. Abstract!Admit(m) BY <2>1, <2>2, <2>3 DEF Abstract!Admit, Abstract!Idle, Loading, Serving
  <2> QED BY <1>1, <2>4 DEF Abstract!ResNext
<1>3. CASE from = "Ready" /\ to = "Busy"
  <2>1. Loading = {} /\ Serving = {} BY <1>3, EdgeIdle
  <2>2. Resident' = Resident /\ m \in Resident /\ Loading' = {} /\ Serving' = {m}
    BY <1>3, <2>1, EdgeSets DEF ResidentState
  <2>3. Abstract!Serve(m) BY <2>1, <2>2 DEF Abstract!Serve, Abstract!Idle, Loading, Serving
  <2> QED BY <1>1, <2>3 DEF Abstract!ResNext
<1>4. CASE from = "Loading"
  <2>1. to \in {"Ready", "Downloaded"} BY <1>4 DEF IsLegalTransition, legalTransitions
  <2>2. m \in Loading /\ Loading = {m} /\ Loading' = {} /\ Serving' = Serving
    BY <1>4, <2>1, EdgeSets DEF AsStates
  <2>3. Resident' = IF to = "Ready" THEN Resident ELSE Resident \ {m}
    BY <1>4, <2>1, EdgeSets DEF ResidentState
  <2>4. Abstract!Loaded(m) \/ Abstract!Abort(m)
    BY <2>1, <2>2, <2>3 DEF Abstract!Loaded, Abstract!Abort, Loading, Serving
  <2> QED BY <1>1, <2>4 DEF Abstract!ResNext
<1>5. CASE from = "Busy"
  <2>1. to = "Ready" BY <1>5 DEF IsLegalTransition, legalTransitions
  <2>2. m \in Serving /\ Serving' = {} /\ Loading' = Loading /\ Resident' = Resident
    BY <1>5, <2>1, EdgeSets DEF AsStates, ResidentState
  <2>3. Abstract!Answer(m) BY <2>2 DEF Abstract!Answer, Loading, Serving
  <2> QED BY <1>1, <2>3 DEF Abstract!ResNext
<1>6. CASE from = "Unloading"
  <2>1. to = "Downloaded" BY <1>6 DEF IsLegalTransition, legalTransitions
  <2>2. /\ m \in Resident \ (Loading \cup Serving) /\ Resident' = Resident \ {m}
        /\ Loading' = Loading /\ Serving' = Serving
    BY <1>6, <2>1, EdgeSets DEF ResidentState
  <2>3. Abstract!Evict(m) BY <2>2 DEF Abstract!Evict, Loading, Serving
  <2> QED BY <1>1, <2>3 DEF Abstract!ResNext
<1>7. CASE <<from, to>> \in {<<"Unallocated", "NotPresent">>, <<"NotPresent", "Downloaded">>,
                            <<"Ready", "Unloading">>}
  BY <1>7, EdgeSets DEF ResidentState
<1> QED BY <1>2, <1>3, <1>4, <1>5, <1>6, <1>7 DEF IsLegalTransition, legalTransitions

(* A step of a goroutine changes the state of one model by an edge, or of none. *)
LEMMA ShapeStep ==
  ASSUME TypeOK, AsStates, AsStates', WithinBudget', NEW t \in Request, Shape(t)
  PROVE  [Abstract!ResNext]_<<Resident, Loading, Serving>>
<1>1. CASE Takes(t)
  <2>1. Edge(mdl'[t], state[mdl'[t]], Gave(pc'[t])) BY <1>1 DEF Takes, Edge
  <2> QED BY <1>1, <2>1, EdgeStep DEF Takes, IsLegalTransition
<1>2. CASE Gives(t)
  <2>1. PICK s : IsLegalTransition(state[mdl[t]], s) /\ Edge(mdl[t], state[mdl[t]], s)
    BY <1>2 DEF Gives, Edge
  <2> QED BY <2>1, EdgeStep
<1>3. CASE Keeps(t)
  BY <1>3 DEF Keeps, Resident, AsStates
<1> QED BY <1>1, <1>2, <1>3 DEF Shape

(* The runtime implements Residency. *)
THEOREM RuntimeImplementsResidency == Spec => ResidencySpec
<1> DEFINE Inv == TypeOK /\ Owned /\ WithinBudget
<1>1. Spec => []Inv BY TypeCorrect, WorkIsOwned, BudgetRespected, PTL
<1>2. Init => Abstract!ResInit
  <2> SUFFICES ASSUME Init PROVE Abstract!ResInit OBVIOUS
  <2>1. TypeOK /\ Owned BY InitType, InitOwned
  <2>2. Resident = {} BY DEF Init, ManagerInit, Resident, ResidentState
  <2>3. AsStates BY <2>1, OwnedSets
  <2>4. Loading = {} /\ Serving = {} BY <2>3 DEF AsStates, Init, ManagerInit
  <2> QED BY <2>2, <2>4 DEF Abstract!ResInit, Loading, Serving
<1>3. Inv /\ Inv' /\ [Next]_vars => [Abstract!ResNext]_(Abstract!resVars)
  <2> SUFFICES ASSUME Inv, Inv', [Next]_vars
               PROVE  [Abstract!ResNext]_<<Resident, Loading, Serving>>
    BY DEF Abstract!resVars, Loading, Serving
  <2>1. CASE Next
    <3>1. PICK t \in Request : Shape(t) BY <2>1, NextShape DEF Owned, Ownership
    <3> QED BY <3>1, ShapeStep, OwnedSets, OwnedSetsNext
  <2>2. CASE UNCHANGED vars
    BY <2>2 DEF vars, Resident, Loading, Serving, At
  <2> QED BY <2>1, <2>2
<1> QED BY <1>1, <1>2, <1>3, PTL DEF Spec, ResidencySpec, Abstract!ResSpec
=============================================================================
