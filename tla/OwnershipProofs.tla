-------------------------- MODULE OwnershipProofs ---------------------------
(***************************************************************************)
(* Who works on a model: for any number of goroutines, a model that is     *)
(* being loaded, served, unloaded or registered has one owner, and one     *)
(* request at a time is loaded or served.                                  *)
(***************************************************************************)
EXTENDS RuntimeProofs

(* The points inside Submit once it has the mutex. *)
Inside == SubmitPoint \ {"submit"}

-----------------------------------------------------------------------------
(* The scheduler's mutex. *)

(* An answer gives the mutex back if the goroutine has it. *)
LEMMA ReturnMutex ==
  ASSUME TypeOK, MutexHeld, NEW t \in Request, NEW from, Return(t, from)
  PROVE  MutexHeld'
<1>1. "idle" \notin Inside BY DEF Inside, SubmitPoint
<1> QED BY <1>1, RuntimeAssumption DEF MutexHeld, Inside, Return, Goto, TypeOK, LocalType

(* A move on one side of the mutex leaves it alone. *)
LEMMA GotoMutex ==
  ASSUME TypeOK, MutexHeld, NEW t \in Request, NEW from, NEW to, Goto(t, from, to),
         UNCHANGED holder, from \in Inside <=> to \in Inside
  PROVE  MutexHeld'
BY DEF MutexHeld, Inside, Goto, TypeOK, LocalType

(* So do the two kinds of step that move on or answer. *)
LEMMA GetMutex ==
  ASSUME TypeOK, MutexHeld, NEW t \in Request, NEW from, NEW to,
         GetStep(t, from, to), from \in Inside <=> to \in Inside
  PROVE  MutexHeld'
BY ReturnMutex, GotoMutex DEF GetStep

LEMMA TransitionMutex ==
  ASSUME TypeOK, MutexHeld, NEW t \in Request, NEW from, NEW new, NEW to,
         TransitionStep(t, from, new, to), from \in Inside <=> to \in Inside
  PROVE  MutexHeld'
BY ReturnMutex, GotoMutex DEF TransitionStep

(* Scheduler.Submit takes the mutex when no one has it. *)
LEMMA EnterMutex ==
  ASSUME TypeOK, MutexHeld, NEW t \in Request, SubmitEnter(t)
  PROVE  MutexHeld'
<1>1. {"check", "inferGet"} \subseteq Inside /\ "submit" \notin Inside
  BY DEF Inside, SubmitPoint
<1> QED BY <1>1, RuntimeAssumption
        DEF MutexHeld, Inside, SubmitEnter, Goto, TypeOK, LocalType

(* Every step keeps the mutex. *)
LEMMA NextMutex ==
  ASSUME TypeOK, MutexHeld, [Next]_vars
  PROVE  MutexHeld'
<1>1. ASSUME NEW t \in Request, SubmitStep(t) PROVE MutexHeld'
  <2>1. {"check", "loadGet", "loading", "load", "store", "loaded", "inferGet",
         "lookup", "busy", "infer"} \subseteq Inside
    BY DEF Inside, SubmitPoint
  <2>2. CASE LoadGet(t) \/ InferGet(t)
    BY <2>1, <2>2, GetMutex DEF LoadGet, InferGet
  <2>3. CASE LoadTransition(t) \/ LoadReady(t) \/ InferBusy(t)
    BY <2>1, <2>3, TransitionMutex DEF LoadTransition, LoadReady, InferBusy
  <2>4. CASE BackendLoadFails(t) \/ InferReturn(t)
    BY <2>4, ReturnMutex DEF BackendLoadFails, InferReturn
  <2>5. CASE SubmitCheck(t) \/ BackendLoads(t) \/ StoreBackend(t)
    BY <2>1, <2>5, GotoMutex DEF SubmitCheck, BackendLoads, StoreBackend
  <2>6. CASE InferLookup(t)
    BY <2>1, <2>6, ReturnMutex, GotoMutex DEF InferLookup
  <2> QED BY <1>1, <2>2, <2>3, <2>4, <2>5, <2>6 DEF SubmitStep
<1>2. ASSUME NEW t \in Request, RemoveStep(t) PROVE MutexHeld'
  <2>1. \A at \in RemovePoint \cup {"persist"} : at \notin Inside
    BY DEF Inside, SubmitPoint, RemovePoint
  <2>2. {"remove", "inspect", "unloadGet", "unloading", "detach", "unload", "release",
         "unregister"} \subseteq RemovePoint
    BY DEF RemovePoint
  <2>3. CASE RemoveGet(t) \/ UnloadGet(t)
    BY <2>1, <2>2, <2>3, GetMutex DEF RemoveGet, UnloadGet
  <2>4. CASE UnloadTransition(t) \/ UnloadDownloaded(t)
    BY <2>1, <2>2, <2>4, TransitionMutex DEF UnloadTransition, UnloadDownloaded
  <2>5. CASE RemoveInspect(t) \/ BackendUnloadFails(t)
    BY <2>1, <2>2, <2>5, ReturnMutex, GotoMutex DEF RemoveInspect, BackendUnloadFails
  <2>6. CASE Detach(t) \/ BackendUnloads(t) \/ RemoveUnregister(t)
    BY <2>1, <2>2, <2>6, GotoMutex DEF Detach, BackendUnloads, RemoveUnregister
  <2> QED BY <1>2, <2>3, <2>4, <2>5, <2>6 DEF RemoveStep
<1>3. ASSUME NEW t \in Request, PullStep(t) \/ Persist(t) PROVE MutexHeld'
  <2>1. \A at \in {"resolve", "register", "pulled", "persist"} : at \notin Inside
    BY DEF Inside, SubmitPoint
  <2>2. CASE PullResolves(t) BY <2>1, <2>2, GotoMutex DEF PullResolves
  <2>3. CASE PullFails(t) \/ Persist(t) BY <2>3, ReturnMutex DEF PullFails, Persist
  <2>4. CASE PullRegister(t) BY <2>1, <2>4, ReturnMutex, GotoMutex DEF PullRegister
  <2>5. CASE PullTransition(t) BY <2>1, <2>5, TransitionMutex DEF PullTransition
  <2> QED BY <1>3, <2>2, <2>3, <2>4, <2>5 DEF PullStep
<1>4. ASSUME NEW t \in Request, NEW n \in Name, NEW at \in {"submit", "remove", "resolve"},
             Arrive(t, n, at)
      PROVE  MutexHeld'
  <2>1. at \notin Inside /\ "idle" \notin Inside BY DEF Inside, SubmitPoint
  <2> QED BY <1>4, <2>1, GotoMutex DEF Arrive
<1>5. CASE UNCHANGED vars BY <1>5 DEF vars, MutexHeld
<1> QED BY <1>1, <1>2, <1>3, <1>4, <1>5, EnterMutex DEF Next, Step, CallSubmit, CallRemove, CallPull
-----------------------------------------------------------------------------
(* Ownership.  A step of t moves t alone, and either takes a model that no one
   owns, or gives the next state to the model that t owns, or does neither. *)

Moves(t) == \A u \in Request \ {t} : pc'[u] = pc[u] /\ mdl'[u] = mdl[u]

Takes(t) ==
  /\ Gave(pc[t]) = "nothing" /\ Gave(pc'[t]) # "nothing"
  /\ mdl'[t] \in Model
  /\ <<state[mdl'[t]], Gave(pc'[t])>> \in legalTransitions \cup {<<"Unallocated", "NotPresent">>}
  /\ state' = [state EXCEPT ![mdl'[t]] = Gave(pc'[t])]

Gives(t) ==
  /\ Gave(pc[t]) # "nothing" /\ Gave(pc'[t]) = "nothing"
  /\ mdl[t] \in Model
  /\ \E s \in {"Downloaded", "Ready"} :
       IsLegalTransition(state[mdl[t]], s) /\ state' = [state EXCEPT ![mdl[t]] = s]

(* A model is left without an owner only if its backend's Unload has failed. *)
Keeps(t) ==
  /\ UNCHANGED state
  /\ \/ Gave(pc'[t]) = Gave(pc[t]) /\ mdl'[t] = mdl[t]
     \/ Gave(pc[t]) = "nothing" /\ Gave(pc'[t]) = "nothing"
     \/ Gave(pc[t]) = "Unloading" /\ Gave(pc'[t]) = "nothing" /\ UnloadMayFail

Shape(t) == Moves(t) /\ (Takes(t) \/ Gives(t) \/ Keeps(t))

(* A model is taken out of a state in which no one owns it. *)
LEMMA TakeEdge ==
  ASSUME NEW t, Takes(t)
  PROVE  state[mdl'[t]] \in {"Unallocated", "Downloaded", "Ready"}
<1>1. Gave(pc'[t]) \notin {"Downloaded", "Ready", "nothing"} BY DEF Takes, Gave
<1>2. \A from : <<from, Gave(pc'[t])>> \in legalTransitions => from \in {"Downloaded", "Ready"}
  BY <1>1 DEF legalTransitions
<1> QED BY <1>2 DEF Takes

(* What an owned model's state can be. *)
LEMMA GaveState ==
  ASSUME NEW at
  PROVE  Gave(at) \in {"nothing", "Loading", "Busy", "Unloading", "NotPresent"}
BY DEF Gave

Ownership == OwnerState /\ Exclusive /\ HasOwner

LEMMA TakesOwnership ==
  ASSUME TypeOK, Ownership, NEW t \in Request, Moves(t), Takes(t)
  PROVE  Ownership'
<1> DEFINE x == mdl'[t]
<1>1. /\ x \in Model /\ state' = [state EXCEPT ![x] = Gave(pc'[t])]
      /\ state'[x] = Gave(pc'[t]) /\ \A m \in Model \ {x} : state'[m] = state[m]
  BY DEF Takes, TypeOK, StoreType
<1>2. \A u \in Request \ {t}, m \in Model : Owns(u, m)' <=> Owns(u, m)
  BY DEF Moves, Owns
<1>3. \A u \in Request : ~Owns(u, x)
  BY <1>1, GaveState, TakeEdge DEF Ownership, OwnerState, Owns
<1>4. \A m \in Model : Owns(t, m)' <=> m = x
  BY DEF Owns, Takes
<1>5. \A m \in Model : ~Owns(t, m) BY DEF Owns, Takes
<1>6. OwnerState'
  <2> SUFFICES ASSUME NEW u \in Request, NEW m \in Model, Owns(u, m)'
               PROVE  state'[m] = Gave(pc'[u])
    BY DEF OwnerState
  <2>1. CASE u = t BY <2>1, <1>1, <1>4
  <2>2. CASE u # t
    BY <2>2, <1>1, <1>2, <1>3 DEF Ownership, OwnerState, Moves
  <2> QED BY <2>1, <2>2
<1>7. Exclusive' BY <1>2, <1>3, <1>4 DEF Ownership, Exclusive
<1>8. HasOwner'
  <2> SUFFICES ASSUME NEW m \in Model, state'[m] \in Passing
               PROVE  \E u \in Request : Owns(u, m)'
    BY DEF HasOwner, Passing
  <2>1. CASE m = x BY <2>1, <1>1, <1>4
  <2>2. CASE m # x
    <3>1. state[m] \in Passing BY <2>2, <1>1
    <3> QED BY <3>1, <1>2, <1>5 DEF Ownership, HasOwner
  <2> QED BY <2>1, <2>2
<1> QED BY <1>6, <1>7, <1>8 DEF Ownership

LEMMA GivesOwnership ==
  ASSUME TypeOK, Ownership, NEW t \in Request, Moves(t), Gives(t)
  PROVE  Ownership'
<1> DEFINE x == mdl[t]
<1>1. /\ state'[x] \in {"Downloaded", "Ready"}
      /\ \A m \in Model \ {x} : state'[m] = state[m]
  BY DEF Gives, TypeOK, StoreType
<1>2. \A u \in Request \ {t}, m \in Model : Owns(u, m)' <=> Owns(u, m)
  BY DEF Moves, Owns
<1>3. x \in Model /\ Owns(t, x) /\ \A m \in Model : Owns(t, m) => m = x BY DEF Owns, Gives
<1>4. \A m \in Model : ~Owns(t, m)' BY DEF Owns, Gives
<1>5. \A u \in Request \ {t} : ~Owns(u, x) BY <1>3 DEF Ownership, Exclusive
<1>6. OwnerState' BY <1>1, <1>2, <1>4, <1>5 DEF Ownership, OwnerState, Moves
<1>7. Exclusive' BY <1>2, <1>4 DEF Ownership, Exclusive
<1>8. HasOwner'
  <2> SUFFICES ASSUME NEW m \in Model, state'[m] \in Passing
               PROVE  \E u \in Request : Owns(u, m)'
    BY DEF HasOwner, Passing
  <2>1. m # x /\ state[m] \in Passing BY <1>1 DEF Passing
  <2> QED BY <2>1, <1>2, <1>3 DEF Ownership, HasOwner
<1> QED BY <1>6, <1>7, <1>8 DEF Ownership

LEMMA KeepsOwnership ==
  ASSUME TypeOK, Ownership, NEW t \in Request, Moves(t), Keeps(t)
  PROVE  Ownership'
<1>1. \A u \in Request \ {t}, m \in Model : Owns(u, m)' <=> Owns(u, m)
  BY DEF Moves, Owns
<1>2. \A m \in Model : Owns(t, m)' => Owns(t, m) /\ Gave(pc'[t]) = Gave(pc[t])
  BY DEF Keeps, Owns
<1>3. OwnerState' BY <1>1, <1>2 DEF Ownership, OwnerState, Moves, Keeps
<1>4. Exclusive' BY <1>1, <1>2 DEF Ownership, Exclusive
<1>5. HasOwner'
  <2> SUFFICES ASSUME NEW m \in Model, state[m] \in Passing
               PROVE  \E u \in Request : Owns(u, m)'
    BY DEF HasOwner, Passing, Keeps
  <2>1. PICK u \in Request : Owns(u, m) BY DEF Ownership, HasOwner
  <2>2. CASE u # t BY <2>1, <2>2, <1>1
  <2>3. CASE u = t
    <3>1. Gave(pc[t]) \in Passing BY <2>1, <2>3 DEF Ownership, OwnerState
    <3>2. Gave(pc[t]) # "nothing" /\ ~(UnloadMayFail /\ Gave(pc[t]) = "Unloading")
      BY <3>1 DEF Passing
    <3> QED BY <2>1, <2>3, <3>2 DEF Keeps, Owns
  <2> QED BY <2>2, <2>3
<1> QED BY <1>3, <1>4, <1>5 DEF Ownership
-----------------------------------------------------------------------------
(* Which steps take, give and keep. *)

FreePoint == {"idle", "submit", "check", "loadGet", "loading", "inferGet", "lookup",
              "busy", "remove", "inspect", "unloadGet", "unloading", "unregister",
              "resolve", "register", "persist"}

LEMMA GaveAt ==
  /\ \A at \in FreePoint : Gave(at) = "nothing"
  /\ \A at \in LoadPoint : Gave(at) = "Loading"
  /\ Gave("infer") = "Busy"
  /\ \A at \in UnloadPoint : Gave(at) = "Unloading"
  /\ Gave("pulled") = "NotPresent"
BY DEF Gave, FreePoint, LoadPoint, UnloadPoint

LEMMA GotoMoves ==
  ASSUME TypeOK, NEW t \in Request, NEW from, NEW to, Goto(t, from, to),
         \/ UNCHANGED mdl
         \/ \E m : mdl' = [mdl EXCEPT ![t] = m]
  PROVE  Moves(t) /\ pc[t] = from /\ pc'[t] = to
BY DEF Moves, Goto, TypeOK, LocalType

LEMMA ReturnMoves ==
  ASSUME TypeOK, NEW t \in Request, NEW from, Return(t, from)
  PROVE  Moves(t) /\ pc[t] = from /\ pc'[t] = "idle"
BY GotoMoves DEF Return

(* Between free points a goroutine owns nothing. *)
LEMMA FreeShape ==
  ASSUME TypeOK, Ownership, NEW t \in Request, Moves(t), UNCHANGED state,
         pc[t] \in FreePoint, pc'[t] \in FreePoint
  PROVE  Shape(t)
<1>1. Gave(pc[t]) = "nothing" /\ Gave(pc'[t]) = "nothing" BY GaveAt
<1>2. Keeps(t) BY <1>1 DEF Keeps
<1> QED BY <1>2 DEF Shape

LEMMA GetShape ==
  ASSUME TypeOK, Ownership, NEW t \in Request, NEW from \in FreePoint,
         NEW to \in FreePoint, GetStep(t, from, to)
  PROVE  Shape(t)
<1>1. "idle" \in FreePoint BY DEF FreePoint
<1>2. UNCHANGED state BY DEF GetStep, ledger
<1>3. CASE Return(t, from) BY <1>1, <1>2, <1>3, ReturnMoves, FreeShape
<1>4. CASE ~Return(t, from)
  <2>1. Goto(t, from, to) /\ \E m : mdl' = [mdl EXCEPT ![t] = m]
    BY <1>4 DEF GetStep
  <2> QED BY <2>1, <1>2, GotoMoves, FreeShape
<1> QED BY <1>3, <1>4

(* A transition of the model that t is going to own. *)
LEMMA TakingShape ==
  ASSUME TypeOK, Ownership, NEW t \in Request, NEW from \in FreePoint, NEW to,
         NEW new \in {"Loading", "Busy", "Unloading"}, Gave(to) = new,
         mdl[t] \in Model, TransitionStep(t, from, new, to)
  PROVE  Shape(t)
<1>1. CASE Transition(mdl[t], new) /\ Goto(t, from, to) /\ UNCHANGED <<holder, locals>>
  <2>1. Moves(t) /\ pc[t] = from /\ pc'[t] = to BY <1>1, GotoMoves DEF locals
  <2>2. Takes(t)
    BY <1>1, <2>1, GaveAt DEF Takes, Transition, CanTransition, IsLegalTransition, locals
  <2> QED BY <2>1, <2>2 DEF Shape
<1>2. CASE Return(t, from) /\ UNCHANGED ledger
  <2>1. "idle" \in FreePoint BY DEF FreePoint
  <2> QED BY <1>2, <2>1, ReturnMoves, FreeShape DEF ledger
<1> QED BY <1>1, <1>2 DEF TransitionStep

(* A transition of the model that t owns, at the end of its work. *)
LEMMA GivingShape ==
  ASSUME TypeOK, Ownership, NEW t \in Request, NEW to \in FreePoint,
         NEW new \in {"Downloaded", "Ready"}, Gave(pc[t]) # "nothing",
         mdl[t] \in Model, Moves(t), pc'[t] = to, Transition(mdl[t], new)
  PROVE  Shape(t)
<1>1. Gives(t) BY GaveAt DEF Gives, Transition, CanTransition
<1> QED BY <1>1 DEF Shape

(* Loading can go back or on, and Busy back to Ready, without a reservation. *)
LEMMA LoadingEdges ==
  ASSUME NEW m, state[m] = "Loading"
  PROVE  CanTransition(m, "Downloaded") /\ CanTransition(m, "Ready")
BY DEF CanTransition, IsLegalTransition, legalTransitions, Reserves

(* An unload and a pull end in Downloaded. *)
LEMMA DownloadedEdges ==
  ASSUME NEW m, state[m] \in {"Unloading", "NotPresent"}
  PROVE  CanTransition(m, "Downloaded")
BY DEF CanTransition, IsLegalTransition, legalTransitions, Reserves

LEMMA BusyEdge ==
  ASSUME NEW m, state[m] = "Busy"
  PROVE  CanTransition(m, "Ready")
BY DEF CanTransition, IsLegalTransition, legalTransitions, Reserves

(* Scheduler.Submit. *)
LEMMA SubmitShape ==
  ASSUME TypeOK, Ownership, NEW t \in Request, SubmitEnter(t) \/ SubmitStep(t)
  PROVE  Shape(t)
<1>1. {"idle", "submit", "check", "loadGet", "loading", "inferGet", "lookup", "busy"}
      \subseteq FreePoint
  BY DEF FreePoint
<1>2. {"load", "store", "loaded"} = LoadPoint BY DEF LoadPoint
<1>3. pc[t] \in LoadPoint \cup {"infer", "loading", "busy"} => mdl[t] \in Model
  BY DEF TypeOK, LocalType, UsesModel, LoadPoint
<1>4. CASE SubmitEnter(t)
  <2>1. \E m : mdl' = [mdl EXCEPT ![t] = m] BY <1>4 DEF SubmitEnter
  <2>2. /\ Goto(t, "submit", IF Get(name[t]) = None THEN "inferGet" ELSE "check")
        /\ UNCHANGED state
    BY <1>4 DEF SubmitEnter, ledger
  <2>3. Moves(t) /\ pc[t] = "submit" /\ pc'[t] \in {"inferGet", "check"}
    BY <2>1, <2>2, GotoMoves
  <2> QED BY <1>1, <2>2, <2>3, FreeShape
<1>5. CASE SubmitCheck(t)
  <2>1. Moves(t) /\ pc[t] = "check" /\ pc'[t] \in {"loadGet", "inferGet"} /\ UNCHANGED state
    BY <1>5, GotoMoves DEF SubmitCheck, locals, ledger
  <2> QED BY <1>1, <2>1, FreeShape
<1>6. CASE LoadGet(t) \/ InferGet(t)
  BY <1>1, <1>6, GetShape DEF LoadGet, InferGet
<1>7. CASE LoadTransition(t)
  <2>1. pc[t] = "loading" BY <1>7 DEF LoadTransition, TransitionStep
  <2> QED BY <1>1, <1>2, <1>3, <1>7, <2>1, GaveAt, TakingShape DEF LoadTransition
<1>8. CASE InferBusy(t)
  <2>1. pc[t] = "busy" BY <1>8 DEF InferBusy, TransitionStep
  <2> QED BY <1>1, <1>3, <1>8, <2>1, GaveAt, TakingShape DEF InferBusy
<1>9. CASE BackendLoads(t) \/ StoreBackend(t)
  <2>1. Moves(t) /\ pc[t] \in LoadPoint /\ pc'[t] \in LoadPoint
    BY <1>2, <1>9, GotoMoves DEF BackendLoads, StoreBackend
  <2>2. UNCHANGED <<state, mdl>> BY <1>9 DEF BackendLoads, StoreBackend, ledger
  <2>3. Keeps(t) BY <2>1, <2>2, GaveAt DEF Keeps
  <2> QED BY <2>1, <2>3 DEF Shape
<1>10. CASE BackendLoadFails(t)
  <2>1. Moves(t) /\ pc[t] = "load" /\ pc'[t] = "idle"
    BY <1>10, ReturnMoves DEF BackendLoadFails
  <2>2. Gave(pc[t]) = "Loading" /\ mdl[t] \in Model BY <1>2, <1>3, <2>1, GaveAt
  <2>3. state[mdl[t]] = "Loading" BY <2>2 DEF Ownership, OwnerState, Owns
  <2>4. Transition(mdl[t], "Downloaded")
    BY <1>10, <2>3, LoadingEdges DEF BackendLoadFails, TryTransition
  <2> QED BY <1>1, <2>1, <2>2, <2>4, GivingShape
<1>11. CASE LoadReady(t)
  <2>1. pc[t] = "loaded" BY <1>11 DEF LoadReady, TransitionStep
  <2>2. Gave(pc[t]) = "Loading" /\ mdl[t] \in Model BY <1>2, <1>3, <2>1, GaveAt
  <2>3. state[mdl[t]] = "Loading" BY <2>2 DEF Ownership, OwnerState, Owns
  <2>4. Transition(mdl[t], "Ready") /\ Goto(t, "loaded", "inferGet") /\ UNCHANGED mdl
    BY <1>11, <2>3, LoadingEdges DEF LoadReady, TransitionStep, locals
  <2>5. Moves(t) /\ pc'[t] = "inferGet" BY <2>4, GotoMoves
  <2> QED BY <1>1, <2>2, <2>4, <2>5, GivingShape
<1>12. CASE InferLookup(t)
  <2>1. Moves(t) /\ pc[t] = "lookup" /\ pc'[t] \in {"busy", "idle"} /\ UNCHANGED state
    BY <1>12, GotoMoves, ReturnMoves DEF InferLookup, ledger
  <2> QED BY <1>1, <2>1, FreeShape
<1>13. CASE InferReturn(t)
  <2>1. Moves(t) /\ pc[t] = "infer" /\ pc'[t] = "idle"
    BY <1>13, ReturnMoves DEF InferReturn
  <2>2. Gave(pc[t]) = "Busy" /\ mdl[t] \in Model BY <1>3, <2>1, GaveAt
  <2>3. state[mdl[t]] = "Busy" BY <2>2 DEF Ownership, OwnerState, Owns
  <2>4. Transition(mdl[t], "Ready")
    BY <1>13, <2>3, BusyEdge DEF InferReturn, TryTransition
  <2> QED BY <1>1, <2>1, <2>2, <2>4, GivingShape
<1> QED BY <1>4, <1>5, <1>6, <1>7, <1>8, <1>9, <1>10, <1>11, <1>12, <1>13 DEF SubmitStep

(* Manager.Remove. *)
LEMMA RemoveShape ==
  ASSUME TypeOK, Ownership, NEW t \in Request, RemoveStep(t)
  PROVE  Shape(t)
<1>1. {"idle", "remove", "inspect", "unloadGet", "unloading", "unregister", "persist"}
      \subseteq FreePoint
  BY DEF FreePoint
<1>2. {"detach", "unload", "release"} = UnloadPoint BY DEF UnloadPoint
<1>3. pc[t] \in UnloadPoint \cup {"unloading"} => mdl[t] \in Model
  BY DEF TypeOK, LocalType, UsesModel, UnloadPoint
<1>4. CASE RemoveGet(t) \/ UnloadGet(t)
  BY <1>1, <1>4, GetShape DEF RemoveGet, UnloadGet
<1>5. CASE RemoveInspect(t)
  <2>1. Moves(t) /\ pc[t] = "inspect" /\ pc'[t] \in {"unloadGet", "idle", "unregister"}
        /\ UNCHANGED state
    BY <1>5, GotoMoves, ReturnMoves DEF RemoveInspect, locals, ledger
  <2> QED BY <1>1, <2>1, FreeShape
<1>6. CASE RemoveUnregister(t)
  <2>1. Moves(t) /\ pc[t] = "unregister" /\ pc'[t] = "persist" /\ UNCHANGED state
    BY <1>6, GotoMoves DEF RemoveUnregister, locals, ledger
  <2> QED BY <1>1, <2>1, FreeShape
<1>7. CASE UnloadTransition(t)
  <2>1. pc[t] = "unloading" BY <1>7 DEF UnloadTransition, TransitionStep
  <2> QED BY <1>1, <1>2, <1>3, <1>7, <2>1, GaveAt, TakingShape DEF UnloadTransition
<1>8. CASE Detach(t) \/ BackendUnloads(t)
  <2>1. Moves(t) /\ pc[t] \in UnloadPoint /\ pc'[t] \in UnloadPoint
    BY <1>2, <1>8, GotoMoves DEF Detach, BackendUnloads, locals
  <2>2. UNCHANGED <<state, mdl>> BY <1>8 DEF Detach, BackendUnloads, ledger, locals
  <2>3. Keeps(t) BY <2>1, <2>2, GaveAt DEF Keeps
  <2> QED BY <2>1, <2>3 DEF Shape
<1>9. CASE BackendUnloadFails(t)
  <2>1. Moves(t) /\ pc[t] = "unload" /\ pc'[t] = "idle" /\ UNCHANGED state
    BY <1>9, ReturnMoves DEF BackendUnloadFails, ledger
  <2>2. Keeps(t) BY <1>1, <1>2, <1>9, <2>1, GaveAt DEF Keeps, BackendUnloadFails
  <2> QED BY <2>1, <2>2 DEF Shape
<1>10. CASE UnloadDownloaded(t)
  <2>1. pc[t] = "release" BY <1>10 DEF UnloadDownloaded, TransitionStep
  <2>2. Gave(pc[t]) = "Unloading" /\ mdl[t] \in Model BY <1>2, <1>3, <2>1, GaveAt
  <2>3. state[mdl[t]] = "Unloading" BY <2>2 DEF Ownership, OwnerState, Owns
  <2>4. /\ Transition(mdl[t], "Downloaded") /\ Goto(t, "release", "unregister")
        /\ UNCHANGED mdl
    BY <1>10, <2>3, DownloadedEdges DEF UnloadDownloaded, TransitionStep, locals
  <2>5. Moves(t) /\ pc'[t] = "unregister" BY <2>4, GotoMoves
  <2> QED BY <1>1, <2>2, <2>4, <2>5, GivingShape
<1> QED BY <1>4, <1>5, <1>6, <1>7, <1>8, <1>9, <1>10 DEF RemoveStep

(* Manager.Pull, and persist. *)
LEMMA PullShape ==
  ASSUME TypeOK, Ownership, NEW t \in Request, PullStep(t) \/ Persist(t)
  PROVE  Shape(t)
<1>1. {"idle", "resolve", "register", "persist"} \subseteq FreePoint BY DEF FreePoint
<1>2. CASE PullResolves(t)
  <2>1. Moves(t) /\ pc[t] = "resolve" /\ pc'[t] = "register" /\ UNCHANGED state
    BY <1>2, GotoMoves DEF PullResolves, locals, ledger
  <2> QED BY <1>1, <2>1, FreeShape
<1>3. CASE PullFails(t) \/ Persist(t)
  <2>1. Moves(t) /\ pc[t] \in {"resolve", "persist"} /\ pc'[t] = "idle" /\ UNCHANGED state
    BY <1>3, ReturnMoves DEF PullFails, Persist, ledger
  <2> QED BY <1>1, <2>1, FreeShape
<1>4. CASE PullRegister(t)
  <2>1. ASSUME NEW m \in Model, Register(name[t], m), mdl' = [mdl EXCEPT ![t] = m],
               Goto(t, "register", "pulled")
        PROVE  Shape(t)
    <3>1. Moves(t) /\ pc[t] = "register" /\ pc'[t] = "pulled" BY <2>1, GotoMoves
    <3>2. mdl'[t] = m BY <2>1 DEF TypeOK, LocalType
    <3>3. Takes(t)
      BY <1>1, <2>1, <3>1, <3>2, GaveAt DEF Takes, Register, Unallocated
    <3> QED BY <3>1, <3>3 DEF Shape
  <2>2. CASE Return(t, "register") /\ UNCHANGED state
    BY <1>1, <2>2, ReturnMoves, FreeShape
  <2> QED BY <1>4, <2>1, <2>2 DEF PullRegister
<1>5. CASE PullTransition(t)
  <2>1. pc[t] = "pulled" BY <1>5 DEF PullTransition, TransitionStep
  <2>2. Gave(pc[t]) = "NotPresent" /\ mdl[t] \in Model
    BY <2>1, GaveAt DEF TypeOK, LocalType, UsesModel
  <2>3. state[mdl[t]] = "NotPresent" BY <2>2 DEF Ownership, OwnerState, Owns
  <2>4. /\ Transition(mdl[t], "Downloaded") /\ Goto(t, "pulled", "persist")
        /\ UNCHANGED mdl
    BY <1>5, <2>3, DownloadedEdges DEF PullTransition, TransitionStep, locals
  <2>5. Moves(t) /\ pc'[t] = "persist" BY <2>4, GotoMoves
  <2> QED BY <1>1, <2>2, <2>4, <2>5, GivingShape
<1> QED BY <1>2, <1>3, <1>4, <1>5 DEF PullStep

(* Every step has the shape of a step of one goroutine. *)
LEMMA NextShape ==
  ASSUME TypeOK, Ownership, Next
  PROVE  \E t \in Request : Shape(t)
<1>1. ASSUME NEW t \in Request, NEW n \in Name, NEW at \in {"submit", "remove", "resolve"},
             Arrive(t, n, at)
      PROVE  Shape(t)
  <2>1. Moves(t) /\ pc[t] = "idle" /\ pc'[t] = at /\ UNCHANGED state
    BY <1>1, GotoMoves DEF Arrive, ledger
  <2>2. "idle" \in FreePoint /\ at \in FreePoint BY DEF FreePoint
  <2> QED BY <2>1, <2>2, FreeShape
<1> QED BY <1>1, SubmitShape, RemoveShape, PullShape
        DEF Next, Step, CallSubmit, CallRemove, CallPull

(* Every step keeps ownership. *)
LEMMA NextOwned ==
  ASSUME TypeOK, Owned, [Next]_vars
  PROVE  Owned'
<1>1. MutexHeld' BY NextMutex DEF Owned
<1>2. Ownership BY DEF Owned, Ownership
<1>3. ASSUME UNCHANGED vars PROVE Ownership'
  BY <1>2, <1>3 DEF vars, Ownership, OwnerState, Exclusive, HasOwner, Passing, Owns
<1>4. ASSUME NEW t \in Request, Shape(t) PROVE Ownership'
  BY <1>2, <1>4, TakesOwnership, GivesOwnership, KeepsOwnership DEF Shape
<1> QED BY <1>1, <1>2, <1>3, <1>4, NextShape DEF Owned, Ownership

(* A server starts with no owners and no owned models. *)
LEMMA InitOwned == Init => Owned
<1> SUFFICES ASSUME Init PROVE Owned OBVIOUS
<1>1. "idle" \in FreePoint /\ "idle" \notin SubmitPoint BY DEF FreePoint, SubmitPoint
<1>2. MutexHeld BY <1>1, RuntimeAssumption DEF Init, MutexHeld
<1>3. \A t \in Request : pc[t] = "idle" BY DEF Init
<1>4. OwnerState /\ Exclusive BY <1>1, <1>3, GaveAt DEF OwnerState, Exclusive, Owns
<1>5. HasOwner BY DEF Init, ManagerInit, HasOwner, Passing
<1> QED BY <1>2, <1>4, <1>5 DEF Owned

(* A goroutine owns the model it works on, and no model is left in a state that
   it is meant to leave, but for an Unload that fails. *)
THEOREM WorkIsOwned == Spec => []Owned
<1>1. TypeOK /\ Owned /\ [Next]_vars => Owned' BY NextOwned
<1> QED BY <1>1, InitOwned, TypeCorrect, PTL DEF Spec

(* Requests are served one at a time: the owner of a Loading or Busy model is
   inside Submit, and so has the mutex. *)
THEOREM ServedOneAtATime == Spec => []OneActive
<1>1. ASSUME TypeOK, Owned PROVE OneActive
  <2> SUFFICES ASSUME NEW m \in Active PROVE holder # None /\ mdl[holder] = m
    BY DEF OneActive
  <2>1. PICK t \in Request : Owns(t, m) BY <1>1 DEF Owned, HasOwner, Passing, Active
  <2>2. m \in Model /\ state[m] = Gave(pc[t]) BY <1>1, <2>1 DEF Owned, OwnerState, Active
  <2>3. Gave(pc[t]) \in {"Loading", "Busy"} BY <2>2 DEF Active
  <2>4. pc[t] \in LoadPoint \cup {"infer"} BY <2>3 DEF Gave
  <2>5. pc[t] \in SubmitPoint \ {"submit"} BY <2>4 DEF LoadPoint, SubmitPoint
  <2>6. holder = t BY <1>1, <2>5 DEF Owned, MutexHeld
  <2> QED BY <2>1, <2>6, RuntimeAssumption DEF Owns
<1> QED BY <1>1, WorkIsOwned, TypeCorrect, PTL
=============================================================================
