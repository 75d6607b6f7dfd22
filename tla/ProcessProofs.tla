---------------------------- MODULE ProcessProofs ---------------------------
(***************************************************************************)
(* Which process serves which model.  A handler finds a model by its name, *)
(* and a backend by the name again, in critical sections of their own; so  *)
(* these proofs are about what names, models and instances have to do with *)
(* each other while Removes and Pulls give the names to other models.      *)
(*                                                                         *)
(* First what holds whatever overlaps: a reply comes from the model that   *)
(* was asked.  Then what holds of a name that has not been removed, and    *)
(* what holds as long as no two Removes of one name overlap.               *)
(***************************************************************************)
EXTENDS OwnershipProofs, Removes

(* What ownership says of a goroutine at its points, state by state. *)
AtWork ==
  \A t \in Request :
    /\ pc[t] \in LoadPoint => state[mdl[t]] = "Loading"
    /\ pc[t] = "infer" => state[mdl[t]] = "Busy"
    /\ pc[t] \in UnloadPoint => state[mdl[t]] = "Unloading"
    /\ pc[t] = "pulled" => state[mdl[t]] = "NotPresent"
    /\ pc[t] \in Inside <=> holder = t
    /\ \A m \in Active : holder = t => mdl[t] = m /\ pc[t] \in LoadPoint \cup {"infer"}

LEMMA OwnersAtWork == ASSUME TypeOK, Owned PROVE AtWork
<1>1. \A t \in Request : pc[t] \in LoadPoint \cup UnloadPoint \cup {"infer", "pulled"}
                         => mdl[t] \in Model
  BY DEF TypeOK, LocalType, UsesModel, LoadPoint, UnloadPoint
<1>2. \A t \in Request : mdl[t] \in Model /\ Gave(pc[t]) # "nothing"
                         => state[mdl[t]] = Gave(pc[t])
  BY DEF Owned, OwnerState, Owns
<1>3. \A t \in Request :
        /\ pc[t] \in LoadPoint => state[mdl[t]] = "Loading"
        /\ pc[t] = "infer" => state[mdl[t]] = "Busy"
        /\ pc[t] \in UnloadPoint => state[mdl[t]] = "Unloading"
        /\ pc[t] = "pulled" => state[mdl[t]] = "NotPresent"
  BY <1>1, <1>2, GaveAt
<1>4. \A t \in Request : pc[t] \in Inside <=> holder = t
  BY DEF Owned, MutexHeld, Inside
<1>5. ASSUME NEW m \in Active, NEW t \in Request, holder = t
      PROVE  mdl[t] = m /\ pc[t] \in LoadPoint \cup {"infer"}
  <2>1. PICK u \in Request : Owns(u, m) BY DEF Owned, HasOwner, Passing, Active
  <2>2. m \in Model /\ mdl[u] = m /\ Gave(pc[u]) \in {"Loading", "Busy"}
    BY <2>1 DEF Owned, OwnerState, Owns, Active
  <2>3. pc[u] \in LoadPoint \cup {"infer"} BY <2>2 DEF Gave
  <2>4. u = t BY <1>4, <1>5, <2>3 DEF LoadPoint, Inside, SubmitPoint
  <2> QED BY <2>2, <2>3, <2>4
<1> QED BY <1>3, <1>4, <1>5 DEF AtWork
-----------------------------------------------------------------------------
(* Whatever overlaps. *)

(* An object is registered under one name in its life, the one by which every
   handler that holds it has found it. *)
Named ==
  /\ \A n \in Name : models[n] # None => state[models[n]] # "Unallocated"
  /\ \A n, o \in Name : models[n] # None /\ models[n] = models[o] => n = o
  /\ \A t \in Request :
       mdl[t] # None => /\ pc[t] # "idle"
                        /\ state[mdl[t]] # "Unallocated"
                        /\ \A n \in Name : models[n] = mdl[t] => n = name[t]

(* While a goroutine has the mutex, its name may be given to another model, but
   that one has not been loaded. *)
Renamed ==
  \A t \in Request : holder = t /\ mdl[t] # None
    => \/ models[name[t]] \in {mdl[t], None}
       \/ state[models[name[t]]] \in {"NotPresent", "Downloaded"}

(* The table entry of a registered model in use is its own. *)
InTable ==
  \A n \in Name :
    models[n] # None /\ backends[n] # None
    /\ state[models[n]] \in {"Ready", "Busy", "Unloading"}
    => weights[backends[n]] = models[n]

(* So is the one that a Submit is about to use, registered or not, if the model
   can still become Busy. *)
Serving ==
  \A t \in Request :
    /\ pc[t] \in {"store", "infer"} => weights[be[t]] = mdl[t]
    /\ pc[t] = "loaded" /\ backends[name[t]] # None => weights[backends[name[t]]] = mdl[t]
    /\ pc[t] = "lookup" /\ backends[name[t]] # None /\ state[mdl[t]] = "Ready"
       => weights[backends[name[t]]] = mdl[t]
    /\ pc[t] = "busy" /\ state[mdl[t]] = "Ready" => weights[be[t]] = mdl[t]

ServeInv == Named /\ Renamed /\ InTable /\ Serving

LEMMA SubmitServes ==
  ASSUME TypeOK, AtWork, ServeInv, NEW t \in Request, SubmitEnter(t) \/ SubmitStep(t)
  PROVE  ServeInv'
<1> USE NoneAssumption, RuntimeAssumption
    DEF TypeOK, StoreType, LocalType, UsesModel, UsesBackend,
        ServeInv, Named, Renamed, InTable, Serving, Return, Goto, ledger, store, loaded, locals
<1>1. CASE SubmitEnter(t) BY <1>1 DEF SubmitEnter, Get
<1>2. CASE SubmitCheck(t) BY <1>2 DEF SubmitCheck
<1>3. CASE LoadGet(t) \/ InferGet(t)
  <2>1. holder = t
    BY <1>3 DEF LoadGet, InferGet, GetStep, AtWork, Inside, SubmitPoint
  <2> QED BY <1>3, <2>1 DEF LoadGet, InferGet, GetStep, Get
<1>4. CASE LoadTransition(t)
  <2>1. holder = t BY <1>4 DEF LoadTransition, TransitionStep, AtWork, Inside, SubmitPoint
  <2> QED BY <1>4, <2>1
          DEF LoadTransition, TransitionStep, Transition, CanTransition, IsLegalTransition,
              legalTransitions, AtWork, Inside, SubmitPoint
<1>5. CASE BackendLoads(t) BY <1>5 DEF BackendLoads, Unused
<1>6. CASE BackendLoadFails(t)
  BY <1>6 DEF BackendLoadFails, TryTransition, Transition, AtWork, LoadPoint
<1>7. CASE StoreBackend(t)
  (* What is registered under the name, if it is not the model that has been
     loaded, has no use of the table. *)
  <2>1. holder = t /\ state[mdl[t]] = "Loading"
    BY <1>7 DEF StoreBackend, AtWork, LoadPoint, Inside, SubmitPoint
  <2>2. models[name[t]] # None => state[models[name[t]]] \notin {"Ready", "Busy", "Unloading"}
    BY <1>7, <2>1 DEF StoreBackend
  <2> QED BY <1>7, <2>1, <2>2 DEF StoreBackend, AtWork, Inside, SubmitPoint
<1>8. CASE LoadReady(t)
  BY <1>8 DEF LoadReady, TransitionStep, Transition, AtWork, LoadPoint, Inside, SubmitPoint
<1>9. CASE InferLookup(t) BY <1>9 DEF InferLookup
<1>10. CASE InferBusy(t)
  BY <1>10 DEF InferBusy, TransitionStep, Transition, CanTransition, IsLegalTransition,
               legalTransitions, AtWork, Inside, SubmitPoint
<1>11. CASE InferReturn(t)
  BY <1>11 DEF InferReturn, TryTransition, Transition, AtWork, Inside, SubmitPoint
<1> QED BY <1>1, <1>2, <1>3, <1>4, <1>5, <1>6, <1>7, <1>8, <1>9, <1>10, <1>11 DEF SubmitStep

LEMMA RemoveServes ==
  ASSUME TypeOK, AtWork, ServeInv, NEW t \in Request, RemoveStep(t)
  PROVE  ServeInv'
<1> USE NoneAssumption, RuntimeAssumption
    DEF TypeOK, StoreType, LocalType, UsesModel, UsesBackend,
        ServeInv, Named, Renamed, InTable, Serving, Return, Goto, ledger, store, loaded, locals
<1>0. pc[t] \in RemovePoint => holder # t BY DEF AtWork, Inside, SubmitPoint, RemovePoint
<1>1. CASE RemoveGet(t) \/ UnloadGet(t)
  BY <1>0, <1>1 DEF RemoveGet, UnloadGet, GetStep, Get, RemovePoint
<1>2. CASE RemoveInspect(t) BY <1>2 DEF RemoveInspect
<1>3. CASE UnloadTransition(t)
  BY <1>3 DEF UnloadTransition, TransitionStep, Transition, CanTransition, IsLegalTransition,
              legalTransitions
<1>4. CASE Detach(t) BY <1>4 DEF Detach
<1>5. CASE BackendUnloads(t) \/ BackendUnloadFails(t)
  BY <1>5 DEF BackendUnloads, BackendUnloadFails
<1>6. CASE UnloadDownloaded(t)
  BY <1>6 DEF UnloadDownloaded, TransitionStep, Transition, AtWork, UnloadPoint
<1>7. CASE RemoveUnregister(t) BY <1>7 DEF RemoveUnregister, Unregister
<1> QED BY <1>1, <1>2, <1>3, <1>4, <1>5, <1>6, <1>7 DEF RemoveStep

LEMMA PullServes ==
  ASSUME TypeOK, AtWork, ServeInv, NEW t \in Request, PullStep(t) \/ Persist(t)
  PROVE  ServeInv'
<1> USE NoneAssumption, RuntimeAssumption
    DEF TypeOK, StoreType, LocalType, UsesModel, UsesBackend,
        ServeInv, Named, Renamed, InTable, Serving, Return, Goto, ledger, store, loaded, locals
<1>1. CASE PullResolves(t) \/ PullFails(t) \/ Persist(t)
  BY <1>1 DEF PullResolves, PullFails, Persist
<1>2. CASE PullRegister(t)
  (* The object is new: no name and no handler has it. *)
  <2>1. holder # t BY <1>2 DEF PullRegister, AtWork, Inside, SubmitPoint
  <2> QED BY <1>2, <2>1 DEF PullRegister, Register, Unallocated, Get
<1>3. CASE PullTransition(t)
  BY <1>3 DEF PullTransition, TransitionStep, Transition, AtWork
<1> QED BY <1>1, <1>2, <1>3 DEF PullStep

(* Every step of every handler. *)
LEMMA NextServes ==
  ASSUME TypeOK, Owned, ServeInv, [Next]_vars
  PROVE  ServeInv'
<1>1. AtWork BY OwnersAtWork
<1>2. ASSUME NEW t \in Request, NEW n \in Name, NEW at \in {"submit", "remove", "resolve"},
             Arrive(t, n, at)
      PROVE  ServeInv'
  <2>1. holder # t BY <1>1, <1>2 DEF Arrive, Goto, AtWork, Inside, SubmitPoint
  <2> QED BY <1>2, <2>1
          DEF Arrive, Goto, TypeOK, StoreType, LocalType, ServeInv, Named, Renamed, InTable,
              Serving, ledger, store, loaded
<1>3. CASE UNCHANGED vars
  BY <1>3 DEF vars, loaded, ServeInv, Named, Renamed, InTable, Serving
<1> QED BY <1>1, <1>2, <1>3, SubmitServes, RemoveServes, PullServes
        DEF Next, Step, CallSubmit, CallRemove, CallPull

LEMMA InitServes == Init => ServeInv
<1> SUFFICES ASSUME Init PROVE ServeInv OBVIOUS
<1>1. Named BY NoneAssumption DEF Init, ManagerInit, Named, Registered
<1>2. Renamed /\ InTable /\ Serving
  BY DEF Init, ManagerInit, Renamed, InTable, Serving
<1> QED BY <1>1, <1>2 DEF ServeInv

LEMMA AlwaysServes == Spec => [](TypeOK /\ Owned /\ ServeInv)
<1>1. TypeOK /\ Owned /\ ServeInv /\ [Next]_vars => ServeInv' BY NextServes
<1> QED BY <1>1, InitServes, TypeCorrect, WorkIsOwned, PTL DEF Spec

(* A reply comes from the model that was asked, whatever is removed, pulled and
   loaded between the lookups of a request. *)
THEOREM RepliesAreOwn == Spec => []InferOwnBackend
<1>1. ServeInv => InferOwnBackend BY DEF ServeInv, Serving, InferOwnBackend
<1> QED BY <1>1, AlwaysServes, PTL
-----------------------------------------------------------------------------
(* What Removes there have been. *)

LEMMA HistIsSpec == HistSpec => Spec
<1>1. HistInit => Init BY DEF HistInit
<1>2. [HistNext]_histVars => [Next]_vars BY DEF HistNext, histVars
<1> QED BY <1>1, <1>2, PTL DEF HistSpec, Spec

(* A name is being removed by one request at most. *)
Single == \A t, u \in Removing : name[t] = name[u] => t = u

(* The history variables know of the Removes in progress. *)
Told ==
  /\ \A t \in Removing : name[t] \in removed
  /\ clashed \/ Single
  /\ clashed => removed # {}

LEMMA NextTold ==
  ASSUME Told, [HistNext]_histVars
  PROVE  Told' /\ removed \subseteq removed' /\ (clashed => clashed')
<1>1. CASE HistNext BY <1>1 DEF HistNext, Told, Single, Clash
<1>2. CASE UNCHANGED histVars BY <1>2 DEF histVars, vars, Told, Single, Removing
<1> QED BY <1>1, <1>2

LEMMA InitTold == HistInit => Told
<1> SUFFICES ASSUME HistInit PROVE Told OBVIOUS
<1>1. Removing = {} /\ ~clashed BY DEF HistInit, Init, Removing, RemovePoint
<1> QED BY <1>1 DEF Told, Single

LEMMA AlwaysTold == HistSpec => [](TypeOK /\ Owned /\ ServeInv /\ Told)
<1>1. Told /\ [HistNext]_histVars => Told' BY NextTold
<1> QED BY <1>1, InitTold, HistIsSpec, AlwaysServes, PTL DEF HistSpec
-----------------------------------------------------------------------------
(* A name that has not been removed. *)

(* A model stays registered, and under the name that a handler has found it by. *)
Settled ==
  /\ removed = {} => \A m \in Model : state[m] # "Unallocated" => Registered(m)
  /\ \A t \in Request : pc[t] \in SubmitPoint /\ mdl[t] # None /\ name[t] \notin removed
       => models[name[t]] = mdl[t]

(* So the table has an entry for a name only while the model of the name is in
   memory, and not before its load has succeeded. *)
Tabled ==
  /\ \A n \in Name \ removed :
       /\ models[n] # None => state[models[n]] # "Unloading"
       /\ backends[n] # None
          => models[n] # None /\ state[models[n]] \in {"Loading", "Ready", "Busy"}
  /\ \A t \in Request : pc[t] \in {"load", "store"} /\ name[t] \notin removed
       => backends[name[t]] = None

(* And no other handler changes the state of the model that a Submit has seen. *)
Expected ==
  \A t \in Request : name[t] \notin removed =>
    /\ pc[t] \in {"loadGet", "loading"} => mdl[t] # None /\ state[mdl[t]] = "Downloaded"
    /\ pc[t] = "busy" => state[mdl[t]] = "Ready"

NoneInv == Settled /\ Tabled /\ Expected

LEMMA SubmitNone ==
  ASSUME TypeOK, AtWork, ServeInv, NoneInv, removed \subseteq removed',
         NEW t \in Request, SubmitEnter(t) \/ SubmitStep(t)
  PROVE  NoneInv'
<1> USE NoneAssumption, RuntimeAssumption
    DEF TypeOK, StoreType, LocalType, UsesModel, UsesBackend, ServeInv, Named, Registered,
        NoneInv, Settled, Tabled, Expected, AtWork, Inside, Active, LoadPoint, UnloadPoint,
        SubmitPoint, Return, Goto, ledger, store, loaded, locals
<1>1. CASE SubmitEnter(t) BY <1>1 DEF SubmitEnter, Get
<1>2. CASE SubmitCheck(t) BY <1>2 DEF SubmitCheck
<1>3. CASE LoadGet(t) \/ InferGet(t) BY <1>3 DEF LoadGet, InferGet, GetStep, Get
<1>4. CASE LoadTransition(t)
  BY <1>4 DEF LoadTransition, TransitionStep, Transition, CanTransition, IsLegalTransition,
              legalTransitions
<1>5. CASE BackendLoads(t) BY <1>5 DEF BackendLoads, Unused
<1>6. CASE BackendLoadFails(t) BY <1>6 DEF BackendLoadFails, TryTransition, Transition
<1>7. CASE StoreBackend(t) BY <1>7 DEF StoreBackend
<1>8. CASE LoadReady(t) BY <1>8 DEF LoadReady, TransitionStep, Transition
<1>9. CASE InferLookup(t) BY <1>9 DEF InferLookup
<1>10. CASE InferBusy(t) BY <1>10 DEF InferBusy, TransitionStep, Transition
<1>11. CASE InferReturn(t) BY <1>11 DEF InferReturn, TryTransition, Transition
<1> QED BY <1>1, <1>2, <1>3, <1>4, <1>5, <1>6, <1>7, <1>8, <1>9, <1>10, <1>11 DEF SubmitStep

LEMMA PullNone ==
  ASSUME TypeOK, AtWork, ServeInv, NoneInv, removed \subseteq removed',
         NEW t \in Request, PullStep(t) \/ Persist(t)
  PROVE  NoneInv'
<1> USE NoneAssumption, RuntimeAssumption
    DEF TypeOK, StoreType, LocalType, UsesModel, UsesBackend, ServeInv, Named, Registered,
        NoneInv, Settled, Tabled, Expected, AtWork, Inside, LoadPoint, UnloadPoint,
        SubmitPoint, Return, Goto, ledger, store, loaded, locals
<1>1. CASE PullResolves(t) \/ PullFails(t) \/ Persist(t)
  BY <1>1 DEF PullResolves, PullFails, Persist
<1>2. CASE PullRegister(t) BY <1>2 DEF PullRegister, Register, Unallocated, Get
<1>3. CASE PullTransition(t) BY <1>3 DEF PullTransition, TransitionStep, Transition
<1> QED BY <1>1, <1>2, <1>3 DEF PullStep

(* A Remove changes what there is under its own name only. *)
LEMMA RemoveNone ==
  ASSUME TypeOK, AtWork, ServeInv, Told, NoneInv, removed \subseteq removed',
         NEW t \in Request, RemoveStep(t)
  PROVE  NoneInv'
<1> USE NoneAssumption, RuntimeAssumption
    DEF TypeOK, StoreType, LocalType, UsesModel, UsesBackend, ServeInv, Named, Registered,
        NoneInv, Settled, Tabled, Expected, AtWork, Inside, LoadPoint, UnloadPoint,
        SubmitPoint, Told, Removing, RemovePoint, Return, Goto, ledger, store, loaded, locals
<1>1. CASE RemoveGet(t) \/ UnloadGet(t) BY <1>1 DEF RemoveGet, UnloadGet, GetStep, Get
<1>2. CASE RemoveInspect(t) BY <1>2 DEF RemoveInspect
<1>3. CASE UnloadTransition(t)
  BY <1>3 DEF UnloadTransition, TransitionStep, Transition, CanTransition, IsLegalTransition,
              legalTransitions
<1>4. CASE Detach(t) BY <1>4 DEF Detach
<1>5. CASE BackendUnloads(t) \/ BackendUnloadFails(t)
  BY <1>5 DEF BackendUnloads, BackendUnloadFails
<1>6. CASE UnloadDownloaded(t)
  BY <1>6 DEF UnloadDownloaded, TransitionStep, Transition
<1>7. CASE RemoveUnregister(t) BY <1>7 DEF RemoveUnregister, Unregister
<1> QED BY <1>1, <1>2, <1>3, <1>4, <1>5, <1>6, <1>7 DEF RemoveStep

LEMMA NextNone ==
  ASSUME TypeOK, Owned, ServeInv, Told, NoneInv, [HistNext]_histVars
  PROVE  NoneInv'
<1>0. removed \subseteq removed' BY NextTold
<1>1. AtWork BY OwnersAtWork
<1>2. ASSUME NEW t \in Request, NEW n \in Name, NEW at \in {"submit", "remove", "resolve"},
             Arrive(t, n, at)
      PROVE  NoneInv'
  <2>1. mdl[t] = None BY <1>2 DEF Arrive, Goto, ServeInv, Named
  <2> QED BY <1>0, <1>2, <2>1
          DEF Arrive, Goto, TypeOK, StoreType, LocalType, NoneInv, Settled, Tabled, Expected,
              Registered, ledger, store, loaded
<1>3. CASE UNCHANGED histVars
  BY <1>3 DEF histVars, vars, loaded, NoneInv, Settled, Tabled, Expected, Registered
<1> QED BY <1>0, <1>1, <1>2, <1>3, SubmitNone, RemoveNone, PullNone
        DEF HistNext, Next, Step, CallSubmit, CallRemove, CallPull

LEMMA InitNone == HistInit => NoneInv
<1> SUFFICES ASSUME HistInit PROVE NoneInv OBVIOUS
<1> QED BY NoneAssumption
        DEF HistInit, Init, ManagerInit, NoneInv, Settled, Tabled, Expected, Registered,
            SubmitPoint

LEMMA AlwaysNone == HistSpec => [](TypeOK /\ Owned /\ ServeInv /\ Told /\ NoneInv)
<1>1. TypeOK /\ Owned /\ ServeInv /\ Told /\ NoneInv /\ [HistNext]_histVars => NoneInv'
  BY NextNone
<1> QED BY <1>1, InitNone, AlwaysTold, PTL DEF HistSpec

(* Every transition that a Submit makes is legal when it makes it, if its name
   has never been removed, whatever there is of Submits, Pulls and Removes of
   other names. *)
THEOREM UncontestedWithoutRemove == HistSpec => []NoneUncontested
<1>1. ASSUME TypeOK, Owned, NoneInv PROVE NoneUncontested
  <2>1. AtWork BY <1>1, OwnersAtWork
  <2> QED BY <1>1, <2>1
          DEF NoneUncontested, Uncontested, NoneInv, Expected, AtWork, LoadPoint,
              IsLegalTransition, legalTransitions
<1> QED BY <1>1, AlwaysNone, PTL
-----------------------------------------------------------------------------
(* As long as no two Removes of one name overlap. *)

(* Nobody else takes from its name the model that is being unloaded, nor puts
   another instance into the table under that name. *)
Unloads ==
  \A t \in Request :
    /\ pc[t] \in {"unloading", "detach", "unload", "release"} => models[name[t]] = mdl[t]
    /\ pc[t] \in {"unload", "release"} => backends[name[t]] = None
    /\ pc[t] = "unload" => weights[be[t]] = mdl[t]

(* No process of a registered model is lost: it is in the table, or a goroutine
   is about to put it there, or to kill it. *)
Reached ==
  \A n \in Name, i \in process :
    models[n] # None /\ weights[i] = models[n]
    => backends[n] = i \/ \E t \in Request : pc[t] \in {"store", "unload"} /\ be[t] = i

(* A model that is loaded has no process yet. *)
Fresh == \A t \in Request : pc[t] = "load" => \A i \in process : weights[i] # mdl[t]

(* A registered model that is Ready or Busy has its process alive in the table. *)
Live ==
  \A n \in Name :
    models[n] # None /\ state[models[n]] \in {"Ready", "Busy"} => backends[n] \in process

(* So has the model that a Submit is about to use, if it can become Busy. *)
Lives ==
  \A t \in Request :
    /\ pc[t] \in {"store", "infer"} => be[t] \in process
    /\ pc[t] = "loaded" => backends[name[t]] \in process
    /\ pc[t] = "lookup" /\ state[mdl[t]] = "Ready" => backends[name[t]] \in process
    /\ pc[t] = "busy" /\ state[mdl[t]] = "Ready" => be[t] \in process

AloneInv == ProcessReserved /\ Unloads /\ Reached /\ Fresh /\ Live /\ Lives

LEMMA SubmitAlone ==
  ASSUME TypeOK, AtWork, ServeInv, Single, AloneInv,
         NEW t \in Request, SubmitEnter(t) \/ SubmitStep(t)
  PROVE  AloneInv'
<1> USE NoneAssumption, RuntimeAssumption
    DEF TypeOK, StoreType, LocalType, UsesModel, UsesBackend,
        ServeInv, Named, Renamed, InTable, Serving,
        AloneInv, ProcessReserved, Unloads, Reached, Fresh, Live, Lives, Resident, ResidentState,
        AtWork, Inside, Active, LoadPoint, UnloadPoint, SubmitPoint,
        Return, Goto, ledger, store, loaded, locals
<1>1. CASE SubmitEnter(t) BY <1>1 DEF SubmitEnter, Get
<1>2. CASE SubmitCheck(t) BY <1>2 DEF SubmitCheck
<1>3. CASE LoadGet(t) \/ InferGet(t) BY <1>3 DEF LoadGet, InferGet, GetStep, Get
<1>4. CASE LoadTransition(t)
  BY <1>4 DEF LoadTransition, TransitionStep, Transition, CanTransition, IsLegalTransition,
              legalTransitions
<1>5. CASE BackendLoads(t) BY <1>5 DEF BackendLoads, Unused
<1>6. CASE BackendLoadFails(t) BY <1>6 DEF BackendLoadFails, TryTransition, Transition
<1>7. CASE StoreBackend(t) BY <1>7 DEF StoreBackend
<1>8. CASE LoadReady(t) BY <1>8 DEF LoadReady, TransitionStep, Transition
<1>9. CASE InferLookup(t) BY <1>9 DEF InferLookup
<1>10. CASE InferBusy(t)
  BY <1>10 DEF InferBusy, TransitionStep, Transition, CanTransition, IsLegalTransition,
               legalTransitions
<1>11. CASE InferReturn(t) BY <1>11 DEF InferReturn, TryTransition, Transition
<1> QED BY <1>1, <1>2, <1>3, <1>4, <1>5, <1>6, <1>7, <1>8, <1>9, <1>10, <1>11 DEF SubmitStep

LEMMA RemoveAlone ==
  ASSUME TypeOK, AtWork, ServeInv, Single, AloneInv, NEW t \in Request, RemoveStep(t)
  PROVE  AloneInv'
<1> USE NoneAssumption, RuntimeAssumption
    DEF TypeOK, StoreType, LocalType, UsesModel, UsesBackend,
        ServeInv, Named, Renamed, InTable, Serving,
        AloneInv, ProcessReserved, Unloads, Reached, Fresh, Live, Lives, Resident, ResidentState,
        AtWork, Inside, LoadPoint, UnloadPoint, SubmitPoint,
        Single, Removing, RemovePoint, Return, Goto, ledger, store, loaded, locals
<1>1. CASE RemoveGet(t) \/ UnloadGet(t) BY <1>1 DEF RemoveGet, UnloadGet, GetStep, Get
<1>2. CASE RemoveInspect(t) BY <1>2 DEF RemoveInspect
<1>3. CASE UnloadTransition(t)
  BY <1>3 DEF UnloadTransition, TransitionStep, Transition, CanTransition, IsLegalTransition,
              legalTransitions
<1>4. CASE Detach(t) BY <1>4 DEF Detach
<1>5. CASE BackendUnloads(t) \/ BackendUnloadFails(t)
  BY <1>5 DEF BackendUnloads, BackendUnloadFails
<1>6. CASE UnloadDownloaded(t)
  BY <1>6 DEF UnloadDownloaded, TransitionStep, Transition
<1>7. CASE RemoveUnregister(t) BY <1>7 DEF RemoveUnregister, Unregister
<1> QED BY <1>1, <1>2, <1>3, <1>4, <1>5, <1>6, <1>7 DEF RemoveStep

LEMMA PullAlone ==
  ASSUME TypeOK, AtWork, ServeInv, Single, AloneInv,
         NEW t \in Request, PullStep(t) \/ Persist(t)
  PROVE  AloneInv'
<1> USE NoneAssumption, RuntimeAssumption
    DEF TypeOK, StoreType, LocalType, UsesModel, UsesBackend,
        ServeInv, Named, Renamed, InTable, Serving,
        AloneInv, ProcessReserved, Unloads, Reached, Fresh, Live, Lives, Resident, ResidentState,
        AtWork, Inside, LoadPoint, UnloadPoint, SubmitPoint,
        Return, Goto, ledger, store, loaded, locals
<1>1. CASE PullResolves(t) \/ PullFails(t) \/ Persist(t)
  BY <1>1 DEF PullResolves, PullFails, Persist
<1>2. CASE PullRegister(t) BY <1>2 DEF PullRegister, Register, Unallocated, Get
<1>3. CASE PullTransition(t) BY <1>3 DEF PullTransition, TransitionStep, Transition
<1> QED BY <1>1, <1>2, <1>3 DEF PullStep

LEMMA NextAlone ==
  ASSUME TypeOK, Owned, ServeInv, Single, AloneInv, [Next]_vars
  PROVE  AloneInv'
<1>1. AtWork BY OwnersAtWork
<1>2. ASSUME NEW t \in Request, NEW n \in Name, NEW at \in {"submit", "remove", "resolve"},
             Arrive(t, n, at)
      PROVE  AloneInv'
  BY <1>2 DEF Arrive, Goto, TypeOK, StoreType, LocalType, AloneInv, ProcessReserved, Unloads,
              Reached, Fresh, Live, Lives, Resident, ledger, store, loaded
<1>3. CASE UNCHANGED vars
  BY <1>3 DEF vars, loaded, AloneInv, ProcessReserved, Unloads, Reached, Fresh, Live, Lives,
              Resident
<1> QED BY <1>1, <1>2, <1>3, SubmitAlone, RemoveAlone, PullAlone
        DEF Next, Step, CallSubmit, CallRemove, CallPull

LEMMA InitAlone == HistInit => AloneInv
<1> SUFFICES ASSUME HistInit PROVE AloneInv OBVIOUS
<1> QED BY DEF HistInit, Init, ManagerInit, AloneInv, ProcessReserved, Unloads, Reached, Fresh,
               Live, Lives

LEMMA AlwaysAlone ==
  HistSpec => [](TypeOK /\ Owned /\ ServeInv /\ Told /\ (~clashed => AloneInv))
<1> DEFINE I == TypeOK /\ Owned /\ ServeInv /\ Told
<1>1. I /\ (~clashed => AloneInv) /\ [HistNext]_histVars => (~clashed => AloneInv)'
  <2> SUFFICES ASSUME I, ~clashed => AloneInv, [HistNext]_histVars, ~clashed'
               PROVE  AloneInv'
    OBVIOUS
  <2>1. ~clashed BY NextTold
  <2>2. Single BY <2>1 DEF Told
  <2>3. [Next]_vars BY DEF HistNext, histVars
  <2> QED BY <2>1, <2>2, <2>3, NextAlone
<1> QED BY <1>1, InitAlone, AlwaysTold, PTL DEF HistSpec

(* As long as no two Removes of one name overlap, memory in use is memory
   accounted for: a live process belongs to a resident model, and is its only
   one. *)
THEOREM AloneAccountsProcesses == HistSpec => []AloneReserved
<1>1. AloneInv => ProcessReserved BY DEF AloneInv
<1> QED BY <1>1, AlwaysAlone, PTL DEF AloneReserved

(* And no goroutine waits for a reply from a process that has been killed. *)
THEOREM AloneWaitsForLive == HistSpec => []AloneRunsLive
<1>1. AloneInv => InferRunsLive BY DEF AloneInv, Lives, InferRunsLive
<1> QED BY <1>1, AlwaysAlone, PTL DEF AloneRunsLive

(* And a model that is shown as Ready can be asked. *)
THEOREM AloneReadyIsServable == HistSpec => []AloneServable
<1>1. ASSUME TypeOK, AloneInv, ServeInv PROVE Servable
  <2> SUFFICES ASSUME NEW n \in Name, models[n] # None, state[models[n]] = "Ready"
               PROVE  backends[n] \in process /\ weights[backends[n]] = models[n]
    BY DEF Servable
  <2>1. backends[n] \in process BY <1>1 DEF AloneInv, Live
  <2>2. backends[n] # None BY <1>1, <2>1, NoneAssumption DEF TypeOK, StoreType
  <2> QED BY <1>1, <2>1, <2>2 DEF ServeInv, InTable
<1> QED BY <1>1, AlwaysAlone, PTL DEF AloneServable

(* Before the first Remove, once all requests are answered, every model in memory
   is Ready under its name, and every process is its model's in the table. *)
THEOREM ReachableWithoutRemove == HistSpec => []NoneDangling
<1>1. ASSUME TypeOK, Owned, NoneInv, AloneInv, removed = {}, \A t \in Request : pc[t] = "idle"
      PROVE  /\ \A m \in Resident : Registered(m) /\ state[m] = "Ready"
             /\ \A i \in process : /\ weights[i] \in Resident
                                   /\ \E n \in Name : /\ models[n] = weights[i]
                                                      /\ backends[n] = i
  <2>1. ASSUME NEW m \in Resident PROVE Registered(m) /\ state[m] = "Ready"
    <3>1. m \in Model /\ state[m] \in {"Loading", "Ready", "Busy", "Unloading"}
      BY <2>1 DEF Resident, ResidentState
    <3>2. PICK n \in Name : models[n] = m
      BY <1>1, <3>1 DEF NoneInv, Settled, Registered
    <3>3. state[m] # "Unloading"
      BY <1>1, <3>1, <3>2, NoneAssumption DEF NoneInv, Tabled
    <3>4. \A t \in Request : ~Owns(t, m) BY <1>1 DEF Owns, Gave, LoadPoint, UnloadPoint
    <3>5. state[m] \notin {"Loading", "Busy"}
      BY <1>1, <3>1, <3>4 DEF Owned, HasOwner, Passing
    <3> QED BY <3>1, <3>2, <3>3, <3>5 DEF Registered
  <2>2. ASSUME NEW i \in process
        PROVE  /\ weights[i] \in Resident
               /\ \E n \in Name : models[n] = weights[i] /\ backends[n] = i
    <3>1. weights[i] \in Resident /\ weights[i] \in Model
      BY <1>1 DEF AloneInv, ProcessReserved, Resident
    <3>2. PICK n \in Name : models[n] = weights[i] BY <2>1, <3>1 DEF Registered
    <3>3. backends[n] = i
      BY <1>1, <3>1, <3>2, NoneAssumption DEF AloneInv, Reached
    <3> QED BY <3>1, <3>2, <3>3
  <2> QED BY <2>1, <2>2
<1>2. ASSUME TypeOK, Owned, Told, NoneInv, ~clashed => AloneInv PROVE NoneDangling
  BY <1>1, <1>2 DEF NoneDangling, NothingDangling, Told
<1> QED BY <1>2, AlwaysNone, AlwaysAlone, PTL

(* The bytes that live processes hold, each its own copy of its model. *)
ProcessCells == UNION {{i} \X CellsOf(weights[i]) : i \in process}

(* So the memory really in use fits in the budget, as long as no two Removes of
   one name overlap: a model that is counted once is in memory once. *)
THEOREM AloneMemoryFits ==
  HistSpec => [](~clashed => /\ IsFiniteSet(ProcessCells)
                             /\ Cardinality(ProcessCells) <= TotalBytes)
<1>1. ASSUME Accounted, ProcessReserved
      PROVE  IsFiniteSet(ProcessCells) /\ Cardinality(ProcessCells) <= TotalBytes
  <2> DEFINE f == [x \in ProcessCells |-> x[2]]
  <2>1. ASSUME NEW x \in ProcessCells
        PROVE  \E i \in process : /\ x[1] = i /\ x[2] \in CellsOf(weights[i])
                                  /\ x = <<x[1], x[2]>> /\ x[2][1] = weights[i]
                                  /\ weights[i] \in Resident
    BY <1>1 DEF ProcessCells, CellsOf, ProcessReserved
  <2>2. f \in [ProcessCells -> Cells(Resident)] BY <2>1 DEF Cells
  <2>3. ASSUME NEW x \in ProcessCells, NEW y \in ProcessCells, x[2] = y[2] PROVE x = y
    <3>1. weights[x[1]] = weights[y[1]] /\ x[1] \in process /\ y[1] \in process
      BY <2>1, <2>3
    <3>2. x[1] = y[1] BY <1>1, <3>1 DEF ProcessReserved
    <3> QED BY <2>1, <2>3, <3>2
  <2>4. f \in Injection(ProcessCells, Cells(Resident)) BY <2>2, <2>3 DEF Injection, IsInjective
  <2>5. /\ IsFiniteSet(ProcessCells)
        /\ Cardinality(ProcessCells) <= Cardinality(Cells(Resident))
    BY <1>1, <2>4, FS_Injection DEF Accounted
  <2>6. Cardinality(Cells(Resident)) <= TotalBytes
    BY <1>1 DEF Accounted, LedgerExact, BytesOf
  <2>7. Cardinality(ProcessCells) \in Nat /\ Cardinality(Cells(Resident)) \in Nat
    BY <1>1, <2>5, FS_CardinalityType DEF Accounted
  <2> QED BY <2>5, <2>6, <2>7, TotalAssumption
<1>2. AloneInv => ProcessReserved BY DEF AloneInv
<1> QED BY <1>1, <1>2, AlwaysAlone, HistIsSpec, AlwaysAccounted, PTL
=============================================================================
