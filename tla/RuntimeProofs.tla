--------------------------- MODULE RuntimeProofs ----------------------------
(***************************************************************************)
(* Theorems about Runtime, for any sets of goroutines, names, models and   *)
(* backend instances, any footprints and any number of Removes at once.    *)
(***************************************************************************)
EXTENDS Runtime, FiniteSetTheorems, TLAPS

-----------------------------------------------------------------------------
(* The sizes of sets of models: a model that joins a set adds exactly its own
   footprint, one that leaves takes exactly that away. *)

(* The cells of one model are as many as MemoryFootprintBytes says. *)
LEMMA CellsOfSize ==
  ASSUME NEW m \in Model
  PROVE  /\ IsFiniteSet(CellsOf(m))
         /\ Cardinality(CellsOf(m)) = MemoryFootprintBytes[m]
         /\ MemoryFootprintBytes[m] \in Nat
<1> DEFINE bytes == MemoryFootprintBytes[m]
<1>1. bytes \in Nat BY FootprintAssumption
<1>2. IsFiniteSet({m}) /\ Cardinality({m}) = 1 BY FS_Singleton
<1>3. IsFiniteSet(1 .. bytes) /\ Cardinality(1 .. bytes) = bytes
  <2> HIDE DEF bytes
  <2>1. /\ IsFiniteSet(1 .. bytes)
        /\ Cardinality(1 .. bytes) = IF 1 > bytes THEN 0 ELSE bytes - 1 + 1
    BY <1>1, FS_Interval
  <2> QED BY <1>1, <2>1
<1>4. /\ IsFiniteSet({m} \X (1 .. bytes))
      /\ Cardinality({m} \X (1 .. bytes)) = Cardinality({m}) * Cardinality(1 .. bytes)
  BY <1>2, <1>3, FS_Product
<1> QED BY <1>1, <1>2, <1>3, <1>4 DEF CellsOf

(* A model that joins a set it is not in (a reservation). *)
LEMMA CellsAdd ==
  ASSUME NEW S \in SUBSET Model, IsFiniteSet(Cells(S)), NEW m \in Model \ S
  PROVE  /\ IsFiniteSet(Cells(S \cup {m}))
         /\ BytesOf(S \cup {m}) = BytesOf(S) + MemoryFootprintBytes[m]
<1>1. Cells(S \cup {m}) = Cells(S) \cup CellsOf(m) BY DEF Cells
<1>2. Cells(S) \cap CellsOf(m) = {} BY DEF Cells, CellsOf
<1>3. IsFiniteSet(CellsOf(m)) /\ Cardinality(CellsOf(m)) = MemoryFootprintBytes[m]
      /\ MemoryFootprintBytes[m] \in Nat
  BY CellsOfSize
<1>4. Cardinality(Cells(S)) \in Nat BY FS_CardinalityType
<1>5. /\ IsFiniteSet(Cells(S) \cup CellsOf(m))
      /\ Cardinality(Cells(S) \cup CellsOf(m))
           = Cardinality(Cells(S)) + Cardinality(CellsOf(m))
               - Cardinality(Cells(S) \cap CellsOf(m))
  BY <1>3, FS_Union
<1>6. Cardinality(Cells(S) \cap CellsOf(m)) = 0 BY <1>2, FS_EmptySet
<1>7. Cardinality(Cells(S) \cup CellsOf(m))
        = Cardinality(Cells(S)) + MemoryFootprintBytes[m]
  BY <1>3, <1>4, <1>5, <1>6
<1>8. BytesOf(S \cup {m}) = Cardinality(Cells(S) \cup CellsOf(m))
  BY <1>1 DEF BytesOf
<1>9. BytesOf(S) = Cardinality(Cells(S)) BY DEF BytesOf
<1> QED BY <1>1, <1>5, <1>7, <1>8, <1>9

(* A model that leaves a set it is in (a release): its bytes were there. *)
LEMMA CellsRemove ==
  ASSUME NEW S \in SUBSET Model, IsFiniteSet(Cells(S)), NEW m \in S
  PROVE  /\ IsFiniteSet(Cells(S \ {m}))
         /\ MemoryFootprintBytes[m] <= BytesOf(S)
         /\ BytesOf(S \ {m}) = BytesOf(S) - MemoryFootprintBytes[m]
<1>1. Cells(S \ {m}) \subseteq Cells(S) BY DEF Cells
<1>2. IsFiniteSet(Cells(S \ {m})) BY <1>1, FS_Subset
<1>3. S \ {m} \in SUBSET Model /\ m \in Model \ (S \ {m}) /\ (S \ {m}) \cup {m} = S
  OBVIOUS
<1>4. BytesOf(S) = BytesOf(S \ {m}) + MemoryFootprintBytes[m]
  <2> DEFINE T == S \ {m}
  <2>1. T \in SUBSET Model /\ m \in Model \ T /\ T \cup {m} = S /\ IsFiniteSet(Cells(T))
    BY <1>2, <1>3
  <2> HIDE DEF T
  <2>2. BytesOf(T \cup {m}) = BytesOf(T) + MemoryFootprintBytes[m]
    BY <2>1, CellsAdd
  <2>3. BytesOf(S) = BytesOf(T) + MemoryFootprintBytes[m] BY <2>1, <2>2
  <2> QED BY <2>3 DEF T
<1>5. BytesOf(S \ {m}) \in Nat BY <1>2, FS_CardinalityType DEF BytesOf
<1>6. MemoryFootprintBytes[m] \in Nat BY FootprintAssumption
<1> QED BY <1>2, <1>4, <1>5, <1>6

(* No model, no bytes. *)
LEMMA CellsEmpty == IsFiniteSet(Cells({})) /\ BytesOf({}) = 0
<1>1. Cells({}) = {} BY DEF Cells
<1> QED BY <1>1, FS_EmptySet DEF BytesOf
-----------------------------------------------------------------------------
(* Types: moves of a goroutine's locals first, then each handler. *)

(* An idle goroutine uses no pointer. *)
LEMMA IdlePoint == "idle" \in Point \ (UsesModel \cup UsesBackend)
  BY DEF Point, UsesModel, UsesBackend

(* Answering clears the locals. *)
LEMMA ReturnLocal ==
  ASSUME LocalType, NEW t \in Request, NEW from, Return(t, from)
  PROVE  LocalType'
BY IdlePoint DEF LocalType, Return, Goto

(* A goroutine that moves on keeps its locals. *)
LEMMA GotoLocal ==
  ASSUME LocalType, NEW t \in Request, NEW from, NEW to \in Point, Goto(t, from, to),
         from # "idle", UNCHANGED <<holder, name, mdl, be>>,
         to \in UsesModel => mdl[t] \in Model,
         to \in UsesBackend => be[t] \in Instance
  PROVE  LocalType'
BY DEF LocalType, Goto

(* Registry.Get leaves a model, or ends the request. *)
LEMMA GetLocal ==
  ASSUME TypeOK, NEW t \in Request, NEW from, NEW to \in Point \ UsesBackend,
         from # "idle", GetStep(t, from, to)
  PROVE  LocalType'
<1>1. CASE Return(t, from)
  BY <1>1, ReturnLocal DEF TypeOK
<1>2. CASE ~Return(t, from)
  <2>1. Get(name[t]) \in Model
    BY <1>2 DEF GetStep, Get, TypeOK, StoreType, LocalType
  <2> QED BY <1>2, <2>1 DEF GetStep, TypeOK, LocalType, Goto
<1> QED BY <1>1, <1>2

(* Transition keeps the types of what it changes. *)
LEMMA TransitionType ==
  ASSUME TypeOK, NEW m \in Model, NEW to \in ModelState, Transition(m, to)
  PROVE  state' \in [Model -> ModelState \cup {"Unallocated"}] /\ reserved' \in Nat
<1>1. state' \in [Model -> ModelState \cup {"Unallocated"}]
  BY DEF TypeOK, StoreType, Transition
<1>2. MemoryFootprintBytes[m] \in Nat BY FootprintAssumption
<1>3. CASE Reserves(state[m], to)
  BY <1>2, <1>3, TotalAssumption
  DEF TypeOK, StoreType, Transition, Settle, Reserve, Reserves, Releases
<1>4. CASE ~Reserves(state[m], to)
  BY <1>2, <1>4 DEF TypeOK, StoreType, Transition, Settle, Release, Reserves, Releases
<1> QED BY <1>1, <1>3, <1>4

(* A step that is one Transition, or gives up. *)
LEMMA TransitionStepType ==
  ASSUME TypeOK, NEW t \in Request, NEW from \in UsesModel, NEW new \in ModelState,
         NEW to \in Point, TransitionStep(t, from, new, to),
         to \in UsesBackend => be[t] \in Instance
  PROVE  TypeOK'
<1>1. from # "idle" /\ mdl[t] \in Model
  BY IdlePoint DEF TypeOK, LocalType, TransitionStep
<1>2. CASE Transition(mdl[t], new) /\ Goto(t, from, to) /\ UNCHANGED <<holder, locals>>
  <2>1. LocalType' BY <1>1, <1>2, GotoLocal DEF TypeOK, locals
  <2>2. state' \in [Model -> ModelState \cup {"Unallocated"}] /\ reserved' \in Nat
    BY <1>1, <1>2, TransitionType
  <2> QED BY <2>1, <2>2 DEF TransitionStep, TypeOK, StoreType, store, loaded
<1>3. CASE Return(t, from) /\ UNCHANGED ledger
  <2>1. LocalType' BY <1>3, ReturnLocal DEF TypeOK
  <2> QED BY <1>3, <2>1 DEF TransitionStep, TypeOK, StoreType, ledger, store, loaded
<1> QED BY <1>2, <1>3 DEF TransitionStep

(* A Transition whose error is discarded. *)
LEMMA TryTransitionType ==
  ASSUME TypeOK, NEW m \in Model, NEW to \in ModelState, TryTransition(m, to)
  PROVE  state' \in [Model -> ModelState \cup {"Unallocated"}] /\ reserved' \in Nat
BY TransitionType DEF TryTransition, TypeOK, StoreType, ledger

(* A server starts well typed. *)
LEMMA InitType == Init => TypeOK
<1>1. Init => StoreType
  BY NoneAssumption DEF Init, ManagerInit, BudgetInit, StoreType, ModelState
<1>2. Init => LocalType
  BY IdlePoint DEF Init, LocalType
<1> QED BY <1>1, <1>2 DEF TypeOK

(* A request arrives. *)
LEMMA ArriveType ==
  ASSUME TypeOK, NEW t \in Request, NEW n \in Name,
         NEW at \in Point \ (UsesModel \cup UsesBackend), Arrive(t, n, at)
  PROVE  TypeOK'
BY DEF Arrive, Goto, TypeOK, StoreType, LocalType, ledger, store, loaded

(* A step that is one Registry.Get. *)
LEMMA GetType ==
  ASSUME TypeOK, NEW t \in Request, NEW from, NEW to \in Point \ UsesBackend,
         from # "idle", GetStep(t, from, to)
  PROVE  TypeOK'
<1>1. LocalType' BY GetLocal
<1>2. StoreType' BY DEF TypeOK, StoreType, GetStep, ledger, store, loaded
<1> QED BY <1>1, <1>2 DEF TypeOK

(* Scheduler.Submit, with LoadModel and Infer. *)
LEMMA SubmitType ==
  ASSUME TypeOK, NEW t \in Request, SubmitEnter(t) \/ SubmitStep(t)
  PROVE  TypeOK'
<1> USE DEF TypeOK
<1>1. CASE SubmitEnter(t)
  <2>1. StoreType' BY <1>1 DEF SubmitEnter, StoreType, ledger, store, loaded
  <2>2. Get(name[t]) \in Model \cup {None}
    BY <1>1 DEF SubmitEnter, StoreType, LocalType, Get
  <2>3. "check" \in Point /\ "inferGet" \in Point \ (UsesModel \cup UsesBackend)
        /\ "check" \notin UsesBackend
    BY DEF Point, SubmitPoint, UsesModel, UsesBackend
  <2>4. LocalType' BY <1>1, <2>2, <2>3 DEF SubmitEnter, LocalType, Goto
  <2> QED BY <2>1, <2>4
<1>2. CASE SubmitCheck(t)
  <2>1. {"loadGet", "inferGet"} \subseteq Point \ (UsesModel \cup UsesBackend)
    BY DEF Point, SubmitPoint, UsesModel, UsesBackend
  <2>2. LocalType' BY <1>2, <2>1, GotoLocal DEF SubmitCheck, locals
  <2> QED BY <1>2, <2>2 DEF SubmitCheck, StoreType, ledger, store, loaded
<1>3. CASE LoadGet(t)
  <2>1. "loading" \in Point \ UsesBackend BY DEF Point, SubmitPoint, UsesBackend
  <2> QED BY <1>3, <2>1, GetType DEF LoadGet
<1>4. CASE LoadTransition(t)
  <2>1. "load" \in Point \ UsesBackend /\ "loading" \in UsesModel /\ "Loading" \in ModelState
    BY DEF Point, SubmitPoint, UsesBackend, UsesModel, ModelState
  <2> QED BY <1>4, <2>1, TransitionStepType DEF LoadTransition
<1>5. CASE BackendLoads(t)
  <2>1. PICK i \in Unused : /\ be' = [be EXCEPT ![t] = i]
                            /\ weights' = [weights EXCEPT ![i] = mdl[t]]
                            /\ process' = process \cup {i}
    BY <1>5 DEF BackendLoads
  <2>2. i \in Instance /\ mdl[t] \in Model
    BY <1>5 DEF Unused, BackendLoads, Goto, LocalType, UsesModel
  <2>3. "store" \in Point BY DEF Point, SubmitPoint
  <2>4. StoreType' BY <1>5, <2>1, <2>2 DEF BackendLoads, StoreType, ledger
  <2>5. LocalType' BY <1>5, <2>1, <2>2, <2>3 DEF BackendLoads, LocalType, Goto
  <2> QED BY <2>4, <2>5
<1>6. CASE BackendLoadFails(t)
  <2>1. mdl[t] \in Model /\ "Downloaded" \in ModelState
    BY <1>6 DEF BackendLoadFails, Return, Goto, LocalType, UsesModel, ModelState
  <2>2. state' \in [Model -> ModelState \cup {"Unallocated"}] /\ reserved' \in Nat
    BY <1>6, <2>1, TryTransitionType DEF BackendLoadFails
  <2>3. LocalType' BY <1>6, ReturnLocal DEF BackendLoadFails
  <2> QED BY <1>6, <2>2, <2>3 DEF BackendLoadFails, StoreType, store, loaded
<1>7. CASE StoreBackend(t)
  <2>1. "loaded" \in Point \ UsesBackend BY DEF Point, SubmitPoint, UsesBackend
  <2>2. be[t] \in Instance /\ mdl[t] \in Model
    BY <1>7 DEF StoreBackend, Goto, LocalType, UsesBackend, UsesModel
  <2>3. StoreType' BY <1>7, <2>2 DEF StoreBackend, StoreType, ledger, loaded
  <2>4. LocalType' BY <1>7, <2>1, <2>2 DEF StoreBackend, LocalType, Goto
  <2> QED BY <2>3, <2>4
<1>8. CASE LoadReady(t)
  <2>1. "inferGet" \in Point \ UsesBackend /\ "loaded" \in UsesModel /\ "Ready" \in ModelState
    BY DEF Point, SubmitPoint, UsesBackend, UsesModel, ModelState
  <2> QED BY <1>8, <2>1, TransitionStepType DEF LoadReady
<1>9. CASE InferGet(t)
  <2>1. "lookup" \in Point \ UsesBackend BY DEF Point, SubmitPoint, UsesBackend
  <2> QED BY <1>9, <2>1, GetType DEF InferGet
<1>10. CASE InferLookup(t)
  <2>1. StoreType' BY <1>10 DEF InferLookup, StoreType, ledger, store, loaded
  <2>2. CASE Return(t, "lookup") BY <2>1, <2>2, ReturnLocal
  <2>3. CASE ~Return(t, "lookup")
    <3>1. "busy" \in Point BY DEF Point, SubmitPoint
    <3>2. backends[name[t]] \in Instance /\ mdl[t] \in Model
      BY <1>10, <2>3 DEF InferLookup, StoreType, LocalType, UsesModel
    <3>3. LocalType' BY <1>10, <2>3, <3>1, <3>2 DEF InferLookup, LocalType, Goto
    <3> QED BY <2>1, <3>3
  <2> QED BY <2>2, <2>3
<1>11. CASE InferBusy(t)
  <2>1. "infer" \in Point /\ "busy" \in UsesModel /\ "Busy" \in ModelState
    BY DEF Point, SubmitPoint, UsesModel, ModelState
  <2>2. be[t] \in Instance
    BY <1>11 DEF InferBusy, TransitionStep, LocalType, UsesBackend
  <2> QED BY <1>11, <2>1, <2>2, TransitionStepType DEF InferBusy
<1>12. CASE InferReturn(t)
  <2>1. mdl[t] \in Model /\ "Ready" \in ModelState
    BY <1>12 DEF InferReturn, Return, Goto, LocalType, UsesModel, ModelState
  <2>2. state' \in [Model -> ModelState \cup {"Unallocated"}] /\ reserved' \in Nat
    BY <1>12, <2>1, TryTransitionType DEF InferReturn
  <2>3. LocalType' BY <1>12, ReturnLocal DEF InferReturn
  <2> QED BY <1>12, <2>2, <2>3 DEF InferReturn, StoreType, store, loaded
<1> QED BY <1>1, <1>2, <1>3, <1>4, <1>5, <1>6, <1>7, <1>8, <1>9, <1>10, <1>11, <1>12
        DEF SubmitStep

(* Manager.Remove, with UnloadModel. *)
LEMMA RemoveType ==
  ASSUME TypeOK, NEW t \in Request, RemoveStep(t)
  PROVE  TypeOK'
<1> USE DEF TypeOK
<1>1. CASE RemoveGet(t)
  <2>1. "inspect" \in Point \ UsesBackend BY DEF Point, RemovePoint, UsesBackend
  <2> QED BY <1>1, <2>1, GetType DEF RemoveGet
<1>2. CASE RemoveInspect(t)
  <2>1. StoreType' BY <1>2 DEF RemoveInspect, StoreType, ledger, store, loaded
  <2>2. {"unloadGet", "unregister"} \subseteq Point \ (UsesModel \cup UsesBackend)
    BY DEF Point, RemovePoint, UsesModel, UsesBackend
  <2>3. CASE Return(t, "inspect") BY <2>1, <2>3, ReturnLocal
  <2>4. CASE ~Return(t, "inspect")
    <3>1. PICK to \in {"unloadGet", "unregister"} :
            Goto(t, "inspect", to) /\ UNCHANGED <<holder, locals>>
      BY <1>2, <2>4 DEF RemoveInspect
    <3>2. LocalType' BY <2>2, <3>1, GotoLocal DEF locals
    <3> QED BY <2>1, <3>2
  <2> QED BY <2>3, <2>4
<1>3. CASE UnloadGet(t)
  <2>1. "unloading" \in Point \ UsesBackend BY DEF Point, RemovePoint, UsesBackend
  <2> QED BY <1>3, <2>1, GetType DEF UnloadGet
<1>4. CASE UnloadTransition(t)
  <2>1. "detach" \in Point \ UsesBackend /\ "unloading" \in UsesModel
        /\ "Unloading" \in ModelState
    BY DEF Point, RemovePoint, UsesBackend, UsesModel, ModelState
  <2> QED BY <1>4, <2>1, TransitionStepType DEF UnloadTransition
<1>5. CASE Detach(t)
  <2>1. {"release", "unload"} \subseteq Point /\ "release" \notin UsesBackend
    BY DEF Point, RemovePoint, UsesBackend
  <2>2. name[t] \in Name /\ mdl[t] \in Model
    BY <1>5 DEF Detach, Goto, LocalType, UsesModel
  <2>3. backends[name[t]] \in Instance \cup {None} BY <2>2 DEF StoreType
  <2>4. StoreType' BY <1>5 DEF Detach, StoreType, ledger, loaded
  <2>5. LocalType' BY <1>5, <2>1, <2>2, <2>3 DEF Detach, LocalType, Goto
  <2> QED BY <2>4, <2>5
<1>6. CASE BackendUnloads(t)
  <2>1. "release" \in Point \ UsesBackend BY DEF Point, RemovePoint, UsesBackend
  <2>2. mdl[t] \in Model BY <1>6 DEF BackendUnloads, Goto, LocalType, UsesModel
  <2>3. LocalType' BY <1>6, <2>1, <2>2, GotoLocal DEF BackendUnloads, locals
  <2> QED BY <1>6, <2>3 DEF BackendUnloads, StoreType, ledger
<1>7. CASE BackendUnloadFails(t)
  <2>1. LocalType' BY <1>7, ReturnLocal DEF BackendUnloadFails
  <2> QED BY <1>7, <2>1 DEF BackendUnloadFails, StoreType, ledger
<1>8. CASE UnloadDownloaded(t)
  <2>1. "unregister" \in Point \ UsesBackend /\ "release" \in UsesModel
        /\ "Downloaded" \in ModelState
    BY DEF Point, RemovePoint, UsesBackend, UsesModel, ModelState
  <2> QED BY <1>8, <2>1, TransitionStepType DEF UnloadDownloaded
<1>9. CASE RemoveUnregister(t)
  <2>1. "persist" \in Point \ (UsesModel \cup UsesBackend)
    BY DEF Point, UsesModel, UsesBackend
  <2>2. LocalType' BY <1>9, <2>1, GotoLocal DEF RemoveUnregister, locals
  <2> QED BY <1>9, <2>2 DEF RemoveUnregister, Unregister, StoreType, ledger, loaded
<1> QED BY <1>1, <1>2, <1>3, <1>4, <1>5, <1>6, <1>7, <1>8, <1>9 DEF RemoveStep

(* Manager.Pull, and the persist that ends Pull and Remove. *)
LEMMA PullType ==
  ASSUME TypeOK, NEW t \in Request, PullStep(t) \/ Persist(t)
  PROVE  TypeOK'
<1> USE DEF TypeOK
<1>1. CASE PullResolves(t)
  <2>1. "register" \in Point \ (UsesModel \cup UsesBackend)
    BY DEF Point, PullPoint, UsesModel, UsesBackend
  <2>2. LocalType' BY <1>1, <2>1, GotoLocal DEF PullResolves, locals
  <2> QED BY <1>1, <2>2 DEF PullResolves, StoreType, ledger, store, loaded
<1>2. CASE PullFails(t)
  <2>1. LocalType' BY <1>2, ReturnLocal DEF PullFails
  <2> QED BY <1>2, <2>1 DEF PullFails, StoreType, ledger, store, loaded
<1>3. CASE PullRegister(t)
  <2>1. CASE Return(t, "register")
    <3>1. LocalType' BY <2>1, ReturnLocal
    <3>2. StoreType'
      BY <1>3, <2>1, IdlePoint DEF PullRegister, Return, Goto, LocalType, StoreType, loaded,
         Register, Get, ModelState
    <3> QED BY <3>1, <3>2
  <2>2. CASE ~Return(t, "register")
    <3>1. PICK m \in Model : /\ Register(name[t], m)
                             /\ mdl' = [mdl EXCEPT ![t] = m]
                             /\ Goto(t, "register", "pulled")
                             /\ UNCHANGED <<holder, name, be>>
      BY <1>3, <2>2 DEF PullRegister
    <3>2. "pulled" \in Point \ UsesBackend BY DEF Point, PullPoint, UsesBackend
    <3>3. LocalType' BY <3>1, <3>2 DEF LocalType, Goto
    <3>4. StoreType'
      BY <1>3, <3>1 DEF PullRegister, Register, StoreType, ModelState, loaded
    <3> QED BY <3>3, <3>4
  <2> QED BY <2>1, <2>2
<1>4. CASE PullTransition(t)
  <2>1. "persist" \in Point \ UsesBackend /\ "pulled" \in UsesModel
        /\ "Downloaded" \in ModelState
    BY DEF Point, UsesBackend, UsesModel, ModelState
  <2> QED BY <1>4, <2>1, TransitionStepType DEF PullTransition
<1>5. CASE Persist(t)
  <2>1. LocalType' BY <1>5, ReturnLocal DEF Persist
  <2> QED BY <1>5, <2>1 DEF Persist, StoreType, ledger, store, loaded
<1> QED BY <1>1, <1>2, <1>3, <1>4, <1>5 DEF PullStep

(* Every step preserves the types. *)
LEMMA NextType == TypeOK /\ [Next]_vars => TypeOK'
<1> SUFFICES ASSUME TypeOK, [Next]_vars PROVE TypeOK' OBVIOUS
<1>1. CASE UNCHANGED vars
  BY <1>1 DEF vars, TypeOK, StoreType, LocalType, loaded
<1>2. ASSUME NEW t \in Request, NEW n \in Name,
             CallSubmit(t, n) \/ CallRemove(t, n) \/ CallPull(t, n)
      PROVE  TypeOK'
  <2>1. {"submit", "remove", "resolve"} \subseteq Point \ (UsesModel \cup UsesBackend)
    BY DEF Point, SubmitPoint, RemovePoint, PullPoint, UsesModel, UsesBackend
  <2> QED BY <1>2, <2>1, ArriveType DEF CallSubmit, CallRemove, CallPull
<1>3. ASSUME NEW t \in Request, SubmitEnter(t) \/ Step(t) PROVE TypeOK'
  BY <1>3, SubmitType, RemoveType, PullType DEF Step
<1> QED BY <1>1, <1>2, <1>3 DEF Next

(* The types hold, and no handler dereferences a nil model or backend. *)
THEOREM TypeCorrect == Spec => []TypeOK
<1> QED BY InitType, NextType, PTL DEF Spec
-----------------------------------------------------------------------------
(* The ledger.  Only Transition and Register change a model's state, and only
   Transition the reservation; LedgerExact is inductive with the ceiling and
   with the finiteness of what is resident. *)

Accounted ==
  /\ IsFiniteSet(Cells(Resident))
  /\ LedgerExact
  /\ reserved <= TotalBytes

(* Below the modulus, uint64 arithmetic is arithmetic. *)
LEMMA ModSmall == ASSUME NEW a \in Nat, NEW w \in Nat, a < w PROVE a % w = a
BY SMT

(* Reserve, Release, and the transitions that move no bytes. *)
LEMMA TransitionAccounted ==
  ASSUME TypeOK, Accounted, NEW m \in Model, NEW to \in ModelState, Transition(m, to)
  PROVE  Accounted'
<1> DEFINE fp == MemoryFootprintBytes[m]
<1>1. fp \in Nat /\ TotalBytes \in Nat /\ Word \in Nat /\ TotalBytes + fp < Word
  BY FootprintAssumption, TotalAssumption, NoWrapAssumption
<1>2. reserved \in Nat /\ Resident \in SUBSET Model
  BY DEF TypeOK, StoreType, Resident
<1>3. /\ IsLegalTransition(state[m], to)
      /\ state' = [state EXCEPT ![m] = to]
      /\ state \in [Model -> ModelState \cup {"Unallocated"}]
  BY DEF Transition, CanTransition, TypeOK, StoreType
<1>4. CASE Reserves(state[m], to)
  <2>1. m \in Model \ Resident /\ Resident' = Resident \cup {m}
    BY <1>3, <1>4 DEF Reserves, Resident, ResidentState
  <2>2. Fits(fp) /\ reserved' = (reserved + fp) % Word
    BY <1>4 DEF Transition, Settle, Reserve, Reserves, Releases
  <2>3. (reserved + fp) % Word = reserved + fp
    <3>1. reserved + fp \in Nat /\ reserved + fp < Word
      BY <1>1, <1>2 DEF Accounted
    <3> QED BY <1>1, <3>1, ModSmall
  <2>4. reserved' = reserved + fp /\ reserved' <= TotalBytes
    BY <2>2, <2>3 DEF Fits
  <2>5. /\ IsFiniteSet(Cells(Resident \cup {m}))
        /\ BytesOf(Resident \cup {m}) = BytesOf(Resident) + fp
    BY <1>2, <2>1, CellsAdd DEF Accounted
  <2> QED BY <2>1, <2>4, <2>5 DEF Accounted, LedgerExact
<1>5. CASE Releases(state[m], to)
  <2>1. m \in Resident /\ Resident' = Resident \ {m}
    BY <1>3, <1>5 DEF Releases, Resident, ResidentState
  <2>2. fp <= reserved /\ reserved' = reserved - fp
    BY <1>5 DEF Transition, Settle, Release, Reserves, Releases
  <2>3. reserved' <= TotalBytes
    BY <1>1, <1>2, <2>2 DEF Accounted
  <2>4. /\ IsFiniteSet(Cells(Resident \ {m}))
        /\ BytesOf(Resident \ {m}) = BytesOf(Resident) - fp
    BY <1>2, <2>1, CellsRemove DEF Accounted
  <2> QED BY <2>1, <2>2, <2>3, <2>4 DEF Accounted, LedgerExact
<1>6. CASE ~Reserves(state[m], to) /\ ~Releases(state[m], to)
  <2>1. Resident' = Resident
    BY <1>3, <1>6 DEF Reserves, Releases, Resident, ResidentState, IsLegalTransition,
       legalTransitions
  <2>2. reserved' = reserved
    BY <1>6 DEF Transition, Settle
  <2> QED BY <2>1, <2>2 DEF Accounted, LedgerExact
<1> QED BY <1>4, <1>5, <1>6

(* Every step changes the ledger by Transition, by Register, or not at all. *)
LEMMA LedgerMoves ==
  ASSUME TypeOK, [Next]_vars
  PROVE  \/ UNCHANGED ledger
         \/ \E m \in Model, to \in ModelState : Transition(m, to)
         \/ \E m \in Unallocated : /\ state' = [state EXCEPT ![m] = "NotPresent"]
                                   /\ UNCHANGED reserved
<1> DEFINE Moved == \E m \in Model, to \in ModelState : Transition(m, to)
<1>1. ASSUME NEW t \in Request, NEW from \in UsesModel, NEW new \in ModelState, NEW to,
             TransitionStep(t, from, new, to)
      PROVE  UNCHANGED ledger \/ Moved
  <2>1. mdl[t] \in Model BY <1>1 DEF TransitionStep, TypeOK, LocalType
  <2> QED BY <1>1, <2>1 DEF TransitionStep
<1>2. ASSUME NEW t \in Request, BackendLoadFails(t) \/ InferReturn(t)
      PROVE  UNCHANGED ledger \/ Moved
  <2>1. mdl[t] \in Model
    BY <1>2 DEF BackendLoadFails, InferReturn, Return, Goto, TypeOK, LocalType, UsesModel
  <2>2. {"Downloaded", "Ready"} \subseteq ModelState BY DEF ModelState
  <2> QED BY <1>2, <2>1, <2>2 DEF BackendLoadFails, InferReturn, TryTransition
<1>3. ASSUME NEW t \in Request, SubmitEnter(t) \/ SubmitStep(t)
      PROVE  UNCHANGED ledger \/ Moved
  <2>1. {"loading", "loaded", "busy"} \subseteq UsesModel
        /\ {"Loading", "Ready", "Busy"} \subseteq ModelState
    BY DEF UsesModel, ModelState
  <2>2. CASE LoadTransition(t) \/ LoadReady(t) \/ InferBusy(t)
    BY <1>1, <2>1, <2>2 DEF LoadTransition, LoadReady, InferBusy
  <2> QED BY <1>2, <1>3, <2>2 DEF SubmitEnter, SubmitStep, SubmitCheck, LoadGet, BackendLoads,
          StoreBackend, InferGet, InferLookup, GetStep
<1>4. ASSUME NEW t \in Request, RemoveStep(t)
      PROVE  UNCHANGED ledger \/ Moved
  <2>1. {"unloading", "release"} \subseteq UsesModel
        /\ {"Unloading", "Downloaded"} \subseteq ModelState
    BY DEF UsesModel, ModelState
  <2>2. CASE UnloadTransition(t) \/ UnloadDownloaded(t)
    BY <1>1, <2>1, <2>2 DEF UnloadTransition, UnloadDownloaded
  <2> QED BY <1>4, <2>2 DEF RemoveStep, RemoveGet, RemoveInspect, RemoveUnregister, UnloadGet,
          Detach, BackendUnloads, BackendUnloadFails, GetStep
<1>5. ASSUME NEW t \in Request, PullStep(t)
      PROVE  \/ UNCHANGED ledger
             \/ Moved
             \/ \E m \in Unallocated : /\ state' = [state EXCEPT ![m] = "NotPresent"]
                                       /\ UNCHANGED reserved
  <2>1. "pulled" \in UsesModel /\ "Downloaded" \in ModelState BY DEF UsesModel, ModelState
  <2>2. CASE PullTransition(t) BY <1>1, <2>1, <2>2 DEF PullTransition
  <2>3. CASE PullRegister(t) BY <2>3 DEF PullRegister, Register, ledger
  <2> QED BY <1>5, <2>2, <2>3 DEF PullStep, PullResolves, PullFails
<1> QED BY <1>3, <1>4, <1>5 DEF Next, Step, Persist, CallSubmit, CallRemove, CallPull, Arrive,
        vars, ledger

(* Every step keeps the account. *)
LEMMA NextAccounted ==
  ASSUME TypeOK, Accounted, [Next]_vars PROVE Accounted'
<1>1. CASE UNCHANGED ledger
  BY <1>1 DEF ledger, Accounted, LedgerExact, Resident
<1>2. CASE \E m \in Model, to \in ModelState : Transition(m, to)
  BY <1>2, TransitionAccounted
<1>3. CASE \E m \in Unallocated : /\ state' = [state EXCEPT ![m] = "NotPresent"]
                                /\ UNCHANGED reserved
  <2>1. Resident' = Resident
    BY <1>3 DEF Resident, ResidentState, Unallocated, TypeOK, StoreType
  <2> QED BY <1>3, <2>1 DEF Accounted, LedgerExact
<1> QED BY <1>1, <1>2, <1>3, LedgerMoves

(* A server starts with nothing reserved. *)
LEMMA InitAccounted == Init => Accounted
<1> SUFFICES ASSUME Init PROVE Accounted OBVIOUS
<1>1. Resident = {} BY DEF Init, ManagerInit, Resident, ResidentState
<1> QED BY <1>1, CellsEmpty, TotalAssumption
        DEF Init, ManagerInit, BudgetInit, Accounted, LedgerExact

(* The inductive invariant of the ledger. *)
THEOREM AlwaysAccounted == Spec => [](TypeOK /\ Accounted)
<1>1. Init => TypeOK /\ Accounted BY InitType, InitAccounted
<1>2. TypeOK /\ Accounted /\ [Next]_vars => (TypeOK /\ Accounted)'
  BY NextType, NextAccounted
<1> QED BY <1>1, <1>2, PTL DEF Spec

(* The ledger never drifts from what is resident, whatever overlaps. *)
THEOREM LedgerNeverDrifts == Spec => []LedgerExact
<1>1. TypeOK /\ Accounted => LedgerExact BY DEF Accounted
<1> QED BY <1>1, AlwaysAccounted, PTL

(* The resident models always fit in the budget together. *)
THEOREM BudgetRespected == Spec => []WithinBudget
<1>1. TypeOK /\ Accounted => WithinBudget BY DEF Accounted, LedgerExact, WithinBudget
<1> QED BY <1>1, AlwaysAccounted, PTL

(* Budget.Release never panics. *)
THEOREM ReleaseNeverPanics == Spec => []ReleaseCovered
<1>1. ASSUME TypeOK, Accounted PROVE ReleaseCovered
  <2> SUFFICES ASSUME NEW t \in Releasing, Releases(state[mdl[t]], "Downloaded")
               PROVE  MemoryFootprintBytes[mdl[t]] <= reserved
    BY DEF ReleaseCovered
  <2>1. mdl[t] \in Model
    BY <1>1 DEF Releasing, TypeOK, LocalType, UsesModel
  <2>2. mdl[t] \in Resident /\ Resident \in SUBSET Model
    BY <2>1 DEF Releases, Resident, ResidentState
  <2> QED BY <1>1, <2>2, CellsRemove DEF Accounted, LedgerExact
<1> QED BY <1>1, AlwaysAccounted, PTL
=============================================================================
