------------------------------- MODULE Manager ------------------------------
(***************************************************************************)
(* The state of the model manager, and the operations that it performs     *)
(* under one of its locks: the registry's map (Registry.mu), the state     *)
(* machine with the budget (Manager.mu), and the table of loaded backends  *)
(* (Manager.mu).  Module Runtime composes them into the handlers.          *)
(*                                                                         *)
(* A Model object (a *manager.Model) and the name it is registered under   *)
(* are different things: handlers keep pointers to objects that may have   *)
(* left the registry, and a name may since have been given to another one. *)
(* A backend instance is again another thing: each load makes a new one.   *)
(***************************************************************************)
EXTENDS Lifecycle, Budget, Footprint

CONSTANTS Name,      \* the names users register models under
          Instance,  \* the backend instances in memory at one time
          None       \* the nil pointer, and the absence of a map entry

ASSUME NoneAssumption ==
  None \notin Model /\ None \notin Name /\ None \notin Instance

(* A model's size fits in the uint64 sum with the budget: sizes of files are
   below 2^63, and so is any real budget. *)
ASSUME NoWrapAssumption ==
  \A m \in Model : TotalBytes + MemoryFootprintBytes[m] < Word

VARIABLES models,    \* Registry.models: name -> object
          state,     \* Model.State of every object
          backends,  \* Manager.backends: name -> backend instance
          process,   \* the backend instances whose process is alive
          weights    \* the object whose weights each instance was given

ledger == <<state, reserved>>

Unallocated == {m \in Model : state[m] = "Unallocated"}
Resident    == {m \in Model : state[m] \in ResidentState}
Registered(m) == \E n \in Name : models[n] = m

(***************************************************************************)
(* A server starts with the registry that LoadRegistry restored: every     *)
(* restored model is Downloaded, nothing is reserved, no backend is loaded.*)
(***************************************************************************)
ManagerInit ==
  /\ models \in [Name -> Model \cup {None}]
  /\ \A n1, n2 \in Name : models[n1] = models[n2] /\ models[n1] # None => n1 = n2
  /\ state = [m \in Model |-> IF Registered(m) THEN "Downloaded" ELSE "Unallocated"]
  /\ BudgetInit
  /\ backends = [n \in Name |-> None]
  /\ process = {}
  /\ weights = [i \in Instance |-> None]

Get(n) == models[n]

(* Mutant: a name that is taken is given to the new object. *)
RegisterOver(n, m) ==
  /\ m \in Unallocated
  /\ models' = [models EXCEPT ![n] = m]
  /\ state' = [state EXCEPT ![m] = "NotPresent"]

(* Register for a name that is free; m is the object Pull has just made. *)
Register(n, m) ==
  /\ models[n] = None
  /\ m \in Unallocated
  /\ models' = [models EXCEPT ![n] = m]
  /\ state' = [state EXCEPT ![m] = "NotPresent"]

(* Unregister checks nothing but the name. *)
Unregister(n) == models' = [models EXCEPT ![n] = None]

(***************************************************************************)
(* Manager.Transition: the graph first, then the budget, then the state.   *)
(* It fails without changing anything.                                     *)
(***************************************************************************)
CanTransition(m, to) ==
  /\ IsLegalTransition(state[m], to)
  /\ Reserves(state[m], to) => Fits(MemoryFootprintBytes[m])

Settle(m, to) ==
  CASE Reserves(state[m], to) -> Reserve(MemoryFootprintBytes[m])
    [] Releases(state[m], to) -> Release(MemoryFootprintBytes[m])
    [] OTHER                  -> UNCHANGED reserved

Transition(m, to) ==
  /\ CanTransition(m, to)
  /\ Settle(m, to)
  /\ state' = [state EXCEPT ![m] = to]

(* A transition whose error the caller discards. *)
TryTransition(m, to) ==
  IF CanTransition(m, to) THEN Transition(m, to) ELSE UNCHANGED ledger
=============================================================================
