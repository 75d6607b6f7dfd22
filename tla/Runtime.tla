------------------------------- MODULE Runtime ------------------------------
(***************************************************************************)
(* The runtime of one `otelma serve` process between its start and its end:*)
(* the handlers of the HTTP API, each on a goroutine of its own, calling   *)
(* Scheduler.Submit, Manager.Remove and Manager.Pull.                      *)
(*                                                                         *)
(* One action is one critical section of the code, one read of a shared    *)
(* variable outside any lock, or one call of a backend.  Submit runs under *)
(* the scheduler's mutex from beginning to end; Pull and Remove do not     *)
(* take it.  A goroutine that has answered may serve the next request.     *)
(***************************************************************************)
EXTENDS Manager

CONSTANTS Request,        \* the goroutines that serve requests
          UnloadMayFail,  \* whether a backend's Unload may return an error
          MaxRemoves      \* bound: how many Removes may be in progress at once

ASSUME RuntimeAssumption ==
  /\ None \notin Request
  /\ UnloadMayFail \in BOOLEAN
  /\ MaxRemoves \in Nat

VARIABLES holder,  \* Scheduler.mu: the goroutine that holds it
          pc,      \* where each goroutine is
          name,    \* the model name of its request
          mdl,     \* its local m: the result of its latest Registry.Get
          be       \* its local be: the backend it made, or took from the table

loaded == <<process, weights>>
store  == <<models, backends, loaded>>
locals == <<name, mdl, be>>
vars   == <<models, state, reserved, backends, loaded, holder, pc, name, mdl, be>>

SubmitPoint == {"submit", "check", "loadGet", "loading", "load", "store",
                "loaded", "inferGet", "lookup", "busy", "infer"}
RemovePoint == {"remove", "inspect", "unloadGet", "unloading", "detach",
                "unload", "release", "unregister"}
PullPoint   == {"resolve", "register", "pulled"}
Point       == {"idle", "persist"} \cup SubmitPoint \cup RemovePoint \cup PullPoint

Init ==
  /\ ManagerInit
  /\ holder = None
  /\ pc   = [t \in Request |-> "idle"]
  /\ name = [t \in Request |-> None]
  /\ mdl  = [t \in Request |-> None]
  /\ be   = [t \in Request |-> None]
-----------------------------------------------------------------------------
(* Moves of a goroutine. *)

Goto(t, from, to) == pc[t] = from /\ pc' = [pc EXCEPT ![t] = to]

(* The handler answers; a deferred unlock gives the scheduler's mutex back. *)
Return(t, from) ==
  /\ Goto(t, from, "idle")
  /\ holder' = IF holder = t THEN None ELSE holder
  /\ name' = [name EXCEPT ![t] = None]
  /\ mdl'  = [mdl EXCEPT ![t] = None]
  /\ be'   = [be EXCEPT ![t] = None]

(* Mutant: the ok of Registry.Get is ignored. *)
GetStepUnchecked(t, from, to) ==
  /\ Goto(t, from, to)
  /\ mdl' = [mdl EXCEPT ![t] = Get(name[t])]
  /\ UNCHANGED <<ledger, store, holder, name, be>>

(* m, ok := Registry.Get(name), with an error answer when it is not there. *)
GetStep(t, from, to) ==
  /\ pc[t] = from
  /\ \/ /\ Get(name[t]) # None
        /\ Goto(t, from, to)
        /\ mdl' = [mdl EXCEPT ![t] = Get(name[t])]
        /\ UNCHANGED <<holder, name, be>>
     \/ /\ Get(name[t]) = None
        /\ Return(t, from)
  /\ UNCHANGED <<ledger, store>>

(* Mutant: a transition that is refused is tried again until it succeeds. *)
TransitionStepRetry(t, from, new, to) ==
  /\ pc[t] = from
  /\ IF CanTransition(mdl[t], new)
     THEN Transition(mdl[t], new) /\ Goto(t, from, to) /\ UNCHANGED <<holder, locals>>
     ELSE UNCHANGED <<ledger, holder, pc, locals>>
  /\ UNCHANGED store

(* A call of Transition on m whose error ends the request. *)
TransitionStep(t, from, new, to) ==
  /\ pc[t] = from
  /\ \/ /\ Transition(mdl[t], new)
        /\ Goto(t, from, to)
        /\ UNCHANGED <<holder, locals>>
     \/ /\ ~CanTransition(mdl[t], new)
        /\ Return(t, from)
        /\ UNCHANGED ledger
  /\ UNCHANGED store
-----------------------------------------------------------------------------
(* Requests arrive: POST /api/run and /v1/chat/completions, DELETE
   /api/models/{name}, POST /api/pull.  A request refused as malformed has
   no effect and is left out. *)

Arrive(t, n, at) ==
  /\ Goto(t, "idle", at)
  /\ name' = [name EXCEPT ![t] = n]
  /\ UNCHANGED <<ledger, store, holder, mdl, be>>

Removing == {t \in Request : pc[t] \in RemovePoint}

CallSubmit(t, n) == Arrive(t, n, "submit")
CallRemove(t, n) == Arrive(t, n, "remove") /\ Cardinality(Removing) < MaxRemoves
CallPull(t, n)   == Arrive(t, n, "resolve")
-----------------------------------------------------------------------------
(* Scheduler.Submit *)

(* Mutant: the mutex is not taken. *)
SubmitEnterUnlocked(t) ==
  /\ Goto(t, "submit", IF Get(name[t]) = None THEN "inferGet" ELSE "check")
  /\ mdl' = [mdl EXCEPT ![t] = Get(name[t])]
  /\ UNCHANGED <<ledger, store, holder, name, be>>

(* Take the mutex and look the model up; Infer reports a name not found. *)
SubmitEnter(t) ==
  /\ pc[t] = "submit" /\ holder = None
  /\ holder' = t
  /\ mdl' = [mdl EXCEPT ![t] = Get(name[t])]
  /\ Goto(t, "submit", IF Get(name[t]) = None THEN "inferGet" ELSE "check")
  /\ UNCHANGED <<ledger, store, name, be>>

(* Read m.State, outside the lock that protects it. *)
SubmitCheck(t) ==
  /\ Goto(t, "check", IF state[mdl[t]] = "Downloaded" THEN "loadGet" ELSE "inferGet")
  /\ UNCHANGED <<ledger, store, holder, locals>>

(* Manager.LoadModel, called by Submit *)

LoadGet(t)        == GetStep(t, "loadGet", "loading")
LoadTransition(t) == TransitionStep(t, "loading", "Loading", "load")

(* Instances that nothing refers to any more: memory for new ones.  Bound: a
   load succeeds only if there is one. *)
Unused == {i \in Instance : /\ i \notin process
                            /\ \A n \in Name : backends[n] # i
                            /\ \A t \in Request : be[t] # i}

(* NewBackend makes an instance; Backend.Load returns: the process that it
   spawned for the model's file has reported healthy ... *)
BackendLoads(t) ==
  /\ Goto(t, "load", "store")
  /\ \E i \in Unused :
       /\ be' = [be EXCEPT ![t] = i]
       /\ weights' = [weights EXCEPT ![i] = mdl[t]]
       /\ process' = process \cup {i}
  /\ UNCHANGED <<ledger, models, backends, holder, name, mdl>>

(* Mutant: the process that is not healthy in time is left running. *)
BackendLoadFailsAlive(t) ==
  /\ Return(t, "load")
  /\ TryTransition(mdl[t], "Downloaded")
  /\ \E i \in Unused :
       /\ weights' = [weights EXCEPT ![i] = mdl[t]]
       /\ process' = process \cup {i}
  /\ UNCHANGED <<models, backends>>

(* Mutant: the model is not rolled back. *)
BackendLoadFailsStuck(t) ==
  Return(t, "load") /\ UNCHANGED <<ledger, store>>

(* ... or never started, or was killed at the startup timeout. *)
BackendLoadFails(t) ==
  /\ Return(t, "load")
  /\ TryTransition(mdl[t], "Downloaded")
  /\ UNCHANGED store

(* Mutant: an entry that is already there is kept. *)
StoreBackendOnce(t) ==
  /\ Goto(t, "store", "loaded")
  /\ backends' = [backends EXCEPT ![name[t]] = IF @ = None THEN be[t] ELSE @]
  /\ be' = [be EXCEPT ![t] = None]
  /\ UNCHANGED <<ledger, models, loaded, holder, name, mdl>>

StoreBackend(t) ==
  /\ Goto(t, "store", "loaded")
  /\ backends' = [backends EXCEPT ![name[t]] = be[t]]
  /\ be' = [be EXCEPT ![t] = None]
  /\ UNCHANGED <<ledger, models, loaded, holder, name, mdl>>

LoadReady(t) == TransitionStep(t, "loaded", "Ready", "inferGet")

(* Manager.Infer, called by Submit *)

InferGet(t) == GetStep(t, "inferGet", "lookup")

InferLookup(t) ==
  /\ pc[t] = "lookup"
  /\ \/ /\ backends[name[t]] # None
        /\ Goto(t, "lookup", "busy")
        /\ be' = [be EXCEPT ![t] = backends[name[t]]]
        /\ UNCHANGED <<holder, name, mdl>>
     \/ /\ backends[name[t]] = None
        /\ Return(t, "lookup")
  /\ UNCHANGED <<ledger, store>>

InferBusy(t) == TransitionStep(t, "busy", "Busy", "infer")

(* Backend.Infer returns, with a reply or an error: the deferred transition. *)
InferReturn(t) ==
  /\ Return(t, "infer")
  /\ TryTransition(mdl[t], "Ready")
  /\ UNCHANGED store
-----------------------------------------------------------------------------
(* Manager.Remove *)

RemoveGet(t) == GetStep(t, "remove", "inspect")

(* Read m.State, outside the lock that protects it. *)
RemoveInspect(t) ==
  /\ pc[t] = "inspect"
  /\ \/ /\ state[mdl[t]] = "Ready"
        /\ Goto(t, "inspect", "unloadGet")
        /\ UNCHANGED <<holder, locals>>
     \/ /\ state[mdl[t]] \in {"Loading", "Busy", "Unloading"}
        /\ Return(t, "inspect")
     \/ /\ state[mdl[t]] \in {"NotPresent", "Downloaded"}
        /\ Goto(t, "inspect", "unregister")
        /\ UNCHANGED <<holder, locals>>
  /\ UNCHANGED <<ledger, store>>

(* Manager.UnloadModel, called by Remove *)

UnloadGet(t)        == GetStep(t, "unloadGet", "unloading")
UnloadTransition(t) == TransitionStep(t, "unloading", "Unloading", "detach")

Detach(t) ==
  /\ Goto(t, "detach", IF backends[name[t]] = None THEN "release" ELSE "unload")
  /\ be' = [be EXCEPT ![t] = backends[name[t]]]
  /\ backends' = [backends EXCEPT ![name[t]] = None]
  /\ UNCHANGED <<ledger, models, loaded, holder, name, mdl>>

BackendUnloads(t) ==
  /\ Goto(t, "unload", "release")
  /\ process' = process \ {be[t]}
  /\ UNCHANGED <<ledger, models, backends, weights, holder, locals>>

(* Kill reports that the child had died just before: the error ends the
   request.  Unload has waited for the child, so it is gone in any case. *)
BackendUnloadFails(t) ==
  /\ UnloadMayFail
  /\ Return(t, "unload")
  /\ process' = process \ {be[t]}
  /\ UNCHANGED <<ledger, models, backends, weights>>

(* Mutant: the transition back to Downloaded is left out. *)
UnloadDownloadedNot(t) ==
  Goto(t, "release", "unregister") /\ UNCHANGED <<ledger, store, holder, locals>>

UnloadDownloaded(t) == TransitionStep(t, "release", "Downloaded", "unregister")

(* Back in Remove: whatever is registered under the name leaves. *)
RemoveUnregister(t) ==
  /\ Goto(t, "unregister", "persist")
  /\ Unregister(name[t])
  /\ UNCHANGED <<ledger, backends, loaded, holder, locals>>
-----------------------------------------------------------------------------
(* Manager.Pull *)

(* The source resolves and its checksum and size are computed ... Bound: a
   pull gets past this point only if an unused object is left for it. *)
PullResolves(t) ==
  /\ Goto(t, "resolve", "register")
  /\ Cardinality({u \in Request : pc[u] = "register"}) < Cardinality(Unallocated)
  /\ UNCHANGED <<ledger, store, holder, locals>>

(* ... or the download, the stat or the checksum fails. *)
PullFails(t) ==
  /\ Return(t, "resolve")
  /\ UNCHANGED <<ledger, store>>

PullRegister(t) ==
  /\ pc[t] = "register"
  /\ \/ \E m \in Model :
          /\ Register(name[t], m)
          /\ mdl' = [mdl EXCEPT ![t] = m]
          /\ Goto(t, "register", "pulled")
          /\ UNCHANGED <<holder, name, be>>
     \/ /\ Get(name[t]) # None
        /\ Return(t, "register")
        /\ UNCHANGED <<models, state>>
  /\ UNCHANGED <<reserved, backends, loaded>>

PullTransition(t) == TransitionStep(t, "pulled", "Downloaded", "persist")

(* Manager.persist, the end of Pull and Remove: it reads the registry and
   writes the registry file, none of the state here.  See RegistryFile. *)
Persist(t) ==
  /\ Return(t, "persist")
  /\ UNCHANGED <<ledger, store>>
-----------------------------------------------------------------------------
SubmitStep(t) ==
  \/ SubmitCheck(t)
  \/ LoadGet(t) \/ LoadTransition(t) \/ BackendLoads(t) \/ BackendLoadFails(t)
  \/ StoreBackend(t) \/ LoadReady(t)
  \/ InferGet(t) \/ InferLookup(t) \/ InferBusy(t) \/ InferReturn(t)

RemoveStep(t) ==
  \/ RemoveGet(t) \/ RemoveInspect(t) \/ RemoveUnregister(t)
  \/ UnloadGet(t) \/ UnloadTransition(t) \/ Detach(t)
  \/ BackendUnloads(t) \/ BackendUnloadFails(t) \/ UnloadDownloaded(t)

PullStep(t) ==
  \/ PullResolves(t) \/ PullFails(t) \/ PullRegister(t) \/ PullTransition(t)

Step(t) == SubmitStep(t) \/ RemoveStep(t) \/ PullStep(t) \/ Persist(t)

Next ==
  \E t \in Request :
    \/ \E n \in Name : CallSubmit(t, n) \/ CallRemove(t, n) \/ CallPull(t, n)
    \/ SubmitEnter(t)
    \/ Step(t)

Spec == Init /\ [][Next]_vars

(***************************************************************************)
(* A goroutine that is neither idle nor waiting for the mutex keeps going: *)
(* Go schedules it, and every call it makes ends (Backend.Load at its      *)
(* startup timeout, Infer at the client's 120 seconds, a download at       *)
(* HFDownloadTimeout).  sync.Mutex hands itself to a waiter that has been  *)
(* passed over for a millisecond, so a waiter is not overtaken for ever.   *)
(* Clients need not send anything.                                         *)
(***************************************************************************)
Fairness == \A t \in Request : WF_vars(Step(t)) /\ SF_vars(SubmitEnter(t))

FairSpec == Spec /\ Fairness
-----------------------------------------------------------------------------
(* Properties. *)

(* The points at which a goroutine dereferences its m, and its be. *)
UsesModel == {"check", "loading", "load", "store", "loaded", "lookup", "busy",
              "infer", "inspect", "unloading", "detach", "unload", "release",
              "pulled"}
UsesBackend == {"store", "busy", "infer", "unload"}

StoreType ==
  /\ models \in [Name -> Model \cup {None}]
  /\ state \in [Model -> ModelState \cup {"Unallocated"}]
  /\ reserved \in Nat
  /\ backends \in [Name -> Instance \cup {None}]
  /\ process \in SUBSET Instance
  /\ weights \in [Instance -> Model \cup {None}]

LocalType ==
  /\ holder \in Request \cup {None}
  /\ pc \in [Request -> Point]
  /\ name \in [Request -> Name \cup {None}]
  /\ mdl \in [Request -> Model \cup {None}]
  /\ be \in [Request -> Instance \cup {None}]
  /\ \A t \in Request :
       /\ pc[t] # "idle" => name[t] \in Name
       /\ pc[t] \in UsesModel => mdl[t] \in Model
       /\ pc[t] \in UsesBackend => be[t] \in Instance

(* Types; in particular no handler ever dereferences a nil model or a nil
   backend, whatever left the registry or the table while it was running. *)
TypeOK == StoreType /\ LocalType

(* The ledger always matches which models are resident: reserved is exactly
   the sum of the footprints of the models that are Loading, Ready, Busy or
   Unloading, registered or not, through failed loads, failed transitions
   and removals that overlap. *)
LedgerExact == reserved = BytesOf(Resident)

(* The models in memory fit in the budget together. *)
WithinBudget == BytesOf(Resident) <= TotalBytes

(* Budget.Release never panics: a goroutine that is about to give a model's
   bytes back, after an unload or a failed load, finds them reserved. *)
Releasing == {t \in Request : pc[t] \in {"load", "release"}}
ReleaseCovered ==
  \A t \in Releasing :
    Releases(state[mdl[t]], "Downloaded") => MemoryFootprintBytes[mdl[t]] <= reserved

(* Requests are served one at a time: at most one model is Loading or Busy,
   and the goroutine that holds the scheduler's mutex is working on it. *)
Active == {m \in Model : state[m] \in {"Loading", "Busy"}}
OneActive == \A m \in Active : holder # None /\ mdl[holder] = m

(* Why that is so: a goroutine inside LoadModel, Infer, UnloadModel or the end
   of Pull owns its model, alone, in the state that it gave the model, until it
   gives the model its next state itself; only the holder of the mutex is inside
   Submit; and no model is left NotPresent, Loading or Busy without its owner,
   nor Unloading, unless a backend's Unload has failed. *)
LoadPoint   == {"load", "store", "loaded"}
UnloadPoint == {"detach", "unload", "release"}

Gave(at) ==
  CASE at \in LoadPoint   -> "Loading"
    [] at = "infer"       -> "Busy"
    [] at \in UnloadPoint -> "Unloading"
    [] at = "pulled"      -> "NotPresent"
    [] OTHER              -> "nothing"

Owns(t, m) == mdl[t] = m /\ Gave(pc[t]) # "nothing"

MutexHeld  == \A t \in Request : pc[t] \in SubmitPoint \ {"submit"} <=> holder = t
OwnerState == \A t \in Request, m \in Model : Owns(t, m) => state[m] = Gave(pc[t])
Exclusive  == \A t, u \in Request, m \in Model : Owns(t, m) /\ Owns(u, m) => t = u
Passing    == {"NotPresent", "Loading", "Busy"} \cup
              IF UnloadMayFail THEN {} ELSE {"Unloading"}
HasOwner   == \A m \in Model : state[m] \in Passing => \E t \in Request : Owns(t, m)

Owned == MutexHeld /\ OwnerState /\ Exclusive /\ HasOwner

(* A reply comes from the model it was asked of: the backend that Infer took
   from the table, by name and in another critical section than the one in
   which it made the model Busy, is the one that was loaded for that model. *)
InferOwnBackend == \A t \in Request : pc[t] = "infer" => weights[be[t]] = mdl[t]

(* The runtime implements Residency, where a model is being loaded, or is
   serving, for as long as a goroutine is inside LoadModel, or Infer, with it,
   whatever its State says: no model is evicted under such a goroutine. *)
At(points) == {mdl[t] : t \in {u \in Request : pc[u] \in points}}
Abstract == INSTANCE Residency WITH resident <- Resident,
                                    loading  <- At(LoadPoint),
                                    serving  <- At({"infer"})
ResidencySpec == Abstract!ResSpec

(* Memory in use is memory accounted for: every live backend process belongs
   to a model that the budget counts, and no model has two of them. *)
ProcessReserved ==
  \A i \in process :
    /\ weights[i] \in Resident
    /\ \A j \in process : weights[i] = weights[j] => i = j

(* A request is answered by a live process: no Remove kills the backend that
   a goroutine is waiting for in Backend.Infer. *)
InferRunsLive == \A t \in Request : pc[t] = "infer" => be[t] \in process

(* Requests do not race on a model's transitions: each transition that a
   Submit makes is legal when it makes it (the load may lack memory). *)
Uncontested(t) ==
  /\ pc[t] = "loading" => IsLegalTransition(state[mdl[t]], "Loading")
  /\ pc[t] = "loaded"  => IsLegalTransition(state[mdl[t]], "Ready")
  /\ pc[t] = "busy"    => IsLegalTransition(state[mdl[t]], "Busy")
  /\ pc[t] = "infer"   => IsLegalTransition(state[mdl[t]], "Ready")

(* Nothing is left dangling: once all requests are answered, a model that holds
   memory is registered and Ready, so that a later request can use or remove it,
   and a process that runs is the one that the table has for such a model. *)
NothingDangling ==
  (\A t \in Request : pc[t] = "idle") =>
    /\ \A m \in Resident : Registered(m) /\ state[m] = "Ready"
    /\ \A i \in process : /\ weights[i] \in Resident
                          /\ \E n \in Name : models[n] = weights[i] /\ backends[n] = i

(* Every request is answered. *)
RequestsAnswered == \A t \in Request : pc[t] # "idle" ~> pc[t] = "idle"

(* A model that is being unloaded settles. *)
UnloadingSettles ==
  \A m \in Model : state[m] = "Unloading" ~> state[m] # "Unloading"
=============================================================================
