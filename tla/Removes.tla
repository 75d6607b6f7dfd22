-------------------------------- MODULE Removes ------------------------------
(***************************************************************************)
(* What Runtime promises depends on the Removes that clients send, as the  *)
(* code has no lock around one.  Two history variables say what they have  *)
(* sent, and each promise names what it takes: that a name has never been  *)
(* removed, or that each name is removed by one request at a time.         *)
(***************************************************************************)
EXTENDS Runtime

VARIABLES removed,  \* history: the names that a Remove has come for
          clashed   \* history: two Removes of one name have overlapped

histVars == <<vars, removed, clashed>>

HistInit == Init /\ removed = {} /\ clashed = FALSE

Clash == \E t, u \in Removing : t # u /\ name[t] = name[u]

HistNext ==
  /\ Next
  /\ removed' = removed \cup {name'[t] : t \in Removing'}
  /\ clashed' = (clashed \/ Clash')

HistSpec == HistInit /\ [][HistNext]_histVars
-----------------------------------------------------------------------------
(* As long as no two Removes of one name overlap, every live backend process
   belongs to a model that the budget counts, one to each, whatever Submits,
   Pulls and Removes of other names do in between. *)
AloneReserved == ~clashed => ProcessReserved

(* As long as no two Removes of one name overlap, no goroutine waits for a reply
   from a process that has been killed. *)
AloneRunsLive == ~clashed => InferRunsLive

(* The table has its own process, alive, for every registered Ready model. *)
Servable ==
  \A n \in Name :
    models[n] # None /\ state[models[n]] = "Ready"
    => backends[n] \in process /\ weights[backends[n]] = models[n]

(* As long as no two Removes of one name overlap, a model that the registry shows
   as Ready can be asked. *)
AloneServable == ~clashed => Servable

(* No transition that a Submit makes is contested, unless its model's name has
   been removed before, or is being removed: Removes of other models, and any
   Submits and Pulls, do not interfere. *)
NoneUncontested == \A t \in Request : name[t] \notin removed => Uncontested(t)

(* Before the first Remove, nothing is left dangling, whichever loads fail: every
   model and every process that holds memory can be reached. *)
NoneDangling == removed = {} => NothingDangling
=============================================================================
