------------------------------- MODULE Backend ------------------------------
(***************************************************************************)
(* The backends that run a child process per model, llamacpp and mlx, which*)
(* have the same code: Load guesses a free port, starts the child and polls*)
(* whoever answers on the port; Infer asks whoever answers on it; Unload   *)
(* kills the child.  One instance is made for each load, and the           *)
(* scheduler's mutex allows one Load at a time.                            *)
(*                                                                         *)
(* The environment is the machine: children start slowly, fail to bind, or *)
(* die by themselves, and other programs take ports of the loopback        *)
(* interface and leave them.                                               *)
(***************************************************************************)
EXTENDS Naturals

CONSTANTS Instance,  \* the backend instances, each with the child it starts
          Port,      \* the ports of the loopback interface
          Stranger,  \* other programs that listen there
          Friendly,  \* those among them that answer as a llama-server would
          None       \* no port, nobody

ASSUME BackendAssumption ==
  /\ Friendly \subseteq Stranger
  /\ Instance \cap Stranger = {}
  /\ None \notin Instance \cup Stranger \cup Port

VARIABLES at,         \* where the caller of each instance is
          addr,       \* b.addr: the port, None when it is ""
          child,      \* the state of the process that cmd refers to
          listener,   \* who is bound to each port
          peer,       \* who has the connection of the request in flight
          heard,      \* history: who gave the instance its latest answer
          taken       \* history: the instances whose port a stranger has bound
                      \* since they picked it, or the child of such an instance

caller  == <<at, addr>>
machine == <<child, listener>>
vars    == <<at, addr, child, listener, peer, heard, taken>>

Listener == Instance \cup Stranger

(* The instances that have picked a port: more than one, if it was free again
   before the first one's child had bound it, or after that had ended. *)
Users(p) == {b \in Instance : addr[b] = p}

Init ==
  /\ at = [b \in Instance |-> "new"]
  /\ addr = [b \in Instance |-> None]
  /\ child = [b \in Instance |-> "none"]
  /\ listener \in [Port -> Stranger \cup {None}]
  /\ peer = [b \in Instance |-> None]
  /\ heard = [b \in Instance |-> None]
  /\ taken = {}

Goto(b, from, to) == at[b] = from /\ at' = [at EXCEPT ![b] = to]

(* The child exists and has not exited. *)
Alive(b) == child[b] \in {"starting", "bound", "healthy"}

Closed(b) == [p \in Port |-> IF listener[p] = b THEN None ELSE listener[p]]

(* GET /health and POST /v1/chat/completions succeed with these. *)
Responds(who) == who \in Friendly \/ (who \in Instance /\ child[who] = "healthy")
-----------------------------------------------------------------------------
(* Load *)

Loading == {b \in Instance : at[b] = "wait"}

(* Mutant: a load does not wait for another one. *)
LoadStartsBeside(b) ==
  /\ Goto(b, "new", "wait")
  /\ \E p \in Port : listener[p] = None /\ addr' = [addr EXCEPT ![b] = p]
  /\ child' = [child EXCEPT ![b] = "starting"]
  /\ UNCHANGED <<listener, peer, heard, taken>>

(* Mutant: the address is remembered once the child is healthy. *)
LoadStartsNoAddr(b) ==
  /\ Loading = {}
  /\ Goto(b, "new", "wait")
  /\ child' = [child EXCEPT ![b] = "starting"]
  /\ UNCHANGED <<addr, listener, peer, heard, taken>>

(* freePort lets the system choose a port and closes it again; the child is
   started, and will bind the port later. *)
LoadStarts(b) ==
  /\ Loading = {}
  /\ Goto(b, "new", "wait")
  /\ \E p \in Port : listener[p] = None /\ addr' = [addr EXCEPT ![b] = p]
  /\ child' = [child EXCEPT ![b] = "starting"]
  /\ UNCHANGED <<listener, peer, heard, taken>>

(* There is no free port, or no program to run. *)
LoadCannotStart(b) ==
  /\ Loading = {}
  /\ Goto(b, "new", "over")
  /\ UNCHANGED <<addr, machine, peer, heard, taken>>

(* waitHealthy believes whoever answers 200 on the address. *)
LoadHealthy(b) ==
  /\ Goto(b, "wait", "loaded")
  /\ Responds(listener[addr[b]])
  /\ heard' = [heard EXCEPT ![b] = listener[addr[b]]]
  /\ UNCHANGED <<addr, machine, peer, taken>>

(* Unload kills the child and waits for its end.  Kill may return an error for
   a child that has exited; neither caller looks at the child again. *)
Kill(b) ==
  /\ child' = [child EXCEPT ![b] = "reaped"]
  /\ listener' = Closed(b)
  /\ addr' = [addr EXCEPT ![b] = None]
  /\ heard' = [heard EXCEPT ![b] = None]
  /\ taken' = taken \ {b}

(* Mutant: a load that gives up leaves its child alone. *)
LoadTimesOutAlone(b) ==
  /\ Goto(b, "wait", "over")
  /\ UNCHANGED <<addr, machine, peer, heard, taken>>

(* The startup timeout ends the poll at any moment. *)
LoadTimesOut(b) ==
  /\ Goto(b, "wait", "over")
  /\ Kill(b)
  /\ UNCHANGED peer

Unload(b) ==
  /\ Goto(b, "loaded", "over")
  /\ Kill(b)
  /\ UNCHANGED peer
-----------------------------------------------------------------------------
(* Infer.  The manager may call Unload on an instance that is inferring, when
   Removes overlap. *)

InferConnects(b) ==
  /\ at[b] = "loaded" /\ peer[b] = None
  /\ listener[addr[b]] # None
  /\ peer' = [peer EXCEPT ![b] = listener[addr[b]]]
  /\ UNCHANGED <<caller, machine, heard, taken>>

(* The reply is decoded and returned. *)
InferReplies(b) ==
  /\ Responds(peer[b])
  /\ peer' = [peer EXCEPT ![b] = None]
  /\ heard' = [heard EXCEPT ![b] = peer[b]]
  /\ UNCHANGED <<caller, machine, taken>>

(* Infer returns an error: the connection is lost, the answer is none of a
   llama-server's, or the HTTP client's timeout is over. *)
InferFails(b) ==
  /\ peer[b] # None
  /\ peer' = [peer EXCEPT ![b] = None]
  /\ UNCHANGED <<caller, machine, heard, taken>>
-----------------------------------------------------------------------------
(* The machine *)

(* A child that is late, because a stranger had its port, may find there the port
   of an instance that was loaded after it. *)
ChildBinds(b) ==
  /\ child[b] = "starting"
  /\ listener[addr[b]] = None
  /\ child' = [child EXCEPT ![b] = "bound"]
  /\ listener' = [listener EXCEPT ![addr[b]] = b]
  /\ taken' = IF b \in taken THEN taken \cup Users(addr[b]) ELSE taken
  /\ UNCHANGED <<caller, peer, heard>>

ChildReady(b) ==
  /\ child[b] = "bound"
  /\ child' = [child EXCEPT ![b] = "healthy"]
  /\ UNCHANGED <<caller, listener, peer, heard, taken>>

(* The port is taken, the file is no model, there is no memory, ... *)
ChildEnds(b) ==
  /\ Alive(b)
  /\ child' = [child EXCEPT ![b] = "exited"]
  /\ listener' = Closed(b)
  /\ UNCHANGED <<caller, peer, heard, taken>>

StrangerBinds(o, p) ==
  /\ listener[p] = None
  /\ listener' = [listener EXCEPT ![p] = o]
  /\ taken' = taken \cup Users(p)
  /\ UNCHANGED <<caller, child, peer, heard>>

StrangerLeaves(p) ==
  /\ listener[p] \in Stranger
  /\ listener' = [listener EXCEPT ![p] = None]
  /\ UNCHANGED <<caller, child, peer, heard, taken>>
-----------------------------------------------------------------------------
Load(b)  == LoadStarts(b) \/ LoadCannotStart(b) \/ LoadHealthy(b) \/ LoadTimesOut(b)
Infer(b) == InferConnects(b) \/ InferReplies(b) \/ InferFails(b)
Child(b) == ChildBinds(b) \/ ChildReady(b) \/ ChildEnds(b)

Next ==
  \/ \E b \in Instance : Load(b) \/ Unload(b) \/ Infer(b) \/ Child(b)
  \/ \E p \in Port : StrangerLeaves(p) \/ \E o \in Stranger : StrangerBinds(o, p)

Spec == Init /\ [][Next]_vars
-----------------------------------------------------------------------------
(* Types; a caller that waits for its child, or asks it, has an address. *)
TypeOK ==
  /\ at \in [Instance -> {"new", "wait", "loaded", "over"}]
  /\ addr \in [Instance -> Port \cup {None}]
  /\ child \in [Instance -> {"none", "starting", "bound", "healthy", "exited", "reaped"}]
  /\ listener \in [Port -> Listener \cup {None}]
  /\ peer \in [Instance -> Listener \cup {None}]
  /\ heard \in [Instance -> Listener \cup {None}]
  /\ taken \in SUBSET Instance
  /\ \A b \in Instance : at[b] \in {"wait", "loaded"} <=> addr[b] \in Port

(* A load that fails, whenever its timeout falls, and an unload leave no child
   running and no port bound. *)
NothingLeft ==
  \A b \in Instance : at[b] = "over" => ~Alive(b) /\ \A p \in Port : listener[p] # b

(* A load that succeeded was announced by the instance's own child, and that child
   answers every request, until it ends by itself or, since the instance picked
   its port, another program has bound that, or the child of an instance to
   which the same had happened first.  So loads that are cut short, children
   that are late or dead and ports that are given out again do not mix two
   models up by themselves: it takes another program, or the end of a child. *)
Disturbed == {b \in Instance : child[b] = "exited" \/ b \in taken}
Phase == [b \in Instance |-> IF at[b] = "wait" THEN "new" ELSE at[b]]
Contract == INSTANCE Engine WITH Answerer <- Listener, phase <- Phase,
                                 disturbed <- Disturbed
EngineSpec == Contract!EngSpec

(* The manager's Ready corresponds to a resident process: from a load's success
   to the unload, the child is there. *)
ReadyIsResident == \A b \in Instance : at[b] = "loaded" => Alive(b)

(* Whatever other programs do, the children of two instances are not taken for
   one another: what an instance has heard of last was not the child of another. *)
SiblingsApart == \A b, c \in Instance : heard[b] = c => b = c
=============================================================================
