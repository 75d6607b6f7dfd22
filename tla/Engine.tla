------------------------------- MODULE Engine -------------------------------
(***************************************************************************)
(* What a backend instance promises to the manager, with no ports, polls   *)
(* or timeouts: a load succeeds or leaves nothing behind, an unload leaves *)
(* nothing behind, and an instance is answered by its own process, except  *)
(* one that has been disturbed: its process has ended, or somebody else has*)
(* had its port.  What may disturb an instance is the implementation's     *)
(* matter, and the end of the instance is the end of it.                   *)
(***************************************************************************)
EXTENDS Naturals

CONSTANTS Instance,  \* the backend instances
          None,      \* no process
          Answerer   \* whoever may answer a request: instances, other programs

VARIABLES phase,      \* of each instance: "new", "loaded", "over"
          disturbed,  \* instances that somebody else may answer for
          heard       \* who gave each instance its latest answer

engVars == <<phase, disturbed, heard>>

EngInit ==
  /\ phase = [i \in Instance |-> "new"]
  /\ disturbed = {}
  /\ heard = [i \in Instance |-> None]

(* Load succeeds: somebody said that the model is ready to infer. *)
Loads(i, who) ==
  /\ phase[i] = "new"
  /\ i \in disturbed \/ who = i
  /\ phase' = [phase EXCEPT ![i] = "loaded"]
  /\ heard' = [heard EXCEPT ![i] = who]
  /\ UNCHANGED disturbed

(* Load fails, or Unload has been called. *)
Ends(i) ==
  /\ phase[i] # "over"
  /\ phase' = [phase EXCEPT ![i] = "over"]
  /\ disturbed' = disturbed \ {i}
  /\ heard' = [heard EXCEPT ![i] = None]

(* An answer that arrives after Unload was already under way, and is not the
   killed process's. *)
Answers(i, who) ==
  /\ \/ phase[i] = "loaded" /\ (i \in disturbed \/ who = i)
     \/ phase[i] = "over" /\ who # i
  /\ heard' = [heard EXCEPT ![i] = who]
  /\ UNCHANGED <<phase, disturbed>>

Disturb(S) ==
  /\ disturbed' = disturbed \cup S
  /\ UNCHANGED <<phase, heard>>

EngNext ==
  \/ \E i \in Instance :
       \/ \E who \in Answerer : Loads(i, who) \/ Answers(i, who)
       \/ Ends(i)
  \/ \E S \in SUBSET Instance : Disturb(S)

EngSpec == EngInit /\ [][EngNext]_engVars
=============================================================================
