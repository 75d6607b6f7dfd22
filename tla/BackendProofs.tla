---------------------------- MODULE BackendProofs ---------------------------
(***************************************************************************)
(* The backends keep Engine's contract, for any number of instances, ports *)
(* and other programs.                                                     *)
(*                                                                         *)
(* What it takes is to know who can be bound to an instance's port: until  *)
(* it is taken or the child has ended, nobody but the instance, as only one*)
(* load is under way and every other child that has not bound its port yet *)
(* belongs to an instance whose port was taken.                            *)
(***************************************************************************)
EXTENDS Backend, TLAPS

(* One load at a time. *)
OneLoading == \A b, c \in Instance : at[b] = "wait" /\ at[c] = "wait" => b = c

(* Before the load has succeeded nothing has been asked or heard, and only
   between its start and its end has the caller a child, and a port. *)
Fresh ==
  \A b \in Instance :
    /\ at[b] \in {"new", "wait"} => peer[b] = None /\ heard[b] = None
    /\ at[b] = "new" => child[b] = "none"
    /\ Alive(b) => at[b] \in {"wait", "loaded"}
    /\ at[b] = "over" => child[b] # "exited"
    /\ b \in taken => at[b] \in {"wait", "loaded"}

(* A child is bound to its own port only. *)
OwnPort ==
  \A p \in Port, b \in Instance :
    listener[p] = b => addr[b] = p /\ child[b] \in {"bound", "healthy"}

(* Who may be bound to the port of an instance that is not disturbed. *)
Undisturbed ==
  \A b \in Instance :
    /\ at[b] = "wait" /\ b \notin taken => listener[addr[b]] \in {None, b}
    /\ at[b] = "loaded" /\ b \notin Disturbed
       => child[b] = "healthy" /\ listener[addr[b]] = b /\ peer[b] \in {None, b}

IInv == TypeOK /\ OneLoading /\ Fresh /\ OwnPort /\ Undisturbed

LEMMA InitIInv == Init => IInv
BY BackendAssumption
DEF Init, IInv, TypeOK, OneLoading, Fresh, OwnPort, Undisturbed, Alive, Listener
-----------------------------------------------------------------------------
(* Each part of the invariant, by the steps that can disturb it. *)

LEMMA TypeStep == IInv /\ [Next]_vars => TypeOK'
<1> SUFFICES ASSUME IInv, [Next]_vars PROVE TypeOK' OBVIOUS
<1> USE BackendAssumption DEF IInv, TypeOK, Goto, Listener
<1>1. ASSUME NEW b \in Instance, Load(b) PROVE TypeOK'
  <2>1. CASE LoadStarts(b) BY <2>1 DEF LoadStarts
  <2>2. CASE LoadCannotStart(b) BY <2>2 DEF LoadCannotStart, machine
  <2>3. CASE LoadHealthy(b) BY <2>3 DEF LoadHealthy, machine
  <2>4. CASE LoadTimesOut(b) BY <2>4 DEF LoadTimesOut, Kill, Closed
  <2> QED BY <1>1, <2>1, <2>2, <2>3, <2>4 DEF Load
<1>2. ASSUME NEW b \in Instance, Unload(b) PROVE TypeOK'
  BY <1>2 DEF Unload, Kill, Closed
<1>3. ASSUME NEW b \in Instance, Infer(b) PROVE TypeOK'
  BY <1>3 DEF Infer, InferConnects, InferReplies, InferFails, caller, machine
<1>4. ASSUME NEW b \in Instance, Child(b) PROVE TypeOK'
  <2>1. CASE ChildBinds(b) BY <2>1 DEF ChildBinds, caller, Users
  <2>2. CASE ChildReady(b) BY <2>2 DEF ChildReady, caller
  <2>3. CASE ChildEnds(b) BY <2>3 DEF ChildEnds, caller, Closed
  <2> QED BY <1>4, <2>1, <2>2, <2>3 DEF Child
<1>5. ASSUME NEW p \in Port, NEW o \in Stranger, StrangerBinds(o, p) PROVE TypeOK'
  BY <1>5 DEF StrangerBinds, caller, Users
<1>6. ASSUME NEW p \in Port, StrangerLeaves(p) PROVE TypeOK'
  BY <1>6 DEF StrangerLeaves, caller
<1>7. CASE UNCHANGED vars BY <1>7 DEF vars, caller, machine
<1> QED BY <1>1, <1>2, <1>3, <1>4, <1>5, <1>6, <1>7 DEF Next

LEMMA OneLoadingStep == IInv /\ [Next]_vars => OneLoading'
<1> SUFFICES ASSUME IInv, [Next]_vars PROVE OneLoading' OBVIOUS
<1> USE BackendAssumption DEF IInv, TypeOK, Goto, OneLoading
<1>1. ASSUME NEW b \in Instance, Load(b) PROVE OneLoading'
  <2>1. CASE LoadStarts(b) BY <2>1 DEF LoadStarts, Loading
  <2>2. CASE LoadCannotStart(b) BY <2>2 DEF LoadCannotStart
  <2>3. CASE LoadHealthy(b) BY <2>3 DEF LoadHealthy
  <2>4. CASE LoadTimesOut(b) BY <2>4 DEF LoadTimesOut
  <2> QED BY <1>1, <2>1, <2>2, <2>3, <2>4 DEF Load
<1>2. ASSUME NEW b \in Instance, Unload(b) PROVE OneLoading'
  BY <1>2 DEF Unload
<1>3. ASSUME UNCHANGED at PROVE OneLoading'
  BY <1>3
<1>4. ASSUME NEW b \in Instance, Infer(b) \/ Child(b) PROVE UNCHANGED at
  BY <1>4 DEF Infer, InferConnects, InferReplies, InferFails,
              Child, ChildBinds, ChildReady, ChildEnds, caller
<1>5. ASSUME NEW p \in Port,
             StrangerLeaves(p) \/ \E o \in Stranger : StrangerBinds(o, p)
      PROVE  UNCHANGED at
  BY <1>5 DEF StrangerLeaves, StrangerBinds, caller
<1>6. CASE UNCHANGED vars BY <1>6 DEF vars, caller
<1> QED BY <1>1, <1>2, <1>3, <1>4, <1>5, <1>6 DEF Next

LEMMA FreshStep == IInv /\ [Next]_vars => Fresh'
<1> SUFFICES ASSUME IInv, [Next]_vars PROVE Fresh' OBVIOUS
<1> USE BackendAssumption DEF IInv, TypeOK, Goto, Fresh, Alive
<1>1. ASSUME NEW b \in Instance, Load(b) PROVE Fresh'
  <2>1. CASE LoadStarts(b) BY <2>1 DEF LoadStarts
  <2>2. CASE LoadCannotStart(b) BY <2>2 DEF LoadCannotStart, machine
  <2>3. CASE LoadHealthy(b) BY <2>3 DEF LoadHealthy, machine
  <2>4. CASE LoadTimesOut(b) BY <2>4 DEF LoadTimesOut, Kill
  <2> QED BY <1>1, <2>1, <2>2, <2>3, <2>4 DEF Load
<1>2. ASSUME NEW b \in Instance, Unload(b) PROVE Fresh'
  BY <1>2 DEF Unload, Kill
<1>3. ASSUME NEW b \in Instance, Infer(b) PROVE Fresh'
  <2>1. CASE InferConnects(b) BY <2>1 DEF InferConnects, caller, machine
  <2>2. CASE InferReplies(b)
    <3>1. peer[b] # None BY <2>2 DEF InferReplies, Responds
    <3> QED BY <2>2, <3>1 DEF InferReplies, caller, machine
  <2>3. CASE InferFails(b) BY <2>3 DEF InferFails, caller, machine
  <2> QED BY <1>3, <2>1, <2>2, <2>3 DEF Infer
<1>4. ASSUME NEW b \in Instance, Child(b) PROVE Fresh'
  <2>1. CASE ChildBinds(b) BY <2>1 DEF ChildBinds, caller, Users
  <2>2. CASE ChildReady(b) BY <2>2 DEF ChildReady, caller
  <2>3. CASE ChildEnds(b) BY <2>3 DEF ChildEnds, caller
  <2> QED BY <1>4, <2>1, <2>2, <2>3 DEF Child
<1>5. ASSUME NEW p \in Port,
             StrangerLeaves(p) \/ \E o \in Stranger : StrangerBinds(o, p)
      PROVE  Fresh'
  BY <1>5 DEF StrangerLeaves, StrangerBinds, caller, Users
<1>6. CASE UNCHANGED vars BY <1>6 DEF vars, caller, machine
<1> QED BY <1>1, <1>2, <1>3, <1>4, <1>5, <1>6 DEF Next

LEMMA OwnPortStep == IInv /\ [Next]_vars => OwnPort'
<1> SUFFICES ASSUME IInv, [Next]_vars PROVE OwnPort' OBVIOUS
<1> USE BackendAssumption DEF IInv, TypeOK, Goto, OwnPort, Listener
<1>1. ASSUME NEW b \in Instance, Load(b) PROVE OwnPort'
  <2>1. CASE LoadStarts(b) BY <2>1 DEF LoadStarts, Fresh
  <2>2. CASE LoadCannotStart(b) BY <2>2 DEF LoadCannotStart, machine
  <2>3. CASE LoadHealthy(b) BY <2>3 DEF LoadHealthy, machine
  <2>4. CASE LoadTimesOut(b) BY <2>4 DEF LoadTimesOut, Kill, Closed
  <2> QED BY <1>1, <2>1, <2>2, <2>3, <2>4 DEF Load
<1>2. ASSUME NEW b \in Instance, Unload(b) PROVE OwnPort'
  BY <1>2 DEF Unload, Kill, Closed
<1>3. ASSUME NEW b \in Instance, Infer(b) PROVE OwnPort'
  BY <1>3 DEF Infer, InferConnects, InferReplies, InferFails, caller, machine
<1>4. ASSUME NEW b \in Instance, Child(b) PROVE OwnPort'
  <2>1. CASE ChildBinds(b) BY <2>1 DEF ChildBinds, caller, Users
  <2>2. CASE ChildReady(b) BY <2>2 DEF ChildReady, caller
  <2>3. CASE ChildEnds(b) BY <2>3 DEF ChildEnds, caller, Closed
  <2> QED BY <1>4, <2>1, <2>2, <2>3 DEF Child
<1>5. ASSUME NEW p \in Port, NEW o \in Stranger, StrangerBinds(o, p) PROVE OwnPort'
  BY <1>5 DEF StrangerBinds, caller, Users
<1>6. ASSUME NEW p \in Port, StrangerLeaves(p) PROVE OwnPort'
  BY <1>6 DEF StrangerLeaves, caller
<1>7. CASE UNCHANGED vars BY <1>7 DEF vars, caller, machine
<1> QED BY <1>1, <1>2, <1>3, <1>4, <1>5, <1>6, <1>7 DEF Next

(* Whoever announces an instance whose port was not taken is its child. *)
LEMMA AnnouncedByChild ==
  ASSUME IInv, NEW b \in Instance, at[b] = "wait", Responds(listener[addr[b]])
  PROVE  \/ b \in taken
         \/ listener[addr[b]] = b /\ child[b] = "healthy"
BY BackendAssumption DEF IInv, TypeOK, Undisturbed, Responds, Listener

LEMMA UndisturbedStep == IInv /\ [Next]_vars => Undisturbed'
<1> SUFFICES ASSUME IInv, [Next]_vars PROVE Undisturbed' OBVIOUS
<1> USE BackendAssumption DEF IInv, TypeOK, Goto, Undisturbed, Disturbed, Listener
<1>1. ASSUME NEW b \in Instance, Load(b) PROVE Undisturbed'
  <2>1. CASE LoadStarts(b) BY <2>1 DEF LoadStarts
  <2>2. CASE LoadCannotStart(b) BY <2>2 DEF LoadCannotStart, machine
  <2>3. CASE LoadHealthy(b)
    BY <2>3, AnnouncedByChild DEF LoadHealthy, machine, Fresh
  <2>4. CASE LoadTimesOut(b) BY <2>4 DEF LoadTimesOut, Kill, Closed
  <2> QED BY <1>1, <2>1, <2>2, <2>3, <2>4 DEF Load
<1>2. ASSUME NEW b \in Instance, Unload(b) PROVE Undisturbed'
  BY <1>2 DEF Unload, Kill, Closed
<1>3. ASSUME NEW b \in Instance, Infer(b) PROVE Undisturbed'
  BY <1>3 DEF Infer, InferConnects, InferReplies, InferFails, caller, machine
<1>4. ASSUME NEW b \in Instance, Child(b) PROVE Undisturbed'
  <2>1. CASE ChildBinds(b)
    <3>1. at[b] = "wait" \/ b \in taken
      BY <2>1 DEF ChildBinds, Fresh, Alive
    <3> QED BY <2>1, <3>1 DEF ChildBinds, caller, OneLoading, Users
  <2>2. CASE ChildReady(b) BY <2>2 DEF ChildReady, caller
  <2>3. CASE ChildEnds(b) BY <2>3 DEF ChildEnds, caller, Closed
  <2> QED BY <1>4, <2>1, <2>2, <2>3 DEF Child
<1>5. ASSUME NEW p \in Port, NEW o \in Stranger, StrangerBinds(o, p)
      PROVE  Undisturbed'
  BY <1>5 DEF StrangerBinds, caller, Users
<1>6. ASSUME NEW p \in Port, StrangerLeaves(p) PROVE Undisturbed'
  BY <1>6 DEF StrangerLeaves, caller
<1>7. CASE UNCHANGED vars BY <1>7 DEF vars, caller, machine
<1> QED BY <1>1, <1>2, <1>3, <1>4, <1>5, <1>6, <1>7 DEF Next

LEMMA AlwaysIInv == Spec => []IInv
<1>1. IInv /\ [Next]_vars => IInv'
  BY TypeStep, OneLoadingStep, FreshStep, OwnPortStep, UndisturbedStep DEF IInv
<1> QED BY InitIInv, <1>1, PTL DEF Spec
-----------------------------------------------------------------------------
(* The variables keep their types, and a caller that waits for its child or
   asks it has an address. *)
THEOREM BackendTypeCorrect == Spec => []TypeOK
<1>1. IInv => TypeOK BY DEF IInv
<1> QED BY AlwaysIInv, <1>1, PTL

(* A failed load and an unload leave no child running and no port bound. *)
THEOREM NothingIsLeft == Spec => []NothingLeft
<1>1. IInv => NothingLeft
  BY BackendAssumption DEF IInv, TypeOK, Fresh, OwnPort, NothingLeft, Alive
<1> QED BY AlwaysIInv, <1>1, PTL
-----------------------------------------------------------------------------
(* Refinement.  An instance that has not been loaded, or is over, is disturbed
   only by what is about its own child or port. *)

LEMMA InitRefines == Init => Contract!EngInit
BY BackendAssumption DEF Init, Contract!EngInit, Phase, Disturbed

(* A step that disturbs some instances, or none, and is not heard of. *)
LEMMA Disturbs ==
  ASSUME TypeOK, Disturbed \subseteq Disturbed', UNCHANGED <<Phase, heard>>
  PROVE  Contract!EngNext
<1>1. Contract!Disturb(Disturbed') BY DEF Contract!Disturb
<1>2. Disturbed' \in SUBSET Instance BY DEF Disturbed
<1> QED BY <1>1, <1>2 DEF Contract!EngNext

(* A kill ends the instance, and with it what has disturbed it. *)
LEMMA KillEnds ==
  ASSUME IInv, NEW b \in Instance, at[b] \in {"wait", "loaded"},
         at' = [at EXCEPT ![b] = "over"], Kill(b)
  PROVE  Contract!EngNext
<1> USE BackendAssumption DEF IInv, TypeOK
<1>1. Phase[b] # "over" BY DEF Phase
<1>2. Phase' = [Phase EXCEPT ![b] = "over"] BY DEF Phase
<1>3. Disturbed' = Disturbed \ {b} BY DEF Disturbed, Kill
<1>4. Contract!Ends(b) BY <1>1, <1>2, <1>3 DEF Contract!Ends, Kill
<1> QED BY <1>4 DEF Contract!EngNext

LEMMA StepRefines == IInv /\ [Next]_vars => [Contract!EngNext]_(Contract!engVars)
<1> SUFFICES ASSUME IInv, [Next]_vars
             PROVE  Contract!EngNext \/ UNCHANGED Contract!engVars
    OBVIOUS
<1> USE BackendAssumption DEF IInv, TypeOK, Goto
<1>1. ASSUME NEW b \in Instance, Load(b) PROVE Contract!EngNext
  <2>1. CASE LoadStarts(b)
    <3>1. Disturbed \subseteq Disturbed'
      BY <2>1 DEF LoadStarts, Disturbed, Fresh
    <3>2. UNCHANGED <<Phase, heard>> BY <2>1 DEF LoadStarts, Phase
    <3> QED BY <3>1, <3>2, Disturbs
  <2>2. CASE LoadCannotStart(b)
    <3>1. heard' = [heard EXCEPT ![b] = None]
      BY <2>2 DEF LoadCannotStart, Fresh
    <3>2. Disturbed' = Disturbed \ {b}
      BY <2>2 DEF LoadCannotStart, machine, Disturbed, Fresh
    <3>3. Phase[b] # "over" /\ Phase' = [Phase EXCEPT ![b] = "over"]
      BY <2>2 DEF LoadCannotStart, Phase
    <3>4. Contract!Ends(b) BY <3>1, <3>2, <3>3 DEF Contract!Ends
    <3> QED BY <3>4 DEF Contract!EngNext
  <2>3. CASE LoadHealthy(b)
    <3> DEFINE who == listener[addr[b]]
    <3>1. who \in Listener BY <2>3 DEF LoadHealthy, Responds, Listener
    <3>2. b \in Disturbed \/ who = b
      BY <2>3, AnnouncedByChild DEF LoadHealthy, Disturbed
    <3>3. Phase[b] = "new" /\ Phase' = [Phase EXCEPT ![b] = "loaded"]
      BY <2>3 DEF LoadHealthy, Phase
    <3>4. UNCHANGED Disturbed BY <2>3 DEF LoadHealthy, machine, Disturbed
    <3>5. Contract!Loads(b, who)
      BY <2>3, <3>2, <3>3, <3>4 DEF LoadHealthy, Contract!Loads
    <3> QED BY <3>1, <3>5 DEF Contract!EngNext
  <2>4. CASE LoadTimesOut(b) BY <2>4, KillEnds DEF LoadTimesOut
  <2> QED BY <1>1, <2>1, <2>2, <2>3, <2>4 DEF Load
<1>2. ASSUME NEW b \in Instance, Unload(b) PROVE Contract!EngNext
  BY <1>2, KillEnds DEF Unload
<1>3. ASSUME NEW b \in Instance, InferReplies(b) PROVE Contract!EngNext
  <2> DEFINE who == peer[b]
  <2>1. who \in Listener BY <1>3 DEF InferReplies, Responds, Listener
  <2>2. \/ Phase[b] = "loaded" /\ (b \in Disturbed \/ who = b)
        \/ Phase[b] = "over" /\ who # b
    <3>1. at[b] \in {"loaded", "over"} BY <1>3, <2>1 DEF Fresh, Listener
    <3>2. CASE at[b] = "loaded"
      BY <2>1, <3>2 DEF Undisturbed, Phase, Listener
    <3>3. CASE at[b] = "over"
      BY <1>3, <3>3 DEF InferReplies, Responds, Fresh, Alive, Phase
    <3> QED BY <3>1, <3>2, <3>3
  <2>3. UNCHANGED <<Phase, Disturbed>>
    BY <1>3 DEF InferReplies, caller, machine, Phase, Disturbed
  <2>4. Contract!Answers(b, who)
    BY <1>3, <2>2, <2>3 DEF InferReplies, Contract!Answers
  <2> QED BY <2>1, <2>4 DEF Contract!EngNext
<1>4. ASSUME NEW b \in Instance, InferConnects(b) \/ InferFails(b)
      PROVE  UNCHANGED Contract!engVars
  BY <1>4 DEF InferConnects, InferFails, caller, machine, Phase, Disturbed,
              Contract!engVars
<1>5. ASSUME NEW b \in Instance, Child(b) PROVE Contract!EngNext
  <2>1. UNCHANGED <<Phase, heard>>
    BY <1>5 DEF Child, ChildBinds, ChildReady, ChildEnds, caller, Phase
  <2>2. Disturbed \subseteq Disturbed'
    BY <1>5 DEF Child, ChildBinds, ChildReady, ChildEnds, caller, Disturbed
  <2> QED BY <2>1, <2>2, Disturbs
<1>6. ASSUME NEW p \in Port,
             StrangerLeaves(p) \/ \E o \in Stranger : StrangerBinds(o, p)
      PROVE  Contract!EngNext
  <2>1. UNCHANGED <<Phase, heard>>
    BY <1>6 DEF StrangerLeaves, StrangerBinds, caller, Phase
  <2>2. Disturbed \subseteq Disturbed'
    BY <1>6 DEF StrangerLeaves, StrangerBinds, caller, Disturbed
  <2> QED BY <2>1, <2>2, Disturbs
<1>7. CASE UNCHANGED vars
  BY <1>7 DEF vars, caller, machine, Phase, Disturbed, Contract!engVars
<1> QED BY <1>1, <1>2, <1>3, <1>4, <1>5, <1>6, <1>7 DEF Next, Infer

(* The backends implement the contract: a loaded instance is announced and
   answered by its own child unless that has ended or the port was taken. *)
THEOREM BackendImplementsEngine == Spec => EngineSpec
<1> QED BY InitRefines, StepRefines, AlwaysIInv, PTL
        DEF Spec, EngineSpec, Contract!EngSpec
=============================================================================
