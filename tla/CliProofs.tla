------------------------------- MODULE CliProofs -----------------------------
(***************************************************************************)
(* What the commands, the servers and the configuration file promise one   *)
(* another, for any number of commands, servers, models, addresses and     *)
(* edits of the file.                                                      *)
(*                                                                         *)
(* What it takes is to say what a process has read of the file and has not *)
(* been overtaken by: its address, its server's, that there was no file.   *)
(***************************************************************************)
EXTENDS Cli, SequenceTheorems, TLAPS

(* A command polls where the file says, until the file changes. *)
BaseRead ==
  \A c \in Command :
    pc[c] \in {"probe", "poll"} /\ c \notin changed => base[c] = Load(file)["client"]

(* The server that a command has started is its own, and listens where the
   file says, unless that changes. *)
ChildReads ==
  \A c \in Command : pc[c] = "poll" =>
    /\ srv[child[c]] # "none"
    /\ srv[child[c]] = "spawned" => at[child[c]] = None
    /\ Live(child[c]) /\ c \notin changed => at[child[c]] = Load(file)["serve"]

(* config init has seen that there is no file. *)
SeenMissing ==
  \A c \in Command :
    pc[c] = "create" /\ verb[c] = "init" /\ c \notin changed => file = Missing

(* A command at work knows which. *)
VerbKnown == \A c \in Running : verb[c] \in Verb

IInv == TypeOK /\ VerbKnown /\ RegistryCarried /\ BaseRead /\ ChildReads /\ SeenMissing

(* Whatever the file holds, every address it gives is one. *)
LEMMA LoadGivesAddr == ASSUME NEW f, NEW k \in Key PROVE Load(f)[k] \in Addr
BY ConfigAssumption DEF Load, Merged, Default

LEMMA InitIInv == Init => IInv
<1> SUFFICES ASSUME Init PROVE IInv OBVIOUS
<1> USE ConfigAssumption, CliAssumption DEF Init, ConfigInit, ServerInit
<1>1. TypeOK
  <2>1. file \in Version \cup {Missing} /\ edits \in 0..MaxEdits OBVIOUS
  <2>2. turn \in [Command -> 0..MaxTurns] OBVIOUS
  <2>3. Running = {} BY DEF Running
  <2> QED BY <2>1, <2>2, <2>3 DEF TypeOK, Live
<1>2. RegistryCarried BY DEF RegistryCarried, Live
<1>3. BaseRead /\ ChildReads /\ SeenMissing /\ VerbKnown
  BY DEF BaseRead, ChildReads, SeenMissing, VerbKnown, Running
<1> QED BY <1>1, <1>2, <1>3 DEF IInv
-----------------------------------------------------------------------------
(* The parts of TypeOK: of the configuration, the servers and the commands. *)

ConfigType ==
  file \in Version \cup {Missing, Unreadable, Default} /\ edits \in 0..MaxEdits

ServerType ==
  /\ srv \in [Server -> {"none", "spawned", "starting", "listening", "draining", "ended"}]
  /\ at \in [Server -> Addr \cup {None}]
  /\ known \in [Server -> SUBSET Name] /\ children \in SUBSET (Server \X Name)
  /\ registry \in {Unreadable} \cup SUBSET Name /\ present \in SUBSET Name
  /\ kept \in SUBSET Name /\ stale \in SUBSET Server /\ clashed \in BOOLEAN
  /\ \A s \in Server : Live(s) => at[s] \in Addr

CommandType ==
  /\ pc \in [Command -> {"idle", "probe", "poll", "up", "post", "sent", "stat",
                         "create", "write", "written", "over"}]
  /\ verb \in [Command -> Verb \cup {None}]
  /\ base \in [Command -> Addr \cup {None}]
  /\ child \in [Command -> Server \cup {None}]
  /\ changed \in SUBSET Command
  /\ turn \in [Command -> 0..MaxTurns]
  /\ \A c \in Command : /\ pc[c] = "poll" => child[c] # None
                        /\ c \in Running => base[c] \in Addr

LEMMA TypeParts ==
  TypeOK <=> ConfigType /\ ServerType /\ CommandType /\ open \in SUBSET Request
BY DEF TypeOK, ConfigType, ServerType, CommandType

(* Whatever a server does, by itself or for a request. *)
ServerEffect ==
  \/ \E s \in Server :
       \/ Serve(s) \/ Listen(s) \/ Interrupt(s)
       \/ End(s, {"starting"}) \/ End(s, {"draining"})
       \/ End(s, {"spawned", "starting", "listening", "draining"})
       \/ \E flag \in Addr \cup {None} : Spawn(s, flag)
       \/ /\ srv[s] \in {"listening", "draining"}
          /\ \E n \in Name : PullDone(s, n) \/ RemoveDone(s, n) \/ RunDone(s, n)
  \/ RegistryBreaks \/ \E n \in Name : FileGoes(n)
  \/ UNCHANGED servers

LEMMA ServerTypeStep == ServerType /\ ServerEffect => ServerType'
<1> SUFFICES ASSUME ServerType, ServerEffect PROVE ServerType' OBVIOUS
<1> USE ConfigAssumption DEF ServerType, Live, Move, memory, disk, told
<1>1. ASSUME NEW s \in Server, Serve(s) PROVE ServerType'
  <2>1. Found \in SUBSET Name BY DEF Found
  <2> QED BY <1>1, <2>1, LoadGivesAddr DEF Serve, Key
<1>2. ASSUME NEW s \in Server, Listen(s) \/ Interrupt(s) PROVE ServerType'
  BY <1>2 DEF Listen, Interrupt
<1>3. ASSUME NEW s \in Server, NEW from, End(s, from) PROVE ServerType'
  BY <1>3 DEF End
<1>4. ASSUME NEW s \in Server, NEW flag \in Addr \cup {None}, Spawn(s, flag)
      PROVE  ServerType'
  BY <1>4 DEF Spawn
<1>5. ASSUME NEW s \in Server, NEW n \in Name,
             PullDone(s, n) \/ RemoveDone(s, n) \/ RunDone(s, n)
      PROVE  ServerType'
  <2>1. ASSUME NEW names \in SUBSET Name, Persist(s, names),
               children' \in SUBSET (Server \X Name), present' \in SUBSET Name
        PROVE  ServerType'
    <3>1. /\ clashed' \in BOOLEAN
          /\ registry' \in {Unreadable} \cup SUBSET Name
          /\ kept' \in SUBSET Name /\ stale' \in SUBSET Server
      <4>1. CASE Saved(s, names)
        <5>1. clashed' \in BOOLEAN BY <4>1, Zenon DEF Saved
        <5> QED BY <4>1, <5>1 DEF Saved
      <4>2. CASE NotSaved(s, names) BY <4>2 DEF NotSaved
      <4> QED BY <2>1, <4>1, <4>2 DEF Persist
    <3> QED BY <2>1, <3>1 DEF Persist
  <2>2. CASE PullDone(s, n) BY <2>1, <2>2 DEF PullDone
  <2>3. CASE RemoveDone(s, n) BY <2>1, <2>3 DEF RemoveDone
  <2>4. CASE RunDone(s, n) BY <2>4 DEF RunDone
  <2> QED BY <1>5, <2>2, <2>3, <2>4
<1>6. CASE RegistryBreaks BY <1>6 DEF RegistryBreaks
<1>7. ASSUME NEW n \in Name, FileGoes(n) PROVE ServerType'
  BY <1>7 DEF FileGoes
<1>8. CASE UNCHANGED servers BY <1>8 DEF servers
<1> QED BY <1>1, <1>2, <1>3, <1>4, <1>5, <1>6, <1>7, <1>8 DEF ServerEffect

(* A server that comes up finds what has been kept, or that is given up; one that
   saves, and beside which no other has saved, still knows it. *)
LEMMA CarriedStep ==
  ServerType /\ RegistryCarried /\ ServerEffect => RegistryCarried'
<1> SUFFICES ASSUME ServerType, RegistryCarried, ServerEffect, ~clashed'
             PROVE  /\ registry' = Unreadable \/ kept' \subseteq registry'
                    /\ \A s \in Server \ stale' : Live(s)' => kept' \subseteq known'[s]
    BY DEF RegistryCarried
<1> DEFINE Carried == /\ registry' = Unreadable \/ kept' \subseteq registry'
                      /\ \A s \in Server \ stale' : Live(s)' => kept' \subseteq known'[s]
<1> USE DEF ServerType, RegistryCarried, Live, Move, memory, disk, told
<1>1. ASSUME NEW s \in Server, Serve(s) PROVE Carried
  BY <1>1 DEF Serve, Found
<1>2. ASSUME NEW s \in Server, Listen(s) \/ Interrupt(s) PROVE Carried
  BY <1>2 DEF Listen, Interrupt
<1>3. ASSUME NEW s \in Server, NEW from, End(s, from) PROVE Carried
  BY <1>3 DEF End
<1>4. ASSUME NEW s \in Server, NEW flag, Spawn(s, flag) PROVE Carried
  BY <1>4 DEF Spawn
<1>5. ASSUME NEW s \in Server, Live(s), NEW names \in SUBSET Name, Persist(s, names)
      PROVE  Carried
  <2>1. CASE Saved(s, names)
    <3>1. s \notin stale /\ ~clashed BY <2>1 DEF Saved
    <3>2. kept \subseteq known[s] BY <1>5, <3>1
    <3>3. kept' = names BY <2>1, <3>2 DEF Saved
    <3> QED BY <1>5, <2>1, <3>3 DEF Persist, Saved
  <2>2. CASE NotSaved(s, names)
    BY <1>5, <2>2 DEF Persist, NotSaved
  <2> QED BY <1>5, <2>1, <2>2 DEF Persist
<1>6. ASSUME NEW s \in Server, NEW n \in Name, RunDone(s, n) PROVE Carried
  BY <1>6 DEF RunDone
<1>7. CASE RegistryBreaks BY <1>7 DEF RegistryBreaks
<1>8. ASSUME NEW n \in Name, FileGoes(n) PROVE Carried
  BY <1>8 DEF FileGoes
<1>9. CASE UNCHANGED servers BY <1>9 DEF servers
<1> QED BY <1>1, <1>2, <1>3, <1>4, <1>5, <1>6, <1>7, <1>8, <1>9
        DEF ServerEffect, PullDone, RemoveDone
-----------------------------------------------------------------------------
(* The types of the commands, whatever they do. *)

LEMMA LeaveType ==
  ASSUME CommandType, VerbKnown, NEW c \in Command, NEW from, Leave(c, from)
  PROVE  CommandType' /\ VerbKnown'
BY CliAssumption DEF CommandType, VerbKnown, Running, Leave, Goto

(* Moving on without a change of what was read. *)
LEMMA GotoType ==
  ASSUME CommandType, VerbKnown, NEW c \in Command,
         NEW from \in SUBSET {"probe", "poll", "up", "post", "sent", "stat",
                              "create", "write"},
         NEW to \in {"up", "post", "sent", "create", "write", "written"},
         Goto(c, from, to), UNCHANGED <<verb, base, child>>,
         changed' \in SUBSET Command, turn' \in [Command -> 0..MaxTurns]
  PROVE  CommandType' /\ VerbKnown'
BY DEF CommandType, VerbKnown, Running, Goto

LEMMA ErrorType ==
  ASSUME CommandType, VerbKnown, NEW c \in Command, Error(c) \/ Answer(c)
  PROVE  CommandType' /\ VerbKnown'
<1>1. CASE verb[c] = "chat"
  BY <1>1, GotoType DEF Error, Answer, start, CommandType
<1>2. CASE verb[c] # "chat" BY <1>2, LeaveType DEF Error, Answer
<1> QED BY <1>1, <1>2

LEMMA UnchangedType ==
  ASSUME CommandType, VerbKnown, UNCHANGED <<pc, verb, base, child, turn>>,
         changed' \in SUBSET Command
  PROVE  CommandType' /\ VerbKnown'
BY DEF CommandType, VerbKnown, Running

LEMMA CommandTypeStep ==
  TypeOK /\ VerbKnown /\ [Next]_vars => CommandType' /\ VerbKnown'
<1> SUFFICES ASSUME TypeOK, VerbKnown, [Next]_vars PROVE CommandType' /\ VerbKnown'
    OBVIOUS
<1> USE TypeParts
<1>1. ASSUME NEW c \in Command, NEW v \in Verb, Run(c, v)
      PROVE  CommandType' /\ VerbKnown'
  <2>1. PICK to \in {"stat", "create", "probe"} : Goto(c, {"idle"}, to)
    BY <1>1 DEF Run
  <2> QED BY <1>1, <2>1, LoadGivesAddr
          DEF Run, Goto, CommandType, VerbKnown, Running, Key, talk
<1>2. ASSUME NEW c \in Command, FindOrStart(c) PROVE CommandType' /\ VerbKnown'
  <2>1. CASE FindServer(c) BY <2>1, GotoType DEF FindServer, start, talk, CommandType
  <2>2. CASE GiveUp(c) BY <2>2, LeaveType DEF GiveUp
  <2>3. ASSUME NEW s \in Server, StartServer(c, s) PROVE CommandType' /\ VerbKnown'
    <3>1. s # None BY ServerAssumption
    <3> QED BY <2>3, <3>1
            DEF StartServer, Goto, CommandType, VerbKnown, Running, talk
  <2> QED BY <1>2, <2>1, <2>2, <2>3 DEF FindOrStart
<1>3. ASSUME NEW c \in Command, InitConfig(c) PROVE CommandType' /\ VerbKnown'
  <2>1. CASE InitStat(c)
    BY <2>1, LeaveType, GotoType DEF InitStat, start, talk, CommandType
  <2>2. CASE InitCreate(c) \/ InitWrite(c)
    BY <2>2, GotoType DEF InitCreate, InitWrite, Running, talk, CommandType
  <2>3. CASE InitEnds(c) BY <2>3, LeaveType DEF InitEnds
  <2> QED BY <1>3, <2>1, <2>2, <2>3 DEF InitConfig
<1>4. ASSUME NEW c \in Command, Talk(c) PROVE CommandType' /\ VerbKnown'
  <2>1. CASE Say(c)
    <3>1. turn' \in [Command -> 0..MaxTurns]
      BY <2>1, CliAssumption DEF Say, CommandType
    <3> QED BY <2>1, <3>1, GotoType DEF Say, start, CommandType
  <2>2. CASE Clear(c) BY <2>2, UnchangedType DEF Clear, start, CommandType
  <2>3. CASE Exit(c) BY <2>3, LeaveType DEF Exit
  <2>4. CASE LoseRequest(c) BY <2>4, ErrorType DEF LoseRequest
  <2>5. ASSUME NEW s \in Server, NEW n \in Name, Post(c, s, n)
        PROVE  CommandType' /\ VerbKnown'
    BY <2>5, GotoType DEF Post, start, talk, CommandType
  <2> QED BY <1>4, <2>1, <2>2, <2>3, <2>4, <2>5 DEF Talk
<1>5. ASSUME NEW r \in open, Handle(r) PROVE CommandType' /\ VerbKnown'
  <2>1. r.command \in Command BY DEF Request
  <2> QED BY <1>5, <2>1, ErrorType, UnchangedType DEF Handle, start, talk, CommandType
<1>6. CASE ServerActs
  BY <1>6, UnchangedType DEF ServerActs, start, talk, CommandType
<1>7. CASE UserEdits
  BY <1>7, UnchangedType DEF UserEdits, talk, Running, CommandType
<1>8. CASE UNCHANGED vars
  BY <1>8, UnchangedType DEF vars, start, talk, CommandType
<1> QED BY <1>1, <1>2, <1>3, <1>4, <1>5, <1>6, <1>7, <1>8 DEF Next
-----------------------------------------------------------------------------
(* What a step does to the servers, to the requests and to the file. *)

LEMMA StepServers == TypeOK /\ [Next]_vars => ServerEffect
<1> SUFFICES ASSUME TypeOK, [Next]_vars PROVE ServerEffect OBVIOUS
<1> USE DEF ServerEffect
<1>1. ASSUME NEW c \in Command, NEW s \in Server, StartServer(c, s)
      PROVE  ServerEffect
  BY <1>1 DEF StartServer
<1>2. ASSUME NEW r \in open, Handle(r) PROVE ServerEffect
  <2>1. r.server \in Server /\ r.model \in Name BY DEF TypeOK, Request
  <2> QED BY <1>2, <2>1 DEF Handle, Effect, Half
<1>3. CASE ServerActs
  BY <1>3 DEF ServerActs, ServerStep, ListenFails, Drained, Crash
<1>4. ASSUME NEW c \in Command,
             \/ \E v \in Verb : Run(c, v)
             \/ FindServer(c) \/ GiveUp(c) \/ InitConfig(c) \/ Talk(c)
      PROVE  UNCHANGED servers
  BY <1>4 DEF Run, FindServer, GiveUp, InitConfig, InitStat, InitCreate, InitWrite,
              InitEnds, Talk, Say, Clear, Exit, LoseRequest, Post
<1>5. CASE UserEdits \/ UNCHANGED vars BY <1>5 DEF UserEdits, vars
<1> QED BY <1>1, <1>2, <1>3, <1>4, <1>5 DEF Next, FindOrStart

LEMMA RequestTypeStep ==
  TypeOK /\ VerbKnown /\ [Next]_vars => open' \in SUBSET Request
<1> SUFFICES ASSUME TypeOK, VerbKnown, [Next]_vars PROVE open' \in SUBSET Request
    OBVIOUS
<1> USE DEF TypeOK
<1>1. ASSUME NEW c \in Command, LoseRequest(c) PROVE open' \in SUBSET Request
  <2>1. ASSUME NEW r \in Request
        PROVE  [r EXCEPT !.waited = @ /\ r.command # c] \in Request
    BY <2>1 DEF Request
  <2> QED BY <1>1, <2>1 DEF LoseRequest
<1>2. ASSUME NEW c \in Command, NEW s \in Server, NEW n \in Name, Post(c, s, n)
      PROVE  open' \in SUBSET Request
  <2>1. verb[c] \in Verb BY <1>2 DEF Post, Goto, VerbKnown, Running
  <2> DEFINE r == [command |-> c, does |-> verb[c], model |-> n, server |-> s,
                   waited |-> TRUE]
  <2>2. r \in Request BY <2>1 DEF Request
  <2>3. open' = open \cup {r} BY <1>2 DEF Post
  <2> HIDE DEF r
  <2> QED BY <2>2, <2>3
<1>3. ASSUME NEW r \in open, Handle(r) PROVE open' \in SUBSET Request
  BY <1>3 DEF Handle
<1>4. ASSUME NEW c \in Command,
             \/ \E v \in Verb : Run(c, v)
             \/ FindOrStart(c) \/ InitConfig(c) \/ Say(c) \/ Clear(c) \/ Exit(c)
      PROVE  UNCHANGED open
  BY <1>4 DEF Run, FindOrStart, FindServer, GiveUp, StartServer, InitConfig, InitStat,
              InitCreate, InitWrite, InitEnds, Say, Clear, Exit
<1>5. CASE ServerActs \/ UserEdits \/ UNCHANGED vars
  BY <1>5 DEF ServerActs, UserEdits, vars
<1> QED BY <1>1, <1>2, <1>3, <1>4, <1>5 DEF Next, Talk

(* Who changes the file, and that the others are told. *)
LEMMA StepConfig ==
  [Next]_vars =>
    \/ UNCHANGED config
    \/ UserEdits
    \/ \E c \in Command : InitCreate(c) \/ InitWrite(c)
<1> SUFFICES ASSUME [Next]_vars,
                    ~UserEdits, \A c \in Command : ~InitCreate(c) /\ ~InitWrite(c)
             PROVE  UNCHANGED config
    OBVIOUS
<1>1. ASSUME NEW c \in Command,
             \/ \E v \in Verb : Run(c, v)
             \/ FindOrStart(c) \/ InitConfig(c) \/ Talk(c)
      PROVE  UNCHANGED config
  BY <1>1 DEF Run, FindOrStart, FindServer, GiveUp, StartServer, InitConfig, InitStat,
              InitEnds, Talk, Say, Clear, Exit, LoseRequest, Post
<1>2. ASSUME NEW r \in open, Handle(r) PROVE UNCHANGED config
  BY <1>2 DEF Handle
<1>3. CASE ServerActs \/ UNCHANGED vars BY <1>3 DEF ServerActs, vars
<1> QED BY <1>1, <1>2, <1>3 DEF Next

LEMMA ConfigTypeStep == ConfigType /\ [Next]_vars => ConfigType'
<1> SUFFICES ASSUME ConfigType, [Next]_vars PROVE ConfigType' OBVIOUS
<1> USE ConfigAssumption DEF ConfigType
<1>1. CASE UNCHANGED config BY <1>1 DEF config
<1>2. CASE UserEdits BY <1>2 DEF UserEdits, Edit
<1>3. ASSUME NEW c \in Command, InitCreate(c) \/ InitWrite(c) PROVE ConfigType'
  BY <1>3 DEF InitCreate, InitWrite, Truncate, WriteDefault
<1> QED BY <1>1, <1>2, <1>3, StepConfig

LEMMA TypeStep == TypeOK /\ VerbKnown /\ [Next]_vars => TypeOK' /\ VerbKnown'
<1>1. TypeOK' <=> ConfigType' /\ ServerType' /\ CommandType' /\ open' \in SUBSET Request
  BY DEF TypeOK, ConfigType, ServerType, CommandType
<1> QED BY <1>1, TypeParts, StepServers, ServerTypeStep, CommandTypeStep,
           RequestTypeStep, ConfigTypeStep
-----------------------------------------------------------------------------
(* What was read stays true, or the command knows of the change. *)

(* A command whose file is not known to have changed between two of these
   places has the same file. *)
Reading == {"stat", "probe", "poll", "create"}

LEMMA FileSteady ==
  ASSUME TypeOK, [Next]_vars, NEW c \in Command,
         pc[c] \in Reading, pc'[c] \in Reading, c \notin changed'
  PROVE  UNCHANGED file
<1> USE DEF Reading
<1>1. CASE UNCHANGED config BY <1>1 DEF config
<1>2. CASE UserEdits BY <1>2 DEF UserEdits, Running
<1>3. ASSUME NEW d \in Command, InitCreate(d) \/ InitWrite(d) PROVE UNCHANGED file
  <2>1. c # d BY <1>3 DEF InitCreate, InitWrite, Goto, TypeOK
  <2> QED BY <1>3, <2>1 DEF InitCreate, InitWrite, Running
<1> QED BY <1>1, <1>2, <1>3, StepConfig

(* How a command comes to where it polls, or creates the file. *)
LEMMA Enters ==
  ASSUME TypeOK, [Next]_vars, NEW c \in Command
  PROVE  /\ pc'[c] \in {"probe", "poll", "create"}
            => \/ /\ pc[c] \in Reading
                  /\ UNCHANGED <<base[c], verb[c]>>
                  /\ c \in changed => c \in changed'
               \/ \E v \in Verb : Run(c, v)
         /\ pc'[c] = "probe" => pc[c] \in {"probe", "idle"}
         /\ pc'[c] = "poll"
            => \/ pc[c] = "poll" /\ UNCHANGED child[c]
               \/ \E s \in Server : StartServer(c, s)
         /\ pc'[c] = "create" => \/ pc[c] = "create"
                                 \/ InitStat(c)
                                 \/ \E v \in Verb : Run(c, v)
<1> USE DEF TypeOK, Reading, Goto, Leave, start, talk
<1> DEFINE Claim(d) ==
      /\ pc'[d] \in {"probe", "poll", "create"}
         => \/ /\ pc[d] \in Reading
               /\ UNCHANGED <<base[d], verb[d]>>
               /\ d \in changed => d \in changed'
            \/ \E v \in Verb : Run(d, v)
      /\ pc'[d] = "probe" => pc[d] \in {"probe", "idle"}
      /\ pc'[d] = "poll"
         => \/ pc[d] = "poll" /\ UNCHANGED child[d]
            \/ \E s \in Server : StartServer(d, s)
      /\ pc'[d] = "create" => \/ pc[d] = "create"
                              \/ InitStat(d)
                              \/ \E v \in Verb : Run(d, v)
<1>1. ASSUME NEW d \in Command, NEW v \in Verb, Run(d, v) PROVE Claim(c)
  <2>1. PICK to \in {"stat", "create", "probe"} : Goto(d, {"idle"}, to)
    BY <1>1 DEF Run
  <2>2. CASE c = d BY <1>1, <2>1, <2>2
  <2>3. CASE c # d BY <1>1, <2>1, <2>3 DEF Run
  <2> QED BY <2>2, <2>3
<1>2. ASSUME NEW d \in Command, FindOrStart(d) PROVE Claim(c)
  BY <1>2 DEF FindOrStart, FindServer, GiveUp, StartServer
<1>3. ASSUME NEW d \in Command, InitConfig(d) PROVE Claim(c)
  BY <1>3 DEF InitConfig, InitStat, InitCreate, InitWrite, InitEnds
<1>4. ASSUME NEW d \in Command, Error(d) \/ Answer(d) PROVE Claim(c)
  BY <1>4 DEF Error, Answer
<1>5. ASSUME NEW d \in Command, Talk(d) PROVE Claim(c)
  BY <1>4, <1>5 DEF Talk, Say, Clear, Exit, LoseRequest, Post
<1>6. ASSUME NEW r \in open, Handle(r) PROVE Claim(c)
  <2>1. r.command \in Command BY DEF Request
  <2>2. CASE UNCHANGED <<pc, start, talk>> BY <2>2
  <2> QED BY <1>4, <1>6, <2>1, <2>2 DEF Handle
<1>7. CASE ServerActs \/ UserEdits \/ UNCHANGED vars
  BY <1>7 DEF ServerActs, UserEdits, vars
<1> QED BY <1>1, <1>2, <1>3, <1>5, <1>6, <1>7 DEF Next
LEMMA BaseReadStep == IInv /\ [Next]_vars => BaseRead'
<1> SUFFICES ASSUME IInv, [Next]_vars, NEW c \in Command,
                    pc'[c] \in {"probe", "poll"}, c \notin changed'
             PROVE  base'[c] = Load(file')["client"]
    BY DEF BaseRead, Load, Merged
<1> USE DEF IInv
<1>1. ASSUME NEW v \in Verb, Run(c, v) PROVE base'[c] = Load(file')["client"]
  BY <1>1 DEF Run, config, TypeOK
<1>2. ASSUME NEW s \in Server, StartServer(c, s)
      PROVE  base'[c] = Load(file')["client"]
  BY <1>2 DEF StartServer, Goto, config, BaseRead
<1>3. CASE pc[c] \in {"probe", "poll"}
    /\ UNCHANGED base[c] /\ (c \in changed => c \in changed')
  <2>1. UNCHANGED file BY <1>3, FileSteady DEF Reading
  <2> QED BY <1>3, <2>1 DEF BaseRead
<1>4. pc[c] = "idle" => \E v \in Verb : Run(c, v)
  BY Enters DEF Reading
<1> QED BY <1>1, <1>2, <1>3, <1>4, Enters

(* What can become of a server that has been made. *)
LEMMA ServerSteady ==
  ASSUME ServerType, ServerEffect, NEW s \in Server, srv[s] # "none"
  PROVE  /\ srv'[s] # "none"
         /\ srv'[s] = "spawned" => srv[s] = "spawned" /\ UNCHANGED at[s]
         /\ Live(s)'
            => \/ Live(s) /\ UNCHANGED at[s]
               \/ srv[s] = "spawned"
                  /\ at'[s] = IF at[s] = None THEN Load(file)["serve"] ELSE at[s]
<1> USE DEF ServerType, Move, Live
<1> DEFINE Claim ==
      /\ srv'[s] # "none"
      /\ srv'[s] = "spawned" => srv[s] = "spawned" /\ UNCHANGED at[s]
      /\ Live(s)'
         => \/ Live(s) /\ UNCHANGED at[s]
            \/ srv[s] = "spawned"
               /\ at'[s] = IF at[s] = None THEN Load(file)["serve"] ELSE at[s]
<1>1. ASSUME NEW t \in Server, Serve(t) PROVE Claim BY <1>1 DEF Serve
<1>2. ASSUME NEW t \in Server, Listen(t) \/ Interrupt(t) PROVE Claim
  BY <1>2 DEF Listen, Interrupt
<1>3. ASSUME NEW t \in Server, NEW from, End(t, from) PROVE Claim
  BY <1>3 DEF End
<1>4. ASSUME NEW t \in Server, NEW flag, Spawn(t, flag) PROVE Claim
  BY <1>4 DEF Spawn
<1>5. ASSUME NEW t \in Server, NEW n \in Name,
             PullDone(t, n) \/ RemoveDone(t, n) \/ RunDone(t, n)
      PROVE  Claim
  BY <1>5 DEF PullDone, RemoveDone, RunDone, Persist
<1>6. CASE RegistryBreaks \/ \E n \in Name : FileGoes(n)
  BY <1>6 DEF RegistryBreaks, FileGoes
<1>7. CASE UNCHANGED servers BY <1>7 DEF servers
<1> QED BY <1>1, <1>2, <1>3, <1>4, <1>5, <1>6, <1>7 DEF ServerEffect

LEMMA ChildReadsStep == IInv /\ [Next]_vars => ChildReads'
<1> SUFFICES ASSUME IInv, [Next]_vars, NEW c \in Command, pc'[c] = "poll"
             PROVE  /\ srv'[child'[c]] # "none"
                    /\ srv'[child'[c]] = "spawned" => at'[child'[c]] = None
                    /\ Live(child[c])' /\ c \notin changed'
                       => at'[child'[c]] = Load(file')["serve"]
    BY DEF ChildReads, Live, Load, Merged
<1> USE DEF IInv
<1>1. ASSUME NEW s \in Server, StartServer(c, s)
      PROVE  /\ srv'[child'[c]] = "spawned"
             /\ at'[child'[c]] = None
  BY <1>1 DEF StartServer, Spawn, Move, TypeOK
<1>2. CASE pc[c] = "poll" /\ UNCHANGED child[c]
  <2>1. PICK s \in Server : child[c] = s /\ child'[c] = s BY <1>2 DEF TypeOK
  <2>2. /\ srv[s] # "none"
        /\ srv[s] = "spawned" => at[s] = None
        /\ Live(s) /\ c \notin changed => at[s] = Load(file)["serve"]
    BY <1>2, <2>1 DEF ChildReads
  <2>3. ServerType /\ ServerEffect BY StepServers, TypeParts
  <2>4. c \notin changed' => UNCHANGED file
    BY <1>2, FileSteady DEF Reading
  <2>5. c \in changed => c \in changed'
    <3>1. \A v \in Verb : ~Run(c, v) BY <1>2 DEF Run, Goto
    <3> QED BY <3>1, Enters
  <2>6. /\ srv'[s] # "none"
        /\ srv'[s] = "spawned" => at'[s] = None
        /\ Live(s)' /\ c \notin changed' => at'[s] = Load(file')["serve"]
    BY <2>1, <2>2, <2>3, <2>4, <2>5, ServerSteady DEF Live
  <2> QED BY <2>1, <2>6 DEF Live
<1> QED BY <1>1, <1>2, Enters DEF Live

LEMMA SeenMissingStep == IInv /\ [Next]_vars => SeenMissing'
<1> SUFFICES ASSUME IInv, [Next]_vars, NEW c \in Command,
                    pc'[c] = "create", verb'[c] = "init", c \notin changed'
             PROVE  file' = Missing
    BY DEF SeenMissing
<1> USE DEF IInv
<1>1. ASSUME NEW v \in Verb, Run(c, v) PROVE FALSE
  <2>1. v = "init" BY <1>1 DEF Run, TypeOK
  <2> QED BY <1>1, <2>1 DEF Run, Goto, TypeOK
<1>2. /\ pc[c] \in Reading /\ UNCHANGED verb[c]
      /\ c \in changed => c \in changed'
      /\ pc[c] = "create" \/ InitStat(c)
  BY <1>1, Enters
<1>3. UNCHANGED file BY <1>2, FileSteady DEF Reading
<1>4. CASE InitStat(c)
  BY <1>3, <1>4 DEF InitStat, Leave, Goto, TypeOK
<1> QED BY <1>2, <1>3, <1>4 DEF SeenMissing

LEMMA AlwaysIInv == Spec => []IInv
<1>1. IInv /\ [Next]_vars => IInv'
  BY TypeStep, CarriedStep, BaseReadStep, ChildReadsStep, SeenMissingStep, StepServers,
     TypeParts DEF IInv
<1> QED BY InitIInv, <1>1, PTL DEF Spec
-----------------------------------------------------------------------------
(* The variables keep their types; a command that has found a server has an
   address, and one that polls has started a server. *)
THEOREM CliTypeCorrect == Spec => []TypeOK
<1>1. IInv => TypeOK BY DEF IInv
<1> QED BY AlwaysIInv, <1>1, PTL

(* A command polls the address where the server that it has started comes up,
   unless the file changes meanwhile or sets its two addresses apart. *)
THEOREM StartedAlwaysPolled == Spec => []StartedIsPolled
<1>1. IInv => StartedIsPolled
  <2> SUFFICES ASSUME IInv, NEW c \in Command, pc[c] = "poll", Live(child[c]),
                      c \notin changed,
                      \/ file \in {Missing, Unreadable}
                      \/ \E k \in Key : file[k] = Mistyped
                      \/ file["serve"] = file["client"]
               PROVE  at[child[c]] = base[c]
      BY DEF StartedIsPolled
  <2>1. Load(file)["serve"] = Load(file)["client"]
    BY DEF Load, Merged, Default, Key
  <2> QED BY <2>1 DEF IInv, BaseRead, ChildReads
<1> QED BY AlwaysIInv, <1>1, PTL

(* Whichever servers end or lose their address, and whichever saves fail, a model
   that is once on file is known to the servers that come after and stays on file,
   until it is removed, is not found by one of them, or is overwritten by a
   server beside which another had saved. *)
THEOREM RegistryAlwaysCarried == Spec => []RegistryCarried
<1>1. IInv => RegistryCarried BY DEF IInv
<1> QED BY AlwaysIInv, <1>1, PTL

(* config init writes only where there was no file, or one that has appeared
   since it looked. *)
THEOREM FileAlwaysKept == Spec => FileIsKept
<1>1. IInv => \A c \in Command :
        pc[c] = "create" /\ pc'[c] = "write" /\ verb[c] = "init"
        => file = Missing \/ c \in changed
  BY DEF IInv, SeenMissing
<1> QED BY AlwaysIInv, <1>1, PTL DEF FileIsKept
-----------------------------------------------------------------------------
(* The transcript. *)

(* A line of the transcript. *)
Line == [role : {"user", "assistant"}, line : Nat]

(* Answered lines are lines, two for each. *)
LEMMA AnsweredType ==
  ASSUME NEW a \in Seq(Nat)
  PROVE  Answered(a) \in Seq(Line) /\ Len(Answered(a)) = 2 * Len(a)
<1>1. 2 * Len(a) \in Nat BY LenProperties
<1>2. ASSUME NEW k \in 1 .. 2 * Len(a)
      PROVE  /\ k % 2 = 1 => (k + 1) \div 2 \in 1 .. Len(a)
             /\ k % 2 # 1 => k \div 2 \in 1 .. Len(a)
  BY <1>2, LenProperties
<1>3. Answered(a) \in [1 .. 2 * Len(a) -> Line]
  BY <1>2, ElementOfSeq DEF Answered, User, Assistant, Line
<1> QED BY <1>1, <1>3

(* None without an answered line ... *)
LEMMA AnsweredNone == Answered(<<>>) = <<>>
<1>1. <<>> \in Seq(Nat) /\ Len(<<>>) = 0 BY EmptySeq
<1>2. Answered(<<>>) \in Seq(Line) /\ Len(Answered(<<>>)) = 2 * Len(<<>>)
  BY <1>1, AnsweredType, Zenon
<1>3. Len(Answered(<<>>)) = 0 BY <1>1, <1>2
<1> QED BY <1>2, <1>3, EmptySeq

(* ... two more for one more ... *)
LEMMA AnsweredMore ==
  ASSUME NEW a \in Seq(Nat), NEW x \in Nat
  PROVE  Append(Answered(a) \o <<User(x)>>, Assistant(x)) = Answered(Append(a, x))
<1> DEFINE h == Append(Answered(a) \o <<User(x)>>, Assistant(x))
           b == Append(a, x)
<1>1. User(x) \in Line /\ Assistant(x) \in Line BY DEF User, Assistant, Line
<1>2. Answered(a) \in Seq(Line) /\ Len(Answered(a)) = 2 * Len(a) BY AnsweredType
<1>3. b \in Seq(Nat) /\ Len(b) = Len(a) + 1 OBVIOUS
<1>4. Answered(b) \in Seq(Line) /\ Len(Answered(b)) = 2 * Len(a) + 2
  <2> HIDE DEF b
  <2>1. Answered(b) \in Seq(Line) /\ Len(Answered(b)) = 2 * Len(b) BY <1>3, AnsweredType
  <2>2. Len(a) \in Nat BY LenProperties
  <2> QED BY <1>3, <2>1, <2>2
<1>5. h \in Seq(Line) /\ Len(h) = 2 * Len(a) + 2 BY <1>1, <1>2
<1>6. ASSUME NEW k \in 1 .. 2 * Len(a) + 2 PROVE h[k] = Answered(b)[k]
  <2>1. CASE k \in 1 .. 2 * Len(a)
    <3>1. h[k] = Answered(a)[k] BY <1>1, <1>2, <2>1
    <3>2. /\ k % 2 = 1 => b[(k + 1) \div 2] = a[(k + 1) \div 2]
          /\ k % 2 # 1 => b[k \div 2] = a[k \div 2]
      BY <2>1
    <3> QED BY <1>3, <2>1, <3>1, <3>2 DEF Answered
  <2>2. CASE k = 2 * Len(a) + 1
    <3>1. h[k] = User(x) BY <1>1, <1>2, <2>2
    <3>2. k % 2 = 1 /\ (k + 1) \div 2 = Len(a) + 1 BY <2>2
    <3> QED BY <1>3, <2>2, <3>1, <3>2 DEF Answered
  <2>3. CASE k = 2 * Len(a) + 2
    <3>1. h[k] = Assistant(x) BY <1>1, <1>2, <2>3
    <3>2. k % 2 # 1 /\ k \div 2 = Len(a) + 1 BY <2>3
    <3> QED BY <1>3, <2>3, <3>1, <3>2 DEF Answered
  <2> HIDE DEF h, b
  <2>4. Len(a) \in Nat BY LenProperties
  <2> QED BY <2>1, <2>2, <2>3, <2>4
<1> HIDE DEF h, b
<1>7. h = Answered(b) BY <1>4, <1>5, <1>6, SeqEqual
<1> QED BY <1>7 DEF h, b

(* ... and a line that is taken back leaves what there was. *)
LEMMA TakenBack ==
  ASSUME NEW h \in Seq(Line), NEW e \in Line
  PROVE  Front(h \o <<e>>) = h
<1>1. h \o <<e>> \in Seq(Line) /\ Len(h \o <<e>>) = Len(h) + 1 OBVIOUS
<1>2. Front(h \o <<e>>) = SubSeq(h \o <<e>>, 1, Len(h)) BY <1>1 DEF Front
<1> QED BY <1>1, <1>2, SeqEqual

(* A chat that waits for the answer to its latest line. *)
Asks(c) == verb[c] = "chat" /\ pc[c] \in {"post", "sent"}

(* Only a chat comes to a prompt; and the transcript is what it should be. *)
Recorded ==
  /\ history \in [Command -> Seq(Line)]
  /\ answered \in [Command -> Seq(Nat)]
  /\ \A c \in Command : pc[c] = "up" => verb[c] = "chat"
  /\ \A c \in Command :
       history[c] = IF Asks(c) THEN Answered(answered[c]) \o <<User(turn[c])>>
                    ELSE Answered(answered[c])

(* Moves on which nothing is said. *)
LEMMA SilentStep ==
  ASSUME Recorded, UNCHANGED talk,
         \A c \in Command : Asks(c)' = Asks(c) /\ (pc'[c] = "up" => verb'[c] = "chat")
  PROVE  Recorded'
BY DEF Recorded, talk

LEMMA LeaveStep ==
  ASSUME TypeOK, Recorded, NEW c \in Command, NEW from, Leave(c, from)
  PROVE  Recorded'
<1>1. history'[c] = <<>> /\ answered'[c] = <<>> /\ pc'[c] = "over"
  BY DEF Leave, Goto, Recorded, TypeOK
<1>2. history'[c] = Answered(answered'[c]) BY <1>1, AnsweredNone
<1>3. history' \in [Command -> Seq(Line)] /\ answered' \in [Command -> Seq(Nat)]
  BY EmptySeq DEF Leave, Recorded
<1>4. \A d \in Command \ {c} :
        /\ UNCHANGED <<history[d], answered[d], turn[d], pc[d], verb[d]>>
  BY DEF Leave, Goto, Recorded, TypeOK
<1> QED BY <1>1, <1>2, <1>3, <1>4 DEF Recorded, Asks

LEMMA ErrorStep ==
  ASSUME TypeOK, Recorded, NEW c \in Command, Error(c)
  PROVE  Recorded'
<1>1. CASE verb[c] = "chat"
  <2>1. Asks(c) BY <1>1 DEF Error, Goto, Asks
  <2>2. history[c] = Answered(answered[c]) \o <<User(turn[c])>> BY <2>1 DEF Recorded
  <2>3. Answered(answered[c]) \in Seq(Line) BY AnsweredType DEF Recorded
  <2>4. User(turn[c]) \in Line BY DEF User, Line, TypeOK
  <2>5. Front(history[c]) = Answered(answered[c]) BY <2>2, <2>3, <2>4, TakenBack
  <2>6. /\ pc' = [pc EXCEPT ![c] = "up"]
        /\ history' = [history EXCEPT ![c] = Answered(answered[c])]
        /\ UNCHANGED <<verb, turn, answered>>
    BY <1>1, <2>5 DEF Error, Goto, start
  <2> QED BY <1>1, <2>3, <2>6 DEF Recorded, Asks, TypeOK
<1>2. CASE verb[c] # "chat" BY <1>2, LeaveStep DEF Error
<1> QED BY <1>1, <1>2

LEMMA AnswerStep ==
  ASSUME TypeOK, Recorded, NEW c \in Command, Answer(c)
  PROVE  Recorded'
<1>1. CASE verb[c] = "chat"
  <2>1. Asks(c) BY <1>1 DEF Answer, Goto, Asks
  <2>2. history[c] = Answered(answered[c]) \o <<User(turn[c])>> BY <2>1 DEF Recorded
  <2>3. answered[c] \in Seq(Nat) /\ turn[c] \in Nat BY DEF Recorded, TypeOK
  <2>4. Append(history[c], Assistant(turn[c])) = Answered(Append(answered[c], turn[c]))
    BY <2>2, <2>3, AnsweredMore
  <2>5. Append(answered[c], turn[c]) \in Seq(Nat) BY <2>3
  <2>6. Answered(Append(answered[c], turn[c])) \in Seq(Line) BY <2>5, AnsweredType
  <2>7. /\ pc' = [pc EXCEPT ![c] = "up"]
        /\ history' = [history EXCEPT ![c] = Answered(Append(answered[c], turn[c]))]
        /\ answered' = [answered EXCEPT ![c] = Append(answered[c], turn[c])]
        /\ UNCHANGED <<verb, turn>>
    BY <1>1, <2>4 DEF Answer, Goto, start
  <2> HIDE DEF Answered
  <2> QED BY <1>1, <2>5, <2>6, <2>7 DEF Recorded, Asks, TypeOK
<1>2. CASE verb[c] # "chat" BY <1>2, LeaveStep DEF Answer
<1> QED BY <1>1, <1>2

LEMMA SayStep ==
  ASSUME TypeOK, Recorded, NEW c \in Command, Say(c)
  PROVE  Recorded'
<1>1. verb[c] = "chat" /\ history[c] = Answered(answered[c])
  BY DEF Say, Goto, Recorded, Asks
<1>2. turn'[c] = turn[c] + 1 /\ turn[c] \in Nat /\ User(turn'[c]) \in Line
  BY DEF Say, TypeOK, User, Line
<1>3. Append(history[c], User(turn'[c])) = Answered(answered[c]) \o <<User(turn'[c])>>
  BY <1>1, AnsweredType DEF Recorded
<1>4. Answered(answered[c]) \o <<User(turn'[c])>> \in Seq(Line)
  BY <1>2, AnsweredType DEF Recorded
<1>5. history' = [history EXCEPT ![c] = Answered(answered[c]) \o <<User(turn'[c])>>]
  BY <1>3 DEF Say
<1>6. /\ pc' = [pc EXCEPT ![c] = "post"]
      /\ turn' = [turn EXCEPT ![c] = @ + 1]
      /\ UNCHANGED <<verb, answered>>
  BY DEF Say, Goto, start
<1> QED BY <1>1, <1>4, <1>5, <1>6 DEF Recorded, Asks, TypeOK

LEMMA ClearStep ==
  ASSUME TypeOK, Recorded, NEW c \in Command, Clear(c)
  PROVE  Recorded'
<1>1. /\ history' = [history EXCEPT ![c] = <<>>]
      /\ answered' = [answered EXCEPT ![c] = <<>>]
      /\ pc[c] = "up"
      /\ UNCHANGED <<pc, verb, turn>>
  BY DEF Clear, start
<1> QED BY <1>1, AnsweredNone, EmptySeq DEF Recorded, Asks, TypeOK

LEMMA RecordedStep == TypeOK /\ Recorded /\ [Next]_vars => Recorded'
<1> SUFFICES ASSUME TypeOK, Recorded, [Next]_vars PROVE Recorded' OBVIOUS
<1>1. ASSUME NEW c \in Command, NEW v \in Verb, Run(c, v) PROVE Recorded'
  <2>1. PICK to \in {"stat", "create", "probe"} : Goto(c, {"idle"}, to)
    BY <1>1 DEF Run
  <2>2. \A d \in Command : Asks(d)' = Asks(d) /\ (pc'[d] = "up" => verb'[d] = "chat")
    BY <1>1, <2>1 DEF Run, Goto, Asks, Recorded, TypeOK
  <2> QED BY <1>1, <2>2, SilentStep DEF Run
<1>2. ASSUME NEW c \in Command, FindOrStart(c) PROVE Recorded'
  <2>1. CASE FindServer(c)
    <3>1. \A d \in Command : Asks(d)' = Asks(d) /\ (pc'[d] = "up" => verb'[d] = "chat")
      BY <2>1 DEF FindServer, Goto, Asks, Recorded, TypeOK, start
    <3> QED BY <2>1, <3>1, SilentStep DEF FindServer
  <2>2. CASE GiveUp(c) BY <2>2, LeaveStep DEF GiveUp
  <2>3. ASSUME NEW s \in Server, StartServer(c, s) PROVE Recorded'
    <3>1. \A d \in Command : Asks(d)' = Asks(d) /\ (pc'[d] = "up" => verb'[d] = "chat")
      BY <2>3 DEF StartServer, Goto, Asks, Recorded, TypeOK
    <3> QED BY <2>3, <3>1, SilentStep DEF StartServer
  <2> QED BY <1>2, <2>1, <2>2, <2>3 DEF FindOrStart
<1>3. ASSUME NEW c \in Command, InitConfig(c) PROVE Recorded'
  <2>1. CASE UNCHANGED talk
    <3>1. \A d \in Command : Asks(d)' = Asks(d) /\ (pc'[d] = "up" => verb'[d] = "chat")
      BY <1>3 DEF InitConfig, InitStat, InitCreate, InitWrite, InitEnds, Leave, Goto,
                  Asks, Recorded, TypeOK, start
    <3> QED BY <2>1, <3>1, SilentStep
  <2>2. CASE \E from : Leave(c, from) BY <2>2, LeaveStep
  <2> QED BY <1>3, <2>1, <2>2 DEF InitConfig, InitStat, InitCreate, InitWrite, InitEnds
<1>4. ASSUME NEW c \in Command, Talk(c) PROVE Recorded'
  <2>1. CASE Exit(c) BY <2>1, LeaveStep DEF Exit
  <2>2. ASSUME NEW s \in Server, NEW n \in Name, Post(c, s, n) PROVE Recorded'
    <3>1. \A d \in Command : Asks(d)' = Asks(d) /\ (pc'[d] = "up" => verb'[d] = "chat")
      BY <2>2 DEF Post, Goto, Asks, Recorded, TypeOK, start
    <3> QED BY <2>2, <3>1, SilentStep DEF Post
  <2> QED BY <1>4, <2>1, <2>2, SayStep, ClearStep, ErrorStep DEF Talk, LoseRequest
<1>5. CASE UNCHANGED <<pc, start, talk>>
  BY <1>5, SilentStep DEF Asks, Recorded, start
<1>6. ASSUME NEW r \in open, Handle(r) PROVE Recorded'
  <2>1. r.command \in Command BY DEF TypeOK, Request
  <2> QED BY <1>5, <1>6, <2>1, AnswerStep, ErrorStep DEF Handle
<1>7. CASE UserEdits
  BY <1>7, SilentStep DEF UserEdits, Asks, Recorded
<1>8. CASE ServerActs \/ UNCHANGED vars
  BY <1>5, <1>8 DEF ServerActs, vars
<1> QED BY <1>1, <1>2, <1>3, <1>4, <1>6, <1>7, <1>8 DEF Next

LEMMA InitRecorded == Init => Recorded
<1> SUFFICES ASSUME Init PROVE Recorded OBVIOUS
<1>1. \A c \in Command : history[c] = <<>> /\ answered[c] = <<>> /\ pc[c] = "idle"
  BY DEF Init
<1>2. history \in [Command -> Seq(Line)] /\ answered \in [Command -> Seq(Nat)]
  BY EmptySeq DEF Init
<1> QED BY <1>1, <1>2, AnsweredNone DEF Recorded, Asks

(* Between turns the transcript is the answered lines, each with its answer;
   what is sent ends with the line just typed, once. *)
THEOREM TranscriptAlwaysKept == Spec => []Transcript
<1>1. ASSUME TypeOK, Recorded PROVE Transcript
  <2> SUFFICES ASSUME NEW c \in Command
               PROVE  history[c] = Answered(answered[c]) \o
                                   IF Asks(c) THEN <<User(turn[c])>> ELSE <<>>
      BY DEF Transcript, Asks
  <2>1. Answered(answered[c]) \in Seq(Line) BY <1>1, AnsweredType DEF Recorded
  <2> QED BY <1>1, <2>1, ConcatEmptySeq DEF Recorded
<1>2. TypeOK /\ Recorded /\ [Next]_vars => Recorded' BY RecordedStep
<1> QED BY <1>1, <1>2, InitRecorded, CliTypeCorrect, PTL DEF Spec
=============================================================================
