---------------------------------- MODULE Cli --------------------------------
(***************************************************************************)
(* The commands of otelma: each reads the configuration, looks for a       *)
(* server, starts one when there is none, and then sends requests to       *)
(* whoever listens at its address.  `chat` keeps the transcript of the     *)
(* session; `config init` writes the configuration file.                   *)
(*                                                                         *)
(* The servers are those of Server: they may be interrupted or die at any  *)
(* moment, the file may be edited at any moment, and a client gives up when*)
(* its timeout is over while the server goes on with the request.          *)
(***************************************************************************)
EXTENDS Server, Sequences, SequencesExt

CONSTANTS Command,   \* the processes of otelma, each runs one command
          Verb,      \* the commands
          ByHand,    \* the servers that users may start themselves
          MaxTurns   \* bound: how many lines are typed in one chat

ASSUME CliAssumption ==
  /\ Verb \subseteq {"pull", "rm", "run", "chat", "init", "force"}
  /\ ByHand \subseteq Server
  /\ MaxTurns \in Nat

VARIABLES pc,        \* where each command is
          verb,      \* what it does
          base,      \* client.baseURL
          child,     \* the server it has started
          changed,   \* history: the commands during which the file was changed
          open,      \* the requests that servers are working on
          history,   \* runChat: the transcript
          turn,      \* how many lines have been typed
          answered   \* history: the lines, since the last /clear, whose answer
                     \* was shown

start == <<verb, base, child, changed>>
talk  == <<history, turn, answered>>
vars  == <<config, servers, pc, start, open, talk>>

Request == [command : Command, does : Verb, model : Name, server : Server,
            waited : BOOLEAN]

Init ==
  /\ ConfigInit /\ ServerInit
  /\ pc = [c \in Command |-> "idle"]
  /\ verb = [c \in Command |-> None]
  /\ base = [c \in Command |-> None]
  /\ child = [c \in Command |-> None]
  /\ changed = {}
  /\ open = {}
  /\ history = [c \in Command |-> <<>>]
  /\ turn = [c \in Command |-> 0]
  /\ answered = [c \in Command |-> <<>>]

Goto(c, from, to) == pc[c] \in from /\ pc' = [pc EXCEPT ![c] = to]

Running == {c \in Command : pc[c] \notin {"idle", "over"}}

(* The process ends, with success or with an error, and what it knew is gone. *)
Leave(c, from) ==
  /\ Goto(c, from, "over")
  /\ verb'     = [verb EXCEPT ![c] = None]
  /\ base'     = [base EXCEPT ![c] = None]
  /\ child'    = [child EXCEPT ![c] = None]
  /\ changed'  = changed \ {c}
  /\ history'  = [history EXCEPT ![c] = <<>>]
  /\ turn'     = [turn EXCEPT ![c] = 0]
  /\ answered' = [answered EXCEPT ![c] = <<>>]
-----------------------------------------------------------------------------
(* Run: the configuration is read once, the client is made for it. *)
Run(c, v) ==
  /\ Goto(c, {"idle"}, CASE v = "init"  -> "stat"
                         [] v = "force" -> "create"
                         [] OTHER       -> "probe")
  /\ verb' = [verb EXCEPT ![c] = v]
  /\ base' = [base EXCEPT ![c] = Load(file)["client"]]
  /\ UNCHANGED <<config, servers, child, changed, open, talk>>

(* config init *)

(* Mutant: a file that is there is not noticed. *)
InitStatNever(c) ==
  /\ Goto(c, {"stat"}, "create")
  /\ UNCHANGED <<config, servers, start, open, talk>>

(* Without --force, a file that is there is an error. *)
InitStat(c) ==
  /\ IF file = Missing
     THEN Goto(c, {"stat"}, "create") /\ UNCHANGED <<start, talk>>
     ELSE Leave(c, {"stat"})
  /\ UNCHANGED <<config, servers, open>>

InitCreate(c) ==
  /\ Goto(c, {"create"}, "write")
  /\ Truncate
  /\ changed' = changed \cup (Running \ {c})
  /\ UNCHANGED <<servers, verb, base, child, open, talk>>

InitWrite(c) ==
  /\ Goto(c, {"write"}, "written")
  /\ WriteDefault
  /\ changed' = changed \cup (Running \ {c})
  /\ UNCHANGED <<servers, verb, base, child, open, talk>>

InitEnds(c) == Leave(c, {"written"}) /\ UNCHANGED <<config, servers, open>>

UserEdits ==
  /\ Edit
  /\ changed' = changed \cup Running
  /\ UNCHANGED <<servers, pc, verb, base, child, open, talk>>
-----------------------------------------------------------------------------
(* ensureServerRunning *)

(* isServerUp: whoever listens there answers. *)
FindServer(c) ==
  /\ Answers(base[c])
  /\ Goto(c, {"probe", "poll"}, IF verb[c] = "chat" THEN "up" ELSE "post")
  /\ UNCHANGED <<config, servers, start, open, talk>>

(* Nobody listens there, or not within a second: one is started, which reads
   the configuration for itself. *)
StartServer(c, s) ==
  /\ Goto(c, {"probe"}, "poll")
  /\ Spawn(s, None)
  /\ child' = [child EXCEPT ![c] = s]
  /\ UNCHANGED <<config, verb, base, changed, open, talk>>

(* Mutant: the poll has no deadline. *)
GiveUpNever(c) == Leave(c, {"probe"}) /\ UNCHANGED <<config, servers, open>>

(* It cannot be started, or the deadline of ten seconds is over. *)
GiveUp(c) == Leave(c, {"probe", "poll"}) /\ UNCHANGED <<config, servers, open>>
-----------------------------------------------------------------------------
(* Requests: pull, rm and run send one, chat one for each line. *)

User(t)      == [role |-> "user", line |-> t]
Assistant(t) == [role |-> "assistant", line |-> t]

(* A line is typed: the transcript with it is sent. *)
Say(c) ==
  /\ turn[c] < MaxTurns
  /\ Goto(c, {"up"}, "post")
  /\ turn' = [turn EXCEPT ![c] = @ + 1]
  /\ history' = [history EXCEPT ![c] = Append(@, User(turn'[c]))]
  /\ UNCHANGED <<config, servers, start, open, answered>>

Clear(c) ==
  /\ pc[c] = "up"
  /\ history' = [history EXCEPT ![c] = <<>>]
  /\ answered' = [answered EXCEPT ![c] = <<>>]
  /\ UNCHANGED <<config, servers, pc, start, open, turn>>

Exit(c) == Leave(c, {"up"}) /\ UNCHANGED <<config, servers, open>>

(* The request reaches a server. *)
Post(c, s, n) ==
  /\ ListensAt(s, base[c])
  /\ Goto(c, {"post"}, "sent")
  /\ open' = open \cup {[command |-> c, does |-> verb[c], model |-> n, server |-> s,
                         waited |-> TRUE]}
  /\ UNCHANGED <<config, servers, start, talk>>

(* Mutant: the line stays in the transcript. *)
ErrorKept(c) ==
  IF verb[c] = "chat"
  THEN Goto(c, {"post", "sent"}, "up") /\ UNCHANGED <<start, talk>>
  ELSE Leave(c, {"post", "sent"})

(* post returns an error: chat takes the line back and goes on. *)
Error(c) ==
  IF verb[c] = "chat"
  THEN /\ Goto(c, {"post", "sent"}, "up")
       /\ history' = [history EXCEPT ![c] = Front(@)]
       /\ UNCHANGED <<start, turn, answered>>
  ELSE Leave(c, {"post", "sent"})

(* post returns the answer, which chat shows and keeps. *)
Answer(c) ==
  IF verb[c] = "chat"
  THEN /\ Goto(c, {"sent"}, "up")
       /\ history' = [history EXCEPT ![c] = Append(@, Assistant(turn[c]))]
       /\ answered' = [answered EXCEPT ![c] = Append(@, turn[c])]
       /\ UNCHANGED <<start, turn>>
  ELSE Leave(c, {"sent"})

(* The connection is refused or lost, or the client's timeout is over: a
   server that is still there goes on with the request. *)
LoseRequest(c) ==
  /\ Error(c)
  /\ open' = {[r EXCEPT !.waited = @ /\ r.command # c] :
                 r \in {q \in open : srv[q.server] # "ended"}}
  /\ UNCHANGED <<config, servers>>

Effect(r) ==
  CASE r.does = "pull" -> PullDone(r.server, r.model)
    [] r.does = "rm"   -> RemoveDone(r.server, r.model)
    [] OTHER           -> RunDone(r.server, r.model)

(* A load that succeeds is not undone when the inference fails. *)
Half(r) == r.does \in {"run", "chat"} /\ RunDone(r.server, r.model)

(* The handler is done: it answers with 200 or 204, or with an error. *)
Handle(r) ==
  /\ srv[r.server] \in {"listening", "draining"}
  /\ open' = open \ {r}
  /\ \/ /\ Effect(r)
        /\ IF r.waited THEN Answer(r.command) ELSE UNCHANGED <<pc, start, talk>>
     \/ /\ Half(r) \/ UNCHANGED servers
        /\ IF r.waited THEN Error(r.command) ELSE UNCHANGED <<pc, start, talk>>
  /\ UNCHANGED config
-----------------------------------------------------------------------------
ServerStep(s) == Serve(s) \/ Listen(s) \/ ListenFails(s) \/ Drained(s)

(* Servers by themselves, and what users and the system do to them and their
   files. *)
ServerActs ==
  /\ \/ \E s \in Server :
          \/ ServerStep(s) \/ Interrupt(s) \/ Crash(s)
          \/ s \in ByHand /\ \E flag \in Addr \cup {None} : Spawn(s, flag)
     \/ RegistryBreaks
     \/ \E n \in Name : FileGoes(n)
  /\ UNCHANGED <<config, pc, start, open, talk>>

FindOrStart(c) == FindServer(c) \/ GiveUp(c) \/ \E s \in Server : StartServer(c, s)

InitConfig(c) == InitStat(c) \/ InitCreate(c) \/ InitWrite(c) \/ InitEnds(c)

Talk(c) ==
  \/ Say(c) \/ Clear(c) \/ Exit(c) \/ LoseRequest(c)
  \/ \E s \in Server, n \in Name : Post(c, s, n)

Next ==
  \/ \E c \in Command :
       \/ \E v \in Verb : Run(c, v)
       \/ FindOrStart(c) \/ InitConfig(c) \/ Talk(c)
  \/ \E r \in open : Handle(r)
  \/ ServerActs \/ UserEdits

Spec == Init /\ [][Next]_vars
-----------------------------------------------------------------------------
(* The code's own clocks and the system's scheduler: a command polls or gives
   up, the client's timeout ends what no server answers, a server that is
   starting or draining comes to an end of it. *)
Clocked(c) == FindOrStart(c) \/ InitConfig(c) \/ LoseRequest(c)

Fairness ==
  /\ \A c \in Command : WF_vars(Clocked(c))
  /\ \A s \in Server : WF_vars(ServerStep(s) /\ UNCHANGED <<config, pc, start, open, talk>>)

FairSpec == Spec /\ Fairness
-----------------------------------------------------------------------------
(* Types; a command that has found a server has an address, and one that polls
   has started a server. *)
TypeOK ==
  /\ file \in Version \cup {Missing, Unreadable, Default} /\ edits \in 0..MaxEdits
  /\ srv \in [Server -> {"none", "spawned", "starting", "listening", "draining", "ended"}]
  /\ at \in [Server -> Addr \cup {None}]
  /\ known \in [Server -> SUBSET Name] /\ children \in SUBSET (Server \X Name)
  /\ registry \in {Unreadable} \cup SUBSET Name /\ present \in SUBSET Name
  /\ kept \in SUBSET Name /\ stale \in SUBSET Server /\ clashed \in BOOLEAN
  /\ pc \in [Command -> {"idle", "probe", "poll", "up", "post", "sent", "stat",
                         "create", "write", "written", "over"}]
  /\ verb \in [Command -> Verb \cup {None}]
  /\ base \in [Command -> Addr \cup {None}]
  /\ child \in [Command -> Server \cup {None}]
  /\ changed \in SUBSET Command /\ open \in SUBSET Request
  /\ turn \in [Command -> 0..MaxTurns]
  /\ \A s \in Server : Live(s) => at[s] \in Addr
  /\ \A c \in Command : /\ pc[c] = "poll" => child[c] # None
                        /\ c \in Running => base[c] \in Addr

(* A command and the server that it starts read the file one after the other.
   Unless it changes meanwhile, or sets one of the two addresses without the
   other, the command polls the address where its server comes up, whatever
   else is wrong with the file. *)
StartedIsPolled ==
  \A c \in Command :
    (/\ pc[c] = "poll" /\ Live(child[c]) /\ c \notin changed
     /\ \/ file \in {Missing, Unreadable}
        \/ \E k \in Key : file[k] = Mistyped
        \/ file["serve"] = file["client"])
    => at[child[c]] = base[c]

(* `config init` without --force begins to write only where there is no file. *)
InitRefuses ==
  [][\A c \in Command :
       pc[c] = "create" /\ pc'[c] = "write" /\ verb[c] = "init" => file = Missing]_vars

(* `config init` without --force begins to write only where there was no file,
   unless somebody else has changed it since the command started. *)
FileIsKept ==
  [][\A c \in Command :
       pc[c] = "create" /\ pc'[c] = "write" /\ verb[c] = "init"
       => file = Missing \/ c \in changed]_vars

(* Between turns the transcript is the answered lines since the last /clear,
   each with its answer, in the order they were typed; what is sent ends with
   the line just typed, once.  This holds whatever became of the servers and
   of earlier requests. *)
Answered(a) == [k \in 1..2 * Len(a) |-> IF k % 2 = 1 THEN User(a[(k + 1) \div 2])
                                                    ELSE Assistant(a[k \div 2])]

Transcript ==
  \A c \in Command :
    history[c] = Answered(answered[c]) \o
                 IF verb[c] = "chat" /\ pc[c] \in {"post", "sent"}
                 THEN <<User(turn[c])>> ELSE <<>>

(* A command comes to a prompt, or to its end: the auto-start has a deadline
   and requests have a timeout. *)
CommandsSettle ==
  \A c \in Command : pc[c] \notin {"idle", "up", "over"} ~> pc[c] \in {"up", "over"}

(* A server that starts listens or ends, even if another one has its address;
   a server that is interrupted ends. *)
ServersSettle ==
  \A s \in Server : srv[s] \in {"spawned", "starting", "draining"}
                   ~> srv[s] \in {"listening", "ended"}
=============================================================================
