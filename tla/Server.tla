-------------------------------- MODULE Server -------------------------------
(***************************************************************************)
(* The processes of `otelma serve` over their whole life, several of them  *)
(* at once or one after another: they read the configuration and the       *)
(* registry file, compete for an address, drain when interrupted, and leave*)
(* the registry file and the children of their backends behind.            *)
(*                                                                         *)
(* What happens inside a server is Runtime's matter, and how it saves its  *)
(* registry RegistryFile's: here a request has its effect in one step.     *)
(***************************************************************************)
EXTENDS Config, FiniteSets

CONSTANTS Server,       \* server processes, each with one life
          Name,         \* model names
          Capacity,     \* how many models fit in the memory budget
          DiskMayFail   \* whether saves fail and files go or break

ASSUME ServerAssumption ==
  /\ Capacity \in Nat /\ DiskMayFail \in BOOLEAN
  /\ None \notin Server
  /\ \A names \in SUBSET Name : names # Unreadable

VARIABLES srv,       \* where each process is
          at,        \* its address: the -addr flag until the configuration is read
          known,     \* the names in its registry
          children,  \* the child processes that backends have started and
                     \* that run, each with the server that started it
          registry,  \* the names in registry.json, or Unreadable
          present,   \* the names whose model's file is where it was pulled to
          kept,      \* history: the names that a save has put on file, less those
                     \* removed since and those that a server did not find
          stale,     \* history: the servers beside which another one has saved
          clashed    \* history: such a server has saved

disk    == <<registry, present>>
told    == <<kept, stale, clashed>>
memory  == <<known, children, disk, told>>
servers == <<srv, at, memory>>

ServerInit ==
  /\ srv = [s \in Server |-> "none"]
  /\ at = [s \in Server |-> None]
  /\ known = [s \in Server |-> {}]
  /\ children = {}
  /\ registry = {} /\ present = {}
  /\ kept = {} /\ stale = {} /\ clashed = FALSE

Move(s, from, to) == srv[s] \in from /\ srv' = [srv EXCEPT ![s] = to]

Live(s)        == srv[s] \in {"starting", "listening", "draining"}
ListensAt(s,a) == srv[s] = "listening" /\ at[s] = a
Answers(a)     == \E s \in Server : ListensAt(s, a)
-----------------------------------------------------------------------------
(* The process is made, with an -addr flag or None. *)
Spawn(s, flag) ==
  /\ Move(s, {"none"}, "spawned")
  /\ at' = [at EXCEPT ![s] = flag]
  /\ UNCHANGED memory

(* Mutant: the default of -addr is not the configured address. *)
ServeNowhere(s) ==
  /\ Move(s, {"spawned"}, "starting")
  /\ UNCHANGED <<at, memory>>

(* LoadRegistry drops a model whose file is gone; runServe makes an empty registry
   of a file that does not parse. *)
Found == IF registry = Unreadable THEN {} ELSE registry \cap present

(* runServe, up to the call of ListenAndServe. *)
Serve(s) ==
  /\ Move(s, {"spawned"}, "starting")
  /\ at' = [at EXCEPT ![s] = IF @ = None THEN Load(file)["serve"] ELSE @]
  /\ known' = [known EXCEPT ![s] = Found]
  /\ kept' = IF registry = Unreadable THEN {} ELSE kept \cap present
  /\ UNCHANGED <<children, disk, stale, clashed>>

(* Mutant: a server saves its registry when it ends. *)
EndSaving(s, from) ==
  /\ Move(s, from, "ended")
  /\ at' = [at EXCEPT ![s] = None]
  /\ known' = [known EXCEPT ![s] = {}]
  /\ registry' = known[s]
  /\ stale' = stale \ {s}
  /\ UNCHANGED <<children, present, kept, clashed>>

(* The process is over.  Nothing kills its backends' children; an interrupt
   from the terminal reaches them too. *)
End(s, from) ==
  /\ Move(s, from, "ended")
  /\ at' = [at EXCEPT ![s] = None]
  /\ known' = [known EXCEPT ![s] = {}]
  /\ children' \in {children, children \ ({s} \X Name)}
  /\ stale' = stale \ {s}
  /\ UNCHANGED <<disk, kept, clashed>>

Listen(s) ==
  /\ ~Answers(at[s])
  /\ Move(s, {"starting"}, "listening")
  /\ UNCHANGED <<at, memory>>

(* Mutant: the error of the listener is not looked at. *)
ListenFailsUnseen(s) ==
  srv[s] = "starting" /\ Answers(at[s]) /\ UNCHANGED servers

(* Another server has the address: the error comes through errCh. *)
ListenFails(s) == Answers(at[s]) /\ End(s, {"starting"})

(* SIGINT or SIGTERM: Shutdown closes the listener at once ... *)
Interrupt(s) ==
  /\ Move(s, {"starting", "listening"}, "draining")
  /\ UNCHANGED <<at, memory>>

(* ... and returns when no request is in flight, or after five seconds. *)
Drained(s) == End(s, {"draining"})

(* Killed, or a panic, or an error of runServe. *)
Crash(s) == End(s, {"spawned", "starting", "listening", "draining"})
-----------------------------------------------------------------------------
(* The effects of a request that succeeds. *)

(* Pull and Remove save the whole registry of their server, and succeed even if
   the save fails: then memory and file differ. *)
Saved(s, names) ==
  /\ registry' = names
  /\ kept' = (kept \ (known[s] \ names)) \cup names
  /\ stale' = stale \cup {t \in Server \ {s} : Live(t)}
  /\ clashed' = (clashed \/ s \in stale)

NotSaved(s, names) ==
  /\ DiskMayFail
  /\ kept' = kept \ (known[s] \ names)
  /\ UNCHANGED <<registry, stale, clashed>>

Persist(s, names) ==
  /\ known' = [known EXCEPT ![s] = names]
  /\ Saved(s, names) \/ NotSaved(s, names)
  /\ UNCHANGED <<srv, at>>

(* The model's file is there, it may have been downloaded just now. *)
PullDone(s, n) ==
  /\ n \notin known[s]
  /\ present' = present \cup {n}
  /\ Persist(s, known[s] \cup {n})
  /\ UNCHANGED children

RemoveDone(s, n) ==
  /\ n \in known[s]
  /\ Persist(s, known[s] \ {n})
  /\ children' = children \ {<<s, n>>}
  /\ UNCHANGED present

(* A model that is not in memory is loaded first, if its file is there and the
   budget allows. *)
RunDone(s, n) ==
  /\ n \in known[s]
  /\ <<s, n>> \in children \/ n \in present
  /\ children' = children \cup {<<s, n>>}
  /\ Cardinality({m \in Name : <<s, m>> \in children'}) <= Capacity
  /\ UNCHANGED <<srv, at, known, disk, told>>
(* Saves that overlap, or a user, leave a registry file that does not parse. *)
RegistryBreaks ==
  /\ DiskMayFail
  /\ registry' = Unreadable
  /\ UNCHANGED <<srv, at, known, children, present, told>>

(* A model's file is deleted or moved. *)
FileGoes(n) ==
  /\ DiskMayFail /\ n \in present
  /\ present' = present \ {n}
  /\ UNCHANGED <<srv, at, known, children, registry, told>>
-----------------------------------------------------------------------------
(* A model that is once on file is carried from server to server, whichever of
   them end or lose the address and whichever saves fail: it is known to every
   live server beside which no other has saved, and on file as soon as the file
   parses, until it is removed, or a server starts that does not find it.  What
   breaks this is only a save by a server beside which another had saved. *)
RegistryCarried ==
  ~clashed =>
    /\ registry = Unreadable \/ kept \subseteq registry
    /\ \A s \in Server \ stale : Live(s) => kept \subseteq known[s]

(* The same with no exception: what was once saved is on file. *)
PullsKept == registry = Unreadable \/ kept \subseteq registry

(* No backend process is resident after its server has ended. *)
NoOrphans == \A c \in children : srv[c[1]] # "ended"

(* A restart of the server gives back all the memory that its models took, without
   losing track of what was pulled. *)
RestartReclaims == NoOrphans /\ PullsKept
=============================================================================
