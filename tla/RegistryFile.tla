---------------------------- MODULE RegistryFile ----------------------------
(***************************************************************************)
(* Persistence of the registry: what Manager.Pull and Manager.Remove do to *)
(* the set of registered names, SaveRegistry step by step (snapshot, write *)
(* of path.tmp, rename to path), and LoadRegistry when the server starts   *)
(* again after an end that may come between any two steps.                 *)
(*                                                                         *)
(* A file is a directory entry that refers to an inode.  Goroutines that   *)
(* save at the same time share the name path.tmp, and so may share its     *)
(* inode: SaveRegistry takes no lock.                                      *)
(***************************************************************************)
EXTENDS Naturals, FiniteSets

CONSTANTS Name,          \* the names users register models under
          Request,       \* the goroutines that serve pulls and removals
          Inode,         \* enough inodes for path, path.tmp and the open files
          SaveMayFail,   \* whether a write may fail (disk full, no permission)
          None           \* no inode, no name

ASSUME FileAssumption ==
  /\ None \notin Inode \cup ({"pull", "remove"} \X Name)
  /\ SaveMayFail \in BOOLEAN

VARIABLES registry,   \* Registry.models: the registered names
          onDisk,     \* the names whose model file exists
          path, tmp,  \* the directory entries of the registry file
          content,    \* of each inode
          pc, req,    \* where each goroutine is, and its request
          snapshot,   \* its out: what it is going to write
          fd,         \* its open file
          kept,       \* history: the names that were registered at the end of
                      \* a save without an error, and that no Remove has met since
          dropped,    \* history: those that were not, and that no Pull has
                      \* registered since
          warned      \* history: the current run of overlapping saves, or the
                      \* last one, has logged a warning

files   == <<path, tmp, content>>
locals  == <<pc, req, snapshot, fd>>
history == <<kept, dropped>>
vars    == <<registry, onDisk, files, locals, history, warned>>

(* A request is what it does and to which name. *)
On(t) == req[t][2]

(* What a file may hold: the JSON list of a set of models, nothing, or a
   mixture of two writes.  Only the first parses. *)
List(S) == [kind |-> "list",  names |-> S]
Empty   == [kind |-> "empty", names |-> {}]
Torn    == [kind |-> "torn",  names |-> {}]
Content == {List(S) : S \in SUBSET Name} \cup {Empty, Torn}
Parses(file) == file # None => content[file].kind = "list"

(***************************************************************************)
(* LoadRegistry, as runServe uses it: a missing file is an empty registry, *)
(* and so is one that does not parse; a model whose file is gone is left   *)
(* out.                                                                    *)
(***************************************************************************)
Loadable == IF path # None /\ Parses(path) THEN content[path].names ELSE {}

LoadRegistry == Loadable \cap onDisk

Init ==
  /\ onDisk \in SUBSET Name
  /\ path \in Inode \cup {None}
  /\ tmp = None
  /\ \E S \in SUBSET Name :
       content = [i \in Inode |-> IF i = path THEN List(S) ELSE Empty]
  /\ registry = LoadRegistry
  /\ pc = [t \in Request |-> "idle"]
  /\ req = [t \in Request |-> None]
  /\ snapshot = [t \in Request |-> {}]
  /\ fd = [t \in Request |-> None]
  /\ kept = registry
  /\ dropped = {}
  /\ warned = FALSE
-----------------------------------------------------------------------------
Goto(t, from, to) == pc[t] = from /\ pc' = [pc EXCEPT ![t] = to]

Return(t, from) ==
  /\ Goto(t, from, "idle")
  /\ req' = [req EXCEPT ![t] = None]
  /\ snapshot' = [snapshot EXCEPT ![t] = {}]
  /\ fd' = [fd EXCEPT ![t] = None]

(* Pull of n: its file has been resolved, so it is there. *)
CallPull(t, n) ==
  /\ Goto(t, "idle", "register")
  /\ req' = [req EXCEPT ![t] = <<"pull", n>>]
  /\ onDisk' = onDisk \cup {n}
  /\ UNCHANGED <<registry, files, snapshot, fd, history, warned>>

(* Remove of n, which Registry.Get has found. *)
CallRemove(t, n) ==
  /\ n \in registry
  /\ Goto(t, "idle", "unregister")
  /\ req' = [req EXCEPT ![t] = <<"remove", n>>]
  /\ kept' = kept \ {n}
  /\ UNCHANGED <<registry, onDisk, files, snapshot, fd, dropped, warned>>

PullRegister(t) ==
  /\ pc[t] = "register"
  /\ \/ /\ On(t) \notin registry
        /\ Goto(t, "register", "list")
        /\ registry' = registry \cup {On(t)}
        /\ dropped' = dropped \ {On(t)}
        /\ UNCHANGED <<req, snapshot, fd, kept>>
     \/ /\ On(t) \in registry
        /\ Return(t, "register")
        /\ UNCHANGED <<registry, history>>
  /\ UNCHANGED <<onDisk, files, warned>>

RemoveUnregister(t) ==
  /\ Goto(t, "unregister", "list")
  /\ registry' = registry \ {On(t)}
  /\ kept' = kept \ {On(t)}
  /\ UNCHANGED <<onDisk, files, req, snapshot, fd, dropped, warned>>

(* A model's file is moved or deleted by its owner. *)
FileGoes(n) ==
  /\ n \in onDisk
  /\ onDisk' = onDisk \ {n}
  /\ UNCHANGED <<registry, files, locals, history, warned>>
-----------------------------------------------------------------------------
(* SaveRegistry, called by persist at the end of Pull and of Remove *)

Saving == {"open", "write", "rename"}

(* Mutant: what is in the file is saved again, to lose no one's pull. *)
SaveListMerged(t) ==
  /\ Goto(t, "list", "open")
  /\ snapshot' = [snapshot EXCEPT ![t] = registry \cup Loadable]
  /\ warned' = (warned /\ \E u \in Request : pc[u] \in Saving)
  /\ UNCHANGED <<registry, onDisk, files, req, fd, history>>

SaveList(t) ==
  /\ Goto(t, "list", "open")
  /\ snapshot' = [snapshot EXCEPT ![t] = registry]
  /\ warned' = (warned /\ \E u \in Request : pc[u] \in Saving)
  /\ UNCHANGED <<registry, onDisk, files, req, fd, history>>

Referenced == {path, tmp} \cup {fd[t] : t \in Request}

(* Mutant: the registry file is written in place. *)
SaveOpenInPlace(t) ==
  /\ Goto(t, "open", "write")
  /\ \E i \in IF path = None THEN Inode \ Referenced ELSE {path} :
       /\ path' = i
       /\ fd' = [fd EXCEPT ![t] = i]
       /\ content' = [content EXCEPT ![i] = Empty]
  /\ UNCHANGED <<registry, onDisk, tmp, req, snapshot, history, warned>>

(* Mutant: the file is closed before it is written. *)
SaveOpenClosed(t) ==
  /\ Goto(t, "open", "write")
  /\ \E i \in IF tmp = None THEN Inode \ Referenced ELSE {tmp} :
       /\ tmp' = i
       /\ content' = [content EXCEPT ![i] = Empty]
  /\ UNCHANGED <<registry, onDisk, path, req, snapshot, fd, history, warned>>

(* os.WriteFile opens path.tmp with O_CREATE and O_TRUNC ... *)
SaveOpen(t) ==
  /\ Goto(t, "open", "write")
  /\ \E i \in IF tmp = None THEN Inode \ Referenced ELSE {tmp} :
       /\ tmp' = i
       /\ fd' = [fd EXCEPT ![t] = i]
       /\ content' = [content EXCEPT ![i] = Empty]
  /\ UNCHANGED <<registry, onDisk, path, req, snapshot, history, warned>>

(* What is in a file after a list is written at its beginning: it hides a
   list that it contains, and a list that contains it shows behind it. *)
Overwritten(old, new) ==
  CASE old = Empty -> {List(new)}
    [] old.kind = "list" /\ old.names \subseteq new -> {List(new)}
    [] old.kind = "list" /\ new \subseteq old.names /\ new # old.names -> {Torn}
    [] OTHER -> {List(new), Torn}

(* Mutant: a short write is not noticed. *)
SaveWriteUnchecked(t) ==
  /\ Goto(t, "write", "rename")
  /\ \E c \in {List(snapshot[t]), Torn} : content' = [content EXCEPT ![fd[t]] = c]
  /\ fd' = [fd EXCEPT ![t] = None]
  /\ UNCHANGED <<registry, onDisk, path, tmp, req, snapshot, history, warned>>

(* ... writes the snapshot from offset 0 and closes the file ... *)
SaveWrite(t) ==
  /\ Goto(t, "write", "rename")
  /\ \E c \in Overwritten(content[fd[t]], snapshot[t]) :
       content' = [content EXCEPT ![fd[t]] = c]
  /\ fd' = [fd EXCEPT ![t] = None]
  /\ UNCHANGED <<registry, onDisk, path, tmp, req, snapshot, history, warned>>

(* ... or fails to open it, or to write all of it.  persist logs a warning,
   and the request is answered all the same. *)
SaveFails(t) ==
  /\ SaveMayFail
  /\ \/ /\ Return(t, "open")
        /\ UNCHANGED content
     \/ /\ Return(t, "write")
        /\ \E c \in {content[fd[t]], Torn} : content' = [content EXCEPT ![fd[t]] = c]
  /\ warned' = TRUE
  /\ UNCHANGED <<registry, onDisk, path, tmp, history>>

(* No other request has registered the name or is to unregister it, and has its
   own save to come. *)
Settled(t, n) ==
  \A u \in Request \ {t} : pc[u] \in {"idle", "register"} \/ On(u) # n

(* os.Rename moves the entry, whatever is in the file by now. *)
SaveRename(t) ==
  /\ tmp # None
  /\ path' = tmp /\ tmp' = None
  /\ Return(t, "rename")
  /\ kept'    = kept \cup {n \in registry : Settled(t, n)}
  /\ dropped' = dropped \cup {n \in Name \ registry : Settled(t, n)}
  /\ UNCHANGED <<registry, onDisk, content, warned>>

(* Mutant: it does not matter that the temporary file is gone. *)
SaveRenameSilent(t) ==
  /\ tmp = None
  /\ Return(t, "rename")
  /\ UNCHANGED <<registry, onDisk, files, history, warned>>

(* It fails, with a warning, when another goroutine has moved it before. *)
SaveRenameFails(t) ==
  /\ tmp = None
  /\ Return(t, "rename")
  /\ warned' = TRUE
  /\ UNCHANGED <<registry, onDisk, files, history>>
-----------------------------------------------------------------------------
(* The server ends, at whatever point its goroutines are, and starts again;
   it warns about a file that does not parse. *)
Restart ==
  /\ registry' = LoadRegistry
  /\ pc' = [t \in Request |-> "idle"]
  /\ req' = [t \in Request |-> None]
  /\ snapshot' = [t \in Request |-> {}]
  /\ fd' = [t \in Request |-> None]
  /\ kept' = kept \cap onDisk
  /\ warned' = ~Parses(path)
  /\ UNCHANGED <<onDisk, files, dropped>>

Save(t) ==
  \/ SaveList(t) \/ SaveOpen(t) \/ SaveWrite(t) \/ SaveFails(t)
  \/ SaveRename(t) \/ SaveRenameFails(t)

Next ==
  \/ \E t \in Request :
       \/ \E n \in Name : CallPull(t, n) \/ CallRemove(t, n)
       \/ PullRegister(t) \/ RemoveUnregister(t) \/ Save(t)
  \/ \E n \in Name : FileGoes(n)
  \/ Restart

Spec == Init /\ [][Next]_vars
-----------------------------------------------------------------------------
TypeOK ==
  /\ registry \in SUBSET Name
  /\ onDisk \in SUBSET Name
  /\ path \in Inode \cup {None}
  /\ tmp \in Inode \cup {None}
  /\ content \in [Inode -> Content]
  /\ pc \in [Request -> {"idle", "register", "unregister", "list", "open", "write", "rename"}]
  /\ req \in [Request -> ({"pull", "remove"} \X Name) \cup {None}]
  /\ snapshot \in [Request -> SUBSET Name]
  /\ fd \in [Request -> Inode \cup {None}]
  /\ kept \in SUBSET Name
  /\ dropped \in SUBSET Name
  /\ warned \in BOOLEAN
  /\ \A t \in Request : pc[t] # "idle" => req[t] # None
  /\ \A t \in Request : pc[t] = "write" => fd[t] # None

(* A crash at any point of a save leaves a registry file that parses. *)
NeverCorrupt == Parses(path)

(* Pulled models are remembered: what was registered at the end of a save that
   reported no error, and that no Remove has met, is in the file, be it the model
   that was saved for or one whose own save had failed. *)
PullsRemembered == kept \subseteq Loadable

(* Removed models are not restored: what was not registered at the end of a save
   that reported no error, and was not pulled since, is not in the file. *)
RemovalsStick == dropped \cap Loadable = {}

(* A registry file that parses has every model that was pulled. *)
NothingLost == Parses(path) => PullsRemembered

(* No silent corruption: once overlapping saves are over, a registry file
   that does not parse has been reported in the log. *)
CorruptionReported ==
  (\A t \in Request : pc[t] \notin Saving) /\ ~Parses(path) => warned

(* With its steps, crashes and failures SaveRegistry is one atomic save. *)
Durable == INSTANCE DurableRegistry WITH saved <- Loadable
DurableSpec == Durable!DurSpec
=============================================================================
