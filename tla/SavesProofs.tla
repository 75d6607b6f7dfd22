------------------------------ MODULE SavesProofs -----------------------------
(***************************************************************************)
(* Persistence, for any names, goroutines and inodes, whatever crashes,    *)
(* fails or disappears.                                                    *)
(*                                                                         *)
(* One request at a time, the registry file parses and holds what was      *)
(* pulled and nothing that was removed.  What it takes is that a save that *)
(* is alone has its temporary file to itself, apart from the registry      *)
(* file, and that nobody changes the registry behind its snapshot.         *)
(*                                                                         *)
(* Any number of requests at a time, a file that does not parse has been   *)
(* reported, because a rename takes away the one name that an open gave to *)
(* path.tmp: of two saves that share it, one is going to fail.             *)
(***************************************************************************)
EXTENDS Saves, TLAPS

LEMMA InitType == Init => TypeOK
<1> SUFFICES ASSUME Init PROVE TypeOK OBVIOUS
<1> USE DEF Init
<1>1. PICK S \in SUBSET Name :
        content = [i \in Inode |-> IF i = path THEN List(S) ELSE Empty]
  OBVIOUS
<1>2. content \in [Inode -> Content] BY <1>1 DEF Content
<1>3. path # None => path \in Inode OBVIOUS
<1>4. Loadable \in SUBSET Name
  BY <1>1, <1>3 DEF Loadable, List, Empty
<1>5. registry \in SUBSET Name BY <1>4 DEF LoadRegistry
<1> QED BY <1>2, <1>5 DEF TypeOK

(* The names in a file of the type are names. *)
LEMMA LoadableType == ASSUME TypeOK PROVE Loadable \in SUBSET Name
<1>1. ASSUME NEW c \in Content PROVE c.names \in SUBSET Name
  BY DEF Content, List, Empty, Torn
<1>2. path # None => content[path] \in Content BY DEF TypeOK
<1> QED BY <1>1, <1>2 DEF Loadable

LEMMA OverwrittenType ==
  ASSUME NEW old, NEW S \in SUBSET Name PROVE Overwritten(old, S) \subseteq Content
BY DEF Overwritten, Content

LEMMA TypeStep == TypeOK /\ [Next]_vars => TypeOK'
<1> SUFFICES ASSUME TypeOK, [Next]_vars PROVE TypeOK' OBVIOUS
<1> USE FileAssumption DEF files, locals, history, Goto, Return
<1>1. ASSUME NEW t \in Request, NEW n \in Name, CallPull(t, n) \/ CallRemove(t, n)
      PROVE  TypeOK'
  <2>1. <<"pull", n>> # None /\ <<"remove", n>> # None OBVIOUS
  <2>2. CASE CallPull(t, n) BY <2>1, <2>2 DEF CallPull, TypeOK
  <2>3. CASE CallRemove(t, n) BY <2>1, <2>3 DEF CallRemove, TypeOK
  <2> QED BY <1>1, <2>2, <2>3
<1>2. ASSUME NEW t \in Request, pc[t] \in {"register", "unregister"}
      PROVE  On(t) \in Name
  BY <1>2 DEF TypeOK, On
<1>3. ASSUME NEW t \in Request, PullRegister(t) PROVE TypeOK'
  BY <1>2, <1>3 DEF PullRegister, TypeOK
<1>4. ASSUME NEW t \in Request, RemoveUnregister(t) PROVE TypeOK'
  BY <1>2, <1>4 DEF RemoveUnregister, TypeOK
<1>5. ASSUME NEW t \in Request, Save(t) PROVE TypeOK'
  <2>1. CASE SaveList(t)
    <3>1. warned' \in BOOLEAN BY <2>1, Zenon DEF SaveList
    <3> QED BY <2>1, <3>1 DEF SaveList, TypeOK
  <2>2. CASE SaveOpen(t)
    <3>1. PICK i \in IF tmp = None THEN Inode \ Referenced ELSE {tmp} :
            /\ tmp' = i /\ fd' = [fd EXCEPT ![t] = i]
            /\ content' = [content EXCEPT ![i] = Empty]
      BY <2>2 DEF SaveOpen
    <3>2. i \in Inode BY <3>1 DEF TypeOK
    <3>3. content' \in [Inode -> Content] BY <3>1, <3>2 DEF TypeOK, Content
    <3> QED BY <2>2, <3>1, <3>2, <3>3 DEF SaveOpen, TypeOK
  <2>3. CASE SaveWrite(t)
    <3>1. content' \in [Inode -> Content]
      BY <2>3, OverwrittenType DEF SaveWrite, TypeOK
    <3> QED BY <2>3, <3>1 DEF SaveWrite, TypeOK
  <2>4. CASE SaveFails(t)
    <3>1. content' \in [Inode -> Content]
      <4>1. \A c \in {content[fd[t]], Torn} :
              pc[t] = "write" => c \in Content
        BY DEF TypeOK, Content
      <4> QED BY <2>4, <4>1 DEF SaveFails, TypeOK
    <3> QED BY <2>4, <3>1 DEF SaveFails, TypeOK
  <2>5. CASE SaveRename(t)
    <3>1. req[t] \in {"pull", "remove"} \X Name BY <2>5 DEF SaveRename, TypeOK
    <3>2. On(t) \in Name BY <3>1 DEF On
    <3> QED BY <2>5, <3>2 DEF SaveRename, TypeOK
  <2>6. CASE SaveRenameFails(t) BY <2>6 DEF SaveRenameFails, TypeOK
  <2> QED BY <1>5, <2>1, <2>2, <2>3, <2>4, <2>5, <2>6 DEF Save
<1>6. ASSUME NEW n \in Name, FileGoes(n) PROVE TypeOK'
  BY <1>6 DEF FileGoes, TypeOK
<1>7. CASE Restart
  <2>1. registry' \in SUBSET Name BY <1>7, LoadableType DEF Restart, LoadRegistry
  <2>2. warned' \in BOOLEAN BY <1>7, Zenon DEF Restart
  <2> QED BY <1>7, <2>1, <2>2 DEF Restart, TypeOK
<1>8. CASE UNCHANGED vars BY <1>8 DEF vars, TypeOK
<1> QED BY <1>1, <1>3, <1>4, <1>5, <1>6, <1>7, <1>8 DEF Next

LEMMA AlwaysType == HistSpec => []TypeOK
<1>1. HistInit => TypeOK BY InitType DEF HistInit
<1>2. [HistNext]_<<vars, overlapped>> => [Next]_vars BY DEF HistNext
<1> QED BY <1>1, <1>2, TypeStep, PTL DEF HistSpec
-----------------------------------------------------------------------------
(* One request at a time *)

AtMostOne ==
  \A t, u \in Request : pc[t] # "idle" /\ pc[u] # "idle" => t = u

(* path.tmp is no other name of the registry file. *)
TmpApart == tmp # None => tmp # path

(* A save writes the registry as it is, to a file of its own. *)
OwnFile ==
  \A t \in Request :
    /\ pc[t] \in Saving => snapshot[t] = registry
    /\ pc[t] = "write" => fd[t] = tmp /\ content[tmp] = Empty
    /\ pc[t] = "rename" /\ tmp # None => content[tmp] = List(snapshot[t])

(* What was pulled is in the registry and on file, what was removed in
   neither. *)
Held ==
  /\ kept \subseteq registry \cap Loadable
  /\ dropped \cap (registry \cup Loadable) = {}

AloneInv == AtMostOne /\ TmpApart /\ OwnFile /\ Held /\ Parses(path)

IInv == TypeOK /\ (~overlapped => AloneInv)

LEMMA InitAlone == HistInit => AloneInv
<1> SUFFICES ASSUME Init PROVE AloneInv BY DEF HistInit
<1> USE FileAssumption DEF Init
<1>1. AtMostOne /\ TmpApart /\ OwnFile BY DEF AtMostOne, TmpApart, OwnFile, Saving
<1>2. Held BY DEF Held, LoadRegistry
<1>3. Parses(path) BY DEF Parses, List
<1> QED BY <1>1, <1>2, <1>3 DEF AloneInv

(* The registry file depends on its own inode only. *)
LEMMA SameFile ==
  ASSUME UNCHANGED path, path # None => UNCHANGED content[path]
  PROVE  UNCHANGED Loadable /\ (Parses(path)' <=> Parses(path))
BY DEF Loadable, Parses

(* A step that leaves the history as it was comes from such a state. *)
LEMMA StillAlone ==
  ASSUME HistNext, ~overlapped' PROVE ~overlapped /\ AtMostOne'
<1>1. overlapped' = (overlapped \/ \E t, u \in Request :
                                    t # u /\ pc'[t] # "idle" /\ pc'[u] # "idle")
  BY DEF HistNext
<1> QED BY <1>1, Zenon DEF AtMostOne

(* The steps, for AloneInv and for the atomic save at the same time. *)
Fine == AloneInv' /\ (Durable!DurNext \/ UNCHANGED <<registry, Loadable>>)

(* Steps that leave the files and the registry alone. *)
LEMMA QuietStep ==
  ASSUME TypeOK, AloneInv, AtMostOne', UNCHANGED <<registry, path, tmp, content>>,
         kept' \subseteq kept, dropped' \subseteq dropped,
         \A t \in Request :
           \/ UNCHANGED <<pc[t], snapshot[t], fd[t]>>
           \/ pc'[t] \notin Saving
           \/ pc'[t] = "open" /\ snapshot'[t] = registry
  PROVE  Fine
<1>1. UNCHANGED Loadable /\ Parses(path)' BY SameFile DEF AloneInv
<1>2. OwnFile' BY DEF AloneInv, OwnFile, Saving
<1> QED BY <1>1, <1>2 DEF AloneInv, TmpApart, Held, Fine

(* Steps of a request that is alone, on the registry in memory. *)
LEMMA MemoryStep ==
  ASSUME TypeOK, AloneInv, AtMostOne', UNCHANGED <<path, tmp, content>>,
         NEW t \in Request, pc[t] \in {"register", "unregister"},
         pc' = [pc EXCEPT ![t] = "list"], NEW n \in Name,
         \/ registry' = registry \cup {n} /\ kept' = kept /\ dropped' = dropped \ {n}
         \/ registry' = registry \ {n} /\ kept' = kept \ {n} /\ dropped' = dropped
  PROVE  Fine
<1>1. UNCHANGED Loadable /\ Parses(path)' BY SameFile DEF AloneInv
<1>2. \A u \in Request : pc'[u] \notin Saving
  BY DEF AloneInv, AtMostOne, TypeOK, Saving
<1>3. OwnFile' BY <1>2 DEF OwnFile, Saving
<1>4. Durable!DurNext BY <1>1 DEF Durable!DurNext, Durable!Add, Durable!Drop
<1>5. Held' BY <1>1 DEF AloneInv, Held
<1> QED BY <1>1, <1>3, <1>4, <1>5 DEF AloneInv, TmpApart, Fine

LEMMA OpenStep ==
  ASSUME TypeOK, AloneInv, AtMostOne', NEW t \in Request, SaveOpen(t)
  PROVE  Fine
<1> USE FileAssumption
<1>1. PICK i \in IF tmp = None THEN Inode \ Referenced ELSE {tmp} :
        /\ tmp' = i /\ fd' = [fd EXCEPT ![t] = i]
        /\ content' = [content EXCEPT ![i] = Empty]
  BY DEF SaveOpen
<1>2. i \in Inode /\ i # path BY <1>1 DEF TypeOK, AloneInv, TmpApart, Referenced
<1>3. path # None => UNCHANGED content[path] BY <1>1, <1>2 DEF TypeOK, SaveOpen
<1>4. UNCHANGED Loadable /\ Parses(path)' BY <1>3, SameFile DEF AloneInv, SaveOpen
<1>5. \A u \in Request \ {t} : pc'[u] = "idle"
  BY DEF SaveOpen, Goto, AtMostOne, TypeOK
<1>6. pc[t] = "open" /\ pc'[t] = "write" /\ fd'[t] = i /\ content'[i] = Empty
  BY <1>1, <1>2 DEF SaveOpen, Goto, TypeOK
<1>7. OwnFile' BY <1>1, <1>5, <1>6 DEF OwnFile, Saving, SaveOpen, AloneInv
<1> QED BY <1>1, <1>2, <1>4, <1>7 DEF AloneInv, TmpApart, Held, Fine, SaveOpen, history

LEMMA WriteStep ==
  ASSUME TypeOK, AloneInv, AtMostOne', NEW t \in Request,
         SaveWrite(t) \/ SaveFails(t)
  PROVE  Fine
<1> USE FileAssumption DEF Goto, Return
<1>1. \A u \in Request \ {t} : pc'[u] = "idle" /\ pc[u] = "idle"
  BY DEF SaveWrite, SaveFails, AloneInv, AtMostOne, TypeOK
<1>2. path # None => UNCHANGED content[path]
  <2>1. CASE pc[t] = "write"
    <3>1. fd[t] = tmp /\ fd[t] \in Inode /\ fd[t] # path
      BY <2>1 DEF AloneInv, OwnFile, TmpApart, TypeOK
    <3> QED BY <2>1, <3>1 DEF SaveWrite, SaveFails, TypeOK
  <2>2. CASE pc[t] # "write" BY <2>2 DEF SaveWrite, SaveFails
  <2> QED BY <2>1, <2>2
<1>3. UNCHANGED Loadable /\ Parses(path)'
  BY <1>2, SameFile DEF AloneInv, SaveWrite, SaveFails
<1>4. OwnFile'
  <2>1. CASE SaveWrite(t)
    <3>1. fd[t] = tmp /\ tmp \in Inode /\ content[tmp] = Empty
          /\ snapshot[t] = registry
      BY <2>1 DEF AloneInv, OwnFile, TypeOK, SaveWrite, Saving
    <3>2. Overwritten(content[fd[t]], snapshot[t]) = {List(snapshot[t])}
      BY <3>1 DEF Overwritten, Empty
    <3>3. content'[tmp] = List(snapshot[t])
      BY <2>1, <3>1, <3>2 DEF SaveWrite, TypeOK
    <3>4. pc'[t] = "rename" BY <2>1 DEF SaveWrite, TypeOK
    <3> QED BY <1>1, <2>1, <3>1, <3>3, <3>4 DEF SaveWrite, OwnFile, Saving
  <2>2. CASE SaveFails(t)
    <3>1. pc'[t] = "idle" BY <2>2 DEF SaveFails, TypeOK
    <3> QED BY <1>1, <3>1 DEF OwnFile, Saving
  <2> QED BY <2>1, <2>2
<1> QED BY <1>3, <1>4 DEF AloneInv, TmpApart, Held, Fine, SaveWrite, SaveFails, history

LEMMA RenameStep ==
  ASSUME TypeOK, AloneInv, AtMostOne', NEW t \in Request, SaveRename(t)
  PROVE  Fine
<1> USE FileAssumption DEF Goto, Return
<1>1. tmp \in Inode /\ path' = tmp /\ tmp' = None /\ content' = content
      /\ UNCHANGED registry
  BY DEF SaveRename, TypeOK
<1>2. content[tmp] = List(registry) BY <1>1 DEF SaveRename, AloneInv, OwnFile, Saving
<1>3. Loadable' = registry /\ Parses(path)'
  BY <1>1, <1>2 DEF Loadable, Parses, List
<1>4. \A u \in Request : pc'[u] = "idle"
  BY DEF SaveRename, AloneInv, AtMostOne, TypeOK
<1>5. OwnFile' BY <1>4 DEF OwnFile, Saving
<1>6. Held'
  BY <1>1, <1>3 DEF Held, AloneInv, SaveRename
<1>7. Durable!DurNext BY <1>1, <1>3 DEF Durable!DurNext, Durable!Save
<1> QED BY <1>1, <1>3, <1>5, <1>6, <1>7 DEF AloneInv, TmpApart, Fine

LEMMA RestartStep ==
  ASSUME TypeOK, AloneInv, AtMostOne', Restart PROVE Fine
<1>1. UNCHANGED Loadable /\ Parses(path)' BY SameFile DEF Restart, AloneInv, files
<1>2. registry' = Loadable \cap onDisk BY DEF Restart, LoadRegistry
<1>3. OwnFile' BY DEF Restart, OwnFile, Saving
<1>4. Held' BY <1>1, <1>2 DEF Restart, Held, AloneInv
<1>5. Durable!DurNext BY <1>1, <1>2 DEF Durable!DurNext, Durable!Restore
<1> QED BY <1>1, <1>3, <1>4, <1>5 DEF Restart, AloneInv, TmpApart, Fine, files
LEMMA AloneStep ==
  ASSUME IInv, HistNext, ~overlapped' PROVE Fine
<1> USE DEF Goto, Return, files, locals, history
<1>0. Next /\ TypeOK /\ AloneInv /\ AtMostOne' BY StillAlone DEF IInv, HistNext
<1>1. ASSUME NEW t \in Request, NEW n \in Name, CallPull(t, n) \/ CallRemove(t, n)
      PROVE  Fine
  BY <1>0, <1>1, QuietStep DEF CallPull, CallRemove, TypeOK, Saving
<1>2. ASSUME NEW t \in Request, PullRegister(t) PROVE Fine
  <2>1. On(t) \in Name BY <1>0, <1>2 DEF PullRegister, TypeOK, On
  <2>2. CASE On(t) \notin registry
    BY <1>0, <1>2, <2>1, <2>2, MemoryStep DEF PullRegister
  <2>3. CASE On(t) \in registry
    BY <1>0, <1>2, <2>3, QuietStep DEF PullRegister, TypeOK, Saving
  <2> QED BY <2>2, <2>3
<1>3. ASSUME NEW t \in Request, RemoveUnregister(t) PROVE Fine
  <2>1. On(t) \in Name BY <1>0, <1>3 DEF RemoveUnregister, TypeOK, On
  <2> QED BY <1>0, <1>3, <2>1, MemoryStep DEF RemoveUnregister
<1>4. ASSUME NEW t \in Request, Save(t) PROVE Fine
  <2>1. CASE SaveList(t) BY <1>0, <2>1, QuietStep DEF SaveList, TypeOK
  <2>2. CASE SaveRenameFails(t)
    BY <1>0, <2>2, QuietStep DEF SaveRenameFails, TypeOK, Saving
  <2> QED BY <1>0, <1>4, <2>1, <2>2, OpenStep, WriteStep, RenameStep DEF Save
<1>5. ASSUME NEW n \in Name, FileGoes(n) PROVE Fine
  BY <1>0, <1>5, QuietStep DEF FileGoes
<1>6. CASE Restart BY <1>0, <1>6, RestartStep
<1> QED BY <1>0, <1>1, <1>2, <1>3, <1>4, <1>5, <1>6 DEF Next

LEMMA IInvStep == IInv /\ [HistNext]_<<vars, overlapped>> => IInv'
<1> SUFFICES ASSUME IInv, [HistNext]_<<vars, overlapped>> PROVE IInv' OBVIOUS
<1>1. TypeOK' BY TypeStep DEF IInv, HistNext, vars
<1>2. CASE HistNext BY <1>1, <1>2, AloneStep DEF IInv, Fine
<1>3. CASE UNCHANGED <<vars, overlapped>>
  <2>1. UNCHANGED Loadable /\ (Parses(path)' <=> Parses(path))
    BY <1>3, SameFile DEF vars, files
  <2> QED BY <1>1, <1>3, <2>1
          DEF IInv, AloneInv, AtMostOne, TmpApart, OwnFile, Held,
              vars, files, locals, history
<1> QED BY <1>2, <1>3

LEMMA AlwaysIInv == HistSpec => []IInv
<1>1. HistInit => IInv BY InitType, InitAlone DEF HistInit, IInv
<1> QED BY <1>1, IInvStep, PTL DEF HistSpec
-----------------------------------------------------------------------------
(* The variables keep their types, and a goroutine that writes has a file. *)
THEOREM FileTypeCorrect == HistSpec => []TypeOK
<1> QED BY AlwaysType

(* One request at a time: the registry file always parses, at whatever point
   of a save the server ends. *)
THEOREM AloneIsNeverCorrupt == HistSpec => []AloneNeverCorrupt
<1>1. IInv => AloneNeverCorrupt
  BY DEF IInv, AloneInv, AloneNeverCorrupt, NeverCorrupt
<1> QED BY AlwaysIInv, <1>1, PTL

(* One request at a time: what was pulled is on file. *)
THEOREM AlonePullsAreRemembered == HistSpec => []AlonePullsRemembered
<1>1. IInv => AlonePullsRemembered
  BY DEF IInv, AloneInv, Held, AlonePullsRemembered, PullsRemembered
<1> QED BY AlwaysIInv, <1>1, PTL

(* One request at a time: what was removed is not. *)
THEOREM AloneRemovalsDoStick == HistSpec => []AloneRemovalsStick
<1>1. IInv => AloneRemovalsStick
  BY DEF IInv, AloneInv, Held, AloneRemovalsStick, RemovalsStick
<1> QED BY AlwaysIInv, <1>1, PTL

(* One request at a time: the steps of SaveRegistry, crashes and failures
   included, implement the atomic save of DurableRegistry. *)
THEOREM AloneIsDurable == HistSpec => AloneDurable
<1>1. HistInit => Durable!DurInit
  <2> SUFFICES ASSUME HistInit PROVE Durable!DurInit OBVIOUS
  <2>1. registry = LoadRegistry /\ Loadable \in SUBSET Name
    BY InitType, LoadableType DEF HistInit, Init
  <2> QED BY <2>1 DEF Durable!DurInit, LoadRegistry
<1>2. IInv /\ [HistNext]_<<vars, overlapped>>
      => [overlapped' \/ Durable!DurNext]_<<registry, Loadable>>
  <2> SUFFICES ASSUME IInv, [HistNext]_<<vars, overlapped>>, ~overlapped'
               PROVE  Durable!DurNext \/ UNCHANGED <<registry, Loadable>>
      OBVIOUS
  <2>1. CASE HistNext BY <2>1, AloneStep DEF Fine
  <2>2. CASE UNCHANGED <<vars, overlapped>>
    <3>1. UNCHANGED Loadable BY <2>2, SameFile DEF vars, files
    <3> QED BY <2>2, <3>1 DEF vars
  <2> QED BY <2>1, <2>2
<1> QED BY AlwaysIInv, <1>1, <1>2, PTL DEF HistSpec, AloneDurable
-----------------------------------------------------------------------------
(* Any number of requests at a time: a corrupt file does not go unreported. *)

(* The saves that have opened path.tmp and have not come to an end of it. *)
Opened == {t \in Request : pc[t] \in {"write", "rename"}}

(* There are more of them than there are files to rename, so that the rename of
   one is going to fail: a rename uses up the one name that an open provides. *)
Crowded == \E t \in Opened : tmp = None \/ \E u \in Opened : u # t

(* Or the one that there is has path.tmp to itself. *)
Orderly ==
  \A t \in Opened :
    /\ \A u \in Opened : u = t
    /\ tmp # None
    /\ pc[t] = "write"  => fd[t] = tmp /\ content[tmp] = Empty
    /\ pc[t] = "rename" => content[tmp].kind = "list"

Announced == CorruptionReported /\ (warned \/ Crowded \/ Orderly)

(* A step that leaves the opened saves and their file as they are. *)
LEMMA AsideAnnounced ==
  ASSUME TypeOK, Announced, NEW t \in Request, NEW to, to \notin Saving,
         pc[t] \notin Saving, pc' = [pc EXCEPT ![t] = to],
         UNCHANGED <<path, tmp, content, warned>>,
         \A u \in Request \ {t} : UNCHANGED fd[u]
  PROVE  Announced'
<1>1. /\ Opened' = Opened
      /\ \A u \in Request : pc'[u] \in Saving <=> pc[u] \in Saving
      /\ \A u \in Opened : u # t /\ UNCHANGED <<pc[u], fd[u]>>
  BY DEF Opened, Saving, TypeOK
<1>2. CorruptionReported' BY <1>1 DEF Announced, CorruptionReported, Parses
<1>3. Crowded => Crowded' BY <1>1 DEF Crowded
<1>4. Orderly => Orderly' BY <1>1 DEF Orderly
<1> QED BY <1>2, <1>3, <1>4 DEF Announced

(* A save that begins may take a warning of earlier saves for its own only if
   one of them is still there. *)
LEMMA ListAnnounced ==
  ASSUME TypeOK, Announced, NEW t \in Request, SaveList(t)
  PROVE  Announced'
<1> USE DEF SaveList, Goto, files
<1>1. pc'[t] \in Saving BY DEF TypeOK, Saving
<1>2. CorruptionReported' BY <1>1 DEF CorruptionReported
<1>3. Opened' = Opened BY DEF Opened, TypeOK
<1>4. \A u \in Opened : u # t /\ UNCHANGED <<pc[u], fd[u]>> BY DEF Opened, TypeOK
<1>5. CASE \E u \in Request : pc[u] \in Saving
  <2>1. warned => warned' BY <1>5, Zenon
  <2>2. Crowded => Crowded' BY <1>3 DEF Crowded
  <2>3. Orderly => Orderly' BY <1>3, <1>4 DEF Orderly
  <2> QED BY <1>2, <2>1, <2>2, <2>3 DEF Announced
<1>6. CASE \A u \in Request : pc[u] \notin Saving
  <2>1. Opened' = {} BY <1>3, <1>6 DEF Opened, Saving
  <2> QED BY <1>2, <2>1 DEF Announced, Orderly
<1> QED BY <1>5, <1>6

(* The first to open path.tmp has it to itself, the next ones crowd. *)
LEMMA OpenAnnounced ==
  ASSUME TypeOK, Announced, NEW t \in Request, SaveOpen(t)
  PROVE  Announced'
<1> USE FileAssumption DEF SaveOpen, Goto
<1>1. PICK i \in IF tmp = None THEN Inode \ Referenced ELSE {tmp} :
        /\ tmp' = i /\ fd' = [fd EXCEPT ![t] = i]
        /\ content' = [content EXCEPT ![i] = Empty]
  OBVIOUS
<1>2. i \in Inode /\ i # None BY <1>1 DEF TypeOK
<1>3. pc[t] = "open" /\ pc'[t] = "write" /\ fd'[t] = tmp' /\ content'[tmp'] = Empty
  BY <1>1, <1>2 DEF TypeOK
<1>4. CorruptionReported' BY <1>3 DEF CorruptionReported, Saving
<1>5. Opened' = Opened \cup {t} /\ t \notin Opened BY <1>3 DEF Opened, TypeOK
<1>6. CASE Opened = {}
  <2>1. Orderly' BY <1>1, <1>2, <1>3, <1>5, <1>6 DEF Orderly
  <2> QED BY <1>4, <2>1 DEF Announced
<1>7. CASE Opened # {}
  <2>1. Crowded' BY <1>5, <1>7 DEF Crowded
  <2> QED BY <1>4, <2>1 DEF Announced
<1> QED BY <1>6, <1>7

LEMMA WriteAnnounced ==
  ASSUME TypeOK, Announced, NEW t \in Request, SaveWrite(t)
  PROVE  Announced'
<1> USE DEF SaveWrite, Goto
<1>1. pc[t] = "write" /\ pc'[t] = "rename" BY DEF TypeOK
<1>2. CorruptionReported' BY <1>1 DEF CorruptionReported, Saving
<1>3. Opened' = Opened /\ t \in Opened BY <1>1 DEF Opened, TypeOK
<1>4. Crowded => Crowded' BY <1>3 DEF Crowded
<1>5. Orderly => Orderly'
  <2> SUFFICES ASSUME Orderly PROVE Orderly' OBVIOUS
  <2>1. fd[t] = tmp /\ tmp \in Inode /\ content[fd[t]] = Empty
    BY <1>1, <1>3 DEF Orderly, TypeOK
  <2>2. content' = [content EXCEPT ![fd[t]] = List(snapshot[t])]
    BY <2>1 DEF Overwritten, Empty
  <2>3. content'[tmp].kind = "list" BY <2>1, <2>2 DEF TypeOK, List
  <2> QED BY <1>1, <1>3, <2>3 DEF Orderly
<1> QED BY <1>2, <1>4, <1>5 DEF Announced

(* A rename takes a file away, and a save: what is crowded remains so, and an
   orderly save leaves a file that parses. *)
LEMMA RenameAnnounced ==
  ASSUME TypeOK, Announced, NEW t \in Request, SaveRename(t)
  PROVE  Announced'
<1> USE DEF SaveRename, Return, Goto
<1>1. pc[t] = "rename" /\ pc'[t] = "idle" BY DEF TypeOK
<1>2. Opened' = Opened \ {t} /\ t \in Opened BY <1>1 DEF Opened, TypeOK
<1>3. tmp # None /\ tmp' = None /\ path' = tmp /\ UNCHANGED <<content, warned>> OBVIOUS
<1>4. CASE \E u \in Opened : u # t
  <2>1. Crowded' BY <1>2, <1>3, <1>4 DEF Crowded
  <2>2. CorruptionReported' BY <1>2, <1>4 DEF CorruptionReported, Opened, Saving
  <2> QED BY <2>1, <2>2 DEF Announced
<1>5. CASE \A u \in Opened : u = t
  <2>1. Opened' = {} BY <1>2, <1>5
  <2>2. ~Crowded BY <1>3, <1>5 DEF Crowded
  <2>3. warned \/ content[tmp].kind = "list" BY <1>1, <1>2, <2>2 DEF Announced, Orderly
  <2>4. CorruptionReported' BY <1>3, <2>3 DEF CorruptionReported, Parses
  <2> QED BY <2>1, <2>4 DEF Announced, Orderly
<1> QED BY <1>4, <1>5

(* Every step keeps a corrupt file announced. *)
LEMMA NextAnnounced ==
  ASSUME TypeOK, Announced, [Next]_vars PROVE Announced'
<1> USE DEF Goto, Return, files, locals, history
<1>1. ASSUME NEW t \in Request, NEW n \in Name, CallPull(t, n) \/ CallRemove(t, n)
      PROVE  Announced'
  BY <1>1, AsideAnnounced DEF CallPull, CallRemove, Saving
<1>2. ASSUME NEW t \in Request, PullRegister(t) \/ RemoveUnregister(t)
      PROVE  Announced'
  BY <1>2, AsideAnnounced DEF PullRegister, RemoveUnregister, Saving, TypeOK
<1>3. ASSUME warned' PROVE Announced' BY <1>3 DEF Announced, CorruptionReported
<1>4. ASSUME NEW t \in Request, Save(t) PROVE Announced'
  BY <1>3, <1>4, ListAnnounced, OpenAnnounced, WriteAnnounced, RenameAnnounced
     DEF Save, SaveFails, SaveRenameFails
<1>5. ASSUME NEW n \in Name, FileGoes(n) PROVE Announced'
  BY <1>5 DEF FileGoes, Announced, CorruptionReported, Crowded, Orderly, Opened, Parses
<1>6. CASE Restart
  <2>1. Opened' = {} BY <1>6 DEF Restart, Opened
  <2>2. CorruptionReported' BY <1>6 DEF Restart, CorruptionReported, Parses
  <2> QED BY <2>1, <2>2 DEF Announced, Orderly
<1>7. CASE UNCHANGED vars
  BY <1>7 DEF vars, Announced, CorruptionReported, Crowded, Orderly, Opened, Parses
<1> QED BY <1>1, <1>2, <1>4, <1>5, <1>6, <1>7 DEF Next

(* However many saves overlap, and whatever fails: when they are over, a registry
   file that does not parse has been reported. *)
THEOREM CorruptionAlwaysReported == HistSpec => []CorruptionReported
<1>1. HistInit => Announced
  <2> SUFFICES ASSUME Init PROVE Announced BY DEF HistInit
  <2>1. Parses(path) BY DEF Init, Parses, List
  <2>2. Orderly BY DEF Init, Orderly, Opened
  <2> QED BY <2>1, <2>2 DEF Announced, CorruptionReported
<1>2. [HistNext]_<<vars, overlapped>> => [Next]_vars BY DEF HistNext
<1>3. TypeOK /\ Announced /\ [Next]_vars => Announced' BY NextAnnounced
<1>4. Announced => CorruptionReported BY DEF Announced
<1> QED BY <1>1, <1>2, <1>3, <1>4, AlwaysType, PTL DEF HistSpec
=============================================================================
