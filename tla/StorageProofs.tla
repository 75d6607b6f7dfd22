----------------------------- MODULE StorageProofs ----------------------------
(***************************************************************************)
(* What a pull registers, for any number of pulls, revisions, files and    *)
(* quantizations.                                                          *)
(*                                                                         *)
(* A cache is searched by name, so everything rests on what can be in it:  *)
(* until a repository changes, nothing but its one revision.               *)
(***************************************************************************)
EXTENDS Storage, WellFoundedInduction, TLAPS

(* A cache holds files of its kind, of the published revision only. *)
CacheInv ==
  /\ \A v \in Rev : cache["hf"][v] \subseteq Gguf /\ cache["mlx"][v] \subseteq Part
  /\ \A r \in Repo \ moved, v \in Rev : v # head[r] => cache[r][v] = {}

Found == {"checksum", "size", "pulled"}

(* Nothing is known before it is found out ... *)
Early(p) ==
  /\ pc[p] \in {"idle", "fetch"} => path[p] = None
  /\ pc[p] \in {"idle", "fetch", "checksum"} => sum[p] = {}
  /\ pc[p] # "pulled" => size[p] = {}
  /\ pc[p] # "idle" => /\ rev[p] \in Rev
                       /\ repo[p] \notin moved => rev[p] = head[repo[p]]

(* ... what is found is there ... *)
Located(p) ==
  pc[p] \in Found =>
    /\ path[p] \in Rev \X (Gguf \cup {None})
    /\ repo[p] = "mlx" => cache["mlx"][path[p][1]] # {}
    /\ repo[p] = "hf" => /\ path[p][2] \in cache["hf"][path[p][1]]
                         /\ quant[p] # None => path[p][2] \in Named[quant[p]]
    /\ repo[p] \notin moved => /\ path[p][1] = rev[p]
                               /\ repo[p] = "mlx" => cache["mlx"][rev[p]] = Part

(* ... and is what the checksum and the size are of. *)
Of(p, files) ==
  /\ repo[p] = "hf" => files = {path[p][2]}
  /\ repo[p] = "mlx" => /\ files \subseteq Part /\ files # {}
                        /\ repo[p] \notin moved => files = Part

Measured(p) ==
  /\ pc[p] \in {"size", "pulled"} => Of(p, sum[p])
  /\ pc[p] = "pulled" => Of(p, size[p])

PullInv(p) == Early(p) /\ Located(p) /\ Measured(p)

(* The types that are known beforehand. *)
Types ==
  /\ head \in [Repo -> Rev] /\ moved \in SUBSET Repo
  /\ cache \in [Repo -> [Rev -> SUBSET (Gguf \cup Part)]]
  /\ pc \in [Pull -> {"idle", "fetch", "checksum", "size", "pulled"}]
  /\ repo \in [Pull -> Repo] /\ quant \in [Pull -> Quant \cup {None}]
  /\ rev \in [Pull -> Rev \cup {None}]
  /\ DOMAIN path = Pull /\ DOMAIN sum = Pull /\ DOMAIN size = Pull
  /\ path = [p \in Pull |-> path[p]] /\ sum = [p \in Pull |-> sum[p]]
  /\ size = [p \in Pull |-> size[p]]

IInv == Types /\ CacheInv /\ \A p \in Pull : PullInv(p)

LEMMA InitIInv == Init => IInv
BY StorageAssumption
DEF Init, IInv, Types, CacheInv, PullInv, Early, Located, Measured, Found, Repo
-----------------------------------------------------------------------------
(* Least is the least, in any set of numbers. *)
LEMMA LeastIsLeast ==
  ASSUME NEW S \in SUBSET Nat, S # {}
  PROVE  Least(S) \in S /\ \A y \in S : Least(S) <= y
<1>1. PICK x \in S : \A y \in S : <<y, x>> \notin OpToRel(<, Nat)
  BY NatLessThanWellFounded, WFMin
<1>2. ASSUME NEW y \in S PROVE x <= y
  <2>1. <<y, x>> \notin OpToRel(<, Nat) BY <1>1
  <2>2. x \in Nat /\ y \in Nat OBVIOUS
  <2>3. ~(y < x) BY <2>1, <2>2, Zenon DEF OpToRel
  <2> QED BY <2>2, <2>3
<1> QED BY <1>2 DEF Least

(* The first cached file out of F is a cached file out of F. *)
LEMMA FirstIsCached ==
  ASSUME CacheInv, NEW F, Having(F) # {}
  PROVE  /\ First(F) \in Rev \X Gguf
         /\ First(F)[2] \in cache["hf"][First(F)[1]] \cap F
<1> DEFINE v == Least(Having(F))
<1> DEFINE g == Least(cache["hf"][v] \cap F)
<1>1. Having(F) \in SUBSET Nat BY StorageAssumption DEF Having
<1>2. v \in Having(F) BY <1>1, LeastIsLeast
<1>3. v \in Rev /\ cache["hf"][v] \cap F # {} BY <1>2 DEF Having
<1>4. cache["hf"][v] \subseteq Gguf BY <1>3 DEF CacheInv
<1>5. cache["hf"][v] \cap F \in SUBSET Nat BY <1>4, StorageAssumption
<1>6. g \in cache["hf"][v] \cap F BY <1>3, <1>5, LeastIsLeast
<1>7. First(F) = <<v, g>> BY DEF First
<1> HIDE DEF v, g
<1> QED BY <1>3, <1>4, <1>6, <1>7

(* So is the first snapshot. *)
LEMMA SnapshotIsCached ==
  ASSUME NEW w \in Rev, cache["mlx"][w] # {}
  PROVE  /\ findCachedMLXSnapshot \in Rev \X {None}
         /\ cache["mlx"][findCachedMLXSnapshot[1]] # {}
<1> DEFINE S == {v \in Rev : cache["mlx"][v] # {}}
<1>1. S \in SUBSET Nat /\ S # {} BY StorageAssumption
<1>2. Least(S) \in S BY <1>1, LeastIsLeast
<1>3. findCachedMLXSnapshot = <<Least(S), None>> BY DEF findCachedMLXSnapshot
<1>4. Least(S) \in Rev /\ cache["mlx"][Least(S)] # {} BY <1>2
<1> HIDE DEF S
<1> QED BY <1>3, <1>4
-----------------------------------------------------------------------------
(* A pull that does not move is not disturbed by what the caches and the
   repositories do. *)
Grows ==
  /\ \A r \in Repo, v \in Rev : cache[r][v] \subseteq cache'[r][v]
  /\ moved \subseteq moved'
  /\ \A r \in Repo \ moved' : head'[r] = head[r]

LEMMA Frame ==
  ASSUME Types, CacheInv', Grows, NEW q \in Pull, PullInv(q),
         UNCHANGED <<pc[q], repo[q], quant[q], rev[q], path[q], sum[q], size[q]>>
  PROVE  PullInv(q)'
<1>1. repo[q] \in Repo BY DEF Types
<1>2. Early(q)' BY <1>1 DEF PullInv, Early, Grows
<1>3. Located(q)'
  <2>1. CASE pc[q] \notin Found BY <2>1 DEF Located
  <2>2. CASE pc[q] \in Found
    <3>1. path[q] \in Rev \X (Gguf \cup {None}) BY <2>2 DEF PullInv, Located
    <3>2. path[q][1] \in Rev BY <3>1
    <3>3. rev[q] \in Rev BY <2>2 DEF PullInv, Early, Found
    <3>4. repo[q] = "mlx" => cache'["mlx"][path[q][1]] # {}
      BY <2>2, <3>2 DEF PullInv, Located, Grows, Repo
    <3>5. repo[q] = "hf" => /\ path[q][2] \in cache'["hf"][path[q][1]]
                            /\ quant[q] # None => path[q][2] \in Named[quant[q]]
      BY <2>2, <3>2 DEF PullInv, Located, Grows, Repo
    <3>6. repo[q] \notin moved' => path[q][1] = rev[q]
      BY <1>1, <2>2 DEF PullInv, Located, Grows
    <3>7. repo[q] \notin moved' /\ repo[q] = "mlx" => cache'["mlx"][rev[q]] = Part
      <4>1. cache["mlx"][rev[q]] \subseteq cache'["mlx"][rev[q]]
        BY <3>3 DEF Grows, Repo
      <4>2. cache'["mlx"][rev[q]] \subseteq Part BY <3>3 DEF CacheInv
      <4>3. repo[q] \notin moved' /\ repo[q] = "mlx" => cache["mlx"][rev[q]] = Part
        BY <2>2 DEF PullInv, Located, Grows
      <4> QED BY <4>1, <4>2, <4>3
    <3> QED BY <3>1, <3>4, <3>5, <3>6, <3>7 DEF Located
  <2> QED BY <2>1, <2>2
<1>4. Measured(q)' BY DEF PullInv, Measured, Of, Grows
<1> QED BY <1>2, <1>3, <1>4 DEF PullInv
LEMMA CacheStep ==
  IInv /\ [Next]_vars => Grows /\ CacheInv' /\ head' \in [Repo -> Rev]
                         /\ moved' \in SUBSET Repo
                         /\ cache' \in [Repo -> [Rev -> SUBSET (Gguf \cup Part)]]
<1> DEFINE Goal == /\ Grows /\ CacheInv' /\ head' \in [Repo -> Rev]
                   /\ moved' \in SUBSET Repo
                   /\ cache' \in [Repo -> [Rev -> SUBSET (Gguf \cup Part)]]
<1> SUFFICES ASSUME IInv, [Next]_vars PROVE Goal OBVIOUS
<1> USE DEF IInv, Types
<1>1. ASSUME UNCHANGED disk PROVE Goal BY <1>1 DEF disk, Grows, CacheInv
<1>2. ASSUME NEW p \in Pull, Fetch(p) PROVE Goal
  <2>1. PICK f \in Wanted(p) :
          cache' = [cache EXCEPT ![repo[p]][rev[p]] = @ \cup {f}]
    BY <1>2 DEF Fetch
  <2>2. rev[p] \in Rev /\ (repo[p] \notin moved => rev[p] = head[repo[p]])
    BY <1>2 DEF Fetch, PullInv, Early
  <2>3. repo[p] \in Repo /\ quant[p] \in Quant \cup {None} OBVIOUS
  <2>4. (repo[p] = "mlx" => f \in Part) /\ (repo[p] = "hf" => f \in Gguf)
    BY <2>1, <2>3, StorageAssumption DEF Wanted
  <2>5. /\ cache' \in [Repo -> [Rev -> SUBSET (Gguf \cup Part)]]
        /\ \A r \in Repo, v \in Rev :
             cache'[r][v] = IF r = repo[p] /\ v = rev[p] THEN cache[r][v] \cup {f}
                            ELSE cache[r][v]
    <3>1. PICK r0 \in Repo, v0 \in Rev : r0 = repo[p] /\ v0 = rev[p]
      BY <2>2, <2>3
    <3> DEFINE row == [cache[r0] EXCEPT ![v0] = @ \cup {f}]
    <3>2. f \in Gguf \cup Part BY <2>3, <2>4 DEF Repo
    <3>3. row \in [Rev -> SUBSET (Gguf \cup Part)] BY <3>2
    <3>4. \A v \in Rev :
            row[v] = IF v = v0 THEN cache[r0][v] \cup {f} ELSE cache[r0][v]
      OBVIOUS
    <3>5. cache' = [cache EXCEPT ![r0] = row] BY <2>1, <3>1
    <3> HIDE DEF row
    <3> QED BY <3>1, <3>3, <3>4, <3>5
  <2>6. UNCHANGED <<head, moved>> BY <1>2 DEF Fetch
  <2>7. Grows BY <2>5, <2>6 DEF Grows
  <2>8. CacheInv'
    <3>1. ASSUME NEW r \in Repo, NEW v \in Rev
          PROVE  \/ cache'[r][v] = cache[r][v]
                 \/ /\ r = repo[p] /\ v = rev[p]
                    /\ cache'[r][v] = cache[r][v] \cup {f}
      BY <2>5
    <3>2. ASSUME NEW v \in Rev
          PROVE  cache'["hf"][v] \subseteq Gguf /\ cache'["mlx"][v] \subseteq Part
      <4>1. cache["hf"][v] \subseteq Gguf /\ cache["mlx"][v] \subseteq Part BY DEF CacheInv
      <4>2. "hf" \in Repo /\ "mlx" \in Repo BY DEF Repo
      <4> HIDE DEF IInv, Types
      <4>3. cache'["hf"][v] \subseteq Gguf BY <2>4, <3>1, <4>1, <4>2
      <4>4. cache'["mlx"][v] \subseteq Part BY <2>4, <3>1, <4>1, <4>2
      <4> QED BY <4>3, <4>4
    <3>3. ASSUME NEW r \in Repo \ moved', NEW v \in Rev, v # head'[r]
          PROVE  cache'[r][v] = {}
      <4>1. r \notin moved /\ v # head[r] BY <2>6, <3>3
      <4>2. cache[r][v] = {} BY <4>1 DEF CacheInv
      <4> HIDE DEF IInv, Types
      <4> QED BY <2>2, <3>1, <4>1, <4>2
    <3> QED BY <3>2, <3>3 DEF CacheInv
  <2> QED BY <2>5, <2>6, <2>7, <2>8
<1>3. ASSUME NEW r \in Repo, Publish(r) PROVE Goal
  BY <1>3 DEF Publish, Grows, CacheInv
<1>4. ASSUME NEW p \in Pull,
             \/ \E r, q : Resolve(p, r, q)
             \/ Downloaded(p) \/ DownloadFails(p) \/ Checksum(p) \/ Size(p)
      PROVE  UNCHANGED disk
  BY <1>4 DEF Resolve, Downloaded, Find, DownloadFails, Checksum, Size
<1>5. CASE UNCHANGED vars BY <1>1, <1>5 DEF vars
<1> QED BY <1>1, <1>2, <1>3, <1>4, <1>5 DEF Next

(* The types and the pulls, by the step of one of them. *)

Pulls == Types' /\ \A q \in Pull : PullInv(q)'

LEMMA FindStep ==
  ASSUME IInv, Grows, CacheInv', NEW p \in Pull, Downloaded(p)
  PROVE  Pulls
<1> USE DEF IInv, Types
<1>0. pc[p] = "fetch" /\ repo[p] \in Repo /\ quant[p] \in Quant \cup {None}
  BY DEF Downloaded
<1>1. rev[p] \in Rev /\ (repo[p] \notin moved => rev[p] = head[repo[p]])
  BY <1>0 DEF PullInv, Early
<1>2. Wanted(p) \subseteq cache[repo[p]][rev[p]] BY DEF Downloaded
<1> DEFINE where == IF repo[p] = "mlx" THEN findCachedMLXSnapshot
                    ELSE findCachedGGUF(quant[p])
<1>3. path' = [path EXCEPT ![p] = where] /\ UNCHANGED <<disk, want, sum, size>>
      /\ pc' = [pc EXCEPT ![p] = "checksum"]
  BY DEF Downloaded, Find, Goto
<1>4. CASE repo[p] = "mlx"
  <2>1. Part \subseteq cache["mlx"][rev[p]] BY <1>2, <1>4 DEF Wanted
  <2>2. where \in Rev \X {None} /\ cache["mlx"][where[1]] # {}
    BY <1>1, <1>4, <2>1, StorageAssumption, SnapshotIsCached
  <2>3. cache["mlx"][rev[p]] = Part BY <1>1, <2>1 DEF CacheInv
  <2>4. repo[p] \notin moved => where[1] = rev[p]
    BY <1>0, <1>1, <1>4, <2>2 DEF CacheInv
  <2> HIDE DEF where
  <2>5. PullInv(p)'
    BY <1>0, <1>1, <1>3, <1>4, <2>2, <2>3, <2>4
    DEF PullInv, Early, Located, Measured, Found, disk, want
  <2>6. ASSUME NEW q \in Pull, q # p PROVE PullInv(q)'
    BY <1>3, <2>6, Frame DEF want
  <2> QED BY <1>3, <2>5, <2>6 DEF Pulls, disk, want
<1>5. CASE repo[p] # "mlx"
  <2> DEFINE q == IF quant[p] = None THEN DefaultQuant ELSE quant[p]
  <2>0. q \in Quant BY <1>0, StorageAssumption
  <2>1. repo[p] = "hf" /\ FileOf[q] \in cache["hf"][rev[p]]
    BY <1>0, <1>2, <1>5 DEF Wanted, Repo
  <2>2. FileOf[q] \in Named[q] \cap Gguf BY <2>0, StorageAssumption
  <2>3. rev[p] \in Having(Named[q]) /\ rev[p] \in Having(Gguf)
    BY <1>1, <2>1, <2>2 DEF Having
  <2>4. PICK F : /\ Having(F) # {} /\ where = First(F)
                 /\ quant[p] # None => F = Named[quant[p]]
    BY <1>5, <2>3 DEF findCachedGGUF
  <2>5. where \in Rev \X Gguf /\ where[2] \in cache["hf"][where[1]] \cap F
    BY <2>4, FirstIsCached
  <2>6. repo[p] \notin moved => where[1] = rev[p]
    BY <1>1, <2>1, <2>5 DEF CacheInv, Repo
  <2> HIDE DEF where, q
  <2>7. PullInv(p)'
    BY <1>0, <1>1, <1>3, <2>1, <2>4, <2>5, <2>6
    DEF PullInv, Early, Located, Measured, Found, disk, want
  <2>8. ASSUME NEW o \in Pull, o # p PROVE PullInv(o)'
    BY <1>3, <2>8, Frame DEF want
  <2> QED BY <1>3, <2>7, <2>8 DEF Pulls, disk, want
<1> QED BY <1>4, <1>5

LEMMA PullStep == IInv /\ [Next]_vars => Types' /\ \A q \in Pull : PullInv(q)'
<1> SUFFICES ASSUME IInv, [Next]_vars PROVE Pulls BY DEF Pulls
<1> USE DEF IInv, Types
<1>0. /\ Grows /\ CacheInv' /\ head' \in [Repo -> Rev] /\ moved' \in SUBSET Repo
      /\ cache' \in [Repo -> [Rev -> SUBSET (Gguf \cup Part)]]
  BY CacheStep
<1>1. ASSUME NEW p \in Pull, NEW r \in Repo, NEW q \in Quant \cup {None},
             Resolve(p, r, q)
      PROVE  Pulls
  <2>1. PullInv(p)'
    BY <1>1 DEF Resolve, Goto, disk, PullInv, Early, Located, Measured, Found
  <2>2. ASSUME NEW o \in Pull, o # p PROVE PullInv(o)'
    BY <1>0, <1>1, <2>2, Frame DEF Resolve, Goto
  <2> QED BY <1>0, <1>1, <2>1, <2>2 DEF Resolve, Goto, Pulls
<1>2. ASSUME NEW p \in Pull, Downloaded(p) PROVE Pulls BY <1>0, <1>2, FindStep
<1>3. ASSUME NEW p \in Pull, DownloadFails(p) PROVE Pulls
  <2>1. PullInv(p)'
    BY <1>3 DEF DownloadFails, Goto, disk, PullInv, Early, Located, Measured, Found
  <2>2. ASSUME NEW o \in Pull, o # p PROVE PullInv(o)'
    BY <1>0, <1>3, <2>2, Frame DEF DownloadFails, Goto
  <2> QED BY <1>0, <1>3, <2>1, <2>2 DEF DownloadFails, Goto, Pulls, Repo
<1>4. ASSUME NEW p \in Pull, pc[p] \in {"checksum", "size"} PROVE Of(p, listFiles(p))
  <2>1. Located(p) /\ Early(p) /\ pc[p] \in Found BY <1>4 DEF PullInv, Found
  <2>2. path[p][1] \in Rev BY <2>1 DEF Located
  <2> QED BY <2>1, <2>2 DEF Of, Located, CacheInv, listFiles
<1>5. ASSUME NEW p \in Pull, Checksum(p) PROVE Pulls
  <2>1. PullInv(p)'
    BY <1>4, <1>5 DEF Checksum, Goto, disk, want, PullInv, Early, Located, Measured,
                      Found, Of
  <2>2. ASSUME NEW o \in Pull, o # p PROVE PullInv(o)'
    BY <1>0, <1>5, <2>2, Frame DEF Checksum, Goto, want
  <2> QED BY <1>0, <1>5, <2>1, <2>2 DEF Checksum, Goto, Pulls, want
<1>6. ASSUME NEW p \in Pull, Size(p) PROVE Pulls
  <2>1. PullInv(p)'
    BY <1>4, <1>6 DEF Size, Goto, disk, want, PullInv, Early, Located, Measured,
                      Found, Of
  <2>2. ASSUME NEW o \in Pull, o # p PROVE PullInv(o)'
    BY <1>0, <1>6, <2>2, Frame DEF Size, Goto, want
  <2> QED BY <1>0, <1>6, <2>1, <2>2 DEF Size, Goto, Pulls, want
<1>7. ASSUME UNCHANGED <<pc, want, path, sum, size>> PROVE Pulls
  <2>1. ASSUME NEW q \in Pull PROVE PullInv(q)' BY <1>0, <1>7, Frame DEF want
  <2> QED BY <1>0, <1>7, <2>1 DEF Pulls, want
<1>8. ASSUME NEW p \in Pull, Fetch(p) PROVE Pulls BY <1>7, <1>8 DEF Fetch
<1>9. ASSUME NEW r \in Repo, Publish(r) PROVE Pulls BY <1>7, <1>9 DEF Publish
<1>10. CASE UNCHANGED vars BY <1>7, <1>10 DEF vars
<1> QED BY <1>1, <1>2, <1>3, <1>5, <1>6, <1>8, <1>9, <1>10 DEF Next, Repo

LEMMA AlwaysIInv == Spec => []IInv
<1>1. IInv /\ [Next]_vars => IInv' BY CacheStep, PullStep DEF IInv
<1> QED BY InitIInv, <1>1, PTL DEF Spec
-----------------------------------------------------------------------------
(* The variables keep their types, and wherever the code looks for something
   in a cache, there is something. *)
THEOREM StorageTypeCorrect == Spec => []TypeOK
<1>1. ASSUME IInv PROVE TypeOK
  <2> USE <1>1 DEF IInv, Types
  <2>1. ASSUME NEW p \in Pull
        PROVE  /\ path[p] \in (Rev \X (Gguf \cup {None})) \cup {None}
               /\ sum[p] \subseteq Gguf \cup Part /\ size[p] \subseteq sum[p] \cup Part
               /\ pc[p] = "pulled" => sum[p] # {}
    <3>1. Early(p) /\ Located(p) /\ Measured(p) BY DEF PullInv
    <3>2. path[p] \in (Rev \X (Gguf \cup {None})) \cup {None}
      BY <3>1 DEF Early, Located, Found
    <3>3. CASE pc[p] \in {"idle", "fetch", "checksum"}
      <4>1. sum[p] = {} /\ size[p] = {} BY <3>1, <3>3 DEF Early
      <4> QED BY <3>2, <3>3, <4>1
    <3>4. CASE pc[p] \in {"size", "pulled"}
      <4>1. Of(p, sum[p]) /\ (pc[p] = "pulled" => Of(p, size[p]))
        BY <3>1, <3>4 DEF Measured
      <4>2. pc[p] # "pulled" => size[p] = {} BY <3>1 DEF Early
      <4>3. repo[p] = "hf" => path[p][2] \in Gguf
        BY <3>1, <3>4 DEF Located, Found, CacheInv
      <4>4. CASE repo[p] = "hf" BY <4>1, <4>2, <4>3, <4>4, <3>2 DEF Of
      <4>5. CASE repo[p] = "mlx" BY <4>1, <4>2, <4>5, <3>2 DEF Of
      <4> QED BY <4>4, <4>5 DEF Repo
    <3> QED BY <3>2, <3>3, <3>4
  <2>2. path \in [Pull -> (Rev \X (Gguf \cup {None})) \cup {None}] BY <2>1
  <2> QED BY <2>1, <2>2 DEF TypeOK
<1> QED BY AlwaysIInv, <1>1, PTL

(* Unless its repository has changed, a model is registered whole: its path is
   in the revision that was fetched, and its checksum and its size are of all
   the model's files or, if no other file has the quantization's name for a part
   of its own, of the file of the quantization that was asked for. *)
THEOREM ModelsAreWhole == Spec => []WholeModel
<1>1. ASSUME IInv, NEW p \in Pull, pc[p] = "pulled", repo[p] \notin moved
      PROVE  /\ path[p][1] = rev[p]
             /\ sum[p] = size[p]
             /\ repo[p] = "mlx" => sum[p] = Part
             /\ repo[p] = "hf" /\ quant[p] # None =>
                  (Distinct(quant[p]) => sum[p] = {FileOf[quant[p]]})
  <2>1. Located(p) /\ Of(p, sum[p]) /\ Of(p, size[p]) /\ repo[p] \in Repo
    BY <1>1 DEF IInv, Types, PullInv, Measured
  <2>2. path[p][1] = rev[p] BY <1>1, <2>1 DEF Located, Found
  <2>3. repo[p] = "mlx" => sum[p] = Part /\ size[p] = Part BY <1>1, <2>1 DEF Of
  <2>4. repo[p] = "hf" => sum[p] = {path[p][2]} /\ size[p] = {path[p][2]}
    BY <2>1 DEF Of
  <2>5. repo[p] = "hf" /\ quant[p] # None => path[p][2] \in Named[quant[p]]
    BY <1>1, <2>1 DEF Located, Found
  <2>6. repo[p] = "hf" /\ quant[p] # None /\ Distinct(quant[p])
        => path[p][2] = FileOf[quant[p]]
    BY <2>5 DEF Distinct
  <2> QED BY <2>1, <2>2, <2>3, <2>4, <2>6 DEF Repo
<1>2. IInv => WholeModel BY <1>1 DEF WholeModel
<1> QED BY AlwaysIInv, <1>2, PTL
=============================================================================
