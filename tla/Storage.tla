------------------------------- MODULE Storage ------------------------------
(***************************************************************************)
(* How a pull from Hugging Face ends with a path, a checksum and a size.   *)
(* Package storage runs an external downloader, which fills the cache that *)
(* all downloads share, and then looks for the result in that cache by     *)
(* name: the first .gguf file that will do, or the first snapshot          *)
(* directory for mlx.                                                      *)
(*                                                                         *)
(* Pulls run beside one another, a download may be killed by its timeout or*)
(* by its client's going, and the owner of a repository may publish a      *)
(* revision, whose snapshot directory is named by a hash: the order of     *)
(* names says nothing of the order of time.                                *)
(***************************************************************************)
EXTENDS Naturals

CONSTANTS Pull,          \* the goroutines that handle pulls
          Rev,           \* revisions, as numbers in the order of their names
          Gguf,          \* the .gguf files of a revision, in the order of names
          Part,          \* the files of an mlx model
          Quant,         \* quantizations
          DefaultQuant,  \* the one that llama-cli takes when none is named
          FileOf,        \* the file that llama-cli downloads for each
          Named,         \* the files whose names contain each
          None           \* no quantization is named, nothing is known

ASSUME StorageAssumption ==
  /\ Rev \subseteq Nat /\ Gguf \subseteq Nat /\ Part \subseteq Nat /\ Part # {}
  /\ DefaultQuant \in Quant /\ None \notin Quant
  /\ FileOf \in [Quant -> Gguf] /\ Named \in [Quant -> SUBSET Gguf]
  /\ \A q \in Quant : FileOf[q] \in Named[q]

Repo == {"hf", "mlx"}

VARIABLES head,   \* the revision that each repository publishes
          moved,  \* history: the repositories that have changed theirs
          cache,  \* the files in each snapshot directory
          pc,     \* where each pull is
          repo,   \* its source: the repository ...
          quant,  \* ... and the quantization
          rev,    \* the revision that its downloader fetches
          path,   \* where its result was found: a snapshot, and a file in it
          sum,    \* the files that its checksum is of
          size    \* the files whose sizes were added

disk == <<head, moved, cache>>
want == <<repo, quant, rev>>
vars == <<disk, pc, want, path, sum, size>>

Init ==
  /\ head \in [Repo -> Rev]
  /\ moved = {}
  /\ cache = [r \in Repo |-> [v \in Rev |-> {}]]
  /\ pc = [p \in Pull |-> "idle"]
  /\ repo = [p \in Pull |-> "hf"] /\ quant = [p \in Pull |-> None]
  /\ rev = [p \in Pull |-> None] /\ path = [p \in Pull |-> None]
  /\ sum = [p \in Pull |-> {}] /\ size = [p \in Pull |-> {}]

Goto(p, from, to) == pc[p] = from /\ pc' = [pc EXCEPT ![p] = to]
-----------------------------------------------------------------------------
(* ResolveHuggingFace and ResolveMLX start the downloader, which asks for the
   revision of the day. *)
Resolve(p, r, q) ==
  /\ Goto(p, "idle", "fetch")
  /\ repo'  = [repo EXCEPT ![p] = r]
  /\ quant' = [quant EXCEPT ![p] = q]
  /\ rev'   = [rev EXCEPT ![p] = head[r]]
  /\ UNCHANGED <<disk, path, sum, size>>

Wanted(p) ==
  IF repo[p] = "mlx" THEN Part
  ELSE {FileOf[IF quant[p] = None THEN DefaultQuant ELSE quant[p]]}

(* A file is complete and gets its name in the snapshot directory. *)
Fetch(p) ==
  /\ pc[p] = "fetch"
  /\ \E f \in Wanted(p) \ cache[repo[p]][rev[p]] :
       cache' = [cache EXCEPT ![repo[p]][rev[p]] = @ \cup {f}]
  /\ UNCHANGED <<head, moved, pc, want, path, sum, size>>

Least(S)  == CHOOSE x \in S : \A y \in S : x <= y
Having(F) == {v \in Rev : cache["hf"][v] \cap F # {}}
First(F)  == LET v == Least(Having(F)) IN <<v, Least(cache["hf"][v] \cap F)>>

(* The first file whose name contains the quantization, or else the first. *)
findCachedGGUF(q) ==
  IF q # None /\ Having(Named[q]) # {} THEN First(Named[q]) ELSE First(Gguf)

(* The first snapshot directory. *)
findCachedMLXSnapshot == <<Least({v \in Rev : cache["mlx"][v] # {}}), None>>

Find(p) ==
  /\ Goto(p, "fetch", "checksum")
  /\ path' = [path EXCEPT ![p] = IF repo[p] = "mlx" THEN findCachedMLXSnapshot
                                 ELSE findCachedGGUF(quant[p])]
  /\ UNCHANGED <<disk, want, sum, size>>

(* Mutant: a downloader that was killed is taken for one that is done. *)
DownloadedAnyhow(p) ==
  /\ pc[p] = "fetch" /\ cache[repo[p]][rev[p]] # {}
  /\ Find(p)

(* The downloader exits with 0: it has everything it was asked for. *)
Downloaded(p) ==
  /\ pc[p] = "fetch" /\ Wanted(p) \subseteq cache[repo[p]][rev[p]]
  /\ Find(p)

(* It exits with an error, or is killed: what it has fetched stays. *)
DownloadFails(p) ==
  /\ Goto(p, "fetch", "idle")
  /\ repo' = [repo EXCEPT ![p] = "hf"] /\ quant' = [quant EXCEPT ![p] = None]
  /\ rev' = [rev EXCEPT ![p] = None]
  /\ UNCHANGED <<disk, path, sum, size>>
-----------------------------------------------------------------------------
(* Manager.Pull, once it has a path *)

(* Mutant: the walk leaves symbolic links out, which is what the cache has. *)
listFilesNoLinks(p) == IF repo[p] = "mlx" THEN {} ELSE {path[p][2]}

(* The regular files that a walk from the path comes upon, or the file. *)
listFiles(p) ==
  IF repo[p] = "mlx" THEN cache["mlx"][path[p][1]] ELSE {path[p][2]}

(* Checksum, or DirChecksum. *)
Checksum(p) ==
  /\ Goto(p, "checksum", "size")
  /\ sum' = [sum EXCEPT ![p] = listFiles(p)]
  /\ UNCHANGED <<disk, want, path, size>>

(* Size, or DirSize; the model is registered with what was found. *)
Size(p) ==
  /\ Goto(p, "size", "pulled")
  /\ size' = [size EXCEPT ![p] = listFiles(p)]
  /\ UNCHANGED <<disk, want, path, sum>>

(* The owner of a repository changes it. *)
Publish(r) ==
  /\ r \notin moved
  /\ moved' = moved \cup {r}
  /\ \E v \in Rev \ {head[r]} : head' = [head EXCEPT ![r] = v]
  /\ UNCHANGED <<cache, pc, want, path, sum, size>>
-----------------------------------------------------------------------------
Next ==
  \/ \E p \in Pull :
       \/ Resolve(p, "mlx", None) \/ \E q \in Quant \cup {None} : Resolve(p, "hf", q)
       \/ Fetch(p) \/ Downloaded(p) \/ DownloadFails(p)
       \/ Checksum(p) \/ Size(p)
  \/ \E r \in Repo : Publish(r)

Spec == Init /\ [][Next]_vars
-----------------------------------------------------------------------------
(* Types; where the code looks for something, there is something. *)
TypeOK ==
  /\ head \in [Repo -> Rev] /\ moved \in SUBSET Repo
  /\ cache \in [Repo -> [Rev -> SUBSET (Gguf \cup Part)]]
  /\ pc \in [Pull -> {"idle", "fetch", "checksum", "size", "pulled"}]
  /\ repo \in [Pull -> Repo] /\ quant \in [Pull -> Quant \cup {None}]
  /\ rev \in [Pull -> Rev \cup {None}]
  /\ path \in [Pull -> (Rev \X (Gguf \cup {None})) \cup {None}]
  /\ \A p \in Pull : /\ sum[p] \subseteq Gguf \cup Part /\ size[p] \subseteq sum[p] \cup Part
                     /\ pc[p] = "pulled" => sum[p] # {}

(* No other file has the name of a quantization for a part of its own. *)
Distinct(q) == Named[q] = {FileOf[q]}

(* The model that is registered is the whole model that was asked for, and its
   checksum and its size are of the same files, whatever earlier downloads left
   behind and other pulls do, as long as the repository stays at one revision;
   for a quantization that is its one file, if the search can tell it apart. *)
WholeModel ==
  \A p \in Pull :
    pc[p] = "pulled" /\ repo[p] \notin moved
    => /\ path[p][1] = rev[p]
       /\ sum[p] = size[p]
       /\ repo[p] = "mlx" => sum[p] = Part
       /\ repo[p] = "hf" /\ quant[p] # None =>
            (Distinct(quant[p]) => sum[p] = {FileOf[quant[p]]})

(* What a pull of an mlx repository registers is what its downloader has just
   placed in the cache: the snapshot that it fetched, whole. *)
FetchedIsPulled ==
  \A p \in Pull :
    pc[p] = "pulled" /\ repo[p] = "mlx" => path[p][1] = rev[p] /\ sum[p] = Part

(* The checksum and the size of a pull are of the same files. *)
SizeOfSum == \A p \in Pull : pc[p] = "pulled" => size[p] = sum[p]

(* A pull that names a quantization gets its file, even where files of others
   and of other revisions are cached. *)
QuantHonoured ==
  \A p \in Pull :
    pc[p] = "pulled" /\ repo[p] = "hf" /\ quant[p] # None
    => path[p][2] = FileOf[quant[p]]

(* A pull that names none gets the default. *)
DefaultHonoured ==
  \A p \in Pull :
    pc[p] = "pulled" /\ repo[p] = "hf" /\ quant[p] = None
    => path[p][2] = FileOf[DefaultQuant]

(* A pull registers what it was asked for and nothing else: the default where no
   quantization is named, the file of the one that is, the snapshot just fetched,
   and a checksum and a size of the same files. *)
PulledAsAsked == QuantHonoured /\ DefaultHonoured /\ FetchedIsPulled /\ SizeOfSum
=============================================================================
