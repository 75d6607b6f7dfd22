------------------------------ MODULE MCStorage -----------------------------
(* Storage with two revisions, two pulls and a repository whose files, in the
   order of their names, are BF16, F16 and Q4_K_M: the second name is part of
   the first. *)
EXTENDS Storage, TLC

CONSTANTS p1, p2

(* Pulls are interchangeable. *)
Interchangeable == Permutations(Pull)

TwoPulls   == {p1, p2}
Revs       == 1..2
Ggufs      == 1..3
Parts      == 1..2
Quants     == {"BF16", "F16", "Q4_K_M"}
Downloads  == [q \in Quants |-> CASE q = "BF16" -> 1 [] q = "F16" -> 2 [] q = "Q4_K_M" -> 3]
Containing == [q \in Quants |-> CASE q = "BF16" -> {1} [] q = "F16" -> {1, 2} [] q = "Q4_K_M" -> {3}]
=============================================================================
