--------------------------- MODULE MCRegistryFile ---------------------------
(* RegistryFile with small sets of names, goroutines and inodes. *)
EXTENDS RegistryFile, TLC

CONSTANTS n1, n2, n3, r1, r2, i1, i2, i3

ThreeNames == {n1, n2, n3}
TwoNames   == {n1, n2}
One == {r1}
Two == {r1, r2}
TwoInodes  == {i1, i2}
ThreeInodes == {i1, i2, i3}

(* Names, goroutines and inodes are interchangeable. *)
Interchangeable ==
  Permutations(Name) \cup Permutations(Request) \cup Permutations(Inode)
=============================================================================
