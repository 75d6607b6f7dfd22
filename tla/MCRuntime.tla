----------------------------- MODULE MCRuntime ------------------------------
(* Runtime with small sets of goroutines, names and models. *)
EXTENDS Runtime, TLC

CONSTANTS r1, r2, r3, n1, n2, m1, m2, m3, i1, i2, i3

Two   == {r1, r2}
Three == {r1, r2, r3}

OneName  == {n1}
TwoNames == {n1, n2}

TwoModels   == {m1, m2}
ThreeModels == {m1, m2, m3}

TwoInstances   == {i1, i2}
ThreeInstances == {i1, i2, i3}

(* Of a budget of 4: m1 fits with either of the others, m2 and m3 do not fit
   together. *)
TwoSizes   == m1 :> 1 @@ m2 :> 3
ThreeSizes == m1 :> 1 @@ m2 :> 2 @@ m3 :> 3

(* Goroutines are interchangeable, and so are backend instances. *)
Interchangeable == Permutations(Request) \cup Permutations(Instance)
=============================================================================
