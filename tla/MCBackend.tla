----------------------------- MODULE MCBackend ------------------------------
(* Backend with small sets of instances, ports and other programs. *)
EXTENDS Backend, TLC

CONSTANTS b1, b2, b3, p1, p2, p3, llama, web

Three      == {b1, b2, b3}
ThreePorts == {p1, p2, p3}
TwoPorts   == {p1, p2}
Others     == {llama, web}
Llamas     == {llama}

(* Instances are interchangeable, and so are ports. *)
Interchangeable == Permutations(Instance) \cup Permutations(Port)
=============================================================================
