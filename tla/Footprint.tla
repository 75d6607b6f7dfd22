----------------------------- MODULE Footprint ------------------------------
(***************************************************************************)
(* Sizes of sets of models.  The bytes of a set of models are a set of     *)
(* cells, one per byte of each model's MemoryFootprintBytes, and the size  *)
(* of the set is the number of cells.  (A sum over a set would need a      *)
(* recursive definition; counting cells needs none, so that facts about it *)
(* can be proved from the library's theorems on cardinality.)              *)
(***************************************************************************)
EXTENDS Naturals, FiniteSets

CONSTANTS Model,                \* the *manager.Model objects a server can allocate
          MemoryFootprintBytes  \* each one's declared size; a file or directory size

ASSUME FootprintAssumption == MemoryFootprintBytes \in [Model -> Nat]

CellsOf(m) == {m} \X (1 .. MemoryFootprintBytes[m])
Cells(S)   == UNION {CellsOf(m) : m \in S}
BytesOf(S) == Cardinality(Cells(S))
=============================================================================
