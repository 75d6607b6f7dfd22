------------------------------- MODULE Budget -------------------------------
(***************************************************************************)
(* manager.Budget: the ledger of reserved memory under a fixed ceiling.    *)
(* Every operation runs under the budget's own mutex, so each one is a     *)
(* single step.  Word is the modulus of the code's uint64 arithmetic.      *)
(***************************************************************************)
EXTENDS Naturals

CONSTANTS TotalBytes, Word
VARIABLE  reserved

ASSUME TotalAssumption == TotalBytes \in Nat /\ Word \in Nat /\ TotalBytes < Word

(* NewBudget: nothing reserved yet. *)
BudgetInit == reserved = 0

(* Mutant: the model alone against the ceiling. *)
FitsAlone(bytes) == bytes <= TotalBytes

(* The test that Reserve, and CanLoad, make: uint64 addition, then compare. *)
Fits(bytes) == (reserved + bytes) % Word <= TotalBytes

Reserve(bytes) == Fits(bytes) /\ reserved' = (reserved + bytes) % Word

(***************************************************************************)
(* Release panics when asked for more than is reserved.  The panic is not  *)
(* a step here: an invariant of the modules that call Release shows that   *)
(* no caller ever meets it.                                                *)
(***************************************************************************)
Release(bytes) == bytes <= reserved /\ reserved' = reserved - bytes
=============================================================================
