---------------------------- MODULE MCLockInHistory ----------------------------
(* Instances of LockInHistory for TLC: one player whose game tips off at 1. *)
EXTENDS LockInHistory, TLC

CONSTANT p1

OneDeadline == (p1 :> 3)
Interchangeable == Permutations(Rec)
=============================================================================
