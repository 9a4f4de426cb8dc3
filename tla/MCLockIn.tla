------------------------------- MODULE MCLockIn -------------------------------
(* Instances of LockIn for TLC: one or two players of a game that tips off at 1. *)
EXTENDS LockIn, TLC

CONSTANTS p1, p2

OneDeadline == (p1 :> 3)
Interchangeable == Permutations(Rec) \cup Permutations(Score) \cup Permutations(Recheck)
TwoDeadlines == (p1 :> 3 @@ p2 :> 4)
=============================================================================
