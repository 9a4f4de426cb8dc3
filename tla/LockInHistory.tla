----------------------------- MODULE LockInHistory -----------------------------
(***************************************************************************)
(* LockIn with a memory of what was once established about a performance:  *)
(* that the planner saw it end on the bench, and that the owner said       *)
(* Sleeper offers no lock.  The code keeps this only in the row's status   *)
(* and trace, which other steps rewrite; the sets remember it whatever     *)
(* those steps do.                                                         *)
(***************************************************************************)
EXTENDS LockIn

VARIABLES
  benched,   \* players seen to leave the lineup during their game
  dismissed  \* players whose last word from the owner is "not lockable"

\* A merge finds a player who started on the bench: the snapshot is later than tipoff and the
\* game has begun.
SeenOnBench(p) ==
  /\ run.stage = "merge" /\ p = run.cur /\ p \in run.fresh
  /\ row[p].rostered = "yes" /\ Start <= run.seen.snapshot /\ run.seen.spot[p] = "bench"
  /\ Begun(row[p], CandidateFor(p))

\* The owner who sees Sleeper's lock button takes either observation back, and any other
\* correction of the owner's takes back the last one.
Remember ==
  /\ benched' = (benched \cup {p \in Player : MergeRow /\ SeenOnBench(p)})
                  \ {p \in Player : Correct(p, "lockable")}
  /\ dismissed' = {p \in Player : \/ Correct(p, "not_lockable")
                                  \/ p \in dismissed /\ \A a \in Correction : ~Correct(p, a)}

HistoryInit == Init /\ benched = {} /\ dismissed = {}
HistoryNext == Next /\ Remember
HistorySpec == HistoryInit /\ [][HistoryNext]_<<vars, benched, dismissed>>

\* A performance whose player was seen to be benched during the game is not offered any more,
\* whatever order merges, polls, plans, acknowledgements and corrections come in.
BenchedIsNotOffered == \A p \in benched : row[p].status # "actionable"

\* "Observed bench transitions permanently forfeit that performance; returning the player to a
\* starting slot does not restore it" (README.md:137), said without the exception the code makes
\* for a row that is settled when the transition is observed.
BenchingIsForfeit == BenchedIsNotOffered

\* "Not lockable settles it as ineligible" (README.md:128), until the owner says otherwise: the
\* decision it was settled from does not come back.
DismissedIsNotSettled == \A p \in dismissed : row[p].status \notin Settled
=============================================================================
