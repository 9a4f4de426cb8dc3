------------------------------ MODULE Opportunity ------------------------------
(***************************************************************************)
(* One row of the lock_in_opportunities table (one player in one NBA game) *)
(* and everything the program can do to it: what planning evidence, the    *)
(* lineup reads around tipoff, the polls after the game, the planner, the  *)
(* manager's acknowledgement and the owner's corrections make of a row.    *)
(*                                                                         *)
(* Each operator is a pure function of the stored row, as in the code; who *)
(* applies it when, and under which compare-and-swap, is in module LockIn. *)
(* The slot, the positions and the league's fingerprint are left out, and  *)
(* so is the status automatic_final, which no code path assigns.           *)
(***************************************************************************)
EXTENDS Integers

CONSTANTS
  Score,     \* final scores (with the fingerprint of the summary they come from)
  NoScore,
  Rec,       \* recommendations for one player-game (decision_type live_lock_in)
  NoRec,     \* current_recommendation_id is NULL, or names a warning
  Start,     \* scheduled_start; the instant of tipoff is the first of this tick
  Grace,     \* _AFTER_READ_GRACE
  LastTime   \* fantasy_week_end

ASSUME OpportunityAssumption ==
  /\ Start \in Nat /\ Grace \in Nat /\ LastTime \in Nat
  /\ NoScore \notin Score /\ NoRec \notin Rec

Time == 0 .. LastTime
NoEvidence == -1

Open == {"scheduled", "active", "finalizing", "actionable", "reconciliation_required"}
Settled == {"acknowledged_locked", "acknowledged_passed"}
Status == Open \cup Settled \cup {"absent", "ineligible", "expired"}

Action == {"locked", "passed"}
Opportunity == [status : Status,
                rostered : {"unknown", "yes", "no"},     \* rostered_at_tipoff
                evidence : Time \cup {NoEvidence},       \* roster_evidence_at
                unverified : BOOLEAN,                    \* tipoff_unverified
                forfeited : {"unset", "yes", "no"},      \* trace_json.eligibility_forfeited
                late : BOOLEAN,                          \* updated_at >= scheduled_start
                score : Score \cup {NoScore},            \* current observed = stable score
                rec : Rec \cup {NoRec},                  \* current_recommendation_id
                ack : Action \cup {"none"}]              \* acknowledged_action

Absent == [status |-> "absent", rostered |-> "unknown", evidence |-> NoEvidence,
           unverified |-> FALSE, forfeited |-> "unset", late |-> FALSE,
           score |-> NoScore, rec |-> NoRec, ack |-> "none"]

\* What the schedule says of the game, and where the roster has the player: starting in a slot
\* he is eligible for, listed as a starter without proof that he is eligible, or not starting.
GameState == {"scheduled", "in_progress", "final", "unclear"}
Spot == {"starter", "misfit", "bench"}

-----------------------------------------------------------------------------
(* Planning evidence *)

\* _initial_status
InitialStatus(game) ==
  CASE game = "in_progress" -> "active"
    [] game = "final" -> "finalizing"
    [] game = "unclear" -> "reconciliation_required"
    [] OTHER -> "scheduled"

\* _opportunity_record: a roster snapshot counts as evidence only if it precedes tipoff.
Candidate(game, spot, snapshot) ==
  LET early == snapshot < Start
  IN [status |-> IF early /\ spot # "starter" THEN "ineligible" ELSE InitialStatus(game),
      rostered |-> IF ~early THEN "unknown" ELSE IF spot = "bench" THEN "no" ELSE "yes",
      evidence |-> IF early THEN snapshot ELSE NoEvidence,
      starter |-> spot # "bench",
      observed |-> snapshot]

\* INSERT OR IGNORE of a candidate nobody has stored yet.
Inserted(c, now) ==
  [Absent EXCEPT !.status = c.status, !.rostered = c.rostered, !.evidence = c.evidence,
                 !.late = now >= Start]

\* The status a confirmed decision stands for, whatever the status column says.
SavedStatus(row) ==
  CASE row.ack = "locked" -> "acknowledged_locked"
    [] row.ack = "passed" -> "acknowledged_passed"
    [] OTHER -> row.status

\* A loss of eligibility recorded in the trace; a row without the entry lost it if it became
\* ineligible after tipoff.
RetainedLoss(row) ==
  \/ row.forfeited = "yes"
  \/ row.forfeited = "unset" /\ row.status = "ineligible" /\ row.late

Begun(row, c) ==
  row.status \in {"active", "finalizing"} \/ c.status \in {"active", "finalizing"}
    \/ row.score # NoScore

\* Wrong on purpose, as is every definition named ...Wrong...: an offer already made stands.
ForfeitsWrongOffered(row, c) ==
  /\ SavedStatus(row) \notin Settled \cup {"actionable"}
  /\ RetainedLoss(row) \/ (c.observed >= Start /\ ~c.starter /\ Begun(row, c))

\* Benched after the game began, or lost before, unless a decision has settled the row.
Forfeits(row, c) ==
  /\ SavedStatus(row) \notin Settled
  /\ RetainedLoss(row) \/ (c.observed >= Start /\ ~c.starter /\ Begun(row, c))

\* Past the states that schedule and roster evidence may still move.
Advanced(row) ==
  SavedStatus(row) \in Settled \/ row.status \in {"finalizing", "actionable", "expired"}

MergedStatus(row, c, reconfigured) ==
  IF SavedStatus(row) \in Settled THEN SavedStatus(row)
  ELSE IF Forfeits(row, c) THEN "ineligible"
  ELSE IF reconfigured THEN "reconciliation_required"
  ELSE IF c.status = "reconciliation_required" /\ ~Advanced(row) THEN c.status
  ELSE IF \/ row.status = "ineligible" /\ c.evidence = NoEvidence
          \/ Advanced(row)
          \/ row.status = "active" /\ c.status = "scheduled"
       THEN row.status
  ELSE c.status

\* Evidence read later replaces what is stored.  Of two snapshots of one tick the one that
\* arrives later is the newer.
Newer(row, c) == c.evidence # NoEvidence /\ c.evidence >= row.evidence

\* Wrong: the status column is believed, not the recorded decision.
MergeWrongSettled(row, c, reconfigured, now) ==
  [row EXCEPT !.status = IF reconfigured THEN "reconciliation_required" ELSE c.status,
              !.ack = "none", !.late = now >= Start]

\* _merge_planning_evidence
Merge(row, c, reconfigured, now) ==
  [row EXCEPT
     !.status = MergedStatus(row, c, reconfigured),
     !.rostered = IF Newer(row, c) THEN c.rostered ELSE row.rostered,
     !.evidence = IF Newer(row, c) THEN c.evidence ELSE row.evidence,
     !.unverified = IF Newer(row, c) THEN FALSE ELSE row.unverified,
     !.forfeited = IF Forfeits(row, c) THEN "yes" ELSE "no",
     !.late = now >= Start]

-----------------------------------------------------------------------------
(* The lineup reads before and after tipoff *)

ReadableBefore(row) == row.status \in {"scheduled", "ineligible"}

\* _before_tipoff
BeforeTipoff(row, starts, now) ==
  Merge(row, [status |-> IF starts THEN "scheduled" ELSE "ineligible",
              rostered |-> IF starts THEN "yes" ELSE "no",
              evidence |-> now, starter |-> starts, observed |-> now], FALSE, now)

\* Wrong: a row that was forfeited may be reopened too.
ReopenableWrongForfeited(row, now) ==
  row.status = "ineligible" /\ row.evidence \in 0 .. (Start - 1) /\ now <= Start + Grace

\* Not starting before, starting after: the only case the two reads cannot settle.
Reopenable(row, now) ==
  /\ row.status = "ineligible" /\ row.rostered = "no" /\ row.forfeited # "yes"
  /\ row.evidence \in 0 .. (Start - 1)
  /\ now <= Start + Grace

\* _after_tipoff
AfterTipoff(row) ==
  [row EXCEPT !.status = "active", !.rostered = "yes", !.unverified = TRUE,
              !.forfeited = "no", !.late = TRUE]

-----------------------------------------------------------------------------
(* The postgame poll *)

\* _defer_opportunities: the trace becomes a list of reason codes.
Deferred(row, playing) ==
  [row EXCEPT !.status = IF playing THEN "active" ELSE "finalizing",
              !.forfeited = "unset", !.late = TRUE]

\* RECORD_LOCK_IN_OBSERVATION_SQL
Observed(row, score) ==
  [row EXCEPT !.status = IF row.status \in Settled THEN row.status ELSE "finalizing",
              !.score = score, !.late = TRUE]

\* EXPIRE_LOCK_IN_OPPORTUNITIES_SQL, for a row whose deadline has passed.
Elapsed(row) ==
  IF row.status \in Open THEN [row EXCEPT !.status = "expired", !.late = TRUE] ELSE row

-----------------------------------------------------------------------------
(* Advice *)

\* Wrong: every row is offered.
OfferableWrongAny(row) == row.status # "absent"

\* _mark_actionable: a settled or ineligible row is left alone.
Offerable(row) == row.status \notin Settled \cup {"ineligible", "absent"}

\* The trace becomes the recommendation's.
Offered(row, r, now) ==
  [row EXCEPT !.status = "actionable", !.rec = r, !.forfeited = "unset", !.late = now >= Start]

\* blocked_postgame_advice: whatever the row has become meanwhile.
Warned(row) ==
  [row EXCEPT !.status = "reconciliation_required", !.rec = NoRec, !.forfeited = "unset",
              !.late = TRUE]

\* CONSUME_LOCK_IN_OPPORTUNITY_SQL
Confirmed(row, r, a, now) ==
  IF row.status = "actionable" /\ row.rec = r
  THEN [row EXCEPT !.status = IF a = "locked" THEN "acknowledged_locked"
                              ELSE "acknowledged_passed",
                   !.ack = a, !.late = now >= Start]
  ELSE row

-----------------------------------------------------------------------------
(* The owner's corrections *)

Correction == {"not_locked", "locked", "passed", "not_lockable", "lockable"}

\* What reported_decision and the form accept.  The form submits an action only if it differs
\* from the one on record.
MayReport(row, a, now, deadline) ==
  CASE a = "not_locked" -> row.status # "absent" /\ row.ack # "none" /\ now < LastTime
    [] a \in Action -> /\ row.ack # a
                       /\ row.status \notin {"absent", "ineligible", "expired",
                                             "reconciliation_required"}
                       /\ Start <= now /\ now < deadline
                       /\ row.score # NoScore /\ row.rostered = "yes"
    [] a = "not_lockable" -> row.status # "absent" /\ row.unverified /\ now < LastTime
    [] a = "lockable" -> row.status = "ineligible" /\ Start <= now /\ now < deadline

\* The status of a row whose decision is withdrawn.
Undecided(row, now, deadline) ==
  IF row.status = "ineligible" THEN "ineligible"
  ELSE IF now >= deadline THEN "expired"
  ELSE IF now < Start THEN "scheduled" ELSE "finalizing"

\* reported_decision, _mark_not_lockable, _mark_lockable
Reported(row, a, now, deadline) ==
  LET touched == [row EXCEPT !.late = now >= Start]
  IN CASE a = "not_locked" -> [touched EXCEPT !.status = Undecided(row, now, deadline),
                                              !.ack = "none"]
       [] a = "locked" -> [touched EXCEPT !.status = "acknowledged_locked", !.ack = a,
                                          !.unverified = FALSE]
       [] a = "passed" -> [touched EXCEPT !.status = "acknowledged_passed", !.ack = a]
       [] a = "not_lockable" -> [touched EXCEPT !.status = "ineligible", !.rostered = "no",
                                                !.unverified = FALSE, !.forfeited = "yes"]
       [] a = "lockable" -> [touched EXCEPT !.status = "active", !.rostered = "yes",
                                            !.unverified = TRUE, !.forfeited = "no"]
=============================================================================
