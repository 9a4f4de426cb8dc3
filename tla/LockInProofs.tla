----------------------------- MODULE LockInProofs -----------------------------
(***************************************************************************)
(* What holds of the Lock-In opportunities of a game whatever the number   *)
(* of players, recommendations and rechecks: only eligible performances    *)
(* are offered, an offer is for the score on record, a decision ends the   *)
(* asking and is the manager's, a loss of eligibility is final, and the    *)
(* watch of the game outlasts what can still be locked.  First what the    *)
(* steps do: what each operator makes of an opportunity, what each step    *)
(* makes of the planner's run, the types, and the twelve ways in which a   *)
(* step changes a row.                                                     *)
(***************************************************************************)
EXTENDS LockInHistory, WellFoundedInduction, TLAPS

-----------------------------------------------------------------------------
(* What the steps do *)

\* What the planner's evidence says of a row.
Proposed == {"scheduled", "active", "finalizing", "reconciliation_required", "ineligible"}
Plausible(c) ==
  /\ c.status \in Proposed /\ c.rostered \in {"unknown", "yes", "no"}
  /\ c.evidence \in Time \cup {NoEvidence}

\* A snapshot from after tipoff is no evidence of the lineup at tipoff.
LEMMA CandidatePlausible ==
  ASSUME NEW game \in GameState, NEW spot \in Spot, NEW snapshot \in Time
  PROVE  /\ Plausible(Candidate(game, spot, snapshot))
         /\ Start <= snapshot => /\ Candidate(game, spot, snapshot).evidence = NoEvidence
                                 /\ Candidate(game, spot, snapshot).rostered = "unknown"
<1>1. InitialStatus(game) \in Proposed
  BY DEF InitialStatus, GameState, Proposed
<1>2. QED
  BY <1>1, OpportunityAssumption DEF Candidate, Plausible, Proposed, Time

\* A recorded decision speaks for the row, otherwise its status does.
LEMMA SavedStatusKept ==
  ASSUME NEW o \in Opportunity
  PROVE  /\ SavedStatus(o) \in Status
         /\ o.ack # "none" => SavedStatus(o) \in Settled
         /\ o.ack = "none" => SavedStatus(o) = o.status
  BY DEF Opportunity, SavedStatus, Action, Settled, Status

\* A merge restores a decision, creates neither decisions nor offers, and keeps a forfeiture.
LEMMA MergedStatusFacts ==
  ASSUME NEW o \in Opportunity, NEW c, Plausible(c), NEW reconfigured
  PROVE  /\ MergedStatus(o, c, reconfigured) \in Status \ {"absent"}
         /\ o.ack # "none" => MergedStatus(o, c, reconfigured) \in Settled
         /\ MergedStatus(o, c, reconfigured) = "expired" => o.status = "expired"
         /\ MergedStatus(o, c, reconfigured) \in {"actionable"} \cup Settled =>
              \/ SavedStatus(o) \in Settled
              \/ MergedStatus(o, c, reconfigured) = o.status
         /\ o.ack = "none" /\ o.status = "ineligible" /\ o.forfeited = "yes" =>
              Forfeits(o, c) /\ MergedStatus(o, c, reconfigured) = "ineligible"
<1>1. o.status \in Status /\ c.status \in Proposed
  BY DEF Opportunity, Plausible
<1>2. SavedStatus(o) \in Settled \/ SavedStatus(o) = o.status
  BY SavedStatusKept DEF Opportunity
<1>3. MergedStatus(o, c, reconfigured) \in
         (IF SavedStatus(o) \in Settled THEN {SavedStatus(o)} ELSE {"ineligible"} \cup Proposed
            \cup ({o.status} \cap {"ineligible", "finalizing", "actionable", "expired", "active"}))
  BY <1>1 DEF MergedStatus, Proposed, Advanced
<1>4. o.ack = "none" /\ o.status = "ineligible" /\ o.forfeited = "yes" =>
              Forfeits(o, c) /\ MergedStatus(o, c, reconfigured) = "ineligible"
  BY SavedStatusKept DEF MergedStatus, Forfeits, RetainedLoss, Settled
<1>5. QED
  BY <1>1, <1>2, <1>3, <1>4, SavedStatusKept DEF Status, Settled, Open, Proposed

\* It leaves decision, score and recommendation alone.
LEMMA MergeFacts ==
  ASSUME NEW o \in Opportunity, NEW c, Plausible(c), NEW reconfigured, NEW when \in Time
  PROVE  /\ Merge(o, c, reconfigured, when) \in Opportunity
         /\ Merge(o, c, reconfigured, when).status = MergedStatus(o, c, reconfigured)
         /\ Merge(o, c, reconfigured, when).ack = o.ack
         /\ Merge(o, c, reconfigured, when).score = o.score
         /\ Merge(o, c, reconfigured, when).rec = o.rec
         /\ c.evidence = NoEvidence => Merge(o, c, reconfigured, when).rostered = o.rostered
         /\ Forfeits(o, c) => Merge(o, c, reconfigured, when).forfeited = "yes"
<1> DEFINE late == when >= Start
<1>0. late \in BOOLEAN
  OBVIOUS
<1> DEFINE rostered == IF Newer(o, c) THEN c.rostered ELSE o.rostered
           evidence == IF Newer(o, c) THEN c.evidence ELSE o.evidence
           unverified == IF Newer(o, c) THEN FALSE ELSE o.unverified
           forfeited == IF Forfeits(o, c) THEN "yes" ELSE "no"
           status == MergedStatus(o, c, reconfigured)
<1>1. /\ rostered \in {"unknown", "yes", "no"} /\ evidence \in Time \cup {NoEvidence}
      /\ unverified \in BOOLEAN /\ forfeited \in {"yes", "no"} /\ status \in Status
  BY MergedStatusFacts DEF Opportunity, Plausible
<1>2. /\ c.evidence = NoEvidence => rostered = o.rostered
      /\ Forfeits(o, c) => forfeited = "yes"
  BY DEF Newer
<1>3. Merge(o, c, reconfigured, when)
        = [o EXCEPT !.status = status, !.rostered = rostered, !.evidence = evidence,
                    !.unverified = unverified, !.forfeited = forfeited, !.late = late]
  BY DEF Merge
<1>4. status = MergedStatus(o, c, reconfigured)
  OBVIOUS
<1> HIDE DEF late, rostered, evidence, unverified, forfeited, status
<1> DEFINE m == Merge(o, c, reconfigured, when)
<1>5. m \in Opportunity
  BY <1>0, <1>1, <1>3 DEF Opportunity
<1>6. /\ m.status = status /\ m.ack = o.ack /\ m.score = o.score /\ m.rec = o.rec
      /\ m.rostered = rostered /\ m.forfeited = forfeited
  BY <1>3 DEF Opportunity
<1>7. QED
  BY <1>2, <1>4, <1>5, <1>6

\* Expiring changes the status of open rows only.
LEMMA ElapsedFacts ==
  ASSUME NEW o \in Opportunity
  PROVE  /\ Elapsed(o) \in Opportunity
         /\ Elapsed(o).ack = o.ack /\ Elapsed(o).score = o.score /\ Elapsed(o).rec = o.rec
         /\ Elapsed(o).rostered = o.rostered /\ Elapsed(o).forfeited = o.forfeited
         /\ o.status \in Open => Elapsed(o).status = "expired"
         /\ o.status \notin Open => Elapsed(o) = o
<1>1. CASE o.status \in Open
  BY <1>1 DEF Elapsed, Opportunity, Status
<1>2. CASE o.status \notin Open
  BY <1>2 DEF Elapsed
<1>3. QED
  BY <1>1, <1>2

\* A new row has no score, decision or recommendation.
LEMMA InsertedFacts ==
  ASSUME NEW c, Plausible(c), NEW when \in Time
  PROVE  /\ Inserted(c, when) \in Opportunity
         /\ Inserted(c, when).status = c.status /\ Inserted(c, when).rostered = c.rostered
         /\ Inserted(c, when).ack = "none" /\ Inserted(c, when).score = NoScore
         /\ Inserted(c, when).rec = NoRec
<1> DEFINE late == when >= Start
<1>0. late \in BOOLEAN
  OBVIOUS
<1>1. Inserted(c, when) = [Absent EXCEPT !.status = c.status, !.rostered = c.rostered,
                                        !.evidence = c.evidence, !.late = late]
  BY DEF Inserted
<1> HIDE DEF late
<1>2. QED
  BY <1>0, <1>1 DEF Absent, Opportunity, Plausible, Proposed, Status, Open

\* A poll that has to wait,
LEMMA DeferredFacts ==
  ASSUME NEW o \in Opportunity, NEW playing \in BOOLEAN
  PROVE  /\ Deferred(o, playing) \in Opportunity
         /\ Deferred(o, playing).status \in {"active", "finalizing"}
         /\ Deferred(o, playing).ack = o.ack /\ Deferred(o, playing).score = o.score
         /\ Deferred(o, playing).rec = o.rec /\ Deferred(o, playing).rostered = o.rostered
  BY DEF Deferred, Opportunity, Status, Open

\* one that records a score,
LEMMA ObservedFacts ==
  ASSUME NEW o \in Opportunity, NEW s \in Score
  PROVE  /\ Observed(o, s) \in Opportunity
         /\ Observed(o, s).status = IF o.status \in Settled THEN o.status ELSE "finalizing"
         /\ Observed(o, s).ack = o.ack /\ Observed(o, s).score = s
         /\ Observed(o, s).rec = o.rec /\ Observed(o, s).rostered = o.rostered
         /\ Observed(o, s).forfeited = o.forfeited
  BY DEF Observed, Opportunity, Status, Open

\* a warning,
LEMMA WarnedFacts ==
  ASSUME NEW o \in Opportunity
  PROVE  /\ Warned(o) \in Opportunity
         /\ Warned(o).status = "reconciliation_required" /\ Warned(o).rec = NoRec
         /\ Warned(o).ack = o.ack /\ Warned(o).score = o.score
         /\ Warned(o).rostered = o.rostered
  BY DEF Warned, Opportunity, Status, Open

\* an offer,
LEMMA OfferedFacts ==
  ASSUME NEW o \in Opportunity, NEW r \in Rec \cup {NoRec}, NEW t \in Time
  PROVE  /\ Offered(o, r, t) \in Opportunity
         /\ Offered(o, r, t).status = "actionable" /\ Offered(o, r, t).rec = r
         /\ Offered(o, r, t).ack = o.ack /\ Offered(o, r, t).score = o.score
         /\ Offered(o, r, t).rostered = o.rostered
<1> DEFINE late == t >= Start
<1>0. late \in BOOLEAN
  OBVIOUS
<1>1. Offered(o, r, t) = [o EXCEPT !.status = "actionable", !.rec = r,
                                   !.forfeited = "unset", !.late = late]
  BY DEF Offered
<1> HIDE DEF late
<1>2. QED
  BY <1>0, <1>1 DEF Opportunity, Status, Open

\* the manager's confirmation, which changes only a row that is on offer,
LEMMA ConfirmedFacts ==
  ASSUME NEW o \in Opportunity, NEW r \in Rec, NEW a \in Action, NEW t \in Time
  PROVE  /\ Confirmed(o, r, a, t) \in Opportunity
         /\ Confirmed(o, r, a, t).score = o.score /\ Confirmed(o, r, a, t).rec = o.rec
         /\ Confirmed(o, r, a, t).rostered = o.rostered
         /\ Confirmed(o, r, a, t).forfeited = o.forfeited
         /\ o.status # "actionable" => Confirmed(o, r, a, t) = o
         /\ \/ Confirmed(o, r, a, t) = o
            \/ Confirmed(o, r, a, t).status \in Settled /\ Confirmed(o, r, a, t).ack = a
<1>1. CASE Confirmed(o, r, a, t) = o
  BY <1>1
<1> DEFINE late == t >= Start
<1>0. late \in BOOLEAN
  OBVIOUS
<1>2. CASE o.status = "actionable" /\ o.rec = r
  <2> DEFINE status == IF a = "locked" THEN "acknowledged_locked" ELSE "acknowledged_passed"
  <2>1. Confirmed(o, r, a, t) = [o EXCEPT !.status = status, !.ack = a, !.late = late]
    BY <1>2 DEF Confirmed
  <2>2. status \in Settled
    BY DEF Settled
  <2> HIDE DEF late, status
  <2>3. QED
    BY <1>0, <1>2, <2>1, <2>2 DEF Opportunity, Status
<1>3. QED
  BY <1>1, <1>2 DEF Confirmed

\* and the owner's corrections.
LEMMA ReportedFacts ==
  ASSUME NEW o \in Opportunity, NEW a \in Correction, NEW t \in Time, NEW deadline,
         MayReport(o, a, t, deadline)
  PROVE  /\ Reported(o, a, t, deadline) \in Opportunity
         /\ Reported(o, a, t, deadline).score = o.score
         /\ Reported(o, a, t, deadline).rec = o.rec
         /\ o.status # "absent"
         /\ a = "not_locked" =>
              /\ Reported(o, a, t, deadline).status \in {"ineligible", "expired", "scheduled",
                                                         "finalizing"}
              /\ Reported(o, a, t, deadline).ack = "none"
              /\ Reported(o, a, t, deadline).rostered = o.rostered
              /\ o.status = "ineligible" => Reported(o, a, t, deadline).status = "ineligible"
              /\ Reported(o, a, t, deadline).status = "expired" => t >= deadline
              /\ Reported(o, a, t, deadline).forfeited = o.forfeited
              /\ o.ack # "none"
         /\ a \in Action =>
              /\ Reported(o, a, t, deadline).status \in Settled
              /\ Reported(o, a, t, deadline).ack = a
              /\ Reported(o, a, t, deadline).rostered = o.rostered
              /\ o.status \notin {"ineligible", "expired", "reconciliation_required"}
              /\ o.rostered = "yes" /\ o.score # NoScore
         /\ a = "not_lockable" =>
              /\ Reported(o, a, t, deadline).status = "ineligible"
              /\ Reported(o, a, t, deadline).forfeited = "yes"
              /\ Reported(o, a, t, deadline).rostered = "no"
              /\ Reported(o, a, t, deadline).ack = o.ack
         /\ a = "lockable" =>
              /\ Reported(o, a, t, deadline).status = "active"
              /\ Reported(o, a, t, deadline).rostered = "yes"
              /\ Reported(o, a, t, deadline).ack = o.ack
              /\ o.status = "ineligible"
<1> DEFINE late == t >= Start
           touched == [o EXCEPT !.late = late]
           m == Reported(o, a, t, deadline)
<1>0. touched \in Opportunity
  <2>1. late \in BOOLEAN
    OBVIOUS
  <2> HIDE DEF late
  <2>2. QED
    BY <2>1 DEF Opportunity
<1>1. /\ touched.rostered = o.rostered /\ touched.score = o.score /\ touched.rec = o.rec
      /\ touched.ack = o.ack /\ touched.forfeited = o.forfeited
  BY DEF Opportunity
<1>2. CASE a = "not_locked"
  <2> DEFINE undecided == Undecided(o, t, deadline)
  <2>0. /\ undecided \in {"ineligible", "expired", "scheduled", "finalizing"}
        /\ o.status = "ineligible" => undecided = "ineligible"
        /\ undecided = "expired" => t >= deadline
    BY DEF Undecided
  <2>1. m = [touched EXCEPT !.status = undecided, !.ack = "none"]
    BY <1>2 DEF Reported
  <2>2. o.status # "absent" /\ o.ack # "none"
    BY <1>2 DEF MayReport, Action
  <2> HIDE DEF touched, m, undecided
  <2>3. m \in Opportunity
    BY <1>0, <1>2, <2>0, <2>1, ZenonT(40) DEF Opportunity, Status, Open, Settled, Action
  <2>4. /\ m.score = o.score /\ m.rec = o.rec /\ m.rostered = o.rostered
        /\ m.forfeited = o.forfeited /\ m.status = undecided /\ m.ack = "none"
    BY <1>0, <1>1, <2>1 DEF Opportunity
  <2>5. QED
    BY <1>2, <2>0, <2>2, <2>3, <2>4 DEF m, Settled, Action
<1>3. CASE a = "locked"
  <2>1. m = [touched EXCEPT !.status = "acknowledged_locked", !.ack = "locked", !.unverified = FALSE]
    BY <1>3 DEF Reported
  <2>2. /\ o.status \notin {"absent", "ineligible", "expired", "reconciliation_required"}
        /\ o.rostered = "yes" /\ o.score # NoScore
    BY <1>3 DEF MayReport, Action
  <2> HIDE DEF touched, m
  <2>3. m \in Opportunity
    BY <1>0, <2>1 DEF Opportunity, Status, Settled, Action
  <2>4. /\ m.score = o.score /\ m.rec = o.rec /\ m.rostered = o.rostered
        /\ m.status = "acknowledged_locked" /\ m.ack = "locked"
    BY <1>0, <1>1, <2>1 DEF Opportunity
  <2>5. QED
    <3>1. a \in Action /\ a \notin {"not_locked", "not_lockable", "lockable"} /\ m.status \in Settled
      BY <1>3, <2>4 DEF Settled, Action
    <3>2. QED
      BY <1>3, <2>2, <2>3, <2>4, <3>1 DEF m
<1>4. CASE a = "passed"
  <2>1. m = [touched EXCEPT !.status = "acknowledged_passed", !.ack = "passed"]
    BY <1>4 DEF Reported
  <2>2. /\ o.status \notin {"absent", "ineligible", "expired", "reconciliation_required"}
        /\ o.rostered = "yes" /\ o.score # NoScore
    BY <1>4 DEF MayReport, Action
  <2> HIDE DEF touched, m
  <2>3. m \in Opportunity
    BY <1>0, <2>1 DEF Opportunity, Status, Settled, Action
  <2>4. /\ m.score = o.score /\ m.rec = o.rec /\ m.rostered = o.rostered
        /\ m.status = "acknowledged_passed" /\ m.ack = "passed"
    BY <1>0, <1>1, <2>1 DEF Opportunity
  <2>5. QED
    <3>1. a \in Action /\ a \notin {"not_locked", "not_lockable", "lockable"} /\ m.status \in Settled
      BY <1>4, <2>4 DEF Settled, Action
    <3>2. QED
      BY <1>4, <2>2, <2>3, <2>4, <3>1 DEF m
<1>5. CASE a = "not_lockable"
  <2>1. m = [touched EXCEPT !.status = "ineligible", !.rostered = "no", !.unverified = FALSE,
                            !.forfeited = "yes"]
    BY <1>5 DEF Reported
  <2>2. o.status # "absent"
    BY <1>5 DEF MayReport, Action
  <2> HIDE DEF touched, m
  <2>3. m \in Opportunity
    BY <1>0, <1>5, <2>1, ZenonT(40) DEF Opportunity, Status, Open, Settled, Action
  <2>4. /\ m.score = o.score /\ m.rec = o.rec /\ m.status = "ineligible"
        /\ m.forfeited = "yes" /\ m.rostered = "no" /\ m.ack = o.ack
    BY <1>0, <1>1, <2>1 DEF Opportunity
  <2>5. QED
    BY <1>5, <2>2, <2>3, <2>4 DEF m, Settled, Action
<1>6. CASE a = "lockable"
  <2>1. m = [touched EXCEPT !.status = "active", !.rostered = "yes", !.unverified = TRUE,
                            !.forfeited = "no"]
    BY <1>6 DEF Reported
  <2>2. o.status = "ineligible"
    BY <1>6 DEF MayReport, Action
  <2> HIDE DEF touched, m
  <2>3. m \in Opportunity
    BY <1>0, <1>6, <2>1 DEF Opportunity, Status, Open, Settled, Action
  <2>4. /\ m.score = o.score /\ m.rec = o.rec /\ m.status = "active"
        /\ m.rostered = "yes" /\ m.ack = o.ack
    BY <1>0, <1>1, <2>1 DEF Opportunity
  <2>5. QED
    BY <1>6, <2>2, <2>3, <2>4 DEF m, Settled, Action
<1>7. QED
  BY <1>2, <1>3, <1>4, <1>5, <1>6 DEF Correction, Action

\* The read after tipoff makes the player a starter.
LEMMA TipoffFacts ==
  ASSUME NEW o \in Opportunity
  PROVE  /\ AfterTipoff(o) \in Opportunity
         /\ AfterTipoff(o).status = "active" /\ AfterTipoff(o).ack = o.ack
         /\ AfterTipoff(o).score = o.score /\ AfterTipoff(o).rec = o.rec
         /\ AfterTipoff(o).rostered = "yes"
  BY DEF AfterTipoff, Opportunity, Status, Open

-----------------------------------------------------------------------------
(* What each step makes of the planner's run *)

\* Facts about the choices and records the run is made of.
LEMMA FirstIn ==
  ASSUME NEW S, S # {}
  PROVE  First(S) \in S
  BY DEF First

\* Nothing of a plan is left in a run.
AtRest(r) ==
  /\ r.mode = "prepare" /\ r.made = {} /\ r.todo = {} /\ r.fresh = {} /\ r.version = FALSE
  /\ r.old = {} /\ r.child = NoRec

\* A step leaves the plan in preparation alone.
PlanKept ==
  /\ run'.mode = run.mode /\ run'.made = run.made /\ run'.version = run.version
  /\ run'.old = run.old /\ run'.child = run.child

\* The planner at rest is well formed.
LEMMA RestingRun == Resting \in Run /\ AtRest(Resting) /\ Resting.stage = "idle"
<1>1. 0 \in Time
  BY OpportunityAssumption DEF Time
<1>2. NothingSeen \in [game : GameState, spot : [Player -> Spot], snapshot : Time,
                       changed : BOOLEAN]
  BY <1>1 DEF NothingSeen, GameState, Spot
<1>3. Resting \in Run
  BY <1>1, <1>2 DEF Resting, Run, Stage
<1>4. QED
  BY <1>3 DEF Resting, AtRest

\* A plan that is done leads to the end of a poll, to a collection, or to rest.
LEMMA SettledRun ==
  ASSUME run \in Run
  PROVE  /\ Settle(Planned) \in Run /\ AtRest(Settle(Planned))
         /\ Settle(Planned).stage \in {"idle", "check", "collect"}
<1>1. ASSUME NEW stage \in Stage, NEW no \in BOOLEAN
      PROVE  [run EXCEPT !.stage = stage, !.planning = no, !.mode = "prepare", !.version = no,
                         !.old = {}, !.child = NoRec, !.made = {}, !.cur = NoPlayer,
                         !.fresh = {}, !.starters = {}, !.stable = {}, !.todo = {}] \in Run
  BY DEF Run
<1>2. Planned \in Run
  BY <1>1 DEF Planned, Stage
<1>3. AtRest(Planned) /\ Planned.stage \in {"idle", "check", "collect"}
  BY DEF Planned, Run, AtRest
<1>4. QED
  BY <1>2, <1>3, RestingRun DEF Settle

\* A wake starts a run, or nothing.
LEMMA WakeRun ==
  ASSUME now \in Time, NEW planning \in BOOLEAN, Wake(planning)
  PROVE  run.stage = "idle" /\ run' \in Run /\ run'.stage \in {"idle", "collect"} /\ AtRest(run')
<1> DEFINE due == {k \in Work : poll[k] = "waiting" /\ now < until[k]
                                  /\ (k = Watch => PollFrom <= now)}
           busy == planning \/ due # {}
           stage == IF busy THEN "collect" ELSE "idle"
           at == IF busy THEN now ELSE 0
<1>1. /\ run.stage = "idle"
      /\ run' = [Resting EXCEPT !.stage = stage, !.planning = planning, !.at = at,
                                !.claimed = due]
  BY DEF Wake, Woken
<1>2. /\ stage \in Stage /\ at \in Time /\ due \in SUBSET Work
      /\ stage \in {"idle", "collect"}
  BY OpportunityAssumption DEF Stage, Time
<1> HIDE DEF stage, at, due
<1>3. run' \in Run
  BY <1>1, <1>2, RestingRun DEF Run
<1>4. run'.stage = stage /\ AtRest(run')
  BY <1>1, RestingRun DEF Run, AtRest
<1>5. QED
  BY <1>1, <1>2, <1>3, <1>4

\* A collection puts every player on the list to merge.
LEMMA CollectRun ==
  ASSUME run \in Run, now \in Time, Collect
  PROVE  /\ run' \in Run /\ run.stage = "collect" /\ run'.stage = "sync" /\ run'.todo = Player
         /\ run'.seen.snapshot \in {now - 1, now} /\ PlanKept
         /\ run'.cur = run.cur /\ run'.fresh = run.fresh
<1> DEFINE seen == run'.seen
           starters == run'.starters
<1>1. PICK game \in Games, spot \in [Player -> Spots], snapshot \in {now - 1, now} \cap Time,
           changed \in Reconfigured :
        seen = [game |-> game, spot |-> spot, snapshot |-> snapshot, changed |-> changed]
  BY DEF Collect, Run
<1>2. /\ seen \in [game : GameState, spot : [Player -> Spot], snapshot : Time, changed : BOOLEAN]
      /\ seen.snapshot \in {now - 1, now}
  BY <1>1, LockInAssumption
<1>3. /\ run' = [run EXCEPT !.stage = "sync", !.when = now, !.todo = Player, !.seen = seen,
                            !.starters = starters]
      /\ starters \in SUBSET Player
  BY DEF Collect, Run
<1> HIDE DEF seen, starters
<1>4. run' \in Run
  BY <1>2, <1>3 DEF Run, Stage
<1>5. /\ run'.stage = "sync" /\ run'.todo = Player
      /\ PlanKept /\ run'.cur = run.cur /\ run'.fresh = run.fresh
  BY <1>3 DEF Run, PlanKept
<1>6. QED
  BY <1>2, <1>4, <1>5 DEF Collect, seen

\* Each of them is inserted and done, or read and merged next.
LEMMA InsertOrReadRun ==
  ASSUME run \in Run, InsertOrRead
  PROVE  /\ run' \in Run /\ run.stage = "sync" /\ run.todo # {} /\ PlanKept
         /\ run'.seen = run.seen
         /\ First(run.todo) \in run.todo
         /\ row[First(run.todo)].status = "absent" =>
              /\ run'.stage = "sync" /\ run'.todo = run.todo \ {First(run.todo)}
              /\ run'.cur = run.cur /\ run'.fresh = run.fresh
         /\ row[First(run.todo)].status # "absent" =>
              /\ run'.stage = "merge" /\ run'.todo = run.todo
              /\ run'.cur = First(run.todo) /\ run'.fresh = {First(run.todo)}
<1> DEFINE p == First(run.todo)
           todo == run.todo \ {p}
<1>1. run.stage = "sync" /\ p \in run.todo
  BY FirstIn DEF InsertOrRead
<1>2. p \in Player /\ todo \in SUBSET Player
  BY <1>1 DEF Run
<1>3. CASE row[p].status = "absent"
  <2>1. run' = [run EXCEPT !.todo = todo]
    BY <1>3 DEF InsertOrRead
  <2> HIDE DEF p, todo
  <2>2. run' \in Run /\ PlanKept /\ run'.seen = run.seen /\ run'.stage = run.stage
         /\ run'.todo = todo /\ run'.cur = run.cur /\ run'.fresh = run.fresh
    BY <1>2, <2>1 DEF Run, PlanKept
  <2>3. QED
    BY <1>1, <1>3, <2>2 DEF p, todo
<1>4. CASE row[p].status # "absent"
  <2>1. run' = [run EXCEPT !.stage = "merge", !.cur = p, !.fresh = {p}]
    BY <1>4 DEF InsertOrRead
  <2> HIDE DEF p
  <2>2. run' \in Run /\ PlanKept /\ run'.seen = run.seen /\ run'.stage = "merge"
         /\ run'.todo = run.todo /\ run'.cur = p /\ run'.fresh = {p}
    BY <1>2, <2>1 DEF Run, PlanKept, Stage
  <2>3. QED
    BY <1>1, <1>4, <2>2 DEF p
<1>5. QED
  BY <1>3, <1>4

\* What is merged is done.
LEMMA MergeRowRun ==
  ASSUME run \in Run, MergeRow
  PROVE  /\ run' \in Run /\ run.stage = "merge" /\ run'.stage = "sync" /\ PlanKept
         /\ run'.seen = run.seen /\ run'.todo = run.todo \ {run.cur} /\ run'.fresh = {}
  BY DEF MergeRow, Run, PlanKept, Stage

\* The snapshot is forgotten before scores are refreshed or polled.
LEMMA SyncWatchRun ==
  ASSUME run \in Run, SyncWatch
  PROVE  /\ run' \in Run /\ run.stage = "sync" /\ run.todo = {} /\ PlanKept
         /\ run'.stage \in {"refresh", "poll"}
         /\ run'.todo = {} /\ run'.fresh = run.fresh
<1>1. NothingSeen \in [game : GameState, spot : [Player -> Spot], snapshot : Time,
                       changed : BOOLEAN]
  BY OpportunityAssumption DEF NothingSeen, GameState, Spot, Time
<1>2. QED
  BY <1>1, ZenonT(40) DEF SyncWatch, Run, PlanKept, Stage

\* Refreshing only moves on to the plan.
LEMMA RefreshScoresRun ==
  ASSUME run \in Run, RefreshScores
  PROVE  /\ run' \in Run /\ run.stage = "refresh" /\ run'.stage = "plan" /\ PlanKept
         /\ run'.todo = run.todo /\ run'.fresh = run.fresh
  BY DEF RefreshScores, Run, PlanKept, Stage

\* What is listed as due is fresh.
LEMMA ListDueRun ==
  ASSUME run \in Run, ListDue
  PROVE  /\ run' \in Run /\ run.stage = "poll" /\ run'.stage \in {"check", "fetch"} /\ PlanKept
         /\ run'.fresh = run'.todo /\ run'.todo \subseteq {p \in Player : IsOpen(p)}
<1>1. PICK due \in SUBSET {p \in Player : IsOpen(p) /\ run.when < Deadline[p]} :
        run' = [run EXCEPT !.stage = IF due = {} THEN "check" ELSE "fetch",
                           !.todo = due, !.fresh = due]
  BY DEF ListDue
<1> DEFINE stage == IF due = {} THEN "check" ELSE "fetch"
<1>2. stage \in Stage /\ stage \in {"check", "fetch"} /\ due \in SUBSET Player
  BY DEF Stage
<1>3. run' = [run EXCEPT !.stage = stage, !.todo = due, !.fresh = due]
  BY <1>1
<1> HIDE DEF stage
<1>4. run' \in Run /\ run'.stage = stage /\ PlanKept /\ run'.fresh = due /\ run'.todo = due
  BY <1>2, <1>3 DEF Run, PlanKept
<1>5. QED
  BY <1>2, <1>4 DEF ListDue

\* Rows that expire leave the list and are no longer fresh.
LEMMA FetchRun ==
  ASSUME run \in Run, Fetch
  PROVE  /\ run' \in Run /\ run.stage = "fetch" /\ run'.stage \in {"check", "record"} /\ PlanKept
         /\ run'.todo = run.todo \ {p \in Player : Deadline[p] <= now}
         /\ run'.fresh \subseteq run.fresh
<1> DEFINE late == {p \in Player : Deadline[p] <= now}
           todo == run.todo \ late
           fresh == run.fresh \ late
           stage == IF todo = {} THEN "check" ELSE "record"
<1>1. /\ todo \in SUBSET Player /\ fresh \in SUBSET Player /\ fresh \subseteq run.fresh
      /\ stage \in Stage /\ stage \in {"check", "record"}
  BY DEF Run, Stage
<1>2. CASE run.todo \cap late = {}
  <2>1. run' = [run EXCEPT !.stage = "record"]
    BY <1>2 DEF Fetch
  <2>2. run.todo = todo
    BY <1>2
  <2>3. QED
    BY <2>1, <2>2 DEF Run, PlanKept, Stage, Fetch
<1>3. CASE run.todo \cap late # {}
  <2>1. run' = [run EXCEPT !.stage = stage, !.todo = todo, !.fresh = fresh]
    BY <1>3 DEF Fetch
  <2> HIDE DEF todo, fresh, stage
  <2>2. run' \in Run /\ run'.stage = stage /\ PlanKept /\ run'.fresh = fresh /\ run'.todo = todo
    BY <1>1, <2>1 DEF Run, PlanKept
  <2>3. QED
    BY <1>1, <2>2 DEF Fetch, todo
<1>4. QED
  BY <1>2, <1>3

\* The poll ends, or goes on to the plan with the rows it observed.
LEMMA PollRowsRun ==
  ASSUME run \in Run, PollRows
  PROVE  /\ run' \in Run /\ run.stage = "record" /\ run'.stage \in {"check", "plan"} /\ PlanKept
         /\ run'.todo = {} /\ run'.fresh = {}
<1> DEFINE held == run.todo \cap run.fresh
           stage == IF held = {} THEN "check" ELSE "plan"
<1>1. /\ held \in SUBSET Player /\ stage \in Stage /\ stage \in {"check", "plan"}
  BY DEF Run, Stage
<1>2. \/ run' = [run EXCEPT !.stage = "check", !.todo = {}, !.fresh = {}]
      \/ run' = [run EXCEPT !.stage = stage, !.todo = {}, !.fresh = {}, !.stable = held]
  BY DEF PollRows
<1>3. CASE run' = [run EXCEPT !.stage = "check", !.todo = {}, !.fresh = {}]
  BY <1>3 DEF Run, PlanKept, Stage, PollRows
<1>4. CASE run' = [run EXCEPT !.stage = stage, !.todo = {}, !.fresh = {}, !.stable = held]
  <2> HIDE DEF held, stage
  <2>1. run' \in Run /\ run'.stage = stage /\ PlanKept /\ run'.todo = {} /\ run'.fresh = {}
    BY <1>1, <1>4 DEF Run, PlanKept
  <2>2. QED
    BY <1>1, <2>1 DEF PollRows
<1>5. QED
  BY <1>2, <1>3, <1>4

\* The targets of kept advice are restored.
LEMMA KeepAdviceRun ==
  ASSUME run \in Run, advice.targets \in SUBSET Rec, KeepAdvice
  PROVE  /\ run' \in Run /\ run.stage = "plan" /\ run'.stage = "restore" /\ run'.mode = "restore"
         /\ run'.made = advice.targets /\ run'.child = run.child
<1>1. run' = [run EXCEPT !.stage = "restore", !.mode = "restore", !.made = advice.targets]
  BY DEF KeepAdvice
<1>2. QED
  BY <1>1, ZenonT(40) DEF Run, Stage, KeepAdvice

\* The chosen players are to be advised under the version just read.
LEMMA ChoosePlanRun ==
  ASSUME run \in Run, ChoosePlan
  PROVE  /\ run' \in Run /\ run.stage = "plan" /\ run'.stage = "confirm"
         /\ run'.todo \subseteq {p \in Player : Usable(p)}
         /\ run'.mode = run.mode /\ run'.made = run.made /\ run'.child = run.child
<1>1. PICK choice \in SUBSET {p \in Player : Usable(p)} :
        run' = [run EXCEPT !.stage = "confirm", !.version = TRUE, !.todo = choice, !.when = 0,
                           !.starters = {}, !.stable = {}]
  BY DEF ChoosePlan
<1>2. choice \in SUBSET Player
  OBVIOUS
<1>3. 0 \in Time
  BY OpportunityAssumption DEF Time
<1>4. ASSUME NEW version \in BOOLEAN
      PROVE  [run EXCEPT !.stage = "confirm", !.version = version, !.todo = choice, !.when = 0,
                         !.starters = {}, !.stable = {}] \in Run
  BY <1>2, <1>3 DEF Run, Stage
<1>5. run' \in Run
  BY <1>1, <1>4
<1>6. /\ run'.stage = "confirm" /\ run'.todo = choice /\ run'.mode = run.mode
      /\ run'.made = run.made /\ run'.child = run.child
  BY <1>1 DEF Run
<1>7. QED
  BY <1>5, <1>6 DEF ChoosePlan

\* What waits before the children are stored may be superseded by them.
LEMMA ListPendingRun ==
  ASSUME run \in Run, ListPending
  PROVE  /\ run' \in Run /\ run.stage = "confirm" /\ run.version /\ run'.stage = "child"
         /\ run'.old = {r \in Rec : Waits(r)} /\ run'.mode = run.mode /\ run'.made = run.made
         /\ run'.version = run.version /\ run'.child = run.child /\ run'.todo = run.todo
         /\ run'.cur = run.cur /\ run'.fresh = run.fresh
<1> DEFINE old == {r \in Rec : Waits(r)}
<1>1. run' = [run EXCEPT !.stage = "child", !.old = old] /\ old \in SUBSET Rec
  BY DEF ListPending
<1> HIDE DEF old
<1>2. /\ run' \in Run /\ run'.stage = "child"
      /\ run'.old = old /\ run'.mode = run.mode /\ run'.made = run.made
      /\ run'.version = run.version /\ run'.child = run.child /\ run'.todo = run.todo
      /\ run'.cur = run.cur /\ run'.fresh = run.fresh
  BY <1>1 DEF Run, Stage
<1>3. QED
  BY <1>2 DEF ListPending, old

\* Naming the player and the recommendation of the next write changes nothing else.
LEMMA ReadsRow ==
  ASSUME run \in Run, NEW p \in Player, NEW r \in Rec \cup {NoRec},
         run' = [run EXCEPT !.stage = "read", !.cur = p, !.child = r]
  PROVE  /\ run' \in Run /\ run'.stage = "read" /\ run'.cur = p /\ run'.child = r
         /\ run'.mode = run.mode /\ run'.made = run.made /\ run'.version = run.version
         /\ run'.old = run.old /\ run'.todo = run.todo /\ run'.fresh = run.fresh
  BY DEF Run, Stage

\* The next target that waits is read again; without one the plan is done.
LEMMA NextTargetRun ==
  ASSUME run \in Run, NextTarget, \A r \in Rec : Waits(r) => rec[r].player \in Player
  PROVE  /\ run' \in Run /\ run.stage = "restore"
         /\ run.made = {} => run' = Settle(Planned)
         /\ run.made # {} =>
              /\ First(run.made) \in run.made
              /\ run'.made = run.made \ {First(run.made)} /\ run'.mode = run.mode
              /\ run'.todo = run.todo /\ run'.version = run.version /\ run'.old = run.old
              /\ Waits(First(run.made)) =>
                   /\ run'.stage = "read" /\ run'.cur = rec[First(run.made)].player
                   /\ run'.child = First(run.made)
              /\ ~Waits(First(run.made)) =>
                   /\ run'.stage = "restore" /\ run'.cur = run.cur /\ run'.child = run.child
<1> DEFINE r == First(run.made)
           made == run.made \ {r}
<1>1. CASE run.made = {}
  BY <1>1, SettledRun DEF NextTarget
<1>2. CASE run.made # {}
  <2>1. r \in run.made /\ r \in Rec /\ made \in SUBSET Rec
    BY <1>2, FirstIn DEF Run
  <2>2. CASE Waits(r)
    <3>1. run' = [run EXCEPT !.stage = "read", !.cur = rec[r].player, !.child = r, !.made = made]
      BY <1>2, <2>2 DEF NextTarget
    <3>2. rec[r].player \in Player
      BY <2>1, <2>2
    <3> DEFINE p == rec[r].player
    <3> HIDE DEF p, r, made
    <3>3. /\ run' \in Run /\ run'.made = made /\ run'.mode = run.mode
          /\ run'.todo = run.todo /\ run'.version = run.version /\ run'.old = run.old
          /\ run'.stage = "read" /\ run'.cur = p /\ run'.child = r
      BY <2>1, <3>1, <3>2 DEF Run, Stage, p
    <3>4. QED
      BY <1>2, <2>1, <2>2, <3>3 DEF NextTarget, p, r, made
  <2>3. CASE ~Waits(r)
    <3>1. run' = [run EXCEPT !.made = made]
      BY <1>2, <2>3 DEF NextTarget
    <3> HIDE DEF r, made
    <3>2. /\ run' \in Run /\ run'.made = made /\ run'.mode = run.mode
          /\ run'.todo = run.todo /\ run'.version = run.version /\ run'.old = run.old
          /\ run'.stage = run.stage /\ run'.cur = run.cur /\ run'.child = run.child
      BY <2>1, <3>1 DEF Run
    <3>3. QED
      BY <1>2, <2>1, <2>3, <3>2 DEF NextTarget, r, made
  <2>4. QED
    BY <2>2, <2>3
<1>3. QED
  BY <1>1, <1>2

\* On to the next child, target or warning.
LEMMA OnwardRun ==
  ASSUME run \in Run
  PROVE  /\ Onward \in Run
         /\ Onward.stage = IF run.mode = "prepare" THEN "child" ELSE run.mode
         /\ Onward.mode = run.mode /\ Onward.version = run.version /\ Onward.old = run.old
         /\ Onward.fresh = {}
         /\ Onward.todo = IF run.mode = "restore" THEN run.todo ELSE run.todo \ {run.cur}
         /\ Onward.made = IF run.mode = "prepare" THEN run.made \cup ({run.child} \ {NoRec})
                          ELSE run.made
         /\ run.mode # "warn" => Onward.child = NoRec
         /\ run.mode = "warn" => Onward.child = run.child
<1> DEFINE todo == run.todo \ {run.cur}
           made == run.made \cup ({run.child} \ {NoRec})
<1>1. todo \in SUBSET Player /\ made \in SUBSET Rec
  BY DEF Run
<1>2. CASE run.mode = "prepare"
  <2>1. Onward = [run EXCEPT !.stage = "child", !.todo = todo, !.made = made,
                             !.cur = NoPlayer, !.child = NoRec, !.fresh = {}]
    BY <1>2 DEF Onward
  <2> HIDE DEF todo, made
  <2>2. /\ Onward \in Run /\ Onward.stage = "child" /\ Onward.mode = run.mode
        /\ Onward.version = run.version /\ Onward.old = run.old /\ Onward.fresh = {}
        /\ Onward.todo = todo /\ Onward.made = made /\ Onward.child = NoRec
    BY <1>1, <2>1 DEF Run, Stage
  <2>3. QED
    BY <1>2, <2>2 DEF todo, made
<1>3. CASE run.mode = "restore"
  <2>1. Onward = [run EXCEPT !.stage = "restore", !.cur = NoPlayer, !.child = NoRec, !.fresh = {}]
    BY <1>3 DEF Onward
  <2>2. QED
    BY <1>3, <2>1 DEF Run, Stage
<1>4. CASE run.mode = "warn"
  <2>1. Onward = [run EXCEPT !.stage = "warn", !.todo = todo, !.cur = NoPlayer, !.fresh = {}]
    BY <1>4 DEF Onward
  <2> HIDE DEF todo, made
  <2>2. /\ Onward \in Run /\ Onward.stage = "warn" /\ Onward.mode = run.mode
        /\ Onward.version = run.version /\ Onward.old = run.old /\ Onward.fresh = {}
        /\ Onward.todo = todo /\ Onward.made = run.made /\ Onward.child = run.child
    BY <1>1, <2>1 DEF Run, Stage
  <2>3. QED
    BY <1>4, <2>2 DEF todo, made
<1>5. QED
  BY <1>2, <1>3, <1>4 DEF Run

\* A row that may be written is fresh; any other is passed over.
LEMMA ReadRowRun ==
  ASSUME run \in Run, run.cur \in Player, ReadRow
  PROVE  /\ run' \in Run /\ run.stage = "read"
         /\ \/ run' = Onward
            \/ /\ run.mode = "warn" \/ Offerable(row[run.cur])
               /\ run'.stage = "write" /\ run'.fresh = {run.cur} /\ run'.cur = run.cur
               /\ run'.todo = run.todo /\ PlanKept
<1>1. CASE run' = Onward
  BY <1>1, OnwardRun DEF ReadRow
<1>2. CASE run' # Onward
  <2>1. run' = [run EXCEPT !.stage = "write", !.fresh = {run.cur}]
    BY <1>2 DEF ReadRow
  <2>2. /\ run' \in Run /\ run'.stage = "write" /\ run'.fresh = {run.cur} /\ run'.cur = run.cur
        /\ run'.todo = run.todo /\ PlanKept
    BY <2>1 DEF Run, Stage, PlanKept
  <2>3. QED
    BY <1>2, <2>2 DEF ReadRow
<1>3. QED
  BY <1>1, <1>2

\* The sweep leaves the children that were made.
LEMMA SweepOldRun ==
  ASSUME run \in Run, SweepOld
  PROVE  /\ run' \in Run /\ run.stage = "child" /\ run'.stage = "publish" /\ run'.mode = run.mode
         /\ run'.made = run.made /\ run'.version = run.version /\ run'.todo = run.todo
         /\ run.todo = {} /\ run'.child = run.child
  BY DEF SweepOld, Run, Stage

\* A blocked plan warns of the rows the poll observed.
LEMMA BlockRun ==
  ASSUME run \in Run, Block
  PROVE  /\ run' \in Run /\ run.stage = "plan" /\ run'.stage = "warn" /\ run'.mode = "warn"
         /\ run'.made = run.made /\ run'.todo = run.stable /\ run'.child = run.child
  BY DEF Block, Run, Stage

\* Warnings take one row after the other.
LEMMA WarnRowRun ==
  ASSUME run \in Run, WarnRow
  PROVE  /\ run' \in Run /\ run.stage = "warn"
         /\ run.todo = {} => run' = Settle(Planned)
         /\ run.todo # {} =>
              /\ First(run.todo) \in run.todo
              /\ run'.stage = "read" /\ run'.cur = First(run.todo) /\ run'.mode = run.mode
              /\ run'.made = run.made /\ run'.todo = run.todo /\ run'.version = run.version
              /\ run'.child = run.child
<1>1. CASE run.todo = {}
  BY <1>1, SettledRun DEF WarnRow
<1>2. CASE run.todo # {}
  <2> DEFINE p == First(run.todo)
  <2>1. p \in run.todo /\ p \in Player
    BY <1>2, FirstIn DEF Run
  <2>2. run' = [run EXCEPT !.stage = "read", !.cur = p]
    BY <1>2 DEF WarnRow
  <2> HIDE DEF p
  <2>3. /\ run' \in Run /\ run'.stage = "read" /\ run'.cur = p /\ run'.mode = run.mode
        /\ run'.made = run.made /\ run'.todo = run.todo /\ run'.version = run.version
        /\ run'.child = run.child
    BY <2>1, <2>2 DEF Run, Stage
  <2>4. QED
    BY <1>2, <2>1, <2>3 DEF p, WarnRow
<1>3. QED
  BY <1>1, <1>2

\* At the end of a poll the claimed rows are looked at,
LEMMA CheckOpenRun ==
  ASSUME run \in Run, CheckOpen
  PROVE  /\ run' \in Run /\ run.stage = "check"
         /\ run' = Resting \/ (run'.stage = "finish" /\ PlanKept /\ run'.todo = run.todo
                               /\ run'.fresh = run.fresh)
<1> DEFINE retry == HasOpen(run.at)
<1>1. retry \in BOOLEAN
  BY DEF HasOpen
<1>2. run' = Resting \/ run' = [run EXCEPT !.stage = "finish", !.retry = retry]
  BY DEF CheckOpen
<1>3. CASE run' = Resting
  BY <1>3, RestingRun DEF CheckOpen
<1>4. CASE run' = [run EXCEPT !.stage = "finish", !.retry = retry]
  <2> HIDE DEF retry
  <2>1. QED
    BY <1>1, <1>4, ZenonT(40) DEF Run, Stage, PlanKept, CheckOpen
<1>5. QED
  BY <1>2, <1>3, <1>4

\* and finished one by one.
LEMMA FinishPollRun ==
  ASSUME run \in Run, FinishPoll
  PROVE  /\ run' \in Run /\ run.stage = "finish" /\ run'.stage = "check" /\ PlanKept
         /\ run'.todo = run.todo /\ run'.fresh = run.fresh
<1>1. PICK k \in run.claimed :
        run' = [run EXCEPT !.stage = "check", !.claimed = @ \ {k}, !.retry = FALSE]
  BY DEF FinishPoll
<1> DEFINE claimed == run.claimed \ {k}
<1>2. claimed \in SUBSET Work
  BY DEF Run
<1>3. ASSUME NEW retry \in BOOLEAN
      PROVE  [run EXCEPT !.stage = "check", !.claimed = claimed, !.retry = retry] \in Run
  <2> HIDE DEF claimed
  <2>1. QED
    BY <1>2 DEF Run, Stage
<1>4. run' \in Run
  BY <1>1, <1>3
<1>5. /\ run'.stage = "check" /\ PlanKept /\ run'.todo = run.todo /\ run'.fresh = run.fresh
  BY <1>1 DEF Run, PlanKept
<1>6. QED
  BY <1>4, <1>5 DEF FinishPoll

\* A decision recorded meanwhile only withdraws the run's hold on rows and version.
LEMMA ObsoleteRun ==
  ASSUME run \in Run, NEW players
  PROVE  /\ Obsolete(players) \in Run
         /\ Obsolete(players).fresh = run.fresh \ players /\ ~Obsolete(players).version
         /\ Obsolete(players).stage = run.stage /\ Obsolete(players).mode = run.mode
         /\ Obsolete(players).made = run.made /\ Obsolete(players).todo = run.todo
         /\ Obsolete(players).old = run.old /\ Obsolete(players).child = run.child
         /\ Obsolete(players).cur = run.cur /\ Obsolete(players).seen = run.seen
<1> DEFINE fresh == run.fresh \ players
<1>1. fresh \in SUBSET Player
  BY DEF Run
<1>2. ASSUME NEW version \in BOOLEAN
      PROVE  [run EXCEPT !.fresh = fresh, !.version = version] \in Run
  <2> HIDE DEF fresh
  <2>1. QED
    BY <1>1 DEF Run
<1>3. Obsolete(players) = [run EXCEPT !.fresh = fresh, !.version = FALSE]
  BY DEF Obsolete
<1>4. Obsolete(players) \in Run
  BY <1>2, <1>3
<1>5. QED
  BY <1>3, <1>4 DEF Run

-----------------------------------------------------------------------------
(* Types *)

\* Every watch has a last deadline to keep to.
LEMMA LastDeadline ==
  ASSUME NEW D \in SUBSET Time, D # {}
  PROVE  (CHOOSE d \in D : \A e \in D : e <= d) \in D
<1> DEFINE Before == {LastTime - d : d \in D}
           Less == OpToRel(<, Nat)
<1>1. Before \subseteq Nat /\ Before # {}
  <2>1. \A d \in D : LastTime - d \in Nat
    BY OpportunityAssumption DEF Time
  <2>2. QED
    BY <2>1
<1>2. PICK b \in Before : \A x \in Before : <<x, b>> \notin Less
  <2>1. IsWellFoundedOn(Less, Nat)
    BY NatLessThanWellFounded
  <2> HIDE DEF Before, Less
  <2>2. QED
    BY <1>1, <2>1, WFMin
<1>3. PICK d \in D : b = LastTime - d
  OBVIOUS
<1>4. ASSUME NEW e \in D PROVE e <= d
  <2>1. <<LastTime - e, b>> \notin Less /\ LastTime - e \in Nat /\ b \in Nat
    BY <1>1, <1>2
  <2>2. ~(LastTime - e < b)
    BY <2>1 DEF OpToRel
  <2>3. QED
    BY <1>3, <2>2, OpportunityAssumption DEF Time
<1>5. QED
  BY <1>4

RecType == [status : RecStatus, player : Player \cup {NoPlayer}, score : Score \cup {NoScore}]

\* A row is read, and a recommendation waits, for a player of the roster.
Named ==
  /\ run.stage = "read" => run.cur \in Player
  /\ \A r \in Rec : Waits(r) => rec[r].player \in Player

\* The type invariant, variable by variable.
LEMMA TypesHere ==
  TypeOK <=> /\ now \in Time /\ row \in [Player -> Opportunity] /\ rec \in [Rec -> RecType]
             /\ advice \in [live : BOOLEAN, targets : SUBSET Rec]
             /\ poll \in [Work -> PollStatus] /\ until \in [Work -> Time] /\ run \in Run
  BY DEF TypeOK, RecType

\* A recommendation that is put down waits no longer; the others are untouched.
LEMMA DroppedFacts ==
  ASSUME rec \in [Rec -> RecType], NEW recs
  PROVE  /\ Dropped(recs) \in [Rec -> RecType]
         /\ \A r \in Rec : Dropped(recs)[r].status \in {"pending", "sent"} =>
                             Waits(r) /\ r \notin recs /\ Dropped(recs)[r] = rec[r]
         /\ \A r \in Rec : Dropped(recs)[r] # rec[r] => r \in recs /\ Waits(r)
<1>1. NoRecord \in RecType /\ NoRecord.status \notin {"pending", "sent"}
  BY DEF NoRecord, RecType, RecStatus
<1> HIDE DEF NoRecord
<1>2. QED
  BY <1>1 DEF Dropped, Waits

\* The rows of the queue, and their deadlines, stay what they are.
LEMMA ReleasedTyped ==
  ASSUME poll \in [Work -> PollStatus], NEW rows
  PROVE  Released(rows) \in [Work -> PollStatus]
  BY DEF Released, PollStatus

\* So does arming the watch.
LEMMA WatchTyped ==
  ASSUME poll \in [Work -> PollStatus], until \in [Work -> Time], NEW d \in Time, UpsertWatch(d)
  PROVE  poll' \in [Work -> PollStatus] /\ until' \in [Work -> Time]
  BY DEF UpsertWatch, PollStatus

\* A deadline is a time.
LEMMA DeadlineTyped == \A p \in Player : Deadline[p] \in Time
  BY LockInAssumption, OpportunityAssumption DEF Time

\* What the run has seen makes plausible candidates.
LEMMA SeenPlausible ==
  ASSUME run \in Run, NEW p \in Player
  PROVE  /\ Plausible(CandidateFor(p))
         /\ Start <= run.seen.snapshot => /\ CandidateFor(p).evidence = NoEvidence
                                          /\ CandidateFor(p).rostered = "unknown"
  BY CandidatePlausible DEF Run, CandidateFor

\* The read before tipoff is a merge with evidence of its own.
LEMMA BeforeTyped ==
  ASSUME NEW o \in Opportunity, NEW starts, NEW t \in Time
  PROVE  /\ BeforeTipoff(o, starts, t) \in Opportunity
         /\ BeforeTipoff(o, starts, t).ack = o.ack /\ BeforeTipoff(o, starts, t).score = o.score
         /\ BeforeTipoff(o, starts, t).rec = o.rec
         /\ BeforeTipoff(o, starts, t).status \in {"actionable"} \cup Settled =>
              SavedStatus(o) \in Settled \/ BeforeTipoff(o, starts, t).status = o.status
         /\ o.ack # "none" => BeforeTipoff(o, starts, t).status \in Settled
         /\ o.ack = "none" /\ o.status = "ineligible" /\ o.forfeited = "yes" =>
              /\ BeforeTipoff(o, starts, t).status = "ineligible"
              /\ BeforeTipoff(o, starts, t).forfeited = "yes"
         /\ BeforeTipoff(o, starts, t).status # "absent"
         /\ BeforeTipoff(o, starts, t).status = "expired" => o.status = "expired"
<1> DEFINE c == [status |-> IF starts THEN "scheduled" ELSE "ineligible",
                 rostered |-> IF starts THEN "yes" ELSE "no",
                 evidence |-> t, starter |-> starts, observed |-> t]
<1>1. Plausible(c)
  BY DEF Plausible, Proposed
<1> DEFINE no == FALSE
           m == BeforeTipoff(o, starts, t)
<1>2. m = Merge(o, c, no, t)
  BY DEF BeforeTipoff
<1> HIDE DEF c, no, m
<1>3. /\ m \in Opportunity /\ m.status = MergedStatus(o, c, no) /\ m.ack = o.ack
      /\ m.score = o.score /\ m.rec = o.rec
      /\ Forfeits(o, c) => m.forfeited = "yes"
  BY <1>1, <1>2, MergeFacts
<1>4. QED
  BY <1>1, <1>3, MergedStatusFacts DEF m

\* Every step keeps the rows well formed,
LEMMA RowsTyped ==
  ASSUME TypeOK, Named, [Next]_vars
  PROVE  row' \in [Player -> Opportunity]
<1>0. row \in [Player -> Opportunity] /\ run \in Run /\ now \in Time /\ rec \in [Rec -> RecType]
  BY TypesHere
<1>1. ASSUME row' = row PROVE row' \in [Player -> Opportunity]
  BY <1>0, <1>1
<1>2. ASSUME NEW planning \in BOOLEAN, Wake(planning) PROVE row' \in [Player -> Opportunity]
  BY <1>0, <1>2, ElapsedFacts DEF Wake
<1>3. CASE InsertOrRead
  <2> DEFINE p == First(run.todo)
             new == Inserted(CandidateFor(p), run.when)
  <2>1. p \in Player
    BY <1>0, <1>3, InsertOrReadRun DEF Run
  <2>2. new \in Opportunity
    <3>1. run.when \in Time
      BY <1>0 DEF Run
    <3>2. QED
      BY <1>0, <2>1, <3>1, SeenPlausible, InsertedFacts
  <2>3. row' = row \/ row' = [row EXCEPT ![p] = new]
    BY <1>3 DEF InsertOrRead
  <2> HIDE DEF p, new
  <2>4. QED
    BY <1>0, <2>1, <2>2, <2>3
<1>4. CASE MergeRow
  <2> DEFINE new == Merge(row[run.cur], CandidateFor(run.cur), run.seen.changed, run.when)
  <2>1. run.cur \in run.fresh => new \in Opportunity
    <3>1. run.when \in Time /\ (run.cur \in run.fresh => run.cur \in Player)
      BY <1>0 DEF Run
    <3>2. QED
      BY <1>0, <3>1, SeenPlausible, MergeFacts
  <2>2. row' = row \/ (run.cur \in run.fresh /\ row' = [row EXCEPT ![run.cur] = new])
    BY <1>4 DEF MergeRow
  <2> HIDE DEF new
  <2>3. QED
    BY <1>0, <2>1, <2>2
<1>5. CASE RefreshScores
  BY <1>0, <1>5, ObservedFacts DEF RefreshScores
<1>6. CASE Fetch
  <2>1. row' = row \/ \E late : row' = [p \in Player |-> IF p \in late THEN Elapsed(row[p]) ELSE row[p]]
    BY <1>6 DEF Fetch
  <2>2. QED
    BY <1>0, <2>1, ElapsedFacts
<1>7. CASE PollRows
  <2> DEFINE held == run.todo \cap run.fresh
  <2>1. \/ \E playing \in BOOLEAN :
             row' = [p \in Player |-> IF p \in held THEN Deferred(row[p], playing) ELSE row[p]]
        \/ \E s \in Score :
             row' = [p \in Player |-> IF p \in held THEN Observed(row[p], s) ELSE row[p]]
    BY <1>7 DEF PollRows
  <2> HIDE DEF held
  <2>2. QED
    BY <1>0, <2>1, DeferredFacts, ObservedFacts
<1>8. CASE WriteRow
  <2> DEFINE o == row[run.cur]
             new == IF run.mode = "warn" THEN Warned(o) ELSE Offered(o, run.child, now)
  <2>1. row' = row \/ (run.cur \in run.fresh /\ row' = [row EXCEPT ![run.cur] = new])
    BY <1>8 DEF WriteRow
  <2>2. run.cur \in run.fresh => run.cur \in Player /\ o \in Opportunity
    BY <1>0 DEF Run
  <2>3. run.child \in Rec \cup {NoRec}
    BY <1>0 DEF Run
  <2>4. run.cur \in run.fresh => new \in Opportunity
    BY <1>0, <2>2, <2>3, WarnedFacts, OfferedFacts
  <2> HIDE DEF new
  <2>5. QED
    BY <1>0, <2>1, <2>2, <2>4
<1>9. CASE ReadBeforeTipoff
  <2>1. PICK players \in SUBSET Player, starts \in SUBSET Player :
          row' = [p \in Player |-> IF p \in players THEN BeforeTipoff(row[p], p \in starts, now)
                                   ELSE row[p]]
    BY <1>9 DEF ReadBeforeTipoff
  <2>2. \A p \in Player : BeforeTipoff(row[p], p \in starts, now) \in Opportunity
    BY <1>0, BeforeTyped
  <2>3. QED
    BY <1>0, <2>1, <2>2
<1>10. ASSUME NEW p \in Player, ReadAfterTipoff(p) PROVE row' \in [Player -> Opportunity]
  BY <1>0, <1>10, TipoffFacts DEF ReadAfterTipoff
<1>11. ASSUME NEW r \in Rec, NEW a \in Action, Acknowledge(r, a)
       PROVE  row' \in [Player -> Opportunity]
  <2>1. rec[r].player \in Player
    BY <1>11 DEF Acknowledge, Named, Waits
  <2>2. Confirmed(row[rec[r].player], r, a, now) \in Opportunity
    BY <1>0, <2>1, ConfirmedFacts
  <2>3. row' = [row EXCEPT ![rec[r].player] = Confirmed(row[rec[r].player], r, a, now)]
    BY <1>11 DEF Acknowledge
  <2>4. QED
    BY <1>0, <2>1, <2>2, <2>3
<1>12. ASSUME NEW p \in Player, NEW a \in Correction, Correct(p, a)
       PROVE  row' \in [Player -> Opportunity]
  BY <1>0, <1>12, ReportedFacts DEF Correct, Corrected
<1>13. CASE Collect \/ SyncWatch \/ ListDue \/ KeepAdvice \/ ChoosePlan \/ Discard \/ ListPending
            \/ CreateChild \/ NextTarget \/ ReadRow \/ SweepOld \/ Publish \/ Block \/ WarnRow
            \/ CheckOpen \/ FinishPoll \/ Fail \/ Tick \/ UNCHANGED vars
  BY <1>1, <1>13 DEF Collect, SyncWatch, ListDue, KeepAdvice, ChoosePlan, Discard, ListPending,
    CreateChild, NextTarget, ReadRow, SweepOld, Publish, Block, WarnRow, CheckOpen, FinishPoll,
    Fail, Tick, vars
<1>14. QED
  BY <1>2, <1>3, <1>4, <1>5, <1>6, <1>7, <1>8, <1>9, <1>10, <1>11, <1>12, <1>13
     DEF Next, Planner

\* How each step changes the recommendations: it puts some down, confirms or sends some, or
\* stores one.
Stored(p, r, recs) ==
  rec' = [Dropped(recs) EXCEPT ![r] = [status |-> "pending", player |-> p, score |-> row[p].score]]

\* (a child is an earlier recommendation, a new one, or none)
LEMMA CreateChildCases ==
  ASSUME run \in Run, CreateChild
  PROVE  LET p == First(run.todo)
         IN /\ p \in run.todo /\ p \in Player
            /\ \/ \E r \in Rec : /\ Waits(r) /\ rec[r].player = p /\ rec[r].score = row[p].score
                                 /\ rec' = Dropped({q \in run.old \ {r} : rec[q].player = p})
                                 /\ run' = [run EXCEPT !.stage = "read", !.cur = p, !.child = r]
               \/ \E r \in Free : /\ run.version
                                  /\ Stored(p, r, {q \in run.old : rec[q].player = p})
                                  /\ run' = [run EXCEPT !.stage = "read", !.cur = p, !.child = r]
               \/ /\ ~run.version
                  /\ rec' = Dropped({q \in run.old : rec[q].player = p})
                  /\ run' = [run EXCEPT !.stage = "read", !.cur = p, !.child = NoRec]
<1>1. First(run.todo) \in run.todo /\ First(run.todo) \in Player
  BY FirstIn DEF CreateChild, Run
<1>2. QED
  BY <1>1 DEF CreateChild, Stored

\* (and is stored as the recommendation of its player)
LEMMA StoredFacts ==
  ASSUME rec \in [Rec -> RecType], row \in [Player -> Opportunity],
         NEW p \in Player, NEW r \in Rec, NEW recs, Stored(p, r, recs)
  PROVE  /\ rec' \in [Rec -> RecType]
         /\ rec'[r].status = "pending" /\ rec'[r].player = p /\ rec'[r].score = row[p].score
         /\ \A q \in Rec \ {r} : rec'[q] = Dropped(recs)[q]
<1> DEFINE new == [status |-> "pending", player |-> p, score |-> row[p].score]
<1>1. new \in RecType /\ new.status = "pending" /\ new.player = p /\ new.score = row[p].score
  <2>1. row[p].score \in Score \cup {NoScore}
    BY DEF Opportunity
  <2>2. QED
    BY <2>1 DEF RecType, RecStatus
<1>2. rec' = [Dropped(recs) EXCEPT ![r] = new]
  BY DEF Stored
<1> HIDE DEF new
<1>3. QED
  BY <1>1, <1>2, DroppedFacts

\* the recommendations,
LEMMA RecsTyped ==
  ASSUME TypeOK, Named, [Next]_vars
  PROVE  /\ rec' \in [Rec -> RecType]
         /\ \A r \in Rec : Waits(r)' => rec'[r].player \in Player
<1> DEFINE Fine == /\ rec' \in [Rec -> RecType]
                   /\ \A r \in Rec : Waits(r)' => rec'[r].player \in Player
<1>0. row \in [Player -> Opportunity] /\ run \in Run /\ rec \in [Rec -> RecType]
  BY TypesHere
<1>t. \A r \in Rec : Waits(r) => rec[r].player \in Player
  BY DEF Named
<1>1. ASSUME rec' = rec PROVE Fine
  BY <1>0, <1>1, <1>t DEF Waits
<1>2. ASSUME NEW recs, rec' = Dropped(recs) PROVE Fine
  BY <1>0, <1>2, <1>t, DroppedFacts DEF Waits
<1>3. CASE PollRows \/ ChoosePlan \/ SweepOld \/ WarnRow
  <2>1. rec' = rec \/ \E recs : rec' = Dropped(recs)
    BY <1>3 DEF PollRows, ChoosePlan, SweepOld, WarnRow
  <2>2. QED
    BY <1>1, <1>2, <2>1
<1>4. CASE CreateChild
  <2> DEFINE p == First(run.todo)
  <2>1. p \in Player
    BY <1>0, <1>4, CreateChildCases
  <2>2. \/ \E recs : rec' = Dropped(recs)
        \/ \E r \in Rec : \E recs : Stored(p, r, recs)
    BY <1>0, <1>4, CreateChildCases DEF Free
  <2> HIDE DEF p
  <2>3. ASSUME NEW r \in Rec, NEW recs, Stored(p, r, recs) PROVE Fine
    <3>1. /\ rec' \in [Rec -> RecType] /\ rec'[r].player = p
          /\ \A q \in Rec \ {r} : rec'[q] = Dropped(recs)[q]
      BY <1>0, <2>1, <2>3, StoredFacts
    <3>2. ASSUME NEW q \in Rec \ {r}, rec'[q].status \in {"pending", "sent"}
          PROVE  rec'[q].player \in Player
      BY <1>0, <1>t, <3>1, <3>2, DroppedFacts
    <3>3. QED
      BY <2>1, <3>1, <3>2 DEF Waits
  <2>4. QED
    BY <1>2, <2>2, <2>3
<1>5. CASE Publish
  <2>1. CASE rec' = [r \in Rec |-> IF r \in run.made /\ Waits(r)
                                   THEN [rec[r] EXCEPT !.status = "sent"] ELSE rec[r]]
    <3>1. \A r \in Rec : [rec[r] EXCEPT !.status = "sent"] \in RecType
                         /\ [rec[r] EXCEPT !.status = "sent"].player = rec[r].player
      BY <1>0 DEF RecType, RecStatus
    <3>2. QED
      BY <1>0, <1>t, <2>1, <3>1 DEF Waits
  <2>2. CASE rec' = rec
    BY <1>1, <2>2
  <2>3. QED
    BY <1>5, <2>1, <2>2 DEF Publish
<1>6. ASSUME NEW r \in Rec, NEW a \in Action, Acknowledge(r, a) PROVE Fine
  <2>1. rec' = [rec EXCEPT ![r].status = "acknowledged"]
    BY <1>6 DEF Acknowledge
  <2>2. rec' \in [Rec -> RecType] /\ \A q \in Rec : Waits(q)' => Waits(q) /\ rec'[q] = rec[q]
    BY <1>0, <2>1 DEF RecType, RecStatus, Waits
  <2>3. QED
    BY <1>t, <2>2
<1>7. ASSUME NEW p \in Player, NEW a \in Correction, Correct(p, a) PROVE Fine
  <2>1. rec' = [r \in Rec |-> IF rec[r].player = p THEN NoRecord ELSE rec[r]]
    BY <1>7 DEF Correct, Corrected
  <2>2. NoRecord \in RecType /\ NoRecord.status \notin {"pending", "sent"}
    BY DEF NoRecord, RecType, RecStatus
  <2>3. QED
    BY <1>0, <1>t, <2>1, <2>2 DEF Waits
<1>8. ASSUME NEW planning \in BOOLEAN, Wake(planning) PROVE Fine
  BY <1>1, <1>8 DEF Wake, Woken
<1>9. ASSUME NEW p \in Player, ReadAfterTipoff(p) PROVE Fine
  BY <1>1, <1>9 DEF ReadAfterTipoff
<1>10. CASE Collect \/ InsertOrRead \/ MergeRow \/ SyncWatch \/ RefreshScores \/ ListDue \/ Fetch
            \/ KeepAdvice \/ Discard \/ ListPending \/ NextTarget \/ ReadRow \/ WriteRow \/ Block
            \/ CheckOpen \/ FinishPoll \/ Fail \/ ReadBeforeTipoff \/ Tick \/ UNCHANGED vars
  BY <1>1, <1>10 DEF Collect, InsertOrRead, MergeRow, SyncWatch, RefreshScores, ListDue, Fetch,
    KeepAdvice, Discard, ListPending, NextTarget, ReadRow, WriteRow, Block, CheckOpen, FinishPoll,
    Fail, ReadBeforeTipoff, Tick, vars
<1>11. QED
  BY <1>3, <1>4, <1>5, <1>6, <1>7, <1>8, <1>9, <1>10 DEF Next, Planner

\* the run,
LEMMA RunsTyped ==
  ASSUME TypeOK, Named, [Next]_vars
  PROVE  run' \in Run /\ (run'.stage = "read" => run'.cur \in Player)
<1> DEFINE Fine == run' \in Run /\ (run'.stage = "read" => run'.cur \in Player)
<1>0. /\ row \in [Player -> Opportunity] /\ run \in Run /\ rec \in [Rec -> RecType]
      /\ now \in Time /\ advice.targets \in SUBSET Rec
  BY TypesHere
<1>t. /\ run.stage = "read" => run.cur \in Player
      /\ \A r \in Rec : Waits(r) => rec[r].player \in Player
  BY DEF Named
<1>r. run.todo \subseteq Player /\ run.made \subseteq Rec
  BY <1>0 DEF Run
<1>1. ASSUME NEW planning \in BOOLEAN, Wake(planning) PROVE Fine
  BY <1>0, <1>1, WakeRun
<1>2. CASE Collect \/ InsertOrRead \/ MergeRow \/ SyncWatch \/ RefreshScores
  BY <1>0, <1>2, CollectRun, InsertOrReadRun, MergeRowRun, SyncWatchRun, RefreshScoresRun
<1>3. CASE ListDue \/ Fetch \/ PollRows
  BY <1>0, <1>3, ListDueRun, FetchRun, PollRowsRun
<1>4. CASE KeepAdvice \/ ChoosePlan \/ ListPending \/ SweepOld \/ Block
  BY <1>0, <1>4, KeepAdviceRun, ChoosePlanRun, ListPendingRun, SweepOldRun, BlockRun
<1>5. CASE Discard \/ Fail
  BY <1>5, RestingRun DEF Discard, Fail
<1>6. CASE CreateChild
  <2>1. PICK p \in Player, r \in Rec \cup {NoRec} :
          run' = [run EXCEPT !.stage = "read", !.cur = p, !.child = r]
    BY <1>0, <1>6, CreateChildCases DEF Free
  <2>2. QED
    BY <1>0, <2>1, ReadsRow
<1>7. CASE NextTarget
  BY <1>0, <1>t, <1>r, <1>7, NextTargetRun, SettledRun
<1>8. CASE ReadRow
  <2>1. Fine \/ run' = Onward
    BY <1>0, <1>t, <1>8, ReadRowRun DEF ReadRow
  <2>2. QED
    BY <1>0, <2>1, OnwardRun DEF Run
<1>9. CASE WriteRow
  <2>1. run' = Onward \/ run' = Resting
    BY <1>9 DEF WriteRow
  <2>2. QED
    BY <1>0, <2>1, OnwardRun, RestingRun DEF Run
<1>10. CASE Publish
  BY <1>0, <1>10, SettledRun DEF Publish
<1>11. CASE WarnRow
  BY <1>0, <1>r, <1>11, WarnRowRun, SettledRun
<1>12. CASE CheckOpen \/ FinishPoll
  BY <1>0, <1>12, CheckOpenRun, FinishPollRun, RestingRun
<1>13. ASSUME run' = run PROVE Fine
  BY <1>0, <1>t, <1>13
<1>14. ASSUME NEW players, run' = Obsolete(players) PROVE Fine
  BY <1>0, <1>t, <1>14, ObsoleteRun
<1>15. ASSUME NEW r \in Rec, NEW a \in Action, Acknowledge(r, a) PROVE Fine
  BY <1>14, <1>15 DEF Acknowledge
<1>16. ASSUME NEW p \in Player, NEW a \in Correction, Correct(p, a) PROVE Fine
  BY <1>14, <1>16 DEF Correct, Corrected
<1>17. ASSUME NEW p \in Player, ReadAfterTipoff(p) PROVE Fine
  BY <1>13, <1>17 DEF ReadAfterTipoff
<1>18. CASE ReadBeforeTipoff \/ Tick \/ UNCHANGED vars
  BY <1>13, <1>18 DEF ReadBeforeTipoff, Tick, vars
<1>19. QED
  BY <1>1, <1>2, <1>3, <1>4, <1>5, <1>6, <1>7, <1>8, <1>9, <1>10, <1>11, <1>12, <1>15, <1>16,
     <1>17, <1>18 DEF Next, Planner

\* the rows of the queue,
LEMMA PollsTyped ==
  ASSUME TypeOK, [Next]_vars
  PROVE  poll' \in [Work -> PollStatus] /\ until' \in [Work -> Time]
<1> DEFINE Fine == poll' \in [Work -> PollStatus] /\ until' \in [Work -> Time]
<1>0. poll \in [Work -> PollStatus] /\ until \in [Work -> Time]
  BY TypesHere
<1>1. ASSUME poll' = poll, until' = until PROVE Fine
  BY <1>0, <1>1
<1>2. ASSUME NEW rows, poll' = Released(rows), until' = until PROVE Fine
  BY <1>0, <1>2, ReleasedTyped
<1>3. ASSUME NEW planning \in BOOLEAN, Wake(planning) PROVE Fine
  BY <1>0, <1>3 DEF Wake, Woken, PollStatus, Over
<1>4. CASE SyncWatch
  <2> DEFINE deadlines == {Deadline[p] : p \in {p \in Player : CandidateFor(p).status # "ineligible"}}
  <2>1. deadlines \in SUBSET Time
    BY DeadlineTyped
  <2>2. \/ poll' = poll /\ until' = until
        \/ /\ deadlines # {}
           /\ UpsertWatch(CHOOSE d \in deadlines : \A e \in deadlines : e <= d)
    BY <1>4 DEF SyncWatch
  <2> HIDE DEF deadlines
  <2>3. QED
    BY <1>0, <1>1, <2>1, <2>2, LastDeadline, WatchTyped
<1>5. CASE Discard \/ Fail
  BY <1>2, <1>5 DEF Discard, Fail
<1>6. CASE WriteRow
  <2>1. until' = until /\ (poll' = poll \/ poll' = Released(run.claimed))
    BY <1>6 DEF WriteRow
  <2>2. QED
    BY <1>1, <1>2, <2>1
<1>7. CASE FinishPoll
  BY <1>0, <1>7 DEF FinishPoll, PollStatus, Over
<1>8. ASSUME NEW p \in Player, ReadAfterTipoff(p) PROVE Fine
  BY <1>0, <1>8, DeadlineTyped, WatchTyped DEF ReadAfterTipoff
<1>9. ASSUME NEW p \in Player, NEW a \in Correction, Correct(p, a) PROVE Fine
  <2>1. Rechecked(p, a)
    BY <1>9 DEF Correct
  <2>2. QED
    BY <1>0, <2>1, DeadlineTyped DEF Rechecked, PollStatus
<1>10. ASSUME NEW r \in Rec, NEW a \in Action, Acknowledge(r, a) PROVE Fine
  BY <1>1, <1>10 DEF Acknowledge
<1>11. CASE Collect \/ InsertOrRead \/ MergeRow \/ RefreshScores \/ ListDue \/ Fetch \/ PollRows
            \/ KeepAdvice \/ ChoosePlan \/ ListPending \/ CreateChild \/ NextTarget \/ ReadRow
            \/ SweepOld \/ Publish \/ Block \/ WarnRow \/ CheckOpen
            \/ ReadBeforeTipoff \/ Tick \/ UNCHANGED vars
  BY <1>1, <1>11 DEF Collect, InsertOrRead, MergeRow, RefreshScores, ListDue, Fetch, PollRows,
    KeepAdvice, ChoosePlan, ListPending, CreateChild, NextTarget, ReadRow, SweepOld, Publish,
    Block, WarnRow, CheckOpen, ReadBeforeTipoff, Tick, vars
<1>12. QED
  BY <1>3, <1>4, <1>5, <1>6, <1>7, <1>8, <1>9, <1>10, <1>11 DEF Next, Planner

\* and the published advice.
LEMMA AdviceTyped ==
  ASSUME TypeOK, [Next]_vars
  PROVE  advice' \in [live : BOOLEAN, targets : SUBSET Rec] /\ now' \in Time
<1>0. /\ advice \in [live : BOOLEAN, targets : SUBSET Rec] /\ run.made \in SUBSET Rec
      /\ now \in Time
  BY TypesHere DEF Run
<1>1. \/ advice' \in {advice, NoAdvice}
      \/ advice' = [live |-> TRUE, targets |-> run.made]
  BY DEF Next, Planner, Wake, Woken, Collect, InsertOrRead, MergeRow, SyncWatch, RefreshScores,
    ListDue, Fetch, PollRows, KeepAdvice, ChoosePlan, Discard, ListPending, CreateChild,
    NextTarget, ReadRow, WriteRow, SweepOld, Publish, Block, WarnRow, CheckOpen, FinishPoll, Fail,
    ReadBeforeTipoff, ReadAfterTipoff, Acknowledge, Correct, Corrected, Tick, vars
<1>2. NoAdvice \in [live : BOOLEAN, targets : SUBSET Rec]
  BY DEF NoAdvice
<1>3. [live |-> TRUE, targets |-> run.made] \in [live : BOOLEAN, targets : SUBSET Rec]
  BY <1>0
<1>4. now' = now \/ (now < LastTime /\ now' = now + 1)
  BY DEF Next, Planner, Wake, Woken, Collect, InsertOrRead, MergeRow, SyncWatch, RefreshScores,
    ListDue, Fetch, PollRows, KeepAdvice, ChoosePlan, Discard, ListPending, CreateChild,
    NextTarget, ReadRow, WriteRow, SweepOld, Publish, Block, WarnRow, CheckOpen, FinishPoll, Fail,
    ReadBeforeTipoff, ReadAfterTipoff, Acknowledge, Correct, Corrected, Tick, vars
<1>5. QED
  <2>1. now' \in Time
    BY <1>0, <1>4, OpportunityAssumption DEF Time
  <2>2. advice' \in [live : BOOLEAN, targets : SUBSET Rec]
    <3>1. CASE advice' = [live |-> TRUE, targets |-> run.made]
      BY <1>3, <3>1
    <3>2. QED
      BY <1>0, <1>1, <1>2, <3>1
  <2>3. QED
    BY <2>1, <2>2

\* The types hold at the start,
LEMMA TypesStart == Init => TypeOK /\ Named
<1>1. 0 \in Time
  BY OpportunityAssumption DEF Time
<1>2. Absent \in Opportunity
  BY DEF Absent, Opportunity, Status, Open
<1>3. ASSUME Init PROVE TypeOK
  BY <1>1, <1>2, <1>3, RestingRun DEF Init, TypeOK, NoRecord, RecStatus, NoAdvice, PollStatus
<1>4. ASSUME Init PROVE Named
  BY <1>4, RestingRun DEF Init, Named, NoRecord, Waits
<1>5. QED
  BY <1>3, <1>4

\* and after every step.
LEMMA TypesStep ==
  ASSUME TypeOK, Named, [Next]_vars
  PROVE  TypeOK' /\ Named'
<1>1. /\ now' \in Time /\ row' \in [Player -> Opportunity] /\ rec' \in [Rec -> RecType]
      /\ advice' \in [live : BOOLEAN, targets : SUBSET Rec]
      /\ poll' \in [Work -> PollStatus] /\ until' \in [Work -> Time] /\ run' \in Run
  BY RowsTyped, RecsTyped, RunsTyped, PollsTyped, AdviceTyped
<1>2. TypeOK'
  BY <1>1 DEF TypeOK, RecType
<1>3. QED
  BY <1>2, RecsTyped, RunsTyped DEF Named

\* Whatever planner, polls and manager do, in whatever order, the tables keep to
\* their columns and the run to its stages.
THEOREM LockInTyped == Spec => []TypeOK
<1>1. TypeOK /\ Named /\ [Next]_vars => TypeOK' /\ Named'
  BY TypesStep
<1>2. QED
  BY <1>1, TypesStart, PTL DEF Spec

-----------------------------------------------------------------------------
(* What a step can make of one row *)

Expires(p) == Deadline[p] <= now /\ run.stage \in {"idle", "fetch"} /\ row'[p] = Elapsed(row[p])
Inserts(p) ==
  /\ InsertOrRead /\ p = First(run.todo) /\ row[p].status = "absent"
  /\ row'[p] = Inserted(CandidateFor(p), run.when)
Merges(p) ==
  /\ MergeRow /\ p = run.cur /\ p \in run.fresh
  /\ row'[p] = Merge(row[p], CandidateFor(p), run.seen.changed, run.when)
Rescores(p) ==
  RefreshScores /\ row[p].status \in Settled /\ \E s \in Score : row'[p] = Observed(row[p], s)
Defers(p) ==
  /\ PollRows /\ p \in run.todo /\ p \in run.fresh
  /\ \E playing \in BOOLEAN : row'[p] = Deferred(row[p], playing)
Observes(p) ==
  /\ PollRows /\ p \in run.todo /\ p \in run.fresh /\ PollFrom <= now
  /\ \E s \in Score : row'[p] = Observed(row[p], s)
Warns(p) ==
  WriteRow /\ p = run.cur /\ p \in run.fresh /\ run.mode = "warn" /\ row'[p] = Warned(row[p])
Offers(p) ==
  /\ WriteRow /\ p = run.cur /\ p \in run.fresh /\ run.mode # "warn" /\ run.child # NoRec
  /\ row'[p] = Offered(row[p], run.child, now)
ReadsBefore(p) ==
  /\ run.stage = "idle" /\ now < Start /\ ReadableBefore(row[p])
  /\ \E starts : row'[p] = BeforeTipoff(row[p], p \in starts, now)
ReadsAfter(p) == ReadAfterTipoff(p) /\ row'[p] = AfterTipoff(row[p])
Confirms(p) ==
  \E r \in Rec, a \in Action :
    Acknowledge(r, a) /\ rec[r].player = p /\ row'[p] = Confirmed(row[p], r, a, now)
Reports(p) ==
  \E a \in Correction :
    Correct(p, a) /\ row'[p] = Reported(row[p], a, now, Deadline[p])

\* A row changes in one of these ways.
LEMMA RowChanges ==
  ASSUME TypeOK, Named, [Next]_vars, NEW p \in Player, row'[p] # row[p]
  PROVE  \/ Expires(p) \/ Inserts(p) \/ Merges(p) \/ Rescores(p) \/ Defers(p) \/ Observes(p)
         \/ Warns(p) \/ Offers(p) \/ ReadsBefore(p) \/ ReadsAfter(p) \/ Confirms(p) \/ Reports(p)
<1>0. row \in [Player -> Opportunity] /\ run \in Run
  BY TypesHere
<1>1. ASSUME NEW planning \in BOOLEAN, Wake(planning) PROVE Expires(p)
  BY <1>1 DEF Wake, Woken, Expires
<1>2. CASE InsertOrRead
  <2> DEFINE q == First(run.todo)
             new == Inserted(CandidateFor(q), run.when)
  <2>1. row' = row \/ (row[q].status = "absent" /\ row' = [row EXCEPT ![q] = new])
    BY <1>2 DEF InsertOrRead
  <2> HIDE DEF q, new
  <2>2. q = p /\ row[p].status = "absent" /\ row'[p] = new
    BY <1>0, <2>1
  <2>3. QED
    BY <1>2, <2>2 DEF Inserts, q, new
<1>3. CASE MergeRow
  <2> DEFINE new == Merge(row[run.cur], CandidateFor(run.cur), run.seen.changed, run.when)
  <2>1. row' = row \/ (run.cur \in run.fresh /\ row' = [row EXCEPT ![run.cur] = new])
    BY <1>3 DEF MergeRow
  <2> HIDE DEF new
  <2>2. run.cur = p /\ p \in run.fresh /\ row'[p] = new
    BY <1>0, <2>1
  <2>3. QED
    BY <1>3, <2>2 DEF Merges, new
<1>4. CASE RefreshScores
  <2>1. PICK players \in SUBSET {q \in Player : row[q].status \in Settled}, s \in Score :
          row' = [q \in Player |-> IF q \in players THEN Observed(row[q], s) ELSE row[q]]
    BY <1>4 DEF RefreshScores
  <2>2. QED
    BY <1>4, <2>1 DEF Rescores
<1>5. CASE Fetch
  <2>1. run.stage = "fetch"
    BY <1>5 DEF Fetch
  <2>2. row' = row \/ row' = [q \in Player |-> IF q \in {k \in Player : Deadline[k] <= now}
                                             THEN Elapsed(row[q]) ELSE row[q]]
    BY <1>5 DEF Fetch
  <2>3. QED
    BY <2>1, <2>2 DEF Expires
<1>6. CASE PollRows
  <2> DEFINE held == run.todo \cap run.fresh
  <2>1. \/ \E playing \in BOOLEAN :
             row' = [q \in Player |-> IF q \in held THEN Deferred(row[q], playing) ELSE row[q]]
        \/ /\ PollFrom <= now
           /\ \E s \in Score :
                row' = [q \in Player |-> IF q \in held THEN Observed(row[q], s) ELSE row[q]]
    BY <1>6 DEF PollRows
  <2> HIDE DEF held
  <2>2. /\ p \in held
        /\ \/ \E playing \in BOOLEAN : row'[p] = Deferred(row[p], playing)
           \/ PollFrom <= now /\ \E s \in Score : row'[p] = Observed(row[p], s)
    BY <2>1
  <2>3. QED
    BY <1>6, <2>2 DEF held, Defers, Observes
<1>7. CASE WriteRow
  <2> DEFINE o == row[run.cur]
             new == IF run.mode = "warn" THEN Warned(o) ELSE Offered(o, run.child, now)
  <2>1. row' = row \/ (/\ run.cur \in run.fresh /\ row' = [row EXCEPT ![run.cur] = new]
                       /\ run.mode = "warn" \/ run.child # NoRec)
    BY <1>7 DEF WriteRow
  <2> HIDE DEF new
  <2>2. run.cur = p /\ p \in run.fresh /\ row'[p] = new /\ (run.mode = "warn" \/ run.child # NoRec)
    BY <1>0, <2>1
  <2>3. QED
    BY <1>7, <2>2 DEF Warns, Offers, new
<1>8. CASE ReadBeforeTipoff
  <2>1. PICK players \in SUBSET {q \in Player : ReadableBefore(row[q])}, starts \in SUBSET Player :
          row' = [q \in Player |-> IF q \in players THEN BeforeTipoff(row[q], q \in starts, now)
                                   ELSE row[q]]
    BY <1>8 DEF ReadBeforeTipoff
  <2>2. ReadableBefore(row[p]) /\ row'[p] = BeforeTipoff(row[p], p \in starts, now)
    BY <2>1
  <2>3. QED
    BY <1>8, <2>2 DEF ReadsBefore, ReadBeforeTipoff
<1>9. ASSUME NEW q \in Player, ReadAfterTipoff(q) PROVE ReadsAfter(p)
  <2>1. row' = [row EXCEPT ![q] = AfterTipoff(row[q])]
    BY <1>9 DEF ReadAfterTipoff
  <2>2. p = q /\ row'[p] = AfterTipoff(row[p])
    BY <1>0, <2>1
  <2>3. QED
    BY <1>9, <2>2 DEF ReadsAfter
<1>10. ASSUME NEW r \in Rec, NEW a \in Action, Acknowledge(r, a) PROVE Confirms(p)
  <2> DEFINE q == rec[r].player
             new == Confirmed(row[q], r, a, now)
  <2>1. row' = [row EXCEPT ![q] = new]
    BY <1>10 DEF Acknowledge
  <2> HIDE DEF q, new
  <2>2. p = q /\ row'[p] = new
    BY <1>0, <2>1
  <2>3. QED
    BY <1>10, <2>2 DEF Confirms, q, new
<1>11. ASSUME NEW q \in Player, NEW a \in Correction, Correct(q, a) PROVE Reports(p)
  <2> DEFINE new == Reported(row[q], a, now, Deadline[q])
  <2>1. row' = [row EXCEPT ![q] = new]
    BY <1>11 DEF Correct, Corrected
  <2> HIDE DEF new
  <2>2. p = q /\ row'[p] = new
    BY <1>0, <2>1
  <2>3. QED
    BY <1>11, <2>2 DEF Reports, new
<1>12. CASE Collect \/ SyncWatch \/ ListDue \/ KeepAdvice \/ ChoosePlan \/ Discard \/ ListPending
            \/ CreateChild \/ NextTarget \/ ReadRow \/ SweepOld \/ Publish \/ Block \/ WarnRow
            \/ CheckOpen \/ FinishPoll \/ Fail \/ Tick \/ UNCHANGED vars
  BY <1>12 DEF Collect, SyncWatch, ListDue, KeepAdvice, ChoosePlan, Discard, ListPending,
    CreateChild, NextTarget, ReadRow, SweepOld, Publish, Block, WarnRow, CheckOpen, FinishPoll,
    Fail, Tick, vars
<1>13. QED
  BY <1>1, <1>2, <1>3, <1>4, <1>5, <1>6, <1>7, <1>8, <1>9, <1>10, <1>11, <1>12 DEF Next, Planner

-----------------------------------------------------------------------------
(* The invariant *)

\* Which mode belongs to which stage, and where the run keeps what it works on.
Modes ==
  /\ run.stage \notin {"child", "read", "write", "publish", "restore", "warn"} =>
       run.mode = "prepare" /\ run.made = {}
  /\ run.stage \in {"child", "publish"} => run.mode = "prepare"
  /\ run.stage = "restore" => run.mode = "restore"
  /\ run.stage = "warn" => run.mode = "warn"
  /\ run.mode = "warn" => run.made = {}
  /\ run.mode = "warn" \/ run.stage \notin {"read", "write"} => run.child = NoRec
  /\ run.stage = "merge" => run.cur \in run.todo
  /\ run.stage \in {"read", "write"} /\ run.mode # "restore" => run.cur \in run.todo

\* The mode of the run fits its stage after every step.
LEMMA ModesStep ==
  ASSUME TypeOK, Named, Modes, [Next]_vars
  PROVE  Modes'
<1>0. /\ row \in [Player -> Opportunity] /\ run \in Run /\ rec \in [Rec -> RecType]
      /\ now \in Time /\ advice.targets \in SUBSET Rec
  BY TypesHere
<1>t. /\ run.stage = "read" => run.cur \in Player
      /\ \A r \in Rec : Waits(r) => rec[r].player \in Player
  BY DEF Named
<1> USE DEF Modes
<1>1. ASSUME AtRest(run'), run'.stage \in {"idle", "check", "collect"} PROVE Modes'
  BY <1>1 DEF AtRest
<1>2. ASSUME NEW planning \in BOOLEAN, Wake(planning) PROVE Modes'
  BY <1>0, <1>1, <1>2, WakeRun
<1>3. CASE Collect
  BY <1>0, <1>3, CollectRun DEF PlanKept
<1>4. CASE InsertOrRead
  BY <1>0, <1>4, InsertOrReadRun DEF PlanKept
<1>5. CASE MergeRow \/ SyncWatch \/ RefreshScores
  BY <1>0, <1>5, MergeRowRun, SyncWatchRun, RefreshScoresRun DEF PlanKept
<1>6. CASE ListDue \/ Fetch \/ PollRows
  BY <1>0, <1>6, ListDueRun, FetchRun, PollRowsRun DEF PlanKept
<1>7. CASE KeepAdvice \/ ChoosePlan \/ ListPending
  BY <1>0, <1>7, KeepAdviceRun, ChoosePlanRun, ListPendingRun
<1>8. CASE SweepOld \/ Block
  BY <1>0, <1>8, SweepOldRun, BlockRun
<1>9. CASE Discard \/ Fail
  BY <1>1, <1>9, RestingRun DEF Discard, Fail
<1>10. CASE CreateChild
  <2>1. PICK r \in Rec \cup {NoRec} :
          /\ First(run.todo) \in run.todo /\ First(run.todo) \in Player
          /\ run' = [run EXCEPT !.stage = "read", !.cur = First(run.todo), !.child = r]
    BY <1>0, <1>10, CreateChildCases DEF Free
  <2>2. run.stage = "child"
    BY <1>10 DEF CreateChild
  <2>3. QED
    BY <1>0, <2>1, <2>2, ReadsRow
<1>11. CASE NextTarget
  BY <1>0, <1>t, <1>1, <1>11, NextTargetRun, SettledRun
<1>12. CASE run' = Onward /\ run.stage \in {"read", "write"}
  BY <1>0, <1>12, OnwardRun DEF Run
<1>13. CASE ReadRow
  <2>1. run.stage = "read"
    BY <1>13 DEF ReadRow
  <2>2. CASE run' = Onward
    BY <1>12, <2>1, <2>2
  <2>3. CASE run' # Onward
    BY <1>0, <1>t, <1>13, <2>1, <2>3, ReadRowRun DEF PlanKept
  <2>4. QED
    BY <2>2, <2>3
<1>14. CASE WriteRow
  <2>1. run.stage = "write" /\ (run' = Onward \/ run' = Resting)
    BY <1>14 DEF WriteRow
  <2>2. QED
    BY <1>1, <1>12, <2>1, RestingRun
<1>15. CASE Publish
  BY <1>0, <1>1, <1>15, SettledRun DEF Publish
<1>16. CASE WarnRow
  BY <1>0, <1>1, <1>16, WarnRowRun, SettledRun
<1>17. CASE CheckOpen \/ FinishPoll
  BY <1>0, <1>1, <1>17, CheckOpenRun, FinishPollRun, RestingRun DEF PlanKept
<1>18. ASSUME run' = run PROVE Modes'
  BY <1>18
<1>19. ASSUME NEW players, run' = Obsolete(players) PROVE Modes'
  BY <1>0, <1>19, ObsoleteRun
<1>20. ASSUME NEW r \in Rec, NEW a \in Action, Acknowledge(r, a) PROVE Modes'
  BY <1>19, <1>20 DEF Acknowledge
<1>21. ASSUME NEW p \in Player, NEW a \in Correction, Correct(p, a) PROVE Modes'
  BY <1>19, <1>21 DEF Correct, Corrected
<1>22. ASSUME NEW p \in Player, ReadAfterTipoff(p) PROVE Modes'
  BY <1>18, <1>22 DEF ReadAfterTipoff
<1>23. CASE ReadBeforeTipoff \/ Tick \/ UNCHANGED vars
  BY <1>18, <1>23 DEF ReadBeforeTipoff, Tick, vars
<1>24. QED
  BY <1>2, <1>3, <1>4, <1>5, <1>6, <1>7, <1>8, <1>9, <1>10, <1>11, <1>13, <1>14, <1>15, <1>16,
     <1>17, <1>20, <1>21, <1>22, <1>23 DEF Next, Planner

-----------------------------------------------------------------------------
(* What a run read, and what it chose *)

\* What a stored row says of itself, and of the time.
RowSound(p) ==
  /\ row[p].status = "absent" => row[p] = Absent
  /\ row[p].status \in Settled => row[p].ack # "none"
  /\ row[p].ack # "none" => row[p].score # NoScore
  /\ row[p].status = "actionable" => row[p].rostered = "yes" /\ row[p].score # NoScore

\* Scores come from after the game: no snapshot in use then is evidence from before tipoff.
ScoredLate(p) ==
  row[p].score # NoScore =>
    /\ PollFrom <= now
    /\ run.stage \in {"sync", "merge"} => Start <= run.seen.snapshot

\* What the run read of a row still holds unless the row was written since.
StillAsRead ==
  /\ run.stage \in {"fetch", "record"} => \A p \in run.todo \cap run.fresh : IsOpen(p)
  /\ run.stage = "write" =>
       /\ run.mode # "warn" /\ run.cur \in run.fresh => Offerable(row[run.cur])
       /\ run.cur \notin run.fresh => ~run.version

Preparing == run.mode = "prepare" /\ run.stage \in {"confirm", "child", "read", "write"}
Offering == run.mode # "warn" /\ run.stage \in {"read", "write"}
Advisable(p) ==
  row[p].score # NoScore /\ (row[p].rostered = "yes" \/ row[p].status = "ineligible")

\* Whoever the plan chose has a final score and, unless he has become ineligible meanwhile,
\* started in a slot; while the decision version stands the row can still be offered.
ChosenAdvisable ==
  /\ Preparing => \A p \in run.todo : Advisable(p) /\ (run.version => Offerable(row[p]))
  /\ Offering => run.cur \in Player /\ Advisable(run.cur)

\* The planner writes only rows it may write, and only what the writes are made of.
LEMMA OfferedSound ==
  ASSUME TypeOK, StillAsRead, ChosenAdvisable, NEW p \in Player, Offers(p)
  PROVE  row[p].rostered = "yes" /\ row[p].score # NoScore /\ Offerable(row[p])
<1>1. run.stage = "write" /\ run.mode # "warn" /\ p = run.cur /\ p \in run.fresh
  BY DEF Offers, WriteRow
<1>2. QED
  BY <1>1 DEF StillAsRead, ChosenAdvisable, Offering, Advisable, Offerable

\* A row stays sound: whoever is offered started and has a score.
LEMMA RowSoundStep ==
  ASSUME TypeOK, Named, StillAsRead, ChosenAdvisable, NEW p \in Player, RowSound(p), ScoredLate(p),
         [Next]_vars
  PROVE  RowSound(p)'
<1>0. /\ row[p] \in Opportunity /\ run \in Run /\ now \in Time
  BY TypesHere
<1>1. CASE row'[p] = row[p]
  BY <1>1 DEF RowSound
<1>2. CASE Expires(p)
  BY <1>0, <1>2, ElapsedFacts DEF Expires, RowSound, Open, Settled
<1>3. CASE Inserts(p)
  <2>1. run.when \in Time
    BY <1>0 DEF Run
  <2>2. Plausible(CandidateFor(p))
    BY <1>0, SeenPlausible
  <2>3. QED
    BY <1>3, <2>1, <2>2, InsertedFacts DEF Inserts, RowSound, Plausible, Proposed, Settled
<1>4. CASE Merges(p)
  <2> DEFINE c == CandidateFor(p)
  <2>1. run.when \in Time /\ run.stage = "merge"
    BY <1>0, <1>4 DEF Run, Merges, MergeRow
  <2>2. Plausible(c) /\ (Start <= run.seen.snapshot => c.evidence = NoEvidence)
    BY <1>0, SeenPlausible
  <2> HIDE DEF c
  <2>3. /\ row'[p].status = MergedStatus(row[p], c, run.seen.changed)
        /\ row'[p].ack = row[p].ack /\ row'[p].score = row[p].score
        /\ c.evidence = NoEvidence => row'[p].rostered = row[p].rostered
    BY <1>0, <1>4, <2>1, <2>2, MergeFacts DEF Merges, c
  <2>4. /\ row'[p].status \in Status \ {"absent"}
        /\ row[p].ack # "none" => row'[p].status \in Settled
        /\ row'[p].status \in {"actionable"} \cup Settled =>
             SavedStatus(row[p]) \in Settled \/ row'[p].status = row[p].status
    BY <1>0, <2>2, <2>3, MergedStatusFacts
  <2>5. SavedStatus(row[p]) \in Settled => row[p].ack # "none"
    BY <1>0, SavedStatusKept DEF RowSound
  <2>6. row'[p].status = "actionable" => row[p].status = "actionable"
    BY <2>4, <2>5 DEF Settled
  <2>7. QED
    BY <2>1, <2>2, <2>3, <2>4, <2>5, <2>6 DEF RowSound, ScoredLate
<1>5. CASE Rescores(p) \/ Observes(p)
  <2>1. PICK s \in Score : row'[p] = Observed(row[p], s)
    BY <1>5 DEF Rescores, Observes
  <2>2. s # NoScore
    BY OpportunityAssumption
  <2>3. QED
    BY <1>0, <2>1, <2>2, ObservedFacts DEF RowSound, Settled
<1>6. CASE Defers(p)
  BY <1>0, <1>6, DeferredFacts DEF Defers, RowSound, Settled
<1>7. CASE Warns(p)
  <2>1. run.child \in Rec \cup {NoRec}
    BY <1>0 DEF Run
  <2>2. QED
    BY <1>0, <1>7, WarnedFacts DEF Warns, RowSound, Settled
<1>8. CASE Offers(p)
  <2>1. run.child \in Rec \cup {NoRec}
    BY <1>0 DEF Run
  <2>2. row'[p].status = "actionable" /\ row'[p].ack = row[p].ack
          /\ row'[p].score = row[p].score /\ row'[p].rostered = row[p].rostered
    BY <1>0, <1>8, <2>1, OfferedFacts DEF Offers
  <2>3. QED
    BY <1>8, <2>2, OfferedSound DEF RowSound, Settled
<1>9. CASE ReadsBefore(p)
  <2>1. row[p].status \in {"scheduled", "ineligible"}
    BY <1>9 DEF ReadsBefore, ReadableBefore
  <2>2. SavedStatus(row[p]) \in Settled => row[p].ack # "none"
    BY <1>0, SavedStatusKept DEF RowSound
  <2>3. PICK starts : row'[p] = BeforeTipoff(row[p], p \in starts, now)
    BY <1>9 DEF ReadsBefore
  <2>4. /\ row'[p].ack = row[p].ack /\ row'[p].score = row[p].score
        /\ row'[p].status \in {"actionable"} \cup Settled =>
              SavedStatus(row[p]) \in Settled \/ row'[p].status = row[p].status
        /\ row[p].ack # "none" => row'[p].status \in Settled
        /\ row'[p].status # "absent"
    BY <1>0, <2>3, BeforeTyped
  <2>5. QED
    BY <2>1, <2>2, <2>4 DEF RowSound, Settled
<1>10. CASE ReadsAfter(p)
  BY <1>0, <1>10, TipoffFacts DEF ReadsAfter, RowSound, Settled
<1>11. CASE Confirms(p)
  <2>1. PICK r \in Rec, a \in Action : row'[p] = Confirmed(row[p], r, a, now)
    BY <1>11 DEF Confirms
  <2>2. /\ row'[p].score = row[p].score /\ (row[p].status # "actionable" => row'[p] = row[p])
        /\ row'[p] = row[p] \/ (row'[p].status \in Settled /\ row'[p].ack = a)
    BY <1>0, <2>1, ConfirmedFacts
  <2>3. QED
    BY <1>1, <2>2 DEF RowSound, Action, Settled
<1>12. CASE Reports(p)
  <2>1. PICK a \in Correction : /\ MayReport(row[p], a, now, Deadline[p])
                                /\ row'[p] = Reported(row[p], a, now, Deadline[p])
    BY <1>12 DEF Reports, Correct, Corrected
  <2>2. CASE a = "not_locked"
    BY <1>0, <2>1, <2>2, ReportedFacts DEF RowSound, Settled
  <2>3. CASE a \in Action
    BY <1>0, <2>1, <2>3, ReportedFacts DEF RowSound, Settled, Action
  <2>4. CASE a = "not_lockable"
    BY <1>0, <2>1, <2>4, ReportedFacts DEF RowSound, Settled
  <2>5. CASE a = "lockable"
    BY <1>0, <2>1, <2>5, ReportedFacts DEF RowSound, Settled
  <2>6. QED
    BY <2>1, <2>2, <2>3, <2>4, <2>5 DEF Correction, Action
<1>13. QED
  BY <1>1, <1>2, <1>3, <1>4, <1>5, <1>6, <1>7, <1>8, <1>9, <1>10, <1>11, <1>12, RowChanges

\* The stage of the next snapshot, and the time, go forward.
LEMMA StageFacts ==
  ASSUME TypeOK, Named, [Next]_vars
  PROVE  /\ now' \in {now, now + 1}
         /\ run'.stage \in {"sync", "merge"} =>
              \/ run.stage \in {"sync", "merge"} /\ run'.seen = run.seen
              \/ Collect /\ run'.seen.snapshot \in {now - 1, now} /\ row' = row
         /\ run'.stage = "write" =>
              \/ run.stage = "write" /\ run'.cur = run.cur /\ run'.mode = run.mode
              \/ ReadRow
         /\ run'.stage \in {"fetch", "record"} => run.stage \in {"poll", "fetch", "record"}
<1>0. /\ row \in [Player -> Opportunity] /\ run \in Run /\ rec \in [Rec -> RecType]
      /\ now \in Time /\ advice.targets \in SUBSET Rec
  BY TypesHere
<1>t. /\ run.stage = "read" => run.cur \in Player
      /\ \A r \in Rec : Waits(r) => rec[r].player \in Player
  BY DEF Named
<1>n. now' \in {now, now + 1}
  BY DEF Next, Planner, Wake, Woken, Collect, InsertOrRead, MergeRow, SyncWatch, RefreshScores,
    ListDue, Fetch, PollRows, KeepAdvice, ChoosePlan, Discard, ListPending, CreateChild,
    NextTarget, ReadRow, WriteRow, SweepOld, Publish, Block, WarnRow, CheckOpen, FinishPoll, Fail,
    ReadBeforeTipoff, ReadAfterTipoff, Acknowledge, Correct, Corrected, Tick, vars
<1> DEFINE Fine ==
         /\ run'.stage \in {"sync", "merge"} =>
              \/ run.stage \in {"sync", "merge"} /\ run'.seen = run.seen
              \/ Collect /\ run'.seen.snapshot \in {now - 1, now} /\ row' = row
         /\ run'.stage = "write" =>
              \/ run.stage = "write" /\ run'.cur = run.cur /\ run'.mode = run.mode
              \/ ReadRow
         /\ run'.stage \in {"fetch", "record"} => run.stage \in {"poll", "fetch", "record"}
<1> SUFFICES Fine
  BY <1>n
<1> DEFINE Elsewhere == run'.stage \notin {"sync", "merge", "write", "fetch", "record"}
<1>e. Elsewhere => Fine
  OBVIOUS
<1>s. (/\ run.stage \in {"sync", "merge"} /\ run'.seen = run.seen
       /\ run'.stage \notin {"write", "fetch", "record"}) => Fine
  OBVIOUS
<1>c. (/\ Collect /\ run'.seen.snapshot \in {now - 1, now} /\ row' = row
       /\ run'.stage = "sync") => Fine
  OBVIOUS
<1>r. ReadRow /\ run'.stage \notin {"sync", "merge", "fetch", "record"} => Fine
  OBVIOUS
<1>f. (/\ run.stage \in {"poll", "fetch", "record"}
       /\ run'.stage \notin {"sync", "merge", "write"}) => Fine
  OBVIOUS
<1>k. (/\ run'.stage = run.stage /\ run'.seen = run.seen /\ run'.cur = run.cur
       /\ run'.mode = run.mode) => Fine
  OBVIOUS
<1> HIDE DEF Fine
<1>2. ASSUME NEW planning \in BOOLEAN, Wake(planning) PROVE Fine
  <2>1. Elsewhere
    BY <1>0, <1>2, WakeRun
  <2>2. QED
    BY <2>1, <1>e
<1>3. CASE Collect
  <2>1. row' = row
    BY <1>3 DEF Collect
  <2>2. QED
    BY <1>0, <1>3, <1>c, <2>1, CollectRun
<1>4. CASE InsertOrRead \/ MergeRow
  BY <1>0, <1>4, <1>s, InsertOrReadRun, MergeRowRun
<1>5. CASE SyncWatch \/ RefreshScores
  <2>1. Elsewhere
    BY <1>0, <1>5, SyncWatchRun, RefreshScoresRun
  <2>2. QED
    BY <2>1, <1>e
<1>6. CASE ListDue \/ Fetch \/ PollRows
  BY <1>0, <1>6, <1>f, ListDueRun, FetchRun, PollRowsRun
<1>7. CASE KeepAdvice \/ ChoosePlan \/ ListPending \/ SweepOld \/ Block
  <2>1. Elsewhere
    BY <1>0, <1>7, KeepAdviceRun, ChoosePlanRun, ListPendingRun, SweepOldRun, BlockRun
  <2>2. QED
    BY <2>1, <1>e
<1>8. CASE Discard \/ Fail
  <2>1. Elsewhere
    BY <1>8, RestingRun DEF Discard, Fail
  <2>2. QED
    BY <2>1, <1>e
<1>9. CASE CreateChild
  <2>1. PICK r \in Rec \cup {NoRec} :
          /\ First(run.todo) \in run.todo /\ First(run.todo) \in Player
          /\ run' = [run EXCEPT !.stage = "read", !.cur = First(run.todo), !.child = r]
    BY <1>0, <1>9, CreateChildCases DEF Free
  <2>2. Elsewhere
    BY <1>0, <2>1, ReadsRow
  <2>3. QED
    BY <2>2, <1>e
<1>10. CASE NextTarget
  <2>1. Elsewhere
    BY <1>0, <1>t, <1>10, NextTargetRun, SettledRun
  <2>2. QED
    BY <2>1, <1>e
<1>11. CASE ReadRow
  <2>1. CASE run' = Onward
    <3>1. run'.stage \in {"child", "restore", "warn"}
      BY <1>0, <2>1, OnwardRun DEF Run
    <3>2. QED
      BY <1>11, <1>r, <3>1
  <2>2. CASE run' # Onward
    <3>1. run.stage = "read"
      BY <1>11 DEF ReadRow
    <3>2. run'.stage = "write"
      BY <1>0, <1>t, <1>11, <2>2, <3>1, ReadRowRun
    <3>3. QED
      BY <1>11, <1>r, <3>2
  <2>3. QED
    BY <2>1, <2>2
<1>12. CASE WriteRow
  <2>1. run' = Onward \/ run' = Resting
    BY <1>12 DEF WriteRow
  <2>2. Elsewhere
    BY <1>0, <2>1, OnwardRun, RestingRun DEF Run
  <2>3. QED
    BY <2>2, <1>e
<1>13. CASE Publish
  <2>1. Elsewhere
    BY <1>0, <1>13, SettledRun DEF Publish
  <2>2. QED
    BY <2>1, <1>e
<1>14. CASE WarnRow
  <2>1. Elsewhere
    BY <1>0, <1>14, WarnRowRun, SettledRun
  <2>2. QED
    BY <2>1, <1>e
<1>15. CASE CheckOpen \/ FinishPoll
  <2>1. Elsewhere
    BY <1>0, <1>15, CheckOpenRun, FinishPollRun, RestingRun
  <2>2. QED
    BY <2>1, <1>e
<1>16. ASSUME run' = run PROVE Fine
  BY <1>16, <1>k
<1>17. ASSUME NEW players, run' = Obsolete(players) PROVE Fine
  BY <1>0, <1>17, <1>k, ObsoleteRun
<1>18. ASSUME NEW r \in Rec, NEW a \in Action, Acknowledge(r, a) PROVE Fine
  BY <1>17, <1>18 DEF Acknowledge
<1>19. ASSUME NEW p \in Player, NEW a \in Correction, Correct(p, a) PROVE Fine
  BY <1>17, <1>19 DEF Correct, Corrected
<1>20. ASSUME NEW p \in Player, ReadAfterTipoff(p) PROVE Fine
  BY <1>16, <1>20 DEF ReadAfterTipoff
<1>21. CASE ReadBeforeTipoff \/ Tick \/ UNCHANGED vars
  BY <1>16, <1>21 DEF ReadBeforeTipoff, Tick, vars
<1>22. QED
  BY <1>2, <1>3, <1>4, <1>5, <1>6, <1>7, <1>8, <1>9, <1>10, <1>11, <1>12, <1>13, <1>14, <1>15,
     <1>18, <1>19, <1>20, <1>21 DEF Next, Planner

\* A score comes to be known only from the poll: the settled rows that are refreshed have one.
LEMMA ScoreKept ==
  ASSUME TypeOK, Named, NEW p \in Player, RowSound(p), [Next]_vars,
         row'[p].score # NoScore, row[p].score = NoScore
  PROVE  Observes(p)
<1>0. /\ row[p] \in Opportunity /\ run \in Run /\ now \in Time
  BY TypesHere
<1>1. row'[p] # row[p]
  OBVIOUS
<1>2. ~Expires(p)
  BY <1>0, ElapsedFacts DEF Expires
<1>3. ~Inserts(p)
  <2>1. run.when \in Time /\ Plausible(CandidateFor(p))
    BY <1>0, SeenPlausible DEF Run
  <2>2. QED
    BY <2>1, InsertedFacts DEF Inserts
<1>4. ~Merges(p)
  <2>1. run.when \in Time /\ Plausible(CandidateFor(p))
    BY <1>0, SeenPlausible DEF Run
  <2>2. QED
    BY <1>0, <2>1, MergeFacts DEF Merges
<1>5. ~Rescores(p)
  BY DEF Rescores, RowSound
<1>6. ~Defers(p)
  BY <1>0, DeferredFacts DEF Defers
<1>7. ~Warns(p) /\ ~Offers(p)
  <2>1. run.child \in Rec \cup {NoRec}
    BY <1>0 DEF Run
  <2>2. QED
    BY <1>0, <2>1, WarnedFacts, OfferedFacts DEF Warns, Offers
<1>8. ~ReadsBefore(p)
  BY <1>0, BeforeTyped DEF ReadsBefore
<1>9. ~ReadsAfter(p)
  BY <1>0, TipoffFacts DEF ReadsAfter
<1>10. ~Confirms(p)
  BY <1>0, ConfirmedFacts DEF Confirms
<1>11. ~Reports(p)
  BY <1>0, ReportedFacts DEF Reports, Correct, Corrected
<1>12. QED
  BY <1>1, <1>2, <1>3, <1>4, <1>5, <1>6, <1>7, <1>8, <1>9, <1>10, <1>11, RowChanges

\* Time and the snapshots in use only move on.
LEMMA ScoredLateStep ==
  ASSUME TypeOK, Named, NEW p \in Player, RowSound(p), ScoredLate(p), [Next]_vars
  PROVE  ScoredLate(p)'
<1>0. /\ run \in Run /\ now \in Time /\ PollFrom \in Nat /\ PollFrom > Start /\ Start \in Nat
  BY TypesHere, LockInAssumption, OpportunityAssumption
<1>1. CASE row[p].score = NoScore
  <2>1. SUFFICES ASSUME row'[p].score # NoScore PROVE ScoredLate(p)'
    BY DEF ScoredLate
  <2>2. Observes(p)
    BY <1>1, <2>1, ScoreKept
  <2>3. PollFrom <= now /\ now' = now /\ run'.stage \notin {"sync", "merge"}
    BY <1>0, <2>2, PollRowsRun DEF Observes, PollRows
  <2>4. QED
    BY <2>3 DEF ScoredLate
<1>2. CASE row[p].score # NoScore
  <2>1. PollFrom <= now /\ (run.stage \in {"sync", "merge"} => Start <= run.seen.snapshot)
    BY <1>2 DEF ScoredLate
  <2>2. PollFrom <= now'
    BY <1>0, <2>1, StageFacts DEF Time
  <2>3. run'.stage \in {"sync", "merge"} => Start <= run'.seen.snapshot
    <3>1. run'.seen.snapshot \in {now - 1, now} => Start <= run'.seen.snapshot
      BY <1>0, <2>1 DEF Time
    <3>2. QED
      BY <2>1, <3>1, StageFacts
  <2>4. QED
    BY <2>2, <2>3 DEF ScoredLate
<1>3. QED
  BY <1>1, <1>2

-----------------------------------------------------------------------------
(* Who may act when *)

ManagerActs ==
  \/ \E r \in Rec, a \in Action : Acknowledge(r, a)
  \/ \E p \in Player, a \in Correction : Correct(p, a)
Undisturbed == UNCHANGED <<row, rec, advice, run>>
PlanStep ==
  KeepAdvice \/ ChoosePlan \/ ListPending \/ CreateChild \/ NextTarget \/ ReadRow \/ WriteRow
    \/ SweepOld \/ Block \/ WarnRow

\* The planner is one process: its stage says which step is its next.
LEMMA ByStage ==
  ASSUME [Next]_vars
  PROVE  \/ /\ run.stage = "idle"
            /\ \/ \E planning \in BOOLEAN : Wake(planning)
               \/ ReadBeforeTipoff \/ \E p \in Player : ReadAfterTipoff(p)
         \/ run.stage = "collect" /\ Collect
         \/ run.stage = "sync" /\ (InsertOrRead \/ SyncWatch)
         \/ run.stage = "merge" /\ MergeRow
         \/ run.stage = "refresh" /\ RefreshScores
         \/ run.stage = "poll" /\ ListDue
         \/ run.stage = "fetch" /\ Fetch
         \/ run.stage = "record" /\ PollRows
         \/ run.stage = "plan" /\ (KeepAdvice \/ ChoosePlan \/ Block)
         \/ run.stage = "confirm" /\ (Discard \/ ListPending)
         \/ run.stage = "child" /\ (CreateChild \/ SweepOld)
         \/ run.stage = "restore" /\ NextTarget
         \/ run.stage = "read" /\ ReadRow
         \/ run.stage = "write" /\ WriteRow
         \/ run.stage = "publish" /\ Publish
         \/ run.stage = "warn" /\ WarnRow
         \/ run.stage = "check" /\ CheckOpen
         \/ run.stage = "finish" /\ FinishPoll
         \/ Fail \/ ManagerActs \/ Undisturbed
<1>1. /\ \A planning \in BOOLEAN : Wake(planning) => run.stage = "idle"
      /\ \A p \in Player : ReadAfterTipoff(p) => run.stage = "idle"
      /\ ReadBeforeTipoff => run.stage = "idle"
  BY DEF Wake, Woken, ReadAfterTipoff, ReadBeforeTipoff
<1>2. /\ Collect => run.stage = "collect"
      /\ (InsertOrRead \/ SyncWatch) => run.stage = "sync"
      /\ MergeRow => run.stage = "merge" /\ (RefreshScores => run.stage = "refresh")
      /\ ListDue => run.stage = "poll" /\ (Fetch => run.stage = "fetch")
      /\ PollRows => run.stage = "record"
  BY DEF Collect, InsertOrRead, SyncWatch, MergeRow, RefreshScores, ListDue, Fetch, PollRows
<1>2a. (RefreshScores => run.stage = "refresh") /\ (Fetch => run.stage = "fetch")
  BY DEF RefreshScores, Fetch
<1>3. /\ (KeepAdvice \/ ChoosePlan \/ Block) => run.stage = "plan"
      /\ (Discard \/ ListPending) => run.stage = "confirm"
      /\ (CreateChild \/ SweepOld) => run.stage = "child"
      /\ NextTarget => run.stage = "restore"
  BY DEF KeepAdvice, ChoosePlan, Block, Discard, ListPending, CreateChild, SweepOld, NextTarget
<1>4. /\ ReadRow => run.stage = "read"
      /\ WriteRow => run.stage = "write"
      /\ Publish => run.stage = "publish"
      /\ WarnRow => run.stage = "warn"
      /\ CheckOpen => run.stage = "check"
      /\ FinishPoll => run.stage = "finish"
  BY DEF ReadRow, WriteRow, Publish, WarnRow, CheckOpen, FinishPoll
<1>5. Tick \/ UNCHANGED vars => Undisturbed
  BY DEF Tick, vars, Undisturbed
<1>6. QED
  BY <1>1, <1>2, <1>2a, <1>3, <1>4, <1>5 DEF Next, Planner, ManagerActs

\* Outside these steps nothing of a plan is under way.
LEMMA OutsidePlan ==
  ASSUME TypeOK, Named, [Next]_vars, ~ManagerActs, ~Undisturbed, ~PlanStep
  PROVE  run'.stage \notin {"confirm", "child", "read", "write", "publish", "restore", "warn"}
<1>0. run \in Run /\ now \in Time
  BY TypesHere
<1> DEFINE Elsewhere ==
      run'.stage \notin {"confirm", "child", "read", "write", "publish", "restore", "warn"}
<1>1. ASSUME NEW planning \in BOOLEAN, Wake(planning) PROVE Elsewhere
  BY <1>0, <1>1, WakeRun
<1>2. run.stage = "idle" /\ run' = run => Elsewhere
  OBVIOUS
<1>3. (ReadBeforeTipoff \/ \E p \in Player : ReadAfterTipoff(p)) => Elsewhere
  BY <1>2 DEF ReadBeforeTipoff, ReadAfterTipoff
<1>4. Collect \/ InsertOrRead \/ MergeRow \/ SyncWatch \/ RefreshScores => Elsewhere
  BY <1>0, CollectRun, InsertOrReadRun, MergeRowRun, SyncWatchRun, RefreshScoresRun
<1>5. ListDue \/ Fetch \/ PollRows => Elsewhere
  BY <1>0, ListDueRun, FetchRun, PollRowsRun
<1>6. Discard \/ Fail => Elsewhere
  BY RestingRun DEF Discard, Fail
<1>7. Publish => Elsewhere
  BY <1>0, SettledRun DEF Publish
<1>8. CheckOpen \/ FinishPoll => Elsewhere
  BY <1>0, CheckOpenRun, FinishPollRun, RestingRun
<1> HIDE DEF Elsewhere
<1>9. Elsewhere
  BY <1>1, <1>3, <1>4, <1>5, <1>6, <1>7, <1>8, ByStage DEF PlanStep
<1>10. QED
  BY <1>9 DEF Elsewhere

\* An acknowledgement or a correction only withdraws the run's hold on what it writes.
LEMMA ManagerRun ==
  ASSUME TypeOK, ManagerActs
  PROVE  /\ run' \in Run /\ ~run'.version /\ run'.fresh \subseteq run.fresh
         /\ \A p \in run'.fresh : row'[p] = row[p]
         /\ run'.stage = run.stage /\ run'.mode = run.mode /\ run'.made = run.made
         /\ run'.todo = run.todo /\ run'.old = run.old /\ run'.child = run.child
         /\ run'.cur = run.cur /\ run'.seen = run.seen
<1>0. run \in Run /\ row \in [Player -> Opportunity]
  BY TypesHere
<1>1. PICK players : run' = Obsolete(players) /\ \A p \in Player \ players : row'[p] = row[p]
  <2>1. ASSUME NEW r \in Rec, NEW a \in Action, Acknowledge(r, a)
        PROVE  \E players : run' = Obsolete(players)
                              /\ \A p \in Player \ players : row'[p] = row[p]
    <3> DEFINE q == rec[r].player
               players == IF row'[q] = row[q] THEN {} ELSE {q}
    <3>1. run' = Obsolete(players)
      BY <2>1 DEF Acknowledge
    <3>2. row' = [row EXCEPT ![q] = Confirmed(row[q], r, a, now)]
      BY <2>1 DEF Acknowledge
    <3>3. \A p \in Player \ players : row'[p] = row[p]
      BY <1>0, <3>2
    <3>4. QED
      BY <3>1, <3>3
  <2>2. ASSUME NEW q \in Player, NEW a \in Correction, Correct(q, a)
        PROVE  \E players : run' = Obsolete(players)
                              /\ \A p \in Player \ players : row'[p] = row[p]
    <3>1. run' = Obsolete({q})
      BY <2>2 DEF Correct, Corrected
    <3>2. row' = [row EXCEPT ![q] = Reported(row[q], a, now, Deadline[q])]
      BY <2>2 DEF Correct, Corrected
    <3>3. \A p \in Player \ {q} : row'[p] = row[p]
      BY <1>0, <3>2
    <3>4. QED
      BY <3>1, <3>3
  <2>3. QED
    BY <2>1, <2>2 DEF ManagerActs
<1>2. run.fresh \subseteq Player
  BY <1>0 DEF Run
<1>3. QED
  BY <1>0, <1>1, <1>2, ObsoleteRun

\* Whoever else writes a row takes it from the fresh ones.
LEMMA StillAsReadStep ==
  ASSUME TypeOK, Named, StillAsRead, [Next]_vars
  PROVE  StillAsRead'
<1>0. /\ run \in Run /\ row \in [Player -> Opportunity] /\ rec \in [Rec -> RecType]
      /\ run.todo \subseteq Player
  BY TypesHere DEF Run
<1>t. run.stage = "read" => run.cur \in Player
  BY DEF Named
<1>1. ASSUME run'.stage \in {"fetch", "record"}, NEW p \in run'.todo \cap run'.fresh
      PROVE  row'[p].status \in Open
  <2>1. run.stage \in {"poll", "fetch", "record"}
    BY <1>1, StageFacts
  <2>2. ListDue \/ Fetch \/ PollRows \/ Fail \/ ManagerActs \/ Undisturbed
    BY <2>1, ByStage
  <2>3. CASE ListDue
    <3>1. row' = row /\ IsOpen(p)
      BY <1>0, <1>1, <2>3, ListDueRun DEF ListDue
    <3>2. QED
      BY <3>1 DEF IsOpen
  <2>4. CASE Fetch
    <3>1. /\ p \in run.todo /\ p \in run.fresh /\ p \notin {q \in Player : Deadline[q] <= now}
          /\ run.stage = "fetch"
      BY <1>0, <1>1, <2>4, FetchRun
    <3>2. row' = row \/ row' = [q \in Player |-> IF q \in {k \in Player : Deadline[k] <= now}
                                               THEN Elapsed(row[q]) ELSE row[q]]
      BY <2>4 DEF Fetch
    <3>3. row'[p] = row[p]
      BY <1>0, <3>1, <3>2
    <3>4. QED
      BY <3>1, <3>3 DEF StillAsRead, IsOpen
  <2>5. CASE PollRows \/ Fail
    BY <1>0, <1>1, <2>5, PollRowsRun, RestingRun DEF Fail
  <2>6. CASE ManagerActs
    <3>1. row'[p] = row[p] /\ p \in run.todo \cap run.fresh /\ run.stage \in {"fetch", "record"}
      BY <1>1, <2>6, ManagerRun
    <3>2. QED
      BY <3>1 DEF StillAsRead, IsOpen
  <2>7. CASE Undisturbed
    BY <1>1, <2>7 DEF Undisturbed, StillAsRead, IsOpen
  <2>8. QED
    BY <2>2, <2>3, <2>4, <2>5, <2>6, <2>7
<1>2. ASSUME run'.stage = "write"
      PROVE  /\ run'.mode # "warn" /\ run'.cur \in run'.fresh => Offerable(row'[run'.cur])
             /\ run'.cur \notin run'.fresh => ~run'.version
  <2>1. CASE ReadRow
    <3>1. row' = row /\ run.stage = "read"
      BY <2>1 DEF ReadRow
    <3>2. run' # Onward
      BY <1>0, <1>2, OnwardRun DEF Run
    <3>3. QED
      BY <1>0, <1>t, <2>1, <3>1, <3>2, ReadRowRun DEF PlanKept
  <2>2. CASE run.stage = "write"
    <3>1. WriteRow \/ Fail \/ ManagerActs \/ Undisturbed
      BY <2>2, ByStage
    <3>2. CASE WriteRow \/ Fail
      <4>1. run' = Onward \/ run' = Resting
        BY <3>2 DEF WriteRow, Fail
      <4>2. QED
        BY <1>0, <1>2, <4>1, OnwardRun, RestingRun DEF Run
    <3>3. CASE ManagerActs
      BY <2>2, <3>3, ManagerRun DEF StillAsRead
    <3>4. CASE Undisturbed
      BY <2>2, <3>4 DEF StillAsRead, Undisturbed
    <3>5. QED
      BY <3>1, <3>2, <3>3, <3>4
  <2>3. QED
    BY <1>2, <2>1, <2>2, StageFacts
<1>3. QED
  BY <1>1, <1>2 DEF StillAsRead, IsOpen

-----------------------------------------------------------------------------
(* What the plan chose *)

\* The manager changes a row by an answer or a correction.
LEMMA ManagerChanges ==
  ASSUME TypeOK, ManagerActs, NEW p \in Player, row'[p] # row[p]
  PROVE  Confirms(p) \/ Reports(p)
<1>0. row \in [Player -> Opportunity]
  BY TypesHere
<1>1. ASSUME NEW r \in Rec, NEW a \in Action, Acknowledge(r, a) PROVE Confirms(p)
  <2> DEFINE q == rec[r].player
             new == Confirmed(row[q], r, a, now)
  <2>1. row' = [row EXCEPT ![q] = new]
    BY <1>1 DEF Acknowledge
  <2> HIDE DEF q, new
  <2>2. p = q /\ row'[p] = new
    BY <1>0, <2>1
  <2>3. QED
    BY <1>1, <2>2 DEF Confirms, q, new
<1>2. ASSUME NEW q \in Player, NEW a \in Correction, Correct(q, a) PROVE Reports(p)
  <2> DEFINE new == Reported(row[q], a, now, Deadline[q])
  <2>1. row' = [row EXCEPT ![q] = new]
    BY <1>2 DEF Correct, Corrected
  <2> HIDE DEF new
  <2>2. p = q /\ row'[p] = new
    BY <1>0, <2>1
  <2>3. QED
    BY <1>2, <2>2 DEF Reports, new
<1>3. QED
  BY <1>1, <1>2 DEF ManagerActs

\* A write goes on to the next row, or ends the run.
LEMMA RowWritten ==
  ASSUME TypeOK, WriteRow
  PROVE  /\ \A p \in Player \ {run.cur} : row'[p] = row[p]
         /\ run' = Onward \/ run' = Resting
<1>0. row \in [Player -> Opportunity]
  BY TypesHere
<1>1. row' = row \/ \E new : row' = [row EXCEPT ![run.cur] = new]
  BY DEF WriteRow
<1>2. \A p \in Player \ {run.cur} : row'[p] = row[p]
  BY <1>0, <1>1
<1>3. QED
  BY <1>2 DEF WriteRow

\* Nothing the manager does makes an advisable row unfit to advise on.
LEMMA AdvisableKept ==
  ASSUME TypeOK, ManagerActs, NEW p \in Player, Advisable(p)
  PROVE  Advisable(p)'
<1>0. row[p] \in Opportunity /\ now \in Time
  BY TypesHere
<1>1. CASE row'[p] = row[p]
  BY <1>1 DEF Advisable
<1>2. CASE Confirms(p)
  <2>1. PICK r \in Rec, a \in Action : row'[p] = Confirmed(row[p], r, a, now)
    BY <1>2 DEF Confirms
  <2>2. /\ row'[p].score = row[p].score /\ row'[p].rostered = row[p].rostered
        /\ (row[p].status # "actionable" => row'[p] = row[p])
    BY <1>0, <2>1, ConfirmedFacts
  <2>3. QED
    BY <2>2 DEF Advisable
<1>3. CASE Reports(p)
  <2>1. PICK a \in Correction : /\ MayReport(row[p], a, now, Deadline[p])
                                /\ row'[p] = Reported(row[p], a, now, Deadline[p])
    BY <1>3 DEF Reports, Correct, Corrected
  <2>2. row'[p].score = row[p].score
    BY <1>0, <2>1, ReportedFacts
  <2>3. row[p].rostered = "yes" \/ row[p].status = "ineligible" =>
          row'[p].rostered = "yes" \/ row'[p].status = "ineligible"
    BY <1>0, <2>1, ReportedFacts DEF Correction, Action
  <2>4. QED
    BY <2>2, <2>3 DEF Advisable
<1>4. QED
  BY <1>1, <1>2, <1>3, ManagerChanges

\* A recommendation that waits is for a performance that may be advised on.
ForScored(r) ==
  Waits(r) => row[rec[r].player].rostered = "yes" /\ row[rec[r].player].score # NoScore

\* The plan goes on advising only on whom it may.
LEMMA ChosenAdvisableStep ==
  ASSUME TypeOK, Named, Modes, ChosenAdvisable, \A p \in Player : RowSound(p),
         \A r \in Rec : ForScored(r), [Next]_vars
  PROVE  ChosenAdvisable'
<1>0. /\ run \in Run /\ row \in [Player -> Opportunity] /\ rec \in [Rec -> RecType]
      /\ run.todo \subseteq Player /\ advice.targets \in SUBSET Rec /\ run.made \subseteq Rec
  BY TypesHere DEF Run
<1>t. /\ run.stage = "read" => run.cur \in Player
      /\ \A r \in Rec : Waits(r) => rec[r].player \in Player
  BY DEF Named
<1>m. Modes'
  BY ModesStep
<1>1. ASSUME Preparing', NEW p \in run'.todo
      PROVE  Advisable(p)' /\ (run'.version => Offerable(row'[p]))
  <2> DEFINE Fine == Advisable(p)' /\ (run'.version => Offerable(row'[p]))
  <2>p. p \in Player
    BY <1>1, RunsTyped DEF Run
  <2>k. ASSUME Preparing, p \in run.todo, row'[p] = row[p], run'.version = run.version PROVE Fine
    BY <2>k DEF ChosenAdvisable, Advisable
  <2>1. ManagerActs \/ Undisturbed \/ PlanStep
    BY <1>1, OutsidePlan DEF Preparing
  <2>2. CASE ManagerActs
    <3>1. Preparing /\ p \in run.todo /\ ~run'.version
      BY <1>1, <2>2, ManagerRun DEF Preparing
    <3>2. QED
      BY <2>2, <2>p, <3>1, AdvisableKept DEF ChosenAdvisable
  <2>3. CASE Undisturbed
    BY <1>1, <2>3, <2>k DEF Undisturbed, Preparing
  <2>4. CASE KeepAdvice \/ SweepOld \/ Block
    BY <1>0, <1>1, <2>4, KeepAdviceRun, SweepOldRun, BlockRun DEF Preparing
  <2>5. CASE ChoosePlan
    <3>1. row' = row /\ Usable(p)
      BY <1>0, <1>1, <2>5, ChoosePlanRun DEF ChoosePlan
    <3>2. row[p].status # "absent"
      BY <2>p, <3>1 DEF RowSound, Usable, Absent
    <3>3. QED
      BY <3>1, <3>2 DEF Usable, Advisable, Offerable
  <2>6. CASE ListPending
    <3>1. row' = row
      BY <2>6 DEF ListPending
    <3>2. QED
      BY <1>0, <1>1, <2>6, <2>k, <3>1, ListPendingRun DEF Preparing
  <2>7. CASE CreateChild
    <3>1. PICK q \in Player, r \in Rec \cup {NoRec} :
            run' = [run EXCEPT !.stage = "read", !.cur = q, !.child = r]
      BY <1>0, <2>7, CreateChildCases DEF Free
    <3>2. row' = row /\ run.stage = "child"
      BY <2>7 DEF CreateChild
    <3>3. run'.todo = run.todo /\ run'.version = run.version
      BY <1>0, <3>1, ReadsRow
    <3>4. QED
      BY <1>1, <2>k, <3>2, <3>3 DEF Preparing, Modes
  <2>8. CASE NextTarget
    <3>1. run.mode = "restore"
      BY <2>8 DEF NextTarget, Modes
    <3>2. QED
      BY <1>0, <1>1, <1>t, <2>8, <3>1, NextTargetRun, SettledRun DEF Preparing
  <2>9. CASE WarnRow
    <3>1. run.mode = "warn"
      BY <2>9 DEF WarnRow, Modes
    <3>2. QED
      BY <1>0, <1>1, <2>9, <3>1, WarnRowRun, SettledRun DEF Preparing
  <2>10. CASE ReadRow
    <3>1. row' = row /\ run.stage = "read"
      BY <2>10 DEF ReadRow
    <3>2. run'.mode = run.mode /\ run'.todo \subseteq run.todo /\ run'.version = run.version
      BY <1>0, <1>t, <2>10, <3>1, ReadRowRun, OnwardRun DEF PlanKept
    <3>3. QED
      BY <1>1, <2>k, <3>1, <3>2 DEF Preparing
  <2>11. CASE WriteRow
    <3>1. run.stage = "write" /\ run' = Onward
      BY <1>1, <2>11, RowWritten, RestingRun DEF WriteRow, Preparing
    <3>2. /\ run'.mode = run.mode /\ run'.todo = run.todo \ {run.cur}
          /\ run'.version = run.version /\ run.mode = "prepare"
      BY <1>0, <1>1, <3>1, OnwardRun DEF Preparing
    <3>3. p \in run.todo /\ row'[p] = row[p]
      BY <1>1, <2>11, <2>p, <3>2, RowWritten
    <3>4. QED
      BY <2>k, <3>1, <3>2, <3>3 DEF Preparing
  <2>12. QED
    BY <2>1, <2>2, <2>3, <2>4, <2>5, <2>6, <2>7, <2>8, <2>9, <2>10, <2>11 DEF PlanStep
<1>2. ASSUME Offering' PROVE run'.cur \in Player /\ Advisable(run.cur)'
  <2>1. CASE run'.mode = "prepare"
    <3>1. Preparing' /\ run'.cur \in run'.todo
      BY <1>2, <1>m, <2>1 DEF Preparing, Offering, Modes
    <3>2. run'.todo \subseteq Player
      BY RunsTyped DEF Run
    <3>3. QED
      BY <1>1, <3>1, <3>2 DEF Advisable
  <2>2. CASE run'.mode # "prepare"
    <3> DEFINE Fine == run'.cur \in Player /\ Advisable(run.cur)'
    <3>0. run'.mode = "restore"
      BY <1>2, <2>2, RunsTyped DEF Run, Offering
    <3>k. ASSUME Offering, run'.cur = run.cur, row' = row PROVE Fine
      BY <3>k DEF ChosenAdvisable, Advisable
    <3>1. ManagerActs \/ Undisturbed \/ PlanStep
      BY <1>2, OutsidePlan DEF Offering
    <3>2. CASE ManagerActs
      <4>1. Offering /\ run'.cur = run.cur
        BY <1>2, <3>2, ManagerRun DEF Offering
      <4>2. QED
        BY <3>2, <4>1, AdvisableKept DEF ChosenAdvisable, Advisable
    <3>3. CASE Undisturbed
      BY <1>2, <3>3, <3>k DEF Undisturbed, Offering
    <3>4. CASE KeepAdvice \/ ChoosePlan \/ ListPending \/ SweepOld \/ Block
      BY <1>0, <1>2, <3>4, KeepAdviceRun, ChoosePlanRun, ListPendingRun, SweepOldRun, BlockRun
         DEF Offering
    <3>5. CASE CreateChild
      <4>1. PICK q \in Player, r \in Rec \cup {NoRec} :
              run' = [run EXCEPT !.stage = "read", !.cur = q, !.child = r]
        BY <1>0, <3>5, CreateChildCases DEF Free
      <4>2. run'.mode = run.mode /\ run.stage = "child"
        BY <1>0, <3>5, <4>1, ReadsRow DEF CreateChild
      <4>3. QED
        BY <2>2, <4>2 DEF Modes
    <3>6. CASE NextTarget
      <4> DEFINE r == First(run.made)
      <4>1. r \in Rec /\ Waits(r) /\ run'.cur = rec[r].player
        BY <1>0, <1>2, <1>t, <3>6, NextTargetRun, SettledRun DEF Offering
      <4>2. row' = row
        BY <3>6 DEF NextTarget
      <4> HIDE DEF r
      <4>3. QED
        BY <1>t, <4>1, <4>2 DEF Advisable, ForScored
    <3>7. CASE ReadRow
      <4>1. row' = row /\ run.stage = "read"
        BY <3>7 DEF ReadRow
      <4>2. run' # Onward
        BY <1>0, <1>2, OnwardRun DEF Offering, Run
      <4>3. run'.mode = run.mode /\ run'.cur = run.cur
        BY <1>0, <1>t, <3>7, <4>1, <4>2, ReadRowRun DEF PlanKept
      <4>4. QED
        BY <1>2, <3>k, <4>1, <4>3 DEF Offering
    <3>8. CASE WriteRow
      BY <1>0, <1>2, <3>8, RowWritten, OnwardRun, RestingRun DEF Offering, Run
    <3>9. CASE WarnRow
      <4>1. run.mode = "warn"
        BY <3>9 DEF WarnRow, Modes
      <4>2. QED
        BY <1>0, <1>2, <3>0, <3>9, <4>1, WarnRowRun, SettledRun DEF Offering
    <3>10. QED
      BY <3>1, <3>2, <3>3, <3>4, <3>5, <3>6, <3>7, <3>8, <3>9 DEF PlanStep
  <2>3. QED
    BY <2>1, <2>2
<1>3. QED
  BY <1>1, <1>2 DEF ChosenAdvisable

-----------------------------------------------------------------------------
(* What a step leaves of a row and of the recommendations that wait *)

\* A change of a row that no recommendation for it needs to know of.
Quiet(p) ==
  /\ row'[p].rec = row[p].rec
  /\ row[p].rostered = "yes" => row'[p].rostered = "yes"
  /\ row'[p].score = row[p].score \/ row'[p].status \in Settled
  /\ row'[p].score # NoScore
  /\ row[p].status \in Settled => row'[p].status \in Settled
  /\ row'[p].status = "actionable" =>
       row[p].status = "actionable" /\ row'[p].score = row[p].score

\* Only these change a row in a way that its recommendation needs to know of.
LEMMA QuietRow ==
  ASSUME TypeOK, Named, StillAsRead, NEW p \in Player, RowSound(p), ScoredLate(p),
         row[p].score # NoScore, [Next]_vars
  PROVE  Quiet(p) \/ Observes(p) \/ Warns(p) \/ Offers(p) \/ Reports(p)
<1>0. /\ row[p] \in Opportunity /\ run \in Run /\ now \in Time
  BY TypesHere
<1>s. "actionable" \notin Settled
  BY DEF Settled
<1>1. CASE row'[p] = row[p]
  BY <1>1 DEF Quiet
<1>2. CASE Expires(p)
  <2>1. /\ row'[p].score = row[p].score /\ row'[p].rec = row[p].rec
        /\ row'[p].rostered = row[p].rostered
        /\ row[p].status \in Open => row'[p].status = "expired"
        /\ row[p].status \notin Open => row'[p] = row[p]
    BY <1>0, <1>2, ElapsedFacts DEF Expires
  <2>2. row[p].status \in Settled => row[p].status \notin Open
    BY DEF Open, Settled
  <2>3. QED
    BY <2>1, <2>2 DEF Quiet
<1>3. ~Inserts(p)
  BY DEF Inserts, RowSound, Absent
<1>4. CASE Merges(p)
  <2> DEFINE c == CandidateFor(p)
  <2>1. run.when \in Time /\ run.stage = "merge"
    BY <1>0, <1>4 DEF Run, Merges, MergeRow
  <2>2. Plausible(c) /\ c.evidence = NoEvidence
    BY <1>0, <2>1, SeenPlausible DEF ScoredLate
  <2> HIDE DEF c
  <2>3. /\ row'[p].status = MergedStatus(row[p], c, run.seen.changed)
        /\ row'[p].score = row[p].score /\ row'[p].rec = row[p].rec
        /\ row'[p].rostered = row[p].rostered
    BY <1>0, <1>4, <2>1, <2>2, MergeFacts DEF Merges, c
  <2>4. /\ row[p].ack # "none" => row'[p].status \in Settled
        /\ row'[p].status \in {"actionable"} \cup Settled =>
             SavedStatus(row[p]) \in Settled \/ row'[p].status = row[p].status
    BY <1>0, <2>2, <2>3, MergedStatusFacts
  <2>5. SavedStatus(row[p]) \in Settled => row[p].ack # "none"
    BY <1>0, SavedStatusKept DEF RowSound
  <2>6. QED
    BY <1>s, <2>3, <2>4, <2>5 DEF RowSound, Quiet
<1>5. CASE Rescores(p)
  <2>1. PICK s \in Score : row'[p] = Observed(row[p], s) /\ row[p].status \in Settled
    BY <1>5 DEF Rescores
  <2>2. s # NoScore
    BY OpportunityAssumption
  <2>3. /\ row'[p].status = row[p].status /\ row'[p].score = s /\ row'[p].rec = row[p].rec
        /\ row'[p].rostered = row[p].rostered
    BY <1>0, <2>1, ObservedFacts
  <2>4. QED
    BY <1>s, <2>1, <2>2, <2>3 DEF Quiet
<1>6. CASE Defers(p)
  <2>1. IsOpen(p)
    BY <1>6 DEF Defers, PollRows, StillAsRead
  <2>2. row[p].status \notin Settled
    BY <2>1 DEF IsOpen, Open, Settled
  <2>3. PICK playing \in BOOLEAN : row'[p] = Deferred(row[p], playing)
    BY <1>6 DEF Defers
  <2>4. /\ row'[p].status \in {"active", "finalizing"} /\ row'[p].score = row[p].score
        /\ row'[p].rec = row[p].rec /\ row'[p].rostered = row[p].rostered
    BY <1>0, <2>3, DeferredFacts
  <2>5. QED
    BY <2>2, <2>4 DEF Quiet
<1>7. ~ReadsBefore(p)
  BY <1>0, LockInAssumption, OpportunityAssumption DEF ReadsBefore, ScoredLate, Time
<1>8. CASE ReadsAfter(p)
  <2>1. row[p].status = "ineligible"
    BY <1>8 DEF ReadsAfter, ReadAfterTipoff, Reopenable
  <2>2. /\ row'[p].status = "active" /\ row'[p].score = row[p].score
        /\ row'[p].rec = row[p].rec /\ row'[p].rostered = "yes"
    BY <1>0, <1>8, TipoffFacts DEF ReadsAfter
  <2>3. QED
    BY <2>1, <2>2 DEF Quiet, Settled
<1>9. CASE Confirms(p)
  <2>1. PICK r \in Rec, a \in Action : row'[p] = Confirmed(row[p], r, a, now)
    BY <1>9 DEF Confirms
  <2>2. /\ row'[p].score = row[p].score /\ row'[p].rec = row[p].rec
        /\ row'[p].rostered = row[p].rostered
        /\ row'[p] = row[p] \/ row'[p].status \in Settled
    BY <1>0, <2>1, ConfirmedFacts
  <2>3. QED
    BY <1>1, <1>s, <2>2 DEF Quiet
<1>10. QED
  BY <1>1, <1>2, <1>3, <1>4, <1>5, <1>6, <1>7, <1>8, <1>9, RowChanges

Stays(r) ==
  /\ Waits(r) /\ rec'[r].player = rec[r].player /\ rec'[r].score = rec[r].score
Appears(r) ==
  /\ CreateChild /\ run.version /\ r \in Free /\ ~Waits(r) /\ run'.child = r
  /\ Stored(First(run.todo), r, {q \in run.old : rec[q].player = First(run.todo)})

\* A recommendation that waits after a step waited before, or is the new child.
LEMMA RecsKept ==
  ASSUME TypeOK, Named, [Next]_vars, NEW r \in Rec, Waits(r)'
  PROVE  Stays(r) \/ Appears(r)
<1>0. row \in [Player -> Opportunity] /\ run \in Run /\ rec \in [Rec -> RecType]
  BY TypesHere
<1>1. ASSUME rec' = rec PROVE Stays(r)
  BY <1>1 DEF Waits, Stays
<1>2. ASSUME NEW recs, rec' = Dropped(recs) PROVE Stays(r)
  BY <1>0, <1>2, DroppedFacts DEF Waits, Stays
<1>3. CASE PollRows \/ ChoosePlan \/ SweepOld \/ WarnRow
  <2>1. rec' = rec \/ \E recs : rec' = Dropped(recs)
    BY <1>3 DEF PollRows, ChoosePlan, SweepOld, WarnRow
  <2>2. QED
    BY <1>1, <1>2, <2>1
<1>4. CASE CreateChild
  <2> DEFINE p == First(run.todo)
             recs == {q \in run.old : rec[q].player = p}
  <2>1. p \in Player
    BY <1>0, <1>4, CreateChildCases
  <2>2. ASSUME NEW q \in Free, run.version, Stored(p, q, recs),
               run' = [run EXCEPT !.stage = "read", !.cur = p, !.child = q]
        PROVE  Stays(r) \/ Appears(r)
    <3>1. q \in Rec /\ ~Waits(q)
      BY DEF Free
    <3>2. run'.child = q
      BY <1>0, <2>1, <2>2, <3>1, ReadsRow
    <3>3. CASE r = q
      BY <1>4, <2>2, <3>1, <3>2, <3>3 DEF Appears
    <3>4. CASE r # q
      <4>1. rec'[r] = Dropped(recs)[r]
        BY <1>0, <2>1, <2>2, <3>1, <3>4, StoredFacts
      <4>2. QED
        BY <1>0, <4>1, DroppedFacts DEF Waits, Stays
    <3>5. QED
      BY <3>3, <3>4
  <2>3. \/ \E drop : rec' = Dropped(drop)
        \/ \E q \in Free : /\ run.version /\ Stored(p, q, recs)
                           /\ run' = [run EXCEPT !.stage = "read", !.cur = p, !.child = q]
    BY <1>0, <1>4, CreateChildCases
  <2>4. QED
    BY <1>2, <2>2, <2>3
<1>5. CASE Publish
  <2>1. CASE rec' = [q \in Rec |-> IF q \in run.made /\ Waits(q)
                                   THEN [rec[q] EXCEPT !.status = "sent"] ELSE rec[q]]
    <3>1. \A q \in Rec : /\ [rec[q] EXCEPT !.status = "sent"].player = rec[q].player
                         /\ [rec[q] EXCEPT !.status = "sent"].score = rec[q].score
      BY <1>0 DEF RecType
    <3>2. QED
      BY <1>0, <2>1, <3>1 DEF Waits, Stays
  <2>2. QED
    BY <1>1, <1>5, <2>1 DEF Publish
<1>6. ASSUME NEW q \in Rec, NEW a \in Action, Acknowledge(q, a) PROVE Stays(r)
  <2>1. rec' = [rec EXCEPT ![q].status = "acknowledged"]
    BY <1>6 DEF Acknowledge
  <2>2. QED
    BY <1>0, <2>1 DEF RecType, Waits, Stays
<1>7. ASSUME NEW p \in Player, NEW a \in Correction, Correct(p, a) PROVE Stays(r)
  <2>1. rec' = [q \in Rec |-> IF rec[q].player = p THEN NoRecord ELSE rec[q]]
    BY <1>7 DEF Correct, Corrected
  <2>2. NoRecord.status \notin {"pending", "sent"}
    BY DEF NoRecord
  <2>3. QED
    BY <1>0, <2>1, <2>2 DEF Waits, Stays
<1>8. ASSUME NEW planning \in BOOLEAN, Wake(planning) PROVE Stays(r)
  BY <1>1, <1>8 DEF Wake, Woken
<1>9. ASSUME NEW p \in Player, ReadAfterTipoff(p) PROVE Stays(r)
  BY <1>1, <1>9 DEF ReadAfterTipoff
<1>10. CASE Collect \/ InsertOrRead \/ MergeRow \/ SyncWatch \/ RefreshScores \/ ListDue \/ Fetch
            \/ KeepAdvice \/ Discard \/ ListPending \/ NextTarget \/ ReadRow \/ WriteRow \/ Block
            \/ CheckOpen \/ FinishPoll \/ Fail \/ ReadBeforeTipoff \/ Tick \/ UNCHANGED vars
  BY <1>1, <1>10 DEF Collect, InsertOrRead, MergeRow, SyncWatch, RefreshScores, ListDue, Fetch,
    KeepAdvice, Discard, ListPending, NextTarget, ReadRow, WriteRow, Block, CheckOpen, FinishPoll,
    Fail, ReadBeforeTipoff, Tick, vars
<1>11. QED
  BY <1>3, <1>4, <1>5, <1>6, <1>7, <1>8, <1>9, <1>10 DEF Next, Planner

\* A correction leaves no recommendation for its player.
LEMMA ReportedDrops ==
  ASSUME TypeOK, NEW p \in Player, Reports(p), NEW r \in Rec, Waits(r)'
  PROVE  rec[r].player # p
<1>1. rec' = [q \in Rec |-> IF rec[q].player = p THEN NoRecord ELSE rec[q]]
  BY DEF Reports, Correct, Corrected
<1>2. NoRecord.status \notin {"pending", "sent"}
  BY DEF NoRecord
<1>3. QED
  BY <1>1, <1>2 DEF Waits

\* The new child is for the player whose turn it is, with the score on record.
LEMMA AppearedFacts ==
  ASSUME TypeOK, NEW r \in Rec, Appears(r)
  PROVE  /\ First(run.todo) \in run.todo /\ First(run.todo) \in Player
         /\ rec'[r].player = First(run.todo) /\ rec'[r].score = row[First(run.todo)].score
         /\ row' = row /\ run.stage = "child" /\ run'.stage = "read"
<1>0. row \in [Player -> Opportunity] /\ run \in Run /\ rec \in [Rec -> RecType]
  BY TypesHere
<1>1. First(run.todo) \in run.todo /\ First(run.todo) \in Player
  BY <1>0, CreateChildCases DEF Appears
<1>2. rec'[r].player = First(run.todo) /\ rec'[r].score = row[First(run.todo)].score
  BY <1>0, <1>1, StoredFacts DEF Appears
<1>3. run'.stage = "read"
  <2>1. PICK c \in Rec \cup {NoRec} :
          run' = [run EXCEPT !.stage = "read", !.cur = First(run.todo), !.child = c]
    BY <1>0, CreateChildCases DEF Appears, Free
  <2>2. QED
    BY <1>0, <1>1, <2>1, ReadsRow
<1>4. QED
  BY <1>1, <1>2, <1>3 DEF Appears, CreateChild

-----------------------------------------------------------------------------
(* The recommendations that wait *)

\* The score it was made for is still the one on record, or a decision has settled the row.
Matches(r) ==
  \/ rec[r].score = row[rec[r].player].score
  \/ row[rec[r].player].status \in Settled
Linked(r) == row[rec[r].player].rec = r

\* There is no other for its player, and the row it can be confirmed on is its own.
Alone(r) == Waits(r) => \A q \in Rec : Waits(q) /\ rec[q].player = rec[r].player => q = r
Answers(r) ==
  Waits(r) => \A p \in Player : row[p].status = "actionable" /\ row[p].rec = r =>
                rec[r].player = p /\ rec[r].score = row[p].score

\* A plan in preparation knows it, and the row in hand goes with the child in hand.
InHand(r) ==
  Waits(r) /\ Preparing /\ run.stage # "confirm" => r \in run.old \cup run.made \cup {run.child}
ChildFits(r) ==
  Waits(r) /\ Offering =>
    (rec[r].player = run.cur <=> r = run.child) /\ (r = run.child => Matches(r))

\* If published, its row names it; so does the row of one just made, while nobody decides.
TargetFits(r) ==
  Waits(r) /\ r \in advice.targets =>
    /\ Linked(r) /\ Matches(r)
    /\ run.mode = "warn" /\ run.stage \in {"read", "write"} => rec[r].player # run.cur
MadeFits(r) ==
  Waits(r) /\ r \in run.made =>
    /\ Matches(r)
    /\ run.mode = "prepare" => rec[r].player \notin run.todo /\ (run.version => Linked(r))

RunInv == TypeOK /\ Named /\ Modes /\ StillAsRead /\ ChosenAdvisable
RowInv == \A p \in Player : RowSound(p) /\ ScoredLate(p)
RecInv ==
  \A r \in Rec : ForScored(r) /\ Alone(r) /\ Answers(r) /\ InHand(r) /\ ChildFits(r)
                   /\ TargetFits(r) /\ MadeFits(r)
OfferInv == RunInv /\ RowInv /\ RecInv

\* A row of a recommendation that stays changes quietly, or in one of three ways.
LEMMA ChangesFor ==
  ASSUME OfferInv, [Next]_vars, NEW r \in Rec, Stays(r), Waits(r)'
  PROVE  LET p == rec[r].player
         IN /\ p \in Player /\ rec'[r].player = p /\ rec'[r].score = rec[r].score
            /\ row[p].score # NoScore /\ row[p].rostered = "yes"
            /\ Quiet(p) \/ Observes(p) \/ Warns(p) \/ Offers(p)
<1> DEFINE p == rec[r].player
<1>1. p \in Player /\ row[p].score # NoScore /\ row[p].rostered = "yes"
  BY DEF OfferInv, RunInv, RecInv, Stays, Named, ForScored
<1>2. Quiet(p) \/ Observes(p) \/ Warns(p) \/ Offers(p) \/ Reports(p)
  BY <1>1, QuietRow DEF OfferInv, RunInv, RowInv
<1>3. ~Reports(p)
  BY <1>1, ReportedDrops DEF OfferInv, RunInv
<1>4. QED
  BY <1>1, <1>2, <1>3 DEF Stays

\* The observation of another score puts down what the row was offered for.
LEMMA ObservedDrops ==
  ASSUME TypeOK, NEW p \in Player, Observes(p), row[p].score # NoScore,
         row'[p].score # row[p].score, NEW r \in Rec, row[p].rec = r
  PROVE  ~Waits(r)'
<1>0. row \in [Player -> Opportunity] /\ run \in Run /\ rec \in [Rec -> RecType]
  BY TypesHere
<1> DEFINE held == run.todo \cap run.fresh
<1>1. p \in held /\ p \in Player /\ row[p] \in Opportunity
  BY <1>0 DEF Observes
<1>2. PICK s0 \in Score : row'[p] = Observed(row[p], s0)
  BY DEF Observes
<1>3. row'[p].score = s0
  BY <1>1, <1>2, ObservedFacts
<1>4. CASE \E playing \in BOOLEAN :
             row' = [q \in Player |-> IF q \in held THEN Deferred(row[q], playing) ELSE row[q]]
  <2>1. PICK playing \in BOOLEAN : row'[p] = Deferred(row[p], playing)
    BY <1>1, <1>4
  <2>2. QED
    BY <1>1, <2>1, DeferredFacts
<1>5. CASE \E s \in Score :
             /\ row' = [q \in Player |-> IF q \in held THEN Observed(row[q], s) ELSE row[q]]
             /\ rec' = Dropped({row[q].rec : q \in {q \in held : row[q].score \notin {s, NoScore}}})
  <2>1. PICK s \in Score :
             /\ row' = [q \in Player |-> IF q \in held THEN Observed(row[q], s) ELSE row[q]]
             /\ rec' = Dropped({row[q].rec : q \in {q \in held : row[q].score \notin {s, NoScore}}})
    BY <1>5
  <2>2. row'[p].score = s
    BY <1>1, <2>1, ObservedFacts
  <2>3. r \in {row[q].rec : q \in {q \in held : row[q].score \notin {s, NoScore}}}
    BY <1>1, <2>2
  <2>4. QED
    BY <1>0, <2>1, <2>3, DroppedFacts DEF Waits
<1>6. QED
  BY <1>4, <1>5 DEF Observes, PollRows

\* A recommendation that waits goes on being for a starter with a score,
LEMMA ForScoredStep ==
  ASSUME OfferInv, [Next]_vars, NEW r \in Rec
  PROVE  ForScored(r)'
<1>0. /\ TypeOK /\ Named /\ Modes /\ ChosenAdvisable /\ row \in [Player -> Opportunity]
      /\ run \in Run
  BY TypesHere DEF OfferInv, RunInv
<1> SUFFICES ASSUME Waits(r)'
             PROVE  row'[rec'[r].player].rostered = "yes" /\ row'[rec'[r].player].score # NoScore
  BY DEF ForScored
<1>1. CASE Stays(r)
  <2> DEFINE p == rec[r].player
  <2>1. /\ p \in Player /\ rec'[r].player = p
        /\ row[p].score # NoScore /\ row[p].rostered = "yes"
        /\ Quiet(p) \/ Observes(p) \/ Warns(p) \/ Offers(p)
    BY <1>1, ChangesFor
  <2>2. /\ row[p] \in Opportunity /\ NoScore \notin Score /\ now \in Time
        /\ run.child \in Rec \cup {NoRec}
    BY <1>0, <2>1, OpportunityAssumption, TypesHere DEF Run
  <2> HIDE DEF p
  <2>3. Quiet(p) => row'[p].rostered = "yes" /\ row'[p].score # NoScore
    BY <2>1 DEF Quiet
  <2>4. Observes(p) => row'[p].rostered = "yes" /\ row'[p].score # NoScore
    BY <2>1, <2>2, ObservedFacts DEF Observes
  <2>5. Warns(p) => row'[p].rostered = "yes" /\ row'[p].score # NoScore
    BY <2>1, <2>2, WarnedFacts DEF Warns
  <2>6. Offers(p) => row'[p].rostered = "yes" /\ row'[p].score # NoScore
    BY <2>1, <2>2, OfferedFacts DEF Offers
  <2>7. QED
    BY <2>1, <2>3, <2>4, <2>5, <2>6
<1>2. CASE Appears(r)
  <2> DEFINE p == First(run.todo)
  <2>1. /\ p \in run.todo /\ p \in Player /\ rec'[r].player = p /\ row' = row
        /\ run.stage = "child" /\ run.version
    BY <1>0, <1>2, AppearedFacts DEF Appears
  <2> HIDE DEF p
  <2>2. Preparing
    BY <1>0, <2>1 DEF Modes, Preparing
  <2>3. Advisable(p) /\ Offerable(row[p])
    BY <1>0, <2>1, <2>2 DEF ChosenAdvisable
  <2>4. QED
    BY <2>1, <2>3 DEF Advisable, Offerable
<1>3. QED
  BY <1>0, <1>1, <1>2, RecsKept

\* and the one an actionable row names goes on being for its player and score.
LEMMA AnswersStep ==
  ASSUME OfferInv, [Next]_vars, NEW r \in Rec
  PROVE  Answers(r)'
<1>0. /\ TypeOK /\ Named /\ Modes /\ StillAsRead /\ ChosenAdvisable
      /\ row \in [Player -> Opportunity] /\ run \in Run /\ now \in Time
      /\ run.child \in Rec \cup {NoRec}
  BY TypesHere DEF OfferInv, RunInv, Run
<1> SUFFICES ASSUME Waits(r)', NEW p \in Player, row'[p].status = "actionable", row'[p].rec = r
             PROVE  rec'[r].player = p /\ rec'[r].score = row'[p].score
  BY DEF Answers
<1>p. row[p] \in Opportunity /\ RowSound(p) /\ ScoredLate(p)
  BY <1>0 DEF OfferInv, RowInv
<1>1. ~Observes(p)
  <2>1. ASSUME NEW s \in Score, row'[p] = Observed(row[p], s), Observes(p) PROVE FALSE
    <3>1. row[p].status \in Open
      BY <1>0, <2>1 DEF Observes, PollRows, StillAsRead, IsOpen
    <3>2. row'[p].status \in Settled \cup {"finalizing"}
      BY <1>p, <2>1, ObservedFacts
    <3>3. QED
      BY <3>2 DEF Settled
  <2>2. QED
    BY <2>1 DEF Observes
<1>2. row[p].score # NoScore
  <2>1. RowSound(p)'
    BY <1>0, <1>p, RowSoundStep
  <2>2. row'[p].score # NoScore
    BY <2>1 DEF RowSound
  <2>3. QED
    BY <1>0, <1>1, <1>p, <2>2, ScoreKept
<1>3. ~Warns(p)
  BY <1>p, WarnedFacts DEF Warns
<1>4. ~Reports(p)
  <2>1. ASSUME NEW a \in Correction, MayReport(row[p], a, now, Deadline[p]),
               row'[p] = Reported(row[p], a, now, Deadline[p])
        PROVE  FALSE
    BY <1>0, <1>p, <2>1, ReportedFacts DEF Correction, Action, Settled
  <2>2. QED
    BY <2>1 DEF Reports, Correct, Corrected
<1>5. Quiet(p) \/ Offers(p)
  BY <1>0, <1>1, <1>2, <1>3, <1>4, <1>p, QuietRow
<1>6. CASE Appears(r)
  <2>1. row' = row /\ r \in Free
    BY <1>0, <1>6, AppearedFacts DEF Appears
  <2>2. QED
    BY <2>1 DEF Free, Referenced
<1>7. CASE Stays(r) /\ Quiet(p)
  <2>1. row[p].status = "actionable" /\ row[p].rec = r /\ row'[p].score = row[p].score
    BY <1>7 DEF Quiet
  <2>2. QED
    BY <1>7, <2>1 DEF Stays, Answers, OfferInv, RecInv
<1>8. CASE Stays(r) /\ Offers(p)
  <2>1. row'[p].rec = run.child /\ row'[p].score = row[p].score
    BY <1>0, <1>8, <1>p, OfferedFacts DEF Offers
  <2>2. Offering /\ p = run.cur /\ r = run.child
    BY <1>8, <2>1 DEF Offers, WriteRow, Offering
  <2>3. rec[r].player = p /\ Matches(r)
    BY <1>8, <2>2 DEF OfferInv, RecInv, ChildFits, Stays
  <2>4. row[p].status \notin Settled
    BY <1>0, <1>8, OfferedSound DEF Offerable
  <2>5. QED
    BY <1>8, <2>1, <2>3, <2>4 DEF Matches, Stays
<1>9. QED
  BY <1>0, <1>5, <1>6, <1>7, <1>8, RecsKept

\* Whatever still waits after a child is stored or found is for another player, or that child.
LEMMA ChildAlone ==
  ASSUME OfferInv, CreateChild, [Next]_vars, NEW r \in Rec, Waits(r)', r # run'.child
  PROVE  rec'[r].player # First(run.todo)
<1>0. /\ TypeOK /\ Named /\ Modes /\ run \in Run /\ rec \in [Rec -> RecType]
      /\ row \in [Player -> Opportunity]
  BY TypesHere DEF OfferInv, RunInv
<1> DEFINE p == First(run.todo)
           recs == {q \in run.old : rec[q].player = p}
<1>1. p \in run.todo /\ p \in Player /\ run.stage = "child"
  BY <1>0, CreateChildCases DEF CreateChild
<1>2. Stays(r)
  BY <1>0, RecsKept DEF Appears
<1>3. InHand(r) /\ MadeFits(r) /\ Alone(r)
  BY DEF OfferInv, RecInv
<1>4. r \in run.old \cup run.made
  <2>1. Preparing /\ run.child = NoRec
    BY <1>0, <1>1 DEF Modes, Preparing
  <2>2. QED
    BY <1>1, <1>2, <1>3, <2>1, OpportunityAssumption DEF InHand, Stays
<1>5. r \in run.made => rec[r].player # p
  BY <1>0, <1>1, <1>2, <1>3 DEF MadeFits, Stays, Modes
<1>6. ASSUME NEW drop, {q \in run.old : rec[q].player = p} \subseteq drop \cup {run'.child},
             rec'[r] = Dropped(drop)[r], rec[r].player = p
      PROVE  FALSE
  <2>1. r \in drop
    BY <1>4, <1>5, <1>6
  <2>2. QED
    BY <1>0, <1>6, <2>1, DroppedFacts DEF Waits
<1>7. \E drop : /\ {q \in run.old : rec[q].player = p} \subseteq drop \cup {run'.child}
                /\ rec'[r] = Dropped(drop)[r]
  <2>1. ASSUME NEW e \in Rec, rec' = Dropped({q \in run.old \ {e} : rec[q].player = p}),
               run' = [run EXCEPT !.stage = "read", !.cur = p, !.child = e]
        PROVE  \E drop : /\ {q \in run.old : rec[q].player = p} \subseteq drop \cup {run'.child}
                         /\ rec'[r] = Dropped(drop)[r]
    <3>1. run'.child = e
      BY <1>0, <1>1, <2>1, ReadsRow
    <3>2. QED
      BY <2>1, <3>1
  <2>2. ASSUME NEW e \in Rec, Stored(p, e, recs),
               run' = [run EXCEPT !.stage = "read", !.cur = p, !.child = e]
        PROVE  \E drop : /\ {q \in run.old : rec[q].player = p} \subseteq drop \cup {run'.child}
                         /\ rec'[r] = Dropped(drop)[r]
    <3>1. run'.child = e
      BY <1>0, <1>1, <2>2, ReadsRow
    <3>2. rec'[r] = Dropped(recs)[r]
      BY <1>0, <1>1, <2>2, <3>1, StoredFacts
    <3>3. QED
      BY <3>2
  <2>3. ASSUME rec' = Dropped(recs)
        PROVE  \E drop : /\ {q \in run.old : rec[q].player = p} \subseteq drop \cup {run'.child}
                         /\ rec'[r] = Dropped(drop)[r]
    BY <2>3
  <2>4. QED
    BY <1>0, <2>1, <2>2, <2>3, CreateChildCases DEF Free
<1>8. QED
  BY <1>2, <1>6, <1>7 DEF Stays

\* Two recommendations never wait for one player.
LEMMA AloneStep ==
  ASSUME OfferInv, [Next]_vars, NEW r \in Rec
  PROVE  Alone(r)'
<1>0. TypeOK /\ Named
  BY DEF OfferInv, RunInv
<1> SUFFICES ASSUME Waits(r)', NEW q \in Rec, Waits(q)', rec'[q].player = rec'[r].player, q # r
             PROVE  FALSE
  BY DEF Alone
<1>1. ASSUME NEW a \in Rec, NEW b \in Rec, Waits(a)', Waits(b)', a # b, Appears(a),
             rec'[b].player = rec'[a].player
      PROVE  FALSE
  <2>1. CreateChild /\ run'.child = a
    BY <1>1 DEF Appears
  <2>2. rec'[b].player # First(run.todo)
    BY <1>1, <2>1, ChildAlone
  <2>3. QED
    BY <1>0, <1>1, <2>2, AppearedFacts
<1>2. CASE Stays(r) /\ Stays(q)
  BY <1>2 DEF OfferInv, RecInv, Alone, Stays
<1>3. QED
  BY <1>0, <1>1, <1>2, RecsKept

\* Advice that matches its row goes on matching it, and a row that names it goes on naming it,
\* unless a warning takes the row's place.
LEMMA MatchKept ==
  ASSUME OfferInv, [Next]_vars, NEW r \in Rec, Waits(r), Waits(r)', Matches(r),
         ~Warns(rec[r].player), Linked(r) \/ run.stage # "record"
  PROVE  Matches(r)' /\ (Linked(r) => Linked(r)')
<1>0. /\ TypeOK /\ Named /\ StillAsRead /\ ChosenAdvisable /\ row \in [Player -> Opportunity]
      /\ run \in Run /\ now \in Time /\ run.child \in Rec \cup {NoRec}
  BY TypesHere DEF OfferInv, RunInv, Run
<1>1. Stays(r)
  BY <1>0, RecsKept DEF Appears
<1> DEFINE p == rec[r].player
<1>2. /\ p \in Player /\ rec'[r].player = p /\ rec'[r].score = rec[r].score
      /\ row[p].score # NoScore
      /\ Quiet(p) \/ Observes(p) \/ Offers(p)
  BY <1>1, ChangesFor
<1>3. /\ row[p] \in Opportunity
      /\ Linked(r) <=> row[p].rec = r
      /\ Matches(r) <=> (rec[r].score = row[p].score \/ row[p].status \in Settled)
      /\ Linked(r)' <=> row'[p].rec = r
      /\ Matches(r)' <=> (rec[r].score = row'[p].score \/ row'[p].status \in Settled)
  BY <1>0, <1>2 DEF Linked, Matches
<1> HIDE DEF p
<1>4. CASE Quiet(p)
  BY <1>3, <1>4 DEF Quiet
<1>5. CASE Observes(p)
  <2>1. row'[p].rec = row[p].rec
    BY <1>0, <1>3, <1>5, ObservedFacts DEF Observes
  <2>2. row[p].rec = r
    BY <1>3, <1>5 DEF Observes, PollRows
  <2>3. row'[p].score = row[p].score
    BY <1>0, <1>2, <1>5, <2>2, ObservedDrops
  <2>4. row[p].status \in Open
    BY <1>5 DEF Observes, PollRows, StillAsRead, IsOpen, OfferInv, RunInv
  <2>5. row[p].status \notin Settled
    BY <2>4 DEF Open, Settled
  <2>6. QED
    BY <1>3, <2>1, <2>3, <2>5
<1>6. CASE Offers(p)
  <2>1. row'[p].rec = run.child /\ row'[p].score = row[p].score
    BY <1>0, <1>3, <1>6, OfferedFacts DEF Offers
  <2>2. row[p].status \notin Settled
    BY <1>0, <1>2, <1>6, OfferedSound DEF Offerable
  <2>3. r = run.child
    BY <1>6 DEF OfferInv, RecInv, ChildFits, Offering, Offers, WriteRow, p
  <2>4. QED
    BY <1>3, <2>1, <2>2, <2>3
<1>7. QED
  BY <1>2, <1>4, <1>5, <1>6

\* A plan in preparation goes on knowing every recommendation that waits.
LEMMA InHandStep ==
  ASSUME OfferInv, [Next]_vars, NEW r \in Rec
  PROVE  InHand(r)'
<1>0. /\ TypeOK /\ Named /\ Modes /\ run \in Run /\ rec \in [Rec -> RecType]
      /\ advice.targets \in SUBSET Rec
  BY TypesHere DEF OfferInv, RunInv
<1>t. /\ run.stage = "read" => run.cur \in Player
      /\ \A q \in Rec : Waits(q) => rec[q].player \in Player
  BY <1>0 DEF Named
<1> SUFFICES ASSUME Waits(r)', Preparing', run'.stage # "confirm"
             PROVE  r \in run'.old \cup run'.made \cup {run'.child}
  BY DEF InHand
<1> DEFINE Fine == r \in run'.old \cup run'.made \cup {run'.child}
<1>s. Stays(r) \/ Appears(r)
  BY <1>0, RecsKept
<1>i. InHand(r)
  BY DEF OfferInv, RecInv
<1>k. ASSUME Stays(r), Preparing, run.stage # "confirm", run'.old = run.old,
             run.made \subseteq run'.made, run.child \in run'.made \cup {run'.child, NoRec}
      PROVE  Fine
  <2>1. r # NoRec
    BY OpportunityAssumption
  <2>2. QED
    BY <1>i, <1>k, <2>1 DEF InHand, Stays
<1>1. ManagerActs \/ Undisturbed \/ PlanStep
  BY <1>0, OutsidePlan DEF Preparing
<1>a. CreateChild \/ Stays(r)
  BY <1>s DEF Appears
<1>2. CASE ManagerActs \/ Undisturbed
  <2>1. /\ run'.stage = run.stage /\ run'.mode = run.mode /\ run'.made = run.made
        /\ run'.old = run.old /\ run'.child = run.child
    BY <1>0, <1>2, ManagerRun DEF Undisturbed
  <2>2. Stays(r)
    <3>1. ~Appears(r)
      BY <1>0, <2>1, AppearedFacts
    <3>2. QED
      BY <1>s, <3>1
  <2>3. QED
    BY <1>k, <2>1, <2>2 DEF Preparing
<1>3. CASE KeepAdvice \/ ChoosePlan \/ SweepOld \/ Block
  BY <1>0, <1>3, KeepAdviceRun, ChoosePlanRun, SweepOldRun, BlockRun DEF Preparing
<1>4. CASE ListPending
  <2>1. rec' = rec
    BY <1>4 DEF ListPending
  <2>2. r \in run'.old
    BY <1>0, <1>4, <2>1, ListPendingRun DEF Waits
  <2>3. QED
    BY <2>2
<1>5. CASE CreateChild
  <2>1. PICK q \in Player, c \in Rec \cup {NoRec} :
          run' = [run EXCEPT !.stage = "read", !.cur = q, !.child = c]
    BY <1>0, <1>5, CreateChildCases DEF Free
  <2>2. run'.made = run.made /\ run'.old = run.old /\ run.stage = "child"
    BY <1>0, <1>5, <2>1, ReadsRow DEF CreateChild
  <2>3. run.child = NoRec /\ Preparing
    BY <1>0, <2>2 DEF Modes, Preparing
  <2>4. CASE Appears(r)
    BY <2>4 DEF Appears
  <2>5. QED
    BY <1>k, <1>s, <2>2, <2>3, <2>4
<1>6. CASE NextTarget
  <2>1. run.mode = "restore"
    BY <1>0, <1>6 DEF NextTarget, Modes
  <2>2. QED
    BY <1>0, <1>t, <1>6, <2>1, NextTargetRun, SettledRun DEF Preparing
<1>7. CASE WarnRow
  <2>1. run.mode = "warn"
    BY <1>0, <1>7 DEF WarnRow, Modes
  <2>2. QED
    BY <1>0, <1>7, <2>1, WarnRowRun, SettledRun DEF Preparing
<1>8. CASE ReadRow \/ WriteRow
  <2>1. run.stage \in {"read", "write"} /\ Stays(r)
    BY <1>a, <1>8 DEF ReadRow, WriteRow, CreateChild
  <2>2. CASE run' = Onward
    BY <1>0, <1>k, <2>1, <2>2, OnwardRun DEF Preparing
  <2>3. CASE run' # Onward
    <3>1. ReadRow
      BY <1>0, <1>8, <2>3, RowWritten, RestingRun DEF Preparing
    <3>2. /\ run'.mode = run.mode /\ run'.made = run.made /\ run'.old = run.old
          /\ run'.child = run.child
      BY <1>0, <1>t, <2>3, <3>1, ReadRowRun DEF PlanKept, ReadRow
    <3>3. QED
      BY <1>k, <2>1, <3>2 DEF Preparing
  <2>4. QED
    BY <2>2, <2>3
<1>9. QED
  BY <1>1, <1>2, <1>3, <1>4, <1>5, <1>6, <1>7, <1>8 DEF PlanStep

\* The child about to be named by a row matches it,
LEMMA ChildFitsStep ==
  ASSUME OfferInv, [Next]_vars, NEW r \in Rec
  PROVE  ChildFits(r)'
<1>0. /\ TypeOK /\ Named /\ Modes /\ run \in Run /\ rec \in [Rec -> RecType]
      /\ row \in [Player -> Opportunity] /\ run.made \subseteq Rec /\ advice.targets \in SUBSET Rec
  BY TypesHere DEF OfferInv, RunInv, Run
<1>t. /\ run.stage = "read" => run.cur \in Player
      /\ \A q \in Rec : Waits(q) => rec[q].player \in Player
  BY <1>0 DEF Named
<1> DEFINE Fine == /\ rec'[r].player = run'.cur <=> r = run'.child
                   /\ r = run'.child => Matches(r)'
<1> SUFFICES ASSUME Waits(r)', Offering' PROVE Fine
  BY DEF ChildFits
<1>s. Stays(r) \/ Appears(r)
  BY <1>0, RecsKept
<1>i. ChildFits(r)
  BY DEF OfferInv, RecInv
<1>k. ASSUME Stays(r), Offering, run'.cur = run.cur, run'.child = run.child, ~WriteRow PROVE Fine
  <2>1. Waits(r) /\ (rec[r].player = run.cur <=> r = run.child) /\ (r = run.child => Matches(r))
    BY <1>i, <1>k DEF ChildFits, Stays
  <2>2. r = run.child => Matches(r)'
    BY <1>k, <2>1, MatchKept DEF Warns, Offering
  <2>3. QED
    BY <1>k, <2>1, <2>2 DEF Stays
<1>1. ManagerActs \/ Undisturbed \/ PlanStep
  BY <1>0, OutsidePlan DEF Offering
<1>2. CASE ManagerActs \/ Undisturbed
  <2>1. /\ run'.stage = run.stage /\ run'.mode = run.mode /\ run'.cur = run.cur
        /\ run'.child = run.child
    BY <1>0, <1>2, ManagerRun DEF Undisturbed
  <2>2. ~WriteRow
    <3>1. WriteRow => run'.stage \notin {"read", "write"}
      BY <1>0, RowWritten, OnwardRun, RestingRun DEF Run
    <3>2. QED
      BY <3>1 DEF Offering
  <2>3. ~Appears(r)
    BY <1>0, <2>1, AppearedFacts
  <2>4. QED
    BY <1>k, <1>s, <2>1, <2>2, <2>3 DEF Offering
<1>3. CASE KeepAdvice \/ ChoosePlan \/ ListPending \/ SweepOld \/ Block
  BY <1>0, <1>3, KeepAdviceRun, ChoosePlanRun, ListPendingRun, SweepOldRun, BlockRun
     DEF Offering
<1>4. CASE CreateChild
  <2> DEFINE p == First(run.todo)
  <2>1. PICK c \in Rec \cup {NoRec} :
          /\ run' = [run EXCEPT !.stage = "read", !.cur = p, !.child = c]
          /\ c \in Rec => rec'[c].player = p /\ (Waits(c)' => rec'[c].score = row[p].score)
    <3>1. ASSUME NEW e \in Rec, Waits(e), rec[e].player = p, rec[e].score = row[p].score,
                 rec' = Dropped({q \in run.old \ {e} : rec[q].player = p})
          PROVE  rec'[e].player = p /\ rec'[e].score = row[p].score
      <4>1. rec'[e] = rec[e]
        BY <1>0, <3>1, DroppedFacts
      <4>2. QED
        BY <3>1, <4>1
    <3>2. ASSUME NEW e \in Rec, NEW recs, Stored(p, e, recs)
          PROVE  rec'[e].player = p /\ rec'[e].score = row[p].score
      BY <1>0, <1>4, <3>2, CreateChildCases, StoredFacts
    <3>3. NoRec \notin Rec
      BY OpportunityAssumption
    <3>4. QED
      BY <1>0, <1>4, <3>1, <3>2, <3>3, CreateChildCases DEF Free
  <2>2. p \in Player /\ row' = row
    BY <1>0, <1>4, CreateChildCases DEF CreateChild
  <2>3. run'.cur = p /\ run'.child = c
    BY <1>0, <2>1, <2>2, ReadsRow
  <2>4. CASE r = c
    <3>1. rec'[r].player = p /\ rec'[r].score = row'[p].score
      BY <2>1, <2>2, <2>4
    <3>2. QED
      BY <2>3, <2>4, <3>1 DEF Matches
  <2>5. CASE r # c
    BY <1>4, <2>3, <2>5, ChildAlone
  <2>6. QED
    BY <2>4, <2>5
<1>5. CASE NextTarget
  <2> DEFINE e == First(run.made)
  <2>1. /\ e \in run.made /\ Waits(e) /\ e \in Rec /\ run'.cur = rec[e].player /\ run'.child = e
    BY <1>0, <1>t, <1>5, NextTargetRun, SettledRun DEF Offering
  <2>2. row' = row /\ rec' = rec
    BY <1>5 DEF NextTarget
  <2>3. Waits(r) /\ Alone(e) /\ MadeFits(e)
    BY <2>1, <2>2 DEF OfferInv, RecInv, Waits
  <2> HIDE DEF e
  <2>4. Matches(e)
    BY <2>1, <2>3 DEF MadeFits
  <2>5. rec[r].player = rec[e].player => r = e
    BY <2>1, <2>3 DEF Alone
  <2>6. QED
    BY <2>1, <2>2, <2>4, <2>5 DEF Matches
<1>6. CASE WarnRow
  <2>1. run.mode = "warn"
    BY <1>0, <1>6 DEF WarnRow, Modes
  <2>2. QED
    BY <1>0, <1>6, <2>1, WarnRowRun, SettledRun DEF Offering
<1>7. CASE WriteRow
  BY <1>0, <1>7, RowWritten, OnwardRun, RestingRun DEF Offering, Run
<1>8. CASE ReadRow
  <2>1. run.stage = "read" /\ ~WriteRow /\ ~CreateChild
    BY <1>8 DEF ReadRow, WriteRow, CreateChild
  <2>2. run' # Onward
    BY <1>0, OnwardRun DEF Offering, Run
  <2>3. run'.mode = run.mode /\ run'.cur = run.cur /\ run'.child = run.child
    BY <1>0, <1>t, <1>8, <2>1, <2>2, ReadRowRun DEF PlanKept
  <2>4. QED
    BY <1>k, <1>s, <2>1, <2>3 DEF Offering, Appears
<1>9. QED
  BY <1>1, <1>2, <1>3, <1>4, <1>5, <1>6, <1>7, <1>8 DEF PlanStep

\* What has been made in this run goes on matching, as no poll or warning comes in between.
LEMMA MadeMatches ==
  ASSUME OfferInv, [Next]_vars, NEW r \in run.made, Waits(r), Waits(r)'
  PROVE  Matches(r)' /\ (Linked(r) => Linked(r)')
<1>1. r \in Rec /\ Modes
  BY TypesHere DEF OfferInv, RunInv, Run
<1>2. Matches(r)
  BY <1>1 DEF OfferInv, RecInv, MadeFits
<1>3. run.mode # "warn" /\ run.stage # "record"
  BY <1>1 DEF Modes
<1>4. QED
  BY <1>1, <1>2, <1>3, MatchKept DEF Warns

\* so do the children already made,
LEMMA MadeFitsStep ==
  ASSUME OfferInv, [Next]_vars, NEW r \in Rec
  PROVE  MadeFits(r)'
<1>0. /\ TypeOK /\ Named /\ Modes /\ run \in Run /\ rec \in [Rec -> RecType]
      /\ row \in [Player -> Opportunity] /\ run.made \subseteq Rec /\ advice.targets \in SUBSET Rec
      /\ StillAsRead /\ ChosenAdvisable
  BY TypesHere DEF OfferInv, RunInv, Run
<1>t. /\ run.stage = "read" => run.cur \in Player
      /\ \A q \in Rec : Waits(q) => rec[q].player \in Player
  BY <1>0 DEF Named
<1>m. Modes'
  BY <1>0, ModesStep
<1> DEFINE Fine == /\ Matches(r)'
                   /\ run'.mode = "prepare" =>
                        rec'[r].player \notin run'.todo /\ (run'.version => Linked(r)')
<1> SUFFICES ASSUME Waits(r)', r \in run'.made PROVE Fine
  BY DEF MadeFits
<1>s. Stays(r) \/ Appears(r)
  BY <1>0, RecsKept
<1>f. Appears(r) => r \notin run.made
  BY DEF Appears, Free, Referenced
<1>k. ASSUME r \in run.made,
             run'.mode = "prepare" => /\ run.mode = "prepare" /\ run'.todo \subseteq run.todo
                                      /\ run'.version \in {run.version, FALSE}
      PROVE  Fine
  <2>1. Stays(r) /\ MadeFits(r)
    BY <1>f, <1>k, <1>s DEF OfferInv, RecInv
  <2>2. Waits(r) /\ rec'[r].player = rec[r].player
    BY <2>1 DEF Stays
  <2>3. Matches(r)' /\ (Linked(r) => Linked(r)')
    BY <1>k, <2>2, MadeMatches
  <2>4. run'.mode = "prepare" => /\ rec'[r].player \notin run'.todo
                                 /\ run'.version => Linked(r)'
    BY <1>k, <2>1, <2>2, <2>3 DEF MadeFits
  <2>5. QED
    BY <2>3, <2>4
<1>1. ManagerActs \/ Undisturbed \/ PlanStep
  BY <1>0, <1>m, OutsidePlan DEF Modes
<1>2. CASE ManagerActs \/ Undisturbed
  <2>1. /\ run'.mode = run.mode /\ run'.made = run.made /\ run'.todo = run.todo
        /\ run'.version \in {run.version, FALSE}
    BY <1>0, <1>2, ManagerRun DEF Undisturbed, Run
  <2>2. QED
    BY <1>k, <2>1
<1>3. CASE KeepAdvice
  <2>1. row' = row /\ rec' = rec
    BY <1>3 DEF KeepAdvice
  <2>2. r \in advice.targets /\ run'.mode = "restore"
    BY <1>0, <1>3, KeepAdviceRun
  <2>3. Matches(r)
    BY <2>1, <2>2 DEF OfferInv, RecInv, TargetFits, Waits
  <2>4. QED
    BY <2>1, <2>2, <2>3 DEF Matches
<1>4. CASE ChoosePlan \/ ListPending \/ Block
  <2>1. run'.made = run.made /\ run.stage \in {"plan", "confirm"}
    BY <1>0, <1>4, ChoosePlanRun, ListPendingRun, BlockRun
  <2>2. QED
    BY <1>0, <2>1 DEF Modes
<1>5. CASE SweepOld
  <2>1. /\ run'.mode = run.mode /\ run'.made = run.made /\ run'.todo = run.todo
        /\ run'.version = run.version
    BY <1>0, <1>5, SweepOldRun
  <2>2. QED
    BY <1>k, <2>1
<1>6. CASE CreateChild
  <2>1. PICK q \in Player, c \in Rec \cup {NoRec} :
          run' = [run EXCEPT !.stage = "read", !.cur = q, !.child = c]
    BY <1>0, <1>6, CreateChildCases DEF Free
  <2>2. /\ run'.mode = run.mode /\ run'.made = run.made /\ run'.todo = run.todo
        /\ run'.version = run.version
    BY <1>0, <2>1, ReadsRow
  <2>3. QED
    BY <1>k, <2>2
<1>7. CASE NextTarget
  <2>1. run.mode = "restore"
    BY <1>0, <1>7 DEF NextTarget, Modes
  <2>2. run'.made \subseteq run.made /\ run'.mode = run.mode
    BY <1>0, <1>t, <1>7, NextTargetRun, SettledRun DEF AtRest
  <2>3. QED
    BY <1>k, <2>1, <2>2
<1>8. CASE WarnRow
  <2>1. run.mode = "warn"
    BY <1>0, <1>8 DEF WarnRow, Modes
  <2>2. run'.made = {}
    BY <1>0, <1>8, <2>1, WarnRowRun, SettledRun DEF AtRest, Modes
  <2>3. QED
    BY <2>2
<1>9. CASE ReadRow \/ WriteRow
  <2>1. run.stage \in {"read", "write"} /\ Stays(r)
    BY <1>9, <1>s DEF ReadRow, WriteRow, Appears, CreateChild
  <2>2. CASE run' # Onward
    <3>1. run' # Resting
      BY RestingRun DEF AtRest
    <3>2. ReadRow
      BY <1>0, <1>9, <2>2, <3>1, RowWritten
    <3>3. /\ run'.mode = run.mode /\ run'.made = run.made /\ run'.todo = run.todo
          /\ run'.version = run.version
      BY <1>0, <1>t, <2>2, <3>2, ReadRowRun DEF PlanKept, ReadRow
    <3>4. QED
      BY <1>k, <3>3
  <2>3. CASE run' = Onward /\ r \in run.made
    <3>1. run'.mode = run.mode /\ run'.version = run.version /\ run'.todo \subseteq run.todo
      BY <1>0, <2>3, OnwardRun
    <3>2. QED
      BY <1>k, <2>3, <3>1
  <2>4. CASE run' = Onward /\ r \notin run.made
    <3>1. /\ run.mode = "prepare" /\ run'.mode = "prepare" /\ r = run.child
          /\ run'.version = run.version /\ run'.todo = run.todo \ {run.cur}
      BY <1>0, <2>4, OnwardRun
    <3>2. Offering /\ Preparing /\ run.cur \in run.todo /\ ChildFits(r) /\ Waits(r)
      BY <1>0, <2>1, <3>1 DEF Offering, Preparing, Modes, OfferInv, RecInv, Stays
    <3>3. rec'[r].player = run.cur /\ rec[r].player = run.cur /\ Matches(r)
      BY <2>1, <3>1, <3>2 DEF ChildFits, Stays
    <3>4. Matches(r)'
      BY <2>1, <3>1, <3>2, <3>3, MatchKept DEF Warns
    <3>5. run'.version => Linked(r)'
      <4>1. SUFFICES ASSUME run.version PROVE Linked(r)'
        BY <3>1
      <4>2. run.cur \in Player /\ Offerable(row[run.cur])
        BY <1>0, <3>2, <4>1 DEF ChosenAdvisable
      <4>3. WriteRow /\ run.cur \in run.fresh
        <5>1. ~ReadRow
          <6>1. ASSUME ReadRow PROVE FALSE
            <7>1. run'.stage = "write"
              BY <1>0, <4>2, <6>1 DEF ReadRow, Run
            <7>2. QED
              BY <1>0, <2>4, <7>1, OnwardRun DEF Run
          <6>2. QED
            BY <6>1
        <5>2. QED
          BY <1>0, <1>9, <4>1, <5>1 DEF WriteRow, StillAsRead
      <4>4. row' = [row EXCEPT ![run.cur] = Offered(row[run.cur], run.child, now)]
        <5>1. r # NoRec /\ run.mode # "warn" /\ run.child # NoRec
          BY <3>1, OpportunityAssumption
        <5>2. QED
          BY <4>3, <5>1 DEF WriteRow
      <4>5. row'[run.cur].rec = r
        <5>1. row'[run.cur] = Offered(row[run.cur], r, now) /\ now \in Time
          BY <1>0, <3>1, <4>2, <4>4, TypesHere
        <5>2. QED
          BY <1>0, <4>2, <5>1, OfferedFacts
      <4>6. QED
        BY <3>3, <4>5 DEF Linked
    <3>6. QED
      BY <3>1, <3>3, <3>4, <3>5
  <2>5. QED
    BY <2>2, <2>3, <2>4
<1>10. QED
  BY <1>1, <1>2, <1>3, <1>4, <1>5, <1>6, <1>7, <1>8, <1>9 DEF PlanStep

\* and the targets of published advice.
LEMMA TargetFitsStep ==
  ASSUME OfferInv, [Next]_vars, NEW r \in Rec
  PROVE  TargetFits(r)'
<1>0. /\ TypeOK /\ Named /\ Modes /\ run \in Run /\ rec \in [Rec -> RecType]
      /\ row \in [Player -> Opportunity] /\ run.made \subseteq Rec /\ advice.targets \in SUBSET Rec
  BY TypesHere DEF OfferInv, RunInv, Run
<1>t. /\ run.stage = "read" => run.cur \in Player
      /\ \A q \in Rec : Waits(q) => rec[q].player \in Player
  BY <1>0 DEF Named
<1> SUFFICES ASSUME Waits(r)', r \in advice'.targets
             PROVE  /\ Linked(r)' /\ Matches(r)'
                    /\ run'.mode = "warn" /\ run'.stage \in {"read", "write"} =>
                         rec'[r].player # run'.cur
  BY DEF TargetFits
<1>s. Stays(r) \/ Appears(r)
  BY <1>0, RecsKept
<1>a. \/ advice' = advice
      \/ advice' = NoAdvice /\ ManagerActs
      \/ Publish /\ run.version /\ advice'.targets = run.made
  <2>1. ASSUME Publish
        PROVE  advice' \in {advice, NoAdvice} \/ (run.version /\ advice'.targets = run.made)
    BY <2>1 DEF Publish
  <2>2. r \notin NoAdvice.targets
    BY DEF NoAdvice
  <2>3. ~Publish => advice' = advice \/ (advice' = NoAdvice /\ ManagerActs)
    BY DEF Next, Planner, Wake, Woken, Collect, InsertOrRead, MergeRow, SyncWatch, RefreshScores,
      ListDue, Fetch, PollRows, KeepAdvice, ChoosePlan, Discard, ListPending, CreateChild,
      NextTarget, ReadRow, WriteRow, SweepOld, Block, WarnRow, CheckOpen, FinishPoll, Fail,
      ReadBeforeTipoff, ReadAfterTipoff, Acknowledge, Correct, Corrected, Tick, vars, ManagerActs
  <2>4. QED
    BY <2>1, <2>2, <2>3
<1>1. advice' # NoAdvice
  BY DEF NoAdvice
<1>2. CASE Publish /\ run.version /\ advice'.targets = run.made
  <2>1. Stays(r) /\ row' = row /\ run.mode = "prepare" /\ run'.mode = "prepare"
    BY <1>0, <1>2, <1>s, SettledRun DEF Publish, Appears, CreateChild, Modes, AtRest
  <2>2. Linked(r) /\ Matches(r)
    BY <1>2, <2>1 DEF OfferInv, RecInv, MadeFits, Stays
  <2>3. Linked(r)' /\ Matches(r)'
    BY <2>1, <2>2 DEF Stays, Linked, Matches
  <2>4. QED
    BY <2>1, <2>3
<1>3. CASE advice' = advice
  <2>1. Stays(r) /\ TargetFits(r) /\ r \in advice.targets
    BY <1>3, <1>s DEF Appears, Free, Referenced, OfferInv, RecInv
  <2>2. Waits(r) /\ Linked(r) /\ Matches(r) /\ rec'[r].player = rec[r].player
    BY <2>1 DEF TargetFits, Stays
  <2>3. ~Warns(rec[r].player)
    BY <2>1, <2>2 DEF TargetFits, Warns, WriteRow
  <2>4. Linked(r)' /\ Matches(r)'
    BY <2>2, <2>3, MatchKept
  <2>5. ASSUME run'.mode = "warn", run'.stage \in {"read", "write"}
        PROVE  rec[r].player # run'.cur
    <3>k. ASSUME run.mode = "warn", run.stage \in {"read", "write"}, run'.cur = run.cur
          PROVE  rec[r].player # run'.cur
      BY <2>1, <2>2, <3>k DEF TargetFits
    <3>1. ManagerActs \/ Undisturbed \/ PlanStep
      BY <1>0, <2>5, OutsidePlan
    <3>2. CASE ManagerActs \/ Undisturbed
      <4>1. run'.mode = run.mode /\ run'.cur = run.cur /\ run'.stage = run.stage
        BY <1>0, <3>2, ManagerRun DEF Undisturbed
      <4>2. QED
        BY <2>5, <3>k, <4>1
    <3>3. CASE KeepAdvice \/ ChoosePlan \/ ListPending \/ SweepOld \/ Block
      BY <1>0, <2>5, <3>3, KeepAdviceRun, ChoosePlanRun, ListPendingRun, SweepOldRun, BlockRun
    <3>4. CASE CreateChild
      <4>1. PICK q \in Player, c \in Rec \cup {NoRec} :
              run' = [run EXCEPT !.stage = "read", !.cur = q, !.child = c]
        BY <1>0, <3>4, CreateChildCases DEF Free
      <4>2. run'.mode = run.mode /\ run.stage = "child"
        BY <1>0, <3>4, <4>1, ReadsRow DEF CreateChild
      <4>3. QED
        BY <1>0, <2>5, <4>2 DEF Modes
    <3>5. CASE NextTarget
      <4>1. run.mode = "restore"
        BY <1>0, <3>5 DEF NextTarget, Modes
      <4>2. QED
        BY <1>0, <1>t, <2>5, <3>5, <4>1, NextTargetRun, SettledRun
    <3>6. CASE WarnRow
      <4> DEFINE p == First(run.todo)
      <4>1. run.todo # {} /\ run'.cur = p /\ p \in Player
        BY <1>0, <2>5, <3>6, WarnRowRun, SettledRun DEF Run
      <4>2. rec' = Dropped({row[p].rec})
        BY <3>6, <4>1 DEF WarnRow
      <4>3. r # row[p].rec
        BY <1>0, <4>2, DroppedFacts DEF Waits
      <4> HIDE DEF p
      <4>4. QED
        BY <2>2, <4>1, <4>3 DEF Linked
    <3>7. CASE ReadRow
      <4>1. run' # Onward
        BY <1>0, <2>5, OnwardRun DEF Run
      <4>2. run'.mode = run.mode /\ run'.cur = run.cur /\ run.stage = "read"
        BY <1>0, <1>t, <3>7, <4>1, ReadRowRun DEF PlanKept, ReadRow
      <4>3. QED
        BY <2>5, <3>k, <4>2
    <3>8. CASE WriteRow
      BY <1>0, <2>5, <3>8, RowWritten, OnwardRun, RestingRun DEF Run
    <3>9. QED
      BY <3>1, <3>2, <3>3, <3>4, <3>5, <3>6, <3>7, <3>8 DEF PlanStep
  <2>6. QED
    BY <2>2, <2>4, <2>5
<1>4. QED
  BY <1>1, <1>2, <1>3, <1>a

\* The invariant of the offers holds at the start,
LEMMA OfferStart == Init => OfferInv
<1> SUFFICES ASSUME Init PROVE OfferInv
  OBVIOUS
<1>1. /\ row = [p \in Player |-> Absent] /\ rec = [r \in Rec |-> NoRecord] /\ run = Resting
      /\ TypeOK /\ Named
  BY TypesStart DEF Init
<1>2. /\ run.stage = "idle" /\ AtRest(run)
  BY <1>1, RestingRun
<1>3. Modes /\ StillAsRead /\ ChosenAdvisable
  BY <1>2 DEF Modes, StillAsRead, ChosenAdvisable, AtRest, Preparing, Offering
<1>4. RowInv
  BY <1>1 DEF RowInv, RowSound, ScoredLate, Absent, Settled
<1>5. \A r \in Rec : ~Waits(r)
  BY <1>1 DEF Waits, NoRecord
<1>6. RecInv
  BY <1>5 DEF RecInv, ForScored, Alone, Answers, InHand, ChildFits, TargetFits, MadeFits
<1>7. QED
  BY <1>1, <1>3, <1>4, <1>6 DEF OfferInv, RunInv

\* and after every step.
LEMMA OfferStep ==
  ASSUME OfferInv, [Next]_vars
  PROVE  OfferInv'
<1>1. /\ TypeOK /\ Named /\ Modes /\ StillAsRead /\ ChosenAdvisable
      /\ \A p \in Player : RowSound(p) /\ ScoredLate(p)
      /\ \A r \in Rec : ForScored(r)
  BY DEF OfferInv, RunInv, RowInv, RecInv
<1>2. RunInv'
  BY <1>1, TypesStep, ModesStep, StillAsReadStep, ChosenAdvisableStep DEF RunInv
<1>3. RowInv'
  BY <1>1, RowSoundStep, ScoredLateStep DEF RowInv
<1>4. RecInv'
  BY ForScoredStep, AloneStep, AnswersStep, InHandStep, ChildFitsStep, TargetFitsStep,
     MadeFitsStep DEF RecInv
<1>5. QED
  BY <1>2, <1>3, <1>4 DEF OfferInv

\* For every roster, week, choice of corrections and interleaving: an actionable row belongs to
\* a performance that started in a slot and has a final score.
THEOREM ActionableRowsAreEligible == Spec => []ActionableIsEligible
<1>1. OfferInv /\ [Next]_vars => OfferInv'
  BY OfferStep
<1>2. OfferInv => ActionableIsEligible
  BY DEF OfferInv, RowInv, RowSound, ActionableIsEligible
<1>3. QED
  BY <1>1, <1>2, OfferStart, PTL DEF Spec

\* And the advice that waits for an answer on it is for that player and for the score on record,
\* whatever corrections of the statistics and of the manager come in between.
THEOREM OffersMatchScores == Spec => []OfferMatchesScore
<1>1. OfferInv /\ [Next]_vars => OfferInv'
  BY OfferStep
<1>2. OfferInv => OfferMatchesScore
  BY DEF OfferInv, RecInv, Answers, Waits, OfferMatchesScore
<1>3. QED
  BY <1>1, <1>2, OfferStart, PTL DEF Spec

-----------------------------------------------------------------------------
(* Decisions *)

\* The owner does not take "not lockable" back by "Sleeper shows a lock".
NoReinstatement == ~({"not_lockable", "lockable"} \subseteq Edits)

\* This run has already brought the row in line with its decision, or reads it before it offers.
Handled(p) ==
  \/ run.stage \in {"refresh", "poll", "fetch", "record", "plan", "confirm", "child", "publish",
                    "restore"}
  \/ Offering
  \/ run.stage \in {"sync", "merge"} /\ p \notin run.todo
InMerge(p) == run.stage = "merge" /\ p = run.cur => p \in run.fresh

\* A decided row stays what the decision made of it, or "not lockable".  A warning may overwrite
\* it, and time expire it; then the next merge restores it before any poll or plan sees it.
Kept(p) ==
  \/ row[p].status \in Settled
  \/ row[p].status = "ineligible" /\ row[p].forfeited = "yes" /\ "not_lockable" \in Edits
Overwritten(p) ==
  row[p].status \in {"reconciliation_required", "expired"} /\ ~Handled(p) /\ InMerge(p)
DecisionKept(p) == row[p].ack # "none" => Kept(p) \/ Overwritten(p)

\* Nobody is asked about a performance that is decided.
AsksUndecided(r) == Waits(r) => row[rec[r].player].ack = "none"
ChosenUndecided == Preparing /\ run.version => \A p \in run.todo : row[p].ack = "none"

DecisionInv ==
  /\ \A p \in Player : DecisionKept(p)
  /\ \A r \in Rec : AsksUndecided(r)
  /\ ChosenUndecided

\* Only an answer or a correction changes the decision on record.
LEMMA AckChanges ==
  ASSUME TypeOK, Named, NEW p \in Player, RowSound(p), [Next]_vars, row'[p].ack # row[p].ack
  PROVE  Confirms(p) \/ Reports(p)
<1>0. row[p] \in Opportunity /\ run \in Run /\ now \in Time
  BY TypesHere
<1>1. ~Expires(p)
  BY <1>0, ElapsedFacts DEF Expires
<1>2. ~Inserts(p)
  <2>1. run.when \in Time /\ Plausible(CandidateFor(p))
    BY <1>0, SeenPlausible DEF Run
  <2>2. QED
    BY <2>1, InsertedFacts DEF Inserts, RowSound, Absent
<1>3. ~Merges(p)
  <2>1. run.when \in Time /\ Plausible(CandidateFor(p))
    BY <1>0, SeenPlausible DEF Run
  <2>2. QED
    BY <1>0, <2>1, MergeFacts DEF Merges
<1>4. ~Rescores(p) /\ ~Observes(p)
  BY <1>0, ObservedFacts DEF Rescores, Observes
<1>5. ~Defers(p)
  BY <1>0, DeferredFacts DEF Defers
<1>6. ~Warns(p) /\ ~Offers(p)
  <2>1. run.child \in Rec \cup {NoRec}
    BY <1>0 DEF Run
  <2>2. QED
    BY <1>0, <2>1, WarnedFacts, OfferedFacts DEF Warns, Offers
<1>7. ~ReadsBefore(p)
  BY <1>0, BeforeTyped DEF ReadsBefore
<1>8. ~ReadsAfter(p)
  BY <1>0, TipoffFacts DEF ReadsAfter
<1>9. QED
  BY <1>1, <1>2, <1>3, <1>4, <1>5, <1>6, <1>7, <1>8, RowChanges

\* A row that waits for its merge goes on waiting for it.
LEMMA UnhandledStays ==
  ASSUME TypeOK, Named, Modes, NEW p \in Player, ~Handled(p), InMerge(p), [Next]_vars,
         row[p].status # "absent", ~(MergeRow /\ p = run.cur), ~ManagerActs
  PROVE  ~Handled(p)' /\ InMerge(p)'
<1>0. row \in [Player -> Opportunity] /\ run \in Run /\ now \in Time
  BY TypesHere
<1> DEFINE Fine == ~Handled(p)' /\ InMerge(p)'
<1>e. run'.stage \in {"idle", "collect", "warn", "check", "finish"} => Fine
  BY DEF Handled, InMerge, Offering
<1>w. run'.mode = "warn" /\ run'.stage \in {"read", "write"} => Fine
  BY DEF Handled, InMerge, Offering
<1>y. (/\ run'.stage = "sync" /\ p \in run'.todo) => Fine
  BY DEF Handled, InMerge, Offering
<1>z. (/\ run'.stage = "merge" /\ p \in run'.todo /\ (p = run'.cur => p \in run'.fresh)) => Fine
  BY DEF Handled, InMerge, Offering
<1>h. /\ run.stage \in {"idle", "collect", "sync", "merge", "read", "write", "warn", "check",
                        "finish"}
      /\ run.stage \in {"read", "write"} => run.mode = "warn"
      /\ run.stage \in {"sync", "merge"} => p \in run.todo
  BY <1>0 DEF Handled, Offering, Run, Stage
<1> SUFFICES Fine
  OBVIOUS
<1> HIDE DEF Fine
<1>1. ASSUME NEW planning \in BOOLEAN, Wake(planning) PROVE Fine
  BY <1>0, <1>1, <1>e, WakeRun
<1>2. CASE run' = run
  BY <1>2, <1>e, <1>w, <1>y, <1>z, <1>h DEF InMerge
<1>3. CASE Collect
  BY <1>0, <1>3, <1>y, CollectRun
<1>4. CASE InsertOrRead
  BY <1>0, <1>4, <1>h, <1>y, <1>z, InsertOrReadRun
<1>5. CASE SyncWatch
  BY <1>0, <1>5, <1>h, SyncWatchRun
<1>6. CASE MergeRow
  BY <1>0, <1>6, <1>h, <1>y, MergeRowRun
<1>7. CASE ReadRow
  <2>1. run.mode = "warn" /\ run.cur \in Player
    BY <1>7, <1>h DEF ReadRow, Named
  <2>2. CASE run' = Onward
    BY <1>0, <1>e, <2>1, <2>2, OnwardRun
  <2>3. CASE run' # Onward
    BY <1>0, <1>7, <1>w, <2>1, <2>3, ReadRowRun DEF PlanKept
  <2>4. QED
    BY <2>2, <2>3
<1>8. CASE WriteRow
  <2>1. run.mode = "warn"
    BY <1>8, <1>h DEF WriteRow
  <2>2. QED
    BY <1>0, <1>8, <1>e, <2>1, RowWritten, OnwardRun, RestingRun
<1>9. CASE WarnRow
  <2>1. run.mode = "warn"
    BY <1>9 DEF WarnRow, Modes
  <2>2. QED
    BY <1>0, <1>9, <1>e, <1>w, <2>1, WarnRowRun, SettledRun
<1>10. CASE CheckOpen \/ FinishPoll
  BY <1>0, <1>10, <1>e, CheckOpenRun, FinishPollRun, RestingRun
<1>11. CASE Fail
  BY <1>11, <1>e, RestingRun DEF Fail
<1>12. CASE Undisturbed \/ ReadBeforeTipoff \/ \E q \in Player : ReadAfterTipoff(q)
  BY <1>2, <1>12 DEF Undisturbed, ReadBeforeTipoff, ReadAfterTipoff
<1>13. QED
  BY <1>1, <1>3, <1>4, <1>5, <1>6, <1>7, <1>8, <1>9, <1>10, <1>11, <1>12, <1>h, ByStage

\* Someone else's acknowledgement or correction takes nothing from the merge of this row.
LEMMA MergeUntouched ==
  ASSUME TypeOK, ManagerActs, NEW p \in Player, ~Handled(p), InMerge(p), row'[p] = row[p]
  PROVE  (~Handled(p)' /\ InMerge(p)') \/ Reports(p)
<1>0. run \in Run /\ row \in [Player -> Opportunity]
  BY TypesHere
<1>1. PICK players : run' = Obsolete(players) /\ (p \in players => Reports(p))
  <2>1. ASSUME NEW r \in Rec, NEW a \in Action, Acknowledge(r, a)
        PROVE  \E players : run' = Obsolete(players) /\ p \notin players
    <3> DEFINE q == rec[r].player
               players == IF row'[q] = row[q] THEN {} ELSE {q}
    <3>1. run' = Obsolete(players)
      BY <2>1 DEF Acknowledge
    <3>2. p \notin players
      OBVIOUS
    <3>3. QED
      BY <3>1, <3>2
  <2>2. ASSUME NEW q \in Player, NEW a \in Correction, Correct(q, a)
        PROVE  \E players : run' = Obsolete(players) /\ (p \in players => Reports(p))
    <3>1. run' = Obsolete({q})
      BY <2>2 DEF Correct, Corrected
    <3>2. p = q => row'[p] = Reported(row[p], a, now, Deadline[p])
      BY <1>0, <2>2 DEF Correct, Corrected
    <3>3. QED
      BY <2>2, <3>1, <3>2 DEF Reports
  <2>3. QED
    BY <2>1, <2>2 DEF ManagerActs
<1>2. /\ run'.stage = run.stage /\ run'.mode = run.mode /\ run'.todo = run.todo
      /\ run'.cur = run.cur /\ run'.fresh = run.fresh \ players
  BY <1>0, <1>1, ObsoleteRun
<1>3. QED
  BY <1>1, <1>2 DEF Handled, InMerge, Offering

\* A decided row stays as decided, or waits for the merge that restores it.
LEMMA DecisionKeptStep ==
  ASSUME NoReinstatement, RunInv, [Next]_vars, NEW p \in Player, RowSound(p), ScoredLate(p),
         DecisionKept(p)
  PROVE  DecisionKept(p)'
<1>0. /\ TypeOK /\ Named /\ Modes /\ StillAsRead /\ ChosenAdvisable
      /\ row[p] \in Opportunity /\ run \in Run /\ now \in Time
  BY TypesHere DEF RunInv
<1> SUFFICES ASSUME row'[p].ack # "none" PROVE Kept(p)' \/ Overwritten(p)'
  BY DEF DecisionKept
<1>o. "actionable" \notin Settled /\ "ineligible" \notin Settled
  BY DEF Settled
<1>1. CASE Confirms(p)
  <2>1. PICK r \in Rec, a \in Action : /\ Acknowledge(r, a) /\ rec[r].player = p
                                       /\ row'[p] = Confirmed(row[p], r, a, now)
    BY <1>1 DEF Confirms
  <2>2. CASE row'[p] # row[p]
    BY <1>0, <2>1, <2>2, ConfirmedFacts DEF Kept
  <2>3. CASE row'[p] = row[p]
    <3>1. CASE Kept(p)
      BY <2>3, <3>1 DEF Kept
    <3>2. CASE Overwritten(p)
      <4>1. run' = Obsolete({})
        BY <2>1, <2>3 DEF Acknowledge
      <4>2. /\ run'.stage = run.stage /\ run'.mode = run.mode /\ run'.todo = run.todo
            /\ run'.cur = run.cur /\ run'.fresh = run.fresh
        BY <1>0, <4>1, ObsoleteRun
      <4>3. QED
        BY <2>3, <3>2, <4>2 DEF Overwritten, Handled, InMerge, Offering
    <3>3. QED
      BY <2>3, <3>1, <3>2 DEF DecisionKept
  <2>4. QED
    BY <2>2, <2>3
<1>2. CASE Reports(p)
  <2>1. PICK a \in Correction : /\ MayReport(row[p], a, now, Deadline[p]) /\ a \in Edits
                                /\ row'[p] = Reported(row[p], a, now, Deadline[p])
    BY <1>2 DEF Reports, Correct, Corrected
  <2>2. CASE a \in Action
    BY <1>0, <2>1, <2>2, ReportedFacts DEF Kept
  <2>3. CASE a = "not_lockable"
    BY <1>0, <2>1, <2>3, ReportedFacts DEF Kept
  <2>4. a # "not_locked"
    BY <1>0, <2>1, ReportedFacts
  <2>5. a # "lockable"
    <3>1. SUFFICES ASSUME a = "lockable" PROVE FALSE
      OBVIOUS
    <3>2. row[p].status = "ineligible" /\ row[p].ack # "none"
      BY <1>0, <2>1, <3>1, ReportedFacts
    <3>3. Kept(p)
      BY <3>2 DEF DecisionKept, Overwritten
    <3>4. QED
      BY <1>o, <2>1, <3>1, <3>2, <3>3 DEF Kept, NoReinstatement
  <2>6. QED
    BY <2>1, <2>2, <2>3, <2>4, <2>5 DEF Correction, Action
<1>3. CASE ~Confirms(p) /\ ~Reports(p)
  <2>1. row[p].ack # "none" /\ row'[p].ack = row[p].ack
    BY <1>0, <1>3, AckChanges
  <2>2. Kept(p) \/ Overwritten(p)
    BY <2>1 DEF DecisionKept
  <2>3. row[p].status \notin {"absent", "actionable"}
    BY <1>o, <2>2 DEF Kept, Overwritten, Settled
  <2>4. CASE Merges(p) \/ ReadsBefore(p)
    <3>1. row'[p].status \in Settled
      <4>1. CASE Merges(p)
        <5>1. run.when \in Time /\ Plausible(CandidateFor(p))
          BY <1>0, SeenPlausible DEF Run
        <5>2. row'[p].status = MergedStatus(row[p], CandidateFor(p), run.seen.changed)
          BY <1>0, <4>1, <5>1, MergeFacts DEF Merges
        <5>3. QED
          BY <1>0, <2>1, <5>1, <5>2, MergedStatusFacts
      <4>2. CASE ReadsBefore(p)
        BY <1>0, <2>1, <4>2, BeforeTyped DEF ReadsBefore
      <4>3. QED
        BY <2>4, <4>1, <4>2
    <3>2. QED
      BY <3>1 DEF Kept
  <2>5. CASE Kept(p) /\ ~Merges(p) /\ ~ReadsBefore(p)
    <3>1. row[p].status \notin Open /\ ~Offerable(row[p])
      BY <2>5 DEF Kept, Settled, Open, Offerable
    <3>2. ~Expires(p) \/ row'[p] = row[p]
      BY <1>0, <3>1, ElapsedFacts DEF Expires
    <3>3. ~Inserts(p)
      BY <2>3 DEF Inserts
    <3>4. Rescores(p) => row'[p].status \in Settled
      BY <1>0, ObservedFacts DEF Rescores
    <3>5. ~Defers(p) /\ ~Observes(p)
      BY <1>0, <3>1 DEF Defers, Observes, PollRows, StillAsRead, IsOpen
    <3>6. ~Offers(p)
      BY <1>0, <3>1, OfferedSound
    <3>7. Warns(p) => Overwritten(p)'
      <4>1. SUFFICES ASSUME Warns(p) PROVE Overwritten(p)'
        OBVIOUS
      <4>2. row'[p].status = "reconciliation_required"
        BY <1>0, <4>1, WarnedFacts DEF Warns
      <4>3. run'.stage \in {"warn", "idle"}
        BY <1>0, <4>1, RowWritten, OnwardRun, RestingRun DEF Warns
      <4>4. QED
        BY <4>2, <4>3 DEF Overwritten, Handled, InMerge, Offering
    <3>8. ~ReadsAfter(p)
      <4>1. SUFFICES ASSUME ReadsAfter(p) PROVE FALSE
        OBVIOUS
      <4>2. row[p].status = "ineligible" /\ row[p].forfeited # "yes"
        BY <4>1 DEF ReadsAfter, ReadAfterTipoff, Reopenable
      <4>3. QED
        BY <1>o, <2>5, <4>2 DEF Kept
    <3>9. row'[p] = row[p] => Kept(p)'
      BY <2>5 DEF Kept
    <3>10. QED
      BY <1>0, <1>3, <2>5, <3>2, <3>3, <3>4, <3>5, <3>6, <3>7, <3>8, <3>9, RowChanges DEF Kept
  <2>6. CASE Overwritten(p) /\ ~Merges(p) /\ ~ReadsBefore(p)
    <3>1. row[p].status \in {"reconciliation_required", "expired"} /\ ~Handled(p) /\ InMerge(p)
      BY <2>6 DEF Overwritten
    <3>2. row'[p] = row[p] \/ Expires(p) \/ Warns(p)
      <4>1. ~Inserts(p) /\ ~Rescores(p)
        BY <2>3, <3>1 DEF Inserts, Rescores, Settled
      <4>2. ~Defers(p) /\ ~Observes(p)
        BY <3>1 DEF Defers, Observes, PollRows, Handled
      <4>3. ~Offers(p)
        BY <3>1 DEF Offers, WriteRow, Handled, Offering
      <4>4. ~ReadsAfter(p)
        BY <3>1 DEF ReadsAfter, ReadAfterTipoff, Reopenable
      <4>5. QED
        BY <1>0, <1>3, <2>6, <4>1, <4>2, <4>3, <4>4, RowChanges
    <3>3. row'[p].status \in {"reconciliation_required", "expired"}
      <4>1. Expires(p) => row'[p].status \in {"reconciliation_required", "expired"}
        BY <1>0, <3>1, ElapsedFacts DEF Expires
      <4>2. Warns(p) => row'[p].status = "reconciliation_required"
        BY <1>0, WarnedFacts DEF Warns
      <4>3. QED
        BY <3>1, <3>2, <4>1, <4>2
    <3>4. CASE ManagerActs /\ row'[p] = row[p]
      BY <1>0, <1>3, <3>1, <3>3, <3>4, MergeUntouched DEF Overwritten
    <3>5. ManagerActs => row'[p] = row[p]
      BY <1>0, <1>3, ManagerChanges
    <3>6. CASE MergeRow /\ p = run.cur
      <4>1. p \in run.fresh
        BY <3>1, <3>6 DEF MergeRow, InMerge
      <4>2. row' = [row EXCEPT ![p] = Merge(row[p], CandidateFor(p), run.seen.changed, run.when)]
        BY <3>6, <4>1 DEF MergeRow
      <4>3. row \in [Player -> Opportunity]
        BY <1>0, TypesHere
      <4>4. Merges(p)
        BY <3>6, <4>1, <4>2, <4>3 DEF Merges
      <4>5. QED
        BY <2>6, <4>4
    <3>7. CASE ~ManagerActs /\ ~(MergeRow /\ p = run.cur)
      <4>1. ~Handled(p)' /\ InMerge(p)'
        BY <1>0, <2>3, <3>1, <3>7, UnhandledStays
      <4>2. QED
        BY <3>3, <4>1 DEF Overwritten
    <3>8. QED
      BY <3>4, <3>5, <3>6, <3>7
  <2>7. QED
    BY <2>2, <2>4, <2>5, <2>6
<1>4. QED
  BY <1>1, <1>2, <1>3

\* Whoever is asked about is undecided,
LEMMA AsksUndecidedStep ==
  ASSUME OfferInv, DecisionInv, [Next]_vars, NEW r \in Rec
  PROVE  AsksUndecided(r)'
<1>0. TypeOK /\ Named /\ Modes /\ RowInv
  BY DEF OfferInv, RunInv
<1> SUFFICES ASSUME Waits(r)' PROVE row'[rec'[r].player].ack = "none"
  BY DEF AsksUndecided
<1>1. CASE Stays(r)
  <2> DEFINE p == rec[r].player
  <2>1. p \in Player /\ rec'[r].player = p /\ row[p].ack = "none" /\ Waits(r)
    BY <1>0, <1>1 DEF Stays, Named, DecisionInv, AsksUndecided
  <2>2. ~Reports(p)
    BY <1>0, <2>1, ReportedDrops
  <2>3. ~Confirms(p)
    <3>1. ASSUME NEW q \in Rec, NEW a \in Action, Acknowledge(q, a), rec[q].player = p
          PROVE  FALSE
      <4>1. Waits(q)
        BY <3>1 DEF Acknowledge, Waits
      <4>2. Alone(r)
        BY DEF OfferInv, RecInv
      <4>3. q = r
        BY <2>1, <3>1, <4>1, <4>2 DEF Alone
      <4>4. rec' = [rec EXCEPT ![r].status = "acknowledged"] /\ rec \in [Rec -> RecType]
        BY <1>0, <3>1, <4>3, TypesHere DEF Acknowledge
      <4>5. rec'[r].status = "acknowledged"
        BY <4>4 DEF RecType
      <4>6. QED
        BY <4>5 DEF Waits
    <3>2. QED
      BY <3>1 DEF Confirms
  <2>4. QED
    BY <1>0, <2>1, <2>2, <2>3, AckChanges DEF RowInv
<1>2. CASE Appears(r)
  <2> DEFINE p == First(run.todo)
  <2>1. /\ p \in run.todo /\ p \in Player /\ rec'[r].player = p /\ row' = row
        /\ run.stage = "child" /\ run.version
    BY <1>0, <1>2, AppearedFacts DEF Appears
  <2> HIDE DEF p
  <2>2. Preparing
    BY <1>0, <2>1 DEF Modes, Preparing
  <2>3. QED
    BY <2>1, <2>2 DEF DecisionInv, ChosenUndecided
<1>3. QED
  BY <1>0, <1>1, <1>2, RecsKept

\* and so is whom the plan chooses.
LEMMA ChosenUndecidedStep ==
  ASSUME OfferInv, DecisionInv, [Next]_vars
  PROVE  ChosenUndecided'
<1>0. /\ TypeOK /\ Named /\ Modes /\ run \in Run /\ row \in [Player -> Opportunity]
      /\ run.todo \subseteq Player /\ run.made \subseteq Rec /\ advice.targets \in SUBSET Rec
      /\ \A p \in Player : RowSound(p)
  BY TypesHere DEF OfferInv, RunInv, RowInv, Run
<1>t. /\ run.stage = "read" => run.cur \in Player
      /\ \A r \in Rec : Waits(r) => rec[r].player \in Player
  BY <1>0 DEF Named
<1> SUFFICES ASSUME Preparing', run'.version, NEW p \in run'.todo PROVE row'[p].ack = "none"
  BY DEF ChosenUndecided
<1>p. p \in Player
  BY <1>0, RunsTyped DEF Run
<1>k. ASSUME Preparing, run.version, p \in run.todo, ~ManagerActs PROVE row'[p].ack = "none"
  <2>1. row[p].ack = "none"
    BY <1>k DEF DecisionInv, ChosenUndecided
  <2>2. ~Confirms(p) /\ ~Reports(p)
    BY <1>k, <1>p DEF Confirms, Reports, ManagerActs
  <2>3. QED
    BY <1>0, <1>p, <2>1, <2>2, AckChanges
<1>1. ~ManagerActs
  BY <1>0, ManagerRun
<1>2. Undisturbed \/ PlanStep
  BY <1>0, <1>1, OutsidePlan DEF Preparing
<1>3. CASE Undisturbed
  BY <1>1, <1>3, <1>k DEF Undisturbed, Preparing
<1>4. CASE KeepAdvice \/ SweepOld \/ Block
  BY <1>0, <1>4, KeepAdviceRun, SweepOldRun, BlockRun DEF Preparing
<1>5. CASE ChoosePlan
  <2>1. row' = row /\ Usable(p) /\ run.stage = "plan"
    BY <1>0, <1>5, ChoosePlanRun DEF ChoosePlan
  <2>2. ~Kept(p) /\ ~Overwritten(p)
    BY <2>1 DEF Kept, Overwritten, Handled, Usable
  <2>3. QED
    BY <1>p, <2>1, <2>2 DEF DecisionInv, DecisionKept
<1>6. CASE ListPending
  BY <1>0, <1>1, <1>6, <1>k, ListPendingRun DEF Preparing
<1>7. CASE CreateChild
  <2>1. PICK q \in Player, r \in Rec \cup {NoRec} :
          run' = [run EXCEPT !.stage = "read", !.cur = q, !.child = r]
    BY <1>0, <1>7, CreateChildCases DEF Free
  <2>2. run'.todo = run.todo /\ run'.version = run.version /\ run.stage = "child"
    BY <1>0, <1>7, <2>1, ReadsRow DEF CreateChild
  <2>3. QED
    BY <1>0, <1>1, <1>k, <2>2 DEF Preparing, Modes
<1>8. CASE NextTarget
  <2>1. run.mode = "restore"
    BY <1>0, <1>8 DEF NextTarget, Modes
  <2>2. QED
    BY <1>0, <1>t, <1>8, <2>1, NextTargetRun, SettledRun DEF Preparing
<1>9. CASE WarnRow
  <2>1. run.mode = "warn"
    BY <1>0, <1>9 DEF WarnRow, Modes
  <2>2. QED
    BY <1>0, <1>9, <2>1, WarnRowRun, SettledRun DEF Preparing
<1>10. CASE ReadRow
  <2>1. run.stage = "read"
    BY <1>10 DEF ReadRow
  <2>2. run'.mode = run.mode /\ run'.todo \subseteq run.todo /\ run'.version = run.version
    BY <1>0, <1>t, <1>10, <2>1, ReadRowRun, OnwardRun DEF PlanKept
  <2>3. QED
    BY <1>1, <1>k, <2>1, <2>2 DEF Preparing
<1>11. CASE WriteRow
  <2>1. run.stage = "write" /\ run' = Onward
    BY <1>0, <1>11, RowWritten, RestingRun DEF WriteRow, Preparing
  <2>2. /\ run'.mode = run.mode /\ run'.todo \subseteq run.todo
        /\ run'.version = run.version
    BY <1>0, <2>1, OnwardRun DEF Preparing
  <2>3. QED
    BY <1>1, <1>k, <2>1, <2>2 DEF Preparing
<1>12. QED
  BY <1>2, <1>3, <1>4, <1>5, <1>6, <1>7, <1>8, <1>9, <1>10, <1>11 DEF PlanStep

\* The invariant of the decisions holds at the start,
LEMMA DecisionStart == Init => DecisionInv
<1> SUFFICES ASSUME Init PROVE DecisionInv
  OBVIOUS
<1>1. /\ \A p \in Player : row[p].ack = "none"
      /\ \A r \in Rec : ~Waits(r)
      /\ run.stage = "idle"
  BY RestingRun DEF Init, Absent, Waits, NoRecord
<1>2. QED
  BY <1>1 DEF DecisionInv, DecisionKept, AsksUndecided, ChosenUndecided, Preparing

\* and after every step.
LEMMA DecisionStep ==
  ASSUME NoReinstatement, OfferInv, DecisionInv, [Next]_vars
  PROVE  DecisionInv'
<1>1. \A p \in Player : DecisionKept(p)'
  BY DecisionKeptStep DEF OfferInv, RowInv, DecisionInv
<1>2. QED
  BY <1>1, AsksUndecidedStep, ChosenUndecidedStep DEF DecisionInv

\* The owner does not use both "not lockable" and its reversal: then nobody is asked about a
\* performance once a decision on it is recorded, and never twice about one performance.
THEOREM DecidedIsNotOffered ==
  ASSUME ~({"not_lockable", "lockable"} \subseteq Edits)
  PROVE  Spec => []NoOfferAfterDecision
<1>0. NoReinstatement
  BY DEF NoReinstatement
<1>1. OfferInv /\ DecisionInv /\ [Next]_vars => OfferInv' /\ DecisionInv'
  BY <1>0, OfferStep, DecisionStep
<1>2. OfferInv /\ DecisionInv => NoOfferAfterDecision
  BY DEF OfferInv, RecInv, Alone, DecisionInv, AsksUndecided, NoOfferAfterDecision
<1>3. Init => OfferInv /\ DecisionInv
  BY OfferStart, DecisionStart
<1>4. QED
  BY <1>1, <1>2, <1>3, PTL DEF Spec

\* An answer to an offer finds no decision on record, so only a correction replaces one.
LEMMA OnlyTheManager ==
  ASSUME OfferInv, DecisionInv, [Next]_vars, NEW p \in Player, row[p].ack # "none",
         row'[p].ack # row[p].ack
  PROVE  \E a \in Correction : Correct(p, a)
<1>1. TypeOK /\ Named /\ RowSound(p) /\ row[p] \in Opportunity /\ now \in Time
  BY TypesHere DEF OfferInv, RunInv, RowInv
<1>2. ~Confirms(p)
  <2>1. row[p].status # "actionable"
    BY DEF DecisionInv, DecisionKept, Kept, Overwritten, Settled
  <2>2. QED
    BY <1>1, <2>1, ConfirmedFacts DEF Confirms
<1>3. QED
  BY <1>1, <1>2, AckChanges DEF Reports

\* And the decision on record changes by a correction of the manager's alone: no acknowledgement
\* of older advice, poll, plan or lineup read replaces it.
THEOREM OnlyTheManagerDecides ==
  ASSUME ~({"not_lockable", "lockable"} \subseteq Edits)
  PROVE  Spec => DecisionIsTheManagers
<1>0. NoReinstatement
  BY DEF NoReinstatement
<1>1. OfferInv /\ DecisionInv /\ [Next]_vars => OfferInv' /\ DecisionInv'
  BY <1>0, OfferStep, DecisionStep
<1>2. OfferInv /\ DecisionInv /\ [Next]_vars =>
        [\A p \in Player : row[p].ack # "none" /\ row'[p].ack # row[p].ack
           => \E a \in Correction : Correct(p, a)]_vars
  BY OnlyTheManager
<1>3. Init => OfferInv /\ DecisionInv
  BY OfferStart, DecisionStart
<1>4. QED
  BY <1>1, <1>2, <1>3, PTL DEF Spec, DecisionIsTheManagers

-----------------------------------------------------------------------------
(* Forfeitures *)

\* Between two plans nothing is remembered of what a poll observed.
Forgotten ==
  run.stage \in {"collect", "sync", "merge", "refresh", "poll", "fetch", "record"} =>
    run.stable = {}

\* A plan that is blocked may put its warning on this row.
Warnable(p) ==
  \/ run.stage = "plan" /\ p \in run.stable
  \/ run.mode = "warn" /\ p \in run.todo

\* A poll that is blocked warns only of rows it has just observed; none is ineligible.
WarnsSound == Forgotten /\ \A p \in Player : Warnable(p) => row[p].status # "ineligible"

\* The rows the poll observed are remembered until the plan is made,
LEMMA StableKept ==
  ASSUME run \in Run, Collect \/ InsertOrRead \/ MergeRow \/ SyncWatch \/ RefreshScores \/ ListDue
                      \/ Fetch \/ \E players : run' = Obsolete(players)
  PROVE  run'.stable = run.stable
<1>1. CASE Collect \/ InsertOrRead
  BY <1>1 DEF Collect, InsertOrRead, Run
<1>2. CASE MergeRow \/ SyncWatch \/ RefreshScores
  BY <1>2 DEF MergeRow, SyncWatch, RefreshScores, Run
<1>3. CASE ListDue \/ Fetch
  BY <1>3 DEF ListDue, Fetch, Run
<1>4. CASE \E players : run' = Obsolete(players)
  BY <1>4 DEF Obsolete, Run
<1>5. QED
  BY <1>1, <1>2, <1>3, <1>4

\* and forgotten with it.
LEMMA RestStable ==
  ASSUME run \in Run
  PROVE  Resting.stable = {} /\ Settle(Planned).stable = {}
<1>1. Planned.stable = {}
  BY DEF Planned, Run
<1>2. QED
  BY <1>1 DEF Resting, Settle

\* Without "not lockable", only the merge, the lineup read and the INSERT make a row ineligible.
LEMMA NotMadeIneligible ==
  ASSUME "not_lockable" \notin Edits, TypeOK, Named, [Next]_vars, NEW p \in Player,
         row[p].status # "ineligible", run.stage \notin {"idle", "sync", "merge"}
  PROVE  row'[p].status # "ineligible"
<1>0. row[p] \in Opportunity /\ run \in Run /\ now \in Time /\ run.child \in Rec \cup {NoRec}
  BY TypesHere DEF Run
<1>1. CASE row'[p] = row[p]
  BY <1>1
<1>2. CASE Expires(p)
  BY <1>0, <1>2, ElapsedFacts DEF Expires
<1>3. ~Inserts(p) /\ ~Merges(p) /\ ~ReadsBefore(p) /\ ~ReadsAfter(p)
  BY DEF Inserts, InsertOrRead, Merges, MergeRow, ReadsBefore, ReadsAfter, ReadAfterTipoff
<1>4. CASE Rescores(p) \/ Observes(p)
  <2>1. PICK s \in Score : row'[p] = Observed(row[p], s)
    BY <1>4 DEF Rescores, Observes
  <2>2. QED
    BY <1>0, <2>1, ObservedFacts
<1>5. CASE Defers(p)
  BY <1>0, <1>5, DeferredFacts DEF Defers
<1>6. CASE Warns(p) \/ Offers(p)
  BY <1>0, <1>6, WarnedFacts, OfferedFacts DEF Warns, Offers
<1>7. CASE Confirms(p)
  <2>1. PICK r \in Rec, a \in Action : row'[p] = Confirmed(row[p], r, a, now)
    BY <1>7 DEF Confirms
  <2>2. row'[p] = row[p] \/ row'[p].status \in Settled
    BY <1>0, <2>1, ConfirmedFacts
  <2>3. QED
    BY <2>2 DEF Settled
<1>8. CASE Reports(p)
  <2>1. PICK a \in Correction : /\ MayReport(row[p], a, now, Deadline[p]) /\ a \in Edits
                                /\ row'[p] = Reported(row[p], a, now, Deadline[p])
    BY <1>8 DEF Reports, Correct, Corrected
  <2>2. CASE a = "not_locked"
    <3>1. row'[p].status = Undecided(row[p], now, Deadline[p])
      <4>1. Reported(row[p], a, now, Deadline[p]) =
              [[row[p] EXCEPT !.late = now >= Start]
                 EXCEPT !.status = Undecided(row[p], now, Deadline[p]), !.ack = "none"]
        BY <2>2 DEF Reported
      <4> DEFINE late == now >= Start
                 status == Undecided(row[p], now, Deadline[p])
      <4>2. row'[p] = [[row[p] EXCEPT !.late = late] EXCEPT !.status = status, !.ack = "none"]
        BY <2>1, <4>1
      <4> HIDE DEF late, status
      <4>3. row'[p].status = status
        BY <1>0, <4>2 DEF Opportunity
      <4>4. QED
        BY <4>3 DEF status
    <3>2. QED
      BY <3>1 DEF Undecided
  <2>3. CASE a \in Action
    <3>1. row'[p].status \in Settled
      BY <1>0, <2>1, <2>3, ReportedFacts
    <3>2. QED
      BY <3>1 DEF Settled
  <2>4. CASE a = "lockable"
    BY <1>0, <2>1, <2>4, ReportedFacts
  <2>5. QED
    BY <2>1, <2>2, <2>3, <2>4 DEF Correction, Action
<1>9. QED
  BY <1>1, <1>2, <1>3, <1>4, <1>5, <1>6, <1>7, <1>8, RowChanges

\* What a poll observed is forgotten when the plan is made.
LEMMA ForgottenStep ==
  ASSUME RunInv, Forgotten, [Next]_vars
  PROVE  Forgotten'
<1>0. /\ TypeOK /\ Named /\ Modes /\ StillAsRead /\ run \in Run
      /\ row \in [Player -> Opportunity] /\ now \in Time
      /\ run.todo \subseteq Player /\ run.stable \subseteq Player /\ run.made \subseteq Rec
      /\ advice.targets \in SUBSET Rec
  BY TypesHere DEF RunInv, Run
<1>t. /\ run.stage = "read" => run.cur \in Player
      /\ \A q \in Rec : Waits(q) => rec[q].player \in Player
  BY <1>0 DEF Named
<1>1. ASSUME run'.stage \in {"collect", "sync", "merge", "refresh", "poll", "fetch", "record"}
      PROVE  run'.stable = {}
  <2> DEFINE Clean == run'.stable = {}
  <2>k. ASSUME run'.stable = run.stable,
               run.stage \in {"collect", "sync", "merge", "refresh", "poll", "fetch", "record"}
        PROVE  Clean
    BY <2>k DEF Forgotten
  <2>1. CASE \E planning \in BOOLEAN : Wake(planning)
    BY <2>1 DEF Wake, Woken, Resting
  <2>2. CASE Collect \/ InsertOrRead \/ MergeRow \/ SyncWatch \/ RefreshScores \/ ListDue \/ Fetch
    BY <1>0, <2>2, <2>k, StableKept DEF Collect, InsertOrRead, MergeRow, SyncWatch, RefreshScores,
      ListDue, Fetch
  <2>3. CASE run' = Settle(Planned) \/ run' = Resting
    BY <1>0, <2>3, RestStable
  <2>4. CASE run' = run
    BY <1>1, <2>4, <2>k
  <2>5. CASE Undisturbed \/ ReadBeforeTipoff \/ \E p \in Player : ReadAfterTipoff(p)
    BY <2>4, <2>5 DEF Undisturbed, ReadBeforeTipoff, ReadAfterTipoff
  <2>6. CASE ManagerActs
    <3>1. \E players : run' = Obsolete(players)
      BY <2>6 DEF ManagerActs, Acknowledge, Correct, Corrected
    <3>2. run'.stage = run.stage
      BY <1>0, <2>6, ManagerRun
    <3>3. QED
      BY <1>0, <1>1, <2>k, <3>1, <3>2, StableKept
  <2>7. CASE KeepAdvice \/ ChoosePlan \/ ListPending \/ SweepOld \/ Block \/ FinishPoll
    BY <1>0, <1>1, <2>7, KeepAdviceRun, ChoosePlanRun, ListPendingRun, SweepOldRun, BlockRun,
       FinishPollRun
  <2>8. CASE CreateChild
    <3>1. PICK q \in Player, r \in Rec \cup {NoRec} :
            run' = [run EXCEPT !.stage = "read", !.cur = q, !.child = r]
      BY <1>0, <2>8, CreateChildCases DEF Free
    <3>2. QED
      BY <1>0, <1>1, <3>1, ReadsRow
  <2>9. CASE NextTarget
    <3>1. run' = Settle(Planned) \/ run'.stage \in {"read", "restore"}
      BY <1>0, <1>t, <2>9, NextTargetRun
    <3>2. QED
      BY <1>1, <2>3, <3>1
  <2>10. CASE WarnRow
    <3>1. run' = Settle(Planned) \/ run'.stage = "read"
      BY <1>0, <2>10, WarnRowRun
    <3>2. QED
      BY <1>1, <2>3, <3>1
  <2>11. CASE ReadRow
    BY <1>0, <1>t, <1>1, <2>11, ReadRowRun, OnwardRun DEF ReadRow, Run
  <2>12. CASE WriteRow
    <3>1. run' = Onward \/ run' = Resting
      BY <1>0, <2>12, RowWritten
    <3>2. QED
      BY <1>0, <1>1, <2>3, <3>1, OnwardRun DEF Run
  <2>13. CASE Publish \/ Discard \/ Fail
    BY <2>3, <2>13 DEF Publish, Discard, Fail
  <2>14. CASE CheckOpen
    BY <1>0, <1>1, <2>3, <2>14, CheckOpenRun
  <2>15. CASE PollRows
    BY <1>0, <1>1, <2>15, PollRowsRun
  <2>16. QED
    BY <2>1, <2>2, <2>5, <2>6, <2>7, <2>8, <2>9, <2>10, <2>11, <2>12, <2>13, <2>14, <2>15, ByStage
<1>2. QED
  BY <1>1 DEF Forgotten

\* The poll records a score for the row, and nobody has written it since the poll listed it.
JustObserved(p) == Observes(p) /\ IsOpen(p)

\* Rows are warned of because they have just been observed.
LEMMA WarnableStep ==
  ASSUME RunInv, Forgotten, [Next]_vars, NEW p \in Player, Warnable(p)'
  PROVE  /\ Warnable(p) \/ JustObserved(p)
         /\ run'.stage \in {"plan", "warn", "read", "write"}
<1>0. /\ TypeOK /\ Named /\ Modes /\ StillAsRead /\ run \in Run
      /\ row \in [Player -> Opportunity] /\ now \in Time
      /\ run.todo \subseteq Player /\ run.stable \subseteq Player /\ run.made \subseteq Rec
      /\ advice.targets \in SUBSET Rec
  BY TypesHere DEF RunInv, Run
<1>t. /\ run.stage = "read" => run.cur \in Player
      /\ \A q \in Rec : Waits(q) => rec[q].player \in Player
  BY <1>0 DEF Named
<1>m. Modes'
  BY <1>0, ModesStep
<1>2. ASSUME run'.stage = "plan", p \in run'.stable PROVE Warnable(p) \/ JustObserved(p)
  <2>1. CASE ManagerActs \/ Undisturbed
    <3>1. run'.stage = run.stage
      BY <1>0, <2>1, ManagerRun DEF Undisturbed
    <3>2. run'.stable = run.stable
      <4>1. run' = run \/ \E players : run' = Obsolete(players)
        BY <2>1 DEF ManagerActs, Acknowledge, Correct, Corrected, Undisturbed
      <4>2. QED
        BY <1>0, <4>1, StableKept
    <3>3. QED
      BY <1>2, <3>1, <3>2 DEF Warnable
  <2>2. CASE RefreshScores
    BY <1>0, <1>2, <2>2, StableKept DEF RefreshScores, Forgotten
  <2>3. CASE PollRows
    <3> DEFINE held == run.todo \cap run.fresh
               stage == IF held = {} THEN "check" ELSE "plan"
    <3>1. \/ run' = [run EXCEPT !.stage = "check", !.todo = {}, !.fresh = {}]
          \/ \E s \in Score :
               /\ run' = [run EXCEPT !.stage = stage, !.todo = {}, !.fresh = {}, !.stable = held]
               /\ PollFrom <= now
               /\ row' = [q \in Player |-> IF q \in held THEN Observed(row[q], s) ELSE row[q]]
      BY <2>3 DEF PollRows
    <3> HIDE DEF held, stage
    <3>2. CASE run' = [run EXCEPT !.stage = "check", !.todo = {}, !.fresh = {}]
      BY <1>0, <1>2, <3>2 DEF Run
    <3>3. CASE \E s \in Score :
               /\ run' = [run EXCEPT !.stage = stage, !.todo = {}, !.fresh = {}, !.stable = held]
               /\ PollFrom <= now
               /\ row' = [q \in Player |-> IF q \in held THEN Observed(row[q], s) ELSE row[q]]
      <4>1. PICK s \in Score :
               /\ run' = [run EXCEPT !.stage = stage, !.todo = {}, !.fresh = {}, !.stable = held]
               /\ PollFrom <= now
               /\ row' = [q \in Player |-> IF q \in held THEN Observed(row[q], s) ELSE row[q]]
        BY <3>3
      <4>2. p \in held
        BY <1>0, <1>2, <4>1 DEF Run
      <4>3. p \in Player /\ row'[p] = Observed(row[p], s)
        BY <1>0, <4>1, <4>2 DEF held
      <4>4. row[p] \in Opportunity /\ IsOpen(p)
        BY <1>0, <2>3, <4>2, <4>3 DEF StillAsRead, PollRows, held
      <4>5. QED
        BY <2>3, <4>1, <4>2, <4>3, <4>4 DEF JustObserved, Observes, held
    <3>4. QED
      BY <3>1, <3>2, <3>3
  <2>4. run'.stage = "plan" => ManagerActs \/ Undisturbed \/ RefreshScores \/ PollRows
    <3>1. ASSUME NEW planning \in BOOLEAN, Wake(planning) PROVE run'.stage # "plan"
      BY <1>0, <3>1, WakeRun
    <3>2. Collect \/ InsertOrRead \/ MergeRow \/ SyncWatch \/ ListDue \/ Fetch => run'.stage # "plan"
      BY <1>0, CollectRun, InsertOrReadRun, MergeRowRun, SyncWatchRun, ListDueRun, FetchRun
    <3>3. KeepAdvice \/ ChoosePlan \/ ListPending \/ SweepOld \/ Block => run'.stage # "plan"
      BY <1>0, KeepAdviceRun, ChoosePlanRun, ListPendingRun, SweepOldRun, BlockRun
    <3>4. CreateChild => run'.stage # "plan"
      <4>1. SUFFICES ASSUME CreateChild PROVE run'.stage # "plan"
        OBVIOUS
      <4>2. PICK q \in Player, r \in Rec \cup {NoRec} :
              run' = [run EXCEPT !.stage = "read", !.cur = q, !.child = r]
        BY <1>0, <4>1, CreateChildCases DEF Free
      <4>3. QED
        BY <1>0, <4>2, ReadsRow
    <3>5. NextTarget \/ WarnRow \/ Publish => run'.stage # "plan"
      BY <1>0, <1>t, NextTargetRun, WarnRowRun, SettledRun DEF Publish
    <3>6. ReadRow => run'.stage # "plan"
      BY <1>0, <1>t, ReadRowRun, OnwardRun DEF ReadRow, Run
    <3>7. WriteRow => run'.stage # "plan"
      BY <1>0, RowWritten, OnwardRun, RestingRun DEF Run
    <3>8. CheckOpen \/ FinishPoll \/ Discard \/ Fail => run'.stage # "plan"
      BY <1>0, CheckOpenRun, FinishPollRun, RestingRun DEF Discard, Fail
    <3>9. run.stage = "idle" /\ (ReadBeforeTipoff \/ \E q \in Player : ReadAfterTipoff(q))
            => run'.stage # "plan"
      BY DEF ReadBeforeTipoff, ReadAfterTipoff
    <3>10. QED
      BY <3>1, <3>2, <3>3, <3>4, <3>5, <3>6, <3>7, <3>8, <3>9, ByStage
  <2>5. QED
    BY <1>2, <2>1, <2>2, <2>3, <2>4
<1>3. ASSUME run'.mode = "warn", p \in run'.todo PROVE Warnable(p)
  <2>1. run'.stage \in {"warn", "read", "write"}
    BY <1>3, <1>m DEF Modes
  <2>k. run.mode = "warn" /\ p \in run.todo => Warnable(p)
    BY DEF Warnable
  <2>2. ManagerActs \/ Undisturbed \/ PlanStep
    BY <1>0, <2>1, OutsidePlan
  <2>3. CASE ManagerActs \/ Undisturbed
    <3>1. run'.stage = run.stage /\ run'.mode = run.mode /\ run'.todo = run.todo
      BY <1>0, <2>3, ManagerRun DEF Undisturbed
    <3>2. QED
      BY <1>3, <2>1, <2>k, <3>1
  <2>4. CASE Block
    <3>1. row' = row /\ run.stage = "plan" /\ run'.todo = run.stable
      BY <1>0, <2>4, BlockRun DEF Block
    <3>2. QED
      BY <1>3, <3>1 DEF Warnable
  <2>5. CASE KeepAdvice \/ ChoosePlan \/ ListPending \/ SweepOld
    BY <1>0, <2>1, <2>5, <1>3, KeepAdviceRun, ChoosePlanRun, ListPendingRun, SweepOldRun
  <2>6. CASE CreateChild
    <3>1. PICK q \in Player, r \in Rec \cup {NoRec} :
            run' = [run EXCEPT !.stage = "read", !.cur = q, !.child = r]
      BY <1>0, <2>6, CreateChildCases DEF Free
    <3>2. run'.mode = run.mode /\ run.stage = "child"
      BY <1>0, <2>6, <3>1, ReadsRow DEF CreateChild
    <3>3. QED
      BY <1>0, <1>3, <3>2 DEF Modes
  <2>7. CASE NextTarget
    <3>1. run.mode = "restore"
      BY <1>0, <2>7 DEF NextTarget, Modes
    <3>2. QED
      BY <1>0, <1>t, <1>3, <2>7, <3>1, NextTargetRun, SettledRun DEF AtRest
  <2>8. CASE WarnRow
    <3>1. run.mode = "warn" /\ run.stage = "warn"
      BY <1>0, <2>8 DEF WarnRow, Modes
    <3>2. p \in run.todo
      BY <1>0, <1>3, <2>8, WarnRowRun, SettledRun DEF AtRest
    <3>3. QED
      BY <2>k, <3>1, <3>2
  <2>9. CASE ReadRow
    <3>1. run.stage = "read" /\ run'.mode = run.mode /\ run'.todo \subseteq run.todo
      BY <1>0, <1>t, <2>9, ReadRowRun, OnwardRun DEF PlanKept, ReadRow
    <3>2. QED
      BY <1>3, <2>k, <3>1
  <2>10. CASE WriteRow
    <3>1. run.stage = "write" /\ run' = Onward
      BY <1>0, <1>3, <2>10, RowWritten, RestingRun DEF WriteRow, AtRest
    <3>2. run'.mode = run.mode /\ run'.todo \subseteq run.todo
      BY <1>0, <3>1, OnwardRun
    <3>3. QED
      BY <1>3, <2>k, <3>1, <3>2
  <2>11. QED
    BY <2>2, <2>3, <2>4, <2>5, <2>6, <2>7, <2>8, <2>9, <2>10 DEF PlanStep
<1>4. run'.stage \in {"plan", "warn", "read", "write"}
  BY <1>m DEF Warnable, Modes
<1>5. QED
  BY <1>2, <1>3, <1>4 DEF Warnable

\* A warning never meets an ineligible row.
LEMMA WarnsSoundStep ==
  ASSUME "not_lockable" \notin Edits, RunInv, WarnsSound, [Next]_vars
  PROVE  WarnsSound'
<1>0. TypeOK /\ Named /\ Modes /\ StillAsRead /\ Forgotten /\ row \in [Player -> Opportunity]
  BY TypesHere DEF RunInv, WarnsSound
<1>1. Forgotten'
  BY <1>0, ForgottenStep
<1>2. ASSUME NEW p \in Player, Warnable(p)' PROVE row'[p].status # "ineligible"
  <2>1. CASE Warnable(p)
    <3>1. run.stage \notin {"idle", "sync", "merge"} /\ row[p].status # "ineligible"
      BY <1>0, <2>1 DEF Warnable, Modes, WarnsSound
    <3>2. QED
      BY <1>0, <3>1, NotMadeIneligible
  <2>2. CASE JustObserved(p)
    BY <1>0, <2>2, ObservedFacts DEF JustObserved, Observes, IsOpen, Open, Settled
  <2>3. QED
    BY <1>0, <1>2, <2>1, <2>2, WarnableStep
<1>3. QED
  BY <1>1, <1>2 DEF WarnsSound

\* Nothing is warned of at the start.
LEMMA WarnsSoundStart == Init => WarnsSound
<1>1. Init => run = Resting /\ Resting.stable = {} /\ Resting.stage = "idle" /\ Resting.todo = {}
  BY DEF Init, Resting
<1>2. QED
  BY <1>1, RestingRun DEF WarnsSound, Forgotten, Warnable, AtRest

Forfeited(p) == row[p].status = "ineligible" /\ row[p].forfeited = "yes"

\* A forfeited row stays forfeited unless the owner reports a lock.
LEMMA ForfeitedStep ==
  ASSUME "not_lockable" \notin Edits, OfferInv, DecisionInv, WarnsSound, [Next]_vars,
         NEW p \in Player, Forfeited(p)
  PROVE  Forfeited(p)' \/ Correct(p, "lockable")
<1>0. /\ TypeOK /\ Named /\ Modes /\ StillAsRead /\ ChosenAdvisable
      /\ row[p] \in Opportunity /\ run \in Run /\ now \in Time
  BY TypesHere DEF OfferInv, RunInv
<1>1. row[p].ack = "none" /\ row[p].status = "ineligible" /\ row[p].forfeited = "yes"
  <2>1. row[p].status = "ineligible" /\ row[p].forfeited = "yes"
    BY DEF Forfeited
  <2>2. ~Kept(p) /\ ~Overwritten(p)
    BY <2>1 DEF Kept, Overwritten, Settled
  <2>3. QED
    BY <2>1, <2>2 DEF DecisionInv, DecisionKept
<1>2. CASE row'[p] = row[p]
  BY <1>2 DEF Forfeited
<1>3. ~Expires(p) \/ row'[p] = row[p]
  BY <1>0, <1>1, ElapsedFacts DEF Expires, Open
<1>4. ~Inserts(p) /\ ~Rescores(p)
  BY <1>1 DEF Inserts, Rescores, Settled
<1>5. Merges(p) => Forfeited(p)'
  <2>1. SUFFICES ASSUME Merges(p) PROVE Forfeited(p)'
    OBVIOUS
  <2> DEFINE c == CandidateFor(p)
             changed == run.seen.changed
  <2>2. run.when \in Time /\ Plausible(c)
    BY <1>0, SeenPlausible DEF Run
  <2>3. row'[p] = Merge(row[p], c, changed, run.when)
    BY <2>1 DEF Merges
  <2> HIDE DEF c, changed
  <2>4. row'[p].status = MergedStatus(row[p], c, changed)
    BY <1>0, <2>2, <2>3, MergeFacts
  <2>5. Forfeits(row[p], c) => row'[p].forfeited = "yes"
    BY <1>0, <2>2, <2>3, MergeFacts
  <2>6. QED
    BY <1>0, <1>1, <2>2, <2>4, <2>5, MergedStatusFacts DEF Forfeited
<1>6. ~Defers(p) /\ ~Observes(p)
  BY <1>1, <1>0 DEF Defers, Observes, PollRows, StillAsRead, IsOpen, Open
<1>7. ~Warns(p)
  BY <1>0, <1>1 DEF Warns, WriteRow, Modes, WarnsSound, Warnable
<1>8. ~Offers(p)
  BY <1>0, <1>1, OfferedSound DEF Offerable
<1>9. ReadsBefore(p) => Forfeited(p)'
  BY <1>0, <1>1, BeforeTyped DEF ReadsBefore, Forfeited
<1>10. ~ReadsAfter(p)
  BY <1>1 DEF ReadsAfter, ReadAfterTipoff, Reopenable
<1>11. ~Confirms(p) \/ row'[p] = row[p]
  BY <1>0, <1>1, ConfirmedFacts DEF Confirms
<1>12. Reports(p) => Correct(p, "lockable")
  <2>1. SUFFICES ASSUME NEW a \in Correction, Correct(p, a) PROVE a = "lockable"
    BY DEF Reports
  <2>2. MayReport(row[p], a, now, Deadline[p]) /\ a \in Edits
    BY <2>1 DEF Correct, Corrected
  <2>3. QED
    BY <1>0, <1>1, <2>2, ReportedFacts DEF Correction, Action
<1>13. QED
  BY <1>0, <1>2, <1>3, <1>4, <1>5, <1>6, <1>7, <1>8, <1>9, <1>10, <1>11, <1>12, RowChanges

\* The three invariants together are inductive without "not lockable".
LEMMA LossesStep ==
  ASSUME "not_lockable" \notin Edits, OfferInv, DecisionInv, WarnsSound, [Next]_vars
  PROVE  OfferInv' /\ DecisionInv' /\ WarnsSound'
<1>1. NoReinstatement
  BY DEF NoReinstatement
<1>2. QED
  BY <1>1, OfferStep, DecisionStep, WarnsSoundStep DEF OfferInv

\* If the owner does not use "not lockable" either, a performance that was forfeited stays so,
\* whatever polls, plans, lineup reads and other corrections follow, until the owner reopens it.
THEOREM OnlyTheOwnerReopens ==
  ASSUME "not_lockable" \notin Edits
  PROVE  Spec => ForfeitureSticks
<1>1. OfferInv /\ DecisionInv /\ WarnsSound /\ [Next]_vars
        => OfferInv' /\ DecisionInv' /\ WarnsSound'
  BY LossesStep
<1>2. OfferInv /\ DecisionInv /\ WarnsSound /\ [Next]_vars =>
        [\A p \in Player :
           row[p].status = "ineligible" /\ row[p].forfeited = "yes"
             => \/ row'[p].status = "ineligible" /\ row'[p].forfeited = "yes"
                \/ Correct(p, "lockable")]_vars
  BY ForfeitedStep DEF Forfeited
<1>3. Init => OfferInv /\ DecisionInv /\ WarnsSound
  BY OfferStart, DecisionStart, WarnsSoundStart
<1>4. QED
  BY <1>1, <1>2, <1>3, PTL DEF Spec, ForfeitureSticks

-----------------------------------------------------------------------------
(* What the planner saw on the bench *)

\* A performance seen to be benched is forfeited, or settled by a decision on record.
BenchedInv == \A p \in benched : p \in Player /\ (Forfeited(p) \/ row[p].ack # "none")

\* A merge that sees the player on the bench forfeits the row, unless it is decided.
LEMMA BenchedForfeits ==
  ASSUME OfferInv, NEW p \in Player, MergeRow, SeenOnBench(p)
  PROVE  Forfeited(p)' \/ row'[p].ack # "none"
<1>0. /\ row \in [Player -> Opportunity] /\ row[p] \in Opportunity /\ run \in Run
      /\ RowSound(p)
  BY TypesHere DEF OfferInv, RunInv, RowInv
<1> DEFINE c == CandidateFor(p)
           changed == run.seen.changed
<1>1. run.when \in Time /\ Plausible(c)
  BY <1>0, SeenPlausible DEF Run
<1>2. p = run.cur /\ p \in run.fresh /\ ~c.starter /\ c.observed >= Start /\ Begun(row[p], c)
  BY <1>0 DEF SeenOnBench, CandidateFor, Candidate, Run
<1>3. row'[p] = Merge(row[p], c, changed, run.when)
  BY <1>0, <1>2 DEF MergeRow
<1> HIDE DEF c, changed
<1>4. /\ row'[p].status = MergedStatus(row[p], c, changed) /\ row'[p].ack = row[p].ack
      /\ Forfeits(row[p], c) => row'[p].forfeited = "yes"
  BY <1>0, <1>1, <1>3, MergeFacts
<1>5. CASE row[p].ack # "none"
  BY <1>4, <1>5
<1>6. CASE row[p].ack = "none"
  <2>1. SavedStatus(row[p]) \notin Settled
    BY <1>0, <1>6, SavedStatusKept DEF RowSound
  <2>2. Forfeits(row[p], c)
    BY <1>2, <2>1 DEF Forfeits
  <2>3. MergedStatus(row[p], c, changed) = "ineligible"
    BY <2>1, <2>2 DEF MergedStatus
  <2>4. QED
    BY <1>4, <2>2, <2>3 DEF Forfeited
<1>7. QED
  BY <1>5, <1>6

\* Neither the forfeiture nor the decision goes away.
LEMMA BenchedStep ==
  ASSUME Edits \cap {"not_lockable", "not_locked"} = {}, OfferInv, DecisionInv, WarnsSound,
         BenchedInv, [HistoryNext]_<<vars, benched, dismissed>>
  PROVE  BenchedInv'
<1>1. [Next]_vars
  BY DEF HistoryNext, vars
<1>2. CASE UNCHANGED <<vars, benched, dismissed>>
  BY <1>2 DEF BenchedInv, Forfeited, vars
<1>3. CASE HistoryNext
  <2> SUFFICES ASSUME NEW p \in benched' PROVE p \in Player /\ (Forfeited(p)' \/ row'[p].ack # "none")
    BY DEF BenchedInv
  <2>1. /\ p \in benched \/ (p \in Player /\ MergeRow /\ SeenOnBench(p))
        /\ p \in Player => ~Correct(p, "lockable")
    BY <1>3 DEF HistoryNext, Remember
  <2>2. p \in Player
    BY <2>1 DEF BenchedInv
  <2>3. CASE p \notin benched
    BY <2>1, <2>3, BenchedForfeits
  <2>4. CASE Forfeited(p)
    BY <1>1, <2>1, <2>2, <2>4, ForfeitedStep
  <2>5. CASE row[p].ack # "none"
    <3>1. SUFFICES ASSUME row'[p].ack # row[p].ack PROVE row'[p].ack # "none"
      BY <2>2, <2>5
    <3>2. TypeOK /\ Named /\ RowSound(p) /\ row[p] \in Opportunity /\ now \in Time
      BY <2>2, TypesHere DEF OfferInv, RunInv, RowInv
    <3>3. row[p].status # "actionable"
      BY <2>2, <2>5 DEF DecisionInv, DecisionKept, Kept, Overwritten, Settled
    <3>4. ~Confirms(p)
      BY <3>1, <3>2, <3>3, ConfirmedFacts DEF Confirms
    <3>5. PICK a \in Correction : Correct(p, a) /\ row'[p] = Reported(row[p], a, now, Deadline[p])
      BY <1>1, <2>2, <3>1, <3>2, <3>4, AckChanges DEF Reports
    <3>6. MayReport(row[p], a, now, Deadline[p]) /\ a \in Edits
      BY <3>5 DEF Correct, Corrected
    <3>7. QED
      BY <2>5, <3>2, <3>5, <3>6, ReportedFacts DEF Correction, Action
  <2>6. QED
    BY <2>1, <2>2, <2>3, <2>4, <2>5 DEF BenchedInv
<1>4. QED
  BY <1>2, <1>3

\* And one the planner saw on the bench during its game is not offered again, settled or not, if
\* the owner neither withdraws a decision nor uses "not lockable".
THEOREM BenchedStaysUnoffered ==
  ASSUME Edits \cap {"not_lockable", "not_locked"} = {}
  PROVE  HistorySpec => []BenchedIsNotOffered
<1>0. "not_lockable" \notin Edits
  OBVIOUS
<1> DEFINE Inv == OfferInv /\ DecisionInv /\ WarnsSound /\ BenchedInv
<1>1. HistoryInit => Inv
  BY OfferStart, DecisionStart, WarnsSoundStart DEF HistoryInit, BenchedInv
<1>2. Inv /\ [HistoryNext]_<<vars, benched, dismissed>> => Inv'
  <2>1. [HistoryNext]_<<vars, benched, dismissed>> => [Next]_vars
    BY DEF HistoryNext, vars
  <2>2. QED
    BY <1>0, <2>1, LossesStep, BenchedStep
<1>3. Inv => BenchedIsNotOffered
  <2>1. SUFFICES ASSUME Inv, NEW p \in benched PROVE row[p].status # "actionable"
    BY DEF BenchedIsNotOffered
  <2>2. p \in Player /\ (Forfeited(p) \/ row[p].ack # "none")
    BY <2>1 DEF BenchedInv
  <2>3. DecisionKept(p)
    BY <2>1, <2>2 DEF DecisionInv
  <2>4. QED
    BY <2>2, <2>3 DEF Forfeited, DecisionKept, Kept, Overwritten, Settled
<1>4. QED
  BY <1>1, <1>2, <1>3, PTL DEF HistorySpec

-----------------------------------------------------------------------------
(* The watch of the game *)

\* A performance that can still be locked or passed, and a poll that will look at it in time.
Live(p) == IsOpen(p) /\ row[p].rostered = "yes" /\ now < Deadline[p]
Covers(k, p) == poll[k] # "none" /\ Deadline[p] <= until[k]
Covered(p) == poll[Watch] = "completed" => \E k \in Recheck : Covers(k, p)

Watching == poll[Watch] \in {"running", "completed"}

\* Where the polls stand: a claimed one runs and is due, and by then no snapshot in use is
\* evidence from before tipoff.
PollsSound ==
  /\ \A k \in run.claimed : poll[k] = "running"
  /\ poll[Watch] = "running" => Watch \in run.claimed
  /\ run.stage = "idle" => run.claimed = {}
  /\ Watching => PollFrom <= now
  /\ Watching /\ run.stage \in {"sync", "merge"} => Start <= run.seen.snapshot
  /\ run.at <= now

ExpiredLate == \A p \in Player : row[p].status = "expired" => Deadline[p] <= now

\* What is open although the run found nothing open was reopened since, with a poll of its own.
FinishSound ==
  run.stage = "finish" /\ ~run.retry /\ Watching =>
    \A p \in Player : Live(p) => \E k \in Recheck \ run.claimed : Covers(k, p)

\* So are the rows that a warning may yet reopen.
RowsCovered ==
  \A p \in Player :
    Live(p) \/ (Warnable(p) /\ row[p].rostered = "yes" /\ now < Deadline[p]) => Covered(p)

WatchInv == PollsSound /\ ExpiredLate /\ FinishSound /\ RowsCovered

\* A closed performance becomes one that can still be locked.
Reopens(p) ==
  row[p].status \notin Open \cup {"absent"} /\ IsOpen(p)' /\ row'[p].rostered = "yes"
    /\ now < Deadline[p]

\* From when the watch runs, neither a merge of the planner's nor a withdrawn decision does that.
NoLateReopening ==
  Watching /\ (MergeRow \/ \E q \in Player : Correct(q, "not_locked"))
    => \A p \in Player : ~Reopens(p)

\* A run keeps what it has claimed until it is over.
HeldOn ==
  /\ run'.claimed = run.claimed
  /\ run' = Resting \/ (run'.at = run.at /\ (run'.stage = "idle" => run.stage = "idle"))
PutDown == poll' = Released(run.claimed) /\ until' = until /\ run' = Resting

\* Most steps of the planner go on with what is claimed.
GoesOn ==
  run'.claimed = run.claimed /\ run'.at = run.at /\ (run'.stage = "idle" => run.stage = "idle")
LEMMA StepsGoOn ==
  ASSUME run \in Run,
         InsertOrRead \/ MergeRow \/ SyncWatch \/ RefreshScores \/ ListDue \/ Fetch \/ PollRows
           \/ KeepAdvice \/ ChoosePlan \/ ListPending \/ SweepOld \/ Block
  PROVE  GoesOn
<1>1. CASE InsertOrRead
  BY <1>1 DEF InsertOrRead, GoesOn, Run
<1>2. CASE MergeRow
  BY <1>2 DEF MergeRow, GoesOn, Run
<1>3. CASE SyncWatch
  BY <1>3 DEF SyncWatch, GoesOn, Run
<1>4. CASE RefreshScores
  BY <1>4 DEF RefreshScores, GoesOn, Run
<1>5. CASE ListDue
  BY <1>5 DEF ListDue, GoesOn, Run
<1>6. CASE PollRows
  BY <1>6 DEF PollRows, GoesOn, Run
<1>7. CASE KeepAdvice
  BY <1>7 DEF KeepAdvice, GoesOn, Run
<1>8. CASE ChoosePlan
  BY <1>8 DEF ChoosePlan, GoesOn, Run
<1>9. CASE ListPending
  BY <1>9 DEF ListPending, GoesOn, Run
<1>10. CASE SweepOld
  BY <1>10 DEF SweepOld, GoesOn, Run
<1>11. CASE Block
  BY <1>11 DEF Block, GoesOn, Run
<1>12. CASE Fetch
  <2>1. \/ run' = [run EXCEPT !.stage = "record"]
        \/ \E stage \in {"check", "record"} : \E todo, fresh :
             run' = [run EXCEPT !.stage = stage, !.todo = todo, !.fresh = fresh]
    BY <1>12 DEF Fetch
  <2>2. ASSUME run' = [run EXCEPT !.stage = "record"] PROVE GoesOn
    BY <2>2 DEF GoesOn, Run
  <2>3. ASSUME NEW stage \in {"check", "record"}, NEW todo, NEW fresh,
               run' = [run EXCEPT !.stage = stage, !.todo = todo, !.fresh = fresh]
        PROVE  GoesOn
    BY <2>3 DEF GoesOn, Run
  <2>4. QED
    BY <2>1, <2>2, <2>3
<1>13. QED
  BY <1>1, <1>2, <1>3, <1>4, <1>5, <1>6, <1>7, <1>8, <1>9, <1>10, <1>11, <1>12

\* And every step that does not put it down or finish it.
LEMMA RunHoldsOn ==
  ASSUME TypeOK, Named, [Next]_vars,
         \A planning \in BOOLEAN : ~Wake(planning), ~FinishPoll, ~PutDown
  PROVE  HeldOn
<1>0. /\ run \in Run /\ rec \in [Rec -> RecType] /\ now \in Time
      /\ advice.targets \in SUBSET Rec
  BY TypesHere
<1>1. CASE Collect
  <2>1. PICK seen, starters :
          run' = [run EXCEPT !.stage = "sync", !.when = now, !.todo = Player, !.seen = seen,
                             !.starters = starters]
    BY <1>1 DEF Collect
  <2>2. QED
    BY <1>0, <2>1 DEF HeldOn, Run
<1>2. CASE InsertOrRead \/ MergeRow \/ SyncWatch \/ RefreshScores \/ ListDue \/ Fetch \/ PollRows
          \/ KeepAdvice \/ ChoosePlan \/ ListPending \/ SweepOld \/ Block
  BY <1>0, <1>2, StepsGoOn DEF GoesOn, HeldOn
<1>3. CASE CreateChild
  <2>1. PICK p \in Player, r \in Rec \cup {NoRec} :
          run' = [run EXCEPT !.stage = "read", !.cur = p, !.child = r]
    BY <1>0, <1>3, CreateChildCases DEF Free
  <2>2. QED
    BY <1>0, <2>1 DEF HeldOn, Run
<1>4. CASE run' = Settle(Planned)
  <2>1. CASE Planned.stage = "idle"
    <3>1. run.claimed = {} /\ run' = Resting
      BY <1>0, <1>4, <2>1 DEF Settle, Planned, Run
    <3>2. QED
      BY <3>1 DEF HeldOn, Resting
  <2>2. CASE Planned.stage # "idle"
    <3>1. run' = Planned
      BY <1>4, <2>2 DEF Settle
    <3>2. QED
      BY <1>0, <2>2, <3>1 DEF Planned, HeldOn, Run
  <2>3. QED
    BY <2>1, <2>2
<1>5. CASE NextTarget \/ WarnRow \/ Publish
  <2>1. run' = Settle(Planned) \/ NextTarget \/ WarnRow
    BY <1>5 DEF Publish
  <2>2. ASSUME NextTarget, run' # Settle(Planned) PROVE HeldOn
    <3>1. \E cur, child, made :
            \/ run' = [run EXCEPT !.stage = "read", !.cur = cur, !.child = child, !.made = made]
            \/ run' = [run EXCEPT !.made = made]
      BY <2>2 DEF NextTarget
    <3>2. ASSUME NEW cur, NEW child, NEW made,
                 run' = [run EXCEPT !.stage = "read", !.cur = cur, !.child = child, !.made = made]
          PROVE  GoesOn
      BY <1>0, <3>2 DEF GoesOn, Run
    <3>3. ASSUME NEW made, run' = [run EXCEPT !.made = made] PROVE GoesOn
      BY <1>0, <3>3 DEF GoesOn, Run
    <3>4. GoesOn
      BY <3>1, <3>2, <3>3
    <3>5. QED
      BY <3>4 DEF GoesOn, HeldOn
  <2>3. ASSUME WarnRow, run' # Settle(Planned) PROVE HeldOn
    <3>1. PICK cur : run' = [run EXCEPT !.stage = "read", !.cur = cur]
      BY <2>3 DEF WarnRow
    <3>2. GoesOn
      BY <1>0, <3>1 DEF GoesOn, Run
    <3>3. QED
      BY <3>2 DEF GoesOn, HeldOn
  <2>4. QED
    BY <1>4, <2>1, <2>2, <2>3
<1>6. CASE run' = Onward
  BY <1>0, <1>6 DEF Onward, HeldOn, Run
<1>7. CASE ReadRow \/ WriteRow
  <2>1. run' # Onward => run' = [run EXCEPT !.stage = "write", !.fresh = {run.cur}]
    BY <1>7 DEF ReadRow, WriteRow, PutDown
  <2>2. run' # Onward => HeldOn
    BY <1>0, <2>1 DEF HeldOn, Run
  <2>3. QED
    BY <1>6, <2>2
<1>8. CASE CheckOpen
  <2>1. PICK retry : \/ run.claimed = {} /\ run' = Resting
                     \/ run' = [run EXCEPT !.stage = "finish", !.retry = retry]
    BY <1>8 DEF CheckOpen
  <2>2. Resting.claimed = {}
    BY DEF Resting
  <2>3. QED
    BY <1>0, <2>1, <2>2 DEF HeldOn, Run
<1>9. CASE run' = run
  BY <1>9 DEF HeldOn
<1>10. CASE \E players : run' = Obsolete(players)
  BY <1>0, <1>10 DEF Obsolete, HeldOn, Run
<1>11. CASE Discard \/ Fail
  BY <1>11 DEF Discard, Fail, PutDown
<1>12. QED
  BY <1>1, <1>2, <1>3, <1>5, <1>7, <1>8, <1>9, <1>10, <1>11
     DEF Next, Planner, ReadBeforeTipoff, ReadAfterTipoff, Acknowledge, Correct, Corrected, Tick,
         vars

\* The queue's rows change in one of these ways.
Arms == run.stage \in {"idle", "sync"} /\ \E d : UpsertWatch(d)
LEMMA PollChanges ==
  ASSUME TypeOK, Named, [Next]_vars
  PROVE  \/ \E planning \in BOOLEAN : Wake(planning)
         \/ FinishPoll
         \/ PutDown
         \/ Arms /\ HeldOn
         \/ (\E p \in Player : Correct(p, "lockable")) /\ HeldOn
         \/ poll' = poll /\ until' = until /\ HeldOn
<1> DEFINE Same == poll' = poll /\ until' = until
           Redone == \E p \in Player : Correct(p, "lockable")
<1>1. SyncWatch => Arms \/ Same
  BY DEF SyncWatch, Arms
<1>2. \A p \in Player : ReadAfterTipoff(p) => Arms
  BY DEF ReadAfterTipoff, Arms
<1>3. \A p \in Player, a \in Correction : Correct(p, a) => Redone \/ Same
  BY DEF Correct, Rechecked
<1>4. Discard \/ Fail => PutDown
  BY DEF Discard, Fail, PutDown
<1>5. WriteRow => PutDown \/ Same
  BY DEF WriteRow, PutDown
<1>6. Collect \/ InsertOrRead \/ MergeRow \/ RefreshScores \/ ListDue \/ Fetch \/ PollRows
        \/ KeepAdvice \/ ChoosePlan \/ ListPending \/ CreateChild \/ NextTarget \/ ReadRow
        \/ SweepOld \/ Publish \/ Block \/ WarnRow \/ CheckOpen
        \/ ReadBeforeTipoff \/ Tick \/ UNCHANGED vars => Same
  BY DEF Collect, InsertOrRead, MergeRow, RefreshScores, ListDue, Fetch, PollRows, KeepAdvice,
    ChoosePlan, ListPending, CreateChild, NextTarget, ReadRow, SweepOld, Publish, Block,
    WarnRow, CheckOpen, ReadBeforeTipoff, Tick, vars
<1>7. \A r \in Rec, a \in Action : Acknowledge(r, a) => Same
  BY DEF Acknowledge
<1> HIDE DEF Same, Redone
<1>8. \/ \E planning \in BOOLEAN : Wake(planning)
      \/ FinishPoll \/ PutDown \/ Arms \/ Redone \/ Same
  BY <1>1, <1>2, <1>3, <1>4, <1>5, <1>6, <1>7 DEF Next, Planner
<1>9. QED
  BY <1>8, RunHoldsOn DEF Same, Redone

\* A correction reopens a row with a poll of its own.
LEMMA RecheckedFacts ==
  ASSUME TypeOK, NEW p \in Player, Correct(p, "lockable")
  PROVE  \E k \in Recheck : /\ poll[k] = "none" /\ poll' = [poll EXCEPT ![k] = "waiting"]
                            /\ until' = [until EXCEPT ![k] = Deadline[p]]
                            /\ Covers(k, p)'
<1>1. PICK k \in Recheck : /\ poll[k] = "none" /\ poll' = [poll EXCEPT ![k] = "waiting"]
                          /\ until' = [until EXCEPT ![k] = Deadline[p]]
  BY DEF Correct, Rechecked
<1>2. k \in Work /\ poll \in [Work -> PollStatus] /\ until \in [Work -> Time]
  BY TypesHere DEF Work
<1>3. poll'[k] = "waiting" /\ until'[k] = Deadline[p] /\ Deadline[p] \in Nat
  BY <1>1, <1>2, LockInAssumption, OpportunityAssumption
<1>4. Covers(k, p)'
  BY <1>3 DEF Covers
<1>5. QED
  BY <1>1, <1>4

\* A poll goes on to cover a row until it has looked, or the deadline of the row is past.
LEMMA CoverKept ==
  ASSUME TypeOK, Named, PollsSound, [Next]_vars, NEW p \in Player, NEW k \in Recheck,
         Covers(k, p), now < Deadline[p], FinishPoll => run.retry \/ k \notin run.claimed
  PROVE  Covers(k, p)'
<1>1. /\ k \in Work /\ poll \in [Work -> PollStatus] /\ until \in [Work -> Time] /\ k # Watch
      /\ Deadline[p] \in Nat /\ until[k] \in Nat /\ now \in Nat
  BY TypesHere, LockInAssumption, OpportunityAssumption DEF Work, Time
<1>2. poll[k] # "none" /\ Deadline[p] <= until[k]
  BY DEF Covers
<1>3. SUFFICES poll'[k] # "none" /\ until'[k] = until[k]
  BY <1>2 DEF Covers
<1>4. ASSUME NEW planning \in BOOLEAN, Wake(planning)
      PROVE  poll'[k] # "none" /\ until'[k] = until[k]
  BY <1>1, <1>2, <1>4 DEF Wake, Woken
<1>5. CASE FinishPoll
  <2>1. PICK j \in run.claimed : /\ until' = until
          /\ poll' = [poll EXCEPT ![j] = IF run.retry THEN "waiting" ELSE Over(j, "completed")]
    BY <1>5 DEF FinishPoll
  <2>2. QED
    BY <1>1, <1>2, <1>5, <2>1
<1>6. CASE PutDown
  BY <1>1, <1>2, <1>6 DEF PutDown, Released
<1>7. CASE Arms
  BY <1>1, <1>2, <1>7 DEF Arms, UpsertWatch
<1>8. CASE \E q \in Player : Correct(q, "lockable")
  <2>1. PICK q \in Player : Correct(q, "lockable")
    BY <1>8
  <2>2. PICK j \in Recheck : /\ poll[j] = "none" /\ poll' = [poll EXCEPT ![j] = "waiting"]
                            /\ until' = [until EXCEPT ![j] = Deadline[q]]
    BY <2>1, RecheckedFacts
  <2>3. QED
    BY <1>1, <1>2, <2>2
<1>9. QED
  BY <1>2, <1>4, <1>5, <1>6, <1>7, <1>8, PollChanges

\* Only a wake makes the watch run, and only the end of a run completes it.
LEMMA WatchStep ==
  ASSUME TypeOK, Named, PollsSound, [Next]_vars
  PROVE  /\ Watching' => Watching \/ \E planning \in BOOLEAN : Wake(planning)
         /\ poll'[Watch] = "completed" => poll[Watch] = "completed" \/ (FinishPoll /\ Watching)
<1>0. /\ poll \in [Work -> PollStatus] /\ Watch \in Work /\ run.claimed \subseteq Work
  BY TypesHere DEF Work, Run
<1> DEFINE Before == /\ Watching' => Watching \/ \E planning \in BOOLEAN : Wake(planning)
                     /\ poll'[Watch] = "completed" =>
                          poll[Watch] = "completed" \/ (FinishPoll /\ Watching)
<1> SUFFICES Before
  OBVIOUS
<1>1. ASSUME NEW planning \in BOOLEAN, Wake(planning) PROVE Before
  BY <1>0, <1>1 DEF Wake, Woken, Over
<1>2. CASE FinishPoll
  <2>1. PICK j \in run.claimed :
          poll' = [poll EXCEPT ![j] = IF run.retry THEN "waiting" ELSE Over(j, "completed")]
    BY <1>2 DEF FinishPoll
  <2>2. poll[j] = "running" /\ (j # Watch => poll'[Watch] = poll[Watch])
    BY <1>0, <2>1 DEF PollsSound
  <2>3. QED
    BY <1>2, <2>2 DEF Watching
<1>3. CASE PutDown
  BY <1>0, <1>3 DEF PutDown, Released, Watching
<1>4. CASE Arms
  BY <1>0, <1>4 DEF Arms, UpsertWatch, Watching
<1>5. ASSUME NEW p \in Player, Correct(p, "lockable") PROVE Before
  <2>1. PICK k \in Recheck : poll' = [poll EXCEPT ![k] = "waiting"]
    BY <1>5, RecheckedFacts
  <2>2. poll'[Watch] = poll[Watch]
    BY <1>0, <2>1, LockInAssumption
  <2>3. QED
    BY <2>2 DEF Watching
<1>6. CASE poll' = poll
  BY <1>6 DEF Watching
<1> HIDE DEF Before
<1>7. QED
  BY <1>1, <1>2, <1>3, <1>4, <1>5, <1>6, PollChanges

\* The watch runs from its first due time on; Wake claims what runs and nothing else does.
LEMMA PollsSoundStep ==
  ASSUME TypeOK, Named, PollsSound, [Next]_vars
  PROVE  PollsSound'
<1>0. /\ run \in Run /\ now \in Nat /\ now' \in {now, now + 1} /\ PollFrom \in Nat
      /\ poll \in [Work -> PollStatus] /\ until \in [Work -> Time] /\ run.claimed \subseteq Work
      /\ Watch \in Work /\ run.at \in Nat /\ Start + 1 <= PollFrom /\ Start \in Nat
  BY TypesHere, StageFacts, LockInAssumption, OpportunityAssumption DEF Work, Time, Run
<1>r. Resting.claimed = {} /\ Resting.stage = "idle" /\ Resting.at = 0
  BY DEF Resting
<1> DEFINE Claims == /\ \A k \in run'.claimed : poll'[k] = "running"
                     /\ poll'[Watch] = "running" => Watch \in run'.claimed
                     /\ run'.stage = "idle" => run'.claimed = {}
                     /\ Watching' => Watching \/ PollFrom <= now
                     /\ run'.at <= now'
<1>1. Claims
  <2>1. ASSUME NEW planning \in BOOLEAN, Wake(planning) PROVE Claims
    <3> DEFINE due == {k \in Work : poll[k] = "waiting" /\ now < until[k]
                                      /\ (k = Watch => PollFrom <= now)}
               stage == IF planning \/ due # {} THEN "collect" ELSE "idle"
               at == IF planning \/ due # {} THEN now ELSE 0
    <3>1. /\ run.stage = "idle"
          /\ poll' = [k \in Work |-> IF k \in due THEN "running"
                                     ELSE IF poll[k] = "waiting" /\ until[k] <= now
                                          THEN Over(k, "canceled")
                                     ELSE poll[k]]
          /\ run' = [Resting EXCEPT !.stage = stage, !.planning = planning, !.at = at,
                                    !.claimed = due]
      BY <2>1 DEF Wake, Woken
    <3>2. stage = "idle" => due = {}
      OBVIOUS
    <3>3. at \in Nat /\ at <= now /\ due \subseteq Work /\ (Watch \in due => PollFrom <= now)
      BY <1>0
    <3> HIDE DEF due, stage, at
    <3>4. run'.claimed = due /\ run'.stage = stage /\ run'.at = at
      BY <3>1, RestingRun DEF Run
    <3>5. run.claimed = {} /\ poll[Watch] # "running"
      BY <3>1 DEF PollsSound
    <3>6. /\ \A k \in due : poll'[k] = "running"
          /\ Watch \notin due => poll'[Watch] # "running" /\ (Watching' => Watching)
      BY <1>0, <3>1, <3>3, <3>5 DEF Over, Watching
    <3>7. QED
      BY <1>0, <3>2, <3>3, <3>4, <3>6
  <2>2. CASE FinishPoll
    <3>1. PICK j \in run.claimed :
            /\ poll' = [poll EXCEPT ![j] = IF run.retry THEN "waiting" ELSE Over(j, "completed")]
            /\ run' = [run EXCEPT !.stage = "check", !.claimed = @ \ {j}, !.retry = FALSE]
            /\ run.stage = "finish"
      BY <2>2 DEF FinishPoll
    <3>2. run'.stage = "check" /\ run'.claimed = run.claimed \ {j} /\ run'.at = run.at
      BY <1>0, <3>1 DEF Run
    <3>3. poll'[Watch] # "running" \/ Watch # j
      BY <1>0, <3>1 DEF Over
    <3>4. \A k \in Work \ {j} : poll'[k] = poll[k]
      BY <1>0, <3>1
    <3>5. QED
      BY <1>0, <3>1, <3>2, <3>3, <3>4 DEF PollsSound, Watching
  <2>3. CASE PutDown
    BY <1>0, <1>r, <2>3 DEF PutDown, Released, PollsSound, Watching
  <2>h. ASSUME HeldOn PROVE /\ run'.claimed = run.claimed
                            /\ run'.stage = "idle" => run'.claimed = {}
                            /\ run'.at <= now'
    BY <1>0, <1>r, <2>h DEF HeldOn, PollsSound
  <2>4. CASE Arms /\ HeldOn
    <3>1. /\ \A k \in Work \ {Watch} : poll'[k] = poll[k]
          /\ poll'[Watch] = poll[Watch] \/ (poll[Watch] # "running" /\ poll'[Watch] = "waiting")
      BY <1>0, <2>4 DEF Arms, UpsertWatch
    <3>2. QED
      BY <1>0, <2>4, <2>h, <3>1 DEF PollsSound, Watching
  <2>5. CASE (\E p \in Player : Correct(p, "lockable")) /\ HeldOn
    <3>1. PICK k \in Recheck : poll[k] = "none" /\ poll' = [poll EXCEPT ![k] = "waiting"]
      BY <2>5, RecheckedFacts
    <3>2. k # Watch /\ k \in Work /\ k \notin run.claimed
      BY <3>1, LockInAssumption DEF Work, PollsSound
    <3>3. QED
      BY <1>0, <2>5, <2>h, <3>1, <3>2 DEF PollsSound, Watching
  <2>6. CASE poll' = poll /\ until' = until /\ HeldOn
    BY <1>0, <2>6, <2>h DEF PollsSound, Watching
  <2>7. QED
    BY <2>1, <2>2, <2>3, <2>4, <2>5, <2>6, PollChanges
<1>2. Watching' => PollFrom <= now'
  BY <1>0, <1>1 DEF PollsSound
<1>3. ASSUME Watching', run'.stage \in {"sync", "merge"} PROVE Start <= run'.seen.snapshot
  <2>1. CASE Collect
    <3>1. Watching /\ run'.seen.snapshot \in {now - 1, now}
      BY <1>0, <1>3, <2>1, CollectRun, TypesHere DEF Collect, Watching
    <3>2. QED
      BY <1>0, <3>1 DEF PollsSound
  <2>2. CASE run.stage \in {"sync", "merge"} /\ run'.seen = run.seen
    <3>3. Watching
      BY <1>3, <2>2, WatchStep DEF Wake, Woken
    <3>4. QED
      BY <2>2, <3>3 DEF PollsSound
  <2>3. QED
    BY <1>3, <2>1, <2>2, StageFacts
<1>4. QED
  BY <1>1, <1>2, <1>3 DEF PollsSound

\* An expired row is past its deadline.
LEMMA ExpiredLateStep ==
  ASSUME TypeOK, Named, ExpiredLate, [Next]_vars
  PROVE  ExpiredLate'
<1> SUFFICES ASSUME NEW p \in Player, row'[p].status = "expired" PROVE Deadline[p] <= now'
  BY DEF ExpiredLate
<1>0. /\ row[p] \in Opportunity /\ run \in Run /\ now \in Time /\ now \in Nat
      /\ now' \in {now, now + 1} /\ run.child \in Rec \cup {NoRec} /\ run.when \in Time
      /\ Deadline[p] \in Nat
  BY TypesHere, StageFacts, LockInAssumption, OpportunityAssumption DEF Run, Time
<1>1. SUFFICES row[p].status = "expired" \/ Deadline[p] <= now
  BY <1>0 DEF ExpiredLate
<1>2. CASE row'[p] = row[p] \/ Expires(p)
  BY <1>2 DEF Expires
<1>3. ~Inserts(p)
  BY <1>0, InsertedFacts, SeenPlausible DEF Inserts, Plausible, Proposed
<1>4. CASE Merges(p)
  <2> DEFINE c == CandidateFor(p)
             changed == run.seen.changed
  <2>1. Plausible(c)
    BY <1>0, SeenPlausible
  <2>2. row'[p] = Merge(row[p], c, changed, run.when)
    BY <1>4 DEF Merges
  <2> HIDE DEF c, changed
  <2>o. row[p] \in Opportunity /\ run.when \in Time
    BY <1>0
  <2>3. row'[p].status = MergedStatus(row[p], c, changed)
    BY <2>1, <2>2, <2>o, MergeFacts
  <2>4. QED
    BY <2>1, <2>3, <2>o, MergedStatusFacts
<1>5. ~Rescores(p) /\ ~Observes(p)
  BY <1>0, ObservedFacts DEF Rescores, Observes, Settled
<1>6. ~Defers(p)
  BY <1>0, DeferredFacts DEF Defers
<1>7. ~Warns(p) /\ ~Offers(p)
  BY <1>0, WarnedFacts, OfferedFacts DEF Warns, Offers
<1>8. CASE ReadsBefore(p)
  BY <1>0, <1>8, BeforeTyped DEF ReadsBefore
<1>9. ~ReadsAfter(p)
  BY <1>0, TipoffFacts DEF ReadsAfter
<1>10. CASE Confirms(p)
  BY <1>0, <1>10, ConfirmedFacts DEF Confirms, Settled
<1>11. CASE Reports(p)
  <2>1. PICK a \in Correction : /\ MayReport(row[p], a, now, Deadline[p])
                                /\ row'[p] = Reported(row[p], a, now, Deadline[p])
    BY <1>11 DEF Reports, Correct, Corrected
  <2>2. a = "not_locked"
    BY <1>0, <2>1, ReportedFacts DEF Correction, Action, Settled
  <2>3. now >= Deadline[p]
    BY <1>0, <2>1, <2>2, ReportedFacts
  <2>4. QED
    BY <1>0, <2>3
<1>12. QED
  BY <1>2, <1>3, <1>4, <1>5, <1>6, <1>7, <1>8, <1>9, <1>10, <1>11, RowChanges

\* While the watch runs, and from then on, a row comes to life by the owner's word or by a warning.
LEMMA LiveStep ==
  ASSUME RunInv, RowInv, PollsSound, ExpiredLate, [Next]_vars, [NoLateReopening]_vars, Watching,
         NEW p \in Player, Live(p)'
  PROVE  \/ Live(p) \/ Correct(p, "lockable")
         \/ WriteRow /\ Warnable(p) /\ row[p].rostered = "yes" /\ now < Deadline[p]
<1>0. /\ TypeOK /\ Named /\ Modes /\ StillAsRead /\ ChosenAdvisable /\ RowSound(p)
      /\ row[p] \in Opportunity /\ run \in Run /\ now \in Nat /\ now' \in {now, now + 1}
      /\ run.child \in Rec \cup {NoRec} /\ run.when \in Time /\ now \in Time
      /\ Deadline[p] \in Nat /\ PollFrom \in Nat /\ Start \in Nat /\ Grace \in Nat
      /\ Start + Grace < PollFrom
  BY TypesHere, StageFacts, LockInAssumption, OpportunityAssumption DEF RunInv, RowInv, Run, Time
<1>1. IsOpen(p)' /\ row'[p].rostered = "yes" /\ now < Deadline[p] /\ PollFrom <= now
  BY <1>0 DEF Live, PollsSound
<1>2. SUFFICES ASSUME ~Live(p)
               PROVE  Correct(p, "lockable")
                        \/ (WriteRow /\ Warnable(p) /\ row[p].rostered = "yes")
  BY <1>1
<1>3. row'[p] # row[p]
  BY <1>1, <1>2 DEF Live, IsOpen
<1>4. ~UNCHANGED vars /\ NoLateReopening
  BY <1>3 DEF vars
<1>5. ~(IsOpen(p) /\ row[p].rostered = "yes")
  BY <1>1, <1>2 DEF Live
<1>6. ~Expires(p)
  BY <1>0, <1>1 DEF Expires
<1>7. ~Inserts(p)
  <2>1. SUFFICES ASSUME Inserts(p) PROVE FALSE
    OBVIOUS
  <2>2. run.stage = "sync" /\ row'[p] = Inserted(CandidateFor(p), run.when)
    BY <2>1 DEF Inserts, InsertOrRead
  <2>3. CandidateFor(p).rostered = "unknown" /\ Plausible(CandidateFor(p))
    BY <1>0, <2>2, SeenPlausible DEF PollsSound
  <2>4. QED
    BY <1>0, <1>1, <2>2, <2>3, InsertedFacts
<1>8. ~Merges(p)
  <2>1. SUFFICES ASSUME Merges(p) PROVE FALSE
    OBVIOUS
  <2>2. run.stage = "merge" /\ MergeRow
    BY <2>1 DEF Merges, MergeRow
  <2>3. CandidateFor(p).evidence = NoEvidence /\ Plausible(CandidateFor(p))
    BY <1>0, <2>2, SeenPlausible DEF PollsSound
  <2>m. row'[p] = Merge(row[p], CandidateFor(p), run.seen.changed, run.when)
    BY <2>1 DEF Merges
  <2>4. row'[p].rostered = row[p].rostered
    BY <1>0, <2>3, <2>m, MergeFacts
  <2>5. row[p].status # "absent"
    BY <1>0, <1>1, <2>4 DEF RowSound, Absent
  <2>6. QED
    BY <1>1, <1>4, <1>5, <2>2, <2>4, <2>5 DEF NoLateReopening, Reopens, IsOpen
<1>9. ~Rescores(p)
  BY <1>0, <1>1, ObservedFacts DEF Rescores, IsOpen, Open, Settled
<1>10. ~Defers(p) /\ ~Observes(p)
  <2>1. SUFFICES ASSUME Defers(p) \/ Observes(p) PROVE FALSE
    OBVIOUS
  <2>2. run.stage = "record" /\ p \in run.todo \cap run.fresh
    BY <2>1 DEF Defers, Observes, PollRows
  <2>3. IsOpen(p)
    BY <1>0, <2>2 DEF StillAsRead
  <2>4. row'[p].rostered = row[p].rostered
    BY <1>0, <2>1, DeferredFacts, ObservedFacts DEF Defers, Observes
  <2>5. QED
    BY <1>1, <1>5, <2>3, <2>4
<1>11. Warns(p) => WriteRow /\ Warnable(p) /\ row[p].rostered = "yes"
  <2>1. SUFFICES ASSUME Warns(p) PROVE WriteRow /\ Warnable(p) /\ row[p].rostered = "yes"
    OBVIOUS
  <2>2. WriteRow /\ run.stage = "write" /\ p = run.cur /\ run.mode = "warn"
    BY <2>1 DEF Warns, WriteRow
  <2>3. Warnable(p)
    BY <1>0, <2>2 DEF Modes, Warnable
  <2>4. QED
    BY <1>0, <1>1, <2>1, <2>2, <2>3, WarnedFacts DEF Warns
<1>12. ~Offers(p)
  <2>1. SUFFICES ASSUME Offers(p) PROVE FALSE
    OBVIOUS
  <2>2. Offerable(row[p])
    BY <1>0, <2>1, OfferedSound
  <2>3. IsOpen(p) \/ row[p].status = "expired"
    BY <1>0, <2>2 DEF Offerable, IsOpen, Opportunity, Status
  <2>4. row'[p].rostered = row[p].rostered
    BY <1>0, <2>1, OfferedFacts DEF Offers
  <2>5. QED
    BY <1>0, <1>1, <1>5, <2>3, <2>4 DEF ExpiredLate
<1>13. ~ReadsBefore(p) /\ ~ReadsAfter(p)
  BY <1>0, <1>1 DEF ReadsBefore, ReadsAfter, ReadAfterTipoff, Reopenable
<1>14. ~Confirms(p)
  BY <1>0, <1>1, <1>3, ConfirmedFacts DEF Confirms, IsOpen, Open, Settled
<1>15. Reports(p) => Correct(p, "lockable")
  <2>1. SUFFICES ASSUME NEW a \in Correction, Correct(p, a),
                        row'[p] = Reported(row[p], a, now, Deadline[p])
                 PROVE  a = "lockable"
    BY DEF Reports
  <2>2. MayReport(row[p], a, now, Deadline[p])
    BY <2>1 DEF Correct, Corrected
  <2>3. a \notin Action \cup {"not_lockable"}
    BY <1>0, <1>1, <2>1, <2>2, ReportedFacts DEF IsOpen, Open, Settled
  <2>4. a # "not_locked"
    <3>1. SUFFICES ASSUME a = "not_locked" PROVE FALSE
      OBVIOUS
    <3>2. row'[p].rostered = row[p].rostered /\ row[p].status # "absent"
      BY <1>0, <2>1, <2>2, <3>1, ReportedFacts
    <3>3. QED
      BY <1>1, <1>4, <1>5, <2>1, <3>1, <3>2 DEF NoLateReopening, Reopens, IsOpen
  <2>5. QED
    BY <2>3, <2>4 DEF Correction, Action
<1>16. Warns(p) \/ Reports(p)
  BY <1>0, <1>3, <1>6, <1>7, <1>8, <1>9, <1>10, <1>12, <1>13, <1>14, RowChanges
<1>17. QED
  BY <1>11, <1>15, <1>16

\* A row whose warning is due has been eligible since the poll observed it, or the owner said so.
LEMMA RosteredKept ==
  ASSUME TypeOK, Named, [Next]_vars, NEW p \in Player, row'[p].rostered = "yes",
         run'.stage \in {"plan", "warn", "read", "write"}
  PROVE  row[p].rostered = "yes" \/ Correct(p, "lockable")
<1>0. /\ row[p] \in Opportunity /\ run \in Run /\ now \in Time
      /\ run.child \in Rec \cup {NoRec} /\ Resting.stage = "idle"
  BY TypesHere DEF Run, Resting
<1>1. SUFFICES ASSUME row[p].rostered # "yes", row'[p] # row[p] PROVE Correct(p, "lockable")
  OBVIOUS
<1>2. run.stage # "idle"
  <2>1. SUFFICES ASSUME run.stage = "idle" PROVE run'.stage \in {"idle", "collect"}
    OBVIOUS
  <2>2. ASSUME NEW planning \in BOOLEAN, Wake(planning) PROVE run'.stage \in {"idle", "collect"}
    BY <1>0, <2>2, WakeRun
  <2>3. ManagerActs \/ Undisturbed => run'.stage = run.stage
    BY ManagerRun DEF Undisturbed
  <2>4. ReadBeforeTipoff \/ (\E q \in Player : ReadAfterTipoff(q)) => run' = run
    BY DEF ReadBeforeTipoff, ReadAfterTipoff
  <2>5. Fail => run' = Resting
    BY DEF Fail
  <2>6. QED
    BY <1>0, <2>1, <2>2, <2>3, <2>4, <2>5, ByStage
<1>3. ~Inserts(p) /\ ~Merges(p)
  BY <1>0, InsertOrReadRun, MergeRowRun DEF Inserts, Merges
<1>4. ~Expires(p)
  BY <1>0, <1>1, ElapsedFacts DEF Expires
<1>5. ~Rescores(p) /\ ~Observes(p)
  BY <1>0, <1>1, ObservedFacts DEF Rescores, Observes
<1>6. ~Defers(p)
  BY <1>0, <1>1, DeferredFacts DEF Defers
<1>7. ~Warns(p) /\ ~Offers(p)
  BY <1>0, <1>1, WarnedFacts, OfferedFacts DEF Warns, Offers
<1>8. ~ReadsBefore(p) /\ ~ReadsAfter(p)
  BY <1>2 DEF ReadsBefore, ReadsAfter, ReadAfterTipoff
<1>9. ~Confirms(p)
  BY <1>0, <1>1, ConfirmedFacts DEF Confirms
<1>10. Reports(p) => Correct(p, "lockable")
  <2>1. SUFFICES ASSUME NEW a \in Correction, Correct(p, a),
                        row'[p] = Reported(row[p], a, now, Deadline[p])
                 PROVE  a = "lockable"
    BY DEF Reports
  <2>2. MayReport(row[p], a, now, Deadline[p])
    BY <2>1 DEF Correct, Corrected
  <2>3. QED
    BY <1>0, <1>1, <2>1, <2>2, ReportedFacts DEF Correction, Action
<1>11. QED
  BY <1>1, <1>3, <1>4, <1>5, <1>6, <1>7, <1>8, <1>9, <1>10, RowChanges

\* Once the watch is done, whatever can still be locked has a poll of its own.
LEMMA CoveredStep ==
  ASSUME TypeOK, Named, PollsSound, FinishSound, [Next]_vars, NEW p \in Player, Covered(p),
         Live(p) \/ ~FinishPoll, now < Deadline[p]
  PROVE  Covered(p)'
<1>0. /\ run \in Run /\ poll \in [Work -> PollStatus] /\ Watch \in Work
      /\ run.claimed \subseteq Work
  BY TypesHere DEF Work, Run
<1>1. SUFFICES ASSUME poll'[Watch] = "completed" PROVE \E k \in Recheck : Covers(k, p)'
  BY DEF Covered
<1>2. CASE FinishPoll
  <2>1. PICK j \in run.claimed :
          /\ poll' = [poll EXCEPT ![j] = IF run.retry THEN "waiting" ELSE Over(j, "completed")]
          /\ run.stage = "finish"
    BY <1>2 DEF FinishPoll
  <2>2. CASE run.retry
    <3>1. poll[Watch] = "completed"
      BY <1>0, <1>1, <2>1, <2>2
    <3>2. PICK k \in Recheck : Covers(k, p)
      BY <3>1 DEF Covered
    <3>3. QED
      BY <2>2, <3>2, CoverKept
  <2>3. CASE ~run.retry
    <3>0. poll[Watch] = "completed" \/ Watching
      BY <1>1, WatchStep
    <3>1. PICK k \in Recheck \ run.claimed : Covers(k, p)
      BY <1>2, <2>1, <2>3, <3>0 DEF FinishSound, Watching
    <3>2. QED
      BY <3>1, CoverKept
  <2>4. QED
    BY <2>2, <2>3
<1>3. CASE ~FinishPoll
  <2>1. poll[Watch] = "completed"
    BY <1>1, <1>3, WatchStep
  <2>2. PICK k \in Recheck : Covers(k, p)
    BY <2>1 DEF Covered
  <2>3. QED
    BY <1>3, <2>2, CoverKept
<1>4. QED
  BY <1>2, <1>3

\* Between the check and the end of a run only the manager acts.
LEMMA FinishHeld ==
  ASSUME TypeOK, Named, [Next]_vars, run'.stage = "finish", ~CheckOpen
  PROVE  run.stage = "finish" /\ run'.retry = run.retry /\ ~FinishPoll
<1>0. /\ run \in Run /\ now \in Time /\ advice.targets \in SUBSET Rec /\ Resting.stage = "idle"
  BY TypesHere DEF Resting
<1>t. /\ run.stage = "read" => run.cur \in Player
      /\ \A r \in Rec : Waits(r) => rec[r].player \in Player
  BY DEF Named
<1> DEFINE Not == run'.stage # "finish"
<1>1. ASSUME NEW planning \in BOOLEAN, Wake(planning) PROVE Not
  BY <1>0, <1>1, WakeRun
<1>2. Collect \/ InsertOrRead \/ MergeRow \/ SyncWatch \/ RefreshScores \/ ListDue \/ Fetch
        \/ PollRows => Not
  BY <1>0, CollectRun, InsertOrReadRun, MergeRowRun, SyncWatchRun, RefreshScoresRun, ListDueRun,
     FetchRun, PollRowsRun
<1>3. KeepAdvice \/ ChoosePlan \/ ListPending \/ SweepOld \/ Block => Not
  BY <1>0, KeepAdviceRun, ChoosePlanRun, ListPendingRun, SweepOldRun, BlockRun
<1>4. CreateChild => Not
  <2>1. SUFFICES ASSUME CreateChild PROVE Not
    OBVIOUS
  <2>2. PICK q \in Player, r \in Rec \cup {NoRec} :
          run' = [run EXCEPT !.stage = "read", !.cur = q, !.child = r]
    BY <1>0, <2>1, CreateChildCases, TypesHere DEF Free
  <2>3. QED
    BY <1>0, <2>2, ReadsRow
<1>5. NextTarget \/ WarnRow \/ Publish => Not
  BY <1>0, <1>t, NextTargetRun, WarnRowRun, SettledRun DEF Publish
<1>6. ReadRow => Not
  BY <1>0, <1>t, ReadRowRun, OnwardRun DEF ReadRow, Run
<1>7. WriteRow => Not
  BY <1>0, RowWritten, OnwardRun DEF Run
<1>8. FinishPoll \/ Discard \/ Fail => Not
  BY <1>0, FinishPollRun DEF Discard, Fail
<1> HIDE DEF Not
<1>9. ManagerActs \/ run' = run
  BY <1>1, <1>2, <1>3, <1>4, <1>5, <1>6, <1>7, <1>8, ByStage
     DEF Not, Undisturbed, ReadBeforeTipoff, ReadAfterTipoff
<1>10. run'.retry = run.retry
  <2>1. run' = run \/ \E players : run' = Obsolete(players)
    BY <1>9 DEF ManagerActs, Acknowledge, Correct, Corrected
  <2>2. QED
    BY <1>0, <2>1 DEF Obsolete, Run
<1>11. QED
  BY <1>8, <1>9, <1>10, ManagerRun DEF Not

\* The end of a run leaves nothing uncovered.
LEMMA FinishSoundStep ==
  ASSUME RunInv, RowInv, PollsSound, ExpiredLate, FinishSound, [Next]_vars, [NoLateReopening]_vars
  PROVE  FinishSound'
<1> SUFFICES ASSUME run'.stage = "finish", ~run'.retry, Watching', NEW p \in Player, Live(p)'
             PROVE  \E k \in Recheck \ run'.claimed : Covers(k, p)'
  BY DEF FinishSound
<1>0. /\ TypeOK /\ Named /\ run \in Run /\ now \in Nat /\ now' \in {now, now + 1}
      /\ run.at \in Nat /\ Deadline[p] \in Nat /\ run.claimed \subseteq Work
  BY TypesHere, StageFacts, LockInAssumption, OpportunityAssumption DEF RunInv, Run, Time
<1>1. CASE CheckOpen
  <2>1. /\ run' = [run EXCEPT !.stage = "finish", !.retry = HasOpen(run.at)]
        /\ row' = row /\ now' = now
    BY <1>1 DEF CheckOpen, Resting
  <2>2. ~HasOpen(run.at)
    <3> DEFINE retry == HasOpen(run.at)
    <3>1. run' = [run EXCEPT !.stage = "finish", !.retry = retry]
      BY <2>1
    <3> HIDE DEF retry
    <3>2. run'.retry = retry
      BY <1>0, <3>1 DEF Run
    <3>3. QED
      BY <3>2 DEF retry
  <2>3. QED
    BY <1>0, <2>1, <2>2 DEF HasOpen, Live, IsOpen, PollsSound
<1>2. CASE ~CheckOpen
  <2>1. run.stage = "finish" /\ run'.retry = run.retry /\ ~FinishPoll
    BY <1>0, <1>2, FinishHeld
  <2>2. HeldOn
    BY <1>0, <2>1, PollChanges DEF Wake, Woken, PutDown, Arms, Resting
  <2>3. Watching /\ ~WriteRow
    BY <1>0, <2>1, WatchStep DEF Wake, Woken, WriteRow
  <2>4. Live(p) \/ Correct(p, "lockable")
    BY <2>3, LiveStep
  <2>5. CASE Live(p)
    <3>1. PICK k \in Recheck \ run.claimed : Covers(k, p)
      BY <2>1, <2>3, <2>5 DEF FinishSound
    <3>2. Covers(k, p)'
      BY <1>0, <2>1, <2>5, <3>1, CoverKept DEF Live
    <3>3. QED
      BY <2>2, <3>1, <3>2 DEF HeldOn
  <2>6. CASE Correct(p, "lockable")
    <3>1. PICK k \in Recheck : poll[k] = "none" /\ Covers(k, p)'
      BY <1>0, <2>6, RecheckedFacts
    <3>2. QED
      BY <2>2, <3>1 DEF HeldOn, PollsSound
  <2>7. QED
    BY <2>4, <2>5, <2>6
<1>3. QED
  BY <1>1, <1>2

\* No step uncovers a row that can still be locked, or one that a warning may reopen.
LEMMA RowsCoveredStep ==
  ASSUME RunInv, RowInv, Forgotten, WatchInv, [Next]_vars, [NoLateReopening]_vars
  PROVE  RowsCovered'
<1>0. /\ TypeOK /\ Named /\ Modes /\ StillAsRead /\ PollsSound /\ ExpiredLate /\ FinishSound
      /\ RowsCovered /\ run \in Run /\ now \in Nat /\ now' \in {now, now + 1}
      /\ Resting.stage = "idle" /\ poll \in [Work -> PollStatus] /\ Watch \in Work
  BY TypesHere, StageFacts, OpportunityAssumption DEF RunInv, WatchInv, Time, Resting, Work
<1>w. poll'[Watch] = "completed" => Watching
  BY <1>0, WatchStep DEF Watching
<1>r. ASSUME NEW p \in Player, Correct(p, "lockable") PROVE Covered(p)'
  BY <1>0, <1>r, RecheckedFacts DEF Covered
<1>1. ASSUME NEW p \in Player, Live(p)' PROVE Covered(p)'
  <2>1. SUFFICES ASSUME Watching, ~Correct(p, "lockable") PROVE Covered(p)'
    BY <1>w, <1>r DEF Covered
  <2>2. now < Deadline[p] /\ Covered(p) /\ (Live(p) \/ ~FinishPoll)
    <3>1. WriteRow => ~FinishPoll
      BY DEF WriteRow, FinishPoll
    <3>2. QED
      BY <1>0, <1>1, <2>1, <3>1, LiveStep DEF RowsCovered, Live
  <2>3. QED
    BY <1>0, <2>1, <2>2, CoveredStep
<1>2. ASSUME NEW p \in Player, Warnable(p)', row'[p].rostered = "yes", now' < Deadline[p]
      PROVE  Covered(p)'
  <2>1. SUFFICES ASSUME Watching, ~Correct(p, "lockable") PROVE Covered(p)'
    BY <1>w, <1>r DEF Covered
  <2>2. run'.stage \in {"plan", "warn", "read", "write"} /\ (Warnable(p) \/ JustObserved(p))
    BY <1>0, <1>2, WarnableStep
  <2>3. row[p].rostered = "yes"
    BY <1>0, <1>2, <2>1, <2>2, RosteredKept
  <2>4. ~FinishPoll
    BY <1>0, <2>2, FinishPollRun
  <2>5. now < Deadline[p]
    BY <1>0, <1>2, LockInAssumption, OpportunityAssumption
  <2>6. Covered(p)
    BY <1>0, <2>2, <2>3, <2>5 DEF RowsCovered, Live, JustObserved
  <2>7. QED
    BY <1>0, <2>1, <2>4, <2>5, <2>6, CoveredStep
<1>3. QED
  BY <1>1, <1>2 DEF RowsCovered

\* All this holds at the start,
LEMMA WatchStart == Init => Forgotten /\ WatchInv
<1> SUFFICES ASSUME Init PROVE Forgotten /\ WatchInv
  OBVIOUS
<1>1. /\ row = [p \in Player |-> Absent] /\ run = Resting /\ now = 0 /\ Watch \in Work
      /\ poll = [k \in Work |-> "none"] /\ PollFrom \in Nat
  BY LockInAssumption, OpportunityAssumption DEF Init, Work
<1>2. run.stage = "idle" /\ run.claimed = {} /\ run.mode = "prepare" /\ run.at = 0
  BY <1>1 DEF Resting
<1>3. poll[Watch] = "none" /\ \A p \in Player : row[p].status = "absent"
  BY <1>1 DEF Absent
<1>4. Forgotten /\ FinishSound /\ ExpiredLate
  BY <1>2, <1>3 DEF Forgotten, FinishSound, ExpiredLate
<1>5. PollsSound /\ RowsCovered
  BY <1>1, <1>2, <1>3 DEF PollsSound, Watching, RowsCovered, Covered
<1>6. QED
  BY <1>4, <1>5 DEF WatchInv

\* and after every step that reopens nothing late.
LEMMA WatchInvStep ==
  ASSUME OfferInv, Forgotten, WatchInv, [Next]_vars, [NoLateReopening]_vars
  PROVE  Forgotten' /\ WatchInv'
<1>1. RunInv /\ RowInv /\ TypeOK /\ Named /\ PollsSound /\ ExpiredLate /\ FinishSound
  BY DEF OfferInv, RunInv, WatchInv
<1>2. Forgotten'
  BY <1>1, ForgottenStep
<1>3. WatchInv'
  BY <1>1, PollsSoundStep, ExpiredLateStep, FinishSoundStep, RowsCoveredStep DEF WatchInv
<1>4. QED
  BY <1>2, <1>3

\* Who can still be locked is covered.
LEMMA WatchHolds ==
  ASSUME WatchInv
  PROVE  WatchOutlastsOpen
<1>1. SUFFICES ASSUME NEW p \in Player, Live(p) PROVE Polled(p, {"completed"})
  BY DEF WatchOutlastsOpen, Live
<1>2. Covered(p)
  BY <1>1 DEF WatchInv, RowsCovered
<1>3. QED
  BY <1>2 DEF Covered, Covers, Polled

\* Whatever the players, the interleaving and the other corrections: as long as neither the
\* planner's merge nor a withdrawn decision reopens a closed performance once the watch of the
\* game runs, the watch is not completed while a performance can still be locked, unless that
\* one has a poll of its own (finish_work and has_open_lock_in_opportunities).
THEOREM WatchOutlasts == Spec /\ [][NoLateReopening]_vars => []WatchOutlastsOpen
<1>1. /\ OfferInv /\ Forgotten /\ WatchInv /\ [Next]_vars /\ [NoLateReopening]_vars
           => OfferInv' /\ Forgotten' /\ WatchInv'
  BY OfferStep, WatchInvStep
<1>2. Init => OfferInv /\ Forgotten /\ WatchInv
  BY OfferStart, WatchStart
<1>3. OfferInv /\ Forgotten /\ WatchInv => WatchOutlastsOpen
  BY WatchHolds
<1>4. QED
  BY <1>1, <1>2, <1>3, PTL DEF Spec

\* A snapshot in use says what the schedule and the configuration may say.
SeenHere ==
  run.stage \in {"sync", "merge"} => run.seen.game \in Games /\ run.seen.changed \in Reconfigured

LEMMA SeenHereStep ==
  ASSUME TypeOK, Named, SeenHere, [Next]_vars
  PROVE  SeenHere'
<1> SUFFICES ASSUME run'.stage \in {"sync", "merge"}
             PROVE  run'.seen.game \in Games /\ run'.seen.changed \in Reconfigured
  BY DEF SeenHere
<1>0. run \in Run
  BY TypesHere
<1>1. CASE Collect
  <2>1. PICK game \in Games, spot \in [Player -> Spots], snapshot \in {now - 1, now} \cap Time,
             changed \in Reconfigured :
          run'.seen = [game |-> game, spot |-> spot, snapshot |-> snapshot, changed |-> changed]
    BY <1>0, <1>1 DEF Collect, Run
  <2>2. QED
    BY <2>1
<1>2. CASE run.stage \in {"sync", "merge"} /\ run'.seen = run.seen
  BY <1>2 DEF SeenHere
<1>3. QED
  BY <1>1, <1>2, StageFacts

\* Without evidence the merge moves no closed row, and a clear schedule does not reopen one.
LEMMA MergeKeepsClosed ==
  ASSUME NEW o \in Opportunity, NEW c, Plausible(c), c.evidence = NoEvidence,
         c.status # "reconciliation_required", o.status \notin Open \cup {"absent"},
         o.status \in Settled => o.ack # "none"
  PROVE  MergedStatus(o, c, FALSE) \notin Open
<1>1. CASE SavedStatus(o) \in Settled
  BY <1>1 DEF MergedStatus, Settled, Open
<1>2. CASE SavedStatus(o) \notin Settled
  <2>1. o.status \in {"ineligible", "expired"}
    BY <1>2, SavedStatusKept DEF Opportunity, Status
  <2>2. MergedStatus(o, c, FALSE) \in {"ineligible", o.status}
    BY <1>2, <2>1 DEF MergedStatus, Advanced
  <2>3. QED
    BY <2>1, <2>2 DEF Open
<1>3. QED
  BY <1>1, <1>2

\* Where the schedule and the configuration are clear, nothing is reopened late.
LEMMA NothingReopened ==
  ASSUME "unclear" \notin Games, Reconfigured \subseteq {FALSE}, "not_locked" \notin Edits,
         OfferInv, PollsSound, SeenHere, [Next]_vars
  PROVE  [NoLateReopening]_vars
<1>1. /\ TypeOK /\ Named /\ run \in Run /\ row \in [Player -> Opportunity]
      /\ \A p \in Player : RowSound(p)
  BY TypesHere DEF OfferInv, RunInv, RowInv
<1>2. \A q \in Player : ~Correct(q, "not_locked")
  BY DEF Correct, Corrected
<1>3. SUFFICES ASSUME Watching, MergeRow, NEW p \in Player, Reopens(p) PROVE FALSE
  BY <1>2 DEF NoLateReopening
<1>4. row'[p] # row[p] /\ run.stage = "merge"
  BY <1>3 DEF Reopens, IsOpen, MergeRow
<1> DEFINE new == Merge(row[run.cur], CandidateFor(run.cur), run.seen.changed, run.when)
<1>5. /\ run.cur = p /\ row'[p] = Merge(row[p], CandidateFor(p), run.seen.changed, run.when)
  <2>1. row' = row \/ row' = [row EXCEPT ![run.cur] = new]
    BY <1>3 DEF MergeRow
  <2> HIDE DEF new
  <2>2. run.cur = p /\ row'[p] = new
    BY <1>1, <1>4, <2>1
  <2>3. QED
    BY <2>2 DEF new
<1>6. /\ run.seen.changed = FALSE /\ run.seen.game \in GameState \ {"unclear"}
      /\ Start <= run.seen.snapshot /\ run.when \in Time
  BY <1>1, <1>3, <1>4, LockInAssumption DEF SeenHere, PollsSound, Run
<1>7. /\ Plausible(CandidateFor(p)) /\ CandidateFor(p).evidence = NoEvidence
      /\ CandidateFor(p).status # "reconciliation_required"
  <2>1. CandidateFor(p).status \in {"ineligible", InitialStatus(run.seen.game)}
    BY DEF CandidateFor, Candidate
  <2>2. QED
    BY <1>1, <1>6, <2>1, SeenPlausible DEF InitialStatus, GameState
<1>8. row[p] \in Opportunity /\ (row[p].status \in Settled => row[p].ack # "none")
  BY <1>1 DEF RowSound
<1>9. row'[p].status = MergedStatus(row[p], CandidateFor(p), FALSE)
  <2> DEFINE c == CandidateFor(p)
             changed == run.seen.changed
  <2>1. Plausible(c) /\ changed = FALSE /\ row'[p] = Merge(row[p], c, changed, run.when)
    BY <1>5, <1>6, <1>7
  <2> HIDE DEF c, changed
  <2>2. row'[p].status = MergedStatus(row[p], c, changed)
    BY <1>6, <1>8, <2>1, MergeFacts
  <2>3. QED
    BY <2>1, <2>2 DEF c
<1>10. QED
  BY <1>3, <1>7, <1>8, <1>9, MergeKeepsClosed DEF Reopens, IsOpen

\* So it is in a league whose schedule is never unclear about the game, whose configuration does
\* not change and where the owner withdraws no decision: the watch outlasts every performance
\* that can still be locked.
THEOREM WatchOutlastsUndisturbed ==
  ASSUME "unclear" \notin Games, Reconfigured \subseteq {FALSE}, "not_locked" \notin Edits
  PROVE  Spec => []WatchOutlastsOpen
<1>1. OfferInv /\ SeenHere /\ Forgotten /\ WatchInv /\ [Next]_vars
        => OfferInv' /\ SeenHere' /\ Forgotten' /\ WatchInv'
  <2>1. OfferInv /\ SeenHere /\ WatchInv /\ [Next]_vars => [NoLateReopening]_vars
    BY NothingReopened DEF WatchInv
  <2>2. OfferInv /\ SeenHere /\ [Next]_vars => SeenHere'
    BY SeenHereStep DEF OfferInv, RunInv
  <2>3. QED
    BY <2>1, <2>2, OfferStep, WatchInvStep
<1>2. Init => OfferInv /\ SeenHere /\ Forgotten /\ WatchInv
  <2>1. Init => run.stage = "idle"
    BY DEF Init, Resting
  <2>2. QED
    BY <2>1, OfferStart, WatchStart DEF SeenHere
<1>3. OfferInv /\ SeenHere /\ Forgotten /\ WatchInv => WatchOutlastsOpen
  BY WatchHolds
<1>4. QED
  BY <1>1, <1>2, <1>3, PTL DEF Spec
==============================================================================
