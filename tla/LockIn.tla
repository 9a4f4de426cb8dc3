-------------------------------- MODULE LockIn --------------------------------
(***************************************************************************)
(* The Lock-In opportunities of one NBA game: the players of the roster    *)
(* who play in it, the polls that watch it after it ended, the planner     *)
(* that collects evidence, records scores and publishes Lock or Pass       *)
(* advice, and the manager who confirms advice or corrects the record.     *)
(*                                                                         *)
(* The planner is one process: the queue consumer's max_concurrency is 1.  *)
(* It works in many separate D1 calls; the manager's acknowledgements and  *)
(* corrections are one D1 batch each and fall anywhere in between.  Every  *)
(* write of the planner to an opportunity is a compare-and-swap on its     *)
(* row_version: run.fresh holds the rows nobody has written since the      *)
(* planner read them, so a write of p succeeds exactly when p \in          *)
(* run.fresh, and row[p] then still is what was read.                      *)
(***************************************************************************)
EXTENDS Opportunity, FiniteSets

CONSTANTS
  Player,       \* the players of the roster in this game
  NoPlayer,
  Watch,        \* the shared postgame row of scheduled_work
  Recheck,      \* postgame rows for reopened performances: how many of them are in use at once
  Deadline,     \* action_deadline of each player's opportunity
  PollFrom,     \* when the watch is first due: two hours after tipoff
  RunLimit,     \* how long one run of the planner may take
  Edits,        \* the corrections the owner makes in this instance
  Games,        \* what the schedule may say of the game in this instance,
  Spots,        \* where a roster snapshot may find a player,
  Reconfigured  \* and the answers to "has the league's configuration changed?"

Work == Recheck \cup {Watch}

ASSUME LockInAssumption ==
  /\ Deadline \in [Player -> (Start + 1) .. LastTime]
  /\ PollFrom \in (Start + Grace + 1) .. LastTime
  /\ RunLimit \in Nat /\ Edits \subseteq Correction /\ Games \subseteq GameState
  /\ Spots \subseteq Spot /\ Reconfigured \subseteq BOOLEAN
  /\ NoPlayer \notin Player /\ Watch \notin Recheck

VARIABLES
  now,
  row,     \* lock_in_opportunities, by player
  rec,     \* recommendations of type live_lock_in; "sent" once their tokens are delivered
  advice,  \* the published team plan: live while delivered and current, and its targets
  poll,    \* the statuses of the game's rows of scheduled_work
  until,   \* and their deadlines
  run      \* the planner

vars == <<now, row, rec, advice, poll, until, run>>

-----------------------------------------------------------------------------
RecStatus == {"none", "pending", "sent", "acknowledged"}
NoRecord == [status |-> "none", player |-> NoPlayer, score |-> NoScore]
NoAdvice == [live |-> FALSE, targets |-> {}]
Waits(r) == rec[r].status \in {"pending", "sent"}
Dropped(recs) == [r \in Rec |-> IF r \in recs /\ Waits(r) THEN NoRecord ELSE rec[r]]

PollStatus == {"none", "waiting", "running", "completed", "canceled"}

\* Rows put down: released for retry, or done with.  A recheck has a key of its own and is never
\* written again, so its name is free.
Released(rows) == [k \in Work |-> IF k \in rows THEN "waiting" ELSE poll[k]]
Over(k, status) == IF k = Watch THEN status ELSE "none"

Stage == {"idle", "collect", "sync", "merge", "refresh", "poll", "fetch", "record", "plan",
          "confirm", "child", "read", "write", "publish", "restore", "warn", "check", "finish"}
NothingSeen == [game |-> "scheduled", spot |-> [p \in Player |-> "bench"], snapshot |-> 0,
                changed |-> FALSE]
Resting == [stage |-> "idle", planning |-> FALSE, mode |-> "prepare", at |-> 0, when |-> 0,
            seen |-> NothingSeen, starters |-> {}, todo |-> {}, cur |-> NoPlayer, fresh |-> {},
            stable |-> {}, version |-> FALSE, old |-> {}, child |-> NoRec, made |-> {},
            claimed |-> {}, retry |-> FALSE]

First(s) == CHOOSE x \in s : TRUE
IsOpen(p) == row[p].status \in Open

\* Wrong: the first player whose opportunity closes ends the watch for all.
HasOpenWrongAll(t) == \A p \in Player : IsOpen(p) /\ t < Deadline[p]

HasOpen(t) == \E p \in Player : IsOpen(p) /\ t < Deadline[p]

-----------------------------------------------------------------------------
(* A wake of the planner *)

\* dispatch_due_work: cancel what is past its deadline, claim what is due.
Woken(planning) ==
  /\ run.stage = "idle"
  /\ LET due == {k \in Work : /\ poll[k] = "waiting" /\ now < until[k]
                              /\ k = Watch => PollFrom <= now}
         busy == planning \/ due # {}
     IN /\ poll' = [k \in Work |-> IF k \in due THEN "running"
                                    ELSE IF poll[k] = "waiting" /\ until[k] <= now
                                         THEN Over(k, "canceled")
                                    ELSE poll[k]]
        /\ run' = [Resting EXCEPT !.stage = IF busy THEN "collect" ELSE "idle",
                                  !.planning = planning, !.at = IF busy THEN now ELSE 0,
                                  !.claimed = due]
  /\ UNCHANGED <<now, rec, advice, until>>

\* Opportunities past their deadline expire first.
Wake(planning) ==
  /\ Woken(planning)
  /\ row' = [p \in Player |-> IF Deadline[p] <= now THEN Elapsed(row[p]) ELSE row[p]]

\* Collection: the schedule and the roster, from a snapshot that may be some minutes old.
Collect ==
  /\ run.stage = "collect"
  /\ \E game \in Games, spot \in [Player -> Spots], snapshot \in {now - 1, now} \cap Time,
        changed \in Reconfigured :
       /\ now < Start => game \in {"scheduled", "unclear"}
       /\ now < PollFrom => game # "final"
       /\ run' = [run EXCEPT !.stage = "sync", !.when = now, !.todo = Player,
            !.seen = [game |-> game, spot |-> spot, snapshot |-> snapshot, changed |-> changed],
            !.starters = {p \in Player : spot[p] = "starter"}]
  /\ UNCHANGED <<now, row, rec, advice, poll, until>>

CandidateFor(p) == Candidate(run.seen.game, run.seen.spot[p], run.seen.snapshot)

\* _guarded_upsert, first half: INSERT OR IGNORE, and the read if the row was there.
InsertOrRead ==
  /\ run.stage = "sync" /\ run.todo # {}
  /\ LET p == First(run.todo)
     IN IF row[p].status = "absent"
        THEN /\ row' = [row EXCEPT ![p] = Inserted(CandidateFor(p), run.when)]
             /\ run' = [run EXCEPT !.todo = @ \ {p}]
        ELSE /\ run' = [run EXCEPT !.stage = "merge", !.cur = p, !.fresh = {p}]
             /\ UNCHANGED row
  /\ UNCHANGED <<now, rec, advice, poll, until>>

\* Its second half: the merge, lost if the manager wrote the row in between.
MergeRow ==
  /\ run.stage = "merge"
  /\ row' = IF run.cur \in run.fresh
            THEN [row EXCEPT ![run.cur] = Merge(row[run.cur], CandidateFor(run.cur),
                                                run.seen.changed, run.when)]
            ELSE row
  /\ run' = [run EXCEPT !.stage = "sync", !.todo = @ \ {run.cur}, !.cur = NoPlayer, !.fresh = {}]
  /\ UNCHANGED <<now, rec, advice, poll, until>>

\* UPSERT_SCHEDULED_WORK_SQL for the watch of the game: running and completed rows stay.
UpsertWatch(deadline) ==
  IF poll[Watch] \in {"running", "completed"} THEN UNCHANGED <<poll, until>>
  ELSE /\ poll' = [poll EXCEPT ![Watch] = "waiting"]
       /\ until' = [until EXCEPT ![Watch] = deadline]

\* One watch for the game, as late as its last candidate that is not ineligible.
SyncWatch ==
  /\ run.stage = "sync" /\ run.todo = {}
  /\ LET deadlines == {Deadline[p] : p \in {p \in Player : CandidateFor(p).status # "ineligible"}}
     IN IF deadlines = {} THEN UNCHANGED <<poll, until>>
        ELSE UpsertWatch(CHOOSE d \in deadlines : \A e \in deadlines : e <= d)
  /\ run' = [run EXCEPT !.stage = IF run.planning THEN "refresh" ELSE "poll",
                        !.seen = NothingSeen]
  /\ UNCHANGED <<now, row, rec, advice>>

\* refresh_terminal_lock_in_scores: settled scores follow corrections of the statistics.  Rows
\* the summary leaves out, or whose compare-and-swap is lost, keep their score.
RefreshScores ==
  /\ run.stage = "refresh"
  /\ \E players \in SUBSET {p \in Player : row[p].status \in Settled}, s \in Score :
       row' = [p \in Player |-> IF p \in players THEN Observed(row[p], s) ELSE row[p]]
  /\ run' = [run EXCEPT !.stage = "plan"]
  /\ UNCHANGED <<now, rec, advice, poll, until>>

-----------------------------------------------------------------------------
(* The postgame poll *)

\* list_due_lock_in_opportunities; next_check_at decides which of the open rows are due.
ListDue ==
  /\ run.stage = "poll"
  /\ \E due \in SUBSET {p \in Player : IsOpen(p) /\ run.when < Deadline[p]} :
       run' = [run EXCEPT !.stage = IF due = {} THEN "check" ELSE "fetch",
                          !.todo = due, !.fresh = due]
  /\ UNCHANGED <<now, row, rec, advice, poll, until>>

\* The summary arrives; deadlines that passed meanwhile expire their rows first.
Fetch ==
  /\ run.stage = "fetch"
  /\ LET late == {p \in Player : Deadline[p] <= now}
         todo == run.todo \ late
         outcome == IF todo = {} THEN "check" ELSE "record"
     IN IF run.todo \cap late = {}
        THEN UNCHANGED row /\ run' = [run EXCEPT !.stage = "record"]
        ELSE /\ row' = [p \in Player |-> IF p \in late THEN Elapsed(row[p]) ELSE row[p]]
             /\ run' = [run EXCEPT !.stage = outcome, !.todo = todo, !.fresh = @ \ late]
  /\ UNCHANGED <<now, rec, advice, poll, until>>

\* Wrong: a corrected score leaves the recommendation for the old one standing.
PollRowsWrongKeepsAdvice ==
  /\ run.stage = "record"
  /\ \E s \in Score :
       row' = [p \in Player |-> IF p \in run.todo \cap run.fresh THEN Observed(row[p], s)
                                ELSE row[p]]
  /\ run' = [run EXCEPT !.stage = IF run.todo \cap run.fresh = {} THEN "check" ELSE "plan",
                        !.todo = {}, !.fresh = {}, !.stable = run.todo \cap run.fresh]
  /\ UNCHANGED <<now, rec, advice, poll, until>>

\* observe_postgame: wait, or record the final score of every row still as it was listed.  A
\* recommendation for another score is superseded (of a row the manager wrote meanwhile it no
\* longer waits).  One step for all rows: each write is guarded for itself.
PollRows ==
  /\ run.stage = "record"
  /\ LET held == run.todo \cap run.fresh
     IN \/ /\ \E playing \in BOOLEAN :
                row' = [p \in Player |-> IF p \in held THEN Deferred(row[p], playing) ELSE row[p]]
           /\ run' = [run EXCEPT !.stage = "check", !.todo = {}, !.fresh = {}]
           /\ UNCHANGED rec
        \/ /\ PollFrom <= now
           /\ \E s \in Score :
             /\ row' = [p \in Player |-> IF p \in held THEN Observed(row[p], s) ELSE row[p]]
             /\ rec' = Dropped({row[p].rec : p \in {p \in held : row[p].score \notin {s, NoScore}}})
             /\ run' = [run EXCEPT !.stage = IF held = {} THEN "check" ELSE "plan",
                                   !.todo = {}, !.fresh = {}, !.stable = held]
  /\ UNCHANGED <<now, advice, poll, until>>

-----------------------------------------------------------------------------
(* The plan *)

\* The plan is made or kept; what follows depends on who asked for it.
Planned == [run EXCEPT !.stage = IF ~run.planning THEN "check"
                                 ELSE IF run.claimed # {} THEN "collect" ELSE "idle",
                       !.planning = FALSE, !.mode = "prepare", !.version = FALSE, !.old = {},
                       !.child = NoRec, !.made = {}, !.cur = NoPlayer, !.fresh = {},
                       !.starters = {}, !.stable = {}, !.todo = {}]
Settle(r) == IF r.stage = "idle" THEN Resting ELSE r

\* Wrong: whoever is listed as a starter by now may be advised on.
UsableWrongLate(p) ==
  /\ row[p].score # NoScore /\ row[p].status \notin Settled \cup {"ineligible", "expired"}
  /\ run.when < Deadline[p] /\ p \in run.starters

\* reconcile_player_games and completed_scores: whose final can be locked or passed now.
Usable(p) ==
  /\ row[p].rostered = "yes" /\ row[p].score # NoScore
  /\ row[p].status \notin Settled \cup {"ineligible", "expired"}
  /\ run.when < Deadline[p] /\ p \in run.starters

\* Published advice that still stands is kept; its targets are marked again.
KeepAdvice ==
  /\ run.stage = "plan" /\ advice.live
  /\ \A r \in advice.targets : Waits(r) => now < Deadline[rec[r].player]
  /\ run' = [run EXCEPT !.stage = "restore", !.mode = "restore", !.made = advice.targets]
  /\ UNCHANGED <<now, row, rec, advice, poll, until>>

\* build_current_team_plan reads the decision version and the state, and chooses what to advise.
ChoosePlan ==
  /\ run.stage = "plan"
  /\ \E choice \in SUBSET {p \in Player : Usable(p)} :
       run' = [run EXCEPT !.stage = "confirm", !.version = TRUE, !.todo = choice, !.when = 0,
                          !.starters = {}, !.stable = {}]
  /\ rec' = Dropped({r \in Rec : Waits(r) /\ Deadline[rec[r].player] <= now})
  /\ UNCHANGED <<now, row, advice, poll, until>>

\* It raises if a decision was recorded while it was computing.
Discard ==
  /\ run.stage = "confirm" /\ ~run.version
  /\ poll' = Released(run.claimed)
  /\ run' = Resting
  /\ UNCHANGED <<now, row, rec, advice, until>>

\* prepare_score_confirmations lists the pending recommendations first.
ListPending ==
  /\ run.stage = "confirm" /\ run.version
  /\ run' = [run EXCEPT !.stage = "child", !.old = {r \in Rec : Waits(r)}]
  /\ UNCHANGED <<now, row, rec, advice, poll, until>>

Referenced == {row[p].rec : p \in Player} \cup advice.targets \cup run.made
Free == {r \in Rec \ Referenced : ~Waits(r)}

\* Wrong: the child is stored whatever the decision version.
CreateChildWrongVersion ==
  /\ run.stage = "child" /\ run.todo # {} /\ Free # {}
  /\ LET p == First(run.todo)
         r == First(Free)
     IN /\ rec' = [Dropped({q \in run.old : rec[q].player = p})
                     EXCEPT ![r] = [status |-> "pending", player |-> p, score |-> row[p].score]]
        /\ run' = [run EXCEPT !.stage = "read", !.cur = p, !.child = r]
  /\ UNCHANGED <<now, row, advice, poll, until>>

\* The child recommendation of one player: the pending one of the same content, or a new one,
\* whose INSERT the database refuses once the decision version has changed (NoRec).  Older ones
\* for the player are superseded.
CreateChild ==
  /\ run.stage = "child" /\ run.todo # {}
  /\ LET p == First(run.todo)
     IN \/ \E r \in {r \in Rec : Waits(r) /\ rec[r].player = p /\ rec[r].score = row[p].score} :
             /\ rec' = Dropped({q \in run.old \ {r} : rec[q].player = p})
             /\ run' = [run EXCEPT !.stage = "read", !.cur = p, !.child = r]
        \/ LET kept == Dropped({q \in run.old : rec[q].player = p})
           IN IF run.version
              THEN \E r \in Free :
                     /\ rec' = [kept EXCEPT ![r] = [status |-> "pending", player |-> p,
                                                    score |-> row[p].score]]
                     /\ run' = [run EXCEPT !.stage = "read", !.cur = p, !.child = r]
              ELSE /\ rec' = kept
                   /\ run' = [run EXCEPT !.stage = "read", !.cur = p, !.child = NoRec]
  /\ UNCHANGED <<now, row, advice, poll, until>>

\* restore_score_confirmations takes the next target that still waits.
NextTarget ==
  /\ run.stage = "restore"
  /\ IF run.made = {} THEN run' = Settle(Planned)
     ELSE LET r == First(run.made)
          IN run' = IF Waits(r) THEN [run EXCEPT !.stage = "read", !.cur = rec[r].player,
                                                 !.child = r, !.made = @ \ {r}]
                    ELSE [run EXCEPT !.made = @ \ {r}]
  /\ UNCHANGED <<now, row, rec, advice, poll, until>>

\* On to the next child, target or warning.
Onward ==
  CASE run.mode = "prepare" -> [run EXCEPT !.stage = "child", !.todo = @ \ {run.cur},
                                           !.made = @ \cup ({run.child} \ {NoRec}),
                                           !.cur = NoPlayer, !.child = NoRec, !.fresh = {}]
    [] run.mode = "restore" -> [run EXCEPT !.stage = "restore", !.cur = NoPlayer,
                                           !.child = NoRec, !.fresh = {}]
    [] run.mode = "warn" -> [run EXCEPT !.stage = "warn", !.todo = @ \ {run.cur},
                                        !.cur = NoPlayer, !.fresh = {}]

\* _mark_actionable, or blocked_postgame_advice, reads the row again ...
ReadRow ==
  /\ run.stage = "read"
  /\ run' = IF run.mode = "warn" \/ Offerable(row[run.cur])
            THEN [run EXCEPT !.stage = "write", !.fresh = {run.cur}]
            ELSE Onward
  /\ UNCHANGED <<now, row, rec, advice, poll, until>>

\* ... and writes it.  Naming a recommendation that was never stored breaks the foreign key:
\* the exception ends the run.
WriteRow ==
  /\ run.stage = "write"
  /\ IF run.cur \notin run.fresh THEN run' = Onward /\ UNCHANGED <<row, poll>>
     ELSE IF run.mode # "warn" /\ run.child = NoRec
     THEN /\ poll' = Released(run.claimed)
          /\ run' = Resting
          /\ UNCHANGED row
     ELSE /\ row' = [row EXCEPT ![run.cur] = IF run.mode = "warn" THEN Warned(row[run.cur])
                                             ELSE Offered(row[run.cur], run.child, now)]
          /\ run' = Onward
          /\ UNCHANGED poll
  /\ UNCHANGED <<now, rec, advice, until>>

\* Pending recommendations the new plan does not name are superseded.
SweepOld ==
  /\ run.stage = "child" /\ run.todo = {}
  /\ rec' = Dropped(run.old \ run.made)
  /\ run' = [run EXCEPT !.stage = "publish", !.old = {}]
  /\ UNCHANGED <<now, row, advice, poll, until>>

\* notifications.run: the plan replaces the published one.  Its INSERT, too, needs the decision
\* version it was computed for; its message may not reach anybody.
Publish ==
  /\ run.stage = "publish"
  /\ IF ~run.version THEN UNCHANGED <<rec, advice>>
     ELSE \/ /\ advice' = IF run.made = {} THEN NoAdvice ELSE [live |-> TRUE, targets |-> run.made]
             /\ rec' = [r \in Rec |-> IF r \in run.made /\ Waits(r)
                                      THEN [rec[r] EXCEPT !.status = "sent"] ELSE rec[r]]
          \/ /\ run.made # {}
             /\ advice' = NoAdvice
             /\ UNCHANGED rec
  /\ run' = Settle(Planned)
  /\ UNCHANGED <<now, row, poll, until>>

\* A blocked team state: every observed final gets a warning instead of advice.
Block ==
  /\ run.stage = "plan" /\ ~run.planning
  /\ run' = [run EXCEPT !.stage = "warn", !.mode = "warn", !.todo = run.stable]
  /\ UNCHANGED <<now, row, rec, advice, poll, until>>

\* Supersede what was advised for the row and send the warning.
WarnRow ==
  /\ run.stage = "warn"
  /\ IF run.todo = {} THEN run' = Settle(Planned) /\ UNCHANGED rec
     ELSE LET p == First(run.todo)
          IN /\ rec' = Dropped({row[p].rec})
             /\ run' = [run EXCEPT !.stage = "read", !.cur = p]
  /\ UNCHANGED <<now, row, advice, poll, until>>

-----------------------------------------------------------------------------
(* The end of the run *)

\* has_open_lock_in_watch at scheduled_at, asked for each claimed row ...
CheckOpen ==
  /\ run.stage = "check"
  /\ run' = IF run.claimed = {} THEN Resting
            ELSE [run EXCEPT !.stage = "finish", !.retry = HasOpen(run.at)]
  /\ UNCHANGED <<now, row, rec, advice, poll, until>>

\* ... which is then finished.
FinishPoll ==
  /\ run.stage = "finish"
  /\ \E k \in run.claimed :
        /\ poll' = [poll EXCEPT ![k] = IF run.retry THEN "waiting" ELSE Over(k, "completed")]
        /\ run' = [run EXCEPT !.stage = "check", !.claimed = @ \ {k}, !.retry = FALSE]
  /\ UNCHANGED <<now, row, rec, advice, until>>

\* An exception or the timeout at any await: the claimed rows are released for retry.
Fail ==
  /\ run.stage # "idle"
  /\ poll' = Released(run.claimed)
  /\ run' = Resting
  /\ UNCHANGED <<now, row, rec, advice, until>>

-----------------------------------------------------------------------------
(* Reads around tipoff: phases of the same consumer, before planning *)

\* Rows whose compare-and-swap is lost stay as they are (players leaves them out).
ReadBeforeTipoff ==
  /\ run.stage = "idle" /\ now < Start
  /\ \E players \in SUBSET {p \in Player : ReadableBefore(row[p])}, starts \in SUBSET Player :
       row' = [p \in Player |-> IF p \in players THEN BeforeTipoff(row[p], p \in starts, now)
                                ELSE row[p]]
  /\ UNCHANGED <<now, rec, advice, poll, until, run>>

\* A reopened row rearms the watch with its own deadline.
ReadAfterTipoff(p) ==
  /\ run.stage = "idle" /\ Start <= now
  /\ Reopenable(row[p], now)
  /\ row' = [row EXCEPT ![p] = AfterTipoff(row[p])]
  /\ UpsertWatch(Deadline[p])
  /\ UNCHANGED <<now, rec, advice, run>>

-----------------------------------------------------------------------------
(* The manager *)

\* A recorded decision makes every plan computed before it obsolete.
Obsolete(players) == [run EXCEPT !.fresh = @ \ players, !.version = FALSE]

\* consume_action_token: one batch.  The opportunity changes only if it is actionable for this
\* very recommendation.
Acknowledge(r, a) ==
  /\ rec[r].status = "sent"
  /\ LET p == rec[r].player
     IN /\ now < Deadline[p]
        /\ row' = [row EXCEPT ![p] = Confirmed(row[p], r, a, now)]
        /\ run' = Obsolete(IF row'[p] = row[p] THEN {} ELSE {p})
  /\ rec' = [rec EXCEPT ![r].status = "acknowledged"]
  /\ advice' = NoAdvice
  /\ UNCHANGED <<now, poll, until>>

\* A reopened performance gets a poll of its own.
Rechecked(p, a) ==
  IF a = "lockable"
  THEN \E k \in Recheck : /\ poll[k] = "none"
                          /\ poll' = [poll EXCEPT ![k] = "waiting"]
                          /\ until' = [until EXCEPT ![k] = Deadline[p]]
  ELSE UNCHANGED <<poll, until>>

\* save_manager_batch: audit, opportunity, recommendations and the poll of a reopened game, all
\* or nothing, guarded by the row_version the owner saw.
Corrected(p, a) ==
  /\ a \in Edits /\ MayReport(row[p], a, now, Deadline[p])
  /\ row' = [row EXCEPT ![p] = Reported(row[p], a, now, Deadline[p])]
  /\ rec' = [r \in Rec |-> IF rec[r].player = p THEN NoRecord ELSE rec[r]]
  /\ run' = Obsolete({p})
  /\ advice' = NoAdvice
  /\ UNCHANGED now

\* Wrong: the reopened game gets no poll of its own.
CorrectWrongNoRecheck(p, a) == Corrected(p, a) /\ UNCHANGED <<poll, until>>

Correct(p, a) == Corrected(p, a) /\ Rechecked(p, a)

\* Wrong: the week has one tick too many.
TickWrongEnd ==
  /\ now <= LastTime
  /\ run.stage # "idle" => now < run.at + RunLimit
  /\ now' = now + 1
  /\ UNCHANGED <<row, rec, advice, poll, until, run>>

\* Time passes; the timeout bounds how long a run may take.
Tick ==
  /\ now < LastTime
  /\ run.stage # "idle" => now < run.at + RunLimit
  /\ now' = now + 1
  /\ UNCHANGED <<row, rec, advice, poll, until, run>>

-----------------------------------------------------------------------------
Init ==
  /\ now = 0
  /\ row = [p \in Player |-> Absent]
  /\ rec = [r \in Rec |-> NoRecord]
  /\ advice = NoAdvice
  /\ poll = [k \in Work |-> "none"]
  /\ until = [k \in Work |-> 0]
  /\ run = Resting

Planner ==
  \/ Collect \/ InsertOrRead \/ MergeRow \/ SyncWatch \/ RefreshScores
  \/ ListDue \/ Fetch \/ PollRows
  \/ KeepAdvice \/ ChoosePlan \/ Discard \/ ListPending \/ CreateChild \/ NextTarget
  \/ ReadRow \/ WriteRow \/ SweepOld \/ Publish \/ Block \/ WarnRow
  \/ CheckOpen \/ FinishPoll

Next ==
  \/ \E planning \in BOOLEAN : Wake(planning)
  \/ Planner
  \/ Fail
  \/ ReadBeforeTipoff
  \/ \E p \in Player : ReadAfterTipoff(p)
  \/ \E r \in Rec, a \in Action : Acknowledge(r, a)
  \/ \E p \in Player, a \in Correction : Correct(p, a)
  \/ Tick

Spec == Init /\ [][Next]_vars

-----------------------------------------------------------------------------
(* Properties *)

Run == [stage : Stage, planning : BOOLEAN, mode : {"prepare", "restore", "warn"}, at : Time,
        when : Time,
        seen : [game : GameState, spot : [Player -> Spot], snapshot : Time, changed : BOOLEAN],
        starters : SUBSET Player, todo : SUBSET Player, cur : Player \cup {NoPlayer},
        fresh : SUBSET Player, stable : SUBSET Player, version : BOOLEAN, old : SUBSET Rec,
        child : Rec \cup {NoRec}, made : SUBSET Rec, claimed : SUBSET Work, retry : BOOLEAN]

TypeOK ==
  /\ now \in Time
  /\ row \in [Player -> Opportunity]
  /\ rec \in [Rec -> [status : RecStatus, player : Player \cup {NoPlayer},
                      score : Score \cup {NoScore}]]
  /\ advice \in [live : BOOLEAN, targets : SUBSET Rec]
  /\ poll \in [Work -> PollStatus]
  /\ until \in [Work -> Time]
  /\ run \in Run

\* No recommendation for a player-game waits for an answer once a decision on it is recorded,
\* and never do two of them: a late click cannot undo or contradict a decision
\* (create_current_plan's version guard, the supersessions, the all-or-nothing batch).
NoOfferAfterDecision ==
  \A r \in Rec : Waits(r) =>
    /\ row[rec[r].player].ack = "none"
    /\ \A q \in Rec : Waits(q) /\ rec[q].player = rec[r].player => q = r

\* What the manager can confirm on an actionable row is advice for the score that is stored:
\* a correction of the statistics withdraws the advice for the old score before anything else.
OfferMatchesScore ==
  \A p \in Player : row[p].status = "actionable" /\ row[p].rec \in Rec =>
    LET r == row[p].rec
    IN rec[r].status \in {"pending", "sent"} => rec[r].player = p /\ rec[r].score = row[p].score

\* Only a performance that started in a slot, and whose final score is known, becomes
\* actionable, although planner, poll and owner each write the row from what they read earlier.
ActionableIsEligible ==
  \A p \in Player : row[p].status = "actionable" =>
    row[p].rostered = "yes" /\ row[p].score # NoScore

\* A poll that will come: of the game's watch, or of a performance the owner reopened.
Polled(p, over) ==
  poll[Watch] \in over => \E k \in Recheck : poll[k] # "none" /\ Deadline[p] <= until[k]

\* A completed watch is never armed again, so it may complete only when no eligible
\* opportunity of the game is left open, unless a reopened row has a poll of its own.
WatchOutlastsOpen ==
  \A p \in Player : IsOpen(p) /\ row[p].rostered = "yes" /\ now < Deadline[p]
    => Polled(p, {"completed"})

\* A forfeited performance is reopened only by the owner's "Sleeper shows a lock": not by the
\* reads around tipoff, a poll, a plan or a later correction.
ForfeitureSticks ==
  [][\A p \in Player :
       row[p].status = "ineligible" /\ row[p].forfeited = "yes"
         => \/ row'[p].status = "ineligible" /\ row'[p].forfeited = "yes"
            \/ Correct(p, "lockable")]_vars

\* What the manager decided is on record until the manager says otherwise.
DecisionIsTheManagers ==
  [][\A p \in Player : row[p].ack # "none" /\ row'[p].ack # row[p].ack
       => \E a \in Correction : Correct(p, a)]_vars

\* "Sleeper's answer settles an unverified game; only the owner's override can reopen it"
\* (workflows/manager_decisions.py:88): the same, with "not lockable" among the corrections.
NotLockableSettles == ForfeitureSticks

\* "Postgame watches ... retry every five minutes until the opportunity is acknowledged, expired,
\* or otherwise closed" (docs/cloudflare-runtime.md:268): nor does the watch end, completed or
\* canceled, while an eligible opportunity is open.
WatchRetriesUntilClosed ==
  \A p \in Player : IsOpen(p) /\ row[p].rostered = "yes" /\ now < Deadline[p]
    => Polled(p, {"completed", "canceled"})
=============================================================================
