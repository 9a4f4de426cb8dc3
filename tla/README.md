# Sleeper Manager: a TLA+ verification project

Sleeper Manager advises the owner of a fantasy-basketball team in a *Lock-In*
league: during a week the owner may lock in one of each player's games, and what
is worth locking depends on the games still to come. A Cloudflare Worker plans,
polls for final scores and sends advice; the owner answers through confirmation
links or an editor. All durable state is in a SQL database (D1, with an SQLite
twin for local use). The numbers in the advice come from statistics; whether the
advice is about the right game, reaches the owner once, and never contradicts
what the owner decided comes from the control flow between the queue, the
planner, the pollers and the owner. That control flow is what is modelled here.

Contents: [inventory](#inventory), [modules](#modules), [runs](#runs-and-bounds),
[fairness](#fairness), [proofs](#proofs), [disagreements](#where-code-and-documents-disagree),
[limits](#what-is-not-modelled-and-why), [plan](#plan).

Paths are relative to `src/sleeper_manager/` of the repository unless they start
with `docs/`, `infra/`, `web/` or `README.md`.

## Inventory

Sizes: about 62,000 lines of Python, of which backtesting 19,100, workflows
8,100, persistence 7,900, cloudflare 6,200, projections 5,900, integrations
5,300, decisions 4,900, domain 3,400, notifications 300; the web application is
3,700 lines of TypeScript. `PROJECT.json` lists every component with its
sources and status, and every hazard at its line.

| Component | State | Operations | Makes it correct |
|---|---|---|---|
| Durable work queue (`cloudflare/dispatcher.py`, `scheduled_recovery.py`, `planning_schedule.py`, `persistence/statements.py`) | table `scheduled_work`: status, due instant, deadline, lease, lease owner per dedupe key | ensure the daily row, cancel expired, claim with a lease, finish or retry, reconcile with the schedule, recover after an exception | no row is worked on twice at a time, none is forgotten, completed work stays completed, work past its deadline is not begun |
| Cron and queue (`cloudflare/runtime.py`, `worker.py`, `planning_queue.py`) | wake messages (held by the platform) | a five-minute cron enqueues a wake; the consumer (one at a time) runs a dispatch under a 12-minute timeout; without a queue the cron dispatches inline, with no timeout | a late, lost or repeated wake costs time, never correctness |
| Lock-In opportunities (`workflows/lock_in_planning.py`, `tipoff_evidence.py`, `postgame_lock_in.py`, `postgame_observations.py`, `persistence/lock_in_*.py`) | table `lock_in_opportunities`: status, acknowledgement, score, rostered at tipoff, forfeiture in the trace, row version, one row per player-game | planning sync (insert, or merge old and new evidence), tipoff reads, score observation and correction, expiry | evidence arrives in any order; none of it reopens what was forfeited or undoes a decision |
| Postgame polling and confirmations (`cloudflare/postgame_dispatch.py`, `workflows/coordinated_postgame.py`, `score_confirmations.py`, `postgame_warnings.py`) | `scheduled_work` rows `postgame:...`, `recommendations` | poll for finals, plan, store one child recommendation per player-game, attach it to the row, warn when the plan is blocked, poll again while a row is open | an offer fits the stored score; polling goes on while an eligible row is open |
| Team plan (`workflows/daily_plan.py`, `current_team_plan.py`, `sticky_advice.py`, `persistence/manager_freshness.py`) | `recommendations`, the version of the owner's decisions | compute under a decision version, discard if it moved, store under `INSERT ... HAVING`, supersede older advice | advice computed before a decision is not published after it |
| Acknowledgement links (`cloudflare/confirmation.py`, `persistence/acknowledgements.py`, `d1.py`) | `action_tokens`, `acknowledgements` | consume a token, record the answer, ask for a replan | an answer counts once, for the row it was offered on |
| Owner controls (`workflows/manager_decisions.py`, `persistence/manager_batch.py`, `manager_sql.py`, `cloudflare/manager_submission.py`) | `manager_decision_changes`, the rows above | locked, passed, not locked, not lockable, Sleeper shows a lock; one SQL batch guarded by row versions | all or nothing; the owner's word is final |
| Notification delivery (`workflows/notification_loop.py`, `notifications/`) | `delivery_attempts` (claims and recorded attempts), rows `delivery_retry:...` | claim for two minutes, send, fall back, record, release, retry | a message arrives; twice only for a reason that can be named |
| Delay watchdog (`cloudflare/planning_watchdog.py`) | reads the queue | alert when the daily plan is overdue | one alert per day |
| Forecast capture (`workflows/forecast_schedule.py`, `forecast_capture.py`, `forecast_tipoffs.py`, `persistence/forecast_d1.py`) | immutable receipts and revisions, the cached slate of a day | one fetch a wake, five a day, tipoffs within an hour answered together | the cap holds; a slot has one receipt, a content one origin; evidence is not backdated |
| Policy and history sync (`cloudflare/policy_sync.py`, `runtime_sync.py`, `hybrid_sync.py`, `persistence/hybrid_runtime.py`) | the active policy, baseline observations, hybrid artifacts and versions | upload, publish, verify, activate, from the owner's machine | what is active is complete; one command does not undo another unseen |
| Weekly decisions and lineup moves (`decisions/`, `domain/lineup_moves.py`) | none (pure) | weighted assignment, completion of a lineup, best-first search for executable moves | advice is executable, by a shortest sequence; the assignment is the best |
| Planning inputs (`workflows/planning_inputs.py`, `planning_collection.py`, `retained_weekly_locks.py`, `lock_in_evidence.py`, `recommendation_state.py`) | none of its own; reads `lock_in_opportunities` and Sleeper's lineup | collect, turn the record into fixed slots and passes, restore the locks of departed players, assemble again before publishing | a plan is made of all of the owner's decisions or is blocked |
| The rest: scoring rules, provider integrations, projections, local repository, dashboard, backtesting, deployment | see `PROJECT.json` | | |

**How the parts interact.** The cron wakes a dispatch. A dispatch ensures the
daily row, cancels expired rows, expires opportunities, claims every due row and
runs four phases: tipoff reads, planning, postgame polls, delivery retries. Each
phase reads the table, awaits providers, and writes rows that other phases of
later dispatches will find. The owner's edits and acknowledgements arrive over
HTTP between any two awaits of a dispatch; they change the opportunity rows, the
recommendations, and the queue (a replan, and a poll for a reopened game). There
is no lock: what protects a row is a compare-and-swap on its version, a lease on
its queue row, or the decision version a plan was computed under.

**What is hard.** Rows read before an await and written after it; a dispatch that
fails between two of its writes, or dies without running any handler; two
dispatches at once; evidence that arrives out of order (a bench seen after
tipoff, a final that is corrected, a lineup known only days later); a shared
watch for the players of a game; decisions taken back. The hazards in
`PROJECT.json` list each with its line and the property that covers it.

Outside the dispatch the same pattern returns: two senders and a claim that ages,
two wakes and a receipt whose key is the slot, two plans and an insertion that
compares a version, two commands and a policy that is read twice. None of these
share state with each other except through the tables they read at their start,
which is why each has a module of its own.

## Modules

| Module | Models |
|---|---|
| `ScheduledWork` | the table `scheduled_work` and the invocations of `dispatch_due_work` |
| `JobBoard` | the abstract specification of that table: a board of jobs and their holders |
| `Opportunity` | one player-game: its record, and each statement that changes it, as operators |
| `LockIn` | the opportunities of one game, their recommendations, the published advice and the polls, with the one consumer and the owner |
| `LockInHistory` | `LockIn` with a memory of what was once observed or said of each performance |
| `NotificationDelivery` | runs of `NotificationLoop.run` and of delivery retries over the claims and attempts of a message |
| `ForecastCapture` | wakes of the forecast capture over the slate, the receipts and the revisions |
| `PlanPublication` | the weekly plan as a row of `recommendations`, with the runs that publish it |
| `RuntimeSync` | the commands that upload projection evidence and select it in the policy |
| `LineupMoves` | from a wanted placement to a complete lineup and the moves that lead there |
| `LineupAssignment` | `maximum_weight_assignment` |
| `TeamWeek` | from the recorded decisions to the state a plan is made of, and from the plan to the offers |
| `ScheduledWorkProofs` | theorems about `ScheduledWork` and its refinement of `JobBoard` |
| `DeliveryProofs`, `RuntimeSyncProofs`, `PublicationProofs`, `ForecastProofs` | theorems about `NotificationDelivery`, `RuntimeSync`, `PlanPublication` and `ForecastCapture` |
| `LockInProofs` | what the operators and steps of `LockIn` do, and theorems about it and `LockInHistory` |
| `LineupProofs` | theorems about `TeamWeek`, `LineupAssignment` and `LineupMoves` |
| `Induction` | induction and recursion as lemmas about sets and functions, which `ForecastProofs` and `LineupProofs` rest on |
| `MCScheduledWork`, `MCLockIn`, `MCLockInHistory`, `MCServices` | constants for TLC; the last one also puts seven independent components in one run |

### ScheduledWork

`work[k]` is the row with dedupe key `k`; `Family[k]` stands for the prefix of
the key, which decides the phase and who writes the row. `run[i]` is an
invocation: its stage, its age, the rows it claimed and has finished, what its
collection returned, and the writes it still has to make. Every instant is kept
relative to the present in cron intervals, which makes the state space finite
without an end of time; `Tick` brings everything one interval closer. An
invocation reads its clock once, so an instant `t` is due for an invocation of
age `a` if `t <= -a`; the one live clock (`_finish_planning`, recovery) is
relative to the present.

| Action | Code |
|---|---|
| `Begin`, `EnsureDaily` | `run_queued_planning`, `_ensure_daily_work` |
| `CancelExpired`, `ClaimDue` | `CANCEL_EXPIRED_...`, `CLAIM_DUE_WORK_SQL` |
| `ReadTipoffLineup`, `CollectPlanning`, `CollectPostgame` | the awaits at the start of a phase; they choose an outcome and the writes that follow from it |
| `WriteRow` | one upsert of the phase, in any order |
| `FinishTipoff`, `FinishPlanning`, `FinishPostgame`, `FinishDelivery` | one `FINISH_SCHEDULED_WORK_SQL` |
| `Interrupt`, `Recover` | an exception or the timeout's cancellation at any await; `recover_claimed_work`, row by row |
| `Crash` | hard termination, or a release that fails |
| `ManualReplan` | the rows an acknowledgement or an edit inserts |

The reconciliation's writes (`PreTipoffWrites`, `TipoffReadWrites`) are computed
from the table when it is listed and reach it later one at a time, so the race
between the list and the writes is in the model. A wake that is stale, malformed
or finds no policy changes nothing and is a stuttering step.

### Opportunity, LockIn, LockInHistory

`Opportunity` has the record of one player-game (status, acknowledgement, score,
rostered at tipoff, unverified, forfeited, when it was observed) and one operator
per statement: `Merge` for the planning sync, `BeforeTipoff` and `AfterTipoff` for
the lineup reads, `Observed` for a poll, `Elapsed` for expiry, `Offered`,
`Warned`, `Confirmed`, and `Reported` for the owner's corrections. The operators
have no state, so each can be read beside its code.

`LockIn` has the players of one game (they share one watch), their rows, the
recommendations, the advice that is published, the polls (`poll`, `until`: the
shared `Watch` and the rechecks of reopened rows) and the run of the one
consumer. A run goes through stages that end at awaits: collect, sync each row
(`InsertOrRead`, then `MergeRow`), rearm the watch, refresh scores, list due
rows, fetch, record, then plan. The plan is retained (`KeepAdvice`), discarded,
or stored child by child (`CreateChild`, `ReadRow`, `WriteRow`, `SweepOld`,
`Publish`); a blocked plan warns (`Block`, `WarnRow`). At the end every claimed
poll is finished or asked to retry. `run.fresh` holds the players whose row
version has not moved since it was read: the compare-and-swap. `run.version`
says the same of the decision version. The owner's `Acknowledge` and `Correct`,
and the reads around tipoff, may fall between any two steps.

`LockInHistory` adds two history variables: `benched`, the performances seen to
leave the lineup during their game, and `dismissed`, those whose last word from
the owner is "not lockable". The code keeps both only in a status and a trace
that other steps rewrite; the history keeps them whatever happens.

### NotificationDelivery

A sender is a run of `NotificationLoop.run` (for a plan, or for a notice such as
a postgame warning or the watchdog's alert) or of `retry_persisted`. Its stage
names the await it stands at: `Check` (was it delivered before), `TakeClaim` or
`Refused`, `SendPrimary`, `SendFallback`, `Number`, `Record` (one attempt after
the other), `Release`, `Enqueue`. `claim[m]` is the *age* of the claim, in
minutes. A claim bears the instant its run began and not the instant it was
taken, so it is born with the age of its run, and a run looks at it with its own
clock (`Takeable`). A provider accepts a message, refuses it, or fails after the
owner has it; `Raise` is any exception, `Die` cancellation or termination.

Three history variables say what the code cannot know: `unsure` (a message
arrived and nothing says so), `outlived` (a run was sending when its claim had
aged), `contested` (two runs were at work on the message at once, or one was
terminated with the claim in hand).

### ForecastCapture

Time is an instant; `LocalDay` and `UtcDay` differ by `Behind`. A wake reads the
clock once. Its stages: the slate of the day (`ReadSlate` from the cache,
`ResolveSlate` and `CacheSlate`, or `NoTipoffs` out of season and after a failed
lookup), `PlanCapture` (the slots, the cap, the choice), `Fetch`, `Decide`
(whether the content is new), `SaveCapture` (the guarded batch: a conflict rolls
all of it back), `SaveSuppressed`. A failed and an invalid response are one
outcome, since both count against the cap and neither has content. `MoveGame` is
the league's.

### PlanPublication

A plan is what the evidence (`news`), the owner's decisions (`answer`) and the
model (`stance`) make of it: its material hash. A row is a material and a
revision, with the version it was planned against, its status and whether its
message was seen. A run goes through `ReadVersion`, `Build`, `CheckVersion`,
`Stick` (keep what is published), `Allocate`, `ListOthers` and `SupersedeOne`,
`Create` (the insertion that compares the version), `SendPlan`; it may abort at
every await. `decisive` stands for the numerical evidence that overrides the
noise of the model.

The version is the pair the code stores: how many corrections, how many clicks.
Either decision moves it, and neither has to move the material. A click counts
although its opportunity was not actionable, as each poll resets a final to
finalizing, and then changes nothing (`Acknowledge`); an edit may save what was
there before (`Correct`), but always supersedes every plan. Since a row's key is
its material, a run may therefore find its plan stored under an older version, though
never under one older than a correction it has read (`SentPlanIsUncorrected`).

It may be one older than a click, and the model shows what then happens. "Plans carry
the saved-decision version used during computation" (`infra/cloudflare/README.md:111`),
but the insertion leaves the row that is there with the version that is there
(`persistence/manager_freshness.py:55`). After a click that changed nothing the
next run finds its own plan under the version before, sends it or ends as a
duplicate, and the dashboard withholds it: "A current plan has not completed"
(`cloudflare/home.py:453`), and a retry finds the same row. The advice is right; it
stays hidden until new evidence or a correction changes the key. One planner, two
runs and one click are enough: with them TLC refutes the invariant that a run at
stage `send`, whose version is still the present one, sends a row of that version.

### RuntimeSync

The state is what the database holds: the rows of each baseline history, the
hybrid artifacts, the published versions, the active policy. A command is a
process of its own whose statements go over HTTP one by one, so it may stop
after any of them (`Abandon`), and its guards are the read-backs the code makes.

### LineupMoves, LineupAssignment

`LineupMoves` starts from an observed lineup with its locks, reserves, games in
progress and pending scores. `AskOption` completes a placement of the next
batch (`Completed`), `AskReturn` asks for the way back from an attempt; `Pop` is
one turn of the loop of `LineupMoveSearch.find`, over the priority queue with
its stale entries, and among equal entries any may come first (the code takes
the oldest), so what is checked does not depend on it. `LegalSteps` and `Within`
say what may be done without the search, and are compared with it.
`LineupAssignment` takes one player a step, as the outer loop of
`_assignment_by_slot_mask` does, and keeps the best assignment for each set of
filled slots; `Feasible` enumerates all of them for comparison.

### TeamWeek

Performances are numbered in the order the database lists them, by player and then
by tipoff, because the assembly takes them in turn and a later lock yields to an
earlier one. `Assembled` is `build_live_team_week_state` with the comparison
`refreshed_team_state` adds: `Restored` locks of players who left, what is
`Admissible` as a constraint and what becomes a conflict, and whether
`TeamWeekState` would refuse the result (`Coherent`). The planner notes the
version, assembles, assembles again as of now and compares versions, with the
owner's confirmations and corrections between any two of these. Polls and plans
are work of one dispatcher and do not interleave. A plan that was overtaken by a
decision can no longer store an offer, but it still withdraws the old ones and
marks rows actionable, as the code does. `Contradicted` names what blocks a plan
for good reason: two locks of one player or in one slot, a lock the lineup
contradicts, a pass of a player who has left.

Three things the module makes visible, none of which a document rules out. A pass
of a player who then leaves the roster blocks every plan of the week, since only
locks are restored. A confirmation link has no guard on the slot (the editor has),
so an old offer confirmed after a correction may put two locks into one slot, and
plans are blocked until the owner corrects one. And the evidence read from
recommendation traces is empty in production: it is loaded for decision type
`lock_in` (`persistence/acknowledgements.py:21`) while the children are stored as
`live_lock_in`, so an answer that met a row that was not actionable fixes nothing.

A definition named `...Wrong...` is not part of a model. Each is a plausible bug
in the definition below it and shows that a property notices it.

## Runs and bounds

| Run | What it asks | Distinct states |
|---|---|---|
| `sw_queue` | one consumer; daily, pre-tipoff, tipoff and manual rows, every interruption: no row is forgotten or worked on past its deadline, completed and retired rows stay so | 911,300 |
| `sw_lease` | two overlapping consumers, timeout shorter than lease: ownership, and refinement of `JobBoard` | 95,716 |
| `sw_overlap` | two consumers, timeout *longer* than lease (inline dispatch): completed is final and only the owner settles, even so | 1,205,533 |
| `sw_live` | with fairness: an orphaned row is claimed again; the daily plan completes | 4,489 |
| `li_decide` | one player, two scores, every kind of evidence, decisions and taking them back | 1,244,777 |
| `li_reopen` | the owner also reopens ineligible games; the league's configuration may change | 1,346,232 |
| `li_shared` | two players with different deadlines share a watch | 1,296,700 |
| `services` | delivery, forecast capture, plan publication, runtime sync, lineup moves, assignment and the team's week, each on its own instance | 1,716,088 |
| `li_settled`, `li_cut`, `li_forfeit`, `li_dismiss` | see [disagreements](#where-code-and-documents-disagree) | violated |

**Bounds of ScheduledWork.** `Horizon = 2` intervals: far enough for a row to be
due later than the next wake, for a lease (at most 2) and a retry (1) to run out
at different times, and for a deadline before or after either. `RunLimit` and
`Lease` are 1 and 2 where the timeout is shorter than the lease, as 12 minutes
is shorter than 15, and 2 and 1 where it is not. Two invocations are enough for
one to take over from the other and the theorems lift the bound. The runs cover
daily, pre-tipoff, tipoff, postgame, manual and delivery rows; a recovery row is
written and finished as a pre-tipoff row that nothing cancels, a reopened row is
inserted as a manual one and finished as a postgame one, so neither has a run of
its own. `attempt_count`, the claim limit of 50 and the cap of
50 cancellations per reconciliation are left out.

**Bounds of LockIn.** `Start = 1`, `PollFrom = 2`, a deadline at 3 (two players:
2 and 3), `LastTime = 4`: before tipoff, during the game, after the final, at and
after the deadline. `RunLimit = 1` lets a run straddle one tick. Two
recommendations (three in `li_decide`) allow one to be replaced by another; the
runs with two players are about polls only and have none. Two scores (in
`li_decide`) make a correction. `Recheck` has one key, so one reopening per behaviour. The game's
state, the player's spot and whether the configuration changed are drawn afresh
in every collection, so evidence may come in any order a provider could give.
Symmetry is over recommendations, which the model only compares, and is used
only for invariants and action properties.

**Bounds of `services`.** The variable `component` says which of the seven parts
moves; the others keep a single resting state, so the run explores the *sum* of
their state spaces and not the product. Nothing is lost: no action of one reads a
variable of another. Senders, wakes, planners and commands have the same two
names, and none of the actions tells them apart, so permuting them is sound for
the invariants and action properties of the run. Deadlock is not checked here:
a capture ends at its horizon, a search and an assignment end with their answer.

- *Delivery*: one message (messages share nothing), two runs, with and without a
  fallback. `ClaimAge` and `SendLimit` are 1: a run may grow as old as a claim
  must be to be taken over, so takeovers happen with and without an outlived
  claim. `RowDelay` is 1, the least the assumption allows; `MaxAttempt = 2` lets
  a run with a fallback, or two without, record. The theorems lift these.
- *Forecast*: two overlapping wakes, two games with two possible tipoffs whose
  slots are exactly `Window` apart, one content, a day of 3 instants with local
  midnight one after UTC midnight, horizon 3: the daily slots of two local days
  fall into one UTC day and the cap of 1 bites across local midnight.
- *Plan*: two runs at a time, of the same or of different evidence, and two changes
  between them in any mixture: clicks, corrections, one new piece of evidence
  (`MaxChanges`, `MaxNews`, `MaxVersion`). Enough for a run to start before and end
  after another, and for a decision to fall between any two awaits. With
  `MaxNews = 1` beside two decisions all properties hold as well (1,713,708 states
  of this part alone), too slow for the shared run.
- *Runtime*: two commands, one baseline history of two rows, one hybrid version
  of two artifacts of which only one is read when it is loaded.
- *Moves*: three players and the slots G, F and C; each player fits two of them,
  so that three players can stand in a cycle in which no swap is legal. At most
  one of them is locked, in reserve, playing or has a pending score; the bench is
  unknown or holds two. `MaxSearchStates = 8` is reached in some requests, which
  the code answers by refusing. The slot UTIL, which admits everyone, is in
  `Flex` but not among the three.
  Players may be renumbered and the three slots rotated, so only one request of
  each orbit is looked at.
- *Week*: two games of one player and one of another, who compete for a single
  slot; two decisions of the owner (a decision and its correction, or two that
  collide) and two instants, so that a decision may be newer than the time a plan
  is made for. With two slots, of which the second player fits only one,
  `PlanIsTheRecord` holds as well (915,815 states), too slow for the shared run.
- *Assignment*: two slots, four candidates of three players (one has two games),
  scores 1 and 2 so that ties are frequent, at most one required or forbidden
  edge, with and without full cardinality.

**Choices of the instances that matter.** Not every correction is in every run.

- `li_decide` has `not_locked`, `locked` and `passed`; `li_reopen` has `locked`,
  `passed` and `lockable`. Neither has `not_lockable`, because the code lets a
  concurrent step undo it (`li_settled`, `li_dismiss`). With "passed",
  "not lockable" and "lockable" together, `NoOfferAfterDecision` and
  `DecisionIsTheManagers` also fail, as a consequence of `li_dismiss`: the old
  pass returns while a plan is being made. `OfferMatchesScore` and
  `ActionableIsEligible` hold there too.
- `WatchOutlastsOpen` is checked without postponed games and players out of
  position ("unclear", "misfit"): an ineligible row of a postponed game whose
  player was out of position may become `reconciliation_required` after the watch
  is over, and waits for the owner. It is also checked without `not_locked`: taking
  back a decision after the watch completed leaves an open row nobody polls, whose
  score is known and which the next plan considers. A league whose configuration
  changes is in `li_reopen`, with one instant before tipoff; with `Start = 2` and
  two different lineups before tipoff TLC finds a third way, a row that an older
  snapshot made ineligible after a newer one had shown the player starting, and
  that the change reopens. `WatchOutlasts` below shows that every way is of these
  kinds: a late merge or a withdrawn decision that reopens a closed row.
- A recommendation may be acknowledged while its row is not actionable (it is
  being observed again, or warned about); the recommendation is then used up and
  the row stays undecided. The models allow it and no property forbids it,
  although `docs/cloudflare-runtime.md:271` speaks of both changing together.
- Deadlock is checked in every run but `services`.

## Fairness

Only `sw_live` uses fairness (`FairSpec`). Weak fairness of `Tick` and of
`Begin`: time passes and the cron, every five minutes, keeps waking the Worker.
Weak fairness of each invocation's steps: a started invocation goes on unless it
is interrupted or terminated. Strong fairness of the steps on the way to a
finished plan (ensure, cancel, claim, a collection that succeeds, a write, a
finish): neither provider failures nor terminations repeat for ever at the same
point. That last assumption is about the environment. Without it a provider that
is down for good keeps every plan from completing, which is true of the code.
Nothing is assumed about `Interrupt`, `Crash` or the owner.

`OrphanIsReclaimed` and `DailyPlanCompletes` (of a day that has a row) are
checked with one daily key and a postgame row.

## Proofs

Constants are arbitrary: any set of keys, any number of invocations, runs and
commands, any timeout, lease, delay and horizon that satisfy the named
assumptions of the module.

| Theorem | Says | Assumes |
|---|---|---|
| `TypeCorrect` | `Spec => []TypeOK` | |
| `RowsAreKept` | `Spec => []NoRowForgotten` | |
| `CompletedStaysCompleted` | `Spec => CompletedIsFinal` | |
| `OwnersSettle` | `Spec => OnlyOwnerSettles` | |
| `LeaseIsEnough` | `Spec => []OwnsWhatItWorksOn` | `RunLimit < Lease` |
| `QueueIsJobBoard` | `Spec => ImplementsJobBoard` | `RunLimit < Lease` |
| `NoLateWork` | `Spec => []NeverWorksPastDeadline` | `Concurrency <= 1`, `RunLimit < Lease` |
| `RetiredReadsStay` | `Spec => RetiredReadStays` | `Concurrency <= 1` |
| `DeliveryTyped` | `DeliverySpec => []DeliveryTypeOK` | |
| `OneSender` | `DeliverySpec => []OneSenderUnlessOutlived` | |
| `DuplicatesExplained` | `DeliverySpec => []DuplicateHasCause` | |
| `RetriesEndInDelivery` | `DeliverySpec => []RetryEndsInDelivery` | |
| `RuntimeTyped` | `RuntimeSpec => []RuntimeTypeOK` | |
| `PolicyBacked` | `RuntimeSpec => []PolicyIsBacked` | |
| `PolicySyncComparesFirst` | `RuntimeSpec => PolicySyncKeepsChanges` | |
| `PlanTyped` | `PlanSpec => []PlanTypeOK` | |
| `SentPlansAreUncorrected` | `PlanSpec => []SentPlanIsUncorrected` | |
| `OnePlanPending` | `PlanSpec => []OnePendingPlan` | |
| `SentPlansArePending` | `PlanSpec => []SentPlanIsPending` | |
| `SeenAdviceIsKept` | `PlanSpec => SeenAdviceSticks` | |
| `CapIsKept` | `ForecastSpec => []CapHolds` | |
| `ContentIsIntroducedOnce` | `ForecastSpec => []IntroducedOnce` | |
| `PastIsKept` | `ForecastSpec => NeverBackdated` | |
| `ForecastTyped` | `ForecastSpec => []ForecastTypeOK` | |
| `SlotsAreApart` | `ForecastSpec => []SlotsApart` | |
| `WeekTyped` | `TeamWeekSpec => []TeamWeekTypeOK` | |
| `PlanIsOfTheRecord` | `TeamWeekSpec => []PlanIsTheRecord` | |
| `AssignmentTyped` | `AssignmentSpec => []AssignmentTypeOK` | |
| `AssignmentBest` | `AssignmentSpec => []AssignmentIsBest` | |
| `LineupTyped` | `LineupSpec => []LineupTypeOK` | |
| `PlansAreExecutable` | `LineupSpec => []PlanIsExecutable` | |
| `SearchesAreExact` | `LineupSpec => []SearchIsExact` | |
| `LockInTyped` | `Spec => []TypeOK` of `LockIn` | |
| `ActionableRowsAreEligible` | `Spec => []ActionableIsEligible` | |
| `OffersMatchScores` | `Spec => []OfferMatchesScore` | |
| `DecidedIsNotOffered` | `Spec => []NoOfferAfterDecision` | not both "not lockable" and "lockable" in `Edits` |
| `OnlyTheManagerDecides` | `Spec => DecisionIsTheManagers` | the same |
| `OnlyTheOwnerReopens` | `Spec => ForfeitureSticks` | "not lockable" not in `Edits` |
| `WatchOutlasts` | `Spec => []WatchOutlastsOpen` | `[][NoLateReopening]_vars` |
| `WatchOutlastsUndisturbed` | `Spec => []WatchOutlastsOpen` | no "unclear" in `Games`, `TRUE` not in `Reconfigured`, "not locked" not in `Edits` |
| `BenchedStaysUnoffered` | `HistorySpec => []BenchedIsNotOffered` | neither "not lockable" nor "not locked" in `Edits` |

`RunLimit < Lease` is the relation between the 12-minute timeout of
`run_queued_planning` and the 15-minute `DEFAULT_SCHEDULED_WORK_LEASE`. It is
exactly what inline dispatch, which has no timeout, lacks; `RowsAreKept`,
`CompletedStaysCompleted` and `OwnersSettle` hold there as well.

`Concurrency <= 1` is `max_concurrency = 1` of the planning queue's consumer
(`wrangler.toml:17`). Where invocations overlap, `NeverWorksPastDeadline` and
`RetiredReadStays` are false: between the cancellation of one invocation and its
claim another may put a row back whose deadline has passed, and a list of rows to
write may have been read before another invocation canceled one of them.

`Edits` says which corrections the owner makes in an instance. The theorems that
restrict it are false without the restriction, and what breaks them is real
behaviour of the code: "not lockable" of a settled row keeps its
acknowledgement, which the next merge, or "lockable", brings back to life
(`li_dismiss`); a warning that read the row before the owner wrote
"not lockable" undoes it (`li_settled`); and "not locked" forgets a bench
transition that was seen while the row was settled (`li_forfeit`). The instances
`li_decide` and `li_reopen` satisfy the restrictions. The first three theorems
about `LockIn` hold for every set of corrections.

`NoLateReopening` (in `LockInProofs`) is a restriction of steps, not of constants:
`WatchOutlasts` speaks of the behaviours in which nothing closed is reopened late.
`WatchOutlastsUndisturbed` names constants under which that is every behaviour;
`li_shared` has such constants. The bounds above list what happens without.

*The invariants.* `NoRowForgotten` alone is not inductive: recovery releases
`claimed \ finished`, so one must know that nothing is in `finished` before it is
settled. `NothingFinishedEarly` says so, and `KeepInv` is `TypeOK`,
`NoRowForgotten` and `NothingFinishedEarly` together. Ownership needs to know why
a lease cannot be due: `LeaseMatches` says a held row's lease is `Lease` minus
the age of its holder, because the row was claimed with the holder's own clock.
Then a holder younger than `RunLimit` has a lease that nobody, of whatever age,
sees as due (`NotDueYet`). `OwnInv` is `KeepInv`, `OwnsWhatItWorksOn` and
`LeaseMatches`.

*One consumer.* An invocation cancels what is past its deadline in one statement and
claims in another, and works on what it claimed for up to `RunLimit` ticks. `Timely`
says that what it may claim, and what it still works on, was not past its deadline
when it began: nobody else is there to put such a row back, an upsert spares the
deadline of a running row (hence `OwnInv`), and since an invocation reads the clock
once, time makes nothing due for it (`DueStays`). `TimelyInv` is `OwnInv`,
`OneAtATime` and `Timely`. A tipoff read that is to be written was not canceled when
the list was made (`PlannedWrites`), and is not in the list a second time to be
canceled; `RetireInv` says that this is still so when the row is written, since the
list is made and written by one invocation, which cancels nothing in between except
by that list.

*The refinement.* A waiting row is a job to do, a running one is held by its
owner; the owner of a terminated invocation is `Gone`, and only then may the
board give the job to someone else. Claiming maps to `Take` and expiry to
`Withdraw`, which are allowed because what is claimable or expired is free
(`DueIsFree`, from `OwnInv`); an upsert to `Offer`, `WithdrawOffer` or a stutter;
a finish to `PutDown`, or to a stutter when the row has changed hands; a crash to
`Vanish`. One more invariant is needed: a reconciliation cancels only rows that
exist (`CancelsKnown`), or it would put a dropped job on the board that was never
offered. The board does not see *why* a holder puts a job down; that a row is not
pulled from under its holder is `OwnsWhatItWorksOn`.

*Delivery.* What keeps two runs apart is not ownership, which a claim does not
have, but age. `Claimed` says that, unless the message was outlived, a run in
flight is younger than `ClaimAge` and the claim is exactly as old as the run
(`OwnsClaim`); so nobody, of whatever age, finds the claim takeable, and only the
run that took it can delete it. Why a message does not arrive twice needs the
recorded attempts as well. `Once` speaks of a message that has arrived and has no
cause for a duplicate yet: it arrived once; it is still claimed; a run in flight
on it holds the success and has only to record it; the success is recorded or
about to be; and a run that stands before the claim, having found no success when
it looked, will be refused, because the claim ages no faster than that run does.
A run that begins later finds the success (`Check`), and one whose
recommendation is new cannot begin, since the advice is stored; a retry exists
only for stored advice (`Queued`). `Shape` adds the type, that attempt numbers
have a maximum, and that what a run got is its last outcome. `DeliveryInv`
is `Shape`, `Claimed` and `Once` of every message.

A retry that is refused the claim reports a duplicate, which completes its row. So
that a row ends without a delivery, the claim must be held when the retry asks for
it. `Calm` says of a message that has not arrived, on which no run has met another
and no plan or notice died with the claim, that at most one run is at work on it, and that a claim no run in flight
holds was left by a retry that was terminated. `Ages` says that this claim has aged
by the time its row is due, so a retry that begins then, and does so alone, finds it
takeable until it takes it (`Orderly`). The row is put back after the claim
is released, never before (`enqueue`).

*Runtime data.* `PolicyIsBacked` is not inductive, because a command saves what it
verified earlier. `Progress` says of every stage what has been verified by then
and stays true: rows and artifacts are only ever added, a version is published
after its artifacts (`HistoriesComplete`), a policy that was active was backed,
and a command that takes over the selection of the active policy inherits that.
`CheckPolicy` reads only the index and the manifest of a history, which is enough
because a version is published after *all* its artifacts. A baseline is known to
be complete only as a whole: `CheckPolicy` asks for one row, and it is the policy
in force, on the same dataset, that vouches for the rest. `RuntimeInv` is the
type, `PolicyIsBacked`, `HistoriesComplete` and `Progress` of every command.

*Plan publication.* `PlanInv` holds for any number of runs. A correction
supersedes every plan, so a pending one knows every correction, however many clicks
ago it was made, and has the owner's answer if there was none since (`Dated`). A row
a run finds at the key it allocates is pending, so it was made after every correction
the run has read; `ReadWell` keeps that true until it sends, since rows are never
replaced and new ones bear the present version. `RowsInv` says that keys are
unique and revisions contiguous; the first free one exists because there are
fewer rows than numbers (`RevisionExists`). `AloneInv` holds until two runs
overlap, and says why there is one pending plan at most: the pending plan is the newest row,
and what is pending has the run's material or is still on its list (`OnlyRun`).
When the run stores its plan, the list is empty; a pending row would bear its
material, but at a lower revision it was closed when the key was allocated, at the
same one the key would be taken, and at a higher one contiguity would give a row at
the run's own. `Looked` carries what `Stick` found to the supersession several
awaits later.

*Forecast capture.* The cap is read from the stored receipts, so what has to be
counted is what a wake cannot see. `Accounted` says of a UTC day that every
request has a receipt (`Recorded`), never will (`unrecorded`), or belongs to a
wake that has yet to save it (`Asked`); and that the receipts with the wakes that
have decided to ask (`Asking`) number at most `Cap - 1 + |Wake|`, since whoever
decides found fewer than `Cap` and only the others can be ahead of it. `Introduced`
says that a known content has exactly one `changed` receipt: the
guards of the capture batch look again, so of two wakes that found a content new
one records it as unchanged. `Noted` ties what a wake holds to its stage. A receipt
bears the instant at which its wake began, which is why only a wake that began by a
cutoff changes what is found there. None of the three depends on what the
grouping of tipoffs computes. `ForecastInv` is these and the shape of the state.

`SlotsApart` does. That the slots `Coalesced` returns are more than `Window` apart
is an induction over the set of tipoffs, of which the earliest is taken first
(`CoalescedFacts`). What is left is that the receipts of one day come from one slate:
`OneSlate` says that, unless two wakes resolved the day at once (`raced`), one at most
is resolving it and finds nothing cached, and that whoever has planned, and every
receipt that is not the daily slot's, has its slots from the slate that is cached.
`SlotInv` is this, `Slotted` (a wake that may save holds slots of its own slate and
day) and the shape of the receipts; it does not need `ForecastInv`.

*Lock-In.* The planner decides from what it read several awaits ago, so every
invariant is about what of that still holds. The first part of `LockInProofs`
reduces the steps to twelve ways in which a row changes (`RowChanges`) and says what
each operator of `Opportunity` and each step of the run does; the rest has the
invariants.

`OfferInv` holds for every set of corrections. `RunInv` says that the
mode fits the stage, that a row still in `fresh` is as it was read, and that
whom the plan chose has a score and started in a slot, or has become ineligible
meanwhile. `RowInv` says that a settled row carries its decision, and that a score
comes from after the game, so no snapshot then in use can change the lineup at
tipoff. `RecInv` is about the recommendations that wait: there is one for each
player; the one an actionable row names is the row's own; and its score is that
of the row, or the row is settled. The last is what a correction of
the statistics puts at risk, because only the recommendation named by the row is
withdrawn with the old score. So `RecInv` also says which rows must name theirs:
those of published targets (`TargetFits`), and those of children already made,
while no decision has made the plan obsolete (`MadeFits`). A child whose row does
not name it yet is in the hands of the run (`InHand`), and a poll cannot run then.

`DecisionInv` says that a decided row keeps what the decision made of it, or
has been overwritten by a warning or by time and waits for the merge that
restores it (`Overwritten`): in between no poll, plan or offer looks at it,
because every run syncs first. Nobody who waits for an answer, or is chosen for
one under a decision version that still stands, is decided.

`WarnsSound` says that a run warns only of rows that are not ineligible: they
were open when it observed them, and without "not lockable" nothing makes a row
ineligible between a poll and its warnings. With `DecisionInv` this makes
forfeitures final. `BenchedInv` adds that a performance seen to be benched is
forfeited or decided.

`WatchInv` says who looks after a performance that can still be locked (`Live`)
once the watch of the game is completed: a recheck of its own, waiting or claimed,
that lasts to its deadline (`Covers`). The same must hold for rows that a warning may
yet reopen (`RowsCovered` includes the `Warnable`), and, between the check for open
rows and the end of the run, for what has been reopened since (`FinishSound`),
though by a poll the run has not claimed, because that one it is about to complete.
`PollsSound` adds that the watch first runs when no snapshot in use is evidence any
more, which is why `NoLateReopening` has to exclude so little: that a merge of the
planner's, by a change of configuration or a game that has become unclear, or a
withdrawn decision makes a closed performance open after that. The owner's
"lockable" and the warnings of a blocked plan are not excluded. `NothingReopened`
shows that it excludes no step at all where the schedule and the configuration are
clear and no decision is withdrawn, which is `WatchOutlastsUndisturbed`.

*The week.* `Assembled` takes performances in turn, so what it computes is found by
induction on how many have been taken: nothing but locks on record gets through, no
two of one player or in one slot (`RestoredFacts`, `FixedFacts`); if nothing
contradicts the record and all of it is from before the instant, all of them do
(`AssembledFacts`, which calls this `Gathered`); and a week that has them all is not
blocked (`Unblocked`). The rest is about the decision version. `Planned` says that
as long as the version is the one that was noted, a state that was assembled again
is `Gathered` and `Unblocked`; the state assembled first is only `Unblocked`, because
decisions saved after the collection's instant are not in it. A decision makes the
version larger than any that was noted, and no other step changes the locks and
passes on record. `WeekInv` adds the type and that no decision is from the future.

*The assignment.* `AssignmentInv` says what the table holds when the players of a set
have had their turn (`Tabled`): each entry is a legitimate choice of these players
that fills its slots, with the required ones of them in it, and no legitimate choice
that fills the same slots beats it. The step (`TurnKeeps`, with `TurnIsLegit` and `TurnIsEnough`) is the
argument for keeping one assignment for each set of slots: take the player out of
a choice that beats the new entry, and what is left beats the old entry of its
slots, or equals it, because totals are sums (`TotalFacts`) and the comparison of
names, slot by slot, does not change when the same candidate is added to both
sides. When all have had their turn, the entries that meet the demands are the
feasible choices that nothing beats.

*The moves.* The search itself is proved about over any graph of lineups: `Searched`
says that a cost is that of a sequence of moves from the observed lineup, that it is
smaller than the number of lineups met, that parents lead back along moves with
smaller costs, and that a lineup that is not queued at its cost has been explored, all of
its neighbors being at most one move further. Hence the path of parents has no cycle
and is what `PlanIsExecutable` replays; and hence, along any legal sequence, either
the lineup is met in time or something on the way waits in the queue with an
estimate no greater than the length, so a lineup found at the head of the queue is
found by a shortest sequence, and an empty queue has met all that can be reached.
Two facts about lineups make it apply. `Neighbors`, the three ways in which the code
changes a lineup, are exactly the `LegalSteps`, stated without it (`NeighborsAreLegal`):
this needs that a lineup the search meets is `Sound`, with nobody twice, the locked
slots as observed and movable players in the others. And a move settles two slots
at most, so half the mismatches, rounded up, never exceed the moves that are left.
`LineupInv` says of a request at rest that nothing has been searched, and else
`Searched` and what each verdict means.

*Induction.* The installed provers instantiate no theorem with an operator for a
parameter, so the induction and recursion theorems of the library cannot be used.
`Induction` states what is needed with sets and functions: a set that has 0 and all
successors has every number (from the well-foundedness of `<`), likewise for the
subsets of a finite set, and a recursion along a decreasing measure has a function that
satisfies it. A recursive definition of a model is then a `CHOOSE` of a function that
exists, and its equation can be used in a proof.

*What the proofs assume of the constants* is what the modules assume and no more:
among others that the rosters, candidates and tipoffs are finite, that the names
of slots are a sequence and known bench capacities are integers, and that a tipoff's
slot is not more than a day before it.

*Only model-checked.* Liveness (and anything with `ENABLED`) is beyond the
prover: `OrphanIsReclaimed`, `DailyPlanCompletes`. `ServicesTypeOK` is the conjunction of the type invariants of
the seven parts in one run; each of them is a theorem.

## Where code and documents disagree

Each is a run that TLC must find violated, with a finding in `PROJECT.json`.

- **`li_settled`** (`workflows/postgame_warnings.py:113`). A blocked plan warns of
  every observed final. After the delivery the row is read again and written as
  `reconciliation_required` with a new trace, whatever it has become. A
  "not lockable" the owner saved meanwhile is undone, while
  `workflows/manager_decisions.py:88` says only the owner's override can reopen it.
- **`li_cut`** (`workflows/tipoff_evidence.py:134`). A lineup read that reopens one
  player's row upserts the shared watch with that player's deadline, also when
  the other player of the game has a later one; the watch may then be canceled
  while that player is open (`docs/cloudflare-runtime.md:268`).
- **`li_forfeit`** (`workflows/lock_in_planning.py:321`). A bench transition seen
  while the row is settled leaves no trace, so taking back a pass makes the
  performance eligible, against `README.md:137`.
- **`li_dismiss`** (`workflows/manager_decisions.py:91`). "Not lockable" on a
  passed, unverified game keeps the acknowledgement; the next planning sync takes
  the status from it, so the row is passed again and its forfeiture is forgotten
  (`README.md:128`). Whether the owner meant to take back the pass is open, but
  what was saved does not last until the next plan.

## What is not modelled, and why

- Parts of the modelled components: splitting a long message, action tokens, the
  watchdog's own condition (when it alerts is a choice), the context stored beside
  a forecast receipt, the health report, the contents of artifacts, the shadow
  evaluation, and the SQLite twin of the D1 statements.
- The expected values of plans, projections and backtests: floating-point
  numerics over sampled data, with no concurrent state.
- Backtesting and replay (a third of the code): offline research over recorded
  seasons, one process, files in and reports out. Nothing in the service reads
  what it writes except the histories that `RuntimeSync` uploads.
- Of the planning inputs, everything `TeamWeek` leaves out: identities, schedules,
  availability, projections and their freshness, each of which adds a blocking
  reason of its own; starters out of position; automatic finals after the week;
  several edits in one batch. A wrong or missing field there is a matter of data;
  what a collection may return is the choice the other models make.
- Floats: `LineupAssignment` has integer scores, so the tolerance of 1e-9 and the
  rounding of sums are outside it.
- Provider clients, parsing, rendering, sessions and secrets: I/O and wording. In
  the models a collection is a choice of its outcome.
- A message provider's own behaviour, and the queue's redelivery: external. An
  invocation may begin at any time, which covers lost and repeated wakes.
- A batch of edits over several games is modelled as edits one at a time; the
  batch's all-or-nothing is the atomicity of one action.
- The upsert retries of `d1_retry`: an upsert is idempotent, so a retry is a
  stuttering step unless the row was claimed in between, in which case it writes
  nothing.
- What `RetiredReadStays` implies for the owner: a game that moves away from its
  tipoff and back to it gets no second lineup read. This is what the code does.

## Plan

1. *Done*: the queue, its abstract board and their theorems; the Lock-In lifecycle
   and its four disagreements.
2. *Done*: delivery, plan publication, forecast capture, the sync commands, lineup
   moves, the assignment and the team's week, checked in `services`; theorems about delivery and
   the sync commands.
3. *Done*: theorems about `LockIn`, `PlanPublication` and `ForecastCapture`, and the
   rest of those about the queue, delivery and the sync commands; then about what the
   sequential algorithms compute: the slots of a day, the team's week, the assignment and
   the lineup moves.
4. `PlanPublication` composed with `NotificationDelivery`, so that `SendPlan` is a
   run of the loop and a retry may send a plan that was superseded meanwhile.
5. The watchdog as a reader of `ScheduledWork`, with liveness: a plan that is
   overdue is announced.
