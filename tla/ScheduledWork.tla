---------------------------- MODULE ScheduledWork ----------------------------
(***************************************************************************)
(* The durable work queue of the Worker: the scheduled_work table in D1    *)
(* and the invocations of dispatch_due_work that claim its rows, run their *)
(* phases and finish them.                                                 *)
(*                                                                         *)
(* Time is counted in Cron intervals (five minutes).  Every instant is     *)
(* kept relative to the present: a positive number lies in the future, 0   *)
(* or less has passed.  Tick moves everything one interval closer, and     *)
(* forgets how long ago something passed beyond RunLimit, the age of the   *)
(* oldest invocation: no comparison of the code can tell those apart.      *)
(* An invocation reads "now" once, as scheduled_at, so an instant t is due *)
(* for an invocation of age a when t <= -a.                                *)
(***************************************************************************)
EXTENDS Integers, FiniteSets

CONSTANTS
  Key,         \* dedupe keys of the rows that can exist
  Family,      \* Family[k]: what the prefix of key k says the row is for
  Run,         \* identities (correlation ids) of the invocations in flight
  Gone,        \* the identity of every invocation that was terminated or never was
  Concurrency, \* how many invocations may be in flight together
  RunLimit,    \* the asyncio timeout of a queued invocation, in intervals
  Lease,       \* DEFAULT_SCHEDULED_WORK_LEASE
  RetryDelay,  \* _RETRY_DELAY
  Lead,        \* move_lead_time + _CRON_INTERVAL: how early a pre-tipoff row is due
  Horizon      \* how far ahead any instant may lie (a bound of the model)

Families == {"daily", "recovery", "manual", "pre_tipoff", "tipoff", "postgame",
             "reopened", "delivery"}

ASSUME KeyAssumption == Key # {} /\ Family \in [Key -> Families]
ASSUME TimeAssumption ==
  /\ RunLimit \in Nat /\ Lease \in Nat /\ RetryDelay \in Nat /\ Lead \in Nat /\ Horizon \in Nat
  /\ Lease <= Horizon /\ RetryDelay <= Horizon
ASSUME RunAssumption == Gone \notin Run /\ Concurrency \in Nat

VARIABLES
  work,        \* the scheduled_work table
  run          \* the invocations

vars == <<work, run>>

-----------------------------------------------------------------------------
(* Values *)

Never == Horizon + 1                   \* SQL NULL for an instant
Instant == (-RunLimit) .. Never
Soon(t) == IF t < -RunLimit THEN -RunLimit ELSE t
Closer(t) == IF t = Never THEN t ELSE Soon(t - 1)

Status == {"absent", "pending", "running", "retry", "completed", "canceled"}
Row == [status : Status, due : Instant, deadline : Instant, lease : Instant, owner : Run \cup {Gone}]
Write == [key : Key, status : {"pending", "canceled"}, due : Instant, deadline : Instant]

Stage == {"idle", "ensure", "expire", "claim", "work", "recover"}
Verdict == {"none", "ok", "failed", "blocked"}
Invocation == [stage : Stage, age : 0 .. RunLimit, today : Key, claimed : SUBSET Key,
               finished : SUBSET Key, verdict : Verdict, writes : SUBSET Write]

Of(f) == {k \in Key : Family[k] = f}
Exists(k) == work[k].status # "absent"
Waiting(k) == work[k].status \in {"pending", "retry"}
Running(k) == work[k].status = "running"
Due(i, t) == t <= -run[i].age
Live(i) == run[i].stage # "idle"

\* Dispatch runs the phases in this order: tipoff reads, planning, postgame, delivery retries.
Phase(k) == CASE Family[k] = "tipoff" -> 1
              [] Family[k] \in {"postgame", "reopened"} -> 3
              [] Family[k] = "delivery" -> 4
              [] OTHER -> 2

Left(i) == run[i].claimed \ run[i].finished
InPhase(i, p) == /\ run[i].stage = "work"
                 /\ \E k \in Left(i) : Phase(k) = p
                 /\ \A k \in Left(i) : p <= Phase(k)

-----------------------------------------------------------------------------
(* The SQL statements *)

\* Wrong on purpose, as is every definition named ...Wrong...: the ON CONFLICT guard forgets
\* completed rows.
UpsertWrongReopens(w, u) ==
  IF w[u.key].status = "running" THEN w
  ELSE [w EXCEPT ![u.key] = [w[u.key] EXCEPT !.status = u.status, !.due = u.due,
                                             !.deadline = u.deadline]]

\* UPSERT_SCHEDULED_WORK_SQL: a running or completed row is left alone, and the lease and
\* owner of a row that is already there are kept.
Upsert(w, u) ==
  IF w[u.key].status \in {"completed", "running"} THEN w
  ELSE [w EXCEPT ![u.key] = [w[u.key] EXCEPT !.status = u.status, !.due = u.due,
                                             !.deadline = u.deadline]]

\* Wrong: whoever finishes, the row is updated by its key alone.
FinishWrongByKey(w, i, k, status, retryAt) ==
  [w EXCEPT ![k] = [w[k] EXCEPT !.status = status, !.lease = Never,
                      !.due = IF retryAt = Never THEN w[k].due ELSE Soon(retryAt)]]

\* Wrong: the lease owner is not compared.
FinishWrongOwner(w, i, k, status, retryAt) ==
  IF w[k].status = "running" THEN FinishWrongByKey(w, i, k, status, retryAt) ELSE w

\* FINISH_SCHEDULED_WORK_SQL: only the invocation that owns the running row changes it.
\* retry_at is Never (NULL) unless the status is retry.
Finish(w, i, k, status, retryAt) ==
  IF w[k].status = "running" /\ w[k].owner = i
  THEN [w EXCEPT ![k] = [w[k] EXCEPT !.status = status, !.lease = Never,
                           !.due = IF retryAt = Never THEN w[k].due ELSE Soon(retryAt)]]
  ELSE w

\* Wrong: a running row is claimed whatever its lease.
ClaimableWrongLease(i, k) == Due(i, work[k].due) /\ (Waiting(k) \/ Running(k))

\* Wrong: rows that are done are claimed with the rest.
ClaimableWrongDone(i, k) ==
  Exists(k) /\ Due(i, work[k].due) /\ (Running(k) => Due(i, work[k].lease))

\* Wrong: a running row is never claimed again.
ClaimableWrongWaiting(i, k) == Due(i, work[k].due) /\ Waiting(k)

\* Wrong: a row to be retried is not claimed.
ClaimableWrongRetry(i, k) ==
  /\ Due(i, work[k].due)
  /\ work[k].status = "pending" \/ (Running(k) /\ Due(i, work[k].lease))

\* CLAIM_DUE_WORK_SQL: due rows, and running rows whose lease has run out.
Claimable(i, k) ==
  /\ Due(i, work[k].due)
  /\ Waiting(k) \/ (Running(k) /\ Due(i, work[k].lease))

Claim(w, i, claimed) ==
  [k \in Key |-> IF k \in claimed
                 THEN [w[k] EXCEPT !.status = "running", !.owner = i,
                                   !.lease = Lease - run[i].age]
                 ELSE w[k]]

\* Wrong: rows that a dead invocation left running are not covered.
ExpiredWrongWaiting(i, k) == Due(i, work[k].deadline) /\ Waiting(k)

\* CANCEL_EXPIRED_SCHEDULED_WORK_SQL
Expired(i, k) ==
  /\ Due(i, work[k].deadline)
  /\ Waiting(k) \/ (Running(k) /\ Due(i, work[k].lease))

-----------------------------------------------------------------------------
(* Invocations *)

Resting == [stage |-> "idle", age |-> 0, today |-> CHOOSE k \in Key : TRUE, claimed |-> {},
            finished |-> {}, verdict |-> "none", writes |-> {}]

\* run_queued_planning starts run_scheduled, which reads the clock once, loads the policy and
\* lists the daily rows. k is the key of today's row.  A wake that is stale or invalid, and a
\* missing policy, end the invocation before it changes anything: no step.
Begin(i, k) ==
  /\ ~Live(i)
  /\ Cardinality({j \in Run : Live(j)}) < Concurrency
  /\ Family[k] = "daily"
  /\ run' = [run EXCEPT ![i] = [Resting EXCEPT !.stage = IF Exists(k) THEN "expire" ELSE "ensure",
                                               !.today = k]]
  /\ UNCHANGED work

\* _ensure_daily_work found no row for today: it writes one, due at the daily plan time.
EnsureDaily(i, due) ==
  /\ run[i].stage = "ensure"
  /\ work' = Upsert(work, [key |-> run[i].today, status |-> "pending", due |-> due,
                           deadline |-> Never])
  /\ run' = [run EXCEPT ![i].stage = "expire"]

CancelExpired(i) ==
  /\ run[i].stage = "expire"
  /\ work' = [k \in Key |-> IF Expired(i, k)
                            THEN [work[k] EXCEPT !.status = "canceled", !.lease = Never]
                            ELSE work[k]]
  /\ run' = [run EXCEPT ![i].stage = "claim"]

\* claim_due_work; with nothing claimed the invocation ends.
ClaimDue(i) ==
  /\ run[i].stage = "claim"
  /\ LET claimed == {k \in Key : Claimable(i, k)}
     IN /\ work' = Claim(work, i, claimed)
        /\ run' = [run EXCEPT ![i] = IF claimed = {} THEN Resting
                                     ELSE [run[i] EXCEPT !.stage = "work", !.claimed = claimed]]

\* The rows a successful planning collection asks for, from the list the reconciliation read.
\* start maps the wanted games to their tipoffs.
PreTipoffWrites(i, start) ==
  LET keep(k) == \/ Due(i, work[k].due) /\ Due(i, work[k].deadline)
                 \/ ~Waiting(k)
      same(k) == /\ work[k].deadline = start[k]
                 /\ \/ work[k].status = "retry"
                    \/ work[k].status = "pending" /\ work[k].due = Soon(start[k] - Lead)
  IN {[key |-> k, status |-> "canceled", due |-> work[k].due, deadline |-> work[k].deadline] :
        k \in {k \in Of("pre_tipoff") \ DOMAIN start : ~keep(k)}}
     \cup
     {[key |-> k, status |-> "pending", due |-> Soon(start[k] - Lead), deadline |-> start[k]] :
        k \in {k \in DOMAIN start : work[k].status \notin {"running", "completed"} /\ ~same(k)}}

\* Wrong: a canceled read is written again when its tipoff is wanted again.
TipoffReadWritesWrongRevival(i, wanted, at) ==
  {[key |-> k, status |-> "pending", due |-> at, deadline |-> at + 1] :
     k \in {k \in wanted : work[k].status \in {"absent", "canceled"}}}

\* A tipoff read keeps its instant for ever; only unknown keys are written.
TipoffReadWrites(i, wanted, at) ==
  {[key |-> k, status |-> "canceled", due |-> work[k].due, deadline |-> work[k].deadline] :
     k \in {k \in Of("tipoff") \ wanted : work[k].status = "pending" /\ ~Due(i, work[k].due)}}
  \cup
  {[key |-> k, status |-> "pending", due |-> at, deadline |-> at + 1] :
     k \in {k \in wanted : ~Exists(k)}}

\* Rows written whatever the table holds: postgame watches, recovery checks, delivery retries.
Offers(keys, due, deadline) ==
  {[key |-> k, status |-> "pending", due |-> due, deadline |-> deadline] : k \in keys}

\* One lineup read serves every claimed tipoff row; a row reopened by it rearms its postgame watch.
ReadTipoffLineup(i) ==
  /\ InPhase(i, 1) /\ run[i].verdict = "none"
  /\ \/ run' = [run EXCEPT ![i].verdict = "failed"]
     \/ \E keys \in SUBSET Of("postgame"), due \in 0 .. Horizon, deadline \in 0 .. Horizon :
          run' = [run EXCEPT ![i].verdict = "ok", ![i].writes = Offers(keys, due, deadline)]
  /\ UNCHANGED work

\* A successful collection: the reconciliation, the Lock-In sync, the plan's recovery checks and
\* the retry of a failed delivery, each with its own rows to write.
Reconcile(i, games, reads, keys) ==
  \E start \in [games -> 1 .. Horizon], at \in 0 .. (Horizon - 1),
     due \in 0 .. Horizon, deadline \in 0 .. Horizon :
    run' = [run EXCEPT ![i].verdict = "ok",
                       ![i].writes = PreTipoffWrites(i, start) \cup TipoffReadWrites(i, reads, at)
                                     \cup Offers(keys, due, deadline)]

\* collect once for every planning row; it fails, is blocked by a missing history or policy, or
\* succeeds.
CollectPlanning(i) ==
  /\ InPhase(i, 2) /\ run[i].verdict = "none"
  /\ \/ run' = [run EXCEPT ![i].verdict = "failed"]
     \/ run' = [run EXCEPT ![i].verdict = "blocked"]
     \/ \E games \in SUBSET Of("pre_tipoff"), reads \in SUBSET Of("tipoff"),
           keys \in SUBSET (Of("postgame") \cup Of("recovery") \cup Of("delivery")) :
          Reconcile(i, games, reads, keys)
  /\ UNCHANGED work

\* collect and sync for every claimed game; a failure of either, also one after the sync has
\* written some watches, retries them all.
CollectPostgame(i) ==
  /\ InPhase(i, 3) /\ run[i].verdict = "none"
  /\ \E verdict \in {"ok", "failed"}, keys \in SUBSET Of("postgame"),
        due \in 0 .. Horizon, deadline \in 0 .. Horizon :
       run' = [run EXCEPT ![i].verdict = verdict, ![i].writes = Offers(keys, due, deadline)]
  /\ UNCHANGED work

\* One upsert of the current phase reaches the table.
WriteRow(i) ==
  /\ run[i].stage = "work"
  /\ \E u \in run[i].writes :
       /\ work' = Upsert(work, u)
       /\ run' = [run EXCEPT ![i].writes = @ \ {u}]

\* One claimed row is finished.  The last row of the last phase ends the invocation, the last
\* row of another phase begins the next one.
Settle(i, k, status, retryAt) ==
  /\ run[i].writes = {}
  /\ k \in Left(i)
  /\ work' = Finish(work, i, k, status, retryAt)
  /\ run' = [run EXCEPT ![i] =
       IF Left(i) = {k} THEN Resting
       ELSE [run[i] EXCEPT
              !.finished = run[i].finished \cup {k},
              !.verdict = IF \E j \in Left(i) \ {k} : Phase(j) = Phase(k) THEN run[i].verdict
                          ELSE "none"]]

\* postgame_dispatch._finish counts the retry from scheduled_at, not from the live clock.
FinishTipoff(i, k) ==
  /\ InPhase(i, 1) /\ Phase(k) = 1
  /\ \/ run[i].verdict = "ok" /\ Settle(i, k, "completed", Never)
     \/ run[i].verdict = "failed" /\ Settle(i, k, "retry", RetryDelay - run[i].age)

\* _finish_planning: a failed collection retries every planning row, a blocked one completes.
FinishPlanning(i, k) ==
  /\ InPhase(i, 2) /\ Phase(k) = 2
  /\ \/ run[i].verdict \in {"ok", "blocked"} /\ Settle(i, k, "completed", Never)
     \/ run[i].verdict = "failed" /\ Settle(i, k, "retry", RetryDelay)

\* A game with an open opportunity (has_open_lock_in_watch), or one whose poll failed, is
\* polled again.
FinishPostgame(i, k) ==
  /\ InPhase(i, 3) /\ Phase(k) = 3
  /\ \/ run[i].verdict = "ok" /\ Settle(i, k, "completed", Never)
     \/ run[i].verdict # "none" /\ Settle(i, k, "retry", RetryDelay - run[i].age)

\* _run_delivery_retry: not pending any more, delivered, or failed again.
FinishDelivery(i, k) ==
  /\ InPhase(i, 4) /\ Phase(k) = 4
  /\ \/ Settle(i, k, "canceled", Never)
     \/ Settle(i, k, "completed", Never)
     \/ Settle(i, k, "retry", RetryDelay)

\* Wrong: the rows of a phase count as settled as soon as one of them is.
InterruptWrongPhase(i) ==
  /\ run[i].stage = "work"
  /\ LET settled == {k \in run[i].claimed : \E j \in run[i].finished : Phase(j) = Phase(k)}
     IN run' = [run EXCEPT ![i] = IF settled = run[i].claimed THEN Resting
                                  ELSE [run[i] EXCEPT !.stage = "recover", !.finished = settled,
                                                      !.writes = {}, !.verdict = "none"]]
  /\ UNCHANGED work

\* An exception or the timeout's CancelledError at any await.  Before the claim the invocation
\* just ends.  After it recover_claimed_work takes over: the rows whose phase has returned are
\* settled (delivery rows one by one), every other claimed row is to be released.
Interrupt(i) ==
  /\ Live(i) /\ run[i].stage # "recover"
  /\ LET returned == {k \in run[i].finished : Phase(k) = 4 \/ \A j \in Left(i) : Phase(k) < Phase(j)}
     IN run' = [run EXCEPT ![i] =
          IF run[i].stage # "work" THEN Resting
          ELSE [run[i] EXCEPT !.stage = "recover", !.finished = returned, !.writes = {},
                              !.verdict = "none"]]
  /\ UNCHANGED work

\* recover_claimed_work releases one unfinished row: retry five minutes from now.
Recover(i, k) ==
  /\ run[i].stage = "recover"
  /\ k \in Left(i)
  /\ work' = Finish(work, i, k, "retry", RetryDelay)
  /\ run' = [run EXCEPT ![i] = IF Left(i) = {k} THEN Resting
                               ELSE [run[i] EXCEPT !.finished = run[i].finished \cup {k}]]

\* Hard termination, or a recovery whose own write fails: rows stay running until their leases
\* run out.  Their correlation id will never be seen again; which one it was makes no
\* difference, so it is called Gone from here on.
Crash(i) ==
  /\ Live(i)
  /\ run' = [run EXCEPT ![i] = Resting]
  /\ work' = [k \in Key |-> IF work[k].owner = i THEN [work[k] EXCEPT !.owner = Gone] ELSE work[k]]

\* An acknowledgement or a manager's edit asks for a plan, a reopened player-game for a poll:
\* INSERT OR IGNORE, due at the instant of the write.  To an invocation that has already read
\* its clock that is the future, so the row rounds up to the next interval if one began in this.
ManualReplan(k, due, deadline) ==
  /\ Family[k] \in {"manual", "reopened"} /\ ~Exists(k) /\ due <= deadline
  /\ \A i \in Run : Live(i) => ~Due(i, due)
  /\ work' = [work EXCEPT ![k] = [work[k] EXCEPT !.status = "pending", !.due = due,
                                                 !.deadline = deadline]]
  /\ UNCHANGED run

\* Wrong: nothing limits the age of an invocation.
TickWrongTimeout ==
  /\ work' = [k \in Key |-> [work[k] EXCEPT !.due = Closer(work[k].due),
                                            !.deadline = Closer(work[k].deadline),
                                            !.lease = Closer(work[k].lease)]]
  /\ run' = [i \in Run |-> IF Live(i) THEN [run[i] EXCEPT !.age = run[i].age + 1] ELSE run[i]]

\* Five minutes pass.  asyncio.wait_for lets no invocation grow older than RunLimit.
Tick ==
  /\ \A i \in Run : Live(i) => run[i].age < RunLimit
  /\ work' = [k \in Key |-> [work[k] EXCEPT !.due = Closer(work[k].due),
                                            !.deadline = Closer(work[k].deadline),
                                            !.lease = Closer(work[k].lease)]]
  /\ run' = [i \in Run |->
       IF Live(i)
       THEN [run[i] EXCEPT !.age = run[i].age + 1,
               !.writes = {[u EXCEPT !.due = Closer(u.due), !.deadline = Closer(u.deadline)] :
                            u \in run[i].writes}]
       ELSE run[i]]

-----------------------------------------------------------------------------
Init ==
  /\ work = [k \in Key |-> [status |-> "absent", due |-> Never, deadline |-> Never,
                            lease |-> Never, owner |-> Gone]]
  /\ run = [i \in Run |-> Resting]

\* The steps of invocation i that the platform schedules (everything but failures).
Step(i) ==
  \/ \E due \in (-RunLimit) .. Horizon : EnsureDaily(i, due)
  \/ CancelExpired(i)
  \/ ClaimDue(i)
  \/ ReadTipoffLineup(i)
  \/ CollectPlanning(i)
  \/ CollectPostgame(i)
  \/ WriteRow(i)
  \/ \E k \in Key :
       \/ FinishTipoff(i, k) \/ FinishPlanning(i, k)
       \/ FinishPostgame(i, k) \/ FinishDelivery(i, k)
       \/ Recover(i, k)

Next ==
  \/ \E i \in Run :
       \/ \E k \in Key : Begin(i, k)
       \/ Step(i)
       \/ Interrupt(i)
       \/ Crash(i)
  \/ \E k \in Key, due \in 0 .. 1, deadline \in 0 .. Horizon : ManualReplan(k, due, deadline)
  \/ Tick

Spec == Init /\ [][Next]_vars

\* Cron keeps waking the Worker and a started invocation keeps going unless it is interrupted
\* or terminated.  Neither provider failures nor terminations last for ever: each step on the
\* way to a finished plan is taken if it keeps being possible.
Fairness ==
  /\ WF_vars(Tick)
  /\ WF_vars(\E i \in Run, k \in Key : Begin(i, k))
  /\ \A i \in Run : WF_vars(Step(i))
  /\ SF_vars(\E i \in Run, due \in (-RunLimit) .. Horizon : EnsureDaily(i, due))
  /\ SF_vars(\E i \in Run : CancelExpired(i))
  /\ SF_vars(\E i \in Run : ClaimDue(i))
  /\ SF_vars(\E i \in Run : CollectPlanning(i) /\ run'[i].verdict = "ok")
  /\ SF_vars(\E i \in Run : WriteRow(i))
  /\ \A k \in Key : SF_vars(\E i \in Run : FinishPlanning(i, k) /\ run[i].verdict = "ok")

FairSpec == Spec /\ Fairness

-----------------------------------------------------------------------------
(* Properties *)

TypeOK ==
  /\ work \in [Key -> Row]
  /\ run \in [Run -> Invocation]

\* What a row says of its job, and who has it.
JobOf(status) ==
  CASE status \in {"pending", "retry"} -> "todo"
    [] status = "running" -> "doing"
    [] status = "absent" -> "none"
    [] status = "completed" -> "done"
    [] OTHER -> "dropped"

JobState == [k \in Key |-> JobOf(work[k].status)]
JobHolder == [k \in Key |-> IF Running(k) THEN work[k].owner ELSE Gone]

Board == INSTANCE JobBoard WITH Job <- Key, Worker <- Run, state <- JobState, holder <- JobHolder

\* The table is a board of jobs: a row in the hands of a running invocation cannot be taken or
\* offered again by anyone else, although the SQL knows only leases.
ImplementsJobBoard == Board!BoardSpec

\* An invocation owns every row it is still working on: with the timeout shorter than the
\* lease nobody can take a row from an invocation that is alive, so no row is worked on twice
\* at a time (CLAIM_DUE_WORK_SQL's lease, run_queued_planning's timeout).
OwnsWhatItWorksOn ==
  \A i \in Run : run[i].stage = "work" => \A k \in Left(i) : Running(k) /\ work[k].owner = i

\* A row that says running is in the hands of an invocation that will still finish or release
\* it, or its invocation was terminated hard: whichever exception or cancellation ends a
\* dispatch, recover_claimed_work forgets no row.
NoRowForgotten ==
  \A k \in Key, i \in Run :
    Running(k) /\ work[k].owner = i => run[i].stage \in {"work", "recover"} /\ k \in Left(i)

\* No row is worked on that was past its deadline when the invocation started: cancellation
\* precedes the claim, and covers the rows a dead invocation left running.
NeverWorksPastDeadline ==
  \A i \in Run : run[i].stage = "work" => \A k \in Left(i) : ~Due(i, work[k].deadline)

\* A completed row is never run again, whatever reconciliations, late finishes, recoveries and
\* repeated upserts do to it.
CompletedIsFinal ==
  [][\A k \in Key : work[k].status = "completed" => work'[k].status = "completed"]_vars

\* Even when an invocation outlives its leases and another one has taken its rows over, a
\* running row is retried or completed only by the invocation that owns it.
OnlyOwnerSettles ==
  [][\A k \in Key : Running(k) /\ work'[k].status \in {"retry", "completed"} =>
       LET i == work[k].owner
       IN i \in Run /\ k \in Left(i) /\ k \notin run'[i].claimed \ run'[i].finished]_vars

\* A canceled tipoff read is for a tipoff that moved: it is never scheduled again.
RetiredReadStays ==
  [][\A k \in Of("tipoff") : work[k].status = "canceled" => work'[k].status = "canceled"]_vars

\* A row whose invocation was terminated is claimed again once its lease has run out.
OrphanIsReclaimed ==
  \A k \in Key : (Running(k) /\ work[k].owner = Gone) ~> ~(Running(k) /\ work[k].owner = Gone)

\* The daily plan of a day that has a row is eventually completed, through failed collections,
\* interruptions and terminations.
DailyPlanCompletes ==
  \A k \in Of("daily") : Exists(k) ~> work[k].status = "completed"
=============================================================================
