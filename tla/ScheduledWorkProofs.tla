------------------------ MODULE ScheduledWorkProofs ------------------------
(***************************************************************************)
(* Theorems about ScheduledWork for every table, every number of           *)
(* invocations and every choice of the time constants: its types and       *)
(* leases, and what the queue promises.  Completed work is final, and, as  *)
(* long as invocations are timed out before their leases, the table        *)
(* implements a board of jobs.                                             *)
(***************************************************************************)
EXTENDS ScheduledWork, FiniteSetTheorems, TLAPS

-----------------------------------------------------------------------------
(* Instants *)

\* The bounds of an instant stay in the range of the model.
LEMMA InstantFacts ==
  /\ Never \in Instant
  /\ \A t \in -1 .. Horizon : t \in Int
  /\ \A t \in Int : t <= Never => Soon(t) \in Instant
  /\ \A t \in Instant : Closer(t) \in Instant
  /\ 0 .. Horizon \subseteq Instant
  /\ (-RunLimit) .. Horizon \subseteq Instant
  /\ \A a \in 0 .. RunLimit : Lease - a \in Instant
BY TimeAssumption DEF Never, Instant, Soon, Closer

\* The record an idle invocation is reset to.
LEMMA RestingType == Resting \in Invocation
<1>1. (CHOOSE k \in Key : TRUE) \in Key
  BY KeyAssumption
<1>2. QED
  BY <1>1, TimeAssumption DEF Resting, Invocation, Stage, Verdict

-----------------------------------------------------------------------------
(* The statements keep the table a table *)

\* An upsert of a well-formed write leaves a well-formed table.
LEMMA UpsertType ==
  ASSUME NEW w \in [Key -> Row], NEW u \in Write
  PROVE  Upsert(w, u) \in [Key -> Row]
BY ZenonT(40) DEF Upsert, Row, Write, Status

\* So does a finish.
LEMMA FinishType ==
  ASSUME NEW w \in [Key -> Row], NEW i \in Run, NEW k \in Key,
         NEW status \in {"retry", "completed", "canceled"},
         NEW retryAt \in Int, retryAt <= Never
  PROVE  Finish(w, i, k, status, retryAt) \in [Key -> Row]
<1>1. Never \in Instant /\ Soon(retryAt) \in Instant
  BY InstantFacts
<1>2. QED
  BY <1>1, ZenonT(40) DEF Finish, Row, Status

\* What the reconciliation asks for are well-formed writes.
LEMMA PreTipoffWritesType ==
  ASSUME TypeOK, NEW i \in Run, NEW games \in SUBSET Key, NEW start \in [games -> 1 .. Horizon]
  PROVE  PreTipoffWrites(i, start) \subseteq Write
<1>1. \A k \in games : Soon(start[k] - Lead) \in Instant /\ start[k] \in Instant
  BY TimeAssumption DEF Soon, Instant, Never
<1>2. \A k \in Key : work[k].due \in Instant /\ work[k].deadline \in Instant
  BY DEF TypeOK, Row
<1>3. Of("pre_tipoff") \subseteq Key
  BY DEF Of
<1>4. QED
  BY <1>1, <1>2, <1>3 DEF PreTipoffWrites, Write

\* So are the tipoff reads.
LEMMA TipoffReadWritesType ==
  ASSUME TypeOK, NEW i \in Run, NEW reads \in SUBSET Key, NEW at \in 0 .. (Horizon - 1)
  PROVE  TipoffReadWrites(i, reads, at) \subseteq Write
<1>1. at \in Instant /\ at + 1 \in Instant
  BY TimeAssumption DEF Instant, Never
<1>2. \A k \in Key : work[k].due \in Instant /\ work[k].deadline \in Instant
  BY DEF TypeOK, Row
<1>3. Of("tipoff") \subseteq Key
  BY DEF Of
<1>4. QED
  BY <1>1, <1>2, <1>3 DEF TipoffReadWrites, Write

\* And the rows offered without looking.
LEMMA OffersType ==
  ASSUME NEW keys \in SUBSET Key, NEW due \in 0 .. Horizon, NEW deadline \in 0 .. Horizon
  PROVE  Offers(keys, due, deadline) \subseteq Write
BY InstantFacts DEF Offers, Write

-----------------------------------------------------------------------------
(* Type correctness *)

\* Settling a claimed row keeps the types (every finish of a phase is one).
LEMMA SettleType ==
  ASSUME TypeOK, NEW i \in Run, NEW k \in Key,
         NEW status \in {"retry", "completed", "canceled"}, NEW retryAt \in Int, retryAt <= Never,
         Settle(i, k, status, retryAt)
  PROVE  TypeOK'
<1>1. work' \in [Key -> Row]
  BY FinishType DEF TypeOK, Settle
<1>2. run' \in [Run -> Invocation]
  BY RestingType, ZenonT(40) DEF TypeOK, Settle, Invocation, Verdict
<1>3. QED
  BY <1>1, <1>2 DEF TypeOK

\* Nothing but well-formed rows and invocations is ever reached.
LEMMA TypeStep == TypeOK /\ [Next]_vars => TypeOK'
<1> SUFFICES ASSUME TypeOK, [Next]_vars PROVE TypeOK'
  OBVIOUS
<1> USE DEF TypeOK
<1>1. ASSUME NEW i \in Run, NEW k \in Key, Begin(i, k) PROVE TypeOK'
  BY <1>1, RestingType DEF Begin, Invocation, Stage
<1>2. ASSUME NEW i \in Run, NEW due \in (-RunLimit) .. Horizon, EnsureDaily(i, due) PROVE TypeOK'
  <2>1. [key |-> run[i].today, status |-> "pending", due |-> due, deadline |-> Never] \in Write
    BY InstantFacts DEF Write, Invocation
  <2>2. work' \in [Key -> Row]
    BY <1>2, <2>1, UpsertType DEF EnsureDaily
  <2>3. QED
    BY <1>2, <2>2 DEF EnsureDaily, Invocation, Stage
<1>3. ASSUME NEW i \in Run, CancelExpired(i) PROVE TypeOK'
  <2>1. Never \in Instant
    BY InstantFacts
  <2>2. work' \in [Key -> Row]
    BY <1>3, <2>1 DEF CancelExpired, Row, Status
  <2>3. run' \in [Run -> Invocation]
    BY <1>3, ZenonT(40) DEF CancelExpired, Invocation, Stage
  <2>4. QED
    BY <2>2, <2>3
<1>4. ASSUME NEW i \in Run, ClaimDue(i) PROVE TypeOK'
  <2>1. Lease - run[i].age \in Instant
    BY InstantFacts DEF Invocation
  <2>2. work' \in [Key -> Row]
    BY <1>4, <2>1, ZenonT(40) DEF ClaimDue, Claim, Row, Status
  <2>3. run' \in [Run -> Invocation]
    BY <1>4, RestingType DEF ClaimDue, Invocation, Stage
  <2>4. QED
    BY <2>2, <2>3
<1>5. ASSUME NEW i \in Run, ReadTipoffLineup(i) PROVE TypeOK'
  <2>1. Of("postgame") \subseteq Key
    BY DEF Of
  <2>2. QED
    BY <1>5, <2>1, OffersType DEF ReadTipoffLineup, Invocation, Verdict
<1>6. ASSUME NEW i \in Run, CollectPlanning(i) PROVE TypeOK'
  <2>1. UNCHANGED work
    BY <1>6 DEF CollectPlanning
  <2>2. CASE \/ run' = [run EXCEPT ![i].verdict = "failed"]
             \/ run' = [run EXCEPT ![i].verdict = "blocked"]
    BY <2>1, <2>2 DEF Invocation, Verdict
  <2>3. ASSUME NEW games \in SUBSET Of("pre_tipoff"), NEW reads \in SUBSET Of("tipoff"),
               NEW keys \in SUBSET (Of("postgame") \cup Of("recovery") \cup Of("delivery")),
               Reconcile(i, games, reads, keys)
        PROVE  TypeOK'
    <3>1. PICK start \in [games -> 1 .. Horizon], at \in 0 .. (Horizon - 1),
               due \in 0 .. Horizon, deadline \in 0 .. Horizon :
            run' = [run EXCEPT ![i].verdict = "ok",
                               ![i].writes = PreTipoffWrites(i, start)
                                             \cup TipoffReadWrites(i, reads, at)
                                             \cup Offers(keys, due, deadline)]
      BY <2>3, Zenon DEF Reconcile
    <3> DEFINE W == PreTipoffWrites(i, start) \cup TipoffReadWrites(i, reads, at)
                    \cup Offers(keys, due, deadline)
    <3>2. games \in SUBSET Key /\ reads \in SUBSET Key /\ keys \in SUBSET Key
      BY DEF Of
    <3>3. W \subseteq Write
      BY <3>2, PreTipoffWritesType, TipoffReadWritesType, OffersType
    <3>4. run' = [run EXCEPT ![i].verdict = "ok", ![i].writes = W]
      BY <3>1
    <3> HIDE DEF W
    <3>5. QED
      BY <2>1, <3>3, <3>4, ZenonT(40) DEF Invocation, Verdict
  <2>4. QED
    BY <1>6, <2>2, <2>3 DEF CollectPlanning
<1>7. ASSUME NEW i \in Run, CollectPostgame(i) PROVE TypeOK'
  <2>1. Of("postgame") \subseteq Key
    BY DEF Of
  <2>2. PICK v \in {"ok", "failed"}, keys \in SUBSET Of("postgame"),
             due \in 0 .. Horizon, deadline \in 0 .. Horizon :
          run' = [run EXCEPT ![i].verdict = v, ![i].writes = Offers(keys, due, deadline)]
    BY <1>7, Zenon DEF CollectPostgame
  <2>3. Offers(keys, due, deadline) \in SUBSET Write
    BY <2>1, OffersType
  <2>4. UNCHANGED work
    BY <1>7 DEF CollectPostgame
  <2>5. QED
    BY <2>2, <2>3, <2>4, ZenonT(40) DEF Invocation, Verdict
<1>8. ASSUME NEW i \in Run, WriteRow(i) PROVE TypeOK'
  <2>1. PICK u \in run[i].writes : /\ work' = Upsert(work, u)
                                   /\ run' = [run EXCEPT ![i].writes = @ \ {u}]
    BY <1>8 DEF WriteRow
  <2>2. u \in Write
    BY <2>1 DEF Invocation
  <2>3. QED
    BY <2>1, <2>2, UpsertType DEF Invocation
<1>9. ASSUME NEW i \in Run, NEW k \in Key,
             FinishTipoff(i, k) \/ FinishPlanning(i, k) \/ FinishPostgame(i, k) \/ FinishDelivery(i, k)
      PROVE  TypeOK'
  <2>1. /\ Never \in Int /\ Never <= Never
        /\ RetryDelay \in Int /\ RetryDelay <= Never
        /\ RetryDelay - run[i].age \in Int /\ RetryDelay - run[i].age <= Never
    BY TimeAssumption DEF Never, Invocation
  <2>2. QED
    BY <1>9, <2>1, SettleType DEF FinishTipoff, FinishPlanning, FinishPostgame, FinishDelivery
<1>10. ASSUME NEW i \in Run, NEW k \in Key, Recover(i, k) PROVE TypeOK'
  <2>1. RetryDelay \in Int /\ RetryDelay <= Never
    BY TimeAssumption DEF Never
  <2>2. work' \in [Key -> Row]
    BY <1>10, <2>1, FinishType DEF Recover
  <2>3. QED
    BY <1>10, <2>2, RestingType DEF Recover, Invocation
<1>11. ASSUME NEW i \in Run, Interrupt(i) PROVE TypeOK'
  BY <1>11, RestingType, ZenonT(40) DEF Interrupt, Invocation, Stage, Verdict
<1>12. ASSUME NEW i \in Run, Crash(i) PROVE TypeOK'
  BY <1>12, RestingType DEF Crash, Row
<1>13. ASSUME NEW k \in Key, NEW due \in 0 .. 1, NEW deadline \in 0 .. Horizon,
              ManualReplan(k, due, deadline)
       PROVE  TypeOK'
  <2>1. deadline \in Instant /\ due \in Instant
    BY TimeAssumption DEF Instant, Never
  <2>2. QED
    BY <1>13, <2>1 DEF ManualReplan, Row, Status
<1>14. ASSUME Tick PROVE TypeOK'
  <2>1. \A t \in Instant : Closer(t) \in Instant
    BY InstantFacts
  <2>2. work' \in [Key -> Row]
    BY <1>14, <2>1 DEF Tick, Row
  <2>3. \A i \in Run : Live(i) => run[i].age + 1 \in 0 .. RunLimit
    <3>1. \A i \in Run : Live(i) => run[i].age < RunLimit
      BY <1>14 DEF Tick
    <3>2. \A i \in Run : run[i].age \in 0 .. RunLimit
      BY DEF Invocation
    <3>3. \A a \in 0 .. RunLimit : a < RunLimit => a + 1 \in 0 .. RunLimit
      BY TimeAssumption
    <3>4. QED
      BY <3>1, <3>2, <3>3
  <2>4. \A i \in Run :
          {[u EXCEPT !.due = Closer(u.due), !.deadline = Closer(u.deadline)] : u \in run[i].writes}
             \subseteq Write
    <3>1. ASSUME NEW u \in Write
          PROVE  [u EXCEPT !.due = Closer(u.due), !.deadline = Closer(u.deadline)] \in Write
      BY <2>1 DEF Write
    <3>2. QED
      BY <3>1 DEF Invocation
  <2>5. run' \in [Run -> Invocation]
    BY <1>14, <2>3, <2>4 DEF Tick, Invocation
  <2>6. QED
    BY <2>2, <2>5
<1>15. CASE UNCHANGED vars
  BY <1>15 DEF vars
<1>16. QED
  BY <1>1, <1>2, <1>3, <1>4, <1>5, <1>6, <1>7, <1>8, <1>9, <1>10, <1>11, <1>12, <1>13, <1>14, <1>15
  DEF Next, Step

\* The initial state is well formed.
LEMMA TypeInit == Init => TypeOK
BY RestingType, InstantFacts DEF Init, TypeOK, Row, Status

\* The table and the invocations keep their shape: no lease, retry time or deadline leaves the
\* range in which the statements compare it.
THEOREM TypeCorrect == Spec => []TypeOK
BY TypeInit, TypeStep, PTL DEF Spec

-----------------------------------------------------------------------------
(* No row is forgotten *)

\* Before it has claimed anything an invocation has finished nothing.
NothingFinishedEarly ==
  \A i \in Run : run[i].stage \notin {"work", "recover"} => run[i].finished = {}

KeepInv == TypeOK /\ NoRowForgotten /\ NothingFinishedEarly

\* An upsert leaves running rows alone and makes no row run.
LEMMA UpsertKeepsRunning ==
  ASSUME NEW w \in [Key -> Row], NEW u \in Write, NEW k \in Key
  PROVE  IF w[k].status = "running" THEN Upsert(w, u)[k] = w[k]
         ELSE Upsert(w, u)[k].status # "running"
BY DEF Upsert, Row, Write

\* A finish ends the run of the one row it names, if the invocation owns it; nothing else.
LEMMA FinishFacts ==
  ASSUME NEW w \in [Key -> Row], NEW i \in Run, NEW k \in Key,
         NEW status \in {"retry", "completed", "canceled"}, NEW retryAt, NEW j \in Key
  PROVE  IF j = k /\ w[j].status = "running" /\ w[j].owner = i
         THEN Finish(w, i, k, status, retryAt)[j].status = status
         ELSE Finish(w, i, k, status, retryAt)[j] = w[j]
BY DEF Finish, Row

\* The step taken when a row is settled or released: its invocation goes on with the others.
LEMMA FinishKeeps ==
  ASSUME KeepInv, NEW i \in Run, NEW k \in Key, run[i].stage \in {"work", "recover"},
         NEW status \in {"retry", "completed", "canceled"}, NEW retryAt,
         work' = Finish(work, i, k, status, retryAt),
         run' \in [Run -> Invocation],
         \A j \in Run \ {i} : run'[j] = run[j],
         \/ Left(i) = {k} /\ run'[i] = Resting
         \/ /\ run'[i].stage = run[i].stage
            /\ run'[i].claimed = run[i].claimed
            /\ run'[i].finished = run[i].finished \cup {k}
  PROVE  NoRowForgotten' /\ NothingFinishedEarly'
<1>1. ASSUME NEW j \in Key, Running(j)'
      PROVE  /\ work'[j] = work[j]
             /\ Running(j)
             /\ work[j].owner = i => j # k
  BY <1>1, FinishFacts DEF KeepInv, TypeOK, Running
<1>2. ASSUME NEW j \in Key, NEW o \in Run, Running(j)', work'[j].owner = o
      PROVE  run'[o].stage \in {"work", "recover"} /\ j \in run'[o].claimed \ run'[o].finished
  <2>1. /\ work[j].owner = o /\ Running(j)
        /\ run[o].stage \in {"work", "recover"} /\ j \in run[o].claimed \ run[o].finished
        /\ o = i => j # k
    BY <1>1, <1>2 DEF KeepInv, NoRowForgotten, Left
  <2>2. QED
    BY <2>1 DEF Left
<1>3. NothingFinishedEarly'
  BY DEF KeepInv, NothingFinishedEarly, Resting
<1>4. QED
  BY <1>2, <1>3 DEF NoRowForgotten, Left

\* A step that leaves the running rows alone and every invocation at its rows forgets nothing.
LEMMA QuietKeeps ==
  ASSUME KeepInv,
         \A k \in Key : Running(k)' => Running(k) /\ work'[k].owner = work[k].owner,
         \A i \in Run : /\ run[i].stage \in {"work", "recover"} =>
                             /\ run'[i].stage \in {"work", "recover"}
                             /\ run'[i].claimed = run[i].claimed
                             /\ run'[i].finished \subseteq run[i].finished
                        /\ run'[i].stage \notin {"work", "recover"} => run'[i].finished = {}
  PROVE  NoRowForgotten' /\ NothingFinishedEarly'
BY DEF KeepInv, NoRowForgotten, NothingFinishedEarly, Left

\* Every step keeps both parts.
LEMMA KeepStep == KeepInv /\ [Next]_vars => KeepInv'
<1> SUFFICES ASSUME KeepInv, [Next]_vars, TypeOK' PROVE NoRowForgotten' /\ NothingFinishedEarly'
  BY TypeStep DEF KeepInv
<1> USE DEF KeepInv, TypeOK
<1>0. Resting.stage = "idle" /\ Resting.finished = {} /\ Resting.claimed = {}
  BY DEF Resting
<1>1. ASSUME NEW i \in Run, NEW k \in Key, Begin(i, k) PROVE NoRowForgotten' /\ NothingFinishedEarly'
  BY <1>0, <1>1, QuietKeeps DEF Begin, Running, Live, Invocation, NothingFinishedEarly
<1>2. ASSUME NEW i \in Run, NEW due \in (-RunLimit) .. Horizon, EnsureDaily(i, due)
      PROVE  NoRowForgotten' /\ NothingFinishedEarly'
  <2>1. [key |-> run[i].today, status |-> "pending", due |-> due, deadline |-> Never] \in Write
    BY InstantFacts DEF Write, Invocation
  <2>2. \A k \in Key : Running(k)' => Running(k) /\ work'[k].owner = work[k].owner
    BY <1>2, <2>1, UpsertKeepsRunning DEF EnsureDaily, Running
  <2>3. QED
    BY <1>2, <2>2, QuietKeeps DEF EnsureDaily, Invocation, NothingFinishedEarly
<1>3. ASSUME NEW i \in Run, CancelExpired(i) PROVE NoRowForgotten' /\ NothingFinishedEarly'
  <2>1. \A k \in Key : Running(k)' => Running(k) /\ work'[k].owner = work[k].owner
    BY <1>3 DEF CancelExpired, Running, Row
  <2>2. QED
    BY <1>3, <2>1, QuietKeeps DEF CancelExpired, Invocation, NothingFinishedEarly
<1>4. ASSUME NEW i \in Run, ClaimDue(i) PROVE NoRowForgotten' /\ NothingFinishedEarly'
  <2> DEFINE claimed == {k \in Key : Claimable(i, k)}
  <2>1. /\ work' = Claim(work, i, claimed)
        /\ run[i].stage = "claim" /\ run[i].finished = {}
        /\ run' = [run EXCEPT ![i] = IF claimed = {} THEN Resting
                                     ELSE [run[i] EXCEPT !.stage = "work", !.claimed = claimed]]
    BY <1>4 DEF ClaimDue, NothingFinishedEarly
  <2>2. \A k \in Key : k \notin claimed => work'[k] = work[k]
    BY <2>1 DEF Claim
  <2>3. \A k \in claimed : work'[k].owner = i
    BY <2>1 DEF Claim, Row
  <2> HIDE DEF claimed
  <2>4. ASSUME NEW k \in Key, NEW o \in Run, Running(k)', work'[k].owner = o
        PROVE  run'[o].stage \in {"work", "recover"} /\ k \in run'[o].claimed \ run'[o].finished
    <3>1. CASE k \in claimed
      BY <2>1, <2>3, <2>4, <3>1 DEF Invocation
    <3>2. CASE k \notin claimed
      <4>1. Running(k) /\ work[k].owner = o
        BY <2>2, <2>4, <3>2 DEF Running
      <4>2. run[o].stage \in {"work", "recover"} /\ k \in run[o].claimed \ run[o].finished
        BY <4>1 DEF NoRowForgotten, Left
      <4>3. QED
        BY <2>1, <4>2
    <3>3. QED
      BY <3>1, <3>2
  <2>5. NothingFinishedEarly'
    BY <1>0, <2>1 DEF NothingFinishedEarly, Invocation
  <2>6. QED
    BY <2>4, <2>5 DEF NoRowForgotten, Left
<1>5. ASSUME NEW i \in Run, \/ ReadTipoffLineup(i)
                            \/ CollectPlanning(i)
                            \/ CollectPostgame(i)
      PROVE  NoRowForgotten' /\ NothingFinishedEarly'
  <2>1. UNCHANGED work /\ \E v, W : run' = [run EXCEPT ![i].verdict = v, ![i].writes = W]
    <3>1. ASSUME NEW v, run' = [run EXCEPT ![i].verdict = v]
          PROVE  run' = [run EXCEPT ![i].verdict = v, ![i].writes = run[i].writes]
      BY <3>1 DEF Invocation
    <3>2. QED
      BY <1>5, <3>1 DEF ReadTipoffLineup, CollectPlanning, CollectPostgame, Reconcile
  <2>2. \A j \in Run : /\ run'[j].stage = run[j].stage
                       /\ run'[j].claimed = run[j].claimed
                       /\ run'[j].finished = run[j].finished
    BY <2>1 DEF Invocation
  <2>3. QED
    BY <2>1, <2>2, QuietKeeps DEF Running, NothingFinishedEarly
<1>6. ASSUME NEW i \in Run, WriteRow(i) PROVE NoRowForgotten' /\ NothingFinishedEarly'
  <2>1. PICK u \in run[i].writes : /\ work' = Upsert(work, u)
                                   /\ run' = [run EXCEPT ![i].writes = @ \ {u}]
    BY <1>6 DEF WriteRow
  <2>2. u \in Write
    BY <2>1 DEF Invocation
  <2>3. \A k \in Key : Running(k)' => Running(k) /\ work'[k].owner = work[k].owner
    BY <2>1, <2>2, UpsertKeepsRunning DEF Running
  <2>4. QED
    BY <2>1, <2>3, QuietKeeps DEF Invocation, NothingFinishedEarly
<1>7. ASSUME NEW i \in Run, NEW k \in Key,
             FinishTipoff(i, k) \/ FinishPlanning(i, k) \/ FinishPostgame(i, k) \/ FinishDelivery(i, k)
      PROVE  NoRowForgotten' /\ NothingFinishedEarly'
  <2>1. PICK status \in {"retry", "completed", "canceled"}, retryAt \in Int :
          Settle(i, k, status, retryAt) /\ run[i].stage = "work"
    <3>1. Never \in Int /\ RetryDelay \in Int /\ RetryDelay - run[i].age \in Int
      BY TimeAssumption DEF Never, Invocation
    <3>2. QED
      BY <1>7, <3>1 DEF FinishTipoff, FinishPlanning, FinishPostgame, FinishDelivery, InPhase
  <2>2. /\ work' = Finish(work, i, k, status, retryAt)
        /\ \A j \in Run \ {i} : run'[j] = run[j]
        /\ \/ Left(i) = {k} /\ run'[i] = Resting
           \/ /\ run'[i].stage = run[i].stage
              /\ run'[i].claimed = run[i].claimed
              /\ run'[i].finished = run[i].finished \cup {k}
    BY <2>1 DEF Settle, Invocation
  <2>3. QED
    BY <2>1, <2>2, FinishKeeps
<1>8. ASSUME NEW i \in Run, NEW k \in Key, Recover(i, k) PROVE NoRowForgotten' /\ NothingFinishedEarly'
  <2>1. /\ work' = Finish(work, i, k, "retry", RetryDelay)
        /\ run[i].stage = "recover"
        /\ \A j \in Run \ {i} : run'[j] = run[j]
        /\ \/ Left(i) = {k} /\ run'[i] = Resting
           \/ /\ run'[i].stage = run[i].stage
              /\ run'[i].claimed = run[i].claimed
              /\ run'[i].finished = run[i].finished \cup {k}
    BY <1>8 DEF Recover, Invocation
  <2>2. QED
    BY <2>1, FinishKeeps
<1>9. ASSUME NEW i \in Run, Interrupt(i) PROVE NoRowForgotten' /\ NothingFinishedEarly'
  <2>1. /\ \A j \in Run \ {i} : run'[j] = run[j]
        /\ \/ run[i].stage # "work" /\ run'[i] = Resting
           \/ /\ run[i].stage = "work" /\ run'[i].stage = "recover"
              /\ run'[i].claimed = run[i].claimed
              /\ run'[i].finished \subseteq run[i].finished
        /\ run[i].stage # "recover" /\ UNCHANGED work
    BY <1>9 DEF Interrupt, Invocation
  <2>2. QED
    BY <1>0, <2>1, QuietKeeps DEF Running, NothingFinishedEarly
<1>10. ASSUME NEW i \in Run, Crash(i) PROVE NoRowForgotten' /\ NothingFinishedEarly'
  <2>1. ASSUME NEW k \in Key, NEW o \in Run, Running(k)', work'[k].owner = o
        PROVE  o # i /\ Running(k) /\ work[k].owner = o
    BY <1>10, <2>1, RunAssumption DEF Crash, Running, Row
  <2>2. \A j \in Run \ {i} : run'[j] = run[j]
    BY <1>10 DEF Crash
  <2>3. run'[i] = Resting
    BY <1>10 DEF Crash
  <2>4. QED
    BY <1>0, <2>1, <2>2, <2>3 DEF NoRowForgotten, NothingFinishedEarly, Left
<1>11. ASSUME NEW k \in Key, NEW due \in 0 .. 1, NEW deadline \in 0 .. Horizon,
              ManualReplan(k, due, deadline)
       PROVE  NoRowForgotten' /\ NothingFinishedEarly'
  <2>1. \A j \in Key : Running(j)' => Running(j) /\ work'[j].owner = work[j].owner
    BY <1>11 DEF ManualReplan, Running, Row
  <2>2. QED
    BY <1>11, <2>1, QuietKeeps DEF ManualReplan, NothingFinishedEarly
<1>12. ASSUME Tick PROVE NoRowForgotten' /\ NothingFinishedEarly'
  <2>1. \A k \in Key : work'[k].status = work[k].status /\ work'[k].owner = work[k].owner
    BY <1>12 DEF Tick, Row
  <2>2. \A i \in Run : /\ run'[i].stage = run[i].stage
                       /\ run'[i].claimed = run[i].claimed
                       /\ run'[i].finished = run[i].finished
    BY <1>12 DEF Tick, Invocation
  <2>3. QED
    BY <2>1, <2>2, QuietKeeps DEF Running, NothingFinishedEarly
<1>13. CASE UNCHANGED vars
  BY <1>13 DEF vars, NoRowForgotten, NothingFinishedEarly, Left, Running
<1>14. QED
  BY <1>1, <1>2, <1>3, <1>4, <1>5, <1>6, <1>7, <1>8, <1>9, <1>10, <1>11, <1>12, <1>13 DEF Next, Step

\* The invariant holds at first.
LEMMA KeepInit == Init => KeepInv
BY TypeInit DEF Init, KeepInv, NoRowForgotten, NothingFinishedEarly, Running, Resting

\* However an invocation ends, short of being terminated, each row it claimed is finished or
\* released: no row is left running with nobody to finish it.
THEOREM RowsAreKept == Spec => []NoRowForgotten
<1>1. KeepInv => NoRowForgotten
  BY DEF KeepInv
<1>2. QED
  BY <1>1, KeepInit, KeepStep, PTL DEF Spec

-----------------------------------------------------------------------------
(* Why a lease is enough, for every instance whose invocations are timed out before a lease they *)
(* took can run out.                                                                             *)

\* A row held by an invocation was leased by it when it began: the lease has as long to run as
\* the lease is longer than the invocation is old.
LeaseMatches ==
  \A k \in Key, i \in Run :
    Running(k) /\ work[k].owner = i => work[k].lease = Lease - run[i].age

OwnInv == KeepInv /\ OwnsWhatItWorksOn /\ LeaseMatches

\* No lease held by a live invocation is due for anybody.
LEMMA NotDueYet ==
  ASSUME RunLimit < Lease, OwnInv, NEW k \in Key, NEW i \in Run, NEW j \in Run,
         Running(k), work[k].owner = i
  PROVE  ~Due(j, work[k].lease)
<1>1. work[k].lease = Lease - run[i].age
  BY DEF OwnInv, LeaseMatches
<1>2. run[i].age \in 0 .. RunLimit /\ run[j].age \in 0 .. RunLimit
  BY DEF OwnInv, KeepInv, TypeOK, Invocation
<1>3. QED
  BY <1>1, <1>2, TimeAssumption DEF Due

\* What a step must leave alone for ownership and leases to stay as they are.
LEMMA StaysOwned ==
  ASSUME OwnInv, KeepInv',
         \A k \in Key : Running(k)' => /\ Running(k)
                                       /\ work'[k].owner = work[k].owner
                                       /\ work'[k].lease = work[k].lease,
         \A k \in Key, i \in Run : Running(k) /\ work[k].owner = i /\ run'[i].stage = "work"
                                     /\ k \in run'[i].claimed \ run'[i].finished
                                   => work'[k].status = "running" /\ work'[k].owner = i,
         \A i \in Run : run'[i].stage = "work"
                          => /\ run[i].stage = "work"
                             /\ run'[i].claimed \ run'[i].finished \subseteq Left(i),
         \A i \in Run : run'[i].stage \in {"work", "recover"} => run'[i].age = run[i].age
  PROVE  OwnsWhatItWorksOn' /\ LeaseMatches'
<1>1. OwnsWhatItWorksOn'
  <2> SUFFICES ASSUME NEW i \in Run, run'[i].stage = "work",
                      NEW k \in run'[i].claimed \ run'[i].finished
               PROVE  work'[k].status = "running" /\ work'[k].owner = i
    BY DEF OwnsWhatItWorksOn, Left, Running
  <2>1. run[i].stage = "work" /\ k \in Left(i)
    OBVIOUS
  <2>2. k \in Key
    BY <2>1 DEF OwnInv, KeepInv, TypeOK, Invocation, Left
  <2>3. Running(k) /\ work[k].owner = i
    BY <2>1 DEF OwnInv, OwnsWhatItWorksOn
  <2>4. QED
    BY <2>2, <2>3
<1>2. LeaseMatches'
  <2> SUFFICES ASSUME NEW k \in Key, NEW i \in Run, Running(k)', work'[k].owner = i
               PROVE  work'[k].lease = Lease - run'[i].age
    BY DEF LeaseMatches
  <2>1. run'[i].age = run[i].age
    BY DEF KeepInv, NoRowForgotten
  <2>2. work'[k].lease = Lease - run[i].age
    BY DEF OwnInv, LeaseMatches
  <2>3. QED
    BY <2>1, <2>2
<1>3. QED
  BY <1>1, <1>2

\* A row is put down by its owner alone, whose last step on it this is.
LEMMA FinishOwned ==
  ASSUME OwnInv, KeepInv', NEW i \in Run, NEW k \in Key, run[i].stage \in {"work", "recover"},
         NEW status \in {"retry", "completed", "canceled"}, NEW retryAt,
         work' = Finish(work, i, k, status, retryAt),
         \A j \in Run \ {i} : run'[j] = run[j],
         \/ run'[i] = Resting
         \/ /\ run'[i].stage = run[i].stage /\ run'[i].age = run[i].age
            /\ run'[i].claimed = run[i].claimed
            /\ run'[i].finished = run[i].finished \cup {k}
  PROVE  OwnsWhatItWorksOn' /\ LeaseMatches'
<1> USE DEF OwnInv, KeepInv, TypeOK
<1>0. Resting.stage = "idle"
  BY DEF Resting
<1>1. \A j \in Key : IF j = k /\ work[j].status = "running" /\ work[j].owner = i
                     THEN work'[j].status = status
                     ELSE work'[j] = work[j]
  BY FinishFacts
<1>2. \A j \in Key : Running(j)' => /\ Running(j)
                                    /\ work'[j].owner = work[j].owner
                                    /\ work'[j].lease = work[j].lease
  BY <1>1 DEF Running
<1>3. \A j \in Run : run'[j].stage = "work"
                       => /\ run[j].stage = "work"
                          /\ run'[j].claimed \ run'[j].finished \subseteq Left(j)
                          /\ j = i => k \notin run'[j].claimed \ run'[j].finished
  BY <1>0 DEF Left
<1>4. \A j \in Key, o \in Run : Running(j) /\ work[j].owner = o /\ run'[o].stage = "work"
                                  /\ j \in run'[o].claimed \ run'[o].finished
                                => work'[j].status = "running" /\ work'[j].owner = o
  BY <1>1, <1>3 DEF Running
<1>5. \A j \in Run : run'[j].stage \in {"work", "recover"} => run'[j].age = run[j].age
  BY <1>0
<1>6. QED
  BY <1>2, <1>3, <1>4, <1>5, StaysOwned

\* Every step keeps both.
LEMMA OwnStep ==
  ASSUME RunLimit < Lease, OwnInv, KeepInv', Next
  PROVE  OwnsWhatItWorksOn' /\ LeaseMatches'
<1> USE DEF OwnInv, KeepInv, TypeOK
<1>0. Resting.stage = "idle" /\ Resting.age = 0
  BY DEF Resting
<1>1. ASSUME NEW i \in Run, NEW k \in Key, Begin(i, k) PROVE OwnsWhatItWorksOn' /\ LeaseMatches'
  <2>1. /\ run'[i].stage \in {"expire", "ensure"} /\ UNCHANGED work
        /\ \A j \in Run \ {i} : run'[j] = run[j]
    BY <1>1 DEF Begin, Resting
  <2>2. QED
    BY <2>1, StaysOwned DEF Running, Left, OwnsWhatItWorksOn
<1>2. ASSUME NEW i \in Run, NEW due \in (-RunLimit) .. Horizon, EnsureDaily(i, due)
      PROVE  OwnsWhatItWorksOn' /\ LeaseMatches'
  <2>1. [key |-> run[i].today, status |-> "pending", due |-> due, deadline |-> Never] \in Write
    BY InstantFacts DEF Write, Invocation
  <2>2. \A k \in Key : IF Running(k) THEN work'[k] = work[k] ELSE ~(Running(k)')
    BY <1>2, <2>1, UpsertKeepsRunning DEF EnsureDaily, Running
  <2>3. /\ run'[i].stage = "expire"
        /\ \A j \in Run \ {i} : run'[j] = run[j]
    BY <1>2 DEF EnsureDaily, Invocation
  <2>4. QED
    BY <2>2, <2>3, StaysOwned DEF Running, Left
<1>3. ASSUME NEW i \in Run, CancelExpired(i) PROVE OwnsWhatItWorksOn' /\ LeaseMatches'
  <2>1. ASSUME NEW k \in Key, NEW j \in Run, Running(k), work[k].owner = j
        PROVE  work'[k] = work[k]
    <3>1. ~Due(i, work[k].lease)
      BY <2>1, NotDueYet
    <3>2. ~Waiting(k)
      BY <2>1 DEF Running, Waiting
    <3>3. ~Expired(i, k)
      BY <3>1, <3>2 DEF Expired
    <3>4. QED
      BY <1>3, <3>3 DEF CancelExpired
  <2>2. \A k \in Key : Running(k)' => Running(k) /\ work'[k] = work[k]
    BY <1>3 DEF CancelExpired, Running, Row
  <2>3. /\ run'[i].stage = "claim"
        /\ \A j \in Run \ {i} : run'[j] = run[j]
    BY <1>3 DEF CancelExpired, Invocation
  <2>4. QED
    BY <2>1, <2>2, <2>3, StaysOwned DEF Running, Left
<1>4. ASSUME NEW i \in Run, ClaimDue(i) PROVE OwnsWhatItWorksOn' /\ LeaseMatches'
  <2> DEFINE claimed == {k \in Key : Claimable(i, k)}
  <2>1. /\ work' = Claim(work, i, claimed)
        /\ run[i].stage = "claim" /\ run[i].finished = {}
        /\ run' = [run EXCEPT ![i] = IF claimed = {} THEN Resting
                                     ELSE [run[i] EXCEPT !.stage = "work", !.claimed = claimed]]
    BY <1>4 DEF ClaimDue, NothingFinishedEarly
  <2>2. ASSUME NEW k \in Key, NEW j \in Run, Running(k), work[k].owner = j
        PROVE  k \notin claimed
    <3>1. ~Due(i, work[k].lease)
      BY <2>2, NotDueYet
    <3>2. ~Waiting(k)
      BY <2>2 DEF Running, Waiting
    <3>3. ~Claimable(i, k)
      BY <3>1, <3>2 DEF Claimable
    <3>4. QED
      BY <3>3
  <2> HIDE DEF claimed
  <2>3. claimed \subseteq Key
    BY DEF claimed
  <2>4. \A k \in Key : k \notin claimed => work'[k] = work[k]
    BY <2>1 DEF Claim
  <2>5. \A k \in claimed : /\ work'[k].status = "running" /\ work'[k].owner = i
                            /\ work'[k].lease = Lease - run[i].age
    BY <2>1, <2>3 DEF Claim, Row
  <2>6. claimed # {} => /\ run'[i].stage = "work" /\ run'[i].age = run[i].age
                        /\ run'[i].claimed = claimed /\ run'[i].finished = {}
    BY <2>1 DEF Invocation
  <2>7. claimed = {} => run'[i] = Resting
    BY <2>1
  <2>8. \A j \in Run \ {i} : run'[j] = run[j]
    BY <2>1
  <2>9. OwnsWhatItWorksOn'
    <3> SUFFICES ASSUME NEW o \in Run, run'[o].stage = "work",
                        NEW k \in run'[o].claimed \ run'[o].finished
                 PROVE  work'[k].status = "running" /\ work'[k].owner = o
      BY DEF OwnsWhatItWorksOn, Left, Running
    <3>1. CASE o = i
      BY <1>0, <2>5, <2>6, <2>7, <3>1
    <3>2. CASE o # i
      <4>1. run[o].stage = "work" /\ k \in Left(o) /\ k \in Key
        BY <2>8, <3>2 DEF Left, Invocation
      <4>2. Running(k) /\ work[k].owner = o
        BY <4>1 DEF OwnsWhatItWorksOn
      <4>3. QED
        BY <2>2, <2>4, <4>1, <4>2 DEF Running
    <3>3. QED
      BY <3>1, <3>2
  <2>10. LeaseMatches'
    <3> SUFFICES ASSUME NEW k \in Key, NEW o \in Run, Running(k)', work'[k].owner = o
                 PROVE  work'[k].lease = Lease - run'[o].age
      BY DEF LeaseMatches
    <3>1. CASE k \in claimed
      BY <2>5, <2>6, <3>1
    <3>2. CASE k \notin claimed
      <4>1. Running(k) /\ work[k].owner = o /\ work'[k] = work[k]
        BY <2>4, <3>2 DEF Running
      <4>2. run[o].stage \in {"work", "recover"}
        BY <4>1 DEF NoRowForgotten
      <4>3. QED
        BY <2>1, <2>8, <4>1, <4>2 DEF LeaseMatches
    <3>3. QED
      BY <3>1, <3>2
  <2>11. QED
    BY <2>9, <2>10
<1>5. ASSUME NEW i \in Run, \/ ReadTipoffLineup(i)
                            \/ CollectPlanning(i)
                            \/ CollectPostgame(i)
      PROVE  OwnsWhatItWorksOn' /\ LeaseMatches'
  <2>1. UNCHANGED work /\ \E v, W : run' = [run EXCEPT ![i].verdict = v, ![i].writes = W]
    <3>1. ASSUME NEW v, run' = [run EXCEPT ![i].verdict = v]
          PROVE  run' = [run EXCEPT ![i].verdict = v, ![i].writes = run[i].writes]
      BY <3>1 DEF Invocation
    <3>2. QED
      BY <1>5, <3>1 DEF ReadTipoffLineup, CollectPlanning, CollectPostgame, Reconcile
  <2>2. \A j \in Run : /\ run'[j].stage = run[j].stage /\ run'[j].age = run[j].age
                       /\ run'[j].claimed = run[j].claimed
                       /\ run'[j].finished = run[j].finished
    BY <2>1 DEF Invocation
  <2>3. QED
    BY <2>1, <2>2, StaysOwned DEF Running, Left
<1>6. ASSUME NEW i \in Run, WriteRow(i) PROVE OwnsWhatItWorksOn' /\ LeaseMatches'
  <2>1. PICK u \in run[i].writes : /\ work' = Upsert(work, u)
                                   /\ run' = [run EXCEPT ![i].writes = @ \ {u}]
    BY <1>6 DEF WriteRow
  <2>2. u \in Write
    BY <2>1 DEF Invocation
  <2>3. \A k \in Key : IF Running(k) THEN work'[k] = work[k] ELSE ~(Running(k)')
    BY <2>1, <2>2, UpsertKeepsRunning DEF Running
  <2>4. \A j \in Run : /\ run'[j].stage = run[j].stage /\ run'[j].age = run[j].age
                       /\ run'[j].claimed = run[j].claimed
                       /\ run'[j].finished = run[j].finished
    BY <2>1 DEF Invocation
  <2>5. QED
    BY <2>3, <2>4, StaysOwned DEF Running, Left
<1>7. ASSUME NEW i \in Run, NEW k \in Key,
             FinishTipoff(i, k) \/ FinishPlanning(i, k) \/ FinishPostgame(i, k) \/ FinishDelivery(i, k)
      PROVE  OwnsWhatItWorksOn' /\ LeaseMatches'
  <2>1. PICK status \in {"retry", "completed", "canceled"}, retryAt \in Int :
          Settle(i, k, status, retryAt) /\ run[i].stage = "work"
    <3>1. Never \in Int /\ RetryDelay \in Int /\ RetryDelay - run[i].age \in Int
      BY TimeAssumption DEF Never, Invocation
    <3>2. QED
      BY <1>7, <3>1 DEF FinishTipoff, FinishPlanning, FinishPostgame, FinishDelivery, InPhase
  <2>2. /\ work' = Finish(work, i, k, status, retryAt)
        /\ \A j \in Run \ {i} : run'[j] = run[j]
        /\ \/ run'[i] = Resting
           \/ /\ run'[i].stage = run[i].stage /\ run'[i].age = run[i].age
              /\ run'[i].claimed = run[i].claimed
              /\ run'[i].finished = run[i].finished \cup {k}
    BY <2>1 DEF Settle, Invocation
  <2>3. QED
    BY <2>1, <2>2, FinishOwned, SMTT(30)
<1>8. ASSUME NEW i \in Run, NEW k \in Key, Recover(i, k) PROVE OwnsWhatItWorksOn' /\ LeaseMatches'
  <2>1. /\ work' = Finish(work, i, k, "retry", RetryDelay)
        /\ run[i].stage = "recover"
        /\ \A j \in Run \ {i} : run'[j] = run[j]
        /\ \/ run'[i] = Resting
           \/ /\ run'[i].stage = run[i].stage /\ run'[i].age = run[i].age
              /\ run'[i].claimed = run[i].claimed
              /\ run'[i].finished = run[i].finished \cup {k}
    BY <1>8 DEF Recover, Invocation
  <2>2. QED
    BY <2>1, FinishOwned
<1>9. ASSUME NEW i \in Run, Interrupt(i) PROVE OwnsWhatItWorksOn' /\ LeaseMatches'
  <2>1. /\ \A j \in Run \ {i} : run'[j] = run[j]
        /\ run'[i].stage # "work"
        /\ run'[i].stage = "recover" => run'[i].age = run[i].age
        /\ UNCHANGED work
    BY <1>0, <1>9 DEF Interrupt, Invocation
  <2>2. QED
    BY <2>1, StaysOwned DEF Running, Left, OwnsWhatItWorksOn
<1>10. ASSUME NEW i \in Run, Crash(i) PROVE OwnsWhatItWorksOn' /\ LeaseMatches'
  <2>1. run'[i] = Resting /\ \A j \in Run \ {i} : run'[j] = run[j]
    BY <1>10 DEF Crash
  <2>2. \A k \in Key : /\ work'[k].status = work[k].status /\ work'[k].lease = work[k].lease
                       /\ work'[k].owner = IF work[k].owner = i THEN Gone ELSE work[k].owner
    BY <1>10 DEF Crash, Row
  <2>3. OwnsWhatItWorksOn'
    <3> SUFFICES ASSUME NEW o \in Run, run'[o].stage = "work",
                        NEW k \in run'[o].claimed \ run'[o].finished
                 PROVE  work'[k].status = "running" /\ work'[k].owner = o
      BY DEF OwnsWhatItWorksOn, Left, Running
    <3>1. o # i /\ run[o].stage = "work" /\ k \in Left(o) /\ k \in Key
      BY <1>0, <2>1 DEF Left, Invocation
    <3>2. Running(k) /\ work[k].owner = o
      BY <3>1 DEF OwnsWhatItWorksOn
    <3>3. QED
      BY <2>2, <3>1, <3>2 DEF Running
  <2>4. LeaseMatches'
    <3> SUFFICES ASSUME NEW k \in Key, NEW o \in Run, Running(k)', work'[k].owner = o
                 PROVE  work'[k].lease = Lease - run'[o].age
      BY DEF LeaseMatches
    <3>1. o # i /\ Running(k) /\ work[k].owner = o
      BY <2>2, RunAssumption DEF Running
    <3>2. QED
      BY <2>1, <2>2, <3>1 DEF LeaseMatches
  <2>5. QED
    BY <2>3, <2>4
<1>11. ASSUME NEW k \in Key, NEW due \in 0 .. 1, NEW deadline \in 0 .. Horizon,
              ManualReplan(k, due, deadline)
       PROVE  OwnsWhatItWorksOn' /\ LeaseMatches'
  <2>1. \A j \in Key : IF Running(j) THEN work'[j] = work[j] ELSE ~(Running(j)')
    BY <1>11 DEF ManualReplan, Running, Exists, Row
  <2>2. UNCHANGED run
    BY <1>11 DEF ManualReplan
  <2>3. QED
    BY <2>1, <2>2, StaysOwned DEF Running, Left
<1>12. ASSUME Tick PROVE OwnsWhatItWorksOn' /\ LeaseMatches'
  <2>1. \A k \in Key : /\ work'[k].status = work[k].status /\ work'[k].owner = work[k].owner
                       /\ work'[k].lease = Closer(work[k].lease)
    BY <1>12 DEF Tick, Row
  <2>2. \A i \in Run : /\ run'[i].stage = run[i].stage
                       /\ run'[i].claimed = run[i].claimed
                       /\ run'[i].finished = run[i].finished
                       /\ Live(i) => run[i].age < RunLimit /\ run'[i].age = run[i].age + 1
    BY <1>12 DEF Tick, Invocation
  <2>3. OwnsWhatItWorksOn'
    BY <2>1, <2>2 DEF OwnsWhatItWorksOn, Running, Left, Invocation
  <2>4. LeaseMatches'
    <3> SUFFICES ASSUME NEW k \in Key, NEW i \in Run, Running(k)', work'[k].owner = i
                 PROVE  work'[k].lease = Lease - run'[i].age
      BY DEF LeaseMatches
    <3>1. Running(k) /\ work[k].owner = i
      BY <2>1 DEF Running
    <3>2. Live(i)
      BY <3>1 DEF NoRowForgotten, Live
    <3>3. work[k].lease = Lease - run[i].age
      BY <3>1 DEF LeaseMatches
    <3>4. run[i].age \in Nat /\ run[i].age < RunLimit /\ run'[i].age = run[i].age + 1
      BY <2>2, <3>2 DEF Invocation
    <3>5. Closer(Lease - run[i].age) = Lease - (run[i].age + 1)
      BY <3>4, TimeAssumption DEF Closer, Soon, Never
    <3>6. QED
      BY <2>1, <3>3, <3>4, <3>5
  <2>5. QED
    BY <2>3, <2>4
<1>13. QED
  BY <1>1, <1>2, <1>3, <1>4, <1>5, <1>6, <1>7, <1>8, <1>9, <1>10, <1>11, <1>12 DEF Next, Step

\* The strengthening is inductive.
LEMMA OwnHolds ==
  ASSUME RunLimit < Lease
  PROVE  Spec => []OwnInv
<1>1. Init => OwnInv
  BY KeepInit DEF Init, OwnInv, OwnsWhatItWorksOn, LeaseMatches, Running, Resting
<1>2. OwnInv /\ [Next]_vars => OwnInv'
  <2> SUFFICES ASSUME OwnInv, [Next]_vars PROVE OwnInv'
    OBVIOUS
  <2>1. KeepInv'
    BY KeepStep DEF OwnInv
  <2>2. CASE Next
    BY <2>1, <2>2, OwnStep DEF OwnInv
  <2>3. CASE UNCHANGED vars
    BY <2>1, <2>3 DEF vars, OwnInv, OwnsWhatItWorksOn, LeaseMatches, Running, Left
  <2>4. QED
    BY <2>2, <2>3
<1>3. QED
  BY <1>1, <1>2, PTL DEF Spec

\* With the timeout shorter than the lease, whatever a live invocation still works on is its own:
\* it is running, and in nobody else's hands.
THEOREM LeaseIsEnough ==
  ASSUME RunLimit < Lease
  PROVE  Spec => []OwnsWhatItWorksOn
<1>1. OwnInv => OwnsWhatItWorksOn
  BY DEF OwnInv
<1>2. QED
  BY <1>1, OwnHolds, PTL

-----------------------------------------------------------------------------
(* One consumer: the queue delivers its messages one at a time (max_concurrency) *)

OneAtATime == \A i, j \in Run : Live(i) /\ Live(j) => i = j

\* The rows an invocation may claim, and those it works on, were not past their deadline when it
\* began.
Timely ==
  \A i \in Run :
    /\ run[i].stage = "claim" => \A k \in Key : Claimable(i, k) => ~Due(i, work[k].deadline)
    /\ run[i].stage = "work" => \A k \in Left(i) : ~Due(i, work[k].deadline)

\* A tipoff read that is to be written was not canceled when it was asked for, nor since.
Revives(u) == Family[u.key] = "tipoff" /\ u.status = "pending"
InOrder(writes) ==
  \A u \in writes : Revives(u) => /\ work[u.key].status # "canceled"
                                  /\ \A v \in writes : v.key = u.key => v.status = "pending"
Retiring ==
  \A i \in Run :
    /\ run[i].writes # {} => run[i].stage = "work"
    /\ run[i].stage = "ensure" => Family[run[i].today] = "daily"
    /\ InOrder(run[i].writes)

TimelyInv == OwnInv /\ OneAtATime /\ Timely
RetireInv == TypeOK /\ OneAtATime /\ Retiring

\* Whoever acts is at work, and acts for itself.
LEMMA OneActs ==
  ASSUME TypeOK, NEW i \in Run, Step(i) \/ Interrupt(i) \/ Crash(i)
  PROVE  Live(i) /\ \A j \in Run \ {i} : run'[j] = run[j]
<1>1. ASSUME NEW k \in Key, NEW status, NEW retryAt, Settle(i, k, status, retryAt)
      PROVE  \A j \in Run \ {i} : run'[j] = run[j]
  BY <1>1 DEF Settle, TypeOK
<1>2. CASE \E due \in (-RunLimit) .. Horizon : EnsureDaily(i, due)
  BY <1>2 DEF EnsureDaily, Live, TypeOK
<1>3. CASE CancelExpired(i) \/ ClaimDue(i) \/ WriteRow(i)
  BY <1>3 DEF CancelExpired, ClaimDue, WriteRow, Live, TypeOK
<1>4. CASE ReadTipoffLineup(i) \/ CollectPlanning(i) \/ CollectPostgame(i)
  BY <1>4 DEF ReadTipoffLineup, CollectPlanning, CollectPostgame, Reconcile, InPhase, Live, TypeOK
<1>5. CASE \E k \in Key : FinishTipoff(i, k) \/ FinishPlanning(i, k) \/ FinishPostgame(i, k)
                          \/ FinishDelivery(i, k)
  BY <1>1, <1>5 DEF FinishTipoff, FinishPlanning, FinishPostgame, FinishDelivery, InPhase, Live
<1>6. CASE \E k \in Key : Recover(i, k)
  BY <1>6 DEF Recover, Live, TypeOK
<1>7. CASE Interrupt(i) \/ Crash(i)
  BY <1>7 DEF Interrupt, Crash, TypeOK
<1>8. QED
  BY <1>2, <1>3, <1>4, <1>5, <1>6, <1>7 DEF Step

\* A wake that begins finds nobody else.
LEMMA AloneStep ==
  ASSUME Concurrency <= 1, TypeOK, OneAtATime, [Next]_vars
  PROVE  OneAtATime'
<1>1. ASSUME NEW i \in Run, NEW k \in Key, Begin(i, k) PROVE OneAtATime'
  <2> DEFINE L == {j \in Run : Live(j)}
  <2>1. \A j \in Run : ~Live(j)
    <3>1. SUFFICES ASSUME NEW j \in Run, Live(j) PROVE FALSE
      OBVIOUS
    <3>2. L = {j}
      BY <3>1 DEF OneAtATime
    <3> HIDE DEF L
    <3>3. Cardinality(L) = 1
      BY <3>2, FS_Singleton
    <3>4. Cardinality(L) < Concurrency
      BY <1>1 DEF Begin, L
    <3>5. QED
      BY <3>3, <3>4, RunAssumption
  <2>2. \A j \in Run \ {i} : run'[j] = run[j]
    BY <1>1 DEF Begin, TypeOK
  <2>3. QED
    BY <2>1, <2>2 DEF OneAtATime, Live
<1>2. ASSUME NEW i \in Run, Step(i) \/ Interrupt(i) \/ Crash(i) PROVE OneAtATime'
  BY <1>2, OneActs DEF OneAtATime, Live
<1>3. ASSUME Tick PROVE OneAtATime'
  <2>1. \A i \in Run : run'[i].stage = run[i].stage
    BY <1>3 DEF Tick, TypeOK, Invocation
  <2>2. QED
    BY <2>1 DEF OneAtATime, Live
<1>4. ASSUME \/ \E k \in Key, due \in 0 .. 1, deadline \in 0 .. Horizon : ManualReplan(k, due, deadline)
             \/ UNCHANGED vars
      PROVE  OneAtATime'
  <2>1. run' = run
    BY <1>4 DEF ManualReplan, vars
  <2>2. QED
    BY <2>1 DEF OneAtATime, Live
<1>5. QED
  BY <1>1, <1>2, <1>3, <1>4 DEF Next

\* What is due for an invocation stays due for it, and nothing becomes so.
LEMMA DueStays ==
  ASSUME TypeOK, Tick, NEW i \in Run, Live(i), NEW t \in Instant
  PROVE  /\ run'[i].age = run[i].age + 1
         /\ Closer(t) <= -(run[i].age + 1) <=> Due(i, t)
<1>1. run[i].age \in 0 .. RunLimit /\ run[i].age < RunLimit
  BY DEF TypeOK, Invocation, Tick
<1>2. run'[i].age = run[i].age + 1
  BY DEF TypeOK, Invocation, Tick
<1>3. QED
  BY <1>1, <1>2, TimeAssumption DEF Due, Closer, Soon, Never, Instant

\* What may be claimed or is worked on stays in time: an upsert changes the deadline only of a
\* row that is not running.
LEMMA TimelyStep ==
  ASSUME TimelyInv, OneAtATime', [Next]_vars
  PROVE  Timely'
<1> USE DEF TimelyInv, OwnInv, KeepInv, TypeOK
<1>0. Resting.stage = "idle"
  BY DEF Resting
<1>a. ASSUME NEW i \in Run, run'[i].stage \notin {"claim", "work"},
             \A j \in Run \ {i} : ~Live(j)'
      PROVE  Timely'
  BY <1>a DEF Timely, Live
<1>b. ASSUME NEW i \in Run, run[i].stage = "work", run'[i].stage = "work",
             run'[i].age = run[i].age,
             run'[i].claimed \ run'[i].finished \subseteq Left(i),
             \A k \in Left(i) : work'[k].deadline = work[k].deadline,
             \A j \in Run \ {i} : ~Live(j)'
      PROVE  Timely'
  BY <1>b DEF Timely, Live, Left, Due
<1>1. ASSUME NEW i \in Run, NEW k \in Key, Begin(i, k) PROVE Timely'
  <2>1. run'[i].stage \in {"ensure", "expire"}
    BY <1>1 DEF Begin, Resting
  <2>2. QED
    BY <1>a, <2>1 DEF OneAtATime, Live
<1>c. ASSUME NEW i \in Run, Step(i) \/ Interrupt(i) \/ Crash(i)
      PROVE  \A j \in Run \ {i} : ~Live(j)'
  BY <1>c, OneActs DEF OneAtATime, Live
<1>2. ASSUME NEW i \in Run, NEW due \in (-RunLimit) .. Horizon, EnsureDaily(i, due) PROVE Timely'
  <2>1. run'[i].stage = "expire"
    BY <1>2 DEF EnsureDaily, Invocation
  <2>2. QED
    BY <1>2, <1>a, <1>c, <2>1 DEF Step
<1>3. ASSUME NEW i \in Run, CancelExpired(i) PROVE Timely'
  <2>1. /\ run'[i].stage = "claim" /\ run'[i].age = run[i].age
        /\ \A j \in Run \ {i} : ~Live(j)'
    BY <1>3, <1>c DEF CancelExpired, Invocation, Step
  <2>2. ASSUME NEW k \in Key, Claimable(i, k)' PROVE ~Due(i, work[k].deadline)'
    <3>1. ~Expired(i, k)
      <4>1. Expired(i, k) => work'[k].status = "canceled"
        BY <1>3 DEF CancelExpired, Row
      <4>2. QED
        BY <2>2, <4>1 DEF Claimable, Waiting, Running
    <3>2. work'[k] = work[k]
      BY <1>3, <3>1 DEF CancelExpired
    <3>3. QED
      BY <2>1, <2>2, <3>1, <3>2 DEF Claimable, Expired, Due, Waiting, Running
  <2>3. QED
    BY <2>1, <2>2 DEF Timely, Live
<1>4. ASSUME NEW i \in Run, ClaimDue(i) PROVE Timely'
  <2> DEFINE claimed == {k \in Key : Claimable(i, k)}
  <2>1. /\ work' = Claim(work, i, claimed)
        /\ run[i].stage = "claim" /\ run[i].finished = {}
        /\ run' = [run EXCEPT ![i] = IF claimed = {} THEN Resting
                                     ELSE [run[i] EXCEPT !.stage = "work", !.claimed = claimed]]
    BY <1>4 DEF ClaimDue, NothingFinishedEarly
  <2>2. \A j \in Run \ {i} : ~Live(j)'
    BY <1>4, <1>c DEF Step
  <2>3. \A k \in claimed : ~Due(i, work[k].deadline)
    BY <2>1 DEF Timely
  <2> HIDE DEF claimed
  <2>4. \A k \in Key : work'[k].deadline = work[k].deadline
    BY <2>1 DEF Claim, Row
  <2>5. CASE claimed = {}
    <3>1. run'[i].stage = "idle"
      BY <1>0, <2>1, <2>5
    <3>2. QED
      BY <1>a, <2>2, <3>1
  <2>6. CASE claimed # {}
    <3>1. /\ run'[i].stage = "work" /\ run'[i].claimed = claimed /\ run'[i].finished = {}
          /\ run'[i].age = run[i].age
      BY <2>1, <2>6 DEF Invocation
    <3>2. claimed \subseteq Key
      BY DEF claimed
    <3>3. \A k \in Left(i)' : ~Due(i, work[k].deadline)'
      BY <2>3, <2>4, <3>1, <3>2 DEF Left, Due
    <3>4. QED
      BY <2>2, <3>1, <3>3 DEF Timely, Live
  <2>7. QED
    BY <2>5, <2>6
<1>5. ASSUME NEW i \in Run, \/ ReadTipoffLineup(i)
                            \/ CollectPlanning(i)
                            \/ CollectPostgame(i)
      PROVE  Timely'
  <2>0. run[i].stage = "work"
    BY <1>5 DEF ReadTipoffLineup, CollectPlanning, CollectPostgame, InPhase
  <2>1. UNCHANGED work /\ \E v, W : run' = [run EXCEPT ![i].verdict = v, ![i].writes = W]
    <3>1. ASSUME NEW v, run' = [run EXCEPT ![i].verdict = v]
          PROVE  run' = [run EXCEPT ![i].verdict = v, ![i].writes = run[i].writes]
      BY <3>1 DEF Invocation
    <3>2. QED
      BY <1>5, <3>1, SMTT(30) DEF ReadTipoffLineup, CollectPlanning, CollectPostgame, Reconcile
  <2>2. /\ run'[i].stage = run[i].stage /\ run'[i].age = run[i].age
        /\ run'[i].claimed = run[i].claimed /\ run'[i].finished = run[i].finished
    BY <2>1 DEF Invocation
  <2>3. \A j \in Run \ {i} : ~Live(j)'
    BY <1>5, <1>c DEF Step
  <2>4. QED
    BY <1>b, <2>0, <2>1, <2>2, <2>3 DEF Left
<1>6. ASSUME NEW i \in Run, WriteRow(i) PROVE Timely'
  <2>1. PICK u \in run[i].writes : /\ work' = Upsert(work, u)
                                   /\ run' = [run EXCEPT ![i].writes = @ \ {u}]
    BY <1>6 DEF WriteRow
  <2>2. u \in Write
    BY <2>1 DEF Invocation
  <2>3. /\ run'[i].stage = run[i].stage /\ run'[i].age = run[i].age
        /\ run'[i].claimed = run[i].claimed /\ run'[i].finished = run[i].finished
        /\ run[i].stage = "work"
    BY <1>6, <2>1 DEF Invocation, WriteRow
  <2>4. \A k \in Left(i) : k \in Key /\ Running(k)
    BY <2>3 DEF OwnsWhatItWorksOn, Left, Invocation
  <2>5. \A k \in Left(i) : work'[k] = work[k]
    BY <2>1, <2>2, <2>4, UpsertKeepsRunning DEF Running
  <2>6. \A j \in Run \ {i} : ~Live(j)'
    BY <1>6, <1>c DEF Step
  <2>7. QED
    BY <1>b, <2>3, <2>5, <2>6 DEF Left
<1>7. ASSUME NEW i \in Run, NEW k \in Key,
             FinishTipoff(i, k) \/ FinishPlanning(i, k) \/ FinishPostgame(i, k) \/ FinishDelivery(i, k)
      PROVE  Timely'
  <2>1. PICK status, retryAt : Settle(i, k, status, retryAt) /\ run[i].stage = "work"
    BY <1>7 DEF FinishTipoff, FinishPlanning, FinishPostgame, FinishDelivery, InPhase
  <2>2. \A j \in Key : work'[j].deadline = work[j].deadline
    BY <2>1 DEF Settle, Finish, Row
  <2>3. \A j \in Run \ {i} : ~Live(j)'
    BY <1>7, <1>c DEF Step
  <2>4. \/ run'[i] = Resting
        \/ /\ run'[i].stage = run[i].stage /\ run'[i].age = run[i].age
           /\ run'[i].claimed = run[i].claimed
           /\ run'[i].finished = run[i].finished \cup {k}
    BY <2>1 DEF Settle, Invocation
  <2>5. Left(i) \subseteq Key
    BY DEF Left, Invocation
  <2>6. QED
    BY <1>0, <1>a, <1>b, <2>1, <2>2, <2>3, <2>4, <2>5 DEF Left
<1>8. ASSUME NEW i \in Run, (\E k \in Key : Recover(i, k)) \/ Interrupt(i) \/ Crash(i)
      PROVE  Timely'
  <2>1. run'[i].stage \in {"idle", "recover"}
    <3>1. ASSUME NEW k \in Key, Recover(i, k) PROVE run'[i].stage \in {"idle", "recover"}
      <4>1. /\ run[i].stage = "recover"
            /\ run' = [run EXCEPT ![i] = IF Left(i) = {k} THEN Resting
                                         ELSE [run[i] EXCEPT !.finished = run[i].finished \cup {k}]]
        BY <3>1 DEF Recover
      <4>2. QED
        BY <1>0, <4>1 DEF Invocation
    <3>2. ASSUME Interrupt(i) PROVE run'[i].stage \in {"idle", "recover"}
      BY <1>0, <3>2 DEF Interrupt, Invocation
    <3>3. ASSUME Crash(i) PROVE run'[i].stage \in {"idle", "recover"}
      BY <1>0, <3>3 DEF Crash, Invocation
    <3>4. QED
      BY <1>8, <3>1, <3>2, <3>3
  <2>2. \A j \in Run \ {i} : ~Live(j)'
    BY <1>8, <1>c DEF Step
  <2>3. QED
    BY <1>a, <2>1, <2>2
<1>9. ASSUME NEW k \in Key, NEW due \in 0 .. 1, NEW deadline \in 0 .. Horizon,
             ManualReplan(k, due, deadline)
      PROVE  Timely'
  <2>1. /\ run' = run /\ ~Exists(k) /\ work'[k].due = due
        /\ \A j \in Key \ {k} : work'[j] = work[j]
        /\ \A i \in Run : Live(i) => ~Due(i, due)
    BY <1>9 DEF ManualReplan, Row
  <2>2. ASSUME NEW i \in Run, run[i].stage = "claim"
        PROVE  \A j \in Key : Claimable(i, j)' => ~Due(i, work[j].deadline)'
    <3>1. ~Claimable(i, k)'
      BY <2>1, <2>2 DEF Claimable, Live, Due
    <3>2. \A j \in Key \ {k} : Claimable(i, j)' => Claimable(i, j)
      BY <2>1 DEF Claimable, Due, Waiting, Running
    <3>3. QED
      BY <2>1, <2>2, <3>1, <3>2 DEF Timely, Due
  <2>3. ASSUME NEW i \in Run, run[i].stage = "work"
        PROVE  \A j \in Left(i) : ~Due(i, work[j].deadline)'
    <3>1. \A j \in Left(i) : j \in Key /\ j # k
      BY <2>1, <2>3 DEF OwnsWhatItWorksOn, Running, Exists, Left, Invocation
    <3>2. QED
      BY <2>1, <2>3, <3>1 DEF Timely, Due
  <2>4. QED
    BY <2>1, <2>2, <2>3 DEF Timely, Left
<1>10. ASSUME Tick PROVE Timely'
  <2>1. \A k \in Key : /\ work'[k].status = work[k].status
                       /\ work'[k].due = Closer(work[k].due)
                       /\ work'[k].deadline = Closer(work[k].deadline)
                       /\ work'[k].lease = Closer(work[k].lease)
                       /\ work[k].due \in Instant /\ work[k].deadline \in Instant
                       /\ work[k].lease \in Instant
    BY <1>10 DEF Tick, Row
  <2>2. \A i \in Run : /\ run'[i].stage = run[i].stage
                       /\ run'[i].claimed = run[i].claimed
                       /\ run'[i].finished = run[i].finished
    BY <1>10 DEF Tick, Invocation
  <2>3. ASSUME NEW i \in Run, Live(i), NEW k \in Key
        PROVE  /\ Due(i, work[k].deadline)' <=> Due(i, work[k].deadline)
               /\ Claimable(i, k)' <=> Claimable(i, k)
    <3>1. /\ Due(i, work[k].due)' <=> Due(i, work[k].due)
          /\ Due(i, work[k].deadline)' <=> Due(i, work[k].deadline)
          /\ Due(i, work[k].lease)' <=> Due(i, work[k].lease)
      BY <1>10, <2>1, <2>3, DueStays DEF Due
    <3>2. (Waiting(k)' <=> Waiting(k)) /\ (Running(k)' <=> Running(k))
      BY <2>1 DEF Waiting, Running
    <3>3. QED
      BY <3>1, <3>2 DEF Claimable
  <2>4. \A i \in Run : run[i].stage \in {"claim", "work"} => Live(i)
    BY DEF Live
  <2>5. \A i \in Run : Left(i) \subseteq Key
    BY DEF Left, Invocation
  <2>6. QED
    BY <2>2, <2>3, <2>4, <2>5 DEF Timely, Left
<1>11. CASE UNCHANGED vars
  BY <1>11 DEF vars, Timely, Claimable, Due, Waiting, Running, Left
<1>12. QED
  BY <1>1, <1>2, <1>3, <1>4, <1>5, <1>6, <1>7, <1>8, <1>9, <1>10, <1>11 DEF Next, Step

\* With one consumer, whose timeout is shorter than the lease, no row is worked on that was past its
\* deadline when the invocation began, whether the row waited or a dead invocation held it.
THEOREM NoLateWork ==
  ASSUME Concurrency <= 1, RunLimit < Lease
  PROVE  Spec => []NeverWorksPastDeadline
<1>1. Init => TimelyInv
  <2>1. Init => OwnInv
    BY KeepInit DEF Init, OwnInv, OwnsWhatItWorksOn, LeaseMatches, Running, Resting
  <2>2. Init => OneAtATime /\ Timely
    BY DEF Init, OneAtATime, Timely, Live, Resting
  <2>3. QED
    BY <2>1, <2>2 DEF TimelyInv
<1>2. ASSUME TimelyInv, OwnInv', [Next]_vars PROVE TimelyInv'
  <2>1. OneAtATime'
    BY <1>2, AloneStep DEF TimelyInv, OwnInv, KeepInv
  <2>2. QED
    BY <1>2, <2>1, TimelyStep DEF TimelyInv
<1>3. TimelyInv => NeverWorksPastDeadline
  BY DEF TimelyInv, Timely, NeverWorksPastDeadline
<1>4. Spec => []OwnInv
  BY OwnHolds
<1>5. QED
  BY <1>1, <1>2, <1>3, <1>4, PTL DEF Spec

-----------------------------------------------------------------------------
(* Tipoff reads *)

\* What a reconciliation asks for revives no canceled read, and does not cancel what it asks for.
LEMMA PlannedWrites ==
  ASSUME TypeOK, NEW i \in Run,
         NEW games \in SUBSET Of("pre_tipoff"), NEW reads \in SUBSET Of("tipoff"),
         NEW keys \in SUBSET (Of("postgame") \cup Of("recovery") \cup Of("delivery")),
         NEW start \in [games -> 1 .. Horizon], NEW at, NEW due, NEW deadline
  PROVE  InOrder(PreTipoffWrites(i, start) \cup TipoffReadWrites(i, reads, at)
                 \cup Offers(keys, due, deadline))
<1> DEFINE W == PreTipoffWrites(i, start) \cup TipoffReadWrites(i, reads, at)
                \cup Offers(keys, due, deadline)
<1>0. SUFFICES ASSUME NEW u \in W, Revives(u)
               PROVE  /\ work[u.key].status # "canceled"
                      /\ \A v \in W : v.key = u.key => v.status = "pending"
  BY DEF InOrder
<1>1. \A v \in PreTipoffWrites(i, start) : Family[v.key] = "pre_tipoff"
  BY DEF PreTipoffWrites, Of
<1>2. \A v \in Offers(keys, due, deadline) :
        Family[v.key] \in {"postgame", "recovery", "delivery"}
  BY DEF Offers, Of
<1>3. \A v \in TipoffReadWrites(i, reads, at) :
        \/ v.status = "canceled" /\ work[v.key].status = "pending"
        \/ v.status = "pending" /\ work[v.key].status = "absent"
  BY DEF TipoffReadWrites, Exists, Of
<1>4. u \in TipoffReadWrites(i, reads, at)
  BY <1>0, <1>1, <1>2 DEF Revives
<1>5. work[u.key].status = "absent"
  BY <1>0, <1>3, <1>4 DEF Revives
<1>6. QED
  BY <1>0, <1>1, <1>2, <1>3, <1>5 DEF Revives

\* Every step keeps what is known of the rows that are retiring.
LEMMA RetiringStep ==
  ASSUME RetireInv, TypeOK', OneAtATime', [Next]_vars
  PROVE  Retiring'
<1> USE DEF RetireInv, TypeOK
<1>0. Resting.stage = "idle" /\ Resting.writes = {}
  BY DEF Resting
\* Whoever else there is rests.
<1>a. ASSUME NEW i \in Run, \A j \in Run \ {i} : run'[j] = run[j] /\ ~Live(j)',
             run'[i].writes = {}, run'[i].stage = "ensure" => Family[run'[i].today] = "daily"
      PROVE  Retiring'
  BY <1>a DEF Retiring, InOrder, Live
<1>b. ASSUME NEW i \in Run, Step(i) \/ Interrupt(i) \/ Crash(i)
      PROVE  \A j \in Run \ {i} : run'[j] = run[j] /\ ~Live(j)'
  BY <1>b, OneActs DEF OneAtATime, Live
<1>1. ASSUME NEW i \in Run, NEW k \in Key, Begin(i, k) PROVE Retiring'
  <2>1. /\ run'[i].stage \in {"ensure", "expire"} /\ run'[i].today = k /\ run'[i].writes = {}
        /\ Family[k] = "daily" /\ \A j \in Run \ {i} : run'[j] = run[j]
    BY <1>1 DEF Begin, Resting
  <2>2. \A j \in Run \ {i} : ~Live(j)'
    BY <2>1 DEF OneAtATime, Live
  <2>3. QED
    BY <1>a, <2>1, <2>2
<1>2. ASSUME NEW i \in Run,
             \/ \E due \in (-RunLimit) .. Horizon : EnsureDaily(i, due)
             \/ CancelExpired(i) \/ ClaimDue(i)
             \/ \E k \in Key : \/ FinishTipoff(i, k) \/ FinishPlanning(i, k)
                               \/ FinishPostgame(i, k) \/ FinishDelivery(i, k)
                               \/ Recover(i, k)
             \/ Interrupt(i) \/ Crash(i)
      PROVE  Retiring'
  <2>1. \A j \in Run \ {i} : run'[j] = run[j] /\ ~Live(j)'
    BY <1>2, <1>b DEF Step
  <2>2. run[i].stage # "work" => run[i].writes = {}
    BY DEF Retiring
  <2>3. run'[i].writes = {} /\ run'[i].stage # "ensure"
    <3>1. CASE \/ \E due \in (-RunLimit) .. Horizon : EnsureDaily(i, due)
               \/ CancelExpired(i)
      <4>1. PICK stage \in {"expire", "claim"} :
              run[i].stage # "work" /\ run' = [run EXCEPT ![i].stage = stage]
        BY <3>1 DEF EnsureDaily, CancelExpired
      <4>2. QED
        BY <2>2, <4>1 DEF Invocation
    <3>2. CASE ClaimDue(i)
      <4>1. PICK C : run' = [run EXCEPT ![i] = IF C = {} THEN Resting
                                ELSE [run[i] EXCEPT !.stage = "work", !.claimed = C]]
        BY <3>2 DEF ClaimDue
      <4>2. run[i].writes = {}
        BY <2>2, <3>2 DEF ClaimDue
      <4>3. QED
        BY <1>0, <4>1, <4>2 DEF Invocation
    <3>3. ASSUME NEW k \in Key, \/ FinishTipoff(i, k) \/ FinishPlanning(i, k)
                                \/ FinishPostgame(i, k) \/ FinishDelivery(i, k)
          PROVE  run'[i].writes = {} /\ run'[i].stage # "ensure"
      <4>1. PICK status, retryAt : Settle(i, k, status, retryAt) /\ run[i].stage = "work"
        BY <3>3 DEF FinishTipoff, FinishPlanning, FinishPostgame, FinishDelivery, InPhase
      <4>2. run[i].writes = {}
        BY <4>1 DEF Settle
      <4>3. run'[i] = Resting \/ (run'[i].writes = run[i].writes /\ run'[i].stage = run[i].stage)
        BY <4>1 DEF Settle, Invocation
      <4>4. QED
        BY <1>0, <4>1, <4>2, <4>3
    <3>4. CASE \E k \in Key : Recover(i, k)
      BY <1>0, <2>2, <3>4 DEF Recover, Invocation
    <3>5. CASE Interrupt(i) \/ Crash(i)
      <4>1. \/ run'[i] = Resting
            \/ \E returned : run'[i] = [run[i] EXCEPT !.stage = "recover",
                                !.finished = returned, !.writes = {}, !.verdict = "none"]
        BY <3>5 DEF Interrupt, Crash
      <4>2. QED
        BY <1>0, <4>1 DEF Invocation
    <3>6. QED
      BY <1>2, <3>1, <3>2, <3>3, <3>4, <3>5
  <2>4. QED
    BY <1>a, <2>1, <2>3
\* The new writes of a phase.
<1>c. ASSUME NEW i \in Run, run[i].stage = "work", NEW W, NEW v,
             run' = [run EXCEPT ![i].verdict = v, ![i].writes = W],
             \A j \in Run \ {i} : run'[j] = run[j] /\ ~Live(j)', work' = work, InOrder(W)
      PROVE  Retiring'
  <2>1. run'[i].writes = W /\ run'[i].stage = "work"
    BY <1>c DEF Invocation
  <2>2. QED
    BY <1>c, <2>1 DEF Retiring, Live, InOrder, Revives
<1>3. ASSUME NEW i \in Run, ReadTipoffLineup(i) \/ CollectPostgame(i) PROVE Retiring'
  <2>1. \A j \in Run \ {i} : run'[j] = run[j] /\ ~Live(j)'
    BY <1>3, <1>b DEF Step
  <2>2. run[i].stage = "work" /\ work' = work
    BY <1>3 DEF ReadTipoffLineup, CollectPostgame, InPhase
  <2>3. ASSUME NEW keys \in SUBSET Of("postgame"), NEW due, NEW deadline,
               NEW u \in Offers(keys, due, deadline)
        PROVE  ~Revives(u)
    BY DEF Offers, Of, Revives
  <2>4. CASE run' = [run EXCEPT ![i].verdict = "failed"]
    <3>1. run' = [run EXCEPT ![i].verdict = "failed", ![i].writes = run[i].writes]
      BY <2>4 DEF Invocation
    <3>2. QED
      BY <1>c, <2>1, <2>2, <3>1 DEF Retiring
  <2>5. CASE \E verdict \in Verdict : \E keys \in SUBSET Of("postgame"), due \in 0 .. Horizon,
                 deadline \in 0 .. Horizon :
               run' = [run EXCEPT ![i].verdict = verdict, ![i].writes = Offers(keys, due, deadline)]
    <3>1. PICK verdict \in Verdict, keys \in SUBSET Of("postgame"),
               due \in 0 .. Horizon, deadline \in 0 .. Horizon :
            run' = [run EXCEPT ![i].verdict = verdict, ![i].writes = Offers(keys, due, deadline)]
      BY <2>5, Zenon
    <3> DEFINE W == Offers(keys, due, deadline)
    <3>2. InOrder(W)
      BY <2>3 DEF InOrder
    <3>3. run' = [run EXCEPT ![i].verdict = verdict, ![i].writes = W]
      BY <3>1
    <3> HIDE DEF W
    <3>4. QED
      BY <1>c, <2>1, <2>2, <3>2, <3>3
  <2>6. QED
    <3>1. \/ run' = [run EXCEPT ![i].verdict = "failed"]
          \/ \E verdict \in Verdict : \E keys \in SUBSET Of("postgame"), due \in 0 .. Horizon,
                 deadline \in 0 .. Horizon :
               run' = [run EXCEPT ![i].verdict = verdict, ![i].writes = Offers(keys, due, deadline)]
      BY <1>3, Zenon DEF ReadTipoffLineup, CollectPostgame, Verdict
    <3>2. QED
      BY <2>4, <2>5, <3>1
<1>4. ASSUME NEW i \in Run, CollectPlanning(i) PROVE Retiring'
  <2>1. \A j \in Run \ {i} : run'[j] = run[j] /\ ~Live(j)'
    BY <1>4, <1>b DEF Step
  <2>2. run[i].stage = "work" /\ work' = work
    BY <1>4 DEF CollectPlanning, InPhase
  <2>3. ASSUME NEW v, run' = [run EXCEPT ![i].verdict = v] PROVE Retiring'
    <3>1. run' = [run EXCEPT ![i].verdict = v, ![i].writes = run[i].writes]
      BY <2>3 DEF Invocation
    <3>2. QED
      BY <1>c, <2>1, <2>2, <3>1 DEF Retiring
  <2>4. ASSUME NEW games \in SUBSET Of("pre_tipoff"), NEW reads \in SUBSET Of("tipoff"),
               NEW keys \in SUBSET (Of("postgame") \cup Of("recovery") \cup Of("delivery")),
               Reconcile(i, games, reads, keys)
        PROVE  Retiring'
    <3>1. PICK start \in [games -> 1 .. Horizon], at \in 0 .. (Horizon - 1),
               due \in 0 .. Horizon, deadline \in 0 .. Horizon :
            run' = [run EXCEPT ![i].verdict = "ok",
                               ![i].writes = PreTipoffWrites(i, start)
                                             \cup TipoffReadWrites(i, reads, at)
                                             \cup Offers(keys, due, deadline)]
      BY <2>4, Zenon DEF Reconcile
    <3> DEFINE W == PreTipoffWrites(i, start) \cup TipoffReadWrites(i, reads, at)
                    \cup Offers(keys, due, deadline)
    <3>2. InOrder(W)
      BY PlannedWrites
    <3>3. run' = [run EXCEPT ![i].verdict = "ok", ![i].writes = W]
      BY <3>1
    <3> HIDE DEF W
    <3>4. QED
      BY <1>c, <2>1, <2>2, <3>2, <3>3
  <2>5. QED
    BY <1>4, <2>3, <2>4 DEF CollectPlanning
<1>5. ASSUME NEW i \in Run, WriteRow(i) PROVE Retiring'
  <2>1. PICK w \in run[i].writes : /\ work' = Upsert(work, w)
                                   /\ run' = [run EXCEPT ![i].writes = @ \ {w}]
    BY <1>5 DEF WriteRow
  <2>2. run'[i].writes = run[i].writes \ {w} /\ run'[i].stage = "work" /\ w \in Write
    BY <1>5, <2>1 DEF WriteRow, Invocation
  <2>3. \A j \in Run \ {i} : run'[j] = run[j] /\ ~Live(j)'
    BY <1>5, <1>b DEF Step
  <2>4. ASSUME NEW u \in run[i].writes, Revives(u) PROVE work'[u.key].status # "canceled"
    <3>1. /\ work[u.key].status # "canceled" /\ u.key \in Key
          /\ w.key = u.key => w.status = "pending"
      BY <2>1, <2>4 DEF Retiring, InOrder, Invocation, Write
    <3>2. QED
      BY <2>1, <2>2, <3>1 DEF Upsert, Write, Row
  <2>5. QED
    BY <2>2, <2>3, <2>4 DEF Retiring, InOrder, Live, Revives
<1>6. ASSUME NEW k \in Key, NEW due \in 0 .. 1, NEW deadline \in 0 .. Horizon,
             ManualReplan(k, due, deadline)
      PROVE  Retiring'
  <2>1. run' = run /\ \A j \in Key : work'[j].status = "pending" \/ work'[j] = work[j]
    BY <1>6 DEF ManualReplan, Row
  <2>2. \A i \in Run : \A u \in run[i].writes : u.key \in Key
    BY DEF Invocation, Write
  <2>3. QED
    BY <2>1, <2>2 DEF Retiring, InOrder, Revives
<1>7. ASSUME Tick PROVE Retiring'
  <2>1. \A k \in Key : work'[k].status = work[k].status
    BY <1>7 DEF Tick, Row
  <2>2. ASSUME NEW i \in Run
        PROVE  /\ run'[i].stage = run[i].stage /\ run'[i].today = run[i].today
               /\ run'[i].writes # {} => run[i].writes # {}
               /\ \A u \in run'[i].writes :
                    \E o \in run[i].writes : u.key = o.key /\ u.status = o.status
    <3> DEFINE Moved(u) == [u EXCEPT !.due = Closer(u.due), !.deadline = Closer(u.deadline)]
    <3>1. \A u \in run[i].writes : Moved(u).key = u.key /\ Moved(u).status = u.status
      BY DEF Invocation, Write
    <3>2. /\ run'[i].stage = run[i].stage /\ run'[i].today = run[i].today
          /\ run'[i].writes = run[i].writes \/ run'[i].writes = {Moved(u) : u \in run[i].writes}
      BY <1>7 DEF Tick, Invocation
    <3> HIDE DEF Moved
    <3>3. QED
      BY <3>1, <3>2
  <2>3. \A i \in Run : \A u \in run[i].writes : u.key \in Key
    BY DEF Invocation, Write
  <2>4. QED
    BY <2>1, <2>2, <2>3 DEF Retiring, InOrder, Revives
<1>8. CASE UNCHANGED vars
  BY <1>8 DEF vars, Retiring, InOrder, Revives
<1>9. QED
  BY <1>1, <1>2, <1>3, <1>4, <1>5, <1>6, <1>7, <1>8 DEF Next, Step

\* Only a write that was asked for puts a canceled read back.
LEMMA CanceledStays ==
  ASSUME RetireInv, [Next]_vars, NEW k \in Of("tipoff"), work[k].status = "canceled"
  PROVE  work'[k].status = "canceled"
<1> USE DEF RetireInv, TypeOK
<1>0. k \in Key /\ Family[k] = "tipoff"
  BY DEF Of
<1>1. ASSUME NEW i \in Run, NEW due \in (-RunLimit) .. Horizon, EnsureDaily(i, due)
      PROVE  work'[k].status = "canceled"
  <2>1. run[i].today # k
    BY <1>0, <1>1 DEF EnsureDaily, Retiring
  <2>2. QED
    BY <1>0, <1>1, <2>1 DEF EnsureDaily, Upsert
<1>2. ASSUME NEW i \in Run, CancelExpired(i) PROVE work'[k].status = "canceled"
  BY <1>0, <1>2 DEF CancelExpired, Row
<1>3. ASSUME NEW i \in Run, ClaimDue(i) PROVE work'[k].status = "canceled"
  BY <1>0, <1>3 DEF ClaimDue, Claim, Claimable, Waiting, Running
<1>4. ASSUME NEW i \in Run, WriteRow(i) PROVE work'[k].status = "canceled"
  <2>1. PICK u \in run[i].writes : work' = Upsert(work, u)
    BY <1>4 DEF WriteRow
  <2>2. u \in Write
    BY <2>1 DEF Invocation
  <2>3. u.key = k => u.status = "canceled"
    BY <1>0, <2>1, <2>2 DEF Retiring, InOrder, Revives, Write
  <2>4. QED
    BY <1>0, <2>1, <2>2, <2>3 DEF Upsert, Row, Write
<1>5. ASSUME NEW i \in Run, NEW j \in Key, NEW status, NEW retryAt,
             work' = Finish(work, i, j, status, retryAt)
      PROVE  work'[k].status = "canceled"
  BY <1>0, <1>5 DEF Finish
<1>6. ASSUME NEW i \in Run, NEW j \in Key,
             \/ FinishTipoff(i, j) \/ FinishPlanning(i, j) \/ FinishPostgame(i, j)
             \/ FinishDelivery(i, j) \/ Recover(i, j)
      PROVE  work'[k].status = "canceled"
  BY <1>5, <1>6 DEF FinishTipoff, FinishPlanning, FinishPostgame, FinishDelivery, Recover, Settle
<1>7. ASSUME NEW i \in Run, \/ \E j \in Key : Begin(i, j)
                            \/ ReadTipoffLineup(i) \/ CollectPlanning(i) \/ CollectPostgame(i)
                            \/ Interrupt(i)
      PROVE  work'[k].status = "canceled"
  BY <1>7 DEF Begin, ReadTipoffLineup, CollectPlanning, CollectPostgame, Interrupt
<1>8. ASSUME NEW i \in Run, Crash(i) PROVE work'[k].status = "canceled"
  BY <1>0, <1>8 DEF Crash, Row
<1>9. ASSUME NEW j \in Key, NEW due \in 0 .. 1, NEW deadline \in 0 .. Horizon,
             ManualReplan(j, due, deadline)
      PROVE  work'[k].status = "canceled"
  BY <1>0, <1>9 DEF ManualReplan, Exists
<1>10. ASSUME Tick PROVE work'[k].status = "canceled"
  BY <1>0, <1>10 DEF Tick, Row
<1>11. CASE UNCHANGED vars
  BY <1>11 DEF vars
<1>12. QED
  BY <1>1, <1>2, <1>3, <1>4, <1>6, <1>7, <1>8, <1>9, <1>10, <1>11 DEF Next, Step

\* With one consumer a canceled tipoff read stays canceled: what the reconciliation writes was
\* decided on a list that nobody else could change before it is written.
THEOREM RetiredReadsStay ==
  ASSUME Concurrency <= 1
  PROVE  Spec => RetiredReadStays
<1> DEFINE Kept == \A k \in Of("tipoff") :
             work[k].status = "canceled" => work'[k].status = "canceled"
<1>1. Init => RetireInv
  <2>1. ASSUME Init PROVE OneAtATime /\ Retiring
    BY <2>1 DEF Init, OneAtATime, Retiring, InOrder, Live, Resting
  <2>2. QED
    BY <2>1, TypeInit DEF RetireInv
<1>2. ASSUME RetireInv, [Next]_vars PROVE RetireInv'
  <2>1. TypeOK' /\ OneAtATime'
    BY <1>2, TypeStep, AloneStep DEF RetireInv
  <2>2. QED
    BY <1>2, <2>1, RetiringStep DEF RetireInv
<1>3. RetireInv /\ [Next]_vars => [Kept]_vars
  BY CanceledStays
<1> HIDE DEF Kept
<1>4. Spec => [][Kept]_vars
  BY <1>1, <1>2, <1>3, PTL DEF Spec
<1>5. QED
  BY <1>4 DEF Kept, RetiredReadStays

-----------------------------------------------------------------------------
(* How rows are settled *)

\* Settling a row, or releasing it in a recovery, is a Finish by its invocation.
SettlesRow(i, k) ==
  \/ FinishTipoff(i, k) \/ FinishPlanning(i, k) \/ FinishPostgame(i, k) \/ FinishDelivery(i, k)
  \/ Recover(i, k)

\* Exactly what an upsert does to a row.
LEMMA UpsertFacts ==
  ASSUME NEW w \in [Key -> Row], NEW u \in Write, NEW k \in Key
  PROVE  IF k = u.key /\ w[k].status \notin {"completed", "running"}
         THEN Upsert(w, u)[k].status = u.status /\ Upsert(w, u)[k].owner = w[k].owner
         ELSE Upsert(w, u)[k] = w[k]
BY DEF Upsert, Row, Write

\* Every way to settle a row is one Finish.
LEMMA SettleIsFinish ==
  ASSUME TypeOK, NEW i \in Run, NEW k \in Key, SettlesRow(i, k)
  PROVE  /\ k \in Left(i)
         /\ run[i].stage \in {"work", "recover"}
         /\ \E status \in {"retry", "completed", "canceled"}, retryAt \in Int :
              work' = Finish(work, i, k, status, retryAt)
<1>1. Never \in Int /\ RetryDelay \in Int /\ RetryDelay - run[i].age \in Int
  BY TimeAssumption DEF Never, TypeOK, Invocation
<1>2. CASE Recover(i, k)
  BY <1>1, <1>2 DEF Recover
<1>3. CASE FinishTipoff(i, k)
  BY <1>1, <1>3 DEF FinishTipoff, Settle, InPhase
<1>4. CASE FinishPlanning(i, k)
  BY <1>1, <1>4 DEF FinishPlanning, Settle, InPhase
<1>5. CASE FinishPostgame(i, k)
  BY <1>1, <1>5 DEF FinishPostgame, Settle, InPhase
<1>6. CASE FinishDelivery(i, k)
  BY <1>1, <1>6 DEF FinishDelivery, Settle, InPhase
<1>7. QED
  BY <1>2, <1>3, <1>4, <1>5, <1>6 DEF SettlesRow

\* What each step does to the table, by the statement it executes.
LEMMA TableStep ==
  ASSUME TypeOK, Next
  PROVE  \/ \E u \in Write : work' = Upsert(work, u)
         \/ \E i \in Run : CancelExpired(i)
         \/ \E i \in Run : ClaimDue(i)
         \/ \E i \in Run, k \in Key : SettlesRow(i, k)
         \/ \E i \in Run : Crash(i)
         \/ \E k \in Key, due \in 0 .. 1, deadline \in 0 .. Horizon : ManualReplan(k, due, deadline)
         \/ Tick
         \/ UNCHANGED work
<1>1. ASSUME NEW i \in Run, NEW due \in (-RunLimit) .. Horizon, EnsureDaily(i, due)
      PROVE  \E u \in Write : work' = Upsert(work, u)
  <2>1. [key |-> run[i].today, status |-> "pending", due |-> due, deadline |-> Never] \in Write
    BY InstantFacts DEF Write, Invocation, TypeOK
  <2>2. QED
    BY <1>1, <2>1 DEF EnsureDaily
<1>2. ASSUME NEW i \in Run, WriteRow(i) PROVE \E u \in Write : work' = Upsert(work, u)
  BY <1>2 DEF WriteRow, Invocation, TypeOK
<1>3. ASSUME NEW i \in Run,
             \/ \E k \in Key : Begin(i, k)
             \/ ReadTipoffLineup(i) \/ CollectPlanning(i) \/ CollectPostgame(i) \/ Interrupt(i)
      PROVE  UNCHANGED work
  BY <1>3 DEF Begin, ReadTipoffLineup, CollectPlanning, CollectPostgame, Interrupt
<1>4. QED
  BY <1>1, <1>2, <1>3 DEF Next, Step, SettlesRow

-----------------------------------------------------------------------------
(* Completed work *)

\* No step changes the status of a completed row.
LEMMA CompletedStep ==
  ASSUME TypeOK, Next, NEW k \in Key, work[k].status = "completed"
  PROVE  work'[k].status = "completed"
<1> USE DEF TypeOK
<1>1. ASSUME NEW u \in Write, work' = Upsert(work, u) PROVE work'[k].status = "completed"
  BY <1>1, UpsertFacts
<1>2. ASSUME NEW i \in Run, CancelExpired(i) PROVE work'[k].status = "completed"
  BY <1>2 DEF CancelExpired, Expired, Waiting, Running
<1>3. ASSUME NEW i \in Run, ClaimDue(i) PROVE work'[k].status = "completed"
  BY <1>3 DEF ClaimDue, Claim, Claimable, Waiting, Running
<1>4. ASSUME NEW i \in Run, NEW j \in Key, SettlesRow(i, j) PROVE work'[k].status = "completed"
  BY <1>4, SettleIsFinish, FinishFacts
<1>5. ASSUME NEW i \in Run, Crash(i) PROVE work'[k].status = "completed"
  BY <1>5 DEF Crash, Row
<1>6. ASSUME NEW j \in Key, NEW due \in 0 .. 1, NEW deadline \in 0 .. Horizon,
             ManualReplan(j, due, deadline)
      PROVE  work'[k].status = "completed"
  BY <1>6 DEF ManualReplan, Exists
<1>7. ASSUME Tick PROVE work'[k].status = "completed"
  BY <1>7 DEF Tick, Row
<1>8. QED
  BY <1>1, <1>2, <1>3, <1>4, <1>5, <1>6, <1>7, TableStep

\* A completed row is never run again: not by a repeated upsert, a reconciliation that read it
\* earlier, a late finish, a recovery or a manager's replan, for any number of overlapping
\* invocations, also when they outlive their leases.
THEOREM CompletedStaysCompleted == Spec => CompletedIsFinal
<1>1. TypeOK /\ [Next]_vars
        => [\A k \in Key : work[k].status = "completed" => work'[k].status = "completed"]_vars
  BY CompletedStep DEF vars
<1>2. QED
  BY <1>1, TypeCorrect, PTL DEF Spec, CompletedIsFinal

-----------------------------------------------------------------------------
(* Settled rows *)

\* Whoever settles a row is done with it.
LEMMA SettledLeaves ==
  ASSUME TypeOK, NEW i \in Run, NEW k \in Key, SettlesRow(i, k)
  PROVE  k \notin run'[i].claimed \ run'[i].finished
<1>1. ASSUME NEW status, NEW retryAt, Settle(i, k, status, retryAt)
      PROVE  k \notin run'[i].claimed \ run'[i].finished
  <2>1. CASE Left(i) = {k}
    BY <1>1, <2>1 DEF Settle, Resting, TypeOK
  <2>2. CASE Left(i) # {k}
    BY <1>1, <2>2 DEF Settle, TypeOK, Invocation
  <2>3. QED
    BY <2>1, <2>2
<1>2. CASE Recover(i, k)
  BY <1>2 DEF Recover, Resting, TypeOK, Invocation
<1>3. QED
  BY <1>1, <1>2 DEF SettlesRow, FinishTipoff, FinishPlanning, FinishPostgame, FinishDelivery

\* Only a settling step retries or completes a running row, and only for its owner.
LEMMA SettledByOwner ==
  ASSUME TypeOK, Next, NEW k \in Key, Running(k), work'[k].status \in {"retry", "completed"}
  PROVE  /\ work[k].owner \in Run
         /\ k \in Left(work[k].owner)
         /\ k \notin run'[work[k].owner].claimed \ run'[work[k].owner].finished
<1> USE DEF TypeOK
<1>1. ASSUME NEW u \in Write PROVE work' # Upsert(work, u)
  BY UpsertFacts DEF Running
<1>2. ASSUME NEW i \in Run, CancelExpired(i) PROVE FALSE
  BY <1>2 DEF CancelExpired, Row, Running
<1>3. ASSUME NEW i \in Run, ClaimDue(i) PROVE FALSE
  BY <1>3 DEF ClaimDue, Claim, Row, Running
<1>4. ASSUME NEW i \in Run, Crash(i) PROVE FALSE
  BY <1>4 DEF Crash, Row, Running
<1>5. ASSUME NEW j \in Key, NEW due \in 0 .. 1, NEW deadline \in 0 .. Horizon,
             ManualReplan(j, due, deadline)
      PROVE  FALSE
  BY <1>5 DEF ManualReplan, Exists, Running
<1>6. ASSUME Tick PROVE FALSE
  BY <1>6 DEF Tick, Row, Running
<1>7. work' # work
  BY DEF Running
<1>8. PICK i \in Run, j \in Key : SettlesRow(i, j)
  BY <1>1, <1>2, <1>3, <1>4, <1>5, <1>6, <1>7, TableStep
<1>9. j = k /\ work[k].owner = i
  BY <1>8, SettleIsFinish, FinishFacts DEF Running
<1>10. QED
  BY <1>8, <1>9, SettleIsFinish, SettledLeaves

\* A running row is retried or completed only by the invocation that owns it, which is then done
\* with it: an invocation whose rows were taken over while it was late cannot finish or release
\* them any more, whatever the timeout and the lease are.
THEOREM OwnersSettle == Spec => OnlyOwnerSettles
<1>1. TypeOK /\ [Next]_vars
        => [\A k \in Key : Running(k) /\ work'[k].status \in {"retry", "completed"} =>
              LET i == work[k].owner
              IN i \in Run /\ k \in Left(i) /\ k \notin run'[i].claimed \ run'[i].finished]_vars
  BY SettledByOwner DEF vars
<1>2. QED
  BY <1>1, TypeCorrect, PTL DEF Spec, OnlyOwnerSettles

-----------------------------------------------------------------------------
(* The board of jobs *)

\* A reconciliation cancels only rows it has seen.
CancelsKnown ==
  \A i \in Run : \A u \in run[i].writes : u.status = "canceled" => work[u.key].status # "absent"

\* A row is never deleted.
LEMMA ExistsStays ==
  ASSUME TypeOK, Next, NEW k \in Key, work[k].status # "absent"
  PROVE  work'[k].status # "absent"
<1> USE DEF TypeOK
<1>1. ASSUME NEW u \in Write, work' = Upsert(work, u) PROVE work'[k].status # "absent"
  BY <1>1, UpsertFacts DEF Write
<1>2. ASSUME NEW i \in Run, CancelExpired(i) PROVE work'[k].status # "absent"
  BY <1>2 DEF CancelExpired, Row
<1>3. ASSUME NEW i \in Run, ClaimDue(i) PROVE work'[k].status # "absent"
  BY <1>3 DEF ClaimDue, Claim, Row
<1>4. ASSUME NEW i \in Run, NEW j \in Key, SettlesRow(i, j) PROVE work'[k].status # "absent"
  BY <1>4, SettleIsFinish, FinishFacts
<1>5. ASSUME NEW i \in Run, Crash(i) PROVE work'[k].status # "absent"
  BY <1>5 DEF Crash, Row
<1>6. ASSUME NEW j \in Key, NEW due \in 0 .. 1, NEW deadline \in 0 .. Horizon,
             ManualReplan(j, due, deadline)
      PROVE  work'[k].status # "absent"
  BY <1>6 DEF ManualReplan, Row
<1>7. ASSUME Tick PROVE work'[k].status # "absent"
  BY <1>7 DEF Tick, Row
<1>8. QED
  BY <1>1, <1>2, <1>3, <1>4, <1>5, <1>6, <1>7, TableStep

\* Where the cancellations an invocation holds come from.
LEMMA CancelsCome ==
  ASSUME TypeOK, Next, NEW i \in Run, NEW u \in run'[i].writes, u.status = "canceled"
  PROVE  \/ work[u.key].status # "absent"
         \/ \E v \in run[i].writes : v.key = u.key /\ v.status = "canceled"
<1> USE DEF TypeOK
<1> DEFINE Goal == \/ work[u.key].status # "absent"
                   \/ \E v \in run[i].writes : v.key = u.key /\ v.status = "canceled"
<1>1. ASSUME run'[i].writes \subseteq run[i].writes PROVE Goal
  BY <1>1
<1>2. ASSUME NEW keys, NEW due, NEW deadline, u \in Offers(keys, due, deadline) PROVE FALSE
  BY <1>2 DEF Offers
<1>3. ASSUME NEW o \in Run, run'[o].writes \subseteq run[o].writes,
             \A j \in Run \ {o} : run'[j] = run[j]
      PROVE  Goal
  BY <1>3, <1>1
<1>4. ASSUME NEW o \in Run,
              \/ \E k \in Key : Begin(o, k)
              \/ Interrupt(o) \/ Crash(o) \/ ClaimDue(o)
       PROVE  Goal
  <2>1. Resting.writes = {}
    BY DEF Resting
  <2>2. ASSUME NEW k \in Key, Begin(o, k) PROVE Goal
    BY <2>1, <2>2, <1>3 DEF Begin, Resting
  <2>3. CASE Interrupt(o)
    BY <2>1, <2>3, <1>3 DEF Interrupt, Invocation
  <2>4. CASE Crash(o)
    BY <2>1, <2>4, <1>3 DEF Crash
  <2>5. CASE ClaimDue(o)
    BY <2>1, <2>5, <1>3 DEF ClaimDue, Invocation
  <2>6. QED
    BY <1>4, <2>2, <2>3, <2>4, <2>5
<1>5. ASSUME NEW o \in Run, CancelExpired(o) PROVE Goal
  BY <1>5, <1>3 DEF CancelExpired, Invocation
<1>6. ASSUME NEW o \in Run, WriteRow(o) PROVE Goal
  BY <1>6, <1>3 DEF WriteRow, Invocation
<1>7. ASSUME NEW o \in Run, NEW due \in (-RunLimit) .. Horizon, EnsureDaily(o, due) PROVE Goal
  BY <1>7, <1>3 DEF EnsureDaily, Invocation
<1>8. ASSUME NEW o \in Run, NEW k \in Key, SettlesRow(o, k) PROVE Goal
  <2>1. ASSUME NEW status, NEW retryAt, Settle(o, k, status, retryAt) PROVE Goal
    BY <2>1, <1>1 DEF Settle, Resting, Invocation
  <2>2. CASE Recover(o, k)
    BY <2>2, <1>1 DEF Recover, Resting, Invocation
  <2>3. QED
    BY <1>8, <2>1, <2>2 DEF SettlesRow, FinishTipoff, FinishPlanning, FinishPostgame, FinishDelivery
<1>9. ASSUME NEW o \in Run, ReadTipoffLineup(o) PROVE Goal
  BY <1>9, <1>1, <1>2 DEF ReadTipoffLineup, Invocation
<1>10. ASSUME NEW o \in Run, CollectPostgame(o) PROVE Goal
  BY <1>10, <1>1, <1>2 DEF CollectPostgame, Invocation
<1>11. ASSUME NEW o \in Run, CollectPlanning(o) PROVE Goal
  <2>1. ASSUME NEW games \in SUBSET Of("pre_tipoff"), NEW reads \in SUBSET Of("tipoff"),
               NEW keys \in SUBSET (Of("postgame") \cup Of("recovery") \cup Of("delivery")),
               Reconcile(o, games, reads, keys)
        PROVE  Goal
    <3>1. PICK start \in [games -> 1 .. Horizon], at \in 0 .. (Horizon - 1),
               due \in 0 .. Horizon, deadline \in 0 .. Horizon :
            run' = [run EXCEPT ![o].verdict = "ok",
                               ![o].writes = PreTipoffWrites(o, start)
                                             \cup TipoffReadWrites(o, reads, at)
                                             \cup Offers(keys, due, deadline)]
      BY <2>1, Zenon DEF Reconcile
    <3>2. ASSUME u \in PreTipoffWrites(o, start) PROVE work[u.key].status # "absent"
      BY <3>2 DEF PreTipoffWrites, Waiting
    <3>3. ASSUME u \in TipoffReadWrites(o, reads, at) PROVE work[u.key].status # "absent"
      BY <3>3 DEF TipoffReadWrites
    <3>4. CASE o # i
      BY <3>1, <3>4, <1>1 DEF Invocation
    <3>5. CASE o = i
      <4> DEFINE W == PreTipoffWrites(o, start) \cup TipoffReadWrites(o, reads, at)
                      \cup Offers(keys, due, deadline)
      <4>1. run' = [run EXCEPT ![o].verdict = "ok", ![o].writes = W]
        BY <3>1
      <4> HIDE DEF W
      <4>2. run'[i].writes = W
        BY <4>1, <3>5 DEF Invocation
      <4>3. QED
        BY <4>2, <1>2, <3>2, <3>3 DEF W
    <3>6. QED
      BY <3>4, <3>5
  <2>2. CASE \/ run' = [run EXCEPT ![o].verdict = "failed"]
             \/ run' = [run EXCEPT ![o].verdict = "blocked"]
    BY <2>2, <1>1 DEF Invocation
  <2>3. QED
    BY <1>11, <2>1, <2>2 DEF CollectPlanning
<1>12. ASSUME NEW k \in Key, NEW due \in 0 .. 1, NEW deadline \in 0 .. Horizon,
             ManualReplan(k, due, deadline)
      PROVE  Goal
  BY <1>12, <1>1 DEF ManualReplan
<1>13. ASSUME Tick PROVE Goal
  <2>1. CASE ~Live(i)
    BY <1>13, <2>1, <1>1 DEF Tick
  <2>2. ASSUME Live(i)
        PROVE  u \in {[v EXCEPT !.due = Closer(v.due), !.deadline = Closer(v.deadline)] :
                        v \in run[i].writes}
    BY <1>13, <2>2 DEF Tick, Invocation
  <2>3. ASSUME Live(i),
               NEW v \in run[i].writes,
               u = [v EXCEPT !.due = Closer(v.due), !.deadline = Closer(v.deadline)]
        PROVE  v.key = u.key /\ v.status = "canceled"
    BY <2>3 DEF Invocation, Write
  <2>4. QED
    BY <2>1, <2>2, <2>3
<1>14. QED
  BY <1>4, <1>5, <1>6, <1>7, <1>8, <1>9, <1>10, <1>11, <1>12, <1>13 DEF Next, Step, SettlesRow

\* So the invariant is inductive, whatever the lease.
LEMMA KnownStep == TypeOK /\ CancelsKnown /\ [Next]_vars => CancelsKnown'
<1> SUFFICES ASSUME TypeOK, CancelsKnown, TypeOK', [Next]_vars PROVE CancelsKnown'
  BY TypeStep
<1>1. CASE Next
  <2> SUFFICES ASSUME NEW i \in Run, NEW u \in run'[i].writes, u.status = "canceled"
               PROVE  work'[u.key].status # "absent"
    BY DEF CancelsKnown
  <2>1. u.key \in Key
    BY DEF TypeOK, Invocation, Write
  <2>2. work[u.key].status # "absent"
    BY <1>1, CancelsCome DEF CancelsKnown
  <2>3. QED
    BY <1>1, <2>1, <2>2, ExistsStays
<1>2. CASE UNCHANGED vars
  BY <1>2 DEF vars, CancelsKnown
<1>3. QED
  BY <1>1, <1>2

\* The job a row stands for, status by status.
LEMMA BoardFacts ==
  ASSUME TypeOK, NEW k \in Key
  PROVE  /\ work[k].status \in {"pending", "retry"} <=> JobState[k] = "todo"
         /\ work[k].status = "running" <=> JobState[k] = "doing"
         /\ work[k].status = "absent" <=> JobState[k] = "none"
         /\ work[k].status = "completed" <=> JobState[k] = "done"
         /\ work[k].status = "canceled" <=> JobState[k] = "dropped"
         /\ JobHolder[k] = IF Running(k) THEN work[k].owner ELSE Gone
<1>1. work[k].status \in Status
  BY DEF TypeOK, Row
<1>2. QED
  BY <1>1 DEF JobState, JobOf, JobHolder, Status, Waiting, Running

\* A row that is nobody's business is written: its job is offered, withdrawn or left alone.
LEMMA BoardUpsert ==
  ASSUME TypeOK, TypeOK', NEW u \in Write, u.status = "canceled" => work[u.key].status # "absent",
         work' = Upsert(work, u)
  PROVE  Board!BoardNext \/ UNCHANGED Board!boardVars
<1> DEFINE j == u.key
<1>1. j \in Key /\ u.status \in {"pending", "canceled"}
  BY DEF Write
<1>2. \A k \in Key : IF k = j /\ work[k].status \notin {"completed", "running"}
                     THEN work'[k].status = u.status
                     ELSE work'[k] = work[k]
  BY UpsertFacts DEF TypeOK
<1>3. UNCHANGED JobHolder
  BY <1>1, <1>2 DEF JobHolder, Running
<1>4. \A k \in Key : k # j => (JobState')[k] = JobState[k]
  BY <1>2, BoardFacts DEF JobState, JobOf, Waiting, Running
<1>5. CASE work[j].status \in {"completed", "running"}
  <2>1. UNCHANGED JobState
    BY <1>2, <1>5 DEF JobState, JobOf, Waiting, Running
  <2>2. QED
    BY <2>1, <1>3 DEF Board!boardVars
<1>6. CASE work[j].status \notin {"completed", "running"} /\ u.status = "pending"
  <2>1. JobState' = [JobState EXCEPT ![j] = "todo"]
    BY <1>1, <1>2, <1>4, <1>6, ZenonT(40) DEF JobState, JobOf, Waiting, Running
  <2>2. JobState[j] \in {"none", "todo", "dropped"}
    BY <1>1, <1>6 DEF JobState, JobOf, Waiting, Running, TypeOK, Row, Status
  <2>3. Board!Offer(j)
    BY <2>1, <2>2, <1>3 DEF Board!Offer
  <2>4. QED
    BY <1>1, <2>3 DEF Board!BoardNext
<1>7. CASE work[j].status \notin {"completed", "running"} /\ u.status = "canceled"
  <2>1. JobState' = [JobState EXCEPT ![j] = "dropped"]
    BY <1>1, <1>2, <1>4, <1>7, ZenonT(40) DEF JobState, JobOf, Waiting, Running
  <2>2. JobState[j] \in {"todo", "dropped"}
    BY <1>1, <1>7 DEF JobState, JobOf, Waiting, Running, TypeOK, Row, Status
  <2>3. Board!WithdrawOffer(j)
    BY <2>1, <2>2, <1>3 DEF Board!WithdrawOffer
  <2>4. QED
    BY <1>1, <2>3 DEF Board!BoardNext
<1>8. QED
  BY <1>1, <1>5, <1>6, <1>7

\* A row is put down by its holder, or by somebody whose row it is not any more: no change.
LEMMA BoardSettle ==
  ASSUME TypeOK, TypeOK', NEW i \in Run, NEW k \in Key, SettlesRow(i, k)
  PROVE  Board!BoardNext \/ UNCHANGED Board!boardVars
<1>1. PICK status \in {"retry", "completed", "canceled"}, retryAt \in Int :
        work' = Finish(work, i, k, status, retryAt)
  BY SettleIsFinish
<1>2. CASE Running(k) /\ work[k].owner = i
  <2>1. /\ work'[k].status = status
        /\ \A j \in Key : j # k => work'[j] = work[j]
    BY <1>1, <1>2, FinishFacts, SMTT(30) DEF TypeOK, Running
  <2>2. \E result \in {"done", "todo", "dropped"} : JobState' = [JobState EXCEPT ![k] = result]
    BY <2>1 DEF JobState, JobOf, Waiting, Running
  <2>3. JobHolder' = [JobHolder EXCEPT ![k] = Gone]
    BY <2>1 DEF JobHolder, Running
  <2>4. JobState[k] = "doing" /\ JobHolder[k] = i
    BY <1>2 DEF JobState, JobOf, JobHolder, Waiting, Running
  <2>5. Board!PutDown(i, k)
    BY <2>2, <2>3, <2>4 DEF Board!PutDown
  <2>6. QED
    BY <2>5 DEF Board!BoardNext
<1>3. CASE ~(Running(k) /\ work[k].owner = i)
  <2>1. work' = work
    BY <1>1, <1>3 DEF Finish, Running
  <2>2. QED
    BY <2>1 DEF Board!boardVars, JobState, JobOf, JobHolder, Waiting, Running
<1>4. QED
  BY <1>2, <1>3

\* The rows a dispatch may cancel or claim are free: no live invocation holds them.
LEMMA DueIsFree ==
  ASSUME RunLimit < Lease, OwnInv, NEW i \in Run, NEW k \in Key,
         Waiting(k) \/ (Running(k) /\ Due(i, work[k].lease))
  PROVE  Board!Free(k)
<1>1. CASE Waiting(k)
  BY <1>1 DEF Board!Free, JobState, JobOf, Waiting
<1>2. CASE Running(k) /\ Due(i, work[k].lease)
  <2>1. work[k].owner \notin Run
    BY <1>2, NotDueYet
  <2>2. work[k].owner = Gone
    BY <2>1 DEF OwnInv, KeepInv, TypeOK, Row
  <2>3. QED
    BY <1>2, <2>2 DEF Board!Free, JobState, JobOf, JobHolder, Running, Waiting
<1>3. QED
  BY <1>1, <1>2

\* Every step of the queue is a step of the board, or none.
LEMMA BoardStep ==
  ASSUME RunLimit < Lease, OwnInv, OwnInv', CancelsKnown, Next
  PROVE  Board!BoardNext \/ UNCHANGED Board!boardVars
<1> USE DEF OwnInv, KeepInv
<1>1. ASSUME NEW i \in Run, CancelExpired(i) PROVE Board!BoardNext
  <2> DEFINE jobs == {k \in Key : Expired(i, k)}
  <2>1. \A k \in jobs : Board!Free(k)
    BY DueIsFree DEF Expired
  <2>2. \A k \in Key : IF k \in jobs THEN work'[k].status = "canceled" ELSE work'[k] = work[k]
    BY <1>1 DEF CancelExpired, TypeOK, Row
  <2>3. JobState' = [k \in Key |-> IF k \in jobs THEN "dropped" ELSE JobState[k]]
    BY <2>2 DEF JobState, JobOf, Waiting, Running
  <2>4. \A k \in jobs : JobHolder[k] = Gone
    BY <2>1 DEF Board!Free, JobState, JobOf, JobHolder, Waiting, Running
  <2>5. UNCHANGED JobHolder
    BY <2>2, <2>4 DEF JobHolder, Running
  <2>6. Board!Withdraw(jobs)
    BY <2>1, <2>3, <2>5 DEF Board!Withdraw
  <2>7. jobs \in SUBSET Key
    OBVIOUS
  <2>8. QED
    BY <2>6, <2>7 DEF Board!BoardNext
<1>2. ASSUME NEW i \in Run, ClaimDue(i) PROVE Board!BoardNext
  <2> DEFINE jobs == {k \in Key : Claimable(i, k)}
  <2>1. \A k \in jobs : Board!Free(k)
    BY DueIsFree DEF Claimable
  <2>2. \A k \in Key : IF k \in jobs THEN work'[k].status = "running" /\ work'[k].owner = i
                       ELSE work'[k] = work[k]
    BY <1>2 DEF ClaimDue, Claim, TypeOK, Row
  <2>3. JobState' = [k \in Key |-> IF k \in jobs THEN "doing" ELSE JobState[k]]
    BY <2>2 DEF JobState, JobOf, Waiting, Running
  <2>4. JobHolder' = [k \in Key |-> IF k \in jobs THEN i ELSE JobHolder[k]]
    BY <2>2 DEF JobHolder, Running
  <2>5. Board!Take(i, jobs)
    BY <2>1, <2>3, <2>4 DEF Board!Take
  <2>6. jobs \in SUBSET Key
    OBVIOUS
  <2>7. QED
    BY <2>5, <2>6 DEF Board!BoardNext
<1>3. ASSUME NEW i \in Run, Crash(i) PROVE Board!BoardNext
  <2>1. \A k \in Key : /\ work'[k].status = work[k].status
                       /\ work'[k].owner = IF work[k].owner = i THEN Gone ELSE work[k].owner
    BY <1>3 DEF Crash, TypeOK, Row
  <2>2. UNCHANGED JobState
    BY <2>1 DEF JobState, JobOf, Waiting, Running
  <2>3. JobHolder' = [k \in Key |-> IF JobHolder[k] = i THEN Gone ELSE JobHolder[k]]
    BY <2>1 DEF JobHolder, Running
  <2>4. Board!Vanish(i)
    BY <2>2, <2>3 DEF Board!Vanish
  <2>5. QED
    BY <2>4 DEF Board!BoardNext
<1>4. ASSUME NEW k \in Key, NEW due \in 0 .. 1, NEW deadline \in 0 .. Horizon,
             ManualReplan(k, due, deadline)
      PROVE  Board!BoardNext
  <2>1. /\ work[k].status = "absent" /\ work'[k].status = "pending"
        /\ \A j \in Key : j # k => work'[j] = work[j]
    BY <1>4 DEF ManualReplan, Exists, TypeOK, Row
  <2>2. JobState' = [JobState EXCEPT ![k] = "todo"]
    BY <2>1 DEF JobState, JobOf, Waiting, Running
  <2>3. UNCHANGED JobHolder
    BY <2>1 DEF JobHolder, Running
  <2>4. JobState[k] = "none"
    BY <2>1 DEF JobState, JobOf, Waiting, Running
  <2>5. Board!Offer(k)
    BY <2>2, <2>3, <2>4 DEF Board!Offer
  <2>6. QED
    BY <2>5 DEF Board!BoardNext
<1>5. ASSUME Tick \/ UNCHANGED work PROVE UNCHANGED Board!boardVars
  <2>1. ASSUME Tick, NEW k \in Key
        PROVE  work'[k].status = work[k].status /\ work'[k].owner = work[k].owner
    BY <2>1 DEF Tick, TypeOK, Row
  <2>2. \A k \in Key : work'[k].status = work[k].status /\ work'[k].owner = work[k].owner
    BY <1>5, <2>1
  <2>3. QED
    BY <2>2 DEF Board!boardVars, JobState, JobOf, JobHolder, Waiting, Running
<1>6. ASSUME NEW i \in Run, NEW due \in (-RunLimit) .. Horizon, EnsureDaily(i, due)
      PROVE  Board!BoardNext \/ UNCHANGED Board!boardVars
  <2> DEFINE u == [key |-> run[i].today, status |-> "pending", due |-> due, deadline |-> Never]
  <2>1. u \in Write
    BY InstantFacts DEF Write, Invocation, TypeOK
  <2>2. work' = Upsert(work, u)
    BY <1>6 DEF EnsureDaily
  <2>3. u.status # "canceled"
    OBVIOUS
  <2> HIDE DEF u
  <2>4. QED
    BY <2>1, <2>2, <2>3, BoardUpsert
<1>7. ASSUME NEW i \in Run, WriteRow(i) PROVE Board!BoardNext \/ UNCHANGED Board!boardVars
  <2>1. PICK u \in run[i].writes : work' = Upsert(work, u)
    BY <1>7 DEF WriteRow
  <2>2. u \in Write
    BY DEF TypeOK, Invocation
  <2>3. u.status = "canceled" => work[u.key].status # "absent"
    BY DEF CancelsKnown
  <2>4. QED
    BY <2>1, <2>2, <2>3, BoardUpsert
<1>8. ASSUME NEW i \in Run, NEW k \in Key, SettlesRow(i, k)
      PROVE  Board!BoardNext \/ UNCHANGED Board!boardVars
  BY <1>8, BoardSettle
<1>9. ASSUME NEW i \in Run,
             \/ \E k \in Key : Begin(i, k)
             \/ ReadTipoffLineup(i) \/ CollectPlanning(i) \/ CollectPostgame(i) \/ Interrupt(i)
      PROVE  UNCHANGED work
  BY <1>9 DEF Begin, ReadTipoffLineup, CollectPlanning, CollectPostgame, Interrupt
<1>10. QED
  BY <1>1, <1>2, <1>3, <1>4, <1>5, <1>6, <1>7, <1>8, <1>9 DEF Next, Step, SettlesRow

\* The table is a board of jobs, although its statements know only leases and instants: with the
\* timeout shorter than the lease, what a live invocation holds is taken, canceled or rewritten by
\* nobody else, and a job that is done is never offered again.
THEOREM QueueIsJobBoard ==
  ASSUME RunLimit < Lease
  PROVE  Spec => ImplementsJobBoard
<1>1. Init => Board!BoardInit
  BY DEF Init, Board!BoardInit, JobState, JobOf, JobHolder, Waiting, Running
<1>2. Init => CancelsKnown
  BY DEF Init, CancelsKnown, Resting
<1>3. Spec => []OwnInv
  BY OwnHolds
<1>4. OwnInv => TypeOK
  BY DEF OwnInv, KeepInv
<1>5. ASSUME OwnInv, OwnInv', CancelsKnown, [Next]_vars PROVE [Board!BoardNext]_(Board!boardVars)
  <2>1. CASE Next
    BY <1>5, <2>1, BoardStep
  <2>2. CASE UNCHANGED vars
    BY <2>2 DEF vars, Board!boardVars, JobState, JobOf, JobHolder, Waiting, Running
  <2>3. QED
    BY <1>5, <2>1, <2>2
<1>6. QED
  BY <1>1, <1>2, <1>3, <1>4, <1>5, KnownStep, PTL DEF Spec, ImplementsJobBoard, Board!BoardSpec
==============================================================================
