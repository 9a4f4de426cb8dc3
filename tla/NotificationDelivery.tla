------------------------- MODULE NotificationDelivery -------------------------
(***************************************************************************)
(* How advice reaches the owner's phone.  A sender (a plan, a postgame     *)
(* warning or the delay watchdog, or the retry of a delivery that failed)  *)
(* stores its recommendation, takes a claim on it for two minutes, sends,  *)
(* records what was tried and, if nothing succeeded, lets the claim go.    *)
(* Senders share only the database: the claim is a row of                  *)
(* delivery_attempts, aged by the clock its sender read when it began.     *)
(*                                                                         *)
(* Ages are in minutes.  Several senders may be at work: the cron and the  *)
(* queue consumer are separate invocations, and without a queue two        *)
(* dispatches can overlap.                                                 *)
(***************************************************************************)
EXTENDS Integers, Sequences

CONSTANTS
  Message,      \* recommendations to deliver
  Sender,       \* concurrent runs of NotificationLoop.run
  ClaimAge,     \* age at which a delivery claim may be taken over (2 minutes)
  SendLimit,    \* bound: how long a run may last before its invocation ends
  RowDelay,     \* least time until a retry row that was not finished is taken
                \* again: 5 minutes after a failure, what is left of the lease
                \* of 15 minutes after a termination (a run lasts 12 at most)
  MaxAttempt    \* bound: the attempt number a run may be expected to reach

ASSUME DeliveryAssumption ==
  /\ ClaimAge \in Nat \ {0}
  /\ SendLimit \in Nat
  /\ RowDelay \in Nat /\ RowDelay >= ClaimAge
  /\ MaxAttempt \in Nat

VARIABLES
  hasFallback,  \* whether a second provider is configured: never changes
  advice,       \* recommendations.status of each message
  lapsed,       \* the messages whose deadline has passed
  claim,        \* age of the claim row, or NoClaim
  tried,        \* the recorded delivery attempts
  retryRow,     \* the row delivery_retry:<message> of scheduled_work
  due,          \* minutes until a waiting retry row is due
  sender,       \* the runs
  arrived,      \* how often a message reached the owner (2 stands for more)
  unsure,       \* history: it reached the owner and nothing says so
  outlived,     \* history: a run was sending when its claim had aged
  contested     \* history: two runs were at work on it at once, or the run of a
                \* plan or a notice was terminated with the claim in hand

DeliveryVars == <<hasFallback, advice, lapsed, claim, tried, retryRow, due, sender,
                  arrived, unsure, outlived, contested>>
Histories == <<unsure, outlived, contested>>

NoClaim == -1
Provider == {"primary", "fallback"}
Kind == {"plan", "notice", "retry"}
Attempt == [index : Nat, provider : Provider, ok : BOOLEAN]
Outcome == [provider : Provider, ok : BOOLEAN]
Stage == {"idle", "look", "check", "claim", "primary", "fallback", "number",
          "record", "release", "enqueue"}
\* "got": this run's message has arrived and no success is recorded yet;
\* "raised": the run ends with an exception, not with a result.
SenderState ==
  [stage : Stage, kind : Kind, msg : Message, age : Nat, number : Nat,
   outcomes : Seq(Outcome), got : BOOLEAN, raised : BOOLEAN]
Idle(m) == [stage |-> "idle", kind |-> "notice", msg |-> m, age |-> 0,
            number |-> 0, outcomes |-> << >>, got |-> FALSE, raised |-> FALSE]

DeliveryTypeOK ==
  /\ hasFallback \in BOOLEAN
  /\ advice \in [Message -> {"absent", "pending", "closed"}]
  /\ lapsed \subseteq Message
  /\ claim \in [Message -> {NoClaim} \cup Nat]
  /\ tried \in [Message -> SUBSET Attempt]
  /\ retryRow \in [Message -> {"none", "waiting", "held", "completed", "canceled"}]
  /\ due \in [Message -> 0..RowDelay]
  /\ sender \in [Sender -> SenderState]
  /\ arrived \in [Message -> 0..2]
  /\ unsure \in [Message -> BOOLEAN]
  /\ outlived \in [Message -> BOOLEAN]
  /\ contested \in [Message -> BOOLEAN]

----------------------------------------------------------------------------
Delivered(m) == \E t \in tried[m] : t.ok
LastNumber(m) == IF tried[m] = {} THEN 0
                 ELSE CHOOSE n \in {t.index : t \in tried[m]} :
                        \A t \in tried[m] : t.index <= n
\* The claim's age is off by one minute.
TakeableWrongAge(m, age) == claim[m] = NoClaim \/ claim[m] + 1 >= ClaimAge + age

\* The claim is taken if there is none, or if it is old for this run's clock.
Takeable(m, age) == claim[m] = NoClaim \/ claim[m] >= ClaimAge + age

PerRun == IF hasFallback THEN 2 ELSE 1

Working(s) == sender[s].stage # "idle"
\* Between taking the claim and letting it go or succeeding.
InFlight(s) == sender[s].stage \in {"primary", "fallback", "number", "record", "release"}

Go(s, stage) == sender' = [sender EXCEPT ![s].stage = stage]
\* The run is over.  A retry leaves its queue row finished, or waiting for a
\* later dispatch.
End(s, row) ==
  LET m == sender[s].msg
      retries == sender[s].kind = "retry" IN
  /\ sender' = [sender EXCEPT ![s] = Idle(m)]
  /\ retryRow' = IF retries THEN [retryRow EXCEPT ![m] = row] ELSE retryRow
  /\ due' = IF retries /\ row = "waiting" THEN [due EXCEPT ![m] = RowDelay] ELSE due
\* Another run is at work on the same message.
Meets(s, m) == \E o \in Sender \ {s} : Working(o) /\ sender[o].msg = m

----------------------------------------------------------------------------
\* expire_recommendations closes what is pending past its deadline.
Expire(status) ==
  [m \in Message |-> IF m \in lapsed /\ status[m] = "pending" THEN "closed"
                     ELSE status[m]]

\* A plan or a notice: INSERT OR IGNORE decides whether the row is new, and a
\* new one is not looked up for earlier deliveries.
Begin(s, m, kind) ==
  /\ sender[s].stage = "idle"
  /\ m \notin lapsed
  /\ LastNumber(m) + PerRun <= MaxAttempt
  /\ advice' = [Expire(advice) EXCEPT ![m] = IF @ = "absent" THEN "pending" ELSE @]
  /\ sender' = [sender EXCEPT ![s] = [Idle(m) EXCEPT
       !.stage = IF advice[m] = "absent" THEN "claim" ELSE "check",
       !.kind = kind]]
  /\ contested' = [contested EXCEPT ![m] = @ \/ Meets(s, m)]
  /\ UNCHANGED <<lapsed, claim, tried, retryRow, due, arrived, unsure, outlived>>

\* A dispatch claims the queue row of a failed delivery.
BeginRetry(s, m) ==
  /\ sender[s].stage = "idle"
  /\ retryRow[m] = "waiting" /\ due[m] = 0
  /\ m \notin lapsed
  /\ LastNumber(m) + PerRun <= MaxAttempt
  /\ retryRow' = [retryRow EXCEPT ![m] = "held"]
  /\ sender' = [sender EXCEPT ![s] = [Idle(m) EXCEPT !.stage = "look", !.kind = "retry"]]
  /\ contested' = [contested EXCEPT ![m] = @ \/ Meets(s, m)]
  /\ UNCHANGED <<advice, lapsed, claim, tried, due, arrived, unsure, outlived>>

\* Advice that is closed or was delivered is not sent again.  Otherwise run
\* starts, with its own clock; past the deadline it refuses with an exception.
Look(s) == LET m == sender[s].msg IN
  /\ sender[s].stage = "look"
  /\ \/ /\ advice[m] # "pending"
        /\ End(s, "canceled") /\ UNCHANGED advice
     \/ /\ advice[m] = "pending" /\ Delivered(m)
        /\ End(s, "completed") /\ UNCHANGED advice
     \/ /\ advice[m] = "pending" /\ ~Delivered(m) /\ m \in lapsed
        /\ End(s, "waiting") /\ UNCHANGED advice
     \/ /\ advice[m] = "pending" /\ ~Delivered(m) /\ m \notin lapsed
        /\ advice' = Expire(advice)
        /\ sender' = [sender EXCEPT ![s].stage = "check", ![s].age = 0]
        /\ UNCHANGED <<retryRow, due>>
  /\ UNCHANGED <<lapsed, claim, tried, arrived, Histories>>

Check(s) ==
  /\ sender[s].stage = "check"
  /\ IF Delivered(sender[s].msg) THEN End(s, "completed")
     ELSE Go(s, "claim") /\ UNCHANGED <<retryRow, due>>
  /\ UNCHANGED <<advice, lapsed, claim, tried, arrived, Histories>>

\* claimed_at is the instant the run began, not the instant it claims.
TakeClaim(s) == LET m == sender[s].msg IN
  /\ sender[s].stage = "claim"
  /\ Takeable(m, sender[s].age)
  /\ claim' = [claim EXCEPT ![m] = sender[s].age]
  /\ outlived' = [outlived EXCEPT ![m] = @ \/ sender[s].age >= ClaimAge]
  /\ Go(s, "primary")
  /\ UNCHANGED <<advice, lapsed, tried, retryRow, due, arrived, unsure, contested>>

\* Somebody else is sending, or has: the run is a duplicate, and the row of a
\* retry is completed.
Refused(s) ==
  /\ sender[s].stage = "claim"
  /\ ~Takeable(sender[s].msg, sender[s].age)
  /\ End(s, "completed")
  /\ UNCHANGED <<advice, lapsed, claim, tried, arrived, Histories>>

\* A provider accepts the message, refuses it, or fails after the owner has
\* it (or a part of it).  The fallback is tried when the first one failed.
Send(s, stage) == LET m == sender[s].msg IN
  /\ sender[s].stage = stage
  /\ \E ok \in BOOLEAN, reached \in BOOLEAN :
       /\ ok => reached
       /\ arrived' = [arrived EXCEPT ![m] = IF reached /\ @ < 2 THEN @ + 1 ELSE @]
       /\ unsure' = [unsure EXCEPT ![m] = @ \/ (reached /\ ~ok)]
       /\ sender' = [sender EXCEPT
            ![s].outcomes = Append(@, [provider |-> stage, ok |-> ok]),
            ![s].got = ok,
            ![s].stage = IF ~ok /\ stage = "primary" /\ hasFallback
                         THEN "fallback" ELSE "number"]
  /\ UNCHANGED <<advice, lapsed, claim, tried, retryRow, due, outlived, contested>>
SendPrimary(s) == Send(s, "primary")
SendFallback(s) == Send(s, "fallback")

Number(s) ==
  /\ sender[s].stage = "number"
  /\ sender' = [sender EXCEPT ![s].stage = "record",
                              ![s].number = LastNumber(sender[s].msg) + 1]
  /\ UNCHANGED <<advice, lapsed, claim, tried, retryRow, due, arrived, Histories>>

\* One attempt is recorded.  Its identity is the message, the number and the
\* provider: a second row with the same identity is an error.
Identified(s) ==
  \E t \in tried[sender[s].msg] :
    t.index = sender[s].number /\ t.provider = Head(sender[s].outcomes).provider
\* The claim is let go after a success, too.
RecordWrongRelease(s) == LET m == sender[s].msg
                             next == Head(sender[s].outcomes)
                             rest == Tail(sender[s].outcomes) IN
  /\ sender[s].stage = "record"
  /\ ~(\E t \in tried[m] : t.index = sender[s].number /\ t.provider = next.provider)
  /\ tried' = [tried EXCEPT
       ![m] = @ \cup {[index |-> sender[s].number, provider |-> next.provider, ok |-> next.ok]}]
  /\ claim' = IF rest = << >> /\ next.ok THEN [claim EXCEPT ![m] = NoClaim] ELSE claim
  /\ IF rest = << >> /\ next.ok
     THEN End(s, "completed")
     ELSE /\ sender' = [sender EXCEPT ![s].outcomes = rest,
                          ![s].number = @ + 1,
                          ![s].stage = IF rest = << >> THEN "release" ELSE "record"]
          /\ UNCHANGED <<retryRow, due>>
  /\ UNCHANGED <<advice, lapsed, arrived, Histories>>

Record(s) == LET m == sender[s].msg
                 next == Head(sender[s].outcomes)
                 rest == Tail(sender[s].outcomes) IN
  /\ sender[s].stage = "record"
  /\ ~Identified(s)
  /\ tried' = [tried EXCEPT
       ![m] = @ \cup {[index |-> sender[s].number, provider |-> next.provider, ok |-> next.ok]}]
  /\ IF rest = << >> /\ next.ok
     THEN End(s, "completed")
     ELSE /\ sender' = [sender EXCEPT ![s].outcomes = rest,
                          ![s].number = @ + 1,
                          ![s].stage = IF rest = << >> THEN "release" ELSE "record"]
          /\ UNCHANGED <<retryRow, due>>
  /\ UNCHANGED <<advice, lapsed, claim, arrived, Histories>>

\* An exception: a token or an attempt that cannot be stored, a read that
\* fails.  Before the claim the run simply ends.
Raise(s) == LET m == sender[s].msg IN
  /\ \/ /\ sender[s].stage \in {"look", "check", "claim"}
        /\ End(s, "waiting")
     \/ /\ sender[s].stage \in {"primary", "number", "record"}
        /\ sender' = [sender EXCEPT ![s].stage = "release", ![s].raised = TRUE]
        /\ UNCHANGED <<retryRow, due>>
  /\ unsure' = [unsure EXCEPT ![m] = @ \/ sender[s].got]
  /\ UNCHANGED <<advice, lapsed, claim, tried, arrived, outlived, contested>>

\* The row of a retry that failed is completed.
ReleaseWrongDone(s) == LET m == sender[s].msg IN
  /\ sender[s].stage = "release"
  /\ claim' = [claim EXCEPT ![m] = NoClaim]
  /\ IF sender[s].kind = "plan" /\ ~sender[s].raised
     THEN Go(s, "enqueue") /\ UNCHANGED <<retryRow, due>>
     ELSE End(s, "completed")
  /\ UNCHANGED <<advice, lapsed, tried, arrived, Histories>>

\* The claim row is deleted by its id, whoever holds it.
Release(s) == LET m == sender[s].msg IN
  /\ sender[s].stage = "release"
  /\ claim' = [claim EXCEPT ![m] = NoClaim]
  /\ IF sender[s].kind = "plan" /\ ~sender[s].raised
     THEN Go(s, "enqueue") /\ UNCHANGED <<retryRow, due>>
     ELSE End(s, "waiting")
  /\ UNCHANGED <<advice, lapsed, tried, arrived, Histories>>

\* A plan's failed delivery gets a queue row, due at once, unless the row is
\* running or was completed before.
Enqueue(s) == LET m == sender[s].msg IN
  /\ sender[s].stage = "enqueue"
  /\ IF retryRow[m] \in {"held", "completed"} THEN UNCHANGED <<retryRow, due>>
     ELSE /\ retryRow' = [retryRow EXCEPT ![m] = "waiting"]
          /\ due' = [due EXCEPT ![m] = 0]
  /\ sender' = [sender EXCEPT ![s] = Idle(m)]
  /\ UNCHANGED <<advice, lapsed, claim, tried, arrived, Histories>>

\* The invocation is canceled or terminated: nothing is released, and its
\* queue row comes back after RowDelay at the earliest.
Die(s) == LET m == sender[s].msg IN
  /\ Working(s)
  /\ End(s, "waiting")
  /\ unsure' = [unsure EXCEPT ![m] = @ \/ sender[s].got]
  /\ contested' = [contested EXCEPT ![m] = @ \/ (InFlight(s) /\ sender[s].kind # "retry")]
  /\ UNCHANGED <<advice, lapsed, claim, tried, arrived, outlived>>

----------------------------------------------------------------------------
\* The owner answers, or newer advice replaces it.
Close(m) ==
  /\ advice[m] = "pending"
  /\ advice' = [advice EXCEPT ![m] = "closed"]
  /\ UNCHANGED <<lapsed, claim, tried, retryRow, due, sender, arrived, Histories>>

\* The deadline passes.
Lapse(m) ==
  /\ m \notin lapsed
  /\ lapsed' = lapsed \cup {m}
  /\ UNCHANGED <<advice, claim, tried, retryRow, due, sender, arrived, Histories>>

\* A dispatch cancels rows past their deadline before it claims any.
CancelRetry(m) ==
  /\ m \in lapsed
  /\ retryRow[m] = "waiting"
  /\ retryRow' = [retryRow EXCEPT ![m] = "canceled"]
  /\ UNCHANGED <<advice, lapsed, claim, tried, due, sender, arrived, Histories>>

Oldest == ClaimAge + SendLimit
\* A row that is overdue keeps counting down.
MinuteWrongOverdue ==
  /\ \A s \in Sender : Working(s) => sender[s].age < SendLimit
  /\ claim' = [m \in Message |-> IF claim[m] = NoClaim \/ claim[m] >= Oldest
                                 THEN claim[m] ELSE claim[m] + 1]
  /\ sender' = [s \in Sender |-> IF Working(s) THEN [sender[s] EXCEPT !.age = @ + 1]
                                 ELSE sender[s]]
  /\ due' = [m \in Message |-> due[m] - 1]
  /\ outlived' = [m \in Message |-> outlived[m] \/ \E s \in Sender :
       InFlight(s) /\ sender[s].msg = m /\ sender[s].age + 1 >= ClaimAge]
  /\ UNCHANGED <<advice, lapsed, tried, retryRow, arrived, unsure, contested>>

\* A minute passes.  A claim older than any run's reach stays as it is.
Minute ==
  /\ \A s \in Sender : Working(s) => sender[s].age < SendLimit
  /\ claim' = [m \in Message |-> IF claim[m] = NoClaim \/ claim[m] >= Oldest
                                 THEN claim[m] ELSE claim[m] + 1]
  /\ sender' = [s \in Sender |-> IF Working(s) THEN [sender[s] EXCEPT !.age = @ + 1]
                                 ELSE sender[s]]
  /\ due' = [m \in Message |-> IF due[m] > 0 THEN due[m] - 1 ELSE 0]
  /\ outlived' = [m \in Message |-> outlived[m] \/ \E s \in Sender :
       InFlight(s) /\ sender[s].msg = m /\ sender[s].age + 1 >= ClaimAge]
  /\ UNCHANGED <<advice, lapsed, tried, retryRow, arrived, unsure, contested>>

----------------------------------------------------------------------------
DeliveryInit ==
  /\ hasFallback \in BOOLEAN
  /\ advice = [m \in Message |-> "absent"]
  /\ lapsed = {}
  /\ claim = [m \in Message |-> NoClaim]
  /\ tried = [m \in Message |-> {}]
  /\ retryRow = [m \in Message |-> "none"]
  /\ due = [m \in Message |-> 0]
  /\ sender \in [Sender -> {Idle(m) : m \in Message}]
  /\ arrived = [m \in Message |-> 0]
  /\ unsure = [m \in Message |-> FALSE]
  /\ outlived = [m \in Message |-> FALSE]
  /\ contested = [m \in Message |-> FALSE]

SenderStep(s) ==
  \/ \E m \in Message, kind \in {"plan", "notice"} : Begin(s, m, kind)
  \/ \E m \in Message : BeginRetry(s, m)
  \/ Look(s) \/ Check(s) \/ TakeClaim(s) \/ Refused(s)
  \/ SendPrimary(s) \/ SendFallback(s) \/ Number(s) \/ Record(s)
  \/ Raise(s) \/ Release(s) \/ Enqueue(s) \/ Die(s)

DeliveryStep ==
  \/ \E s \in Sender : SenderStep(s)
  \/ \E m \in Message : Close(m) \/ Lapse(m) \/ CancelRetry(m)
  \/ Minute

DeliveryNext == DeliveryStep /\ UNCHANGED hasFallback

DeliverySpec == DeliveryInit /\ [][DeliveryNext]_DeliveryVars

----------------------------------------------------------------------------
\* The owner gets a message twice only if a provider failed after delivering,
\* a success was lost before it was recorded, or a run outlived its claim:
\* a recorded success, the age of a claim and its release leave no other way.
DuplicateHasCause ==
  \A m \in Message : arrived[m] >= 2 => unsure[m] \/ outlived[m]

\* Two runs are past the claim on one message only if one of them outlived
\* its claim, although a claim is released by its id and not by its owner.
OneSenderUnlessOutlived ==
  \A s, o \in Sender :
    /\ s # o /\ InFlight(s) /\ InFlight(o)
    /\ sender[s].msg = sender[o].msg
    => outlived[sender[s].msg]

\* The queue row of a failed delivery is completed only when the message was
\* delivered, unless another run was in its way: then it is completed as a
\* duplicate of a run that may still fail, and nothing revives it.
RetryEndsInDelivery ==
  \A m \in Message : retryRow[m] = "completed" => Delivered(m) \/ contested[m]
=============================================================================
