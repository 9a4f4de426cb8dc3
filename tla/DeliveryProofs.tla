------------------------------ MODULE DeliveryProofs ------------------------------
(***************************************************************************)
(* Two facts about delivery, for any number of runs, messages and          *)
(* providers' answers: two runs send one message together only if one of   *)
(* them outlived its claim, and the owner gets a message twice only for    *)
(* one of the reasons named in DuplicateHasCause.                          *)
(*                                                                         *)
(* The second is the longer argument.  Once a message has arrived for a    *)
(* reason that is not yet doubtful, whoever could send it again must       *)
(* either look up the recorded attempts, or is past that look and has to   *)
(* take the claim; but it looked while the claim was younger than          *)
(* ClaimAge, and the claim ages no faster than the run does (Once).        *)
(***************************************************************************)
EXTENDS NotificationDelivery, SequenceTheorems, TLAPS

\* tried[m] has a highest number: LastNumber(m) is well defined.
Numbered(m) ==
  tried[m] # {} => \E t \in tried[m] : \A u \in tried[m] : u.index <= t.index

\* A run that has sent has something to record; what it got is recorded last.
Reporting(s) == sender[s].stage \in {"number", "record"}
Reports(s) ==
  Reporting(s) =>
    /\ sender[s].outcomes # << >>
    /\ sender[s].got => sender[s].outcomes[Len(sender[s].outcomes)].ok

\* A run in flight holds the claim, and the claim is as old as the run.
OwnsClaim(s) ==
  LET m == sender[s].msg IN
  InFlight(s) /\ ~outlived[m] => claim[m] = sender[s].age /\ sender[s].age < ClaimAge

\* The recommendation of a run at work is stored.
StoredFirst(s) == Working(s) => advice[sender[s].msg] # "absent"

Certain(m) == ~unsure[m] /\ ~outlived[m]
Once(m) ==
  Certain(m) /\ arrived[m] >= 1 =>
    /\ arrived[m] = 1 /\ advice[m] # "absent" /\ claim[m] # NoClaim
    /\ \A s \in Sender : sender[s].msg = m /\ InFlight(s) => Reporting(s) /\ sender[s].got
    /\ \/ Delivered(m)
       \/ \E s \in Sender : sender[s].msg = m /\ Reporting(s) /\ sender[s].got
    /\ \A s \in Sender :
         sender[s].msg = m /\ sender[s].stage = "claim" => claim[m] < ClaimAge + sender[s].age

Shape ==
  /\ DeliveryTypeOK
  /\ \A m \in Message : Numbered(m)
  /\ \A s \in Sender : Reports(s)

\* What two runs and a message have to do with each other.
Claimed ==
  /\ \A s \in Sender : OwnsClaim(s) /\ StoredFirst(s)
  /\ OneSenderUnlessOutlived

DeliveryInv == Shape /\ Claimed /\ \A m \in Message : Once(m)

\* What has a queue row was stored first.
Queued == \A m \in Message : retryRow[m] # "none" => advice[m] # "absent"

\* Only s moves, and it stays with its message.
OnlyMoves(s) ==
  /\ sender'[s].msg = sender[s].msg
  /\ \A o \in Sender \ {s} : sender'[o] = sender[o]
\* A step has nothing to do with n.
Untouched(n) ==
  /\ advice'[n] = advice[n] /\ claim'[n] = claim[n] /\ tried'[n] = tried[n]
  /\ arrived'[n] = arrived[n] /\ unsure'[n] = unsure[n] /\ outlived'[n] = outlived[n]

----------------------------------------------------------------------------
LEMMA LastNumberType ==
  ASSUME Shape, NEW m \in Message
  PROVE  LastNumber(m) \in Nat
<1>1. CASE tried[m] = {}
  BY <1>1 DEF LastNumber
<1>2. CASE tried[m] # {}
  <2> DEFINE indices == {t.index : t \in tried[m]}
  <2>1. PICK t \in tried[m] : \A u \in tried[m] : u.index <= t.index
    BY <1>2 DEF Shape, Numbered
  <2>2. t.index \in indices /\ \A u \in tried[m] : u.index <= t.index
    BY <2>1
  <2>3. (CHOOSE n \in indices : \A u \in tried[m] : u.index <= n) \in indices
    BY <2>2
  <2>4. indices \subseteq Nat
    BY DEF Shape, DeliveryTypeOK, Attempt
  <2>5. QED
    BY <1>2, <2>3, <2>4 DEF LastNumber
<1>3. QED
  BY <1>1, <1>2

LEMMA IdleType ==
  ASSUME NEW m \in Message
  PROVE  Idle(m) \in SenderState
  BY DEF Idle, SenderState, Stage, Kind

\* A run that ends leaves its row in one of the states of a row.
LEMMA EndType ==
  ASSUME Shape, NEW s \in Sender, NEW row \in {"waiting", "completed", "canceled"},
         End(s, row)
  PROVE  /\ sender' \in [Sender -> SenderState]
         /\ retryRow' \in [Message -> {"none", "waiting", "held", "completed", "canceled"}]
         /\ due' \in [Message -> 0..RowDelay]
         /\ sender'[s] = Idle(sender[s].msg)
         /\ \A o \in Sender \ {s} : sender'[o] = sender[o]
<1> USE DEF Shape, DeliveryTypeOK
<1>1. sender[s].msg \in Message
  BY DEF SenderState
<1>2. Idle(sender[s].msg) \in SenderState
  BY <1>1, IdleType
<1>3. RowDelay \in 0..RowDelay
  BY DeliveryAssumption
<1>4. QED
  BY <1>1, <1>2, <1>3 DEF End

\* A run changes stage and nothing else.
LEMMA GoType ==
  ASSUME Shape, NEW s \in Sender, NEW stage \in Stage, Go(s, stage)
  PROVE  /\ sender' \in [Sender -> SenderState]
         /\ sender'[s] = [sender[s] EXCEPT !.stage = stage]
         /\ \A o \in Sender \ {s} : sender'[o] = sender[o]
<1> USE DEF Shape, DeliveryTypeOK
<1>1. sender[s] \in SenderState
  OBVIOUS
<1>2. [sender[s] EXCEPT !.stage = stage] \in SenderState
  BY <1>1 DEF SenderState
<1>3. QED
  BY <1>2 DEF Go

\* What a begun run is: new advice goes straight to the claim.
LEMMA BeginFacts ==
  ASSUME Shape, NEW s \in Sender, NEW m \in Message, NEW kind \in {"plan", "notice"},
         Begin(s, m, kind)
  PROVE  /\ sender' \in [Sender -> SenderState]
         /\ sender'[s].msg = m /\ sender'[s].age = 0 /\ sender'[s].kind = kind
         /\ sender'[s].stage = IF advice[m] = "absent" THEN "claim" ELSE "check"
         /\ \A o \in Sender \ {s} : sender'[o] = sender[o]
<1> DEFINE stage == IF advice[m] = "absent" THEN "claim" ELSE "check"
           run == [Idle(m) EXCEPT !.stage = stage, !.kind = kind]
<1>0. stage \in Stage /\ kind \in Kind /\ Idle(m) \in SenderState
  BY IdleType DEF Stage, Kind
<1>1. run \in SenderState
  <2> DEFINE idle == Idle(m)
  <2> HIDE DEF stage, idle
  <2>1. idle \in SenderState
    BY <1>0 DEF idle
  <2>2. [idle EXCEPT !.stage = stage, !.kind = kind] \in SenderState
    BY <1>0, <2>1 DEF SenderState
  <2>3. QED
    BY <2>2 DEF idle
<1>2. sender' = [sender EXCEPT ![s] = run] /\ sender \in [Sender -> SenderState]
  BY DEF Begin, Shape, DeliveryTypeOK
<1>3. run.msg = m /\ run.age = 0 /\ run.stage = stage /\ run.kind = kind
  BY DEF Idle
<1> HIDE DEF run
<1>4. QED
  BY <1>1, <1>2, <1>3

LEMMA RetryFacts ==
  ASSUME Shape, NEW s \in Sender, NEW m \in Message, BeginRetry(s, m)
  PROVE  /\ sender' \in [Sender -> SenderState]
         /\ sender'[s].msg = m /\ sender'[s].stage = "look" /\ sender'[s].age = 0
         /\ \A o \in Sender \ {s} : sender'[o] = sender[o]
<1> DEFINE run == [Idle(m) EXCEPT !.stage = "look", !.kind = "retry"]
<1>0. "look" \in Stage /\ "retry" \in Kind /\ Idle(m) \in SenderState
  BY IdleType DEF Stage, Kind
<1>1. run \in SenderState
  <2> DEFINE idle == Idle(m)
  <2> HIDE DEF idle
  <2>1. idle \in SenderState
    BY <1>0 DEF idle
  <2>2. [idle EXCEPT !.stage = "look", !.kind = "retry"] \in SenderState
    BY <1>0, <2>1 DEF SenderState
  <2>3. QED
    BY <2>2 DEF idle
<1>2. sender' = [sender EXCEPT ![s] = run] /\ sender \in [Sender -> SenderState]
  BY DEF BeginRetry, Shape, DeliveryTypeOK
<1>3. run.msg = m /\ run.stage = "look" /\ run.age = 0
  BY DEF Idle
<1> HIDE DEF run
<1>4. QED
  BY <1>1, <1>2, <1>3

\* A send appends its outcome, and a success is the last one.
LEMMA SendFacts ==
  ASSUME Shape, NEW s \in Sender, NEW stage \in Provider, Send(s, stage)
  PROVE  \E ok \in BOOLEAN, reached \in BOOLEAN :
           /\ ok => reached
           /\ arrived' = [arrived EXCEPT ![sender[s].msg] =
                IF reached /\ arrived[sender[s].msg] < 2 THEN arrived[sender[s].msg] + 1
                ELSE arrived[sender[s].msg]]
           /\ unsure' = [unsure EXCEPT ![sender[s].msg] =
                unsure[sender[s].msg] \/ (reached /\ ~ok)]
           /\ sender' \in [Sender -> SenderState]
           /\ sender'[s].msg = sender[s].msg /\ sender'[s].age = sender[s].age
           /\ sender'[s].stage \in {"fallback", "number"}
           /\ ok => sender'[s].stage = "number"
           /\ sender'[s].got = ok
           /\ Reports(s)'
           /\ \A o \in Sender \ {s} : sender'[o] = sender[o]
<1>1. PICK ok \in BOOLEAN, reached \in BOOLEAN :
        /\ ok => reached
        /\ arrived' = [arrived EXCEPT ![sender[s].msg] =
             IF reached /\ arrived[sender[s].msg] < 2 THEN arrived[sender[s].msg] + 1
             ELSE arrived[sender[s].msg]]
        /\ unsure' = [unsure EXCEPT ![sender[s].msg] =
             unsure[sender[s].msg] \/ (reached /\ ~ok)]
        /\ sender' = [sender EXCEPT
             ![s].outcomes = Append(sender[s].outcomes, [provider |-> stage, ok |-> ok]),
             ![s].got = ok,
             ![s].stage = IF ~ok /\ stage = "primary" /\ hasFallback
                          THEN "fallback" ELSE "number"]
  BY DEF Send
<1> DEFINE outcome == [provider |-> stage, ok |-> ok]
           outcomes == Append(sender[s].outcomes, outcome)
           next == IF ~ok /\ stage = "primary" /\ hasFallback THEN "fallback" ELSE "number"
           run == [sender[s] EXCEPT !.outcomes = outcomes, !.got = ok, !.stage = next]
<1>2. sender[s] \in SenderState /\ sender \in [Sender -> SenderState]
  BY DEF Shape, DeliveryTypeOK
<1>3. outcome \in Outcome /\ sender[s].outcomes \in Seq(Outcome)
  BY <1>2 DEF Outcome, SenderState
<1>4. /\ outcomes \in Seq(Outcome) /\ outcomes # << >>
      /\ outcomes[Len(outcomes)] = outcome
  BY <1>3, AppendProperties
<1>5. next \in {"fallback", "number"} /\ (ok => next = "number")
  OBVIOUS
<1> HIDE DEF outcomes, next
<1>6. run \in SenderState
  BY <1>2, <1>4, <1>5 DEF SenderState, Stage
<1>7. /\ run.msg = sender[s].msg /\ run.age = sender[s].age /\ run.stage = next
      /\ run.got = ok /\ run.outcomes = outcomes
  BY <1>2 DEF SenderState
<1>8. sender' = [sender EXCEPT ![s] = run]
  BY <1>1, <1>2 DEF outcomes, next
<1> HIDE DEF run
<1>9. /\ sender'[s] = run /\ sender' \in [Sender -> SenderState]
      /\ \A o \in Sender \ {s} : sender'[o] = sender[o]
  BY <1>2, <1>6, <1>8
<1>10. Reports(s)'
  BY <1>4, <1>7, <1>9 DEF Reports, outcome
<1>11. QED
  BY <1>1, <1>5, <1>7, <1>9, <1>10

LEMMA NumberFacts ==
  ASSUME Shape, NEW s \in Sender, Number(s)
  PROVE  /\ sender' \in [Sender -> SenderState]
         /\ sender'[s].msg = sender[s].msg /\ sender'[s].age = sender[s].age
         /\ sender'[s].stage = "record" /\ sender'[s].got = sender[s].got
         /\ sender'[s].outcomes = sender[s].outcomes
         /\ \A o \in Sender \ {s} : sender'[o] = sender[o]
<1> DEFINE number == LastNumber(sender[s].msg) + 1
           run == [sender[s] EXCEPT !.stage = "record", !.number = number]
<1>1. sender[s] \in SenderState /\ sender \in [Sender -> SenderState]
  BY DEF Shape, DeliveryTypeOK
<1>2. number \in Nat
  BY <1>1, LastNumberType DEF SenderState
<1> HIDE DEF number
<1>3. run \in SenderState
  BY <1>1, <1>2 DEF SenderState, Stage
<1>4. /\ run.msg = sender[s].msg /\ run.age = sender[s].age /\ run.stage = "record"
      /\ run.got = sender[s].got /\ run.outcomes = sender[s].outcomes
  BY <1>1 DEF SenderState
<1>5. sender' = [sender EXCEPT ![s] = run]
  BY <1>1 DEF Number, number
<1> HIDE DEF run
<1>6. QED
  BY <1>1, <1>3, <1>4, <1>5

\* Recording takes the first outcome off; the last one ends the run if it was
\* a success.
LEMMA RecordFacts ==
  ASSUME Shape, NEW s \in Sender, Record(s)
  PROVE  /\ sender' \in [Sender -> SenderState]
         /\ retryRow' \in [Message -> {"none", "waiting", "held", "completed", "canceled"}]
         /\ due' \in [Message -> 0..RowDelay]
         /\ \A o \in Sender \ {s} : sender'[o] = sender[o]
         /\ \E t \in Attempt :
              /\ tried' = [tried EXCEPT ![sender[s].msg] = tried[sender[s].msg] \cup {t}]
              /\ \/ sender'[s] = Idle(sender[s].msg) /\ t.ok
                 \/ /\ sender'[s].stage = "record"
                    /\ sender'[s].msg = sender[s].msg /\ sender'[s].age = sender[s].age
                    /\ sender'[s].got = sender[s].got
                    /\ Reports(s)'
                 \/ /\ sender'[s].stage = "release" /\ ~sender[s].got
                    /\ sender'[s].msg = sender[s].msg /\ sender'[s].age = sender[s].age
<1> DEFINE m == sender[s].msg
           outcomes == sender[s].outcomes
           next == Head(outcomes)
           rest == Tail(outcomes)
           t == [index |-> sender[s].number, provider |-> next.provider, ok |-> next.ok]
           stage == IF rest = << >> THEN "release" ELSE "record"
           run == [sender[s] EXCEPT !.outcomes = rest, !.number = sender[s].number + 1,
                                    !.stage = stage]
<1>1. sender[s] \in SenderState /\ sender \in [Sender -> SenderState]
  BY DEF Shape, DeliveryTypeOK
<1>2. outcomes \in Seq(Outcome) /\ outcomes # << >>
  BY <1>1 DEF Record, Shape, Reports, Reporting, SenderState
<1>3. /\ next \in Outcome /\ rest \in Seq(Outcome) /\ Len(rest) = Len(outcomes) - 1
      /\ \A i \in 1..Len(rest) : rest[i] = outcomes[i + 1]
  BY <1>2, HeadTailProperties
<1>4. sender[s].got => outcomes[Len(outcomes)].ok
  BY DEF Record, Shape, Reports, Reporting
<1>5. rest = << >> => (sender[s].got => next.ok)
  <2>1. next = outcomes[1]
    BY <1>2
  <2>2. rest = << >> => Len(outcomes) = 1
    <3> SUFFICES ASSUME rest = << >> PROVE Len(outcomes) = 1
      OBVIOUS
    <3>1. Len(outcomes) \in Nat
      BY <1>2, LenProperties
    <3>2. Len(rest) = Len(<< >>)
      OBVIOUS
    <3>3. Len(<< >>) = 0
      BY EmptySeq
    <3>4. Len(rest) = Len(outcomes) - 1
      BY <1>3
    <3> HIDE DEF rest, outcomes
    <3>5. QED
      BY <3>1, <3>2, <3>3, <3>4
  <2>3. QED
    BY <1>4, <2>1, <2>2
<1>6. rest # << >> => rest[Len(rest)] = outcomes[Len(outcomes)]
  BY <1>2, <1>3
<1>7. t \in Attempt
  BY <1>1, <1>3 DEF Attempt, Outcome, SenderState
<1>8. tried' = [tried EXCEPT ![m] = tried[m] \cup {t}]
  BY DEF Record
<1>9. \/ rest = << >> /\ next.ok /\ End(s, "completed")
      \/ /\ ~(rest = << >> /\ next.ok)
         /\ sender' = [sender EXCEPT ![s].outcomes = rest,
                         ![s].number = sender[s].number + 1, ![s].stage = stage]
         /\ UNCHANGED <<retryRow, due>>
  BY DEF Record
<1> HIDE DEF rest, next
<1>10. CASE rest = << >> /\ next.ok /\ End(s, "completed")
  <2>1. t.ok
    BY <1>10
  <2>2. /\ sender' \in [Sender -> SenderState]
        /\ retryRow' \in [Message -> {"none", "waiting", "held", "completed", "canceled"}]
        /\ due' \in [Message -> 0..RowDelay]
        /\ sender'[s] = Idle(m)
        /\ \A o \in Sender \ {s} : sender'[o] = sender[o]
    BY <1>10, EndType
  <2>3. QED
    BY <1>7, <1>8, <2>1, <2>2
<1>11. CASE /\ ~(rest = << >> /\ next.ok)
            /\ sender' = [sender EXCEPT ![s].outcomes = rest,
                            ![s].number = sender[s].number + 1, ![s].stage = stage]
            /\ UNCHANGED <<retryRow, due>>
  <2>1. stage \in Stage /\ sender[s].number + 1 \in Nat
    BY <1>1 DEF Stage, SenderState
  <2>2. run \in SenderState
    <3> HIDE DEF stage
    <3>1. QED
      BY <1>1, <1>3, <2>1 DEF SenderState
  <2>3. /\ run.msg = m /\ run.age = sender[s].age /\ run.stage = stage
        /\ run.got = sender[s].got /\ run.outcomes = rest
    BY <1>1 DEF SenderState
  <2>4. sender' = [sender EXCEPT ![s] = run]
    BY <1>1, <1>11
  <2> HIDE DEF run
  <2>5. /\ sender'[s] = run /\ sender' \in [Sender -> SenderState]
        /\ \A o \in Sender \ {s} : sender'[o] = sender[o]
    BY <1>1, <2>2, <2>4
  <2>6. CASE rest = << >>
    <3>1. sender'[s].stage = "release" /\ ~sender[s].got
      BY <1>5, <1>11, <2>3, <2>5, <2>6
    <3>2. QED
      BY <1>7, <1>8, <1>11, <2>3, <2>5, <3>1 DEF Shape, DeliveryTypeOK
  <2>7. CASE rest # << >>
    <3>1. sender'[s].stage = "record" /\ sender'[s].outcomes = rest
      BY <2>3, <2>5, <2>7
    <3>2. Reports(s)'
      BY <1>4, <1>6, <2>3, <2>5, <2>7, <3>1 DEF Reports
    <3>3. QED
      BY <1>7, <1>8, <1>11, <2>3, <2>5, <3>1, <3>2 DEF Shape, DeliveryTypeOK
  <2>8. QED
    BY <2>6, <2>7
<1>12. QED
  BY <1>9, <1>10, <1>11

LEMMA LookFacts ==
  ASSUME Shape, NEW s \in Sender, Look(s)
  PROVE  /\ sender' \in [Sender -> SenderState]
         /\ retryRow' \in [Message -> {"none", "waiting", "held", "completed", "canceled"}]
         /\ due' \in [Message -> 0..RowDelay]
         /\ sender'[s].msg = sender[s].msg /\ sender'[s].stage \in {"idle", "check"}
         /\ \A o \in Sender \ {s} : sender'[o] = sender[o]
<1>1. ASSUME NEW row \in {"waiting", "completed", "canceled"}, End(s, row)
      PROVE  /\ sender' \in [Sender -> SenderState]
             /\ retryRow' \in [Message -> {"none", "waiting", "held", "completed", "canceled"}]
             /\ due' \in [Message -> 0..RowDelay]
             /\ sender'[s].msg = sender[s].msg /\ sender'[s].stage = "idle"
             /\ \A o \in Sender \ {s} : sender'[o] = sender[o]
  <2>1. sender'[s] = Idle(sender[s].msg)
    BY <1>1, EndType
  <2>2. sender'[s].msg = sender[s].msg /\ sender'[s].stage = "idle"
    BY <2>1 DEF Idle
  <2>3. QED
    BY <1>1, <2>2, EndType
<1> DEFINE run == [sender[s] EXCEPT !.stage = "check", !.age = 0]
<1>2. ASSUME sender' = [sender EXCEPT ![s].stage = "check", ![s].age = 0],
             UNCHANGED <<retryRow, due>>
      PROVE  /\ sender' \in [Sender -> SenderState]
             /\ retryRow' \in [Message -> {"none", "waiting", "held", "completed", "canceled"}]
             /\ due' \in [Message -> 0..RowDelay]
             /\ sender'[s].msg = sender[s].msg /\ sender'[s].stage = "check"
             /\ \A o \in Sender \ {s} : sender'[o] = sender[o]
  <2>1. sender[s] \in SenderState /\ sender \in [Sender -> SenderState]
    BY DEF Shape, DeliveryTypeOK
  <2>2. run \in SenderState /\ run.msg = sender[s].msg /\ run.stage = "check"
    BY <2>1 DEF SenderState, Stage
  <2>3. sender' = [sender EXCEPT ![s] = run]
    BY <1>2, <2>1
  <2> HIDE DEF run
  <2>4. QED
    BY <1>2, <2>1, <2>2, <2>3 DEF Shape, DeliveryTypeOK
<1>3. \/ \E row \in {"waiting", "completed", "canceled"} : End(s, row)
      \/ /\ sender' = [sender EXCEPT ![s].stage = "check", ![s].age = 0]
         /\ UNCHANGED <<retryRow, due>>
  BY DEF Look
<1>4. QED
  BY <1>1, <1>2, <1>3

LEMMA RaiseFacts ==
  ASSUME Shape, NEW s \in Sender, Raise(s)
  PROVE  /\ sender' \in [Sender -> SenderState]
         /\ retryRow' \in [Message -> {"none", "waiting", "held", "completed", "canceled"}]
         /\ due' \in [Message -> 0..RowDelay]
         /\ sender'[s].msg = sender[s].msg
         /\ \/ ~InFlight(s) /\ sender'[s].stage = "idle"
            \/ InFlight(s) /\ sender'[s].stage = "release" /\ sender'[s].age = sender[s].age
         /\ \A o \in Sender \ {s} : sender'[o] = sender[o]
<1>1. CASE sender[s].stage \in {"look", "check", "claim"} /\ End(s, "waiting")
  <2>1. sender'[s] = Idle(sender[s].msg)
    BY <1>1, EndType
  <2>2. sender'[s].msg = sender[s].msg /\ sender'[s].stage = "idle"
    BY <2>1 DEF Idle
  <2>3. QED
    BY <1>1, <2>2, EndType DEF InFlight
<1> DEFINE run == [sender[s] EXCEPT !.stage = "release", !.raised = TRUE]
<1>2. CASE /\ sender[s].stage \in {"primary", "number", "record"}
           /\ sender' = [sender EXCEPT ![s].stage = "release", ![s].raised = TRUE]
           /\ UNCHANGED <<retryRow, due>>
  <2>1. sender[s] \in SenderState /\ sender \in [Sender -> SenderState]
    BY DEF Shape, DeliveryTypeOK
  <2>2. /\ run \in SenderState /\ run.msg = sender[s].msg /\ run.stage = "release"
        /\ run.age = sender[s].age
    BY <2>1 DEF SenderState, Stage
  <2>3. sender' = [sender EXCEPT ![s] = run]
    BY <1>2, <2>1
  <2> HIDE DEF run
  <2>4. QED
    BY <1>2, <2>1, <2>2, <2>3 DEF Shape, DeliveryTypeOK, InFlight
<1>3. QED
  BY <1>1, <1>2 DEF Raise

LEMMA MinuteFacts ==
  ASSUME Shape, Minute
  PROVE  /\ sender' \in [Sender -> SenderState]
         /\ \A s \in Sender :
              /\ sender'[s].msg = sender[s].msg /\ sender'[s].stage = sender[s].stage
              /\ sender'[s].got = sender[s].got /\ sender'[s].kind = sender[s].kind
              /\ sender'[s].outcomes = sender[s].outcomes
              /\ Working(s) => sender'[s].age = sender[s].age + 1
<1>1. sender \in [Sender -> SenderState]
  BY DEF Shape, DeliveryTypeOK
<1>2. sender' = [s \in Sender |-> IF Working(s) THEN [sender[s] EXCEPT !.age = sender[s].age + 1]
                                  ELSE sender[s]]
  BY DEF Minute
<1>3. ASSUME NEW s \in Sender
      PROVE  LET run == [sender[s] EXCEPT !.age = sender[s].age + 1] IN
             /\ run \in SenderState
             /\ run.msg = sender[s].msg /\ run.stage = sender[s].stage
             /\ run.got = sender[s].got /\ run.outcomes = sender[s].outcomes
             /\ run.age = sender[s].age + 1 /\ run.kind = sender[s].kind
  BY <1>1 DEF SenderState
<1>4. QED
  BY <1>1, <1>2, <1>3

----------------------------------------------------------------------------
\* The shape of a state, when one run at most moves and the attempts stay.
LEMMA ShapeKept ==
  ASSUME Shape, DeliveryTypeOK', tried' = tried,
         \A s \in Sender : sender'[s] = sender[s] \/ Reports(s)'
  PROVE  Shape'
<1>1. \A s \in Sender : Reports(s)'
  BY DEF Shape, Reports, Reporting
<1>2. QED
  BY <1>1 DEF Shape, Numbered

LEMMA AdviceType ==
  ASSUME Shape
  PROVE  /\ Expire(advice) \in [Message -> {"absent", "pending", "closed"}]
         /\ \A m \in Message : Expire(advice)[m] = "absent" <=> advice[m] = "absent"
  BY DEF Shape, DeliveryTypeOK, Expire

LEMMA ShapeOfSender ==
  ASSUME Shape, NEW s \in Sender, SenderStep(s), UNCHANGED hasFallback
  PROVE  Shape'
<1> USE DEF Shape, DeliveryTypeOK
<1>0. sender[s].msg \in Message /\ sender[s].age \in Nat /\ sender[s].got \in BOOLEAN
  BY DEF SenderState
<1>1. ASSUME NEW m \in Message, NEW kind \in {"plan", "notice"}, Begin(s, m, kind)
      PROVE  Shape'
  <2>1. DeliveryTypeOK'
    <3>1. advice' \in [Message -> {"absent", "pending", "closed"}]
      BY <1>1, AdviceType DEF Begin
    <3>2. contested' \in [Message -> BOOLEAN]
      BY <1>1 DEF Begin, Meets, Working
    <3>3. QED
      BY <1>1, <3>1, <3>2, BeginFacts DEF Begin
  <2>2. sender'[s].stage \in {"claim", "check"}
    BY <1>1, BeginFacts
  <2>3. Reports(s)'
    BY <2>2 DEF Reports, Reporting
  <2>4. tried' = tried /\ \A o \in Sender \ {s} : sender'[o] = sender[o]
    BY <1>1, BeginFacts DEF Begin
  <2> HIDE DEF Shape, DeliveryTypeOK
  <2>5. QED
    BY <2>1, <2>3, <2>4, ShapeKept
<1>2. ASSUME NEW m \in Message, BeginRetry(s, m) PROVE Shape'
  <2>1. DeliveryTypeOK'
    <3>1. contested' \in [Message -> BOOLEAN]
      BY <1>2 DEF BeginRetry, Meets, Working
    <3>2. QED
      BY <1>2, <3>1, RetryFacts DEF BeginRetry
  <2>2. Reports(s)'
    BY <1>2, RetryFacts DEF Reports, Reporting
  <2>3. tried' = tried /\ \A o \in Sender \ {s} : sender'[o] = sender[o]
    BY <1>2, RetryFacts DEF BeginRetry
  <2> HIDE DEF Shape, DeliveryTypeOK
  <2>4. QED
    BY <2>1, <2>2, <2>3, ShapeKept
<1>3. CASE Look(s)
  <2>1. DeliveryTypeOK'
    <3>1. advice' \in [Message -> {"absent", "pending", "closed"}]
      BY <1>3, AdviceType DEF Look
    <3>2. QED
      BY <1>3, <3>1, LookFacts DEF Look, Histories
  <2>2. Reports(s)'
    BY <1>3, LookFacts DEF Reports, Reporting
  <2>3. QED
    BY <1>3, <2>1, <2>2, LookFacts, ShapeKept DEF Look
<1>4. ASSUME NEW row \in {"waiting", "completed", "canceled"}, End(s, row),
             advice' = advice, lapsed' = lapsed, tried' = tried, arrived' = arrived,
             outlived' = outlived, claim' \in [Message -> {NoClaim} \cup Nat],
             unsure' \in [Message -> BOOLEAN], contested' \in [Message -> BOOLEAN]
      PROVE  Shape'
  <2>1. DeliveryTypeOK'
    BY <1>4, EndType
  <2>2. Reports(s)'
    <3>1. sender'[s] = Idle(sender[s].msg)
      BY <1>4, EndType
    <3>2. sender'[s].stage = "idle"
      BY <3>1 DEF Idle
    <3>3. QED
      BY <3>2 DEF Reports, Reporting
  <2>3. QED
    BY <1>4, <2>1, <2>2, EndType, ShapeKept
<1>5. ASSUME NEW stage \in Stage \ {"number", "record"}, Go(s, stage),
             retryRow' = retryRow, due' = due,
             advice' = advice, lapsed' = lapsed, tried' = tried, arrived' = arrived,
             claim' \in [Message -> {NoClaim} \cup Nat], unsure' = unsure,
             outlived' \in [Message -> BOOLEAN], contested' = contested
      PROVE  Shape'
  <2>1. DeliveryTypeOK'
    BY <1>5, GoType
  <2>2. sender'[s] = [sender[s] EXCEPT !.stage = stage]
    BY <1>5, GoType
  <2>3. sender'[s].stage = stage
    BY <2>2 DEF SenderState
  <2>4. Reports(s)'
    BY <1>5, <2>3 DEF Reports, Reporting
  <2>5. QED
    BY <1>5, <2>1, <2>4, GoType, ShapeKept
<1>6. CASE Check(s)
  <2>1. "claim" \in Stage \ {"number", "record"}
    BY DEF Stage
  <2>2. QED
    BY <1>4, <1>5, <1>6, <2>1 DEF Check, Histories
<1>7. CASE TakeClaim(s)
  <2>1. "primary" \in Stage \ {"number", "record"}
    BY DEF Stage
  <2>2. /\ claim' \in [Message -> {NoClaim} \cup Nat]
        /\ outlived' \in [Message -> BOOLEAN]
    BY <1>0, <1>7, DeliveryAssumption DEF TakeClaim
  <2>3. QED
    BY <1>5, <1>7, <2>1, <2>2 DEF TakeClaim
<1>8. CASE Refused(s)
  BY <1>4, <1>8 DEF Refused, Histories
<1>9. ASSUME NEW stage \in Provider, Send(s, stage) PROVE Shape'
  <2>1. /\ arrived' \in [Message -> 0..2] /\ unsure' \in [Message -> BOOLEAN]
        /\ sender' \in [Sender -> SenderState] /\ Reports(s)'
        /\ \A o \in Sender \ {s} : sender'[o] = sender[o]
    BY <1>0, <1>9, SendFacts
  <2>2. DeliveryTypeOK' /\ tried' = tried
    BY <1>9, <2>1 DEF Send
  <2>3. QED
    BY <2>1, <2>2, ShapeKept
<1>10. CASE Number(s)
  <2>1. DeliveryTypeOK' /\ tried' = tried
    BY <1>10, NumberFacts DEF Number, Histories
  <2>2. Reports(s)'
    <3>1. /\ sender'[s].got = sender[s].got
          /\ sender'[s].outcomes = sender[s].outcomes
      BY <1>10, NumberFacts
    <3>2. Reports(s) /\ Reporting(s)
      BY <1>10 DEF Number, Reporting
    <3>3. QED
      BY <3>1, <3>2 DEF Reports
  <2>3. QED
    BY <1>10, <2>1, <2>2, NumberFacts, ShapeKept
<1>11. CASE Record(s)
  <2>1. PICK t \in Attempt :
          /\ tried' = [tried EXCEPT ![sender[s].msg] = tried[sender[s].msg] \cup {t}]
          /\ \/ sender'[s] = Idle(sender[s].msg)
             \/ Reports(s)'
             \/ sender'[s].stage = "release"
    BY <1>11, RecordFacts
  <2>2. DeliveryTypeOK'
    <3>1. tried' \in [Message -> SUBSET Attempt]
      BY <1>0, <2>1
    <3>2. /\ sender' \in [Sender -> SenderState]
          /\ retryRow' \in [Message -> {"none", "waiting", "held", "completed", "canceled"}]
          /\ due' \in [Message -> 0..RowDelay]
      BY <1>11, RecordFacts
    <3>3. UNCHANGED <<advice, lapsed, claim, arrived, unsure, outlived, contested>>
      BY <1>11 DEF Record, Histories
    <3>4. QED
      BY <3>1, <3>2, <3>3
  <2>3. \A o \in Sender : Reports(o)'
    <3>1. \A o \in Sender \ {s} : sender'[o] = sender[o]
      BY <1>11, RecordFacts
    <3>2. \A o \in Sender \ {s} : Reports(o)'
      BY <3>1 DEF Reports, Reporting
    <3>3. sender'[s] = Idle(sender[s].msg) => sender'[s].stage = "idle"
      BY DEF Idle
    <3>4. Reports(s)'
      BY <2>1, <3>3 DEF Reports, Reporting
    <3>5. QED
      BY <3>2, <3>4
  <2>4. ASSUME NEW m \in Message PROVE Numbered(m)'
    <3>1. CASE m # sender[s].msg
      BY <2>1, <3>1 DEF Numbered
    <3>2. CASE m = sender[s].msg /\ tried[m] = {}
      BY <2>1, <3>2 DEF Numbered, Attempt
    <3>3. CASE m = sender[s].msg /\ tried[m] # {}
      <4>1. PICK u \in tried[m] : \A v \in tried[m] : v.index <= u.index
        BY <3>3 DEF Numbered
      <4>2. tried[m] \subseteq Attempt
        OBVIOUS
      <4>3. u.index \in Nat /\ t.index \in Nat /\ \A v \in tried[m] : v.index \in Nat
        BY <4>2 DEF Attempt
      <4>4. tried'[m] = tried[m] \cup {t}
        BY <2>1, <3>3
      <4>5. CASE u.index <= t.index
        BY <4>1, <4>3, <4>4, <4>5 DEF Numbered
      <4>6. CASE t.index <= u.index
        BY <4>1, <4>3, <4>4, <4>6 DEF Numbered
      <4>7. QED
        BY <4>3, <4>5, <4>6
    <3>4. QED
      BY <3>1, <3>2, <3>3
  <2>5. QED
    BY <2>2, <2>3, <2>4
<1>12. CASE Raise(s)
  <2>1. DeliveryTypeOK' /\ tried' = tried
    <3>1. unsure' \in [Message -> BOOLEAN]
      BY <1>0, <1>12 DEF Raise
    <3>2. QED
      BY <1>12, <3>1, RaiseFacts DEF Raise
  <2>2. Reports(s)'
    BY <1>12, RaiseFacts DEF Reports, Reporting
  <2>3. QED
    BY <1>12, <2>1, <2>2, RaiseFacts, ShapeKept
<1>13. CASE Release(s)
  <2>1. claim' \in [Message -> {NoClaim} \cup Nat]
    BY <1>0, <1>13 DEF Release
  <2>2. "enqueue" \in Stage \ {"number", "record"}
    BY DEF Stage
  <2>3. QED
    BY <1>4, <1>5, <1>13, <2>1, <2>2 DEF Release, Histories
<1>14. CASE Enqueue(s)
  <2>1. sender' = [sender EXCEPT ![s] = Idle(sender[s].msg)] /\ tried' = tried
    BY <1>14 DEF Enqueue
  <2>2. Idle(sender[s].msg) \in SenderState
    BY <1>0, IdleType
  <2>3. /\ retryRow' \in [Message -> {"none", "waiting", "held", "completed", "canceled"}]
        /\ due' \in [Message -> 0..RowDelay]
    BY <1>0, <1>14, DeliveryAssumption DEF Enqueue
  <2>4. DeliveryTypeOK'
    BY <1>14, <2>1, <2>2, <2>3 DEF Enqueue, Histories
  <2>5. Reports(s)'
    BY <2>1 DEF Idle, Reports, Reporting
  <2>6. QED
    BY <2>1, <2>4, <2>5, ShapeKept
<1>15. CASE Die(s)
  <2>1. /\ unsure' \in [Message -> BOOLEAN]
        /\ contested' \in [Message -> BOOLEAN]
    BY <1>0, <1>15 DEF Die, InFlight
  <2>2. QED
    BY <1>4, <1>15, <2>1 DEF Die
<1>16. QED
  BY <1>1, <1>2, <1>3, <1>6, <1>7, <1>8, <1>9, <1>10, <1>11, <1>12, <1>13, <1>14, <1>15
     DEF SenderStep, SendPrimary, SendFallback, Provider

LEMMA ShapeStep == Shape /\ [DeliveryNext]_DeliveryVars => Shape'
<1> SUFFICES ASSUME Shape, [DeliveryNext]_DeliveryVars PROVE Shape'
  OBVIOUS
<1> USE DEF Shape, DeliveryTypeOK
<1>1. CASE UNCHANGED DeliveryVars
  BY <1>1 DEF DeliveryVars, Numbered, Reports, Reporting
<1>2. ASSUME NEW s \in Sender, SenderStep(s), UNCHANGED hasFallback PROVE Shape'
  BY <1>2, ShapeOfSender
<1>3. ASSUME NEW m \in Message, Close(m) \/ Lapse(m) \/ CancelRetry(m), UNCHANGED hasFallback
      PROVE  Shape'
  <2>1. DeliveryTypeOK'
    BY <1>3 DEF Close, Lapse, CancelRetry, Histories
  <2>2. tried' = tried /\ sender' = sender
    BY <1>3 DEF Close, Lapse, CancelRetry
  <2>3. QED
    BY <2>1, <2>2, ShapeKept
<1>4. ASSUME Minute, UNCHANGED hasFallback PROVE Shape'
  <2>1. claim' \in [Message -> {NoClaim} \cup Nat] /\ due' \in [Message -> 0..RowDelay]
    BY <1>4, DeliveryAssumption DEF Minute
  <2>2. outlived' \in [Message -> BOOLEAN]
    BY <1>4 DEF Minute
  <2>3. DeliveryTypeOK'
    BY <1>4, <2>1, <2>2, MinuteFacts DEF Minute
  <2>4. \A s \in Sender : Reports(s)'
    BY <1>4, MinuteFacts DEF Reports, Reporting
  <2>5. QED
    BY <1>4, <2>3, <2>4, ShapeKept DEF Minute
<1>5. QED
  BY <1>1, <1>2, <1>3, <1>4 DEF DeliveryNext, DeliveryStep

----------------------------------------------------------------------------
\* A step of s does not concern the messages of other runs.
LEMMA OnceElsewhere ==
  ASSUME NEW s \in Sender, OnlyMoves(s),
         NEW n \in Message, n # sender[s].msg, Untouched(n), Once(n)
  PROVE  Once(n)'
<1>1. \A o \in Sender : sender'[o].msg = n => sender'[o] = sender[o]
  BY DEF OnlyMoves
<1>2. \A o \in Sender : sender[o].msg = n => sender'[o] = sender[o]
  BY DEF OnlyMoves
<1>3. /\ Certain(n)' <=> Certain(n)
      /\ Delivered(n)' <=> Delivered(n)
  BY DEF Untouched, Certain, Delivered
<1>4. QED
  BY <1>1, <1>2, <1>3 DEF Once, Untouched, InFlight, Reporting

\* A run in flight that goes on, or ends, takes nobody's claim.
LEMMA ClaimedKept ==
  ASSUME Shape, Claimed, NEW s \in Sender, OnlyMoves(s),
         advice' = advice, claim' = claim, outlived' = outlived,
         InFlight(s)' => InFlight(s) /\ sender'[s].age = sender[s].age,
         Working(s)' => Working(s)
  PROVE  Claimed'
<1>1. ASSUME NEW o \in Sender PROVE OwnsClaim(o)' /\ StoredFirst(o)'
  BY DEF Claimed, OnlyMoves, OwnsClaim, StoredFirst, InFlight, Working
<1>2. \A o \in Sender : sender'[o].msg = sender[o].msg /\ (InFlight(o)' => InFlight(o))
  BY DEF OnlyMoves, InFlight
<1>3. OneSenderUnlessOutlived'
  BY <1>2 DEF Claimed, OneSenderUnlessOutlived
<1>4. QED
  BY <1>1, <1>3 DEF Claimed

\* A run that is not in flight, neither before nor after, can only disturb a
\* message by reaching the claim.
LEMMA Outside ==
  ASSUME DeliveryInv, Shape', NEW s \in Sender, ~InFlight(s), ~InFlight(s)',
         \A o \in Sender \ {s} : sender'[o] = sender[o],
         claim' = claim, tried' = tried, arrived' = arrived, outlived' = outlived,
         \A m \in Message : unsure[m] => unsure'[m],
         \A m \in Message : advice'[m] = "absent" => advice[m] = "absent",
         StoredFirst(s)',
         sender'[s].stage = "claim" /\ Certain(sender'[s].msg)
           /\ arrived[sender'[s].msg] >= 1
           => claim[sender'[s].msg] < ClaimAge + sender'[s].age
  PROVE  DeliveryInv'
<1>0. \A o \in Sender : sender[o].msg \in Message /\ sender'[o].msg \in Message
  BY DEF DeliveryInv, Shape, DeliveryTypeOK, SenderState
<1>1. \A o \in Sender : OwnsClaim(o)'
  BY DEF DeliveryInv, Claimed, OwnsClaim, InFlight
<1>2. \A o \in Sender : StoredFirst(o)'
  BY <1>0 DEF DeliveryInv, Claimed, StoredFirst, Working
<1>3. OneSenderUnlessOutlived'
  BY DEF DeliveryInv, Claimed, OneSenderUnlessOutlived, InFlight
<1>4. ASSUME NEW m \in Message, Certain(m)', arrived'[m] >= 1 PROVE Once(m)'
  <2>1. Certain(m) /\ arrived[m] >= 1
    BY <1>4 DEF Certain
  <2>2. /\ arrived[m] = 1 /\ advice[m] # "absent" /\ claim[m] # NoClaim
        /\ \A o \in Sender : sender[o].msg = m /\ InFlight(o) => Reporting(o) /\ sender[o].got
        /\ \/ Delivered(m)
           \/ \E o \in Sender : sender[o].msg = m /\ Reporting(o) /\ sender[o].got
        /\ \A o \in Sender :
             sender[o].msg = m /\ sender[o].stage = "claim" => claim[m] < ClaimAge + sender[o].age
    BY <2>1 DEF DeliveryInv, Once
  <2>3. arrived'[m] = 1 /\ advice'[m] # "absent" /\ claim'[m] # NoClaim
    BY <2>2
  <2>4. \A o \in Sender : sender'[o].msg = m /\ InFlight(o)' => Reporting(o)' /\ sender'[o].got
    BY <2>2 DEF InFlight, Reporting
  <2>5. \/ Delivered(m)'
        \/ \E o \in Sender : sender'[o].msg = m /\ Reporting(o)' /\ sender'[o].got
    BY <2>2 DEF Delivered, InFlight, Reporting
  <2>6. \A o \in Sender : sender'[o].msg = m /\ sender'[o].stage = "claim"
                          => claim'[m] < ClaimAge + sender'[o].age
    BY <2>1, <2>2
  <2>7. QED
    BY <2>3, <2>4, <2>5, <2>6 DEF Once
<1>5. \A m \in Message : Once(m)'
  BY <1>4 DEF Once
<1>6. QED
  BY <1>1, <1>2, <1>3, <1>5 DEF DeliveryInv, Claimed

\* The message of a run that was sent to without doubt: nobody may send again.
LEMMA OnceSays ==
  ASSUME DeliveryInv, NEW s \in Sender, Certain(sender[s].msg), arrived[sender[s].msg] >= 1
  PROVE  /\ claim[sender[s].msg] # NoClaim
         /\ InFlight(s) => Reporting(s) /\ sender[s].got
         /\ sender[s].stage = "claim" => claim[sender[s].msg] < ClaimAge + sender[s].age
<1>1. sender[s].msg \in Message
  BY DEF DeliveryInv, Shape, DeliveryTypeOK, SenderState
<1>2. Once(sender[s].msg)
  BY <1>1 DEF DeliveryInv
<1>3. QED
  BY <1>2 DEF Once

LEMMA BeginStep ==
  ASSUME DeliveryInv, Shape', NEW s \in Sender, NEW m \in Message,
         NEW kind \in {"plan", "notice"}, Begin(s, m, kind)
  PROVE  DeliveryInv'
<1>0. Shape
  BY DEF DeliveryInv
<1>1. /\ sender'[s].msg = m /\ sender'[s].age = 0
      /\ sender'[s].stage = IF advice[m] = "absent" THEN "claim" ELSE "check"
      /\ \A o \in Sender \ {s} : sender'[o] = sender[o]
  BY <1>0, BeginFacts
<1>2. ~InFlight(s) /\ ~InFlight(s)'
  BY <1>1 DEF Begin, InFlight
<1>3. /\ \A n \in Message : advice'[n] = "absent" => advice[n] = "absent"
      /\ advice'[m] # "absent"
  BY <1>0, AdviceType DEF Begin
<1>4. StoredFirst(s)'
  BY <1>1, <1>3 DEF StoredFirst
<1>5. ~(Certain(m) /\ arrived[m] >= 1) \/ advice[m] # "absent"
  BY DEF DeliveryInv, Once
<1>6. sender'[s].stage = "claim" => advice[m] = "absent"
  BY <1>1
<1>7. /\ claim' = claim /\ tried' = tried /\ arrived' = arrived /\ outlived' = outlived
      /\ unsure' = unsure
  BY DEF Begin
<1>8. QED
  BY <1>1, <1>2, <1>3, <1>4, <1>5, <1>6, <1>7, Outside

LEMMA BeginRetryStep ==
  ASSUME DeliveryInv, Shape', NEW s \in Sender, NEW m \in Message, BeginRetry(s, m),
         advice[m] # "absent"
  PROVE  DeliveryInv'
<1>0. Shape
  BY DEF DeliveryInv
<1>1. /\ sender'[s].msg = m /\ sender'[s].stage = "look"
      /\ \A o \in Sender \ {s} : sender'[o] = sender[o]
  BY <1>0, RetryFacts
<1>2. ~InFlight(s) /\ ~InFlight(s)'
  BY <1>1 DEF BeginRetry, InFlight
<1>3. /\ claim' = claim /\ tried' = tried /\ arrived' = arrived /\ outlived' = outlived
      /\ unsure' = unsure /\ advice' = advice
  BY DEF BeginRetry
<1>4. StoredFirst(s)'
  BY <1>1, <1>3 DEF StoredFirst
<1>5. QED
  BY <1>1, <1>2, <1>3, <1>4, Outside

\* A run ends without having been in flight.
LEMMA EndOutside ==
  ASSUME DeliveryInv, Shape', NEW s \in Sender, ~InFlight(s),
         sender'[s] = Idle(sender[s].msg),
         \A o \in Sender \ {s} : sender'[o] = sender[o],
         claim' = claim, tried' = tried, arrived' = arrived, outlived' = outlived,
         \A m \in Message : unsure[m] => unsure'[m], advice' = advice
  PROVE  DeliveryInv'
<1>1. sender'[s].stage = "idle"
  BY DEF Idle
<1>2. ~InFlight(s)' /\ StoredFirst(s)'
  BY <1>1 DEF InFlight, StoredFirst, Working
<1>3. QED
  BY <1>1, <1>2, Outside

LEMMA LookStep ==
  ASSUME DeliveryInv, Shape', NEW s \in Sender, Look(s)
  PROVE  DeliveryInv'
<1>0. Shape
  BY DEF DeliveryInv
<1>1. /\ sender'[s].msg = sender[s].msg /\ sender'[s].stage \in {"idle", "check"}
      /\ \A o \in Sender \ {s} : sender'[o] = sender[o]
  BY <1>0, LookFacts
<1>2. ~InFlight(s) /\ ~InFlight(s)'
  BY <1>1 DEF Look, InFlight
<1>3. \A m \in Message : advice'[m] = "absent" => advice[m] = "absent"
  BY <1>0, AdviceType DEF Look
<1>4. sender[s].msg \in Message /\ advice[sender[s].msg] # "absent"
  BY <1>0 DEF Look, DeliveryInv, Claimed, StoredFirst, Working, Shape, DeliveryTypeOK,
              SenderState
<1>5. StoredFirst(s)'
  BY <1>1, <1>3, <1>4 DEF StoredFirst
<1>6. /\ claim' = claim /\ tried' = tried /\ arrived' = arrived /\ outlived' = outlived
      /\ unsure' = unsure
  BY DEF Look, Histories
<1>7. QED
  BY <1>1, <1>2, <1>3, <1>5, <1>6, Outside

\* The run that finds no success: whoever sent holds a young claim.
LEMMA CheckStep ==
  ASSUME DeliveryInv, Shape', NEW s \in Sender, Check(s)
  PROVE  DeliveryInv'
<1> DEFINE m == sender[s].msg
<1>0. Shape /\ sender[s].stage = "check"
  BY DEF DeliveryInv, Check
<1>1. /\ advice' = advice /\ claim' = claim /\ tried' = tried /\ arrived' = arrived
      /\ outlived' = outlived /\ unsure' = unsure
  BY DEF Check, Histories
<1>2. ~InFlight(s)
  BY <1>0 DEF InFlight
<1>3. CASE End(s, "completed")
  <2>1. /\ sender'[s] = Idle(m)
        /\ \A o \in Sender \ {s} : sender'[o] = sender[o]
    BY <1>0, <1>3, EndType
  <2>2. QED
    BY <1>1, <1>2, <2>1, EndOutside
<1>4. CASE ~Delivered(m) /\ Go(s, "claim")
  <2>1. /\ sender'[s] = [sender[s] EXCEPT !.stage = "claim"]
        /\ \A o \in Sender \ {s} : sender'[o] = sender[o]
    <3>1. "claim" \in Stage
      BY DEF Stage
    <3>2. QED
      BY <1>0, <1>4, <3>1, GoType
  <2>2. sender[s] \in SenderState
    BY <1>0 DEF Shape, DeliveryTypeOK
  <2>3. /\ sender'[s].stage = "claim" /\ sender'[s].msg = m
        /\ sender'[s].age = sender[s].age /\ m \in Message /\ sender[s].age \in Nat
    BY <2>1, <2>2 DEF SenderState
  <2>4. ~InFlight(s)'
    BY <2>3 DEF InFlight
  <2>5. StoredFirst(s)'
    BY <1>0, <1>1, <2>3 DEF StoredFirst, DeliveryInv, Claimed, Working
  <2>6. ASSUME Certain(m), arrived[m] >= 1 PROVE claim[m] < ClaimAge + sender[s].age
    <3>1. PICK o \in Sender : sender[o].msg = m /\ Reporting(o) /\ sender[o].got
      BY <1>4, <2>3, <2>6 DEF DeliveryInv, Once
    <3>2. InFlight(o) /\ ~outlived[m]
      BY <2>6, <3>1 DEF Reporting, InFlight, Certain
    <3>3. claim[m] = sender[o].age /\ sender[o].age < ClaimAge
      BY <3>1, <3>2 DEF DeliveryInv, Claimed, OwnsClaim
    <3>4. sender[o].age \in Nat
      BY <1>0 DEF Shape, DeliveryTypeOK, SenderState
    <3>5. QED
      BY <2>3, <3>3, <3>4, DeliveryAssumption
  <2>7. QED
    BY <1>1, <1>2, <2>1, <2>3, <2>4, <2>5, <2>6, Outside
<1>5. QED
  BY <1>3, <1>4 DEF Check

\* Of two runs in flight with one message, one outlived its claim.
LEMMA AloneInFlight ==
  ASSUME DeliveryInv, NEW s \in Sender, NEW o \in Sender, InFlight(s), InFlight(o),
         sender[o].msg = sender[s].msg, ~outlived[sender[s].msg]
  PROVE  o = s
BY DEF DeliveryInv, Claimed, OneSenderUnlessOutlived

\* A claim that can be taken is nobody's in flight, and nothing has arrived
\* without doubt: the claim would be younger than ClaimAge for this run.
LEMMA TakeClaimStep ==
  ASSUME DeliveryInv, Shape', NEW s \in Sender, TakeClaim(s)
  PROVE  DeliveryInv'
<1> DEFINE m == sender[s].msg
<1>0. Shape
  BY DEF DeliveryInv
<1>1. /\ sender[s] \in SenderState /\ m \in Message /\ sender[s].age \in Nat
      /\ claim \in [Message -> {NoClaim} \cup Nat] /\ outlived \in [Message -> BOOLEAN]
  BY <1>0 DEF Shape, DeliveryTypeOK, SenderState
<1>2. /\ sender[s].stage = "claim" /\ Takeable(m, sender[s].age)
      /\ claim' = [claim EXCEPT ![m] = sender[s].age]
      /\ outlived' = [outlived EXCEPT ![m] = outlived[m] \/ sender[s].age >= ClaimAge]
      /\ advice' = advice /\ tried' = tried /\ arrived' = arrived /\ unsure' = unsure
  BY DEF TakeClaim
<1>3. /\ sender'[s].stage = "primary" /\ sender'[s].msg = m
      /\ sender'[s].age = sender[s].age /\ \A o \in Sender \ {s} : sender'[o] = sender[o]
  <2>1. /\ sender'[s] = [sender[s] EXCEPT !.stage = "primary"]
        /\ \A o \in Sender \ {s} : sender'[o] = sender[o]
    <3>1. "primary" \in Stage /\ Go(s, "primary")
      BY DEF Stage, TakeClaim
    <3>2. QED
      BY <1>0, <3>1, GoType
  <2>2. QED
    BY <1>1, <2>1 DEF SenderState
<1>4. /\ claim'[m] = sender[s].age
      /\ outlived'[m] <=> (outlived[m] \/ sender[s].age >= ClaimAge)
      /\ \A n \in Message \ {m} : claim'[n] = claim[n] /\ outlived'[n] = outlived[n]
  BY <1>1, <1>2
<1>5. \A o \in Sender \ {s} : InFlight(o) /\ sender[o].msg = m => outlived[m]
  <2>1. SUFFICES ASSUME NEW o \in Sender \ {s}, InFlight(o), sender[o].msg = m, ~outlived[m]
                 PROVE  FALSE
    OBVIOUS
  <2>2. claim[m] = sender[o].age /\ sender[o].age < ClaimAge
    BY <2>1 DEF DeliveryInv, Claimed, OwnsClaim
  <2>3. sender[o].age \in Nat
    BY <1>0, <2>1 DEF Shape, DeliveryTypeOK, SenderState
  <2>4. QED
    BY <1>1, <1>2, <2>2, <2>3, DeliveryAssumption DEF Takeable, NoClaim
<1>6. \A o \in Sender : sender[o].msg \in Message
  BY <1>0 DEF Shape, DeliveryTypeOK, SenderState
<1>7. \A o \in Sender : OwnsClaim(o)'
  <2>1. OwnsClaim(s)'
    BY <1>1, <1>3, <1>4, DeliveryAssumption DEF OwnsClaim
  <2>2. ASSUME NEW o \in Sender \ {s}, sender[o].msg = m PROVE OwnsClaim(o)'
    BY <1>3, <1>4, <1>5, <2>2 DEF OwnsClaim, InFlight
  <2>3. ASSUME NEW o \in Sender \ {s}, sender[o].msg # m PROVE OwnsClaim(o)'
    BY <1>3, <1>4, <1>6, <2>3 DEF OwnsClaim, InFlight, DeliveryInv, Claimed
  <2>4. QED
    BY <2>1, <2>2, <2>3
<1>8. \A o \in Sender : StoredFirst(o)'
  BY <1>2, <1>3 DEF StoredFirst, Working, DeliveryInv, Claimed
<1>9. OneSenderUnlessOutlived'
  <2>1. SUFFICES ASSUME NEW u \in Sender, NEW v \in Sender, u # v,
                        InFlight(u)', InFlight(v)', sender'[u].msg = sender'[v].msg
                 PROVE  outlived'[sender'[u].msg]
    BY DEF OneSenderUnlessOutlived
  <2>2. CASE u = s \/ v = s
    BY <1>3, <1>4, <1>5, <2>1, <2>2 DEF InFlight
  <2>3. CASE u # s /\ v # s
    <3>1. outlived[sender[u].msg]
      BY <1>3, <2>1, <2>3 DEF DeliveryInv, Claimed, OneSenderUnlessOutlived, InFlight
    <3>2. QED
      BY <1>3, <1>4, <1>6, <2>3, <3>1
  <2>4. QED
    BY <2>2, <2>3
<1>10. ASSUME NEW n \in Message PROVE Once(n)'
  <2>1. CASE n # m
    <3>1. Untouched(n) /\ OnlyMoves(s) /\ Once(n)
      BY <1>2, <1>3, <1>4, <2>1 DEF Untouched, OnlyMoves, DeliveryInv
    <3>2. QED
      BY <2>1, <3>1, OnceElsewhere
  <2>2. CASE n = m
    <3>1. SUFFICES ASSUME Certain(n)', arrived'[n] >= 1 PROVE FALSE
      BY DEF Once
    <3>2. Certain(m) /\ arrived[m] >= 1
      BY <1>2, <1>4, <2>2, <3>1 DEF Certain
    <3>3. claim[m] # NoClaim /\ claim[m] < ClaimAge + sender[s].age
      BY <1>2, <3>2, OnceSays
    <3>4. QED
      BY <1>1, <1>2, <3>3, DeliveryAssumption DEF Takeable
  <2>3. QED
    BY <2>1, <2>2
<1>11. QED
  BY <1>7, <1>8, <1>9, <1>10 DEF DeliveryInv, Claimed

\* Nothing had arrived without doubt; if it does now, s says so.
LEMMA SendStep ==
  ASSUME DeliveryInv, Shape', NEW s \in Sender, NEW stage \in Provider, Send(s, stage)
  PROVE  DeliveryInv'
<1> DEFINE m == sender[s].msg
<1>0. Shape
  BY DEF DeliveryInv
<1>1. PICK ok \in BOOLEAN, reached \in BOOLEAN :
        /\ ok => reached
        /\ arrived' = [arrived EXCEPT ![m] =
             IF reached /\ arrived[m] < 2 THEN arrived[m] + 1 ELSE arrived[m]]
        /\ unsure' = [unsure EXCEPT ![m] = unsure[m] \/ (reached /\ ~ok)]
        /\ sender'[s].msg = m /\ sender'[s].age = sender[s].age
        /\ sender'[s].stage \in {"fallback", "number"}
        /\ ok => sender'[s].stage = "number"
        /\ sender'[s].got = ok
        /\ \A o \in Sender \ {s} : sender'[o] = sender[o]
  BY <1>0, SendFacts
<1>2. /\ sender[s].stage \in {"primary", "fallback"}
      /\ advice' = advice /\ claim' = claim /\ tried' = tried /\ outlived' = outlived
  BY DEF Send, Provider
<1>3. InFlight(s) /\ ~Reporting(s) /\ Working(s)
  BY <1>2 DEF InFlight, Reporting, Working
<1>4. OnlyMoves(s)
  BY <1>1 DEF OnlyMoves
<1>5. Claimed'
  BY <1>0, <1>1, <1>2, <1>3, <1>4, ClaimedKept DEF DeliveryInv
<1>6. /\ m \in Message /\ sender[s].age \in Nat /\ arrived \in [Message -> 0..2]
      /\ unsure \in [Message -> BOOLEAN] /\ \A o \in Sender : sender[o].age \in Nat
  BY <1>0 DEF Shape, DeliveryTypeOK, SenderState
<1>7. ASSUME NEW n \in Message PROVE Once(n)'
  <2>1. CASE n # m
    <3>1. Untouched(n) /\ Once(n)
      BY <1>1, <1>2, <1>6, <2>1 DEF Untouched, DeliveryInv
    <3>2. QED
      BY <1>4, <2>1, <3>1, OnceElsewhere
  <2>2. CASE n = m
    <3>1. SUFFICES ASSUME Certain(n)', arrived'[n] >= 1 PROVE Once(n)'
      BY DEF Once
    <3>2. Certain(m) /\ (reached => ok)
      BY <1>1, <1>2, <1>6, <2>2, <3>1 DEF Certain
    <3>3. ~(arrived[m] >= 1)
      BY <1>3, <3>2, OnceSays
    <3>4. arrived[m] = 0 /\ reached /\ ok /\ arrived'[m] = 1
      BY <1>1, <1>6, <2>2, <3>1, <3>2, <3>3
    <3>5. claim[m] = sender[s].age /\ sender[s].age < ClaimAge
      BY <1>3, <3>2 DEF DeliveryInv, Claimed, OwnsClaim, Certain
    <3>6. \A o \in Sender : sender'[o].msg = m /\ InFlight(o)' => o = s
      BY <1>1, <1>3, <3>2, AloneInFlight DEF Certain, InFlight
    <3>7. Reporting(s)' /\ sender'[s].got /\ sender'[s].msg = m
      BY <1>1, <3>4 DEF Reporting
    <3>8. advice'[m] # "absent"
      BY <1>2, <1>3 DEF DeliveryInv, Claimed, StoredFirst
    <3>9. claim'[m] # NoClaim
      BY <1>2, <1>6, <3>5 DEF NoClaim
    <3>10. \A o \in Sender : sender'[o].msg = m /\ sender'[o].stage = "claim"
                             => claim'[m] < ClaimAge + sender'[o].age
      BY <1>1, <1>2, <1>6, <3>5, DeliveryAssumption
    <3>11. QED
      BY <2>2, <3>4, <3>6, <3>7, <3>8, <3>9, <3>10 DEF Once
  <2>3. QED
    BY <2>1, <2>2
<1>8. Shape'
  OBVIOUS
<1>9. QED
  BY <1>5, <1>7, <1>8 DEF DeliveryInv

LEMMA NumberStep ==
  ASSUME DeliveryInv, Shape', NEW s \in Sender, Number(s)
  PROVE  DeliveryInv'
<1>0. Shape
  BY DEF DeliveryInv
<1>1. /\ sender'[s].msg = sender[s].msg /\ sender'[s].age = sender[s].age
      /\ sender'[s].stage = "record" /\ sender'[s].got = sender[s].got
      /\ \A o \in Sender \ {s} : sender'[o] = sender[o]
  BY <1>0, NumberFacts
<1>2. /\ sender[s].stage = "number"
      /\ advice' = advice /\ claim' = claim /\ tried' = tried /\ outlived' = outlived
      /\ arrived' = arrived /\ unsure' = unsure
  BY DEF Number, Histories
<1>3. OnlyMoves(s) /\ InFlight(s) /\ Working(s)
  BY <1>1, <1>2 DEF OnlyMoves, InFlight, Working
<1>4. Claimed'
  BY <1>0, <1>1, <1>2, <1>3, ClaimedKept DEF DeliveryInv
<1>5. \A o \in Sender : /\ sender'[o].msg = sender[o].msg /\ sender'[o].got = sender[o].got
                        /\ InFlight(o)' <=> InFlight(o)
                        /\ Reporting(o)' <=> Reporting(o)
                        /\ sender'[o].stage = "claim" <=> sender[o].stage = "claim"
                        /\ sender'[o].age = sender[o].age
  BY <1>1, <1>2 DEF InFlight, Reporting
<1>6. \A n \in Message : /\ Certain(n)' <=> Certain(n)
                         /\ Delivered(n)' <=> Delivered(n)
  BY <1>2 DEF Certain, Delivered
<1>7. ASSUME NEW n \in Message PROVE Once(n)'
  <2>1. Once(n)
    BY DEF DeliveryInv
  <2>2. QED
    BY <1>2, <1>5, <1>6, <2>1 DEF Once
<1>8. QED
  BY <1>4, <1>7 DEF DeliveryInv

\* An attempt is recorded: what got through is recorded before the run ends.
LEMMA RecordStep ==
  ASSUME DeliveryInv, Shape', NEW s \in Sender, Record(s)
  PROVE  DeliveryInv'
<1> DEFINE m == sender[s].msg
<1>0. Shape
  BY DEF DeliveryInv
<1>1. PICK t \in Attempt :
        /\ tried' = [tried EXCEPT ![m] = tried[m] \cup {t}]
        /\ \/ sender'[s] = Idle(m) /\ t.ok
           \/ /\ sender'[s].stage = "record"
              /\ sender'[s].msg = m /\ sender'[s].age = sender[s].age
              /\ sender'[s].got = sender[s].got
           \/ /\ sender'[s].stage = "release" /\ ~sender[s].got
              /\ sender'[s].msg = m /\ sender'[s].age = sender[s].age
  BY <1>0, RecordFacts
<1>2. /\ sender[s].stage = "record"
      /\ advice' = advice /\ claim' = claim /\ outlived' = outlived
      /\ arrived' = arrived /\ unsure' = unsure
  BY DEF Record, Histories
<1>3. Idle(m).stage = "idle" /\ Idle(m).msg = m
  BY DEF Idle
<1>4. \A o \in Sender \ {s} : sender'[o] = sender[o]
  BY <1>0, RecordFacts
<1>5. OnlyMoves(s) /\ InFlight(s) /\ Reporting(s) /\ Working(s)
  BY <1>1, <1>2, <1>3, <1>4 DEF OnlyMoves, InFlight, Working, Reporting
<1>6. Claimed'
  <2>1. InFlight(s)' => sender'[s].age = sender[s].age
    BY <1>1, <1>3 DEF InFlight
  <2>2. QED
    BY <1>0, <1>2, <1>5, <2>1, ClaimedKept DEF DeliveryInv
<1>7. m \in Message /\ tried \in [Message -> SUBSET Attempt]
  BY <1>0 DEF Shape, DeliveryTypeOK, SenderState
<1>8. ASSUME NEW n \in Message PROVE Once(n)'
  <2>1. CASE n # m
    <3>1. Untouched(n) /\ Once(n)
      BY <1>1, <1>2, <1>7, <2>1 DEF Untouched, DeliveryInv
    <3>2. QED
      BY <1>5, <2>1, <3>1, OnceElsewhere
  <2>2. CASE n = m
    <3>1. SUFFICES ASSUME Certain(n)', arrived'[n] >= 1 PROVE Once(n)'
      BY DEF Once
    <3>2. Certain(m) /\ arrived[m] >= 1
      BY <1>2, <2>2, <3>1 DEF Certain
    <3>3. /\ arrived[m] = 1 /\ advice[m] # "absent" /\ claim[m] # NoClaim
          /\ \A o \in Sender : sender[o].msg = m /\ InFlight(o) => Reporting(o) /\ sender[o].got
          /\ \A o \in Sender :
               sender[o].msg = m /\ sender[o].stage = "claim" => claim[m] < ClaimAge + sender[o].age
      BY <1>7, <3>2 DEF DeliveryInv, Once
    <3>4. sender[s].got
      BY <1>5, <3>3
    <3>5. \/ sender'[s].stage = "idle" /\ t.ok
          \/ sender'[s].stage = "record" /\ sender'[s].got
      BY <1>1, <1>3, <3>4
    <3>6. sender'[s].msg = m
      BY <1>1, <1>3
    <3>7. \A o \in Sender : sender'[o].msg = n /\ InFlight(o)' => Reporting(o)' /\ sender'[o].got
      BY <1>4, <2>2, <3>3, <3>5 DEF InFlight, Reporting
    <3>8. \/ Delivered(n)'
          \/ \E o \in Sender : sender'[o].msg = n /\ Reporting(o)' /\ sender'[o].got
      <4>1. tried'[n] = tried[n] \cup {t}
        BY <1>1, <1>7, <2>2
      <4>2. t.ok => Delivered(n)'
        BY <4>1 DEF Delivered
      <4>3. QED
        BY <2>2, <3>5, <3>6, <4>2 DEF Reporting
    <3>9. \A o \in Sender : sender'[o].msg = n /\ sender'[o].stage = "claim"
                            => claim'[n] < ClaimAge + sender'[o].age
      BY <1>2, <1>4, <2>2, <3>3, <3>5
    <3>10. QED
      BY <1>2, <2>2, <3>3, <3>7, <3>8, <3>9 DEF Once
  <2>3. QED
    BY <2>1, <2>2
<1>9. QED
  BY <1>6, <1>8 DEF DeliveryInv

\* A run that stops in flight, by an exception or at the end of its
\* invocation, leaves doubt about what it got through and did not record.
LEMMA StopStep ==
  ASSUME DeliveryInv, Shape', NEW s \in Sender, InFlight(s),
         sender'[s].msg = sender[s].msg,
         \/ sender'[s].stage = "idle"
         \/ sender'[s].stage = "release" /\ sender'[s].age = sender[s].age,
         \A o \in Sender \ {s} : sender'[o] = sender[o],
         unsure' = [unsure EXCEPT ![sender[s].msg] = unsure[sender[s].msg] \/ sender[s].got],
         advice' = advice, claim' = claim, tried' = tried, arrived' = arrived,
         outlived' = outlived
  PROVE  DeliveryInv'
<1> DEFINE m == sender[s].msg
<1>0. Shape
  BY DEF DeliveryInv
<1>1. OnlyMoves(s) /\ Working(s)
  BY DEF OnlyMoves, InFlight, Working
<1>2. Claimed'
  <2>1. InFlight(s)' => sender'[s].age = sender[s].age
    BY DEF InFlight
  <2>2. QED
    BY <1>0, <1>1, <2>1, ClaimedKept DEF DeliveryInv
<1>3. m \in Message /\ unsure \in [Message -> BOOLEAN]
  BY <1>0 DEF Shape, DeliveryTypeOK, SenderState
<1>4. ASSUME NEW n \in Message PROVE Once(n)'
  <2>1. CASE n # m
    <3>1. Untouched(n) /\ Once(n)
      BY <1>3, <2>1 DEF Untouched, DeliveryInv
    <3>2. QED
      BY <1>1, <2>1, <3>1, OnceElsewhere
  <2>2. CASE n = m
    <3>1. SUFFICES ASSUME Certain(n)', arrived'[n] >= 1 PROVE FALSE
      BY DEF Once
    <3>2. Certain(m) /\ arrived[m] >= 1 /\ ~sender[s].got
      BY <1>3, <2>2, <3>1 DEF Certain
    <3>3. QED
      BY <3>2, OnceSays
  <2>3. QED
    BY <2>1, <2>2
<1>5. QED
  BY <1>2, <1>4 DEF DeliveryInv

\* The claim that is let go was the run's own, unless it outlived it; and
\* nothing had got through without doubt.
LEMMA ReleaseStep ==
  ASSUME DeliveryInv, Shape', NEW s \in Sender, Release(s)
  PROVE  DeliveryInv'
<1> DEFINE m == sender[s].msg
<1>0. Shape /\ sender[s].stage = "release"
  BY DEF DeliveryInv, Release
<1>1. /\ m \in Message /\ sender[s] \in SenderState
      /\ claim \in [Message -> {NoClaim} \cup Nat]
      /\ \A o \in Sender : sender[o].msg \in Message
  BY <1>0 DEF Shape, DeliveryTypeOK, SenderState
<1>2. /\ claim' = [claim EXCEPT ![m] = NoClaim]
      /\ advice' = advice /\ tried' = tried /\ arrived' = arrived /\ unsure' = unsure
      /\ outlived' = outlived
      /\ Go(s, "enqueue") \/ End(s, "waiting")
  BY DEF Release, Histories
<1>3. /\ sender'[s].stage \in {"enqueue", "idle"} /\ sender'[s].msg = m
      /\ \A o \in Sender \ {s} : sender'[o] = sender[o]
  <2>1. CASE Go(s, "enqueue")
    <3>1. /\ sender'[s] = [sender[s] EXCEPT !.stage = "enqueue"]
          /\ \A o \in Sender \ {s} : sender'[o] = sender[o]
      <4>1. "enqueue" \in Stage
        BY DEF Stage
      <4>2. QED
        BY <1>0, <2>1, <4>1, GoType
    <3>2. QED
      BY <1>1, <3>1 DEF SenderState
  <2>2. CASE End(s, "waiting")
    <3>1. /\ sender'[s] = Idle(m)
          /\ \A o \in Sender \ {s} : sender'[o] = sender[o]
      BY <1>0, <2>2, EndType
    <3>2. QED
      BY <3>1 DEF Idle
  <2>3. QED
    BY <1>2, <2>1, <2>2
<1>4. InFlight(s) /\ ~InFlight(s)' /\ ~Reporting(s) /\ Working(s) /\ OnlyMoves(s)
  BY <1>0, <1>3 DEF InFlight, Reporting, Working, OnlyMoves
<1>5. ASSUME NEW o \in Sender PROVE OwnsClaim(o)'
  <2>1. CASE o = s
    BY <1>4, <2>1 DEF OwnsClaim
  <2>2. CASE o # s /\ sender[o].msg = m
    <3>1. InFlight(o) => outlived[m]
      BY <1>4, <2>2, AloneInFlight
    <3>2. QED
      BY <1>2, <1>3, <2>2, <3>1 DEF OwnsClaim, InFlight
  <2>3. CASE o # s /\ sender[o].msg # m
    <3>1. claim'[sender[o].msg] = claim[sender[o].msg]
      BY <1>1, <1>2, <2>3
    <3>2. QED
      BY <1>2, <1>3, <2>3, <3>1 DEF OwnsClaim, InFlight, DeliveryInv, Claimed
  <2>4. QED
    BY <2>1, <2>2, <2>3
<1>6. \A o \in Sender : StoredFirst(o)'
  BY <1>2, <1>3, <1>4 DEF StoredFirst, Working, DeliveryInv, Claimed
<1>7. OneSenderUnlessOutlived'
  BY <1>2, <1>3, <1>4 DEF OneSenderUnlessOutlived, DeliveryInv, Claimed, InFlight
<1>8. ASSUME NEW n \in Message PROVE Once(n)'
  <2>1. CASE n # m
    <3>1. Untouched(n) /\ Once(n)
      BY <1>1, <1>2, <2>1 DEF Untouched, DeliveryInv
    <3>2. QED
      BY <1>4, <2>1, <3>1, OnceElsewhere
  <2>2. CASE n = m
    <3>1. SUFFICES ASSUME Certain(n)', arrived'[n] >= 1 PROVE FALSE
      BY DEF Once
    <3>2. Certain(m) /\ arrived[m] >= 1
      BY <1>2, <2>2, <3>1 DEF Certain
    <3>3. QED
      BY <1>4, <3>2, OnceSays
  <2>3. QED
    BY <2>1, <2>2
<1>9. QED
  BY <1>5, <1>6, <1>7, <1>8 DEF DeliveryInv, Claimed

\* A claim and its run grow older together.
LEMMA MinuteStep ==
  ASSUME DeliveryInv, Shape', Minute
  PROVE  DeliveryInv'
<1>0. Shape
  BY DEF DeliveryInv
<1>1. /\ claim \in [Message -> {NoClaim} \cup Nat] /\ outlived \in [Message -> BOOLEAN]
      /\ \A s \in Sender : sender[s].msg \in Message /\ sender[s].age \in Nat
  BY <1>0 DEF Shape, DeliveryTypeOK, SenderState
<1>2. /\ claim' = [m \in Message |-> IF claim[m] = NoClaim \/ claim[m] >= Oldest
                                     THEN claim[m] ELSE claim[m] + 1]
      /\ outlived' = [m \in Message |-> outlived[m] \/ \E s \in Sender :
           InFlight(s) /\ sender[s].msg = m /\ sender[s].age + 1 >= ClaimAge]
      /\ advice' = advice /\ tried' = tried /\ arrived' = arrived /\ unsure' = unsure
  BY DEF Minute
<1>3. \A s \in Sender :
        /\ sender'[s].msg = sender[s].msg /\ sender'[s].stage = sender[s].stage
        /\ sender'[s].got = sender[s].got
        /\ Working(s) => sender'[s].age = sender[s].age + 1
  BY <1>0, MinuteFacts
<1>4. \A s \in Sender : /\ InFlight(s)' <=> InFlight(s)
                        /\ Reporting(s)' <=> Reporting(s)
                        /\ Working(s)' <=> Working(s)
                        /\ InFlight(s) => Working(s)
  BY <1>3 DEF InFlight, Reporting, Working
<1>5. \A m \in Message : ~outlived'[m] => ~outlived[m]
  BY <1>2
<1>6. ASSUME NEW s \in Sender PROVE OwnsClaim(s)'
  <2>1. SUFFICES ASSUME InFlight(s), ~outlived'[sender[s].msg]
                 PROVE  /\ claim'[sender[s].msg] = sender'[s].age
                        /\ sender'[s].age < ClaimAge
    BY <1>3, <1>4 DEF OwnsClaim
  <2>2. /\ claim[sender[s].msg] = sender[s].age /\ sender[s].age < ClaimAge
        /\ ~(sender[s].age + 1 >= ClaimAge)
    BY <1>1, <1>2, <1>5, <2>1 DEF OwnsClaim, DeliveryInv, Claimed
  <2>3. sender'[s].age = sender[s].age + 1
    BY <1>3, <1>4, <2>1
  <2>4. QED
    BY <1>1, <1>2, <2>2, <2>3, DeliveryAssumption DEF Oldest, NoClaim
<1>7. \A s \in Sender : StoredFirst(s)'
  BY <1>2, <1>3, <1>4 DEF StoredFirst, DeliveryInv, Claimed
<1>8. OneSenderUnlessOutlived'
  BY <1>1, <1>3, <1>4, <1>5 DEF OneSenderUnlessOutlived, DeliveryInv, Claimed
<1>9. ASSUME NEW n \in Message PROVE Once(n)'
  <2>1. SUFFICES ASSUME Certain(n)', arrived'[n] >= 1 PROVE Once(n)'
    BY DEF Once
  <2>2. Certain(n) /\ arrived[n] >= 1
    BY <1>2, <1>5, <2>1 DEF Certain
  <2>3. Once(n)
    BY DEF DeliveryInv
  <2>4. claim[n] # NoClaim /\ claim[n] \in Nat
    BY <1>1, <2>2, <2>3 DEF Once
  <2>5. claim'[n] # NoClaim /\ claim'[n] <= claim[n] + 1
    BY <1>2, <2>4 DEF NoClaim
  <2>6. ASSUME NEW s \in Sender, sender[s].msg = n, sender[s].stage = "claim"
        PROVE  claim'[n] < ClaimAge + sender'[s].age
    <3>1. claim[n] < ClaimAge + sender[s].age
      BY <2>2, <2>3, <2>6 DEF Once
    <3>2. sender'[s].age = sender[s].age + 1
      BY <1>3, <2>6 DEF Working
    <3>3. claim'[n] \in Nat
      BY <1>2, <2>4
    <3>4. QED
      BY <1>1, <2>4, <2>5, <3>1, <3>2, <3>3, DeliveryAssumption
  <2>7. Delivered(n)' <=> Delivered(n)
    BY <1>2 DEF Delivered
  <2>8. QED
    BY <1>2, <1>3, <1>4, <2>2, <2>3, <2>5, <2>6, <2>7 DEF Once
<1>10. QED
  BY <1>6, <1>7, <1>8, <1>9 DEF DeliveryInv, Claimed

----------------------------------------------------------------------------
LEMMA QueuedStep ==
  ASSUME DeliveryInv, Queued, [DeliveryNext]_DeliveryVars
  PROVE  Queued'
<1>0. /\ Shape
      /\ \A s \in Sender : sender[s].msg \in Message
      /\ advice \in [Message -> {"absent", "pending", "closed"}]
      /\ retryRow \in [Message -> {"none", "waiting", "held", "completed", "canceled"}]
      /\ \A s \in Sender : Working(s) => advice[sender[s].msg] # "absent"
  BY DEF DeliveryInv, Shape, DeliveryTypeOK, SenderState, Claimed, StoredFirst
<1>1. SUFFICES ASSUME \A m \in Message : advice'[m] = "absent" => advice[m] = "absent",
                      \/ retryRow' = retryRow
                      \/ \E m \in Message, row \in {"waiting", "held", "completed", "canceled"} :
                           /\ advice[m] # "absent"
                           /\ retryRow' = [retryRow EXCEPT ![m] = row]
               PROVE  Queued'
  <2>1. ASSUME NEW s \in Sender, NEW row \in {"waiting", "completed", "canceled"},
               Working(s), End(s, row)
        PROVE  \/ retryRow' = retryRow
               \/ \E m \in Message : \E r \in {"waiting", "held", "completed", "canceled"} :
                    /\ advice[m] # "absent"
                    /\ retryRow' = [retryRow EXCEPT ![m] = r]
    BY <1>0, <2>1 DEF End
  <2>2. \A m \in Message : advice'[m] = "absent" => advice[m] = "absent"
    <3>1. ASSUME NEW s \in Sender, SenderStep(s)
          PROVE  \A m \in Message : advice'[m] = "absent" => advice[m] = "absent"
      BY <1>0, <3>1, AdviceType
         DEF SenderStep, Begin, BeginRetry, Look, Check, TakeClaim, Refused, SendPrimary,
             SendFallback, Send, Number, Record, Raise, Release, Enqueue, Die
    <3>2. QED
      BY <1>0, <3>1 DEF DeliveryNext, DeliveryStep, DeliveryVars, Close, Lapse, CancelRetry, Minute
  <2>3. \/ retryRow' = retryRow
        \/ \E m \in Message : \E row \in {"waiting", "held", "completed", "canceled"} :
             /\ advice[m] # "absent"
             /\ retryRow' = [retryRow EXCEPT ![m] = row]
    <3>1. ASSUME NEW s \in Sender, SenderStep(s)
          PROVE  \/ retryRow' = retryRow
                 \/ \E row \in {"waiting", "completed", "canceled"} : Working(s) /\ End(s, row)
                 \/ \E m \in Message : \E row \in {"waiting", "held"} :
                      /\ advice[m] # "absent"
                      /\ retryRow' = [retryRow EXCEPT ![m] = row]
      <4>1. CASE \E m \in Message, kind \in {"plan", "notice"} : Begin(s, m, kind)
        BY <4>1 DEF Begin
      <4>2. CASE \E m \in Message : BeginRetry(s, m)
        BY <4>2 DEF BeginRetry, Queued
      <4>3. CASE Look(s) \/ Check(s) \/ TakeClaim(s) \/ Refused(s)
        BY <4>3 DEF Look, Check, TakeClaim, Refused, Working
      <4>4. CASE SendPrimary(s) \/ SendFallback(s) \/ Number(s) \/ Record(s)
        BY <4>4 DEF SendPrimary, SendFallback, Send, Number, Record, Working
      <4>5. CASE Raise(s) \/ Release(s) \/ Die(s)
        BY <4>5 DEF Raise, Release, Die, Working
      <4>6. CASE Enqueue(s)
        BY <1>0, <4>6 DEF Enqueue, Working
      <4>7. QED
        BY <3>1, <4>1, <4>2, <4>3, <4>4, <4>5, <4>6 DEF SenderStep
    <3>2. ASSUME NEW m \in Message, CancelRetry(m)
          PROVE  advice[m] # "absent" /\ retryRow' = [retryRow EXCEPT ![m] = "canceled"]
      BY <3>2 DEF CancelRetry, Queued
    <3>3. ASSUME NEW m \in Message, Close(m) \/ Lapse(m) PROVE retryRow' = retryRow
      BY <3>3 DEF Close, Lapse
    <3>4. Minute \/ UNCHANGED DeliveryVars => retryRow' = retryRow
      BY DEF Minute, DeliveryVars
    <3>5. QED
      BY <2>1, <3>1, <3>2, <3>3, <3>4 DEF DeliveryNext, DeliveryStep
  <2>4. QED
    BY <2>2, <2>3
<1>2. QED
  BY <1>0, <1>1 DEF Queued

LEMMA SenderInductive ==
  ASSUME DeliveryInv, Queued, Shape', NEW s \in Sender, SenderStep(s)
  PROVE  DeliveryInv'
<1>0. Shape
  BY DEF DeliveryInv
<1>1. ASSUME NEW m \in Message, NEW kind \in {"plan", "notice"}, Begin(s, m, kind)
      PROVE  DeliveryInv'
  BY <1>1, BeginStep
<1>2. ASSUME NEW m \in Message, BeginRetry(s, m) PROVE DeliveryInv'
  <2>1. advice[m] # "absent"
    BY <1>2 DEF BeginRetry, Queued
  <2>2. QED
    BY <1>2, <2>1, BeginRetryStep
<1>3. CASE Refused(s)
  <2>1. ~InFlight(s)
    BY <1>3 DEF Refused, InFlight
  <2>2. /\ sender'[s] = Idle(sender[s].msg)
        /\ \A o \in Sender \ {s} : sender'[o] = sender[o]
    BY <1>0, <1>3, EndType DEF Refused
  <2>3. /\ advice' = advice /\ claim' = claim /\ tried' = tried /\ arrived' = arrived
        /\ outlived' = outlived /\ unsure' = unsure
    BY <1>3 DEF Refused, Histories
  <2>4. QED
    BY <2>1, <2>2, <2>3, EndOutside
<1>4. CASE Enqueue(s)
  <2>1. ~InFlight(s)
    BY <1>4 DEF Enqueue, InFlight
  <2>2. /\ sender'[s] = Idle(sender[s].msg)
        /\ \A o \in Sender \ {s} : sender'[o] = sender[o]
    BY <1>0, <1>4 DEF Enqueue, Shape, DeliveryTypeOK
  <2>3. /\ advice' = advice /\ claim' = claim /\ tried' = tried /\ arrived' = arrived
        /\ outlived' = outlived /\ unsure' = unsure
    BY <1>4 DEF Enqueue, Histories
  <2>4. QED
    BY <2>1, <2>2, <2>3, EndOutside
<1>5. sender[s].msg \in Message /\ unsure \in [Message -> BOOLEAN]
  BY <1>0 DEF Shape, DeliveryTypeOK, SenderState
<1>6. CASE Raise(s)
  <2>1. /\ sender'[s].msg = sender[s].msg
        /\ \/ ~InFlight(s) /\ sender'[s].stage = "idle"
           \/ InFlight(s) /\ sender'[s].stage = "release" /\ sender'[s].age = sender[s].age
        /\ \A o \in Sender \ {s} : sender'[o] = sender[o]
    BY <1>0, <1>6, RaiseFacts
  <2>2. /\ unsure' = [unsure EXCEPT ![sender[s].msg] = unsure[sender[s].msg] \/ sender[s].got]
        /\ advice' = advice /\ claim' = claim /\ tried' = tried /\ arrived' = arrived
        /\ outlived' = outlived
    BY <1>6 DEF Raise
  <2>3. CASE InFlight(s)
    <3>1. sender'[s].stage = "release" /\ sender'[s].age = sender[s].age
      BY <2>1, <2>3
    <3>2. QED
      BY <2>1, <2>2, <2>3, <3>1, StopStep
  <2>4. CASE ~InFlight(s)
    <3>1. sender'[s].stage = "idle"
      BY <2>1, <2>4
    <3>2. ~InFlight(s)' /\ StoredFirst(s)' /\ sender'[s].stage # "claim"
      BY <3>1 DEF InFlight, StoredFirst, Working
    <3>3. \A m \in Message : unsure[m] => unsure'[m]
      BY <1>5, <2>2
    <3>4. QED
      BY <2>1, <2>2, <2>4, <3>2, <3>3, Outside
  <2>5. QED
    BY <2>3, <2>4
<1>7. CASE Die(s)
  <2>1. /\ sender'[s] = Idle(sender[s].msg)
        /\ \A o \in Sender \ {s} : sender'[o] = sender[o]
    BY <1>0, <1>7, EndType DEF Die
  <2>2. sender'[s].msg = sender[s].msg /\ sender'[s].stage = "idle"
    BY <2>1 DEF Idle
  <2>3. /\ unsure' = [unsure EXCEPT ![sender[s].msg] = unsure[sender[s].msg] \/ sender[s].got]
        /\ advice' = advice /\ claim' = claim /\ tried' = tried /\ arrived' = arrived
        /\ outlived' = outlived
    BY <1>7 DEF Die
  <2>4. CASE InFlight(s)
    BY <2>1, <2>2, <2>3, <2>4, StopStep
  <2>5. CASE ~InFlight(s)
    <3>1. \A m \in Message : unsure[m] => unsure'[m]
      BY <1>5, <2>3
    <3>2. QED
      BY <2>1, <2>3, <2>5, <3>1, EndOutside
  <2>6. QED
    BY <2>4, <2>5
<1>8. QED
  BY <1>1, <1>2, <1>3, <1>4, <1>6, <1>7, LookStep, CheckStep, TakeClaimStep, SendStep,
     NumberStep, RecordStep, ReleaseStep
     DEF SenderStep, SendPrimary, SendFallback, Provider

\* DeliveryInv and Queued are inductive.
LEMMA DeliveryInductive ==
  ASSUME DeliveryInv, Queued, [DeliveryNext]_DeliveryVars
  PROVE  DeliveryInv' /\ Queued'
<1>1. Shape' /\ Queued'
  BY ShapeStep, QueuedStep DEF DeliveryInv
<1>2. CASE \E s \in Sender : SenderStep(s)
  BY <1>1, <1>2, SenderInductive
<1>3. CASE Minute
  BY <1>1, <1>3, MinuteStep
<1>4. CASE (\E m \in Message : Close(m) \/ Lapse(m) \/ CancelRetry(m)) \/ UNCHANGED DeliveryVars
  <2>1. /\ sender' = sender /\ claim' = claim /\ tried' = tried /\ arrived' = arrived
        /\ outlived' = outlived /\ unsure' = unsure
    BY <1>4 DEF Close, Lapse, CancelRetry, Histories, DeliveryVars
  <2>2. \A m \in Message : advice'[m] = "absent" => advice[m] = "absent"
    BY <1>4 DEF Close, Lapse, CancelRetry, DeliveryVars, DeliveryInv, Shape, DeliveryTypeOK
  <2>3. \A s \in Sender : sender[s].msg \in Message
    BY DEF DeliveryInv, Shape, DeliveryTypeOK, SenderState
  <2>4. Claimed'
    BY <2>1, <2>2, <2>3 DEF DeliveryInv, Claimed, OwnsClaim, StoredFirst, InFlight, Working,
                            OneSenderUnlessOutlived
  <2>5. \A m \in Message : Once(m)'
    BY <2>1, <2>2 DEF DeliveryInv, Once, Certain, Delivered, InFlight, Reporting
  <2>6. QED
    BY <1>1, <2>4, <2>5 DEF DeliveryInv
<1>5. QED
  BY <1>1, <1>2, <1>3, <1>4 DEF DeliveryNext, DeliveryStep

LEMMA DeliveryStarts ==
  ASSUME DeliveryInit
  PROVE  DeliveryInv /\ Queued
<1>1. \A s \in Sender : \E m \in Message : sender[s] = Idle(m)
  BY DEF DeliveryInit
<1>2. ASSUME NEW s \in Sender
      PROVE  sender[s] \in SenderState /\ sender[s].stage = "idle"
  <2>1. PICK m \in Message : sender[s] = Idle(m)
    BY <1>1
  <2>2. Idle(m).stage = "idle"
    BY DEF Idle
  <2>3. QED
    BY <2>1, <2>2, IdleType
<1>3. sender \in [Sender -> SenderState]
  BY <1>2 DEF DeliveryInit
<1>4. DeliveryTypeOK
  BY <1>3, DeliveryAssumption DEF DeliveryInit, DeliveryTypeOK
<1>5. Shape
  BY <1>2, <1>4 DEF Shape, Numbered, Reports, Reporting, DeliveryInit
<1>6. Claimed
  BY <1>2 DEF Claimed, OwnsClaim, StoredFirst, OneSenderUnlessOutlived, InFlight, Working
<1>7. \A m \in Message : Once(m)
  BY DEF Once, DeliveryInit
<1>8. QED
  BY <1>5, <1>6, <1>7 DEF DeliveryInv, Queued, DeliveryInit

LEMMA DeliveryInvariant == DeliverySpec => [](DeliveryInv /\ Queued)
<1>1. DeliveryInit => DeliveryInv /\ Queued
  BY DeliveryStarts
<1>2. (DeliveryInv /\ Queued) /\ [DeliveryNext]_DeliveryVars => (DeliveryInv /\ Queued)'
  BY DeliveryInductive
<1>3. QED
  BY <1>1, <1>2, PTL DEF DeliverySpec

----------------------------------------------------------------------------
(* A retry's row *)

\* A claim that nobody in flight holds was left by a retry that was terminated: by the time
\* its row is due the claim has aged.
Ages(m) == claim[m] >= Oldest \/ claim[m] + due[m] >= RowDelay

\* How a run stands to its message while nobody disputes it.
Orderly(s) ==
  LET m == sender[s].msg IN
  /\ claim[m] # NoClaim => Ages(m) \/ InFlight(s)
  /\ sender[s].stage = "enqueue" => claim[m] = NoClaim
  /\ sender[s].kind = "retry" /\ sender[s].stage \in {"look", "check", "claim"}
       => Takeable(m, sender[s].age)
  /\ retryRow[m] # "completed"

\* Undelivered and undisputed.
Quiet(m) == ~contested[m] /\ ~Delivered(m)
Calm(m) ==
  Quiet(m) =>
    /\ \A s, o \in Sender : /\ Working(s) /\ sender[s].msg = m
                            /\ Working(o) /\ sender[o].msg = m
                            => s = o
    /\ claim[m] # NoClaim => Ages(m) \/ \E s \in Sender : sender[s].msg = m /\ InFlight(s)
    /\ \A s \in Sender : Working(s) /\ sender[s].msg = m => Orderly(s)
    /\ retryRow[m] # "completed"

\* A step that leaves n alone.
LeavesAlone(n) ==
  /\ claim'[n] = claim[n] /\ due'[n] = due[n] /\ retryRow'[n] = retryRow[n]
  /\ tried'[n] = tried[n] /\ contested'[n] = contested[n]

LEMMA FlightIsWork ==
  ASSUME NEW s \in Sender
  PROVE  InFlight(s) => Working(s)
  BY DEF InFlight, Working

\* What a run does concerns its message, and a run at work stays with it.
LEMMA RunConcernsItsMessage ==
  ASSUME Shape, NEW s \in Sender, SenderStep(s)
  PROVE  /\ sender'[s].msg \in Message
         /\ Working(s) => sender'[s].msg = sender[s].msg
         /\ \A o \in Sender \ {s} : sender'[o] = sender[o]
         /\ \A n \in Message : n # sender'[s].msg => LeavesAlone(n)
         /\ \A n \in Message : Quiet(n)' => Quiet(n)
<1> DEFINE m == sender[s].msg
           Moved == /\ sender'[s].msg \in Message
                    /\ Working(s) => sender'[s].msg = m
                    /\ \A o \in Sender \ {s} : sender'[o] = sender[o]
           Framed(k) == \A n \in Message : n # k => LeavesAlone(n)
           Grows == \A n \in Message : /\ contested[n] => contested'[n]
                                       /\ tried[n] \subseteq tried'[n]
<1> USE DEF Shape, DeliveryTypeOK
<1>0. m \in Message /\ sender[s] \in SenderState /\ sender \in [Sender -> SenderState]
  BY DEF SenderState
<1>a. ASSUME NEW row \in {"waiting", "completed", "canceled"}, End(s, row)
      PROVE  /\ sender'[s].msg = m /\ \A o \in Sender \ {s} : sender'[o] = sender[o]
             /\ \A n \in Message \ {m} : retryRow'[n] = retryRow[n] /\ due'[n] = due[n]
  <2>1. sender'[s] = Idle(m) /\ \A o \in Sender \ {s} : sender'[o] = sender[o]
    BY <1>a, EndType
  <2>2. sender'[s].msg = m
    BY <2>1 DEF Idle
  <2>3. \A n \in Message \ {m} : retryRow'[n] = retryRow[n] /\ due'[n] = due[n]
    BY <1>a DEF End
  <2>4. QED
    BY <2>1, <2>2, <2>3
<1>b. ASSUME NEW stage \in Stage, Go(s, stage)
      PROVE  sender'[s].msg = m /\ \A o \in Sender \ {s} : sender'[o] = sender[o]
  BY <1>0, <1>b, GoType DEF SenderState
<1>c. SUFFICES Moved /\ Framed(sender'[s].msg) /\ Grows
  BY DEF Quiet, Delivered
<1>1. ASSUME NEW k \in Message, NEW kind \in {"plan", "notice"}, Begin(s, k, kind)
      PROVE  Moved /\ Framed(sender'[s].msg) /\ Grows
  <2>1. sender'[s].msg = k /\ \A o \in Sender \ {s} : sender'[o] = sender[o]
    BY <1>1, BeginFacts
  <2>2. ~Working(s) /\ Framed(k) /\ Grows
    BY <1>1 DEF Begin, Working, LeavesAlone
  <2>3. QED
    BY <2>1, <2>2
<1>2. ASSUME NEW k \in Message, BeginRetry(s, k)
      PROVE  Moved /\ Framed(sender'[s].msg) /\ Grows
  <2>1. sender'[s].msg = k /\ \A o \in Sender \ {s} : sender'[o] = sender[o]
    BY <1>2, RetryFacts
  <2>2. ~Working(s) /\ Framed(k) /\ Grows
    BY <1>2 DEF BeginRetry, Working, LeavesAlone
  <2>3. QED
    BY <2>1, <2>2
<1>3. CASE Look(s)
  <2>1. sender'[s].msg = m /\ \A o \in Sender \ {s} : sender'[o] = sender[o]
    BY <1>3, LookFacts
  <2>2. \A n \in Message \ {m} : retryRow'[n] = retryRow[n] /\ due'[n] = due[n]
    BY <1>3, <1>a DEF Look
  <2>3. claim' = claim /\ tried' = tried /\ contested' = contested
    BY <1>3 DEF Look, Histories
  <2>4. QED
    BY <1>0, <2>1, <2>2, <2>3 DEF LeavesAlone
<1>4. CASE Check(s)
  <2>1. /\ sender'[s].msg = m /\ \A o \in Sender \ {s} : sender'[o] = sender[o]
        /\ \A n \in Message \ {m} : retryRow'[n] = retryRow[n] /\ due'[n] = due[n]
    BY <1>4, <1>a, <1>b DEF Check, Stage
  <2>2. claim' = claim /\ tried' = tried /\ contested' = contested
    BY <1>4 DEF Check, Histories
  <2>3. QED
    BY <1>0, <2>1, <2>2 DEF LeavesAlone
<1>5. CASE TakeClaim(s)
  <2>1. sender'[s].msg = m /\ \A o \in Sender \ {s} : sender'[o] = sender[o]
    BY <1>5, <1>b DEF TakeClaim, Stage
  <2>2. Framed(m) /\ tried' = tried /\ contested' = contested
    BY <1>0, <1>5 DEF TakeClaim, LeavesAlone
  <2>3. QED
    BY <1>0, <2>1, <2>2
<1>6. CASE Refused(s)
  <2>1. /\ sender'[s].msg = m /\ \A o \in Sender \ {s} : sender'[o] = sender[o]
        /\ \A n \in Message \ {m} : retryRow'[n] = retryRow[n] /\ due'[n] = due[n]
    BY <1>6, <1>a DEF Refused
  <2>2. claim' = claim /\ tried' = tried /\ contested' = contested
    BY <1>6 DEF Refused, Histories
  <2>3. QED
    BY <1>0, <2>1, <2>2 DEF LeavesAlone
<1>7. ASSUME NEW stage \in Provider, Send(s, stage)
      PROVE  Moved /\ Framed(sender'[s].msg) /\ Grows
  <2>1. sender'[s].msg = m /\ \A o \in Sender \ {s} : sender'[o] = sender[o]
    BY <1>7, SendFacts
  <2>2. /\ claim' = claim /\ tried' = tried /\ contested' = contested
        /\ retryRow' = retryRow /\ due' = due
    BY <1>7 DEF Send
  <2>3. QED
    BY <1>0, <2>1, <2>2 DEF LeavesAlone
<1>8. CASE Number(s)
  <2>1. sender'[s].msg = m /\ \A o \in Sender \ {s} : sender'[o] = sender[o]
    BY <1>8, NumberFacts
  <2>2. /\ claim' = claim /\ tried' = tried /\ contested' = contested
        /\ retryRow' = retryRow /\ due' = due
    BY <1>8 DEF Number, Histories
  <2>3. QED
    BY <1>0, <2>1, <2>2 DEF LeavesAlone
<1>9. CASE Record(s)
  <2>1. PICK t \in Attempt :
          /\ tried' = [tried EXCEPT ![m] = tried[m] \cup {t}]
          /\ sender'[s] = Idle(m) \/ sender'[s].msg = m
    BY <1>9, RecordFacts
  <2>2. sender'[s].msg = m /\ \A o \in Sender \ {s} : sender'[o] = sender[o]
    BY <1>9, <2>1, RecordFacts DEF Idle
  <2>3. \A n \in Message \ {m} : retryRow'[n] = retryRow[n] /\ due'[n] = due[n]
    BY <1>9, <1>a DEF Record
  <2>4. claim' = claim /\ contested' = contested
    BY <1>9 DEF Record, Histories
  <2>5. QED
    BY <1>0, <2>1, <2>2, <2>3, <2>4 DEF LeavesAlone
<1>10. CASE Raise(s)
  <2>1. sender'[s].msg = m /\ \A o \in Sender \ {s} : sender'[o] = sender[o]
    BY <1>10, RaiseFacts
  <2>2. \A n \in Message \ {m} : retryRow'[n] = retryRow[n] /\ due'[n] = due[n]
    BY <1>10, <1>a DEF Raise
  <2>3. claim' = claim /\ tried' = tried /\ contested' = contested
    BY <1>10 DEF Raise
  <2>4. QED
    BY <1>0, <2>1, <2>2, <2>3 DEF LeavesAlone
<1>11. CASE Release(s)
  <2>1. /\ sender'[s].msg = m /\ \A o \in Sender \ {s} : sender'[o] = sender[o]
        /\ \A n \in Message \ {m} : retryRow'[n] = retryRow[n] /\ due'[n] = due[n]
    BY <1>11, <1>a, <1>b DEF Release, Stage
  <2>2. /\ claim' = [claim EXCEPT ![m] = NoClaim] /\ tried' = tried /\ contested' = contested
    BY <1>11 DEF Release, Histories
  <2>3. QED
    BY <1>0, <2>1, <2>2 DEF LeavesAlone
<1>12. CASE Enqueue(s)
  <2>1. sender'[s] = Idle(m) /\ \A o \in Sender \ {s} : sender'[o] = sender[o]
    BY <1>12 DEF Enqueue
  <2>2. sender'[s].msg = m
    BY <2>1 DEF Idle
  <2>3. Framed(m) /\ tried' = tried /\ contested' = contested
    BY <1>0, <1>12 DEF Enqueue, Histories, LeavesAlone
  <2>4. QED
    BY <1>0, <2>1, <2>2, <2>3
<1>13. CASE Die(s)
  <2>1. /\ sender'[s].msg = m /\ \A o \in Sender \ {s} : sender'[o] = sender[o]
        /\ \A n \in Message \ {m} : retryRow'[n] = retryRow[n] /\ due'[n] = due[n]
    BY <1>13, <1>a DEF Die
  <2>2. /\ claim' = claim /\ tried' = tried
        /\ contested' = [contested EXCEPT ![m] =
             contested[m] \/ (InFlight(s) /\ sender[s].kind # "retry")]
    BY <1>13 DEF Die
  <2>3. QED
    BY <1>0, <2>1, <2>2 DEF LeavesAlone
<1>14. QED
  BY <1>1, <1>2, <1>3, <1>4, <1>5, <1>6, <1>7, <1>8, <1>9, <1>10, <1>11, <1>12, <1>13
     DEF SenderStep, SendPrimary, SendFallback, Provider

\* A run in flight may hold the claim.
LEMMA FlightIsOrderly ==
  ASSUME NEW s \in Sender, InFlight(s)', sender'[s].msg = sender[s].msg,
         retryRow' = retryRow, Orderly(s)
  PROVE  Orderly(s)'
  BY DEF Orderly, InFlight

\* A retry that ends in flight waits for its claim to age.
LEMMA EndIsOrderly ==
  ASSUME Shape, NEW s \in Sender, NEW row \in {"waiting", "completed", "canceled"},
         End(s, row), claim' = claim, Orderly(s),
         sender[s].kind = "retry" => row # "completed",
         InFlight(s) => sender[s].kind = "retry" /\ row = "waiting"
  PROVE  Orderly(s)'
<1> DEFINE m == sender[s].msg
<1>1. /\ m \in Message /\ claim[m] \in {NoClaim} \cup Nat /\ due[m] \in 0..RowDelay
      /\ retryRow \in [Message -> {"none", "waiting", "held", "completed", "canceled"}]
      /\ due \in [Message -> 0..RowDelay] /\ RowDelay \in Nat
  BY DeliveryAssumption DEF Shape, DeliveryTypeOK, SenderState
<1>2. sender'[s] = Idle(m)
  BY EndType
<1>3. sender'[s].msg = m /\ sender'[s].stage = "idle"
  BY <1>2 DEF Idle
<1>4. /\ retryRow'[m] = IF sender[s].kind = "retry" THEN row ELSE retryRow[m]
      /\ due'[m] = IF sender[s].kind = "retry" /\ row = "waiting" THEN RowDelay ELSE due[m]
  BY <1>1 DEF End
<1>5. ASSUME claim'[m] # NoClaim PROVE Ages(m)'
  <2>1. claim'[m] = claim[m] /\ claim[m] \in Nat /\ (Ages(m) \/ InFlight(s))
    BY <1>1, <1>5 DEF Orderly
  <2>2. due'[m] >= due[m] /\ (InFlight(s) => due'[m] = RowDelay)
    BY <1>1, <1>4
  <2>3. due'[m] \in Nat
    BY <1>1, <1>4
  <2>4. QED
    BY <1>1, <1>3, <2>1, <2>2, <2>3 DEF Ages
<1>6. retryRow'[m] # "completed"
  BY <1>4 DEF Orderly
<1>7. QED
  BY <1>3, <1>5, <1>6 DEF Orderly

\* A run at work stays orderly while its message is quiet.
LEMMA WorkIsOrderly ==
  ASSUME Shape, NEW s \in Sender, Working(s), SenderStep(s), Orderly(s),
         Quiet(sender[s].msg), Quiet(sender[s].msg)'
  PROVE  Orderly(s)'
<1> DEFINE m == sender[s].msg
<1>0. /\ m \in Message /\ sender[s] \in SenderState /\ sender \in [Sender -> SenderState]
      /\ claim \in [Message -> {NoClaim} \cup Nat] /\ contested \in [Message -> BOOLEAN]
      /\ retryRow \in [Message -> {"none", "waiting", "held", "completed", "canceled"}]
      /\ due \in [Message -> 0..RowDelay]
  BY DEF Shape, DeliveryTypeOK, SenderState
<1>1. sender'[s].msg = m
  BY RunConcernsItsMessage
<1>2. CASE Look(s)
  <2>1. ~InFlight(s) /\ claim' = claim
    BY <1>2 DEF Look, InFlight
  <2>2. CASE \E row \in {"waiting", "canceled"} : End(s, row)
    BY <2>1, <2>2, EndIsOrderly
  <2>3. CASE /\ sender' = [sender EXCEPT ![s].stage = "check", ![s].age = 0]
             /\ UNCHANGED <<retryRow, due>>
    <3>1. /\ sender'[s].stage = "check" /\ sender'[s].age = 0
          /\ sender'[s].kind = sender[s].kind
      BY <1>0, <2>3 DEF SenderState
    <3>2. sender[s].kind = "retry" => Takeable(m, sender[s].age)
      BY <1>2 DEF Look, Orderly
    <3>3. sender[s].kind = "retry" => claim[m] = NoClaim \/ claim[m] >= ClaimAge + 0
      BY <1>0, <3>2, DeliveryAssumption DEF Takeable, SenderState
    <3>4. ~InFlight(s)'
      BY <3>1 DEF InFlight
    <3>5. QED
      BY <1>1, <2>1, <2>3, <3>1, <3>3, <3>4 DEF Orderly, Takeable, Ages
  <2>4. QED
    BY <1>2, <2>2, <2>3 DEF Look, Quiet
<1>3. CASE Check(s)
  <2>1. ~InFlight(s) /\ claim' = claim
    BY <1>3 DEF Check, InFlight
  <2>2. Go(s, "claim") /\ UNCHANGED <<retryRow, due>> /\ sender[s].stage = "check"
    BY <1>3 DEF Check, Quiet
  <2>3. /\ sender'[s].stage = "claim" /\ sender'[s].age = sender[s].age
        /\ sender'[s].kind = sender[s].kind
    BY <1>0, <2>2 DEF Go, SenderState
  <2>4. QED
    BY <1>1, <2>1, <2>2, <2>3 DEF Orderly, Takeable, Ages
<1>4. CASE TakeClaim(s)
  <2>1. sender'[s].stage = "primary" /\ retryRow' = retryRow
    BY <1>0, <1>4 DEF TakeClaim, Go, SenderState
  <2>2. InFlight(s)'
    BY <2>1 DEF InFlight
  <2>3. QED
    BY <1>1, <2>1, <2>2, FlightIsOrderly
<1>5. CASE Refused(s)
  <2>1. /\ ~InFlight(s) /\ claim' = claim /\ End(s, "completed") /\ sender[s].stage = "claim"
        /\ ~Takeable(m, sender[s].age)
    BY <1>5 DEF Refused, InFlight
  <2>2. sender[s].kind # "retry"
    BY <2>1 DEF Orderly
  <2>3. QED
    BY <2>1, <2>2, EndIsOrderly
<1>6. ASSUME NEW stage \in Provider, Send(s, stage) PROVE Orderly(s)'
  <2>1. sender'[s].stage \in {"fallback", "number"}
    BY <1>6, SendFacts
  <2>2. InFlight(s)' /\ retryRow' = retryRow
    BY <1>6, <2>1 DEF InFlight, Send
  <2>3. QED
    BY <1>1, <2>2, FlightIsOrderly
<1>7. CASE Number(s)
  <2>1. sender'[s].stage = "record"
    BY <1>7, NumberFacts
  <2>2. InFlight(s)' /\ retryRow' = retryRow
    BY <1>7, <2>1 DEF InFlight, Number
  <2>3. QED
    BY <1>1, <2>2, FlightIsOrderly
<1>8. CASE Record(s)
  <2>1. PICK t \in Attempt :
          /\ tried' = [tried EXCEPT ![m] = tried[m] \cup {t}]
          /\ t.ok \/ sender'[s].stage \in {"record", "release"}
    BY <1>8, RecordFacts
  <2>2. t \in tried'[m]
    BY <1>0, <2>1 DEF Shape, DeliveryTypeOK
  <2>3. sender'[s].stage \in {"record", "release"}
    BY <1>1, <2>1, <2>2 DEF Quiet, Delivered
  <2>4. InFlight(s)'
    BY <2>3 DEF InFlight
  <2>5. ~End(s, "completed")
    <3>1. SUFFICES ASSUME End(s, "completed") PROVE FALSE
      OBVIOUS
    <3>2. sender'[s] = Idle(m)
      BY <3>1, EndType
    <3>3. sender'[s].stage = "idle"
      BY <3>2 DEF Idle
    <3>4. QED
      BY <2>3, <3>3
  <2>6. retryRow' = retryRow
    BY <1>8, <2>5 DEF Record
  <2>7. QED
    BY <1>1, <2>4, <2>6, FlightIsOrderly
<1>9. CASE Raise(s)
  <2>1. claim' = claim
    BY <1>9 DEF Raise
  <2>2. CASE sender[s].stage \in {"look", "check", "claim"} /\ End(s, "waiting")
    <3>1. ~InFlight(s)
      BY <2>2 DEF InFlight
    <3>2. QED
      BY <2>1, <2>2, <3>1, EndIsOrderly
  <2>3. CASE /\ sender' = [sender EXCEPT ![s].stage = "release", ![s].raised = TRUE]
             /\ UNCHANGED <<retryRow, due>>
    <3>1. sender'[s].stage = "release"
      BY <1>0, <2>3 DEF SenderState
    <3>2. InFlight(s)'
      BY <3>1 DEF InFlight
    <3>3. QED
      BY <1>1, <2>3, <3>2, FlightIsOrderly
  <2>4. QED
    BY <1>9, <2>2, <2>3 DEF Raise
<1>10. CASE Release(s)
  <2>1. claim'[m] = NoClaim
    BY <1>0, <1>10 DEF Release
  <2>2. CASE Go(s, "enqueue") /\ UNCHANGED <<retryRow, due>>
    <3>1. sender'[s].stage = "enqueue"
      BY <1>0, <2>2 DEF Go, SenderState
    <3>2. QED
      BY <1>1, <2>1, <2>2, <3>1 DEF Orderly
  <2>3. CASE End(s, "waiting")
    <3>1. sender'[s] = Idle(m)
      BY <2>3, EndType
    <3>2. sender'[s].stage = "idle"
      BY <3>1 DEF Idle
    <3>3. retryRow'[m] # "completed"
      BY <1>0, <2>3 DEF End, Orderly
    <3>4. QED
      BY <1>1, <2>1, <3>2, <3>3 DEF Orderly
  <2>4. QED
    BY <1>10, <2>2, <2>3 DEF Release
<1>11. CASE Enqueue(s)
  <2>1. /\ claim[m] = NoClaim /\ claim' = claim
    BY <1>11 DEF Enqueue, Orderly
  <2>2. sender'[s] = Idle(m)
    BY <1>0, <1>11 DEF Enqueue
  <2>3. sender'[s].stage = "idle"
    BY <2>2 DEF Idle
  <2>4. retryRow'[m] # "completed"
    BY <1>0, <1>11 DEF Enqueue, Orderly
  <2>5. QED
    BY <1>1, <2>1, <2>3, <2>4 DEF Orderly
<1>12. CASE Die(s)
  <2>1. End(s, "waiting") /\ claim' = claim
    BY <1>12 DEF Die
  <2>2. InFlight(s) => sender[s].kind = "retry"
    BY <1>0, <1>1, <1>12 DEF Die, Quiet
  <2>3. QED
    BY <2>1, <2>2, EndIsOrderly
<1>13. QED
  BY <1>2, <1>3, <1>4, <1>5, <1>6, <1>7, <1>8, <1>9, <1>10, <1>11, <1>12
     DEF SenderStep, SendPrimary, SendFallback, Provider, Begin, BeginRetry, Working

\* A run that begins on a quiet message meets nobody; a retry finds its claim aged.
LEMMA BeginIsOrderly ==
  ASSUME Shape, NEW s \in Sender, NEW m \in Message, Calm(m), Quiet(m), Quiet(m)',
         (\E kind \in {"plan", "notice"} : Begin(s, m, kind)) \/ BeginRetry(s, m)
  PROVE  /\ Orderly(s)' /\ sender'[s].msg = m
         /\ \A o \in Sender \ {s} : ~(Working(o) /\ sender[o].msg = m)
<1>0. /\ claim \in [Message -> {NoClaim} \cup Nat] /\ contested \in [Message -> BOOLEAN]
      /\ retryRow \in [Message -> {"none", "waiting", "held", "completed", "canceled"}]
      /\ due \in [Message -> 0..RowDelay]
      /\ RowDelay \in Nat /\ ClaimAge \in Nat /\ SendLimit \in Nat /\ RowDelay >= ClaimAge
  BY DeliveryAssumption DEF Shape, DeliveryTypeOK
<1>1. ~Working(s) /\ claim' = claim /\ due' = due
  BY DEF Begin, BeginRetry, Working
<1>2. ~Meets(s, m)
  BY <1>0 DEF Begin, BeginRetry, Quiet
<1>3. \A o \in Sender \ {s} : ~(Working(o) /\ sender[o].msg = m)
  BY <1>2 DEF Meets
<1>4. claim[m] # NoClaim => Ages(m)
  BY <1>1, <1>3, FlightIsWork DEF Calm
<1>5. claim'[m] # NoClaim => Ages(m)'
  BY <1>1, <1>4 DEF Ages
<1>6. retryRow[m] # "completed"
  BY DEF Calm
<1>7. ASSUME NEW kind \in {"plan", "notice"}, Begin(s, m, kind)
      PROVE  Orderly(s)' /\ sender'[s].msg = m
  <2>1. /\ sender'[s].msg = m /\ sender'[s].kind = kind
        /\ sender'[s].stage \in {"claim", "check"}
    BY <1>7, BeginFacts
  <2>2. retryRow' = retryRow
    BY <1>7 DEF Begin
  <2>3. QED
    BY <1>5, <1>6, <2>1, <2>2 DEF Orderly
<1>8. CASE BeginRetry(s, m)
  <2>1. sender'[s].msg = m /\ sender'[s].stage = "look" /\ sender'[s].age = 0
    BY <1>8, RetryFacts
  <2>2. due[m] = 0 /\ retryRow'[m] = "held"
    BY <1>0, <1>8 DEF BeginRetry
  <2>3. claim'[m] = NoClaim \/ claim'[m] >= ClaimAge + 0
    BY <1>0, <1>1, <1>4, <2>2 DEF Ages, Oldest
  <2>4. Takeable(m, sender[s].age)'
    BY <2>1, <2>3 DEF Takeable
  <2>5. retryRow'[m] # "completed"
    BY <2>2
  <2>6. QED
    BY <1>3, <1>5, <2>1, <2>4, <2>5 DEF Orderly, Takeable
<1>9. QED
  BY <1>3, <1>7, <1>8

LEMMA SenderCalm ==
  ASSUME Shape, NEW s \in Sender, SenderStep(s), NEW n \in Message, Calm(n)
  PROVE  Calm(n)'
<1>1. SUFFICES ASSUME Quiet(n)' PROVE Calm(n)'
  BY DEF Calm
<1>2. /\ sender'[s].msg \in Message
      /\ Working(s) => sender'[s].msg = sender[s].msg
      /\ \A o \in Sender \ {s} : sender'[o] = sender[o]
      /\ n # sender'[s].msg => LeavesAlone(n)
      /\ Quiet(n)
  BY <1>1, RunConcernsItsMessage
<1>3. CASE n # sender'[s].msg
  <2>1. \A o \in Sender : Working(o)' /\ sender'[o].msg = n => sender'[o] = sender[o] /\ o # s
    BY <1>2, <1>3
  <2>2. \A o \in Sender : Working(o) /\ sender[o].msg = n => sender'[o] = sender[o]
    BY <1>2, <1>3
  <2>3. Ages(n)' <=> Ages(n)
    BY <1>2, <1>3 DEF Ages, LeavesAlone
  <2>4. \A o, q \in Sender : /\ Working(o)' /\ sender'[o].msg = n
                             /\ Working(q)' /\ sender'[q].msg = n
                             => o = q
    BY <1>2, <2>1 DEF Calm, Working
  <2>5. claim'[n] # NoClaim => Ages(n)' \/ \E o \in Sender : sender'[o].msg = n /\ InFlight(o)'
    BY <1>2, <1>3, <2>2, <2>3, FlightIsWork DEF Calm, LeavesAlone, InFlight
  <2>6. ASSUME NEW o \in Sender, Working(o)', sender'[o].msg = n PROVE Orderly(o)'
    <3>1. sender'[o] = sender[o]
      BY <2>1, <2>6
    <3>2. Orderly(o)
      BY <1>2, <2>6, <3>1 DEF Calm, Working
    <3>3. QED
      BY <1>2, <1>3, <2>3, <2>6, <3>1, <3>2 DEF Orderly, LeavesAlone, InFlight, Takeable
  <2>7. QED
    BY <1>2, <1>3, <2>4, <2>5, <2>6 DEF Calm, LeavesAlone
<1>4. CASE n = sender'[s].msg
  <2>1. Orderly(s)' /\ \A o \in Sender \ {s} : ~(Working(o) /\ sender[o].msg = n)
    <3>1. CASE Working(s)
      <4>1. sender[s].msg = n
        BY <1>2, <1>4, <3>1
      <4>2. Orderly(s) /\ \A o \in Sender \ {s} : ~(Working(o) /\ sender[o].msg = n)
        BY <1>2, <3>1, <4>1 DEF Calm
      <4>3. QED
        BY <1>1, <1>2, <3>1, <4>1, <4>2, WorkIsOrderly
    <3>2. CASE ~Working(s)
      <4>1. PICK m \in Message :
              (\E kind \in {"plan", "notice"} : Begin(s, m, kind)) \/ BeginRetry(s, m)
        BY <3>2 DEF SenderStep, Working, Look, Check, TakeClaim, Refused, SendPrimary,
                    SendFallback, Send, Number, Record, Raise, Release, Enqueue, Die
      <4>2. sender'[s].msg = m
        BY <4>1, BeginFacts, RetryFacts
      <4>3. QED
        BY <1>1, <1>2, <1>4, <4>1, <4>2, BeginIsOrderly
    <3>3. QED
      BY <3>1, <3>2
  <2>2. \A o \in Sender \ {s} : ~(Working(o)' /\ sender'[o].msg = n)
    BY <1>2, <2>1 DEF Working
  <2>3. QED
    BY <1>4, <2>1, <2>2 DEF Calm, Orderly
<1>5. QED
  BY <1>3, <1>4

\* A claim ages with the run that would take it, and as fast as its row comes due.
LEMMA MinuteCalm ==
  ASSUME Shape, Minute, NEW n \in Message, Calm(n)
  PROVE  Calm(n)'
<1>1. /\ claim \in [Message -> {NoClaim} \cup Nat] /\ due \in [Message -> 0..RowDelay]
      /\ \A s \in Sender : sender[s].age \in Nat
      /\ RowDelay \in Nat /\ ClaimAge \in Nat /\ SendLimit \in Nat
  BY DeliveryAssumption DEF Shape, DeliveryTypeOK, SenderState
<1>2. /\ claim'[n] = IF claim[n] = NoClaim \/ claim[n] >= Oldest THEN claim[n] ELSE claim[n] + 1
      /\ due'[n] = IF due[n] > 0 THEN due[n] - 1 ELSE 0
      /\ tried' = tried /\ retryRow' = retryRow /\ contested' = contested
      /\ \A s \in Sender : Working(s) => sender[s].age < SendLimit
  BY DEF Minute
<1>3. \A s \in Sender :
        /\ sender'[s].msg = sender[s].msg /\ sender'[s].stage = sender[s].stage
        /\ sender'[s].kind = sender[s].kind
        /\ Working(s) => sender'[s].age = sender[s].age + 1
  BY MinuteFacts
<1>4. \A s \in Sender : (Working(s)' <=> Working(s)) /\ (InFlight(s)' <=> InFlight(s))
  BY <1>3 DEF Working, InFlight
<1>5. Quiet(n)' <=> Quiet(n)
  BY <1>2 DEF Quiet, Delivered
<1>6. claim'[n] # NoClaim <=> claim[n] # NoClaim
  BY <1>1, <1>2 DEF NoClaim
<1>7. claim[n] # NoClaim /\ Ages(n) => Ages(n)'
  BY <1>1, <1>2 DEF Ages, NoClaim, Oldest
<1>8. ASSUME NEW s \in Sender, Working(s), Takeable(n, sender[s].age)
      PROVE  Takeable(n, sender[s].age)'
  <2>1. sender'[s].age = sender[s].age + 1 /\ sender[s].age < SendLimit
    BY <1>2, <1>3, <1>8
  <2>2. claim'[n] = NoClaim \/ claim'[n] >= ClaimAge + (sender[s].age + 1)
    BY <1>1, <1>2, <1>8, <2>1 DEF Takeable, Oldest, NoClaim
  <2>3. QED
    BY <2>1, <2>2 DEF Takeable
<1>9. ASSUME NEW s \in Sender, Working(s), sender[s].msg = n, Orderly(s) PROVE Orderly(s)'
  BY <1>2, <1>3, <1>4, <1>6, <1>7, <1>8, <1>9 DEF Orderly
<1>10. QED
  BY <1>2, <1>3, <1>4, <1>5, <1>6, <1>7, <1>9 DEF Calm

LEMMA CalmStep ==
  ASSUME Shape, [DeliveryNext]_DeliveryVars, NEW n \in Message, Calm(n)
  PROVE  Calm(n)'
<1>1. CASE \E s \in Sender : SenderStep(s)
  BY <1>1, SenderCalm
<1>2. CASE Minute
  BY <1>2, MinuteCalm
<1>3. CASE (\E m \in Message : Close(m) \/ Lapse(m) \/ CancelRetry(m)) \/ UNCHANGED DeliveryVars
  <2>1. /\ sender' = sender /\ claim' = claim /\ tried' = tried /\ due' = due
        /\ contested' = contested
    BY <1>3 DEF Close, Lapse, CancelRetry, Histories, DeliveryVars
  <2>2. retryRow'[n] # "completed" \/ retryRow'[n] = retryRow[n]
    BY <1>3 DEF Close, Lapse, CancelRetry, DeliveryVars, Shape, DeliveryTypeOK
  <2>3. QED
    BY <2>1, <2>2 DEF Calm, Quiet, Delivered, Working, InFlight, Orderly, Takeable, Ages
<1>4. QED
  BY <1>1, <1>2, <1>3 DEF DeliveryNext, DeliveryStep

----------------------------------------------------------------------------
\* Every variable of the delivery keeps its type, for any messages, runs and
\* ages.
THEOREM DeliveryTyped == DeliverySpec => []DeliveryTypeOK
<1>1. DeliveryInv => DeliveryTypeOK
  BY DEF DeliveryInv, Shape
<1>2. QED
  BY <1>1, DeliveryInvariant, PTL

\* Two runs of NotificationLoop.run send one message together only if one of
\* them was still sending when its claim had aged: releasing a claim by its
\* id is harmless until then.
THEOREM OneSender == DeliverySpec => []OneSenderUnlessOutlived
<1>1. DeliveryInv => OneSenderUnlessOutlived
  BY DEF DeliveryInv, Claimed
<1>2. QED
  BY <1>1, DeliveryInvariant, PTL

\* A message reaches the owner twice only if a provider failed after
\* delivering it, a success was lost before it was recorded, or a run outlived
\* its claim.
THEOREM DuplicatesExplained == DeliverySpec => []DuplicateHasCause
<1>1. ASSUME DeliveryInv PROVE DuplicateHasCause
  <2>1. SUFFICES ASSUME NEW m \in Message, arrived[m] >= 2, ~unsure[m], ~outlived[m]
                 PROVE  FALSE
    BY DEF DuplicateHasCause
  <2>2. arrived[m] \in 0..2
    BY <1>1 DEF DeliveryInv, Shape, DeliveryTypeOK
  <2>3. Once(m) /\ Certain(m)
    BY <1>1, <2>1 DEF DeliveryInv, Certain
  <2>4. arrived[m] = 1
    BY <2>1, <2>2, <2>3 DEF Once
  <2>5. QED
    BY <2>1, <2>4
<1>2. QED
  BY <1>1, DeliveryInvariant, PTL

\* The queue row of a failed delivery is completed without a delivery only if another run was
\* at work on the message or was terminated with its claim: a run that is refused the claim
\* reports a duplicate, and the retry takes that for done.
THEOREM RetriesEndInDelivery == DeliverySpec => []RetryEndsInDelivery
<1> DEFINE Settled == \A m \in Message : Calm(m)
<1>1. DeliveryInit => Settled
  <2>1. ASSUME DeliveryInit, NEW m \in Message PROVE Calm(m)
    <3>1. \A s \in Sender : ~Working(s)
      BY <2>1 DEF DeliveryInit, Working, Idle
    <3>2. claim[m] = NoClaim /\ retryRow[m] = "none"
      BY <2>1 DEF DeliveryInit
    <3>3. QED
      BY <3>1, <3>2 DEF Calm
  <2>2. QED
    BY <2>1
<1>2. Settled /\ DeliveryInv /\ [DeliveryNext]_DeliveryVars => Settled'
  BY CalmStep DEF DeliveryInv
<1>3. Settled => RetryEndsInDelivery
  BY DEF RetryEndsInDelivery, Calm, Quiet
<1> HIDE DEF Settled
<1>4. QED
  BY <1>1, <1>2, <1>3, DeliveryInvariant, PTL DEF DeliverySpec
=============================================================================
