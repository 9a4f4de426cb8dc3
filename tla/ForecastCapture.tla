---------------------------- MODULE ForecastCapture ----------------------------
(***************************************************************************)
(* The archive of provider forecasts.  Every wake of the cron reads the    *)
(* day's tipoffs (from a cache that lasts until local midnight), derives   *)
(* the capture slots, and answers at most one of them with a request; once *)
(* the daily cap is reached the due slots are recorded as suppressed.  The *)
(* receipt of a slot, the revision it introduces and the raw response are  *)
(* one guarded batch.                                                      *)
(*                                                                         *)
(* A wake reads the clock once, when it starts, and everything it stores   *)
(* bears that instant.  Wakes are separate invocations and may overlap.    *)
(***************************************************************************)
EXTENDS Integers, FiniteSets

CONSTANTS
  Wake,         \* concurrent invocations of the cron
  Game,         \* games of the two rosters' teams
  TipTimes,     \* bound: the instants at which a game may be set to start
  Content,      \* semantic contents the feed may have
  Day,          \* length of a day
  Behind,       \* how long the manager's midnight comes after UTC midnight
  PlanAt,       \* local time of the daily slot (7:00)
  Lead,         \* how long before a tipoff its slot is (30 minutes)
  Window,       \* span of slots that are answered together (1 hour)
  Cap,          \* requests per UTC day (5)
  WakeLimit,    \* bound: how long a wake may last
  Horizon       \* bound: the last instant

None == "none"

ASSUME ForecastAssumption ==
  /\ IsFiniteSet(Wake) /\ Wake # {} /\ None \notin Content
  /\ IsFiniteSet(TipTimes) /\ TipTimes \subseteq Nat
  /\ Day \in Nat \ {0} /\ Behind \in 0..(Day - 1) /\ PlanAt \in 0..(Day - 1)
  /\ Lead \in 0..Day /\ Window \in Nat /\ Cap \in Nat /\ WakeLimit \in Nat
  /\ Horizon \in Nat

VARIABLES
  instant,      \* the time, in intervals of the cron
  fired,        \* whether the cron fired at this instant
  tipoff,       \* when each game is set to start
  slate,        \* the tipoffs cached for a local day, or NoSlate
  receipts,     \* the stored receipts
  wake,         \* the invocations
  requests,     \* history: requests sent, by UTC day
  unrecorded,   \* history: requests that will never have a receipt
  raced         \* history: local days whose slate two wakes resolved at once

ForecastVars == <<instant, fired, tipoff, slate, receipts, wake, requests, unrecorded, raced>>

NoSlate == {-1}
Instant == -Day..Horizon
\* FAILED and INVALID are one outcome here: a request without content.
Requested == {"failed", "changed", "unchanged"}
Receipt == [slot : Instant, at : Instant, outcome : Requested \cup {"suppressed"},
            content : Content \cup {None}]
WakeState ==
  [stage : {"idle", "slate", "cache", "plan", "fetch", "decide", "save", "suppress"},
   at : Instant, slate : SUBSET TipTimes, slots : SUBSET Instant,
   content : Content \cup {None}, outcome : Requested \cup {None}]
Asleep == [stage |-> "idle", at |-> 0, slate |-> {}, slots |-> {},
           content |-> None, outcome |-> None]

UtcDay(t) == t \div Day
LocalDay(t) == (t - Behind) \div Day
DailyAt(t) == LocalDay(t) * Day + Behind + PlanAt

ForecastTypeOK ==
  /\ instant \in 0..Horizon
  /\ fired \in BOOLEAN
  /\ tipoff \in [Game -> TipTimes]
  /\ slate \in [LocalDay(0)..LocalDay(Horizon) -> {NoSlate} \cup SUBSET TipTimes]
  /\ receipts \subseteq Receipt
  /\ wake \in [Wake -> WakeState]
  /\ requests \in [0..UtcDay(Horizon) -> Nat]
  /\ unrecorded \in [0..UtcDay(Horizon) -> Nat]
  /\ raced \subseteq LocalDay(0)..LocalDay(Horizon)

----------------------------------------------------------------------------
Earliest(S) == CHOOSE t \in S : \A u \in S : t <= u

\* A target within Window of the start of its group is answered with it.
Coalesced[T \in SUBSET {t - Lead : t \in TipTimes}] ==
  IF T = {} THEN {}
  ELSE {Earliest(T)} \cup Coalesced[{t \in T : t - Earliest(T) > Window}]

\* Every target keeps a slot of its own.
PreTipoffWrongApart(tipoffs) == {t - Lead : t \in tipoffs}

PreTipoff(tipoffs) == Coalesced[{t - Lead : t \in tipoffs}]

\* The slots that are due and have no receipt among those the wake listed.
DueSlots(at, tipoffs, listed) ==
  {t \in {DailyAt(at)} \cup PreTipoff(tipoffs) :
     t <= at /\ \A r \in listed : r.slot # t}

\* Pre-tipoff slots go first, then the earlier ones.
FirstSlot(slots, tipoffs) ==
  IF slots \cap PreTipoff(tipoffs) # {} THEN Earliest(slots \cap PreTipoff(tipoffs))
  ELSE Earliest(slots)

Listed(at) ==
  {r \in receipts : r.at >= (UtcDay(at) - 2) * Day /\ r.at < (UtcDay(at) + 1) * Day}

\* A request that failed is not counted.
RequestsUsedWrongFailed(at, listed) ==
  Cardinality({r \in listed : r.outcome \in {"changed", "unchanged"} /\ UtcDay(r.at) = UtcDay(at)})

RequestsUsed(at, listed) ==
  Cardinality({r \in listed : r.outcome \in Requested /\ UtcDay(r.at) = UtcDay(at)})

Stored(slot) == \E r \in receipts : r.slot = slot
Known(content) == \E r \in receipts : r.content = content

----------------------------------------------------------------------------
StartWake(w) ==
  /\ wake[w].stage = "idle"
  /\ ~fired
  /\ fired' = TRUE
  /\ wake' = [wake EXCEPT ![w] = [Asleep EXCEPT !.stage = "slate", !.at = instant]]
  /\ UNCHANGED <<instant, tipoff, slate, receipts, requests, unrecorded, raced>>

ReadSlate(w) == LET cached == slate[LocalDay(wake[w].at)] IN
  /\ wake[w].stage = "slate"
  /\ cached # NoSlate
  /\ wake' = [wake EXCEPT ![w].stage = "plan", ![w].slate = cached]
  /\ UNCHANGED <<instant, fired, tipoff, slate, receipts, requests, unrecorded, raced>>

\* Out of season the cache is not read; a failed lookup is not cached.
NoTipoffs(w) ==
  /\ wake[w].stage = "slate"
  /\ wake' = [wake EXCEPT ![w].stage = "plan"]
  /\ UNCHANGED <<instant, fired, tipoff, slate, receipts, requests, unrecorded, raced>>

\* The provider names the games that are still scheduled, of any day.
ResolveSlate(w) ==
  /\ wake[w].stage = "slate"
  /\ slate[LocalDay(wake[w].at)] = NoSlate
  /\ wake' = [wake EXCEPT ![w].stage = "cache",
                          ![w].slate = {tipoff[g] : g \in {h \in Game : tipoff[h] > instant}}]
  /\ raced' = raced \cup {LocalDay(wake[o].at) : o \in {o \in Wake \ {w} :
                 wake[o].stage = "cache" /\ LocalDay(wake[o].at) = LocalDay(wake[w].at)}}
  /\ UNCHANGED <<instant, fired, tipoff, slate, receipts, requests, unrecorded>>

CacheSlate(w) ==
  /\ wake[w].stage = "cache"
  /\ slate' = [slate EXCEPT ![LocalDay(wake[w].at)] = wake[w].slate]
  /\ wake' = [wake EXCEPT ![w].stage = "plan"]
  /\ UNCHANGED <<instant, fired, tipoff, receipts, requests, unrecorded, raced>>

\* One fetch, every due suppression, or nothing.
PlanCapture(w) ==
  LET at == wake[w].at
      due == DueSlots(at, wake[w].slate, Listed(at)) IN
  /\ wake[w].stage = "plan"
  /\ wake' = [wake EXCEPT ![w] =
       IF due = {} THEN Asleep
       ELSE IF RequestsUsed(at, Listed(at)) >= Cap
       THEN [@ EXCEPT !.stage = "suppress", !.slots = due]
       ELSE [@ EXCEPT !.stage = "fetch", !.slots = {FirstSlot(due, wake[w].slate)}]]
  /\ UNCHANGED <<instant, fired, tipoff, slate, receipts, requests, unrecorded, raced>>

Fetch(w) ==
  /\ wake[w].stage = "fetch"
  /\ requests' = [requests EXCEPT ![UtcDay(wake[w].at)] = @ + 1]
  /\ \/ wake' = [wake EXCEPT ![w].stage = "save", ![w].outcome = "failed"]
     \/ \E content \in Content :
          wake' = [wake EXCEPT ![w].stage = "decide", ![w].content = content]
  /\ UNCHANGED <<instant, fired, tipoff, slate, receipts, unrecorded, raced>>

\* Whether the content is new is read before the batch that stores it.
Decide(w) ==
  /\ wake[w].stage = "decide"
  /\ wake' = [wake EXCEPT ![w].stage = "save",
       ![w].outcome = IF Known(wake[w].content) THEN "unchanged" ELSE "changed"]
  /\ UNCHANGED <<instant, fired, tipoff, slate, receipts, requests, unrecorded, raced>>

\* A receipt is dated by its slot.
NewReceiptWrongTime(w, slot, outcome) ==
  [slot |-> slot, at |-> slot, outcome |-> outcome, content |-> wake[w].content]

NewReceipt(w, slot, outcome) ==
  [slot |-> slot, at |-> wake[w].at, outcome |-> outcome, content |-> wake[w].content]

\* The batch does not look at the content again.
RefusesWrongSlotOnly(slot, outcome, content) == Stored(slot)

\* The whole batch fails when the slot has another receipt, or when the
\* content is no longer as new, or as well known, as it was found to be.
Refuses(slot, outcome, content) ==
  \/ Stored(slot)
  \/ outcome = "changed" /\ Known(content)
  \/ outcome = "unchanged" /\ ~Known(content)

SaveCapture(w) ==
  LET slot == CHOOSE t \in wake[w].slots : TRUE
      new == NewReceipt(w, slot, wake[w].outcome) IN
  /\ wake[w].stage = "save"
  /\ IF Refuses(slot, new.outcome, new.content)
     THEN /\ unrecorded' = [unrecorded EXCEPT ![UtcDay(new.at)] = @ + 1]
          /\ UNCHANGED receipts
     ELSE receipts' = receipts \cup {new} /\ UNCHANGED unrecorded
  /\ wake' = [wake EXCEPT ![w] = Asleep]
  /\ UNCHANGED <<instant, fired, tipoff, slate, requests, raced>>

\* Suppressions are stored one after the other; a slot that has another
\* receipt by now ends the wake with a conflict.
SaveSuppressed(w) ==
  LET slot == FirstSlot(wake[w].slots, wake[w].slate)
      new == NewReceipt(w, slot, "suppressed") IN
  /\ wake[w].stage = "suppress"
  /\ receipts' = IF Stored(slot) THEN receipts ELSE receipts \cup {new}
  /\ wake' = [wake EXCEPT ![w] =
       IF (Stored(slot) /\ new \notin receipts) \/ wake[w].slots = {slot} THEN Asleep
       ELSE [@ EXCEPT !.slots = wake[w].slots \ {slot}]]
  /\ UNCHANGED <<instant, fired, tipoff, slate, requests, unrecorded, raced>>

\* A read that fails, or the invocation ends: what was fetched is lost.
EndWake(w) ==
  /\ wake[w].stage # "idle"
  /\ unrecorded' = IF wake[w].stage \in {"decide", "save"}
                   THEN [unrecorded EXCEPT ![UtcDay(wake[w].at)] = @ + 1]
                   ELSE unrecorded
  /\ wake' = [wake EXCEPT ![w] = Asleep]
  /\ UNCHANGED <<instant, fired, tipoff, slate, receipts, requests, raced>>

----------------------------------------------------------------------------
\* The league moves a game to a later start.
MoveGame(g) ==
  /\ tipoff[g] > instant
  /\ \E t \in TipTimes : t > tipoff[g] /\ tipoff' = [tipoff EXCEPT ![g] = t]
  /\ UNCHANGED <<instant, fired, slate, receipts, wake, requests, unrecorded, raced>>

Pass ==
  /\ instant < Horizon
  /\ \A w \in Wake : wake[w].stage # "idle" => instant - wake[w].at < WakeLimit
  /\ instant' = instant + 1
  /\ fired' = FALSE
  /\ UNCHANGED <<tipoff, slate, receipts, wake, requests, unrecorded, raced>>

ForecastInit ==
  /\ instant = 0
  /\ fired = FALSE
  /\ tipoff \in [Game -> TipTimes]
  /\ slate = [d \in LocalDay(0)..LocalDay(Horizon) |-> NoSlate]
  /\ receipts = {}
  /\ wake = [w \in Wake |-> Asleep]
  /\ requests = [d \in 0..UtcDay(Horizon) |-> 0]
  /\ unrecorded = [d \in 0..UtcDay(Horizon) |-> 0]
  /\ raced = {}

WakeStep(w) ==
  \/ StartWake(w) \/ ReadSlate(w) \/ NoTipoffs(w) \/ ResolveSlate(w) \/ CacheSlate(w)
  \/ PlanCapture(w) \/ Fetch(w) \/ Decide(w) \/ SaveCapture(w) \/ SaveSuppressed(w)
  \/ EndWake(w)

ForecastNext ==
  \/ \E w \in Wake : WakeStep(w)
  \/ \E g \in Game : MoveGame(g)
  \/ Pass

ForecastSpec == ForecastInit /\ [][ForecastNext]_ForecastVars

----------------------------------------------------------------------------
\* The cap counts receipts, not requests: a UTC day exceeds it only by the
\* requests that left no receipt (a conflict, a crash before the batch) and by
\* the other wakes that planned at the same time.
CapHolds ==
  \A d \in DOMAIN requests :
    requests[d] <= Cap + unrecorded[d] + Cardinality(Wake) - 1

\* A stored content has exactly one receipt that introduced it, whichever
\* wakes found it new at the same time.
IntroducedOnce ==
  \A c \in Content :
    Known(c) => Cardinality({r \in receipts : r.content = c /\ r.outcome = "changed"}) = 1

\* Two pre-tipoff slots answered on one local day are more than Window apart,
\* however games were moved meanwhile: the day's slate is resolved once, unless
\* two wakes missed it together.
SlotsApart ==
  \A r, q \in receipts :
    /\ r.slot < q.slot
    /\ LocalDay(r.at) = LocalDay(q.at) /\ LocalDay(r.at) \notin raced
    /\ DailyAt(r.at) \notin {r.slot, q.slot}
    => q.slot - r.slot > Window

\* The newest usable content a reader finds at a cutoff.
ContentAt(cutoff, stored) ==
  LET usable == {r \in stored : r.content # None /\ r.at <= cutoff} IN
  {r.content : r \in {q \in usable : \A o \in usable : o.at <= q.at}}

\* What was found at a cutoff in the past changes only while a wake that had
\* started by the cutoff has yet to save: evidence is never backdated further.
NeverBackdated ==
  [][\A c \in 0..(instant - 1) :
       ContentAt(c, receipts') # ContentAt(c, receipts)
         => \E w \in Wake : wake[w].stage = "save" /\ wake[w].at <= c]_ForecastVars
=============================================================================
