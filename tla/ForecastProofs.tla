----------------------------- MODULE ForecastProofs -----------------------------
(***************************************************************************)
(* Theorems about the forecast archive, for any number of overlapping      *)
(* wakes, any games and contents, any cap and any horizon.                 *)
(*                                                                         *)
(* ForecastInv keeps an account of every day.  The requests sent are those *)
(* with a receipt, those that will never have one, and those of the wakes  *)
(* that have yet to record; and the receipts and the wakes about to ask    *)
(* are together fewer than the cap and the wakes are, because a wake that  *)
(* decides to ask has counted fewer receipts than the cap.                 *)
(*                                                                         *)
(* SlotInv follows a day's slate from the wake that resolves it to the     *)
(* receipts.  What the grouping of the tipoffs computes, for any slate, is *)
(* shown by induction on the number of targets.                            *)
(***************************************************************************)
EXTENDS ForecastCapture, Induction

\* The slots a wake may look for or choose; which these are does not matter here.
Due == {DailyAt(t) : t \in 0..Horizon} \cup UNION {PreTipoff(S) : S \in SUBSET TipTimes}
Slots == Due \cup {FirstSlot(D, S) : D \in SUBSET Due, S \in SUBSET TipTimes}
WakeShape ==
  [stage : {"idle", "slate", "cache", "plan", "fetch", "decide", "save", "suppress"},
   at : 0..Horizon, slate : SUBSET TipTimes, slots : SUBSET Slots,
   content : Content \cup {None}, outcome : Requested \cup {None}]

ForecastShape ==
  /\ instant \in 0..Horizon
  /\ tipoff \in [Game -> TipTimes]
  /\ slate \in [LocalDay(0)..LocalDay(Horizon) -> {NoSlate} \cup SUBSET TipTimes]
  /\ wake \in [Wake -> WakeShape]
  /\ requests \in [0..UtcDay(Horizon) -> Nat]
  /\ unrecorded \in [0..UtcDay(Horizon) -> Nat]
  /\ IsFiniteSet(receipts)
  /\ \A r \in receipts : /\ r.at \in 0..Horizon /\ r.outcome \in Requested \cup {"suppressed"}
                         /\ r.content \in Content \cup {None}

\* A wake has content only between the answer and the batch.
Noted(w) ==
  /\ wake[w].stage \notin {"decide", "save"} => wake[w].content = None
  /\ wake[w].stage = "decide" => wake[w].content \in Content
  /\ wake[w].stage = "save" =>
       \/ wake[w].outcome = "failed" /\ wake[w].content = None
       \/ wake[w].outcome \in {"changed", "unchanged"} /\ wake[w].content \in Content

\* A known content was introduced, once.
Introduced(c) ==
  Known(c) => \E r \in receipts :
                /\ r.content = c /\ r.outcome = "changed"
                /\ \A q \in receipts : q.content = c /\ q.outcome = "changed" => q = r

\* The receipts that count, the wakes about to send a request, and those that have sent one
\* without a receipt so far.
Recorded(d) == {r \in receipts : r.outcome \in Requested /\ UtcDay(r.at) = d}
Asking(d) == {w \in Wake : /\ wake[w].stage \in {"fetch", "decide", "save"}
                           /\ UtcDay(wake[w].at) = d}
Asked(d) == {w \in Wake : wake[w].stage \in {"decide", "save"} /\ UtcDay(wake[w].at) = d}

\* Every request is accounted for, and whoever asks found the day's count below the cap.
Accounted(d) ==
  /\ requests[d] = Cardinality(Recorded(d)) + unrecorded[d] + Cardinality(Asked(d))
  /\ Cardinality(Recorded(d)) + Cardinality(Asking(d)) <= Cap - 1 + Cardinality(Wake)

ForecastInv ==
  /\ ForecastShape
  /\ \A w \in Wake : Noted(w)
  /\ \A c \in Content : Introduced(c)
  /\ \A d \in 0..UtcDay(Horizon) : Accounted(d)

-----------------------------------------------------------------------------
(* Days *)

\* Later instants are not on earlier days.
LEMMA DayOrder ==
  ASSUME NEW D \in Nat \ {0}, NEW a \in Int, NEW b \in Int, a <= b
  PROVE  a \div D \in Int /\ b \div D \in Int /\ a \div D <= b \div D
OBVIOUS

\* The receipts of a day are among those of it and the two days before.
LEMMA DayListed ==
  ASSUME NEW D \in Nat \ {0}, NEW a \in Int, NEW b \in Int, a \div D = b \div D
  PROVE  a >= (b \div D - 2) * D /\ a < (b \div D + 1) * D
OBVIOUS

\* The days of the model.
LEMMA DaysOfWakes ==
  ASSUME NEW t \in 0..Horizon
  PROVE  /\ UtcDay(t) \in 0..UtcDay(Horizon)
         /\ LocalDay(t) \in LocalDay(0)..LocalDay(Horizon)
<1>1. Day \in Nat \ {0} /\ Behind \in Int /\ Horizon \in Nat
  BY ForecastAssumption
<1>2. t \in Int /\ 0 <= t /\ t <= Horizon
  BY <1>1
<1>3. 0 \div Day = 0
  <2>1. \A D \in Nat \ {0} : 0 \div D = 0
    OBVIOUS
  <2>2. QED
    BY <1>1, <2>1
<1>4. 0 \div Day <= t \div Day /\ t \div Day <= Horizon \div Day /\ t \div Day \in Int
      /\ Horizon \div Day \in Int
  BY <1>1, <1>2, DayOrder
<1>5. /\ (0 - Behind) \div Day \in Int /\ (t - Behind) \div Day \in Int
      /\ (Horizon - Behind) \div Day \in Int
      /\ (0 - Behind) \div Day <= (t - Behind) \div Day
      /\ (t - Behind) \div Day <= (Horizon - Behind) \div Day
  <2>1. /\ 0 - Behind \in Int /\ t - Behind \in Int /\ Horizon - Behind \in Int
        /\ 0 - Behind <= t - Behind /\ t - Behind <= Horizon - Behind
    BY <1>1, <1>2
  <2>2. QED
    BY <1>1, <2>1, DayOrder
<1>6. QED
  BY <1>3, <1>4, <1>5 DEF UtcDay, LocalDay

\* The requests of the day are all among the receipts a wake lists.
LEMMA UsedIsRecorded ==
  ASSUME ForecastShape, NEW at \in 0..Horizon
  PROVE  RequestsUsed(at, Listed(at)) = Cardinality(Recorded(UtcDay(at)))
<1>1. Day \in Nat \ {0} /\ at \in Int
  BY ForecastAssumption
<1>2. ASSUME NEW r \in receipts, UtcDay(r.at) = UtcDay(at) PROVE r \in Listed(at)
  <2>1. r.at \in Int /\ r.at \div Day = at \div Day
    BY <1>2, ForecastAssumption DEF ForecastShape, UtcDay
  <2>2. r.at >= (at \div Day - 2) * Day /\ r.at < (at \div Day + 1) * Day
    BY <1>1, <2>1, DayListed
  <2>3. QED
    BY <2>2 DEF Listed, UtcDay
<1>3. {r \in Listed(at) : r.outcome \in Requested /\ UtcDay(r.at) = UtcDay(at)}
        = Recorded(UtcDay(at))
  BY <1>2 DEF Recorded, Listed
<1>4. QED
  BY <1>3 DEF RequestsUsed

-----------------------------------------------------------------------------
(* What a step does to the wakes *)

\* A wake that is asleep is a wake.
LEMMA AsleepShape ==
  Asleep \in WakeShape /\ Asleep.stage = "idle" /\ Asleep.content = None
  BY ForecastAssumption DEF Asleep, WakeShape

\* A wake whose stage alone changes.
Moves(w, from, to) ==
  /\ wake[w].stage \in from /\ wake'[w].stage \in to
  /\ wake'[w].at = wake[w].at /\ wake'[w].content = wake[w].content

\* The cron starts a wake.
LEMMA StartFacts ==
  ASSUME ForecastShape, NEW w \in Wake, StartWake(w)
  PROVE  /\ wake' = [wake EXCEPT ![w] = wake'[w]] /\ wake'[w] \in WakeShape
         /\ wake[w].stage = "idle" /\ wake'[w].stage = "slate" /\ wake'[w].content = None
<1>1. wake'[w] = [Asleep EXCEPT !.stage = "slate", !.at = instant]
  BY DEF ForecastShape, StartWake
<1>2. [Asleep EXCEPT !.stage = "slate", !.at = instant] \in WakeShape
  BY AsleepShape DEF ForecastShape, WakeShape
<1>3. wake'[w].stage = "slate" /\ wake'[w].content = None
  BY <1>1 DEF Asleep
<1>4. wake' = [wake EXCEPT ![w] = wake'[w]] /\ wake[w].stage = "idle"
  BY DEF ForecastShape, StartWake
<1>5. QED
  BY <1>1, <1>2, <1>3, <1>4

\* Finding out the day's tipoffs.
LEMMA SlateFacts ==
  ASSUME ForecastShape, NEW w \in Wake,
         ReadSlate(w) \/ NoTipoffs(w) \/ ResolveSlate(w) \/ CacheSlate(w)
  PROVE  /\ wake' = [wake EXCEPT ![w] = wake'[w]] /\ wake'[w] \in WakeShape
         /\ Moves(w, {"slate", "cache"}, {"plan", "cache"})
<1>0. wake \in [Wake -> WakeShape] /\ wake[w] \in WakeShape
  BY DEF ForecastShape
<1>1. ASSUME NEW S \in SUBSET TipTimes, NEW to \in {"plan", "cache"},
             wake' = [wake EXCEPT ![w].stage = to, ![w].slate = S],
             wake[w].stage \in {"slate", "cache"}
      PROVE  /\ wake' = [wake EXCEPT ![w] = wake'[w]] /\ wake'[w] \in WakeShape
             /\ Moves(w, {"slate", "cache"}, {"plan", "cache"})
  BY <1>0, <1>1 DEF WakeShape, Moves
<1>2. CASE ReadSlate(w)
  <2>1. LocalDay(wake[w].at) \in LocalDay(0)..LocalDay(Horizon)
    BY <1>0, DaysOfWakes DEF WakeShape
  <2>2. slate[LocalDay(wake[w].at)] \in SUBSET TipTimes
    BY <1>2, <2>1 DEF ForecastShape, ReadSlate
  <2>3. QED
    BY <1>1, <1>2, <2>2 DEF ReadSlate
<1>3. CASE NoTipoffs(w) \/ CacheSlate(w)
  BY <1>0, <1>3 DEF NoTipoffs, CacheSlate, WakeShape, Moves
<1>4. CASE ResolveSlate(w)
  <2>1. {tipoff[g] : g \in {h \in Game : tipoff[h] > instant}} \in SUBSET TipTimes
    BY DEF ForecastShape
  <2>2. QED
    BY <1>1, <1>4, <2>1 DEF ResolveSlate
<1>5. QED
  BY <1>2, <1>3, <1>4

\* Deciding what to answer.
LEMMA PlanFacts ==
  ASSUME ForecastShape, NEW w \in Wake, PlanCapture(w)
  PROVE  /\ wake' = [wake EXCEPT ![w] = wake'[w]] /\ wake'[w] \in WakeShape
         /\ wake[w].stage = "plan"
         /\ \/ wake'[w] = Asleep
            \/ Moves(w, {"plan"}, {"suppress"})
            \/ Moves(w, {"plan"}, {"fetch"}) /\ Cardinality(Recorded(UtcDay(wake[w].at))) < Cap
<1>0. /\ wake \in [Wake -> WakeShape] /\ wake[w] \in WakeShape /\ wake[w].stage = "plan"
      /\ wake[w].at \in 0..Horizon
  BY DEF ForecastShape, WakeShape, PlanCapture
<1> DEFINE at == wake[w].at
           due == DueSlots(at, wake[w].slate, Listed(at))
           used == RequestsUsed(at, Listed(at))
           first == {FirstSlot(due, wake[w].slate)}
<1>1. wake'[w] = IF due = {} THEN Asleep
                 ELSE IF used >= Cap
                 THEN [wake[w] EXCEPT !.stage = "suppress", !.slots = due]
                 ELSE [wake[w] EXCEPT !.stage = "fetch", !.slots = first]
  BY <1>0 DEF PlanCapture
<1>2. wake' = [wake EXCEPT ![w] = wake'[w]]
  BY <1>0, <1>1 DEF PlanCapture
<1>3. due \subseteq Due /\ due \subseteq Slots
  BY <1>0 DEF DueSlots, Due, Slots, WakeShape
<1>4. used = Cardinality(Recorded(UtcDay(at))) /\ used \in Nat
  <2>1. IsFiniteSet(Recorded(UtcDay(at)))
    BY FS_Subset DEF Recorded, ForecastShape
  <2>2. QED
    BY <1>0, <2>1, UsedIsRecorded, FS_CardinalityType
<1>5. first \subseteq Slots
  <2>1. due \in SUBSET Due /\ wake[w].slate \in SUBSET TipTimes
    BY <1>0, <1>3 DEF WakeShape
  <2> HIDE DEF due
  <2>2. QED
    BY <2>1 DEF Slots
<1> HIDE DEF due, used, first
<1>6. CASE due = {}
  BY <1>0, <1>1, <1>2, <1>6, AsleepShape
<1>7. CASE due # {} /\ used >= Cap
  BY <1>0, <1>1, <1>2, <1>3, <1>7, ZenonT(40) DEF Moves, WakeShape
<1>8. CASE due # {} /\ ~(used >= Cap)
  <2>1. wake'[w] = [wake[w] EXCEPT !.stage = "fetch", !.slots = first]
    BY <1>1, <1>8
  <2>2. wake'[w] \in WakeShape /\ Moves(w, {"plan"}, {"fetch"})
    BY <1>0, <1>5, <1>8, <2>1 DEF Moves, WakeShape
  <2>3. used < Cap
    BY <1>4, <1>8, ForecastAssumption
  <2>4. QED
    BY <1>0, <1>2, <1>4, <2>2, <2>3
<1>9. QED
  BY <1>6, <1>7, <1>8

\* The request and its answer.
LEMMA FetchFacts ==
  ASSUME ForecastShape, NEW w \in Wake, Fetch(w), Noted(w)
  PROVE  /\ wake' = [wake EXCEPT ![w] = wake'[w]] /\ wake'[w] \in WakeShape
         /\ wake[w].stage = "fetch" /\ wake'[w].at = wake[w].at
         /\ wake'[w].stage \in {"decide", "save"} /\ Noted(w)'
<1>0. wake \in [Wake -> WakeShape] /\ wake[w] \in WakeShape /\ wake[w].stage = "fetch"
  BY DEF ForecastShape, Fetch
<1>1. wake[w].content = None
  BY <1>0 DEF Noted
<1>2. CASE wake' = [wake EXCEPT ![w].stage = "save", ![w].outcome = "failed"]
  BY <1>0, <1>1, <1>2 DEF WakeShape, Noted, Requested
<1>3. ASSUME NEW content \in Content,
             wake' = [wake EXCEPT ![w].stage = "decide", ![w].content = content]
      PROVE  /\ wake' = [wake EXCEPT ![w] = wake'[w]] /\ wake'[w] \in WakeShape
             /\ wake[w].stage = "fetch" /\ wake'[w].at = wake[w].at
             /\ wake'[w].stage \in {"decide", "save"} /\ Noted(w)'
  BY <1>0, <1>3 DEF WakeShape, Noted
<1>4. QED
  BY <1>2, <1>3 DEF Fetch

\* Whether the content is new.
LEMMA DecideFacts ==
  ASSUME ForecastShape, NEW w \in Wake, Decide(w), Noted(w)
  PROVE  /\ wake' = [wake EXCEPT ![w] = wake'[w]] /\ wake'[w] \in WakeShape
         /\ Moves(w, {"decide"}, {"save"}) /\ Noted(w)'
<1>0. wake \in [Wake -> WakeShape] /\ wake[w] \in WakeShape /\ wake[w].stage = "decide"
  BY DEF ForecastShape, Decide
<1> DEFINE outcome == IF Known(wake[w].content) THEN "unchanged" ELSE "changed"
<1>1. wake' = [wake EXCEPT ![w].stage = "save", ![w].outcome = outcome]
  BY DEF Decide
<1>2. outcome \in {"changed", "unchanged"} /\ outcome \in Requested
  BY DEF Requested
<1>3. wake[w].content \in Content
  BY <1>0 DEF Noted
<1> HIDE DEF outcome
<1>4. QED
  BY <1>0, <1>1, <1>2, <1>3 DEF WakeShape, Noted, Moves

\* The end of a wake.
LEMMA EndsAsleep ==
  ASSUME ForecastShape, NEW w \in Wake, SaveCapture(w) \/ EndWake(w)
  PROVE  wake' = [wake EXCEPT ![w] = wake'[w]] /\ wake'[w] = Asleep
  BY DEF ForecastShape, SaveCapture, EndWake

\* One suppression.
LEMMA SuppressFacts ==
  ASSUME ForecastShape, NEW w \in Wake, SaveSuppressed(w)
  PROVE  /\ wake' = [wake EXCEPT ![w] = wake'[w]] /\ wake'[w] \in WakeShape
         /\ wake[w].stage = "suppress"
         /\ wake'[w] = Asleep \/ Moves(w, {"suppress"}, {"suppress"})
<1>0. wake \in [Wake -> WakeShape] /\ wake[w] \in WakeShape /\ wake[w].stage = "suppress"
  BY DEF ForecastShape, SaveSuppressed
<1> DEFINE slot == FirstSlot(wake[w].slots, wake[w].slate)
           last == (Stored(slot) /\ NewReceipt(w, slot, "suppressed") \notin receipts)
                   \/ wake[w].slots = {slot}
<1>a. wake' = [wake EXCEPT ![w] =
        IF last THEN Asleep ELSE [@ EXCEPT !.slots = wake[w].slots \ {slot}]]
  BY DEF SaveSuppressed
<1>1. \/ wake' = [wake EXCEPT ![w] = Asleep]
      \/ wake' = [wake EXCEPT ![w] = [wake[w] EXCEPT !.slots = wake[w].slots \ {slot}]]
  <2> HIDE DEF slot, last
  <2>1. QED
    BY <1>a
<1> HIDE DEF slot
<1>2. [wake[w] EXCEPT !.slots = wake[w].slots \ {slot}] \in WakeShape
  BY <1>0 DEF WakeShape
<1>3. wake' = [wake EXCEPT ![w] = [wake[w] EXCEPT !.slots = wake[w].slots \ {slot}]]
        => Moves(w, {"suppress"}, {"suppress"})
  BY <1>0 DEF Moves, WakeShape
<1>4. QED
  BY <1>0, <1>1, <1>2, <1>3, AsleepShape

\* Whoever acts changes its own state only, and has content only when it should.
LEMMA WakeActs ==
  ASSUME ForecastShape, NEW w \in Wake, WakeStep(w), Noted(w)
  PROVE  /\ wake' = [wake EXCEPT ![w] = wake'[w]] /\ wake'[w] \in WakeShape
         /\ Noted(w)'
<1>1. CASE StartWake(w)
  BY <1>1, StartFacts DEF Noted
<1>2. CASE ReadSlate(w) \/ NoTipoffs(w) \/ ResolveSlate(w) \/ CacheSlate(w)
  BY <1>2, SlateFacts DEF Noted, Moves
<1>3. CASE PlanCapture(w)
  BY <1>3, PlanFacts, AsleepShape DEF Noted, Moves
<1>4. CASE Fetch(w) \/ Decide(w)
  BY <1>4, FetchFacts, DecideFacts
<1>5. CASE SaveCapture(w) \/ EndWake(w)
  BY <1>5, EndsAsleep, AsleepShape DEF Noted
<1>6. CASE SaveSuppressed(w)
  BY <1>6, SuppressFacts, AsleepShape DEF Noted, Moves
<1>7. QED
  BY <1>1, <1>2, <1>3, <1>4, <1>5, <1>6 DEF WakeStep

-----------------------------------------------------------------------------
(* What a step does to the receipts *)

\* A batch is stored, of a request or of a suppression.
Captures(w) ==
  /\ SaveCapture(w)
  /\ \E slot : /\ ~Refuses(slot, wake[w].outcome, wake[w].content)
               /\ receipts' = receipts \cup {NewReceipt(w, slot, wake[w].outcome)}
  /\ unrecorded' = unrecorded
Suppresses(w) ==
  /\ SaveSuppressed(w)
  /\ \E slot : /\ ~Stored(slot)
               /\ receipts' = receipts \cup {NewReceipt(w, slot, "suppressed")}

\* The batch of a capture is stored, or its request stays without a receipt.
LEMMA SaveFacts ==
  ASSUME NEW w \in Wake, SaveCapture(w)
  PROVE  \/ Captures(w)
         \/ /\ receipts' = receipts
            /\ unrecorded' = [unrecorded EXCEPT ![UtcDay(wake[w].at)] = @ + 1]
<1> DEFINE slot == CHOOSE t \in wake[w].slots : TRUE
           new == NewReceipt(w, slot, wake[w].outcome)
<1>1. /\ new.outcome = wake[w].outcome /\ new.content = wake[w].content
      /\ new.at = wake[w].at
  BY DEF NewReceipt
<1>2. IF Refuses(slot, new.outcome, new.content)
      THEN /\ unrecorded' = [unrecorded EXCEPT ![UtcDay(new.at)] = @ + 1]
           /\ receipts' = receipts
      ELSE receipts' = receipts \cup {new} /\ unrecorded' = unrecorded
  BY DEF SaveCapture
<1> HIDE DEF slot
<1>3. QED
  BY <1>1, <1>2 DEF Captures

\* Nothing else touches the receipts.
LEMMA ReceiptsChange ==
  ASSUME [ForecastNext]_ForecastVars
  PROVE  receipts' = receipts \/ \E w \in Wake : Captures(w) \/ Suppresses(w)
<1>1. ASSUME NEW w \in Wake, SaveSuppressed(w), receipts' # receipts PROVE Suppresses(w)
  <2> DEFINE slot == FirstSlot(wake[w].slots, wake[w].slate)
  <2>1. receipts' = IF Stored(slot) THEN receipts
                    ELSE receipts \cup {NewReceipt(w, slot, "suppressed")}
    BY <1>1 DEF SaveSuppressed
  <2> HIDE DEF slot
  <2>2. QED
    BY <1>1, <2>1 DEF Suppresses
<1>2. ASSUME NEW w \in Wake, WakeStep(w), receipts' # receipts PROVE Captures(w) \/ Suppresses(w)
  BY <1>1, <1>2, SaveFacts
  DEF WakeStep, StartWake, ReadSlate, NoTipoffs, ResolveSlate, CacheSlate, PlanCapture, Fetch,
      Decide, EndWake
<1>3. QED
  BY <1>2 DEF ForecastNext, MoveGame, Pass, ForecastVars

\* What is stored bears the instant of its wake and what it noted; a suppression has no content.
LEMMA StoredFacts ==
  ASSUME ForecastShape, \A w \in Wake : Noted(w), NEW w \in Wake, Captures(w) \/ Suppresses(w)
  PROVE  \E new : /\ receipts' = receipts \cup {new} /\ new \notin receipts
                  /\ new.at = wake[w].at /\ new.content = wake[w].content
                  /\ \/ /\ wake[w].stage = "save" /\ new.outcome = wake[w].outcome
                        /\ new.outcome = "changed" => ~Known(new.content)
                        /\ new.outcome = "unchanged" => Known(new.content)
                     \/ /\ wake[w].stage = "suppress" /\ new.outcome = "suppressed"
                        /\ new.content = None
<1>1. ASSUME NEW slot, NEW outcome, ~Stored(slot)
      PROVE  /\ NewReceipt(w, slot, outcome) \notin receipts
             /\ NewReceipt(w, slot, outcome).at = wake[w].at
             /\ NewReceipt(w, slot, outcome).content = wake[w].content
             /\ NewReceipt(w, slot, outcome).outcome = outcome
  BY <1>1 DEF NewReceipt, Stored
<1>2. CASE Captures(w)
  <2>1. PICK slot : /\ ~Refuses(slot, wake[w].outcome, wake[w].content)
                    /\ receipts' = receipts \cup {NewReceipt(w, slot, wake[w].outcome)}
    BY <1>2 DEF Captures
  <2>2. /\ ~Stored(slot)
        /\ wake[w].outcome = "changed" => ~Known(wake[w].content)
        /\ wake[w].outcome = "unchanged" => Known(wake[w].content)
    BY <2>1 DEF Refuses
  <2>3. wake[w].stage = "save"
    BY <1>2 DEF Captures, SaveCapture
  <2> HIDE DEF NewReceipt
  <2>4. QED
    BY <1>1, <2>1, <2>2, <2>3
<1>3. CASE Suppresses(w)
  <2>1. PICK slot : /\ ~Stored(slot)
                    /\ receipts' = receipts \cup {NewReceipt(w, slot, "suppressed")}
    BY <1>3 DEF Suppresses
  <2>2. wake[w].stage = "suppress" /\ wake[w].content = None
    BY <1>3 DEF Suppresses, SaveSuppressed, Noted
  <2>3. QED
    BY <1>1, <2>1, <2>2
<1>4. QED
  BY <1>2, <1>3

\* Every step keeps the shapes.
LEMMA ForecastShapeStep ==
  ASSUME ForecastShape, \A w \in Wake : Noted(w), [ForecastNext]_ForecastVars
  PROVE  ForecastShape' /\ \A w \in Wake : Noted(w)'
<1>1. wake' \in [Wake -> WakeShape] /\ \A w \in Wake : Noted(w)'
  <2>1. ASSUME NEW w \in Wake, WakeStep(w)
        PROVE  wake' \in [Wake -> WakeShape] /\ \A o \in Wake : Noted(o)'
    <3>1. wake' = [wake EXCEPT ![w] = wake'[w]] /\ wake'[w] \in WakeShape /\ Noted(w)'
      BY <2>1, WakeActs
    <3>2. \A o \in Wake \ {w} : wake'[o] = wake[o]
      <4>1. ASSUME NEW state, wake' = [wake EXCEPT ![w] = state]
            PROVE  \A o \in Wake \ {w} : wake'[o] = wake[o]
        BY <4>1 DEF ForecastShape
      <4>2. QED
        BY <3>1, <4>1
    <3>3. QED
      BY <3>1, <3>2 DEF ForecastShape, Noted
  <2>2. CASE wake' = wake
    BY <2>2 DEF ForecastShape, Noted
  <2>3. QED
    BY <2>1, <2>2 DEF ForecastNext, MoveGame, Pass, ForecastVars
<1>2. /\ IsFiniteSet(receipts')
      /\ \A r \in receipts' : /\ r.at \in 0..Horizon /\ r.outcome \in Requested \cup {"suppressed"}
                              /\ r.content \in Content \cup {None}
  <2>1. CASE receipts' = receipts
    BY <2>1 DEF ForecastShape
  <2>2. ASSUME NEW w \in Wake, Captures(w) \/ Suppresses(w)
        PROVE  /\ IsFiniteSet(receipts')
               /\ \A r \in receipts' : /\ r.at \in 0..Horizon
                                       /\ r.outcome \in Requested \cup {"suppressed"}
                                       /\ r.content \in Content \cup {None}
    <3>1. PICK new : /\ receipts' = receipts \cup {new} /\ new.at = wake[w].at
                     /\ new.content = wake[w].content
                     /\ \/ wake[w].stage = "save" /\ new.outcome = wake[w].outcome
                        \/ new.outcome = "suppressed"
      BY <2>2, StoredFacts
    <3>2. new.at \in 0..Horizon /\ new.content \in Content \cup {None}
      BY <3>1 DEF ForecastShape, WakeShape
    <3>3. new.outcome \in Requested \cup {"suppressed"}
      BY <3>1 DEF Noted, Requested
    <3>4. QED
      BY <3>1, <3>2, <3>3, FS_AddElement DEF ForecastShape
  <2>3. QED
    BY <2>1, <2>2, ReceiptsChange
<1>3. instant' \in 0..Horizon /\ tipoff' \in [Game -> TipTimes]
  <2>1. CASE Pass
    BY <2>1, ForecastAssumption DEF Pass, ForecastShape
  <2>2. CASE \E g \in Game : MoveGame(g)
    BY <2>2 DEF MoveGame, ForecastShape
  <2>3. CASE instant' = instant /\ tipoff' = tipoff
    BY <2>3 DEF ForecastShape
  <2>4. QED
    BY <2>1, <2>2, <2>3
    DEF ForecastNext, WakeStep, StartWake, ReadSlate, NoTipoffs, ResolveSlate, CacheSlate,
        PlanCapture, Fetch, Decide, SaveCapture, SaveSuppressed, EndWake, ForecastVars
<1>4. slate' \in [LocalDay(0)..LocalDay(Horizon) -> {NoSlate} \cup SUBSET TipTimes]
  <2>1. ASSUME NEW w \in Wake, CacheSlate(w)
        PROVE  slate' \in [LocalDay(0)..LocalDay(Horizon) -> {NoSlate} \cup SUBSET TipTimes]
    <3>1. wake[w].slate \in SUBSET TipTimes
      BY DEF ForecastShape, WakeShape
    <3>2. QED
      BY <2>1, <3>1 DEF CacheSlate, ForecastShape
  <2>2. CASE slate' = slate
    BY <2>2 DEF ForecastShape
  <2>3. QED
    BY <2>1, <2>2
    DEF ForecastNext, WakeStep, StartWake, ReadSlate, NoTipoffs, ResolveSlate, PlanCapture, Fetch,
        Decide, SaveCapture, SaveSuppressed, EndWake, MoveGame, Pass, ForecastVars
<1>5. /\ requests' \in [0..UtcDay(Horizon) -> Nat]
      /\ unrecorded' \in [0..UtcDay(Horizon) -> Nat]
  <2>0. \A w \in Wake : UtcDay(wake[w].at) \in 0..UtcDay(Horizon)
    BY DaysOfWakes DEF ForecastShape, WakeShape
  <2>1. ASSUME NEW f \in [0..UtcDay(Horizon) -> Nat], NEW d \in 0..UtcDay(Horizon)
        PROVE  [f EXCEPT ![d] = @ + 1] \in [0..UtcDay(Horizon) -> Nat]
    OBVIOUS
  <2>2. \/ requests' = requests
        \/ \E w \in Wake : requests' = [requests EXCEPT ![UtcDay(wake[w].at)] = @ + 1]
    BY DEF ForecastNext, WakeStep, StartWake, ReadSlate, NoTipoffs, ResolveSlate, CacheSlate,
           PlanCapture, Fetch, Decide, SaveCapture, SaveSuppressed, EndWake, MoveGame, Pass,
           ForecastVars
  <2>3. \/ unrecorded' = unrecorded
        \/ \E w \in Wake : unrecorded' = [unrecorded EXCEPT ![UtcDay(wake[w].at)] = @ + 1]
    <3>1. ASSUME NEW w \in Wake, SaveCapture(w) \/ EndWake(w)
          PROVE  \/ unrecorded' = unrecorded
                 \/ unrecorded' = [unrecorded EXCEPT ![UtcDay(wake[w].at)] = @ + 1]
      BY <3>1, SaveFacts DEF EndWake, Captures
    <3>2. QED
      BY <3>1
      DEF ForecastNext, WakeStep, StartWake, ReadSlate, NoTipoffs, ResolveSlate, CacheSlate,
          PlanCapture, Fetch, Decide, SaveSuppressed, MoveGame, Pass, ForecastVars
  <2>4. requests \in [0..UtcDay(Horizon) -> Nat] /\ unrecorded \in [0..UtcDay(Horizon) -> Nat]
    BY DEF ForecastShape
  <2>5. QED
    BY <2>0, <2>1, <2>2, <2>3, <2>4
<1>6. QED
  BY <1>1, <1>2, <1>3, <1>4, <1>5 DEF ForecastShape

-----------------------------------------------------------------------------
(* New content *)

\* A content is introduced once: the batch that calls it new is refused if it is not.
LEMMA IntroducedStep ==
  ASSUME ForecastShape, \A w \in Wake : Noted(w), [ForecastNext]_ForecastVars,
         NEW c \in Content, Introduced(c)
  PROVE  Introduced(c)'
<1>1. CASE receipts' = receipts
  BY <1>1 DEF Introduced, Known
<1>2. ASSUME NEW w \in Wake, Captures(w) \/ Suppresses(w) PROVE Introduced(c)'
  <2>1. PICK new : /\ receipts' = receipts \cup {new}
                   /\ new.content = wake[w].content
                   /\ \/ /\ wake[w].stage = "save" /\ new.outcome = wake[w].outcome
                         /\ new.outcome = "changed" => ~Known(new.content)
                         /\ new.outcome = "unchanged" => Known(new.content)
                      \/ new.outcome = "suppressed" /\ new.content = None
    BY <1>2, StoredFacts
  <2>2. CASE new.content # c
    BY <2>1, <2>2 DEF Introduced, Known
  <2>3. CASE new.content = c
    <3>1. c # None
      BY ForecastAssumption
    <3>2. new.outcome \in {"changed", "unchanged"}
      BY <2>1, <2>3, <3>1 DEF Noted
    <3>3. CASE new.outcome = "changed"
      BY <2>1, <2>3, <3>1, <3>3 DEF Introduced, Known
    <3>4. CASE new.outcome = "unchanged"
      BY <2>1, <2>3, <3>1, <3>4 DEF Introduced, Known
    <3>5. QED
      BY <3>2, <3>3, <3>4
  <2>4. QED
    BY <2>2, <2>3
<1>3. QED
  BY <1>1, <1>2, ReceiptsChange

-----------------------------------------------------------------------------
(* Requests *)

\* The counts are numbers.
LEMMA CountsFinite ==
  ASSUME ForecastShape, NEW d
  PROVE  /\ IsFiniteSet(Recorded(d)) /\ IsFiniteSet(Asking(d)) /\ IsFiniteSet(Asked(d))
         /\ Cardinality(Recorded(d)) \in Nat /\ Cardinality(Asking(d)) \in Nat
         /\ Cardinality(Asked(d)) \in Nat /\ Cardinality(Wake) \in Nat
         /\ Cardinality(Asking(d)) <= Cardinality(Wake)
         /\ Cardinality(Asked(d)) <= Cardinality(Asking(d))
<1>1. IsFiniteSet(Wake) /\ IsFiniteSet(receipts)
  BY ForecastAssumption DEF ForecastShape
<1>2. /\ Recorded(d) \in SUBSET receipts /\ Asking(d) \in SUBSET Wake
      /\ Asked(d) \in SUBSET Asking(d)
  BY DEF Recorded, Asking, Asked
<1>3. IsFiniteSet(Recorded(d)) /\ IsFiniteSet(Asking(d))
  BY <1>1, <1>2, FS_Subset
<1>4. IsFiniteSet(Asked(d))
  BY <1>2, <1>3, FS_Subset
<1>5. Cardinality(Asking(d)) <= Cardinality(Wake) /\ Cardinality(Asked(d)) <= Cardinality(Asking(d))
  BY <1>1, <1>2, <1>3, FS_Subset
<1>6. QED
  BY <1>1, <1>3, <1>4, <1>5, FS_CardinalityType

\* How the sets of wakes change with the stage of the one that acts, on its day and on others.
LEMMA AskersChange ==
  ASSUME ForecastShape, NEW w \in Wake, NEW d, wake' = [wake EXCEPT ![w] = wake'[w]],
         wake'[w].at = wake[w].at \/ (wake[w].stage \notin {"fetch", "decide", "save"} /\
                                      wake'[w].stage \notin {"fetch", "decide", "save"})
                                  \/ wake'[w].stage = "idle"
  PROVE  /\ Asking(d)' = IF UtcDay(wake[w].at) # d THEN Asking(d)
                         ELSE IF wake'[w].stage \in {"fetch", "decide", "save"}
                         THEN Asking(d) \cup {w} ELSE Asking(d) \ {w}
         /\ Asked(d)' = IF UtcDay(wake[w].at) # d THEN Asked(d)
                        ELSE IF wake'[w].stage \in {"decide", "save"}
                        THEN Asked(d) \cup {w} ELSE Asked(d) \ {w}
<1>1. \A o \in Wake \ {w} : wake'[o] = wake[o]
  <2>1. ASSUME NEW state, wake' = [wake EXCEPT ![w] = state]
        PROVE  \A o \in Wake \ {w} : wake'[o] = wake[o]
    BY <2>1 DEF ForecastShape
  <2>2. QED
    BY <2>1
<1>2. CASE wake'[w].at = wake[w].at
  <2>1. UtcDay(wake'[w].at) = UtcDay(wake[w].at)
    BY <1>2
  <2> HIDE DEF UtcDay
  <2>2. QED
    BY <1>1, <2>1 DEF Asking, Asked
<1>3. CASE /\ wake[w].stage \notin {"fetch", "decide", "save"}
           /\ wake'[w].stage \notin {"fetch", "decide", "save"}
  BY <1>1, <1>3 DEF Asking, Asked
<1>4. CASE wake'[w].stage = "idle"
  BY <1>1, <1>4 DEF Asking, Asked
<1>5. QED
  BY <1>2, <1>3, <1>4

\* When no request is sent or recorded, the account stays as it is.
LEMMA NothingAsked ==
  ASSUME NEW d, Accounted(d), Asking(d)' = Asking(d), Asked(d)' = Asked(d),
         requests' = requests, unrecorded' = unrecorded, Recorded(d)' = Recorded(d)
  PROVE  Accounted(d)'
  BY DEF Accounted

\* Only receipts record requests.
LEMMA Unreceipted ==
  ASSUME NEW d, receipts' = receipts
  PROVE  Recorded(d)' = Recorded(d)
  BY DEF Recorded

\* A suppression is no request.
LEMMA SuppressedIsNotRecorded ==
  ASSUME ForecastShape, \A w \in Wake : Noted(w), NEW w \in Wake, SaveSuppressed(w), NEW d,
         [ForecastNext]_ForecastVars
  PROVE  Recorded(d)' = Recorded(d)
<1>1. CASE receipts' = receipts
  BY <1>1, Unreceipted
<1>2. ASSUME NEW slot, receipts' = receipts \cup {NewReceipt(w, slot, "suppressed")}
      PROVE  Recorded(d)' = Recorded(d)
  BY <1>2 DEF NewReceipt, Recorded, Requested
<1>3. QED
  BY <1>1, <1>2 DEF SaveSuppressed

\* The day's requests stay accounted for, and within the cap and the wakes at work.
LEMMA AccountedStep ==
  ASSUME ForecastShape, \A w \in Wake : Noted(w), [ForecastNext]_ForecastVars,
         NEW d \in 0..UtcDay(Horizon), Accounted(d)
  PROVE  Accounted(d)'
<1>0. /\ requests[d] \in Nat /\ unrecorded[d] \in Nat /\ Cap \in Nat
      /\ requests \in [0..UtcDay(Horizon) -> Nat] /\ unrecorded \in [0..UtcDay(Horizon) -> Nat]
      /\ wake \in [Wake -> WakeShape]
      /\ \A w \in Wake : UtcDay(wake[w].at) \in 0..UtcDay(Horizon)
  BY ForecastAssumption, DaysOfWakes DEF ForecastShape, WakeShape
<1>c. /\ IsFiniteSet(Recorded(d)) /\ IsFiniteSet(Asking(d)) /\ IsFiniteSet(Asked(d))
      /\ Cardinality(Recorded(d)) \in Nat /\ Cardinality(Asking(d)) \in Nat
      /\ Cardinality(Asked(d)) \in Nat /\ Cardinality(Wake) \in Nat
  BY CountsFinite
<1>p. ForecastShape' /\ \A w \in Wake : Noted(w)'
  BY ForecastShapeStep
<1>1. CASE wake' = wake /\ requests' = requests /\ unrecorded' = unrecorded /\ receipts' = receipts
  <2>1. Asking(d)' = Asking(d) /\ Asked(d)' = Asked(d)
    BY <1>1 DEF Asking, Asked
  <2>2. QED
    BY <1>1, <2>1, NothingAsked, Unreceipted
<1>2. ASSUME NEW w \in Wake, WakeStep(w) PROVE Accounted(d)'
  <2> DEFINE day == UtcDay(wake[w].at)
  <2>0. wake' = [wake EXCEPT ![w] = wake'[w]]
    BY <1>2, WakeActs
  <2>1. ASSUME wake[w].stage \notin {"fetch", "decide", "save"},
               wake'[w].stage \notin {"fetch", "decide", "save"},
               requests' = requests, unrecorded' = unrecorded, Recorded(d)' = Recorded(d)
        PROVE  Accounted(d)'
    <3>1. Asking(d)' = Asking(d) /\ Asked(d)' = Asked(d)
      <4>1. w \notin Asking(d) /\ w \notin Asked(d)
        BY <2>1 DEF Asking, Asked
      <4>2. QED
        BY <2>0, <2>1, <4>1, AskersChange
    <3>2. QED
      BY <2>1, <3>1, NothingAsked
  <2>2. CASE StartWake(w)
    <3>1. requests' = requests /\ unrecorded' = unrecorded /\ receipts' = receipts
      BY <2>2 DEF StartWake
    <3>2. QED
      BY <2>1, <2>2, <3>1, StartFacts, Unreceipted
  <2>3. CASE ReadSlate(w) \/ NoTipoffs(w) \/ ResolveSlate(w) \/ CacheSlate(w)
    <3>1. requests' = requests /\ unrecorded' = unrecorded /\ receipts' = receipts
      BY <2>3 DEF ReadSlate, NoTipoffs, ResolveSlate, CacheSlate
    <3>2. QED
      BY <2>1, <2>3, <3>1, SlateFacts, Unreceipted DEF Moves
  <2>4. CASE PlanCapture(w)
    <3>1. requests' = requests /\ unrecorded' = unrecorded /\ receipts' = receipts
      BY <2>4 DEF PlanCapture
    <3>2. CASE wake'[w] = Asleep \/ Moves(w, {"plan"}, {"suppress"})
      BY <2>1, <2>4, <3>1, <3>2, AsleepShape, PlanFacts, Unreceipted DEF Moves
    <3>3. CASE Moves(w, {"plan"}, {"fetch"}) /\ Cardinality(Recorded(day)) < Cap
      <4>1. wake[w].stage = "plan" /\ wake'[w].stage = "fetch" /\ wake'[w].at = wake[w].at
        BY <3>3 DEF Moves
      <4>2. w \notin Asked(d)
        BY <4>1 DEF Asked
      <4>3. Asked(d)' = Asked(d)
        BY <2>0, <4>1, <4>2, AskersChange, SMTT(30)
      <4>4. CASE day # d
        <5>1. Asking(d)' = Asking(d)
          BY <2>0, <4>1, <4>4, AskersChange
        <5>2. QED
          BY <3>1, <4>3, <5>1, NothingAsked, Unreceipted
      <4>5. CASE day = d
        <5>1. Cardinality(Asking(d)') \in Nat /\ Cardinality(Asking(d)') <= Cardinality(Wake)
          <6>1. Asking(d)' \in SUBSET Wake /\ IsFiniteSet(Wake)
            BY ForecastAssumption DEF Asking
          <6>2. QED
            BY <6>1, FS_Subset, FS_CardinalityType
        <5>2. Recorded(d)' = Recorded(d) /\ Cardinality(Recorded(d)) < Cap
          BY <3>1, <3>3, <4>5, Unreceipted
        <5>3. Cardinality(Recorded(d)) + Cardinality(Asking(d)') <= Cap - 1 + Cardinality(Wake)
          BY <1>0, <1>c, <5>1, <5>2
        <5>4. QED
          BY <3>1, <4>3, <5>2, <5>3 DEF Accounted
      <4>6. QED
        BY <4>4, <4>5
    <3>4. QED
      BY <2>4, <3>2, <3>3, PlanFacts
  <2>5. CASE Fetch(w)
    <3>1. /\ requests' = [requests EXCEPT ![day] = @ + 1] /\ unrecorded' = unrecorded
          /\ receipts' = receipts
      BY <2>5 DEF Fetch
    <3>2. /\ wake[w].stage = "fetch" /\ wake'[w].at = wake[w].at
          /\ wake'[w].stage \in {"decide", "save"}
      BY <2>5, FetchFacts
    <3>3. Recorded(d)' = Recorded(d)
      BY <3>1, Unreceipted
    <3>4. Asking(d)' = Asking(d)
      <4>1. day = d => w \in Asking(d)
        BY <3>2 DEF Asking
      <4>2. QED
        BY <2>0, <3>2, <4>1, AskersChange
    <3>5. CASE day # d
      <4>1. Asked(d)' = Asked(d) /\ requests'[d] = requests[d]
        BY <1>0, <2>0, <3>1, <3>2, <3>5, AskersChange
      <4>2. QED
        BY <3>1, <3>3, <3>4, <4>1 DEF Accounted
    <3>6. CASE day = d
      <4>1. Asked(d)' = Asked(d) \cup {w} /\ w \notin Asked(d)
        BY <2>0, <3>2, <3>6, AskersChange, SMTT(30) DEF Asked
      <4>2. Cardinality(Asked(d)') = Cardinality(Asked(d)) + 1
        BY <1>c, <4>1, FS_AddElement
      <4>3. requests'[d] = requests[d] + 1
        BY <1>0, <3>1, <3>6
      <4>4. QED
        BY <1>0, <1>c, <3>1, <3>3, <3>4, <4>2, <4>3 DEF Accounted
    <3>7. QED
      BY <3>5, <3>6
  <2>6. CASE Decide(w)
    <3>1. requests' = requests /\ unrecorded' = unrecorded /\ receipts' = receipts
      BY <2>6 DEF Decide
    <3>2. wake[w].stage = "decide" /\ wake'[w].stage = "save" /\ wake'[w].at = wake[w].at
      BY <2>6, DecideFacts DEF Moves
    <3>3. day = d => w \in Asking(d) /\ w \in Asked(d)
      BY <3>2 DEF Asking, Asked
    <3>4. Asking(d)' = Asking(d) /\ Asked(d)' = Asked(d)
      BY <2>0, <3>2, <3>3, AskersChange
    <3>5. QED
      BY <3>1, <3>4, NothingAsked, Unreceipted
  <2>7. CASE SaveSuppressed(w)
    <3>1. requests' = requests /\ unrecorded' = unrecorded
      BY <2>7 DEF SaveSuppressed
    <3>2. wake[w].stage = "suppress" /\ wake'[w].stage \in {"idle", "suppress"}
      BY <2>7, SuppressFacts, AsleepShape DEF Moves
    <3>3. QED
      BY <2>1, <2>7, <3>1, <3>2, SuppressedIsNotRecorded
  <2>8. ASSUME wake[w].stage \in {"decide", "save"}, wake'[w].stage = "idle",
               requests' = requests,
               \/ /\ unrecorded' = [unrecorded EXCEPT ![day] = @ + 1]
                  /\ receipts' = receipts
               \/ /\ unrecorded' = unrecorded
                  /\ \E new : /\ receipts' = receipts \cup {new} /\ new \notin receipts
                              /\ new.at = wake[w].at /\ new.outcome \in Requested
        PROVE  Accounted(d)'
    <3>a. /\ requests[d] = Cardinality(Recorded(d)) + unrecorded[d] + Cardinality(Asked(d))
          /\ Cardinality(Recorded(d)) + Cardinality(Asking(d)) <= Cap - 1 + Cardinality(Wake)
      BY DEF Accounted
    <3>b. requests'[d] = requests[d]
      BY <2>8
    <3>t. /\ requests[d] \in Int /\ unrecorded[d] \in Int /\ Cap \in Int
          /\ Cardinality(Recorded(d)) \in Int /\ Cardinality(Asking(d)) \in Int
          /\ Cardinality(Asked(d)) \in Int /\ Cardinality(Wake) \in Int
      BY <1>0, <1>c
    <3>1. CASE day # d
      <4>1. Asking(d)' = Asking(d) /\ Asked(d)' = Asked(d)
        BY <2>0, <2>8, <3>1, AskersChange
      <4>2. unrecorded'[d] = unrecorded[d]
        BY <1>0, <2>8, <3>1
      <4>3. Recorded(d)' = Recorded(d)
        BY <2>8, <3>1 DEF Recorded
      <4>4. QED
        BY <2>8, <4>1, <4>2, <4>3 DEF Accounted
    <3>2. CASE day = d
      <4>1. /\ Asking(d)' = Asking(d) \ {w} /\ Asked(d)' = Asked(d) \ {w}
            /\ w \in Asking(d) /\ w \in Asked(d)
        BY <2>0, <2>8, <3>2, AskersChange DEF Asking, Asked
      <4>2. /\ Cardinality(Asking(d)') = Cardinality(Asking(d)) - 1
            /\ Cardinality(Asked(d)') = Cardinality(Asked(d)) - 1
        BY <1>c, <4>1, FS_RemoveElement
      <4>3. CASE unrecorded' = [unrecorded EXCEPT ![day] = @ + 1] /\ receipts' = receipts
        <5>1. unrecorded'[d] = unrecorded[d] + 1 /\ Recorded(d)' = Recorded(d)
          BY <1>0, <3>2, <4>3, Unreceipted
        <5>2. /\ requests'[d] = Cardinality(Recorded(d)') + unrecorded'[d] + Cardinality(Asked(d)')
              /\ Cardinality(Recorded(d)') + Cardinality(Asking(d)') <= Cap - 1 + Cardinality(Wake)
          <6>1. requests'[d] = Cardinality(Recorded(d)') + unrecorded'[d] + Cardinality(Asked(d)')
            BY <3>t, <3>a, <3>b, <4>2, <5>1
          <6>2. Cardinality(Recorded(d)') + Cardinality(Asking(d)') <= Cap - 1 + Cardinality(Wake)
            BY <3>t, <3>a, <4>2, <5>1
          <6>3. QED
            BY <6>1, <6>2
        <5>3. QED
          BY <5>2 DEF Accounted
      <4>4. ASSUME unrecorded' = unrecorded,
                   NEW new, receipts' = receipts \cup {new}, new \notin receipts,
                   new.at = wake[w].at, new.outcome \in Requested
            PROVE  Accounted(d)'
        <5>1. Recorded(d)' = Recorded(d) \cup {new} /\ new \notin Recorded(d)
          BY <3>2, <4>4 DEF Recorded
        <5>2. Cardinality(Recorded(d)') = Cardinality(Recorded(d)) + 1
          BY <1>c, <5>1, FS_AddElement
        <5>3. /\ requests'[d] = Cardinality(Recorded(d)') + unrecorded'[d] + Cardinality(Asked(d)')
              /\ Cardinality(Recorded(d)') + Cardinality(Asking(d)') <= Cap - 1 + Cardinality(Wake)
          <6>1. requests'[d] = Cardinality(Recorded(d)') + unrecorded'[d] + Cardinality(Asked(d)')
            BY <3>t, <3>a, <3>b, <4>2, <4>4, <5>2
          <6>2. Cardinality(Recorded(d)') + Cardinality(Asking(d)') <= Cap - 1 + Cardinality(Wake)
            BY <3>t, <3>a, <4>2, <4>4, <5>2
          <6>3. QED
            BY <6>1, <6>2
        <5>4. QED
          BY <5>3 DEF Accounted
      <4>5. QED
        BY <2>8, <4>3, <4>4
    <3>3. QED
      BY <3>1, <3>2
  <2>9. CASE SaveCapture(w)
    <3>1. /\ wake[w].stage = "save" /\ wake'[w].stage = "idle" /\ requests' = requests
      BY <2>9, EndsAsleep, AsleepShape DEF SaveCapture
    <3>2. CASE Captures(w)
      <4>1. PICK new : /\ receipts' = receipts \cup {new} /\ new \notin receipts
                       /\ new.at = wake[w].at
                       /\ \/ new.outcome = wake[w].outcome
                          \/ wake[w].stage = "suppress"
        BY <3>2, StoredFacts
      <4>2. new.outcome \in Requested
        BY <3>1, <4>1 DEF Noted, Requested
      <4>3. QED
        BY <2>8, <3>1, <3>2, <4>1, <4>2 DEF Captures
    <3>3. QED
      BY <2>8, <2>9, <3>1, <3>2, SaveFacts
  <2>10. CASE EndWake(w)
    <3>1. /\ wake'[w].stage = "idle" /\ requests' = requests /\ receipts' = receipts
          /\ unrecorded' = IF wake[w].stage \in {"decide", "save"}
                           THEN [unrecorded EXCEPT ![day] = @ + 1] ELSE unrecorded
      BY <2>10, EndsAsleep, AsleepShape DEF EndWake
    <3>2. CASE wake[w].stage \in {"decide", "save"}
      BY <2>8, <3>1, <3>2
    <3>3. CASE wake[w].stage \notin {"decide", "save"} /\ (wake[w].stage # "fetch" \/ day # d)
      <4>1. w \notin Asking(d) /\ w \notin Asked(d)
        BY <3>3 DEF Asking, Asked
      <4>2. Asking(d)' = Asking(d) /\ Asked(d)' = Asked(d)
        <5>1. wake'[w].stage = "idle"
          BY <3>1
        <5>2. QED
          BY <2>0, <4>1, <5>1, AskersChange
      <4>3. QED
        BY <3>1, <3>3, <4>2, NothingAsked, Unreceipted
    <3>4. CASE wake[w].stage = "fetch" /\ day = d
      <4>1. Asking(d)' = Asking(d) \ {w} /\ Asked(d)' = Asked(d) /\ w \in Asking(d)
        BY <2>0, <3>1, <3>4, AskersChange DEF Asking, Asked
      <4>2. Cardinality(Asking(d)') = Cardinality(Asking(d)) - 1
        BY <1>c, <4>1, FS_RemoveElement
      <4>3. Recorded(d)' = Recorded(d) /\ unrecorded' = unrecorded
        BY <3>1, <3>4, Unreceipted
      <4>4. QED
        BY <1>0, <1>c, <3>1, <4>1, <4>2, <4>3, SMTT(30) DEF Accounted
    <3>5. QED
      BY <3>2, <3>3, <3>4
  <2>11. QED
    BY <1>2, <2>2, <2>3, <2>4, <2>5, <2>6, <2>7, <2>9, <2>10 DEF WakeStep
<1>3. QED
  BY <1>1, <1>2 DEF ForecastNext, MoveGame, Pass, ForecastVars

-----------------------------------------------------------------------------
(* The slots of a slate *)

\* Where the slots of the tipoffs may be.
Targets == {t - Lead : t \in TipTimes}
Later(T) == {t \in T : t - Earliest(T) > Window}

\* There are finitely many of them.
LEMMA TargetFacts ==
  /\ Targets \subseteq Int /\ \A t \in Targets : -Day <= t
  /\ Cardinality(Targets) \in Nat
  /\ \A T \in SUBSET Targets : IsFiniteSet(T) /\ Cardinality(T) \in 0..Cardinality(Targets)
<1>1. Lead \in Nat /\ Lead <= Day /\ Day \in Nat /\ TipTimes \subseteq Nat
  BY ForecastAssumption
<1>2. Targets \subseteq Int /\ \A t \in Targets : -Day <= t
  BY <1>1 DEF Targets
<1>3. IsFiniteSet(Targets)
  <2>1. IsFiniteSet(TipTimes)
    BY ForecastAssumption
  <2> DEFINE f == [t \in TipTimes |-> t - Lead]
  <2>2. f \in Surjection(TipTimes, Targets)
    BY DEF Surjection, Targets
  <2> HIDE DEF f
  <2>3. QED
    BY <2>1, <2>2, FS_Surjection
<1>4. ASSUME NEW T \in SUBSET Targets
      PROVE  IsFiniteSet(T) /\ Cardinality(T) \in 0..Cardinality(Targets)
  <2>1. IsFiniteSet(T) /\ Cardinality(T) <= Cardinality(Targets)
    BY <1>3, FS_Subset
  <2>2. Cardinality(T) \in Nat /\ Cardinality(Targets) \in Nat
    BY <1>3, <2>1, FS_CardinalityType
  <2>3. QED
    BY <2>1, <2>2
<1>5. QED
  BY <1>2, <1>3, <1>4, FS_CardinalityType

\* The earliest of some instants is one of them.
LEMMA EarliestFacts ==
  ASSUME NEW T \in SUBSET Int, T # {}, \A t \in T : -Day <= t
  PROVE  Earliest(T) \in T /\ \A u \in T : Earliest(T) <= u
<1>1. -Day \in Int
  BY ForecastAssumption
<1>2. \E t \in T : \A u \in T : t <= u
  BY <1>1, LeastInteger
<1>3. QED
  BY <1>2 DEF Earliest

\* Fewer targets are left after each group.
LEMMA LaterFacts ==
  ASSUME NEW T \in SUBSET Targets, T # {}
  PROVE  /\ Earliest(T) \in T /\ \A u \in T : Earliest(T) <= u
         /\ Later(T) \subseteq T /\ Cardinality(Later(T)) < Cardinality(T)
<1>1. Earliest(T) \in T /\ \A u \in T : Earliest(T) <= u
  BY TargetFacts, EarliestFacts
<1>2. Later(T) \subseteq T
  BY DEF Later
<1>3. Earliest(T) \notin Later(T)
  <2>1. Window \in Nat /\ Earliest(T) \in Int
    BY <1>1, TargetFacts, ForecastAssumption
  <2>2. ~(Earliest(T) - Earliest(T) > Window)
    BY <2>1
  <2>3. QED
    BY <2>2 DEF Later
<1>4. IsFiniteSet(T)
  BY TargetFacts
<1>5. Cardinality(Later(T)) <= Cardinality(T) /\ Cardinality(Later(T)) # Cardinality(T)
  BY <1>1, <1>2, <1>3, <1>4, FS_Subset
<1>6. Cardinality(Later(T)) \in Nat /\ Cardinality(T) \in Nat
  BY <1>2, TargetFacts
<1>7. QED
  BY <1>1, <1>2, <1>5, <1>6

\* The grouping is defined for every slate: each group leaves fewer targets.
LEMMA CoalescedEquation ==
  ASSUME NEW T \in SUBSET Targets
  PROVE  Coalesced[T] = IF T = {} THEN {} ELSE {Earliest(T)} \cup Coalesced[Later(T)]
<1> DEFINE D == SUBSET Targets
           bound == Cardinality(Targets)
           measure == [U \in D |-> Cardinality(U)]
           leaf == {{}}
           next == [U \in D |-> Later(U)]
           first == [U \in D |-> {}]
           step == [U \in D |-> [found \in D |-> IF U = {} THEN {} ELSE {Earliest(U)} \cup found]]
<1>1. bound \in Nat /\ measure \in [D -> 0..bound]
  BY TargetFacts
<1>2. leaf \in SUBSET D /\ first \in [D -> D] /\ next \in [D -> D]
  BY DEF Later
<1>3. step \in [D -> [D -> D]]
  <2>1. ASSUME NEW U \in D, NEW found \in D
        PROVE  (IF U = {} THEN {} ELSE {Earliest(U)} \cup found) \in D
    BY LaterFacts
  <2>2. QED
    BY <2>1
<1>4. \A U \in D \ leaf : measure[next[U]] < measure[U]
  BY <1>2, LaterFacts
<1>d. Descends(D, D, bound, measure, leaf, next, first, step)
  BY <1>1, <1>2, <1>3, <1>4 DEF Descends
<1> HIDE DEF D, bound, measure, leaf, next, first, step
<1>e. PICK f : Computes(f, D, D, leaf, next, first, step)
  BY <1>d, Recursion
<1>5. /\ f \in [D -> D]
      /\ f = [U \in D |-> IF U \in leaf THEN first[U] ELSE step[U][f[next[U]]]]
  BY <1>e DEF Computes
<1>6. f = [U \in D |-> IF U = {} THEN {} ELSE {Earliest(U)} \cup f[Later(U)]]
  <2>1. ASSUME NEW U \in D
        PROVE  f[U] = IF U = {} THEN {} ELSE {Earliest(U)} \cup f[Later(U)]
    <3>1. f[U] = IF U \in leaf THEN first[U] ELSE step[U][f[next[U]]]
      BY <1>5
    <3>2. next[U] = Later(U) /\ Later(U) \in D
      BY DEF D, next, Later
    <3>3. f[Later(U)] \in D
      BY <1>5, <3>2
    <3>4. QED
      BY <3>1, <3>2, <3>3 DEF leaf, first, step
  <2>2. QED
    BY <1>5, <2>1
<1>7. Coalesced = [U \in D |-> IF U = {} THEN {} ELSE {Earliest(U)} \cup Coalesced[Later(U)]]
  BY <1>6, Zenon DEF Coalesced, D, Targets, Later
<1>8. QED
  BY <1>7 DEF D

\* The slots are among the targets, more than Window apart.
Apart(S) == \A t, u \in S : t < u => u - t > Window

\* That is what coalescing leaves.
LEMMA CoalescedFacts ==
  ASSUME NEW T \in SUBSET Targets
  PROVE  Coalesced[T] \subseteq T /\ Apart(Coalesced[T])
<1> DEFINE Sound(U) == Coalesced[U] \subseteq U /\ Apart(Coalesced[U])
           N == {n \in Nat : \A U \in SUBSET Targets : Cardinality(U) <= n => Sound(U)}
<1>1. Sound({})
  <2>1. Coalesced[{}] = {}
    BY CoalescedEquation
  <2>2. QED
    BY <2>1 DEF Apart
<1>2. ASSUME NEW U \in SUBSET Targets, U # {}, Sound(Later(U)) PROVE Sound(U)
  <2>1. /\ Coalesced[U] = {Earliest(U)} \cup Coalesced[Later(U)]
        /\ Earliest(U) \in U /\ Later(U) \subseteq U /\ \A t \in U : Earliest(U) <= t
    BY <1>2, CoalescedEquation, LaterFacts
  <2>2. \A t \in Coalesced[Later(U)] : t - Earliest(U) > Window
    BY <1>2 DEF Later
  <2>3. U \subseteq Int
    BY TargetFacts
  <2>4. ASSUME NEW t \in Coalesced[U], NEW u \in Coalesced[U], t < u PROVE u - t > Window
    <3>0. t \in U /\ u \in U /\ t \in Int /\ u \in Int
      BY <1>2, <2>1, <2>3, <2>4
    <3>1. CASE u = Earliest(U)
      BY <2>1, <2>4, <3>0, <3>1
    <3>2. CASE u # Earliest(U)
      BY <1>2, <2>1, <2>2, <2>4, <3>2 DEF Apart
    <3>3. QED
      BY <3>1, <3>2
  <2>5. QED
    BY <1>2, <2>1, <2>4 DEF Apart
<1> HIDE DEF Sound
<1>3. \A U \in SUBSET Targets : IsFiniteSet(U) /\ Cardinality(U) \in Nat
  BY TargetFacts
<1>4. 0 \in N
  <2>1. ASSUME NEW U \in SUBSET Targets, Cardinality(U) <= 0 PROVE U = {}
    BY <1>3, <2>1, FS_EmptySet
  <2>2. QED
    BY <1>1, <2>1
<1>5. ASSUME NEW n \in Nat, n \in N PROVE n + 1 \in N
  <2>1. ASSUME NEW U \in SUBSET Targets, Cardinality(U) <= n + 1 PROVE Sound(U)
    <3>1. CASE U = {}
      BY <1>1, <3>1
    <3>2. CASE U # {}
      <4>1. Later(U) \in SUBSET Targets /\ Cardinality(Later(U)) < Cardinality(U)
        BY <3>2, LaterFacts
      <4>2. Cardinality(Later(U)) <= n
        BY <1>3, <2>1, <4>1
      <4>3. QED
        BY <1>2, <1>5, <3>2, <4>1, <4>2
    <3>3. QED
      BY <3>1, <3>2
  <2>2. QED
    BY <2>1
<1> HIDE DEF N
<1>6. Cardinality(T) \in N
  BY <1>3, <1>4, <1>5, AllNaturals
<1>7. QED
  BY <1>3, <1>6 DEF N, Sound

-----------------------------------------------------------------------------
(* The slots of the wakes and of the receipts *)

\* What a slate asks for on the day of an instant, up to that instant.
Candidates(at, tipoffs) == {t \in {DailyAt(at)} \cup PreTipoff(tipoffs) : t <= at}

\* A wake has a slate once it looked for one, and slots from its plan until it ends, of that slate
\* and its day.
Slotted(w) ==
  /\ wake[w].stage = "slate" => wake[w].slate = {}
  /\ wake[w].stage \in {"idle", "slate", "cache", "plan"} => wake[w].slots = {}
  /\ wake[w].stage \in {"fetch", "decide", "save", "suppress"} =>
       wake[w].slots # {} /\ wake[w].slots \subseteq Candidates(wake[w].at, wake[w].slate)

\* Unless two wakes resolved the slate of the day at once, it is cached once, and whoever planned
\* had it or none.
Resolving(w, d) == wake[w].stage = "cache" /\ LocalDay(wake[w].at) = d
Resolved(w, d) ==
  /\ wake[w].stage \in {"plan", "fetch", "decide", "save", "suppress"}
  /\ LocalDay(wake[w].at) = d
OneSlate(d) ==
  /\ \A w, o \in Wake : Resolving(w, d) /\ Resolving(o, d) => w = o
  /\ \A w \in Wake : Resolving(w, d) => slate[d] = NoSlate
  /\ \A w \in Wake : Resolved(w, d) =>
       wake[w].slate = {} \/ (slate[d] # NoSlate /\ wake[w].slate = slate[d])
  /\ \A r \in receipts : LocalDay(r.at) = d =>
       r.slot = DailyAt(r.at) \/ (slate[d] # NoSlate /\ r.slot \in PreTipoff(slate[d]))

LocalDays == LocalDay(0)..LocalDay(Horizon)
SlotInv ==
  /\ fired \in BOOLEAN /\ raced \subseteq LocalDays /\ receipts \subseteq Receipt
  /\ \A w \in Wake : Slotted(w)
  /\ \A d \in LocalDays \ raced : OneSlate(d)

\* The slots of a slate.
LEMMA PreTipoffFacts ==
  ASSUME NEW tipoffs \in SUBSET TipTimes
  PROVE  /\ PreTipoff(tipoffs) \subseteq Targets /\ Apart(PreTipoff(tipoffs))
         /\ tipoffs = {} => PreTipoff(tipoffs) = {}
<1> DEFINE T == {t - Lead : t \in tipoffs}
<1>1. T \in SUBSET Targets
  BY DEF Targets
<1>2. Coalesced[T] \subseteq T /\ Apart(Coalesced[T])
  BY <1>1, CoalescedFacts
<1>3. tipoffs = {} => T = {}
  OBVIOUS
<1> HIDE DEF T
<1>4. Coalesced[T] \subseteq Targets /\ (tipoffs = {} => Coalesced[T] = {})
  BY <1>1, <1>2, <1>3
<1>5. QED
  BY <1>2, <1>4 DEF PreTipoff, T

\* The daily slot is at most a day before the first instant.
LEMMA DailyFacts ==
  ASSUME NEW at \in 0..Horizon
  PROVE  DailyAt(at) \in Int /\ -Day <= DailyAt(at)
<1>1. /\ Day \in Nat \ {0} /\ Behind \in Int /\ 0 <= Behind /\ Behind < Day
      /\ PlanAt \in Int /\ 0 <= PlanAt /\ at \in Int /\ 0 <= at
  BY ForecastAssumption
<1>2. \A D \in Nat \ {0}, n \in Int : -D <= n => n \div D \in Int /\ -1 <= n \div D
  OBVIOUS
<1>3. LocalDay(at) \in Int /\ -1 <= LocalDay(at)
  <2>1. at - Behind \in Int /\ -Day <= at - Behind
    BY <1>1
  <2>2. QED
    BY <1>1, <1>2, <2>1 DEF LocalDay
<1>4. \A D \in Nat \ {0}, k \in Int : -1 <= k => k * D \in Int /\ -D <= k * D
  OBVIOUS
<1>5. LocalDay(at) * Day \in Int /\ -Day <= LocalDay(at) * Day
  BY <1>1, <1>3, <1>4
<1>6. QED
  BY <1>1, <1>5 DEF DailyAt

\* They are instants of the model.
LEMMA CandidateFacts ==
  ASSUME NEW at \in 0..Horizon, NEW tipoffs \in SUBSET TipTimes
  PROVE  /\ Candidates(at, tipoffs) \subseteq Instant
         /\ \A slots \in SUBSET Candidates(at, tipoffs) :
              slots # {} => FirstSlot(slots, tipoffs) \in slots
<1>1. Day \in Int /\ Horizon \in Int /\ at \in Int /\ at <= Horizon
  BY ForecastAssumption
<1>2. \A t \in Candidates(at, tipoffs) : t \in Int /\ -Day <= t /\ t <= at
  BY DailyFacts, PreTipoffFacts, TargetFacts DEF Candidates
<1>3. Candidates(at, tipoffs) \subseteq Instant
  BY <1>1, <1>2 DEF Instant
<1>4. ASSUME NEW slots \in SUBSET Candidates(at, tipoffs), slots # {}
      PROVE  FirstSlot(slots, tipoffs) \in slots
  <2>1. \A S \in SUBSET slots : S # {} => Earliest(S) \in S
    <3>1. SUFFICES ASSUME NEW S \in SUBSET slots, S # {} PROVE Earliest(S) \in S
      OBVIOUS
    <3>2. S \in SUBSET Int /\ \A t \in S : -Day <= t
      BY <1>2
    <3>3. QED
      BY <3>1, <3>2, EarliestFacts
  <2>2. QED
    BY <1>4, <2>1 DEF FirstSlot
<1>5. QED
  BY <1>3, <1>4

\* Every step keeps the slots of the wakes.
LEMMA SlottedStep ==
  ASSUME ForecastShape, \A w \in Wake : Slotted(w), [ForecastNext]_ForecastVars
  PROVE  \A w \in Wake : Slotted(w)'
<1>1. CASE wake' = wake
  BY <1>1 DEF Slotted
<1>2. ASSUME NEW w \in Wake, WakeStep(w) PROVE Slotted(w)' /\ \A o \in Wake \ {w} : wake'[o] = wake[o]
  <2>0. wake \in [Wake -> WakeShape] /\ wake[w] \in WakeShape /\ Slotted(w)
    BY DEF ForecastShape
  <2>a. Asleep.slots = {} /\ Asleep.stage = "idle"
    BY DEF Asleep
  <2>1. CASE StartWake(w)
    <3>1. wake' = [wake EXCEPT ![w] = [Asleep EXCEPT !.stage = "slate", !.at = instant]]
      BY <2>1 DEF StartWake
    <3>2. wake'[w].slots = {} /\ wake'[w].stage = "slate" /\ wake'[w].slate = {}
      BY <2>0, <3>1 DEF Asleep
    <3>3. QED
      BY <2>0, <3>1, <3>2 DEF Slotted
  <2>2. CASE ReadSlate(w) \/ NoTipoffs(w) \/ ResolveSlate(w) \/ CacheSlate(w)
    <3>1. wake[w].slots = {}
      BY <2>0, <2>2 DEF Slotted, ReadSlate, NoTipoffs, ResolveSlate, CacheSlate
    <3>2. wake'[w].slots = wake[w].slots /\ wake'[w].stage \in {"plan", "cache"}
          /\ \A o \in Wake \ {w} : wake'[o] = wake[o]
      BY <2>0, <2>2 DEF WakeShape, ReadSlate, NoTipoffs, ResolveSlate, CacheSlate
    <3>3. QED
      BY <3>1, <3>2 DEF Slotted
  <2>3. CASE PlanCapture(w)
    <3> DEFINE at == wake[w].at
               due == DueSlots(at, wake[w].slate, Listed(at))
               used == RequestsUsed(at, Listed(at))
               first == FirstSlot(due, wake[w].slate)
    <3>1. wake' = [wake EXCEPT ![w] =
                     IF due = {} THEN Asleep
                     ELSE IF used >= Cap
                     THEN [wake[w] EXCEPT !.stage = "suppress", !.slots = due]
                     ELSE [wake[w] EXCEPT !.stage = "fetch", !.slots = {first}]]
      BY <2>0, <2>3 DEF PlanCapture
    <3>2. due \subseteq Candidates(at, wake[w].slate)
      BY DEF DueSlots, Candidates
    <3>3. due # {} => first \in due
      <4>1. at \in 0..Horizon /\ wake[w].slate \in SUBSET TipTimes
        BY <2>0 DEF WakeShape
      <4> HIDE DEF due
      <4>2. QED
        BY <3>2, <4>1, CandidateFacts
    <3> HIDE DEF due, used, first
    <3>4. /\ \A o \in Wake \ {w} : wake'[o] = wake[o]
          /\ \/ wake'[w] = Asleep
             \/ /\ due # {} /\ wake'[w].stage \in {"suppress", "fetch"}
                /\ wake'[w].slots \in {due, {first}}
                /\ wake'[w].at = at /\ wake'[w].slate = wake[w].slate
      BY <2>0, <3>1 DEF WakeShape
    <3>5. QED
      BY <2>a, <3>2, <3>3, <3>4, ZenonT(40) DEF Slotted
  <2>4. CASE Fetch(w) \/ Decide(w)
    <3>1. /\ wake'[w].slots = wake[w].slots /\ wake'[w].stage \in {"decide", "save"}
          /\ wake'[w].at = wake[w].at /\ wake'[w].slate = wake[w].slate
          /\ wake[w].stage \in {"fetch", "decide"}
          /\ \A o \in Wake \ {w} : wake'[o] = wake[o]
      <4>1. CASE Fetch(w)
        BY <2>0, <4>1 DEF WakeShape, Fetch
      <4>2. CASE Decide(w)
        BY <2>0, <4>2 DEF WakeShape, Decide
      <4>3. QED
        BY <2>4, <4>1, <4>2
    <3>2. QED
      BY <2>0, <3>1 DEF Slotted
  <2>5. CASE SaveCapture(w) \/ EndWake(w)
    BY <2>0, <2>5, <2>a DEF Slotted, SaveCapture, EndWake
  <2>6. CASE SaveSuppressed(w)
    <3> DEFINE slot == FirstSlot(wake[w].slots, wake[w].slate)
               last == Stored(slot) /\ NewReceipt(w, slot, "suppressed") \notin receipts
    <3>1. wake' = [wake EXCEPT ![w] =
            IF last \/ wake[w].slots = {slot} THEN Asleep
            ELSE [wake[w] EXCEPT !.slots = wake[w].slots \ {slot}]]
      BY <2>0, <2>6 DEF SaveSuppressed
    <3> HIDE DEF slot, last
    <3>2. \/ wake'[w] = Asleep
          \/ /\ wake[w].slots # {slot} /\ wake'[w].slots = wake[w].slots \ {slot}
             /\ wake'[w].stage = wake[w].stage
             /\ wake'[w].at = wake[w].at /\ wake'[w].slate = wake[w].slate
      BY <2>0, <3>1 DEF WakeShape
    <3>3. wake[w].stage = "suppress" /\ \A o \in Wake \ {w} : wake'[o] = wake[o]
      BY <2>0, <2>6, <3>1 DEF SaveSuppressed
    <3>4. wake[w].slots # {} /\ wake[w].slots # {slot} => wake[w].slots \ {slot} # {}
      OBVIOUS
    <3>5. QED
      BY <2>0, <2>a, <3>2, <3>3, <3>4 DEF Slotted
  <2>7. QED
    BY <1>2, <2>1, <2>2, <2>3, <2>4, <2>5, <2>6 DEF WakeStep
<1>3. ASSUME NEW w \in Wake, WakeStep(w) PROVE \A o \in Wake : Slotted(o)'
  BY <1>2, <1>3 DEF Slotted
<1>4. QED
  BY <1>1, <1>3 DEF ForecastNext, MoveGame, Pass, ForecastVars

\* A receipt is for one of the slots of its wake.
LEMMA StoredSlot ==
  ASSUME ForecastShape, \A w \in Wake : Noted(w) /\ Slotted(w),
         [ForecastNext]_ForecastVars, receipts' # receipts
  PROVE  \E w \in Wake, slot \in Int, outcome \in Requested \cup {"suppressed"} :
           /\ wake[w].stage \in {"save", "suppress"} /\ slate' = slate /\ raced' = raced
           /\ wake'[w].stage \in {"idle", "suppress"}
           /\ slot \in Candidates(wake[w].at, wake[w].slate)
           /\ receipts' = receipts \cup {NewReceipt(w, slot, outcome)}
<1>1. ASSUME NEW w \in Wake, NEW slot \in wake[w].slots, NEW outcome \in Requested \cup {"suppressed"},
             wake[w].stage \in {"save", "suppress"}
      PROVE  slot \in Candidates(wake[w].at, wake[w].slate) /\ slot \in Int
  <2>1. wake[w].at \in 0..Horizon /\ wake[w].slate \in SUBSET TipTimes
    BY DEF ForecastShape, WakeShape
  <2>2. slot \in Candidates(wake[w].at, wake[w].slate)
    BY <1>1 DEF Slotted
  <2>3. Candidates(wake[w].at, wake[w].slate) \subseteq Int
    BY <2>1, CandidateFacts, ForecastAssumption DEF Instant
  <2>4. QED
    BY <2>2, <2>3
<1>2. ASSUME NEW w \in Wake, SaveCapture(w)
      PROVE  \E slot \in wake[w].slots : receipts' = receipts \cup {NewReceipt(w, slot, wake[w].outcome)}
  <2> DEFINE slot == CHOOSE t \in wake[w].slots : TRUE
             new == NewReceipt(w, slot, wake[w].outcome)
  <2>1. receipts' = receipts \cup {new}
    <3>1. receipts' = receipts \/ receipts' = receipts \cup {new}
      BY <1>2 DEF SaveCapture
    <3>2. QED
      BY <3>1
  <2>2. wake[w].slots # {}
    BY <1>2 DEF Slotted, SaveCapture
  <2>3. slot \in wake[w].slots
    BY <2>2
  <2> HIDE DEF slot
  <2>4. QED
    BY <2>1, <2>3
<1>3. ASSUME NEW w \in Wake, SaveSuppressed(w)
      PROVE  \E slot \in wake[w].slots : receipts' = receipts \cup {NewReceipt(w, slot, "suppressed")}
  <2> DEFINE slot == FirstSlot(wake[w].slots, wake[w].slate)
  <2>1. receipts' = receipts \cup {NewReceipt(w, slot, "suppressed")}
    BY <1>3 DEF SaveSuppressed
  <2>2. wake[w].at \in 0..Horizon /\ wake[w].slate \in SUBSET TipTimes
    BY DEF ForecastShape, WakeShape
  <2>3. wake[w].slots # {} /\ wake[w].slots \subseteq Candidates(wake[w].at, wake[w].slate)
    BY <1>3 DEF Slotted, SaveSuppressed
  <2>4. slot \in wake[w].slots
    BY <2>2, <2>3, CandidateFacts
  <2> HIDE DEF slot
  <2>5. QED
    BY <2>1, <2>4
<1>4. PICK w \in Wake : SaveCapture(w) \/ SaveSuppressed(w)
  BY DEF ForecastNext, WakeStep, StartWake, ReadSlate, NoTipoffs, ResolveSlate, CacheSlate,
         PlanCapture, Fetch, Decide, EndWake, MoveGame, Pass, ForecastVars
<1>5. CASE SaveCapture(w)
  <2>1. wake[w].stage = "save" /\ slate' = slate /\ raced' = raced
    BY <1>5 DEF SaveCapture
  <2>2. wake'[w].stage = "idle"
    BY <1>5, EndsAsleep, AsleepShape
  <2>3. wake[w].outcome \in Requested
    BY <2>1 DEF Noted, Requested
  <2>4. QED
    BY <1>1, <1>2, <1>5, <2>1, <2>2, <2>3
<1>6. CASE SaveSuppressed(w)
  <2>1. wake[w].stage = "suppress" /\ slate' = slate /\ raced' = raced
    BY <1>6 DEF SaveSuppressed
  <2>2. wake'[w].stage \in {"idle", "suppress"}
    BY <1>6, SuppressFacts, AsleepShape DEF Moves
  <2>3. QED
    BY <1>1, <1>3, <1>6, <2>1, <2>2
<1>7. QED
  BY <1>4, <1>5, <1>6

\* Every step keeps a day's slate, unless two wakes resolve it at once: nobody is about to cache
\* it again once it is cached, and no receipt is for a slot of another slate.
LEMMA OneSlateStep ==
  ASSUME ForecastShape, \A w \in Wake : Noted(w) /\ Slotted(w), [ForecastNext]_ForecastVars,
         NEW d \in LocalDays \ raced', d \notin raced => OneSlate(d)
  PROVE  OneSlate(d)'
<1>0. wake \in [Wake -> WakeShape] /\ slate \in [LocalDays -> {NoSlate} \cup SUBSET TipTimes]
  BY DEF ForecastShape, LocalDays
<1>a. raced \subseteq raced' /\ OneSlate(d)
  <2>1. raced \subseteq raced'
    BY DEF ForecastNext, WakeStep, StartWake, ReadSlate, NoTipoffs, ResolveSlate, CacheSlate,
           PlanCapture, Fetch, Decide, SaveCapture, SaveSuppressed, EndWake, MoveGame, Pass,
           ForecastVars
  <2>2. QED
    BY <2>1
<1>b. /\ \A w, o \in Wake : Resolving(w, d) /\ Resolving(o, d) => w = o
      /\ \A w \in Wake : Resolving(w, d) => slate[d] = NoSlate
      /\ \A w \in Wake : Resolved(w, d) =>
           wake[w].slate = {} \/ (slate[d] # NoSlate /\ wake[w].slate = slate[d])
      /\ \A r \in receipts : LocalDay(r.at) = d =>
           r.slot = DailyAt(r.at) \/ (slate[d] # NoSlate /\ r.slot \in PreTipoff(slate[d]))
  BY <1>a DEF OneSlate
<1>c. ASSUME NEW t PROVE LocalDay(t)' = LocalDay(t)' /\ DailyAt(t)' = DailyAt(t)'
  OBVIOUS
\* The receipts.
<1>1. ASSUME slate' = slate \/ slate[d] = NoSlate
      PROVE  \A r \in receipts' : LocalDay(r.at) = d =>
               r.slot = DailyAt(r.at) \/ (slate'[d] # NoSlate /\ r.slot \in PreTipoff(slate'[d]))
  <2>1. CASE receipts' = receipts
    BY <1>1, <1>b, <2>1
  <2>2. CASE receipts' # receipts
    <3>1. PICK w \in Wake, slot \in Int, outcome \in Requested \cup {"suppressed"} :
            /\ wake[w].stage \in {"save", "suppress"} /\ slate' = slate
            /\ slot \in Candidates(wake[w].at, wake[w].slate)
            /\ receipts' = receipts \cup {NewReceipt(w, slot, outcome)}
      BY <2>2, StoredSlot
    <3> DEFINE new == NewReceipt(w, slot, outcome)
    <3>2. new.slot = slot /\ new.at = wake[w].at
      BY DEF NewReceipt
    <3> HIDE DEF new
    <3>3. ASSUME LocalDay(new.at) = d
          PROVE  \/ new.slot = DailyAt(new.at)
                 \/ slate'[d] # NoSlate /\ new.slot \in PreTipoff(slate'[d])
      <4>1. Resolved(w, d)
        BY <3>1, <3>2, <3>3 DEF Resolved
      <4>2. slot = DailyAt(wake[w].at) \/ slot \in PreTipoff(wake[w].slate)
        BY <3>1 DEF Candidates
      <4>3. wake[w].slate = {} => PreTipoff(wake[w].slate) = {}
        BY PreTipoffFacts
      <4>4. QED
        BY <1>b, <3>1, <3>2, <4>1, <4>2, <4>3
    <3>4. receipts' = receipts \cup {new}
      BY <3>1 DEF new
    <3>5. QED
      BY <1>b, <3>1, <3>3, <3>4
  <2>3. QED
    BY <2>1, <2>2
\* The wakes.
<1>2. ASSUME slate' = slate,
             \A w \in Wake : \/ Resolving(w, d)' => Resolving(w, d)
                             \/ \A o \in Wake : Resolving(o, d)' => o = w /\ slate[d] = NoSlate,
             \A w \in Wake : Resolved(w, d)' =>
               \/ wake'[w].slate = {}
               \/ slate[d] # NoSlate /\ wake'[w].slate = slate[d]
               \/ Resolved(w, d) /\ wake'[w].slate = wake[w].slate
      PROVE  OneSlate(d)'
  <2>1. \A w, o \in Wake : Resolving(w, d)' /\ Resolving(o, d)' => w = o
    BY <1>2, <1>b
  <2>2. \A w \in Wake : Resolving(w, d)' => slate'[d] = NoSlate
    BY <1>2, <1>b
  <2>3. \A w \in Wake : Resolved(w, d)' =>
          wake'[w].slate = {} \/ (slate'[d] # NoSlate /\ wake'[w].slate = slate'[d])
    BY <1>2, <1>b
  <2>4. QED
    BY <1>1, <1>2, <2>1, <2>2, <2>3 DEF OneSlate, LocalDay, DailyAt
<1>3. CASE wake' = wake /\ slate' = slate
  <2>1. \A w \in Wake : (Resolving(w, d)' <=> Resolving(w, d)) /\ (Resolved(w, d)' <=> Resolved(w, d))
    BY <1>3 DEF Resolving, Resolved, LocalDay
  <2>2. QED
    BY <1>2, <1>3, <2>1
<1>4. ASSUME NEW w \in Wake, WakeStep(w) PROVE OneSlate(d)'
  <2>1. /\ wake' = [wake EXCEPT ![w] = wake'[w]] /\ wake'[w] \in WakeShape
    BY <1>4, WakeActs
  <2>2. \A o \in Wake \ {w} : wake'[o] = wake[o]
    <3>1. ASSUME NEW state, wake' = [wake EXCEPT ![w] = state]
          PROVE  \A o \in Wake \ {w} : wake'[o] = wake[o]
      BY <1>0, <3>1
    <3>2. QED
      BY <2>1, <3>1
  <2>3. \A o \in Wake \ {w} : (Resolving(o, d)' <=> Resolving(o, d)) /\ (Resolved(o, d)' <=> Resolved(o, d))
    BY <2>2 DEF Resolving, Resolved, LocalDay
  <2>4. ASSUME slate' = slate, ~Resolving(w, d)',
               Resolved(w, d)' =>
                 \/ wake'[w].slate = {}
                 \/ slate[d] # NoSlate /\ wake'[w].slate = slate[d]
                 \/ Resolved(w, d) /\ wake'[w].slate = wake[w].slate
        PROVE  OneSlate(d)'
    BY <1>2, <2>2, <2>3, <2>4
  <2>5. CASE StartWake(w) \/ SaveCapture(w) \/ EndWake(w)
    <3>1. wake'[w].stage \in {"slate", "idle"} /\ slate' = slate
      BY <2>5, StartFacts, EndsAsleep, AsleepShape DEF StartWake, SaveCapture, EndWake
    <3>2. QED
      BY <2>4, <3>1 DEF Resolving, Resolved
  <2>6. CASE ReadSlate(w)
    <3>1. /\ slate' = slate /\ wake'[w].stage = "plan" /\ wake'[w].at = wake[w].at
          /\ slate[LocalDay(wake[w].at)] # NoSlate /\ wake'[w].slate = slate[LocalDay(wake[w].at)]
      BY <1>0, <2>6 DEF ReadSlate, WakeShape
    <3>2. QED
      BY <2>4, <3>1 DEF Resolving, Resolved, LocalDay
  <2>7. CASE NoTipoffs(w)
    <3>1. slate' = slate /\ wake'[w].stage = "plan" /\ wake'[w].slate = wake[w].slate
      BY <1>0, <2>7 DEF NoTipoffs, WakeShape
    <3>2. wake[w].slate = {}
      BY <2>7 DEF NoTipoffs, Slotted
    <3>3. QED
      BY <2>4, <3>1, <3>2 DEF Resolving, Resolved
  <2>8. CASE ResolveSlate(w)
    <3>1. /\ slate' = slate /\ wake'[w].stage = "cache" /\ wake'[w].at = wake[w].at
          /\ slate[LocalDay(wake[w].at)] = NoSlate
      BY <1>0, <2>8 DEF ResolveSlate, WakeShape
    <3>2. CASE LocalDay(wake[w].at) # d
      BY <2>4, <3>1, <3>2 DEF Resolving, Resolved, LocalDay
    <3>3. CASE LocalDay(wake[w].at) = d
      <4>1. \A o \in Wake \ {w} : ~Resolving(o, d)
        BY <2>8, <3>3 DEF ResolveSlate, Resolving
      <4>2. \A o \in Wake : Resolving(o, d)' => o = w /\ slate[d] = NoSlate
        BY <2>3, <3>1, <3>3, <4>1
      <4>3. ~Resolved(w, d)'
        BY <3>1 DEF Resolved
      <4>4. QED
        BY <1>2, <2>2, <2>3, <3>1, <4>2, <4>3
    <3>4. QED
      BY <3>2, <3>3
  <2>9. CASE CacheSlate(w)
    <3>1. /\ wake[w].stage = "cache" /\ wake'[w].stage = "plan" /\ wake'[w].at = wake[w].at
          /\ wake'[w].slate = wake[w].slate /\ wake[w].slate \in SUBSET TipTimes
          /\ slate' = [slate EXCEPT ![LocalDay(wake[w].at)] = wake[w].slate]
          /\ receipts' = receipts
      BY <1>0, <2>9 DEF CacheSlate, WakeShape
    <3>2. CASE LocalDay(wake[w].at) # d
      <4>1. slate'[d] = slate[d]
        BY <1>0, <3>1, <3>2
      <4>2. ~Resolving(w, d)' /\ ~Resolved(w, d)'
        BY <3>1, <3>2 DEF Resolving, Resolved, LocalDay
      <4>3. /\ \A u, o \in Wake : Resolving(u, d)' /\ Resolving(o, d)' => u = o
            /\ \A o \in Wake : Resolving(o, d)' => slate'[d] = NoSlate
            /\ \A o \in Wake : Resolved(o, d)' =>
                 wake'[o].slate = {} \/ (slate'[d] # NoSlate /\ wake'[o].slate = slate'[d])
        BY <1>b, <2>2, <2>3, <4>1, <4>2
      <4>4. \A r \in receipts' : LocalDay(r.at) = d =>
              r.slot = DailyAt(r.at) \/ (slate'[d] # NoSlate /\ r.slot \in PreTipoff(slate'[d]))
        BY <1>b, <3>1, <4>1
      <4>5. QED
        BY <4>3, <4>4 DEF OneSlate, LocalDay, DailyAt
    <3>3. CASE LocalDay(wake[w].at) = d
      <4>1. Resolving(w, d) /\ slate[d] = NoSlate
        BY <1>b, <3>1, <3>3 DEF Resolving
      <4>2. slate'[d] = wake'[w].slate /\ slate'[d] # NoSlate
        <5>1. slate'[d] = wake'[w].slate
          BY <1>0, <3>1, <3>3
        <5>2. -1 \notin TipTimes
          BY ForecastAssumption
        <5>3. QED
          BY <3>1, <5>1, <5>2 DEF NoSlate
      <4>3. \A o \in Wake : ~Resolving(o, d)'
        BY <1>b, <2>3, <3>1, <4>1 DEF Resolving
      <4>4. \A o \in Wake : Resolved(o, d)' =>
              wake'[o].slate = {} \/ (slate'[d] # NoSlate /\ wake'[o].slate = slate'[d])
        BY <1>b, <2>2, <2>3, <4>1, <4>2
      <4>5. \A r \in receipts' : LocalDay(r.at) = d =>
              r.slot = DailyAt(r.at) \/ (slate'[d] # NoSlate /\ r.slot \in PreTipoff(slate'[d]))
        BY <1>1, <4>1
      <4>6. QED
        BY <4>3, <4>4, <4>5 DEF OneSlate, LocalDay, DailyAt
    <3>4. QED
      BY <3>2, <3>3
  <2>10. CASE PlanCapture(w) \/ Fetch(w) \/ Decide(w) \/ SaveSuppressed(w)
    <3>1. slate' = slate
      BY <2>10 DEF PlanCapture, Fetch, Decide, SaveSuppressed
    <3>2. wake[w].stage \in {"plan", "fetch", "decide", "suppress"}
      BY <2>10 DEF PlanCapture, Fetch, Decide, SaveSuppressed
    <3>3. \/ wake'[w] = Asleep
          \/ /\ wake'[w].at = wake[w].at /\ wake'[w].slate = wake[w].slate
             /\ wake'[w].stage # "cache"
      <4>1. CASE PlanCapture(w)
        <5> DEFINE due == DueSlots(wake[w].at, wake[w].slate, Listed(wake[w].at))
                   used == RequestsUsed(wake[w].at, Listed(wake[w].at))
                   first == FirstSlot(due, wake[w].slate)
        <5>1. wake' = [wake EXCEPT ![w] =
                         IF due = {} THEN Asleep
                         ELSE IF used >= Cap
                         THEN [wake[w] EXCEPT !.stage = "suppress", !.slots = due]
                         ELSE [wake[w] EXCEPT !.stage = "fetch", !.slots = {first}]]
          BY <1>0, <4>1 DEF PlanCapture
        <5> HIDE DEF due, used, first
        <5>2. QED
          BY <1>0, <5>1 DEF WakeShape
      <4>2. CASE Fetch(w)
        BY <1>0, <4>2 DEF WakeShape, Fetch
      <4>3. CASE Decide(w)
        BY <1>0, <4>3 DEF WakeShape, Decide
      <4>4. CASE SaveSuppressed(w)
        <5> DEFINE slot == FirstSlot(wake[w].slots, wake[w].slate)
                   last == Stored(slot) /\ NewReceipt(w, slot, "suppressed") \notin receipts
        <5>1. wake' = [wake EXCEPT ![w] =
                IF last \/ wake[w].slots = {slot} THEN Asleep
                ELSE [wake[w] EXCEPT !.slots = wake[w].slots \ {slot}]]
          BY <1>0, <4>4 DEF SaveSuppressed
        <5> HIDE DEF slot, last
        <5>2. QED
          BY <1>0, <3>2, <4>4, <5>1 DEF WakeShape, SaveSuppressed
      <4>5. QED
        BY <2>10, <4>1, <4>2, <4>3, <4>4
    <3>4. CASE wake'[w] = Asleep
      BY <2>4, <3>1, <3>4, AsleepShape DEF Resolving, Resolved
    <3>5. CASE /\ wake'[w].at = wake[w].at /\ wake'[w].slate = wake[w].slate
               /\ wake'[w].stage # "cache"
      BY <2>4, <3>1, <3>2, <3>5 DEF Resolving, Resolved, LocalDay
    <3>6. QED
      BY <3>3, <3>4, <3>5
  <2>11. QED
    BY <1>4, <2>5, <2>6, <2>7, <2>8, <2>9, <2>10 DEF WakeStep
<1>5. QED
  BY <1>3, <1>4 DEF ForecastNext, MoveGame, Pass, ForecastVars

-----------------------------------------------------------------------------
(* The theorems *)

\* Nothing is asked, recorded or known at first.
LEMMA ForecastStart ==
  ASSUME ForecastInit
  PROVE  ForecastInv
<1>1. /\ instant = 0 /\ tipoff \in [Game -> TipTimes] /\ receipts = {}
      /\ slate = [d \in LocalDay(0)..LocalDay(Horizon) |-> NoSlate]
      /\ wake = [w \in Wake |-> Asleep]
      /\ requests = [d \in 0..UtcDay(Horizon) |-> 0]
      /\ unrecorded = [d \in 0..UtcDay(Horizon) |-> 0]
  BY DEF ForecastInit
<1>2. ForecastShape
  <2>1. 0 \in 0..Horizon /\ IsFiniteSet({}) /\ Asleep \in WakeShape
    BY ForecastAssumption, FS_EmptySet, AsleepShape
  <2>2. QED
    BY <1>1, <2>1 DEF ForecastShape
<1>3. \A w \in Wake : wake[w].stage = "idle" /\ wake[w].content = None
  BY <1>1, AsleepShape
<1>4. \A w \in Wake : Noted(w)
  BY <1>3 DEF Noted
<1>5. \A c \in Content : Introduced(c)
  BY <1>1 DEF Introduced, Known
<1>6. ASSUME NEW d \in 0..UtcDay(Horizon) PROVE Accounted(d)
  <2>1. Recorded(d) = {} /\ Asking(d) = {} /\ Asked(d) = {}
    BY <1>1, <1>3 DEF Recorded, Asking, Asked
  <2>2. Cardinality({}) = 0
    BY FS_EmptySet
  <2>3. Cardinality(Wake) \in Nat /\ Cardinality(Wake) # 0 /\ Cap \in Nat
    BY ForecastAssumption, FS_CardinalityType, FS_EmptySet
  <2>4. requests[d] = 0 /\ unrecorded[d] = 0
    BY <1>1
  <2>5. QED
    BY <2>1, <2>2, <2>3, <2>4 DEF Accounted
<1>7. QED
  BY <1>2, <1>4, <1>5, <1>6 DEF ForecastInv

\* In every behaviour wakes and receipts have their shape, contents are introduced once, and
\* every request is accounted for.
THEOREM ForecastInvHolds == ForecastSpec => []ForecastInv
<1>1. ASSUME ForecastInv, [ForecastNext]_ForecastVars PROVE ForecastInv'
  <2>1. /\ ForecastShape
        /\ \A w \in Wake : Noted(w)
        /\ \A c \in Content : Introduced(c)
        /\ \A d \in 0..UtcDay(Horizon) : Accounted(d)
    BY <1>1 DEF ForecastInv
  <2>2. ForecastShape' /\ \A w \in Wake : Noted(w)'
    BY <1>1, <2>1, ForecastShapeStep
  <2>3. \A c \in Content : Introduced(c)'
    BY <1>1, <2>1, IntroducedStep
  <2>4. \A d \in 0..UtcDay(Horizon) : Accounted(d)'
    BY <1>1, <2>1, AccountedStep
  <2>5. UtcDay(Horizon)' = UtcDay(Horizon)
    BY DEF UtcDay
  <2>6. QED
    BY <2>2, <2>3, <2>4, <2>5 DEF ForecastInv
<1>2. QED
  BY <1>1, ForecastStart, PTL DEF ForecastSpec

\* A day's requests exceed the cap only by those that left no receipt and by the other wakes
\* that planned at the same time (plan_forecast_capture, which counts the stored receipts).
THEOREM CapIsKept == ForecastSpec => []CapHolds
<1>1. ASSUME ForecastInv PROVE CapHolds
  <2>1. ASSUME NEW d \in DOMAIN requests
        PROVE  requests[d] <= Cap + unrecorded[d] + Cardinality(Wake) - 1
    <3>1. d \in 0..UtcDay(Horizon) /\ ForecastShape /\ Accounted(d)
      BY <1>1, <2>1 DEF ForecastInv, ForecastShape
    <3>2. /\ Cardinality(Recorded(d)) \in Nat /\ Cardinality(Asking(d)) \in Nat
          /\ Cardinality(Asked(d)) \in Nat /\ Cardinality(Wake) \in Nat
          /\ Cardinality(Asked(d)) <= Cardinality(Asking(d))
      BY <3>1, CountsFinite
    <3>3. requests[d] \in Nat /\ unrecorded[d] \in Nat /\ Cap \in Nat
      BY <3>1, ForecastAssumption DEF ForecastShape
    <3>4. QED
      BY <3>1, <3>2, <3>3 DEF Accounted
  <2>2. QED
    BY <2>1 DEF CapHolds
<1>2. QED
  BY <1>1, ForecastInvHolds, PTL

\* A stored content has one receipt that introduced it, whichever wakes found it new at once
\* (the guards of the capture batch).
THEOREM ContentIsIntroducedOnce == ForecastSpec => []IntroducedOnce
<1>1. ASSUME ForecastInv PROVE IntroducedOnce
  <2>1. ASSUME NEW c \in Content, Known(c)
        PROVE  Cardinality({r \in receipts : r.content = c /\ r.outcome = "changed"}) = 1
    <3> DEFINE S == {r \in receipts : r.content = c /\ r.outcome = "changed"}
    <3>1. PICK r \in S : \A q \in S : q = r
      BY <1>1, <2>1 DEF ForecastInv, Introduced
    <3>2. S = {r}
      BY <3>1
    <3> HIDE DEF S
    <3>3. Cardinality(S) = 1
      BY <3>2, FS_Singleton
    <3>4. QED
      BY <3>3 DEF S
  <2>2. QED
    BY <2>1 DEF IntroducedOnce
<1>2. QED
  BY <1>1, ForecastInvHolds, PTL

\* What a reader finds at a cutoff depends on the usable receipts up to it.
LEMMA ContentUnchanged ==
  ASSUME NEW c, NEW R, NEW new, new.content = None \/ ~(new.at <= c)
  PROVE  ContentAt(c, R \cup {new}) = ContentAt(c, R)
<1>1. {r \in R \cup {new} : r.content # None /\ r.at <= c}
        = {r \in R : r.content # None /\ r.at <= c}
  OBVIOUS
<1>2. QED
  BY <1>1 DEF ContentAt

\* What was found at a past cutoff changes only while a wake that began by then has yet to save:
\* a receipt bears the instant its wake began.
THEOREM PastIsKept == ForecastSpec => NeverBackdated
<1> DEFINE Kept ==
      \A c \in 0..(instant - 1) :
        ContentAt(c, receipts') # ContentAt(c, receipts)
          => \E w \in Wake : wake[w].stage = "save" /\ wake[w].at <= c
<1>1. ASSUME ForecastInv, [ForecastNext]_ForecastVars PROVE [Kept]_ForecastVars
  <2>1. ASSUME NEW c \in 0..(instant - 1), ContentAt(c, receipts') # ContentAt(c, receipts)
        PROVE  \E w \in Wake : wake[w].stage = "save" /\ wake[w].at <= c
    <3>1. receipts' # receipts
      BY <2>1
    <3>2. PICK w \in Wake : Captures(w) \/ Suppresses(w)
      BY <1>1, <3>1, ReceiptsChange
    <3>3. PICK new : /\ receipts' = receipts \cup {new} /\ new.at = wake[w].at
                     /\ wake[w].stage = "save" \/ new.content = None
      BY <1>1, <3>2, StoredFacts DEF ForecastInv
    <3>4. new.content # None /\ new.at <= c
      BY <2>1, <3>3, ContentUnchanged
    <3>5. QED
      BY <3>3, <3>4
  <2>2. QED
    BY <2>1
<1> HIDE DEF Kept
<1>2. ForecastSpec => [][Kept]_ForecastVars
  BY <1>1, ForecastInvHolds, PTL DEF ForecastSpec
<1>3. QED
  BY <1>2 DEF Kept, NeverBackdated

\* In every behaviour receipts are for the slots of the one slate of their day.
LEMMA SlotInvHolds == ForecastSpec => []SlotInv
<1>1. ASSUME ForecastInit PROVE SlotInv
  <2>1. /\ receipts = {} /\ raced = {} /\ fired = FALSE
        /\ \A w \in Wake : wake[w].stage = "idle" /\ wake[w].slots = {}
    BY <1>1 DEF ForecastInit, Asleep
  <2>2. QED
    BY <2>1 DEF SlotInv, Slotted, OneSlate, Resolving, Resolved
<1>2. ASSUME ForecastInv, SlotInv, [ForecastNext]_ForecastVars PROVE SlotInv'
  <2>1. /\ ForecastShape /\ \A w \in Wake : Noted(w) /\ Slotted(w)
    BY <1>2 DEF ForecastInv, SlotInv
  <2>2. \A w \in Wake : Slotted(w)'
    BY <1>2, <2>1, SlottedStep
  <2>3. fired' \in BOOLEAN /\ raced' \subseteq LocalDays
    <3>1. fired' \in BOOLEAN
      BY <1>2 DEF SlotInv, ForecastNext, WakeStep, StartWake, ReadSlate, NoTipoffs, ResolveSlate,
         CacheSlate, PlanCapture, Fetch, Decide, SaveCapture, SaveSuppressed, EndWake, MoveGame,
         Pass, ForecastVars
    <3>2. \A o \in Wake : LocalDay(wake[o].at) \in LocalDays
      BY <2>1, DaysOfWakes DEF ForecastShape, WakeShape, LocalDays
    <3>3. \/ raced' = raced
          \/ \E S \in SUBSET Wake : raced' = raced \cup {LocalDay(wake[o].at) : o \in S}
      <4>1. ASSUME NEW w \in Wake, ResolveSlate(w)
            PROVE  \E S \in SUBSET Wake : raced' = raced \cup {LocalDay(wake[o].at) : o \in S}
        <5> DEFINE S == {o \in Wake \ {w} : wake[o].stage = "cache"
                                           /\ LocalDay(wake[o].at) = LocalDay(wake[w].at)}
        <5>1. raced' = raced \cup {LocalDay(wake[o].at) : o \in S} /\ S \in SUBSET Wake
          BY <4>1 DEF ResolveSlate
        <5>2. QED
          BY <5>1
      <4>2. QED
        BY <1>2, <4>1 DEF ForecastNext, WakeStep, StartWake, ReadSlate, NoTipoffs, CacheSlate,
           PlanCapture, Fetch, Decide, SaveCapture, SaveSuppressed, EndWake, MoveGame, Pass,
           ForecastVars
    <3>4. raced' \subseteq LocalDays
      BY <1>2, <3>2, <3>3 DEF SlotInv
    <3>5. QED
      BY <3>1, <3>4
  <2>4. receipts' \subseteq Receipt
    <3>1. CASE receipts' = receipts
      BY <1>2, <3>1 DEF SlotInv
    <3>2. CASE receipts' # receipts
      <4>1. PICK w \in Wake, slot \in Int, outcome \in Requested \cup {"suppressed"} :
              /\ slot \in Candidates(wake[w].at, wake[w].slate)
              /\ receipts' = receipts \cup {NewReceipt(w, slot, outcome)}
        BY <1>2, <2>1, <3>2, StoredSlot
      <4>2. wake[w] \in WakeShape
        BY <2>1 DEF ForecastShape
      <4>3. slot \in Instant /\ wake[w].at \in Instant
        BY <4>1, <4>2, CandidateFacts, ForecastAssumption DEF WakeShape, Instant
      <4>4. NewReceipt(w, slot, outcome) \in Receipt
        BY <4>2, <4>3 DEF NewReceipt, Receipt, WakeShape
      <4>5. QED
        BY <1>2, <4>1, <4>4 DEF SlotInv
    <3>3. QED
      BY <3>1, <3>2
  <2>5. \A d \in LocalDays \ raced' : OneSlate(d)'
    <3>1. raced \subseteq raced'
      BY <1>2 DEF ForecastNext, WakeStep, StartWake, ReadSlate, NoTipoffs, ResolveSlate, CacheSlate,
         PlanCapture, Fetch, Decide, SaveCapture, SaveSuppressed, EndWake, MoveGame, Pass,
         ForecastVars
    <3>2. ASSUME NEW d \in LocalDays \ raced' PROVE OneSlate(d)'
      <4>1. d \notin raced => OneSlate(d)
        BY <1>2 DEF SlotInv
      <4>2. QED
        BY <1>2, <2>1, <4>1, OneSlateStep
    <3>3. QED
      BY <3>2
  <2>6. LocalDays' = LocalDays /\ Receipt' = Receipt
    BY DEF LocalDays, LocalDay, Receipt
  <2>7. QED
    BY <2>2, <2>3, <2>4, <2>5, <2>6 DEF SlotInv
<1>3. QED
  BY <1>1, <1>2, ForecastInvHolds, PTL DEF ForecastSpec

\* The types of every wake, receipt and count (sqlite tables of the forecast archive).
THEOREM ForecastTyped == ForecastSpec => []ForecastTypeOK
<1>1. ASSUME ForecastInv, SlotInv PROVE ForecastTypeOK
  <2>1. ForecastShape /\ \A w \in Wake : Slotted(w)
    BY <1>1 DEF ForecastInv, SlotInv
  <2>2. ASSUME NEW w \in Wake PROVE wake[w] \in WakeState
    <3>1. wake[w] \in WakeShape /\ Slotted(w)
      BY <2>1 DEF ForecastShape
    <3>2. wake[w].at \in Instant /\ wake[w].slots \subseteq Instant
      <4>1. wake[w].at \in 0..Horizon /\ wake[w].slate \in SUBSET TipTimes
        BY <3>1 DEF WakeShape
      <4>2. wake[w].slots \subseteq Candidates(wake[w].at, wake[w].slate)
        BY <3>1 DEF Slotted, WakeShape
      <4>3. QED
        BY <4>1, <4>2, CandidateFacts, ForecastAssumption DEF Instant
    <3>3. QED
      BY <3>1, <3>2 DEF WakeShape, WakeState
  <2>3. QED
    BY <1>1, <2>1, <2>2 DEF ForecastTypeOK, ForecastShape, SlotInv, LocalDays
<1>2. QED
  BY <1>1, ForecastInvHolds, SlotInvHolds, PTL

\* Two pre-tipoff slots answered on one local day are more than Window apart, however games are
\* moved meanwhile, unless two wakes resolved the day's slate at once (pretipoff_slots, which
\* groups the tipoffs, and the slate cache).
THEOREM SlotsAreApart == ForecastSpec => []SlotsApart
<1>1. ASSUME ForecastInv, SlotInv PROVE SlotsApart
  <2>1. ASSUME NEW r \in receipts, NEW q \in receipts,
               r.slot < q.slot, LocalDay(r.at) = LocalDay(q.at), LocalDay(r.at) \notin raced,
               DailyAt(r.at) \notin {r.slot, q.slot}
        PROVE  q.slot - r.slot > Window
    <3> DEFINE d == LocalDay(r.at)
    <3>1. d \in LocalDays
      BY <1>1, DaysOfWakes DEF ForecastInv, ForecastShape, LocalDays
    <3>2. OneSlate(d)
      BY <1>1, <2>1, <3>1 DEF SlotInv
    <3>3. DailyAt(q.at) = DailyAt(r.at)
      BY <2>1 DEF DailyAt
    <3>4. slate[d] # NoSlate /\ r.slot \in PreTipoff(slate[d]) /\ q.slot \in PreTipoff(slate[d])
      BY <2>1, <3>2, <3>3 DEF OneSlate
    <3>5. slate[d] \in SUBSET TipTimes
      BY <1>1, <3>1, <3>4 DEF ForecastInv, ForecastShape, LocalDays
    <3> HIDE DEF d
    <3>6. QED
      BY <2>1, <3>4, <3>5, PreTipoffFacts DEF Apart
  <2>2. QED
    BY <2>1 DEF SlotsApart
<1>2. QED
  BY <1>1, ForecastInvHolds, SlotInvHolds, PTL

=================================================================================
