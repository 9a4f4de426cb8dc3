----------------------------- MODULE LineupProofs -----------------------------
(***************************************************************************)
(* From the record of the week to the moves of a plan, whatever the roster *)
(* and the league: what the planner accepts is the record of the owner's   *)
(* decisions (TeamWeek), the lineup of a batch is the best one there is    *)
(* (LineupAssignment), and the moves towards it are legal one after the    *)
(* other and as few as possible (LineupMoves).  The three are about the    *)
(* sequential algorithms of the planner; recursion and induction are those *)
(* of Induction.                                                           *)
(***************************************************************************)
EXTENDS TeamWeek, LineupAssignment, LineupMoves, Induction, Folds

-----------------------------------------------------------------------------
(* What is assembled from a record and a lineup *)

\* Everybody who starts is owned and eligible, and starts once.
Lined(seen) ==
  /\ seen.owned \in SUBSET Performer
  /\ seen.lineup \in [Seat -> seen.owned \cup {Unfilled}]
  /\ \A r, s \in Seat : seen.lineup[r] = seen.lineup[s] /\ seen.lineup[r] # Unfilled => r = s

Typed == decided \in [Performance -> Noted]
AllBy(at) == \A f \in Performance : decided[f].at <= at
Locks == {f \in Performance : HasLock(f)}
Passes == {f \in Performance : HasPass(f)}

\* No two share a player or a seat.
Spread(S) ==
  \A f, g \in S : By[f] = By[g] \/ decided[f].seat = decided[g].seat => f = g

\* The restored locks are of players who left, each in a slot of its own that is empty.
LEMMA RestoredFacts ==
  ASSUME NEW seen, NEW at
  PROVE  /\ Restored(seen, at) \subseteq {f \in Performance :
              /\ HasLock(f) /\ ~Held(seen, f) /\ decided[f].seat # NoSeat
              /\ seen.lineup[decided[f].seat] = Unfilled}
         /\ Spread(Restored(seen, at))
         /\ AllBy(at) /\ ~Contradicted(seen) =>
              Restored(seen, at) = {f \in Performance : HasLock(f) /\ ~Held(seen, f)}
<1> DEFINE upTo[n \in 0..Performances] ==
             IF n = 0 THEN {}
             ELSE IF Restorable(seen, at, n, upTo[n - 1]) THEN upTo[n - 1] \cup {n} ELSE upTo[n - 1]
           Grown(n, done) == IF Restorable(seen, at, n, done) THEN done \cup {n} ELSE done
           step == [n \in 1..Performances |-> [done \in SUBSET Performance |-> Grown(n, done)]]
<1>0. Performances \in Nat /\ Performance = 1..Performances
  BY TeamWeekAssumption DEF Performance
<1>1. step \in [1..Performances -> [SUBSET Performance -> SUBSET Performance]]
  BY <1>0
<1>2. {} \in SUBSET Performance
  OBVIOUS
<1> HIDE DEF Grown
<1>3. PICK f : Reaches(f, Performances, SUBSET Performance, {}, step)
  <2>1. Climbs(Performances, SUBSET Performance, {}, step)
    BY <1>0, <1>1, <1>2 DEF Climbs
  <2>2. QED
    BY <2>1, Upward
<1>4. f = [n \in 0..Performances |-> IF n = 0 THEN {} ELSE Grown(n, f[n - 1])]
  <2>0. /\ f \in [0..Performances -> SUBSET Performance]
        /\ f = [n \in 0..Performances |-> IF n = 0 THEN {} ELSE step[n][f[n - 1]]]
    BY <1>3 DEF Reaches
  <2>1. ASSUME NEW n \in 0..Performances, n # 0 PROVE step[n][f[n - 1]] = Grown(n, f[n - 1])
    <3>1. n \in 1..Performances /\ n - 1 \in 0..Performances
      BY <1>0, <2>1
    <3>2. f[n - 1] \in SUBSET Performance
      BY <2>0, <3>1
    <3>3. QED
      BY <3>1, <3>2
  <2> HIDE DEF step
  <2>2. QED
    BY <2>0, <2>1
<1>5. upTo = [n \in 0..Performances |-> IF n = 0 THEN {} ELSE Grown(n, upTo[n - 1])]
  BY <1>4, Zenon DEF Grown
<1>6. Restored(seen, at) = upTo[Performances]
  BY Zenon DEF Restored
<1> HIDE DEF upTo
<1> DEFINE Left == {g \in Performance : HasLock(g) /\ ~Held(seen, g)}
           Safe(n) == /\ upTo[n] \subseteq {g \in Left : decided[g].seat # NoSeat
                                             /\ seen.lineup[decided[g].seat] = Unfilled}
                      /\ upTo[n] \subseteq 1..n
                      /\ Spread(upTo[n])
                      /\ AllBy(at) /\ ~Contradicted(seen) => upTo[n] = {g \in Left : g <= n}
           S == {n \in Nat : n <= Performances => Safe(n)}
<1>7. upTo[0] = {}
  BY <1>0, <1>5
<1>8. ASSUME NEW n \in 1..Performances
      PROVE  upTo[n] = Grown(n, upTo[n - 1])
  BY <1>0, <1>5
<1>9. 0 \in S
  <2>1. {g \in Left : g <= 0} = {}
    BY <1>0
  <2>2. QED
    BY <1>7, <2>1 DEF Spread
<1>10. ASSUME NEW n \in Nat, n \in S PROVE n + 1 \in S
  <2>1. SUFFICES ASSUME n + 1 <= Performances PROVE Safe(n + 1)
    OBVIOUS
  <2> DEFINE done == upTo[n]
  <2>2. Safe(n) /\ n + 1 \in 1..Performances /\ (n + 1) - 1 = n /\ n + 1 \in Performance
    BY <1>0, <1>10, <2>1
  <2>3. upTo[n + 1] = IF Restorable(seen, at, n + 1, done) THEN done \cup {n + 1} ELSE done
    BY <1>8, <2>2 DEF done, Grown
  <2> HIDE DEF done
  <2>4. CASE Restorable(seen, at, n + 1, done)
    <3>1. upTo[n + 1] = done \cup {n + 1}
      BY <2>3, <2>4
    <3>2. upTo[n + 1] \subseteq {g \in Left : decided[g].seat # NoSeat
                                             /\ seen.lineup[decided[g].seat] = Unfilled}
      BY <2>2, <2>4, <3>1 DEF done, Restorable
    <3>3. Spread(upTo[n + 1])
      BY <2>2, <2>4, <3>1 DEF done, Restorable, Spread
    <3>4. upTo[n + 1] \subseteq 1..(n + 1)
      BY <2>2, <3>1 DEF done
    <3>5. AllBy(at) /\ ~Contradicted(seen) => upTo[n + 1] = {g \in Left : g <= n + 1}
      BY <1>0, <2>2, <3>1, <3>2 DEF done
    <3>6. QED
      BY <3>2, <3>3, <3>4, <3>5
  <2>5. CASE ~Restorable(seen, at, n + 1, done)
    <3>1. upTo[n + 1] = done
      BY <2>3, <2>5
    <3>2. ASSUME AllBy(at), ~Contradicted(seen), n + 1 \in Left PROVE FALSE
      <4>1. HasLock(n + 1) /\ decided[n + 1].at <= at /\ ~Held(seen, n + 1)
        BY <2>2, <3>2 DEF AllBy
      <4>2. decided[n + 1].seat \in Fits[By[n + 1]] /\ seen.lineup[decided[n + 1].seat] = Unfilled
        BY <2>2, <3>2, <4>1 DEF Contradicted
      <4>3. decided[n + 1].seat # NoSeat
        BY <2>2, <4>2, TeamWeekAssumption
      <4>4. \A g \in done : By[g] # By[n + 1] /\ decided[g].seat # decided[n + 1].seat
        <5>1. \A g \in done : g \in Performance /\ HasLock(g) /\ g # n + 1
          BY <2>2 DEF done
        <5>2. QED
          BY <2>2, <3>2, <4>1, <5>1 DEF Contradicted
      <4>5. QED
        BY <2>5, <4>1, <4>2, <4>3, <4>4 DEF Restorable
    <3>3. AllBy(at) /\ ~Contradicted(seen) => {g \in Left : g <= n + 1} = {g \in Left : g <= n}
      <4>1. \A g \in Left : g <= n + 1 <=> g <= n \/ g = n + 1
        BY <1>0
      <4>2. QED
        BY <3>2, <4>1
    <3>4. upTo[n + 1] \subseteq 1..(n + 1)
      BY <2>2, <3>1 DEF done
    <3>5. QED
      BY <2>2, <3>1, <3>3, <3>4 DEF done
  <2>6. QED
    BY <2>4, <2>5
<1> HIDE DEF S
<1>11. Performances \in S
  BY <1>0, <1>9, <1>10, AllNaturals
<1>12. Safe(Performances)
  BY <1>0, <1>11 DEF S
<1>13. {g \in Left : g <= Performances} = Left
  BY <1>0
<1>14. QED
  BY <1>6, <1>12, <1>13

\* The fixed locks are known by then, each in a slot its player may have; no two are of one player
\* or in one slot.
LEMMA FixedFacts ==
  ASSUME Typed, NEW known, NEW at
  PROVE  /\ FixedOf(known, at) \subseteq {f \in Performance :
              /\ HasLock(f) /\ f \in known /\ decided[f].seat \in Fits[By[f]]}
         /\ Spread(FixedOf(known, at))
         /\ /\ AllBy(at) /\ Locks \subseteq known
            /\ \A f \in Locks : decided[f].seat \in Fits[By[f]]
            /\ Spread(Locks)
            => FixedOf(known, at) = Locks
<1> DEFINE upTo[n \in 0..Performances] ==
             IF n = 0 THEN {}
             ELSE IF HasLock(n) /\ Admissible(known, at, n, upTo[n - 1]) THEN upTo[n - 1] \cup {n}
             ELSE upTo[n - 1]
           Grown(n, done) ==
             IF HasLock(n) /\ Admissible(known, at, n, done) THEN done \cup {n} ELSE done
           step == [n \in 1..Performances |-> [done \in SUBSET Performance |-> Grown(n, done)]]
<1>0. Performances \in Nat /\ Performance = 1..Performances
  BY TeamWeekAssumption DEF Performance
<1>1. step \in [1..Performances -> [SUBSET Performance -> SUBSET Performance]]
  BY <1>0
<1>2. {} \in SUBSET Performance
  OBVIOUS
<1> HIDE DEF Grown
<1>3. PICK f : Reaches(f, Performances, SUBSET Performance, {}, step)
  <2>1. Climbs(Performances, SUBSET Performance, {}, step)
    BY <1>0, <1>1, <1>2 DEF Climbs
  <2>2. QED
    BY <2>1, Upward
<1>4. f = [n \in 0..Performances |-> IF n = 0 THEN {} ELSE Grown(n, f[n - 1])]
  <2>0. /\ f \in [0..Performances -> SUBSET Performance]
        /\ f = [n \in 0..Performances |-> IF n = 0 THEN {} ELSE step[n][f[n - 1]]]
    BY <1>3 DEF Reaches
  <2>1. ASSUME NEW n \in 0..Performances, n # 0 PROVE step[n][f[n - 1]] = Grown(n, f[n - 1])
    <3>1. n \in 1..Performances /\ n - 1 \in 0..Performances
      BY <1>0, <2>1
    <3>2. f[n - 1] \in SUBSET Performance
      BY <2>0, <3>1
    <3>3. QED
      BY <3>1, <3>2
  <2> HIDE DEF step
  <2>2. QED
    BY <2>0, <2>1
<1>5. upTo = [n \in 0..Performances |-> IF n = 0 THEN {} ELSE Grown(n, upTo[n - 1])]
  BY <1>4, Zenon DEF Grown
<1>6. FixedOf(known, at) = upTo[Performances]
  BY Zenon DEF FixedOf
<1> HIDE DEF upTo
<1> DEFINE Sane ==
             /\ AllBy(at) /\ Locks \subseteq known
             /\ \A g \in Locks : decided[g].seat \in Fits[By[g]]
             /\ Spread(Locks)
           Safe(n) == /\ upTo[n] \subseteq {g \in Performance :
                           HasLock(g) /\ g \in known /\ decided[g].seat \in Fits[By[g]]}
                      /\ upTo[n] \subseteq 1..n
                      /\ Spread(upTo[n])
                      /\ Sane => upTo[n] = {g \in Locks : g <= n}
           S == {n \in Nat : n <= Performances => Safe(n)}
<1>7. upTo[0] = {}
  BY <1>0, <1>5
<1>8. ASSUME NEW n \in 1..Performances
      PROVE  upTo[n] = Grown(n, upTo[n - 1])
  BY <1>0, <1>5
<1>9. 0 \in S
  <2>1. {g \in Locks : g <= 0} = {}
    BY <1>0 DEF Locks
  <2>2. QED
    BY <1>7, <2>1 DEF Spread
<1> HIDE DEF Sane
<1>10. ASSUME NEW n \in Nat, n \in S PROVE n + 1 \in S
  <2>1. SUFFICES ASSUME n + 1 <= Performances PROVE Safe(n + 1)
    OBVIOUS
  <2> DEFINE done == upTo[n]
  <2>2. Safe(n) /\ n + 1 \in 1..Performances /\ (n + 1) - 1 = n /\ n + 1 \in Performance
    BY <1>0, <1>10, <2>1
  <2>3. upTo[n + 1] = IF HasLock(n + 1) /\ Admissible(known, at, n + 1, done)
                      THEN done \cup {n + 1} ELSE done
    BY <1>8, <2>2 DEF done, Grown
  <2> HIDE DEF done
  <2>4. CASE HasLock(n + 1) /\ Admissible(known, at, n + 1, done)
    <3>1. upTo[n + 1] = done \cup {n + 1}
      BY <2>3, <2>4
    <3>2. upTo[n + 1] \subseteq {g \in Performance :
            HasLock(g) /\ g \in known /\ decided[g].seat \in Fits[By[g]]}
      BY <2>2, <2>4, <3>1 DEF done, Admissible
    <3>3. Spread(upTo[n + 1])
      BY <2>2, <2>4, <3>1 DEF done, Admissible, Spread, SomeoneElse
    <3>4. upTo[n + 1] \subseteq 1..(n + 1)
      BY <2>2, <3>1 DEF done
    <3>5. Sane => upTo[n + 1] = {g \in Locks : g <= n + 1}
      <4>1. n + 1 \in Locks
        BY <2>2, <2>4 DEF Locks
      <4>2. \A g \in Performance : g <= n + 1 <=> g <= n \/ g = n + 1
        BY <1>0
      <4>3. QED
        BY <2>2, <3>1, <4>1, <4>2 DEF done, Locks
    <3>6. QED
      BY <3>2, <3>3, <3>4, <3>5
  <2>5. CASE ~(HasLock(n + 1) /\ Admissible(known, at, n + 1, done))
    <3>1. upTo[n + 1] = done
      BY <2>3, <2>5
    <3>2. ASSUME Sane, n + 1 \in Locks PROVE FALSE
      <4>1. HasLock(n + 1) /\ decided[n + 1].at <= at /\ n + 1 \in known
            /\ decided[n + 1].seat \in Fits[By[n + 1]]
        BY <2>2, <3>2 DEF AllBy, Locks, Sane
      <4>2. \A g \in done : g \in Locks /\ g # n + 1
        BY <2>2 DEF done, Locks
      <4>3. \A g \in done : By[n + 1] # By[g] /\ ~SomeoneElse(n + 1, g)
        BY <3>2, <4>2 DEF Sane, Spread, SomeoneElse
      <4>4. QED
        BY <2>5, <4>1, <4>3 DEF Admissible
    <3>3. Sane => {g \in Locks : g <= n + 1} = {g \in Locks : g <= n}
      <4>1. \A g \in Locks : g <= n + 1 <=> g <= n \/ g = n + 1
        BY <1>0 DEF Locks
      <4>2. QED
        BY <3>2, <4>1
    <3>4. upTo[n + 1] \subseteq 1..(n + 1)
      BY <2>2, <3>1 DEF done
    <3>5. QED
      BY <2>2, <3>1, <3>3, <3>4 DEF done
  <2>6. QED
    BY <2>4, <2>5
<1> HIDE DEF S
<1>11. Performances \in S
  BY <1>0, <1>9, <1>10, AllNaturals
<1>12. Safe(Performances)
  BY <1>0, <1>11 DEF S
<1>13. {g \in Locks : g <= Performances} = Locks
  BY <1>0 DEF Locks
<1>14. QED
  BY <1>6, <1>12, <1>13 DEF Sane

\* Nothing contradicts the record: its locks are fixed and its passes are passed.
Gathered(state, seen) ==
  ~Contradicted(seen) => state.fixed = Locks /\ state.passed = Passes
\* A week with all of them is not blocked.
Unblocked(state, seen) ==
  ~Contradicted(seen) /\ state.fixed = Locks /\ state.passed = Passes => ~state.blocked

\* What the recorded decisions and the lineup make of a week is one the planner accepts, and has
\* all decisions if all of them are from before the instant it is assembled for.
LEMMA AssembledFacts ==
  ASSUME Typed, NEW seen, Lined(seen), NEW at
  PROVE  /\ Assembled(seen, at) \in [fixed : SUBSET Performance, passed : SUBSET Performance,
                                     blocked : BOOLEAN, refused : BOOLEAN]
         /\ ~Assembled(seen, at).refused
         /\ AllBy(at) => Gathered(Assembled(seen, at), seen)
         /\ Unblocked(Assembled(seen, at), seen)
<1> DEFINE restored == Restored(seen, at)
           known == {f \in Performance : Held(seen, f)} \cup restored
           fixed == FixedOf(known, at)
           passed == {f \in Performance : HasPass(f) /\ Admissible(known, at, f, fixed)}
           state == Assembled(seen, at)
<1>1. /\ state.fixed = fixed /\ state.passed = passed /\ state.refused = ~Coherent(seen, restored, fixed)
      /\ state.blocked = (\/ \E f \in Performance : IsSettled(f) /\ f \notin fixed \cup passed
                          \/ \E f \in fixed : By[f] \notin ObservedAt(seen, restored, decided[f].seat))
  BY DEF Assembled
<1>2. /\ restored \subseteq {f \in Performance :
            /\ HasLock(f) /\ ~Held(seen, f) /\ decided[f].seat # NoSeat
            /\ seen.lineup[decided[f].seat] = Unfilled}
      /\ Spread(restored)
      /\ AllBy(at) /\ ~Contradicted(seen) =>
           restored = {f \in Performance : HasLock(f) /\ ~Held(seen, f)}
  BY RestoredFacts
<1>3. /\ fixed \subseteq {f \in Performance :
            HasLock(f) /\ f \in known /\ decided[f].seat \in Fits[By[f]]}
      /\ Spread(fixed)
      /\ /\ AllBy(at) /\ Locks \subseteq known
         /\ \A f \in Locks : decided[f].seat \in Fits[By[f]]
         /\ Spread(Locks)
         => fixed = Locks
  <2> HIDE DEF known
  <2>1. QED
    BY FixedFacts
<1>a. Assembled(seen, at) \in [fixed : SUBSET Performance, passed : SUBSET Performance,
                              blocked : BOOLEAN, refused : BOOLEAN]
  <2>1. fixed \in SUBSET Performance /\ passed \in SUBSET Performance
    BY <1>3
  <2>2. \A F, P, b, r : F \in SUBSET Performance /\ P \in SUBSET Performance
                        /\ b \in BOOLEAN /\ r \in BOOLEAN =>
          [fixed |-> F, passed |-> P, blocked |-> b, refused |-> r]
            \in [fixed : SUBSET Performance, passed : SUBSET Performance,
                 blocked : BOOLEAN, refused : BOOLEAN]
    OBVIOUS
  <2> DEFINE blocked == \/ \E f \in Performance : IsSettled(f) /\ f \notin fixed \cup passed
                        \/ \E f \in fixed : By[f] \notin ObservedAt(seen, restored, decided[f].seat)
             refused == ~Coherent(seen, restored, fixed)
  <2>3. Assembled(seen, at) = [fixed |-> fixed, passed |-> passed, blocked |-> blocked,
                               refused |-> refused]
    BY Zenon DEF Assembled
  <2>4. blocked \in BOOLEAN /\ refused \in BOOLEAN
    OBVIOUS
  <2> HIDE DEF fixed, passed, blocked, refused
  <2>5. QED
    BY <2>1, <2>2, <2>3, <2>4
<1> HIDE DEF restored, fixed, state
\* Who starts where.
<1>4. ASSUME NEW s \in Seat, NEW p \in ObservedAt(seen, restored, s)
      PROVE  \/ p = seen.lineup[s] /\ p # Unfilled /\ p \in seen.owned
             \/ /\ seen.lineup[s] = Unfilled /\ p \notin seen.owned
                /\ \E f \in restored : p = By[f] /\ decided[f].seat = s
  BY <1>2, <1>4 DEF ObservedAt, Lined, Held
<1>5. \A s \in Seat : Cardinality(ObservedAt(seen, restored, s)) <= 1
  <2>1. ASSUME NEW s \in Seat, NEW p \in ObservedAt(seen, restored, s),
               NEW q \in ObservedAt(seen, restored, s)
        PROVE  p = q
    BY <1>2, <1>4, <2>1 DEF Spread
  <2>2. ASSUME NEW T, \A p, q \in T : p = q PROVE Cardinality(T) <= 1
    <3>1. CASE T = {}
      BY <3>1, FS_EmptySet
    <3>2. CASE T # {}
      <4>1. PICK p : T = {p}
        BY <2>2, <3>2
      <4>2. Cardinality({p}) = 1
        BY FS_Singleton
      <4>3. QED
        BY <4>1, <4>2
    <3>3. QED
      BY <3>1, <3>2
  <2>3. QED
    BY <2>1, <2>2
<1>6. ASSUME NEW r \in Seat, NEW s \in Seat,
             ObservedAt(seen, restored, r) \cap ObservedAt(seen, restored, s) # {}
      PROVE  r = s
  <2>1. PICK p : p \in ObservedAt(seen, restored, r) /\ p \in ObservedAt(seen, restored, s)
    BY <1>6
  <2>2. CASE p \in seen.owned
    BY <1>4, <2>1, <2>2 DEF Lined
  <2>3. CASE p \notin seen.owned
    BY <1>2, <1>4, <2>1, <2>3 DEF Spread
  <2>4. QED
    BY <2>2, <2>3
<1>7. Coherent(seen, restored, fixed)
  BY <1>3, <1>5, <1>6 DEF Coherent, Spread
<1>8. ASSUME AllBy(at), ~Contradicted(seen) PROVE fixed = Locks /\ passed = Passes
  <2>1. Locks \subseteq known
    BY <1>2, <1>8 DEF Locks
  <2>2. \A f \in Locks : decided[f].seat \in Fits[By[f]]
    BY <1>8 DEF Contradicted, Locks
  <2>3. Spread(Locks)
    BY <1>8 DEF Contradicted, Locks, Spread
  <2>4. fixed = Locks
    BY <1>3, <1>8, <2>1, <2>2, <2>3
  <2>5. \A f \in Passes : f \in known /\ decided[f].at <= at /\ ~HasLock(f)
    BY <1>8 DEF Contradicted, Passes, AllBy, HasLock, HasPass
  <2>6. passed = Passes
    BY <2>5 DEF Passes, Admissible
  <2>7. QED
    BY <2>4, <2>6
<1>9. ASSUME ~Contradicted(seen), fixed = Locks, passed = Passes PROVE ~state.blocked
  <2>1. \A f \in Performance : IsSettled(f) => f \in fixed \cup passed
    BY <1>9 DEF Locks, Passes, IsSettled, HasLock, HasPass
  <2>2. ASSUME NEW f \in fixed PROVE By[f] \in ObservedAt(seen, restored, decided[f].seat)
    <3>1. f \in Performance /\ HasLock(f) /\ f \in known
      BY <1>3
    <3>2. CASE Held(seen, f)
      <4>1. seen.lineup[decided[f].seat] = By[f]
        BY <1>9, <3>1, <3>2 DEF Contradicted
      <4>2. By[f] # Unfilled
        BY <3>1, TeamWeekAssumption
      <4>3. QED
        BY <4>1, <4>2 DEF ObservedAt
    <3>3. CASE ~Held(seen, f)
      BY <3>1, <3>3 DEF ObservedAt
    <3>4. QED
      BY <3>2, <3>3
  <2>3. QED
    BY <1>1, <2>1, <2>2
<1>10. QED
  BY <1>1, <1>a, <1>7, <1>8, <1>9 DEF Gathered, Unblocked, state

-----------------------------------------------------------------------------
(* The planner and the owner *)

\* What the planner has holds as long as no decision was saved since it noted their number:
\* nothing but a decision changes the record while it is at work.
Planned ==
  /\ Lined(draft.seen) /\ ~draft.state.refused
  /\ draft.stage = "reread" /\ draft.version = decisions => Unblocked(draft.state, draft.seen)
  /\ draft.stage \in {"check", "accepted"} /\ draft.version = decisions =>
       Gathered(draft.state, draft.seen) /\ Unblocked(draft.state, draft.seen)
WeekInv ==
  /\ TeamWeekTypeOK
  /\ \A f \in Performance : decided[f].at <= moment
  /\ draft.stage \notin {"idle", "version"} => draft.version <= decisions
  /\ Planned

\* The planner at rest.
LEMMA RestFacts ==
  /\ AtRest.stage = "idle" /\ Lined(AtRest.seen) /\ ~AtRest.state.refused
  /\ AtRest \in [stage : {"idle", "version", "read", "reread", "check", "accepted"},
                 at : 0..LastInstant, version : 0..MaxDecisions, seen : Snapshot,
                 state : [fixed : SUBSET Performance, passed : SUBSET Performance,
                          blocked : BOOLEAN, refused : BOOLEAN]]
<1>1. Nowhere \in Snapshot /\ Lined(Nowhere)
  BY DEF Nowhere, Snapshot, Lined
<1>2. NoState \in [fixed : SUBSET Performance, passed : SUBSET Performance,
                   blocked : BOOLEAN, refused : BOOLEAN] /\ ~NoState.refused
  BY DEF NoState
<1>3. 0 \in 0..LastInstant /\ 0 \in 0..MaxDecisions
  BY TeamWeekAssumption
<1>4. QED
  BY <1>1, <1>2, <1>3 DEF AtRest

\* The steps of the planner: the record stays.
PlannerStep ==
  CollectWeek \/ NoteVersion \/ ReadRecord \/ Reread \/ CheckDecisions
\* What the planner has at hand.
DraftType ==
  [stage : {"idle", "version", "read", "reread", "check", "accepted"},
   at : 0..LastInstant, version : 0..MaxDecisions, seen : Snapshot,
   state : [fixed : SUBSET Performance, passed : SUBSET Performance,
            blocked : BOOLEAN, refused : BOOLEAN]]

\* What the planner has after a step that leaves the record alone.
LEMMA PlannedNext ==
  ASSUME decided' = decided, NEW state, NEW seen, draft'.state = state, draft'.seen = seen,
         Lined(seen), ~state.refused,
         draft'.stage = "reread" /\ draft'.version = decisions' => Unblocked(state, seen),
         draft'.stage \in {"check", "accepted"} /\ draft'.version = decisions' =>
           Gathered(state, seen) /\ Unblocked(state, seen)
  PROVE  Planned'
<1>1. Lined(draft.seen)' /\ (~draft.state.refused)'
  BY DEF Lined
<1>2. Contradicted(draft.seen)' <=> Contradicted(seen)
  BY DEF Contradicted, HasLock, HasPass, Held
<1>3. Locks' = Locks /\ Passes' = Passes
  BY DEF Locks, Passes, HasLock, HasPass
<1>4. Unblocked(draft.state, draft.seen)' <=> Unblocked(state, seen)
  BY <1>2, <1>3 DEF Unblocked
<1>5. Gathered(draft.state, draft.seen)' <=> Gathered(state, seen)
  BY <1>2, <1>3 DEF Gathered
<1>6. QED
  BY <1>1, <1>4, <1>5 DEF Planned

\* A planner that has read nothing yet.
LEMMA PlannedAtFirst ==
  ASSUME draft'.stage \in {"idle", "version", "read"}, NEW seen, draft'.seen = seen, Lined(seen),
         ~draft'.state.refused
  PROVE  Planned'
<1>1. Lined(draft.seen)'
  BY DEF Lined
<1>2. QED
  BY <1>1 DEF Planned

\* The planner keeps the invariant: what it assembles again is from the same decisions unless their
\* number has changed.
LEMMA PlannerKeeps ==
  ASSUME WeekInv, PlannerStep
  PROVE  WeekInv'
<1>0. /\ draft \in DraftType /\ Lined(draft.seen) /\ ~draft.state.refused /\ Typed
      /\ moment' = moment /\ decided' = decided /\ offer' = offer /\ decisions' = decisions
      /\ moment \in 0..LastInstant /\ decisions \in 0..MaxDecisions /\ AllBy(moment)
  BY DEF WeekInv, Planned, TeamWeekTypeOK, DraftType, Typed, AllBy, PlannerStep, CollectWeek,
         NoteVersion, ReadRecord, Reread, CheckDecisions
<1>1. ASSUME draft' \in DraftType, Planned',
             draft'.stage \notin {"idle", "version"} => draft'.version <= decisions
      PROVE  WeekInv'
  BY <1>0, <1>1 DEF WeekInv, TeamWeekTypeOK, DraftType, Typed, AllBy
<1>2. CASE CollectWeek
  <2>1. PICK owned \in SUBSET Performer : \E lineup \in LineupOf(owned) :
          draft' = [AtRest EXCEPT !.stage = "version", !.at = moment,
                                  !.seen = [owned |-> owned, lineup |-> lineup]]
    BY <1>2 DEF CollectWeek
  <2>2. PICK lineup \in LineupOf(owned) :
          draft' = [AtRest EXCEPT !.stage = "version", !.at = moment,
                                  !.seen = [owned |-> owned, lineup |-> lineup]]
    BY <2>1
  <2> DEFINE seen == [owned |-> owned, lineup |-> lineup]
  <2>3. seen.owned = owned /\ seen.lineup = lineup /\ seen \in Snapshot /\ Lined(seen)
    <3>1. lineup \in [Seat -> owned \cup {Unfilled}] /\ lineup \in [Seat -> Performer \cup {Unfilled}]
      BY <2>2 DEF LineupOf
    <3>2. \A r, s \in Seat : lineup[r] = lineup[s] /\ lineup[r] # Unfilled => r = s
      BY <2>2 DEF LineupOf
    <3>3. QED
      BY <3>1, <3>2 DEF Snapshot, Lined
  <2> HIDE DEF seen
  <2>4. draft' \in DraftType /\ draft'.stage = "version" /\ draft'.seen = seen
        /\ draft'.state = AtRest.state
    BY <1>0, <2>2, <2>3, RestFacts DEF DraftType, seen
  <2>5. Planned'
    BY <2>3, <2>4, RestFacts, PlannedAtFirst
  <2>6. QED
    BY <1>1, <2>4, <2>5
<1>3. CASE NoteVersion
  <2>1. draft' = [draft EXCEPT !.stage = "read", !.version = decisions]
    BY <1>3 DEF NoteVersion
  <2>2. /\ draft' \in DraftType /\ draft'.stage = "read" /\ draft'.version = decisions
        /\ draft'.seen = draft.seen /\ draft'.state = draft.state
    BY <1>0, <2>1 DEF DraftType
  <2>3. Planned' /\ draft'.version <= decisions
    <3>1. Planned'
      BY <1>0, <2>2, PlannedAtFirst
    <3>2. decisions <= decisions
      BY <1>0, TeamWeekAssumption
    <3>3. QED
      BY <2>2, <3>1, <3>2
  <2>4. QED
    BY <1>1, <2>2, <2>3
<1>4. CASE ReadRecord
  <2> DEFINE state == Assembled(draft.seen, draft.at)
  <2>1. /\ state \in [fixed : SUBSET Performance, passed : SUBSET Performance,
                      blocked : BOOLEAN, refused : BOOLEAN]
        /\ ~state.refused /\ Unblocked(state, draft.seen)
    BY <1>0, AssembledFacts
  <2>2. draft' = [draft EXCEPT !.stage = "reread", !.state = state] /\ draft.stage = "read"
    BY <1>4 DEF ReadRecord
  <2> HIDE DEF state
  <2>3. /\ draft' \in DraftType /\ draft'.stage = "reread" /\ draft'.version = draft.version
        /\ draft'.seen = draft.seen /\ draft'.state = state
    BY <1>0, <2>1, <2>2 DEF DraftType
  <2>4. Planned'
    BY <1>0, <2>1, <2>3, PlannedNext
  <2>5. QED
    BY <1>0, <1>1, <2>2, <2>3, <2>4 DEF WeekInv
<1>5. CASE Reread
  <2> DEFINE again == Assembled(draft.seen, moment)
             changed == again.fixed # draft.state.fixed \/ again.passed # draft.state.passed
             state == IF changed \/ again.refused THEN again ELSE draft.state
  <2>1. /\ again \in [fixed : SUBSET Performance, passed : SUBSET Performance,
                      blocked : BOOLEAN, refused : BOOLEAN]
        /\ ~again.refused /\ Unblocked(again, draft.seen) /\ Gathered(again, draft.seen)
    BY <1>0, AssembledFacts
  <2>2. draft' = [draft EXCEPT !.stage = "check", !.state = state] /\ draft.stage = "reread"
    BY <1>5 DEF Reread
  <2> HIDE DEF again
  <2>3. draft.version = decisions => Unblocked(draft.state, draft.seen)
    BY <2>2 DEF WeekInv, Planned
  <2>4. /\ state \in [fixed : SUBSET Performance, passed : SUBSET Performance,
                      blocked : BOOLEAN, refused : BOOLEAN]
        /\ ~state.refused
        /\ draft.version = decisions => Gathered(state, draft.seen) /\ Unblocked(state, draft.seen)
    BY <1>0, <2>1, <2>3 DEF DraftType, Gathered
  <2> HIDE DEF state
  <2>5. /\ draft' \in DraftType /\ draft'.stage = "check" /\ draft'.version = draft.version
        /\ draft'.seen = draft.seen /\ draft'.state = state
    BY <1>0, <2>2, <2>4 DEF DraftType
  <2>6. Planned'
    BY <1>0, <2>4, <2>5, PlannedNext
  <2>7. QED
    BY <1>0, <1>1, <2>2, <2>5, <2>6 DEF WeekInv
<1>6. CASE CheckDecisions
  <2>1. /\ draft.stage = "check"
        /\ \/ draft' = AtRest
           \/ draft' = [draft EXCEPT !.stage = "accepted"]
    BY <1>6 DEF CheckDecisions
  <2>2. CASE draft' = AtRest
    <3>1. Planned'
      BY <2>2, RestFacts, PlannedAtFirst
    <3>2. QED
      BY <1>1, <2>2, <3>1, RestFacts DEF DraftType
  <2>3. CASE draft' = [draft EXCEPT !.stage = "accepted"]
    <3>1. /\ draft' \in DraftType /\ draft'.stage = "accepted" /\ draft'.version = draft.version
          /\ draft'.seen = draft.seen /\ draft'.state = draft.state
      BY <1>0, <2>3 DEF DraftType
    <3>2. draft.version = decisions =>
            Gathered(draft.state, draft.seen) /\ Unblocked(draft.state, draft.seen)
      BY <2>1 DEF WeekInv, Planned
    <3>3. Planned'
      BY <1>0, <3>1, <3>2, PlannedNext
    <3>4. QED
      BY <1>0, <1>1, <2>1, <3>1, <3>3 DEF WeekInv
  <2>4. QED
    BY <2>1, <2>2, <2>3
<1>7. QED
  BY <1>2, <1>3, <1>4, <1>5, <1>6 DEF PlannerStep

Offers == Seat \cup {NoSeat, NoOffer}

\* A decision of the owner is newer than whatever a planner noted.
LEMMA DecisionKeeps ==
  ASSUME WeekInv, CountDecision, draft' = draft, moment' = moment,
         decided' \in [Performance -> Noted], offer' \in [Performance -> Offers],
         \A f \in Performance : decided'[f].at <= moment
  PROVE  WeekInv'
<1>1. /\ decisions' = decisions + 1 /\ decisions' \in 0..MaxDecisions /\ decisions \in Nat
  BY TeamWeekAssumption DEF WeekInv, TeamWeekTypeOK, CountDecision
<1>2. draft.version \in Nat
  BY TeamWeekAssumption DEF WeekInv, TeamWeekTypeOK
<1>3. draft'.stage \notin {"idle", "version"} =>
        draft'.version <= decisions' /\ draft'.version # decisions'
  <2>1. draft.stage \notin {"idle", "version"} => draft.version <= decisions
    BY DEF WeekInv
  <2>2. QED
    BY <1>1, <1>2, <2>1
<1>4. Planned'
  <2>1. Lined(draft.seen)' /\ (~draft.state.refused)'
    BY DEF WeekInv, Planned, Lined
  <2>2. QED
    BY <1>3, <2>1 DEF Planned
<1>5. TeamWeekTypeOK'
  BY <1>1 DEF WeekInv, TeamWeekTypeOK, Offers
<1>6. QED
  BY <1>3, <1>4, <1>5 DEF WeekInv

\* While the planner rests the record changes freely.
LEMMA RestKeeps ==
  ASSUME WeekInv, draft'.stage = "idle", draft' \in DraftType, Lined(draft'.seen),
         ~draft'.state.refused, moment' = moment, decisions' = decisions,
         decided' \in [Performance -> Noted], offer' \in [Performance -> Offers],
         \A f \in Performance : decided'[f].at = decided[f].at
  PROVE  WeekInv'
<1>1. Planned'
  BY PlannedAtFirst
<1>2. TeamWeekTypeOK'
  BY DEF WeekInv, TeamWeekTypeOK, Offers, DraftType
<1>3. QED
  BY <1>1, <1>2 DEF WeekInv

\* The rest of the week keeps it: games, rechecks, offers and the owner.
LEMMA RecordKeeps ==
  ASSUME WeekInv,
         \/ PublishOffers
         \/ \E f \in Performance : ObserveAgain(f) \/ PlayGame(f) \/ TakeBack(f)
         \/ \E f \in Performance, status \in {"locked", "passed"} :
              ConfirmOffer(f, status) \/ ReportDecision(f, status)
         \/ PassTime
  PROVE  WeekInv'
<1>0. /\ decided \in [Performance -> Noted] /\ offer \in [Performance -> Offers]
      /\ draft \in DraftType /\ Lined(draft.seen) /\ ~draft.state.refused
      /\ moment \in 0..LastInstant /\ \A f \in Performance : decided[f].at <= moment
      /\ \A p \in Performer : Fits[p] \subseteq Seat
      /\ \A f \in Performance : By[f] \in Performer
  BY TeamWeekAssumption DEF WeekInv, TeamWeekTypeOK, Offers, DraftType, Planned
<1>1. CASE PublishOffers
  <2> DEFINE usable == {f \in Performance : ~draft.state.blocked /\ UsableNow(f)}
             open == Seat \ {decided[f].seat : f \in draft.state.fixed}
  <2>1. PICK advised \in SUBSET usable : \E advice \in [advised -> open \cup {NoSeat}] :
          /\ \E there \in IF decisions = draft.version THEN {advised}
                          ELSE SUBSET {f \in advised : offer[f] = advice[f]} :
               offer' = [f \in Performance |-> IF f \in there THEN advice[f] ELSE NoOffer]
          /\ decided' = [f \in Performance |->
                           IF f \in advised THEN [decided[f] EXCEPT !.status = "offered"]
                           ELSE decided[f]]
    BY <1>1 DEF PublishOffers
  <2>2. PICK advice \in [advised -> open \cup {NoSeat}], there \in SUBSET advised :
          /\ offer' = [f \in Performance |-> IF f \in there THEN advice[f] ELSE NoOffer]
          /\ decided' = [f \in Performance |->
                           IF f \in advised THEN [decided[f] EXCEPT !.status = "offered"]
                           ELSE decided[f]]
    <3> HIDE DEF usable, open
    <3>1. QED
      BY <2>1
  <2>3. offer' \in [Performance -> Offers]
    BY <2>2 DEF Offers
  <2>4. decided' \in [Performance -> Noted] /\ \A f \in Performance : decided'[f].at = decided[f].at
    <3>1. ASSUME NEW f \in Performance
          PROVE  /\ [decided[f] EXCEPT !.status = "offered"] \in Noted
                 /\ [decided[f] EXCEPT !.status = "offered"].at = decided[f].at
      <4>1. decided[f] \in Noted
        BY <1>0
      <4>2. QED
        BY <4>1 DEF Noted, Standing
    <3> HIDE DEF usable, open
    <3>2. QED
      BY <1>0, <2>2, <3>1
  <2>5. draft' = AtRest /\ moment' = moment /\ decisions' = decisions
    BY <1>1 DEF PublishOffers
  <2>6. QED
    BY <2>3, <2>4, <2>5, RestFacts, RestKeeps DEF DraftType
<1>2. ASSUME NEW f \in Performance, ObserveAgain(f) PROVE WeekInv'
  <2>1. decided' \in [Performance -> Noted] /\ \A g \in Performance : decided'[g].at = decided[g].at
    BY <1>0, <1>2 DEF ObserveAgain, Noted, Standing
  <2>2. QED
    BY <1>0, <1>2, <2>1, RestKeeps DEF ObserveAgain
<1>3. ASSUME NEW f \in Performance, PlayGame(f) PROVE WeekInv'
  <2> DEFINE lapsed == {g \in Performance : g < f /\ By[g] = By[f] /\ ~IsSettled(g)}
  <2>1. PICK s \in Fits[By[f]] :
          decided' = [g \in Performance |->
                        IF g = f THEN [decided[f] EXCEPT !.status = "final", !.seat = s]
                        ELSE IF g \in lapsed THEN [decided[g] EXCEPT !.status = "expired"]
                        ELSE decided[g]]
    BY <1>3 DEF PlayGame
  <2>2. s \in Seat
    BY <1>0, <2>1
  <2>3. offer' = [g \in Performance |-> IF g \in lapsed THEN NoOffer ELSE offer[g]]
    BY <1>3 DEF PlayGame
  <2> HIDE DEF lapsed
  <2>4. decided' \in [Performance -> Noted] /\ \A g \in Performance : decided'[g].at = decided[g].at
    BY <1>0, <2>1, <2>2 DEF Noted, Standing
  <2>5. offer' \in [Performance -> Offers]
    BY <1>0, <2>3 DEF Offers
  <2>6. draft.stage = "idle" /\ draft' = draft /\ moment' = moment /\ decisions' = decisions
    BY <1>3 DEF PlayGame
  <2>7. QED
    BY <1>0, <2>4, <2>5, <2>6, RestKeeps
<1>4. ASSUME NEW f \in Performance, offer' = [offer EXCEPT ![f] = NoOffer],
             CountDecision, draft' = draft, moment' = moment,
             \/ decided' = decided
             \/ \E entry \in Noted : entry.at <= moment /\ decided' = [decided EXCEPT ![f] = entry]
      PROVE  WeekInv'
  <2>1. offer' \in [Performance -> Offers]
    BY <1>0, <1>4 DEF Offers
  <2>2. decided' \in [Performance -> Noted] /\ \A g \in Performance : decided'[g].at <= moment
    BY <1>0, <1>4
  <2>3. QED
    BY <1>4, <2>1, <2>2, DecisionKeeps
<1>5. ASSUME NEW f \in Performance, TakeBack(f) PROVE WeekInv'
  <2> DEFINE status == IF decided[f].status = "unplayed" THEN decided[f].status
                       ELSE IF Late(f) THEN "expired" ELSE "final"
             entry == [decided[f] EXCEPT !.status = status, !.at = 0]
  <2>1. decided' = [decided EXCEPT ![f] = entry]
    BY <1>0, <1>5 DEF TakeBack
  <2>2. status \in Standing
    BY <1>0 DEF Noted, Standing
  <2>3. 0 \in 0..LastInstant /\ 0 <= moment
    BY <1>0, TeamWeekAssumption
  <2> HIDE DEF status
  <2>4. entry \in Noted /\ entry.at <= moment
    BY <1>0, <2>2, <2>3 DEF Noted
  <2> HIDE DEF entry
  <2>5. QED
    BY <1>4, <1>5, <2>1, <2>4 DEF TakeBack
<1>6. ASSUME NEW f \in Performance, NEW status \in {"locked", "passed"}, NEW s \in Seat \cup {NoSeat}
      PROVE  /\ [status |-> status, seat |-> s, at |-> moment] \in Noted
             /\ [status |-> status, seat |-> s, at |-> moment].at <= moment
  BY <1>0, TeamWeekAssumption DEF Noted, Standing
<1>7. ASSUME NEW f \in Performance, NEW status \in {"locked", "passed"}, ConfirmOffer(f, status)
      PROVE  WeekInv'
  <2> DEFINE s == IF status = "locked" /\ offer[f] \in Seat THEN offer[f] ELSE decided[f].seat
  <2>1. s \in Seat \cup {NoSeat}
    BY <1>0 DEF Noted
  <2>2. \/ decided' = decided
        \/ decided' = [decided EXCEPT ![f] = [status |-> status, at |-> moment, seat |-> s]]
    BY <1>0, <1>7 DEF ConfirmOffer
  <2> HIDE DEF s
  <2>3. QED
    BY <1>4, <1>6, <1>7, <2>1, <2>2 DEF ConfirmOffer
<1>8. ASSUME NEW f \in Performance, NEW status \in {"locked", "passed"}, ReportDecision(f, status)
      PROVE  WeekInv'
  <2>1. PICK s \in IF status = "locked" THEN Fits[By[f]] ELSE {decided[f].seat} :
          decided' = [decided EXCEPT ![f] = [status |-> status, seat |-> s, at |-> moment]]
    BY <1>8 DEF ReportDecision
  <2>2. s \in Seat \cup {NoSeat}
    BY <1>0, <2>1 DEF Noted
  <2>3. QED
    BY <1>4, <1>6, <1>8, <2>1, <2>2 DEF ReportDecision
<1>9. CASE PassTime
  <2>1. /\ moment' = moment + 1 /\ moment' \in 0..LastInstant /\ decided' = decided
        /\ offer' = offer /\ decisions' = decisions /\ draft' = draft
    BY <1>0, <1>9, TeamWeekAssumption DEF PassTime
  <2>2. \A f \in Performance : decided'[f].at <= moment'
    <3>1. \A f \in Performance : decided[f].at \in Int
      BY <1>0, TeamWeekAssumption DEF Noted
    <3>2. QED
      BY <1>0, <2>1, <3>1, TeamWeekAssumption
  <2>3. Planned'
    BY <2>1, PlannedNext DEF WeekInv, Planned
  <2>4. TeamWeekTypeOK'
    BY <2>1 DEF WeekInv, TeamWeekTypeOK
  <2>5. QED
    BY <2>1, <2>2, <2>3, <2>4 DEF WeekInv
<1>10. QED
  BY <1>1, <1>2, <1>3, <1>5, <1>7, <1>8, <1>9

\* In every behaviour what the planner has agrees with the record until a decision is saved.
LEMMA WeekInvHolds == TeamWeekSpec => []WeekInv
<1>1. ASSUME TeamWeekInit PROVE WeekInv
  <2>1. /\ moment = 0 /\ decisions = 0 /\ draft = AtRest
        /\ decided = [f \in Performance |-> [status |-> "unplayed", seat |-> NoSeat, at |-> 0]]
        /\ offer = [f \in Performance |-> NoOffer]
    BY <1>1 DEF TeamWeekInit
  <2>2. 0 \in 0..LastInstant /\ 0 \in 0..MaxDecisions
    BY TeamWeekAssumption
  <2>3. [status |-> "unplayed", seat |-> NoSeat, at |-> 0] \in Noted
    BY <2>2 DEF Noted, Standing
  <2>4. TeamWeekTypeOK
    BY <2>1, <2>2, <2>3, RestFacts DEF TeamWeekTypeOK
  <2>5. QED
    BY <2>1, <2>2, <2>4, RestFacts DEF WeekInv, Planned
<1>2. ASSUME WeekInv, [TeamWeekNext]_TeamWeekVars PROVE WeekInv'
  <2>1. CASE UNCHANGED TeamWeekVars
    <3>1. Planned'
      BY <1>2, <2>1, PlannedNext DEF WeekInv, Planned, TeamWeekVars
    <3>2. TeamWeekTypeOK' /\ \A f \in Performance : (decided[f].at <= moment)'
      BY <1>2, <2>1 DEF WeekInv, TeamWeekTypeOK, TeamWeekVars
    <3>3. QED
      BY <1>2, <2>1, <3>1, <3>2 DEF WeekInv, TeamWeekVars
  <2>2. CASE TeamWeekNext
    BY <1>2, <2>2, PlannerKeeps, RecordKeeps DEF TeamWeekNext, PlannerStep
  <2>3. QED
    BY <1>2, <2>1, <2>2
<1>3. QED
  BY <1>1, <1>2, PTL DEF TeamWeekSpec

\* The planner's snapshot and the decisions on record are what they should be.
THEOREM WeekTyped == TeamWeekSpec => []TeamWeekTypeOK
<1>1. WeekInv => TeamWeekTypeOK
  BY DEF WeekInv
<1>2. QED
  BY <1>1, WeekInvHolds, PTL

\* An accepted plan is made of the owner's decisions on record, all of them and no others, and is
\* blocked only if the record contradicts the lineup or itself (build_current_team_plan,
\* _acknowledgement_constraints, retained_weekly_locks).
THEOREM PlanIsOfTheRecord == TeamWeekSpec => []PlanIsTheRecord
<1>1. WeekInv => PlanIsTheRecord
  BY DEF WeekInv, Planned, PlanIsTheRecord, Gathered, Unblocked, Locks, Passes
<1>2. QED
  BY <1>1, WeekInvHolds, PTL

-----------------------------------------------------------------------------
(* The order of the assignments *)

\* What is compared: a total, and the candidates by slot.
NumberFacts == Place = 1..Places /\ Places \in Nat /\ Names \cup {Nobody} \subseteq Nat

\* They are numbers, and finitely many.
LEMMA Numbers == NumberFacts /\ IsFiniteSet(Names) /\ IsFiniteSet(Place) /\ IsFiniteSet(Edges)
<1>1. Places \in Nat /\ IsFiniteSet(Names) /\ Names \subseteq Nat
  BY AssignmentAssumption
<1>2. IsFiniteSet(Place)
  BY <1>1, FS_Interval DEF Place
<1>3. IsFiniteSet(Edges)
  BY <1>1, <1>2, FS_Product DEF Edges
<1>4. Nobody \in Nat
  BY DEF Nobody
<1>5. QED
  BY <1>1, <1>2, <1>3, <1>4 DEF NumberFacts, Place

\* Two different choices have a first slot in which they differ.
LEMMA NamesOrder ==
  ASSUME NEW a \in Choice, NEW b \in Choice, a # b
  PROVE  NamesBefore(a, b) \/ NamesBefore(b, a)
<1> DEFINE D == {i \in Place : a[i] # b[i]}
<1>1. D # {} /\ D \in SUBSET Nat
  BY Numbers DEF Choice, NumberFacts
<1>2. PICK i \in D : \A j \in D : i <= j
  BY <1>1, LeastNatural
<1>3. \A j \in 1..(i - 1) : a[j] = b[j]
  <2>1. ASSUME NEW j \in 1..(i - 1) PROVE a[j] = b[j]
    <3>1. j \in Place /\ j \in Int /\ i \in Int /\ ~(i <= j)
      BY <1>2, Numbers DEF NumberFacts
    <3>2. QED
      BY <1>2, <3>1
  <2>2. QED
    BY <2>1
<1>4. a[i] \in Nat /\ b[i] \in Nat /\ a[i] # b[i] /\ i \in Place
  BY <1>2, Numbers DEF Choice, NumberFacts
<1>5. a[i] < b[i] \/ b[i] < a[i]
  BY <1>4
<1>6. QED
  BY <1>3, <1>4, <1>5 DEF NamesBefore

\* No choice is before itself, and the order is transitive.
LEMMA NamesIrreflexive ==
  ASSUME NEW a \in Choice
  PROVE  ~NamesBefore(a, a)
<1>1. \A i \in Place : a[i] \in Nat
  BY Numbers DEF Choice, NumberFacts
<1>2. \A i \in Place : ~(a[i] < a[i])
  BY <1>1
<1>3. QED
  BY <1>2 DEF NamesBefore

\* The order is transitive.
LEMMA NamesTransitive ==
  ASSUME NEW a \in Choice, NEW b \in Choice, NEW c \in Choice,
         NamesBefore(a, b), NamesBefore(b, c)
  PROVE  NamesBefore(a, c)
<1>0. \A i \in Place : i \in Int /\ a[i] \in Nat /\ b[i] \in Nat /\ c[i] \in Nat
  BY Numbers DEF Choice, NumberFacts
<1>1. PICK i \in Place : a[i] < b[i] /\ \A j \in 1..(i - 1) : a[j] = b[j]
  BY DEF NamesBefore
<1>2. PICK k \in Place : b[k] < c[k] /\ \A j \in 1..(k - 1) : b[j] = c[j]
  BY DEF NamesBefore
<1>3. \A j \in Place, l \in Place : j < l => j \in 1..(l - 1)
  BY Numbers DEF NumberFacts
<1>4. CASE i < k
  <2>1. a[i] < c[i]
    BY <1>0, <1>1, <1>2, <1>3, <1>4
  <2>2. \A j \in 1..(i - 1) : j \in 1..(k - 1)
    BY <1>0, <1>4
  <2>3. QED
    BY <1>1, <1>2, <2>1, <2>2 DEF NamesBefore
<1>5. CASE k < i
  <2>1. a[k] < c[k]
    BY <1>0, <1>1, <1>2, <1>3, <1>5
  <2>2. \A j \in 1..(k - 1) : j \in 1..(i - 1)
    BY <1>0, <1>5
  <2>3. QED
    BY <1>1, <1>2, <2>1, <2>2 DEF NamesBefore
<1>6. CASE i = k
  <2>1. a[i] < c[i]
    BY <1>0, <1>1, <1>2, <1>6
  <2>2. QED
    BY <1>1, <1>2, <1>6, <2>1 DEF NamesBefore
<1>7. QED
  BY <1>0, <1>4, <1>5, <1>6

\* So the assignments are in a total order.
LEMMA BeatsOrder ==
  ASSUME NEW a \in Assignment, NEW b \in Assignment
  PROVE  /\ ~Beats(a, a)
         /\ a # b => Beats(a, b) \/ Beats(b, a)
         /\ \A c \in Assignment : Beats(a, b) /\ Beats(b, c) => Beats(a, c)
<1>1. \A c \in Assignment : c.score \in Int /\ c.choice \in Choice
  BY DEF Assignment
<1>2. ~Beats(a, a)
  <2>1. ~(a.score > a.score)
    BY <1>1
  <2>2. QED
    BY <1>1, <2>1, NamesIrreflexive DEF Beats
<1>3. ASSUME a # b PROVE Beats(a, b) \/ Beats(b, a)
  <2>1. a.score # b.score \/ a.choice # b.choice
    BY <1>3 DEF Assignment
  <2>2. CASE a.score # b.score
    <3>1. a.score > b.score \/ b.score > a.score
      BY <1>1, <2>2
    <3>2. QED
      BY <3>1 DEF Beats
  <2>3. CASE a.score = b.score /\ a.choice # b.choice
    BY <1>1, <2>3, NamesOrder DEF Beats
  <2>4. QED
    BY <2>1, <2>2, <2>3
<1>4. ASSUME NEW c \in Assignment, Beats(a, b), Beats(b, c) PROVE Beats(a, c)
  <2>0. a.score \in Int /\ b.score \in Int /\ c.score \in Int
    BY <1>1
  <2>1. a.score >= b.score /\ b.score >= c.score
    BY <1>4, <2>0 DEF Beats
  <2>2. CASE a.score > c.score
    BY <2>2 DEF Beats
  <2>3. CASE ~(a.score > c.score)
    <3>1. a.score = b.score /\ b.score = c.score
      BY <2>0, <2>1, <2>3
    <3>2. ~(a.score > b.score) /\ ~(b.score > c.score)
      BY <2>0, <3>1
    <3>3. NamesBefore(a.choice, b.choice) /\ NamesBefore(b.choice, c.choice)
      BY <1>4, <3>2 DEF Beats
    <3>4. NamesBefore(a.choice, c.choice)
      BY <1>1, <3>3, NamesTransitive
    <3>5. QED
      BY <3>1, <3>4 DEF Beats
  <2>4. QED
    BY <2>2, <2>3
<1>5. QED
  BY <1>2, <1>3, <1>4

\* What is not beaten by one that is not beaten.
LEMMA Unbeaten ==
  ASSUME NEW a \in Assignment, NEW b \in Assignment, NEW c \in Assignment,
         ~Beats(a, b), ~Beats(b, c)
  PROVE  ~Beats(a, c)
<1>1. SUFFICES ASSUME Beats(a, c) PROVE FALSE
  OBVIOUS
<1>2. b # c /\ Beats(c, b)
  BY <1>1, BeatsOrder
<1>3. Beats(a, b)
  BY <1>1, <1>2, BeatsOrder
<1>4. QED
  BY <1>3

\* Of finitely many assignments one is the best.
LEMMA BestFacts ==
  ASSUME NEW S \in SUBSET Assignment, IsFiniteSet(S), S # {}
  PROVE  BestOf(S) \in S /\ \A b \in S : ~Beats(b, BestOf(S))
<1> DEFINE Leads(a, T) == a \in T /\ \A b \in T \ {a} : Beats(a, b)
           C == {T \in SUBSET S : T = {} \/ \E a \in S : Leads(a, T)}
<1>1. {} \in C
  OBVIOUS
<1>2. ASSUME NEW T \in SUBSET S, NEW x \in S \ T, T \in C PROVE T \cup {x} \in C
  <2>1. SUFFICES \E a \in S : Leads(a, T \cup {x})
    BY <1>2
  <2>2. CASE T = {}
    <3>1. Leads(x, T \cup {x})
      BY <2>2
    <3>2. QED
      BY <3>1
  <2>3. CASE T # {}
    <3>1. PICK a \in S : Leads(a, T)
      BY <1>2, <2>3
    <3>2. CASE Beats(a, x)
      <4>1. Leads(a, T \cup {x})
        BY <3>1, <3>2
      <4>2. QED
        BY <4>1
    <3>3. CASE ~Beats(a, x)
      <4>1. Beats(x, a)
        BY <1>2, <3>1, <3>3, BeatsOrder
      <4>2. \A b \in T : b \in Assignment /\ (b = a \/ Beats(a, b))
        BY <3>1
      <4>3. \A b \in T : Beats(x, b)
        BY <4>1, <4>2, BeatsOrder
      <4>4. Leads(x, T \cup {x})
        BY <4>3
      <4>5. QED
        BY <4>4
    <3>4. QED
      BY <3>2, <3>3
  <2>4. QED
    BY <2>2, <2>3
<1>3. S \in C
  <2> HIDE DEF C
  <2>1. QED
    BY <1>1, <1>2, AllFinite
<1>4. \E a \in S : \A b \in S \ {a} : Beats(a, b)
  BY <1>3
<1>5. BestOf(S) \in S /\ \A b \in S \ {BestOf(S)} : Beats(BestOf(S), b)
  BY <1>4 DEF BestOf
<1>6. ASSUME NEW b \in S, Beats(b, BestOf(S)) PROVE FALSE
  <2>1. b # BestOf(S) /\ Beats(BestOf(S), b)
    BY <1>5, <1>6, BeatsOrder
  <2>2. Beats(b, b)
    BY <1>5, <1>6, <2>1, BeatsOrder
  <2>3. QED
    BY <2>2, BeatsOrder
<1>7. QED
  BY <1>5, <1>6

-----------------------------------------------------------------------------
(* The total of a choice *)

\* What a candidate adds to the total, and the total with the candidates given.
Worth(of, n) == IF n = Nobody THEN 0 ELSE of[n].score
TotalOf(of, c) == FoldFunctionOnSet(LAMBDA n, sum : sum + Worth(of, n), 0, c, Place)

\* The total is a sum: an empty slot adds nothing, and a slot that is filled adds what its
\* candidate is worth.
LEMMA TotalFacts ==
  ASSUME NEW of \in [Names -> Candidate], NEW c \in Choice
  PROVE  /\ TotalOf(of, c) \in Int
         /\ (\A i \in Place : c[i] = Nobody) => TotalOf(of, c) = 0
         /\ \A i \in Place, n \in Names : c[i] = Nobody =>
              TotalOf(of, [c EXCEPT ![i] = n]) = TotalOf(of, c) + of[n].score
<1> DEFINE first(s) == CHOOSE x \in s : TRUE
           Sums(d, g) == /\ g \in [SUBSET Place -> Int] /\ g[{}] = 0
                         /\ \A s \in SUBSET Place : s # {} =>
                              g[s] = g[s \ {first(s)}] + Worth(of, d[first(s)])
<1>1. \A s \in SUBSET Place : s # {} => first(s) \in s
  OBVIOUS
<1>2. \A n \in Names \cup {Nobody} : Worth(of, n) \in Int
  <2>1. \A n \in Names : of[n].score \in Int
    BY AssignmentAssumption DEF Candidate
  <2>2. QED
    BY <2>1 DEF Worth
<1>a. ASSUME NEW C \in SUBSET SUBSET Place, {} \in C,
             \A s \in SUBSET Place : s # {} /\ s \ {first(s)} \in C => s \in C
      PROVE  C = SUBSET Place
  <2> DEFINE N == {n \in Nat : \A s \in SUBSET Place : Cardinality(s) = n => s \in C}
  <2>0. \A s \in SUBSET Place : IsFiniteSet(s) /\ Cardinality(s) \in Nat
    BY Numbers, FS_Subset, FS_CardinalityType
  <2>1. 0 \in N
    <3>1. \A s \in SUBSET Place : Cardinality(s) = 0 => s = {}
      BY <2>0, FS_EmptySet
    <3>2. QED
      BY <1>a, <3>1
  <2>2. ASSUME NEW n \in Nat, n \in N PROVE n + 1 \in N
    <3>1. SUFFICES ASSUME NEW s \in SUBSET Place, Cardinality(s) = n + 1
                   PROVE  s \in C
      BY <2>2
    <3>2. s # {}
      <4>1. Cardinality({}) # n + 1
        BY FS_EmptySet
      <4>2. QED
        BY <3>1, <4>1
    <3>3. Cardinality(s \ {first(s)}) = n
      <4>1. Cardinality(s \ {first(s)}) = Cardinality(s) - 1
        BY <1>1, <2>0, <3>2, FS_RemoveElement
      <4>2. QED
        BY <3>1, <4>1
    <3>4. QED
      BY <1>a, <2>2, <3>2, <3>3
  <2> HIDE DEF N
  <2>3. Nat \subseteq N
    BY <2>1, <2>2, AllNaturals
  <2>4. QED
    BY <2>0, <2>3 DEF N
<1>3. ASSUME NEW d \in Choice
      PROVE  \E g : Sums(d, g) /\ TotalOf(of, d) = g[Place]
  <2> DEFINE iterated[s \in SUBSET Place] ==
               IF s = {} THEN 0 ELSE LET x == CHOOSE x \in s : TRUE IN iterated[s \ {x}] + Worth(of, d[x])
             bound == Cardinality(Place)
             measure == [s \in SUBSET Place |-> Cardinality(s)]
             next == [s \in SUBSET Place |-> s \ {first(s)}]
             zero == [s \in SUBSET Place |-> 0]
             step == [s \in SUBSET Place |-> [v \in Int |->
                        IF s = {} THEN v ELSE v + Worth(of, d[first(s)])]]
  <2>1. \A s \in SUBSET Place : s # {} => Worth(of, d[first(s)]) \in Int
    BY <1>1, <1>2 DEF Choice
  <2>2. Descends(SUBSET Place, Int, bound, measure, {{}}, next, zero, step)
    <3>1. \A s \in SUBSET Place : IsFiniteSet(s) /\ Cardinality(s) \in 0..bound
      <4>1. ASSUME NEW s \in SUBSET Place PROVE IsFiniteSet(s) /\ Cardinality(s) \in 0..bound
        <5>1. IsFiniteSet(s) /\ Cardinality(s) <= Cardinality(Place)
          BY Numbers, FS_Subset
        <5>2. Cardinality(s) \in Nat /\ Cardinality(Place) \in Nat
          BY <5>1, Numbers, FS_CardinalityType
        <5>3. QED
          BY <5>1, <5>2
      <4>2. QED
        BY <4>1
    <3>2. bound \in Nat
      BY Numbers, FS_CardinalityType
    <3>3. ASSUME NEW s \in SUBSET Place, s # {} PROVE Cardinality(s \ {first(s)}) < Cardinality(s)
      <4>1. Cardinality(s \ {first(s)}) = Cardinality(s) - 1
        BY <1>1, <3>1, <3>3, FS_RemoveElement
      <4>2. QED
        BY <3>1, <4>1
    <3>4. step \in [SUBSET Place -> [Int -> Int]]
      BY <2>1
    <3>5. next \in [SUBSET Place -> SUBSET Place]
      OBVIOUS
    <3> HIDE DEF bound, step
    <3>6. QED
      BY <3>1, <3>2, <3>3, <3>4, <3>5 DEF Descends
  <2>3. PICK f : Computes(f, SUBSET Place, Int, {{}}, next, zero, step)
    <3> HIDE DEF bound, measure, next, zero, step
    <3>1. QED
      BY <2>2, Recursion
  <2>4. /\ f \in [SUBSET Place -> Int]
        /\ f = [s \in SUBSET Place |-> IF s \in {{}} THEN zero[s] ELSE step[s][f[next[s]]]]
    BY <2>3 DEF Computes
  <2> DEFINE Added(g, s) == IF s = {} THEN 0 ELSE g[s \ {first(s)}] + Worth(of, d[first(s)])
  <2>5. ASSUME NEW s \in SUBSET Place PROVE f[s] = Added(f, s)
    <3>1. CASE s = {}
      BY <2>4, <3>1
    <3>2. CASE s # {}
      <4>1. f[s \ {first(s)}] \in Int
        BY <2>4
      <4>2. QED
        BY <2>4, <3>2, <4>1
    <3>3. QED
      BY <3>1, <3>2
  <2> HIDE DEF Added
  <2>6. f = [s \in SUBSET Place |-> Added(f, s)]
    BY <2>4, <2>5
  <2>7. iterated = [s \in SUBSET Place |-> Added(iterated, s)]
    BY <2>6, Zenon DEF Added
  <2>8. TotalOf(of, d) = iterated[Place]
    BY Zenon DEF TotalOf, FoldFunctionOnSet, MapThenFoldSet
  <2> HIDE DEF iterated
  <2>9. \A s \in SUBSET Place : iterated[s] = Added(iterated, s)
    BY <2>7
  <2> DEFINE Whole == {s \in SUBSET Place : iterated[s] \in Int}
  <2>10. \A s \in SUBSET Place : iterated[s] \in Int
    <3>1. {} \in Whole
      <4>1. iterated[{}] = 0
        BY <2>9 DEF Added
      <4>2. QED
        BY <4>1
    <3>2. \A s \in SUBSET Place : s # {} /\ s \ {first(s)} \in Whole => s \in Whole
      BY <2>1, <2>9 DEF Added
    <3>3. Whole \in SUBSET SUBSET Place
      OBVIOUS
    <3> HIDE DEF Whole
    <3>4. Whole = SUBSET Place
      BY <1>a, <3>1, <3>2, <3>3
    <3>5. QED
      BY <3>4 DEF Whole
  <2>11. iterated \in [SUBSET Place -> Int]
    BY <2>7, <2>10
  <2>12. Sums(d, iterated)
    BY <2>9, <2>11 DEF Added
  <2>13. QED
    BY <2>8, <2>12
<1> HIDE DEF Sums
<1>4. PICK g : Sums(c, g) /\ TotalOf(of, c) = g[Place]
  BY <1>3
<1>5. TotalOf(of, c) \in Int
  BY <1>4 DEF Sums
<1>7. ASSUME \A i \in Place : c[i] = Nobody PROVE TotalOf(of, c) = 0
  <2> DEFINE C == {s \in SUBSET Place : g[s] = 0}
  <2>1. {} \in C
    BY <1>4 DEF Sums
  <2>2. \A s \in SUBSET Place : s # {} /\ s \ {first(s)} \in C => s \in C
    <3>1. \A s \in SUBSET Place : s # {} => Worth(of, c[first(s)]) = 0
      BY <1>1, <1>7 DEF Worth
    <3>2. QED
      BY <1>4, <3>1 DEF Sums
  <2>3. C \in SUBSET SUBSET Place
    OBVIOUS
  <2> HIDE DEF C
  <2>4. Place \in C
    BY <1>a, <2>1, <2>2, <2>3
  <2>5. QED
    BY <1>4, <2>4 DEF C
<1>8. ASSUME NEW i \in Place, NEW n \in Names, c[i] = Nobody
      PROVE  TotalOf(of, [c EXCEPT ![i] = n]) = TotalOf(of, c) + of[n].score
  <2> DEFINE d == [c EXCEPT ![i] = n]
  <2>1. d \in Choice /\ d[i] = n /\ \A j \in Place : j # i => d[j] = c[j]
    BY DEF Choice
  <2> HIDE DEF d
  <2>2. PICK h : Sums(d, h) /\ TotalOf(of, d) = h[Place]
    BY <1>3, <2>1
  <2>3. of[n].score \in Int /\ Worth(of, c[i]) = 0 /\ Worth(of, d[i]) = of[n].score
    <3>1. n # Nobody
      BY AssignmentAssumption
    <3>2. QED
      BY <1>2, <1>8, <2>1, <3>1 DEF Worth
  <2> DEFINE C == {s \in SUBSET Place : h[s] = g[s] + IF i \in s THEN of[n].score ELSE 0}
  <2>4. {} \in C
    BY <1>4, <2>2 DEF Sums
  <2>5. ASSUME NEW s \in SUBSET Place, s # {}, s \ {first(s)} \in C PROVE s \in C
    <3> DEFINE x == first(s)
    <3>1. x \in s /\ x \in Place
      BY <1>1, <2>5
    <3>2. g[s] = g[s \ {x}] + Worth(of, c[x]) /\ h[s] = h[s \ {x}] + Worth(of, d[x])
      BY <1>4, <2>2, <2>5 DEF Sums
    <3>3. g[s \ {x}] \in Int /\ h[s \ {x}] \in Int
      BY <1>4, <2>2 DEF Sums
    <3>4. Worth(of, c[x]) \in Int /\ Worth(of, d[x]) \in Int
      BY <1>2, <2>1, <3>1 DEF Choice
    <3>5. h[s \ {x}] = g[s \ {x}] + IF i \in s \ {x} THEN of[n].score ELSE 0
      BY <2>5
    <3> HIDE DEF x
    <3>6. CASE x = i
      <4>1. h[s \ {x}] = g[s \ {x}]
        BY <3>3, <3>5, <3>6
      <4>2. h[s] = g[s] + of[n].score
        BY <2>3, <3>2, <3>3, <3>6, <4>1
      <4>3. QED
        BY <3>1, <3>6, <4>2
    <3>7. CASE x # i
      <4>1. Worth(of, c[x]) = Worth(of, d[x])
        BY <2>1, <3>1, <3>7
      <4>2. i \in s \ {x} <=> i \in s
        BY <3>7
      <4>3. h[s] = g[s] + IF i \in s THEN of[n].score ELSE 0
        BY <2>3, <3>2, <3>3, <3>4, <3>5, <4>1, <4>2
      <4>4. QED
        BY <4>3
    <3>8. QED
      BY <3>6, <3>7
  <2>6. C \in SUBSET SUBSET Place
    OBVIOUS
  <2> HIDE DEF C
  <2>7. Place \in C
    BY <1>a, <2>4, <2>5, <2>6
  <2>8. h[Place] = g[Place] + of[n].score
    BY <2>7 DEF C
  <2>9. QED
    BY <1>4, <2>2, <2>8 DEF d
<1>9. QED
  BY <1>5, <1>7, <1>8

-----------------------------------------------------------------------------
(* The table while the players take their turns *)

\* A choice among the players of T: of usable edges, no player twice, everybody of must.
Legit(c, T, usable, must) ==
  /\ \A i \in Place : c[i] # Nobody => <<i, c[i]>> \in usable /\ Player[c[i]] \in T
  /\ \A i, j \in Place : i # j /\ c[i] # Nobody /\ c[j] # Nobody => Player[c[i]] # Player[c[j]]
  /\ \A p \in must : p \in T => \E i \in Place : c[i] # Nobody /\ Player[c[i]] = p
\* A choice with its total.
Own(of, c) == [score |-> TotalOf(of, c), choice |-> c]

\* The table has legitimate choices with their totals, and no legitimate choice that fills the
\* same slots beats its entry.
Tabled(table, T, of, usable, must) ==
  /\ DOMAIN table \in SUBSET SUBSET Place
  /\ \A mask \in DOMAIN table :
       /\ table[mask].choice \in Choice /\ Legit(table[mask].choice, T, usable, must)
       /\ table[mask] = Own(of, table[mask].choice) /\ Filled(table[mask]) = mask
  /\ \A c \in Choice : Legit(c, T, usable, must) =>
       /\ Filled(Own(of, c)) \in DOMAIN table
       /\ ~Beats(Own(of, c), table[Filled(Own(of, c))])

\* What a player's turn makes of a table.
Grown(of, a, e) ==
  [score |-> a.score + of[e[2]].score, choice |-> [a.choice EXCEPT ![e[1]] = e[2]]]
OpenEdges(p, usable, mask) == {e \in usable : Player[e[2]] = p /\ e[1] \notin mask}
Turn(table, p, of, usable, must) ==
  (IF p \in must THEN {} ELSE {table[mask] : mask \in DOMAIN table})
  \cup UNION {{Grown(of, table[mask], e) : e \in OpenEdges(p, usable, mask)} : mask \in DOMAIN table}
Taken(options) ==
  [mask \in {Filled(a) : a \in options} |-> BestOf({a \in options : Filled(a) = mask})]

\* A choice with its total is an assignment, which fills the slots of the choice.
LEMMA OwnFacts ==
  ASSUME NEW of \in [Names -> Candidate], NEW c \in Choice
  PROVE  /\ Own(of, c) \in Assignment /\ Own(of, c).choice = c /\ Own(of, c).score = TotalOf(of, c)
         /\ Filled(Own(of, c)) = {i \in Place : c[i] # Nobody}
<1>1. TotalOf(of, c) \in Int
  BY TotalFacts
<1>2. QED
  BY <1>1 DEF Own, Assignment, Filled

\* What is added to both sides can be taken away.
LEMMA Cancelled ==
  ASSUME NEW x \in Int, NEW y \in Int, NEW z \in Int, x + z = y + z
  PROVE  x = y
OBVIOUS

\* Filling one slot more alike leaves the order of two choices.
LEMMA SameOrder ==
  ASSUME NEW of \in [Names -> Candidate], NEW c \in Choice, NEW d \in Choice,
         NEW i \in Place, NEW n \in Names, c[i] = Nobody, d[i] = Nobody,
         Beats(Own(of, [c EXCEPT ![i] = n]), Own(of, [d EXCEPT ![i] = n]))
  PROVE  Beats(Own(of, c), Own(of, d))
<1> DEFINE c1 == [c EXCEPT ![i] = n]
           d1 == [d EXCEPT ![i] = n]
<1>1. c1 \in Choice /\ d1 \in Choice
  BY DEF Choice
<1>2. TotalOf(of, c1) = TotalOf(of, c) + of[n].score /\ TotalOf(of, d1) = TotalOf(of, d) + of[n].score
  BY TotalFacts
<1>3. TotalOf(of, c) \in Int /\ TotalOf(of, d) \in Int /\ of[n].score \in Int
  BY TotalFacts, AssignmentAssumption DEF Candidate
<1>4. c1[i] = d1[i] /\ \A j \in Place : j # i => c1[j] = c[j] /\ d1[j] = d[j]
  BY DEF Choice
<1>5. \A j \in Place : c1[j] \in Nat /\ d1[j] \in Nat
  BY <1>1, Numbers DEF Choice, NumberFacts
<1> HIDE DEF c1, d1
<1>6. NamesBefore(c1, d1) => NamesBefore(c, d)
  <2>1. SUFFICES ASSUME NEW k \in Place, c1[k] < d1[k], \A j \in 1..(k - 1) : c1[j] = d1[j]
                 PROVE  NamesBefore(c, d)
    BY DEF NamesBefore
  <2>2. k # i
    BY <1>4, <1>5, <2>1
  <2>3. c[k] < d[k]
    BY <1>4, <2>1, <2>2
  <2>4. ASSUME NEW j \in 1..(k - 1) PROVE c[j] = d[j]
    <3>1. j \in Place
      BY Numbers DEF NumberFacts
    <3>2. CASE j = i
      BY <3>2
    <3>3. CASE j # i
      BY <1>4, <2>1, <3>1, <3>3
    <3>4. QED
      BY <3>2, <3>3
  <2>5. QED
    BY <2>3, <2>4 DEF NamesBefore
<1>7. Beats(Own(of, c1), Own(of, d1))
  BY DEF c1, d1
<1>8. \/ TotalOf(of, c1) > TotalOf(of, d1)
      \/ TotalOf(of, c1) = TotalOf(of, d1) /\ NamesBefore(c1, d1)
  BY <1>7 DEF Beats, Own
<1>9. CASE TotalOf(of, c1) > TotalOf(of, d1)
  <2>1. TotalOf(of, c) > TotalOf(of, d)
    BY <1>2, <1>3, <1>9
  <2>2. QED
    BY <2>1 DEF Beats, Own
<1>10. CASE TotalOf(of, c1) = TotalOf(of, d1) /\ NamesBefore(c1, d1)
  <2>0. TotalOf(of, c) + of[n].score = TotalOf(of, d) + of[n].score
    BY <1>2, <1>10
  <2>1. TotalOf(of, c) = TotalOf(of, d)
    BY <1>3, <2>0, Cancelled
  <2>2. QED
    BY <1>6, <1>10, <2>1 DEF Beats, Own
<1>11. QED
  BY <1>8, <1>9, <1>10

\* A turn has finitely many outcomes.
LEMMA TurnIsFinite ==
  ASSUME NEW table, NEW p, NEW of, NEW usable \in SUBSET Edges, NEW must,
         DOMAIN table \in SUBSET SUBSET Place
  PROVE  IsFiniteSet(Turn(table, p, of, usable, must))
<1> DEFINE kept == {table[mask] : mask \in DOMAIN table}
           from(mask) == {Grown(of, table[mask], e) : e \in OpenEdges(p, usable, mask)}
           more == {from(mask) : mask \in DOMAIN table}
<1>1. IsFiniteSet(DOMAIN table)
  <2>1. IsFiniteSet(SUBSET Place)
    BY Numbers, FS_SUBSET
  <2>2. QED
    BY <2>1, FS_Subset
<1>2. IsFiniteSet(kept)
  BY <1>1, FiniteImage
<1>3. ASSUME NEW mask \in DOMAIN table PROVE IsFiniteSet(from(mask))
  <2> DEFINE f == [e \in OpenEdges(p, usable, mask) |-> Grown(of, table[mask], e)]
  <2>1. IsFiniteSet(OpenEdges(p, usable, mask))
    BY Numbers, FS_Subset DEF OpenEdges
  <2>2. from(mask) = {f[e] : e \in OpenEdges(p, usable, mask)}
    OBVIOUS
  <2> HIDE DEF f, from
  <2>3. QED
    BY <2>1, <2>2, FiniteImage
<1> HIDE DEF from
<1>4. IsFiniteSet(more)
  <2> DEFINE f == [mask \in DOMAIN table |-> from(mask)]
  <2>1. more = {f[mask] : mask \in DOMAIN table}
    OBVIOUS
  <2> HIDE DEF f, more
  <2>2. QED
    BY <1>1, <2>1, FiniteImage
<1>5. \A m \in more : IsFiniteSet(m)
  BY <1>3
<1> HIDE DEF more, kept
<1>6. IsFiniteSet(UNION more)
  BY <1>4, <1>5, FS_UNION
<1>7. IsFiniteSet(kept \cup UNION more) /\ IsFiniteSet({} \cup UNION more)
  BY <1>2, <1>6, FS_Union, FS_EmptySet
<1>8. Turn(table, p, of, usable, must) = (IF p \in must THEN {} ELSE kept) \cup UNION more
  BY DEF Turn, kept, more, from
<1>9. QED
  BY <1>7, <1>8

\* What a turn adds is a legitimate choice with its total.
LEMMA TurnIsLegit ==
  ASSUME NEW table, NEW T \in SUBSET Runner, NEW p \in Runner \ T, NEW of \in [Names -> Candidate],
         NEW usable \in SUBSET Edges, NEW must, Tabled(table, T, of, usable, must),
         NEW a \in Turn(table, p, of, usable, must)
  PROVE  /\ a.choice \in Choice /\ Legit(a.choice, T \cup {p}, usable, must)
         /\ a = Own(of, a.choice)
<1>1. CASE p \notin must /\ \E mask \in DOMAIN table : a = table[mask]
  <2>1. PICK mask \in DOMAIN table : a = table[mask]
    BY <1>1
  <2>2. a.choice \in Choice /\ Legit(a.choice, T, usable, must) /\ a = Own(of, a.choice)
    BY <2>1 DEF Tabled
  <2>3. Legit(a.choice, T \cup {p}, usable, must)
    BY <1>1, <2>2 DEF Legit
  <2>4. QED
    BY <2>2, <2>3
<1>2. CASE \E mask \in DOMAIN table : \E e \in OpenEdges(p, usable, mask) : a = Grown(of, table[mask], e)
  <2>1. PICK mask \in DOMAIN table : \E e \in OpenEdges(p, usable, mask) : a = Grown(of, table[mask], e)
    BY <1>2
  <2>2. PICK e \in OpenEdges(p, usable, mask) : a = Grown(of, table[mask], e)
    BY <2>1
  <2> DEFINE c == table[mask].choice
             i == e[1]
             n == e[2]
             d == [c EXCEPT ![i] = n]
  <2>3. c \in Choice /\ Legit(c, T, usable, must) /\ table[mask] = Own(of, c) /\ Filled(table[mask]) = mask
    BY DEF Tabled
  <2>4. e = <<i, n>> /\ e \in usable /\ i \in Place /\ n \in Names /\ Player[n] = p /\ i \notin mask
    BY DEF OpenEdges, Edges
  <2>5. c[i] = Nobody /\ table[mask].score = TotalOf(of, c)
    BY <2>3, <2>4, OwnFacts
  <2> HIDE DEF c, i, n
  <2>6. d \in Choice /\ d[i] = n /\ \A j \in Place : j # i => d[j] = c[j]
    BY <2>3, <2>4 DEF Choice
  <2>7. a = Own(of, d)
    <3>1. TotalOf(of, d) = TotalOf(of, c) + of[n].score
      BY <2>3, <2>4, <2>5, TotalFacts
    <3>2. a = [score |-> TotalOf(of, c) + of[n].score, choice |-> d]
      BY <2>2, <2>5 DEF Grown, c, i, n
    <3>3. QED
      BY <3>1, <3>2 DEF Own
  <2>8. n # Nobody
    BY <2>4, AssignmentAssumption
  <2> HIDE DEF d
  <2>9. Legit(d, T \cup {p}, usable, must)
    <3>1. \A j \in Place : d[j] # Nobody => <<j, d[j]>> \in usable /\ Player[d[j]] \in T \cup {p}
      BY <2>3, <2>4, <2>6 DEF Legit
    <3>2. \A j \in Place : j # i /\ d[j] # Nobody => Player[d[j]] \in T
      BY <2>3, <2>6 DEF Legit
    <3>3. \A j, k \in Place : j # k /\ d[j] # Nobody /\ d[k] # Nobody => Player[d[j]] # Player[d[k]]
      <4>1. SUFFICES ASSUME NEW j \in Place, NEW k \in Place, j # k, d[j] # Nobody, d[k] # Nobody
                     PROVE  Player[d[j]] # Player[d[k]]
        OBVIOUS
      <4>2. CASE j = i \/ k = i
        BY <2>4, <2>6, <3>2, <4>1, <4>2
      <4>3. CASE j # i /\ k # i
        BY <2>3, <2>6, <4>1, <4>3 DEF Legit
      <4>4. QED
        BY <4>2, <4>3
    <3>4. ASSUME NEW q \in must, q \in T \cup {p}
          PROVE  \E j \in Place : d[j] # Nobody /\ Player[d[j]] = q
      <4>1. CASE q = p
        BY <2>4, <2>6, <2>8, <4>1
      <4>2. CASE q \in T
        <5>1. PICK j \in Place : c[j] # Nobody /\ Player[c[j]] = q
          BY <2>3, <4>2 DEF Legit
        <5>2. j # i
          BY <2>5, <5>1
        <5>3. QED
          BY <2>6, <5>1, <5>2
      <4>3. QED
        BY <3>4, <4>1, <4>2
    <3>5. QED
      BY <3>1, <3>3, <3>4 DEF Legit
  <2>10. QED
    BY <2>6, <2>7, <2>9, OwnFacts
<1>3. QED
  BY <1>1, <1>2 DEF Turn

\* Every legitimate choice is matched, slot by slot filled, by one that a turn offers and that
\* it does not beat.
LEMMA TurnIsEnough ==
  ASSUME NEW table, NEW T \in SUBSET Runner, NEW p \in Runner \ T, NEW of \in [Names -> Candidate],
         NEW usable \in SUBSET Edges, NEW must, Tabled(table, T, of, usable, must),
         NEW c \in Choice, Legit(c, T \cup {p}, usable, must)
  PROVE  \E a \in Turn(table, p, of, usable, must) :
           Filled(a) = Filled(Own(of, c)) /\ ~Beats(Own(of, c), a)
<1> DEFINE options == Turn(table, p, of, usable, must)
<1>1. CASE \A i \in Place : c[i] # Nobody => Player[c[i]] # p
  <2>1. Legit(c, T, usable, must)
    BY <1>1 DEF Legit
  <2>2. p \notin must
    BY <1>1 DEF Legit
  <2> DEFINE mask == Filled(Own(of, c))
  <2>3. mask \in DOMAIN table /\ ~Beats(Own(of, c), table[mask]) /\ Filled(table[mask]) = mask
    BY <2>1 DEF Tabled
  <2>4. table[mask] \in options
    BY <2>2, <2>3 DEF Turn
  <2>5. QED
    BY <2>3, <2>4
<1>2. CASE \E i \in Place : c[i] # Nobody /\ Player[c[i]] = p
  <2>1. PICK i \in Place : c[i] # Nobody /\ Player[c[i]] = p
    BY <1>2
  <2> DEFINE c0 == [c EXCEPT ![i] = Nobody]
             n == c[i]
             mask == Filled(Own(of, c0))
             d == table[mask].choice
             a == Grown(of, table[mask], <<i, n>>)
  <2>2. n \in Names /\ Player[n] = p /\ <<i, n>> \in usable /\ n # Nobody
    BY <2>1 DEF Legit, Choice
  <2>3. c0 \in Choice /\ c0[i] = Nobody /\ c = [c0 EXCEPT ![i] = n] /\ \A j \in Place : j # i => c0[j] = c[j]
    BY DEF Choice
  <2>4. \A j \in Place : j # i /\ c[j] # Nobody => Player[c[j]] # p
    BY <2>1 DEF Legit
  <2> HIDE DEF c0, n
  <2>5. Legit(c0, T, usable, must)
    <3>1. \A j \in Place : c0[j] # Nobody => j # i /\ c0[j] = c[j] /\ Player[c[j]] # p
      BY <2>3, <2>4
    <3>2. \A j \in Place : c0[j] # Nobody => <<j, c0[j]>> \in usable /\ Player[c0[j]] \in T
      BY <3>1 DEF Legit
    <3>3. \A j, k \in Place : j # k /\ c0[j] # Nobody /\ c0[k] # Nobody => Player[c0[j]] # Player[c0[k]]
      BY <3>1 DEF Legit
    <3>4. ASSUME NEW q \in must, q \in T PROVE \E j \in Place : c0[j] # Nobody /\ Player[c0[j]] = q
      <4>1. PICK j \in Place : c[j] # Nobody /\ Player[c[j]] = q
        BY <3>4 DEF Legit
      <4>2. j # i
        BY <2>1, <3>4, <4>1
      <4>3. QED
        BY <2>3, <4>1, <4>2
    <3>5. QED
      BY <3>2, <3>3, <3>4 DEF Legit
  <2>6. mask \in DOMAIN table /\ ~Beats(Own(of, c0), table[mask])
    BY <2>3, <2>5 DEF Tabled
  <2>7. d \in Choice /\ table[mask] = Own(of, d) /\ Filled(table[mask]) = mask
    BY <2>6 DEF Tabled
  <2>8. mask = {j \in Place : c0[j] # Nobody} /\ i \notin mask
    BY <2>3, OwnFacts
  <2> HIDE DEF mask, d
  <2>9. d[i] = Nobody /\ mask = {j \in Place : d[j] # Nobody}
    <3>1. mask = {j \in Place : d[j] # Nobody}
      BY <2>7, OwnFacts
    <3>2. QED
      BY <2>8, <3>1
  <2>10. a \in options
    <3>1. <<i, n>> \in OpenEdges(p, usable, mask)
      BY <2>2, <2>8 DEF OpenEdges
    <3>2. QED
      BY <2>6, <3>1 DEF Turn
  <2>11. a = Own(of, [d EXCEPT ![i] = n])
    <3>1. TotalOf(of, [d EXCEPT ![i] = n]) = TotalOf(of, d) + of[n].score
      BY <2>2, <2>7, <2>9, TotalFacts
    <3>2. table[mask].score = TotalOf(of, d) /\ table[mask].choice = d
      BY <2>7, OwnFacts
    <3>3. a = [score |-> TotalOf(of, d) + of[n].score, choice |-> [d EXCEPT ![i] = n]]
      BY <3>2 DEF Grown
    <3>4. QED
      BY <3>1, <3>3 DEF Own
  <2> HIDE DEF a
  <2>12. Filled(a) = Filled(Own(of, c))
    <3>1. [d EXCEPT ![i] = n] \in Choice
      BY <2>2, <2>7 DEF Choice
    <3>2. Filled(a) = {j \in Place : [d EXCEPT ![i] = n][j] # Nobody}
      BY <2>11, <3>1, OwnFacts
    <3>3. Filled(Own(of, c)) = {j \in Place : [c0 EXCEPT ![i] = n][j] # Nobody}
      BY <2>3, OwnFacts
    <3>4. \A j \in Place : [d EXCEPT ![i] = n][j] # Nobody <=> [c0 EXCEPT ![i] = n][j] # Nobody
      <4>1. \A j \in Place : d[j] # Nobody <=> c0[j] # Nobody
        BY <2>8, <2>9
      <4>2. \A j \in Place : /\ [d EXCEPT ![i] = n][j] = IF j = i THEN n ELSE d[j]
                             /\ [c0 EXCEPT ![i] = n][j] = IF j = i THEN n ELSE c0[j]
        BY <2>3, <2>7 DEF Choice
      <4>3. QED
        BY <4>1, <4>2
    <3>5. QED
      BY <3>2, <3>3, <3>4
  <2>13. ~Beats(Own(of, c), a)
    <3>1. SUFFICES ASSUME Beats(Own(of, c), a) PROVE FALSE
      OBVIOUS
    <3>2. Beats(Own(of, [c0 EXCEPT ![i] = n]), Own(of, [d EXCEPT ![i] = n]))
      BY <2>3, <2>11, <3>1
    <3>3. Beats(Own(of, c0), Own(of, d))
      BY <2>2, <2>3, <2>7, <2>9, <3>2, SameOrder
    <3>4. QED
      BY <2>6, <2>7, <3>3
  <2>14. QED
    BY <2>10, <2>12, <2>13
<1>3. QED
  BY <1>1, <1>2

\* So a turn leaves a table for one player more.
LEMMA TurnKeeps ==
  ASSUME NEW table, NEW T \in SUBSET Runner, NEW p \in Runner \ T, NEW of \in [Names -> Candidate],
         NEW usable \in SUBSET Edges, NEW must, Tabled(table, T, of, usable, must)
  PROVE  Tabled(Taken(Turn(table, p, of, usable, must)), T \cup {p}, of, usable, must)
<1> DEFINE options == Turn(table, p, of, usable, must)
           same(mask) == {a \in options : Filled(a) = mask}
<1>1. ASSUME NEW a \in options
      PROVE  /\ a.choice \in Choice /\ Legit(a.choice, T \cup {p}, usable, must)
             /\ a = Own(of, a.choice)
  <2>1. a \in Turn(table, p, of, usable, must)
    OBVIOUS
  <2> HIDE DEF options
  <2>2. QED
    BY <2>1, TurnIsLegit
<1>2. IsFiniteSet(options)
  BY TurnIsFinite DEF Tabled
<1>3. \A c \in Choice : Legit(c, T \cup {p}, usable, must) =>
        \E a \in options : Filled(a) = Filled(Own(of, c)) /\ ~Beats(Own(of, c), a)
  BY TurnIsEnough
<1> HIDE DEF options
<1>4. options \in SUBSET Assignment /\ \A a \in options : Filled(a) \in SUBSET Place
  <2>1. \A a \in options : a \in Assignment
    BY <1>1, OwnFacts
  <2>2. QED
    BY <2>1 DEF Filled
<1>5. ASSUME NEW a \in options
      PROVE  LET b == Taken(options)[Filled(a)] IN
             Filled(a) \in DOMAIN Taken(options) /\ b \in options /\ Filled(b) = Filled(a) /\ ~Beats(a, b)
  <2>1. a \in same(Filled(a)) /\ same(Filled(a)) \in SUBSET Assignment /\ IsFiniteSet(same(Filled(a)))
    BY <1>2, <1>4, FS_Subset
  <2>2. /\ BestOf(same(Filled(a))) \in same(Filled(a))
        /\ \A b \in same(Filled(a)) : ~Beats(b, BestOf(same(Filled(a))))
    <3> HIDE DEF same
    <3>1. same(Filled(a)) # {}
      BY <2>1
    <3>2. QED
      BY <2>1, <3>1, BestFacts
  <2>3. Taken(options)[Filled(a)] = BestOf(same(Filled(a))) /\ Filled(a) \in DOMAIN Taken(options)
    BY DEF Taken
  <2>4. QED
    BY <2>1, <2>2, <2>3
<1>6. DOMAIN Taken(options) = {Filled(a) : a \in options}
  BY DEF Taken
<1>7. ASSUME NEW mask \in DOMAIN Taken(options)
      PROVE  Taken(options)[mask] \in options /\ Filled(Taken(options)[mask]) = mask
  BY <1>5, <1>6
<1>8. ASSUME NEW c \in Choice, Legit(c, T \cup {p}, usable, must)
      PROVE  /\ Filled(Own(of, c)) \in DOMAIN Taken(options)
             /\ ~Beats(Own(of, c), Taken(options)[Filled(Own(of, c))])
  <2>1. PICK a \in options : Filled(a) = Filled(Own(of, c)) /\ ~Beats(Own(of, c), a)
    BY <1>3, <1>8
  <2>2. /\ Filled(a) \in DOMAIN Taken(options) /\ Taken(options)[Filled(a)] \in options
        /\ ~Beats(a, Taken(options)[Filled(a)])
    BY <1>5
  <2>3. Own(of, c) \in Assignment /\ a \in Assignment /\ Taken(options)[Filled(a)] \in Assignment
    BY <1>4, <2>2, OwnFacts
  <2>4. QED
    BY <2>1, <2>2, <2>3, Unbeaten
<1>9. Tabled(Taken(options), T \cup {p}, of, usable, must)
  <2>1. DOMAIN Taken(options) \in SUBSET SUBSET Place
    BY <1>4, <1>6
  <2>2. QED
    BY <1>1, <1>7, <1>8, <2>1 DEF Tabled
<1>10. QED
  BY <1>9 DEF options

-----------------------------------------------------------------------------
(* The solver *)

\* The edges that are left to the players.
Usable ==
  {e \in Edges : /\ Admitted(e[1], e[2])
                 /\ Player[e[2]] \in RequiredPlayers => e \in problem.required}

\* The table is right for the players who had their turn.
AssignmentInv ==
  /\ problem \in Problem /\ Accepted(problem) /\ waiting \in SUBSET Runner
  /\ Tabled(best, Runner \ waiting, problem.of, Usable, RequiredPlayers)

\* A turn and a total are what the lemmas say of them.
LEMMA TurnOfOptions ==
  ASSUME NEW p
  PROVE  Options(p) = Turn(best, p, problem.of, Usable, RequiredPlayers)
<1>1. EdgesOf(p) = {e \in Usable : Player[e[2]] = p}
  BY DEF EdgesOf, Usable
<1>2. \A mask : {e \in EdgesOf(p) : e[1] \notin mask} = OpenEdges(p, Usable, mask)
  BY <1>1 DEF OpenEdges
<1> HIDE DEF Usable
<1>3. \A mask, e : Extended(best[mask], e[1], e[2]) = Grown(problem.of, best[mask], e)
  BY DEF Extended, Grown
<1>4. \A mask \in DOMAIN best :
        {Extended(best[mask], e[1], e[2]) : e \in {e \in EdgesOf(p) : e[1] \notin mask}}
          = {Grown(problem.of, best[mask], e) : e \in OpenEdges(p, Usable, mask)}
  BY <1>2, <1>3
<1>5. QED
  BY <1>4 DEF Options, Turn

\* The total of a choice in the problem is the total the proofs use.
LEMMA TotalIsTotalOf ==
  ASSUME NEW c
  PROVE  Total(c) = TotalOf(problem.of, c)
BY Zenon DEF Total, TotalOf, Worth

\* The table of the start has the empty assignment, and nobody has played.
LEMMA AssignmentStart == AssignmentInit => AssignmentInv
<1>1. SUFFICES ASSUME AssignmentInit PROVE AssignmentInv
  OBVIOUS
<1>2. problem \in Problem /\ Accepted(problem) /\ waiting \in SUBSET Runner /\ Runner \ waiting = {}
  BY <1>1 DEF AssignmentInit, Problem
<1> DEFINE c == [i \in Place |-> Nobody]
           of == problem.of
<1>3. c \in Choice /\ of \in [Names -> Candidate] /\ \A i \in Place : c[i] = Nobody
  BY <1>2 DEF Choice, Problem
<1>4. ASSUME NEW d \in Choice, NEW usable, NEW must, Legit(d, {}, usable, must) PROVE d = c
  <2>1. \A i \in Place : d[i] = Nobody
    BY <1>4 DEF Legit
  <2>2. QED
    BY <1>4, <2>1 DEF Choice
<1>5. best = [mask \in {{}} |-> [score |-> 0, choice |-> c]]
  BY <1>1 DEF AssignmentInit
<1> HIDE DEF c, of
<1>6. Own(of, c) = [score |-> 0, choice |-> c] /\ Filled(Own(of, c)) = {}
  BY <1>3, TotalFacts, OwnFacts DEF Own
<1>7. best[{}] = Own(of, c) /\ DOMAIN best = {{}}
  BY <1>5, <1>6
<1>8. \A usable, must : Legit(c, {}, usable, must)
  BY <1>3 DEF Legit
<1>9. ~Beats(Own(of, c), Own(of, c))
  BY <1>3, OwnFacts, BeatsOrder
<1>10. ASSUME NEW usable, NEW must PROVE Tabled(best, {}, of, usable, must)
  <2>1. ASSUME NEW mask \in DOMAIN best
        PROVE  /\ best[mask].choice \in Choice /\ Legit(best[mask].choice, {}, usable, must)
               /\ best[mask] = Own(of, best[mask].choice) /\ Filled(best[mask]) = mask
    <3>1. mask = {} /\ best[mask] = Own(of, c)
      BY <1>7
    <3>2. best[mask].choice = c
      BY <1>3, <3>1, OwnFacts
    <3>3. QED
      BY <1>3, <1>6, <1>8, <3>1, <3>2
  <2>2. ASSUME NEW d \in Choice, Legit(d, {}, usable, must)
        PROVE  Filled(Own(of, d)) \in DOMAIN best /\ ~Beats(Own(of, d), best[Filled(Own(of, d))])
    <3>1. d = c
      BY <1>4, <2>2
    <3>2. QED
      BY <1>6, <1>7, <1>9, <3>1
  <2>3. DOMAIN best \in SUBSET SUBSET Place
    BY <1>7
  <2>4. QED
    BY <2>1, <2>2, <2>3 DEF Tabled
<1>11. QED
  BY <1>2, <1>10 DEF AssignmentInv, of

\* Every step keeps it.
LEMMA AssignmentStep == AssignmentInv /\ [AssignmentNext]_AssignmentVars => AssignmentInv'
<1>1. SUFFICES ASSUME AssignmentInv, [AssignmentNext]_AssignmentVars PROVE AssignmentInv'
  OBVIOUS
<1>2. CASE UNCHANGED AssignmentVars
  <2>1. problem' = problem /\ best' = best /\ waiting' = waiting
    BY <1>2 DEF AssignmentVars
  <2>2. Usable' = Usable /\ RequiredPlayers' = RequiredPlayers
    BY <2>1 DEF Usable, Admitted, RequiredPlayers
  <2>3. QED
    BY <1>1, <2>1, <2>2 DEF AssignmentInv
<1>3. CASE AssignmentNext
  <2>1. PICK p \in Runner : TakePlayer(p)
    BY <1>3 DEF AssignmentNext
  <2>2. problem' = problem /\ waiting' = waiting \ {p} /\ p \in waiting /\ best' = Taken(Options(p))
    BY <2>1 DEF TakePlayer, Taken
  <2>3. Usable' = Usable /\ RequiredPlayers' = RequiredPlayers
    BY <2>2 DEF Usable, Admitted, RequiredPlayers
  <2> DEFINE T == Runner \ waiting
             must == RequiredPlayers
             of == problem.of
  <2>4. T \in SUBSET Runner /\ p \in Runner \ T /\ T \cup {p} = Runner \ waiting'
    BY <1>1, <2>2 DEF AssignmentInv
  <2>5. Usable \in SUBSET Edges /\ of \in [Names -> Candidate]
    BY <1>1 DEF Usable, AssignmentInv, Problem
  <2>6. Tabled(best, T, of, Usable, must)
    BY <1>1 DEF AssignmentInv
  <2> HIDE DEF T, must, of
  <2>7. Tabled(Taken(Turn(best, p, of, Usable, must)), T \cup {p}, of, Usable, must)
    BY <2>4, <2>5, <2>6, TurnKeeps
  <2>8. best' = Taken(Turn(best, p, of, Usable, must))
    BY <2>2, TurnOfOptions DEF of, must
  <2>9. Tabled(best', Runner \ waiting', of, Usable, must)
    BY <2>4, <2>7, <2>8
  <2>10. Tabled(best, Runner \ waiting, problem.of, Usable, RequiredPlayers)'
    BY <2>2, <2>3, <2>9 DEF of, must
  <2>11. QED
    BY <1>1, <2>2, <2>10 DEF AssignmentInv
<1>4. QED
  BY <1>1, <1>2, <1>3

\* A choice is feasible if and only if it is legitimate among all players and fills the slots
\* that have to be.
LEMMA FeasibleFacts ==
  ASSUME problem \in Problem, NEW c
  PROVE  c \in Feasible <=>
           /\ c \in Choice /\ Legit(c, Runner, Usable, RequiredPlayers)
           /\ RequiredPlaces \subseteq {i \in Place : c[i] # Nobody}
           /\ problem.full => {i \in Place : c[i] # Nobody} = Place
<1>0. /\ \A e \in problem.required :
           /\ e \in Edges /\ e = <<e[1], e[2]>> /\ e[1] \in Place /\ e[2] \in Names /\ e[2] # Nobody
      /\ problem.required \in SUBSET Edges
  <2>1. problem.required \in SUBSET Edges
    BY DEF Problem
  <2>2. Nobody \notin Names
    BY AssignmentAssumption
  <2>3. \A e \in Edges : e = <<e[1], e[2]>> /\ e[1] \in Place /\ e[2] \in Names
    BY DEF Edges
  <2>4. QED
    BY <2>1, <2>2, <2>3
<1>1. ASSUME c \in Feasible
      PROVE  /\ c \in Choice /\ Legit(c, Runner, Usable, RequiredPlayers)
             /\ RequiredPlaces \subseteq {i \in Place : c[i] # Nobody}
             /\ problem.full => {i \in Place : c[i] # Nobody} = Place
  <2>1. /\ c \in Choice
        /\ \A i \in Place : c[i] # Nobody => Admitted(i, c[i])
        /\ \A i, j \in Place : i # j /\ c[i] # Nobody /\ c[j] # Nobody => Player[c[i]] # Player[c[j]]
        /\ \A e \in problem.required : c[e[1]] = e[2]
        /\ problem.full => \A i \in Place : c[i] # Nobody
    BY <1>1 DEF Feasible
  <2>2. ASSUME NEW i \in Place, c[i] # Nobody
        PROVE  <<i, c[i]>> \in Usable /\ Player[c[i]] \in Runner
    <3>1. c[i] \in Names /\ <<i, c[i]>> \in Edges
      BY <2>1, <2>2 DEF Choice, Edges
    <3>2. ASSUME Player[c[i]] \in RequiredPlayers PROVE <<i, c[i]>> \in problem.required
      <4>1. PICK e \in problem.required : Player[c[i]] = Player[e[2]]
        BY <3>2 DEF RequiredPlayers
      <4>2. c[e[1]] = e[2] /\ e[1] \in Place /\ e[2] # Nobody
        BY <1>0, <2>1
      <4>3. i = e[1]
        BY <2>1, <2>2, <4>1, <4>2
      <4>4. QED
        BY <1>0, <4>2, <4>3
    <3>3. <<i, c[i]>> \in Usable
      BY <2>1, <2>2, <3>1, <3>2 DEF Usable
    <3>4. QED
      BY <3>1, <3>3 DEF Runner
  <2>3. \A p \in RequiredPlayers : \E i \in Place : c[i] # Nobody /\ Player[c[i]] = p
    BY <1>0, <2>1 DEF RequiredPlayers
  <2>4. RequiredPlaces \subseteq {i \in Place : c[i] # Nobody}
    BY <1>0, <2>1 DEF RequiredPlaces
  <2> HIDE DEF Usable, RequiredPlayers
  <2>5. Legit(c, Runner, Usable, RequiredPlayers)
    BY <2>1, <2>2, <2>3 DEF Legit
  <2>6. QED
    BY <2>1, <2>4, <2>5
<1>2. ASSUME c \in Choice, Legit(c, Runner, Usable, RequiredPlayers),
             RequiredPlaces \subseteq {i \in Place : c[i] # Nobody},
             problem.full => {i \in Place : c[i] # Nobody} = Place
      PROVE  c \in Feasible
  <2>1. \A i \in Place : c[i] # Nobody => Admitted(i, c[i])
    <3>1. \A e \in Usable : Admitted(e[1], e[2])
      BY DEF Usable
    <3>2. \A i \in Place : c[i] # Nobody => <<i, c[i]>> \in Usable
      BY <1>2 DEF Legit
    <3> HIDE DEF Usable
    <3>3. QED
      BY <3>1, <3>2
  <2>2. \A e \in problem.required : c[e[1]] = e[2]
    <3>1. SUFFICES ASSUME NEW e \in problem.required PROVE c[e[1]] = e[2]
      OBVIOUS
    <3>2. e[1] \in Place /\ c[e[1]] # Nobody
      BY <1>0, <1>2 DEF RequiredPlaces
    <3>3. Admitted(e[1], c[e[1]])
      BY <2>1, <3>2
    <3>4. QED
      BY <3>3 DEF Admitted
  <2>3. QED
    BY <1>2, <2>1, <2>2 DEF Feasible, Legit
<1>3. QED
  BY <1>1, <1>2

\* When everybody had his turn the best entry is the answer.
LEMMA TableIsBest == AssignmentInv => AssignmentIsBest
<1>1. SUFFICES ASSUME AssignmentInv, waiting = {}
      PROVE  IF Feasible = {} THEN Complete = {}
             ELSE /\ Complete # {}
                  /\ Result.choice \in Feasible /\ Result.score = Total(Result.choice)
                  /\ \A c \in Feasible : ~Beats([score |-> Total(c), choice |-> c], Result)
  BY DEF AssignmentIsBest
<1> DEFINE of == problem.of
           must == RequiredPlayers
<1>2. problem \in Problem /\ of \in [Names -> Candidate]
  BY <1>1 DEF AssignmentInv, Problem
<1>3. Tabled(best, Runner, of, Usable, must)
  <2>1. Runner \ waiting = Runner
    BY <1>1
  <2>2. QED
    BY <1>1, <2>1 DEF AssignmentInv
<1> HIDE DEF of, must
<1>4. ASSUME NEW b \in Complete
      PROVE  /\ b \in Assignment /\ b.choice \in Feasible /\ b.score = Total(b.choice)
  <2>1. PICK mask \in DOMAIN best : /\ b = best[mask] /\ RequiredPlaces \subseteq mask
                                    /\ problem.full => mask = Place
    BY DEF Complete
  <2>2. /\ b.choice \in Choice /\ Legit(b.choice, Runner, Usable, must)
        /\ b = Own(of, b.choice) /\ Filled(b) = mask
    BY <1>3, <2>1 DEF Tabled
  <2>3. mask = {i \in Place : b.choice[i] # Nobody}
    BY <2>2 DEF Filled
  <2>4. b.choice \in Feasible
    BY <1>2, <2>1, <2>2, <2>3, FeasibleFacts DEF must
  <2>5. b \in Assignment /\ b.score = TotalOf(of, b.choice)
    BY <1>2, <2>2, OwnFacts
  <2>6. QED
    BY <2>4, <2>5, TotalIsTotalOf DEF of
<1>5. ASSUME NEW c \in Feasible
      PROVE  /\ c \in Choice
             /\ \E b \in Complete : ~Beats(Own(of, c), b)
  <2>1. /\ c \in Choice /\ Legit(c, Runner, Usable, must)
        /\ RequiredPlaces \subseteq {i \in Place : c[i] # Nobody}
        /\ problem.full => {i \in Place : c[i] # Nobody} = Place
    BY <1>2, FeasibleFacts DEF must
  <2> DEFINE mask == Filled(Own(of, c))
  <2>2. mask \in DOMAIN best /\ ~Beats(Own(of, c), best[mask])
    BY <1>3, <2>1 DEF Tabled
  <2>3. mask = {i \in Place : c[i] # Nobody}
    BY <1>2, <2>1, OwnFacts
  <2> HIDE DEF mask
  <2>4. best[mask] \in Complete
    BY <2>1, <2>2, <2>3 DEF Complete
  <2>5. QED
    BY <2>1, <2>2, <2>4
<1>6. CASE Feasible = {}
  BY <1>4, <1>6
<1>7. CASE Feasible # {}
  <2>1. Complete # {}
    BY <1>5, <1>7
  <2>2. IsFiniteSet(Complete)
    <3>1. IsFiniteSet(DOMAIN best)
      <4>1. IsFiniteSet(SUBSET Place)
        BY Numbers, FS_SUBSET
      <4>2. QED
        BY <1>3, <4>1, FS_Subset DEF Tabled
    <3>2. IsFiniteSet({best[mask] : mask \in DOMAIN best})
      BY <3>1, FiniteImage
    <3>3. Complete \in SUBSET {best[mask] : mask \in DOMAIN best}
      BY DEF Complete
    <3>4. QED
      BY <3>2, <3>3, FS_Subset
  <2>3. Complete \in SUBSET Assignment
    BY <1>4
  <2>4. Result \in Complete /\ \A b \in Complete : ~Beats(b, Result)
    BY <2>1, <2>2, <2>3, BestFacts DEF Result
  <2>5. ASSUME NEW c \in Feasible PROVE ~Beats([score |-> Total(c), choice |-> c], Result)
    <3>1. PICK b \in Complete : ~Beats(Own(of, c), b)
      BY <1>5
    <3>2. Own(of, c) \in Assignment
      BY <1>2, <1>5, OwnFacts
    <3>3. ~Beats(Own(of, c), Result)
      BY <2>3, <2>4, <3>1, <3>2, Unbeaten
    <3>4. Own(of, c) = [score |-> Total(c), choice |-> c]
      BY TotalIsTotalOf DEF Own, of
    <3>5. QED
      BY <3>3, <3>4
  <2>6. QED
    BY <1>4, <1>7, <2>1, <2>4, <2>5
<1>8. QED
  BY <1>6, <1>7

\* The table is well formed: an entry fills the slots it is kept for.
THEOREM AssignmentTyped == AssignmentSpec => []AssignmentTypeOK
<1>1. AssignmentInv => AssignmentTypeOK
  <2>1. SUFFICES ASSUME AssignmentInv PROVE AssignmentTypeOK
    OBVIOUS
  <2>2. problem \in Problem /\ waiting \in SUBSET Runner /\ problem.of \in [Names -> Candidate]
    BY <2>1 DEF AssignmentInv, Problem
  <2>3. DOMAIN best \in SUBSET SUBSET Place
    BY <2>1 DEF AssignmentInv, Tabled
  <2>4. ASSUME NEW mask \in DOMAIN best PROVE best[mask] \in Assignment /\ mask = Filled(best[mask])
    BY <2>1, <2>2, OwnFacts DEF AssignmentInv, Tabled
  <2>5. QED
    BY <2>2, <2>3, <2>4 DEF AssignmentTypeOK
<1>2. QED
  BY <1>1, AssignmentStart, AssignmentStep, PTL DEF AssignmentSpec

\* What the solver returns is feasible, nothing feasible has a greater total, and of the equal
\* ones it is the first by names: whatever the slots, the candidates, their scores and what is
\* required and forbidden.
THEOREM AssignmentBest == AssignmentSpec => []AssignmentIsBest
BY TableIsBest, AssignmentStart, AssignmentStep, PTL DEF AssignmentSpec

-----------------------------------------------------------------------------
(* Lineups and what a move makes of them *)

\* The slots are the first numbers, and everything is finite.
LEMMA SlotFacts ==
  /\ Slot \in SUBSET (Nat \ {0}) /\ IsFiniteSet(Slot) /\ IsFiniteSet(Athlete) /\ Empty \notin Athlete
  /\ Bench \notin Slot
<1>1. SlotNames \in Seq(STRING) /\ IsFiniteSet(Athlete) /\ Empty \notin Athlete
  BY LineupAssumption
<1>2. Len(SlotNames) \in Nat /\ Slot = 1..Len(SlotNames)
  BY <1>1 DEF Slot
<1>3. IsFiniteSet(Slot)
  BY <1>2, FS_Interval
<1>4. QED
  BY <1>1, <1>2, <1>3 DEF Bench

\* A lineup as the search meets them: nobody twice, the locked slots as they are, and in the
\* others players who may be moved.
Sound(l) ==
  /\ l \in Lineup /\ WithoutRepeats(l)
  /\ \A i \in request.locked : l[i] = request.observed[i]
  /\ \A i \in Open : l[i] # Empty => l[i] \in Movable

\* A player is in one slot.
LEMMA SlotOfFacts ==
  ASSUME NEW l \in Lineup, WithoutRepeats(l), NEW i \in Slot, l[i] # Empty
  PROVE  SlotOf(l, l[i]) = i
<1>1. \A j \in Slot : l[j] = l[i] => j = i
  BY DEF WithoutRepeats
<1>2. QED
  BY <1>1 DEF SlotOf

\* The ways to change a sound lineup, one by one: a player of the bench takes a slot, one of two
\* slots trade, or a slot is emptied.
Placed(a, b, p, i) ==
  i \in Open /\ p \in Movable /\ p \notin Starting(a, Slot) /\ b = [a EXCEPT ![i] = p]
Traded(a, b, i, j) ==
  i \in Open /\ j \in Open /\ i # j /\ a[i] # Empty /\ b = [a EXCEPT ![i] = a[j], ![j] = a[i]]
Emptied(a, b, i) == i \in Open /\ a[i] # Empty /\ b = [a EXCEPT ![i] = Empty]

\* A move is one of the three.
LEMMA NeighborKinds ==
  ASSUME NEW a, Sound(a), NEW b
  PROVE  b \in Neighbors(a) <=>
           \/ \E p, i : Placed(a, b, p, i) /\ i \in Eligible(p) /\ (a[i] # Empty => a[i] \notin Protected)
           \/ \E i, j : Traded(a, b, i, j) /\ j \in Eligible(a[i]) /\ (a[j] # Empty => i \in Eligible(a[j]))
           \/ \E i : Emptied(a, b, i) /\ BenchCount(a) < BenchCapacity /\ a[i] \notin Protected
<1> DEFINE From(p, i) == b = Exchanged(a, p, i) /\ p \in Movable /\ i \in Open /\ MayExchange(a, p, i)
           ByBench(p, i) == Placed(a, b, p, i) /\ i \in Eligible(p) /\ (a[i] # Empty => a[i] \notin Protected)
           ByTrade(i, j) ==
             Traded(a, b, i, j) /\ j \in Eligible(a[i]) /\ (a[j] # Empty => i \in Eligible(a[j]))
           ByEmptying(i) == Emptied(a, b, i) /\ BenchCount(a) < BenchCapacity /\ a[i] \notin Protected
<1>0. /\ a \in Lineup /\ WithoutRepeats(a) /\ \A i \in Slot : a[i] \in Athlete \cup {Empty}
      /\ \A i \in request.locked : a[i] = request.observed[i]
      /\ \A i \in Open : i \in Slot /\ (a[i] # Empty => a[i] \in Movable)
      /\ Movable \subseteq Athlete /\ Empty \notin Athlete
      /\ \A i \in Slot : i \notin Open => i \in request.locked
  BY SlotFacts DEF Sound, Lineup, Open, Movable
<1>1. b \in Neighbors(a) <=>
        \/ \E p, i : From(p, i)
        \/ \E i \in Open : b = [a EXCEPT ![i] = Empty] /\ BenchCount(a) < BenchCapacity
                           /\ a[i] \notin Protected \cup {Empty}
  <2>1. b \in Neighbors(a) <=>
          \/ \E m \in Movable \X Open : MayExchange(a, m[1], m[2]) /\ b = Exchanged(a, m[1], m[2])
          \/ \E i \in Open : b = [a EXCEPT ![i] = Empty] /\ BenchCount(a) < BenchCapacity
                           /\ a[i] \notin Protected \cup {Empty}
    BY DEF Neighbors
  <2>2. (\E m \in Movable \X Open : MayExchange(a, m[1], m[2]) /\ b = Exchanged(a, m[1], m[2]))
          <=> \E p, i : From(p, i)
    <3>1. ASSUME NEW m \in Movable \X Open, MayExchange(a, m[1], m[2]), b = Exchanged(a, m[1], m[2])
          PROVE  From(m[1], m[2])
      BY <3>1
    <3>2. ASSUME NEW p, NEW i, From(p, i)
          PROVE  <<p, i>> \in Movable \X Open /\ MayExchange(a, <<p, i>>[1], <<p, i>>[2])
                 /\ b = Exchanged(a, <<p, i>>[1], <<p, i>>[2])
      BY <3>2
    <3> HIDE DEF From
    <3>3. QED
      BY <3>1, <3>2
  <2>3. QED
    BY <2>1, <2>2
<1>2. ASSUME NEW p, NEW i, From(p, i), p \notin Starting(a, Slot) PROVE ByBench(p, i)
  <2>1. \A j \in Slot : a[j] # p
    BY <1>0, <1>2 DEF Starting
  <2>2. b = [a EXCEPT ![i] = p]
    BY <1>0, <1>2, <2>1 DEF Exchanged, Lineup
  <2>3. p \notin Starting(a, Open)
    BY <1>0, <2>1 DEF Starting
  <2>4. QED
    BY <1>2, <2>2, <2>3 DEF Placed, MayExchange
<1>3. ASSUME NEW p, NEW i, From(p, i), p \in Starting(a, Slot) PROVE \E j : ByTrade(j, i)
  <2>1. PICK j \in Slot : a[j] = p /\ p # Empty
    BY <1>3 DEF Starting
  <2>2. j \in Open /\ p \in Starting(a, Open)
    <3>1. j \in Open
      <4>1. ASSUME j \notin Open PROVE FALSE
        <5>1. j \in request.locked /\ request.observed[j] = p
          BY <1>0, <2>1, <4>1
        <5>2. p \in LockedPlayers
          BY <2>1, <5>1 DEF LockedPlayers, Starting
        <5>3. QED
          BY <1>3, <5>2 DEF Movable
      <4>2. QED
        BY <4>1
    <3>2. QED
      BY <2>1, <3>1 DEF Starting
  <2>3. SlotOf(a, p) = j
    BY <1>0, <2>1, SlotOfFacts
  <2>4. j # i /\ \A k \in Slot : a[k] = p => k = j
    BY <1>0, <1>3, <2>1 DEF MayExchange, WithoutRepeats
  <2>5. b = [a EXCEPT ![j] = a[i], ![i] = a[j]]
    BY <1>0, <1>3, <2>1, <2>2, <2>4 DEF Exchanged, Lineup
  <2>6. ByTrade(j, i)
    BY <1>3, <2>1, <2>2, <2>3, <2>4, <2>5 DEF Traded, MayExchange
  <2>7. QED
    BY <2>6
<1>4. ASSUME NEW p, NEW i, ByBench(p, i) PROVE From(p, i)
  <2>1. i \in Open /\ i \in Slot /\ p \in Movable /\ \A j \in Slot : a[j] # p
    BY <1>0, <1>4 DEF Placed, Starting
  <2>2. b = Exchanged(a, p, i)
    BY <1>0, <1>4, <2>1 DEF Exchanged, Lineup, Placed
  <2>3. MayExchange(a, p, i)
    <3>1. p \notin Starting(a, Open)
      BY <1>0, <2>1 DEF Starting
    <3>2. QED
      BY <1>4, <2>1, <3>1 DEF MayExchange
  <2>4. QED
    BY <2>1, <2>2, <2>3
<1>5. ASSUME NEW j, NEW i, ByTrade(j, i) PROVE From(a[j], i)
  <2> DEFINE p == a[j]
  <2>1. i \in Open /\ j \in Open /\ i # j /\ p # Empty /\ i \in Slot /\ j \in Slot
    BY <1>0, <1>5 DEF Traded
  <2>2. p \in Movable /\ SlotOf(a, p) = j /\ \A k \in Slot : a[k] = p => k = j
    BY <1>0, <2>1, SlotOfFacts DEF WithoutRepeats
  <2>3. b = Exchanged(a, p, i)
    BY <1>0, <1>5, <2>1, <2>2 DEF Exchanged, Lineup, Traded
  <2>4. MayExchange(a, p, i)
    <3>1. p \in Starting(a, Open) /\ p # a[i] /\ i \in Eligible(p)
      BY <1>5, <2>1, <2>2 DEF Starting
    <3>2. a[i] # Empty => j \in Eligible(a[i])
      BY <1>5
    <3> HIDE DEF p
    <3>3. QED
      BY <2>2, <3>1, <3>2 DEF MayExchange
  <2>5. QED
    BY <2>1, <2>2, <2>3, <2>4
<1>6. (\E i \in Open : b = [a EXCEPT ![i] = Empty] /\ BenchCount(a) < BenchCapacity
                       /\ a[i] \notin Protected \cup {Empty})
        <=> \E i : ByEmptying(i)
  BY DEF Emptied
<1> HIDE DEF From, ByBench, ByTrade, ByEmptying
<1>7. (\E p, i : From(p, i)) <=> (\E p, i : ByBench(p, i)) \/ (\E i, j : ByTrade(i, j))
  BY <1>2, <1>3, <1>4, <1>5
<1>8. b \in Neighbors(a) <=>
        (\E p, i : ByBench(p, i)) \/ (\E i, j : ByTrade(i, j)) \/ (\E i : ByEmptying(i))
  BY <1>1, <1>6, <1>7
<1>9. QED
  BY <1>8 DEF ByBench, ByTrade, ByEmptying

\* What each way to change a lineup does to it, slot by slot.
LEMMA KindFacts ==
  ASSUME NEW a, Sound(a), NEW b
  PROVE  /\ \A p, i : Placed(a, b, p, i) =>
              /\ b \in Lineup /\ i \in Slot /\ b[i] = p /\ p # Empty /\ \A k \in Slot : a[k] # p
              /\ \A k \in Slot : k # i => b[k] = a[k]
         /\ \A i, j : Traded(a, b, i, j) =>
              /\ b \in Lineup /\ i \in Slot /\ j \in Slot /\ b[i] = a[j] /\ b[j] = a[i] /\ a[i] # a[j]
              /\ \A k \in Slot : k # i /\ k # j => b[k] = a[k]
         /\ \A i : Emptied(a, b, i) =>
              /\ b \in Lineup /\ i \in Slot /\ b[i] = Empty
              /\ \A k \in Slot : k # i => b[k] = a[k]
<1>0. /\ a \in Lineup /\ Open \subseteq Slot /\ Movable \subseteq Athlete /\ Empty \notin Athlete
      /\ WithoutRepeats(a)
  BY SlotFacts DEF Sound, Open, Movable
<1>1. ASSUME NEW p, NEW i, Placed(a, b, p, i)
      PROVE  /\ b \in Lineup /\ i \in Slot /\ b[i] = p /\ p # Empty /\ \A k \in Slot : a[k] # p
             /\ \A k \in Slot : k # i => b[k] = a[k]
  BY <1>0, <1>1 DEF Placed, Starting, Lineup
<1>2. ASSUME NEW i, NEW j, Traded(a, b, i, j)
      PROVE  /\ b \in Lineup /\ i \in Slot /\ j \in Slot /\ b[i] = a[j] /\ b[j] = a[i] /\ a[i] # a[j]
             /\ \A k \in Slot : k # i /\ k # j => b[k] = a[k]
  BY <1>0, <1>2 DEF Traded, Lineup, WithoutRepeats
<1>3. ASSUME NEW i, Emptied(a, b, i)
      PROVE  /\ b \in Lineup /\ i \in Slot /\ b[i] = Empty
             /\ \A k \in Slot : k # i => b[k] = a[k]
  BY <1>0, <1>3 DEF Emptied, Lineup
<1>4. QED
  BY <1>1, <1>2, <1>3

\* Every lineup has a number of players on the bench; only emptying a slot adds one.
LEMMA BenchFacts ==
  ASSUME NEW a, Sound(a), NEW b
  PROVE  /\ \A l \in Lineup : BenchCount(l) \in Int
         /\ \A p, i : Placed(a, b, p, i) => BenchCount(b) <= BenchCount(a)
         /\ \A i, j : Traded(a, b, i, j) => BenchCount(b) = BenchCount(a)
         /\ \A i : Emptied(a, b, i) => BenchCount(b) = BenchCount(a) + 1
<1>0. a \in Lineup /\ Open \subseteq Slot /\ IsFiniteSet(Athlete) /\ WithoutRepeats(a)
  BY SlotFacts DEF Sound, Open
<1>1. ASSUME NEW l \in Lineup
      PROVE  /\ IsFiniteSet(Starting(l, Open)) /\ Cardinality(Starting(l, Open)) \in Nat
             /\ BenchCount(l) = Cardinality(Movable) - Cardinality(Starting(l, Open))
             /\ Cardinality(Movable) \in Nat
  <2>1. Starting(l, Open) \subseteq Athlete /\ Movable \subseteq Athlete
    BY <1>0 DEF Starting, Lineup, Movable
  <2>2. IsFiniteSet(Starting(l, Open)) /\ IsFiniteSet(Movable)
    BY <1>0, <2>1, FS_Subset
  <2>3. QED
    BY <2>2, FS_CardinalityType DEF BenchCount
<1>2. \A l \in Lineup : BenchCount(l) \in Int
  BY <1>1
<1> DEFINE S == Starting(a, Open)
<1>3. ASSUME NEW p, NEW i, Placed(a, b, p, i) PROVE BenchCount(b) <= BenchCount(a)
  <2>0. b \in Lineup /\ b[i] = p /\ p # Empty /\ \A k \in Slot : a[k] # p
    BY <1>3, KindFacts
  <2>1. b \in Lineup /\ b[i] = p /\ i \in Open /\ p # Empty /\ p \notin S
    BY <1>0, <1>3, <2>0 DEF Placed, Starting
  <2>2. Starting(b, Open) = (S \ {a[i]}) \cup {p}
    <3>1. \A k \in Open : b[k] = IF k = i THEN p ELSE a[k]
      BY <1>0, <1>3, KindFacts
    <3>2. \A k \in Open : k # i /\ a[k] # Empty => a[k] # a[i]
      BY <1>0, <2>1 DEF WithoutRepeats
    <3>3. QED
      BY <2>1, <3>1, <3>2 DEF Starting
  <2>3. IsFiniteSet(S) /\ Cardinality(S) \in Nat /\ IsFiniteSet(S \ {a[i]})
    BY <1>0, <1>1, FS_Subset
  <2>4. Cardinality(S \ {a[i]}) >= Cardinality(S) - 1 /\ Cardinality(S \ {a[i]}) \in Nat
    <3>1. Cardinality(S \ {a[i]}) \in {Cardinality(S), Cardinality(S) - 1}
      BY <2>3, FS_RemoveElement
    <3>2. QED
      BY <2>3, <3>1, FS_CardinalityType
  <2>5. Cardinality(Starting(b, Open)) = Cardinality(S \ {a[i]}) + 1
    <3>1. p \notin S \ {a[i]}
      BY <2>1
    <3>2. QED
      BY <2>2, <2>3, <3>1, FS_AddElement
  <2> HIDE DEF S
  <2>6. Cardinality(Starting(b, Open)) >= Cardinality(S)
    BY <2>3, <2>4, <2>5
  <2>7. QED
    BY <1>0, <1>1, <2>1, <2>6 DEF S
<1>4. ASSUME NEW i, NEW j, Traded(a, b, i, j) PROVE BenchCount(b) = BenchCount(a)
  <2>1. /\ b \in Lineup /\ i \in Open /\ j \in Open /\ b[i] = a[j] /\ b[j] = a[i]
        /\ \A k \in Open : k # i /\ k # j => b[k] = a[k]
    <3>1. /\ b \in Lineup /\ b[i] = a[j] /\ b[j] = a[i]
          /\ \A k \in Slot : k # i /\ k # j => b[k] = a[k]
      BY <1>4, KindFacts
    <3>2. QED
      BY <1>0, <1>4, <3>1 DEF Traded
  <2>2. Starting(b, Open) = S
    BY <2>1 DEF Starting
  <2>3. QED
    BY <2>2 DEF BenchCount
<1>5. ASSUME NEW i, Emptied(a, b, i) PROVE BenchCount(b) = BenchCount(a) + 1
  <2>1. b \in Lineup /\ b[i] = Empty /\ i \in Open /\ a[i] \in S
    <3>1. b \in Lineup /\ b[i] = Empty
      BY <1>5, KindFacts
    <3>2. QED
      BY <1>0, <1>5, <3>1 DEF Emptied, Starting
  <2>2. Starting(b, Open) = S \ {a[i]}
    <3>1. \A k \in Open : b[k] = IF k = i THEN Empty ELSE a[k]
      BY <1>0, <1>5, KindFacts
    <3>2. \A k \in Open : k # i /\ a[k] # Empty => a[k] # a[i]
      BY <1>0, <2>1 DEF WithoutRepeats
    <3>3. QED
      BY <2>1, <3>1, <3>2 DEF Starting
  <2>3. Cardinality(Starting(b, Open)) = Cardinality(S) - 1
    <3>1. a[i] \in S /\ IsFiniteSet(S)
      BY <1>0, <1>1, <2>1
    <3> HIDE DEF S
    <3>2. QED
      BY <2>2, <3>1, FS_RemoveElement
  <2> HIDE DEF S
  <2>4. Cardinality(S) \in Nat /\ Cardinality(Movable) \in Nat
    BY <1>0, <1>1 DEF S
  <2>5. QED
    BY <1>0, <1>1, <2>1, <2>3, <2>4 DEF S
<1>6. QED
  BY <1>2, <1>3, <1>4, <1>5

\* The capacity of the bench is a number.
LEMMA CapacityFacts ==
  ASSUME request \in Request, NEW a, Sound(a)
  PROVE  BenchCapacity \in Int
<1>1. request.observed \in Lineup /\ request.bench \in BenchLimits
  BY DEF Request
<1>2. BenchCount(request.observed) \in Int
  BY <1>1, BenchFacts
<1>3. QED
  BY <1>1, <1>2, LineupAssumption DEF BenchCapacity

\* The moves the search knows are the legal ones: all of them, and no others.
LEMMA NeighborsAreLegal ==
  ASSUME request \in Request, NEW a, Sound(a), NEW b
  PROVE  b \in Neighbors(a) <=> b \in LegalSteps(a)
<1> DEFINE benched == Movable \ Starting(a, Slot)
           Fine == /\ b # a
                   /\ \A i \in Slot : b[i] \notin {a[i], Empty} => i \in Eligible(b[i])
                   /\ Protected \cap Starting(a, Slot) \subseteq Starting(b, Slot)
                   /\ BenchCount(b) > BenchCount(a) => BenchCount(b) <= BenchCapacity
           Single(i, p) == i \in Open /\ p \in benched \cup {Empty} /\ b = [a EXCEPT ![i] = p]
           Trade(i, j) == i \in Open /\ j \in Open /\ b = [a EXCEPT ![i] = a[j], ![j] = a[i]]
           ByBench(p, i) == Placed(a, b, p, i) /\ i \in Eligible(p) /\ (a[i] # Empty => a[i] \notin Protected)
           ByTrade(i, j) ==
             Traded(a, b, i, j) /\ j \in Eligible(a[i]) /\ (a[j] # Empty => i \in Eligible(a[j]))
           ByEmptying(i) == Emptied(a, b, i) /\ BenchCount(a) < BenchCapacity /\ a[i] \notin Protected
<1>0. /\ a \in Lineup /\ WithoutRepeats(a) /\ Open \subseteq Slot
      /\ \A i \in Slot : a[i] \in Athlete \cup {Empty}
      /\ BenchCount(a) \in Int /\ BenchCapacity \in Int
  BY SlotFacts, BenchFacts, CapacityFacts DEF Sound, Open, Lineup
<1>1. b \in LegalSteps(a) <=> Fine /\ ((\E i, p : Single(i, p)) \/ (\E i, j : Trade(i, j)))
  <2>1. b \in LegalSteps(a) <=>
          Fine /\ (\/ \E i \in Open, p \in benched \cup {Empty} : b = [a EXCEPT ![i] = p]
                   \/ \E i \in Open, j \in Open : b = [a EXCEPT ![i] = a[j], ![j] = a[i]])
    BY DEF LegalSteps
  <2>2. QED
    BY <2>1
<1>2. b \in Neighbors(a) <=>
        (\E p, i : ByBench(p, i)) \/ (\E i, j : ByTrade(i, j)) \/ (\E i : ByEmptying(i))
  BY NeighborKinds
<1>3. ASSUME NEW p, NEW i, ByBench(p, i) PROVE Fine /\ Single(i, p)
  <2>1. /\ b \in Lineup /\ i \in Slot /\ b[i] = p /\ p # Empty /\ \A k \in Slot : a[k] # p
        /\ \A k \in Slot : k # i => b[k] = a[k]
    BY <1>3, KindFacts
  <2>2. BenchCount(b) <= BenchCount(a) /\ BenchCount(b) \in Int
    BY <1>3, <2>1, BenchFacts
  <2>3. \A k \in Slot : b[k] \notin {a[k], Empty} => k \in Eligible(b[k])
    BY <1>3, <2>1
  <2>4. Protected \cap Starting(a, Slot) \subseteq Starting(b, Slot)
    <3>1. SUFFICES ASSUME NEW k \in Slot, a[k] # Empty, a[k] \in Protected
                   PROVE  a[k] \in Starting(b, Slot)
      BY DEF Starting
    <3>2. k # i
      BY <1>3, <3>1
    <3>3. QED
      BY <2>1, <3>1, <3>2 DEF Starting
  <2>5. ~(BenchCount(b) > BenchCount(a))
    BY <1>0, <2>2
  <2>6. QED
    BY <1>3, <2>1, <2>3, <2>4, <2>5 DEF Placed
<1>4. ASSUME NEW i, NEW j, ByTrade(i, j) PROVE Fine /\ Trade(i, j)
  <2>1. /\ b \in Lineup /\ i \in Slot /\ j \in Slot /\ b[i] = a[j] /\ b[j] = a[i] /\ a[i] # a[j]
        /\ \A k \in Slot : k # i /\ k # j => b[k] = a[k]
    BY <1>4, KindFacts
  <2>2. BenchCount(b) = BenchCount(a)
    BY <1>4, BenchFacts
  <2>3. \A k \in Slot : b[k] \notin {a[k], Empty} => k \in Eligible(b[k])
    BY <1>4, <2>1
  <2>4. Starting(a, Slot) = Starting(b, Slot)
    BY <2>1 DEF Starting
  <2>5. ~(BenchCount(b) > BenchCount(a))
    BY <1>0, <2>2
  <2>6. QED
    BY <1>4, <2>1, <2>3, <2>4, <2>5 DEF Traded
<1>5. ASSUME NEW i, ByEmptying(i) PROVE Fine /\ Single(i, Empty)
  <2>1. b \in Lineup /\ i \in Slot /\ b[i] = Empty /\ \A k \in Slot : k # i => b[k] = a[k]
    BY <1>5, KindFacts
  <2>2. BenchCount(b) = BenchCount(a) + 1
    BY <1>5, BenchFacts
  <2>3. BenchCount(b) <= BenchCapacity
    BY <1>0, <1>5, <2>2
  <2>4. Protected \cap Starting(a, Slot) \subseteq Starting(b, Slot)
    <3>1. SUFFICES ASSUME NEW k \in Slot, a[k] # Empty, a[k] \in Protected
                   PROVE  a[k] \in Starting(b, Slot)
      BY DEF Starting
    <3>2. k # i
      BY <1>5, <3>1
    <3>3. QED
      BY <2>1, <3>1, <3>2 DEF Starting
  <2>5. a[i] # Empty /\ i \in Open /\ b = [a EXCEPT ![i] = Empty]
    BY <1>5 DEF Emptied
  <2>6. QED
    BY <2>1, <2>3, <2>4, <2>5
<1>6. ASSUME NEW i, NEW p, Fine, Single(i, p), p # Empty PROVE ByBench(p, i)
  <2>1. Placed(a, b, p, i)
    BY <1>6 DEF Placed
  <2>2. /\ b \in Lineup /\ i \in Slot /\ b[i] = p /\ p # Empty /\ \A k \in Slot : a[k] # p
        /\ \A k \in Slot : k # i => b[k] = a[k]
    BY <2>1, KindFacts
  <2>3. i \in Eligible(p)
    BY <1>6, <2>2
  <2>4. ASSUME a[i] # Empty, a[i] \in Protected PROVE FALSE
    <3>1. a[i] \in Starting(b, Slot)
      BY <1>6, <2>2, <2>4 DEF Starting
    <3>2. PICK k \in Slot : b[k] = a[i]
      BY <3>1 DEF Starting
    <3>3. k # i /\ a[k] = a[i]
      BY <2>2, <3>2
    <3>4. QED
      BY <1>0, <2>2, <2>4, <3>3 DEF WithoutRepeats
  <2>5. QED
    BY <2>1, <2>3, <2>4
<1>7. ASSUME NEW i, NEW p, Fine, Single(i, p), p = Empty PROVE ByEmptying(i)
  <2>1. a[i] # Empty
    BY <1>0, <1>7 DEF Lineup
  <2>2. Emptied(a, b, i)
    BY <1>7, <2>1 DEF Emptied
  <2>3. b \in Lineup /\ i \in Slot /\ b[i] = Empty /\ \A k \in Slot : k # i => b[k] = a[k]
    BY <2>2, KindFacts
  <2>4. BenchCount(b) = BenchCount(a) + 1
    BY <2>2, BenchFacts
  <2>5. BenchCount(a) < BenchCapacity
    BY <1>0, <1>7, <2>4
  <2>6. ASSUME a[i] \in Protected PROVE FALSE
    <3>1. a[i] \in Starting(b, Slot)
      BY <1>7, <2>1, <2>3, <2>6 DEF Starting
    <3>2. PICK k \in Slot : b[k] = a[i]
      BY <3>1 DEF Starting
    <3>3. k # i /\ a[k] = a[i]
      BY <2>1, <2>3, <3>2
    <3>4. QED
      BY <1>0, <2>1, <2>3, <3>3 DEF WithoutRepeats
  <2>7. QED
    BY <2>2, <2>5, <2>6
<1>8. ASSUME NEW i, NEW j, Fine, Trade(i, j), a[i] # Empty PROVE ByTrade(i, j)
  <2>1. i # j
    BY <1>0, <1>8 DEF Lineup
  <2>2. Traded(a, b, i, j)
    BY <1>8, <2>1 DEF Traded
  <2>3. i \in Slot /\ j \in Slot /\ b[i] = a[j] /\ b[j] = a[i] /\ a[i] # a[j]
    BY <2>2, KindFacts
  <2>4. QED
    BY <1>8, <2>2, <2>3
<1>9. ASSUME NEW i, NEW j, Fine, Trade(i, j), a[i] = Empty PROVE Trade(j, i) /\ a[j] # Empty
  <2>1. i # j /\ i \in Slot /\ j \in Slot
    BY <1>0, <1>9 DEF Lineup
  <2>2. a[j] # Empty
    BY <1>0, <1>9, <2>1 DEF Lineup
  <2>3. [a EXCEPT ![i] = a[j], ![j] = a[i]] = [a EXCEPT ![j] = a[i], ![i] = a[j]]
    BY <1>0, <2>1 DEF Lineup
  <2>4. QED
    BY <1>9, <2>2, <2>3
<1> HIDE DEF Fine, Single, Trade, ByBench, ByTrade, ByEmptying
<1>10. QED
  BY <1>1, <1>2, <1>3, <1>4, <1>5, <1>6, <1>7, <1>8, <1>9

\* A move leaves a sound lineup, and changes one slot or two.
LEMMA NeighborFacts ==
  ASSUME request \in Request, NEW a, Sound(a), NEW b \in Neighbors(a)
  PROVE  /\ Sound(b)
         /\ \E i, j \in Open : \A k \in Slot : k # i /\ k # j => b[k] = a[k]
<1>0. /\ a \in Lineup /\ Open \subseteq Slot /\ WithoutRepeats(a)
      /\ \A i \in request.locked : a[i] = request.observed[i]
      /\ \A i \in Open : a[i] # Empty => a[i] \in Movable
      /\ \A i \in request.locked : i \notin Open /\ i \in Slot
  BY DEF Sound, Open, Request
<1>1. CASE \E p, i : Placed(a, b, p, i)
  <2>1. PICK p, i : Placed(a, b, p, i)
    BY <1>1
  <2>2. /\ b \in Lineup /\ i \in Slot /\ b[i] = p /\ p # Empty /\ \A k \in Slot : a[k] # p
        /\ \A k \in Slot : k # i => b[k] = a[k]
    BY <2>1, KindFacts
  <2>3. i \in Open /\ p \in Movable
    BY <2>1 DEF Placed
  <2>4. WithoutRepeats(b)
    BY <1>0, <2>2 DEF WithoutRepeats
  <2>5. \A k \in request.locked : b[k] = request.observed[k]
    BY <1>0, <2>2, <2>3
  <2>6. QED
    BY <1>0, <2>2, <2>3, <2>4, <2>5 DEF Sound
<1>2. CASE \E i, j : Traded(a, b, i, j)
  <2>1. PICK i, j : Traded(a, b, i, j)
    BY <1>2
  <2>2. /\ b \in Lineup /\ i \in Slot /\ j \in Slot /\ b[i] = a[j] /\ b[j] = a[i] /\ a[i] # a[j]
        /\ \A k \in Slot : k # i /\ k # j => b[k] = a[k]
    BY <2>1, KindFacts
  <2>3. i \in Open /\ j \in Open /\ i # j
    BY <2>1 DEF Traded
  <2>4. WithoutRepeats(b)
    <3>1. SUFFICES ASSUME NEW k \in Slot, NEW l \in Slot, k # l, b[k] # Empty, b[k] = b[l] PROVE FALSE
      BY DEF WithoutRepeats
    <3> DEFINE from(n) == IF n = i THEN j ELSE IF n = j THEN i ELSE n
    <3>2. \A n \in Slot : b[n] = a[from(n)] /\ from(n) \in Slot
      BY <2>2
    <3>3. from(k) # from(l)
      BY <3>1
    <3> HIDE DEF from
    <3>4. QED
      BY <1>0, <3>1, <3>2, <3>3 DEF WithoutRepeats
  <2>5. \A k \in request.locked : b[k] = request.observed[k]
    BY <1>0, <2>2, <2>3
  <2>6. \A k \in Open : b[k] # Empty => b[k] \in Movable
    <3>1. SUFFICES ASSUME NEW k \in Open, b[k] # Empty PROVE b[k] \in Movable
      OBVIOUS
    <3>2. CASE k = i
      BY <1>0, <2>2, <2>3, <3>1, <3>2
    <3>3. CASE k = j
      BY <1>0, <2>2, <2>3, <3>1, <3>3
    <3>4. CASE k # i /\ k # j
      BY <1>0, <2>2, <2>3, <3>1, <3>4
    <3>5. QED
      BY <3>2, <3>3, <3>4
  <2>7. QED
    BY <2>2, <2>3, <2>4, <2>5, <2>6 DEF Sound
<1>3. CASE \E i : Emptied(a, b, i)
  <2>1. PICK i : Emptied(a, b, i)
    BY <1>3
  <2>2. b \in Lineup /\ i \in Slot /\ b[i] = Empty /\ \A k \in Slot : k # i => b[k] = a[k]
    BY <2>1, KindFacts
  <2>3. i \in Open
    BY <2>1 DEF Emptied
  <2>4. WithoutRepeats(b)
    BY <1>0, <2>2 DEF WithoutRepeats
  <2>5. \A k \in request.locked : b[k] = request.observed[k]
    BY <1>0, <2>2, <2>3
  <2>6. QED
    BY <1>0, <2>2, <2>3, <2>4, <2>5 DEF Sound
<1>4. QED
  BY <1>1, <1>2, <1>3, NeighborKinds

\* A move that fills a slot, told from the lineups before and after it.
Told(b, a, t) ==
  LET p == b[t] IN
  [player |-> p, source |-> IF SlotsOf(a, p) = {} THEN Bench ELSE SlotOf(a, p),
   target |-> t, swap |-> a[t]]

\* Every move can be read from the lineups before and after it, and be made.
LEMMA MoveApplies ==
  ASSUME request \in Request, NEW a, Sound(a), NEW b \in Neighbors(a)
  PROVE  Applies(a, MoveFrom(a, b)) /\ Applied(a, MoveFrom(a, b)) = b
<1> DEFINE changed == {i \in Slot : a[i] # b[i]}
           filled == {i \in changed : b[i] # Empty}
           target == CHOOSE i \in filled : \A j \in filled : i <= j
           emptied == CHOOSE i \in changed : TRUE
           m == MoveFrom(a, b)
<1>0. a \in Lineup /\ WithoutRepeats(a) /\ Slot \subseteq Nat \ {0} /\ Open \subseteq Slot /\ Bench = 0
  BY SlotFacts DEF Sound, Open, Bench
<1>1. ASSUME filled # {}
      PROVE  target \in filled /\ m = Told(b, a, target)
  <2>1. \E i \in filled : \A j \in filled : i <= j
    <3>1. filled \in SUBSET Nat
      BY <1>0
    <3> HIDE DEF filled
    <3>2. QED
      BY <1>1, <3>1, LeastNatural
  <2>2. target \in filled
    BY <2>1
  <2>3. m = Told(b, a, target)
    BY <1>1 DEF MoveFrom, Told
  <2>4. QED
    BY <2>2, <2>3
<1>2. ASSUME filled = {}
      PROVE  m = [player |-> a[emptied], source |-> emptied, target |-> Bench, swap |-> Empty]
  BY <1>2 DEF MoveFrom
<1>3. b \in Lineup
  BY NeighborFacts DEF Sound
<1> HIDE DEF target, emptied, m
<1>4. CASE \E p, i : Placed(a, b, p, i)
  <2>1. PICK p, i : Placed(a, b, p, i)
    BY <1>4
  <2>2. /\ b \in Lineup /\ i \in Slot /\ b[i] = p /\ p # Empty /\ \A k \in Slot : a[k] # p
        /\ \A k \in Slot : k # i => b[k] = a[k]
    BY <2>1, KindFacts
  <2>3. filled = {i}
    BY <2>2
  <2>4. target = i /\ m = Told(b, a, i)
    BY <1>1, <2>3
  <2>5. SlotsOf(a, p) = {}
    BY <2>2 DEF SlotsOf
  <2>6. m = [player |-> p, source |-> Bench, target |-> i, swap |-> a[i]]
    BY <2>2, <2>4, <2>5 DEF Told
  <2>7. m.player = p /\ m.source = 0 /\ m.target = i /\ m.swap = a[i]
    BY <1>0, <2>6
  <2>8. i # 0 /\ p \notin Starting(a, Slot)
    BY <1>0, <2>2 DEF Starting
  <2>9. Applies(a, m)
    BY <1>0, <2>7, <2>8 DEF Applies
  <2>10. Applied(a, m) = b
    <3>1. \A k \in Slot : k # 0
      BY <1>0
    <3>2. Applied(a, m) = [k \in Slot |-> IF k = i THEN p ELSE a[k]]
      BY <2>7, <3>1 DEF Applied
    <3>3. QED
      BY <2>2, <3>2 DEF Lineup
  <2>11. QED
    BY <2>9, <2>10 DEF m
<1>5. CASE \E i, j : Traded(a, b, i, j)
  <2>1. PICK i, j : Traded(a, b, i, j)
    BY <1>5
  <2>2. /\ b \in Lineup /\ i \in Slot /\ j \in Slot /\ b[i] = a[j] /\ b[j] = a[i] /\ a[i] # a[j]
        /\ \A k \in Slot : k # i /\ k # j => b[k] = a[k]
    BY <2>1, KindFacts
  <2>3. i # j /\ a[i] # Empty
    BY <2>1 DEF Traded
  <2>4. filled # {}
    BY <2>2, <2>3
  <2>5. PICK t, s \in Slot : /\ {t, s} = {i, j} /\ t = target /\ t # s /\ b[t] # Empty
                             /\ b[t] = a[s] /\ b[s] = a[t] /\ m = Told(b, a, t)
    <3>1. target \in {i, j} /\ b[target] # Empty /\ target \in Slot
      BY <1>1, <2>2, <2>4
    <3>2. m = Told(b, a, target)
      BY <1>1, <2>4
    <3>3. CASE target = i
      BY <2>2, <2>3, <3>1, <3>2, <3>3
    <3>4. CASE target = j
      BY <2>2, <2>3, <3>1, <3>2, <3>4
    <3>5. QED
      BY <3>1, <3>3, <3>4
  <2>6. SlotsOf(a, b[t]) # {} /\ SlotOf(a, b[t]) = s
    <3>1. SlotOf(a, a[s]) = s
      BY <1>0, <2>5, SlotOfFacts
    <3>2. QED
      BY <2>5, <3>1 DEF SlotsOf
  <2>7. m.player = b[t] /\ m.source = s /\ m.target = t /\ m.swap = a[t]
    BY <2>5, <2>6 DEF Told
  <2>8. s # 0 /\ t # 0
    BY <1>0, <2>5
  <2>9. Applies(a, m)
    BY <1>0, <2>5, <2>7, <2>8 DEF Applies
  <2>10. \A k \in Slot : k # t /\ k # s => b[k] = a[k]
    BY <2>2, <2>5
  <2>11. Applied(a, m) = b
    <3>1. Applied(a, m) = [k \in Slot |-> IF k = t THEN b[t] ELSE IF k = s THEN a[t] ELSE a[k]]
      BY <2>7 DEF Applied
    <3>2. QED
      BY <2>2, <2>5, <2>10, <3>1 DEF Lineup
  <2>12. QED
    BY <2>9, <2>11 DEF m
<1>6. CASE \E i : Emptied(a, b, i)
  <2>1. PICK i : Emptied(a, b, i)
    BY <1>6
  <2>2. b \in Lineup /\ i \in Slot /\ b[i] = Empty /\ \A k \in Slot : k # i => b[k] = a[k]
    BY <2>1, KindFacts
  <2>3. a[i] # Empty
    BY <2>1 DEF Emptied
  <2>4. changed = {i} /\ filled = {}
    BY <2>2, <2>3
  <2>5. emptied = i
    <3> HIDE DEF changed
    <3>1. QED
      BY <2>4 DEF emptied
  <2>6. m.player = a[i] /\ m.source = i /\ m.target = Bench /\ m.swap = Empty
    BY <1>2, <2>4, <2>5
  <2>7. i # Bench /\ \A k \in Slot : k # Bench
    BY <1>0, <2>2
  <2>8. Applies(a, m)
    BY <2>6, <2>7 DEF Applies
  <2>9. Applied(a, m) = b
    <3>1. Applied(a, m) = [k \in Slot |-> IF k = i THEN Empty ELSE a[k]]
      BY <2>6, <2>7 DEF Applied
    <3>2. QED
      BY <2>2, <3>1 DEF Lineup
  <2>10. QED
    BY <2>8, <2>9 DEF m
<1>7. QED
  BY <1>4, <1>5, <1>6, NeighborKinds

\* One element more makes a finite set larger by one at most.
LEMMA OneMore ==
  ASSUME NEW S, IsFiniteSet(S), NEW x
  PROVE  /\ IsFiniteSet(S \cup {x}) /\ Cardinality(S \cup {x}) \in Nat
         /\ Cardinality(S \cup {x}) <= Cardinality(S) + 1
         /\ x \notin S => Cardinality(S \cup {x}) = Cardinality(S) + 1
<1>1. Cardinality(S) \in Nat
  BY FS_CardinalityType
<1>2. CASE x \in S
  <2>1. S \cup {x} = S
    BY <1>2
  <2>2. QED
    BY <1>1, <1>2, <2>1
<1>3. CASE x \notin S
  <2>1. IsFiniteSet(S \cup {x}) /\ Cardinality(S \cup {x}) = Cardinality(S) + 1
    BY <1>3, FS_AddElement
  <2>2. QED
    BY <1>1, <1>3, <2>1
<1>4. QED
  BY <1>2, <1>3

\* One move settles two slots at most, so what remains shrinks by one at most.
LEMMA RemainingFacts ==
  ASSUME request \in Request, NEW a, Sound(a)
  PROVE  /\ Remaining(a) \in Nat /\ (a = request.desired => Remaining(a) = 0)
         /\ \A b \in Neighbors(a) : Remaining(a) <= Remaining(b) + 1
<1> DEFINE wrong(l) == {i \in Open : l[i] # request.desired[i]}
<1>1. \A l : IsFiniteSet(wrong(l)) /\ Cardinality(wrong(l)) \in Nat
  <2>1. \A l : IsFiniteSet(wrong(l))
    <3>1. \A l : wrong(l) \in SUBSET Slot
      BY DEF Open
    <3> HIDE DEF wrong
    <3>2. QED
      BY <3>1, SlotFacts, FS_Subset
  <2>2. QED
    BY <2>1, FS_CardinalityType
<1>2. \A l : Mismatches(l) \in Nat /\ Mismatches(l) = Cardinality(wrong(l))
  BY <1>1 DEF Mismatches
<1>3. \A l : Remaining(l) \in Nat
  <2>1. \A n \in Nat : (n + 1) \div 2 \in Nat
    OBVIOUS
  <2>2. QED
    BY <1>2, <2>1 DEF Remaining
<1>4. ASSUME a = request.desired PROVE Remaining(a) = 0
  <2>1. wrong(a) = {}
    BY <1>4
  <2>2. Mismatches(a) = 0
    BY <1>2, <2>1, FS_EmptySet
  <2>3. QED
    BY <2>2 DEF Remaining
<1>5. ASSUME NEW b \in Neighbors(a) PROVE Remaining(a) <= Remaining(b) + 1
  <2>1. PICK i, j \in Open : \A k \in Slot : k # i /\ k # j => b[k] = a[k]
    BY NeighborFacts
  <2>2. wrong(a) \subseteq (wrong(b) \cup {i}) \cup {j}
    BY <2>1 DEF Open
  <2>3. Cardinality(wrong(a)) <= Cardinality(wrong(b)) + 2
    <3> HIDE DEF wrong
    <3>1. /\ IsFiniteSet(wrong(b) \cup {i}) /\ Cardinality(wrong(b) \cup {i}) \in Nat
          /\ Cardinality(wrong(b) \cup {i}) <= Cardinality(wrong(b)) + 1
      BY <1>1, OneMore
    <3>2. /\ IsFiniteSet((wrong(b) \cup {i}) \cup {j})
          /\ Cardinality((wrong(b) \cup {i}) \cup {j}) \in Nat
          /\ Cardinality((wrong(b) \cup {i}) \cup {j}) <= Cardinality(wrong(b) \cup {i}) + 1
      BY <3>1, OneMore
    <3>3. Cardinality(wrong(a)) <= Cardinality((wrong(b) \cup {i}) \cup {j})
      BY <2>2, <3>2, FS_Subset
    <3>4. QED
      BY <1>1, <3>1, <3>2, <3>3
  <2>4. \A m, n \in Nat : m <= n + 2 => (m + 1) \div 2 <= (n + 1) \div 2 + 1
    OBVIOUS
  <2> HIDE DEF wrong
  <2>5. QED
    BY <1>2, <2>3, <2>4 DEF Remaining
<1>6. QED
  BY <1>3, <1>4, <1>5

-----------------------------------------------------------------------------
(* The search *)

\* The costs c, the parents par and the queue q of a search from obs for des among the lineups of
\* good, in which next gives the moves and left the estimates: every cost is that of a way back
\* to obs, and what is not queued at its cost has been explored.
Searched(c, par, q, obs, des, good, next, left) ==
  /\ next \in [good -> SUBSET good] /\ left \in [good -> Nat]
  /\ DOMAIN c \in SUBSET good /\ IsFiniteSet(DOMAIN c) /\ Cardinality(DOMAIN c) <= MaxSearchStates
  /\ obs \in DOMAIN c /\ c[obs] = 0
  /\ \A t \in DOMAIN c : c[t] \in Nat /\ c[t] < Cardinality(DOMAIN c)
  /\ DOMAIN par = DOMAIN c \ {obs}
  /\ \A t \in DOMAIN par : par[t] \in DOMAIN c /\ c[par[t]] < c[t] /\ t \in next[par[t]]
  /\ \A e \in q : /\ e.lineup \in DOMAIN c /\ e.cost \in Nat /\ e.cost < Cardinality(DOMAIN c)
                  /\ e.total = e.cost + left[e.lineup]
  /\ \A t \in DOMAIN c :
       \/ \E e \in q : e.lineup = t /\ e.cost = c[t]
       \/ t # des /\ \A u \in next[t] : u \in DOMAIN c /\ c[u] <= c[t] + 1

\* It starts with the lineup observed.
LEMMA SearchStarts ==
  ASSUME NEW good, NEW next \in [good -> SUBSET good], NEW left \in [good -> Nat],
         NEW obs \in good, NEW des, NEW par, DOMAIN par = {},
         NEW e, e.lineup = obs, e.cost = 0, e.total = 0 + left[obs]
  PROVE  Searched([l \in {obs} |-> 0], par, {e}, obs, des, good, next, left)
<1>1. IsFiniteSet({obs}) /\ Cardinality({obs}) = 1
  BY FS_Singleton
<1>2. 1 <= MaxSearchStates
  BY LineupAssumption
<1> DEFINE c == [l \in {obs} |-> 0]
<1>3. DOMAIN c = {obs} /\ c[obs] = 0 /\ DOMAIN par = DOMAIN c \ {obs}
  OBVIOUS
<1> HIDE DEF c
<1>4. Searched(c, par, {e}, obs, des, good, next, left)
  BY <1>1, <1>2, <1>3 DEF Searched
<1>5. QED
  BY <1>4 DEF c

\* An entry that is out of date may go.
LEMMA SearchDrops ==
  ASSUME NEW c, NEW par, NEW q, NEW obs, NEW des, NEW good, NEW next, NEW left,
         Searched(c, par, q, obs, des, good, next, left),
         NEW e \in q, e.cost # c[e.lineup]
  PROVE  Searched(c, par, q \ {e}, obs, des, good, next, left)
<1>1. ASSUME NEW t \in DOMAIN c
      PROVE  \/ \E d \in q \ {e} : d.lineup = t /\ d.cost = c[t]
             \/ t # des /\ \A u \in next[t] : u \in DOMAIN c /\ c[u] <= c[t] + 1
  <2>1. ASSUME NEW d \in q, d.lineup = t, d.cost = c[t] PROVE d \in q \ {e}
    BY <2>1
  <2>2. QED
    BY <2>1 DEF Searched
<1>2. QED
  BY <1>1 DEF Searched

\* An entry is explored: the lineups one move away from its own that were not met at such a cost
\* are noted and queued.
LEMMA SearchExplores ==
  ASSUME NEW c, NEW par, NEW q, NEW obs, NEW des, NEW good, NEW next, NEW left,
         Searched(c, par, q, obs, des, good, next, left),
         NEW e \in q, e.cost = c[e.lineup], e.lineup # des,
         NEW better, better = {t \in next[e.lineup] :
           e.cost + 1 < IF t \in DOMAIN c THEN c[t] ELSE MaxSearchStates + 1},
         IsFiniteSet(better), Cardinality(DOMAIN c \cup better) <= MaxSearchStates,
         NEW more, \A d \in more : /\ d.lineup \in better /\ d.cost = e.cost + 1
                                   /\ d.total = e.cost + 1 + left[d.lineup],
         \A t \in better : \E d \in more : d.lineup = t
  PROVE  Searched(Updated(c, better, e.cost + 1), Updated(par, better, e.lineup),
                  (q \ {e}) \cup more, obs, des, good, next, left)
<1> DEFINE c1 == Updated(c, better, e.cost + 1)
           par1 == Updated(par, better, e.lineup)
           q1 == (q \ {e}) \cup more
           at == e.lineup
           k == e.cost + 1
           size == Cardinality(DOMAIN c)
           size1 == Cardinality(DOMAIN c \cup better)
<1>0. /\ next \in [good -> SUBSET good] /\ left \in [good -> Nat]
      /\ DOMAIN c \in SUBSET good /\ IsFiniteSet(DOMAIN c) /\ size <= MaxSearchStates
      /\ obs \in DOMAIN c /\ c[obs] = 0
      /\ \A t \in DOMAIN c : c[t] \in Nat /\ c[t] < size
      /\ DOMAIN par = DOMAIN c \ {obs}
      /\ \A t \in DOMAIN par : par[t] \in DOMAIN c /\ c[par[t]] < c[t] /\ t \in next[par[t]]
      /\ \A d \in q : /\ d.lineup \in DOMAIN c /\ d.cost \in Nat /\ d.cost < size
                      /\ d.total = d.cost + left[d.lineup]
  BY DEF Searched
<1>1. MaxSearchStates \in Nat /\ size \in Nat
  BY <1>0, FS_CardinalityType, LineupAssumption
<1>2. at \in DOMAIN c /\ k \in Nat /\ k = c[at] + 1 /\ e.cost < size /\ e.cost \in Nat
  BY <1>0
<1>3. \A t \in better : t \in next[at] /\ t \in good /\ (t \in DOMAIN c => k < c[t])
  BY <1>0, <1>2
<1>4. IsFiniteSet(DOMAIN c \cup better) /\ size1 \in Nat /\ size <= size1
  <2>1. IsFiniteSet(DOMAIN c \cup better)
    BY <1>0, FS_Union
  <2>2. QED
    BY <2>1, FS_Subset, FS_CardinalityType
<1>5. \A t \in better : k < size1
  <2>1. SUFFICES ASSUME NEW t \in better PROVE k < size1
    OBVIOUS
  <2>2. CASE t \in DOMAIN c
    <3>1. k < c[t] /\ c[t] < size /\ c[t] \in Nat
      BY <1>0, <1>3, <2>2
    <3> HIDE DEF k, size, size1
    <3>2. QED
      BY <1>1, <1>2, <1>4, <3>1
  <2>3. CASE t \notin DOMAIN c
    <3>1. size1 >= size + 1
      <4>1. IsFiniteSet(DOMAIN c \cup {t}) /\ Cardinality(DOMAIN c \cup {t}) = size + 1
        BY <1>0, <2>3, OneMore
      <4>2. Cardinality(DOMAIN c \cup {t}) <= size1
        BY <1>4, FS_Subset
      <4>3. QED
        BY <1>1, <1>4, <4>1, <4>2
    <3> HIDE DEF size, size1
    <3>2. QED
      BY <1>1, <1>2, <1>4, <3>1
  <2>4. QED
    BY <2>2, <2>3
<1>6. /\ DOMAIN c1 = DOMAIN c \cup better
      /\ \A t \in better : c1[t] = k
      /\ \A t \in DOMAIN c : t \notin better => c1[t] = c[t]
      /\ DOMAIN par1 = DOMAIN par \cup better
      /\ \A t \in better : par1[t] = at
      /\ \A t \in DOMAIN par : t \notin better => par1[t] = par[t]
  BY DEF Updated
<1>7. at \notin better /\ obs \notin better
  <2>1. ~(k < c[at])
    BY <1>0, <1>2
  <2>2. ~(k < c[obs])
    BY <1>0, <1>2
  <2> HIDE DEF at, k
  <2>3. QED
    BY <1>0, <1>2, <1>3, <2>1, <2>2
<1>8. \A t \in DOMAIN c : c1[t] <= c[t] /\ c1[t] \in Nat
  BY <1>0, <1>2, <1>3, <1>6
<1>9. \A d \in q1 : d # e => d \in q \/ d \in more
  OBVIOUS
<1> HIDE DEF c1, par1, k, at, size, size1
<1>10. \A t \in DOMAIN c1 : c1[t] \in Nat /\ c1[t] < size1
  <2>1. SUFFICES ASSUME NEW t \in DOMAIN c1 PROVE c1[t] \in Nat /\ c1[t] < size1
    OBVIOUS
  <2>2. CASE t \in better
    BY <1>2, <1>5, <1>6, <2>2
  <2>3. CASE t \notin better
    <3>1. t \in DOMAIN c /\ c1[t] = c[t] /\ c[t] \in Nat /\ c[t] < size
      BY <1>0, <1>6, <2>3
    <3>2. QED
      BY <1>1, <1>4, <3>1
  <2>4. QED
    BY <2>2, <2>3
<1>11. \A t \in DOMAIN par1 : par1[t] \in DOMAIN c1 /\ c1[par1[t]] < c1[t] /\ t \in next[par1[t]]
  <2>1. SUFFICES ASSUME NEW t \in DOMAIN par1
                 PROVE  par1[t] \in DOMAIN c1 /\ c1[par1[t]] < c1[t] /\ t \in next[par1[t]]
    OBVIOUS
  <2>2. CASE t \in better
    <3>1. par1[t] = at /\ c1[t] = k /\ c1[at] = c[at] /\ at \in DOMAIN c1
      BY <1>2, <1>6, <1>7, <2>2
    <3>2. c[at] < k
      BY <1>0, <1>2
    <3>3. QED
      BY <1>3, <2>2, <3>1, <3>2
  <2>3. CASE t \notin better
    <3>1. t \in DOMAIN par /\ par1[t] = par[t] /\ t \in DOMAIN c /\ c1[t] = c[t]
      BY <1>0, <1>6, <2>3
    <3>2. par[t] \in DOMAIN c /\ c[par[t]] < c[t] /\ t \in next[par[t]]
      BY <1>0, <3>1
    <3>3. c1[par[t]] <= c[par[t]] /\ c1[par[t]] \in Nat /\ c[par[t]] \in Nat /\ c[t] \in Nat
      BY <1>0, <1>8, <3>1, <3>2
    <3>4. QED
      BY <1>6, <3>1, <3>2, <3>3
  <2>4. QED
    BY <2>2, <2>3
<1>12. \A d \in q1 : /\ d.lineup \in DOMAIN c1 /\ d.cost \in Nat /\ d.cost < size1
                     /\ d.total = d.cost + left[d.lineup]
  <2>1. SUFFICES ASSUME NEW d \in q1
                 PROVE  /\ d.lineup \in DOMAIN c1 /\ d.cost \in Nat /\ d.cost < size1
                        /\ d.total = d.cost + left[d.lineup]
    OBVIOUS
  <2>2. CASE d \in more
    <3>1. d.lineup \in better /\ d.cost = k /\ d.total = k + left[d.lineup]
      BY <2>2 DEF k
    <3>2. QED
      BY <1>2, <1>5, <1>6, <3>1
  <2>3. CASE d \in q
    <3>1. d.lineup \in DOMAIN c /\ d.cost \in Nat /\ d.cost < size /\ d.total = d.cost + left[d.lineup]
      BY <1>0, <2>3
    <3>2. QED
      BY <1>1, <1>4, <1>6, <3>1
  <2>4. QED
    BY <2>2, <2>3
<1>13. ASSUME NEW t \in DOMAIN c1
       PROVE  \/ \E d \in q1 : d.lineup = t /\ d.cost = c1[t]
              \/ t # des /\ \A u \in next[t] : u \in DOMAIN c1 /\ c1[u] <= c1[t] + 1
  <2>1. CASE t \in better
    <3>1. PICK d \in more : d.lineup = t
      BY <2>1
    <3>2. d.cost = c1[t] /\ d \in q1
      BY <1>6, <2>1, <3>1 DEF k
    <3>3. QED
      BY <3>1, <3>2
  <2>2. CASE t = at
    <3>1. t # des
      BY <2>2 DEF at
    <3>2. c1[t] = c[t] /\ c1[t] + 1 = k
      BY <1>2, <1>6, <1>7, <2>2
    <3>3. ASSUME NEW u \in next[t] PROVE u \in DOMAIN c1 /\ c1[u] <= c1[t] + 1
      <4>1. CASE u \in better
        BY <1>2, <1>6, <3>2, <4>1
      <4>2. CASE u \notin better
        <5>1. ~(k < IF u \in DOMAIN c THEN c[u] ELSE MaxSearchStates + 1)
          BY <2>2, <3>3, <4>2 DEF at, k
        <5>2. u \in DOMAIN c
          <6>1. k < MaxSearchStates + 1
            BY <1>0, <1>1, <1>2 DEF k
          <6>2. QED
            BY <5>1, <6>1
        <5>3. c[u] <= k /\ c1[u] = c[u]
          <6>1. ~(k < c[u]) /\ c[u] \in Nat
            BY <1>0, <5>1, <5>2
          <6>2. QED
            BY <1>2, <1>6, <4>2, <5>2, <6>1
        <5>4. QED
          BY <1>6, <3>2, <5>2, <5>3
      <4>3. QED
        BY <4>1, <4>2
    <3>4. QED
      BY <3>1, <3>3
  <2>3. CASE t \notin better /\ t # at
    <3>1. t \in DOMAIN c /\ c1[t] = c[t]
      BY <1>6, <2>3
    <3>2. CASE \E d \in q : d.lineup = t /\ d.cost = c[t]
      <4>1. PICK d \in q : d.lineup = t /\ d.cost = c[t]
        BY <3>2
      <4>2. d # e
        BY <2>3, <4>1 DEF at
      <4>3. QED
        BY <3>1, <4>1, <4>2
    <3>3. CASE t # des /\ \A u \in next[t] : u \in DOMAIN c /\ c[u] <= c[t] + 1
      <4>1. ASSUME NEW u \in next[t] PROVE u \in DOMAIN c1 /\ c1[u] <= c1[t] + 1
        <5>1. /\ u \in DOMAIN c /\ c[u] <= c[t] + 1 /\ c1[u] <= c[u]
              /\ c1[u] \in Nat /\ c[u] \in Nat /\ c[t] \in Nat
          BY <1>0, <1>8, <3>1, <3>3
        <5>2. QED
          BY <1>6, <3>1, <5>1
      <4>2. QED
        BY <3>3, <4>1
    <3>4. QED
      BY <3>1, <3>2, <3>3 DEF Searched
  <2>4. QED
    BY <2>1, <2>2, <2>3
<1>14. DOMAIN c1 \in SUBSET good /\ obs \in DOMAIN c1 /\ c1[obs] = 0 /\ DOMAIN par1 = DOMAIN c1 \ {obs}
  BY <1>0, <1>3, <1>6, <1>7
<1>15. IsFiniteSet(DOMAIN c1) /\ Cardinality(DOMAIN c1) = size1 /\ size1 <= MaxSearchStates
  BY <1>4, <1>6 DEF size1
<1> HIDE DEF q1
<1>16. Searched(c1, par1, q1, obs, des, good, next, left)
  BY <1>0, <1>10, <1>11, <1>12, <1>13, <1>14, <1>15 DEF Searched
<1>17. QED
  BY <1>16 DEF c1, par1, q1

\* A way to t: a sequence of moves from obs, not longer than the cost.
Way(s, t, c, obs, next) ==
  /\ Len(s) \in Nat \ {0} /\ Len(s) - 1 <= c[t] /\ s[1] = obs /\ s[Len(s)] = t
  /\ \A k \in 1..Len(s) : s[k] \in DOMAIN c
  /\ \A k \in 1..(Len(s) - 1) : s[k + 1] \in next[s[k]]
\* The sequences that lead back along the parents.
Backwards(path, par) ==
  /\ path \in [Lineup -> Seq(Lineup)]
  /\ \A l \in Lineup : path[l] = IF l \in DOMAIN par THEN Append(path[par[l]], l) ELSE <<l>>

\* The way back along the parents of a lineup is a way to it.
LEMMA PathFacts ==
  ASSUME NEW c, NEW par, NEW q, NEW obs, NEW des, NEW good \in SUBSET Lineup, NEW next, NEW left,
         Searched(c, par, q, obs, des, good, next, left),
         NEW path, Backwards(path, par), NEW t \in DOMAIN c
  PROVE  Way(path[t], t, c, obs, next)
<1> DEFINE Right(s, u) == Way(s, u, c, obs, next)
           N == {n \in Nat : \A u \in DOMAIN c : c[u] <= n => Right(path[u], u)}
<1>1. /\ DOMAIN c \subseteq Lineup /\ obs \in DOMAIN c /\ DOMAIN par = DOMAIN c \ {obs}
      /\ \A u \in DOMAIN c : c[u] \in Nat
      /\ \A u \in DOMAIN par : par[u] \in DOMAIN c /\ c[par[u]] < c[u] /\ u \in next[par[u]]
      /\ \A l \in Lineup : /\ path[l] \in Seq(Lineup)
                           /\ path[l] = IF l \in DOMAIN par THEN Append(path[par[l]], l) ELSE <<l>>
  BY DEF Searched, Backwards
<1>2. Right(path[obs], obs)
  <2>1. path[obs] = <<obs>> /\ obs \in Lineup
    BY <1>1
  <2>2. Len(<<obs>>) = 1 /\ <<obs>>[1] = obs /\ 1..1 = {1} /\ 1..(1 - 1) = {} /\ c[obs] \in Nat
    BY <1>1
  <2>3. QED
    BY <1>1, <2>1, <2>2 DEF Way
<1>3. ASSUME NEW u \in DOMAIN par, Right(path[par[u]], par[u]) PROVE Right(path[u], u)
  <2> DEFINE s == path[par[u]]
             m == Len(s)
  <2>1. u \in DOMAIN c /\ par[u] \in DOMAIN c /\ u \in Lineup /\ par[u] \in Lineup /\ s \in Seq(Lineup)
    BY <1>1
  <2>2. path[u] = Append(s, u)
    BY <1>1, <1>3, <2>1
  <2>3. m \in Nat \ {0} /\ m - 1 <= c[par[u]] /\ s[1] = obs /\ s[m] = par[u]
    BY <1>3 DEF Way
  <2>4. (\A k \in 1..m : s[k] \in DOMAIN c) /\ \A k \in 1..(m - 1) : s[k + 1] \in next[s[k]]
    BY <1>3 DEF Way
  <2>5. c[par[u]] < c[u] /\ u \in next[par[u]] /\ c[par[u]] \in Nat /\ c[u] \in Nat
    BY <1>1, <2>1
  <2> HIDE DEF s
  <2>6. /\ Len(path[u]) = m + 1 /\ path[u][m + 1] = u
        /\ \A k \in 1..m : path[u][k] = s[k]
    BY <2>1, <2>2, <2>3
  <2> HIDE DEF m
  <2>7. Len(path[u]) \in Nat \ {0} /\ Len(path[u]) - 1 <= c[u]
    BY <2>3, <2>5, <2>6
  <2>8. path[u][1] = obs /\ path[u][Len(path[u])] = u
    BY <2>3, <2>6
  <2>9. ASSUME NEW k \in 1..Len(path[u]) PROVE path[u][k] \in DOMAIN c
    <3>1. k \in 1..m \/ k = m + 1
      BY <2>3, <2>6
    <3>2. QED
      BY <2>1, <2>4, <2>6, <3>1
  <2>10. ASSUME NEW k \in 1..(Len(path[u]) - 1) PROVE path[u][k + 1] \in next[path[u][k]]
    <3>1. k \in 1..m /\ (k = m \/ (k \in 1..(m - 1) /\ k + 1 \in 1..m))
      BY <2>3, <2>6
    <3>2. CASE k = m
      BY <2>3, <2>5, <2>6, <3>1, <3>2
    <3>3. CASE k \in 1..(m - 1) /\ k + 1 \in 1..m
      BY <2>4, <2>6, <3>1, <3>3
    <3>4. QED
      BY <3>1, <3>2, <3>3
  <2>11. QED
    BY <2>7, <2>8, <2>9, <2>10 DEF Way
<1> HIDE DEF Right
<1>4. 0 \in N
  <2>1. ASSUME NEW u \in DOMAIN c, c[u] <= 0 PROVE Right(path[u], u)
    <3>1. u \notin DOMAIN par
      <4>1. ASSUME u \in DOMAIN par PROVE FALSE
        <5>1. c[par[u]] < c[u] /\ c[par[u]] \in Nat /\ c[u] \in Nat
          BY <1>1, <4>1
        <5>2. QED
          BY <2>1, <5>1
      <4>2. QED
        BY <4>1
    <3>2. QED
      BY <1>1, <1>2, <3>1
  <2>2. QED
    BY <2>1
<1>5. ASSUME NEW n \in Nat, n \in N PROVE n + 1 \in N
  <2>1. ASSUME NEW u \in DOMAIN c, c[u] <= n + 1 PROVE Right(path[u], u)
    <3>1. CASE u \in DOMAIN par
      <4>1. par[u] \in DOMAIN c /\ c[par[u]] < c[u] /\ c[par[u]] \in Nat /\ c[u] \in Nat
        BY <1>1, <3>1
      <4>2. c[par[u]] <= n
        BY <2>1, <4>1
      <4>3. Right(path[par[u]], par[u])
        BY <1>5, <4>1, <4>2
      <4>4. QED
        BY <1>3, <3>1, <4>3
    <3>2. CASE u \notin DOMAIN par
      BY <1>1, <1>2, <3>2
    <3>3. QED
      BY <3>1, <3>2
  <2>2. QED
    BY <2>1
<1> HIDE DEF N
<1>6. c[t] \in N
  BY <1>1, <1>4, <1>5, AllNaturals
<1>7. Right(path[t], t)
  BY <1>1, <1>6 DEF N
<1>8. QED
  BY <1>7 DEF Right

\* While no queued entry promises less than a total, what k moves reach has a cost of k at most,
\* or is not on a way of less than that total.
LEMMA ReachFacts ==
  ASSUME NEW c, NEW par, NEW q, NEW obs, NEW des, NEW good, NEW next, NEW left,
         Searched(c, par, q, obs, des, good, next, left),
         \A l \in good : \A b \in next[l] : left[l] <= left[b] + 1,
         NEW total \in Nat, \A e \in q : e.total >= total,
         NEW n \in Nat, NEW reached, reached[0] = {obs},
         \A k \in 1..n : reached[k] = reached[k - 1] \cup UNION {next[l] : l \in reached[k - 1] \cap good},
         NEW l \in reached[n]
  PROVE  l \in good /\ ((l \in DOMAIN c /\ c[l] <= n) \/ n + left[l] >= total)
<1> DEFINE Met(a, k) == a \in good /\ ((a \in DOMAIN c /\ c[a] <= k) \/ k + left[a] >= total)
           N == {k \in Nat : k <= n => \A a \in reached[k] : Met(a, k)}
<1>0. /\ next \in [good -> SUBSET good] /\ left \in [good -> Nat] /\ DOMAIN c \in SUBSET good
      /\ obs \in DOMAIN c /\ c[obs] = 0 /\ \A t \in DOMAIN c : c[t] \in Nat
      /\ \A e \in q : e.lineup \in DOMAIN c /\ e.total = e.cost + left[e.lineup]
      /\ \A t \in DOMAIN c :
           \/ \E e \in q : e.lineup = t /\ e.cost = c[t]
           \/ t # des /\ \A u \in next[t] : u \in DOMAIN c /\ c[u] <= c[t] + 1
  BY DEF Searched
<1>1. 0 \in N
  BY <1>0
<1>2. ASSUME NEW k \in Nat, k \in N PROVE k + 1 \in N
  <2>1. SUFFICES ASSUME k + 1 <= n, NEW a \in reached[k + 1] PROVE Met(a, k + 1)
    OBVIOUS
  <2>2. k + 1 \in 1..n /\ (k + 1) - 1 = k /\ \A b \in reached[k] : Met(b, k)
    BY <1>2, <2>1
  <2>3. reached[k + 1] = reached[k] \cup UNION {next[b] : b \in reached[k] \cap good}
    BY <2>2
  <2>4. CASE a \in reached[k]
    <3>1. Met(a, k)
      BY <2>2, <2>4
    <3>2. (a \in DOMAIN c => c[a] \in Nat) /\ left[a] \in Nat
      BY <1>0, <3>1
    <3>3. QED
      BY <3>1, <3>2
  <2>5. CASE \E b \in reached[k] \cap good : a \in next[b]
    <3>1. PICK b \in reached[k] : b \in good /\ a \in next[b] /\ Met(b, k)
      BY <2>2, <2>5
    <3>2. a \in good /\ left[a] \in Nat /\ left[b] \in Nat /\ left[b] <= left[a] + 1
      BY <1>0, <3>1
    <3>3. CASE k + left[b] >= total
      BY <3>2, <3>3
    <3>4. CASE b \in DOMAIN c /\ c[b] <= k /\ ~(k + left[b] >= total)
      <4>1. c[b] \in Nat /\ c[b] + left[b] < total
        BY <1>0, <3>2, <3>4
      <4>2. ASSUME NEW e \in q, e.lineup = b, e.cost = c[b] PROVE FALSE
        <5>1. e.total = c[b] + left[b] /\ e.total >= total
          BY <1>0, <4>2
        <5>2. QED
          BY <3>2, <4>1, <5>1
      <4>3. a \in DOMAIN c /\ c[a] <= c[b] + 1
        BY <1>0, <3>1, <3>4, <4>2
      <4>4. c[a] \in Nat /\ c[a] <= k + 1
        BY <1>0, <3>4, <4>1, <4>3
      <4>5. QED
        BY <3>2, <4>3, <4>4
    <3>5. QED
      BY <3>1, <3>3, <3>4
  <2>6. QED
    BY <2>1, <2>3, <2>4, <2>5
<1> HIDE DEF N
<1>3. n \in N
  BY <1>1, <1>2, AllNaturals
<1>4. QED
  BY <1>3 DEF N

\* What is said of the paths and of the lineups in reach is defined by recursion; the recursions
\* have their values.
LEMMA PathExists ==
  ASSUME NEW obs, NEW des, NEW good \in SUBSET Lineup, NEW next, NEW left,
         Searched(costs, parents, queue, obs, des, good, next, left)
  PROVE  Backwards(Path, parents)
<1> DEFINE Back(f, l) == IF l \in DOMAIN parents THEN Append(f[parents[l]], l) ELSE <<l>>
           measure == [l \in Lineup |-> IF l \in DOMAIN costs THEN costs[l] ELSE 0]
           leaf == Lineup \ DOMAIN parents
           up == [l \in Lineup |-> IF l \in DOMAIN parents THEN parents[l] ELSE l]
           first == [l \in Lineup |-> <<l>>]
           step == [l \in Lineup |-> [s \in Seq(Lineup) |-> Append(s, l)]]
<1>0. /\ DOMAIN costs \subseteq Lineup /\ Cardinality(DOMAIN costs) \in Nat
      /\ Cardinality(DOMAIN costs) <= MaxSearchStates /\ MaxSearchStates \in Nat
      /\ \A t \in DOMAIN costs : costs[t] \in Nat /\ costs[t] < Cardinality(DOMAIN costs)
      /\ DOMAIN parents \subseteq DOMAIN costs
      /\ \A t \in DOMAIN parents : parents[t] \in DOMAIN costs /\ costs[parents[t]] < costs[t]
  BY FS_CardinalityType, LineupAssumption DEF Searched
<1>1. Descends(Lineup, Seq(Lineup), MaxSearchStates, measure, leaf, up, first, step)
  <2>1. measure \in [Lineup -> 0..MaxSearchStates]
    BY <1>0
  <2>2. up \in [Lineup -> Lineup] /\ \A l \in Lineup \ leaf : measure[up[l]] < measure[l]
    BY <1>0
  <2>3. first \in [Lineup -> Seq(Lineup)] /\ step \in [Lineup -> [Seq(Lineup) -> Seq(Lineup)]]
    OBVIOUS
  <2>4. leaf \subseteq Lineup
    OBVIOUS
  <2> HIDE DEF measure, leaf, up, first, step
  <2>5. QED
    BY <1>0, <2>1, <2>2, <2>3, <2>4 DEF Descends
<1>2. PICK f : Computes(f, Lineup, Seq(Lineup), leaf, up, first, step)
  <2> HIDE DEF measure, leaf, up, first, step
  <2>1. QED
    BY <1>1, Recursion
<1>3. /\ f \in [Lineup -> Seq(Lineup)]
      /\ f = [l \in Lineup |-> IF l \in leaf THEN first[l] ELSE step[l][f[up[l]]]]
  BY <1>2 DEF Computes
<1>4. ASSUME NEW l \in Lineup PROVE f[l] = Back(f, l)
  <2>1. CASE l \in leaf
    BY <1>3, <2>1
  <2>2. CASE l \notin leaf
    <3>1. parents[l] \in Lineup /\ f[parents[l]] \in Seq(Lineup) /\ l \in DOMAIN parents
      BY <1>0, <1>3, <2>2
    <3>2. f[l] = step[l][f[up[l]]] /\ up[l] = parents[l]
      BY <1>3, <2>2, <3>1
    <3>3. QED
      BY <3>1, <3>2
  <2>3. QED
    BY <2>1, <2>2
<1> HIDE DEF Back
<1>5. f = [l \in Lineup |-> Back(f, l)]
  BY <1>3, <1>4
<1>6. Path = [l \in Lineup |-> Back(Path, l)]
  BY <1>5, Zenon DEF Path, Back
<1>7. \A l \in Lineup : Path[l] = Back(Path, l)
  BY <1>6
<1>8. \A l \in Lineup : Path[l] \in Seq(Lineup)
  <2> DEFINE N == {n \in Nat : \A l \in DOMAIN costs : costs[l] <= n => Path[l] \in Seq(Lineup)}
  <2>1. ASSUME NEW l \in Lineup, l \notin DOMAIN parents PROVE Path[l] \in Seq(Lineup)
    <3>1. Path[l] = <<l>>
      BY <1>7, <2>1 DEF Back
    <3>2. QED
      BY <3>1
  <2>2. 0 \in N
    <3>1. \A l \in DOMAIN costs : costs[l] <= 0 => l \notin DOMAIN parents
      <4>1. ASSUME NEW l \in DOMAIN costs, costs[l] <= 0, l \in DOMAIN parents PROVE FALSE
        <5>1. costs[parents[l]] < costs[l] /\ costs[parents[l]] \in Nat /\ costs[l] \in Nat
          BY <1>0, <4>1
        <5>2. QED
          BY <4>1, <5>1
      <4>2. QED
        BY <4>1
    <3>2. QED
      BY <1>0, <2>1, <3>1
  <2>3. ASSUME NEW n \in Nat, n \in N PROVE n + 1 \in N
    <3>1. ASSUME NEW l \in DOMAIN costs, costs[l] <= n + 1 PROVE Path[l] \in Seq(Lineup)
      <4>1. CASE l \in DOMAIN parents
        <5>1. /\ parents[l] \in DOMAIN costs /\ costs[parents[l]] < costs[l]
              /\ costs[parents[l]] \in Nat /\ costs[l] \in Nat
          BY <1>0, <4>1
        <5>2. costs[parents[l]] <= n
          BY <3>1, <5>1
        <5>3. Path[parents[l]] \in Seq(Lineup)
          BY <2>3, <5>1, <5>2
        <5>4. Path[l] = Append(Path[parents[l]], l) /\ l \in Lineup
          BY <1>0, <1>7, <4>1 DEF Back
        <5>5. QED
          BY <5>3, <5>4
      <4>2. CASE l \notin DOMAIN parents
        BY <1>0, <2>1, <4>2
      <4>3. QED
        BY <4>1, <4>2
    <3>2. QED
      BY <3>1
  <2> HIDE DEF N
  <2>4. Nat \subseteq N
    BY <2>2, <2>3, AllNaturals
  <2>5. ASSUME NEW l \in DOMAIN costs PROVE Path[l] \in Seq(Lineup)
    BY <1>0, <2>4 DEF N
  <2>6. QED
    BY <1>0, <2>1, <2>5
<1>9. Path \in [Lineup -> Seq(Lineup)]
  BY <1>6, <1>8
<1>10. QED
  BY <1>7, <1>9 DEF Back, Backwards

\* What n actions of the app can reach is what a recursion along n gathers.
LEMMA WithinExists ==
  ASSUME request \in Request, NEW n \in Nat
  PROVE  \E reached :
           /\ Within(n) = reached[n] /\ reached[0] = {request.observed}
           /\ \A k \in 1..n : reached[k] = reached[k - 1] \cup UNION {LegalSteps(l) : l \in reached[k - 1]}
<1> DEFINE reached[k \in 0..n] ==
             IF k = 0 THEN {request.observed}
             ELSE reached[k - 1] \cup UNION {LegalSteps(l) : l \in reached[k - 1]}
           Wider(S) == S \cup UNION {LegalSteps(l) : l \in S}
           step == [k \in 1..n |-> [S \in SUBSET Lineup |-> Wider(S)]]
<1>1. ASSUME NEW l \in Lineup PROVE LegalSteps(l) \in SUBSET Lineup
  <2>1. ASSUME NEW i \in Open, NEW p \in Movable \cup {Empty} PROVE [l EXCEPT ![i] = p] \in Lineup
    BY DEF Lineup, Movable, Open
  <2>2. ASSUME NEW i \in Open, NEW j \in Open PROVE [l EXCEPT ![i] = l[j], ![j] = l[i]] \in Lineup
    BY DEF Lineup, Open
  <2>3. LegalSteps(l) \subseteq
          {[l EXCEPT ![i] = p] : i \in Open, p \in (Movable \ Starting(l, Slot)) \cup {Empty}}
          \cup {[l EXCEPT ![i] = l[j], ![j] = l[i]] : i \in Open, j \in Open}
    BY DEF LegalSteps
  <2>4. QED
    BY <2>1, <2>2, <2>3
<1>2. Climbs(n, SUBSET Lineup, {request.observed}, step)
  <2>1. \A S \in SUBSET Lineup : Wider(S) \in SUBSET Lineup
    BY <1>1
  <2>2. {request.observed} \in SUBSET Lineup
    BY DEF Request
  <2> HIDE DEF Wider
  <2>3. QED
    BY <2>1, <2>2 DEF Climbs
<1>3. PICK f : Reaches(f, n, SUBSET Lineup, {request.observed}, step)
  <2> HIDE DEF step
  <2>1. QED
    BY <1>2, Upward
<1> HIDE DEF Wider
<1>4. f = [k \in 0..n |-> IF k = 0 THEN {request.observed} ELSE Wider(f[k - 1])]
  <2>0. /\ f \in [0..n -> SUBSET Lineup]
        /\ f = [k \in 0..n |-> IF k = 0 THEN {request.observed} ELSE step[k][f[k - 1]]]
    BY <1>3 DEF Reaches
  <2>1. ASSUME NEW k \in 0..n, k # 0 PROVE step[k][f[k - 1]] = Wider(f[k - 1])
    <3>1. k \in 1..n /\ k - 1 \in 0..n
      BY <2>1
    <3>2. f[k - 1] \in SUBSET Lineup
      BY <2>0, <3>1
    <3>3. QED
      BY <3>1, <3>2
  <2> HIDE DEF step
  <2>2. QED
    BY <2>0, <2>1
<1>5. reached = [k \in 0..n |-> IF k = 0 THEN {request.observed} ELSE Wider(reached[k - 1])]
  BY <1>4, Zenon DEF Wider
<1>6. Within(n) = reached[n]
  BY Zenon DEF Within
<1> HIDE DEF reached
<1>7. reached[0] = {request.observed} /\ \A k \in 1..n : reached[k] = Wider(reached[k - 1])
  <2>1. 0 \in 0..n /\ \A k \in 1..n : k \in 0..n /\ k # 0
    OBVIOUS
  <2>2. QED
    BY <1>5, <2>1
<1>8. QED
  BY <1>6, <1>7 DEF Wider

-----------------------------------------------------------------------------
(* The request and its answer *)

Good == {l \in Lineup : Sound(l)}
Onward == [l \in Good |-> Neighbors(l)]
Left == [l \in Good |-> Remaining(l)]

\* The state of the roster a request starts from.
Asked ==
  /\ request \in Request /\ Sound(request.observed)
Idle == DOMAIN costs = {} /\ DOMAIN parents = {} /\ queue = {} /\ verdict \in {"none", "asked", "refused"}
\* The search, and what the verdicts say of it.
Busy ==
  /\ Searched(costs, parents, queue, request.observed, request.desired, Good, Onward, Left)
  /\ verdict \in {"search", "found", "impossible", "limit", "refused"}
  /\ verdict = "found" =>
       /\ request.desired \in DOMAIN costs
       /\ request.desired # request.observed => \A e \in queue : e.total >= costs[request.desired]
  /\ verdict = "impossible" => queue = {} \/ BenchCount(request.desired) > BenchCapacity
LineupInv == Asked /\ (Idle \/ Busy)

\* The moves and the estimates are as the search needs them.
LEMMA GoodFacts ==
  ASSUME Asked
  PROVE  /\ request.observed \in Good /\ Good \in SUBSET Lineup
         /\ Onward \in [Good -> SUBSET Good] /\ Left \in [Good -> Nat]
         /\ \A l \in Good : /\ Sound(l) /\ Onward[l] = Neighbors(l) /\ Onward[l] = LegalSteps(l)
                            /\ Left[l] = Remaining(l)
         /\ \A l \in Good : \A b \in Onward[l] : Left[l] <= Left[b] + 1
         /\ request.desired \in Good => Left[request.desired] = 0
<1>1. request \in Request /\ request.observed \in Good /\ Good \in SUBSET Lineup /\ \A l \in Good : Sound(l)
  BY DEF Asked, Good, Sound
<1>2. ASSUME NEW l \in Good PROVE Neighbors(l) \in SUBSET Good /\ Remaining(l) \in Nat
  <2>1. \A b \in Neighbors(l) : Sound(b)
    BY <1>1, NeighborFacts
  <2>2. Remaining(l) \in Nat
    BY <1>1, RemainingFacts
  <2>3. QED
    BY <2>1, <2>2 DEF Good, Sound
<1>3. ASSUME NEW l \in Good PROVE Neighbors(l) = LegalSteps(l)
  <2>1. \A b : b \in Neighbors(l) <=> b \in LegalSteps(l)
    BY <1>1, NeighborsAreLegal
  <2>2. QED
    BY <2>1
<1>4. \A l \in Good : Onward[l] = Neighbors(l) /\ Left[l] = Remaining(l)
  BY DEF Onward, Left
<1>5. Onward \in [Good -> SUBSET Good] /\ Left \in [Good -> Nat]
  <2> HIDE DEF Good
  <2>1. QED
    BY <1>2 DEF Onward, Left
<1>6. ASSUME NEW l \in Good, NEW b \in Onward[l] PROVE Left[l] <= Left[b] + 1
  <2>1. b \in Neighbors(l) /\ b \in Good
    BY <1>2, <1>4
  <2>2. Remaining(l) <= Remaining(b) + 1
    BY <1>1, <2>1, RemainingFacts
  <2>3. QED
    BY <1>4, <2>1, <2>2
<1>7. ASSUME request.desired \in Good PROVE Left[request.desired] = 0
  BY <1>1, <1>4, <1>7, RemainingFacts
<1>8. QED
  BY <1>1, <1>3, <1>4, <1>5, <1>6, <1>7

\* The moves of a plan can be made.
LEMMA FoundIsExecutable == LineupInv => PlanIsExecutable
<1>1. SUFFICES ASSUME LineupInv, verdict = "found" PROVE
        LET path == Path[request.desired] IN
        /\ path[1] = request.observed
        /\ \A k \in 1..(Len(path) - 1) :
             LET m == MoveFrom(path[k], path[k + 1]) IN
             /\ path[k + 1] \in LegalSteps(path[k])
             /\ Applies(path[k], m) /\ Applied(path[k], m) = path[k + 1]
  BY DEF PlanIsExecutable
<1>2. Asked /\ Busy /\ request.desired \in DOMAIN costs
  BY <1>1 DEF LineupInv, Idle, Busy
<1>3. Searched(costs, parents, queue, request.observed, request.desired, Good, Onward, Left)
  BY <1>2 DEF Busy
<1>4. /\ Good \in SUBSET Lineup /\ DOMAIN costs \in SUBSET Good /\ request \in Request
      /\ \A l \in Good : Sound(l) /\ Onward[l] = Neighbors(l) /\ Onward[l] = LegalSteps(l)
  BY <1>2, <1>3, GoodFacts DEF Searched, Asked
<1> DEFINE path == Path[request.desired]
<1> HIDE DEF Good, Onward, Left
<1>5. Backwards(Path, parents)
  BY <1>3, <1>4, PathExists
<1>6. /\ Len(path) \in Nat \ {0} /\ path[1] = request.observed
      /\ \A k \in 1..Len(path) : path[k] \in DOMAIN costs
      /\ \A k \in 1..(Len(path) - 1) : path[k + 1] \in Onward[path[k]]
  <2>1. Way(path, request.desired, costs, request.observed, Onward)
    BY <1>2, <1>3, <1>4, <1>5, PathFacts
  <2>2. QED
    BY <2>1 DEF Way
<1> HIDE DEF path
<1>7. ASSUME NEW k \in 1..(Len(path) - 1)
      PROVE  /\ path[k + 1] \in LegalSteps(path[k])
             /\ Applies(path[k], MoveFrom(path[k], path[k + 1]))
             /\ Applied(path[k], MoveFrom(path[k], path[k + 1])) = path[k + 1]
  <2>1. k \in 1..Len(path)
    BY <1>6
  <2>2. Sound(path[k]) /\ path[k + 1] \in Neighbors(path[k]) /\ path[k + 1] \in LegalSteps(path[k])
    BY <1>4, <1>6, <2>1
  <2>3. QED
    BY <1>4, <2>2, MoveApplies
<1>8. QED
  BY <1>6, <1>7 DEF path

\* No shorter plan exists, and what is called impossible is out of reach.
LEMMA AnswerIsExact == LineupInv => SearchIsExact
<1> DEFINE des == request.desired
           obs == request.observed
<1>1. ASSUME LineupInv, Busy, NEW n \in Nat, des \in Within(n),
             NEW total \in Nat, \A e \in queue : e.total >= total
      PROVE  des \in Good /\ ((des \in DOMAIN costs /\ costs[des] <= n) \/ n + Left[des] >= total)
  <2>1. Asked /\ request \in Request
    BY <1>1 DEF LineupInv, Asked
  <2>2. Searched(costs, parents, queue, obs, des, Good, Onward, Left)
    BY <1>1 DEF Busy
  <2>3. /\ Onward \in [Good -> SUBSET Good] /\ obs \in Good
        /\ \A l \in Good : Onward[l] = LegalSteps(l)
        /\ \A l \in Good : \A b \in Onward[l] : Left[l] <= Left[b] + 1
    BY <2>1, GoodFacts
  <2>4. PICK reached :
          /\ Within(n) = reached[n] /\ reached[0] = {obs}
          /\ \A k \in 1..n : reached[k] = reached[k - 1] \cup UNION {LegalSteps(l) : l \in reached[k - 1]}
    BY <2>1, WithinExists
  <2> HIDE DEF Good, Onward, Left
  <2> DEFINE N == {k \in Nat : k <= n => reached[k] \in SUBSET Good}
  <2>5. \A k \in 0..n : reached[k] \in SUBSET Good
    <3>1. 0 \in N
      BY <2>3, <2>4
    <3>2. ASSUME NEW k \in Nat, k \in N PROVE k + 1 \in N
      <4>1. SUFFICES ASSUME k + 1 <= n PROVE reached[k + 1] \in SUBSET Good
        OBVIOUS
      <4>2. k + 1 \in 1..n /\ (k + 1) - 1 = k /\ reached[k] \in SUBSET Good
        BY <3>2, <4>1
      <4>3. reached[k + 1] = reached[k] \cup UNION {LegalSteps(l) : l \in reached[k]}
        BY <2>4, <4>2
      <4>4. \A l \in reached[k] : LegalSteps(l) \in SUBSET Good
        BY <2>3, <4>2
      <4>5. QED
        BY <4>2, <4>3, <4>4
    <3> HIDE DEF N
    <3>3. Nat \subseteq N
      BY <3>1, <3>2, AllNaturals
    <3>4. QED
      BY <3>3 DEF N
  <2>6. ASSUME NEW k \in 1..n
        PROVE  reached[k] = reached[k - 1] \cup UNION {Onward[l] : l \in reached[k - 1] \cap Good}
    <3>1. reached[k - 1] \in SUBSET Good
      <4>1. k - 1 \in 0..n
        OBVIOUS
      <4>2. QED
        BY <2>5, <4>1
    <3>2. \A l \in reached[k - 1] : l \in Good /\ Onward[l] = LegalSteps(l)
      BY <2>3, <3>1
    <3>3. UNION {LegalSteps(l) : l \in reached[k - 1]} = UNION {Onward[l] : l \in reached[k - 1] \cap Good}
      BY <3>2
    <3>4. QED
      BY <2>4, <3>3
  <2>7. des \in reached[n]
    BY <1>1, <2>4
  <2> HIDE DEF des, obs
  <2>8. QED
    BY <1>1, <2>2, <2>3, <2>4, <2>6, <2>7, ReachFacts
<1>2. ASSUME LineupInv, verdict = "found", des # obs, des \in Within(Len(Path[des]) - 2) PROVE FALSE
  <2>1. Asked /\ Busy /\ des \in DOMAIN costs /\ \A e \in queue : e.total >= costs[des]
    BY <1>2 DEF LineupInv, Idle, Busy
  <2>2. Searched(costs, parents, queue, obs, des, Good, Onward, Left)
    BY <2>1 DEF Busy
  <2>3. Good \in SUBSET Lineup
    BY <2>1, GoodFacts
  <2>4. DOMAIN costs \in SUBSET Good /\ costs[des] \in Nat
    BY <2>1, <2>2 DEF Searched
  <2>5. Left[des] = 0
    BY <2>1, <2>4, GoodFacts
  <2> HIDE DEF Good, Onward, Left
  <2>6. Backwards(Path, parents)
    BY <2>2, <2>3, PathExists
  <2> DEFINE path == Path[des]
  <2>7. /\ Len(path) \in Nat \ {0} /\ Len(path) - 1 <= costs[des]
        /\ path[1] = obs /\ path[Len(path)] = des
    <3>1. Way(path, des, costs, obs, Onward)
      BY <2>1, <2>2, <2>3, <2>6, PathFacts
    <3>2. QED
      BY <3>1 DEF Way
  <2> DEFINE size == Len(path)
             cost == costs[des]
  <2> HIDE DEF path
  <2>8. Len(path) # 1
    BY <1>2, <2>7
  <2>9. Len(path) - 2 \in Nat /\ Len(path) - 2 < costs[des]
    <3>1. size \in Nat \ {0} /\ size - 1 <= cost /\ size # 1 /\ cost \in Nat
      BY <2>4, <2>7, <2>8
    <3> HIDE DEF size, cost
    <3>2. size - 2 \in Nat /\ size - 2 < cost
      BY <3>1
    <3>3. QED
      BY <3>2 DEF size, cost
  <2>10. costs[des] <= Len(path) - 2 \/ (Len(path) - 2) + Left[des] >= costs[des]
    BY <1>1, <1>2, <2>1, <2>4, <2>9 DEF path
  <2>11. QED
    BY <2>4, <2>5, <2>7, <2>9, <2>10
<1>3. ASSUME LineupInv, verdict = "impossible", BenchCount(des) <= BenchCapacity,
             des \in Within(2 * Cardinality(Slot) + 1)
      PROVE  FALSE
  <2> DEFINE n == 2 * Cardinality(Slot) + 1
  <2>1. n \in Nat
    BY SlotFacts, FS_CardinalityType
  <2>2. Asked /\ Busy
    BY <1>3 DEF LineupInv, Idle
  <2>3. BenchCount(des) \in Int /\ BenchCapacity \in Int
    BY <2>2, BenchFacts, CapacityFacts DEF Asked, Request
  <2>4. queue = {}
    BY <1>3, <2>2, <2>3 DEF Busy
  <2> HIDE DEF n
  <2>5. \A total \in Nat : des \in Good /\ ((des \in DOMAIN costs /\ costs[des] <= n) \/ n + Left[des] >= total)
    BY <1>1, <1>3, <2>1, <2>2, <2>4 DEF n
  <2>6. des \in Good /\ Left[des] = 0
    BY <2>2, <2>5, GoodFacts
  <2>7. des \in DOMAIN costs
    <3>1. n + 1 \in Nat /\ ~(n + 0 >= n + 1)
      BY <2>1
    <3>2. QED
      BY <2>5, <2>6, <3>1
  <2>8. \E e \in queue : e.lineup = des /\ e.cost = costs[des]
    BY <2>2, <2>7 DEF Busy, Searched
  <2>9. QED
    BY <2>4, <2>8
<1>4. QED
  BY <1>2, <1>3 DEF SearchIsExact

\* The request decides what may be moved where.
LEMMA SameRequest ==
  ASSUME request' = request
  PROVE  /\ Asked' <=> Asked
         /\ Good' = Good /\ Onward' = Onward /\ Left' = Left
         /\ BenchCount(request.desired)' = BenchCount(request.desired) /\ BenchCapacity' = BenchCapacity
<1>1. /\ Open' = Open /\ LockedPlayers' = LockedPlayers /\ OpenStarters' = OpenStarters
  BY DEF Open, LockedPlayers, OpenStarters
<1>2. Movable' = Movable
  BY <1>1 DEF Movable
<1>3. Protected' = Protected
  BY <1>1 DEF Protected
<1>4. \A l : BenchCount(l)' = BenchCount(l)
  BY <1>1, <1>2 DEF BenchCount
<1>5. BenchCount(request.desired)' = BenchCount(request.desired) /\ BenchCapacity' = BenchCapacity
  BY <1>1, <1>2 DEF BenchCount, BenchCapacity
<1>6. \A l : Sound(l)' <=> Sound(l)
  BY <1>1, <1>2 DEF Sound
<1>7. Good' = Good
  BY <1>6 DEF Good
<1>8. Asked' <=> Asked
  BY <1>1, <1>2 DEF Asked, Sound
<1>9. \A l, p, i : MayExchange(l, p, i)' <=> MayExchange(l, p, i)
  BY <1>1, <1>3 DEF MayExchange, Eligible
<1>10. \A l : Neighbors(l)' = Neighbors(l)
  BY <1>1, <1>2, <1>3, <1>4, <1>5, <1>9 DEF Neighbors
<1>11. \A l : Remaining(l)' = Remaining(l)
  BY <1>1 DEF Remaining, Mismatches
<1>12. Onward' = Onward
  BY <1>7, <1>10 DEF Onward
<1>13. Left' = Left
  BY <1>7, <1>11 DEF Left
<1>14. QED
  BY <1>5, <1>7, <1>8, <1>12, <1>13

\* A lineup has finitely many neighbours.
LEMMA NeighborsAreFinite ==
  ASSUME NEW l
  PROVE  IsFiniteSet(Neighbors(l))
<1> DEFINE M == {m \in Movable \X Open : MayExchange(l, m[1], m[2])}
           I == {i \in Open : BenchCount(l) < BenchCapacity /\ l[i] \notin Protected \cup {Empty}}
           f == [m \in M |-> Exchanged(l, m[1], m[2])]
           g == [i \in I |-> [l EXCEPT ![i] = Empty]]
<1>1. IsFiniteSet(Movable) /\ IsFiniteSet(Open)
  BY SlotFacts, FS_Subset DEF Movable, Open
<1>2. IsFiniteSet(Movable \X Open)
  BY <1>1, FS_Product
<1>3. IsFiniteSet(M) /\ IsFiniteSet(I)
  BY <1>1, <1>2, FS_Subset
<1>4. Neighbors(l) = {f[m] : m \in M} \cup {g[i] : i \in I}
  BY DEF Neighbors
<1> HIDE DEF f, g, M, I
<1>5. IsFiniteSet({f[m] : m \in M}) /\ IsFiniteSet({g[i] : i \in I})
  BY <1>3, FiniteImage
<1>6. QED
  BY <1>4, <1>5, FS_Union

\* At the start nothing is asked, and the starters are where they may be.
LEMMA LineupStart == LineupInit => LineupInv
<1>1. SUFFICES ASSUME LineupInit PROVE LineupInv
  OBVIOUS
<1>2. PICK eligible \in [Athlete -> {SlotsFor(positions) : positions \in Eligibilities}],
           observed \in {l \in Lineup : WithoutRepeats(l)} :
       /\ \A i \in Slot : observed[i] # Empty => i \in eligible[observed[i]]
       /\ \E locked \in SUBSET {i \in Slot : observed[i] # Empty},
             reserve \in SUBSET (Athlete \ Starting(observed, Slot)),
             playing \in SUBSET Athlete, owed \in SUBSET Athlete, bench \in BenchLimits :
            /\ Cardinality(locked) + Cardinality(reserve) + Cardinality(playing)
                 + Cardinality(owed) <= Crowd
            /\ request = [eligible |-> eligible, observed |-> observed, locked |-> locked,
                          reserve |-> reserve, playing |-> playing, owed |-> owed,
                          bench |-> bench, desired |-> observed]
  BY <1>1 DEF LineupInit
<1>3. PICK locked \in SUBSET {i \in Slot : observed[i] # Empty},
           reserve \in SUBSET (Athlete \ Starting(observed, Slot)),
           playing \in SUBSET Athlete, owed \in SUBSET Athlete, bench \in BenchLimits :
            /\ Cardinality(locked) + Cardinality(reserve) + Cardinality(playing)
                 + Cardinality(owed) <= Crowd
            /\ request = [eligible |-> eligible, observed |-> observed, locked |-> locked,
                          reserve |-> reserve, playing |-> playing, owed |-> owed,
                          bench |-> bench, desired |-> observed]
  BY <1>2
<1>4. request \in Request
  <2>1. eligible \in [Athlete -> SUBSET Slot]
    <3>1. \A positions : SlotsFor(positions) \in SUBSET Slot
      BY DEF SlotsFor
    <3>2. QED
      BY <3>1
  <2>2. observed \in Lineup /\ locked \in SUBSET Slot /\ reserve \in SUBSET Athlete
    OBVIOUS
  <2>3. QED
    BY <1>3, <2>1, <2>2 DEF Request
<1>5. Sound(request.observed)
  <2>1. /\ request.observed = observed /\ request.locked = locked /\ request.reserve = reserve
        /\ observed \in Lineup /\ WithoutRepeats(observed)
    BY <1>3
  <2>2. ASSUME NEW i \in Open, observed[i] # Empty PROVE observed[i] \in Movable
    <3>1. i \in Slot /\ i \notin locked /\ observed[i] \in Athlete
      BY <2>1, <2>2 DEF Open, Lineup
    <3>2. observed[i] \notin LockedPlayers
      BY <2>1, <2>2, <3>1 DEF LockedPlayers, Starting, WithoutRepeats
    <3>3. observed[i] \notin reserve
      BY <2>2, <3>1 DEF Starting
    <3>4. QED
      BY <2>1, <3>1, <3>2, <3>3 DEF Movable
  <2>3. QED
    BY <2>1, <2>2 DEF Sound
<1>6. Idle
  <2>1. costs = << >> /\ parents = << >> /\ queue = {} /\ verdict = "none"
    BY <1>1 DEF LineupInit
  <2>2. QED
    BY <2>1 DEF Idle
<1>7. QED
  BY <1>4, <1>5, <1>6 DEF LineupInv, Asked

\* A lineup may be asked for; the roster stays as it is.
LEMMA AskingKeeps ==
  ASSUME LineupInv, verdict = "none", NEW desired \in Lineup,
         NEW playing \in SUBSET Athlete, NEW owed \in SUBSET Athlete,
         request' = [request EXCEPT !.desired = desired, !.playing = playing, !.owed = owed],
         verdict' \in {"asked", "refused"}, UNCHANGED <<costs, parents, queue>>
  PROVE  LineupInv'
<1>1. request \in Request /\ Sound(request.observed) /\ Idle
  BY DEF LineupInv, Asked, Busy
<1>2. /\ request' \in Request /\ request'.observed = request.observed
      /\ request'.locked = request.locked /\ request'.reserve = request.reserve
  BY <1>1 DEF Request
<1>3. Open' = Open /\ LockedPlayers' = LockedPlayers
  BY <1>2 DEF Open, LockedPlayers
<1>4. Movable' = Movable
  BY <1>2, <1>3 DEF Movable
<1>5. Asked'
  BY <1>1, <1>2, <1>3, <1>4 DEF Asked, Sound
<1>6. Idle'
  BY <1>1 DEF Idle
<1>7. QED
  BY <1>5, <1>6 DEF LineupInv

\* The completion of an option is a lineup.
LEMMA AskOptionKeeps == LineupInv /\ AskOption => LineupInv'
<1>1. SUFFICES ASSUME LineupInv, AskOption PROVE LineupInv'
  OBVIOUS
<1>2. request \in Request /\ request.observed \in Lineup
  BY <1>1 DEF LineupInv, Asked, Request
<1>3. verdict = "none" /\ UNCHANGED <<costs, parents, queue>>
  BY <1>1 DEF AskOption
<1>4. PICK batch \in SUBSET (Movable \ request.playing) \ {{}} :
        \E placed \in [Slot -> batch \cup Starting(request.observed, Slot) \cup {Empty}] :
        \E desired \in Completed(placed, batch) :
          /\ request' = [request EXCEPT !.desired = desired]
          /\ verdict' \in {"asked", "refused"}
  BY <1>1 DEF AskOption
<1>5. PICK placed \in [Slot -> batch \cup Starting(request.observed, Slot) \cup {Empty}] :
        \E desired \in Completed(placed, batch) :
          /\ request' = [request EXCEPT !.desired = desired]
          /\ verdict' \in {"asked", "refused"}
  BY <1>4
<1>6. PICK desired \in Completed(placed, batch) :
          /\ request' = [request EXCEPT !.desired = desired]
          /\ verdict' \in {"asked", "refused"}
  BY <1>5
<1>7. desired \in Lineup
  <2>1. /\ batch \subseteq Athlete /\ Starting(request.observed, Slot) \subseteq Athlete
        /\ OpenStarters \subseteq Athlete
    BY <1>2 DEF Movable, Starting, OpenStarters, Lineup, Open
  <2>2. placed \in Lineup
    BY <2>1 DEF Lineup
  <2>3. Starting(placed, Slot) \subseteq Athlete /\ Retained(placed, batch) \subseteq Athlete
    BY <2>1, <2>2 DEF Starting, Lineup, Retained
  <2>4. Completions(placed, Retained(placed, batch)) \subseteq Lineup
    BY <2>3 DEF Completions, Lineup
  <2>5. \A i : Keeps(i, Retained(placed, batch)) \in Athlete \cup {Empty}
    BY <2>3 DEF Keeps
  <2> DEFINE free == {i \in Open : placed[i] = Empty}
             stay == Retained(placed, batch)
             kept == [i \in Slot |-> IF i \in free THEN Keeps(i, stay) ELSE placed[i]]
  <2>6. kept \in Lineup
    BY <2>2, <2>5 DEF Lineup
  <2>7. desired \in {kept} \/ desired \in Completions(placed, stay)
    BY DEF Completed
  <2> HIDE DEF kept, stay
  <2>8. QED
    BY <2>4, <2>6, <2>7 DEF stay
<1>8. request' = [request EXCEPT !.desired = desired, !.playing = request.playing, !.owed = request.owed]
  BY <1>2, <1>6 DEF Request
<1>9. request.playing \in SUBSET Athlete /\ request.owed \in SUBSET Athlete
  BY <1>2 DEF Request
<1>10. QED
  BY <1>1, <1>3, <1>6, <1>7, <1>8, <1>9, AskingKeeps

\* So is a lineup from before an attempt.
LEMMA AskReturnKeeps == LineupInv /\ AskReturn => LineupInv'
<1>1. SUFFICES ASSUME LineupInv, AskReturn PROVE LineupInv'
  OBVIOUS
<1>2. request \in Request
  BY <1>1 DEF LineupInv, Asked
<1>3. PICK desired \in Lineup,
           forfeited \in SUBSET ((request.playing \cup request.owed) \ LockedPlayers) :
        request' = [request EXCEPT !.desired = desired, !.playing = @ \ forfeited,
                                   !.owed = @ \ forfeited]
  BY <1>1 DEF AskReturn
<1>4. verdict = "none" /\ verdict' = "asked" /\ UNCHANGED <<costs, parents, queue>>
  BY <1>1 DEF AskReturn
<1> DEFINE playing == request.playing \ forfeited
           owed == request.owed \ forfeited
<1>5. /\ request' = [request EXCEPT !.desired = desired, !.playing = playing, !.owed = owed]
      /\ playing \in SUBSET Athlete /\ owed \in SUBSET Athlete
  BY <1>2, <1>3 DEF Request
<1> HIDE DEF playing, owed
<1>6. QED
  BY <1>1, <1>4, <1>5, AskingKeeps

\* A search starts with nothing but the observed lineup.
LEMMA PlanMovesKeeps == LineupInv /\ PlanMoves => LineupInv'
<1>1. SUFFICES ASSUME LineupInv, PlanMoves PROVE LineupInv'
  OBVIOUS
<1> DEFINE des == request.desired
           obs == request.observed
           e == Entry(obs, 0)
<1>2. Asked /\ Idle
  BY <1>1 DEF LineupInv, Busy, PlanMoves
<1>3. /\ verdict' = IF ~Acceptable THEN "refused" ELSE IF des = obs THEN "found"
                    ELSE IF BenchCount(des) > BenchCapacity THEN "impossible" ELSE "search"
      /\ costs' = [l \in {obs} |-> 0] /\ queue' = {e} /\ request' = request /\ parents' = parents
  BY <1>1 DEF PlanMoves
<1>4. Good' = Good /\ Onward' = Onward /\ Left' = Left /\ Asked'
      /\ BenchCount(des)' = BenchCount(des) /\ BenchCapacity' = BenchCapacity
  BY <1>2, <1>3, SameRequest
<1>5. /\ Onward \in [Good -> SUBSET Good] /\ Left \in [Good -> Nat] /\ obs \in Good
      /\ Left[obs] = Remaining(obs)
  BY <1>2, GoodFacts
<1>6. DOMAIN parents' = {} /\ e.lineup = obs /\ e.cost = 0 /\ e.total = 0 + Left[obs]
  BY <1>2, <1>3, <1>5 DEF Idle, Entry
<1> HIDE DEF e, Good, Onward, Left, des, obs
<1>7. Searched([l \in {obs} |-> 0], parents', {e}, obs, des, Good, Onward, Left)
  BY <1>5, <1>6, SearchStarts
<1>8. Searched(costs', parents', queue', request'.observed, request'.desired, Good', Onward', Left')
  BY <1>3, <1>4, <1>7 DEF obs, des
<1>9. verdict' = "found" => des = obs /\ obs \in DOMAIN costs'
  BY <1>3
<1>10. verdict' = "impossible" => BenchCount(des) > BenchCapacity
  BY <1>3
<1>11. verdict' \in {"search", "found", "impossible", "limit", "refused"}
  BY <1>3
<1>12. Busy'
  BY <1>3, <1>4, <1>8, <1>9, <1>10, <1>11 DEF Busy, des, obs
<1>13. QED
  BY <1>4, <1>12 DEF LineupInv

\* An entry that is out of date is dropped, the requested lineup ends the search when no entry is
\* sooner, and exploring a lineup is one step of the search.
LEMMA PopKeeps == LineupInv /\ Pop => LineupInv'
<1>1. SUFFICES ASSUME LineupInv, Pop PROVE LineupInv'
  OBVIOUS
<1> DEFINE des == request.desired
           obs == request.observed
<1>2. Asked /\ Busy /\ verdict = "search" /\ request' = request
  BY <1>1 DEF LineupInv, Idle, Pop
<1>3. Good' = Good /\ Onward' = Onward /\ Left' = Left /\ Asked'
  BY <1>2, SameRequest
<1>4. PICK e \in Foremost :
       IF e.cost # costs[e.lineup]
       THEN queue' = queue \ {e} /\ UNCHANGED <<costs, parents, verdict>>
       ELSE IF e.lineup = des
       THEN verdict' = "found" /\ UNCHANGED <<costs, parents, queue>>
       ELSE Explore(e)
  BY <1>1 DEF Pop
<1>5. e \in queue /\ \A f \in queue : ~Sooner(f, e)
  BY DEF Foremost
<1>6. Searched(costs, parents, queue, obs, des, Good, Onward, Left)
  BY <1>2 DEF Busy
<1>7. /\ Onward \in [Good -> SUBSET Good] /\ Left \in [Good -> Nat]
      /\ \A l \in Good : Onward[l] = Neighbors(l) /\ Left[l] = Remaining(l)
      /\ des \in Good => Left[des] = 0
  BY <1>2, GoodFacts
<1>8. /\ e.lineup \in DOMAIN costs /\ DOMAIN costs \in SUBSET Good /\ e.cost \in Nat
      /\ \A f \in queue : /\ f.lineup \in DOMAIN costs /\ f.cost \in Nat
                          /\ f.total = f.cost + Left[f.lineup]
  BY <1>5, <1>6 DEF Searched
<1> HIDE DEF Good, Onward, Left, des, obs
<1>9. /\ Searched(costs', parents', queue', obs, des, Good, Onward, Left)
      /\ verdict' \in {"search", "found", "limit"}
      /\ verdict' = "found" =>
           des \in DOMAIN costs' /\ \A f \in queue' : f.total >= costs'[des]
  <2>1. CASE e.cost # costs[e.lineup]
    <3>1. queue' = queue \ {e} /\ costs' = costs /\ parents' = parents /\ verdict' = verdict
      BY <1>4, <2>1
    <3>2. Searched(costs, parents, queue \ {e}, obs, des, Good, Onward, Left)
      BY <1>5, <1>6, <2>1, SearchDrops
    <3>3. QED
      BY <1>2, <3>1, <3>2
  <2>2. CASE e.cost = costs[e.lineup] /\ e.lineup = des
    <3>1. verdict' = "found" /\ costs' = costs /\ parents' = parents /\ queue' = queue
      BY <1>4, <2>2
    <3>2. e.total = costs[des] /\ costs[des] \in Nat
      BY <1>5, <1>7, <1>8, <2>2
    <3>3. \A f \in queue : f.total >= costs[des]
      <4>1. SUFFICES ASSUME NEW f \in queue PROVE f.total >= costs[des]
        OBVIOUS
      <4>2. f.total \in Nat
        BY <1>7, <1>8
      <4>3. ~(f.total < e.total)
        BY <1>5 DEF Sooner
      <4>4. QED
        BY <3>2, <4>2, <4>3
    <3>4. QED
      BY <1>6, <1>8, <2>2, <3>1, <3>3
  <2>3. CASE e.cost = costs[e.lineup] /\ e.lineup # des
    <3> DEFINE better == Improved(e)
               more == {Entry(t, e.cost + 1) : t \in better}
    <3>1. Explore(e)
      BY <1>4, <2>3
    <3>2. CASE Cardinality(DOMAIN costs \cup better) > MaxSearchStates
      <4>1. verdict' = "limit" /\ costs' = costs /\ parents' = parents /\ queue' = queue
        BY <3>1, <3>2 DEF Explore
      <4>2. QED
        BY <1>6, <4>1
    <3>3. CASE ~(Cardinality(DOMAIN costs \cup better) > MaxSearchStates)
      <4>1. /\ costs' = Updated(costs, better, e.cost + 1)
            /\ parents' = Updated(parents, better, e.lineup)
            /\ queue' = (queue \ {e}) \cup more
            /\ verdict' = verdict
        BY <3>1, <3>3 DEF Explore
      <4>2. better = {t \in Onward[e.lineup] :
              e.cost + 1 < IF t \in DOMAIN costs THEN costs[t] ELSE MaxSearchStates + 1}
        BY <1>7, <1>8 DEF Improved
      <4>3. IsFiniteSet(better)
        BY NeighborsAreFinite, FS_Subset DEF Improved
      <4>4. Cardinality(DOMAIN costs \cup better) <= MaxSearchStates
        <5>1. IsFiniteSet(DOMAIN costs \cup better)
          BY <1>6, <4>3, FS_Union DEF Searched
        <5>2. Cardinality(DOMAIN costs \cup better) \in Nat /\ MaxSearchStates \in Nat
          BY <5>1, FS_CardinalityType, LineupAssumption
        <5>3. QED
          BY <3>3, <5>2
      <4>5. \A t \in better : t \in Good
        BY <1>7, <1>8, <4>2
      <4>6. /\ \A d \in more : /\ d.lineup \in better /\ d.cost = e.cost + 1
                               /\ d.total = e.cost + 1 + Left[d.lineup]
            /\ \A t \in better : \E d \in more : d.lineup = t
        <5> HIDE DEF better
        <5>1. ASSUME NEW t \in better
              PROVE  /\ Entry(t, e.cost + 1).lineup = t /\ Entry(t, e.cost + 1).cost = e.cost + 1
                     /\ Entry(t, e.cost + 1).total = e.cost + 1 + Left[t]
          BY <1>7, <4>5 DEF Entry
        <5>2. QED
          BY <5>1
      <4> HIDE DEF better, more
      <4>7. Searched(Updated(costs, better, e.cost + 1), Updated(parents, better, e.lineup),
                     (queue \ {e}) \cup more, obs, des, Good, Onward, Left)
        BY <1>5, <1>6, <2>3, <4>2, <4>3, <4>4, <4>6, SearchExplores
      <4>8. QED
        BY <1>2, <4>1, <4>7
    <3>4. QED
      BY <3>2, <3>3
  <2>4. QED
    BY <2>1, <2>2, <2>3
<1>10. Busy'
  BY <1>2, <1>3, <1>9 DEF Busy, obs, des
<1>11. QED
  BY <1>3, <1>10 DEF LineupInv

\* A search that runs out of entries ends.
LEMMA ExhaustedKeeps == LineupInv /\ Exhausted => LineupInv'
<1>1. SUFFICES ASSUME LineupInv, Exhausted PROVE LineupInv'
  OBVIOUS
<1>2. /\ Asked /\ Busy /\ queue = {} /\ verdict' = "impossible"
      /\ request' = request /\ costs' = costs /\ parents' = parents /\ queue' = queue
  BY <1>1 DEF LineupInv, Idle, Exhausted
<1>3. Good' = Good /\ Onward' = Onward /\ Left' = Left /\ Asked'
  BY <1>2, SameRequest
<1>4. Busy'
  BY <1>2, <1>3 DEF Busy
<1>5. QED
  BY <1>3, <1>4 DEF LineupInv

\* Every step keeps the invariant.
LEMMA LineupStep == LineupInv /\ [LineupNext]_LineupVars => LineupInv'
<1>1. SUFFICES ASSUME LineupInv, [LineupNext]_LineupVars PROVE LineupInv'
  OBVIOUS
<1>2. CASE UNCHANGED LineupVars
  <2>1. /\ request' = request /\ costs' = costs /\ parents' = parents /\ queue' = queue
        /\ verdict' = verdict
    BY <1>2 DEF LineupVars
  <2>2. /\ Good' = Good /\ Onward' = Onward /\ Left' = Left /\ (Asked' <=> Asked)
        /\ BenchCount(request.desired)' = BenchCount(request.desired) /\ BenchCapacity' = BenchCapacity
    BY <2>1, SameRequest
  <2>3. (Idle' <=> Idle) /\ (Busy => Busy')
    BY <2>1, <2>2 DEF Idle, Busy
  <2>4. QED
    BY <1>1, <2>2, <2>3 DEF LineupInv
<1>3. CASE LineupNext
  BY <1>1, <1>3, AskOptionKeeps, AskReturnKeeps, PlanMovesKeeps, PopKeeps, ExhaustedKeeps DEF LineupNext
<1>4. QED
  BY <1>1, <1>2, <1>3

\* The search only holds lineups, and its costs stay in its bounds.
THEOREM LineupTyped == LineupSpec => []LineupTypeOK
<1>1. LineupInv => LineupTypeOK
  <2>1. SUFFICES ASSUME LineupInv PROVE LineupTypeOK
    OBVIOUS
  <2>2. request \in Request
    BY <2>1 DEF LineupInv, Asked
  <2>3. CASE Idle
    BY <2>2, <2>3 DEF Idle, LineupTypeOK
  <2>4. CASE Busy
    <3>1. Searched(costs, parents, queue, request.observed, request.desired, Good, Onward, Left)
      BY <2>4 DEF Busy
    <3>2. /\ Cardinality(DOMAIN costs) \in Nat /\ Cardinality(DOMAIN costs) <= MaxSearchStates
          /\ MaxSearchStates \in Nat
      BY <3>1, FS_CardinalityType, LineupAssumption DEF Searched
    <3>3. \A l \in DOMAIN costs : costs[l] \in 0..MaxSearchStates
      BY <3>1, <3>2 DEF Searched
    <3>4. \A e \in queue : e.lineup \in DOMAIN costs /\ e.cost \in 0..MaxSearchStates
      BY <3>1, <3>2 DEF Searched
    <3>5. DOMAIN costs \subseteq Lineup /\ DOMAIN parents \subseteq DOMAIN costs
          /\ \A l \in DOMAIN parents : parents[l] \in DOMAIN costs
      BY <3>1 DEF Searched, Good
    <3>6. QED
      BY <2>2, <2>4, <3>3, <3>4, <3>5 DEF LineupTypeOK, Busy
  <2>5. QED
    BY <2>1, <2>3, <2>4 DEF LineupInv
<1>2. QED
  BY <1>1, LineupStart, LineupStep, PTL DEF LineupSpec

\* The moves of a plan can be made in the app one after the other, each legal when it is made,
\* and they lead to the lineup that was asked for: whatever the roster and its slots.
THEOREM PlansAreExecutable == LineupSpec => []PlanIsExecutable
BY FoundIsExecutable, LineupStart, LineupStep, PTL DEF LineupSpec

\* No shorter sequence of legal moves exists, and what is called impossible no legal sequence of
\* the length considered reaches.
THEOREM SearchesAreExact == LineupSpec => []SearchIsExact
BY AnswerIsExact, LineupStart, LineupStep, PTL DEF LineupSpec
==============================================================================
