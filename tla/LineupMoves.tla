------------------------------ MODULE LineupMoves ------------------------------
(***************************************************************************)
(* From the players a plan wants in the next games to the moves the owner  *)
(* is asked to make.  The placement of the next batch is completed with    *)
(* the starters that can stay, the complete lineup is checked against      *)
(* locks, reserves and games in progress, and a best-first search looks    *)
(* for a shortest sequence of swaps and moves each of which is legal when  *)
(* it is made.  The search runs over lineups; it is bounded and fails      *)
(* closed.                                                                 *)
(***************************************************************************)
EXTENDS Integers, Sequences, FiniteSets

CONSTANTS
  Athlete,      \* the players of the roster
  Empty,        \* no player: an empty slot
  SlotNames,    \* the names of the starting slots, by index
  Eligibilities,\* sets of positions a player may have
  Crowd,        \* bound: how many are locked, in reserve, playing or owed, all together
  BenchLimits,  \* bench capacities of the league; NoLimit when it is unknown
  NoLimit,
  MaxSearchStates

Slot == DOMAIN SlotNames
Lineup == [Slot -> Athlete \cup {Empty}]

ASSUME LineupAssumption ==
  /\ Empty \notin Athlete /\ IsFiniteSet(Athlete)
  /\ SlotNames \in Seq(STRING) /\ BenchLimits \ {NoLimit} \subseteq Int
  /\ MaxSearchStates \in Nat \ {0} /\ Crowd \in Nat

VARIABLES
  request,      \* the state of the roster and the lineup that is asked for
  costs,        \* the length of the shortest known sequence to each lineup met
  parents,      \* the lineup before it on that sequence
  queue,        \* lineups to explore, each with its cost and estimate when it was queued
  verdict       \* "none", or how the request ended

LineupVars == <<request, costs, parents, queue, verdict>>

\* eligible: the slots each player may have; observed: the lineup now; locked: slots whose
\* score is accepted; playing: players whose game cannot be discarded;
\* owed: players with a completed score the owner has not passed.
Request ==
  [eligible : [Athlete -> SUBSET Slot], observed : Lineup, locked : SUBSET Slot,
   reserve : SUBSET Athlete, playing : SUBSET Athlete, owed : SUBSET Athlete,
   bench : BenchLimits, desired : Lineup]

Starting(lineup, slots) == {lineup[i] : i \in slots} \ {Empty}
WithoutRepeats(lineup) ==
  \A i, j \in Slot : i # j /\ lineup[i] # Empty => lineup[i] # lineup[j]

Flex(slot) ==
  CASE slot = "G" -> {"PG", "SG"}
    [] slot = "F" -> {"SF", "PF"}
    [] slot = "UTIL" -> {"PG", "SG", "SF", "PF", "C"}
    [] OTHER -> {}
EligibleForSlot(positions, slot) == slot \in positions \/ positions \cap Flex(slot) # {}
SlotsFor(positions) == {i \in Slot : EligibleForSlot(positions, SlotNames[i])}
Eligible(p) == request.eligible[p]

Open == Slot \ request.locked
LockedPlayers == Starting(request.observed, request.locked)
Movable == (Athlete \ LockedPlayers) \ request.reserve
BenchCount(lineup) == Cardinality(Movable) - Cardinality(Starting(lineup, Open))
BenchCapacity ==
  IF request.bench = NoLimit THEN BenchCount(request.observed) ELSE request.bench

OpenStarters == Starting(request.observed, Open)
Protected ==
  OpenStarters \cap
    (request.playing \cup (request.owed \cap Starting(request.desired, Slot)))

LineupTypeOK ==
  /\ request \in Request
  /\ DOMAIN costs \subseteq Lineup
  /\ \A l \in DOMAIN costs : costs[l] \in 0..MaxSearchStates
  /\ DOMAIN parents \subseteq DOMAIN costs
  /\ \A l \in DOMAIN parents : parents[l] \in DOMAIN costs
  /\ \A e \in queue : e.lineup \in DOMAIN costs /\ e.cost \in 0..MaxSearchStates
  /\ verdict \in {"none", "asked", "search", "found", "impossible", "limit", "refused"}

----------------------------------------------------------------------------
(* Completion.                                                             *)

\* The observed starters a batch and its placement do not concern.
Retained(placed, batch) == OpenStarters \ (batch \cup Starting(placed, Slot))
SlotOf(lineup, p) == CHOOSE i \in Slot : lineup[i] = p

Completions(placed, stay) ==
  {l \in [Slot -> stay \cup Starting(placed, Slot) \cup {Empty}] :
     /\ \A i \in Slot : placed[i] # Empty => l[i] = placed[i]
     /\ \A i \in Open : placed[i] = Empty =>
          \/ l[i] = Empty
          \/ l[i] \in stay /\ i \in Eligible(l[i])
     /\ WithoutRepeats(l)}

\* Whom a slot keeps when nobody is in the way: who leaves it is forgotten.
Keeps(i, stay) == IF request.observed[i] \in stay THEN request.observed[i] ELSE Empty

\* Who is in nobody's way stays where he is; otherwise as many stay as fit,
\* in as many unchanged slots as possible.  The names, which decide between
\* equals, are left open.
Completed(placed, batch) ==
  LET stay == Retained(placed, batch)
      options == Completions(placed, stay)
      free == {i \in Open : placed[i] = Empty}
      kept(l) == Cardinality(Starting(l, Slot))
      changes(l) == Cardinality({i \in free : l[i] # Keeps(i, stay)})
      better(a, b) == kept(a) > kept(b) \/ (kept(a) = kept(b) /\ changes(a) < changes(b)) IN
  IF \A p \in stay : SlotOf(request.observed, p) \in free
  THEN {[i \in Slot |-> IF i \in free THEN Keeps(i, stay) ELSE placed[i]]}
  ELSE {l \in options : \A o \in options : ~better(o, l)}

\* A placement of players of the next batch: locked slots keep their players,
\* and every starter whose game is in progress keeps a slot.
Placement(placed, batch) ==
  /\ \A i \in request.locked : placed[i] = request.observed[i]
  /\ \A i \in Open : placed[i] # Empty =>
       /\ placed[i] \in batch \cup (OpenStarters \cap request.playing)
       /\ i \in Eligible(placed[i])
  /\ OpenStarters \cap request.playing \subseteq Starting(placed, Open)
  /\ WithoutRepeats(placed)

\* The completion of an option of the plan.
AskOption ==
  /\ verdict = "none"
  /\ \E batch \in SUBSET (Movable \ request.playing) \ {{}} :
       \E placed \in [Slot -> batch \cup Starting(request.observed, Slot) \cup {Empty}] :
       /\ Placement(placed, batch)
       /\ \E desired \in Completed(placed, batch) :
            /\ request' = [request EXCEPT !.desired = desired]
            /\ verdict' = IF OpenStarters \cap request.playing \subseteq Starting(desired, Open)
                          THEN "asked" ELSE "refused"
  /\ UNCHANGED <<costs, parents, queue>>

\* The way back from an attempt whose games are given up: any lineup there may
\* have been before it.
AskReturn ==
  /\ verdict = "none"
  /\ \E desired \in Lineup,
        forfeited \in SUBSET ((request.playing \cup request.owed) \ LockedPlayers) :
       /\ WithoutRepeats(desired)
       /\ \A i \in Slot : desired[i] # Empty => i \in Eligible(desired[i])
       /\ request' = [request EXCEPT !.desired = desired, !.playing = @ \ forfeited,
                                     !.owed = @ \ forfeited]
  /\ verdict' = "asked"
  /\ UNCHANGED <<costs, parents, queue>>

----------------------------------------------------------------------------
(* The search.                                                             *)

Acceptable ==
  LET desired == request.desired IN
  /\ \A i \in request.locked : desired[i] = request.observed[i]
  /\ Starting(desired, Slot) \cap request.reserve = {}
  /\ \A i \in Slot : desired[i] # Empty => i \in Eligible(desired[i])
  /\ OpenStarters \cap request.playing \subseteq Starting(desired, Slot)

\* A player goes to a slot he is eligible for, and its occupant to where the
\* player came from, if that is not a slot the occupant may not have, nor the
\* bench while the occupant has to start.
Exchanged(lineup, p, i) ==
  [j \in Slot |-> IF j = i THEN p ELSE IF lineup[j] = p THEN lineup[i] ELSE lineup[j]]
\* Anyone may be replaced from the bench.
MayExchangeWrongBench(lineup, p, i) ==
  /\ p # lineup[i] /\ i \in Eligible(p)
  /\ lineup[i] # Empty /\ p \in Starting(lineup, Open) =>
       SlotOf(lineup, p) \in Eligible(lineup[i])

MayExchange(lineup, p, i) ==
  /\ p # lineup[i] /\ i \in Eligible(p)
  /\ lineup[i] # Empty =>
       IF p \in Starting(lineup, Open)
       THEN SlotOf(lineup, p) \in Eligible(lineup[i])
       ELSE lineup[i] \notin Protected

Neighbors(lineup) ==
  {Exchanged(lineup, m[1], m[2]) : m \in
     {m \in Movable \X Open : MayExchange(lineup, m[1], m[2])}}
  \cup
  {[lineup EXCEPT ![i] = Empty] : i \in
     {i \in Open : /\ BenchCount(lineup) < BenchCapacity
                   /\ lineup[i] \notin Protected \cup {Empty}}}

Mismatches(lineup) == Cardinality({i \in Open : lineup[i] # request.desired[i]})
\* A move is taken to settle one slot.
RemainingWrongEach(lineup) == Mismatches(lineup)

\* A move settles two slots at most.
Remaining(lineup) == (Mismatches(lineup) + 1) \div 2
Entry(lineup, cost) ==
  [lineup |-> lineup, cost |-> cost, total |-> cost + Remaining(lineup),
   mismatch |-> Mismatches(lineup)]

PlanMoves ==
  /\ verdict = "asked"
  /\ verdict' = IF ~Acceptable THEN "refused"
                ELSE IF request.desired = request.observed THEN "found"
                ELSE IF BenchCount(request.desired) > BenchCapacity THEN "impossible"
                ELSE "search"
  /\ costs' = [l \in {request.observed} |-> 0]
  /\ queue' = {Entry(request.observed, 0)}
  /\ UNCHANGED <<request, parents>>

\* The entries heappop may return; among equals the code takes the oldest.
Sooner(e, f) == e.total < f.total \/ (e.total = f.total /\ e.mismatch < f.mismatch)
Foremost == {e \in queue : \A f \in queue : ~Sooner(f, e)}

Improved(e) ==
  {t \in Neighbors(e.lineup) :
     e.cost + 1 < IF t \in DOMAIN costs THEN costs[t] ELSE MaxSearchStates + 1}

\* The table with the lineups met at a lower cost.
Updated(f, better, value) ==
  [t \in better \cup DOMAIN f |-> IF t \in better THEN value ELSE f[t]]

Explore(e) ==
  LET better == Improved(e) IN
  IF Cardinality(DOMAIN costs \cup better) > MaxSearchStates
  THEN verdict' = "limit" /\ UNCHANGED <<costs, parents, queue>>
  ELSE /\ costs' = Updated(costs, better, e.cost + 1)
       /\ parents' = Updated(parents, better, e.lineup)
       /\ queue' = (queue \ {e}) \cup {Entry(t, e.cost + 1) : t \in better}
       /\ UNCHANGED verdict

Pop ==
  /\ verdict = "search"
  /\ \E e \in Foremost :
       IF e.cost # costs[e.lineup]
       THEN queue' = queue \ {e} /\ UNCHANGED <<costs, parents, verdict>>
       ELSE IF e.lineup = request.desired
       THEN verdict' = "found" /\ UNCHANGED <<costs, parents, queue>>
       ELSE Explore(e)
  /\ UNCHANGED request

Exhausted ==
  /\ verdict = "search" /\ queue = {}
  /\ verdict' = "impossible"
  /\ UNCHANGED <<request, costs, parents, queue>>

----------------------------------------------------------------------------
\* TeamWeekState: observed starters are eligible for their slots, none is in
\* reserve.
LineupInit ==
  /\ \E eligible \in [Athlete -> {SlotsFor(positions) : positions \in Eligibilities}],
        observed \in {l \in Lineup : WithoutRepeats(l)} :
       /\ \A i \in Slot : observed[i] # Empty => i \in eligible[observed[i]]
       /\ \E locked \in SUBSET {i \in Slot : observed[i] # Empty},
             reserve \in SUBSET (Athlete \ Starting(observed, Slot)),
             playing \in SUBSET Athlete, owed \in SUBSET Athlete, bench \in BenchLimits :
            /\ Cardinality(locked) + Cardinality(reserve) + Cardinality(playing)
                 + Cardinality(owed) <= Crowd
            /\ request = [eligible |-> eligible, observed |-> observed, locked |-> locked,
                          reserve |-> reserve, playing |-> playing, owed |-> owed,
                          bench |-> bench, desired |-> observed]
  /\ costs = << >> /\ parents = << >> /\ queue = {}
  /\ verdict = "none"

LineupNext == AskOption \/ AskReturn \/ PlanMoves \/ Pop \/ Exhausted

LineupSpec == LineupInit /\ [][LineupNext]_LineupVars

----------------------------------------------------------------------------
(* The moves the owner gets, and how they are replayed.                    *)

SlotsOf(lineup, p) == {i \in Slot : lineup[i] = p}
Bench == 0
MoveFrom(a, b) ==
  LET changed == {i \in Slot : a[i] # b[i]}
      filled == {i \in changed : b[i] # Empty}
      target == CHOOSE i \in filled : \A j \in filled : i <= j
      emptied == CHOOSE i \in changed : TRUE
      source(p) == IF SlotsOf(a, p) = {} THEN Bench ELSE SlotOf(a, p) IN
  IF filled = {} THEN [player |-> a[emptied], source |-> emptied, target |-> Bench, swap |-> Empty]
  ELSE [player |-> b[target], source |-> source(b[target]), target |-> target, swap |-> a[target]]

Path[lineup \in Lineup] ==
  IF lineup \in DOMAIN parents THEN Append(Path[parents[lineup]], lineup) ELSE <<lineup>>

\* apply_lineup_moves: a player moves from where he is, to an empty slot or in
\* exchange with who is there.
Applies(lineup, m) ==
  /\ IF m.source = Bench THEN m.player \notin Starting(lineup, Slot)
     ELSE lineup[m.source] = m.player
  /\ IF m.swap # Empty
     THEN IF m.target = Bench THEN m.swap \notin Starting(lineup, Slot)
          ELSE lineup[m.target] = m.swap
     ELSE m.target # Bench => lineup[m.target] = Empty
Applied(lineup, m) ==
  [i \in Slot |-> IF i = m.target THEN m.player
                  ELSE IF i = m.source THEN m.swap ELSE lineup[i]]

----------------------------------------------------------------------------
\* What a single action in the app may change, told without the search: one
\* slot, or two slots that trade; no one lands where he is not eligible, no
\* one who has to start is benched, and the bench is not overfilled.
LegalSteps(a) ==
  LET stay == Protected \cap Starting(a, Slot)
      crowded == BenchCount(a)
      capacity == BenchCapacity
      benched == Movable \ Starting(a, Slot)
      single == {[a EXCEPT ![i] = p] : i \in Open, p \in benched \cup {Empty}}
      trade == {[a EXCEPT ![i] = a[j], ![j] = a[i]] : i \in Open, j \in Open} IN
  {b \in single \cup trade :
     /\ b # a
     /\ \A i \in Slot : b[i] \notin {a[i], Empty} => i \in Eligible(b[i])
     /\ stay \subseteq Starting(b, Slot)
     /\ BenchCount(b) > crowded => BenchCount(b) <= capacity}

\* The moves of a plan can be made one after the other: each finds its players
\* where it expects them, is legal when it is made, and the last one leaves
\* the lineup that was asked for.
PlanIsExecutable ==
  verdict = "found" =>
    LET path == Path[request.desired] IN
    /\ path[1] = request.observed
    /\ \A k \in 1..(Len(path) - 1) :
         LET m == MoveFrom(path[k], path[k + 1]) IN
         /\ path[k + 1] \in LegalSteps(path[k])
         /\ Applies(path[k], m) /\ Applied(path[k], m) = path[k + 1]

\* No shorter sequence exists, and a request is called impossible only when no
\* legal sequence exists: the estimate of the search never overrates a lineup
\* and its moves leave none out.
Within(n) ==
  LET reached[k \in 0..n] ==
        IF k = 0 THEN {request.observed}
        ELSE reached[k - 1] \cup UNION {LegalSteps(l) : l \in reached[k - 1]} IN
  reached[n]
SearchIsExact ==
  /\ verdict = "found" /\ request.desired # request.observed =>
       request.desired \notin Within(Len(Path[request.desired]) - 2)
  /\ verdict = "impossible" /\ BenchCount(request.desired) <= BenchCapacity =>
       request.desired \notin Within(2 * Cardinality(Slot) + 1)
=============================================================================
