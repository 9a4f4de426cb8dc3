--------------------------- MODULE PublicationProofs ---------------------------
(***************************************************************************)
(* Theorems about the weekly plan's publication, for every set of planners *)
(* and every bound.                                                        *)
(*                                                                         *)
(* PlanInv holds however many runs are at work.  Its heart is Dated: a     *)
(* correction supersedes every plan, so one that is pending was made after *)
(* the last, however many acknowledgements ago.  A run that finds a pending *)
(* row at its key therefore finds one that knows every correction the run  *)
(* has read.  A pending row of the present version has the owner's answer. *)
(*                                                                         *)
(* AloneInv holds until two runs overlap: one plan at most is pending, it  *)
(* is the newest row, and each run accounts for it.  When a run stores its *)
(* plan, a pending row would have to bear the run's material; its revision *)
(* cannot be lower (those were closed when the key was allocated), nor the *)
(* same (the key is free), nor higher (revisions are contiguous).          *)
(***************************************************************************)
EXTENDS PlanPublication, FiniteSetTheorems, WellFoundedInduction, TLAPS

\* Version v counts no decision that w does not.
Upto(v, w) == v.changes <= w.changes /\ v.acks <= w.acks

\* A plan is identified by its material and revision, and revisions are used in order; no row
\* is from the future.
RowsInv ==
  /\ IsFiniteSet(plans)
  /\ \A r, q \in plans : Key(r) = Key(q) => r = q
  /\ \A r \in plans : r.at <= runs /\ Upto(r.version, version)
  /\ \A r \in plans : \A i \in 0 .. (r.revision - 1) :
       \E q \in plans : q.material = r.material /\ q.revision = i

\* A correction supersedes every pending plan, so one that is pending was made after the last; if
\* nothing was decided since, it was made from the answer as it is.
Dated(r) ==
  r.status = "pending" =>
    /\ r.version.changes = version.changes
    /\ r.version = version => r.material.answer = answer

\* Stages of a run that has allocated its key.
Keyed(p) == planner[p].stage \in {"list", "supersede", "create", "send"}

\* What a run has read, and what it found at its key.
ReadWell(p) ==
  /\ Planning(p) => planner[p].at <= runs
  /\ planner[p].stage \notin {"idle", "version"} => Upto(planner[p].version, version)
  /\ planner[p].stage \notin {"idle", "version", "build"} /\ planner[p].version = version =>
       planner[p].material.answer = answer
  /\ Keyed(p) =>
       /\ \A r \in Rows(Key(planner[p])) : r.version.changes >= planner[p].version.changes
       /\ \A i \in 0 .. (planner[p].revision - 1) :
            \E q \in plans : /\ q.material = planner[p].material /\ q.revision = i
                             /\ q.status # "pending"

\* A run that works alone is the last one begun, nothing but the owner, the news and deadlines
\* interferes with it, and there is one pending plan at most, the newest.
Pending == {r \in plans : r.status = "pending"}
OnlyRun(p) ==
  /\ Planning(p) => planner[p].at = runs /\ \A q \in Planner : Planning(q) => q = p
  /\ Keyed(p) /\ ~planner[p].late => \A r \in Rows(Key(planner[p])) : r.status = "pending"
  /\ planner[p].stage = "supersede" => \A k \in planner[p].old : k.material # planner[p].material
  /\ planner[p].stage = "create" => planner[p].old = {}
  /\ planner[p].stage \in {"supersede", "create"} =>
       \A r \in Pending : r.material = planner[p].material \/ Key(r) \in planner[p].old

\* It has looked at what the owner has seen and found nothing to keep.
Looked(p) ==
  /\ planner[p].stage \in {"allocate", "list", "supersede"}
  /\ ~planner[p].daily /\ ~planner[p].decisive /\ version = planner[p].version
  => \A r \in Pending : r.seen /\ r.version = version => ~Retains(r, planner[p].material, FALSE)

\* Until two runs have overlapped, the pending plan is the newest row and every run accounts for it.
AloneInv ==
  ~overlapped =>
    /\ \A r, q \in Pending : r = q
    /\ \A r \in Pending, q \in plans : q.at <= r.at
    /\ \A p \in Planner : OnlyRun(p) /\ Looked(p)

\* However many runs are at work.
PlanInv ==
  /\ PlanTypeOK /\ RowsInv
  /\ \A r \in plans : Dated(r)
  /\ \A p \in Planner : ReadWell(p)

-----------------------------------------------------------------------------
(* Revisions *)

\* A material has a first revision that is free or pending: fewer rows than numbers are there.
LEMMA RevisionExists ==
  ASSUME IsFiniteSet(plans), NEW S, \A n \in Nat \ S : \E r \in plans : r.revision = n
  PROVE  \E n \in 0 .. Cardinality(plans) : n \in S /\ \A i \in 0 .. (n - 1) : i \notin S
<1> DEFINE C == Cardinality(plans)
           Good == S \cap 0 .. C
<1>1. C \in Nat
  BY FS_CardinalityType
<1>2. Good # {}
  <2>1. SUFFICES ASSUME \A n \in 0 .. C : n \notin S PROVE FALSE
    BY DEF Good
  <2> DEFINE f == [n \in 0 .. C |-> CHOOSE r \in plans : r.revision = n]
  <2>2. \A n \in 0 .. C : f[n] \in plans /\ f[n].revision = n
    BY <1>1, <2>1
  <2>3. f \in Injection(0 .. C, plans)
    <3>1. f \in [0 .. C -> plans]
      BY <2>2
    <3>2. \A a, b \in 0 .. C : f[a] = f[b] => a = b
      BY <2>2
    <3>3. QED
      BY <3>1, <3>2 DEF Injection, IsInjective
  <2>4. Cardinality(0 .. C) <= C
    BY <2>3, FS_Injection
  <2>5. Cardinality(0 .. C) = C + 1
    BY <1>1, FS_Interval
  <2>6. QED
    BY <1>1, <2>4, <2>5
<1>3. PICK n \in Good : \A m \in Good : ~(m < n)
  <2> DEFINE Less == OpToRel(<, Nat)
  <2>1. IsWellFoundedOn(Less, Nat)
    BY NatLessThanWellFounded
  <2>2. Good \subseteq Nat
    BY <1>1
  <2>3. PICK n \in Good : \A m \in Good : <<m, n>> \notin Less
    <3> HIDE DEF Good, Less
    <3>1. QED
      BY <1>2, <2>1, <2>2, WFMin
  <2>4. QED
    BY <2>2, <2>3 DEF OpToRel
<1>4. n \in 0 .. C /\ n \in S /\ \A i \in 0 .. (n - 1) : i \notin S
  BY <1>1, <1>3
<1>5. QED
  BY <1>4

\* What FreeRevision finds.
LEMMA FreeRevisionFacts ==
  ASSUME IsFiniteSet(plans), NEW material
  PROVE  LET n == FreeRevision(material)
         IN /\ n \in Nat
            /\ \A r \in plans : r.material = material /\ r.revision = n => r.status = "pending"
            /\ \A i \in 0 .. (n - 1) :
                 \E q \in plans : q.material = material /\ q.revision = i /\ q.status # "pending"
<1> DEFINE at(i) == [material |-> material, revision |-> i]
           open(i) == \A r \in Rows(at(i)) : r.status = "pending"
           fits(n) == open(n) /\ \A i \in 0 .. (n - 1) : ~open(i)
           n == FreeRevision(material)
<1>1. \A i : ~open(i) => \E q \in plans : /\ q.material = material /\ q.revision = i
                                          /\ q.status # "pending"
  BY DEF Rows, Key
<1>2. Cardinality(plans) \in Nat
  BY FS_CardinalityType
<1>3. \E k \in 0 .. Cardinality(plans) : fits(k)
  <2> DEFINE S == {k \in Nat : open(k)}
  <2>1. \A k \in Nat \ S : \E r \in plans : r.revision = k
    BY <1>1
  <2> HIDE DEF S
  <2>2. PICK k \in 0 .. Cardinality(plans) : k \in S /\ \A i \in 0 .. (k - 1) : i \notin S
    BY <2>1, RevisionExists
  <2>3. open(k) /\ \A i \in 0 .. (k - 1) : ~open(i)
    <3> HIDE DEF open
    <3>1. QED
      BY <1>2, <2>2 DEF S
  <2>4. QED
    BY <2>3
<1>4. n = CHOOSE k \in 0 .. Cardinality(plans) : fits(k)
  BY DEF FreeRevision
<1>5. n \in 0 .. Cardinality(plans) /\ fits(n)
  <2> HIDE DEF fits, n
  <2>1. QED
    BY <1>3, <1>4
<1>6. \A r \in plans : r.material = material /\ r.revision = n => r.status = "pending"
  BY <1>5 DEF Rows, Key
<1>7. n \in Nat /\ \A i \in 0 .. (n - 1) : ~open(i)
  BY <1>2, <1>5
<1>8. QED
  <2> HIDE DEF open
  <2>1. QED
    BY <1>1, <1>6, <1>7

-----------------------------------------------------------------------------
(* What a step does to the runs *)

PlannerState ==
  [stage : {"idle", "version", "build", "check", "stick", "allocate", "list",
            "supersede", "create", "send"},
   at : 0..MaxRuns, version : DecisionVersion, material : Material, revision : Nat,
   daily : BOOLEAN, decisive : BOOLEAN, late : BOOLEAN,
   old : SUBSET [material : Material, revision : Nat]]

\* The type invariant with the shape of a run under a name.
LEMMA PlanTypes ==
  PlanTypeOK <=> /\ news \in 0..MaxNews /\ answer \in BOOLEAN /\ version \in DecisionVersion
                 /\ plans \subseteq Plan /\ planner \in [Planner -> PlannerState]
                 /\ runs \in 0..MaxRuns /\ overlapped \in BOOLEAN
  BY DEF PlanTypeOK, PlannerState

\* A run that does not act keeps what it has; it may come too late.
SameRun(p) == \E late \in BOOLEAN : planner'[p] = [planner[p] EXCEPT !.late = late]

\* What stays with a run that does not act.
LEMMA SameRunFacts ==
  ASSUME NEW p \in Planner, planner[p] \in PlannerState, SameRun(p)
  PROVE  /\ planner'[p] \in PlannerState
         /\ planner'[p].stage = planner[p].stage /\ planner'[p].at = planner[p].at
         /\ planner'[p].version = planner[p].version /\ planner'[p].daily = planner[p].daily
         /\ planner'[p].decisive = planner[p].decisive /\ planner'[p].old = planner[p].old
         /\ planner'[p].material = planner[p].material
         /\ planner'[p].revision = planner[p].revision
  BY DEF SameRun, PlannerState

\* A run that is not touched is one.
LEMMA Untouched ==
  ASSUME planner \in [Planner -> PlannerState], NEW p \in Planner, planner'[p] = planner[p]
  PROVE  SameRun(p)
<1>1. planner[p].late \in BOOLEAN /\ planner[p] = [planner[p] EXCEPT !.late = planner[p].late]
  BY DEF PlannerState
<1>2. QED
  BY <1>1 DEF SameRun

\* Everybody else goes on unaware.
LEMMA OthersRun ==
  ASSUME planner \in [Planner -> PlannerState], NEW p \in Planner, PlannerStep(p),
         NEW q \in Planner, q # p
  PROVE  SameRun(q)
<1>1. planner'[q] = planner[q]
  <2>1. ASSUME NEW state, planner' = [planner EXCEPT ![p] = state] PROVE planner'[q] = planner[q]
    BY <2>1
  <2>2. CASE BeginPlan(p)
    BY <2>2 DEF BeginPlan
  <2>3. CASE ReadVersion(p) \/ Build(p)
    BY <2>3 DEF ReadVersion, Build
  <2>4. CASE CheckVersion(p) \/ Stick(p) \/ AbortPlan(p)
    BY <2>4 DEF CheckVersion, Stick, AbortPlan
  <2>5. CASE Allocate(p)
    BY <2>5 DEF Allocate
  <2>6. CASE ListOthers(p) \/ SupersedeOne(p)
    BY <2>6 DEF ListOthers, SupersedeOne, Supersede
  <2>7. CASE Create(p) \/ SendPlan(p)
    BY <2>7 DEF Create, SendPlan
  <2>8. QED
    BY <2>2, <2>3, <2>4, <2>5, <2>6, <2>7 DEF PlannerStep
<1>2. QED
  BY <1>1, Untouched

\* Nor does a run notice news, an answer, a correction or a deadline.
LEMMA OwnerRun ==
  ASSUME planner \in [Planner -> PlannerState], planner' = planner \/ planner' = Belated,
         NEW p \in Planner
  PROVE  /\ SameRun(p)
         /\ planner' = Belated /\ Keyed(p) => planner'[p].late
<1>1. CASE planner' = planner
  <2>1. Keyed(p) /\ planner' = Belated => planner'[p].late
    BY <1>1 DEF Belated, Keyed, PlannerState
  <2>2. QED
    BY <1>1, <2>1, Untouched
<1>2. CASE planner' = Belated
  <2>1. CASE Keyed(p)
    <3>1. planner'[p] = [planner[p] EXCEPT !.late = TRUE]
      BY <1>2, <2>1 DEF Belated, Keyed
    <3>2. planner'[p].late
      BY <3>1 DEF PlannerState
    <3>3. QED
      BY <3>1, <3>2 DEF SameRun
  <2>2. CASE ~Keyed(p)
    BY <1>2, <2>2, Untouched DEF Belated, Keyed
  <2>3. QED
    BY <2>1, <2>2
<1>3. QED
  BY <1>1, <1>2

-----------------------------------------------------------------------------
(* What a step does to the rows *)

\* A row keeps its identity, origin and date; what was closed stays closed.
Successor(r, q) ==
  /\ q.material = r.material /\ q.revision = r.revision
  /\ q.version = r.version /\ q.at = r.at
  /\ q.status = "pending" => r.status = "pending"
  /\ r.status # "pending" => q.status = r.status
Rewritten ==
  \E f \in [plans -> Plan] : plans' = {f[r] : r \in plans} /\ \A r \in plans : Successor(r, f[r])

NewRow(p) ==
  [material |-> planner[p].material, revision |-> planner[p].revision,
   version |-> planner[p].version, at |-> planner[p].at, status |-> "pending", seen |-> FALSE]
Stores(p) ==
  /\ Create(p) /\ Rows(Key(planner[p])) = {} /\ version = planner[p].version
  /\ plans' = plans \cup {NewRow(p)}

\* Rows that are left alone are their own successors.
LEMMA KeptRewritten ==
  ASSUME plans \subseteq Plan, plans' = plans
  PROVE  Rewritten
<1> DEFINE f == [r \in plans |-> r]
<1>1. f \in [plans -> Plan] /\ plans' = {f[r] : r \in plans} /\ \A r \in plans : f[r] = r
  OBVIOUS
<1>2. QED
  BY <1>1 DEF Rewritten, Successor

\* Closing rows keeps what identifies and dates them.
LEMMA ChangeRewrites ==
  ASSUME plans \subseteq Plan, NEW old, NEW status \in {"expired", "superseded"},
         Change(old, status)
  PROVE  Rewritten
<1> DEFINE new(r) == IF Key(r) \in old /\ r.status = "pending"
                     THEN [r EXCEPT !.status = status] ELSE r
           f == [r \in plans |-> new(r)]
<1>1. ASSUME NEW r \in plans PROVE new(r) \in Plan /\ Successor(r, new(r))
  <2>1. r \in Plan
    OBVIOUS
  <2>2. [r EXCEPT !.status = status] \in Plan
    BY <2>1 DEF Plan
  <2>3. r.status = "pending" => Successor(r, [r EXCEPT !.status = status])
    BY <2>1 DEF Plan, Successor
  <2>4. Successor(r, r)
    BY DEF Successor
  <2>5. QED
    BY <2>1, <2>2, <2>3, <2>4
<1>2. plans' = {new(r) : r \in plans}
  BY DEF Change
<1> HIDE DEF new
<1>3. f \in [plans -> Plan] /\ plans' = {f[r] : r \in plans}
  BY <1>1, <1>2
<1>4. \A r \in plans : Successor(r, f[r])
  BY <1>1
<1>5. QED
  BY <1>3, <1>4 DEF Rewritten

\* So does noting that a message was seen.
LEMMA SendRewrites ==
  ASSUME plans \subseteq Plan, NEW p \in Planner, SendPlan(p)
  PROVE  Rewritten
<1>1. PICK seen \in BOOLEAN :
        plans' = {IF Key(r) = Key(planner[p]) THEN [r EXCEPT !.seen = @ \/ seen] ELSE r :
                   r \in plans}
  BY DEF SendPlan
<1> DEFINE new(r) == IF Key(r) = Key(planner[p]) THEN [r EXCEPT !.seen = @ \/ seen] ELSE r
           f == [r \in plans |-> new(r)]
<1>2. ASSUME NEW r \in plans PROVE new(r) \in Plan /\ Successor(r, new(r))
  <2>1. r \in Plan
    OBVIOUS
  <2> DEFINE b == r.seen \/ seen
  <2>2. b \in BOOLEAN /\ [r EXCEPT !.seen = @ \/ seen] = [r EXCEPT !.seen = b]
    OBVIOUS
  <2>3. ASSUME NEW c \in BOOLEAN
        PROVE  [r EXCEPT !.seen = c] \in Plan /\ Successor(r, [r EXCEPT !.seen = c])
    BY <2>1 DEF Plan, Successor
  <2>4. Successor(r, r)
    BY DEF Successor
  <2> HIDE DEF b
  <2>5. QED
    BY <2>1, <2>2, <2>3, <2>4
<1>3. plans' = {new(r) : r \in plans}
  BY <1>1
<1> HIDE DEF new
<1>4. f \in [plans -> Plan] /\ plans' = {f[r] : r \in plans}
  BY <1>2, <1>3
<1>5. \A r \in plans : Successor(r, f[r])
  BY <1>2
<1>6. QED
  BY <1>4, <1>5 DEF Rewritten

\* Rows are never removed; a new one is stored by a run that found none at its key and whose
\* decisions still stand.
LEMMA RowsChange ==
  ASSUME PlanTypeOK, [PlanNext]_PlanVars
  PROVE  Rewritten \/ \E p \in Planner : Stores(p)
<1>0. plans \subseteq Plan
  BY PlanTypes
<1>1. CASE plans' = plans
  BY <1>0, <1>1, KeptRewritten
<1>2. ASSUME NEW p \in Planner, PlannerStep(p), plans' # plans
      PROVE  Rewritten \/ Stores(p)
  <2>1. SupersedeOne(p) \/ Create(p) \/ SendPlan(p)
    BY <1>2 DEF PlannerStep, BeginPlan, ReadVersion, Build, CheckVersion, Stick, Allocate,
                ListOthers, AbortPlan
  <2>2. CASE SupersedeOne(p)
    BY <1>0, <2>2, ChangeRewrites DEF SupersedeOne
  <2>3. CASE Create(p)
    BY <1>2, <2>3 DEF Create, Stores, NewRow
  <2>4. QED
    BY <1>0, <2>1, <2>2, <2>3, SendRewrites
<1>3. CASE (\E r \in plans : ExpirePlan(r)) \/ Correct
  BY <1>0, <1>3, ChangeRewrites DEF ExpirePlan, Correct
<1>4. QED
  BY <1>1, <1>2, <1>3 DEF PlanNext, News, Acknowledge, PlanVars

-----------------------------------------------------------------------------
(* Types *)

\* A run at rest is a run.
LEMMA RestingTyped == Resting \in PlannerState
  BY PlanAssumption DEF Resting, PlannerState, NoMaterial, Material, Stance, NoDecision, DecisionVersion

\* Whoever acts, a run stays one.
LEMMA PlannersTyped ==
  ASSUME PlanTypeOK, RowsInv, [PlanNext]_PlanVars, NEW p \in Planner
  PROVE  planner'[p] \in PlannerState
<1>0. /\ planner \in [Planner -> PlannerState] /\ planner[p] \in PlannerState
      /\ plans \subseteq Plan /\ news \in 0..MaxNews /\ version \in DecisionVersion
      /\ answer \in BOOLEAN /\ runs \in 0..MaxRuns
  BY PlanTypes
<1>r. Resting \in PlannerState
  BY RestingTyped
<1>1. CASE SameRun(p)
  BY <1>0, <1>1, SameRunFacts
<1>2. CASE BeginPlan(p)
  <2>1. PICK daily \in BOOLEAN :
          planner' = [planner EXCEPT ![p] =
            [Resting EXCEPT !.stage = "version", !.at = runs + 1, !.daily = daily,
                            !.material.news = news]]
    BY <1>2 DEF BeginPlan
  <2>2. runs + 1 \in 0..MaxRuns
    BY <1>0, <1>2, PlanAssumption DEF BeginPlan
  <2>3. [Resting EXCEPT !.stage = "version", !.at = runs + 1, !.daily = daily,
                        !.material.news = news] \in PlannerState
    BY <1>0, <1>r, <2>2 DEF Resting, PlannerState, NoMaterial, Material, Stance
  <2>4. QED
    BY <1>0, <2>1, <2>3
<1>3. CASE ReadVersion(p)
  <2>1. [planner[p] EXCEPT !.stage = "build", !.version = version] \in PlannerState
    BY <1>0 DEF PlannerState
  <2>2. QED
    BY <1>0, <1>3, <2>1 DEF ReadVersion
<1>4. CASE Build(p)
  <2>1. PICK stance \in Stance :
          planner' = [planner EXCEPT ![p].stage = "check", ![p].material.answer = answer,
                                     ![p].material.stance = stance]
    BY <1>4 DEF Build
  <2> DEFINE m == [planner[p].material EXCEPT !.answer = answer, !.stance = stance]
  <2>2. m \in Material
    BY <1>0 DEF PlannerState, Material
  <2>3. planner'[p] = [planner[p] EXCEPT !.stage = "check", !.material = m]
    BY <1>0, <2>1 DEF PlannerState
  <2> HIDE DEF m
  <2>4. [planner[p] EXCEPT !.stage = "check", !.material = m] \in PlannerState
    BY <1>0, <2>2 DEF PlannerState
  <2>5. QED
    BY <2>3, <2>4
<1>5. CASE CheckVersion(p) \/ AbortPlan(p)
  BY <1>0, <1>r, <1>5 DEF CheckVersion, AbortPlan, PlannerState
<1>6. CASE Stick(p)
  <2>1. PICK decisive \in BOOLEAN :
          planner' = [planner EXCEPT ![p] =
            IF Sticks(p, decisive) THEN Resting
            ELSE [@ EXCEPT !.stage = "allocate", !.decisive = decisive]]
    BY <1>6 DEF Stick
  <2>2. [planner[p] EXCEPT !.stage = "allocate", !.decisive = decisive] \in PlannerState
    BY <1>0 DEF PlannerState
  <2>3. QED
    BY <1>0, <1>r, <2>1, <2>2
<1>7. CASE Allocate(p)
  <2> DEFINE n == FreeRevision(planner[p].material)
  <2>1. n \in Nat
    BY FreeRevisionFacts DEF RowsInv
  <2>2. planner' = [planner EXCEPT ![p].stage = "list", ![p].revision = n]
    BY <1>7 DEF Allocate
  <2> HIDE DEF n
  <2>3. QED
    BY <1>0, <2>1, <2>2 DEF PlannerState
<1>8. ASSUME NEW old, Supersede(p, old), old \subseteq [material : Material, revision : Nat]
      PROVE  planner'[p] \in PlannerState
  <2> DEFINE stage == IF old = {} THEN "create" ELSE "supersede"
  <2>1. /\ planner' = [planner EXCEPT ![p].stage = stage, ![p].old = old]
        /\ stage \in {"create", "supersede"}
    BY <1>8 DEF Supersede
  <2> HIDE DEF stage
  <2>2. QED
    BY <1>0, <1>8, <2>1 DEF PlannerState
<1>9. CASE ListOthers(p)
  <2>1. \A r \in plans : Key(r) \in [material : Material, revision : Nat]
    BY <1>0 DEF Key, Plan
  <2>2. QED
    BY <1>8, <1>9, <2>1 DEF ListOthers
<1>10. CASE SupersedeOne(p)
  <2>1. planner[p].old \subseteq [material : Material, revision : Nat]
    BY <1>0 DEF PlannerState
  <2>2. QED
    BY <1>8, <1>10, <2>1 DEF SupersedeOne
<1>11. CASE Create(p) \/ SendPlan(p)
  <2>1. \/ planner' = [planner EXCEPT ![p] = Resting]
        \/ planner' = [planner EXCEPT ![p].stage = "send"]
    BY <1>11 DEF Create, SendPlan
  <2>2. QED
    BY <1>0, <1>r, <2>1 DEF PlannerState
<1>12. ASSUME NEW q \in Planner, PlannerStep(q) PROVE planner'[p] \in PlannerState
  BY <1>0, <1>1, <1>2, <1>3, <1>4, <1>5, <1>6, <1>7, <1>9, <1>10, <1>11, <1>12, OthersRun DEF PlannerStep
<1>13. CASE planner' = planner \/ planner' = Belated
  BY <1>0, <1>1, <1>13, OwnerRun
<1>14. QED
  BY <1>12, <1>13 DEF PlanNext, ExpirePlan, News, Acknowledge, Correct, PlanVars

\* A decision adds to one of the two counts, within the bound.
LEMMA DecisionCounts ==
  ASSUME version \in DecisionVersion, MayDecide,
         \/ version' = [version EXCEPT !.acks = @ + 1]
         \/ version' = [version EXCEPT !.changes = @ + 1]
  PROVE  version' \in DecisionVersion /\ Upto(version, version') /\ version' # version
  BY PlanAssumption DEF DecisionVersion, MayDecide, Upto

\* Time and decisions only move on.
LEMMA Onward ==
  ASSUME PlanTypeOK, [PlanNext]_PlanVars
  PROVE  /\ runs' \in runs .. MaxRuns
         /\ news' \in news .. MaxNews
         /\ \/ version' = version /\ answer' = answer
            \/ version' # version /\ (Acknowledge \/ Correct)
         /\ version' \in DecisionVersion /\ Upto(version, version')
         /\ answer' \in BOOLEAN
         /\ overlapped' \in BOOLEAN /\ (overlapped => overlapped')
<1>0. /\ planner \in [Planner -> PlannerState]
      /\ news \in 0..MaxNews /\ version \in DecisionVersion
      /\ answer \in BOOLEAN /\ runs \in 0..MaxRuns /\ overlapped \in BOOLEAN
      /\ MaxRuns \in Nat /\ MaxVersion \in Nat /\ MaxNews \in Nat
  BY PlanTypes, PlanAssumption
<1>r. Upto(version, version)
  BY <1>0 DEF Upto, DecisionVersion
<1>1. CASE UNCHANGED PlanVars
  <2>1. UNCHANGED <<news, answer, version, runs, overlapped>>
    BY <1>1 DEF PlanVars
  <2>2. QED
    BY <1>0, <1>r, <2>1
<1>2. ASSUME NEW p \in Planner, BeginPlan(p)
      PROVE  /\ runs' = runs + 1 /\ runs < MaxRuns
             /\ UNCHANGED <<news, answer, version>>
             /\ overlapped' \in BOOLEAN /\ (overlapped => overlapped')
  BY <1>0, <1>2 DEF BeginPlan
<1>3. ASSUME NEW p \in Planner, PlannerStep(p), ~BeginPlan(p)
      PROVE  UNCHANGED <<news, answer, version, runs, overlapped>>
  BY <1>3 DEF PlannerStep, ReadVersion, Build, CheckVersion, Stick, Allocate,
              ListOthers, SupersedeOne, Create, SendPlan, AbortPlan
<1>4. ASSUME NEW r \in plans, ExpirePlan(r)
      PROVE  UNCHANGED <<news, answer, version, runs, overlapped>>
  BY <1>4 DEF ExpirePlan
<1>5. CASE News
  <2>1. UNCHANGED <<answer, version, runs, overlapped>> /\ news' = news + 1 /\ news < MaxNews
    BY <1>5 DEF News
  <2>2. QED
    BY <1>0, <1>r, <2>1
<1>6. CASE Acknowledge
  <2>1. /\ UNCHANGED <<runs, news, overlapped>> /\ answer' \in BOOLEAN
        /\ version' \in DecisionVersion /\ Upto(version, version') /\ version' # version
    BY <1>0, <1>6, DecisionCounts DEF Acknowledge
  <2>2. QED
    BY <1>0, <1>6, <2>1
<1>7. CASE Correct
  <2>1. /\ UNCHANGED <<runs, news, overlapped>> /\ answer' \in BOOLEAN
        /\ version' \in DecisionVersion /\ Upto(version, version') /\ version' # version
    BY <1>0, <1>7, DecisionCounts DEF Correct
  <2>2. QED
    BY <1>0, <1>7, <2>1
<1>8. QED
  BY <1>0, <1>r, <1>1, <1>2, <1>3, <1>4, <1>5, <1>6, <1>7 DEF PlanNext

\* A version of the past stays one, and is never the present one again.
LEMMA PastVersion ==
  ASSUME PlanTypeOK, [PlanNext]_PlanVars, NEW v \in DecisionVersion, Upto(v, version)
  PROVE  Upto(v, version') /\ (v = version' => version' = version)
<1>1. version \in DecisionVersion /\ version' \in DecisionVersion /\ Upto(version, version')
  BY PlanTypes, Onward
<1>2. Upto(v, version')
  BY <1>1 DEF Upto, DecisionVersion
<1>3. v = version' => version' = version
  BY <1>1 DEF Upto, DecisionVersion
<1>4. QED
  BY <1>2, <1>3

\* What a run stores is a plan.
LEMMA NewRowTyped ==
  ASSUME PlanTypeOK, NEW p \in Planner
  PROVE  NewRow(p) \in Plan
  BY PlanTypes DEF NewRow, Plan, PlannerState

\* Every step keeps the types.
LEMMA PlanTypeStep ==
  ASSUME PlanTypeOK, RowsInv, [PlanNext]_PlanVars
  PROVE  PlanTypeOK'
<1>1. planner' \in [Planner -> PlannerState]
  <2>1. planner' = [p \in Planner |-> planner'[p]]
    <3>0. planner \in [Planner -> PlannerState]
      BY PlanTypes
    <3>1. CASE planner' = planner
      BY <3>0, <3>1
    <3>2. ASSUME NEW p \in Planner, NEW new, planner' = [planner EXCEPT ![p] = new]
          PROVE  planner' = [q \in Planner |-> planner'[q]]
      BY <3>0, <3>2
    <3>3. CASE planner' = Belated
      BY <3>3 DEF Belated
    <3>4. ASSUME NEW p \in Planner, PlannerStep(p)
          PROVE  \E new : planner' = [planner EXCEPT ![p] = new]
      <4>1. CASE BeginPlan(p)
        BY <4>1 DEF BeginPlan
      <4>2. CASE ReadVersion(p) \/ Build(p)
        BY <4>2 DEF ReadVersion, Build
      <4>3. CASE CheckVersion(p) \/ AbortPlan(p)
        BY <4>3 DEF CheckVersion, AbortPlan
      <4>4. CASE Stick(p) \/ Allocate(p)
        BY <4>4 DEF Stick, Allocate
      <4>5. CASE ListOthers(p) \/ SupersedeOne(p)
        BY <4>5 DEF ListOthers, SupersedeOne, Supersede
      <4>6. CASE Create(p) \/ SendPlan(p)
        BY <4>6 DEF Create, SendPlan
      <4>7. QED
        BY <3>4, <4>1, <4>2, <4>3, <4>4, <4>5, <4>6 DEF PlannerStep
    <3>5. QED
      BY <3>1, <3>2, <3>3, <3>4 DEF PlanNext, ExpirePlan, News, Acknowledge, Correct, PlanVars
  <2>2. QED
    BY <2>1, PlannersTyped
<1>2. plans' \subseteq Plan
  <2>1. CASE Rewritten
    BY <2>1 DEF Rewritten
  <2>2. CASE \E p \in Planner : Stores(p)
    BY <2>2, PlanTypes, NewRowTyped DEF Stores
  <2>3. QED
    BY <2>1, <2>2, RowsChange
<1>3. /\ news' \in 0..MaxNews /\ answer' \in BOOLEAN /\ version' \in DecisionVersion
      /\ runs' \in 0..MaxRuns /\ overlapped' \in BOOLEAN
  <2>1. news \in 0..MaxNews /\ runs \in 0..MaxRuns
    BY PlanTypes
  <2>2. QED
    BY <2>1, Onward, PlanAssumption
<1>4. QED
  <2>1. /\ news' \in 0..MaxNews /\ answer' \in BOOLEAN /\ version' \in DecisionVersion
        /\ plans' \subseteq Plan /\ planner' \in [Planner -> PlannerState]
        /\ runs' \in 0..MaxRuns /\ overlapped' \in BOOLEAN
    BY <1>1, <1>2, <1>3
  <2>2. QED
    BY <2>1 DEF PlanTypeOK, PlannerState

-----------------------------------------------------------------------------
(* Rows *)

\* Keys stay unique and revisions contiguous, and no row comes from the future.
LEMMA RowsInvStep ==
  ASSUME PlanTypeOK, RowsInv, \A p \in Planner : ReadWell(p), [PlanNext]_PlanVars
  PROVE  RowsInv'
<1>0. /\ runs \in 0..MaxRuns /\ MaxRuns \in Nat /\ version \in DecisionVersion
      /\ plans \subseteq Plan
      /\ \A r \in plans : r.at \in Int /\ r.version \in DecisionVersion /\ r.revision \in Nat
  BY PlanTypes, PlanAssumption DEF Plan
<1>1. runs' \in Int /\ runs <= runs' /\ Upto(version, version')
  BY <1>0, Onward
<1>2. CASE Rewritten
  <2>1. PICK f \in [plans -> Plan] :
          plans' = {f[r] : r \in plans} /\ \A r \in plans : Successor(r, f[r])
    BY <1>2 DEF Rewritten
  <2>2. IsFiniteSet(plans')
    <3>1. f \in Surjection(plans, plans')
      BY <2>1 DEF Surjection
    <3>2. QED
      BY <3>1, FS_Surjection DEF RowsInv
  <2>3. ASSUME NEW a \in plans', NEW b \in plans', Key(a) = Key(b) PROVE a = b
    <3>1. PICK r \in plans, q \in plans : a = f[r] /\ b = f[q]
      BY <2>1
    <3>2. Key(r) = Key(q)
      BY <2>1, <2>3, <3>1 DEF Key, Successor
    <3>3. QED
      BY <3>1, <3>2 DEF RowsInv
  <2>4. ASSUME NEW a \in plans'
        PROVE  /\ a.at <= runs' /\ Upto(a.version, version')
               /\ \A i \in 0 .. (a.revision - 1) :
                    \E q \in plans' : q.material = a.material /\ q.revision = i
    <3>1. PICK r \in plans : a = f[r]
      BY <2>1
    <3>2. /\ a.at = r.at /\ a.version = r.version
          /\ a.revision = r.revision /\ a.material = r.material
      BY <2>1, <3>1 DEF Successor
    <3>3. a.at <= runs' /\ Upto(a.version, version')
      BY <1>0, <1>1, <3>2, PastVersion DEF RowsInv
    <3>4. ASSUME NEW i \in 0 .. (a.revision - 1)
          PROVE  \E q \in plans' : q.material = a.material /\ q.revision = i
      <4>1. PICK q \in plans : q.material = r.material /\ q.revision = i
        BY <3>2, <3>4 DEF RowsInv
      <4>2. f[q] \in plans' /\ f[q].material = q.material /\ f[q].revision = q.revision
        BY <2>1 DEF Successor
      <4>3. QED
        BY <3>2, <4>1, <4>2
    <3>5. QED
      BY <3>3, <3>4
  <2>5. QED
    BY <2>2, <2>3, <2>4 DEF RowsInv
<1>3. ASSUME NEW p \in Planner, Stores(p) PROVE RowsInv'
  <2> DEFINE new == NewRow(p)
  <2>1. /\ new.material = planner[p].material /\ new.revision = planner[p].revision
        /\ new.version = version /\ new.at = planner[p].at /\ Key(new) = Key(planner[p])
        /\ plans' = plans \cup {new} /\ Keyed(p) /\ Planning(p)
    BY <1>3 DEF Stores, NewRow, Key, Keyed, Create, Planning
  <2> HIDE DEF new
  <2>2. IsFiniteSet(plans')
    BY <2>1, FS_AddElement DEF RowsInv
  <2>3. \A r \in plans : Key(r) # Key(new)
    BY <1>3, <2>1 DEF Stores, Rows
  <2>4. \A a, b \in plans' : Key(a) = Key(b) => a = b
    BY <2>1, <2>3 DEF RowsInv
  <2>5. \A r \in plans' : r.at <= runs' /\ Upto(r.version, version')
    <3>1. new.at <= runs /\ new.at \in Int
      BY <2>1, PlanTypes DEF ReadWell, PlannerState
    <3>2. QED
      BY <1>0, <1>1, <2>1, <3>1, PastVersion DEF RowsInv
  <2>6. ASSUME NEW a \in plans', NEW i \in 0 .. (a.revision - 1)
        PROVE  \E q \in plans' : q.material = a.material /\ q.revision = i
    <3>1. CASE a \in plans
      BY <2>1, <2>6, <3>1 DEF RowsInv
    <3>2. CASE a = new
      BY <2>1, <2>6, <3>2 DEF ReadWell
    <3>3. QED
      BY <2>1, <3>1, <3>2
  <2>7. QED
    BY <2>2, <2>4, <2>5, <2>6 DEF RowsInv
<1>4. QED
  BY <1>2, <1>3, RowsChange

\* The decisions a pending plan was made from.
LEMMA DatedStep ==
  ASSUME PlanTypeOK, RowsInv, \A r \in plans : Dated(r), \A p \in Planner : ReadWell(p),
         [PlanNext]_PlanVars, NEW a \in plans'
  PROVE  Dated(a)'
<1>0. version \in DecisionVersion /\ plans \subseteq Plan
  BY PlanTypes
<1> SUFFICES ASSUME a.status = "pending"
             PROVE  /\ a.version.changes = version'.changes
                    /\ a.version = version' => a.material.answer = answer'
  BY DEF Dated
<1>1. CASE Acknowledge
  <2>1. plans' = plans /\ version'.changes = version.changes /\ version' # version
    <3>1. plans' = plans /\ version' = [version EXCEPT !.acks = @ + 1] /\ MayDecide
      BY <1>1 DEF Acknowledge
    <3>2. version'.changes = version.changes
      BY <1>0, <3>1 DEF DecisionVersion
    <3>3. QED
      BY <1>0, <3>1, <3>2, DecisionCounts
  <2>2. a.version \in DecisionVersion /\ Upto(a.version, version)
    BY <1>0, <2>1 DEF RowsInv, Plan
  <2>3. a.version # version'
    BY <2>1, <2>2, PastVersion
  <2>4. QED
    BY <2>1, <2>3 DEF Dated
<1>2. ~Correct
  <2>1. SUFFICES ASSUME Correct PROVE FALSE
    OBVIOUS
  <2>2. PICK r \in plans :
          a = IF Key(r) \in {Key(q) : q \in plans} /\ r.status = "pending"
              THEN [r EXCEPT !.status = "superseded"] ELSE r
    BY <2>1 DEF Correct, Change
  <2>3. [r EXCEPT !.status = "superseded"].status = "superseded"
    BY <1>0 DEF Plan
  <2>4. QED
    BY <2>2, <2>3
<1>3. CASE version' = version /\ answer' = answer
  <2>1. CASE Rewritten
    <3>1. PICK r \in plans : Successor(r, a)
      BY <2>1 DEF Rewritten
    <3>2. Dated(r)
      OBVIOUS
    <3>3. QED
      BY <1>3, <3>1, <3>2 DEF Dated, Successor
  <2>2. ASSUME NEW p \in Planner, Stores(p), a \notin plans
        PROVE  a.version = version /\ a.material.answer = answer
    BY <2>2 DEF Stores, NewRow, ReadWell, Create
  <2>3. CASE a \in plans
    BY <1>3, <2>3 DEF Dated
  <2>4. QED
    BY <1>3, <2>1, <2>2, <2>3, RowsChange
<1>4. QED
  BY <1>1, <1>2, <1>3, Onward

-----------------------------------------------------------------------------
(* What each step does to its run *)

\* Everything but the stage, the revision and the list of others.
SameAim(p) ==
  /\ planner'[p].at = planner[p].at /\ planner'[p].version = planner[p].version
  /\ planner'[p].material = planner[p].material
  /\ planner'[p].daily = planner[p].daily
SameKey(p) ==
  /\ SameAim(p) /\ planner'[p].revision = planner[p].revision
  /\ planner'[p].decisive = planner[p].decisive /\ planner'[p].late = planner[p].late

\* A run at rest plans nothing.
LEMMA RestingStage == Resting.stage = "idle"
  BY DEF Resting

\* A run that begins takes the next instant.
LEMMA BeginFacts ==
  ASSUME planner \in [Planner -> PlannerState], NEW p \in Planner, BeginPlan(p)
  PROVE  planner'[p].stage = "version" /\ planner'[p].at = runs + 1 /\ runs' = runs + 1
<1>1. PICK daily \in BOOLEAN :
        planner' = [planner EXCEPT ![p] =
          [Resting EXCEPT !.stage = "version", !.at = runs + 1, !.daily = daily,
                          !.material.news = news]]
  BY DEF BeginPlan
<1>2. planner'[p] = [Resting EXCEPT !.stage = "version", !.at = runs + 1, !.daily = daily,
                                    !.material.news = news]
  BY <1>1
<1>3. planner'[p].stage = "version" /\ planner'[p].at = runs + 1
  BY <1>2 DEF Resting
<1>4. QED
  BY <1>3 DEF BeginPlan

\* It fixes the version,
LEMMA ReadFacts ==
  ASSUME planner \in [Planner -> PlannerState], NEW p \in Planner, ReadVersion(p)
  PROVE  /\ planner[p].stage = "version" /\ planner'[p].stage = "build"
         /\ planner'[p].at = planner[p].at /\ planner'[p].version = version
  BY DEF ReadVersion, PlannerState

\* plans from the decisions as they are,
LEMMA BuildFacts ==
  ASSUME planner \in [Planner -> PlannerState], NEW p \in Planner, Build(p)
  PROVE  /\ planner[p].stage = "build" /\ planner'[p].stage = "check"
         /\ planner'[p].at = planner[p].at /\ planner'[p].version = planner[p].version
         /\ planner'[p].material.answer = answer
  BY DEF Build, PlannerState, Material

\* goes on or gives up if they have moved,
LEMMA CheckFacts ==
  ASSUME planner \in [Planner -> PlannerState], NEW p \in Planner, CheckVersion(p)
  PROVE  /\ planner[p].stage = "check"
         /\ \/ planner'[p].stage = "idle"
            \/ planner'[p].stage = "stick" /\ SameKey(p)
<1>1. [planner[p] EXCEPT !.stage = "stick"].stage = "stick"
  BY DEF PlannerState
<1>2. planner'[p] = Resting \/ planner'[p] = [planner[p] EXCEPT !.stage = "stick"]
  BY DEF CheckVersion
<1>3. planner'[p] = [planner[p] EXCEPT !.stage = "stick"] => SameKey(p)
  BY DEF PlannerState, SameKey, SameAim
<1>4. QED
  BY <1>1, <1>2, <1>3, RestingStage DEF CheckVersion

\* goes on only if there is nothing to keep,
LEMMA StickFacts ==
  ASSUME planner \in [Planner -> PlannerState], NEW p \in Planner, Stick(p)
  PROVE  /\ planner[p].stage = "stick"
         /\ \/ planner'[p].stage = "idle"
            \/ planner'[p].stage = "allocate" /\ SameAim(p) /\ ~Sticks(p, planner'[p].decisive)
<1>1. PICK decisive \in BOOLEAN :
        planner' = [planner EXCEPT ![p] =
          IF Sticks(p, decisive) THEN Resting
          ELSE [@ EXCEPT !.stage = "allocate", !.decisive = decisive]]
  BY DEF Stick
<1>2. CASE Sticks(p, decisive)
  BY <1>1, <1>2, RestingStage DEF Stick
<1>3. CASE ~Sticks(p, decisive)
  <2>1. planner'[p] = [planner[p] EXCEPT !.stage = "allocate", !.decisive = decisive]
    BY <1>1, <1>3
  <2>2. /\ planner'[p].stage = "allocate" /\ planner'[p].decisive = decisive /\ SameAim(p)
    BY <2>1 DEF PlannerState, SameAim
  <2>3. ~Sticks(p, planner'[p].decisive)
    BY <1>3, <2>2
  <2>4. QED
    BY <2>2, <2>3 DEF Stick
<1>4. QED
  BY <1>2, <1>3

\* takes the first free revision of its material,
LEMMA AllocateFacts ==
  ASSUME planner \in [Planner -> PlannerState], NEW p \in Planner, Allocate(p)
  PROVE  /\ planner[p].stage = "allocate" /\ planner'[p].stage = "list" /\ SameAim(p)
         /\ planner'[p].revision = FreeRevision(planner[p].material)
         /\ planner'[p].decisive = planner[p].decisive
<1> DEFINE n == FreeRevision(planner[p].material)
<1>1. /\ planner[p].stage = "allocate"
      /\ planner' = [planner EXCEPT ![p].stage = "list", ![p].revision = n]
  BY DEF Allocate
<1> HIDE DEF n
<1>2. /\ planner[p].stage = "allocate" /\ planner'[p].stage = "list" /\ SameAim(p)
      /\ planner'[p].revision = n /\ planner'[p].decisive = planner[p].decisive
  BY <1>1 DEF PlannerState, SameAim
<1>3. QED
  BY <1>2 DEF n

\* works off the others' rows,
LEMMA SupersedeFacts ==
  ASSUME planner \in [Planner -> PlannerState], NEW p \in Planner, NEW old, Supersede(p, old)
  PROVE  /\ planner'[p].stage = (IF old = {} THEN "create" ELSE "supersede")
         /\ SameKey(p) /\ planner'[p].old = old
<1> DEFINE stage == IF old = {} THEN "create" ELSE "supersede"
<1>1. planner' = [planner EXCEPT ![p].stage = stage, ![p].old = old]
  BY DEF Supersede
<1> HIDE DEF stage
<1>2. planner'[p].stage = stage /\ SameKey(p) /\ planner'[p].old = old
  BY <1>1 DEF PlannerState, SameKey, SameAim
<1>3. QED
  BY <1>2 DEF stage

\* stores its own or finds it stored,
LEMMA CreateFacts ==
  ASSUME planner \in [Planner -> PlannerState], NEW p \in Planner, Create(p)
  PROVE  /\ planner[p].stage = "create"
         /\ Stores(p) \/ plans' = plans
         /\ \/ planner'[p].stage = "idle"
            \/ planner'[p].stage = "send" /\ SameKey(p)
<1>1. planner'[p] = Resting \/ planner'[p] = [planner[p] EXCEPT !.stage = "send"]
  BY DEF Create
<1>2. [planner[p] EXCEPT !.stage = "send"].stage = "send"
  BY DEF PlannerState
<1>3. planner'[p] = [planner[p] EXCEPT !.stage = "send"] => SameKey(p)
  BY DEF PlannerState, SameKey, SameAim
<1>4. planner[p].stage = "create"
  BY DEF Create
<1>5. Stores(p) \/ plans' = plans
  BY DEF Create, Stores, NewRow
<1>6. QED
  BY <1>1, <1>2, <1>3, <1>4, <1>5, RestingStage

\* and ends.
LEMMA EndFacts ==
  ASSUME planner \in [Planner -> PlannerState], NEW p \in Planner, SendPlan(p) \/ AbortPlan(p)
  PROVE  planner'[p].stage = "idle"
  BY RestingStage DEF SendPlan, AbortPlan

-----------------------------------------------------------------------------
(* What a run has read *)

\* A row a run finds at its key is replaced by none that knows fewer corrections.
LEMMA FoundRows ==
  ASSUME PlanTypeOK, [PlanNext]_PlanVars, NEW k, NEW v \in Int, v <= version.changes,
         \A r \in plans : Key(r) = k => r.version.changes >= v,
         NEW a \in plans', Key(a) = k
  PROVE  a.version.changes >= v
<1>1. CASE Rewritten
  <2>1. PICK r \in plans : Successor(r, a)
    BY <1>1 DEF Rewritten
  <2>2. QED
    BY <2>1 DEF Successor, Key
<1>2. ASSUME NEW p \in Planner, Stores(p), a \notin plans PROVE a.version = version
  BY <1>2 DEF Stores, NewRow
<1>3. version.changes \in Int
  BY PlanTypes DEF DecisionVersion
<1>4. QED
  BY <1>1, <1>2, <1>3, RowsChange DEF Stores

\* A closed row stays where it is.
LEMMA ClosedRows ==
  ASSUME PlanTypeOK, [PlanNext]_PlanVars, NEW q \in plans, q.status # "pending"
  PROVE  \E a \in plans' : /\ a.material = q.material /\ a.revision = q.revision
                            /\ a.status # "pending"
<1>1. CASE Rewritten
  <2>1. PICK f \in [plans -> Plan] :
          plans' = {f[r] : r \in plans} /\ \A r \in plans : Successor(r, f[r])
    BY <1>1 DEF Rewritten
  <2>2. f[q] \in plans' /\ Successor(q, f[q])
    BY <2>1
  <2>3. QED
    BY <2>2 DEF Successor
<1>2. CASE \E p \in Planner : Stores(p)
  BY <1>2 DEF Stores
<1>3. QED
  BY <1>1, <1>2, RowsChange

\* A run that keeps what it has read, and allocates no key.
Carries(p) ==
  /\ Planning(p)' => planner'[p].at = planner[p].at /\ Planning(p)
  /\ planner'[p].stage \notin {"idle", "version"} =>
       /\ planner[p].stage \notin {"idle", "version"}
       /\ planner'[p].version = planner[p].version
  /\ planner'[p].stage \notin {"idle", "version", "build"} =>
       /\ planner[p].stage \notin {"idle", "version", "build"}
       /\ planner'[p].material = planner[p].material
  /\ Keyed(p)' => Keyed(p) /\ planner'[p].revision = planner[p].revision

\* What was well read stays so while no key is allocated.
LEMMA CarriesReading ==
  ASSUME PlanTypeOK, [PlanNext]_PlanVars, NEW p \in Planner, ReadWell(p), Carries(p)
  PROVE  ReadWell(p)'
<1>0. /\ planner[p].version \in DecisionVersion /\ planner[p].at \in Int /\ runs \in Int
      /\ planner[p].revision \in Nat
  BY PlanTypes DEF PlannerState
<1>1. /\ runs <= runs' /\ runs' \in Int
      /\ version' = version => answer' = answer
  BY <1>0, Onward
<1>2. Planning(p)' => planner'[p].at <= runs'
  BY <1>0, <1>1 DEF ReadWell, Carries
<1>3. planner'[p].stage \notin {"idle", "version"} => Upto(planner'[p].version, version')
  BY <1>0, PastVersion DEF ReadWell, Carries
<1>4. ASSUME planner'[p].stage \notin {"idle", "version", "build"}, planner'[p].version = version'
      PROVE  planner'[p].material.answer = answer'
  <2>1. planner'[p].version = planner[p].version /\ planner'[p].material = planner[p].material
    BY <1>4 DEF Carries
  <2>2. Upto(planner[p].version, version)
    BY <1>4 DEF ReadWell, Carries
  <2>3. version' = version /\ planner[p].version = version
    BY <1>0, <1>4, <2>1, <2>2, PastVersion
  <2>4. planner[p].material.answer = answer
    BY <1>4, <2>3 DEF ReadWell, Carries
  <2>5. QED
    BY <1>1, <2>1, <2>3, <2>4
<1>5. ASSUME Keyed(p)'
      PROVE  /\ \A r \in Rows(Key(planner[p]))' : r.version.changes >= planner'[p].version.changes
             /\ \A i \in 0 .. (planner'[p].revision - 1) :
                  \E q \in plans' : /\ q.material = planner'[p].material /\ q.revision = i
                                    /\ q.status # "pending"
  <2>1. /\ Keyed(p) /\ planner'[p].revision = planner[p].revision
        /\ planner'[p].version = planner[p].version /\ planner'[p].material = planner[p].material
    BY <1>5 DEF Carries, Keyed
  <2>2. Key(planner[p])' = Key(planner[p])
    BY <2>1 DEF Key
  <2> DEFINE k == Key(planner[p])
             v == planner[p].version.changes
  <2>3. v <= version.changes /\ \A r \in plans : Key(r) = k => r.version.changes >= v
    BY <2>1 DEF ReadWell, Rows, Keyed, Upto
  <2>4. ASSUME NEW a \in plans', Key(a) = k PROVE a.version.changes >= v
    <3> HIDE DEF k, v
    <3>1. v \in Int
      BY <1>0 DEF v, DecisionVersion
    <3>2. QED
      BY <2>3, <2>4, <3>1, FoundRows
  <2>5. \A r \in Rows(Key(planner[p]))' : r.version.changes >= planner'[p].version.changes
    BY <2>1, <2>2, <2>4 DEF Rows
  <2>6. ASSUME NEW i \in 0 .. (planner'[p].revision - 1)
        PROVE  \E q \in plans' : /\ q.material = planner'[p].material /\ q.revision = i
                                 /\ q.status # "pending"
    <3>1. PICK q \in plans : /\ q.material = planner[p].material /\ q.revision = i
                             /\ q.status # "pending"
      BY <2>1, <2>6 DEF ReadWell
    <3>2. QED
      BY <2>1, <3>1, ClosedRows
  <2>7. QED
    BY <2>5, <2>6
<1>6. QED
  BY <1>2, <1>3, <1>4, <1>5 DEF ReadWell

\* A run that does not act has read what it had read.
LEMMA OthersCarry ==
  ASSUME PlanTypeOK, NEW p \in Planner, SameRun(p)
  PROVE  Carries(p)
<1>1. planner[p] \in PlannerState
  BY PlanTypes
<1>2. QED
  BY <1>1, SameRunFacts DEF Carries, Planning, Keyed

\* Nor is there anything to lose for one that ends.
LEMMA IdleCarries ==
  ASSUME NEW p \in Planner, planner'[p].stage = "idle"
  PROVE  Carries(p)
  BY DEF Carries, Planning, Keyed

\* What a run has read stays well read.
LEMMA ReadWellStep ==
  ASSUME PlanTypeOK, RowsInv, \A r \in plans : Dated(r), [PlanNext]_PlanVars,
         NEW p \in Planner, ReadWell(p)
  PROVE  ReadWell(p)'
<1>0. /\ planner \in [Planner -> PlannerState] /\ planner[p] \in PlannerState
      /\ planner[p].version \in DecisionVersion /\ version \in DecisionVersion /\ runs \in Int
      /\ plans \subseteq Plan
  BY PlanTypes DEF PlannerState
<1>1. CASE SameRun(p)
  BY <1>1, OthersCarry, CarriesReading
<1>2. CASE BeginPlan(p)
  <2>1. planner'[p].stage = "version" /\ planner'[p].at <= runs'
    BY <1>0, <1>2, BeginFacts
  <2>2. QED
    BY <2>1 DEF ReadWell, Planning, Keyed
<1>3. CASE ReadVersion(p)
  <2>1. /\ planner[p].stage = "version" /\ planner'[p].stage = "build"
        /\ planner'[p].at = planner[p].at /\ planner'[p].version = version
    BY <1>0, <1>3, ReadFacts
  <2>2. version' = version /\ runs' = runs
    BY <1>3 DEF ReadVersion
  <2>3. Upto(planner'[p].version, version')
    BY <1>0, <2>1, <2>2 DEF Upto, DecisionVersion
  <2>4. QED
    BY <1>0, <2>1, <2>2, <2>3 DEF ReadWell, Planning, Keyed
<1>4. CASE Build(p)
  <2>1. /\ planner[p].stage = "build" /\ planner'[p].stage = "check"
        /\ planner'[p].at = planner[p].at /\ planner'[p].version = planner[p].version
        /\ planner'[p].material.answer = answer
    BY <1>0, <1>4, BuildFacts
  <2>2. version' = version /\ runs' = runs /\ answer' = answer
    BY <1>4 DEF Build
  <2>3. QED
    BY <1>0, <2>1, <2>2 DEF ReadWell, Planning, Keyed
<1>5. CASE CheckVersion(p)
  <2>1. Carries(p)
    BY <1>0, <1>5, CheckFacts DEF Carries, SameKey, SameAim, Planning, Keyed
  <2>2. QED
    BY <2>1, CarriesReading
<1>6. CASE Stick(p)
  <2>1. Carries(p)
    BY <1>0, <1>6, StickFacts DEF Carries, SameAim, Planning, Keyed
  <2>2. QED
    BY <2>1, CarriesReading
<1>7. CASE Allocate(p)
  <2> DEFINE m == planner[p].material
             n == planner'[p].revision
  <2>1. /\ planner[p].stage = "allocate" /\ planner'[p].stage = "list"
        /\ planner'[p].at = planner[p].at /\ planner'[p].version = planner[p].version
        /\ planner'[p].material = m /\ n = FreeRevision(m)
    BY <1>0, <1>7, AllocateFacts DEF SameAim
  <2>2. version' = version /\ runs' = runs /\ answer' = answer /\ plans' = plans
    BY <1>7 DEF Allocate
  <2>3. /\ \A r \in plans : r.material = m /\ r.revision = n => r.status = "pending"
        /\ \A i \in 0 .. (n - 1) :
             \E q \in plans : q.material = m /\ q.revision = i /\ q.status # "pending"
    <3>1. IsFiniteSet(plans) /\ n = FreeRevision(m)
      BY <2>1 DEF RowsInv
    <3> HIDE DEF m, n
    <3>2. QED
      BY <3>1, FreeRevisionFacts
  <2>4. ASSUME NEW r \in plans, Key(r) = Key(planner'[p])
        PROVE  r.version.changes >= planner[p].version.changes
    <3>1. r.material = m /\ r.revision = n
      BY <2>1, <2>4 DEF Key
    <3>2. Upto(planner[p].version, version)
      BY <2>1 DEF ReadWell
    <3>3. r.version.changes = version.changes
      BY <2>3, <3>1 DEF Dated
    <3>4. QED
      BY <1>0, <3>2, <3>3 DEF Upto, DecisionVersion
  <2>5. Key(planner[p])' = Key(planner'[p])
    BY DEF Key
  <2>6. /\ \A r \in Rows(Key(planner[p]))' : r.version.changes >= planner'[p].version.changes
        /\ \A i \in 0 .. (planner'[p].revision - 1) :
             \E q \in plans' : /\ q.material = planner'[p].material /\ q.revision = i
                               /\ q.status # "pending"
    BY <2>1, <2>2, <2>3, <2>4, <2>5 DEF Rows
  <2>7. /\ planner'[p].at <= runs' /\ Upto(planner'[p].version, version')
        /\ planner'[p].version = version' => planner'[p].material.answer = answer'
    BY <2>1, <2>2 DEF ReadWell, Planning
  <2>8. QED
    BY <2>6, <2>7 DEF ReadWell
<1>8. ASSUME NEW old, Supersede(p, old), planner[p].stage \in {"list", "supersede"}
      PROVE  ReadWell(p)'
  <2>1. Carries(p)
    BY <1>0, <1>8, SupersedeFacts DEF Carries, SameKey, SameAim, Planning, Keyed
  <2>2. QED
    BY <2>1, CarriesReading
<1>9. CASE ListOthers(p) \/ SupersedeOne(p)
  BY <1>8, <1>9 DEF ListOthers, SupersedeOne
<1>10. CASE Create(p)
  <2>1. Carries(p)
    BY <1>0, <1>10, CreateFacts DEF Carries, SameKey, SameAim, Planning, Keyed
  <2>2. QED
    BY <2>1, CarriesReading
<1>11. CASE SendPlan(p) \/ AbortPlan(p)
  BY <1>0, <1>11, EndFacts, IdleCarries, CarriesReading
<1>12. ASSUME NEW q \in Planner, PlannerStep(q) PROVE ReadWell(p)'
  <2>1. CASE q = p
    BY <1>2, <1>3, <1>4, <1>5, <1>6, <1>7, <1>9, <1>10, <1>11, <1>12, <2>1 DEF PlannerStep
  <2>2. CASE q # p
    BY <1>0, <1>1, <1>12, <2>2, OthersRun
  <2>3. QED
    BY <2>1, <2>2
<1>13. CASE planner' = planner \/ planner' = Belated
  BY <1>0, <1>1, <1>13, OwnerRun
<1>14. QED
  BY <1>12, <1>13 DEF PlanNext, ExpirePlan, News, Acknowledge, Correct, PlanVars

-----------------------------------------------------------------------------
(* Whatever the number of runs at work *)

\* No plan, no run.
LEMMA PlanStart ==
  ASSUME PlanInit
  PROVE  PlanInv /\ AloneInv
<1>1. plans = {} /\ IsFiniteSet(plans)
  BY FS_EmptySet DEF PlanInit
<1>2. PlanTypeOK
  <2>1. /\ 0 \in 0..MaxNews /\ NoDecision \in DecisionVersion /\ 0 \in 0..MaxRuns
        /\ FALSE \in BOOLEAN /\ {} \subseteq Plan
        /\ [p \in Planner |-> Resting] \in [Planner -> PlannerState]
    BY PlanAssumption, RestingTyped DEF NoDecision, DecisionVersion
  <2>2. /\ news = 0 /\ answer = FALSE /\ version = NoDecision /\ plans = {} /\ runs = 0
        /\ planner = [p \in Planner |-> Resting] /\ overlapped = FALSE
    BY DEF PlanInit
  <2>3. QED
    BY <2>1, <2>2, PlanTypes
<1>3. \A p \in Planner : planner[p].stage = "idle"
  BY RestingStage DEF PlanInit
<1>4. \A p \in Planner : ReadWell(p) /\ OnlyRun(p) /\ Looked(p)
  BY <1>3 DEF ReadWell, OnlyRun, Looked, Planning, Keyed
<1>5. QED
  BY <1>1, <1>2, <1>4 DEF PlanInv, AloneInv, RowsInv, Pending

\* Every step keeps what holds for any number of runs at work.
LEMMA PlanStep ==
  ASSUME PlanInv, [PlanNext]_PlanVars
  PROVE  PlanInv'
<1>1. /\ PlanTypeOK /\ RowsInv /\ \A r \in plans : Dated(r)
      /\ \A p \in Planner : ReadWell(p)
  BY DEF PlanInv
<1>2. PlanTypeOK' /\ RowsInv'
  BY <1>1, PlanTypeStep, RowsInvStep
<1>3. \A r \in plans' : Dated(r)'
  BY <1>1, DatedStep
<1>4. \A p \in Planner : ReadWell(p)'
  BY <1>1, ReadWellStep
<1>5. QED
  BY <1>2, <1>3, <1>4 DEF PlanInv

\* Rows, dates and what the runs have read are as they should be, in every behaviour.
THEOREM PlanInvHolds == PlanSpec => []PlanInv
<1>1. PlanInit => PlanInv
  BY PlanStart
<1>2. PlanInv /\ [PlanNext]_PlanVars => PlanInv'
  BY PlanStep
<1>3. QED
  BY <1>1, <1>2, PTL DEF PlanSpec

\* Plans and runs keep their shape, for every bound and set of planners.
THEOREM PlanTyped == PlanSpec => []PlanTypeOK
<1>1. PlanInv => PlanTypeOK
  BY DEF PlanInv
<1>2. QED
  BY <1>1, PlanInvHolds, PTL

\* A run never sends in the name of a row that was planned before a correction the run has read
\* (publication: a key that is taken is a duplicate, whatever its version).
THEOREM SentPlansAreUncorrected == PlanSpec => []SentPlanIsUncorrected
<1>1. PlanInv => SentPlanIsUncorrected
  BY DEF PlanInv, ReadWell, Keyed, SentPlanIsUncorrected
<1>2. QED
  BY <1>1, PlanInvHolds, PTL

-----------------------------------------------------------------------------
(* A run that works alone *)

\* A run at rest is in nobody's way.
LEMMA IdleIsAlone ==
  ASSUME NEW p \in Planner, planner'[p].stage = "idle"
  PROVE  OnlyRun(p)' /\ Looked(p)'
  BY DEF OnlyRun, Looked, Planning, Keyed

\* While a run works alone, all the others are idle before and after its steps.
LEMMA OthersIdle ==
  ASSUME PlanTypeOK, AloneInv, NEW p \in Planner, PlannerStep(p), ~overlapped',
         NEW q \in Planner, q # p
  PROVE  planner'[q].stage = "idle"
<1>1. planner'[q].stage = planner[q].stage
  <2>1. planner \in [Planner -> PlannerState] /\ planner[q] \in PlannerState
    BY PlanTypes
  <2>2. QED
    BY <2>1, OthersRun, SameRunFacts
<1>2. CASE BeginPlan(p)
  BY <1>1, <1>2 DEF BeginPlan, Planning
<1>3. CASE ~BeginPlan(p)
  <2>1. Planning(p) /\ overlapped' = overlapped
    BY <1>3 DEF PlannerStep, ReadVersion, Build, CheckVersion, Stick, Allocate, ListOthers,
                SupersedeOne, Create, SendPlan, AbortPlan, Planning
  <2>2. Planning(q) => q = p
    BY <2>1 DEF AloneInv, OnlyRun
  <2>3. QED
    BY <1>1, <2>2 DEF Planning
<1>4. QED
  BY <1>2, <1>3

\* Closing rows leaves the other pending ones as they are.
LEMMA ChangeCloses ==
  ASSUME plans \subseteq Plan, NEW old, NEW status \in {"expired", "superseded"},
         Change(old, status), NEW a \in plans', a.status = "pending"
  PROVE  a \in plans /\ Key(a) \notin old
<1>1. PICK r \in plans :
        a = IF Key(r) \in old /\ r.status = "pending" THEN [r EXCEPT !.status = status] ELSE r
  BY DEF Change
<1>2. [r EXCEPT !.status = status].status = status
  BY DEF Plan
<1>3. QED
  BY <1>1, <1>2

\* When a run stores its plan alone, nothing else is pending.
LEMMA NothingPending ==
  ASSUME PlanTypeOK, RowsInv, NEW p \in Planner, ReadWell(p), OnlyRun(p), Stores(p)
  PROVE  Pending = {}
<1> DEFINE m == planner[p].material
           n == planner[p].revision
<1>1. SUFFICES ASSUME NEW r \in plans, r.status = "pending" PROVE FALSE
  BY DEF Pending
<1>2. n \in Nat /\ r.revision \in Nat
  BY PlanTypes DEF PlannerState, Plan
<1>3. planner[p].stage = "create" /\ Keyed(p)
  BY DEF Stores, Create, Keyed
<1>4. \A q \in plans : ~(q.material = m /\ q.revision = n)
  BY DEF Stores, Rows, Key
<1>5. r.material = m
  BY <1>1, <1>3 DEF OnlyRun, Pending
<1>6. CASE r.revision < n
  <2>1. r.revision \in 0 .. (n - 1)
    BY <1>2, <1>6
  <2>2. PICK q \in plans : q.material = m /\ q.revision = r.revision /\ q.status # "pending"
    BY <1>3, <2>1 DEF ReadWell
  <2>3. Key(q) = Key(r)
    BY <1>5, <2>2 DEF Key
  <2>4. QED
    BY <1>1, <2>2, <2>3 DEF RowsInv
<1>7. CASE n < r.revision
  <2>1. n \in 0 .. (r.revision - 1)
    BY <1>2, <1>7
  <2>2. QED
    BY <1>4, <1>5, <2>1 DEF RowsInv
<1>8. QED
  BY <1>2, <1>4, <1>5, <1>6, <1>7

\* There is one pending plan, the newest.
LEMMA PendingStep ==
  ASSUME PlanTypeOK, RowsInv, \A p \in Planner : ReadWell(p), AloneInv, ~overlapped,
         [PlanNext]_PlanVars
  PROVE  (/\ \A r, q \in Pending : r = q
          /\ \A r \in Pending, q \in plans : q.at <= r.at)'
<1>0. /\ \A r, q \in Pending : r = q
      /\ \A r \in Pending, q \in plans : q.at <= r.at
      /\ \A p \in Planner : OnlyRun(p)
  BY DEF AloneInv
<1>1. CASE Rewritten
  <2>1. PICK f \in [plans -> Plan] :
          plans' = {f[r] : r \in plans} /\ \A r \in plans : Successor(r, f[r])
    BY <1>1 DEF Rewritten
  <2>2. ASSUME NEW a \in plans', a.status = "pending", NEW b \in plans'
        PROVE  b.at <= a.at /\ (b.status = "pending" => a = b)
    <3>1. PICK r \in plans, q \in plans : a = f[r] /\ b = f[q]
      BY <2>1
    <3>2. /\ r.status = "pending" /\ a.at = r.at /\ b.at = q.at
          /\ b.status = "pending" => q.status = "pending"
      BY <2>1, <2>2, <3>1 DEF Successor
    <3>3. QED
      BY <1>0, <3>1, <3>2 DEF Pending
  <2>3. QED
    BY <2>2 DEF Pending
<1>2. ASSUME NEW p \in Planner, Stores(p)
      PROVE  /\ \A r, q \in Pending' : r = q
             /\ \A r \in Pending', q \in plans' : q.at <= r.at
  <2> DEFINE new == NewRow(p)
  <2>1. Pending = {}
    BY <1>0, <1>2, NothingPending
  <2>2. plans' = plans \cup {new} /\ new.at = planner[p].at /\ new.at \in Int
    BY <1>2, PlanTypes DEF Stores, NewRow, PlannerState
  <2>3. new.at = runs
    BY <1>0, <1>2, <2>2 DEF OnlyRun, Planning, Stores, Create
  <2>4. \A q \in plans : q.at <= new.at
    BY <2>3 DEF RowsInv
  <2> HIDE DEF new
  <2>5. Pending' \subseteq {new}
    BY <2>1, <2>2 DEF Pending
  <2>6. QED
    BY <2>2, <2>4, <2>5
<1>3. QED
  BY <1>1, <1>2, RowsChange

\* What the owner, the news and deadlines do leaves a run alone.
LEMMA OwnerAlone ==
  ASSUME PlanInv, AloneInv, ~overlapped, NEW p \in Planner, ~(\E q \in Planner : PlannerStep(q)),
         [PlanNext]_PlanVars
  PROVE  OnlyRun(p)' /\ Looked(p)'
<1>0. /\ planner \in [Planner -> PlannerState] /\ planner[p] \in PlannerState
      /\ plans \subseteq Plan
      /\ OnlyRun(p) /\ Looked(p) /\ ReadWell(p) /\ planner[p].version \in DecisionVersion
      /\ \A q \in Planner : planner[q] \in PlannerState
  BY PlanTypes DEF PlanInv, AloneInv, PlannerState
<1>1. /\ runs' = runs
      /\ (planner' = planner /\ plans' = plans) \/ planner' = Belated
      /\ Pending' \subseteq Pending
  <2>1. CASE plans' = plans
    BY <2>1 DEF PlanNext, ExpirePlan, News, Acknowledge, Correct, PlanVars, Pending
  <2>2. CASE Correct \/ \E r \in plans : ExpirePlan(r)
    <3>1. runs' = runs /\ planner' = Belated
      BY <2>2 DEF Correct, ExpirePlan
    <3>2. Pending' \subseteq Pending
      BY <1>0, <2>2, ChangeCloses DEF Correct, ExpirePlan, Pending
    <3>3. QED
      BY <3>1, <3>2
  <2>3. QED
    BY <2>1, <2>2 DEF PlanNext, News, Acknowledge, PlanVars
<1>2. \A q \in Planner : planner'[q].stage = planner[q].stage
  BY <1>0, <1>1, OwnerRun, SameRunFacts
<1>3. /\ planner'[p].at = planner[p].at /\ planner'[p].version = planner[p].version
      /\ planner'[p].daily = planner[p].daily /\ planner'[p].decisive = planner[p].decisive
      /\ planner'[p].old = planner[p].old /\ planner'[p].material = planner[p].material
      /\ planner'[p].revision = planner[p].revision
  BY <1>0, <1>1, OwnerRun, SameRunFacts
<1>4. Planning(p)' => planner'[p].at = runs' /\ \A q \in Planner : Planning(q)' => q = p
  BY <1>0, <1>1, <1>2, <1>3 DEF OnlyRun, Planning
<1>5. Keyed(p)' /\ ~planner'[p].late => \A r \in Rows(Key(planner[p]))' : r.status = "pending"
  <2>1. CASE planner' = planner /\ plans' = plans
    BY <1>0, <2>1 DEF OnlyRun, Keyed, Rows, Key
  <2>2. CASE planner' = Belated
    BY <1>0, <1>2, <2>2, OwnerRun DEF Keyed
  <2>3. QED
    BY <1>1, <2>1, <2>2
<1>6. \A r : Key(r)' = Key(r)
  BY DEF Key
<1>7. OnlyRun(p)'
  <2>1. planner'[p].stage = "supersede" =>
          \A k \in planner'[p].old : k.material # planner'[p].material
    BY <1>0, <1>2, <1>3 DEF OnlyRun
  <2>2. planner'[p].stage = "create" => planner'[p].old = {}
    BY <1>0, <1>2, <1>3 DEF OnlyRun
  <2>3. planner'[p].stage \in {"supersede", "create"} =>
          \A r \in Pending' : r.material = planner'[p].material \/ Key(r) \in planner'[p].old
    BY <1>0, <1>1, <1>2, <1>3 DEF OnlyRun
  <2>4. QED
    BY <1>4, <1>5, <1>6, <2>1, <2>2, <2>3 DEF OnlyRun
<1>8. Looked(p)'
  <2>1. ASSUME planner'[p].stage \in {"allocate", "list", "supersede"},
               version' = planner'[p].version
        PROVE  version' = version
    BY <1>0, <1>2, <1>3, <2>1, PastVersion DEF PlanInv, ReadWell
  <2>2. ASSUME NEW r \in Pending' PROVE Retains(r, planner[p].material, FALSE)' =
                                        Retains(r, planner[p].material, FALSE)
    BY <1>3 DEF Retains
  <2>3. QED
    BY <1>0, <1>1, <1>2, <1>3, <2>1, <2>2 DEF Looked
<1>9. QED
  BY <1>7, <1>8

\* A run's own step, taken alone.
LEMMA ActorAlone ==
  ASSUME PlanInv, AloneInv, ~overlapped, NEW p \in Planner, PlannerStep(p), ~overlapped',
         PlanInv', Pending' = Pending \/ SupersedeOne(p) \/ Create(p) \/ SendPlan(p)
  PROVE  OnlyRun(p)' /\ Looked(p)'
<1>0. /\ planner \in [Planner -> PlannerState] /\ planner[p] \in PlannerState
      /\ plans \subseteq Plan
      /\ OnlyRun(p) /\ Looked(p) /\ ReadWell(p) /\ PlanTypeOK /\ RowsInv
      /\ \A r \in Pending, q \in plans : q.at <= r.at
  BY PlanTypes DEF PlanInv, AloneInv
<1>1. \A q \in Planner : Planning(q)' => q = p
  BY <1>0, OthersIdle DEF Planning
<1>2. CASE planner'[p].stage = "idle"
  BY <1>2, IdleIsAlone
<1>3. CASE BeginPlan(p)
  BY <1>0, <1>1, <1>3, BeginFacts DEF OnlyRun, Looked, Keyed
<1>4. CASE ReadVersion(p)
  <2>1. runs' = runs
    BY <1>4 DEF ReadVersion
  <2>2. QED
    BY <1>0, <1>1, <1>4, <2>1, ReadFacts DEF OnlyRun, Looked, Keyed, Planning
<1>5. CASE Build(p)
  <2>1. runs' = runs
    BY <1>5 DEF Build
  <2>2. QED
    BY <1>0, <1>1, <1>5, <2>1, BuildFacts DEF OnlyRun, Looked, Keyed, Planning
<1>6. CASE CheckVersion(p)
  <2>1. runs' = runs
    BY <1>6 DEF CheckVersion
  <2>2. planner[p].stage = "check" /\ (planner'[p].stage = "idle" \/
                                       (planner'[p].stage = "stick" /\ SameKey(p)))
    BY <1>0, <1>6, CheckFacts
  <2>3. QED
    BY <1>0, <1>1, <1>2, <2>1, <2>2 DEF OnlyRun, Looked, Keyed, Planning, SameKey, SameAim
<1>7. CASE Stick(p) /\ planner'[p].stage # "idle"
  <2>1. /\ planner[p].stage = "stick" /\ planner'[p].stage = "allocate" /\ SameAim(p)
        /\ ~Sticks(p, planner'[p].decisive)
    BY <1>0, <1>7, StickFacts
  <2>2. runs' = runs /\ version' = version /\ plans' = plans
    BY <1>7 DEF Stick
  <2>3. OnlyRun(p)'
    BY <1>0, <1>1, <2>1, <2>2 DEF OnlyRun, Keyed, Planning, SameAim
  <2>4. ASSUME ~planner'[p].daily, ~planner'[p].decisive, NEW r \in Pending, r.seen,
               r.version = version
        PROVE  ~Retains(r, planner[p].material, FALSE)
    <3>1. planner'[p].decisive = FALSE /\ ~planner[p].daily
      <4>1. planner'[p] \in PlannerState
        BY PlanTypes DEF PlanInv, PlanTypeOK, PlannerState
      <4>2. QED
        BY <2>1, <2>4, <4>1 DEF SameAim, PlannerState
    <3>2. r \in Published
      BY <1>0, <2>4 DEF Published, Current, Pending
    <3>3. ~Sticks(p, FALSE)
      BY <2>1, <3>1
    <3>4. QED
      BY <3>1, <3>2, <3>3 DEF Sticks
  <2>5. \A r : Retains(r, planner[p].material, FALSE)' = Retains(r, planner[p].material, FALSE)
    BY <2>1 DEF Retains, SameAim
  <2>6. Pending' = Pending
    BY <2>2 DEF Pending
  <2>7. Looked(p)'
    BY <2>2, <2>4, <2>5, <2>6 DEF Looked
  <2>8. QED
    BY <2>3, <2>7
<1>8. CASE Allocate(p)
  <2> DEFINE m == planner[p].material
             n == planner'[p].revision
  <2>1. /\ planner[p].stage = "allocate" /\ planner'[p].stage = "list" /\ SameAim(p)
        /\ n = FreeRevision(m) /\ planner'[p].decisive = planner[p].decisive
    BY <1>0, <1>8, AllocateFacts
  <2>2. runs' = runs /\ version' = version /\ plans' = plans
    BY <1>8 DEF Allocate
  <2>3. \A r \in plans : r.material = m /\ r.revision = n => r.status = "pending"
    <3>1. IsFiniteSet(plans) /\ n = FreeRevision(m)
      BY <1>0, <2>1 DEF RowsInv
    <3> HIDE DEF m, n
    <3>2. QED
      BY <3>1, FreeRevisionFacts
  <2>4. \A r \in Rows(Key(planner[p]))' : r.status = "pending"
    BY <2>1, <2>2, <2>3 DEF Rows, Key, SameAim
  <2>5. OnlyRun(p)'
    BY <1>0, <1>1, <2>1, <2>2, <2>4 DEF OnlyRun, Planning, SameAim
  <2>6. \A r : Retains(r, planner[p].material, FALSE)' = Retains(r, planner[p].material, FALSE)
    BY <2>1 DEF Retains, SameAim
  <2>7. Looked(p)'
    BY <1>0, <2>1, <2>2, <2>6 DEF Looked, Pending, SameAim
  <2>8. QED
    BY <2>5, <2>7
<1>9. ASSUME NEW old, Supersede(p, old), planner[p].stage \in {"list", "supersede"},
             runs' = runs, version' = version, Pending' \subseteq Pending,
             \A k \in old : k.material # planner[p].material,
             \A r \in Pending' : r.material = planner[p].material \/ Key(r) \in old,
             \A a \in plans' : Key(a) = Key(planner[p]) => a \in plans
      PROVE  OnlyRun(p)' /\ Looked(p)'
  <2>1. /\ planner'[p].stage = (IF old = {} THEN "create" ELSE "supersede")
        /\ SameKey(p) /\ planner'[p].old = old
    BY <1>0, <1>9, SupersedeFacts
  <2>2. Key(planner[p])' = Key(planner[p])
    BY <2>1 DEF Key, SameKey, SameAim
  <2>3. planner'[p].at = runs' /\ Keyed(p)
    BY <1>0, <1>9, <2>1 DEF OnlyRun, Planning, SameKey, SameAim, Keyed
  <2>4. ~planner'[p].late => \A r \in Rows(Key(planner[p]))' : r.status = "pending"
    BY <1>0, <1>9, <2>1, <2>2, <2>3 DEF OnlyRun, Rows, SameKey
  <2>5. /\ planner'[p].stage = "supersede" =>
             \A k \in planner'[p].old : k.material # planner'[p].material
        /\ planner'[p].stage = "create" => planner'[p].old = {}
    BY <1>9, <2>1 DEF SameKey, SameAim
  <2>6. \A r \in Pending' : r.material = planner'[p].material \/ Key(r) \in planner'[p].old
    BY <1>9, <2>1 DEF SameKey, SameAim
  <2>7. \A r : Key(r)' = Key(r)
    BY DEF Key
  <2>8. OnlyRun(p)'
    BY <1>1, <2>3, <2>4, <2>5, <2>6, <2>7 DEF OnlyRun
  <2>9. \A r : Retains(r, planner[p].material, FALSE)' = Retains(r, planner[p].material, FALSE)
    BY <2>1 DEF Retains, SameKey, SameAim
  <2>10. Looked(p)'
    BY <1>0, <1>9, <2>1, <2>9 DEF Looked, SameKey, SameAim
  <2>11. QED
    BY <2>8, <2>10
<1>10. CASE ListOthers(p)
  <2> DEFINE old == {Key(r) : r \in {q \in plans :
                       q.status = "pending" /\ q.material # planner[p].material}}
  <2>1. /\ Supersede(p, old) /\ planner[p].stage = "list" /\ runs' = runs
        /\ version' = version /\ plans' = plans
    BY <1>10 DEF ListOthers
  <2>2. \A k \in old : k.material # planner[p].material
    BY DEF Key
  <2>3. Pending' = Pending /\ \A r \in Pending : r.material = planner[p].material \/ Key(r) \in old
    BY <2>1 DEF Pending
  <2> HIDE DEF old
  <2>4. QED
    BY <1>9, <2>1, <2>2, <2>3
<1>11. CASE SupersedeOne(p)
  <2>1. PICK k \in planner[p].old : Change({k}, "superseded") /\ Supersede(p, planner[p].old \ {k})
    BY <1>11 DEF SupersedeOne
  <2> DEFINE old == planner[p].old \ {k}
  <2>2. planner[p].stage = "supersede" /\ runs' = runs /\ version' = version
    BY <1>11 DEF SupersedeOne
  <2>3. \A a \in Pending' : a \in Pending /\ Key(a) # k
    BY <1>0, <2>1, ChangeCloses DEF Pending
  <2>4. \A c \in planner[p].old : c.material # planner[p].material
    BY <1>0, <2>2 DEF OnlyRun
  <2>5. \A r \in Pending' : r.material = planner[p].material \/ Key(r) \in old
    BY <1>0, <2>2, <2>3 DEF OnlyRun
  <2>6. ASSUME NEW a \in plans', Key(a) = Key(planner[p]) PROVE a \in plans
    <3>1. PICK r \in plans :
            a = IF Key(r) \in {k} /\ r.status = "pending"
                THEN [r EXCEPT !.status = "superseded"] ELSE r
      BY <2>1 DEF Change
    <3>2. Key([r EXCEPT !.status = "superseded"]) = Key(r)
      BY <1>0 DEF Key, Plan
    <3>3. k.material # Key(planner[p]).material
      BY <2>1, <2>4 DEF Key
    <3>4. QED
      BY <2>6, <3>1, <3>2, <3>3
  <2> HIDE DEF old
  <2>7. /\ Supersede(p, old) /\ Pending' \subseteq Pending
        /\ \A c \in old : c.material # planner[p].material
    BY <2>1, <2>3, <2>4 DEF old
  <2>8. QED
    BY <1>9, <2>2, <2>5, <2>6, <2>7
<1>12. CASE Create(p) /\ planner'[p].stage # "idle"
  <2>1. /\ planner[p].stage = "create" /\ planner'[p].stage = "send" /\ SameKey(p)
        /\ Stores(p) \/ plans' = plans
    BY <1>0, <1>12, CreateFacts
  <2>2. runs' = runs
    BY <1>12 DEF Create
  <2>3. Key(planner[p])' = Key(planner[p])
    BY <2>1 DEF Key, SameKey, SameAim
  <2>4. ~planner'[p].late => \A r \in Rows(Key(planner[p]))' : r.status = "pending"
    <3>1. CASE plans' = plans
      BY <1>0, <2>1, <2>3, <3>1 DEF OnlyRun, Keyed, Rows, SameKey
    <3>2. CASE Stores(p)
      <4>1. /\ plans' = plans \cup {NewRow(p)} /\ NewRow(p).status = "pending"
            /\ \A r \in plans : Key(r) # Key(planner[p])
        BY <3>2 DEF Stores, NewRow, Rows
      <4> HIDE DEF NewRow
      <4>2. QED
        BY <2>3, <4>1 DEF Rows
    <3>3. QED
      BY <2>1, <3>1, <3>2
  <2>5. QED
    BY <1>0, <1>1, <2>1, <2>2, <2>4 DEF OnlyRun, Looked, Planning, SameKey, SameAim
<1>13. QED
  BY <1>0, <1>2, <1>3, <1>4, <1>5, <1>6, <1>7, <1>8, <1>10, <1>11, <1>12, EndFacts DEF PlannerStep

\* Every step keeps what holds while runs follow one another.
LEMMA AloneStep ==
  ASSUME PlanInv, AloneInv, PlanInv', [PlanNext]_PlanVars
  PROVE  AloneInv'
<1> SUFFICES ASSUME ~overlapped' PROVE AloneInv'
  BY DEF AloneInv
<1>1. /\ PlanTypeOK /\ RowsInv /\ \A p \in Planner : ReadWell(p)
      /\ planner \in [Planner -> PlannerState]
  BY PlanTypes DEF PlanInv
<1>2. ~overlapped
  BY <1>1, Onward
<1>3. (/\ \A r, q \in Pending : r = q
       /\ \A r \in Pending, q \in plans : q.at <= r.at)'
  BY <1>1, <1>2, PendingStep
<1>4. ASSUME NEW p \in Planner PROVE OnlyRun(p)' /\ Looked(p)'
  <2>1. CASE PlannerStep(p)
    <3>1. Pending' = Pending \/ SupersedeOne(p) \/ Create(p) \/ SendPlan(p)
      BY <2>1 DEF PlannerStep, BeginPlan, ReadVersion, Build, CheckVersion, Stick, Allocate,
                  ListOthers, AbortPlan, Pending
    <3>2. QED
      BY <1>2, <2>1, <3>1, ActorAlone
  <2>2. ASSUME NEW q \in Planner, PlannerStep(q), q # p PROVE OnlyRun(p)' /\ Looked(p)'
    BY <1>1, <2>2, OthersIdle, IdleIsAlone
  <2>3. CASE ~\E q \in Planner : PlannerStep(q)
    BY <1>2, <2>3, OwnerAlone
  <2>4. QED
    BY <2>1, <2>2, <2>3
<1>5. QED
  BY <1>3, <1>4 DEF AloneInv

\* What a run relies on when it works alone holds as long as no two have overlapped.
THEOREM AloneInvHolds == PlanSpec => []AloneInv
<1>1. PlanInit => AloneInv
  BY PlanStart
<1>2. PlanInv /\ PlanInv' /\ AloneInv /\ [PlanNext]_PlanVars => AloneInv'
  BY AloneStep
<1>3. QED
  BY <1>1, <1>2, PlanInvHolds, PTL DEF PlanSpec

\* One plan at most is pending, although the others are superseded and the new one inserted in
\* separate statements, unless two runs have planned at once.
THEOREM OnePlanPending == PlanSpec => []OnePendingPlan
<1>1. ASSUME AloneInv PROVE OnePendingPlan
  <2>1. SUFFICES ASSUME ~overlapped PROVE Cardinality(Pending) <= 1
    BY DEF OnePendingPlan, Pending
  <2>2. \A r, q \in Pending : r = q
    BY <1>1, <2>1 DEF AloneInv
  <2>3. CASE Pending = {}
    BY <2>3, FS_EmptySet
  <2>4. ASSUME NEW r \in Pending PROVE Cardinality(Pending) <= 1
    <3>1. Pending = {r}
      BY <2>2, <2>4
    <3>2. QED
      BY <3>1, FS_Singleton
  <2>5. QED
    BY <2>3, <2>4
<1>2. QED
  BY <1>1, AloneInvHolds, PTL

\* What a run sends is still pending unless it came too late.
THEOREM SentPlansArePending == PlanSpec => []SentPlanIsPending
<1>1. AloneInv => SentPlanIsPending
  BY DEF AloneInv, OnlyRun, Keyed, SentPlanIsPending
<1>2. QED
  BY <1>1, AloneInvHolds, PTL

\* When a pending row the owner has seen turns superseded, the run that did it had a reason.
LEMMA SupersededSeen ==
  ASSUME PlanInv, AloneInv, ~overlapped, [PlanNext]_PlanVars, version' = version,
         NEW r \in plans, r.status = "pending", r.seen,
         [r EXCEPT !.status = "superseded"] \in plans'
  PROVE  \E p \in Planner :
           /\ Key(r) \in planner[p].old
           /\ \/ planner[p].daily \/ planner[p].decisive
              \/ r.material.news # planner[p].material.news
              \/ r.version # planner[p].version
              \/ version # planner[p].version
<1> DEFINE c == [r EXCEPT !.status = "superseded"]
<1>0. /\ plans \subseteq Plan /\ RowsInv /\ r \in Plan
      /\ \A p \in Planner : planner[p] \in PlannerState
  BY PlanTypes DEF PlanInv
<1>1. c \in plans' /\ c.status = "superseded" /\ Key(c) = Key(r)
  BY <1>0 DEF Plan, Key
<1> HIDE DEF c
<1>2. \A q \in plans : Key(q) = Key(c) => q = r
  BY <1>0, <1>1 DEF RowsInv
<1>3. c \notin plans
  BY <1>1, <1>2
<1>4. \A q \in plans : q \in Plan
  BY <1>0
<1>5. ~\E q \in plans : ExpirePlan(q)
  <2>1. SUFFICES ASSUME NEW q \in plans, ExpirePlan(q) PROVE FALSE
    OBVIOUS
  <2>2. PICK o \in plans :
          c = IF Key(o) \in {Key(q)} /\ o.status = "pending"
              THEN [o EXCEPT !.status = "expired"] ELSE o
    BY <1>1, <2>1 DEF ExpirePlan, Change
  <2>3. [o EXCEPT !.status = "expired"].status = "expired"
    BY <1>4 DEF Plan
  <2>4. QED
    BY <1>1, <1>3, <2>2, <2>3
<1>6. ASSUME NEW p \in Planner, SendPlan(p) PROVE FALSE
  <2>1. PICK seen \in BOOLEAN :
          plans' = {IF Key(o) = Key(planner[p]) THEN [o EXCEPT !.seen = @ \/ seen] ELSE o :
                    o \in plans}
    BY <1>6 DEF SendPlan
  <2>2. PICK o \in plans : c = IF Key(o) = Key(planner[p]) THEN [o EXCEPT !.seen = @ \/ seen] ELSE o
    BY <1>1, <2>1
  <2>3. Key(c) = Key(o) /\ c.status = o.status
    BY <1>4, <2>2 DEF Plan, Key
  <2>4. QED
    BY <1>1, <1>2, <2>3
<1>7. ASSUME NEW p \in Planner, Create(p) PROVE FALSE
  <2>1. plans' = plans \/ plans' = plans \cup {NewRow(p)}
    BY <1>7 DEF Create, NewRow
  <2>2. NewRow(p).status = "pending"
    BY DEF NewRow
  <2>3. QED
    BY <1>1, <1>3, <2>1, <2>2
<1>8. PICK p \in Planner : SupersedeOne(p)
  <2>1. plans' # plans
    BY <1>1, <1>3
  <2>2. ~Correct
    <3>1. version \in DecisionVersion
      BY PlanTypes DEF PlanInv
    <3>2. QED
      BY <3>1, DecisionCounts DEF Correct
  <2>3. QED
    BY <1>5, <1>6, <1>7, <2>1, <2>2
    DEF PlanNext, PlannerStep, BeginPlan, ReadVersion, Build, CheckVersion, Stick, Allocate,
        ListOthers, AbortPlan, News, Acknowledge, PlanVars
<1>9. Key(r) \in planner[p].old /\ planner[p].stage = "supersede"
  <2>1. PICK k \in planner[p].old : Change({k}, "superseded")
    BY <1>8 DEF SupersedeOne
  <2>2. PICK o \in plans :
          c = IF Key(o) \in {k} /\ o.status = "pending"
              THEN [o EXCEPT !.status = "superseded"] ELSE o
    BY <1>1, <2>1 DEF Change
  <2>3. Key([o EXCEPT !.status = "superseded"]) = Key(o)
    BY <1>4 DEF Plan, Key
  <2>4. Key(o) = k /\ Key(c) = k
    BY <1>3, <2>2, <2>3
  <2>5. QED
    BY <1>1, <1>8, <2>4 DEF SupersedeOne
<1>10. SUFFICES ASSUME /\ ~planner[p].daily /\ ~planner[p].decisive
                       /\ r.material.news = planner[p].material.news
                       /\ r.version = planner[p].version /\ version = planner[p].version
                PROVE  FALSE
  BY <1>9
<1>11. OnlyRun(p) /\ Looked(p) /\ ReadWell(p) /\ Dated(r)
  BY DEF PlanInv, AloneInv
<1>12. r.material.answer = answer /\ planner[p].material.answer = answer
  BY <1>0, <1>9, <1>10, <1>11 DEF Dated, ReadWell
<1>13. r.material # planner[p].material
  BY <1>9, <1>11 DEF OnlyRun, Key
<1>14. r.material.stance # planner[p].material.stance
  BY <1>0, <1>10, <1>12, <1>13 DEF Plan, PlannerState, Material
<1>15. Retains(r, planner[p].material, FALSE)
  BY <1>10, <1>12, <1>14 DEF Retains
<1>16. QED
  BY <1>9, <1>10, <1>11, <1>15 DEF Looked, Pending

\* Advice the owner has seen is withdrawn for a reason only: the check made before a key is
\* allocated still counts when the row is superseded, several awaits later.
THEOREM SeenAdviceIsKept == PlanSpec => SeenAdviceSticks
<1> DEFINE Kept ==
      \A r \in plans :
        /\ r.status = "pending" /\ r.seen /\ ~overlapped
        /\ [r EXCEPT !.status = "superseded"] \in plans'
        => \/ version' # version
           \/ \E p \in Planner :
                /\ Key(r) \in planner[p].old
                /\ \/ planner[p].daily \/ planner[p].decisive
                   \/ r.material.news # planner[p].material.news
                   \/ r.version # planner[p].version
                   \/ version # planner[p].version
<1>1. ASSUME PlanInv, AloneInv, [PlanNext]_PlanVars PROVE [Kept]_PlanVars
  BY <1>1, SupersededSeen
<1> HIDE DEF Kept
<1>2. PlanSpec => [][Kept]_PlanVars
  BY <1>1, PlanInvHolds, AloneInvHolds, PTL DEF PlanSpec
<1>3. QED
  BY <1>2 DEF Kept, SeenAdviceSticks

================================================================================
