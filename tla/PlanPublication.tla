---------------------------- MODULE PlanPublication ----------------------------
(***************************************************************************)
(* The team's weekly plan as a row of recommendations.  A run collects     *)
(* evidence, fixes the version of the owner's decisions, computes a plan,  *)
(* keeps the advice the owner has already seen if only the model's noise   *)
(* speaks against it, and otherwise supersedes what is pending, stores the *)
(* new plan if the version still stands, and sends it.                     *)
(*                                                                         *)
(* A plan is what the evidence (news), the owner's decisions (answer) and  *)
(* the model (stance: act or wait) make of it; these three are its material*)
(* hash.  A decision always moves the version and need not move the        *)
(* material: the version counts edits and clicks.  The children of a plan  *)
(* are the subject of LockIn, the delivery of a message that of            *)
(* NotificationDelivery.                                                   *)
(***************************************************************************)
EXTENDS Integers, FiniteSets

CONSTANTS
  Planner,      \* invocations that may plan at the same time
  MaxNews,      \* bound: changes of the evidence
  MaxVersion,   \* bound: decisions of the owner
  MaxRuns       \* bound: runs that are started

ASSUME PlanAssumption ==
  MaxNews \in Nat /\ MaxVersion \in Nat /\ MaxRuns \in Nat

VARIABLES
  news,         \* the evidence as it is now
  answer,       \* the owner's decisions: taken or not
  version,      \* decision_version: how often the owner decided, by edits and by links
  plans,        \* the weekly_lineup rows of recommendations
  planner,      \* the runs
  runs,         \* runs started so far: the clock by which rows are dated
  overlapped    \* history: two runs were at work at once

PlanVars == <<news, answer, version, plans, planner, runs, overlapped>>

Stance == {"act", "wait"}
DecisionVersion == [changes : 0..MaxVersion, acks : 0..MaxVersion]
Material == [news : 0..MaxNews, answer : BOOLEAN, stance : Stance]
Plan == [material : Material, revision : Nat, version : DecisionVersion, at : 0..MaxRuns,
         status : {"pending", "expired", "superseded"}, seen : BOOLEAN]
NoDecision == [changes |-> 0, acks |-> 0]
NoMaterial == [news |-> 0, answer |-> FALSE, stance |-> "wait"]
Resting == [stage |-> "idle", at |-> 0, version |-> NoDecision, material |-> NoMaterial,
            revision |-> 0, daily |-> FALSE, decisive |-> FALSE, old |-> {}, late |-> FALSE]

PlanTypeOK ==
  /\ news \in 0..MaxNews /\ answer \in BOOLEAN /\ version \in DecisionVersion
  /\ plans \subseteq Plan
  /\ planner \in [Planner ->
       [stage : {"idle", "version", "build", "check", "stick", "allocate", "list",
                 "supersede", "create", "send"},
        at : 0..MaxRuns, version : DecisionVersion, material : Material, revision : Nat,
        daily : BOOLEAN, decisive : BOOLEAN, late : BOOLEAN,
        old : SUBSET [material : Material, revision : Nat]]]
  /\ runs \in 0..MaxRuns /\ overlapped \in BOOLEAN

Planning(p) == planner[p].stage # "idle"
Key(r) == [material |-> r.material, revision |-> r.revision]
Rows(k) == {r \in plans : Key(r) = k}

\* latest_current_recommendation: the newest row that is not superseded, and
\* only if it was planned against the present decisions.
Current ==
  LET live == {r \in plans : r.status # "superseded"}
      newest == {r \in live : \A o \in live : o.at <= r.at} IN
  {r \in newest : r.version = version}

\* Advice that asks for something counts as published once it was delivered.
Published ==
  {r \in Current : r.status = "pending" /\ (r.material.stance = "act" => r.seen)}

\* The rows of others that are pending are superseded one by one.
Supersede(p, old) ==
  planner' = [planner EXCEPT ![p].stage = IF old = {} THEN "create" ELSE "supersede",
                             ![p].old = old]
Change(old, status) ==
  plans' = {IF Key(r) \in old /\ r.status = "pending" THEN [r EXCEPT !.status = status]
            ELSE r : r \in plans}

----------------------------------------------------------------------------
\* Collection; the row will bear the time at which the run began.
BeginPlan(p) ==
  /\ ~Planning(p)
  /\ runs < MaxRuns
  /\ runs' = runs + 1
  /\ \E daily \in BOOLEAN :
       planner' = [planner EXCEPT ![p] =
         [Resting EXCEPT !.stage = "version", !.at = runs + 1, !.daily = daily,
                         !.material.news = news]]
  /\ overlapped' = (overlapped \/ \E o \in Planner : Planning(o))
  /\ UNCHANGED <<news, answer, version, plans>>

ReadVersion(p) ==
  /\ planner[p].stage = "version"
  /\ planner' = [planner EXCEPT ![p].stage = "build", ![p].version = version]
  /\ UNCHANGED <<news, answer, version, plans, runs, overlapped>>

\* The decisions are read and the plan is computed from them.
Build(p) ==
  /\ planner[p].stage = "build"
  /\ \E stance \in Stance :
       planner' = [planner EXCEPT ![p].stage = "check", ![p].material.answer = answer,
                                  ![p].material.stance = stance]
  /\ UNCHANGED <<news, answer, version, plans, runs, overlapped>>

\* A run whose decisions were changed under it is discarded.
CheckVersion(p) ==
  /\ planner[p].stage = "check"
  /\ planner' = [planner EXCEPT ![p] =
       IF version = planner[p].version THEN [@ EXCEPT !.stage = "stick"] ELSE Resting]
  /\ UNCHANGED <<news, answer, version, plans, runs, overlapped>>

\* Published advice is kept only when the new plan says the same.
RetainsWrongSame(r, material, decisive) == r.material = material /\ ~decisive

\* Same evidence, another stance, and no clear reason for it.
Retains(r, material, decisive) ==
  /\ r.material.news = material.news /\ r.material.answer = material.answer
  /\ r.material.stance # material.stance
  /\ ~decisive

Sticks(p, decisive) ==
  /\ ~planner[p].daily
  /\ \E r \in Published : Retains(r, planner[p].material, decisive)

\* The daily confirmation is planned without looking at published advice.
Stick(p) ==
  /\ planner[p].stage = "stick"
  /\ \E decisive \in BOOLEAN :
       planner' = [planner EXCEPT ![p] =
         IF Sticks(p, decisive) THEN Resting
         ELSE [@ EXCEPT !.stage = "allocate", !.decisive = decisive]]
  /\ UNCHANGED <<news, answer, version, plans, runs, overlapped>>

\* A revision that has expired is taken again.
FreeRevisionWrongExpired(material) ==
  CHOOSE n \in 0..Cardinality(plans) :
    LET open(i) == \A r \in Rows([material |-> material, revision |-> i]) :
                     r.status # "superseded" IN
    open(n) /\ \A i \in 0..(n - 1) : ~open(i)

\* The first revision of the material that is free or pending.
FreeRevision(material) ==
  CHOOSE n \in 0..Cardinality(plans) :
    LET open(i) == \A r \in Rows([material |-> material, revision |-> i]) :
                     r.status = "pending" IN
    open(n) /\ \A i \in 0..(n - 1) : ~open(i)

Allocate(p) ==
  /\ planner[p].stage = "allocate"
  /\ planner' = [planner EXCEPT ![p].stage = "list",
                                ![p].revision = FreeRevision(planner[p].material)]
  /\ UNCHANGED <<news, answer, version, plans, runs, overlapped>>

\* Plans from the same evidence are left alone.
ListOthersWrongNews(p) ==
  /\ planner[p].stage = "list"
  /\ Supersede(p, {Key(r) : r \in {q \in plans :
                     q.status = "pending" /\ q.material.news # planner[p].material.news}})
  /\ UNCHANGED <<news, answer, version, plans, runs, overlapped>>

ListOthers(p) ==
  /\ planner[p].stage = "list"
  /\ Supersede(p, {Key(r) : r \in {q \in plans :
                     q.status = "pending" /\ q.material # planner[p].material}})
  /\ UNCHANGED <<news, answer, version, plans, runs, overlapped>>

SupersedeOne(p) ==
  /\ planner[p].stage = "supersede"
  /\ \E k \in planner[p].old :
       /\ Change({k}, "superseded")
       /\ Supersede(p, planner[p].old \ {k})
  /\ UNCHANGED <<news, answer, version, runs, overlapped>>

\* One statement compares the version and inserts; an existing row is kept.
\* A run whose row does not exist ends as a duplicate, a quiet plan is stored
\* and not sent, and so is one the owner has already received.
Create(p) ==
  LET me == planner[p]
      kept == Rows(Key(me))
      new == [material |-> me.material, revision |-> me.revision, version |-> me.version,
              at |-> me.at, status |-> "pending", seen |-> FALSE] IN
  /\ me.stage = "create"
  /\ plans' = IF kept = {} /\ version = me.version THEN plans \cup {new} ELSE plans
  /\ planner' = [planner EXCEPT ![p] =
       IF \/ kept = {} /\ version # me.version
          \/ me.material.stance = "wait"
          \/ \E r \in kept : r.seen
       THEN Resting ELSE [@ EXCEPT !.stage = "send"]]
  /\ UNCHANGED <<news, answer, version, runs, overlapped>>

\* The message arrives, or it does not and stays due for a retry.
SendPlan(p) ==
  /\ planner[p].stage = "send"
  /\ \E seen \in BOOLEAN :
       plans' = {IF Key(r) = Key(planner[p]) THEN [r EXCEPT !.seen = @ \/ seen] ELSE r :
                 r \in plans}
  /\ planner' = [planner EXCEPT ![p] = Resting]
  /\ UNCHANGED <<news, answer, version, runs, overlapped>>

\* A read or a write fails, or the invocation ends.
AbortPlan(p) ==
  /\ Planning(p)
  /\ planner' = [planner EXCEPT ![p] = Resting]
  /\ UNCHANGED <<news, answer, version, plans, runs, overlapped>>

----------------------------------------------------------------------------
\* Runs that have fixed the row they are going to send.
Belated == [p \in Planner |->
  IF planner[p].stage \in {"list", "supersede", "create", "send"}
  THEN [planner[p] EXCEPT !.late = TRUE] ELSE planner[p]]

News ==
  /\ news < MaxNews
  /\ news' = news + 1
  /\ UNCHANGED <<answer, version, plans, planner, runs, overlapped>>

MayDecide == version.changes + version.acks < MaxVersion

\* An acknowledgement link is used: no plan is closed by it.  Every click counts; it is an answer
\* only if its opportunity is actionable, which a poll may have undone.
Acknowledge ==
  /\ MayDecide
  /\ answer' \in {answer, TRUE}
  /\ version' = [version EXCEPT !.acks = @ + 1]
  /\ UNCHANGED <<news, plans, planner, runs, overlapped>>

\* The plans made against the decisions before stay.
CorrectWrongKeeps ==
  /\ MayDecide
  /\ answer' \in BOOLEAN
  /\ version' = [version EXCEPT !.changes = @ + 1]
  /\ planner' = Belated
  /\ UNCHANGED <<news, plans, runs, overlapped>>

\* The owner edits a decision, perhaps to what it was: every weekly plan is superseded with it.
Correct ==
  /\ MayDecide
  /\ answer' \in BOOLEAN
  /\ version' = [version EXCEPT !.changes = @ + 1]
  /\ Change({Key(r) : r \in plans}, "superseded")
  /\ planner' = Belated
  /\ UNCHANGED <<news, runs, overlapped>>

\* A deadline passes and some run closes the row.
ExpirePlan(r) ==
  /\ r.status = "pending"
  /\ Change({Key(r)}, "expired")
  /\ planner' = Belated
  /\ UNCHANGED <<news, answer, version, runs, overlapped>>

PlanInit ==
  /\ news = 0 /\ answer = FALSE /\ version = NoDecision
  /\ plans = {}
  /\ planner = [p \in Planner |-> Resting]
  /\ runs = 0
  /\ overlapped = FALSE

PlannerStep(p) ==
  \/ BeginPlan(p) \/ ReadVersion(p) \/ Build(p) \/ CheckVersion(p) \/ Stick(p)
  \/ Allocate(p) \/ ListOthers(p) \/ SupersedeOne(p) \/ Create(p) \/ SendPlan(p)
  \/ AbortPlan(p)

PlanNext ==
  \/ \E p \in Planner : PlannerStep(p)
  \/ \E r \in plans : ExpirePlan(r)
  \/ News \/ Acknowledge \/ Correct

PlanSpec == PlanInit /\ [][PlanNext]_PlanVars

----------------------------------------------------------------------------
\* One weekly plan is pending, unless two runs planned at the same time: the
\* supersession and the insertion are separate statements.
OnePendingPlan ==
  Cardinality({r \in plans : r.status = "pending"}) <= 1 \/ overlapped

\* No run sends a plan that was made before a correction the run itself has read, although it sends
\* whatever row it finds at its key: only the material names the row, and a correction may leave or
\* restore the material.  The same cannot be said of acknowledgements, which supersede nothing: one
\* that changes nothing leaves the plan stored under a version that is past.
SentPlanIsUncorrected ==
  \A p \in Planner : planner[p].stage = "send" =>
    \A r \in Rows(Key(planner[p])) : r.version.changes >= planner[p].version.changes

\* What a run sends is still pending, unless the owner or a deadline closed it
\* since the run allocated its key, or another run did.
SentPlanIsPending ==
  \A p \in Planner : planner[p].stage = "send" /\ ~overlapped /\ ~planner[p].late =>
    \A r \in Rows(Key(planner[p])) : r.status = "pending"

\* Advice the owner has seen is superseded by a run with the same evidence
\* only for a clear reason, by the daily confirmation, or by a correction.
SeenAdviceSticks ==
  [][\A r \in plans :
       /\ r.status = "pending" /\ r.seen /\ ~overlapped
       /\ [r EXCEPT !.status = "superseded"] \in plans'
       => \/ version' # version
          \/ \E p \in Planner :
               /\ Key(r) \in planner[p].old
               /\ \/ planner[p].daily \/ planner[p].decisive
                  \/ r.material.news # planner[p].material.news
                  \/ r.version # planner[p].version
                  \/ version # planner[p].version]_PlanVars
=============================================================================
