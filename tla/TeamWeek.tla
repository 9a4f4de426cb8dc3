-------------------------------- MODULE TeamWeek --------------------------------
(***************************************************************************)
(* From the recorded decisions to the state a plan is made of.  A run      *)
(* collects the roster and the lineup, notes the version of the owner's    *)
(* decisions, assembles the team's week from the evidence and the record   *)
(* as of its decision time, computes, assembles it again as of now, and    *)
(* gives up if a decision was saved meanwhile.  The owner confirms advice, *)
(* corrects the record and drops players at any time.                      *)
(*                                                                         *)
(* A performance is one game of one player of the roster; performances are *)
(* numbered in the order the week's opportunities are listed: by player,   *)
(* then by tipoff.  Scores are left out: the accepted score of a lock is   *)
(* read from the same row as the observed one.                             *)
(***************************************************************************)
EXTENDS Integers, FiniteSets

CONSTANTS
  Performances, \* how many there are
  Performer,    \* the players
  By,           \* whose performance it is
  Seat,         \* the starting slots
  Fits,         \* the slots each player is eligible for
  Unfilled,     \* an empty slot
  NoSeat,
  NoOffer,
  LastInstant,  \* bound: the clock
  MaxDecisions  \* bound: decisions of the owner

Performance == 1..Performances

ASSUME TeamWeekAssumption ==
  /\ Performances \in Nat /\ By \in [Performance -> Performer] /\ Fits \in [Performer -> SUBSET Seat]
  /\ Unfilled \notin Performer /\ NoSeat \notin Seat /\ NoOffer \notin Seat /\ NoOffer # NoSeat
  /\ LastInstant \in Nat /\ MaxDecisions \in Nat

VARIABLES
  moment,      \* the clock
  decided,      \* the rows of lock_in_opportunities
  offer,        \* the pending confirmation of each: a slot to lock, NoSeat for a pass, or NoOffer
  decisions,    \* decision_version: confirmations and corrections so far
  draft         \* the planner

TeamWeekVars == <<moment, decided, offer, decisions, draft>>

-----------------------------------------------------------------------------
Standing == {"unplayed", "final", "offered", "locked", "passed", "expired"}
Noted == [status : Standing, seat : Seat \cup {NoSeat}, at : 0..LastInstant]
Snapshot == [owned : SUBSET Performer, lineup : [Seat -> Performer \cup {Unfilled}]]
Nowhere == [owned |-> {}, lineup |-> [s \in Seat |-> Unfilled]]
NoState == [fixed |-> {}, passed |-> {}, blocked |-> FALSE, refused |-> FALSE]
AtRest == [stage |-> "idle", at |-> 0, version |-> 0, seen |-> Nowhere, state |-> NoState]

TeamWeekTypeOK ==
  /\ moment \in 0..LastInstant
  /\ decided \in [Performance -> Noted]
  /\ offer \in [Performance -> Seat \cup {NoSeat, NoOffer}]
  /\ decisions \in 0..MaxDecisions
  /\ draft \in [stage : {"idle", "version", "read", "reread", "check", "accepted"},
                at : 0..LastInstant, version : 0..MaxDecisions, seen : Snapshot,
                state : [fixed : SUBSET Performance, passed : SUBSET Performance,
                         blocked : BOOLEAN, refused : BOOLEAN]]

IsSettled(f) == decided[f].status \in {"locked", "passed"}
HasLock(f) == decided[f].status = "locked"
HasPass(f) == decided[f].status = "passed"
Held(seen, f) == By[f] \in seen.owned
SomeoneElse(f, g) == decided[f].seat = decided[g].seat /\ By[f] # By[g]
\* The action deadline is the player's next tipoff.
Late(f) == \E g \in Performance : g > f /\ By[g] = By[f] /\ decided[g].status # "unplayed"

-----------------------------------------------------------------------------
(* The state of the team's week as of an instant *)

\* retained_weekly_locks: the lock of a player who left keeps its slot, if that is still empty.
Restorable(seen, at, f, done) ==
  /\ HasLock(f) /\ decided[f].at <= at /\ ~Held(seen, f)
  /\ decided[f].seat # NoSeat /\ seen.lineup[decided[f].seat] = Unfilled
  /\ \A g \in done : By[g] # By[f] /\ decided[g].seat # decided[f].seat

Restored(seen, at) ==
  LET upTo[n \in 0..Performances] ==
        IF n = 0 THEN {}
        ELSE IF Restorable(seen, at, n, upTo[n - 1]) THEN upTo[n - 1] \cup {n} ELSE upTo[n - 1]
  IN upTo[Performances]

\* _acknowledgement_constraints: what contradicts the evidence, or an earlier lock, is no
\* constraint but a conflict.
Admissible(known, at, f, fixed) ==
  /\ f \in known /\ decided[f].at <= at
  /\ HasLock(f) => /\ decided[f].seat \in Fits[By[f]]
                   /\ \A g \in fixed : By[f] # By[g] /\ ~SomeoneElse(f, g)

FixedOf(known, at) ==
  LET upTo[n \in 0..Performances] ==
        IF n = 0 THEN {}
        ELSE IF HasLock(n) /\ Admissible(known, at, n, upTo[n - 1]) THEN upTo[n - 1] \cup {n}
        ELSE upTo[n - 1]
  IN upTo[Performances]

\* The starters, with the restored ones in their slots.
ObservedAt(seen, restored, s) ==
  ({seen.lineup[s]} \ {Unfilled}) \cup {By[f] : f \in {f \in restored : decided[f].seat = s}}

\* What TeamWeekState insists on: no slot and no player twice, among the starters and among
\* the fixed.
Coherent(seen, restored, fixed) ==
  /\ \A s \in Seat : Cardinality(ObservedAt(seen, restored, s)) <= 1
  /\ \A r, s \in Seat : ObservedAt(seen, restored, r) \cap ObservedAt(seen, restored, s) # {} => r = s
  /\ \A f, g \in fixed : decided[f].seat = decided[g].seat \/ By[f] = By[g] => f = g

\* build_live_team_week_state, and the comparison with the lineup by refreshed_team_state.
Assembled(seen, at) ==
  LET restored == Restored(seen, at)
      known == {f \in Performance : Held(seen, f)} \cup restored
      fixed == FixedOf(known, at)
      passed == {f \in Performance : HasPass(f) /\ Admissible(known, at, f, fixed)}
  IN [fixed |-> fixed, passed |-> passed,
      blocked |-> \/ \E f \in Performance : IsSettled(f) /\ f \notin fixed \cup passed
                  \/ \E f \in fixed : By[f] \notin ObservedAt(seen, restored, decided[f].seat),
      refused |-> ~Coherent(seen, restored, fixed)]

-----------------------------------------------------------------------------
(* The planner *)

\* Everybody who starts is owned and eligible, and starts once.
LineupOf(owned) ==
  {lineup \in [Seat -> owned \cup {Unfilled}] :
     /\ \A s \in Seat : lineup[s] # Unfilled => s \in Fits[lineup[s]]
     /\ \A r, s \in Seat : lineup[r] = lineup[s] /\ lineup[r] # Unfilled => r = s}

\* collect_live_planning_inputs: the roster and the lineup as Sleeper has them.
CollectWeek ==
  /\ draft.stage = "idle"
  /\ \E owned \in SUBSET Performer : \E lineup \in LineupOf(owned) :
       draft' = [AtRest EXCEPT !.stage = "version", !.at = moment,
                               !.seen = [owned |-> owned, lineup |-> lineup]]
  /\ UNCHANGED <<moment, decided, offer, decisions>>

NoteVersion ==
  /\ draft.stage = "version"
  /\ draft' = [draft EXCEPT !.stage = "read", !.version = decisions]
  /\ UNCHANGED <<moment, decided, offer, decisions>>

ReadRecord ==
  /\ draft.stage = "read"
  /\ draft' = [draft EXCEPT !.stage = "reread", !.state = Assembled(draft.seen, draft.at)]
  /\ UNCHANGED <<moment, decided, offer, decisions>>

\* Wrong: the second reading is as of the decision time, too.
RereadWrongTime ==
  /\ draft.stage = "reread"
  /\ draft' = [draft EXCEPT !.stage = "check", !.state = Assembled(draft.seen, draft.at)]
  /\ UNCHANGED <<moment, decided, offer, decisions>>

\* The record as of now counts if it fixes or passes anything else.
Reread ==
  /\ draft.stage = "reread"
  /\ LET again == Assembled(draft.seen, moment)
         changed == again.fixed # draft.state.fixed \/ again.passed # draft.state.passed
     IN draft' = [draft EXCEPT !.stage = "check",
                               !.state = IF changed \/ again.refused THEN again ELSE draft.state]
  /\ UNCHANGED <<moment, decided, offer, decisions>>

CheckDecisions ==
  /\ draft.stage = "check"
  /\ draft' = IF decisions = draft.version /\ ~draft.state.refused
              THEN [draft EXCEPT !.stage = "accepted"] ELSE AtRest
  /\ UNCHANGED <<moment, decided, offer, decisions>>

\* usable_completed_games: finals of starters, the last each of them has played, of players
\* without a lock.
UsableNow(f) ==
  /\ decided[f].status \in {"final", "offered"} /\ f \notin draft.state.passed
  /\ \E s \in Seat : draft.seen.lineup[s] = By[f]
  /\ \A g \in draft.state.fixed : By[g] # By[f]

\* prepare_score_confirmations, or restore_score_confirmations for advice that is kept: a slot
\* to lock, no two advised for one slot, or a pass; what is not advised any more is withdrawn.
\* A blocked plan advises nothing.  The database takes no new offer of a plan older than a
\* decision; the rows are marked and the old offers withdrawn all the same.
PublishOffers ==
  /\ draft.stage = "accepted"
  /\ LET usable == {f \in Performance : ~draft.state.blocked /\ UsableNow(f)}
         open == Seat \ {decided[f].seat : f \in draft.state.fixed}
     IN \E advised \in SUBSET usable : \E advice \in [advised -> open \cup {NoSeat}] :
          /\ \A f \in advised : advice[f] # NoSeat => advice[f] \in Fits[By[f]]
          /\ \A f, g \in advised : advice[f] = advice[g] /\ advice[f] # NoSeat => f = g
          /\ \E there \in IF decisions = draft.version THEN {advised}
                          ELSE SUBSET {f \in advised : offer[f] = advice[f]} :
               offer' = [f \in Performance |-> IF f \in there THEN advice[f] ELSE NoOffer]
          /\ decided' = [f \in Performance |->
                           IF f \in advised THEN [decided[f] EXCEPT !.status = "offered"]
                           ELSE decided[f]]
  /\ draft' = AtRest
  /\ UNCHANGED <<moment, decisions>>

\* The poll looks at an advised final again.  Polls and plans are work of one dispatcher, which
\* does one thing at a time.
ObserveAgain(f) ==
  /\ draft.stage = "idle" /\ decided[f].status = "offered"
  /\ decided' = [decided EXCEPT ![f].status = "final"]
  /\ UNCHANGED <<moment, offer, decisions, draft>>

\* A game is over; the player's earlier undecided performances can no longer be locked.
PlayGame(f) ==
  /\ draft.stage = "idle" /\ decided[f].status = "unplayed"
  /\ \A g \in Performance : g < f /\ By[g] = By[f] => decided[g].status # "unplayed"
  /\ LET lapsed == {g \in Performance : g < f /\ By[g] = By[f] /\ ~IsSettled(g)}
     IN /\ \E s \in Fits[By[f]] :
             decided' = [g \in Performance |->
                           IF g = f THEN [decided[f] EXCEPT !.status = "final", !.seat = s]
                           ELSE IF g \in lapsed THEN [decided[g] EXCEPT !.status = "expired"]
                           ELSE decided[g]]
        /\ offer' = [g \in Performance |-> IF g \in lapsed THEN NoOffer ELSE offer[g]]
  /\ UNCHANGED <<moment, decisions, draft>>

-----------------------------------------------------------------------------
(* The owner *)

CountDecision == decisions < MaxDecisions /\ decisions' = decisions + 1

\* consume_action_token: the slot is the one advised, or else the one of tipoff.  A row that is
\* not actionable at the moment stays as it is.
ConfirmOffer(f, status) ==
  /\ offer[f] # NoOffer /\ CountDecision
  /\ decided' =
       IF decided[f].status # "offered" THEN decided
       ELSE [decided EXCEPT ![f] = [status |-> status, at |-> moment,
                                    seat |-> IF status = "locked" /\ offer[f] \in Seat
                                             THEN offer[f] ELSE @.seat]]
  /\ offer' = [offer EXCEPT ![f] = NoOffer]
  /\ UNCHANGED <<moment, draft>>

\* reported_decision and the guards of save_manager_batch: the slot is the player's present
\* one, and no other lock of the player or in the slot is on record.
ReportDecision(f, status) ==
  /\ decided[f].status \in {"final", "offered", "locked", "passed"} /\ ~Late(f)
  /\ CountDecision
  /\ \E s \in IF status = "locked" THEN Fits[By[f]] ELSE {decided[f].seat} :
       /\ status = "locked" =>
            \A g \in Performance \ {f} : HasLock(g) => By[g] # By[f] /\ decided[g].seat # s
       /\ decided' = [decided EXCEPT ![f] = [status |-> status, seat |-> s, at |-> moment]]
  /\ offer' = [offer EXCEPT ![f] = NoOffer]
  /\ UNCHANGED <<moment, draft>>

\* "not locked": undecided again, if the player has not played since.
TakeBack(f) ==
  /\ CountDecision
  /\ decided' = [decided EXCEPT
       ![f].status = IF @ = "unplayed" THEN @ ELSE IF Late(f) THEN "expired" ELSE "final",
       ![f].at = 0]
  /\ offer' = [offer EXCEPT ![f] = NoOffer]
  /\ UNCHANGED <<moment, draft>>

PassTime ==
  /\ moment < LastInstant
  /\ moment' = moment + 1
  /\ UNCHANGED <<decided, offer, decisions, draft>>

-----------------------------------------------------------------------------
TeamWeekInit ==
  /\ moment = 0
  /\ decided = [f \in Performance |-> [status |-> "unplayed", seat |-> NoSeat, at |-> 0]]
  /\ offer = [f \in Performance |-> NoOffer]
  /\ decisions = 0
  /\ draft = AtRest

TeamWeekNext ==
  \/ CollectWeek \/ NoteVersion \/ ReadRecord \/ Reread \/ CheckDecisions \/ PublishOffers
  \/ \E f \in Performance : ObserveAgain(f) \/ PlayGame(f) \/ TakeBack(f)
  \/ \E f \in Performance, status \in {"locked", "passed"} :
       ConfirmOffer(f, status) \/ ReportDecision(f, status)
  \/ PassTime

TeamWeekSpec == TeamWeekInit /\ [][TeamWeekNext]_TeamWeekVars

-----------------------------------------------------------------------------
(* Properties *)

\* What keeps the record from being planned with, whenever it is read: two locks of one player
\* or in one slot, a lock the collected lineup contradicts, a decision about a player who left
\* that cannot be kept.
Contradicted(seen) ==
  \/ \E f, g \in Performance : /\ f # g /\ HasLock(f) /\ HasLock(g)
                               /\ By[f] = By[g] \/ decided[f].seat = decided[g].seat
  \/ \E f \in Performance : HasLock(f) /\ decided[f].seat \notin Fits[By[f]]
  \/ \E f \in Performance :
       HasLock(f) /\ seen.lineup[decided[f].seat] # IF Held(seen, f) THEN By[f] ELSE Unfilled
  \/ \E f \in Performance : HasPass(f) /\ ~Held(seen, f)

\* An accepted plan is made of the owner's decisions as they are on record, all of them and no
\* others, although they are saved while it is computed and are newer than its decision time;
\* it is blocked only if the record contradicts the lineup or itself, and the state is always
\* one the planner accepts (build_current_team_plan, _acknowledgement_constraints).
PlanIsTheRecord ==
  /\ ~draft.state.refused
  /\ draft.stage = "accepted" /\ draft.version = decisions /\ ~Contradicted(draft.seen) =>
       /\ ~draft.state.blocked
       /\ draft.state.fixed = {f \in Performance : HasLock(f)}
       /\ draft.state.passed = {f \in Performance : HasPass(f)}
=============================================================================
