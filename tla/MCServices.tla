------------------------------- MODULE MCServices -------------------------------
(***************************************************************************)
(* The parts of the system that share no state with each other, checked in *)
(* one run: delivery, forecast capture, plan publication, the deployment   *)
(* commands, the search for lineup moves, the assignment solver and the    *)
(* team's week.  Only the component named by `component` moves; the others *)
(* stay as they started, so the run explores the sum of their behaviours.  *)
(***************************************************************************)
EXTENDS NotificationDelivery, ForecastCapture, PlanPublication, RuntimeSync,
        LineupMoves, LineupAssignment, TeamWeek, TLC

\* Three slots of the Sleeper league; everyone fits two of them, so that a
\* rotation of three players has no swap to begin with.
MCSlotNames == <<"G", "F", "C">>
MCEligibilities == {{"PG", "SF"}, {"PF", "C"}, {"C", "SG"}}
\* The first and the second candidate are games of different players, the
\* second and the third of the same one.
MCPlayer == <<2, 1, 1, 3>>
\* Two games of one player and one of another, who compete for a single slot.
MCBy == <<1, 1, 2>>
MCFits == <<{1}, {1}>>

\* Senders, wakes, planners and commands have the same names in services.cfg,
\* and the actions of a component do not tell one from the other.
Interchangeable == Permutations(Sender)

\* Bound: what happens to the evidence and the decisions of a plan, in any mixture.
MaxChanges == 2
Changes == news + version.changes + version.acks

VARIABLE component

\* The resting components have a single state.  Every lineup request is equal
\* to one in which the starters are numbered in the order of their slots, and,
\* as the three slots may be rotated, in which nobody's eligibility is held by
\* more players than the first; the model does not tell players or slots apart.
\* Those with a known bench capacity are met without reserves and completed
\* scores.
InOrder(lineup) ==
  \A i, j \in Slot : i < j /\ lineup[i] # Empty /\ lineup[j] # Empty => lineup[i] < lineup[j]
HowMany(positions) == Cardinality({a \in Athlete : request.eligible[a] = SlotsFor(positions)})
MovesInit ==
  IF component = "moves"
  THEN /\ LineupInit
       /\ InOrder(request.observed)
       /\ \A positions \in Eligibilities : HowMany(positions) <= HowMany({"PG", "SF"})
       /\ request.bench # NoLimit => request.reserve = {} /\ request.owed = {}
  ELSE /\ request = [eligible |-> [a \in Athlete |-> Slot], locked |-> {},
                     observed |-> [i \in Slot |-> Empty], desired |-> [i \in Slot |-> Empty],
                     reserve |-> {}, playing |-> {}, owed |-> {}, bench |-> NoLimit]
       /\ costs = << >> /\ parents = << >> /\ queue = {} /\ verdict = "none"
SolverInit ==
  IF component = "assignment"
  THEN AssignmentInit /\ \A n \in Names : problem.of[n].places # {}
  ELSE /\ problem = [of |-> [n \in Names |-> [score |-> 1, places |-> Place]],
                     required |-> {}, forbidden |-> {}, full |-> FALSE]
       /\ best = [mask \in {{}} |-> [score |-> 0, choice |-> [i \in Place |-> Nobody]]]
       /\ waiting = Runner

ServicesInit ==
  /\ component \in {"delivery", "forecast", "plan", "runtime", "moves", "assignment", "week"}
  /\ DeliveryInit /\ (component # "delivery" => hasFallback)
  /\ ForecastInit
  /\ component # "forecast" => \A g, h \in Game : tipoff[g] = tipoff[h] /\ tipoff[g] = Horizon
  /\ PlanInit
  /\ RuntimeInit
  /\ MovesInit
  /\ SolverInit
  /\ TeamWeekInit

ServicesNext ==
  \/ /\ component = "delivery" /\ DeliveryNext
     /\ UNCHANGED <<component, ForecastVars, PlanVars, RuntimeVars, LineupVars, AssignmentVars,
                    TeamWeekVars>>
  \/ /\ component = "forecast" /\ ForecastNext
     /\ UNCHANGED <<component, DeliveryVars, PlanVars, RuntimeVars, LineupVars, AssignmentVars,
                    TeamWeekVars>>
  \/ /\ component = "plan" /\ PlanNext /\ Changes' <= MaxChanges
     /\ UNCHANGED <<component, DeliveryVars, ForecastVars, RuntimeVars, LineupVars, AssignmentVars,
                    TeamWeekVars>>
  \/ /\ component = "runtime" /\ RuntimeNext
     /\ UNCHANGED <<component, DeliveryVars, ForecastVars, PlanVars, LineupVars, AssignmentVars,
                    TeamWeekVars>>
  \/ /\ component = "moves" /\ LineupNext
     /\ UNCHANGED <<component, DeliveryVars, ForecastVars, PlanVars, RuntimeVars, AssignmentVars,
                    TeamWeekVars>>
  \/ /\ component = "assignment" /\ AssignmentNext
     /\ UNCHANGED <<component, DeliveryVars, ForecastVars, PlanVars, RuntimeVars, LineupVars,
                    TeamWeekVars>>
  \/ /\ component = "week" /\ TeamWeekNext
     /\ UNCHANGED <<component, DeliveryVars, ForecastVars, PlanVars, RuntimeVars, LineupVars,
                    AssignmentVars>>

ServicesTypeOK ==
  /\ component = "delivery" => DeliveryTypeOK
  /\ component = "forecast" => ForecastTypeOK
  /\ component = "plan" => PlanTypeOK
  /\ component = "runtime" => RuntimeTypeOK
  /\ component = "moves" => LineupTypeOK
  /\ component = "assignment" => AssignmentTypeOK
  /\ component = "week" => TeamWeekTypeOK
=============================================================================
