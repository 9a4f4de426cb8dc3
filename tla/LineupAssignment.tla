---------------------------- MODULE LineupAssignment ----------------------------
(***************************************************************************)
(* maximum_weight_assignment, the solver behind every lineup: it gives     *)
(* each slot at most one candidate (a player in one game) so that no       *)
(* player is used twice and the total is greatest; among equal totals the  *)
(* one whose candidates come first by name, slot by slot, wins.  Players   *)
(* are taken one after the other, and for every set of filled slots only   *)
(* the best assignment so far is kept.                                     *)
(*                                                                         *)
(* Scores here are integers: the code calls scores within 1e-9 of each     *)
(* other equal, and what adding floats rounds away is left out.            *)
(***************************************************************************)
EXTENDS Integers, FiniteSets, Functions

CONSTANTS
  Places,       \* number of slots
  Names,        \* candidate ids, as numbers: the order of their names
  Player,       \* the player of each candidate, as a number: players are taken in order
  Scores,       \* scores a candidate may have
  Demands       \* bound: required and forbidden edges, all together

Place == 1..Places
Nobody == 0

ASSUME AssignmentAssumption ==
  /\ Places \in Nat /\ Demands \in Nat
  /\ IsFiniteSet(Names) /\ Names \subseteq Nat \ {Nobody}
  /\ Player \in [Names -> Nat] /\ Scores \subseteq Int

VARIABLES
  problem,      \* candidates by name, and what is required and forbidden
  best,         \* the best assignment to each set of slots that is filled by some
  waiting       \* players still to be taken

AssignmentVars == <<problem, best, waiting>>

Candidate == [score : Scores, places : (SUBSET Place) \ {{}}]
Edges == Place \X Names
Runner == {Player[n] : n \in Names}
Filled(a) == {i \in Place : a.choice[i] # Nobody}
Problem == [of : [Names -> Candidate], required : SUBSET Edges, forbidden : SUBSET Edges,
            full : BOOLEAN]
Choice == [Place -> Names \cup {Nobody}]
Assignment == [score : Int, choice : Choice]

AssignmentTypeOK ==
  /\ problem \in Problem
  /\ DOMAIN best \subseteq SUBSET Place
  /\ \A mask \in DOMAIN best :
       best[mask] \in Assignment /\ mask = Filled(best[mask])
  /\ waiting \subseteq Runner

----------------------------------------------------------------------------
\* Whom a slot admits; a required edge leaves it one candidate.
Admitted(i, n) ==
  /\ i \in problem.of[n].places
  /\ \A e \in problem.required : e[1] = i => e[2] = n
  /\ <<i, n>> \notin problem.forbidden

RequiredPlayers == {Player[e[2]] : e \in problem.required}
RequiredPlaces == {e[1] : e \in problem.required}

\* The edges of a player: only the required one, if there is one.
EdgesOf(p) ==
  {e \in Edges :
     /\ Player[e[2]] = p /\ Admitted(e[1], e[2])
     /\ p \in RequiredPlayers => e \in problem.required}

\* By the total, then by the names, the empty slot before every name.
NamesBefore(a, b) ==
  \E i \in Place : a[i] < b[i] /\ \A j \in 1..(i - 1) : a[j] = b[j]
Beats(a, b) ==
  a.score > b.score \/ (a.score = b.score /\ NamesBefore(a.choice, b.choice))
BestOf(S) == CHOOSE a \in S : \A b \in S \ {a} : Beats(a, b)

Extended(a, i, n) ==
  [score |-> a.score + problem.of[n].score, choice |-> [a.choice EXCEPT ![i] = n]]

\* Who can play must.
OptionsWrongMust(p) ==
  (IF p \in RequiredPlayers \/ EdgesOf(p) # {} THEN {} ELSE {best[mask] : mask \in DOMAIN best})
  \cup UNION {{Extended(best[mask], e[1], e[2]) : e \in {e \in EdgesOf(p) : e[1] \notin mask}} :
               mask \in DOMAIN best}

\* One player's turn: he stays out, unless he is required, or fills a slot of
\* an assignment found before.
Options(p) ==
  (IF p \in RequiredPlayers THEN {} ELSE {best[mask] : mask \in DOMAIN best})
  \cup UNION {{Extended(best[mask], e[1], e[2]) : e \in {e \in EdgesOf(p) : e[1] \notin mask}} :
               mask \in DOMAIN best}
TakePlayer(p) ==
  /\ p \in waiting /\ \A q \in waiting : p <= q
  /\ LET options == Options(p) IN
     best' = [mask \in {Filled(a) : a \in options} |->
                BestOf({a \in options : Filled(a) = mask})]
  /\ waiting' = waiting \ {p}
  /\ UNCHANGED problem

\* The input is refused when an edge is required and forbidden, a required
\* slot admits nobody, or an edge reuses a slot or a player.
Accepted(prob) ==
  /\ prob.required \cap prob.forbidden = {}
  /\ \A e \in prob.required : e[1] \in prob.of[e[2]].places
  /\ \A e, f \in prob.required :
       e # f => e[1] # f[1] /\ Player[e[2]] # Player[f[2]]

AssignmentInit ==
  /\ \E required, forbidden \in SUBSET Edges :
       /\ Cardinality(required) + Cardinality(forbidden) <= Demands
       /\ \E of \in [Names -> Candidate], full \in BOOLEAN :
            problem = [of |-> of, required |-> required, forbidden |-> forbidden, full |-> full]
  /\ Accepted(problem)
  /\ best = [mask \in {{}} |-> [score |-> 0, choice |-> [i \in Place |-> Nobody]]]
  /\ waiting = Runner

AssignmentNext == \E p \in Runner : TakePlayer(p)

AssignmentSpec == AssignmentInit /\ [][AssignmentNext]_AssignmentVars

\* The table's entries that meet the demands: the result is the best of them,
\* and an error if there are none.
Complete ==
  {best[mask] : mask \in {mask \in DOMAIN best :
     RequiredPlaces \subseteq mask /\ (problem.full => mask = Place)}}
Result == BestOf(Complete)

----------------------------------------------------------------------------
\* Every way to fill the slots, told without the solver.
Feasible ==
  {c \in Choice :
     /\ \A i \in Place : c[i] # Nobody => Admitted(i, c[i])
     /\ \A i, j \in Place : i # j /\ c[i] # Nobody /\ c[j] # Nobody =>
          Player[c[i]] # Player[c[j]]
     /\ \A e \in problem.required : c[e[1]] = e[2]
     /\ problem.full => \A i \in Place : c[i] # Nobody}
Total(c) ==
  FoldFunctionOnSet(LAMBDA n, sum : sum + (IF n = Nobody THEN 0 ELSE problem.of[n].score),
                    0, c, Place)

\* What the solver returns is feasible, no feasible choice has a greater total,
\* and of the equal ones it is the first by names, although the table kept
\* one assignment per set of slots; it fails only when nothing is feasible.
AssignmentIsBest ==
  waiting = {} =>
    IF Feasible = {} THEN Complete = {}
    ELSE /\ Complete # {}
         /\ Result.choice \in Feasible /\ Result.score = Total(Result.choice)
         /\ \A c \in Feasible : ~Beats([score |-> Total(c), choice |-> c], Result)
=============================================================================
