--------------------------- MODULE MCScheduledWork ---------------------------
(***************************************************************************)
(* Instances of ScheduledWork for TLC.  A key is named after the family it *)
(* belongs to; each configuration picks the keys it needs.                 *)
(***************************************************************************)
EXTENDS ScheduledWork

CONSTANTS daily, daily2, recovery, manual, preTipoff, tipoff, tipoff2, postgame, reopened, delivery

MCFamily ==
  [k \in Key |-> CASE k \in {daily, daily2} -> "daily"
                   [] k = recovery -> "recovery"
                   [] k = manual -> "manual"
                   [] k = preTipoff -> "pre_tipoff"
                   [] k \in {tipoff, tipoff2} -> "tipoff"
                   [] k = postgame -> "postgame"
                   [] k = reopened -> "reopened"
                   [] k = delivery -> "delivery"]
=============================================================================
