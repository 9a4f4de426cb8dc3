SPECIFICATION Spec
CONSTANTS
  p1 = p1
  p2 = p2
  Player = {p1}
  NoPlayer = NoPlayer
  Watch = Watch
  Recheck = {k1}
  Rec = {r1, r2, r3}
  NoRec = NoRec
  Score = {s1, s2}
  NoScore = NoScore
  Start = 1
  Grace = 0
  PollFrom = 2
  LastTime = 4
  RunLimit = 1
  Deadline <- OneDeadline
  Edits = {"not_locked", "locked", "passed"}
  Games = {"scheduled", "in_progress", "final", "unclear"}
  Spots = {"starter", "misfit", "bench"}
  Reconfigured = {FALSE}
INVARIANTS TypeOK NoOfferAfterDecision OfferMatchesScore ActionableIsEligible
PROPERTIES ForfeitureSticks DecisionIsTheManagers
SYMMETRY Interchangeable
