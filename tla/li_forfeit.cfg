SPECIFICATION HistorySpec
CONSTANTS
  p1 = p1
  Player = {p1}
  NoPlayer = NoPlayer
  Watch = Watch
  Recheck = {k1}
  Rec = {r1, r2}
  NoRec = NoRec
  Score = {s1}
  NoScore = NoScore
  Start = 1
  Grace = 0
  PollFrom = 2
  LastTime = 4
  RunLimit = 1
  Deadline <- OneDeadline
  Edits = {"passed", "not_locked"}
  Games = {"scheduled", "in_progress", "final"}
  Spots = {"starter", "bench"}
  Reconfigured = {FALSE}
INVARIANT BenchingIsForfeit
SYMMETRY Interchangeable
