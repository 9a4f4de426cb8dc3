SPECIFICATION Spec
CONSTANTS
  p1 = p1
  p2 = p2
  Player = {p1, p2}
  NoPlayer = NoPlayer
  Watch = Watch
  Recheck = {k1}
  Rec = {}
  NoRec = NoRec
  Score = {s1}
  NoScore = NoScore
  Start = 1
  Grace = 0
  PollFrom = 2
  LastTime = 4
  RunLimit = 1
  Deadline <- TwoDeadlines
  Edits = {}
  Games = {"scheduled", "final"}
  Spots = {"starter", "bench"}
  Reconfigured = {FALSE}
INVARIANTS WatchOutlastsOpen
SYMMETRY Interchangeable
