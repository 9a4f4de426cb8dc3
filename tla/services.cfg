\* One component at a time: see MCServices.
INIT ServicesInit
NEXT ServicesNext
CONSTANTS
  \* NotificationDelivery
  Message = {m1}  Sender = {p1, p2}
  ClaimAge = 1  SendLimit = 1  RowDelay = 1  MaxAttempt = 2
  \* ForecastCapture
  Wake = {p1, p2}  Game = {g1, g2}  TipTimes = {3, 4}  Content = {a}
  Day = 3  Behind = 1  PlanAt = 0  Lead = 1  Window = 1  Cap = 1  WakeLimit = 1  Horizon = 3
  \* PlanPublication
  Planner = {p1, p2}  MaxNews = 1  MaxVersion = 2  MaxRuns = 2
  \* RuntimeSync
  Command = {p1, p2}  Dataset = {d1}  Row = {r1, r2}  Version = {h1}  Part = {q1, q2}  Read = {q1}
  Intent = {i1}  NoVersion = NoVersion  NoPolicy = NoPolicy
  \* LineupMoves
  Athlete = {1, 2, 3}  Empty = 0  NoLimit = NoLimit
  SlotNames <- MCSlotNames  Eligibilities <- MCEligibilities
  BenchLimits = {2, NoLimit}  Crowd = 1  MaxSearchStates = 8
  \* LineupAssignment
  Places = 2  Names = {1, 2, 3, 4}  Player <- MCPlayer  Scores = {1, 2}  Demands = 1
  \* TeamWeek
  Performances = 3  Performer = {1, 2}  By <- MCBy  Seat = {1}  Fits <- MCFits
  Unfilled = 0  NoSeat = 0  NoOffer = 2  LastInstant = 1  MaxDecisions = 2
SYMMETRY Interchangeable
CHECK_DEADLOCK FALSE
INVARIANTS
  ServicesTypeOK
  DuplicateHasCause OneSenderUnlessOutlived RetryEndsInDelivery
  CapHolds IntroducedOnce SlotsApart
  OnePendingPlan SentPlanIsUncorrected SentPlanIsPending
  PolicyIsBacked
  PlanIsExecutable SearchIsExact
  AssignmentIsBest
  PlanIsTheRecord
PROPERTIES
  NeverBackdated SeenAdviceSticks PolicySyncKeepsChanges
