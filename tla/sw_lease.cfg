SPECIFICATION Spec
CONSTANTS
  daily = daily
  daily2 = daily2
  recovery = recovery
  manual = manual
  preTipoff = preTipoff
  tipoff = tipoff
  tipoff2 = tipoff2
  postgame = postgame
  reopened = reopened
  delivery = delivery
  Key = {daily, delivery}
  Family <- MCFamily
  Run = {r1, r2}
  Gone = gone
  Concurrency = 2
  RunLimit = 1
  Lease = 2
  RetryDelay = 1
  Lead = 1
  Horizon = 2
INVARIANT OwnsWhatItWorksOn
PROPERTY ImplementsJobBoard
