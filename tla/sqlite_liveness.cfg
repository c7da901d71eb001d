SPECIFICATION CallersSpec
CONSTANTS
  NULL = NULL
  w1 = w1
  w2 = w2
  t1 = t1
  t2 = t2
  c1 = c1
  Callers <- OneCaller
  AwaitOf <- AllAwaitT1
  Workers <- TwoWorkers
  TaskIds <- OneTask
  MaxRetries <- RetryT1
  Priority <- UrgentT1
  CreatedAt <- SameAge
  Policy <- OneUnit
  PolicyError = PolicyError
  MaxFloat = 8
  Registered <- EveryoneKnowsAll
  Unserializable <- NoTask
  ScheduleDelays <- OrLater
  PurgeAges <- NoPurge
  VT = 2
  MaxLag = 1
  Replays = FALSE
  Timely = TRUE
  MaxCrashes = 1
  MaxTime = 30
INVARIANTS
  AnswersStand
PROPERTIES
  CallersServed
  EveryTaskSettles
