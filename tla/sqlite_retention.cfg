SPECIFICATION Spec
CONSTANTS
  NULL = NULL
  w1 = w1
  w2 = w2
  t1 = t1
  t2 = t2
  Workers <- TwoWorkers
  TaskIds <- OneTask
  MaxRetries <- RetryT1
  Priority <- UrgentT1
  CreatedAt <- SameAge
  Policy <- OneUnit
  PolicyError = PolicyError
  MaxFloat = 8
  Registered <- EveryoneKnowsAll
  Unserializable <- NoTask
  ScheduleDelays <- OrLater
  PurgeAges <- AfterTimeout
  VT = 3
  MaxLag = 1
  Replays = TRUE
  Timely = TRUE
  MaxCrashes = 1
  MaxTime = 6
INVARIANTS
  ResultMatchesRow
  ActiveRowsClean
PROPERTIES
  RefinesContract
