SPECIFICATION Spec
CONSTANTS
  NULL = NULL
  w1 = w1
  w2 = w2
  t1 = t1
  t2 = t2
  Workers <- TwoWorkers
  TaskIds <- TwoTasks
  MaxRetries <- RetryT1
  Priority <- UrgentT1
  CreatedAt <- SameAge
  Policy <- OneUnit
  PolicyError = PolicyError
  MaxFloat = 8
  Registered <- EveryoneKnowsAll
  Unserializable <- NoTask
  ScheduleDelays <- Immediate
  PurgeAges <- NoPurge
  VT = 2
  MaxLag = 1
  Replays = FALSE
  Timely = TRUE
  MaxCrashes = 1
  MaxTime = 3
PROPERTIES
  ExpiredIsClaimable
