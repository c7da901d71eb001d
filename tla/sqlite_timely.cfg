SPECIFICATION Spec
CONSTANTS
  NULL = NULL
  w1 = w1
  w2 = w2
  t1 = t1
  t2 = t2
  Workers <- TwoWorkers
  TaskIds <- TwoTasks
  MaxRetries <- TwiceT2
  Priority <- UrgentT1
  CreatedAt <- SameAge
  Policy <- MayDecline
  PolicyError = PolicyError
  MaxFloat = 8
  Registered <- W2LacksT2
  Unserializable <- NoTask
  ScheduleDelays <- Immediate
  PurgeAges <- NoPurge
  VT = 2
  MaxLag = 1
  Replays = FALSE
  Timely = TRUE
  MaxCrashes = 1
  MaxTime = 3
INVARIANTS
  ExclusiveClaims
  DeadLettersAreFinal
PROPERTIES
  RefinesContract
