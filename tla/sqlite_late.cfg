SPECIFICATION Spec
CONSTANTS
  NULL = NULL
  w1 = w1
  w2 = w2
  t1 = t1
  t2 = t2
  Workers <- TwoWorkers
  TaskIds <- OneTask
  MaxRetries <- RetryT1
  Priority <- UrgentT1
  CreatedAt <- SameAge
  Policy <- MayFail
  PolicyError = PolicyError
  MaxFloat = 8
  Registered <- EveryoneKnowsAll
  Unserializable <- OneTask
  ScheduleDelays <- Immediate
  PurgeAges <- NoPurge
  VT = 2
  MaxLag = 1
  Replays = TRUE
  Timely = FALSE
  MaxCrashes = 1
  MaxTime = 5
INVARIANTS
  TypeOK
  ClaimHasDeadline
  RetriesWithinLimit
  SettledHasResult
PROPERTIES
  PollsRespectClaims
SYMMETRY WorkerSymmetry
