SPECIFICATION Spec
CONSTANTS
  NULL = NULL
  PolicyError = PolicyError
  MaxFloat = 8
  w1 = w1
  w2 = w2
  w3 = w3
  t1 = t1
  t2 = t2
  c1 = c1
  c2 = c2
  Threads <- TwoThreads
  Callers <- OneCaller
  TaskIds <- OneTask
  MaxRetries <- RetryT1
  Priority <- UrgentT1
  CreatedAt <- SameAge
  Policy <- Moody
  Registered <- OnlyT1
  AwaitOf <- AllAwaitT1
  GetTimeout <- HurriedC2
  ScheduleDelays <- Immediate
  VT = 1
  PollWait = 1
  Timely = FALSE
  MaxDeaths = 1
INVARIANTS
  RetriesRespected
CHECK_DEADLOCK FALSE
