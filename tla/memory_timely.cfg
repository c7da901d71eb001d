SPECIFICATION LiveSpec
CONSTANTS
  NULL = NULL
  PolicyError = PolicyError
  MaxFloat = 8
  w1 = w1
  w2 = w2
  w3 = w3
  t1 = t1
  t2 = t2
  c1 = c1
  c2 = c2
  Threads <- TwoThreads
  Callers <- OneCaller
  TaskIds <- TwoTasks
  MaxRetries <- TwiceT1
  Priority <- UrgentT1
  CreatedAt <- SameAge
  Policy <- Jittered
  Registered <- OnlyT1
  AwaitOf <- AllAwaitT1
  GetTimeout <- HurriedC2
  ScheduleDelays <- OrLater
  VT = 2
  PollWait = 1
  Timely = TRUE
  MaxDeaths = 1
INVARIANTS
  AnswersStand
  GetAnswers
PROPERTIES
  BackoffAsDocumented
  RefinesContract
  EveryTaskSettles
  CallersServed
