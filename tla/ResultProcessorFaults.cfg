\* One monitor through three outages with failing commands and a crash.
SPECIFICATION Spec
CONSTANTS
  m1 = m1
  m2 = m2
  s1 = s1
  f1 = f1
  f2 = f2
  Monitors <- OneMonitor
  SuccessWorkers <- OneSuccessWorker
  FailureWorkers <- OneFailureWorker
  FailureThreshold = 2
  RetryLimit = 1
  ResultCap = 1
  SuccessCap = 1
  FailureCap = 1
  AlertCap = 1
  FailureKinds <- AllFailureKinds
  FaultySteps <- EveryStep
  MaxFaults = 2
  MaxCrashes = 1
  MaxOutages = 3
CHECK_DEADLOCK FALSE
INVARIANTS NoDuplicateAlerts
