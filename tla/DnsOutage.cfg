\* An endpoint whose name stops resolving; no command fails.
SPECIFICATION FairSpec
CONSTANTS
  m1 = m1
  m2 = m2
  s1 = s1
  f1 = f1
  f2 = f2
  Monitors <- OneMonitor
  SuccessWorkers <- OneSuccessWorker
  FailureWorkers <- OneFailureWorker
  FailureThreshold = 2
  RetryLimit = 1
  ResultCap = 2
  SuccessCap = 1
  FailureCap = 1
  AlertCap = 1
  FailureKinds <- OnlyTerminal
  FaultySteps <- NoStep
  MaxFaults = 0
  MaxCrashes = 0
  MaxOutages = 2
CHECK_DEADLOCK FALSE
PROPERTY OutageIsReported
