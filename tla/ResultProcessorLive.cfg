\* Fair goroutines and no failed command: the stores agree, alerts come in order,
\* and outages and recoveries are reported.
SPECIFICATION FairSpec
CONSTANTS
  m1 = m1
  m2 = m2
  s1 = s1
  f1 = f1
  f2 = f2
  Monitors <- TwoMonitors
  SuccessWorkers <- OneSuccessWorker
  FailureWorkers <- OneFailureWorker
  FailureThreshold = 2
  RetryLimit = 1
  ResultCap = 2
  SuccessCap = 1
  FailureCap = 1
  AlertCap = 1
  FailureKinds <- OrdinaryFailureKinds
  FaultySteps <- NoStep
  MaxFaults = 0
  MaxCrashes = 0
  MaxOutages = 2
INVARIANTS IncidentTracked
PROPERTIES OutageIsReported RecoveryIsReported AlertsInOrder
