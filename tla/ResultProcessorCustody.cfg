\* Two monitors, two failure workers, one failed command: who holds what.
SPECIFICATION Spec
CONSTANTS
  m1 = m1
  m2 = m2
  s1 = s1
  f1 = f1
  f2 = f2
  Monitors <- TwoMonitors
  SuccessWorkers <- OneSuccessWorker
  FailureWorkers <- TwoFailureWorkers
  FailureThreshold = 1
  RetryLimit = 1
  ResultCap = 1
  SuccessCap = 1
  FailureCap = 1
  AlertCap = 1
  FailureKinds <- RetryableOrTerminal
  FaultySteps <- EveryStep
  MaxFaults = 1
  MaxCrashes = 0
  MaxOutages = 2
SYMMETRY Symmetry
CHECK_DEADLOCK FALSE
INVARIANTS TypeOK SingleCustody EachLossHasItsFault
