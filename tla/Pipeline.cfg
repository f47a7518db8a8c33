\* Two monitors, every channel with one slot, one HTTP request at a time.
\* At most one request of the API.
CONSTANTS
  m1 = m1  m2 = m2  x1 = x1  x2 = x2  c1 = c1  s1 = s1  f1 = f1  a1 = a1
  Monitors <- TwoMonitors
  ExecWorkers <- TwoExecWorkers
  SuccessWorkers <- OneSuccessWorker  FailureWorkers <- OneFailureWorker
  AlertWorkers <- OneAlertWorker
  HttpSlots <- OneSlot
  JobCap = 1  ResultCap = 1  HandlerCap = 1  AlertCap = 1
  Configurable <- OnlyResend
  Channels <- AllOrResend  Openings <- CrowdedOrChanged
SPECIFICATION FairSpec
INVARIANTS TypeOK SingleCustody ShutdownDrains
PROPERTIES ShutdownEnds ChangeTakesEffect
