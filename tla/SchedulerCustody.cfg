\* Three monitors, batches of two, a job channel with one slot that the executor
\* frees between two ticks; one failed command, one crash and one shutdown.
CONSTANTS
  m1 = m1  m2 = m2  m3 = m3
  Monitors <- ThreeMonitors
  BatchSize = 2  TickInterval = 2  Backoff = 1  Delays <- RetryOrInterval
  JobCap = 1  DrainsBetweenTicks = TRUE
  MaxDelay = 3  MaxLate = 4  MaxWork = 1
  MaxFaults = 1  MaxCrashes = 1  MaxShutdowns = 1
SPECIFICATION FairSpec
INVARIANTS TypeOK SingleCustody NothingLost
PROPERTIES EveryMonitorIsChecked
