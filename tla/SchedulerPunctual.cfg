\* A batch takes every monitor and the job channel has room: lateness.
CONSTANTS
  m1 = m1  m2 = m2  m3 = m3
  Monitors <- ThreeMonitors
  BatchSize = 3  TickInterval = 2  Backoff = 1  Delays <- RetryOrInterval
  JobCap = 3  DrainsBetweenTicks = FALSE
  MaxDelay = 3  MaxLate = 7  MaxWork = 1
  MaxFaults = 1  MaxCrashes = 0  MaxShutdowns = 0
SPECIFICATION OnTimeSpec
SYMMETRY Symmetry
INVARIANTS Punctual
