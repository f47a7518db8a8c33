\* A monitor is disabled and enabled again while a check of it has failed; no
\* two requests run at once and no command fails.
CONSTANTS
  m1 = m1  m2 = m2  u1 = u1  r1 = r1  r2 = r2  c1 = c1  c2 = c2
  Monitors <- OneMonitor  Users <- OneUser  Owner <- OneOwner
  Requests <- OneRequest  Checks <- OneCheck
  Quota = 1  MaxRequests = 3  MaxOutages = 1  MaxFaults = 0
SPECIFICATION FairSpec
CHECK_DEADLOCK FALSE
PROPERTIES RecoveryIsReported
