\* Two requests and two checks of one monitor, one failed command.
CONSTANTS
  m1 = m1  m2 = m2  u1 = u1  r1 = r1  r2 = r2  c1 = c1  c2 = c2
  Monitors <- OneMonitor  Users <- OneUser  Owner <- OneOwner
  Requests <- TwoRequests  Checks <- TwoChecks
  Quota = 1  MaxRequests = 3  MaxOutages = 1  MaxFaults = 1
SPECIFICATION FairSpec
CHECK_DEADLOCK FALSE
INVARIANTS TypeOK QuotaIsKept EnabledIsHeld
PROPERTIES DisabledIsLeftAlone CacheCatchesUp
