--------------------------- MODULE MCMonitorService ---------------------------
(* Instances of MonitorService for TLC.                                      *)
EXTENDS MonitorService, TLC

CONSTANTS m1, m2, u1, r1, r2, c1, c2

OneMonitor == {m1}
TwoMonitors == {m1, m2}
OneUser == {u1}
OneOwner == [m \in Monitors |-> u1]
OneRequest == {r1}
TwoRequests == {r1, r2}
OneCheck == {c1}
TwoChecks == {c1, c2}
=============================================================================
