----------------------------- MODULE MCScheduler -----------------------------
(* Instances of Scheduler for TLC.                                           *)
EXTENDS Scheduler, TLC

CONSTANTS m1, m2, m3

ThreeMonitors == {m1, m2, m3}
RetryOrInterval == {1, 3}
Symmetry == Permutations(Monitors)
=============================================================================
