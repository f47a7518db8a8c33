------------------------- MODULE MCResultProcessor -------------------------
(* Instances of ResultProcessor for TLC.                                     *)
EXTENDS ResultProcessor, TLC

CONSTANTS m1, m2, s1, f1, f2

TwoMonitors == {m1, m2}
OneMonitor == {m1}
OneSuccessWorker == {s1}
OneFailureWorker == {f1}
TwoFailureWorkers == {f1, f2}

AllFailureKinds == {"rejected", "unstorable", "retryable", "terminal"}
OrdinaryFailureKinds == {"rejected", "retryable"}
RetryableOrTerminal == {"retryable", "terminal"}
OnlyTerminal == {"terminal"}
OnlyRejected == {"rejected"}
EveryStep == Steps
OnlyReschedule == {"reschedule"}
NoStep == {}

Symmetry == Permutations(Monitors) \cup Permutations(FailureWorkers)
=============================================================================
