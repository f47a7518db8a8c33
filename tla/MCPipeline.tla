----------------------------- MODULE MCPipeline -----------------------------
(* Instances of Pipeline for TLC.                                            *)
EXTENDS Pipeline, TLC

CONSTANTS m1, m2, x1, x2, c1, s1, f1, a1

TwoMonitors == {m1, m2}
TwoExecWorkers == {x1, x2}
OneSuccessWorker == {s1}
OneFailureWorker == {f1}
OneAlertWorker == {a1}
OneSlot == {c1}

OnlyResend == {"resend"}

(* One monitor names its channel, the other leaves it to the plugins.        *)
AllOrResend == [m \in {m1, m2} |-> IF m = m1 THEN {} ELSE {"resend"}]

(* Two monitors that compete for everything; one whose alerts go out while    *)
(* the plugin is edited; or one that a request enables or disables.           *)
CrowdedOrChanged ==
  {[scheduled |-> {m1, m2}, editable |-> {}, requests |-> 0],
   [scheduled |-> {m1}, editable |-> {"resend"}, requests |-> 0],
   [scheduled |-> {m1}, editable |-> {}, requests |-> 1]}
=============================================================================
