------------------------ MODULE OutageNotifications ------------------------
(***************************************************************************)
(* What Sofon promises the people who watch a monitor: an outage is one    *)
(* incident; its DOWN alert is queued once, after the incident is opened;  *)
(* its RECOVERED alert is queued once, after the incident is closed; and   *)
(* the next outage opens an incident only when all that is done.           *)
(* ResultProcessor implements this specification while no command fails.   *)
(***************************************************************************)
CONSTANT Monitors

VARIABLE phase     \* how far each monitor's latest incident has come

Phases == {"quiet", "opened", "announced", "closed"}

Init == phase = [m \in Monitors |-> "quiet"]

Advance(m, from, to) ==
  phase[m] = from /\ phase' = [phase EXCEPT ![m] = to]

Open(m)             == Advance(m, "quiet", "opened")
AnnounceDown(m)     == Advance(m, "opened", "announced")
Close(m)            == Advance(m, "announced", "closed")
AnnounceRecovery(m) == Advance(m, "closed", "quiet")

Next == \E m \in Monitors :
          Open(m) \/ AnnounceDown(m) \/ Close(m) \/ AnnounceRecovery(m)

Safety == Init /\ [][Next]_phase

(* An incident that is opened is announced, and so is its end.              *)
Spec == /\ Safety
        /\ \A m \in Monitors : /\ WF_phase(AnnounceDown(m))
                               /\ WF_phase(AnnounceRecovery(m))
=============================================================================
