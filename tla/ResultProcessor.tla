-------------------------- MODULE ResultProcessor --------------------------
(***************************************************************************)
(* The result processor of Sofon (internals/modules/result): a router and  *)
(* two pools of workers that turn the outcome of every HTTP check into     *)
(* changes of four stores that share no transaction: the Redis hash        *)
(* monitor:incident:<id>, the Redis retry counter monitor:retry:<id>, the  *)
(* table monitor_incidents, and the Redis schedule monitor:schedule, the   *)
(* only thing that makes a monitor be checked again.                       *)
(*                                                                         *)
(* A worker runs its handler one command at a time: pc[w] names the        *)
(* command it issues next, and every command is one action.  A command of  *)
(* a step in FaultySteps may fail, with or without having been applied by  *)
(* the server, as long as MaxFaults allows it.  The scheduler and the      *)
(* executor appear as the single action Check.                             *)
(*                                                                         *)
(* This is the pipeline by itself: no request of the API comes while it    *)
(* runs.  One that enables a monitor again puts it into the schedule even  *)
(* while a check of it is under way (monitor/service.go:136-138); what     *)
(* that does to custody is in Pipeline, and to the incidents in            *)
(* MonitorService.                                                         *)
(***************************************************************************)
EXTENDS Integers, Sequences, FiniteSets

CONSTANTS
  Monitors,            \* the monitors, enabled before and never changed
  SuccessWorkers,      \* goroutines running successWorker
  FailureWorkers,      \* goroutines running failureWorker
  FailureThreshold,    \* result_processor.failure_threshold
  RetryLimit,          \* result_processor.retry_limit
  ResultCap, SuccessCap, FailureCap, AlertCap,     \* channel sizes
  FailureKinds,        \* what a check of a failing endpoint may report
  FaultySteps,         \* the handler steps whose commands may fail
  MaxFaults,           \* bound: failed commands
  MaxCrashes,          \* bound: crashes of the server process
  MaxOutages           \* bound: times an endpoint goes down

Workers == SuccessWorkers \cup FailureWorkers

(***************************************************************************)
(* What an HTTPResult tells the processor apart:                           *)
(*   success     Success = TRUE                                            *)
(*   rejected    an answer with the wrong status or latency: not retryable *)
(*   unstorable  the same, with a status code above 599, which the CHECK   *)
(*               on monitor_incidents.http_status refuses                  *)
(*   retryable   TIMEOUT, NETWORK_TIMEOUT, NETWORK_ERROR, UNKNOWN_ERROR    *)
(*   terminal    INVALID_REQUEST, DNS_FAILURE                              *)
(***************************************************************************)
Kinds == {"success", "rejected", "unstorable", "retryable", "terminal"}
Results == [monitor : Monitors, kind : Kinds]
NoResult == [monitor |-> "none", kind |-> "none"]

FailureSteps == {"storeTerminal", "incrementRetry", "clearSpentRetry",
                 "incrementIncident", "markAlerted", "createIncident",
                 "markDBIncident", "sendDown"}
SuccessSteps == {"storeStatus", "getIncident", "closeIncident",
                 "markRecovered", "sendRecovered", "clearIncident",
                 "clearRetry"}
Steps == FailureSteps \cup SuccessSteps \cup {"idle", "reschedule"}

ASSUME ResultProcessorAssumption ==
  /\ SuccessWorkers \cap FailureWorkers = {}
  /\ FailureThreshold \in Nat \ {0} /\ RetryLimit \in Nat \ {0}
  /\ {ResultCap, SuccessCap, FailureCap, AlertCap} \subseteq Nat \ {0}
  /\ FailureKinds \subseteq Kinds \ {"success"} /\ FailureKinds # {}
  /\ FaultySteps \subseteq Steps
  /\ {MaxFaults, MaxCrashes, MaxOutages} \subseteq Nat
  /\ NoResult \notin Results

VARIABLES
  \* Redis
  schedule,       \* members of the sorted set monitor:schedule
  incident,       \* monitor:incident:<id>; an all-clear record is a missing key
  retry,          \* monitor:retry:<id>, saturating just above RetryLimit
  status,         \* monitor:status:<id>: the outcome stored last
  \* Postgres
  incidents,      \* rows of monitor_incidents in order of insertion
  \* the server process
  resultChan, successChan, failureChan,
  routing,        \* the result the router has received and not yet sent on
  pc, job,        \* each worker's next command, and the result it handles
  incidentID,     \* the incident a worker has just created or closed
  alertLog,       \* every alert ever put on alertChan, in order
  alertsTaken,    \* how many of them have left the channel
  \* the world
  health, outages, faults, crashes,
  stopped         \* history: monitors given up on by Case 1 of handleFailure

custodyVars == <<schedule, resultChan, successChan, failureChan, routing, job,
                 stopped>>
storeVars == <<incident, retry, status, incidents>>
alertVars == <<alertLog, alertsTaken>>
worldVars == <<health, outages, faults, crashes>>
vars == <<custodyVars, storeVars, alertVars, worldVars, pc, incidentID>>

NoIncident == [failure_count |-> 0, alerted |-> FALSE,
               db_incident |-> FALSE, recovered_alerted |-> FALSE]
Alerts == [type : {"DOWN", "RECOVERED"}, incident : Nat]

Saturate(n, limit) == IF n > limit THEN limit ELSE n
(* Mutant: the UPDATE of CloseIncident without "end_time IS NULL".            *)
OpenIncidentsEverOpened(m) ==
  {i \in DOMAIN incidents : incidents[i].monitor = m}

OpenIncidents(m) ==
  {i \in DOMAIN incidents : incidents[i].monitor = m /\ incidents[i].open}

Hashes == [failure_count : 0 .. FailureThreshold, alerted : BOOLEAN,
           db_incident : BOOLEAN, recovered_alerted : BOOLEAN]
Rows == [monitor : Monitors, open : BOOLEAN]

ProcessTypes ==
  /\ schedule \in SUBSET Monitors /\ stopped \in SUBSET Monitors
  /\ resultChan \in Seq(Results)
  /\ successChan \in Seq(Results) /\ failureChan \in Seq(Results)
  /\ routing \in Results \cup {NoResult}
  /\ pc \in [Workers -> Steps]
  /\ job \in [Workers -> Results \cup {NoResult}]
StoreTypes ==
  /\ incident \in [Monitors -> Hashes]
  /\ retry \in [Monitors -> 0 .. RetryLimit + 1]
  /\ status \in [Monitors -> {"none", "success", "terminal"}]
  /\ incidents \in Seq(Rows)
AlertTypes ==
  /\ incidentID \in [Workers -> Nat]
  /\ alertLog \in Seq(Alerts) /\ alertsTaken \in 0 .. Len(alertLog)
WorldTypes ==
  /\ health \in [Monitors -> {"up", "down"}]
  /\ outages \in Nat /\ faults \in Nat /\ crashes \in Nat

(* The only constraint here that no assignment gives by itself is that of     *)
(* alertsTaken: no alert is received that was not sent.                       *)
TypeOK == ProcessTypes /\ StoreTypes /\ AlertTypes /\ WorldTypes

Init ==
  /\ schedule = Monitors /\ stopped = {}
  /\ incident = [m \in Monitors |-> NoIncident]
  /\ retry = [m \in Monitors |-> 0]
  /\ status = [m \in Monitors |-> "none"]
  /\ incidents = <<>>
  /\ resultChan = <<>> /\ successChan = <<>> /\ failureChan = <<>>
  /\ routing = NoResult
  /\ pc = [w \in Workers |-> "idle"]
  /\ job = [w \in Workers |-> NoResult]
  /\ incidentID = [w \in Workers |-> 0]
  /\ alertLog = <<>> /\ alertsTaken = 0
  /\ health = [m \in Monitors |-> "up"]
  /\ outages = 0 /\ faults = 0 /\ crashes = 0

-----------------------------------------------------------------------------
(* The surroundings of the processor.                                      *)

(* An endpoint goes down (at most MaxOutages times) or comes back.          *)
GoDown(m) ==
  /\ health[m] = "up" /\ outages < MaxOutages
  /\ health' = [health EXCEPT ![m] = "down"] /\ outages' = outages + 1
  /\ UNCHANGED <<custodyVars, storeVars, alertVars, pc, incidentID, faults,
                 crashes>>

ComeBack(m) ==
  /\ health[m] = "down"
  /\ health' = [health EXCEPT ![m] = "up"]
  /\ UNCHANGED <<custodyVars, storeVars, alertVars, pc, incidentID, outages,
                 faults, crashes>>

(* The scheduler pops m, the executor checks it and sends the result.       *)
Check(m) ==
  /\ m \in schedule /\ Len(resultChan) < ResultCap
  /\ \E k \in IF health[m] = "up" THEN {"success"} ELSE FailureKinds :
       resultChan' = Append(resultChan, [monitor |-> m, kind |-> k])
  /\ schedule' = schedule \ {m}
  /\ UNCHANGED <<successChan, failureChan, routing, job, stopped, storeVars,
                 alertVars, worldVars, pc, incidentID>>

(* Mutant: a receive that does not wait for an alert.                        *)
TakeAlertUnguarded ==
  /\ alertsTaken' = alertsTaken + 1
  /\ UNCHANGED <<custodyVars, storeVars, alertLog, worldVars, pc, incidentID>>

(* An alert worker receives from alertChan.                                 *)
TakeAlert ==
  /\ alertsTaken < Len(alertLog)
  /\ alertsTaken' = alertsTaken + 1
  /\ UNCHANGED <<custodyVars, storeVars, alertLog, worldVars, pc, incidentID>>

(* The retry counter's time to live of 5 minutes runs out.  While the       *)
(* endpoint fails, each retry renews it within a minute or so, and running  *)
(* out takes a stalled pipeline, which is counted as a fault.               *)
RetryExpires(m) ==
  /\ retry[m] > 0
  /\ \/ health[m] = "up" /\ UNCHANGED faults
     \/ "incrementRetry" \in FaultySteps /\ faults < MaxFaults
        /\ faults' = faults + 1
  /\ retry' = [retry EXCEPT ![m] = 0]
  /\ UNCHANGED <<custodyVars, incident, status, incidents, alertVars, health,
                 outages, crashes, pc, incidentID>>

(* The process dies and is started again: channels, the router and the      *)
(* workers lose what they held, Redis and Postgres keep what they had.      *)
Crash ==
  /\ crashes < MaxCrashes /\ crashes' = crashes + 1
  /\ resultChan' = <<>> /\ successChan' = <<>> /\ failureChan' = <<>>
  /\ routing' = NoResult
  /\ pc' = [w \in Workers |-> "idle"]
  /\ job' = [w \in Workers |-> NoResult]
  /\ incidentID' = [w \in Workers |-> 0]
  /\ alertsTaken' = Len(alertLog)
  /\ UNCHANGED <<schedule, stopped, storeVars, alertLog, health, outages,
                 faults>>

-----------------------------------------------------------------------------
(* The router.                                                             *)

RouterReceive ==
  /\ routing = NoResult /\ resultChan # <<>>
  /\ routing' = Head(resultChan) /\ resultChan' = Tail(resultChan)
  /\ UNCHANGED <<schedule, successChan, failureChan, job, stopped, storeVars,
                 alertVars, worldVars, pc, incidentID>>

RouterSend ==
  /\ routing # NoResult /\ routing' = NoResult
  /\ \/ /\ routing.kind = "success" /\ Len(successChan) < SuccessCap
        /\ successChan' = Append(successChan, routing)
        /\ UNCHANGED failureChan
     \/ /\ routing.kind # "success" /\ Len(failureChan) < FailureCap
        /\ failureChan' = Append(failureChan, routing)
        /\ UNCHANGED successChan
  /\ UNCHANGED <<schedule, resultChan, job, stopped, storeVars, alertVars,
                 worldVars, pc, incidentID>>

-----------------------------------------------------------------------------
(* Both handlers: moving on, failing, and the deferred ScheduleMonitor.     *)

Goto(w, step) == pc' = [pc EXCEPT ![w] = step]
Works == UNCHANGED faults
Fails(w) ==
  pc[w] \in FaultySteps /\ faults < MaxFaults /\ faults' = faults + 1

Finish(w) ==
  /\ Goto(w, "idle")
  /\ job' = [job EXCEPT ![w] = NoResult]
  /\ incidentID' = [incidentID EXCEPT ![w] = 0]

(* ScheduleMonitor, at the interval or 5 seconds from now: three attempts at *)
(* ZADD, and when they fail nothing but a line in the log.                   *)
ScheduleMonitor(w) ==
  LET m == job[w].monitor IN
  /\ pc[w] = "reschedule"
  /\ \/ Works /\ schedule' = schedule \cup {m}
     \/ Fails(w) /\ schedule' \in {schedule, schedule \cup {m}}
  /\ Finish(w)
  /\ UNCHANGED <<resultChan, successChan, failureChan, routing, stopped,
                 storeVars, alertVars, health, outages, crashes>>

-----------------------------------------------------------------------------
(* handleFailure.                                                          *)

ReceiveFailure(w) ==
  /\ pc[w] = "idle" /\ failureChan # <<>>
  /\ job' = [job EXCEPT ![w] = Head(failureChan)]
  /\ failureChan' = Tail(failureChan)
  /\ Goto(w, CASE Head(failureChan).kind = "terminal"  -> "storeTerminal"
              [] Head(failureChan).kind = "retryable" -> "incrementRetry"
              [] OTHER -> "incrementIncident")
  /\ UNCHANGED <<schedule, resultChan, successChan, routing, stopped, storeVars,
                 alertVars, worldVars, incidentID>>

(* Case 1: store the status and do not schedule the monitor again.           *)
StopMonitoring(w) ==
  LET m == job[w].monitor IN
  /\ pc[w] = "storeTerminal"
  /\ \/ Works /\ status' = [status EXCEPT ![m] = "terminal"]
     \/ Fails(w) /\ status' \in {status, [status EXCEPT ![m] = "terminal"]}
  /\ stopped' = stopped \cup {m}
  /\ Finish(w)
  /\ UNCHANGED <<schedule, resultChan, successChan, failureChan, routing,
                 incident, retry, incidents, alertVars, health, outages,
                 crashes>>

(* Mutant: the retry budget is never compared with the limit.                *)
IncrementRetryForever(w) ==
  LET m == job[w].monitor IN
  /\ pc[w] = "incrementRetry" /\ Works
  /\ retry' = [retry EXCEPT ![m] = Saturate(@ + 1, RetryLimit + 1)]
  /\ Goto(w, "reschedule")
  /\ UNCHANGED <<custodyVars, incident, status, incidents, alertVars, health,
                 outages, crashes, incidentID>>

(* Case 2: INCR, at most twice, as a reply lost after the server counted     *)
(* makes the helper count again.  Within the limit the monitor is retried.   *)
IncrementRetry(w) ==
  LET m == job[w].monitor
      Count(n) == Saturate(retry[m] + n, RetryLimit + 1) IN
  /\ pc[w] = "incrementRetry"
  /\ \/ \E n \in {1, 2} :
          /\ IF n = 1 THEN Works ELSE Fails(w)
          /\ retry' = [retry EXCEPT ![m] = Count(n)]
          /\ Goto(w, IF Count(n) <= RetryLimit THEN "reschedule"
                     ELSE "clearSpentRetry")
     \/ \E n \in 0 .. 2 :
          /\ Fails(w)
          /\ retry' = [retry EXCEPT ![m] = Count(n)]
          /\ Goto(w, "reschedule")
  /\ UNCHANGED <<custodyVars, incident, status, incidents, alertVars, health,
                 outages, crashes, incidentID>>

ClearSpentRetry(w) ==
  LET cleared == [retry EXCEPT ![job[w].monitor] = 0] IN
  /\ pc[w] = "clearSpentRetry"
  /\ \/ Works /\ retry' = cleared
     \/ Fails(w) /\ retry' \in {retry, cleared}
  /\ Goto(w, "incrementIncident")
  /\ UNCHANGED <<custodyVars, incident, status, incidents, alertVars, health,
                 outages, crashes, incidentID>>

(* Case 3: HINCRBY failure_count, at most three times.                       *)
IncrementIncident(w) ==
  LET m == job[w].monitor
      Count(n) == Saturate(incident[m].failure_count + n, FailureThreshold) IN
  /\ pc[w] = "incrementIncident"
  /\ \/ \E n \in 1 .. 3 :
          /\ IF n = 1 THEN Works ELSE Fails(w)
          /\ incident' = [incident EXCEPT ![m].failure_count = Count(n)]
          /\ Goto(w, IF Count(n) < FailureThreshold THEN "reschedule"
                     ELSE "markAlerted")
     \/ \E n \in 0 .. 3 :
          /\ Fails(w)
          /\ incident' = [incident EXCEPT ![m].failure_count = Count(n)]
          /\ Goto(w, "reschedule")
  /\ UNCHANGED <<custodyVars, retry, status, incidents, alertVars, health,
                 outages, crashes, incidentID>>

(* Mutant: HSET in place of HSETNX, every failure at the threshold goes on.   *)
MarkIncidentAlertedAlways(w) ==
  /\ pc[w] = "markAlerted" /\ Works
  /\ incident' = [incident EXCEPT ![job[w].monitor].alerted = TRUE]
  /\ Goto(w, "createIncident")
  /\ UNCHANGED <<custodyVars, retry, status, incidents, alertVars, health,
                 outages, crashes, incidentID>>

(* Mutant: a failure that was alerted before returns without rescheduling.    *)
MarkIncidentAlertedDroppingMonitor(w) ==
  LET m == job[w].monitor IN
  /\ pc[w] = "markAlerted" /\ Works
  /\ incident' = [incident EXCEPT ![m].alerted = TRUE]
  /\ IF incident[m].alerted THEN Finish(w)
     ELSE Goto(w, "createIncident") /\ UNCHANGED <<job, incidentID>>
  /\ UNCHANGED <<schedule, resultChan, successChan, failureChan, routing,
                 stopped, retry, status, incidents, alertVars, health, outages,
                 crashes>>

(* HSETNX alerted: only the first failure at the threshold goes on.          *)
MarkIncidentAlertedIfNotSet(w) ==
  LET m == job[w].monitor
      marked == [incident EXCEPT ![m].alerted = TRUE] IN
  /\ pc[w] = "markAlerted"
  /\ \/ /\ Works /\ incident' = marked
        /\ Goto(w, IF incident[m].alerted THEN "reschedule"
                   ELSE "createIncident")
     \/ /\ Fails(w) /\ incident' \in {incident, marked}
        /\ Goto(w, "reschedule")
  /\ UNCHANGED <<custodyVars, retry, status, incidents, alertVars, health,
                 outages, crashes, incidentID>>

CreateIncident(w) ==
  LET row == [monitor |-> job[w].monitor, open |-> TRUE]
      inserted == Append(incidents, row) IN
  /\ pc[w] = "createIncident"
  /\ \/ /\ job[w].kind # "unstorable" /\ Works
        /\ incidents' = inserted
        /\ incidentID' = [incidentID EXCEPT ![w] = Len(inserted)]
        /\ Goto(w, "markDBIncident")
     \/ /\ job[w].kind # "unstorable" /\ Fails(w)
        /\ incidents' \in {incidents, inserted}
        /\ UNCHANGED incidentID
        /\ Goto(w, "reschedule")
     \/ /\ job[w].kind = "unstorable" /\ Works
        /\ UNCHANGED <<incidents, incidentID>>
        /\ Goto(w, "reschedule")
  /\ UNCHANGED <<custodyVars, incident, retry, status, alertVars, health,
                 outages, crashes>>

(* Mutant: db_incident is written "false", as MarkIncidentAlerted does.       *)
MarkDBIncidentFalse(w) ==
  /\ pc[w] = "markDBIncident" /\ Works
  /\ incident' = [incident EXCEPT ![job[w].monitor].db_incident = FALSE]
  /\ Goto(w, "sendDown")
  /\ UNCHANGED <<custodyVars, retry, status, incidents, alertVars, health,
                 outages, crashes, incidentID>>

MarkDBIncidentCreated(w) ==
  LET marked == [incident EXCEPT ![job[w].monitor].db_incident = TRUE] IN
  /\ pc[w] = "markDBIncident"
  /\ \/ Works /\ incident' = marked
     \/ Fails(w) /\ incident' \in {incident, marked}
  /\ Goto(w, "sendDown")
  /\ UNCHANGED <<custodyVars, retry, status, incidents, alertVars, health,
                 outages, crashes, incidentID>>

(* A send on alertChan, which blocks while the channel is full.              *)
SendAlert(w, from, type, to) ==
  /\ pc[w] = from /\ Len(alertLog) - alertsTaken < AlertCap
  /\ alertLog' = Append(alertLog, [type |-> type, incident |-> incidentID[w]])
  /\ Goto(w, to)
  /\ UNCHANGED <<custodyVars, storeVars, alertsTaken, worldVars, incidentID>>

SendDown(w) == SendAlert(w, "sendDown", "DOWN", "reschedule")

-----------------------------------------------------------------------------
(* handleSuccess.                                                          *)

(* Mutant: the monitor is scheduled at the start of the handler.              *)
ReceiveSuccessScheduling(w) ==
  /\ pc[w] = "idle" /\ successChan # <<>>
  /\ job' = [job EXCEPT ![w] = Head(successChan)]
  /\ successChan' = Tail(successChan)
  /\ schedule' = schedule \cup {Head(successChan).monitor}
  /\ Goto(w, "storeStatus")
  /\ UNCHANGED <<resultChan, failureChan, routing, stopped, storeVars,
                 alertVars, worldVars, incidentID>>

ReceiveSuccess(w) ==
  /\ pc[w] = "idle" /\ successChan # <<>>
  /\ job' = [job EXCEPT ![w] = Head(successChan)]
  /\ successChan' = Tail(successChan)
  /\ Goto(w, "storeStatus")
  /\ UNCHANGED <<schedule, resultChan, failureChan, routing, stopped, storeVars,
                 alertVars, worldVars, incidentID>>

StoreStatus(w) ==
  LET stored == [status EXCEPT ![job[w].monitor] = "success"] IN
  /\ pc[w] = "storeStatus"
  /\ \/ Works /\ status' = stored
     \/ Fails(w) /\ status' \in {status, stored}
  /\ Goto(w, "getIncident")
  /\ UNCHANGED <<custodyVars, incident, retry, incidents, alertVars, health,
                 outages, crashes, incidentID>>

(* HGETALL.  A failed read and a missing key end the handler alike.          *)
GetIncident(w) ==
  LET found == incident[job[w].monitor] IN
  /\ pc[w] = "getIncident"
  /\ \/ /\ Works
        /\ Goto(w, IF found = NoIncident THEN "reschedule"
                   ELSE IF found.db_incident THEN "closeIncident"
                   ELSE "clearIncident")
     \/ Fails(w) /\ Goto(w, "reschedule")
  /\ UNCHANGED <<custodyVars, storeVars, alertVars, health, outages, crashes,
                 incidentID>>

(* The UPDATE closes every open row of the monitor and returns one of them.  *)
CloseIncident(w) ==
  LET open == OpenIncidents(job[w].monitor)
      closed == [i \in DOMAIN incidents |->
                   IF i \in open THEN [incidents[i] EXCEPT !.open = FALSE]
                   ELSE incidents[i]] IN
  /\ pc[w] = "closeIncident"
  /\ \/ /\ Works /\ incidents' = closed
        /\ \/ /\ open = {} /\ UNCHANGED incidentID
              /\ Goto(w, "clearIncident")
           \/ \E i \in open :
                /\ incidentID' = [incidentID EXCEPT ![w] = i]
                /\ Goto(w, "markRecovered")
     \/ /\ Fails(w) /\ incidents' \in {incidents, closed}
        /\ UNCHANGED incidentID
        /\ Goto(w, "reschedule")
  /\ UNCHANGED <<custodyVars, incident, retry, status, alertVars, health,
                 outages, crashes>>

(* Mutant: the answer of HSETNX taken the wrong way round.                   *)
MarkIncidentRecoveredInverted(w) ==
  LET m == job[w].monitor IN
  /\ pc[w] = "markRecovered" /\ Works
  /\ incident' = [incident EXCEPT ![m].recovered_alerted = TRUE]
  /\ Goto(w, IF incident[m].recovered_alerted THEN "sendRecovered"
             ELSE "clearIncident")
  /\ UNCHANGED <<custodyVars, retry, status, incidents, alertVars, health,
                 outages, crashes, incidentID>>

(* HSETNX recovered_alerted.                                                 *)
MarkIncidentRecoveredAlertedIfNotSet(w) ==
  LET m == job[w].monitor
      marked == [incident EXCEPT ![m].recovered_alerted = TRUE] IN
  /\ pc[w] = "markRecovered"
  /\ \/ /\ Works /\ incident' = marked
        /\ Goto(w, IF incident[m].recovered_alerted THEN "clearIncident"
                   ELSE "sendRecovered")
     \/ /\ Fails(w) /\ incident' \in {incident, marked}
        /\ Goto(w, "clearIncident")
  /\ UNCHANGED <<custodyVars, retry, status, incidents, alertVars, health,
                 outages, crashes, incidentID>>

SendRecovered(w) ==
  SendAlert(w, "sendRecovered", "RECOVERED", "clearIncident")

ClearIncident(w) ==
  LET cleared == [incident EXCEPT ![job[w].monitor] = NoIncident] IN
  /\ pc[w] = "clearIncident"
  /\ \/ Works /\ incident' = cleared
     \/ Fails(w) /\ incident' \in {incident, cleared}
  /\ Goto(w, "clearRetry")
  /\ UNCHANGED <<custodyVars, retry, status, incidents, alertVars, health,
                 outages, crashes, incidentID>>

ClearRetry(w) ==
  LET cleared == [retry EXCEPT ![job[w].monitor] = 0] IN
  /\ pc[w] = "clearRetry"
  /\ \/ Works /\ retry' = cleared
     \/ Fails(w) /\ retry' \in {retry, cleared}
  /\ Goto(w, "reschedule")
  /\ UNCHANGED <<custodyVars, incident, status, incidents, alertVars, health,
                 outages, crashes, incidentID>>

-----------------------------------------------------------------------------
FailureStep(w) ==
  \/ ReceiveFailure(w) \/ StopMonitoring(w)
  \/ IncrementRetry(w) \/ ClearSpentRetry(w) \/ IncrementIncident(w)
  \/ MarkIncidentAlertedIfNotSet(w) \/ CreateIncident(w)
  \/ MarkDBIncidentCreated(w) \/ SendDown(w) \/ ScheduleMonitor(w)

SuccessStep(w) ==
  \/ ReceiveSuccess(w) \/ StoreStatus(w) \/ GetIncident(w)
  \/ CloseIncident(w) \/ MarkIncidentRecoveredAlertedIfNotSet(w)
  \/ SendRecovered(w) \/ ClearIncident(w) \/ ClearRetry(w)
  \/ ScheduleMonitor(w)

Next ==
  \/ \E m \in Monitors :
       GoDown(m) \/ ComeBack(m) \/ Check(m) \/ RetryExpires(m)
  \/ RouterReceive \/ RouterSend \/ TakeAlert \/ Crash
  \/ \E w \in FailureWorkers : FailureStep(w)
  \/ \E w \in SuccessWorkers : SuccessStep(w)

Spec == Init /\ [][Next]_vars

(* Goroutines that can run do run: the pool workers, the router, the alert    *)
(* workers, and the ticker-driven scheduler and executor behind Check.        *)
Fairness ==
  /\ \A m \in Monitors : WF_vars(Check(m))
  /\ WF_vars(RouterReceive) /\ WF_vars(RouterSend) /\ WF_vars(TakeAlert)
  /\ \A w \in FailureWorkers : WF_vars(FailureStep(w))
  /\ \A w \in SuccessWorkers : WF_vars(SuccessStep(w))

FairSpec == Spec /\ Fairness

-----------------------------------------------------------------------------
(* Custody.  As long as nobody enables a monitor through the API, only the   *)
(* pipeline itself adds one to the schedule, and a monitor is a token that   *)
(* must never be lost or doubled.                                            *)

Carried(chan) == {chan[i].monitor : i \in DOMAIN chan}
HeldBy(pool) == {job[w].monitor : w \in {v \in pool : job[v] # NoResult}}

Custody ==
  [schedule |-> schedule,
   resultChan |-> Carried(resultChan),
   router |-> {routing.monitor : r \in {routing} \ {NoResult}},
   successChan |-> Carried(successChan),
   failureChan |-> Carried(failureChan),
   workers |-> HeldBy(Workers),
   stopped |-> stopped]

NoRepeats(chan) ==
  \A i, j \in DOMAIN chan : chan[i].monitor = chan[j].monitor => i = j

HandsApart ==
  \A v, w \in Workers :
    job[v] # NoResult /\ job[w] # NoResult /\ job[v].monitor = job[w].monitor
      => v = w
PlacesApart ==
  \A p, q \in DOMAIN Custody : p # q => Custody[p] \cap Custody[q] = {}

(* With no request of the API in between, at most one check of a monitor is   *)
(* under way, and none while it is in the schedule: the handlers read and     *)
(* write the monitor's hash, counter and rows in many steps                   *)
(* (success_worker.go:37-115, failure_worker.go:67-106) without any lock, and *)
(* only this keeps two of them apart.                                         *)
SingleCustody ==
  /\ NoRepeats(resultChan) /\ NoRepeats(successChan) /\ NoRepeats(failureChan)
  /\ HandsApart /\ PlacesApart

Lost == Monitors \ UNION {Custody[p] : p \in DOMAIN Custody}

(* Short of a crash, a monitor that was not given up on by Case 1 leaves the  *)
(* pipeline only by a failed command, and one failed command loses at most    *)
(* one monitor: every return of both handlers passes the deferred             *)
(* ScheduleMonitor or has scheduled the monitor itself.                       *)
EachLossHasItsFault == crashes = 0 => Cardinality(Lost) <= faults

(* What the comment of failure_worker.go:55-56 and the message of             *)
(* monitor/service.go:156 say: ScheduleMonitor is reliable, as it goes on     *)
(* asynchronously when its attempts fail.                                     *)
ScheduleMonitorIsReliable == crashes = 0 => Lost = {}

-----------------------------------------------------------------------------
(* Incidents and alerts.                                                     *)

Handling(m, steps) == \E w \in Workers : job[w].monitor = m /\ pc[w] \in steps

(* Whatever fails and whenever the process dies, no incident has its DOWN or  *)
(* its RECOVERED alert put on alertChan twice.                                *)
NoDuplicateAlerts ==
  \A i, j \in DOMAIN alertLog : alertLog[i] = alertLog[j] => i = j

(* Up to the first failed command or crash, monitor_incidents and the hash    *)
(* agree about the open incident of a monitor, except between the two writes  *)
(* of one handler.                                                            *)
IncidentTracked == faults = 0 /\ crashes = 0 =>
  \A m \in Monitors :
    /\ Cardinality(OpenIncidents(m)) <= 1
    /\ OpenIncidents(m) # {} =>
         incident[m].alerted
           /\ (incident[m].db_incident \/ Handling(m, {"markDBIncident"}))
    /\ incident[m].db_incident =>
         OpenIncidents(m) # {}
           \/ Handling(m, {"markRecovered", "sendRecovered", "clearIncident"})

(* The refinement: the phase of a monitor's latest incident.                  *)
Queued(type, i) ==
  \E k \in DOMAIN alertLog : alertLog[k] = [type |-> type, incident |-> i]

PhaseOf(m) ==
  LET mine == {i \in DOMAIN incidents : incidents[i].monitor = m}
      latest == CHOOSE i \in mine : \A j \in mine : j <= i IN
  IF mine = {} THEN "quiet"
  ELSE IF incidents[latest].open
    THEN IF Queued("DOWN", latest) THEN "announced" ELSE "opened"
    ELSE IF Queued("RECOVERED", latest) THEN "quiet" ELSE "closed"

Notifications ==
  INSTANCE OutageNotifications WITH phase <- [m \in Monitors |-> PhaseOf(m)]

(* While no command fails, the incidents and alerts of each monitor come in   *)
(* the promised order, each exactly once, and every opened or closed incident *)
(* is announced in the end.                                                   *)
AlertsInOrder == Notifications!Spec

(* A monitor whose endpoint stays down has an open incident in the end, and   *)
(* one whose endpoint stays up has none ("Creates an incident after 3         *)
(* consecutive failures", "Auto-resolves incidents", README.md:14-16).        *)
OutageIsReported ==
  \A m \in Monitors :
    <>[](health[m] = "down") => <>[](OpenIncidents(m) # {})
RecoveryIsReported ==
  \A m \in Monitors :
    <>[](health[m] = "up") => <>[](OpenIncidents(m) = {})
=============================================================================
