----------------------- MODULE ResultProcessorProofs -----------------------
(***************************************************************************)
(* Theorems about ResultProcessor, for every number of monitors and        *)
(* workers, every channel size, and every failure and crash of the model.  *)
(***************************************************************************)
EXTENDS ResultProcessor, FiniteSetTheorems, TLAPS

-----------------------------------------------------------------------------
(* Types.  A worker's commands act on the result it holds, so TypeOK is      *)
(* inductive only together with: a worker holds a result unless it is idle.  *)

BusyHolds == \A w \in Workers : pc[w] = "idle" <=> job[w] = NoResult

TypeInv == TypeOK /\ BusyHolds

LEMMA InitType == Init => TypeInv
BY ResultProcessorAssumption
   DEF Init, TypeInv, TypeOK, ProcessTypes, StoreTypes, AlertTypes, WorldTypes,
       BusyHolds, NoIncident, Steps, Results, Alerts, Hashes, Rows

LEMMA TakeFromChannel ==
  ASSUME NEW S, NEW chan \in Seq(S), chan # <<>>
  PROVE  Head(chan) \in S /\ Tail(chan) \in Seq(S)
OBVIOUS

LEMMA PutIntoChannel ==
  ASSUME NEW S, NEW chan \in Seq(S), NEW r \in S
  PROVE  Append(chan, r) \in Seq(S)
OBVIOUS

LEMMA FaultCount ==
  ASSUME TypeInv, NEW w, Works \/ Fails(w)
  PROVE  faults' \in Nat
BY DEF Works, Fails, TypeInv, TypeOK, WorldTypes

LEMMA BusyWorker ==
  ASSUME TypeInv, NEW w \in Workers, pc[w] # "idle"
  PROVE  job[w] \in Results /\ job[w].monitor \in Monitors
BY DEF TypeInv, TypeOK, ProcessTypes, BusyHolds, Results

(* A command in the middle of a handler writes stores or alerts and moves its *)
(* worker to another step.                                                    *)
LEMMA CommandType ==
  ASSUME TypeInv, NEW w \in Workers, NEW step \in Steps \ {"idle"},
         pc[w] # "idle", Goto(w, step), UNCHANGED custodyVars,
         UNCHANGED <<health, outages, crashes>>, Works \/ Fails(w),
         StoreTypes', AlertTypes'
  PROVE  TypeInv'
<1>1. ProcessTypes'
  BY DEF TypeInv, TypeOK, ProcessTypes, Goto, custodyVars
<1>2. BusyHolds'
  BY DEF TypeInv, TypeOK, ProcessTypes, BusyHolds, Goto, custodyVars
<1>3. WorldTypes'
  BY FaultCount DEF TypeInv, TypeOK, WorldTypes
<1> QED
  BY <1>1, <1>2, <1>3 DEF TypeInv, TypeOK

(* The last command of a handler.                                             *)
LEMMA FinishType ==
  ASSUME TypeInv, NEW w \in Workers, Finish(w), Works \/ Fails(w),
         schedule' \in SUBSET Monitors, stopped' \in SUBSET Monitors,
         UNCHANGED <<resultChan, successChan, failureChan, routing>>,
         UNCHANGED <<health, outages, crashes>>,
         StoreTypes', UNCHANGED alertVars
  PROVE  TypeInv'
<1>1. ProcessTypes'
  BY DEF TypeInv, TypeOK, ProcessTypes, Finish, Goto, Steps
<1>2. BusyHolds'
  BY DEF TypeInv, TypeOK, ProcessTypes, BusyHolds, Finish, Goto
<1>3. AlertTypes'
  BY DEF TypeInv, TypeOK, AlertTypes, Finish, alertVars
<1>4. WorldTypes'
  BY FaultCount DEF TypeInv, TypeOK, WorldTypes
<1> QED
  BY <1>1, <1>2, <1>3, <1>4 DEF TypeInv, TypeOK

(* A step that touches no worker.                                             *)
LEMMA SurroundingsType ==
  ASSUME TypeInv, UNCHANGED <<pc, job, incidentID>>,
         schedule' \in SUBSET Monitors, UNCHANGED stopped,
         resultChan' \in Seq(Results), successChan' \in Seq(Results),
         failureChan' \in Seq(Results), routing' \in Results \cup {NoResult},
         StoreTypes', AlertTypes', WorldTypes'
  PROVE  TypeInv'
BY DEF TypeInv, TypeOK, ProcessTypes, BusyHolds

LEMMA SurroundingsStep ==
  ASSUME TypeInv,
         \/ \E m \in Monitors :
              GoDown(m) \/ ComeBack(m) \/ Check(m) \/ RetryExpires(m)
         \/ RouterReceive \/ RouterSend \/ TakeAlert \/ Crash
         \/ UNCHANGED vars
  PROVE  TypeInv'
<1> USE ResultProcessorAssumption
<1>0. ProcessTypes /\ StoreTypes /\ AlertTypes /\ WorldTypes
  BY DEF TypeInv, TypeOK
<1>1. ASSUME NEW m \in Monitors, GoDown(m) PROVE TypeInv'
  <2>1. /\ UNCHANGED <<pc, job, incidentID>>
        /\ schedule' \in SUBSET Monitors /\ UNCHANGED stopped
        /\ resultChan' \in Seq(Results) /\ successChan' \in Seq(Results)
        /\ failureChan' \in Seq(Results) /\ routing' \in Results \cup {NoResult}
    BY <1>1, <1>0 DEF GoDown, ProcessTypes, custodyVars
  <2>2. StoreTypes'
    BY <1>1, <1>0 DEF GoDown, StoreTypes, storeVars
  <2>3. AlertTypes'
    BY <1>1, <1>0 DEF GoDown, AlertTypes, alertVars
  <2>4. WorldTypes'
    BY <1>1, <1>0 DEF GoDown, WorldTypes, worldVars
  <2> QED
    BY <2>1, <2>2, <2>3, <2>4, SurroundingsType
<1>2. ASSUME NEW m \in Monitors, ComeBack(m) PROVE TypeInv'
  <2>1. /\ UNCHANGED <<pc, job, incidentID>>
        /\ schedule' \in SUBSET Monitors /\ UNCHANGED stopped
        /\ resultChan' \in Seq(Results) /\ successChan' \in Seq(Results)
        /\ failureChan' \in Seq(Results) /\ routing' \in Results \cup {NoResult}
    BY <1>2, <1>0 DEF ComeBack, ProcessTypes, custodyVars
  <2>2. StoreTypes'
    BY <1>2, <1>0 DEF ComeBack, StoreTypes, storeVars
  <2>3. AlertTypes'
    BY <1>2, <1>0 DEF ComeBack, AlertTypes, alertVars
  <2>4. WorldTypes'
    BY <1>2, <1>0 DEF ComeBack, WorldTypes, worldVars
  <2> QED
    BY <2>1, <2>2, <2>3, <2>4, SurroundingsType
<1>3. ASSUME NEW m \in Monitors, Check(m) PROVE TypeInv'
  <2>1. /\ UNCHANGED <<pc, job, incidentID>>
        /\ schedule' \in SUBSET Monitors /\ UNCHANGED stopped
        /\ resultChan' \in Seq(Results) /\ successChan' \in Seq(Results)
        /\ failureChan' \in Seq(Results) /\ routing' \in Results \cup {NoResult}
    BY <1>3, <1>0 DEF Check, ProcessTypes, custodyVars, Results, Kinds
  <2>2. StoreTypes'
    BY <1>3, <1>0 DEF Check, StoreTypes, storeVars, Results, Kinds
  <2>3. AlertTypes'
    BY <1>3, <1>0 DEF Check, AlertTypes, alertVars, Results, Kinds
  <2>4. WorldTypes'
    BY <1>3, <1>0 DEF Check, WorldTypes, worldVars, Results, Kinds
  <2> QED
    BY <2>1, <2>2, <2>3, <2>4, SurroundingsType
<1>4. ASSUME NEW m \in Monitors, RetryExpires(m) PROVE TypeInv'
  <2>1. /\ UNCHANGED <<pc, job, incidentID>>
        /\ schedule' \in SUBSET Monitors /\ UNCHANGED stopped
        /\ resultChan' \in Seq(Results) /\ successChan' \in Seq(Results)
        /\ failureChan' \in Seq(Results) /\ routing' \in Results \cup {NoResult}
    BY <1>4, <1>0 DEF RetryExpires, ProcessTypes, custodyVars
  <2>2. StoreTypes'
    BY <1>4, <1>0 DEF RetryExpires, StoreTypes, storeVars
  <2>3. AlertTypes'
    BY <1>4, <1>0 DEF RetryExpires, AlertTypes, alertVars
  <2>4. WorldTypes'
    BY <1>4, <1>0 DEF RetryExpires, WorldTypes, worldVars
  <2> QED
    BY <2>1, <2>2, <2>3, <2>4, SurroundingsType
<1>5. CASE RouterReceive
  <2>1. /\ UNCHANGED <<pc, job, incidentID>>
        /\ schedule' \in SUBSET Monitors /\ UNCHANGED stopped
        /\ resultChan' \in Seq(Results) /\ successChan' \in Seq(Results)
        /\ failureChan' \in Seq(Results) /\ routing' \in Results \cup {NoResult}
    BY <1>5, <1>0, TakeFromChannel DEF RouterReceive, ProcessTypes, custodyVars
  <2>2. StoreTypes'
    BY <1>5, <1>0 DEF RouterReceive, StoreTypes, storeVars
  <2>3. AlertTypes'
    BY <1>5, <1>0 DEF RouterReceive, AlertTypes, alertVars
  <2>4. WorldTypes'
    BY <1>5, <1>0 DEF RouterReceive, WorldTypes, worldVars
  <2> QED
    BY <2>1, <2>2, <2>3, <2>4, SurroundingsType
<1>6. CASE RouterSend
  <2>1. /\ UNCHANGED <<pc, job, incidentID>>
        /\ schedule' \in SUBSET Monitors /\ UNCHANGED stopped
        /\ resultChan' \in Seq(Results) /\ successChan' \in Seq(Results)
        /\ failureChan' \in Seq(Results) /\ routing' \in Results \cup {NoResult}
    <3>1. routing \in Results
      BY <1>6, <1>0 DEF RouterSend, ProcessTypes
    <3>2. /\ Append(successChan, routing) \in Seq(Results)
          /\ Append(failureChan, routing) \in Seq(Results)
      BY <3>1, <1>0, PutIntoChannel DEF ProcessTypes
    <3> QED
      BY <1>6, <1>0, <3>2 DEF RouterSend, ProcessTypes
  <2>2. StoreTypes'
    BY <1>6, <1>0 DEF RouterSend, StoreTypes, storeVars
  <2>3. AlertTypes'
    BY <1>6, <1>0 DEF RouterSend, AlertTypes, alertVars
  <2>4. WorldTypes'
    BY <1>6, <1>0 DEF RouterSend, WorldTypes, worldVars
  <2> QED
    BY <2>1, <2>2, <2>3, <2>4, SurroundingsType
<1>7. CASE TakeAlert
  <2>1. /\ UNCHANGED <<pc, job, incidentID>>
        /\ schedule' \in SUBSET Monitors /\ UNCHANGED stopped
        /\ resultChan' \in Seq(Results) /\ successChan' \in Seq(Results)
        /\ failureChan' \in Seq(Results) /\ routing' \in Results \cup {NoResult}
    BY <1>7, <1>0 DEF TakeAlert, ProcessTypes, custodyVars
  <2>2. StoreTypes'
    BY <1>7, <1>0 DEF TakeAlert, StoreTypes, storeVars
  <2>3. AlertTypes'
    BY <1>7, <1>0 DEF TakeAlert, AlertTypes, alertVars
  <2>4. WorldTypes'
    BY <1>7, <1>0 DEF TakeAlert, WorldTypes, worldVars
  <2> QED
    BY <2>1, <2>2, <2>3, <2>4, SurroundingsType
<1>8. CASE Crash
  <2>1. ProcessTypes' /\ BusyHolds'
    BY <1>0, <1>8 DEF Crash, ProcessTypes, BusyHolds, Steps
  <2>2. StoreTypes' /\ AlertTypes' /\ WorldTypes'
    BY <1>0, <1>8 DEF Crash, StoreTypes, AlertTypes, WorldTypes, storeVars
  <2> QED
    BY <2>1, <2>2 DEF TypeInv, TypeOK
<1>9. CASE UNCHANGED vars
  <2>1. /\ UNCHANGED <<pc, job, incidentID>>
        /\ schedule' \in SUBSET Monitors /\ UNCHANGED stopped
        /\ resultChan' \in Seq(Results) /\ successChan' \in Seq(Results)
        /\ failureChan' \in Seq(Results) /\ routing' \in Results \cup {NoResult}
    BY <1>9, <1>0 DEF vars, ProcessTypes, custodyVars, storeVars, alertVars, worldVars
  <2>2. StoreTypes'
    BY <1>9, <1>0 DEF vars, StoreTypes, custodyVars, storeVars, alertVars, worldVars
  <2>3. AlertTypes'
    BY <1>9, <1>0 DEF vars, AlertTypes, custodyVars, storeVars, alertVars, worldVars
  <2>4. WorldTypes'
    BY <1>9, <1>0 DEF vars, WorldTypes, custodyVars, storeVars, alertVars, worldVars
  <2> QED
    BY <2>1, <2>2, <2>3, <2>4, SurroundingsType
<1> QED
  BY <1>1, <1>2, <1>3, <1>4, <1>5, <1>6, <1>7, <1>8, <1>9

LEMMA HashWrites ==
  ASSUME NEW h \in [Monitors -> Hashes], NEW m \in Monitors
  PROVE  /\ [h EXCEPT ![m].alerted = TRUE] \in [Monitors -> Hashes]
         /\ [h EXCEPT ![m].db_incident = TRUE] \in [Monitors -> Hashes]
         /\ [h EXCEPT ![m].recovered_alerted = TRUE] \in [Monitors -> Hashes]
         /\ [h EXCEPT ![m] = NoIncident] \in [Monitors -> Hashes]
<1>1. /\ [h[m] EXCEPT !.alerted = TRUE] \in Hashes
      /\ [h[m] EXCEPT !.db_incident = TRUE] \in Hashes
      /\ [h[m] EXCEPT !.recovered_alerted = TRUE] \in Hashes
  <2>1. h[m] \in Hashes
    OBVIOUS
  <2> QED
    BY <2>1 DEF Hashes
<1>2. NoIncident \in Hashes
  BY ResultProcessorAssumption DEF NoIncident, Hashes
<1>3. \A r \in Hashes : [h EXCEPT ![m] = r] \in [Monitors -> Hashes]
  OBVIOUS
<1> QED
  BY <1>1, <1>2, <1>3

LEMMA ScheduleMonitorType ==
  ASSUME TypeInv, NEW w \in Workers, ScheduleMonitor(w)
  PROVE  TypeInv'
<1>1. /\ pc[w] # "idle" /\ Finish(w) /\ (Works \/ Fails(w))
      /\ UNCHANGED <<resultChan, successChan, failureChan, routing, stopped>>
      /\ UNCHANGED <<health, outages, crashes>>
      /\ UNCHANGED alertVars /\ UNCHANGED storeVars
  BY DEF ScheduleMonitor
<1>2. job[w].monitor \in Monitors
  BY <1>1, BusyWorker
<1>3. schedule' \in SUBSET Monitors /\ stopped' \in SUBSET Monitors
  BY <1>1, <1>2 DEF ScheduleMonitor, TypeInv, TypeOK, ProcessTypes
<1>4. StoreTypes'
  BY <1>1 DEF TypeInv, TypeOK, StoreTypes, storeVars
<1> QED
  BY <1>1, <1>3, <1>4, FinishType

LEMMA FailureStepType ==
  ASSUME TypeInv, NEW w \in Workers, FailureStep(w)
  PROVE  TypeInv'
<1> USE ResultProcessorAssumption
<1>0. ProcessTypes /\ StoreTypes /\ AlertTypes /\ WorldTypes /\ BusyHolds
  BY DEF TypeInv, TypeOK
<1>1. ASSUME ReceiveFailure(w) PROVE TypeInv'
  <2>1. Head(failureChan) \in Results /\ Tail(failureChan) \in Seq(Results)
    BY <1>0, <1>1, TakeFromChannel DEF ReceiveFailure, ProcessTypes
  <2>2. PICK step \in Steps \ {"idle"} : Goto(w, step)
    BY <1>1 DEF ReceiveFailure, Steps, FailureSteps
  <2>3. ProcessTypes' /\ BusyHolds'
    BY <1>0, <1>1, <2>1, <2>2
       DEF ReceiveFailure, Goto, ProcessTypes, BusyHolds
  <2>4. StoreTypes' /\ AlertTypes' /\ WorldTypes'
    BY <1>0, <1>1
       DEF ReceiveFailure, StoreTypes, AlertTypes, WorldTypes, storeVars,
           alertVars, worldVars
  <2> QED
    BY <2>3, <2>4 DEF TypeInv, TypeOK
<1>2. ASSUME StopMonitoring(w) PROVE TypeInv'
  <2>1. /\ pc[w] # "idle" /\ Finish(w) /\ (Works \/ Fails(w))
        /\ UNCHANGED <<resultChan, successChan, failureChan, routing>>
        /\ UNCHANGED <<health, outages, crashes>> /\ UNCHANGED alertVars
    BY <1>2 DEF StopMonitoring
  <2>2. job[w].monitor \in Monitors
    BY <2>1, BusyWorker
  <2>3. schedule' \in SUBSET Monitors /\ stopped' \in SUBSET Monitors
    BY <1>0, <1>2, <2>2 DEF StopMonitoring, ProcessTypes
  <2>4. StoreTypes'
    BY <1>0, <1>2, <2>2 DEF StopMonitoring, StoreTypes
  <2> QED
    BY <2>1, <2>3, <2>4, FinishType
<1>3. ASSUME IncrementRetry(w) PROVE TypeInv'
  <2>1. /\ pc[w] # "idle" /\ UNCHANGED custodyVars
        /\ UNCHANGED <<health, outages, crashes>> /\ (Works \/ Fails(w))
    BY <1>3 DEF IncrementRetry
  <2>2. job[w].monitor \in Monitors
    BY <2>1, BusyWorker
  <2>3. PICK step \in Steps \ {"idle"} : Goto(w, step)
    BY <1>3 DEF IncrementRetry, Steps, FailureSteps
  <2>4. StoreTypes'
    <3>1. \A n \in 0 .. 2 :
            Saturate(retry[job[w].monitor] + n, RetryLimit + 1)
              \in 0 .. RetryLimit + 1
      <4>1. retry[job[w].monitor] \in 0 .. RetryLimit + 1
        BY <1>0, <2>2 DEF StoreTypes
      <4>2. RetryLimit + 1 \in Nat
        OBVIOUS
      <4> QED
        BY <4>1, <4>2 DEF Saturate
    <3>2. PICK n \in 0 .. 2 :
            retry' = [retry EXCEPT ![job[w].monitor] =
              Saturate(retry[job[w].monitor] + n, RetryLimit + 1)]
      BY <1>3 DEF IncrementRetry
    <3>3. retry' \in [Monitors -> 0 .. RetryLimit + 1]
      BY <1>0, <2>2, <3>1, <3>2 DEF StoreTypes
    <3> QED
      BY <1>3, <1>0, <3>3 DEF IncrementRetry, StoreTypes
  <2>5. AlertTypes'
    BY <1>3, <1>0 DEF IncrementRetry, AlertTypes, alertVars
  <2> QED
    BY <2>1, <2>3, <2>4, <2>5, CommandType
<1>4. ASSUME ClearSpentRetry(w) PROVE TypeInv'
  <2>1. /\ pc[w] # "idle" /\ UNCHANGED custodyVars
        /\ UNCHANGED <<health, outages, crashes>> /\ (Works \/ Fails(w))
    BY <1>4 DEF ClearSpentRetry
  <2>2. job[w].monitor \in Monitors
    BY <2>1, BusyWorker
  <2>3. PICK step \in Steps \ {"idle"} : Goto(w, step)
    BY <1>4 DEF ClearSpentRetry, Steps, FailureSteps
  <2>4. StoreTypes'
    BY <1>4, <1>0, <2>2 DEF ClearSpentRetry, StoreTypes, storeVars
  <2>5. AlertTypes'
    BY <1>4, <1>0 DEF ClearSpentRetry, AlertTypes, alertVars
  <2> QED
    BY <2>1, <2>3, <2>4, <2>5, CommandType
<1>5. ASSUME IncrementIncident(w) PROVE TypeInv'
  <2>1. /\ pc[w] # "idle" /\ UNCHANGED custodyVars
        /\ UNCHANGED <<health, outages, crashes>> /\ (Works \/ Fails(w))
    BY <1>5 DEF IncrementIncident
  <2>2. job[w].monitor \in Monitors
    BY <2>1, BusyWorker
  <2>3. PICK step \in Steps \ {"idle"} : Goto(w, step)
    BY <1>5 DEF IncrementIncident, Steps, FailureSteps
  <2>4. StoreTypes'
    <3>1. \A n \in 0 .. 3 :
            Saturate(incident[job[w].monitor].failure_count + n,
                     FailureThreshold) \in 0 .. FailureThreshold
      <4>1. incident[job[w].monitor].failure_count \in 0 .. FailureThreshold
        BY <1>0, <2>2 DEF StoreTypes, Hashes
      <4> QED
        BY <4>1 DEF Saturate
    <3>2. PICK n \in 0 .. 3 :
            incident' = [incident EXCEPT ![job[w].monitor].failure_count =
              Saturate(incident[job[w].monitor].failure_count + n,
                       FailureThreshold)]
      BY <1>5 DEF IncrementIncident
    <3>3. incident' \in [Monitors -> Hashes]
      BY <1>0, <2>2, <3>1, <3>2 DEF StoreTypes, Hashes
    <3> QED
      BY <1>5, <1>0, <3>3 DEF IncrementIncident, StoreTypes
  <2>5. AlertTypes'
    BY <1>5, <1>0 DEF IncrementIncident, AlertTypes, alertVars
  <2> QED
    BY <2>1, <2>3, <2>4, <2>5, CommandType
<1>6. ASSUME MarkIncidentAlertedIfNotSet(w) PROVE TypeInv'
  <2>1. /\ pc[w] # "idle" /\ UNCHANGED custodyVars
        /\ UNCHANGED <<health, outages, crashes>> /\ (Works \/ Fails(w))
    BY <1>6 DEF MarkIncidentAlertedIfNotSet
  <2>2. job[w].monitor \in Monitors
    BY <2>1, BusyWorker
  <2>3. PICK step \in Steps \ {"idle"} : Goto(w, step)
    BY <1>6 DEF MarkIncidentAlertedIfNotSet, Steps, FailureSteps
  <2>4. StoreTypes'
    <3> DEFINE written == [incident EXCEPT ![job[w].monitor].alerted = TRUE]
    <3>1. written \in [Monitors -> Hashes]
      BY <1>0, <2>2, HashWrites DEF StoreTypes
    <3>2. /\ incident' \in {incident, written}
          /\ UNCHANGED <<retry, status, incidents>>
      BY <1>6 DEF MarkIncidentAlertedIfNotSet
    <3> HIDE DEF written
    <3> QED
      BY <1>0, <3>1, <3>2 DEF StoreTypes
  <2>5. AlertTypes'
    BY <1>6, <1>0 DEF MarkIncidentAlertedIfNotSet, AlertTypes, alertVars
  <2> QED
    BY <2>1, <2>3, <2>4, <2>5, CommandType
<1>7. ASSUME CreateIncident(w) PROVE TypeInv'
  <2>1. /\ pc[w] # "idle" /\ UNCHANGED custodyVars
        /\ UNCHANGED <<health, outages, crashes>> /\ (Works \/ Fails(w))
    BY <1>7 DEF CreateIncident
  <2>2. job[w].monitor \in Monitors
    BY <2>1, BusyWorker
  <2>3. PICK step \in Steps \ {"idle"} : Goto(w, step)
    BY <1>7 DEF CreateIncident, Steps, FailureSteps
  <2>4. StoreTypes'
    <3>1. Append(incidents, [monitor |-> job[w].monitor, open |-> TRUE])
            \in Seq(Rows)
      BY <1>0, <2>2, PutIntoChannel DEF StoreTypes, Rows
    <3> QED
      BY <1>0, <1>7, <3>1 DEF CreateIncident, StoreTypes
  <2>5. AlertTypes'
    BY <1>7, <1>0 DEF CreateIncident, AlertTypes, StoreTypes, alertVars
  <2> QED
    BY <2>1, <2>3, <2>4, <2>5, CommandType
<1>8. ASSUME MarkDBIncidentCreated(w) PROVE TypeInv'
  <2>1. /\ pc[w] # "idle" /\ UNCHANGED custodyVars
        /\ UNCHANGED <<health, outages, crashes>> /\ (Works \/ Fails(w))
    BY <1>8 DEF MarkDBIncidentCreated
  <2>2. job[w].monitor \in Monitors
    BY <2>1, BusyWorker
  <2>3. PICK step \in Steps \ {"idle"} : Goto(w, step)
    BY <1>8 DEF MarkDBIncidentCreated, Steps, FailureSteps
  <2>4. StoreTypes'
    <3> DEFINE written == [incident EXCEPT ![job[w].monitor].db_incident = TRUE]
    <3>1. written \in [Monitors -> Hashes]
      BY <1>0, <2>2, HashWrites DEF StoreTypes
    <3>2. /\ incident' \in {incident, written}
          /\ UNCHANGED <<retry, status, incidents>>
      BY <1>8 DEF MarkDBIncidentCreated
    <3> HIDE DEF written
    <3> QED
      BY <1>0, <3>1, <3>2 DEF StoreTypes
  <2>5. AlertTypes'
    BY <1>8, <1>0 DEF MarkDBIncidentCreated, AlertTypes, alertVars
  <2> QED
    BY <2>1, <2>3, <2>4, <2>5, CommandType
<1>9. ASSUME SendDown(w) PROVE TypeInv'
  <2>1. /\ pc[w] # "idle" /\ UNCHANGED custodyVars
        /\ UNCHANGED <<health, outages, crashes>> /\ (Works \/ Fails(w))
    BY <1>9 DEF SendDown, SendAlert, Works, worldVars
  <2>2. job[w].monitor \in Monitors
    BY <2>1, BusyWorker
  <2>3. PICK step \in Steps \ {"idle"} : Goto(w, step)
    BY <1>9 DEF SendDown, Steps, FailureSteps, SendAlert
  <2>4. StoreTypes'
    BY <1>9, <1>0 DEF SendDown, StoreTypes, storeVars, SendAlert
  <2>5. AlertTypes'
    BY <1>9, <1>0 DEF SendDown, SendAlert, AlertTypes, Alerts
  <2> QED
    BY <2>1, <2>3, <2>4, <2>5, CommandType
<1>10. ASSUME ScheduleMonitor(w) PROVE TypeInv'
  BY <1>10, ScheduleMonitorType
<1> QED
  BY <1>1, <1>2, <1>3, <1>4, <1>5, <1>6, <1>7, <1>8, <1>9, <1>10
     DEF FailureStep

LEMMA SuccessStepType ==
  ASSUME TypeInv, NEW w \in Workers, SuccessStep(w)
  PROVE  TypeInv'
<1> USE ResultProcessorAssumption
<1>0. ProcessTypes /\ StoreTypes /\ AlertTypes /\ WorldTypes /\ BusyHolds
  BY DEF TypeInv, TypeOK
<1>1. ASSUME ReceiveSuccess(w) PROVE TypeInv'
  <2>1. Head(successChan) \in Results /\ Tail(successChan) \in Seq(Results)
    BY <1>0, <1>1, TakeFromChannel DEF ReceiveSuccess, ProcessTypes
  <2>2. Goto(w, "storeStatus") /\ "storeStatus" \in Steps \ {"idle"}
    BY <1>1 DEF ReceiveSuccess, Steps, SuccessSteps
  <2>3. ProcessTypes' /\ BusyHolds'
    BY <1>0, <1>1, <2>1, <2>2
       DEF ReceiveSuccess, Goto, ProcessTypes, BusyHolds
  <2>4. StoreTypes' /\ AlertTypes' /\ WorldTypes'
    BY <1>0, <1>1
       DEF ReceiveSuccess, StoreTypes, AlertTypes, WorldTypes, storeVars,
           alertVars, worldVars
  <2> QED
    BY <2>3, <2>4 DEF TypeInv, TypeOK
<1>2. ASSUME StoreStatus(w) PROVE TypeInv'
  <2>1. /\ pc[w] # "idle" /\ UNCHANGED custodyVars
        /\ UNCHANGED <<health, outages, crashes>> /\ (Works \/ Fails(w))
    BY <1>2 DEF StoreStatus
  <2>2. job[w].monitor \in Monitors
    BY <2>1, BusyWorker
  <2>3. PICK step \in Steps \ {"idle"} : Goto(w, step)
    BY <1>2 DEF StoreStatus, Steps, SuccessSteps
  <2>4. StoreTypes'
    BY <1>2, <1>0, <2>2 DEF StoreStatus, StoreTypes, storeVars
  <2>5. AlertTypes'
    BY <1>2, <1>0 DEF StoreStatus, AlertTypes, alertVars
  <2> QED
    BY <2>1, <2>3, <2>4, <2>5, CommandType
<1>3. ASSUME GetIncident(w) PROVE TypeInv'
  <2>1. /\ pc[w] # "idle" /\ UNCHANGED custodyVars
        /\ UNCHANGED <<health, outages, crashes>> /\ (Works \/ Fails(w))
    BY <1>3 DEF GetIncident
  <2>2. job[w].monitor \in Monitors
    BY <2>1, BusyWorker
  <2>3. PICK step \in Steps \ {"idle"} : Goto(w, step)
    BY <1>3 DEF GetIncident, Steps, SuccessSteps
  <2>4. StoreTypes'
    BY <1>3, <1>0 DEF GetIncident, StoreTypes, storeVars
  <2>5. AlertTypes'
    BY <1>3, <1>0 DEF GetIncident, AlertTypes, alertVars
  <2> QED
    BY <2>1, <2>3, <2>4, <2>5, CommandType
<1>4. ASSUME CloseIncident(w) PROVE TypeInv'
  <2>1. /\ pc[w] # "idle" /\ UNCHANGED custodyVars
        /\ UNCHANGED <<health, outages, crashes>> /\ (Works \/ Fails(w))
    BY <1>4 DEF CloseIncident
  <2>2. job[w].monitor \in Monitors
    BY <2>1, BusyWorker
  <2>3. PICK step \in Steps \ {"idle"} : Goto(w, step)
    BY <1>4 DEF CloseIncident, Steps, SuccessSteps
  <2> DEFINE open == OpenIncidents(job[w].monitor)
             closed == [i \in DOMAIN incidents |->
                          IF i \in open
                          THEN [incidents[i] EXCEPT !.open = FALSE]
                          ELSE incidents[i]]
  <2>4. StoreTypes'
    <3>1. incidents \in Seq(Rows)
      BY <1>0 DEF StoreTypes
    <3>2. \A i \in DOMAIN incidents : closed[i] \in Rows
      <4> TAKE i \in DOMAIN incidents
      <4>1. incidents[i] \in Rows
        BY <3>1
      <4>2. [incidents[i] EXCEPT !.open = FALSE] \in Rows
        BY <4>1 DEF Rows
      <4> QED
        BY <4>1, <4>2
    <3>3. closed \in Seq(Rows)
      BY <3>1, <3>2
    <3> QED
      BY <1>0, <1>4, <3>3 DEF CloseIncident, StoreTypes
  <2>5. AlertTypes'
    <3>1. open \subseteq Nat
      BY <1>0 DEF OpenIncidents, StoreTypes
    <3> QED
      BY <1>0, <1>4, <3>1 DEF CloseIncident, AlertTypes, alertVars
  <2> QED
    BY <2>1, <2>3, <2>4, <2>5, CommandType
<1>5. ASSUME MarkIncidentRecoveredAlertedIfNotSet(w) PROVE TypeInv'
  <2>1. /\ pc[w] # "idle" /\ UNCHANGED custodyVars
        /\ UNCHANGED <<health, outages, crashes>> /\ (Works \/ Fails(w))
    BY <1>5 DEF MarkIncidentRecoveredAlertedIfNotSet
  <2>2. job[w].monitor \in Monitors
    BY <2>1, BusyWorker
  <2>3. PICK step \in Steps \ {"idle"} : Goto(w, step)
    BY <1>5 DEF MarkIncidentRecoveredAlertedIfNotSet, Steps, SuccessSteps
  <2>4. StoreTypes'
    <3> DEFINE written == [incident EXCEPT ![job[w].monitor].recovered_alerted = TRUE]
    <3>1. written \in [Monitors -> Hashes]
      BY <1>0, <2>2, HashWrites DEF StoreTypes
    <3>2. /\ incident' \in {incident, written}
          /\ UNCHANGED <<retry, status, incidents>>
      BY <1>5 DEF MarkIncidentRecoveredAlertedIfNotSet
    <3> HIDE DEF written
    <3> QED
      BY <1>0, <3>1, <3>2 DEF StoreTypes
  <2>5. AlertTypes'
    BY <1>5, <1>0 DEF MarkIncidentRecoveredAlertedIfNotSet, AlertTypes, alertVars
  <2> QED
    BY <2>1, <2>3, <2>4, <2>5, CommandType
<1>6. ASSUME SendRecovered(w) PROVE TypeInv'
  <2>1. /\ pc[w] # "idle" /\ UNCHANGED custodyVars
        /\ UNCHANGED <<health, outages, crashes>> /\ (Works \/ Fails(w))
    BY <1>6 DEF SendRecovered, SendAlert, Works, worldVars
  <2>2. job[w].monitor \in Monitors
    BY <2>1, BusyWorker
  <2>3. PICK step \in Steps \ {"idle"} : Goto(w, step)
    BY <1>6 DEF SendRecovered, Steps, SuccessSteps, SendAlert
  <2>4. StoreTypes'
    BY <1>6, <1>0 DEF SendRecovered, StoreTypes, storeVars, SendAlert
  <2>5. AlertTypes'
    BY <1>6, <1>0 DEF SendRecovered, SendAlert, AlertTypes, Alerts
  <2> QED
    BY <2>1, <2>3, <2>4, <2>5, CommandType
<1>7. ASSUME ClearIncident(w) PROVE TypeInv'
  <2>1. /\ pc[w] # "idle" /\ UNCHANGED custodyVars
        /\ UNCHANGED <<health, outages, crashes>> /\ (Works \/ Fails(w))
    BY <1>7 DEF ClearIncident
  <2>2. job[w].monitor \in Monitors
    BY <2>1, BusyWorker
  <2>3. PICK step \in Steps \ {"idle"} : Goto(w, step)
    BY <1>7 DEF ClearIncident, Steps, SuccessSteps
  <2>4. StoreTypes'
    <3> DEFINE written == [incident EXCEPT ![job[w].monitor] = NoIncident]
    <3>1. written \in [Monitors -> Hashes]
      BY <1>0, <2>2, HashWrites DEF StoreTypes
    <3>2. /\ incident' \in {incident, written}
          /\ UNCHANGED <<retry, status, incidents>>
      BY <1>7 DEF ClearIncident
    <3> HIDE DEF written
    <3> QED
      BY <1>0, <3>1, <3>2 DEF StoreTypes
  <2>5. AlertTypes'
    BY <1>7, <1>0 DEF ClearIncident, AlertTypes, alertVars
  <2> QED
    BY <2>1, <2>3, <2>4, <2>5, CommandType
<1>8. ASSUME ClearRetry(w) PROVE TypeInv'
  <2>1. /\ pc[w] # "idle" /\ UNCHANGED custodyVars
        /\ UNCHANGED <<health, outages, crashes>> /\ (Works \/ Fails(w))
    BY <1>8 DEF ClearRetry
  <2>2. job[w].monitor \in Monitors
    BY <2>1, BusyWorker
  <2>3. PICK step \in Steps \ {"idle"} : Goto(w, step)
    BY <1>8 DEF ClearRetry, Steps, SuccessSteps
  <2>4. StoreTypes'
    BY <1>8, <1>0, <2>2 DEF ClearRetry, StoreTypes, storeVars
  <2>5. AlertTypes'
    BY <1>8, <1>0 DEF ClearRetry, AlertTypes, alertVars
  <2> QED
    BY <2>1, <2>3, <2>4, <2>5, CommandType
<1>9. ASSUME ScheduleMonitor(w) PROVE TypeInv'
  BY <1>9, ScheduleMonitorType
<1> QED
  BY <1>1, <1>2, <1>3, <1>4, <1>5, <1>6, <1>7, <1>8, <1>9 DEF SuccessStep

LEMMA NextType == TypeInv /\ [Next]_vars => TypeInv'
BY SurroundingsStep, FailureStepType, SuccessStepType DEF Next, Workers

(* Every variable keeps its type: in particular the ids handed to alerts are  *)
(* row numbers, and no alert is received that was not sent.                   *)
THEOREM TypeCorrect == Spec => []TypeOK
<1>1. Spec => []TypeInv
  BY InitType, NextType, PTL DEF Spec
<1> QED BY <1>1, PTL DEF TypeInv

-----------------------------------------------------------------------------
(* Custody.  Every action either leaves all places alone, empties some, or    *)
(* moves one monitor from one place to another.                               *)

Places == {"schedule", "resultChan", "router", "successChan", "failureChan",
           "workers", "stopped"}

LEMMA CustodyPlaces ==
  /\ DOMAIN Custody = Places
  /\ Custody["schedule"] = schedule /\ Custody["stopped"] = stopped
  /\ Custody["resultChan"] = Carried(resultChan)
  /\ Custody["successChan"] = Carried(successChan)
  /\ Custody["failureChan"] = Carried(failureChan)
  /\ Custody["workers"] = HeldBy(Workers)
  /\ routing = NoResult => Custody["router"] = {}
  /\ routing # NoResult => Custody["router"] = {routing.monitor}
BY DEF Custody, Places

LEMMA CustodyPlacesNext ==
  /\ Custody'["schedule"] = schedule' /\ Custody'["stopped"] = stopped'
  /\ Custody'["resultChan"] = Carried(resultChan')
  /\ Custody'["successChan"] = Carried(successChan')
  /\ Custody'["failureChan"] = Carried(failureChan')
  /\ Custody'["workers"] = HeldBy(Workers)'
  /\ routing' = NoResult => Custody'["router"] = {}
  /\ routing' # NoResult => Custody'["router"] = {routing'.monitor}
  /\ job' = job => HeldBy(Workers)' = HeldBy(Workers)
BY DEF Custody, Carried, HeldBy

LEMMA MovingKeepsApart ==
  ASSUME NEW C, NEW D, NEW a \in Places, NEW b \in Places, a # b, NEW m,
         \A p, q \in Places : p # q => C[p] \cap C[q] = {},
         m \in C[a], D[a] \subseteq C[a] \ {m}, D[b] \subseteq C[b] \cup {m},
         \A p \in Places \ {a, b} : D[p] \subseteq C[p]
  PROVE  \A p, q \in Places : p # q => D[p] \cap D[q] = {}
<1> SUFFICES ASSUME NEW p \in Places, NEW q \in Places, p # q,
                    NEW x \in D[p], x \in D[q]
             PROVE  FALSE
  OBVIOUS
<1>1. CASE x = m
  <2>1. \A r \in Places : x \in D[r] => r = b
    BY <1>1
  <2> QED
    BY <2>1
<1>2. CASE x # m
  <2>1. \A r \in Places : x \in D[r] => x \in C[r]
    BY <1>2
  <2> QED
    BY <2>1
<1> QED
  BY <1>1, <1>2

LEMMA Moving ==
  ASSUME PlacesApart, NEW a \in Places, NEW b \in Places, a # b,
         NEW m \in Custody[a],
         Custody'[a] \subseteq Custody[a] \ {m},
         Custody'[b] \subseteq Custody[b] \cup {m},
         \A p \in Places \ {a, b} : Custody'[p] \subseteq Custody[p]
  PROVE  PlacesApart'
<1>1. DOMAIN Custody = Places /\ DOMAIN Custody' = Places
  BY DEF Custody, Places
<1>2. \A p, q \in Places : p # q => Custody[p] \cap Custody[q] = {}
  BY <1>1 DEF PlacesApart
<1>3. \A p, q \in Places : p # q => Custody'[p] \cap Custody'[q] = {}
  BY <1>2, MovingKeepsApart
<1> QED
  BY <1>1, <1>3 DEF PlacesApart

LEMMA Emptying ==
  ASSUME PlacesApart, \A p \in Places : Custody'[p] \subseteq Custody[p]
  PROVE  PlacesApart'
BY DEF PlacesApart, Custody, Places

LEMMA Putting ==
  ASSUME NEW chan \in Seq(Results), NEW r \in Results, NoRepeats(chan),
         r.monitor \notin Carried(chan)
  PROVE  /\ NoRepeats(Append(chan, r))
         /\ Carried(Append(chan, r)) \subseteq Carried(chan) \cup {r.monitor}
<1>1. /\ DOMAIN Append(chan, r) = 1 .. Len(chan) + 1
      /\ DOMAIN chan = 1 .. Len(chan) /\ Len(chan) \in Nat
      /\ Append(chan, r)[Len(chan) + 1] = r
      /\ \A i \in 1 .. Len(chan) : Append(chan, r)[i] = chan[i]
  OBVIOUS
<1> QED
  BY <1>1 DEF NoRepeats, Carried

LEMMA Taking ==
  ASSUME NEW chan \in Seq(Results), chan # <<>>, NoRepeats(chan)
  PROVE  /\ NoRepeats(Tail(chan))
         /\ Head(chan).monitor \in Carried(chan)
         /\ Carried(Tail(chan)) \subseteq Carried(chan) \ {Head(chan).monitor}
<1>1. /\ DOMAIN Tail(chan) = 1 .. Len(chan) - 1
      /\ DOMAIN chan = 1 .. Len(chan) /\ Len(chan) \in Nat \ {0}
      /\ Head(chan) = chan[1]
      /\ \A i \in 1 .. Len(chan) - 1 : Tail(chan)[i] = chan[i + 1]
  OBVIOUS
<1> QED
  BY <1>1 DEF NoRepeats, Carried

LEMMA Grasping ==
  ASSUME TypeInv, NEW w \in Workers, pc[w] = "idle", HandsApart,
         NEW r \in Results, r.monitor \notin HeldBy(Workers),
         job' = [job EXCEPT ![w] = r]
  PROVE  HandsApart' /\ HeldBy(Workers)' \subseteq HeldBy(Workers) \cup {r.monitor}
<1>1. job \in [Workers -> Results \cup {NoResult}] /\ job[w] = NoResult
  BY DEF TypeInv, TypeOK, ProcessTypes, BusyHolds
<1>2. \A v \in Workers \ {w} : job'[v] = job[v]
  BY <1>1
<1>3. job'[w] = r
  BY <1>1
<1>4. HandsApart'
  BY <1>1, <1>2, <1>3 DEF HandsApart, HeldBy
<1>5. HeldBy(Workers)' \subseteq HeldBy(Workers) \cup {r.monitor}
  BY <1>1, <1>2, <1>3 DEF HeldBy
<1> QED
  BY <1>4, <1>5

LEMMA Releasing ==
  ASSUME TypeInv, NEW w \in Workers, pc[w] # "idle", HandsApart, Finish(w)
  PROVE  /\ HandsApart' /\ job[w].monitor \in HeldBy(Workers)
         /\ HeldBy(Workers)' \subseteq HeldBy(Workers) \ {job[w].monitor}
<1>1. job \in [Workers -> Results \cup {NoResult}] /\ job[w] # NoResult
  BY DEF TypeInv, TypeOK, ProcessTypes, BusyHolds
<1>2. /\ \A v \in Workers \ {w} : job'[v] = job[v]
      /\ job'[w] = NoResult
  BY <1>1 DEF Finish
<1> QED
  BY <1>1, <1>2 DEF HandsApart, HeldBy

CustodyInv == TypeInv /\ SingleCustody

LEMMA InitCustody == Init => SingleCustody
<1> SUFFICES ASSUME Init PROVE SingleCustody
  OBVIOUS
<1>1. Carried(<<>>) = {} /\ NoRepeats(<<>>)
  BY DEF Carried, NoRepeats
<1>2. HeldBy(Workers) = {} /\ HandsApart
  BY DEF Init, HeldBy, HandsApart
<1>3. \A p \in Places \ {"schedule"} : Custody[p] = {}
  BY <1>1, <1>2 DEF Init, Custody, Places
<1>4. PlacesApart
  BY <1>3, CustodyPlaces DEF PlacesApart, Places
<1> QED
  BY <1>1, <1>2, <1>4 DEF Init, SingleCustody

LEMMA CustodyUntouched ==
  ASSUME SingleCustody, UNCHANGED custodyVars PROVE SingleCustody'
<1>1. Custody' = Custody
  BY DEF Custody, Carried, HeldBy, custodyVars
<1>2. PlacesApart'
  BY <1>1 DEF SingleCustody, PlacesApart
<1> QED
  BY <1>2 DEF SingleCustody, NoRepeats, HandsApart, custodyVars

(* What the types say of the places.                                          *)
LEMMA CustodyTypes ==
  ASSUME TypeInv
  PROVE  /\ resultChan \in Seq(Results) /\ successChan \in Seq(Results)
         /\ failureChan \in Seq(Results)
         /\ routing \in Results \cup {NoResult} /\ schedule \subseteq Monitors
BY DEF TypeInv, TypeOK, ProcessTypes

LEMMA CheckCustody ==
  ASSUME CustodyInv, NEW m \in Monitors, Check(m) PROVE SingleCustody'
<1>1. PICK k \in Kinds : resultChan' = Append(resultChan, [monitor |-> m, kind |-> k])
  BY ResultProcessorAssumption DEF Check, Kinds
<1> DEFINE r == [monitor |-> m, kind |-> k]
<1>2. r \in Results /\ r.monitor = m
  BY DEF Results
<1>3. m \in schedule /\ schedule' = schedule \ {m} /\ UNCHANGED
        <<successChan, failureChan, routing, job, stopped>>
  BY DEF Check
<1>4. PlacesApart /\ NoRepeats(resultChan) /\ resultChan \in Seq(Results)
  BY CustodyTypes DEF CustodyInv, SingleCustody
<1>5. m \notin Carried(resultChan)
  BY <1>3, <1>4, CustodyPlaces DEF PlacesApart, Places
<1>6. /\ NoRepeats(resultChan)'
      /\ Carried(resultChan)' \subseteq Carried(resultChan) \cup {m}
  BY <1>1, <1>2, <1>4, <1>5, Putting DEF NoRepeats, Carried
<1>7. /\ Custody'["resultChan"] \subseteq Custody["resultChan"] \cup {m}
      /\ Custody'["schedule"] \subseteq Custody["schedule"] \ {m}
      /\ \A p \in Places \ {"schedule", "resultChan"} : Custody'[p] \subseteq Custody[p]
  BY <1>3, <1>6 DEF Custody, Places, HeldBy, Carried
<1>8. PlacesApart'
  <2>1. m \in Custody["schedule"]
    BY <1>3, CustodyPlaces
  <2> QED
    BY <1>4, <1>7, <2>1, Moving DEF Places
<1> QED
  BY <1>3, <1>6, <1>8 DEF CustodyInv, SingleCustody, HandsApart, NoRepeats

LEMMA RouterReceiveCustody ==
  ASSUME CustodyInv, RouterReceive PROVE SingleCustody'
<1> DEFINE r == Head(resultChan)
<1>1. /\ routing = NoResult /\ resultChan # <<>> /\ routing' = r
      /\ resultChan' = Tail(resultChan)
      /\ UNCHANGED <<schedule, successChan, failureChan, job, stopped>>
  BY DEF RouterReceive
<1>2. /\ PlacesApart /\ NoRepeats(resultChan) /\ resultChan \in Seq(Results)
      /\ r \in Results /\ r # NoResult
  BY <1>1, CustodyTypes, TakeFromChannel, ResultProcessorAssumption
     DEF CustodyInv, SingleCustody
<1>3. /\ NoRepeats(resultChan)' /\ r.monitor \in Carried(resultChan)
      /\ Carried(resultChan)' \subseteq Carried(resultChan) \ {r.monitor}
  BY <1>1, <1>2, Taking DEF NoRepeats, Carried
<1>4. /\ r.monitor \in Custody["resultChan"]
      /\ Custody'["resultChan"] \subseteq Custody["resultChan"] \ {r.monitor}
      /\ Custody'["router"] \subseteq Custody["router"] \cup {r.monitor}
      /\ \A p \in Places \ {"resultChan", "router"} : Custody'[p] \subseteq Custody[p]
  BY <1>1, <1>2, <1>3, CustodyPlaces, CustodyPlacesNext DEF Places
<1>5. PlacesApart'
  BY <1>2, <1>4, Moving DEF Places
<1> QED
  BY <1>1, <1>3, <1>5 DEF CustodyInv, SingleCustody, HandsApart, NoRepeats

LEMMA RouterSendCustody ==
  ASSUME CustodyInv, RouterSend PROVE SingleCustody'
<1> DEFINE m == routing.monitor
<1>1. /\ routing # NoResult /\ routing' = NoResult
      /\ UNCHANGED <<schedule, resultChan, job, stopped>>
  BY DEF RouterSend
<1>2. /\ PlacesApart /\ routing \in Results
      /\ successChan \in Seq(Results) /\ NoRepeats(successChan)
      /\ failureChan \in Seq(Results) /\ NoRepeats(failureChan)
  BY <1>1, CustodyTypes DEF CustodyInv, SingleCustody
<1>3. m \in Custody["router"]
  BY <1>1, CustodyPlaces
<1>4. m \notin Carried(successChan) /\ m \notin Carried(failureChan)
  BY <1>2, <1>3, CustodyPlaces DEF PlacesApart, Places
<1>5. CASE successChan' = Append(successChan, routing) /\ UNCHANGED failureChan
  <2>1. /\ NoRepeats(successChan)'
        /\ Carried(successChan)' \subseteq Carried(successChan) \cup {m}
    BY <1>2, <1>4, <1>5, Putting DEF NoRepeats, Carried
  <2>2. /\ Custody'["router"] \subseteq Custody["router"] \ {m}
        /\ Custody'["successChan"] \subseteq Custody["successChan"] \cup {m}
        /\ \A p \in Places \ {"router", "successChan"} : Custody'[p] \subseteq Custody[p]
    BY <1>1, <1>5, <2>1 DEF Custody, Places, HeldBy, Carried
  <2>3. PlacesApart'
    BY <1>2, <1>3, <2>2, Moving DEF Places
  <2> QED
    BY <1>1, <1>5, <2>1, <2>3 DEF CustodyInv, SingleCustody, HandsApart, NoRepeats
<1>6. CASE failureChan' = Append(failureChan, routing) /\ UNCHANGED successChan
  <2>1. /\ NoRepeats(failureChan)'
        /\ Carried(failureChan)' \subseteq Carried(failureChan) \cup {m}
    BY <1>2, <1>4, <1>6, Putting DEF NoRepeats, Carried
  <2>2. /\ Custody'["router"] \subseteq Custody["router"] \ {m}
        /\ Custody'["failureChan"] \subseteq Custody["failureChan"] \cup {m}
        /\ \A p \in Places \ {"router", "failureChan"} : Custody'[p] \subseteq Custody[p]
    BY <1>1, <1>6, <2>1 DEF Custody, Places, HeldBy, Carried
  <2>3. PlacesApart'
    BY <1>2, <1>3, <2>2, Moving DEF Places
  <2> QED
    BY <1>1, <1>6, <2>1, <2>3 DEF CustodyInv, SingleCustody, HandsApart, NoRepeats
<1> QED
  BY <1>5, <1>6 DEF RouterSend

LEMMA ReceiveFailureCustody ==
  ASSUME CustodyInv, NEW w \in Workers, ReceiveFailure(w) PROVE SingleCustody'
<1> DEFINE r == Head(failureChan)
<1>1. /\ pc[w] = "idle" /\ failureChan # <<>>
      /\ job' = [job EXCEPT ![w] = r] /\ failureChan' = Tail(failureChan)
      /\ UNCHANGED <<schedule, resultChan, successChan, routing, stopped>>
  BY DEF ReceiveFailure
<1>2. /\ PlacesApart /\ HandsApart /\ TypeInv /\ NoRepeats(failureChan)
      /\ failureChan \in Seq(Results) /\ r \in Results
  BY <1>1, CustodyTypes, TakeFromChannel DEF CustodyInv, SingleCustody
<1>3. /\ NoRepeats(failureChan)' /\ r.monitor \in Carried(failureChan)
      /\ Carried(failureChan)' \subseteq Carried(failureChan) \ {r.monitor}
  BY <1>1, <1>2, Taking DEF NoRepeats, Carried
<1>4. r.monitor \notin HeldBy(Workers)
  BY <1>2, <1>3, CustodyPlaces DEF PlacesApart, Places
<1>5. /\ HandsApart'
      /\ HeldBy(Workers)' \subseteq HeldBy(Workers) \cup {r.monitor}
  BY <1>1, <1>2, <1>4, Grasping
<1>6. /\ r.monitor \in Custody["failureChan"]
      /\ Custody'["failureChan"] \subseteq Custody["failureChan"] \ {r.monitor}
      /\ Custody'["workers"] \subseteq Custody["workers"] \cup {r.monitor}
      /\ \A p \in Places \ {"failureChan", "workers"} : Custody'[p] \subseteq Custody[p]
  BY <1>1, <1>3, <1>5, CustodyPlaces, CustodyPlacesNext DEF Places
<1>7. PlacesApart'
  BY <1>2, <1>6, Moving DEF Places
<1> QED
  BY <1>1, <1>3, <1>5, <1>7 DEF CustodyInv, SingleCustody, NoRepeats

LEMMA ReceiveSuccessCustody ==
  ASSUME CustodyInv, NEW w \in Workers, ReceiveSuccess(w) PROVE SingleCustody'
<1> DEFINE r == Head(successChan)
<1>1. /\ pc[w] = "idle" /\ successChan # <<>>
      /\ job' = [job EXCEPT ![w] = r] /\ successChan' = Tail(successChan)
      /\ UNCHANGED <<schedule, resultChan, failureChan, routing, stopped>>
  BY DEF ReceiveSuccess
<1>2. /\ PlacesApart /\ HandsApart /\ TypeInv /\ NoRepeats(successChan)
      /\ successChan \in Seq(Results) /\ r \in Results
  BY <1>1, CustodyTypes, TakeFromChannel DEF CustodyInv, SingleCustody
<1>3. /\ NoRepeats(successChan)' /\ r.monitor \in Carried(successChan)
      /\ Carried(successChan)' \subseteq Carried(successChan) \ {r.monitor}
  BY <1>1, <1>2, Taking DEF NoRepeats, Carried
<1>4. r.monitor \notin HeldBy(Workers)
  BY <1>2, <1>3, CustodyPlaces DEF PlacesApart, Places
<1>5. /\ HandsApart'
      /\ HeldBy(Workers)' \subseteq HeldBy(Workers) \cup {r.monitor}
  BY <1>1, <1>2, <1>4, Grasping
<1>6. /\ r.monitor \in Custody["successChan"]
      /\ Custody'["successChan"] \subseteq Custody["successChan"] \ {r.monitor}
      /\ Custody'["workers"] \subseteq Custody["workers"] \cup {r.monitor}
      /\ \A p \in Places \ {"successChan", "workers"} : Custody'[p] \subseteq Custody[p]
  BY <1>1, <1>3, <1>5, CustodyPlaces, CustodyPlacesNext DEF Places
<1>7. PlacesApart'
  BY <1>2, <1>6, Moving DEF Places
<1> QED
  BY <1>1, <1>3, <1>5, <1>7 DEF CustodyInv, SingleCustody, NoRepeats

(* The end of a handler: the monitor goes back to the schedule, or is lost,   *)
(* or is stopped.                                                             *)
LEMMA FinishCustody ==
  ASSUME CustodyInv, NEW w \in Workers, pc[w] # "idle", Finish(w),
         UNCHANGED <<resultChan, successChan, failureChan, routing>>,
         \/ UNCHANGED stopped /\ schedule' \subseteq schedule \cup {job[w].monitor}
         \/ UNCHANGED schedule /\ stopped' = stopped \cup {job[w].monitor}
  PROVE  SingleCustody'
<1> DEFINE m == job[w].monitor
<1>1. PlacesApart /\ HandsApart /\ TypeInv
  BY DEF CustodyInv, SingleCustody
<1>2. /\ HandsApart' /\ m \in HeldBy(Workers)
      /\ HeldBy(Workers)' \subseteq HeldBy(Workers) \ {m}
  BY <1>1, Releasing
<1>3. /\ m \in Custody["workers"]
      /\ Custody'["workers"] \subseteq Custody["workers"] \ {m}
      /\ \A p \in Places \ {"workers", "schedule", "stopped"} : Custody'[p] \subseteq Custody[p]
  BY <1>2, CustodyPlaces, CustodyPlacesNext DEF Places
<1>4. CASE UNCHANGED stopped /\ schedule' \subseteq schedule \cup {m}
  <2>1. /\ Custody'["schedule"] \subseteq Custody["schedule"] \cup {m}
        /\ Custody'["stopped"] \subseteq Custody["stopped"]
    BY <1>4 DEF Custody
  <2>2. \A p \in Places \ {"workers", "schedule"} : Custody'[p] \subseteq Custody[p]
    BY <1>3, <2>1
  <2>3. PlacesApart'
    BY <1>1, <1>3, <2>1, <2>2, Moving DEF Places
  <2> QED
    BY <1>2, <2>3 DEF CustodyInv, SingleCustody, NoRepeats
<1>5. CASE UNCHANGED schedule /\ stopped' = stopped \cup {m}
  <2>1. /\ Custody'["stopped"] \subseteq Custody["stopped"] \cup {m}
        /\ Custody'["schedule"] \subseteq Custody["schedule"]
    BY <1>5 DEF Custody
  <2>2. \A p \in Places \ {"workers", "stopped"} : Custody'[p] \subseteq Custody[p]
    BY <1>3, <2>1
  <2>3. PlacesApart'
    BY <1>1, <1>3, <2>1, <2>2, Moving DEF Places
  <2> QED
    BY <1>2, <2>3 DEF CustodyInv, SingleCustody, NoRepeats
<1> QED
  BY <1>4, <1>5

LEMMA CrashCustody ==
  ASSUME CustodyInv, Crash PROVE SingleCustody'
<1>1. /\ resultChan' = <<>> /\ successChan' = <<>> /\ failureChan' = <<>>
      /\ routing' = NoResult /\ job' = [w \in Workers |-> NoResult]
      /\ UNCHANGED <<schedule, stopped>>
  BY DEF Crash
<1>2. \A p \in Places : Custody'[p] \subseteq Custody[p]
  BY <1>1 DEF Custody, Places, Carried, HeldBy
<1>3. PlacesApart'
  BY <1>2, Emptying DEF CustodyInv, SingleCustody
<1>4. HandsApart'
  BY <1>1 DEF HandsApart
<1>5. NoRepeats(resultChan)' /\ NoRepeats(successChan)' /\ NoRepeats(failureChan)'
  BY <1>1 DEF NoRepeats
<1> QED
  BY <1>3, <1>4, <1>5 DEF SingleCustody

LEMMA NextCustody == CustodyInv /\ [Next]_vars => CustodyInv'
<1> SUFFICES ASSUME CustodyInv, [Next]_vars PROVE SingleCustody'
  BY NextType DEF CustodyInv
<1>0. SingleCustody
  BY DEF CustodyInv
<1>1. ASSUME NEW m \in Monitors,
             GoDown(m) \/ ComeBack(m) \/ Check(m) \/ RetryExpires(m)
      PROVE  SingleCustody'
  BY <1>0, <1>1, CheckCustody, CustodyUntouched DEF GoDown, ComeBack, RetryExpires
<1>2. ASSUME NEW w \in Workers, ScheduleMonitor(w) PROVE SingleCustody'
  BY <1>2, FinishCustody DEF ScheduleMonitor
<1>3. ASSUME NEW w \in Workers, FailureStep(w) PROVE SingleCustody'
  <2>1. CASE ReceiveFailure(w)
    BY <2>1, ReceiveFailureCustody
  <2>2. CASE StopMonitoring(w)
    BY <2>2, FinishCustody DEF StopMonitoring
  <2>3. CASE \/ IncrementRetry(w) \/ ClearSpentRetry(w) \/ IncrementIncident(w)
             \/ MarkIncidentAlertedIfNotSet(w) \/ CreateIncident(w)
             \/ MarkDBIncidentCreated(w) \/ SendDown(w)
    <3>1. UNCHANGED custodyVars
      BY <2>3 DEF IncrementRetry, ClearSpentRetry, IncrementIncident,
                  MarkIncidentAlertedIfNotSet, CreateIncident,
                  MarkDBIncidentCreated, SendDown, SendAlert
    <3> QED
      BY <1>0, <3>1, CustodyUntouched
  <2> QED
    BY <1>2, <1>3, <2>1, <2>2, <2>3 DEF FailureStep
<1>4. ASSUME NEW w \in Workers, SuccessStep(w) PROVE SingleCustody'
  <2>1. CASE ReceiveSuccess(w)
    BY <2>1, ReceiveSuccessCustody
  <2>2. CASE \/ StoreStatus(w) \/ GetIncident(w) \/ CloseIncident(w)
             \/ MarkIncidentRecoveredAlertedIfNotSet(w) \/ SendRecovered(w)
             \/ ClearIncident(w) \/ ClearRetry(w)
    <3>1. UNCHANGED custodyVars
      BY <2>2 DEF StoreStatus, GetIncident, CloseIncident,
                  MarkIncidentRecoveredAlertedIfNotSet, SendRecovered,
                  ClearIncident, ClearRetry, SendAlert
    <3> QED
      BY <1>0, <3>1, CustodyUntouched
  <2> QED
    BY <1>2, <1>4, <2>1, <2>2 DEF SuccessStep
<1>5. CASE TakeAlert \/ UNCHANGED vars
  BY <1>0, <1>5, CustodyUntouched DEF TakeAlert, vars
<1> QED
  BY <1>1, <1>3, <1>4, <1>5, RouterReceiveCustody, RouterSendCustody,
     CrashCustody DEF Next, Workers

(* Through every failed command and every crash, and with no request of the   *)
(* API that enables a monitor meanwhile, none is ever under two checks at     *)
(* once, or checked while it waits in the schedule.                           *)
THEOREM CustodyHolds == Spec => []SingleCustody
<1>1. Init => CustodyInv
  BY InitType, InitCustody DEF CustodyInv
<1>2. Spec => []CustodyInv
  BY <1>1, NextCustody, PTL DEF Spec
<1> QED BY <1>2, PTL DEF CustodyInv

-----------------------------------------------------------------------------
(* Each failed command costs at most one monitor: a set that grows by one     *)
(* only when a command fails is counted by the failed commands.               *)

(* Both counters grow by one at a time and up to their bounds.                *)
Grows(n, next, bound) == next = n \/ (n < bound /\ next = n + 1)

LEMMA CountersGrow ==
  ASSUME TypeInv, [Next]_vars
  PROVE  Grows(faults, faults', MaxFaults) /\ Grows(crashes, crashes', MaxCrashes)
<1> USE DEF Works, Fails, worldVars, Grows
<1> DEFINE Grown == /\ Grows(faults, faults', MaxFaults)
                    /\ Grows(crashes, crashes', MaxCrashes)
<1>1. ASSUME NEW m \in Monitors,
             GoDown(m) \/ ComeBack(m) \/ Check(m) \/ RetryExpires(m)
      PROVE  Grown
  BY <1>1 DEF GoDown, ComeBack, Check, RetryExpires
<1>2. ASSUME NEW w \in Workers, FailureStep(w) PROVE Grown
  BY <1>2 DEF FailureStep, ReceiveFailure, StopMonitoring, IncrementRetry,
     ClearSpentRetry, IncrementIncident, MarkIncidentAlertedIfNotSet,
     CreateIncident, MarkDBIncidentCreated, SendDown, SendAlert, ScheduleMonitor
<1>3. ASSUME NEW w \in Workers, SuccessStep(w) PROVE Grown
  BY <1>3 DEF SuccessStep, ReceiveSuccess, StoreStatus, GetIncident,
     CloseIncident, MarkIncidentRecoveredAlertedIfNotSet, SendRecovered,
     SendAlert, ClearIncident, ClearRetry, ScheduleMonitor
<1>4. CASE RouterReceive \/ RouterSend \/ TakeAlert \/ Crash \/ UNCHANGED vars
  BY <1>4 DEF RouterReceive, RouterSend, TakeAlert, Crash, vars
<1> QED
  BY <1>1, <1>2, <1>3, <1>4 DEF Next, Workers

LEMMA FaultsOnlyGrow ==
  ASSUME TypeInv, [Next]_vars PROVE faults' \in {faults, faults + 1}
BY CountersGrow DEF Grows

LEMMA CrashesOnlyGrow ==
  ASSUME TypeInv, [Next]_vars, crashes' = 0 PROVE crashes = 0
BY CountersGrow DEF Grows, TypeInv, TypeOK, WorldTypes

LEMMA OneMore ==
  ASSUME NEW S, IsFiniteSet(S), NEW x, NEW T, T \subseteq S \cup {x}
  PROVE  IsFiniteSet(T) /\ Cardinality(T) <= Cardinality(S) + 1
<1>1. /\ IsFiniteSet(S \cup {x}) /\ Cardinality(S) \in Nat
      /\ Cardinality(S \cup {x}) \in {Cardinality(S), Cardinality(S) + 1}
  BY FS_AddElement, FS_CardinalityType
<1>2. /\ IsFiniteSet(T) /\ Cardinality(T) <= Cardinality(S \cup {x})
      /\ Cardinality(T) \in Nat
  BY <1>1, FS_Subset, FS_CardinalityType
<1> QED
  BY <1>1, <1>2

LEMMA CountedByFaults ==
  ASSUME TypeInv, TypeInv', NEW S, IsFiniteSet(S), Cardinality(S) <= faults,
         NEW T,
         \/ T \subseteq S /\ faults' >= faults
         \/ \E x : T \subseteq S \cup {x} /\ faults' = faults + 1
  PROVE  IsFiniteSet(T) /\ Cardinality(T) <= faults'
<1>1. faults \in Nat /\ faults' \in Nat
  BY DEF TypeInv, TypeOK, WorldTypes
<1>2. CASE T \subseteq S /\ faults' >= faults
  <2>1. /\ IsFiniteSet(T) /\ Cardinality(T) <= Cardinality(S)
        /\ Cardinality(T) \in Nat /\ Cardinality(S) \in Nat
    BY <1>2, FS_Subset, FS_CardinalityType
  <2> QED
    BY <1>1, <1>2, <2>1
<1>3. ASSUME NEW x, T \subseteq S \cup {x}, faults' = faults + 1
      PROVE  IsFiniteSet(T) /\ Cardinality(T) <= faults'
  <2>1. /\ IsFiniteSet(T) /\ Cardinality(T) <= Cardinality(S) + 1
        /\ Cardinality(T) \in Nat /\ Cardinality(S) \in Nat
    BY <1>3, OneMore, FS_CardinalityType
  <2> QED
    BY <1>1, <1>3, <2>1
<1> QED
  BY <1>2, <1>3

-----------------------------------------------------------------------------
(* Losses.                                                                    *)

LEMMA LostPlaces ==
  /\ \A x : x \in Lost <=> x \in Monitors /\ \A p \in Places : x \notin Custody[p]
  /\ \A x : x \in Lost' <=> x \in Monitors /\ \A p \in Places : x \notin Custody'[p]
<1>1. DOMAIN Custody = Places /\ DOMAIN Custody' = Places
  BY DEF Custody, Places
<1> QED
  BY <1>1 DEF Lost

(* A monitor that leaves one place for another is not lost.                   *)
LEMMA Kept ==
  ASSUME NEW m, \A p \in Places : Custody[p] \subseteq Custody'[p] \cup {m}
  PROVE  /\ Lost' \subseteq Lost \cup {m}
         /\ (\E p \in Places : m \in Custody'[p]) => Lost' \subseteq Lost
BY LostPlaces

LEMMA KeptAfterPut ==
  ASSUME NEW chan \in Seq(Results), NEW r \in Results
  PROVE  /\ Carried(chan) \subseteq Carried(Append(chan, r))
         /\ r.monitor \in Carried(Append(chan, r))
<1>1. /\ DOMAIN Append(chan, r) = 1 .. Len(chan) + 1
      /\ DOMAIN chan = 1 .. Len(chan) /\ Len(chan) \in Nat
      /\ Append(chan, r)[Len(chan) + 1] = r
      /\ \A i \in 1 .. Len(chan) : Append(chan, r)[i] = chan[i]
  OBVIOUS
<1> QED
  BY <1>1 DEF Carried

LEMMA KeptAfterTake ==
  ASSUME NEW chan \in Seq(Results), chan # <<>>
  PROVE  Carried(chan) \subseteq Carried(Tail(chan)) \cup {Head(chan).monitor}
<1>1. /\ DOMAIN Tail(chan) = 1 .. Len(chan) - 1
      /\ DOMAIN chan = 1 .. Len(chan) /\ Len(chan) \in Nat \ {0}
      /\ Head(chan) = chan[1]
      /\ \A i \in 1 .. Len(chan) - 1 : Tail(chan)[i] = chan[i + 1]
  OBVIOUS
<1> SUFFICES ASSUME NEW i \in DOMAIN chan, i # 1
             PROVE  chan[i].monitor \in Carried(Tail(chan))
  BY <1>1 DEF Carried
<1>2. i - 1 \in 1 .. Len(chan) - 1 /\ (i - 1) + 1 = i
  BY <1>1
<1>3. Tail(chan)[i - 1] = chan[i] /\ i - 1 \in DOMAIN Tail(chan)
  BY <1>1, <1>2
<1> QED
  BY <1>3 DEF Carried

LEMMA KeptByHands ==
  ASSUME TypeInv, NEW w \in Workers
  PROVE  /\ \A r \in Results :
              pc[w] = "idle" /\ job' = [job EXCEPT ![w] = r] =>
                /\ HeldBy(Workers) \subseteq HeldBy(Workers)'
                /\ r.monitor \in HeldBy(Workers)'
         /\ Finish(w) => HeldBy(Workers) \subseteq HeldBy(Workers)' \cup {job[w].monitor}
<1>1. job \in [Workers -> Results \cup {NoResult}]
      /\ (pc[w] = "idle" => job[w] = NoResult)
  BY DEF TypeInv, TypeOK, ProcessTypes, BusyHolds
<1>2. ASSUME NEW r \in Results, pc[w] = "idle", job' = [job EXCEPT ![w] = r]
      PROVE  HeldBy(Workers) \subseteq HeldBy(Workers)' /\ r.monitor \in HeldBy(Workers)'
  <2>1. /\ job'[w] = r /\ r # NoResult
        /\ \A v \in Workers \ {w} : job'[v] = job[v]
    BY <1>1, <1>2, ResultProcessorAssumption
  <2> QED
    BY <1>1, <1>2, <2>1 DEF HeldBy
<1>3. ASSUME Finish(w)
      PROVE  HeldBy(Workers) \subseteq HeldBy(Workers)' \cup {job[w].monitor}
  <2>1. \A v \in Workers \ {w} : job'[v] = job[v]
    BY <1>1, <1>3 DEF Finish
  <2> QED
    BY <2>1 DEF HeldBy
<1> QED
  BY <1>2, <1>3

LEMMA CheckKeeps ==
  ASSUME TypeInv, NEW m \in Monitors, Check(m) PROVE Lost' \subseteq Lost
<1>1. PICK k \in Kinds : resultChan' = Append(resultChan, [monitor |-> m, kind |-> k])
  BY ResultProcessorAssumption DEF Check, Kinds
<1>2. schedule' = schedule \ {m} /\ UNCHANGED
        <<successChan, failureChan, routing, job, stopped>>
  BY DEF Check
<1>3. /\ Carried(resultChan) \subseteq Carried(resultChan')
      /\ m \in Carried(resultChan')
  <2>1. [monitor |-> m, kind |-> k] \in Results
    BY DEF Results
  <2> QED
    BY <1>1, <2>1, KeptAfterPut, CustodyTypes
<1>4. m \in Custody'["resultChan"] /\ \A p \in Places : Custody[p] \subseteq Custody'[p] \cup {m}
  BY <1>2, <1>3 DEF Custody, Places, HeldBy, Carried
<1> QED
  BY <1>4, Kept DEF Places

LEMMA RouterReceiveKeeps ==
  ASSUME TypeInv, RouterReceive PROVE Lost' \subseteq Lost
<1>1. /\ routing = NoResult /\ resultChan # <<>> /\ routing' = Head(resultChan)
      /\ resultChan' = Tail(resultChan)
      /\ UNCHANGED <<schedule, successChan, failureChan, job, stopped>>
  BY DEF RouterReceive
<1>2. PICK m : m = Head(resultChan).monitor
  OBVIOUS
<1>3. /\ routing' # NoResult
      /\ Carried(resultChan) \subseteq Carried(resultChan') \cup {m}
  BY <1>1, <1>2, CustodyTypes, TakeFromChannel, KeptAfterTake, ResultProcessorAssumption
<1>4. /\ m \in Custody'["router"]
      /\ \A p \in Places : Custody[p] \subseteq Custody'[p] \cup {m}
  BY <1>1, <1>2, <1>3, CustodyPlaces, CustodyPlacesNext DEF Places
<1> QED
  BY <1>4, Kept DEF Places

LEMMA RouterSendKeeps ==
  ASSUME TypeInv, RouterSend PROVE Lost' \subseteq Lost
<1>1. /\ routing \in Results /\ routing # NoResult /\ routing' = NoResult
      /\ UNCHANGED <<schedule, resultChan, job, stopped>>
  BY CustodyTypes DEF RouterSend
<1>2. PICK m : m = routing.monitor
  OBVIOUS
<1>3. PICK b \in {"successChan", "failureChan"} :
        /\ m \in Custody'[b]
        /\ Custody["successChan"] \subseteq Custody'["successChan"]
        /\ Custody["failureChan"] \subseteq Custody'["failureChan"]
  <2>1. CASE successChan' = Append(successChan, routing) /\ UNCHANGED failureChan
    BY <2>1, <1>1, <1>2, KeptAfterPut, CustodyTypes, CustodyPlaces, CustodyPlacesNext
  <2>2. CASE failureChan' = Append(failureChan, routing) /\ UNCHANGED successChan
    BY <2>2, <1>1, <1>2, KeptAfterPut, CustodyTypes, CustodyPlaces, CustodyPlacesNext
  <2> QED
    BY <2>1, <2>2 DEF RouterSend
<1>4. \A p \in Places : Custody[p] \subseteq Custody'[p] \cup {m}
  BY <1>1, <1>2, <1>3, CustodyPlaces, CustodyPlacesNext DEF Places
<1> QED
  BY <1>3, <1>4, Kept DEF Places

LEMMA ReceiveKeeps ==
  ASSUME TypeInv, NEW w \in Workers, ReceiveFailure(w) \/ ReceiveSuccess(w)
  PROVE  Lost' \subseteq Lost
<1>1. PICK r \in Results :
        /\ pc[w] = "idle" /\ job' = [job EXCEPT ![w] = r]
        /\ Carried(successChan) \subseteq Carried(successChan') \cup {r.monitor}
        /\ Carried(failureChan) \subseteq Carried(failureChan') \cup {r.monitor}
        /\ UNCHANGED <<schedule, resultChan, routing, stopped>>
  <2>1. CASE ReceiveFailure(w)
    BY <2>1, KeptAfterTake, TakeFromChannel, CustodyTypes DEF ReceiveFailure
  <2>2. CASE ReceiveSuccess(w)
    BY <2>2, KeptAfterTake, TakeFromChannel, CustodyTypes DEF ReceiveSuccess
  <2> QED
    BY <2>1, <2>2
<1>2. HeldBy(Workers) \subseteq HeldBy(Workers)' /\ r.monitor \in HeldBy(Workers)'
  BY <1>1, KeptByHands
<1>3. routing' = routing /\ Custody["router"] = Custody'["router"]
  BY <1>1, CustodyPlaces, CustodyPlacesNext
<1>4. /\ r.monitor \in Custody'["workers"]
      /\ \A p \in Places : Custody[p] \subseteq Custody'[p] \cup {r.monitor}
  BY <1>1, <1>2, <1>3, CustodyPlaces, CustodyPlacesNext DEF Places
<1> QED
  BY <1>4, Kept DEF Places

(* The end of a handler: without a failed command the monitor is scheduled or *)
(* stopped, with one it may be lost.                                          *)
LEMMA FinishKeeps ==
  ASSUME TypeInv, NEW w \in Workers, StopMonitoring(w) \/ ScheduleMonitor(w)
  PROVE  \/ Lost' \subseteq Lost
         \/ Lost' \subseteq Lost \cup {job[w].monitor} /\ Fails(w)
<1>1. PICK m : m = job[w].monitor
  OBVIOUS
<1>2. /\ Finish(w) /\ UNCHANGED <<resultChan, successChan, failureChan, routing>>
      /\ schedule \subseteq schedule' /\ stopped \subseteq stopped'
      /\ m \in schedule' \/ m \in stopped' \/ Fails(w)
  BY <1>1 DEF StopMonitoring, ScheduleMonitor
<1>3. HeldBy(Workers) \subseteq HeldBy(Workers)' \cup {m}
  BY <1>1, <1>2, KeptByHands
<1>4. \A p \in Places : Custody[p] \subseteq Custody'[p] \cup {m}
  BY <1>1, <1>2, <1>3, CustodyPlaces, CustodyPlacesNext DEF Places
<1>5. Lost' \subseteq Lost \cup {m}
  BY <1>4, Kept
<1>6. m \in schedule' \/ m \in stopped' => Lost' \subseteq Lost
  BY <1>4, Kept, CustodyPlacesNext DEF Places
<1> QED
  BY <1>1, <1>2, <1>5, <1>6

LEMMA CustodyKeeps == UNCHANGED custodyVars => Lost' = Lost
BY DEF Lost, Custody, Carried, HeldBy, custodyVars

LossInv == crashes = 0 => IsFiniteSet(Lost) /\ Cardinality(Lost) <= faults

LEMMA InitLoss == Init => LossInv
<1> SUFFICES ASSUME Init PROVE LossInv
  OBVIOUS
<1>1. Lost = {}
  BY LostPlaces, CustodyPlaces DEF Init, Places
<1> QED
  BY <1>1, FS_EmptySet DEF Init, LossInv

LEMMA NextLoss == TypeInv /\ LossInv /\ [Next]_vars => LossInv'
<1> SUFFICES ASSUME TypeInv, LossInv, [Next]_vars, crashes' = 0
             PROVE  IsFiniteSet(Lost') /\ Cardinality(Lost') <= faults'
  BY DEF LossInv
<1>1. /\ faults \in Nat /\ crashes \in Nat /\ faults' \in {faults, faults + 1}
      /\ TypeInv'
  BY FaultsOnlyGrow, NextType DEF TypeInv, TypeOK, WorldTypes
<1> DEFINE Loses == \/ Lost' \subseteq Lost
                    \/ \E x : Lost' \subseteq Lost \cup {x} /\ faults' = faults + 1
<1>2. ASSUME NEW m \in Monitors,
             GoDown(m) \/ ComeBack(m) \/ Check(m) \/ RetryExpires(m)
      PROVE  Loses
  BY <1>2, CheckKeeps, CustodyKeeps DEF GoDown, ComeBack, RetryExpires
<1>3. ASSUME NEW w \in Workers, FailureStep(w) PROVE Loses
  <2>1. CASE ReceiveFailure(w)
    BY <2>1, ReceiveKeeps
  <2>2. CASE StopMonitoring(w) \/ ScheduleMonitor(w)
    BY <2>2, FinishKeeps DEF Fails
  <2>3. CASE \/ IncrementRetry(w) \/ ClearSpentRetry(w) \/ IncrementIncident(w)
             \/ MarkIncidentAlertedIfNotSet(w) \/ CreateIncident(w)
             \/ MarkDBIncidentCreated(w) \/ SendDown(w)
    BY <2>3, CustodyKeeps
       DEF IncrementRetry, ClearSpentRetry, IncrementIncident,
           MarkIncidentAlertedIfNotSet, CreateIncident, MarkDBIncidentCreated,
           SendDown, SendAlert
  <2> QED
    BY <1>3, <2>1, <2>2, <2>3 DEF FailureStep
<1>4. ASSUME NEW w \in Workers, SuccessStep(w) PROVE Loses
  <2>1. CASE ReceiveSuccess(w)
    BY <2>1, ReceiveKeeps
  <2>2. CASE ScheduleMonitor(w)
    BY <2>2, FinishKeeps DEF Fails
  <2>3. CASE \/ StoreStatus(w) \/ GetIncident(w) \/ CloseIncident(w)
             \/ MarkIncidentRecoveredAlertedIfNotSet(w) \/ SendRecovered(w)
             \/ ClearIncident(w) \/ ClearRetry(w)
    BY <2>3, CustodyKeeps
       DEF StoreStatus, GetIncident, CloseIncident,
           MarkIncidentRecoveredAlertedIfNotSet, SendRecovered, SendAlert,
           ClearIncident, ClearRetry
  <2> QED
    BY <1>4, <2>1, <2>2, <2>3 DEF SuccessStep
<1>5. ASSUME RouterReceive \/ RouterSend PROVE Loses
  BY <1>5, RouterReceiveKeeps, RouterSendKeeps
<1>6. ASSUME TakeAlert \/ UNCHANGED vars PROVE Loses
  BY <1>6, CustodyKeeps DEF TakeAlert, vars
<1>7. ~Crash
  BY <1>1 DEF Crash
<1>8. Loses
  BY <1>2, <1>3, <1>4, <1>5, <1>6, <1>7 DEF Next, Workers
<1>9. crashes = 0
  BY CrashesOnlyGrow
<1> QED
  BY <1>1, <1>8, <1>9, CountedByFaults DEF LossInv

(* As long as the process does not crash, a monitor that was not given up on  *)
(* leaves the pipeline only by a failed command, and each failed command      *)
(* loses at most one.  Of a process that has crashed this says nothing.       *)
THEOREM LossesAreFaults == Spec => []EachLossHasItsFault
<1>1. Init => TypeInv /\ LossInv
  BY InitType, InitLoss
<1>2. TypeInv /\ LossInv /\ [Next]_vars => (TypeInv /\ LossInv)'
  BY NextType, NextLoss
<1>3. TypeInv /\ LossInv => EachLossHasItsFault
  BY DEF LossInv, EachLossHasItsFault
<1> QED BY <1>1, <1>2, <1>3, PTL DEF Spec

=============================================================================
