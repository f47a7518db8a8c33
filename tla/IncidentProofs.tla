--------------------------- MODULE IncidentProofs ---------------------------
(***************************************************************************)
(* Theorems about the incidents and alerts of ResultProcessor: no alert    *)
(* twice, whatever fails; and while nothing fails, rows and hash agree and *)
(* incidents and alerts come in the order OutageNotifications promises.    *)
(***************************************************************************)
EXTENDS ResultProcessorProofs

-----------------------------------------------------------------------------
(* No alert twice.  A worker that is going to send an alert is the only one   *)
(* that will ever send that alert.                                            *)

DownSteps == {"markDBIncident", "sendDown"}
RecoverySteps == {"markRecovered", "sendRecovered"}

AlertsFollowRows ==
  \A k \in DOMAIN alertLog :
    /\ alertLog[k].incident \in DOMAIN incidents
    /\ alertLog[k].type = "RECOVERED" => ~incidents[alertLog[k].incident].open

DownIsDue ==
  \A w \in Workers : pc[w] \in DownSteps =>
    /\ incidentID[w] \in DOMAIN incidents
    /\ ~Queued("DOWN", incidentID[w])

RecoveryIsDue ==
  \A w \in Workers : pc[w] \in RecoverySteps =>
    /\ incidentID[w] \in DOMAIN incidents
    /\ ~incidents[incidentID[w]].open
    /\ ~Queued("RECOVERED", incidentID[w])

SendersApart ==
  \A v, w \in Workers :
    /\ incidentID[v] = incidentID[w]
    /\ \/ pc[v] \in DownSteps /\ pc[w] \in DownSteps
       \/ pc[v] \in RecoverySteps /\ pc[w] \in RecoverySteps
    => v = w

AlertInv == /\ AlertsFollowRows /\ DownIsDue /\ RecoveryIsDue
            /\ SendersApart /\ NoDuplicateAlerts

(* Rows are never deleted and a closed row is never opened again.             *)
RowsKept ==
  /\ DOMAIN incidents \subseteq DOMAIN incidents'
  /\ \A i \in DOMAIN incidents : ~incidents[i].open => ~incidents'[i].open

NotSending(w) == pc[w] \notin DownSteps \cup RecoverySteps

(* w does not become a sender of an alert.                                    *)
KeepsSender(w) ==
  /\ pc'[w] \in DownSteps =>
       pc[w] \in DownSteps /\ incidentID'[w] = incidentID[w]
  /\ pc'[w] \in RecoverySteps =>
       pc[w] \in RecoverySteps /\ incidentID'[w] = incidentID[w]

LEMMA InitAlerts == Init => AlertInv
BY DEF Init, AlertInv, AlertsFollowRows, DownIsDue, RecoveryIsDue, DownSteps,
       RecoverySteps, SendersApart, NoDuplicateAlerts

LEMMA NoAlertSent ==
  ASSUME AlertInv, RowsKept, UNCHANGED alertLog,
         \A w \in Workers : KeepsSender(w)
  PROVE  AlertInv'
<1> USE DEF AlertInv, KeepsSender
<1>1. AlertsFollowRows'
  BY DEF AlertsFollowRows, RowsKept
<1>2. DownIsDue'
  BY DEF DownIsDue, RowsKept, Queued
<1>3. RecoveryIsDue'
  BY DEF RecoveryIsDue, RowsKept, Queued
<1>4. SendersApart'
  BY DEF SendersApart
<1>5. NoDuplicateAlerts'
  BY DEF NoDuplicateAlerts
<1> QED
  BY <1>1, <1>2, <1>3, <1>4, <1>5

LEMMA RowsUntouched == UNCHANGED incidents => RowsKept
BY DEF RowsKept

LEMMA InsertedRow ==
  ASSUME TypeInv, NEW m \in Monitors,
         incidents' = Append(incidents, [monitor |-> m, open |-> TRUE])
  PROVE  /\ RowsKept
         /\ Len(incidents') = Len(incidents) + 1
         /\ DOMAIN incidents' = DOMAIN incidents \cup {Len(incidents')}
         /\ Len(incidents') \notin DOMAIN incidents
         /\ incidents'[Len(incidents')] = [monitor |-> m, open |-> TRUE]
         /\ \A i \in DOMAIN incidents : incidents'[i] = incidents[i] /\ i < Len(incidents')
BY DEF TypeInv, TypeOK, StoreTypes, RowsKept

Closing(m) ==
  [i \in DOMAIN incidents |->
     IF i \in OpenIncidents(m) THEN [incidents[i] EXCEPT !.open = FALSE]
     ELSE incidents[i]]

LEMMA ClosedRows ==
  ASSUME TypeInv, NEW m, incidents' = Closing(m)
  PROVE  /\ RowsKept
         /\ DOMAIN incidents' = DOMAIN incidents
         /\ \A i \in DOMAIN incidents :
              /\ incidents'[i].monitor = incidents[i].monitor
              /\ incidents'[i].open <=> incidents[i].open /\ i \notin OpenIncidents(m)
<1>1. \A i \in DOMAIN incidents : incidents[i] \in Rows
  BY DEF TypeInv, TypeOK, StoreTypes
<1> QED
  BY <1>1 DEF RowsKept, Closing, Rows

LEMMA CreateIncidentAlerts ==
  ASSUME TypeInv, AlertInv, NEW w \in Workers, CreateIncident(w)
  PROVE  AlertInv'
<1>1. /\ pc[w] = "createIncident" /\ UNCHANGED alertLog
      /\ pc \in [Workers -> Steps] /\ incidentID \in [Workers -> Nat]
  BY DEF CreateIncident, alertVars, TypeInv, TypeOK, ProcessTypes, AlertTypes
<1>2. job[w].monitor \in Monitors
  BY <1>1, BusyWorker
<1> DEFINE row == [monitor |-> job[w].monitor, open |-> TRUE]
<1>3. CASE Goto(w, "reschedule") /\ incidents' \in {incidents, Append(incidents, row)}
           /\ UNCHANGED incidentID
  <2>1. RowsKept
    BY <1>2, <1>3, InsertedRow, RowsUntouched
  <2>2. \A v \in Workers : KeepsSender(v)
    BY <1>1, <1>3 DEF Goto, KeepsSender, DownSteps, RecoverySteps
  <2> QED
    BY <1>1, <2>1, <2>2, NoAlertSent
<1>4. CASE /\ incidents' = Append(incidents, row)
           /\ incidentID' = [incidentID EXCEPT ![w] = Len(Append(incidents, row))]
           /\ Goto(w, "markDBIncident")
  <2>0. PICK i : i = Len(incidents')
    OBVIOUS
  <2>1. /\ RowsKept /\ DOMAIN incidents' = DOMAIN incidents \cup {i}
        /\ i \notin DOMAIN incidents
    BY <1>2, <1>4, <2>0, InsertedRow
  <2>2. /\ pc'[w] = "markDBIncident" /\ incidentID'[w] = i
        /\ \A v \in Workers \ {w} : pc'[v] = pc[v] /\ incidentID'[v] = incidentID[v]
    BY <1>1, <1>4, <2>0 DEF Goto
  <2>3. AlertsFollowRows'
    BY <1>1, <2>1 DEF AlertInv, AlertsFollowRows, RowsKept
  <2>4. DownIsDue'
    <3>1. \A k \in DOMAIN alertLog : alertLog[k].incident # i
      BY <2>1 DEF AlertInv, AlertsFollowRows
    <3>2. ~Queued("DOWN", i)'
      BY <1>1, <3>1 DEF Queued
    <3>3. \A v \in Workers \ {w} : pc[v] \in DownSteps =>
            /\ incidentID'[v] \in DOMAIN incidents'
            /\ ~Queued("DOWN", incidentID[v])'
      BY <1>1, <2>1, <2>2 DEF AlertInv, DownIsDue, Queued
    <3> QED
      BY <2>1, <2>2, <3>2, <3>3 DEF DownIsDue, Queued
  <2>5. RecoveryIsDue'
    BY <1>1, <2>1, <2>2
       DEF AlertInv, RecoveryIsDue, RowsKept, Queued, RecoverySteps
  <2>6. SendersApart'
    <3>1. \A v \in Workers \ {w} :
            pc[v] \in DownSteps => incidentID[v] \in DOMAIN incidents
      BY DEF AlertInv, DownIsDue
    <3>2. pc'[w] \notin RecoverySteps
      BY <2>2 DEF RecoverySteps
    <3>3. \A v \in Workers \ {w} :
            ~(pc'[v] \in DownSteps /\ incidentID'[v] = incidentID'[w])
      BY <2>1, <2>2, <3>1
    <3> QED
      BY <2>2, <3>2, <3>3 DEF AlertInv, SendersApart
  <2>7. NoDuplicateAlerts'
    BY <1>1 DEF AlertInv, NoDuplicateAlerts
  <2> QED
    BY <2>3, <2>4, <2>5, <2>6, <2>7 DEF AlertInv
<1> QED
  BY <1>3, <1>4 DEF CreateIncident

LEMMA CloseIncidentAlerts ==
  ASSUME TypeInv, AlertInv, NEW w \in Workers, CloseIncident(w)
  PROVE  AlertInv'
<1> PICK m : m = job[w].monitor
  OBVIOUS
<1>1. /\ pc[w] = "closeIncident" /\ UNCHANGED alertLog
      /\ pc \in [Workers -> Steps] /\ incidentID \in [Workers -> Nat]
  BY DEF CloseIncident, alertVars, TypeInv, TypeOK, ProcessTypes, AlertTypes
<1>2. RowsKept
  BY ClosedRows, RowsUntouched DEF CloseIncident, Closing
<1>3. CASE UNCHANGED incidentID /\ (Goto(w, "reschedule") \/ Goto(w, "clearIncident"))
  <2>1. \A v \in Workers : KeepsSender(v)
    BY <1>1, <1>3 DEF Goto, KeepsSender, DownSteps, RecoverySteps
  <2> QED
    BY <1>1, <1>2, <2>1, NoAlertSent
<1>4. ASSUME incidents' = Closing(m), NEW i \in OpenIncidents(m),
             incidentID' = [incidentID EXCEPT ![w] = i], Goto(w, "markRecovered")
      PROVE  AlertInv'
  <2>1. /\ i \in DOMAIN incidents /\ incidents[i].open
        /\ DOMAIN incidents' = DOMAIN incidents /\ ~incidents'[i].open
    BY <1>4, ClosedRows DEF OpenIncidents
  <2>2. /\ pc'[w] = "markRecovered" /\ incidentID'[w] = i
        /\ \A v \in Workers \ {w} : pc'[v] = pc[v] /\ incidentID'[v] = incidentID[v]
    BY <1>1, <1>4 DEF Goto
  <2>3. AlertsFollowRows'
    BY <1>1, <1>2 DEF AlertInv, AlertsFollowRows, RowsKept
  <2>4. DownIsDue'
    BY <1>1, <2>1, <2>2 DEF AlertInv, DownIsDue, Queued, DownSteps
  <2>5. RecoveryIsDue'
    BY <1>1, <1>2, <2>1, <2>2
       DEF AlertInv, AlertsFollowRows, RecoveryIsDue, RowsKept, Queued
  <2>6. SendersApart'
    BY <2>1, <2>2
       DEF AlertInv, SendersApart, RecoveryIsDue, DownSteps, RecoverySteps
  <2>7. NoDuplicateAlerts'
    BY <1>1 DEF AlertInv, NoDuplicateAlerts
  <2> QED
    BY <2>3, <2>4, <2>5, <2>6, <2>7 DEF AlertInv
<1> QED
  BY <1>3, <1>4 DEF CloseIncident, Closing

LEMMA SendAlertAlerts ==
  ASSUME TypeInv, AlertInv, NEW w \in Workers, SendDown(w) \/ SendRecovered(w)
  PROVE  AlertInv'
<1>0. /\ alertLog \in Seq(Alerts) /\ pc \in [Workers -> Steps]
      /\ UNCHANGED <<incidents, incidentID>>
  BY DEF TypeInv, TypeOK, ProcessTypes, AlertTypes, SendDown, SendRecovered,
         SendAlert, storeVars
<1>1. PICK type \in {"DOWN", "RECOVERED"} :
        /\ alertLog' = Append(alertLog, [type |-> type, incident |-> incidentID[w]])
        /\ type = "DOWN" => pc[w] \in DownSteps /\ Goto(w, "reschedule")
        /\ type = "RECOVERED" => pc[w] \in RecoverySteps /\ Goto(w, "clearIncident")
  BY DEF SendDown, SendRecovered, SendAlert, DownSteps, RecoverySteps
<1> DEFINE a == [type |-> type, incident |-> incidentID[w]]
           n == Len(alertLog) + 1
<1>2. /\ DOMAIN alertLog' = DOMAIN alertLog \cup {n} /\ n \notin DOMAIN alertLog
      /\ alertLog'[n] = a
      /\ \A k \in DOMAIN alertLog : alertLog'[k] = alertLog[k]
  BY <1>0, <1>1
<1>3. /\ incidentID[w] \in DOMAIN incidents
      /\ type = "RECOVERED" => ~incidents[incidentID[w]].open
      /\ \A k \in DOMAIN alertLog : alertLog[k] # a
  BY <1>1 DEF AlertInv, DownIsDue, RecoveryIsDue, Queued
<1>4. /\ NotSending(w)'
      /\ \A v \in Workers \ {w} : pc'[v] = pc[v]
  BY <1>0, <1>1 DEF Goto, NotSending, DownSteps, RecoverySteps
<1>5. AlertsFollowRows'
  BY <1>0, <1>2, <1>3 DEF AlertInv, AlertsFollowRows
<1>6. \A v \in Workers \ {w} :
        /\ pc[v] \in DownSteps /\ type = "DOWN" => incidentID[v] # incidentID[w]
        /\ pc[v] \in RecoverySteps /\ type = "RECOVERED" => incidentID[v] # incidentID[w]
  BY <1>1 DEF AlertInv, SendersApart
<1>7. DownIsDue'
  BY <1>0, <1>2, <1>4, <1>6 DEF AlertInv, DownIsDue, Queued, NotSending
<1>8. RecoveryIsDue'
  BY <1>0, <1>2, <1>4, <1>6 DEF AlertInv, RecoveryIsDue, Queued, NotSending
<1>9. SendersApart'
  BY <1>0, <1>4 DEF AlertInv, SendersApart, NotSending
<1>10. NoDuplicateAlerts'
  BY <1>2, <1>3 DEF AlertInv, NoDuplicateAlerts
<1> QED
  BY <1>5, <1>7, <1>8, <1>9, <1>10 DEF AlertInv

LEMMA NextAlerts == TypeInv /\ AlertInv /\ [Next]_vars => AlertInv'
<1> SUFFICES ASSUME TypeInv, AlertInv, [Next]_vars PROVE AlertInv'
  OBVIOUS
<1> USE DEF storeVars, alertVars, custodyVars, worldVars
<1>0. pc \in [Workers -> Steps] /\ incidentID \in [Workers -> Nat]
  BY DEF TypeInv, TypeOK, ProcessTypes, AlertTypes
<1>1. ASSUME UNCHANGED <<pc, incidentID, incidents, alertLog>> PROVE AlertInv'
  BY <1>1, RowsUntouched, NoAlertSent DEF KeepsSender
<1>2. CASE Crash
  <2>1. \A w \in Workers : KeepsSender(w)
    BY <1>2 DEF Crash, KeepsSender, DownSteps, RecoverySteps
  <2> QED
    BY <1>2, <2>1, RowsUntouched, NoAlertSent DEF Crash
<1>3. ASSUME NEW w \in Workers, UNCHANGED <<incidents, alertLog>>,
             NEW step, Goto(w, step),
             step \in DownSteps => pc[w] \in DownSteps,
             step \in RecoverySteps => pc[w] \in RecoverySteps,
             \/ UNCHANGED incidentID
             \/ step = "idle" /\ incidentID' = [incidentID EXCEPT ![w] = 0]
      PROVE  AlertInv'
  <2>1. \A v \in Workers : KeepsSender(v)
    BY <1>0, <1>3 DEF KeepsSender, Goto, DownSteps, RecoverySteps
  <2> QED
    BY <1>3, <2>1, RowsUntouched, NoAlertSent
<1> DEFINE Other == Steps \ (DownSteps \cup RecoverySteps)
<1>4. ASSUME NEW w \in Workers, FailureStep(w) PROVE AlertInv'
  <2>1. CASE \/ ReceiveFailure(w) \/ IncrementRetry(w) \/ ClearSpentRetry(w)
             \/ IncrementIncident(w) \/ MarkIncidentAlertedIfNotSet(w)
    <3>1. PICK step \in Other : Goto(w, step)
      BY <2>1 DEF ReceiveFailure, IncrementRetry, ClearSpentRetry,
           IncrementIncident, MarkIncidentAlertedIfNotSet, Steps, FailureSteps,
           DownSteps, RecoverySteps
    <3>2. UNCHANGED <<incidents, alertLog, incidentID>>
      BY <2>1 DEF ReceiveFailure, IncrementRetry, ClearSpentRetry,
           IncrementIncident, MarkIncidentAlertedIfNotSet
    <3> QED
      BY <3>1, <3>2, <1>3
  <2>2. CASE MarkDBIncidentCreated(w)
    BY <2>2, <1>3 DEF MarkDBIncidentCreated, DownSteps, RecoverySteps
  <2>3. CASE StopMonitoring(w) \/ ScheduleMonitor(w)
    BY <2>3, <1>3 DEF StopMonitoring, ScheduleMonitor, Finish, DownSteps,
                      RecoverySteps
  <2> QED
    BY <1>4, <2>1, <2>2, <2>3, CreateIncidentAlerts, SendAlertAlerts
       DEF FailureStep
<1>5. ASSUME NEW w \in Workers, SuccessStep(w) PROVE AlertInv'
  <2>1. CASE ReceiveSuccess(w) \/ StoreStatus(w) \/ GetIncident(w)
             \/ ClearIncident(w) \/ ClearRetry(w)
    <3>1. PICK step \in Other : Goto(w, step)
      BY <2>1 DEF ReceiveSuccess, StoreStatus, GetIncident, ClearIncident,
           ClearRetry, Steps, SuccessSteps, DownSteps, RecoverySteps
    <3>2. UNCHANGED <<incidents, alertLog, incidentID>>
      BY <2>1 DEF ReceiveSuccess, StoreStatus, GetIncident, ClearIncident,
           ClearRetry
    <3> QED
      BY <3>1, <3>2, <1>3
  <2>2. CASE MarkIncidentRecoveredAlertedIfNotSet(w)
    BY <2>2, <1>3
       DEF MarkIncidentRecoveredAlertedIfNotSet, DownSteps, RecoverySteps
  <2>3. CASE ScheduleMonitor(w)
    BY <2>3, <1>3 DEF ScheduleMonitor, Finish, DownSteps, RecoverySteps
  <2> QED
    BY <1>5, <2>1, <2>2, <2>3, CloseIncidentAlerts, SendAlertAlerts
       DEF SuccessStep
<1>6. ASSUME NEW m \in Monitors,
             GoDown(m) \/ ComeBack(m) \/ Check(m) \/ RetryExpires(m)
      PROVE  AlertInv'
  BY <1>6, <1>1 DEF GoDown, ComeBack, Check, RetryExpires
<1>7. CASE RouterReceive \/ RouterSend \/ TakeAlert \/ UNCHANGED vars
  BY <1>7, <1>1 DEF RouterReceive, RouterSend, TakeAlert, vars
<1> QED
  BY <1>2, <1>4, <1>5, <1>6, <1>7 DEF Next, Workers

(* Whatever commands fail and however often the process dies, no incident has *)
(* its DOWN or its RECOVERED alert put on alertChan twice.                    *)
THEOREM AlertsAreSentOnce == Spec => []NoDuplicateAlerts
<1>1. Init => TypeInv /\ AlertInv
  BY InitType, InitAlerts
<1>2. TypeInv /\ AlertInv /\ [Next]_vars => (TypeInv /\ AlertInv)'
  BY NextType, NextAlerts
<1>3. Spec => [](TypeInv /\ AlertInv)
  BY <1>1, <1>2, PTL DEF Spec
<1> QED BY <1>3, PTL DEF AlertInv

-----------------------------------------------------------------------------
(* One monitor while nothing has failed: what its rows, its hash, its alerts  *)
(* and the one handler that may be at work on it say of one another.          *)

Mine(m) == {i \in DOMAIN incidents : incidents[i].monitor = m}
Latest(m, i) == i \in Mine(m) /\ \A j \in Mine(m) : j <= i

RowsAgree(m) ==
  /\ Mine(m) = {} \/ \E i \in Mine(m) : Latest(m, i)
  /\ \A i \in OpenIncidents(m) : Latest(m, i)

HashAgrees(m) ==
  /\ OpenIncidents(m) # {} =>
       incident[m].alerted
         /\ (incident[m].db_incident \/ Handling(m, {"markDBIncident"}))
  /\ incident[m].db_incident =>
       OpenIncidents(m) # {}
         \/ Handling(m, {"markRecovered", "sendRecovered", "clearIncident"})
  /\ incident[m].recovered_alerted =>
       Handling(m, {"sendRecovered", "clearIncident"})

Sending(m, i, steps) ==
  \E w \in Workers : job[w].monitor = m /\ pc[w] \in steps /\ incidentID[w] = i

AlertsAgree(m) ==
  \A i \in Mine(m) :
    /\ incidents[i].open => Queued("DOWN", i) \/ Sending(m, i, DownSteps)
    /\ ~incidents[i].open => Queued("RECOVERED", i) \/ Sending(m, i, RecoverySteps)

HandlerAgrees(m) ==
  \A w \in Workers : job[w].monitor = m =>
    /\ pc[w] = "createIncident" =>
         /\ OpenIncidents(m) = {}
         /\ incident[m].alerted /\ ~incident[m].db_incident
    /\ pc[w] = "closeIncident" => incident[m].db_incident
    /\ pc[w] \in DownSteps => incidentID[w] \in OpenIncidents(m)
    /\ pc[w] \in RecoverySteps => Latest(m, incidentID[w])
    /\ pc[w] \in RecoverySteps \cup {"clearIncident"} => OpenIncidents(m) = {}

MonitorAgrees(m) ==
  RowsAgree(m) /\ HashAgrees(m) /\ AlertsAgree(m) /\ HandlerAgrees(m)

Faultless == faults = 0 /\ crashes = 0
TrackInv == Faultless => \A m \in Monitors : MonitorAgrees(m)

LEMMA TrackingIsTracked ==
  ASSUME TypeInv, TrackInv PROVE IncidentTracked
<1> SUFFICES ASSUME faults = 0, crashes = 0, NEW m \in Monitors
             PROVE  Cardinality(OpenIncidents(m)) <= 1 /\ HashAgrees(m)
  BY DEF IncidentTracked, HashAgrees
<1>1. RowsAgree(m) /\ HashAgrees(m)
  BY DEF TrackInv, MonitorAgrees, Faultless
<1>2. OpenIncidents(m) \subseteq Nat
  BY DEF OpenIncidents, TypeInv, TypeOK, StoreTypes
<1>3. \A i, j \in OpenIncidents(m) : i = j
  <2>1. \A i \in OpenIncidents(m) : i \in Mine(m)
    BY DEF OpenIncidents, Mine
  <2> QED
    BY <1>1, <1>2, <2>1 DEF RowsAgree, Latest
<1>4. OpenIncidents(m) = {} \/ \E i : OpenIncidents(m) = {i}
  BY <1>3
<1>5. Cardinality(OpenIncidents(m)) \in {0, 1}
  <2>1. CASE OpenIncidents(m) = {}
    BY <2>1, FS_EmptySet
  <2>2. ASSUME NEW i, OpenIncidents(m) = {i}
        PROVE  Cardinality(OpenIncidents(m)) = 1
    BY <2>2, FS_Singleton
  <2> QED
    BY <1>4, <2>1, <2>2
<1> QED
  BY <1>1, <1>5

-----------------------------------------------------------------------------
(* The phase of a monitor.                                                    *)

LEMMA PhaseIs ==
  ASSUME NEW m, TypeInv
  PROVE  /\ Mine(m) = {} => PhaseOf(m) = "quiet"
         /\ \A i : Latest(m, i) =>
              PhaseOf(m) =
                IF incidents[i].open
                THEN IF Queued("DOWN", i) THEN "announced" ELSE "opened"
                ELSE IF Queued("RECOVERED", i) THEN "quiet" ELSE "closed"
<1>1. Mine(m) = {} => PhaseOf(m) = "quiet"
  BY DEF Mine, PhaseOf
<1>2. ASSUME NEW i, Latest(m, i)
      PROVE  PhaseOf(m) =
                IF incidents[i].open
                THEN IF Queued("DOWN", i) THEN "announced" ELSE "opened"
                ELSE IF Queued("RECOVERED", i) THEN "quiet" ELSE "closed"
  <2> DEFINE best == CHOOSE k \in Mine(m) : \A j \in Mine(m) : j <= k
  <2>1. Mine(m) \subseteq Nat
    BY DEF Mine, TypeInv, TypeOK, StoreTypes
  <2>2. best \in Mine(m) /\ \A j \in Mine(m) : j <= best
    BY <1>2 DEF Latest
  <2>3. best = i
    BY <1>2, <2>1, <2>2 DEF Latest
  <2>4. PhaseOf(m) =
                IF incidents[best].open
                THEN IF Queued("DOWN", best) THEN "announced" ELSE "opened"
                ELSE IF Queued("RECOVERED", best) THEN "quiet" ELSE "closed"
    BY <2>2 DEF PhaseOf, Mine
  <2> QED
    BY <2>3, <2>4
<1> QED
  BY <1>1, <1>2

LEMMA PhaseWillBe ==
  ASSUME NEW m, NEW i, TypeInv', Latest(m, i)'
  PROVE  PhaseOf(m)' =
           IF incidents'[i].open
           THEN IF Queued("DOWN", i)' THEN "announced" ELSE "opened"
           ELSE IF Queued("RECOVERED", i)' THEN "quiet" ELSE "closed"
<1>1. PICK S : S = Mine(m)'
  OBVIOUS
<1>2. S \subseteq Nat /\ i \in S /\ \A j \in S : j <= i
  BY <1>1 DEF Mine, Latest, TypeInv, TypeOK, StoreTypes
<1> DEFINE best == CHOOSE k \in S : \A j \in S : j <= k
<1>3. best = i
  <2>1. \E k \in S : \A j \in S : j <= k
    BY <1>2
  <2>2. best \in S /\ \A j \in S : j <= best
    BY <2>1
  <2> HIDE DEF best
  <2>3. best \in Nat /\ i \in Nat /\ best <= i /\ i <= best
    BY <1>2, <2>2
  <2> QED
    BY <2>3
<1>4. S # {} /\ S = {k \in DOMAIN incidents' : incidents'[k].monitor = m}
  BY <1>1, <1>2 DEF Mine
<1> QED
  BY <1>3, <1>4 DEF PhaseOf, Queued

(* The monitors a step does not concern keep their view: rows, alerts, flags  *)
(* of the hash, and the handler in case it is at a step that matters.         *)
KeySteps == {"createIncident", "closeIncident", "clearIncident"}
              \cup DownSteps \cup RecoverySteps

SameRows(m) ==
  /\ Mine(m)' = Mine(m)
  /\ \A i \in Mine(m) : incidents'[i] = incidents[i]
  /\ \A i \in Mine(m), type \in {"DOWN", "RECOVERED"} :
       Queued(type, i)' <=> Queued(type, i)

SameFlags(m) ==
  /\ incident'[m].alerted = incident[m].alerted
  /\ incident'[m].db_incident = incident[m].db_incident
  /\ incident'[m].recovered_alerted = incident[m].recovered_alerted

SameHandler(m) ==
  \A w \in Workers :
    \/ /\ pc'[w] = pc[w] /\ incidentID'[w] = incidentID[w]
       /\ job'[w].monitor = job[w].monitor
    \/ pc[w] \notin KeySteps /\ pc'[w] \notin KeySteps
    \/ job[w].monitor # m /\ job'[w].monitor # m

SameView(m) == SameRows(m) /\ SameFlags(m) /\ SameHandler(m)

LEMMA SameViewAgrees ==
  ASSUME NEW m, MonitorAgrees(m), SameView(m) PROVE MonitorAgrees(m)'
<1> USE DEF MonitorAgrees, SameView
<1>1. /\ \A i : (i \in OpenIncidents(m))' <=> i \in OpenIncidents(m)
      /\ \A i : Latest(m, i)' <=> Latest(m, i)
  BY DEF SameRows, OpenIncidents, Mine, Latest
<1>2. RowsAgree(m)'
  BY <1>1 DEF RowsAgree, SameRows
<1>3. \A w \in Workers : \A s \in KeySteps :
        job'[w].monitor = m /\ pc'[w] = s <=> job[w].monitor = m /\ pc[w] = s
  BY DEF SameHandler
<1>4. \A steps \in SUBSET KeySteps : Handling(m, steps)' <=> Handling(m, steps)
  BY <1>3 DEF Handling
<1>5. \A w \in Workers : job'[w].monitor = m /\ pc'[w] \in KeySteps =>
         incidentID'[w] = incidentID[w]
  BY <1>3 DEF SameHandler
<1>6. HashAgrees(m)'
  <2>1. OpenIncidents(m)' = OpenIncidents(m)
    BY <1>1
  <2>2. /\ Handling(m, {"markDBIncident"})' <=> Handling(m, {"markDBIncident"})
        /\ Handling(m, {"markRecovered", "sendRecovered", "clearIncident"})'
             <=> Handling(m, {"markRecovered", "sendRecovered", "clearIncident"})
        /\ Handling(m, {"sendRecovered", "clearIncident"})'
             <=> Handling(m, {"sendRecovered", "clearIncident"})
    BY <1>4 DEF KeySteps, DownSteps, RecoverySteps
  <2> QED
    BY <2>1, <2>2 DEF HashAgrees, SameFlags
<1>7. \A i : \A steps \in SUBSET KeySteps : Sending(m, i, steps) => Sending(m, i, steps)'
  BY <1>3 DEF Sending, SameHandler
<1>8. AlertsAgree(m)'
  BY <1>7 DEF AlertsAgree, SameRows, KeySteps
<1>9. HandlerAgrees(m)'
  BY <1>1, <1>3, <1>5
     DEF HandlerAgrees, SameFlags, KeySteps, DownSteps, RecoverySteps
<1> QED
  BY <1>2, <1>6, <1>8, <1>9

LEMMA SameViewPhase ==
  ASSUME NEW m, TypeInv, TypeInv', RowsAgree(m), SameRows(m)
  PROVE  PhaseOf(m)' = PhaseOf(m)
<1>1. CASE Mine(m) = {}
  <2>1. PhaseOf(m) = "quiet"
    BY <1>1, PhaseIs
  <2>2. Mine(m)' = {}
    BY <1>1 DEF SameRows
  <2>3. PhaseOf(m)' = "quiet"
    BY <2>2 DEF Mine, PhaseOf
  <2> QED
    BY <2>1, <2>3
<1>2. CASE Mine(m) # {}
  <2> DEFINE best == CHOOSE k \in Mine(m) : \A j \in Mine(m) : j <= k
  <2>1. best \in Mine(m)
    BY <1>2 DEF RowsAgree, Latest
  <2>2. best' = best
    BY DEF SameRows
  <2>3. PhaseOf(m) =
                IF incidents[best].open
                THEN IF Queued("DOWN", best) THEN "announced" ELSE "opened"
                ELSE IF Queued("RECOVERED", best) THEN "quiet" ELSE "closed"
    BY <1>2 DEF PhaseOf, Mine
  <2>4. Mine(m)' # {}
    BY <1>2 DEF SameRows
  <2>5. PICK b : b = best
    OBVIOUS
  <2>6. PICK up, down, over :
          /\ up = incidents[b].open /\ down = Queued("DOWN", b)
          /\ over = Queued("RECOVERED", b)
    OBVIOUS
  <2>7. PhaseOf(m) = IF up THEN IF down THEN "announced" ELSE "opened"
                     ELSE IF over THEN "quiet" ELSE "closed"
    BY <2>3, <2>5, <2>6
  <2>8. /\ incidents'[b].open = up
        /\ Queued("DOWN", b)' = down /\ Queued("RECOVERED", b)' = over
    BY <2>1, <2>5, <2>6 DEF SameRows, Queued
  <2>9. PhaseOf(m)' = IF up THEN IF down THEN "announced" ELSE "opened"
                      ELSE IF over THEN "quiet" ELSE "closed"
    BY <2>2, <2>4, <2>5, <2>8 DEF PhaseOf, Mine, Queued
  <2> QED
    BY <2>7, <2>9
<1> QED
  BY <1>1, <1>2

-----------------------------------------------------------------------------
(* A command of a handler.                                                    *)

(* What custody makes of a command of w that works on m and goes to step.     *)
OnlyHandler(w, m, step) ==
  /\ \A v \in Workers \ {w} :
       pc'[v] = pc[v] /\ (job[v].monitor = m => pc[v] = "idle")
  /\ pc'[w] = step
  /\ \A steps : "idle" \notin steps =>
       /\ Handling(m, steps) <=> pc[w] \in steps
       /\ Handling(m, steps)' <=> step \in steps
       /\ \A i : Sending(m, i, steps) <=> pc[w] \in steps /\ incidentID[w] = i
       /\ \A i : Sending(m, i, steps)' <=> step \in steps /\ incidentID'[w] = i

LEMMA OneHandler ==
  ASSUME CustodyInv, NEW w \in Workers, NEW m, m = job[w].monitor,
         pc[w] # "idle", NEW step, Goto(w, step), UNCHANGED job
  PROVE  OnlyHandler(w, m, step)
<1>1. /\ pc \in [Workers -> Steps] /\ HandsApart
      /\ \A v \in Workers : pc[v] = "idle" <=> job[v] = NoResult
  BY DEF CustodyInv, SingleCustody, TypeInv, TypeOK, ProcessTypes, BusyHolds
<1>2. /\ \A v \in Workers \ {w} :
           pc'[v] = pc[v] /\ (job[v].monitor = m => pc[v] = "idle")
      /\ pc'[w] = step
  BY <1>1 DEF Goto, HandsApart
<1>3. ASSUME NEW steps, "idle" \notin steps
      PROVE  /\ Handling(m, steps) <=> pc[w] \in steps
             /\ Handling(m, steps)' <=> step \in steps
             /\ \A i : Sending(m, i, steps) <=> pc[w] \in steps /\ incidentID[w] = i
             /\ \A i : Sending(m, i, steps)' <=> step \in steps /\ incidentID'[w] = i
  BY <1>2, <1>3 DEF Handling, Sending
<1> QED
  BY <1>2, <1>3 DEF OnlyHandler

LEMMA ElsewhereSameHandler ==
  ASSUME NEW w \in Workers, NEW m, m = job[w].monitor, UNCHANGED job,
         TypeInv, NEW step, Goto(w, step), NEW n, n # m,
         \/ UNCHANGED incidentID
         \/ \E i : incidentID' = [incidentID EXCEPT ![w] = i]
  PROVE  SameHandler(n)
<1>1. /\ pc \in [Workers -> Steps] /\ incidentID \in [Workers -> Nat]
  BY DEF TypeInv, TypeOK, ProcessTypes, AlertTypes
<1>2. \A v \in Workers \ {w} : pc'[v] = pc[v] /\ incidentID'[v] = incidentID[v]
  BY <1>1 DEF Goto
<1> QED
  BY <1>2 DEF SameHandler

LEMMA SameRowsWithoutWrites ==
  ASSUME NEW n, UNCHANGED <<incidents, alertLog>> PROVE SameRows(n)
BY DEF SameRows, Mine, Queued

LEMMA FlagsElsewhere ==
  ASSUME TypeInv, NEW m, NEW n \in Monitors, n # m,
         \/ UNCHANGED incident
         \/ \E h : incident' = [incident EXCEPT ![m] = h]
         \/ incident' = [incident EXCEPT ![m].alerted = TRUE]
         \/ incident' = [incident EXCEPT ![m].db_incident = TRUE]
         \/ incident' = [incident EXCEPT ![m].recovered_alerted = TRUE]
         \/ \E c : incident' = [incident EXCEPT ![m].failure_count = c]
  PROVE  SameFlags(n)
<1>1. incident'[n] = incident[n]
  BY DEF TypeInv, TypeOK, StoreTypes
<1> QED
  BY <1>1 DEF SameFlags

LEMMA FlagWrites ==
  ASSUME TypeInv, NEW m \in Monitors
  PROVE  /\ incident' = [incident EXCEPT ![m].alerted = TRUE] =>
              /\ incident'[m].alerted
              /\ incident'[m].db_incident = incident[m].db_incident
              /\ incident'[m].recovered_alerted = incident[m].recovered_alerted
         /\ incident' = [incident EXCEPT ![m].db_incident = TRUE] =>
              /\ incident'[m].db_incident
              /\ incident'[m].alerted = incident[m].alerted
              /\ incident'[m].recovered_alerted = incident[m].recovered_alerted
         /\ incident' = [incident EXCEPT ![m].recovered_alerted = TRUE] =>
              /\ incident'[m].recovered_alerted
              /\ incident'[m].alerted = incident[m].alerted
              /\ incident'[m].db_incident = incident[m].db_incident
         /\ \A c : incident' = [incident EXCEPT ![m].failure_count = c] =>
              SameFlags(m)
<1>1. incident \in [Monitors -> Hashes] /\ incident[m] \in Hashes
  BY DEF TypeInv, TypeOK, StoreTypes
<1> USE DEF Hashes
<1>2. ASSUME incident' = [incident EXCEPT ![m].alerted = TRUE]
      PROVE  /\ incident'[m].alerted
             /\ incident'[m].db_incident = incident[m].db_incident
             /\ incident'[m].recovered_alerted = incident[m].recovered_alerted
  BY <1>1, <1>2
<1>3. ASSUME incident' = [incident EXCEPT ![m].db_incident = TRUE]
      PROVE  /\ incident'[m].db_incident
             /\ incident'[m].alerted = incident[m].alerted
             /\ incident'[m].recovered_alerted = incident[m].recovered_alerted
  BY <1>1, <1>3
<1>4. ASSUME incident' = [incident EXCEPT ![m].recovered_alerted = TRUE]
      PROVE  /\ incident'[m].recovered_alerted
             /\ incident'[m].alerted = incident[m].alerted
             /\ incident'[m].db_incident = incident[m].db_incident
  BY <1>1, <1>4
<1>5. ASSUME NEW c, incident' = [incident EXCEPT ![m].failure_count = c]
      PROVE  SameFlags(m)
  BY <1>1, <1>5 DEF SameFlags
<1> QED
  BY <1>2, <1>3, <1>4, <1>5

(* What a command leaves: the monitor it works on still agrees and keeps its  *)
(* phase or advances, and the others see nothing.                             *)
Elsewhere(m) == \A n \in Monitors \ {m} : SameView(n)
Stays(m) == MonitorAgrees(m)' /\ PhaseOf(m)' = PhaseOf(m) /\ Elsewhere(m)
Advances(m, from, to) ==
  MonitorAgrees(m)' /\ PhaseOf(m) = from /\ PhaseOf(m)' = to /\ Elsewhere(m)

(* A command that writes at most the hash.                                    *)
LEMMA HashCommand ==
  ASSUME CustodyInv, TypeInv', NEW w \in Workers, NEW m, m = job[w].monitor,
         pc[w] # "idle", NEW step, step # "idle", Goto(w, step),
         UNCHANGED <<job, incidents, alertLog, incidentID>>, MonitorAgrees(m),
         OpenIncidents(m) # {} =>
           /\ incident'[m].alerted
           /\ incident'[m].db_incident \/ step = "markDBIncident",
         incident'[m].db_incident =>
           \/ OpenIncidents(m) # {}
           \/ step \in {"markRecovered", "sendRecovered", "clearIncident"},
         incident'[m].recovered_alerted => step \in {"sendRecovered", "clearIncident"},
         pc[w] \in DownSteps => step \in DownSteps,
         step \in DownSteps => pc[w] \in DownSteps,
         pc[w] \in RecoverySteps => step \in RecoverySteps,
         step \in RecoverySteps => pc[w] \in RecoverySteps,
         step = "createIncident" =>
           OpenIncidents(m) = {} /\ incident'[m].alerted /\ ~incident'[m].db_incident,
         step = "closeIncident" => incident'[m].db_incident,
         step = "clearIncident" => OpenIncidents(m) = {},
         \A n \in Monitors \ {m} : SameFlags(n)
  PROVE  Stays(m)
<1> USE DEF MonitorAgrees
<1>0. OnlyHandler(w, m, step)
  BY OneHandler
<1>1. /\ OpenIncidents(m)' = OpenIncidents(m) /\ Mine(m)' = Mine(m)
      /\ \A i : Latest(m, i)' <=> Latest(m, i)
      /\ \A type, i : Queued(type, i)' <=> Queued(type, i)
  BY DEF OpenIncidents, Mine, Latest, Queued
<1>2. RowsAgree(m)'
  BY <1>1 DEF RowsAgree
<1>3. HashAgrees(m)'
  BY <1>0, <1>1 DEF HashAgrees, OnlyHandler
<1>4. AlertsAgree(m)'
  BY <1>0, <1>1 DEF AlertsAgree, OnlyHandler, DownSteps, RecoverySteps
<1>5. HandlerAgrees(m)'
  <2>1. /\ pc'[w] = step /\ incidentID'[w] = incidentID[w]
        /\ \A v \in Workers \ {w} : job[v].monitor = m => pc'[v] = "idle"
    BY <1>0 DEF OnlyHandler
  <2>2. /\ step \in DownSteps => incidentID[w] \in OpenIncidents(m)
        /\ step \in RecoverySteps => Latest(m, incidentID[w]) /\ OpenIncidents(m) = {}
    <3>1. HandlerAgrees(m)
      OBVIOUS
    <3>2. /\ pc[w] \in DownSteps => incidentID[w] \in OpenIncidents(m)
          /\ pc[w] \in RecoverySteps =>
               Latest(m, incidentID[w]) /\ OpenIncidents(m) = {}
      BY <3>1 DEF HandlerAgrees
    <3> QED
      BY <3>2
  <2> QED
    BY <1>1, <2>1, <2>2 DEF HandlerAgrees, DownSteps, RecoverySteps
<1>6. PhaseOf(m)' = PhaseOf(m)
  BY SameRowsWithoutWrites, SameViewPhase DEF CustodyInv
<1>7. Elsewhere(m)
  BY SameRowsWithoutWrites, ElsewhereSameHandler
     DEF Elsewhere, SameView, CustodyInv
<1> QED
  BY <1>2, <1>3, <1>4, <1>5, <1>6, <1>7 DEF Stays
LEMMA BusyMonitor ==
  ASSUME TypeInv, NEW w \in Workers, pc[w] # "idle",
         \A n \in Monitors : MonitorAgrees(n)
  PROVE  \E m \in Monitors : m = job[w].monitor /\ MonitorAgrees(m)
BY BusyWorker

LEMMA MarkAlertedStays ==
  ASSUME CustodyInv, TypeInv', NEW w \in Workers, faults' = 0,
         \A n \in Monitors : MonitorAgrees(n), MarkIncidentAlertedIfNotSet(w)
  PROVE  \E m \in Monitors : Stays(m)
<1>1. /\ pc[w] = "markAlerted"
      /\ UNCHANGED <<job, incidents, alertLog, incidentID>>
  BY DEF MarkIncidentAlertedIfNotSet, custodyVars, alertVars
<1>2. PICK m \in Monitors : m = job[w].monitor /\ MonitorAgrees(m)
  BY <1>1, BusyMonitor DEF CustodyInv
<1>3. PICK step :
        /\ Goto(w, step) /\ incident' = [incident EXCEPT ![m].alerted = TRUE]
        /\ step = IF incident[m].alerted THEN "reschedule" ELSE "createIncident"
  BY <1>2 DEF MarkIncidentAlertedIfNotSet, Fails, CustodyInv, TypeInv, TypeOK, WorldTypes
<1>4. /\ incident'[m].alerted
      /\ incident'[m].db_incident = incident[m].db_incident
      /\ incident'[m].recovered_alerted = incident[m].recovered_alerted
  BY <1>3, FlagWrites DEF CustodyInv
<1>5. OnlyHandler(w, m, step)
  BY <1>1, <1>2, <1>3, OneHandler
<1>6. /\ OpenIncidents(m) # {} => incident[m].alerted /\ incident[m].db_incident
      /\ incident[m].db_incident => OpenIncidents(m) # {}
      /\ ~incident[m].recovered_alerted
  BY <1>1, <1>2, <1>5 DEF OnlyHandler, MonitorAgrees, HashAgrees
<1>7. \A n \in Monitors \ {m} : SameFlags(n)
  BY <1>3, FlagsElsewhere DEF CustodyInv
<1> QED
  BY <1>1, <1>2, <1>3, <1>4, <1>6, <1>7, HashCommand DEF DownSteps, RecoverySteps

LEMMA MarkDBStays ==
  ASSUME CustodyInv, TypeInv', NEW w \in Workers, faults' = 0,
         \A n \in Monitors : MonitorAgrees(n), MarkDBIncidentCreated(w)
  PROVE  \E m \in Monitors : Stays(m)
<1>1. /\ pc[w] = "markDBIncident" /\ Goto(w, "sendDown")
      /\ UNCHANGED <<job, incidents, alertLog, incidentID>>
  BY DEF MarkDBIncidentCreated, custodyVars, alertVars
<1>2. PICK m \in Monitors : m = job[w].monitor /\ MonitorAgrees(m)
  BY <1>1, BusyMonitor DEF CustodyInv
<1>3. incident' = [incident EXCEPT ![m].db_incident = TRUE]
  BY <1>2 DEF MarkDBIncidentCreated, Fails, CustodyInv, TypeInv, TypeOK, WorldTypes
<1>4. /\ incident'[m].db_incident
      /\ incident'[m].alerted = incident[m].alerted
      /\ incident'[m].recovered_alerted = incident[m].recovered_alerted
  BY <1>3, FlagWrites DEF CustodyInv
<1>5. OnlyHandler(w, m, "sendDown")
  BY <1>1, <1>2, OneHandler
<1>6. /\ OpenIncidents(m) # {} => incident[m].alerted
      /\ incidentID[w] \in OpenIncidents(m)
      /\ ~incident[m].recovered_alerted
  BY <1>1, <1>2, <1>5
     DEF OnlyHandler, MonitorAgrees, HashAgrees, HandlerAgrees, DownSteps
<1>7. \A n \in Monitors \ {m} : SameFlags(n)
  BY <1>3, FlagsElsewhere DEF CustodyInv
<1> QED
  BY <1>1, <1>2, <1>4, <1>6, <1>7, HashCommand DEF DownSteps, RecoverySteps

LEMMA GetIncidentStays ==
  ASSUME CustodyInv, TypeInv', NEW w \in Workers, faults' = 0,
         \A n \in Monitors : MonitorAgrees(n), GetIncident(w)
  PROVE  \E m \in Monitors : Stays(m)
<1>1. /\ pc[w] = "getIncident"
      /\ UNCHANGED <<job, incident, incidents, alertLog, incidentID>>
  BY DEF GetIncident, custodyVars, alertVars, storeVars
<1>2. PICK m \in Monitors : m = job[w].monitor /\ MonitorAgrees(m)
  BY <1>1, BusyMonitor DEF CustodyInv
<1>3. PICK step :
        /\ Goto(w, step) /\ step \in {"reschedule", "closeIncident", "clearIncident"}
        /\ step = "closeIncident" => incident[m].db_incident
        /\ step = "clearIncident" => ~incident[m].db_incident
  BY <1>2 DEF GetIncident, Fails, CustodyInv, TypeInv, TypeOK, WorldTypes
<1>5. OnlyHandler(w, m, step)
  BY <1>1, <1>2, <1>3, OneHandler
<1>6. /\ OpenIncidents(m) # {} => incident[m].alerted /\ incident[m].db_incident
      /\ incident[m].db_incident => OpenIncidents(m) # {}
      /\ ~incident[m].recovered_alerted
  BY <1>1, <1>2, <1>5 DEF OnlyHandler, MonitorAgrees, HashAgrees
<1>7. \A n \in Monitors \ {m} : SameFlags(n)
  BY <1>1, FlagsElsewhere DEF CustodyInv
<1> QED
  BY <1>1, <1>2, <1>3, <1>6, <1>7, HashCommand DEF DownSteps, RecoverySteps

LEMMA MarkRecoveredStays ==
  ASSUME CustodyInv, TypeInv', NEW w \in Workers, faults' = 0,
         \A n \in Monitors : MonitorAgrees(n),
         MarkIncidentRecoveredAlertedIfNotSet(w)
  PROVE  \E m \in Monitors : Stays(m)
<1>1. /\ pc[w] = "markRecovered"
      /\ UNCHANGED <<job, incidents, alertLog, incidentID>>
  BY DEF MarkIncidentRecoveredAlertedIfNotSet, custodyVars, alertVars
<1>2. PICK m \in Monitors : m = job[w].monitor /\ MonitorAgrees(m)
  BY <1>1, BusyMonitor DEF CustodyInv
<1>3. PICK step :
        /\ Goto(w, step)
        /\ incident' = [incident EXCEPT ![m].recovered_alerted = TRUE]
        /\ step = IF incident[m].recovered_alerted THEN "clearIncident"
                  ELSE "sendRecovered"
  BY <1>2 DEF MarkIncidentRecoveredAlertedIfNotSet, Fails, CustodyInv, TypeInv,
              TypeOK, WorldTypes
<1>4. /\ incident'[m].recovered_alerted
      /\ incident'[m].alerted = incident[m].alerted
      /\ incident'[m].db_incident = incident[m].db_incident
  BY <1>3, FlagWrites DEF CustodyInv
<1>5. OnlyHandler(w, m, step)
  BY <1>1, <1>2, <1>3, OneHandler
<1>6. /\ OpenIncidents(m) = {} /\ ~incident[m].recovered_alerted
  BY <1>1, <1>2, <1>5
     DEF OnlyHandler, MonitorAgrees, HashAgrees, HandlerAgrees, RecoverySteps
<1>7. \A n \in Monitors \ {m} : SameFlags(n)
  BY <1>3, FlagsElsewhere DEF CustodyInv
<1> QED
  BY <1>1, <1>2, <1>3, <1>4, <1>6, <1>7, HashCommand DEF DownSteps, RecoverySteps

LEMMA ClearIncidentStays ==
  ASSUME CustodyInv, TypeInv', NEW w \in Workers, faults' = 0,
         \A n \in Monitors : MonitorAgrees(n), ClearIncident(w)
  PROVE  \E m \in Monitors : Stays(m)
<1>1. /\ pc[w] = "clearIncident" /\ Goto(w, "clearRetry")
      /\ UNCHANGED <<job, incidents, alertLog, incidentID>>
  BY DEF ClearIncident, custodyVars, alertVars
<1>2. PICK m \in Monitors : m = job[w].monitor /\ MonitorAgrees(m)
  BY <1>1, BusyMonitor DEF CustodyInv
<1>3. incident' = [incident EXCEPT ![m] = NoIncident]
  BY <1>2 DEF ClearIncident, Fails, CustodyInv, TypeInv, TypeOK, WorldTypes
<1>4. /\ ~incident'[m].db_incident /\ ~incident'[m].recovered_alerted
  BY <1>3 DEF NoIncident, CustodyInv, TypeInv, TypeOK, StoreTypes
<1>6. OpenIncidents(m) = {}
  BY <1>1, <1>2 DEF MonitorAgrees, HandlerAgrees
<1>7. \A n \in Monitors \ {m} : SameFlags(n)
  BY <1>3, FlagsElsewhere DEF CustodyInv
<1> QED
  BY <1>1, <1>2, <1>4, <1>6, <1>7, HashCommand DEF DownSteps, RecoverySteps

LEMMA CreateAdvances ==
  ASSUME CustodyInv, AlertInv, TypeInv', NEW w \in Workers, faults' = 0,
         \A n \in Monitors : MonitorAgrees(n), CreateIncident(w)
  PROVE  \E m \in Monitors : Stays(m) \/ Advances(m, "quiet", "opened")
<1>1. /\ pc[w] = "createIncident" /\ UNCHANGED <<job, incident, alertLog>>
      /\ TypeInv /\ incidentID \in [Workers -> Nat]
  BY DEF CreateIncident, custodyVars, alertVars, CustodyInv, TypeInv, TypeOK,
         AlertTypes
<1>2. PICK m \in Monitors : m = job[w].monitor /\ MonitorAgrees(m)
  BY <1>1, BusyMonitor
<1>3. /\ OpenIncidents(m) = {} /\ incident[m].alerted
      /\ ~incident[m].db_incident
  BY <1>1, <1>2 DEF MonitorAgrees, HandlerAgrees
<1>4. \A n \in Monitors \ {m} : SameFlags(n)
  BY <1>1, FlagsElsewhere
<1>5. CASE Goto(w, "reschedule") /\ UNCHANGED <<incidents, incidentID>>
  <2>1. OnlyHandler(w, m, "reschedule")
    BY <1>1, <1>2, <1>5, OneHandler
  <2>2. ~incident[m].recovered_alerted
    BY <1>1, <1>2, <2>1 DEF OnlyHandler, MonitorAgrees, HashAgrees
  <2>3. Stays(m)
    BY <1>1, <1>2, <1>3, <1>4, <1>5, <2>2, HashCommand
       DEF DownSteps, RecoverySteps
  <2> QED
    BY <2>3
<1>6. CASE /\ incidents' = Append(incidents, [monitor |-> m, open |-> TRUE])
           /\ incidentID' = [incidentID EXCEPT ![w] = Len(incidents')]
           /\ Goto(w, "markDBIncident")
  <2>1. PICK i : i = Len(incidents')
    OBVIOUS
  <2>2. /\ DOMAIN incidents' = DOMAIN incidents \cup {i}
        /\ i \notin DOMAIN incidents
        /\ incidents'[i] = [monitor |-> m, open |-> TRUE]
        /\ \A j \in DOMAIN incidents : incidents'[j] = incidents[j] /\ j < i
        /\ i \in Nat
    BY <1>1, <1>6, <2>1, InsertedRow DEF TypeInv, TypeOK, StoreTypes
  <2>3. OnlyHandler(w, m, "markDBIncident") /\ incidentID'[w] = i
    BY <1>1, <1>2, <1>6, <2>1, OneHandler
  <2>4. /\ Mine(m)' = Mine(m) \cup {i} /\ OpenIncidents(m)' = {i}
        /\ \A j \in Mine(m) :
             ~incidents[j].open /\ incidents'[j] = incidents[j] /\ j < i
    BY <1>3, <2>2 DEF Mine, OpenIncidents
  <2>5. Latest(m, i)'
    <3>1. \A j \in Mine(m) \cup {i} : j <= i
      <4>1. \A j \in Mine(m) : j \in Nat
        BY <1>1 DEF Mine, TypeInv, TypeOK, StoreTypes
      <4> QED
        BY <2>2, <2>4, <4>1
    <3> QED
      BY <2>4, <3>1 DEF Latest
  <2>6. \A type, j : Queued(type, j)' <=> Queued(type, j)
    BY <1>1 DEF Queued
  <2>7. \A j \in Mine(m) : Queued("RECOVERED", j)
    BY <1>1, <1>2, <2>3, <2>4
       DEF MonitorAgrees, AlertsAgree, OnlyHandler, RecoverySteps
  <2>8. \A type : ~Queued(type, i)
    BY <2>2 DEF Queued, AlertInv, AlertsFollowRows
  <2>9. RowsAgree(m)'
    BY <2>4, <2>5 DEF RowsAgree
  <2>10. HashAgrees(m)'
    BY <1>1, <1>2, <1>3, <2>3, <2>4 DEF HashAgrees, OnlyHandler, MonitorAgrees
  <2>11. AlertsAgree(m)'
    <3>1. Sending(m, i, DownSteps)'
      BY <2>3 DEF OnlyHandler, DownSteps
    <3> QED
      BY <2>2, <2>4, <2>6, <2>7, <3>1 DEF AlertsAgree
  <2>12. HandlerAgrees(m)'
    <3>1. \A v \in Workers \ {w} : job'[v].monitor = m => pc'[v] = "idle"
      BY <1>1, <2>3 DEF OnlyHandler
    <3>2. pc'[w] = "markDBIncident" /\ incidentID'[w] \in OpenIncidents(m)'
      BY <2>3, <2>4 DEF OnlyHandler
    <3> QED
      BY <3>1, <3>2 DEF HandlerAgrees, DownSteps, RecoverySteps
  <2>13. PhaseOf(m) = "quiet"
    BY <1>1, <1>2, <2>4, <2>7, PhaseIs DEF MonitorAgrees, RowsAgree, Latest
  <2>14. PhaseOf(m)' = "opened"
    BY <2>2, <2>5, <2>6, <2>8, PhaseWillBe
  <2>15. ASSUME NEW n \in Monitors \ {m} PROVE SameView(n)
    <3>1. SameRows(n)
      BY <2>2, <2>6 DEF SameRows, Mine
    <3>2. SameHandler(n)
      BY <1>1, <1>2, <1>6, <2>1, ElsewhereSameHandler
    <3> QED
      BY <1>4, <3>1, <3>2 DEF SameView
  <2>16. Advances(m, "quiet", "opened")
    BY <2>9, <2>10, <2>11, <2>12, <2>13, <2>14, <2>15
       DEF Advances, Elsewhere, MonitorAgrees
  <2> QED
    BY <2>16
<1> QED
  BY <1>1, <1>2, <1>5, <1>6
     DEF CreateIncident, Fails, TypeInv, TypeOK, WorldTypes

LEMMA CloseAdvances ==
  ASSUME CustodyInv, AlertInv, TypeInv', NEW w \in Workers, faults' = 0,
         \A n \in Monitors : MonitorAgrees(n), CloseIncident(w)
  PROVE  \E m \in Monitors : Advances(m, "announced", "closed")
<1>1. /\ pc[w] = "closeIncident" /\ UNCHANGED <<job, incident, alertLog>>
      /\ TypeInv /\ incidentID \in [Workers -> Nat]
  BY DEF CloseIncident, custodyVars, alertVars, CustodyInv, TypeInv, TypeOK,
         AlertTypes
<1>2. PICK m \in Monitors : m = job[w].monitor /\ MonitorAgrees(m)
  BY <1>1, BusyMonitor
<1>3. /\ incidents' = Closing(m)
      /\ \/ OpenIncidents(m) = {} /\ Goto(w, "clearIncident")
         \/ \E i \in OpenIncidents(m) :
              /\ incidentID' = [incidentID EXCEPT ![w] = i]
              /\ Goto(w, "markRecovered")
  BY <1>1, <1>2
     DEF CloseIncident, Closing, Fails, TypeInv, TypeOK, WorldTypes
<1>4. OpenIncidents(m) # {}
  <2>1. PICK step : Goto(w, step)
    BY <1>3
  <2>2. OnlyHandler(w, m, step)
    BY <1>1, <1>2, <2>1, OneHandler
  <2> QED
    BY <1>1, <1>2, <2>2
       DEF OnlyHandler, MonitorAgrees, HashAgrees, HandlerAgrees
<1>5. PICK i \in OpenIncidents(m) :
        /\ incidentID' = [incidentID EXCEPT ![w] = i]
        /\ Goto(w, "markRecovered")
  BY <1>3, <1>4
<1>6. OnlyHandler(w, m, "markRecovered") /\ incidentID'[w] = i
  BY <1>1, <1>2, <1>5, OneHandler
<1>7. /\ Latest(m, i) /\ i \in DOMAIN incidents /\ incidents[i].open
      /\ incident[m].db_incident /\ ~incident[m].recovered_alerted
  BY <1>1, <1>2, <1>6
     DEF OpenIncidents, OnlyHandler, MonitorAgrees, HashAgrees, HandlerAgrees,
         RowsAgree
<1>8. /\ DOMAIN incidents' = DOMAIN incidents
      /\ \A j \in DOMAIN incidents :
           /\ incidents'[j].monitor = incidents[j].monitor
           /\ incidents'[j].open <=> incidents[j].open /\ j \notin OpenIncidents(m)
           /\ incidents[j].monitor # m => incidents'[j] = incidents[j]
  <2>1. \A j \in DOMAIN incidents :
          incidents[j].monitor # m => incidents'[j] = incidents[j]
    BY <1>3 DEF Closing, OpenIncidents
  <2> QED
    BY <1>1, <1>3, <2>1, ClosedRows
<1>9. Mine(m)' = Mine(m) /\ OpenIncidents(m)' = {} /\ Latest(m, i)'
  BY <1>7, <1>8 DEF Mine, OpenIncidents, Latest
<1>10. \A type, j : Queued(type, j)' <=> Queued(type, j)
  BY <1>1 DEF Queued
<1>11. Queued("DOWN", i) /\ ~Queued("RECOVERED", i)
  <2>1. Queued("DOWN", i)
    BY <1>1, <1>2, <1>6, <1>7
       DEF MonitorAgrees, AlertsAgree, Latest, OnlyHandler, DownSteps
  <2>2. ~Queued("RECOVERED", i)
    BY <1>7 DEF AlertInv, AlertsFollowRows, Queued
  <2> QED
    BY <2>1, <2>2
<1>12. RowsAgree(m)'
  BY <1>9 DEF RowsAgree, Latest
<1>13. HashAgrees(m)'
  BY <1>1, <1>6, <1>7, <1>9 DEF HashAgrees, OnlyHandler
<1>14. AlertsAgree(m)'
  <2>1. Sending(m, i, RecoverySteps)'
    BY <1>6 DEF OnlyHandler, RecoverySteps
  <2>2. ASSUME NEW j \in Mine(m), j # i PROVE Queued("RECOVERED", j)
    <3>1. ~incidents[j].open
      <4>1. incidents[j].open => j \in OpenIncidents(m)
        BY DEF Mine, OpenIncidents
      <4>2. Mine(m) \subseteq Nat
        BY <1>1 DEF Mine, TypeInv, TypeOK, StoreTypes
      <4> QED
        BY <1>2, <1>7, <2>2, <4>1, <4>2 DEF MonitorAgrees, RowsAgree, Latest
    <3> QED
      BY <1>1, <1>2, <1>6, <3>1
         DEF MonitorAgrees, AlertsAgree, OnlyHandler, RecoverySteps
  <2>3. \A j \in Mine(m) : ~incidents'[j].open
    BY <1>8, <1>9 DEF Mine, OpenIncidents
  <2> QED
    BY <1>9, <1>10, <2>1, <2>2, <2>3 DEF AlertsAgree
<1>15. HandlerAgrees(m)'
  <2>1. \A v \in Workers \ {w} : job'[v].monitor = m => pc'[v] = "idle"
    BY <1>1, <1>6 DEF OnlyHandler
  <2>2. pc'[w] = "markRecovered" /\ Latest(m, incidentID[w])'
    BY <1>6, <1>9 DEF OnlyHandler
  <2> QED
    BY <1>9, <2>1, <2>2 DEF HandlerAgrees, DownSteps, RecoverySteps
<1>16. PhaseOf(m) = "announced"
  BY <1>1, <1>7, <1>11, PhaseIs
<1>17. PhaseOf(m)' = "closed"
  <2>1. ~incidents'[i].open
    BY <1>7, <1>8
  <2> QED
    BY <1>9, <1>10, <1>11, <2>1, PhaseWillBe
<1>18. ASSUME NEW n \in Monitors \ {m} PROVE SameView(n)
  <2>1. SameRows(n)
    BY <1>8, <1>10 DEF SameRows, Mine
  <2>2. SameHandler(n)
    BY <1>1, <1>2, <1>5, ElsewhereSameHandler
  <2>3. SameFlags(n)
    BY <1>1, FlagsElsewhere
  <2> QED
    BY <2>1, <2>2, <2>3 DEF SameView
<1>19. Advances(m, "announced", "closed")
  BY <1>12, <1>13, <1>14, <1>15, <1>16, <1>17, <1>18
     DEF Advances, Elsewhere, MonitorAgrees
<1> QED
  BY <1>19

LEMMA QueuedNext ==
  ASSUME TypeInv, NEW t, NEW i,
         alertLog' = Append(alertLog, [type |-> t, incident |-> i])
  PROVE  \A type, j : Queued(type, j)' <=> Queued(type, j) \/ (type = t /\ j = i)
<1> DEFINE a == [type |-> t, incident |-> i]
           n == Len(alertLog) + 1
<1>1. /\ DOMAIN alertLog' = DOMAIN alertLog \cup {n} /\ alertLog'[n] = a
      /\ \A k \in DOMAIN alertLog : alertLog'[k] = alertLog[k]
  BY DEF TypeInv, TypeOK, AlertTypes
<1>2. \A type, j : [type |-> type, incident |-> j] = a <=> type = t /\ j = i
  OBVIOUS
<1> QED
  BY <1>1, <1>2 DEF Queued

LEMMA SendDownAdvances ==
  ASSUME CustodyInv, AlertInv, TypeInv', NEW w \in Workers,
         \A n \in Monitors : MonitorAgrees(n), SendDown(w)
  PROVE  \E m \in Monitors : Advances(m, "opened", "announced")
<1>1. /\ pc[w] = "sendDown" /\ UNCHANGED <<job, incident, incidents, incidentID>>
      /\ Goto(w, "reschedule") /\ TypeInv
  BY DEF SendDown, SendAlert, custodyVars, storeVars, CustodyInv
<1>2. PICK m \in Monitors : m = job[w].monitor /\ MonitorAgrees(m)
  BY <1>1, BusyMonitor
<1>3. PICK i : i = incidentID[w]
  OBVIOUS
<1>4. \A type, j : Queued(type, j)' <=> Queued(type, j) \/ (type = "DOWN" /\ j = i)
  BY <1>1, <1>3, QueuedNext DEF SendDown, SendAlert
<1>5. OnlyHandler(w, m, "reschedule")
  BY <1>1, <1>2, OneHandler
<1>6. /\ i \in OpenIncidents(m) /\ Latest(m, i) /\ incidents[i].open
      /\ incident[m].alerted /\ incident[m].db_incident
      /\ ~incident[m].recovered_alerted
      /\ ~Queued("DOWN", i)
  BY <1>1, <1>2, <1>3, <1>5
     DEF OpenIncidents, OnlyHandler, MonitorAgrees, HashAgrees, HandlerAgrees,
         RowsAgree, DownSteps, AlertInv, DownIsDue
<1>7. /\ Mine(m)' = Mine(m) /\ OpenIncidents(m)' = OpenIncidents(m)
      /\ \A j : Latest(m, j)' <=> Latest(m, j)
  BY <1>1 DEF Mine, OpenIncidents, Latest
<1>8. RowsAgree(m)'
  BY <1>2, <1>7 DEF RowsAgree, MonitorAgrees
<1>9. HashAgrees(m)'
  BY <1>1, <1>6, <1>7 DEF HashAgrees
<1>10. AlertsAgree(m)'
  BY <1>1, <1>2, <1>3, <1>4, <1>5, <1>7
     DEF AlertsAgree, MonitorAgrees, OnlyHandler, DownSteps, RecoverySteps
<1>11. HandlerAgrees(m)'
  BY <1>1, <1>5 DEF HandlerAgrees, OnlyHandler, DownSteps, RecoverySteps
<1>12. PhaseOf(m) = "opened"
  BY <1>1, <1>6, PhaseIs
<1>13. PhaseOf(m)' = "announced"
  BY <1>1, <1>4, <1>6, <1>7, PhaseWillBe
<1>14. ASSUME NEW n \in Monitors \ {m} PROVE SameView(n)
  <2>1. SameRows(n)
    BY <1>1, <1>4, <1>6 DEF SameRows, Mine, OpenIncidents
  <2>2. SameHandler(n)
    BY <1>1, <1>2, ElsewhereSameHandler
  <2>3. SameFlags(n)
    BY <1>1, FlagsElsewhere
  <2> QED
    BY <2>1, <2>2, <2>3 DEF SameView
<1>15. Advances(m, "opened", "announced")
  BY <1>8, <1>9, <1>10, <1>11, <1>12, <1>13, <1>14
     DEF Advances, Elsewhere, MonitorAgrees
<1> QED
  BY <1>15

LEMMA SendRecoveredAdvances ==
  ASSUME CustodyInv, AlertInv, TypeInv', NEW w \in Workers,
         \A n \in Monitors : MonitorAgrees(n), SendRecovered(w)
  PROVE  \E m \in Monitors : Advances(m, "closed", "quiet")
<1>1. /\ pc[w] = "sendRecovered"
      /\ UNCHANGED <<job, incident, incidents, incidentID>>
      /\ Goto(w, "clearIncident") /\ TypeInv
  BY DEF SendRecovered, SendAlert, custodyVars, storeVars, CustodyInv
<1>2. PICK m \in Monitors : m = job[w].monitor /\ MonitorAgrees(m)
  BY <1>1, BusyMonitor
<1>3. PICK i : i = incidentID[w]
  OBVIOUS
<1>4. \A type, j :
        Queued(type, j)' <=> Queued(type, j) \/ (type = "RECOVERED" /\ j = i)
  BY <1>1, <1>3, QueuedNext DEF SendRecovered, SendAlert
<1>5. OnlyHandler(w, m, "clearIncident")
  BY <1>1, <1>2, OneHandler
<1>6. /\ OpenIncidents(m) = {} /\ Latest(m, i) /\ ~incidents[i].open
      /\ ~Queued("RECOVERED", i)
  BY <1>1, <1>2, <1>3
     DEF MonitorAgrees, HandlerAgrees, RecoverySteps, AlertInv, RecoveryIsDue
<1>7. /\ Mine(m)' = Mine(m) /\ OpenIncidents(m)' = OpenIncidents(m)
      /\ \A j : Latest(m, j)' <=> Latest(m, j)
  BY <1>1 DEF Mine, OpenIncidents, Latest
<1>8. RowsAgree(m)'
  BY <1>2, <1>7 DEF RowsAgree, MonitorAgrees
<1>9. HashAgrees(m)'
  BY <1>1, <1>5, <1>6, <1>7 DEF HashAgrees, OnlyHandler
<1>10. AlertsAgree(m)'
  BY <1>1, <1>2, <1>3, <1>4, <1>5, <1>7
     DEF AlertsAgree, MonitorAgrees, OnlyHandler, DownSteps, RecoverySteps
<1>11. HandlerAgrees(m)'
  BY <1>1, <1>5, <1>6, <1>7
     DEF HandlerAgrees, OnlyHandler, DownSteps, RecoverySteps
<1>12. PhaseOf(m) = "closed"
  BY <1>1, <1>6, PhaseIs
<1>13. PhaseOf(m)' = "quiet"
  BY <1>1, <1>4, <1>6, <1>7, PhaseWillBe
<1>14. ASSUME NEW n \in Monitors \ {m} PROVE SameView(n)
  <2>1. SameRows(n)
    BY <1>1, <1>4, <1>6 DEF SameRows, Mine, Latest
  <2>2. SameHandler(n)
    BY <1>1, <1>2, ElsewhereSameHandler
  <2>3. SameFlags(n)
    BY <1>1, FlagsElsewhere
  <2> QED
    BY <2>1, <2>2, <2>3 DEF SameView
<1>15. Advances(m, "closed", "quiet")
  BY <1>8, <1>9, <1>10, <1>11, <1>12, <1>13, <1>14
     DEF Advances, Elsewhere, MonitorAgrees
<1> QED
  BY <1>15

LEMMA InitTracking == Init => TrackInv
<1> SUFFICES ASSUME Init, NEW m \in Monitors PROVE MonitorAgrees(m)
  BY DEF TrackInv
<1>1. Mine(m) = {} /\ OpenIncidents(m) = {}
  BY DEF Init, Mine, OpenIncidents
<1>2. RowsAgree(m) /\ AlertsAgree(m)
  BY <1>1 DEF RowsAgree, AlertsAgree
<1>3. HashAgrees(m)
  BY <1>1 DEF Init, NoIncident, HashAgrees
<1>4. HandlerAgrees(m)
  BY <1>1 DEF Init, HandlerAgrees, DownSteps, RecoverySteps
<1> QED
  BY <1>2, <1>3, <1>4 DEF MonitorAgrees

(* What a step may do to the monitors while nothing has failed.               *)
Progress ==
  \/ \A n \in Monitors : SameView(n)
  \/ \E m \in Monitors :
       \/ Stays(m)
       \/ Advances(m, "quiet", "opened") \/ Advances(m, "opened", "announced")
       \/ Advances(m, "announced", "closed") \/ Advances(m, "closed", "quiet")

(* A step of w between steps that matter to nobody.                           *)
LEMMA UneventfulStep ==
  ASSUME TypeInv, NEW w \in Workers, pc[w] \notin KeySteps,
         NEW step, step \notin KeySteps, Goto(w, step),
         UNCHANGED <<incidents, alertLog>>,
         \A v \in Workers \ {w} : job'[v] = job[v] /\ incidentID'[v] = incidentID[v],
         \A n \in Monitors : SameFlags(n)
  PROVE  \A n \in Monitors : SameView(n)
<1>1. pc \in [Workers -> Steps]
  BY DEF TypeInv, TypeOK, ProcessTypes
<1>2. pc'[w] = step /\ \A v \in Workers \ {w} : pc'[v] = pc[v]
  BY <1>1 DEF Goto
<1>3. \A n : SameHandler(n)
  BY <1>2 DEF SameHandler
<1> QED
  BY <1>3, SameRowsWithoutWrites DEF SameView

LEMMA SurroundingsView ==
  ASSUME UNCHANGED <<incident, incidents, alertLog, pc, incidentID, job>>
  PROVE  \A n \in Monitors : SameView(n)
BY SameRowsWithoutWrites DEF SameView, SameFlags, SameHandler

LEMMA NextTracking ==
  ASSUME CustodyInv, AlertInv, TrackInv, [Next]_vars, faults' = 0, crashes' = 0
  PROVE  Faultless /\ Progress
<1> USE DEF custodyVars, storeVars, alertVars, worldVars
<1>0. /\ TypeInv /\ TypeInv' /\ faults \in Nat /\ crashes \in Nat
      /\ faults' \in {faults, faults + 1}
      /\ job \in [Workers -> Results \cup {NoResult}]
      /\ incidentID \in [Workers -> Nat]
  BY NextType, FaultsOnlyGrow
     DEF CustodyInv, TypeInv, TypeOK, WorldTypes, ProcessTypes, AlertTypes
<1>1. Faultless /\ ~Crash
  BY <1>0, CrashesOnlyGrow DEF Faultless, Crash
<1>2. \A n \in Monitors : MonitorAgrees(n)
  BY <1>1 DEF TrackInv
<1>3. ASSUME NEW m \in Monitors,
             GoDown(m) \/ ComeBack(m) \/ Check(m) \/ RetryExpires(m)
      PROVE  Progress
  BY <1>3, SurroundingsView DEF Progress, GoDown, ComeBack, Check, RetryExpires
<1>4. ASSUME RouterReceive \/ RouterSend \/ TakeAlert \/ UNCHANGED vars
      PROVE  Progress
  BY <1>4, SurroundingsView DEF Progress, RouterReceive, RouterSend, TakeAlert, vars
<1>5. ASSUME NEW w \in Workers, StopMonitoring(w) \/ ScheduleMonitor(w)
      PROVE  Progress
  <2>1. /\ pc[w] \notin KeySteps /\ Goto(w, "idle") /\ Finish(w)
        /\ UNCHANGED <<incident, incidents, alertLog>>
    BY <1>5 DEF StopMonitoring, ScheduleMonitor, Finish, KeySteps, DownSteps,
                RecoverySteps
  <2>2. \A v \in Workers \ {w} : job'[v] = job[v] /\ incidentID'[v] = incidentID[v]
    BY <1>0, <2>1 DEF Finish
  <2>3. \A n \in Monitors : SameFlags(n)
    BY <2>1 DEF SameFlags
  <2>4. "idle" \notin KeySteps
    BY DEF KeySteps, DownSteps, RecoverySteps
  <2> QED
    BY <1>0, <2>1, <2>2, <2>3, <2>4, UneventfulStep DEF Progress
<1>6. ASSUME NEW w \in Workers, ReceiveFailure(w) \/ ReceiveSuccess(w)
      PROVE  Progress
  <2>1. PICK step \in {"storeTerminal", "incrementRetry", "incrementIncident",
                       "storeStatus"} : Goto(w, step)
    BY <1>6 DEF ReceiveFailure, ReceiveSuccess
  <2>2. /\ pc[w] \notin KeySteps /\ step \notin KeySteps
        /\ UNCHANGED <<incident, incidents, alertLog, incidentID>>
    BY <1>6, <2>1 DEF ReceiveFailure, ReceiveSuccess, KeySteps, DownSteps,
                RecoverySteps
  <2>3. \A v \in Workers \ {w} : job'[v] = job[v]
    BY <1>0, <1>6 DEF ReceiveFailure, ReceiveSuccess
  <2>4. \A n \in Monitors : SameFlags(n)
    BY <2>2 DEF SameFlags
  <2> QED
    BY <1>0, <2>1, <2>2, <2>3, <2>4, UneventfulStep DEF Progress
<1>7. ASSUME NEW w \in Workers,
             IncrementRetry(w) \/ ClearSpentRetry(w) \/ StoreStatus(w) \/ ClearRetry(w)
      PROVE  Progress
  <2>1. PICK step \in {"reschedule", "clearSpentRetry", "incrementIncident",
                       "getIncident"} : Goto(w, step)
    BY <1>7 DEF IncrementRetry, ClearSpentRetry, StoreStatus, ClearRetry
  <2>2. /\ pc[w] \notin KeySteps /\ step \notin KeySteps
        /\ UNCHANGED <<job, incident, incidents, alertLog, incidentID>>
    BY <1>7, <2>1
       DEF IncrementRetry, ClearSpentRetry, StoreStatus, ClearRetry, KeySteps,
           DownSteps, RecoverySteps
  <2>4. \A n \in Monitors : SameFlags(n)
    BY <2>2 DEF SameFlags
  <2> QED
    BY <1>0, <2>1, <2>2, <2>4, UneventfulStep DEF Progress
<1>8. ASSUME NEW w \in Workers, IncrementIncident(w) PROVE Progress
  <2>0. PICK m \in Monitors : m = job[w].monitor
    BY <1>0, <1>8, BusyWorker DEF IncrementIncident
  <2>1. PICK step \in {"reschedule", "markAlerted"}, c \in Int :
          Goto(w, step) /\ incident' = [incident EXCEPT ![m].failure_count = c]
    <3>1. \A n \in 0 .. 3 :
            Saturate(incident[m].failure_count + n, FailureThreshold) \in Int
      <4>1. incident[m].failure_count \in Nat
        BY <1>0, ResultProcessorAssumption DEF TypeInv, TypeOK, StoreTypes, Hashes
      <4> QED
        BY <4>1, ResultProcessorAssumption DEF Saturate
    <3> QED
      BY <1>8, <2>0, <3>1 DEF IncrementIncident
  <2>2. /\ pc[w] \notin KeySteps /\ step \notin KeySteps
        /\ UNCHANGED <<job, incidents, alertLog, incidentID>>
    BY <1>8, <2>1 DEF IncrementIncident, KeySteps, DownSteps, RecoverySteps
  <2>3. \A n \in Monitors : SameFlags(n)
    BY <1>0, <2>0, <2>1, FlagWrites, FlagsElsewhere
  <2> QED
    BY <1>0, <2>1, <2>2, <2>3, UneventfulStep DEF Progress
<1>9. ASSUME NEW w \in Workers, FailureStep(w) PROVE Progress
  BY <1>0, <1>2, <1>5, <1>6, <1>7, <1>8, <1>9, MarkAlertedStays,
     CreateAdvances, MarkDBStays, SendDownAdvances DEF FailureStep, Progress
<1>10. ASSUME NEW w \in Workers, SuccessStep(w) PROVE Progress
  BY <1>0, <1>2, <1>5, <1>6, <1>7, <1>10, GetIncidentStays, CloseAdvances,
     MarkRecoveredStays, SendRecoveredAdvances, ClearIncidentStays
     DEF SuccessStep, Progress
<1>11. Progress
  BY <1>1, <1>3, <1>4, <1>9, <1>10 DEF Next, Workers
<1> QED
  BY <1>1, <1>11

LEMMA ProgressAgrees ==
  ASSUME TrackInv, Faultless, Progress PROVE TrackInv'
<1> SUFFICES ASSUME NEW n \in Monitors PROVE MonitorAgrees(n)'
  BY DEF TrackInv
<1>1. MonitorAgrees(n)
  BY DEF TrackInv
<1>2. CASE SameView(n)
  BY <1>1, <1>2, SameViewAgrees
<1> QED
  BY <1>2 DEF Progress, Stays, Advances, Elsewhere

LEMMA NextTrackInv ==
  CustodyInv /\ AlertInv /\ TrackInv /\ [Next]_vars => TrackInv'
<1> SUFFICES ASSUME CustodyInv, AlertInv, TrackInv, [Next]_vars, Faultless'
             PROVE  TrackInv'
  BY DEF TrackInv
<1> QED
  BY NextTracking, ProgressAgrees DEF Faultless

TrackingInv == CustodyInv /\ AlertInv /\ TrackInv

LEMMA TrackingInvariant == Spec => []TrackingInv
<1>1. Init => TrackingInv
  BY InitType, InitCustody, InitAlerts, InitTracking DEF TrackingInv, CustodyInv
<1>2. TrackingInv /\ [Next]_vars => TrackingInv'
  BY NextCustody, NextAlerts, NextTrackInv DEF TrackingInv, CustodyInv
<1> QED BY <1>1, <1>2, PTL DEF Spec

(* While no command fails, the hash and monitor_incidents agree about the     *)
(* open incident of every monitor, except between the two writes of one       *)
(* handler.                                                                   *)
THEOREM IncidentsAreTracked == Spec => []IncidentTracked
<1>1. TrackingInv => IncidentTracked
  BY TrackingIsTracked DEF TrackingInv, CustodyInv
<1> QED BY <1>1, TrackingInvariant, PTL

-----------------------------------------------------------------------------
(* The refinement: every step is one of the promised ones or a stutter.       *)

Phase == [m \in Monitors |-> PhaseOf(m)]

LEMMA StepIsPromised ==
  ASSUME TrackingInv, [Next]_vars, faults' = 0, crashes' = 0
  PROVE  [Notifications!Next]_Phase
<1>1. /\ Progress /\ TypeInv /\ TypeInv'
      /\ \A n \in Monitors : RowsAgree(n)
  BY NextTracking, NextType
     DEF TrackingInv, TrackInv, CustodyInv, MonitorAgrees
<1>2. \A n \in Monitors : SameView(n) => PhaseOf(n)' = PhaseOf(n)
  BY <1>1, SameViewPhase DEF SameView
<1>3. /\ Phase' = [m \in Monitors |-> PhaseOf(m)']
      /\ Phase = [m \in Monitors |-> PhaseOf(m)]
  BY DEF Phase
<1>4. CASE \A n \in Monitors : PhaseOf(n)' = PhaseOf(n)
  BY <1>3, <1>4
<1>5. ASSUME NEW m \in Monitors, NEW from, NEW to, Advances(m, from, to)
      PROVE  Notifications!Advance(m, from, to)
  <2>1. \A n \in Monitors \ {m} : PhaseOf(n)' = PhaseOf(n)
    BY <1>2, <1>5 DEF Advances, Elsewhere
  <2>2. Phase' = [Phase EXCEPT ![m] = to] /\ Phase[m] = from
    BY <1>3, <1>5, <2>1 DEF Advances
  <2> QED
    BY <2>2 DEF Notifications!Advance, Phase
<1>6. ASSUME NEW m \in Monitors, Stays(m)
      PROVE  \A n \in Monitors : PhaseOf(n)' = PhaseOf(n)
  BY <1>2, <1>6 DEF Stays, Elsewhere
<1> QED
  BY <1>1, <1>2, <1>4, <1>5, <1>6
     DEF Progress, Notifications!Next, Notifications!Open,
         Notifications!AnnounceDown, Notifications!Close,
         Notifications!AnnounceRecovery

(* Up to the first failed command or crash, whatever the bounds on them, every *)
(* step of the processor is one of OutageNotifications or leaves all phases.   *)
THEOREM PromisedUntilAFault ==
  Spec => [][faults' = 0 /\ crashes' = 0 => [Notifications!Next]_Phase]_vars
<1>1. TrackingInv /\ [Next]_vars
        => (faults' = 0 /\ crashes' = 0 => [Notifications!Next]_Phase)
  BY StepIsPromised
<1> QED
  BY <1>1, TrackingInvariant, PTL DEF Spec

(* Without failed commands and crashes the processor implements the safety    *)
(* part of OutageNotifications: the incidents and alerts of each monitor come *)
(* in the promised order, each exactly once.                                  *)
THEOREM AlertsComeInOrder ==
  MaxFaults = 0 /\ MaxCrashes = 0 => (Spec => Notifications!Safety)
<1> SUFFICES ASSUME MaxFaults = 0, MaxCrashes = 0
             PROVE  Spec => Notifications!Safety
  OBVIOUS
<1>1. Init => Notifications!Init
  <2> SUFFICES ASSUME Init, NEW m \in Monitors PROVE PhaseOf(m) = "quiet"
    BY DEF Notifications!Init
  <2>1. Mine(m) = {}
    BY DEF Init, Mine
  <2> QED
    BY <2>1, InitType, PhaseIs
<1>2. Init => Faultless
  BY DEF Init, Faultless
<1>3. TypeInv /\ Faultless /\ [Next]_vars => Faultless'
  BY CountersGrow DEF Faultless, Grows
<1>4. Spec => [](TrackingInv /\ Faultless)
  <2>1. TrackingInv => TypeInv
    BY DEF TrackingInv, CustodyInv
  <2> QED
    BY <1>2, <1>3, <2>1, TrackingInvariant, PTL DEF Spec
<1>5. TrackingInv /\ (TrackingInv /\ Faultless)' /\ [Next]_vars
        => [Notifications!Next]_Phase
  BY StepIsPromised DEF Faultless
<1> QED
  BY <1>1, <1>4, <1>5, PTL DEF Spec, Notifications!Safety, Phase
=============================================================================
