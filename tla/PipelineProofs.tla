--------------------------- MODULE PipelineProofs ---------------------------
(***************************************************************************)
(* Shutdown drains, for any monitors, workers, plugins and channel sizes.  *)
(* The invariant follows the closing of the channels down the pipeline:    *)
(* who closes a channel, and what is true of the stage before it by then.  *)
(***************************************************************************)
EXTENDS Pipeline, TLAPS

(* Whoever goes on with a check has a monitor for it.                      *)
JobShape ==
  /\ jobChan \in Seq(Monitors)
  /\ xstep \in [ExecWorkers -> {"idle", "loading", "acquiring", "ended"}]
  /\ xjob \in [ExecWorkers -> Monitors \cup {"none"}]
  /\ \A x \in ExecWorkers : xstep[x] \notin {"idle", "ended"} => xjob[x] \in Monitors

Checks ==
  /\ cstep \in [HttpSlots -> Stages]
  /\ cjob \in [HttpSlots -> Monitors \cup {"none"}]
  /\ \A c \in HttpSlots : cstep[c] # "idle" => cjob[c] \in Monitors

Shape ==
  /\ Checks
  /\ resultChan \in Seq(Outcomes)
  /\ routing \in Outcomes \cup {NoOutcome}
  /\ handlerChan \in [Pools -> Seq(Monitors)]
  /\ rstep \in [ResultWorkers ->
                  {"idle", "handling", "alerting", "rescheduling", "ended"}]
  /\ rjob \in [ResultWorkers -> Monitors \cup {"none"}]
  /\ \A r \in ResultWorkers : rstep[r] \notin {"idle", "ended"} => rjob[r] \in Monitors
  /\ astep \in [AlertWorkers -> AlertSteps]
  /\ main \in MainSteps /\ closed \in SUBSET ChannelNames

(* main closes its channels in the order it works down.                    *)
MainOrder ==
  /\ "results" \in closed =>
       main \in {"awaitingResults", "handled", "awaitingAlerts", "returned"}
  /\ main \in {"awaitingResults", "handled", "awaitingAlerts", "returned"} =>
       "results" \in closed
  /\ "alerts" \in closed <=> main \in {"awaitingAlerts", "returned"}

(* The router closes both of its channels, and has nothing left by then.   *)
RouterEnded ==
  \A p \in Pools : p \in closed =>
    "results" \in closed /\ resultChan = <<>> /\ routing = NoOutcome

(* A result worker has ended on an empty closed channel; main has gone on  *)
(* from its first wait only when all had.                                  *)
HandlersEnded ==
  /\ \A r \in ResultWorkers : rstep[r] = "ended" =>
       PoolOf(r) \in closed /\ handlerChan[PoolOf(r)] = <<>>
  /\ main \in {"handled", "awaitingAlerts", "returned"} =>
       \A r \in ResultWorkers : rstep[r] = "ended"

AlertsEnded ==
  /\ \A a \in AlertWorkers : astep[a] = "ended" =>
       "alerts" \in closed /\ alertChan = <<>>
  /\ main = "returned" => \A a \in AlertWorkers : astep[a] = "ended"

Panics == panicked \in {"none", "jobs", "results"}

IInv == /\ Shape /\ MainOrder /\ RouterEnded /\ HandlersEnded /\ AlertsEnded
        /\ Panics

(* What the six parts speak of.                                            *)
mainVars == <<main, closed, panicked>>
stageVars == <<cstep, cjob, resultVars, alertChan, astep>>

-----------------------------------------------------------------------------
LEMMA PoolOfType ==
  ASSUME NEW r \in ResultWorkers
  PROVE  PoolOf(r) \in Pools
  BY DEF PoolOf, Pools

(* The invariant says enough about the end.                                *)
LEMMA InvImplies == IInv => ShutdownDrains
<1> SUFFICES ASSUME IInv, main = "returned"
             PROVE  /\ resultChan = <<>> /\ routing = NoOutcome
                    /\ \A p \in Pools : handlerChan[p] = <<>>
                    /\ \A r \in ResultWorkers : rstep[r] = "ended"
                    /\ alertChan = <<>>
                    /\ \A a \in AlertWorkers : astep[a] = "ended"
  BY DEF ShutdownDrains, IInv, Panics
<1>1. \A r \in ResultWorkers : rstep[r] = "ended"
  BY DEF IInv, HandlersEnded
<1>2. PICK s \in SuccessWorkers, f \in FailureWorkers, a \in AlertWorkers : TRUE
  BY PipelineAssumption
<1>3. /\ s \in ResultWorkers /\ PoolOf(s) = "success"
      /\ f \in ResultWorkers /\ PoolOf(f) = "failure"
  BY <1>2, PipelineAssumption DEF ResultWorkers, PoolOf
<1>4. \A p \in Pools : p \in closed /\ handlerChan[p] = <<>>
  BY <1>1, <1>3 DEF IInv, HandlersEnded, Pools
<1>5. resultChan = <<>> /\ routing = NoOutcome
  BY <1>4 DEF IInv, RouterEnded, Pools
<1>6. alertChan = <<>> /\ \A b \in AlertWorkers : astep[b] = "ended"
  BY <1>2 DEF IInv, AlertsEnded
<1> QED
  BY <1>1, <1>4, <1>5, <1>6

LEMMA InitHolds == Init => IInv
<1> SUFFICES ASSUME Init PROVE IInv
  OBVIOUS
<1>1. alertChan = <<>> /\ astep = [a \in AlertWorkers |-> "idle"]
  BY DEF Init, DeliveryInit
<1> QED
  BY <1>1 DEF Init, IInv, Shape, Checks, MainOrder, RouterEnded, HandlersEnded,
     AlertsEnded, Panics, Stages, Pools, AlertSteps, MainSteps, Outcomes

-----------------------------------------------------------------------------
(* Steps that touch neither main nor the stages below the executor.        *)
LEMMA AboveKeeps ==
  ASSUME IInv, Checks',
         UNCHANGED <<resultVars, mainVars, alertChan, astep>>
  PROVE  IInv'
  BY DEF IInv, Shape, MainOrder, RouterEnded, HandlersEnded, AlertsEnded,
     Panics, resultVars, mainVars

LEMMA SchedulerKeeps ==
  ASSUME IInv, PopDue \/ SchedulerStep PROVE IInv'
<1>1. UNCHANGED <<cstep, cjob, resultVars, mainVars, alertChan, astep>>
  BY DEF PopDue, SchedulerStep, LeaveBatch, Dispatch, Backpressure, serverVars, endVars,
     mainVars, deliveryVars, workerVars
<1> QED
  BY <1>1, AboveKeeps DEF IInv, Shape, Checks

LEMMA ExecKeeps ==
  ASSUME IInv, JobShape, NEW x \in ExecWorkers, ExecStep(x) PROVE IInv'
<1>1. UNCHANGED <<resultVars, mainVars, alertChan, astep>>
  BY DEF ExecStep, ReceiveJob, EndJobs, LoadMonitor, StartCheck, serverVars, endVars,
     mainVars, deliveryVars, workerVars
<1>2. Checks'
  <2> USE DEF IInv, Shape, Checks
  <2>1. CASE StartCheck(x)
    BY <2>1 DEF StartCheck, Job, JobShape, Stages
  <2>2. CASE ~StartCheck(x)
    BY <2>2 DEF ExecStep, ReceiveJob, EndJobs, LoadMonitor
  <2> QED
    BY <2>1, <2>2
<1> QED
  BY <1>1, <1>2, AboveKeeps

(* A result is sent on an open channel, so the router has not ended.       *)
LEMMA CheckKeeps ==
  ASSUME IInv, NEW c \in HttpSlots, CheckStep(c) PROVE IInv'
<1>1. CASE ExecuteHTTPCheck(c)
  <2>1. UNCHANGED <<resultVars, mainVars, alertChan, astep>>
    BY <1>1 DEF ExecuteHTTPCheck, serverVars, endVars,
     mainVars, deliveryVars, workerVars
  <2>2. Checks'
    BY <1>1 DEF ExecuteHTTPCheck, Job, IInv, Shape, Checks, Stages, Pools
  <2> QED
    BY <2>1, <2>2, AboveKeeps
<1>2. CASE SendResult(c)
  <2> USE <1>2 DEF SendResult
  <2>1. UNCHANGED <<routing, handlerChan, rstep, rjob, mainVars, alertChan, astep>>
    BY DEF serverVars, endVars,
     mainVars, deliveryVars, workerVars
  <2>2. /\ Checks'
        /\ resultChan' \in Seq(Outcomes)
    <3>1. [monitor |-> cjob[c], pool |-> cstep[c]] \in Outcomes
      BY DEF IInv, Shape, Checks, Pools, Outcomes
    <3> QED
      BY <3>1 DEF Job, IInv, Shape, Checks, Stages
  <2>3. Shape'
    BY <2>1, <2>2 DEF IInv, Shape, mainVars
  <2>4. RouterEnded'
    BY <2>1 DEF IInv, RouterEnded, mainVars
  <2> QED
    BY <2>1, <2>3, <2>4 DEF IInv, MainOrder, HandlersEnded, AlertsEnded, Panics,
       mainVars
<1> QED
  BY <1>1, <1>2 DEF CheckStep

(* While the router holds or finds a result it has closed nothing; it ends *)
(* with nothing in hand.                                                   *)
LEMMA RouterKeeps ==
  ASSUME IInv, RouterStep PROVE IInv'
<1>1. CASE RouterReceive
  <2> USE <1>1 DEF RouterReceive
  <2>1. UNCHANGED <<cstep, cjob, handlerChan, rstep, rjob, mainVars, alertChan, astep>>
    BY DEF jobVars, serverVars, endVars,
     mainVars, deliveryVars, workerVars
  <2>2. Head(resultChan) \in Outcomes /\ Tail(resultChan) \in Seq(Outcomes)
    BY DEF IInv, Shape
  <2>3. Shape'
    BY <2>1, <2>2 DEF IInv, Shape, Checks, mainVars
  <2>4. RouterEnded'
    BY <2>1 DEF IInv, RouterEnded, mainVars
  <2> QED
    BY <2>1, <2>3, <2>4 DEF IInv, MainOrder, HandlersEnded, AlertsEnded, Panics,
       mainVars
<1>2. CASE RouterSend
  <2> USE <1>2 DEF RouterSend
  <2>1. UNCHANGED <<cstep, cjob, resultChan, rstep, rjob, mainVars, alertChan, astep>>
    BY DEF jobVars, serverVars, endVars,
     mainVars, deliveryVars, workerVars
  <2>2. routing.pool \in Pools /\ routing.monitor \in Monitors
    BY DEF IInv, Shape, Outcomes
  <2>3. handlerChan' \in [Pools -> Seq(Monitors)]
    BY <2>2 DEF IInv, Shape
  <2>4. Shape'
    BY <2>1, <2>3 DEF IInv, Shape, Checks, mainVars
  <2>5. HandlersEnded'
    <3>1. \A p \in Pools : p \in closed => handlerChan'[p] = handlerChan[p]
      BY DEF IInv, Shape
    <3> QED
      BY <2>1, <3>1, PoolOfType DEF IInv, HandlersEnded, mainVars
  <2> QED
    BY <2>1, <2>4, <2>5 DEF IInv, MainOrder, RouterEnded, AlertsEnded, Panics,
       mainVars
<1>3. CASE RouterEnds
  <2> USE <1>3 DEF RouterEnds
  <2>1. UNCHANGED <<cstep, cjob, resultVars, main, panicked, alertChan, astep>>
    BY DEF jobVars, deliveryVars, workerVars
  <2>2. closed' \in SUBSET ChannelNames
    BY DEF IInv, Shape, ChannelNames, Pools
  <2>3. \A c \in {"results", "alerts"} : c \in closed' <=> c \in closed
    BY DEF Pools
  <2>4. Shape'
    BY <2>1, <2>2 DEF IInv, Shape, Checks, resultVars
  <2>5. MainOrder' /\ Panics'
    BY <2>1, <2>3 DEF IInv, MainOrder, Panics
  <2>6. RouterEnded'
    BY <2>1, <2>3 DEF IInv, RouterEnded, resultVars
  <2>7. HandlersEnded'
    BY <2>1 DEF IInv, HandlersEnded, resultVars
  <2>8. AlertsEnded'
    BY <2>1 DEF IInv, AlertsEnded
  <2> QED
    BY <2>4, <2>5, <2>6, <2>7, <2>8 DEF IInv
<1> QED
  BY <1>1, <1>2, <1>3 DEF RouterStep

-----------------------------------------------------------------------------
(* A worker that goes on has not ended, so main still waits for it.        *)
LEMMA ResultKeeps ==
  ASSUME IInv, NEW r \in ResultWorkers, ResultStep(r) PROVE IInv'
<1>1. UNCHANGED <<cstep, cjob, resultChan, routing, mainVars, astep>>
  BY DEF ResultStep, ReceiveResult, EndResults, Handle, SendAlert, Reschedule,
     jobVars, serverVars, endVars,
     mainVars, deliveryVars, workerVars
<1>2. RouterEnded' /\ MainOrder' /\ Panics'
  BY <1>1 DEF IInv, RouterEnded, MainOrder, Panics, mainVars
<1>3. rstep[r] # "ended"
  BY DEF ResultStep, ReceiveResult, EndResults, Handle, SendAlert, Reschedule
<1>4. main \notin {"handled", "awaitingAlerts", "returned"}
  BY <1>3 DEF IInv, HandlersEnded
<1>5. \A s \in ResultWorkers : s # r => rstep'[s] = rstep[s] /\ rjob'[s] = rjob[s]
  BY DEF ResultStep, ReceiveResult, EndResults, Handle, SendAlert, Reschedule,
     Job, IInv, Shape
<1>6. Shape'
  <2>1. CASE ReceiveResult(r)
    <3>1. /\ Head(handlerChan[PoolOf(r)]) \in Monitors
          /\ Tail(handlerChan[PoolOf(r)]) \in Seq(Monitors)
      BY <2>1, PoolOfType DEF ReceiveResult, IInv, Shape
    <3> QED
      BY <1>1, <2>1, <3>1, PoolOfType
      DEF ReceiveResult, Job, IInv, Shape, Checks, mainVars
  <2>2. CASE EndResults(r) \/ Handle(r) \/ Reschedule(r)
    BY <1>1, <2>2 DEF EndResults, Handle, Reschedule, Job, IInv, Shape, Checks, mainVars
  <2>3. CASE SendAlert(r)
    BY <1>1, <2>3 DEF SendAlert, Job, IInv, Shape, Checks, mainVars
  <2> QED
    BY <2>1, <2>2, <2>3 DEF ResultStep
<1>7. HandlersEnded'
  <2>1. CASE ReceiveResult(r)
    <3>1. rstep'[r] = "handling"
      BY <2>1 DEF ReceiveResult, Job, IInv, Shape
    <3>2. \A p \in Pools : handlerChan[p] = <<>> => handlerChan'[p] = <<>>
      BY <2>1, PoolOfType DEF ReceiveResult, IInv, Shape
    <3> QED
      BY <1>1, <1>4, <1>5, <3>1, <3>2, PoolOfType DEF IInv, HandlersEnded, mainVars
  <2>2. CASE EndResults(r)
    <3>1. handlerChan' = handlerChan
      BY <2>2 DEF EndResults
    <3> QED
      BY <1>1, <1>4, <1>5, <2>2, <3>1 DEF EndResults, IInv, HandlersEnded, mainVars
  <2>3. CASE Handle(r) \/ SendAlert(r) \/ Reschedule(r)
    <3>1. rstep'[r] # "ended" /\ handlerChan' = handlerChan
      BY <2>3 DEF Handle, SendAlert, Reschedule, Job, IInv, Shape
    <3> QED
      BY <1>1, <1>4, <1>5, <3>1 DEF IInv, HandlersEnded, mainVars
  <2> QED
    BY <2>1, <2>2, <2>3 DEF ResultStep
<1>8. AlertsEnded'
  <2>1. CASE SendAlert(r)
    BY <1>1, <2>1 DEF SendAlert, IInv, AlertsEnded, mainVars
  <2>2. CASE ~SendAlert(r)
    <3>1. alertChan' = alertChan
      BY <2>2 DEF ResultStep, ReceiveResult, EndResults, Handle, Reschedule,
         deliveryVars
    <3> QED
      BY <1>1, <3>1 DEF IInv, AlertsEnded, mainVars
  <2> QED
    BY <2>1, <2>2
<1> QED
  BY <1>2, <1>6, <1>7, <1>8 DEF IInv

-----------------------------------------------------------------------------
(* main closes a channel when nobody below it has ended.                   *)
LEMMA MainKeeps ==
  ASSUME IInv, MainStep PROVE IInv'
<1>1. UNCHANGED <<panicked, stageVars>>
  BY DEF MainStep, CloseJobs, ExecutorStop, CloseResults, WorkersClosingWait,
     CloseAlerts, WorkerClosingWait, MainGoes, stageVars, jobVars, deliveryVars,
     workerVars
<1>2. UNCHANGED <<cstep, cjob, resultChan, routing, handlerChan, rstep, rjob,
                  alertChan, astep>>
  BY <1>1 DEF stageVars, resultVars
<1>3. /\ main' \in MainSteps /\ closed' \in SUBSET ChannelNames
      /\ closed \subseteq closed'
      /\ \A p \in Pools : p \in closed' => p \in closed
  BY DEF MainStep, CloseJobs, ExecutorStop, CloseResults, WorkersClosingWait,
     CloseAlerts, WorkerClosingWait, MainGoes, MainSteps, ChannelNames, Pools,
     IInv, Shape
<1>4. Shape' /\ RouterEnded' /\ Panics'
  BY <1>1, <1>2, <1>3 DEF IInv, Shape, Checks, RouterEnded, Panics
<1>5. MainOrder'
  BY DEF MainStep, CloseJobs, ExecutorStop, CloseResults, WorkersClosingWait,
     CloseAlerts, WorkerClosingWait, MainGoes, IInv, MainOrder
<1>6. HandlersEnded'
  <2>1. main' \in {"handled", "awaitingAlerts", "returned"} =>
          \A r \in ResultWorkers : rstep[r] = "ended"
    BY DEF MainStep, CloseJobs, ExecutorStop, CloseResults, WorkersClosingWait,
       CloseAlerts, WorkerClosingWait, MainGoes, IInv, HandlersEnded
  <2> QED
    BY <1>2, <1>3, <2>1 DEF IInv, HandlersEnded
<1>7. AlertsEnded'
  <2>1. main' = "returned" => \A a \in AlertWorkers : astep[a] = "ended"
    BY DEF MainStep, CloseJobs, ExecutorStop, CloseResults, WorkersClosingWait,
       CloseAlerts, WorkerClosingWait, MainGoes
  <2> QED
    BY <1>2, <1>3, <2>1 DEF IInv, AlertsEnded
<1> QED
  BY <1>4, <1>5, <1>6, <1>7 DEF IInv

(* The router and the result workers send on open channels.                *)
LEMMA PanicKeeps ==
  ASSUME IInv, SendPanics PROVE IInv'
<1>1. UNCHANGED <<cstep, cjob, resultVars, main, closed, alertChan, astep>>
  BY DEF SendPanics, jobVars, deliveryVars, workerVars
<1>2. PICK c \in SentOn \cap closed : panicked' = c
  BY DEF SendPanics
<1>3. c \notin Pools
  BY <1>2 DEF SentOn, IInv, Shape, RouterEnded, NoOutcome, Outcomes, Pools
<1>4. c # "alerts"
  <2>1. SUFFICES ASSUME c = "alerts" PROVE FALSE
    OBVIOUS
  <2>2. main \in {"awaitingAlerts", "returned"}
    BY <1>2, <2>1 DEF IInv, MainOrder
  <2>3. \A r \in ResultWorkers : rstep[r] # "alerting"
    BY <2>2 DEF IInv, HandlersEnded
  <2>4. routing.pool # "alerts"
    BY DEF IInv, Shape, NoOutcome, Outcomes, Pools
  <2> QED
    BY <1>2, <2>1, <2>3, <2>4 DEF SentOn
<1>5. Panics'
  BY <1>2, <1>3, <1>4 DEF IInv, Shape, ChannelNames, Pools, Panics
<1> QED
  BY <1>1, <1>5 DEF IInv, Shape, Checks, MainOrder, RouterEnded, HandlersEnded,
     AlertsEnded, resultVars

(* Deliveries end only on an empty closed channel, and receive from a full *)
(* one only.                                                               *)
LEMMA DeliveryKeeps ==
  ASSUME IInv, Delivery PROVE IInv'
<1>1. UNCHANGED <<cstep, cjob, resultVars, mainVars>>
  BY DEF Delivery, ProcessVars, jobVars, serverVars, endVars,
     mainVars
<1>2. CASE \E a \in AlertWorkers : AlertStep(a)
  <2>1. PICK a \in AlertWorkers : AlertStep(a)
    BY <1>2
  <2>2. astep[a] # "ended"
    BY <2>1 DEF AlertStep, ReceiveAlert, EndAlerts, GetCached, GetConfig,
       SetCached, Send
  <2>3. main # "returned"
    BY <2>2 DEF IInv, AlertsEnded
  <2>4. /\ astep' \in [AlertWorkers -> AlertSteps]
        /\ \A b \in AlertWorkers : b # a => astep'[b] = astep[b]
    BY <2>1 DEF AlertStep, ReceiveAlert, EndAlerts, GetCached, GetConfig,
       SetCached, Send, TurnTo, IInv, Shape, AlertSteps
  <2>5. astep'[a] = "ended" => "alerts" \in closed /\ alertChan = <<>>
    BY <2>1 DEF AlertStep, ReceiveAlert, EndAlerts, GetCached, GetConfig,
       SetCached, Send, TurnTo, IInv, Shape
  <2>6. alertChan = <<>> => alertChan' = <<>>
    BY <2>1 DEF AlertStep, ReceiveAlert, EndAlerts, GetCached, GetConfig,
       SetCached, Send
  <2>7. AlertsEnded'
    BY <1>1, <2>3, <2>4, <2>5, <2>6 DEF IInv, AlertsEnded, mainVars
  <2> QED
    BY <1>1, <2>4, <2>7 DEF IInv, Shape, Checks, MainOrder, RouterEnded, HandlersEnded,
       Panics, resultVars, mainVars
<1>3. CASE ~\E a \in AlertWorkers : AlertStep(a)
  <2>1. UNCHANGED <<alertChan, astep>>
    BY <1>3 DEF Delivery, KeyAges, DeletePlugin, UpsertPlugin, ChangePlugin,
       workerVars
  <2> QED
    BY <1>1, <2>1, AboveKeeps DEF IInv, Shape, Checks
<1> QED
  BY <1>2, <1>3

LEMMA JobsInit == Init => JobShape
  BY DEF Init, JobShape

LEMMA JobsKept == JobShape /\ [Next]_vars => JobShape'
<1> SUFFICES ASSUME JobShape, [Next]_vars PROVE JobShape'
  OBVIOUS
<1> USE DEF JobShape
<1>1. CASE UNCHANGED <<jobChan, xstep, xjob>>
  BY <1>1
<1>2. ASSUME NEW m \in Monitors, Dispatch(m) PROVE JobShape'
  BY <1>2 DEF Dispatch
<1>3. ASSUME NEW x \in ExecWorkers, ExecStep(x) PROVE JobShape'
  <2>1. CASE ReceiveJob(x)
    <3>1. Head(jobChan) \in Monitors /\ Tail(jobChan) \in Seq(Monitors)
      BY <2>1 DEF ReceiveJob
    <3> QED
      BY <2>1, <3>1 DEF ReceiveJob, Job
  <2>2. CASE EndJobs(x)
    BY <2>2 DEF EndJobs, Job
  <2>3. CASE LoadMonitor(x)
    BY <2>3 DEF LoadMonitor, Job
  <2>4. CASE StartCheck(x)
    BY <2>4 DEF StartCheck, Job
  <2> QED
    BY <1>3, <2>1, <2>2, <2>3, <2>4 DEF ExecStep
<1>4. ASSUME ~ UNCHANGED <<jobChan, xstep, xjob>>
      PROVE  \/ \E m \in Monitors : Dispatch(m)
             \/ \E x \in ExecWorkers : ExecStep(x)
  <2>1. UNCHANGED vars \/ Cancel \/ MainStep \/ SendPanics \/ Delivery \/ RouterStep
          => UNCHANGED <<jobChan, xstep, xjob>>
    BY DEF vars, Cancel, MainStep, CloseJobs, ExecutorStop, CloseResults,
       WorkersClosingWait, CloseAlerts, WorkerClosingWait, MainGoes, SendPanics,
       Delivery, ProcessVars, RouterStep, RouterReceive, RouterSend, RouterEnds,
       jobVars
  <2>2. PopDue \/ LeaveBatch => UNCHANGED <<jobChan, xstep, xjob>>
    BY DEF PopDue, LeaveBatch
  <2>3. ASSUME NEW m \in Monitors, Backpressure(m) \/ Enable(m) \/ Disable(m)
        PROVE  UNCHANGED <<jobChan, xstep, xjob>>
    BY <2>3 DEF Backpressure, Enable, Disable
  <2>4. ASSUME NEW c \in HttpSlots, CheckStep(c)
        PROVE  UNCHANGED <<jobChan, xstep, xjob>>
    BY <2>4 DEF CheckStep, ExecuteHTTPCheck, SendResult
  <2>5. ASSUME NEW r \in ResultWorkers, ResultStep(r)
        PROVE  UNCHANGED <<jobChan, xstep, xjob>>
    BY <2>5 DEF ResultStep, ReceiveResult, EndResults, Handle, SendAlert,
       Reschedule, jobVars
  <2> QED
    BY <1>4, <2>1, <2>2, <2>3, <2>4, <2>5 DEF Next, SchedulerStep
<1> QED
  BY <1>1, <1>2, <1>3, <1>4

LEMMA NextKeeps == IInv /\ JobShape /\ [Next]_vars => IInv'
<1> SUFFICES ASSUME IInv, JobShape, [Next]_vars PROVE IInv'
  OBVIOUS
<1>1. CASE UNCHANGED vars \/ Cancel
  <2>1. UNCHANGED <<cstep, cjob, resultVars, mainVars, alertChan, astep>>
    BY <1>1 DEF Cancel, vars, jobVars, serverVars, endVars,
     mainVars, deliveryVars, workerVars
  <2> QED
    BY <2>1, AboveKeeps DEF IInv, Shape, Checks
<1>2. CASE PopDue \/ SchedulerStep
  BY <1>2, SchedulerKeeps
<1>3. CASE RouterStep
  BY <1>3, RouterKeeps
<1>4. CASE MainStep
  BY <1>4, MainKeeps
<1>5. CASE SendPanics
  BY <1>5, PanicKeeps
<1>6. CASE Delivery
  BY <1>6, DeliveryKeeps
<1>7. CASE \E x \in ExecWorkers : ExecStep(x)
  BY <1>7, ExecKeeps
<1>8. CASE \E c \in HttpSlots : CheckStep(c)
  BY <1>8, CheckKeeps
<1>9. CASE \E r \in ResultWorkers : ResultStep(r)
  BY <1>9, ResultKeeps
<1>10. ASSUME NEW m \in Monitors, Enable(m) \/ Disable(m) PROVE IInv'
  <2>1. UNCHANGED <<cstep, cjob, resultVars, mainVars, alertChan, astep>>
    BY <1>10 DEF Enable, Disable, endVars, mainVars, deliveryVars, workerVars
  <2> QED
    BY <2>1, AboveKeeps DEF IInv, Shape, Checks
<1> QED
  BY <1>1, <1>2, <1>3, <1>4, <1>5, <1>6, <1>7, <1>8, <1>9, <1>10 DEF Next

(* Shutdown handles every result that has come as far as resultChan and    *)
(* every alert, and only the sends on jobChan and resultChan can panic.    *)
THEOREM ShutdownDrainsHolds == Spec => []ShutdownDrains
<1>1. Init => IInv /\ JobShape
  BY InitHolds, JobsInit
<1>2. (IInv /\ JobShape) /\ [Next]_vars => (IInv /\ JobShape)'
  BY NextKeeps, JobsKept
<1>3. IInv => ShutdownDrains
  BY InvImplies
<1> QED
  BY <1>1, <1>2, <1>3, PTL DEF Spec

-----------------------------------------------------------------------------
(* The types.  Beyond what is said above they need that a worker at an     *)
(* alert has plugins left to ask.                                          *)
JobTypes ==
  /\ schedule \in SUBSET Monitors /\ batch \in SUBSET Monitors
  /\ Len(jobChan) <= JobCap
  /\ requests \in Nat /\ overlapped \in SUBSET Monitors

ResultsBounded ==
  /\ Len(resultChan) <= ResultCap
  /\ \A p \in Pools : Len(handlerChan[p]) <= HandlerCap
  /\ ctxDone \in BOOLEAN

DeliveryInv ==
  /\ DeliveryTypes /\ Len(alertChan) <= AlertCap
  /\ \A a \in AlertWorkers : astep[a] \notin {"idle", "ended"} => todo[a] # <<>>

TInv == JobShape /\ JobTypes /\ ResultsBounded /\ DeliveryInv

LEMMA TypesImplied == IInv /\ TInv => TypeOK
  BY DEF IInv, Shape, Checks, Panics, TInv, JobShape, JobTypes, ResultsBounded,
     DeliveryInv, TypeOK, ChannelNames

LEMMA TypesInit == Init => TInv
<1> SUFFICES ASSUME Init PROVE TInv
  OBVIOUS
<1>1. PICK o \in Openings : /\ schedule = o.scheduled /\ DeliveryInit(o.editable)
                           /\ requests = o.requests
  BY DEF Init
<1>2. /\ o.scheduled \in SUBSET Monitors /\ o.editable \in SUBSET Configurable
      /\ o.requests \in Nat
  BY PipelineAssumption
<1>3. JobTypes
  BY <1>1, <1>2, PipelineAssumption DEF Init, JobTypes
<1>4. JobShape
  BY JobsInit
<1>5. ResultsBounded
  <2>1. resultChan = <<>> /\ \A p \in Pools : handlerChan[p] = <<>>
    BY DEF Init
  <2>2. Len(<<>>) = 0 /\ 0 <= ResultCap /\ 0 <= HandlerCap
    BY PipelineAssumption
  <2> QED
    BY <2>1, <2>2 DEF Init, ResultsBounded
<1>6. DeliveryInv
  <2>1. cached \in [PluginSet -> [copy : Copies, age : {"young", "aged"}]]
    <3>1. {NoKey} \cup [copy : {"current", "outdated"}, age : {"young"}]
            \subseteq [copy : Copies, age : {"young", "aged"}]
      BY DEF NoKey, Copies
    <3> QED
      BY <1>1, <3>1 DEF DeliveryInit
  <2>2. /\ editable \in SUBSET Configurable /\ dbPlugins \in SUBSET editable
        /\ alertChan = <<>>
        /\ todo = [a \in AlertWorkers |-> <<>>]
        /\ astep = [a \in AlertWorkers |-> "idle"]
        /\ acopy = [a \in AlertWorkers |-> "none"]
    BY <1>1, <1>2 DEF DeliveryInit
  <2>3. /\ alertChan \in Seq(Monitors) /\ Len(alertChan) <= AlertCap
        /\ \A a \in AlertWorkers : todo[a] \in Seq(PluginSet)
    BY <2>2, AlertAssumption
  <2>4. /\ todo \in [AlertWorkers -> Seq(PluginSet)]
        /\ astep \in [AlertWorkers -> AlertSteps]
        /\ acopy \in [AlertWorkers -> Copies]
    BY <2>2, <2>3 DEF AlertSteps, Copies
  <2> QED
    BY <2>1, <2>2, <2>3, <2>4 DEF DeliveryInv, DeliveryTypes
<1> QED
  BY <1>3, <1>4, <1>5, <1>6 DEF TInv

-----------------------------------------------------------------------------
(* The jobs, up to the checks.                                             *)

LEMMA SchedulerTypes ==
  ASSUME TInv, JobShape', PopDue \/ SchedulerStep PROVE TInv'
<1>1. UNCHANGED <<resultVars, ctxDone, requests, overlapped, deliveryVars>>
  BY DEF PopDue, SchedulerStep, LeaveBatch, Dispatch, Backpressure, serverVars,
     endVars, requestVars
<1>2. JobTypes'
  <2> USE <1>1 DEF TInv, JobShape, JobTypes
  <2>1. CASE PopDue
    BY <2>1 DEF PopDue
  <2>2. CASE LeaveBatch
    BY <2>2 DEF LeaveBatch, Scheduled
  <2>3. ASSUME NEW m \in Monitors, Dispatch(m) PROVE JobTypes'
    <3>1. Len(jobChan') = Len(jobChan) + 1 /\ Len(jobChan) \in Nat
      BY <2>3 DEF Dispatch
    <3> QED
      BY <2>3, <3>1, PipelineAssumption DEF Dispatch
  <2>4. ASSUME NEW m \in Monitors, Backpressure(m) PROVE JobTypes'
    BY <2>4 DEF Backpressure
  <2> QED
    BY <2>1, <2>2, <2>3, <2>4 DEF SchedulerStep
<1> QED
  BY <1>1, <1>2 DEF TInv, ResultsBounded, DeliveryInv,
     DeliveryTypes, resultVars, deliveryVars, storedVars, workerVars

LEMMA ExecTypes ==
  ASSUME TInv, JobShape', NEW x \in ExecWorkers, ExecStep(x) PROVE TInv'
<1>1. UNCHANGED <<batch, resultVars, ctxDone, requests, overlapped, deliveryVars>>
  BY DEF ExecStep, ReceiveJob, EndJobs, LoadMonitor, StartCheck, serverVars,
     endVars, requestVars
<1>2. JobTypes'
  <2> USE <1>1 DEF TInv, JobShape, JobTypes
  <2>1. CASE ReceiveJob(x)
    <3>1. Len(jobChan') = Len(jobChan) - 1 /\ Len(jobChan) \in Nat
      BY <2>1 DEF ReceiveJob
    <3> QED
      BY <2>1, <3>1, PipelineAssumption DEF ReceiveJob
  <2>2. CASE EndJobs(x) \/ StartCheck(x)
    BY <2>2 DEF EndJobs, StartCheck
  <2>3. CASE LoadMonitor(x)
    BY <2>3 DEF LoadMonitor, Scheduled
  <2> QED
    BY <2>1, <2>2, <2>3 DEF ExecStep
<1> QED
  BY <1>1, <1>2 DEF TInv, ResultsBounded, DeliveryInv, DeliveryTypes,
     resultVars, deliveryVars, storedVars, workerVars

LEMMA CheckTypes ==
  ASSUME IInv, TInv, JobShape', NEW c \in HttpSlots, CheckStep(c) PROVE TInv'
<1>1. UNCHANGED <<schedule, batch, jobChan, handlerChan, ctxDone, requests,
                  overlapped, deliveryVars>>
  BY DEF CheckStep, ExecuteHTTPCheck, SendResult, resultVars, serverVars,
     endVars, requestVars
<1>2. Len(resultChan') <= ResultCap
  <2>1. CASE SendResult(c)
    <3>1. Len(resultChan') = Len(resultChan) + 1 /\ Len(resultChan) \in Nat
      BY <2>1 DEF SendResult, IInv, Shape
    <3> QED
      BY <2>1, <3>1, PipelineAssumption DEF SendResult
  <2>2. CASE ExecuteHTTPCheck(c)
    BY <2>2 DEF ExecuteHTTPCheck, TInv, ResultsBounded, resultVars
  <2> QED
    BY <2>1, <2>2 DEF CheckStep
<1> QED
  BY <1>1, <1>2 DEF TInv, JobTypes, ResultsBounded, DeliveryInv,
     DeliveryTypes, deliveryVars, storedVars, workerVars

-----------------------------------------------------------------------------
(* The results.                                                            *)

LEMMA RouterTypes ==
  ASSUME IInv, TInv, JobShape', RouterStep PROVE TInv'
<1>1. UNCHANGED <<jobVars, ctxDone, requests, overlapped, deliveryVars>>
  BY DEF RouterStep, RouterReceive, RouterSend, RouterEnds, serverVars,
     endVars, requestVars
<1>2. ResultsBounded'
  <2> USE DEF TInv, ResultsBounded
  <2>1. CASE RouterReceive
    <3>1. /\ Len(resultChan') = Len(resultChan) - 1 /\ Len(resultChan) \in Nat
          /\ handlerChan' = handlerChan
      BY <2>1 DEF RouterReceive, IInv, Shape
    <3> QED
      BY <1>1, <3>1, PipelineAssumption
  <2>2. CASE RouterSend
    <3>1. routing.pool \in Pools
      BY <2>2 DEF RouterSend, IInv, Shape, Outcomes
    <3>2. /\ handlerChan[routing.pool] \in Seq(Monitors)
          /\ routing.monitor \in Monitors
          /\ Len(handlerChan[routing.pool]) < HandlerCap
      BY <2>2, <3>1 DEF RouterSend, IInv, Shape, Outcomes
    <3>3. Len(Append(handlerChan[routing.pool], routing.monitor)) <= HandlerCap
      BY <3>2, PipelineAssumption
    <3>4. resultChan' = resultChan
      BY <2>2 DEF RouterSend
    <3>5. \A p \in Pools : handlerChan'[p] =
            IF p = routing.pool THEN Append(handlerChan[p], routing.monitor)
            ELSE handlerChan[p]
      BY <2>2 DEF RouterSend, IInv, Shape
    <3> QED
      BY <1>1, <3>3, <3>4, <3>5
  <2>3. CASE RouterEnds
    BY <1>1, <2>3 DEF RouterEnds, resultVars
  <2> QED
    BY <2>1, <2>2, <2>3 DEF RouterStep
<1> QED
  BY <1>1, <1>2 DEF TInv, JobTypes, DeliveryInv,
     DeliveryTypes, jobVars, deliveryVars, storedVars, workerVars

LEMMA ResultTypes ==
  ASSUME IInv, TInv, JobShape', NEW r \in ResultWorkers, ResultStep(r) PROVE TInv'
<1>1. UNCHANGED <<batch, jobChan, xstep, xjob, resultChan, ctxDone, requests,
                  overlapped, editable, storedVars, workerVars>>
  BY DEF ResultStep, ReceiveResult, EndResults, Handle, SendAlert, Reschedule,
     jobVars, serverVars,
     endVars, requestVars, deliveryVars
<1>2. schedule' \in SUBSET Monitors
  <2>1. CASE Reschedule(r)
    BY <2>1 DEF Reschedule, Scheduled, TInv, JobTypes, IInv, Shape
  <2>2. CASE ~Reschedule(r)
    BY <2>2 DEF ResultStep, ReceiveResult, EndResults, Handle, SendAlert,
       jobVars, TInv, JobTypes
  <2> QED
    BY <2>1, <2>2
<1>3. \A p \in Pools : Len(handlerChan'[p]) <= HandlerCap
  <2>1. CASE ReceiveResult(r)
    <3>1. /\ Len(Tail(handlerChan[PoolOf(r)])) = Len(handlerChan[PoolOf(r)]) - 1
          /\ Len(handlerChan[PoolOf(r)]) \in Nat
      BY <2>1, PoolOfType DEF ReceiveResult, IInv, Shape
    <3>2. Len(Tail(handlerChan[PoolOf(r)])) <= HandlerCap
      BY <3>1, PoolOfType, PipelineAssumption DEF TInv, ResultsBounded
    <3>3. \A p \in Pools : handlerChan'[p] =
            IF p = PoolOf(r) THEN Tail(handlerChan[p]) ELSE handlerChan[p]
      BY <2>1 DEF ReceiveResult, IInv, Shape
    <3> QED
      BY <3>2, <3>3 DEF TInv, ResultsBounded
  <2>2. CASE ~ReceiveResult(r)
    BY <2>2 DEF ResultStep, EndResults, Handle, SendAlert, Reschedule, TInv,
       ResultsBounded
  <2> QED
    BY <2>1, <2>2
<1>4. alertChan' \in Seq(Monitors) /\ Len(alertChan') <= AlertCap
  <2>1. CASE SendAlert(r)
    <3>1. rjob[r] \in Monitors /\ alertChan \in Seq(Monitors)
      BY <2>1 DEF SendAlert, IInv, Shape, TInv, DeliveryInv, DeliveryTypes
    <3>2. Len(Append(alertChan, rjob[r])) = Len(alertChan) + 1
      BY <3>1
    <3> QED
      BY <2>1, <3>1, <3>2, AlertAssumption DEF SendAlert
  <2>2. CASE ~SendAlert(r)
    BY <2>2 DEF ResultStep, ReceiveResult, EndResults, Handle, Reschedule,
       deliveryVars, TInv, DeliveryInv, DeliveryTypes
  <2> QED
    BY <2>1, <2>2
<1> QED
  BY <1>1, <1>2, <1>3, <1>4 DEF TInv, JobTypes,
     ResultsBounded, DeliveryInv, DeliveryTypes, storedVars, workerVars

-----------------------------------------------------------------------------
(* The deliveries.                                                         *)

LEMMA AskedOfType ==
  ASSUME NEW m \in Monitors
  PROVE  AskedOf(m) \in Seq(PluginSet)
<1>1. \A p \in PluginSet : Ask(m, p) \in Seq(PluginSet)
  BY DEF Ask
<1> QED
  BY <1>1 DEF AskedOf, PluginSet

(* A worker that turns to the plugins it has left, or to none.             *)
LEMMA TurnToTypes ==
  ASSUME DeliveryInv, NEW a \in AlertWorkers, NEW ps \in Seq(PluginSet),
         TurnTo(a, ps), UNCHANGED <<editable, storedVars>>,
         alertChan' \in Seq(Monitors), Len(alertChan') <= AlertCap
  PROVE  DeliveryInv'
<1>1. todo' \in [AlertWorkers -> Seq(PluginSet)]
  BY DEF TurnTo, DeliveryInv, DeliveryTypes
<1>2. astep' \in [AlertWorkers -> AlertSteps] /\ acopy' \in [AlertWorkers -> Copies]
  BY DEF TurnTo, DeliveryInv, DeliveryTypes, AlertSteps, Copies
<1>3. \A b \in AlertWorkers : astep'[b] \notin {"idle", "ended"} => todo'[b] # <<>>
  BY DEF TurnTo, DeliveryInv, DeliveryTypes
<1> QED
  BY <1>1, <1>2, <1>3 DEF DeliveryInv, DeliveryTypes, storedVars

(* A worker has plugins in hand while it reads their configuration.        *)
LEMMA AlertStepTypes ==
  ASSUME DeliveryInv, NEW a \in AlertWorkers, AlertStep(a) PROVE DeliveryInv'
<1>1. CASE ReceiveAlert(a)
  <2>1. /\ Head(alertChan) \in Monitors /\ alertChan' \in Seq(Monitors)
        /\ Len(alertChan') = Len(alertChan) - 1 /\ Len(alertChan) \in Nat
    BY <1>1 DEF ReceiveAlert, DeliveryInv, DeliveryTypes
  <2>2. Len(alertChan') <= AlertCap
    BY <2>1, AlertAssumption DEF DeliveryInv
  <2> QED
    BY <1>1, <2>1, <2>2, AskedOfType, TurnToTypes DEF ReceiveAlert
<1>2. CASE EndAlerts(a)
  BY <1>2 DEF EndAlerts, DeliveryInv, DeliveryTypes, AlertSteps, storedVars
<1>3. ASSUME astep[a] \notin {"idle", "ended"}
      PROVE  Head(todo[a]) \in PluginSet /\ Tail(todo[a]) \in Seq(PluginSet)
  BY <1>3 DEF DeliveryInv, DeliveryTypes
<1>4. CASE GetCached(a)
  <2>1. cached[Head(todo[a])].copy \in Copies
    BY <1>3, <1>4 DEF GetCached, DeliveryInv, DeliveryTypes
  <2> QED
    BY <1>4, <2>1 DEF GetCached, DeliveryInv, DeliveryTypes, AlertSteps, storedVars
<1>5. CASE GetConfig(a)
  <2>1. CASE TurnTo(a, Tail(todo[a]))
    <3>1. alertChan' \in Seq(Monitors) /\ Len(alertChan') <= AlertCap
      BY <1>5 DEF GetConfig, DeliveryInv, DeliveryTypes
    <3> QED
      BY <1>3, <1>5, <2>1, <3>1, TurnToTypes DEF GetConfig
  <2>2. CASE ~TurnTo(a, Tail(todo[a]))
    BY <1>5, <2>2 DEF GetConfig, DeliveryInv, DeliveryTypes, AlertSteps, Copies,
       storedVars
  <2> QED
    BY <2>1, <2>2
<1>6. CASE SetCached(a)
  <2>1. cached' \in [PluginSet -> [copy : Copies, age : {"young", "aged"}]]
    <3> DEFINE k == [copy |-> acopy[a], age |-> "young"]
    <3>1. k \in [copy : Copies, age : {"young", "aged"}]
      BY DEF DeliveryInv, DeliveryTypes
    <3>2. cached' = cached \/ cached' = [cached EXCEPT ![Head(todo[a])] = k]
      BY <1>6 DEF SetCached
    <3> HIDE DEF k
    <3> QED
      BY <3>1, <3>2 DEF DeliveryInv, DeliveryTypes
  <2>2. /\ astep' \in [AlertWorkers -> AlertSteps] /\ todo' = todo
        /\ \A b \in AlertWorkers :
             astep'[b] \notin {"idle", "ended"} => todo[b] # <<>>
    BY <1>6 DEF SetCached, DeliveryInv, DeliveryTypes, AlertSteps
  <2> QED
    BY <1>6, <2>1, <2>2 DEF SetCached, DeliveryInv, DeliveryTypes
<1>7. CASE Send(a)
  <2>1. alertChan' \in Seq(Monitors) /\ Len(alertChan') <= AlertCap
    BY <1>7 DEF Send, DeliveryInv, DeliveryTypes
  <2> QED
    BY <1>3, <1>7, <2>1, TurnToTypes DEF Send
<1> QED
  BY <1>1, <1>2, <1>4, <1>5, <1>6, <1>7 DEF AlertStep

(* Redis and the API change what is stored, and make copies outdated.      *)
LEMMA StoredTypes ==
  ASSUME DeliveryInv, NEW p \in PluginSet,
         \/ KeyAges(p) \/ DeletePlugin(p)
         \/ \E e \in BOOLEAN : UpsertPlugin(p, e)
  PROVE  DeliveryInv'
<1>1. \A c \in Copies : Outdated(c) \in Copies
  BY DEF Outdated, Copies
<1>2. CASE KeyAges(p)
  <2>1. cached' \in [PluginSet -> [copy : Copies, age : {"young", "aged"}]]
    BY <1>2 DEF KeyAges, DeliveryInv, DeliveryTypes, NoKey, Copies
  <2> QED
    BY <1>2, <2>1 DEF KeyAges, DeliveryInv, DeliveryTypes, workerVars
<1>3. CASE DeletePlugin(p) \/ \E e \in BOOLEAN : UpsertPlugin(p, e)
  <2>1. ChangePlugin(p) /\ dbPlugins' \in SUBSET editable
    BY <1>3 DEF DeletePlugin, UpsertPlugin, DeliveryInv, DeliveryTypes
  <2>2. cached' \in [PluginSet -> [copy : Copies, age : {"young", "aged"}]]
    BY <1>1, <2>1 DEF ChangePlugin, DeliveryInv, DeliveryTypes
  <2>3. acopy' \in [AlertWorkers -> Copies]
    BY <1>1, <2>1 DEF ChangePlugin, DeliveryInv, DeliveryTypes
  <2> QED
    BY <2>1, <2>2, <2>3 DEF ChangePlugin, DeliveryInv, DeliveryTypes
<1> QED
  BY <1>2, <1>3

LEMMA TypesKept == IInv /\ TInv /\ [Next]_vars => TInv'
<1> SUFFICES ASSUME IInv, TInv, [Next]_vars PROVE TInv'
  OBVIOUS
<1>0. JobShape'
  BY JobsKept DEF TInv
<1>1. CASE UNCHANGED vars \/ Cancel \/ MainStep \/ SendPanics
  <2>1. UNCHANGED <<jobVars, resultVars, requestVars, deliveryVars>> /\ ctxDone' \in BOOLEAN
    BY <1>1 DEF vars, Cancel, MainStep, CloseJobs, ExecutorStop, CloseResults,
       WorkersClosingWait, CloseAlerts, WorkerClosingWait, MainGoes, SendPanics,
       serverVars, endVars, TInv, ResultsBounded
  <2> QED
    BY <1>0, <2>1 DEF TInv, JobTypes, ResultsBounded, DeliveryInv, DeliveryTypes,
       jobVars, resultVars, requestVars, deliveryVars, storedVars, workerVars
<1>2. CASE PopDue \/ SchedulerStep
  BY <1>0, <1>2, SchedulerTypes
<1>3. CASE RouterStep
  BY <1>0, <1>3, RouterTypes
<1>4. CASE Delivery
  <2>1. DeliveryInv'
    BY <1>4, AlertStepTypes, StoredTypes DEF Delivery, TInv
  <2> QED
    BY <1>0, <1>4, <2>1 DEF Delivery, ProcessVars, TInv, JobTypes, ResultsBounded,
       jobVars, resultVars, serverVars, endVars, requestVars
<1>5. CASE \E x \in ExecWorkers : ExecStep(x)
  BY <1>0, <1>5, ExecTypes
<1>6. CASE \E c \in HttpSlots : CheckStep(c)
  BY <1>0, <1>6, CheckTypes
<1>7. CASE \E r \in ResultWorkers : ResultStep(r)
  BY <1>0, <1>7, ResultTypes
<1>8. ASSUME NEW m \in Monitors, Enable(m) \/ Disable(m) PROVE TInv'
  <2>1. UNCHANGED <<batch, jobChan, resultVars, ctxDone, deliveryVars>>
    BY <1>8 DEF Enable, Disable, endVars
  <2>2. JobTypes'
    BY <1>8, <2>1 DEF Enable, Disable, TInv, JobTypes
  <2> QED
    BY <1>0, <2>1, <2>2 DEF TInv, ResultsBounded, DeliveryInv, DeliveryTypes,
       resultVars, deliveryVars, storedVars, workerVars
<1> QED
  BY <1>1, <1>2, <1>3, <1>4, <1>5, <1>6, <1>7, <1>8 DEF Next

(* The channels never hold more than they were made for, and every         *)
(* goroutine holds monitors and plugins only.                              *)
THEOREM TypeCorrect == Spec => []TypeOK
<1>1. Init => IInv /\ TInv
  BY InitHolds, TypesInit
<1>2. (IInv /\ TInv) /\ [Next]_vars => (IInv /\ TInv)'
  BY NextKeeps, TypesKept DEF TInv
<1>3. IInv /\ TInv => TypeOK
  BY TypesImplied
<1> QED
  BY <1>1, <1>2, <1>3, PTL DEF Spec

-----------------------------------------------------------------------------
(* Custody, of one monitor k: it is in one place, be it named in Places or  *)
(* not, and there once.                                                     *)
InOne(k) == \A s, t : At(k, s) /\ At(k, t) => s = t

Custody(k) == InOne(k) /\ Once(k)

CustodyInv == \A k \in Monitors \ overlapped : Custody(k)

LEMMA CustodyImplied == CustodyInv => SingleCustody
  BY DEF CustodyInv, Custody, InOne, SingleCustody, OnePlace

LEMMA ElementsAppended ==
  ASSUME NEW S, NEW q \in Seq(S), NEW e \in S
  PROVE  /\ \A n \in Elements(Append(q, e)) : n \in Elements(q) \/ n = e
         /\ \A n : (OnceIn(q, n) /\ (n = e => e \notin Elements(q)))
                  => OnceIn(Append(q, e), n)
<1>1. /\ DOMAIN q = 1 .. Len(q) /\ Len(q) \in Nat
      /\ DOMAIN Append(q, e) = 1 .. (Len(q) + 1)
  OBVIOUS
<1>2. \A i \in 1 .. Len(q) : Append(q, e)[i] = q[i]
  OBVIOUS
<1>3. Append(q, e)[Len(q) + 1] = e
  OBVIOUS
<1> DEFINE a == Append(q, e)
<1>4. /\ DOMAIN a = 1 .. (Len(q) + 1) /\ a[Len(q) + 1] = e
      /\ \A i \in 1 .. Len(q) : a[i] = q[i]
  BY <1>1, <1>2, <1>3
<1> HIDE DEF a
<1>5. \A i \in DOMAIN a : (i \in DOMAIN q /\ a[i] = q[i]) \/ (i = Len(q) + 1 /\ a[i] = e)
  BY <1>1, <1>4
<1>6. \A i \in DOMAIN q : q[i] \in Elements(q)
  BY DEF Elements
<1>7. \A n \in Elements(a) : n \in Elements(q) \/ n = e
  BY <1>5, <1>6 DEF Elements
<1>8. ASSUME NEW n, OnceIn(q, n), n = e => e \notin Elements(q)
      PROVE  OnceIn(a, n)
  BY <1>5, <1>6, <1>8 DEF OnceIn
<1> QED
  BY <1>7, <1>8 DEF a

LEMMA ElementsTaken ==
  ASSUME NEW S, NEW q \in Seq(S), q # <<>>
  PROVE  /\ Head(q) \in Elements(q)
         /\ \A n \in Elements(Tail(q)) : n \in Elements(q)
         /\ \A n : OnceIn(q, n) =>
              OnceIn(Tail(q), n) /\ (n = Head(q) => n \notin Elements(Tail(q)))
<1>1. /\ DOMAIN q = 1 .. Len(q) /\ Len(q) \in Nat \ {0}
      /\ DOMAIN Tail(q) = 1 .. (Len(q) - 1)
      /\ Head(q) = q[1]
  OBVIOUS
<1>2. \A i \in 1 .. (Len(q) - 1) : Tail(q)[i] = q[i + 1]
  OBVIOUS
<1> DEFINE t == Tail(q)
<1>3. /\ DOMAIN t = 1 .. (Len(q) - 1)
      /\ \A i \in DOMAIN t : i + 1 \in DOMAIN q /\ i + 1 # 1 /\ t[i] = q[i + 1]
  BY <1>1, <1>2
<1> HIDE DEF t
<1>4. 1 \in DOMAIN q
  BY <1>1
<1>5. \A i, j \in DOMAIN t : i + 1 = j + 1 => i = j
  BY <1>1, <1>3
<1>6. \A n \in Elements(t) : n \in Elements(q)
  BY <1>3 DEF Elements
<1>7. ASSUME NEW n, OnceIn(q, n)
      PROVE  OnceIn(t, n) /\ (n = q[1] => n \notin Elements(t))
  <2>1. OnceIn(t, n)
    BY <1>3, <1>5, <1>7 DEF OnceIn
  <2>2. n = q[1] => n \notin Elements(t)
    BY <1>3, <1>4, <1>7 DEF OnceIn, Elements
  <2> QED
    BY <2>1, <2>2
<1> QED
  BY <1>1, <1>4, <1>6, <1>7 DEF t, Elements

LEMMA CustodyInit == Init => CustodyInv
<1> SUFFICES ASSUME Init, NEW k \in Monitors PROVE Custody(k)
  BY DEF CustodyInv
<1>1. Elements(jobChan) = {} /\ Elements(Named) = {}
  BY DEF Init, Elements, Named
<1>2. \A p \in Pools : Elements(handlerChan[p]) = {}
  BY DEF Init, Elements
<1>3. \A s : At(k, s) => s = "schedule"
  BY <1>1, <1>2, PipelineAssumption DEF Init, At, NoOutcome
<1>4. /\ OnceIn(jobChan, k) /\ OnceIn(Named, k)
      /\ \A p \in Pools : OnceIn(handlerChan[p], k)
  BY <1>1, <1>2 DEF OnceIn, Elements
<1>5. OnceIn(xjob, k) /\ OnceIn(cjob, k) /\ OnceIn(rjob, k)
  BY PipelineAssumption DEF Init, OnceIn
<1> QED
  BY <1>3, <1>4, <1>5 DEF Custody, InOne, Once

-----------------------------------------------------------------------------
LEMMA SchedulerCustody ==
  ASSUME TInv, NEW k \in Monitors, Custody(k), PopDue \/ SchedulerStep
  PROVE  Custody(k)'
<1>1. UNCHANGED <<xjob, cjob, resultVars>>
  BY DEF PopDue, SchedulerStep, LeaveBatch, Dispatch, Backpressure
<1>2. Once(k) /\ InOne(k)
  BY DEF Custody
<1>3. ASSUME jobChan' = jobChan PROVE Once(k)'
  BY <1>1, <1>2, <1>3 DEF Once, Named, resultVars
<1>4. CASE PopDue
  <2>1. k \in batch' => At(k, "schedule") /\ ~ At(k, "schedule")'
    BY <1>4 DEF PopDue, At, Pools
  <2>2. \A s : At(k, s)' => At(k, s) \/ (k \in batch' /\ s = "batch")
    BY <1>1, <1>4 DEF PopDue, At, Named, resultVars
  <2>3. InOne(k)'
    BY <1>2, <2>1, <2>2 DEF InOne
  <2> QED
    BY <1>3, <1>4, <2>3 DEF PopDue, Custody
<1>5. CASE LeaveBatch
  <2>1. k \in batch => At(k, "batch") /\ ~ At(k, "batch")'
    BY <1>5 DEF LeaveBatch, At, Pools
  <2>2. \A s : At(k, s)' => At(k, s) \/ (k \in batch /\ s = "schedule")
    BY <1>1, <1>5 DEF LeaveBatch, Scheduled, At, Named, resultVars
  <2>3. InOne(k)'
    BY <1>2, <2>1, <2>2 DEF InOne
  <2> QED
    BY <1>3, <1>5, <2>3 DEF LeaveBatch, Custody
<1>6. ASSUME NEW m \in Monitors, Dispatch(m) PROVE Custody(k)'
  <2>1. /\ m \in batch /\ batch' = batch \ {m} /\ schedule' = schedule
        /\ jobChan' = Append(jobChan, m) /\ jobChan \in Seq(Monitors)
    BY <1>6 DEF Dispatch, TInv, JobShape
  <2>2. k = m => m \notin Elements(jobChan)
    BY <1>2, <2>1 DEF InOne, At
  <2>3. /\ \A n \in Elements(jobChan') : n \in Elements(jobChan) \/ n = m
        /\ OnceIn(jobChan', k)
    <3>1. \A n : OnceIn(jobChan, n) /\ (n = m => m \notin Elements(jobChan))
                 => OnceIn(jobChan', n)
      BY <2>1, ElementsAppended
    <3> QED
      BY <1>2, <2>1, <2>2, <3>1, ElementsAppended DEF Once
  <2>4. Once(k)'
    BY <1>1, <1>2, <2>3 DEF Once, Named, resultVars
  <2>5. k = m => At(k, "batch") /\ ~ At(k, "batch")'
    BY <2>1 DEF At, Pools
  <2>6. \A s : At(k, s)' => At(k, s) \/ (k = m /\ s = "jobs")
    BY <1>1, <2>1, <2>3 DEF At, Named, resultVars
  <2>7. InOne(k)'
    BY <1>2, <2>5, <2>6 DEF InOne
  <2> QED
    BY <2>4, <2>7 DEF Custody
<1>7. ASSUME NEW m \in Monitors, Backpressure(m) PROVE Custody(k)'
  <2>1. /\ m \in batch /\ batch' = batch \ {m} /\ schedule' = schedule \cup {m}
        /\ jobChan' = jobChan
    BY <1>7 DEF Backpressure
  <2>2. k = m => At(k, "batch") /\ ~ At(k, "batch")'
    BY <2>1 DEF At, Pools
  <2>3. \A s : At(k, s)' => At(k, s) \/ (k = m /\ s = "schedule")
    BY <1>1, <2>1 DEF At, Named, resultVars
  <2>4. InOne(k)'
    BY <1>2, <2>2, <2>3 DEF InOne
  <2> QED
    BY <1>3, <2>1, <2>4 DEF Custody
<1> QED
  BY <1>4, <1>5, <1>6, <1>7 DEF SchedulerStep

LEMMA ExecCustody ==
  ASSUME IInv, TInv, NEW k \in Monitors, Custody(k), NEW x \in ExecWorkers,
         ExecStep(x)
  PROVE  Custody(k)'
<1>1. UNCHANGED <<batch, resultVars>>
  BY DEF ExecStep, ReceiveJob, EndJobs, LoadMonitor, StartCheck
<1>2. Once(k) /\ InOne(k)
  BY DEF Custody
<1>3. CASE ReceiveJob(x)
  <2>1. PICK m : /\ jobChan \in Seq(Monitors) /\ jobChan # <<>> /\ m = Head(jobChan)
                 /\ jobChan' = Tail(jobChan) /\ Job(xstep, xjob, x, "loading", m)
                 /\ UNCHANGED <<schedule, cjob>> /\ m \in Monitors
    BY <1>3 DEF ReceiveJob, TInv, JobShape
  <2>2. /\ m \in Elements(jobChan)
        /\ \A n \in Elements(jobChan') : n \in Elements(jobChan)
        /\ OnceIn(jobChan', k) /\ (k = m => k \notin Elements(jobChan'))
    BY <1>2, <2>1, ElementsTaken DEF Once
  <2>3. k = m => \A y \in ExecWorkers : xjob[y] # k
    BY <1>2, <2>1, <2>2 DEF InOne, At
  <2>4. /\ DOMAIN xjob = ExecWorkers /\ DOMAIN xjob' = ExecWorkers
        /\ \A y \in ExecWorkers : xjob'[y] = IF y = x THEN m ELSE xjob[y]
    BY <2>1 DEF Job, TInv, JobShape
  <2>5. OnceIn(xjob', k)
    BY <1>2, <2>3, <2>4 DEF OnceIn, Once
  <2>6. Once(k)'
    BY <1>1, <1>2, <2>1, <2>2, <2>5 DEF Once, Named, resultVars
  <2>7. k = m => At(k, "jobs") /\ ~ At(k, "jobs")'
    BY <2>2 DEF At, Pools
  <2>8. \A s : At(k, s)' => At(k, s) \/ (k = m /\ s = "executor")
    BY <1>1, <2>1, <2>2, <2>4 DEF At, Named, resultVars
  <2>9. InOne(k)'
    BY <1>2, <2>7, <2>8 DEF InOne
  <2> QED
    BY <2>6, <2>9 DEF Custody
<1>4. CASE EndJobs(x) \/ LoadMonitor(x)
  <2>0. PICK m : m = xjob[x]
    OBVIOUS
  <2>1. PICK next, n : /\ Job(xstep, xjob, x, next, n) /\ n \in {m, "none"}
                       /\ n = m => UNCHANGED schedule
    <3>1. CASE EndJobs(x)
      BY <3>1 DEF EndJobs
    <3>2. CASE LoadMonitor(x)
      <4>1. m # "none"
        BY <2>0, <3>2, PipelineAssumption DEF LoadMonitor, TInv, JobShape
      <4> QED
        BY <2>0, <3>2, <4>1 DEF LoadMonitor
    <3> QED
      BY <1>4, <3>1, <3>2
  <2>2. /\ DOMAIN xjob = ExecWorkers /\ DOMAIN xjob' = ExecWorkers
        /\ \A y \in ExecWorkers : xjob'[y] = IF y = x THEN n ELSE xjob[y]
    BY <2>1 DEF Job, TInv, JobShape
  <2>3. /\ UNCHANGED <<jobChan, cjob>>
        /\ schedule' \subseteq schedule \cup {m}
    BY <1>4, <2>0 DEF EndJobs, LoadMonitor, Scheduled
  <2>4. OnceIn(xjob', k)
    BY <1>2, <2>0, <2>1, <2>2, PipelineAssumption DEF OnceIn, Once
  <2>5. Once(k)'
    BY <1>1, <1>2, <2>3, <2>4 DEF Once, Named, resultVars
  <2>6. k # "none"
    BY PipelineAssumption
  <2>7. CASE n = m \/ k # m
    <3>1. \A s : At(k, s)' => At(k, s)
      BY <1>1, <2>0, <2>1, <2>2, <2>3, <2>6, <2>7 DEF At, Named, resultVars
    <3> QED
      BY <1>2, <2>5, <3>1 DEF Custody, InOne
  <2>8. CASE n # m /\ k = m
    <3>1. At(k, "executor") /\ ~ At(k, "executor")'
      BY <1>2, <2>0, <2>1, <2>2, <2>6, <2>8 DEF At, Once, OnceIn, Pools
    <3>2. \A s : At(k, s)' => At(k, s) \/ s = "schedule"
      BY <1>1, <2>0, <2>1, <2>2, <2>3, <2>6 DEF At, Named, resultVars
    <3>3. InOne(k)'
      BY <1>2, <3>1, <3>2 DEF InOne
    <3> QED
      BY <2>5, <3>3 DEF Custody
  <2> QED
    BY <2>7, <2>8
<1>5. CASE StartCheck(x)
  <2>1. PICK c, m :
          /\ c \in HttpSlots /\ cstep[c] = "idle" /\ m = xjob[x] /\ m \in Monitors
          /\ Job(cstep, cjob, c, "checking", m) /\ Job(xstep, xjob, x, "idle", "none")
    BY <1>5 DEF StartCheck, TInv, JobShape
  <2>2. UNCHANGED <<schedule, jobChan>>
    BY <1>5 DEF StartCheck
  <2>3. k # "none"
    BY PipelineAssumption
  <2>4. At(m, "executor")
    BY <2>1 DEF At
  <2>5. k = m => \A d \in HttpSlots : cjob[d] # k
    BY <1>2, <2>4 DEF InOne, At
  <2>6. /\ DOMAIN xjob = ExecWorkers /\ DOMAIN xjob' = ExecWorkers
        /\ DOMAIN cjob = HttpSlots /\ DOMAIN cjob' = HttpSlots
    BY <2>1 DEF Job, TInv, JobShape, IInv, Shape, Checks
  <2>7. /\ \A y \in ExecWorkers : xjob'[y] = IF y = x THEN "none" ELSE xjob[y]
        /\ \A d \in HttpSlots : cjob'[d] = IF d = c THEN m ELSE cjob[d]
    BY <2>1 DEF Job, TInv, JobShape, IInv, Shape, Checks
  <2>8. OnceIn(xjob', k) /\ OnceIn(cjob', k)
    BY <1>2, <2>3, <2>5, <2>6, <2>7 DEF OnceIn, Once
  <2>9. Once(k)'
    BY <1>1, <1>2, <2>2, <2>8 DEF Once, Named, resultVars
  <2>10. k = m => At(k, "executor") /\ ~ At(k, "executor")'
    BY <1>2, <2>1, <2>3, <2>4, <2>6, <2>7 DEF At, Once, OnceIn, Pools
  <2>11. \A s : At(k, s)' => At(k, s) \/ (k = m /\ s = "check")
    BY <1>1, <2>2, <2>3, <2>7 DEF At, Named, resultVars
  <2>12. InOne(k)'
    BY <1>2, <2>10, <2>11 DEF InOne
  <2> QED
    BY <2>9, <2>12 DEF Custody
<1> QED
  BY <1>3, <1>4, <1>5 DEF ExecStep

(* The names on the channel of results come and go with the results.        *)
LEMMA NamedType ==
  ASSUME resultChan \in Seq(Outcomes)
  PROVE  Named \in Seq(Monitors) /\ Len(Named) = Len(resultChan)
<1> DEFINE k == Len(resultChan)
<1>1. k \in Nat /\ \A i \in 1 .. k : resultChan[i].monitor \in Monitors
  <2>1. k \in Nat /\ \A i \in 1 .. k : resultChan[i] \in Outcomes
    OBVIOUS
  <2>2. \A o \in Outcomes : o.monitor \in Monitors
    BY DEF Outcomes
  <2> QED
    BY <2>1, <2>2
<1>2. Named = [i \in 1 .. k |-> resultChan[i].monitor]
  BY DEF Named
<1> HIDE DEF k
<1>3. Named \in [1 .. k -> Monitors]
  BY <1>1, <1>2
<1>4. Named \in Seq(Monitors) /\ Len(Named) = k
  BY <1>1, <1>3
<1> QED
  BY <1>4 DEF k

LEMMA NamedAppended ==
  ASSUME resultChan \in Seq(Outcomes), NEW o \in Outcomes,
         resultChan' = Append(resultChan, o)
  PROVE  Named \in Seq(Monitors) /\ Named' = Append(Named, o.monitor)
<1> DEFINE k == Len(resultChan) + 1
           b == Append(Named, o.monitor)
<1>1. Named \in Seq(Monitors) /\ Len(Named) = Len(resultChan) /\ o.monitor \in Monitors
  BY NamedType DEF Outcomes
<1>2. /\ DOMAIN resultChan' = 1 .. k
      /\ \A i \in 1 .. k :
           resultChan'[i] = IF i = k THEN o ELSE resultChan[i]
  OBVIOUS
<1>3. /\ b = [i \in 1 .. k |-> b[i]]
      /\ \A i \in 1 .. k : b[i] = IF i = k THEN o.monitor ELSE Named[i]
  BY <1>1
<1>4. \A i \in 1 .. k : i # k => Named[i] = resultChan[i].monitor
  BY DEF Named
<1>5. Named' = [i \in 1 .. k |-> resultChan'[i].monitor]
  BY <1>2 DEF Named
<1> HIDE DEF b, k
<1>6. Named' = b
  BY <1>2, <1>3, <1>4, <1>5
<1> QED
  BY <1>1, <1>6 DEF b

LEMMA NamedTaken ==
  ASSUME resultChan \in Seq(Outcomes), resultChan # <<>>,
         resultChan' = Tail(resultChan)
  PROVE  /\ Named \in Seq(Monitors) /\ Named # <<>> /\ Named' = Tail(Named)
         /\ Head(Named) = Head(resultChan).monitor
<1> DEFINE k == Len(resultChan) - 1
           b == Tail(Named)
<1>1. /\ Named \in Seq(Monitors) /\ Len(Named) = Len(resultChan)
      /\ Len(resultChan) \in Nat \ {0}
  BY NamedType
<1>2. Named # <<>> /\ Head(Named) = Named[1] /\ Head(resultChan) = resultChan[1]
  BY <1>1
<1>3. Named[1] = resultChan[1].monitor
  BY <1>1 DEF Named
<1>4. /\ DOMAIN resultChan' = 1 .. k
      /\ \A i \in 1 .. k : resultChan'[i] = resultChan[i + 1]
  OBVIOUS
<1>5. /\ b = [i \in 1 .. k |-> b[i]]
      /\ \A i \in 1 .. k : b[i] = Named[i + 1]
  <2>1. Len(Named) - 1 = k
    BY <1>1
  <2>2. b \in Seq(Monitors) /\ Len(b) = Len(Named) - 1
    BY <1>1, <1>2
  <2>3. \A i \in 1 .. (Len(Named) - 1) : b[i] = Named[i + 1]
    BY <1>1, <1>2
  <2> HIDE DEF b, k
  <2> QED
    BY <2>1, <2>2, <2>3
<1>6. \A i \in 1 .. k : Named[i + 1] = resultChan[i + 1].monitor
  BY DEF Named
<1>7. Named' = [i \in 1 .. k |-> resultChan'[i].monitor]
  BY <1>4 DEF Named
<1> HIDE DEF b, k
<1>8. Named' = b
  BY <1>4, <1>5, <1>6, <1>7
<1> QED
  BY <1>1, <1>2, <1>3, <1>8 DEF b

LEMMA CheckCustody ==
  ASSUME IInv, TInv, NEW k \in Monitors, Custody(k), NEW c \in HttpSlots,
         CheckStep(c)
  PROVE  Custody(k)'
<1>1. UNCHANGED <<schedule, batch, jobChan, xjob, routing, handlerChan, rjob>>
  BY DEF CheckStep, ExecuteHTTPCheck, SendResult, resultVars
<1>2. Once(k) /\ InOne(k)
  BY DEF Custody
<1>3. CASE ExecuteHTTPCheck(c)
  <2>1. resultChan' = resultChan /\ cjob' = cjob
    BY <1>3 DEF ExecuteHTTPCheck, Job, resultVars, IInv, Shape, Checks
  <2> QED
    BY <1>1, <1>2, <2>1 DEF Custody, InOne, At, Once, Named
<1>4. CASE SendResult(c)
  <2>1. PICK m, p : /\ m = cjob[c] /\ p = cstep[c] /\ m \in Monitors /\ p \in Pools
                    /\ [monitor |-> m, pool |-> p] \in Outcomes
                    /\ resultChan' = Append(resultChan, [monitor |-> m, pool |-> p])
                    /\ Job(cstep, cjob, c, "idle", "none")
    BY <1>4 DEF SendResult, Outcomes, Pools, IInv, Shape, Checks
  <2>2. Named \in Seq(Monitors) /\ Named' = Append(Named, m)
    BY <2>1, NamedAppended DEF IInv, Shape
  <2>3. k # "none"
    BY PipelineAssumption
  <2>4. At(m, "check")
    BY <2>1 DEF At
  <2>5. k = m => m \notin Elements(Named)
    BY <1>2, <2>4 DEF InOne, At
  <2>6. /\ \A n \in Elements(Named') : n \in Elements(Named) \/ n = m
        /\ OnceIn(Named', k)
    <3>1. \A n : OnceIn(Named, n) /\ (n = m => m \notin Elements(Named))
                 => OnceIn(Named', n)
      BY <2>1, <2>2, ElementsAppended
    <3> QED
      BY <1>2, <2>1, <2>2, <2>5, <3>1, ElementsAppended DEF Once
  <2>7. /\ DOMAIN cjob = HttpSlots /\ DOMAIN cjob' = HttpSlots
        /\ \A d \in HttpSlots : cjob'[d] = IF d = c THEN "none" ELSE cjob[d]
    BY <2>1 DEF Job, IInv, Shape, Checks
  <2>8. OnceIn(cjob', k)
    BY <1>2, <2>3, <2>7 DEF OnceIn, Once
  <2>9. Once(k)'
    BY <1>1, <1>2, <2>6, <2>8 DEF Once
  <2>10. k = m => At(k, "check") /\ ~ At(k, "check")'
    BY <1>2, <2>1, <2>3, <2>4, <2>7 DEF At, Once, OnceIn, Pools
  <2>11. \A s : At(k, s)' => At(k, s) \/ (k = m /\ s = "results")
    BY <1>1, <2>3, <2>6, <2>7 DEF At
  <2>12. InOne(k)'
    BY <1>2, <2>10, <2>11 DEF InOne
  <2> QED
    BY <2>9, <2>12 DEF Custody
<1> QED
  BY <1>3, <1>4 DEF CheckStep

-----------------------------------------------------------------------------
LEMMA RouterCustody ==
  ASSUME IInv, TInv, NEW k \in Monitors, Custody(k), RouterStep
  PROVE  Custody(k)'
<1>1. UNCHANGED <<schedule, batch, jobChan, xjob, cjob, rjob>>
  BY DEF RouterStep, RouterReceive, RouterSend, RouterEnds, jobVars, resultVars
<1>2. Once(k) /\ InOne(k)
  BY DEF Custody
<1>3. CASE RouterReceive
  <2>0. PICK m : m = Head(resultChan).monitor
    OBVIOUS
  <2>1. /\ Named \in Seq(Monitors) /\ Named # <<>> /\ Named' = Tail(Named)
        /\ Head(Named) = m
    BY <1>3, <2>0, NamedTaken DEF RouterReceive, IInv, Shape
  <2>2. routing'.monitor = m /\ handlerChan' = handlerChan
    BY <1>3, <2>0 DEF RouterReceive
  <2>3. /\ m \in Elements(Named) /\ (k = m => k \notin Elements(Named'))
        /\ \A n \in Elements(Named') : n \in Elements(Named)
        /\ OnceIn(Named', k)
    BY <1>2, <2>1, ElementsTaken DEF Once
  <2>4. Once(k)'
    BY <1>1, <1>2, <2>2, <2>3 DEF Once
  <2>5. k = m => At(k, "results") /\ ~ At(k, "results")'
    BY <2>3 DEF At, Pools
  <2>6. \A s : At(k, s)' => At(k, s) \/ (k = m /\ s = "router")
    BY <1>1, <2>2, <2>3 DEF At
  <2>7. InOne(k)'
    BY <1>2, <2>5, <2>6 DEF InOne
  <2> QED
    BY <2>4, <2>7 DEF Custody
<1>4. CASE RouterSend
  <2>0. PICK m, p : m = routing.monitor /\ p = routing.pool
    OBVIOUS
  <2>1. /\ m \in Monitors /\ p \in Pools /\ handlerChan[p] \in Seq(Monitors)
        /\ \A q \in Pools : handlerChan'[q] =
             IF q = p THEN Append(handlerChan[q], m) ELSE handlerChan[q]
    BY <1>4, <2>0 DEF RouterSend, IInv, Shape, Outcomes
  <2>2. Named' = Named /\ routing'.monitor = "none" /\ k # "none"
    BY <1>4, PipelineAssumption DEF RouterSend, Named, NoOutcome
  <2>3. k = m => m \notin Elements(handlerChan[p])
    BY <1>2, <2>0, <2>1 DEF InOne, At, Pools
  <2>4. /\ \A n \in Elements(handlerChan'[p]) :
             n \in Elements(handlerChan[p]) \/ n = m
        /\ OnceIn(handlerChan'[p], k)
    <3>1. \A n : OnceIn(handlerChan[p], n) /\ (n = m => m \notin Elements(handlerChan[p]))
                 => OnceIn(handlerChan'[p], n)
      BY <2>1, ElementsAppended
    <3> QED
      BY <1>2, <2>1, <2>3, <3>1, ElementsAppended DEF Once
  <2>5. \A q \in Pools : q # p => handlerChan'[q] = handlerChan[q]
    BY <2>1
  <2>6. Once(k)'
    BY <1>1, <1>2, <2>2, <2>4, <2>5 DEF Once
  <2>7. k = m => At(k, "router") /\ ~ At(k, "router")'
    BY <2>0, <2>1, <2>2 DEF At, Pools
  <2>8. \A s : At(k, s)' => At(k, s) \/ (k = m /\ s = p)
    BY <1>1, <2>2, <2>4, <2>5 DEF At
  <2>9. InOne(k)'
    BY <1>2, <2>7, <2>8 DEF InOne
  <2> QED
    BY <2>6, <2>9 DEF Custody
<1>5. CASE RouterEnds
  <2>1. UNCHANGED <<jobVars, resultVars>>
    BY <1>5 DEF RouterEnds
  <2> QED
    BY <2>1 DEF Custody, InOne, At, Once, Named, jobVars, resultVars
<1> QED
  BY <1>3, <1>4, <1>5 DEF RouterStep

LEMMA ResultCustody ==
  ASSUME IInv, TInv, NEW k \in Monitors, Custody(k), NEW r \in ResultWorkers,
         ResultStep(r)
  PROVE  Custody(k)'
<1>1. UNCHANGED <<batch, jobChan, xjob, cjob, resultChan, routing>>
  BY DEF ResultStep, ReceiveResult, EndResults, Handle, SendAlert, Reschedule,
     jobVars
<1>2. Once(k) /\ InOne(k) /\ k # "none"
  BY PipelineAssumption DEF Custody
<1>3. CASE ReceiveResult(r)
  <2>0. PICK m, p : p = PoolOf(r) /\ m = Head(handlerChan[p])
    OBVIOUS
  <2>1. /\ p \in Pools /\ handlerChan[p] \in Seq(Monitors) /\ handlerChan[p] # <<>>
        /\ \A q \in Pools : handlerChan'[q] =
             IF q = p THEN Tail(handlerChan[q]) ELSE handlerChan[q]
        /\ Job(rstep, rjob, r, "handling", m) /\ schedule' = schedule
    BY <1>3, <2>0, PoolOfType DEF ReceiveResult, jobVars, IInv, Shape
  <2>2. m \in Monitors
    BY <2>0, <2>1
  <2>3. /\ m \in Elements(handlerChan[p])
        /\ k = m => k \notin Elements(handlerChan'[p])
        /\ \A n \in Elements(handlerChan'[p]) : n \in Elements(handlerChan[p])
        /\ OnceIn(handlerChan'[p], k)
    BY <1>2, <2>0, <2>1, ElementsTaken DEF Once
  <2>4. \A q \in Pools : q # p => handlerChan'[q] = handlerChan[q]
    BY <2>1
  <2>5. k = m => \A q \in ResultWorkers : rjob[q] # k
    BY <1>2, <2>1, <2>2, <2>3 DEF InOne, At, Pools
  <2>6. /\ DOMAIN rjob = ResultWorkers /\ DOMAIN rjob' = ResultWorkers
        /\ \A q \in ResultWorkers : rjob'[q] = IF q = r THEN m ELSE rjob[q]
    BY <2>1 DEF Job, IInv, Shape
  <2>7. OnceIn(rjob', k)
    BY <1>2, <2>5, <2>6 DEF OnceIn, Once
  <2>8. Once(k)'
    BY <1>1, <1>2, <2>3, <2>4, <2>7 DEF Once, Named
  <2>9. k = m => At(k, p) /\ ~ At(k, p)'
    BY <2>1, <2>3 DEF At, Pools
  <2>10. \A s : At(k, s)' => At(k, s) \/ (k = m /\ s = "worker")
    BY <1>1, <2>1, <2>3, <2>4, <2>6 DEF At, Named
  <2>11. InOne(k)'
    BY <1>2, <2>9, <2>10 DEF InOne
  <2> QED
    BY <2>8, <2>11 DEF Custody
<1>4. CASE EndResults(r) \/ Handle(r) \/ SendAlert(r) \/ Reschedule(r)
  <2>0. PICK m : m = rjob[r]
    OBVIOUS
  <2>1. PICK next, n : /\ Job(rstep, rjob, r, next, n) /\ n \in {m, "none"}
                       /\ n = m => schedule' = schedule
    <3>1. CASE EndResults(r)
      BY <3>1 DEF EndResults, jobVars
    <3>2. CASE ~EndResults(r)
      <4>1. m # "none"
        BY <1>4, <2>0, <3>2, PipelineAssumption DEF Handle, SendAlert, Reschedule,
           IInv, Shape
      <4> QED
        BY <1>4, <2>0, <3>2, <4>1 DEF Handle, SendAlert, Reschedule, jobVars
    <3> QED
      BY <3>1, <3>2
  <2>2. /\ DOMAIN rjob = ResultWorkers /\ DOMAIN rjob' = ResultWorkers
        /\ \A q \in ResultWorkers : rjob'[q] = IF q = r THEN n ELSE rjob[q]
    BY <2>1 DEF Job, IInv, Shape
  <2>3. handlerChan' = handlerChan /\ schedule' \subseteq schedule \cup {m}
    BY <1>4, <2>0 DEF EndResults, Handle, SendAlert, Reschedule, Scheduled, jobVars
  <2>4. OnceIn(rjob', k)
    BY <1>2, <2>0, <2>1, <2>2 DEF OnceIn, Once
  <2>5. Once(k)'
    BY <1>1, <1>2, <2>3, <2>4 DEF Once, Named
  <2>6. CASE n = m \/ k # m
    <3>1. \A s : At(k, s)' => At(k, s)
      BY <1>1, <1>2, <2>0, <2>1, <2>2, <2>3, <2>6 DEF At, Named
    <3> QED
      BY <1>2, <2>5, <3>1 DEF Custody, InOne
  <2>7. CASE n # m /\ k = m
    <3>1. At(k, "worker") /\ ~ At(k, "worker")'
      BY <1>2, <2>0, <2>1, <2>2, <2>7 DEF At, Once, OnceIn, Pools
    <3>2. \A s : At(k, s)' => At(k, s) \/ s = "schedule"
      BY <1>1, <1>2, <2>0, <2>1, <2>2, <2>3 DEF At, Named
    <3>3. InOne(k)'
      BY <1>2, <3>1, <3>2 DEF InOne
    <3> QED
      BY <2>5, <3>3 DEF Custody
  <2> QED
    BY <2>6, <2>7
<1> QED
  BY <1>3, <1>4 DEF ResultStep

-----------------------------------------------------------------------------
(* A monitor is enabled: the schedule is its only place, if it has one, or  *)
(* it has become one of those that overlap.                                 *)
LEMMA RequestCustody ==
  ASSUME NEW k \in Monitors, Custody(k), NEW m \in Monitors,
         Enable(m) \/ Disable(m), k \notin overlapped'
  PROVE  Custody(k)'
<1>1. UNCHANGED <<batch, jobChan, xjob, cjob, resultVars>>
  BY DEF Enable, Disable
<1>2. Once(k) /\ InOne(k)
  BY DEF Custody
<1>3. Once(k)'
  BY <1>1, <1>2 DEF Once, Named, resultVars
<1>4. CASE Enable(m) /\ k = m
  <2>1. ~ Held(k)
    BY <1>4 DEF Enable
  <2>2. \A s : At(k, s) => s = "schedule"
    BY <2>1 DEF Held, At, Places, Pools
  <2>3. \A s : At(k, s)' => At(k, s) \/ s = "schedule"
    BY <1>1, <1>4 DEF Enable, At, Named, resultVars
  <2> QED
    BY <1>3, <2>2, <2>3 DEF Custody, InOne
<1>5. CASE Disable(m) \/ k # m
  <2>1. \A s : At(k, s)' => At(k, s)
    BY <1>1, <1>5 DEF Enable, Disable, At, Named, resultVars
  <2> QED
    BY <1>2, <1>3, <2>1 DEF Custody, InOne
<1> QED
  BY <1>4, <1>5

(* Only the API writes the history.                                         *)
LEMMA HistoryKept ==
  ASSUME [Next]_vars, \A m \in Monitors : ~Enable(m) /\ ~Disable(m)
  PROVE  overlapped' = overlapped
<1> USE DEF serverVars, requestVars
<1>1. CASE UNCHANGED vars \/ Cancel \/ MainStep \/ SendPanics \/ Delivery \/ RouterStep
  BY <1>1 DEF vars, Cancel, MainStep, CloseJobs, ExecutorStop, CloseResults,
     WorkersClosingWait, CloseAlerts, WorkerClosingWait, MainGoes, SendPanics,
     Delivery, ProcessVars, RouterStep, RouterReceive, RouterSend, RouterEnds
<1>2. CASE PopDue \/ SchedulerStep
  BY <1>2 DEF PopDue, SchedulerStep, LeaveBatch, Dispatch, Backpressure
<1>3. ASSUME NEW x \in ExecWorkers, ExecStep(x) PROVE overlapped' = overlapped
  BY <1>3 DEF ExecStep, ReceiveJob, EndJobs, LoadMonitor, StartCheck
<1>4. ASSUME NEW c \in HttpSlots, CheckStep(c) PROVE overlapped' = overlapped
  BY <1>4 DEF CheckStep, ExecuteHTTPCheck, SendResult
<1>5. ASSUME NEW r \in ResultWorkers, ResultStep(r) PROVE overlapped' = overlapped
  BY <1>5 DEF ResultStep, ReceiveResult, EndResults, Handle, SendAlert, Reschedule
<1> QED
  BY <1>1, <1>2, <1>3, <1>4, <1>5 DEF Next

LEMMA CustodyKept == IInv /\ TInv /\ CustodyInv /\ [Next]_vars => CustodyInv'
<1> SUFFICES ASSUME IInv, TInv, CustodyInv, [Next]_vars,
                    NEW k \in Monitors, k \notin overlapped'
             PROVE  Custody(k)'
  BY DEF CustodyInv
<1>0. overlapped \subseteq overlapped'
  <2>1. ASSUME NEW m \in Monitors, Enable(m) \/ Disable(m)
        PROVE  overlapped \subseteq overlapped'
    BY <2>1 DEF Enable, Disable
  <2>2. CASE \A m \in Monitors : ~Enable(m) /\ ~Disable(m)
    BY <2>2, HistoryKept
  <2> QED
    BY <2>1, <2>2
<1> Custody(k)
  BY <1>0 DEF CustodyInv
<1>1. CASE UNCHANGED vars \/ Cancel \/ MainStep \/ SendPanics \/ Delivery
  <2>1. UNCHANGED <<jobVars, resultVars>>
    BY <1>1 DEF vars, Cancel, MainStep, CloseJobs, ExecutorStop, CloseResults,
       WorkersClosingWait, CloseAlerts, WorkerClosingWait, MainGoes, SendPanics,
       Delivery, ProcessVars
  <2>2. /\ Once(k)' <=> Once(k)
        /\ \A s : At(k, s)' <=> At(k, s)
    BY <2>1 DEF At, Once, Named, jobVars, resultVars
  <2> QED
    BY <2>2 DEF Custody, InOne
<1>2. CASE PopDue \/ SchedulerStep
  BY <1>2, SchedulerCustody
<1>3. CASE RouterStep
  BY <1>3, RouterCustody
<1>4. CASE \E x \in ExecWorkers : ExecStep(x)
  BY <1>4, ExecCustody
<1>5. CASE \E c \in HttpSlots : CheckStep(c)
  BY <1>5, CheckCustody
<1>6. CASE \E r \in ResultWorkers : ResultStep(r)
  BY <1>6, ResultCustody
<1>7. CASE \E m \in Monitors : Enable(m) \/ Disable(m)
  BY <1>7, RequestCustody
<1> QED
  BY <1>1, <1>2, <1>3, <1>4, <1>5, <1>6, <1>7 DEF Next

(* Unless the API enables it while the pipeline holds it, a monitor is in   *)
(* one place, once: in the schedule, in the hands of one goroutine or in    *)
(* one channel.  Nothing the pipeline itself does, no backpressure, failed  *)
(* load or shutdown, and no disabling by the API has it checked twice at    *)
(* the same time or handled by two result workers.                          *)
THEOREM CustodyHolds == Spec => []SingleCustody
<1>1. Init => IInv /\ TInv /\ CustodyInv
  BY InitHolds, TypesInit, CustodyInit
<1>2. (IInv /\ TInv /\ CustodyInv) /\ [Next]_vars
        => (IInv /\ TInv /\ CustodyInv)'
  BY NextKeeps, TypesKept, CustodyKept DEF TInv
<1>3. CustodyInv => SingleCustody
  BY CustodyImplied
<1> QED
  BY <1>1, <1>2, <1>3, PTL DEF Spec
=============================================================================
