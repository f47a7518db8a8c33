------------------------------ MODULE Pipeline ------------------------------
(***************************************************************************)
(* The goroutines and channels of one server process of Sofon, from the    *)
(* scheduler to the alert workers, and their end: main is told to stop,    *)
(* the context is done, and Container.Shutdown closes the channels one     *)
(* after the other, waiting in between (internals/app, internals/modules). *)
(*                                                                         *)
(* This module is about who holds a monitor, who blocks and who waits for  *)
(* whom.  What the scheduler decides about time is in Scheduler, and what  *)
(* a handler writes, command by command, in ResultProcessor: here a pop    *)
(* takes any monitors, and a handler is decided in one step.  While the    *)
(* context is not done, Redis accepts every ZADD; afterwards none is sent. *)
(* Of the API's requests there is what they do to the schedule, at any     *)
(* moment; what else they write, and when they are refused, is in          *)
(* MonitorService.                                                         *)
(***************************************************************************)
EXTENDS AlertDelivery

CONSTANTS
  ExecWorkers,       \* goroutines running startWork
  HttpSlots,         \* the slots of httpSem, executor.http_sem_count of them
  SuccessWorkers, FailureWorkers,       \* goroutines of the result processor
  JobCap, ResultCap, HandlerCap,        \* channel sizes
  Openings           \* the monitors scheduled, the plugins edited, and how
                     \* many requests change what is scheduled

ASSUME PipelineAssumption ==
  /\ SuccessWorkers \cap FailureWorkers = {}
  /\ {} \notin {SuccessWorkers, FailureWorkers, AlertWorkers}
  /\ {JobCap, ResultCap, HandlerCap} \subseteq Nat \ {0}
  /\ "none" \notin Monitors
  /\ Openings \subseteq [scheduled : SUBSET Monitors,
                         editable : SUBSET Configurable, requests : Nat]

VARIABLES
  schedule,      \* members of monitor:schedule
  batch,         \* popped by doWork and not yet dealt with
  jobChan,
  xstep, xjob,   \* each executor worker: what it does, and for whom
  cstep, cjob,   \* each slot of httpSem: what its goroutine does, for whom
  resultChan,    \* monitors checked, and with what outcome
  routing,       \* the result in the hands of the router
  handlerChan,   \* successChan and failureChan
  rstep, rjob,   \* each result worker: what it does, and for whom
  ctxDone,       \* SIGINT or SIGTERM has come
  main,          \* what main is at
  panicked,      \* the closed channel somebody sent on
  requests,      \* requests to come
  overlapped     \* history: monitors enabled while a goroutine or a channel
                 \* held them

jobVars == <<schedule, batch, jobChan, xstep, xjob, cstep, cjob>>
resultVars == <<resultChan, routing, handlerChan, rstep, rjob>>
endVars == <<ctxDone, main, closed, panicked>>
requestVars == <<requests, overlapped>>
serverVars == <<endVars, requestVars>>
vars == <<jobVars, resultVars, serverVars, deliveryVars>>

Pools == {"success", "failure"}
ResultWorkers == SuccessWorkers \cup FailureWorkers
PoolOf(r) == IF r \in SuccessWorkers THEN "success" ELSE "failure"

Outcomes == [monitor : Monitors, pool : Pools]
NoOutcome == [monitor |-> "none", pool |-> "none"]
Stages == {"idle", "checking", "success", "failure"}
ChannelNames == {"jobs", "results", "success", "failure", "alerts"}
MainSteps == {"serving", "stopping", "stopped", "awaitingResults", "handled",
              "awaitingAlerts", "returned"}

Elements(s) == {s[i] : i \in DOMAIN s}

TypeOK ==
  /\ DeliveryTypes /\ Len(alertChan) <= AlertCap
  /\ schedule \in SUBSET Monitors /\ batch \in SUBSET Monitors
  /\ jobChan \in Seq(Monitors) /\ Len(jobChan) <= JobCap
  /\ xstep \in [ExecWorkers -> {"idle", "loading", "acquiring", "ended"}]
  /\ xjob \in [ExecWorkers -> Monitors \cup {"none"}]
  /\ cstep \in [HttpSlots -> Stages]
  /\ cjob \in [HttpSlots -> Monitors \cup {"none"}]
  /\ resultChan \in Seq(Outcomes) /\ Len(resultChan) <= ResultCap
  /\ routing \in Outcomes \cup {NoOutcome}
  /\ handlerChan \in [Pools -> Seq(Monitors)]
  /\ \A p \in Pools : Len(handlerChan[p]) <= HandlerCap
  /\ rstep \in [ResultWorkers ->
                  {"idle", "handling", "alerting", "rescheduling", "ended"}]
  /\ rjob \in [ResultWorkers -> Monitors \cup {"none"}]
  /\ ctxDone \in BOOLEAN /\ main \in MainSteps
  /\ closed \in SUBSET ChannelNames /\ panicked \in ChannelNames \cup {"none"}
  /\ requests \in Nat /\ overlapped \in SUBSET Monitors

Init ==
  /\ \E o \in Openings :
       schedule = o.scheduled /\ DeliveryInit(o.editable) /\ requests = o.requests
  /\ overlapped = {}
  /\ batch = {} /\ jobChan = <<>>
  /\ xstep = [x \in ExecWorkers |-> "idle"]
  /\ xjob = [x \in ExecWorkers |-> "none"]
  /\ cstep = [c \in HttpSlots |-> "idle"]
  /\ cjob = [c \in HttpSlots |-> "none"]
  /\ resultChan = <<>> /\ routing = NoOutcome
  /\ handlerChan = [p \in Pools |-> <<>>]
  /\ rstep = [r \in ResultWorkers |-> "idle"]
  /\ rjob = [r \in ResultWorkers |-> "none"]
  /\ ctxDone = FALSE /\ main = "serving" /\ closed = {} /\ panicked = "none"

-----------------------------------------------------------------------------
(* Helpers.                                                                *)

(* The channels that somebody has come to send on.                         *)
SentOn ==
  {"jobs" : m \in batch}
    \cup {"results" : c \in {s \in HttpSlots : cstep[s] \in Pools}}
    \cup {routing.pool}
    \cup {"alerts" : r \in {w \in ResultWorkers : rstep[w] = "alerting"}}

(* A send on a closed channel panics and ends the process.                 *)
SendPanics ==
  /\ \E c \in SentOn \cap closed : panicked' = c
  /\ UNCHANGED <<jobVars, resultVars, ctxDone, main, closed, requestVars,
                 deliveryVars>>

(* ZADD with the context of the process.                                   *)
Scheduled(ms) == IF ctxDone THEN schedule ELSE schedule \cup ms

Job(step, job, w, next, m) ==
  /\ step' = [step EXCEPT ![w] = next]
  /\ job' = [job EXCEPT ![w] = m]

-----------------------------------------------------------------------------
(* The scheduler: doWork.                                                  *)

PopDue ==
  /\ ~ctxDone /\ batch = {}
  /\ batch' \in (SUBSET schedule) \ {{}}
  /\ schedule' = schedule \ batch'
  /\ UNCHANGED <<jobChan, xstep, xjob, cstep, cjob, resultVars, serverVars,
                 deliveryVars>>

(* Mutant: what was dispatched stays among what is left.                   *)
DispatchKeeping(m) ==
  /\ m \in batch /\ "jobs" \notin closed /\ Len(jobChan) < JobCap
  /\ jobChan' = Append(jobChan, m) /\ batch' = batch
  /\ UNCHANGED <<schedule, xstep, xjob, cstep, cjob, resultVars, serverVars,
                 deliveryVars>>

Dispatch(m) ==
  /\ m \in batch /\ "jobs" \notin closed /\ Len(jobChan) < JobCap
  /\ jobChan' = Append(jobChan, m) /\ batch' = batch \ {m}
  /\ UNCHANGED <<schedule, xstep, xjob, cstep, cjob, resultVars, serverVars,
                 deliveryVars>>

(* Neither the channel nor the context is ready: 2 seconds later.          *)
Backpressure(m) ==
  /\ m \in batch /\ ~ctxDone /\ Len(jobChan) = JobCap
  /\ batch' = batch \ {m} /\ schedule' = schedule \cup {m}
  /\ UNCHANGED <<jobChan, xstep, xjob, cstep, cjob, resultVars, serverVars,
                 deliveryVars>>

(* What is left is put back, being in the future, or given up, the context *)
(* being done.                                                             *)
LeaveBatch ==
  /\ batch # {} /\ batch' = {} /\ schedule' = Scheduled(batch)
  /\ UNCHANGED <<jobChan, xstep, xjob, cstep, cjob, resultVars, serverVars,
                 deliveryVars>>

-----------------------------------------------------------------------------
(* The executor: startWork and its goroutines.                             *)

ReceiveJob(x) ==
  /\ xstep[x] = "idle" /\ jobChan # <<>>
  /\ Job(xstep, xjob, x, "loading", Head(jobChan))
  /\ jobChan' = Tail(jobChan)
  /\ UNCHANGED <<schedule, batch, cstep, cjob, resultVars, serverVars, deliveryVars>>

EndJobs(x) ==
  /\ xstep[x] = "idle" /\ jobChan = <<>> /\ "jobs" \in closed
  /\ Job(xstep, xjob, x, "ended", "none")
  /\ UNCHANGED <<schedule, batch, jobChan, cstep, cjob, resultVars, serverVars,
                 deliveryVars>>

(* LoadMonitor: found and enabled; gone or disabled; or failed.            *)
LoadMonitor(x) ==
  /\ xstep[x] = "loading"
  /\ \/ /\ ~ctxDone
        /\ Job(xstep, xjob, x, "acquiring", xjob[x]) /\ UNCHANGED schedule
     \/ /\ ~ctxDone
        /\ Job(xstep, xjob, x, "idle", "none") /\ UNCHANGED schedule
     \/ /\ Job(xstep, xjob, x, "idle", "none")
        /\ schedule' = Scheduled({xjob[x]})
  /\ UNCHANGED <<batch, jobChan, cstep, cjob, resultVars, serverVars, deliveryVars>>

(* A slot of httpSem, httpWg.Add(1), and the goroutine.                    *)
StartCheck(x) ==
  /\ xstep[x] = "acquiring"
  /\ \E c \in HttpSlots :
       cstep[c] = "idle" /\ Job(cstep, cjob, c, "checking", xjob[x])
  /\ Job(xstep, xjob, x, "idle", "none")
  /\ UNCHANGED <<schedule, batch, jobChan, resultVars, serverVars, deliveryVars>>

(* The answer, the error, or the timeout.                                  *)
ExecuteHTTPCheck(c) ==
  /\ cstep[c] = "checking"
  /\ \E p \in Pools : Job(cstep, cjob, c, p, cjob[c])
  /\ UNCHANGED <<schedule, batch, jobChan, xstep, xjob, resultVars, serverVars,
                 deliveryVars>>

(* The result is sent, the slot released, httpWg.Done().                   *)
SendResult(c) ==
  /\ cstep[c] \in Pools
  /\ "results" \notin closed /\ Len(resultChan) < ResultCap
  /\ resultChan' = Append(resultChan, [monitor |-> cjob[c], pool |-> cstep[c]])
  /\ Job(cstep, cjob, c, "idle", "none")
  /\ UNCHANGED <<schedule, batch, jobChan, xstep, xjob, routing, handlerChan,
                 rstep, rjob, serverVars, deliveryVars>>

-----------------------------------------------------------------------------
(* The result processor: the router and its workers.                       *)

RouterReceive ==
  /\ routing = NoOutcome /\ resultChan # <<>>
  /\ routing' = Head(resultChan) /\ resultChan' = Tail(resultChan)
  /\ UNCHANGED <<jobVars, handlerChan, rstep, rjob, serverVars, deliveryVars>>

(* Mutant: one more than the channel holds.                                *)
RouterSendBeyond ==
  LET p == routing.pool IN
  /\ routing # NoOutcome /\ p \notin closed /\ Len(handlerChan[p]) <= HandlerCap
  /\ handlerChan' = [handlerChan EXCEPT ![p] = Append(@, routing.monitor)]
  /\ routing' = NoOutcome
  /\ UNCHANGED <<jobVars, resultChan, rstep, rjob, serverVars, deliveryVars>>

RouterSend ==
  LET p == routing.pool IN
  /\ routing # NoOutcome /\ p \notin closed /\ Len(handlerChan[p]) < HandlerCap
  /\ handlerChan' = [handlerChan EXCEPT ![p] = Append(@, routing.monitor)]
  /\ routing' = NoOutcome
  /\ UNCHANGED <<jobVars, resultChan, rstep, rjob, serverVars, deliveryVars>>

(* Mutant: successChan stays open.                                         *)
RouterEndsHalf ==
  /\ routing = NoOutcome /\ resultChan = <<>> /\ "results" \in closed
  /\ "failure" \notin closed
  /\ closed' = closed \cup {"failure"}
  /\ UNCHANGED <<jobVars, resultVars, ctxDone, main, panicked, requestVars,
                 deliveryVars>>

RouterEnds ==
  /\ routing = NoOutcome /\ resultChan = <<>> /\ "results" \in closed
  /\ ~ Pools \subseteq closed
  /\ closed' = closed \cup Pools
  /\ UNCHANGED <<jobVars, resultVars, ctxDone, main, panicked, requestVars,
                 deliveryVars>>

ReceiveResult(r) ==
  LET p == PoolOf(r) IN
  /\ rstep[r] = "idle" /\ handlerChan[p] # <<>>
  /\ Job(rstep, rjob, r, "handling", Head(handlerChan[p]))
  /\ handlerChan' = [handlerChan EXCEPT ![p] = Tail(@)]
  /\ UNCHANGED <<jobVars, resultChan, routing, serverVars, deliveryVars>>

EndResults(r) ==
  /\ rstep[r] = "idle" /\ handlerChan[PoolOf(r)] = <<>> /\ PoolOf(r) \in closed
  /\ Job(rstep, rjob, r, "ended", "none")
  /\ UNCHANGED <<jobVars, resultChan, routing, handlerChan, serverVars,
                 deliveryVars>>

(* What the handler decides: an alert, which no handler reaches once its   *)
(* commands fail; nothing but the next check; or, for a failure that is    *)
(* terminal, nothing.                                                      *)
Handle(r) ==
  /\ rstep[r] = "handling"
  /\ \/ ~ctxDone /\ Job(rstep, rjob, r, "alerting", rjob[r])
     \/ Job(rstep, rjob, r, "rescheduling", rjob[r])
     \/ r \in FailureWorkers /\ Job(rstep, rjob, r, "idle", "none")
  /\ UNCHANGED <<jobVars, resultChan, routing, handlerChan, serverVars,
                 deliveryVars>>

SendAlert(r) ==
  /\ rstep[r] = "alerting" /\ "alerts" \notin closed /\ Len(alertChan) < AlertCap
  /\ alertChan' = Append(alertChan, rjob[r])
  /\ Job(rstep, rjob, r, "rescheduling", rjob[r])
  /\ UNCHANGED <<jobVars, resultChan, routing, handlerChan, serverVars, editable,
                 storedVars, workerVars>>

(* The deferred ScheduleMonitor.                                           *)
Reschedule(r) ==
  /\ rstep[r] = "rescheduling"
  /\ schedule' = Scheduled({rjob[r]})
  /\ Job(rstep, rjob, r, "idle", "none")
  /\ UNCHANGED <<batch, jobChan, xstep, xjob, cstep, cjob, resultChan, routing,
                 handlerChan, serverVars, deliveryVars>>

-----------------------------------------------------------------------------
(* Where a monitor is, between its schedule and the worker that puts it    *)
(* back.  An alert that waits to be sent is not the monitor.               *)
Places == {"schedule", "batch", "jobs", "executor", "check", "results",
           "router", "success", "failure", "worker"}

(* The monitors of the results that wait.                                  *)
Named == [i \in DOMAIN resultChan |-> resultChan[i].monitor]

At(m, s) ==
  \/ s = "schedule" /\ m \in schedule
  \/ s = "batch" /\ m \in batch
  \/ s = "jobs" /\ m \in Elements(jobChan)
  \/ s = "executor" /\ \E x \in ExecWorkers : xjob[x] = m
  \/ s = "check" /\ \E c \in HttpSlots : cjob[c] = m
  \/ s = "results" /\ m \in Elements(Named)
  \/ s = "router" /\ routing.monitor = m
  \/ s \in Pools /\ m \in Elements(handlerChan[s])
  \/ s = "worker" /\ \E r \in ResultWorkers : rjob[r] = m

Held(m) == \E s \in Places \ {"schedule"} : At(m, s)

-----------------------------------------------------------------------------
(* The API.                                                                *)

(* A monitor is created or enabled: ZADD, whoever holds it.  The request   *)
(* has its own context.                                                    *)
Enable(m) ==
  /\ main = "serving" /\ requests > 0 /\ requests' = requests - 1
  /\ schedule' = schedule \cup {m}
  /\ overlapped' = IF Held(m) THEN overlapped \cup {m} ELSE overlapped
  /\ UNCHANGED <<batch, jobChan, xstep, xjob, cstep, cjob, resultVars, endVars,
                 deliveryVars>>

(* A monitor is disabled or deleted: ZREM, whoever holds it.               *)
Disable(m) ==
  /\ main = "serving" /\ requests > 0 /\ requests' = requests - 1
  /\ schedule' = schedule \ {m}
  /\ UNCHANGED <<batch, jobChan, xstep, xjob, cstep, cjob, resultVars, endVars,
                 overlapped, deliveryVars>>

-----------------------------------------------------------------------------
(* The signal, and main.                                                   *)

Cancel ==
  /\ ~ctxDone /\ ctxDone' = TRUE
  /\ UNCHANGED <<jobVars, resultVars, main, closed, panicked, requestVars,
                 deliveryVars>>

MainGoes(from, to, c) ==
  /\ main = from /\ main' = to /\ closed' = closed \cup c
  /\ UNCHANGED <<jobVars, resultVars, ctxDone, panicked, requestVars, deliveryVars>>

(* The server is shut down, close(c.JobChan).                              *)
CloseJobs == ctxDone /\ MainGoes("serving", "stopping", {"jobs"})

(* c.Executor.Stop(): httpWg.Wait().                                       *)
ExecutorStop ==
  /\ \A c \in HttpSlots : cstep[c] = "idle"
  /\ MainGoes("stopping", "stopped", {})
CloseResults == MainGoes("stopped", "awaitingResults", {"results"})

(* Mutant: no wait for the workers.                                        *)
WorkersClosingUnawaited == MainGoes("awaitingResults", "handled", {})

(* c.ResultPro.WorkersClosingWait().                                       *)
WorkersClosingWait ==
  /\ \A r \in ResultWorkers : rstep[r] = "ended"
  /\ MainGoes("awaitingResults", "handled", {})
CloseAlerts == MainGoes("handled", "awaitingAlerts", {"alerts"})

(* c.AlertSvc.WorkerClosingWait(), and the end of the process.             *)
WorkerClosingWait ==
  /\ \A a \in AlertWorkers : astep[a] = "ended"
  /\ MainGoes("awaitingAlerts", "returned", {})

-----------------------------------------------------------------------------
SchedulerStep == LeaveBatch \/ \E m \in Monitors : Dispatch(m) \/ Backpressure(m)
ExecStep(x) == ReceiveJob(x) \/ EndJobs(x) \/ LoadMonitor(x) \/ StartCheck(x)
CheckStep(c) == ExecuteHTTPCheck(c) \/ SendResult(c)
RouterStep == RouterReceive \/ RouterSend \/ RouterEnds
ResultStep(r) ==
  ReceiveResult(r) \/ EndResults(r) \/ Handle(r) \/ SendAlert(r) \/ Reschedule(r)
MainStep ==
  \/ CloseJobs \/ ExecutorStop \/ CloseResults \/ WorkersClosingWait
  \/ CloseAlerts \/ WorkerClosingWait

ProcessVars == <<jobVars, resultVars, serverVars>>
Delivery ==
  /\ \/ \E a \in AlertWorkers : AlertStep(a)
     \/ \E p \in PluginSet : KeyAges(p)
     \/ /\ main = "serving"
        /\ \E p \in PluginSet :
             DeletePlugin(p) \/ \E e \in BOOLEAN : UpsertPlugin(p, e)
  /\ UNCHANGED ProcessVars

Ended == panicked # "none" \/ main = "returned"

Next ==
  \/ /\ ~Ended
     /\ \/ PopDue \/ SchedulerStep \/ RouterStep \/ MainStep \/ Cancel
        \/ SendPanics
        \/ Delivery
        \/ \E m \in Monitors : Enable(m) \/ Disable(m)
        \/ \E x \in ExecWorkers : ExecStep(x)
        \/ \E c \in HttpSlots : CheckStep(c)
        \/ \E r \in ResultWorkers : ResultStep(r)
  \/ Ended /\ UNCHANGED vars

Spec == Init /\ [][Next]_vars

(* Every goroutine goes on when it can, and a key of Redis grows old.      *)
(* Nobody has to stop the process, to change a plugin or a monitor, or to  *)
(* pop anything.                                                           *)
Fairness ==
  /\ WF_vars(~Ended /\ SchedulerStep) /\ WF_vars(~Ended /\ RouterStep)
  /\ WF_vars(~Ended /\ MainStep) /\ WF_vars(~Ended /\ SendPanics)
  /\ \A x \in ExecWorkers : WF_vars(~Ended /\ ExecStep(x))
  /\ \A c \in HttpSlots : WF_vars(~Ended /\ CheckStep(c))
  /\ \A r \in ResultWorkers : WF_vars(~Ended /\ ResultStep(r))
  /\ \A a \in AlertWorkers :
       WF_vars(~Ended /\ AlertStep(a) /\ UNCHANGED ProcessVars)
  /\ \A p \in PluginSet : WF_vars(~Ended /\ KeyAges(p) /\ UNCHANGED ProcessVars)

FairSpec == Spec /\ Fairness

-----------------------------------------------------------------------------
(* Single custody.  A monitor is in one place and there once: in the       *)
(* schedule, in a batch, in one channel, or in the hands of one goroutine; *)
(* so it is never checked twice at a time, and no two workers handle it.   *)
(* The one exception is what the API can do and the pipeline cannot:       *)
(* enabling a monitor while a goroutine or a channel still holds it, which *)
(* puts it into the schedule a second time (monitor/service.go:136-138).   *)
OnceIn(q, m) == \A i, j \in DOMAIN q : q[i] = m /\ q[j] = m => i = j

OnePlace(m) == \A s \in Places : At(m, s) => \A t \in Places \ {s} : ~At(m, t)

Once(m) ==
  /\ OnceIn(jobChan, m) /\ OnceIn(xjob, m) /\ OnceIn(cjob, m)
  /\ OnceIn(Named, m) /\ \A p \in Pools : OnceIn(handlerChan[p], m)
  /\ OnceIn(rjob, m)

SingleCustody == \A m \in Monitors \ overlapped : OnePlace(m) /\ Once(m)

(* Shutdown drops nothing that has come as far as resultChan: when main    *)
(* returns, every result was handled and every alert was delivered or      *)
(* given up by its worker.  Sends on a closed channel happen on jobChan    *)
(* and resultChan only, where Shutdown waits neither for the scheduler nor *)
(* for the executor's workers (container.go:111-127).                      *)
ShutdownDrains ==
  /\ panicked \in {"none", "jobs", "results"}
  /\ main = "returned" =>
       /\ resultChan = <<>> /\ routing = NoOutcome
       /\ \A p \in Pools : handlerChan[p] = <<>>
       /\ \A r \in ResultWorkers : rstep[r] = "ended"
       /\ alertChan = <<>> /\ \A a \in AlertWorkers : astep[a] = "ended"

(* Whenever the process is told to stop, with channels full and workers    *)
(* blocked wherever, it comes to an end: Shutdown returns or a send        *)
(* panics.  No cycle of waits goes through the five channels, the          *)
(* semaphore and the three wait groups.                                    *)
ShutdownEnds == ctxDone ~> Ended

(* A change of a plugin takes effect: when it is not changed again, alerts *)
(* are no longer sent with an outdated copy in the end, though they keep   *)
(* coming and a worker may write its copy after the change.                *)
Edited == \E p \in PluginSet :
            DeletePlugin(p) \/ \E e \in BOOLEAN : UpsertPlugin(p, e)
ChangeTakesEffect ==
  <>[][~Edited]_vars =>
    <>[](Ended \/ \A a \in AlertWorkers :
                    astep[a] = "send" => acopy[a] = "current")
=============================================================================
