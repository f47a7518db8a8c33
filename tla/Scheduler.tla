------------------------------ MODULE Scheduler ------------------------------
(***************************************************************************)
(* The scheduler of Sofon (internals/modules/scheduler): at every tick it  *)
(* pops a batch of monitors off the Redis sorted set monitor:schedule,     *)
(* lowest score first, hands those that are due to the executor, moves     *)
(* those it finds no room for 2 seconds on, and puts the rest back.  From  *)
(* the pop to the end of the batch the popped monitors exist in the memory *)
(* of one goroutine and nowhere else.                                      *)
(*                                                                         *)
(* Time is relative: score[m] is the number of time units until m is due,  *)
(* negative when m is late, and TimePasses moves every score down by one.  *)
(* The executor and the result processor appear as the actions that take a *)
(* monitor from the job channel and schedule it again.                     *)
(***************************************************************************)
EXTENDS Integers, Sequences, FiniteSets

CONSTANTS
  Monitors,
  BatchSize,            \* scheduler.batch_size
  TickInterval,         \* scheduler.interval
  Backoff,              \* the 2 seconds of backpressure
  Delays,               \* after what time a checked monitor is due again
  JobCap,               \* app.job_channel_size
  DrainsBetweenTicks,   \* does the executor free a slot between two ticks?
  MaxDelay,             \* bound: of Delays and Backoff
  MaxLate,              \* bound: a monitor later than this counts as this late
  MaxWork,              \* bound: the time units one doWork takes
  MaxFaults,            \* bound: failed commands
  MaxCrashes,           \* bound: crashes of the server process
  MaxShutdowns          \* bound: signals that cancel the server's context

ASSUME SchedulerAssumption ==
  /\ {BatchSize, TickInterval, JobCap} \subseteq Nat \ {0}
  /\ {Backoff, MaxDelay, MaxLate, MaxWork} \subseteq Nat
  /\ {MaxFaults, MaxCrashes, MaxShutdowns} \subseteq Nat
  /\ Delays \subseteq 0 .. MaxDelay /\ Delays # {} /\ Backoff <= MaxDelay
  /\ MaxWork < MaxLate
  /\ DrainsBetweenTicks \in BOOLEAN

VARIABLES
  \* Redis
  schedule,     \* members of monitor:schedule
  score,        \* time until a scheduled or popped monitor is due
  \* the scheduler goroutine
  spc,          \* waiting for a tick, popping, dispatching or stopped
  batch,        \* popped and not yet dealt with
  tickedAt,     \* the now of doWork, relative to the present
  untilTick, ticked,      \* the ticker, whose channel holds one tick
  \* the rest of the server process
  jobChan,
  checking,     \* held by the executor or the result processor
  cancelled,    \* the context of the server is done
  \* the world
  inactive,     \* monitors that nobody asks to be checked
  faults, crashes, shutdowns

goroutineVars == <<spc, tickedAt, untilTick, ticked>>
worldVars == <<inactive, faults, crashes, shutdowns>>
vars == <<schedule, score, batch, goroutineVars, jobChan, checking, cancelled,
          worldVars>>

Scores == -MaxLate .. MaxDelay

TypeOK ==
  /\ schedule \in SUBSET Monitors /\ score \in [Monitors -> Scores]
  /\ spc \in {"waiting", "popping", "dispatching", "stopped"}
  /\ batch \in SUBSET Monitors
  /\ tickedAt \in -MaxWork .. 0
  /\ untilTick \in 1 .. TickInterval /\ ticked \in BOOLEAN
  /\ jobChan \in Seq(Monitors) /\ Len(jobChan) <= JobCap
  /\ checking \in SUBSET Monitors /\ inactive \in SUBSET Monitors
  /\ cancelled \in BOOLEAN
  /\ faults \in Nat /\ crashes \in Nat /\ shutdowns \in Nat

(* The server starts on whatever schedule an earlier run has left.           *)
Init ==
  /\ schedule \in SUBSET Monitors /\ inactive = Monitors \ schedule
  /\ score \in [Monitors -> Scores]
  /\ \A m \in inactive : score[m] = 0
  /\ spc = "waiting" /\ batch = {} /\ tickedAt = 0
  /\ untilTick = TickInterval /\ ticked = FALSE
  /\ jobChan = <<>> /\ checking = {} /\ cancelled = FALSE
  /\ faults = 0 /\ crashes = 0 /\ shutdowns = 0

-----------------------------------------------------------------------------
(* Time.                                                                     *)

Working == spc \in {"popping", "dispatching"}
Later(s) == IF s = -MaxLate THEN s ELSE s - 1

(* A waiting scheduler takes its tick, and a working one ends doWork, before *)
(* the time that MaxWork leaves it is over.                                   *)
TimePasses ==
  /\ spc = "waiting" => ~ticked
  /\ Working => tickedAt > -MaxWork
  /\ DrainsBetweenTicks /\ untilTick = 1 => Len(jobChan) < JobCap
  /\ score' = [m \in Monitors |-> IF m \in schedule \cup batch
                                  THEN Later(score[m]) ELSE score[m]]
  /\ tickedAt' = IF Working THEN tickedAt - 1 ELSE tickedAt
  /\ untilTick' = IF untilTick = 1 THEN TickInterval ELSE untilTick - 1
  /\ ticked' = (ticked \/ untilTick = 1)
  /\ UNCHANGED <<schedule, spc, batch, jobChan, checking, cancelled, worldVars>>

-----------------------------------------------------------------------------
(* The executor, the result processor and the API.                           *)

(* A command fails: for a reason of its own, or as its context is done.      *)
Works == ~cancelled /\ UNCHANGED faults
Fails == IF cancelled THEN UNCHANGED faults
         ELSE faults < MaxFaults /\ faults' = faults + 1

(* A worker of the executor receives a job.                                  *)
Receive ==
  /\ jobChan # <<>>
  /\ checking' = checking \cup {Head(jobChan)} /\ jobChan' = Tail(jobChan)
  /\ UNCHANGED <<schedule, score, batch, goroutineVars, cancelled, worldVars>>

ZAdd(m, s) ==
  schedule' = schedule \cup {m} /\ score' = [score EXCEPT ![m] = s]
ZAddFails(m) ==
  UNCHANGED schedule /\ score' = [score EXCEPT ![m] = 0]

(* ScheduleMonitor, when the result of a check has been dealt with.          *)
ScheduleMonitor(m) ==
  /\ m \in checking /\ checking' = checking \ {m}
  /\ \/ Works /\ \E d \in Delays : ZAdd(m, d)
     \/ Fails /\ (ZAddFails(m) \/ \E d \in Delays : ZAdd(m, d))
  /\ UNCHANGED <<batch, goroutineVars, jobChan, cancelled, inactive, crashes,
                 shutdowns>>

(* The monitor is deleted or disabled, or its failure is terminal.           *)
GiveUp(m) ==
  /\ m \in checking /\ checking' = checking \ {m}
  /\ inactive' = inactive \cup {m}
  /\ UNCHANGED <<schedule, score, batch, goroutineVars, jobChan, cancelled,
                 faults, crashes, shutdowns>>

(* The API creates or enables a monitor that nothing holds, and schedules it. *)
Activate(m) ==
  /\ m \in inactive /\ inactive' = inactive \ {m}
  /\ \/ Works /\ \E d \in Delays : ZAdd(m, d)
     \/ Fails /\ (ZAddFails(m) \/ \E d \in Delays : ZAdd(m, d))
  /\ UNCHANGED <<batch, goroutineVars, jobChan, checking, cancelled, crashes,
                 shutdowns>>

(* SIGTERM or SIGINT cancels the context of main.                            *)
Cancel ==
  /\ ~cancelled /\ cancelled' = TRUE
  /\ shutdowns < MaxShutdowns /\ shutdowns' = shutdowns + 1
  /\ UNCHANGED <<schedule, score, batch, goroutineVars, jobChan, checking,
                 inactive, faults, crashes>>

(* The process ends, by itself or after a signal, and is started again.      *)
Restart ==
  /\ \/ cancelled /\ UNCHANGED crashes
     \/ ~cancelled /\ crashes < MaxCrashes /\ crashes' = crashes + 1
  /\ spc' = "waiting" /\ batch' = {} /\ tickedAt' = 0
  /\ untilTick' = TickInterval /\ ticked' = FALSE
  /\ jobChan' = <<>> /\ checking' = {} /\ cancelled' = FALSE
  /\ score' = [m \in Monitors |-> IF m \in schedule THEN score[m] ELSE 0]
  /\ UNCHANGED <<schedule, inactive, faults, shutdowns>>

-----------------------------------------------------------------------------
(* The scheduler goroutine.                                                  *)

Tick ==
  /\ spc = "waiting" /\ ticked
  /\ spc' = "popping" /\ ticked' = FALSE /\ tickedAt' = 0
  /\ UNCHANGED <<schedule, score, batch, untilTick, jobChan, checking,
                 cancelled, worldVars>>

Stop ==
  /\ spc = "waiting" /\ cancelled /\ spc' = "stopped"
  /\ UNCHANGED <<schedule, score, batch, tickedAt, untilTick, ticked, jobChan,
                 checking, cancelled, worldVars>>

(* What ZPOPMIN may return: the n lowest members, or all when there are less. *)
Lowest(n, members) ==
  {popped \in SUBSET members :
     /\ IF Cardinality(members) <= n THEN popped = members
        ELSE Cardinality(popped) = n
     /\ \A m \in popped, k \in members \ popped : score[m] <= score[k]}

(* Mutant: the batch size is taken for 1.                                    *)
PopDueOne ==
  /\ spc = "popping"
  /\ \E popped \in Lowest(1, schedule) :
       /\ Works /\ schedule' = schedule \ popped
       /\ batch' = popped
       /\ spc' = IF popped = {} THEN "waiting" ELSE "dispatching"
       /\ UNCHANGED <<score, tickedAt>>
  /\ UNCHANGED <<untilTick, ticked, jobChan, checking, cancelled, inactive,
                 crashes, shutdowns>>

(* ZPOPMIN, at most three times.  An attempt whose answer is lost after the   *)
(* server has popped takes its batch with it.                                *)
PopDue ==
  /\ spc = "popping"
  /\ \/ \E popped \in Lowest(BatchSize, schedule) :
          /\ Works
          /\ schedule' = schedule \ popped /\ batch' = popped
          /\ spc' = IF popped = {} THEN "waiting" ELSE "dispatching"
          /\ UNCHANGED score
     \/ \E n \in 1 .. 2 : \E gone \in Lowest(n * BatchSize, schedule) :
        \E popped \in Lowest(BatchSize, schedule \ gone) :
          /\ ~cancelled /\ Fails
          /\ schedule' = (schedule \ gone) \ popped /\ batch' = popped
          /\ spc' = IF popped = {} THEN "waiting" ELSE "dispatching"
          /\ score' = [m \in Monitors |-> IF m \in gone THEN 0 ELSE score[m]]
     \/ \E n \in 0 .. 3 : \E gone \in Lowest(n * BatchSize, schedule) :
          /\ Fails /\ schedule' = schedule \ gone
          /\ spc' = "waiting" /\ UNCHANGED batch
          /\ score' = [m \in Monitors |-> IF m \in gone THEN 0 ELSE score[m]]
  /\ UNCHANGED <<tickedAt, untilTick, ticked, jobChan, checking, cancelled,
                 inactive, crashes, shutdowns>>

(* The loop of doWork: the next item, and whether its time had come at the    *)
(* tick.                                                                     *)
IsNext(m) == m \in batch /\ \A k \in batch : score[m] <= score[k]
Due(m) == score[m] <= tickedAt

(* Mutant: a send that does not ask for room.                                *)
DispatchUnbounded(m) ==
  /\ spc = "dispatching" /\ IsNext(m) /\ Due(m)
  /\ jobChan' = Append(jobChan, m) /\ batch' = batch \ {m}
  /\ score' = [score EXCEPT ![m] = 0]
  /\ UNCHANGED <<schedule, goroutineVars, checking, cancelled, worldVars>>

(* Mutant: the scheduler itself schedules the next check.                    *)
DispatchScheduling(m) ==
  /\ spc = "dispatching" /\ IsNext(m) /\ Due(m) /\ Len(jobChan) < JobCap
  /\ jobChan' = Append(jobChan, m) /\ batch' = batch \ {m}
  /\ \E d \in Delays : ZAdd(m, d)
  /\ UNCHANGED <<goroutineVars, checking, cancelled, worldVars>>

Dispatch(m) ==
  /\ spc = "dispatching" /\ IsNext(m) /\ Due(m) /\ Len(jobChan) < JobCap
  /\ jobChan' = Append(jobChan, m) /\ batch' = batch \ {m}
  /\ score' = [score EXCEPT ![m] = 0]
  /\ UNCHANGED <<schedule, goroutineVars, checking, cancelled, worldVars>>

(* Mutant: a backoff longer than the interval between two ticks.             *)
BackpressureLong(m) ==
  /\ spc = "dispatching" /\ IsNext(m) /\ Due(m) /\ Len(jobChan) = JobCap
  /\ Works /\ ZAdd(m, score[m] + 2 * TickInterval) /\ batch' = batch \ {m}
  /\ UNCHANGED <<goroutineVars, jobChan, checking, cancelled, inactive, crashes,
                 shutdowns>>

(* No room: 2 seconds more than its score.                                   *)
Backpressure(m) ==
  /\ spc = "dispatching" /\ IsNext(m) /\ Due(m) /\ Len(jobChan) = JobCap
  /\ batch' = batch \ {m}
  /\ \/ Works /\ ZAdd(m, score[m] + Backoff)
     \/ Fails /\ (ZAddFails(m) \/ ZAdd(m, score[m] + Backoff))
  /\ UNCHANGED <<goroutineVars, jobChan, checking, cancelled, inactive, crashes,
                 shutdowns>>

(* The context is done: doWork returns with what is left of the batch.       *)
Abandon ==
  /\ spc = "dispatching" /\ cancelled
  /\ \E m \in Monitors : IsNext(m) /\ Due(m)
  /\ spc' = "waiting" /\ batch' = {}
  /\ score' = [m \in Monitors |-> IF m \in batch THEN 0 ELSE score[m]]
  /\ UNCHANGED <<schedule, tickedAt, untilTick, ticked, jobChan, checking,
                 cancelled, worldVars>>

(* Mutant: items[i+1:] is forgotten.                                         *)
ReinsertFirst ==
  /\ spc = "dispatching"
  /\ \E m \in Monitors : IsNext(m) /\ ~Due(m) /\ schedule' = schedule \cup {m}
  /\ spc' = "waiting" /\ batch' = {} /\ Works
  /\ UNCHANGED <<score, tickedAt, untilTick, ticked, jobChan, checking,
                 cancelled, inactive, crashes, shutdowns>>

(* The first item that was not due at the tick: it and all that follow it     *)
(* are put back with their scores, in one ZADD.                              *)
Reinsert ==
  /\ spc = "dispatching"
  /\ \E m \in Monitors : IsNext(m) /\ ~Due(m)
  /\ \/ Works /\ schedule' = schedule \cup batch /\ UNCHANGED score
     \/ Fails /\ schedule' = schedule \cup batch /\ UNCHANGED score
     \/ /\ Fails /\ UNCHANGED schedule
        /\ score' = [m \in Monitors |-> IF m \in batch THEN 0 ELSE score[m]]
  /\ spc' = "waiting" /\ batch' = {}
  /\ UNCHANGED <<tickedAt, untilTick, ticked, jobChan, checking, cancelled,
                 inactive, crashes, shutdowns>>

EndWork ==
  /\ spc = "dispatching" /\ batch = {} /\ spc' = "waiting"
  /\ UNCHANGED <<schedule, score, batch, tickedAt, untilTick, ticked, jobChan,
                 checking, cancelled, worldVars>>

-----------------------------------------------------------------------------
Goroutine ==
  \/ Tick \/ Stop \/ PopDue \/ Abandon \/ Reinsert \/ EndWork
  \/ \E m \in Monitors : Dispatch(m) \/ Backpressure(m)

Next ==
  \/ Goroutine \/ TimePasses \/ Receive \/ Cancel \/ Restart
  \/ \E m \in Monitors : ScheduleMonitor(m) \/ GiveUp(m) \/ Activate(m)

Spec == Init /\ [][Next]_vars

(* A server that starts on a schedule in which no monitor is late yet.       *)
OnTimeInit == Init /\ \A m \in Monitors : score[m] >= 0
OnTimeSpec == OnTimeInit /\ [][Next]_vars

(* The goroutine of the scheduler runs when it can, time goes on, and the     *)
(* executor and the result processor come to the end of every check.          *)
Fairness ==
  /\ WF_vars(Goroutine) /\ WF_vars(TimePasses) /\ WF_vars(Receive)
  /\ \A m \in Monitors : WF_vars(ScheduleMonitor(m))

FairSpec == Spec /\ Fairness

-----------------------------------------------------------------------------
Queued == {jobChan[i] : i \in DOMAIN jobChan}

Custody ==
  [schedule |-> schedule, batch |-> batch, jobChan |-> Queued,
   checking |-> checking, inactive |-> inactive]

(* No monitor is in two places: not handed to the executor while it is still  *)
(* scheduled, not put back after it was dispatched (scheduler.go:79-121), so   *)
(* that one pop never leads to two checks.  This is about the scheduler       *)
(* alone: Activate stands for requests about monitors that nothing holds.     *)
SingleCustody ==
  /\ \A i, j \in DOMAIN jobChan : jobChan[i] = jobChan[j] => i = j
  /\ \A p, q \in DOMAIN Custody : p # q => Custody[p] \cap Custody[q] = {}

Lost == Monitors \ UNION {Custody[p] : p \in DOMAIN Custody}

(* Unless a command fails, the process dies or it is told to stop, every way  *)
(* through doWork leaves every popped monitor in the job channel or back in    *)
(* the schedule: the break after the first future item, the backpressure and   *)
(* the end of the loop together forget nobody.                                *)
NothingLost ==
  faults = 0 /\ crashes = 0 /\ shutdowns = 0 => Lost = {}

(* When a batch takes every scheduled monitor and the job channel has room    *)
(* for all of them, a monitor is handed over at most one tick and one doWork   *)
(* after its time, and one tick more for each failed pop, whatever is popped   *)
(* too early and put back with it.                                            *)
Punctual ==
  \A m \in schedule \cup batch :
    score[m] >= -((faults + 1) * TickInterval + MaxWork)

(* No monitor starves: as long as the executor frees a slot of the job channel *)
(* between two ticks, each active monitor that no failed command or crash has  *)
(* lost is checked again and again while the server runs, although a full      *)
(* channel lets later monitors of the batch overtake it.                      *)
EveryMonitorIsChecked ==
  \A m \in Monitors : []<>(m \in checking \cup inactive \cup Lost \/ cancelled)
=============================================================================
