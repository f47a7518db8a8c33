--------------------------- MODULE SchedulerProofs ---------------------------
(***************************************************************************)
(* Theorems about Scheduler, for any number of monitors, any batch size,   *)
(* channel size and timing, and every failure, crash and shutdown.         *)
(***************************************************************************)
EXTENDS Scheduler, FiniteSetTheorems, TLAPS

-----------------------------------------------------------------------------
(* The job channel.                                                          *)

NoRepeats == \A i, j \in DOMAIN jobChan : jobChan[i] = jobChan[j] => i = j

LEMMA Enqueue ==
  ASSUME NEW m \in Monitors, jobChan \in Seq(Monitors),
         Len(jobChan) < JobCap, JobCap \in Nat,
         jobChan' = Append(jobChan, m)
  PROVE  /\ jobChan' \in Seq(Monitors) /\ Len(jobChan') <= JobCap
         /\ Queued' = Queued \cup {m}
         /\ NoRepeats /\ m \notin Queued => NoRepeats'
<1>1. jobChan' \in Seq(Monitors) /\ Len(jobChan') = Len(jobChan) + 1
  OBVIOUS
<1>2. /\ DOMAIN jobChan = 1 .. Len(jobChan)
      /\ DOMAIN jobChan' = 1 .. Len(jobChan) + 1
      /\ \A i \in 1 .. Len(jobChan) : jobChan'[i] = jobChan[i]
      /\ jobChan'[Len(jobChan) + 1] = m /\ Len(jobChan) \in Nat
  OBVIOUS
<1>3. Queued' = Queued \cup {m}
  BY <1>2 DEF Queued
<1>4. NoRepeats /\ m \notin Queued => NoRepeats'
  BY <1>2 DEF NoRepeats, Queued
<1> QED
  BY <1>1, <1>3, <1>4

LEMMA Dequeue ==
  ASSUME jobChan \in Seq(Monitors), jobChan # <<>>, Len(jobChan) <= JobCap,
         JobCap \in Nat, jobChan' = Tail(jobChan)
  PROVE  /\ jobChan' \in Seq(Monitors) /\ Len(jobChan') <= JobCap
         /\ Head(jobChan) \in Queued /\ Head(jobChan) \in Monitors
         /\ Queued = Queued' \cup {Head(jobChan)}
         /\ NoRepeats => NoRepeats' /\ Head(jobChan) \notin Queued'
<1>1. /\ jobChan' \in Seq(Monitors) /\ Len(jobChan') = Len(jobChan) - 1
      /\ Head(jobChan) \in Monitors /\ Head(jobChan) = jobChan[1]
  OBVIOUS
<1>2. /\ DOMAIN jobChan = 1 .. Len(jobChan) /\ Len(jobChan) \in Nat \ {0}
      /\ DOMAIN jobChan' = 1 .. Len(jobChan) - 1
      /\ \A i \in 1 .. Len(jobChan) - 1 : jobChan'[i] = jobChan[i + 1]
  OBVIOUS
<1>3. Queued = Queued' \cup {jobChan[1]}
  <2>1. \A i \in 1 .. Len(jobChan) :
          i = 1 \/ (i - 1 \in 1 .. Len(jobChan) - 1
                      /\ jobChan[i] = jobChan'[i - 1])
    BY <1>2
  <2>2. \A i \in 1 .. Len(jobChan) - 1 : i + 1 \in 1 .. Len(jobChan)
    BY <1>2
  <2>3. \A k \in Queued : k \in Queued' \cup {jobChan[1]}
    <3>1. TAKE k \in Queued
    <3>2. PICK i \in 1 .. Len(jobChan) : k = jobChan[i]
      BY <1>2 DEF Queued
    <3>3. \A j \in 1 .. Len(jobChan) - 1 : jobChan'[j] \in Queued'
      BY <1>2 DEF Queued
    <3> QED
      BY <2>1, <3>2, <3>3
  <2>4. \A k \in Queued' : k \in Queued
    BY <1>2, <2>2 DEF Queued
  <2>5. jobChan[1] \in Queued
    BY <1>2 DEF Queued
  <2> QED
    BY <2>3, <2>4, <2>5
<1>4. NoRepeats => NoRepeats' /\ jobChan[1] \notin Queued'
  BY <1>2 DEF NoRepeats, Queued
<1> QED
  BY <1>1, <1>2, <1>3, <1>4 DEF Queued

-----------------------------------------------------------------------------
(* The inductive invariant.  NothingLost needs that PopDue never overwrites a *)
(* batch that still holds somebody, and that a context that is done was        *)
(* cancelled by a shutdown.                                                   *)

Apart ==
  /\ schedule \cap batch = {} /\ schedule \cap Queued = {}
  /\ schedule \cap checking = {} /\ schedule \cap inactive = {}
  /\ batch \cap Queued = {} /\ batch \cap checking = {}
  /\ batch \cap inactive = {} /\ Queued \cap checking = {}
  /\ Queued \cap inactive = {} /\ checking \cap inactive = {}

Somewhere == schedule \cup batch \cup Queued \cup checking \cup inactive

BatchHeld == spc # "dispatching" => batch = {}
CancelledByShutdown == cancelled => shutdowns > 0
NobodyLost ==
  faults = 0 /\ crashes = 0 /\ shutdowns = 0 => Monitors \subseteq Somewhere

IInv ==
  /\ TypeOK /\ NoRepeats /\ Apart
  /\ BatchHeld /\ CancelledByShutdown /\ NobodyLost

(* The places by name and the places as a record are the same thing.         *)
LEMMA CustodyPlaces ==
  /\ SingleCustody <=> NoRepeats /\ Apart
  /\ Lost = Monitors \ Somewhere
<1>1. DOMAIN Custody = {"schedule", "batch", "jobChan", "checking", "inactive"}
  BY DEF Custody
<1>2. /\ Custody["schedule"] = schedule /\ Custody["batch"] = batch
      /\ Custody["jobChan"] = Queued /\ Custody["checking"] = checking
      /\ Custody["inactive"] = inactive
  BY DEF Custody
<1> HIDE DEF Custody
<1>3. (\A p, q \in DOMAIN Custody : p # q => Custody[p] \cap Custody[q] = {})
        <=> Apart
  BY <1>1, <1>2 DEF Apart
<1>4. UNION {Custody[p] : p \in DOMAIN Custody} = Somewhere
  BY <1>1, <1>2 DEF Somewhere
<1> QED
  BY <1>3, <1>4 DEF SingleCustody, NoRepeats, Lost

LEMMA StartValues ==
  /\ 0 \in -MaxWork .. 0 /\ TickInterval \in 1 .. TickInterval
  /\ <<>> \in Seq(Monitors) /\ Len(<<>>) <= JobCap
BY SchedulerAssumption

LEMMA InitInv == Init => IInv
<1> SUFFICES ASSUME Init PROVE IInv
  OBVIOUS
<1>1. Queued = {} /\ NoRepeats
  BY DEF Init, Queued, NoRepeats
<1>2. TypeOK
  BY StartValues DEF Init, TypeOK
<1>3. Apart /\ Monitors \subseteq Somewhere
  BY <1>1 DEF Init, Apart, Somewhere
<1> QED
  BY <1>1, <1>2, <1>3
     DEF IInv, Init, BatchHeld, CancelledByShutdown, NobodyLost

-----------------------------------------------------------------------------
(* Types.                                                                    *)

LEMMA ScoreSteps ==
  /\ \A s \in Scores : Later(s) \in Scores
  /\ 0 \in Scores /\ Delays \subseteq Scores
  /\ \A s \in Scores : s <= 0 => s + Backoff \in Scores
BY SchedulerAssumption DEF Scores, Later

LEMMA FaultCount ==
  ASSUME TypeOK, Works \/ Fails
  PROVE  faults' \in Nat
BY DEF TypeOK, Works, Fails

LEMMA ZAddType ==
  ASSUME TypeOK, NEW m \in Monitors,
         ZAddFails(m) \/ \E s \in Scores : ZAdd(m, s)
  PROVE  /\ schedule' \in SUBSET Monitors /\ score' \in [Monitors -> Scores]
         /\ schedule' = schedule \/ schedule' = schedule \cup {m}
BY ScoreSteps DEF TypeOK, ZAdd, ZAddFails

LEMMA NextType == TypeOK /\ [Next]_vars => TypeOK'
<1> SUFFICES ASSUME TypeOK, [Next]_vars PROVE TypeOK'
  OBVIOUS
<1> USE SchedulerAssumption
<1>1. CASE Tick
  BY <1>1, StartValues DEF Tick, TypeOK, worldVars
<1>2. CASE Stop
  BY <1>2 DEF Stop, TypeOK, worldVars
<1>3. CASE PopDue
  <2>1. schedule' \in SUBSET Monitors /\ batch' \in SUBSET Monitors
    BY <1>3 DEF PopDue, TypeOK, Lowest
  <2>2. score' \in [Monitors -> Scores]
    BY <1>3, ScoreSteps DEF PopDue, TypeOK
  <2>3. faults' \in Nat
    BY <1>3, FaultCount DEF PopDue
  <2>4. spc' \in {"waiting", "dispatching"}
    BY <1>3 DEF PopDue
  <2> QED
    BY <1>3, <2>1, <2>2, <2>3, <2>4 DEF PopDue, TypeOK
<1>4. CASE Abandon
  <2>1. score' \in [Monitors -> Scores]
    BY <1>4, ScoreSteps DEF Abandon, TypeOK
  <2> QED
    BY <1>4, <2>1 DEF Abandon, TypeOK, worldVars
<1>5. CASE Reinsert
  <2>1. schedule' \in SUBSET Monitors
    BY <1>5 DEF Reinsert, TypeOK
  <2>2. score' \in [Monitors -> Scores]
    BY <1>5, ScoreSteps DEF Reinsert, TypeOK
  <2>3. faults' \in Nat
    BY <1>5, FaultCount DEF Reinsert
  <2> QED
    BY <1>5, <2>1, <2>2, <2>3 DEF Reinsert, TypeOK
<1>6. CASE EndWork
  BY <1>6 DEF EndWork, TypeOK, worldVars
<1>7. ASSUME NEW m \in Monitors, Dispatch(m) PROVE TypeOK'
  <2>1. jobChan' \in Seq(Monitors) /\ Len(jobChan') <= JobCap
    BY <1>7, Enqueue DEF Dispatch, TypeOK
  <2>2. score' \in [Monitors -> Scores]
    BY <1>7, ScoreSteps DEF Dispatch, TypeOK
  <2> QED
    BY <1>7, <2>1, <2>2 DEF Dispatch, TypeOK, worldVars, goroutineVars
<1>8. ASSUME NEW m \in Monitors, Backpressure(m) PROVE TypeOK'
  <2>1. score[m] + Backoff \in Scores
    <3>1. score[m] \in Scores /\ score[m] <= 0
      BY <1>8 DEF Backpressure, Due, TypeOK, Scores
    <3> QED
      BY <3>1, ScoreSteps
  <2>2. ZAddFails(m) \/ ZAdd(m, score[m] + Backoff)
    BY <1>8 DEF Backpressure
  <2>3. schedule' \in SUBSET Monitors /\ score' \in [Monitors -> Scores]
    BY <2>1, <2>2, ZAddType
  <2>4. faults' \in Nat
    BY <1>8, FaultCount DEF Backpressure
  <2> QED
    BY <1>8, <2>3, <2>4 DEF Backpressure, TypeOK, goroutineVars
<1>9. CASE TimePasses
  <2>1. score' \in [Monitors -> Scores]
    BY <1>9, ScoreSteps DEF TimePasses, TypeOK
  <2>2. tickedAt' \in -MaxWork .. 0
    BY <1>9 DEF TimePasses, TypeOK, Working
  <2>3. untilTick' \in 1 .. TickInterval /\ ticked' \in BOOLEAN
    BY <1>9 DEF TimePasses, TypeOK
  <2> QED
    BY <1>9, <2>1, <2>2, <2>3 DEF TimePasses, TypeOK, worldVars
<1>10. CASE Receive
  <2>1. /\ jobChan' \in Seq(Monitors) /\ Len(jobChan') <= JobCap
        /\ Head(jobChan) \in Monitors
    BY <1>10, Dequeue DEF Receive, TypeOK
  <2> QED
    BY <1>10, <2>1 DEF Receive, TypeOK, worldVars, goroutineVars
<1>11. CASE Cancel
  BY <1>11 DEF Cancel, TypeOK, goroutineVars
<1>12. CASE Restart
  <2>1. score' \in [Monitors -> Scores]
    BY <1>12, ScoreSteps DEF Restart, TypeOK
  <2>2. crashes' \in Nat
    BY <1>12 DEF Restart, TypeOK
  <2>3. jobChan' \in Seq(Monitors) /\ Len(jobChan') <= JobCap
    BY <1>12, StartValues DEF Restart
  <2>4. tickedAt' \in -MaxWork .. 0 /\ untilTick' \in 1 .. TickInterval
    BY <1>12, StartValues DEF Restart
  <2> QED
    BY <1>12, <2>1, <2>2, <2>3, <2>4 DEF Restart, TypeOK
<1>13. ASSUME NEW m \in Monitors, ScheduleMonitor(m) PROVE TypeOK'
  <2>1. ZAddFails(m) \/ \E s \in Scores : ZAdd(m, s)
    BY <1>13, ScoreSteps DEF ScheduleMonitor
  <2>2. schedule' \in SUBSET Monitors /\ score' \in [Monitors -> Scores]
    BY <2>1, ZAddType
  <2>3. faults' \in Nat
    BY <1>13, FaultCount DEF ScheduleMonitor
  <2> QED
    BY <1>13, <2>2, <2>3 DEF ScheduleMonitor, TypeOK, goroutineVars
<1>14. ASSUME NEW m \in Monitors, GiveUp(m) PROVE TypeOK'
  BY <1>14 DEF GiveUp, TypeOK, goroutineVars
<1>15. ASSUME NEW m \in Monitors, Activate(m) PROVE TypeOK'
  <2>1. ZAddFails(m) \/ \E s \in Scores : ZAdd(m, s)
    BY <1>15, ScoreSteps DEF Activate
  <2>2. schedule' \in SUBSET Monitors /\ score' \in [Monitors -> Scores]
    BY <2>1, ZAddType
  <2>3. faults' \in Nat
    BY <1>15, FaultCount DEF Activate
  <2> QED
    BY <1>15, <2>2, <2>3 DEF Activate, TypeOK, goroutineVars
<1>16. CASE UNCHANGED vars
  BY <1>16 DEF vars, TypeOK, goroutineVars, worldVars
<1> QED
  BY <1>1, <1>2, <1>3, <1>4, <1>5, <1>6, <1>7, <1>8, <1>9, <1>10, <1>11, <1>12,
     <1>13, <1>14, <1>15, <1>16 DEF Next, Goroutine

-----------------------------------------------------------------------------
(* Custody.                                                                  *)

(* A step that leaves the job channel alone.                                  *)
LEMMA QueueKept ==
  ASSUME UNCHANGED jobChan
  PROVE  Queued' = Queued /\ (NoRepeats => NoRepeats')
BY DEF Queued, NoRepeats

LEMMA NextCustody == IInv /\ [Next]_vars => NoRepeats' /\ Apart' /\ BatchHeld'
<1> SUFFICES ASSUME IInv, [Next]_vars PROVE NoRepeats' /\ Apart' /\ BatchHeld'
  OBVIOUS
<1>0. TypeOK /\ NoRepeats /\ Apart /\ BatchHeld
  BY DEF IInv
<1>1. CASE Tick
  BY <1>0, <1>1, QueueKept DEF Tick, worldVars, Apart, BatchHeld
<1>2. CASE Stop
  BY <1>0, <1>2, QueueKept DEF Stop, worldVars, Apart, BatchHeld
<1>3. CASE PopDue
  <2>1. Queued' = Queued /\ NoRepeats' /\ batch = {}
    BY <1>0, <1>3, QueueKept DEF PopDue, BatchHeld
  <2>2. /\ schedule' \subseteq schedule /\ schedule' \cap batch' = {}
        /\ batch' \subseteq schedule /\ UNCHANGED <<checking, inactive>>
    BY <1>3, <2>1 DEF PopDue, Lowest
  <2>3. Apart'
    BY <1>0, <2>1, <2>2 DEF Apart
  <2>4. BatchHeld'
    BY <1>3, <2>1 DEF PopDue, BatchHeld
  <2> QED
    BY <2>1, <2>3, <2>4
<1>4. CASE Abandon
  BY <1>0, <1>4, QueueKept DEF Abandon, worldVars, Apart, BatchHeld
<1>5. CASE Reinsert
  <2>1. /\ schedule' \subseteq schedule \cup batch /\ batch' = {}
        /\ UNCHANGED <<checking, inactive, jobChan>>
    BY <1>5 DEF Reinsert
  <2> QED
    BY <1>0, <2>1, QueueKept DEF Apart, BatchHeld
<1>6. CASE EndWork
  BY <1>0, <1>6, QueueKept DEF EndWork, worldVars, Apart, BatchHeld
<1>7. ASSUME NEW m \in Monitors, Dispatch(m)
      PROVE  NoRepeats' /\ Apart' /\ BatchHeld'
  <2>1. m \in batch /\ m \notin Queued
    BY <1>0, <1>7 DEF Dispatch, IsNext, Apart
  <2>2. NoRepeats' /\ Queued' = Queued \cup {m}
    BY <1>0, <1>7, <2>1, SchedulerAssumption, Enqueue DEF Dispatch, TypeOK
  <2>3. /\ batch' = batch \ {m} /\ spc' = spc
        /\ UNCHANGED <<schedule, checking, inactive>>
    BY <1>7 DEF Dispatch, goroutineVars, worldVars
  <2> QED
    BY <1>0, <2>1, <2>2, <2>3 DEF Apart, BatchHeld
<1>8. ASSUME NEW m \in Monitors, Backpressure(m)
      PROVE  NoRepeats' /\ Apart' /\ BatchHeld'
  <2>1. /\ m \in batch /\ batch' = batch \ {m} /\ spc' = spc
        /\ schedule' \subseteq schedule \cup {m}
        /\ UNCHANGED <<jobChan, checking, inactive>>
    BY <1>8 DEF Backpressure, IsNext, ZAdd, ZAddFails, goroutineVars
  <2> QED
    BY <1>0, <2>1, QueueKept DEF Apart, BatchHeld
<1>9. CASE TimePasses
  BY <1>0, <1>9, QueueKept DEF TimePasses, worldVars, Apart, BatchHeld
<1>10. CASE Receive
  <2>1. /\ Head(jobChan) \in Queued /\ Queued = Queued' \cup {Head(jobChan)}
        /\ NoRepeats' /\ Head(jobChan) \notin Queued'
    BY <1>0, <1>10, SchedulerAssumption, Dequeue DEF Receive, TypeOK
  <2>2. /\ checking' = checking \cup {Head(jobChan)} /\ spc' = spc
        /\ UNCHANGED <<schedule, batch, inactive>>
    BY <1>10 DEF Receive, goroutineVars, worldVars
  <2> QED
    BY <1>0, <2>1, <2>2 DEF Apart, BatchHeld
<1>11. CASE Cancel
  BY <1>0, <1>11, QueueKept DEF Cancel, goroutineVars, Apart, BatchHeld
<1>12. CASE Restart
  <2>1. jobChan' = <<>> /\ batch' = {} /\ checking' = {}
        /\ UNCHANGED <<schedule, inactive>>
    BY <1>12 DEF Restart
  <2>2. Queued' = {} /\ NoRepeats'
    BY <2>1 DEF Queued, NoRepeats
  <2> QED
    BY <1>0, <2>1, <2>2 DEF Apart, BatchHeld
<1>13. ASSUME NEW m \in Monitors, ScheduleMonitor(m)
       PROVE  NoRepeats' /\ Apart' /\ BatchHeld'
  <2>1. /\ m \in checking /\ checking' = checking \ {m} /\ spc' = spc
        /\ schedule' \subseteq schedule \cup {m}
        /\ UNCHANGED <<jobChan, batch, inactive>>
    BY <1>13 DEF ScheduleMonitor, ZAdd, ZAddFails, goroutineVars
  <2> QED
    BY <1>0, <2>1, QueueKept DEF Apart, BatchHeld
<1>14. ASSUME NEW m \in Monitors, GiveUp(m)
       PROVE  NoRepeats' /\ Apart' /\ BatchHeld'
  BY <1>0, <1>14, QueueKept DEF GiveUp, goroutineVars, Apart, BatchHeld
<1>15. ASSUME NEW m \in Monitors, Activate(m)
       PROVE  NoRepeats' /\ Apart' /\ BatchHeld'
  <2>1. /\ m \in inactive /\ inactive' = inactive \ {m} /\ spc' = spc
        /\ schedule' \subseteq schedule \cup {m}
        /\ UNCHANGED <<jobChan, batch, checking>>
    BY <1>15 DEF Activate, ZAdd, ZAddFails, goroutineVars
  <2> QED
    BY <1>0, <2>1, QueueKept DEF Apart, BatchHeld
<1>16. CASE UNCHANGED vars
  BY <1>0, <1>16, QueueKept
     DEF vars, goroutineVars, worldVars, Apart, BatchHeld
<1> QED
  BY <1>1, <1>2, <1>3, <1>4, <1>5, <1>6, <1>7, <1>8, <1>9, <1>10, <1>11, <1>12,
     <1>13, <1>14, <1>15, <1>16 DEF Next, Goroutine

-----------------------------------------------------------------------------
(* Nobody is lost.                                                           *)

LEMMA NextCancelled == IInv /\ [Next]_vars => CancelledByShutdown'
<1> SUFFICES ASSUME IInv, [Next]_vars PROVE CancelledByShutdown'
  OBVIOUS
<1>1. CancelledByShutdown /\ shutdowns \in Nat
  BY DEF IInv, TypeOK
<1>2. \/ UNCHANGED <<cancelled, shutdowns>>
      \/ shutdowns' = shutdowns + 1
      \/ cancelled' = FALSE
  BY DEF Next, vars, Goroutine, Tick, Stop, PopDue, Abandon, Reinsert, EndWork,
         Dispatch, Backpressure, TimePasses, Receive, Cancel, Restart,
         ScheduleMonitor, GiveUp, Activate, worldVars
<1> QED
  <2>1. CASE UNCHANGED <<cancelled, shutdowns>>
    BY <1>1, <2>1 DEF CancelledByShutdown
  <2>2. CASE shutdowns' = shutdowns + 1
    <3>1. shutdowns' > 0
      BY <1>1, <2>2
    <3> QED
      BY <3>1 DEF CancelledByShutdown
  <2>3. CASE cancelled' = FALSE
    BY <2>3 DEF CancelledByShutdown
  <2> QED
    BY <1>2, <2>1, <2>2, <2>3

(* Counters only grow, so a run without a fault had none before.              *)
LEMMA CountersGrow ==
  ASSUME TypeOK, [Next]_vars
  PROVE  faults' >= faults /\ crashes' >= crashes /\ shutdowns' >= shutdowns
<1>1. UNCHANGED faults \/ faults' = faults + 1
  BY DEF Next, vars, Goroutine, Tick, Stop, PopDue, Abandon, Reinsert, EndWork,
         Dispatch, Backpressure, TimePasses, Receive, Cancel, Restart,
         ScheduleMonitor, GiveUp, Activate, worldVars, Works, Fails
<1>2. UNCHANGED crashes \/ crashes' = crashes + 1
  BY DEF Next, vars, Goroutine, Tick, Stop, PopDue, Abandon, Reinsert, EndWork,
         Dispatch, Backpressure, TimePasses, Receive, Cancel, Restart,
         ScheduleMonitor, GiveUp, Activate, worldVars
<1>3. UNCHANGED shutdowns \/ shutdowns' = shutdowns + 1
  BY DEF Next, vars, Goroutine, Tick, Stop, PopDue, Abandon, Reinsert, EndWork,
         Dispatch, Backpressure, TimePasses, Receive, Cancel, Restart,
         ScheduleMonitor, GiveUp, Activate, worldVars
<1> QED
  BY <1>1, <1>2, <1>3 DEF TypeOK

LEMMA NextNobodyLost == IInv /\ [Next]_vars => NobodyLost'
<1> SUFFICES ASSUME IInv, [Next]_vars,
                    faults' = 0, crashes' = 0, shutdowns' = 0
             PROVE  Monitors \subseteq Somewhere'
  BY DEF NobodyLost
<1>0. TypeOK /\ Apart /\ BatchHeld /\ CancelledByShutdown
  BY DEF IInv
<1>a. faults = 0 /\ crashes = 0 /\ shutdowns = 0
  BY <1>0, CountersGrow DEF TypeOK
<1>b. ~cancelled
  BY <1>0, <1>a DEF CancelledByShutdown
<1>c. ~Fails
  BY <1>a, <1>b DEF Fails
<1>d. SUFFICES Somewhere \subseteq Somewhere'
  BY <1>a DEF IInv, NobodyLost
<1>1. CASE Tick
  BY <1>1, QueueKept DEF Tick, worldVars, Somewhere
<1>2. CASE Stop
  BY <1>2, QueueKept DEF Stop, worldVars, Somewhere
<1>3. CASE PopDue
  <2>1. PICK popped \in Lowest(BatchSize, schedule) :
          schedule' = schedule \ popped /\ batch' = popped
    BY <1>3, <1>c DEF PopDue
  <2>2. batch = {} /\ UNCHANGED <<jobChan, checking, inactive>>
    BY <1>0, <1>3 DEF PopDue, BatchHeld
  <2> QED
    BY <2>1, <2>2, QueueKept DEF Somewhere
<1>4. CASE Abandon
  BY <1>4, <1>b DEF Abandon
<1>5. CASE Reinsert
  <2>1. /\ schedule' = schedule \cup batch
        /\ UNCHANGED <<jobChan, checking, inactive>>
    BY <1>5, <1>c DEF Reinsert
  <2> QED
    BY <2>1, QueueKept DEF Somewhere
<1>6. CASE EndWork
  BY <1>6, QueueKept DEF EndWork, worldVars, Somewhere
<1>7. ASSUME NEW m \in Monitors, Dispatch(m) PROVE Somewhere \subseteq Somewhere'
  <2>1. Queued' = Queued \cup {m}
    BY <1>0, <1>7, SchedulerAssumption, Enqueue DEF Dispatch, TypeOK
  <2>2. batch' = batch \ {m} /\ UNCHANGED <<schedule, checking, inactive>>
    BY <1>7 DEF Dispatch, worldVars
  <2> QED
    BY <2>1, <2>2 DEF Somewhere
<1>8. ASSUME NEW m \in Monitors, Backpressure(m)
      PROVE  Somewhere \subseteq Somewhere'
  <2>1. /\ batch' = batch \ {m} /\ schedule' = schedule \cup {m}
        /\ UNCHANGED <<jobChan, checking, inactive>>
    BY <1>8, <1>c DEF Backpressure, ZAdd
  <2> QED
    BY <2>1, QueueKept DEF Somewhere
<1>9. CASE TimePasses
  BY <1>9, QueueKept DEF TimePasses, worldVars, Somewhere
<1>10. CASE Receive
  <2>1. Queued = Queued' \cup {Head(jobChan)}
    BY <1>0, <1>10, SchedulerAssumption, Dequeue DEF Receive, TypeOK
  <2>2. /\ checking' = checking \cup {Head(jobChan)}
        /\ UNCHANGED <<schedule, batch, inactive>>
    BY <1>10 DEF Receive, worldVars
  <2> QED
    BY <2>1, <2>2 DEF Somewhere
<1>11. CASE Cancel
  BY <1>11, <1>a DEF Cancel
<1>12. CASE Restart
  BY <1>12, <1>a, <1>b DEF Restart
<1>13. ASSUME NEW m \in Monitors, ScheduleMonitor(m)
       PROVE  Somewhere \subseteq Somewhere'
  <2>1. /\ checking' = checking \ {m} /\ schedule' = schedule \cup {m}
        /\ UNCHANGED <<jobChan, batch, inactive>>
    BY <1>13, <1>c DEF ScheduleMonitor, ZAdd
  <2> QED
    BY <2>1, QueueKept DEF Somewhere
<1>14. ASSUME NEW m \in Monitors, GiveUp(m) PROVE Somewhere \subseteq Somewhere'
  BY <1>14, QueueKept DEF GiveUp, Somewhere
<1>15. ASSUME NEW m \in Monitors, Activate(m)
       PROVE  Somewhere \subseteq Somewhere'
  <2>1. /\ inactive' = inactive \ {m} /\ schedule' = schedule \cup {m}
        /\ UNCHANGED <<jobChan, batch, checking>>
    BY <1>15, <1>c DEF Activate, ZAdd
  <2> QED
    BY <2>1, QueueKept DEF Somewhere
<1>16. CASE UNCHANGED vars
  BY <1>16, QueueKept DEF vars, worldVars, Somewhere
<1> QED
  BY <1>1, <1>2, <1>3, <1>4, <1>5, <1>6, <1>7, <1>8, <1>9, <1>10, <1>11, <1>12,
     <1>13, <1>14, <1>15, <1>16 DEF Next, Goroutine

-----------------------------------------------------------------------------
LEMMA Invariance == Spec => []IInv
<1>1. IInv /\ [Next]_vars => IInv'
  BY NextType, NextCustody, NextCancelled, NextNobodyLost DEF IInv
<1> QED
  BY InitInv, <1>1, PTL DEF Spec

(* Every variable of the scheduler keeps its type; in particular the job      *)
(* channel never holds more than its size, and no score leaves its range.     *)
THEOREM TypeCorrect == Spec => []TypeOK
<1>1. IInv => TypeOK
  BY DEF IInv
<1> QED
  BY Invariance, <1>1, PTL

(* Through every failed command, crash and shutdown, a monitor is in at most  *)
(* one of the schedule, the popped batch, the job channel and the executor.   *)
THEOREM CustodyHolds == Spec => []SingleCustody
<1>1. IInv => SingleCustody
  BY CustodyPlaces DEF IInv
<1> QED
  BY Invariance, <1>1, PTL

(* No way through doWork forgets a popped monitor: without a failed command,   *)
(* a crash or a shutdown, every monitor stays somewhere.                      *)
THEOREM NothingLostHolds == Spec => []NothingLost
<1>1. IInv => NothingLost
  BY CustodyPlaces DEF IInv, NobodyLost, NothingLost
<1> QED
  BY Invariance, <1>1, PTL

-----------------------------------------------------------------------------
(* Punctuality.  A batch takes every scheduled monitor, the job channel has   *)
(* room for all of them, and one doWork takes no longer than from one tick to *)
(* the next.                                                                 *)
Roomy ==
  /\ IsFiniteSet(Monitors)
  /\ Cardinality(Monitors) <= BatchSize /\ Cardinality(Monitors) <= JobCap
  /\ MaxWork <= TickInterval

(* The inductive invariant.  tickedAt tells where the ticker stands while     *)
(* doWork runs, and a monitor is at most so late: since the last tick it was  *)
(* not due at, or one tick more for each that a failed pop has wasted.        *)
Wasted == faults * TickInterval

InStep ==
  /\ spc = "waiting" /\ ticked => untilTick = TickInterval
  /\ Working /\ ~ticked => untilTick = TickInterval + tickedAt
  /\ Working /\ ticked => untilTick = TickInterval /\ tickedAt = -TickInterval

(* How late a scheduled monitor may be.                                      *)
Grace ==
  CASE spc = "waiting" /\ ~ticked -> Wasted + TickInterval - untilTick
    [] spc = "waiting" /\ ticked  -> Wasted + TickInterval
    [] spc = "popping"            -> Wasted + TickInterval - tickedAt
    [] spc = "dispatching"        -> Wasted - tickedAt

OnTime ==
  /\ spc # "stopped" /\ InStep
  /\ \A m \in schedule : score[m] >= -Grace
  /\ \A m \in batch : score[m] >= -(Wasted + TickInterval - tickedAt)

PInv == crashes = 0 /\ shutdowns = 0 => OnTime

(* A pop of n * BatchSize members takes all.                                  *)
LEMMA AllPopped ==
  ASSUME Roomy, NEW members \in SUBSET Monitors, NEW n \in Nat \ {0},
         NEW popped \in Lowest(n * BatchSize, members)
  PROVE  popped = members
<1>1. IsFiniteSet(members) /\ Cardinality(members) <= Cardinality(Monitors)
  BY FS_Subset DEF Roomy
<1>2. Cardinality(members) \in Nat /\ Cardinality(Monitors) \in Nat
  BY <1>1, FS_CardinalityType DEF Roomy
<1>3. BatchSize \in Nat /\ n * BatchSize >= BatchSize
  BY SchedulerAssumption
<1>4. Cardinality(members) <= n * BatchSize
  BY <1>1, <1>2, <1>3 DEF Roomy
<1> QED
  BY <1>4 DEF Lowest

(* A monitor that is being dispatched finds room.                             *)
LEMMA RoomForOneMore ==
  ASSUME Roomy, IInv, batch # {}
  PROVE  Len(jobChan) < JobCap
<1>1. PICK m \in Monitors : m \in batch /\ m \notin Queued
  BY DEF IInv, TypeOK, Apart
<1> DEFINE free == Monitors \ {m}
<1>2. /\ IsFiniteSet(free) /\ Cardinality(free) = Cardinality(Monitors) - 1
      /\ Cardinality(Monitors) \in Nat
  BY FS_RemoveElement, FS_CardinalityType DEF Roomy
<1>3. /\ DOMAIN jobChan = 1 .. Len(jobChan) /\ Len(jobChan) \in Nat
      /\ \A i \in DOMAIN jobChan : jobChan[i] \in free
  BY <1>1 DEF IInv, TypeOK, Queued
<1>4. jobChan \in Injection(1 .. Len(jobChan), free)
  BY <1>3 DEF IInv, NoRepeats, TypeOK, Injection, IsInjective
<1>5. Cardinality(1 .. Len(jobChan)) = Len(jobChan)
  <2>1. \A n \in Nat : Cardinality(1 .. n) = IF 1 > n THEN 0 ELSE n - 1 + 1
    BY FS_Interval
  <2> QED
    BY <1>3, <2>1
<1> HIDE DEF free
<1>6. Len(jobChan) <= Cardinality(free)
  BY <1>2, <1>4, <1>5, FS_Injection
<1> QED
  BY <1>2, <1>3, <1>6, SchedulerAssumption DEF Roomy

LEMMA WastedCounts ==
  ASSUME TypeOK
  PROVE  /\ Wasted \in Nat /\ (faults + 1) * TickInterval = Wasted + TickInterval
         /\ faults' = faults => Wasted' = Wasted
         /\ faults' = faults + 1 => Wasted' = Wasted + TickInterval
BY SchedulerAssumption DEF TypeOK, Wasted

LEMMA Numbers ==
  /\ TickInterval \in Nat \ {0} /\ MaxWork \in Nat /\ MaxLate \in Nat
  /\ MaxDelay \in Nat /\ \A d \in Delays : d \in Nat
  /\ TypeOK => /\ untilTick \in Int /\ 1 <= untilTick
               /\ untilTick <= TickInterval
               /\ tickedAt \in Int /\ -MaxWork <= tickedAt /\ tickedAt <= 0
               /\ \A m \in Monitors : score[m] \in Int
BY SchedulerAssumption DEF TypeOK, Scores

LEMMA Slack ==
  \A s, g, h \in Int : (h >= 0 /\ s >= 0) \/ (h >= g /\ s >= -g) => s >= -h
OBVIOUS

LEMMA Graces ==
  /\ spc = "waiting" /\ ~ticked => Grace = Wasted + TickInterval - untilTick
  /\ spc = "waiting" /\ ticked => Grace = Wasted + TickInterval
  /\ spc = "popping" => Grace = Wasted + TickInterval - tickedAt
  /\ spc = "dispatching" => Grace = Wasted - tickedAt
BY DEF Grace

LEMMA PunctualFollows ==
  ASSUME TypeOK, PInv, crashes = 0, shutdowns = 0
  PROVE  Punctual
<1> PICK w, g : w = Wasted /\ g = Grace
  OBVIOUS
<1>1. /\ w \in Nat /\ (faults + 1) * TickInterval = w + TickInterval
  BY WastedCounts
<1>2. spc \in {"waiting", "popping", "dispatching"} /\ ticked \in BOOLEAN
  BY DEF PInv, OnTime, TypeOK
<1>3. g \in Int /\ g <= w + TickInterval + MaxWork
  BY <1>1, <1>2, Graces, Numbers
<1>4. \A m \in schedule : score[m] >= -(w + TickInterval + MaxWork)
  <2>1. \A m \in schedule : score[m] \in Int /\ score[m] >= -g
    BY Numbers DEF PInv, OnTime, TypeOK
  <2> QED
    BY <1>1, <1>3, <2>1, Numbers
<1>5. \A m \in batch : score[m] >= -(w + TickInterval + MaxWork)
  <2>1. \A m \in batch :
          score[m] \in Int /\ score[m] >= -(w + TickInterval - tickedAt)
    BY Numbers DEF PInv, OnTime, TypeOK
  <2> QED
    BY <1>1, <2>1, Numbers
<1> QED
  BY <1>1, <1>4, <1>5 DEF Punctual

LEMMA InitOnTime == OnTimeInit => PInv
<1> SUFFICES ASSUME OnTimeInit PROVE OnTime
  BY DEF PInv
<1>1. Wasted = 0 /\ Grace = 0
  BY SchedulerAssumption DEF OnTimeInit, Init, Wasted, Grace
<1> QED
  BY <1>1 DEF OnTimeInit, Init, OnTime, InStep, Working

(* A step of others, which schedules only monitors that are not late.         *)
LEMMA OthersKeepTime ==
  ASSUME TypeOK, TypeOK', OnTime, UNCHANGED goroutineVars,
         Wasted' \in Nat, Wasted' >= Wasted,
         batch' \subseteq batch, \A m \in batch' : score'[m] = score[m],
         \A m \in schedule' :
           (m \in schedule /\ score'[m] = score[m]) \/ score'[m] >= 0
  PROVE  OnTime'
<1>0. UNCHANGED <<spc, tickedAt, untilTick, ticked>>
  BY DEF goroutineVars
<1>1. spc' # "stopped" /\ InStep'
  BY <1>0 DEF OnTime, InStep, Working
<1>2. spc \in {"waiting", "popping", "dispatching"} /\ ticked \in BOOLEAN
  BY DEF OnTime, TypeOK
<1>3. Wasted \in Nat
  BY WastedCounts
<1>4. /\ Grace \in Int /\ Grace' \in Int /\ Grace' >= Grace /\ Grace' >= 0
  BY <1>0, <1>2, <1>3, Numbers DEF Grace
<1>5. \A m \in schedule' : score'[m] >= -Grace'
  <2> SUFFICES ASSUME NEW m \in schedule' PROVE score'[m] >= -Grace'
    OBVIOUS
  <2>1. score'[m] \in Int
    BY DEF TypeOK, Scores
  <2>2. score'[m] >= -Grace \/ score'[m] >= 0
    BY DEF OnTime
  <2> QED
    BY <1>4, <2>1, <2>2, Slack
<1>6. \A m \in batch' : score'[m] >= -(Wasted' + TickInterval - tickedAt')
  <2> SUFFICES ASSUME NEW m \in batch'
               PROVE  score'[m] >= -(Wasted' + TickInterval - tickedAt')
    OBVIOUS
  <2>1. score'[m] \in Int /\ score'[m] >= -(Wasted + TickInterval - tickedAt)
    BY DEF TypeOK, Scores, OnTime
  <2> DEFINE g == Wasted + TickInterval - tickedAt
             h == Wasted' + TickInterval - tickedAt
  <2>2. g \in Int /\ h \in Int /\ h >= g
    BY <1>3, Numbers
  <2> HIDE DEF g, h
  <2>3. score'[m] >= -h
    BY <2>1, <2>2, Slack DEF g
  <2> QED
    BY <1>0, <2>3 DEF h
<1> QED
  BY <1>1, <1>5, <1>6 DEF OnTime

(* doWork ends: what was not due at its tick, or was scheduled since, is no   *)
(* later than the time since that tick.                                      *)
LEMMA WorkEnds ==
  ASSUME TypeOK, TypeOK', OnTime, Working, spc' = "waiting", batch' = {},
         UNCHANGED <<tickedAt, untilTick, ticked>>, Wasted' \in Nat,
         \A m \in schedule' : score'[m] >= -(Wasted' - tickedAt)
  PROVE  OnTime'
<1> PICK v, h : v = Wasted' /\ h = Grace'
  OBVIOUS
<1>1. ticked \in BOOLEAN /\ ticked' = ticked /\ InStep'
  BY DEF OnTime, InStep, TypeOK, Working
<1>2. h = v - tickedAt
  <2>1. CASE ticked
    BY <1>1, <2>1, Numbers DEF OnTime, InStep, Grace
  <2>2. CASE ~ticked
    BY <1>1, <2>2, Numbers DEF OnTime, InStep, Grace
  <2> QED
    BY <2>1, <2>2
<1> QED
  BY <1>1, <1>2 DEF OnTime

LEMMA NextOnTime ==
  ASSUME Roomy, IInv, [Next]_vars, OnTime,
         crashes' = 0, shutdowns' = 0
  PROVE  OnTime'
<1>0. TypeOK /\ TypeOK' /\ BatchHeld /\ Apart /\ ~cancelled /\ crashes = 0
        /\ shutdowns = 0
  BY NextType, CountersGrow DEF IInv, CancelledByShutdown, TypeOK
<1> PICK w, v : w = Wasted /\ v = Wasted'
  OBVIOUS
<1>w. /\ w \in Nat /\ (Works => v = w) /\ (Fails => v = w + TickInterval)
      /\ (faults' = faults => v = w)
  BY <1>0, WastedCounts DEF Works, Fails
<1>v. Works \/ Fails \/ faults' = faults => v \in Nat /\ v >= w
  BY <1>w, Numbers
<1>1. CASE Tick
  <2>1. /\ spc = "waiting" /\ ticked /\ spc' = "popping" /\ ~ticked'
        /\ tickedAt' = 0 /\ batch' = {} /\ v = w
        /\ UNCHANGED <<schedule, score, untilTick>>
    BY <1>0, <1>1, <1>w DEF Tick, BatchHeld, worldVars
  <2>2. Grace' = Grace
    BY <1>w, <2>1, Numbers DEF Grace
  <2>3. InStep'
    BY <2>1, Numbers DEF OnTime, InStep, Working
  <2> QED
    BY <2>1, <2>2, <2>3 DEF OnTime
<1>3. CASE PopDue
  <2>1. /\ spc = "popping" /\ UNCHANGED <<tickedAt, untilTick, ticked>>
        /\ batch = {} /\ Working
    BY <1>0, <1>3 DEF PopDue, BatchHeld, Working
  <2>2. CASE \E n \in 0 .. 3 : \E gone \in Lowest(n * BatchSize, schedule) :
               /\ Fails /\ schedule' = schedule \ gone
               /\ spc' = "waiting" /\ UNCHANGED batch
               /\ score' = [m \in Monitors |-> IF m \in gone THEN 0 ELSE score[m]]
    <3>1. \A m \in schedule' : m \in schedule /\ score'[m] = score[m]
      BY <1>0, <2>2 DEF TypeOK
    <3>2. v = w + TickInterval
      BY <1>w, <2>2
    <3>3. \A m \in schedule' : score'[m] >= -(v - tickedAt)
      BY <1>0, <1>w, <2>1, <3>1, <3>2, Numbers DEF OnTime, Grace, TypeOK
    <3> QED
      BY <1>0, <1>v, <2>1, <2>2, <3>3, WorkEnds
  <2>3. CASE \E popped \in Lowest(BatchSize, schedule) :
               /\ Works
               /\ schedule' = schedule \ popped /\ batch' = popped
               /\ spc' = IF popped = {} THEN "waiting" ELSE "dispatching"
               /\ UNCHANGED score
    <3>1. \A popped \in Lowest(BatchSize, schedule) : popped = schedule
      <4>1. 1 * BatchSize = BatchSize
        BY SchedulerAssumption
      <4> QED
        BY <1>0, <4>1, AllPopped DEF TypeOK
    <3>2. /\ schedule' = {} /\ batch' = schedule /\ score' = score /\ v = w
          /\ \/ spc' = "waiting" /\ schedule = {}
             \/ spc' = "dispatching"
      BY <1>w, <2>3, <3>1
    <3>3. CASE spc' = "waiting" /\ schedule = {}
      BY <1>0, <1>w, <2>1, <3>2, <3>3, WorkEnds
    <3>4. CASE spc' = "dispatching"
      <4>1. InStep'
        BY <2>1, <3>4 DEF OnTime, InStep, Working
      <4>2. \A m \in batch' : score'[m] >= -(v + TickInterval - tickedAt')
        BY <2>1, <3>2 DEF OnTime, Grace
      <4> QED
        BY <3>2, <3>4, <4>1, <4>2 DEF OnTime
    <3> QED
      BY <3>2, <3>3, <3>4
  <2>4. CASE \E n \in 1 .. 2 : \E gone \in Lowest(n * BatchSize, schedule) :
             \E popped \in Lowest(BatchSize, schedule \ gone) :
               /\ Fails
               /\ schedule' = (schedule \ gone) \ popped /\ batch' = popped
               /\ spc' = IF popped = {} THEN "waiting" ELSE "dispatching"
    <3>1. PICK n \in 1 .. 2 : \E gone \in Lowest(n * BatchSize, schedule) :
               \E popped \in Lowest(BatchSize, schedule \ gone) :
                 /\ schedule' = (schedule \ gone) \ popped /\ batch' = popped
                 /\ spc' = IF popped = {} THEN "waiting" ELSE "dispatching"
      BY <2>4
    <3>2. \A gone \in Lowest(n * BatchSize, schedule) : gone = schedule
      BY <1>0, AllPopped DEF TypeOK
    <3>3. \A popped \in Lowest(BatchSize, {}) : popped = {}
      BY DEF Lowest
    <3>4. schedule' = {} /\ batch' = {} /\ spc' = "waiting"
      <4>1. schedule \ schedule = {}
        OBVIOUS
      <4> QED
        BY <3>1, <3>2, <3>3, <4>1
    <3>5. v \in Nat
      BY <1>v, <2>4
    <3> QED
      BY <1>0, <2>1, <3>4, <3>5, WorkEnds
  <2> QED
    BY <1>3, <2>2, <2>3, <2>4 DEF PopDue
<1>5. CASE Reinsert
  <2>1. /\ spc = "dispatching" /\ spc' = "waiting" /\ batch' = {} /\ Working
        /\ UNCHANGED <<tickedAt, untilTick, ticked>> /\ v \in Nat /\ v >= w
    BY <1>5, <1>v DEF Reinsert, Working
  <2>2. \A m \in batch : score[m] > tickedAt
    <3>1. PICK k \in Monitors : /\ k \in batch /\ ~(score[k] <= tickedAt)
                                /\ \A m \in batch : score[k] <= score[m]
      BY <1>5 DEF Reinsert, IsNext, Due
    <3>2. batch \subseteq Monitors
      BY <1>0 DEF TypeOK
    <3> QED
      BY <1>0, <3>1, <3>2, Numbers
  <2>3. \A m \in schedule' :
          (m \in schedule \/ m \in batch) /\ score'[m] = score[m]
    BY <1>0, <1>5 DEF Reinsert, Apart, TypeOK
  <2>4. \A m \in schedule : score[m] >= -(w - tickedAt)
    BY <2>1 DEF OnTime, Grace
  <2>5. schedule \subseteq Monitors /\ batch \subseteq Monitors
    BY <1>0 DEF TypeOK
  <2>6. \A m \in schedule' : score'[m] >= -(v - tickedAt)
    BY <1>0, <1>w, <2>1, <2>2, <2>3, <2>4, <2>5, Numbers
  <2> QED
    BY <1>0, <2>1, <2>6, WorkEnds
<1>6. CASE EndWork
  <2>1. /\ spc = "dispatching" /\ spc' = "waiting" /\ batch' = {} /\ Working
        /\ UNCHANGED <<schedule, score, tickedAt, untilTick, ticked>> /\ v = w
    BY <1>6, <1>w DEF EndWork, Working, worldVars
  <2> QED
    BY <1>0, <1>w, <2>1, WorkEnds DEF OnTime, Grace
<1>7. ASSUME NEW m \in Monitors, Dispatch(m) PROVE OnTime'
  <2>1. /\ batch' = batch \ {m} /\ m \in batch /\ m \notin schedule
        /\ UNCHANGED goroutineVars /\ schedule' = schedule /\ faults' = faults
        /\ \A k \in Monitors \ {m} : score'[k] = score[k]
    BY <1>0, <1>7 DEF Dispatch, IsNext, Apart, worldVars, TypeOK
  <2>2. schedule \subseteq Monitors \ {m} /\ batch' \subseteq Monitors \ {m}
    BY <1>0, <2>1 DEF TypeOK
  <2> QED
    BY <1>0, <1>v, <2>1, <2>2, OthersKeepTime
<1>8. ASSUME NEW m \in Monitors, Backpressure(m) PROVE OnTime'
  BY <1>0, <1>8, RoomForOneMore, SchedulerAssumption
  DEF Backpressure, IsNext, TypeOK
<1>9. CASE TimePasses
  <2>1. /\ spc' = spc /\ schedule' = schedule /\ batch' = batch /\ v = w
        /\ spc = "waiting" => ~ticked
        /\ Working => tickedAt > -MaxWork
        /\ tickedAt' = IF Working THEN tickedAt - 1 ELSE tickedAt
        /\ untilTick' = IF untilTick = 1 THEN TickInterval ELSE untilTick - 1
        /\ ticked' <=> ticked \/ untilTick = 1
    BY <1>0, <1>9, <1>w DEF TimePasses, worldVars, TypeOK
  <2>2. \A m \in schedule \cup batch : score'[m] >= score[m] - 1
    <3>1. \A m \in Monitors : Later(score[m]) >= score[m] - 1
      BY <1>0, Numbers DEF Later
    <3>2. \A m \in schedule \cup batch :
            m \in Monitors /\ score'[m] = Later(score[m])
      BY <1>0, <1>9 DEF TimePasses, TypeOK
    <3> QED
      BY <3>1, <3>2
  <2>3. spc \in {"waiting", "popping", "dispatching"} /\ ticked \in BOOLEAN
    BY <1>0 DEF OnTime, TypeOK
  <2>4. Working => ~ticked
    BY <1>0, <2>1, Numbers DEF OnTime, InStep, Roomy
  <2>5. InStep'
    <3>1. CASE spc = "waiting"
      BY <1>0, <2>1, <3>1, Numbers DEF InStep, Working
    <3>2. CASE Working
      <4>1. /\ ~ticked /\ untilTick = TickInterval + tickedAt
            /\ tickedAt' = tickedAt - 1 /\ Working'
        BY <2>1, <2>4, <3>2 DEF OnTime, InStep, Working
      <4>2. CASE untilTick = 1
        BY <1>0, <2>1, <4>1, <4>2, Numbers DEF InStep, Working
      <4>3. CASE untilTick # 1
        BY <1>0, <2>1, <4>1, <4>3, Numbers DEF InStep, Working
      <4> QED
        BY <4>2, <4>3
    <3> QED
      BY <2>3, <3>1, <3>2 DEF Working
  <2> PICK g, h : g = Grace /\ h = Grace'
    OBVIOUS
  <2>6. h = g + 1 /\ g \in Int
    <3>1. CASE spc = "waiting" /\ untilTick = 1
      BY <1>0, <1>w, <2>1, <3>1, Numbers DEF Grace
    <3>2. CASE spc = "waiting" /\ untilTick # 1
      BY <1>0, <1>w, <2>1, <3>2, Numbers DEF Grace
    <3>3. CASE Working
      <4>1. tickedAt' = tickedAt - 1
        BY <2>1, <3>3
      <4> QED
        BY <1>0, <1>w, <2>1, <3>3, <4>1, Numbers DEF Grace, Working
    <3> QED
      BY <2>3, <3>1, <3>2, <3>3 DEF Working
  <2>7. \A m \in schedule \cup batch : score[m] \in Int /\ score'[m] \in Int
    BY <1>0, <2>1, Numbers DEF TypeOK, Scores
  <2>8. \A m \in schedule' : score'[m] >= -h
    BY <2>1, <2>2, <2>6, <2>7 DEF OnTime
  <2>9. \A m \in batch' : score'[m] >= -(v + TickInterval - tickedAt')
    <3>1. CASE Working
      BY <1>0, <1>w, <2>1, <2>2, <2>7, <3>1, Numbers DEF OnTime
    <3>2. CASE ~Working
      BY <1>0, <2>1, <2>3, <3>2 DEF Working, BatchHeld
    <3> QED
      BY <3>1, <3>2
  <2> QED
    BY <2>1, <2>3, <2>5, <2>8, <2>9 DEF OnTime
<1>10. CASE Receive \/ UNCHANGED vars \/ \E m \in Monitors : GiveUp(m)
  <2>1. UNCHANGED <<schedule, score, batch, goroutineVars, faults>>
    BY <1>10 DEF Receive, GiveUp, vars, worldVars
  <2> QED
    BY <1>0, <1>v, <2>1, OthersKeepTime
<1>13. ASSUME NEW m \in Monitors, ScheduleMonitor(m) \/ Activate(m)
       PROVE  OnTime'
  <2>1. /\ m \notin schedule /\ m \notin batch /\ batch' = batch
        /\ UNCHANGED goroutineVars /\ (Works \/ Fails)
        /\ ZAddFails(m) \/ \E d \in Delays : ZAdd(m, d)
    BY <1>0, <1>13 DEF ScheduleMonitor, Activate, Apart
  <2>2. schedule \subseteq Monitors \ {m} /\ batch \subseteq Monitors \ {m}
    BY <1>0, <2>1 DEF TypeOK
  <2>3. \A k \in Monitors \ {m} : score'[k] = score[k]
    BY <1>0, <2>1 DEF ZAdd, ZAddFails, TypeOK
  <2>4. \A k \in schedule' : k \in schedule \/ (k = m /\ score'[m] >= 0)
    BY <1>0, <2>1, Numbers DEF ZAdd, ZAddFails, TypeOK
  <2> QED
    BY <1>0, <1>v, <2>1, <2>2, <2>3, <2>4, OthersKeepTime
<1>17. CASE Stop \/ Abandon \/ Cancel \/ Restart
  BY <1>0, <1>17 DEF Stop, Abandon, Cancel, Restart
<1> QED
  BY <1>1, <1>3, <1>5, <1>6, <1>7, <1>8, <1>9, <1>10, <1>13, <1>17
  DEF Next, Goroutine

(* When a batch takes every monitor, the job channel has room for all and     *)
(* doWork is done before the next tick, and as long as the process neither    *)
(* dies nor is told to stop, a monitor that was not late at the start is      *)
(* handed over at most one tick and one doWork after its time, and one tick   *)
(* more for each failed command.                                             *)
THEOREM PunctualHolds ==
  Roomy => (OnTimeSpec => [](crashes = 0 /\ shutdowns = 0 => Punctual))
<1> SUFFICES ASSUME Roomy
             PROVE  OnTimeSpec => [](crashes = 0 /\ shutdowns = 0 => Punctual)
  OBVIOUS
<1>1. OnTimeSpec => Spec
  BY PTL DEF OnTimeSpec, Spec, OnTimeInit
<1>2. IInv /\ IInv' /\ PInv /\ [Next]_vars => PInv'
  <2> SUFFICES ASSUME IInv, PInv, [Next]_vars, crashes' = 0, shutdowns' = 0
               PROVE  OnTime'
    BY DEF PInv
  <2>1. crashes = 0 /\ shutdowns = 0
    BY CountersGrow DEF IInv, TypeOK
  <2> QED
    BY <2>1, NextOnTime DEF PInv
<1>3. IInv /\ PInv => (crashes = 0 /\ shutdowns = 0 => Punctual)
  BY PunctualFollows DEF IInv
<1>4. OnTimeSpec => []PInv
  BY InitOnTime, Invariance, <1>1, <1>2, PTL DEF OnTimeSpec
<1> QED
  BY Invariance, <1>1, <1>3, <1>4, PTL
=============================================================================
