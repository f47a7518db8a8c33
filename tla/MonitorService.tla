---------------------------- MODULE MonitorService ----------------------------
(***************************************************************************)
(* The API of monitors (internals/modules/monitor) against the pipeline    *)
(* that checks them.  Requests create, read, enable, disable and delete    *)
(* monitors by single statements to PostgreSQL and single commands to      *)
(* Redis; several requests run at once, and checks of the same monitor run *)
(* beside them.  Nothing is locked and nothing is rolled back.             *)
(*                                                                         *)
(* The pipeline appears as far as it shares state with the API: the        *)
(* schedule, the cached monitor, the incident hash and the open rows of    *)
(* monitor_incidents.  Its own failures are the subject of ResultProcessor *)
(* and Scheduler; here only the commands of requests fail, whose context   *)
(* ends when the client goes away.                                         *)
(***************************************************************************)
EXTENDS Integers, FiniteSets

CONSTANTS
  Monitors,       \* the monitors that may come to exist
  Users,
  Owner,          \* who creates a monitor
  Quota,          \* the 10 of IncrementMonitorCount
  Requests,       \* API requests that may run at once
  Checks,         \* checks that may be under way at once
  MaxRequests,    \* bound: requests made
  MaxOutages,     \* bound: times an endpoint goes down
  MaxFaults       \* bound: failed commands of requests

Ops == {"create", "read", "enable", "disable", "delete"}
NoMonitor == "none"

ASSUME MonitorServiceAssumption ==
  /\ Owner \in [Monitors -> Users] /\ IsFiniteSet(Monitors)
  /\ NoMonitor \notin Monitors
  /\ Quota \in Nat
  /\ {MaxRequests, MaxOutages, MaxFaults} \subseteq Nat

VARIABLES
  \* PostgreSQL
  row,           \* monitors: not yet created, enabled, disabled or deleted
  count,         \* users.monitors_count
  open,          \* open rows of monitor_incidents
  \* Redis
  schedule,      \* monitor:schedule
  cache,         \* monitor:<id>: the "enabled" that was cached, or none
  hash,          \* monitor:incident:<id>; two absent fields: no key
  \* requests and checks: the next step, and what they hold
  rpc, req, cpc, check,
  \* the world
  health, made, outages, faults,
  contended      \* history: changed by two requests at the same time

rows == <<row, count, open>>
keys == <<schedule, cache, hash>>
requestVars == <<rpc, req>>
checkVars == <<cpc, check>>
worldVars == <<health, outages>>
vars == <<rows, keys, requestVars, checkVars, worldVars, made, faults,
          contended>>

RequestSteps ==
  {"idle", "increment", "insert", "schedule", "find", "setEnabled",
   "closeOpenIncident", "delMonitor", "delSchedule", "clearIncident",
   "deleteRow", "decrement", "readCache", "readRow", "fillCache"}
CheckSteps ==
  {"idle", "popped", "fillCache", "checking", "markAlerted", "createIncident",
   "markDBIncident", "getIncident", "closeIncident", "clearIncident",
   "reschedule"}

States == {"enabled", "disabled"}
NoHash == [alerted |-> FALSE, db_incident |-> FALSE]
NoRequest == [op |-> "none", monitor |-> NoMonitor, seen |-> "none"]
NoCheck == [monitor |-> NoMonitor, seen |-> "none"]

TypeOK ==
  /\ row \in [Monitors -> States \cup {"unborn", "deleted"}]
  /\ count \in [Users -> 0 .. Quota] /\ open \in [Monitors -> Nat]
  /\ schedule \in SUBSET Monitors
  /\ cache \in [Monitors -> States \cup {"none"}]
  /\ hash \in [Monitors -> [alerted : BOOLEAN, db_incident : BOOLEAN]]
  /\ rpc \in [Requests -> RequestSteps]
  /\ req \in [Requests -> [op : Ops, monitor : Monitors,
                           seen : States \cup {"none"}] \cup {NoRequest}]
  /\ cpc \in [Checks -> CheckSteps]
  /\ check \in [Checks -> [monitor : Monitors, seen : States \cup {"none"}]
                            \cup {NoCheck}]
  /\ health \in [Monitors -> {"up", "down"}]
  /\ made \in Nat /\ outages \in Nat /\ faults \in Nat
  /\ contended \in SUBSET Monitors

Init ==
  /\ row = [m \in Monitors |-> "unborn"]
  /\ count = [u \in Users |-> 0] /\ open = [m \in Monitors |-> 0]
  /\ schedule = {} /\ cache = [m \in Monitors |-> "none"]
  /\ hash = [m \in Monitors |-> NoHash]
  /\ rpc = [r \in Requests |-> "idle"] /\ req = [r \in Requests |-> NoRequest]
  /\ cpc = [c \in Checks |-> "idle"] /\ check = [c \in Checks |-> NoCheck]
  /\ health = [m \in Monitors |-> "up"]
  /\ made = 0 /\ outages = 0 /\ faults = 0 /\ contended = {}

Exists(m) == row[m] \in States

-----------------------------------------------------------------------------
(* The endpoints.                                                            *)

GoDown(m) ==
  /\ health[m] = "up" /\ outages < MaxOutages
  /\ health' = [health EXCEPT ![m] = "down"] /\ outages' = outages + 1
  /\ UNCHANGED <<rows, keys, requestVars, checkVars, made, faults, contended>>

ComeBack(m) ==
  /\ health[m] = "down" /\ health' = [health EXCEPT ![m] = "up"]
  /\ UNCHANGED <<rows, keys, requestVars, checkVars, outages, made, faults,
                 contended>>

-----------------------------------------------------------------------------
(* Requests.  Works and Fails are the two outcomes of a command; one that     *)
(* fails may have been carried out.                                          *)

Works == UNCHANGED faults
Fails == faults < MaxFaults /\ faults' = faults + 1
Surroundings == <<checkVars, worldVars, made, contended>>

At(r, step) == rpc[r] = step
Goto(r, step) == rpc' = [rpc EXCEPT ![r] = step] /\ UNCHANGED req
Answer(r) == /\ rpc' = [rpc EXCEPT ![r] = "idle"]
             /\ req' = [req EXCEPT ![r] = NoRequest]
Subject(r) == req[r].monitor

Changing(m) ==
  {r \in Requests : Subject(r) = m /\ req[r].op \in {"enable", "disable", "delete"}}

(* A request that has passed authentication, team access and validation; it  *)
(* comes from the team of the monitor, as GetMonitor compares.               *)
(* One that creates a monitor gets an id nobody else has.                    *)
Start(r, op, m, step) ==
  /\ At(r, "idle") /\ made < MaxRequests /\ made' = made + 1
  /\ IF op = "create"
     THEN row[m] = "unborn" /\ \A q \in Requests : Subject(q) # m
     ELSE row[m] # "unborn"
  /\ rpc' = [rpc EXCEPT ![r] = step]
  /\ req' = [req EXCEPT ![r] = [op |-> op, monitor |-> m, seen |-> "none"]]
  /\ contended' = IF Changing(m) # {} /\ op \in {"enable", "disable", "delete"}
                  THEN contended \cup {m} ELSE contended
  /\ UNCHANGED <<rows, keys, checkVars, worldVars, faults>>

StartCreate(r, m) == Start(r, "create", m, "increment")
StartRead(r, m) == Start(r, "read", m, "readCache")
StartUpdateStatus(r, m) ==
  \E op \in {"enable", "disable"} : Start(r, op, m, "find")
StartDelete(r, m) == Start(r, "delete", m, "find")

-----------------------------------------------------------------------------
(* CreateMonitor.                                                            *)

(* Mutant: the UPDATE has no "AND monitors_count < 10".                      *)
IncrementMonitorCountAnyway(r) ==
  /\ At(r, "increment") /\ Works
  /\ count' = [count EXCEPT ![Owner[Subject(r)]] = @ + 1]
  /\ Goto(r, "insert")
  /\ UNCHANGED <<row, open, keys, Surroundings>>

(* An UPDATE that counts the monitor unless the quota is used up.            *)
IncrementMonitorCount(r) ==
  LET u == Owner[Subject(r)]
      room == count[u] < Quota
      counted == [count EXCEPT ![u] = @ + 1] IN
  /\ At(r, "increment")
  /\ \/ room /\ Works /\ count' = counted /\ Goto(r, "insert")
     \/ ~room /\ Works /\ UNCHANGED count /\ Answer(r)
     \/ Fails /\ count' \in {count} \cup {c \in {counted} : room} /\ Answer(r)
  /\ UNCHANGED <<row, open, keys, Surroundings>>

(* The reserved place is not given back when the INSERT fails.               *)
InsertMonitor(r) ==
  LET created == [row EXCEPT ![Subject(r)] = "enabled"] IN
  /\ At(r, "insert")
  /\ \/ Works /\ row' = created /\ Goto(r, "schedule")
     \/ Fails /\ row' \in {row, created} /\ Answer(r)
  /\ UNCHANGED <<count, open, keys, Surroundings>>

(* Mutant: the monitor is not scheduled when it is enabled.                  *)
ScheduleCreatedOnly(r) ==
  /\ At(r, "schedule") /\ Works
  /\ schedule' = IF req[r].op = "create" THEN schedule \cup {Subject(r)}
                 ELSE schedule
  /\ Answer(r)
  /\ UNCHANGED <<rows, cache, hash, Surroundings>>

(* ScheduleMonitor: a failure is logged and the request answered.            *)
ScheduleMonitor(r) ==
  /\ At(r, "schedule")
  /\ \/ Works /\ schedule' = schedule \cup {Subject(r)}
     \/ Fails /\ schedule' \in {schedule, schedule \cup {Subject(r)}}
  /\ Answer(r)
  /\ UNCHANGED <<rows, cache, hash, Surroundings>>

CreateMonitor(r) ==
  IncrementMonitorCount(r) \/ InsertMonitor(r) \/ ScheduleMonitor(r)

-----------------------------------------------------------------------------
(* UpdateMonitorStatus and DeleteMonitor.                                    *)

Wanted(op) == IF op = "enable" THEN "enabled" ELSE "disabled"

(* The row is read first: no row, or one that is as wanted, ends the request. *)
FindMonitor(r) ==
  LET op == req[r].op  m == Subject(r) IN
  /\ At(r, "find")
  /\ \/ /\ Works /\ Exists(m) /\ (op = "delete" \/ row[m] # Wanted(op))
        /\ Goto(r, IF op = "delete" THEN "delMonitor" ELSE "setEnabled")
     \/ /\ Works /\ ~(Exists(m) /\ (op = "delete" \/ row[m] # Wanted(op)))
        /\ Answer(r)
     \/ Fails /\ Answer(r)
  /\ UNCHANGED <<rows, keys, Surroundings>>

SetEnabled(r) ==
  LET op == req[r].op  m == Subject(r)
      set == IF Exists(m) THEN [row EXCEPT ![m] = Wanted(op)] ELSE row IN
  /\ At(r, "setEnabled")
  /\ \/ /\ Works /\ Exists(m) /\ row' = set
        /\ Goto(r, IF op = "enable" THEN "schedule" ELSE "closeOpenIncident")
     \/ Works /\ ~Exists(m) /\ UNCHANGED row /\ Answer(r)
     \/ Fails /\ row' \in {row, set} /\ Answer(r)
  /\ UNCHANGED <<count, open, keys, Surroundings>>

(* The rest of disabling logs or ignores errors and goes on.                 *)
CloseOpenIncident(r) ==
  LET closed == [open EXCEPT ![Subject(r)] = 0] IN
  /\ At(r, "closeOpenIncident") /\ Goto(r, "delMonitor")
  /\ \/ Works /\ open' = closed
     \/ Fails /\ open' \in {open, closed}
  /\ UNCHANGED <<row, count, keys, Surroundings>>

DelMonitor(r) ==
  LET deleted == [cache EXCEPT ![Subject(r)] = "none"] IN
  /\ At(r, "delMonitor") /\ Goto(r, "delSchedule")
  /\ \/ Works /\ cache' = deleted
     \/ Fails /\ cache' \in {cache, deleted}
  /\ UNCHANGED <<rows, schedule, hash, Surroundings>>

DelSchedule(r) ==
  /\ At(r, "delSchedule") /\ Goto(r, "clearIncident")
  /\ \/ Works /\ schedule' = schedule \ {Subject(r)}
     \/ Fails /\ schedule' \in {schedule, schedule \ {Subject(r)}}
  /\ UNCHANGED <<rows, cache, hash, Surroundings>>

(* DEL of the hash; the HDEL of DelStatus that follows it names no field and  *)
(* is refused, which is ignored as well.                                     *)
ClearIncident(r) ==
  LET cleared == [hash EXCEPT ![Subject(r)] = NoHash]
      delete == req[r].op = "delete" IN
  /\ At(r, "clearIncident")
  /\ IF delete THEN Goto(r, "deleteRow") ELSE Answer(r)
  /\ \/ Works /\ hash' = cleared
     \/ Fails /\ hash' \in {hash, cleared}
  /\ UNCHANGED <<rows, schedule, cache, Surroundings>>

DisableMonitor(r) == DelMonitor(r) \/ DelSchedule(r) \/ ClearIncident(r)

UpdateMonitorStatus(r) == FindMonitor(r) \/ SetEnabled(r) \/ CloseOpenIncident(r)

(* Mutant: the number of deleted rows is not looked at.                      *)
DeleteRowUnchecked(r) ==
  LET m == Subject(r) IN
  /\ At(r, "deleteRow") /\ Works
  /\ row' = [row EXCEPT ![m] = "deleted"] /\ open' = [open EXCEPT ![m] = 0]
  /\ Goto(r, "decrement")
  /\ UNCHANGED <<count, keys, Surroundings>>

(* The rows of monitor_incidents go with the monitor's.  Of two requests that *)
(* delete it only one finds a row.                                           *)
DeleteRow(r) ==
  LET m == Subject(r)
      gone == /\ row' = [row EXCEPT ![m] = "deleted"]
              /\ open' = [open EXCEPT ![m] = 0] IN
  /\ At(r, "deleteRow")
  /\ \/ Works /\ Exists(m) /\ gone /\ Goto(r, "decrement")
     \/ Works /\ ~Exists(m) /\ UNCHANGED <<row, open>> /\ Answer(r)
     \/ Fails /\ (gone \/ UNCHANGED <<row, open>>) /\ Answer(r)
  /\ UNCHANGED <<count, keys, Surroundings>>

DecrementMonitorCount(r) ==
  LET u == Owner[Subject(r)]
      less == [count EXCEPT ![u] = IF @ > 0 THEN @ - 1 ELSE 0] IN
  /\ At(r, "decrement") /\ Answer(r)
  /\ \/ Works /\ count' = less
     \/ Fails /\ count' \in {count, less}
  /\ UNCHANGED <<row, open, keys, Surroundings>>

DeleteMonitor(r) == DeleteRow(r) \/ DecrementMonitorCount(r)

-----------------------------------------------------------------------------
(* GetMonitor: the cache, or the row, which is then cached.                  *)

ReadCache(r) ==
  /\ At(r, "readCache")
  /\ \/ Works /\ cache[Subject(r)] # "none" /\ Answer(r)
     \/ Works /\ cache[Subject(r)] = "none" /\ Goto(r, "readRow")
     \/ Fails /\ Goto(r, "readRow")
  /\ UNCHANGED <<rows, keys, Surroundings>>

ReadRow(r) ==
  LET m == Subject(r) IN
  /\ At(r, "readRow")
  /\ \/ /\ Works /\ Exists(m)
        /\ req' = [req EXCEPT ![r].seen = row[m]]
        /\ rpc' = [rpc EXCEPT ![r] = "fillCache"]
     \/ Works /\ ~Exists(m) /\ Answer(r)
     \/ Fails /\ Answer(r)
  /\ UNCHANGED <<rows, keys, Surroundings>>

FillCache(r) ==
  LET filled == [cache EXCEPT ![Subject(r)] = req[r].seen] IN
  /\ At(r, "fillCache") /\ Answer(r)
  /\ \/ Works /\ cache' = filled
     \/ Fails /\ cache' \in {cache, filled}
  /\ UNCHANGED <<rows, schedule, hash, Surroundings>>

GetMonitor(r) == ReadCache(r) \/ ReadRow(r) \/ FillCache(r)

-----------------------------------------------------------------------------
(* Checks.                                                                   *)

AtCheck(c, step) == cpc[c] = step
Proceed(c, step) == cpc' = [cpc EXCEPT ![c] = step] /\ UNCHANGED check
Drop(c) == /\ cpc' = [cpc EXCEPT ![c] = "idle"]
           /\ check' = [check EXCEPT ![c] = NoCheck]
Checked(c) == check[c].monitor
Outside == <<requestVars, worldVars, made, faults, contended>>

(* The scheduler pops a monitor; it hands it on or, if there is no room or it *)
(* was not due, puts it back.                                                *)
Pop(c, m) ==
  /\ AtCheck(c, "idle") /\ m \in schedule /\ schedule' = schedule \ {m}
  /\ cpc' = [cpc EXCEPT ![c] = "popped"]
  /\ check' = [check EXCEPT ![c] = [monitor |-> m, seen |-> "none"]]
  /\ UNCHANGED <<rows, cache, hash, Outside>>

PutBack(c) ==
  /\ AtCheck(c, "popped") /\ schedule' = schedule \cup {Checked(c)} /\ Drop(c)
  /\ UNCHANGED <<rows, cache, hash, Outside>>

(* LoadMonitor reads the row and writes what it has read to the cache.       *)
LoadRow(c) ==
  LET m == Checked(c) IN
  /\ AtCheck(c, "popped")
  /\ \/ /\ Exists(m)
        /\ cpc' = [cpc EXCEPT ![c] = "fillCache"]
        /\ check' = [check EXCEPT ![c].seen = row[m]]
     \/ ~Exists(m) /\ Drop(c)
  /\ UNCHANGED <<rows, keys, Outside>>

(* Mutant: SETNX in place of SET.                                            *)
LoadIntoCacheIfAbsent(c) ==
  /\ AtCheck(c, "fillCache")
  /\ cache' = [cache EXCEPT ![Checked(c)] = IF @ = "none" THEN check[c].seen
                                            ELSE @]
  /\ IF check[c].seen = "enabled" THEN Proceed(c, "checking") ELSE Drop(c)
  /\ UNCHANGED <<rows, schedule, hash, Outside>>

(* Mutant: monitor.Enabled is not looked at.                                 *)
LoadIntoCacheForAll(c) ==
  /\ AtCheck(c, "fillCache") /\ Proceed(c, "checking")
  /\ cache' = [cache EXCEPT ![Checked(c)] = check[c].seen]
  /\ UNCHANGED <<rows, schedule, hash, Outside>>

(* A monitor that was read as disabled is dropped.                           *)
LoadIntoCache(c) ==
  /\ AtCheck(c, "fillCache")
  /\ cache' = [cache EXCEPT ![Checked(c)] = check[c].seen]
  /\ IF check[c].seen = "enabled" THEN Proceed(c, "checking") ELSE Drop(c)
  /\ UNCHANGED <<rows, schedule, hash, Outside>>

Examine(c) ==
  /\ AtCheck(c, "checking")
  /\ Proceed(c, IF health[Checked(c)] = "up" THEN "getIncident"
                ELSE "markAlerted")
  /\ UNCHANGED <<rows, keys, Outside>>

(* handleFailure at the threshold, which is taken to be 1.                   *)
MarkAlerted(c) ==
  LET m == Checked(c) IN
  /\ AtCheck(c, "markAlerted")
  /\ hash' = [hash EXCEPT ![m].alerted = TRUE]
  /\ Proceed(c, IF hash[m].alerted THEN "reschedule" ELSE "createIncident")
  /\ UNCHANGED <<rows, schedule, cache, Outside>>

(* The foreign key refuses a row without its monitor.                        *)
CreateIncident(c) ==
  LET m == Checked(c) IN
  /\ AtCheck(c, "createIncident")
  /\ open' = IF Exists(m) THEN [open EXCEPT ![m] = @ + 1] ELSE open
  /\ Proceed(c, IF Exists(m) THEN "markDBIncident" ELSE "reschedule")
  /\ UNCHANGED <<row, count, keys, Outside>>

MarkDBIncident(c) ==
  /\ AtCheck(c, "markDBIncident") /\ Proceed(c, "reschedule")
  /\ hash' = [hash EXCEPT ![Checked(c)].db_incident = TRUE]
  /\ UNCHANGED <<rows, schedule, cache, Outside>>

(* handleSuccess.                                                            *)
GetIncident(c) ==
  LET found == hash[Checked(c)] IN
  /\ AtCheck(c, "getIncident")
  /\ Proceed(c, IF found = NoHash THEN "reschedule"
                ELSE IF found.db_incident THEN "closeIncident"
                ELSE "clearIncident")
  /\ UNCHANGED <<rows, keys, Outside>>

CloseIncident(c) ==
  /\ AtCheck(c, "closeIncident") /\ Proceed(c, "clearIncident")
  /\ open' = [open EXCEPT ![Checked(c)] = 0]
  /\ UNCHANGED <<row, count, keys, Outside>>

ClearAfterRecovery(c) ==
  /\ AtCheck(c, "clearIncident") /\ Proceed(c, "reschedule")
  /\ hash' = [hash EXCEPT ![Checked(c)] = NoHash]
  /\ UNCHANGED <<rows, schedule, cache, Outside>>

(* The deferred ScheduleMonitor does not ask whether the monitor still exists. *)
Reschedule(c) ==
  /\ AtCheck(c, "reschedule") /\ schedule' = schedule \cup {Checked(c)}
  /\ Drop(c)
  /\ UNCHANGED <<rows, cache, hash, Outside>>

-----------------------------------------------------------------------------
RequestStep(r) ==
  \/ CreateMonitor(r) \/ UpdateMonitorStatus(r) \/ DisableMonitor(r)
  \/ DeleteMonitor(r) \/ GetMonitor(r)

CheckStep(c) ==
  \/ LoadRow(c) \/ LoadIntoCache(c) \/ Examine(c) \/ Reschedule(c)
  \/ MarkAlerted(c) \/ CreateIncident(c) \/ MarkDBIncident(c)
  \/ GetIncident(c) \/ CloseIncident(c) \/ ClearAfterRecovery(c)

Next ==
  \/ \E m \in Monitors : GoDown(m) \/ ComeBack(m)
  \/ \E r \in Requests :
       \/ RequestStep(r)
       \/ \E m \in Monitors : \/ StartCreate(r, m) \/ StartRead(r, m)
                              \/ StartUpdateStatus(r, m) \/ StartDelete(r, m)
  \/ \E c \in Checks :
       CheckStep(c) \/ PutBack(c) \/ \E m \in Monitors : Pop(c, m)

Spec == Init /\ [][Next]_vars

(* Requests and checks come to their end, and a scheduled monitor is handed    *)
(* on at some time, however often it is put back: the EveryMonitorIsChecked   *)
(* of Scheduler.                                                             *)
Fairness ==
  /\ \A r \in Requests : WF_vars(RequestStep(r))
  /\ \A c \in Checks : WF_vars(CheckStep(c) /\ cpc[c] # "popped")
  /\ \A m \in Monitors :
       /\ WF_vars(\E c \in Checks : Pop(c, m))
       /\ SF_vars(\E c \in Checks : Checked(c) = m /\ LoadRow(c))

FairSpec == Spec /\ Fairness

-----------------------------------------------------------------------------
Owned(u) == {m \in Monitors : Owner[m] = u /\ Exists(m)}
Pending(u, step) == {r \in Requests : At(r, step) /\ Owner[Subject(r)] = u}
Unattended(m) == \A r \in Requests : Subject(r) # m

(* However requests interleave and whichever of their commands fail, no user  *)
(* has more monitors than the quota allows or than are counted: the place is  *)
(* taken before the row is inserted and given back after it is deleted, once. *)
(* While no command fails the count is exact, so no place is lost: it is that *)
(* of the rows, those about to be inserted and those just deleted.            *)
QuotaIsKept ==
  \A u \in Users :
    LET rowsOf == Cardinality(Owned(u)) IN
    /\ rowsOf <= count[u]
    /\ faults = 0 => count[u] = rowsOf + Cardinality(Pending(u, "insert"))
                                + Cardinality(Pending(u, "decrement"))

Held(m) ==
  \/ m \in schedule
  \/ \E c \in Checks : Checked(c) = m /\ check[c].seen # "disabled"

(* While no command fails and no two requests change a monitor at the same    *)
(* time, an enabled monitor is in the schedule or on its way back to it,      *)
(* whatever checks of it were under way while it was disabled and enabled.    *)
EnabledIsHeld ==
  faults = 0 =>
    \A m \in Monitors \ contended :
      row[m] = "enabled" /\ Unattended(m) => Held(m)

(* A monitor that stays disabled or deleted ends up in no queue, although     *)
(* checks put it back without looking: the next LoadMonitor drops it.         *)
DisabledIsLeftAlone ==
  \A m \in Monitors :
    <>[](row[m] # "enabled") =>
      <>[](m \notin schedule /\ \A c \in Checks : Checked(c) # m)

(* UpdateMonitorStatus leaves the cache alone when it enables a monitor; the  *)
(* next check puts that right, so that GetMonitor does not go on answering    *)
(* that the monitor is disabled until its key expires.                       *)
CacheCatchesUp ==
  \A m \in Monitors :
    <>[](row[m] = "enabled" /\ m \notin contended /\ faults = 0)
      => <>[](cache[m] # "disabled")

(* "Auto-resolves incidents" (README.md:16): an enabled monitor whose endpoint *)
(* stays up has no open incident in the end.                                 *)
RecoveryIsReported ==
  \A m \in Monitors :
    <>[](row[m] = "enabled" /\ health[m] = "up" /\ m \notin contended)
      => <>[](open[m] = 0)
=============================================================================
