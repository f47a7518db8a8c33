------------------------ MODULE MonitorServiceProofs ------------------------
(***************************************************************************)
(* Theorems about MonitorService, for any number of monitors, users,       *)
(* requests, checks and failed commands and for any quota: the types, and  *)
(* that nobody has more monitors than are counted.                         *)
(***************************************************************************)
EXTENDS MonitorService, FiniteSetTheorems, TLAPS

(* The operations that come to a step, and what they hold there.            *)
PathHolds(r) ==
  LET at == rpc[r]  op == req[r].op IN
  /\ at = "idle" <=> req[r] = NoRequest
  /\ at \in {"increment", "insert"} => op = "create"
  /\ at = "find" => op \in {"enable", "disable", "delete"}
  /\ at = "schedule" => op \in {"create", "enable"}
  /\ at = "setEnabled" => op \in {"enable", "disable"}
  /\ at = "closeOpenIncident" => op = "disable"
  /\ at \in {"delMonitor", "delSchedule", "clearIncident"}
       => op \in {"disable", "delete"}
  /\ at \in {"deleteRow", "decrement"} => op = "delete"
  /\ at = "fillCache" => req[r].seen \in States

(* The id of a monitor whose row is to be inserted is nobody else's.        *)
Fresh(r) ==
  rpc[r] \in {"increment", "insert"} =>
    /\ row[Subject(r)] = "unborn"
    /\ \A q \in Requests : Subject(q) = Subject(r) => q = r

CheckHolds(c) ==
  /\ cpc[c] = "idle" <=> check[c] = NoCheck
  /\ cpc[c] = "fillCache" => check[c].seen \in States

IInv ==
  /\ TypeOK
  /\ \A r \in Requests : PathHolds(r) /\ Fresh(r)
  /\ \A c \in Checks : CheckHolds(c)

RequestRecords ==
  [op : Ops, monitor : Monitors, seen : States \cup {"none"}] \cup {NoRequest}
RequestTypes ==
  rpc \in [Requests -> RequestSteps] /\ req \in [Requests -> RequestRecords]
RowTypes ==
  /\ row \in [Monitors -> States \cup {"unborn", "deleted"}]
  /\ count \in [Users -> 0 .. Quota] /\ open \in [Monitors -> Nat]
KeyTypes ==
  /\ schedule \in SUBSET Monitors
  /\ cache \in [Monitors -> States \cup {"none"}]
  /\ hash \in [Monitors -> [alerted : BOOLEAN, db_incident : BOOLEAN]]
CheckTypes ==
  /\ cpc \in [Checks -> CheckSteps]
  /\ check \in [Checks -> [monitor : Monitors, seen : States \cup {"none"}]
                            \cup {NoCheck}]
WorldTypes ==
  /\ health \in [Monitors -> {"up", "down"}]
  /\ made \in Nat /\ outages \in Nat /\ faults \in Nat
  /\ contended \in SUBSET Monitors

LEMMA TypesSplit ==
  TypeOK <=> RowTypes /\ KeyTypes /\ RequestTypes /\ CheckTypes /\ WorldTypes
BY DEF TypeOK, RowTypes, KeyTypes, RequestTypes, CheckTypes, WorldTypes,
       RequestRecords

LEMMA InitInv == Init => IInv
<1> SUFFICES ASSUME Init PROVE IInv
  OBVIOUS
<1>1. TypeOK
  BY MonitorServiceAssumption
     DEF Init, TypeOK, States, NoHash, RequestSteps, CheckSteps
<1>2. \A r \in Requests : PathHolds(r) /\ Fresh(r)
  BY DEF Init, PathHolds, Fresh
<1>3. \A c \in Checks : CheckHolds(c)
  BY DEF Init, CheckHolds
<1> QED
  BY <1>1, <1>2, <1>3 DEF IInv

-----------------------------------------------------------------------------
LEMMA FaultsGrow ==
  ASSUME IInv, Works \/ Fails
  PROVE  /\ faults' = 0 => faults = 0 /\ ~Fails
         /\ Fails => faults' # 0
BY DEF IInv, TypeOK, Works, Fails

(* A request moves: the others stay where they are.                        *)
Moves(r) ==
  /\ RequestTypes' /\ PathHolds(r)'
  /\ \A q \in Requests \ {r} : rpc'[q] = rpc[q] /\ req'[q] = req[q]

(* It goes on with the same monitor and operation, or has ended.            *)
Continues(r) ==
  /\ Moves(r) /\ rpc[r] # "idle"
  /\ rpc'[r] \notin {"increment"} /\ (rpc'[r] = "insert" => rpc[r] = "increment")
  /\ \/ rpc'[r] = "idle" /\ req'[r] = NoRequest
     \/ rpc'[r] # "idle" /\ Subject(r)' = Subject(r) /\ req'[r].op = req[r].op

LEMMA AnswerContinues ==
  ASSUME IInv, NEW r \in Requests, Answer(r), rpc[r] # "idle"
  PROVE  Continues(r) /\ rpc'[r] = "idle"
BY DEF IInv, TypeOK, Answer, Continues, Moves, RequestTypes, RequestRecords,
       PathHolds, RequestSteps

LEMMA GotoContinues ==
  ASSUME IInv, NEW r \in Requests, NEW step \in RequestSteps \ {"idle", "increment"},
         Goto(r, step), rpc[r] # "idle", PathHolds(r)',
         step = "insert" => rpc[r] = "increment"
  PROVE  Continues(r) /\ rpc'[r] = step
BY DEF IInv, TypeOK, Goto, Continues, Moves, RequestTypes, RequestRecords,
       PathHolds, Subject

(* The monitor a request is about, and whose it is.                         *)
LEMMA SubjectIsMonitor ==
  ASSUME IInv, NEW r \in Requests, rpc[r] # "idle"
  PROVE  /\ Subject(r) \in Monitors /\ Owner[Subject(r)] \in Users
         /\ req[r].op \in Ops /\ req[r].seen \in States \cup {"none"}
BY MonitorServiceAssumption DEF IInv, TypeOK, PathHolds, Subject

LEMMA HashIsTyped ==
  NoHash \in [alerted : BOOLEAN, db_incident : BOOLEAN]
BY DEF NoHash

(* A step of a request leaves the invariant true, if what it writes is of   *)
(* the right types and no other row changes.                                *)
LEMMA ContinuingKeeps ==
  ASSUME IInv, NEW r \in Requests, Continues(r),
         RowTypes', KeyTypes', WorldTypes', UNCHANGED checkVars,
         \A n \in Monitors : n # Subject(r) => row'[n] = row[n],
         rpc[r] = "increment" => row' = row
  PROVE  IInv'
<1>1. TypeOK'
  <2>1. CheckTypes'
    BY DEF IInv, TypeOK, CheckTypes, checkVars
  <2>2. (RowTypes /\ KeyTypes /\ RequestTypes /\ CheckTypes /\ WorldTypes)'
    BY <2>1 DEF Continues, Moves
  <2>3. TypeOK' <=> (RowTypes /\ KeyTypes /\ RequestTypes /\ CheckTypes /\ WorldTypes)'
    BY DEF TypeOK, RowTypes, KeyTypes, RequestTypes, CheckTypes, WorldTypes,
           RequestRecords
  <2> QED
    BY <2>2, <2>3
<1>2. ASSUME NEW q \in Requests PROVE PathHolds(q)' /\ Fresh(q)'
  <2>1. PathHolds(q)'
    BY DEF IInv, PathHolds, Continues, Moves
  <2>2. Fresh(q)'
    <3>1. CASE q = r
      BY <3>1 DEF IInv, Fresh, Continues, Moves, Subject, PathHolds, NoRequest
    <3>2. CASE q # r
      <4> SUFFICES ASSUME rpc'[q] \in {"increment", "insert"} PROVE Fresh(q)'
        BY DEF Fresh
      <4>1. rpc[q] = rpc'[q] /\ Subject(q)' = Subject(q)
        BY <3>2 DEF Continues, Moves, Subject
      <4>2. Subject(r) # Subject(q) /\ row[Subject(q)] = "unborn"
        BY <3>2, <4>1 DEF IInv, Fresh
      <4>3. Subject(q) \in Monitors
        BY <4>1, SubjectIsMonitor
      <4>4. row'[Subject(q)] = "unborn"
        BY <4>2, <4>3
      <4>5. Subject(r)' # Subject(q)
        BY <4>2, <4>3, MonitorServiceAssumption
           DEF Continues, Subject, NoRequest
      <4>6. \A p \in Requests : Subject(p)' = Subject(q)' => p = q
        BY <4>1, <4>5 DEF IInv, Fresh, Continues, Moves, Subject
      <4> QED
        BY <4>1, <4>4, <4>6 DEF Fresh
    <3> QED
      BY <3>1, <3>2
  <2> QED
    BY <2>1, <2>2
<1>3. \A c \in Checks : CheckHolds(c)'
  BY DEF IInv, CheckHolds, checkVars
<1> QED
  BY <1>1, <1>2, <1>3 DEF IInv

-----------------------------------------------------------------------------
LEMMA CreateKeeps ==
  ASSUME IInv, NEW r \in Requests, CreateMonitor(r) PROVE IInv' /\ Continues(r)
<1> DEFINE m == Subject(r)
<1>1. CASE IncrementMonitorCount(r)
  <2>1. rpc[r] = "increment" /\ req[r].op = "create"
    BY <1>1 DEF IncrementMonitorCount, At, IInv, PathHolds
  <2>2. Continues(r)
    <3>1. Goto(r, "insert") => PathHolds(r)'
      BY <2>1 DEF IInv, TypeOK, Goto, PathHolds
    <3> QED
      BY <1>1, <2>1, <3>1, AnswerContinues, GotoContinues
         DEF IncrementMonitorCount, RequestSteps
  <2>3. UNCHANGED <<row, open, keys, checkVars, worldVars, made, contended>>
    BY <1>1 DEF IncrementMonitorCount, Surroundings
  <2>4. RowTypes'
    <3> DEFINE u == Owner[m]
    <3>1. \/ count' = count
          \/ count[u] < Quota /\ count' = [count EXCEPT ![u] = @ + 1]
      BY <1>1 DEF IncrementMonitorCount
    <3>2. u \in Users /\ count \in [Users -> 0 .. Quota] /\ Quota \in Nat
      BY <2>1, SubjectIsMonitor, MonitorServiceAssumption DEF IInv, TypeOK
    <3> HIDE DEF u
    <3>3. count' \in [Users -> 0 .. Quota]
      BY <3>1, <3>2
    <3> QED
      BY <2>3, <3>3 DEF IInv, TypeOK, RowTypes
  <2>5. KeyTypes' /\ WorldTypes'
    BY <1>1, <2>3 DEF IncrementMonitorCount, Works, Fails, IInv, TypeOK, KeyTypes,
       WorldTypes, keys, worldVars
  <2> QED
    BY <2>2, <2>3, <2>4, <2>5, ContinuingKeeps
<1>2. CASE InsertMonitor(r)
  <2>1. rpc[r] = "insert" /\ req[r].op = "create"
    BY <1>2 DEF InsertMonitor, At, IInv, PathHolds
  <2>2. Continues(r)
    <3>1. Goto(r, "schedule") => PathHolds(r)'
      BY <2>1 DEF IInv, TypeOK, Goto, PathHolds
    <3> QED
      BY <1>2, <2>1, <3>1, AnswerContinues, GotoContinues
         DEF InsertMonitor, RequestSteps
  <2>3. UNCHANGED <<count, open, keys, checkVars, worldVars, made, contended>>
    BY <1>2 DEF InsertMonitor, Surroundings
  <2>4. row' = row \/ row' = [row EXCEPT ![m] = "enabled"]
    BY <1>2 DEF InsertMonitor
  <2>5. RowTypes' /\ \A n \in Monitors : n # m => row'[n] = row[n]
    BY <2>1, <2>3, <2>4, SubjectIsMonitor DEF IInv, TypeOK, RowTypes, States
  <2>6. KeyTypes' /\ WorldTypes'
    BY <1>2, <2>3 DEF InsertMonitor, Works, Fails, IInv, TypeOK, KeyTypes,
       WorldTypes, keys, worldVars
  <2> QED
    BY <2>1, <2>2, <2>3, <2>5, <2>6, ContinuingKeeps
<1>3. CASE ScheduleMonitor(r)
  <2>1. rpc[r] = "schedule"
    BY <1>3 DEF ScheduleMonitor, At
  <2>2. Continues(r)
    BY <1>3, <2>1, AnswerContinues DEF ScheduleMonitor
  <2>3. UNCHANGED <<rows, cache, hash, checkVars, worldVars, made, contended>>
    BY <1>3 DEF ScheduleMonitor, Surroundings
  <2>4. RowTypes' /\ KeyTypes' /\ WorldTypes'
    BY <1>3, <2>1, <2>3, SubjectIsMonitor DEF ScheduleMonitor, Works, Fails, IInv,
       TypeOK, RowTypes, KeyTypes, WorldTypes, rows, worldVars
  <2> QED
    BY <2>1, <2>2, <2>3, <2>4, ContinuingKeeps DEF rows
<1> QED
  BY <1>1, <1>2, <1>3 DEF CreateMonitor

LEMMA UpdateKeeps ==
  ASSUME IInv, NEW r \in Requests, UpdateMonitorStatus(r)
  PROVE  IInv' /\ Continues(r)
<1> DEFINE m == Subject(r)
<1>1. CASE FindMonitor(r)
  <2>1. rpc[r] = "find" /\ req[r].op \in {"enable", "disable", "delete"}
    BY <1>1 DEF FindMonitor, At, IInv, PathHolds
  <2>2. Continues(r)
    <3> DEFINE step == IF req[r].op = "delete" THEN "delMonitor" ELSE "setEnabled"
    <3>1. Goto(r, step) => PathHolds(r)'
      BY <2>1 DEF IInv, TypeOK, Goto, PathHolds
    <3>2. step \in RequestSteps \ {"idle", "increment", "insert"}
      BY DEF RequestSteps
    <3>3. Goto(r, step) \/ Answer(r)
      BY <1>1 DEF FindMonitor
    <3> QED
      BY <2>1, <3>1, <3>2, <3>3, AnswerContinues, GotoContinues
  <2>3. UNCHANGED <<rows, keys, checkVars, worldVars, made, contended>>
    BY <1>1 DEF FindMonitor, Surroundings
  <2>4. RowTypes' /\ KeyTypes' /\ WorldTypes'
    BY <1>1, <2>3 DEF FindMonitor, Works, Fails, IInv, TypeOK, RowTypes, KeyTypes,
       WorldTypes, rows, keys, worldVars
  <2> QED
    BY <2>1, <2>2, <2>3, <2>4, ContinuingKeeps DEF rows
<1>2. CASE SetEnabled(r)
  <2>1. rpc[r] = "setEnabled" /\ req[r].op \in {"enable", "disable"}
    BY <1>2 DEF SetEnabled, At, IInv, PathHolds
  <2>2. Continues(r)
    <3> DEFINE step == IF req[r].op = "enable" THEN "schedule"
                       ELSE "closeOpenIncident"
    <3>1. Goto(r, step) => PathHolds(r)'
      BY <2>1 DEF IInv, TypeOK, Goto, PathHolds
    <3>2. step \in RequestSteps \ {"idle", "increment", "insert"}
      BY DEF RequestSteps
    <3>3. Goto(r, step) \/ Answer(r)
      BY <1>2 DEF SetEnabled
    <3> QED
      BY <2>1, <3>1, <3>2, <3>3, AnswerContinues, GotoContinues
  <2>3. UNCHANGED <<count, open, keys, checkVars, worldVars, made, contended>>
    BY <1>2 DEF SetEnabled, Surroundings
  <2>4. row' = row \/ row' = [row EXCEPT ![m] = Wanted(req[r].op)]
    BY <1>2 DEF SetEnabled
  <2>5. RowTypes' /\ \A n \in Monitors : n # m => row'[n] = row[n]
    BY <2>1, <2>3, <2>4, SubjectIsMonitor DEF IInv, TypeOK, RowTypes, States, Wanted
  <2>6. KeyTypes' /\ WorldTypes'
    BY <1>2, <2>3 DEF SetEnabled, Works, Fails, IInv, TypeOK, KeyTypes,
       WorldTypes, keys, worldVars
  <2> QED
    BY <2>1, <2>2, <2>3, <2>5, <2>6, ContinuingKeeps
<1>3. CASE CloseOpenIncident(r)
  <2>1. rpc[r] = "closeOpenIncident" /\ req[r].op = "disable"
    BY <1>3 DEF CloseOpenIncident, At, IInv, PathHolds
  <2>2. Continues(r)
    <3>1. Goto(r, "delMonitor") => PathHolds(r)'
      BY <2>1 DEF IInv, TypeOK, Goto, PathHolds
    <3> QED
      BY <1>3, <2>1, <3>1, GotoContinues DEF CloseOpenIncident, RequestSteps
  <2>3. UNCHANGED <<row, count, keys, checkVars, worldVars, made, contended>>
    BY <1>3 DEF CloseOpenIncident, Surroundings
  <2>4. RowTypes' /\ KeyTypes' /\ WorldTypes'
    BY <1>3, <2>1, <2>3, SubjectIsMonitor DEF CloseOpenIncident, Works, Fails, IInv,
       TypeOK, RowTypes, KeyTypes, WorldTypes, keys, worldVars
  <2> QED
    BY <2>1, <2>2, <2>3, <2>4, ContinuingKeeps
<1> QED
  BY <1>1, <1>2, <1>3 DEF UpdateMonitorStatus

LEMMA DisableKeeps ==
  ASSUME IInv, NEW r \in Requests, DisableMonitor(r)
  PROVE  IInv' /\ Continues(r)
<1>1. rpc[r] \in {"delMonitor", "delSchedule", "clearIncident"}
      /\ req[r].op \in {"disable", "delete"}
  BY DEF DisableMonitor, DelMonitor, DelSchedule, ClearIncident, At, IInv, PathHolds
<1>2. Continues(r)
  <2>1. \A step \in {"delSchedule", "clearIncident"} :
          Goto(r, step) => PathHolds(r)'
    BY <1>1 DEF IInv, TypeOK, Goto, PathHolds
  <2>2. Goto(r, "deleteRow") /\ req[r].op = "delete" => PathHolds(r)'
    BY <1>1 DEF IInv, TypeOK, Goto, PathHolds
  <2>3. \/ \E step \in {"delSchedule", "clearIncident"} : Goto(r, step)
        \/ Goto(r, "deleteRow") /\ req[r].op = "delete"
        \/ Answer(r)
    BY DEF DisableMonitor, DelMonitor, DelSchedule, ClearIncident
  <2>4. {"delSchedule", "clearIncident", "deleteRow"}
          \subseteq RequestSteps \ {"idle", "increment", "insert"}
    BY DEF RequestSteps
  <2> QED
    BY <1>1, <2>1, <2>2, <2>3, <2>4, AnswerContinues, GotoContinues
<1>3. UNCHANGED <<rows, checkVars, worldVars, made, contended>>
  BY DEF DisableMonitor, DelMonitor, DelSchedule, ClearIncident, Surroundings
<1>4. KeyTypes'
  <2>1. CASE DelMonitor(r)
    BY <1>1, <2>1, SubjectIsMonitor DEF DelMonitor, IInv, TypeOK, KeyTypes
  <2>2. CASE DelSchedule(r)
    BY <2>2 DEF DelSchedule, IInv, TypeOK, KeyTypes
  <2>3. CASE ClearIncident(r)
    <3>1. hash' = hash \/ hash' = [hash EXCEPT ![Subject(r)] = NoHash]
      BY <2>3 DEF ClearIncident
    <3>2. UNCHANGED <<schedule, cache>>
      BY <2>3 DEF ClearIncident
    <3> QED
      BY <3>1, <3>2, HashIsTyped DEF IInv, TypeOK, KeyTypes
  <2> QED
    BY <2>1, <2>2, <2>3 DEF DisableMonitor
<1>5. RowTypes' /\ WorldTypes'
  BY <1>3 DEF DisableMonitor, DelMonitor, DelSchedule, ClearIncident, Works, Fails,
     IInv, TypeOK, RowTypes, WorldTypes, rows, worldVars
<1> QED
  BY <1>1, <1>2, <1>3, <1>4, <1>5, ContinuingKeeps DEF rows

LEMMA DeleteKeeps ==
  ASSUME IInv, NEW r \in Requests, DeleteMonitor(r)
  PROVE  IInv' /\ Continues(r)
<1> DEFINE m == Subject(r)
<1>1. rpc[r] \in {"deleteRow", "decrement"} /\ req[r].op = "delete"
  BY DEF DeleteMonitor, DeleteRow, DecrementMonitorCount, At, IInv, PathHolds
<1>2. Continues(r)
  <2>1. Goto(r, "decrement") => PathHolds(r)'
    BY <1>1 DEF IInv, TypeOK, Goto, PathHolds
  <2> QED
    BY <1>1, <2>1, AnswerContinues, GotoContinues
       DEF DeleteMonitor, DeleteRow, DecrementMonitorCount, RequestSteps
<1>3. UNCHANGED <<keys, checkVars, worldVars, made, contended>>
  BY DEF DeleteMonitor, DeleteRow, DecrementMonitorCount, Surroundings
<1>4. RowTypes' /\ \A n \in Monitors : n # m => row'[n] = row[n]
  <2>1. CASE DeleteRow(r)
    <3>1. \/ UNCHANGED <<row, open>>
          \/ /\ row' = [row EXCEPT ![m] = "deleted"]
             /\ open' = [open EXCEPT ![m] = 0]
      BY <2>1 DEF DeleteRow
    <3> QED
      BY <1>1, <2>1, <3>1, SubjectIsMonitor
         DEF DeleteRow, IInv, TypeOK, RowTypes
  <2>2. CASE DecrementMonitorCount(r)
    BY <1>1, <2>2, SubjectIsMonitor, MonitorServiceAssumption
       DEF DecrementMonitorCount, IInv, TypeOK, RowTypes
  <2> QED
    BY <2>1, <2>2 DEF DeleteMonitor
<1>5. KeyTypes' /\ WorldTypes'
  BY <1>3 DEF DeleteMonitor, DeleteRow, DecrementMonitorCount, Works, Fails,
     IInv, TypeOK, KeyTypes, WorldTypes, keys, worldVars
<1> QED
  BY <1>1, <1>2, <1>3, <1>4, <1>5, ContinuingKeeps

LEMMA GetKeeps ==
  ASSUME IInv, NEW r \in Requests, GetMonitor(r) PROVE IInv' /\ Continues(r)
<1>1. rpc[r] \in {"readCache", "readRow", "fillCache"}
  BY DEF GetMonitor, ReadCache, ReadRow, FillCache, At
<1>2. Continues(r)
  <2>1. CASE ReadCache(r)
    <3>1. Goto(r, "readRow") => PathHolds(r)'
      BY <1>1 DEF IInv, TypeOK, Goto, PathHolds
    <3> QED
      BY <1>1, <2>1, <3>1, AnswerContinues, GotoContinues DEF ReadCache, RequestSteps
  <2>2. CASE ReadRow(r) /\ ~Answer(r)
    <3>1. /\ row[Subject(r)] \in States
          /\ req' = [req EXCEPT ![r].seen = row[Subject(r)]]
          /\ rpc' = [rpc EXCEPT ![r] = "fillCache"]
      BY <2>2 DEF ReadRow, Exists
    <3>2. req[r] \in RequestRecords \ {NoRequest}
      BY <1>1 DEF IInv, TypeOK, PathHolds, RequestRecords
    <3>3. /\ req'[r] = [req[r] EXCEPT !.seen = row[Subject(r)]]
          /\ \A q \in Requests \ {r} : req'[q] = req[q]
      BY <3>1 DEF IInv, TypeOK
    <3>4. /\ req'[r] \in RequestRecords \ {NoRequest} /\ req'[r].seen \in States
          /\ req'[r].op = req[r].op /\ req'[r].monitor = req[r].monitor
      BY <3>1, <3>2, <3>3, MonitorServiceAssumption DEF RequestRecords, NoRequest
    <3>5. RequestTypes'
      BY <3>1, <3>3, <3>4
         DEF IInv, TypeOK, RequestTypes, RequestSteps, RequestRecords
    <3>6. /\ rpc'[r] = "fillCache"
          /\ \A q \in Requests \ {r} : rpc'[q] = rpc[q]
      BY <3>1 DEF IInv, TypeOK
    <3>7. PathHolds(r)'
      BY <3>4, <3>6 DEF PathHolds
    <3> QED
      BY <1>1, <3>3, <3>4, <3>5, <3>6, <3>7 DEF Continues, Moves, Subject
  <2>3. CASE Answer(r)
    BY <1>1, <2>3, AnswerContinues
  <2> QED
    BY <2>1, <2>2, <2>3 DEF GetMonitor, FillCache
<1>3. UNCHANGED <<rows, schedule, hash, checkVars, worldVars, made, contended>>
  BY DEF GetMonitor, ReadCache, ReadRow, FillCache, Surroundings, keys
<1>4. KeyTypes'
  <2>1. CASE cache' = cache
    BY <1>3, <2>1 DEF IInv, TypeOK, KeyTypes
  <2>2. CASE cache' = [cache EXCEPT ![Subject(r)] = req[r].seen]
    BY <1>1, <1>3, <2>2, SubjectIsMonitor DEF IInv, TypeOK, KeyTypes
  <2> QED
    BY <2>1, <2>2 DEF GetMonitor, ReadCache, ReadRow, FillCache, keys
<1>5. RowTypes' /\ WorldTypes'
  BY <1>3 DEF GetMonitor, ReadCache, ReadRow, FillCache, Works, Fails,
     IInv, TypeOK, RowTypes, WorldTypes, rows, worldVars
<1> QED
  BY <1>1, <1>2, <1>3, <1>4, <1>5, ContinuingKeeps DEF rows

LEMMA RequestStepKeeps ==
  ASSUME IInv, NEW r \in Requests, RequestStep(r) PROVE IInv' /\ Continues(r)
BY CreateKeeps, UpdateKeeps, DisableKeeps, DeleteKeeps, GetKeeps DEF RequestStep

-----------------------------------------------------------------------------
LEMMA StartKeeps ==
  ASSUME IInv, NEW r \in Requests, NEW op \in Ops, NEW m \in Monitors, NEW step,
         \/ op = "create" /\ step = "increment"
         \/ op = "read" /\ step = "readCache"
         \/ op \in {"enable", "disable", "delete"} /\ step = "find",
         Start(r, op, m, step)
  PROVE  /\ IInv' /\ rpc'[r] = step /\ Subject(r)' = m /\ req'[r].op = op
         /\ \A q \in Requests \ {r} : rpc'[q] = rpc[q] /\ req'[q] = req[q]
<1> DEFINE request == [op |-> op, monitor |-> m, seen |-> "none"]
<1>1. /\ rpc'[r] = step /\ req'[r] = request
      /\ \A q \in Requests \ {r} : rpc'[q] = rpc[q] /\ req'[q] = req[q]
  BY DEF Start, IInv, TypeOK
<1>2. request \in RequestRecords /\ request # NoRequest
  BY MonitorServiceAssumption DEF RequestRecords, NoRequest
<1>3. RequestTypes'
  BY <1>2 DEF Start, IInv, TypeOK, RequestTypes, RequestSteps, RequestRecords
<1>4. UNCHANGED <<rows, keys, checkVars, worldVars, faults>>
  BY DEF Start
<1>5. made' \in Nat /\ contended' \in SUBSET Monitors
  BY DEF Start, IInv, TypeOK
<1>6. TypeOK'
  BY <1>3, <1>4, <1>5 DEF IInv, TypeOK, RequestTypes, RequestRecords, rows, keys,
     checkVars, worldVars
<1>7. PathHolds(r)'
  BY <1>1, <1>2 DEF PathHolds
<1>8. Fresh(r)'
  BY <1>1, <1>4 DEF Start, Fresh, Subject, rows
<1>9. ASSUME NEW q \in Requests, q # r PROVE PathHolds(q)' /\ Fresh(q)'
  <2>1. rpc'[q] = rpc[q] /\ req'[q] = req[q] /\ Subject(q)' = Subject(q)
    BY <1>1, <1>9 DEF Subject
  <2>2. PathHolds(q)'
    BY <2>1 DEF IInv, PathHolds
  <2>3. ASSUME rpc[q] \in {"increment", "insert"} PROVE Fresh(q)'
    <3>1. /\ row[Subject(q)] = "unborn" /\ Subject(q) # m
          /\ \A p \in Requests : Subject(p) = Subject(q) => p = q
      BY <1>9, <2>3 DEF IInv, Fresh, Start
    <3>2. row'[Subject(q)] = "unborn" /\ Subject(r)' = m
      BY <1>1, <1>4, <3>1 DEF rows, Subject
    <3>3. \A p \in Requests : Subject(p)' = Subject(q) => p = q
      BY <1>1, <3>1, <3>2 DEF Subject
    <3> QED
      BY <2>1, <3>2, <3>3 DEF Fresh
  <2>4. rpc[q] \notin {"increment", "insert"} => Fresh(q)'
    BY <2>1 DEF Fresh
  <2> QED
    BY <2>2, <2>3, <2>4
<1>10. \A c \in Checks : CheckHolds(c)'
  BY <1>4 DEF IInv, CheckHolds, checkVars
<1> QED
  BY <1>1, <1>6, <1>7, <1>8, <1>9, <1>10 DEF IInv, Subject

Starts(r) ==
  \E m \in Monitors : \/ StartCreate(r, m) \/ StartRead(r, m)
                      \/ StartUpdateStatus(r, m) \/ StartDelete(r, m)

LEMMA StartsAre ==
  ASSUME NEW r \in Requests, Starts(r)
  PROVE  \E m \in Monitors, op \in Ops, step \in RequestSteps :
           /\ \/ op = "create" /\ step = "increment"
              \/ op = "read" /\ step = "readCache"
              \/ op \in {"enable", "disable", "delete"} /\ step = "find"
           /\ Start(r, op, m, step)
BY DEF Starts, StartCreate, StartRead, StartUpdateStatus, StartDelete, Ops,
       RequestSteps

-----------------------------------------------------------------------------
(* A check moves.  No request, no row of a monitor and no count changes.    *)
Strides(c) ==
  /\ CheckTypes' /\ CheckHolds(c)'
  /\ \A d \in Checks \ {c} : cpc'[d] = cpc[d] /\ check'[d] = check[d]

LEMMA StridingKeeps ==
  ASSUME IInv, NEW c \in Checks, Strides(c), KeyTypes',
         open' \in [Monitors -> Nat], UNCHANGED <<row, count, Outside>>
  PROVE  IInv'
<1>1. TypeOK'
  BY DEF IInv, TypeOK, Strides, CheckTypes, KeyTypes, Outside, requestVars,
         worldVars
<1>2. \A q \in Requests : PathHolds(q)' /\ Fresh(q)'
  BY DEF IInv, PathHolds, Fresh, Outside, requestVars, Subject
<1>3. \A d \in Checks : CheckHolds(d)'
  BY DEF IInv, CheckHolds, Strides
<1> QED
  BY <1>1, <1>2, <1>3 DEF IInv

LEMMA ProceedStrides ==
  ASSUME IInv, NEW c \in Checks, NEW step \in CheckSteps \ {"idle", "fillCache"},
         cpc[c] # "idle", Proceed(c, step)
  PROVE  Strides(c)
BY DEF IInv, TypeOK, Proceed, Strides, CheckTypes, CheckHolds

LEMMA DropStrides ==
  ASSUME IInv, NEW c \in Checks, Drop(c) PROVE Strides(c)
BY DEF IInv, TypeOK, Drop, Strides, CheckTypes, CheckHolds, CheckSteps

LEMMA CheckedIsMonitor ==
  ASSUME IInv, NEW c \in Checks, cpc[c] # "idle"
  PROVE  Checked(c) \in Monitors /\ check[c].seen \in States \cup {"none"}
BY DEF IInv, TypeOK, CheckHolds, Checked

LEMMA PopKeeps ==
  ASSUME IInv, NEW c \in Checks, NEW m \in Monitors, Pop(c, m) PROVE IInv'
<1> DEFINE new == [monitor |-> m, seen |-> "none"]
<1>1. /\ cpc' = [cpc EXCEPT ![c] = "popped"] /\ check' = [check EXCEPT ![c] = new]
      /\ schedule' = schedule \ {m}
      /\ UNCHANGED <<rows, cache, hash, Outside>>
  BY DEF Pop
<1>2. new # NoCheck
  BY MonitorServiceAssumption DEF NoCheck
<1>3. Strides(c)
  BY <1>1, <1>2 DEF IInv, TypeOK, Strides, CheckTypes, CheckHolds, CheckSteps
<1>4. KeyTypes' /\ open' \in [Monitors -> Nat]
  BY <1>1 DEF IInv, TypeOK, KeyTypes, rows
<1> QED
  BY <1>1, <1>3, <1>4, StridingKeeps DEF rows

LEMMA LoadKeeps ==
  ASSUME IInv, NEW c \in Checks, LoadRow(c) \/ LoadIntoCache(c) PROVE IInv'
<1> DEFINE m == Checked(c)
<1>1. cpc[c] \in {"popped", "fillCache"}
  BY DEF LoadRow, LoadIntoCache, AtCheck
<1>2. Strides(c)
  <2>1. CASE LoadRow(c) /\ ~Drop(c)
    <3>1. /\ cpc' = [cpc EXCEPT ![c] = "fillCache"]
          /\ check' = [check EXCEPT ![c].seen = row[m]]
          /\ row[m] \in States
      BY <2>1 DEF LoadRow, Exists
    <3>2. check[c] \in [monitor : Monitors, seen : States \cup {"none"}]
      BY <1>1 DEF IInv, TypeOK, CheckHolds
    <3>3. check'[c] = [check[c] EXCEPT !.seen = row[m]]
          /\ \A d \in Checks \ {c} : check'[d] = check[d]
      BY <3>1 DEF IInv, TypeOK
    <3>4. /\ check'[c] \in [monitor : Monitors, seen : States \cup {"none"}]
          /\ check'[c] # NoCheck /\ check'[c].seen \in States
      BY <3>1, <3>2, <3>3, MonitorServiceAssumption DEF NoCheck
    <3>5. CheckTypes'
      BY <3>1, <3>3, <3>4 DEF IInv, TypeOK, CheckTypes, CheckSteps
    <3>6. cpc'[c] = "fillCache" /\ \A d \in Checks \ {c} : cpc'[d] = cpc[d]
      BY <3>1 DEF IInv, TypeOK
    <3> QED
      BY <3>3, <3>4, <3>5, <3>6 DEF Strides, CheckHolds
  <2>2. CASE Drop(c)
    BY <2>2, DropStrides
  <2>3. CASE LoadIntoCache(c)
    BY <1>1, <2>3, DropStrides, ProceedStrides DEF LoadIntoCache, CheckSteps
  <2> QED
    BY <2>1, <2>2, <2>3
<1>3. UNCHANGED <<rows, schedule, hash, Outside>>
  BY DEF LoadRow, LoadIntoCache, keys
<1>4. KeyTypes'
  <2>1. CASE cache' = cache
    BY <1>3, <2>1 DEF IInv, TypeOK, KeyTypes
  <2>2. CASE cache' = [cache EXCEPT ![m] = check[c].seen]
    BY <1>1, <1>3, <2>2, CheckedIsMonitor DEF IInv, TypeOK, KeyTypes
  <2> QED
    BY <2>1, <2>2 DEF LoadRow, LoadIntoCache, keys
<1> QED
  BY <1>2, <1>3, <1>4, StridingKeeps DEF IInv, TypeOK, rows

LEMMA ExaminingKeeps ==
  ASSUME IInv, NEW c \in Checks, CheckStep(c), ~LoadRow(c), ~LoadIntoCache(c)
  PROVE  IInv'
<1> DEFINE m == Checked(c)
<1>1. CASE Reschedule(c)
  <2>1. m \in Monitors
    BY <1>1, CheckedIsMonitor DEF Reschedule, AtCheck
  <2>2. KeyTypes'
    BY <1>1, <2>1 DEF Reschedule, IInv, TypeOK, KeyTypes
  <2> QED
    BY <1>1, <2>2, DropStrides, StridingKeeps DEF Reschedule, IInv, TypeOK, rows
<1>2. CASE ~Reschedule(c)
  <2>1. cpc[c] # "idle"
    BY <1>2 DEF CheckStep, Examine, MarkAlerted, CreateIncident, MarkDBIncident,
       GetIncident, CloseIncident, ClearAfterRecovery, AtCheck
  <2>2. Strides(c)
    <3>1. \E step \in CheckSteps \ {"idle", "fillCache"} : Proceed(c, step)
      BY <1>2 DEF CheckStep, Examine, MarkAlerted, CreateIncident, MarkDBIncident,
         GetIncident, CloseIncident, ClearAfterRecovery, CheckSteps
    <3> QED
      BY <2>1, <3>1, ProceedStrides
  <2>3. UNCHANGED <<row, count, schedule, cache, Outside>>
    BY <1>2 DEF CheckStep, Examine, MarkAlerted, CreateIncident, MarkDBIncident,
       GetIncident, CloseIncident, ClearAfterRecovery, rows, keys
  <2>4. open' \in [Monitors -> Nat]
    <3>1. \/ open' = open \/ open' = [open EXCEPT ![m] = @ + 1]
          \/ open' = [open EXCEPT ![m] = 0]
      BY <1>2 DEF CheckStep, Examine, MarkAlerted, CreateIncident, MarkDBIncident,
         GetIncident, CloseIncident, ClearAfterRecovery, rows
    <3> QED
      BY <3>1 DEF IInv, TypeOK
  <2>5. KeyTypes'
    <3>1. \/ hash' = hash \/ hash' = [hash EXCEPT ![m] = NoHash]
          \/ hash' = [hash EXCEPT ![m].alerted = TRUE]
          \/ hash' = [hash EXCEPT ![m].db_incident = TRUE]
      BY <1>2 DEF CheckStep, Examine, MarkAlerted, CreateIncident, MarkDBIncident,
         GetIncident, CloseIncident, ClearAfterRecovery, keys
    <3> DEFINE Hashes == [alerted : BOOLEAN, db_incident : BOOLEAN]
    <3>2. hash[m] \in Hashes /\ hash \in [Monitors -> Hashes]
      BY <2>1, CheckedIsMonitor DEF IInv, TypeOK
    <3>3. /\ [hash[m] EXCEPT !.alerted = TRUE] \in Hashes
          /\ [hash[m] EXCEPT !.db_incident = TRUE] \in Hashes
      BY <3>2
    <3>4. \/ hash' = hash
          \/ \E h \in Hashes : hash' = [hash EXCEPT ![m] = h]
      BY <3>1, <3>3, HashIsTyped
    <3>5. hash' \in [Monitors -> Hashes]
      BY <3>2, <3>4
    <3> QED
      BY <2>3, <3>5 DEF IInv, TypeOK, KeyTypes
  <2> QED
    BY <2>2, <2>3, <2>4, <2>5, StridingKeeps
<1> QED
  BY <1>1, <1>2

LEMMA PutBackKeeps ==
  ASSUME IInv, NEW c \in Checks, PutBack(c) PROVE IInv'
<1>1. Checked(c) \in Monitors
  BY CheckedIsMonitor DEF PutBack, AtCheck
<1>2. KeyTypes'
  BY <1>1 DEF PutBack, IInv, TypeOK, KeyTypes
<1> QED
  BY <1>2, DropStrides, StridingKeeps DEF PutBack, IInv, TypeOK, rows

LEMMA WorldKeeps ==
  ASSUME IInv, NEW m \in Monitors, GoDown(m) \/ ComeBack(m) PROVE IInv'
<1>1. TypeOK'
  BY DEF GoDown, ComeBack, IInv, TypeOK, rows, keys, requestVars, checkVars
<1>2. UNCHANGED <<row, requestVars, checkVars>>
  BY DEF GoDown, ComeBack, rows
<1> QED
  BY <1>1, <1>2 DEF IInv, PathHolds, Fresh, CheckHolds, Subject, requestVars,
     checkVars

LEMMA NextKeeps == IInv /\ [Next]_vars => IInv'
<1> SUFFICES ASSUME IInv, [Next]_vars PROVE IInv'
  OBVIOUS
<1>1. CASE UNCHANGED vars
  BY <1>1 DEF vars, rows, keys, requestVars, checkVars, worldVars, IInv, TypeOK,
     PathHolds, Fresh, CheckHolds, Subject
<1>2. ASSUME NEW r \in Requests, Starts(r) PROVE IInv'
  BY <1>2, StartsAre, StartKeeps
<1>3. ASSUME NEW c \in Checks, CheckStep(c) PROVE IInv'
  BY <1>3, LoadKeeps, ExaminingKeeps
<1> QED
  BY <1>1, <1>2, <1>3, WorldKeeps, RequestStepKeeps, PutBackKeeps, PopKeeps
     DEF Next, Starts

(* The variables keep their types: no statement is about a monitor that a    *)
(* request or check does not hold, and no count exceeds the quota.           *)
THEOREM TypeCorrect == Spec => []TypeOK
<1>1. IInv => TypeOK
  BY DEF IInv
<1> QED
  BY InitInv, NextKeeps, <1>1, PTL DEF Spec

-----------------------------------------------------------------------------
(* The quota.  The places that are counted are those of the rows, of the    *)
(* rows about to be inserted and of those just deleted.                     *)
One(b) == IF b THEN 1 ELSE 0

Places(u) == Cardinality(Owned(u)) + Cardinality(Pending(u, "insert"))
               + Cardinality(Pending(u, "decrement"))

PendingFinite ==
  \A u \in Users : /\ IsFiniteSet(Pending(u, "insert"))
                   /\ IsFiniteSet(Pending(u, "decrement"))

(* A failed command may lose places, but never takes one for two rows.      *)
Counted ==
  \A u \in Users : /\ Places(u) <= count[u]
                   /\ faults = 0 => count[u] = Places(u)

QInv == PendingFinite /\ Counted

-----------------------------------------------------------------------------
(* Two sets that differ in one element at most.                            *)
LEMMA CardinalityAround ==
  ASSUME NEW S, NEW T, NEW x, IsFiniteSet(S), S \ {x} = T \ {x}
  PROVE  /\ IsFiniteSet(T) /\ Cardinality(S) \in Nat /\ Cardinality(T) \in Nat
         /\ Cardinality(T) + One(x \in S) = Cardinality(S) + One(x \in T)
<1> DEFINE rest == S \ {x}
<1>1. IsFiniteSet(rest) /\ x \notin rest
  BY FS_Subset
<1>2. Cardinality(rest) \in Nat
  BY <1>1, FS_CardinalityType
<1>3. ASSUME NEW U, U \ {x} = rest
      PROVE  IsFiniteSet(U) /\ Cardinality(U) = Cardinality(rest) + One(x \in U)
  <2>1. CASE x \in U
    <3>1. U = rest \cup {x}
      BY <1>3, <2>1
    <3> HIDE DEF rest
    <3> QED
      BY <1>1, <2>1, <3>1, FS_AddElement DEF One
  <2>2. CASE x \notin U
    <3>1. U = rest
      BY <1>3, <2>2
    <3> HIDE DEF rest
    <3> QED
      BY <1>1, <1>2, <2>2, <3>1 DEF One
  <2> QED
    BY <2>1, <2>2
<1>4. S \ {x} = rest /\ T \ {x} = rest
  OBVIOUS
<1> HIDE DEF rest
<1> QED
  BY <1>2, <1>3, <1>4 DEF One

LEMMA OwnedFinite == \A u : IsFiniteSet(Owned(u))
BY MonitorServiceAssumption, FS_Subset DEF Owned

LEMMA QuotaFollows == IInv /\ QInv => QuotaIsKept
<1> SUFFICES ASSUME IInv, QInv, NEW u \in Users
             PROVE  /\ Cardinality(Owned(u)) <= count[u]
                    /\ faults = 0 => count[u] = Places(u)
  BY DEF QuotaIsKept, Places
<1>1. /\ Cardinality(Owned(u)) \in Nat
      /\ Cardinality(Pending(u, "insert")) \in Nat
      /\ Cardinality(Pending(u, "decrement")) \in Nat
  BY OwnedFinite, FS_CardinalityType DEF QInv, PendingFinite
<1>2. count[u] \in Int
  BY MonitorServiceAssumption DEF IInv, TypeOK
<1> QED
  BY <1>1, <1>2 DEF QInv, Counted, Places

LEMMA InitQuota == Init => QInv
<1> SUFFICES ASSUME Init, NEW u \in Users
             PROVE  /\ IsFiniteSet(Pending(u, "insert"))
                    /\ IsFiniteSet(Pending(u, "decrement"))
                    /\ count[u] = Places(u) /\ Places(u) <= count[u]
  BY DEF QInv, PendingFinite, Counted
<1>1. /\ Owned(u) = {} /\ Pending(u, "insert") = {}
      /\ Pending(u, "decrement") = {}
  BY DEF Init, Owned, Pending, Exists, States, At
<1> QED
  BY <1>1, FS_EmptySet DEF Init, Places

-----------------------------------------------------------------------------
(* A request moves and with it at most one row: the places change as much   *)
(* as the request and its monitor take.                                    *)
Place(r, m) == One(Exists(m)) + One(At(r, "insert")) + One(At(r, "decrement"))

About(r, m) == rpc[r] # "idle" => Subject(r) = m

LEMMA PlacesMove ==
  ASSUME PendingFinite, NEW r \in Requests, NEW m \in Monitors,
         About(r, m), About(r, m)',
         \A q \in Requests \ {r} : rpc'[q] = rpc[q] /\ req'[q] = req[q],
         \A n \in Monitors : n # m => row'[n] = row[n],
         NEW u \in Users
  PROVE  /\ IsFiniteSet(Pending(u, "insert")')
         /\ IsFiniteSet(Pending(u, "decrement")')
         /\ Places(u) \in Nat /\ Places(u)' \in Nat
         /\ Owner[m] # u => Places(u)' = Places(u)
         /\ Owner[m] = u => Places(u)' + Place(r, m) = Places(u) + Place(r, m)'
<1> DEFINE Gone == Owned(u)'  In == Pending(u, "insert")'
           De == Pending(u, "decrement")'
<1>1. \A n \in Monitors : n # m => (n \in Owned(u) <=> n \in Gone)
  BY DEF Owned, Exists
<1>2. Owned(u) \ {m} = Gone \ {m}
  BY <1>1 DEF Owned
<1>3. \A step \in {"insert", "decrement"} :
        Pending(u, step) \ {r} = Pending(u, step)' \ {r}
  BY DEF Pending, At, Subject
<1>4. /\ m \in Owned(u) <=> Owner[m] = u /\ Exists(m)
      /\ m \in Gone <=> Owner[m] = u /\ Exists(m)'
  BY DEF Owned
<1>5. \A step \in {"insert", "decrement"} :
        /\ r \in Pending(u, step) <=> Owner[m] = u /\ At(r, step)
        /\ r \in Pending(u, step)' <=> Owner[m] = u /\ At(r, step)'
  BY DEF Pending, At, About, Subject
<1>6. /\ Cardinality(Owned(u)) \in Nat /\ Cardinality(Gone) \in Nat
      /\ Cardinality(Gone) + One(m \in Owned(u))
           = Cardinality(Owned(u)) + One(m \in Gone)
  BY <1>2, OwnedFinite, CardinalityAround
<1>7. /\ IsFiniteSet(In) /\ Cardinality(Pending(u, "insert")) \in Nat
      /\ Cardinality(In) \in Nat
      /\ Cardinality(In) + One(r \in Pending(u, "insert"))
           = Cardinality(Pending(u, "insert")) + One(r \in In)
  BY <1>3, CardinalityAround DEF PendingFinite
<1>8. /\ IsFiniteSet(De) /\ Cardinality(Pending(u, "decrement")) \in Nat
      /\ Cardinality(De) \in Nat
      /\ Cardinality(De) + One(r \in Pending(u, "decrement"))
           = Cardinality(Pending(u, "decrement")) + One(r \in De)
  BY <1>3, CardinalityAround DEF PendingFinite
<1>9. Places(u)' = Cardinality(Gone) + Cardinality(In) + Cardinality(De)
  BY DEF Places
<1> HIDE DEF Gone, In, De
<1>10. CASE Owner[m] # u
  <2>1. /\ One(m \in Owned(u)) = 0 /\ One(m \in Gone) = 0
        /\ One(r \in Pending(u, "insert")) = 0 /\ One(r \in In) = 0
        /\ One(r \in Pending(u, "decrement")) = 0 /\ One(r \in De) = 0
    BY <1>4, <1>5, <1>10 DEF One, In, De
  <2> QED
    BY <1>6, <1>7, <1>8, <1>9, <1>10, <2>1 DEF Places, In, De
<1>11. CASE Owner[m] = u
  <2>1. /\ One(m \in Owned(u)) = One(Exists(m))
        /\ One(m \in Gone) = One(Exists(m)')
        /\ One(r \in Pending(u, "insert")) = One(At(r, "insert"))
        /\ One(r \in In) = One(At(r, "insert")')
        /\ One(r \in Pending(u, "decrement")) = One(At(r, "decrement"))
        /\ One(r \in De) = One(At(r, "decrement")')
    BY <1>4, <1>5, <1>11 DEF One, In, De
  <2>2. \A b : One(b) \in 0 .. 1
    BY DEF One
  <2>3. /\ Place(r, m) = One(m \in Owned(u)) + One(r \in Pending(u, "insert"))
                           + One(r \in Pending(u, "decrement"))
        /\ Place(r, m)' = One(m \in Gone) + One(r \in In) + One(r \in De)
    BY <2>1 DEF Place, One
  <2> QED
    BY <1>6, <1>7, <1>8, <1>9, <1>11, <2>2, <2>3 DEF Places, In, De
<1> QED
  BY <1>10, <1>11

(* The count moves with the places, or stays above them after a failure.    *)
Tallied(r, m) ==
  /\ \A u \in Users : u # Owner[m] => count'[u] = count[u]
  /\ count'[Owner[m]] + Place(r, m) >= count[Owner[m]] + Place(r, m)'
  /\ faults' = 0 => /\ faults = 0
                    /\ count'[Owner[m]] + Place(r, m)
                         = count[Owner[m]] + Place(r, m)'

LEMMA TallyKeeps ==
  ASSUME IInv, IInv', QInv, NEW r \in Requests, NEW m \in Monitors,
         About(r, m), About(r, m)', Tallied(r, m),
         \A q \in Requests \ {r} : rpc'[q] = rpc[q] /\ req'[q] = req[q],
         \A n \in Monitors : n # m => row'[n] = row[n]
  PROVE  QInv'
<1>1. PendingFinite'
  BY PlacesMove DEF QInv, PendingFinite
<1>2. ASSUME NEW u \in Users
      PROVE  /\ Places(u)' <= count'[u]
             /\ faults' = 0 => count'[u] = Places(u)'
  <2>1. Places(u) \in Nat /\ Places(u)' \in Nat
    BY PlacesMove DEF QInv
  <2>2. count[u] \in Int /\ count'[u] \in Int
    BY MonitorServiceAssumption DEF IInv, TypeOK
  <2>3. /\ Places(u) <= count[u]
        /\ faults = 0 => count[u] = Places(u)
    BY DEF QInv, Counted
  <2>4. CASE Owner[m] # u
    <3>1. Places(u)' = Places(u)
      BY <2>4, PlacesMove DEF QInv
    <3> QED
      BY <2>3, <2>4, <3>1 DEF Tallied
  <2>5. CASE Owner[m] = u
    <3>1. Places(u)' + Place(r, m) = Places(u) + Place(r, m)'
      BY <2>5, PlacesMove DEF QInv
    <3>2. Place(r, m) \in Int /\ Place(r, m)' \in Int
      BY DEF Place, One
    <3>3. /\ count'[u] + Place(r, m) >= count[u] + Place(r, m)'
          /\ faults' = 0 => /\ faults = 0
                            /\ count'[u] + Place(r, m) = count[u] + Place(r, m)'
      BY <2>5 DEF Tallied
    <3> QED
      BY <2>1, <2>2, <2>3, <3>1, <3>2, <3>3
  <2> QED
    BY <2>4, <2>5
<1> QED
  BY <1>1, <1>2 DEF QInv, Counted

(* Nothing that is counted changes.                                        *)
LEMMA IdleKeeps ==
  ASSUME IInv, IInv', QInv, NEW r \in Requests, NEW m \in Monitors,
         About(r, m), About(r, m)', faults' = 0 => faults = 0,
         \A q \in Requests \ {r} : rpc'[q] = rpc[q] /\ req'[q] = req[q],
         \A n \in Monitors : n # m => row'[n] = row[n],
         count' = count, Place(r, m)' = Place(r, m)
  PROVE  QInv'
<1>1. count[Owner[m]] \in Int
  BY MonitorServiceAssumption DEF IInv, TypeOK
<1>2. Place(r, m) \in Int
  BY DEF Place, One
<1> QED
  BY <1>1, <1>2, TallyKeeps DEF Tallied

-----------------------------------------------------------------------------
(* The place is taken before the row is inserted ...                       *)
LEMMA CreateCounts ==
  ASSUME IInv, QInv, NEW r \in Requests, CreateMonitor(r) PROVE QInv'
<1> PICK m, o : m = Subject(r) /\ o = Owner[m]
  OBVIOUS
<1>1. IInv' /\ Continues(r)
  BY CreateKeeps
<1>2. /\ m \in Monitors /\ o \in Users /\ About(r, m) /\ About(r, m)'
      /\ \A q \in Requests \ {r} : rpc'[q] = rpc[q] /\ req'[q] = req[q]
  BY <1>1, SubjectIsMonitor DEF Continues, Moves, About
<1>3. count[o] \in Int /\ count'[o] \in Int
  BY <1>1, <1>2, MonitorServiceAssumption DEF IInv, TypeOK
<1>4. CASE IncrementMonitorCount(r)
  <2>1. rpc[r] = "increment" /\ row' = row
    BY <1>4 DEF IncrementMonitorCount, At
  <2>2. \/ /\ Works /\ rpc'[r] = "insert"
           /\ count' = [count EXCEPT ![o] = @ + 1]
        \/ /\ Works /\ rpc'[r] = "idle" /\ count' = count
        \/ /\ Fails /\ rpc'[r] = "idle"
           /\ count' = count \/ count' = [count EXCEPT ![o] = @ + 1]
    BY <1>4 DEF IncrementMonitorCount, Goto, Answer, IInv, TypeOK
  <2>3. count \in [Users -> 0 .. Quota]
    BY DEF IInv, TypeOK
  <2>4. /\ Place(r, m) = One(Exists(m))
        /\ Place(r, m)' = One(Exists(m)) + One(rpc'[r] = "insert")
    BY <2>1, <2>2 DEF Place, One, At, Exists
  <2>5. One(Exists(m)) \in 0 .. 1
    BY DEF One
  <2>6. Tallied(r, m)
    <3>1. CASE count' = count
      BY <1>3, <2>2, <2>4, <2>5, <3>1, FaultsGrow, <1>2, <2>3 DEF Tallied, One
    <3>2. CASE count' = [count EXCEPT ![o] = @ + 1]
      BY <1>2, <1>3, <2>2, <2>3, <2>4, <2>5, <3>2, FaultsGrow DEF Tallied, One
    <3> QED
      BY <2>2, <3>1, <3>2
  <2> QED
    BY <1>1, <1>2, <2>1, <2>6, TallyKeeps
<1>5. CASE InsertMonitor(r)
  <2>1. rpc[r] = "insert" /\ ~Exists(m) /\ count' = count
    BY <1>5 DEF InsertMonitor, At, IInv, Fresh, Exists, States
  <2>2. \/ /\ Works /\ rpc'[r] = "schedule" /\ row' = [row EXCEPT ![m] = "enabled"]
        \/ /\ Fails /\ rpc'[r] = "idle"
           /\ row' = row \/ row' = [row EXCEPT ![m] = "enabled"]
    BY <1>5 DEF InsertMonitor, Goto, Answer, IInv, TypeOK
  <2>3. /\ \A n \in Monitors : n # m => row'[n] = row[n]
        /\ row' # row => Exists(m)'
        /\ row' = row => ~Exists(m)'
    BY <1>2, <2>1, <2>2 DEF IInv, TypeOK, Exists, States
  <2>4. Place(r, m) = 1 /\ Place(r, m)' = One(Exists(m)')
    BY <2>1, <2>2 DEF Place, One, At
  <2>5. Tallied(r, m)
    <3>1. CASE Exists(m)'
      BY <1>3, <2>1, <2>2, <2>4, <3>1, FaultsGrow DEF Tallied, One
    <3>2. CASE ~Exists(m)'
      <4>1. Fails
        BY <1>2, <2>2, <3>2 DEF IInv, TypeOK, Exists, States
      <4> QED
        BY <1>3, <2>1, <2>4, <3>2, <4>1, FaultsGrow DEF Tallied, One
    <3> QED
      BY <3>1, <3>2
  <2> QED
    BY <1>1, <1>2, <2>3, <2>5, TallyKeeps
<1>6. CASE ScheduleMonitor(r)
  <2>1. rpc[r] = "schedule" /\ row' = row /\ count' = count /\ rpc'[r] = "idle"
    BY <1>6 DEF ScheduleMonitor, At, rows, Answer, IInv, TypeOK
  <2>2. Place(r, m)' = Place(r, m) /\ (faults' = 0 => faults = 0)
    BY <1>6, <2>1, FaultsGrow DEF Place, One, At, Exists, ScheduleMonitor
  <2> QED
    BY <1>1, <1>2, <2>1, <2>2, IdleKeeps
<1> QED
  BY <1>4, <1>5, <1>6 DEF CreateMonitor

(* ... and given back after it is deleted, by the request that deleted it.  *)
LEMMA DeleteCounts ==
  ASSUME IInv, QInv, NEW r \in Requests, DeleteMonitor(r) PROVE QInv'
<1> PICK m, o : m = Subject(r) /\ o = Owner[m]
  OBVIOUS
<1>1. IInv' /\ Continues(r)
  BY DeleteKeeps
<1>2. /\ m \in Monitors /\ o \in Users /\ About(r, m) /\ About(r, m)'
      /\ \A q \in Requests \ {r} : rpc'[q] = rpc[q] /\ req'[q] = req[q]
  BY <1>1, SubjectIsMonitor DEF Continues, Moves, About
<1>3. count \in [Users -> 0 .. Quota] /\ count[o] \in Nat /\ count'[o] \in Int
  BY <1>1, <1>2, MonitorServiceAssumption DEF IInv, TypeOK
<1>4. CASE DeleteRow(r)
  <2>1. rpc[r] = "deleteRow" /\ count' = count
    BY <1>4 DEF DeleteRow, At
  <2>2. \/ /\ Works /\ rpc'[r] = "decrement" /\ Exists(m)
           /\ row' = [row EXCEPT ![m] = "deleted"]
        \/ /\ Works /\ rpc'[r] = "idle" /\ row' = row
        \/ /\ Fails /\ rpc'[r] = "idle"
           /\ row' = row \/ row' = [row EXCEPT ![m] = "deleted"]
    BY <1>4 DEF DeleteRow, Goto, Answer, IInv, TypeOK
  <2>3. /\ \A n \in Monitors : n # m => row'[n] = row[n]
        /\ row' = row => (Exists(m)' <=> Exists(m))
        /\ row' = [row EXCEPT ![m] = "deleted"] => ~Exists(m)'
    BY <1>2, <2>2 DEF IInv, TypeOK, Exists, States
  <2>4. /\ Place(r, m) = One(Exists(m))
        /\ Place(r, m)' = One(Exists(m)') + One(rpc'[r] = "decrement")
    BY <2>1, <2>2 DEF Place, One, At
  <2>5. /\ Place(r, m)' <= Place(r, m)
        /\ Works => Place(r, m)' = Place(r, m)
        /\ Place(r, m) \in Int /\ Place(r, m)' \in Int
    <3>1. CASE Works /\ rpc'[r] = "decrement"
      BY <2>2, <2>3, <2>4, <3>1 DEF One
    <3>2. CASE rpc'[r] = "idle" /\ row' = row
      BY <2>3, <2>4, <3>2 DEF One
    <3>3. CASE Fails /\ row' = [row EXCEPT ![m] = "deleted"] /\ rpc'[r] = "idle"
      BY <2>3, <2>4, <3>3 DEF One, Works, Fails, IInv, TypeOK
    <3> QED
      BY <2>2, <3>1, <3>2, <3>3
  <2>6. Tallied(r, m)
    BY <1>3, <2>1, <2>2, <2>5, FaultsGrow DEF Tallied
  <2> QED
    BY <1>1, <1>2, <2>3, <2>6, TallyKeeps
<1>5. CASE DecrementMonitorCount(r)
  <2>1. rpc[r] = "decrement" /\ rpc'[r] = "idle" /\ row' = row
    BY <1>5 DEF DecrementMonitorCount, At, Answer, IInv, TypeOK
  <2>2. count[o] >= 1
    <3>1. r \in Pending(o, "decrement")
      BY <2>1 DEF Pending, At
    <3>2. /\ Cardinality(Owned(o)) \in Nat
          /\ Cardinality(Pending(o, "insert")) \in Nat
          /\ Cardinality(Pending(o, "decrement")) \in Nat
          /\ Cardinality(Pending(o, "decrement")) # 0
      BY <1>2, <3>1, OwnedFinite, FS_CardinalityType, FS_EmptySet
         DEF QInv, PendingFinite
    <3> QED
      BY <1>2, <1>3, <3>2 DEF QInv, Counted, Places
  <2>3. \/ Works /\ count' = [count EXCEPT ![o] = @ - 1]
        \/ Fails /\ (count' = count \/ count' = [count EXCEPT ![o] = @ - 1])
    BY <1>2, <1>3, <1>5, <2>2 DEF DecrementMonitorCount
  <2>4. Place(r, m) = Place(r, m)' + 1 /\ Place(r, m)' \in Int
    BY <2>1 DEF Place, One, At, Exists
  <2>5. Tallied(r, m)
    <3>1. CASE Fails /\ count' = count
      BY <1>3, <2>4, <3>1, FaultsGrow DEF Tallied
    <3>2. CASE count' = [count EXCEPT ![o] = @ - 1]
      BY <1>2, <1>3, <2>3, <2>4, <3>2, FaultsGrow DEF Tallied
    <3> QED
      BY <2>3, <3>1, <3>2
  <2> QED
    BY <1>1, <1>2, <2>1, <2>5, TallyKeeps
<1> QED
  BY <1>4, <1>5 DEF DeleteMonitor

(* The other requests change no count, and no row comes to be or goes.      *)
LEMMA OthersCount ==
  ASSUME IInv, QInv, NEW r \in Requests,
         UpdateMonitorStatus(r) \/ DisableMonitor(r) \/ GetMonitor(r)
  PROVE  QInv'
<1> PICK m : m = Subject(r)
  OBVIOUS
<1>1. IInv' /\ Continues(r)
  BY UpdateKeeps, DisableKeeps, GetKeeps
<1>2. /\ m \in Monitors /\ About(r, m) /\ About(r, m)'
      /\ \A q \in Requests \ {r} : rpc'[q] = rpc[q] /\ req'[q] = req[q]
  BY <1>1, SubjectIsMonitor DEF Continues, Moves, About
<1>3. Works \/ Fails
  BY DEF UpdateMonitorStatus, FindMonitor, SetEnabled, CloseOpenIncident,
     DisableMonitor, DelMonitor, DelSchedule, ClearIncident,
     GetMonitor, ReadCache, ReadRow, FillCache
<1>4. /\ rpc[r] \notin {"insert", "decrement"}
      /\ rpc'[r] \notin {"insert", "decrement"}
  BY DEF UpdateMonitorStatus, FindMonitor, SetEnabled, CloseOpenIncident,
     DisableMonitor, DelMonitor, DelSchedule, ClearIncident,
     GetMonitor, ReadCache, ReadRow, FillCache, At, Goto, Answer, IInv, TypeOK
<1>5. /\ count' = count
      /\ \/ row' = row
         \/ Exists(m) /\ row' = [row EXCEPT ![m] = Wanted(req[r].op)]
  BY DEF UpdateMonitorStatus, FindMonitor, SetEnabled, CloseOpenIncident,
     DisableMonitor, DelMonitor, DelSchedule, ClearIncident,
     GetMonitor, ReadCache, ReadRow, FillCache, rows
<1>6. /\ \A n \in Monitors : n # m => row'[n] = row[n]
      /\ Exists(m)' <=> Exists(m)
  BY <1>2, <1>5 DEF IInv, TypeOK, Exists, States, Wanted
<1>7. Place(r, m)' = Place(r, m)
  BY <1>4, <1>6 DEF Place, One, At
<1> QED
  BY <1>1, <1>2, <1>3, <1>5, <1>6, <1>7, FaultsGrow, IdleKeeps

LEMMA StartCounts ==
  ASSUME IInv, QInv, NEW r \in Requests, Starts(r) PROVE QInv'
<1>1. PICK m \in Monitors, op \in Ops, step \in RequestSteps :
        /\ \/ op = "create" /\ step = "increment"
           \/ op = "read" /\ step = "readCache"
           \/ op \in {"enable", "disable", "delete"} /\ step = "find"
        /\ Start(r, op, m, step)
  BY StartsAre
<1>2. /\ IInv' /\ rpc'[r] = step /\ Subject(r)' = m
      /\ \A q \in Requests \ {r} : rpc'[q] = rpc[q] /\ req'[q] = req[q]
  BY <1>1, StartKeeps
<1>3. rpc[r] = "idle" /\ UNCHANGED <<row, count, faults>>
  BY <1>1 DEF Start, At, rows
<1>4. Place(r, m)' = Place(r, m)
  BY <1>1, <1>2, <1>3 DEF Place, One, At, Exists
<1> QED
  BY <1>2, <1>3, <1>4, IdleKeeps DEF About

LEMMA NothingCounted ==
  ASSUME QInv, UNCHANGED <<row, count, requestVars, faults>> PROVE QInv'
<1>1. \A u \in Users :
        /\ Owned(u)' = Owned(u)
        /\ Pending(u, "insert")' = Pending(u, "insert")
        /\ Pending(u, "decrement")' = Pending(u, "decrement")
  BY DEF Owned, Exists, Pending, At, Subject, requestVars
<1> QED
  BY <1>1 DEF QInv, PendingFinite, Counted, Places

(* However requests interleave and whichever of their commands fail, no     *)
(* user has more monitors than are counted or than the quota allows; while  *)
(* none fails, no place is lost.                                           *)
THEOREM QuotaIsKeptHolds == Spec => []QuotaIsKept
<1>1. IInv /\ QInv /\ [Next]_vars => QInv'
  <2> SUFFICES ASSUME IInv, QInv, [Next]_vars PROVE QInv'
    OBVIOUS
  <2>1. CASE UNCHANGED vars
    BY <2>1, NothingCounted DEF vars, rows
  <2>2. ASSUME NEW m \in Monitors, GoDown(m) \/ ComeBack(m) PROVE QInv'
    BY <2>2, NothingCounted DEF GoDown, ComeBack, rows
  <2>3. ASSUME NEW r \in Requests, RequestStep(r) PROVE QInv'
    BY <2>3, CreateCounts, DeleteCounts, OthersCount DEF RequestStep
  <2>4. ASSUME NEW c \in Checks,
               CheckStep(c) \/ PutBack(c) \/ \E m \in Monitors : Pop(c, m)
        PROVE  QInv'
    <3>1. UNCHANGED <<row, count, Outside>>
      BY <2>4 DEF CheckStep, LoadRow, LoadIntoCache, Examine, Reschedule,
         MarkAlerted, CreateIncident, MarkDBIncident, GetIncident, CloseIncident,
         ClearAfterRecovery, PutBack, Pop, rows
    <3> QED
      BY <3>1, NothingCounted DEF Outside
  <2> QED
    BY <2>1, <2>2, <2>3, <2>4, StartCounts DEF Next, Starts
<1> QED
  BY InitInv, NextKeeps, InitQuota, QuotaFollows, <1>1, PTL DEF Spec

-----------------------------------------------------------------------------
(* Held.  While no command fails, an enabled monitor that one request at a    *)
(* time has changed stays in the hands of the pipeline.                       *)

OneChanges(m) == \A r, q \in Changing(m) : r = q

(* Disabling writes the row first, and only enabling writes it back.        *)
Disabling == {"closeOpenIncident", "delMonitor", "delSchedule", "clearIncident"}
DisabledFirst(m) ==
  \A r \in Requests :
    Subject(r) = m /\ req[r].op = "disable" /\ rpc[r] \in Disabling
      => row[m] # "enabled"

(* A request that will schedule the monitor, or will delete its row.        *)
Settles(r) ==
  \/ rpc[r] = "schedule"
  \/ req[r].op = "delete" /\ rpc[r] \in {"clearIncident", "deleteRow"}

HeldOrSettled(m) ==
  faults = 0 /\ row[m] = "enabled" =>
    Held(m) \/ \E r \in Requests : Subject(r) = m /\ Settles(r)

Looked(m) == OneChanges(m) /\ DisabledFirst(m) /\ HeldOrSettled(m)
HInv == \A m \in Monitors \ contended : Looked(m)

LEMMA HeldFollows == HInv => EnabledIsHeld
BY DEF HInv, Looked, HeldOrSettled, EnabledIsHeld, Unattended

LEMMA InitHeld == Init => HInv
BY MonitorServiceAssumption
   DEF Init, HInv, Looked, OneChanges, DisabledFirst, HeldOrSettled, Changing,
       Subject, NoRequest

-----------------------------------------------------------------------------
(* What a step of a request r must do for the monitor m it is about: only    *)
(* enabling, a failure of it or an insertion enables the monitor, disabling  *)
(* goes on with the row disabled, and m is left to the pipeline or to r.     *)
Enables(r, m) ==
  row'[m] = "enabled" =>
    row[m] = "enabled" \/ r \in Changing(m) \/ rpc[r] = "insert"
GoesOnDisabled(r, m) ==
  rpc'[r] \in Disabling /\ req[r].op = "disable" => row'[m] # "enabled"
LeavesHeld(r, m) ==
  faults' = 0 /\ row'[m] = "enabled" =>
    \/ m \in schedule'
    \/ Subject(r)' = m /\ Settles(r)'
    \/ /\ faults = 0 /\ row[m] = "enabled" /\ ~Settles(r)
       /\ m \in schedule => m \in schedule'

LEMMA SubjectLooks ==
  ASSUME IInv, HInv, NEW r \in Requests, Continues(r),
         NEW m \in Monitors \ contended, Subject(r) = m, check' = check,
         Enables(r, m), GoesOnDisabled(r, m), LeavesHeld(r, m)
  PROVE  Looked(m)'
<1>1. \A q \in Requests \ {r} :
        rpc'[q] = rpc[q] /\ req'[q] = req[q] /\ Subject(q)' = Subject(q)
  BY DEF Continues, Moves, Subject
<1>2. Subject(r)' = m => req'[r].op = req[r].op
  BY MonitorServiceAssumption DEF Continues, Subject, NoRequest
<1>3. OneChanges(m)'
  BY <1>1, <1>2 DEF HInv, Looked, OneChanges, Changing
<1>4. DisabledFirst(m)'
  <2> SUFFICES ASSUME NEW q \in Requests, Subject(q)' = m, req'[q].op = "disable",
                      rpc'[q] \in Disabling
               PROVE  row'[m] # "enabled"
    BY DEF DisabledFirst
  <2>1. CASE q = r
    BY <1>2, <2>1 DEF GoesOnDisabled
  <2>2. CASE q # r
    <3>1. /\ Subject(q) = m /\ req[q].op = "disable" /\ rpc[q] \in Disabling
          /\ q \in Changing(m) /\ row[m] # "enabled"
      BY <1>1, <2>2 DEF HInv, Looked, DisabledFirst, Changing
    <3>2. r \notin Changing(m)
      BY <2>2, <3>1 DEF HInv, Looked, OneChanges
    <3>3. rpc[r] # "insert"
      BY <2>2, <3>1 DEF IInv, Fresh
    <3> QED
      BY <3>1, <3>2, <3>3 DEF Enables
  <2> QED
    BY <2>1, <2>2
<1>5. HeldOrSettled(m)'
  <2> SUFFICES ASSUME faults' = 0, row'[m] = "enabled"
               PROVE  Held(m)' \/ \E q \in Requests : Subject(q)' = m /\ Settles(q)'
    BY DEF HeldOrSettled
  <2>1. CASE m \in schedule'
    BY <2>1 DEF Held
  <2>2. CASE Subject(r)' = m /\ Settles(r)'
    BY <2>2
  <2>3. CASE /\ faults = 0 /\ row[m] = "enabled" /\ ~Settles(r)
             /\ m \in schedule => m \in schedule'
    <3>1. Held(m) \/ \E q \in Requests \ {r} : Subject(q) = m /\ Settles(q)
      BY <2>3 DEF HInv, Looked, HeldOrSettled
    <3>2. Held(m) => Held(m)'
      BY <2>3 DEF Held, Checked
    <3>3. \A q \in Requests \ {r} : Settles(q) => Settles(q)'
      BY <1>1 DEF Settles
    <3> QED
      BY <1>1, <3>1, <3>2, <3>3
  <2> QED
    BY <2>1, <2>2, <2>3 DEF LeavesHeld
<1> QED
  BY <1>3, <1>4, <1>5 DEF Looked

(* A request changes nothing about monitors other than its own.             *)
LEMMA OthersLook ==
  ASSUME IInv, HInv, NEW r \in Requests, NEW m \in Monitors \ contended,
         Subject(r) # m, Subject(r)' # m,
         \A q \in Requests \ {r} : rpc'[q] = rpc[q] /\ req'[q] = req[q],
         row'[m] = row[m], m \in schedule => m \in schedule',
         check' = check, faults' = 0 => faults = 0
  PROVE  Looked(m)'
<1>1. \A q \in Requests : Subject(q)' = m <=> Subject(q) = m
  BY DEF Subject
<1>2. \A q \in Requests : Subject(q) = m => rpc'[q] = rpc[q] /\ req'[q] = req[q]
  OBVIOUS
<1>3. OneChanges(m)' /\ DisabledFirst(m)'
  BY <1>1, <1>2 DEF HInv, Looked, OneChanges, DisabledFirst, Changing
<1>4. Held(m) => Held(m)'
  BY DEF Held, Checked
<1>5. \A q \in Requests : Subject(q) = m /\ Settles(q) => Settles(q)'
  BY <1>2 DEF Settles
<1>6. HeldOrSettled(m)'
  BY <1>1, <1>4, <1>5 DEF HInv, Looked, HeldOrSettled
<1> QED
  BY <1>3, <1>6 DEF Looked

(* So a step of a request is right if it is for its own monitor.             *)
LEMMA RequestHolds ==
  ASSUME IInv, HInv, NEW r \in Requests, Continues(r),
         check' = check, contended' = contended, faults' = 0 => faults = 0,
         \A n \in Monitors : n # Subject(r) =>
           row'[n] = row[n] /\ (n \in schedule => n \in schedule'),
         Enables(r, Subject(r)),
         Subject(r) \in contended \/ GoesOnDisabled(r, Subject(r)),
         Subject(r) \in contended \/ LeavesHeld(r, Subject(r))
  PROVE  HInv'
<1>1. PICK s : s = Subject(r)
  OBVIOUS
<1>2. ASSUME NEW m \in Monitors \ contended PROVE Looked(m)'
  <2>1. CASE m = s
    <3>1. Enables(r, m) /\ GoesOnDisabled(r, m)
      BY <1>1, <2>1 DEF Enables, GoesOnDisabled
    <3>2. LeavesHeld(r, m)
      BY <1>1, <2>1 DEF LeavesHeld
    <3> QED
      BY <1>1, <2>1, <3>1, <3>2, SubjectLooks
  <2>2. CASE m # s
    <3>1. Subject(r) # m /\ Subject(r)' # m
      BY <1>1, <2>2, MonitorServiceAssumption DEF Continues, Subject, NoRequest
    <3>2. \A q \in Requests \ {r} : rpc'[q] = rpc[q] /\ req'[q] = req[q]
      BY DEF Continues, Moves
    <3> QED
      BY <3>1, <3>2, OthersLook
  <2> QED
    BY <2>1, <2>2
<1> QED
  BY <1>2 DEF HInv

-----------------------------------------------------------------------------
LEMMA CreateHolds ==
  ASSUME IInv, HInv, NEW r \in Requests, CreateMonitor(r) PROVE HInv'
<1> DEFINE m == Subject(r)
<1>1. Continues(r) /\ UNCHANGED <<check, contended>> /\ (Works \/ Fails)
  BY CreateKeeps DEF CreateMonitor, IncrementMonitorCount, InsertMonitor,
     ScheduleMonitor, Surroundings, checkVars
<1>2. m \in Monitors /\ req[r].op # "disable"
  BY SubjectIsMonitor DEF CreateMonitor, IncrementMonitorCount, InsertMonitor,
     ScheduleMonitor, At, IInv, PathHolds
<1>3. /\ \A n \in Monitors : n # m =>
           row'[n] = row[n] /\ (n \in schedule => n \in schedule')
      /\ Enables(r, m)
  BY <1>2 DEF CreateMonitor, IncrementMonitorCount, InsertMonitor,
     ScheduleMonitor, IInv, TypeOK, rows, keys, At, Enables
<1>4. LeavesHeld(r, m)
  <2>1. CASE IncrementMonitorCount(r)
    BY <2>1, FaultsGrow DEF IncrementMonitorCount, LeavesHeld, Settles, At, IInv,
       PathHolds, keys
  <2>2. CASE InsertMonitor(r)
    <3>1. faults' = 0 => Goto(r, "schedule")
      BY <2>2, FaultsGrow DEF InsertMonitor
    <3>2. faults' = 0 => Subject(r)' = m /\ rpc'[r] = "schedule"
      BY <3>1 DEF Goto, Subject, IInv, TypeOK
    <3> QED
      BY <3>2 DEF LeavesHeld, Settles
  <2>3. CASE ScheduleMonitor(r)
    BY <2>3, <1>2, FaultsGrow DEF ScheduleMonitor, LeavesHeld
  <2> QED
    BY <2>1, <2>2, <2>3 DEF CreateMonitor
<1> QED
  BY <1>1, <1>2, <1>3, <1>4, RequestHolds, FaultsGrow DEF GoesOnDisabled

LEMMA UpdateHolds ==
  ASSUME IInv, HInv, NEW r \in Requests, UpdateMonitorStatus(r) PROVE HInv'
<1> DEFINE m == Subject(r)
<1>1. /\ Continues(r) /\ UNCHANGED <<check, contended, schedule>>
      /\ Works \/ Fails
  BY UpdateKeeps DEF UpdateMonitorStatus, FindMonitor, SetEnabled,
     CloseOpenIncident, Surroundings, checkVars, keys
<1>2. /\ m \in Monitors /\ rpc[r] \in {"find", "setEnabled", "closeOpenIncident"}
      /\ req[r].op \in {"enable", "disable", "delete"}
      /\ rpc[r] = "setEnabled" => req[r].op \in {"enable", "disable"}
  BY SubjectIsMonitor DEF UpdateMonitorStatus, FindMonitor, SetEnabled,
     CloseOpenIncident, At, IInv, PathHolds
<1>3. \A n \in Monitors : n # m => row'[n] = row[n]
  BY <1>2 DEF UpdateMonitorStatus, FindMonitor, SetEnabled, CloseOpenIncident,
     IInv, TypeOK, rows
<1>4. Enables(r, m)
  BY <1>2 DEF Enables, Changing
<1>5. CASE FindMonitor(r)
  <2>1. row' = row /\ ~Settles(r)
    BY <1>2, <1>5 DEF FindMonitor, At, Settles, rows
  <2>2. rpc'[r] \in Disabling => req[r].op = "delete"
    BY <1>5 DEF FindMonitor, Goto, Answer, IInv, TypeOK, Disabling
  <2> QED
    BY <1>1, <1>3, <1>4, <2>1, <2>2, FaultsGrow, RequestHolds
       DEF GoesOnDisabled, LeavesHeld
<1>6. CASE SetEnabled(r)
  <2>1. CASE Answer(r)
    <3>1. rpc'[r] = "idle"
      BY <2>1 DEF Answer, IInv, TypeOK
    <3>2. faults' = 0 => row' = row
      BY <1>6, <2>1, FaultsGrow, <3>1
         DEF SetEnabled, Goto, IInv, TypeOK
    <3>3. ~Settles(r)
      BY <1>2, <1>6 DEF SetEnabled, At, Settles
    <3> QED
      BY <1>1, <1>3, <1>4, <3>1, <3>2, <3>3, FaultsGrow, RequestHolds
         DEF GoesOnDisabled, LeavesHeld, Disabling
  <2>2. CASE ~Answer(r)
    <3>1. /\ row' = [row EXCEPT ![m] = Wanted(req[r].op)]
          /\ Goto(r, IF req[r].op = "enable" THEN "schedule"
                     ELSE "closeOpenIncident")
      BY <1>6, <2>2 DEF SetEnabled
    <3>2. /\ row'[m] = Wanted(req[r].op) /\ Subject(r)' = m
          /\ req[r].op = "enable" => rpc'[r] = "schedule"
      BY <1>2, <3>1 DEF Goto, Subject, IInv, TypeOK
    <3> QED
      BY <1>1, <1>2, <1>3, <1>4, <1>6, <3>2, FaultsGrow, RequestHolds
         DEF SetEnabled, At, GoesOnDisabled, LeavesHeld, Settles, Wanted
  <2> QED
    BY <2>1, <2>2
<1>7. CASE CloseOpenIncident(r)
  <2>1. /\ row' = row /\ rpc[r] = "closeOpenIncident" /\ ~Settles(r)
    BY <1>7 DEF CloseOpenIncident, At, Settles
  <2>2. ASSUME req[r].op = "disable" PROVE row[m] # "enabled" \/ m \in contended
    BY <1>2, <2>1, <2>2 DEF HInv, Looked, DisabledFirst, Disabling
  <2> QED
    BY <1>1, <1>2, <1>3, <1>4, <2>1, <2>2, FaultsGrow, RequestHolds
       DEF GoesOnDisabled, LeavesHeld
<1> QED
  BY <1>5, <1>6, <1>7 DEF UpdateMonitorStatus

LEMMA DisableHolds ==
  ASSUME IInv, HInv, NEW r \in Requests, DisableMonitor(r) PROVE HInv'
<1> DEFINE m == Subject(r)
<1>1. /\ Continues(r) /\ UNCHANGED <<row, check, contended>>
      /\ Works \/ Fails
  BY DisableKeeps DEF DisableMonitor, DelMonitor, DelSchedule, ClearIncident,
     Surroundings, checkVars, rows
<1>2. /\ m \in Monitors /\ rpc[r] \in Disabling
      /\ req[r].op \in {"disable", "delete"}
  BY SubjectIsMonitor DEF DisableMonitor, DelMonitor, DelSchedule, ClearIncident,
     At, IInv, PathHolds, Disabling
<1>3. \A n \in Monitors : n # m => (n \in schedule => n \in schedule')
  BY DEF DisableMonitor, DelMonitor, DelSchedule, ClearIncident
<1>4. Enables(r, m)
  BY <1>1 DEF Enables
<1>5. req[r].op = "disable" => row[m] # "enabled" \/ m \in contended
  BY <1>2 DEF HInv, Looked, DisabledFirst
<1>6. m \in contended \/ GoesOnDisabled(r, m)
  BY <1>1, <1>5 DEF GoesOnDisabled
<1>7. m \in contended \/ LeavesHeld(r, m)
  <2>1. CASE DelMonitor(r)
    BY <1>1, <2>1, FaultsGrow DEF DelMonitor, LeavesHeld, Settles, At
  <2>2. CASE req[r].op = "disable"
    BY <1>1, <1>5, <2>2 DEF LeavesHeld
  <2>3. CASE req[r].op = "delete" /\ (DelSchedule(r) \/ ClearIncident(r))
    <3>1. /\ req'[r] = req[r] /\ Subject(r)' = m
          /\ rpc'[r] \in {"clearIncident", "deleteRow"}
      BY <2>3 DEF DelSchedule, ClearIncident, Goto, Subject, IInv, TypeOK
    <3> QED
      BY <2>3, <3>1 DEF LeavesHeld, Settles
  <2> QED
    BY <1>2, <2>1, <2>2, <2>3 DEF DisableMonitor
<1> QED
  BY <1>1, <1>3, <1>4, <1>6, <1>7, FaultsGrow, RequestHolds

LEMMA DeleteHolds ==
  ASSUME IInv, HInv, NEW r \in Requests, DeleteMonitor(r) PROVE HInv'
<1> DEFINE m == Subject(r)
<1>1. /\ Continues(r) /\ UNCHANGED <<check, contended, schedule>>
      /\ Works \/ Fails
  BY DeleteKeeps DEF DeleteMonitor, DeleteRow, DecrementMonitorCount,
     Surroundings, checkVars, keys
<1>2. /\ m \in Monitors /\ rpc[r] \in {"deleteRow", "decrement"}
      /\ req[r].op = "delete"
  BY SubjectIsMonitor DEF DeleteMonitor, DeleteRow, DecrementMonitorCount, At,
     IInv, PathHolds
<1>3. /\ \A n \in Monitors : n # m => row'[n] = row[n]
      /\ row' = row \/ row'[m] = "deleted"
  BY <1>2 DEF DeleteMonitor, DeleteRow, DecrementMonitorCount, IInv, TypeOK
<1>4. Enables(r, m) /\ GoesOnDisabled(r, m)
  BY <1>2, <1>3 DEF Enables, GoesOnDisabled
<1>5. LeavesHeld(r, m)
  <2>1. CASE DeleteRow(r)
    <3>1. faults' = 0 => row'[m] # "enabled"
      BY <1>2, <2>1, FaultsGrow DEF DeleteRow, Exists, States, IInv, TypeOK
    <3> QED
      BY <3>1 DEF LeavesHeld
  <2>2. CASE DecrementMonitorCount(r)
    BY <1>1, <2>2, FaultsGrow DEF DecrementMonitorCount, At, LeavesHeld, Settles
  <2> QED
    BY <2>1, <2>2 DEF DeleteMonitor
<1> QED
  BY <1>1, <1>3, <1>4, <1>5, FaultsGrow, RequestHolds

LEMMA GetHolds ==
  ASSUME IInv, HInv, NEW r \in Requests, GetMonitor(r) PROVE HInv'
<1>1. /\ Continues(r) /\ UNCHANGED <<row, check, contended, schedule>>
      /\ Works \/ Fails
  BY GetKeeps DEF GetMonitor, ReadCache, ReadRow, FillCache, Surroundings,
     checkVars, rows, keys
<1>2. /\ ~Settles(r) /\ rpc'[r] \notin Disabling
  BY DEF GetMonitor, ReadCache, ReadRow, FillCache, At, Settles, Goto, Answer,
     Disabling, IInv, TypeOK
<1> QED
  BY <1>1, <1>2, FaultsGrow, RequestHolds DEF Enables, GoesOnDisabled, LeavesHeld

(* A change that begins while another is under way sets the monitor aside.  *)
LEMMA StartHolds ==
  ASSUME IInv, HInv, NEW r \in Requests, Starts(r) PROVE HInv'
<1>1. PICK n \in Monitors, op \in Ops, step \in RequestSteps :
        /\ \/ op = "create" /\ step = "increment"
           \/ op = "read" /\ step = "readCache"
           \/ op \in {"enable", "disable", "delete"} /\ step = "find"
        /\ Start(r, op, n, step)
  BY StartsAre
<1>2. /\ rpc'[r] = step /\ Subject(r)' = n /\ req'[r].op = op
      /\ \A q \in Requests \ {r} : rpc'[q] = rpc[q] /\ req'[q] = req[q]
  BY <1>1, StartKeeps
<1>3. /\ UNCHANGED <<row, schedule, check, faults>> /\ contended \subseteq contended'
      /\ op \in {"enable", "disable", "delete"} /\ Changing(n) # {}
           => n \in contended'
  BY <1>1 DEF Start, rows, keys, checkVars
<1>4. req[r] = NoRequest
  BY <1>1 DEF Start, At, IInv, PathHolds
<1>5. ASSUME NEW m \in Monitors \ contended' PROVE Looked(m)'
  <2>1. m \in Monitors \ contended
    BY <1>3
  <2>2. Subject(r) # m
    BY <1>4, MonitorServiceAssumption DEF Subject, NoRequest
  <2>3. CASE n # m
    BY <1>2, <1>3, <2>1, <2>2, <2>3, OthersLook
  <2>4. CASE n = m
    <3>1. \A q \in Requests \ {r} : Subject(q)' = Subject(q)
      BY <1>2 DEF Subject
    <3>2. \/ Changing(m)' = Changing(m)
          \/ Changing(m)' = {r}
      <4>1. CASE op \in {"enable", "disable", "delete"}
        <5>1. Changing(m) = {}
          BY <1>3, <1>5, <2>4, <4>1
        <5>2. \A q \in Requests \ {r} : q \notin Changing(m)'
          BY <1>2, <3>1, <5>1 DEF Changing
        <5>3. r \in Changing(m)'
          BY <1>2, <2>4, <4>1 DEF Changing
        <5> QED
          BY <5>2, <5>3 DEF Changing
      <4>2. CASE op \notin {"enable", "disable", "delete"}
        <5>1. r \notin Changing(m)' /\ r \notin Changing(m)
          BY <1>2, <2>2, <4>2 DEF Changing
        <5>2. \A q \in Requests \ {r} : q \in Changing(m)' <=> q \in Changing(m)
          BY <1>2, <3>1 DEF Changing
        <5>3. Changing(m) \subseteq Requests /\ Changing(m)' \subseteq Requests
          BY DEF Changing
        <5> QED
          BY <5>1, <5>2, <5>3
      <4> QED
        BY <4>1, <4>2
    <3>3. OneChanges(m)'
      BY <2>1, <3>2 DEF HInv, Looked, OneChanges
    <3>4. DisabledFirst(m)'
      BY <1>1, <1>2, <1>3, <2>1, <3>1
         DEF HInv, Looked, DisabledFirst, Disabling
    <3>5. Held(m)' <=> Held(m)
      BY <1>3 DEF Held, Checked
    <3>6. \A q \in Requests : Subject(q) = m /\ Settles(q)
                                => Subject(q)' = m /\ Settles(q)'
      BY <1>2, <2>2, <3>1 DEF Settles
    <3>7. HeldOrSettled(m)'
      BY <1>3, <2>1, <3>5, <3>6 DEF HInv, Looked, HeldOrSettled
    <3> QED
      BY <3>3, <3>4, <3>7 DEF Looked
  <2> QED
    BY <2>3, <2>4
<1> QED
  BY <1>5 DEF HInv

-----------------------------------------------------------------------------
(* Checks keep an enabled monitor until it is in the schedule again.         *)
LEMMA HeldKeeps ==
  ASSUME HInv, UNCHANGED <<row, requestVars, faults, contended>>,
         \A m \in Monitors : row[m] = "enabled" /\ Held(m) => Held(m)'
  PROVE  HInv'
<1>1. ASSUME NEW m \in Monitors \ contended PROVE Looked(m)'
  <2>1. OneChanges(m)' /\ DisabledFirst(m)'
    BY DEF HInv, Looked, OneChanges, DisabledFirst, Changing, Subject, requestVars
  <2>2. \A r \in Requests : Subject(r)' = Subject(r) /\ (Settles(r)' <=> Settles(r))
    BY DEF Subject, Settles, requestVars
  <2>3. HeldOrSettled(m)'
    BY <2>2 DEF HInv, Looked, HeldOrSettled
  <2> QED
    BY <2>1, <2>3 DEF Looked
<1> QED
  BY <1>1 DEF HInv

LEMMA ChecksHold ==
  ASSUME IInv, HInv, NEW c \in Checks,
         CheckStep(c) \/ PutBack(c) \/ \E n \in Monitors : Pop(c, n)
  PROVE  HInv'
<1>1. UNCHANGED <<row, Outside>>
  BY DEF CheckStep, LoadRow, LoadIntoCache, Examine, Reschedule, MarkAlerted,
     CreateIncident, MarkDBIncident, GetIncident, CloseIncident,
     ClearAfterRecovery, PutBack, Pop, rows
<1>2. ASSUME NEW m \in Monitors, row[m] = "enabled", Held(m) PROVE Held(m)'
  <2>1. CASE \E n \in Monitors : Pop(c, n)
    <3>1. PICK n \in Monitors : Pop(c, n)
      BY <2>1
    <3>2. /\ schedule' = schedule \ {n} /\ Checked(c)' = n /\ check'[c].seen = "none"
          /\ \A d \in Checks \ {c} : check'[d] = check[d]
      BY <3>1 DEF Pop, Checked, IInv, TypeOK
    <3>3. Checked(c) # m
      BY <3>1, MonitorServiceAssumption
         DEF Pop, AtCheck, IInv, CheckHolds, Checked, NoCheck
    <3> QED
      BY <1>2, <3>2, <3>3 DEF Held, Checked
  <2>2. CASE PutBack(c) \/ Reschedule(c)
    <3>1. /\ schedule' = schedule \cup {Checked(c)}
          /\ \A d \in Checks \ {c} : check'[d] = check[d]
      BY <2>2 DEF PutBack, Reschedule, Drop, IInv, TypeOK
    <3> QED
      BY <1>2, <3>1 DEF Held, Checked
  <2>3. CASE LoadRow(c)
    <3>1. schedule' = schedule /\ \A d \in Checks \ {c} : check'[d] = check[d]
      BY <2>3 DEF LoadRow, Drop, keys, IInv, TypeOK
    <3>2. ASSUME Checked(c) = m
          PROVE  Checked(c)' = m /\ check'[c].seen # "disabled"
      <4>1. check' = [check EXCEPT ![c].seen = "enabled"]
        BY <1>2, <2>3, <3>2 DEF LoadRow, Exists, States
      <4>2. check[c] \in [monitor : Monitors, seen : States \cup {"none"}]
        BY <2>3 DEF LoadRow, AtCheck, IInv, TypeOK, CheckHolds
      <4>3. check'[c] = [check[c] EXCEPT !.seen = "enabled"]
        BY <4>1 DEF IInv, TypeOK
      <4>4. check'[c].seen = "enabled" /\ check'[c].monitor = check[c].monitor
        BY <4>2, <4>3
      <4> QED
        BY <3>2, <4>4 DEF Checked
    <3> QED
      BY <1>2, <3>1, <3>2 DEF Held, Checked
  <2>4. CASE LoadIntoCache(c)
    <3>1. schedule' = schedule /\ \A d \in Checks \ {c} : check'[d] = check[d]
      BY <2>4 DEF LoadIntoCache, Proceed, Drop, IInv, TypeOK
    <3>2. check'[c] = check[c] \/ check[c].seen = "disabled"
      BY <2>4 DEF LoadIntoCache, Proceed, AtCheck, IInv, CheckHolds, States
    <3> QED
      BY <1>2, <3>1, <3>2 DEF Held, Checked
  <2>5. CASE UNCHANGED <<schedule, check>>
    BY <1>2, <2>5 DEF Held, Checked
  <2> QED
    BY <2>1, <2>2, <2>3, <2>4, <2>5
       DEF CheckStep, Examine, MarkAlerted, CreateIncident, MarkDBIncident,
           GetIncident, CloseIncident, ClearAfterRecovery, Proceed, keys
<1> QED
  BY <1>1, <1>2, HeldKeeps DEF Outside

LEMMA NothingHeldChanges ==
  ASSUME HInv, UNCHANGED <<row, requestVars, faults, contended, schedule, check>>
  PROVE  HInv'
BY HeldKeeps DEF Held, Checked

(* While no command fails and no two requests change a monitor at the same   *)
(* time, an enabled monitor is in the schedule or on its way back to it.     *)
THEOREM EnabledIsHeldHolds == Spec => []EnabledIsHeld
<1>1. IInv /\ HInv /\ [Next]_vars => HInv'
  <2> SUFFICES ASSUME IInv, HInv, [Next]_vars PROVE HInv'
    OBVIOUS
  <2>1. CASE UNCHANGED vars
    BY <2>1, NothingHeldChanges DEF vars, rows, keys, checkVars
  <2>2. ASSUME NEW m \in Monitors, GoDown(m) \/ ComeBack(m) PROVE HInv'
    BY <2>2, NothingHeldChanges DEF GoDown, ComeBack, rows, keys, checkVars
  <2>3. ASSUME NEW r \in Requests, RequestStep(r) PROVE HInv'
    BY <2>3, CreateHolds, UpdateHolds, DisableHolds, DeleteHolds, GetHolds
       DEF RequestStep
  <2> QED
    BY <2>1, <2>2, <2>3, StartHolds, ChecksHold DEF Next, Starts
<1> QED
  BY InitInv, NextKeeps, InitHeld, HeldFollows, <1>1, PTL DEF Spec
=============================================================================
