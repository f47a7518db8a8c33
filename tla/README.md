# Sofon in TLA+

Sofon polls HTTP endpoints, opens an incident when an endpoint fails, closes it
when the endpoint recovers, and announces both. This directory holds TLA+
models of the parts in which that can go wrong, TLC configurations that check
them on small instances, and proofs by the TLA+ proof system (TLAPS) of what
holds for every instance.

## 1. The system

One Go process (`cmd/server/main.go`, wired in `internals/app/container.go`)
runs an HTTP API and a pipeline of goroutine pools joined by channels. Redis and
PostgreSQL hold what survives the process; no transaction spans the two, nor any
two commands to one of them.

```
          Redis monitor:schedule (ZSET)  <-------------------------------+
                 | ZPOPMIN, once a tick                                  |
             scheduler --jobChan--> executor --resultChan--> router      |
                                                             |     |     |
                                                    successChan failureChan
                                                             |     |     |
                                              success workers  failure workers
                                                 |       |        |      |
                          Redis hash, retry counter, status   ScheduleMonitor
                          PostgreSQL monitor_incidents
                                                 |
                                             alertChan --> alert workers
```

| Component (source) | State | Operations | What makes it correct |
|---|---|---|---|
| Scheduler (`modules/scheduler`) | the popped batch, the ticker | tick, pop, dispatch, backpressure, reinsert | no popped monitor is forgotten or doubled; none starves; lateness is bounded |
| Executor (`modules/executor`) | `httpSem`, `httpWg`, goroutines | load, check, classify, send | each job ends in one result, one reschedule or a deliberate stop |
| Result processor (`modules/result`) | channels, pools; hash, counter, status, `monitor_incidents` | router, `handleFailure`, `handleSuccess` | one incident per outage, announced once when it opens and once when it closes; the monitor is scheduled again |
| Redis helpers (`pkg/redis`) | the keys | commands repeated up to three times | a repeated command must not change the outcome |
| Monitor service (`modules/monitor`) | table `monitors`, cache, quota | create, read, enable, disable, delete, schedule | enabled monitors are scheduled, disabled ones are not checked; the quota counts the rows |
| Alert service (`modules/alert`) | table `alerts`, cached plugin configuration | take an alert, send, record | every alert is handled, in the end under the current configuration |
| Plugins (`modules/plugin`) | table `plugins` | upsert, read, delete | a change takes effect |
| Users (`modules/user`) | `users`, `instance_settings` | register, log in, quota | one owner; registration closes after the first user |
| Teams (`modules/team`) | `teams`, `team_members`, `invitations` | create, invite, revoke, accept | an invitation is used once, and not after it was revoked |
| Incidents (`modules/incident`) | none | cursor pagination | no row twice, none skipped |
| Shutdown (`main.go`, `container.go`) | context, channels, wait groups | cancel, close in order, wait | no send on a closed channel, nothing waits for ever |
| Web client (`web/src/service`, `store`, `components/layout`) | calls in flight, teams, current team, the team saved in the browser | fetch and create teams, switch | the page reopens with the team the user is on |
| Pages (`web/src/app/(main)`, `store`, `components/monitors`) | rows, cursors, forms, dialogs, spinners | fetch, page, filter, change, navigate | what is on screen belongs to the current team and page, whatever order answers come in; changes reach the lists |
| Session (`web/src/proxy.ts`, `components/auth`, `app/(auth)`) | token, cookie, profile, the navigation under way | sign in, out, up; redirect; guard | a page shows its user's profile; redirects come to an end |

What is hard about this code is written up, line by line, in the `hazards` of
`PROJECT.json`. The main ones:

* *Atomicity.* Both handlers make a chain of single commands to Redis and
  PostgreSQL. Each can fail, or be applied with its answer lost, and `retry`
  (`pkg/redis/retry.go`) then applies it again.
* *Custody.* A monitor is checked again only because something puts it back
  into `monitor:schedule`. There is no reconciliation: a monitor that leaves the
  pipeline is not checked again, though its row says it is enabled, until somebody
  disables and enables it.
* *Interleaving.* No lock protects the stores of a monitor; two handlers keep
  apart only as far as one check of it is under way at a time. The pipeline sees
  to that, but enabling a monitor while its last check is under way starts another.
* *Blocking.* Every channel is bounded, and full ones block what feeds them.
* *Time.* Ticks, backoff and intervals decide who is popped and when.
* *Late answers.* The browser cancels and numbers no request, every answer that
  arrives is shown, and the team, the page and the user may have changed since
  the question. Every change of the current team makes the page on screen ask
  again.

## 2. Modules

| Module | Role |
|---|---|
| `ResultProcessor` | the result processor, one action per command |
| `OutageNotifications` | what the result processor promises about incidents and alerts |
| `MCResultProcessor` | instances of `ResultProcessor` for TLC |
| `ResultProcessorProofs` | TLAPS: types, custody and losses of the result processor |
| `IncidentProofs` | TLAPS: alerts, incidents and the refinement of `OutageNotifications` |
| `Scheduler` | the scheduler, with time |
| `MCScheduler` | instances of `Scheduler` for TLC |
| `SchedulerProofs` | TLAPS: types, custody, no loss and no delay in the scheduler |
| `MonitorService` | the monitor API against the pipeline: rows, quota, schedule, cache, incident |
| `MonitorServiceProofs` | TLAPS: types, the quota, and enabled monitors in the pipeline, in `MonitorService` |
| `MCMonitorService` | instances of `MonitorService` for TLC |
| `Accounts` | registration, teams, members and invitations |
| `MCAccounts` | instances of `Accounts` for TLC |
| `AccountsProofs` | TLAPS: types, accepted invitations, and who belongs to a team, founds and manages it, in `Accounts` |
| `AlertDelivery` | the alert workers, the plugin rows and their cached copies |
| `Pipeline` | goroutines and channels from the scheduler to the alert workers, and their shutdown |
| `MCPipeline` | instances of `Pipeline` for TLC |
| `PipelineProofs` | TLAPS: types, shutdown that drains the pipeline, and custody against the API's requests, in `Pipeline` |
| `Client` | calls in flight, the store of teams, the team switcher |
| `Incidents` | the list of incidents and the page of one |
| `PluginPages` | the store, the list and the form of plugins |
| `MonitorPages` | the store, the list and the creation of monitors |
| `TeamPage` | members, invitations and name of a team |
| `Session` | token, proxy, guard, and the forms to sign in, register and join |
| `Pages` | the client: all of the above together |
| `MCPages` | instances of `Pages` for TLC |
| `PagesProofs` | TLAPS: the history of the incident list, and the session, in `Pages` |
| `ClientProofs` | TLAPS: the calls in flight, and what the pages show while answers come in any order, in `Pages` |

### ResultProcessor

`pc[w]` names the command that worker `w` issues next and `job[w]` the result it
handles; each command is one action, named after the Go function it calls, so
other workers can run between any two. The redis hash is a record with the
fields of `pkg/redis/incident.go`; an all-clear record stands for a missing key.
Counters saturate where the code stops telling values apart
(`failure_count` at the threshold, `retry` just above the limit). Rows of
`monitor_incidents` keep their monitor and whether they are open. The alerts
ever sent form a log with a position up to which alert workers have received, so
that the log also serves as history.

`Check` stands for the scheduler and the executor: a scheduled monitor of a
healthy endpoint yields a success, one of a failing endpoint yields any of
`FailureKinds`. The kinds are those the handlers tell apart, plus `unstorable`:
a rejected answer whose status code is above 599, which the table refuses.

A failure (`Fails`) is a Go call that returns an error after its repetitions. It
may have been applied by the server any number of times the repetitions allow;
calls that succeed at a repetition may have counted more than once. `Crash`
empties everything in the process.

The module is about the pipeline: no request of the API enables, disables or
deletes a monitor in the meantime. A request that enables one while it is in the
pipeline schedules it a second time (`monitor/service.go:136-138`), and then two
handlers of it may run at once; what becomes of schedule, rows and hash then is
in `MonitorService`, and where the second copy can be, in `Pipeline`.

`OutageNotifications` has one variable, the phase of each monitor's latest
incident, and allows only quiet, opened, announced, closed and quiet again.
`ResultProcessor` implements it with `phase` read off the rows and the log.

### Scheduler

`score[m]` is the time until `m` is due, so that `now` need not be in the state;
`TimePasses` moves all scores and the ticker. The popped batch is a set: ZPOPMIN
returns it in the order of scores, and `IsNext` takes the items in that order.
`tickedAt` is the `now` that `doWork` reads before it pops. `Cancel` is the
signal that ends the context; from then on every Redis command fails, and the
`select` of `doWork` may also return (`Abandon`). `Restart` is a crash or the
end of a shutdown, followed by a new process on the same Redis. The rest of the
pipeline is `checking`: `Receive` takes a job, and `ScheduleMonitor` or `GiveUp`
ends it. `Activate` is a request that creates or enables a monitor, here only one
that nothing holds; the others are in `MonitorService` and `Pipeline`.

### MonitorService

Requests and checks each have a program counter (`rpc`, `cpc`) and a record of
what they hold; each command to PostgreSQL or Redis is one action. Deletion and
creation of rows show as the values `unborn` and `deleted` of `row[m]`; the
cached monitor is reduced to its `enabled`, the one field that changes behind a
reader's back. A request starts once authentication, team access and validation
are passed; it comes from the team of the monitor, so the comparison of team ids
in `GetMonitor` always succeeds.

The pipeline appears as far as it shares state with the API: `Pop` and `PutBack`
are the scheduler, `LoadRow` and `LoadIntoCache` the executor's `LoadMonitor`,
the rest one failure or success handler. Left out here, because the modules
above are about them: failed commands of the pipeline, the number of failures
before an outage (taken as one), results that end the monitoring, alerts. Left
out as well: the 24 hours after which a cached monitor expires, which are long
against everything else.

`contended` is a history variable: monitors that two requests were changing at
the same time. The code gives no order to such requests, and properties that
need one exclude these monitors.

### Accounts

One action per statement, requests interleave, and one that fails may have been
carried out. `sent` keeps what an invitation row said even after the row is
gone; `status` is where the row is in its life. `TeamAccess` is the middleware,
which reads the caller's membership once before the handler runs; it stands for
`TeamAccessMiddleware` and `RequireTeamRole` together. A caller is any known
user; `users.is_active` never becomes false in this code and is left out, as are
tokens and passwords. `raced` and `contended` are history variables for
registrations, and requests of a team to set members (in)active, that ran at
the same time.

### AlertDelivery

A worker (`astep`, `todo`, `acopy`) takes an alert and asks one plugin after the
other: the key in Redis, on a miss the row, then it writes the key and sends. Of
a configuration only this is kept: whether a copy of it, in Redis or in the hands
of a worker, is the one that is stored (`"current"`) or an older one
(`"outdated"`). `ChangePlugin` makes every copy outdated, because neither saving
nor deleting a plugin touches the key. The five minutes of a key pass in two
steps (`KeyAges`), so that a worker can be slower than a key is old, and a key
can be renewed. Every command may fail at any time; then the worker goes on as
the code does. `Configurable` is `isValidType`: the alert service asks for
Zenduty, but the API stores no such row. The mails, the events and the rows of
`alerts`, which nothing reads, are left out, and so is the branch for a
configuration without any address: `validateConfig` demands the sender's.

### Pipeline

`Pipeline` extends `AlertDelivery` and is about who holds a monitor, who blocks
and who waits for whom: each goroutine has a step and what it holds (`xstep`,
`xjob`; `cstep`, `cjob`, one of each for a slot of `httpSem`, so that two checks
of one monitor can be under way; `rstep`, `rjob`; `routing`, `batch`), each
channel is a sequence with a capacity, and `main` walks through `Container.Shutdown`. `ExecutorStop` is `httpWg.Wait()`, which waits for
checks under way and not for the workers that start them. A send on a closed
channel ends the process (`SendPanics`). What the handlers write, and when a
monitor is due, is the business of `ResultProcessor` and `Scheduler`; here a
handler decides in one step between an alert, the next check and the end of the
monitoring, and a pop takes any monitors. While the context lives every ZADD
succeeds; afterwards none is sent, so nothing that is in the process then is
scheduled again. A monitor that was given up stays out until a request enables it.

`Enable` and `Disable` are the API's requests, as far as they change the schedule:
at any moment while the server runs, for any monitor, `requests` of them. `Enable`
does not look at who holds the monitor, as `UpdateMonitorStatus` does not;
`overlapped` is a history variable, the monitors that were enabled while a
goroutine or a channel held them.

### Client

`calls` is what the browser has in flight, in the order sent. A call is sent,
served (`Serve...`: the handler of the server, which runs the whole request) and
answered (`...Succeeds`); it may be served and answered in any order, refused, or
lost before or after it was served (`...Fails`). A call is a record of what its
answer needs, above all the team it was sent for, which the code takes from the
closure or the URL. `fetch` of an effect, or of a store, is one action with the
click or the answer that causes it, because no other code of the page runs in
between.

The effect that every page has on the current team is what ties the modules
together: the actions that change the team take the calls after that effect as
an argument, and `Pages` says for each page what it sends and how it renders
(`EffectSends`, `EffectRenders`).

Every page keeps, as history, the fate of its last question: answered and shown,
or `"stale"` when it failed or an older answer was shown after its own. The code
settles on either outcome of such a race, so the properties ask about pages
whose last question was answered last, and, for lists that changes are patched
into, whose changes raced with nothing. A page nobody fetched anew is not
excused: the switch of a team must fetch, or the property is violated.

### Incidents, PluginPages, MonitorPages, TeamPage

Each module has the local state of its pages, one record per React component
with the names of the code, and one action per control; its guard says when the
control is rendered and enabled. A page that is left is unmounted: its state is
lost, and answers to its calls find the store only (`mine` is false, or the call
is dropped where only the page would have used it).

Cursors are numbers of pages in `Incidents`, where rows are told apart only by
the question they answer. In `MonitorPages`, whose rows change, monitors are
numbered as they are created, pages and cursors are computed from the rows the
server has when it serves the call, and `OnPage` and `NextCursor` are the query
of `GetAll` with its limit. Of a plugin only whether it is configured is kept, and
of its form whether it is filled in; of the form for a monitor the channels, of
the team page one member besides the user.

### Session

A token is the number of the login that minted it. `token` is the one in
localStorage, which is sent, `cookie` the one the proxy reads; both are written
together, and the cookie expires on its own. A navigation is asked for (`Push`,
`Visit`, `window.location`) and routed in steps of its own (`Route`): first the
proxy, then the page, which may ask the server whether registration is open. The
page that is on screen lives on until another arrives. `hard` is a reload of the
document, which loses the stores and all calls. `/monitors` stands for the
guarded pages that the proxy knows, `/plugins` for those it does not.

### Pages

A behaviour stays in one area of the client, the one the browser was opened in
(`Openings`). Between areas only the stores of teams and plugins are shared, and
a page that is entered fetches what it shows; the areas `monitors` and `new`
differ in which dialogs and forms are used, to keep the instance small.

## 3. Runs

| Run | Question | Bounds |
|---|---|---|
| `ResultProcessorCustody` | can the pipeline double a monitor, or lose one without a fault? | 2 monitors, 1+2 workers, 1 fault, channels of 1 |
| `ResultProcessorFaults` | can an alert be sent twice? | 1 monitor, 3 outages, 2 faults, 1 crash |
| `ResultProcessorLive` | do hash, rows and alerts agree when nothing fails, and is each lasting outage and recovery reported? | 2 outages, no fault, fair |
| `SchedulerCustody` | can a monitor be doubled, lost without a fault, crash or shutdown, or starve? | 3 monitors, batch 2, job channel 1, one of each |
| `SchedulerPunctual` | how late can a check be? | 3 monitors, batch 3, room for all, 1 fault |
| `MonitorService` | do rows, quota, schedule and cache agree under overlapping requests and checks? | 1 monitor, 2 requests at once, 3 in all, 2 checks, 1 outage, 1 fault |
| `Accounts` | do users, members and invitations agree under overlapping requests, and can what failed be tried again? | 2 people, 1 team, 1 invitation, 2 requests at once, any number in all, 1 fault |
| `Pages` | does what is on screen belong to the current team, page and user, do changes reach the lists, do spinners end and redirects settle? | 2 teams, 2 calls in flight at a click, 3 pages, 2 monitors, 2 plugins, 2 users, 2 logins; nine openings |
| `Pipeline` | does shutdown come to an end from every state, what does it lose, when can a monitor be in two places, and does a changed plugin take effect? | 2 monitors with plugins at rest, or 1 monitor with one plugin edited, or 1 monitor and one request that enables or disables it; 2 executor workers, 1 HTTP slot, 1 success, 1 failure and 1 alert worker, channels of 1; fair |
| `ScheduleLost`, `DnsOutage`, `ToggleDuringOutage` | where code and documentation disagree (section 5) | 1 monitor, at most 1 fault in one step |

Why these bounds are enough. Two monitors are needed for everything in which
monitors meet (channels, workers, the schedule), and no property of the result
processor relates three. Two failure workers are needed to run a handler beside
another of the same pool; handlers of different pools meet in every run. One
slot per channel makes every channel block. `MaxFaults`, `MaxCrashes` and
`MaxOutages` bound how often the world interferes; three outages let the hash be
used, deleted and used again. In the scheduler, a batch smaller than the number
of monitors and larger than the job channel makes the pop leave somebody behind
and the dispatch meet a full channel. `MaxLate` cuts off lateness where no
property tells values apart any more, and `MaxWork` says how long one `doWork`
may take.

In `MonitorService` monitors share only the count of their owner, and a quota of
one makes a second creation meet the limit. Two checks of a monitor at once are
the most that one disabling and enabling can cause, and three requests allow
create, disable, enable and create, delete, delete. In `Accounts`, requests are
not counted: a finite number of rows bounds the states, and the liveness
properties can ask again and again. The second person is the first admin's
invitee; a third would add no new relation.

In `Pages`, two calls may be in flight when somebody clicks (`MaxCalls`); the
effects and handlers that answers set off send theirs in addition. Two calls are
enough for every race of two questions, or of a question and a change; the
properties relate one shown answer to one newer question. Two teams are needed to
switch, two monitors on pages of one for a next page, two cursors in a stack or
history to tell its top from its bottom. Two users and two logins let one user's
answer arrive at the other's page. `MaxOutages` bounds how often the question
about the setup fails in a row, since each failure may redirect; the server that
never answers it would keep the pages redirecting for ever. Nobody follows a link
or reloads while a page is on its way, and a behaviour in which somebody signed in
twice, which the properties exclude, is followed no further.

In `Pipeline` every channel has one slot and there is one request at a time, so
that with two monitors each channel, and the semaphore, blocks somebody while
another monitor is anywhere else; a third monitor would only wait longer at the
same places. Two executor workers let one of them be between its job and its
check when `Stop` returns. `Openings` separates the crowded instance from the one
with edits, because the plugins are read by the alert worker only, and both from
the one with a request, which may come at any moment of it: one that enables the
monitor while it is held is enough for two copies of it in the process. The
theorems of section 6 have any number of requests, monitors and edits together.

Deadlock is checked in the runs of the scheduler, of `Pipeline` and of `Accounts`. The result
processor may really stop: when every monitor is given up on or lost there is
nothing left to do. `MonitorService` stops when its requests are used up and no
monitor is scheduled. A page of `Pages` may have nothing left to click, such as
the list of a user who has no team once all teams were created elsewhere. Their
configurations say `CHECK_DEADLOCK FALSE`.

## 4. Fairness

The goroutines of the pools, the router, the alert workers and the scheduler are
weakly fair: the Go scheduler runs what can run. A send on a full channel is
simply not enabled until there is room. Time passes. Nothing is assumed of the
endpoint or of failures. `DrainsBetweenTicks` in `Scheduler` is an assumption
about the executor, needed for `EveryMonitorIsChecked`: an executor that frees a
slot only after a tick has come and gone lets later monitors of the batch take
it every time, and the first of the batch can then starve. With a tick of 30
seconds and requests that end within seconds the assumption is the normal case.

In `MonitorService` requests and checks are weakly fair, and so is popping a
monitor that stays in the schedule. `LoadRow` is strongly fair for each monitor:
a popped monitor may be put back for lack of room, again and again, but not for
ever, which is `EveryMonitorIsChecked` of `Scheduler`. In `Accounts` only the
steps of a request that was begun are fair; its two liveness properties assume
in their own text that somebody goes on asking.

In `Pipeline` every goroutine goes on when it can, checks end (they have a
timeout), and keys of Redis grow old. Weak fairness is enough, because each
channel is read by workers that do not compete for being enabled: what waits to
be received stays. Nobody has to stop the process, and nobody has to leave the
plugins alone: `ChangeTakesEffect` says what happens if they do.

In `Pages` navigations are routed and calls of a session are answered in the
end, with an error if need be: axios gives up after 15 seconds (`service/api.ts`).
Nothing is assumed of the server or of the user.

## 5. Where code and documentation disagree

Each is a run with `expect` set to `violation`; see `findings` in
`PROJECT.json`.

* `ScheduleLost`: `ScheduleMonitor` does not go on asynchronously after its
  third attempt, as a comment and its own message say.
* `DnsOutage`: one DNS failure ends the monitoring, without an incident.
* `ToggleDuringOutage`: a monitor is disabled while a failing check is under
  way. The check inserts its incident after the open ones were closed, and then
  the hash is deleted that would have closed it; when the monitor is enabled
  again and is up, the incident stays open.

Of the pipeline, without a run of their own:

* The alert decision is stored before the insert (`failure_worker.go:82-95`), so
  an insert that fails is never tried again during that outage, though the README
  of the repository says that three failures create an incident. With
  `FaultySteps = {"createIncident"}` and `MaxFaults = 1` in `DnsOutage.cfg`, and
  only rejected failures, TLC shows it as a violation of `OutageIsReported`; with
  `FailureKinds` extended by `unstorable` it needs no fault, for status codes
  above 599; with the fault in the HSET of `db_incident` instead, the recovery
  leaves the incident open.
* `executor.go:115` says that `Stop` waits for all workers. It waits for the
  checks under way; a worker that has a job, or waits for the semaphore, starts
  another, which may find `resultChan` closed and panic. `doWork`, for which
  nothing waits, may find `jobChan` closed. `ShutdownDrains` therefore allows
  these two panics, and no others.
* When the signal comes the context is done for everybody, so a monitor that is
  in the process then is handled, but neither its state nor its next check can be
  stored: shutting down drains the channels and still loses these monitors, as
  `NothingLost` of `Scheduler` says by excepting it.
* Several alert workers may deliver RECOVERED before DOWN.
* A request that enables a monitor does not ask whether its last check is still
  under way. Two checks of the monitor may then run at once, and both put it back.
  `SingleCustody` of `Pipeline` excepts these monitors (`overlapped`), and no
  others.

Outcomes that the properties exclude by name, because the code allows them and
no document promises otherwise: overlapping requests that enable and disable one
monitor can leave it enabled without a schedule (`contended` of
`MonitorService`); two first registrations can both become owner (`raced`); two
admins can set each other inactive (`contended` of `Accounts`).

Of the client:

* `GET` of a plugin sends the masked key, the form loads it, and Save sends it
  back; the server checks only that it is not empty. A plugin that is saved
  again without typing the key anew has its mask for a key
  (`plugin/handler.go:75`, `plugins/[type]/content.tsx:156`). No run is about it:
  every such Save does it.
* `plugins/registry.ts` and the README of the repository offer Zenduty; the
  server refuses every request about it (`Supported`).
* A failed fetch of the team page is said to leave the table empty
  (`team/content.tsx:144`); it leaves the rows of the team before.
* After a switch of the team, Refresh or Retry, the list of monitors shows page 1
  while the stack of cursors stays, so Prev leads elsewhere (`detached`).
* Two presses of Next before the first answer push one cursor twice, and Prev
  then shows the same page again.
* Save is enabled while the form loads another team's plugin, and writes what is
  shown to the team that is current.
* Signing in twice, from a slow page: the second answer replaces the token of
  whoever has signed in since, and if the guard gave up in between, the screen
  stays blank (`twice`).
* Without a team the list of incidents shows a spinner for ever
  (`incidents/content.tsx:126`).

## 6. Proofs

Proved for any finite or infinite set of monitors and workers, and people,
teams, invitations and requests, and any values of the other constants that
satisfy the `ASSUME` of their modules:

| Theorem | Says |
|---|---|
| `ResultProcessorProofs!TypeCorrect` | `Spec => []TypeOK` |
| `ResultProcessorProofs!CustodyHolds` | `Spec => []SingleCustody` |
| `ResultProcessorProofs!LossesAreFaults` | `Spec => []EachLossHasItsFault` |
| `IncidentProofs!AlertsAreSentOnce` | `Spec => []NoDuplicateAlerts` |
| `IncidentProofs!IncidentsAreTracked` | `Spec => []IncidentTracked` |
| `IncidentProofs!PromisedUntilAFault` | up to the first fault each step is one of `OutageNotifications`, or a stutter |
| `IncidentProofs!AlertsComeInOrder` | without faults `Spec` implies the safety part of `OutageNotifications` |
| `SchedulerProofs!TypeCorrect` | `Spec => []TypeOK` |
| `SchedulerProofs!CustodyHolds` | `Spec => []SingleCustody` |
| `SchedulerProofs!NothingLostHolds` | `Spec => []NothingLost` |
| `SchedulerProofs!PunctualHolds` | `Roomy => (OnTimeSpec => [](crashes = 0 /\ shutdowns = 0 => Punctual))` |
| `MonitorServiceProofs!TypeCorrect` | `Spec => []TypeOK` |
| `MonitorServiceProofs!QuotaIsKeptHolds` | `Spec => []QuotaIsKept` |
| `MonitorServiceProofs!EnabledIsHeldHolds` | `Spec => []EnabledIsHeld` |
| `AccountsProofs!TypeCorrect` | `Spec => []TypeOK` |
| `AccountsProofs!AcceptedIsMemberHolds` | `Spec => []AcceptedIsMember` |
| `AccountsProofs!MembersAreInvitedHolds` | `Spec => []MembersAreInvited` |
| `AccountsProofs!OneFounderHolds` | `Spec => []OneFounder` |
| `AccountsProofs!SomebodyManagesHolds` | `Spec => []SomebodyManages` |
| `PipelineProofs!ShutdownDrainsHolds` | `Spec => []ShutdownDrains` |
| `PipelineProofs!TypeCorrect` | `Spec => []TypeOK` |
| `PipelineProofs!CustodyHolds` | `Spec => []SingleCustody`: a monitor is in one place of the process, once |
| `PagesProofs!HistoryBottomsOutHolds` | `Spec => []HistoryBottomsOut` |
| `PagesProofs!ShownIsSignedInHolds` | `Spec => []ShownIsSignedIn` |
| `ClientProofs!SavedIsCurrentHolds` | `Spec => []SavedIsCurrent` |
| `ClientProofs!IncidentsAreOfTheTeamHolds` | `Spec => []IncidentsAreOfTheTeam` |
| `ClientProofs!PageIsOfTheTeamHolds` | `Spec => []PageIsOfTheTeam` |
| `ClientProofs!BadgesFollowServerHolds` | `Spec => []BadgesFollowServer` |
| `ClientProofs!FormIsOfTheTeamHolds` | `Spec => []FormIsOfTheTeam` |
| `ClientProofs!TableIsCurrentHolds` | `Spec => []TableIsCurrent` |
| `ClientProofs!SpinnersHaveTheirCallsHolds` | `Spec => []SpinnersHaveTheirCalls` |

*Result processor.* `TypeOK` is not inductive: a command writes to the stores of
`job[w].monitor`, which is a monitor only if the worker holds a result.
`BusyHolds` adds that a worker holds one exactly when it is not idle. Custody is
inductive with it: a step moves at most one monitor from one place to another
(lemmas `Moving`, `Putting`, `Taking`, `Grasping`, `Releasing`), and a monitor
that leaves a place was nowhere else. `EachLossHasItsFault` then counts: a step
loses at most one monitor more than before, and only where it also counts a fault.
A crash may lose any number of monitors, so after one it says nothing. All
properties of the module are about the pipeline with no request of the API in
between.

*Incidents and alerts.* `NoDuplicateAlerts` survives crashes because an alert is
sent after the row it is about changed: a row opens before its DOWN is due, and
is closed before its RECOVERED is. `AlertsFollowRows` says so of every alert in
the log, `DownIsDue` and `RecoveryIsDue` of the handlers that are about to send
one, and `SendersApart` that no two of them are about one incident.
`IncidentTracked` relates rows, hash, alerts and the step its one handler has come
to (`RowsAgree`, `HashAgrees`, `AlertsAgree`, `HandlerAgrees`); every step of a
handler moves a monitor from one of these states to the next, and custody keeps a
second handler away. That invariant fixes the phase of every monitor, so the
refinement follows from it: each step up to the first fault moves one phase by one
place, or none.

*Scheduler.* `NothingLost` needs two more facts: `PopDue` overwrites the batch,
so the batch must be empty whenever the goroutine is not dispatching
(`BatchHeld`), and commands fail without a fault being counted when the context
is done, so a done context must have been a shutdown (`CancelledByShutdown`).
The steps are then set equations over the five places.

`Punctual` needs time to be accounted for. `OnTime` says how late any monitor can
be at each point of `doWork`: at most what has passed since the tick that started
it, and a tick more for each pop that failed (`Wasted`). The argument holds for
any number of monitors that fit into one batch and into the job channel, when the
work of one tick ends before the next (`Roomy`); these are the conditions the run
has as its constants, with `MaxWork` the bound on how long a `doWork` may take.
Without them a monitor waits for its turn, however long the others take.
A crash or a shutdown stops the clock that the promise is about.

*Monitor service.* The types need to know which operations come to a statement
(`PathHolds`) and that the id of a row to be inserted is nobody else's (`Fresh`).
The quota is an account: `Places` adds up the rows of a user, the requests about
to insert one and those that have just deleted one. It never exceeds the count
and equals it while nothing failed (`Counted`). A step moves one request and at
most one row, so lemma `PlacesMove` compares what these two take before and
after, and each statement is then a sum of ones. `EnabledIsHeld` says nothing
while a request is under way, so the invariant adds that in the meantime a request
that will schedule the monitor, or delete its row, makes up for it
(`HeldOrSettled`), that disabling wrote the row first (`DisabledFirst`) and that
an uncontended monitor is changed by one request (`OneChanges`). The lock the
code does not have shows here: without `contended` the second of these is false.

*Accounts.* What a request relies on was read some statements before, so the
invariant says of every request, by its next statement, what is still true of it
(`Holds`): it keeps what the invitation row said, the user it found or created is
still there, and before the last statement the membership is, too. An invitation
that is about to be inserted belongs to one request only, so no row is ever
written over. Lemma `OthersHold` shows once that a step of one request leaves
this true of the others, because users and members only become more.

*Membership.* Only `AddOwner` makes a member nobody invited, so the invariant
(`MInv`) is about the request that creates a team: there is one per team
(`OwnerToCome`, the fresh id of `StartCreateTeam`), nobody is an uninvited member
until it has added its owner, and then it is over. All other requests keep the
uninvited members few (`Kept`): an invitation is inserted into a row that was
empty, none is ever removed, and no statement changes the role of a member.

For `OneFounder`: as long as no two registrations overlapped there is one at most
(`OneRegisters`), and while it is about to create an owner there is none yet
(`OneFounds`), because it has seen no user and every founder is one
(`FoundersAreUsers`). For `SomebodyManages`: whoever is about to set a member
active or inactive still manages the team (`Authorized`), which they could only
have lost to a second such request, and `OneSets` has there be none; the server
refuses to let them set themselves, so they remain. A team gets its first member
from the request that creates it, as an owner, because an invitation is sent by
a member (`InvitedByMembers`).

*Pipeline.* The invariant follows the closing of the channels downwards. `main`
closes them in its order (`MainOrder`); the router has closed its channels only
when `resultChan` is closed and empty and it holds nothing (`RouterEnded`), and a
worker has ended only on a closed and empty channel (`HandlersEnded`,
`AlertsEnded`). A step of a worker that has not ended shows that `main` still
waits, so no channel is closed before those who send on it have ended, which
also rules out their panics. Closed and empty says something about a channel only
if it has a worker, hence the assumption that every pool has one
(`config/model.go` demands five).

`TypeOK` adds to that (`TInv`) that a worker at something has a monitor, or
plugins, in hand. `SingleCustody` says where a monitor is (`At`), that it is in
one place (`OnePlace`), and there once (`Once`: no channel holds it twice, no two
workers hold it), unless a request enabled it while it was held (`overlapped`). It
is inductive together with `TInv`; each action of the pipeline moves monitors from
one place to one other, and channels are treated by what `Append` and `Tail` do
to the members of a sequence (`ElementsAppended`, `NamedAppended` and the like). A
request puts a monitor that nothing holds into one place, the schedule, or makes
it an exception, and the exceptions only grow. So the pipeline alone never checks
a monitor twice at once, whoever is enabled when, and the API's second `ZADD` is
the only thing that does.

*Pages.* `HistoryBottomsOut` is inductive together with the shape of the list's
record and numbers for its cursors (`ListInv`). Each control of the list is a
lemma; `Next` pushes the present cursor, which is the first page exactly when the
history is empty, `Prev` takes it off, and all filters empty it. Most of the proof
shows that effects, answers and the other pages leave cursor and history alone,
or mount the list anew.

*Session.* `ShownIsSignedIn` is about two answers that may cross: the guard's
question for the profile and a form's for a token. The invariant (`Signed`) says
that a guard asks at most once, on a page that is not yet shown, with the token
then present unless the document is about to be loaded anew (`GuardInv`); that
whoever waits for the answer to a sign-in is on the page for it, without a cookie,
and on the way to no page that asks (`LoginInv`); and that every token is one that
was given out (`TokenInv`). A second sign-in breaks these facts, and only it does, which is why the property
excludes it.

*Client.* What a page shows depends on which call of its kind is the newest, not on
where it stands among the calls. So the proofs never speak of positions: of the
calls of some kinds a step keeps all and their order (`Keeps`), adds a newer one
(`Asks`) or removes one (`Loses`). Lemmas show this once for each way the code
changes the calls (`Sending`, `Removing`, `Dropping`, `Marking`, `Replying`), and
then of each group of actions which kinds it touches (`IncidentMoves`,
`PluginMoves`, `MonitorMoves`, `TeamPageMoves`, `EffectMoves`), so that the
invariant of one page need only be shown for the actions of that page, for the
effect on the team (`Effects`), and for calls of its kinds that keep (`Steps`).

`TeamsInv` says where teams come from: calls are about teams, there are none but
those about teams before the user has one, and every answer about teams has one.
`SavedInv` adds that a saved team other than the current one has the answer to a
creation still to come. `IncidentsInv` says of a list that waits that its newest
call asks for the current team and cursor, and of an incident of another team that
the call that will be refused is under way. A team page (`TeamPageInv`), the store
of plugins (`StoreInv`) and a form (`FormInv`) are in one of three states:
"pending", and the newest call reads what the server has now; "shown", and they
show that, but for the one change under way, whose answer will be what they lack;
or "stale", of which nothing is said. That a change never overlaps a read or
another change is not a fact about the code (the buttons do not prevent it); it is
what makes the rest go "stale".

The monitors (`MonsInv`) have the same three states, and more that happens in
them: a change is served in one step and shown in another, so of a change under
way the invariant says what its answer will make of the rows (`RowsAfter`), which
is what the server has from the moment it serves it (`ToggleIsServed`,
`DeleteIsServed`, `CreateIsServed`). The cursor of a page is compared with the top
of the stack, except after page 1 was fetched behind the stack's back. While the
page that creates a monitor is open the team is not compared: the list fetches
again when that page is left. The invariant speaks of any calls, store and page,
so that the lemmas about what a call sent, served or answered does to it
(`MonsKept`, `MonsAskedAgain`, `MonsChangeIsSent`, `MonsFetched`, `MonsChanged`)
serve every control and every answer.

`SpinnersHaveTheirCalls` is the part of these invariants that holds in all three
states, with one more fact about the dialog of the switcher (`CreatingInv`). That
of the form is not obvious: after a monitor is created the form still submits
until the list was fetched again, so it waits for a "create" nobody has left or
for a fetch that carries its channels (`Submits`).

Three things these proofs found about the model: two cases of `EffectSends` held
at once without a team; `SelectSeq` could not be reasoned about, so the calls that
remain are counted (`Kept`, `Without`), and the plugins an alert goes to are
written as the two conditions of `processAlert` (`Ask`, `AskedOf`); and the answers of the server must differ
from `NoReply`, which the assumptions `TeamIsAnswered`, `ChangesAreAnswered`
and `RowChangesAreAnswered` now say.

Only model-checked: the liveness part of `AlertsInOrder` (the refinement of
`OutageNotifications`) and the other liveness properties (`ShutdownEnds`,
`ChangeTakesEffect`, `EveryMonitorIsChecked`, `RegistrationCloses`,
`AcceptanceCompletes`, `DisabledIsLeftAlone`, `CacheCatchesUp`,
`RedirectsSettle`): liveness under fairness is out of reach of the prover. Every
invariant a run checks is proved.

## 7. Plan

1. Done: `ResultProcessor` with `OutageNotifications`, `Scheduler`,
   `MonitorService`, `Accounts`, the client (`Pages` and its parts), and
   `Pipeline` with `AlertDelivery`: blocking, shutdown and cached plugins.
2. `Pagination`: the cursor of the server's lists against rows that change.
3. That the checks of `Pipeline` implement the `Check` of `ResultProcessor`;
   custody of monitors is proved for each.

## 8. Not modelled

The text of messages and mails, encryption, the installer, and of the middleware
everything but the membership it reads. Of the client: the profile page (two
forms of one call each; the store of users keeps the old name after a change,
which only the greeting shows), rows' formatting and colours, the validation of
forms beyond what enables their buttons, the components of `components/ui`,
`new-monitor-dialog.tsx`, which no page renders, and `team-loader.tsx`, which
does nothing.

Known hazards that no property covers yet, because their component is still to
be modelled: `DeleteMonitor` removes the schedule before the row, so when the
deletion fails the monitor stays enabled and unchecked
(`modules/monitor/service.go:168`; `EnabledIsHeld` therefore speaks of runs
without failures); a team whose creator could not be added stays behind without a
member (`modules/team/service.go:35`); several alert workers may deliver in
another order than alerts were queued (`modules/alert/service.go:80`); and what
step 2 of the plan is about.
