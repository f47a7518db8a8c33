---------------------------- MODULE MonitorPages ----------------------------
(***************************************************************************)
(* The monitors of a team as the browser shows them: their store           *)
(* (web/src/store/monitor-store.ts), the list (monitors/content.tsx and    *)
(* components/monitors/monitors-table.tsx) and the page that creates one   *)
(* (monitors/new/content.tsx).                                             *)
(*                                                                         *)
(* Monitors are numbered as they are created, and listed newest first; the *)
(* cursor of a page is the last monitor of the page before, 0 being the    *)
(* first page.  Of a monitor the list shows whether it is enabled; of the  *)
(* form, only the chosen channels are kept.  The store outlives the pages. *)
(***************************************************************************)
EXTENDS PluginPages

CONSTANTS
  MaxMonitors,  \* bound: monitors ever created
  PageSize,     \* limit
  MaxStack      \* bound: cursors in the stack

ASSUME MonitorAssumption ==
  /\ {MaxMonitors, MaxStack} \subseteq Nat
  /\ PageSize \in Nat \ {0}

(* The server's answer to a change is an answer. *)
ASSUME RowChangesAreAnswered ==
  NoReply \notin [enabled : BOOLEAN] \cup [deleted : Nat]

VARIABLES
  dbMonitors,   \* server: the monitors, in the order they were created
  mons,         \* monitor store
  table,        \* local state of the table: its two dialogs
  draft,        \* local state of the page that creates a monitor
  defaults      \* localStorage: sofon:monitor:defaults

monitorVars == <<dbMonitors, mons, table, draft, defaults>>

Monitors == 1 .. Len(dbMonitors)
Listed(t, c) == {m \in Monitors : dbMonitors[m].team = t /\ (c = 0 \/ m < c)}
OnPage(t, c) ==
  {m \in Listed(t, c) :
     Cardinality({n \in Listed(t, c) : n > m}) < PageSize}
Row(m) == [id |-> m, enabled |-> dbMonitors[m].enabled]
NextCursor(t, c) ==
  IF OnPage(t, c) = Listed(t, c) THEN 0
  ELSE CHOOSE m \in OnPage(t, c) : \A n \in OnPage(t, c) : m <= n

(* History: "page" is the question the rows answer, "latest" the fate of   *)
(* the last one ("stale", too, once a change failed, or overlapped a fetch *)
(* or another change), and "detached" that page 1 was fetched while the    *)
(* stack stayed as it was.                                                 *)
EmptyMons ==
  [rows |-> {}, next |-> 0, stack |-> <<>>, loading |-> FALSE,
   error |-> FALSE, updating |-> 0, page |-> [team |-> None, cursor |-> 0],
   latest |-> "pending", detached |-> FALSE]

NoRow == [id |-> 0, enabled |-> FALSE]
NoTable == [toggling |-> FALSE, deleting |-> FALSE, selected |-> NoRow]
NoDraft == [open |-> FALSE, channels |-> {}, submitting |-> FALSE,
            error |-> FALSE]

MonitorsInit(owners) ==
  /\ dbMonitors = [m \in DOMAIN owners |->
       [team |-> owners[m], enabled |-> TRUE, channels |-> {}]]
  /\ mons = EmptyMons
  /\ table = NoTable /\ draft = NoDraft
  /\ defaults = {}

View(m, t) == IF t = None THEN "no team"
              ELSE IF m.loading /\ m.rows = {} THEN "loading"
              ELSE IF m.error THEN "error" ELSE "table"

(* When the table leaves the screen its dialogs are lost, and the answers  *)
(* it waits for find the store only.                                       *)
Abandoned(inFlight) ==
  [i \in DOMAIN inFlight |->
    IF inFlight[i].op \in {"toggle", "deleteMonitor"}
    THEN [inFlight[i] EXCEPT !.mine = FALSE] ELSE inFlight[i]]
Render(m, tbl, inFlight) ==
  /\ mons' = m
  /\ IF View(m, currentTeam') = "table"
     THEN table' = tbl /\ calls' = inFlight
     ELSE table' = NoTable /\ calls' = Abandoned(inFlight)

MonitorChanges == {i \in DOMAIN calls :
                     calls[i].op \in {"create", "toggle", "deleteMonitor"}}

(* fetchMonitors(cursor); "then" holds the channels createMonitor's caller *)
(* saves when the fetch is over.                                           *)
Asked(m) == [m EXCEPT !.loading = TRUE, !.error = FALSE,
                      !.latest = Unless(MonitorChanges # {}, "pending")]
MonitorsCall(t, c, then) ==
  <<[op |-> "monitors", team |-> t, cursor |-> c, then |-> then,
     reply |-> NoReply]>>

(* Page 1 is fetched by Refresh, by Retry and by the effect on the team:   *)
(* none of them empties the stack.                                         *)
AskedFirst(m) == [Asked(m) EXCEPT !.detached = m.stack # <<>>]
FirstCall(t) == MonitorsCall(t, 0, <<>>)

(* The effect on the team, while the list is on screen. *)
StaysOn(t) == View(AskedFirst(mons), t) = "table"
MonitorsSend(inFlight, t) ==
  (IF StaysOn(t) THEN inFlight ELSE Abandoned(inFlight)) \o FirstCall(t)
MonitorsRender(t) ==
  /\ mons' = AskedFirst(mons)
  /\ table' = IF StaysOn(t) THEN table ELSE NoTable
  /\ UNCHANGED <<dbMonitors, draft, defaults>>

OnMonitors == ~draft.open
DialogOpen == table.toggling \/ table.deleting
Clickable == Room /\ OnMonitors /\ ~DialogOpen
TableClickable == Clickable /\ View(mons, currentTeam) = "table"

RefreshMonitors ==
  /\ Clickable /\ currentTeam # None
  /\ ~mons.loading \/ View(mons, currentTeam) = "error"
  /\ UNCHANGED <<teamVars, pluginVars, dbMonitors, draft, defaults>>
  /\ Render(AskedFirst(mons), table, calls \o FirstCall(currentTeam))

Top(stack) == IF stack = <<>> THEN 0 ELSE Last(stack)

GoNext ==
  /\ TableClickable /\ mons.next # 0
  /\ Len(mons.stack) < MaxStack
  /\ UNCHANGED <<teamVars, pluginVars, dbMonitors, draft, defaults>>
  /\ Render([Asked(mons) EXCEPT !.stack = Append(@, mons.next),
                                !.detached = FALSE],
            table, calls \o MonitorsCall(currentTeam, mons.next, <<>>))

(* Mutant: the cursor is taken from the stack before it is popped. *)
GoPrevUnpopped ==
  /\ TableClickable /\ mons.stack # <<>>
  /\ UNCHANGED <<teamVars, pluginVars, dbMonitors, draft, defaults>>
  /\ Render([Asked(mons) EXCEPT !.stack = Front(@), !.detached = FALSE],
            table, calls \o MonitorsCall(currentTeam, Top(mons.stack), <<>>))

GoPrev ==
  LET rest == Front(mons.stack) IN
  /\ TableClickable /\ mons.stack # <<>>
  /\ UNCHANGED <<teamVars, pluginVars, dbMonitors, draft, defaults>>
  /\ Render([Asked(mons) EXCEPT !.stack = rest, !.detached = FALSE],
            table, calls \o MonitorsCall(currentTeam, Top(rest), <<>>))

ServeMonitors(i) ==
  LET t == calls[i].team  c == calls[i].cursor IN
  /\ i \in Pending("monitors") /\ ~Served(i)
  /\ Reply(i, [rows |-> {Row(m) : m \in OnPage(t, c)},
               next |-> NextCursor(t, c)])
  /\ UNCHANGED <<teamVars, pluginVars, monitorVars>>

(* The fetch is over.  If createMonitor awaited it, the channels become    *)
(* the defaults and the user is taken to the list, which fetches again     *)
(* unless they are there already.                                          *)
AfterFetch(i, m) ==
  IF calls[i].then = <<>>
  THEN /\ UNCHANGED <<draft, defaults>>
       /\ Render(m, table, Others(i))
  ELSE /\ defaults' = calls[i].then[1]
       /\ draft' = NoDraft
       /\ IF draft.open /\ currentTeam # None
          THEN Render(AskedFirst(m), NoTable, Others(i) \o FirstCall(currentTeam))
          ELSE Render(m, table, Others(i))

FetchMonitorsSucceeds(i) ==
  LET c == calls[i] IN
  /\ i \in Pending("monitors") /\ Served(i)
  /\ UNCHANGED <<teamVars, pluginVars, dbMonitors>>
  /\ AfterFetch(i, [mons EXCEPT !.rows = c.reply.rows, !.next = c.reply.next,
       !.loading = FALSE, !.page = [team |-> c.team, cursor |-> c.cursor],
       !.latest = Fate(@, i)])

FetchMonitorsFails(i) ==
  /\ i \in Pending("monitors")
  /\ UNCHANGED <<teamVars, pluginVars, dbMonitors>>
  /\ AfterFetch(i, [mons EXCEPT !.loading = FALSE, !.error = TRUE,
                                !.latest = FateOfFailed(@, i)])

-----------------------------------------------------------------------------
(* The table: a menu on each row, a dialog that asks for confirmation.     *)
(* What is confirmed is the row as it was when the menu was clicked.       *)
OpenToggle(r) ==
  /\ TableClickable /\ r \in mons.rows /\ mons.updating # r.id
  /\ table' = [table EXCEPT !.toggling = TRUE, !.selected = r]
  /\ UNCHANGED <<calls, teamVars, pluginVars, dbMonitors, mons, draft, defaults>>

OpenDelete(r) ==
  /\ TableClickable /\ r \in mons.rows /\ mons.updating # r.id
  /\ table' = [table EXCEPT !.deleting = TRUE, !.selected = r]
  /\ UNCHANGED <<calls, teamVars, pluginVars, dbMonitors, mons, draft, defaults>>

Cancel ==
  /\ DialogOpen
  /\ table' = NoTable     \* selectedMonitor stays, and is never read
  /\ UNCHANGED <<calls, teamVars, pluginVars, dbMonitors, mons, draft, defaults>>

AfterChange(latest) ==
  Unless(MonitorChanges # {} \/ Pending("monitors") # {}, latest)
Confirmable == Room /\ table.selected # NoRow
                 /\ mons.updating # table.selected.id
Updating == [mons EXCEPT !.updating = table.selected.id, !.error = FALSE,
               !.latest = AfterChange(@)]

ConfirmToggle ==
  /\ table.toggling /\ Confirmable
  /\ UNCHANGED <<teamVars, pluginVars, dbMonitors, draft, defaults>>
  /\ Render(Updating, table, Append(calls,
       [op |-> "toggle", team |-> currentTeam, id |-> table.selected.id,
        enable |-> ~table.selected.enabled, mine |-> TRUE, reply |-> NoReply]))

ConfirmDelete ==
  /\ table.deleting /\ Confirmable
  /\ UNCHANGED <<teamVars, pluginVars, dbMonitors, draft, defaults>>
  /\ Render(Updating, table, Append(calls,
       [op |-> "deleteMonitor", team |-> currentTeam, id |-> table.selected.id,
        mine |-> TRUE, reply |-> NoReply]))

(* The server answers 404 for a monitor that is not the team's. *)
Ours(i) == dbMonitors[calls[i].id].team = calls[i].team

ServeToggle(i) ==
  /\ i \in Pending("toggle") /\ ~Served(i) /\ Ours(i)
  /\ dbMonitors' = [dbMonitors EXCEPT ![calls[i].id].enabled = calls[i].enable]
  /\ Reply(i, [enabled |-> calls[i].enable])
  /\ UNCHANGED <<teamVars, pluginVars, mons, table, draft, defaults>>

ServeDeleteMonitor(i) ==
  /\ i \in Pending("deleteMonitor") /\ ~Served(i) /\ Ours(i)
  /\ dbMonitors' = [dbMonitors EXCEPT ![calls[i].id].team = None]
  /\ Reply(i, [deleted |-> calls[i].id])
  /\ UNCHANGED <<teamVars, pluginVars, mons, table, draft, defaults>>

(* The answer closes the dialog of its kind, and deselects, whatever has   *)
(* been selected since.                                                    *)
ToggleSucceeds(i) ==
  LET c == calls[i] IN
  /\ i \in Pending("toggle") /\ Served(i)
  /\ UNCHANGED <<teamVars, pluginVars, dbMonitors, draft, defaults>>
  /\ Render([mons EXCEPT !.updating = 0,
               !.rows = {IF r.id = c.id THEN [r EXCEPT !.enabled = c.enable]
                         ELSE r : r \in @}],
            IF c.mine
            THEN [table EXCEPT !.toggling = FALSE, !.selected = NoRow]
            ELSE table,
            Others(i))

DeleteMonitorSucceeds(i) ==
  LET c == calls[i] IN
  /\ i \in Pending("deleteMonitor") /\ Served(i)
  /\ UNCHANGED <<teamVars, pluginVars, dbMonitors, draft, defaults>>
  /\ Render([mons EXCEPT !.updating = 0, !.rows = {r \in @ : r.id # c.id}],
            IF c.mine
            THEN [table EXCEPT !.deleting = FALSE, !.selected = NoRow]
            ELSE table,
            Others(i))

(* Mutant: the row spins on. *)
ChangeFailsSpinning(i) ==
  /\ i \in Pending("toggle") \cup Pending("deleteMonitor")
  /\ UNCHANGED <<teamVars, pluginVars, dbMonitors, draft, defaults>>
  /\ Render([mons EXCEPT !.error = TRUE, !.latest = "stale"], table, Others(i))

(* A failed change takes the table off the screen. *)
ChangeFails(i) ==
  /\ i \in Pending("toggle") \cup Pending("deleteMonitor")
  /\ UNCHANGED <<teamVars, pluginVars, dbMonitors, draft, defaults>>
  /\ Render([mons EXCEPT !.updating = 0, !.error = TRUE, !.latest = "stale"],
            table, Others(i))

-----------------------------------------------------------------------------
(* The page that creates a monitor (bound: one is left to create).  The    *)
(* plugins are fetched when it is mounted, not again when the team changes.*)
OpenNew ==
  /\ Len(dbMonitors) < MaxMonitors
  /\ Clickable /\ currentTeam # None
  /\ draft' = [NoDraft EXCEPT !.open = TRUE, !.channels = defaults]
  /\ table' = NoTable
  /\ FetchPlugins(Abandoned(calls))
  /\ UNCHANGED <<teamVars, dbPlugins, form, dbMonitors, mons, defaults>>

(* "Back to monitors" works while the form is being submitted. *)
LeaveNew ==
  /\ Room /\ draft.open /\ currentTeam # None
  /\ draft' = NoDraft
  /\ UNCHANGED <<teamVars, pluginVars, dbMonitors, defaults>>
  /\ Render(AskedFirst(mons), NoTable, [i \in DOMAIN calls |->
       IF calls[i].op = "create" THEN [calls[i] EXCEPT !.mine = FALSE]
       ELSE calls[i]] \o FirstCall(currentTeam))

ToggleChannel(y) ==
  /\ draft.open /\ ~plugins.loading /\ y \in plugins.rows
  /\ draft' = [draft EXCEPT !.channels =
                 IF y \in @ THEN @ \ {y} ELSE @ \cup {y}]
  /\ UNCHANGED <<calls, teamVars, pluginVars, dbMonitors, mons, table, defaults>>

HandleSubmit ==
  /\ Room /\ draft.open /\ ~draft.submitting /\ currentTeam # None
  /\ draft' = [draft EXCEPT !.submitting = TRUE, !.error = FALSE]
  /\ mons' = [mons EXCEPT !.error = FALSE, !.latest = AfterChange(@)]
  /\ calls' = Append(calls, [op |-> "create", team |-> currentTeam,
                channels |-> draft.channels, mine |-> TRUE, reply |-> NoReply])
  /\ UNCHANGED <<teamVars, pluginVars, dbMonitors, table, defaults>>

ServeCreateMonitor(i) ==
  /\ i \in Pending("create") /\ ~Served(i)
  /\ Len(dbMonitors) < MaxMonitors
  /\ dbMonitors' = Append(dbMonitors, [team |-> calls[i].team,
                     enabled |-> TRUE, channels |-> calls[i].channels])
  /\ Reply(i, [id |-> Len(dbMonitors) + 1])
  /\ UNCHANGED <<teamVars, pluginVars, mons, table, draft, defaults>>

(* The stack is emptied and page 1 of whatever team is current is fetched. *)
CreateMonitorSucceeds(i) ==
  LET m == [mons EXCEPT !.stack = <<>>, !.detached = FALSE] IN
  /\ i \in Pending("create") /\ Served(i)
  /\ UNCHANGED <<teamVars, pluginVars, dbMonitors>>
  /\ IF currentTeam # None
     THEN /\ UNCHANGED <<draft, defaults>>
          /\ Render([Asked(m) EXCEPT !.latest =
                    Unless(MonitorChanges # {i}, "pending")], table,
               Others(i) \o MonitorsCall(currentTeam, 0, <<calls[i].channels>>))
     ELSE /\ draft' = NoDraft /\ defaults' = calls[i].channels
          /\ Render(m, NoTable, Others(i))

CreateMonitorFails(i) ==
  /\ i \in Pending("create")
  /\ draft' = IF calls[i].mine
              THEN [draft EXCEPT !.submitting = FALSE, !.error = TRUE]
              ELSE draft
  /\ UNCHANGED <<teamVars, pluginVars, dbMonitors, defaults>>
  /\ Render([mons EXCEPT !.error = TRUE, !.latest = "stale"], table, Others(i))

-----------------------------------------------------------------------------
(* Quiet, with the answer to the last question on screen, the page shown   *)
(* is the one the top of the stack names, and of the current team, so Prev *)
(* leads where it says, unless page 1 was fetched behind the stack's back; *)
(* and with nothing raced every row is a monitor of the team the page was  *)
(* fetched for, enabled or paused as the server has it.                    *)
StackNamesThePage ==
  (/\ Pending("monitors") = {} /\ currentTeam # None /\ OnMonitors
   /\ mons.latest = "shown" /\ ~mons.detached)
    => mons.page = [team |-> currentTeam, cursor |-> Top(mons.stack)]
RowsFollowServer ==
  (/\ MonitorChanges = {} /\ Pending("monitors") = {}
   /\ mons.latest = "shown")
    => \A r \in mons.rows :
         r = Row(r.id) /\ dbMonitors[r.id].team = mons.page.team
TableIsCurrent == StackNamesThePage /\ RowsFollowServer
=============================================================================
