------------------------------- MODULE Pages -------------------------------
(***************************************************************************)
(* The web client once somebody is signed in: the pages on screen together *)
(* with the team switcher.  When the current team changes, the page on     *)
(* screen fetches again (its React effect runs in the same render).        *)
(*                                                                         *)
(* A behaviour stays in one area of the client, the one the browser was    *)
(* opened in: between areas only the stores of teams and plugins are       *)
(* shared, and a page that is entered fetches what it shows.               *)
(***************************************************************************)
EXTENDS Incidents, MonitorPages, TeamPage, Session

CONSTANT Openings
    \* what the browser finds when it is opened: the area, the teams of the
    \* user, the team saved in the browser, the teams with a plugin, and
    \* whose each monitor is

Areas == {"incidents", "plugins", "monitors", "new", "team", "session"}

ASSUME OpeningsAssumption ==
  \A o \in Openings :
    /\ o.area \in Areas
    /\ o.teams \subseteq Teams /\ o.configured \subseteq Teams
    /\ o.owners \in Seq(Teams)

VARIABLES area, mounted

pageVars == <<incidentVars, pluginVars, monitorVars, teamPageVars>>
vars == <<clientVars, pageVars, sessionVars, area, mounted>>

Init ==
  \E o \in Openings :
    /\ area = o.area /\ mounted = (area = "session")
    /\ ClientInit(o.teams, o.saved) /\ IncidentsInit
    /\ PluginsInit(o.configured) /\ MonitorsInit(o.owners)
    /\ TeamPageInit(o.managed, o.invited)
    /\ SessionInit

(* The effect of the page on screen, run when the page is mounted and when *)
(* the current team has become t: the calls in flight after it, and the    *)
(* state of the page.                                                      *)
EffectSends(inFlight, t) ==
  IF t = None THEN inFlight ELSE
  CASE area = "incidents" /\ detail.of = None -> inFlight \o ListSends(t)
    [] area = "incidents" /\ detail.of # None -> inFlight \o DetailCall(t)
    [] area = "plugins" /\ form.type = None -> inFlight \o PluginsSend(t)
    [] area = "plugins" /\ form.type # None -> inFlight \o FormSends(t)
    [] area \in {"monitors", "new"} /\ OnMonitors -> MonitorsSend(inFlight, t)
    [] area = "team" -> inFlight \o FetchAllSends(t)
    [] OTHER -> inFlight

EffectRenders(t) ==
  IF t = None THEN UNCHANGED pageVars ELSE
  CASE area = "incidents" /\ detail.of = None ->
         ListRenders /\ UNCHANGED <<pluginVars, monitorVars, teamPageVars>>
    [] area = "incidents" /\ detail.of # None ->
         DetailRenders /\ UNCHANGED <<pluginVars, monitorVars, teamPageVars>>
    [] area = "plugins" /\ form.type = None ->
         PluginsRender /\ UNCHANGED <<incidentVars, monitorVars, teamPageVars>>
    [] area = "plugins" /\ form.type # None ->
         FormRenders /\ UNCHANGED <<incidentVars, monitorVars, teamPageVars>>
    [] area \in {"monitors", "new"} /\ OnMonitors ->
         MonitorsRender(t) /\ UNCHANGED <<incidentVars, pluginVars, teamPageVars>>
    [] area = "team" ->
         FetchAllRenders /\ UNCHANGED <<incidentVars, pluginVars, monitorVars>>
    [] OTHER -> UNCHANGED pageVars

Mount ==
  /\ ~mounted
  /\ calls' = EffectSends(calls, currentTeam)
  /\ EffectRenders(currentTeam)
  /\ UNCHANGED teamVars
  /\ mounted' = TRUE /\ UNCHANGED <<area, sessionVars>>

(* The effects depend on the team's id; the one of the list of monitors on *)
(* the object, which is a new one after every fetch of the teams.          *)
After(inFlight, t, fresh) ==
  IF t # currentTeam \/ (fresh /\ area \in {"monitors", "new"})
  THEN EffectSends(inFlight, t) ELSE inFlight
Rerender(t, fresh) ==
  IF t # currentTeam \/ (fresh /\ area \in {"monitors", "new"})
  THEN EffectRenders(t) ELSE UNCHANGED pageVars

PageDialogOpen == DialogOpen \/ (Shown /\ Modal)

SwitchTeam ==
  /\ ~PageDialogOpen
  /\ \E t \in teams :
       SetCurrentTeam(t, After(calls, t, FALSE)) /\ Rerender(t, FALSE)

(* The menu of the switcher opens for a user who has a team; one who has   *)
(* none is offered the dialog by the list of monitors.                     *)
CanOpenTeamDialog ==
  teams # {} \/ (area = "monitors" /\ currentTeam = None)

TeamClicks ==
  \/ SwitchTeam
  \/ /\ \/ \E open \in BOOLEAN :
             /\ open => ~PageDialogOpen /\ CanOpenTeamDialog
             /\ SetTeamDialog(open)
        \/ \E t \in Teams : HandleCreate(t)
     /\ UNCHANGED pageVars

TeamServed ==
  \E i \in DOMAIN calls :
    (ServeCreateTeam(i) \/ ServeTeams(i)) /\ UNCHANGED pageVars

TeamAnswers ==
  \E i \in DOMAIN calls :
    \/ LET t == TeamAfterCreate(calls[i].team) IN
       CreateTeamSucceeds(i, After(Others(i), t, FALSE)) /\ Rerender(t, FALSE)
    \/ LET t == TeamAfterFetch(i) IN
       FetchTeamsSucceeds(i, After(Others(i), t, TRUE)) /\ Rerender(t, TRUE)
    \/ (CreateTeamFails(i) \/ FetchTeamsFails(i)) /\ UNCHANGED pageVars

IncidentClicks ==
  /\ \/ Refresh \/ OnApply \/ OnClear \/ OnNext \/ OnPrev
     \/ \E f \in BOOLEAN : PickStatus(f) \/ Type(f)
     \/ OpenIncident \/ BackToIncidents
  /\ UNCHANGED <<pluginVars, monitorVars, teamPageVars>>

IncidentAnswers ==
  /\ \E i \in DOMAIN calls :
       ListArrives(i) \/ ListFails(i) \/ DetailArrives(i) \/ DetailFails(i)
  /\ UNCHANGED <<pluginVars, monitorVars, teamPageVars>>

PluginClicks ==
  /\ \/ \E y \in Types : OpenPlugin(y)
     \/ \E filled \in BOOLEAN : TypeKey(filled)
     \/ BackToPlugins \/ HandleSave \/ HandleDelete
  /\ UNCHANGED <<incidentVars, monitorVars, teamPageVars>>

PluginServed ==
  /\ \E i \in DOMAIN calls :
       ServePlugins(i) \/ ServePlugin(i) \/ ServeUpsert(i) \/ ServeDeletePlugin(i)
  /\ UNCHANGED <<incidentVars, monitorVars, teamPageVars>>

PluginAnswers ==
  /\ \E i \in DOMAIN calls :
       \/ FetchPluginsSucceeds(i) \/ FetchPluginsFails(i)
       \/ FetchPluginSucceeds(i) \/ FetchPluginFails(i)
       \/ UpsertSucceeds(i) \/ DeletePluginSucceeds(i) \/ PluginChangeFails(i)
  /\ UNCHANGED <<incidentVars, monitorVars, teamPageVars>>

ListClicks ==
  /\ RefreshMonitors \/ GoNext \/ GoPrev
  /\ UNCHANGED <<incidentVars, teamPageVars>>

RowClicks ==
  /\ \/ \E r \in mons.rows : OpenToggle(r) \/ OpenDelete(r)
     \/ Cancel \/ ConfirmToggle \/ ConfirmDelete
  /\ UNCHANGED <<incidentVars, teamPageVars>>

NewClicks ==
  /\ \/ OpenNew \/ LeaveNew \/ HandleSubmit
     \/ \E y \in Types : ToggleChannel(y)
  /\ UNCHANGED <<incidentVars, teamPageVars>>

MonitorServed ==
  /\ \E i \in DOMAIN calls : \/ ServeMonitors(i) \/ ServeToggle(i)
                             \/ ServeDeleteMonitor(i) \/ ServeCreateMonitor(i)
  /\ UNCHANGED <<incidentVars, teamPageVars>>

MonitorAnswers ==
  /\ \E i \in DOMAIN calls :
       \/ FetchMonitorsSucceeds(i) \/ FetchMonitorsFails(i)
       \/ ToggleSucceeds(i) \/ DeleteMonitorSucceeds(i) \/ ChangeFails(i)
       \/ CreateMonitorSucceeds(i) \/ CreateMonitorFails(i)
  /\ UNCHANGED <<incidentVars, teamPageVars>>

TeamPageClicks ==
  /\ \/ SaveName \/ Activate \/ Deactivate \/ OpenInvite \/ CloseInvite
     \/ OnInvite
     \/ \E open \in BOOLEAN : SetConfirm(open)
     \/ \E v \in Invites : RevokeInvitation(v)
  /\ UNCHANGED <<incidentVars, pluginVars, monitorVars>>

TeamPageServed ==
  /\ \E i \in DOMAIN calls :
       \/ ServeTeam(i) \/ ServeRename(i) \/ ServeSetActive(i)
       \/ ServeInvite(i) \/ ServeRevoke(i)
  /\ UNCHANGED <<incidentVars, pluginVars, monitorVars>>

TeamPageAnswers ==
  /\ \E i \in DOMAIN calls :
       \/ FetchAllSucceeds(i) \/ FetchAllFails(i) \/ RenameSucceeds(i)
       \/ SetActiveSucceeds(i) \/ InviteSucceeds(i) \/ RevokeSucceeds(i)
       \/ TeamChangeFails(i)
  /\ UNCHANGED <<incidentVars, pluginVars, monitorVars>>

(* While the dialog of the team switcher is open it blocks the page. *)
Clicks ==
  \/ area = "incidents" /\ ~teamDialog /\ IncidentClicks
  \/ area = "plugins" /\ ~teamDialog /\ PluginClicks
  \/ area = "monitors" /\ ~teamDialog /\ (ListClicks \/ RowClicks)
  \/ area = "new" /\ ~teamDialog /\ (ListClicks \/ NewClicks)
  \/ area = "team" /\ ~teamDialog /\ TeamPageClicks
  \/ TeamClicks

Answers ==
  TeamAnswers \/ IncidentAnswers \/ PluginAnswers \/ MonitorAnswers
    \/ TeamPageAnswers

PageStep ==
  /\ area # "session"
  /\ \/ Clicks \/ Answers
     \/ TeamServed \/ PluginServed \/ MonitorServed \/ TeamPageServed
  /\ UNCHANGED sessionVars

(* Bound: once somebody has signed in twice, which the properties of the   *)
(* session exclude, the behaviour is followed no further.                  *)
SessionOn == area = "session" /\ ~twice

SessionStep ==
  /\ SessionOn
  /\ Route \/ SessionClicks \/ SessionServed \/ SessionAnswers
  /\ UNCHANGED pageVars

Next ==
  \/ Mount
  \/ mounted /\ (PageStep \/ SessionStep) /\ UNCHANGED <<area, mounted>>

(* When nothing is in flight and the last fetch raced with nothing, the    *)
(* badges are those of the server, and of the current team while the list  *)
(* is on screen.                                                           *)
BadgesFollowServer ==
  (/\ Changing = {} /\ Pending("plugins") = {}
   /\ plugins.latest = "shown")
    => /\ plugins.rows = dbPlugins[plugins.team]
       /\ (area = "plugins" /\ form.type = None) => plugins.team = currentTeam

(* No spinner turns for nothing: whatever is loading, being changed or     *)
(* being created, once the user has a team, has its call on the way, which *)
(* ends in an answer, an error or the timeout.                             *)
Waiting(spins, ops) ==
  spins => \E i \in DOMAIN calls : calls[i].op \in ops
SpinnersHaveTheirCalls ==
  (mounted /\ currentTeam # None) =>
    /\ Waiting(area = "incidents" /\ detail.of = None /\ list.loading,
               {"incidents"})
    /\ Waiting(detail.of # None /\ detail.loading, {"incident"})
    /\ Waiting(plugins.loading, {"plugins"})
    /\ Waiting(form.type # None /\ form.loading, {"plugin"})
    /\ Waiting(mons.loading, {"monitors"})
    /\ Waiting(mons.updating # 0, {"toggle", "deleteMonitor"})
    /\ Waiting(draft.submitting, {"create", "monitors"})
    /\ Waiting(area = "team" /\ page.loading, {"team"})
    /\ Waiting(page.revoking # None, {"revoke"})
    /\ Waiting(creatingTeam, {"createTeam"})

(* The proxy, the pages and the guard never send the browser around        *)
(* forever, nor leave it blank: again and again the page that was asked    *)
(* for has arrived, and shows something.  Unless somebody signed in twice: *)
(* when the guard gives up just before the second answer arrives, the      *)
(* proxy turns its way to /signin into one to /monitors, where the same    *)
(* guard is still there, and asks no more.                                 *)
RedirectsSettle == []<>(area = "session" => Settled \/ twice)

(* A call is answered, or given up after 15 seconds; a navigation arrives. *)
(* Nothing is asked of the user.                                           *)
Fairness ==
  /\ WF_vars(SessionOn /\ Route /\ UNCHANGED <<pageVars, area, mounted>>)
  /\ WF_vars(SessionOn /\ SessionAnswers
               /\ UNCHANGED <<pageVars, area, mounted>>)

Spec == Init /\ [][Next]_vars /\ Fairness
=============================================================================
