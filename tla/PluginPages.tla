---------------------------- MODULE PluginPages ----------------------------
(***************************************************************************)
(* The plugins of a team: their store (web/src/store/plugin-store.ts), the *)
(* list (plugins/content.tsx), the page of one plugin                      *)
(* (plugins/[type]/content.tsx), and the handlers that serve them          *)
(* (internals/modules/plugin).                                             *)
(*                                                                         *)
(* Of a plugin the model keeps whether it is configured, and of the form   *)
(* whether the fields that Save asks for are filled; GET fills them all,   *)
(* the key with its mask.  The switch that enables a plugin is left out.   *)
(* The store outlives the pages; what a page asked for alone finds nobody  *)
(* once it is closed.                                                      *)
(***************************************************************************)
EXTENDS Client

CONSTANTS
  Types,        \* the plugins on offer (plugins/registry.ts)
  Supported     \* those the server accepts (plugin/handler.go)

ASSUME PluginAssumption == Supported \subseteq Types /\ None \notin Types

(* "Not served yet" is none of the answers. *)
ASSUME ChangesAreAnswered ==
  NoReply \notin [saved : Types] \cup [deleted : Types]

VARIABLES
  dbPlugins,    \* server: team -> types that are configured
  plugins,      \* plugin store; its rows are the types that are configured
  form          \* local state of the page of one plugin

pluginVars == <<dbPlugins, plugins, form>>

(* History: "team" is the one a list or a form was loaded for, "latest"    *)
(* the fate of the last load, which is "stale", too, once a change failed, *)
(* or overlapped a load or another change: what is shown is then anyone's  *)
(* guess until the next load.                                              *)
NoForm ==
  [type |-> None, filled |-> FALSE, configured |-> FALSE, loading |-> FALSE,
   team |-> None, latest |-> "pending"]

EmptyStore ==
  [rows |-> {}, loading |-> FALSE, team |-> None, latest |-> "pending"]

Changing == Pending("upsert") \cup Pending("deletePlugin")
saving == Pending("upsert") # {}
deleting == \E i \in Pending("deletePlugin") : calls[i].mine

PluginsInit(configured) ==
  /\ dbPlugins = [t \in Teams |-> IF t \in configured THEN Supported ELSE {}]
  /\ plugins = EmptyStore
  /\ form = NoForm

(* fetchPlugins *)
Loading == [plugins EXCEPT !.loading = TRUE,
                           !.latest = Unless(Changing # {}, "pending")]
ListPluginsCall(t) == <<Read("plugins", t)>>
FetchPlugins(inFlight) ==
  IF currentTeam = None
  THEN plugins' = plugins /\ calls' = inFlight
  ELSE plugins' = Loading /\ calls' = inFlight \o ListPluginsCall(currentTeam)

(* The effects on the team: the list's and the form's. *)
PluginsSend(t) == ListPluginsCall(t)
PluginsRender == plugins' = Loading /\ UNCHANGED <<dbPlugins, form>>
FormCall(t, y) == [op |-> "plugin", team |-> t, type |-> y, reply |-> NoReply]
FormSends(t) == <<FormCall(t, form.type)>>
FormLoads(f) == [f EXCEPT !.loading = TRUE,
                        !.latest = Unless(Changing # {}, "pending")]
FormRenders == form' = FormLoads(form) /\ UNCHANGED <<dbPlugins, plugins>>

(* The form is closed: its load finds nobody, its changes only the store.  *)
Orphaned(inFlight) ==
  LET kept == Without(inFlight, "plugin") IN
  [i \in DOMAIN kept |->
    IF kept[i].op \in {"upsert", "deletePlugin"}
    THEN [kept[i] EXCEPT !.mine = FALSE] ELSE kept[i]]

ServePlugins(i) ==
  /\ i \in Pending("plugins") /\ ~Served(i)
  /\ Reply(i, [rows |-> dbPlugins[calls[i].team]])
  /\ UNCHANGED <<teamVars, pluginVars>>

FetchPluginsSucceeds(i) ==
  /\ i \in Pending("plugins") /\ Served(i)
  /\ plugins' = [plugins EXCEPT !.rows = calls[i].reply.rows,
                   !.loading = FALSE, !.team = calls[i].team,
                   !.latest = Fate(@, i)]
  /\ calls' = Others(i)
  /\ UNCHANGED <<teamVars, dbPlugins, form>>

(* The list shows no error: it shows the rows it had. *)
FetchPluginsFails(i) ==
  /\ i \in Pending("plugins")
  /\ plugins' = [plugins EXCEPT !.loading = FALSE,
                                !.latest = FateOfFailed(@, i)]
  /\ calls' = Others(i)
  /\ UNCHANGED <<teamVars, dbPlugins, form>>

OpenPlugin(y) ==
  /\ Room /\ currentTeam # None
  /\ form.type = None /\ ~plugins.loading
  /\ form' = FormLoads([NoForm EXCEPT !.type = y])
  /\ calls' = Append(calls, FormCall(currentTeam, y))
  /\ UNCHANGED <<teamVars, dbPlugins, plugins>>

BackToPlugins ==
  /\ Room /\ form.type # None
  /\ form' = NoForm
  /\ FetchPlugins(Orphaned(calls))
  /\ UNCHANGED <<teamVars, dbPlugins>>

ServePlugin(i) ==
  /\ i \in Pending("plugin") /\ ~Served(i)
  /\ calls[i].type \in Supported
  /\ Reply(i, [found |-> calls[i].type \in dbPlugins[calls[i].team]])
  /\ UNCHANGED <<teamVars, pluginVars>>

FormShows(found) ==
  [form EXCEPT !.configured = found, !.filled = found, !.loading = FALSE]

FetchPluginSucceeds(i) ==
  /\ i \in Pending("plugin") /\ Served(i)
  /\ form' = [FormShows(calls[i].reply.found)
                EXCEPT !.team = calls[i].team, !.latest = Fate(@, i)]
  /\ calls' = Others(i)
  /\ UNCHANGED <<teamVars, dbPlugins, plugins>>

(* Whatever the error, fetchPlugin returns null: "not configured". *)
FetchPluginFails(i) ==
  /\ i \in Pending("plugin")
  /\ form' = [FormShows(FALSE) EXCEPT !.latest = "stale"]
  /\ calls' = Others(i)
  /\ UNCHANGED <<teamVars, dbPlugins, plugins>>

TypeKey(filled) ==
  /\ form.type # None /\ ~form.loading
  /\ form' = [form EXCEPT !.filled = filled]
  /\ UNCHANGED <<calls, teamVars, dbPlugins, plugins>>

(* A change that was sent: did it race with anything? *)
FormAfterChange ==
  [form EXCEPT !.latest = Unless(Changing # {} \/ Pending("plugin") # {}, @)]
StoreAfterChange ==
  [plugins EXCEPT !.latest = Unless(Changing # {} \/ Pending("plugins") # {}
                                      \/ plugins.team # currentTeam, @)]
Change(c) ==
  /\ form' = FormAfterChange /\ plugins' = StoreAfterChange
  /\ calls' = Append(calls, c)
  /\ UNCHANGED <<teamVars, dbPlugins>>

(* The button is in the header: it is there while the form loads. *)
HandleSave ==
  /\ Room /\ currentTeam # None
  /\ form.type # None /\ ~saving /\ form.filled
  /\ Change([op |-> "upsert", team |-> currentTeam, type |-> form.type,
             mine |-> TRUE, reply |-> NoReply])

ServeUpsert(i) ==
  LET c == calls[i] IN
  /\ i \in Pending("upsert") /\ ~Served(i)
  /\ c.type \in Supported
  /\ dbPlugins' = [dbPlugins EXCEPT ![c.team] = @ \cup {c.type}]
  /\ Reply(i, [saved |-> c.type])
  /\ UNCHANGED <<teamVars, plugins, form>>

(* Mutants: the store, or the form, does not learn of it. *)
UpsertSucceedsUnlisted(i) ==
  /\ i \in Pending("upsert") /\ Served(i)
  /\ form' = IF calls[i].mine THEN [form EXCEPT !.configured = TRUE] ELSE form
  /\ calls' = Others(i)
  /\ UNCHANGED <<teamVars, dbPlugins, plugins>>

UpsertSucceedsUnmarked(i) ==
  /\ i \in Pending("upsert") /\ Served(i)
  /\ plugins' = [plugins EXCEPT !.rows = @ \cup {calls[i].type}]
  /\ calls' = Others(i)
  /\ UNCHANGED <<teamVars, dbPlugins, form>>

UpsertSucceeds(i) ==
  /\ i \in Pending("upsert") /\ Served(i)
  /\ plugins' = [plugins EXCEPT !.rows = @ \cup {calls[i].type}]
  /\ form' = IF calls[i].mine THEN [form EXCEPT !.configured = TRUE] ELSE form
  /\ calls' = Others(i)
  /\ UNCHANGED <<teamVars, dbPlugins>>

PluginChangeFails(i) ==
  /\ i \in Changing
  /\ plugins' = [plugins EXCEPT !.latest = "stale"]
  /\ form' = [form EXCEPT !.latest = "stale"]
  /\ calls' = Others(i)
  /\ UNCHANGED <<teamVars, dbPlugins>>

HandleDelete ==
  /\ Room /\ currentTeam # None
  /\ form.type # None /\ ~form.loading /\ form.configured /\ ~deleting
  /\ Change([op |-> "deletePlugin", team |-> currentTeam, type |-> form.type,
             mine |-> TRUE, reply |-> NoReply])

ServeDeletePlugin(i) ==
  LET c == calls[i] IN
  /\ i \in Pending("deletePlugin") /\ ~Served(i)
  /\ c.type \in Supported
  /\ dbPlugins' = [dbPlugins EXCEPT ![c.team] = @ \ {c.type}]
  /\ Reply(i, [deleted |-> c.type])
  /\ UNCHANGED <<teamVars, plugins, form>>

(* Wherever the user is by now, the answer takes them to the list. *)
DeletePluginSucceeds(i) ==
  LET without == [plugins EXCEPT !.rows = @ \ {calls[i].type}] IN
  /\ i \in Pending("deletePlugin") /\ Served(i)
  /\ form' = NoForm
  /\ IF form.type = None
     THEN plugins' = without /\ calls' = Others(i)
     ELSE /\ plugins' = [without EXCEPT !.loading = TRUE,
                           !.latest = Unless(Changing # {i}, "pending")]
          /\ calls' = Orphaned(Others(i)) \o ListPluginsCall(currentTeam)
  /\ UNCHANGED <<teamVars, dbPlugins>>

-----------------------------------------------------------------------------
(* A form that is quiet and raced with nothing belongs to the current      *)
(* team, so that Save and Remove act on the plugin they show, and says     *)
(* whether the plugin is configured.                                       *)
FormIsOfTheTeam ==
  (/\ form.type # None /\ currentTeam # None
   /\ Changing = {} /\ Pending("plugin") = {}
   /\ form.latest = "shown")
    => /\ form.team = currentTeam
       /\ form.configured <=> form.type \in dbPlugins[currentTeam]
=============================================================================
