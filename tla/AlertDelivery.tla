--------------------------- MODULE AlertDelivery ---------------------------
(***************************************************************************)
(* The alert service of Sofon (internals/modules/alert): a pool of workers *)
(* that take events off alertChan and hand each to the plugins of the      *)
(* monitor, one after the other.  The configuration of a plugin is read    *)
(* from a Redis key that lives for five minutes, and from Postgres when    *)
(* the key is missing; changing or deleting a plugin does not touch the    *)
(* key.                                                                    *)
(*                                                                         *)
(* One team is modelled, and of a configuration only whether it is still   *)
(* the one stored in Postgres.  An event is known by its monitor.  Every   *)
(* command and call may fail, at any time and any number of times; whether *)
(* a mail was accepted, and the row of the table alerts that says so,      *)
(* change nothing that is read again and are left out.                     *)
(***************************************************************************)
EXTENDS Naturals, Sequences

CONSTANTS
  Monitors,
  AlertWorkers,    \* goroutines running handleAlerts
  AlertCap,        \* app.alert_channel_size
  Channels,        \* the notification channels of each monitor
  Configurable     \* the plugins isValidType accepts

PluginSet == {"resend", "zenduty"}

ASSUME AlertAssumption ==
  /\ AlertCap \in Nat \ {0}
  /\ Configurable \subseteq PluginSet
  /\ Channels \in [Monitors -> SUBSET PluginSet]

VARIABLES
  editable,     \* bound: the plugins the API changes in this behaviour
  dbPlugins,    \* Postgres: the plugins configured and enabled
  cached,       \* Redis: each plugin's key, the copy it holds and its age
  alertChan,    \* monitors with an alert to deliver
  closed,       \* the channels of the process that have been closed
  todo,         \* plugins each worker has yet to ask, the present one first
  astep,        \* each worker's next command
  acopy         \* the configuration it holds

storedVars == <<dbPlugins, cached>>
workerVars == <<todo, astep, acopy>>
deliveryVars == <<editable, storedVars, alertChan, workerVars>>

Copies == {"none", "current", "outdated"}
AlertSteps == {"idle", "getCached", "getConfig", "setCached", "send", "ended"}
NoKey == [copy |-> "none", age |-> "young"]

DeliveryTypes ==
  /\ editable \in SUBSET Configurable /\ dbPlugins \in SUBSET editable
  /\ cached \in [PluginSet -> [copy : Copies, age : {"young", "aged"}]]
  /\ alertChan \in Seq(Monitors)
  /\ todo \in [AlertWorkers -> Seq(PluginSet)]
  /\ astep \in [AlertWorkers -> AlertSteps]
  /\ acopy \in [AlertWorkers -> Copies]

(* The server starts with the rows and keys an earlier process left.       *)
DeliveryInit(e) ==
  /\ editable = e /\ dbPlugins \in SUBSET e
  /\ cached \in [PluginSet -> {NoKey} \cup
                   [copy : {"current", "outdated"}, age : {"young"}]]
  /\ \A p \in PluginSet : \/ cached[p] = NoKey
                          \/ p \in e /\ cached[p].copy = "outdated"
                          \/ p \in dbPlugins /\ cached[p].copy = "current"
  /\ alertChan = <<>>
  /\ todo = [a \in AlertWorkers |-> <<>>]
  /\ astep = [a \in AlertWorkers |-> "idle"]
  /\ acopy = [a \in AlertWorkers |-> "none"]

-----------------------------------------------------------------------------
(* The API and the clock of Redis.                                         *)

Outdated(copy) == IF copy = "current" THEN "outdated" ELSE copy

(* A row of plugins is written or deleted: every copy of it is outdated.   *)
ChangePlugin(p) ==
  /\ cached' = [cached EXCEPT ![p].copy = Outdated(@)]
  /\ acopy' = [a \in AlertWorkers |->
                 IF todo[a] # <<>> /\ Head(todo[a]) = p
                 THEN Outdated(acopy[a]) ELSE acopy[a]]
  /\ UNCHANGED <<editable, alertChan, todo, astep>>

UpsertPlugin(p, enabled) ==
  /\ p \in editable
  /\ dbPlugins' = IF enabled THEN dbPlugins \cup {p} ELSE dbPlugins \ {p}
  /\ ChangePlugin(p)

DeletePlugin(p) ==
  /\ p \in dbPlugins
  /\ dbPlugins' = dbPlugins \ {p}
  /\ ChangePlugin(p)

(* The five minutes of a key, in two halves.                               *)
KeyAges(p) ==
  /\ cached[p] # NoKey
  /\ cached' = [cached EXCEPT ![p] = IF @.age = "young"
                                     THEN [@ EXCEPT !.age = "aged"] ELSE NoKey]
  /\ UNCHANGED <<editable, dbPlugins, alertChan, workerVars>>

-----------------------------------------------------------------------------
(* A worker.                                                               *)

Enabled(m, p) == Channels[m] = {} \/ p \in Channels[m]
Ask(m, p) == IF Enabled(m, p) THEN <<p>> ELSE <<>>
AskedOf(m) == Ask(m, "resend") \o Ask(m, "zenduty")

(* The worker goes on with the plugins in ps.                              *)
TurnTo(a, ps) ==
  /\ todo' = [todo EXCEPT ![a] = ps]
  /\ astep' = [astep EXCEPT ![a] = IF ps = <<>> THEN "idle" ELSE "getCached"]
  /\ acopy' = [acopy EXCEPT ![a] = "none"]

ReceiveAlert(a) ==
  /\ astep[a] = "idle" /\ alertChan # <<>>
  /\ TurnTo(a, AskedOf(Head(alertChan)))
  /\ alertChan' = Tail(alertChan)
  /\ UNCHANGED <<editable, storedVars>>

(* The range over alertChan ends when it is closed and drained.            *)
EndAlerts(a) ==
  /\ astep[a] = "idle" /\ alertChan = <<>> /\ "alerts" \in closed
  /\ astep' = [astep EXCEPT ![a] = "ended"]
  /\ UNCHANGED <<editable, storedVars, alertChan, todo, acopy>>

(* Mutant: a key that is read lives for five minutes more.                 *)
GetCachedRenewing(a) ==
  LET p == Head(todo[a]) IN
  /\ astep[a] = "getCached"
  /\ \/ /\ cached[p] # NoKey
        /\ acopy' = [acopy EXCEPT ![a] = cached[p].copy]
        /\ astep' = [astep EXCEPT ![a] = "send"]
        /\ cached' = [cached EXCEPT ![p].age = "young"]
     \/ astep' = [astep EXCEPT ![a] = "getConfig"] /\ UNCHANGED <<acopy, cached>>
  /\ UNCHANGED <<editable, dbPlugins, alertChan, todo>>

(* The key, if Redis has it and answers.                                   *)
GetCached(a) ==
  LET p == Head(todo[a]) IN
  /\ astep[a] = "getCached"
  /\ \/ /\ cached[p] # NoKey
        /\ acopy' = [acopy EXCEPT ![a] = cached[p].copy]
        /\ astep' = [astep EXCEPT ![a] = "send"]
     \/ astep' = [astep EXCEPT ![a] = "getConfig"] /\ UNCHANGED acopy
  /\ UNCHANGED <<editable, storedVars, alertChan, todo>>

(* The row, if it is there, enabled, and Postgres answers; else the worker *)
(* is done with the plugin.                                                *)
GetConfig(a) ==
  /\ astep[a] = "getConfig"
  /\ \/ /\ Head(todo[a]) \in dbPlugins
        /\ acopy' = [acopy EXCEPT ![a] = "current"]
        /\ astep' = [astep EXCEPT ![a] = "setCached"]
        /\ UNCHANGED todo
     \/ TurnTo(a, Tail(todo[a]))
  /\ UNCHANGED <<editable, storedVars, alertChan>>

(* By now the row may be another one.                                      *)
SetCached(a) ==
  /\ astep[a] = "setCached"
  /\ \/ UNCHANGED cached
     \/ cached' = [cached EXCEPT ![Head(todo[a])] =
                     [copy |-> acopy[a], age |-> "young"]]
  /\ astep' = [astep EXCEPT ![a] = "send"]
  /\ UNCHANGED <<editable, dbPlugins, alertChan, todo, acopy>>

(* The mail or the event goes out, or not, and a row of alerts says so.    *)
Send(a) ==
  /\ astep[a] = "send"
  /\ TurnTo(a, Tail(todo[a]))
  /\ UNCHANGED <<editable, storedVars, alertChan>>

AlertStep(a) ==
  \/ ReceiveAlert(a) \/ EndAlerts(a) \/ GetCached(a) \/ GetConfig(a)
  \/ SetCached(a) \/ Send(a)
=============================================================================
