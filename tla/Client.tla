------------------------------- MODULE Client -------------------------------
(***************************************************************************)
(* What every page of the web client shares: the calls it has in flight    *)
(* (web/src/service/api.ts), the store of teams (web/src/store/            *)
(* team-store.ts) and the team switcher in the sidebar.                    *)
(*                                                                         *)
(* A call is sent, served and answered in three steps, so that the server  *)
(* may serve calls in any order and answers may arrive in any order.  A    *)
(* call fails when the server refuses it, or when its answer is lost,      *)
(* before or after the server served it; a call the client gave up on is   *)
(* not served later.                                                       *)
(*                                                                         *)
(* The page on screen sends calls of its own when the current team changes *)
(* (a React effect).  The actions that may change it take "after" as an    *)
(* argument: the calls in flight once that effect has run.                 *)
(***************************************************************************)
EXTENDS Naturals, Sequences, SequencesExt, FiniteSets

CONSTANTS
  Teams,        \* the teams that exist or may be created
  None,         \* no team
  NoReply,      \* the server has not served the call
  MaxCalls      \* bound: calls in flight when somebody clicks

ASSUME ClientAssumption ==
  /\ None \notin Teams /\ NoReply \notin Teams
  /\ MaxCalls \in Nat

VARIABLES
  calls,          \* the calls in flight, in the order they were sent
  dbTeams,        \* server: the teams of whoever is signed in
  teams,          \* team store
  currentTeam,
  savedTeam,      \* localStorage: sofon_current_team_id
  teamDialog,     \* the dialog that creates a team is open
  creatingTeam,   \* its button shows a spinner
  missedRefresh   \* history: teams were created and not read back

clientVars == <<calls, dbTeams, teams, currentTeam, savedTeam, teamDialog,
                creatingTeam, missedRefresh>>
teamVars == <<dbTeams, teams, currentTeam, savedTeam, teamDialog,
              creatingTeam, missedRefresh>>

Pending(op) == {i \in DOMAIN calls : calls[i].op = op}
Served(i) == calls[i].reply # NoReply
IsNewest(i) == \A j \in Pending(calls[i].op) : j <= i
Room == Len(calls) < MaxCalls

Others(i) == RemoveAt(calls, i)

(* The calls that do not ask for op, in the order they were sent. *)
Kept(s, K) ==
  [k \in 1 .. Cardinality(K) |->
    s[CHOOSE i \in K : Cardinality({j \in K : j <= i}) = k]]
Without(s, op) == Kept(s, {i \in DOMAIN s : s[i].op # op})

Reply(i, r) == calls' = [calls EXCEPT ![i].reply = r]
Read(o, t) == [op |-> o, team |-> t, reply |-> NoReply]

(* History for the pages, which show every answer that arrives, whatever   *)
(* was asked since.  What became of the last question: "pending", "shown", *)
(* or "stale": it failed, or the answer to an older one was shown after    *)
(* its own.                                                                *)
Fate(latest, i) == IF latest # "pending" THEN "stale"
                   ELSE IF IsNewest(i) THEN "shown" ELSE "pending"
Unless(raced, latest) == IF raced THEN "stale" ELSE latest
FateOfFailed(latest, i) ==
  IF latest = "pending" /\ IsNewest(i) THEN "stale" ELSE latest

(* seedTeams and fetchTeams: the team saved in the browser if it is still  *)
(* one of ours, else the first.                                            *)
Chosen(ours, saved) ==
  IF saved \in ours THEN saved
  ELSE IF ours = {} THEN None ELSE CHOOSE t \in ours : TRUE

SeedTeams(ours, saved) ==
  /\ teams = ours
  /\ currentTeam = Chosen(ours, saved)
  /\ savedTeam = IF currentTeam = None THEN saved ELSE currentTeam

ClientInit(ours, saved) ==
  /\ calls = <<>>
  /\ dbTeams = ours /\ SeedTeams(ours, saved)
  /\ teamDialog = FALSE /\ creatingTeam = FALSE
  /\ missedRefresh = FALSE

SetCurrentTeam(t, after) ==
  /\ Room /\ ~teamDialog /\ t \in teams
  /\ savedTeam' = t /\ currentTeam' = t
  /\ calls' = after
  /\ UNCHANGED <<dbTeams, teams, teamDialog, creatingTeam, missedRefresh>>

(* Bound: the dialog opens while there is a team left to create. *)
SetTeamDialog(open) ==
  /\ teamDialog # open /\ (open => dbTeams # Teams)
  /\ teamDialog' = open
  /\ UNCHANGED <<calls, dbTeams, teams, currentTeam, savedTeam, creatingTeam,
                 missedRefresh>>

(* Enter in the field submits again even while the button shows a spinner. *)
HandleCreate(t) ==
  /\ teamDialog /\ Room
  /\ t \in Teams \ dbTeams
  /\ \A i \in Pending("createTeam") : calls[i].team # t
  /\ creatingTeam' = TRUE
  /\ calls' = Append(calls, Read("createTeam", t))
  /\ UNCHANGED <<dbTeams, teams, currentTeam, savedTeam, teamDialog,
                 missedRefresh>>

ServeCreateTeam(i) ==
  /\ i \in Pending("createTeam") /\ ~Served(i)
  /\ dbTeams' = dbTeams \cup {calls[i].team}
  /\ Reply(i, [team |-> calls[i].team])
  /\ UNCHANGED <<teams, currentTeam, savedTeam, teamDialog, creatingTeam,
                 missedRefresh>>

(* createTeam returns: the new team is saved as the current one, but       *)
(* becomes it only when the teams have been read again.                    *)
TeamAfterCreate(t) == IF currentTeam = None THEN t ELSE currentTeam

(* Mutant: the teams are not read again. *)
CreateTeamSucceedsAlone(i, after) ==
  LET t == calls[i].team IN
  /\ i \in Pending("createTeam") /\ Served(i)
  /\ teams' = teams \cup {t}
  /\ currentTeam' = TeamAfterCreate(t)
  /\ savedTeam' = t
  /\ calls' = after
  /\ teamDialog' = FALSE /\ creatingTeam' = FALSE
  /\ UNCHANGED <<dbTeams, missedRefresh>>

CreateTeamSucceeds(i, after) ==
  LET t == calls[i].team IN
  /\ i \in Pending("createTeam") /\ Served(i)
  /\ teams' = teams \cup {t}
  /\ currentTeam' = TeamAfterCreate(t)
  /\ savedTeam' = t
  /\ calls' = Append(after, Read("teams", None))
  /\ teamDialog' = FALSE /\ creatingTeam' = FALSE
  /\ UNCHANGED <<dbTeams, missedRefresh>>

CreateTeamFails(i) ==
  /\ i \in Pending("createTeam")
  /\ calls' = Others(i)
  /\ creatingTeam' = FALSE
  /\ UNCHANGED <<dbTeams, teams, currentTeam, savedTeam, teamDialog,
                 missedRefresh>>

ServeTeams(i) ==
  /\ i \in Pending("teams") /\ ~Served(i)
  /\ Reply(i, [teams |-> dbTeams])
  /\ UNCHANGED teamVars

TeamAfterFetch(i) == Chosen(calls[i].reply.teams, savedTeam)

FetchTeamsSucceeds(i, after) ==
  /\ i \in Pending("teams") /\ Served(i)
  /\ teams' = calls[i].reply.teams
  /\ currentTeam' = TeamAfterFetch(i)
  /\ savedTeam' = IF currentTeam' = None THEN savedTeam ELSE currentTeam'
  /\ calls' = after
  /\ missedRefresh' = FALSE
  /\ UNCHANGED <<dbTeams, teamDialog, creatingTeam>>

FetchTeamsFails(i) ==
  /\ i \in Pending("teams")
  /\ calls' = Others(i)
  /\ missedRefresh' = TRUE
  /\ UNCHANGED <<dbTeams, teams, currentTeam, savedTeam, teamDialog,
                 creatingTeam>>

(* The page reopens with the team the user is on: it is one of the user's, *)
(* and it is the one saved in the browser, unless the answer that follows  *)
(* the creation of a team is still missing.                                *)
SavedIsCurrent ==
  (Pending("teams") = {} /\ ~missedRefresh /\ currentTeam # None)
    => savedTeam = currentTeam /\ currentTeam \in teams
=============================================================================
