------------------------------ MODULE TeamPage ------------------------------
(***************************************************************************)
(* The page of a team (web/src/app/(main)/team/content.tsx): its members,  *)
(* its invitations, its name.  The member modelled is one who belongs to   *)
(* every team and is not the user; a user who manages a team is its owner  *)
(* or an admin, which the server asks of every change.                     *)
(***************************************************************************)
EXTENDS Client

CONSTANT Invites      \* invitations that may be created

ASSUME TeamPageAssumption == None \notin Invites

(* "Not served yet" is none of the answers. *)
ASSUME TeamIsAnswered ==
  NoReply \notin [invite : Invites] \cup [active : BOOLEAN]

VARIABLES
  managed,      \* server: the teams the user manages
  dbActive,     \* server: the teams in which the member is active
  dbInvited,    \* server: team -> invitations that are pending
  page          \* local state of the page

teamPageVars == <<managed, dbActive, dbInvited, page>>

(* "members" is the team whose list is shown (None: the list is empty) and *)
(* "active" the member's badge in it; "manager" is what me.role says;      *)
(* "latest" is history, as for the other pages.                            *)
MountedPage ==
  [members |-> None, active |-> FALSE, invited |-> {}, manager |-> FALSE,
   loading |-> TRUE, confirming |-> FALSE, dialog |-> "closed",
   revoking |-> None, latest |-> "pending"]

TeamPageInit(ours, open) ==
  /\ managed = ours /\ dbActive = Teams
  /\ dbInvited = [t \in Teams |-> open]
  /\ page = MountedPage

TeamChanges == {i \in DOMAIN calls :
                  calls[i].op \in {"rename", "invite", "setActive", "revoke"}}
updatingMember == Pending("setActive") # {}
isSubmitting == Pending("invite") # {}
savingName == \E i \in DOMAIN calls :
  calls[i].op = "rename" \/ (calls[i].op = "teams" /\ calls[i].team # None)

(* fetchAll: three queries, answered together. *)
FetchAllSends(t) == <<Read("team", t)>>
FetchAllRenders ==
  /\ page' = [page EXCEPT !.loading = TRUE,
                !.latest = Unless(TeamChanges # {}, "pending")]
  /\ UNCHANGED <<managed, dbActive, dbInvited>>

(* The query for the invitations may fail alone, and does for a user who   *)
(* does not manage the team: the list is empty then.                       *)
ServeTeam(i) ==
  LET t == calls[i].team IN
  /\ i \in Pending("team") /\ ~Served(i)
  /\ \E refused \in BOOLEAN :
       /\ t \notin managed => refused
       /\ Reply(i, [active |-> t \in dbActive, manager |-> t \in managed,
                    refused |-> refused,
                    invited |-> IF refused THEN {} ELSE dbInvited[t]])
  /\ UNCHANGED <<teamVars, teamPageVars>>

FetchAllSucceeds(i) ==
  LET r == calls[i].reply IN
  /\ i \in Pending("team") /\ Served(i)
  /\ page' = [page EXCEPT !.loading = FALSE, !.members = calls[i].team,
                !.active = r.active, !.invited = r.invited,
                !.manager = r.manager,
                !.latest = Unless(r.manager /\ r.refused, Fate(@, i))]
  /\ calls' = Others(i)
  /\ UNCHANGED <<teamVars, managed, dbActive, dbInvited>>

(* The page shows what it showed before, of whatever team. *)
FetchAllFails(i) ==
  /\ i \in Pending("team")
  /\ page' = [page EXCEPT !.loading = FALSE, !.latest = FateOfFailed(@, i)]
  /\ calls' = Others(i)
  /\ UNCHANGED <<teamVars, managed, dbActive, dbInvited>>

-----------------------------------------------------------------------------
Modal == page.confirming \/ page.dialog # "closed"
Shown == currentTeam # None /\ ~page.loading
OnTeamPage == Room /\ Shown /\ ~Modal
CanManage == page.members # None /\ page.manager

(* A change goes to the current team, whatever team is shown. *)
ChangeTeam(c, p) ==
  /\ page' = [p EXCEPT !.latest =
                Unless(TeamChanges # {} \/ Pending("team") # {}, @)]
  /\ calls' = Append(calls, c)
  /\ UNCHANGED <<teamVars, managed, dbActive, dbInvited>>

SaveName ==
  /\ OnTeamPage /\ ~savingName
  /\ ChangeTeam(Read("rename", currentTeam), page)

Activate ==
  /\ OnTeamPage /\ CanManage /\ ~page.active /\ ~updatingMember
  /\ ChangeTeam([op |-> "setActive", team |-> currentTeam, active |-> TRUE,
             reply |-> NoReply], page)

SetConfirm(open) ==
  /\ Shown /\ page.confirming # open
  /\ open => OnTeamPage /\ CanManage /\ page.active /\ ~updatingMember
  /\ page' = [page EXCEPT !.confirming = open]
  /\ UNCHANGED <<calls, teamVars, managed, dbActive, dbInvited>>

Deactivate ==
  /\ Room /\ Shown /\ page.confirming /\ ~updatingMember
  /\ ChangeTeam([op |-> "setActive", team |-> currentTeam, active |-> FALSE,
             reply |-> NoReply], page)

OpenInvite ==
  /\ OnTeamPage /\ page.manager
  /\ page' = [page EXCEPT !.dialog = "form"]
  /\ UNCHANGED <<calls, teamVars, managed, dbActive, dbInvited>>

CloseInvite ==
  /\ Shown /\ page.dialog # "closed"
  /\ page' = [page EXCEPT !.dialog = "closed"]
  /\ UNCHANGED <<calls, teamVars, managed, dbActive, dbInvited>>

OnInvite ==
  /\ Room /\ Shown /\ page.dialog = "form" /\ ~isSubmitting
  /\ ChangeTeam(Read("invite", currentTeam), page)

RevokeInvitation(v) ==
  /\ OnTeamPage /\ v \in page.invited /\ page.revoking # v
  /\ ChangeTeam([op |-> "revoke", team |-> currentTeam, invite |-> v,
             reply |-> NoReply], [page EXCEPT !.revoking = v])

-----------------------------------------------------------------------------
Allowed(i) == calls[i].team \in managed

ServeRename(i) ==
  /\ i \in Pending("rename") /\ ~Served(i) /\ Allowed(i)
  /\ Reply(i, [team |-> calls[i].team])
  /\ UNCHANGED <<teamVars, teamPageVars>>

ServeSetActive(i) ==
  LET t == calls[i].team IN
  /\ i \in Pending("setActive") /\ ~Served(i) /\ Allowed(i)
  /\ dbActive' = IF calls[i].active THEN dbActive \cup {t} ELSE dbActive \ {t}
  /\ Reply(i, [active |-> calls[i].active])
  /\ UNCHANGED <<teamVars, managed, dbInvited, page>>

ServeInvite(i) ==
  LET t == calls[i].team IN
  /\ i \in Pending("invite") /\ ~Served(i) /\ Allowed(i)
  /\ \E v \in Invites :
       /\ \A s \in Teams : v \notin dbInvited[s]
       /\ dbInvited' = [dbInvited EXCEPT ![t] = @ \cup {v}]
       /\ Reply(i, [invite |-> v])
  /\ UNCHANGED <<teamVars, managed, dbActive, page>>

ServeRevoke(i) ==
  LET t == calls[i].team IN
  /\ i \in Pending("revoke") /\ ~Served(i) /\ Allowed(i)
  /\ calls[i].invite \in dbInvited[t]
  /\ dbInvited' = [dbInvited EXCEPT ![t] = @ \ {calls[i].invite}]
  /\ Reply(i, [invite |-> calls[i].invite])
  /\ UNCHANGED <<teamVars, managed, dbActive, page>>

(* An answer changes the list on screen, of whatever team. *)
RenameSucceeds(i) ==
  /\ i \in Pending("rename") /\ Served(i)
  /\ calls' = Append(Others(i), Read("teams", calls[i].team))
  /\ UNCHANGED <<teamVars, teamPageVars>>

(* Mutant: the list is not updated. *)
SetActiveSucceedsUnseen(i) ==
  /\ i \in Pending("setActive") /\ Served(i)
  /\ page' = [page EXCEPT !.confirming = FALSE]
  /\ calls' = Others(i)
  /\ UNCHANGED <<teamVars, managed, dbActive, dbInvited>>

SetActiveSucceeds(i) ==
  /\ i \in Pending("setActive") /\ Served(i)
  /\ page' = [page EXCEPT !.active = calls[i].active, !.confirming = FALSE]
  /\ calls' = Others(i)
  /\ UNCHANGED <<teamVars, managed, dbActive, dbInvited>>

InviteSucceeds(i) ==
  /\ i \in Pending("invite") /\ Served(i)
  /\ page' = [page EXCEPT !.invited = @ \cup {calls[i].reply.invite},
                !.dialog = IF @ = "closed" THEN @ ELSE "result"]
  /\ calls' = Others(i)
  /\ UNCHANGED <<teamVars, managed, dbActive, dbInvited>>

RevokeSucceeds(i) ==
  /\ i \in Pending("revoke") /\ Served(i)
  /\ page' = [page EXCEPT !.invited = @ \ {calls[i].invite},
                          !.revoking = None]
  /\ calls' = Others(i)
  /\ UNCHANGED <<teamVars, managed, dbActive, dbInvited>>

TeamChangeFails(i) ==
  LET p == [page EXCEPT !.latest = "stale"] IN
  /\ i \in TeamChanges
  /\ page' = CASE calls[i].op = "setActive" -> [p EXCEPT !.confirming = FALSE]
               [] calls[i].op = "revoke" -> [p EXCEPT !.revoking = None]
               [] OTHER -> p
  /\ calls' = Others(i)
  /\ UNCHANGED <<teamVars, managed, dbActive, dbInvited>>

-----------------------------------------------------------------------------
(* Quiet, with nothing raced or lost, the page shows the current team: its *)
(* members and pending invitations as the server has them, and controls    *)
(* for exactly the users from whom the server takes changes.               *)
PageIsOfTheTeam ==
  (/\ TeamChanges = {} /\ Pending("team") = {} /\ currentTeam # None
   /\ page.latest = "shown")
    => /\ page.members = currentTeam
       /\ page.active <=> currentTeam \in dbActive
       /\ page.manager <=> currentTeam \in managed
       /\ page.invited = IF page.manager THEN dbInvited[currentTeam] ELSE {}
=============================================================================
