------------------------------- MODULE Accounts -------------------------------
(***************************************************************************)
(* Users (internals/modules/user) and teams (internals/modules/team):      *)
(* registration, teams, their members and the invitations that make them.  *)
(* Every request is a chain of single statements to PostgreSQL, without a  *)
(* transaction; several run at once, and any statement may fail, carried   *)
(* out or not.                                                             *)
(***************************************************************************)
EXTENDS Integers, FiniteSets

CONSTANTS
  People,         \* e-mail addresses, one user each (UNIQUE in users)
  Teams,          \* the teams that may come to exist
  Invitations,    \* the invitations that may be sent
  InvitedRoles,   \* the roles that invitations give
  Requests,       \* requests that may run at once
  MaxFaults       \* bound: failed statements

Roles == {"owner", "admin", "member"}
Nobody == "nobody"
Nothing == "nothing"

ASSUME AccountsAssumption ==
  /\ Nobody \notin People /\ Nothing \notin Teams \cup Invitations
  /\ InvitedRoles \subseteq Roles
  /\ MaxFaults \in Nat

VARIABLES
  user,       \* users: the role by e-mail address, or none
  enabled,    \* instance_settings.registrations_enabled
  teams,      \* teams
  member,     \* team_members
  sent,       \* invitations ever inserted: team, address and role
  status,     \* what became of them; accepted_at overrides expires_at, and a
              \* revoked one has no row any more
  rpc, req,   \* the next statement of a request, and what it holds
  faults,
  founders,   \* history: users that Register made owners
  raced,      \* history: two registrations have run at the same time
  contended   \* history: teams in which two members were set (in)active at once

userRows == <<user, enabled, founders>>
teamRows == <<teams, member>>
invitationRows == <<sent, status>>
requestVars == <<rpc, req>>
history == <<raced, contended>>
vars == <<userRows, teamRows, invitationRows, requestVars, faults, history>>

Steps ==
  {"idle", "getEnabled", "hasUsers", "createUser", "closeRegistrations",
   "insertTeam", "addOwner", "access", "insertInvitation", "deleteInvitation",
   "setActive", "getInvitation", "getUser", "createInvitedUser", "addMember",
   "isMember", "markAccepted"}

NotMember == [role |-> "none", active |-> FALSE]
Unsent == [team |-> Nothing, email |-> Nobody, role |-> "none"]
NoRequest == [op |-> "none", who |-> Nobody, whom |-> Nobody,
              team |-> Nothing, inv |-> Nothing, value |-> "none"]

(* CreateUser and AddMember are never reached without a role to give.        *)
TypeOK ==
  /\ user \in [People -> Roles \cup {"none"}] /\ enabled \in BOOLEAN
  /\ teams \subseteq Teams
  /\ member \in [Teams -> [People -> [role : Roles, active : BOOLEAN]
                                       \cup {NotMember}]]
  /\ sent \in [Invitations ->
                 [team : Teams, email : People, role : Roles] \cup {Unsent}]
  /\ status \in [Invitations ->
       {"unsent", "pending", "expired", "accepted", "revoked"}]
  /\ rpc \in [Requests -> Steps]
  /\ req \in [Requests ->
       [op : {"register", "setup", "createTeam", "invite", "revoke",
              "setActive", "accept"},
        who : People \cup {Nobody}, whom : People \cup {Nobody},
        team : Teams \cup {Nothing}, inv : Invitations \cup {Nothing},
        value : Roles \cup {"active", "inactive", "none"}] \cup {NoRequest}]
  /\ \A r \in Requests :
       rpc[r] \in {"createUser", "createInvitedUser", "addMember"}
         => req[r].value \in Roles
  /\ faults \in Nat /\ founders \subseteq People
  /\ raced \in BOOLEAN /\ contended \subseteq Teams

Init ==
  /\ user = [p \in People |-> "none"] /\ enabled = TRUE
  /\ teams = {} /\ member = [t \in Teams |-> [p \in People |-> NotMember]]
  /\ sent = [i \in Invitations |-> Unsent]
  /\ status = [i \in Invitations |-> "unsent"]
  /\ rpc = [r \in Requests |-> "idle"] /\ req = [r \in Requests |-> NoRequest]
  /\ faults = 0 /\ founders = {} /\ raced = FALSE /\ contended = {}

-----------------------------------------------------------------------------
(* Statements.  Works and Fails are their two outcomes; one that fails may    *)
(* have been carried out.                                                    *)

Works == UNCHANGED faults
Fails == faults < MaxFaults /\ faults' = faults + 1

At(r, step) == rpc[r] = step
Goto(r, step) == rpc' = [rpc EXCEPT ![r] = step] /\ UNCHANGED req
Answer(r) == /\ rpc' = [rpc EXCEPT ![r] = "idle"]
             /\ req' = [req EXCEPT ![r] = NoRequest]
GotoWith(r, step, new) == /\ rpc' = [rpc EXCEPT ![r] = step]
                          /\ req' = [req EXCEPT ![r] = new]

Known(p) == user[p] # "none"
IsMemberOf(p, t) == member[t][p] # NotMember
Manages(p, t) == member[t][p].active /\ member[t][p].role \in {"owner", "admin"}

Start(r, step, request) ==
  /\ At(r, "idle") /\ GotoWith(r, step, request)
  /\ raced' = (raced \/ (request.op = "register"
                          /\ \E q \in Requests : req[q].op = "register"))
  /\ contended' =
       IF /\ request.op = "setActive"
          /\ \E q \in Requests : /\ req[q].op = "setActive"
                                 /\ req[q].team = request.team
       THEN contended \cup {request.team} ELSE contended
  /\ UNCHANGED <<userRows, teamRows, invitationRows, faults>>

-----------------------------------------------------------------------------
(* Register and SetupStatus.                                                 *)

StartRegister(r, p) ==
  Start(r, "getEnabled", [NoRequest EXCEPT !.op = "register", !.who = p])

StartSetupStatus(r) == Start(r, "getEnabled", [NoRequest EXCEPT !.op = "setup"])

GetRegistrationsEnabled(r) ==
  /\ At(r, "getEnabled")
  /\ \/ Works /\ enabled /\ Goto(r, "hasUsers")
     \/ Works /\ ~enabled /\ Answer(r)
     \/ Fails /\ Answer(r)
  /\ UNCHANGED <<userRows, teamRows, invitationRows, history>>

(* Mutant: the role is not set back to member when there are users.          *)
HasUsersWithoutDefault(r) ==
  LET has == \E p \in People : Known(p) IN
  /\ At(r, "hasUsers") /\ Works
  /\ IF req[r].op = "register"
     THEN GotoWith(r, "createUser",
                   [req[r] EXCEPT !.value = IF has THEN "none" ELSE "owner"])
     ELSE IF has THEN Goto(r, "closeRegistrations") ELSE Answer(r)
  /\ UNCHANGED <<userRows, teamRows, invitationRows, history>>

(* Mutant: SetupStatus leaves a stale flag as it is.                         *)
HasUsersNotHealing(r) ==
  LET has == \E p \in People : Known(p) IN
  /\ At(r, "hasUsers") /\ Works
  /\ IF req[r].op = "register"
     THEN GotoWith(r, "createUser",
                   [req[r] EXCEPT !.value = IF has THEN "member" ELSE "owner"])
     ELSE Answer(r)
  /\ UNCHANGED <<userRows, teamRows, invitationRows, history>>

(* Mutant: an open registration is taken for the first one.                  *)
HasUsersByFlag(r) ==
  /\ At(r, "hasUsers") /\ Works
  /\ IF req[r].op = "register"
     THEN GotoWith(r, "createUser", [req[r] EXCEPT !.value = "owner"])
     ELSE Goto(r, "closeRegistrations")
  /\ UNCHANGED <<userRows, teamRows, invitationRows, history>>

(* A stale flag, which says open although there are users, makes Register    *)
(* create a member and SetupStatus close it.                                 *)
HasUsers(r) ==
  LET has == \E p \in People : Known(p)
      role == IF has THEN "member" ELSE "owner" IN
  /\ At(r, "hasUsers")
  /\ \/ /\ Works /\ req[r].op = "register"
        /\ GotoWith(r, "createUser", [req[r] EXCEPT !.value = role])
     \/ Works /\ req[r].op = "setup" /\ has /\ Goto(r, "closeRegistrations")
     \/ Works /\ req[r].op = "setup" /\ ~has /\ Answer(r)
     \/ Fails /\ Answer(r)
  /\ UNCHANGED <<userRows, teamRows, invitationRows, history>>

(* The first user closes registration.                                       *)
CreateUser(r) ==
  LET p == req[r].who  role == req[r].value
      created == /\ ~Known(p) /\ user' = [user EXCEPT ![p] = role]
                 /\ founders' = IF role = "owner" THEN founders \cup {p}
                                ELSE founders
      refused == UNCHANGED <<user, founders>> IN
  /\ At(r, "createUser")
  /\ \/ /\ Works /\ created
        /\ IF role = "owner" THEN Goto(r, "closeRegistrations") ELSE Answer(r)
     \/ Works /\ Known(p) /\ refused /\ Answer(r)
     \/ Fails /\ (created \/ refused) /\ Answer(r)
  /\ UNCHANGED <<enabled, teamRows, invitationRows, history>>

(* The error is ignored.                                                     *)
SetRegistrationsEnabled(r) ==
  /\ At(r, "closeRegistrations") /\ Answer(r)
  /\ \/ Works /\ enabled' = FALSE
     \/ Fails /\ enabled' \in {enabled, FALSE}
  /\ UNCHANGED <<user, founders, teamRows, invitationRows, history>>

Register(r) ==
  \/ GetRegistrationsEnabled(r) \/ HasUsers(r) \/ CreateUser(r)
  \/ SetRegistrationsEnabled(r)

-----------------------------------------------------------------------------
(* CreateTeam.                                                               *)

StartCreateTeam(r, p, t) ==
  /\ Known(p) /\ t \notin teams /\ \A q \in Requests : req[q].team # t
  /\ Start(r, "insertTeam",
           [NoRequest EXCEPT !.op = "createTeam", !.who = p, !.team = t])

InsertTeam(r) ==
  LET inserted == teams \cup {req[r].team} IN
  /\ At(r, "insertTeam")
  /\ \/ Works /\ teams' = inserted /\ Goto(r, "addOwner")
     \/ Fails /\ teams' \in {teams, inserted} /\ Answer(r)
  /\ UNCHANGED <<userRows, member, invitationRows, history>>

Joined(p, t, role) ==
  [member EXCEPT ![t][p] = [role |-> role, active |-> TRUE]]

AddOwner(r) ==
  LET added == Joined(req[r].who, req[r].team, "owner") IN
  /\ At(r, "addOwner") /\ Answer(r)
  /\ \/ Works /\ member' = added
     \/ Fails /\ member' \in {member, added}
  /\ UNCHANGED <<userRows, teams, invitationRows, history>>

CreateTeam(r) == InsertTeam(r) \/ AddOwner(r)

-----------------------------------------------------------------------------
(* What owners and admins of a team do.                                      *)

StartCreateInvitation(r, p, t, i, q, role) ==
  /\ Known(p) /\ t \in teams
  /\ status[i] = "unsent" /\ \A o \in Requests : req[o].inv # i
  /\ Start(r, "access", [op |-> "invite", who |-> p, whom |-> q, team |-> t,
                         inv |-> i, value |-> role])

StartRevokeInvitation(r, p, i) ==
  /\ Known(p) /\ status[i] # "unsent"
  /\ Start(r, "access", [op |-> "revoke", who |-> p, whom |-> Nobody,
                         team |-> sent[i].team, inv |-> i, value |-> "none"])

StartSetMemberActive(r, p, t, q, value) ==
  /\ Known(p) /\ t \in teams
  /\ Start(r, "access", [op |-> "setActive", who |-> p, whom |-> q, team |-> t,
                         inv |-> Nothing, value |-> value])

AfterAccess(op) ==
  CASE op = "invite" -> "insertInvitation"
    [] op = "revoke" -> "deleteInvitation"
    [] op = "setActive" -> "setActive"

(* The membership is read once, before the handler runs.                     *)
TeamAccess(r) ==
  LET allowed == Manages(req[r].who, req[r].team) IN
  /\ At(r, "access")
  /\ \/ Works /\ allowed /\ Goto(r, AfterAccess(req[r].op))
     \/ Works /\ ~allowed /\ Answer(r)
     \/ Fails /\ Answer(r)
  /\ UNCHANGED <<userRows, teamRows, invitationRows, history>>

CreateInvitation(r) ==
  LET i == req[r].inv
      inserted == /\ sent' = [sent EXCEPT ![i] =
                       [team |-> req[r].team, email |-> req[r].whom,
                        role |-> req[r].value]]
                  /\ status' = [status EXCEPT ![i] = "pending"] IN
  /\ At(r, "insertInvitation") /\ Answer(r)
  /\ \/ Works /\ inserted
     \/ Fails /\ (inserted \/ UNCHANGED <<sent, status>>)
  /\ UNCHANGED <<userRows, teamRows, history>>

(* Deletes accepted invitations as well as pending ones.                     *)
RevokeInvitation(r) ==
  LET deleted == [status EXCEPT ![req[r].inv] = "revoked"] IN
  /\ At(r, "deleteInvitation") /\ Answer(r)
  /\ \/ Works /\ status' = deleted
     \/ Fails /\ status' \in {status, deleted}
  /\ UNCHANGED <<userRows, teamRows, sent, history>>

(* Mutant: callers may change their own status.                              *)
SetMemberActiveOfAnyone(r) ==
  LET t == req[r].team  q == req[r].whom IN
  /\ At(r, "setActive") /\ Answer(r) /\ Works
  /\ member' = IF IsMemberOf(q, t)
               THEN [member EXCEPT ![t][q].active = (req[r].value = "active")]
               ELSE member
  /\ UNCHANGED <<userRows, teams, invitationRows, history>>

SetMemberActive(r) ==
  LET t == req[r].team  q == req[r].whom
      set == IF IsMemberOf(q, t)
             THEN [member EXCEPT ![t][q].active = (req[r].value = "active")]
             ELSE member IN
  /\ At(r, "setActive") /\ Answer(r)
  /\ \/ q = req[r].who /\ Works /\ UNCHANGED member
     \/ q # req[r].who /\ Works /\ member' = set
     \/ q # req[r].who /\ Fails /\ member' \in {member, set}
  /\ UNCHANGED <<userRows, teams, invitationRows, history>>

ManageTeam(r) ==
  \/ TeamAccess(r) \/ CreateInvitation(r) \/ RevokeInvitation(r)
  \/ SetMemberActive(r)

-----------------------------------------------------------------------------
(* AcceptInvitation.                                                         *)

Expire(i) ==
  /\ status[i] = "pending" /\ status' = [status EXCEPT ![i] = "expired"]
  /\ UNCHANGED <<userRows, teamRows, sent, requestVars, faults, history>>

StartAcceptInvitation(r, i) ==
  /\ status[i] # "unsent"
  /\ Start(r, "getInvitation", [NoRequest EXCEPT !.op = "accept", !.inv = i])

(* What the row says is kept, and the row is not read again.                 *)
GetInvitationByToken(r) ==
  LET i == req[r].inv
      found == [req[r] EXCEPT !.whom = sent[i].email, !.team = sent[i].team,
                              !.value = sent[i].role] IN
  /\ At(r, "getInvitation")
  /\ \/ Works /\ status[i] = "pending" /\ GotoWith(r, "getUser", found)
     \/ Works /\ status[i] # "pending" /\ Answer(r)
     \/ Fails /\ Answer(r)
  /\ UNCHANGED <<userRows, teamRows, invitationRows, history>>

GetUserByEmail(r) ==
  /\ At(r, "getUser")
  /\ \/ Works /\ Known(req[r].whom) /\ Goto(r, "addMember")
     \/ Works /\ ~Known(req[r].whom) /\ Goto(r, "createInvitedUser")
     \/ Fails /\ Answer(r)
  /\ UNCHANGED <<userRows, teamRows, invitationRows, history>>

CreateInvitedUser(r) ==
  LET p == req[r].whom
      created == ~Known(p) /\ user' = [user EXCEPT ![p] = req[r].value] IN
  /\ At(r, "createInvitedUser")
  /\ \/ Works /\ created /\ Goto(r, "addMember")
     \/ Works /\ Known(p) /\ UNCHANGED user /\ Answer(r)
     \/ Fails /\ (created \/ UNCHANGED user) /\ Answer(r)
  /\ UNCHANGED <<enabled, founders, teamRows, invitationRows, history>>

(* Mutant: the member gets the role of the user.                             *)
AddMemberAsUser(r) ==
  LET p == req[r].whom  t == req[r].team IN
  /\ At(r, "addMember") /\ Works
  /\ IF IsMemberOf(p, t) THEN UNCHANGED member /\ Goto(r, "isMember")
     ELSE member' = Joined(p, t, user[p]) /\ Goto(r, "markAccepted")
  /\ UNCHANGED <<userRows, teams, invitationRows, history>>

(* Mutant: any error of AddMember is returned.                               *)
AddMemberOrReturn(r) ==
  LET p == req[r].whom  t == req[r].team
      added == Joined(p, t, req[r].value) IN
  /\ At(r, "addMember")
  /\ \/ Works /\ ~IsMemberOf(p, t) /\ member' = added /\ Goto(r, "markAccepted")
     \/ Works /\ IsMemberOf(p, t) /\ UNCHANGED member /\ Answer(r)
     \/ /\ Fails /\ member' \in {member} \cup {m \in {added} : ~IsMemberOf(p, t)}
        /\ Answer(r)
  /\ UNCHANGED <<userRows, teams, invitationRows, history>>

(* Mutant: every error of AddMember is taken for "already a member".         *)
AddMemberIgnoringErrors(r) ==
  LET p == req[r].whom  t == req[r].team IN
  /\ At(r, "addMember") /\ Goto(r, "markAccepted")
  /\ \/ /\ Works
        /\ member' = IF IsMemberOf(p, t) THEN member
                     ELSE Joined(p, t, req[r].value)
     \/ Fails /\ UNCHANGED member
  /\ UNCHANGED <<userRows, teams, invitationRows, history>>

(* UNIQUE (team_id, user_id) refuses who is a member.                        *)
AddMember(r) ==
  LET p == req[r].whom  t == req[r].team
      added == ~IsMemberOf(p, t) /\ member' = Joined(p, t, req[r].value) IN
  /\ At(r, "addMember")
  /\ \/ Works /\ added /\ Goto(r, "markAccepted")
     \/ Works /\ IsMemberOf(p, t) /\ UNCHANGED member /\ Goto(r, "isMember")
     \/ Fails /\ (added \/ UNCHANGED member) /\ Goto(r, "isMember")
  /\ UNCHANGED <<userRows, teams, invitationRows, history>>

IsMember(r) ==
  LET is == IsMemberOf(req[r].whom, req[r].team) IN
  /\ At(r, "isMember")
  /\ \/ Works /\ is /\ Goto(r, "markAccepted")
     \/ Works /\ ~is /\ Answer(r)
     \/ Fails /\ Answer(r)
  /\ UNCHANGED <<userRows, teamRows, invitationRows, history>>

(* The number of rows is not looked at: an invitation may have been revoked. *)
MarkAccepted(r) ==
  LET i == req[r].inv
      marked == IF status[i] = "revoked" THEN status
                ELSE [status EXCEPT ![i] = "accepted"] IN
  /\ At(r, "markAccepted") /\ Answer(r)
  /\ \/ Works /\ status' = marked
     \/ Fails /\ status' \in {status, marked}
  /\ UNCHANGED <<userRows, teamRows, sent, history>>

AcceptInvitation(r) ==
  \/ GetInvitationByToken(r) \/ GetUserByEmail(r) \/ CreateInvitedUser(r)
  \/ AddMember(r) \/ IsMember(r) \/ MarkAccepted(r)

-----------------------------------------------------------------------------
RequestStep(r) ==
  Register(r) \/ CreateTeam(r) \/ ManageTeam(r) \/ AcceptInvitation(r)

Next ==
  \/ \E i \in Invitations : Expire(i)
  \/ \E r \in Requests :
       \/ RequestStep(r)
       \/ StartSetupStatus(r)
       \/ \E i \in Invitations : StartAcceptInvitation(r, i)
       \/ \E p \in People :
            \/ StartRegister(r, p)
            \/ \E i \in Invitations : StartRevokeInvitation(r, p, i)
            \/ \E t \in Teams :
                 \/ StartCreateTeam(r, p, t)
                 \/ \E q \in People :
                      \/ \E i \in Invitations, role \in InvitedRoles :
                           StartCreateInvitation(r, p, t, i, q, role)
                      \/ \E value \in {"active", "inactive"} :
                           StartSetMemberActive(r, p, t, q, value)

Spec == Init /\ [][Next]_vars

(* A request that was begun comes to its end.  Nobody has to make any.       *)
FairSpec == Spec /\ \A r \in Requests : WF_vars(RequestStep(r))

-----------------------------------------------------------------------------
(* Register makes one owner at most, even when closing the registration       *)
(* failed and it stays open; two registrations at the same time are excluded, *)
(* for both may find no user.                                                *)
OneFounder == raced \/ Cardinality(founders) <= 1

Invited(p, t) ==
  \E i \in Invitations :
    sent[i] = [team |-> t, email |-> p, role |-> member[t][p].role]

(* Whoever belongs to a team was sent an invitation to it with just that      *)
(* role, whichever requests overlapped and whatever failed, except for one    *)
(* member, the owner who created it.                                         *)
MembersAreInvited ==
  \A t \in Teams :
    LET uninvited == {p \in People : IsMemberOf(p, t) /\ ~Invited(p, t)} IN
    /\ Cardinality(uninvited) <= 1
    /\ \A p \in uninvited : member[t][p].role = "owner"

(* An invitation is marked as accepted only when its user exists and belongs  *)
(* to its team, although the three rows are written one by one.              *)
AcceptedIsMember ==
  \A i \in Invitations :
    status[i] = "accepted" =>
      Known(sent[i].email) /\ IsMemberOf(sent[i].email, sent[i].team)

(* A team with members has an active owner or admin, who alone can set others *)
(* active again: nobody may change their own status.  Two requests at the     *)
(* same time are excluded, for two admins can set each other inactive.        *)
SomebodyManages ==
  \A t \in Teams \ contended :
    (\E p \in People : IsMemberOf(p, t)) => \E p \in People : Manages(p, t)

(* A flag that stayed open after the first user is closed in the end if the   *)
(* sign-in page keeps asking for the status.                                 *)
RegistrationCloses ==
  ~ /\ <>[](enabled /\ \E p \in People : Known(p))
    /\ []<>(\E r \in Requests : req[r].op = "setup")

(* Accepting can be tried again after it failed half-way: an invitation that  *)
(* stays valid is not asked for again and again without being accepted.      *)
AcceptanceCompletes ==
  \A i \in Invitations :
    ~ /\ <>[](status[i] = "pending")
      /\ []<>(\E r \in Requests : req[r].op = "accept" /\ req[r].inv = i)
=============================================================================
