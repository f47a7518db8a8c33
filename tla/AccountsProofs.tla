--------------------------- MODULE AccountsProofs ---------------------------
(***************************************************************************)
(* Theorems about Accounts, for any number of people, teams, invitations   *)
(* and requests, and any number of failed statements.                      *)
(***************************************************************************)
EXTENDS Accounts, FiniteSetTheorems, TLAPS

-----------------------------------------------------------------------------
(* The inductive invariant.  A request relies on what it read some steps      *)
(* before: Holds says what is still true of it.                              *)

RequestRecords ==
  [op : {"register", "setup", "createTeam", "invite", "revoke", "setActive",
         "accept"},
   who : People \cup {Nobody}, whom : People \cup {Nobody},
   team : Teams \cup {Nothing}, inv : Invitations \cup {Nothing},
   value : Roles \cup {"active", "inactive", "none"}] \cup {NoRequest}
SentRecords == [team : Teams, email : People, role : Roles]
MemberRecords == [role : Roles, active : BOOLEAN] \cup {NotMember}

RowTypes ==
  /\ user \in [People -> Roles \cup {"none"}] /\ enabled \in BOOLEAN
  /\ teams \subseteq Teams
  /\ member \in [Teams -> [People -> MemberRecords]]
  /\ sent \in [Invitations -> SentRecords \cup {Unsent}]
  /\ status \in [Invitations ->
       {"unsent", "pending", "expired", "accepted", "revoked"}]
  /\ faults \in Nat /\ founders \subseteq People
  /\ raced \in BOOLEAN /\ contended \subseteq Teams

RequestTypes ==
  rpc \in [Requests -> Steps] /\ req \in [Requests -> RequestRecords]

SentOnce == \A i \in Invitations : status[i] = "unsent" <=> sent[i] = Unsent

RowsHold == RowTypes /\ SentOnce /\ AcceptedIsMember

Admitting == {"getUser", "createInvitedUser", "addMember", "isMember",
              "markAccepted"}

(* What a request that accepts an invitation read from its row.               *)
HoldsRow(q) ==
  /\ q.op = "accept" /\ q.inv \in Invitations
  /\ q.whom \in People /\ q.team \in Teams /\ q.value \in Roles
  /\ sent[q.inv] = [team |-> q.team, email |-> q.whom, role |-> q.value]

(* An invitation that is about to be inserted, by this request alone.         *)
HoldsFresh(r) ==
  LET q == req[r] IN
  /\ q.whom \in People /\ q.team \in Teams /\ q.value \in Roles
  /\ q.inv \in Invitations /\ status[q.inv] = "unsent"
  /\ \A o \in Requests \ {r} : req[o].inv # q.inv

HoldsRole(r) ==
  LET q == req[r]  at == rpc[r] IN
  /\ q.op = "register" => q.who \in People
  /\ at = "createUser" => q.op = "register" /\ q.value \in Roles
  /\ at \in {"insertTeam", "addOwner"} => q.who \in People /\ q.team \in Teams

HoldsManager(r) ==
  LET q == req[r]  at == rpc[r] IN
  /\ at = "access" => q.op \in {"invite", "revoke", "setActive"}
  /\ at = "insertInvitation" => q.op = "invite"
  /\ at = "deleteInvitation" => q.op = "revoke"
  /\ q.op = "invite" => HoldsFresh(r)
  /\ q.op = "setActive" => q.team \in Teams
  /\ q.op = "revoke" => q.inv \in Invitations /\ status[q.inv] # "unsent"

HoldsInvitee(r) ==
  LET q == req[r]  at == rpc[r] IN
  /\ at = "getInvitation" =>
       q.op = "accept" /\ q.inv \in Invitations /\ status[q.inv] # "unsent"
  /\ at \in Admitting => HoldsRow(q)
  /\ at \in {"addMember", "isMember", "markAccepted"} => Known(q.whom)
  /\ at = "markAccepted" => IsMemberOf(q.whom, q.team)

Holds(r) == HoldsRole(r) /\ HoldsManager(r) /\ HoldsInvitee(r)

IInv == RowsHold /\ RequestTypes /\ \A r \in Requests : Holds(r)

LEMMA TypesFollow == IInv => TypeOK
BY DEF IInv, RowsHold, RowTypes, RequestTypes, TypeOK, RequestRecords,
       SentRecords, MemberRecords, Holds, HoldsRole, HoldsInvitee, HoldsRow,
       Admitting

LEMMA Sentinels ==
  /\ Unsent \notin SentRecords /\ Nothing \notin Invitations
  /\ Nobody \notin People
  /\ NoRequest \in RequestRecords /\ NoRequest.inv = Nothing
  /\ NoRequest.op = "none"
  /\ \A role \in Roles :
       [role |-> role, active |-> TRUE] \in MemberRecords \ {NotMember}
  /\ \A s \in SentRecords : s.team \in Teams /\ s.email \in People
                              /\ s.role \in Roles
BY AccountsAssumption
   DEF Unsent, SentRecords, NoRequest, RequestRecords, MemberRecords,
       NotMember, Roles

LEMMA InitInv == Init => IInv
<1> SUFFICES ASSUME Init PROVE IInv
  OBVIOUS
<1>1. RowsHold
  <2>1. RowTypes
    BY Sentinels DEF Init, RowTypes, MemberRecords, SentRecords
  <2>2. SentOnce /\ AcceptedIsMember
    BY DEF Init, SentOnce, AcceptedIsMember
  <2> QED
    BY <2>1, <2>2 DEF RowsHold
<1>2. RequestTypes
  BY Sentinels DEF Init, RequestTypes, Steps
<1>3. \A r \in Requests : Holds(r)
  BY Sentinels
     DEF Init, Holds, HoldsRole, HoldsManager, HoldsInvitee, Admitting
<1> QED
  BY <1>1, <1>2, <1>3 DEF IInv

-----------------------------------------------------------------------------
(* One request takes a step: what the others hold stays true, for users and   *)
(* members only become more, and an invitation is inserted only once.         *)

RestOfRequests(r) ==
  /\ RequestTypes'
  /\ \A q \in Requests \ {r} : rpc'[q] = rpc[q] /\ req'[q] = req[q]

Grows ==
  /\ \A p \in People : Known(p) => Known(p)'
  /\ \A t \in Teams, p \in People : IsMemberOf(p, t) => IsMemberOf(p, t)'

SentKept(S) ==
  \A i \in Invitations \ S :
    sent'[i] = sent[i] /\ (status'[i] = "unsent" <=> status[i] = "unsent")

(* The invitation a request holds is the one it held, or none.                *)
SameInvitation(r) == req'[r].inv \in {req[r].inv, Nothing}

LEMMA OthersHold ==
  ASSUME IInv, NEW r \in Requests, NEW S, RestOfRequests(r), Grows,
         SentKept(S), SameInvitation(r),
         S = {} \/ (req[r].op = "invite" /\ S = {req[r].inv}),
         NEW q \in Requests \ {r}
  PROVE  Holds(q)'
<1>1. rpc'[q] = rpc[q] /\ req'[q] = req[q] /\ Holds(q) /\ Holds(r)
  BY DEF IInv, RestOfRequests
<1>2. HoldsRole(q)'
  BY <1>1 DEF Holds, HoldsRole
<1>3. req[q].inv \notin S \/ req[q].inv \notin Invitations
  <2>1. CASE S = {}
    BY <2>1
  <2>2. CASE req[r].op = "invite" /\ S = {req[r].inv}
    BY <1>1, <2>2 DEF Holds, HoldsManager, HoldsFresh
  <2> QED
    BY <2>1, <2>2
<1>4. HoldsManager(q)'
  <2>1. ASSUME HoldsFresh(q) PROVE HoldsFresh(q)'
    <3>1. \A o \in Requests \ {q} : req'[o].inv # req[q].inv
      BY <2>1, Sentinels DEF HoldsFresh, RestOfRequests, SameInvitation
    <3>2. status'[req[q].inv] = "unsent"
      BY <1>3, <2>1 DEF HoldsFresh, SentKept
    <3> QED
      BY <1>1, <2>1, <3>1, <3>2 DEF HoldsFresh
  <2>2. req[q].inv \in Invitations /\ status[req[q].inv] # "unsent"
          => status'[req[q].inv] # "unsent"
    BY <1>3 DEF SentKept
  <2> QED
    BY <1>1, <2>1, <2>2 DEF Holds, HoldsManager
<1>5. HoldsInvitee(q)'
  <2>1. HoldsRow(req[q]) => HoldsRow(req[q])'
    BY <1>1, <1>3 DEF HoldsRow, SentKept
  <2>2. req[q].inv \in Invitations /\ status[req[q].inv] # "unsent"
          => status'[req[q].inv] # "unsent"
    BY <1>3 DEF SentKept
  <2>3. HoldsRow(req[q]) /\ Known(req[q].whom) => Known(req[q].whom)'
    BY <1>1 DEF HoldsRow, Grows, Known
  <2>4. HoldsRow(req[q]) /\ IsMemberOf(req[q].whom, req[q].team)
          => IsMemberOf(req[q].whom, req[q].team)'
    BY <1>1 DEF HoldsRow, Grows, IsMemberOf
  <2> QED
    BY <1>1, <2>1, <2>2, <2>3, <2>4
       DEF Holds, HoldsInvitee, HoldsRow, Known, IsMemberOf, Admitting
<1> QED
  BY <1>2, <1>4, <1>5 DEF Holds

(* A step that only reads.                                                   *)
LEMMA Reading ==
  ASSUME IInv, NEW r \in Requests, RestOfRequests(r), SameInvitation(r),
         UNCHANGED <<userRows, teamRows, invitationRows, history>>,
         faults' \in Nat, Holds(r)'
  PROVE  IInv'
<1>1. Grows /\ SentKept({})
  BY DEF Grows, SentKept, userRows, teamRows, invitationRows, Known, IsMemberOf
<1>2. \A q \in Requests : Holds(q)'
  <2>1. TAKE q \in Requests
  <2>2. CASE q = r
    BY <2>2
  <2>3. CASE q # r
    BY <1>1, <2>3, OthersHold
  <2> QED
    BY <2>2, <2>3
<1>3. RowsHold'
  BY DEF IInv, RowsHold, RowTypes, SentOnce, AcceptedIsMember, userRows,
         teamRows, invitationRows, history, Known, IsMemberOf
<1> QED
  BY <1>2, <1>3 DEF IInv, RestOfRequests

(* A step that writes rows.                                                  *)
LEMMA Writing ==
  ASSUME IInv, NEW r \in Requests, NEW S, RestOfRequests(r), Grows,
         SentKept(S), SameInvitation(r), RowsHold', Holds(r)',
         S = {} \/ (req[r].op = "invite" /\ S = {req[r].inv})
  PROVE  IInv'
<1>1. \A q \in Requests : Holds(q)'
  <2>1. TAKE q \in Requests
  <2>2. CASE q = r
    BY <2>2
  <2>3. CASE q # r
    BY <2>3, OthersHold
  <2> QED
    BY <2>2, <2>3
<1> QED
  BY <1>1 DEF IInv, RestOfRequests

LEMMA Answering ==
  ASSUME IInv, NEW r \in Requests, Answer(r)
  PROVE  /\ RestOfRequests(r) /\ SameInvitation(r) /\ Holds(r)'
<1>1. rpc'[r] = "idle" /\ req'[r] = NoRequest
  BY DEF Answer, IInv, RequestTypes
<1>2. RestOfRequests(r)
  BY Sentinels DEF Answer, IInv, RequestTypes, RestOfRequests, Steps
<1>3. Holds(r)'
  BY <1>1, Sentinels
     DEF Holds, HoldsRole, HoldsManager, HoldsInvitee, Admitting
<1> QED
  BY <1>1, <1>2, <1>3, Sentinels DEF SameInvitation

LEMMA Going ==
  ASSUME IInv, NEW r \in Requests, NEW step \in Steps, Goto(r, step)
  PROVE  /\ RestOfRequests(r) /\ SameInvitation(r)
         /\ rpc'[r] = step /\ req'[r] = req[r]
BY DEF Goto, IInv, RequestTypes, RestOfRequests, SameInvitation

LEMMA Outcome == ASSUME IInv, Works \/ Fails PROVE faults' \in Nat
BY DEF IInv, RowsHold, RowTypes, Works, Fails

-----------------------------------------------------------------------------
(* Requests that begin.                                                      *)

LEMMA Begun ==
  ASSUME IInv, NEW r \in Requests, NEW step \in Steps,
         NEW request \in RequestRecords, Start(r, step, request)
  PROVE  /\ RestOfRequests(r) /\ rpc'[r] = step /\ req'[r] = request
         /\ UNCHANGED <<userRows, teamRows, invitationRows>>
BY DEF Start, GotoWith, IInv, RequestTypes, RestOfRequests

LEMMA Starting ==
  ASSUME IInv, NEW r \in Requests, NEW step \in Steps,
         NEW request \in RequestRecords, Start(r, step, request), Holds(r)',
         \/ request.inv = Nothing
         \/ status[request.inv] # "unsent"
         \/ \A o \in Requests : req[o].inv # request.inv
  PROVE  IInv'
<1>1. /\ RestOfRequests(r) /\ req'[r] = request
      /\ UNCHANGED <<userRows, teamRows, invitationRows, faults>>
  BY Begun DEF Start
<1>2. raced' \in BOOLEAN /\ contended' \subseteq Teams
  <2>1. \/ contended' = contended
        \/ request.op = "setActive" /\ contended' = contended \cup {request.team}
    BY DEF Start
  <2>2. request.op = "setActive" => request.team \in Teams
    BY <1>1 DEF Holds, HoldsManager
  <2>3. raced' \in BOOLEAN
    BY DEF Start, IInv, RowsHold, RowTypes
  <2>4. contended' \subseteq Teams
    BY <2>1, <2>2 DEF IInv, RowsHold, RowTypes
  <2> QED
    BY <2>3, <2>4
<1>3. RowsHold'
  BY <1>1, <1>2
     DEF IInv, RowsHold, RowTypes, SentOnce, AcceptedIsMember, userRows,
         teamRows, invitationRows, Known, IsMemberOf
<1>4. ASSUME NEW q \in Requests \ {r} PROVE Holds(q)'
  <2>1. rpc'[q] = rpc[q] /\ req'[q] = req[q] /\ Holds(q)
    BY <1>1 DEF IInv, RestOfRequests
  <2>2. HoldsFresh(q) => HoldsFresh(q)'
    BY <1>1, <2>1, Sentinels DEF HoldsFresh, RestOfRequests, invitationRows
  <2> QED
    BY <1>1, <2>1, <2>2
       DEF Holds, HoldsRole, HoldsManager, HoldsInvitee, HoldsRow, Known,
           IsMemberOf, userRows, teamRows, invitationRows
<1> QED
  BY <1>1, <1>3, <1>4 DEF IInv, RestOfRequests

LEMMA StartStep ==
  ASSUME IInv, NEW r \in Requests,
         \/ StartSetupStatus(r)
         \/ \E i \in Invitations : StartAcceptInvitation(r, i)
         \/ \E p \in People :
              \/ StartRegister(r, p)
              \/ \E i \in Invitations : StartRevokeInvitation(r, p, i)
              \/ \E t \in Teams :
                   \/ StartCreateTeam(r, p, t)
                   \/ \E q \in People :
                        \/ \E i \in Invitations, role \in InvitedRoles :
                             StartCreateInvitation(r, p, t, i, q, role)
                        \/ \E value \in {"active", "inactive"} :
                             StartSetMemberActive(r, p, t, q, value)
  PROVE  IInv'
<1>a. {"getEnabled", "insertTeam", "access", "getInvitation"} \subseteq Steps
  BY DEF Steps
<1>1. CASE StartSetupStatus(r)
  <2> DEFINE request == [NoRequest EXCEPT !.op = "setup"]
  <2>1. /\ request \in RequestRecords /\ request.inv = Nothing
        /\ request.op = "setup"
    BY DEF RequestRecords, NoRequest
  <2>2. Start(r, "getEnabled", request)
    BY <1>1 DEF StartSetupStatus
  <2> HIDE DEF request
  <2>3. Holds(r)'
    BY <1>a, <2>1, <2>2, Begun
       DEF Holds, HoldsRole, HoldsManager, HoldsInvitee, Admitting
  <2> QED
    BY <1>a, <2>1, <2>2, <2>3, Starting
<1>2. ASSUME NEW i \in Invitations, StartAcceptInvitation(r, i) PROVE IInv'
  <2> DEFINE request == [NoRequest EXCEPT !.op = "accept", !.inv = i]
  <2>1. /\ request \in RequestRecords /\ request.inv = i
        /\ request.op = "accept" /\ status[i] # "unsent"
    BY <1>2 DEF RequestRecords, NoRequest, StartAcceptInvitation
  <2>2. Start(r, "getInvitation", request)
    BY <1>2 DEF StartAcceptInvitation
  <2> HIDE DEF request
  <2>3. Holds(r)'
    BY <1>a, <2>1, <2>2, Begun
       DEF Holds, HoldsRole, HoldsManager, HoldsInvitee, Admitting,
           invitationRows
  <2> QED
    BY <1>a, <2>1, <2>2, <2>3, Starting
<1>3. ASSUME NEW p \in People, StartRegister(r, p) PROVE IInv'
  <2> DEFINE request == [NoRequest EXCEPT !.op = "register", !.who = p]
  <2>1. /\ request \in RequestRecords /\ request.inv = Nothing
        /\ request.op = "register" /\ request.who = p
    BY DEF RequestRecords, NoRequest
  <2>2. Start(r, "getEnabled", request)
    BY <1>3 DEF StartRegister
  <2> HIDE DEF request
  <2>3. Holds(r)'
    BY <1>a, <2>1, <2>2, Begun
       DEF Holds, HoldsRole, HoldsManager, HoldsInvitee, Admitting
  <2> QED
    BY <1>a, <2>1, <2>2, <2>3, Starting
<1>4. ASSUME NEW p \in People, NEW i \in Invitations,
             StartRevokeInvitation(r, p, i)
      PROVE  IInv'
  <2> DEFINE request == [op |-> "revoke", who |-> p, whom |-> Nobody,
                         team |-> sent[i].team, inv |-> i, value |-> "none"]
  <2>1. status[i] # "unsent" /\ sent[i].team \in Teams
    BY <1>4, Sentinels
       DEF StartRevokeInvitation, IInv, RowsHold, RowTypes, SentOnce
  <2>2. /\ request \in RequestRecords /\ request.inv = i
        /\ request.op = "revoke"
    BY <2>1 DEF RequestRecords
  <2>3. Start(r, "access", request)
    BY <1>4 DEF StartRevokeInvitation
  <2> HIDE DEF request
  <2>4. Holds(r)'
    BY <1>a, <2>1, <2>2, <2>3, Begun
       DEF Holds, HoldsRole, HoldsManager, HoldsInvitee, Admitting,
           invitationRows
  <2> QED
    BY <1>a, <2>1, <2>2, <2>3, <2>4, Starting
<1>5. ASSUME NEW p \in People, NEW t \in Teams, StartCreateTeam(r, p, t)
      PROVE  IInv'
  <2> DEFINE request ==
        [NoRequest EXCEPT !.op = "createTeam", !.who = p, !.team = t]
  <2>1. /\ request \in RequestRecords /\ request.inv = Nothing
        /\ request.op = "createTeam" /\ request.who = p /\ request.team = t
    BY DEF RequestRecords, NoRequest
  <2>2. Start(r, "insertTeam", request)
    BY <1>5 DEF StartCreateTeam
  <2> HIDE DEF request
  <2>3. Holds(r)'
    BY <1>a, <2>1, <2>2, Begun
       DEF Holds, HoldsRole, HoldsManager, HoldsInvitee, Admitting
  <2> QED
    BY <1>a, <2>1, <2>2, <2>3, Starting
<1>6. ASSUME NEW p \in People, NEW t \in Teams, NEW q \in People,
             NEW i \in Invitations, NEW role \in InvitedRoles,
             StartCreateInvitation(r, p, t, i, q, role)
      PROVE  IInv'
  <2> DEFINE request == [op |-> "invite", who |-> p, whom |-> q, team |-> t,
                         inv |-> i, value |-> role]
  <2>1. /\ request \in RequestRecords /\ request.inv = i
        /\ request.op = "invite" /\ request.whom = q /\ request.team = t
        /\ request.value \in Roles
    BY AccountsAssumption DEF RequestRecords
  <2>2. /\ Start(r, "access", request) /\ status[i] = "unsent"
        /\ \A o \in Requests : req[o].inv # i
    BY <1>6 DEF StartCreateInvitation
  <2> HIDE DEF request
  <2>3. HoldsFresh(r)'
    BY <1>a, <2>1, <2>2, Begun DEF HoldsFresh, RestOfRequests, invitationRows
  <2>4. Holds(r)'
    BY <1>a, <2>1, <2>2, <2>3, Begun
       DEF Holds, HoldsRole, HoldsManager, HoldsInvitee, Admitting
  <2> QED
    BY <1>a, <2>1, <2>2, <2>4, Starting
<1>7. ASSUME NEW p \in People, NEW t \in Teams, NEW q \in People,
             NEW value \in {"active", "inactive"},
             StartSetMemberActive(r, p, t, q, value)
      PROVE  IInv'
  <2> DEFINE request == [op |-> "setActive", who |-> p, whom |-> q,
                         team |-> t, inv |-> Nothing, value |-> value]
  <2>1. /\ request \in RequestRecords /\ request.inv = Nothing
        /\ request.op = "setActive" /\ request.team = t
    BY DEF RequestRecords
  <2>2. Start(r, "access", request)
    BY <1>7 DEF StartSetMemberActive
  <2> HIDE DEF request
  <2>3. Holds(r)'
    BY <1>a, <2>1, <2>2, Begun
       DEF Holds, HoldsRole, HoldsManager, HoldsInvitee, Admitting
  <2> QED
    BY <1>a, <2>1, <2>2, <2>3, Starting
<1> QED
  BY <1>1, <1>2, <1>3, <1>4, <1>5, <1>6, <1>7

-----------------------------------------------------------------------------
(* Steps that read, and go on with the same request.                         *)

LEMMA Moving ==
  ASSUME IInv, NEW r \in Requests, NEW step \in Steps, Goto(r, step),
         UNCHANGED <<userRows, teamRows, invitationRows, history>>,
         faults' \in Nat,
         step \notin {"createUser", "insertTeam", "addOwner", "access",
                      "getInvitation"},
         step = "insertInvitation" => req[r].op = "invite",
         step = "deleteInvitation" => req[r].op = "revoke",
         step \in Admitting => HoldsRow(req[r]),
         step \in {"addMember", "isMember", "markAccepted"} =>
           Known(req[r].whom),
         step = "markAccepted" => IsMemberOf(req[r].whom, req[r].team)
  PROVE  IInv'
<1>1. /\ RestOfRequests(r) /\ SameInvitation(r) /\ Holds(r)
      /\ rpc'[r] = step /\ req'[r] = req[r]
  BY Going DEF IInv
<1>2. HoldsRole(r)'
  BY <1>1 DEF Holds, HoldsRole
<1>3. HoldsManager(r)'
  <2>1. HoldsFresh(r) => HoldsFresh(r)'
    BY <1>1 DEF HoldsFresh, RestOfRequests, invitationRows
  <2> QED
    BY <1>1, <2>1 DEF Holds, HoldsManager, invitationRows
<1>4. HoldsInvitee(r)'
  BY <1>1 DEF HoldsInvitee, HoldsRow, Known, IsMemberOf, invitationRows,
              userRows, teamRows
<1> QED
  BY <1>1, <1>2, <1>3, <1>4, Reading DEF Holds

(* Steps that end the request without having written anything.               *)
LEMMA Ending ==
  ASSUME IInv, NEW r \in Requests, Answer(r), faults' \in Nat,
         UNCHANGED <<userRows, teamRows, invitationRows, history>>
  PROVE  IInv'
BY Answering, Reading

LEMMA Inclusions ==
  Admitting \subseteq Steps /\ "closeRegistrations" \in Steps
    /\ {"hasUsers", "createUser", "addOwner"} \subseteq Steps
    /\ {"insertInvitation", "deleteInvitation", "setActive"} \subseteq Steps
BY DEF Admitting, Steps

LEMMA GetRegistrationsEnabledStep ==
  ASSUME IInv, NEW r \in Requests, GetRegistrationsEnabled(r) PROVE IInv'
<1>1. faults' \in Nat
  BY Outcome DEF GetRegistrationsEnabled
<1>2. CASE Answer(r)
  BY <1>1, <1>2, Ending DEF GetRegistrationsEnabled
<1>3. CASE Goto(r, "hasUsers")
  BY <1>1, <1>3, Inclusions, Moving DEF GetRegistrationsEnabled, Admitting
<1> QED
  BY <1>2, <1>3 DEF GetRegistrationsEnabled

LEMMA HasUsersStep ==
  ASSUME IInv, NEW r \in Requests, HasUsers(r) PROVE IInv'
<1>1. faults' \in Nat
  BY Outcome DEF HasUsers
<1>2. CASE Answer(r)
  BY <1>1, <1>2, Ending DEF HasUsers
<1>3. CASE Goto(r, "closeRegistrations")
  BY <1>1, <1>3, Inclusions, Moving DEF HasUsers, Admitting
<1>4. ASSUME NEW role \in Roles, req[r].op = "register",
             GotoWith(r, "createUser", [req[r] EXCEPT !.value = role])
      PROVE  IInv'
  <2> DEFINE new == [req[r] EXCEPT !.value = role]
  <2>1. Holds(r) /\ req[r] \in RequestRecords /\ req[r] # NoRequest
    BY <1>4, Sentinels DEF IInv, RequestTypes
  <2>2. /\ new \in RequestRecords /\ new.op = "register" /\ new.value = role
        /\ new.inv = req[r].inv /\ new.who \in People
    BY <1>4, <2>1 DEF RequestRecords, Holds, HoldsRole
  <2> HIDE DEF new
  <2>3. /\ RestOfRequests(r) /\ SameInvitation(r)
        /\ rpc'[r] = "createUser" /\ req'[r] = new
    BY <1>4, <2>2, Inclusions
       DEF new, GotoWith, IInv, RequestTypes, RestOfRequests, SameInvitation
  <2>4. Holds(r)'
    BY <2>2, <2>3
       DEF Holds, HoldsRole, HoldsManager, HoldsInvitee, Admitting
  <2> QED
    BY <1>1, <2>3, <2>4, Reading DEF HasUsers
<1> QED
  BY <1>2, <1>3, <1>4 DEF HasUsers, Roles

LEMMA TeamAccessStep ==
  ASSUME IInv, NEW r \in Requests, TeamAccess(r) PROVE IInv'
<1>1. faults' \in Nat
  BY Outcome DEF TeamAccess
<1>2. CASE Answer(r)
  BY <1>1, <1>2, Ending DEF TeamAccess
<1>3. CASE Goto(r, AfterAccess(req[r].op))
  <2>1. req[r].op \in {"invite", "revoke", "setActive"}
    BY DEF TeamAccess, At, IInv, Holds, HoldsManager
  <2>2. /\ req[r].op = "invite" => AfterAccess(req[r].op) = "insertInvitation"
        /\ req[r].op = "revoke" => AfterAccess(req[r].op) = "deleteInvitation"
        /\ req[r].op = "setActive" => AfterAccess(req[r].op) = "setActive"
    BY DEF AfterAccess
  <2> QED
    BY <1>1, <1>3, <2>1, <2>2, Inclusions, Moving DEF TeamAccess, Admitting
<1> QED
  BY <1>2, <1>3 DEF TeamAccess

LEMMA GetInvitationByTokenStep ==
  ASSUME IInv, NEW r \in Requests, GetInvitationByToken(r) PROVE IInv'
<1>1. faults' \in Nat
  BY Outcome DEF GetInvitationByToken
<1>2. CASE Answer(r)
  BY <1>1, <1>2, Ending DEF GetInvitationByToken
<1> DEFINE i == req[r].inv
           found == [req[r] EXCEPT !.whom = sent[i].email,
                                   !.team = sent[i].team,
                                   !.value = sent[i].role]
<1>3. CASE GotoWith(r, "getUser", found)
  <2>1. /\ req[r].op = "accept" /\ i \in Invitations /\ status[i] # "unsent"
        /\ req[r] \in RequestRecords /\ req[r] # NoRequest
    BY Sentinels
       DEF GetInvitationByToken, At, IInv, RequestTypes, Holds, HoldsInvitee
  <2>2. sent[i] \in SentRecords
    BY <2>1 DEF IInv, RowsHold, RowTypes, SentOnce
  <2>3. /\ found \in RequestRecords /\ found.op = "accept" /\ found.inv = i
        /\ found.whom = sent[i].email /\ found.team = sent[i].team
        /\ found.value = sent[i].role
    BY <2>1, <2>2 DEF RequestRecords, SentRecords
  <2>4. HoldsRow(found)
    BY <2>1, <2>2, <2>3 DEF HoldsRow, SentRecords
  <2>5. /\ RestOfRequests(r) /\ SameInvitation(r)
        /\ rpc'[r] = "getUser" /\ req'[r] = found
    <3> HIDE DEF found
    <3> QED
      BY <1>3, <2>3, Inclusions
         DEF Admitting, GotoWith, IInv, RequestTypes, RestOfRequests,
             SameInvitation
  <2> HIDE DEF found
  <2>6. HoldsRow(req[r])'
    BY <2>4, <2>5 DEF GetInvitationByToken, HoldsRow, invitationRows
  <2>7. Holds(r)'
    BY <2>3, <2>5, <2>6
       DEF Holds, HoldsRole, HoldsManager, HoldsInvitee
  <2> QED
    BY <1>1, <2>5, <2>7, Reading DEF GetInvitationByToken
<1> QED
  BY <1>2, <1>3 DEF GetInvitationByToken

LEMMA GetUserByEmailStep ==
  ASSUME IInv, NEW r \in Requests, GetUserByEmail(r) PROVE IInv'
<1>1. faults' \in Nat /\ HoldsRow(req[r])
  BY Outcome DEF GetUserByEmail, At, IInv, Holds, HoldsInvitee, Admitting
<1>2. CASE Answer(r)
  BY <1>1, <1>2, Ending DEF GetUserByEmail
<1>3. CASE Known(req[r].whom) /\ Goto(r, "addMember")
  BY <1>1, <1>3, Inclusions, Moving DEF GetUserByEmail, Admitting
<1>4. CASE Goto(r, "createInvitedUser")
  BY <1>1, <1>4, Inclusions, Moving DEF GetUserByEmail, Admitting
<1> QED
  BY <1>2, <1>3, <1>4 DEF GetUserByEmail

LEMMA IsMemberStep ==
  ASSUME IInv, NEW r \in Requests, IsMember(r) PROVE IInv'
<1>1. faults' \in Nat /\ HoldsRow(req[r]) /\ Known(req[r].whom)
  BY Outcome DEF IsMember, At, IInv, Holds, HoldsInvitee, Admitting
<1>2. CASE Answer(r)
  BY <1>1, <1>2, Ending DEF IsMember
<1>3. CASE IsMemberOf(req[r].whom, req[r].team) /\ Goto(r, "markAccepted")
  BY <1>1, <1>3, Inclusions, Moving DEF IsMember, Admitting
<1> QED
  BY <1>2, <1>3 DEF IsMember

-----------------------------------------------------------------------------
(* Steps that write.                                                         *)

(* Users and members that only become more leave accepted invitations right.  *)
LEMMA Growing ==
  ASSUME IInv, Grows, UNCHANGED invitationRows, RowTypes'
  PROVE  RowsHold' /\ SentKept({})
<1>1. SentOnce' /\ SentKept({})
  BY DEF IInv, RowsHold, SentOnce, SentKept, invitationRows
<1>2. ASSUME NEW i \in Invitations, status'[i] = "accepted"
      PROVE  Known(sent[i].email)' /\ IsMemberOf(sent[i].email, sent[i].team)'
  <2>1. sent[i] \in SentRecords
    BY <1>2 DEF IInv, RowsHold, RowTypes, SentOnce, invitationRows
  <2>2. sent[i].email \in People /\ sent[i].team \in Teams
    BY <2>1, Sentinels
  <2>3. Known(sent[i].email) /\ IsMemberOf(sent[i].email, sent[i].team)
    BY <1>2 DEF IInv, RowsHold, AcceptedIsMember, invitationRows
  <2>4. /\ \A p \in People : Known(p) => user'[p] # "none"
        /\ \A t \in Teams, p \in People :
             IsMemberOf(p, t) => member'[t][p] # NotMember
    BY DEF Grows, Known, IsMemberOf
  <2> QED
    BY <2>2, <2>3, <2>4 DEF Known, IsMemberOf, invitationRows
<1>3. AcceptedIsMember'
  BY <1>2 DEF AcceptedIsMember
<1> QED
  BY <1>1, <1>3 DEF RowsHold

LEMMA Joining ==
  ASSUME IInv, NEW p \in People, NEW t \in Teams, NEW role \in Roles
  PROVE  /\ Joined(p, t, role) \in [Teams -> [People -> MemberRecords]]
         /\ Joined(p, t, role)[t][p] # NotMember
         /\ \A u \in Teams, q \in People :
              member[u][q] # NotMember => Joined(p, t, role)[u][q] # NotMember
BY Sentinels DEF Joined, IInv, RowsHold, RowTypes

LEMMA CreateUserStep ==
  ASSUME IInv, NEW r \in Requests, CreateUser(r) PROVE IInv'
<1> DEFINE p == req[r].who  role == req[r].value
<1>1. /\ faults' \in Nat /\ p \in People /\ role \in Roles
      /\ req[r].op = "register" /\ Holds(r)
  BY Outcome DEF CreateUser, At, IInv, Holds, HoldsRole
<1>2. /\ UNCHANGED <<enabled, teamRows, invitationRows, history>>
      /\ \/ user' = [user EXCEPT ![p] = role] /\ ~Known(p)
         \/ user' = user
      /\ founders' \in {founders, founders \cup {p}}
      /\ Answer(r) \/ Goto(r, "closeRegistrations")
  BY DEF CreateUser
<1>3. RowTypes'
  BY <1>1, <1>2
     DEF IInv, RowsHold, RowTypes, teamRows, invitationRows, history
<1>4. Grows
  BY <1>1, <1>2
     DEF Grows, Known, IsMemberOf, teamRows, IInv, RowsHold, RowTypes, Roles
<1>5. RestOfRequests(r) /\ SameInvitation(r) /\ Holds(r)'
  <2>1. CASE Answer(r)
    BY <2>1, Answering
  <2>2. CASE Goto(r, "closeRegistrations")
    BY <1>1, <2>2, Going, Inclusions
       DEF Holds, HoldsRole, HoldsManager, HoldsInvitee, Admitting
  <2> QED
    BY <1>2, <2>1, <2>2
<1>6. RowsHold' /\ SentKept({})
  BY <1>2, <1>3, <1>4, Growing
<1> QED
  BY <1>4, <1>5, <1>6, Writing

LEMMA SetRegistrationsEnabledStep ==
  ASSUME IInv, NEW r \in Requests, SetRegistrationsEnabled(r) PROVE IInv'
<1>1. /\ faults' \in Nat /\ enabled' \in BOOLEAN /\ Answer(r)
      /\ UNCHANGED <<user, founders, teamRows, invitationRows, history>>
  BY Outcome DEF SetRegistrationsEnabled, IInv, RowsHold, RowTypes
<1>2. RowTypes' /\ Grows
  BY <1>1 DEF IInv, RowsHold, RowTypes, Grows, Known, IsMemberOf, teamRows,
              invitationRows, history
<1> QED
  BY <1>1, <1>2, Growing, Answering, Writing

LEMMA InsertTeamStep ==
  ASSUME IInv, NEW r \in Requests, InsertTeam(r) PROVE IInv'
<1>1. /\ faults' \in Nat /\ Holds(r) /\ req[r].who \in People
      /\ req[r].team \in Teams
  BY Outcome DEF InsertTeam, At, IInv, Holds, HoldsRole
<1>2. /\ teams' \subseteq Teams /\ (Answer(r) \/ Goto(r, "addOwner"))
      /\ UNCHANGED <<userRows, member, invitationRows, history>>
  BY <1>1 DEF InsertTeam, IInv, RowsHold, RowTypes
<1>3. RowTypes' /\ Grows
  BY <1>1, <1>2
     DEF IInv, RowsHold, RowTypes, Grows, Known, IsMemberOf, userRows,
         invitationRows, history
<1>4. RestOfRequests(r) /\ SameInvitation(r) /\ Holds(r)'
  <2>1. CASE Answer(r)
    BY <2>1, Answering
  <2>2. CASE Goto(r, "addOwner")
    <3>1. /\ RestOfRequests(r) /\ SameInvitation(r)
          /\ rpc'[r] = "addOwner" /\ req'[r] = req[r]
      BY <2>2, Going, Inclusions
    <3>2. HoldsFresh(r) => HoldsFresh(r)'
      BY <1>2, <3>1 DEF HoldsFresh, RestOfRequests, invitationRows
    <3> QED
      BY <1>1, <1>2, <3>1, <3>2
         DEF Holds, HoldsRole, HoldsManager, HoldsInvitee, Admitting,
             invitationRows
  <2> QED
    BY <1>2, <2>1, <2>2
<1> QED
  BY <1>2, <1>3, <1>4, Growing, Writing

LEMMA AddOwnerStep ==
  ASSUME IInv, NEW r \in Requests, AddOwner(r) PROVE IInv'
<1> DEFINE added == Joined(req[r].who, req[r].team, "owner")
<1>1. faults' \in Nat /\ req[r].who \in People /\ req[r].team \in Teams
  BY Outcome DEF AddOwner, At, IInv, Holds, HoldsRole
<1>2. /\ member' \in {member, added} /\ Answer(r)
      /\ UNCHANGED <<userRows, teams, invitationRows, history>>
  BY DEF AddOwner
<1>3. /\ added \in [Teams -> [People -> MemberRecords]]
      /\ \A u \in Teams, q \in People :
           member[u][q] # NotMember => added[u][q] # NotMember
  BY <1>1, Joining DEF Roles
<1> HIDE DEF added
<1>4. RowTypes' /\ Grows
  BY <1>1, <1>2, <1>3
     DEF IInv, RowsHold, RowTypes, Grows, Known, IsMemberOf, userRows,
         invitationRows, history
<1> QED
  BY <1>2, <1>4, Growing, Answering, Writing

LEMMA CreateInvitationStep ==
  ASSUME IInv, NEW r \in Requests, CreateInvitation(r) PROVE IInv'
<1> DEFINE i == req[r].inv
           row == [team |-> req[r].team, email |-> req[r].whom,
                   role |-> req[r].value]
<1>1. faults' \in Nat /\ HoldsFresh(r) /\ req[r].op = "invite"
  BY Outcome DEF CreateInvitation, At, IInv, Holds, HoldsManager
<1>2. /\ Answer(r) /\ UNCHANGED <<userRows, teamRows, history>>
      /\ \/ /\ sent' = [sent EXCEPT ![i] = row]
            /\ status' = [status EXCEPT ![i] = "pending"]
         \/ UNCHANGED <<sent, status>>
  BY DEF CreateInvitation
<1>3. i \in Invitations /\ row \in SentRecords /\ row # Unsent
        /\ status[i] = "unsent"
  BY <1>1, Sentinels DEF HoldsFresh, SentRecords
<1> HIDE DEF row
<1>4. RowTypes' /\ SentOnce'
  BY <1>1, <1>2, <1>3
     DEF IInv, RowsHold, RowTypes, SentOnce, userRows, teamRows, history
<1>5. AcceptedIsMember'
  <2>1. ASSUME NEW k \in Invitations, status'[k] = "accepted"
        PROVE  sent'[k] = sent[k] /\ status[k] = "accepted"
    BY <1>2, <1>3, <2>1 DEF IInv, RowsHold, RowTypes
  <2> QED
    BY <1>2, <2>1
       DEF AcceptedIsMember, IInv, RowsHold, Known, IsMemberOf, userRows,
           teamRows
<1>6. Grows /\ SentKept({i})
  BY <1>2, <1>3
     DEF Grows, SentKept, Known, IsMemberOf, userRows, teamRows, IInv,
         RowsHold, RowTypes
<1> QED
  BY <1>1, <1>2, <1>4, <1>5, <1>6, Answering, Writing DEF RowsHold

(* A change of status that is neither from nor to unsent.                     *)
LEMMA StatusStep ==
  ASSUME IInv, NEW i \in Invitations, status[i] # "unsent",
         NEW s \in {"expired", "accepted", "revoked"},
         status' \in {status, [status EXCEPT ![i] = s]},
         s = "accepted" =>
           Known(sent[i].email) /\ IsMemberOf(sent[i].email, sent[i].team),
         UNCHANGED <<userRows, teamRows, sent, history>>, faults' \in Nat
  PROVE  RowsHold' /\ Grows /\ SentKept({})
<1>1. RowTypes' /\ SentOnce' /\ Grows /\ SentKept({})
  BY DEF IInv, RowsHold, RowTypes, SentOnce, SentKept, Grows, Known,
         IsMemberOf, userRows, teamRows, history
<1>2. AcceptedIsMember'
  BY DEF IInv, RowsHold, RowTypes, AcceptedIsMember, Known, IsMemberOf,
         userRows, teamRows
<1> QED
  BY <1>1, <1>2 DEF RowsHold

LEMMA RevokeInvitationStep ==
  ASSUME IInv, NEW r \in Requests, RevokeInvitation(r) PROVE IInv'
<1>1. /\ faults' \in Nat /\ Answer(r)
      /\ req[r].inv \in Invitations /\ status[req[r].inv] # "unsent"
  BY Outcome DEF RevokeInvitation, At, IInv, Holds, HoldsManager
<1>2. RowsHold' /\ Grows /\ SentKept({})
  BY <1>1, StatusStep DEF RevokeInvitation
<1> QED
  BY <1>1, <1>2, Answering, Writing

LEMMA SetMemberActiveStep ==
  ASSUME IInv, NEW r \in Requests, SetMemberActive(r) PROVE IInv'
<1> DEFINE t == req[r].team  q == req[r].whom
           set == [member EXCEPT ![t][q].active = (req[r].value = "active")]
<1>1. /\ faults' \in Nat /\ Answer(r)
      /\ UNCHANGED <<userRows, teams, invitationRows, history>>
      /\ member' = member \/ (IsMemberOf(q, t) /\ member' = set)
  BY Outcome DEF SetMemberActive
<1>2. ASSUME IsMemberOf(q, t)
      PROVE  /\ set \in [Teams -> [People -> MemberRecords]]
             /\ \A u \in Teams, p \in People :
                  member[u][p] # NotMember => set[u][p] # NotMember
  <2>1. member \in [Teams -> [People -> MemberRecords]]
    BY DEF IInv, RowsHold, RowTypes
  <2>2. ASSUME NEW m \in MemberRecords \ {NotMember}, NEW b \in BOOLEAN
        PROVE  [m EXCEPT !.active = b] \in MemberRecords \ {NotMember}
    BY DEF MemberRecords, NotMember, Roles
  <2>3. CASE t \in Teams /\ q \in People
    <3> DEFINE new == [member[t][q] EXCEPT !.active = (req[r].value = "active")]
    <3>1. new \in MemberRecords \ {NotMember}
      <4>1. member[t][q] \in MemberRecords \ {NotMember}
        BY <1>2, <2>1, <2>3 DEF IsMemberOf
      <4>2. (req[r].value = "active") \in BOOLEAN
        OBVIOUS
      <4> QED
        BY <2>2, <4>1, <4>2
    <3>2. set = [member EXCEPT ![t] = [member[t] EXCEPT ![q] = new]]
      BY <2>1, <2>3
    <3> HIDE DEF new, set
    <3> QED
      BY <2>1, <2>3, <3>1, <3>2
  <2>4. CASE t \notin Teams \/ q \notin People
    BY <2>1, <2>4
  <2> QED
    BY <2>3, <2>4
<1> HIDE DEF set
<1>3. RowTypes' /\ Grows
  BY <1>1, <1>2
     DEF IInv, RowsHold, RowTypes, Grows, Known, IsMemberOf, userRows,
         invitationRows, history
<1> QED
  BY <1>1, <1>3, Growing, Answering, Writing

LEMMA CreateInvitedUserStep ==
  ASSUME IInv, NEW r \in Requests, CreateInvitedUser(r) PROVE IInv'
<1> DEFINE p == req[r].whom
<1>1. /\ faults' \in Nat /\ HoldsRow(req[r]) /\ Holds(r)
      /\ p \in People /\ req[r].value \in Roles
  BY Outcome
     DEF CreateInvitedUser, At, IInv, Holds, HoldsInvitee, HoldsRow, Admitting
<1>2. /\ UNCHANGED <<enabled, founders, teamRows, invitationRows, history>>
      /\ \/ user' = [user EXCEPT ![p] = req[r].value] /\ ~Known(p)
         \/ user' = user
      /\ \/ Answer(r)
         \/ Goto(r, "addMember") /\ user' = [user EXCEPT ![p] = req[r].value]
  BY DEF CreateInvitedUser
<1>3. RowTypes' /\ Grows
  BY <1>1, <1>2
     DEF IInv, RowsHold, RowTypes, Grows, Known, IsMemberOf, Roles, teamRows,
         invitationRows, history
<1>4. RestOfRequests(r) /\ SameInvitation(r) /\ Holds(r)'
  <2>1. CASE Answer(r)
    BY <2>1, Answering
  <2>2. CASE Goto(r, "addMember") /\ user' = [user EXCEPT ![p] = req[r].value]
    <3>1. /\ RestOfRequests(r) /\ SameInvitation(r)
          /\ rpc'[r] = "addMember" /\ req'[r] = req[r]
      BY <2>2, Going, Inclusions DEF Admitting
    <3>2. user'[p] # "none"
      BY <1>1, <2>2 DEF IInv, RowsHold, RowTypes, Roles
    <3>3. HoldsRow(req[r])'
      BY <1>1, <1>2, <3>1 DEF HoldsRow, invitationRows
    <3> QED
      BY <1>1, <3>1, <3>2, <3>3
         DEF Holds, HoldsRole, HoldsManager, HoldsInvitee, HoldsRow, Known
  <2> QED
    BY <1>2, <2>1, <2>2
<1> QED
  BY <1>2, <1>3, <1>4, Growing, Writing

LEMMA AddMemberStep ==
  ASSUME IInv, NEW r \in Requests, AddMember(r) PROVE IInv'
<1> DEFINE p == req[r].whom  t == req[r].team
           added == Joined(p, t, req[r].value)
<1>1. /\ faults' \in Nat /\ HoldsRow(req[r]) /\ Holds(r) /\ Known(p)
      /\ p \in People /\ t \in Teams /\ req[r].value \in Roles
  BY Outcome DEF AddMember, At, IInv, Holds, HoldsInvitee, HoldsRow, Admitting
<1>2. /\ UNCHANGED <<userRows, teams, invitationRows, history>>
      /\ member' \in {member, added}
      /\ \/ Goto(r, "markAccepted") /\ member' = added
         \/ Goto(r, "isMember")
  BY DEF AddMember
<1>3. /\ added \in [Teams -> [People -> MemberRecords]]
      /\ added[t][p] # NotMember
      /\ \A u \in Teams, q \in People :
           member[u][q] # NotMember => added[u][q] # NotMember
  BY <1>1, Joining
<1> HIDE DEF added
<1>4. RowTypes' /\ Grows
  BY <1>1, <1>2, <1>3
     DEF IInv, RowsHold, RowTypes, Grows, Known, IsMemberOf, userRows,
         invitationRows, history
<1>5. ASSUME NEW step \in {"markAccepted", "isMember"}, Goto(r, step),
             step = "markAccepted" => member' = added
      PROVE  RestOfRequests(r) /\ SameInvitation(r) /\ Holds(r)'
  <2>1. /\ RestOfRequests(r) /\ SameInvitation(r)
        /\ rpc'[r] = step /\ req'[r] = req[r]
    BY <1>5, Going, Inclusions DEF Admitting
  <2>2. HoldsRow(req[r])' /\ Known(req[r].whom)'
    BY <1>1, <1>2, <2>1 DEF HoldsRow, Known, invitationRows, userRows
  <2> QED
    BY <1>1, <1>3, <1>5, <2>1, <2>2
       DEF Holds, HoldsRole, HoldsManager, HoldsInvitee, HoldsRow, IsMemberOf
<1> QED
  BY <1>2, <1>4, <1>5, Growing, Writing

LEMMA MarkAcceptedStep ==
  ASSUME IInv, NEW r \in Requests, MarkAccepted(r) PROVE IInv'
<1> DEFINE i == req[r].inv
<1>1. /\ faults' \in Nat /\ Answer(r) /\ HoldsRow(req[r])
      /\ Known(req[r].whom) /\ IsMemberOf(req[r].whom, req[r].team)
  BY Outcome DEF MarkAccepted, At, IInv, Holds, HoldsInvitee, Admitting
<1>2. /\ i \in Invitations /\ sent[i].email = req[r].whom
      /\ sent[i].team = req[r].team /\ sent[i] # Unsent
  BY <1>1, Sentinels DEF HoldsRow, Unsent
<1>3. status[i] # "unsent"
  BY <1>2 DEF IInv, RowsHold, SentOnce
<1>4. /\ status' \in {status, [status EXCEPT ![i] = "accepted"]}
      /\ UNCHANGED <<userRows, teamRows, sent, history>>
  BY DEF MarkAccepted
<1>5. RowsHold' /\ Grows /\ SentKept({})
  BY <1>1, <1>2, <1>3, <1>4, StatusStep
<1> QED
  BY <1>1, <1>5, Answering, Writing

LEMMA ExpireStep ==
  ASSUME IInv, NEW i \in Invitations, Expire(i) PROVE IInv'
<1>1. RowsHold' /\ Grows /\ SentKept({})
  BY StatusStep DEF Expire, IInv, RowsHold, RowTypes
<1>2. ASSUME NEW r \in Requests PROVE Holds(r)'
  <2>1. Holds(r) /\ rpc' = rpc /\ req' = req /\ UNCHANGED <<userRows, teamRows>>
    BY DEF IInv, Expire, requestVars
  <2>2. \A k \in Invitations :
          sent'[k] = sent[k] /\ (status'[k] = "unsent" <=> status[k] = "unsent")
    BY <1>1 DEF SentKept
  <2> QED
    BY <2>1, <2>2
       DEF Holds, HoldsRole, HoldsManager, HoldsInvitee, HoldsFresh, HoldsRow,
           Known, IsMemberOf, userRows, teamRows
<1> QED
  BY <1>1, <1>2 DEF Expire, IInv, RequestTypes, requestVars

-----------------------------------------------------------------------------
LEMMA Invariance == Spec => []IInv
<1>1. IInv /\ [Next]_vars => IInv'
  <2> SUFFICES ASSUME IInv, [Next]_vars PROVE IInv'
    OBVIOUS
  <2>1. ASSUME NEW i \in Invitations, Expire(i) PROVE IInv'
    BY <2>1, ExpireStep
  <2>2. ASSUME NEW r \in Requests, RequestStep(r) PROVE IInv'
    <3>1. CASE Register(r)
      BY <3>1, GetRegistrationsEnabledStep, HasUsersStep, CreateUserStep,
         SetRegistrationsEnabledStep DEF Register
    <3>2. CASE CreateTeam(r)
      BY <3>2, InsertTeamStep, AddOwnerStep DEF CreateTeam
    <3>3. CASE ManageTeam(r)
      BY <3>3, TeamAccessStep, CreateInvitationStep, RevokeInvitationStep,
         SetMemberActiveStep DEF ManageTeam
    <3>4. CASE AcceptInvitation(r)
      BY <3>4, GetInvitationByTokenStep, GetUserByEmailStep,
         CreateInvitedUserStep, AddMemberStep, IsMemberStep, MarkAcceptedStep
         DEF AcceptInvitation
    <3> QED
      BY <2>2, <3>1, <3>2, <3>3, <3>4 DEF RequestStep
  <2>3. CASE UNCHANGED vars
    <3>1. /\ rpc' = rpc /\ req' = req /\ faults' = faults
          /\ UNCHANGED <<userRows, teamRows, invitationRows, history>>
      BY <2>3 DEF vars, requestVars
    <3>2. RowsHold' /\ RequestTypes'
      BY <3>1 DEF IInv, RowsHold, RowTypes, SentOnce, AcceptedIsMember,
                  RequestTypes, Known, IsMemberOf, userRows, teamRows,
                  invitationRows, history
    <3>3. ASSUME NEW r \in Requests PROVE Holds(r)'
      BY <3>1 DEF IInv, Holds, HoldsRole, HoldsManager, HoldsInvitee,
                  HoldsFresh, HoldsRow, Known, IsMemberOf, userRows, teamRows,
                  invitationRows
    <3> QED
      BY <3>2, <3>3 DEF IInv
  <2> QED
    BY <2>1, <2>2, <2>3, StartStep DEF Next
<1> QED
  BY InitInv, <1>1, PTL DEF Spec

(* Every variable keeps its type, and a user or a member is never created     *)
(* without a role.                                                           *)
THEOREM TypeCorrect == Spec => []TypeOK
BY Invariance, TypesFollow, PTL

(* However requests overlap and whichever statements fail, an invitation that *)
(* is marked as accepted has its user and its membership.                    *)
THEOREM AcceptedIsMemberHolds == Spec => []AcceptedIsMember
<1>1. IInv => AcceptedIsMember
  BY DEF IInv, RowsHold
<1> QED
  BY Invariance, <1>1, PTL

-----------------------------------------------------------------------------
(***************************************************************************)
(* Who belongs to what, for any number of people, teams, invitations,      *)
(* requests and failures: whoever belongs to a team was invited to it, but *)
(* for its founder; registration makes one founder of the instance; and    *)
(* somebody manages every team.                                            *)
(***************************************************************************)

Uninvited(p, t) == IsMemberOf(p, t) /\ ~Invited(p, t)

(* The request that is creating the team.                                  *)
Founding(r, t) == req[r].op = "createTeam" /\ req[r].team = t
Founders == {"insertTeam", "addOwner"}

OneUninvited ==
  \A t \in Teams :
    /\ \A p, q \in People : Uninvited(p, t) /\ Uninvited(q, t) => p = q
    /\ \A p \in People :
         Uninvited(p, t) => member[t][p].role = "owner" /\ t \in teams

(* While a team is being created, by one request, its owner is to come.    *)
OwnerToCome ==
  \A t \in Teams, r \in Requests : Founding(r, t) =>
    /\ \A p \in People : ~Uninvited(p, t)
    /\ rpc[r] = "addOwner" => t \in teams
    /\ \A q \in Requests : Founding(q, t) => q = r

FoundersFound == \A r \in Requests : rpc[r] \in Founders => req[r].op = "createTeam"

MInv == OneUninvited /\ OwnerToCome /\ FoundersFound

-----------------------------------------------------------------------------
LEMMA MembersFollow == MInv => MembersAreInvited
<1> SUFFICES ASSUME MInv, NEW t \in Teams
             PROVE  LET U == {p \in People : IsMemberOf(p, t) /\ ~Invited(p, t)}
                    IN  /\ Cardinality(U) <= 1
                        /\ \A p \in U : member[t][p].role = "owner"
  BY DEF MembersAreInvited
<1> DEFINE U == {p \in People : IsMemberOf(p, t) /\ ~Invited(p, t)}
<1>1. /\ \A p, q \in U : p = q
      /\ \A p \in U : member[t][p].role = "owner"
  BY DEF MInv, OneUninvited, Uninvited
<1>2. Cardinality(U) <= 1
  <2>1. CASE U = {}
    BY <2>1, FS_EmptySet
  <2>2. CASE U # {}
    <3>1. PICK p \in U : U = {p}
      BY <1>1, <2>2
    <3>2. Cardinality({p}) = 1
      BY FS_Singleton
    <3> QED
      BY <3>1, <3>2
  <2> QED
    BY <2>1, <2>2
<1> QED
  BY <1>1, <1>2

LEMMA InitMembers == Init => MInv
BY Sentinels DEF Init, MInv, OneUninvited, OwnerToCome, FoundersFound, Founding,
   Founders, Uninvited, IsMemberOf

-----------------------------------------------------------------------------
(* Nobody loses an invitation or gets another role, and who joins had one. *)
Kept ==
  \A t \in Teams, p \in People : Uninvited(p, t)' =>
    Uninvited(p, t) /\ member'[t][p].role = member[t][p].role

(* The request does not begin to create a team.                            *)
Quiet(r) ==
  /\ \A q \in Requests \ {r} : rpc'[q] = rpc[q] /\ req'[q] = req[q]
  /\ rpc'[r] \notin Founders
  /\ req'[r] = req[r] \/ req'[r].op # "createTeam"

LEMMA RowsKeep ==
  ASSUME UNCHANGED <<member, sent>> PROVE Kept
BY DEF Kept, Uninvited, IsMemberOf, Invited

LEMMA QuietKeeps ==
  ASSUME MInv, NEW r \in Requests, Quiet(r), Kept, teams' = teams
  PROVE  MInv'
<1>1. OneUninvited'
  BY DEF MInv, OneUninvited, Kept
<1>2. \A q \in Requests, t \in Teams : Founding(q, t)' => Founding(q, t)
  BY DEF Founding, Quiet
<1>3. \A q \in Requests : rpc'[q] = "addOwner" => rpc[q] = "addOwner"
  BY DEF Quiet, Founders
<1>4. OwnerToCome'
  BY <1>2, <1>3 DEF MInv, OwnerToCome, Kept
<1>5. FoundersFound'
  BY DEF MInv, FoundersFound, Quiet
<1> QED
  BY <1>1, <1>4, <1>5 DEF MInv

LEMMA AnswersAreQuiet ==
  ASSUME IInv, NEW r \in Requests, Answer(r) PROVE Quiet(r)
BY DEF Answer, Quiet, Founders, NoRequest, IInv, RequestTypes

LEMMA GoingIsQuiet ==
  ASSUME IInv, NEW r \in Requests, NEW step, step \notin Founders, Goto(r, step)
  PROVE  Quiet(r)
BY DEF Goto, Quiet, IInv, RequestTypes

LEMMA GoingWithIsQuiet ==
  ASSUME IInv, NEW r \in Requests, NEW step, step \notin Founders, NEW request,
         request.op # "createTeam", GotoWith(r, step, request)
  PROVE  Quiet(r)
BY DEF GotoWith, Quiet, IInv, RequestTypes

-----------------------------------------------------------------------------
(* Requests that neither join anybody nor send an invitation.              *)
LEMMA RegisterKeeps ==
  ASSUME IInv, MInv, NEW r \in Requests, Register(r) PROVE MInv'
<1>1. UNCHANGED <<teams, member, sent>>
  BY DEF Register, GetRegistrationsEnabled, HasUsers, CreateUser,
     SetRegistrationsEnabled, teamRows, invitationRows
<1>2. Quiet(r)
  <2>1. CASE HasUsers(r)
    <3>1. \A role : req[r].op = "register" =>
            [req[r] EXCEPT !.value = role].op # "createTeam"
      BY DEF IInv, RequestTypes, RequestRecords, NoRequest
    <3> QED
      BY <2>1, <3>1, AnswersAreQuiet, GoingIsQuiet, GoingWithIsQuiet
      DEF HasUsers, Founders
  <2>2. CASE GetRegistrationsEnabled(r) \/ CreateUser(r)
               \/ SetRegistrationsEnabled(r)
    BY <2>2, AnswersAreQuiet, GoingIsQuiet
    DEF GetRegistrationsEnabled, CreateUser, SetRegistrationsEnabled, Founders
  <2> QED
    BY <2>1, <2>2 DEF Register
<1> QED
  BY <1>1, <1>2, RowsKeep, QuietKeeps

(* An invitation is sent for a row that was empty.                         *)
LEMMA ManagingKeeps ==
  ASSUME IInv, MInv, NEW r \in Requests, ManageTeam(r) PROVE MInv'
<1>1. CASE TeamAccess(r)
  <2>1. AfterAccess(req[r].op) \notin Founders
    BY <1>1 DEF TeamAccess, At, IInv, Holds, HoldsManager, AfterAccess, Founders
  <2>2. UNCHANGED <<teams, member, sent>>
    BY <1>1 DEF TeamAccess, teamRows, invitationRows
  <2>3. Quiet(r)
    BY <1>1, <2>1, AnswersAreQuiet, GoingIsQuiet DEF TeamAccess
  <2> QED
    BY <2>2, <2>3, RowsKeep, QuietKeeps
<1>2. CASE RevokeInvitation(r)
  <2>1. UNCHANGED <<teams, member, sent>>
    BY <1>2 DEF RevokeInvitation, teamRows
  <2>2. Quiet(r)
    BY <1>2, AnswersAreQuiet DEF RevokeInvitation
  <2> QED
    BY <2>1, <2>2, RowsKeep, QuietKeeps
<1>3. CASE CreateInvitation(r)
  <2> DEFINE i == req[r].inv
  <2>1. UNCHANGED <<teams, member>> /\ Quiet(r)
    BY <1>3, AnswersAreQuiet DEF CreateInvitation, teamRows
  <2>2. i \in Invitations /\ sent[i] = Unsent
    BY <1>3 DEF CreateInvitation, At, IInv, Holds, HoldsManager, HoldsFresh,
       RowsHold, SentOnce
  <2>3. \A k \in Invitations : sent[k] # Unsent => sent'[k] = sent[k]
    BY <1>3, <2>2 DEF CreateInvitation, IInv, RowsHold, RowTypes
  <2>4. ASSUME NEW t \in Teams, NEW p \in People, Invited(p, t)
        PROVE  Invited(p, t)'
    <3>1. PICK k \in Invitations :
            sent[k] = [team |-> t, email |-> p, role |-> member[t][p].role]
      BY <2>4 DEF Invited
    <3>2. sent[k] # Unsent
      BY <3>1, AccountsAssumption DEF Unsent
    <3> QED
      BY <2>1, <2>3, <3>1, <3>2 DEF Invited
  <2>5. Kept
    BY <2>1, <2>4 DEF Kept, Uninvited, IsMemberOf
  <2> QED
    BY <2>1, <2>5, QuietKeeps
<1>4. CASE SetMemberActive(r)
  <2> DEFINE t == req[r].team  q == req[r].whom
             set == [member EXCEPT ![t][q].active = (req[r].value = "active")]
  <2>1. UNCHANGED <<teams, sent>> /\ Quiet(r)
    BY <1>4, AnswersAreQuiet DEF SetMemberActive, invitationRows
  <2>2. member' = member \/ (IsMemberOf(q, t) /\ member' = set)
    BY <1>4 DEF SetMemberActive
  <2>3. member \in [Teams -> [People -> MemberRecords]]
    BY DEF IInv, RowsHold, RowTypes
  <2>4. ASSUME NEW u \in Teams, NEW p \in People
        PROVE  /\ member'[u][p].role = member[u][p].role
               /\ member'[u][p] # NotMember => member[u][p] # NotMember
    <3>1. CASE member' = member
      BY <3>1
    <3>2. CASE IsMemberOf(q, t) /\ member' = set
      <4>1. CASE u = t /\ p = q
        <5>1. member[u][p] \in MemberRecords
          BY <2>3
        <5>2. member'[u][p] = [member[u][p] EXCEPT !.active = (req[r].value = "active")]
          BY <2>3, <3>2, <4>1
        <5>3. \A m \in MemberRecords : \A b : [m EXCEPT !.active = b].role = m.role
          BY DEF MemberRecords, NotMember
        <5>4. member'[u][p].role = member[u][p].role
          BY <5>1, <5>2, <5>3
        <5> QED
          BY <3>2, <4>1, <5>4 DEF IsMemberOf
      <4>2. CASE ~(u = t /\ p = q)
        <5>1. member'[u][p] = member[u][p]
          BY <2>3, <3>2, <4>2
        <5> QED
          BY <5>1
      <4> QED
        BY <4>1, <4>2
    <3> QED
      BY <2>2, <3>1, <3>2
  <2> HIDE DEF set
  <2>5. Kept
    BY <2>1, <2>4 DEF Kept, Uninvited, IsMemberOf, Invited
  <2> QED
    BY <2>1, <2>5, QuietKeeps
<1> QED
  BY <1>1, <1>2, <1>3, <1>4 DEF ManageTeam

(* Who accepts an invitation joins with the role it gives.                 *)
LEMMA AcceptingKeeps ==
  ASSUME IInv, MInv, NEW r \in Requests, AcceptInvitation(r) PROVE MInv'
<1>1. CASE ~AddMember(r)
  <2>1. UNCHANGED <<teams, member, sent>>
    BY <1>1 DEF AcceptInvitation, GetInvitationByToken, GetUserByEmail,
       CreateInvitedUser, IsMember, MarkAccepted, teamRows, invitationRows
  <2>2. Quiet(r)
    <3>1. CASE GetInvitationByToken(r)
      <4>1. req[r].op = "accept"
        BY <3>1 DEF GetInvitationByToken, At, IInv, Holds, HoldsInvitee
      <4>2. \A a, b, c : [req[r] EXCEPT !.whom = a, !.team = b, !.value = c].op
                           # "createTeam"
        BY <4>1 DEF IInv, RequestTypes, RequestRecords, NoRequest
      <4> QED
        BY <3>1, <4>2, AnswersAreQuiet, GoingWithIsQuiet
        DEF GetInvitationByToken, Founders
    <3>2. CASE GetUserByEmail(r) \/ CreateInvitedUser(r) \/ IsMember(r)
                 \/ MarkAccepted(r)
      BY <3>2, AnswersAreQuiet, GoingIsQuiet
      DEF GetUserByEmail, CreateInvitedUser, IsMember, MarkAccepted, Founders
    <3> QED
      BY <1>1, <3>1, <3>2 DEF AcceptInvitation
  <2> QED
    BY <2>1, <2>2, RowsKeep, QuietKeeps
<1>2. CASE AddMember(r)
  <2> PICK p, t, value :
        p = req[r].whom /\ t = req[r].team /\ value = req[r].value
    OBVIOUS
  <2>1. UNCHANGED <<teams, sent>> /\ Quiet(r)
    BY <1>2, GoingIsQuiet DEF AddMember, invitationRows, Founders
  <2>2. /\ req[r].inv \in Invitations /\ p \in People /\ t \in Teams
        /\ sent[req[r].inv] = [team |-> t, email |-> p, role |-> value]
    BY <1>2 DEF AddMember, At, IInv, Holds, HoldsInvitee, HoldsRow, Admitting
  <2>3. member' = member \/ member' = Joined(p, t, value)
    BY <1>2 DEF AddMember
  <2>4. CASE member' = member
    BY <2>1, <2>4, RowsKeep, QuietKeeps
  <2>5. CASE member' = Joined(p, t, value)
    <3>1. /\ member'[t][p] = [role |-> value, active |-> TRUE]
          /\ \A u \in Teams, q \in People :
               ~(u = t /\ q = p) => member'[u][q] = member[u][q]
      BY <2>2, <2>5 DEF Joined, IInv, RowsHold, RowTypes
    <3>2. Invited(p, t)'
      BY <2>1, <2>2, <3>1 DEF Invited
    <3>3. Kept
      BY <2>1, <3>1, <3>2 DEF Kept, Uninvited, IsMemberOf, Invited
    <3> QED
      BY <2>1, <3>3, QuietKeeps
  <2> QED
    BY <2>3, <2>4, <2>5
<1> QED
  BY <1>1, <1>2

-----------------------------------------------------------------------------
(* The founder joins uninvited, alone, and the request is over.            *)
LEMMA FoundingKeeps ==
  ASSUME IInv, MInv, NEW r \in Requests, CreateTeam(r) PROVE MInv'
<1> DEFINE t == req[r].team  p == req[r].who
<1>1. CASE InsertTeam(r) /\ Answer(r)
  <2>1. teams \subseteq teams' /\ UNCHANGED <<member, sent>> /\ Quiet(r)
    BY <1>1, AnswersAreQuiet DEF InsertTeam, invitationRows
  <2>2. \A q \in Requests, u \in Teams : Founding(q, u)' => Founding(q, u)
    BY <2>1 DEF Founding, Quiet
  <2>3. \A q \in Requests : rpc'[q] = "addOwner" => rpc[q] = "addOwner"
    BY <2>1 DEF Quiet, Founders
  <2>4. \A u \in Teams, q \in People : Uninvited(q, u)' <=> Uninvited(q, u)
    BY <2>1 DEF Uninvited, IsMemberOf, Invited
  <2>5. OneUninvited'
    BY <2>1, <2>4 DEF MInv, OneUninvited
  <2>6. OwnerToCome'
    BY <2>1, <2>2, <2>3, <2>4 DEF MInv, OwnerToCome
  <2>7. FoundersFound'
    BY <2>1 DEF MInv, FoundersFound, Quiet
  <2> QED
    BY <2>5, <2>6, <2>7 DEF MInv
<1>2. CASE InsertTeam(r) /\ ~Answer(r)
  <2>1. /\ teams' = teams \cup {t} /\ UNCHANGED <<member, sent>>
        /\ Goto(r, "addOwner")
    BY <1>2 DEF InsertTeam, invitationRows
  <2>2. /\ req' = req /\ \A q \in Requests \ {r} : rpc'[q] = rpc[q]
    BY <2>1 DEF Goto, IInv, RequestTypes
  <2>3. \A u \in Teams, q \in People : Uninvited(q, u)' <=> Uninvited(q, u)
    BY <2>1 DEF Uninvited, IsMemberOf, Invited
  <2>4. OneUninvited'
    BY <2>1, <2>3 DEF MInv, OneUninvited
  <2>5. OwnerToCome'
    BY <2>1, <2>2, <2>3 DEF MInv, OwnerToCome, Founding
  <2>6. req[r].op = "createTeam"
    BY <1>2 DEF InsertTeam, At, MInv, FoundersFound, Founders
  <2>7. FoundersFound'
    BY <2>2, <2>6 DEF MInv, FoundersFound
  <2> QED
    BY <2>4, <2>5, <2>7 DEF MInv
<1>3. CASE AddOwner(r)
  <2>1. /\ UNCHANGED <<teams, sent>> /\ Quiet(r) /\ Answer(r)
        /\ member' = member \/ member' = Joined(p, t, "owner")
    BY <1>3, AnswersAreQuiet DEF AddOwner, invitationRows
  <2>2. CASE member' = member
    BY <2>1, <2>2, RowsKeep, QuietKeeps
  <2>3. CASE member' = Joined(p, t, "owner")
    <3>1. /\ p \in People /\ t \in Teams /\ Founding(r, t) /\ rpc[r] = "addOwner"
      BY <1>3 DEF AddOwner, At, IInv, Holds, HoldsRole, MInv, FoundersFound,
         Founders, Founding
    <3>2. /\ t \in teams /\ \A q \in People : ~Uninvited(q, t)
          /\ \A q \in Requests : Founding(q, t) => q = r
      BY <3>1 DEF MInv, OwnerToCome
    <3>3. /\ member'[t][p].role = "owner"
          /\ \A u \in Teams, q \in People :
               ~(u = t /\ q = p) => member'[u][q] = member[u][q]
      BY <2>3, <3>1 DEF Joined, IInv, RowsHold, RowTypes
    <3>4. \A u \in Teams, q \in People :
            ~(u = t /\ q = p) => (Uninvited(q, u)' <=> Uninvited(q, u))
      BY <2>1, <3>3 DEF Uninvited, IsMemberOf, Invited
    <3>5. OneUninvited'
      BY <2>1, <3>2, <3>3, <3>4 DEF MInv, OneUninvited
    <3>6. /\ req'[r] = NoRequest /\ rpc'[r] = "idle"
          /\ \A q \in Requests \ {r} : rpc'[q] = rpc[q] /\ req'[q] = req[q]
      BY <2>1 DEF Answer, IInv, RequestTypes
    <3>7. \A q \in Requests, u \in Teams :
            Founding(q, u)' => Founding(q, u) /\ q # r /\ u # t
      BY <3>2, <3>6 DEF Founding, NoRequest
    <3>8. OwnerToCome'
      BY <2>1, <3>4, <3>6, <3>7 DEF MInv, OwnerToCome
    <3>9. FoundersFound'
      BY <3>6 DEF MInv, FoundersFound, Founders
    <3> QED
      BY <3>5, <3>8, <3>9 DEF MInv
  <2> QED
    BY <2>1, <2>2, <2>3
<1> QED
  BY <1>1, <1>2, <1>3 DEF CreateTeam

(* A team is created by one request, and is empty before.                  *)
LEMMA StartCreateTeamKeeps ==
  ASSUME IInv, MInv, NEW r \in Requests, NEW p \in People, NEW t \in Teams,
         StartCreateTeam(r, p, t)
  PROVE  MInv'
<1> DEFINE request == [NoRequest EXCEPT !.op = "createTeam", !.who = p, !.team = t]
<1>1. /\ UNCHANGED <<teams, member, sent>>
      /\ GotoWith(r, "insertTeam", request)
      /\ t \notin teams /\ \A q \in Requests : req[q].team # t
  BY DEF StartCreateTeam, Start, teamRows, invitationRows
<1>2. /\ rpc'[r] = "insertTeam" /\ req'[r] = request
      /\ \A q \in Requests \ {r} : rpc'[q] = rpc[q] /\ req'[q] = req[q]
  BY <1>1 DEF GotoWith, IInv, RequestTypes
<1>3. request.op = "createTeam" /\ request.team = t
  BY DEF NoRequest
<1> HIDE DEF request
<1>4. \A u \in Teams, q \in People : Uninvited(q, u)' <=> Uninvited(q, u)
  BY <1>1 DEF Uninvited, IsMemberOf, Invited
<1>5. OneUninvited'
  BY <1>1, <1>4 DEF MInv, OneUninvited
<1>6. \A q \in People : ~Uninvited(q, t)
  BY <1>1 DEF MInv, OneUninvited
<1>7. /\ Founding(r, t)' /\ \A u \in Teams : Founding(r, u)' => u = t
      /\ \A q \in Requests \ {r}, u \in Teams :
           Founding(q, u)' <=> Founding(q, u)
      /\ \A q \in Requests : ~Founding(q, t)
  BY <1>1, <1>2, <1>3 DEF Founding
<1>8. OwnerToCome'
  BY <1>1, <1>2, <1>4, <1>6, <1>7 DEF MInv, OwnerToCome
<1>9. FoundersFound'
  BY <1>2, <1>3 DEF MInv, FoundersFound
<1> QED
  BY <1>5, <1>8, <1>9 DEF MInv

LEMMA BeginningKeeps ==
  ASSUME IInv, MInv, NEW r \in Requests, NEW step, step \notin Founders,
         NEW request, request.op # "createTeam", Start(r, step, request)
  PROVE  MInv'
<1>1. UNCHANGED <<teams, member, sent>> /\ Quiet(r)
  BY GoingWithIsQuiet DEF Start, teamRows, invitationRows
<1> QED
  BY <1>1, RowsKeep, QuietKeeps

LEMMA StartsKeep ==
  ASSUME IInv, MInv, NEW r \in Requests,
         \/ StartSetupStatus(r)
         \/ \E i \in Invitations : StartAcceptInvitation(r, i)
         \/ \E p \in People :
              \/ StartRegister(r, p)
              \/ \E i \in Invitations : StartRevokeInvitation(r, p, i)
              \/ \E t \in Teams, q \in People :
                   \/ \E i \in Invitations, role \in InvitedRoles :
                        StartCreateInvitation(r, p, t, i, q, role)
                   \/ \E value \in {"active", "inactive"} :
                        StartSetMemberActive(r, p, t, q, value)
  PROVE  MInv'
<1>1. PICK step \in {"getEnabled", "access", "getInvitation"} :
        \E request : request.op # "createTeam" /\ Start(r, step, request)
  BY DEF StartSetupStatus, StartAcceptInvitation, StartRegister,
     StartRevokeInvitation, StartCreateInvitation, StartSetMemberActive,
     NoRequest
<1> QED
  BY <1>1, BeginningKeeps DEF Founders

-----------------------------------------------------------------------------
(* Members of a team were invited to it with the role they have, but for   *)
(* one owner, the one who created it.                                      *)
THEOREM MembersAreInvitedHolds == Spec => []MembersAreInvited
<1>1. IInv /\ MInv /\ [Next]_vars => MInv'
  <2> SUFFICES ASSUME IInv, MInv, [Next]_vars PROVE MInv'
    OBVIOUS
  <2>1. ASSUME UNCHANGED <<teams, member, sent, rpc, req>> PROVE MInv'
    BY <2>1 DEF MInv, OneUninvited, OwnerToCome, FoundersFound, Founding,
       Uninvited, IsMemberOf, Invited
  <2>2. CASE UNCHANGED vars \/ \E i \in Invitations : Expire(i)
    BY <2>1, <2>2 DEF vars, Expire, teamRows, invitationRows, requestVars
  <2>3. ASSUME NEW r \in Requests, RequestStep(r) PROVE MInv'
    BY <2>3, RegisterKeeps, FoundingKeeps, ManagingKeeps, AcceptingKeeps
    DEF RequestStep
  <2>4. ASSUME NEW r \in Requests, NEW p \in People, NEW t \in Teams,
               StartCreateTeam(r, p, t)
        PROVE  MInv'
    BY <2>4, StartCreateTeamKeeps
  <2> QED
    BY <2>2, <2>3, <2>4, StartsKeep DEF Next
<1> QED
  BY InitMembers, Invariance, MembersFollow, <1>1, PTL DEF Spec

-----------------------------------------------------------------------------
(* One founder.  Unless two registrations have overlapped, only one runs, and *)
(* while it is about to create an owner there is none: it found no user, and  *)
(* founders are users for good.                                              *)
Registering(r) == req[r].op = "register"

FoundersAreUsers == \A p \in founders : Known(p)

OneRegisters == \A r, q \in Requests : Registering(r) /\ Registering(q) => r = q

OneFounds ==
  /\ \A p, q \in founders : p = q
  /\ \A r \in Requests :
       rpc[r] = "createUser" /\ req[r].value = "owner" => founders = {}

FInv == FoundersAreUsers /\ (raced \/ (OneRegisters /\ OneFounds))

-----------------------------------------------------------------------------
(* Somebody manages.  Whoever may be joined to a team, by an invitation to    *)
(* it, finds members there; and whoever is about to set a member inactive     *)
(* still manages the team, for nobody else could set them inactive.           *)
Inhabited(t) == \E p \in People : IsMemberOf(p, t)

InvitedByMembers ==
  \A i \in Invitations : sent[i] # Unsent => Inhabited(sent[i].team)

Authorized(r) ==
  LET q == req[r] IN
  /\ rpc[r] = "access" => q.who \in People
  /\ rpc[r] = "insertInvitation" => Inhabited(q.team)
  /\ rpc[r] = "setActive" =>
       /\ q.op = "setActive" /\ q.who \in People
       /\ q.team \in contended \/ Manages(q.who, q.team)

Setting(r, t) == req[r].op = "setActive" /\ req[r].team = t

OneSets ==
  \A r, q \in Requests, t \in Teams \ contended :
    Setting(r, t) /\ Setting(q, t) => r = q

SInv ==
  /\ InvitedByMembers /\ \A r \in Requests : Authorized(r)
  /\ OneSets /\ SomebodyManages

-----------------------------------------------------------------------------
LEMMA FoundersFollow == FInv => OneFounder
<1> SUFFICES ASSUME FInv, ~raced PROVE Cardinality(founders) <= 1
  BY DEF OneFounder
<1>1. CASE founders = {}
  BY <1>1, FS_EmptySet
<1>2. CASE founders # {}
  <2>1. PICK p \in founders : founders = {p}
    BY <1>2 DEF FInv, OneFounds
  <2> QED
    BY <2>1, FS_Singleton
<1> QED
  BY <1>1, <1>2

LEMMA InitFounders == Init => FInv
BY Sentinels DEF Init, FInv, FoundersAreUsers, OneRegisters, OneFounds, Registering

UsersStay == \A p \in People : Known(p) => Known(p)'

(* A step of one request, which begins no registration.                      *)
LEMMA FoundersKept ==
  ASSUME IInv, FInv, NEW r \in Requests, RestOfRequests(r), UsersStay,
         raced' = raced, founders' = founders,
         Registering(r)' => Registering(r),
         rpc'[r] = "createUser" /\ req'[r].value = "owner" => founders = {}
  PROVE  FInv'
<1>1. FoundersAreUsers'
  BY DEF FInv, FoundersAreUsers, UsersStay, IInv, RowsHold, RowTypes
<1>2. OneRegisters => OneRegisters'
  BY DEF OneRegisters, Registering, RestOfRequests
<1>3. OneFounds => OneFounds'
  BY DEF OneFounds, RestOfRequests
<1> QED
  BY <1>1, <1>2, <1>3 DEF FInv

LEMMA HasUsersFounds ==
  ASSUME IInv, IInv', FInv, NEW r \in Requests, HasUsers(r) PROVE FInv'
<1> DEFINE role == IF \E p \in People : Known(p) THEN "member" ELSE "owner"
           found == [req[r] EXCEPT !.value = role]
<1>1. /\ UNCHANGED <<userRows, teamRows, invitationRows, history>>
      /\ \/ req[r].op = "register" /\ GotoWith(r, "createUser", found)
         \/ Answer(r) \/ Goto(r, "closeRegistrations")
  BY DEF HasUsers
<1>2. UsersStay /\ raced' = raced /\ founders' = founders
  BY <1>1 DEF UsersStay, Known, userRows, history
<1>3. CASE req[r].op = "register" /\ GotoWith(r, "createUser", found)
  <2>1. RestOfRequests(r) /\ req'[r] = found
    BY <1>3 DEF GotoWith, RestOfRequests, IInv, RequestTypes
  <2>2. found.value = role
    BY DEF IInv, RequestTypes, RequestRecords, NoRequest
  <2>3. role = "owner" => founders = {}
    BY DEF FInv, FoundersAreUsers, IInv, RowsHold, RowTypes
  <2> HIDE DEF found, role
  <2> QED
    BY <1>2, <1>3, <2>1, <2>2, <2>3, FoundersKept DEF Registering
<1>4. CASE Answer(r) \/ Goto(r, "closeRegistrations")
  <2>1. RestOfRequests(r) /\ rpc'[r] # "createUser" /\ req'[r] \in {req[r], NoRequest}
    BY <1>4 DEF Answer, Goto, RestOfRequests, IInv, RequestTypes
  <2> QED
    BY <1>2, <2>1, Sentinels, FoundersKept DEF Registering
<1> QED
  BY <1>1, <1>3, <1>4

LEMMA CreateUserFounds ==
  ASSUME IInv, IInv', FInv, NEW r \in Requests, CreateUser(r) PROVE FInv'
<1> PICK p, role : p = req[r].who /\ role = req[r].value
  OBVIOUS
<1>1. p \in People /\ role \in Roles /\ Registering(r)
  BY DEF CreateUser, At, IInv, Holds, HoldsRole, Registering
<1>2. /\ UNCHANGED <<teamRows, history>>
      /\ \/ /\ user' = [user EXCEPT ![p] = role] /\ ~Known(p)
            /\ founders' = IF role = "owner" THEN founders \cup {p} ELSE founders
         \/ UNCHANGED <<user, founders>>
      /\ Answer(r) \/ Goto(r, "closeRegistrations")
      /\ rpc[r] = "createUser"
  BY DEF CreateUser, At
<1>3. /\ RestOfRequests(r) /\ rpc'[r] # "createUser"
      /\ req'[r] \in {req[r], NoRequest}
  BY <1>2 DEF Answer, Goto, RestOfRequests, IInv, RequestTypes
<1>4. UsersStay
  BY <1>1, <1>2 DEF UsersStay, Known, IInv, RowsHold, RowTypes, Roles
<1>5. Registering(r)' => Registering(r)
  BY <1>3, Sentinels DEF Registering
<1>6. CASE founders' = founders
  BY <1>2, <1>3, <1>4, <1>5, <1>6, FoundersKept DEF history
<1>7. CASE /\ user' = [user EXCEPT ![p] = role] /\ ~Known(p)
           /\ role = "owner" /\ founders' = founders \cup {p}
  <2>1. FoundersAreUsers'
    BY <1>1, <1>4, <1>7
    DEF FInv, FoundersAreUsers, UsersStay, IInv, RowsHold, RowTypes, Known, Roles
  <2>2. OneRegisters => OneRegisters'
    BY <1>3, <1>5 DEF OneRegisters, Registering, RestOfRequests
  <2>3. ASSUME OneRegisters, OneFounds PROVE OneFounds'
    <3>1. founders' = {p}
      BY <1>2, <1>7, <2>3 DEF OneFounds
    <3>2. ASSUME NEW q \in Requests, rpc'[q] = "createUser" PROVE FALSE
      <4>1. q # r /\ Registering(q)'
        BY <1>3, <3>2 DEF IInv, Holds, HoldsRole, Registering
      <4>2. Registering(q)
        BY <1>3, <4>1 DEF Registering, RestOfRequests
      <4> QED
        BY <1>1, <2>3, <4>1, <4>2 DEF OneRegisters
    <3> QED
      BY <3>1, <3>2 DEF OneFounds
  <2> QED
    BY <1>2, <2>1, <2>2, <2>3 DEF FInv, history
<1> QED
  BY <1>2, <1>6, <1>7

(* Every other step of a request leaves the founders as they are.            *)
LEMMA OthersFound ==
  ASSUME IInv, IInv', FInv, NEW r \in Requests, RequestStep(r),
         ~HasUsers(r), ~CreateUser(r)
  PROVE  FInv'
<1>1. founders' = founders /\ raced' = raced
  BY DEF RequestStep, Register, GetRegistrationsEnabled,
     SetRegistrationsEnabled, CreateTeam, InsertTeam, AddOwner, ManageTeam,
     TeamAccess, CreateInvitation, RevokeInvitation, SetMemberActive,
     AcceptInvitation, GetInvitationByToken, GetUserByEmail, CreateInvitedUser,
     AddMember, IsMember, MarkAccepted, userRows, history
<1>2. \/ Answer(r) \/ \E step \in Steps \ {"createUser"} : Goto(r, step)
      \/ GetInvitationByToken(r) /\ \E w, t, v :
           GotoWith(r, "getUser", [req[r] EXCEPT !.whom = w, !.team = t, !.value = v])
  <2>1. TeamAccess(r) => AfterAccess(req[r].op) \in Steps \ {"createUser"}
    BY DEF TeamAccess, At, IInv, Holds, HoldsManager, AfterAccess, Steps
  <2>2. {"hasUsers", "closeRegistrations", "addOwner", "addMember",
         "createInvitedUser", "markAccepted", "isMember"} \subseteq Steps
    BY DEF Steps
  <2>3. CASE Register(r) \/ CreateTeam(r)
    BY <2>2, <2>3 DEF Register, GetRegistrationsEnabled,
       SetRegistrationsEnabled, CreateTeam, InsertTeam, AddOwner
  <2>4. CASE ManageTeam(r)
    BY <2>1, <2>4 DEF ManageTeam, TeamAccess, CreateInvitation,
       RevokeInvitation, SetMemberActive
  <2>5. CASE AcceptInvitation(r) /\ ~GetInvitationByToken(r)
    BY <2>2, <2>5 DEF AcceptInvitation, GetUserByEmail, CreateInvitedUser,
       AddMember, IsMember, MarkAccepted
  <2>6. CASE GetInvitationByToken(r)
    BY <2>6 DEF GetInvitationByToken
  <2> QED
    BY <2>3, <2>4, <2>5, <2>6 DEF RequestStep
<1>3. /\ RestOfRequests(r) /\ rpc'[r] # "createUser"
      /\ Registering(r)' => Registering(r)
  <2>1. CASE Answer(r) \/ \E step \in Steps \ {"createUser"} : Goto(r, step)
    BY <2>1 DEF Answer, Goto, RestOfRequests, IInv, RequestTypes, Registering,
       NoRequest
  <2>2. CASE \E w, t, v :
               GotoWith(r, "getUser", [req[r] EXCEPT !.whom = w, !.team = t, !.value = v])
    <3>1. PICK w, t, v :
            GotoWith(r, "getUser", [req[r] EXCEPT !.whom = w, !.team = t, !.value = v])
      BY <2>2
    <3> PICK new : new = [req[r] EXCEPT !.whom = w, !.team = t, !.value = v]
      OBVIOUS
    <3>2. new.op = req[r].op
      BY DEF IInv, RequestTypes, RequestRecords, NoRequest
    <3> QED
      BY <3>1, <3>2 DEF GotoWith, RestOfRequests, IInv, RequestTypes, Registering
  <2> QED
    BY <1>2, <2>1, <2>2
<1>4. UsersStay
  <2>1. CASE CreateInvitedUser(r)
    <3> PICK p, role : p = req[r].whom /\ role = req[r].value
      OBVIOUS
    <3>1. p \in People /\ role \in Roles
      BY <2>1 DEF CreateInvitedUser, At, IInv, Holds, HoldsInvitee, HoldsRow, Admitting
    <3>2. user' = user \/ user' = [user EXCEPT ![p] = role]
      BY <2>1 DEF CreateInvitedUser
    <3> QED
      BY <3>1, <3>2 DEF UsersStay, Known, IInv, RowsHold, RowTypes, Roles
  <2>2. CASE ~CreateInvitedUser(r)
    <3>1. user' = user
      BY <2>2 DEF RequestStep, Register, GetRegistrationsEnabled,
         SetRegistrationsEnabled, CreateTeam, InsertTeam, AddOwner, ManageTeam,
         TeamAccess, CreateInvitation, RevokeInvitation, SetMemberActive,
         AcceptInvitation, GetInvitationByToken, GetUserByEmail, AddMember,
         IsMember, MarkAccepted, userRows
    <3> QED
      BY <3>1 DEF UsersStay, Known
  <2> QED
    BY <2>1, <2>2
<1> QED
  BY <1>1, <1>3, <1>4, FoundersKept

(* A second registration at the same time is noted.                          *)
LEMMA StartsFound ==
  ASSUME IInv, FInv, NEW r \in Requests, NEW step, step # "createUser",
         NEW request, Start(r, step, request), IInv'
  PROVE  FInv'
<1>1. /\ UNCHANGED <<userRows, teamRows, invitationRows>>
      /\ RestOfRequests(r) /\ rpc'[r] = step /\ req'[r] = request
      /\ raced' = (raced \/ (request.op = "register"
                              /\ \E q \in Requests : Registering(q)))
  BY DEF Start, GotoWith, RestOfRequests, IInv, RequestTypes, Registering
<1>2. FoundersAreUsers'
  BY <1>1 DEF FInv, FoundersAreUsers, Known, userRows
<1>3. ASSUME ~raced', OneRegisters PROVE OneRegisters'
  BY <1>1, <1>3 DEF OneRegisters, Registering, RestOfRequests
<1>4. OneFounds => OneFounds'
  BY <1>1 DEF OneFounds, RestOfRequests, userRows
<1> QED
  BY <1>1, <1>2, <1>3, <1>4 DEF FInv

Begins(r) ==
  \/ StartSetupStatus(r)
  \/ \E i \in Invitations : StartAcceptInvitation(r, i)
  \/ \E p \in People :
       \/ StartRegister(r, p)
       \/ \E i \in Invitations : StartRevokeInvitation(r, p, i)
       \/ \E t \in Teams :
            \/ StartCreateTeam(r, p, t)
            \/ \E q \in People :
                 \/ \E i \in Invitations, role \in InvitedRoles :
                      StartCreateInvitation(r, p, t, i, q, role)
                 \/ \E value \in {"active", "inactive"} :
                      StartSetMemberActive(r, p, t, q, value)

(* Register makes one owner at most, even if closing the registration failed  *)
(* and it stays open, unless two registrations ran at the same time.         *)
THEOREM OneFounderHolds == Spec => []OneFounder
<1>1. IInv /\ IInv' /\ FInv /\ [Next]_vars => FInv'
  <2> SUFFICES ASSUME IInv, IInv', FInv, [Next]_vars PROVE FInv'
    OBVIOUS
  <2>1. CASE UNCHANGED vars \/ \E i \in Invitations : Expire(i)
    <3>1. UNCHANGED <<userRows, rpc, req, raced>>
      BY <2>1 DEF vars, Expire, requestVars, history
    <3> QED
      BY <3>1 DEF FInv, FoundersAreUsers, OneRegisters, OneFounds, Registering,
         Known, userRows
  <2>2. ASSUME NEW r \in Requests, RequestStep(r) PROVE FInv'
    BY <2>2, HasUsersFounds, CreateUserFounds, OthersFound
  <2>3. ASSUME NEW r \in Requests, NEW step \in
                 {"getEnabled", "insertTeam", "access", "getInvitation"},
               NEW request, Start(r, step, request)
        PROVE  FInv'
    BY <2>3, StartsFound
  <2>4. ASSUME NEW r \in Requests, Begins(r) PROVE FInv'
    <3>1. \E step \in {"getEnabled", "insertTeam", "access", "getInvitation"} :
            \E request : Start(r, step, request)
      BY <2>4 DEF Begins, StartSetupStatus, StartAcceptInvitation,
         StartRegister, StartRevokeInvitation, StartCreateTeam,
         StartCreateInvitation, StartSetMemberActive
    <3> QED
      BY <2>3, <3>1
  <2> QED
    BY <2>1, <2>2, <2>4 DEF Next, Begins
<1> QED
  BY InitFounders, Invariance, FoundersFollow, <1>1, PTL DEF Spec

-----------------------------------------------------------------------------
LEMMA InitManagers == Init => SInv
BY DEF Init, SInv, InvitedByMembers, Authorized, OneSets, Setting, NoRequest,
   SomebodyManages, IsMemberOf

(* A step that takes nobody's rights.                                        *)
Stays ==
  \A t \in Teams, p \in People :
    /\ IsMemberOf(p, t) => IsMemberOf(p, t)'
    /\ Manages(p, t) => Manages(p, t)'

(* A team that gets its first member gets a manager.                         *)
Inhabiting ==
  \A t \in Teams :
    Inhabited(t)' => Inhabited(t) \/ \E p \in People : Manages(p, t)'

NewAreInvited ==
  \A i \in Invitations : sent'[i] # Unsent =>
    sent'[i] = sent[i] \/ (sent'[i].team \in Teams /\ Inhabited(sent[i].team)')

(* The request does not begin to set a member (in)active, or it is noted.    *)
SettingNoted(r) ==
  \A t \in Teams \ contended' : Setting(r, t)' =>
    Setting(r, t) \/ \A q \in Requests : ~Setting(q, t)

LEMMA InhabitedStays == ASSUME Stays, NEW t \in Teams PROVE Inhabited(t) => Inhabited(t)'
BY DEF Stays, Inhabited

LEMMA Lasting ==
  ASSUME IInv, SInv, NEW r \in Requests, RestOfRequests(r),
         contended \subseteq contended', Stays, Inhabiting, NewAreInvited,
         Authorized(r)', SettingNoted(r)
  PROVE  SInv'
<1>1. InvitedByMembers'
  <2> SUFFICES ASSUME NEW i \in Invitations, sent'[i] # Unsent
               PROVE  Inhabited(sent[i].team)'
    BY DEF InvitedByMembers
  <2>1. CASE sent'[i] = sent[i]
    <3> PICK t : t = sent[i].team
      OBVIOUS
    <3>1. t \in Teams
      BY <2>1, Sentinels DEF IInv, RowsHold, RowTypes
    <3>2. Inhabited(t)
      BY <2>1 DEF SInv, InvitedByMembers
    <3>3. Inhabited(t)'
      BY <3>1, <3>2, InhabitedStays
    <3> QED
      BY <2>1, <3>3 DEF Inhabited, IsMemberOf
  <2> QED
    BY <2>1 DEF NewAreInvited
<1>2. ASSUME NEW q \in Requests \ {r} PROVE Authorized(q)'
  <2>1. rpc'[q] = rpc[q] /\ req'[q] = req[q] /\ Authorized(q) /\ Holds(q)
    BY DEF RestOfRequests, SInv, IInv
  <2>2. rpc[q] = "insertInvitation" => req[q].team \in Teams
    BY <2>1 DEF Holds, HoldsManager, HoldsFresh
  <2>3. rpc[q] = "setActive" => req[q].team \in Teams
    BY <2>1 DEF Holds, HoldsManager, Authorized
  <2>4. rpc[q] = "insertInvitation" => Inhabited(req[q].team)'
    BY <2>1, <2>2, InhabitedStays DEF Authorized
  <2>5. rpc[q] = "setActive" =>
          req[q].team \in contended' \/ Manages(req[q].who, req[q].team)'
    BY <2>1, <2>3 DEF Authorized, Stays
  <2> QED
    BY <2>1, <2>4, <2>5 DEF Authorized, Inhabited, Manages, IsMemberOf
<1>3. OneSets'
  <2> SUFFICES ASSUME NEW q \in Requests, NEW o \in Requests,
                      NEW t \in Teams \ contended', Setting(q, t)', Setting(o, t)'
               PROVE  q = o
    BY DEF OneSets
  <2>1. \A k \in Requests \ {r} : Setting(k, t)' => Setting(k, t)
    BY DEF RestOfRequests, Setting
  <2> QED
    BY <2>1 DEF SettingNoted, SInv, OneSets
<1>4. SomebodyManages'
  <2> SUFFICES ASSUME NEW t \in Teams \ contended', Inhabited(t)'
               PROVE  \E p \in People : Manages(p, t)'
    BY DEF SomebodyManages, Inhabited
  <2>1. CASE Inhabited(t)
    <3>1. \E p \in People : Manages(p, t)
      BY <2>1 DEF SInv, SomebodyManages, Inhabited
    <3> QED
      BY <3>1 DEF Stays
  <2> QED
    BY <2>1 DEF Inhabiting
<1> QED
  BY <1>1, <1>2, <1>3, <1>4 DEF SInv

(* A step that leaves the rows alone, and after which the request neither     *)
(* waits for leave nor has it.                                               *)
Managing == {"access", "insertInvitation", "setActive"}

LEMMA RowsStay ==
  ASSUME UNCHANGED member PROVE Stays /\ Inhabiting
BY DEF Stays, Inhabiting, Inhabited, IsMemberOf, Manages

LEMMA SettledKeeps ==
  ASSUME IInv, SInv, NEW r \in Requests, RestOfRequests(r),
         rpc'[r] \notin Managing, req'[r].op = req[r].op \/ req'[r] = NoRequest,
         req'[r].op = "setActive" => req'[r].team = req[r].team,
         UNCHANGED contended, Stays, Inhabiting, NewAreInvited
  PROVE  SInv'
<1>1. Authorized(r)'
  BY DEF Authorized, Managing
<1>2. SettingNoted(r)
  BY Sentinels DEF SettingNoted, Setting
<1> QED
  BY <1>1, <1>2, Lasting

LEMMA AnsweredKeeps ==
  ASSUME IInv, SInv, NEW r \in Requests, Answer(r),
         UNCHANGED contended, Stays, Inhabiting, NewAreInvited
  PROVE  SInv'
<1>1. RestOfRequests(r) /\ rpc'[r] = "idle" /\ req'[r] = NoRequest
  BY Answering DEF Answer, IInv, RequestTypes
<1> QED
  BY <1>1, Sentinels, SettledKeeps DEF Managing

LEMMA GoneKeeps ==
  ASSUME IInv, SInv, NEW r \in Requests, NEW step \in Steps \ Managing,
         Goto(r, step), UNCHANGED contended, Stays, Inhabiting, NewAreInvited
  PROVE  SInv'
BY Going, SettledKeeps

LEMMA RowsUnchanged ==
  ASSUME NEW r \in Requests, UNCHANGED <<member, sent>>
  PROVE  Stays /\ Inhabiting /\ NewAreInvited
BY RowsStay DEF NewAreInvited

(* Requests of users, and all that accepting an invitation reads.            *)
LEMMA ReadingKeepsManagers ==
  ASSUME IInv, IInv', SInv, NEW r \in Requests,
         \/ Register(r) \/ InsertTeam(r) \/ RevokeInvitation(r)
         \/ AcceptInvitation(r) /\ ~AddMember(r)
  PROVE  SInv'
<1>1. UNCHANGED <<member, sent, contended>>
  BY DEF Register, GetRegistrationsEnabled, HasUsers, CreateUser,
     SetRegistrationsEnabled, InsertTeam, RevokeInvitation, AcceptInvitation,
     GetInvitationByToken, GetUserByEmail, CreateInvitedUser, IsMember,
     MarkAccepted, teamRows, invitationRows, history
<1>2. Stays /\ Inhabiting /\ NewAreInvited
  BY <1>1, RowsUnchanged
<1>3. CASE Answer(r)
  BY <1>1, <1>2, <1>3, AnsweredKeeps
<1>4. CASE \E step \in Steps \ Managing : Goto(r, step)
  BY <1>1, <1>2, <1>4, GoneKeeps
<1>5. ASSUME NEW new, NEW step, step \notin Managing,
             GotoWith(r, step, new),
             new.op = req[r].op, new.op # "setActive"
      PROVE  SInv'
  <2>1. RestOfRequests(r) /\ rpc'[r] = step /\ req'[r] = new
    BY <1>5 DEF GotoWith, RestOfRequests, IInv, RequestTypes
  <2> QED
    BY <1>1, <1>2, <1>5, <2>1, SettledKeeps
<1>6. CASE Register(r)
  <2>1. CASE HasUsers(r)
    <3> DEFINE role == IF \E p \in People : Known(p) THEN "member" ELSE "owner"
    <3>1. \/ Answer(r) \/ Goto(r, "closeRegistrations")
          \/ /\ req[r].op = "register"
             /\ GotoWith(r, "createUser", [req[r] EXCEPT !.value = role])
      BY <2>1 DEF HasUsers
    <3> HIDE DEF role
    <3> PICK new : new = [req[r] EXCEPT !.value = role]
      OBVIOUS
    <3>2. new.op = req[r].op /\ "createUser" \notin Managing
      BY DEF IInv, RequestTypes, RequestRecords, NoRequest, Managing
    <3>3. ASSUME GotoWith(r, "createUser", new), req[r].op = "register"
          PROVE  SInv'
      <4>1. new.op # "setActive"
        BY <3>2, <3>3
      <4> QED
        BY <1>5, <3>2, <3>3, <4>1
    <3>4. "closeRegistrations" \in Steps \ Managing
      BY DEF Steps, Managing
    <3> QED
      BY <1>3, <1>4, <3>1, <3>3, <3>4
  <2>2. CASE ~HasUsers(r)
    BY <1>3, <1>4, <1>6, <2>2 DEF Register, GetRegistrationsEnabled, CreateUser,
       SetRegistrationsEnabled, Steps, Managing
  <2> QED
    BY <2>1, <2>2
<1>7. CASE InsertTeam(r) \/ RevokeInvitation(r)
  BY <1>3, <1>4, <1>7 DEF InsertTeam, RevokeInvitation, Steps, Managing
<1>8. CASE AcceptInvitation(r) /\ ~AddMember(r)
  <2>1. CASE GetInvitationByToken(r)
    <3> PICK i, new : /\ i = req[r].inv
                      /\ new = [req[r] EXCEPT !.whom = sent[i].email,
                                  !.team = sent[i].team, !.value = sent[i].role]
      OBVIOUS
    <3>1. Answer(r) \/ GotoWith(r, "getUser", new)
      BY <2>1 DEF GetInvitationByToken
    <3>2. new.op = req[r].op /\ "getUser" \notin Managing
      BY DEF IInv, RequestTypes, RequestRecords, NoRequest, Managing
    <3>3. req[r].op = "accept"
      BY <2>1 DEF GetInvitationByToken, At, IInv, Holds, HoldsInvitee
    <3>4. ASSUME GotoWith(r, "getUser", new) PROVE SInv'
      <4>1. new.op # "setActive"
        BY <3>2, <3>3
      <4> QED
        BY <1>5, <3>2, <3>4, <4>1
    <3> QED
      BY <1>3, <3>1, <3>4
  <2>2. CASE ~GetInvitationByToken(r)
    BY <1>3, <1>4, <1>8, <2>2 DEF AcceptInvitation, GetUserByEmail,
       CreateInvitedUser, IsMember, MarkAccepted, Steps, Managing
  <2> QED
    BY <2>1, <2>2
<1> QED
  BY <1>6, <1>7, <1>8

(* Whoever joins is active.                                                  *)
LEMMA JoiningStays ==
  ASSUME IInv, NEW p \in People, NEW t \in Teams, NEW role \in Roles,
         member' = Joined(p, t, role),
         ~IsMemberOf(p, t) \/ role = "owner",
         Inhabited(t) \/ role = "owner"
  PROVE  Stays /\ Inhabiting
<1>1. /\ member'[t][p] = [role |-> role, active |-> TRUE]
      /\ \A u \in Teams, q \in People :
           ~(u = t /\ q = p) => member'[u][q] = member[u][q]
  BY DEF Joined, IInv, RowsHold, RowTypes
<1>2. member'[t][p] # NotMember /\ (role = "owner" => Manages(p, t)')
  BY <1>1 DEF NotMember, Manages
<1>3. ~IsMemberOf(p, t) => ~Manages(p, t)
  BY DEF IsMemberOf, Manages, NotMember
<1>4. Stays
  BY <1>1, <1>2, <1>3 DEF Stays, IsMemberOf, Manages
<1>5. Inhabiting
  BY <1>1, <1>2 DEF Inhabiting, Inhabited, IsMemberOf
<1> QED
  BY <1>4, <1>5

LEMMA AddOwnerKeeps ==
  ASSUME IInv, SInv, NEW r \in Requests, AddOwner(r) PROVE SInv'
<1> PICK p, t : p = req[r].who /\ t = req[r].team
  OBVIOUS
<1>1. p \in People /\ t \in Teams
  BY DEF AddOwner, At, IInv, Holds, HoldsRole
<1>2. /\ Answer(r) /\ UNCHANGED <<sent, contended>>
      /\ member' = member \/ member' = Joined(p, t, "owner")
  BY DEF AddOwner, invitationRows, history
<1>3. Stays /\ Inhabiting
  BY <1>1, <1>2, RowsStay, JoiningStays DEF Roles
<1>4. NewAreInvited
  BY <1>2 DEF NewAreInvited
<1> QED
  BY <1>2, <1>3, <1>4, AnsweredKeeps

LEMMA AddMemberKeeps ==
  ASSUME IInv, SInv, NEW r \in Requests, AddMember(r) PROVE SInv'
<1> PICK p, t, role : p = req[r].whom /\ t = req[r].team /\ role = req[r].value
  OBVIOUS
<1>1. /\ p \in People /\ t \in Teams /\ role \in Roles
      /\ req[r].inv \in Invitations
      /\ sent[req[r].inv] = [team |-> t, email |-> p, role |-> role]
  BY DEF AddMember, At, IInv, Holds, HoldsInvitee, HoldsRow, Admitting
<1>2. /\ Goto(r, "markAccepted") \/ Goto(r, "isMember")
      /\ UNCHANGED <<sent, contended>>
      /\ \/ member' = member
         \/ ~IsMemberOf(p, t) /\ member' = Joined(p, t, role)
  BY DEF AddMember, invitationRows, history
<1>3. Inhabited(t)
  <2>1. sent[req[r].inv] # Unsent /\ sent[req[r].inv].team = t
    BY <1>1, AccountsAssumption DEF Unsent
  <2> QED
    BY <1>1, <2>1 DEF SInv, InvitedByMembers
<1>4. Stays /\ Inhabiting
  BY <1>1, <1>2, <1>3, RowsStay, JoiningStays
<1>5. NewAreInvited
  BY <1>2 DEF NewAreInvited
<1> QED
  BY <1>2, <1>4, <1>5, GoneKeeps DEF Steps, Managing

-----------------------------------------------------------------------------
LEMMA TeamAccessKeeps ==
  ASSUME IInv, SInv, NEW r \in Requests, TeamAccess(r) PROVE SInv'
<1> PICK step : step = AfterAccess(req[r].op)
  OBVIOUS
<1>1. UNCHANGED <<member, sent, contended>>
  BY DEF TeamAccess, teamRows, invitationRows, history
<1>2. Stays /\ Inhabiting /\ NewAreInvited
  BY <1>1, RowsUnchanged
<1>3. CASE Answer(r)
  BY <1>1, <1>2, <1>3, AnsweredKeeps
<1>4. CASE Manages(req[r].who, req[r].team) /\ Goto(r, step)
  <2>1. /\ req[r].op \in {"invite", "revoke", "setActive"}
        /\ req[r].who \in People
    BY DEF TeamAccess, At, IInv, Holds, HoldsManager, SInv, Authorized
  <2>2. /\ step = "insertInvitation" => req[r].op = "invite"
        /\ step = "setActive" => req[r].op = "setActive"
        /\ step \in Steps \ {"access"}
    BY <2>1 DEF AfterAccess, Steps
  <2>3. RestOfRequests(r) /\ rpc'[r] = step /\ req'[r] = req[r]
    BY <1>4, <2>2, Going
  <2>4. Inhabited(req[r].team)
    BY <1>4, <2>1 DEF Inhabited, Manages, IsMemberOf, NotMember
  <2>5. Authorized(r)'
    BY <1>1, <1>4, <2>1, <2>2, <2>3, <2>4
    DEF Authorized, Inhabited, IsMemberOf, Manages
  <2>6. SettingNoted(r)
    BY <2>3 DEF SettingNoted, Setting
  <2> QED
    BY <1>1, <1>2, <2>3, <2>5, <2>6, Lasting
<1> QED
  BY <1>3, <1>4 DEF TeamAccess

LEMMA CreateInvitationKeeps ==
  ASSUME IInv, SInv, NEW r \in Requests, CreateInvitation(r) PROVE SInv'
<1> PICK i, t, row :
      /\ i = req[r].inv /\ t = req[r].team
      /\ row = [team |-> t, email |-> req[r].whom, role |-> req[r].value]
  OBVIOUS
<1>1. /\ i \in Invitations /\ t \in Teams /\ Inhabited(t)
  BY DEF CreateInvitation, At, IInv, Holds, HoldsManager, HoldsFresh, SInv,
     Authorized
<1>2. /\ Answer(r) /\ UNCHANGED <<member, contended>>
      /\ sent' = sent \/ sent' = [sent EXCEPT ![i] = row]
  BY DEF CreateInvitation, teamRows, history
<1>3. Stays /\ Inhabiting
  BY <1>2, RowsStay
<1>4. Inhabited(t)'
  BY <1>1, <1>3, InhabitedStays
<1>5. NewAreInvited
  <2> SUFFICES ASSUME NEW k \in Invitations, sent'[k] # sent[k]
               PROVE  sent'[k].team \in Teams /\ Inhabited(sent[k].team)'
    BY DEF NewAreInvited
  <2>1. sent'[k].team = t
    BY <1>2 DEF IInv, RowsHold, RowTypes
  <2> QED
    BY <1>1, <1>4, <2>1 DEF Inhabited, IsMemberOf
<1> QED
  BY <1>2, <1>3, <1>5, AnsweredKeeps

(* Whoever sets others (in)active still manages the team, alone in doing so,  *)
(* and cannot set themselves inactive.                                       *)
LEMMA SetMemberActiveKeeps ==
  ASSUME IInv, SInv, NEW r \in Requests, SetMemberActive(r) PROVE SInv'
<1> PICK p, q, t : p = req[r].who /\ q = req[r].whom /\ t = req[r].team
  OBVIOUS
<1> DEFINE b == (req[r].value = "active")
<1>1. /\ p \in People /\ t \in Teams /\ Setting(r, t)
      /\ t \in contended \/ Manages(p, t)
  BY DEF SetMemberActive, At, IInv, Holds, HoldsManager, SInv, Authorized, Setting
<1>2. /\ Answer(r) /\ UNCHANGED <<sent, contended>>
      /\ \/ member' = member
         \/ /\ q # p /\ IsMemberOf(q, t)
            /\ member' = [member EXCEPT ![t][q].active = b]
  BY DEF SetMemberActive, invitationRows, history
<1>3. RestOfRequests(r) /\ rpc'[r] = "idle" /\ req'[r] = NoRequest
  BY <1>2, Answering DEF Answer, IInv, RequestTypes
<1>4. NewAreInvited
  BY <1>2 DEF NewAreInvited
<1>5. CASE member' = member
  BY <1>2, <1>4, <1>5, RowsStay, AnsweredKeeps
<1>6. CASE /\ q # p /\ IsMemberOf(q, t)
           /\ member' = [member EXCEPT ![t][q].active = b]
  <2>1. /\ \A o \in People \ {q} : member'[t][o] = member[t][o]
        /\ \A u \in Teams \ {t} : member'[u] = member[u]
    BY <1>1, <1>6 DEF IInv, RowsHold, RowTypes
  <2>2. ASSUME IsMemberOf(q, t), q \in People PROVE IsMemberOf(q, t)'
    <3>1. member[t][q] \in MemberRecords \ {NotMember}
      BY <1>1, <2>2 DEF IInv, RowsHold, RowTypes, IsMemberOf
    <3>2. member'[t][q] = [member[t][q] EXCEPT !.active = b]
      BY <1>1, <1>6, <2>2 DEF IInv, RowsHold, RowTypes
    <3>3. \A m \in MemberRecords \ {NotMember} : \A c \in BOOLEAN :
            [m EXCEPT !.active = c] # NotMember
      BY DEF MemberRecords, NotMember, Roles
    <3>4. b \in BOOLEAN
      OBVIOUS
    <3> HIDE DEF b
    <3> QED
      BY <3>1, <3>2, <3>3, <3>4 DEF IsMemberOf
  <2>3. \A u \in Teams : Inhabited(u) <=> Inhabited(u)'
    BY <1>6, <2>1, <2>2 DEF Inhabited, IsMemberOf
  <2>4. \A u \in Teams \ {t}, o \in People : Manages(o, u) <=> Manages(o, u)'
    BY <2>1 DEF Manages
  <2>5. t \notin contended => Manages(p, t)'
    BY <1>1, <1>6, <2>1 DEF Manages
  <2>6. InvitedByMembers'
    BY <1>2, <2>3, Sentinels
    DEF SInv, InvitedByMembers, IInv, RowsHold, RowTypes, Inhabited, IsMemberOf
  <2>7. ASSUME NEW k \in Requests \ {r} PROVE Authorized(k)'
    <3>1. rpc'[k] = rpc[k] /\ req'[k] = req[k] /\ Authorized(k) /\ Holds(k)
      BY <1>3 DEF RestOfRequests, SInv, IInv
    <3> PICK o, u : o = req[k].who /\ u = req[k].team
      OBVIOUS
    <3>2. rpc[k] = "insertInvitation" => u \in Teams
      BY <3>1 DEF Holds, HoldsManager, HoldsFresh
    <3>3. rpc[k] = "insertInvitation" => Inhabited(u)'
      BY <2>3, <3>1, <3>2 DEF Authorized
    <3>4. rpc[k] = "setActive" => u \in Teams /\ Setting(k, u) /\ o \in People
      BY <3>1 DEF Holds, HoldsManager, Authorized, Setting
    <3>5. rpc[k] = "setActive" => u \in contended \/ u # t
      BY <1>1, <3>4 DEF SInv, OneSets
    <3>6. rpc[k] = "setActive" => u \in contended \/ Manages(o, u)'
      BY <2>4, <3>1, <3>4, <3>5 DEF Authorized
    <3> QED
      BY <1>2, <3>1, <3>3, <3>6 DEF Authorized, Inhabited, IsMemberOf, Manages
  <2>8. Authorized(r)'
    BY <1>3 DEF Authorized
  <2>9. OneSets'
    <3>1. \A k \in Requests, u \in Teams : Setting(k, u)' => Setting(k, u)
      BY <1>3, Sentinels DEF Setting, RestOfRequests
    <3> QED
      BY <1>2, <3>1 DEF SInv, OneSets
  <2>10. SomebodyManages'
    <3> SUFFICES ASSUME NEW u \in Teams \ contended, Inhabited(u)'
                 PROVE  \E o \in People : Manages(o, u)'
      BY <1>2 DEF SomebodyManages, Inhabited
    <3>1. \E o \in People : Manages(o, u)
      BY <2>3 DEF SInv, SomebodyManages, Inhabited
    <3> QED
      BY <1>1, <2>4, <2>5, <3>1
  <2> QED
    BY <2>6, <2>7, <2>8, <2>9, <2>10 DEF SInv
<1> QED
  BY <1>2, <1>5, <1>6

-----------------------------------------------------------------------------
(* Requests that begin.  A second one about the same team is noted.          *)
LEMMA BegunKeeps ==
  ASSUME IInv, IInv', SInv, NEW r \in Requests, NEW step, NEW request,
         Start(r, step, request), step \notin Managing \ {"access"},
         step = "access" => request.who \in People
  PROVE  SInv'
<1>1. /\ RestOfRequests(r) /\ rpc'[r] = step /\ req'[r] = request
      /\ UNCHANGED <<member, sent>>
  BY DEF Start, GotoWith, IInv, RequestTypes, RestOfRequests, teamRows,
     invitationRows
<1>2. Stays /\ Inhabiting /\ NewAreInvited
  BY <1>1, RowsUnchanged
<1>3. Authorized(r)'
  BY <1>1 DEF Authorized, Managing
<1>4. contended \subseteq contended' /\ SettingNoted(r)
  BY <1>1 DEF Start, SettingNoted, Setting
<1> QED
  BY <1>1, <1>2, <1>3, <1>4, Lasting

LEMMA BeginsKeeps ==
  ASSUME IInv, IInv', SInv, NEW r \in Requests, Begins(r) PROVE SInv'
<1>1. ASSUME NEW step \in {"getEnabled", "insertTeam", "getInvitation"},
             NEW request, Start(r, step, request)
      PROVE  SInv'
  BY <1>1, BegunKeeps DEF Managing
<1>2. ASSUME NEW request, Start(r, "access", request), request.who \in People
      PROVE  SInv'
  BY <1>2, BegunKeeps DEF Managing
<1>3. CASE \/ StartSetupStatus(r)
           \/ \E i \in Invitations : StartAcceptInvitation(r, i)
           \/ \E p \in People : \/ StartRegister(r, p)
                                \/ \E t \in Teams : StartCreateTeam(r, p, t)
  BY <1>1, <1>3 DEF StartSetupStatus, StartAcceptInvitation, StartRegister,
     StartCreateTeam
<1>4. ASSUME NEW p \in People, NEW i \in Invitations,
             StartRevokeInvitation(r, p, i)
      PROVE  SInv'
  BY <1>2, <1>4 DEF StartRevokeInvitation
<1>5. ASSUME NEW p \in People, NEW t \in Teams, NEW q \in People,
             NEW i \in Invitations, NEW role \in InvitedRoles,
             StartCreateInvitation(r, p, t, i, q, role)
      PROVE  SInv'
  BY <1>2, <1>5 DEF StartCreateInvitation
<1>6. ASSUME NEW p \in People, NEW t \in Teams, NEW q \in People,
             NEW value \in {"active", "inactive"},
             StartSetMemberActive(r, p, t, q, value)
      PROVE  SInv'
  BY <1>2, <1>6 DEF StartSetMemberActive
<1> QED
  BY <1>3, <1>4, <1>5, <1>6 DEF Begins

(* A team that has members has an active owner or admin, unless two requests  *)
(* have set its members (in)active at the same time.                         *)
THEOREM SomebodyManagesHolds == Spec => []SomebodyManages
<1>1. IInv /\ IInv' /\ SInv /\ [Next]_vars => SInv'
  <2> SUFFICES ASSUME IInv, IInv', SInv, [Next]_vars PROVE SInv'
    OBVIOUS
  <2>1. CASE UNCHANGED vars \/ \E i \in Invitations : Expire(i)
    <3>1. UNCHANGED <<member, sent, rpc, req, contended>>
      BY <2>1 DEF vars, Expire, teamRows, invitationRows, requestVars, history
    <3> QED
      BY <3>1 DEF SInv, InvitedByMembers, Authorized, OneSets, Setting,
         SomebodyManages, Inhabited, IsMemberOf, Manages
  <2>2. ASSUME NEW r \in Requests, RequestStep(r) PROVE SInv'
    BY <2>2, ReadingKeepsManagers, AddOwnerKeeps, AddMemberKeeps,
       TeamAccessKeeps, CreateInvitationKeeps, SetMemberActiveKeeps
    DEF RequestStep, CreateTeam, ManageTeam
  <2>3. ASSUME NEW r \in Requests, Begins(r) PROVE SInv'
    BY <2>3, BeginsKeeps
  <2> QED
    BY <2>1, <2>2, <2>3 DEF Next, Begins
<1>2. SInv => SomebodyManages
  BY DEF SInv
<1> QED
  BY InitManagers, Invariance, <1>1, <1>2, PTL DEF Spec
=============================================================================
