------------------------------ MODULE Session ------------------------------
(***************************************************************************)
(* Signing in, out and up: the token (web/src/service/api.ts), the proxy   *)
(* that guards the routes (web/src/proxy.ts), the pages that sign in,      *)
(* register and accept an invitation, and the guard around the others      *)
(* (web/src/components/auth/auth-guard.tsx).                               *)
(*                                                                         *)
(* A token is the number of the login that minted it, 0 being none.  A     *)
(* browser keeps it twice: in localStorage, from where it is sent with     *)
(* every call, and in a cookie, which the proxy reads and which expires on *)
(* its own.  A navigation is asked for in one step and arrives in another; *)
(* until then the page that was on screen stays alive, unless the whole    *)
(* document is reloaded ("hard").  Of the guarded pages there are two      *)
(* here: /monitors, which the proxy knows, and /plugins, which it does not.*)
(***************************************************************************)
EXTENDS Client

CONSTANTS
  Users,        \* people with or without an account
  TeamsOf,      \* user -> their teams
  MaxTokens,    \* bound: logins
  MaxOutages    \* bound: questions about the setup that fail

ASSUME SessionAssumption ==
  /\ None \notin Users
  /\ TeamsOf \in [Users -> SUBSET Teams]
  /\ {MaxTokens, MaxOutages} \subseteq Nat

VARIABLES
  accounts,     \* server: who has an account
  minted,       \* server: whose each token is
  expired,      \* server: the tokens that are no longer valid
  token,        \* localStorage: sofon_token
  cookie,       \* the cookie of that name
  at,           \* the page on screen
  nav,          \* the navigation under way
  ready,        \* the guard shows what it guards
  profile,      \* user store: whose profile it is
  joined,       \* the form on screen has created an account
  leaving,      \* an accepted invitation leads to /signin in two seconds
  outages,
  twice         \* history: Sign In was pressed again before the page changed

sessionVars == <<accounts, minted, expired, token, cookie, at, nav, ready,
                 profile, joined, leaving, outages, twice>>
serverVars == <<accounts, minted, expired>>

Guarded == {"/monitors", "/plugins"}
Private == {"/monitors"}                            \* PRIVATE_PREFIXES
AuthPages == {"/signin", "/register", "/invite"}    \* AUTH_PREFIXES

(* No page is called none. *)
ASSUME AddressAssumption == None \notin {"/"} \cup Guarded \cup AuthPages

Here == [to |-> None, hard |-> FALSE]

SessionInit ==
  /\ accounts = {} /\ minted = <<>> /\ expired = {}
  /\ token = 0 /\ cookie = 0
  /\ at = None /\ nav = [to |-> "/", hard |-> TRUE]
  /\ ready = FALSE /\ profile = None
  /\ joined = FALSE /\ leaving = FALSE /\ outages = 0
  /\ twice = FALSE

StoreToken(n) == token' = n /\ cookie' = n

(* Mutant: the cookie stays. *)
ClearTokenOnly == token' = 0 /\ cookie' = cookie

ClearToken == token' = 0 /\ cookie' = 0

(* A reload that is under way is not turned back. *)
Push(p) == nav' = IF nav.hard THEN nav ELSE [to |-> p, hard |-> FALSE]

-----------------------------------------------------------------------------
(* The proxy and the pages that redirect.  Whether registration is open is *)
(* asked of the server; when the question fails, the answer is "closed".   *)
Redirect(p) ==
  /\ nav' = [nav EXCEPT !.to = p]
  /\ UNCHANGED <<calls, teams, currentTeam, at, ready, profile, joined,
                 leaving>>

Proxied ==
  \/ cookie = 0 /\ nav.to \in Private /\ Redirect("/signin")
  \/ cookie # 0 /\ nav.to \in AuthPages /\ Redirect("/monitors")

Passes == ~(cookie = 0 /\ nav.to \in Private)
            /\ ~(cookie # 0 /\ nav.to \in AuthPages)

Enabled(answer) ==
  \/ answer = (accounts = {}) /\ UNCHANGED outages
  \/ /\ ~answer /\ accounts = {}
     /\ outages < MaxOutages /\ outages' = outages + 1

GuardCall == [op |-> "me", token |-> token, mine |-> TRUE, reply |-> NoReply]
Unguarded(inFlight) ==
  [i \in DOMAIN inFlight |-> IF inFlight[i].op = "me"
                             THEN [inFlight[i] EXCEPT !.mine = FALSE]
                             ELSE inFlight[i]]

(* Mutant: the guard shows what it guards while it asks. *)
ArriveShown ==
  LET before == IF nav.hard THEN <<>> ELSE calls
      stays == ~nav.hard /\ at \in Guarded IN
  /\ at' = nav.to /\ nav' = Here
  /\ ready' = (nav.to \in Guarded)
  /\ calls' = IF nav.to \notin Guarded THEN Unguarded(before)
              ELSE IF stays THEN before ELSE Append(before, GuardCall)
  /\ joined' = FALSE /\ leaving' = (leaving /\ ~nav.hard)
  /\ IF nav.hard
     THEN profile' = None /\ teams' = {} /\ currentTeam' = None
     ELSE UNCHANGED <<profile, teams, currentTeam>>

(* The page arrives.  A guard that is there already stays as it is; a new  *)
(* one asks who the user is.  A reload forgets calls, timers and stores.   *)
Arrive ==
  LET before == IF nav.hard THEN <<>> ELSE calls
      stays == ~nav.hard /\ at \in Guarded IN
  /\ at' = nav.to /\ nav' = Here
  /\ ready' = (ready /\ stays /\ nav.to \in Guarded)
  /\ calls' = IF nav.to \notin Guarded THEN Unguarded(before)
              ELSE IF stays THEN before ELSE Append(before, GuardCall)
  /\ joined' = FALSE /\ leaving' = (leaving /\ ~nav.hard)
  /\ IF nav.hard
     THEN profile' = None /\ teams' = {} /\ currentTeam' = None
     ELSE UNCHANGED <<profile, teams, currentTeam>>

(* Where the pages that ask lead. *)
Wanted(p, open) ==
  CASE p \in {"/", "/signin"} /\ open -> "/register"
    [] p \in {"/", "/register"} /\ ~open -> "/signin"
    [] OTHER -> p

Rendered ==
  \/ nav.to \in Guarded /\ Arrive /\ UNCHANGED outages
  \/ /\ nav.to = "/invite" /\ UNCHANGED outages
     /\ \/ accounts # {} /\ Arrive
        \/ Redirect("/signin")
  \/ /\ nav.to \in {"/", "/signin", "/register"}
     /\ \E open \in BOOLEAN :
          LET p == Wanted(nav.to, open) IN
          Enabled(open) /\ IF p = nav.to THEN Arrive ELSE Redirect(p)

Route ==
  /\ nav # Here
  /\ (Proxied /\ UNCHANGED outages) \/ (Passes /\ Rendered)
  /\ UNCHANGED <<serverVars, token, cookie, twice, dbTeams, savedTeam,
                 teamDialog, creatingTeam, missedRefresh>>

-----------------------------------------------------------------------------
screenVars == <<at, ready, joined, leaving, outages, twice>>

(* The page that was asked for has arrived, and shows something. *)
Settled == nav = Here /\ (at \in Guarded => ready)

(* The address bar (bound: nobody reloads a page that is still on its way).*)
Visit(p) ==
  /\ Settled
  /\ nav' = [to |-> p, hard |-> TRUE]
  /\ UNCHANGED <<clientVars, serverVars, token, cookie, profile, screenVars>>

(* The links: of the sidebar, to /signin once the account is created.  The *)
(* sidebar leads nowhere but to /monitors as long as there is no team.     *)
(* Bound: nobody follows a link while a page is on its way.                *)
Follow(p) ==
  /\ nav = Here
  /\ \/ /\ at \in Guarded /\ ready /\ p \in Guarded
        /\ p = "/monitors" \/ teams # {}
     \/ p = "/signin" /\ (at = "/invite" \/ (at = "/register" /\ joined))
  /\ Push(p)
  /\ UNCHANGED <<clientVars, serverVars, token, cookie, profile, screenVars>>

(* handleSignOut: what is in flight stays so, and so do the other stores.  *)
SignOut ==
  /\ at \in Guarded /\ ready
  /\ ClearToken /\ profile' = None /\ Push("/signin")
  /\ UNCHANGED <<clientVars, serverVars, screenVars>>

(* The page on screen asks the server something (bound: one thing at a     *)
(* time).                                                                  *)
PageCall ==
  /\ at \in Guarded /\ ready /\ Pending("page") = {}
  /\ calls' = Append(calls, [GuardCall EXCEPT !.op = "page"])
  /\ UNCHANGED <<teamVars, sessionVars>>

(* The forms: nothing is sent twice while the button shows a spinner; but  *)
(* the spinner ends before /monitors arrives.  Bounds: who signs in has an *)
(* account, and who has one does not ask for another.                      *)
SignIn(u) ==
  /\ at = "/signin" /\ u \in accounts /\ Room /\ Pending("login") = {}
  /\ calls' = Append(calls, [op |-> "login", user |-> u, reply |-> NoReply])
  /\ twice' = (twice \/ nav # Here)
  /\ UNCHANGED <<teamVars, serverVars, token, cookie, nav, profile, at, ready,
                 joined, leaving, outages>>

SignUp(u) ==
  /\ at \in {"/register", "/invite"} /\ Room /\ u \notin accounts
  /\ ~joined /\ Pending("signUp") = {}
  /\ calls' = Append(calls,
       [op |-> "signUp", user |-> u, via |-> at, reply |-> NoReply])
  /\ UNCHANGED <<teamVars, sessionVars>>

-----------------------------------------------------------------------------
Valid(n) == n \in DOMAIN minted /\ n \notin expired

ServeLogin(i) ==
  /\ i \in Pending("login") /\ ~Served(i)
  /\ calls[i].user \in accounts /\ Len(minted) < MaxTokens
  /\ minted' = Append(minted, calls[i].user)
  /\ Reply(i, [token |-> Len(minted')])
  /\ UNCHANGED <<teamVars, accounts, expired, token, cookie, nav, profile,
                 screenVars>>

(* The first to register closes the registration; an invited user has no   *)
(* account yet.                                                            *)
ServeSignUp(i) ==
  LET c == calls[i] IN
  /\ i \in Pending("signUp") /\ ~Served(i)
  /\ IF c.via = "/register" THEN accounts = {} ELSE c.user \notin accounts
  /\ accounts' = accounts \cup {c.user}
  /\ outages' = 0      \* the question no longer matters
  /\ Reply(i, [user |-> c.user])
  /\ UNCHANGED <<teamVars, minted, expired, token, cookie, nav, profile, at,
                 ready, joined, leaving, twice>>

ServeWithToken(i) ==
  /\ i \in Pending("me") \cup Pending("page") /\ ~Served(i)
  /\ Reply(i, [valid |-> Valid(calls[i].token)])
  /\ UNCHANGED <<teamVars, sessionVars>>

Expire(n) ==
  /\ Valid(n)
  /\ expired' = expired \cup {n}
  /\ UNCHANGED <<clientVars, accounts, minted, token, cookie, nav, profile,
                 screenVars>>

(* Half an hour after the login: by then the acceptance of an invitation   *)
(* that was under way at the login is over, its two seconds and the        *)
(* navigation that follows, too.  The token itself lives as long as the    *)
(* server is configured to.                                                *)
CookieExpires ==
  /\ cookie # 0
  /\ nav = Here /\ ~leaving /\ Pending("signUp") = {}
  /\ cookie' = 0
  /\ UNCHANGED <<clientVars, serverVars, token, nav, profile, screenVars>>

-----------------------------------------------------------------------------
LoginSucceeds(i) ==
  /\ i \in Pending("login") /\ Served(i)
  /\ StoreToken(calls[i].reply.token) /\ Push("/monitors")
  /\ calls' = Others(i)
  /\ UNCHANGED <<teamVars, serverVars, profile, screenVars>>

(* InviteForm sets a timer. *)
SignUpSucceeds(i) ==
  /\ i \in Pending("signUp") /\ Served(i)
  /\ joined' = TRUE /\ leaving' = (leaving \/ calls[i].via = "/invite")
  /\ calls' = Others(i)
  /\ UNCHANGED <<teamVars, serverVars, token, cookie, nav, profile, at, ready,
                 outages, twice>>

LeaveInvite ==
  /\ leaving /\ leaving' = FALSE
  /\ Push("/signin")
  /\ UNCHANGED <<clientVars, serverVars, token, cookie, profile, at, ready,
                 joined, outages, twice>>

(* The guard's call: teams and profile go to the stores, and what is       *)
(* guarded is shown, unless another guard has been put up since.           *)
MeSucceeds(i) ==
  LET u == minted[calls[i].token]  t == Chosen(TeamsOf[u], savedTeam) IN
  /\ i \in Pending("me") /\ Served(i) /\ calls[i].reply.valid
  /\ teams' = TeamsOf[u] /\ currentTeam' = t
  /\ savedTeam' = IF t = None THEN savedTeam ELSE t
  /\ profile' = u
  /\ ready' = (ready \/ calls[i].mine)
  /\ calls' = Others(i)
  /\ UNCHANGED <<serverVars, token, cookie, nav, at, joined, leaving, outages,
                 twice, dbTeams, teamDialog, creatingTeam, missedRefresh>>

(* Whatever went wrong, and whoever is signed in by now. *)
MeFails(i) ==
  /\ i \in Pending("me")
  /\ ClearToken /\ Push("/signin")
  /\ calls' = Others(i)
  /\ UNCHANGED <<teamVars, serverVars, profile, screenVars>>

(* The interceptor, when the answer is 401. *)
Unauthorised(i) ==
  /\ i \in Pending("me") \cup Pending("page")
  /\ Served(i) /\ ~calls[i].reply.valid
  /\ ClearToken /\ nav' = [to |-> "/signin", hard |-> TRUE]
  /\ calls' = Others(i)
  /\ UNCHANGED <<teamVars, serverVars, profile, screenVars>>

(* A form shows its error, a page its answer or its error. *)
Answered(i) ==
  /\ i \in Pending("login") \cup Pending("signUp") \cup Pending("page")
  /\ calls' = Others(i)
  /\ UNCHANGED <<teamVars, sessionVars>>

-----------------------------------------------------------------------------
SessionClicks ==
  \/ \E p \in {"/", "/invite", "/plugins"} : Visit(p)
  \/ \E p \in {"/signin"} \cup Guarded : Follow(p)
  \/ SignOut \/ PageCall
  \/ \E u \in Users : SignIn(u) \/ SignUp(u)

SessionServed ==
  \/ \E i \in DOMAIN calls :
       ServeLogin(i) \/ ServeSignUp(i) \/ ServeWithToken(i)
  \/ \E n \in DOMAIN minted : Expire(n)
  \/ CookieExpires \/ LeaveInvite

SessionAnswers ==
  \E i \in DOMAIN calls :
    \/ LoginSucceeds(i) \/ SignUpSucceeds(i) \/ MeSucceeds(i) \/ MeFails(i)
    \/ Unauthorised(i) \/ Answered(i)

(* The page on screen shows the profile of whoever is signed in, though    *)
(* tokens expire, people sign out and in again, and answers come late;     *)
(* unless somebody signed in twice: the second answer may arrive when      *)
(* somebody else is there, and replaces the token.                         *)
ShownIsSignedIn ==
  (at \in Guarded /\ ready /\ token # 0 /\ ~twice)
    => profile = minted[token]
=============================================================================
