----------------------------- MODULE Incidents -----------------------------
(***************************************************************************)
(* The list of incidents (web/src/app/(main)/incidents/content.tsx) and    *)
(* the page of one incident ([incidentID]/content.tsx).                    *)
(*                                                                         *)
(* The list keeps its own cursor and the history of cursors it came        *)
(* through.  Every answer that arrives is shown, whatever was asked since. *)
(* A cursor is modelled by the number of the page it starts, 0 being none, *)
(* and the filter (status, dates, text) by whether any of it is set.  Rows *)
(* are told apart by the question they answer, so that a query is served   *)
(* when its answer arrives.                                                *)
(***************************************************************************)
EXTENDS Client

CONSTANTS
  LastPage,     \* bound: pages of a list
  MaxHistory    \* bound: cursors in the history

ASSUME IncidentsAssumption == {LastPage, MaxHistory} \subseteq Nat

VARIABLES
  list,     \* local state of the list
  detail    \* local state of the page of one incident

incidentVars == <<list, detail>>

(* "shown" is the question the rows on screen answer, "latest" the fate of *)
(* the last one: both are history.                                         *)
MountedList ==
  [loading |-> TRUE, error |-> FALSE, filtered |-> FALSE,
   cursor |-> 0, history |-> <<>>, next |-> 0,
   shown |-> [team |-> None, cursor |-> 0], latest |-> "pending"]

MountedDetail ==
  [of |-> None, loading |-> TRUE, error |-> FALSE, incident |-> None]

IncidentsInit == list = MountedList /\ detail = MountedDetail

ListView == IF list.loading THEN "loading"
            ELSE IF list.error THEN "error" ELSE "table"

(* Clicks on the list. *)
Clicked == Room /\ detail.of = None

(* fetch(cursor): what it does to the state, and what it sends. *)
Fetching(l) == [l EXCEPT !.loading = TRUE, !.error = FALSE,
                         !.latest = "pending"]
ListCall(t, c) ==
  <<[op |-> "incidents", team |-> t, cursor |-> c, reply |-> NoReply]>>

Fetch(l, c) ==
  IF currentTeam = None
  THEN list' = l /\ UNCHANGED calls
  ELSE /\ list' = Fetching(l)
       /\ calls' = calls \o ListCall(currentTeam, c)

(* setCursor(c): the effect on the cursor fetches only if it changed. *)
GoTo(l, c) ==
  IF c = list.cursor THEN list' = l /\ UNCHANGED calls
  ELSE Fetch([l EXCEPT !.cursor = c], c)

(* Mutant: the history stays. *)
RewoundOnly(l) == [l EXCEPT !.cursor = 0]

(* Back on the first page, with nothing fetched. *)
Rewound(l) == [l EXCEPT !.cursor = 0, !.history = <<>>]

(* Mutant: another team's list starts on its first page. *)
ListSendsFirst(t) == ListCall(t, 0)

(* The effect on the team: what the list sends, and its state after. *)
ListSends(t) == ListCall(t, list.cursor)

ListRenders == list' = Fetching(list) /\ UNCHANGED detail

Refresh ==
  /\ Clicked /\ ListView # "loading"
  /\ Fetch(list, list.cursor)
  /\ UNCHANGED <<teamVars, detail>>

PickStatus(f) ==
  /\ Clicked
  /\ GoTo([Rewound(list) EXCEPT !.filtered = f], 0)
  /\ UNCHANGED <<teamVars, detail>>

Type(f) ==
  /\ detail.of = None /\ list.filtered # f
  /\ list' = [list EXCEPT !.filtered = f]
  /\ UNCHANGED <<calls, teamVars, detail>>

(* The handler fetches, and so does the effect if the cursor moved. *)
OnApply ==
  /\ Clicked
  /\ IF currentTeam = None
     THEN list' = Rewound(list) /\ UNCHANGED calls
     ELSE /\ list' = Fetching(Rewound(list))
          /\ calls' = calls \o ListCall(currentTeam, 0)
                        \o (IF list.cursor = 0 THEN <<>>
                            ELSE ListCall(currentTeam, 0))
  /\ UNCHANGED <<teamVars, detail>>

OnClear ==
  /\ Clicked /\ list.filtered
  /\ GoTo([Rewound(list) EXCEPT !.filtered = FALSE], 0)
  /\ UNCHANGED <<teamVars, detail>>

OnNext ==
  /\ Clicked /\ ListView = "table" /\ list.next # 0
  /\ Len(list.history) < MaxHistory
  /\ GoTo([list EXCEPT !.history = Append(@, list.cursor)], list.next)
  /\ UNCHANGED <<teamVars, detail>>

OnPrev ==
  /\ Clicked /\ ListView = "table" /\ list.history # <<>>
  /\ GoTo([list EXCEPT !.history = Front(@)], Last(list.history))
  /\ UNCHANGED <<teamVars, detail>>

ListArrives(i) ==
  /\ i \in Pending("incidents")
  /\ \E n \in {0, calls[i].cursor + 1} \cap (0 .. LastPage) :
       list' = [list EXCEPT !.loading = FALSE, !.latest = Fate(@, i),
                  !.next = n,
                  !.shown = [team |-> calls[i].team, cursor |-> calls[i].cursor]]
  /\ calls' = Others(i)
  /\ UNCHANGED <<teamVars, detail>>

ListFails(i) ==
  /\ i \in Pending("incidents")
  /\ list' = [list EXCEPT !.loading = FALSE, !.error = TRUE,
                          !.latest = FateOfFailed(@, i)]
  /\ calls' = Others(i)
  /\ UNCHANGED <<teamVars, detail>>

-----------------------------------------------------------------------------
(* The page of one incident; "of" is the team the incident belongs to.     *)
DetailView == IF detail.loading THEN "loading"
              ELSE IF detail.error \/ detail.incident = None THEN "error"
              ELSE "incident"

DetailCall(t) == <<Read("incident", t)>>
Opened(d) == [d EXCEPT !.loading = TRUE, !.error = FALSE]
DetailRenders == detail' = Opened(detail) /\ UNCHANGED list

(* A click on a row; the list is unmounted, its answers find nobody. *)
OpenIncident ==
  /\ Clicked /\ ListView = "table" /\ list.shown.team # None
  /\ currentTeam # None
  /\ detail' = [Opened(MountedDetail) EXCEPT !.of = list.shown.team]
  /\ list' = MountedList
  /\ calls' = Without(calls, "incidents")
                \o DetailCall(currentTeam)
  /\ UNCHANGED teamVars

BackToIncidents ==
  /\ Room /\ detail.of # None /\ DetailView # "loading" /\ currentTeam # None
  /\ detail' = MountedDetail
  /\ list' = Fetching(MountedList)
  /\ calls' = Without(calls, "incident")
                \o ListCall(currentTeam, 0)
  /\ UNCHANGED teamVars

DetailArrives(i) ==
  /\ i \in Pending("incident")
  /\ calls[i].team = detail.of        \* else the server answers 404
  /\ detail' = [detail EXCEPT !.loading = FALSE, !.incident = detail.of]
  /\ calls' = Others(i)
  /\ UNCHANGED <<teamVars, list>>

DetailFails(i) ==
  /\ i \in Pending("incident")
  /\ detail' = [detail EXCEPT !.loading = FALSE, !.error = TRUE]
  /\ calls' = Others(i)
  /\ UNCHANGED <<teamVars, list>>

-----------------------------------------------------------------------------
(* Walking back always ends on the first page: the list is on its first    *)
(* page exactly when no cursor is left to go back to, and the oldest       *)
(* cursor in the history, and only that one, is the first page.            *)
HistoryBottomsOut ==
  /\ (list.cursor = 0) <=> (list.history = <<>>)
  /\ \A i \in DOMAIN list.history : (list.history[i] = 0) <=> (i = 1)

(* When no answer is outstanding, the rows on screen are those of the      *)
(* current team and the current cursor, unless the answer to an older      *)
(* question arrived last (no request is cancelled or numbered); and an     *)
(* incident is shown only while its own team is the current one, in        *)
(* whatever order the answers came.                                        *)
ListAnswersTheCursor ==
  (Pending("incidents") = {} /\ ListView = "table"
      /\ list.latest = "shown")
    => list.shown = [team |-> currentTeam, cursor |-> list.cursor]
DetailIsOfTheTeam ==
  (Pending("incident") = {} /\ DetailView = "incident")
    => detail.incident = currentTeam
IncidentsAreOfTheTeam == ListAnswersTheCursor /\ DetailIsOfTheTeam
=============================================================================
