---------------------------- MODULE PagesProofs ----------------------------
(***************************************************************************)
(* The client, for any number of teams, people, pages, calls in flight and *)
(* presses of a button: what happens to the calls in flight; the history   *)
(* of the list of incidents; and the session.                              *)
(***************************************************************************)
EXTENDS Pages, SequenceTheorems, TLAPS

(* The calls in flight are a sequence, whatever they are.                   *)
IsSequence(s) == \E S : s \in Seq(S)

(* t has the entries of s but for the i-th, each where it was or before.    *)
Fewer(s, t, i) ==
  \E f \in [DOMAIN t -> DOMAIN s \ {i}] :
    /\ \A j, k \in DOMAIN t : (f[j] < f[k]) <=> (j < k)
    /\ \A j, k \in DOMAIN t : f[j] = f[k] => j = k
    /\ \A j \in DOMAIN t : t[j] = s[f[j]]
    /\ \A k \in DOMAIN s \ {i} : \E j \in DOMAIN t : f[j] = k

(* t has the entries of s and e.                                            *)
More(s, t, e) ==
  /\ Len(s) \in Nat /\ DOMAIN s = 1 .. Len(s)
  /\ DOMAIN t = 1 .. (Len(s) + 1)
  /\ \A i \in DOMAIN s : t[i] = s[i]
  /\ t[Len(s) + 1] = e

LEMMA EmptyIsSequence == IsSequence(<<>>)
<1>1. <<>> \in Seq({})
  OBVIOUS
<1> QED  BY <1>1 DEF IsSequence

LEMMA AppendIsMore ==
  ASSUME NEW s, IsSequence(s), NEW e
  PROVE  IsSequence(Append(s, e)) /\ More(s, Append(s, e), e)
<1>1. PICK S : s \in Seq(S)
  BY DEF IsSequence
<1>2. s \in Seq(S \cup {e})
  BY <1>1
<1>3. Append(s, e) \in Seq(S \cup {e})
  BY <1>2
<1>4. More(s, Append(s, e), e)
  BY <1>2 DEF More
<1> QED  BY <1>3, <1>4 DEF IsSequence

LEMMA Spliced ==
  ASSUME NEW S, NEW p \in Seq(S), NEW q \in Seq(S)
  PROVE  /\ p \o q \in Seq(S)
         /\ Len(p) \in Nat /\ Len(q) \in Nat
         /\ Len(p \o q) = Len(p) + Len(q)
         /\ DOMAIN (p \o q) = 1 .. (Len(p) + Len(q))
         /\ \A j \in 1 .. (Len(p) + Len(q)) :
              /\ j <= Len(p) => (p \o q)[j] = p[j]
              /\ ~(j <= Len(p)) => (p \o q)[j] = q[j - Len(p)]
BY ConcatProperties, LenProperties

LEMMA RemoveIsFewer ==
  ASSUME NEW s, IsSequence(s), NEW i \in DOMAIN s
  PROVE  IsSequence(RemoveAt(s, i)) /\ Fewer(s, RemoveAt(s, i), i)
<1> DEFINE t == RemoveAt(s, i)
           f == [j \in DOMAIN t |-> IF j < i THEN j ELSE j + 1]
<1>1. PICK S : s \in Seq(S)
  BY DEF IsSequence
<1>2. Len(s) \in Nat /\ DOMAIN s = 1 .. Len(s) /\ i \in Nat \ {0} /\ i <= Len(s)
  BY <1>1
<1>3. /\ SubSeq(s, 1, i - 1) \in Seq(S)
      /\ Len(SubSeq(s, 1, i - 1)) = i - 1
      /\ \A j \in 1 .. (i - 1) : SubSeq(s, 1, i - 1)[j] = s[j]
  BY <1>1, <1>2
<1>4. /\ SubSeq(s, i + 1, Len(s)) \in Seq(S)
      /\ Len(SubSeq(s, i + 1, Len(s))) = Len(s) - i
      /\ \A j \in 1 .. (Len(s) - i) : SubSeq(s, i + 1, Len(s))[j] = s[j + i]
  BY <1>1, <1>2
<1>5. /\ t \in Seq(S) /\ Len(t) = Len(s) - 1 /\ DOMAIN t = 1 .. (Len(s) - 1)
      /\ \A j \in DOMAIN t : t[j] = s[IF j < i THEN j ELSE j + 1]
  <2>1. PICK p \in Seq(S) :
          /\ p = SubSeq(s, 1, i - 1) /\ Len(p) = i - 1
          /\ \A j \in 1 .. (i - 1) : p[j] = s[j]
    BY <1>3
  <2>2. PICK q \in Seq(S) :
          /\ q = SubSeq(s, i + 1, Len(s)) /\ Len(q) = Len(s) - i
          /\ \A j \in 1 .. (Len(s) - i) : q[j] = s[j + i]
    BY <1>4
  <2>3. t = p \o q
    BY <2>1, <2>2 DEF RemoveAt
  <2> HIDE DEF t
  <2>4. /\ t \in Seq(S) /\ Len(t) = Len(s) - 1
        /\ DOMAIN t = 1 .. (Len(s) - 1)
        /\ \A j \in DOMAIN t :
             /\ j <= i - 1 => t[j] = p[j]
             /\ ~(j <= i - 1) => t[j] = q[j - (i - 1)]
    <3>2. Len(p) = i - 1 /\ Len(q) = Len(s) - i
      BY <2>1, <2>2
    <3>1. Len(p) + Len(q) = Len(s) - 1
      BY <1>2, <3>2
    <3>3. p \in Seq(S) /\ q \in Seq(S)
      BY <2>1, <2>2
    <3>4. /\ p \o q \in Seq(S) /\ Len(p \o q) = Len(p) + Len(q)
          /\ DOMAIN (p \o q) = 1 .. (Len(p) + Len(q))
          /\ \A j \in 1 .. (Len(p) + Len(q)) :
               /\ j <= Len(p) => (p \o q)[j] = p[j]
               /\ ~(j <= Len(p)) => (p \o q)[j] = q[j - Len(p)]
      BY <3>3, Spliced
    <3> QED  BY <2>3, <3>1, <3>2, <3>4
  <2>5. ASSUME NEW j \in DOMAIN t, j < i  PROVE t[j] = s[j]
    <3>1. j \in 1 .. (i - 1) /\ j <= i - 1
      BY <1>2, <2>4, <2>5
    <3> QED  BY <2>1, <2>4, <3>1
  <2>6. ASSUME NEW j \in DOMAIN t, ~(j < i)  PROVE t[j] = s[j + 1]
    <3>1. /\ j - (i - 1) \in 1 .. (Len(s) - i) /\ ~(j <= i - 1)
          /\ (j - (i - 1)) + i = j + 1
      BY <1>2, <2>4, <2>6
    <3> QED  BY <2>2, <2>4, <3>1
  <2> QED  BY <2>3, <2>4, <2>5, <2>6
<1> HIDE DEF t
<1>6. f \in [DOMAIN t -> DOMAIN s \ {i}]
  BY <1>2, <1>5
<1>7. /\ \A j, k \in DOMAIN t : (f[j] < f[k]) <=> (j < k)
      /\ \A j, k \in DOMAIN t : f[j] = f[k] => j = k
      /\ \A j \in DOMAIN t : t[j] = s[f[j]]
  BY <1>2, <1>5
<1>8. ASSUME NEW k \in DOMAIN s \ {i}  PROVE \E j \in DOMAIN t : f[j] = k
  <2>1. CASE k < i
    BY <1>2, <1>5, <2>1
  <2>2. CASE k > i
    <3>1. k - 1 \in DOMAIN t /\ f[k - 1] = k
      BY <1>2, <1>5, <2>2
    <3> QED  BY <3>1
  <2> QED  BY <1>2, <2>1, <2>2
<1>9. Fewer(s, t, i)
  BY <1>6, <1>7, <1>8 DEF Fewer
<1> QED  BY <1>5, <1>9 DEF IsSequence, t

-----------------------------------------------------------------------------
(* Every call has its parts.                                                *)
IsACall(c) ==
  /\ {"op", "reply"} \subseteq DOMAIN c
  /\ c.op \in {"me", "page"} => {"token", "mine"} \subseteq DOMAIN c

AreCalls == IsSequence(calls) /\ \A i \in DOMAIN calls : IsACall(calls[i])

(* What becomes of the calls in flight: one more, one served, one less.     *)
LEMMA OneMore ==
  ASSUME AreCalls, NEW e, IsACall(e), calls' = Append(calls, e)
  PROVE  /\ AreCalls' /\ Len(calls) + 1 \notin DOMAIN calls
         /\ DOMAIN calls' = DOMAIN calls \cup {Len(calls) + 1}
         /\ \A i \in DOMAIN calls : calls'[i] = calls[i]
         /\ calls'[Len(calls) + 1] = e
<1>1. IsSequence(calls') /\ More(calls, calls', e)
  BY AppendIsMore DEF AreCalls
<1>2. /\ Len(calls) + 1 \notin DOMAIN calls
      /\ DOMAIN calls' = DOMAIN calls \cup {Len(calls) + 1}
  BY <1>1 DEF More
<1> QED  BY <1>1, <1>2 DEF More, AreCalls

LEMMA OneServed ==
  ASSUME AreCalls, NEW i \in DOMAIN calls, NEW r, Reply(i, r)
  PROVE  /\ AreCalls' /\ DOMAIN calls' = DOMAIN calls
         /\ \A j \in DOMAIN calls : j # i => calls'[j] = calls[j]
         /\ \A x \in DOMAIN calls[i] :
              x # "reply" => calls'[i][x] = calls[i][x]
         /\ calls'[i].op = calls[i].op /\ calls'[i].reply = r
<1>1. PICK S : calls \in Seq(S)
  BY DEF AreCalls, IsSequence
<1>2. calls' = [calls EXCEPT ![i] = [calls[i] EXCEPT !.reply = r]]
  BY DEF Reply
<1>3. calls' \in Seq(S \cup {[calls[i] EXCEPT !.reply = r]})
  <2> DEFINE T == S \cup {[calls[i] EXCEPT !.reply = r]}
  <2>1. calls \in Seq(T) /\ i \in 1 .. Len(calls)
    BY <1>1, SeqMonotonic, LenProperties
  <2> QED  BY <1>2, <2>1, ExceptSeq
<1>4. /\ DOMAIN calls' = DOMAIN calls
      /\ \A j \in DOMAIN calls : j # i => calls'[j] = calls[j]
      /\ calls'[i] = [calls[i] EXCEPT !.reply = r]
  BY <1>2
<1>5. /\ DOMAIN calls'[i] = DOMAIN calls[i]
      /\ \A x \in DOMAIN calls[i] :
           x # "reply" => calls'[i][x] = calls[i][x]
      /\ calls'[i].op = calls[i].op /\ calls'[i].reply = r
  BY <1>4 DEF AreCalls, IsACall
<1>6. \A j \in DOMAIN calls' : IsACall(calls'[j])
  BY <1>4, <1>5 DEF AreCalls, IsACall
<1> QED  BY <1>3, <1>4, <1>5, <1>6 DEF AreCalls, IsSequence

LEMMA OneLess ==
  ASSUME AreCalls, NEW i \in DOMAIN calls, calls' = Others(i)
  PROVE  AreCalls' /\ Fewer(calls, calls', i)
<1>1. IsSequence(calls') /\ Fewer(calls, calls', i)
  BY RemoveIsFewer DEF AreCalls, Others
<1>2. \A j \in DOMAIN calls' : IsACall(calls'[j])
  BY <1>1 DEF AreCalls, Fewer
<1> QED  BY <1>1, <1>2 DEF AreCalls

-----------------------------------------------------------------------------
(* The history of the list of incidents.  The invariant speaks of its      *)
(* entries, so it has to know what they are; the other fields of the list  *)
(* do not matter, only that changing them leaves these alone.              *)
Fields == {"loading", "error", "filtered", "cursor", "history", "next",
           "shown", "latest"}

ListIsTyped(l) ==
  /\ l = [x \in Fields |-> l[x]]
  /\ l.cursor \in Nat /\ l.next \in Nat /\ l.history \in Seq(Nat)

Bottoms(l) ==
  /\ (l.cursor = 0) <=> (l.history = <<>>)
  /\ \A i \in DOMAIN l.history : (l.history[i] = 0) <=> (i = 1)

ListInv(l) == ListIsTyped(l) /\ Bottoms(l)

-----------------------------------------------------------------------------
(* The history grows and shrinks at its end. *)
LEMMA PushKeeps ==
  ASSUME NEW s \in Seq(Nat), NEW c \in Nat, (c = 0) <=> (s = <<>>),
         \A i \in DOMAIN s : (s[i] = 0) <=> (i = 1)
  PROVE  /\ Append(s, c) \in Seq(Nat) /\ Append(s, c) # <<>>
         /\ \A i \in DOMAIN Append(s, c) : (Append(s, c)[i] = 0) <=> (i = 1)
<1> DEFINE h == Append(s, c)
<1>1. /\ Len(s) \in Nat /\ h \in Seq(Nat) /\ Len(h) = Len(s) + 1
      /\ DOMAIN s = 1 .. Len(s) /\ DOMAIN h = 1 .. (Len(s) + 1)
  OBVIOUS
<1>2. h[Len(s) + 1] = c /\ \A i \in 1 .. Len(s) : h[i] = s[i]
  OBVIOUS
<1>3. (s = <<>>) <=> (Len(s) = 0)
  OBVIOUS
<1>4. h # <<>>
  BY <1>1
<1> HIDE DEF h
<1>5. ASSUME NEW i \in DOMAIN h  PROVE (h[i] = 0) <=> (i = 1)
  <2>1. CASE i = Len(s) + 1
    BY <1>1, <1>2, <1>3, <2>1
  <2>2. CASE i \in 1 .. Len(s)
    BY <1>1, <1>2, <2>2
  <2> QED  BY <1>1, <2>1, <2>2
<1> QED  BY <1>1, <1>4, <1>5 DEF h

LEMMA PopKeeps ==
  ASSUME NEW s \in Seq(Nat), s # <<>>,
         \A i \in DOMAIN s : (s[i] = 0) <=> (i = 1)
  PROVE  /\ Last(s) \in Nat /\ Front(s) \in Seq(Nat)
         /\ (Last(s) = 0) <=> (Front(s) = <<>>)
         /\ \A i \in DOMAIN Front(s) : (Front(s)[i] = 0) <=> (i = 1)
<1> DEFINE h == Front(s)
<1>1. Len(s) \in Nat \ {0} /\ DOMAIN s = 1 .. Len(s)
  OBVIOUS
<1>2. h = SubSeq(s, 1, Len(s) - 1)
  BY DEF Front
<1>3. /\ h \in Seq(Nat) /\ Len(h) = Len(s) - 1
      /\ DOMAIN h = 1 .. (Len(s) - 1)
      /\ \A i \in 1 .. (Len(s) - 1) : h[i] = s[i]
  <2> HIDE DEF h
  <2>1. Len(h) = Len(s) - 1 /\ \A i \in 1 .. (Len(s) - 1) : h[i] = s[i]
    BY <1>1, <1>2
  <2>2. h \in Seq(Nat)
    BY <1>1, <1>2
  <2> QED  BY <1>1, <2>1, <2>2
<1>4. (h = <<>>) <=> (Len(s) = 1)
  BY <1>1, <1>3
<1>5. Last(s) = s[Len(s)] /\ Last(s) \in Nat
  BY <1>1 DEF Last
<1>6. (Last(s) = 0) <=> (h = <<>>)
  BY <1>1, <1>4, <1>5
<1>7. \A i \in DOMAIN h : (h[i] = 0) <=> (i = 1)
  <2> HIDE DEF h
  <2> TAKE i \in DOMAIN h
  <2>1. i \in DOMAIN s /\ h[i] = s[i]
    BY <1>1, <1>3
  <2> QED  BY <2>1
<1> QED  BY <1>3, <1>5, <1>6, <1>7

-----------------------------------------------------------------------------
(* What the handlers do to the list, one idea each. *)

(* Fetching changes neither the cursor nor the history. *)
LEMMA FetchingKeeps ==
  ASSUME NEW l, ListInv(l)
  PROVE  ListInv(Fetching(l))
BY DEF ListInv, ListIsTyped, Bottoms, Fetching, Fields

(* Going to a page: fetched anew, or the page that is there already. *)
LEMMA GoingKeeps ==
  ASSUME NEW l, NEW c \in Nat, l = [x \in Fields |-> l[x]],
         ListInv([l EXCEPT !.cursor = c]), GoTo(l, c), l.cursor \in {list.cursor, c}
  PROVE  ListInv(list')
<1> DEFINE m == [l EXCEPT !.cursor = c]
<1>1. CASE c = list.cursor
  <2>1. l = m
    BY <1>1 DEF Fields
  <2> QED  BY <1>1, <2>1 DEF GoTo
<1>2. CASE c # list.cursor
  <2>1. Fetch(m, c)
    BY <1>2 DEF GoTo
  <2>2. list' = m \/ list' = Fetching(m)
    BY <2>1 DEF Fetch
  <2> QED  BY <2>2, FetchingKeeps
<1> QED  BY <1>1, <1>2

(* Back on the first page, with whatever filter. *)
LEMMA RewoundKeeps ==
  ASSUME NEW l, ListInv(l), NEW f
  PROVE  /\ ListInv(Rewound(l))
         /\ ListInv([Rewound(l) EXCEPT !.filtered = f])
<1>1. <<>> \in Seq(Nat) /\ DOMAIN <<>> = {}
  OBVIOUS
<1>2. ListInv(Rewound(l))
  BY <1>1 DEF ListInv, ListIsTyped, Bottoms, Rewound, Fields
<1>3. ASSUME NEW k, ListInv(k)
      PROVE  ListInv([k EXCEPT !.filtered = f])
  BY <1>3 DEF ListInv, ListIsTyped, Bottoms, Fields
<1> QED  BY <1>2, <1>3

LEMMA MountedHolds == ListInv(MountedList)
BY DEF ListInv, ListIsTyped, Bottoms, MountedList, Fields

-----------------------------------------------------------------------------
(* The controls of the list. *)
LEMMA ClicksKeep ==
  ASSUME ListInv(list), IncidentClicks
  PROVE  ListInv(list')
<1>1. CASE Refresh
  <2>1. list' = list \/ list' = Fetching(list)
    BY <1>1 DEF Refresh, Fetch
  <2> QED  BY <2>1, FetchingKeeps
<1>2. ASSUME NEW f \in BOOLEAN, PickStatus(f)
      PROVE  ListInv(list')
  <2> DEFINE l == [Rewound(list) EXCEPT !.filtered = f]
  <2>1. ListInv(l) /\ l.cursor = 0 /\ l = [l EXCEPT !.cursor = 0]
    BY RewoundKeeps DEF ListInv, ListIsTyped, Rewound, Fields
  <2>2. GoTo(l, 0)
    BY <1>2 DEF PickStatus
  <2> QED  BY <2>1, <2>2, GoingKeeps DEF ListInv, ListIsTyped
<1>3. ASSUME NEW f \in BOOLEAN, Type(f)
      PROVE  ListInv(list')
  BY <1>3 DEF Type, ListInv, ListIsTyped, Bottoms, Fields
<1>4. CASE OnApply
  <2>1. list' = Rewound(list) \/ list' = Fetching(Rewound(list))
    BY <1>4 DEF OnApply
  <2> QED  BY <2>1, RewoundKeeps, FetchingKeeps
<1>5. CASE OnClear
  <2> DEFINE l == [Rewound(list) EXCEPT !.filtered = FALSE]
  <2>1. ListInv(l) /\ l.cursor = 0 /\ l = [l EXCEPT !.cursor = 0]
    BY RewoundKeeps DEF ListInv, ListIsTyped, Rewound, Fields
  <2>2. GoTo(l, 0)
    BY <1>5 DEF OnClear
  <2> QED  BY <2>1, <2>2, GoingKeeps DEF ListInv, ListIsTyped
<1>6. CASE OnNext
  <2> DEFINE h == Append(list.history, list.cursor)
             l == [list EXCEPT !.history = h]
             m == [l EXCEPT !.cursor = list.next]
  <2>1. list.next \in Nat /\ list.next # 0 /\ GoTo(l, list.next)
    BY <1>6 DEF OnNext, ListInv, ListIsTyped
  <2>2. /\ h \in Seq(Nat) /\ h # <<>>
        /\ \A i \in DOMAIN h : (h[i] = 0) <=> (i = 1)
    BY PushKeeps DEF ListInv, ListIsTyped, Bottoms
  <2>3. /\ m = [x \in Fields |-> m[x]] /\ l = [x \in Fields |-> l[x]]
        /\ m.cursor = list.next /\ m.history = h /\ m.next = list.next
        /\ l.cursor = list.cursor
    BY DEF ListInv, ListIsTyped, Fields
  <2>4. ListInv(m)
    BY <2>1, <2>2, <2>3 DEF ListInv, ListIsTyped, Bottoms
  <2> QED  BY <2>1, <2>3, <2>4, GoingKeeps
<1>7. CASE OnPrev
  <2> DEFINE h == Front(list.history)
             c == Last(list.history)
             l == [list EXCEPT !.history = h]
             m == [l EXCEPT !.cursor = c]
  <2>1. list.history # <<>> /\ GoTo(l, c)
    BY <1>7 DEF OnPrev
  <2>2. /\ c \in Nat /\ h \in Seq(Nat)
        /\ (c = 0) <=> (h = <<>>)
        /\ \A i \in DOMAIN h : (h[i] = 0) <=> (i = 1)
    BY <2>1, PopKeeps DEF ListInv, ListIsTyped, Bottoms
  <2>3. /\ m = [x \in Fields |-> m[x]] /\ l = [x \in Fields |-> l[x]]
        /\ m.cursor = c /\ m.history = h /\ m.next = list.next
        /\ l.cursor = list.cursor /\ list.next \in Nat
    BY DEF ListInv, ListIsTyped, Fields
  <2>4. ListInv(m)
    BY <2>2, <2>3 DEF ListInv, ListIsTyped, Bottoms
  <2> QED  BY <2>1, <2>2, <2>3, <2>4, GoingKeeps
<1>8. CASE OpenIncident
  BY <1>8, MountedHolds DEF OpenIncident
<1>9. CASE BackToIncidents
  BY <1>9, MountedHolds, FetchingKeeps DEF BackToIncidents
<1> QED
  BY <1>1, <1>2, <1>3, <1>4, <1>5, <1>6, <1>7, <1>8, <1>9 DEF IncidentClicks

(* The answers: of the list, they bring rows and the next cursor. *)
LEMMA AnswersKeep ==
  ASSUME ListInv(list), IncidentAnswers
  PROVE  ListInv(list')
<1>1. PICK i \in DOMAIN calls :
        ListArrives(i) \/ ListFails(i) \/ DetailArrives(i) \/ DetailFails(i)
  BY DEF IncidentAnswers
<1>2. CASE ListArrives(i)
  <2>1. PICK n \in {0, calls[i].cursor + 1} \cap (0 .. LastPage) :
          list' = [list EXCEPT !.loading = FALSE, !.latest = Fate(@, i),
                     !.next = n,
                     !.shown = [team |-> calls[i].team, cursor |-> calls[i].cursor]]
    BY <1>2 DEF ListArrives
  <2>2. n \in Nat
    BY <2>1
  <2> QED  BY <2>1, <2>2 DEF ListInv, ListIsTyped, Bottoms, Fields
<1>3. CASE ListFails(i)
  BY <1>3 DEF ListFails, ListInv, ListIsTyped, Bottoms, Fields
<1>4. CASE DetailArrives(i) \/ DetailFails(i)
  BY <1>4 DEF DetailArrives, DetailFails
<1> QED  BY <1>1, <1>2, <1>3, <1>4

(* The effect on the team. *)
LEMMA EffectKeeps ==
  ASSUME ListInv(list), NEW t, EffectRenders(t)
  PROVE  ListInv(list')
<1>1. list' = list \/ list' = Fetching(list)
  BY DEF EffectRenders, ListRenders, DetailRenders, pageVars, incidentVars
<1> QED  BY <1>1, FetchingKeeps

LEMMA RerenderKeeps ==
  ASSUME ListInv(list), NEW t, NEW fresh, Rerender(t, fresh)
  PROVE  ListInv(list')
<1>1. EffectRenders(t) \/ UNCHANGED pageVars
  BY DEF Rerender
<1> QED  BY <1>1, EffectKeeps DEF pageVars, incidentVars

-----------------------------------------------------------------------------
LEMMA InitHolds == Init => ListInv(list)
BY MountedHolds DEF Init, IncidentsInit

LEMMA NextKeeps ==
  ASSUME ListInv(list), [Next]_vars
  PROVE  ListInv(list')
<1>1. CASE Mount
  BY <1>1, EffectKeeps DEF Mount
<1>2. CASE Clicks
  <2>1. CASE TeamClicks
    <3>1. CASE SwitchTeam
      BY <3>1, RerenderKeeps DEF SwitchTeam
    <3> QED  BY <2>1, <3>1 DEF TeamClicks, pageVars, incidentVars
  <2>2. CASE IncidentClicks
    BY <2>2, ClicksKeep
  <2>3. CASE PluginClicks \/ ListClicks \/ RowClicks \/ NewClicks \/ TeamPageClicks
    BY <2>3 DEF PluginClicks, ListClicks, RowClicks, NewClicks, TeamPageClicks,
                incidentVars
  <2> QED  BY <1>2, <2>1, <2>2, <2>3 DEF Clicks
<1>3. CASE Answers
  <2>1. CASE TeamAnswers
    <3>1. PICK i \in DOMAIN calls :
            \/ \E t : Rerender(t, FALSE) \/ Rerender(t, TRUE)
            \/ UNCHANGED pageVars
      BY <2>1 DEF TeamAnswers
    <3> QED  BY <3>1, RerenderKeeps DEF pageVars, incidentVars
  <2>2. CASE IncidentAnswers
    BY <2>2, AnswersKeep
  <2>3. CASE PluginAnswers \/ MonitorAnswers \/ TeamPageAnswers
    BY <2>3 DEF PluginAnswers, MonitorAnswers, TeamPageAnswers, incidentVars
  <2> QED  BY <1>3, <2>1, <2>2, <2>3 DEF Answers
<1>4. CASE TeamServed \/ PluginServed \/ MonitorServed \/ TeamPageServed
  BY <1>4 DEF TeamServed, PluginServed, MonitorServed, TeamPageServed,
              pageVars, incidentVars
<1>5. CASE SessionStep
  BY <1>5 DEF SessionStep, pageVars, incidentVars
<1>6. CASE UNCHANGED vars
  BY <1>6 DEF vars, pageVars, incidentVars
<1> QED
  BY <1>1, <1>2, <1>3, <1>4, <1>5, <1>6 DEF Next, PageStep

(* Whatever is pressed in whatever order, and whenever answers come, Prev  *)
(* leads back to the first page and no further (onNext, onPrev, onApply,   *)
(* onClear and the status pills of the list of incidents).                 *)
THEOREM HistoryBottomsOutHolds == Spec => []HistoryBottomsOut
<1>1. Init => ListInv(list)
  BY InitHolds
<1>2. ListInv(list) /\ [Next]_vars => ListInv(list)'
  BY NextKeeps
<1>3. ListInv(list) => HistoryBottomsOut
  BY DEF ListInv, Bottoms, HistoryBottomsOut
<1> QED  BY <1>1, <1>2, <1>3, PTL DEF Spec

-----------------------------------------------------------------------------
(* The session.  Where the browser may be on its way to.                    *)
NavInv ==
  /\ nav = [to |-> nav.to, hard |-> nav.hard] /\ nav.hard \in BOOLEAN
  /\ ~nav.hard =>
       /\ nav.to \in {None, "/signin", "/register"} \cup Guarded
       /\ nav.to = "/plugins" => at \in Guarded
  /\ at \in AuthPages /\ nav = Here => cookie = 0

AtMostOne(op) == \A i, j \in Pending(op) : i = j

(* A guard asks once, on a page that is not shown yet, with the token there *)
(* is, unless that was cleared; and nothing leads away before the answer.   *)
Loose == leaving \/ Pending("signUp") # {} \/ nav # Here
GuardInv ==
  /\ AtMostOne("me")
  /\ \A i \in Pending("me") :
       /\ at \in Guarded /\ ~ready
       /\ calls[i].token = token \/ (token = 0 /\ nav.hard)
       /\ Loose => cookie # 0 \/ nav.hard

(* Somebody signs in on the page for it, and stays there.                   *)
LoginInv ==
  /\ AtMostOne("login")
  /\ Pending("login") # {} =>
       /\ at = "/signin" /\ cookie = 0 /\ accounts # {}
       /\ nav = Here \/ nav.hard \/ nav.to \in {"/signin", "/register"}

TokenInv ==
  /\ IsSequence(minted)
  /\ token \in DOMAIN minted \cup {0}
  /\ \A i \in Pending("login") :
       Served(i) => calls[i].reply.token \in DOMAIN minted

Signed == AreCalls /\ NavInv /\ GuardInv /\ LoginInv /\ TokenInv
            /\ (at \in Guarded /\ ready /\ token # 0 => profile = minted[token])

-----------------------------------------------------------------------------
(* A navigation that is asked for, and one that is under way.               *)
LEMMA Pushed ==
  ASSUME NavInv, NEW p \in {"/signin", "/monitors"},
         Push(p) \/ nav' = [to |-> p, hard |-> TRUE]
  PROVE  NavInv' /\ nav' # Here /\ (nav'.hard \/ nav'.to = p)
         /\ (nav.hard => nav'.hard)
<1>1. p # None /\ p \in {"/signin", "/register"} \cup Guarded /\ p # "/plugins"
  BY AddressAssumption DEF Guarded, AuthPages
<1>2. CASE nav' = nav /\ nav.hard
  <2>1. nav' # Here
    BY <1>2 DEF Here
  <2> QED  BY <1>2, <2>1 DEF NavInv
<1>3. CASE \E h \in BOOLEAN : nav' = [to |-> p, hard |-> h] /\ (nav.hard => h)
  <2>1. PICK h \in BOOLEAN : nav' = [to |-> p, hard |-> h] /\ (nav.hard => h)
    BY <1>3
  <2>2. nav'.to = p /\ nav'.hard = h /\ nav' = [to |-> nav'.to, hard |-> nav'.hard]
    BY <2>1
  <2>3. nav' # Here
    BY <1>1, <2>2 DEF Here
  <2> QED  BY <1>1, <2>1, <2>2, <2>3 DEF NavInv
<1> QED  BY <1>2, <1>3 DEF Push, NavInv

-----------------------------------------------------------------------------
(* One call less, which was not the guard's, or was.                        *)
LEMMA LessPending ==
  ASSUME NEW i \in DOMAIN calls, Fewer(calls, calls', i), NEW op
  PROVE  /\ AtMostOne(op) => AtMostOne(op)'
         /\ Pending(op) = {} => Pending(op)' = {}
         /\ AtMostOne(op) /\ i \in Pending(op) => Pending(op)' = {}
         /\ \A j \in Pending(op)' : \E k \in Pending(op) : calls'[j] = calls[k]
BY DEF Fewer, AtMostOne, Pending

LEMMA MorePending ==
  ASSUME NEW e, NEW n, n \notin DOMAIN calls, DOMAIN calls' = DOMAIN calls \cup {n},
         \A i \in DOMAIN calls : calls'[i] = calls[i], calls'[n] = e, NEW op
  PROVE  /\ e.op # op => Pending(op)' = Pending(op)
         /\ e.op = op => Pending(op)' = Pending(op) \cup {n}
BY DEF Pending

-----------------------------------------------------------------------------
(* An answer that finds nobody, or a form that shows its error.             *)
LEMMA AnswerLost ==
  ASSUME Signed, NEW i \in DOMAIN calls, calls' = Others(i),
         UNCHANGED sessionVars
  PROVE  Signed'
<1>1. AreCalls' /\ Fewer(calls, calls', i)
  BY OneLess DEF Signed
<1>2. \A op : /\ AtMostOne(op) => AtMostOne(op)'
              /\ Pending(op) = {} => Pending(op)' = {}
              /\ \A j \in Pending(op)' : \E k \in Pending(op) : calls'[j] = calls[k]
  BY <1>1, LessPending
<1>3. GuardInv'
  BY <1>2 DEF Signed, GuardInv, sessionVars, Loose, Here
<1>4. LoginInv' /\ NavInv'
  BY <1>2 DEF Signed, LoginInv, NavInv, sessionVars, Here
<1>5. TokenInv'
  BY <1>2 DEF Signed, TokenInv, sessionVars, Served
<1> QED  BY <1>1, <1>3, <1>4, <1>5 DEF Signed, sessionVars

LEMMA LoginSucceedsKeeps ==
  ASSUME Signed, NEW i \in DOMAIN calls, LoginSucceeds(i)
  PROVE  Signed'
<1> USE DEF Signed, LoginSucceeds, StoreToken, Push, serverVars, screenVars
<1>1. AreCalls' /\ Fewer(calls, calls', i)
  BY OneLess
<1>2. \A op : /\ AtMostOne(op) => AtMostOne(op)'
              /\ Pending(op) = {} => Pending(op)' = {}
              /\ AtMostOne(op) /\ i \in Pending(op) => Pending(op)' = {}
  BY <1>1, LessPending
<1>3. at = "/signin" /\ Pending("me")' = {} /\ Pending("login")' = {}
  BY <1>2 DEF LoginInv, GuardInv, Guarded
<1>4. NavInv'
  BY Pushed DEF Push
<1>5. token' \in DOMAIN minted
  BY DEF TokenInv
<1> QED
  BY <1>1, <1>3, <1>4, <1>5
     DEF GuardInv, LoginInv, TokenInv, AtMostOne, Guarded

LEMMA SignUpSucceedsKeeps ==
  ASSUME Signed, NEW i \in DOMAIN calls, SignUpSucceeds(i)
  PROVE  Signed'
<1> USE DEF Signed, SignUpSucceeds, serverVars
<1>1. AreCalls' /\ Fewer(calls, calls', i)
  BY OneLess
<1>2. \A op : /\ AtMostOne(op) => AtMostOne(op)'
              /\ Pending(op) = {} => Pending(op)' = {}
              /\ \A j \in Pending(op)' : \E k \in Pending(op) : calls'[j] = calls[k]
  BY <1>1, LessPending
<1>3. Loose' => Loose
  BY <1>2 DEF Loose, Here
<1>4. GuardInv'
  BY <1>2, <1>3 DEF GuardInv
<1>5. LoginInv' /\ NavInv'
  BY <1>2 DEF LoginInv, NavInv, Here
<1>6. TokenInv'
  BY <1>2 DEF TokenInv, Served
<1> QED  BY <1>1, <1>4, <1>5, <1>6

LEMMA MeSucceedsKeeps ==
  ASSUME Signed, NEW i \in DOMAIN calls, MeSucceeds(i)
  PROVE  Signed'
<1> USE DEF Signed, MeSucceeds, serverVars
<1>1. AreCalls' /\ Fewer(calls, calls', i)
  BY OneLess
<1>2. \A op : /\ AtMostOne(op) => AtMostOne(op)'
              /\ Pending(op) = {} => Pending(op)' = {}
              /\ AtMostOne(op) /\ i \in Pending(op) => Pending(op)' = {}
              /\ \A j \in Pending(op)' : \E k \in Pending(op) : calls'[j] = calls[k]
  BY <1>1, LessPending
<1>3. Pending("me")' = {}
  BY <1>2 DEF GuardInv
<1>4. GuardInv'
  BY <1>3 DEF GuardInv, AtMostOne
<1>5. LoginInv' /\ NavInv'
  BY <1>2 DEF LoginInv, NavInv, Here
<1>6. TokenInv'
  BY <1>2 DEF TokenInv, Served
<1>7. token # 0 => profile' = minted[token]
  BY DEF GuardInv
<1> QED  BY <1>1, <1>4, <1>5, <1>6, <1>7

LEMMA ClearedKeeps ==
  ASSUME Signed, NEW i \in Pending("me") \cup Pending("page"), calls' = Others(i),
         ClearToken, UNCHANGED <<serverVars, profile, screenVars>>,
         \/ i \in Pending("me") /\ Push("/signin")
         \/ nav' = [to |-> "/signin", hard |-> TRUE]
  PROVE  Signed'
<1> USE DEF Signed, ClearToken, Push, serverVars, screenVars
<1> i \in DOMAIN calls
  BY DEF Pending
<1>1. AreCalls' /\ Fewer(calls, calls', i)
  BY OneLess
<1>2. \A op : /\ AtMostOne(op) => AtMostOne(op)'
              /\ Pending(op) = {} => Pending(op)' = {}
              /\ AtMostOne(op) /\ i \in Pending(op) => Pending(op)' = {}
              /\ \A j \in Pending(op)' : \E k \in Pending(op) : calls'[j] = calls[k]
  BY <1>1, LessPending
<1>3. NavInv'
  BY Pushed DEF Push
<1>4. GuardInv'
  <2>1. CASE i \in Pending("me")
    BY <1>2, <2>1 DEF GuardInv, AtMostOne
  <2>2. CASE nav' = [to |-> "/signin", hard |-> TRUE]
    BY <1>2, <2>2 DEF GuardInv
  <2> QED  BY <2>1, <2>2
<1>5. LoginInv'
  BY <1>2 DEF LoginInv
<1>6. TokenInv'
  BY <1>2 DEF TokenInv, Served
<1> QED  BY <1>1, <1>3, <1>4, <1>5, <1>6

LEMMA SessionAnswersKeep ==
  ASSUME Signed, SessionAnswers
  PROVE  Signed'
<1>1. PICK i \in DOMAIN calls :
        \/ LoginSucceeds(i) \/ SignUpSucceeds(i) \/ MeSucceeds(i) \/ MeFails(i)
        \/ Unauthorised(i) \/ Answered(i)
  BY DEF SessionAnswers
<1>2. CASE MeFails(i)
  BY <1>2, ClearedKeeps DEF MeFails
<1>3. CASE Unauthorised(i)
  BY <1>3, ClearedKeeps DEF Unauthorised
<1>4. CASE Answered(i)
  BY <1>4, AnswerLost DEF Answered
<1> QED
  BY <1>1, <1>2, <1>3, <1>4, LoginSucceedsKeeps, SignUpSucceedsKeeps,
     MeSucceedsKeeps

-----------------------------------------------------------------------------
(* What is clicked.  On the way out of a shown page no guard is asking.     *)
LEMMA Leaves ==
  ASSUME Signed, UNCHANGED <<clientVars, serverVars, cookie, screenVars>>,
         NavInv', Pending("me") = {}, Pending("login") = {},
         \/ UNCHANGED <<token, profile>>
         \/ token' = 0
  PROVE  Signed'
<1> USE DEF Signed, clientVars, serverVars, screenVars
<1>1. \A op : Pending(op)' = Pending(op)
  BY DEF Pending
<1>2. GuardInv' /\ LoginInv'
  BY <1>1 DEF GuardInv, LoginInv, AtMostOne
<1>3. TokenInv'
  BY <1>1 DEF TokenInv, Served
<1>4. AreCalls'
  BY DEF AreCalls
<1> QED  BY <1>2, <1>3, <1>4

LEMMA ClickedAway ==
  ASSUME Signed,
         \/ \E p \in {"/", "/invite", "/plugins"} : Visit(p)
         \/ \E p \in {"/signin"} \cup Guarded : Follow(p)
         \/ LeaveInvite
  PROVE  Signed'
<1> USE DEF Signed, clientVars, serverVars, screenVars
<1>0. AreCalls' /\ (\A op : Pending(op)' = Pending(op)) /\ calls' = calls
  BY DEF Visit, Follow, LeaveInvite, AreCalls, Pending
<1>1. TokenInv'
  BY <1>0 DEF TokenInv, Served, Visit, Follow, LeaveInvite
<1>2. CASE \E p \in {"/", "/invite", "/plugins"} : Visit(p)
  <2>1. PICK p \in {"/", "/invite", "/plugins"} : Visit(p)
    BY <1>2
  <2>2. nav'.hard /\ NavInv'
    BY <2>1 DEF Visit, NavInv, Here
  <2> QED  BY <1>0, <1>1, <2>1, <2>2 DEF Visit, GuardInv, LoginInv, AtMostOne
<1>3. CASE \E p \in {"/signin"} \cup Guarded : Follow(p)
  <2>1. PICK p \in {"/signin"} \cup Guarded : Follow(p)
    BY <1>3
  <2>2. p # None /\ (p = "/plugins" => at \in Guarded)
    BY <2>1, AddressAssumption DEF Follow, Guarded, AuthPages
  <2>3. nav' = [to |-> p, hard |-> FALSE]
    BY <2>1 DEF Follow, Push, Here
  <2>4. NavInv'
    BY <2>1, <2>2, <2>3 DEF NavInv, Here, Guarded, Follow
  <2>5. Pending("me") = {} /\ Pending("login") = {}
    BY <2>1 DEF Follow, GuardInv, LoginInv, Guarded
  <2> QED  BY <2>1, <2>4, <2>5, Leaves DEF Follow
<1>4. CASE LeaveInvite
  <2>1. NavInv' /\ nav' # Here /\ (nav'.hard \/ nav'.to = "/signin")
        /\ (nav.hard => nav'.hard)
    BY <1>4, Pushed DEF LeaveInvite
  <2>2. GuardInv'
    BY <1>0, <1>4, <2>1 DEF GuardInv, LeaveInvite, Loose, AtMostOne
  <2>3. LoginInv'
    BY <1>0, <1>4, <2>1 DEF LoginInv, LeaveInvite, AtMostOne
  <2> QED  BY <1>0, <1>1, <1>4, <2>1, <2>2, <2>3 DEF LeaveInvite
<1> QED  BY <1>2, <1>3, <1>4

LEMMA SignOutKeeps ==
  ASSUME Signed, SignOut
  PROVE  Signed'
<1>1. NavInv'
  BY Pushed DEF SignOut, Signed, serverVars, screenVars
<1>2. Pending("me") = {} /\ Pending("login") = {}
  BY DEF Signed, SignOut, GuardInv, LoginInv, Guarded
<1>3. AreCalls' /\ \A op : Pending(op)' = Pending(op)
  BY DEF Signed, SignOut, clientVars, AreCalls, Pending
<1>4. TokenInv'
  BY <1>2, <1>3 DEF Signed, SignOut, TokenInv, ClearToken, serverVars
<1> QED
  BY <1>1, <1>2, <1>3, <1>4
     DEF Signed, SignOut, ClearToken, GuardInv, LoginInv, AtMostOne

LEMMA CookieKeeps ==
  ASSUME Signed, CookieExpires
  PROVE  Signed'
<1> USE DEF Signed, CookieExpires, clientVars, serverVars, screenVars
<1>1. AreCalls' /\ \A op : Pending(op)' = Pending(op)
  BY DEF AreCalls, Pending
<1>2. Pending("login") = {} /\ ~Loose
  BY DEF LoginInv, Loose
<1>3. ~Loose'
  BY <1>1, <1>2 DEF Loose
<1>4. GuardInv' /\ LoginInv' /\ NavInv'
  BY <1>1, <1>2, <1>3 DEF GuardInv, LoginInv, NavInv, AtMostOne, Here
<1> QED  BY <1>1, <1>2, <1>4 DEF TokenInv

LEMMA PageCallKeeps ==
  ASSUME Signed, PageCall
  PROVE  Signed'
<1> DEFINE e == [GuardCall EXCEPT !.op = "page"]
<1> USE DEF Signed, PageCall, sessionVars
<1>1. IsACall(e) /\ e.op = "page"
  BY DEF IsACall, GuardCall
<1> HIDE DEF e
<1>2. /\ AreCalls' /\ Len(calls) + 1 \notin DOMAIN calls
      /\ DOMAIN calls' = DOMAIN calls \cup {Len(calls) + 1}
      /\ \A i \in DOMAIN calls : calls'[i] = calls[i]
      /\ calls'[Len(calls) + 1] = e
  BY <1>1, OneMore DEF e
<1>3. \A op : op # "page" => Pending(op)' = Pending(op)
  BY <1>1, <1>2, MorePending
<1>4. \A op : \A i \in Pending(op) : calls'[i] = calls[i]
  BY <1>2 DEF Pending
<1>5. /\ Pending("me")' = Pending("me") /\ Pending("login")' = Pending("login")
      /\ Pending("signUp")' = Pending("signUp")
  BY <1>3
<1>6. GuardInv'
  BY <1>4, <1>5 DEF GuardInv, AtMostOne, Loose, Here
<1>7. LoginInv' /\ NavInv'
  BY <1>5 DEF LoginInv, NavInv, AtMostOne, Here
<1>8. TokenInv'
  BY <1>4, <1>5 DEF TokenInv, Served
<1> QED  BY <1>2, <1>6, <1>7, <1>8

LEMMA SignUpKeeps ==
  ASSUME Signed, NEW u, SignUp(u)
  PROVE  Signed'
<1> DEFINE e == [op |-> "signUp", user |-> u, via |-> at, reply |-> NoReply]
<1> USE DEF Signed, SignUp, sessionVars
<1>1. IsACall(e) /\ e.op = "signUp"
  BY DEF IsACall
<1> HIDE DEF e
<1>2. /\ AreCalls' /\ Len(calls) + 1 \notin DOMAIN calls
      /\ DOMAIN calls' = DOMAIN calls \cup {Len(calls) + 1}
      /\ \A i \in DOMAIN calls : calls'[i] = calls[i]
      /\ calls'[Len(calls) + 1] = e
  BY <1>1, OneMore DEF e
<1>3. \A op : op # "signUp" => Pending(op)' = Pending(op)
  BY <1>1, <1>2, MorePending
<1>4. Pending("me") = {} /\ Pending("login") = {}
  BY DEF GuardInv, LoginInv, Guarded
<1>5. GuardInv' /\ LoginInv' /\ NavInv' /\ TokenInv'
  BY <1>3, <1>4 DEF GuardInv, LoginInv, NavInv, TokenInv, AtMostOne, Here
<1> QED  BY <1>2, <1>5

LEMMA SignInKeeps ==
  ASSUME Signed, NEW u, SignIn(u), ~twice'
  PROVE  Signed'
<1> DEFINE e == [op |-> "login", user |-> u, reply |-> NoReply]
<1> USE DEF Signed, SignIn, serverVars
<1>1. IsACall(e) /\ e.op = "login" /\ e.reply = NoReply
  BY DEF IsACall
<1> HIDE DEF e
<1>2. /\ AreCalls' /\ Len(calls) + 1 \notin DOMAIN calls
      /\ DOMAIN calls' = DOMAIN calls \cup {Len(calls) + 1}
      /\ \A i \in DOMAIN calls : calls'[i] = calls[i]
      /\ calls'[Len(calls) + 1] = e
  BY <1>1, OneMore DEF e
<1>3. /\ \A op : op # "login" => Pending(op)' = Pending(op)
      /\ Pending("login")' = {Len(calls) + 1}
  <2>1. \A op : op # "login" => Pending(op)' = Pending(op)
    BY <1>1, <1>2, MorePending
  <2>2. Pending("login")' = Pending("login") \cup {Len(calls) + 1}
    BY <1>1, <1>2 DEF Pending
  <2>3. Pending("login") = {}
    OBVIOUS
  <2> QED  BY <2>1, <2>2, <2>3
<1>4. Pending("me") = {} /\ nav = Here /\ cookie = 0 /\ accounts # {}
  BY DEF GuardInv, NavInv, Guarded, AuthPages
<1>5. GuardInv' /\ LoginInv' /\ NavInv'
  BY <1>3, <1>4 DEF GuardInv, LoginInv, NavInv, AtMostOne, Here
<1>6. TokenInv'
  BY <1>1, <1>2, <1>3 DEF TokenInv, Served
<1> QED  BY <1>2, <1>5, <1>6

-----------------------------------------------------------------------------
(* What the server does.                                                    *)
LEMMA ServedKeeps ==
  ASSUME Signed, NEW i \in DOMAIN calls, NEW r, Reply(i, r),
         calls[i].op # "login",
         accounts # {} => accounts' # {},
         UNCHANGED <<minted, token, cookie, nav, profile, at, ready, leaving>>
  PROVE  Signed'
<1> USE DEF Signed
<1>1. /\ AreCalls' /\ DOMAIN calls' = DOMAIN calls
      /\ \A j \in DOMAIN calls : j # i => calls'[j] = calls[j]
      /\ \A x \in DOMAIN calls[i] :
           x # "reply" => calls'[i][x] = calls[i][x]
      /\ calls'[i].op = calls[i].op
  BY OneServed
<1>2. \A op : Pending(op)' = Pending(op)
  BY <1>1 DEF Pending
<1>3. \A j \in Pending("me") : calls'[j].token = calls[j].token
  BY <1>1 DEF Pending, AreCalls, IsACall
<1>4. \A j \in Pending("login") : calls'[j] = calls[j]
  BY <1>1 DEF Pending
<1>5. GuardInv' /\ LoginInv' /\ NavInv' /\ TokenInv'
  BY <1>2, <1>3, <1>4
     DEF GuardInv, LoginInv, NavInv, TokenInv, AtMostOne, Loose, Here, Served
<1> QED  BY <1>1, <1>5

LEMMA ServeLoginKeeps ==
  ASSUME Signed, NEW i \in DOMAIN calls, ServeLogin(i)
  PROVE  Signed'
<1> USE DEF Signed, ServeLogin, screenVars
<1>1. /\ AreCalls' /\ DOMAIN calls' = DOMAIN calls
      /\ \A j \in DOMAIN calls : j # i => calls'[j] = calls[j]
      /\ calls'[i].op = calls[i].op
      /\ calls'[i].reply = [token |-> Len(minted')]
  BY OneServed
<1>2. \A op : Pending(op)' = Pending(op)
  BY <1>1 DEF Pending
<1>3. \A j \in Pending("me") : calls'[j] = calls[j]
  BY <1>1 DEF Pending
<1>4. /\ IsSequence(minted)' /\ Len(minted') \in DOMAIN minted'
      /\ \A n \in DOMAIN minted : n \in DOMAIN minted' /\ minted'[n] = minted[n]
  <2>1. IsSequence(minted') /\ More(minted, minted', calls[i].user)
    BY AppendIsMore DEF TokenInv
  <2>2. PICK S : minted' \in Seq(S)
    BY <2>1 DEF IsSequence
  <2>3. DOMAIN minted' = 1 .. Len(minted') /\ Len(minted') \in Nat
    BY <2>2, LenProperties
  <2>4. Len(minted') \in DOMAIN minted'
    BY <2>1, <2>3 DEF More
  <2> QED  BY <2>1, <2>4 DEF More
<1>5. GuardInv' /\ LoginInv' /\ NavInv'
  BY <1>2, <1>3 DEF GuardInv, LoginInv, NavInv, AtMostOne, Loose, Here
<1>6. TokenInv'
  BY <1>1, <1>2, <1>4 DEF TokenInv, Served, Pending
<1> QED  BY <1>1, <1>4, <1>5, <1>6 DEF TokenInv

LEMMA SessionServedKeeps ==
  ASSUME Signed, SessionServed
  PROVE  Signed'
<1>1. ASSUME NEW i \in DOMAIN calls, ServeLogin(i)  PROVE Signed'
  BY <1>1, ServeLoginKeeps
<1>2. ASSUME NEW i \in DOMAIN calls, ServeSignUp(i)  PROVE Signed'
  BY <1>2, ServedKeeps DEF ServeSignUp, Pending
<1>3. ASSUME NEW i \in DOMAIN calls, ServeWithToken(i)  PROVE Signed'
  BY <1>3, ServedKeeps DEF ServeWithToken, Pending, sessionVars
<1>4. ASSUME NEW n \in DOMAIN minted, Expire(n)  PROVE Signed'
  <2>1. \A op : Pending(op)' = Pending(op)
    BY <1>4 DEF Expire, clientVars, Pending
  <2> QED
    BY <1>4, <2>1
       DEF Signed, Expire, clientVars, screenVars, AreCalls, GuardInv, LoginInv,
           NavInv, TokenInv, AtMostOne, Loose, Here, Served
<1> QED
  BY <1>1, <1>2, <1>3, <1>4, CookieKeeps, ClickedAway DEF SessionServed

LEMMA SessionClicksKeep ==
  ASSUME Signed, SessionClicks, ~twice'
  PROVE  Signed'
BY ClickedAway, SignOutKeeps, PageCallKeeps, SignInKeeps, SignUpKeeps
   DEF SessionClicks

-----------------------------------------------------------------------------
(* The way of a navigation.                                                 *)
LEMMA RedirectKeeps ==
  ASSUME Signed, nav # Here, NEW p \in {"/signin", "/register", "/monitors"},
         Redirect(p),
         UNCHANGED <<serverVars, token, cookie>>,
         cookie = 0 => p # "/monitors",
         ~nav.hard /\ Pending("me") # {} => p \in Guarded
  PROVE  Signed'
<1> USE DEF Signed, Redirect, serverVars
<1>1. nav'.to = p /\ nav'.hard = nav.hard
      /\ nav' = [to |-> nav'.to, hard |-> nav'.hard]
  BY DEF NavInv
<1>2. nav' # Here
  BY <1>1, AddressAssumption DEF Here, Guarded, AuthPages
<1>3. NavInv'
  BY <1>1, <1>2 DEF NavInv, Guarded
<1>4. AreCalls' /\ \A op : Pending(op)' = Pending(op)
  BY DEF AreCalls, Pending
<1>5. GuardInv'
  BY <1>1, <1>4 DEF GuardInv, AtMostOne, Loose
<1>6. LoginInv'
  BY <1>1, <1>4 DEF LoginInv, AtMostOne
<1>7. TokenInv'
  BY <1>4 DEF TokenInv, Served
<1> QED  BY <1>3, <1>4, <1>5, <1>6, <1>7

LEMMA ProxiedKeeps ==
  ASSUME Signed, nav # Here, Proxied, UNCHANGED <<serverVars, token, cookie>>
  PROVE  Signed'
<1>1. CASE cookie = 0 /\ nav.to \in Private /\ Redirect("/signin")
  <2>1. ~nav.hard => Pending("me") = {}
    BY <1>1 DEF Signed, GuardInv, Loose
  <2> QED  BY <1>1, <2>1, RedirectKeeps
<1>2. CASE cookie # 0 /\ nav.to \in AuthPages /\ Redirect("/monitors")
  BY <1>2, RedirectKeeps DEF Guarded
<1> QED  BY <1>1, <1>2 DEF Proxied

(* Nobody is asked to wait for a guard that is gone.                         *)
LEMMA UnguardedIsSame ==
  ASSUME AreCalls, Pending("me") = {}
  PROVE  Unguarded(calls) = calls
<1>1. \A i \in DOMAIN calls : calls[i].op # "me"
  BY DEF Pending
<1>2. PICK S : calls \in Seq(S)
  BY DEF AreCalls, IsSequence
<1>3. calls = [i \in DOMAIN calls |-> calls[i]]
  BY <1>2, LenProperties
<1> QED  BY <1>1, <1>3 DEF Unguarded

LEMMA GuardAsks ==
  ASSUME Signed, Pending("me") = {}, Pending("login") = {},
         calls' = Append(calls, GuardCall),
         at' \in Guarded, nav' = Here, ready' = FALSE, leaving' <=> leaving,
         cookie # 0,
         UNCHANGED <<serverVars, token, cookie>>
  PROVE  Signed'
<1> USE DEF Signed, serverVars
<1>1. IsACall(GuardCall) /\ GuardCall.op = "me" /\ GuardCall.token = token
  BY DEF IsACall, GuardCall
<1> HIDE DEF GuardCall
<1>2. /\ AreCalls' /\ Len(calls) + 1 \notin DOMAIN calls
      /\ DOMAIN calls' = DOMAIN calls \cup {Len(calls) + 1}
      /\ \A i \in DOMAIN calls : calls'[i] = calls[i]
      /\ calls'[Len(calls) + 1] = GuardCall
  BY <1>1, OneMore
<1>3. /\ Pending("login")' = {}
      /\ Pending("me")' = {Len(calls) + 1}
  BY <1>1, <1>2 DEF Pending
<1>4. GuardInv'
  BY <1>1, <1>2, <1>3 DEF GuardInv, AtMostOne
<1>5. LoginInv' /\ NavInv'
  BY <1>3, AddressAssumption DEF LoginInv, NavInv, AtMostOne, Here, Guarded, AuthPages
<1>6. TokenInv'
  BY <1>3 DEF TokenInv
<1> QED  BY <1>2, <1>4, <1>5, <1>6

LEMMA FreshCalls ==
  AreCalls /\ calls = <<>> => \A op : Pending(op) = {}
BY DEF Pending

LEMMA ThereHolds ==
  ASSUME nav' = Here, at' \in AuthPages => cookie' = 0
  PROVE  NavInv'
<1>1. nav'.to = None /\ nav'.hard = FALSE /\ nav' = [to |-> None, hard |-> FALSE]
  BY DEF Here
<1>2. None # "/plugins"
  BY AddressAssumption DEF Guarded
<1> QED  BY <1>1, <1>2 DEF NavInv

(* A reload forgets everything. *)
LEMMA ReloadKeeps ==
  ASSUME Signed, nav.hard, Arrive, Passes,
         UNCHANGED <<serverVars, token, cookie>>
  PROVE  Signed'
<1> USE DEF Signed, serverVars
<1>1. NavInv'
  BY ThereHolds DEF Arrive, Passes
<1>2. at' = nav.to /\ ready' = FALSE /\ leaving' = FALSE /\ nav' = Here
  BY DEF Arrive
<1>3. <<>> \in Seq({}) /\ DOMAIN <<>> = {} /\ Len(<<>>) = 0
  OBVIOUS
<1>4. CASE nav.to \notin Guarded
  <2>1. Unguarded(<<>>) = <<>>
    BY <1>3 DEF Unguarded
  <2>2. calls' = <<>>
    BY <1>4, <2>1 DEF Arrive
  <2>3. AreCalls' /\ \A op : Pending(op)' = {}
    BY <1>3, <2>2 DEF AreCalls, IsSequence, Pending
  <2> QED
    BY <1>1, <1>2, <2>3 DEF GuardInv, LoginInv, TokenInv, AtMostOne
<1>5. CASE nav.to \in Guarded
  <2>1. calls' = Append(<<>>, GuardCall)
    BY <1>5 DEF Arrive
  <2>2. IsSequence(calls') /\ More(<<>>, calls', GuardCall)
    BY <2>1, EmptyIsSequence, AppendIsMore
  <2>3. DOMAIN calls' = {1} /\ calls'[1] = GuardCall
    BY <1>3, <2>2 DEF More
  <2>4. IsACall(GuardCall) /\ GuardCall.op = "me" /\ GuardCall.token = token
    BY DEF IsACall, GuardCall
  <2> HIDE DEF GuardCall
  <2>5. AreCalls' /\ Pending("me")' = {1}
        /\ \A op : op # "me" => Pending(op)' = {}
    BY <2>2, <2>3, <2>4 DEF AreCalls, Pending
  <2>6. GuardInv'
    BY <1>2, <1>5, <2>3, <2>4, <2>5 DEF GuardInv, AtMostOne, Loose
  <2>7. LoginInv' /\ TokenInv'
    BY <2>5 DEF LoginInv, TokenInv, AtMostOne
  <2> QED  BY <1>1, <1>2, <2>5, <2>6, <2>7
<1> QED  BY <1>4, <1>5

(* Another page, of the same document. *)
LEMMA ArriveKeeps ==
  ASSUME Signed, nav # Here, Arrive, Passes,
         UNCHANGED <<serverVars, token, cookie>>,
         accounts # {} => nav.to # "/register"
  PROVE  Signed'
<1> USE DEF Signed, serverVars
<1>1. CASE nav.hard
  BY <1>1, ReloadKeeps
<1>2. CASE ~nav.hard
  <2>1. /\ at' = nav.to /\ nav' = Here /\ (leaving' <=> leaving) /\ profile' = profile
        /\ nav.to \in {"/signin", "/register"} \cup Guarded
        /\ nav.to = "/plugins" => at \in Guarded
    BY <1>2 DEF Arrive, NavInv, Here
  <2>2. NavInv'
    BY <2>1, ThereHolds DEF Passes
  <2>3. CASE nav.to \notin Guarded
    <3>1. cookie = 0
      BY <2>1, <2>3 DEF Passes, AuthPages
    <3>2. Pending("me") = {}
      BY <1>2, <3>1 DEF GuardInv, Loose
    <3>3. calls' = calls
      BY <1>2, <2>3, <3>2, UnguardedIsSame DEF Arrive
    <3>4. AreCalls' /\ \A op : Pending(op)' = Pending(op)
      BY <3>3 DEF AreCalls, Pending
    <3>5. GuardInv'
      BY <3>2, <3>4 DEF GuardInv, AtMostOne
    <3>6. LoginInv'
      BY <2>1, <2>3, <3>1, <3>4 DEF LoginInv, AtMostOne
    <3>7. TokenInv'
      BY <3>3, <3>4 DEF TokenInv, Served
    <3> QED  BY <2>1, <2>2, <2>3, <3>4, <3>5, <3>6, <3>7
  <2>4. CASE nav.to \in Guarded /\ at \in Guarded
    <3>1. calls' = calls /\ (ready' <=> ready)
      BY <1>2, <2>4 DEF Arrive
    <3>2. AreCalls' /\ \A op : Pending(op)' = Pending(op)
      BY <3>1 DEF AreCalls, Pending
    <3>3. GuardInv'
      BY <1>2, <2>1, <2>4, <3>1, <3>2 DEF GuardInv, AtMostOne, Loose
    <3>4. LoginInv'
      BY <2>4, <3>2 DEF LoginInv, AtMostOne, Guarded
    <3>5. TokenInv'
      BY <3>1, <3>2 DEF TokenInv, Served
    <3> QED  BY <2>1, <2>2, <2>4, <3>1, <3>2, <3>3, <3>4, <3>5
  <2>5. CASE nav.to \in Guarded /\ at \notin Guarded
    <3>1. calls' = Append(calls, GuardCall) /\ ready' = FALSE
      BY <1>2, <2>5 DEF Arrive
    <3>2. nav.to = "/monitors" /\ cookie # 0
      BY <2>1, <2>5 DEF Guarded, Passes, Private
    <3>3. Pending("me") = {} /\ Pending("login") = {}
      BY <1>2, <2>5, <3>2 DEF GuardInv, LoginInv
    <3> QED  BY <2>1, <2>5, <3>1, <3>2, <3>3, GuardAsks
  <2> QED  BY <2>3, <2>4, <2>5
<1> QED  BY <1>1, <1>2 DEF NavInv

LEMMA RenderedKeeps ==
  ASSUME Signed, nav # Here, Passes, Rendered,
         UNCHANGED <<serverVars, token, cookie>>
  PROVE  Signed'
<1>1. CASE nav.to \in Guarded /\ Arrive
  BY <1>1, ArriveKeeps DEF Guarded
<1>2. CASE nav.to = "/invite"
  <2>1. nav.hard
    BY <1>2, AddressAssumption DEF Signed, NavInv, Guarded, AuthPages
  <2>2. CASE Arrive
    BY <1>2, <2>2, ArriveKeeps
  <2>3. CASE Redirect("/signin")
    BY <2>1, <2>3, RedirectKeeps
  <2> QED  BY <1>2, <2>2, <2>3 DEF Rendered, Guarded
<1>3. CASE nav.to \in {"/", "/signin", "/register"}
  <2>1. PICK open \in BOOLEAN :
          /\ Enabled(open)
          /\ IF Wanted(nav.to, open) = nav.to THEN Arrive
             ELSE Redirect(Wanted(nav.to, open))
    BY <1>3 DEF Rendered, Guarded
  <2>2. accounts # {} => ~open
    BY <2>1 DEF Enabled
  <2>3. CASE Wanted(nav.to, open) = nav.to
    BY <2>1, <2>2, <2>3, ArriveKeeps DEF Wanted
  <2>4. CASE Wanted(nav.to, open) # nav.to
    <3>1. Wanted(nav.to, open) \in {"/signin", "/register"}
      BY <1>3, <2>4 DEF Wanted
    <3>2. ~nav.hard => cookie = 0
      BY <1>3, AddressAssumption DEF Passes, AuthPages, Signed, NavInv, Guarded
    <3>3. ~nav.hard => Pending("me") = {}
      BY <3>2 DEF Signed, GuardInv, Loose
    <3> QED  BY <2>1, <2>4, <3>1, <3>3, RedirectKeeps
  <2> QED  BY <2>3, <2>4
<1> QED  BY <1>1, <1>2, <1>3 DEF Rendered

LEMMA RouteKeeps ==
  ASSUME Signed, Route
  PROVE  Signed'
BY ProxiedKeeps, RenderedKeeps DEF Route

-----------------------------------------------------------------------------
SessionInv ==
  IF area = "session" THEN twice \/ Signed ELSE ~ready

LEMMA SessionInit0 == Init => SessionInv
<1> SUFFICES ASSUME Init  PROVE SessionInv
  OBVIOUS
<1> USE DEF Init, SessionInit, ClientInit
<1>1. AreCalls /\ \A op : Pending(op) = {}
  <2>1. <<>> \in Seq({}) /\ DOMAIN <<>> = {}
    OBVIOUS
  <2> QED  BY <2>1 DEF AreCalls, IsSequence, Pending
<1>2. NavInv
  BY AddressAssumption DEF NavInv, AuthPages, Here
<1>3. GuardInv /\ LoginInv
  BY <1>1 DEF GuardInv, LoginInv, AtMostOne
<1>4. TokenInv
  BY <1>1, EmptyIsSequence DEF TokenInv
<1> QED  BY <1>1, <1>2, <1>3, <1>4 DEF SessionInv, Signed

LEMMA Stays ==
  ASSUME SessionInv, UNCHANGED <<sessionVars, area>>,
         area = "session" => UNCHANGED calls
  PROVE  SessionInv'
<1>1. CASE area = "session" /\ Signed
  <2>1. \A op : Pending(op)' = Pending(op)
    BY <1>1 DEF Pending
  <2> QED
    BY <1>1, <2>1
       DEF SessionInv, Signed, sessionVars, AreCalls, NavInv, GuardInv, LoginInv,
           TokenInv, AtMostOne, Loose, Here, Served
<1> QED  BY <1>1 DEF SessionInv, sessionVars

LEMMA SessionNext ==
  ASSUME SessionInv, [Next]_vars
  PROVE  SessionInv'
<1>1. CASE Mount
  BY <1>1, Stays DEF Mount, EffectSends
<1>2. CASE PageStep /\ UNCHANGED <<area, mounted>>
  BY <1>2, Stays DEF PageStep
<1>3. CASE SessionStep /\ UNCHANGED <<area, mounted>>
  <2>1. Signed /\ area = "session" /\ area' = area
    BY <1>3 DEF SessionStep, SessionOn, SessionInv
  <2>2. CASE ~twice'
    <3>1. Route \/ SessionClicks \/ SessionServed \/ SessionAnswers
      BY <1>3 DEF SessionStep
    <3>2. Signed'
      BY <2>1, <2>2, <3>1, RouteKeeps, SessionClicksKeep, SessionServedKeeps,
         SessionAnswersKeep
    <3> QED  BY <2>1, <3>2 DEF SessionInv
  <2> QED  BY <2>1, <2>2 DEF SessionInv
<1>4. CASE UNCHANGED vars
  BY <1>4, Stays DEF vars, clientVars
<1> QED  BY <1>1, <1>2, <1>3, <1>4 DEF Next

(* Somebody whose page is shown sees their own, whatever expires, however   *)
(* often they sign out and in again and whatever answers come late, unless   *)
(* they pressed Sign In again before the page changed (AuthGuard, the forms, *)
(* the proxy and the interceptor of api.ts together).                       *)
THEOREM ShownIsSignedInHolds == Spec => []ShownIsSignedIn
<1>1. SessionInv => ShownIsSignedIn
  BY DEF SessionInv, Signed, ShownIsSignedIn
<1> QED  BY <1>1, SessionInit0, SessionNext, PTL DEF Spec
=============================================================================
