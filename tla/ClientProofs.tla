---------------------------- MODULE ClientProofs ----------------------------
(***************************************************************************)
(* The pages of the client, for any number of teams, calls in flight,      *)
(* monitors and presses of a button, whatever order the server serves the  *)
(* calls in and whatever order the answers come in.                        *)
(***************************************************************************)
EXTENDS PagesProofs, FiniteSetTheorems

-----------------------------------------------------------------------------
(* What is left of a sequence: t has the entries of s that K numbers, in    *)
(* their order.                                                            *)
Left(s, t, K) ==
  \E f \in [DOMAIN t -> K] :
    /\ \A j, k \in DOMAIN t : (f[j] < f[k]) <=> (j < k)
    /\ \A j, k \in DOMAIN t : f[j] = f[k] => j = k
    /\ \A j \in DOMAIN t : t[j] = s[f[j]]
    /\ \A k \in K : \E j \in DOMAIN t : f[j] = k

(* Counting the members of K up to one of them numbers K from 1 on.         *)
LEMMA KeptIsLeft ==
  ASSUME NEW s, IsSequence(s), NEW K, K \subseteq DOMAIN s
  PROVE  IsSequence(Kept(s, K)) /\ Left(s, Kept(s, K), K)
<1> DEFINE n == Cardinality(K)
           Upto(i) == {j \in K : j <= i}
           c == [i \in K |-> Cardinality(Upto(i))]
           f == [k \in 1 .. n |-> CHOOSE i \in K : Cardinality(Upto(i)) = k]
           t == Kept(s, K)
<1>1. PICK S : s \in Seq(S)
  BY DEF IsSequence
<1>2. Len(s) \in Nat /\ DOMAIN s = 1 .. Len(s) /\ K \subseteq 1 .. Len(s)
  BY <1>1, LenProperties
<1>3. IsFiniteSet(K) /\ n \in Nat
  <2>1. IsFiniteSet(1 .. Len(s))
    BY <1>2, FS_Interval
  <2> QED  BY <1>2, <2>1, FS_Subset, FS_CardinalityType
<1> HIDE DEF n
<1>4. ASSUME NEW i \in K
      PROVE  /\ IsFiniteSet(Upto(i)) /\ Cardinality(Upto(i)) \in 1 .. n
  <2>1. Upto(i) \subseteq K /\ i \in Upto(i)
    BY <1>2
  <2>2. IsFiniteSet(Upto(i)) /\ Cardinality(Upto(i)) <= n
    BY <1>3, <2>1, FS_Subset DEF n
  <2>3. Cardinality(Upto(i)) \in Nat /\ Cardinality(Upto(i)) # 0
    BY <2>1, <2>2, FS_CardinalityType, FS_EmptySet
  <2> QED  BY <1>3, <2>2, <2>3
<1>5. ASSUME NEW i \in K, NEW k \in K, i < k
      PROVE  Cardinality(Upto(i)) < Cardinality(Upto(k))
  <2>1. Upto(i) \in SUBSET Upto(k) /\ k \in Upto(k) /\ k \notin Upto(i)
    BY <1>2, <1>5
  <2>2. IsFiniteSet(Upto(k)) /\ IsFiniteSet(Upto(i))
    BY <1>4
  <2>3. /\ Cardinality(Upto(i)) <= Cardinality(Upto(k))
        /\ Cardinality(Upto(i)) # Cardinality(Upto(k))
    BY <2>1, <2>2, FS_Subset
  <2>4. Cardinality(Upto(i)) \in Nat /\ Cardinality(Upto(k)) \in Nat
    BY <1>4
  <2> QED  BY <2>3, <2>4
<1> HIDE DEF Upto
<1>6. c \in [K -> 1 .. n] /\ \A i, k \in K : (i < k) <=> (c[i] < c[k])
  <2>1. c \in [K -> 1 .. n]
    BY <1>4
  <2>2. ASSUME NEW i \in K, NEW k \in K  PROVE (i < k) <=> (c[i] < c[k])
    <3>1. i \in Int /\ k \in Int /\ c[i] \in Int /\ c[k] \in Int
      BY <1>2, <1>3, <2>1
    <3>2. (i < k => c[i] < c[k]) /\ (k < i => c[k] < c[i])
      BY <1>5
    <3>3. i = k => c[i] = c[k]
      OBVIOUS
    <3> QED  BY <3>1, <3>2, <3>3
  <2> QED  BY <2>1, <2>2
<1>7. c \in Injection(K, 1 .. n)
  <2>1. \A i, k \in K : c[i] = c[k] => i = k
    BY <1>2, <1>3, <1>6
  <2> HIDE DEF c
  <2> QED  BY <1>6, <2>1 DEF Injection, IsInjective
<1>8. c \in Surjection(K, 1 .. n)
  <2>1. IsFiniteSet(1 .. n) /\ Cardinality(1 .. n) = n
    BY <1>3, FS_Interval
  <2> HIDE DEF c
  <2> QED  BY <1>7, <2>1, FS_Injection DEF n
<1>9. ASSUME NEW k \in 1 .. n  PROVE f[k] \in K /\ c[f[k]] = k
  <2>1. \E i \in K : c[i] = k
    BY <1>8 DEF Surjection
  <2> QED  BY <2>1
<1>10. t = [k \in 1 .. n |-> s[f[k]]]
  BY DEF Kept, n, Upto
<1>11. DOMAIN t = 1 .. n /\ \A k \in 1 .. n : t[k] = s[f[k]]
  BY <1>10
<1>12. f \in [DOMAIN t -> K]
  BY <1>9, <1>11
<1> HIDE DEF c, f, t
<1>13. t \in [1 .. n -> S]
  <2>1. \A k \in 1 .. n : t[k] \in S
    BY <1>1, <1>2, <1>9, <1>11, ElementOfSeq
  <2> QED  BY <1>10, <2>1
<1>14. IsSequence(t)
  BY <1>3, <1>13, SeqDef DEF IsSequence
<1>15. \A j, k \in DOMAIN t : (f[j] < f[k]) <=> (j < k)
  BY <1>6, <1>9, <1>11
<1>16. \A j, k \in DOMAIN t : f[j] = f[k] => j = k
  BY <1>9, <1>11
<1>17. ASSUME NEW i \in K  PROVE \E j \in DOMAIN t : f[j] = i
  <2>1. c[i] \in DOMAIN t /\ f[c[i]] \in K /\ c[f[c[i]]] = c[i]
    BY <1>6, <1>9, <1>11
  <2>2. f[c[i]] = i
    BY <1>7, <2>1 DEF Injection, IsInjective
  <2> QED  BY <2>1, <2>2
<1>18. Left(s, t, K)
  BY <1>11, <1>12, <1>15, <1>16, <1>17 DEF Left
<1> QED  BY <1>14, <1>18 DEF t

-----------------------------------------------------------------------------
(* The calls of some kinds, the newest of them, and the only one.           *)
Pend(s, O) == {i \in DOMAIN s : s[i].op \in O}
Newest(s, i, O) == \A j \in Pend(s, O) : j <= i
Alone(s, O) == \A i, j \in Pend(s, O) : i = j

(* Every call of the pages has its parts.                                   *)
IsCall(c) ==
  /\ {"op", "team", "reply"} \subseteq DOMAIN c
  /\ c.op # "teams" => c.team \in Teams
  /\ c.op \in {"incidents", "monitors"} => "cursor" \in DOMAIN c
  /\ c.op = "monitors" => "then" \in DOMAIN c
  /\ c.op \in {"plugin", "upsert", "deletePlugin"} => "type" \in DOMAIN c
  /\ c.op \in {"upsert", "deletePlugin", "toggle", "deleteMonitor", "create"}
       => "mine" \in DOMAIN c
  /\ c.op \in {"toggle", "deleteMonitor"} => "id" \in DOMAIN c
  /\ c.op = "toggle" => "enable" \in DOMAIN c /\ c.enable \in BOOLEAN
  /\ c.op = "create" => "channels" \in DOMAIN c
  /\ c.op = "setActive" => "active" \in DOMAIN c
  /\ c.op = "revoke" => "invite" \in DOMAIN c

AllCalls(s) == IsSequence(s) /\ \A i \in DOMAIN s : IsCall(s[i])

(* Of the calls of kinds O: t has those of s; those and a newer one; all    *)
(* but the i-th.                                                           *)
Keeps(s, t, O) ==
  /\ \A j \in Pend(t, O) : \E k \in Pend(s, O) :
       t[j] = s[k] /\ (Newest(t, j, O) => Newest(s, k, O))
  /\ \A k \in Pend(s, O) : \E j \in Pend(t, O) : t[j] = s[k]
  /\ Alone(s, O) => Alone(t, O)

Asks(s, t, O, e) ==
  /\ \E j \in Pend(t, O) : t[j] = e
  /\ \A j \in Pend(t, O) :
       /\ t[j] = e \/ \E k \in Pend(s, O) : t[j] = s[k]
       /\ Newest(t, j, O) => t[j] = e
  /\ \A k \in Pend(s, O) : \E j \in Pend(t, O) : t[j] = s[k]
  /\ Pend(s, O) = {} => Alone(t, O) /\ \A j \in Pend(t, O) : t[j] = e

Loses(s, t, O, i) ==
  /\ \A j \in Pend(t, O) : \E k \in Pend(s, O) \ {i} :
       t[j] = s[k] /\ (Newest(t, j, O) /\ ~Newest(s, i, O) => Newest(s, k, O))
  /\ \A k \in Pend(s, O) \ {i} : \E j \in Pend(t, O) : t[j] = s[k]

LEMMA KeepsItself ==
  ASSUME NEW s, NEW O
  PROVE  Keeps(s, s, O)
BY DEF Keeps

LEMMA KeepsOn ==
  ASSUME NEW s, NEW m, NEW t, NEW O, Keeps(s, m, O), Keeps(m, t, O)
  PROVE  Keeps(s, t, O)
<1>1. ASSUME NEW j \in Pend(t, O)
      PROVE  \E k \in Pend(s, O) : t[j] = s[k] /\ (Newest(t, j, O) => Newest(s, k, O))
  <2>1. PICK l \in Pend(m, O) : t[j] = m[l] /\ (Newest(t, j, O) => Newest(m, l, O))
    BY DEF Keeps
  <2>2. PICK k \in Pend(s, O) : m[l] = s[k] /\ (Newest(m, l, O) => Newest(s, k, O))
    BY DEF Keeps
  <2> QED  BY <2>1, <2>2
<1>2. ASSUME NEW k \in Pend(s, O)  PROVE \E j \in Pend(t, O) : t[j] = s[k]
  <2>1. PICK l \in Pend(m, O) : m[l] = s[k]
    BY DEF Keeps
  <2>2. PICK j \in Pend(t, O) : t[j] = m[l]
    BY DEF Keeps
  <2> QED  BY <2>1, <2>2
<1> QED  BY <1>1, <1>2 DEF Keeps

LEMMA KeepsThenAsks ==
  ASSUME NEW s, NEW m, NEW t, NEW O, NEW e, Keeps(s, m, O), Asks(m, t, O, e)
  PROVE  Asks(s, t, O, e)
<1>1. ASSUME NEW j \in Pend(t, O)
      PROVE  t[j] = e \/ \E k \in Pend(s, O) : t[j] = s[k]
  BY DEF Keeps, Asks
<1>2. ASSUME NEW k \in Pend(s, O)  PROVE \E j \in Pend(t, O) : t[j] = s[k]
  <2>1. PICK l \in Pend(m, O) : m[l] = s[k]
    BY DEF Keeps
  <2>2. PICK j \in Pend(t, O) : t[j] = m[l]
    BY DEF Asks
  <2> QED  BY <2>1, <2>2
<1>3. Pend(s, O) = {} => Pend(m, O) = {}
  BY DEF Keeps
<1> QED  BY <1>1, <1>2, <1>3 DEF Asks

LEMMA AsksThenKeeps ==
  ASSUME NEW s, NEW m, NEW t, NEW O, NEW e, Asks(s, m, O, e), Keeps(m, t, O)
  PROVE  Asks(s, t, O, e)
<1>1. ASSUME NEW j \in Pend(t, O)
      PROVE  /\ t[j] = e \/ \E k \in Pend(s, O) : t[j] = s[k]
             /\ Newest(t, j, O) => t[j] = e
             /\ Pend(s, O) = {} => t[j] = e
  <2>1. PICK l \in Pend(m, O) : t[j] = m[l] /\ (Newest(t, j, O) => Newest(m, l, O))
    BY DEF Keeps
  <2> QED  BY <2>1 DEF Asks
<1>2. ASSUME NEW k \in Pend(s, O)  PROVE \E j \in Pend(t, O) : t[j] = s[k]
  <2>1. PICK l \in Pend(m, O) : m[l] = s[k]
    BY DEF Asks
  <2>2. PICK j \in Pend(t, O) : t[j] = m[l]
    BY DEF Keeps
  <2> QED  BY <2>1, <2>2
<1>3. \E j \in Pend(t, O) : t[j] = e
  <2>1. PICK l \in Pend(m, O) : m[l] = e
    BY DEF Asks
  <2> QED  BY <2>1 DEF Keeps
<1> QED  BY <1>1, <1>2, <1>3 DEF Asks, Keeps

LEMMA AnswersThenKeeps ==
  ASSUME NEW s, NEW m, NEW t, NEW O, NEW i, Loses(s, m, O, i), Keeps(m, t, O)
  PROVE  Loses(s, t, O, i)
<1>1. ASSUME NEW j \in Pend(t, O)
      PROVE  \E k \in Pend(s, O) \ {i} :
        t[j] = s[k] /\ (Newest(t, j, O) /\ ~Newest(s, i, O) => Newest(s, k, O))
  <2>1. PICK l \in Pend(m, O) : t[j] = m[l] /\ (Newest(t, j, O) => Newest(m, l, O))
    BY DEF Keeps
  <2>2. PICK k \in Pend(s, O) \ {i} :
          m[l] = s[k] /\ (Newest(m, l, O) /\ ~Newest(s, i, O) => Newest(s, k, O))
    BY DEF Loses
  <2> QED  BY <2>1, <2>2
<1>2. ASSUME NEW k \in Pend(s, O) \ {i}  PROVE \E j \in Pend(t, O) : t[j] = s[k]
  <2>1. PICK l \in Pend(m, O) : m[l] = s[k]
    BY DEF Loses
  <2>2. PICK j \in Pend(t, O) : t[j] = m[l]
    BY DEF Keeps
  <2> QED  BY <2>1, <2>2
<1> QED  BY <1>1, <1>2 DEF Loses

(* Sending a call.                                                         *)
LEMMA Sending ==
  ASSUME NEW s, AllCalls(s), NEW e, IsCall(e)
  PROVE  /\ AllCalls(Append(s, e)) /\ s \o <<e>> = Append(s, e)
         /\ \A O : e.op \notin O => Keeps(s, Append(s, e), O)
         /\ \A O : e.op \in O => Asks(s, Append(s, e), O, e)
<1> DEFINE t == Append(s, e)
<1>1. PICK S : s \in Seq(S)
  BY DEF AllCalls, IsSequence
<1>2. s \o <<e>> = t
  <2>1. s \in Seq(S \cup {e})
    BY <1>1
  <2> QED  BY <2>1, AppendIsConcat
<1>3. IsSequence(t) /\ More(s, t, e)
  BY AppendIsMore DEF AllCalls
<1> HIDE DEF t
<1> DEFINE n == Len(s) + 1
<1>4. /\ n \notin DOMAIN s /\ DOMAIN t = DOMAIN s \cup {n} /\ t[n] = e
      /\ \A i \in DOMAIN s : i < n /\ i \in Nat /\ t[i] = s[i]
      /\ n \in Nat
  BY <1>3 DEF More
<1> HIDE DEF n
<1>5. AllCalls(t)
  BY <1>3, <1>4 DEF AllCalls
<1>6. ASSUME NEW O, e.op \notin O  PROVE Keeps(s, t, O)
  <2>1. Pend(t, O) = Pend(s, O) /\ \A j \in Pend(s, O) : t[j] = s[j]
    BY <1>4, <1>6 DEF Pend
  <2> QED  BY <2>1 DEF Keeps, Newest, Alone
<1>7. ASSUME NEW O, e.op \in O  PROVE Asks(s, t, O, e)
  <2>1. Pend(t, O) = Pend(s, O) \cup {n} /\ \A j \in Pend(s, O) : t[j] = s[j] /\ j < n
    BY <1>4, <1>7 DEF Pend
  <2>2. \A j \in Pend(s, O) : ~Newest(t, j, O)
    BY <1>4, <2>1 DEF Newest, Pend
  <2> QED  BY <1>4, <2>1, <2>2 DEF Asks, Alone
<1> QED  BY <1>2, <1>5, <1>6, <1>7 DEF t

(* What is left when some calls are gone.                                   *)
LEMMA LeftKeeps ==
  ASSUME NEW s, NEW t, NEW K, K \subseteq DOMAIN s, Left(s, t, K), NEW O,
         Pend(s, O) \subseteq K, DOMAIN t \subseteq Nat, DOMAIN s \subseteq Nat
  PROVE  Keeps(s, t, O)
<1>1. PICK f \in [DOMAIN t -> K] :
        /\ \A j, k \in DOMAIN t : (f[j] < f[k]) <=> (j < k)
        /\ \A j, k \in DOMAIN t : f[j] = f[k] => j = k
        /\ \A j \in DOMAIN t : t[j] = s[f[j]]
        /\ \A k \in K : \E j \in DOMAIN t : f[j] = k
  BY DEF Left
<1>2. \A j \in DOMAIN t : f[j] \in K
  OBVIOUS
<1>3. \A j \in Pend(t, O) : f[j] \in Pend(s, O) /\ t[j] = s[f[j]]
  BY <1>1, <1>2 DEF Pend
<1>4. \A k \in Pend(s, O) : \E j \in Pend(t, O) : f[j] = k /\ t[j] = s[k]
  BY <1>1 DEF Pend
<1>5. ASSUME NEW j \in Pend(t, O), Newest(t, j, O)  PROVE Newest(s, f[j], O)
  <2>1. SUFFICES ASSUME NEW k \in Pend(s, O)  PROVE k <= f[j]
    BY DEF Newest
  <2>2. PICK l \in Pend(t, O) : f[l] = k
    BY <1>4
  <2>3. l <= j /\ l \in Nat /\ j \in Nat /\ k \in Nat /\ f[j] \in Nat
    BY <1>3, <1>5 DEF Newest, Pend
  <2>4. l = j \/ l < j
    BY <2>3
  <2>5. l = j \/ f[l] < f[j]
    BY <1>1, <2>4 DEF Pend
  <2> QED  BY <2>2, <2>3, <2>5
<1>6. Alone(s, O) => Alone(t, O)
  BY <1>1, <1>3 DEF Alone, Pend
<1> QED  BY <1>3, <1>4, <1>5, <1>6 DEF Keeps

LEMMA LeftAnswers ==
  ASSUME NEW s, NEW t, NEW i \in DOMAIN s, Left(s, t, DOMAIN s \ {i}), NEW O,
         s[i].op \in O, DOMAIN t \subseteq Nat, DOMAIN s \subseteq Nat
  PROVE  Loses(s, t, O, i)
<1>1. PICK f \in [DOMAIN t -> DOMAIN s \ {i}] :
        /\ \A j, k \in DOMAIN t : (f[j] < f[k]) <=> (j < k)
        /\ \A j, k \in DOMAIN t : f[j] = f[k] => j = k
        /\ \A j \in DOMAIN t : t[j] = s[f[j]]
        /\ \A k \in DOMAIN s \ {i} : \E j \in DOMAIN t : f[j] = k
  BY DEF Left
<1>2. \A j \in DOMAIN t : f[j] \in DOMAIN s \ {i}
  OBVIOUS
<1>3. \A j \in Pend(t, O) : f[j] \in Pend(s, O) \ {i} /\ t[j] = s[f[j]]
  BY <1>1, <1>2 DEF Pend
<1>4. \A k \in Pend(s, O) \ {i} : \E j \in Pend(t, O) : f[j] = k /\ t[j] = s[k]
  BY <1>1 DEF Pend
<1>5. ASSUME NEW j \in Pend(t, O), Newest(t, j, O), ~Newest(s, i, O)
      PROVE  Newest(s, f[j], O)
  <2>1. ASSUME NEW k \in Pend(s, O), k # i  PROVE k <= f[j]
    <3>1. PICK l \in Pend(t, O) : f[l] = k
      BY <1>4, <2>1
    <3>2. l <= j /\ l \in Nat /\ j \in Nat /\ k \in Nat /\ f[j] \in Nat
      BY <1>3, <1>5 DEF Newest, Pend
    <3>3. l = j \/ l < j
      BY <3>2
    <3>4. l = j \/ f[l] < f[j]
      BY <1>1, <3>3 DEF Pend
    <3> QED  BY <3>1, <3>2, <3>4
  <2>2. PICK k \in Pend(s, O) : ~(k <= i)
    BY <1>5 DEF Newest
  <2>3. k # i /\ k \in Nat /\ i \in Nat /\ f[j] \in Nat
    BY <1>3, <2>2 DEF Pend
  <2>4. i <= f[j]
    BY <2>1, <2>2, <2>3
  <2> QED  BY <2>1, <2>4 DEF Newest
<1> QED  BY <1>3, <1>4, <1>5 DEF Loses

LEMMA Numbered ==
  ASSUME NEW s, IsSequence(s)
  PROVE  DOMAIN s \subseteq Nat
<1>1. PICK S : s \in Seq(S)
  BY DEF IsSequence
<1> QED  BY <1>1, LenProperties

LEMMA Removing ==
  ASSUME NEW s, AllCalls(s), NEW i \in DOMAIN s
  PROVE  /\ AllCalls(RemoveAt(s, i))
         /\ \A O : s[i].op \notin O => Keeps(s, RemoveAt(s, i), O)
         /\ \A O : s[i].op \in O => Loses(s, RemoveAt(s, i), O, i)
<1> DEFINE t == RemoveAt(s, i)
<1>1. IsSequence(t) /\ Left(s, t, DOMAIN s \ {i})
  BY RemoveIsFewer DEF Fewer, Left, AllCalls
<1> HIDE DEF t
<1>2. DOMAIN t \subseteq Nat /\ DOMAIN s \subseteq Nat
  BY <1>1, Numbered DEF AllCalls
<1>3. \A j \in DOMAIN t : IsCall(t[j])
  BY <1>1 DEF Left, AllCalls
<1>4. ASSUME NEW O, s[i].op \notin O  PROVE Keeps(s, t, O)
  <2>1. Pend(s, O) \subseteq DOMAIN s \ {i}
    BY <1>4 DEF Pend
  <2> QED  BY <1>1, <1>2, <2>1, LeftKeeps
<1>5. ASSUME NEW O, s[i].op \in O  PROVE Loses(s, t, O, i)
  BY <1>1, <1>2, <1>5, LeftAnswers
<1> QED  BY <1>1, <1>3, <1>4, <1>5 DEF AllCalls, t

LEMMA Dropping ==
  ASSUME NEW s, AllCalls(s), NEW op
  PROVE  /\ AllCalls(Without(s, op)) /\ Pend(Without(s, op), {op}) = {}
         /\ \A O : op \notin O => Keeps(s, Without(s, op), O)
<1> DEFINE t == Without(s, op)
           K == {i \in DOMAIN s : s[i].op # op}
<1>1. IsSequence(t) /\ Left(s, t, K) /\ K \subseteq DOMAIN s
  BY KeptIsLeft DEF Without, AllCalls
<1>2. \A i \in K : i \in DOMAIN s /\ s[i].op # op
  OBVIOUS
<1>3. \A i \in DOMAIN s : s[i].op # op => i \in K
  OBVIOUS
<1> HIDE DEF t, K
<1>4. DOMAIN t \subseteq Nat /\ DOMAIN s \subseteq Nat
  BY <1>1, Numbered DEF AllCalls
<1>5. \A j \in DOMAIN t : \E i \in K : t[j] = s[i]
  BY <1>1 DEF Left
<1>6. (\A j \in DOMAIN t : IsCall(t[j])) /\ Pend(t, {op}) = {}
  BY <1>2, <1>5 DEF AllCalls, Pend
<1>7. ASSUME NEW O, op \notin O  PROVE Keeps(s, t, O)
  <2>1. Pend(s, O) \subseteq K
    BY <1>3, <1>7 DEF Pend
  <2> QED  BY <1>1, <1>4, <2>1, LeftKeeps
<1> QED  BY <1>1, <1>6, <1>7 DEF AllCalls, t

(* Calls whose answers will find nobody: t is s but for that.               *)
Marks(s, t, M) ==
  t = [i \in DOMAIN s |-> IF s[i].op \in M THEN [s[i] EXCEPT !.mine = FALSE]
                                           ELSE s[i]]

LEMMA Marking ==
  ASSUME NEW s, AllCalls(s), NEW M, NEW t, Marks(s, t, M),
         M \subseteq {"upsert", "deletePlugin", "toggle", "deleteMonitor", "create"}
  PROVE  /\ AllCalls(t) /\ DOMAIN t = DOMAIN s
         /\ \A i \in DOMAIN s :
              /\ t[i].op = s[i].op /\ DOMAIN t[i] = DOMAIN s[i]
              /\ \A x \in DOMAIN s[i] : x # "mine" => t[i][x] = s[i][x]
              /\ s[i].op \notin M => t[i] = s[i]
              /\ s[i].op \in M => t[i].mine = FALSE
         /\ \A O : Pend(t, O) = Pend(s, O)
         /\ \A O : O \cap M = {} => Keeps(s, t, O)
<1>1. PICK S : s \in Seq(S)
  BY DEF AllCalls, IsSequence
<1>2. DOMAIN t = DOMAIN s
  BY DEF Marks
<1>3. ASSUME NEW i \in DOMAIN s
      PROVE  /\ t[i].op = s[i].op /\ DOMAIN t[i] = DOMAIN s[i]
             /\ \A x \in DOMAIN s[i] : x # "mine" => t[i][x] = s[i][x]
             /\ s[i].op \notin M => t[i] = s[i]
             /\ s[i].op \in M => t[i].mine = FALSE
             /\ IsCall(t[i])
  <2>1. IsCall(s[i])
    BY DEF AllCalls
  <2>2. s[i].op \notin M => t[i] = s[i]
    BY DEF Marks
  <2>3. ASSUME s[i].op \in M
        PROVE  /\ DOMAIN t[i] = DOMAIN s[i]
               /\ \A x \in DOMAIN s[i] : x # "mine" => t[i][x] = s[i][x]
               /\ t[i].mine = FALSE
    <3>1. t[i] = [s[i] EXCEPT !.mine = FALSE]
      BY <2>3 DEF Marks
    <3>2. "mine" \in DOMAIN s[i]
      BY <2>1, <2>3 DEF IsCall
    <3> QED  BY <3>1, <3>2
  <2>4. /\ t[i].op = s[i].op /\ DOMAIN t[i] = DOMAIN s[i]
        /\ s[i].op # "teams" => t[i].team = s[i].team
        /\ s[i].op = "toggle" => t[i].enable = s[i].enable
    BY <2>1, <2>2, <2>3 DEF IsCall
  <2>5. IsCall(t[i])
    BY <2>1, <2>4 DEF IsCall
  <2> QED  BY <2>2, <2>3, <2>4, <2>5
<1>4. IsSequence(t)
  <2> DEFINE T == {t[i] : i \in DOMAIN s}
  <2>1. Len(s) \in Nat /\ DOMAIN s = 1 .. Len(s)
    BY <1>1, LenProperties
  <2>2. t \in [1 .. Len(s) -> T]
    BY <2>1 DEF Marks
  <2> HIDE DEF T
  <2> QED  BY <2>1, <2>2, SeqDef DEF IsSequence
<1>5. \A O : Pend(t, O) = Pend(s, O)
  BY <1>2, <1>3 DEF Pend
<1>6. ASSUME NEW O, O \cap M = {}  PROVE Keeps(s, t, O)
  <2>1. \A i \in Pend(s, O) : t[i] = s[i]
    BY <1>3, <1>6 DEF Pend
  <2> QED  BY <1>5, <2>1 DEF Keeps, Newest, Alone
<1> QED  BY <1>2, <1>3, <1>4, <1>5, <1>6 DEF AllCalls

LEMMA Replying ==
  ASSUME AllCalls(calls), NEW i \in DOMAIN calls, NEW r, Reply(i, r)
  PROVE  /\ AllCalls(calls') /\ DOMAIN calls' = DOMAIN calls
         /\ \A j \in DOMAIN calls :
              /\ calls'[j].op = calls[j].op
              /\ j # i => calls'[j] = calls[j]
         /\ \A x \in DOMAIN calls[i] : x # "reply" => calls'[i][x] = calls[i][x]
         /\ calls'[i].reply = r
         /\ \A O : Pend(calls', O) = Pend(calls, O)
         /\ \A O : calls[i].op \notin O => Keeps(calls, calls', O)
<1>1. PICK S : calls \in Seq(S)
  BY DEF AllCalls, IsSequence
<1>2. calls' = [calls EXCEPT ![i] = [calls[i] EXCEPT !.reply = r]]
  BY DEF Reply
<1>3. calls' \in Seq(S \cup {[calls[i] EXCEPT !.reply = r]})
  <2> DEFINE T == S \cup {[calls[i] EXCEPT !.reply = r]}
  <2>1. calls \in Seq(T) /\ i \in 1 .. Len(calls)
    BY <1>1, SeqMonotonic, LenProperties
  <2> QED  BY <1>2, <2>1, ExceptSeq
<1>4. /\ DOMAIN calls' = DOMAIN calls
      /\ \A j \in DOMAIN calls : j # i => calls'[j] = calls[j]
      /\ calls'[i] = [calls[i] EXCEPT !.reply = r]
  BY <1>2
<1>5. IsCall(calls[i])
  BY DEF AllCalls
<1>6. /\ DOMAIN calls'[i] = DOMAIN calls[i]
      /\ \A x \in DOMAIN calls[i] : x # "reply" => calls'[i][x] = calls[i][x]
      /\ calls'[i].op = calls[i].op /\ calls'[i].reply = r
      /\ calls'[i].team = calls[i].team
  BY <1>4, <1>5 DEF IsCall
<1>7. IsCall(calls'[i])
  BY <1>5, <1>6 DEF IsCall
<1>8. AllCalls(calls')
  BY <1>3, <1>4, <1>7 DEF AllCalls, IsSequence
<1>9. \A O : Pend(calls', O) = Pend(calls, O)
  BY <1>4, <1>6 DEF Pend
<1>10. ASSUME NEW O, calls[i].op \notin O  PROVE Keeps(calls, calls', O)
  <2>1. \A j \in Pend(calls, O) : calls'[j] = calls[j]
    BY <1>4, <1>10 DEF Pend
  <2> QED  BY <1>9, <2>1 DEF Keeps, Newest, Alone
<1> QED  BY <1>4, <1>6, <1>8, <1>9, <1>10

-----------------------------------------------------------------------------
(* A step that is about the kinds M only.                                   *)
Moved(s, t, M) == AllCalls(t) /\ \A O : O \cap M = {} => Keeps(s, t, O)

LEMMA MovedNot ==
  ASSUME NEW s, AllCalls(s), NEW M
  PROVE  Moved(s, s, M)
BY KeepsItself DEF Moved

LEMMA MovedOn ==
  ASSUME NEW s, NEW m, NEW t, NEW M, Moved(s, m, M), Moved(m, t, M)
  PROVE  Moved(s, t, M)
BY KeepsOn DEF Moved

LEMMA MovedBySending ==
  ASSUME NEW s, NEW m, NEW M, Moved(s, m, M), NEW e, IsCall(e), e.op \in M
  PROVE  Moved(s, Append(m, e), M) /\ Moved(s, m \o <<e>>, M)
<1>1. AllCalls(m)
  BY DEF Moved
<1>2. AllCalls(Append(m, e)) /\ m \o <<e>> = Append(m, e)
  BY <1>1, Sending
<1>3. \A O : O \cap M = {} => Keeps(m, Append(m, e), O)
  BY <1>1, Sending
<1>4. Moved(m, Append(m, e), M)
  BY <1>2, <1>3 DEF Moved
<1> QED  BY <1>2, <1>4, MovedOn

LEMMA MovedByRemoving ==
  ASSUME NEW s, AllCalls(s), NEW i \in DOMAIN s, NEW M, s[i].op \in M
  PROVE  Moved(s, RemoveAt(s, i), M)
<1>1. \A O : O \cap M = {} => Keeps(s, RemoveAt(s, i), O)
  BY Removing
<1> QED  BY <1>1, Removing DEF Moved

LEMMA MovedByDropping ==
  ASSUME NEW s, NEW m, NEW M, Moved(s, m, M), NEW op \in M
  PROVE  Moved(s, Without(m, op), M)
<1>1. AllCalls(m)
  BY DEF Moved
<1>2. \A O : O \cap M = {} => Keeps(m, Without(m, op), O)
  BY <1>1, Dropping
<1>3. Moved(m, Without(m, op), M)
  BY <1>1, <1>2, Dropping DEF Moved
<1> QED  BY <1>3, MovedOn

LEMMA MovedByMarking ==
  ASSUME NEW s, NEW m, NEW M, Moved(s, m, M), NEW t, NEW N, Marks(m, t, N),
         N \subseteq {"upsert", "deletePlugin", "toggle", "deleteMonitor", "create"},
         N \subseteq M
  PROVE  Moved(s, t, M)
<1>1. AllCalls(m)
  BY DEF Moved
<1>2. \A O : O \cap M = {} => O \cap N = {}
  OBVIOUS
<1>3. \A O : O \cap M = {} => Keeps(m, t, O)
  BY <1>1, <1>2, Marking
<1>4. Moved(m, t, M)
  BY <1>1, <1>3, Marking DEF Moved
<1> QED  BY <1>4, MovedOn

LEMMA MovedByReplying ==
  ASSUME AllCalls(calls), NEW i \in DOMAIN calls, NEW r, Reply(i, r),
         NEW M, calls[i].op \in M
  PROVE  Moved(calls, calls', M)
<1>1. \A O : O \cap M = {} => Keeps(calls, calls', O)
  BY Replying
<1> QED  BY <1>1, Replying DEF Moved

-----------------------------------------------------------------------------
(* The teams: whoever has one keeps having one.  Everything but the         *)
(* creation of a team is asked for by somebody who has one.                 *)
TeamOps == {"createTeam", "teams"}
IncidentOps == {"incidents", "incident"}
PluginOps == {"plugins", "plugin", "upsert", "deletePlugin"}
ListOps == {"monitors", "toggle", "deleteMonitor", "create"}
MonitorOps == ListOps \cup {"plugins"}
TeamPageOps == {"team", "rename", "setActive", "invite", "revoke"}

TeamsInv ==
  /\ AllCalls(calls)
  /\ dbTeams \subseteq Teams /\ teams \subseteq Teams
  /\ currentTeam \in Teams \cup {None}
  /\ currentTeam # None \/ teams # {} => dbTeams # {}
  /\ currentTeam = None => \A i \in DOMAIN calls : calls[i].op \in TeamOps
  /\ \A i \in Pend(calls, {"createTeam"}) : Served(i) => dbTeams # {}
  /\ \A i \in Pend(calls, {"teams"}) :
       /\ dbTeams # {}
       /\ Served(i) => calls[i].reply.teams \subseteq Teams
                         /\ calls[i].reply.teams # {}
  /\ (form.type # None \/ draft.open \/ DialogOpen) => currentTeam # None

(* The steps of the pages.                                                 *)
IncidentStep == (area = "incidents" /\ IncidentClicks) \/ IncidentAnswers
PluginStep ==
  (area = "plugins" /\ PluginClicks) \/ PluginServed \/ PluginAnswers
MonitorStep ==
  \/ area = "monitors" /\ (ListClicks \/ RowClicks)
  \/ area = "new" /\ (ListClicks \/ NewClicks)
  \/ MonitorServed \/ MonitorAnswers
TeamPageStep ==
  (area = "team" /\ TeamPageClicks) \/ TeamPageServed \/ TeamPageAnswers

LEMMA CallsAreCalls ==
  ASSUME NEW t \in Teams
  PROVE  /\ \A c : IsCall([op |-> "incidents", team |-> t, cursor |-> c,
                           reply |-> NoReply])
         /\ \A o \in {"createTeam", "teams", "incident", "plugins", "team",
                      "rename", "invite"} :
              Read(o, t).op = o /\ Read(o, t).team = t
                /\ ~(Read(o, t).reply # NoReply) /\ IsCall(Read(o, t))
         /\ \A c, n : IsCall([op |-> "monitors", team |-> t, cursor |-> c,
                              then |-> n, reply |-> NoReply])
         /\ \A y : IsCall(FormCall(t, y)) /\ FormCall(t, y).op = "plugin"
         /\ \A o \in {"upsert", "deletePlugin"} : \A y, m :
              IsCall([op |-> o, team |-> t, type |-> y, mine |-> m,
                      reply |-> NoReply])
BY DEF IsCall, Read, FormCall

LEMMA IncidentMoves ==
  ASSUME TeamsInv, IncidentStep
  PROVE  /\ Moved(calls, calls', IncidentOps) /\ UNCHANGED teamVars
         /\ UNCHANGED <<pluginVars, monitorVars, teamPageVars>>
         /\ currentTeam = None => UNCHANGED calls
<1> USE DEF IncidentOps
<1>1. AllCalls(calls) /\ Moved(calls, calls, IncidentOps)
  BY MovedNot DEF TeamsInv
<1>2. ASSUME currentTeam # None, NEW m, Moved(calls, m, IncidentOps), NEW c
      PROVE  /\ Moved(calls, m \o ListCall(currentTeam, c), IncidentOps)
             /\ Moved(calls, m \o DetailCall(currentTeam), IncidentOps)
  <2>1. currentTeam \in Teams
    BY <1>2 DEF TeamsInv
  <2> QED  BY <1>2, <2>1, CallsAreCalls, MovedBySending DEF ListCall, DetailCall
<1>3. CASE IncidentClicks
  <2> SUFFICES /\ Moved(calls, calls', IncidentOps)
               /\ currentTeam = None => UNCHANGED calls
    BY <1>3 DEF IncidentClicks, Refresh, OnApply, OnClear, OnNext, OnPrev,
                PickStatus, Type, OpenIncident, BackToIncidents
  <2>1. ASSUME NEW l, NEW c, Fetch(l, c)
        PROVE  /\ Moved(calls, calls', IncidentOps)
               /\ currentTeam = None => UNCHANGED calls
    BY <1>1, <1>2, <2>1 DEF Fetch
  <2>2. ASSUME NEW l, NEW c, GoTo(l, c)
        PROVE  /\ Moved(calls, calls', IncidentOps)
               /\ currentTeam = None => UNCHANGED calls
    BY <1>1, <2>1, <2>2 DEF GoTo
  <2>3. CASE OnApply
    <3>1. CASE currentTeam = None
      <4>1. UNCHANGED calls
        BY <2>3, <3>1 DEF OnApply
      <4> QED  BY <1>1, <4>1
    <3>2. CASE currentTeam # None
      <4> DEFINE m == calls \o ListCall(currentTeam, 0)
      <4>1. Moved(calls, m, IncidentOps)
        BY <1>1, <1>2, <3>2
      <4>2. Moved(calls, m \o ListCall(currentTeam, 0), IncidentOps)
        BY <1>2, <3>2, <4>1
      <4>3. list.cursor = 0 => m \o <<>> = m
        <5>1. PICK S : m \in Seq(S)
          BY <4>1 DEF Moved, AllCalls, IsSequence
        <5> QED  BY <5>1, ConcatEmptySeq
      <4>4. calls' = m \o (IF list.cursor = 0 THEN <<>> ELSE ListCall(currentTeam, 0))
        BY <2>3, <3>2 DEF OnApply
      <4>5. CASE list.cursor = 0
        <5>1. calls' = m
          BY <4>3, <4>4, <4>5
        <5> QED  BY <3>2, <4>1, <5>1
      <4>6. CASE list.cursor # 0
        <5>1. calls' = m \o ListCall(currentTeam, 0)
          BY <4>4, <4>6
        <5> QED  BY <3>2, <4>2, <5>1
      <4> QED  BY <4>5, <4>6
    <3> QED  BY <3>1, <3>2
  <2>4. CASE OpenIncident \/ BackToIncidents
    <3>1. Moved(calls, Without(calls, "incidents"), IncidentOps)
      BY <1>1, MovedByDropping
    <3>2. Moved(calls, Without(calls, "incident"), IncidentOps)
      BY <1>1, MovedByDropping
    <3>3. /\ currentTeam # None
          /\ \/ calls' = Without(calls, "incidents") \o DetailCall(currentTeam)
             \/ calls' = Without(calls, "incident") \o ListCall(currentTeam, 0)
      BY <2>4 DEF OpenIncident, BackToIncidents
    <3>4. /\ Moved(calls, Without(calls, "incidents") \o DetailCall(currentTeam),
                   IncidentOps)
          /\ Moved(calls, Without(calls, "incident") \o ListCall(currentTeam, 0),
                   IncidentOps)
      BY <1>2, <3>1, <3>2, <3>3
    <3> QED  BY <3>3, <3>4
  <2>5. CASE Refresh \/ OnClear \/ OnNext \/ OnPrev
    <3>1. \E l, c : Fetch(l, c) \/ GoTo(l, c)
      BY <2>5, Zenon DEF Refresh, OnClear, OnNext, OnPrev
    <3> QED  BY <2>1, <2>2, <3>1
  <2>6. CASE \E f \in BOOLEAN : PickStatus(f) \/ Type(f)
    <3>1. (\E l, c : GoTo(l, c)) \/ UNCHANGED calls
      BY <2>6, Zenon DEF PickStatus, Type
    <3> QED  BY <1>1, <2>2, <3>1
  <2> QED  BY <1>3, <2>3, <2>4, <2>5, <2>6 DEF IncidentClicks
<1>4. CASE IncidentAnswers
  <2>1. PICK i \in DOMAIN calls :
          ListArrives(i) \/ ListFails(i) \/ DetailArrives(i) \/ DetailFails(i)
    BY <1>4 DEF IncidentAnswers
  <2>2. calls' = RemoveAt(calls, i) /\ calls[i].op \in IncidentOps /\ UNCHANGED teamVars
    BY <2>1 DEF ListArrives, ListFails, DetailArrives, DetailFails, Others, Pending
  <2>3. currentTeam # None
    BY <2>2 DEF TeamsInv, TeamOps
  <2> QED  BY <1>1, <1>4, <2>2, <2>3, MovedByRemoving DEF IncidentAnswers
<1> QED  BY <1>3, <1>4 DEF IncidentStep

LEMMA OrphanedMoves ==
  ASSUME NEW s, NEW m, Moved(s, m, PluginOps)
  PROVE  Moved(s, Orphaned(m), PluginOps)
<1> USE DEF PluginOps
<1>1. Moved(s, Without(m, "plugin"), PluginOps)
  BY MovedByDropping
<1>2. Marks(Without(m, "plugin"), Orphaned(m), {"upsert", "deletePlugin"})
  BY DEF Marks, Orphaned
<1> QED  BY <1>1, <1>2, MovedByMarking

LEMMA PluginMoves ==
  ASSUME TeamsInv, PluginStep
  PROVE  /\ Moved(calls, calls', PluginOps) /\ UNCHANGED teamVars
         /\ UNCHANGED <<incidentVars, monitorVars, teamPageVars>>
         /\ currentTeam = None => UNCHANGED calls
<1> USE DEF PluginOps
<1>1. AllCalls(calls) /\ Moved(calls, calls, PluginOps)
  BY MovedNot DEF TeamsInv
<1>2. ASSUME currentTeam # None, NEW m, Moved(calls, m, PluginOps)
      PROVE  /\ Moved(calls, m \o ListPluginsCall(currentTeam), PluginOps)
             /\ \A y : Moved(calls, Append(m, FormCall(currentTeam, y)), PluginOps)
             /\ \A o \in {"upsert", "deletePlugin"} : \A y : Moved(calls, Append(m,
                  [op |-> o, team |-> currentTeam, type |-> y, mine |-> TRUE,
                   reply |-> NoReply]), PluginOps)
  <2>1. currentTeam \in Teams
    BY <1>2 DEF TeamsInv
  <2>2. Moved(calls, m \o ListPluginsCall(currentTeam), PluginOps)
    BY <1>2, <2>1, CallsAreCalls, MovedBySending DEF ListPluginsCall
  <2>3. ASSUME NEW y
        PROVE  Moved(calls, Append(m, FormCall(currentTeam, y)), PluginOps)
    <3>1. IsCall(FormCall(currentTeam, y)) /\ FormCall(currentTeam, y).op = "plugin"
      BY <2>1, CallsAreCalls
    <3> QED  BY <1>2, <3>1, MovedBySending
  <2>4. ASSUME NEW o \in {"upsert", "deletePlugin"}, NEW y
        PROVE  Moved(calls, Append(m,
                  [op |-> o, team |-> currentTeam, type |-> y, mine |-> TRUE,
                   reply |-> NoReply]), PluginOps)
    <3> DEFINE c == [op |-> o, team |-> currentTeam, type |-> y, mine |-> TRUE,
                     reply |-> NoReply]
    <3>1. IsCall(c) /\ c.op \in PluginOps
      BY <2>1, CallsAreCalls
    <3> HIDE DEF c
    <3>2. Moved(calls, Append(m, c), PluginOps)
      BY <1>2, <3>1, MovedBySending
    <3> QED  BY <3>2 DEF c
  <2> QED  BY <2>2, <2>3, <2>4
<1>3. UNCHANGED <<teamVars, incidentVars, monitorVars, teamPageVars>>
  BY DEF PluginStep, PluginClicks, PluginServed, PluginAnswers, OpenPlugin,
         TypeKey, BackToPlugins, HandleSave, HandleDelete, Change,
         ServePlugins, ServePlugin, ServeUpsert, ServeDeletePlugin,
         FetchPluginsSucceeds, FetchPluginsFails, FetchPluginSucceeds,
         FetchPluginFails, UpsertSucceeds, DeletePluginSucceeds, PluginChangeFails
<1> SUFFICES /\ Moved(calls, calls', PluginOps)
             /\ currentTeam = None => UNCHANGED calls
  BY <1>3
<1>4. CASE PluginClicks
  <2>1. CASE \E y \in Types : OpenPlugin(y)
    BY <1>1, <1>2, <2>1 DEF OpenPlugin
  <2>2. CASE \E filled \in BOOLEAN : TypeKey(filled)
    BY <1>1, <2>2 DEF TypeKey
  <2>3. CASE BackToPlugins
    <3>1. currentTeam # None /\ FetchPlugins(Orphaned(calls))
      BY <2>3 DEF BackToPlugins, TeamsInv
    <3>2. calls' = Orphaned(calls) \o ListPluginsCall(currentTeam)
      BY <3>1 DEF FetchPlugins
    <3>3. Moved(calls, Orphaned(calls), PluginOps)
      BY <1>1, OrphanedMoves
    <3> QED  BY <1>2, <3>1, <3>2, <3>3
  <2>4. CASE HandleSave \/ HandleDelete
    <3>1. currentTeam # None
      BY <2>4 DEF HandleSave, HandleDelete
    <3>2. \E o \in {"upsert", "deletePlugin"} : \E y : calls' = Append(calls,
            [op |-> o, team |-> currentTeam, type |-> y, mine |-> TRUE,
             reply |-> NoReply])
      BY <2>4, Zenon DEF HandleSave, HandleDelete, Change
    <3> QED  BY <1>1, <1>2, <3>1, <3>2
  <2> QED  BY <1>4, <2>1, <2>2, <2>3, <2>4 DEF PluginClicks
<1>5. CASE PluginServed
  <2>1. \E i \in DOMAIN calls : \E r : calls[i].op \in PluginOps /\ Reply(i, r)
    BY <1>5 DEF PluginServed, ServePlugins, ServePlugin, ServeUpsert,
                ServeDeletePlugin, Pending
  <2>2. currentTeam # None
    BY <2>1 DEF TeamsInv, TeamOps
  <2> QED  BY <1>1, <2>1, <2>2, MovedByReplying
<1>6. CASE PluginAnswers
  <2>1. PICK i \in DOMAIN calls :
          \/ FetchPluginsSucceeds(i) \/ FetchPluginsFails(i)
          \/ FetchPluginSucceeds(i) \/ FetchPluginFails(i)
          \/ UpsertSucceeds(i) \/ DeletePluginSucceeds(i) \/ PluginChangeFails(i)
    BY <1>6 DEF PluginAnswers
  <2>2. /\ calls[i].op \in PluginOps
        /\ \/ calls' = Others(i)
           \/ calls' = Orphaned(Others(i)) \o ListPluginsCall(currentTeam)
    BY <2>1 DEF FetchPluginsSucceeds, FetchPluginsFails, FetchPluginSucceeds,
         FetchPluginFails, UpsertSucceeds, DeletePluginSucceeds,
         PluginChangeFails, Pending, Changing
  <2>3. currentTeam # None
    BY <2>2 DEF TeamsInv, TeamOps
  <2>4. Moved(calls, Others(i), PluginOps)
    BY <1>1, <2>2, MovedByRemoving DEF Others
  <2>5. Moved(calls, Orphaned(Others(i)), PluginOps)
    BY <2>4, OrphanedMoves
  <2> QED  BY <1>2, <2>2, <2>3, <2>4, <2>5
<1> QED  BY <1>4, <1>5, <1>6 DEF PluginStep

(* A team that was renamed has the teams fetched again.                     *)
Refetched ==
  \E m : \E t \in Teams :
    /\ Moved(calls, m, TeamPageOps)
    /\ calls' = Append(m, Read("teams", t))

LEMMA TeamPageMoves ==
  ASSUME TeamsInv, TeamPageStep
  PROVE  /\ Moved(calls, calls', TeamPageOps) \/ Refetched
         /\ UNCHANGED teamVars
         /\ UNCHANGED <<incidentVars, pluginVars, monitorVars>>
         /\ currentTeam = None => UNCHANGED calls
<1> USE DEF TeamPageOps
<1>1. AllCalls(calls) /\ Moved(calls, calls, TeamPageOps)
  BY MovedNot DEF TeamsInv
<1>2. UNCHANGED <<teamVars, incidentVars, pluginVars, monitorVars>>
  BY DEF TeamPageStep, TeamPageClicks, TeamPageServed, TeamPageAnswers,
         SaveName, Activate, Deactivate, OpenInvite, CloseInvite, OnInvite,
         SetConfirm, RevokeInvitation, ChangeTeam, ServeTeam, ServeRename,
         ServeSetActive, ServeInvite, ServeRevoke, FetchAllSucceeds,
         FetchAllFails, RenameSucceeds, SetActiveSucceeds, InviteSucceeds,
         RevokeSucceeds, TeamChangeFails
<1> SUFFICES /\ Moved(calls, calls', TeamPageOps) \/ Refetched
             /\ currentTeam = None => UNCHANGED calls
  BY <1>2
<1>3. CASE TeamPageClicks
  <2>1. CASE OpenInvite \/ CloseInvite \/ \E open \in BOOLEAN : SetConfirm(open)
    BY <1>1, <2>1 DEF OpenInvite, CloseInvite, SetConfirm
  <2>2. CASE \/ SaveName \/ Activate \/ Deactivate \/ OnInvite
             \/ \E v \in Invites : RevokeInvitation(v)
    <3>1. currentTeam # None
      BY <2>2 DEF SaveName, Activate, Deactivate, OnInvite, RevokeInvitation,
                  OnTeamPage, Shown
    <3>2. \E c : /\ c.op \in TeamPageOps /\ IsCall(c) /\ calls' = Append(calls, c)
      <4>1. currentTeam \in Teams
        BY <3>1 DEF TeamsInv
      <4>2. CASE SaveName \/ OnInvite
        <5>1. /\ \/ calls' = Append(calls, Read("rename", currentTeam))
                 \/ calls' = Append(calls, Read("invite", currentTeam))
          BY <4>2 DEF SaveName, OnInvite, ChangeTeam
        <5> QED  BY <4>1, <5>1, CallsAreCalls
      <4>3. CASE Activate \/ Deactivate
        <5>1. PICK b \in BOOLEAN : calls' = Append(calls, [op |-> "setActive",
                team |-> currentTeam, active |-> b, reply |-> NoReply])
          BY <4>3 DEF Activate, Deactivate, ChangeTeam
        <5> DEFINE c == [op |-> "setActive", team |-> currentTeam, active |-> b,
                         reply |-> NoReply]
        <5>2. c.op \in TeamPageOps /\ IsCall(c)
          BY <4>1 DEF IsCall
        <5> QED  BY <5>1, <5>2
      <4>4. CASE \E v \in Invites : RevokeInvitation(v)
        <5>1. PICK v \in Invites : calls' = Append(calls, [op |-> "revoke",
                team |-> currentTeam, invite |-> v, reply |-> NoReply])
          BY <4>4 DEF RevokeInvitation, ChangeTeam
        <5> DEFINE c == [op |-> "revoke", team |-> currentTeam, invite |-> v,
                         reply |-> NoReply]
        <5>2. c.op \in TeamPageOps /\ IsCall(c)
          BY <4>1 DEF IsCall
        <5> QED  BY <5>1, <5>2
      <4> QED  BY <2>2, <4>2, <4>3, <4>4
    <3> QED  BY <1>1, <3>1, <3>2, MovedBySending
  <2> QED  BY <1>3, <2>1, <2>2 DEF TeamPageClicks
<1>4. CASE TeamPageServed
  <2>0. PICK i \in DOMAIN calls :
          ServeTeam(i) \/ ServeRename(i) \/ ServeSetActive(i)
            \/ ServeInvite(i) \/ ServeRevoke(i)
    BY <1>4 DEF TeamPageServed
  <2>1. calls[i].op \in TeamPageOps /\ \E r : Reply(i, r)
    BY <2>0 DEF ServeTeam, ServeRename, ServeSetActive, ServeInvite,
                ServeRevoke, Pending
  <2>2. currentTeam # None
    BY <2>1 DEF TeamsInv, TeamOps
  <2> QED  BY <1>1, <2>1, <2>2, MovedByReplying
<1>5. CASE TeamPageAnswers
  <2>1. PICK i \in DOMAIN calls :
          \/ FetchAllSucceeds(i) \/ FetchAllFails(i) \/ RenameSucceeds(i)
          \/ SetActiveSucceeds(i) \/ InviteSucceeds(i) \/ RevokeSucceeds(i)
          \/ TeamChangeFails(i)
    BY <1>5 DEF TeamPageAnswers
  <2>2. /\ calls[i].op \in TeamPageOps
        /\ \/ calls' = Others(i)
           \/ calls' = Append(Others(i), Read("teams", calls[i].team))
    BY <2>1 DEF FetchAllSucceeds, FetchAllFails, RenameSucceeds,
         SetActiveSucceeds, InviteSucceeds, RevokeSucceeds, TeamChangeFails,
         Pending, TeamChanges
  <2>3. currentTeam # None /\ calls[i].team \in Teams
    BY <2>2 DEF TeamsInv, TeamOps, AllCalls, IsCall
  <2>4. Moved(calls, Others(i), TeamPageOps)
    BY <1>1, <2>2, MovedByRemoving DEF Others
  <2> QED  BY <2>2, <2>3, <2>4 DEF Refetched
<1> QED  BY <1>3, <1>4, <1>5 DEF TeamPageStep

LEMMA AbandonedMoves ==
  ASSUME NEW s, NEW m, Moved(s, m, ListOps)
  PROVE  Moved(s, Abandoned(m), ListOps)
<1>1. Marks(m, Abandoned(m), {"toggle", "deleteMonitor"})
  BY DEF Marks, Abandoned
<1> QED  BY <1>1, MovedByMarking DEF ListOps

LEMMA RenderMoves ==
  ASSUME NEW m, Moved(calls, m, ListOps), NEW l, NEW tbl, Render(l, tbl, m)
  PROVE  Moved(calls, calls', ListOps)
<1>1. calls' = m \/ calls' = Abandoned(m)
  BY DEF Render
<1> QED  BY <1>1, AbandonedMoves

(* The page that creates a monitor is opened: it asks for the plugins, too.  *)
OpensNew == area = "new" /\ OpenNew

LEMMA ListMoves ==
  ASSUME TeamsInv, MonitorStep, ~OpensNew
  PROVE  Moved(calls, calls', ListOps)
<1> USE DEF ListOps
<1>1. AllCalls(calls) /\ Moved(calls, calls, ListOps)
  BY MovedNot DEF TeamsInv
<1>2. ASSUME currentTeam # None, NEW m, Moved(calls, m, ListOps)
      PROVE  /\ \A c, n : Moved(calls, m \o MonitorsCall(currentTeam, c, n), ListOps)
             /\ Moved(calls, m \o FirstCall(currentTeam), ListOps)
  <2>1. currentTeam \in Teams
    BY <1>2 DEF TeamsInv
  <2>2. ASSUME NEW c, NEW n
        PROVE  Moved(calls, m \o MonitorsCall(currentTeam, c, n), ListOps)
    <3> DEFINE e == [op |-> "monitors", team |-> currentTeam, cursor |-> c,
                     then |-> n, reply |-> NoReply]
    <3>1. IsCall(e) /\ e.op = "monitors"
      BY <2>1, CallsAreCalls
    <3>2. MonitorsCall(currentTeam, c, n) = <<e>>
      BY DEF MonitorsCall
    <3> HIDE DEF e
    <3> QED  BY <1>2, <3>1, <3>2, MovedBySending
  <2> QED  BY <2>2 DEF FirstCall
<1>4. CASE ListClicks
  <2>1. currentTeam # None
    BY <1>4 DEF ListClicks, RefreshMonitors, GoNext, GoPrev, TableClickable, View
  <2>2. \E l, tbl, c, n : Render(l, tbl, calls \o MonitorsCall(currentTeam, c, n))
    BY <1>4, Zenon DEF ListClicks, RefreshMonitors, GoNext, GoPrev, FirstCall
  <2> QED  BY <1>1, <1>2, <2>1, <2>2, RenderMoves
<1>5. CASE RowClicks
  <2>1. CASE Cancel \/ \E r \in mons.rows : OpenToggle(r) \/ OpenDelete(r)
    BY <1>1, <2>1 DEF Cancel, OpenToggle, OpenDelete
  <2>2. CASE ConfirmToggle \/ ConfirmDelete
    <3>1. currentTeam # None /\ currentTeam \in Teams
      BY <2>2 DEF ConfirmToggle, ConfirmDelete, TeamsInv, DialogOpen
    <3>2. PICK c, l, tbl : /\ Render(l, tbl, Append(calls, c))
              /\ \/ \E x : \E y \in BOOLEAN :
                      c = [op |-> "toggle", team |-> currentTeam, id |-> x,
                           enable |-> y, mine |-> TRUE, reply |-> NoReply]
                 \/ \E x : c = [op |-> "deleteMonitor", team |-> currentTeam,
                            id |-> x, mine |-> TRUE, reply |-> NoReply]
      <4>1. (~table.selected.enabled) \in BOOLEAN
        OBVIOUS
      <4> QED  BY <2>2, <4>1, Zenon DEF ConfirmToggle, ConfirmDelete
    <3>3. IsCall(c) /\ c.op \in ListOps
      BY <3>1, <3>2 DEF IsCall
    <3>4. Moved(calls, Append(calls, c), ListOps)
      BY <1>1, <3>3, MovedBySending
    <3> QED  BY <3>1, <3>2, <3>4, RenderMoves
  <2> QED  BY <1>5, <2>1, <2>2 DEF RowClicks
<1>6. CASE area = "new" /\ NewClicks
  <2>2. CASE LeaveNew
    <3> DEFINE m == [i \in DOMAIN calls |->
                       IF calls[i].op = "create" THEN [calls[i] EXCEPT !.mine = FALSE]
                       ELSE calls[i]]
    <3>1. /\ currentTeam # None
          /\ \E l, tbl : Render(l, tbl, m \o FirstCall(currentTeam))
      BY <2>2, Zenon DEF LeaveNew
    <3>2. Marks(calls, m, {"create"})
      BY DEF Marks
    <3> HIDE DEF m
    <3>3. Moved(calls, m, ListOps)
      BY <1>1, <3>2, MovedByMarking
    <3> QED  BY <1>2, <3>1, <3>3, RenderMoves
  <2>3. CASE HandleSubmit
    <3>1. currentTeam # None /\ currentTeam \in Teams
      BY <2>3 DEF HandleSubmit, TeamsInv
    <3>2. PICK x : calls' = Append(calls, [op |-> "create", team |-> currentTeam,
                     channels |-> x, mine |-> TRUE, reply |-> NoReply])
      BY <2>3 DEF HandleSubmit
    <3> DEFINE c == [op |-> "create", team |-> currentTeam,
                     channels |-> x, mine |-> TRUE, reply |-> NoReply]
    <3>3. IsCall(c) /\ c.op \in ListOps
      BY <3>1 DEF IsCall
    <3> HIDE DEF c
    <3>4. Moved(calls, Append(calls, c), ListOps)
      BY <1>1, <3>3, MovedBySending
    <3> QED  BY <3>1, <3>2, <3>4 DEF c
  <2>4. CASE \E y \in Types : ToggleChannel(y)
    BY <1>1, <2>4 DEF ToggleChannel
  <2> QED  BY <1>6, <2>2, <2>3, <2>4 DEF NewClicks, OpensNew
<1>7. CASE MonitorServed
  <2>1. \E i \in DOMAIN calls : \E r : calls[i].op \in ListOps /\ Reply(i, r)
    BY <1>7 DEF MonitorServed, ServeMonitors, ServeToggle, ServeDeleteMonitor,
                ServeCreateMonitor, Pending
  <2>2. currentTeam # None
    BY <2>1 DEF TeamsInv, TeamOps
  <2> QED  BY <1>1, <2>1, <2>2, MovedByReplying
<1>8. CASE MonitorAnswers
  <2>1. PICK i \in DOMAIN calls :
       \/ FetchMonitorsSucceeds(i) \/ FetchMonitorsFails(i)
       \/ ToggleSucceeds(i) \/ DeleteMonitorSucceeds(i) \/ ChangeFails(i)
       \/ CreateMonitorSucceeds(i) \/ CreateMonitorFails(i)
    BY <1>8 DEF MonitorAnswers
  <2>2. /\ calls[i].op \in ListOps
        /\ \E l, tbl, m : /\ Render(l, tbl, m)
              /\ \/ m = Others(i)
                 \/ \E c, n : m = Others(i) \o MonitorsCall(currentTeam, c, n)
    <3>1. calls[i].op \in ListOps
      BY <2>1 DEF FetchMonitorsSucceeds, FetchMonitorsFails, ToggleSucceeds,
           DeleteMonitorSucceeds, ChangeFails, CreateMonitorSucceeds,
           CreateMonitorFails, Pending
    <3>2. CASE FetchMonitorsSucceeds(i) \/ FetchMonitorsFails(i)
      <4>1. PICK l : AfterFetch(i, l)
        BY <3>2, Zenon DEF FetchMonitorsSucceeds, FetchMonitorsFails
      <4>2. \/ \E x, tbl : Render(x, tbl, Others(i))
            \/ \E x, tbl : Render(x, tbl, Others(i) \o FirstCall(currentTeam))
        BY <4>1, Zenon DEF AfterFetch
      <4> QED  BY <3>1, <4>2 DEF FirstCall
    <3>3. CASE CreateMonitorSucceeds(i)
      <4>1. \/ \E x, tbl : Render(x, tbl, Others(i))
            \/ \E x, tbl, c, n :
                 Render(x, tbl, Others(i) \o MonitorsCall(currentTeam, c, n))
        BY <3>3, Zenon DEF CreateMonitorSucceeds
      <4> QED  BY <3>1, <4>1
    <3>4. CASE ToggleSucceeds(i) \/ DeleteMonitorSucceeds(i) \/ ChangeFails(i)
                 \/ CreateMonitorFails(i)
      <4>1. \E x, tbl : Render(x, tbl, Others(i))
        BY <3>4, Zenon DEF ToggleSucceeds, DeleteMonitorSucceeds, ChangeFails,
                           CreateMonitorFails
      <4> QED  BY <3>1, <4>1
    <3> QED  BY <2>1, <3>2, <3>3, <3>4
  <2>3. currentTeam # None
    BY <2>2 DEF TeamsInv, TeamOps
  <2>4. Moved(calls, Others(i), ListOps)
    BY <1>1, <2>2, MovedByRemoving DEF Others
  <2> QED  BY <1>2, <2>2, <2>3, <2>4, RenderMoves
<1> QED  BY <1>4, <1>5, <1>6, <1>7, <1>8 DEF MonitorStep

LEMMA MonitorMoves ==
  ASSUME TeamsInv, MonitorStep
  PROVE  /\ Moved(calls, calls', MonitorOps) /\ UNCHANGED teamVars
         /\ UNCHANGED <<incidentVars, dbPlugins, form, teamPageVars>>
         /\ ~OpensNew => UNCHANGED plugins
<1>1. /\ UNCHANGED <<teamVars, incidentVars, dbPlugins, form, teamPageVars>>
      /\ ~OpensNew => UNCHANGED plugins
  BY DEF MonitorStep, ListClicks, RowClicks, NewClicks, MonitorServed,
         MonitorAnswers, RefreshMonitors, GoNext, GoPrev, OpenToggle, OpenDelete,
         Cancel, ConfirmToggle, ConfirmDelete, OpenNew, LeaveNew, HandleSubmit,
         ToggleChannel, ServeMonitors, ServeToggle, ServeDeleteMonitor,
         ServeCreateMonitor, FetchMonitorsSucceeds, FetchMonitorsFails,
         ToggleSucceeds, DeleteMonitorSucceeds, ChangeFails,
         CreateMonitorSucceeds, CreateMonitorFails, pluginVars, OpensNew
<1>2. Moved(calls, calls', MonitorOps)
  <2>1. ASSUME NEW m, Moved(calls, m, ListOps)  PROVE Moved(calls, m, MonitorOps)
    BY <2>1 DEF Moved, MonitorOps
  <2>2. CASE ~OpensNew
    BY <2>1, <2>2, ListMoves
  <2>3. CASE OpensNew
    <3>1. /\ currentTeam \in Teams
          /\ calls' = Abandoned(calls) \o <<Read("plugins", currentTeam)>>
      BY <2>3 DEF OpensNew, OpenNew, FetchPlugins, ListPluginsCall, TeamsInv
    <3>2. Moved(calls, Abandoned(calls), MonitorOps)
      BY <2>1, AbandonedMoves, MovedNot DEF TeamsInv
    <3>3. IsCall(Read("plugins", currentTeam))
          /\ Read("plugins", currentTeam).op \in MonitorOps
      BY <3>1, CallsAreCalls DEF MonitorOps
    <3> QED  BY <3>1, <3>2, <3>3, MovedBySending
  <2> QED  BY <2>2, <2>3
<1> QED  BY <1>1, <1>2

(* The effect of the page on screen sends what that page asks for.          *)
EffectOps == {"incidents", "incident", "plugins", "plugin", "monitors",
              "toggle", "deleteMonitor", "team"}

LEMMA EffectMoves ==
  ASSUME NEW t \in Teams, NEW m, AllCalls(m)
  PROVE  Moved(m, EffectSends(m, t), EffectOps)
<1>1. Moved(m, m, EffectOps)
  BY MovedNot
<1>2. Moved(m, Abandoned(m), EffectOps)
  <2>1. Marks(m, Abandoned(m), {"toggle", "deleteMonitor"})
    BY DEF Marks, Abandoned
  <2> QED  BY <1>1, <2>1, MovedByMarking DEF EffectOps
<1>3. ASSUME NEW e, IsCall(e), e.op \in EffectOps, NEW x, Moved(m, x, EffectOps)
      PROVE  Moved(m, x \o <<e>>, EffectOps)
  BY <1>3, MovedBySending
<1>4. \E x, e : /\ Moved(m, x, EffectOps) /\ IsCall(e) /\ e.op \in EffectOps
                /\ EffectSends(m, t) \in {m, x \o <<e>>}
  <2>1. CASE EffectSends(m, t) = m
    BY <1>1, <2>1, CallsAreCalls DEF EffectOps
  <2>2. CASE EffectSends(m, t) = m \o ListSends(t)
    <3> DEFINE e == [op |-> "incidents", team |-> t, cursor |-> list.cursor,
                     reply |-> NoReply]
    <3>1. IsCall(e) /\ e.op \in EffectOps
      BY CallsAreCalls DEF EffectOps
    <3>2. EffectSends(m, t) = m \o <<e>>
      BY <2>2 DEF ListSends, ListCall
    <3> QED  BY <1>1, <3>1, <3>2
  <2>3. CASE \/ EffectSends(m, t) = m \o DetailCall(t)
             \/ EffectSends(m, t) = m \o PluginsSend(t)
             \/ EffectSends(m, t) = m \o FetchAllSends(t)
    <3>1. PICK o \in {"incident", "plugins", "team"} :
            EffectSends(m, t) = m \o <<Read(o, t)>>
      BY <2>3 DEF DetailCall, PluginsSend, ListPluginsCall, FetchAllSends
    <3>2. IsCall(Read(o, t)) /\ Read(o, t).op \in EffectOps
      BY CallsAreCalls DEF EffectOps
    <3> QED  BY <1>1, <3>1, <3>2
  <2>4. CASE EffectSends(m, t) = m \o FormSends(t)
    <3>1. IsCall(FormCall(t, form.type)) /\ FormCall(t, form.type).op \in EffectOps
      BY CallsAreCalls DEF EffectOps
    <3> QED  BY <1>1, <2>4, <3>1 DEF FormSends
  <2>5. CASE EffectSends(m, t) = MonitorsSend(m, t)
    <3> DEFINE e == [op |-> "monitors", team |-> t, cursor |-> 0, then |-> <<>>,
                     reply |-> NoReply]
    <3>1. IsCall(e) /\ e.op \in EffectOps
      BY CallsAreCalls DEF EffectOps
    <3>2. \/ EffectSends(m, t) = m \o <<e>>
          \/ EffectSends(m, t) = Abandoned(m) \o <<e>>
      BY <2>5 DEF MonitorsSend, FirstCall, MonitorsCall
    <3> HIDE DEF e
    <3> QED  BY <1>1, <1>2, <3>1, <3>2
  <2> QED  BY <2>1, <2>2, <2>3, <2>4, <2>5, ClientAssumption DEF EffectSends
<1> QED  BY <1>1, <1>3, <1>4

(* What the switcher of teams, its answers and the mounting of a page do to *)
(* the page: nothing; or the effect runs, of a team that is there.          *)
Undisturbed ==
  /\ UNCHANGED <<pageVars, currentTeam>>
  /\ Moved(calls, calls', TeamOps)

Rerendered ==
  \E m : /\ Moved(calls, m, TeamOps)
         /\ currentTeam' \in Teams /\ EffectRenders(currentTeam')
         /\ Moved(m, EffectSends(m, currentTeam'), EffectOps)
         /\ Moved(EffectSends(m, currentTeam'), calls', TeamOps)
         /\ currentTeam' # currentTeam \/ area \in {"monitors", "new"} \/ ~mounted

TeamStep == TeamClicks \/ TeamServed \/ TeamAnswers

LEMMA ChosenIsOurs ==
  ASSUME NEW ours, ours # {}, ours \subseteq Teams, NEW saved
  PROVE  Chosen(ours, saved) \in ours
BY DEF Chosen

(* A team that is fetched or chosen is one of the user's.                   *)
LEMMA TeamAnswersTeams ==
  ASSUME TeamsInv, NEW i \in DOMAIN calls
  PROVE  /\ i \in Pending("createTeam") => TeamAfterCreate(calls[i].team) \in Teams
         /\ i \in Pending("teams") /\ Served(i) =>
              /\ TeamAfterFetch(i) \in calls[i].reply.teams
              /\ TeamAfterFetch(i) \in Teams
<1>1. IsCall(calls[i]) /\ currentTeam \in Teams \cup {None}
  BY DEF TeamsInv, AllCalls
<1>2. i \in Pending("createTeam") => TeamAfterCreate(calls[i].team) \in Teams
  BY <1>1 DEF Pending, TeamAfterCreate, IsCall
<1>3. ASSUME i \in Pending("teams"), Served(i)
      PROVE  TeamAfterFetch(i) \in calls[i].reply.teams /\ calls[i].reply.teams \subseteq Teams
  <2>1. calls[i].reply.teams # {} /\ calls[i].reply.teams \subseteq Teams
    BY <1>3 DEF TeamsInv, Pending, Pend
  <2> QED  BY <2>1, ChosenIsOurs DEF TeamAfterFetch
<1> QED  BY <1>2, <1>3

LEMMA Afterwards ==
  ASSUME NEW m, Moved(calls, m, TeamOps), NEW t \in Teams, NEW fresh,
         currentTeam' = t, Rerender(t, fresh),
         Moved(After(m, t, fresh), calls', TeamOps)
  PROVE  Undisturbed \/ Rerendered
<1>1. CASE t # currentTeam \/ (fresh /\ area \in {"monitors", "new"})
  <2>1. EffectRenders(t) /\ After(m, t, fresh) = EffectSends(m, t)
    BY <1>1 DEF Rerender, After
  <2>2. Moved(m, EffectSends(m, t), EffectOps)
    BY EffectMoves DEF Moved
  <2> QED  BY <1>1, <2>1, <2>2 DEF Rerendered
<1>2. CASE ~(t # currentTeam \/ (fresh /\ area \in {"monitors", "new"}))
  <2>1. UNCHANGED <<pageVars, currentTeam>> /\ After(m, t, fresh) = m
    BY <1>2 DEF Rerender, After
  <2>2. Moved(calls, calls', TeamOps)
    BY <2>1, MovedOn
  <2> QED  BY <2>1, <2>2 DEF Undisturbed
<1> QED  BY <1>1, <1>2

LEMMA TeamMoves ==
  ASSUME TeamsInv, TeamStep
  PROVE  Undisturbed \/ Rerendered
<1> USE DEF TeamOps
<1>1. AllCalls(calls) /\ Moved(calls, calls, TeamOps)
  BY MovedNot DEF TeamsInv
<1>2. ASSUME NEW m, AllCalls(m), NEW o \in TeamOps, NEW t, t \in Teams \/ o = "teams"
      PROVE  Moved(m, Append(m, Read(o, t)), TeamOps)
  <2>1. IsCall(Read(o, t)) /\ Read(o, t).op = o
    BY <1>2 DEF IsCall, Read
  <2>2. Moved(m, m, TeamOps)
    BY <1>2, MovedNot
  <2> QED  BY <2>1, <2>2, MovedBySending
<1>3. ASSUME NEW t \in Teams, NEW m, AllCalls(m)
      PROVE  \A fresh : AllCalls(After(m, t, fresh))
  BY <1>3, EffectMoves DEF After, Moved
<1>4. CASE TeamClicks
  <2>1. CASE SwitchTeam
    <3>1. PICK t \in teams :
            SetCurrentTeam(t, After(calls, t, FALSE)) /\ Rerender(t, FALSE)
      BY <2>1 DEF SwitchTeam
    <3>2. t \in Teams /\ currentTeam' = t /\ calls' = After(calls, t, FALSE)
      BY <3>1 DEF TeamsInv, SetCurrentTeam
    <3>3. Moved(After(calls, t, FALSE), calls', TeamOps)
      BY <1>1, <1>3, <3>2, MovedNot
    <3> QED  BY <1>1, <3>1, <3>2, <3>3, Afterwards
  <2>2. CASE (\E open \in BOOLEAN : SetTeamDialog(open)) /\ UNCHANGED pageVars
    BY <1>1, <2>2 DEF SetTeamDialog, Undisturbed
  <2>3. CASE (\E t \in Teams : HandleCreate(t)) /\ UNCHANGED pageVars
    <3>1. PICK t \in Teams : HandleCreate(t)
      BY <2>3
    <3>2. Moved(calls, Append(calls, Read("createTeam", t)), TeamOps)
      BY <1>1, <1>2
    <3> QED  BY <2>3, <3>1, <3>2 DEF HandleCreate, Undisturbed
  <2> QED  BY <1>4, <2>1, <2>2, <2>3 DEF TeamClicks
<1>5. CASE TeamServed
  <2>1. PICK i \in DOMAIN calls : \E r : calls[i].op \in TeamOps /\ Reply(i, r)
                                          /\ UNCHANGED <<pageVars, currentTeam>>
    BY <1>5 DEF TeamServed, ServeCreateTeam, ServeTeams, Pending, teamVars
  <2> QED  BY <1>1, <2>1, MovedByReplying DEF Undisturbed
<1>6. CASE TeamAnswers
  <2>1. PICK i \in DOMAIN calls :
    \/ LET t == TeamAfterCreate(calls[i].team) IN
       CreateTeamSucceeds(i, After(Others(i), t, FALSE)) /\ Rerender(t, FALSE)
    \/ LET t == TeamAfterFetch(i) IN
       FetchTeamsSucceeds(i, After(Others(i), t, TRUE)) /\ Rerender(t, TRUE)
    \/ (CreateTeamFails(i) \/ FetchTeamsFails(i)) /\ UNCHANGED pageVars
    BY <1>6 DEF TeamAnswers
  <2>2. calls[i].op \in TeamOps
    BY <2>1 DEF CreateTeamSucceeds, FetchTeamsSucceeds, CreateTeamFails,
                FetchTeamsFails, Pending
  <2>3. Moved(calls, Others(i), TeamOps)
    BY <1>1, <2>2, MovedByRemoving DEF Others
  <2>4. AllCalls(Others(i))
    BY <2>3 DEF Moved
  <2>5. CASE (CreateTeamFails(i) \/ FetchTeamsFails(i)) /\ UNCHANGED pageVars
    BY <2>3, <2>5 DEF CreateTeamFails, FetchTeamsFails, Undisturbed
  <2>6. CASE LET t == TeamAfterCreate(calls[i].team) IN
             CreateTeamSucceeds(i, After(Others(i), t, FALSE)) /\ Rerender(t, FALSE)
    <3>1. PICK t : /\ t = TeamAfterCreate(calls[i].team)
                   /\ CreateTeamSucceeds(i, After(Others(i), t, FALSE))
                   /\ Rerender(t, FALSE)
      BY <2>6
    <3>2. /\ i \in Pending("createTeam") /\ currentTeam' = t
          /\ calls' = Append(After(Others(i), t, FALSE), Read("teams", None))
      BY <3>1 DEF CreateTeamSucceeds
    <3>3. t \in Teams
      BY <3>1, <3>2, TeamAnswersTeams
    <3>4. Moved(After(Others(i), t, FALSE), calls', TeamOps)
      BY <1>2, <1>3, <2>4, <3>2, <3>3
    <3> QED  BY <2>3, <3>1, <3>2, <3>3, <3>4, Afterwards
  <2>7. CASE LET t == TeamAfterFetch(i) IN
             FetchTeamsSucceeds(i, After(Others(i), t, TRUE)) /\ Rerender(t, TRUE)
    <3>1. PICK t : /\ t = TeamAfterFetch(i)
                   /\ FetchTeamsSucceeds(i, After(Others(i), t, TRUE))
                   /\ Rerender(t, TRUE)
      BY <2>7
    <3>2. /\ i \in Pending("teams") /\ Served(i) /\ currentTeam' = t
          /\ calls' = After(Others(i), t, TRUE)
      BY <3>1 DEF FetchTeamsSucceeds
    <3>3. t \in Teams
      BY <3>1, <3>2, TeamAnswersTeams
    <3>4. Moved(After(Others(i), t, TRUE), calls', TeamOps)
      BY <1>3, <2>4, <3>2, <3>3, MovedNot
    <3> QED  BY <2>3, <3>1, <3>2, <3>3, <3>4, Afterwards
  <2> QED  BY <2>1, <2>5, <2>6, <2>7
<1> QED  BY <1>4, <1>5, <1>6 DEF TeamStep

LEMMA MountMoves ==
  ASSUME TeamsInv, Mount
  PROVE  Rerendered \/ (Undisturbed /\ currentTeam = None)
<1>1. /\ calls' = EffectSends(calls, currentTeam)
      /\ EffectRenders(currentTeam) /\ UNCHANGED currentTeam /\ ~mounted
  BY DEF Mount, teamVars
<1>2. AllCalls(calls)
  BY DEF TeamsInv
<1>3. CASE currentTeam = None
  <2>1. calls' = calls
    BY <1>1, <1>3 DEF EffectSends
  <2>2. UNCHANGED <<pageVars, currentTeam>>
    BY <1>1, <1>3 DEF EffectRenders
  <2>3. Moved(calls, calls, TeamOps)
    BY <1>2, MovedNot
  <2> QED  BY <1>3, <2>1, <2>2, <2>3 DEF Undisturbed
<1>4. CASE currentTeam # None
  <2>1. currentTeam \in Teams
    BY <1>4 DEF TeamsInv
  <2>2. Moved(calls, EffectSends(calls, currentTeam), EffectOps)
    BY <1>2, <2>1, EffectMoves
  <2>3. Moved(calls, calls, TeamOps) /\ Moved(calls', calls', TeamOps)
    BY <1>1, <1>2, <2>2, MovedNot DEF Moved
  <2> QED  BY <1>1, <2>1, <2>2, <2>3 DEF Rerendered
<1> QED  BY <1>3, <1>4

-----------------------------------------------------------------------------
(* Without a team, only the list of incidents has controls that do anything. *)
LEMMA TeamlessRests ==
  ASSUME TeamsInv, currentTeam = None
  PROVE  ~PluginStep /\ ~MonitorStep /\ ~TeamPageStep
<1>1. \A i \in DOMAIN calls : calls[i].op \in {"createTeam", "teams"}
  BY DEF TeamsInv, TeamOps
<1>2. form.type = None /\ ~draft.open /\ ~DialogOpen
  BY DEF TeamsInv
<1>3. ~PluginStep
  <2>1. ~PluginClicks
    BY <1>2 DEF PluginClicks, OpenPlugin, TypeKey, BackToPlugins, HandleSave,
                HandleDelete
  <2>2. ~PluginServed
    BY <1>1 DEF PluginServed, ServePlugins, ServePlugin, ServeUpsert,
                ServeDeletePlugin, Pending
  <2>3. ~PluginAnswers
    BY <1>1 DEF PluginAnswers, FetchPluginsSucceeds, FetchPluginsFails,
         FetchPluginSucceeds, FetchPluginFails, UpsertSucceeds,
         DeletePluginSucceeds, PluginChangeFails, Changing, Pending
  <2> QED  BY <2>1, <2>2, <2>3 DEF PluginStep
<1>4. ~MonitorStep
  <2>1. ~ListClicks
    BY DEF ListClicks, RefreshMonitors, GoNext, GoPrev, TableClickable, View
  <2>2. ~RowClicks
    BY <1>2 DEF RowClicks, OpenToggle, OpenDelete, TableClickable, View, Cancel,
                ConfirmToggle, ConfirmDelete, DialogOpen
  <2>3. ~NewClicks
    BY <1>2 DEF NewClicks, OpenNew, LeaveNew, HandleSubmit, ToggleChannel
  <2>4. ~MonitorServed
    BY <1>1 DEF MonitorServed, ServeMonitors, ServeToggle, ServeDeleteMonitor,
                ServeCreateMonitor, Pending
  <2>5. ~MonitorAnswers
    BY <1>1 DEF MonitorAnswers, FetchMonitorsSucceeds, FetchMonitorsFails,
         ToggleSucceeds, DeleteMonitorSucceeds, ChangeFails,
         CreateMonitorSucceeds, CreateMonitorFails, Pending
  <2> QED  BY <2>1, <2>2, <2>3, <2>4, <2>5 DEF MonitorStep
<1>5. ~TeamPageStep
  <2>1. ~TeamPageClicks
    BY DEF TeamPageClicks, SaveName, Activate, Deactivate, OpenInvite,
           CloseInvite, OnInvite, SetConfirm, RevokeInvitation, OnTeamPage, Shown
  <2>2. ~TeamPageServed
    BY <1>1 DEF TeamPageServed, ServeTeam, ServeRename, ServeSetActive,
                ServeInvite, ServeRevoke, Pending
  <2>3. ~TeamPageAnswers
    BY <1>1 DEF TeamPageAnswers, FetchAllSucceeds, FetchAllFails,
         RenameSucceeds, SetActiveSucceeds, InviteSucceeds, RevokeSucceeds,
         TeamChangeFails, TeamChanges, Pending
  <2> QED  BY <2>1, <2>2, <2>3 DEF TeamPageStep
<1> QED  BY <1>3, <1>4, <1>5

(* Every step, but those of the pages that lead into the application.       *)
GroupStep ==
  /\ mounted /\ UNCHANGED mounted
  /\ IncidentStep \/ PluginStep \/ MonitorStep \/ TeamPageStep

LEMMA Steps ==
  ASSUME TeamsInv, area # "session", [Next]_vars
  PROVE  /\ area' = area
         /\ \/ Rerendered /\ mounted'
            \/ Undisturbed /\ (UNCHANGED mounted \/ currentTeam = None)
            \/ GroupStep
<1>1. CASE UNCHANGED vars
  <2>1. Moved(calls, calls', TeamOps)
    BY <1>1, MovedNot DEF TeamsInv, vars, clientVars
  <2> QED  BY <1>1, <2>1 DEF Undisturbed, vars, clientVars
<1>2. CASE Mount
  BY <1>2, MountMoves DEF Mount
<1>3. CASE mounted /\ (PageStep \/ SessionStep) /\ UNCHANGED <<area, mounted>>
  <2>1. PageStep
    BY <1>3 DEF SessionStep, SessionOn
  <2>2. TeamStep \/ IncidentStep \/ PluginStep \/ MonitorStep \/ TeamPageStep
    BY <2>1 DEF PageStep, Clicks, Answers, TeamStep, IncidentStep, PluginStep,
                MonitorStep, TeamPageStep
  <2> QED  BY <1>3, <2>2, TeamMoves DEF GroupStep
<1> QED  BY <1>1, <1>2, <1>3 DEF Next

-----------------------------------------------------------------------------
(* What TeamsInv says of a call about teams, when the server has ours.      *)
Sound(c, ours) ==
  /\ c.op = "createTeam" /\ c.reply # NoReply => ours # {}
  /\ c.op = "teams" =>
       /\ ours # {}
       /\ c.reply # NoReply =>
            c.reply.teams \subseteq Teams /\ c.reply.teams # {}

(* The calls about teams in t are some of those in s.                       *)
Came(s, t) == \A j \in Pend(t, TeamOps) : \E k \in Pend(s, TeamOps) : t[j] = s[k]

LEMMA SoundCalls ==
  ASSUME TeamsInv
  PROVE  \A k \in Pend(calls, TeamOps) : Sound(calls[k], dbTeams)
BY DEF TeamsInv, Sound, Pend, Served, TeamOps

LEMMA MovedComes ==
  ASSUME NEW s, NEW t, NEW M, Moved(s, t, M), M \cap TeamOps = {}
  PROVE  Came(s, t)
<1>1. Keeps(s, t, TeamOps)
  BY DEF Moved
<1> QED  BY <1>1 DEF Keeps, Came

LEMMA RemovedComes ==
  ASSUME NEW s, AllCalls(s), NEW i \in DOMAIN s
  PROVE  Came(s, RemoveAt(s, i))
<1>1. CASE s[i].op \in TeamOps
  <2>1. Loses(s, RemoveAt(s, i), TeamOps, i)
    BY <1>1, Removing
  <2> QED  BY <2>1 DEF Loses, Came
<1>2. CASE s[i].op \notin TeamOps
  <2>1. Keeps(s, RemoveAt(s, i), TeamOps)
    BY <1>2, Removing
  <2> QED  BY <2>1 DEF Keeps, Came
<1> QED  BY <1>1, <1>2

LEMMA ComesOn ==
  ASSUME NEW s, NEW m, NEW t, Came(s, m), Came(m, t)
  PROVE  Came(s, t)
BY DEF Came

LEMMA AfterComes ==
  ASSUME TeamsInv, NEW i \in DOMAIN calls, NEW t \in Teams, NEW fresh
  PROVE  /\ AllCalls(After(Others(i), t, fresh))
         /\ Came(calls, After(Others(i), t, fresh))
<1>1. AllCalls(calls) /\ AllCalls(Others(i)) /\ Came(calls, Others(i))
  BY Removing, RemovedComes DEF TeamsInv, Others
<1>2. CASE After(Others(i), t, fresh) = Others(i)
  BY <1>1, <1>2
<1>3. CASE After(Others(i), t, fresh) = EffectSends(Others(i), t)
  <2>1. Moved(Others(i), EffectSends(Others(i), t), EffectOps)
    BY <1>1, EffectMoves
  <2>2. Came(Others(i), EffectSends(Others(i), t))
    BY <2>1, MovedComes DEF EffectOps, TeamOps
  <2> QED  BY <1>1, <1>3, <2>1, <2>2, ComesOn DEF Moved
<1> QED  BY <1>2, <1>3 DEF After

-----------------------------------------------------------------------------
LEMMA TeamVarsNext ==
  ASSUME TeamsInv, TeamStep \/ UNCHANGED teamVars
  PROVE  /\ dbTeams \subseteq dbTeams' /\ dbTeams' \subseteq Teams
         /\ teams' \subseteq Teams
         /\ currentTeam' # None \/ teams' # {} => dbTeams' # {}
<1>1. CASE UNCHANGED teamVars
  BY <1>1 DEF TeamsInv, teamVars
<1>2. CASE TeamClicks
  <2>1. CASE SwitchTeam
    BY <2>1 DEF SwitchTeam, SetCurrentTeam, TeamsInv
  <2>2. CASE (\E open \in BOOLEAN : SetTeamDialog(open)) \/ \E t \in Teams : HandleCreate(t)
    BY <2>2 DEF SetTeamDialog, HandleCreate, TeamsInv
  <2> QED  BY <1>2, <2>1, <2>2 DEF TeamClicks
<1>3. CASE TeamServed
  <2>1. PICK i \in DOMAIN calls : ServeCreateTeam(i) \/ ServeTeams(i)
    BY <1>3 DEF TeamServed
  <2>2. CASE ServeCreateTeam(i)
    <3>1. calls[i].team \in Teams
      BY <2>2 DEF ServeCreateTeam, Pending, TeamsInv, AllCalls, IsCall
    <3> QED  BY <2>2, <3>1 DEF ServeCreateTeam, TeamsInv
  <2>3. CASE ServeTeams(i)
    BY <2>3 DEF ServeTeams, teamVars, TeamsInv
  <2> QED  BY <2>1, <2>2, <2>3
<1>4. CASE TeamAnswers
  <2>1. PICK i \in DOMAIN calls :
          \/ \E m : CreateTeamSucceeds(i, m) \/ FetchTeamsSucceeds(i, m)
          \/ CreateTeamFails(i) \/ FetchTeamsFails(i)
    BY <1>4 DEF TeamAnswers
  <2>2. CASE \E m : CreateTeamSucceeds(i, m)
    <3>1. /\ i \in Pend(calls, {"createTeam"}) /\ Served(i)
          /\ teams' = teams \cup {calls[i].team} /\ dbTeams' = dbTeams
      BY <2>2 DEF CreateTeamSucceeds, Pending, Pend
    <3>2. calls[i].team \in Teams /\ dbTeams # {}
      BY <3>1 DEF TeamsInv, AllCalls, IsCall, Pend
    <3> QED  BY <3>1, <3>2 DEF TeamsInv
  <2>3. CASE \E m : FetchTeamsSucceeds(i, m)
    <3>1. /\ i \in Pend(calls, {"teams"}) /\ Served(i)
          /\ teams' = calls[i].reply.teams /\ dbTeams' = dbTeams
      BY <2>3 DEF FetchTeamsSucceeds, Pending, Pend
    <3> QED  BY <3>1 DEF TeamsInv
  <2>4. CASE CreateTeamFails(i) \/ FetchTeamsFails(i)
    BY <2>4 DEF CreateTeamFails, FetchTeamsFails, TeamsInv
  <2> QED  BY <2>1, <2>2, <2>3, <2>4
<1> QED  BY <1>1, <1>2, <1>3, <1>4 DEF TeamStep

LEMMA AskedIsSound ==
  ASSUME NEW m, Came(calls, m), NEW e, Asks(m, calls', TeamOps, e),
         Sound(e, dbTeams')
  PROVE  \A j \in Pend(calls', TeamOps) :
           Sound(calls'[j], dbTeams') \/ \E k \in Pend(calls, TeamOps) : calls'[j] = calls[k]
<1>1. \A j \in Pend(calls', TeamOps) :
        calls'[j] = e \/ \E k \in Pend(calls, TeamOps) : calls'[j] = calls[k]
  BY DEF Asks, Came
<1> QED  BY <1>1

LEMMA SentIsSound ==
  ASSUME NEW m, AllCalls(m), Came(calls, m), NEW e, IsCall(e), e.op \in TeamOps,
         Sound(e, dbTeams'), calls' = Append(m, e)
  PROVE  \A j \in Pend(calls', TeamOps) :
           Sound(calls'[j], dbTeams') \/ \E k \in Pend(calls, TeamOps) : calls'[j] = calls[k]
<1>1. Asks(m, Append(m, e), TeamOps, e)
  BY Sending
<1>2. Asks(m, calls', TeamOps, e)
  BY Zenon, <1>1
<1> QED  BY <1>2, AskedIsSound

LEMMA TeamCallsNext ==
  ASSUME TeamsInv, TeamStep \/ GroupStep \/ Mount \/ UNCHANGED calls
  PROVE  \A j \in Pend(calls', TeamOps) :
           Sound(calls'[j], dbTeams') \/ \E k \in Pend(calls, TeamOps) : calls'[j] = calls[k]
<1> SUFFICES Came(calls, calls') \/
               \A j \in Pend(calls', TeamOps) :
                 \/ Sound(calls'[j], dbTeams')
                 \/ \E k \in Pend(calls, TeamOps) : calls'[j] = calls[k]
  BY DEF Came
<1>1. AllCalls(calls) /\ Came(calls, calls)
  BY DEF TeamsInv, Came
<1>2. CASE UNCHANGED calls
  BY <1>1, <1>2
<1>3. CASE Mount
  <2>1. calls' = EffectSends(calls, currentTeam)
    BY <1>3 DEF Mount
  <2>2. CASE currentTeam = None
    BY <1>1, <2>1, <2>2 DEF EffectSends
  <2>3. CASE currentTeam \in Teams
    <3>1. Moved(calls, calls', EffectOps)
      BY <1>1, <2>1, <2>3, EffectMoves
    <3> QED  BY <3>1, MovedComes DEF EffectOps, TeamOps
  <2> QED  BY <2>2, <2>3 DEF TeamsInv
<1>4. CASE GroupStep
  <2>1. CASE IncidentStep \/ PluginStep \/ MonitorStep \/ Moved(calls, calls', TeamPageOps)
    <3>1. \/ Moved(calls, calls', IncidentOps) \/ Moved(calls, calls', PluginOps)
          \/ Moved(calls, calls', MonitorOps) \/ Moved(calls, calls', TeamPageOps)
      BY <2>1, IncidentMoves, PluginMoves, MonitorMoves
    <3> QED
      BY <3>1, MovedComes DEF IncidentOps, PluginOps, MonitorOps, ListOps, TeamPageOps, TeamOps
  <2>2. CASE TeamPageStep /\ Refetched
    <3>1. PICK m : \E t \in Teams :
            Moved(calls, m, TeamPageOps) /\ calls' = Append(m, Read("teams", t))
      BY <2>2 DEF Refetched
    <3>0. PICK t \in Teams : calls' = Append(m, Read("teams", t))
      BY <3>1
    <3>2. Came(calls, m) /\ AllCalls(m)
      BY <3>1, MovedComes DEF TeamPageOps, TeamOps, Moved
    <3>3. /\ IsCall(Read("teams", t)) /\ Read("teams", t).op = "teams"
          /\ ~(Read("teams", t).reply # NoReply)
      BY CallsAreCalls
    <3>4. dbTeams' # {}
      BY <2>2, TeamlessRests, TeamPageMoves DEF TeamsInv, teamVars
    <3>5. Sound(Read("teams", t), dbTeams')
      BY <3>3, <3>4 DEF Sound
    <3> QED  BY <3>0, <3>2, <3>3, <3>5, SentIsSound DEF TeamOps
  <2> QED  BY <1>4, <2>1, <2>2, TeamPageMoves DEF GroupStep
<1>5. CASE TeamClicks
  <2>1. CASE SwitchTeam
    <3>1. PICK t \in teams : calls' = After(calls, t, FALSE)
      BY <2>1 DEF SwitchTeam, SetCurrentTeam
    <3>2. t \in Teams
      BY DEF TeamsInv
    <3>3. calls' = calls \/ Moved(calls, calls', EffectOps)
      BY <1>1, <3>1, <3>2, EffectMoves DEF After
    <3> QED  BY <1>1, <3>3, MovedComes DEF EffectOps, TeamOps
  <2>2. CASE \E open \in BOOLEAN : SetTeamDialog(open)
    BY <1>1, <2>2 DEF SetTeamDialog
  <2>3. CASE \E t \in Teams : HandleCreate(t)
    <3>1. PICK t \in Teams : calls' = Append(calls, Read("createTeam", t))
      BY <2>3 DEF HandleCreate
    <3>2. /\ IsCall(Read("createTeam", t)) /\ Read("createTeam", t).op = "createTeam"
          /\ ~(Read("createTeam", t).reply # NoReply)
      BY CallsAreCalls
    <3>3. Sound(Read("createTeam", t), dbTeams')
      BY <3>2 DEF Sound
    <3> QED  BY <1>1, <3>1, <3>2, <3>3, SentIsSound DEF TeamOps
  <2> QED  BY <1>5, <2>1, <2>2, <2>3 DEF TeamClicks
<1>6. CASE TeamServed
  <2>1. PICK i \in DOMAIN calls : ServeCreateTeam(i) \/ ServeTeams(i)
    BY <1>6 DEF TeamServed
  <2>2. PICK r : Reply(i, r)
                 /\ (ServeTeams(i) => r = [teams |-> dbTeams])
    BY <2>1 DEF ServeCreateTeam, ServeTeams, Pending
  <2>3. /\ \A j \in DOMAIN calls : calls'[j].op = calls[j].op
                                    /\ (j # i => calls'[j] = calls[j])
        /\ calls'[i].reply = r
        /\ Pend(calls', TeamOps) = Pend(calls, TeamOps)
    BY <1>1, <2>2, Replying
  <2>4. Sound(calls'[i], dbTeams')
    <3>1. CASE ServeCreateTeam(i)
      BY <2>3, <3>1 DEF ServeCreateTeam, Pending, Sound
    <3>2. CASE ServeTeams(i)
      <4>1. i \in Pend(calls, {"teams"}) /\ dbTeams' = dbTeams
        BY <3>2 DEF ServeTeams, Pending, Pend, teamVars
      <4>2. dbTeams # {} /\ dbTeams \subseteq Teams
        BY <4>1 DEF TeamsInv
      <4>3. calls'[i].op = "teams" /\ calls'[i].reply.teams = dbTeams
        BY <2>2, <2>3, <3>2, <4>1 DEF Pend
      <4> QED  BY <4>1, <4>2, <4>3 DEF Sound
    <3> QED  BY <2>1, <3>1, <3>2
  <2>5. \A j \in Pend(calls, TeamOps) : j \in DOMAIN calls
    BY DEF Pend
  <2> QED  BY <2>3, <2>4, <2>5
<1>7. CASE TeamAnswers
  <2>1. PICK i \in DOMAIN calls :
          \/ CreateTeamSucceeds(i, After(Others(i), TeamAfterCreate(calls[i].team), FALSE))
          \/ FetchTeamsSucceeds(i, After(Others(i), TeamAfterFetch(i), TRUE))
          \/ CreateTeamFails(i) \/ FetchTeamsFails(i)
    BY <1>7 DEF TeamAnswers
  <2>2. CASE CreateTeamFails(i) \/ FetchTeamsFails(i)
    BY <1>1, <2>2, RemovedComes DEF CreateTeamFails, FetchTeamsFails, Others
  <2>3. CASE FetchTeamsSucceeds(i, After(Others(i), TeamAfterFetch(i), TRUE))
    <3>1. TeamAfterFetch(i) \in Teams
      BY <2>3, TeamAnswersTeams DEF FetchTeamsSucceeds
    <3> QED  BY <2>3, <3>1, AfterComes DEF FetchTeamsSucceeds
  <2>4. CASE CreateTeamSucceeds(i, After(Others(i), TeamAfterCreate(calls[i].team), FALSE))
    <3>1. PICK m : /\ m = After(Others(i), TeamAfterCreate(calls[i].team), FALSE)
                   /\ CreateTeamSucceeds(i, m)
      BY <2>4
    <3>2. TeamAfterCreate(calls[i].team) \in Teams
      BY <3>1, TeamAnswersTeams DEF CreateTeamSucceeds
    <3>3. Came(calls, m) /\ AllCalls(m)
      BY <3>1, <3>2, AfterComes
    <3>4. dbTeams' # {} /\ calls' = Append(m, Read("teams", None))
      BY <3>1 DEF CreateTeamSucceeds, TeamsInv, Pend, Pending
    <3>5. /\ IsCall(Read("teams", None)) /\ Read("teams", None).op = "teams"
          /\ ~(Read("teams", None).reply # NoReply)
      BY DEF Read, IsCall
    <3>6. Sound(Read("teams", None), dbTeams')
      BY <3>4, <3>5 DEF Sound
    <3> QED  BY <3>3, <3>4, <3>5, <3>6, SentIsSound DEF TeamOps
  <2> QED  BY <2>1, <2>2, <2>3, <2>4
<1> QED  BY <1>2, <1>3, <1>4, <1>5, <1>6, <1>7 DEF TeamStep

LEMMA TeamsNext ==
  ASSUME TeamsInv, area # "session", [Next]_vars
  PROVE  TeamsInv'
<1>1. TeamStep \/ GroupStep \/ Mount \/ UNCHANGED vars
  BY DEF Next, PageStep, Clicks, Answers, TeamStep, GroupStep, IncidentStep,
         PluginStep, MonitorStep, TeamPageStep, SessionStep, SessionOn
<1>2. UNCHANGED teamVars \/ TeamStep
  BY <1>1, IncidentMoves, PluginMoves, MonitorMoves, TeamPageMoves
     DEF GroupStep, Mount, vars, clientVars, teamVars
<1>3. CASE Undisturbed \/ Rerendered
  <2>1. AllCalls(calls') /\ currentTeam' \in Teams \cup {None}
    BY <1>3 DEF Undisturbed, Rerendered, Moved, TeamsInv
  <2>2. currentTeam' = None => \A i \in DOMAIN calls' : calls'[i].op \in TeamOps
    <3> SUFFICES ASSUME currentTeam' = None, NEW j \in DOMAIN calls',
                        calls'[j].op \notin TeamOps
                 PROVE  FALSE
      OBVIOUS
    <3>1. Undisturbed /\ currentTeam = None
      BY <1>3, ClientAssumption DEF Undisturbed, Rerendered
    <3> DEFINE O == {calls'[j].op}
    <3>2. Keeps(calls, calls', O) /\ j \in Pend(calls', O)
      BY <3>1 DEF Undisturbed, Moved, Pend
    <3>3. PICK k \in Pend(calls, O) : calls'[j] = calls[k]
      BY <3>2 DEF Keeps
    <3> QED  BY <3>1, <3>3 DEF TeamsInv, Pend
  <2>3. (form'.type # None \/ draft'.open \/ DialogOpen') => currentTeam' # None
    BY <1>3, ClientAssumption
       DEF Undisturbed, Rerendered, TeamsInv, pageVars, pluginVars, monitorVars,
           DialogOpen
  <2> QED
    BY <1>1, <1>2, <2>1, <2>2, <2>3, TeamVarsNext, TeamCallsNext, SoundCalls
       DEF TeamsInv, Sound, Pend, Served, vars, clientVars, TeamOps
<1>4. CASE GroupStep
  <2>1. AllCalls(calls')
    <3>1. CASE TeamPageStep /\ Refetched
      <4>1. PICK m : \E t \in Teams :
              Moved(calls, m, TeamPageOps) /\ calls' = Append(m, Read("teams", t))
        BY <3>1 DEF Refetched
      <4>2. PICK t \in Teams : calls' = Append(m, Read("teams", t))
        BY <4>1
      <4>3. AllCalls(m) /\ IsCall(Read("teams", t))
        BY <4>1, CallsAreCalls DEF Moved
      <4> QED  BY <4>2, <4>3, Sending
    <3> QED
      BY <1>4, <3>1, IncidentMoves, PluginMoves, MonitorMoves, TeamPageMoves
         DEF GroupStep, Moved
  <2>2. CASE currentTeam # None
    BY <1>2, <1>4, <2>1, <2>2, IncidentMoves, PluginMoves, MonitorMoves,
       TeamPageMoves, TeamVarsNext, TeamCallsNext, SoundCalls
       DEF TeamsInv, Sound, Pend, Served, GroupStep, teamVars, TeamOps
  <2>3. CASE currentTeam = None
    <3>1. /\ IncidentStep /\ calls' = calls /\ UNCHANGED teamVars
          /\ UNCHANGED <<pluginVars, monitorVars>>
      BY <1>4, <2>3, TeamlessRests, IncidentMoves DEF GroupStep
    <3> QED
      BY <3>1 DEF TeamsInv, teamVars, pluginVars, monitorVars, DialogOpen, Served
  <2> QED  BY <2>2, <2>3
<1> QED  BY <1>3, <1>4, Steps

Teamed == area \in Areas /\ (area # "session" => TeamsInv)

LEMMA TeamedInit == Init => Teamed
<1> SUFFICES ASSUME Init PROVE TeamsInv
  BY OpeningsAssumption DEF Teamed, Init
<1>1. PICK o \in Openings :
        /\ ClientInit(o.teams, o.saved) /\ PluginsInit(o.configured)
        /\ MonitorsInit(o.owners)
  BY DEF Init
<1>2. calls = <<>> /\ DOMAIN calls = {} /\ AllCalls(calls)
  BY <1>1, EmptyIsSequence DEF ClientInit, AllCalls
<1>3. o.teams \subseteq Teams
  BY OpeningsAssumption
<1>4. currentTeam \in o.teams \cup {None}
  BY <1>1 DEF ClientInit, SeedTeams, Chosen
<1>5. form.type = None /\ ~draft.open /\ ~DialogOpen
  BY <1>1 DEF PluginsInit, MonitorsInit, NoForm, NoDraft, NoTable, DialogOpen
<1> QED
  BY <1>1, <1>2, <1>3, <1>4, <1>5 DEF TeamsInv, ClientInit, SeedTeams, Pend

LEMMA TeamedNext ==
  ASSUME Teamed, [Next]_vars
  PROVE  Teamed' /\ area' = area
<1>1. area' = area
  BY DEF Next, Mount, vars
<1> QED  BY <1>1, TeamsNext DEF Teamed

-----------------------------------------------------------------------------
(* The team that is saved.  Until the teams are read back it may be the one *)
(* just created.                                                           *)
SavedInv ==
  \/ currentTeam = None
  \/ savedTeam = currentTeam /\ currentTeam \in teams
  \/ area # "session" /\ (missedRefresh \/ Pend(calls, {"teams"}) # {})

LEMMA SavedWaits ==
  ASSUME area # "session", area' = area, SavedInv,
         UNCHANGED <<teams, currentTeam, savedTeam, missedRefresh>>,
         Keeps(calls, calls', {"teams"})
  PROVE  SavedInv'
<1>1. Pend(calls, {"teams"}) # {} => Pend(calls', {"teams"}) # {}
  BY DEF Keeps
<1> QED  BY <1>1 DEF SavedInv

LEMMA SavedAsks ==
  ASSUME area' # "session", NEW m, AllCalls(m), NEW t,
         t \in Teams \/ t = None, calls' = Append(m, Read("teams", t))
  PROVE  SavedInv'
<1>1. IsCall(Read("teams", t)) /\ Read("teams", t).op \in {"teams"}
  BY DEF Read, IsCall
<1>2. Asks(m, Append(m, Read("teams", t)), {"teams"}, Read("teams", t))
  BY <1>1, Sending
<1>3. Asks(m, calls', {"teams"}, Read("teams", t))
  BY Zenon, <1>2
<1>4. Pend(calls', {"teams"}) # {}
  BY <1>3 DEF Asks
<1> QED  BY <1>4 DEF SavedInv

LEMMA SavedOnPages ==
  ASSUME TeamsInv, area # "session", [Next]_vars, SavedInv
  PROVE  SavedInv'
<1>1. TeamStep \/ GroupStep \/ Mount \/ UNCHANGED vars
  BY DEF Next, PageStep, Clicks, Answers, TeamStep, GroupStep, IncidentStep,
         PluginStep, MonitorStep, TeamPageStep, SessionStep, SessionOn
<1>2. area' = area /\ AllCalls(calls)
  BY DEF Next, Mount, vars, TeamsInv
<1>3. CASE UNCHANGED vars
  BY <1>2, <1>3, SavedWaits, KeepsItself DEF vars, clientVars
<1>4. CASE Mount
  <2>1. calls' = EffectSends(calls, currentTeam) /\ UNCHANGED teamVars
    BY <1>4 DEF Mount
  <2>2. Keeps(calls, calls', {"teams"})
    <3>1. CASE currentTeam = None
      BY <2>1, <3>1, KeepsItself DEF EffectSends
    <3>2. CASE currentTeam \in Teams
      BY <1>2, <2>1, <3>2, EffectMoves DEF Moved, EffectOps
    <3> QED  BY <3>1, <3>2 DEF TeamsInv
  <2> QED  BY <1>2, <2>1, <2>2, SavedWaits DEF teamVars
<1>5. CASE GroupStep
  <2>1. UNCHANGED teamVars
    BY <1>5, IncidentMoves, PluginMoves, MonitorMoves, TeamPageMoves DEF GroupStep
  <2>2. Keeps(calls, calls', {"teams"}) \/ Refetched
    BY <1>5, IncidentMoves, PluginMoves, MonitorMoves, TeamPageMoves
       DEF GroupStep, Moved, IncidentOps, PluginOps, MonitorOps, ListOps, TeamPageOps
  <2>3. CASE Refetched
    BY <1>2, <2>3, SavedAsks DEF Refetched, Moved
  <2> QED  BY <1>2, <2>1, <2>2, <2>3, SavedWaits DEF teamVars
<1>6. CASE TeamClicks
  <2>1. CASE SwitchTeam
    BY <2>1 DEF SwitchTeam, SetCurrentTeam, SavedInv
  <2>2. CASE \E open \in BOOLEAN : SetTeamDialog(open)
    BY <1>2, <2>2, SavedWaits, KeepsItself DEF SetTeamDialog
  <2>3. CASE \E t \in Teams : HandleCreate(t)
    <3>1. PICK t \in Teams : HandleCreate(t)
      BY <2>3
    <3>2. Moved(calls, Append(calls, Read("createTeam", t)), {"createTeam"})
      BY <1>2, MovedNot, MovedBySending, CallsAreCalls
    <3>3. Keeps(calls, Append(calls, Read("createTeam", t)), {"teams"})
      BY <3>2 DEF Moved
    <3>4. calls' = Append(calls, Read("createTeam", t))
      BY <3>1 DEF HandleCreate
    <3>5. Keeps(calls, calls', {"teams"})
      BY Zenon, <3>3, <3>4
    <3> QED  BY <1>2, <3>1, <3>5, SavedWaits DEF HandleCreate
  <2> QED  BY <1>6, <2>1, <2>2, <2>3 DEF TeamClicks
<1>7. CASE TeamServed
  <2>1. PICK i \in DOMAIN calls : ServeCreateTeam(i) \/ ServeTeams(i)
    BY <1>7 DEF TeamServed
  <2>2. UNCHANGED <<teams, currentTeam, savedTeam, missedRefresh>>
        /\ \E r : Reply(i, r)
    BY <2>1 DEF ServeCreateTeam, ServeTeams, teamVars
  <2>3. Pend(calls', {"teams"}) = Pend(calls, {"teams"})
    BY <1>2, <2>2, Replying
  <2> QED  BY <1>2, <2>2, <2>3 DEF SavedInv
<1>8. CASE TeamAnswers
  <2>1. PICK i \in DOMAIN calls :
          \/ CreateTeamSucceeds(i, After(Others(i), TeamAfterCreate(calls[i].team), FALSE))
          \/ FetchTeamsSucceeds(i, After(Others(i), TeamAfterFetch(i), TRUE))
          \/ CreateTeamFails(i) \/ FetchTeamsFails(i)
    BY <1>8 DEF TeamAnswers
  <2>2. CASE CreateTeamFails(i)
    <3>1. calls[i].op = "createTeam" /\ calls' = Others(i)
      BY <2>2 DEF CreateTeamFails, Pending
    <3>2. Keeps(calls, calls', {"teams"})
      BY <1>2, <3>1, Removing DEF Others
    <3> QED  BY <1>2, <2>2, <3>2, SavedWaits DEF CreateTeamFails
  <2>3. CASE FetchTeamsFails(i)
    BY <1>2, <2>3 DEF FetchTeamsFails, SavedInv
  <2>4. CASE FetchTeamsSucceeds(i, After(Others(i), TeamAfterFetch(i), TRUE))
    <3>1. TeamAfterFetch(i) \in teams' /\ currentTeam' = TeamAfterFetch(i)
      BY <2>4, TeamAnswersTeams DEF FetchTeamsSucceeds
    <3>2. currentTeam' = None \/ savedTeam' = currentTeam'
      BY <2>4 DEF FetchTeamsSucceeds
    <3> QED  BY <3>1, <3>2 DEF SavedInv
  <2>5. CASE CreateTeamSucceeds(i, After(Others(i), TeamAfterCreate(calls[i].team), FALSE))
    <3>1. PICK m : /\ m = After(Others(i), TeamAfterCreate(calls[i].team), FALSE)
                   /\ CreateTeamSucceeds(i, m)
      BY <2>5
    <3>2. TeamAfterCreate(calls[i].team) \in Teams
      BY <3>1, TeamAnswersTeams DEF CreateTeamSucceeds
    <3>3. AllCalls(m) /\ calls' = Append(m, Read("teams", None))
      BY <3>1, <3>2, AfterComes DEF CreateTeamSucceeds
    <3> QED  BY <1>2, <3>3, SavedAsks
  <2> QED  BY <2>1, <2>2, <2>3, <2>4, <2>5
<1> QED  BY <1>1, <1>3, <1>4, <1>5, <1>6, <1>7, <1>8 DEF TeamStep

LEMMA SavedInSession ==
  ASSUME area = "session", [Next]_vars, SavedInv
  PROVE  SavedInv'
<1>1. area' = area
  BY DEF Next, Mount, vars
<1>2. CASE UNCHANGED teamVars
  BY <1>1, <1>2 DEF SavedInv, teamVars
<1>3. CASE SessionStep
  <2>1. CASE Route
    <3>1. savedTeam' = savedTeam /\ (UNCHANGED <<teams, currentTeam>> \/ currentTeam' = None)
      BY <2>1 DEF Route, Proxied, Redirect, Rendered, Arrive
    <3> QED  BY <1>1, <3>1 DEF SavedInv
  <2>2. CASE SessionClicks
    <3>1. UNCHANGED teamVars
      BY <2>2 DEF SessionClicks, Visit, Follow, SignOut, PageCall, SignIn, SignUp,
                  clientVars, teamVars
    <3> QED  BY <1>2, <3>1
  <2>3. CASE SessionServed
    <3>1. UNCHANGED teamVars
      BY <2>3 DEF SessionServed, ServeLogin, ServeSignUp, ServeWithToken, Expire,
                  CookieExpires, LeaveInvite, clientVars, teamVars
    <3> QED  BY <1>2, <3>1
  <2>4. CASE SessionAnswers
    <3>1. CASE \E i \in DOMAIN calls : MeSucceeds(i)
      <4>1. PICK u \in {minted[calls[i].token] : i \in DOMAIN calls} :
              LET t == Chosen(TeamsOf[u], savedTeam) IN
              /\ teams' = TeamsOf[u] /\ currentTeam' = t
              /\ savedTeam' = IF t = None THEN savedTeam ELSE t
        BY <3>1 DEF MeSucceeds
      <4>2. currentTeam' # None => currentTeam' \in teams'
        BY <4>1 DEF Chosen
      <4> QED  BY <4>1, <4>2 DEF SavedInv
    <3>2. CASE UNCHANGED teamVars
      BY <1>2, <3>2
    <3> QED
      BY <2>4, <3>1, <3>2
         DEF SessionAnswers, LoginSucceeds, SignUpSucceeds, MeFails, Unauthorised,
             Answered
  <2> QED  BY <1>3, <2>1, <2>2, <2>3, <2>4 DEF SessionStep
<1> QED
  BY <1>2, <1>3 DEF Next, Mount, PageStep, vars, clientVars, teamVars

(* When no read of the teams is under way and none has failed since one was *)
(* created, the team saved in the browser is the current one, one of the   *)
(* user's.                                                                 *)
THEOREM SavedIsCurrentHolds == Spec => []SavedIsCurrent
<1>1. Init => Teamed /\ SavedInv
  <2>1. Init => SavedInv
    BY DEF Init, ClientInit, SeedTeams, Chosen, SavedInv
  <2> QED  BY <2>1, TeamedInit
<1>2. Teamed /\ SavedInv /\ [Next]_vars => Teamed' /\ SavedInv'
  BY TeamedNext, SavedOnPages, SavedInSession DEF Teamed
<1>3. SavedInv => SavedIsCurrent
  BY DEF SavedInv, SavedIsCurrent, Pending, Pend
<1> QED  BY <1>1, <1>2, <1>3, PTL DEF Spec

-----------------------------------------------------------------------------
(* But for the calls of kinds M, t has those of s and e, which is newer.    *)
Sends(s, t, e, M) ==
  /\ AllCalls(t)
  /\ \A O : O \cap M = {} =>
       /\ e.op \notin O => Keeps(s, t, O)
       /\ e.op \in O => Asks(s, t, O, e)

LEMMA SendsInBetween ==
  ASSUME NEW s, NEW m, NEW x, NEW t, NEW M, Moved(s, m, M), NEW e, IsCall(e),
         x = m \o <<e>>, Moved(x, t, M)
  PROVE  Sends(s, t, e, M)
<1>1. AllCalls(m) /\ AllCalls(t)
  BY DEF Moved
<1> DEFINE y == Append(m, e)
<1>2. /\ \A O : e.op \notin O => Keeps(m, y, O)
      /\ \A O : e.op \in O => Asks(m, y, O, e)
      /\ x = y
  BY <1>1, Sending
<1> HIDE DEF y
<1>3. ASSUME NEW O, O \cap M = {}
      PROVE  /\ e.op \notin O => Keeps(s, t, O)
             /\ e.op \in O => Asks(s, t, O, e)
  <2>1. Keeps(s, m, O) /\ Keeps(x, t, O)
    BY <1>3 DEF Moved
  <2>2. CASE e.op \notin O
    <3>1. Keeps(m, x, O)
      BY Zenon, <1>2, <2>2
    <3> QED  BY <2>1, <2>2, <3>1, KeepsOn
  <2>3. CASE e.op \in O
    <3>1. Asks(m, x, O, e)
      BY Zenon, <1>2, <2>3
    <3>2. Asks(s, x, O, e)
      BY Zenon, <2>1, <3>1, KeepsThenAsks
    <3> QED  BY Zenon, <2>1, <2>3, <3>2, AsksThenKeeps
  <2> QED  BY <2>2, <2>3
<1> QED  BY <1>1, <1>3 DEF Sends

LEMMA MarkedMoves ==
  ASSUME NEW s, NEW m, AllCalls(s), Moved(s, m, TeamOps), NEW x, NEW y, NEW M,
         Marks(s, x, M), Marks(m, y, M),
         M \subseteq {"upsert", "deletePlugin", "toggle", "deleteMonitor", "create"}
  PROVE  Moved(x, y, TeamOps)
<1>1. AllCalls(m)
  BY DEF Moved
<1>0. AllCalls(y) /\ \A O : Pend(y, O) = Pend(m, O)
  BY <1>1, Marking
<1>2. AllCalls(y) /\ \A O : Pend(x, O) = Pend(s, O) /\ Pend(y, O) = Pend(m, O)
  <2>1. \A O : Pend(x, O) = Pend(s, O)
    BY Marking
  <2> QED  BY <1>0, <2>1
<1>3. ASSUME NEW O, O \cap TeamOps = {}
      PROVE  Keeps(x, y, O)
  <2>1. Keeps(s, m, O)
    BY <1>3 DEF Moved
  <2>2. \A j \in Pend(m, O) : \A k \in Pend(s, O) : m[j] = s[k] => y[j] = x[k]
    BY DEF Marks, Pend
  <2>3. /\ \A j : Newest(y, j, O) <=> Newest(m, j, O)
        /\ \A k : Newest(x, k, O) <=> Newest(s, k, O)
        /\ Alone(x, O) <=> Alone(s, O)
        /\ Alone(y, O) <=> Alone(m, O)
    BY <1>2 DEF Newest, Alone
  <2> QED  BY <1>2, <2>1, <2>2, <2>3 DEF Keeps
<1> QED  BY <1>2, <1>3 DEF Moved

IncidentsCall(t, c) ==
  [op |-> "incidents", team |-> t, cursor |-> c, reply |-> NoReply]
FirstMonitorsCall(t) ==
  [op |-> "monitors", team |-> t, cursor |-> 0, then |-> <<>>, reply |-> NoReply]

(* What the effect of each page does when it runs.                          *)
LEMMA Effects ==
  ASSUME TeamsInv, Rerendered, area \in Areas \ {"session"}
  PROVE  /\ currentTeam' \in Teams
         /\ \/ /\ area = "incidents" /\ detail.of = None
               /\ ListRenders /\ UNCHANGED <<pluginVars, monitorVars, teamPageVars>>
               /\ Sends(calls, calls', IncidentsCall(currentTeam', list.cursor), TeamOps)
            \/ /\ area = "incidents" /\ detail.of # None
               /\ DetailRenders /\ UNCHANGED <<pluginVars, monitorVars, teamPageVars>>
               /\ Sends(calls, calls', Read("incident", currentTeam'), TeamOps)
            \/ /\ area = "plugins" /\ form.type = None
               /\ PluginsRender /\ UNCHANGED <<incidentVars, monitorVars, teamPageVars>>
               /\ Sends(calls, calls', Read("plugins", currentTeam'), TeamOps)
            \/ /\ area = "plugins" /\ form.type # None
               /\ FormRenders /\ UNCHANGED <<incidentVars, monitorVars, teamPageVars>>
               /\ Sends(calls, calls', FormCall(currentTeam', form.type), TeamOps)
            \/ /\ area \in {"monitors", "new"} /\ OnMonitors
               /\ MonitorsRender(currentTeam')
               /\ UNCHANGED <<incidentVars, pluginVars, teamPageVars>>
               /\ \E s : /\ s = calls \/ Marks(calls, s, {"toggle", "deleteMonitor"})
                         /\ Sends(s, calls', FirstMonitorsCall(currentTeam'), TeamOps)
            \/ /\ area = "team"
               /\ FetchAllRenders /\ UNCHANGED <<incidentVars, pluginVars, monitorVars>>
               /\ Sends(calls, calls', Read("team", currentTeam'), TeamOps)
            \/ /\ area \in {"monitors", "new"} /\ ~OnMonitors
               /\ UNCHANGED pageVars /\ Moved(calls, calls', TeamOps)
<1>1. PICK m : /\ Moved(calls, m, TeamOps)
               /\ currentTeam' \in Teams /\ EffectRenders(currentTeam')
               /\ Moved(EffectSends(m, currentTeam'), calls', TeamOps)
  BY DEF Rerendered
<1> DEFINE t == currentTeam'
<1>2. t \in Teams /\ t # None
  BY <1>1, ClientAssumption
<1>3. ASSUME NEW e, IsCall(e), EffectSends(m, t) = m \o <<e>>
      PROVE  Sends(calls, calls', e, TeamOps)
  BY <1>1, <1>3, SendsInBetween
<1>4. CASE area = "incidents" /\ detail.of = None
  <2>1. EffectSends(m, t) = m \o <<IncidentsCall(t, list.cursor)>>
    BY <1>2, <1>4 DEF EffectSends, ListSends, ListCall, IncidentsCall
  <2>2. IsCall(IncidentsCall(t, list.cursor))
    BY <1>2, CallsAreCalls DEF IncidentsCall
  <2>3. ListRenders /\ UNCHANGED <<pluginVars, monitorVars, teamPageVars>>
    BY <1>1, <1>2, <1>4 DEF EffectRenders
  <2> QED  BY <1>2, <1>3, <1>4, <2>1, <2>2, <2>3
<1>5. CASE area = "incidents" /\ detail.of # None
  <2>1. EffectSends(m, t) = m \o <<Read("incident", t)>>
    BY <1>2, <1>5 DEF EffectSends, DetailCall
  <2>2. IsCall(Read("incident", t))
    BY <1>2, CallsAreCalls
  <2>3. DetailRenders /\ UNCHANGED <<pluginVars, monitorVars, teamPageVars>>
    BY <1>1, <1>2, <1>5 DEF EffectRenders
  <2> QED  BY <1>2, <1>3, <1>5, <2>1, <2>2, <2>3
<1>6. CASE area = "plugins" /\ form.type = None
  <2>1. EffectSends(m, t) = m \o <<Read("plugins", t)>>
    BY <1>2, <1>6 DEF EffectSends, PluginsSend, ListPluginsCall
  <2>2. IsCall(Read("plugins", t))
    BY <1>2, CallsAreCalls
  <2>3. PluginsRender /\ UNCHANGED <<incidentVars, monitorVars, teamPageVars>>
    BY <1>1, <1>2, <1>6 DEF EffectRenders
  <2> QED  BY <1>2, <1>3, <1>6, <2>1, <2>2, <2>3
<1>7. CASE area = "plugins" /\ form.type # None
  <2>1. EffectSends(m, t) = m \o <<FormCall(t, form.type)>>
    BY <1>2, <1>7 DEF EffectSends, FormSends
  <2>2. IsCall(FormCall(t, form.type))
    BY <1>2, CallsAreCalls
  <2>3. FormRenders /\ UNCHANGED <<incidentVars, monitorVars, teamPageVars>>
    BY <1>1, <1>2, <1>7 DEF EffectRenders
  <2> QED  BY <1>2, <1>3, <1>7, <2>1, <2>2, <2>3
<1>8. CASE area = "team"
  <2>1. EffectSends(m, t) = m \o <<Read("team", t)>>
    BY <1>2, <1>8 DEF EffectSends, FetchAllSends
  <2>2. IsCall(Read("team", t))
    BY <1>2, CallsAreCalls
  <2>3. FetchAllRenders /\ UNCHANGED <<incidentVars, pluginVars, monitorVars>>
    BY <1>1, <1>2, <1>8 DEF EffectRenders
  <2> QED  BY <1>2, <1>3, <1>8, <2>1, <2>2, <2>3
<1>9. CASE area \in {"monitors", "new"} /\ ~OnMonitors
  <2>1. EffectSends(m, t) = m /\ UNCHANGED pageVars
    BY <1>1, <1>2, <1>9 DEF EffectSends, EffectRenders
  <2>2. Moved(calls, calls', TeamOps)
    BY <1>1, <2>1, MovedOn
  <2> QED  BY <1>2, <1>9, <2>1, <2>2
<1>10. CASE area \in {"monitors", "new"} /\ OnMonitors
  <2>1. EffectSends(m, t) = MonitorsSend(m, t)
    BY <1>2, <1>10 DEF EffectSends
  <2>2. MonitorsRender(t) /\ UNCHANGED <<incidentVars, pluginVars, teamPageVars>>
    BY <1>1, <1>2, <1>10 DEF EffectRenders
  <2>3. IsCall(FirstMonitorsCall(t))
    BY <1>2, CallsAreCalls DEF FirstMonitorsCall
  <2>4. CASE StaysOn(t)
    <3>1. EffectSends(m, t) = m \o <<FirstMonitorsCall(t)>>
      BY <2>1, <2>4 DEF MonitorsSend, FirstCall, MonitorsCall, FirstMonitorsCall
    <3>2. Sends(calls, calls', FirstMonitorsCall(t), TeamOps)
      BY <1>3, <2>3, <3>1
    <3> QED  BY <1>2, <1>10, <2>2, <3>2
  <2>5. CASE ~StaysOn(t)
    <3>1. EffectSends(m, t) = Abandoned(m) \o <<FirstMonitorsCall(t)>>
      BY <2>1, <2>5 DEF MonitorsSend, FirstCall, MonitorsCall, FirstMonitorsCall
    <3>2. /\ Marks(calls, Abandoned(calls), {"toggle", "deleteMonitor"})
          /\ Marks(m, Abandoned(m), {"toggle", "deleteMonitor"})
      BY DEF Abandoned, Marks
    <3>3. Moved(Abandoned(calls), Abandoned(m), TeamOps)
      BY <1>1, <3>2, MarkedMoves DEF TeamsInv
    <3>4. Sends(Abandoned(calls), calls', FirstMonitorsCall(t), TeamOps)
      BY <1>1, <2>3, <3>1, <3>3, SendsInBetween
    <3> QED  BY <1>2, <1>10, <2>2, <3>2, <3>4
  <2> QED  BY <2>4, <2>5
<1> QED  BY <1>4, <1>5, <1>6, <1>7, <1>8, <1>9, <1>10 DEF Areas

-----------------------------------------------------------------------------
(* The pages of the incidents.  The list waits for the newest call, which   *)
(* asks for the team and the page there are; an incident of another team   *)
(* has a call under way that will be refused.                              *)
DetailShape ==
  detail = [of |-> detail.of, loading |-> detail.loading,
            error |-> detail.error, incident |-> detail.incident]

ListAsks(s, l, t) ==
  \A i \in Pend(s, {"incidents"}) :
    Newest(s, i, {"incidents"}) => s[i].team = t /\ s[i].cursor = l.cursor

IncidentsInv ==
  /\ DetailShape /\ detail.incident \in {None, detail.of}
  /\ detail.of # None =>
       Pend(calls, {"incidents"}) = {} /\ list.latest = "pending"
  /\ currentTeam = None => list.latest = "pending" /\ detail.of = None
  /\ list.latest = "pending" => ListAsks(calls, list, currentTeam)
  /\ list.latest = "shown" =>
       list.shown = [team |-> currentTeam, cursor |-> list.cursor]
  /\ ~detail.error /\ detail.of # None =>
       \/ currentTeam = detail.of
       \/ \E i \in Pend(calls, {"incident"}) : calls[i].team # detail.of
  /\ mounted /\ detail.of = None /\ list.loading /\ currentTeam # None =>
       Pend(calls, {"incidents"}) # {}
  /\ detail.of # None /\ detail.loading => Pend(calls, {"incident"}) # {}

NoIncidents ==
  /\ list = MountedList /\ detail = MountedDetail
  /\ area # "session" => Pend(calls, IncidentOps) = {}

IncInv == IF area = "incidents" THEN IncidentsInv ELSE NoIncidents

LEMMA NoneKept ==
  ASSUME NEW s, NEW t, NEW O, Keeps(s, t, O), Pend(s, O) = {}
  PROVE  Pend(t, O) = {}
BY DEF Keeps

LEMMA SomeKept ==
  ASSUME NEW s, NEW t, NEW O, Keeps(s, t, O), Pend(s, O) # {}
  PROVE  Pend(t, O) # {}
BY DEF Keeps

LEMMA ListAsksOn ==
  ASSUME NEW s, NEW t, Keeps(s, t, {"incidents"}), NEW l, NEW tm, ListAsks(s, l, tm)
  PROVE  ListAsks(t, l, tm)
BY DEF Keeps, ListAsks

LEMMA ListAsksNow ==
  ASSUME NEW s, NEW t, NEW e, Asks(s, t, {"incidents"}, e), NEW l, NEW tm,
         e.team = tm, e.cursor = l.cursor
  PROVE  ListAsks(t, l, tm) /\ Pend(t, {"incidents"}) # {}
BY DEF Asks, ListAsks

(* Calls of other pages come and go.                                        *)
LEMMA IncidentsRest ==
  ASSUME IncidentsInv, UNCHANGED <<incidentVars, currentTeam>>,
         UNCHANGED mounted \/ currentTeam = None,
         Keeps(calls, calls', {"incidents"}), Keeps(calls, calls', {"incident"})
  PROVE  IncidentsInv'
<1>1. list' = list /\ detail' = detail
  BY DEF incidentVars
<1>2. list.latest = "pending" => ListAsks(calls', list, currentTeam)
  BY ListAsksOn DEF IncidentsInv
<1>3. ~detail.error /\ detail.of # None =>
        \/ currentTeam = detail.of
        \/ \E i \in Pend(calls', {"incident"}) : calls'[i].team # detail.of
  BY DEF IncidentsInv, Keeps
<1>4. /\ Pend(calls, {"incidents"}) = {} => Pend(calls', {"incidents"}) = {}
      /\ Pend(calls, {"incidents"}) # {} => Pend(calls', {"incidents"}) # {}
      /\ Pend(calls, {"incident"}) # {} => Pend(calls', {"incident"}) # {}
  BY NoneKept, SomeKept
<1> QED  BY <1>1, <1>2, <1>3, <1>4 DEF IncidentsInv, DetailShape

(* The list is asked for again.                                             *)
LEMMA ListAskedAgain ==
  ASSUME IncidentsInv, detail.of = None, UNCHANGED detail, currentTeam' \in Teams,
         list'.latest = "pending",
         ListAsks(calls', list', currentTeam'), Pend(calls', {"incidents"}) # {}
  PROVE  IncidentsInv'
BY ClientAssumption DEF IncidentsInv, DetailShape

LEMMA IncidentsRerender ==
  ASSUME TeamsInv, IncidentsInv, ListInv(list), Rerendered, area = "incidents"
  PROVE  IncidentsInv'
<1>1. currentTeam' \in Teams /\ currentTeam' # None
  BY ClientAssumption DEF Rerendered
<1>2. CASE detail.of = None
  <2>1. /\ ListRenders
        /\ Sends(calls, calls', IncidentsCall(currentTeam', list.cursor), TeamOps)
    BY <1>2, Effects DEF Areas
  <2>2. list'.latest = "pending" /\ list'.cursor = list.cursor /\ UNCHANGED detail
    BY <2>1 DEF ListRenders, Fetching, ListInv, ListIsTyped, Fields
  <2>3. Asks(calls, calls', {"incidents"}, IncidentsCall(currentTeam', list.cursor))
    BY <2>1 DEF Sends, TeamOps, IncidentsCall
  <2>4. ListAsks(calls', list', currentTeam') /\ Pend(calls', {"incidents"}) # {}
    BY <2>2, <2>3, ListAsksNow DEF IncidentsCall
  <2> QED  BY <1>1, <1>2, <2>2, <2>4, ListAskedAgain
<1>3. CASE detail.of # None
  <2>1. /\ DetailRenders
        /\ Sends(calls, calls', Read("incident", currentTeam'), TeamOps)
    BY <1>3, Effects DEF Areas
  <2>2. list' = list /\ detail' = Opened(detail)
    BY <2>1 DEF DetailRenders
  <2>3. /\ Asks(calls, calls', {"incident"}, Read("incident", currentTeam'))
        /\ Keeps(calls, calls', {"incidents"})
    BY <2>1 DEF Sends, TeamOps, Read
  <2>4. \E j \in Pend(calls', {"incident"}) : calls'[j].team = currentTeam'
    BY <2>3 DEF Asks, Read
  <2>5. Pend(calls', {"incidents"}) = {}
    BY <1>3, <2>3, NoneKept DEF IncidentsInv
  <2>6. /\ detail'.of = detail.of /\ detail'.incident = detail.incident
        /\ DetailShape'
    BY <2>2 DEF Opened, IncidentsInv, DetailShape
  <2> QED
    BY <1>1, <1>3, <2>2, <2>4, <2>5, <2>6 DEF IncidentsInv, ListAsks
<1> QED  BY <1>2, <1>3

-----------------------------------------------------------------------------
(* The controls of the list: they leave the question alone, or ask anew.    *)
ListGoes ==
  \/ /\ UNCHANGED <<calls, detail>>
     /\ list'.latest = list.latest /\ list'.loading = list.loading
     /\ list'.shown = list.shown
     /\ list'.cursor = list.cursor \/ currentTeam = None
  \/ /\ currentTeam # None /\ detail.of = None /\ UNCHANGED detail
     /\ list'.latest = "pending"
     /\ ListAsks(calls', list', currentTeam) /\ Pend(calls', {"incidents"}) # {}

Shaped(l) == l = [x \in Fields |-> l[x]]

LEMMA Fetches ==
  ASSUME TeamsInv, detail.of = None, UNCHANGED detail, NEW l, Shaped(l), NEW c,
         l.cursor = c, l.latest = list.latest, l.loading = list.loading,
         l.shown = list.shown, Fetch(l, c)
  PROVE  ListGoes
<1>1. CASE currentTeam = None
  BY <1>1 DEF Fetch, ListGoes
<1>2. CASE currentTeam # None
  <2>1. list' = Fetching(l) /\ calls' = calls \o <<IncidentsCall(currentTeam, c)>>
    BY <1>2 DEF Fetch, ListCall, IncidentsCall
  <2>2. list'.latest = "pending" /\ list'.cursor = c
    BY <2>1 DEF Fetching, Shaped, Fields
  <2>3. IsCall(IncidentsCall(currentTeam, c)) /\ AllCalls(calls)
    BY <1>2, CallsAreCalls DEF TeamsInv, IncidentsCall
  <2>4. Asks(calls, Append(calls, IncidentsCall(currentTeam, c)), {"incidents"},
             IncidentsCall(currentTeam, c))
    BY <2>3, Sending DEF IncidentsCall
  <2>5. calls' = Append(calls, IncidentsCall(currentTeam, c))
    BY <2>1, <2>3, Sending
  <2>6. Asks(calls, calls', {"incidents"}, IncidentsCall(currentTeam, c))
    BY Zenon, <2>4, <2>5
  <2>7. ListAsks(calls', list', currentTeam) /\ Pend(calls', {"incidents"}) # {}
    BY <2>2, <2>6, ListAsksNow DEF IncidentsCall
  <2> QED  BY <1>2, <2>2, <2>7 DEF ListGoes
<1> QED  BY <1>1, <1>2

LEMMA Goes ==
  ASSUME TeamsInv, detail.of = None, UNCHANGED detail, NEW l, Shaped(l), NEW c, l.cursor \in {list.cursor, c},
         l.latest = list.latest, l.loading = list.loading,
         l.shown = list.shown, GoTo(l, c)
  PROVE  ListGoes
<1>1. CASE c = list.cursor
  BY <1>1 DEF GoTo, ListGoes
<1>2. CASE c # list.cursor
  <2> DEFINE m == [l EXCEPT !.cursor = c]
  <2>1. /\ m.cursor = c /\ m.latest = list.latest /\ m.loading = list.loading
        /\ m.shown = list.shown /\ Shaped(m)
    BY DEF Shaped, Fields
  <2>2. Fetch(m, c)
    BY <1>2 DEF GoTo
  <2> HIDE DEF m
  <2> QED  BY <2>1, <2>2, Fetches DEF m
<1> QED  BY <1>1, <1>2

LEMMA ListClicksGo ==
  ASSUME TeamsInv, IncidentsInv, ListInv(list), IncidentClicks,
         ~OpenIncident, ~BackToIncidents
  PROVE  ListGoes /\ UNCHANGED currentTeam
<1>0. UNCHANGED currentTeam
  BY DEF IncidentClicks, Refresh, PickStatus, Type, OnApply, OnClear, OnNext,
         OnPrev, teamVars
<1>a. Shaped(list)
  BY DEF ListInv, ListIsTyped, Shaped
<1>b. ASSUME NEW f
      PROVE  LET l == [Rewound(list) EXCEPT !.filtered = f] IN
             /\ Shaped(l) /\ l.cursor = 0 /\ l.latest = list.latest
             /\ l.loading = list.loading /\ l.shown = list.shown
  BY <1>a DEF Shaped, Rewound, Fields
<1> SUFFICES ListGoes
  BY <1>0
<1>1. CASE Refresh
  BY <1>a, <1>1, Fetches DEF Refresh, Clicked
<1>2. ASSUME NEW f \in BOOLEAN, PickStatus(f)
      PROVE  ListGoes
  <2> DEFINE l == [Rewound(list) EXCEPT !.filtered = f]
  <2>1. GoTo(l, 0) /\ detail.of = None /\ UNCHANGED detail
    BY <1>2 DEF PickStatus, Clicked
  <2>2. /\ Shaped(l) /\ l.cursor = 0 /\ l.latest = list.latest
        /\ l.loading = list.loading /\ l.shown = list.shown
    BY <1>b
  <2> HIDE DEF l
  <2> QED  BY <2>1, <2>2, Goes
<1>3. ASSUME NEW f \in BOOLEAN, Type(f)
      PROVE  ListGoes
  BY <1>a, <1>3 DEF Type, ListGoes, Shaped, Fields
<1>4. CASE OnClear
  <2> DEFINE l == [Rewound(list) EXCEPT !.filtered = FALSE]
  <2>1. GoTo(l, 0) /\ detail.of = None /\ UNCHANGED detail
    BY <1>4 DEF OnClear, Clicked
  <2>2. /\ Shaped(l) /\ l.cursor = 0 /\ l.latest = list.latest
        /\ l.loading = list.loading /\ l.shown = list.shown
    BY <1>b
  <2> HIDE DEF l
  <2> QED  BY <2>1, <2>2, Goes
<1>5. CASE OnNext
  <2> DEFINE l == [list EXCEPT !.history = Append(list.history, list.cursor)]
  <2>1. GoTo(l, list.next) /\ detail.of = None /\ UNCHANGED detail
    BY <1>5 DEF OnNext, Clicked
  <2>2. /\ Shaped(l) /\ l.cursor = list.cursor /\ l.latest = list.latest
        /\ l.loading = list.loading /\ l.shown = list.shown
    BY <1>a DEF Shaped, Fields
  <2> HIDE DEF l
  <2> QED  BY <2>1, <2>2, Goes
<1>6. CASE OnPrev
  <2> DEFINE l == [list EXCEPT !.history = Front(list.history)]
             c == Last(list.history)
  <2>1. GoTo(l, c) /\ detail.of = None /\ UNCHANGED detail
    BY <1>6 DEF OnPrev, Clicked
  <2>2. /\ Shaped(l) /\ l.cursor = list.cursor /\ l.latest = list.latest
        /\ l.loading = list.loading /\ l.shown = list.shown
    BY <1>a DEF Shaped, Fields
  <2> HIDE DEF l, c
  <2> QED  BY <2>1, <2>2, Goes
<1>7. CASE OnApply
  <2> DEFINE l == Rewound(list)  e == IncidentsCall(currentTeam, 0)
             two == list.cursor # 0
  <2>1. /\ Shaped(l) /\ l.cursor = 0 /\ l.latest = list.latest
        /\ l.loading = list.loading /\ l.shown = list.shown
    BY <1>a DEF Shaped, Rewound, Fields
  <2>2. detail.of = None /\ UNCHANGED detail
    BY <1>7 DEF OnApply, Clicked
  <2>3. CASE currentTeam = None
    BY <1>7, <2>1, <2>2, <2>3 DEF OnApply, ListGoes
  <2>4. CASE currentTeam # None
    <3>1. list' = Fetching(l) /\ (calls' = (calls \o <<e>>) \o <<e>>
                                    \/ calls' = (calls \o <<e>>) \o <<>>)
      BY <1>7, <2>4 DEF OnApply, ListCall, IncidentsCall
    <3>2. list'.latest = "pending" /\ list'.cursor = 0
      BY <2>1, <3>1 DEF Fetching, Shaped, Fields
    <3>3. IsCall(e) /\ AllCalls(calls) /\ e.op = "incidents"
          /\ e.team = currentTeam /\ e.cursor = 0
      BY <2>4, CallsAreCalls DEF TeamsInv, IncidentsCall
    <3> HIDE DEF e, l
    <3> DEFINE once == Append(calls, e)
    <3>4. AllCalls(once) /\ once = calls \o <<e>> /\ Asks(calls, once, {"incidents"}, e)
      BY <3>3, Sending
    <3>5. once \o <<>> = once
      BY <3>3, <3>4, ConcatEmptySeq DEF AllCalls, IsSequence
    <3> DEFINE twice2 == Append(once, e)
    <3>6. twice2 = once \o <<e>> /\ Asks(once, twice2, {"incidents"}, e)
      BY <3>3, <3>4, Sending
    <3>7. calls' = once \/ calls' = twice2
      BY <3>1, <3>4, <3>5, <3>6
    <3> HIDE DEF once, twice2
    <3>8. Asks(calls, calls', {"incidents"}, e) \/ Asks(once, calls', {"incidents"}, e)
      BY <3>4, <3>6, <3>7
    <3>9. ListAsks(calls', list', currentTeam) /\ Pend(calls', {"incidents"}) # {}
      BY <3>2, <3>3, <3>8, ListAsksNow
    <3> QED  BY <2>2, <2>4, <3>2, <3>9 DEF ListGoes
  <2> QED  BY <2>3, <2>4
<1> QED
  BY <1>1, <1>2, <1>3, <1>4, <1>5, <1>6, <1>7 DEF IncidentClicks

LEMMA IncidentClicksKeep ==
  ASSUME TeamsInv, IncidentsInv, ListInv(list), IncidentClicks, UNCHANGED mounted
  PROVE  IncidentsInv'
<1>1. UNCHANGED currentTeam
  BY DEF IncidentClicks, Refresh, PickStatus, Type, OnApply, OnClear, OnNext,
         OnPrev, OpenIncident, BackToIncidents, teamVars
<1>2. AllCalls(calls) /\ (currentTeam # None => currentTeam \in Teams)
  BY DEF TeamsInv
<1>3. CASE ~OpenIncident /\ ~BackToIncidents
  <2>1. ListGoes
    BY <1>3, ListClicksGo
  <2>2. CASE /\ currentTeam # None /\ detail.of = None /\ UNCHANGED detail
             /\ list'.latest = "pending" /\ ListAsks(calls', list', currentTeam)
             /\ Pend(calls', {"incidents"}) # {}
    BY <1>1, <1>2, <2>2, ListAskedAgain
  <2>3. CASE /\ UNCHANGED <<calls, detail>>
             /\ list'.latest = list.latest /\ list'.loading = list.loading
             /\ list'.shown = list.shown
             /\ list'.cursor = list.cursor \/ currentTeam = None
    <3>1. currentTeam = None => Pend(calls, {"incidents"}) = {}
      BY DEF TeamsInv, TeamOps, Pend
    <3>2. list.latest = "pending" => ListAsks(calls', list', currentTeam)
      BY <2>3, <3>1 DEF IncidentsInv, ListAsks
    <3> QED  BY <1>1, <2>3, <3>2 DEF IncidentsInv, DetailShape
  <2> QED  BY <2>1, <2>2, <2>3 DEF ListGoes
<1>4. CASE OpenIncident
  <2> DEFINE m == Without(calls, "incidents")  e == Read("incident", currentTeam)
  <2>1. /\ list.shown.team # None /\ currentTeam # None
        /\ detail' = [Opened(MountedDetail) EXCEPT !.of = list.shown.team]
        /\ list' = MountedList /\ calls' = m \o <<e>>
    BY <1>4 DEF OpenIncident, DetailCall
  <2>2. /\ detail'.of = list.shown.team /\ detail'.incident = None
        /\ DetailShape' /\ list'.latest = "pending"
    BY <2>1 DEF Opened, MountedDetail, MountedList, DetailShape
  <2>3. AllCalls(m) /\ Pend(m, {"incidents"}) = {}
    BY <1>2, Dropping
  <2>4. IsCall(e) /\ e.op = "incident" /\ e.team = currentTeam
    BY <1>2, <2>1, CallsAreCalls
  <2> HIDE DEF m, e
  <2>5. /\ calls' = Append(m, e) /\ Keeps(m, Append(m, e), {"incidents"})
        /\ Asks(m, Append(m, e), {"incident"}, e)
    BY <2>1, <2>3, <2>4, Sending
  <2>6. Keeps(m, calls', {"incidents"}) /\ Asks(m, calls', {"incident"}, e)
    BY Zenon, <2>5
  <2>7. Pend(calls', {"incidents"}) = {}
    BY <2>3, <2>6, NoneKept
  <2>8. \E i \in Pend(calls', {"incident"}) : calls'[i].team = currentTeam
    BY <2>4, <2>6 DEF Asks
  <2> QED
    BY <1>1, <2>1, <2>2, <2>7, <2>8 DEF IncidentsInv, ListAsks
<1>5. CASE BackToIncidents
  <2> DEFINE m == Without(calls, "incident")  e == IncidentsCall(currentTeam, 0)
  <2>1. /\ currentTeam # None /\ detail' = MountedDetail
        /\ list' = Fetching(MountedList) /\ calls' = m \o <<e>>
    BY <1>5 DEF BackToIncidents, ListCall, IncidentsCall
  <2>2. /\ detail'.of = None /\ detail'.incident = None
        /\ DetailShape' /\ list'.latest = "pending" /\ list'.cursor = 0
    BY <2>1 DEF MountedDetail, MountedList, Fetching, DetailShape
  <2>3. AllCalls(m)
    BY <1>2, Dropping
  <2>4. IsCall(e) /\ e.op = "incidents" /\ e.team = currentTeam /\ e.cursor = 0
    BY <1>2, <2>1, CallsAreCalls DEF IncidentsCall
  <2> HIDE DEF m, e
  <2>5. /\ calls' = Append(m, e) /\ Asks(m, Append(m, e), {"incidents"}, e)
    BY <2>1, <2>3, <2>4, Sending
  <2>6. Asks(m, calls', {"incidents"}, e)
    BY Zenon, <2>5
  <2>7. ListAsks(calls', list', currentTeam') /\ Pend(calls', {"incidents"}) # {}
    BY <1>1, <2>2, <2>4, <2>6, ListAsksNow
  <2> QED
    BY <1>1, <2>1, <2>2, <2>7 DEF IncidentsInv
<1> QED  BY <1>3, <1>4, <1>5

LEMMA ListAsksWithout ==
  ASSUME NEW s, NEW t, NEW i, Loses(s, t, {"incidents"}, i),
         ~Newest(s, i, {"incidents"}), NEW l, NEW tm, ListAsks(s, l, tm)
  PROVE  ListAsks(t, l, tm)
BY DEF Loses, ListAsks

LEMMA IncidentAnswersKeep ==
  ASSUME TeamsInv, IncidentsInv, ListInv(list), IncidentAnswers, UNCHANGED mounted
  PROVE  IncidentsInv'
<1>1. PICK i \in DOMAIN calls :
        ListArrives(i) \/ ListFails(i) \/ DetailArrives(i) \/ DetailFails(i)
  BY DEF IncidentAnswers
<1>2. /\ calls' = Others(i) /\ UNCHANGED currentTeam /\ AllCalls(calls)
      /\ calls[i].op \in IncidentOps
  BY <1>1 DEF ListArrives, ListFails, DetailArrives, DetailFails, teamVars,
              TeamsInv, Pending, IncidentOps
<1>3. currentTeam # None
  BY <1>2 DEF TeamsInv, TeamOps, IncidentOps
<1>4. Shaped(list)
  BY DEF ListInv, ListIsTyped, Shaped
<1>5. CASE ListArrives(i) \/ ListFails(i)
  <2>1. i \in Pend(calls, {"incidents"}) /\ UNCHANGED detail /\ calls[i].op = "incidents"
    BY <1>5 DEF ListArrives, ListFails, Pending, Pend
  <2>2. detail.of = None
    BY <2>1 DEF IncidentsInv
  <2>3. Loses(calls, calls', {"incidents"}, i)
    BY <1>2, <2>1, Removing DEF Others
  <2>4. IsNewest(i) <=> Newest(calls, i, {"incidents"})
    BY <2>1 DEF IsNewest, Newest, Pending, Pend
  <2>5. list'.cursor = list.cursor /\ list'.loading = FALSE
    BY <1>4, <1>5 DEF ListArrives, ListFails, Shaped, Fields
  <2>6. list'.latest = "pending" =>
          list.latest = "pending" /\ ~Newest(calls, i, {"incidents"})
    BY <1>4, <1>5, <2>4 DEF ListArrives, ListFails, Shaped, Fields, Fate, FateOfFailed
  <2>7. list'.latest = "pending" => ListAsks(calls', list', currentTeam)
    <3>1. list'.latest = "pending" => ListAsks(calls', list, currentTeam)
      BY <2>3, <2>6, ListAsksWithout DEF IncidentsInv
    <3> QED  BY <2>5, <3>1 DEF ListAsks
  <2>8. list'.latest = "shown" =>
          list'.shown = [team |-> currentTeam, cursor |-> list'.cursor]
    <3>1. CASE ListArrives(i)
      <4>1. /\ list'.latest = Fate(list.latest, i)
            /\ list'.shown = [team |-> calls[i].team, cursor |-> calls[i].cursor]
        BY <1>4, <3>1 DEF ListArrives, Shaped, Fields
      <4>2. list'.latest = "shown" =>
              list.latest = "pending" /\ Newest(calls, i, {"incidents"})
        BY <2>4, <4>1 DEF Fate
      <4>3. list'.latest = "shown" =>
              calls[i].team = currentTeam /\ calls[i].cursor = list.cursor
        BY <2>1, <4>2 DEF IncidentsInv, ListAsks
      <4> QED  BY <2>5, <4>1, <4>3
    <3>2. CASE ListFails(i)
      <4>1. list'.latest = FateOfFailed(list.latest, i) /\ list'.shown = list.shown
        BY <1>4, <3>2 DEF ListFails, Shaped, Fields
      <4>2. list'.latest = "shown" => list.latest = "shown"
        BY <4>1 DEF FateOfFailed
      <4> QED  BY <2>5, <4>1, <4>2 DEF IncidentsInv
    <3> QED  BY <1>5, <3>1, <3>2
  <2> QED
    BY <1>2, <1>3, <2>1, <2>2, <2>5, <2>7, <2>8 DEF IncidentsInv, DetailShape
<1>6. CASE DetailArrives(i) \/ DetailFails(i)
  <2>1. i \in Pend(calls, {"incident"}) /\ UNCHANGED list /\ calls[i].op = "incident"
    BY <1>6 DEF DetailArrives, DetailFails, Pending, Pend
  <2>2. Keeps(calls, calls', {"incidents"}) /\ Loses(calls, calls', {"incident"}, i)
    BY <1>2, <2>1, Removing DEF Others
  <2>3. /\ DetailShape' /\ detail'.of = detail.of /\ detail'.loading = FALSE
        /\ detail'.incident \in {None, detail.of}
    BY <1>6 DEF DetailArrives, DetailFails, DetailShape, IncidentsInv
  <2>4. ~detail'.error /\ detail.of # None =>
          \/ currentTeam = detail.of
          \/ \E j \in Pend(calls', {"incident"}) : calls'[j].team # detail.of
    <3>1. CASE DetailArrives(i)
      <4>1. detail'.error = detail.error /\ calls[i].team = detail.of
        BY <3>1 DEF DetailArrives, IncidentsInv, DetailShape
      <4>2. ASSUME NEW k \in Pend(calls, {"incident"}), calls[k].team # detail.of
            PROVE  \E j \in Pend(calls', {"incident"}) : calls'[j].team # detail.of
        <5>1. k \in Pend(calls, {"incident"}) \ {i}
          BY <4>1, <4>2
        <5> QED  BY <2>2, <4>2, <5>1 DEF Loses
      <4> QED  BY <4>1, <4>2 DEF IncidentsInv
    <3>2. CASE DetailFails(i)
      BY <3>2 DEF DetailFails, IncidentsInv, DetailShape
    <3> QED  BY <1>6, <3>1, <3>2
  <2>5. /\ list.latest = "pending" => ListAsks(calls', list, currentTeam)
        /\ Pend(calls, {"incidents"}) = {} => Pend(calls', {"incidents"}) = {}
        /\ Pend(calls, {"incidents"}) # {} => Pend(calls', {"incidents"}) # {}
    BY <2>2, ListAsksOn, NoneKept, SomeKept DEF IncidentsInv
  <2> QED
    BY <1>2, <1>3, <2>1, <2>3, <2>4, <2>5 DEF IncidentsInv
<1> QED  BY <1>1, <1>5, <1>6

-----------------------------------------------------------------------------
(* What leaves the calls of kinds O alone.                                  *)
LEMMA RefetchedKeeps ==
  ASSUME Refetched, NEW O, O \cap TeamPageOps = {}, "teams" \notin O
  PROVE  Keeps(calls, calls', O)
<1>1. PICK m : \E t \in Teams :
        Moved(calls, m, TeamPageOps) /\ calls' = Append(m, Read("teams", t))
  BY DEF Refetched
<1>2. PICK t \in Teams : calls' = Append(m, Read("teams", t))
  BY <1>1
<1>3. AllCalls(m) /\ Keeps(calls, m, O)
  BY <1>1 DEF Moved
<1>4. IsCall(Read("teams", t)) /\ Read("teams", t).op = "teams"
  BY CallsAreCalls
<1>5. Keeps(m, Append(m, Read("teams", t)), O)
  BY <1>3, <1>4, Sending
<1>6. Keeps(m, calls', O)
  BY Zenon, <1>2, <1>5
<1> QED  BY <1>3, <1>6, KeepsOn

LEMMA RerenderedKeeps ==
  ASSUME TeamsInv, Rerendered, area \in Areas \ {"session"},
         NEW O, O \cap TeamOps = {},
         area = "incidents" => O \cap IncidentOps = {},
         area = "plugins" => O \cap {"plugins", "plugin"} = {},
         area \in {"monitors", "new"} /\ OnMonitors =>
           O \cap {"monitors", "toggle", "deleteMonitor"} = {},
         area = "team" => "team" \notin O
  PROVE  Keeps(calls, calls', O)
<1>1. CASE \E e : Sends(calls, calls', e, TeamOps) /\ e.op \notin O
  BY <1>1 DEF Sends
<1>2. CASE \E s, e : /\ s = calls \/ Marks(calls, s, {"toggle", "deleteMonitor"})
                     /\ Sends(s, calls', e, TeamOps) /\ e.op \notin O
                     /\ O \cap {"toggle", "deleteMonitor"} = {}
  <2>1. PICK s, e : /\ s = calls \/ Marks(calls, s, {"toggle", "deleteMonitor"})
                    /\ Sends(s, calls', e, TeamOps) /\ e.op \notin O
                    /\ O \cap {"toggle", "deleteMonitor"} = {}
    BY <1>2
  <2>2. Keeps(s, calls', O)
    BY <2>1 DEF Sends
  <2>3. CASE s = calls
    BY <2>2, <2>3
  <2>4. CASE Marks(calls, s, {"toggle", "deleteMonitor"})
    <3>1. Keeps(calls, s, O)
      BY <2>1, <2>4, Marking DEF TeamsInv
    <3> QED  BY <2>2, <3>1, KeepsOn
  <2> QED  BY <2>1, <2>3, <2>4
<1>3. CASE Moved(calls, calls', TeamOps)
  BY <1>3 DEF Moved
<1>4. CASE area = "incidents"
  <2>1. IncidentsCall(currentTeam', list.cursor).op \notin O
        /\ Read("incident", currentTeam').op \notin O
    BY <1>4 DEF IncidentsCall, Read, IncidentOps
  <2> QED  BY <1>1, <1>4, <2>1, Effects
<1>5. CASE area = "plugins"
  <2>1. FormCall(currentTeam', form.type).op \notin O
        /\ Read("plugins", currentTeam').op \notin O
    BY <1>5 DEF FormCall, Read
  <2> QED  BY <1>1, <1>5, <2>1, Effects
<1>6. CASE area = "team"
  <2>1. Read("team", currentTeam').op \notin O
    BY <1>6 DEF Read
  <2> QED  BY <1>1, <1>6, <2>1, Effects
<1>7. CASE area \in {"monitors", "new"} /\ OnMonitors
  <2>1. FirstMonitorsCall(currentTeam').op \notin O
    BY <1>7 DEF FirstMonitorsCall
  <2> QED  BY <1>2, <1>7, <2>1, Effects
<1>8. CASE area \in {"monitors", "new"} /\ ~OnMonitors
  BY <1>3, <1>8, Effects
<1> QED  BY <1>4, <1>5, <1>6, <1>7, <1>8 DEF Areas

-----------------------------------------------------------------------------
(* On the other pages there is nothing of the incidents.                    *)
LEMMA NoIncidentsNext ==
  ASSUME TeamsInv, NoIncidents, area \in Areas \ {"session", "incidents"}, [Next]_vars
  PROVE  NoIncidents'
<1>1. area' = area /\ Pend(calls, IncidentOps) = {}
  BY Steps DEF NoIncidents
<1>2. UNCHANGED incidentVars /\ Keeps(calls, calls', IncidentOps)
  <2>1. CASE Undisturbed
    BY <2>1 DEF Undisturbed, pageVars, Moved, IncidentOps, TeamOps
  <2>2. CASE Rerendered
    <3>1. UNCHANGED incidentVars
      BY <2>2, Effects DEF pageVars
    <3>2. Keeps(calls, calls', IncidentOps)
      BY <2>2, RerenderedKeeps DEF IncidentOps, TeamOps
    <3> QED  BY <3>1, <3>2
  <2>3. CASE GroupStep
    <3>1. ~IncidentStep
      BY <1>1 DEF IncidentStep, IncidentAnswers, ListArrives, ListFails,
                  DetailArrives, DetailFails, Pending, Pend, IncidentOps
    <3>2. CASE TeamPageStep /\ Refetched
      <4>1. Keeps(calls, calls', IncidentOps)
        BY <3>2, RefetchedKeeps DEF IncidentOps, TeamPageOps
      <4> QED  BY <3>2, <4>1, TeamPageMoves
    <3> QED
      BY <2>3, <3>1, <3>2, PluginMoves, MonitorMoves, TeamPageMoves
         DEF GroupStep, Moved, PluginOps, MonitorOps, ListOps, TeamPageOps, IncidentOps
  <2> QED  BY <2>1, <2>2, <2>3, Steps
<1> QED  BY <1>1, <1>2, NoneKept DEF NoIncidents, incidentVars

LEMMA IncidentsNext ==
  ASSUME TeamsInv, IncidentsInv, ListInv(list), area = "incidents", [Next]_vars
  PROVE  IncidentsInv'
<1>1. CASE Undisturbed /\ (UNCHANGED mounted \/ currentTeam = None)
  <2>1. Keeps(calls, calls', {"incidents"}) /\ Keeps(calls, calls', {"incident"})
    BY <1>1 DEF Undisturbed, Moved, TeamOps
  <2> QED  BY <1>1, <2>1, IncidentsRest DEF Undisturbed, pageVars
<1>2. CASE Rerendered
  BY <1>2, IncidentsRerender
<1>3. CASE GroupStep
  <2>1. CASE IncidentStep
    BY <1>3, <2>1, IncidentClicksKeep, IncidentAnswersKeep DEF IncidentStep, GroupStep
  <2>2. CASE PluginStep \/ MonitorStep \/ TeamPageStep
    <3>1. UNCHANGED <<incidentVars, teamVars>>
      BY <2>2, PluginMoves, MonitorMoves, TeamPageMoves
    <3>2. Keeps(calls, calls', {"incidents"}) /\ Keeps(calls, calls', {"incident"})
      BY <2>2, PluginMoves, MonitorMoves, TeamPageMoves, RefetchedKeeps
         DEF Moved, PluginOps, MonitorOps, ListOps, TeamPageOps
    <3> QED  BY <1>3, <3>1, <3>2, IncidentsRest DEF GroupStep, teamVars
  <2> QED  BY <1>3, <2>1, <2>2 DEF GroupStep
<1> QED  BY <1>1, <1>2, <1>3, Steps

LEMMA IncInit == Init => IncInv
<1> SUFFICES ASSUME Init PROVE IncInv
  OBVIOUS
<1>1. list = MountedList /\ detail = MountedDetail /\ calls = <<>> /\ DOMAIN calls = {}
  BY DEF Init, IncidentsInit, ClientInit
<1>2. \A O : Pend(calls, O) = {}
  BY <1>1 DEF Pend
<1>3. mounted => area = "session"
  BY DEF Init
<1>4. IncidentsInv \/ area # "incidents"
  BY <1>1, <1>2, <1>3
     DEF IncidentsInv, DetailShape, MountedList, MountedDetail, ListAsks
<1> QED  BY <1>1, <1>2, <1>4 DEF IncInv, NoIncidents

LEMMA IncNext ==
  ASSUME Teamed, IncInv, ListInv(list), [Next]_vars
  PROVE  IncInv'
<1>1. area' = area
  BY TeamedNext
<1>2. CASE area = "session"
  <2>1. UNCHANGED incidentVars
    BY <1>2 DEF Next, Mount, EffectRenders, OnMonitors, PageStep, SessionStep,
                pageVars, vars
  <2> QED  BY <1>1, <1>2, <2>1 DEF IncInv, NoIncidents, incidentVars
<1>3. CASE area = "incidents"
  BY <1>1, <1>3, IncidentsNext DEF IncInv, Teamed
<1>4. CASE area \in Areas \ {"session", "incidents"}
  BY <1>1, <1>4, NoIncidentsNext DEF IncInv, Teamed
<1> QED  BY <1>2, <1>3, <1>4 DEF Teamed

(* When nothing is under way, a list that shows rows shows those of the     *)
(* current team, from the cursor there is, and an incident that is shown is *)
(* the current team's.                                                     *)
THEOREM IncidentsAreOfTheTeamHolds == Spec => []IncidentsAreOfTheTeam
<1>1. Init => Teamed /\ IncInv /\ ListInv(list)
  BY TeamedInit, IncInit, InitHolds
<1>2. Teamed /\ IncInv /\ ListInv(list) /\ [Next]_vars
        => Teamed' /\ IncInv' /\ ListInv(list)'
  BY TeamedNext, IncNext, NextKeeps
<1>3. IncInv => IncidentsAreOfTheTeam
  <2>1. Pending("incidents") = Pend(calls, {"incidents"})
        /\ Pending("incident") = Pend(calls, {"incident"})
    BY DEF Pending, Pend
  <2>2. CASE area = "incidents"
    BY <2>1, <2>2 DEF IncInv, IncidentsInv, IncidentsAreOfTheTeam,
         ListAnswersTheCursor, DetailIsOfTheTeam, DetailView, ListView
  <2>3. CASE area # "incidents"
    BY <2>3 DEF IncInv, NoIncidents, IncidentsAreOfTheTeam, MountedList,
         MountedDetail, ListAnswersTheCursor, DetailIsOfTheTeam, DetailView, ListView
  <2> QED  BY <2>2, <2>3
<1> QED  BY <1>1, <1>2, <1>3, PTL DEF Spec
-----------------------------------------------------------------------------
(* The page of a team.  It waits for the newest call, which reads what the  *)
(* server has; or it shows that, but for the one change that is under way.  *)
PageFields == {"members", "active", "invited", "manager", "loading",
               "confirming", "dialog", "revoking", "latest"}
PageChanges == {"rename", "invite", "setActive", "revoke"}
InvitedIn(t, manager) == IF manager THEN dbInvited[t] ELSE {}

(* The answer to a call, if there is one, is what the server has.           *)
ReadsTeam(c, t) ==
  /\ c.team = t
  /\ c.reply # NoReply =>
       /\ c.reply.active <=> t \in dbActive
       /\ c.reply.manager <=> t \in managed
       /\ c.reply.manager \/ c.reply.refused
       /\ c.reply.invited = IF c.reply.refused THEN {} ELSE dbInvited[t]

(* What the page shows and what the answer to c changes is what the server  *)
(* has.                                                                    *)
ChangesTeam(c, t) ==
  LET answered == c.reply # NoReply IN
  /\ c.team = t /\ (answered => t \in managed)
  /\ c.op = "setActive" => c.active \in BOOLEAN
  /\ c.op = "revoke" => c.invite \in Invites
  /\ IF answered /\ c.op = "setActive" THEN c.active <=> t \in dbActive
                                       ELSE page.active <=> t \in dbActive
  /\ InvitedIn(t, page.manager) =
       IF answered /\ c.op = "invite" THEN page.invited \cup {c.reply.invite}
       ELSE IF answered /\ c.op = "revoke" THEN page.invited \ {c.invite}
       ELSE page.invited

PageWaits ==
  /\ Pend(calls, PageChanges) = {}
  /\ mounted /\ currentTeam # None => Pend(calls, {"team"}) # {}
  /\ \A i \in Pend(calls, {"team"}) :
       Newest(calls, i, {"team"}) => ReadsTeam(calls[i], currentTeam)

PageShows ==
  /\ page.members = currentTeam /\ (page.manager <=> currentTeam \in managed)
  /\ Pend(calls, PageChanges) = {} =>
       /\ page.active <=> currentTeam \in dbActive
       /\ page.invited = InvitedIn(currentTeam, page.manager)
  /\ Pend(calls, PageChanges) # {} =>
       /\ Alone(calls, PageChanges) /\ Pend(calls, {"team"}) = {}
       /\ \A i \in Pend(calls, PageChanges) : ChangesTeam(calls[i], currentTeam)

PageShape == page = [x \in PageFields |-> page[x]]

PageSpins ==
  /\ mounted /\ currentTeam # None /\ page.loading => Pend(calls, {"team"}) # {}
  /\ page.revoking # None => Pend(calls, {"revoke"}) # {}

TeamPageInv ==
  /\ PageShape /\ dbInvited = [t \in Teams |-> dbInvited[t]]
  /\ PageSpins
  /\ currentTeam = None => page.latest = "pending"
  /\ page.latest = "pending" => PageWaits
  /\ page.latest = "shown" => PageShows

NoTeamPage ==
  /\ page = MountedPage
  /\ area # "session" => Pend(calls, TeamPageOps) = {}

TPInv == IF area = "team" THEN TeamPageInv ELSE NoTeamPage

(* Calls of other pages come and go.                                        *)
LEMMA TeamPageRests ==
  ASSUME TeamPageInv, UNCHANGED <<teamPageVars, currentTeam>>,
         UNCHANGED mounted \/ currentTeam = None,
         \A O : O \cap TeamPageOps # {} /\ O \subseteq TeamPageOps
                  => Keeps(calls, calls', O)
  PROVE  TeamPageInv'
<1>1. page' = page /\ managed' = managed /\ dbActive' = dbActive /\ dbInvited' = dbInvited
  BY DEF teamPageVars
<1>2. /\ Keeps(calls, calls', {"team"}) /\ Keeps(calls, calls', {"revoke"})
      /\ Keeps(calls, calls', PageChanges)
  BY DEF TeamPageOps, PageChanges
<1>3. \A O \in {{"team"}, {"revoke"}, PageChanges} :
        Pend(calls', O) = {} <=> Pend(calls, O) = {}
  BY <1>2, NoneKept, SomeKept
<1>5. PageSpins'
  BY <1>1, <1>3 DEF PageSpins, TeamPageInv
<1>6. PageWaits => PageWaits'
  <2> SUFFICES ASSUME PageWaits PROVE PageWaits'
    OBVIOUS
  <2>1. ASSUME NEW i \in Pend(calls', {"team"}), Newest(calls', i, {"team"})
        PROVE  ReadsTeam(calls'[i], currentTeam)
    BY <1>2, <2>1 DEF PageWaits, Keeps
  <2> QED  BY <1>1, <1>3, <2>1 DEF PageWaits, ReadsTeam
<1>7. PageShows => PageShows'
  <2> SUFFICES ASSUME PageShows PROVE PageShows'
    OBVIOUS
  <2>1. ASSUME NEW i \in Pend(calls', PageChanges), Pend(calls', PageChanges) # {}
        PROVE  ChangesTeam(calls'[i], currentTeam)
    BY <1>2, <1>3, <2>1 DEF PageShows, Keeps
  <2>2. Alone(calls, PageChanges) => Alone(calls', PageChanges)
    BY <1>2 DEF Keeps
  <2> QED
    BY <1>1, <1>3, <2>1, <2>2 DEF PageShows, ChangesTeam, InvitedIn
<1> QED
  BY <1>1, <1>5, <1>6, <1>7 DEF TeamPageInv, PageShape

LEMMA TeamPageRerenders ==
  ASSUME TeamsInv, TeamPageInv, Rerendered, area = "team"
  PROVE  TeamPageInv'
<1> DEFINE e == Read("team", currentTeam')
<1>1. /\ currentTeam' \in Teams /\ currentTeam' # None
      /\ FetchAllRenders /\ Sends(calls, calls', e, TeamOps)
  BY Effects, ClientAssumption DEF Areas
<1>2. e.op = "team" /\ e.team = currentTeam' /\ e.reply = NoReply
  BY DEF Read
<1> HIDE DEF e
<1>3. /\ Asks(calls, calls', {"team"}, e) /\ Keeps(calls, calls', {"revoke"})
      /\ Keeps(calls, calls', PageChanges)
  BY <1>1, <1>2 DEF Sends, TeamOps, PageChanges
<1>4. /\ page'.revoking = page.revoking /\ PageShape'
      /\ page'.latest = Unless(TeamChanges # {}, "pending")
      /\ UNCHANGED dbInvited
  BY <1>1 DEF FetchAllRenders, TeamPageInv, PageShape, PageFields
<1>5. TeamChanges = Pend(calls, PageChanges)
  BY DEF TeamChanges, Pend, PageChanges
<1>6. Pend(calls', {"team"}) # {}
      /\ \A j \in Pend(calls', {"team"}) : Newest(calls', j, {"team"}) => calls'[j] = e
  BY <1>3 DEF Asks
<1>7. PageSpins'
  BY <1>3, <1>4, <1>6, SomeKept DEF PageSpins, TeamPageInv
<1>8. page'.latest # "shown" /\ (page'.latest = "pending" => PageWaits')
  <2>1. page'.latest = "pending" => Pend(calls', PageChanges) = {}
    BY <1>3, <1>4, <1>5, NoneKept DEF Unless
  <2> QED  BY <1>2, <1>4, <1>6, <2>1 DEF Unless, PageWaits, ReadsTeam
<1> QED  BY <1>1, <1>4, <1>7, <1>8 DEF TeamPageInv
(* Dialogs open and close.                                                  *)
LEMMA PageRedrawn ==
  ASSUME TeamPageInv, UNCHANGED <<calls, currentTeam, mounted>>,
         UNCHANGED <<managed, dbActive, dbInvited>>, PageShape',
         \A x \in PageFields \ {"confirming", "dialog"} : page'[x] = page[x]
  PROVE  TeamPageInv'
<1>1. /\ page'.members = page.members /\ page'.active = page.active
      /\ page'.invited = page.invited /\ page'.manager = page.manager
      /\ page'.loading = page.loading /\ page'.revoking = page.revoking
      /\ page'.latest = page.latest
  BY DEF PageFields
<1>2. PageWaits => PageWaits'
  BY DEF PageWaits, ReadsTeam
<1>3. PageShows => PageShows'
  BY <1>1 DEF PageShows, ChangesTeam, InvitedIn
<1> QED  BY <1>1, <1>2, <1>3 DEF TeamPageInv, PageSpins

(* A change is sent.                                                        *)
LEMMA ChangeIsSent ==
  ASSUME TeamsInv, TeamPageInv, mounted, UNCHANGED mounted, currentTeam # None,
         NEW c, IsCall(c), c.op \in PageChanges, c.team = currentTeam,
         c.reply = NoReply,
         c.op = "setActive" => c.active \in BOOLEAN,
         c.op = "revoke" => c.invite \in Invites,
         NEW p, ChangeTeam(c, p),
         p = page \/ (c.op = "revoke" /\ p = [page EXCEPT !.revoking = c.invite])
  PROVE  TeamPageInv'
<1>1. calls' = Append(calls, c) /\ AllCalls(calls)
      /\ UNCHANGED <<currentTeam, managed, dbActive, dbInvited>>
  BY DEF ChangeTeam, TeamsInv, teamVars
<1>2. /\ \A x \in PageFields \ {"revoking", "latest"} : page'[x] = page[x]
      /\ page'.revoking = page.revoking \/ c.op = "revoke"
      /\ PageShape'
      /\ page'.latest =
           Unless(TeamChanges # {} \/ Pending("team") # {}, page.latest)
  <2>1. p = [x \in PageFields |-> p[x]]
        /\ \A x \in PageFields \ {"revoking"} : p[x] = page[x]
        /\ (p.revoking = page.revoking \/ c.op = "revoke")
    BY DEF TeamPageInv, PageShape, PageFields
  <2>2. page' = [p EXCEPT !.latest =
                   Unless(TeamChanges # {} \/ Pending("team") # {}, p.latest)]
    BY DEF ChangeTeam
  <2> QED  BY <2>1, <2>2 DEF PageShape, PageFields
<1>3. TeamChanges = Pend(calls, PageChanges) /\ Pending("team") = Pend(calls, {"team"})
  BY DEF TeamChanges, Pend, Pending, PageChanges
<1>4. /\ Keeps(calls, Append(calls, c), {"team"})
      /\ Asks(calls, Append(calls, c), PageChanges, c)
      /\ c.op # "revoke" => Keeps(calls, Append(calls, c), {"revoke"})
      /\ c.op = "revoke" => Asks(calls, Append(calls, c), {"revoke"}, c)
  BY <1>1, Sending DEF PageChanges
<1>5. /\ Keeps(calls, calls', {"team"}) /\ Asks(calls, calls', PageChanges, c)
      /\ c.op # "revoke" => Keeps(calls, calls', {"revoke"})
      /\ c.op = "revoke" => Asks(calls, calls', {"revoke"}, c)
  BY Zenon, <1>1, <1>4
<1> SUFFICES ASSUME Keeps(calls, calls', {"team"}), Asks(calls, calls', PageChanges, c),
                    c.op # "revoke" => Keeps(calls, calls', {"revoke"}),
                    c.op = "revoke" => Asks(calls, calls', {"revoke"}, c),
                    UNCHANGED <<currentTeam, managed, dbActive, dbInvited>>
             PROVE  TeamPageInv'
  BY Zenon, <1>1, <1>5
<1>6. PageSpins'
  <2>1. Pend(calls, {"team"}) # {} => Pend(calls', {"team"}) # {}
    BY SomeKept
  <2>2. page'.revoking # None => Pend(calls', {"revoke"}) # {}
    <3>1. CASE c.op = "revoke"
      BY <3>1 DEF Asks
    <3>2. CASE c.op # "revoke"
      BY <1>2, <3>2, SomeKept DEF TeamPageInv, PageSpins
    <3> QED  BY <3>1, <3>2
  <2> QED  BY <1>2, <2>1, <2>2 DEF PageSpins, TeamPageInv, PageFields
<1>7. page'.latest # "pending"
  BY <1>2, <1>3 DEF Unless, TeamPageInv, PageWaits
<1>8. page'.latest = "shown" => PageShows'
  <2> SUFFICES ASSUME page'.latest = "shown" PROVE PageShows'
    OBVIOUS
  <2>1. /\ page.latest = "shown" /\ Pend(calls, PageChanges) = {}
        /\ Pend(calls, {"team"}) = {}
    BY <1>2, <1>3 DEF Unless
  <2>2. /\ Alone(calls', PageChanges) /\ Pend(calls', {"team"}) = {}
        /\ Pend(calls', PageChanges) # {}
        /\ \A j \in Pend(calls', PageChanges) : calls'[j] = c
    BY <2>1, NoneKept DEF Asks
  <2>3. /\ page'.members = page.members /\ page'.active = page.active
        /\ page'.manager = page.manager /\ page'.invited = page.invited
    BY <1>2 DEF PageFields
  <2>4. ChangesTeam(c, currentTeam)'
    BY <2>1, <2>3 DEF ChangesTeam, TeamPageInv, PageShows, InvitedIn
  <2> QED
    BY <2>1, <2>2, <2>3, <2>4 DEF TeamPageInv, PageShows, ChangesTeam, InvitedIn
<1> QED  BY <1>2, <1>6, <1>7, <1>8 DEF TeamPageInv

LEMMA TeamPageClicksKeep ==
  ASSUME TeamsInv, TeamPageInv, mounted, UNCHANGED mounted, TeamPageClicks
  PROVE  TeamPageInv'
<1>1. CASE OpenInvite \/ CloseInvite \/ \E open \in BOOLEAN : SetConfirm(open)
  <2>1. PICK v : \/ page' = [page EXCEPT !.dialog = v]
                 \/ page' = [page EXCEPT !.confirming = v]
    BY <1>1 DEF OpenInvite, CloseInvite, SetConfirm
  <2>2. UNCHANGED <<calls, currentTeam, managed, dbActive, dbInvited>>
    BY <1>1 DEF OpenInvite, CloseInvite, SetConfirm, teamVars
  <2>3. /\ PageShape'
        /\ \A x \in PageFields \ {"confirming", "dialog"} : page'[x] = page[x]
    BY <2>1 DEF TeamPageInv, PageShape, PageFields
  <2> QED  BY <2>2, <2>3, PageRedrawn
<1>2. CASE SaveName \/ OnInvite
  <2>1. PICK o \in {"rename", "invite"} :
          ChangeTeam(Read(o, currentTeam), page) /\ currentTeam # None
    BY <1>2 DEF SaveName, OnInvite, OnTeamPage, Shown
  <2>2. IsCall(Read(o, currentTeam))
    BY <2>1, CallsAreCalls DEF TeamsInv
  <2> QED  BY <2>1, <2>2, ChangeIsSent DEF Read, PageChanges
<1>3. CASE Activate \/ Deactivate
  <2>1. PICK b \in BOOLEAN :
          /\ currentTeam # None
          /\ ChangeTeam([op |-> "setActive", team |-> currentTeam, active |-> b,
                         reply |-> NoReply], page)
    BY <1>3 DEF Activate, Deactivate, OnTeamPage, Shown
  <2> DEFINE c == [op |-> "setActive", team |-> currentTeam, active |-> b,
                   reply |-> NoReply]
  <2>2. IsCall(c)
    BY <2>1 DEF IsCall, TeamsInv
  <2> QED  BY <2>1, <2>2, ChangeIsSent DEF PageChanges
<1>4. CASE \E v \in Invites : RevokeInvitation(v)
  <2>1. PICK v \in Invites :
          /\ currentTeam # None
          /\ ChangeTeam([op |-> "revoke", team |-> currentTeam, invite |-> v,
                         reply |-> NoReply], [page EXCEPT !.revoking = v])
    BY <1>4 DEF RevokeInvitation, OnTeamPage, Shown
  <2> DEFINE c == [op |-> "revoke", team |-> currentTeam, invite |-> v,
                   reply |-> NoReply]
  <2>2. IsCall(c)
    BY <2>1 DEF IsCall, TeamsInv
  <2> QED  BY <2>1, <2>2, ChangeIsSent DEF PageChanges
<1> QED  BY <1>1, <1>2, <1>3, <1>4 DEF TeamPageClicks
-----------------------------------------------------------------------------
LEMMA TeamIsServed ==
  ASSUME TeamsInv, TeamPageInv, UNCHANGED mounted, NEW i \in DOMAIN calls, ServeTeam(i)
  PROVE  TeamPageInv'
<1> DEFINE t == calls[i].team
<1>1. PICK r : /\ Reply(i, r)
               /\ r.active = (t \in dbActive) /\ r.manager = (t \in managed)
               /\ r.manager \/ r.refused
               /\ r.invited = IF r.refused THEN {} ELSE dbInvited[t]
  <2>1. PICK refused \in BOOLEAN :
          /\ t \notin managed => refused
          /\ Reply(i, [active |-> t \in dbActive, manager |-> t \in managed,
                    refused |-> refused,
                    invited |-> IF refused THEN {} ELSE dbInvited[t]])
    BY DEF ServeTeam
  <2> DEFINE r == [active |-> t \in dbActive, manager |-> t \in managed,
                   refused |-> refused,
                   invited |-> IF refused THEN {} ELSE dbInvited[t]]
  <2>2. /\ r.active = (t \in dbActive) /\ r.manager = (t \in managed)
        /\ r.refused = refused /\ r.invited = IF refused THEN {} ELSE dbInvited[t]
    BY Zenon
  <2>3. r.manager \/ r.refused
    BY Zenon, <2>1, <2>2
  <2> HIDE DEF r
  <2>4. Reply(i, r)
    BY Zenon, <2>1 DEF r
  <2> QED  BY Zenon, <2>2, <2>3, <2>4
<1>2. /\ UNCHANGED <<currentTeam, managed, dbActive, dbInvited, page>>
      /\ i \in Pend(calls, {"team"})
  BY DEF ServeTeam, teamVars, teamPageVars, Pending, Pend
<1>3. /\ \A O : Pend(calls', O) = Pend(calls, O)
      /\ \A j \in DOMAIN calls : j # i => calls'[j] = calls[j]
      /\ calls'[i].reply = r /\ calls'[i].team = t
  BY <1>1, Replying DEF TeamsInv, AllCalls, IsCall
<1>4. PageSpins'
  BY <1>2, <1>3 DEF PageSpins, TeamPageInv
<1>5. PageWaits => PageWaits'
  <2> SUFFICES ASSUME PageWaits PROVE PageWaits'
    OBVIOUS
  <2>1. ASSUME NEW j \in Pend(calls', {"team"}), Newest(calls', j, {"team"})
        PROVE  ReadsTeam(calls'[j], currentTeam)
    <3>1. j \in Pend(calls, {"team"}) /\ Newest(calls, j, {"team"})
      BY <1>3, <2>1 DEF Newest
    <3>2. ReadsTeam(calls[j], currentTeam)
      BY <3>1 DEF PageWaits
    <3>3. CASE j # i
      BY <1>3, <3>1, <3>2, <3>3 DEF Pend
    <3>4. CASE j = i
      <4>1. t = currentTeam /\ calls'[j].team = currentTeam /\ calls'[j].reply = r
        BY <1>3, <3>2, <3>4 DEF ReadsTeam
      <4> QED  BY <1>1, <4>1 DEF ReadsTeam
    <3> QED  BY <3>3, <3>4
  <2> QED  BY <1>2, <1>3, <2>1 DEF PageWaits, ReadsTeam
<1>6. PageShows => PageShows'
  BY <1>2, <1>3 DEF PageShows, InvitedIn
<1> QED  BY <1>2, <1>4, <1>5, <1>6 DEF TeamPageInv, PageShape

LEMMA ChangeIsServed ==
  ASSUME TeamsInv, TeamPageInv, UNCHANGED mounted, NEW i \in DOMAIN calls,
         ServeRename(i) \/ ServeSetActive(i) \/ ServeInvite(i) \/ ServeRevoke(i)
  PROVE  TeamPageInv'
<1> DEFINE c == calls[i]  t == calls[i].team
<1>1. /\ UNCHANGED <<currentTeam, managed, page>> /\ t \in managed
      /\ i \in Pend(calls, PageChanges) /\ c.reply = NoReply
  BY DEF ServeRename, ServeSetActive, ServeInvite, ServeRevoke, teamVars,
         teamPageVars, Pending, Pend, PageChanges, Allowed, Served
<1>2. PICK r :
        /\ Reply(i, r)
        /\ \/ c.op = "rename" /\ UNCHANGED <<dbActive, dbInvited>>
           \/ /\ c.op = "setActive" /\ r = [active |-> c.active]
              /\ dbActive' = IF c.active THEN dbActive \cup {t} ELSE dbActive \ {t}
              /\ UNCHANGED dbInvited
           \/ /\ c.op = "invite" /\ \E v \in Invites : r = [invite |-> v]
              /\ dbInvited' = [dbInvited EXCEPT ![t] = @ \cup {r.invite}]
              /\ UNCHANGED dbActive
           \/ /\ c.op = "revoke" /\ r = [invite |-> c.invite]
              /\ dbInvited' = [dbInvited EXCEPT ![t] = @ \ {c.invite}]
              /\ UNCHANGED dbActive
  <2>1. CASE ServeRename(i)
    BY <2>1 DEF ServeRename, Pending, teamPageVars
  <2>2. CASE ServeSetActive(i)
    BY <2>2 DEF ServeSetActive, Pending
  <2>3. CASE ServeInvite(i)
    <3>1. PICK v \in Invites :
            /\ dbInvited' = [dbInvited EXCEPT ![t] = @ \cup {v}]
            /\ Reply(i, [invite |-> v])
      BY <2>3 DEF ServeInvite
    <3>2. c.op = "invite" /\ UNCHANGED dbActive
      BY <2>3 DEF ServeInvite, Pending
    <3> DEFINE r == [invite |-> v]
    <3>3. r.invite = v /\ r = [invite |-> v]
      OBVIOUS
    <3>4. dbInvited' = [dbInvited EXCEPT ![t] = @ \cup {r.invite}]
      BY <3>1, <3>3
    <3> HIDE DEF r
    <3>5. Reply(i, r)
      BY Zenon, <3>1, <3>3
    <3> QED  BY Zenon, <3>2, <3>3, <3>4, <3>5
  <2>4. CASE ServeRevoke(i)
    BY <2>4 DEF ServeRevoke, Pending
  <2> QED  BY <2>1, <2>2, <2>3, <2>4
<1>3. /\ \A O : Pend(calls', O) = Pend(calls, O)
      /\ calls'[i].reply = r /\ calls'[i].team = t /\ calls'[i].op = c.op
      /\ \A x \in DOMAIN c : x # "reply" => calls'[i][x] = c[x]
  BY <1>2, Replying DEF TeamsInv, AllCalls, IsCall
<1>4. /\ c.op = "setActive" => calls'[i].active = c.active
      /\ c.op = "revoke" => calls'[i].invite = c.invite
  BY <1>3 DEF TeamsInv, AllCalls, IsCall
<1>5. PageSpins' /\ page.latest # "pending"
  BY <1>1, <1>3 DEF PageSpins, TeamPageInv, PageWaits
<1>6. dbInvited' = [s \in Teams |-> dbInvited'[s]]
  BY <1>2 DEF TeamPageInv
<1>7. ASSUME page.latest = "shown"  PROVE PageShows'
  <2>1. /\ PageShows /\ Pend(calls', PageChanges) = Pend(calls, PageChanges)
        /\ ChangesTeam(c, currentTeam) /\ Alone(calls, PageChanges)
        /\ Pend(calls, {"team"}) = {}
    BY <1>1, <1>3, <1>7 DEF TeamPageInv, PageShows
  <2>2. /\ Alone(calls', PageChanges) /\ Pend(calls', {"team"}) = {}
        /\ \A j \in Pend(calls', PageChanges) : j = i
    BY <1>1, <1>3, <2>1 DEF Alone
  <2>3. t = currentTeam /\ t \in Teams /\ page.manager
    BY <1>1, <2>1 DEF ChangesTeam, PageShows, TeamsInv, AllCalls, IsCall,
                      PageChanges, Pend
  <2>4. /\ page.active <=> t \in dbActive
        /\ dbInvited[t] = page.invited
        /\ c.op = "setActive" => c.active \in BOOLEAN
        /\ c.op = "revoke" => c.invite \in Invites
    BY <1>1, <2>1, <2>3 DEF ChangesTeam, InvitedIn
  <2>5. c.op # "rename" => r # NoReply
    BY <1>2, <2>4, TeamIsAnswered
  <2>6. ASSUME NEW d, NEW s, s = currentTeam, d.team = s, d.reply = r, d.op = c.op,
               c.op = "setActive" => d.active = c.active,
               c.op = "revoke" => d.invite = c.invite
        PROVE  ChangesTeam(d, s)'
    <3>1. CASE c.op = "rename"
      BY <1>1, <1>2, <2>3, <2>4, <2>6, <3>1 DEF ChangesTeam, InvitedIn
    <3>2. CASE c.op = "setActive"
      BY <1>1, <1>2, <2>3, <2>4, <2>5, <2>6, <3>2 DEF ChangesTeam, InvitedIn
    <3>3. CASE c.op \in {"invite", "revoke"}
      <4>1. dbInvited'[s] = IF c.op = "invite" THEN page.invited \cup {r.invite}
                                               ELSE page.invited \ {c.invite}
        BY <1>2, <2>3, <2>4, <2>6, <3>3 DEF TeamPageInv
      <4> QED
        BY <1>1, <1>2, <2>3, <2>4, <2>5, <2>6, <3>3, <4>1 DEF ChangesTeam, InvitedIn
    <3> QED  BY <1>2, <3>1, <3>2, <3>3
  <2>7. /\ page'.members = currentTeam' /\ (page'.manager <=> currentTeam' \in managed')
        /\ Pend(calls', PageChanges) # {}
    BY <1>1, <1>3, <2>1 DEF PageShows
  <2>8. ASSUME NEW j \in Pend(calls', PageChanges)
        PROVE  ChangesTeam(calls[j], currentTeam)'
    BY <1>1, <1>3, <1>4, <2>2, <2>3, <2>6
  <2> QED
    BY <2>2, <2>7, <2>8 DEF PageShows
<1> QED  BY <1>1, <1>5, <1>6, <1>7 DEF TeamPageInv, PageShape
LEMMA TeamIsRead ==
  ASSUME TeamsInv, TeamPageInv, UNCHANGED mounted, NEW i \in DOMAIN calls,
         FetchAllSucceeds(i) \/ FetchAllFails(i)
  PROVE  TeamPageInv'
<1> DEFINE r == calls[i].reply
<1>1. /\ UNCHANGED <<currentTeam, managed, dbActive, dbInvited>>
      /\ i \in Pend(calls, {"team"}) /\ calls[i].op = "team"
      /\ calls' = RemoveAt(calls, i) /\ AllCalls(calls)
  BY DEF FetchAllSucceeds, FetchAllFails, Pending, Pend, Others, teamVars, TeamsInv
<1>2. /\ Loses(calls, calls', {"team"}, i) /\ Keeps(calls, calls', {"revoke"})
      /\ Keeps(calls, calls', PageChanges)
  BY <1>1, Removing DEF PageChanges
<1>3. IsNewest(i) <=> Newest(calls, i, {"team"})
  BY <1>1 DEF IsNewest, Newest, Pending, Pend
<1>4. /\ page'.loading = FALSE /\ page'.revoking = page.revoking /\ PageShape'
  BY DEF FetchAllSucceeds, FetchAllFails, TeamPageInv, PageShape, PageFields
<1>5. PageSpins'
  BY <1>2, <1>4, SomeKept DEF PageSpins, TeamPageInv
<1>6. page'.latest = "pending" => page.latest = "pending" /\ ~Newest(calls, i, {"team"})
  BY <1>3 DEF FetchAllSucceeds, FetchAllFails, TeamPageInv, PageShape, PageFields,
              Fate, FateOfFailed, Unless
<1>7. ASSUME page.latest = "pending", ~Newest(calls, i, {"team"})  PROVE PageWaits'
  <2>1. Pend(calls', PageChanges) = {}
    BY <1>2, <1>7, NoneKept DEF TeamPageInv, PageWaits
  <2>2. PICK j \in Pend(calls, {"team"}) : ~(j <= i)
    BY <1>7 DEF Newest
  <2>3. DOMAIN calls \subseteq Nat
    BY <1>1, Numbered DEF AllCalls
  <2>4. j \in Pend(calls, {"team"}) \ {i}
    BY <1>1, <2>2, <2>3 DEF Pend
  <2>5. Pend(calls', {"team"}) # {}
    BY <1>2, <2>4 DEF Loses
  <2>6. ASSUME NEW k \in Pend(calls', {"team"}), Newest(calls', k, {"team"})
        PROVE  ReadsTeam(calls'[k], currentTeam)
    BY <1>2, <1>7, <2>6 DEF Loses, TeamPageInv, PageWaits
  <2> QED  BY <1>1, <2>1, <2>5, <2>6 DEF PageWaits, ReadsTeam
<1>8. ASSUME page'.latest = "shown"  PROVE PageShows'
  <2>1. Pend(calls, PageChanges) = {} /\ Pend(calls', PageChanges) = {}
    <3>1. page.latest \in {"pending", "shown"}
      BY <1>8 DEF FetchAllSucceeds, FetchAllFails, TeamPageInv, PageShape, PageFields,
                  Fate, FateOfFailed, Unless
    <3> QED  BY <1>1, <1>2, <3>1, NoneKept DEF TeamPageInv, PageWaits, PageShows
  <2>2. CASE FetchAllSucceeds(i)
    <3>1. /\ r # NoReply /\ page'.members = calls[i].team
          /\ page'.active = r.active /\ page'.invited = r.invited
          /\ page'.manager = r.manager
          /\ page'.latest = Unless(r.manager /\ r.refused, Fate(page.latest, i))
      BY <2>2 DEF FetchAllSucceeds, TeamPageInv, PageShape, PageFields, Served
    <3>2. /\ ~(r.manager /\ r.refused)
          /\ page.latest = "pending" /\ Newest(calls, i, {"team"})
      BY <1>3, <1>8, <3>1 DEF Unless, Fate
    <3>3. ReadsTeam(calls[i], currentTeam)
      BY <1>1, <3>2 DEF TeamPageInv, PageWaits
    <3>4. /\ page'.members = currentTeam
          /\ page'.manager <=> currentTeam \in managed
          /\ page'.active <=> currentTeam \in dbActive
          /\ page'.invited = InvitedIn(currentTeam, page'.manager)
      BY <3>1, <3>2, <3>3 DEF ReadsTeam, InvitedIn
    <3> QED  BY <1>1, <2>1, <3>4 DEF PageShows, InvitedIn
  <2>3. CASE FetchAllFails(i)
    <3>1. /\ page'.members = page.members /\ page'.active = page.active
          /\ page'.manager = page.manager /\ page'.invited = page.invited
          /\ page'.latest = FateOfFailed(page.latest, i)
      BY <2>3 DEF FetchAllFails, TeamPageInv, PageShape, PageFields
    <3>2. page.latest = "shown"
      BY <1>8, <3>1 DEF FateOfFailed
    <3> QED  BY <1>1, <2>1, <3>1, <3>2 DEF TeamPageInv, PageShows, InvitedIn
  <2> QED  BY <2>2, <2>3
<1>9. currentTeam # None
  BY <1>1 DEF TeamsInv, TeamOps
<1> QED  BY <1>1, <1>4, <1>5, <1>6, <1>7, <1>8, <1>9 DEF TeamPageInv

LEMMA ChangeIsAnswered ==
  ASSUME TeamsInv, TeamPageInv, UNCHANGED mounted, NEW i \in DOMAIN calls,
         \/ RenameSucceeds(i) \/ SetActiveSucceeds(i) \/ InviteSucceeds(i)
         \/ RevokeSucceeds(i) \/ TeamChangeFails(i)
  PROVE  TeamPageInv'
<1> DEFINE c == calls[i]
<1>1. /\ UNCHANGED <<currentTeam, managed, dbActive, dbInvited>>
      /\ i \in Pend(calls, PageChanges) /\ c.op \in PageChanges
      /\ AllCalls(calls) /\ c.team \in Teams
  BY DEF RenameSucceeds, SetActiveSucceeds, InviteSucceeds, RevokeSucceeds,
         TeamChangeFails, Pending, Pend, TeamChanges, PageChanges, teamVars,
         teamPageVars, TeamsInv, AllCalls, IsCall
<1>2. /\ Keeps(calls, calls', {"team"}) /\ Loses(calls, calls', PageChanges, i)
      /\ c.op # "revoke" => Keeps(calls, calls', {"revoke"})
  <2> DEFINE m == Others(i)  e == Read("teams", c.team)
  <2>1. /\ AllCalls(m)
        /\ \A O : c.op \notin O => Keeps(calls, m, O)
        /\ \A O : c.op \in O => Loses(calls, m, O, i)
    BY <1>1, Removing DEF Others
  <2>2. CASE calls' = m
    BY <1>1, <2>1, <2>2 DEF PageChanges
  <2>3. CASE calls' = Append(m, e)
    <3>1. IsCall(e) /\ e.op = "teams"
      BY <1>1, CallsAreCalls
    <3> HIDE DEF m, e
    <3>2. \A O : e.op \notin O => Keeps(m, Append(m, e), O)
      BY <2>1, <3>1, Sending
    <3>3. \A O : e.op \notin O => Keeps(m, calls', O)
      BY Zenon, <2>3, <3>2
    <3>4. /\ Keeps(calls, m, {"team"}) /\ Loses(calls, m, PageChanges, i)
          /\ c.op # "revoke" => Keeps(calls, m, {"revoke"})
      BY <1>1, <2>1 DEF PageChanges
    <3>5. /\ Keeps(m, calls', {"team"}) /\ Keeps(m, calls', PageChanges)
          /\ Keeps(m, calls', {"revoke"})
      BY <3>1, <3>3 DEF PageChanges
    <3> QED  BY <3>4, <3>5, KeepsOn, AnswersThenKeeps
  <2> QED
    BY <2>2, <2>3 DEF RenameSucceeds, SetActiveSucceeds, InviteSucceeds,
                      RevokeSucceeds, TeamChangeFails
<1>3. /\ page'.loading = page.loading /\ page'.members = page.members
      /\ page'.manager = page.manager /\ PageShape'
      /\ page'.revoking = IF c.op = "revoke" THEN None ELSE page.revoking
      /\ page'.latest = page.latest \/ page'.latest = "stale"
  <2>1. CASE RenameSucceeds(i) \/ SetActiveSucceeds(i) \/ InviteSucceeds(i) \/ RevokeSucceeds(i)
    BY <2>1 DEF RenameSucceeds, SetActiveSucceeds, InviteSucceeds, RevokeSucceeds,
         Pending, teamPageVars, TeamPageInv, PageShape, PageFields
  <2>2. CASE TeamChangeFails(i)
    <3> DEFINE p == [page EXCEPT !.latest = "stale"]
    <3>1. p = [x \in PageFields |-> p[x]] /\ p.latest = "stale"
          /\ \A x \in PageFields \ {"latest"} : p[x] = page[x]
      BY DEF TeamPageInv, PageShape, PageFields
    <3>2. page' = CASE c.op = "setActive" -> [p EXCEPT !.confirming = FALSE]
                    [] c.op = "revoke" -> [p EXCEPT !.revoking = None]
                    [] OTHER -> p
      BY <2>2 DEF TeamChangeFails
    <3> HIDE DEF p
    <3>3. \/ c.op = "setActive" /\ page' = [p EXCEPT !.confirming = FALSE]
          \/ c.op = "revoke" /\ page' = [p EXCEPT !.revoking = None]
          \/ c.op \notin {"setActive", "revoke"} /\ page' = p
      BY <3>2
    <3> QED  BY <3>1, <3>3 DEF PageShape, PageFields
  <2> QED  BY <2>1, <2>2
<1>4. PageSpins'
  <2>1. Pend(calls, {"team"}) # {} => Pend(calls', {"team"}) # {}
    BY <1>2, SomeKept
  <2>2. c.op # "revoke" /\ Pend(calls, {"revoke"}) # {} => Pend(calls', {"revoke"}) # {}
    BY <1>2, SomeKept
  <2> QED  BY <1>1, <1>3, <2>1, <2>2 DEF PageSpins, TeamPageInv
<1>5. page.latest # "pending"
  BY <1>1 DEF TeamPageInv, PageWaits
<1>6. ASSUME page'.latest = "shown"  PROVE PageShows'
  <2>1. /\ page.latest = "shown" /\ PageShows /\ ~TeamChangeFails(i)
    <3>1. TeamChangeFails(i) => page'.latest = "stale"
      <4> SUFFICES ASSUME TeamChangeFails(i) PROVE page'.latest = "stale"
        OBVIOUS
      <4> DEFINE p == [page EXCEPT !.latest = "stale"]
      <4>1. p.latest = "stale" /\ p = [x \in PageFields |-> p[x]]
        BY DEF TeamPageInv, PageShape, PageFields
      <4>2. \/ page' = [p EXCEPT !.confirming = FALSE]
            \/ page' = [p EXCEPT !.revoking = None]
            \/ page' = p
        BY DEF TeamChangeFails
      <4> HIDE DEF p
      <4> QED  BY <4>1, <4>2 DEF PageFields
    <3> QED  BY <1>3, <1>6, <3>1 DEF TeamPageInv
  <2>2. /\ Alone(calls, PageChanges) /\ ChangesTeam(c, currentTeam)
        /\ Pend(calls, {"team"}) = {}
    BY <1>1, <2>1 DEF PageShows
  <2>3. Pend(calls', PageChanges) = {}
    BY <1>1, <1>2, <2>2 DEF Loses, Alone
  <2>4. /\ page'.active <=> currentTeam \in dbActive
        /\ page'.invited = InvitedIn(currentTeam, page.manager)
    <3>1. CASE RenameSucceeds(i)
      BY <2>2, <3>1 DEF RenameSucceeds, ChangesTeam, Pending, teamPageVars
    <3>2. CASE SetActiveSucceeds(i)
      BY <2>2, <3>2 DEF SetActiveSucceeds, ChangesTeam, Pending, Served,
                        TeamPageInv, PageShape, PageFields
    <3>3. CASE InviteSucceeds(i)
      BY <2>2, <3>3 DEF InviteSucceeds, ChangesTeam, Pending, Served,
                        TeamPageInv, PageShape, PageFields
    <3>4. CASE RevokeSucceeds(i)
      <4>1. c.op = "revoke"
        BY <3>4 DEF RevokeSucceeds, Pending
      <4>2. page'.invited = page.invited \ {c.invite} /\ page'.active = page.active
            /\ c.reply # NoReply
        BY <3>4 DEF RevokeSucceeds, Served, TeamPageInv, PageShape, PageFields
      <4> QED  BY <2>2, <4>1, <4>2 DEF ChangesTeam
    <3> QED  BY <2>1, <3>1, <3>2, <3>3, <3>4
  <2> QED  BY <1>1, <1>3, <2>1, <2>3, <2>4 DEF PageShows, InvitedIn
<1>7. currentTeam # None
  BY <1>1 DEF TeamsInv, TeamOps, PageChanges
<1> QED  BY <1>1, <1>3, <1>4, <1>5, <1>6, <1>7 DEF TeamPageInv
-----------------------------------------------------------------------------
LEMMA NoTeamPageNext ==
  ASSUME TeamsInv, NoTeamPage, area \in Areas \ {"session", "team"}, [Next]_vars
  PROVE  NoTeamPage'
<1>1. area' = area /\ Pend(calls, TeamPageOps) = {}
  BY Steps DEF NoTeamPage
<1>2. page' = page /\ Keeps(calls, calls', TeamPageOps)
  <2>1. CASE Undisturbed
    BY <2>1 DEF Undisturbed, pageVars, teamPageVars, Moved, TeamPageOps, TeamOps
  <2>2. CASE Rerendered
    <3>1. page' = page
      BY <2>2, Effects DEF pageVars, teamPageVars
    <3>2. Keeps(calls, calls', TeamPageOps)
      BY <2>2, RerenderedKeeps DEF IncidentOps, TeamPageOps, TeamOps
    <3> QED  BY <3>1, <3>2
  <2>3. CASE GroupStep
    <3>1. ~TeamPageStep
      BY <1>1 DEF TeamPageStep, TeamPageServed, TeamPageAnswers, ServeTeam,
           ServeRename, ServeSetActive, ServeInvite, ServeRevoke, FetchAllSucceeds,
           FetchAllFails, RenameSucceeds, SetActiveSucceeds, InviteSucceeds,
           RevokeSucceeds, TeamChangeFails, TeamChanges, Pending, Pend, TeamPageOps
    <3> QED
      BY <2>3, <3>1, IncidentMoves, PluginMoves, MonitorMoves
         DEF GroupStep, Moved, PluginOps, MonitorOps, ListOps, TeamPageOps, IncidentOps,
             teamPageVars
  <2> QED  BY <2>1, <2>2, <2>3, Steps
<1> QED  BY <1>1, <1>2, NoneKept DEF NoTeamPage

LEMMA TeamPageNext ==
  ASSUME TeamsInv, TeamPageInv, area = "team", [Next]_vars
  PROVE  TeamPageInv'
<1>1. CASE Undisturbed /\ (UNCHANGED mounted \/ currentTeam = None)
  <2>1. \A O : O \cap TeamPageOps # {} /\ O \subseteq TeamPageOps
                 => Keeps(calls, calls', O)
    BY <1>1 DEF Undisturbed, Moved, TeamOps, TeamPageOps
  <2> QED  BY <1>1, <2>1, TeamPageRests DEF Undisturbed, pageVars
<1>2. CASE Rerendered
  BY <1>2, TeamPageRerenders
<1>3. CASE GroupStep
  <2>1. CASE TeamPageStep
    BY <1>3, <2>1, TeamPageClicksKeep, TeamIsServed, ChangeIsServed, TeamIsRead,
       ChangeIsAnswered DEF TeamPageStep, TeamPageServed, TeamPageAnswers, GroupStep
  <2>2. CASE IncidentStep \/ PluginStep \/ MonitorStep
    <3>1. UNCHANGED <<teamPageVars, teamVars>>
      BY <2>2, IncidentMoves, PluginMoves, MonitorMoves
    <3>2. \A O : O \cap TeamPageOps # {} /\ O \subseteq TeamPageOps
                   => Keeps(calls, calls', O)
      BY <2>2, IncidentMoves, PluginMoves, MonitorMoves
         DEF Moved, PluginOps, MonitorOps, ListOps, TeamPageOps, IncidentOps
    <3> QED  BY <1>3, <3>1, <3>2, TeamPageRests DEF GroupStep, teamVars
  <2> QED  BY <1>3, <2>1, <2>2 DEF GroupStep
<1> QED  BY <1>1, <1>2, <1>3, Steps

LEMMA TPInit == Init => TPInv
<1> SUFFICES ASSUME Init PROVE TPInv
  OBVIOUS
<1>1. page = MountedPage /\ calls = <<>> /\ DOMAIN calls = {}
      /\ dbInvited = [t \in Teams |-> dbInvited[t]]
  BY DEF Init, TeamPageInit, ClientInit
<1>2. \A O : Pend(calls, O) = {}
  BY <1>1 DEF Pend
<1>3. mounted => area = "session"
  BY DEF Init
<1>4. TeamPageInv \/ area # "team"
  BY <1>1, <1>2, <1>3
     DEF TeamPageInv, PageShape, PageFields, MountedPage, PageSpins, PageWaits
<1> QED  BY <1>1, <1>2, <1>4 DEF TPInv, NoTeamPage

LEMMA TPNext ==
  ASSUME Teamed, TPInv, [Next]_vars
  PROVE  TPInv'
<1>1. area' = area
  BY TeamedNext
<1>2. CASE area = "session"
  <2>1. page' = page
    BY <1>2 DEF Next, Mount, EffectRenders, OnMonitors, PageStep, SessionStep,
                pageVars, teamPageVars, vars
  <2> QED  BY <1>1, <1>2, <2>1 DEF TPInv, NoTeamPage
<1>3. CASE area = "team"
  BY <1>1, <1>3, TeamPageNext DEF TPInv, Teamed
<1>4. CASE area \in Areas \ {"session", "team"}
  BY <1>1, <1>4, NoTeamPageNext DEF TPInv, Teamed
<1> QED  BY <1>2, <1>3, <1>4 DEF Teamed

(* Quiet, with nothing raced or lost, the page of a team shows the current  *)
(* team: its member's badge and pending invitations as the server has them, *)
(* and controls for exactly the users from whom the server takes changes.   *)
THEOREM PageIsOfTheTeamHolds == Spec => []PageIsOfTheTeam
<1>1. Init => Teamed /\ TPInv
  BY TeamedInit, TPInit
<1>2. Teamed /\ TPInv /\ [Next]_vars => Teamed' /\ TPInv'
  BY TeamedNext, TPNext
<1>3. TPInv => PageIsOfTheTeam
  <2>1. Pending("team") = Pend(calls, {"team"}) /\ TeamChanges = Pend(calls, PageChanges)
    BY DEF Pending, Pend, TeamChanges, PageChanges
  <2>2. CASE area = "team"
    BY <2>1, <2>2 DEF TPInv, TeamPageInv, PageShows, InvitedIn, PageIsOfTheTeam
  <2>3. CASE area # "team"
    BY <2>3 DEF TPInv, NoTeamPage, PageIsOfTheTeam, MountedPage
  <2> QED  BY <2>2, <2>3
<1> QED  BY <1>1, <1>2, <1>3, PTL DEF Spec
-----------------------------------------------------------------------------
(* The plugins.  The store waits for the newest call, which reads what the  *)
(* server has; or it shows that, but for the one change that is under way.  *)
(* So does the form.  OnPlugins: the list is on screen.                    *)
StoreFields == {"rows", "loading", "team", "latest"}
FormFields == {"type", "filled", "configured", "loading", "team", "latest"}
PluginChanges == {"upsert", "deletePlugin"}
OnPlugins == area = "plugins" /\ form.type = None

PluginShape ==
  /\ plugins = [x \in StoreFields |-> plugins[x]]
  /\ form = [x \in FormFields |-> form[x]]
  /\ dbPlugins = [t \in Teams |-> dbPlugins[t]]

ReadsPlugins(c) ==
  /\ OnPlugins => c.team = currentTeam
  /\ c.reply # NoReply => c.reply.rows = dbPlugins[c.team]

StoreWaits ==
  /\ Pend(calls, PluginChanges) = {}
  /\ Pend(calls, {"plugins"}) # {} \/ plugins.team = None
  /\ \A i \in Pend(calls, {"plugins"}) :
       Newest(calls, i, {"plugins"}) => ReadsPlugins(calls[i])

ChangesStore(c) ==
  /\ c.team = plugins.team
  /\ dbPlugins[plugins.team] =
       IF c.reply = NoReply THEN plugins.rows
       ELSE IF c.op = "upsert" THEN plugins.rows \cup {c.type}
       ELSE plugins.rows \ {c.type}

StoreShows ==
  /\ plugins.team \in Teams
  /\ OnPlugins => plugins.team = currentTeam
  /\ Pend(calls, PluginChanges) = {} => plugins.rows = dbPlugins[plugins.team]
  /\ Pend(calls, PluginChanges) # {} =>
       /\ Alone(calls, PluginChanges) /\ Pend(calls, {"plugins"}) = {}
       /\ \A i \in Pend(calls, PluginChanges) : ChangesStore(calls[i])

StoreInv ==
  /\ plugins.loading => Pend(calls, {"plugins"}) # {}
  /\ plugins.latest = "pending" => StoreWaits
  /\ plugins.latest = "shown" => StoreShows

ReadsForm(c) ==
  /\ c.team = currentTeam /\ c.type = form.type
  /\ c.reply # NoReply => (c.reply.found <=> form.type \in dbPlugins[currentTeam])

FormWaits ==
  /\ Pend(calls, PluginChanges) = {} /\ Pend(calls, {"plugin"}) # {}
  /\ \A i \in Pend(calls, {"plugin"}) :
       Newest(calls, i, {"plugin"}) => ReadsForm(calls[i])

ChangesForm(c) ==
  /\ c.team = currentTeam /\ c.type = form.type /\ c.mine
  /\ c.reply = NoReply => (form.configured <=> form.type \in dbPlugins[currentTeam])
  /\ c.reply # NoReply /\ c.op = "upsert" => form.type \in dbPlugins[currentTeam]

FormShowsIt ==
  /\ form.type # None /\ form.team = currentTeam
  /\ Pend(calls, PluginChanges) = {} =>
       (form.configured <=> form.type \in dbPlugins[currentTeam])
  /\ Pend(calls, PluginChanges) # {} =>
       /\ Alone(calls, PluginChanges) /\ Pend(calls, {"plugin"}) = {}
       /\ \A i \in Pend(calls, PluginChanges) : ChangesForm(calls[i])

FormInv ==
  /\ form.type # None =>
       /\ area = "plugins" /\ form.type \in Types
       /\ form.loading => Pend(calls, {"plugin"}) # {}
       /\ form.latest = "pending" => FormWaits
  /\ form.type = None =>
       /\ Pend(calls, {"plugin"}) = {}
       /\ \A i \in Pend(calls, PluginChanges) : ~calls[i].mine
  /\ form.latest = "shown" => FormShowsIt

PluginInv ==
  IF area = "session" THEN plugins = EmptyStore /\ form = NoForm
  ELSE PluginShape /\ StoreInv /\ FormInv

(* Calls of other pages come and go.                                        *)
LEMMA StoreRests ==
  ASSUME StoreInv, UNCHANGED <<plugins, dbPlugins>>,
         OnPlugins' => OnPlugins /\ UNCHANGED currentTeam,
         Keeps(calls, calls', {"plugins"}), Keeps(calls, calls', PluginChanges)
  PROVE  StoreInv'
<1>2. \A O \in {{"plugins"}, PluginChanges} : Pend(calls', O) = {} <=> Pend(calls, O) = {}
  BY NoneKept, SomeKept
<1>3. Alone(calls, PluginChanges) => Alone(calls', PluginChanges)
  BY DEF Keeps
<1>4. StoreWaits => StoreWaits'
  <2> SUFFICES ASSUME StoreWaits PROVE StoreWaits'
    OBVIOUS
  <2>1. ASSUME NEW i \in Pend(calls', {"plugins"}), Newest(calls', i, {"plugins"})
        PROVE  ReadsPlugins(calls'[i])
    BY <2>1 DEF StoreWaits, Keeps
  <2> QED  BY <1>2, <2>1 DEF StoreWaits, ReadsPlugins
<1>5. StoreShows => StoreShows'
  <2> SUFFICES ASSUME StoreShows PROVE StoreShows'
    OBVIOUS
  <2>1. ASSUME NEW i \in Pend(calls', PluginChanges), Pend(calls', PluginChanges) # {}
        PROVE  ChangesStore(calls'[i])
    BY <1>2, <2>1 DEF StoreShows, Keeps
  <2> QED  BY <1>2, <1>3, <2>1 DEF StoreShows, ChangesStore
<1> QED  BY <1>2, <1>4, <1>5 DEF StoreInv

LEMMA FormRests ==
  ASSUME FormInv, UNCHANGED <<form, dbPlugins, area>>,
         UNCHANGED currentTeam \/ form.type = None,
         Keeps(calls, calls', {"plugin"}), Keeps(calls, calls', PluginChanges)
  PROVE  FormInv'
<1>2. \A O \in {{"plugin"}, PluginChanges} : Pend(calls', O) = {} <=> Pend(calls, O) = {}
  BY NoneKept, SomeKept
<1>3. Alone(calls, PluginChanges) => Alone(calls', PluginChanges)
  BY DEF Keeps
<1>7. CASE form.type = None
  <2>1. \A i \in Pend(calls', PluginChanges) : ~calls'[i].mine
    BY <1>7 DEF FormInv, Keeps
  <2> QED  BY <1>2, <1>7, <2>1 DEF FormInv, FormShowsIt
<1>8. CASE form.type # None
  <2>2. FormWaits => FormWaits'
    <3> SUFFICES ASSUME FormWaits PROVE FormWaits'
      OBVIOUS
    <3>1. ASSUME NEW i \in Pend(calls', {"plugin"}), Newest(calls', i, {"plugin"})
          PROVE  ReadsForm(calls'[i])
      BY <3>1 DEF FormWaits, Keeps
    <3> QED  BY <1>2, <1>8, <3>1 DEF FormWaits, ReadsForm
  <2>3. FormShowsIt => FormShowsIt'
    <3> SUFFICES ASSUME FormShowsIt PROVE FormShowsIt'
      OBVIOUS
    <3>1. ASSUME NEW i \in Pend(calls', PluginChanges), Pend(calls', PluginChanges) # {}
          PROVE  ChangesForm(calls'[i])
      BY <1>2, <3>1 DEF FormShowsIt, Keeps
    <3> QED  BY <1>2, <1>3, <1>8, <3>1 DEF FormShowsIt, ChangesForm
  <2> QED  BY <1>2, <1>8, <2>2, <2>3 DEF FormInv
<1> QED  BY <1>7, <1>8

(* The list, and the form, is asked for anew.                               *)
LEMMA StoreAsked ==
  ASSUME NEW s, NEW e, Asks(s, calls', {"plugins"}, e), e.reply = NoReply,
         OnPlugins' => e.team = currentTeam', plugins'.latest # "shown",
         plugins'.latest = "pending" => Pend(calls', PluginChanges) = {}
  PROVE  StoreInv'
<1>1. /\ Pend(calls', {"plugins"}) # {}
      /\ \A j \in Pend(calls', {"plugins"}) : Newest(calls', j, {"plugins"}) => calls'[j] = e
  BY DEF Asks
<1> QED  BY <1>1 DEF StoreInv, StoreWaits, ReadsPlugins

LEMMA FormAsked ==
  ASSUME NEW s, NEW e, Asks(s, calls', {"plugin"}, e), e.reply = NoReply,
         e.team = currentTeam', e.type = form'.type,
         form'.type \in Types, area' = "plugins", form'.latest # "shown",
         form'.latest = "pending" => Pend(calls', PluginChanges) = {}
  PROVE  FormInv'
<1>1. /\ Pend(calls', {"plugin"}) # {}
      /\ \A j \in Pend(calls', {"plugin"}) : Newest(calls', j, {"plugin"}) => calls'[j] = e
  BY DEF Asks
<1> QED  BY <1>1, PluginAssumption DEF FormInv, FormWaits, ReadsForm

LEMMA ChangingIsPend ==
  /\ Changing = Pend(calls, PluginChanges)
  /\ Pending("plugins") = Pend(calls, {"plugins"})
  /\ Pending("plugin") = Pend(calls, {"plugin"})
BY DEF Changing, Pending, Pend, PluginChanges

(* The store is loaded again: what becomes of its record.                   *)
LEMMA Loads ==
  ASSUME PluginShape, plugins' = Loading
  PROVE  /\ plugins' = [x \in StoreFields |-> plugins'[x]]
         /\ plugins'.latest # "shown"
         /\ plugins'.latest = "pending" => Pend(calls, PluginChanges) = {}
BY ChangingIsPend DEF PluginShape, StoreFields, Loading, Unless

LEMMA PluginsRerender ==
  ASSUME TeamsInv, PluginShape, StoreInv, FormInv, Rerendered, UNCHANGED area,
         area = "plugins"
  PROVE  PluginShape' /\ StoreInv' /\ FormInv'
<1>1. CASE form.type = None
  <2> DEFINE e == Read("plugins", currentTeam')
  <2>1. PluginsRender /\ Sends(calls, calls', e, TeamOps)
    BY <1>1, Effects DEF Areas
  <2>2. e.op = "plugins" /\ e.team = currentTeam' /\ e.reply = NoReply
    BY DEF Read
  <2> HIDE DEF e
  <2>3. /\ Asks(calls, calls', {"plugins"}, e) /\ Keeps(calls, calls', {"plugin"})
        /\ Keeps(calls, calls', PluginChanges)
    BY <2>1, <2>2 DEF Sends, TeamOps, PluginChanges
  <2>4. plugins' = Loading /\ UNCHANGED <<dbPlugins, form>>
    BY <2>1 DEF PluginsRender
  <2>5. FormInv'
    BY <1>1, <2>3, <2>4, FormRests
  <2>6. plugins'.latest = "pending" => Pend(calls', PluginChanges) = {}
    BY <2>3, <2>4, Loads, NoneKept
  <2>7. StoreInv'
    BY <2>2, <2>3, <2>4, <2>6, Loads, StoreAsked
  <2> QED  BY <2>4, <2>5, <2>7, Loads DEF PluginShape
<1>2. CASE form.type # None
  <2> DEFINE e == FormCall(currentTeam', form.type)
  <2>1. FormRenders /\ Sends(calls, calls', e, TeamOps)
    BY <1>2, Effects DEF Areas
  <2>2. e.op = "plugin" /\ e.team = currentTeam' /\ e.reply = NoReply /\ e.type = form.type
    BY DEF FormCall
  <2> HIDE DEF e
  <2>3. /\ Asks(calls, calls', {"plugin"}, e) /\ Keeps(calls, calls', {"plugins"})
        /\ Keeps(calls, calls', PluginChanges)
    BY <2>1, <2>2 DEF Sends, TeamOps, PluginChanges
  <2>4. /\ UNCHANGED <<dbPlugins, plugins>> /\ form'.type = form.type
        /\ form' = [x \in FormFields |-> form'[x]] /\ form'.latest # "shown"
        /\ form'.latest = "pending" => Pend(calls, PluginChanges) = {}
    BY <2>1, ChangingIsPend DEF FormRenders, FormLoads, PluginShape, FormFields, Unless
  <2>5. StoreInv'
    BY <1>2, <2>3, <2>4, StoreRests DEF OnPlugins
  <2>6. form'.latest = "pending" => Pend(calls', PluginChanges) = {}
    BY <2>3, <2>4, NoneKept
  <2>7. FormInv'
    BY <1>2, <2>2, <2>3, <2>4, <2>6, FormAsked DEF FormInv
  <2> QED  BY <2>4, <2>5, <2>7 DEF PluginShape
<1> QED  BY <1>1, <1>2
-----------------------------------------------------------------------------
(* The form is closed: what is left of its calls.                           *)
LEMMA OrphanedKeeps ==
  ASSUME NEW s, AllCalls(s)
  PROVE  /\ AllCalls(Orphaned(s)) /\ Pend(Orphaned(s), {"plugin"}) = {}
         /\ Keeps(s, Orphaned(s), {"plugins"})
         /\ Pend(s, PluginChanges) = {} => Pend(Orphaned(s), PluginChanges) = {}
         /\ \A i \in Pend(Orphaned(s), PluginChanges) : ~Orphaned(s)[i].mine
<1> DEFINE m == Without(s, "plugin")  o == Orphaned(s)
<1>1. AllCalls(m) /\ Pend(m, {"plugin"}) = {} /\ Keeps(s, m, {"plugins"})
      /\ Keeps(s, m, PluginChanges)
  BY Dropping DEF PluginChanges
<1>2. Marks(m, o, PluginChanges)
  BY DEF Marks, Orphaned, PluginChanges
<1> HIDE DEF m, o
<1>3. /\ AllCalls(o) /\ \A O : Pend(o, O) = Pend(m, O)
      /\ \A O : O \cap PluginChanges = {} => Keeps(m, o, O)
      /\ \A i \in DOMAIN m : m[i].op \in PluginChanges => o[i].mine = FALSE
  <2>1. PluginChanges \subseteq {"upsert", "deletePlugin", "toggle", "deleteMonitor", "create"}
    BY DEF PluginChanges
  <2>2. AllCalls(m)
    BY <1>1
  <2>3. /\ AllCalls(o) /\ DOMAIN o = DOMAIN m
        /\ \A i \in DOMAIN m :
             /\ o[i].op = m[i].op /\ DOMAIN o[i] = DOMAIN m[i]
             /\ \A x \in DOMAIN m[i] : x # "mine" => o[i][x] = m[i][x]
             /\ m[i].op \notin PluginChanges => o[i] = m[i]
             /\ m[i].op \in PluginChanges => o[i].mine = FALSE
        /\ \A O : Pend(o, O) = Pend(m, O)
        /\ \A O : O \cap PluginChanges = {} => Keeps(m, o, O)
    BY <1>2, <2>1, <2>2, Marking
  <2> QED  BY <2>3
<1>7. {"plugins"} \cap PluginChanges = {}
  BY DEF PluginChanges
<1>4. Keeps(s, o, {"plugins"})
  BY <1>1, <1>3, <1>7, KeepsOn
<1>5. \A i \in Pend(o, PluginChanges) : ~o[i].mine
  BY <1>3 DEF Pend
<1>6. Pend(s, PluginChanges) = {} => Pend(o, PluginChanges) = {}
  BY <1>1, <1>3, NoneKept
<1> QED  BY <1>1, <1>3, <1>4, <1>5, <1>6 DEF o

(* The list is on screen again, and asks.                                   *)
LEMMA BackOnPlugins ==
  ASSUME NEW s, AllCalls(s), currentTeam \in Teams, UNCHANGED currentTeam,
         form' = NoForm, plugins'.latest # "shown",
         plugins'.latest = "pending" => Pend(s, PluginChanges) = {},
         calls' = Orphaned(s) \o ListPluginsCall(currentTeam)
  PROVE  StoreInv' /\ FormInv'
<1> DEFINE o == Orphaned(s)  e == Read("plugins", currentTeam)
<1>1. /\ AllCalls(o) /\ Pend(o, {"plugin"}) = {}
      /\ Pend(s, PluginChanges) = {} => Pend(o, PluginChanges) = {}
      /\ \A i \in Pend(o, PluginChanges) : ~o[i].mine
  BY OrphanedKeeps
<1>2. IsCall(e) /\ e.op = "plugins" /\ e.team = currentTeam /\ e.reply = NoReply
  BY CallsAreCalls
<1>3. calls' = o \o <<e>>
  BY DEF ListPluginsCall
<1> HIDE DEF o, e
<1>4. /\ o \o <<e>> = Append(o, e)
      /\ \A O : e.op \notin O => Keeps(o, Append(o, e), O)
      /\ \A O : e.op \in O => Asks(o, Append(o, e), O, e)
  BY <1>1, <1>2, Sending
<1>5. /\ \A O : e.op \notin O => Keeps(o, calls', O)
      /\ \A O : e.op \in O => Asks(o, calls', O, e)
  BY Zenon, <1>3, <1>4
<1>6. /\ Asks(o, calls', {"plugins"}, e) /\ Keeps(o, calls', {"plugin"})
      /\ Keeps(o, calls', PluginChanges)
  BY <1>2, <1>5 DEF PluginChanges
<1>7. /\ Pend(calls', {"plugin"}) = {}
      /\ plugins'.latest = "pending" => Pend(calls', PluginChanges) = {}
  BY <1>1, <1>6, NoneKept
<1>8. \A i \in Pend(calls', PluginChanges) : ~calls'[i].mine
  BY <1>1, <1>6 DEF Keeps
<1>9. StoreInv'
  BY <1>2, <1>6, <1>7, StoreAsked
<1> QED  BY <1>7, <1>8, <1>9 DEF FormInv, NoForm

LEMMA OpenPluginKeeps ==
  ASSUME TeamsInv, PluginShape, StoreInv, FormInv, UNCHANGED area, area = "plugins",
         NEW y \in Types, OpenPlugin(y)
  PROVE  PluginShape' /\ StoreInv' /\ FormInv'
<1> DEFINE e == FormCall(currentTeam, y)
<1>1. /\ currentTeam \in Teams /\ form.type = None /\ calls' = Append(calls, e)
      /\ UNCHANGED <<currentTeam, dbPlugins, plugins>> /\ AllCalls(calls)
      /\ form' = FormLoads([NoForm EXCEPT !.type = y])
  BY DEF OpenPlugin, TeamsInv, teamVars
<1>2. IsCall(e) /\ e.op = "plugin" /\ e.team = currentTeam /\ e.reply = NoReply
      /\ e.type = y
  BY <1>1, CallsAreCalls DEF FormCall
<1> HIDE DEF e
<1>3. /\ \A O : e.op \notin O => Keeps(calls, Append(calls, e), O)
      /\ \A O : e.op \in O => Asks(calls, Append(calls, e), O, e)
  BY <1>1, <1>2, Sending
<1>4. /\ \A O : e.op \notin O => Keeps(calls, calls', O)
      /\ \A O : e.op \in O => Asks(calls, calls', O, e)
  BY Zenon, <1>1, <1>3
<1>5. /\ Keeps(calls, calls', {"plugins"}) /\ Asks(calls, calls', {"plugin"}, e)
      /\ Keeps(calls, calls', PluginChanges)
  BY <1>2, <1>4 DEF PluginChanges
<1>6. /\ form'.type = y /\ form' = [x \in FormFields |-> form'[x]]
      /\ form'.latest # "shown"
      /\ form'.latest = "pending" => Pend(calls, PluginChanges) = {}
  BY <1>1, ChangingIsPend DEF FormLoads, NoForm, FormFields, Unless
<1>7. y # None
  BY PluginAssumption
<1> SUFFICES ASSUME UNCHANGED <<currentTeam, dbPlugins, plugins>>
             PROVE  StoreInv' /\ FormInv'
  BY <1>1, <1>6 DEF PluginShape
<1>8. StoreInv'
  BY <1>5, <1>6, <1>7, StoreRests DEF OnPlugins
<1>9. FormInv'
  <2>1. form'.latest = "pending" => Pend(calls', PluginChanges) = {}
    BY <1>5, <1>6, NoneKept
  <2> QED  BY <1>2, <1>5, <1>6, <2>1, FormAsked
<1> QED  BY <1>8, <1>9

(* A change is sent, from the form.                                         *)
LEMMA PluginChangeIsSent ==
  ASSUME TeamsInv, PluginShape, StoreInv, FormInv, UNCHANGED area,
         currentTeam # None, form.type # None,
         NEW c, IsCall(c), c.op \in PluginChanges, c.team = currentTeam,
         c.type = form.type, c.mine, c.reply = NoReply, Change(c)
  PROVE  PluginShape' /\ StoreInv' /\ FormInv'
<1>1. /\ calls' = Append(calls, c) /\ AllCalls(calls) /\ currentTeam \in Teams
      /\ UNCHANGED <<currentTeam, dbPlugins>>
  BY DEF Change, TeamsInv, teamVars
<1>2. /\ \A x \in FormFields \ {"latest"} : form'[x] = form[x]
      /\ form' = [x \in FormFields |-> form'[x]]
      /\ form'.latest = Unless(Changing # {} \/ Pending("plugin") # {}, form.latest)
  BY DEF Change, FormAfterChange, PluginShape, FormFields
<1>3. /\ \A x \in StoreFields \ {"latest"} : plugins'[x] = plugins[x]
      /\ plugins' = [x \in StoreFields |-> plugins'[x]]
      /\ plugins'.latest = Unless(Changing # {} \/ Pending("plugins") # {}
                                    \/ plugins.team # currentTeam, plugins.latest)
  BY DEF Change, StoreAfterChange, PluginShape, StoreFields
<1>4. /\ \A O : c.op \notin O => Keeps(calls, Append(calls, c), O)
      /\ \A O : c.op \in O => Asks(calls, Append(calls, c), O, c)
  BY <1>1, Sending
<1>5. /\ \A O : c.op \notin O => Keeps(calls, calls', O)
      /\ \A O : c.op \in O => Asks(calls, calls', O, c)
  BY Zenon, <1>1, <1>4
<1>6. /\ Keeps(calls, calls', {"plugins"}) /\ Keeps(calls, calls', {"plugin"})
      /\ Asks(calls, calls', PluginChanges, c)
  BY <1>5 DEF PluginChanges
<1> SUFFICES ASSUME UNCHANGED <<currentTeam, dbPlugins>>, currentTeam \in Teams
             PROVE  StoreInv' /\ FormInv'
  BY <1>1, <1>2, <1>3 DEF PluginShape
<1>7. /\ \A O \in {{"plugins"}, {"plugin"}} : Pend(calls', O) = {} <=> Pend(calls, O) = {}
      /\ Pend(calls', PluginChanges) # {}
  BY <1>6, NoneKept, SomeKept DEF Asks
<1>8. StoreInv'
  <2>1. plugins'.latest # "pending"
    BY <1>3, ChangingIsPend, ClientAssumption DEF Unless, StoreInv, StoreWaits
  <2>2. ASSUME plugins'.latest = "shown"  PROVE StoreShows'
    <3>1. /\ plugins.latest = "shown" /\ Pend(calls, PluginChanges) = {}
          /\ Pend(calls, {"plugins"}) = {} /\ plugins.team = currentTeam
      BY <1>3, <2>2, ChangingIsPend DEF Unless
    <3>2. /\ plugins'.team = plugins.team /\ plugins'.rows = plugins.rows
          /\ plugins.rows = dbPlugins[currentTeam]
      BY <1>3, <3>1 DEF StoreFields, StoreInv, StoreShows
    <3>3. /\ Alone(calls', PluginChanges)
          /\ \A j \in Pend(calls', PluginChanges) : calls'[j] = c
      BY <1>6, <3>1 DEF Asks
    <3> QED
      BY <1>7, <3>1, <3>2, <3>3 DEF StoreShows, ChangesStore
  <2>3. plugins'.loading = plugins.loading
    BY <1>3 DEF StoreFields
  <2> QED  BY <1>7, <2>1, <2>2, <2>3 DEF StoreInv
<1>9. FormInv'
  <2>1. form'.latest # "pending"
    BY <1>2, ChangingIsPend DEF Unless, FormInv, FormWaits
  <2>2. /\ form'.type = form.type /\ form'.team = form.team
        /\ form'.configured = form.configured /\ form'.loading = form.loading
    BY <1>2 DEF FormFields
  <2>3. ASSUME form'.latest = "shown"  PROVE FormShowsIt'
    <3>1. /\ form.latest = "shown" /\ Pend(calls, PluginChanges) = {}
          /\ Pend(calls, {"plugin"}) = {}
      BY <1>2, <2>3, ChangingIsPend DEF Unless
    <3>2. /\ form.team = currentTeam
          /\ form.configured <=> form.type \in dbPlugins[currentTeam]
      BY <3>1 DEF FormInv, FormShowsIt
    <3>3. /\ Alone(calls', PluginChanges)
          /\ \A j \in Pend(calls', PluginChanges) : calls'[j] = c
      BY <1>6, <3>1 DEF Asks
    <3> QED
      BY <1>7, <2>2, <3>1, <3>2, <3>3 DEF FormShowsIt, ChangesForm
  <2> QED  BY <1>7, <2>1, <2>2, <2>3 DEF FormInv
<1> QED  BY <1>8, <1>9

LEMMA PluginClicksKeep ==
  ASSUME TeamsInv, PluginShape, StoreInv, FormInv, UNCHANGED area, area = "plugins",
         PluginClicks
  PROVE  PluginShape' /\ StoreInv' /\ FormInv'
<1>1. CASE \E y \in Types : OpenPlugin(y)
  BY <1>1, OpenPluginKeeps
<1>2. CASE \E filled \in BOOLEAN : TypeKey(filled)
  <2>1. /\ UNCHANGED <<calls, currentTeam, dbPlugins, plugins>>
        /\ \A x \in FormFields \ {"filled"} : form'[x] = form[x]
        /\ form' = [x \in FormFields |-> form'[x]]
    BY <1>2 DEF TypeKey, PluginShape, FormFields, teamVars
  <2>2. /\ form'.type = form.type /\ form'.team = form.team
        /\ form'.configured = form.configured /\ form'.loading = form.loading
        /\ form'.latest = form.latest
    BY <2>1 DEF FormFields
  <2>3. StoreInv'
    BY <2>1, <2>2, KeepsItself, StoreRests DEF OnPlugins
  <2>4. FormWaits => FormWaits'
    BY <2>1, <2>2 DEF FormWaits, ReadsForm
  <2>5. FormShowsIt => FormShowsIt'
    BY <2>1, <2>2 DEF FormShowsIt, ChangesForm
  <2>6. FormInv'
    BY <2>1, <2>2, <2>4, <2>5 DEF FormInv
  <2> QED  BY <2>1, <2>3, <2>6 DEF PluginShape
<1>3. CASE BackToPlugins
  <2>1. /\ currentTeam \in Teams /\ AllCalls(calls) /\ form' = NoForm
        /\ UNCHANGED <<currentTeam, dbPlugins>> /\ plugins' = Loading
        /\ calls' = Orphaned(calls) \o ListPluginsCall(currentTeam)
    BY <1>3 DEF BackToPlugins, FetchPlugins, TeamsInv, teamVars
  <2>2. StoreInv' /\ FormInv'
    BY <2>1, Loads, BackOnPlugins
  <2> QED  BY <2>1, <2>2, Loads DEF PluginShape, NoForm, FormFields
<1>4. CASE HandleSave \/ HandleDelete
  <2>1. PICK o \in PluginChanges :
          /\ currentTeam # None /\ form.type # None
          /\ Change([op |-> o, team |-> currentTeam, type |-> form.type,
                     mine |-> TRUE, reply |-> NoReply])
    BY <1>4 DEF HandleSave, HandleDelete, PluginChanges
  <2> DEFINE c == [op |-> o, team |-> currentTeam, type |-> form.type,
                   mine |-> TRUE, reply |-> NoReply]
  <2>2. IsCall(c) /\ c.op = o
    BY <2>1 DEF IsCall, TeamsInv, PluginChanges
  <2>3. Change(c) /\ c.team = currentTeam /\ c.type = form.type /\ c.mine /\ c.reply = NoReply
    BY <2>1
  <2> HIDE DEF c
  <2> QED  BY <2>1, <2>2, <2>3, PluginChangeIsSent
<1> QED  BY <1>1, <1>2, <1>3, <1>4 DEF PluginClicks

(* The server answers a list or a form; it makes a change.                  *)
LEMMA PluginsAreServed ==
  ASSUME TeamsInv, PluginShape, StoreInv, FormInv, UNCHANGED area,
         NEW i \in DOMAIN calls, ServePlugins(i) \/ ServePlugin(i)
  PROVE  PluginShape' /\ StoreInv' /\ FormInv'
<1> DEFINE c == calls[i]  t == calls[i].team
<1>1. PICK r :
        /\ Reply(i, r)
        /\ \/ c.op = "plugins" /\ r.rows = dbPlugins[t]
           \/ c.op = "plugin" /\ r.found = (c.type \in dbPlugins[t])
  <2>1. CASE ServePlugins(i)
    <3> DEFINE r == [rows |-> dbPlugins[t]]
    <3>1. r.rows = dbPlugins[t]
      OBVIOUS
    <3>2. c.op = "plugins" /\ Reply(i, [rows |-> dbPlugins[t]])
      BY <2>1 DEF ServePlugins, Pending
    <3>3. r = [rows |-> dbPlugins[t]]
      OBVIOUS
    <3> HIDE DEF r
    <3>4. Reply(i, r)
      BY Zenon, <3>2, <3>3
    <3> QED  BY Zenon, <3>1, <3>2, <3>4
  <2>2. CASE ServePlugin(i)
    <3> DEFINE r == [found |-> c.type \in dbPlugins[t]]
    <3>1. r.found = (c.type \in dbPlugins[t])
      BY Zenon
    <3>2. c.op = "plugin" /\ Reply(i, [found |-> c.type \in dbPlugins[t]])
      BY <2>2 DEF ServePlugin, Pending
    <3>3. r = [found |-> c.type \in dbPlugins[t]]
      BY Zenon
    <3> HIDE DEF r
    <3>4. Reply(i, r)
      BY Zenon, <3>2, <3>3
    <3> QED  BY Zenon, <3>1, <3>2, <3>4
  <2> QED  BY <2>1, <2>2
<1>2. UNCHANGED <<currentTeam, dbPlugins, plugins, form>> /\ AllCalls(calls)
  BY DEF ServePlugins, ServePlugin, teamVars, pluginVars, TeamsInv
<1>3. /\ \A O : Pend(calls', O) = Pend(calls, O)
      /\ \A j \in DOMAIN calls : j # i => calls'[j] = calls[j]
      /\ calls'[i].reply = r /\ calls'[i].op = c.op
      /\ \A x \in DOMAIN c : x # "reply" => calls'[i][x] = c[x]
  BY <1>1, <1>2, Replying
<1>4. calls'[i].team = t /\ (c.op = "plugin" => calls'[i].type = c.type)
  BY <1>2, <1>3 DEF AllCalls, IsCall
<1>5. \A j \in Pend(calls, PluginChanges) : calls'[j] = calls[j]
  BY <1>1, <1>3 DEF Pend, PluginChanges
<1>6. \A O : Alone(calls, O) => Alone(calls', O)
  BY <1>3 DEF Alone
<1>7. ASSUME StoreWaits  PROVE StoreWaits'
  <2>1. ASSUME NEW j \in Pend(calls', {"plugins"}), Newest(calls', j, {"plugins"})
        PROVE  ReadsPlugins(calls[j])
    BY <1>3, <1>7, <2>1 DEF StoreWaits, Newest
  <2>2. ASSUME NEW j \in Pend(calls', {"plugins"}), Newest(calls', j, {"plugins"})
        PROVE  /\ OnPlugins' => calls'[j].team = currentTeam
               /\ calls'[j].reply # NoReply => calls'[j].reply.rows = dbPlugins[calls'[j].team]
    <3>1. j \in DOMAIN calls /\ calls[j].op = "plugins"
      BY <1>3 DEF Pend
    <3>2. OnPlugins' <=> OnPlugins
      BY <1>2 DEF OnPlugins
    <3>3. CASE j = i
      BY <1>1, <1>3, <1>4, <2>1, <2>2, <3>1, <3>2, <3>3 DEF ReadsPlugins
    <3>4. CASE j # i
      BY <1>3, <2>1, <2>2, <3>1, <3>2, <3>4 DEF ReadsPlugins
    <3> QED  BY <3>3, <3>4
  <2> QED  BY <1>2, <1>3, <1>7, <2>2 DEF StoreWaits, ReadsPlugins
<1>8. ASSUME StoreShows  PROVE StoreShows'
  <2>1. ASSUME NEW j \in Pend(calls', PluginChanges), Pend(calls', PluginChanges) # {}
        PROVE  calls'[j] = calls[j] /\ ChangesStore(calls[j])
    BY <1>3, <1>5, <1>8, <2>1 DEF StoreShows
  <2>2. OnPlugins' <=> OnPlugins
    BY <1>2 DEF OnPlugins
  <2>3. /\ Pend(calls', PluginChanges) = Pend(calls, PluginChanges)
        /\ Pend(calls', {"plugins"}) = Pend(calls, {"plugins"})
        /\ Alone(calls, PluginChanges) => Alone(calls', PluginChanges)
    BY <1>3, <1>6
  <2>5. dbPlugins' = dbPlugins /\ plugins' = plugins
    BY <1>2
  <2>6. ASSUME NEW d, NEW e, e = d, ChangesStore(d)
        PROVE  /\ e.team = plugins'.team
               /\ dbPlugins'[plugins'.team] =
                    IF e.reply = NoReply THEN plugins'.rows
                    ELSE IF e.op = "upsert" THEN plugins'.rows \cup {e.type}
                    ELSE plugins'.rows \ {e.type}
    BY <2>5, <2>6 DEF ChangesStore
  <2>4. ASSUME NEW j \in Pend(calls', PluginChanges), Pend(calls', PluginChanges) # {}
        PROVE  ChangesStore(calls[j])'
    <3>1. calls'[j] = calls[j] /\ ChangesStore(calls[j])
      BY Zenon, <2>1, <2>4
    <3> DEFINE e == calls'[j]
    <3>2. /\ e.team = plugins'.team
          /\ dbPlugins'[plugins'.team] =
               IF e.reply = NoReply THEN plugins'.rows
               ELSE IF e.op = "upsert" THEN plugins'.rows \cup {e.type}
               ELSE plugins'.rows \ {e.type}
      <4> HIDE DEF e
      <4> QED  BY Zenon, <2>6, <3>1 DEF e
    <3> QED  BY Zenon, <3>2 DEF ChangesStore
  <2> QED  BY <1>2, <1>8, <2>2, <2>3, <2>4 DEF StoreShows
<1>9. ASSUME FormWaits  PROVE FormWaits'
  <2>1. ASSUME NEW j \in Pend(calls', {"plugin"}), Newest(calls', j, {"plugin"})
        PROVE  ReadsForm(calls[j])
    BY <1>3, <1>9, <2>1 DEF FormWaits, Newest
  <2>2. ASSUME NEW j \in Pend(calls', {"plugin"}), Newest(calls', j, {"plugin"})
        PROVE  /\ calls'[j].team = currentTeam /\ calls'[j].type = form.type
               /\ calls'[j].reply # NoReply =>
                    (calls'[j].reply.found <=> form.type \in dbPlugins[currentTeam])
    <3>1. j \in DOMAIN calls /\ calls[j].op = "plugin"
      BY <1>3 DEF Pend
    <3>2. CASE j = i
      BY <1>1, <1>3, <1>4, <2>1, <2>2, <3>1, <3>2 DEF ReadsForm
    <3>3. CASE j # i
      BY <1>3, <2>1, <2>2, <3>1, <3>3 DEF ReadsForm
    <3> QED  BY <3>2, <3>3
  <2> QED  BY <1>2, <1>3, <1>9, <2>2 DEF FormWaits, ReadsForm
<1>10. ASSUME FormShowsIt  PROVE FormShowsIt'
  <2>1. ASSUME NEW j \in Pend(calls', PluginChanges), Pend(calls', PluginChanges) # {}
        PROVE  calls'[j] = calls[j] /\ ChangesForm(calls[j])
    BY <1>3, <1>5, <1>10, <2>1 DEF FormShowsIt
  <2> QED  BY <1>2, <1>3, <1>6, <1>10, <2>1 DEF FormShowsIt, ChangesForm
<1>11. StoreInv'
  BY <1>2, <1>3, <1>7, <1>8 DEF StoreInv
<1>12. FormInv'
  BY <1>2, <1>3, <1>5, <1>9, <1>10 DEF FormInv
<1> QED  BY <1>2, <1>11, <1>12 DEF PluginShape

LEMMA PluginChangeIsServed ==
  ASSUME TeamsInv, PluginShape, StoreInv, FormInv, UNCHANGED area,
         NEW i \in DOMAIN calls, ServeUpsert(i) \/ ServeDeletePlugin(i)
  PROVE  PluginShape' /\ StoreInv' /\ FormInv'
<1> DEFINE c == calls[i]  t == calls[i].team
<1>1. /\ UNCHANGED <<currentTeam, plugins, form>> /\ AllCalls(calls)
      /\ i \in Pend(calls, PluginChanges) /\ c.op \in PluginChanges
      /\ c.reply = NoReply /\ c.type \in Types
  BY PluginAssumption
     DEF ServeUpsert, ServeDeletePlugin, teamVars, TeamsInv, Pending, Pend,
         PluginChanges, Served
<1>2. t \in Teams
  BY <1>1 DEF AllCalls, IsCall, PluginChanges
<1>3. PICK r :
        /\ Reply(i, r) /\ r # NoReply
        /\ \/ c.op = "upsert" /\ dbPlugins' = [dbPlugins EXCEPT ![t] = @ \cup {c.type}]
           \/ c.op = "deletePlugin" /\ dbPlugins' = [dbPlugins EXCEPT ![t] = @ \ {c.type}]
  <2>1. [saved |-> c.type] # NoReply /\ [deleted |-> c.type] # NoReply
    BY <1>1, ChangesAreAnswered
  <2> QED
    BY Zenon, <2>1 DEF ServeUpsert, ServeDeletePlugin, Pending
<1>4. /\ \A O : Pend(calls', O) = Pend(calls, O)
      /\ \A j \in DOMAIN calls : j # i => calls'[j] = calls[j]
      /\ calls'[i].reply = r /\ calls'[i].op = c.op
      /\ \A x \in DOMAIN c : x # "reply" => calls'[i][x] = c[x]
  BY <1>1, <1>3, Replying
<1>5. calls'[i].team = t /\ calls'[i].type = c.type /\ calls'[i].mine = c.mine
  BY <1>1, <1>4 DEF AllCalls, IsCall, PluginChanges
<1>6. /\ dbPlugins' = [s \in Teams |-> dbPlugins'[s]]
      /\ dbPlugins'[t] = IF c.op = "upsert" THEN dbPlugins[t] \cup {c.type}
                                            ELSE dbPlugins[t] \ {c.type}
  BY <1>2, <1>3 DEF PluginShape
<1>7. plugins.latest # "pending" /\ (form.type # None => form.latest # "pending")
  BY <1>1 DEF StoreInv, StoreWaits, FormInv, FormWaits
<1>8. ASSUME plugins.latest = "shown"  PROVE StoreShows'
  <2>1. /\ StoreShows /\ ChangesStore(c) /\ Alone(calls, PluginChanges)
        /\ Pend(calls, {"plugins"}) = {}
    BY <1>1, <1>8 DEF StoreInv, StoreShows
  <2>2. /\ Alone(calls', PluginChanges) /\ Pend(calls', {"plugins"}) = {}
        /\ Pend(calls', PluginChanges) # {}
        /\ \A j \in Pend(calls', PluginChanges) : j = i
    BY <1>1, <1>4, <2>1 DEF Alone
  <2>3. t = plugins.team /\ dbPlugins[t] = plugins.rows
    BY <1>1, <2>1 DEF ChangesStore
  <2>4. ASSUME NEW d, d.team = t, d.reply = r, d.op = c.op, d.type = c.type
        PROVE  ChangesStore(d)'
    BY <1>1, <1>3, <1>6, <2>3, <2>4 DEF ChangesStore
  <2>5. ASSUME NEW j \in Pend(calls', PluginChanges)
        PROVE  ChangesStore(calls[j])'
    BY <1>4, <1>5, <2>2, <2>4
  <2>6. plugins'.team \in Teams /\ (OnPlugins' => plugins'.team = currentTeam')
    BY <1>1, <2>1 DEF StoreShows, OnPlugins
  <2> QED  BY <2>2, <2>5, <2>6 DEF StoreShows
<1>9. ASSUME form.latest = "shown"  PROVE FormShowsIt'
  <2>1. /\ FormShowsIt /\ ChangesForm(c) /\ Alone(calls, PluginChanges)
        /\ Pend(calls, {"plugin"}) = {}
    BY <1>1, <1>9 DEF FormInv, FormShowsIt
  <2>2. /\ Alone(calls', PluginChanges) /\ Pend(calls', {"plugin"}) = {}
        /\ Pend(calls', PluginChanges) # {}
        /\ \A j \in Pend(calls', PluginChanges) : j = i
    BY <1>1, <1>4, <2>1 DEF Alone
  <2>3. t = currentTeam /\ c.type = form.type /\ c.mine
    BY <1>1, <2>1 DEF ChangesForm
  <2>4. ASSUME NEW d, d.team = t, d.reply = r, d.op = c.op, d.type = c.type, d.mine
        PROVE  ChangesForm(d)'
    BY <1>1, <1>3, <1>6, <2>3, <2>4 DEF ChangesForm
  <2>5. ASSUME NEW j \in Pend(calls', PluginChanges)
        PROVE  ChangesForm(calls[j])'
    BY <1>4, <1>5, <2>2, <2>3, <2>4
  <2>6. form'.type # None /\ form'.team = currentTeam'
    BY <1>1, <2>1 DEF FormShowsIt
  <2> QED  BY <2>2, <2>5, <2>6 DEF FormShowsIt
<1>10. StoreInv'
  BY <1>1, <1>4, <1>7, <1>8 DEF StoreInv
<1>11. FormInv'
  <2>1. ASSUME form.type = None, NEW j \in Pend(calls', PluginChanges)
        PROVE  ~calls'[j].mine
    <3>1. j \in Pend(calls, PluginChanges) /\ ~calls[j].mine
      BY <1>4, <2>1 DEF FormInv
    <3> QED  BY <1>4, <1>5, <3>1 DEF Pend
  <2> QED  BY <1>1, <1>4, <1>7, <1>9, <2>1 DEF FormInv
<1> QED  BY <1>1, <1>6, <1>10, <1>11 DEF PluginShape

(* A list arrives, or fails to.                                             *)
LEMMA PluginsAreRead ==
  ASSUME TeamsInv, PluginShape, StoreInv, FormInv, UNCHANGED area,
         NEW i \in DOMAIN calls, FetchPluginsSucceeds(i) \/ FetchPluginsFails(i)
  PROVE  PluginShape' /\ StoreInv' /\ FormInv'
<1> DEFINE c == calls[i]
<1>1. /\ UNCHANGED <<currentTeam, dbPlugins, form>>
      /\ i \in Pend(calls, {"plugins"}) /\ c.op = "plugins"
      /\ calls' = RemoveAt(calls, i) /\ AllCalls(calls)
  BY DEF FetchPluginsSucceeds, FetchPluginsFails, Pending, Pend, Others, teamVars,
         TeamsInv
<1>2. /\ Loses(calls, calls', {"plugins"}, i) /\ Keeps(calls, calls', {"plugin"})
      /\ Keeps(calls, calls', PluginChanges)
  BY <1>1, Removing DEF PluginChanges
<1>3. IsNewest(i) <=> Newest(calls, i, {"plugins"})
  BY <1>1 DEF IsNewest, Newest, Pending, Pend
<1>4. c.team \in Teams
  BY <1>1 DEF AllCalls, IsCall
<1>5. plugins'.loading = FALSE /\ plugins' = [x \in StoreFields |-> plugins'[x]]
  BY DEF FetchPluginsSucceeds, FetchPluginsFails, PluginShape, StoreFields
<1>6. plugins'.latest = "pending"
        => plugins.latest = "pending" /\ ~Newest(calls, i, {"plugins"})
  BY <1>3 DEF FetchPluginsSucceeds, FetchPluginsFails, PluginShape, StoreFields,
              Fate, FateOfFailed
<1>7. OnPlugins' <=> OnPlugins
  BY <1>1 DEF OnPlugins
<1>8. FormInv'
  BY <1>1, <1>2, FormRests
<1>9. ASSUME plugins.latest = "pending", ~Newest(calls, i, {"plugins"})
      PROVE  StoreWaits'
  <2>1. Pend(calls', PluginChanges) = {}
    BY <1>2, <1>9, NoneKept DEF StoreInv, StoreWaits
  <2>2. PICK j \in Pend(calls, {"plugins"}) : ~(j <= i)
    BY <1>9 DEF Newest
  <2>3. DOMAIN calls \subseteq Nat
    BY <1>1, Numbered DEF AllCalls
  <2>4. j \in Pend(calls, {"plugins"}) \ {i}
    BY <1>1, <2>2, <2>3 DEF Pend
  <2>5. Pend(calls', {"plugins"}) # {}
    BY <1>2, <2>4 DEF Loses
  <2>6. ASSUME NEW k \in Pend(calls', {"plugins"}), Newest(calls', k, {"plugins"})
        PROVE  ReadsPlugins(calls'[k])
    BY <1>2, <1>9, <2>6 DEF Loses, StoreInv, StoreWaits
  <2> QED  BY <1>1, <1>7, <2>1, <2>5, <2>6 DEF StoreWaits, ReadsPlugins
<1>10. ASSUME plugins'.latest = "shown"  PROVE StoreShows'
  <2>1. Pend(calls, PluginChanges) = {} /\ Pend(calls', PluginChanges) = {}
    <3>1. plugins.latest \in {"pending", "shown"}
      BY <1>10 DEF FetchPluginsSucceeds, FetchPluginsFails, PluginShape, StoreFields,
                   Fate, FateOfFailed
    <3> QED  BY <1>1, <1>2, <3>1, NoneKept DEF StoreInv, StoreWaits, StoreShows
  <2>2. CASE FetchPluginsSucceeds(i)
    <3>1. /\ c.reply # NoReply /\ plugins'.team = c.team
          /\ plugins'.rows = c.reply.rows /\ plugins'.latest = Fate(plugins.latest, i)
      BY <2>2 DEF FetchPluginsSucceeds, PluginShape, StoreFields, Served
    <3>2. plugins.latest = "pending" /\ Newest(calls, i, {"plugins"})
      BY <1>3, <1>10, <3>1 DEF Fate
    <3>3. ReadsPlugins(c)
      BY <1>1, <3>2 DEF StoreInv, StoreWaits
    <3>4. /\ plugins'.team \in Teams /\ (OnPlugins' => plugins'.team = currentTeam')
          /\ plugins'.rows = dbPlugins'[plugins'.team]
      BY <1>1, <1>4, <1>7, <3>1, <3>3 DEF ReadsPlugins
    <3> QED  BY <2>1, <3>4 DEF StoreShows
  <2>3. CASE FetchPluginsFails(i)
    <3>1. /\ plugins'.team = plugins.team /\ plugins'.rows = plugins.rows
          /\ plugins'.latest = FateOfFailed(plugins.latest, i)
      BY <2>3 DEF FetchPluginsFails, PluginShape, StoreFields
    <3>2. plugins.latest = "shown"
      BY <1>10, <3>1 DEF FateOfFailed
    <3> QED  BY <1>1, <1>7, <2>1, <3>1, <3>2 DEF StoreInv, StoreShows
  <2> QED  BY <2>2, <2>3
<1>11. StoreInv'
  BY <1>5, <1>6, <1>9, <1>10 DEF StoreInv
<1> QED  BY <1>1, <1>5, <1>8, <1>11 DEF PluginShape

(* So does a form.                                                          *)
LEMMA PluginIsRead ==
  ASSUME TeamsInv, PluginShape, StoreInv, FormInv, UNCHANGED area,
         NEW i \in DOMAIN calls, FetchPluginSucceeds(i) \/ FetchPluginFails(i)
  PROVE  PluginShape' /\ StoreInv' /\ FormInv'
<1> DEFINE c == calls[i]
<1>1. /\ UNCHANGED <<currentTeam, dbPlugins, plugins>>
      /\ i \in Pend(calls, {"plugin"}) /\ c.op = "plugin"
      /\ calls' = RemoveAt(calls, i) /\ AllCalls(calls)
  BY DEF FetchPluginSucceeds, FetchPluginFails, Pending, Pend, Others, teamVars,
         TeamsInv
<1>2. /\ Loses(calls, calls', {"plugin"}, i) /\ Keeps(calls, calls', {"plugins"})
      /\ Keeps(calls, calls', PluginChanges)
  BY <1>1, Removing DEF PluginChanges
<1>3. IsNewest(i) <=> Newest(calls, i, {"plugin"})
  BY <1>1 DEF IsNewest, Newest, Pending, Pend
<1>4. /\ form.type # None /\ form.type \in Types /\ area = "plugins"
  BY <1>1 DEF FormInv
<1>5. /\ form'.type = form.type /\ form'.loading = FALSE
      /\ form' = [x \in FormFields |-> form'[x]]
  BY DEF FetchPluginSucceeds, FetchPluginFails, FormShows, PluginShape, FormFields
<1>6. \/ FetchPluginSucceeds(i) /\ form'.latest = Fate(form.latest, i)
      \/ form'.latest = "stale"
  <2>1. CASE FetchPluginSucceeds(i)
    <3>1. form'.latest = Fate(form.latest, i)
      BY <2>1 DEF FetchPluginSucceeds, FormShows, PluginShape, FormFields
    <3> QED  BY <2>1, <3>1
  <2>2. CASE FetchPluginFails(i)
    BY <2>2 DEF FetchPluginFails, FormShows, PluginShape, FormFields
  <2> QED  BY <2>1, <2>2
<1>7. form'.latest = "pending"
        => form.latest = "pending" /\ ~Newest(calls, i, {"plugin"})
  BY <1>3, <1>6 DEF Fate
<1>8. StoreInv'
  BY <1>1, <1>2, <1>5, StoreRests DEF OnPlugins
<1>9. ASSUME form.latest = "pending", ~Newest(calls, i, {"plugin"})
      PROVE  FormWaits'
  <2>1. Pend(calls', PluginChanges) = {}
    BY <1>2, <1>4, <1>9, NoneKept DEF FormInv, FormWaits
  <2>2. PICK j \in Pend(calls, {"plugin"}) : ~(j <= i)
    BY <1>9 DEF Newest
  <2>3. DOMAIN calls \subseteq Nat
    BY <1>1, Numbered DEF AllCalls
  <2>4. j \in Pend(calls, {"plugin"}) \ {i}
    BY <1>1, <2>2, <2>3 DEF Pend
  <2>5. Pend(calls', {"plugin"}) # {}
    BY <1>2, <2>4 DEF Loses
  <2>6. ASSUME NEW k \in Pend(calls', {"plugin"}), Newest(calls', k, {"plugin"})
        PROVE  ReadsForm(calls'[k])
    BY <1>2, <1>4, <1>9, <2>6 DEF Loses, FormInv, FormWaits
  <2> QED  BY <1>1, <1>5, <2>1, <2>5, <2>6 DEF FormWaits, ReadsForm
<1>10. ASSUME form'.latest = "shown"  PROVE FormShowsIt'
  <2>1. /\ FetchPluginSucceeds(i) /\ form.latest = "pending"
        /\ Newest(calls, i, {"plugin"})
    BY <1>3, <1>6, <1>10 DEF Fate
  <2>2. /\ c.reply # NoReply /\ form'.team = c.team
        /\ form'.configured = c.reply.found
    BY <2>1 DEF FetchPluginSucceeds, FormShows, PluginShape, FormFields, Served
  <2>3. ReadsForm(c) /\ Pend(calls, PluginChanges) = {}
    BY <1>1, <1>4, <2>1 DEF FormInv, FormWaits
  <2>4. Pend(calls', PluginChanges) = {}
    BY <1>2, <2>3, NoneKept
  <2>5. /\ form'.team = currentTeam
        /\ form'.configured <=> form.type \in dbPlugins[currentTeam]
    BY <2>2, <2>3 DEF ReadsForm
  <2> QED  BY <1>1, <1>4, <1>5, <2>4, <2>5 DEF FormShowsIt
<1>11. FormInv'
  BY <1>4, <1>5, <1>7, <1>9, <1>10 DEF FormInv
<1> QED  BY <1>1, <1>5, <1>8, <1>11 DEF PluginShape

(* The answer to a change arrives, and everybody stays where they are.      *)
LEMMA PluginChangeIsAnswered ==
  ASSUME TeamsInv, PluginShape, StoreInv, FormInv, UNCHANGED area,
         NEW i \in DOMAIN calls,
         \/ UpsertSucceeds(i) \/ PluginChangeFails(i)
         \/ DeletePluginSucceeds(i) /\ form.type = None
  PROVE  PluginShape' /\ StoreInv' /\ FormInv'
<1> DEFINE c == calls[i]
<1>1. /\ UNCHANGED <<currentTeam, dbPlugins>>
      /\ i \in Pend(calls, PluginChanges) /\ c.op \in PluginChanges
      /\ calls' = RemoveAt(calls, i) /\ AllCalls(calls)
  BY DEF UpsertSucceeds, PluginChangeFails, DeletePluginSucceeds, Pending, Pend,
         Others, Changing, PluginChanges, teamVars, TeamsInv
<1>2. /\ Loses(calls, calls', PluginChanges, i) /\ Keeps(calls, calls', {"plugins"})
      /\ Keeps(calls, calls', {"plugin"})
  BY <1>1, Removing DEF PluginChanges
<1>3. /\ plugins' = [x \in StoreFields |-> plugins'[x]]
      /\ plugins'.loading = plugins.loading /\ plugins'.team = plugins.team
      /\ plugins'.latest = plugins.latest \/ plugins'.latest = "stale"
  BY DEF UpsertSucceeds, PluginChangeFails, DeletePluginSucceeds, PluginShape,
         StoreFields
<1>4. /\ form' = [x \in FormFields |-> form'[x]] /\ form'.type = form.type
      /\ form.type # None =>
           /\ form'.loading = form.loading /\ form'.team = form.team
           /\ form'.latest = form.latest \/ form'.latest = "stale"
      /\ form.type = None => form'.latest = form.latest \/ form'.latest # "shown"
  BY DEF UpsertSucceeds, PluginChangeFails, DeletePluginSucceeds, PluginShape,
         FormFields, NoForm
<1>5. plugins.latest # "pending" /\ (form.type # None => form.latest # "pending")
  BY <1>1 DEF StoreInv, StoreWaits, FormInv, FormWaits
<1>6. Alone(calls, PluginChanges) => Pend(calls', PluginChanges) = {}
  BY <1>1, <1>2 DEF Alone, Loses
<1>7. OnPlugins' <=> OnPlugins
  BY <1>1, <1>4 DEF OnPlugins
<1>8. /\ Pend(calls, {"plugins"}) # {} => Pend(calls', {"plugins"}) # {}
      /\ Pend(calls, {"plugin"}) # {} => Pend(calls', {"plugin"}) # {}
      /\ Pend(calls, {"plugin"}) = {} => Pend(calls', {"plugin"}) = {}
  BY <1>2, NoneKept, SomeKept
<1>9. ASSUME plugins'.latest = "shown"  PROVE StoreShows'
  <2>1. /\ plugins.latest = "shown" /\ StoreShows /\ ChangesStore(c)
        /\ Alone(calls, PluginChanges)
    BY <1>1, <1>3, <1>9 DEF StoreInv, StoreShows
  <2>2. /\ c.reply # NoReply
        /\ plugins'.rows = IF c.op = "upsert" THEN plugins.rows \cup {c.type}
                                              ELSE plugins.rows \ {c.type}
    BY <1>9 DEF UpsertSucceeds, PluginChangeFails, DeletePluginSucceeds, Pending,
                Served, PluginShape, StoreFields
  <2>3. plugins'.rows = dbPlugins[plugins.team]
    BY <2>1, <2>2 DEF ChangesStore
  <2> QED  BY <1>1, <1>3, <1>6, <1>7, <2>1, <2>3 DEF StoreShows
<1>10. ASSUME form'.latest = "shown"  PROVE FormShowsIt'
  <2>1. /\ form.latest = "shown" /\ FormShowsIt /\ ChangesForm(c)
        /\ Alone(calls, PluginChanges) /\ form.type # None
    BY <1>1, <1>4, <1>10 DEF FormInv, FormShowsIt
  <2>2. c.reply # NoReply /\ c.op = "upsert" /\ (c.mine => form'.configured = TRUE)
    BY <1>10, <2>1 DEF UpsertSucceeds, PluginChangeFails, Pending, Served, PluginShape,
                FormFields
  <2>3. form.type \in dbPlugins[currentTeam] /\ form'.configured = TRUE
    BY <2>1, <2>2 DEF ChangesForm
  <2> QED  BY <1>1, <1>4, <1>6, <2>1, <2>3 DEF FormShowsIt
<1>11. StoreInv'
  BY <1>3, <1>5, <1>8, <1>9 DEF StoreInv
<1>12. FormInv'
  <2>1. ASSUME form.type = None, NEW j \in Pend(calls', PluginChanges)
        PROVE  ~calls'[j].mine
    BY <1>2, <2>1 DEF FormInv, Loses
  <2> QED  BY <1>4, <1>5, <1>8, <1>10, <2>1 DEF FormInv
<1> QED  BY <1>1, <1>3, <1>4, <1>11, <1>12 DEF PluginShape

(* Or the plugin is gone, and the list comes back.                          *)
LEMMA DeletedGoesBack ==
  ASSUME TeamsInv, PluginShape, StoreInv, FormInv, UNCHANGED area,
         NEW i \in DOMAIN calls, DeletePluginSucceeds(i), form.type # None
  PROVE  PluginShape' /\ StoreInv' /\ FormInv'
<1> DEFINE s == Others(i)
<1>1. /\ UNCHANGED <<currentTeam, dbPlugins>> /\ form' = NoForm
      /\ i \in Pend(calls, PluginChanges) /\ calls[i].op \in PluginChanges
      /\ calls' = Orphaned(s) \o ListPluginsCall(currentTeam)
      /\ AllCalls(calls) /\ currentTeam \in Teams
  BY DEF DeletePluginSucceeds, Pending, Pend, PluginChanges, teamVars, TeamsInv
<1>2. AllCalls(s) /\ Loses(calls, s, PluginChanges, i)
  BY <1>1, Removing DEF Others, Pend
<1>3. /\ plugins' = [x \in StoreFields |-> plugins'[x]]
      /\ plugins'.latest = Unless(Changing # {i}, "pending")
  BY DEF DeletePluginSucceeds, PluginShape, StoreFields
<1>4. plugins'.latest = "pending" => Pend(s, PluginChanges) = {}
  BY <1>2, <1>3, ChangingIsPend DEF Unless, Loses
<1>5. StoreInv' /\ FormInv'
  BY <1>1, <1>2, <1>3, <1>4, BackOnPlugins DEF Unless
<1> QED  BY <1>1, <1>3, <1>5 DEF PluginShape, NoForm, FormFields

(* The page that creates a monitor asks for the plugins.                    *)
LEMMA OpenNewKeeps ==
  ASSUME TeamsInv, PluginShape, StoreInv, FormInv, UNCHANGED area, area # "plugins",
         OpenNew
  PROVE  PluginShape' /\ StoreInv' /\ FormInv'
<1> DEFINE a == Abandoned(calls)  e == Read("plugins", currentTeam)
           M == {"toggle", "deleteMonitor"}
<1>1. /\ currentTeam \in Teams /\ UNCHANGED <<currentTeam, dbPlugins, form>>
      /\ plugins' = Loading /\ calls' = a \o <<e>> /\ AllCalls(calls)
  BY DEF OpenNew, FetchPlugins, ListPluginsCall, TeamsInv, teamVars
<1>2. IsCall(e) /\ e.op = "plugins" /\ e.team = currentTeam /\ e.reply = NoReply
  BY <1>1, CallsAreCalls
<1>3. Marks(calls, a, M)
  BY DEF Marks, Abandoned
<1> HIDE DEF a, e
<1>4. AllCalls(a) /\ \A O : O \cap M = {} => Keeps(calls, a, O)
  BY <1>1, <1>3, Marking
<1>5. /\ a \o <<e>> = Append(a, e)
      /\ \A O : e.op \notin O => Keeps(a, Append(a, e), O)
      /\ \A O : e.op \in O => Asks(a, Append(a, e), O, e)
  BY <1>2, <1>4, Sending
<1>6. /\ \A O : e.op \notin O => Keeps(a, calls', O)
      /\ \A O : e.op \in O => Asks(a, calls', O, e)
  BY Zenon, <1>1, <1>5
<1>7. \A O \in {{"plugin"}, PluginChanges} :
        Keeps(calls, a, O) /\ Keeps(a, calls', O)
  BY <1>2, <1>4, <1>6 DEF PluginChanges
<1>8. Keeps(calls, calls', {"plugin"}) /\ Keeps(calls, calls', PluginChanges)
  BY <1>7, KeepsOn
<1>9. Asks(a, calls', {"plugins"}, e)
  BY <1>2, <1>6
<1> SUFFICES ASSUME plugins' = Loading PROVE PluginShape' /\ StoreInv' /\ FormInv'
  BY <1>1
<1>10. FormInv'
  BY <1>1, <1>8, FormRests DEF FormInv
<1>11. plugins'.latest = "pending" => Pend(calls', PluginChanges) = {}
  BY <1>8, Loads, NoneKept
<1>12. StoreInv'
  BY <1>1, <1>2, <1>9, <1>11, Loads, StoreAsked
<1> QED  BY <1>1, <1>10, <1>12, Loads DEF PluginShape

LEMMA PluginsNext ==
  ASSUME TeamsInv, PluginShape, StoreInv, FormInv, area \in Areas \ {"session"},
         [Next]_vars
  PROVE  PluginShape' /\ StoreInv' /\ FormInv'
<1> DEFINE Kinds == {{"plugins"}, {"plugin"}, PluginChanges}
<1>1. area' = area
  BY Steps
<1>2. area # "plugins" => form.type = None
  BY DEF FormInv
<1>3. ASSUME UNCHANGED pluginVars, \A O \in Kinds : Keeps(calls, calls', O),
             UNCHANGED currentTeam \/ area # "plugins"
      PROVE  PluginShape' /\ StoreInv' /\ FormInv'
  <2>1. UNCHANGED <<dbPlugins, plugins, form>>
    BY <1>3 DEF pluginVars
  <2>2. StoreInv'
    BY <1>1, <1>3, <2>1, StoreRests DEF OnPlugins
  <2>3. FormInv'
    BY <1>1, <1>2, <1>3, <2>1, FormRests
  <2> QED  BY <2>1, <2>2, <2>3 DEF PluginShape
<1>4. CASE Undisturbed
  <2>1. \A O \in Kinds : Keeps(calls, calls', O)
    BY <1>4 DEF Undisturbed, Moved, TeamOps, PluginChanges
  <2> QED  BY <1>3, <1>4, <2>1 DEF Undisturbed, pageVars
<1>5. CASE Rerendered
  <2>1. CASE area = "plugins"
    BY <1>1, <1>5, <2>1, PluginsRerender
  <2>2. CASE area # "plugins"
    <3>1. UNCHANGED pluginVars
      BY <1>5, <2>2, Effects DEF pageVars
    <3>2. \A O \in Kinds : Keeps(calls, calls', O)
      BY <1>5, <2>2, RerenderedKeeps DEF TeamOps, IncidentOps, PluginChanges
    <3> QED  BY <1>3, <2>2, <3>1, <3>2
  <2> QED  BY <2>1, <2>2
<1>6. CASE GroupStep
  <2>1. CASE PluginStep
    <3>1. CASE area = "plugins" /\ PluginClicks
      BY <1>1, <3>1, PluginClicksKeep
    <3>2. CASE PluginServed
      BY <1>1, <3>2, PluginsAreServed, PluginChangeIsServed DEF PluginServed
    <3>3. CASE PluginAnswers
      BY <1>1, <3>3, PluginsAreRead, PluginIsRead, PluginChangeIsAnswered,
         DeletedGoesBack DEF PluginAnswers
    <3> QED  BY <2>1, <3>1, <3>2, <3>3 DEF PluginStep
  <2>2. CASE MonitorStep /\ OpensNew
    <3>1. area # "plugins" /\ OpenNew
      BY <2>2 DEF OpensNew
    <3> QED  BY <1>1, <2>2, <3>1, OpenNewKeeps
  <2>3. CASE MonitorStep /\ ~OpensNew
    <3>1. /\ UNCHANGED <<teamVars, dbPlugins, form, plugins>>
          /\ Moved(calls, calls', ListOps)
      BY <2>3, MonitorMoves, ListMoves
    <3>2. \A O \in Kinds : Keeps(calls, calls', O)
      BY <3>1 DEF Moved, ListOps, PluginChanges
    <3> QED  BY <1>3, <3>1, <3>2 DEF teamVars, pluginVars
  <2>4. CASE IncidentStep
    <3>1. \A O \in Kinds : Keeps(calls, calls', O)
      BY <2>4, IncidentMoves DEF Moved, IncidentOps, PluginChanges
    <3> QED  BY <1>3, <2>4, <3>1, IncidentMoves DEF teamVars
  <2>5. CASE TeamPageStep
    <3>1. \A O \in Kinds : Keeps(calls, calls', O)
      BY <2>5, TeamPageMoves, RefetchedKeeps DEF Moved, TeamPageOps, PluginChanges
    <3> QED  BY <1>3, <2>5, <3>1, TeamPageMoves DEF teamVars
  <2> QED  BY <1>6, <2>1, <2>2, <2>3, <2>4, <2>5 DEF GroupStep
<1> QED  BY <1>4, <1>5, <1>6, Steps

LEMMA PluginInit == Init => PluginInv
<1> SUFFICES ASSUME Init PROVE PluginInv
  OBVIOUS
<1>1. /\ plugins = EmptyStore /\ form = NoForm /\ calls = <<>> /\ DOMAIN calls = {}
      /\ dbPlugins = [t \in Teams |-> dbPlugins[t]]
  BY DEF Init, PluginsInit, ClientInit
<1>2. \A O : Pend(calls, O) = {}
  BY <1>1 DEF Pend
<1>3. PluginShape
  BY <1>1 DEF PluginShape, EmptyStore, StoreFields, NoForm, FormFields
<1>4. StoreInv
  BY <1>1, <1>2 DEF StoreInv, StoreWaits, EmptyStore
<1>5. FormInv
  BY <1>1, <1>2 DEF FormInv, NoForm
<1> QED  BY <1>1, <1>3, <1>4, <1>5 DEF PluginInv

LEMMA PluginNext ==
  ASSUME Teamed, PluginInv, [Next]_vars
  PROVE  PluginInv'
<1>1. area' = area
  BY TeamedNext
<1>2. CASE area = "session"
  <2>1. UNCHANGED <<plugins, form>>
    BY <1>2 DEF Next, Mount, EffectRenders, OnMonitors, PageStep, SessionStep,
                pageVars, pluginVars, vars
  <2> QED  BY <1>1, <1>2, <2>1 DEF PluginInv
<1>3. CASE area # "session"
  BY <1>1, <1>3, PluginsNext DEF PluginInv, Teamed
<1> QED  BY <1>2, <1>3

(* With no change under way and no list asked for, and the last one asked    *)
(* for on screen without a race, the badges of the plugins are those the    *)
(* server has, and of the current team while the list is on screen.         *)
THEOREM BadgesFollowServerHolds == Spec => []BadgesFollowServer
<1>1. Init => Teamed /\ PluginInv
  BY TeamedInit, PluginInit
<1>2. Teamed /\ PluginInv /\ [Next]_vars => Teamed' /\ PluginInv'
  BY TeamedNext, PluginNext
<1>3. PluginInv => BadgesFollowServer
  <2>1. CASE area = "session"
    BY <2>1 DEF PluginInv, EmptyStore, BadgesFollowServer
  <2>2. CASE area # "session"
    BY <2>2, ChangingIsPend
       DEF PluginInv, StoreInv, StoreShows, OnPlugins, BadgesFollowServer
  <2> QED  BY <2>1, <2>2
<1> QED  BY <1>1, <1>2, <1>3, PTL DEF Spec

(* Likewise the form of a plugin is the current team's, and says whether    *)
(* the server has the plugin configured, so that Save and Remove act on     *)
(* what they show.                                                         *)
THEOREM FormIsOfTheTeamHolds == Spec => []FormIsOfTheTeam
<1>1. Init => Teamed /\ PluginInv
  BY TeamedInit, PluginInit
<1>2. Teamed /\ PluginInv /\ [Next]_vars => Teamed' /\ PluginInv'
  BY TeamedNext, PluginNext
<1>3. PluginInv => FormIsOfTheTeam
  <2>1. CASE area = "session"
    BY <2>1 DEF PluginInv, NoForm, FormIsOfTheTeam
  <2>2. CASE area # "session"
    BY <2>2, ChangingIsPend DEF PluginInv, FormInv, FormShowsIt, FormIsOfTheTeam
  <2> QED  BY <2>1, <2>2
<1> QED  BY <1>1, <1>2, <1>3, PTL DEF Spec

-----------------------------------------------------------------------------
(* The monitors.  As the plugins: the store waits for the newest call, or   *)
(* shows what the server has but for the change that is under way.  What is *)
(* said of the calls s, the store m and the page d that creates a monitor,  *)
(* for the current team t and the monitors db; "asked" is that the page was *)
(* mounted and has a team.                                                 *)
MonsFields == {"rows", "next", "stack", "loading", "error", "updating", "page",
               "latest", "detached"}
DraftFields == {"open", "channels", "submitting", "error"}
TableChanges == {"toggle", "deleteMonitor"}
MonsChanges == {"create", "toggle", "deleteMonitor"}

Says(db, rows, t) ==
  \A r \in rows :
    /\ r.id \in DOMAIN db /\ r = [id |-> r.id, enabled |-> db[r.id].enabled]
    /\ db[r.id].team = t

MonsShape(m) ==
  /\ m = [x \in MonsFields |-> m[x]] /\ IsSequence(m.stack)
  /\ m.page = [team |-> m.page.team, cursor |-> m.page.cursor]

DraftShape(d) == d = [x \in DraftFields |-> d[x]]

DbShape(db) ==
  IsSequence(db) /\ \A k \in DOMAIN db : {"team", "enabled"} \subseteq DOMAIN db[k]

Submits(s) ==
  \/ \E i \in Pend(s, MonsChanges) : s[i].op = "create" /\ s[i].mine
  \/ \E i \in Pend(s, {"monitors"}) : s[i].then # <<>>

Changes(s) == \E i \in Pend(s, MonsChanges) : s[i].op \in TableChanges

MonsSpin(s, m, d, asked) ==
  /\ m.loading => Pend(s, {"monitors"}) # {}
  /\ m.updating # 0 => Changes(s)
  /\ d.submitting => Submits(s)
  /\ d.open => asked

ReadsMons(c, m, d, t, db) ==
  /\ ~d.open => c.team = t
  /\ ~m.detached => c.cursor = Top(m.stack)
  /\ c.reply # NoReply => Says(db, c.reply.rows, c.team)

MonsWait(s, m, d, t, asked, db) ==
  /\ Pend(s, MonsChanges) = {} /\ (asked => Pend(s, {"monitors"}) # {})
  /\ \A i \in Pend(s, {"monitors"}) :
       Newest(s, i, {"monitors"}) => ReadsMons(s[i], m, d, t, db)

(* What the answer to a change makes of the rows, once it was served.       *)
RowsAfter(c, rows) ==
  IF c.reply = NoReply \/ c.op = "create" THEN rows
  ELSE IF c.op = "toggle"
  THEN {IF r.id = c.id THEN [r EXCEPT !.enabled = c.enable] ELSE r : r \in rows}
  ELSE {r \in rows : r.id # c.id}

MonsShow(s, m, d, t, db) ==
  /\ ~d.open => m.page.team = t
  /\ ~m.detached => m.page.cursor = Top(m.stack)
  /\ Pend(s, MonsChanges) = {} => Says(db, m.rows, m.page.team)
  /\ Pend(s, MonsChanges) # {} =>
       /\ Alone(s, MonsChanges) /\ Pend(s, {"monitors"}) = {}
       /\ \A i \in Pend(s, MonsChanges) :
            Says(db, RowsAfter(s[i], m.rows), m.page.team)

MonsInv(s, m, d, t, asked, db) ==
  /\ MonsShape(m) /\ DraftShape(d) /\ DbShape(db)
  /\ MonsSpin(s, m, d, asked)
  /\ m.latest = "pending" => MonsWait(s, m, d, t, asked, db)
  /\ m.latest = "shown" => MonsShow(s, m, d, t, db)

IsAsked == mounted /\ currentTeam # None
MonInv == MonsInv(calls, mons, draft, currentTeam, IsAsked, dbMonitors)

(* Whoever waits for a call still does while there is one like it.          *)
LEMMA SpinsOn ==
  ASSUME NEW s, NEW x,
         \A k \in Pend(s, {"monitors"}) : \E j \in Pend(x, {"monitors"}) : x[j] = s[k],
         \A k \in Pend(s, MonsChanges) : \E j \in Pend(x, MonsChanges) : x[j] = s[k]
  PROVE  /\ Submits(s) => Submits(x)
         /\ Changes(s) => Changes(x)
         /\ Pend(s, {"monitors"}) # {} => Pend(x, {"monitors"}) # {}
<1>1. Submits(s) => Submits(x)
  <2>1. CASE \E i \in Pend(s, MonsChanges) : s[i].op = "create" /\ s[i].mine
    <3>1. PICK i \in Pend(s, MonsChanges) : s[i].op = "create" /\ s[i].mine
      BY <2>1
    <3>2. PICK j \in Pend(x, MonsChanges) : x[j] = s[i]
      OBVIOUS
    <3> QED  BY <3>1, <3>2 DEF Submits
  <2>2. CASE \E i \in Pend(s, {"monitors"}) : s[i].then # <<>>
    <3>1. PICK i \in Pend(s, {"monitors"}) : s[i].then # <<>>
      BY <2>2
    <3>2. PICK j \in Pend(x, {"monitors"}) : x[j] = s[i]
      OBVIOUS
    <3> QED  BY <3>1, <3>2 DEF Submits
  <2> QED  BY <2>1, <2>2 DEF Submits
<1>2. Changes(s) => Changes(x)
  BY DEF Changes
<1> QED  BY <1>1, <1>2

(* Calls of other pages come and go.                                        *)
LEMMA MonsKept ==
  ASSUME NEW s, NEW x, NEW m, NEW d, NEW t, NEW asked, NEW db,
         MonsInv(s, m, d, t, asked, db),
         Keeps(s, x, {"monitors"}), Keeps(s, x, MonsChanges)
  PROVE  MonsInv(x, m, d, t, asked, db)
<1>1. /\ Submits(s) => Submits(x)
      /\ Changes(s) => Changes(x)
      /\ Pend(s, {"monitors"}) # {} => Pend(x, {"monitors"}) # {}
  BY SpinsOn DEF Keeps
<1>2. \A O \in {{"monitors"}, MonsChanges} : Pend(x, O) = {} <=> Pend(s, O) = {}
  BY NoneKept, SomeKept
<1>3. Alone(s, MonsChanges) => Alone(x, MonsChanges)
  BY DEF Keeps
<1>4. MonsSpin(x, m, d, asked)
  BY <1>1 DEF MonsInv, MonsSpin
<1>5. ASSUME MonsWait(s, m, d, t, asked, db)  PROVE MonsWait(x, m, d, t, asked, db)
  <2>1. ASSUME NEW i \in Pend(x, {"monitors"}), Newest(x, i, {"monitors"})
        PROVE  ReadsMons(x[i], m, d, t, db)
    BY <1>5, <2>1 DEF MonsWait, Keeps
  <2> QED  BY <1>2, <1>5, <2>1 DEF MonsWait
<1>6. ASSUME MonsShow(s, m, d, t, db)  PROVE MonsShow(x, m, d, t, db)
  <2>1. ASSUME NEW i \in Pend(x, MonsChanges), Pend(x, MonsChanges) # {}
        PROVE  Says(db, RowsAfter(x[i], m.rows), m.page.team)
    <3>1. PICK k \in Pend(s, MonsChanges) : x[i] = s[k]
      BY DEF Keeps
    <3> QED  BY <1>2, <1>6, <2>1, <3>1 DEF MonsShow
  <2> QED  BY <1>2, <1>3, <1>6, <2>1 DEF MonsShow
<1> QED  BY <1>4, <1>5, <1>6 DEF MonsInv

(* Nobody waits for the answers of a table that left the screen.            *)
LEMMA MonsMarked ==
  ASSUME NEW s, NEW x, NEW m, NEW d, NEW t, NEW asked, NEW db,
         MonsInv(s, m, d, t, asked, db), AllCalls(s), Marks(s, x, TableChanges)
  PROVE  MonsInv(x, m, d, t, asked, db) /\ AllCalls(x)
<1>1. TableChanges \subseteq {"upsert", "deletePlugin", "toggle", "deleteMonitor", "create"}
      /\ {"monitors"} \cap TableChanges = {}
  BY DEF TableChanges
<1>2. /\ AllCalls(x) /\ DOMAIN x = DOMAIN s
      /\ \A i \in DOMAIN s :
           /\ x[i].op = s[i].op /\ DOMAIN x[i] = DOMAIN s[i]
           /\ \A z \in DOMAIN s[i] : z # "mine" => x[i][z] = s[i][z]
           /\ s[i].op \notin TableChanges => x[i] = s[i]
           /\ s[i].op \in TableChanges => x[i].mine = FALSE
      /\ \A O : Pend(x, O) = Pend(s, O)
      /\ \A O : O \cap TableChanges = {} => Keeps(s, x, O)
  <2>1. TableChanges \subseteq {"upsert", "deletePlugin", "toggle", "deleteMonitor", "create"}
    BY <1>1
  <2> HIDE DEF TableChanges
  <2> QED  BY <2>1, Marking
<1>3. \A O : Alone(x, O) <=> Alone(s, O)
  BY <1>2 DEF Alone
<1>4. MonsSpin(x, m, d, asked)
  <2>1. Submits(s) => Submits(x)
    BY <1>2 DEF Submits, Pend, TableChanges
  <2>2. Changes(s) => Changes(x)
    BY <1>2 DEF Changes, Pend
  <2> QED  BY <1>2, <2>1, <2>2 DEF MonsSpin, MonsInv
<1>5. ASSUME MonsWait(s, m, d, t, asked, db)  PROVE MonsWait(x, m, d, t, asked, db)
  <2>1. ASSUME NEW i \in Pend(x, {"monitors"}), Newest(x, i, {"monitors"})
        PROVE  ReadsMons(x[i], m, d, t, db)
    <3>1. i \in Pend(s, {"monitors"}) /\ Newest(s, i, {"monitors"}) /\ x[i] = s[i]
      BY <1>1, <1>2, <2>1 DEF Newest, Pend
    <3> QED  BY <1>5, <3>1 DEF MonsWait
  <2> QED  BY <1>2, <1>5, <2>1 DEF MonsWait
<1>6. ASSUME MonsShow(s, m, d, t, db)  PROVE MonsShow(x, m, d, t, db)
  <2>1. ASSUME NEW i \in Pend(x, MonsChanges), Pend(x, MonsChanges) # {}
        PROVE  Says(db, RowsAfter(x[i], m.rows), m.page.team)
    <3>1. i \in Pend(s, MonsChanges) /\ IsCall(s[i])
      BY <1>2 DEF AllCalls, Pend
    <3>2. /\ x[i].op = s[i].op /\ x[i].reply = s[i].reply
          /\ s[i].op \in TableChanges => x[i].id = s[i].id
          /\ s[i].op = "toggle" => x[i].enable = s[i].enable
      BY <1>2, <3>1 DEF IsCall, Pend, TableChanges
    <3>3. RowsAfter(x[i], m.rows) = RowsAfter(s[i], m.rows)
      BY <3>1, <3>2 DEF RowsAfter, Pend, MonsChanges, TableChanges
    <3> QED  BY <1>2, <1>6, <2>1, <3>1, <3>3 DEF MonsShow
  <2> QED  BY <1>2, <1>3, <1>6, <2>1 DEF MonsShow
<1> QED  BY <1>2, <1>4, <1>5, <1>6 DEF MonsInv

LEMMA ListRendered ==
  ASSUME NEW l, NEW tbl, NEW x, AllCalls(x), Render(l, tbl, x),
         NEW d, NEW t, NEW asked, NEW db, MonsInv(x, l, d, t, asked, db)
  PROVE  mons' = l /\ MonsInv(calls', l, d, t, asked, db)
<1>1. mons' = l /\ (calls' = x \/ calls' = Abandoned(x))
  BY DEF Render
<1>2. Marks(x, Abandoned(x), TableChanges)
  BY DEF Marks, Abandoned, TableChanges
<1>3. MonsInv(Abandoned(x), l, d, t, asked, db)
  BY <1>2, MonsMarked
<1> QED  BY <1>1, <1>3

(* The page is asked for anew: e is the call.                               *)
LEMMA MonsAskedAgain ==
  ASSUME NEW s, NEW x, NEW e, NEW l, NEW d, NEW t, NEW asked, NEW db,
         Asks(s, x, {"monitors"}, e), Keeps(s, x, MonsChanges),
         MonsShape(l), DraftShape(d), DbShape(db),
         l.updating # 0 => Changes(s),
         d.submitting => Submits(s) \/ e.then # <<>>,
         d.open => asked,
         l.latest # "shown", l.latest = "pending" => Pend(s, MonsChanges) = {},
         e.reply = NoReply, ~d.open => e.team = t,
         ~l.detached => e.cursor = Top(l.stack)
  PROVE  MonsInv(x, l, d, t, asked, db)
<1>1. /\ Submits(s) => Submits(x)
      /\ Changes(s) => Changes(x)
  BY SpinsOn DEF Keeps, Asks
<1>2. PICK j \in Pend(x, {"monitors"}) : x[j] = e
  BY DEF Asks
<1>3. e.then # <<>> => Submits(x)
  BY <1>2 DEF Submits
<1>4. MonsSpin(x, l, d, asked)
  BY <1>1, <1>2, <1>3 DEF MonsSpin
<1>5. Pend(s, MonsChanges) = {} => Pend(x, MonsChanges) = {}
  BY NoneKept
<1>6. \A k \in Pend(x, {"monitors"}) : Newest(x, k, {"monitors"}) => x[k] = e
  BY DEF Asks
<1>7. ReadsMons(e, l, d, t, db)
  BY DEF ReadsMons
<1>8. ASSUME l.latest = "pending"  PROVE MonsWait(x, l, d, t, asked, db)
  BY <1>2, <1>5, <1>6, <1>7, <1>8 DEF MonsWait
<1> QED  BY <1>4, <1>8 DEF MonsInv

LEMMA MonitorsCalled ==
  ASSUME NEW s, AllCalls(s), NEW t \in Teams, NEW c, NEW n
  PROVE  \E e, x :
           /\ e.team = t /\ e.cursor = c /\ e.then = n /\ e.reply = NoReply
           /\ x = s \o MonitorsCall(t, c, n) /\ AllCalls(x)
           /\ Asks(s, x, {"monitors"}, e) /\ Keeps(s, x, MonsChanges)
<1> DEFINE e == [op |-> "monitors", team |-> t, cursor |-> c, then |-> n,
                 reply |-> NoReply]
           x == s \o <<e>>
<1>1. IsCall(e) /\ e.op = "monitors"
  BY CallsAreCalls
<1>2. /\ e.team = t /\ e.cursor = c /\ e.then = n /\ e.reply = NoReply
      /\ x = s \o MonitorsCall(t, c, n)
  BY DEF MonitorsCall
<1> HIDE DEF e
<1>3. /\ AllCalls(Append(s, e)) /\ x = Append(s, e)
      /\ \A O : e.op \notin O => Keeps(s, Append(s, e), O)
      /\ \A O : e.op \in O => Asks(s, Append(s, e), O, e)
  BY <1>1, Sending
<1> HIDE DEF x
<1>4. /\ AllCalls(x)
      /\ \A O : e.op \notin O => Keeps(s, x, O)
      /\ \A O : e.op \in O => Asks(s, x, O, e)
  BY Zenon, <1>3
<1>5. Asks(s, x, {"monitors"}, e) /\ Keeps(s, x, MonsChanges)
  BY <1>1, <1>4 DEF MonsChanges
<1> QED  BY Zenon, <1>2, <1>4, <1>5

(* The same on screen, or on its way there.                                 *)
LEMMA MonsAskedOnScreen ==
  ASSUME NEW s, AllCalls(s), NEW l, NEW tbl, NEW d, NEW t \in Teams, NEW c, NEW n,
         Render(l, tbl, s \o MonitorsCall(t, c, n)), NEW asked, NEW db,
         MonsShape(l), DraftShape(d), DbShape(db),
         l.updating # 0 => Changes(s),
         d.submitting => Submits(s) \/ n # <<>>,
         d.open => asked,
         l.latest # "shown", l.latest = "pending" => Pend(s, MonsChanges) = {},
         ~l.detached => c = Top(l.stack)
  PROVE  mons' = l /\ MonsInv(calls', l, d, t, asked, db)
<1>1. PICK e, x :
        /\ e.team = t /\ e.cursor = c /\ e.then = n /\ e.reply = NoReply
        /\ x = s \o MonitorsCall(t, c, n) /\ AllCalls(x)
        /\ Asks(s, x, {"monitors"}, e) /\ Keeps(s, x, MonsChanges)
  BY MonitorsCalled
<1>2. MonsInv(x, l, d, t, asked, db)
  BY <1>1, MonsAskedAgain
<1>3. Render(l, tbl, x) /\ AllCalls(x)
  BY Zenon, <1>1
<1> QED  BY <1>2, <1>3, ListRendered

(* The page that creates a monitor changes, and comes and goes.             *)
LEMMA MonsDrafted ==
  ASSUME NEW s, NEW m, NEW d, NEW t, NEW asked, NEW db, NEW f,
         MonsInv(s, m, d, t, asked, db), DraftShape(f), ~f.open => ~d.open,
         f.submitting => Submits(s), f.open => asked
  PROVE  MonsInv(s, m, f, t, asked, db)
<1>1. MonsSpin(s, m, f, asked)
  BY DEF MonsInv, MonsSpin
<1>2. MonsWait(s, m, d, t, asked, db) => MonsWait(s, m, f, t, asked, db)
  BY DEF MonsWait, ReadsMons
<1>3. MonsShow(s, m, d, t, db) => MonsShow(s, m, f, t, db)
  BY DEF MonsShow
<1> QED  BY <1>1, <1>2, <1>3 DEF MonsInv

(* While it is on screen, the current team does not matter to the list.     *)
LEMMA MonsOfAny ==
  ASSUME NEW s, NEW m, NEW d, NEW t, NEW u, NEW asked, NEW db,
         MonsInv(s, m, d, t, asked, db), d.open
  PROVE  MonsInv(s, m, d, u, asked, db)
<1>2. MonsWait(s, m, d, t, asked, db) => MonsWait(s, m, d, u, asked, db)
  BY DEF MonsWait, ReadsMons
<1>3. MonsShow(s, m, d, t, db) => MonsShow(s, m, d, u, db)
  BY DEF MonsShow
<1> QED  BY <1>2, <1>3 DEF MonsInv

(* A change is sent: e is the call.                                         *)
LEMMA MonsChangeIsSent ==
  ASSUME NEW s, NEW x, NEW e, NEW m, NEW l, NEW d, NEW f, NEW t, NEW asked, NEW db,
         MonsInv(s, m, d, t, asked, db), asked,
         Asks(s, x, MonsChanges, e), Keeps(s, x, {"monitors"}),
         e.reply = NoReply, MonsShape(l), DraftShape(f),
         \A z \in MonsFields \ {"updating", "error", "latest"} : l[z] = m[z],
         l.latest = Unless(Pend(s, MonsChanges) # {} \/ Pend(s, {"monitors"}) # {},
                           m.latest),
         l.updating = m.updating \/ e.op \in TableChanges,
         f.open = d.open,
         f.submitting = d.submitting \/ (e.op = "create" /\ e.mine)
  PROVE  MonsInv(x, l, f, t, asked, db)
<1>1. /\ Submits(s) => Submits(x)
      /\ Changes(s) => Changes(x)
      /\ Pend(s, {"monitors"}) # {} => Pend(x, {"monitors"}) # {}
  BY SpinsOn DEF Keeps, Asks
<1>2. PICK j \in Pend(x, MonsChanges) : x[j] = e
  BY DEF Asks
<1>3. /\ l.loading = m.loading /\ l.rows = m.rows /\ l.stack = m.stack
      /\ l.page = m.page /\ l.detached = m.detached
  BY DEF MonsFields
<1>4. /\ e.op \in TableChanges => Changes(x)
      /\ e.op = "create" /\ e.mine => Submits(x)
  BY <1>2 DEF Changes, Submits
<1>5. MonsSpin(x, l, f, asked)
  BY <1>1, <1>3, <1>4 DEF MonsInv, MonsSpin
<1>6. l.latest # "pending"
  BY DEF MonsInv, MonsWait, Unless
<1>7. ASSUME l.latest = "shown"  PROVE MonsShow(x, l, f, t, db)
  <2>1. /\ Pend(s, MonsChanges) = {} /\ Pend(s, {"monitors"}) = {}
        /\ MonsShow(s, m, d, t, db)
    BY <1>7 DEF MonsInv, Unless
  <2>2. Alone(x, MonsChanges) /\ \A k \in Pend(x, MonsChanges) : x[k] = e
    BY <2>1 DEF Asks
  <2>3. Pend(x, {"monitors"}) = {}
    BY <2>1, NoneKept
  <2>4. RowsAfter(e, l.rows) = m.rows
    BY <1>3 DEF RowsAfter
  <2>5. Says(db, m.rows, l.page.team)
    BY <1>3, <2>1 DEF MonsShow
  <2> QED  BY <1>2, <1>3, <2>1, <2>2, <2>3, <2>4, <2>5 DEF MonsShow
<1> QED  BY <1>5, <1>6, <1>7 DEF MonsInv

-----------------------------------------------------------------------------
(* An answer takes the i-th call with it.                                   *)
IsWithout(s, x, i) ==
  /\ AllCalls(x)
  /\ \A O : s[i].op \notin O => Keeps(s, x, O)
  /\ \A O : s[i].op \in O => Loses(s, x, O, i)

LEMMA SpinsWithout ==
  ASSUME NEW s, NEW x, NEW i \in DOMAIN s, IsWithout(s, x, i)
  PROVE  /\ \A k \in Pend(s, {"monitors"}) \ {i} :
              \E j \in Pend(x, {"monitors"}) : x[j] = s[k]
         /\ \A k \in Pend(s, MonsChanges) \ {i} :
              \E j \in Pend(x, MonsChanges) : x[j] = s[k]
         /\ (\E k \in Pend(s, MonsChanges) \ {i} :
               s[k].op = "create" /\ s[k].mine) => Submits(x)
         /\ (\E k \in Pend(s, {"monitors"}) \ {i} : s[k].then # <<>>) => Submits(x)
         /\ (\E k \in Pend(s, MonsChanges) \ {i} : s[k].op \in TableChanges)
               => Changes(x)
<1>1. \A O \in {{"monitors"}, MonsChanges} : \A k \in Pend(s, O) \ {i} :
        \E j \in Pend(x, O) : x[j] = s[k]
  <2>1. ASSUME NEW O  PROVE Keeps(s, x, O) \/ Loses(s, x, O, i)
    BY DEF IsWithout
  <2>2. ASSUME NEW O, NEW k \in Pend(s, O) \ {i}
        PROVE  \E j \in Pend(x, O) : x[j] = s[k]
    <3>1. CASE Keeps(s, x, O)
      BY <3>1 DEF Keeps
    <3>2. CASE Loses(s, x, O, i)
      BY <3>2 DEF Loses
    <3> QED  BY <2>1, <3>1, <3>2
  <2> QED  BY <2>2
<1>2. ASSUME NEW k \in Pend(s, MonsChanges) \ {i}
      PROVE  /\ s[k].op = "create" /\ s[k].mine => Submits(x)
             /\ s[k].op \in TableChanges => Changes(x)
  <2>1. PICK j \in Pend(x, MonsChanges) : x[j] = s[k]
    BY <1>1
  <2> QED  BY <2>1 DEF Submits, Changes
<1>3. ASSUME NEW k \in Pend(s, {"monitors"}) \ {i}, s[k].then # <<>>
      PROVE  Submits(x)
  <2>1. PICK j \in Pend(x, {"monitors"}) : x[j] = s[k]
    BY <1>1
  <2> QED  BY <1>3, <2>1 DEF Submits
<1> QED  BY <1>1, <1>2, <1>3

(* A fetch is over.  Whoever still waits for it was not waiting for this    *)
(* answer, or leaves.                                                      *)
LEMMA MonsFetched ==
  ASSUME NEW s, NEW x, NEW i \in Pend(s, {"monitors"}), i \in Nat,
         IsWithout(s, x, i), NEW m, NEW d, NEW f, NEW t, NEW asked, NEW db,
         MonsInv(s, m, d, t, asked, db), DraftShape(f),
         f = d \/ (~f.open /\ ~d.open /\ ~f.submitting),
         s[i].then = <<>> \/ ~f.submitting,
         NEW l, MonsShape(l),
         \A z \in {"stack", "updating", "detached"} : l[z] = m[z], ~l.loading,
         NEW newest, newest <=> Newest(s, i, {"monitors"}),
         \/ /\ s[i].reply # NoReply /\ l.rows = s[i].reply.rows
            /\ l.page = [team |-> s[i].team, cursor |-> s[i].cursor]
            /\ l.latest = IF m.latest # "pending" THEN "stale"
                          ELSE IF newest THEN "shown" ELSE "pending"
         \/ /\ l.rows = m.rows /\ l.page = m.page
            /\ l.latest = IF m.latest = "pending" /\ newest THEN "stale" ELSE m.latest
  PROVE  MonsInv(x, l, f, t, asked, db)
<1>1. i \in DOMAIN s /\ s[i].op = "monitors" /\ i \notin Pend(s, MonsChanges)
  BY DEF Pend, MonsChanges
<1>2. /\ Keeps(s, x, MonsChanges) /\ Loses(s, x, {"monitors"}, i)
      /\ l.updating = m.updating /\ l.stack = m.stack /\ l.detached = m.detached
  BY <1>1 DEF IsWithout, MonsChanges
<1>3. Changes(s) => Changes(x)
  BY <1>1, SpinsWithout DEF Changes
<1>4. f.submitting => Submits(x)
  BY <1>1, SpinsWithout DEF Submits, MonsInv, MonsSpin
<1>5. MonsSpin(x, l, f, asked)
  BY <1>2, <1>3, <1>4 DEF MonsInv, MonsSpin
<1>6. Pend(x, MonsChanges) = {} <=> Pend(s, MonsChanges) = {}
  BY <1>2, NoneKept, SomeKept
<1>7. ASSUME l.latest = "pending"  PROVE MonsWait(x, l, f, t, asked, db)
  <2>1. m.latest = "pending" /\ ~newest /\ MonsWait(s, m, d, t, asked, db)
    BY <1>7 DEF MonsInv
  <2>2. Pend(x, {"monitors"}) # {}
    <3>1. PICK k \in Pend(s, {"monitors"}) : ~(k <= i)
      BY <2>1 DEF Newest
    <3>2. k # i
      BY <3>1
    <3> QED  BY <1>2, <3>1, <3>2 DEF Loses
  <2>3. ASSUME NEW j \in Pend(x, {"monitors"}), Newest(x, j, {"monitors"})
        PROVE  ReadsMons(x[j], l, f, t, db)
    <3>1. PICK k \in Pend(s, {"monitors"}) : x[j] = s[k] /\ Newest(s, k, {"monitors"})
      BY <1>2, <2>1, <2>3 DEF Loses
    <3>2. ReadsMons(s[k], m, d, t, db)
      BY <2>1, <3>1 DEF MonsWait
    <3> QED  BY <1>2, <3>1, <3>2 DEF ReadsMons
  <2> QED  BY <1>6, <2>1, <2>2, <2>3 DEF MonsWait
<1>8. ASSUME l.latest = "shown"  PROVE MonsShow(x, l, f, t, db)
  <2>1. CASE m.latest = "shown"
    <3>1. MonsShow(s, m, d, t, db) /\ l.rows = m.rows /\ l.page = m.page
      BY <1>8, <2>1 DEF MonsInv
    <3>2. Pend(s, MonsChanges) = {}
      BY <3>1 DEF MonsShow
    <3> QED  BY <1>2, <1>6, <3>1, <3>2 DEF MonsShow
  <2>2. CASE m.latest # "shown"
    <3>1. /\ m.latest = "pending" /\ newest /\ s[i].reply # NoReply
          /\ l.rows = s[i].reply.rows
          /\ l.page = [team |-> s[i].team, cursor |-> s[i].cursor]
      BY <1>8, <2>2
    <3>2. Pend(s, MonsChanges) = {} /\ ReadsMons(s[i], m, d, t, db)
      BY <3>1 DEF MonsInv, MonsWait
    <3> QED  BY <1>2, <1>6, <3>1, <3>2 DEF MonsShow, ReadsMons
  <2> QED  BY <2>1, <2>2
<1> QED  BY <1>5, <1>7, <1>8 DEF MonsInv

(* The change of a row is over: it failed, or its answer is shown.          *)
LEMMA MonsChanged ==
  ASSUME NEW s, NEW x, NEW i \in Pend(s, MonsChanges), IsWithout(s, x, i),
         NEW m, NEW d, NEW f, NEW t, NEW asked, NEW db,
         MonsInv(s, m, d, t, asked, db), DraftShape(f), f.open = d.open,
         f.submitting =>
           d.submitting /\ ~(s[i].op = "create" /\ s[i].mine),
         NEW l, MonsShape(l),
         \A z \in {"stack", "page", "detached", "loading"} : l[z] = m[z],
         l.updating = 0 \/ (l.updating = m.updating /\ s[i].op = "create"),
         \/ l.latest = "stale"
         \/ /\ l.latest = m.latest /\ s[i].reply # NoReply /\ s[i].op # "create"
            /\ l.rows = RowsAfter(s[i], m.rows)
  PROVE  MonsInv(x, l, f, t, asked, db)
<1>1. i \in DOMAIN s /\ s[i].op \in MonsChanges /\ i \notin Pend(s, {"monitors"})
  BY DEF Pend, MonsChanges
<1>2. /\ Keeps(s, x, {"monitors"}) /\ Loses(s, x, MonsChanges, i)
      /\ l.page = m.page /\ l.stack = m.stack /\ l.detached = m.detached
      /\ l.loading = m.loading
  BY <1>1 DEF IsWithout, MonsChanges
<1>3. s[i].op = "create" /\ Changes(s) => Changes(x)
  BY <1>1, SpinsWithout DEF Changes, TableChanges
<1>4. f.submitting => Submits(x)
  BY <1>1, SpinsWithout DEF Submits, MonsInv, MonsSpin
<1>5. Pend(x, {"monitors"}) = {} <=> Pend(s, {"monitors"}) = {}
  BY <1>2, NoneKept, SomeKept
<1>6. MonsSpin(x, l, f, asked)
  BY <1>2, <1>3, <1>4, <1>5 DEF MonsInv, MonsSpin
<1>7. l.latest # "pending"
  BY DEF MonsInv, MonsWait
<1>8. ASSUME l.latest = "shown"  PROVE MonsShow(x, l, f, t, db)
  <2>1. /\ MonsShow(s, m, d, t, db) /\ Alone(s, MonsChanges)
        /\ Says(db, l.rows, m.page.team)
    BY <1>8 DEF MonsInv, MonsShow
  <2>2. Pend(x, MonsChanges) = {}
    BY <1>2, <2>1 DEF Alone, Loses
  <2> QED  BY <1>2, <2>1, <2>2 DEF MonsShow
<1> QED  BY <1>6, <1>7, <1>8 DEF MonsInv

-----------------------------------------------------------------------------
(* The server serves a call: the spinners turn on.                          *)
LEMMA SpinsServed ==
  ASSUME AllCalls(calls), NEW i \in DOMAIN calls, NEW r, Reply(i, r)
  PROVE  /\ AllCalls(calls') /\ DOMAIN calls' = DOMAIN calls
         /\ \A j \in DOMAIN calls : j # i => calls'[j] = calls[j]
         /\ \A x \in DOMAIN calls[i] : x # "reply" => calls'[i][x] = calls[i][x]
         /\ calls'[i].op = calls[i].op /\ calls'[i].reply = r
         /\ \A O : Pend(calls', O) = Pend(calls, O)
         /\ \A j, O : Newest(calls', j, O) <=> Newest(calls, j, O)
         /\ \A O : Alone(calls, O) => Alone(calls', O)
         /\ Submits(calls) => Submits(calls')
         /\ Changes(calls) => Changes(calls')
<1>1. /\ AllCalls(calls') /\ DOMAIN calls' = DOMAIN calls
      /\ \A j \in DOMAIN calls :
           /\ calls'[j].op = calls[j].op
           /\ j # i => calls'[j] = calls[j]
      /\ \A x \in DOMAIN calls[i] : x # "reply" => calls'[i][x] = calls[i][x]
      /\ calls'[i].reply = r
      /\ \A O : Pend(calls', O) = Pend(calls, O)
      /\ \A O : calls[i].op \notin O => Keeps(calls, calls', O)
  BY Replying
<1>2. /\ \A j, O : Newest(calls', j, O) <=> Newest(calls, j, O)
      /\ \A O : Alone(calls, O) => Alone(calls', O)
  BY <1>1 DEF Newest, Alone
<1>3. ASSUME NEW j \in DOMAIN calls
      PROVE  /\ calls[j].op = "monitors" => calls'[j].then = calls[j].then
             /\ calls[j].op = "create" => calls'[j].mine = calls[j].mine
  BY <1>1 DEF AllCalls, IsCall
<1>4. Submits(calls) => Submits(calls')
  <2>1. \A j \in Pend(calls, MonsChanges) : j \in DOMAIN calls
    BY DEF Pend
  <2>2. \A j \in Pend(calls, {"monitors"}) : j \in DOMAIN calls /\ calls[j].op = "monitors"
    BY DEF Pend
  <2> QED  BY <1>1, <1>3, <2>1, <2>2 DEF Submits
<1>5. Changes(calls) => Changes(calls')
  <2>1. \A j \in Pend(calls, MonsChanges) : j \in DOMAIN calls
    BY DEF Pend
  <2> QED  BY <1>1, <2>1 DEF Changes
<1> QED  BY <1>1, <1>2, <1>4, <1>5

LEMMA RowsSay ==
  ASSUME DbShape(dbMonitors), NEW t, NEW c
  PROVE  Says(dbMonitors, {Row(m) : m \in OnPage(t, c)}, t)
<1>1. PICK S : dbMonitors \in Seq(S)
  BY DEF DbShape, IsSequence
<1>2. DOMAIN dbMonitors = 1 .. Len(dbMonitors)
  BY <1>1, LenProperties
<1>3. ASSUME NEW m \in OnPage(t, c)
      PROVE  m \in DOMAIN dbMonitors /\ dbMonitors[m].team = t
  BY <1>2, <1>3 DEF OnPage, Listed, Monitors
<1>4. ASSUME NEW m \in OnPage(t, c)
      PROVE  Row(m).id = m /\ Row(m) = [id |-> m, enabled |-> dbMonitors[m].enabled]
  BY DEF Row
<1> QED  BY <1>3, <1>4 DEF Says

LEMMA ListIsServed ==
  ASSUME AllCalls(calls), NEW i \in DOMAIN calls, ServeMonitors(i), NEW t, NEW asked,
         MonsInv(calls, mons, draft, t, asked, dbMonitors)
  PROVE  MonsInv(calls', mons, draft, t, asked, dbMonitors)
<1> DEFINE c == calls[i]
           R == {Row(m) : m \in OnPage(c.team, c.cursor)}
           r == [rows |-> R, next |-> NextCursor(c.team, c.cursor)]
<1>1. Reply(i, r) /\ c.op = "monitors" /\ r.rows = R
  BY DEF ServeMonitors, Pending
<1>2. Says(dbMonitors, R, c.team)
  BY RowsSay DEF MonsInv
<1> HIDE DEF r, R
<1>3. /\ AllCalls(calls') /\ DOMAIN calls' = DOMAIN calls
      /\ \A j \in DOMAIN calls : j # i => calls'[j] = calls[j]
      /\ \A x \in DOMAIN c : x # "reply" => calls'[i][x] = c[x]
      /\ calls'[i].op = c.op /\ calls'[i].reply = r
      /\ \A O : Pend(calls', O) = Pend(calls, O)
      /\ \A j, O : Newest(calls', j, O) <=> Newest(calls, j, O)
      /\ \A O : Alone(calls, O) => Alone(calls', O)
      /\ Submits(calls) => Submits(calls')
      /\ Changes(calls) => Changes(calls')
  BY <1>1, SpinsServed
<1>4. calls'[i].team = c.team /\ calls'[i].cursor = c.cursor
  BY <1>1, <1>3 DEF AllCalls, IsCall
<1>5. MonsSpin(calls', mons, draft, asked)
  BY <1>3 DEF MonsInv, MonsSpin
<1>6. ASSUME MonsWait(calls, mons, draft, t, asked, dbMonitors)
      PROVE  MonsWait(calls', mons, draft, t, asked, dbMonitors)
  <2>1. ASSUME NEW j \in Pend(calls', {"monitors"}), Newest(calls', j, {"monitors"})
        PROVE  ReadsMons(calls'[j], mons, draft, t, dbMonitors)
    <3>1. ReadsMons(calls[j], mons, draft, t, dbMonitors) /\ j \in DOMAIN calls
      BY <1>3, <1>6, <2>1 DEF MonsWait, Pend
    <3>2. CASE j = i
      BY <1>1, <1>2, <1>3, <1>4, <3>1, <3>2 DEF ReadsMons
    <3>3. CASE j # i
      <4>1. calls'[j] = calls[j]
        BY <1>3, <3>1, <3>3
      <4> QED  BY <3>1, <4>1
    <3> QED  BY <3>2, <3>3
  <2> QED  BY <1>3, <1>6, <2>1 DEF MonsWait
<1>7. ASSUME MonsShow(calls, mons, draft, t, dbMonitors)
      PROVE  MonsShow(calls', mons, draft, t, dbMonitors)
  <2>1. \A j \in Pend(calls, MonsChanges) : calls'[j] = calls[j]
    BY <1>1, <1>3 DEF Pend, MonsChanges
  <2>2. /\ Pend(calls', MonsChanges) = Pend(calls, MonsChanges)
        /\ Pend(calls', {"monitors"}) = Pend(calls, {"monitors"})
        /\ Alone(calls, MonsChanges) => Alone(calls', MonsChanges)
    BY <1>3
  <2>3. ASSUME NEW j \in Pend(calls', MonsChanges), Pend(calls', MonsChanges) # {}
        PROVE  Says(dbMonitors, RowsAfter(calls'[j], mons.rows), mons.page.team)
    <3>1. calls'[j] = calls[j]
      BY <2>1, <2>2
    <3>2. Says(dbMonitors, RowsAfter(calls[j], mons.rows), mons.page.team)
      BY <1>7, <2>2, <2>3 DEF MonsShow
    <3> QED  BY <3>1, <3>2
  <2> QED  BY <1>7, <2>2, <2>3 DEF MonsShow
<1> QED  BY <1>5, <1>6, <1>7 DEF MonsInv

(* A change is served: what its answer makes of the rows is what they will  *)
(* be; e is the monitors after it.                                         *)
LEMMA ChangeOfMonsIsServed ==
  ASSUME AllCalls(calls), NEW i \in DOMAIN calls, calls[i].op \in MonsChanges,
         calls[i].reply = NoReply, NEW r, Reply(i, r), NEW t, NEW asked,
         MonsInv(calls, mons, draft, t, asked, dbMonitors), NEW e, DbShape(e),
         NEW c, c = calls'[i],
         \A u : Says(dbMonitors, mons.rows, u) =>
                  Says(e, RowsAfter(c, mons.rows), u)
  PROVE  MonsInv(calls', mons, draft, t, asked, e)
<1>1. /\ AllCalls(calls') /\ DOMAIN calls' = DOMAIN calls
      /\ \A j \in DOMAIN calls : j # i => calls'[j] = calls[j]
      /\ \A x \in DOMAIN calls[i] : x # "reply" => calls'[i][x] = calls[i][x]
      /\ calls'[i].op = calls[i].op /\ calls'[i].reply = r
      /\ \A O : Pend(calls', O) = Pend(calls, O)
      /\ \A j, O : Newest(calls', j, O) <=> Newest(calls, j, O)
      /\ \A O : Alone(calls, O) => Alone(calls', O)
      /\ Submits(calls) => Submits(calls')
      /\ Changes(calls) => Changes(calls')
  BY SpinsServed
<1>2. i \in Pend(calls, MonsChanges)
  BY DEF Pend
<1>3. MonsSpin(calls', mons, draft, asked)
  BY <1>1 DEF MonsInv, MonsSpin
<1>4. mons.latest # "pending"
  BY <1>2 DEF MonsInv, MonsWait
<1>5. ASSUME mons.latest = "shown"  PROVE MonsShow(calls', mons, draft, t, e)
  <2>1. /\ MonsShow(calls, mons, draft, t, dbMonitors)
        /\ \A j \in Pend(calls, MonsChanges) : j = i
        /\ Says(dbMonitors, RowsAfter(calls[i], mons.rows), mons.page.team)
    BY <1>2, <1>5 DEF MonsInv, MonsShow, Alone
  <2>2. RowsAfter(calls[i], mons.rows) = mons.rows
    BY DEF RowsAfter
  <2>3. Says(e, RowsAfter(c, mons.rows), mons.page.team)
    BY <2>1, <2>2
  <2>4. ASSUME NEW j \in Pend(calls', MonsChanges)
        PROVE  calls'[j] = c
    BY <1>1, <2>1
  <2>5. /\ Pend(calls', MonsChanges) = Pend(calls, MonsChanges)
        /\ Pend(calls', {"monitors"}) = Pend(calls, {"monitors"})
        /\ Alone(calls, MonsChanges) => Alone(calls', MonsChanges)
    BY <1>1
  <2> QED  BY <1>2, <2>1, <2>3, <2>4, <2>5 DEF MonsShow
<1> QED  BY <1>3, <1>4, <1>5 DEF MonsInv

(* The monitors with one of them changed.                                   *)
LEMMA DbChanged ==
  ASSUME NEW db, DbShape(db), NEW k, NEW e, NEW b,
         b = [db EXCEPT ![k] = e],
         k \in DOMAIN db => {"team", "enabled"} \subseteq DOMAIN e
  PROVE  /\ DbShape(b) /\ DOMAIN b = DOMAIN db
         /\ \A j \in DOMAIN db : j # k => b[j] = db[j]
         /\ k \in DOMAIN db => b[k] = e
<1>1. PICK S : db \in Seq(S)
  BY DEF DbShape, IsSequence
<1>2. /\ DOMAIN b = DOMAIN db
      /\ \A j \in DOMAIN db : j # k => b[j] = db[j]
      /\ k \in DOMAIN db => b[k] = e
  OBVIOUS
<1>3. IsSequence(b)
  <2>1. CASE k \in DOMAIN db
    <3> DEFINE T == S \cup {e}
    <3>1. db \in Seq(T) /\ k \in 1 .. Len(db) /\ e \in T
      BY <1>1, <2>1, SeqMonotonic, LenProperties
    <3> HIDE DEF T
    <3>2. b \in Seq(T)
      BY <3>1, ExceptSeq
    <3> QED  BY <3>2 DEF IsSequence
  <2>2. CASE k \notin DOMAIN db
    <3>1. db = [j \in DOMAIN db |-> db[j]]
      BY <1>1
    <3>2. b = db
      BY <2>2, <3>1
    <3> QED  BY <1>1, <3>2 DEF IsSequence
  <2> QED  BY <2>1, <2>2
<1>4. \A j \in DOMAIN b : {"team", "enabled"} \subseteq DOMAIN b[j]
  BY <1>2 DEF DbShape
<1> QED  BY <1>2, <1>3, <1>4 DEF DbShape

LEMMA ToggleIsServed ==
  ASSUME AllCalls(calls), NEW i \in DOMAIN calls, ServeToggle(i), NEW t, NEW asked,
         MonsInv(calls, mons, draft, t, asked, dbMonitors)
  PROVE  MonsInv(calls', mons, draft, t, asked, dbMonitors')
<1> DEFINE c == calls[i]  d == calls'[i]  k == c.id  r == [enabled |-> c.enable]
           e == [dbMonitors[k] EXCEPT !.enabled = c.enable]
<1>1. /\ Reply(i, r) /\ c.op = "toggle" /\ c.reply = NoReply
      /\ dbMonitors' = [dbMonitors EXCEPT ![k] = e]
  BY DEF ServeToggle, Pending, Served
<1>2. {"id", "enable"} \subseteq DOMAIN c /\ c.enable \in BOOLEAN
  BY <1>1 DEF AllCalls, IsCall
<1>3. r # NoReply
  BY <1>2, RowChangesAreAnswered
<1>4. /\ \A x \in DOMAIN c : x # "reply" => d[x] = c[x]
      /\ d.op = c.op /\ d.reply = r
  <2> HIDE DEF r, d
  <2>1. /\ AllCalls(calls') /\ DOMAIN calls' = DOMAIN calls
        /\ \A j \in DOMAIN calls : j # i => calls'[j] = calls[j]
        /\ \A x \in DOMAIN calls[i] : x # "reply" => calls'[i][x] = calls[i][x]
        /\ calls'[i].op = calls[i].op /\ calls'[i].reply = r
        /\ \A O : Pend(calls', O) = Pend(calls, O)
        /\ \A j, O : Newest(calls', j, O) <=> Newest(calls, j, O)
        /\ \A O : Alone(calls, O) => Alone(calls', O)
        /\ Submits(calls) => Submits(calls')
        /\ Changes(calls) => Changes(calls')
    BY <1>1, SpinsServed
  <2> QED  BY <2>1 DEF d
<1>5. d.id = k /\ d.enable = c.enable
  BY <1>2, <1>4
<1>6. DbShape(dbMonitors)
  BY DEF MonsInv
<1>7. k \in DOMAIN dbMonitors =>
        /\ DOMAIN e = DOMAIN dbMonitors[k] /\ {"team", "enabled"} \subseteq DOMAIN e
        /\ e.team = dbMonitors[k].team /\ e.enabled = c.enable
  BY <1>6 DEF DbShape
<1> HIDE DEF e, d, r
<1>8. /\ DbShape(dbMonitors') /\ DOMAIN dbMonitors' = DOMAIN dbMonitors
      /\ \A j \in DOMAIN dbMonitors : j # k => dbMonitors'[j] = dbMonitors[j]
      /\ k \in DOMAIN dbMonitors => dbMonitors'[k] = e
  <2> DEFINE b == [dbMonitors EXCEPT ![k] = e]
  <2> HIDE DEF k
  <2>1. /\ DbShape(b) /\ DOMAIN b = DOMAIN dbMonitors
        /\ \A j \in DOMAIN dbMonitors : j # k => b[j] = dbMonitors[j]
        /\ k \in DOMAIN dbMonitors => b[k] = e
    <3>1. k \in DOMAIN dbMonitors => {"team", "enabled"} \subseteq DOMAIN e
      BY <1>7
    <3> HIDE DEF b
    <3> QED  BY <1>6, <3>1, DbChanged DEF b
  <2>2. dbMonitors' = b
    BY <1>1
  <2> HIDE DEF b
  <2> QED  BY <2>1, <2>2
<1>9. ASSUME NEW u, Says(dbMonitors, mons.rows, u)
      PROVE  Says(dbMonitors', RowsAfter(d, mons.rows), u)
  <2>1. RowsAfter(d, mons.rows) =
          {IF q.id = k THEN [q EXCEPT !.enabled = c.enable] ELSE q : q \in mons.rows}
    BY <1>1, <1>3, <1>4, <1>5 DEF RowsAfter
  <2>2. ASSUME NEW q \in mons.rows,
               NEW p, p = IF q.id = k THEN [q EXCEPT !.enabled = c.enable] ELSE q
        PROVE  /\ p.id \in DOMAIN dbMonitors'
               /\ p = [id |-> p.id, enabled |-> dbMonitors'[p.id].enabled]
               /\ dbMonitors'[p.id].team = u
    <3>1. /\ q.id \in DOMAIN dbMonitors
          /\ q = [id |-> q.id, enabled |-> dbMonitors[q.id].enabled]
          /\ dbMonitors[q.id].team = u
      BY <1>9 DEF Says
    <3>2. CASE q.id = k
      <4>1. p = [id |-> k, enabled |-> c.enable]
        BY <2>2, <3>1, <3>2
      <4> QED  BY <1>7, <1>8, <3>1, <3>2, <4>1
    <3>3. CASE q.id # k
      BY <1>8, <2>2, <3>1, <3>3
    <3> QED  BY <3>2, <3>3
  <2> QED  BY <2>1, <2>2 DEF Says
<1>10. c.op \in MonsChanges
  BY <1>1 DEF MonsChanges
<1> QED  BY <1>1, <1>8, <1>9, <1>10, ChangeOfMonsIsServed DEF d

LEMMA DeleteIsServed ==
  ASSUME AllCalls(calls), NEW i \in DOMAIN calls, ServeDeleteMonitor(i), NEW t,
         NEW asked, MonsInv(calls, mons, draft, t, asked, dbMonitors)
  PROVE  MonsInv(calls', mons, draft, t, asked, dbMonitors')
<1> DEFINE c == calls[i]  d == calls'[i]  k == c.id  r == [deleted |-> k]
           e == [dbMonitors[k] EXCEPT !.team = None]
<1>1. /\ Reply(i, r) /\ c.op = "deleteMonitor" /\ c.reply = NoReply
      /\ dbMonitors' = [dbMonitors EXCEPT ![k] = e]
  BY DEF ServeDeleteMonitor, Pending, Served
<1>2. "id" \in DOMAIN c
  BY <1>1 DEF AllCalls, IsCall
<1>4. /\ \A x \in DOMAIN c : x # "reply" => d[x] = c[x]
      /\ d.op = c.op /\ d.reply = r
  <2> HIDE DEF r, d
  <2>1. /\ AllCalls(calls') /\ DOMAIN calls' = DOMAIN calls
        /\ \A j \in DOMAIN calls : j # i => calls'[j] = calls[j]
        /\ \A x \in DOMAIN calls[i] : x # "reply" => calls'[i][x] = calls[i][x]
        /\ calls'[i].op = calls[i].op /\ calls'[i].reply = r
        /\ \A O : Pend(calls', O) = Pend(calls, O)
        /\ \A j, O : Newest(calls', j, O) <=> Newest(calls, j, O)
        /\ \A O : Alone(calls, O) => Alone(calls', O)
        /\ Submits(calls) => Submits(calls')
        /\ Changes(calls) => Changes(calls')
    BY <1>1, SpinsServed
  <2> QED  BY <2>1 DEF d
<1>5. d.id = k
  BY <1>2, <1>4
<1>6. DbShape(dbMonitors) /\ DOMAIN dbMonitors \subseteq Nat
  BY Numbered DEF MonsInv, DbShape
<1>3. k \in DOMAIN dbMonitors => r # NoReply
  BY <1>6, RowChangesAreAnswered
<1>7. k \in DOMAIN dbMonitors => {"team", "enabled"} \subseteq DOMAIN e
  BY <1>6 DEF DbShape
<1> HIDE DEF e, d, r
<1>8. /\ DbShape(dbMonitors') /\ DOMAIN dbMonitors' = DOMAIN dbMonitors
      /\ \A j \in DOMAIN dbMonitors : j # k => dbMonitors'[j] = dbMonitors[j]
  <2> DEFINE b == [dbMonitors EXCEPT ![k] = e]
  <2> HIDE DEF k
  <2>1. /\ DbShape(b) /\ DOMAIN b = DOMAIN dbMonitors
        /\ \A j \in DOMAIN dbMonitors : j # k => b[j] = dbMonitors[j]
        /\ k \in DOMAIN dbMonitors => b[k] = e
    <3>1. k \in DOMAIN dbMonitors => {"team", "enabled"} \subseteq DOMAIN e
      BY <1>7
    <3> HIDE DEF b
    <3> QED  BY <1>6, <3>1, DbChanged DEF b
  <2>2. dbMonitors' = b
    BY <1>1
  <2> HIDE DEF b
  <2> QED  BY <2>1, <2>2
<1>9. ASSUME NEW u, Says(dbMonitors, mons.rows, u)
      PROVE  Says(dbMonitors', RowsAfter(d, mons.rows), u)
  <2>1. RowsAfter(d, mons.rows) =
          IF r = NoReply THEN mons.rows ELSE {q \in mons.rows : q.id # k}
    BY <1>1, <1>4, <1>5 DEF RowsAfter
  <2>2. \A q \in RowsAfter(d, mons.rows) : q \in mons.rows /\ q.id # k
    BY <1>3, <1>9, <2>1 DEF Says
  <2> QED  BY <1>8, <1>9, <2>2 DEF Says
<1>10. c.op \in MonsChanges
  BY <1>1 DEF MonsChanges
<1> QED  BY <1>1, <1>8, <1>9, <1>10, ChangeOfMonsIsServed DEF d

LEMMA CreateIsServed ==
  ASSUME AllCalls(calls), NEW i \in DOMAIN calls, ServeCreateMonitor(i), NEW t,
         NEW asked, MonsInv(calls, mons, draft, t, asked, dbMonitors)
  PROVE  MonsInv(calls', mons, draft, t, asked, dbMonitors')
<1> DEFINE c == calls[i]  d == calls'[i]  r == [id |-> Len(dbMonitors) + 1]
           e == [team |-> c.team, enabled |-> TRUE, channels |-> c.channels]
<1>1. /\ Reply(i, r) /\ c.op = "create" /\ c.reply = NoReply
      /\ dbMonitors' = Append(dbMonitors, e)
  BY DEF ServeCreateMonitor, Pending, Served
<1>2. d.op = c.op
  <2> HIDE DEF r, d
  <2>1. /\ AllCalls(calls') /\ DOMAIN calls' = DOMAIN calls
        /\ \A j \in DOMAIN calls : j # i => calls'[j] = calls[j]
        /\ \A x \in DOMAIN calls[i] : x # "reply" => calls'[i][x] = calls[i][x]
        /\ calls'[i].op = calls[i].op /\ calls'[i].reply = r
        /\ \A O : Pend(calls', O) = Pend(calls, O)
        /\ \A j, O : Newest(calls', j, O) <=> Newest(calls, j, O)
        /\ \A O : Alone(calls, O) => Alone(calls', O)
        /\ Submits(calls) => Submits(calls')
        /\ Changes(calls) => Changes(calls')
    BY <1>1, SpinsServed
  <2> QED  BY <2>1 DEF d
<1>3. DbShape(dbMonitors) /\ IsSequence(dbMonitors)
  BY DEF MonsInv, DbShape
<1>4. {"team", "enabled"} \subseteq DOMAIN e
  OBVIOUS
<1> HIDE DEF d, e, r
<1>5. IsSequence(Append(dbMonitors, e)) /\ More(dbMonitors, Append(dbMonitors, e), e)
  BY <1>3, AppendIsMore
<1>6. IsSequence(dbMonitors') /\ More(dbMonitors, dbMonitors', e)
  BY Zenon, <1>1, <1>5
<1>7. /\ DOMAIN dbMonitors' = DOMAIN dbMonitors \cup {Len(dbMonitors) + 1}
      /\ dbMonitors'[Len(dbMonitors) + 1] = e
      /\ \A j \in DOMAIN dbMonitors : dbMonitors'[j] = dbMonitors[j]
  BY <1>6 DEF More
<1>8. DbShape(dbMonitors')
  BY <1>3, <1>4, <1>6, <1>7 DEF DbShape
<1>9. ASSUME NEW u, Says(dbMonitors, mons.rows, u)
      PROVE  Says(dbMonitors', RowsAfter(d, mons.rows), u)
  <2>1. RowsAfter(d, mons.rows) = mons.rows
    BY <1>1, <1>2 DEF RowsAfter
  <2> QED  BY <1>7, <1>9, <2>1 DEF Says
<1>10. c.op \in MonsChanges
  BY <1>1 DEF MonsChanges
<1>11. Reply(i, r) /\ c.reply = NoReply
  BY <1>1
<1> QED  BY <1>8, <1>9, <1>10, <1>11, ChangeOfMonsIsServed DEF d

-----------------------------------------------------------------------------
(* The user's steps.                                                       *)
LEMMA MonitorsArePend ==
  /\ MonitorChanges = Pend(calls, MonsChanges)
  /\ Pending("monitors") = Pend(calls, {"monitors"})
BY DEF MonitorChanges, Pending, Pend, MonsChanges

LEMMA MonInvIs ==
  ASSUME UNCHANGED <<dbMonitors, currentTeam, mounted>>, NEW l, NEW f,
         mons' = l, draft' = f,
         MonsInv(calls', l, f, currentTeam, IsAsked, dbMonitors)
  PROVE  MonInv'
<1>1. /\ currentTeam' = currentTeam /\ dbMonitors' = dbMonitors
      /\ IsAsked' = IsAsked
  BY DEF IsAsked
<1> QED  BY <1>1 DEF MonInv

(* The record of a store that asks again.                                   *)
LEMMA AskedIsShaped ==
  ASSUME NEW m, MonsShape(m)
  PROVE  \A l \in {Asked(m), AskedFirst(m)} :
           /\ MonsShape(l) /\ l.latest # "shown"
           /\ l.latest = "pending" => Pend(calls, MonsChanges) = {}
           /\ l.updating = m.updating /\ l.stack = m.stack
           /\ l = AskedFirst(m) => l.detached = (m.stack # <<>>)
<1> DEFINE a == Asked(m)  b == AskedFirst(m)
<1>1. /\ a = [x \in MonsFields |-> a[x]] /\ a.page = m.page /\ a.stack = m.stack
      /\ a.updating = m.updating
      /\ a.latest = Unless(MonitorChanges # {}, "pending")
  BY DEF Asked, MonsShape, MonsFields
<1> HIDE DEF a
<1>2. /\ b = [x \in MonsFields |-> b[x]] /\ b.page = m.page /\ b.stack = m.stack
      /\ b.updating = m.updating /\ b.latest = a.latest
      /\ b.detached = (m.stack # <<>>)
  BY <1>1 DEF AskedFirst, MonsFields, a
<1> HIDE DEF b
<1>3. a.latest # "shown" /\ (a.latest = "pending" => Pend(calls, MonsChanges) = {})
  BY <1>1, MonitorsArePend DEF Unless
<1>4. MonsShape(a) /\ MonsShape(b)
  BY <1>1, <1>2 DEF MonsShape
<1>5. \A l : l = a \/ l = b =>
        /\ MonsShape(l) /\ l.latest # "shown"
        /\ l.latest = "pending" => Pend(calls, MonsChanges) = {}
        /\ l.updating = m.updating /\ l.stack = m.stack
        /\ l = b => l.detached = (m.stack # <<>>)
  BY <1>1, <1>2, <1>3, <1>4
<1> QED  BY <1>5 DEF a, b

Stacked(m, k) == [Asked(m) EXCEPT !.stack = k, !.detached = FALSE]

LEMMA StackIsShaped ==
  ASSUME NEW m, MonsShape(m), NEW k, IsSequence(k)
  PROVE  /\ MonsShape(Stacked(m, k)) /\ Stacked(m, k).latest # "shown"
         /\ Stacked(m, k).latest = "pending" => Pend(calls, MonsChanges) = {}
         /\ Stacked(m, k).updating = m.updating /\ Stacked(m, k).stack = k
<1> DEFINE a == Asked(m)  l == Stacked(m, k)
<1>1. /\ a = [x \in MonsFields |-> a[x]] /\ a.page = m.page
      /\ a.updating = m.updating
      /\ a.latest = Unless(MonitorChanges # {}, "pending")
  BY DEF Asked, MonsShape, MonsFields
<1>2. l = [a EXCEPT !.stack = k, !.detached = FALSE]
  BY DEF Stacked
<1> HIDE DEF a, l
<1>3. /\ l = [x \in MonsFields |-> l[x]] /\ l.page = a.page /\ l.stack = k
      /\ l.updating = a.updating /\ l.latest = a.latest
  BY <1>1, <1>2 DEF MonsFields
<1>4. /\ MonsShape(l) /\ l.latest # "shown"
      /\ l.latest = "pending" => Pend(calls, MonsChanges) = {}
      /\ l.updating = m.updating /\ l.stack = k
  BY <1>1, <1>3, MonitorsArePend DEF MonsShape, Unless
<1> QED  BY <1>4 DEF l

LEMMA PoppedIsSequence ==
  ASSUME NEW s, IsSequence(s), s # <<>>
  PROVE  IsSequence(Front(s))
<1>1. PICK S : s \in Seq(S)
  BY DEF IsSequence
<1>2. Front(s) \in Seq(S)
  BY <1>1 DEF Front
<1> QED  BY <1>2 DEF IsSequence

LEMMA TopOfPushed ==
  ASSUME NEW s, IsSequence(s), NEW n
  PROVE  Top(Append(s, n)) = n
<1>1. PICK S : s \in Seq(S)
  BY DEF IsSequence
<1>2. s \in Seq(S \cup {n})
  BY <1>1
<1> QED  BY <1>2 DEF Top, Last

LEMMA ListClicksKeepMons ==
  ASSUME TeamsInv, MonInv, mounted, UNCHANGED mounted, ListClicks
  PROVE  MonInv'
<1>1. currentTeam # None
  BY DEF ListClicks, RefreshMonitors, GoNext, GoPrev, TableClickable, View
<1>2. currentTeam \in Teams /\ AllCalls(calls)
  BY <1>1 DEF TeamsInv
<1>3. /\ MonsShape(mons) /\ DraftShape(draft) /\ DbShape(dbMonitors)
      /\ MonsSpin(calls, mons, draft, IsAsked)
  BY DEF MonInv, MonsInv
<1>4. ASSUME NEW l, NEW c, Render(l, table, calls \o MonitorsCall(currentTeam, c, <<>>)),
             MonsShape(l), l.latest # "shown",
             l.latest = "pending" => Pend(calls, MonsChanges) = {},
             l.updating = mons.updating, ~l.detached => c = Top(l.stack),
             UNCHANGED <<teamVars, dbMonitors, draft>>
      PROVE  MonInv'
  <2>1. mons' = l /\ MonsInv(calls', l, draft, currentTeam, IsAsked, dbMonitors)
    BY <1>2, <1>3, <1>4, MonsAskedOnScreen DEF MonsSpin
  <2> QED  BY <1>4, <2>1, MonInvIs DEF teamVars
<1>5. CASE RefreshMonitors
  <2> DEFINE l == AskedFirst(mons)
  <2>1. /\ Render(l, table, calls \o MonitorsCall(currentTeam, 0, <<>>))
        /\ UNCHANGED <<teamVars, dbMonitors, draft>>
    BY <1>5 DEF RefreshMonitors, FirstCall
  <2>2. /\ MonsShape(l) /\ l.latest # "shown"
        /\ l.latest = "pending" => Pend(calls, MonsChanges) = {}
        /\ l.updating = mons.updating /\ l.stack = mons.stack
        /\ l.detached = (mons.stack # <<>>)
    BY <1>3, AskedIsShaped
  <2> HIDE DEF l
  <2>3. ~l.detached => 0 = Top(l.stack)
    BY <2>2 DEF Top
  <2> QED  BY <1>4, <2>1, <2>2, <2>3
<1>6. CASE GoNext
  <2> DEFINE k == Append(mons.stack, mons.next)
             l == Stacked(mons, k)
  <2>1. /\ Render(l, table, calls \o MonitorsCall(currentTeam, mons.next, <<>>))
        /\ UNCHANGED <<teamVars, dbMonitors, draft>>
    <3>1. Asked(mons).stack = mons.stack
      BY <1>3, AskedIsShaped
    <3>2. [Asked(mons) EXCEPT !.stack = Append(@, mons.next), !.detached = FALSE] = l
      BY <3>1 DEF Stacked
    <3> QED  BY <1>6, <3>2 DEF GoNext
  <2>2. IsSequence(k) /\ Top(k) = mons.next
    BY <1>3, AppendIsMore, TopOfPushed DEF MonsShape
  <2> HIDE DEF k
  <2>3. /\ MonsShape(l) /\ l.latest # "shown"
        /\ l.latest = "pending" => Pend(calls, MonsChanges) = {}
        /\ l.updating = mons.updating /\ l.stack = k
    <3>1. MonsShape(mons) /\ IsSequence(k)
      BY <1>3, <2>2
    <3> QED  BY <3>1, StackIsShaped
  <2> HIDE DEF l
  <2> QED  BY <1>4, <2>1, <2>2, <2>3
<1>7. CASE GoPrev
  <2> DEFINE k == Front(mons.stack)
             l == Stacked(mons, k)
  <2>1. /\ Render(l, table, calls \o MonitorsCall(currentTeam, Top(k), <<>>))
        /\ UNCHANGED <<teamVars, dbMonitors, draft>> /\ mons.stack # <<>>
    BY <1>7 DEF GoPrev, Stacked
  <2>2. IsSequence(k)
    BY <1>3, <2>1, PoppedIsSequence DEF MonsShape
  <2> HIDE DEF k
  <2>3. /\ MonsShape(l) /\ l.latest # "shown"
        /\ l.latest = "pending" => Pend(calls, MonsChanges) = {}
        /\ l.updating = mons.updating /\ l.stack = k
    <3>1. MonsShape(mons) /\ IsSequence(k)
      BY <1>3, <2>2
    <3> QED  BY <3>1, StackIsShaped
  <2> HIDE DEF l
  <2> QED  BY <1>4, <2>1, <2>2, <2>3
<1> QED  BY <1>5, <1>6, <1>7 DEF ListClicks

(* A change as it is sent: what becomes of the record of the store.         *)
LEMMA ChangingIsShaped ==
  ASSUME MonsShape(mons), NEW u, NEW l,
         l = [mons EXCEPT !.updating = u, !.error = FALSE, !.latest = AfterChange(@)]
           \/ l = [mons EXCEPT !.error = FALSE, !.latest = AfterChange(@)]
  PROVE  /\ MonsShape(l)
         /\ \A z \in MonsFields \ {"updating", "error", "latest"} : l[z] = mons[z]
         /\ l.latest =
              Unless(Pend(calls, MonsChanges) # {} \/ Pend(calls, {"monitors"}) # {},
                     mons.latest)
         /\ l = [mons EXCEPT !.error = FALSE, !.latest = AfterChange(@)]
              => l.updating = mons.updating
<1>1. mons = [x \in MonsFields |-> mons[x]]
  BY DEF MonsShape
<1>2. /\ l = [x \in MonsFields |-> l[x]]
      /\ \A z \in MonsFields \ {"updating", "error", "latest"} : l[z] = mons[z]
      /\ l.latest = AfterChange(mons.latest)
      /\ l = [mons EXCEPT !.error = FALSE, !.latest = AfterChange(@)]
           => l.updating = mons.updating
  BY <1>1 DEF MonsFields
<1>3. l.page = mons.page /\ l.stack = mons.stack
  BY <1>2 DEF MonsFields
<1> QED  BY <1>2, <1>3, MonitorsArePend DEF MonsShape, AfterChange

LEMMA MonsChangeCalled ==
  ASSUME AllCalls(calls), NEW e, IsCall(e), e.op \in MonsChanges, e.reply = NoReply,
         NEW l, NEW f, NEW t, NEW asked, NEW db,
         MonsInv(calls, mons, draft, t, asked, db), asked,
         MonsShape(l), DraftShape(f),
         \A z \in MonsFields \ {"updating", "error", "latest"} : l[z] = mons[z],
         l.latest = Unless(Pend(calls, MonsChanges) # {}
                             \/ Pend(calls, {"monitors"}) # {}, mons.latest),
         l.updating = mons.updating \/ e.op \in TableChanges,
         f.open = draft.open,
         f.submitting = draft.submitting \/ (e.op = "create" /\ e.mine)
  PROVE  \E x : /\ x = Append(calls, e) /\ AllCalls(x)
                /\ MonsInv(x, l, f, t, asked, db)
<1> DEFINE x == Append(calls, e)
<1>1. /\ AllCalls(x)
      /\ \A O : e.op \notin O => Keeps(calls, x, O)
      /\ \A O : e.op \in O => Asks(calls, x, O, e)
  BY Sending
<1>2. x = Append(calls, e)
  OBVIOUS
<1> HIDE DEF x
<1>3. Asks(calls, x, MonsChanges, e) /\ Keeps(calls, x, {"monitors"})
  BY <1>1 DEF MonsChanges
<1>4. MonsInv(x, l, f, t, asked, db)
  BY <1>3, MonsChangeIsSent
<1> QED  BY Zenon, <1>1, <1>2, <1>4

LEMMA ConfirmKeepsMons ==
  ASSUME TeamsInv, MonInv, IsAsked, NEW e, IsCall(e), e.op \in TableChanges,
         e.reply = NoReply, Render(Updating, table, Append(calls, e)),
         UNCHANGED <<dbMonitors, draft, currentTeam, mounted>>
  PROVE  MonInv'
<1> DEFINE l == Updating
<1>1. /\ MonsShape(mons) /\ DraftShape(draft) /\ AllCalls(calls)
      /\ MonsInv(calls, mons, draft, currentTeam, IsAsked, dbMonitors)
  BY DEF MonInv, MonsInv, TeamsInv
<1>2. l = [mons EXCEPT !.updating = table.selected.id, !.error = FALSE,
                       !.latest = AfterChange(@)]
  BY DEF Updating
<1> HIDE DEF l
<1>3. /\ MonsShape(l)
      /\ \A z \in MonsFields \ {"updating", "error", "latest"} : l[z] = mons[z]
      /\ l.latest =
           Unless(Pend(calls, MonsChanges) # {} \/ Pend(calls, {"monitors"}) # {},
                  mons.latest)
  BY <1>1, <1>2, ChangingIsShaped
<1>4. e.op \in MonsChanges
  BY DEF MonsChanges, TableChanges
<1>5. PICK x : /\ x = Append(calls, e) /\ AllCalls(x)
               /\ MonsInv(x, l, draft, currentTeam, IsAsked, dbMonitors)
  BY <1>1, <1>3, <1>4, MonsChangeCalled
<1>6. Render(l, table, x)
  BY Zenon, <1>5 DEF l
<1>7. mons' = l /\ MonsInv(calls', l, draft, currentTeam, IsAsked, dbMonitors)
  BY <1>5, <1>6, ListRendered
<1> QED  BY <1>7, MonInvIs

LEMMA RowClicksKeepMons ==
  ASSUME TeamsInv, MonInv, mounted, UNCHANGED mounted, RowClicks
  PROVE  MonInv'
<1>1. CASE Cancel \/ \E r \in mons.rows : OpenToggle(r) \/ OpenDelete(r)
  <2>1. UNCHANGED <<calls, mons, draft, dbMonitors, currentTeam>>
    BY <1>1 DEF Cancel, OpenToggle, OpenDelete, teamVars
  <2> QED  BY <2>1 DEF MonInv, IsAsked
<1>2. ASSUME ConfirmToggle \/ ConfirmDelete
      PROVE  /\ currentTeam \in Teams /\ IsAsked
             /\ UNCHANGED <<dbMonitors, draft, currentTeam>>
  BY <1>2 DEF ConfirmToggle, ConfirmDelete, TeamsInv, DialogOpen, IsAsked, teamVars
<1>3. CASE ConfirmToggle
  <2> DEFINE y == ~table.selected.enabled
             e == [op |-> "toggle", team |-> currentTeam, id |-> table.selected.id,
                   enable |-> y, mine |-> TRUE, reply |-> NoReply]
  <2>1. y \in BOOLEAN
    OBVIOUS
  <2>2. Render(Updating, table, Append(calls, e))
    BY <1>3 DEF ConfirmToggle
  <2> HIDE DEF y
  <2>3. IsCall(e) /\ e.op \in TableChanges /\ e.reply = NoReply
    BY <1>2, <1>3, <2>1 DEF IsCall, TableChanges
  <2> HIDE DEF e
  <2> QED  BY <1>2, <1>3, <2>2, <2>3, ConfirmKeepsMons
<1>4. CASE ConfirmDelete
  <2> DEFINE e == [op |-> "deleteMonitor", team |-> currentTeam,
                   id |-> table.selected.id, mine |-> TRUE, reply |-> NoReply]
  <2>2. Render(Updating, table, Append(calls, e))
    BY <1>4 DEF ConfirmDelete
  <2>3. IsCall(e) /\ e.op \in TableChanges /\ e.reply = NoReply
    BY <1>2, <1>4 DEF IsCall, TableChanges
  <2> HIDE DEF e
  <2> QED  BY <1>2, <1>4, <2>2, <2>3, ConfirmKeepsMons
<1> QED  BY <1>1, <1>3, <1>4 DEF RowClicks

LEMMA OpenNewKeepsMons ==
  ASSUME TeamsInv, MonInv, mounted, UNCHANGED mounted, OpenNew
  PROVE  MonInv'
<1> DEFINE a == Abandoned(calls)  e == Read("plugins", currentTeam)
           x == Append(a, e)
<1>1. /\ currentTeam # None /\ currentTeam \in Teams /\ AllCalls(calls)
      /\ UNCHANGED <<currentTeam, dbMonitors, mons>>
      /\ draft' = [NoDraft EXCEPT !.open = TRUE, !.channels = defaults]
      /\ calls' = a \o <<e>>
      /\ MonsInv(calls, mons, draft, currentTeam, IsAsked, dbMonitors)
  BY DEF OpenNew, FetchPlugins, ListPluginsCall, TeamsInv, teamVars, MonInv
<1>2. Marks(calls, a, TableChanges)
  BY DEF Marks, Abandoned, TableChanges
<1>3. IsCall(e) /\ e.op = "plugins"
  BY <1>1, CallsAreCalls
<1> HIDE DEF a, e
<1>4. MonsInv(a, mons, draft, currentTeam, IsAsked, dbMonitors) /\ AllCalls(a)
  BY <1>1, <1>2, MonsMarked
<1>5. /\ a \o <<e>> = x
      /\ \A O : e.op \notin O => Keeps(a, x, O)
  BY <1>3, <1>4, Sending
<1> HIDE DEF x
<1>6. calls' = x /\ \A O : e.op \notin O => Keeps(a, x, O)
  BY Zenon, <1>1, <1>5
<1>7. Keeps(a, calls', {"monitors"}) /\ Keeps(a, calls', MonsChanges)
  BY <1>3, <1>6 DEF MonsChanges
<1>8. MonsInv(calls', mons, draft, currentTeam, IsAsked, dbMonitors)
  BY <1>4, <1>7, MonsKept
<1>9. DraftShape(draft') /\ draft'.open /\ ~draft'.submitting
  BY <1>1 DEF NoDraft, DraftShape, DraftFields
<1>10. IsAsked
  BY <1>1 DEF IsAsked
<1>11. \A f : DraftShape(f) /\ f.open /\ ~f.submitting =>
         MonsInv(calls', mons, f, currentTeam, IsAsked, dbMonitors)
  BY <1>8, <1>10, MonsDrafted
<1>12. MonsInv(calls', mons, draft', currentTeam, IsAsked, dbMonitors)
  BY <1>9, <1>11
<1>13. IsAsked' = IsAsked
  BY <1>1 DEF IsAsked
<1> QED  BY <1>1, <1>12, <1>13 DEF MonInv

LEMMA LeaveNewKeepsMons ==
  ASSUME TeamsInv, MonInv, mounted, UNCHANGED mounted, LeaveNew
  PROVE  MonInv'
<1> DEFINE s == [i \in DOMAIN calls |->
                   IF calls[i].op = "create" THEN [calls[i] EXCEPT !.mine = FALSE]
                   ELSE calls[i]]
           l == AskedFirst(mons)
<1>1. /\ currentTeam # None /\ currentTeam \in Teams /\ AllCalls(calls)
      /\ UNCHANGED <<currentTeam, dbMonitors>> /\ draft' = NoDraft
      /\ Render(l, NoTable, s \o MonitorsCall(currentTeam, 0, <<>>))
  BY DEF LeaveNew, TeamsInv, teamVars, FirstCall
<1>2. Marks(calls, s, {"create"})
  BY DEF Marks
<1> HIDE DEF s
<1>3. /\ AllCalls(s) /\ DOMAIN s = DOMAIN calls
      /\ \A i \in DOMAIN calls :
           /\ s[i].op = calls[i].op /\ DOMAIN s[i] = DOMAIN calls[i]
           /\ \A x \in DOMAIN calls[i] : x # "mine" => s[i][x] = calls[i][x]
           /\ calls[i].op \notin {"create"} => s[i] = calls[i]
           /\ calls[i].op \in {"create"} => s[i].mine = FALSE
      /\ \A O : Pend(s, O) = Pend(calls, O)
      /\ \A O : O \cap {"create"} = {} => Keeps(calls, s, O)
  BY <1>1, <1>2, Marking
<1>4. Changes(calls) => Changes(s)
  <2>1. \A i \in Pend(calls, MonsChanges) : i \in DOMAIN calls
    BY DEF Pend
  <2> QED  BY <1>3, <2>1 DEF Changes
<1>5. /\ MonsShape(mons) /\ DbShape(dbMonitors) /\ (mons.updating # 0 => Changes(calls))
  BY DEF MonInv, MonsInv, MonsSpin
<1>6. /\ MonsShape(l) /\ l.latest # "shown"
      /\ l.latest = "pending" => Pend(s, MonsChanges) = {}
      /\ l.updating = mons.updating /\ l.stack = mons.stack
      /\ l.detached = (mons.stack # <<>>)
  BY <1>3, <1>5, AskedIsShaped
<1> HIDE DEF l
<1>7. /\ DraftShape(NoDraft) /\ ~NoDraft.open /\ ~NoDraft.submitting
      /\ ~l.detached => 0 = Top(l.stack)
  BY <1>6 DEF NoDraft, DraftShape, DraftFields, Top
<1>8. mons' = l /\ MonsInv(calls', l, NoDraft, currentTeam, IsAsked, dbMonitors)
  BY <1>1, <1>3, <1>4, <1>5, <1>6, <1>7, MonsAskedOnScreen
<1> QED  BY <1>1, <1>8, MonInvIs

LEMMA FormKeepsMons ==
  ASSUME TeamsInv, MonInv, mounted, UNCHANGED mounted,
         HandleSubmit \/ \E y \in Types : ToggleChannel(y)
  PROVE  MonInv'
<1>1. /\ UNCHANGED <<currentTeam, dbMonitors>> /\ AllCalls(calls)
      /\ MonsShape(mons) /\ DraftShape(draft)
      /\ MonsInv(calls, mons, draft, currentTeam, IsAsked, dbMonitors)
  BY DEF HandleSubmit, ToggleChannel, TeamsInv, teamVars, MonInv, MonsInv
<1>2. IsAsked' = IsAsked
  BY <1>1 DEF IsAsked
<1>3. CASE \E y \in Types : ToggleChannel(y)
  <2>1. /\ UNCHANGED <<calls, mons>> /\ DraftShape(draft')
        /\ draft'.open = draft.open /\ draft'.submitting = draft.submitting
    BY <1>1, <1>3 DEF ToggleChannel, DraftShape, DraftFields
  <2>2. \A f : DraftShape(f) /\ f.open = draft.open /\ f.submitting = draft.submitting
          => MonsInv(calls, mons, f, currentTeam, IsAsked, dbMonitors)
    <3>1. (draft.submitting => Submits(calls)) /\ (draft.open => IsAsked)
      BY <1>1 DEF MonsInv, MonsSpin
    <3> QED  BY <1>1, <3>1, MonsDrafted
  <2>3. MonsInv(calls, mons, draft', currentTeam, IsAsked, dbMonitors)
    BY <2>1, <2>2
  <2> QED  BY <1>1, <1>2, <2>1, <2>3 DEF MonInv
<1>4. CASE HandleSubmit
  <2> DEFINE l == [mons EXCEPT !.error = FALSE, !.latest = AfterChange(@)]
             f == [draft EXCEPT !.submitting = TRUE, !.error = FALSE]
             e == [op |-> "create", team |-> currentTeam, channels |-> draft.channels,
                   mine |-> TRUE, reply |-> NoReply]
  <2>1. /\ currentTeam \in Teams /\ IsAsked /\ draft' = f /\ mons' = l
        /\ calls' = Append(calls, e)
    BY <1>4 DEF HandleSubmit, TeamsInv, IsAsked
  <2>2. DraftShape(f) /\ f.open = draft.open
    BY <1>1 DEF DraftShape, DraftFields
  <2>3. IsCall(e) /\ e.op = "create" /\ e.mine /\ e.reply = NoReply
    BY <2>1 DEF IsCall
  <2>4. l = [mons EXCEPT !.error = FALSE, !.latest = AfterChange(@)]
    OBVIOUS
  <2> HIDE DEF l, f, e
  <2>5. /\ MonsShape(l)
        /\ \A z \in MonsFields \ {"updating", "error", "latest"} : l[z] = mons[z]
        /\ l.latest =
             Unless(Pend(calls, MonsChanges) # {} \/ Pend(calls, {"monitors"}) # {},
                    mons.latest)
        /\ l.updating = mons.updating
    BY <1>1, <2>4, ChangingIsShaped
  <2>6. e.op \in MonsChanges
    BY <2>3 DEF MonsChanges
  <2>7. PICK x : /\ x = Append(calls, e) /\ AllCalls(x)
                 /\ MonsInv(x, l, f, currentTeam, IsAsked, dbMonitors)
    BY <1>1, <2>1, <2>2, <2>3, <2>5, <2>6, MonsChangeCalled
  <2>8. calls' = x
    BY Zenon, <2>1, <2>7
  <2> QED  BY <1>1, <2>1, <2>7, <2>8, MonInvIs
<1> QED  BY <1>3, <1>4

LEMMA NewClicksKeepMons ==
  ASSUME TeamsInv, MonInv, mounted, UNCHANGED mounted, NewClicks
  PROVE  MonInv'
BY OpenNewKeepsMons, LeaveNewKeepsMons, FormKeepsMons DEF NewClicks

-----------------------------------------------------------------------------
(* The answers.                                                            *)
LEMMA OthersAreWithout ==
  ASSUME AllCalls(calls), NEW i \in DOMAIN calls
  PROVE  /\ IsWithout(calls, Others(i), i) /\ AllCalls(Others(i))
         /\ i \in Nat
         /\ \A O : calls[i].op \notin O => Keeps(calls, Others(i), O)
         /\ \A O : calls[i].op \in O => Loses(calls, Others(i), O, i)
<1>1. /\ AllCalls(Others(i))
      /\ \A O : calls[i].op \notin O => Keeps(calls, Others(i), O)
      /\ \A O : calls[i].op \in O => Loses(calls, Others(i), O, i)
  BY Removing DEF Others
<1>2. i \in Nat
  BY Numbered DEF AllCalls
<1> QED  BY <1>1, <1>2 DEF IsWithout

(* A fetch is over: what the answer makes of the store, and AfterFetch.     *)
LEMMA FetchKeepsMons ==
  ASSUME TeamsInv, MonInv, UNCHANGED mounted, NEW i \in DOMAIN calls,
         FetchMonitorsSucceeds(i) \/ FetchMonitorsFails(i)
  PROVE  MonInv'
<1> DEFINE c == calls[i]  x == Others(i)
           won == [mons EXCEPT !.rows = c.reply.rows, !.next = c.reply.next,
             !.loading = FALSE, !.page = [team |-> c.team, cursor |-> c.cursor],
             !.latest = Fate(@, i)]
           lost == [mons EXCEPT !.loading = FALSE, !.error = TRUE,
                                !.latest = FateOfFailed(@, i)]
           Over(l) ==
             \/ /\ c.reply # NoReply /\ l.rows = c.reply.rows
                /\ l.page = [team |-> c.team, cursor |-> c.cursor]
                /\ l.latest = IF mons.latest # "pending" THEN "stale"
                              ELSE IF Newest(calls, i, {"monitors"}) THEN "shown"
                              ELSE "pending"
             \/ /\ l.rows = mons.rows /\ l.page = mons.page
                /\ l.latest = IF mons.latest = "pending" /\ Newest(calls, i, {"monitors"})
                              THEN "stale" ELSE mons.latest
<1>1. /\ UNCHANGED <<currentTeam, dbMonitors>> /\ AllCalls(calls)
      /\ c.op = "monitors" /\ IsCall(c) /\ i \in Pend(calls, {"monitors"})
  BY DEF FetchMonitorsSucceeds, FetchMonitorsFails, teamVars, TeamsInv, Pending,
         Pend, AllCalls
<1>2. /\ MonsShape(mons) /\ DraftShape(draft) /\ DbShape(dbMonitors)
      /\ MonsSpin(calls, mons, draft, IsAsked)
      /\ MonsInv(calls, mons, draft, currentTeam, IsAsked, dbMonitors)
  BY DEF MonInv, MonsInv
<1>3. currentTeam \in Teams /\ currentTeam # None
  BY <1>1 DEF TeamsInv, TeamOps
<1>4. /\ IsWithout(calls, x, i) /\ AllCalls(x) /\ i \in Nat
      /\ Keeps(calls, x, MonsChanges)
  BY <1>1, OthersAreWithout DEF MonsChanges
<1>5. IsNewest(i) <=> Newest(calls, i, {"monitors"})
  BY <1>1, MonitorsArePend DEF IsNewest, Newest
<1>6. PICK l : /\ AfterFetch(i, l) /\ MonsShape(l) /\ ~l.loading /\ Over(l)
               /\ \A z \in {"stack", "updating", "detached"} : l[z] = mons[z]
  <2>1. ASSUME NEW l, l = won \/ l = lost
        PROVE  /\ l = [z \in MonsFields |-> l[z]] /\ l.stack = mons.stack /\ ~l.loading
               /\ l.page = [team |-> l.page.team, cursor |-> l.page.cursor]
               /\ l.updating = mons.updating /\ l.detached = mons.detached
    <3>1. mons = [z \in MonsFields |-> mons[z]]
          /\ mons.page = [team |-> mons.page.team, cursor |-> mons.page.cursor]
      BY <1>2 DEF MonsShape
    <3>2. CASE l = won
      BY <3>1, <3>2 DEF MonsFields
    <3>3. CASE l = lost
      BY <3>1, <3>3 DEF MonsFields
    <3> QED  BY <2>1, <3>2, <3>3
  <2>2. CASE FetchMonitorsSucceeds(i)
    <3>1. AfterFetch(i, won) /\ c.reply # NoReply
      BY <2>2 DEF FetchMonitorsSucceeds, Served
    <3>2. Over(won)
      BY <1>2, <1>5, <3>1 DEF Fate, MonsShape, MonsFields
    <3> HIDE DEF won, Over
    <3> QED  BY Zenon, <1>2, <2>1, <3>1, <3>2 DEF MonsShape
  <2>3. CASE FetchMonitorsFails(i)
    <3>1. AfterFetch(i, lost)
      BY <2>3 DEF FetchMonitorsFails
    <3>2. Over(lost)
      BY <1>2, <1>5 DEF FateOfFailed, MonsShape, MonsFields
    <3> HIDE DEF lost, Over
    <3> QED  BY Zenon, <1>2, <2>1, <3>1, <3>2 DEF MonsShape
  <2> QED  BY <2>2, <2>3
<1> HIDE DEF x, won, lost
<1>7. ASSUME NEW f, DraftShape(f), f = draft \/ (~f.open /\ ~draft.open /\ ~f.submitting),
             c.then = <<>> \/ ~f.submitting
      PROVE  MonsInv(x, l, f, currentTeam, IsAsked, dbMonitors)
  <2> DEFINE newest == Newest(calls, i, {"monitors"})
  <2>1. /\ newest <=> Newest(calls, i, {"monitors"})
        /\ \/ /\ c.reply # NoReply /\ l.rows = c.reply.rows
              /\ l.page = [team |-> c.team, cursor |-> c.cursor]
              /\ l.latest = IF mons.latest # "pending" THEN "stale"
                            ELSE IF newest THEN "shown" ELSE "pending"
           \/ /\ l.rows = mons.rows /\ l.page = mons.page
              /\ l.latest = IF mons.latest = "pending" /\ newest THEN "stale"
                            ELSE mons.latest
    BY <1>6
  <2> HIDE DEF newest
  <2> QED  BY <1>1, <1>2, <1>4, <1>6, <1>7, <2>1, MonsFetched
<1>8. NoDraft = [z \in DraftFields |-> NoDraft[z]] /\ ~NoDraft.open /\ ~NoDraft.submitting
  BY DEF NoDraft, DraftFields
<1>9. CASE c.then = <<>>
  <2>1. Render(l, table, x) /\ draft' = draft
    BY <1>6, <1>9 DEF AfterFetch, x
  <2>2. MonsInv(x, l, draft, currentTeam, IsAsked, dbMonitors)
    BY <1>2, <1>7, <1>9
  <2>3. mons' = l /\ MonsInv(calls', l, draft, currentTeam, IsAsked, dbMonitors)
    BY <1>4, <2>1, <2>2, ListRendered
  <2> QED  BY <1>1, <2>1, <2>3, MonInvIs
<1>10. CASE c.then # <<>> /\ draft.open
  <2> DEFINE m == AskedFirst(l)
  <2>1. /\ Render(m, NoTable, x \o MonitorsCall(currentTeam, 0, <<>>))
        /\ draft' = NoDraft
    BY <1>3, <1>6, <1>10 DEF AfterFetch, FirstCall, x
  <2>2. /\ MonsShape(m) /\ m.latest # "shown"
        /\ m.latest = "pending" => Pend(calls, MonsChanges) = {}
        /\ m.updating = l.updating /\ m.stack = l.stack
        /\ m.detached = (l.stack # <<>>)
    BY <1>6, AskedIsShaped
  <2> HIDE DEF m
  <2>3. ~m.detached => 0 = Top(m.stack)
    BY <2>2 DEF Top
  <2>4. m.latest = "pending" => Pend(x, MonsChanges) = {}
    BY <1>4, <2>2, NoneKept
  <2>5. m.updating # 0 => Changes(x)
    BY <1>2, <1>4, <1>6, <2>2 DEF MonsSpin, Changes, Keeps
  <2>6. DraftShape(NoDraft)
    BY <1>8 DEF DraftShape
  <2>7. mons' = m /\ MonsInv(calls', m, NoDraft, currentTeam, IsAsked, dbMonitors)
    BY <1>2, <1>3, <1>4, <1>8, <2>1, <2>2, <2>3, <2>4, <2>5, <2>6, MonsAskedOnScreen
  <2> QED  BY <1>1, <2>1, <2>7, MonInvIs
<1>11. CASE c.then # <<>> /\ ~draft.open
  <2>1. Render(l, table, x) /\ draft' = NoDraft
    BY <1>6, <1>11 DEF AfterFetch, x
  <2>2. MonsInv(x, l, NoDraft, currentTeam, IsAsked, dbMonitors)
    BY <1>7, <1>8, <1>11 DEF DraftShape
  <2>3. mons' = l /\ MonsInv(calls', l, NoDraft, currentTeam, IsAsked, dbMonitors)
    BY <1>4, <2>1, <2>2, ListRendered
  <2> QED  BY <1>1, <2>1, <2>3, MonInvIs
<1> QED  BY <1>9, <1>10, <1>11

(* A change of a row is answered, or failed.                                *)
LEMMA ChangeKeepsMons ==
  ASSUME TeamsInv, MonInv, UNCHANGED mounted, NEW i \in DOMAIN calls,
         ToggleSucceeds(i) \/ DeleteMonitorSucceeds(i) \/ ChangeFails(i)
  PROVE  MonInv'
<1> DEFINE c == calls[i]  x == Others(i)
<1>1. /\ UNCHANGED <<currentTeam, dbMonitors, draft>> /\ AllCalls(calls)
      /\ c.op \in TableChanges /\ i \in Pend(calls, MonsChanges)
  BY DEF ToggleSucceeds, DeleteMonitorSucceeds, ChangeFails, teamVars, TeamsInv,
         Pending, Pend, TableChanges, MonsChanges
<1>2. /\ MonsShape(mons) /\ DraftShape(draft)
      /\ MonsInv(calls, mons, draft, currentTeam, IsAsked, dbMonitors)
  BY DEF MonInv, MonsInv
<1>3. IsWithout(calls, x, i) /\ AllCalls(x)
  BY <1>1, OthersAreWithout
<1>4. mons = [z \in MonsFields |-> mons[z]]
  BY <1>2 DEF MonsShape
<1>5. c.op # "create"
  BY <1>1 DEF TableChanges
<1>6. PICK l, tbl :
        /\ Render(l, tbl, x)
        /\ l = [z \in MonsFields |-> l[z]] /\ l.updating = 0
        /\ \A z \in {"stack", "page", "detached", "loading"} : l[z] = mons[z]
        /\ \/ l.latest = "stale"
           \/ /\ l.latest = mons.latest /\ c.reply # NoReply
              /\ l.rows = RowsAfter(c, mons.rows)
  <2>1. CASE ToggleSucceeds(i)
    <3> DEFINE R == {IF r.id = c.id THEN [r EXCEPT !.enabled = c.enable] ELSE r :
                       r \in mons.rows}
               l == [mons EXCEPT !.updating = 0, !.rows = R]
    <3>1. /\ \E tbl : Render(l, tbl, x)
          /\ c.reply # NoReply /\ c.op = "toggle"
      <4>1. [mons EXCEPT !.updating = 0,
               !.rows = {IF r.id = c.id THEN [r EXCEPT !.enabled = c.enable]
                         ELSE r : r \in @}] = l
        OBVIOUS
      <4> HIDE DEF x, l
      <4> QED  BY Zenon, <2>1, <4>1 DEF ToggleSucceeds, Served, Pending, x
    <3>2. RowsAfter(c, mons.rows) = R
      BY <3>1 DEF RowsAfter
    <3> HIDE DEF R
    <3>3. /\ l = [z \in MonsFields |-> l[z]] /\ l.updating = 0 /\ l.rows = R
          /\ l.latest = mons.latest
          /\ \A z \in {"stack", "page", "detached", "loading"} : l[z] = mons[z]
      BY <1>4 DEF MonsFields
    <3> HIDE DEF l, x
    <3> QED  BY Zenon, <3>1, <3>2, <3>3
  <2>2. CASE DeleteMonitorSucceeds(i)
    <3> DEFINE R == {r \in mons.rows : r.id # c.id}
               l == [mons EXCEPT !.updating = 0, !.rows = R]
    <3>1. /\ \E tbl : Render(l, tbl, x)
          /\ c.reply # NoReply /\ c.op = "deleteMonitor"
      <4>1. [mons EXCEPT !.updating = 0, !.rows = {r \in @ : r.id # c.id}] = l
        OBVIOUS
      <4> HIDE DEF x, l
      <4> QED  BY Zenon, <2>2, <4>1 DEF DeleteMonitorSucceeds, Served, Pending, x
    <3>2. RowsAfter(c, mons.rows) = R
      BY <3>1 DEF RowsAfter
    <3> HIDE DEF R
    <3>3. /\ l = [z \in MonsFields |-> l[z]] /\ l.updating = 0 /\ l.rows = R
          /\ l.latest = mons.latest
          /\ \A z \in {"stack", "page", "detached", "loading"} : l[z] = mons[z]
      BY <1>4 DEF MonsFields
    <3> HIDE DEF l, x
    <3> QED  BY Zenon, <3>1, <3>2, <3>3
  <2>3. CASE ChangeFails(i)
    <3> DEFINE l == [mons EXCEPT !.updating = 0, !.error = TRUE, !.latest = "stale"]
    <3>1. Render(l, table, x)
      BY <2>3 DEF ChangeFails
    <3>2. /\ l = [z \in MonsFields |-> l[z]] /\ l.updating = 0 /\ l.latest = "stale"
          /\ \A z \in {"stack", "page", "detached", "loading"} : l[z] = mons[z]
      BY <1>4 DEF MonsFields
    <3> HIDE DEF l, x
    <3> QED  BY Zenon, <3>1, <3>2
  <2> QED  BY <2>1, <2>2, <2>3
<1> HIDE DEF x
<1>7. MonsShape(l)
  BY <1>2, <1>6 DEF MonsShape
<1>8. MonsInv(x, l, draft, currentTeam, IsAsked, dbMonitors)
  BY <1>1, <1>2, <1>3, <1>5, <1>6, <1>7, MonsChanged
<1>9. mons' = l /\ MonsInv(calls', l, draft, currentTeam, IsAsked, dbMonitors)
  BY <1>3, <1>6, <1>8, ListRendered
<1> QED  BY <1>1, <1>9, MonInvIs

(* The creation of a monitor failed.                                        *)
LEMMA CreateFailureKeepsMons ==
  ASSUME TeamsInv, MonInv, UNCHANGED mounted, NEW i \in DOMAIN calls,
         CreateMonitorFails(i)
  PROVE  MonInv'
<1> DEFINE c == calls[i]  x == Others(i)
           l == [mons EXCEPT !.error = TRUE, !.latest = "stale"]
           f == IF c.mine THEN [draft EXCEPT !.submitting = FALSE, !.error = TRUE]
                ELSE draft
<1>1. /\ UNCHANGED <<currentTeam, dbMonitors>> /\ AllCalls(calls)
      /\ c.op = "create" /\ i \in Pend(calls, MonsChanges)
      /\ draft' = f /\ Render(l, table, x)
  BY DEF CreateMonitorFails, teamVars, TeamsInv, Pending, Pend, MonsChanges
<1>2. /\ MonsShape(mons) /\ DraftShape(draft)
      /\ MonsInv(calls, mons, draft, currentTeam, IsAsked, dbMonitors)
  BY DEF MonInv, MonsInv
<1>3. IsWithout(calls, x, i) /\ AllCalls(x)
  BY <1>1, OthersAreWithout
<1>4. mons = [z \in MonsFields |-> mons[z]]
  BY <1>2 DEF MonsShape
<1>5. DraftShape(f) /\ f.open = draft.open /\ (f.submitting => draft.submitting /\ ~c.mine)
  BY <1>2 DEF DraftShape, DraftFields
<1>6. /\ l = [z \in MonsFields |-> l[z]] /\ l.updating = mons.updating
      /\ \A z \in {"stack", "page", "detached", "loading"} : l[z] = mons[z]
      /\ l.latest = "stale"
  BY <1>4 DEF MonsFields
<1> HIDE DEF x, f, l
<1>7. MonsShape(l)
  BY <1>2, <1>6 DEF MonsShape
<1>8. MonsInv(x, l, f, currentTeam, IsAsked, dbMonitors)
  BY <1>1, <1>2, <1>3, <1>5, <1>6, <1>7, MonsChanged
<1>9. mons' = l /\ MonsInv(calls', l, f, currentTeam, IsAsked, dbMonitors)
  BY <1>1, <1>3, <1>8, ListRendered
<1> QED  BY <1>1, <1>9, MonInvIs

(* The monitor is created: the list is asked for, and whoever submitted the *)
(* form waits for it.                                                      *)
LEMMA CreatedKeepsMons ==
  ASSUME TeamsInv, MonInv, UNCHANGED mounted, NEW i \in DOMAIN calls,
         CreateMonitorSucceeds(i)
  PROVE  MonInv'
<1> DEFINE c == calls[i]  x == Others(i)  n == <<c.channels>>
           m == [mons EXCEPT !.stack = <<>>, !.detached = FALSE]
           l == [Asked(m) EXCEPT !.latest =
                  Unless(MonitorChanges # {i}, "pending")]
<1>1. /\ UNCHANGED <<currentTeam, dbMonitors>> /\ AllCalls(calls)
      /\ c.op = "create" /\ i \in Pend(calls, MonsChanges)
  BY DEF CreateMonitorSucceeds, teamVars, TeamsInv, Pending, Pend, MonsChanges
<1>2. currentTeam \in Teams /\ currentTeam # None
  BY <1>1 DEF TeamsInv, TeamOps
<1>3. /\ draft' = draft
      /\ Render(l, table, x \o MonitorsCall(currentTeam, 0, n))
  BY <1>2 DEF CreateMonitorSucceeds
<1>4. /\ MonsShape(mons) /\ DraftShape(draft) /\ DbShape(dbMonitors)
      /\ MonsSpin(calls, mons, draft, IsAsked)
  BY DEF MonInv, MonsInv
<1>5. /\ IsWithout(calls, x, i) /\ AllCalls(x)
      /\ Loses(calls, x, MonsChanges, i)
  BY <1>1, OthersAreWithout DEF MonsChanges
<1>6. n # <<>>
  OBVIOUS
<1>7. mons = [z \in MonsFields |-> mons[z]]
      /\ mons.page = [team |-> mons.page.team, cursor |-> mons.page.cursor]
  BY <1>4 DEF MonsShape
<1>8. /\ l = [z \in MonsFields |-> l[z]] /\ l.updating = mons.updating
      /\ l.stack = <<>> /\ l.page = mons.page
      /\ l.latest = Unless(MonitorChanges # {i}, "pending")
  BY <1>7 DEF MonsFields, Asked
<1> HIDE DEF x, l, n
<1>9. MonsShape(l) /\ 0 = Top(l.stack)
  BY <1>7, <1>8, EmptyIsSequence DEF MonsShape, Top
<1>10. l.latest # "shown"
  BY <1>8 DEF Unless
<1>11. ASSUME l.latest = "pending"  PROVE Pend(x, MonsChanges) = {}
  <2>1. Pend(calls, MonsChanges) = {i}
    BY <1>8, <1>11, MonitorsArePend DEF Unless
  <2> QED  BY <1>5, <2>1 DEF Loses
<1>12. l.updating # 0 => Changes(x)
  BY <1>1, <1>4, <1>5, <1>8, SpinsWithout DEF MonsSpin, Changes, TableChanges
<1>13. draft.open => IsAsked
  BY <1>4 DEF MonsSpin
<1>14. mons' = l /\ MonsInv(calls', l, draft, currentTeam, IsAsked, dbMonitors)
  BY <1>2, <1>3, <1>4, <1>5, <1>6, <1>9, <1>10, <1>11, <1>12, <1>13, MonsAskedOnScreen
<1> QED  BY <1>1, <1>3, <1>14, MonInvIs

-----------------------------------------------------------------------------
(* The page on screen is rendered for another team.                         *)
LEMMA MonsRerender ==
  ASSUME TeamsInv, MonInv, area \in {"monitors", "new"}, Rerendered, mounted'
  PROVE  MonInv'
<1>1. currentTeam' \in Teams /\ IsAsked'
  <2>1. currentTeam' \in Teams
    BY Effects DEF Areas
  <2> QED  BY <2>1, ClientAssumption DEF IsAsked
<1>2. /\ MonsShape(mons) /\ DraftShape(draft) /\ DbShape(dbMonitors)
      /\ MonsSpin(calls, mons, draft, IsAsked) /\ AllCalls(calls)
      /\ MonsInv(calls, mons, draft, currentTeam, IsAsked, dbMonitors)
  BY DEF MonInv, MonsInv, TeamsInv
<1>3. CASE OnMonitors
  <2> DEFINE e == FirstMonitorsCall(currentTeam')  l == AskedFirst(mons)
  <2>1. PICK s : /\ s = calls \/ Marks(calls, s, TableChanges)
                 /\ Sends(s, calls', e, TeamOps)
                 /\ MonitorsRender(currentTeam')
    BY <1>3, Effects DEF Areas, TableChanges
  <2>2. /\ e.op = "monitors" /\ e.team = currentTeam' /\ e.cursor = 0
        /\ e.then = <<>> /\ e.reply = NoReply
    BY DEF FirstMonitorsCall
  <2>3. /\ MonsShape(l) /\ l.latest # "shown"
        /\ l.latest = "pending" => Pend(calls, MonsChanges) = {}
        /\ l.updating = mons.updating /\ l.stack = mons.stack
        /\ l.detached = (mons.stack # <<>>)
    BY <1>2, AskedIsShaped
  <2>4. mons' = l /\ UNCHANGED <<draft, dbMonitors>>
    BY <2>1 DEF MonitorsRender
  <2> HIDE DEF e, l
  <2>5. /\ MonsInv(s, mons, draft, currentTeam, IsAsked, dbMonitors)
        /\ Pend(s, MonsChanges) = Pend(calls, MonsChanges)
    <3>1. CASE s = calls
      BY <1>2, <3>1
    <3>2. CASE Marks(calls, s, TableChanges)
      <4>0. TableChanges \subseteq {"upsert", "deletePlugin", "toggle",
                                    "deleteMonitor", "create"}
        BY DEF TableChanges
      <4>1. /\ AllCalls(s) /\ DOMAIN s = DOMAIN calls
            /\ \A i \in DOMAIN calls :
                 /\ s[i].op = calls[i].op /\ DOMAIN s[i] = DOMAIN calls[i]
                 /\ \A x \in DOMAIN calls[i] : x # "mine" => s[i][x] = calls[i][x]
                 /\ calls[i].op \notin TableChanges => s[i] = calls[i]
                 /\ calls[i].op \in TableChanges => s[i].mine = FALSE
            /\ \A O : Pend(s, O) = Pend(calls, O)
            /\ \A O : O \cap TableChanges = {} => Keeps(calls, s, O)
        BY <1>2, <3>2, <4>0, Marking
      <4> QED  BY <1>2, <3>2, <4>1, MonsMarked
    <3> QED  BY <2>1, <3>1, <3>2
  <2>6. Asks(s, calls', {"monitors"}, e) /\ Keeps(s, calls', MonsChanges)
    BY <2>1, <2>2 DEF Sends, TeamOps, MonsChanges
  <2>7. ~draft.open /\ (draft.submitting => Submits(s))
        /\ (mons.updating # 0 => Changes(s))
    BY <1>3, <2>5 DEF OnMonitors, MonsInv, MonsSpin
  <2>8. ~l.detached => e.cursor = Top(l.stack)
    BY <2>2, <2>3 DEF Top
  <2>9. \A t, asked : t = currentTeam' =>
          MonsInv(calls', l, draft, t, asked, dbMonitors)
    BY <1>2, <2>2, <2>3, <2>5, <2>6, <2>7, <2>8, MonsAskedAgain
  <2> QED  BY <2>4, <2>9 DEF MonInv
<1>4. CASE ~OnMonitors
  <2>1. UNCHANGED pageVars /\ Moved(calls, calls', TeamOps)
    BY <1>4, Effects DEF Areas
  <2>2. Keeps(calls, calls', {"monitors"}) /\ Keeps(calls, calls', MonsChanges)
    BY <2>1 DEF Moved, TeamOps, MonsChanges
  <2>3. IsAsked /\ draft.open
    BY <1>2, <1>4 DEF OnMonitors, MonsSpin
  <2>4. MonsInv(calls', mons, draft, currentTeam, IsAsked, dbMonitors)
    BY <1>2, <2>2, MonsKept
  <2>5. MonsInv(calls', mons, draft, currentTeam', IsAsked, dbMonitors)
    BY <2>3, <2>4, MonsOfAny
  <2>6. IsAsked' = IsAsked
    BY <1>1, <2>3 DEF IsAsked
  <2>7. UNCHANGED <<mons, draft, dbMonitors>>
    BY <2>1 DEF pageVars, monitorVars
  <2> QED  BY <2>5, <2>6, <2>7 DEF MonInv
<1> QED  BY <1>3, <1>4

LEMMA MonsRest ==
  ASSUME MonInv, UNCHANGED <<monitorVars, currentTeam>>,
         UNCHANGED mounted \/ currentTeam = None,
         Keeps(calls, calls', {"monitors"}), Keeps(calls, calls', MonsChanges)
  PROVE  MonInv'
<1>1. UNCHANGED <<mons, draft, dbMonitors>> /\ IsAsked' = IsAsked
  BY DEF monitorVars, IsAsked
<1>2. MonsInv(calls', mons, draft, currentTeam, IsAsked, dbMonitors)
  BY MonsKept DEF MonInv
<1> QED  BY <1>1, <1>2 DEF MonInv

LEMMA MonsServed ==
  ASSUME TeamsInv, MonInv, UNCHANGED mounted, MonitorServed
  PROVE  MonInv'
<1>1. PICK i \in DOMAIN calls : \/ ServeMonitors(i) \/ ServeToggle(i)
                                \/ ServeDeleteMonitor(i) \/ ServeCreateMonitor(i)
  BY DEF MonitorServed
<1>2. /\ UNCHANGED <<currentTeam, mons, draft>> /\ AllCalls(calls)
      /\ MonsInv(calls, mons, draft, currentTeam, IsAsked, dbMonitors)
  BY <1>1 DEF ServeMonitors, ServeToggle, ServeDeleteMonitor, ServeCreateMonitor,
              teamVars, monitorVars, TeamsInv, MonInv
<1>3. MonsInv(calls', mons, draft, currentTeam, IsAsked, dbMonitors')
  <2>1. CASE ServeMonitors(i)
    <3>1. dbMonitors' = dbMonitors
      BY <2>1 DEF ServeMonitors, monitorVars
    <3>2. MonsInv(calls', mons, draft, currentTeam, IsAsked, dbMonitors)
      BY <1>2, <2>1, ListIsServed
    <3> QED  BY <3>1, <3>2
  <2>2. CASE ServeToggle(i)
    BY <1>2, <2>2, ToggleIsServed
  <2>3. CASE ServeDeleteMonitor(i)
    BY <1>2, <2>3, DeleteIsServed
  <2>4. CASE ServeCreateMonitor(i)
    BY <1>2, <2>4, CreateIsServed
  <2> QED  BY <1>1, <2>1, <2>2, <2>3, <2>4
<1>4. IsAsked' = IsAsked
  BY <1>2 DEF IsAsked
<1> QED  BY <1>2, <1>3, <1>4 DEF MonInv

LEMMA MonitorsNext ==
  ASSUME TeamsInv, MonInv, area \in {"monitors", "new"}, [Next]_vars
  PROVE  MonInv'
<1>1. CASE Undisturbed /\ (UNCHANGED mounted \/ currentTeam = None)
  <2>1. Keeps(calls, calls', {"monitors"}) /\ Keeps(calls, calls', MonsChanges)
    BY <1>1 DEF Undisturbed, Moved, TeamOps, MonsChanges
  <2> QED  BY <1>1, <2>1, MonsRest DEF Undisturbed, pageVars
<1>2. CASE Rerendered /\ mounted'
  BY <1>2, MonsRerender
<1>3. CASE GroupStep
  <2>1. CASE MonitorStep
    <3>1. ListClicks \/ RowClicks \/ NewClicks \/ MonitorServed \/ MonitorAnswers
      BY <2>1 DEF MonitorStep
    <3>2. CASE MonitorAnswers
      BY <1>3, <3>2, FetchKeepsMons, ChangeKeepsMons, CreatedKeepsMons,
         CreateFailureKeepsMons DEF MonitorAnswers, GroupStep
    <3> QED
      BY <1>3, <3>1, <3>2, ListClicksKeepMons, RowClicksKeepMons,
         NewClicksKeepMons, MonsServed DEF GroupStep
  <2>2. CASE IncidentStep \/ PluginStep \/ TeamPageStep
    <3>1. UNCHANGED <<monitorVars, teamVars>>
      BY <2>2, IncidentMoves, PluginMoves, TeamPageMoves
    <3>2. Keeps(calls, calls', {"monitors"}) /\ Keeps(calls, calls', MonsChanges)
      BY <2>2, IncidentMoves, PluginMoves, TeamPageMoves, RefetchedKeeps
         DEF Moved, PluginOps, IncidentOps, TeamPageOps, MonsChanges
    <3> QED  BY <1>3, <3>1, <3>2, MonsRest DEF GroupStep, teamVars
  <2> QED  BY <1>3, <2>1, <2>2 DEF GroupStep
<1> QED  BY <1>1, <1>2, <1>3, Steps

(* On the other pages there is nothing of the monitors.                     *)
NoMons ==
  /\ mons = EmptyMons /\ draft = NoDraft
  /\ area # "session" => Pend(calls, ListOps) = {}

MonAreaInv == IF area \in {"monitors", "new"} THEN MonInv ELSE NoMons

LEMMA NoMonsNext ==
  ASSUME TeamsInv, NoMons, area \in Areas \ {"session", "monitors", "new"}, [Next]_vars
  PROVE  NoMons'
<1>1. area' = area /\ Pend(calls, ListOps) = {}
  BY Steps DEF NoMons
<1>2. UNCHANGED <<mons, draft>> /\ Keeps(calls, calls', ListOps)
  <2>1. CASE Undisturbed
    BY <2>1 DEF Undisturbed, pageVars, monitorVars, Moved, ListOps, TeamOps
  <2>2. CASE Rerendered
    <3>1. UNCHANGED <<mons, draft>>
      BY <2>2, Effects DEF pageVars, monitorVars
    <3>2. Keeps(calls, calls', ListOps)
      BY <2>2, RerenderedKeeps DEF IncidentOps, ListOps, TeamOps
    <3> QED  BY <3>1, <3>2
  <2>3. CASE GroupStep
    <3>1. ~MonitorStep
      BY <1>1 DEF MonitorStep, MonitorServed, MonitorAnswers, ServeMonitors,
           ServeToggle, ServeDeleteMonitor, ServeCreateMonitor,
           FetchMonitorsSucceeds, FetchMonitorsFails, ToggleSucceeds,
           DeleteMonitorSucceeds, ChangeFails, CreateMonitorSucceeds,
           CreateMonitorFails, Pending, Pend, ListOps
    <3>2. UNCHANGED <<mons, draft>>
      BY <2>3, <3>1, IncidentMoves, PluginMoves, TeamPageMoves
         DEF GroupStep, monitorVars
    <3>3. Keeps(calls, calls', ListOps)
      BY <2>3, <3>1, IncidentMoves, PluginMoves, TeamPageMoves, RefetchedKeeps
         DEF GroupStep, Moved, PluginOps, ListOps, TeamPageOps, IncidentOps
    <3> QED  BY <3>2, <3>3
  <2> QED  BY <2>1, <2>2, <2>3, Steps
<1> QED  BY <1>1, <1>2, NoneKept DEF NoMons

LEMMA MonAreaInit == Init => MonAreaInv
<1> SUFFICES ASSUME Init PROVE MonAreaInv
  OBVIOUS
<1>1. PICK o \in Openings :
        ClientInit(o.teams, o.saved) /\ MonitorsInit(o.owners)
  BY DEF Init
<1>2. mons = EmptyMons /\ draft = NoDraft /\ calls = <<>> /\ DOMAIN calls = {}
  BY <1>1 DEF MonitorsInit, ClientInit
<1>3. \A O : Pend(calls, O) = {}
  BY <1>2 DEF Pend
<1>4. area \in {"monitors", "new"} => ~IsAsked
  BY DEF Init, IsAsked
<1>5. DbShape(dbMonitors)
  <2> DEFINE R == [team : Teams, enabled : BOOLEAN, channels : {{}}]
  <2>1. /\ o.owners \in Seq(Teams)
        /\ dbMonitors = [m \in DOMAIN o.owners |->
             [team |-> o.owners[m], enabled |-> TRUE, channels |-> {}]]
    BY <1>1, OpeningsAssumption DEF MonitorsInit
  <2>2. DOMAIN o.owners = 1 .. Len(o.owners) /\ Len(o.owners) \in Nat
        /\ \A m \in DOMAIN o.owners : o.owners[m] \in Teams
    BY <2>1, LenProperties, ElementOfSeq
  <2>3. DOMAIN dbMonitors = 1 .. Len(o.owners)
        /\ \A m \in DOMAIN dbMonitors : dbMonitors[m] \in R
    BY <2>1, <2>2
  <2>4. PICK n \in Nat : dbMonitors \in [1 .. n -> R]
    BY <2>1, <2>2, <2>3
  <2>6. \A m \in DOMAIN dbMonitors : {"team", "enabled"} \subseteq DOMAIN dbMonitors[m]
    BY <2>3
  <2> HIDE DEF R
  <2>5. dbMonitors \in Seq(R)
    BY <2>4, SeqDef
  <2> QED  BY <2>5, <2>6 DEF DbShape, IsSequence
<1>6. ~IsAsked => MonInv
  BY <1>2, <1>3, <1>5, EmptyIsSequence
     DEF MonInv, MonsInv, MonsShape, DraftShape, MonsSpin, MonsWait, EmptyMons,
         NoDraft, MonsFields, DraftFields
<1> QED  BY <1>2, <1>3, <1>4, <1>6 DEF MonAreaInv, NoMons

LEMMA MonAreaNext ==
  ASSUME Teamed, MonAreaInv, [Next]_vars
  PROVE  MonAreaInv'
<1>1. area' = area
  BY TeamedNext
<1>2. CASE area = "session"
  <2>1. UNCHANGED <<mons, draft>>
    BY <1>2 DEF Next, Mount, EffectRenders, OnMonitors, PageStep, SessionStep,
                pageVars, monitorVars, vars
  <2> QED  BY <1>1, <1>2, <2>1 DEF MonAreaInv, NoMons
<1>3. CASE area \in {"monitors", "new"}
  BY <1>1, <1>3, MonitorsNext DEF MonAreaInv, Teamed
<1>4. CASE area \in Areas \ {"session", "monitors", "new"}
  BY <1>1, <1>4, NoMonsNext DEF MonAreaInv, Teamed
<1> QED  BY <1>2, <1>3, <1>4 DEF Teamed

(* Quiet, with the answer to the last question on screen, the list shows    *)
(* the page of the current team that the top of the stack of cursors names, *)
(* and with nothing raced every row is a monitor of that team, enabled or   *)
(* paused as the server has it.                                            *)
THEOREM TableIsCurrentHolds == Spec => []TableIsCurrent
<1>1. Init => Teamed /\ MonAreaInv
  BY TeamedInit, MonAreaInit
<1>2. Teamed /\ MonAreaInv /\ [Next]_vars => Teamed' /\ MonAreaInv'
  BY TeamedNext, MonAreaNext
<1>3. MonAreaInv => TableIsCurrent
  <2>1. CASE area \in {"monitors", "new"} /\ MonInv
    <3>1. mons.latest = "shown" => StackNamesThePage
      BY <2>1, MonitorsArePend
         DEF MonInv, MonsInv, MonsShape, MonsShow, OnMonitors, StackNamesThePage
    <3>2. mons.latest = "shown" => RowsFollowServer
      BY <2>1, MonitorsArePend
         DEF MonInv, MonsInv, MonsShow, Says, Row, RowsFollowServer
    <3>3. mons.latest # "shown" => StackNamesThePage /\ RowsFollowServer
      BY DEF StackNamesThePage, RowsFollowServer
    <3> QED  BY <3>1, <3>2, <3>3 DEF TableIsCurrent
  <2>2. CASE mons = EmptyMons
    BY <2>2 DEF EmptyMons, TableIsCurrent, StackNamesThePage, RowsFollowServer
  <2> QED  BY <2>1, <2>2 DEF MonAreaInv, NoMons
<1> QED  BY <1>1, <1>2, <1>3, PTL DEF Spec

-----------------------------------------------------------------------------
(* The spinner of the dialog that creates a team.                           *)
Creates == creatingTeam => Pend(calls, {"createTeam"}) # {}
CreatingInv == IF area = "session" THEN ~creatingTeam ELSE Creates

LEMMA CreatingWaits ==
  ASSUME Creates, UNCHANGED creatingTeam, Keeps(calls, calls', {"createTeam"})
  PROVE  Creates'
BY SomeKept DEF Creates

LEMMA CreatingOnPages ==
  ASSUME TeamsInv, area # "session", [Next]_vars, Creates
  PROVE  Creates'
<1>1. TeamStep \/ GroupStep \/ Mount \/ UNCHANGED vars
  BY DEF Next, PageStep, Clicks, Answers, TeamStep, GroupStep, IncidentStep,
         PluginStep, MonitorStep, TeamPageStep, SessionStep, SessionOn
<1>2. AllCalls(calls)
  BY DEF TeamsInv
<1>3. CASE UNCHANGED vars
  BY <1>3 DEF vars, clientVars, Creates
<1>4. CASE Mount
  <2>1. calls' = EffectSends(calls, currentTeam) /\ UNCHANGED teamVars
    BY <1>4 DEF Mount
  <2>2. Keeps(calls, calls', {"createTeam"})
    <3>1. CASE currentTeam = None
      BY <2>1, <3>1, KeepsItself DEF EffectSends
    <3>2. CASE currentTeam \in Teams
      BY <1>2, <2>1, <3>2, EffectMoves DEF Moved, EffectOps
    <3> QED  BY <3>1, <3>2 DEF TeamsInv
  <2> QED  BY <2>1, <2>2, CreatingWaits DEF teamVars
<1>5. CASE GroupStep
  <2>1. UNCHANGED teamVars
    BY <1>5, IncidentMoves, PluginMoves, MonitorMoves, TeamPageMoves DEF GroupStep
  <2>2. Keeps(calls, calls', {"createTeam"})
    BY <1>5, IncidentMoves, PluginMoves, MonitorMoves, TeamPageMoves, RefetchedKeeps
       DEF GroupStep, Moved, IncidentOps, PluginOps, MonitorOps, ListOps, TeamPageOps
  <2> QED  BY <2>1, <2>2, CreatingWaits DEF teamVars
<1>6. CASE TeamClicks
  <2>1. CASE SwitchTeam
    <3>1. PICK t \in teams : SetCurrentTeam(t, After(calls, t, FALSE))
      BY <2>1 DEF SwitchTeam
    <3>2. t \in Teams /\ calls' = After(calls, t, FALSE) /\ UNCHANGED creatingTeam
      BY <3>1 DEF TeamsInv, SetCurrentTeam
    <3>3. Keeps(calls, calls', {"createTeam"})
      BY <1>2, <3>2, EffectMoves, KeepsItself DEF After, Moved, EffectOps
    <3> QED  BY <3>2, <3>3, CreatingWaits
  <2>2. CASE \E open \in BOOLEAN : SetTeamDialog(open)
    BY <2>2 DEF SetTeamDialog, Creates
  <2>3. CASE \E t \in Teams : HandleCreate(t)
    <3>1. PICK t \in Teams : calls' = Append(calls, Read("createTeam", t))
      BY <2>3 DEF HandleCreate
    <3>2. /\ IsCall(Read("createTeam", t))
          /\ Read("createTeam", t).op \in {"createTeam"}
      BY CallsAreCalls
    <3>3. Asks(calls, Append(calls, Read("createTeam", t)), {"createTeam"},
               Read("createTeam", t))
      BY <1>2, <3>2, Sending
    <3>4. Asks(calls, calls', {"createTeam"}, Read("createTeam", t))
      BY Zenon, <3>1, <3>3
    <3> QED  BY <3>4 DEF Asks, Creates
  <2> QED  BY <1>6, <2>1, <2>2, <2>3 DEF TeamClicks
<1>7. CASE TeamServed
  <2>1. PICK i \in DOMAIN calls : ServeCreateTeam(i) \/ ServeTeams(i)
    BY <1>7 DEF TeamServed
  <2>2. UNCHANGED creatingTeam /\ \E r : Reply(i, r)
    BY <2>1 DEF ServeCreateTeam, ServeTeams, teamVars
  <2>3. Pend(calls', {"createTeam"}) = Pend(calls, {"createTeam"})
    BY <1>2, <2>2, Replying
  <2> QED  BY <2>2, <2>3 DEF Creates
<1>8. CASE TeamAnswers
  <2>1. PICK i \in DOMAIN calls :
          \/ \E m : CreateTeamSucceeds(i, m)
          \/ FetchTeamsSucceeds(i, After(Others(i), TeamAfterFetch(i), TRUE))
          \/ CreateTeamFails(i) \/ FetchTeamsFails(i)
    BY <1>8 DEF TeamAnswers
  <2>2. CASE (\E m : CreateTeamSucceeds(i, m)) \/ CreateTeamFails(i)
    BY <2>2 DEF CreateTeamSucceeds, CreateTeamFails, Creates
  <2>3. ASSUME calls[i].op = "teams"
        PROVE  AllCalls(Others(i)) /\ Keeps(calls, Others(i), {"createTeam"})
    BY <1>2, <2>3, Removing DEF Others
  <2>4. CASE FetchTeamsFails(i)
    BY <2>3, <2>4, CreatingWaits DEF FetchTeamsFails, Pending
  <2>5. CASE FetchTeamsSucceeds(i, After(Others(i), TeamAfterFetch(i), TRUE))
    <3>1. PICK t : /\ t = TeamAfterFetch(i) /\ calls[i].op = "teams" /\ t \in Teams
                   /\ calls' = After(Others(i), t, TRUE) /\ UNCHANGED creatingTeam
      BY <2>5, TeamAnswersTeams DEF FetchTeamsSucceeds, Pending
    <3>2. Keeps(Others(i), calls', {"createTeam"})
      BY <2>3, <3>1, EffectMoves, KeepsItself DEF After, Moved, EffectOps
    <3>3. Keeps(calls, calls', {"createTeam"})
      BY <2>3, <3>1, <3>2, KeepsOn
    <3> QED  BY <3>1, <3>3, CreatingWaits
  <2> QED  BY <2>1, <2>2, <2>4, <2>5
<1> QED  BY <1>1, <1>3, <1>4, <1>5, <1>6, <1>7, <1>8 DEF TeamStep

LEMMA CreatingNext ==
  ASSUME Teamed, CreatingInv, [Next]_vars
  PROVE  CreatingInv'
<1>1. area' = area
  BY TeamedNext
<1>2. CASE area # "session"
  BY <1>1, <1>2, CreatingOnPages DEF Teamed, CreatingInv
<1>3. CASE area = "session"
  <2>1. creatingTeam' = creatingTeam
    <3>1. CASE UNCHANGED teamVars
      BY <3>1 DEF teamVars
    <3>2. CASE SessionStep
      <4>1. CASE Route
        BY <4>1 DEF Route
      <4>2. CASE SessionClicks
        BY <4>2 DEF SessionClicks, Visit, Follow, SignOut, PageCall, SignIn, SignUp,
                    clientVars, teamVars
      <4>3. CASE SessionServed
        BY <4>3 DEF SessionServed, ServeLogin, ServeSignUp, ServeWithToken, Expire,
                    CookieExpires, LeaveInvite, clientVars, teamVars
      <4>4. CASE SessionAnswers
        BY <4>4 DEF SessionAnswers, MeSucceeds, LoginSucceeds, SignUpSucceeds,
                    MeFails, Unauthorised, Answered, teamVars
      <4> QED  BY <3>2, <4>1, <4>2, <4>3, <4>4 DEF SessionStep
    <3> QED
      BY <1>3, <3>1, <3>2 DEF Next, Mount, PageStep, vars, clientVars, teamVars
  <2> QED  BY <1>1, <1>3, <2>1 DEF CreatingInv
<1> QED  BY <1>2, <1>3

(* Once the user has a team, whatever spins on a page, in a row of its      *)
(* table, in its form or in the dialog of the switcher waits for a call     *)
(* that is on its way.                                                     *)
THEOREM SpinnersHaveTheirCallsHolds == Spec => []SpinnersHaveTheirCalls
<1> DEFINE Spins == /\ Teamed /\ IncInv /\ ListInv(list) /\ TPInv /\ PluginInv
                    /\ MonAreaInv /\ CreatingInv
<1>1. Init => Spins
  <2>1. Init => CreatingInv
    BY DEF Init, ClientInit, CreatingInv, Creates
  <2> QED  BY <2>1, TeamedInit, IncInit, TPInit, PluginInit, MonAreaInit, InitHolds
<1>2. Spins /\ [Next]_vars => Spins'
  BY TeamedNext, IncNext, TPNext, PluginNext, MonAreaNext, CreatingNext, NextKeeps
<1>3. Spins => SpinnersHaveTheirCalls
  <2> SUFFICES ASSUME Spins, mounted, currentTeam # None
               PROVE  SpinnersHaveTheirCalls
    BY DEF SpinnersHaveTheirCalls
  <2>0. \A O : Pend(calls, O) # {} => \A spins : Waiting(spins, O)
    BY DEF Pend, Waiting
  <2>1. /\ Waiting(area = "incidents" /\ detail.of = None /\ list.loading, {"incidents"})
        /\ Waiting(detail.of # None /\ detail.loading, {"incident"})
    BY <2>0 DEF IncInv, IncidentsInv, NoIncidents, MountedDetail, Waiting
  <2>2. /\ Waiting(plugins.loading, {"plugins"})
        /\ Waiting(form.type # None /\ form.loading, {"plugin"})
    BY <2>0 DEF PluginInv, StoreInv, FormInv, EmptyStore, NoForm, Waiting
  <2>3. /\ Waiting(mons.loading, {"monitors"})
        /\ Waiting(mons.updating # 0, {"toggle", "deleteMonitor"})
        /\ Waiting(draft.submitting, {"create", "monitors"})
    <3>1. CASE area \in {"monitors", "new"} /\ MonsSpin(calls, mons, draft, IsAsked)
      <4>1. Changes(calls) => Waiting(TRUE, {"toggle", "deleteMonitor"})
        BY DEF Changes, Pend, TableChanges, Waiting
      <4>2. Submits(calls) => Waiting(TRUE, {"create", "monitors"})
        BY DEF Submits, Pend, Waiting
      <4> QED  BY <2>0, <3>1, <4>1, <4>2 DEF MonsSpin, Waiting
    <3>2. CASE NoMons
      BY <3>2 DEF NoMons, EmptyMons, NoDraft, Waiting
    <3> QED  BY <3>1, <3>2 DEF MonAreaInv, MonInv, MonsInv
  <2>4. /\ Waiting(area = "team" /\ page.loading, {"team"})
        /\ Waiting(page.revoking # None, {"revoke"})
    BY <2>0 DEF TPInv, TeamPageInv, PageSpins, NoTeamPage, MountedPage, Waiting
  <2>5. Waiting(creatingTeam, {"createTeam"})
    BY <2>0 DEF CreatingInv, Creates, Waiting
  <2> QED  BY <2>1, <2>2, <2>3, <2>4, <2>5 DEF SpinnersHaveTheirCalls
<1> QED  BY <1>1, <1>2, <1>3, PTL DEF Spec
=============================================================================
