----------------------- MODULE FirestoreExactProofs -------------------------
(***************************************************************************)
(* What a view in sync rests on, when nobody is hasty: the client, the disk *)
(* and the view have what the log of the server has.  Here are the facts    *)
(* about lists and targets, and the steps in which the client calls, writes, *)
(* connects, or reads that a target was added, removed, changed or counted. *)
(***************************************************************************)
EXTENDS FirestoreListenProofs

-----------------------------------------------------------------------------
(***************************************************************************)
(* The server's documents.                                                 *)
(***************************************************************************)

\* The last write up to a version is a write of the document, and no later one is.
LEMMA NewestIs ==
    ASSUME NEW lg, NEW d, NEW n \in Nat
    PROVE  /\ Newest(lg, d, n) \in 0 .. n
           /\ Newest(lg, d, n) # 0 => lg[Newest(lg, d, n)].doc = d
           /\ \A i \in 1 .. n : lg[i].doc = d => i <= Newest(lg, d, n)
<1> DEFINE S == {0} \cup {i \in 1..n : lg[i].doc = d}
<1>1. S \subseteq 0 .. n /\ S # {}
  OBVIOUS
<1>2. PICK x \in S : \A y \in S : x >= y
  <2> HIDE DEF S
  <2> QED
    BY <1>1, GreatestExists
<1>3. Max(S) \in S /\ \A y \in S : Max(S) >= y
  BY <1>2 DEF Max
<1> DEFINE m == Max(S)
<1>4. Newest(lg, d, n) = m
  BY DEF Newest
<1>5. m \in S /\ \A y \in S : m >= y
  BY <1>3
<1> HIDE DEF m
<1> QED
  BY <1>1, <1>4, <1>5

\* A document is what it was at an earlier version unless it was written in between.
LEMMA NewestBetween ==
    ASSUME NEW lg, NEW d, NEW v \in Nat, NEW n \in Nat, v <= n
    PROVE  /\ Newest(lg, d, v) <= Newest(lg, d, n)
           /\ Newest(lg, d, n) <= v => /\ Newest(lg, d, v) = Newest(lg, d, n)
                                       /\ Truth(lg, d, v) = Truth(lg, d, n)
<1> DEFINE a == Newest(lg, d, v)
           b == Newest(lg, d, n)
<1>1. /\ a \in 0 .. v /\ (a # 0 => lg[a].doc = d) /\ \A i \in 1 .. v : lg[i].doc = d => i <= a
      /\ b \in 0 .. n /\ (b # 0 => lg[b].doc = d) /\ \A i \in 1 .. n : lg[i].doc = d => i <= b
  BY NewestIs
<1>2. a <= b
  <2> HIDE DEF a, b
  <2> QED
    BY <1>1
<1>3. b <= v => b = a
  <2> HIDE DEF a, b
  <2> QED
    BY <1>1, <1>2
<1> QED
  BY <1>2, <1>3 DEF Truth

\* A document that the last version wrote is what that version wrote.
LEMMA NewestAt ==
    ASSUME NEW lg, NEW n \in Nat \ {0}, NEW d, lg[n].doc = d
    PROVE  Newest(lg, d, n) = n /\ Truth(lg, d, n) = lg[n].content
<1>1. Newest(lg, d, n) \in 0 .. n /\ n <= Newest(lg, d, n)
  BY NewestIs
<1>2. Newest(lg, d, n) = n
  BY <1>1
<1> QED
  BY <1>2 DEF Truth

\* No document is written before the first version.
LEMMA NewestNone ==
    ASSUME NEW lg, NEW d
    PROVE  Newest(lg, d, 0) = 0 /\ Truth(lg, d, 0) = Missing
<1>1. Newest(lg, d, 0) \in 0 .. 0
  BY NewestIs
<1>2. Newest(lg, d, 0) = 0
  BY <1>1
<1> QED
  BY <1>2 DEF Truth

\* A later write changes nothing of the versions before it, ...
LEMMA NewestLater ==
    ASSUME NEW D, NEW lg \in Seq(D), NEW e \in D, NEW d, NEW n \in Nat, n <= Len(lg)
    PROVE  /\ Newest(Append(lg, e), d, n) = Newest(lg, d, n)
           /\ Truth(Append(lg, e), d, n) = Truth(lg, d, n)
<1>1. Len(lg) \in Nat /\ \A i \in 1 .. n : Append(lg, e)[i] = lg[i]
  OBVIOUS
<1>2. {i \in 1 .. n : Append(lg, e)[i].doc = d} = {i \in 1 .. n : lg[i].doc = d}
  BY <1>1
<1>3. Newest(Append(lg, e), d, n) = Newest(lg, d, n)
  BY <1>2 DEF Newest
<1>4. Newest(lg, d, n) \in 0 .. n
  BY NewestIs
<1> DEFINE m == Newest(lg, d, n)
<1>5. m # 0 => Append(lg, e)[m].content = lg[m].content
  <2> HIDE DEF m
  <2> QED
    BY <1>1, <1>4 DEF m
<1> QED
  BY <1>3, <1>5 DEF Truth

\* ... nor of what a target had then.
LEMMA HaveLater ==
    ASSUME NEW D, NEW lg \in Seq(D), NEW e \in D, NEW t, NEW n \in Nat, n <= Len(lg)
    PROVE  Have(Append(lg, e), t, n) = Have(lg, t, n)
BY NewestLater DEF Have

\* At version 0 no target has a document.
LEMMA HaveNone ==
    ASSUME NEW lg, NEW t
    PROVE  Have(lg, t, 0) = {}
BY NewestNone DEF Have

\* What the model of the server says of its log is what is said of any log.
LEMMA ServersOwn ==
    ASSUME NEW d, NEW n
    PROVE  LastWrite(d, n) = Newest(log, d, n) /\ StateAt(d, n) = Truth(log, d, n)
BY DEF LastWrite, StateAt, Newest, Truth

-----------------------------------------------------------------------------
-----------------------------------------------------------------------------
(***************************************************************************)
(* Places in lists.                                                        *)
(***************************************************************************)

\* A list without its head has the places of the list, one further down.
LEMMA TailPlaces ==
    ASSUME NEW D, NEW s \in Seq(D), s # <<>>
    PROVE  /\ Len(s) \in Nat \ {0} /\ DOMAIN s = 1 .. Len(s) /\ s[1] = Head(s)
           /\ DOMAIN Tail(s) = 1 .. (Len(s) - 1)
           /\ \A i \in DOMAIN Tail(s) : i + 1 \in DOMAIN s /\ Tail(s)[i] = s[i + 1]
           /\ \A i \in DOMAIN s : i # 1 => i - 1 \in DOMAIN Tail(s) /\ Tail(s)[i - 1] = s[i]
OBVIOUS

\* One of A is the head of a list or is after it.
LEMMA SomeTail ==
    ASSUME NEW D, NEW s \in Seq(D), s # <<>>, NEW A
    PROVE  Some(s, A) <=> Head(s) \in A \/ Some(Tail(s), A)
<1>1. ASSUME Some(s, A), Head(s) \notin A PROVE Some(Tail(s), A)
  <2>1. PICK i \in DOMAIN s : s[i] \in A
    BY <1>1 DEF Some
  <2>2. i # 1
    BY <2>1, <1>1, TailPlaces
  <2>3. i - 1 \in DOMAIN Tail(s) /\ Tail(s)[i - 1] \in A
    BY <2>1, <2>2, TailPlaces
  <2> QED
    BY <2>3 DEF Some
<1>2. ASSUME Head(s) \in A PROVE Some(s, A)
  <2>1. 1 \in DOMAIN s /\ s[1] \in A
    BY <1>2, TailPlaces
  <2> QED
    BY <2>1 DEF Some
<1>3. ASSUME Some(Tail(s), A) PROVE Some(s, A)
  <2>1. PICK i \in DOMAIN Tail(s) : Tail(s)[i] \in A
    BY <1>3 DEF Some
  <2>2. i + 1 \in DOMAIN s /\ s[i + 1] \in A
    BY <2>1, TailPlaces
  <2> QED
    BY <2>2 DEF Some
<1> QED
  BY <1>1, <1>2, <1>3

\* Without the head the places before the snapshot stay before it.
LEMMA AheadTail ==
    ASSUME NEW D, NEW s \in Seq(D), s # <<>>, NEW i \in DOMAIN Tail(s)
    PROVE  Ahead(Tail(s), i) <=> Ahead(s, i + 1)
<1>1. i \in Nat \ {0} /\ DOMAIN Tail(s) \subseteq Nat /\ DOMAIN s \subseteq Nat
  BY TailPlaces
<1>2. ASSUME Ahead(Tail(s), i) PROVE Ahead(s, i + 1)
  <2>1. PICK k \in DOMAIN Tail(s) : i < k /\ Tail(s)[k].kind = "snapshot"
    BY <1>2 DEF Ahead
  <2>2. k + 1 \in DOMAIN s /\ s[k + 1].kind = "snapshot" /\ i + 1 < k + 1
    BY <1>1, <2>1, TailPlaces
  <2> QED
    BY <2>2 DEF Ahead
<1>3. ASSUME Ahead(s, i + 1) PROVE Ahead(Tail(s), i)
  <2>1. PICK k \in DOMAIN s : i + 1 < k /\ s[k].kind = "snapshot"
    BY <1>3 DEF Ahead
  <2>2. k # 1 /\ i < k - 1
    BY <1>1, <2>1
  <2>3. k - 1 \in DOMAIN Tail(s) /\ Tail(s)[k - 1].kind = "snapshot"
    BY <2>1, <2>2, TailPlaces
  <2> QED
    BY <2>2, <2>3 DEF Ahead
<1> QED
  BY <1>2, <1>3

\* One of A before the snapshot is the head or is after it, and so is one behind it.
LEMMA BeforeTail ==
    ASSUME NEW D, NEW s \in Seq(D), s # <<>>, NEW A
    PROVE  /\ Before(s, A) <=> (Head(s) \in A /\ Ahead(s, 1)) \/ Before(Tail(s), A)
           /\ Behind(s, A) <=> (Head(s) \in A /\ ~Ahead(s, 1)) \/ Behind(Tail(s), A)
<1>1. ASSUME NEW i \in DOMAIN s, i # 1
      PROVE  /\ i - 1 \in DOMAIN Tail(s) /\ Tail(s)[i - 1] = s[i]
             /\ Ahead(Tail(s), i - 1) <=> Ahead(s, i)
  <2>1. i - 1 \in DOMAIN Tail(s) /\ Tail(s)[i - 1] = s[i] /\ i \in Nat
    BY <1>1, TailPlaces
  <2>2. (i - 1) + 1 = i
    BY <2>1
  <2> QED
    BY <2>1, <2>2, AheadTail
<1>2. ASSUME NEW i \in DOMAIN Tail(s)
      PROVE  /\ i + 1 \in DOMAIN s /\ s[i + 1] = Tail(s)[i]
             /\ Ahead(Tail(s), i) <=> Ahead(s, i + 1)
  BY TailPlaces, AheadTail
<1>3. 1 \in DOMAIN s /\ s[1] = Head(s)
  BY TailPlaces
<1>4. ASSUME Before(s, A) PROVE (Head(s) \in A /\ Ahead(s, 1)) \/ Before(Tail(s), A)
  <2>1. PICK i \in DOMAIN s : s[i] \in A /\ Ahead(s, i)
    BY <1>4 DEF Before
  <2> QED
    BY <1>1, <1>3, <2>1 DEF Before
<1>5. ASSUME Behind(s, A) PROVE (Head(s) \in A /\ ~Ahead(s, 1)) \/ Behind(Tail(s), A)
  <2>1. PICK i \in DOMAIN s : s[i] \in A /\ ~Ahead(s, i)
    BY <1>5 DEF Behind
  <2> QED
    BY <1>1, <1>3, <2>1 DEF Behind
<1>6. ASSUME (Head(s) \in A /\ Ahead(s, 1)) \/ Before(Tail(s), A) PROVE Before(s, A)
  BY <1>2, <1>3, <1>6 DEF Before
<1>7. ASSUME (Head(s) \in A /\ ~Ahead(s, 1)) \/ Behind(Tail(s), A) PROVE Behind(s, A)
  BY <1>2, <1>3, <1>7 DEF Behind
<1> QED
  BY <1>4, <1>5, <1>6, <1>7

\* What the head of a list adds to the order of its elements.
LEMMA ThenTail ==
    ASSUME NEW D, NEW s \in Seq(D), s # <<>>, NEW A, NEW B
    PROVE  /\ Then(s, A, B) <=> (Head(s) \in A /\ Some(Tail(s), B)) \/ Then(Tail(s), A, B)
           /\ Ends(s, A, B) => Ends(Tail(s), A, B)
           /\ Ends(s, A, B) /\ Head(s) \in A => Head(s) \in B \/ Some(Tail(s), B)
<1>0. DOMAIN s \subseteq Nat \ {0} /\ DOMAIN Tail(s) \subseteq Nat \ {0}
  BY TailPlaces
<1>1. ASSUME NEW i \in DOMAIN s, i # 1
      PROVE  i - 1 \in DOMAIN Tail(s) /\ Tail(s)[i - 1] = s[i]
  BY <1>1, TailPlaces
<1>2. ASSUME NEW i \in DOMAIN Tail(s)
      PROVE  i + 1 \in DOMAIN s /\ s[i + 1] = Tail(s)[i]
  BY TailPlaces
<1>3. 1 \in DOMAIN s /\ s[1] = Head(s)
  BY TailPlaces
<1>4. ASSUME Then(s, A, B) PROVE (Head(s) \in A /\ Some(Tail(s), B)) \/ Then(Tail(s), A, B)
  <2>1. PICK i \in DOMAIN s, j \in DOMAIN s : i < j /\ s[i] \in A /\ s[j] \in B
    BY <1>4 DEF Then
  <2>2. j # 1
    BY <1>0, <2>1
  <2>3. j - 1 \in DOMAIN Tail(s) /\ Tail(s)[j - 1] \in B
    BY <1>1, <2>1, <2>2
  <2>4. CASE i = 1
    BY <1>3, <2>1, <2>3, <2>4 DEF Some
  <2>5. CASE i # 1
    <3>1. i - 1 \in DOMAIN Tail(s) /\ Tail(s)[i - 1] \in A /\ i - 1 < j - 1
      BY <1>0, <1>1, <2>1, <2>5
    <3> QED
      BY <2>3, <3>1 DEF Then
  <2> QED
    BY <2>4, <2>5
<1>5. ASSUME Head(s) \in A, Some(Tail(s), B) PROVE Then(s, A, B)
  <2>1. PICK j \in DOMAIN Tail(s) : Tail(s)[j] \in B
    BY <1>5 DEF Some
  <2>2. j + 1 \in DOMAIN s /\ s[j + 1] \in B /\ 1 < j + 1
    BY <1>0, <1>2, <2>1
  <2> QED
    BY <1>3, <1>5, <2>2 DEF Then
<1>6. ASSUME Then(Tail(s), A, B) PROVE Then(s, A, B)
  <2>1. PICK i \in DOMAIN Tail(s), j \in DOMAIN Tail(s) : i < j /\ Tail(s)[i] \in A /\ Tail(s)[j] \in B
    BY <1>6 DEF Then
  <2>2. i + 1 \in DOMAIN s /\ j + 1 \in DOMAIN s /\ i + 1 < j + 1 /\ s[i + 1] \in A /\ s[j + 1] \in B
    BY <1>0, <1>2, <2>1
  <2> QED
    BY <2>2 DEF Then
<1>7. ASSUME Ends(s, A, B), NEW i \in DOMAIN Tail(s), Tail(s)[i] \in A
      PROVE  \E j \in DOMAIN Tail(s) : i <= j /\ Tail(s)[j] \in B
  <2>1. i + 1 \in DOMAIN s /\ s[i + 1] \in A
    BY <1>2, <1>7
  <2>2. PICK j \in DOMAIN s : i + 1 <= j /\ s[j] \in B
    BY <1>7, <2>1 DEF Ends
  <2>3. j # 1 /\ i <= j - 1
    BY <1>0, <2>2
  <2> QED
    BY <1>1, <2>2, <2>3
<1>8. ASSUME Ends(s, A, B), Head(s) \in A PROVE Head(s) \in B \/ Some(Tail(s), B)
  <2>1. PICK j \in DOMAIN s : s[j] \in B
    BY <1>3, <1>8 DEF Ends
  <2> QED
    BY <1>1, <1>3, <2>1 DEF Some
<1>9. Ends(s, A, B) => Ends(Tail(s), A, B)
  BY <1>7 DEF Ends
<1> QED
  BY <1>4, <1>5, <1>6, <1>8, <1>9

\* The snapshot that is on its way is the head of the list or is after it.
LEMMA ComingTail ==
    ASSUME NEW D, NEW s \in Seq(D), s # <<>>
    PROVE  /\ \A n : Coming(s, n) <=> (Head(s).kind = "snapshot" /\ Head(s).version = n)
                                       \/ Coming(Tail(s), n)
           /\ Pending(s) <=> Head(s).kind = "snapshot" \/ Pending(Tail(s))
           /\ Ahead(s, 1) <=> Pending(Tail(s))
<1>0. DOMAIN s \subseteq Nat \ {0} /\ DOMAIN Tail(s) \subseteq Nat \ {0}
  BY TailPlaces
<1>1. ASSUME NEW i \in DOMAIN s, i # 1
      PROVE  i - 1 \in DOMAIN Tail(s) /\ Tail(s)[i - 1] = s[i]
  BY <1>1, TailPlaces
<1>2. ASSUME NEW i \in DOMAIN Tail(s)
      PROVE  i + 1 \in DOMAIN s /\ s[i + 1] = Tail(s)[i] /\ 1 < i + 1
  BY <1>0, TailPlaces
<1>3. 1 \in DOMAIN s /\ s[1] = Head(s)
  BY TailPlaces
<1>4. ASSUME NEW n, Coming(s, n)
      PROVE  (Head(s).kind = "snapshot" /\ Head(s).version = n) \/ Coming(Tail(s), n)
  BY <1>1, <1>3, <1>4 DEF Coming
<1>5. ASSUME NEW n, (Head(s).kind = "snapshot" /\ Head(s).version = n) \/ Coming(Tail(s), n)
      PROVE  Coming(s, n)
  BY <1>2, <1>3, <1>5 DEF Coming
<1>6. Pending(s) <=> Head(s).kind = "snapshot" \/ Pending(Tail(s))
  BY <1>1, <1>2, <1>3 DEF Pending
<1>7. ASSUME Ahead(s, 1) PROVE Pending(Tail(s))
  <2>1. PICK k \in DOMAIN s : 1 < k /\ s[k].kind = "snapshot"
    BY <1>7 DEF Ahead
  <2>2. k # 1
    BY <1>0, <2>1
  <2> QED
    BY <1>1, <2>1, <2>2, Zenon DEF Pending
<1>8. Pending(Tail(s)) => Ahead(s, 1)
  BY <1>2 DEF Pending, Ahead
<1> QED
  BY <1>4, <1>5, <1>6, <1>7, <1>8

\* Two lists, one after the other, have the places of the first and then of the second.
LEMMA ConcatPlaces ==
    ASSUME NEW D, NEW s \in Seq(D), NEW m \in Seq(D)
    PROVE  /\ Len(s) \in Nat /\ DOMAIN s = 1 .. Len(s) /\ Len(m) \in Nat /\ DOMAIN m = 1 .. Len(m)
           /\ \A i \in DOMAIN s : i \in DOMAIN (s \o m) /\ (s \o m)[i] = s[i]
           /\ \A i \in DOMAIN m : Len(s) + i \in DOMAIN (s \o m) /\ (s \o m)[Len(s) + i] = m[i]
           /\ \A i \in DOMAIN (s \o m) :
                 \/ i \in DOMAIN s /\ (s \o m)[i] = s[i]
                 \/ /\ i - Len(s) \in DOMAIN m /\ (s \o m)[i] = m[i - Len(s)]
                    /\ i \in Nat /\ i = Len(s) + (i - Len(s))
OBVIOUS

\* One of A is in one of the two lists.
LEMMA SomeConcat ==
    ASSUME NEW D, NEW s \in Seq(D), NEW m \in Seq(D), NEW A
    PROVE  Some(s \o m, A) <=> Some(s, A) \/ Some(m, A)
<1>1. ASSUME Some(s \o m, A) PROVE Some(s, A) \/ Some(m, A)
  <2>1. PICK i \in DOMAIN (s \o m) : (s \o m)[i] \in A
    BY <1>1 DEF Some
  <2> QED
    BY <2>1, ConcatPlaces DEF Some
<1>2. ASSUME Some(s, A) PROVE Some(s \o m, A)
  BY <1>2, ConcatPlaces DEF Some
<1>3. ASSUME Some(m, A) PROVE Some(s \o m, A)
  <2>1. PICK i \in DOMAIN m : m[i] \in A
    BY <1>3 DEF Some
  <2>2. Len(s) + i \in DOMAIN (s \o m) /\ (s \o m)[Len(s) + i] = m[i]
    BY ConcatPlaces
  <2> QED
    BY <2>1, <2>2 DEF Some
<1> QED
  BY <1>1, <1>2, <1>3

\* The snapshot that is on its way is in one of the two lists.
LEMMA ComingConcat ==
    ASSUME NEW D, NEW s \in Seq(D), NEW m \in Seq(D)
    PROVE  /\ \A n : Coming(s \o m, n) <=> Coming(s, n) \/ Coming(m, n)
           /\ Pending(s \o m) <=> Pending(s) \/ Pending(m)
<1>1. ASSUME NEW n, Coming(s \o m, n) PROVE Coming(s, n) \/ Coming(m, n)
  <2>1. PICK i \in DOMAIN (s \o m) : (s \o m)[i].kind = "snapshot" /\ (s \o m)[i].version = n
    BY <1>1 DEF Coming
  <2> QED
    BY <2>1, ConcatPlaces DEF Coming
<1>2. ASSUME NEW n, Coming(s, n) PROVE Coming(s \o m, n)
  BY <1>2, ConcatPlaces DEF Coming
<1>3. ASSUME NEW n, Coming(m, n) PROVE Coming(s \o m, n)
  <2>1. PICK i \in DOMAIN m : m[i].kind = "snapshot" /\ m[i].version = n
    BY <1>3 DEF Coming
  <2>2. Len(s) + i \in DOMAIN (s \o m) /\ (s \o m)[Len(s) + i] = m[i]
    BY ConcatPlaces
  <2> QED
    BY <2>1, <2>2 DEF Coming
<1>4. ASSUME Pending(s \o m) PROVE Pending(s) \/ Pending(m)
  <2>1. PICK i \in DOMAIN (s \o m) : (s \o m)[i].kind = "snapshot"
    BY <1>4 DEF Pending
  <2> QED
    BY <2>1, ConcatPlaces DEF Pending
<1>5. ASSUME Pending(s) PROVE Pending(s \o m)
  BY <1>5, ConcatPlaces DEF Pending
<1>6. ASSUME Pending(m) PROVE Pending(s \o m)
  <2>1. PICK i \in DOMAIN m : m[i].kind = "snapshot"
    BY <1>6 DEF Pending
  <2>2. Len(s) + i \in DOMAIN (s \o m) /\ (s \o m)[Len(s) + i] = m[i]
    BY ConcatPlaces
  <2> QED
    BY <2>1, <2>2 DEF Pending
<1> QED
  BY <1>1, <1>2, <1>3, <1>4, <1>5, <1>6

\* One of A is followed by one of B in one of the two lists, or from one to the other.
LEMMA ThenConcat ==
    ASSUME NEW D, NEW s \in Seq(D), NEW m \in Seq(D), NEW A, NEW B
    PROVE  /\ Then(s \o m, A, B)
                <=> Then(s, A, B) \/ Then(m, A, B) \/ (Some(s, A) /\ Some(m, B))
           /\ Ends(m, A, B) /\ (Ends(s, A, B) \/ Some(m, B)) => Ends(s \o m, A, B)
<1> DEFINE r == s \o m
<1>0. /\ Len(s) \in Nat /\ DOMAIN s = 1 .. Len(s) /\ Len(m) \in Nat /\ DOMAIN m = 1 .. Len(m)
      /\ \A i \in DOMAIN s : i \in DOMAIN r /\ r[i] = s[i]
      /\ \A i \in DOMAIN m : Len(s) + i \in DOMAIN r /\ r[Len(s) + i] = m[i]
      /\ \A i \in DOMAIN r : \/ i \in DOMAIN s /\ r[i] = s[i]
                             \/ /\ i - Len(s) \in DOMAIN m /\ r[i] = m[i - Len(s)]
                                /\ i \in Nat /\ i = Len(s) + (i - Len(s))
  BY ConcatPlaces
<1> HIDE DEF r
<1>1. ASSUME Then(r, A, B)
      PROVE  Then(s, A, B) \/ Then(m, A, B) \/ (Some(s, A) /\ Some(m, B))
  <2>1. PICK i \in DOMAIN r, j \in DOMAIN r : i < j /\ r[i] \in A /\ r[j] \in B
    BY <1>1 DEF Then
  <2>2. CASE i \in DOMAIN s /\ r[i] = s[i] /\ j \in DOMAIN s /\ r[j] = s[j]
    BY <2>1, <2>2 DEF Then
  <2>3. CASE i \in DOMAIN s /\ r[i] = s[i] /\ j - Len(s) \in DOMAIN m /\ r[j] = m[j - Len(s)]
    BY <2>1, <2>3 DEF Some
  <2>4. CASE /\ i - Len(s) \in DOMAIN m /\ r[i] = m[i - Len(s)] /\ i \in Nat
             /\ j - Len(s) \in DOMAIN m /\ r[j] = m[j - Len(s)] /\ j \in Nat
    <3>1. i - Len(s) < j - Len(s)
      BY <1>0, <2>1, <2>4
    <3> QED
      BY <2>1, <2>4, <3>1 DEF Then
  <2>5. CASE i - Len(s) \in DOMAIN m /\ i \in Nat /\ j \in DOMAIN s
    BY <1>0, <2>1, <2>5
  <2> QED
    BY <1>0, <2>1, <2>2, <2>3, <2>4, <2>5
<1>2. ASSUME Then(s, A, B) PROVE Then(r, A, B)
  BY <1>0, <1>2 DEF Then
<1>3. ASSUME Then(m, A, B) PROVE Then(r, A, B)
  <2>1. PICK i \in DOMAIN m, j \in DOMAIN m : i < j /\ m[i] \in A /\ m[j] \in B
    BY <1>3 DEF Then
  <2>2. Len(s) + i < Len(s) + j
    BY <1>0, <2>1
  <2> QED
    BY <1>0, <2>1, <2>2 DEF Then
<1>4. ASSUME Some(s, A), Some(m, B) PROVE Then(r, A, B)
  <2>1. PICK i \in DOMAIN s : s[i] \in A
    BY <1>4 DEF Some
  <2>2. PICK j \in DOMAIN m : m[j] \in B
    BY <1>4 DEF Some
  <2>3. i < Len(s) + j
    BY <1>0
  <2> QED
    BY <1>0, <2>1, <2>2, <2>3 DEF Then
<1>5. ASSUME Ends(m, A, B), Ends(s, A, B) \/ Some(m, B), NEW i \in DOMAIN r, r[i] \in A
      PROVE  \E j \in DOMAIN r : i <= j /\ r[j] \in B
  <2>1. CASE i \in DOMAIN s /\ r[i] = s[i]
    <3>1. CASE Ends(s, A, B)
      <4>1. PICK j \in DOMAIN s : i <= j /\ s[j] \in B
        BY <1>5, <2>1, <3>1 DEF Ends
      <4> QED
        BY <1>0, <4>1
    <3>2. CASE Some(m, B)
      <4>1. PICK j \in DOMAIN m : m[j] \in B
        BY <3>2 DEF Some
      <4>2. i <= Len(s) + j
        BY <1>0, <2>1
      <4> QED
        BY <1>0, <4>1, <4>2
    <3> QED
      BY <1>5, <3>1, <3>2
  <2>2. CASE i - Len(s) \in DOMAIN m /\ r[i] = m[i - Len(s)] /\ i \in Nat
    <3>1. PICK j \in DOMAIN m : i - Len(s) <= j /\ m[j] \in B
      BY <1>5, <2>2 DEF Ends
    <3>2. i <= Len(s) + j
      BY <1>0, <2>2, <3>1
    <3> QED
      BY <1>0, <3>1, <3>2
  <2> QED
    BY <1>0, <2>1, <2>2
<1>6. Ends(m, A, B) /\ (Ends(s, A, B) \/ Some(m, B)) => Ends(r, A, B)
  BY <1>5 DEF Ends
<1> QED
  BY <1>1, <1>2, <1>3, <1>4, <1>6 DEF r

\* A second list without a snapshot leaves the first as it was, ...
LEMMA AheadConcat ==
    ASSUME NEW D, NEW s \in Seq(D), NEW m \in Seq(D), ~Pending(m)
    PROVE  /\ \A i \in DOMAIN s : Ahead(s \o m, i) <=> Ahead(s, i)
           /\ \A i \in DOMAIN m : ~Ahead(s \o m, Len(s) + i)
<1> DEFINE r == s \o m
<1>0. /\ Len(s) \in Nat /\ DOMAIN s = 1 .. Len(s) /\ Len(m) \in Nat /\ DOMAIN m = 1 .. Len(m)
      /\ \A i \in DOMAIN s : i \in DOMAIN r /\ r[i] = s[i]
      /\ \A i \in DOMAIN r : \/ i \in DOMAIN s /\ r[i] = s[i]
                             \/ i - Len(s) \in DOMAIN m /\ r[i] = m[i - Len(s)]
  BY ConcatPlaces
<1> HIDE DEF r
<1>1. ASSUME NEW k \in DOMAIN r, r[k].kind = "snapshot" PROVE k \in DOMAIN s /\ s[k].kind = "snapshot"
  BY <1>0, <1>1 DEF Pending
<1>2. ASSUME NEW i, Ahead(r, i) PROVE Ahead(s, i)
  BY <1>1, <1>2 DEF Ahead
<1>3. ASSUME NEW i, Ahead(s, i) PROVE Ahead(r, i)
  BY <1>0, <1>3 DEF Ahead
<1>4. ASSUME NEW i \in DOMAIN m, Ahead(r, Len(s) + i) PROVE FALSE
  <2>1. PICK k \in DOMAIN s : Len(s) + i < k
    BY <1>2, <1>4 DEF Ahead
  <2> QED
    BY <1>0, <2>1
<1> QED
  BY <1>2, <1>3, <1>4 DEF r

\* ... and what it holds is behind the snapshot of the first.
LEMMA BeforeConcat ==
    ASSUME NEW D, NEW s \in Seq(D), NEW m \in Seq(D), ~Pending(m), NEW A
    PROVE  /\ Before(s \o m, A) <=> Before(s, A)
           /\ Behind(s \o m, A) <=> Behind(s, A) \/ Some(m, A)
<1> DEFINE r == s \o m
<1>0. /\ \A i \in DOMAIN s : i \in DOMAIN r /\ r[i] = s[i]
      /\ \A i \in DOMAIN m : Len(s) + i \in DOMAIN r /\ r[Len(s) + i] = m[i]
      /\ \A i \in DOMAIN r : \/ i \in DOMAIN s /\ r[i] = s[i]
                             \/ /\ i - Len(s) \in DOMAIN m /\ r[i] = m[i - Len(s)]
                                /\ i = Len(s) + (i - Len(s))
  BY ConcatPlaces
<1>1. /\ \A i \in DOMAIN s : Ahead(r, i) <=> Ahead(s, i)
      /\ \A i \in DOMAIN m : ~Ahead(r, Len(s) + i)
  BY AheadConcat
<1> HIDE DEF r
<1>2. ASSUME Before(r, A) PROVE Before(s, A)
  <2>1. PICK i \in DOMAIN r : r[i] \in A /\ Ahead(r, i)
    BY <1>2 DEF Before
  <2>2. ~(i - Len(s) \in DOMAIN m /\ i = Len(s) + (i - Len(s)))
    BY <1>1, <2>1
  <2>3. i \in DOMAIN s /\ r[i] = s[i]
    BY <1>0, <2>2
  <2> QED
    BY <1>1, <2>1, <2>3 DEF Before
<1>3. ASSUME Before(s, A) PROVE Before(r, A)
  BY <1>0, <1>1, <1>3 DEF Before
<1>4. ASSUME Behind(r, A) PROVE Behind(s, A) \/ Some(m, A)
  <2>1. PICK i \in DOMAIN r : r[i] \in A /\ ~Ahead(r, i)
    BY <1>4 DEF Behind
  <2> QED
    BY <1>0, <1>1, <2>1 DEF Behind, Some
<1>5. ASSUME Behind(s, A) PROVE Behind(r, A)
  BY <1>0, <1>1, <1>5 DEF Behind
<1>6. ASSUME Some(m, A) PROVE Behind(r, A)
  BY <1>0, <1>1, <1>6 DEF Behind, Some
<1> QED
  BY <1>2, <1>3, <1>4, <1>5, <1>6 DEF r

\* Nothing of two lists that a snapshot ends is behind it.
LEMMA AllBefore ==
    ASSUME NEW D, NEW s \in Seq(D), NEW m \in Seq(D), m # <<>>, m[Len(m)].kind = "snapshot", NEW A,
           \A x \in A : x.kind # "snapshot"
    PROVE  ~Behind(s \o m, A) /\ (Before(s \o m, A) <=> Some(s, A) \/ Some(m, A))
<1> DEFINE r == s \o m
<1>1. Len(m) \in Nat \ {0} /\ Len(s) \in Nat /\ DOMAIN r = 1 .. (Len(s) + Len(m)) /\ Len(m) \in DOMAIN m
  OBVIOUS
<1>2. Len(s) + Len(m) \in DOMAIN r /\ r[Len(s) + Len(m)].kind = "snapshot"
  BY <1>1, ConcatPlaces
<1>3. Some(r, A) <=> Some(s, A) \/ Some(m, A)
  BY SomeConcat
<1> HIDE DEF r
<1>4. ASSUME NEW i \in DOMAIN r, r[i] \in A PROVE Ahead(r, i)
  <2>1. i # Len(s) + Len(m)
    BY <1>2, <1>4
  <2>2. i < Len(s) + Len(m)
    BY <1>1, <2>1
  <2> QED
    BY <1>2, <2>2 DEF Ahead
<1>5. ~Behind(r, A) /\ (Before(r, A) <=> Some(r, A))
  BY <1>4 DEF Behind, Before, Some
<1> QED
  BY <1>3, <1>5 DEF r

\* What a list of one element holds.
LEMMA OneIs ==
    ASSUME NEW x, NEW A, NEW B
    PROVE  /\ Some(<<x>>, A) <=> x \in A
           /\ ~Then(<<x>>, A, B)
           /\ Ends(<<x>>, A, B) <=> (x \in A => x \in B)
           /\ Pending(<<x>>) <=> x.kind = "snapshot"
<1>1. DOMAIN <<x>> = {1} /\ <<x>>[1] = x
  OBVIOUS
<1>2. Some(<<x>>, A) <=> x \in A
  BY <1>1 DEF Some
<1>3. ~Then(<<x>>, A, B)
  BY <1>1 DEF Then
<1>4. Ends(<<x>>, A, B) <=> (x \in A => x \in B)
  BY <1>1 DEF Ends
<1>5. Pending(<<x>>) <=> x.kind = "snapshot"
  BY <1>1 DEF Pending
<1> QED
  BY <1>2, <1>3, <1>4, <1>5

\* An empty list holds nothing.
LEMMA NoneIs ==
    ASSUME NEW A, NEW B
    PROVE  /\ ~Some(<<>>, A) /\ ~Then(<<>>, A, B) /\ Ends(<<>>, A, B) /\ ~Pending(<<>>)
           /\ ~Before(<<>>, A) /\ ~Behind(<<>>, A) /\ \A n : ~Coming(<<>>, n)
<1>1. DOMAIN <<>> = {}
  OBVIOUS
<1> QED
  BY <1>1 DEF Some, Then, Ends, Pending, Before, Behind, Coming

-----------------------------------------------------------------------------
(***************************************************************************)
(* What is on its way about a target.                                      *)
(***************************************************************************)

\* The sets of messages and requests about a target that matter.
LEMMA MailSets ==
    ASSUME NEW t
    PROVE  /\ t \in Watched => Answers(t) \in SUBSET Of(t)
           /\ \A kind : Said(kind, t) \in SUBSET Of(t)
           /\ \A d : DocOf(t, d) \in SUBSET Of(t) /\ DocOf(t, d) \subseteq Said("document", t)
           /\ Asks(t) \in SUBSET Asks(t) /\ Adds(t) \in SUBSET Asks(t) /\ Drops(t) \in SUBSET Asks(t)
           /\ \A v : Outdated(t, v) \in SUBSET Asks(t)
<1>1. t \in Watched => Answers(t) \in SUBSET Of(t)
  <2> SUFFICES ASSUME t \in Watched, NEW m \in Answers(t) PROVE m \in Of(t)
    OBVIOUS
  <2>1. m \in Single /\ t \in m.about
    BY DEF Answers, Single
  <2> QED
    BY <2>1 DEF Of, Message
<1>2. \A kind : Said(kind, t) \in SUBSET Of(t)
  BY DEF Said, Of
<1>3. \A d : DocOf(t, d) \in SUBSET Of(t) /\ DocOf(t, d) \subseteq Said("document", t)
  BY DEF DocOf, Said, Of
<1>4. Asks(t) \in SUBSET Asks(t) /\ Adds(t) \in SUBSET Asks(t) /\ Drops(t) \in SUBSET Asks(t)
  BY DEF Asks, Adds, Drops
<1>5. \A v : Outdated(t, v) \in SUBSET Asks(t)
  BY <1>4 DEF Outdated
<1> QED
  BY <1>1, <1>2, <1>3, <1>4, <1>5

\* The same is unread about t, ...
SameMail(in, old, t) ==
    /\ \A A \in SUBSET Of(t) : /\ Some(in, A) <=> Some(old, A)
                               /\ Before(in, A) <=> Before(old, A)
                               /\ Behind(in, A) <=> Behind(old, A)
    /\ \A A \in SUBSET Of(t) : \A B \in SUBSET Of(t) :
          (Then(in, A, B) => Then(old, A, B)) /\ (Ends(old, A, B) => Ends(in, A, B))
    /\ \A n : Coming(in, n) <=> Coming(old, n)
    /\ Pending(in) <=> Pending(old)

\* ... and the same is asked.
SameAsked(out, old, t) ==
    /\ \A A \in SUBSET Asks(t) : Some(out, A) <=> Some(old, A)
    /\ \A A \in SUBSET Asks(t) : \A B \in SUBSET Asks(t) : Ends(old, A, B) => Ends(out, A, B)

\* Of a target nothing is read with a message that is not about it, ...
LEMMA MailTail ==
    ASSUME NEW s \in Seq(Message), s # <<>>, NEW t, Head(s).kind # "snapshot", Head(s) \notin Of(t)
    PROVE  SameMail(Tail(s), s, t)
<1>1. ASSUME NEW A \in SUBSET Of(t)
      PROVE  /\ Some(Tail(s), A) <=> Some(s, A)
             /\ Before(Tail(s), A) <=> Before(s, A)
             /\ Behind(Tail(s), A) <=> Behind(s, A)
  <2>1. Head(s) \notin A
    OBVIOUS
  <2>2. Some(s, A) <=> Some(Tail(s), A)
    BY <2>1, SomeTail
  <2>3. (Before(s, A) <=> Before(Tail(s), A)) /\ (Behind(s, A) <=> Behind(Tail(s), A))
    BY <2>1, BeforeTail
  <2> QED
    BY <2>2, <2>3
<1>2. ASSUME NEW A \in SUBSET Of(t), NEW B \in SUBSET Of(t)
      PROVE  (Then(Tail(s), A, B) => Then(s, A, B)) /\ (Ends(s, A, B) => Ends(Tail(s), A, B))
  BY ThenTail
<1>3. /\ \A n : Coming(Tail(s), n) <=> Coming(s, n)
      /\ Pending(Tail(s)) <=> Pending(s)
  BY ComingTail
<1> QED
  BY <1>1, <1>2, <1>3 DEF SameMail

\* ... nothing is said with one that is not, ...
LEMMA MailMore ==
    ASSUME NEW s \in Seq(Message), NEW m \in Message, m.kind # "snapshot", NEW t, m \notin Of(t)
    PROVE  SameMail(Append(s, m), s, t)
<1> DEFINE one == <<m>>
           r == s \o one
<1>1. Append(s, m) = r /\ one \in Seq(Message)
  BY OneMore
<1>2. ~Pending(one)
  BY OneIs
<1>3. ASSUME NEW A \in SUBSET Of(t)
      PROVE  ~Some(one, A) /\ Ends(one, A, A)
  <2>1. m \notin A
    OBVIOUS
  <2> QED
    BY <2>1, OneIs
<1> HIDE DEF one
<1>4. ASSUME NEW A \in SUBSET Of(t)
      PROVE  /\ Some(r, A) <=> Some(s, A)
             /\ Before(r, A) <=> Before(s, A)
             /\ Behind(r, A) <=> Behind(s, A)
  <2>1. Some(r, A) <=> Some(s, A)
    BY <1>1, <1>3, SomeConcat
  <2>2. (Before(r, A) <=> Before(s, A)) /\ (Behind(r, A) <=> Behind(s, A))
    BY <1>1, <1>2, <1>3, BeforeConcat
  <2> QED
    BY <2>1, <2>2
<1>5. ASSUME NEW A \in SUBSET Of(t), NEW B \in SUBSET Of(t)
      PROVE  (Then(r, A, B) => Then(s, A, B)) /\ (Ends(s, A, B) => Ends(r, A, B))
  <2>1. ~Some(one, B) /\ ~Some(one, A) /\ ~Then(one, A, B) /\ Ends(one, A, B)
    <3>1. ~Some(one, B) /\ ~Some(one, A)
      BY <1>3
    <3>2. ~Then(one, A, B) /\ Ends(one, A, B)
      BY <3>1 DEF Then, Ends, Some
    <3> QED
      BY <3>1, <3>2
  <2> QED
    BY <1>1, <2>1, ThenConcat
<1>6. /\ \A n : Coming(r, n) <=> Coming(s, n)
      /\ Pending(r) <=> Pending(s)
  <2>1. \A n : ~Coming(one, n)
    BY <1>2 DEF Coming, Pending
  <2> QED
    BY <1>1, <1>2, <2>1, ComingConcat
<1> HIDE DEF r
<1> QED
  BY <1>1, <1>4, <1>5, <1>6 DEF SameMail

\* ... and nothing changes where nothing is read or said.
LEMMA MailSame ==
    ASSUME NEW s, NEW t
    PROVE  SameMail(s, s, t) /\ SameAsked(s, s, t)
BY DEF SameMail, SameAsked

\* Of a target nothing is answered with a request about another, ...
LEMMA AskedTail ==
    ASSUME NEW s \in Seq(RequestType), s # <<>>, NEW t, Head(s) \notin Asks(t)
    PROVE  SameAsked(Tail(s), s, t)
<1>1. ASSUME NEW A \in SUBSET Asks(t) PROVE Some(Tail(s), A) <=> Some(s, A)
  <2>1. Head(s) \notin A
    OBVIOUS
  <2> QED
    BY <2>1, SomeTail
<1>2. ASSUME NEW A \in SUBSET Asks(t), NEW B \in SUBSET Asks(t)
      PROVE  Ends(s, A, B) => Ends(Tail(s), A, B)
  BY ThenTail
<1> QED
  BY <1>1, <1>2 DEF SameAsked

\* ... and nothing asked.
LEMMA AskedMore ==
    ASSUME NEW s \in Seq(RequestType), NEW r \in RequestType, NEW t, r \notin Asks(t)
    PROVE  SameAsked(Append(s, r), s, t)
<1> DEFINE one == <<r>>
<1>1. Append(s, r) = s \o one /\ one \in Seq(RequestType)
  BY OneMore
<1>2. ASSUME NEW A \in SUBSET Asks(t) PROVE ~Some(one, A)
  <2>1. r \notin A
    OBVIOUS
  <2> QED
    BY <2>1, OneIs
<1> HIDE DEF one
<1>3. ASSUME NEW A \in SUBSET Asks(t) PROVE Some(s \o one, A) <=> Some(s, A)
  BY <1>1, <1>2, SomeConcat
<1>4. ASSUME NEW A \in SUBSET Asks(t), NEW B \in SUBSET Asks(t)
      PROVE  Ends(s, A, B) => Ends(s \o one, A, B)
  <2>1. Ends(one, A, B)
    BY <1>2 DEF Ends, Some
  <2> QED
    BY <1>1, <2>1, ThenConcat
<1> QED
  BY <1>1, <1>3, <1>4 DEF SameAsked

-----------------------------------------------------------------------------
-----------------------------------------------------------------------------
(***************************************************************************)
(* A target that a step does not concern.                                  *)
(***************************************************************************)

\* The client knows the same of t in x as in c, and documents that c knows of are known.
SamePlace(x, c, t) ==
    /\ t \in DOMAIN x.listening <=> t \in DOMAIN c.listening
    /\ t \in DOMAIN c.listening => /\ x.listening[t] = c.listening[t]
                                   /\ RemoteKeys(x, t) = RemoteKeys(c, t)
    /\ t \in DOMAIN x.agg <=> t \in DOMAIN c.agg
    /\ Entry(x, t) = Entry(c, t)
    /\ t \in DOMAIN x.serving <=> t \in DOMAIN c.serving
    /\ t \in DOMAIN c.serving => x.serving[t] = c.serving[t]
    /\ t \in x.resets => t \in c.resets
    /\ t \in c.resets => t \in x.resets
    /\ DOMAIN c.updates \subseteq DOMAIN x.updates
    /\ x.stream = c.stream

\* All that is known, said and asked of a target is the same.
SameTarget(x, c, t) ==
    /\ SamePlace(x, c, t)
    /\ SameMail(x.incoming, c.incoming, t) /\ SameAsked(x.requests, c.requests, t)
    /\ Due(x.incoming, x.requests, t) = Due(c.incoming, c.requests, t)

\* Then it is as right as it was.
LEMMA RightSame ==
    ASSUME NEW lg, NEW c, NEW x, NEW t \in Watched, SameTarget(x, c, t), Right(lg, c, t)
    PROVE  Right(lg, x, t)
<1> DEFINE M(kind) == Said(kind, t)
<1>1. SamePlace(x, c, t) /\ Due(x.incoming, x.requests, t) = Due(c.incoming, c.requests, t)
  BY DEF SameTarget
<1>2. \A A \in SUBSET Of(t) : /\ Some(x.incoming, A) <=> Some(c.incoming, A)
                              /\ Before(x.incoming, A) <=> Before(c.incoming, A)
                              /\ Behind(x.incoming, A) <=> Behind(c.incoming, A)
  BY DEF SameTarget, SameMail
<1>3. \A A \in SUBSET Of(t) : \A B \in SUBSET Of(t) :
          /\ Then(x.incoming, A, B) => Then(c.incoming, A, B)
          /\ Ends(c.incoming, A, B) => Ends(x.incoming, A, B)
  BY DEF SameTarget, SameMail
<1>4. /\ \A n : Coming(x.incoming, n) <=> Coming(c.incoming, n)
      /\ Pending(x.incoming) <=> Pending(c.incoming)
  BY DEF SameTarget, SameMail
<1>5. /\ \A A \in SUBSET Asks(t) : Some(x.requests, A) <=> Some(c.requests, A)
      /\ \A A \in SUBSET Asks(t) : \A B \in SUBSET Asks(t) :
            Ends(c.requests, A, B) => Ends(x.requests, A, B)
  BY DEF SameTarget, SameAsked
<1>6. Late(x, t) <=> Late(c, t)
  BY <1>2, <1>5, MailSets DEF Late
<1>7. Known(x, t)
  <2>1. Known(c, t)
    BY DEF Right
  <2>2. /\ Some(x.requests, Asks(t)) <=> Some(c.requests, Asks(t))
        /\ Ends(c.requests, Asks(t), Drops(t)) => Ends(x.requests, Asks(t), Drops(t))
    BY <1>5, MailSets
  <2>3. /\ Some(x.incoming, Said("reset", t)) <=> Some(c.incoming, Said("reset", t))
        /\ Ends(c.incoming, Said("reset", t), Said("removed", t))
              => Ends(x.incoming, Said("reset", t), Said("removed", t))
    BY <1>2, <1>3, MailSets
  <2> QED
    BY <1>1, <2>1, <2>2, <2>3 DEF Known, SamePlace
<1> SUFFICES ASSUME t \in DOMAIN c.listening
             PROVE  Sees(lg, x, t) /\ (x.stream = "Open" => Flows(lg, x, t))
  BY <1>1, <1>7 DEF Right, SamePlace
<1>8. Sees(lg, x, t)
  BY <1>1 DEF Right, Sees, SamePlace
<1> SUFFICES ASSUME x.stream = "Open"
             PROVE  Flows(lg, x, t)
  BY <1>8
<1>9. Flows(lg, c, t)
  BY <1>1 DEF Right, SamePlace
<1>10. Entry(x, t) = Entry(c, t) /\ x.listening[t] = c.listening[t] /\ Holds(x, t) = Holds(c, t)
       /\ RemoteKeys(x, t) = RemoteKeys(c, t)
  BY <1>1 DEF SamePlace, Holds
<1>11. Collects(x, t)
  BY <1>1, <1>9, <1>10 DEF Flows, Collects, SamePlace
<1>12. Asking(x, t)
  <2>1. /\ Some(x.requests, Asks(t)) <=> Some(c.requests, Asks(t))
        /\ Some(x.requests, Adds(t)) <=> Some(c.requests, Adds(t))
        /\ Some(x.requests, Drops(t)) <=> Some(c.requests, Drops(t))
        /\ Some(x.requests, Outdated(t, c.listening[t])) <=> Some(c.requests, Outdated(t, c.listening[t]))
    BY <1>5, MailSets
  <2>2. /\ Some(x.incoming, Said("reset", t)) <=> Some(c.incoming, Said("reset", t))
        /\ Some(x.incoming, Said("error", t)) <=> Some(c.incoming, Said("error", t))
        /\ Then(x.incoming, Said("reset", t), Answers(t)) => Then(c.incoming, Said("reset", t), Answers(t))
    BY <1>2, <1>3, MailSets
  <2> QED
    BY <1>1, <1>9, <1>10, <2>1, <2>2 DEF Flows, Asking, SamePlace
<1>13. Served(x, t)
  <2>1. Some(x.requests, Asks(t)) <=> Some(c.requests, Asks(t))
    BY <1>5, MailSets
  <2>2. /\ Some(x.incoming, Said("error", t)) <=> Some(c.incoming, Said("error", t))
        /\ Behind(x.incoming, Said("reset", t)) <=> Behind(c.incoming, Said("reset", t))
    BY <1>2, MailSets
  <2>3. /\ t \in DOMAIN x.serving <=> t \in DOMAIN c.serving
        /\ t \in DOMAIN c.serving => x.serving[t] = c.serving[t]
    BY <1>1 DEF SamePlace
  <2>4. t \in DOMAIN c.serving => /\ Resumed(x, t) <=> Resumed(c, t)
                                  /\ StartedOver(x, t) <=> StartedOver(c, t)
    BY <1>10, <2>3 DEF Resumed, StartedOver
  <2> QED
    BY <1>4, <1>6, <1>9, <2>1, <2>2, <2>3, <2>4 DEF Flows, Served
<1>14. Brings(lg, x, t)
  <2>1. /\ Some(x.incoming, Said("document", t)) <=> Some(c.incoming, Said("document", t))
        /\ Some(x.incoming, Said("current", t)) <=> Some(c.incoming, Said("current", t))
        /\ Some(x.incoming, Said("filter", t)) <=> Some(c.incoming, Said("filter", t))
        /\ Before(x.incoming, Said("reset", t)) <=> Before(c.incoming, Said("reset", t))
    BY <1>2, MailSets
  <2>2. \A d : Some(x.incoming, DocOf(t, d)) <=> Some(c.incoming, DocOf(t, d))
    BY <1>2, MailSets
  <2>3. ASSUME NEW n, NEW d, Rightly(lg, c, t, d, n) PROVE Rightly(lg, x, t, d, n)
    <3>1. DOMAIN c.updates \subseteq DOMAIN x.updates
      BY <1>1 DEF SamePlace
    <3>2. Will(x, t, d) <=> Will(c, t, d)
      BY <1>10, <2>1 DEF Will
    <3> QED
      BY <1>10, <2>1, <2>2, <2>3, <3>1, <3>2 DEF Rightly
  <2>4. Confirmed(c, t) => Confirmed(x, t)
    BY <1>10, <2>1 DEF Confirmed
  <2>5. t \in x.resets <=> t \in c.resets
    BY <1>1 DEF SamePlace
  <2> QED
    BY <1>4, <1>6, <1>9, <1>10, <2>1, <2>3, <2>4, <2>5 DEF Flows, Brings, Delivers
<1> QED
  BY <1>11, <1>12, <1>13, <1>14 DEF Flows

\* Without an open stream a target is right when it has what the server had.
LEMMA QuietRight ==
    ASSUME NEW lg, NEW x, Quiet(x), x.stream # "Open", NEW t,
           t \in DOMAIN x.listening => Sees(lg, x, t)
    PROVE  Right(lg, x, t)
<1>1. x.serving = <<>> /\ x.incoming = <<>> /\ x.requests = <<>>
  BY DEF Quiet
<1>2. DOMAIN x.serving = {} /\ ~Some(x.incoming, Said("reset", t))
      /\ Ends(x.incoming, Said("reset", t), Said("removed", t)) /\ Ends(x.requests, Asks(t), Drops(t))
  BY <1>1, NoneIs
<1>3. Known(x, t)
  BY <1>2 DEF Known
<1> QED
  BY <1>3 DEF Right

\* A client to which nothing is on its way is told nothing false, ...
LEMMA QuietTells ==
    ASSUME NEW lg, NEW x, Quiet(x)
    PROVE  Telltale(lg, x)
<1>1. x.updates = <<>> /\ x.resets = {} /\ x.incoming = <<>> /\ DOMAIN <<>> = {}
  BY DEF Quiet
<1>2. Sorted(<<>>)
  BY <1>1, NoneIs DEF Sorted
<1>3. \A n : ~Coming(<<>>, n)
  BY NoneIs
<1> QED
  BY <1>1, <1>2, <1>3 DEF Telltale

\* ... and is right about its targets while the stream is not open.
LEMMA QuietNet ==
    ASSUME NEW lg, NEW x, Quiet(x), x.stream # "Open",
           \A t \in DOMAIN x.listening : Sees(lg, x, t)
    PROVE  Net(lg, x)
BY QuietRight, QuietTells DEF Net

\* What is on its way stays true when that, and what is gathered, stay the same.
LEMMA TelltaleSame ==
    ASSUME NEW lg, NEW c, Telltale(lg, c), NEW x, x.incoming = c.incoming, x.updates = c.updates,
           x.resets = c.resets, x.keys = c.keys
    PROVE  Telltale(lg, x)
BY DEF Telltale, TrueUpdate

-----------------------------------------------------------------------------
(***************************************************************************)
(* The log grows.                                                          *)
(***************************************************************************)

\* A version of the log.
Logged == [doc : Docs, content : Values]

\* What was true up to a version of the log is true in a longer one.
LEMMA TruthLater ==
    ASSUME NEW lg \in Seq(Logged), NEW e \in Logged, NEW n \in Nat, n <= Len(lg)
    PROVE  LET mg == Append(lg, e)
           IN  /\ \A d : Newest(mg, d, n) = Newest(lg, d, n) /\ Truth(mg, d, n) = Truth(lg, d, n)
               /\ \A t : Have(mg, t, n) = Have(lg, t, n)
               /\ n <= Len(mg) /\ (n # 0 => mg[n] = lg[n])
<1> DEFINE mg == Append(lg, e)
<1>1. \A d : Newest(mg, d, n) = Newest(lg, d, n) /\ Truth(mg, d, n) = Truth(lg, d, n)
  BY NewestLater
<1>2. \A t : Have(mg, t, n) = Have(lg, t, n)
  BY HaveLater
<1>3. n <= Len(mg) /\ (n # 0 => mg[n] = lg[n])
  OBVIOUS
<1> QED
  BY <1>1, <1>2, <1>3

\* The versions that the client knows are numbers.
LEMMA VersionsOf ==
    ASSUME NEW c, Typed(c)
    PROVE  /\ \A t \in DOMAIN c.listening : t \in Watched /\ c.listening[t] \in Nat
           /\ \A n : Coming(c.incoming, n) => n \in Versions /\ n \in Nat
           /\ {c.token, c.savedFree, c.limboFree, c.lastSnap} \subseteq Nat
           /\ \A d \in Docs : c.cache[d].version \in Nat
           /\ \A i \in DOMAIN c.writes : c.writes[i].version \in Int
<1>1. c.listening \in Partial(Watched, Versions)
      /\ {c.token, c.savedFree, c.limboFree, c.lastSnap} \subseteq Versions
      /\ c.incoming \in Seq(Message) /\ c.cache \in [Docs -> CachedDoc] /\ c.writes \in Seq(WriteType)
  BY FieldTypes
<1>2. Versions \subseteq Nat
  BY ZeroVersion
<1>3. \A t \in DOMAIN c.listening : t \in Watched /\ c.listening[t] \in Nat
  BY <1>1, <1>2, PartialIs
<1>4. ASSUME NEW n, Coming(c.incoming, n) PROVE n \in Versions /\ n \in Nat
  <2>1. PICK k \in DOMAIN c.incoming : c.incoming[k].kind = "snapshot" /\ c.incoming[k].version = n
    BY <1>4 DEF Coming
  <2>2. c.incoming[k] \in Message
    BY <1>1
  <2>3. c.incoming[k] \in Snapshot
    BY <2>1, <2>2 DEF Message, Single, Filter, Document, News
  <2> QED
    BY <1>2, <2>1, <2>3 DEF Snapshot
<1>5. \A d \in Docs : c.cache[d].version \in Nat
  BY <1>1, <1>2 DEF CachedDoc
<1>6. \A i \in DOMAIN c.writes : c.writes[i].version \in Int
  <2>1. \A i \in DOMAIN c.writes : c.writes[i] \in WriteType
    BY <1>1
  <2>2. \A i \in DOMAIN c.writes : c.writes[i].version \in Versions \cup {-1}
    BY <2>1 DEF WriteType
  <2>3. -1 \in Int /\ Nat \subseteq Int
    OBVIOUS
  <2>4. Versions \cup {-1} \subseteq Int
    BY <1>2, <2>3
  <2> QED
    BY <2>2, <2>4
<1> QED
  BY <1>1, <1>2, <1>3, <1>4, <1>5, <1>6

\* A write on the server changes nothing of what a target was told, ...
LEMMA RightLater ==
    ASSUME NEW c, Typed(c), NEW lg \in Seq(Logged), NEW e \in Logged, Net(lg, c), NEW t \in Watched
    PROVE  Right(Append(lg, e), c, t)
<1> DEFINE mg == Append(lg, e)
<1>1. Right(lg, c, t) /\ \A n : Coming(c.incoming, n) => n <= Len(lg)
  BY DEF Net, Telltale, TrueMail
<1> SUFFICES ASSUME t \in DOMAIN c.listening
             PROVE  Sees(mg, c, t) /\ (c.stream = "Open" => Flows(mg, c, t))
  BY <1>1 DEF Right
<1>2. c.listening[t] \in Nat /\ c.listening[t] <= Len(lg)
  BY <1>1, VersionsOf DEF Right, Sees
<1>3. Sees(mg, c, t)
  <2>1. Have(mg, t, c.listening[t]) = Have(lg, t, c.listening[t]) /\ c.listening[t] <= Len(mg)
    BY <1>2, TruthLater
  <2> QED
    BY <1>1, <2>1 DEF Right, Sees
<1> SUFFICES ASSUME c.stream = "Open"
             PROVE  Brings(mg, c, t)
  BY <1>1, <1>3 DEF Right, Flows
<1>4. Brings(lg, c, t)
  BY <1>1 DEF Right, Flows
<1>5. ASSUME NEW n, ~Late(c, t), Coming(c.incoming, n), NEW d, Rightly(lg, c, t, d, n)
      PROVE  Rightly(mg, c, t, d, n)
  <2>1. n \in Nat /\ n <= Len(lg)
    BY <1>1, <1>5, VersionsOf
  <2>2. Have(mg, t, n) = Have(lg, t, n) /\ Newest(mg, d, n) = Newest(lg, d, n)
    BY <2>1, TruthLater
  <2> QED
    BY <1>5, <2>2 DEF Rightly
<1> QED
  BY <1>4, <1>5 DEF Brings, Delivers

\* ... of what is on its way, ...
LEMMA NetLater ==
    ASSUME NEW c, Typed(c), NEW lg \in Seq(Logged), NEW e \in Logged, Net(lg, c)
    PROVE  Net(Append(lg, e), c)
<1> DEFINE mg == Append(lg, e)
<1>1. \A t \in Watched : Right(mg, c, t)
  BY RightLater
<1>2. Telltale(lg, c)
  BY DEF Net
<1>3. ASSUME NEW n, Coming(c.incoming, n)
      PROVE  TrueMail(mg, c.incoming, n) /\ \A d \in DOMAIN c.updates : TrueUpdate(mg, c, d, n)
  <2>1. TrueMail(lg, c.incoming, n) /\ \A d \in DOMAIN c.updates : TrueUpdate(lg, c, d, n)
    BY <1>2, <1>3 DEF Telltale
  <2>2. n \in Nat /\ n <= Len(lg)
    BY <1>3, <2>1, VersionsOf DEF TrueMail
  <2>3. /\ \A d : Newest(mg, d, n) = Newest(lg, d, n) /\ Truth(mg, d, n) = Truth(lg, d, n)
        /\ \A u : Have(mg, u, n) = Have(lg, u, n)
        /\ n <= Len(mg)
    BY <2>2, TruthLater
  <2> HIDE DEF mg
  <2>4. \A d \in DOMAIN c.updates : TrueUpdate(mg, c, d, n)
    BY <2>1, <2>3 DEF TrueUpdate
  <2>5. ASSUME NEW m, TrueMessage(lg, m, n) PROVE TrueMessage(mg, m, n)
    <3>1. \A d : Update(mg, d, n) = Update(lg, d, n)
      BY <2>3 DEF Update
    <3> QED
      BY <2>3, <2>5, <3>1 DEF TrueMessage
  <2>6. TrueMail(mg, c.incoming, n)
    BY <2>1, <2>3, <2>5 DEF TrueMail
  <2> QED
    BY <2>4, <2>6
<1>4. Telltale(mg, c)
  BY <1>2, <1>3 DEF Telltale
<1> QED
  BY <1>1, <1>4 DEF Net

\* ... or of what is on disk.
LEMMA DiskLater ==
    ASSUME NEW c, Typed(c), NEW lg \in Seq(Logged), NEW e \in Logged, Disk(lg, c),
           c.on => Query \in DOMAIN c.listening
    PROVE  Disk(Append(lg, e), c)
<1> DEFINE mg == Append(lg, e)
<1>1. ASSUME NEW v \in Nat, KeysAt(lg, c, v) PROVE KeysAt(mg, c, v)
  <2>1. v <= Len(lg)
    BY <1>1 DEF KeysAt
  <2>2. /\ \A d : Newest(mg, d, v) = Newest(lg, d, v)
        /\ Have(mg, Query, v) = Have(lg, Query, v) /\ v <= Len(mg)
    BY <2>1, TruthLater
  <2> QED
    BY <1>1, <2>2 DEF KeysAt
<1>2. KeysAt(mg, c, c.token) /\ (c.on => KeysAt(mg, c, c.listening[Query]))
  BY <1>1, VersionsOf DEF Disk
<1>3. CacheTrue(mg, c)
  <2> SUFFICES ASSUME NEW d \in Docs
               PROVE  c.cache[d].version <= Len(mg)
                      /\ c.cache[d].content = Truth(mg, d, c.cache[d].version)
    BY DEF CacheTrue
  <2> DEFINE v == c.cache[d].version
  <2>1. v \in Nat /\ v <= Len(lg) /\ c.cache[d].content = Truth(lg, d, v)
    BY VersionsOf DEF Disk, CacheTrue
  <2> HIDE DEF v
  <2>2. Truth(mg, d, v) = Truth(lg, d, v) /\ v <= Len(mg)
    BY <2>1, TruthLater
  <2> QED
    BY <2>1, <2>2 DEF v
<1>4. SentOnes(mg, c)
  <2> SUFFICES ASSUME NEW i \in DOMAIN c.writes, c.writes[i].version > 0
               PROVE  /\ c.writes[i].version <= Len(mg)
                      /\ mg[c.writes[i].version] = [doc |-> c.writes[i].doc, content |-> c.writes[i].content]
    BY DEF SentOnes
  <2> DEFINE v == c.writes[i].version
  <2>0. v \in Int
    BY VersionsOf
  <2>1. v \in Nat \ {0} /\ v <= Len(lg)
        /\ lg[v] = [doc |-> c.writes[i].doc, content |-> c.writes[i].content]
    <3>1. v > 0 /\ SentOnes(lg, c)
      BY DEF Disk
    <3>2. v <= Len(lg) /\ lg[v] = [doc |-> c.writes[i].doc, content |-> c.writes[i].content]
      BY <3>1 DEF SentOnes
    <3> HIDE DEF v
    <3>3. v \in Nat \ {0}
      BY <2>0, <3>1
    <3> QED
      BY <3>2, <3>3
  <2> HIDE DEF v
  <2>2. mg[v] = lg[v] /\ v <= Len(mg)
    BY <2>1, TruthLater
  <2> QED
    BY <2>1, <2>2 DEF v
<1> QED
  BY <1>2, <1>3, <1>4 DEF Disk

\* What was gone at a version that was heard still is.
LEMMA LeavingLater ==
    ASSUME NEW c, Typed(c), NEW lg \in Seq(Logged), NEW e \in Logged, Leaving(lg, c),
           c.lastSnap <= Len(lg)
    PROVE  Leaving(Append(lg, e), c)
<1> DEFINE mg == Append(lg, e)
<1> SUFFICES ASSUME NEW d \in c.leftOut PROVE Gone(mg, c, d)
  BY DEF Leaving, Omitted
<1>1. d \in Docs /\ c.cache[d].version \in Nat /\ c.lastSnap \in Nat
  BY FieldTypes, VersionsOf
<1>2. PICK n \in c.cache[d].version .. c.lastSnap : Truth(lg, d, n) = Missing
  BY DEF Leaving, Omitted, Gone
<1>3. n \in Nat /\ n <= Len(lg)
  BY <1>1, <1>2
<1>4. Truth(mg, d, n) = Truth(lg, d, n)
  BY <1>3, TruthLater
<1> HIDE DEF mg
<1> QED
  BY <1>2, <1>4 DEF Gone

-----------------------------------------------------------------------------
(***************************************************************************)
(* What a step leaves alone.                                               *)
(***************************************************************************)

\* Two steps that leave a target alone do so together.
LEMMA SameTargetTrans ==
    ASSUME NEW c, NEW y, NEW x, NEW t, SameTarget(y, c, t), SameTarget(x, y, t)
    PROVE  SameTarget(x, c, t)
<1>1. SamePlace(x, c, t)
  BY DEF SameTarget, SamePlace
<1>2. SameMail(x.incoming, c.incoming, t)
  BY DEF SameTarget, SameMail
<1>3. SameAsked(x.requests, c.requests, t)
  BY DEF SameTarget, SameAsked
<1> QED
  BY <1>1, <1>2, <1>3 DEF SameTarget

\* Only what is watched, or known of other targets, has changed.
LEMMA SameElse ==
    ASSUME NEW c, NEW x, NEW t,
           t \in DOMAIN x.listening <=> t \in DOMAIN c.listening,
           t \in DOMAIN c.listening => /\ x.listening[t] = c.listening[t]
                                       /\ RemoteKeys(x, t) = RemoteKeys(c, t),
           t \in DOMAIN x.agg <=> t \in DOMAIN c.agg, Entry(x, t) = Entry(c, t),
           x.serving = c.serving, t \in x.resets <=> t \in c.resets,
           DOMAIN c.updates \subseteq DOMAIN x.updates,
           x.stream = c.stream, x.incoming = c.incoming, x.requests = c.requests
    PROVE  SameTarget(x, c, t)
<1>1. SamePlace(x, c, t)
  BY DEF SamePlace
<1> QED
  BY <1>1, MailSame DEF SameTarget

\* What the books compare is all that is said of the targets.
LEMMA SameBooksNet ==
    ASSUME NEW c, NEW x, SameBooks(x, c), x.keys = c.keys
    PROVE  /\ \A t : SameTarget(x, c, t)
           /\ \A lg : Net(lg, c) => Net(lg, x)
<1>1. ASSUME NEW t PROVE SameTarget(x, c, t)
  <2>1. RemoteKeys(x, t) = RemoteKeys(c, t)
    BY DEF SameBooks, RemoteKeys
  <2>2. Entry(x, t) = Entry(c, t)
    BY DEF SameBooks, Entry
  <2> QED
    BY <2>1, <2>2, SameElse DEF SameBooks
<1>2. ASSUME NEW lg, Net(lg, c) PROVE Net(lg, x)
  <2>1. Telltale(lg, x)
    BY <1>2, TelltaleSame DEF Net, SameBooks
  <2> QED
    BY <1>1, <1>2, <2>1, RightSame DEF Net
<1> QED
  BY <1>1, <1>2

\* The disk is right when it is as it was.
LEMMA DiskSame ==
    ASSUME NEW lg, NEW c, NEW x, SameDisk(x, c), Disk(lg, c)
    PROVE  Disk(lg, x)
BY DEF SameDisk, Disk, SentOnes, CacheTrue, KeysAt

\* Two steps that leave the view alone do so together, ...
LEMMA SameViewTrans ==
    ASSUME NEW c, NEW y, NEW x, SameView(y, c), SameView(x, y)
    PROVE  SameView(x, c)
BY DEF SameView

\* ... it shows what it showed, ...
LEMMA ShowingSame ==
    ASSUME NEW c, NEW x, SameView(x, c), x.cache = c.cache, x.writes = c.writes,
           x.leftOut = c.leftOut, Showing(c)
    PROVE  Showing(x)
<1>1. \A d : LocalDoc(x, d) = LocalDoc(c, d)
  BY DEF LocalDoc
<1>2. /\ x.on = c.on /\ x.view.docs = c.view.docs /\ x.view.synced = c.view.synced
      /\ x.view.sync = "Synced" => c.view.sync = "Synced"
  BY DEF SameView
<1> QED
  BY <1>1, <1>2 DEF Showing

\* ... and looks up what it did.
LEMMA LookingSame ==
    ASSUME NEW c, NEW x, SameView(x, c), x.keys = c.keys, DOMAIN x.limbo \subseteq DOMAIN c.limbo,
           Looking(c)
    PROVE  Looking(x)
<1>1. x.view.limbo \cap x.view.synced = {} /\ DOMAIN x.limbo \subseteq x.view.limbo
  <2>1. /\ c.view.limbo \cap c.view.synced = {} /\ DOMAIN c.limbo \subseteq c.view.limbo
        /\ x.view.limbo = c.view.limbo /\ x.view.synced = c.view.synced
    BY DEF SameView, Looking
  <2> QED
    BY <2>1
<1>2. (x.on => x.view.synced = x.keys) /\ (~x.on => x.view.limbo = {})
  BY DEF SameView, Looking
<1>3. ~x.on => x.view.sync # "Synced"
  BY DEF SameView, Looking
<1> QED
  BY <1>1, <1>2, <1>3 DEF Looking

\* What was left out still is.
LEMMA LeavingSame ==
    ASSUME NEW lg, NEW c, NEW x, SameView(x, c), SameDisk(x, c), Leaving(lg, c)
    PROVE  Leaving(lg, x)
<1>1. Dated(x)
  BY DEF SameDisk, Leaving, Dated
<1>2. ASSUME NEW d \in c.leftOut PROVE Omitted(lg, x, d)
  <2>1. Omitted(lg, c, d)
    BY DEF Leaving
  <2>2. Gone(lg, x, d)
    BY <2>1 DEF SameDisk, Omitted, Gone
  <2> QED
    BY <2>1, <2>2 DEF SameDisk, SameView, Omitted
<1> QED
  BY <1>1, <1>2 DEF SameDisk, Leaving

\* Being online or not leaves the view alone, but for its being in sync, ...
LEMMA SetOnlineView ==
    ASSUME NEW c, Typed(c), NEW state \in {"Unknown", "Online", "Offline"}
    PROVE  SameView(SetOnline(c, state), c)
<1> DEFINE x == SetOnline(c, state)
<1>1. Local(x, c) /\ x.view.limbo = c.view.limbo /\ x.view.synced = c.view.synced
  BY SetOnlineTyped
<1>2. Shape(c) /\ c.view \in ViewType
  BY FieldTypes DEF Typed
<1>3. x.view.sync = "Synced" => c.view.sync = "Synced"
  <2>1. CASE state = "Offline" /\ state # c.online /\ c.on
    <3>1. x.view.sync = "Local"
      BY <1>2, <2>1 DEF SetOnline, Shape, Fields, ViewType
    <3> QED
      BY <3>1
  <2>2. CASE ~(state = "Offline" /\ state # c.online /\ c.on)
    <3>1. x.view = c.view
      BY <1>2, <2>2 DEF SetOnline, Shape, Fields
    <3> QED
      BY <3>1
  <2> QED
    BY <2>1, <2>2
<1> QED
  BY <1>1, <1>3 DEF SameView, Local

\* ... as does a step on other fields, ...
LEMMA SameViewOnly ==
    ASSUME NEW c, NEW x, NEW F, Only(x, c, F), "on" \notin F, "view" \notin F
    PROVE  SameView(x, c)
BY DEF SameView, Only, Fields

\* ... a new state of the stream, ...
LEMMA UpdateStateView ==
    ASSUME NEW c, Typed(c), NEW state \in {"Unknown", "Online", "Offline"}
    PROVE  SameView(UpdateState(c, state), c)
<1> DEFINE b == [c EXCEPT !.timer = FALSE, !.failed = FALSE]
<1>1. Shape(c)
  BY DEF Typed
<1>2. Only(b, c, {"timer", "failed"})
  BY <1>1 DEF Only, Shape, Fields
<1>3. b["timer"] \in Client_["timer"] /\ b["failed"] \in Client_["failed"]
  BY <1>1, ClientIs DEF Shape, Fields
<1> HIDE DEF b
<1>4. Typed(b)
  BY <1>2, <1>3, TypedOnly DEF Fields
<1>5. SameView(SetOnline(b, state), b) /\ SameView(b, c)
  BY <1>2, <1>4, SetOnlineView, SameViewOnly
<1> QED
  BY <1>5, SameViewTrans DEF UpdateState, b

\* ... and starting a stream.
LEMMA StartView ==
    ASSUME NEW c, Typed(c)
    PROVE  SameView(HandleWatchStreamStart(c), c) /\ SameView(StartWatchStream(c), c)
<1>1. ASSUME NEW y, Typed(y) PROVE SameView(HandleWatchStreamStart(y), y)
  <2>1. CASE y.failed
    BY <2>1 DEF HandleWatchStreamStart, SameView
  <2>2. CASE ~y.failed
    <3> DEFINE o == SetOnline(y, "Unknown")
               r == Require(o, ~y.timer)
               x == [r EXCEPT !.timer = TRUE]
    <3>1. Typed(o) /\ SameView(o, y)
      BY <1>1, SetOnlineTyped, SetOnlineView
    <3> HIDE DEF o
    <3>2. Typed(r) /\ Only(r, o, {"broken"})
      BY <3>1, RequireTyped
    <3> HIDE DEF r
    <3>3. Shape(r)
      BY <3>2 DEF Typed
    <3>4. Only(x, r, {"timer"})
      BY <3>3 DEF Only, Shape, Fields
    <3>5. SameView(x, r) /\ SameView(r, o)
      BY <3>2, <3>4, SameViewOnly
    <3>6. SameView(x, y)
      BY <3>1, <3>5, SameViewTrans
    <3> QED
      BY <2>2, <3>6 DEF HandleWatchStreamStart, o, r
  <2> QED
    BY <2>1, <2>2
<1>2. SameView(StartWatchStream(c), c)
  <2>1. CASE ~ShouldStartWatchStream(c)
    BY <2>1 DEF StartWatchStream, SameView
  <2>2. CASE ShouldStartWatchStream(c)
    <3> DEFINE b == [c EXCEPT !.stream = "Starting", !.agg = <<>>, !.updates = <<>>, !.resets = {}]
               F == {"stream", "agg", "updates", "resets"}
    <3>1. Shape(c)
      BY DEF Typed
    <3>2. Only(b, c, F)
      BY <3>1 DEF Only, Shape, Fields
    <3>3. b["stream"] = "Starting" /\ b["agg"] = <<>> /\ b["updates"] = <<>> /\ b["resets"] = {}
      BY <3>1 DEF Shape, Fields
    <3> HIDE DEF b
    <3>4. <<>> \in Aggregator /\ <<>> \in Partial(Docs, CachedDoc)
      BY PartialNone DEF Aggregator
    <3>5. /\ b["stream"] \in Client_["stream"] /\ b["agg"] \in Client_["agg"]
          /\ b["updates"] \in Client_["updates"] /\ b["resets"] \in Client_["resets"]
      BY <3>3, <3>4, ClientIs
    <3>6. Typed(b)
      BY <3>2, <3>5, TypedOnly DEF Fields
    <3>7. SameView(HandleWatchStreamStart(b), b) /\ SameView(b, c)
      BY <1>1, <3>2, <3>6, SameViewOnly
    <3>8. SameView(HandleWatchStreamStart(b), c)
      BY <3>7, SameViewTrans
    <3> QED
      BY <2>2, <3>8 DEF StartWatchStream, b
  <2> QED
    BY <2>1, <2>2
<1> QED
  BY <1>1, <1>2

-----------------------------------------------------------------------------
(***************************************************************************)
(* Targets are asked for and left.                                         *)
(***************************************************************************)

\* A request concerns no other target.
LEMMA SendElse ==
    ASSUME NEW c, Typed(c), NEW t \in Watched, NEW add \in BOOLEAN, NEW token \in Versions,
           NEW u \in Watched, u # t
    PROVE  SameTarget(Send(c, t, add, token), c, u)
<1> DEFINE x == Send(c, t, add, token)
           r == [target |-> t, add |-> add, token |-> token]
           e == [Entry(c, t) EXCEPT !.outstanding = @ + 1]
<1>1. /\ Typed(x) /\ Only(x, c, {"agg", "requests", "idle"})
      /\ x.agg = With(c.agg, t, e)
      /\ x.requests = Append(c.requests, r)
  BY SendTyped, Zenon
<1> HIDE DEF x, e
<1>2. /\ x.listening = c.listening /\ x.serving = c.serving /\ x.resets = c.resets
      /\ x.updates = c.updates /\ x.stream = c.stream /\ x.incoming = c.incoming
      /\ x.received = c.received /\ x.on = c.on /\ x.view = c.view
  BY <1>1 DEF Only, Fields
<1>3. c.requests \in Seq(RequestType) /\ c.incoming \in Seq(Message)
  BY FieldTypes
<1>4. r \in RequestType /\ r \notin Asks(u) /\ r.target = t
  BY DEF RequestType, Asks
<1> HIDE DEF r
<1>5. SameAsked(x.requests, c.requests, u)
  BY <1>1, <1>3, <1>4, AskedMore
<1>6. Due(x.incoming, x.requests, u) = Due(c.incoming, c.requests, u)
  <2>1. Due(c.incoming, Append(c.requests, r), u)
          = Due(c.incoming, c.requests, u) + (IF u = r.target THEN 1 ELSE 0)
    BY <1>3, <1>4, OneMoreRequest
  <2>2. Due(c.incoming, c.requests, u) \in Nat
    BY <1>3, DueIs
  <2> QED
    BY <1>1, <1>2, <1>4, <2>1, <2>2, u # t
<1>7. (u \in DOMAIN x.agg <=> u \in DOMAIN c.agg) /\ Entry(x, u) = Entry(c, u)
  <2>1. /\ DOMAIN x.agg = DOMAIN c.agg \cup {t}
        /\ \A y \in DOMAIN c.agg : y # t => x.agg[y] = c.agg[y]
    BY <1>1 DEF With, Over
  <2> QED
    BY <2>1 DEF Entry
<1>8. RemoteKeys(x, u) = RemoteKeys(c, u)
  BY <1>2 DEF RemoteKeys
<1>9. SamePlace(x, c, u)
  BY <1>2, <1>7, <1>8 DEF SamePlace
<1>10. SameMail(x.incoming, c.incoming, u)
  BY <1>2, MailSame
<1> QED
  BY <1>5, <1>6, <1>9, <1>10 DEF SameTarget, x

\* A target that was asked for once is right.
LEMMA AskedRight ==
    ASSUME NEW lg, NEW x, NEW t \in Watched, AskedFor(x, t), Sees(lg, x, t)
    PROVE  Right(lg, x, t)
<1>1. ~Some(x.incoming, Said("reset", t)) /\ Some(x.requests, Asks(t)) /\ t \notin DOMAIN x.serving
      /\ t \in DOMAIN x.listening
  BY DEF AskedFor
<1>2. Known(x, t)
  <2>1. Ends(x.incoming, Said("reset", t), Said("removed", t))
    BY <1>1 DEF Ends, Some
  <2> QED
    BY <1>1, <2>1 DEF Known
<1>3. Collects(x, t)
  <2>1. OfType(Entry(x, t), "Added") = {}
    BY DEF AskedFor, OfType
  <2> QED
    BY <2>1 DEF Collects, AskedFor
<1>4. Asking(x, t)
  <2>1. ~Then(x.incoming, Said("reset", t), Answers(t))
    BY <1>1 DEF Then, Some
  <2> QED
    BY <1>1, <2>1 DEF Asking, AskedFor
<1>5. Served(x, t) /\ Brings(lg, x, t)
  BY <1>1 DEF Served, Brings, Late
<1> QED
  BY <1>2, <1>3, <1>4, <1>5 DEF Right, Flows

\* What the client knows of a target that it neither watches nor knows.
LEMMA Unheard ==
    ASSUME NEW c, Typed(c), Counted(c), NEW t \in Watched, Known(c, t), t \notin DOMAIN c.agg
    PROVE  /\ t \notin DOMAIN c.serving /\ ~Some(c.incoming, Said("reset", t))
           /\ Due(c.incoming, c.requests, t) = 0 /\ Entry(c, t) = NewEntry
           /\ ~Some(c.requests, Asks(t)) /\ ~Some(c.incoming, Answers(t))
<1>1. Entry(c, t) = NewEntry /\ NewEntry.outstanding = 0
  BY DEF Entry, NewEntry
<1>2. Due(c.incoming, c.requests, t) = 0
  BY <1>1, NothingDue
<1>3. At(c.incoming, Answers(t)) = {} /\ At(c.requests, Asks(t)) = {}
  BY <1>2, FieldTypes, DueIs
<1> QED
  BY <1>1, <1>2, <1>3 DEF Known, Some, At

\* A request for a target that is not known.
LEMMA SendAsks ==
    ASSUME NEW c, Typed(c), Counted(c), NEW t \in Watched, Known(c, t), t \notin DOMAIN c.agg,
           NEW b, Typed(b), Only(b, c, {"listening"}), t \in DOMAIN b.listening
    PROVE  AskedFor(Send(b, t, TRUE, b.listening[t]), t)
<1> DEFINE token == b.listening[t]
           x == Send(b, t, TRUE, token)
           r == [target |-> t, add |-> TRUE, token |-> token]
<1>0. b.agg = c.agg /\ b.requests = c.requests /\ b.incoming = c.incoming /\ b.serving = c.serving
  BY DEF Only, Fields
<1>1. token \in Versions
  BY FieldTypes, PartialIs
<1> DEFINE e == [Entry(b, t) EXCEPT !.outstanding = @ + 1]
<1>2. /\ Typed(x) /\ Only(x, b, {"agg", "requests", "idle"})
      /\ x.agg = With(b.agg, t, e)
      /\ x.requests = Append(b.requests, r)
  BY <1>1, SendTyped, Zenon
<1> HIDE DEF x, e
<1>3. x.listening = b.listening /\ x.serving = c.serving /\ x.incoming = c.incoming
  BY <1>0, <1>2 DEF Only, Fields
<1>4. /\ t \notin DOMAIN c.serving /\ ~Some(c.incoming, Said("reset", t))
      /\ Due(c.incoming, c.requests, t) = 0 /\ Entry(c, t) = NewEntry
      /\ ~Some(c.requests, Asks(t))
  BY Unheard
<1>5. Entry(b, t) = NewEntry
  BY <1>0, <1>4 DEF Entry
<1>6. t \in DOMAIN x.agg /\ Entry(x, t) = e
  <2>1. t \in DOMAIN x.agg /\ x.agg[t] = e
    BY <1>2 DEF With, Over
  <2> QED
    BY <2>1 DEF Entry
<1>7. Entry(x, t).outstanding = 1 /\ DOMAIN Entry(x, t).changes = {}
  <2>1. e.outstanding = 1 /\ e.changes = <<>>
    BY <1>5 DEF NewEntry, e
  <2>2. DOMAIN <<>> = {}
    OBVIOUS
  <2> QED
    BY <1>6, <2>1, <2>2
<1>8. c.requests \in Seq(RequestType) /\ c.incoming \in Seq(Message)
  BY FieldTypes
<1>9. r \in RequestType /\ r \in Asks(t) /\ r.target = t /\ r \notin Outdated(t, token)
  BY <1>1 DEF RequestType, Asks, Outdated
<1> HIDE DEF r
<1>10. Due(x.incoming, x.requests, t) = 1
  <2>1. Due(c.incoming, Append(c.requests, r), t)
          = Due(c.incoming, c.requests, t) + (IF t = r.target THEN 1 ELSE 0)
    BY <1>8, <1>9, OneMoreRequest
  <2> QED
    BY <1>0, <1>2, <1>3, <1>4, <1>9, <2>1
<1> HIDE DEF token
<1>11. Some(x.requests, Asks(t)) /\ ~Some(x.requests, Outdated(t, token))
  <2> DEFINE one == <<r>>
  <2>1. x.requests = c.requests \o one /\ one \in Seq(RequestType)
    BY <1>0, <1>2, <1>8, <1>9, OneMore
  <2>2. Some(one, Asks(t)) /\ ~Some(one, Outdated(t, token))
    BY <1>9, OneIs
  <2> HIDE DEF one
  <2>3. ~Some(c.requests, Outdated(t, token))
    BY <1>4, MailSets DEF Some
  <2> QED
    BY <1>8, <2>1, <2>2, <2>3, SomeConcat
<1> QED
  BY <1>3, <1>4, <1>6, <1>7, <1>10, <1>11 DEF AskedFor, x, token

\* RemoteStore::Listen: a target is asked for when the stream is open.
LEMMA StartWatchingAsks ==
    ASSUME NEW c, Typed(c), Runs(c), NEW t \in Watched, Known(c, t), t \notin DOMAIN c.agg,
           t \notin DOMAIN c.listening, NEW token \in Versions
    PROVE  LET x == StartWatching(c, t, token)
           IN  /\ Typed(x) /\ Runs(x) /\ SameView(x, c) /\ x.listening = With(c.listening, t, token)
               /\ Only(x, c, {"listening", "agg", "requests", "idle", "online", "raised", "view",
                              "timer", "broken", "stream", "updates", "resets"})
               /\ x.stream # "Open" => Quiet(x)
               /\ x.stream = "Open" =>
                     /\ AskedFor(x, t) /\ x.updates = c.updates /\ x.resets = c.resets
                     /\ \A u \in Watched \ {t} : SameTarget(x, c, u)
<1> DEFINE x == StartWatching(c, t, token)
           b == [c EXCEPT !.listening = With(@, t, token)]
<1>1. /\ Typed(x) /\ Runs(x)
      /\ Only(x, c, {"listening", "agg", "requests", "idle", "online", "raised", "view",
                     "timer", "broken", "stream", "updates", "resets"})
  BY StartWatchingTyped, StartWatchingRuns
<1>2. x.stream # "Open" => Quiet(x)
  BY <1>1 DEF Runs, Running, Flowing, Wired
<1>3. Shape(c)
  BY DEF Typed
<1>4. Only(b, c, {"listening"}) /\ b.listening = With(c.listening, t, token)
  BY <1>3 DEF Only, Shape, Fields
<1>5. With(c.listening, t, token) \in Partial(Watched, Versions)
  BY FieldTypes, WithPartial
<1>6. b["listening"] \in Client_["listening"]
  BY <1>4, <1>5, ClientIs
<1> HIDE DEF b
<1>7. Typed(b)
  BY <1>4, <1>6, TypedOnly DEF Fields
<1>8. /\ t \in DOMAIN b.listening /\ b.listening[t] = token
      /\ DOMAIN b.listening = DOMAIN c.listening \cup {t}
      /\ \A u \in DOMAIN c.listening : u # t => b.listening[u] = c.listening[u]
  <2> DEFINE l == c.listening
             new == With(l, t, token)
  <2>1. b.listening = new
    BY <1>4
  <2> HIDE DEF l
  <2>2. DOMAIN new = DOMAIN l \cup {t} /\ new[t] = token
        /\ \A u \in DOMAIN l : u # t => new[u] = l[u]
    BY DEF With, Over
  <2> HIDE DEF new
  <2> QED
    BY <2>1, <2>2 DEF l
<1>9. b.stream = c.stream /\ SameView(b, c)
  <2>1. b.stream = c.stream
    BY <1>4 DEF Only, Fields
  <2>2. SameView(b, c)
    BY <1>4, SameViewOnly
  <2> QED
    BY <2>1, <2>2
<1>10. CASE c.stream = "Open"
  <2>1. x = Send(b, t, TRUE, token)
    BY <1>10 DEF StartWatching, b
  <2>2. AskedFor(x, t)
    BY <1>4, <1>7, <1>8, <2>1, SendAsks DEF Runs, Running, Flowing
  <2>3. Only(x, b, {"agg", "requests", "idle"})
    BY <1>7, <2>1, SendTyped
  <2>4. SameView(x, c)
    BY <1>9, <2>3, SameViewOnly, SameViewTrans
  <2>5. x.listening = b.listening /\ x.updates = c.updates /\ x.resets = c.resets
    BY <1>4, <2>3 DEF Only, Fields
  <2>6. ASSUME NEW u \in Watched \ {t} PROVE SameTarget(x, c, u)
    <3>1. SameTarget(x, b, u)
      BY <1>7, <2>1, SendElse
    <3>2. /\ b.agg = c.agg /\ b.serving = c.serving /\ b.resets = c.resets /\ b.updates = c.updates
          /\ b.stream = c.stream /\ b.incoming = c.incoming /\ b.requests = c.requests
          /\ b.received = c.received /\ b.on = c.on /\ b.view = c.view
      BY <1>4 DEF Only, Fields
    <3>3. RemoteKeys(b, u) = RemoteKeys(c, u) /\ Entry(b, u) = Entry(c, u)
      BY <3>2 DEF RemoteKeys, Entry
    <3>4. SameTarget(b, c, u)
      BY <1>8, <3>2, <3>3, SameElse
    <3> QED
      BY <3>1, <3>4, SameTargetTrans
  <2> HIDE DEF x
  <2> QED
    BY <1>1, <1>2, <1>4, <2>2, <2>4, <2>5, <2>6 DEF x
<1>11. CASE c.stream # "Open"
  <2>1. x = StartWatchStream(b)
    BY <1>11 DEF StartWatching, b
  <2>2. SameView(x, c)
    BY <1>7, <1>9, <2>1, StartView, SameViewTrans
  <2>3. x.listening = b.listening
    BY <1>7, <2>1, StartWatchStreamTyped DEF Only, Fields
  <2>4. x.stream # "Open"
    <3>1. CASE ~ShouldStartWatchStream(b)
      BY <1>9, <1>11, <2>1, <3>1 DEF StartWatchStream
    <3>2. CASE ShouldStartWatchStream(b)
      <4> DEFINE s == [b EXCEPT !.stream = "Starting", !.agg = <<>>, !.updates = <<>>, !.resets = {}]
                 F == {"stream", "agg", "updates", "resets"}
      <4>1. Shape(b)
        BY <1>7 DEF Typed
      <4>2. Only(s, b, F) /\ s["stream"] = "Starting" /\ s["agg"] = <<>> /\ s["updates"] = <<>>
            /\ s["resets"] = {}
        BY <4>1 DEF Only, Shape, Fields
      <4> HIDE DEF s
      <4>3. <<>> \in Aggregator /\ <<>> \in Partial(Docs, CachedDoc)
        BY PartialNone DEF Aggregator
      <4>4. /\ s["stream"] \in Client_["stream"] /\ s["agg"] \in Client_["agg"]
            /\ s["updates"] \in Client_["updates"] /\ s["resets"] \in Client_["resets"]
        BY <4>2, <4>3, ClientIs
      <4>5. Typed(s)
        BY <1>7, <4>2, <4>4, TypedOnly DEF Fields
      <4>6. HandleWatchStreamStart(s).stream = s["stream"]
        BY <4>5, HandleWatchStreamStartTyped DEF Only, Fields
      <4> QED
        BY <2>1, <3>2, <4>2, <4>6 DEF StartWatchStream, s
    <3> QED
      BY <3>1, <3>2
  <2> HIDE DEF x
  <2> QED
    BY <1>1, <1>2, <1>4, <2>2, <2>3, <2>4 DEF x
<1> QED
  BY <1>10, <1>11

-----------------------------------------------------------------------------
(***************************************************************************)
(* Lookups come and go, and what is exact stays so.                        *)
(***************************************************************************)

\* Of a target that is watched anew everything is right, and of all others as before.
LEMMA StartWatchingNet ==
    ASSUME NEW lg, Len(lg) \in Nat, NEW c, Typed(c), Runs(c), Net(lg, c), NEW t \in Watched,
           t \notin DOMAIN c.agg, t \notin DOMAIN c.listening, NEW token \in Versions,
           token <= Len(lg), RemoteKeys(c, t) = Have(lg, t, token)
    PROVE  LET x == StartWatching(c, t, token)
           IN  /\ Typed(x) /\ Runs(x) /\ Net(lg, x) /\ SameView(x, c)
               /\ x.listening = With(c.listening, t, token)
               /\ Only(x, c, {"listening", "agg", "requests", "idle", "online", "raised", "view",
                              "timer", "broken", "stream", "updates", "resets"})
<1> DEFINE x == StartWatching(c, t, token)
<1>1. Known(c, t)
  BY DEF Net, Right
<1>2. /\ Typed(x) /\ Runs(x) /\ SameView(x, c) /\ x.listening = With(c.listening, t, token)
      /\ Only(x, c, {"listening", "agg", "requests", "idle", "online", "raised", "view",
                     "timer", "broken", "stream", "updates", "resets"})
      /\ x.stream # "Open" => Quiet(x)
      /\ x.stream = "Open" =>
            /\ AskedFor(x, t) /\ x.updates = c.updates /\ x.resets = c.resets
            /\ \A u \in Watched \ {t} : SameTarget(x, c, u)
  BY <1>1, StartWatchingAsks
<1> HIDE DEF x
<1>3. /\ DOMAIN x.listening = DOMAIN c.listening \cup {t} /\ x.listening[t] = token
      /\ \A u \in DOMAIN c.listening : u # t => x.listening[u] = c.listening[u]
  BY <1>2 DEF With, Over
<1>4. x.received = c.received /\ x.incoming = c.incoming /\ x.keys = c.keys
  BY <1>2 DEF Only, Fields
<1>5. \A u : RemoteKeys(x, u) = RemoteKeys(c, u)
  BY <1>2, <1>4 DEF RemoteKeys, SameView
<1>6. Sees(lg, x, t)
  BY <1>3, <1>5 DEF Sees
<1>7. Net(lg, x)
  <2>1. CASE x.stream # "Open"
    <3>1. ASSUME NEW u \in DOMAIN x.listening PROVE Sees(lg, x, u)
      <4>1. CASE u = t
        BY <1>6, <4>1
      <4>2. CASE u # t
        <5>1. u \in DOMAIN c.listening /\ u \in Watched
          BY <1>3, <4>2, VersionsOf
        <5>2. Sees(lg, c, u)
          BY <5>1 DEF Net, Right
        <5> QED
          BY <1>3, <1>5, <4>2, <5>1, <5>2 DEF Sees
      <4> QED
        BY <4>1, <4>2
    <3> QED
      BY <1>2, <2>1, <3>1, QuietNet
  <2>2. CASE x.stream = "Open"
    <3>1. Right(lg, x, t)
      BY <1>2, <1>6, <2>2, AskedRight
    <3>2. ASSUME NEW u \in Watched \ {t} PROVE Right(lg, x, u)
      BY <1>2, <2>2, <3>2, RightSame DEF Net
    <3>3. Telltale(lg, x)
      BY <1>2, <1>4, <2>2, TelltaleSame DEF Net
    <3> QED
      BY <3>1, <3>2, <3>3 DEF Net
  <2> QED
    BY <2>1, <2>2
<1> QED
  BY <1>2, <1>7 DEF x

\* A new lookup.
LEMMA TrackLimboExact ==
    ASSUME NEW lg, Len(lg) \in Nat, NEW c, Typed(c), Sound(c), Net(lg, c), NEW d \in Docs
    PROVE  LET x == TrackLimbo(d, c)
           IN  /\ Typed(x) /\ Sound(x) /\ Net(lg, x) /\ SameView(x, c) /\ SameDisk(x, c)
               /\ DOMAIN x.limbo \subseteq DOMAIN c.limbo \cup {d}
<1> DEFINE t == [id |-> NextId(c), docs |-> {d}]
           y == [c EXCEPT !.limbo = With(@, d, t)]
           x == StartWatching(y, t, 0)
           z == TrackLimbo(d, c)
<1>0. Typed(z) /\ Sound(z)
  BY TrackLimboTyped, TrackLimboSound DEF Kept
<1>1. CASE d \in DOMAIN c.limbo
  <2>1. z = c
    BY <1>1 DEF TrackLimbo
  <2>2. SameView(c, c) /\ SameDisk(c, c)
    BY DEF SameView, SameDisk
  <2> HIDE DEF z
  <2> QED
    BY <2>1, <2>2 DEF z
<1>2. CASE d \notin DOMAIN c.limbo
  <2>1. z = x
    BY <1>2 DEF TrackLimbo
  <2>2. NextId(c) \in Nat \ {0} /\ NextId(c) \notin KnownIds(c)
    BY NextIdIs
  <2>3. t \in Lookup /\ t.id = NextId(c) /\ t.docs = {d}
    BY <2>2 DEF Lookup
  <2>4. Only(y, c, {"limbo"}) /\ y["limbo"] = With(c.limbo, d, t)
    BY DEF Only, Typed, Shape, Fields
  <2> HIDE DEF z, t, y
  <2>5. c.limbo \in Partial(Docs, Lookup)
    BY FieldTypes
  <2>6. With(c.limbo, d, t) \in Partial(Docs, Lookup)
    BY <2>3, <2>5, WithPartial
  <2>7. Typed(y)
    BY <2>4, <2>6, TypedOnly, ClientIs DEF Fields
  <2>8. SameBooks(y, c) /\ y.timer = c.timer /\ y.online = c.online /\ y.failed = c.failed
        /\ y.broken = c.broken /\ y.keys = c.keys
    BY <2>4 DEF SameBooks, Only, Fields
  <2>9. Runs(y)
    <3>1. Clock(y) /\ ~y.broken
      BY <2>8 DEF Sound, Runs, Running, Clock, SameBooks
    <3> QED
      BY <2>8, <3>1, SameBooksRun DEF Sound, Runs, Running
  <2>10. Net(lg, y)
    BY <2>8, SameBooksNet
  <2>11. t \in Watched /\ 0 \in Versions /\ t # Query
    BY <2>3, LookupIs, ZeroVersion
  <2>12. t \notin DOMAIN c.agg /\ t \notin DOMAIN c.listening
    BY <2>2, <2>3 DEF KnownIds
  <2>13. t \notin DOMAIN y.agg /\ t \notin DOMAIN y.listening
    BY <2>8, <2>12 DEF SameBooks
  <2>14. RemoteKeys(y, t) = {}
    <3>1. t \notin c.received
      BY <2>12 DEF Sound, LookedUp
    <3> QED
      BY <2>8, <2>11, <3>1 DEF RemoteKeys, SameBooks
  <2>15. 0 <= Len(lg) /\ Have(lg, t, 0) = {}
    BY HaveNone
  <2>16. /\ Net(lg, x) /\ SameView(x, y) /\ x.listening = With(y.listening, t, 0)
         /\ Only(x, y, {"listening", "agg", "requests", "idle", "online", "raised", "view", "timer",
                        "broken", "stream", "updates", "resets"})
    BY <2>7, <2>9, <2>10, <2>11, <2>13, <2>14, <2>15, StartWatchingNet, Zenon
  <2> HIDE DEF x
  <2>17. SameView(y, c)
    BY <2>4, SameViewOnly
  <2>18. SameView(x, c)
    BY <2>16, <2>17, SameViewTrans
  <2>19. SameDisk(x, c)
    <3>1. x.cache = c.cache /\ x.keys = c.keys /\ x.token = c.token /\ x.writes = c.writes
          /\ x.savedFree = c.savedFree /\ x.limboFree = c.limboFree /\ x.lastSnap = c.lastSnap
          /\ x.leftOut = c.leftOut /\ x.on = c.on /\ y.listening = c.listening
      BY <2>4, <2>16 DEF Only, Fields
    <3>2. c.on => x.listening[Query] = c.listening[Query]
      <4>1. c.on => Query \in DOMAIN c.listening
        BY DEF Sound, Linked
      <4> QED
        BY <2>11, <2>16, <3>1, <4>1 DEF With, Over
    <3> QED
      BY <3>1, <3>2 DEF SameDisk
  <2>20. DOMAIN x.limbo \subseteq DOMAIN c.limbo \cup {d}
    <3>1. x.limbo = With(c.limbo, d, t)
      BY <2>4, <2>16 DEF Only, Fields
    <3> QED
      BY <3>1 DEF With, Over
  <2> QED
    BY <1>0, <2>1, <2>16, <2>18, <2>19, <2>20 DEF z
<1> QED
  BY <1>1, <1>2 DEF z

-----------------------------------------------------------------------------
(***************************************************************************)
(* A target is left.                                                       *)
(***************************************************************************)
\* A target that is left is asked to be removed.
LEMMA StopWatchingNet ==
    ASSUME NEW lg, NEW c, Typed(c), Runs(c), Net(lg, c), NEW t \in Watched, t \in DOMAIN c.listening
    PROVE  LET x == StopWatching(c, t)
           IN  Net(lg, x) /\ SameView(x, c)
<1> DEFINE y == [c EXCEPT !.listening = Without(@, t)]
           left == Require(y, t \in DOMAIN c.listening)
           none == DOMAIN left.listening = {}
           x == StopWatching(c, t)
<1>1. Only(y, c, {"listening"}) /\ y.listening = Without(c.listening, t)
  BY DEF Only, Typed, Shape, Fields
<1>2. c.listening \in Partial(Watched, Versions) /\ c.broken \in BOOLEAN
      /\ c.requests \in Seq(RequestType) /\ c.incoming \in Seq(Message)
  BY FieldTypes
<1>3. x = IF c.stream = "Open" THEN [Send(left, t, FALSE, 0) EXCEPT !.idle = none]
          ELSE IF none /\ c.enabled THEN UpdateState(left, "Unknown") ELSE left
  BY DEF StopWatching
<1> HIDE DEF y
<1>4. /\ y.listening \in Partial(Watched, Versions) /\ DOMAIN y.listening = DOMAIN c.listening \ {t}
      /\ \A u \in DOMAIN y.listening : y.listening[u] = c.listening[u]
  <2>1. Without(c.listening, t) \in Partial(Watched, Versions)
    BY <1>2, WithoutPartial
  <2> QED
    BY <1>1, <2>1 DEF Without, Restrict
<1>5. Typed(y)
  BY <1>1, <1>4, TypedOnly, ClientIs DEF Fields
<1>6. Typed(left) /\ Only(left, y, {"broken"})
  BY <1>5, RequireTyped
<1>7. /\ Typed(x) /\ Runs(x)
      /\ Only(x, c, {"listening", "broken", "agg", "requests", "idle", "online", "raised",
                     "view", "timer", "failed"})
      /\ x.listening = Without(c.listening, t)
  BY StopWatchingTyped, StopWatchingRuns
<1> HIDE DEF left, x
<1>8. /\ left.listening = y.listening
      /\ left.agg = c.agg /\ left.requests = c.requests /\ left.incoming = c.incoming
      /\ left.resets = c.resets /\ left.received = c.received /\ left.on = c.on
      /\ left.view = c.view /\ left.stream = c.stream /\ left.updates = c.updates
      /\ left.serving = c.serving
  BY <1>1, <1>6 DEF Only, Fields
<1>9. SameView(left, c)
  BY <1>8 DEF SameView
<1>10. /\ x.listening = y.listening /\ x.stream = c.stream /\ x.incoming = c.incoming
       /\ x.updates = c.updates /\ x.resets = c.resets /\ x.keys = c.keys /\ x.serving = c.serving
       /\ x.received = c.received
  BY <1>1, <1>7 DEF Only, Fields
<1>11. CASE c.stream = "Open"
  <2> DEFINE z == Send(left, t, FALSE, 0)
             w == [z EXCEPT !.idle = none]
             r == [target |-> t, add |-> FALSE, token |-> 0]
             e == [Entry(left, t) EXCEPT !.outstanding = @ + 1]
  <2>1. x = w
    BY <1>3, <1>11
  <2>2. FALSE \in BOOLEAN /\ 0 \in Versions
    BY ZeroVersion
  <2>3. /\ Typed(z) /\ Only(z, left, {"agg", "requests", "idle"})
        /\ z.agg = With(left.agg, t, e) /\ z.requests = Append(left.requests, r)
    BY <1>6, <2>2, SendTyped
  <2> HIDE DEF z, r, e
  <2>4. Only(w, z, {"idle"})
    BY <2>3 DEF Only, Typed, Shape, Fields
  <2> HIDE DEF w
  <2>5. /\ w.listening = z.listening /\ w.agg = z.agg /\ w.requests = z.requests
        /\ w.incoming = z.incoming /\ w.resets = z.resets /\ w.received = z.received
        /\ w.on = z.on /\ w.view = z.view /\ w.stream = z.stream /\ w.updates = z.updates
        /\ w.serving = z.serving
    BY <2>4 DEF Only, Fields
  <2>6. SameView(x, c)
    <3>1. z.on = left.on /\ z.view = left.view
      BY <2>3 DEF Only, Fields
    <3> QED
      BY <1>9, <2>1, <2>5, <3>1 DEF SameView
  <2>7. ASSUME NEW u \in Watched \ {t} PROVE SameTarget(x, c, u)
    <3>1. SameTarget(z, left, u)
      BY <1>6, <2>2, <2>7, SendElse DEF z
    <3>2. SameTarget(w, z, u)
      <4>1. RemoteKeys(w, u) = RemoteKeys(z, u) /\ Entry(w, u) = Entry(z, u)
        BY <2>5 DEF RemoteKeys, Entry
      <4> QED
        BY <2>5, <4>1, SameElse
    <3>3. SameTarget(left, c, u)
      <4>1. RemoteKeys(left, u) = RemoteKeys(c, u) /\ Entry(left, u) = Entry(c, u)
        BY <1>8 DEF RemoteKeys, Entry
      <4>2. /\ u \in DOMAIN left.listening <=> u \in DOMAIN c.listening
            /\ u \in DOMAIN c.listening => left.listening[u] = c.listening[u]
        BY <1>4, <1>8, <2>7
      <4> QED
        BY <1>8, <4>1, <4>2, SameElse
    <3> QED
      BY <2>1, <3>1, <3>2, <3>3, SameTargetTrans
  <2>8. Right(lg, x, t)
    <3>1. Known(c, t)
      BY DEF Net, Right
    <3>2. x.requests = Append(c.requests, r) /\ t \in DOMAIN x.agg
      <4>1. z.requests = Append(c.requests, r) /\ t \in DOMAIN z.agg
        BY <1>8, <2>3 DEF With, Over
      <4> QED
        BY <2>1, <2>5, <4>1
    <3>3. t \notin DOMAIN x.listening
      BY <1>4, <1>10
    <3>4. r \in RequestType /\ r \in Asks(t) /\ r \in Drops(t)
      BY <2>2 DEF RequestType, Asks, Drops, r
    <3> DEFINE one == <<r>>
               q == c.requests
    <3>5. x.requests = q \o one /\ one \in Seq(RequestType) /\ q \in Seq(RequestType)
      BY <1>2, <3>2, <3>4, OneMore
    <3>6. Some(one, Asks(t)) /\ Some(one, Drops(t)) /\ Ends(one, Asks(t), Drops(t))
      BY <3>4, OneIs
    <3> HIDE DEF one, q
    <3>7. Some(q \o one, Asks(t)) /\ Ends(q \o one, Asks(t), Drops(t))
      <4>1. Some(q \o one, Asks(t))
        BY <3>5, <3>6, SomeConcat
      <4>2. Ends(q \o one, Asks(t), Drops(t))
        BY <3>5, <3>6, ThenConcat
      <4> QED
        BY <4>1, <4>2
    <3>8. Known(x, t)
      BY <1>10, <3>1, <3>2, <3>3, <3>5, <3>7 DEF Known
    <3> QED
      BY <3>3, <3>8 DEF Right
  <2>9. Telltale(lg, x)
    BY <1>10, TelltaleSame DEF Net
  <2>10. Net(lg, x)
    <3>1. ASSUME NEW u \in Watched PROVE Right(lg, x, u)
      BY <2>7, <2>8, RightSame DEF Net
    <3> QED
      BY <2>9, <3>1 DEF Net
  <2> QED
    BY <2>6, <2>10 DEF x
<1>12. CASE c.stream # "Open"
  <2>1. Quiet(x)
    BY <1>7, <1>10, <1>12 DEF Runs, Running, Flowing, Wired
  <2>2. SameView(x, c)
    <3>1. SameView(UpdateState(left, "Unknown"), left)
      BY <1>6, UpdateStateView
    <3>2. SameView(UpdateState(left, "Unknown"), c)
      BY <1>9, <3>1, SameViewTrans
    <3> QED
      BY <1>3, <1>9, <1>12, <3>2
  <2>3. ASSUME NEW u \in DOMAIN x.listening PROVE Sees(lg, x, u)
    <3>1. u \in DOMAIN c.listening /\ u \in Watched /\ x.listening[u] = c.listening[u]
      BY <1>4, <1>10, VersionsOf
    <3>2. Sees(lg, c, u)
      BY <3>1 DEF Net, Right
    <3>3. RemoteKeys(x, u) = RemoteKeys(c, u)
      BY <1>10, <2>2 DEF RemoteKeys, SameView
    <3> QED
      BY <3>1, <3>2, <3>3 DEF Sees
  <2>4. Net(lg, x)
    BY <1>10, <1>12, <2>1, <2>3, QuietNet
  <2> QED
    BY <2>2, <2>4 DEF x
<1> QED
  BY <1>11, <1>12 DEF x

\* A lookup that is over.
LEMMA RemoveLimboTargetExact ==
    ASSUME NEW lg, NEW c, Typed(c), Sound(c), Net(lg, c), NEW d
    PROVE  LET x == RemoveLimboTarget(d, c)
           IN  /\ Typed(x) /\ Sound(x) /\ Net(lg, x) /\ SameView(x, c) /\ SameDisk(x, c)
               /\ DOMAIN x.limbo \subseteq DOMAIN c.limbo \ {d}
<1> DEFINE t == c.limbo[d]
           y == StopWatching(c, t)
           x == [y EXCEPT !.limbo = Without(@, d), !.received = @ \ {t}]
           z == RemoveLimboTarget(d, c)
<1>0. Typed(z) /\ Sound(z)
  BY RemoveLimboTargetTyped, RemoveLimboTargetSound DEF Kept
<1>1. CASE d \notin DOMAIN c.limbo
  <2>1. z = c
    BY <1>1 DEF RemoveLimboTarget
  <2>2. SameView(c, c) /\ SameDisk(c, c)
    BY DEF SameView, SameDisk
  <2> HIDE DEF z
  <2> QED
    BY <1>1, <2>1, <2>2 DEF z
<1>2. CASE d \in DOMAIN c.limbo
  <2>1. z = x
    BY <1>2 DEF RemoveLimboTarget
  <2>2. c.limbo \in Partial(Docs, Lookup)
    BY FieldTypes
  <2>3. t \in Lookup
    BY <1>2, <2>2, PartialIs
  <2>4. t # Query /\ t \in Watched
    BY <2>3, LookupIs
  <2>5. t \in DOMAIN c.listening /\ t.docs = {d}
    BY <1>2 DEF Sound, LookedUp
  <2> HIDE DEF t, z
  <2>6. Net(lg, y) /\ SameView(y, c)
    BY <2>4, <2>5, StopWatchingNet DEF Sound
  <2>7. /\ Typed(y)
        /\ Only(y, c, {"listening", "broken", "agg", "requests", "idle", "online", "raised",
                       "view", "timer", "failed"})
        /\ y.listening = Without(c.listening, t)
    BY <2>4, StopWatchingTyped
  <2> HIDE DEF y
  <2>8. /\ Only(x, y, {"limbo", "received"})
        /\ x["limbo"] = Without(y.limbo, d) /\ x["received"] = y.received \ {t}
    BY <2>7 DEF Only, Typed, Shape, Fields
  <2> HIDE DEF x
  <2>9. /\ x.limbo = Without(c.limbo, d) /\ x.received = y.received \ {t} /\ x.keys = y.keys
        /\ x.listening = y.listening /\ x.agg = y.agg /\ x.requests = y.requests
        /\ x.incoming = y.incoming /\ x.resets = y.resets /\ x.on = y.on
        /\ x.view = y.view /\ x.stream = y.stream /\ x.updates = y.updates
        /\ x.serving = y.serving
    BY <2>7, <2>8 DEF Only, Fields
  <2>10. t \notin DOMAIN y.listening
    BY <2>7 DEF Without, Restrict
  <2>11. \A u : SameTarget(x, y, u)
    <3>1. ASSUME NEW u PROVE SameTarget(x, y, u)
      <4>1. u \in DOMAIN y.listening => x.listening[u] = y.listening[u] /\ RemoteKeys(x, u) = RemoteKeys(y, u)
        BY <2>9, <2>10 DEF RemoteKeys
      <4>2. Entry(x, u) = Entry(y, u)
        BY <2>9 DEF Entry
      <4> QED
        BY <2>9, <4>1, <4>2, SameElse
    <3> QED
      BY <3>1
  <2>12. Net(lg, x)
    <3>1. Telltale(lg, x)
      BY <2>6, <2>9, TelltaleSame DEF Net
    <3> QED
      BY <2>6, <2>11, <3>1, RightSame DEF Net
  <2>13. SameView(x, c)
    BY <2>6, <2>9 DEF SameView
  <2>14. SameDisk(x, c)
    <3>1. x.cache = c.cache /\ x.keys = c.keys /\ x.token = c.token /\ x.writes = c.writes
          /\ x.savedFree = c.savedFree /\ x.limboFree = c.limboFree /\ x.lastSnap = c.lastSnap
          /\ x.leftOut = c.leftOut /\ x.on = c.on
      BY <2>7, <2>8 DEF Only, Fields
    <3>2. c.on => x.listening[Query] = c.listening[Query]
      <4>1. c.on => Query \in DOMAIN c.listening
        BY DEF Sound, Linked
      <4> QED
        BY <2>4, <2>7, <2>9, <4>1 DEF Without, Restrict
    <3> QED
      BY <3>1, <3>2 DEF SameDisk
  <2>15. DOMAIN x.limbo \subseteq DOMAIN c.limbo \ {d}
    BY <2>9 DEF Without, Restrict
  <2> QED
    BY <1>0, <2>1, <2>12, <2>13, <2>14, <2>15 DEF z
<1> QED
  BY <1>1, <1>2 DEF z

\* Two steps that leave the disk alone do so together.
LEMMA SameDiskTrans ==
    ASSUME NEW c, NEW y, NEW x, SameDisk(y, c), SameDisk(x, y)
    PROVE  SameDisk(x, c)
BY DEF SameDisk

\* All new lookups are watched, ...
LEMMA TrackAllExact ==
    ASSUME NEW lg, Len(lg) \in Nat, NEW c, Typed(c), Sound(c), Net(lg, c), NEW S \in SUBSET Docs
    PROVE  LET x == FoldSet(TrackLimbo, c, S)
           IN  /\ Typed(x) /\ Sound(x) /\ Net(lg, x) /\ SameView(x, c) /\ SameDisk(x, c)
               /\ DOMAIN x.limbo \subseteq DOMAIN c.limbo \cup S
<1> DEFINE p == [goal |-> "exact", of |-> "track", from |-> c, log |-> lg]
<1>1. IsFiniteSet(S)
  BY DocsAssumption, FS_Subset
<1>2. FoldInv(p, {}, c)
  BY DEF FoldInv, ExactKept, SameView, SameDisk
<1>3. ASSUME NEW r \in SUBSET S, NEW x \in S \ r, NEW y, FoldInv(p, r, y)
      PROVE  FoldInv(p, r \cup {x}, FoldStep(p, x, y))
  <2> DEFINE z == TrackLimbo(x, y)
  <2>1. /\ Typed(y) /\ Sound(y) /\ Net(lg, y) /\ SameView(y, c) /\ SameDisk(y, c) /\ x \in Docs
        /\ DOMAIN y.limbo \subseteq DOMAIN c.limbo \cup r
    BY <1>3 DEF FoldInv, ExactKept
  <2>2. /\ Typed(z) /\ Sound(z) /\ Net(lg, z) /\ SameView(z, y) /\ SameDisk(z, y)
        /\ DOMAIN z.limbo \subseteq DOMAIN y.limbo \cup {x}
    BY <2>1, TrackLimboExact
  <2>3. FoldStep(p, x, y) = z
    BY DEF FoldStep
  <2> HIDE DEF z
  <2>4. SameView(z, c) /\ SameDisk(z, c) /\ DOMAIN z.limbo \subseteq DOMAIN c.limbo \cup (r \cup {x})
    BY <2>1, <2>2, SameViewTrans, SameDiskTrans
  <2> QED
    BY <2>2, <2>3, <2>4 DEF FoldInv, ExactKept
<1>4. FoldInv(p, S, FoldedSet(p, c, S))
  <2> HIDE DEF p
  <2> QED
    BY <1>1, <1>2, <1>3, FoldKeeps
<1>5. FoldSet(TrackLimbo, c, S) = FoldedSet(p, c, S)
  BY DEF FoldSet, MapThenFoldSet, FoldedSet, FoldStep
<1> QED
  BY <1>4, <1>5 DEF FoldInv, ExactKept

\* ... and all that are over are left.
LEMMA RemoveAllExact ==
    ASSUME NEW lg, NEW c, Typed(c), Sound(c), Net(lg, c), NEW S \in SUBSET Docs
    PROVE  LET x == FoldSet(RemoveLimboTarget, c, S)
           IN  /\ Typed(x) /\ Sound(x) /\ Net(lg, x) /\ SameView(x, c) /\ SameDisk(x, c)
               /\ DOMAIN x.limbo \subseteq DOMAIN c.limbo \ S
<1> DEFINE p == [goal |-> "exact", of |-> "drop", from |-> c, log |-> lg]
<1>1. IsFiniteSet(S)
  BY DocsAssumption, FS_Subset
<1>2. FoldInv(p, {}, c)
  BY DEF FoldInv, ExactKept, SameView, SameDisk
<1>3. ASSUME NEW r \in SUBSET S, NEW x \in S \ r, NEW y, FoldInv(p, r, y)
      PROVE  FoldInv(p, r \cup {x}, FoldStep(p, x, y))
  <2> DEFINE z == RemoveLimboTarget(x, y)
  <2>1. /\ Typed(y) /\ Sound(y) /\ Net(lg, y) /\ SameView(y, c) /\ SameDisk(y, c)
        /\ DOMAIN y.limbo \subseteq DOMAIN c.limbo \ r
    BY <1>3 DEF FoldInv, ExactKept
  <2>2. /\ Typed(z) /\ Sound(z) /\ Net(lg, z) /\ SameView(z, y) /\ SameDisk(z, y)
        /\ DOMAIN z.limbo \subseteq DOMAIN y.limbo \ {x}
    BY <2>1, RemoveLimboTargetExact
  <2>3. FoldStep(p, x, y) = z
    BY DEF FoldStep
  <2> HIDE DEF z
  <2>4. SameView(z, c) /\ SameDisk(z, c) /\ DOMAIN z.limbo \subseteq DOMAIN c.limbo \ (r \cup {x})
    BY <2>1, <2>2, SameViewTrans, SameDiskTrans
  <2> QED
    BY <2>2, <2>3, <2>4 DEF FoldInv, ExactKept
<1>4. FoldInv(p, S, FoldedSet(p, c, S))
  <2> HIDE DEF p
  <2> QED
    BY <1>1, <1>2, <1>3, FoldKeeps
<1>5. FoldSet(RemoveLimboTarget, c, S) = FoldedSet(p, c, S)
  BY DEF FoldSet, MapThenFoldSet, FoldedSet, FoldStep
<1> QED
  BY <1>4, <1>5 DEF FoldInv, ExactKept

-----------------------------------------------------------------------------
(***************************************************************************)
(* The view is computed anew and emitted.                                  *)
(***************************************************************************)
\* What Emit shows before it attends to the lookups.
Redrawn(c, change) ==
    LET view == Applied(c, change)
        checked == Require(c, change.modified \subseteq c.view.synced \cup change.added)
    IN  [checked EXCEPT !.view = view, !.raised = @ \/ Raises(c, view, change)]

\* A view is computed anew: the books stay in order.
LEMMA RedrawnSound ==
    ASSUME NEW c, Typed(c), Sound(c), NEW change \in ChangeType,
           change.modified \subseteq c.view.synced \cup change.added,
           change.added \cup change.removed = {} \/ Idle(c)
    PROVE  LET x == Redrawn(c, change)
           IN  Typed(x) /\ Sound(x) /\ Only(x, c, {"view", "raised", "broken"})
               /\ x.view = Applied(c, change)
<1> DEFINE view == Applied(c, change)
           checked == Require(c, change.modified \subseteq c.view.synced \cup change.added)
           shown == [checked EXCEPT !.view = view, !.raised = @ \/ Raises(c, view, change)]
<1>1. Redrawn(c, change) = shown
  BY DEF Redrawn
<1>2. view \in ViewType /\ view.synced = (c.view.synced \cup change.added) \ change.removed
  BY AppliedTyped DEF Applied
<1>3. Typed(checked) /\ Only(checked, c, {"broken"})
  BY RequireTyped
<1>4. ~checked.broken
  <2>1. checked.broken
          = (c.broken \/ ~(change.modified \subseteq c.view.synced \cup change.added))
    BY DEF Require, Typed, Shape, Fields
  <2>2. ~c.broken
    BY DEF Sound, Runs, Running
  <2> QED
    BY <2>1, <2>2
<1> HIDE DEF view, checked
<1>5. /\ Only(shown, checked, {"view", "raised"}) /\ shown["view"] = view
      /\ shown["raised"] \in BOOLEAN
  BY <1>3 DEF Only, Typed, Shape, Fields
<1> HIDE DEF shown
<1>6. Typed(shown)
  BY <1>2, <1>3, <1>5, TypedOnly, ClientIs DEF Fields
<1>7. /\ shown.listening = c.listening /\ shown.agg = c.agg /\ shown.requests = c.requests
      /\ shown.incoming = c.incoming /\ shown.resets = c.resets /\ shown.on = c.on
      /\ shown.received = c.received /\ shown.limbo = c.limbo /\ shown.stream = c.stream
      /\ shown.idle = c.idle /\ shown.updates = c.updates /\ shown.serving = c.serving
      /\ shown.timer = c.timer /\ shown.failed = c.failed /\ shown.online = c.online
      /\ shown.broken = checked.broken /\ shown.view = view
  BY <1>3, <1>5 DEF Only, Fields
<1>8. /\ Wired(shown) /\ Ordered(shown) /\ Blocked(shown) /\ Resetting(shown)
      /\ Pressing(shown) /\ Clock(shown) /\ ~shown.broken
  BY <1>4, <1>7 DEF Sound, Runs, Running, Flowing, Wired, Quiet, Ordered, Blocked, Resetting,
                    Pressing, Clock
<1>9. \A t : Entry(shown, t) = Entry(c, t)
  BY <1>7 DEF Entry
<1>10. Counted(shown)
  BY <1>7, <1>9 DEF Sound, Runs, Running, Flowing, Counted
<1>11. Gathers(shown)
  <2>1. ASSUME NEW t \in DOMAIN shown.listening, Entry(shown, t).outstanding = 0
        PROVE  Gotten(shown, t)
    <3>1. Gotten(c, t)
      BY <1>7, <1>9, <2>1 DEF Sound, Runs, Running, Flowing, Gathers
    <3>2. CASE RemoteKeys(shown, t) = RemoteKeys(c, t)
      BY <1>9, <3>1, <3>2 DEF Gotten
    <3>3. CASE RemoteKeys(shown, t) # RemoteKeys(c, t)
      <4>1. t = Query /\ view.synced # c.view.synced
        BY <1>7, <3>3 DEF RemoteKeys
      <4>2. Idle(c)
        BY <1>2, <4>1
      <4>3. DOMAIN Entry(shown, t).changes = {}
        BY <1>7, <1>9, <2>1, <4>1, <4>2 DEF Idle
      <4> QED
        BY <4>3 DEF Gotten
    <3> QED
      BY <3>2, <3>3
  <2> QED
    BY <2>1 DEF Gathers
<1>12. LookedUp(shown) /\ Linked(shown)
  BY <1>7 DEF Sound, LookedUp, Linked
<1>13. Sound(shown)
  BY <1>8, <1>10, <1>11, <1>12 DEF Sound, Runs, Running, Flowing
<1>14. Only(shown, c, {"view", "raised", "broken"})
  BY <1>3, <1>5 DEF Only
<1> QED
  BY <1>1, <1>6, <1>7, <1>13, <1>14 DEF view

\* What is computed is what the local store has, or an own write, but for what the query
\* left out, which stays as it is.
LEMMA ComputedLeaves ==
    ASSUME NEW c, NEW d \in Docs, d \in c.leftOut
    PROVE  Computed(c)[d] = c.view.docs[d]
BY DEF Computed

LEMMA ComputedShows ==
    ASSUME NEW c, NEW d \in Docs, d \notin c.leftOut
    PROVE  Computed(c)[d].content = LocalDoc(c, d).content \/ Computed(c)[d].local
<1> DEFINE old == c.view.docs[d]
           new == LocalDoc(c, d)
           committed == Committed(c, d)
<1>1. Computed(c)[d] = CASE ~Applies(old, new, committed) -> old
                         [] Applies(old, new, committed) /\ new.content = Missing -> NotShown
                         [] OTHER -> new
  BY DEF Computed
<1> HIDE DEF old, new, committed
<1>2. CASE ~Applies(old, new, committed)
  BY <1>1, <1>2 DEF Applies, new
<1>3. CASE Applies(old, new, committed) /\ new.content = Missing
  BY <1>1, <1>3 DEF NotShown, new
<1>4. CASE Applies(old, new, committed) /\ new.content # Missing
  BY <1>1, <1>4 DEF new
<1> QED
  BY <1>2, <1>3, <1>4

\* EmitNewSnapshotsAndNotifyLocalStore shows the documents of the query that are on disk, and
\* the others once they are looked up.
LEMMA EmitExact ==
    ASSUME NEW lg, Len(lg) \in Nat, NEW c, Typed(c), Sound(c), NEW change \in ChangeType, c.on,
           change.modified \subseteq c.view.synced \cup change.added,
           change.added \cup change.removed = {} \/ Idle(c),
           (c.view.synced \cup change.added) \ change.removed = c.keys,
           ~change.current => c.view.limbo \cap c.keys = {},
           DOMAIN c.limbo \subseteq c.view.limbo, Disk(lg, c), Leaving(lg, c),
           NEW b, Only(b, c, {"view"}), b.view.synced = c.keys, Net(lg, b)
    PROVE  Exact(lg, Emit(c, change))
<1> DEFINE view == Applied(c, change)
           shown == Redrawn(c, change)
           left == FoldSet(RemoveLimboTarget, shown, c.view.limbo \ view.limbo)
           x == FoldSet(TrackLimbo, left, view.limbo \ c.view.limbo)
<1>1. Emit(c, change) = x
  BY DEF Emit, Redrawn
<1>2. /\ view \in ViewType /\ view.docs = Computed(c) /\ view.synced = c.keys
      /\ view.limbo = IF change.current THEN InLimbo(view.docs, view.synced) ELSE c.view.limbo
      /\ view.sync = "Synced" => change.current /\ view.limbo = {}
  BY AppliedTyped DEF Applied
<1> HIDE DEF view
<1>3. /\ Typed(shown) /\ Sound(shown) /\ Only(shown, c, {"view", "raised", "broken"})
      /\ shown.view = view
  BY RedrawnSound DEF view
<1> HIDE DEF shown
<1>4. SameBooks(shown, b) /\ shown.keys = b.keys
  <2>1. shown.view.synced = b.view.synced
    BY <1>2, <1>3
  <2> QED
    BY <1>3, <2>1 DEF Only, Fields, SameBooks
<1>5. Net(lg, shown)
  BY <1>4, SameBooksNet
<1>6. SameDisk(shown, c) /\ shown.limbo = c.limbo
  BY <1>3 DEF Only, Fields, SameDisk
<1>7. c.view.limbo \in SUBSET Docs /\ view.limbo \in SUBSET Docs
  BY <1>2, FieldTypes DEF ViewType
<1>8. /\ Typed(left) /\ Sound(left) /\ Net(lg, left) /\ SameView(left, shown) /\ SameDisk(left, shown)
      /\ DOMAIN left.limbo \subseteq DOMAIN shown.limbo \ (c.view.limbo \ view.limbo)
  BY <1>3, <1>5, <1>7, RemoveAllExact
<1> HIDE DEF left
<1>9. /\ Net(lg, x) /\ SameView(x, left) /\ SameDisk(x, left)
      /\ DOMAIN x.limbo \subseteq DOMAIN left.limbo \cup (view.limbo \ c.view.limbo)
  BY <1>7, <1>8, TrackAllExact
<1> HIDE DEF x
<1>10. SameView(x, shown) /\ SameDisk(x, c)
  BY <1>6, <1>8, <1>9, SameViewTrans, SameDiskTrans
<1>11. Disk(lg, x)
  BY <1>10, DiskSame
<1>12. x.on /\ x.keys = c.keys /\ x.view.synced = c.keys /\ x.view.limbo = view.limbo
       /\ x.view.docs = view.docs /\ (x.view.sync = "Synced" => view.sync = "Synced")
       /\ x.cache = c.cache /\ x.writes = c.writes /\ x.leftOut = c.leftOut
  BY <1>2, <1>3, <1>10 DEF SameView, SameDisk
<1>13. Looking(x)
  <2>1. view.limbo \cap c.keys = {}
    <3>1. CASE change.current
      BY <1>2, <3>1 DEF InLimbo
    <3>2. CASE ~change.current
      BY <1>2, <3>2
    <3> QED
      BY <3>1, <3>2
  <2>2. DOMAIN x.limbo \subseteq view.limbo
    BY <1>6, <1>8, <1>9
  <2> QED
    BY <1>12, <2>1, <2>2 DEF Looking
<1>14. Showing(x)
  <2>1. ASSUME NEW d \in Docs
        PROVE  \/ x.view.docs[d].content = LocalDoc(x, d).content
               \/ x.view.docs[d].local \/ d \in x.leftOut
    <3>1. LocalDoc(x, d) = LocalDoc(c, d)
      BY <1>12 DEF LocalDoc
    <3>2. x.view.docs[d] = Computed(c)[d]
      BY <1>2, <1>12
    <3> QED
      BY <1>12, <3>1, <3>2, ComputedShows
  <2>2. x.view.sync = "Synced" => InLimbo(x.view.docs, x.view.synced) = {}
    <3>1. ASSUME x.view.sync = "Synced" PROVE InLimbo(x.view.docs, x.view.synced) = {}
      <4>1. InLimbo(view.docs, view.synced) = {}
        BY <1>2, <1>12, <3>1
      <4>2. x.view.docs = view.docs /\ x.view.synced = view.synced
        BY <1>2, <1>12
      <4> QED
        BY <4>1, <4>2
    <3> QED
      BY <3>1
  <2> QED
    BY <2>1, <2>2 DEF Showing
<1>15. Leaving(lg, x)
  <2>1. Dated(x)
    BY <1>10 DEF SameDisk, Leaving, Dated
  <2>2. ASSUME NEW d \in c.leftOut PROVE Omitted(lg, x, d)
    <3>1. Omitted(lg, c, d) /\ d \in Docs
      BY FieldTypes DEF Leaving
    <3>2. x.view.docs[d] = c.view.docs[d]
      BY <1>2, <1>12, <3>1, ComputedLeaves
    <3>3. Gone(lg, x, d)
      BY <1>10, <3>1 DEF SameDisk, Omitted, Gone
    <3> QED
      BY <1>10, <1>12, <3>1, <3>2, <3>3 DEF SameDisk, Omitted
  <2> QED
    BY <1>12, <2>1, <2>2 DEF Leaving
<1> QED
  BY <1>1, <1>9, <1>11, <1>13, <1>14, <1>15 DEF Exact

-----------------------------------------------------------------------------
(***************************************************************************)
(* The invariant, and the writes of this client.                           *)
(***************************************************************************)
\* What is true before every step.
Ready == Steady /\ Exact(log, client)

\* What the invariant says, conjunct by conjunct.
LEMMA ReadyIs ==
    ASSUME Ready
    PROVE  /\ World /\ Typed(client) /\ Sound(client) /\ Fresher(client, Len(log))
           /\ log \in Seq(Logged) /\ Len(log) \in Nat /\ Len(log) <= MaxVersions
           /\ Net(log, client) /\ Disk(log, client) /\ Looking(client) /\ Showing(client)
           /\ Leaving(log, client) /\ client.lastSnap <= Len(log)
           /\ client.on <=> Query \in DOMAIN client.listening
           /\ client.stream = "Open" => DOMAIN client.listening \subseteq DOMAIN client.agg
<1>1. World /\ Solid(client, Len(log)) /\ Exact(log, client)
  BY DEF Ready, Steady
<1>2. Typed(client) /\ log \in Seq(Logged) /\ Len(log) <= MaxVersions
  BY <1>1 DEF World, Shown, LogType, Logged
<1>3. Len(log) \in Nat
  BY <1>2
<1>4. Sound(client) /\ Fresher(client, Len(log))
  BY <1>1 DEF Solid
<1> QED
  BY <1>1, <1>2, <1>3, <1>4 DEF Exact, Fresher, Sound, Linked, Runs, Running, Flowing, Wired

\* A view that is emitted after the writes or the cache have changed.
LEMMA EmitLocalExact ==
    ASSUME NEW lg, Len(lg) \in Nat, NEW c, Typed(c), Sound(c), Exact(lg, c),
           NEW x, Typed(x), Only(x, c, {"writes", "cache", "leftOut"}), Disk(lg, x), Leaving(lg, x)
    PROVE  Exact(lg, Emit(x, NoChange(x)))
<1>1. Sound(x)
  <2>1. SameState(x, c)
    BY DEF SameState, SameBooks, Only, Fields
  <2> QED
    BY <2>1, SameStateSound
<1>2. Net(lg, x)
  <2>1. SameBooks(x, c) /\ x.keys = c.keys
    BY DEF SameBooks, Only, Fields
  <2> QED
    BY <2>1, SameBooksNet DEF Exact
<1>3. x.on = c.on /\ x.view = c.view /\ x.keys = c.keys /\ x.limbo = c.limbo
  BY DEF Only, Fields
<1>4. CASE x.on
  <2> DEFINE change == NoChange(x)
  <2>1. change \in ChangeType
    BY NoChangeTyped
  <2>2. /\ change.added = {} /\ change.modified = {} /\ change.removed = {}
        /\ change.current = x.view.current
    BY DEF NoChange
  <2> HIDE DEF change
  <2>3. /\ x.view.limbo \cap x.keys = {} /\ x.view.synced = x.keys
        /\ DOMAIN x.limbo \subseteq x.view.limbo
    BY <1>3, <1>4 DEF Exact, Looking
  <2>4. Only(x, x, {"view"})
    BY OnlySame
  <2> QED
    BY <1>1, <1>2, <1>4, <2>1, <2>2, <2>3, <2>4, EmitExact DEF change
<1>5. CASE ~x.on
  <2>1. Emit(x, NoChange(x)) = x
    BY <1>5 DEF Emit
  <2>2. SameView(x, c)
    BY SameViewOnly
  <2>3. Looking(x)
    BY <1>3, <2>2, LookingSame DEF Exact
  <2>4. Showing(x)
    BY <1>3, <1>5 DEF Exact, Looking, Showing
  <2> QED
    BY <1>2, <2>1, <2>3, <2>4 DEF Exact
<1> QED
  BY <1>4, <1>5

\* A snapshot that was not from the cache moves the versions saved.
LEMMA NotifiedExact ==
    ASSUME NEW lg, NEW c, Typed(c), Sound(c), Exact(lg, c), NEW late
    PROVE  Exact(lg, Notified(c, late))
<1> DEFINE x == Notified(c, late)
<1>1. CASE ~c.on
  BY <1>1 DEF Notified
<1>2. CASE c.on
  <2> DEFINE free == c.listening[Query]
             noted == [c EXCEPT !.limboFree = free]
             both == [noted EXCEPT !.token = free, !.savedFree = free]
  <2>1. x \in {c, noted, both}
    BY DEF Notified
  <2>2. Query \in DOMAIN c.listening
    BY <1>2 DEF Sound, Linked
  <2>3. Only(x, c, NoteFields)
    BY <2>2, NotifiedTyped
  <2>4. free \in Nat /\ c.limboFree \in Nat /\ free <= c.lastSnap /\ KeysAt(lg, c, free)
    BY <1>2, <2>2, VersionsOf DEF Exact, Leaving, Dated, Disk
  <2>5. \/ x.token = c.token /\ x.savedFree = c.savedFree /\ x.limboFree = c.limboFree
        \/ x.token = c.token /\ x.savedFree = c.savedFree /\ x.limboFree = free
        \/ x.token = free /\ x.savedFree = free /\ x.limboFree = free
    <3>1. /\ noted.token = c.token /\ noted.savedFree = c.savedFree /\ noted.limboFree = free
          /\ both.token = free /\ both.savedFree = free /\ both.limboFree = free
      BY DEF Typed, Shape, Fields
    <3> HIDE DEF x, noted, both
    <3> QED
      BY <2>1, <3>1
  <2> HIDE DEF x
  <2>6. /\ x.cache = c.cache /\ x.keys = c.keys /\ x.writes = c.writes /\ x.lastSnap = c.lastSnap
        /\ x.leftOut = c.leftOut /\ x.on = c.on /\ x.listening = c.listening
        /\ x.view = c.view /\ x.limbo = c.limbo
    BY <2>3 DEF Only, Fields, NoteFields
  <2>7. SameBooks(x, c)
    BY <2>3 DEF SameBooks, Only, Fields, NoteFields
  <2>8. Net(lg, x)
    BY <2>6, <2>7, SameBooksNet DEF Exact
  <2> HIDE DEF free
  <2>9. Disk(lg, x)
    <3>1. Disk(lg, c)
      BY DEF Exact
    <3>2. x.token \in {c.token, free}
      BY <2>5
    <3>3. KeysAt(lg, c, x.token) /\ KeysAt(lg, c, free)
      BY <2>4, <3>1, <3>2 DEF Disk
    <3>4. KeysAt(lg, x, x.token) /\ KeysAt(lg, x, free)
      BY <2>6, <3>3 DEF KeysAt
    <3> QED
      BY <2>6, <3>1, <3>4 DEF Disk, SentOnes, CacheTrue, free
  <2>10. Looking(x)
    BY <2>6 DEF Exact, Looking
  <2>11. Showing(x)
    <3>1. SameView(x, c)
      BY <2>6 DEF SameView
    <3> QED
      BY <2>6, <3>1, ShowingSame DEF Exact
  <2>12. Leaving(lg, x)
    <3>1. Leaving(lg, c) /\ c.savedFree <= c.token /\ c.token <= c.lastSnap /\ c.limboFree <= free
      BY <1>2 DEF Exact, Leaving, Dated, free
    <3>2. Dated(x)
      BY <2>4, <2>5, <2>6, <3>1 DEF Dated, free
    <3>3. ASSUME NEW d \in c.leftOut PROVE Omitted(lg, x, d)
      BY <2>6, <3>1 DEF Leaving, Omitted, Gone
    <3> QED
      BY <2>6, <3>2, <3>3 DEF Leaving
  <2> QED
    BY <2>8, <2>9, <2>10, <2>11, <2>12 DEF Exact, x
<1> QED
  BY <1>1, <1>2, FieldTypes

LEMMA NotifyExact ==
    ASSUME NEW c, Typed(c), Sound(c), Exact(log, c), Notify(c)
    PROVE  Exact(log', client')
<1>1. PICK late \in BOOLEAN : client' = Notified(c, late) /\ log' = log
  BY DEF Notify, Client
<1> QED
  BY <1>1, NotifiedExact, Zenon

\* A write of this client changes what is emitted.
LEMMA EmittedExact ==
    ASSUME Ready, NEW x, Emitted(x), Disk(log, x), Leaving(log, x)
    PROVE  Exact(log', client')
<1> DEFINE y == Emit(x, NoChange(x))
<1>1. /\ Notify(y) /\ Typed(x) /\ Only(x, client, {"writes", "cache", "leftOut"})
      /\ World /\ Typed(client) /\ Sound(client) /\ Len(log) \in Nat /\ Exact(log, client)
  BY ReadyIs DEF Emitted, Ready
<1>2. Exact(log, y)
  BY <1>1, EmitLocalExact
<1>3. Typed(y)
  BY <1>1, EmitShown DEF World, Shown
<1>4. Sound(x)
  BY <1>1, SameStateSound DEF SameState, SameBooks, Only, Fields
<1>5. Sound(y)
  BY <1>1, <1>4, EmitLocalSound
<1> HIDE DEF y
<1> QED
  BY <1>1, <1>2, <1>3, <1>5, NotifyExact

\* Writes that are the same but for the server's answers.
SameWrites(x, c) ==
    /\ DOMAIN x.writes = DOMAIN c.writes
    /\ \A i \in DOMAIN c.writes : /\ x.writes[i].doc = c.writes[i].doc
                                  /\ x.writes[i].content = c.writes[i].content

\* They change nothing that is shown.
LEMMA WritesExact ==
    ASSUME NEW lg, NEW c, Typed(c), Exact(lg, c), NEW x, Only(x, c, {"writes"}),
           SameWrites(x, c), SentOnes(lg, x)
    PROVE  Exact(lg, x)
<1>1. SameBooks(x, c) /\ x.keys = c.keys
  BY DEF SameBooks, Only, Fields
<1>2. Net(lg, x)
  BY <1>1, SameBooksNet DEF Exact
<1>3. /\ x.cache = c.cache /\ x.keys = c.keys /\ x.token = c.token /\ x.on = c.on
      /\ x.listening = c.listening /\ x.view = c.view /\ x.limbo = c.limbo
      /\ x.leftOut = c.leftOut /\ x.savedFree = c.savedFree /\ x.limboFree = c.limboFree
      /\ x.lastSnap = c.lastSnap
  BY DEF Only, Fields
<1>4. Disk(lg, x)
  <2>1. CacheTrue(lg, x)
    BY <1>3 DEF Exact, Disk, CacheTrue
  <2>2. \A v : KeysAt(lg, c, v) => KeysAt(lg, x, v)
    BY <1>3 DEF KeysAt
  <2> QED
    BY <1>3, <2>1, <2>2 DEF Exact, Disk
<1>5. Looking(x)
  BY <1>3 DEF Exact, Looking
<1>6. ASSUME NEW d \in Docs
      PROVE  LocalDoc(x, d) = LocalDoc(c, d)
  <2> DEFINE mine == {i \in DOMAIN c.writes : c.writes[i].doc = d}
             yours == {i \in DOMAIN x.writes : x.writes[i].doc = d}
  <2>1. mine = yours
    BY DEF SameWrites
  <2>2. DOMAIN c.writes = 1 .. Len(c.writes) /\ Len(c.writes) \in Nat
    BY FieldTypes
  <2>3. CASE mine = {}
    BY <1>3, <2>1, <2>3 DEF LocalDoc
  <2>4. CASE mine # {}
    <3> DEFINE i == Max(mine)
    <3>1. i \in mine
      BY <2>2, <2>4, MaxOfPlaces
    <3>2. i \in DOMAIN c.writes
      BY <3>1
    <3>3. LocalDoc(c, d) = [content |-> c.writes[i].content, local |-> TRUE]
      BY <2>4 DEF LocalDoc
    <3>4. LocalDoc(x, d) = [content |-> x.writes[i].content, local |-> TRUE]
      BY <2>1, <2>4 DEF LocalDoc
    <3> HIDE DEF i
    <3>5. x.writes[i].content = c.writes[i].content
      BY <3>2 DEF SameWrites
    <3> QED
      BY <3>3, <3>4, <3>5
  <2> QED
    BY <2>3, <2>4
<1>7. Showing(x)
  <2>1. Showing(c)
    BY DEF Exact
  <2> QED
    BY <1>3, <1>6, <2>1 DEF Showing
<1>8. Leaving(lg, x)
  <2>1. Leaving(lg, c)
    BY DEF Exact
  <2>2. Dated(x)
    BY <1>3, <2>1 DEF Leaving, Dated
  <2>3. ASSUME NEW d \in c.leftOut PROVE Omitted(lg, x, d)
    BY <1>3, <2>1 DEF Leaving, Omitted, Gone, SameWrites
  <2> QED
    BY <1>3, <2>2, <2>3 DEF Leaving
<1> QED
  BY <1>2, <1>4, <1>5, <1>7, <1>8 DEF Exact

\* The disk when only the writes change.
LEMMA WritesDisk ==
    ASSUME NEW lg, NEW c, Disk(lg, c), NEW x, Only(x, c, {"writes", "leftOut"}), SentOnes(lg, x)
    PROVE  Disk(lg, x)
<1>1. /\ x.cache = c.cache /\ x.keys = c.keys /\ x.token = c.token /\ x.on = c.on
      /\ x.listening = c.listening
  BY DEF Only, Fields
<1>2. CacheTrue(lg, x)
  BY <1>1 DEF Disk, CacheTrue
<1>3. \A v : KeysAt(lg, c, v) => KeysAt(lg, x, v)
  BY <1>1 DEF KeysAt
<1> QED
  BY <1>1, <1>2, <1>3 DEF Disk

\* What is left out when the writes change.
LEMMA WritesLeave ==
    ASSUME NEW lg, NEW c, Leaving(lg, c), NEW x, Only(x, c, {"writes", "cache", "leftOut"}),
           x.leftOut \subseteq c.leftOut,
           \A d \in x.leftOut : /\ x.cache[d] = c.cache[d]
                                /\ \A i \in DOMAIN x.writes : x.writes[i].doc # d
    PROVE  Leaving(lg, x)
<1>1. /\ x.savedFree = c.savedFree /\ x.token = c.token /\ x.lastSnap = c.lastSnap
      /\ x.limboFree = c.limboFree /\ x.on = c.on /\ x.listening = c.listening
      /\ x.view = c.view /\ x.keys = c.keys
  BY DEF Only, Fields
<1>2. Dated(x)
  BY <1>1 DEF Leaving, Dated
<1>3. ASSUME NEW d \in x.leftOut PROVE Omitted(lg, x, d)
  <2>1. Omitted(lg, c, d)
    BY DEF Leaving
  <2>2. Gone(lg, x, d)
    BY <1>1, <2>1 DEF Omitted, Gone
  <2> QED
    BY <1>1, <2>1, <2>2 DEF Omitted
<1> QED
  BY <1>2, <1>3 DEF Leaving

\* The program writes, ...
LEMMA WriteExact ==
    ASSUME Ready, NEW d \in Docs, NEW v \in Contents[d], Write(d, v)
    PROVE  Exact(log', client')
<1> DEFINE w == [doc |-> d, content |-> v, version |-> 0]
           writes == Append(client.writes, w)
           leftOut == client.leftOut \ {d}
           x == [client EXCEPT !.writes = writes, !.leftOut = leftOut]
<1>1. Notify(Emit(x, NoChange(x)))
  BY DEF Write
<1>2. /\ Typed(client) /\ client.writes \in Seq(WriteType) /\ leftOut \in SUBSET Docs
      /\ Disk(log, client) /\ Leaving(log, client)
  BY ReadyIs, FieldTypes
<1>3. w \in WriteType /\ w.version = 0 /\ w.doc = d
  BY ContentTyped, ZeroVersion DEF WriteType
<1> HIDE DEF w
<1>4. /\ writes \in Seq(WriteType) /\ DOMAIN writes = 1 .. (Len(client.writes) + 1)
      /\ Len(client.writes) \in Nat /\ DOMAIN client.writes = 1 .. Len(client.writes)
      /\ \A i \in 1 .. Len(client.writes) : writes[i] = client.writes[i]
      /\ writes[Len(client.writes) + 1] = w
  BY <1>2, <1>3, AppendIs
<1>5. leftOut \subseteq client.leftOut /\ d \notin leftOut
  OBVIOUS
<1> HIDE DEF writes, leftOut
<1>6. /\ Only(x, client, {"writes", "leftOut"})
      /\ x["writes"] = writes /\ x["leftOut"] = leftOut
  BY <1>2 DEF Only, Typed, Shape, Fields
<1> HIDE DEF x
<1>7. Typed(x)
  BY <1>2, <1>4, <1>6, TypedOnly, ClientIs DEF Fields
<1>8. SentOnes(log, x)
  <2> SUFFICES ASSUME NEW i \in DOMAIN writes, writes[i].version > 0
               PROVE  /\ writes[i].version <= Len(log)
                      /\ log[writes[i].version] = [doc |-> writes[i].doc, content |-> writes[i].content]
    BY <1>6 DEF SentOnes
  <2>1. i # Len(client.writes) + 1
    BY <1>3, <1>4
  <2>2. i \in DOMAIN client.writes /\ writes[i] = client.writes[i]
    BY <1>4, <2>1
  <2> QED
    BY <1>2, <2>2 DEF Disk, SentOnes
<1>9. Disk(log, x)
  BY <1>2, <1>6, <1>8, WritesDisk
<1>10. Only(x, client, {"writes", "cache", "leftOut"})
  BY <1>6 DEF Only
<1>11. ASSUME NEW e \in x.leftOut
       PROVE  x.cache[e] = client.cache[e] /\ \A i \in DOMAIN x.writes : x.writes[i].doc # e
  <2>1. \A i \in DOMAIN client.writes : client.writes[i].doc # e
    BY <1>2, <1>5, <1>6, <1>11 DEF Leaving, Omitted
  <2>2. \A i \in DOMAIN writes : writes[i].doc # e
    BY <1>3, <1>4, <1>5, <1>6, <1>11, <2>1
  <2> QED
    BY <1>6, <2>2 DEF Only, Fields
<1>12. Leaving(log, x)
  BY <1>2, <1>5, <1>6, <1>10, <1>11, WritesLeave
<1> QED
  BY <1>1, <1>7, <1>9, <1>10, <1>12, EmittedExact DEF Emitted

\* Without the first write those that the server has taken are those there were.
LEMMA SentTail ==
    ASSUME NEW lg, NEW c, SentOnes(lg, c), c.writes \in Seq(WriteType), c.writes # <<>>,
           NEW x, x.writes = Tail(c.writes)
    PROVE  SentOnes(lg, x)
<1> SUFFICES ASSUME NEW i \in DOMAIN x.writes, x.writes[i].version > 0
             PROVE  /\ x.writes[i].version <= Len(lg)
                    /\ lg[x.writes[i].version] = [doc |-> x.writes[i].doc, content |-> x.writes[i].content]
  BY DEF SentOnes
<1>1. i + 1 \in DOMAIN c.writes /\ x.writes[i] = c.writes[i + 1]
  BY TailPlaces
<1> QED
  BY <1>1 DEF SentOnes

\* ... and none is of a document that is left out.
LEMMA UnwrittenTail ==
    ASSUME NEW lg, NEW c, Leaving(lg, c), c.writes \in Seq(WriteType), c.writes # <<>>
    PROVE  /\ \A d \in c.leftOut : \A i \in DOMAIN Tail(c.writes) : Tail(c.writes)[i].doc # d
           /\ Head(c.writes).doc \notin c.leftOut
<1>1. ASSUME NEW d \in c.leftOut
      PROVE  \A i \in DOMAIN c.writes : c.writes[i].doc # d
  BY <1>1 DEF Leaving, Omitted
<1>2. 1 \in DOMAIN c.writes /\ Head(c.writes) = c.writes[1]
  OBVIOUS
<1>3. ASSUME NEW i \in DOMAIN Tail(c.writes)
      PROVE  i + 1 \in DOMAIN c.writes /\ Tail(c.writes)[i] = c.writes[i + 1]
  BY <1>3, TailPlaces
<1> QED
  BY <1>1, <1>2, <1>3

\* ... a write is refused, ...
LEMMA WriteRefusedExact ==
    ASSUME Ready, WriteRefused
    PROVE  Exact(log', client')
<1> DEFINE writes == Tail(client.writes)
           x == [client EXCEPT !.writes = writes]
<1>1. Notify(Emit(x, NoChange(x)))
  BY DEF WriteRefused
<1>2. /\ Typed(client) /\ client.writes \in Seq(WriteType) /\ Disk(log, client)
      /\ Leaving(log, client) /\ client.writes # <<>>
  BY ReadyIs, FieldTypes DEF WriteRefused
<1>3. /\ writes \in Seq(WriteType)
      /\ \A d \in client.leftOut : \A i \in DOMAIN writes : writes[i].doc # d
  BY <1>2, UnwrittenTail
<1> HIDE DEF writes
<1>5. Typed(x) /\ Only(x, client, {"writes"}) /\ x.writes = writes
  BY <1>2, <1>3, SetWritesTyped
<1> HIDE DEF x
<1>6. SentOnes(log, x)
  BY <1>2, <1>5, SentTail DEF Disk, writes
<1>7. Only(x, client, {"writes", "leftOut"}) /\ Only(x, client, {"writes", "cache", "leftOut"})
      /\ x.leftOut = client.leftOut /\ x.cache = client.cache
  BY <1>5 DEF Only, Fields
<1>8. Disk(log, x)
  BY <1>2, <1>6, <1>7, WritesDisk
<1>9. Leaving(log, x)
  BY <1>2, <1>3, <1>5, <1>7, WritesLeave
<1> QED
  BY <1>1, <1>5, <1>7, <1>8, <1>9, EmittedExact DEF Emitted

\* ... or acknowledged, and what was committed is kept in the cache.
LEMMA WriteAcknowledgedExact ==
    ASSUME Ready, WriteAcknowledged
    PROVE  Exact(log', client')
<1> DEFINE w == Head(client.writes)
           writes == Tail(client.writes)
           cached == IF client.cache[w.doc].version >= w.version THEN client.cache[w.doc]
                     ELSE [version |-> w.version, content |-> w.content, committed |-> TRUE]
           cache == [client.cache EXCEPT ![w.doc] = cached]
           x == [client EXCEPT !.writes = writes, !.cache = cache]
<1>1. Notify(Emit(x, NoChange(x)))
  <2> DEFINE y == [client EXCEPT !.writes = Tail(@),
                                 !.cache[w.doc] = IF @.version >= w.version THEN @
                                     ELSE [version |-> w.version, content |-> w.content,
                                           committed |-> TRUE]]
  <2>1. Notify(Emit(y, NoChange(y)))
    BY DEF WriteAcknowledged
  <2>2. y = x
    <3>1. DOMAIN client.cache = Docs /\ Shape(client)
      BY FieldTypes, ReadyIs DEF Typed
    <3> QED
      BY <3>1 DEF Shape, Fields
  <2> HIDE DEF x, y
  <2> QED
    BY <2>1, <2>2
<1>2. /\ Typed(client) /\ client.writes \in Seq(WriteType) /\ client.writes # <<>>
      /\ client.cache \in [Docs -> CachedDoc] /\ w.version > 0 /\ Disk(log, client)
      /\ Leaving(log, client)
  BY FieldTypes, ReadyIs DEF WriteAcknowledged
<1>3. w \in WriteType /\ writes \in Seq(WriteType) /\ 1 \in DOMAIN client.writes /\ w = client.writes[1]
  BY <1>2
<1>4. w.version <= Len(log) /\ log[w.version] = [doc |-> w.doc, content |-> w.content]
  <2> HIDE DEF w
  <2> QED
    BY <1>2, <1>3 DEF Disk, SentOnes
<1>13. /\ \A d \in client.leftOut : \A i \in DOMAIN writes : writes[i].doc # d
       /\ w.doc \notin client.leftOut /\ client.leftOut \subseteq Docs
  BY <1>2, UnwrittenTail, FieldTypes
<1> HIDE DEF w, writes
<1>5. w.doc \in Docs /\ w.version \in Versions /\ w.content \in Values /\ w.version \in Nat
  BY <1>2, <1>3 DEF WriteType, Versions
<1>6. cached \in CachedDoc
  BY <1>2, <1>5 DEF CachedDoc
<1>7. /\ \A d \in Docs : client.cache[d].version \in Nat
      /\ client.cache[w.doc].version <= cached.version /\ cached.version <= Len(log)
      /\ cached.content = Truth(log, w.doc, cached.version)
  <2>1. \A d \in Docs : client.cache[d].version \in Nat
    BY <1>2, VersionsOf
  <2>2. Truth(log, w.doc, w.version) = w.content
    <3>1. Truth(log, w.doc, w.version) = log[w.version].content
      BY <1>2, <1>4, <1>5, NewestAt
    <3> QED
      BY <1>4, <3>1
  <2>3. /\ client.cache[w.doc].version <= Len(log)
        /\ client.cache[w.doc].content = Truth(log, w.doc, client.cache[w.doc].version)
    BY <1>2, <1>5 DEF Disk, CacheTrue
  <2>4. CASE client.cache[w.doc].version >= w.version
    BY <1>5, <2>1, <2>3, <2>4
  <2>5. CASE ~(client.cache[w.doc].version >= w.version)
    <3>1. cached.version = w.version /\ cached.content = w.content
      BY <2>5
    <3> HIDE DEF cached
    <3>2. client.cache[w.doc].version <= w.version
      BY <1>5, <2>1, <2>5
    <3> QED
      BY <1>4, <2>1, <2>2, <3>1, <3>2
  <2> QED
    BY <2>1, <2>4, <2>5
<1> HIDE DEF cached
<1>8. /\ cache \in [Docs -> CachedDoc] /\ cache[w.doc] = cached
      /\ \A d \in Docs : d # w.doc => cache[d] = client.cache[d]
  BY <1>2, <1>5, <1>6
<1> HIDE DEF cache
<1>9. /\ Only(x, client, {"writes", "cache"})
      /\ x["writes"] = writes /\ x["cache"] = cache
  BY <1>2 DEF Only, Typed, Shape, Fields
<1> HIDE DEF x
<1>10. x["writes"] \in Client_["writes"] /\ x["cache"] \in Client_["cache"]
  BY <1>3, <1>8, <1>9, ClientIs
<1>11. Typed(x)
  BY <1>2, <1>9, <1>10, TypedOnly DEF Fields
<1>12. Disk(log, x)
  <2>1. SentOnes(log, x)
    BY <1>2, <1>9, SentTail DEF Disk, writes
  <2>2. CacheTrue(log, x)
    <3> SUFFICES ASSUME NEW d \in Docs
                 PROVE  cache[d].version <= Len(log) /\ cache[d].content = Truth(log, d, cache[d].version)
      BY <1>9 DEF CacheTrue
    <3>1. CASE d = w.doc
      BY <1>7, <1>8, <3>1
    <3>2. CASE d # w.doc
      BY <1>2, <1>8, <3>2 DEF Disk, CacheTrue
    <3> QED
      BY <3>1, <3>2
  <2>3. /\ x.keys = client.keys /\ x.token = client.token /\ x.on = client.on
        /\ x.listening = client.listening
    BY <1>9 DEF Only, Fields
  <2>4. ASSUME NEW v \in Nat, KeysAt(log, client, v)
        PROVE  KeysAt(log, x, v)
    <3> SUFFICES ASSUME NEW d \in client.keys
                 PROVE  Newest(log, d, v) <= cache[d].version
      BY <1>9, <2>3, <2>4 DEF KeysAt
    <3>1. d \in Docs /\ Newest(log, d, v) \in Nat /\ Newest(log, d, v) <= client.cache[d].version
      BY <1>2, <2>4, FieldTypes, NewestIs DEF KeysAt
    <3>2. client.cache[d].version <= cache[d].version
      <4>1. CASE d = w.doc
        BY <1>7, <1>8, <4>1
      <4>2. CASE d # w.doc
        BY <1>7, <1>8, <3>1, <4>2
      <4> QED
        BY <4>1, <4>2
    <3>3. client.cache[d].version \in Nat /\ cache[d].version \in Nat
      BY <1>7, <1>8, <3>1 DEF CachedDoc, Versions
    <3> QED
      BY <3>1, <3>2, <3>3
  <2>5. client.token \in Nat /\ (client.on => client.listening[Query] \in Nat)
    BY <1>2, VersionsOf, ReadyIs
  <2> QED
    BY <1>2, <2>1, <2>2, <2>3, <2>4, <2>5 DEF Disk
<1>14. Only(x, client, {"writes", "cache", "leftOut"}) /\ x.leftOut = client.leftOut
  BY <1>9 DEF Only, Fields
<1>15. ASSUME NEW d \in x.leftOut
       PROVE  x.cache[d] = client.cache[d] /\ \A i \in DOMAIN x.writes : x.writes[i].doc # d
  BY <1>8, <1>9, <1>13, <1>14, <1>15
<1>16. Leaving(log, x)
  BY <1>2, <1>14, <1>15, WritesLeave
<1> QED
  BY <1>1, <1>11, <1>12, <1>14, <1>16, EmittedExact DEF Emitted

-----------------------------------------------------------------------------
(***************************************************************************)
(* Steps of the server and of writes.                                      *)
(***************************************************************************)
\* Everything stays true when the log grows.
LEMMA ExactLater ==
    ASSUME NEW c, Typed(c), NEW lg \in Seq(Logged), NEW e \in Logged, Exact(lg, c),
           c.on => Query \in DOMAIN c.listening, c.lastSnap <= Len(lg)
    PROVE  Exact(Append(lg, e), c)
BY NetLater, DiskLater, LeavingLater DEF Exact

\* The server answers a write.
LEMMA AnswerExact ==
    ASSUME NEW lg, Ready, Exact(lg, client), NEW i \in DOMAIN client.writes, NEW version \in Int,
           version > 0 => /\ version <= Len(lg)
                          /\ lg[version] = [doc |-> client.writes[i].doc,
                                            content |-> client.writes[i].content],
           client' = [client EXCEPT !.writes[i].version = version]
    PROVE  Exact(lg, client')
<1> DEFINE w == [client.writes[i] EXCEPT !.version = version]
           writes == [client.writes EXCEPT ![i] = w]
           x == [client EXCEPT !.writes = writes]
<1>1. Typed(client) /\ client.writes \in Seq(WriteType) /\ Shape(client)
  BY ReadyIs, FieldTypes DEF Typed
<1>2. client' = x
  BY <1>1 DEF Shape, Fields
<1>3. client.writes[i] \in WriteType
  BY <1>1
<1>4. /\ w.version = version /\ w.doc = client.writes[i].doc
      /\ w.content = client.writes[i].content
  BY <1>3 DEF WriteType
<1> HIDE DEF w
<1>5. /\ DOMAIN writes = DOMAIN client.writes /\ writes[i] = w
      /\ \A j \in DOMAIN client.writes : j # i => writes[j] = client.writes[j]
  BY <1>1
<1> HIDE DEF writes
<1>6. Only(x, client, {"writes"}) /\ x.writes = writes
  BY <1>1 DEF Only, Shape, Fields
<1> HIDE DEF x
<1>7. SameWrites(x, client)
  BY <1>4, <1>5, <1>6 DEF SameWrites
<1>8. SentOnes(lg, client)
  BY DEF Exact, Disk
<1>9. SentOnes(lg, x)
  BY <1>4, <1>5, <1>6, <1>8 DEF SentOnes
<1> QED
  BY <1>1, <1>2, <1>6, <1>7, <1>9, WritesExact

\* Somebody else writes, ...
LEMMA OthersWriteExact ==
    ASSUME Ready, NEW d \in Docs, NEW v \in Contents[d], OthersWrite(d, v)
    PROVE  Exact(log', client')
<1> DEFINE e == [doc |-> d, content |-> v]
<1>1. log' = Append(log, e) /\ client' = client
  BY DEF OthersWrite
<1>2. e \in Logged
  BY ContentTyped DEF Logged
<1> HIDE DEF e
<1> QED
  BY <1>1, <1>2, ReadyIs, ExactLater DEF Ready

\* ... the server takes a write, ...
LEMMA ServerCommitsExact ==
    ASSUME Ready, NEW i \in DOMAIN client.writes, ServerCommits(i)
    PROVE  Exact(log', client')
<1> DEFINE e == [doc |-> client.writes[i].doc, content |-> client.writes[i].content]
<1>1. log' = Append(log, e) /\ client' = [client EXCEPT !.writes[i].version = Len(log')]
  BY DEF ServerCommits
<1>2. e \in Logged
  <2>1. client.writes[i] \in WriteType
    BY ReadyIs, FieldTypes
  <2> QED
    BY <2>1 DEF WriteType, Logged
<1> HIDE DEF e
<1>3. Exact(log', client)
  BY <1>1, <1>2, ReadyIs, ExactLater DEF Ready
<1>4. Len(log') \in Int /\ log'[Len(log')] = e
  BY <1>1, <1>2, ReadyIs
<1> DEFINE n == Len(log')
<1>5. client' = [client EXCEPT !.writes[i].version = n] /\ n \in Int
  BY <1>1, <1>4
<1>6. n <= Len(log') /\ log'[n] = [doc |-> client.writes[i].doc, content |-> client.writes[i].content]
  BY <1>4 DEF e
<1> HIDE DEF n
<1> QED
  BY <1>3, <1>5, <1>6, AnswerExact

\* ... or refuses one.
LEMMA ServerRefusesWriteExact ==
    ASSUME Ready, NEW i \in DOMAIN client.writes, ServerRefusesWrite(i)
    PROVE  Exact(log', client')
<1>1. log' = log /\ client' = [client EXCEPT !.writes[i].version = -1]
  BY DEF ServerRefusesWrite
<1>2. -1 \in Int /\ ~(-1 > 0)
  OBVIOUS
<1> QED
  BY <1>1, <1>2, AnswerExact DEF Ready

\* Writes whose answers are lost.
LEMMA UnansweredExact ==
    ASSUME NEW lg, NEW c, Typed(c), Exact(lg, c)
    PROVE  Exact(lg, Unanswered(c))
<1> DEFINE u == Unanswered(c)
<1>1. c.writes \in Seq(WriteType)
  BY FieldTypes
<1>2. \A i \in DOMAIN c.writes : c.writes[i] \in WriteType
  BY <1>1
<1>3. /\ DOMAIN u.writes = DOMAIN c.writes
      /\ \A i \in DOMAIN c.writes : u.writes[i] = [c.writes[i] EXCEPT !.version = 0]
      /\ Only(u, c, {"writes"})
  BY DEF Unanswered, Only, Typed, Shape, Fields
<1> HIDE DEF u
<1>4. \A i \in DOMAIN c.writes : /\ u.writes[i].version = 0 /\ u.writes[i].doc = c.writes[i].doc
                                 /\ u.writes[i].content = c.writes[i].content
  BY <1>2, <1>3, Zenon DEF WriteType
<1>5. SentOnes(lg, u)
  BY <1>3, <1>4 DEF SentOnes
<1>6. SameWrites(u, c)
  BY <1>3, <1>4 DEF SameWrites
<1>7. Exact(lg, u)
  BY <1>3, <1>5, <1>6, WritesExact
<1> QED
  BY <1>7 DEF u

\* What is shown and kept stays the same.
LEMMA SameExact ==
    ASSUME NEW lg, NEW c, Exact(lg, c), NEW x, Net(lg, x), SameView(x, c), SameDisk(x, c),
           DOMAIN x.limbo \subseteq DOMAIN c.limbo
    PROVE  Exact(lg, x)
<1>1. Disk(lg, x)
  BY DiskSame DEF Exact
<1>2. Looking(x)
  BY LookingSame DEF SameDisk, Exact
<1>3. Showing(x)
  BY ShowingSame DEF SameDisk, Exact
<1>4. Leaving(lg, x)
  BY LeavingSame DEF Exact
<1> QED
  BY <1>1, <1>2, <1>3, <1>4 DEF Exact

\* The connection says nothing of what is kept.
LEMMA SameDiskOnly ==
    ASSUME NEW c, NEW F, NEW x, Only(x, c, F),
           F \cap {"cache", "keys", "token", "savedFree", "limboFree", "lastSnap", "writes",
                   "leftOut", "on", "listening"} = {}
    PROVE  SameDisk(x, c)
BY DEF SameDisk, Only, Fields

\* UpdateState.
LEMMA UpdateStateExact ==
    ASSUME NEW lg, NEW c, Typed(c), Exact(lg, c), NEW state \in {"Unknown", "Online", "Offline"}
    PROVE  Exact(lg, UpdateState(c, state))
<1> DEFINE x == UpdateState(c, state)
<1>1. SameView(x, c) /\ SameBooks(x, c) /\ Only(x, c, {"online", "raised", "view", "timer", "failed"})
  BY UpdateStateView, UpdateStateRuns, UpdateStateTyped
<1> HIDE DEF x
<1>2. SameDisk(x, c) /\ x.limbo = c.limbo /\ x.keys = c.keys
  BY <1>1 DEF SameDisk, Only, Fields
<1>3. Net(lg, x)
  BY <1>1, <1>2, SameBooksNet DEF Exact
<1>4. Exact(lg, x)
  BY <1>1, <1>2, <1>3, SameExact
<1> QED
  BY <1>4 DEF x

\* A field that nothing is said of.
LEMMA SetEnabledExact ==
    ASSUME NEW lg, NEW c, Typed(c), Exact(lg, c), NEW x, Only(x, c, {"enabled"})
    PROVE  Exact(lg, x)
<1>1. SameBooks(x, c) /\ x.keys = c.keys /\ SameDisk(x, c) /\ SameView(x, c) /\ x.limbo = c.limbo
  BY DEF SameBooks, SameDisk, SameView, Only, Fields
<1>2. Net(lg, x)
  BY <1>1, SameBooksNet DEF Exact
<1> QED
  BY <1>1, <1>2, SameExact

-----------------------------------------------------------------------------
(***************************************************************************)
(* The stream starts, stops and fails.                                     *)
(***************************************************************************)
\* A stream that is started is not open yet, ...
LEMMA StartedStream ==
    ASSUME NEW c, Typed(c), c.stream # "Open"
    PROVE  StartWatchStream(c).stream # "Open"
<1>1. CASE ~ShouldStartWatchStream(c)
  BY <1>1 DEF StartWatchStream
<1>2. CASE ShouldStartWatchStream(c)
  <2> DEFINE b == [c EXCEPT !.stream = "Starting", !.agg = <<>>, !.updates = <<>>, !.resets = {}]
  <2>1. Shape(c)
    BY DEF Typed
  <2>2. Only(b, c, {"stream", "agg", "updates", "resets"})
    BY <2>1 DEF Only, Shape, Fields
  <2>3. b["stream"] = "Starting" /\ b["agg"] = <<>> /\ b["updates"] = <<>> /\ b["resets"] = {}
    BY <2>1 DEF Shape, Fields
  <2>4. StartWatchStream(c) = HandleWatchStreamStart(b)
    BY <1>2 DEF StartWatchStream
  <2> HIDE DEF b
  <2>5. <<>> \in Aggregator /\ <<>> \in Partial(Docs, CachedDoc)
    BY PartialNone DEF Aggregator
  <2>6. /\ b["stream"] \in Client_["stream"] /\ b["agg"] \in Client_["agg"]
        /\ b["updates"] \in Client_["updates"] /\ b["resets"] \in Client_["resets"]
    BY <2>3, <2>5, ClientIs
  <2>7. Typed(b)
    BY <2>2, <2>6, TypedOnly DEF Fields
  <2>8. HandleWatchStreamStart(b).stream = b.stream
    BY <2>7, HandleWatchStreamStartTyped DEF Only, Fields
  <2> QED
    BY <2>3, <2>4, <2>8
<1> QED
  BY <1>1, <1>2

\* ... and a failure shows nothing.
LEMMA FailureView ==
    ASSUME NEW c, Typed(c)
    PROVE  SameView(HandleWatchStreamFailure(c), c)
<1> DEFINE y == HandleWatchStreamFailure(c)
<1>1. CASE c.online = "Online"
  <2> DEFINE o == SetOnline(c, "Unknown")
  <2>1. y = Require(o, ~c.failed /\ ~c.timer)
    BY <1>1 DEF HandleWatchStreamFailure
  <2>2. Typed(o) /\ SameView(o, c)
    BY SetOnlineTyped, SetOnlineView
  <2> HIDE DEF o, y
  <2>3. Only(y, o, {"broken"})
    BY <2>1, <2>2, RequireTyped
  <2>4. SameView(y, o)
    BY <2>3, SameViewOnly
  <2>5. SameView(y, c)
    BY <2>2, <2>4, SameViewTrans
  <2> QED
    BY <2>5 DEF y
<1>2. CASE c.online # "Online"
  <2> DEFINE b == [c EXCEPT !.failed = TRUE, !.timer = FALSE]
  <2>1. y = SetOnline(b, "Offline")
    BY <1>2 DEF HandleWatchStreamFailure
  <2>2. Only(b, c, {"failed", "timer"}) /\ b["failed"] = TRUE /\ b["timer"] = FALSE
    BY DEF Only, Typed, Shape, Fields
  <2> HIDE DEF b, y
  <2>3. b["failed"] \in Client_["failed"] /\ b["timer"] \in Client_["timer"]
    BY <2>2, ClientIs
  <2>4. Typed(b) /\ SameView(b, c)
    BY <2>2, <2>3, TypedOnly, SameViewOnly DEF Fields
  <2>5. SameView(y, b)
    BY <2>1, <2>4, SetOnlineView
  <2>6. SameView(y, c)
    BY <2>4, <2>5, SameViewTrans
  <2> QED
    BY <2>6 DEF y
<1> QED
  BY <1>1, <1>2

\* A client that has what the server had, and no stream.
LEMMA QuietExact ==
    ASSUME NEW lg, NEW c, Typed(c), Exact(lg, c), NEW x, Quiet(x), x.stream # "Open",
           SameView(x, c), SameDisk(x, c), x.listening = c.listening, x.received = c.received,
           x.limbo = c.limbo
    PROVE  Exact(lg, x)
<1>1. ASSUME NEW t \in DOMAIN x.listening PROVE Sees(lg, x, t)
  <2>1. t \in Watched
    BY <1>1, VersionsOf
  <2>2. Sees(lg, c, t)
    BY <1>1, <2>1 DEF Exact, Net, Right
  <2>3. RemoteKeys(x, t) = RemoteKeys(c, t)
    BY DEF RemoteKeys, SameView
  <2> QED
    BY <2>2, <2>3 DEF Sees
<1>2. Net(lg, x)
  BY <1>1, QuietNet
<1> QED
  BY <1>2, SameExact

\* A stream that closes.
LEMMA CloseExact ==
    ASSUME NEW lg, NEW c, Typed(c), Clock(c), ~c.broken, NEW graceful,
           graceful => DOMAIN c.listening = {} \/ ~c.enabled, Exact(lg, c)
    PROVE  Exact(lg, Close(c, graceful))
<1> DEFINE closed == Closed(c)
           x == Close(c, graceful)
<1>1. x = IF ShouldStartWatchStream(closed)
          THEN Require(StartWatchStream(HandleWatchStreamFailure(closed)), ~graceful)
          ELSE UpdateState(closed, "Unknown")
  BY DEF Close, Closed
<1>2. Typed(closed) /\ closed.stream = "Initial" /\ Only(closed, c,
                   {"stream", "idle", "agg", "updates", "resets", "requests", "incoming", "serving"})
  BY ClosedTyped
<1>3. Runs(x) /\ Typed(x) /\ Only(x, c,
                   {"stream", "idle", "agg", "updates", "resets", "requests", "incoming",
                    "serving", "online", "raised", "view", "timer", "failed", "broken"})
  BY CloseRuns, CloseTyped
<1> HIDE DEF closed, x
<1>4. SameView(closed, c)
  BY <1>2, SameViewOnly
<1>5. x.stream # "Open" /\ SameView(x, closed)
  <2>1. CASE ShouldStartWatchStream(closed)
    <3> DEFINE y == HandleWatchStreamFailure(closed)
               z == StartWatchStream(y)
    <3>1. Typed(y) /\ y.stream = closed.stream /\ SameView(y, closed)
      BY <1>2, HandleWatchStreamFailureTyped, FailureView DEF Only, Fields
    <3>2. x = Require(z, ~graceful)
      BY <1>1, <2>1
    <3> HIDE DEF y
    <3>3. Typed(z) /\ z.stream # "Open" /\ SameView(z, y)
      BY <1>2, <3>1, StartWatchStreamTyped, StartedStream, StartView
    <3> HIDE DEF z
    <3>4. Only(x, z, {"broken"})
      BY <3>2, <3>3, RequireTyped
    <3>5. SameView(x, z)
      BY <3>4, SameViewOnly
    <3>7. x.stream = z.stream
      BY <3>4 DEF Only, Fields
    <3>6. SameView(x, y)
      BY <3>3, <3>5, SameViewTrans
    <3> QED
      BY <3>1, <3>3, <3>6, <3>7, SameViewTrans
  <2>2. CASE ~ShouldStartWatchStream(closed)
    <3>1. x = UpdateState(closed, "Unknown")
      BY <1>1, <2>2
    <3>2. SameView(x, closed) /\ Only(x, closed, {"online", "raised", "view", "timer", "failed"})
      BY <1>2, <3>1, UpdateStateView, UpdateStateTyped
    <3> QED
      BY <1>2, <3>2 DEF Only, Fields
  <2> QED
    BY <2>1, <2>2
<1>6. Quiet(x)
  BY <1>3, <1>5 DEF Runs, Running, Flowing, Wired
<1>7. SameDisk(x, c) /\ x.listening = c.listening /\ x.received = c.received /\ x.limbo = c.limbo
  BY <1>3 DEF SameDisk, Only, Fields
<1>8. SameView(x, c)
  BY <1>4, <1>5, SameViewTrans
<1>9. Exact(lg, x)
  BY <1>5, <1>6, <1>7, <1>8, QuietExact
<1> QED
  BY <1>9 DEF x

\* DisableNetworkInternal, ...
LEMMA StopExact ==
    ASSUME NEW lg, NEW c, Typed(c), Sound(c), Exact(lg, c)
    PROVE  Exact(lg, Stop(c))
<1> DEFINE off == [c EXCEPT !.enabled = FALSE]
<1>1. Only(off, c, {"enabled"}) /\ off["enabled"] = FALSE
  BY DEF Only, Typed, Shape, Fields
<1>2. Stop(c) = IF c.stream = "Initial" THEN off ELSE Close(off, TRUE)
  BY DEF Stop
<1> HIDE DEF off
<1>3. off["enabled"] \in Client_["enabled"]
  BY <1>1, ClientIs
<1>4. Typed(off) /\ Exact(lg, off)
  BY <1>1, <1>3, TypedOnly, SetEnabledExact DEF Fields
<1>5. off.timer = c.timer /\ off.failed = c.failed /\ off.online = c.online /\ off.stream = c.stream
      /\ off.broken = c.broken /\ ~off.enabled
  BY <1>1 DEF Only, Fields
<1>6. Clock(off) /\ ~off.broken
  BY <1>5 DEF Clock, Sound, Runs, Running
<1>7. Exact(lg, Close(off, TRUE))
  BY <1>4, <1>5, <1>6, CloseExact
<1> QED
  BY <1>2, <1>4, <1>7

\* ... and EnableNetwork.
LEMMA EnableExact ==
    ASSUME NEW lg, NEW c, Typed(c), Sound(c), Exact(lg, c)
    PROVE  Exact(lg, Enable(c))
<1> DEFINE on == [c EXCEPT !.enabled = TRUE]
           x == StartWatchStream(on)
<1>1. Only(on, c, {"enabled"}) /\ on["enabled"] = TRUE
  BY DEF Only, Typed, Shape, Fields
<1>2. Enable(c) = IF ShouldStartWatchStream(on) THEN x ELSE UpdateState(on, "Unknown")
  BY DEF Enable
<1> HIDE DEF on
<1>3. on["enabled"] \in Client_["enabled"]
  BY <1>1, ClientIs
<1>4. Typed(on) /\ Exact(lg, on)
  BY <1>1, <1>3, TypedOnly, SetEnabledExact DEF Fields
<1>5. /\ on.timer = c.timer /\ on.failed = c.failed /\ on.online = c.online /\ on.stream = c.stream
      /\ on.broken = c.broken /\ SameBooks(on, c)
  BY <1>1 DEF Only, Fields, SameBooks
<1>6. Exact(lg, UpdateState(on, "Unknown"))
  BY <1>4, UpdateStateExact
<1>7. ASSUME ShouldStartWatchStream(on) PROVE Exact(lg, x)
  <2>1. on.stream # "Open"
    BY <1>7 DEF ShouldStartWatchStream
  <2>2. Clock(on) /\ ~on.broken
    BY <1>5 DEF Clock, Sound, Runs, Running
  <2>3. Quiet(on)
    BY <1>5, <2>1 DEF Sound, Runs, Running, Flowing, Wired, SameBooks, Quiet
  <2>4. Runs(x) /\ x.stream # "Open" /\ SameView(x, on)
        /\ Only(x, on, {"online", "raised", "view", "timer", "broken",
                                            "stream", "agg", "updates", "resets"})
    BY <1>4, <2>1, <2>2, <2>3, StartWatchStreamRuns, StartedStream, StartView, StartWatchStreamTyped
  <2> HIDE DEF x
  <2>5. Quiet(x)
    BY <2>4 DEF Runs, Running, Flowing, Wired
  <2>6. SameDisk(x, on) /\ x.listening = on.listening /\ x.received = on.received /\ x.limbo = on.limbo
    BY <2>4 DEF SameDisk, Only, Fields
  <2> QED
    BY <1>4, <2>4, <2>5, <2>6, QuietExact
<1> QED
  BY <1>2, <1>6, <1>7

\* The program takes the network away, ...
LEMMA DisableNetworkExact ==
    ASSUME Ready, DisableNetwork
    PROVE  Exact(log', client')
<1> DEFINE u == Unanswered(client)
           y == Stop(u)
<1>1. client' = UpdateState(y, "Offline") /\ log' = log
  BY DEF DisableNetwork
<1>2. Typed(u) /\ Sound(u) /\ Exact(log, u)
  BY ReadyIs, UnansweredSound, UnansweredExact DEF Ready
<1> HIDE DEF u
<1>3. Typed(y) /\ Exact(log, y)
  BY <1>2, StopSound, StopExact
<1> HIDE DEF y
<1> QED
  BY <1>1, <1>3, UpdateStateExact

\* ... the network comes back as another, ...
LEMMA NetworkRestartsExact ==
    ASSUME Ready, NetworkRestarts
    PROVE  Exact(log', client')
<1> DEFINE u == Unanswered(client)
           y == Stop(u)
           x == UpdateState(y, "Unknown")
<1>1. client' = Enable(x) /\ log' = log
  BY DEF NetworkRestarts
<1>2. Typed(u) /\ Sound(u) /\ Exact(log, u)
  BY ReadyIs, UnansweredSound, UnansweredExact DEF Ready
<1> HIDE DEF u
<1>3. Typed(y) /\ Sound(y) /\ Exact(log, y)
  BY <1>2, StopSound, StopExact
<1> HIDE DEF y
<1>4. Typed(x) /\ Sound(x) /\ Exact(log, x)
  BY <1>3, UpdateStateSound, UpdateStateExact
<1> HIDE DEF x
<1> QED
  BY <1>1, <1>4, EnableExact

\* ... and the program allows it again.
LEMMA EnableNetworkExact ==
    ASSUME Ready, EnableNetwork
    PROVE  Exact(log', client')
BY ReadyIs, EnableExact DEF EnableNetwork, Client, Ready

\* A new process has what is on disk.
LEMMA RestartExact ==
    ASSUME Ready, Restart
    PROVE  Exact(log', client')
<1> DEFINE u == Unanswered(client)
           x == Fresh(u)
<1>1. client' = x /\ log' = log
  BY DEF Restart
<1>2. Typed(u) /\ Exact(log, u)
  BY ReadyIs, UnansweredSound, UnansweredExact DEF Ready
<1> HIDE DEF u
<1>3. Only(x, u, NothingKept) /\ Started(x)
  BY <1>2, Zenon DEF Fresh, Only, Typed, Shape, Fields, NothingKept, Started
<1> HIDE DEF x
<1>4. /\ x.cache = u.cache /\ x.keys = u.keys /\ x.token = u.token /\ x.writes = u.writes
      /\ x.savedFree = u.savedFree /\ x.lastSnap = u.lastSnap /\ x.leftOut = {}
      /\ ~x.on /\ x.view = NewView({}) /\ x.limbo = <<>> /\ x.listening = <<>>
      /\ Quiet(x) /\ x.stream # "Open"
  BY <1>3 DEF Only, Fields, NothingKept, Started, Quiet
<1>5. Net(log, x)
  <2>1. DOMAIN x.listening = {}
    BY <1>4
  <2> QED
    BY <1>4, <2>1, QuietNet
<1>6. Disk(log, x)
  <2>1. SentOnes(log, x) /\ CacheTrue(log, x)
    BY <1>2, <1>4 DEF Exact, Disk, SentOnes, CacheTrue
  <2>2. KeysAt(log, x, x.token)
    BY <1>2, <1>4 DEF Exact, Disk, KeysAt
  <2> QED
    BY <1>4, <2>1, <2>2 DEF Disk
<1>7. Looking(x) /\ Showing(x)
  BY <1>4 DEF Looking, Showing, NewView
<1>8. Leaving(log, x)
  BY <1>2, <1>4 DEF Exact, Leaving, Dated
<1> QED
  BY <1>1, <1>5, <1>6, <1>7, <1>8 DEF Exact

\* The stream is lost, ...
LEMMA StreamFailsExact ==
    ASSUME Ready, StreamFails
    PROVE  Exact(log', client')
<1>1. client' = Close(client, FALSE) /\ log' = log
  BY DEF StreamFails
<1>2. Typed(client) /\ Clock(client) /\ ~client.broken /\ Exact(log, client)
  BY ReadyIs DEF Sound, Runs, Running, Ready
<1> QED
  BY <1>1, <1>2, CloseExact

\* ... or closed when nothing was watched for a while.
LEMMA IdleTimeoutExact ==
    ASSUME Ready, IdleTimeout
    PROVE  Exact(log', client')
<1>1. client' = Close(client, TRUE) /\ log' = log /\ client.idle
  BY DEF IdleTimeout, Client
<1>2. Typed(client) /\ Clock(client) /\ ~client.broken /\ Exact(log, client)
  BY ReadyIs DEF Sound, Runs, Running, Ready
<1>3. DOMAIN client.listening = {}
  BY <1>1, ReadyIs DEF Sound, Runs, Running, Flowing, Wired
<1> QED
  BY <1>1, <1>2, <1>3, CloseExact

\* The online timer.
LEMMA OnlineTimeoutExact ==
    ASSUME Ready, OnlineTimeout
    PROVE  Exact(log', client')
<1> DEFINE y == [client EXCEPT !.timer = FALSE]
           z == SetOnline(y, "Offline")
           x == Require(z, client.online = "Unknown")
<1>1. client' = x /\ log' = log
  BY DEF OnlineTimeout, Client
<1>2. Typed(client) /\ Only(y, client, {"timer"}) /\ y["timer"] = FALSE
  BY ReadyIs DEF Only, Typed, Shape, Fields
<1> HIDE DEF y
<1>3. y["timer"] \in Client_["timer"]
  BY <1>2, ClientIs
<1>4. Typed(y) /\ SameView(y, client)
  BY <1>2, <1>3, TypedOnly, SameViewOnly DEF Fields
<1>5. /\ Typed(z) /\ Only(z, y, {"online", "raised", "view"}) /\ SameView(z, y)
      /\ z.view.synced = y.view.synced
  BY <1>4, SetOnlineTyped, SetOnlineView
<1> HIDE DEF z
<1>6. Only(x, z, {"broken"})
  BY <1>5, RequireTyped
<1> HIDE DEF x
<1>7. SameView(x, z)
  BY <1>6, SameViewOnly
<1>8. SameView(x, client)
  <2>1. SameView(x, y)
    BY <1>5, <1>7, SameViewTrans
  <2> QED
    BY <1>4, <2>1, SameViewTrans
<1>9. SameBooks(x, client) /\ x.keys = client.keys /\ SameDisk(x, client) /\ x.limbo = client.limbo
  BY <1>2, <1>5, <1>6 DEF SameBooks, SameDisk, Only, Fields
<1>10. Net(log, x)
  BY <1>9, ReadyIs, SameBooksNet
<1> QED
  BY <1>1, <1>8, <1>9, <1>10, SameExact DEF Ready

-----------------------------------------------------------------------------
(***************************************************************************)
(* The stream opens.                                                       *)
(***************************************************************************)

\* A target that was asked for is so when only other targets have changed.
LEMMA AskedSame ==
    ASSUME NEW c, NEW x, NEW t \in Watched, SameTarget(x, c, t), AskedFor(c, t)
    PROVE  AskedFor(x, t)
<1>1. /\ Some(x.incoming, Said("reset", t)) <=> Some(c.incoming, Said("reset", t))
      /\ Some(x.requests, Asks(t)) <=> Some(c.requests, Asks(t))
      /\ \A v : Some(x.requests, Outdated(t, v)) <=> Some(c.requests, Outdated(t, v))
  BY MailSets DEF SameTarget, SameMail, SameAsked
<1> QED
  BY <1>1 DEF SameTarget, SamePlace, AskedFor

\* All targets are asked for.
LEMMA AllAsked ==
    ASSUME NEW c, Typed(c), Counted(c), c.agg = <<>>, c.requests = <<>>, c.incoming = <<>>,
           c.serving = <<>>
    PROVE  LET ask(t, y) == Send(y, t, TRUE, y.listening[t])
               x == FoldSet(ask, c, DOMAIN c.listening)
           IN  /\ Rewatches(c, x) /\ x.listening = c.listening
               /\ \A t \in DOMAIN c.listening : AskedFor(x, t)
               /\ \A t \in Watched \ DOMAIN c.listening : ~Some(x.requests, Asks(t))
<1> DEFINE p == [goal |-> "exact", of |-> "ask", from |-> c]
           S == DOMAIN c.listening
           ask(t, y) == Send(y, t, TRUE, y.listening[t])
           f == FoldSet(ask, c, S)
<1>1. S \subseteq Watched /\ IsFiniteSet(S)
  BY FieldTypes, PartialIs
<1>2. FoldInv(p, {}, c)
  <2>1. Rewatches(c, c)
    BY OnlySame DEF Rewatches
  <2>2. ASSUME NEW t PROVE t \notin DOMAIN c.agg /\ ~Some(c.requests, Asks(t))
    BY NoneIs
  <2> QED
    BY <2>1, <2>2 DEF FoldInv, ExactKept
<1>3. ASSUME NEW r \in SUBSET S, NEW t \in S \ r, NEW y, FoldInv(p, r, y)
      PROVE  FoldInv(p, r \cup {t}, FoldStep(p, t, y))
  <2> DEFINE z == Send(y, t, TRUE, y.listening[t])
  <2>1. /\ Rewatches(c, y) /\ y.listening = c.listening /\ Counted(y) /\ Typed(y)
        /\ \A u \in r : AskedFor(y, u)
        /\ \A u \in Watched \ r : u \notin DOMAIN y.agg /\ ~Some(y.requests, Asks(u))
    BY <1>3 DEF FoldInv, ExactKept, Rewatches
  <2>2. t \in Watched /\ t \in DOMAIN y.listening /\ t \notin r
    BY <1>1, <2>1
  <2>3. y.listening[t] \in Versions
    BY <2>1, <2>2, FieldTypes, PartialIs
  <2>4. y.incoming = <<>> /\ y.serving = <<>>
    BY <2>1 DEF Rewatches, Only, Fields
  <2>5. Known(y, t)
    <3>1. ~Some(y.incoming, Said("reset", t)) /\ Ends(y.incoming, Said("reset", t), Said("removed", t))
      BY <2>4, NoneIs
    <3>2. t \notin DOMAIN y.serving
      BY <2>4
    <3> QED
      BY <2>2, <3>1, <3>2 DEF Known
  <2>6. Typed(z) /\ Only(z, y, {"agg", "requests", "idle"})
    BY <2>1, <2>2, <2>3, SendTyped
  <2>7. FoldStep(p, t, y) = z
    BY DEF FoldStep
  <2>8. Only(y, y, {"listening"})
    BY <2>1, OnlySame
  <2>9. AskedFor(z, t)
    BY <2>1, <2>2, <2>5, <2>8, SendAsks
  <2>10. ASSUME NEW u \in Watched, u # t PROVE SameTarget(z, y, u)
    <3>1. PICK add \in BOOLEAN : add = TRUE
      OBVIOUS
    <3>2. SameTarget(Send(y, t, add, y.listening[t]), y, u)
      BY <2>1, <2>2, <2>3, <2>10, SendElse
    <3> QED
      BY <3>1, <3>2
  <2> HIDE DEF z
  <2>11. z.listening = c.listening /\ Rewatches(c, z)
    <3>1. z.listening = y.listening
      BY <2>6 DEF Only, Fields
    <3> QED
      BY <2>1, <2>6, <3>1 DEF Rewatches, Only
  <2>12. ASSUME NEW u \in r \cup {t} PROVE AskedFor(z, u)
    BY <1>1, <2>1, <2>2, <2>9, <2>10, AskedSame
  <2>13. ASSUME NEW u \in Watched \ (r \cup {t})
         PROVE  u \notin DOMAIN z.agg /\ ~Some(z.requests, Asks(u))
    <3>1. SameTarget(z, y, u)
      BY <2>10
    <3>2. Some(z.requests, Asks(u)) <=> Some(y.requests, Asks(u))
      BY <3>1, MailSets DEF SameTarget, SameAsked
    <3> QED
      BY <2>1, <3>1, <3>2 DEF SameTarget, SamePlace
  <2>14. Counted(z)
    <3>1. ASSUME NEW u \in Watched
          PROVE  Entry(z, u).outstanding >= Due(z.incoming, z.requests, u)
      <4>1. CASE u = t
        <5>1. Due(z.incoming, z.requests, t) \in Nat
          BY <2>6, FieldTypes, DueIs
        <5> QED
          BY <2>9, <4>1, <5>1 DEF AskedFor
      <4>2. CASE u # t
        BY <2>1, <2>10, <4>2 DEF SameTarget, SamePlace, Counted
      <4> QED
        BY <4>1, <4>2
    <3> QED
      BY <3>1 DEF Counted
  <2> QED
    BY <2>7, <2>11, <2>12, <2>13, <2>14 DEF FoldInv, ExactKept
<1>4. FoldInv(p, S, FoldedSet(p, c, S))
  <2> HIDE DEF p, S
  <2> QED
    BY <1>1, <1>2, <1>3, FoldKeeps
<1>5. f = FoldedSet(p, c, S)
  BY DEF FoldSet, MapThenFoldSet, FoldedSet, FoldStep
<1>6. /\ Rewatches(c, f) /\ f.listening = c.listening /\ \A t \in S : AskedFor(f, t)
      /\ \A t \in Watched \ S : ~Some(f.requests, Asks(t))
  <2> HIDE DEF f
  <2> QED
    BY <1>4, <1>5 DEF FoldInv, ExactKept
<1> QED
  BY <1>6

\* OnWatchStreamOpen.
LEMMA StreamOpensExact ==
    ASSUME Ready, StreamOpens
    PROVE  Exact(log', client')
<1> DEFINE open == [client EXCEPT !.stream = "Open"]
           ask(t, c) == Send(c, t, TRUE, c.listening[t])
           x == FoldSet(ask, open, DOMAIN open.listening)
<1>1. Typed(client) /\ Only(open, client, {"stream"}) /\ open["stream"] = "Open"
  BY ReadyIs DEF Only, Typed, Shape, Fields
<1>2. client' = x /\ log' = log /\ client.stream = "Starting"
  BY <1>1 DEF StreamOpens, Client, Only, Fields
<1>3. Quiet(client) /\ Counted(client)
  BY <1>2, ReadyIs DEF Sound, Runs, Running, Flowing, Wired
<1> HIDE DEF open
<1>4. open["stream"] \in Client_["stream"]
  BY <1>1, ClientIs
<1>5. Typed(open)
  BY <1>1, <1>4, TypedOnly DEF Fields
<1>6. /\ open.listening = client.listening /\ open.agg = <<>> /\ open.requests = <<>>
      /\ open.incoming = <<>> /\ open.serving = <<>> /\ open.updates = <<>> /\ open.resets = {}
      /\ client.agg = <<>> /\ client.requests = <<>> /\ client.incoming = <<>>
  BY <1>1, <1>3 DEF Only, Fields, Quiet
<1>7. Counted(open)
  BY <1>3, <1>6 DEF Counted, Entry
<1>8. /\ Rewatches(open, x) /\ x.listening = open.listening
      /\ \A t \in DOMAIN open.listening : AskedFor(x, t)
      /\ \A t \in Watched \ DOMAIN open.listening : ~Some(x.requests, Asks(t))
  BY <1>5, <1>6, <1>7, AllAsked
<1> HIDE DEF x
<1>9. Typed(x) /\ Only(x, open, {"listening", "agg", "requests", "idle"})
  BY <1>8 DEF Rewatches
<1>10. /\ x.incoming = <<>> /\ x.serving = <<>> /\ x.updates = <<>> /\ x.resets = {}
       /\ x.received = client.received /\ x.on = client.on /\ x.view = client.view
       /\ x.limbo = client.limbo
  BY <1>1, <1>6, <1>9 DEF Only, Fields
<1>11. ASSUME NEW t \in Watched PROVE Right(log, x, t)
  <2>1. CASE t \in DOMAIN client.listening
    <3>1. Sees(log, client, t)
      BY <2>1, ReadyIs DEF Net, Right
    <3>2. RemoteKeys(x, t) = RemoteKeys(client, t)
      BY <1>10 DEF RemoteKeys
    <3>3. Sees(log, x, t)
      BY <1>6, <1>8, <3>1, <3>2 DEF Sees
    <3> QED
      BY <1>6, <1>8, <2>1, <3>3, AskedRight
  <2>2. CASE t \notin DOMAIN client.listening
    <3>1. ~Some(x.incoming, Said("reset", t)) /\ Ends(x.incoming, Said("reset", t), Said("removed", t))
      BY <1>10, NoneIs
    <3>2. t \notin DOMAIN x.serving /\ t \notin DOMAIN x.listening
      BY <1>6, <1>8, <1>10, <2>2
    <3>3. Ends(x.requests, Asks(t), Drops(t))
      BY <1>6, <1>8, <2>2 DEF Ends, Some
    <3>4. Known(x, t)
      BY <3>1, <3>2, <3>3 DEF Known
    <3> QED
      BY <3>2, <3>4 DEF Right
  <2> QED
    BY <2>1, <2>2
<1>12. Telltale(log, x)
  <2>1. x.keys = client.keys
    BY <1>1, <1>9 DEF Only, Fields
  <2>2. x.updates = client.updates /\ x.resets = client.resets /\ x.incoming = client.incoming
    BY <1>3, <1>10 DEF Quiet
  <2> QED
    BY <2>1, <2>2, ReadyIs, TelltaleSame DEF Net
<1>13. Net(log, x)
  BY <1>11, <1>12 DEF Net
<1>14. SameView(x, client)
  BY <1>10 DEF SameView
<1>15. SameDisk(x, client)
  BY <1>1, <1>6, <1>8, <1>9 DEF SameDisk, Only, Fields
<1> QED
  BY <1>2, <1>10, <1>13, <1>14, <1>15, SameExact DEF Ready

-----------------------------------------------------------------------------
(***************************************************************************)
(* A query is stopped and listened to.                                     *)
(***************************************************************************)
\* The books of a query that is forgotten.
LEMMA ForgottenSound ==
    ASSUME NEW c, Typed(c), Runs(c), LookedUp(c), Query \notin DOMAIN c.listening
    PROVE  LET y == Unviewed(c)
           IN  /\ Typed(y) /\ Sound(y) /\ Only(y, c, Viewed)
               /\ y.on = FALSE /\ y.view = NewView({}) /\ y.leftOut = {}
               /\ Forget(c) = FoldSet(RemoveLimboTarget, y, c.view.limbo)
<1> DEFINE y == Unviewed(c)
<1>1. /\ Only(y, c, Viewed) /\ y["on"] = FALSE /\ y["raised"] = FALSE
      /\ y["view"] = NewView({}) /\ y["leftOut"] = {} /\ y["limboFree"] = 0
  BY UnviewedIs
<1>2. Forget(c) = FoldSet(RemoveLimboTarget, y, c.view.limbo)
  BY DEF Forget, Unviewed
<1> HIDE DEF y
<1>3. NewView({}) \in ViewType
  BY DEF NewView, ViewType, NotShown, ViewDoc, Values
<1>4. Typed(y)
  <2>1. \A f \in Viewed : y[f] \in Client_[f]
    BY <1>1, <1>3, ClientIs, ZeroVersion DEF Viewed
  <2> QED
    BY <1>1, <2>1, TypedOnly DEF Fields, Viewed
<1>6. /\ y.listening = c.listening /\ y.requests = c.requests /\ y.incoming = c.incoming
      /\ y.agg = c.agg /\ y.resets = c.resets /\ y.received = c.received
      /\ y.stream = c.stream /\ y.idle = c.idle /\ y.serving = c.serving
      /\ y.timer = c.timer /\ y.failed = c.failed /\ y.online = c.online /\ y.limbo = c.limbo
      /\ y.broken = c.broken /\ y.updates = c.updates
  BY <1>1 DEF Only, Fields, Viewed
<1>7. \A t \in DOMAIN c.listening : /\ Entry(y, t) = Entry(c, t)
                                    /\ RemoteKeys(y, t) = RemoteKeys(c, t)
  BY <1>6 DEF Entry, RemoteKeys
<1>8. Gathers(y)
  BY <1>6, <1>7 DEF Runs, Running, Flowing, Gathers, Gotten
<1>9. Counted(y)
  BY <1>6 DEF Runs, Running, Flowing, Counted, Entry
<1>10. /\ Wired(y) /\ Ordered(y) /\ Blocked(y) /\ Resetting(y) /\ Pressing(y) /\ Clock(y)
       /\ ~y.broken
  BY <1>6 DEF Runs, Running, Flowing, Wired, Quiet, Ordered, Blocked, Resetting, Pressing, Clock
<1>11. LookedUp(y)
  BY <1>6 DEF LookedUp
<1>12. Linked(y)
  BY <1>1, <1>6 DEF Linked
<1>13. Sound(y)
  BY <1>8, <1>9, <1>10, <1>11, <1>12 DEF Sound, Runs, Running, Flowing
<1> QED
  BY <1>1, <1>2, <1>4, <1>13 DEF y

\* A query that is forgotten shows nothing, and is kept as it was on disk.
LEMMA ForgetExact ==
    ASSUME NEW lg, NEW c, Typed(c), Runs(c), LookedUp(c), Query \notin DOMAIN c.listening,
           Net(lg, c), SentOnes(lg, c), CacheTrue(lg, c), KeysAt(lg, c, c.token),
           DOMAIN c.limbo \subseteq c.view.limbo, c.savedFree <= c.token, c.token <= c.lastSnap
    PROVE  Exact(lg, Forget(c))
<1> DEFINE y == Unviewed(c)
           x == FoldSet(RemoveLimboTarget, y, c.view.limbo)
<1>1. /\ Typed(y) /\ Sound(y) /\ Only(y, c, Viewed)
      /\ y.on = FALSE /\ y.view = NewView({}) /\ y.leftOut = {} /\ Forget(c) = x
  BY ForgottenSound
<1> HIDE DEF y
<1>2. /\ y.listening = c.listening /\ y.requests = c.requests /\ y.incoming = c.incoming
      /\ y.agg = c.agg /\ y.resets = c.resets /\ y.received = c.received
      /\ y.stream = c.stream /\ y.serving = c.serving /\ y.limbo = c.limbo
      /\ y.updates = c.updates /\ y.keys = c.keys /\ y.cache = c.cache /\ y.token = c.token
      /\ y.writes = c.writes /\ y.savedFree = c.savedFree /\ y.lastSnap = c.lastSnap
  BY <1>1 DEF Only, Fields, Viewed
<1>3. ASSUME NEW t \in Watched PROVE Right(lg, y, t)
  <2>1. t \in DOMAIN c.listening => RemoteKeys(y, t) = RemoteKeys(c, t)
    BY <1>2 DEF RemoteKeys
  <2>2. Entry(y, t) = Entry(c, t)
    BY <1>2 DEF Entry
  <2>3. SameTarget(y, c, t)
    BY <1>2, <2>1, <2>2, SameElse
  <2> QED
    BY <2>3, RightSame DEF Net
<1>4. Net(lg, y)
  BY <1>2, <1>3, TelltaleSame DEF Net
<1>5. c.view.limbo \in SUBSET Docs
  BY FieldTypes DEF ViewType
<1>6. /\ Net(lg, x) /\ SameView(x, y) /\ SameDisk(x, y)
      /\ DOMAIN x.limbo \subseteq DOMAIN y.limbo \ c.view.limbo
  BY <1>1, <1>4, <1>5, RemoveAllExact
<1> HIDE DEF x
<1>7. Disk(lg, y)
  BY <1>1, <1>2 DEF Disk, SentOnes, CacheTrue, KeysAt
<1>8. Disk(lg, x)
  BY <1>6, <1>7, DiskSame
<1>9. /\ ~x.on /\ x.view.synced = {} /\ x.view.limbo = {} /\ x.view.sync # "Synced"
      /\ DOMAIN x.limbo = {}
  BY <1>1, <1>2, <1>6 DEF SameView, NewView
<1>10. Looking(x) /\ Showing(x)
  BY <1>9 DEF Looking, Showing
<1>11. Leaving(lg, x)
  <2>1. Leaving(lg, y)
    BY <1>1, <1>2 DEF Leaving, Dated
  <2> QED
    BY <1>6, <2>1, LeavingSame
<1> QED
  BY <1>1, <1>6, <1>8, <1>10, <1>11 DEF Exact

\* The listener goes.
LEMMA StopListeningExact ==
    ASSUME Ready, StopListening
    PROVE  Exact(log', client')
<1> DEFINE token == client.listening[Query]
           saved == Saving(client, token, client.limboFree)
           left == StopWatching(saved, Query)
<1>1. client' = Forget(left) /\ log' = log /\ client.on
  BY DEF StopListening, Client, Saving
<1>2. Typed(client) /\ Sound(client) /\ Query \in DOMAIN client.listening
  BY <1>1, ReadyIs
<1>3. token \in Versions /\ client.limboFree \in Versions
  BY <1>2, FieldTypes, PartialIs
<1>4. Query \in Watched
  BY DEF Watched
<1>5. KeysAt(log, client, token) /\ client.limboFree <= token /\ token <= client.lastSnap
  BY <1>1, ReadyIs DEF Disk, Leaving, Dated
<1> HIDE DEF token
<1>6. Typed(saved) /\ Only(saved, client, {"token", "savedFree"})
  BY <1>2, <1>3, SavingTyped
<1>7. saved.token = token /\ saved.savedFree = client.limboFree
  BY <1>2, <1>3, SavingTyped
<1> HIDE DEF saved
<1>8. SameState(saved, client) /\ saved.listening = client.listening /\ saved.limbo = client.limbo
      /\ saved.view = client.view /\ saved.cache = client.cache /\ saved.keys = client.keys
      /\ saved.writes = client.writes /\ saved.lastSnap = client.lastSnap
  BY <1>6 DEF SameState, SameBooks, Only, Fields
<1>9. Sound(saved) /\ Net(log, saved)
  BY <1>2, <1>8, SameStateSound, SameBooksNet, ReadyIs DEF SameState
<1>10. /\ Typed(left) /\ left.listening = Without(saved.listening, Query)
       /\ Only(left, saved, {"listening", "broken", "agg", "requests", "idle", "online", "raised",
                            "view", "timer", "failed"})
       /\ left.view.limbo = saved.view.limbo
  BY <1>4, <1>6, StopWatchingTyped
<1>11. Runs(left) /\ Net(log, left)
  BY <1>2, <1>4, <1>6, <1>8, <1>9, StopWatchingRuns, StopWatchingNet DEF Sound
<1> HIDE DEF left
<1>12. /\ left.limbo = saved.limbo /\ left.received = saved.received /\ left.token = token
       /\ DOMAIN left.listening = DOMAIN saved.listening \ {Query}
       /\ left.cache = client.cache /\ left.keys = client.keys /\ left.writes = client.writes
       /\ left.savedFree = client.limboFree /\ left.lastSnap = client.lastSnap
  BY <1>7, <1>8, <1>10 DEF Only, Fields, Without, Restrict
<1>13. LookedUp(left)
  <2>1. \A d \in DOMAIN saved.limbo : saved.limbo[d] # Query
    BY <1>6, FieldTypes, PartialIs, LookupIs
  <2> QED
    BY <1>9, <1>12, <2>1 DEF Sound, LookedUp
<1>14. SentOnes(log, left) /\ CacheTrue(log, left) /\ KeysAt(log, left, left.token)
  <2>1. SentOnes(log, client) /\ CacheTrue(log, client)
    BY ReadyIs DEF Disk
  <2> QED
    BY <1>5, <1>12, <2>1, Zenon DEF SentOnes, CacheTrue, KeysAt
<1>15. DOMAIN left.limbo \subseteq left.view.limbo
  BY <1>8, <1>10, <1>12, ReadyIs DEF Looking
<1>16. Exact(log, Forget(left))
  BY <1>5, <1>10, <1>11, <1>12, <1>13, <1>14, <1>15, ForgetExact
<1> QED
  BY <1>1, <1>16

\* Listen, before the view is emitted.
Listened(c) == Starting(StartWatching(c, Query, c.token), c)

\* The books of a query that is listened to.
LEMMA ListenedSound ==
    ASSUME NEW c, Typed(c), Sound(c), ~c.on, Query \notin DOMAIN c.agg
    PROVE  LET start == Listened(c)
           IN  /\ Typed(start) /\ Sound(start) /\ start.on = TRUE /\ start.view = NewView(c.keys)
               /\ start.leftOut = LeftOut(c) /\ start.limboFree = c.savedFree
               /\ Only(start, StartWatching(c, Query, c.token), StartFields)
<1> DEFINE watched == StartWatching(c, Query, c.token)
           start == Listened(c)
<1>2. Typed(c) /\ c.token \in Versions /\ c.keys \in SUBSET Docs
  BY FieldTypes
<1>3. Query \in Watched /\ Query \notin DOMAIN c.agg
  BY DEF Watched
<1>4. Query \notin DOMAIN c.listening
  BY DEF Sound, Linked
<1>5. /\ Typed(watched) /\ DOMAIN watched.listening = DOMAIN c.listening \cup {Query}
      /\ Only(watched, c, {"listening", "agg", "requests", "idle", "online", "raised", "view",
                           "timer", "broken", "stream", "updates", "resets"})
  BY <1>2, <1>3, StartWatchingTyped
<1>6. Runs(watched)
  BY <1>2, <1>3, StartWatchingRuns DEF Sound
<1>7. DOMAIN Entry(watched, Query).changes = {}
  BY <1>2, <1>3, <1>4, NewlyWatched
<1>8. /\ Typed(start) /\ Only(start, watched, StartFields)
      /\ start.on = TRUE /\ start.view = NewView(c.keys)
      /\ start.leftOut = LeftOut(c) /\ start.limboFree = c.savedFree
  BY <1>2, <1>5, StartingTyped DEF Listened
<1> HIDE DEF start, watched
<1>11. /\ start.listening = watched.listening /\ start.agg = watched.agg
       /\ start.requests = watched.requests /\ start.incoming = watched.incoming
       /\ start.resets = watched.resets /\ start.received = watched.received
       /\ start.limbo = watched.limbo /\ start.stream = watched.stream
       /\ start.idle = watched.idle /\ start.updates = watched.updates
       /\ start.serving = watched.serving /\ start.timer = watched.timer
       /\ start.failed = watched.failed /\ start.online = watched.online
       /\ start.broken = watched.broken
  BY <1>8 DEF Only, Fields, StartFields
<1>12. Runs(start)
  <2>1. \A u : Entry(start, u) = Entry(watched, u)
    BY <1>11 DEF Entry
  <2>2. Counted(start)
    BY <1>6, <1>11, <2>1 DEF Runs, Running, Flowing, Counted
  <2>3. Gathers(start)
    <3>1. ASSUME NEW u \in DOMAIN start.listening, Entry(start, u).outstanding = 0
          PROVE  Gotten(start, u)
      <4>1. CASE u = Query
        BY <1>7, <2>1, <4>1 DEF Gotten
      <4>2. CASE u # Query
        <5>1. RemoteKeys(start, u) = RemoteKeys(watched, u)
          BY <1>11, <4>2 DEF RemoteKeys
        <5> QED
          BY <1>6, <1>11, <2>1, <3>1, <5>1 DEF Runs, Running, Flowing, Gathers, Gotten
      <4> QED
        BY <4>1, <4>2
    <3> QED
      BY <3>1 DEF Gathers
  <2>4. /\ Wired(start) /\ Ordered(start) /\ Blocked(start) /\ Resetting(start)
        /\ Pressing(start) /\ Clock(start) /\ ~start.broken
    BY <1>6, <1>11 DEF Runs, Running, Flowing, Wired, Quiet, Ordered, Blocked, Resetting,
                       Pressing, Clock
  <2> QED
    BY <2>2, <2>3, <2>4 DEF Runs, Running, Flowing
<1>13. /\ start.limbo = c.limbo /\ start.received = c.received
       /\ DOMAIN start.listening = DOMAIN c.listening \cup {Query} /\ start.on = TRUE
  BY <1>5, <1>8, <1>11 DEF Only, Fields, StartFields
<1>14. LookedUp(start) /\ Linked(start)
  BY <1>13 DEF Sound, LookedUp, Linked
<1> QED
  BY <1>8, <1>12, <1>14 DEF Sound, start, watched

\* Somebody listens: the view starts from what is on disk.
LEMMA ListenExact ==
    ASSUME Ready, ~Hasty, Listen
    PROVE  Exact(log', client')
<1> DEFINE token == client.token
           watched == StartWatching(client, Query, token)
           start == Listened(client)
           change == [added |-> {}, modified |-> {}, removed |-> {},
                      current |-> FALSE, token |-> token]
<1>1. client' = Emit(start, change) /\ log' = log /\ ~client.on /\ Query \notin DOMAIN client.agg
  BY DEF Listen, Listened, Starting
<1>2. Typed(client) /\ Sound(client) /\ Query \notin DOMAIN client.listening /\ Len(log) \in Nat
  BY <1>1, ReadyIs
<1>3. token \in Versions
  BY <1>2, FieldTypes
<1>4. Query \in Watched /\ Query \notin client.received
  BY <1>2, FieldTypes, LookupIs DEF Watched
<1>5. KeysAt(log, client, token) /\ SentOnes(log, client) /\ CacheTrue(log, client)
  BY ReadyIs DEF Disk
<1>6. change \in ChangeType /\ change.modified = {} /\ change.added = {} /\ change.removed = {}
      /\ change.current = FALSE
  BY <1>3 DEF ChangeType
<1> HIDE DEF change
<1>7. /\ Typed(start) /\ Sound(start) /\ start.on = TRUE /\ start.view = NewView(client.keys)
      /\ start.leftOut = LeftOut(client) /\ start.limboFree = client.savedFree
      /\ Only(start, watched, StartFields)
  BY <1>1, <1>2, ListenedSound
<1>8. Known(client, Query)
  BY <1>4, ReadyIs DEF Net, Right
<1>9. /\ Typed(watched) /\ Runs(watched) /\ watched.listening = With(client.listening, Query, token)
      /\ Only(watched, client, {"listening", "agg", "requests", "idle", "online", "raised", "view",
                                "timer", "broken", "stream", "updates", "resets"})
      /\ watched.stream # "Open" => Quiet(watched)
      /\ watched.stream = "Open" =>
            /\ AskedFor(watched, Query) /\ watched.updates = client.updates
            /\ watched.resets = client.resets
            /\ \A u \in Watched \ {Query} : SameTarget(watched, client, u)
  BY <1>1, <1>2, <1>3, <1>4, <1>8, StartWatchingAsks DEF Sound
<1> HIDE DEF watched, start, token
<1>10. /\ start.listening = watched.listening /\ start.agg = watched.agg
       /\ start.requests = watched.requests /\ start.incoming = watched.incoming
       /\ start.resets = watched.resets /\ start.received = watched.received
       /\ start.limbo = watched.limbo /\ start.stream = watched.stream
       /\ start.idle = watched.idle /\ start.updates = watched.updates
       /\ start.serving = watched.serving
  BY <1>7 DEF Only, Fields, StartFields
<1>11. /\ start.received = client.received /\ start.keys = client.keys /\ start.token = token
       /\ start.cache = client.cache /\ start.writes = client.writes /\ start.limbo = client.limbo
       /\ start.incoming = client.incoming /\ start.savedFree = client.savedFree
       /\ start.lastSnap = client.lastSnap
  BY <1>7, <1>9 DEF Only, Fields, StartFields, token
<1>12. /\ DOMAIN start.listening = DOMAIN client.listening \cup {Query}
       /\ start.listening[Query] = token
       /\ \A u \in DOMAIN client.listening : u # Query => start.listening[u] = client.listening[u]
  BY <1>9, <1>10 DEF With, Over
<1>13. start.view.synced = client.keys /\ start.view.limbo = {}
  BY <1>7 DEF NewView
<1>14. ASSUME NEW u \in DOMAIN start.listening PROVE Sees(log, start, u)
  <2>1. CASE u = Query
    <3>1. RemoteKeys(start, Query) = client.keys
      BY <1>4, <1>7, <1>11, <1>13 DEF RemoteKeys
    <3> QED
      BY <1>5, <1>12, <2>1, <3>1 DEF Sees, KeysAt
  <2>2. CASE u # Query
    <3>1. u \in DOMAIN client.listening /\ u \in Watched
      BY <1>2, <1>12, <2>2, VersionsOf
    <3>2. Sees(log, client, u)
      BY <3>1, ReadyIs DEF Net, Right
    <3>3. RemoteKeys(start, u) = RemoteKeys(client, u)
      BY <1>11, <2>2 DEF RemoteKeys
    <3> QED
      BY <1>12, <2>2, <3>1, <3>2, <3>3 DEF Sees
  <2> QED
    BY <2>1, <2>2
<1>15. Net(log, start)
  <2>1. CASE start.stream # "Open"
    <3>1. Quiet(start)
      BY <1>9, <1>10, <2>1 DEF Quiet
    <3> QED
      BY <1>14, <2>1, <3>1, QuietNet
  <2>2. CASE start.stream = "Open"
    <3>1. AskedFor(start, Query)
      BY <1>9, <1>10, <2>2 DEF AskedFor, Entry
    <3>2. Right(log, start, Query)
      BY <1>4, <1>12, <1>14, <3>1, AskedRight
    <3>3. ASSUME NEW u \in Watched \ {Query} PROVE Right(log, start, u)
      <4>1. SameTarget(watched, client, u)
        BY <1>9, <1>10, <2>2
      <4>2. RemoteKeys(start, u) = RemoteKeys(watched, u) /\ Entry(start, u) = Entry(watched, u)
        BY <1>10 DEF RemoteKeys, Entry
      <4>3. SameTarget(start, watched, u)
        BY <1>10, <4>2, SameElse
      <4>4. SameTarget(start, client, u)
        BY <4>1, <4>3, SameTargetTrans
      <4> QED
        BY <4>4, RightSame, ReadyIs DEF Net
    <3>4. Telltale(log, start)
      BY <1>9, <1>10, <1>11, <2>2, TelltaleSame, ReadyIs DEF Net
    <3> QED
      BY <3>2, <3>3, <3>4 DEF Net
  <2> QED
    BY <2>1, <2>2
<1>16. Disk(log, start)
  BY <1>5, <1>11, <1>12, Zenon DEF Disk, KeysAt, SentOnes, CacheTrue
<1>17. DOMAIN start.limbo = {}
  BY <1>1, <1>11, ReadyIs DEF Looking
<1>18. Only(start, start, {"view"})
  BY <1>7, OnlySame
<1>19. (start.view.synced \cup change.added) \ change.removed = start.keys
  BY <1>6, <1>11, <1>13
<1>20. Leaving(log, start)
  <2>1. /\ client.savedFree \in Nat /\ token \in Nat /\ client.lastSnap \in Nat
        /\ client.savedFree <= token /\ token <= client.lastSnap
        /\ \A d \in Docs : client.cache[d].version \in Nat
    BY <1>2, VersionsOf, ReadyIs DEF Leaving, Dated, token
  <2>2. Dated(start)
    BY <1>7, <1>11, <1>12, <2>1 DEF Dated
  <2>3. ASSUME NEW d \in LeftOut(client) PROVE Omitted(log, start, d)
    <3>1. /\ d \in Docs /\ d \notin client.keys /\ ~LocalDoc(client, d).local
          /\ client.cache[d].version <= client.savedFree
      BY DEF LeftOut
    <3>2. start.view.docs[d] = NotShown
      BY <1>7, <3>1 DEF NewView
    <3>3. \A i \in DOMAIN client.writes : client.writes[i].doc # d
      BY <3>1 DEF LocalDoc
    <3>4. Truth(log, d, token) = Missing
      <4>1. d \notin Have(log, Query, token)
        BY <1>5, <3>1 DEF KeysAt
      <4> QED
        BY <3>1, <4>1 DEF Have, Query
    <3>5. token \in client.cache[d].version .. client.lastSnap
      BY <2>1, <3>1
    <3>6. Gone(log, start, d)
      BY <1>11, <3>4, <3>5 DEF Gone
    <3> QED
      BY <1>7, <1>11, <3>1, <3>2, <3>3, <3>6 DEF Omitted
  <2> QED
    BY <1>7, <2>2, <2>3 DEF Leaving
<1>21. Exact(log, Emit(start, change))
  BY <1>2, <1>6, <1>7, <1>11, <1>13, <1>15, <1>16, <1>17, <1>18, <1>19, <1>20, EmitExact
<1> QED
  BY <1>1, <1>21

-----------------------------------------------------------------------------
(***************************************************************************)
(* Reading what is on its way.                                             *)
(***************************************************************************)

\* The client when it has read the next message, and knows that it is online.
LEMMA OnlineIs ==
    ASSUME Ready, client.incoming # <<>>
    PROVE  /\ client.incoming \in Seq(Message) /\ Head(client.incoming) \in Message
           /\ client.requests \in Seq(RequestType)
           /\ Typed(Online) /\ Online.incoming = Tail(client.incoming) /\ client.stream = "Open"
           /\ Only(Online, client, {"incoming", "online", "raised", "view", "timer", "failed"})
           /\ SameView(Online, client) /\ SameDisk(Online, client)
           /\ \A t : /\ RemoteKeys(Online, t) = RemoteKeys(client, t)
                     /\ Entry(Online, t) = Entry(client, t)
<1>1. World /\ Typed(client) /\ Sound(client) /\ Fresher(client, Len(log))
  BY ReadyIs
<1>2. /\ Only(Online, client, {"incoming", "online", "raised", "view", "timer", "failed"})
      /\ Head(client.incoming) \in Message
  BY <1>1, OnlineShown
<1>3. Online.incoming = Tail(client.incoming)
  BY <1>1, OnlineIncoming
<1>4. Typed(Online) /\ Online.stream = "Open"
  BY <1>1, OnlineSound
<1>5. client.stream = "Open"
  BY <1>2, <1>4 DEF Only, Fields
<1>6. SameView(Online, client)
  <2> DEFINE y == [client EXCEPT !.incoming = Tail(@)]
  <2>1. Only(y, client, {"incoming"}) /\ y["incoming"] = Tail(client.incoming)
    BY <1>1 DEF Only, Typed, Shape, Fields
  <2>2. Tail(client.incoming) \in Seq(Message)
    BY <1>1, FieldTypes
  <2> HIDE DEF y
  <2>3. Typed(y)
    <3>1. y["incoming"] \in Client_["incoming"]
      BY <2>1, <2>2, ClientIs
    <3> QED
      BY <1>1, <2>1, <3>1, TypedOnly DEF Fields
  <2>4. SameView(y, client)
    BY <2>1, SameViewOnly
  <2>5. SameView(UpdateState(y, "Online"), y)
    BY <2>3, UpdateStateView
  <2>6. Online = UpdateState(y, "Online")
    BY DEF Online, y
  <2> QED
    BY <2>4, <2>5, <2>6, SameViewTrans
<1>7. SameDisk(Online, client)
  BY <1>2, SameDiskOnly
<1>8. ASSUME NEW t
      PROVE  RemoteKeys(Online, t) = RemoteKeys(client, t) /\ Entry(Online, t) = Entry(client, t)
  <2>1. Online.received = client.received /\ Online.on = client.on /\ Online.agg = client.agg
        /\ Online.view.synced = client.view.synced
    BY <1>2, <1>6 DEF Only, Fields, SameView
  <2> QED
    BY <2>1 DEF RemoteKeys, Entry
<1> QED
  BY <1>1, <1>2, <1>3, <1>4, <1>5, <1>6, <1>7, <1>8, FieldTypes

\* A message says nothing of other targets.
LEMMA OnlineElse ==
    ASSUME Ready, client.incoming # <<>>, Head(client.incoming).kind # "snapshot", NEW u,
           Head(client.incoming) \notin Of(u)
    PROVE  SameTarget(Online, client, u)
<1>1. SameMail(Online.incoming, client.incoming, u)
  BY OnlineIs, MailTail
<1>2. SameAsked(Online.requests, client.requests, u)
  <2>1. Online.requests = client.requests
    BY OnlineIs DEF Only, Fields
  <2> QED
    BY <2>1, MailSame
<1>3. SamePlace(Online, client, u)
  BY OnlineIs DEF SamePlace, Only, Fields
<1>4. Due(Online.incoming, Online.requests, u) = Due(client.incoming, client.requests, u)
  <2>1. u \in Watched => Answers(u) \subseteq Of(u)
    BY MailSets
  <2>2. ASSUME Head(client.incoming) \in Answers(u) PROVE FALSE
    BY <2>2, OnlineIs DEF Answers, Of
  <2>3. World
    BY ReadyIs
  <2> QED
    BY <2>2, <2>3, OnlineDue
<1> QED
  BY <1>1, <1>2, <1>3, <1>4 DEF SameTarget

\* A target is known, or not, as before the message was read.
ReadFrom(x, c, t) ==
    /\ x.incoming = Tail(c.incoming) /\ x.requests = c.requests /\ x.serving = c.serving
    /\ x.stream = c.stream /\ (t \in DOMAIN x.listening <=> t \in DOMAIN c.listening)
    /\ t \in DOMAIN c.listening => /\ x.listening[t] = c.listening[t]
                                   /\ RemoteKeys(x, t) = RemoteKeys(c, t)

\* What the server knows is not changed by reading, ...
LEMMA ReadKnown ==
    ASSUME NEW c, c.incoming \in Seq(Message), c.incoming # <<>>, NEW t, NEW x, ReadFrom(x, c, t),
           Known(c, t), t \in DOMAIN c.agg => t \in DOMAIN x.agg
    PROVE  Known(x, t)
<1>1. Some(x.incoming, Said("reset", t)) => Some(c.incoming, Said("reset", t))
  BY SomeTail DEF ReadFrom
<1>2. Ends(c.incoming, Said("reset", t), Said("removed", t))
        => Ends(x.incoming, Said("reset", t), Said("removed", t))
  BY ThenTail DEF ReadFrom
<1> QED
  BY <1>1, <1>2 DEF Known, ReadFrom

\* ... nor what it will be asked, ...
LEMMA ReadAsking ==
    ASSUME NEW c, c.incoming \in Seq(Message), c.incoming # <<>>, NEW t, NEW x, ReadFrom(x, c, t),
           t \in DOMAIN c.listening, Asking(c, t)
    PROVE  Asking(x, t)
<1>1. /\ Some(x.incoming, Said("reset", t)) => Some(c.incoming, Said("reset", t))
      /\ Some(x.incoming, Said("error", t)) => Some(c.incoming, Said("error", t))
  BY SomeTail DEF ReadFrom
<1>2. Then(x.incoming, Said("reset", t), Answers(t)) => Then(c.incoming, Said("reset", t), Answers(t))
  BY ThenTail DEF ReadFrom
<1> QED
  BY <1>1, <1>2 DEF Asking, ReadFrom

\* ... nor, unless an answer is read, whether the next snapshot brings something.
LEMMA ReadLate ==
    ASSUME NEW c, c.incoming \in Seq(Message), c.incoming # <<>>, NEW t \in Watched, NEW x,
           ReadFrom(x, c, t)
    PROVE  /\ Late(x, t) => Late(c, t)
           /\ Head(c.incoming) \notin Answers(t) => (Late(x, t) <=> Late(c, t))
<1>1. Some(x.requests, Asks(t)) <=> Some(c.requests, Asks(t))
  BY DEF ReadFrom
<1>2. Some(c.incoming, Said("error", t))
        <=> Head(c.incoming) \in Said("error", t) \/ Some(x.incoming, Said("error", t))
  BY SomeTail DEF ReadFrom
<1>3. /\ Behind(x.incoming, Answers(t)) => Behind(c.incoming, Answers(t))
      /\ Head(c.incoming) \notin Answers(t) =>
            (Behind(x.incoming, Answers(t)) <=> Behind(c.incoming, Answers(t)))
  BY BeforeTail DEF ReadFrom
<1>4. Said("error", t) \subseteq Answers(t)
  BY DEF Said, Answers, Message, Single, Filter, Snapshot, Document, News
<1> QED
  BY <1>1, <1>2, <1>3, <1>4 DEF Late

\* A target that is not watched is right.
LEMMA ReadUnwatched ==
    ASSUME NEW lg, NEW c, c.incoming \in Seq(Message), c.incoming # <<>>, NEW t, NEW x,
           ReadFrom(x, c, t), Right(lg, c, t), t \notin DOMAIN c.listening,
           t \in DOMAIN c.agg => t \in DOMAIN x.agg
    PROVE  Right(lg, x, t)
BY ReadKnown DEF Right, ReadFrom

\* One that is not active was told, if at all, by an earlier snapshot.
LEMMA ReadWaiting ==
    ASSUME NEW lg, NEW c, c.incoming \in Seq(Message), c.incoming # <<>>, NEW t \in Watched, NEW x,
           ReadFrom(x, c, t), Right(lg, c, t), t \in DOMAIN c.listening, c.stream = "Open",
           t \in DOMAIN c.agg => t \in DOMAIN x.agg, Entry(x, t) = Entry(c, t), Late(c, t),
           Due(x.incoming, x.requests, t) = Due(c.incoming, c.requests, t),
           DOMAIN c.updates \subseteq DOMAIN x.updates,
           Head(c.incoming) \notin Answers(t) \cup Said("reset", t)
    PROVE  Right(lg, x, t)
<1>1. Known(x, t)
  BY ReadKnown DEF Right
<1>2. Sees(lg, x, t) /\ Flows(lg, c, t)
  BY DEF Right, ReadFrom, Sees
<1>3. Late(x, t)
  BY ReadLate
<1>4. Collects(x, t)
  BY <1>2 DEF Flows, Collects, ReadFrom
<1>5. Asking(x, t)
  BY <1>2, ReadAsking DEF Flows
<1>6. Served(x, t)
  <2>1. Behind(x.incoming, Said("reset", t)) <=> Behind(c.incoming, Said("reset", t))
    BY BeforeTail DEF ReadFrom
  <2>2. Said("error", t) \subseteq Answers(t)
    BY DEF Said, Answers, Message, Single, Filter, Snapshot, Document, News
  <2>3. Some(x.incoming, Said("error", t)) <=> Some(c.incoming, Said("error", t))
    BY <2>2, SomeTail DEF ReadFrom
  <2>4. Holds(x, t) = Holds(c, t)
    BY DEF Holds, ReadFrom
  <2>5. (Resumed(x, t) <=> Resumed(c, t)) /\ (StartedOver(x, t) <=> StartedOver(c, t))
    BY <2>4 DEF Resumed, StartedOver, ReadFrom
  <2>6. Some(x.requests, Asks(t)) <=> Some(c.requests, Asks(t))
    BY DEF ReadFrom
  <2>7. x.serving = c.serving
    BY DEF ReadFrom
  <2> QED
    BY <1>2, <1>3, <2>1, <2>3, <2>5, <2>6, <2>7 DEF Flows, Served
<1> QED
  BY <1>1, <1>2, <1>3, <1>4, <1>5, <1>6 DEF Right, Flows, Brings

\* A target of which nothing is due is not late.
LEMMA NothingLate ==
    ASSUME NEW c, Typed(c), NEW t \in Watched
    PROVE  /\ Due(c.incoming, c.requests, t) = 0
                <=> ~Some(c.requests, Asks(t)) /\ ~Some(c.incoming, Answers(t))
           /\ Due(c.incoming, c.requests, t) = 0
                => ~Late(c, t) /\ ~Some(c.incoming, Said("error", t))
<1>1. c.incoming \in Seq(Message) /\ c.requests \in Seq(RequestType)
  BY FieldTypes
<1>2. Due(c.incoming, c.requests, t) = 0
        <=> At(c.incoming, Answers(t)) = {} /\ At(c.requests, Asks(t)) = {}
  BY <1>1, DueIs
<1>3. Due(c.incoming, c.requests, t) = 0
        <=> ~Some(c.requests, Asks(t)) /\ ~Some(c.incoming, Answers(t))
  BY <1>2 DEF At, Some
<1>4. Said("error", t) \subseteq Answers(t)
  BY DEF Said, Answers, Message, Single, Filter, Snapshot, Document, News
<1> QED
  BY <1>3, <1>4 DEF Late, Some, Behind

\* What is left on its way is in order, and true.
LEMMA MailRead ==
    ASSUME NEW lg, NEW in \in Seq(Message), in # <<>>, Head(in).kind # "snapshot"
    PROVE  /\ Sorted(in) => Sorted(Tail(in))
           /\ Head(in).kind = "filter" => (Sorted(in) => ~Some(Tail(in), Kind("document")))
           /\ Head(in).kind = "current" => (Sorted(in) => ~Some(Tail(in), Kind("filter")))
           /\ \A n : Coming(Tail(in), n) <=> Coming(in, n)
           /\ Pending(Tail(in)) <=> Pending(in)
           /\ \A n : TrueMail(lg, in, n) => TrueMail(lg, Tail(in), n) /\ TrueMessage(lg, Head(in), n)
           /\ Reports(in, 1) => Tail(in) # <<>> /\ Reports(Tail(in), 1)
           /\ Sorted(in) /\ Head(in).kind \in Telling => Reports(in, 1)
<1>1. /\ Len(in) \in Nat \ {0} /\ DOMAIN in = 1 .. Len(in) /\ in[1] = Head(in)
      /\ \A i \in DOMAIN Tail(in) : i + 1 \in DOMAIN in /\ Tail(in)[i] = in[i + 1]
      /\ DOMAIN Tail(in) = 1 .. (Len(in) - 1)
  BY TailPlaces
<1>2. ASSUME Reports(in, 1) PROVE Tail(in) # <<>> /\ Reports(Tail(in), 1)
  <2>1. Reports(Tail(in), 1)
    BY <1>2, ReportsRead
  <2>2. DOMAIN Tail(in) # {}
    BY <2>1 DEF Reports
  <2> QED
    BY <2>1, <2>2
<1>3. Head(in) \in Message
  OBVIOUS
<1>4. Sorted(in) => /\ Head(in).kind = "filter" => ~Some(Tail(in), Kind("document"))
                    /\ Head(in).kind = "current" => ~Some(Tail(in), Kind("filter"))
  BY <1>3, ThenTail DEF Sorted, Kind
<1>5. ASSUME Sorted(in) PROVE Sorted(Tail(in))
  <2>1. ASSUME NEW i \in DOMAIN Tail(in), Tail(in)[i].kind \in Telling PROVE Reports(Tail(in), i)
    <3>1. i + 1 \in DOMAIN in /\ in[i + 1].kind \in Telling /\ i + 1 \in Nat \ {0} /\ i + 1 # 1
          /\ (i + 1) - 1 = i
      BY <1>1, <2>1
    <3>2. Reports(in, i + 1)
      BY <1>5, <3>1 DEF Sorted
    <3> DEFINE k == i + 1
    <3>3. k \in Nat \ {0} /\ k # 1 /\ Reports(in, k) /\ k - 1 = i
      BY <3>1, <3>2
    <3> HIDE DEF k
    <3>4. Reports(Tail(in), IF k = 1 THEN 1 ELSE k - 1)
      BY <3>3, ReportsRead
    <3> QED
      BY <3>3, <3>4
  <2>2. ~Then(Tail(in), Kind("filter"), Kind("document"))
        /\ ~Then(Tail(in), Kind("current"), Kind("filter"))
    BY <1>5, ThenTail DEF Sorted
  <2> QED
    BY <2>1, <2>2 DEF Sorted
<1>6. ASSUME NEW n, TrueMail(lg, in, n) PROVE TrueMail(lg, Tail(in), n) /\ TrueMessage(lg, Head(in), n)
  BY <1>1, <1>6 DEF TrueMail
<1>7. Sorted(in) /\ Head(in).kind \in Telling => Reports(in, 1)
  BY <1>1 DEF Sorted
<1>8. (\A n : Coming(Tail(in), n) <=> Coming(in, n)) /\ (Pending(Tail(in)) <=> Pending(in))
  BY ComingTail
<1> QED
  BY <1>2, <1>4, <1>5, <1>6, <1>7, <1>8

\* When nothing more is gathered, what is gathered is true.
LEMMA TelltaleRead ==
    ASSUME Ready, client.incoming # <<>>, Head(client.incoming).kind # "snapshot",
           NEW x, x.incoming = Tail(client.incoming), x.updates = client.updates,
           x.resets = client.resets, x.keys = client.keys
    PROVE  Telltale(log, x)
<1>1. Telltale(log, client) /\ client.incoming \in Seq(Message)
  BY ReadyIs, OnlineIs DEF Net
<1>2. /\ Sorted(x.incoming) /\ \A n : Coming(x.incoming, n) <=> Coming(client.incoming, n)
      /\ \A n : TrueMail(log, client.incoming, n) => TrueMail(log, x.incoming, n)
      /\ Reports(client.incoming, 1) => x.incoming # <<>> /\ Reports(x.incoming, 1)
  <2> DEFINE in == client.incoming
  <2>1. in \in Seq(Message) /\ in # <<>> /\ Head(in).kind # "snapshot" /\ Sorted(in)
    BY <1>1 DEF Telltale
  <2> HIDE DEF in
  <2>2. /\ Sorted(Tail(in)) /\ \A n : Coming(Tail(in), n) <=> Coming(in, n)
        /\ \A n : TrueMail(log, in, n) => TrueMail(log, Tail(in), n)
        /\ Reports(in, 1) => Tail(in) # <<>> /\ Reports(Tail(in), 1)
    BY <2>1, MailRead
  <2> QED
    BY <2>2 DEF in
<1>3. \A d, n : TrueUpdate(log, client, d, n) => TrueUpdate(log, x, d, n)
  BY DEF TrueUpdate
<1>4. \A n : Coming(x.incoming, n) =>
         TrueMail(log, x.incoming, n) /\ \A d \in DOMAIN x.updates : TrueUpdate(log, x, d, n)
  BY <1>1, <1>2, <1>3 DEF Telltale
<1>5. /\ x.resets \subseteq {Query} /\ Sorted(x.incoming)
      /\ x.updates # <<>> => x.incoming # <<>> /\ Reports(x.incoming, 1)
  BY <1>1, <1>2 DEF Telltale
<1> QED
  BY <1>4, <1>5 DEF Telltale

\* A message is read: it is enough that its targets are right.
LEMMA ReadExact ==
    ASSUME Ready, client.incoming # <<>>, Head(client.incoming).kind # "snapshot", NEW x,
           Telltale(log, x),
           \A u \in Watched : \/ Right(log, x, u)
                              \/ SameTarget(x, Online, u) /\ Head(client.incoming) \notin Of(u),
           SameView(x, Online), SameDisk(x, Online), x.limbo = Online.limbo
    PROVE  Exact(log, x)
<1>1. ASSUME NEW u \in Watched PROVE Right(log, x, u)
  <2>1. CASE SameTarget(x, Online, u) /\ Head(client.incoming) \notin Of(u)
    <3>1. SameTarget(Online, client, u)
      BY <2>1, OnlineElse
    <3>2. SameTarget(x, client, u)
      BY <2>1, <3>1, SameTargetTrans
    <3>3. Right(log, client, u)
      BY ReadyIs DEF Net
    <3> QED
      BY <3>2, <3>3, RightSame
  <2> QED
    BY <2>1
<1>2. Net(log, x)
  BY <1>1 DEF Net
<1>3. SameView(x, client) /\ SameDisk(x, client)
  BY OnlineIs, SameViewTrans, SameDiskTrans
<1>4. x.limbo = client.limbo
  BY OnlineIs DEF Only, Fields
<1>5. Exact(log, client)
  BY DEF Ready
<1> QED
  BY <1>2, <1>3, <1>4, <1>5, SameExact

\* A message of a single target.
LEMMA HeadOf ==
    ASSUME Ready, NEW kind \in {"added", "removed", "current", "reset", "error", "filter"},
           Received(kind)
    PROVE  /\ client.incoming # <<>> /\ AboutTarget \in Watched
           /\ Head(client.incoming).kind = kind
           /\ \A u : Head(client.incoming) \in Of(u) <=> u = AboutTarget
           /\ Right(log, client, AboutTarget)
           /\ \A A : Head(client.incoming) \notin Said(A, AboutTarget) \/ A = kind
           /\ kind \in {"added", "removed", "error"} <=> Head(client.incoming) \in Answers(AboutTarget)
           /\ \A d : Head(client.incoming) \notin DocOf(AboutTarget, d)
<1>1. World
  BY ReadyIs
<1>2. /\ client.incoming # <<>> /\ AboutTarget \in Watched /\ Head(client.incoming).kind = kind
      /\ Head(client.incoming).about = {AboutTarget} /\ Head(client.incoming) \in Message
      /\ kind \in {"added", "removed", "error"} => Head(client.incoming) \in Answers(AboutTarget)
  BY <1>1, HeadIs, AboutIs, OnlineIs
<1>3. Right(log, client, AboutTarget)
  BY <1>2, ReadyIs DEF Net
<1>4. Head(client.incoming) \in Answers(AboutTarget) => kind \in {"added", "removed", "error"}
  BY <1>2 DEF Answers
<1> QED
  BY <1>2, <1>3, <1>4 DEF Of, Said, DocOf

\* What is read of the target of a message.
LEMMA HeadRead ==
    ASSUME Ready, client.incoming # <<>>, NEW t, NEW x, x.incoming = Online.incoming,
           Only(x, Online, {"agg", "updates", "resets", "broken"})
    PROVE  ReadFrom(x, client, t) /\ SameView(x, Online) /\ SameDisk(x, Online)
           /\ x.limbo = Online.limbo /\ x.keys = client.keys /\ client.stream = "Open"
           /\ x.requests = client.requests
<1>1. /\ x.incoming = Tail(client.incoming) /\ x.requests = client.requests
      /\ x.serving = client.serving /\ x.stream = client.stream /\ x.listening = client.listening
      /\ x.received = client.received /\ x.on = client.on /\ x.view = Online.view
      /\ x.limbo = Online.limbo /\ x.keys = client.keys
  BY OnlineIs DEF Only, Fields
<1>2. RemoteKeys(x, t) = RemoteKeys(client, t)
  <2>1. x.view.synced = client.view.synced
    BY <1>1, OnlineIs DEF SameView
  <2> QED
    BY <1>1, <2>1 DEF RemoteKeys
<1>3. SameView(x, Online)
  BY SameViewOnly
<1>4. SameDisk(x, Online)
  BY SameDiskOnly
<1> QED
  BY <1>1, <1>2, <1>3, <1>4, OnlineIs DEF ReadFrom

\* Only the target of the message has another entry.
LEMMA EntryElse ==
    ASSUME Ready, client.incoming # <<>>, NEW t \in Watched, NEW x,
           Only(x, Online, {"agg"}), NEW u, u # t,
           u \in DOMAIN x.agg <=> u \in DOMAIN Online.agg, Entry(x, u) = Entry(Online, u)
    PROVE  SameTarget(x, Online, u)
<1>1. /\ x.listening = Online.listening /\ x.serving = Online.serving /\ x.resets = Online.resets
      /\ x.updates = Online.updates /\ x.stream = Online.stream /\ x.incoming = Online.incoming
      /\ x.requests = Online.requests /\ x.received = Online.received /\ x.on = Online.on
      /\ x.view = Online.view
  BY DEF Only, Fields
<1>2. RemoteKeys(x, u) = RemoteKeys(Online, u)
  BY <1>1 DEF RemoteKeys
<1> QED
  BY <1>1, <1>2, SameElse

-----------------------------------------------------------------------------
(***************************************************************************)
(* The message at the head is about a target.                              *)
(***************************************************************************)
\* Nothing else is between a message that tells of documents and its snapshot.
LEMMA HeadTells ==
    ASSUME Ready, client.incoming # <<>>, Head(client.incoming).kind \in Telling,
           Head(client.incoming).kind # "snapshot"
    PROVE  /\ Pending(client.incoming) /\ Pending(Tail(client.incoming))
           /\ Reports(Tail(client.incoming), 1) /\ Tail(client.incoming) # <<>>
           /\ \A A : (\A m \in A : m.kind \notin Telling) =>
                 /\ ~Before(client.incoming, A) /\ ~Before(Tail(client.incoming), A)
                 /\ Some(client.incoming, A) => Behind(client.incoming, A)
<1> DEFINE in == client.incoming
<1>1. in \in Seq(Message) /\ in # <<>> /\ Head(in).kind # "snapshot" /\ Head(in).kind \in Telling
  BY OnlineIs
<1>2. Sorted(in)
  BY ReadyIs DEF Net, Telltale
<1>3. \A j, k \in DOMAIN in : in[j].kind = "snapshot" /\ in[k].kind = "snapshot" => j = k
  BY ReadyIs DEF Fresher
<1> HIDE DEF in
<1>4. Reports(in, 1) /\ Reports(Tail(in), 1) /\ Tail(in) # <<>> /\ (Pending(Tail(in)) <=> Pending(in))
  BY <1>1, <1>2, MailRead, Zenon
<1>5. PICK k \in DOMAIN in : /\ 1 <= k /\ in[k].kind = "snapshot"
                             /\ \A j \in 1 .. k : in[j].kind \in Telling
  BY <1>4 DEF Reports
<1>6. Len(in) \in Nat /\ DOMAIN in = 1 .. Len(in)
  BY <1>1
<1>7. ASSUME NEW A, \A m \in A : m.kind \notin Telling
      PROVE  /\ ~Before(in, A) /\ ~Before(Tail(in), A) /\ (Some(in, A) => Behind(in, A))
  <2>1. ~Before(in, A)
    <3>1. ASSUME NEW i \in DOMAIN in, in[i] \in A, Ahead(in, i) PROVE FALSE
      <4>1. PICK h \in DOMAIN in : i < h /\ in[h].kind = "snapshot"
        BY <3>1 DEF Ahead
      <4>2. h = k
        BY <1>3, <1>5, <4>1
      <4>3. i \in 1 .. k
        BY <1>6, <4>1, <4>2
      <4> QED
        BY <1>5, <1>7, <3>1, <4>3
    <3> QED
      BY <3>1 DEF Before
  <2>2. ~Before(Tail(in), A)
    BY <1>1, <2>1, BeforeTail
  <2> QED
    BY <2>1, <2>2 DEF Some, Before, Behind
<1>8. Pending(in)
  BY <1>5 DEF Pending
<1> QED
  BY <1>4, <1>7, <1>8 DEF in

\* Then an inactive target will learn more from a later snapshot.
LEMMA WaitingLate ==
    ASSUME Ready, client.incoming # <<>>, Head(client.incoming).kind \in Telling,
           Head(client.incoming).kind # "snapshot", NEW t \in Watched, t \in DOMAIN client.listening,
           Entry(client, t).outstanding # 0
    PROVE  Late(client, t)
<1>1. Typed(client) /\ Right(log, client, t) /\ client.stream = "Open"
  BY ReadyIs, OnlineIs DEF Net
<1>2. Due(client.incoming, client.requests, t) # 0
  BY <1>1 DEF Right, Flows, Collects
<1>3. Some(client.requests, Asks(t)) \/ Some(client.incoming, Answers(t))
  BY <1>1, <1>2, NothingLate
<1>4. \A m \in Answers(t) : m.kind \notin Telling
  BY DEF Answers, Telling
<1>5. Some(client.incoming, Answers(t)) => Behind(client.incoming, Answers(t))
  BY <1>4, HeadTells
<1> QED
  BY <1>3, <1>5 DEF Late

\* An active one is told by this snapshot.
LEMMA ActiveTold ==
    ASSUME Ready, client.incoming # <<>>, NEW t \in Watched, IsActiveTarget(client, t)
    PROVE  /\ t \in DOMAIN client.listening /\ Sees(log, client, t) /\ Flows(log, client, t)
           /\ Due(client.incoming, client.requests, t) = 0 /\ ~Late(client, t)
           /\ ~Some(client.requests, Asks(t)) /\ ~Some(client.incoming, Answers(t))
           /\ ~Some(client.incoming, Said("error", t))
           /\ Entry(client, t).outstanding = 0 /\ t \in DOMAIN client.serving
<1>1. Typed(client) /\ Right(log, client, t) /\ client.stream = "Open"
  BY ReadyIs, OnlineIs DEF Net
<1>2. t \in DOMAIN client.listening /\ Entry(client, t).outstanding = 0
  BY DEF IsActiveTarget
<1>3. Sees(log, client, t) /\ Flows(log, client, t)
  BY <1>1, <1>2 DEF Right
<1>4. Due(client.incoming, client.requests, t) = 0
  BY <1>2, <1>3 DEF Flows, Collects
<1>5. /\ ~Late(client, t) /\ ~Some(client.requests, Asks(t)) /\ ~Some(client.incoming, Answers(t))
      /\ ~Some(client.incoming, Said("error", t))
  BY <1>1, <1>4, NothingLate
<1> QED
  BY <1>2, <1>3, <1>4, <1>5 DEF Flows, Served

\* The server will have told it of everything.
LEMMA ReadServed ==
    ASSUME Ready, client.incoming # <<>>, Head(client.incoming).kind \in Telling,
           Head(client.incoming).kind # "snapshot", NEW t \in Watched, IsActiveTarget(client, t),
           NEW x, ReadFrom(x, client, t)
    PROVE  /\ Served(x, t) /\ Known(client, t) /\ ~Late(x, t) /\ Asking(x, t) /\ Sees(log, x, t)
           /\ ~Before(x.incoming, Said("reset", t)) /\ ~Before(client.incoming, Said("reset", t))
           /\ Due(x.incoming, x.requests, t) = 0
<1>1. /\ client.incoming \in Seq(Message) /\ Head(client.incoming) \in Message
      /\ Right(log, client, t) /\ client.requests \in Seq(RequestType)
  BY ReadyIs, OnlineIs DEF Net
<1>2. /\ t \in DOMAIN client.listening /\ Sees(log, client, t) /\ Flows(log, client, t)
      /\ Due(client.incoming, client.requests, t) = 0 /\ ~Late(client, t)
      /\ ~Some(client.requests, Asks(t)) /\ ~Some(client.incoming, Answers(t))
      /\ ~Some(client.incoming, Said("error", t)) /\ t \in DOMAIN client.serving
  BY ActiveTold
<1>3. Pending(x.incoming) /\ \A m \in Said("reset", t) : m.kind \notin Telling
  BY HeadTells DEF ReadFrom, Said, Telling
<1>4. ~Before(x.incoming, Said("reset", t)) /\ ~Before(client.incoming, Said("reset", t))
  BY <1>3, HeadTells DEF ReadFrom
<1>5. ~Late(x, t) /\ Asking(x, t)
  BY <1>1, <1>2, ReadLate, ReadAsking DEF Flows
<1>6. Head(client.incoming) \notin Said("reset", t)
  BY DEF Said, Telling
<1>7. Behind(x.incoming, Said("reset", t)) <=> Behind(client.incoming, Said("reset", t))
  BY <1>1, <1>6, BeforeTail DEF ReadFrom
<1>8. \A n : Coming(x.incoming, n) <=> Coming(client.incoming, n)
  BY <1>1, ComingTail DEF ReadFrom
<1>9. Served(x, t)
  BY <1>2, <1>3, <1>5, <1>7, <1>8 DEF Flows, Served, ReadFrom
<1>10. Due(x.incoming, x.requests, t) = 0
  <2>1. Head(client.incoming) \notin Answers(t)
    BY DEF Answers, Telling
  <2> DEFINE in == client.incoming
             out == client.requests
  <2>2. in \in Seq(Message) /\ in # <<>> /\ out \in Seq(RequestType) /\ Head(in) \notin Answers(t)
        /\ Tail(in) \in Seq(Message) /\ Due(in, out, t) = 0
    BY <1>1, <1>2, <2>1
  <2> HIDE DEF in, out
  <2>3. Due(in, out, t) = Due(Tail(in), out, t) + 0
    BY <2>2, OneMessageRead
  <2>4. Due(Tail(in), out, t) \in Nat
    BY <2>2, DueIs
  <2>5. Due(Tail(in), out, t) = 0
    BY <2>2, <2>3, <2>4
  <2> QED
    BY <2>5 DEF in, out, ReadFrom
<1> QED
  BY <1>1, <1>2, <1>4, <1>5, <1>9, <1>10 DEF Right, ReadFrom, Sees

-----------------------------------------------------------------------------
(***************************************************************************)
(* A target is added.                                                      *)
(***************************************************************************)
\* What the client has when only the entry of a target is another.
LEMMA EntryRead ==
    ASSUME Ready, client.incoming # <<>>, Head(client.incoming).kind # "snapshot",
           NEW t \in Watched, NEW e \in EntryType, DOMAIN e.changes \subseteq t.docs
    PROVE  LET x == WithEntry(Online, t, e)
           IN  /\ Typed(x) /\ Only(x, Online, {"agg"}) /\ ReadFrom(x, client, t)
               /\ DOMAIN x.agg = DOMAIN client.agg \cup {t} /\ Entry(x, t) = e
               /\ x.updates = client.updates /\ x.resets = client.resets
               /\ x.incoming = Tail(client.incoming) /\ x.requests = client.requests
               /\ \A u : u # t => SameTarget(x, Online, u)
               /\ ((\A u : Head(client.incoming) \in Of(u) <=> u = t) /\ Right(log, x, t)
                     => Exact(log, x))
<1> DEFINE x == WithEntry(Online, t, e)
<1>1. Typed(Online)
  BY OnlineIs
<1>2. Typed(x) /\ Only(x, Online, {"agg"}) /\ x.agg = With(Online.agg, t, e)
  BY <1>1, WithEntryTyped
<1> HIDE DEF x
<1>3. x.incoming = Online.incoming /\ x.updates = client.updates /\ x.resets = client.resets
      /\ Online.agg = client.agg /\ x.incoming = Tail(client.incoming)
  BY <1>2, OnlineIs DEF Only, Fields
<1>4. DOMAIN x.agg = DOMAIN client.agg \cup {t} /\ Entry(x, t) = e
      /\ \A u : u # t => Entry(x, u) = Entry(Online, u)
  BY <1>2, <1>3 DEF With, Over, Entry
<1>5. Only(x, Online, {"agg", "updates", "resets", "broken"})
  BY <1>2 DEF Only
<1>6. /\ ReadFrom(x, client, t) /\ SameView(x, Online) /\ SameDisk(x, Online)
      /\ x.limbo = Online.limbo /\ x.keys = client.keys /\ x.requests = client.requests
  BY <1>3, <1>5, HeadRead
<1>7. ASSUME NEW u, u # t PROVE SameTarget(x, Online, u)
  BY <1>2, <1>3, <1>4, <1>7, EntryElse
<1>8. Telltale(log, x)
  BY <1>3, <1>6, TelltaleRead
<1>9. ASSUME \A u : Head(client.incoming) \in Of(u) <=> u = t, Right(log, x, t)
      PROVE  Exact(log, x)
  BY <1>6, <1>7, <1>8, <1>9, ReadExact
<1> QED
  BY <1>2, <1>3, <1>4, <1>6, <1>7, <1>9 DEF x

\* HandleTargetChange, Added.
LEMMA TargetAddedExact ==
    ASSUME Ready, TargetAdded
    PROVE  Exact(log', client')
<1> DEFINE t == AboutTarget
           c == client
           entry == [Entry(c, t) EXCEPT !.outstanding = @ - 1]
           e == [entry EXCEPT !.changes = IF entry.outstanding = 0 THEN <<>> ELSE @]
           x == WithEntry(Online, t, e)
<1>1. /\ c.incoming # <<>> /\ t \in Watched /\ Head(c.incoming).kind = "added"
      /\ \A u : Head(c.incoming) \in Of(u) <=> u = t
      /\ Right(log, c, t) /\ \A A : Head(c.incoming) \notin Said(A, t) \/ A = "added"
      /\ Head(c.incoming) \in Answers(t) /\ \A d : Head(c.incoming) \notin DocOf(t, d)
  BY HeadOf DEF TargetAdded
<1>2. World /\ Typed(c) /\ Sound(c) /\ c.incoming \in Seq(Message) /\ c.requests \in Seq(RequestType)
      /\ c.stream = "Open"
  BY <1>1, ReadyIs, OnlineIs
<1>3. client' = x /\ log' = log
  BY DEF TargetAdded, Client
<1>4. Entry(c, t) \in EntryType /\ DOMAIN Entry(c, t).changes \subseteq t.docs
  BY <1>1, <1>2, EntryTyped
<1>5. /\ e \in EntryType /\ DOMAIN e.changes \subseteq t.docs
      /\ e.outstanding = Entry(c, t).outstanding - 1 /\ e.current = Entry(c, t).current
      /\ e.changes = IF e.outstanding = 0 THEN <<>> ELSE Entry(c, t).changes
  <2> DEFINE old == Entry(c, t)
  <2>1. /\ old \in [outstanding : Int, current : BOOLEAN, changes : Partial(Docs, Change)]
        /\ DOMAIN old.changes \subseteq t.docs /\ old = Entry(c, t)
    BY <1>4 DEF EntryType
  <2>2. <<>> \in Partial(Docs, Change) /\ DOMAIN <<>> = {}
    BY PartialNone
  <2>3. e = [[old EXCEPT !.outstanding = @ - 1] EXCEPT
                !.changes = IF old.outstanding - 1 = 0 THEN <<>> ELSE @]
    BY <2>1
  <2> HIDE DEF old, e
  <2>4. e = [outstanding |-> old.outstanding - 1, current |-> old.current,
             changes |-> IF old.outstanding - 1 = 0 THEN <<>> ELSE old.changes]
    BY <2>1, <2>3
  <2>5. old.outstanding - 1 \in Int /\ old.current \in BOOLEAN
        /\ (IF old.outstanding - 1 = 0 THEN <<>> ELSE old.changes) \in Partial(Docs, Change)
    BY <2>1, <2>2
  <2> QED
    BY <2>1, <2>2, <2>4, <2>5 DEF EntryType
<1> HIDE DEF e, t, c
<1>6. /\ Typed(x) /\ ReadFrom(x, c, t) /\ DOMAIN x.agg = DOMAIN c.agg \cup {t} /\ Entry(x, t) = e
      /\ x.updates = c.updates /\ x.resets = c.resets /\ x.incoming = Tail(c.incoming)
      /\ x.requests = c.requests /\ (Right(log, x, t) => Exact(log, x))
  <2> USE DEF c
  <2>1. /\ client.incoming # <<>> /\ Head(client.incoming).kind # "snapshot" /\ t \in Watched
        /\ e \in EntryType /\ DOMAIN e.changes \subseteq t.docs
        /\ \A u : Head(client.incoming) \in Of(u) <=> u = t
    BY <1>1, <1>5
  <2> HIDE DEF c
  <2>2. x = WithEntry(Online, t, e)
    OBVIOUS
  <2> HIDE DEF x
  <2>3. /\ Typed(x) /\ ReadFrom(x, client, t) /\ DOMAIN x.agg = DOMAIN client.agg \cup {t}
        /\ Entry(x, t) = e /\ x.updates = client.updates /\ x.resets = client.resets
        /\ x.incoming = Tail(client.incoming) /\ x.requests = client.requests
        /\ (Right(log, x, t) => Exact(log, x))
    BY <2>1, <2>2, EntryRead
  <2> QED
    BY <2>3 DEF c
<1> HIDE DEF x
<1>7. Right(log, x, t)
  <2>1. CASE t \notin DOMAIN c.listening
    BY <1>1, <1>2, <1>6, <2>1, ReadUnwatched
  <2>2. CASE t \in DOMAIN c.listening
    <3>1. Known(c, t) /\ Sees(log, c, t) /\ Flows(log, c, t)
      BY <1>1, <1>2, <2>2 DEF Right
    <3>2. Known(x, t) /\ Sees(log, x, t) /\ Asking(x, t)
      <4>1. Sees(log, x, t)
        BY <1>6, <2>2, <3>1 DEF Sees, ReadFrom
      <4> QED
        BY <1>1, <1>2, <1>6, <2>2, <3>1, <4>1, ReadKnown, ReadAsking DEF Flows
    <3>3. InOrder(c.incoming, c.requests, t) /\ Head(c.incoming) \in Closing(t)
      <4>1. InOrder(c.incoming, c.requests, t)
        BY <1>2, <2>2 DEF Sound, Runs, Running, Flowing, Ordered
      <4> QED
        BY <1>1, <4>1 DEF Answers, Closing
    <3>4. Due(x.incoming, x.requests, t) = 0 /\ Due(c.incoming, c.requests, t) = 1
      <4>1. /\ Due(c.incoming, c.requests, t) = Due(Tail(c.incoming), c.requests, t) + 1
            /\ Due(Tail(c.incoming), c.requests, t) = 0
        BY <1>1, <1>2, <3>3, OneMessageRead
      <4> QED
        BY <1>6, <4>1
    <3>5. Entry(c, t).outstanding = 1 /\ DOMAIN Entry(c, t).changes = {}
      BY <3>1, <3>4 DEF Flows, Collects
    <3>6. e.outstanding = 0 /\ DOMAIN e.changes = {} /\ DOMAIN Entry(c, t).changes = {}
          /\ e.current = Entry(c, t).current
      BY <1>5, <3>5
    <3>7. /\ ~Some(x.requests, Asks(t)) /\ ~Some(x.incoming, Answers(t)) /\ ~Late(x, t)
          /\ ~Some(x.incoming, Said("error", t))
      BY <1>1, <1>6, <3>4, NothingLate
    <3>8. ~Some(c.incoming, Said("error", t)) /\ ~Some(c.requests, Asks(t))
      <4> DEFINE A == Said("error", t)
      <4>1. Head(c.incoming) \notin A /\ ~Some(Tail(c.incoming), A)
        BY <1>1, <1>6, <3>7
      <4> HIDE DEF A
      <4>2. ~Some(c.incoming, A)
        BY <1>1, <1>2, <4>1, SomeTail
      <4> QED
        BY <1>6, <3>7, <4>2 DEF A
    <3>9. Late(c, t) <=> ~Pending(x.incoming)
      <4>1. ~Behind(x.incoming, Answers(t))
        BY <3>7 DEF Some, Behind
      <4>2. Behind(c.incoming, Answers(t)) <=> ~Ahead(c.incoming, 1)
        BY <1>1, <1>2, <1>6, <4>1, BeforeTail
      <4>3. Ahead(c.incoming, 1) <=> Pending(x.incoming)
        BY <1>1, <1>2, <1>6, ComingTail
      <4> QED
        BY <3>8, <4>2, <4>3 DEF Late
    <3>10. Holds(x, t) = Holds(c, t)
      BY <1>6, <2>2, <3>6 DEF Holds, OfType, ReadFrom
    <3>11. Collects(x, t)
      BY <1>6, <3>4, <3>6 DEF Collects, OfType
    <3>12. /\ Behind(x.incoming, Said("reset", t)) <=> Behind(c.incoming, Said("reset", t))
           /\ Before(x.incoming, Said("reset", t)) <=> Before(c.incoming, Said("reset", t))
      BY <1>1, <1>2, <1>6, BeforeTail
    <3>13. \A n : Coming(x.incoming, n) <=> Coming(c.incoming, n)
      BY <1>1, <1>2, <1>6, ComingTail
    <3>14. Pending(c.incoming) <=> Pending(x.incoming)
      BY <1>1, <1>2, <1>6, ComingTail
    <3>15. /\ t \in DOMAIN c.serving
           /\ Behind(c.incoming, Said("reset", t)) => c.serving[t].at = 0 /\ c.serving[t].fresh
           /\ ~Behind(c.incoming, Said("reset", t)) /\ ~Late(c, t) =>
                 \A n : Coming(c.incoming, n) => c.serving[t].at = n
           /\ ~Behind(c.incoming, Said("reset", t)) /\ (Late(c, t) \/ ~Pending(c.incoming)) =>
                 Resumed(c, t) \/ StartedOver(c, t)
      BY <3>1, <3>8 DEF Flows, Served
    <3>16. x.serving = c.serving /\ x.listening[t] = c.listening[t]
      BY <1>6, <2>2 DEF ReadFrom
    <3>17. (Resumed(c, t) => Resumed(x, t)) /\ (StartedOver(c, t) => StartedOver(x, t))
      BY <1>6, <3>6, <3>10, <3>16 DEF Resumed, StartedOver
    <3>18. \A n : Coming(x.incoming, n) => Pending(x.incoming)
      BY DEF Coming, Pending
    <3>19. Served(x, t)
      BY <3>7, <3>9, <3>12, <3>13, <3>14, <3>15, <3>16, <3>17, <3>18 DEF Served
    <3>20. ASSUME NEW n, Delivers(log, c, t, n) PROVE Delivers(log, x, t, n)
      <4>1. /\ Some(x.incoming, Said("document", t)) <=> Some(c.incoming, Said("document", t))
            /\ Some(x.incoming, Said("current", t)) <=> Some(c.incoming, Said("current", t))
            /\ Some(x.incoming, Said("filter", t)) <=> Some(c.incoming, Said("filter", t))
        BY <1>1, <1>2, <1>6, SomeTail
      <4>2. \A d : Some(x.incoming, DocOf(t, d)) <=> Some(c.incoming, DocOf(t, d))
        BY <1>1, <1>2, <1>6, SomeTail
      <4>3. \A d : Will(x, t, d) <=> Will(c, t, d)
        BY <3>10, <3>12 DEF Will
      <4>4. \A d : Rightly(log, c, t, d, n) => Rightly(log, x, t, d, n)
        BY <1>6, <3>16, <4>1, <4>2, <4>3 DEF Rightly
      <4>5. Confirmed(c, t) => Confirmed(x, t)
        BY <1>6, <3>6, <3>12, <4>1 DEF Confirmed
      <4> QED
        BY <1>6, <3>10, <3>20, <4>1, <4>4, <4>5 DEF Delivers
    <3>21. Brings(log, x, t)
      BY <3>1, <3>9, <3>13, <3>18, <3>20 DEF Flows, Brings
    <3> QED
      BY <3>2, <3>11, <3>19, <3>21 DEF Right, Flows
  <2> QED
    BY <2>1, <2>2
<1> QED
  BY <1>3, <1>6, <1>7

-----------------------------------------------------------------------------
(***************************************************************************)
(* A target is removed, or current.                                        *)
(***************************************************************************)
\* A target that is forgotten is none that is watched, served or about to be started over.
LEMMA ForgottenKnown ==
    ASSUME Ready, Received("removed"), Entry(client, AboutTarget).outstanding = 1,
           NEW x, Only(x, Online, {"agg"}), x.agg = Without(Online.agg, AboutTarget)
    PROVE  AboutTarget \notin DOMAIN client.listening /\ Right(log, x, AboutTarget)
<1> DEFINE t == AboutTarget
           c == client
<1>1. /\ c.incoming # <<>> /\ t \in Watched /\ Right(log, c, t)
      /\ Head(c.incoming) \in Answers(t) /\ Head(c.incoming).kind = "removed"
  BY HeadOf
<1>2. Typed(c) /\ Sound(c) /\ c.incoming \in Seq(Message) /\ c.requests \in Seq(RequestType)
      /\ c.stream = "Open" /\ Tail(c.incoming) \in Seq(Message)
  BY <1>1, ReadyIs, OnlineIs
<1>3. Entry(c, t).outstanding = 1
  OBVIOUS
<1> HIDE DEF t
<1>4. /\ x.incoming = Tail(c.incoming) /\ x.requests = c.requests /\ x.serving = c.serving
      /\ x.listening = c.listening
  BY <1>1, OnlineIs DEF Only, Fields
<1> HIDE DEF c
<1>5. Due(c.incoming, c.requests, t) = Due(x.incoming, x.requests, t) + 1
      /\ Due(x.incoming, x.requests, t) \in Nat
  <2> DEFINE in == c.incoming
             out == c.requests
  <2>1. in \in Seq(Message) /\ in # <<>> /\ out \in Seq(RequestType) /\ Head(in) \in Answers(t)
        /\ Tail(in) \in Seq(Message)
    BY <1>1, <1>2
  <2> HIDE DEF in, out
  <2>2. Due(in, out, t) = Due(Tail(in), out, t) + 1
    BY <2>1, OneMessageRead
  <2>3. Due(Tail(in), out, t) \in Nat
    BY <2>1, DueIs
  <2> QED
    BY <1>4, <2>2, <2>3 DEF in, out
<1>6. Due(x.incoming, x.requests, t) = 0
  <2>1. 1 >= Due(c.incoming, c.requests, t)
    BY <1>1, <1>2, <1>3 DEF Sound, Runs, Running, Flowing, Counted
  <2> QED
    BY <1>5, <2>1
<1>7. t \notin DOMAIN c.listening
  <2>1. ASSUME t \in DOMAIN c.listening PROVE FALSE
    <3>1. InOrder(c.incoming, c.requests, t)
      BY <1>2, <2>1 DEF Sound, Runs, Running, Flowing, Ordered
    <3>2. Head(c.incoming) \notin Closing(t)
      BY <1>1 DEF Closing
    <3>3. Due(Tail(c.incoming), c.requests, t) # 0
      BY <1>1, <1>2, <3>1, <3>2, OneMessageRead
    <3> QED
      BY <1>4, <1>6, <3>3
  <2> QED
    BY <2>1
<1>8. ~Some(x.requests, Asks(t)) /\ ~Some(x.incoming, Answers(t))
  <2>1. At(x.incoming, Answers(t)) = {} /\ At(x.requests, Asks(t)) = {}
    BY <1>2, <1>4, <1>6, DueIs, Zenon
  <2> QED
    BY <2>1 DEF At, Some
<1>9. t \notin DOMAIN c.serving
  BY <1>1, <1>4, <1>7, <1>8 DEF Right, Known
<1>10. ~Some(x.incoming, Said("reset", t)) /\ Ends(x.incoming, Said("reset", t), Said("removed", t))
  <2>1. Ends(c.incoming, Said("reset", t), Said("removed", t))
    BY <1>1, <1>9 DEF Right, Known
  <2>2. Ends(x.incoming, Said("reset", t), Said("removed", t))
    BY <1>1, <1>2, <1>4, <2>1, ThenTail
  <2>3. Said("removed", t) \subseteq Answers(t)
    BY DEF Said, Answers, Message, Single, Filter, Snapshot, Document, News
  <2> QED
    BY <1>8, <2>2, <2>3 DEF Ends, Some
<1>11. Ends(x.requests, Asks(t), Drops(t))
  BY <1>8 DEF Ends, Some
<1>12. Known(x, t)
  BY <1>4, <1>9, <1>10, <1>11 DEF Known
<1>13. Right(log, x, t)
  BY <1>4, <1>7, <1>12 DEF Right
<1> QED
  BY <1>7, <1>13 DEF t, c

\* A target that waits for another answer still does.
LEMMA WaitsRight ==
    ASSUME Ready, Received("removed"), NEW x, ReadFrom(x, client, AboutTarget),
           DOMAIN x.agg = DOMAIN client.agg \cup {AboutTarget}, Typed(x),
           x.updates = client.updates, x.resets = client.resets,
           AboutTarget \in DOMAIN client.listening,
           Entry(x, AboutTarget)
               = [Entry(client, AboutTarget) EXCEPT !.outstanding = @ - 1]
    PROVE  Right(log, x, AboutTarget)
<1> DEFINE t == AboutTarget
           c == client
<1>1. /\ c.incoming # <<>> /\ t \in Watched /\ Right(log, c, t) /\ t \in DOMAIN c.listening
      /\ Head(c.incoming) \in Answers(t) /\ Head(c.incoming).kind = "removed"
      /\ ReadFrom(x, c, t) /\ x.updates = c.updates /\ x.resets = c.resets
      /\ t \in DOMAIN c.agg => t \in DOMAIN x.agg
      /\ \A A : Head(c.incoming) \notin Said(A, t) \/ A = "removed"
      /\ \A d : Head(c.incoming) \notin DocOf(t, d)
  BY HeadOf
<1>2. Typed(c) /\ Sound(c) /\ c.incoming \in Seq(Message) /\ c.requests \in Seq(RequestType)
      /\ c.stream = "Open" /\ Tail(c.incoming) \in Seq(Message)
  BY <1>1, ReadyIs, OnlineIs
<1>3. /\ Entry(x, t).outstanding = Entry(c, t).outstanding - 1
      /\ Entry(x, t).changes = Entry(c, t).changes /\ Entry(x, t).current = Entry(c, t).current
  <2>1. Entry(c, t) \in EntryType
    BY <1>1, <1>2, EntryTyped
  <2>2. Entry(x, t) = [Entry(c, t) EXCEPT !.outstanding = @ - 1]
    OBVIOUS
  <2> DEFINE old == Entry(c, t)
             new == Entry(x, t)
  <2>3. old \in EntryType /\ new = [old EXCEPT !.outstanding = @ - 1]
    BY <2>1, <2>2
  <2> HIDE DEF old, new
  <2>4. new.outstanding = old.outstanding - 1 /\ new.changes = old.changes
        /\ new.current = old.current
    BY <2>3 DEF EntryType
  <2> QED
    BY <2>4 DEF old, new
<1> HIDE DEF t, c
<1>4. x.incoming = Tail(c.incoming) /\ x.requests = c.requests /\ x.serving = c.serving
      /\ x.listening[t] = c.listening[t] /\ RemoteKeys(x, t) = RemoteKeys(c, t)
  BY <1>1 DEF ReadFrom
<1>5. Known(c, t) /\ Sees(log, c, t) /\ Flows(log, c, t)
  BY <1>1, <1>2 DEF Right
<1>6. Known(x, t) /\ Sees(log, x, t) /\ Asking(x, t)
  <2>1. Sees(log, x, t)
    BY <1>4, <1>5 DEF Sees
  <2> QED
    BY <1>1, <1>2, <1>5, <2>1, ReadKnown, ReadAsking DEF Flows
<1>7. /\ Due(c.incoming, c.requests, t) = Due(x.incoming, x.requests, t) + 1
      /\ Due(x.incoming, x.requests, t) \in Nat /\ Due(x.incoming, x.requests, t) # 0
  <2> DEFINE in == c.incoming
             out == c.requests
  <2>1. in \in Seq(Message) /\ in # <<>> /\ out \in Seq(RequestType) /\ Head(in) \in Answers(t)
        /\ Tail(in) \in Seq(Message) /\ Head(in) \notin Closing(t)
    BY <1>1, <1>2 DEF Closing
  <2>2. InOrder(in, out, t)
    BY <1>1, <1>2 DEF Sound, Runs, Running, Flowing, Ordered
  <2> HIDE DEF in, out
  <2>3. Due(in, out, t) = Due(Tail(in), out, t) + 1 /\ Due(Tail(in), out, t) # 0
    BY <2>1, <2>2, OneMessageRead
  <2>4. Due(Tail(in), out, t) \in Nat
    BY <2>1, DueIs
  <2> QED
    BY <1>4, <2>3, <2>4 DEF in, out
<1>8. Collects(x, t) /\ DOMAIN Entry(c, t).changes = {}
  <2>1. Entry(c, t).outstanding = Due(c.incoming, c.requests, t)
        /\ (Entry(c, t).outstanding # 0 => DOMAIN Entry(c, t).changes = {})
        /\ \A d \in OfType(Entry(c, t), "Added") : d \notin RemoteKeys(c, t) /\ d \in DOMAIN c.updates
    BY <1>5 DEF Flows, Collects
  <2>2. Entry(x, t).outstanding = Due(x.incoming, x.requests, t)
        /\ DOMAIN Entry(c, t).changes = {}
    BY <1>3, <1>7, <2>1
  <2>3. OfType(Entry(x, t), "Added") = {}
    BY <1>3, <2>2 DEF OfType
  <2> QED
    BY <1>3, <2>2, <2>3 DEF Collects
<1>9. Some(x.requests, Asks(t)) \/ Some(x.incoming, Answers(t))
  BY <1>1, <1>7, NothingLate
<1>10. Some(x.incoming, Said("error", t)) <=> Some(c.incoming, Said("error", t))
  <2> DEFINE A == Said("error", t)
  <2>1. Head(c.incoming) \notin A
    BY <1>1
  <2> HIDE DEF A
  <2>2. Some(c.incoming, A) <=> Some(x.incoming, A)
    BY <1>1, <1>2, <1>4, <2>1, SomeTail
  <2> QED
    BY <2>2 DEF A
<1>11. Late(x, t) <=> Late(c, t)
  <2>1. Late(x, t) => Late(c, t)
    BY <1>1, <1>2, ReadLate
  <2>2. ASSUME Behind(c.incoming, Answers(t)), ~Some(x.requests, Asks(t))
        PROVE  Behind(x.incoming, Answers(t))
    <3>1. Some(x.incoming, Answers(t))
      BY <1>9, <2>2
    <3>2. \/ ~Ahead(c.incoming, 1)
          \/ Behind(x.incoming, Answers(t))
      BY <1>1, <1>2, <1>4, <2>2, BeforeTail
    <3>3. ~Ahead(c.incoming, 1) => ~Pending(x.incoming)
      BY <1>1, <1>2, <1>4, ComingTail
    <3>4. ~Pending(x.incoming) => Behind(x.incoming, Answers(t))
      BY <3>1 DEF Pending, Behind, Some, Ahead
    <3> QED
      BY <3>2, <3>3, <3>4
  <2> QED
    BY <1>4, <1>10, <2>1, <2>2 DEF Late
<1>12. Holds(x, t) = Holds(c, t)
  BY <1>3, <1>4 DEF Holds, OfType
<1>13. /\ Behind(x.incoming, Said("reset", t)) <=> Behind(c.incoming, Said("reset", t))
       /\ Before(x.incoming, Said("reset", t)) <=> Before(c.incoming, Said("reset", t))
  BY <1>1, <1>2, <1>4, BeforeTail
<1>14. (\A n : Coming(x.incoming, n) <=> Coming(c.incoming, n))
       /\ (Pending(c.incoming) <=> Pending(x.incoming))
  BY <1>1, <1>2, <1>4, ComingTail
<1>15. (Resumed(c, t) => Resumed(x, t)) /\ (StartedOver(c, t) => StartedOver(x, t))
  BY <1>3, <1>4, <1>12 DEF Resumed, StartedOver
<1>16. Served(x, t)
  BY <1>4, <1>5, <1>10, <1>11, <1>13, <1>14, <1>15 DEF Flows, Served
<1>17. ASSUME NEW n, Delivers(log, c, t, n) PROVE Delivers(log, x, t, n)
  <2>1. /\ Some(x.incoming, Said("document", t)) <=> Some(c.incoming, Said("document", t))
        /\ Some(x.incoming, Said("current", t)) <=> Some(c.incoming, Said("current", t))
        /\ Some(x.incoming, Said("filter", t)) <=> Some(c.incoming, Said("filter", t))
    BY <1>1, <1>2, <1>4, SomeTail
  <2>2. \A d : Some(x.incoming, DocOf(t, d)) <=> Some(c.incoming, DocOf(t, d))
    BY <1>1, <1>2, <1>4, SomeTail
  <2>3. \A d : Will(x, t, d) <=> Will(c, t, d)
    BY <1>12, <1>13 DEF Will
  <2>4. \A d : Rightly(log, c, t, d, n) => Rightly(log, x, t, d, n)
    BY <1>1, <1>4, <2>1, <2>2, <2>3 DEF Rightly
  <2>5. Confirmed(c, t) => Confirmed(x, t)
    BY <1>3, <1>13, <2>1 DEF Confirmed
  <2> QED
    BY <1>1, <1>12, <1>17, <2>1, <2>4, <2>5 DEF Delivers
<1>18. Brings(log, x, t)
  BY <1>5, <1>11, <1>14, <1>17 DEF Flows, Brings
<1> QED
  BY <1>6, <1>8, <1>16, <1>18 DEF Right, Flows, t

\* HandleTargetChange, Removed.
LEMMA TargetRemovedExact ==
    ASSUME Ready, TargetRemoved
    PROVE  Exact(log', client')
<1> DEFINE t == AboutTarget
           e == [Entry(client, t) EXCEPT !.outstanding = @ - 1]
           x == IF e.outstanding = 0 THEN [Online EXCEPT !.agg = Without(@, t)]
                ELSE WithEntry(Online, t, e)
<1>1. /\ Received("removed") /\ client.incoming # <<>> /\ t \in Watched
      /\ Head(client.incoming).kind = "removed"
      /\ \A u : Head(client.incoming) \in Of(u) <=> u = t
      /\ Right(log, client, t)
  BY HeadOf DEF TargetRemoved
<1>2. Typed(client) /\ client.incoming \in Seq(Message) /\ Typed(Online)
  BY <1>1, ReadyIs, OnlineIs
<1>3. client' = x /\ log' = log
  BY DEF TargetRemoved, Client
<1>4. /\ e \in EntryType /\ DOMAIN e.changes \subseteq t.docs
      /\ e.outstanding = Entry(client, t).outstanding - 1 /\ Entry(client, t).outstanding \in Int
  <2> DEFINE old == Entry(client, t)
  <2>1. old \in EntryType /\ DOMAIN old.changes \subseteq t.docs
    BY <1>1, <1>2, EntryTyped
  <2>2. e = [old EXCEPT !.outstanding = @ - 1]
    OBVIOUS
  <2> HIDE DEF old, e
  <2>3. /\ e \in EntryType /\ DOMAIN e.changes \subseteq t.docs
        /\ e.outstanding = old.outstanding - 1 /\ old.outstanding \in Int
    BY <2>1, <2>2 DEF EntryType
  <2> QED
    BY <2>3 DEF old
<1>5. CASE e.outstanding = 0
  <2>1. x = [Online EXCEPT !.agg = Without(@, t)]
    BY <1>5
  <2>2. Only(x, Online, {"agg"}) /\ x["agg"] = Without(Online.agg, t)
    BY <1>2, <2>1 DEF Only, Typed, Shape, Fields
  <2> HIDE DEF x, e
  <2>3. Entry(client, t).outstanding = 1
    BY <1>4, <1>5
  <2>4. t \notin DOMAIN client.listening /\ Right(log, x, t)
    BY <1>1, <2>2, <2>3, ForgottenKnown
  <2> HIDE DEF t
  <2>5. ASSUME NEW u, u # t PROVE SameTarget(x, Online, u)
    <3>1. u \in DOMAIN x.agg <=> u \in DOMAIN Online.agg
      BY <2>2, <2>5 DEF Without, Restrict
    <3>2. Entry(x, u) = Entry(Online, u)
      BY <2>2, <2>5, <3>1 DEF Entry, Without, Restrict
    <3> QED
      BY <1>1, <2>2, <2>5, <3>1, <3>2, EntryElse
  <2>6. x.incoming = Online.incoming /\ x.updates = client.updates /\ x.resets = client.resets
        /\ x.incoming = Tail(client.incoming)
    BY <1>1, <2>2, OnlineIs DEF Only, Fields
  <2>7. Only(x, Online, {"agg", "updates", "resets", "broken"})
    BY <2>2 DEF Only
  <2>8. SameView(x, Online) /\ SameDisk(x, Online) /\ x.limbo = Online.limbo /\ x.keys = client.keys
    BY <1>1, <2>6, <2>7, HeadRead
  <2>9. Telltale(log, x)
    BY <1>1, <2>6, <2>8, TelltaleRead
  <2>10. ASSUME NEW u \in Watched
         PROVE  \/ Right(log, x, u)
                \/ SameTarget(x, Online, u) /\ Head(client.incoming) \notin Of(u)
    BY <1>1, <2>4, <2>5
  <2>11. Exact(log, x)
    BY <1>1, <2>8, <2>9, <2>10, ReadExact
  <2> QED
    BY <1>3, <2>11
<1>6. CASE e.outstanding # 0
  <2>1. x = WithEntry(Online, t, e)
    BY <1>6
  <2> HIDE DEF x
  <2>2. Entry(x, t) = e => Entry(x, t) = [Entry(client, t) EXCEPT !.outstanding = @ - 1]
    BY DEF e
  <2> HIDE DEF e
  <2>3. /\ Typed(x) /\ ReadFrom(x, client, t) /\ DOMAIN x.agg = DOMAIN client.agg \cup {t}
        /\ Entry(x, t) = e /\ x.updates = client.updates /\ x.resets = client.resets
        /\ (Right(log, x, t) => Exact(log, x))
    BY <1>1, <1>4, <2>1, EntryRead
  <2>4. Right(log, x, t)
    <3>1. CASE t \notin DOMAIN client.listening
      BY <1>1, <1>2, <2>3, <3>1, ReadUnwatched
    <3>2. CASE t \in DOMAIN client.listening
      BY <1>1, <2>2, <2>3, <3>2, WaitsRight
    <3> QED
      BY <3>1, <3>2
  <2> QED
    BY <1>3, <2>3, <2>4
<1> QED
  BY <1>5, <1>6

\* An entry that is now current is right about its target.
LEMMA CurrentRight ==
    ASSUME Ready, Received("current"), IsActiveTarget(client, AboutTarget),
           NEW x, ReadFrom(x, client, AboutTarget), AboutTarget \in DOMAIN x.agg,
           x.updates = client.updates, x.resets = client.resets,
           Entry(x, AboutTarget).outstanding = Entry(client, AboutTarget).outstanding,
           Entry(x, AboutTarget).changes = Entry(client, AboutTarget).changes,
           Entry(x, AboutTarget).current
    PROVE  Right(log, x, AboutTarget)
<1> DEFINE t == AboutTarget
           c == client
<1>1. /\ c.incoming # <<>> /\ t \in Watched /\ ReadFrom(x, c, t)
      /\ Head(c.incoming).kind = "current" /\ Head(c.incoming).kind \in Telling
      /\ x.updates = c.updates /\ x.resets = c.resets /\ t \in DOMAIN x.agg
      /\ \A A : Head(c.incoming) \notin Said(A, t) \/ A = "current"
      /\ \A d : Head(c.incoming) \notin DocOf(t, d)
      /\ Entry(x, t).outstanding = Entry(c, t).outstanding
      /\ Entry(x, t).changes = Entry(c, t).changes /\ Entry(x, t).current
  BY HeadOf DEF Telling
<1>2. c.incoming \in Seq(Message) /\ Sorted(c.incoming) /\ c.stream = "Open"
  BY <1>1, OnlineIs, ReadyIs DEF Net, Telltale
<1>3. /\ t \in DOMAIN c.listening /\ Flows(log, c, t) /\ ~Late(c, t)
      /\ Entry(c, t).outstanding = 0
  BY <1>1, ActiveTold
<1>4. /\ Served(x, t) /\ Known(c, t) /\ ~Late(x, t) /\ Asking(x, t) /\ Sees(log, x, t)
      /\ ~Before(x.incoming, Said("reset", t)) /\ ~Before(c.incoming, Said("reset", t))
      /\ Due(x.incoming, x.requests, t) = 0
  BY <1>1, ReadServed
<1> HIDE DEF t, c
<1>5. Known(x, t)
  BY <1>1, <1>2, <1>4, ReadKnown
<1>6. x.incoming = Tail(c.incoming) /\ x.listening[t] = c.listening[t]
      /\ RemoteKeys(x, t) = RemoteKeys(c, t)
  BY <1>1, <1>3 DEF ReadFrom
<1>7. Holds(x, t) = Holds(c, t)
  BY <1>1, <1>6 DEF Holds, OfType
<1>8. Collects(x, t)
  BY <1>1, <1>3, <1>4, <1>6 DEF Flows, Collects, OfType
<1>9. ~Some(x.incoming, Said("filter", t))
  <2>1. ~Some(x.incoming, Kind("filter"))
    BY <1>1, <1>2, <1>6, MailRead
  <2> QED
    BY <2>1 DEF Said, Kind, Some
<1>10. ASSUME NEW n, Delivers(log, c, t, n) PROVE Delivers(log, x, t, n)
  <2>1. /\ Some(x.incoming, Said("document", t)) <=> Some(c.incoming, Said("document", t))
        /\ Some(x.incoming, Said("filter", t)) <=> Some(c.incoming, Said("filter", t))
    BY <1>1, <1>2, <1>6, SomeTail
  <2>2. \A d : Some(x.incoming, DocOf(t, d)) <=> Some(c.incoming, DocOf(t, d))
    BY <1>1, <1>2, <1>6, SomeTail
  <2>3. \A d : Will(x, t, d) <=> Will(c, t, d)
    BY <1>4, <1>7 DEF Will
  <2>4. \A d : Rightly(log, c, t, d, n) => Rightly(log, x, t, d, n)
    BY <1>1, <1>6, <2>1, <2>2, <2>3 DEF Rightly
  <2>5. Confirmed(x, t)
    BY <1>1, <1>4, <1>9 DEF Confirmed
  <2> QED
    BY <1>1, <1>7, <1>10, <2>1, <2>4, <2>5 DEF Delivers
<1>11. \A n : Coming(x.incoming, n) <=> Coming(c.incoming, n)
  BY <1>1, <1>2, <1>6, ComingTail
<1>12. Brings(log, x, t)
  BY <1>3, <1>10, <1>11 DEF Flows, Brings
<1> QED
  BY <1>4, <1>5, <1>8, <1>12 DEF Right, Flows, t

\* A message that is about an inactive target only is not heard.
LEMMA UnheardExact ==
    ASSUME Ready, NEW kind \in {"current", "filter"}, Received(kind),
           ~IsActiveTarget(client, AboutTarget)
    PROVE  Exact(log, Online)
<1> DEFINE t == AboutTarget
           c == client
<1>1. /\ c.incoming # <<>> /\ t \in Watched /\ Right(log, c, t)
      /\ Head(c.incoming).kind \in Telling /\ Head(c.incoming).kind # "snapshot"
      /\ \A u : Head(c.incoming) \in Of(u) <=> u = t
      /\ Head(c.incoming) \notin Said("reset", t) /\ Head(c.incoming) \notin Answers(t)
  BY HeadOf DEF Telling
<1>2. World /\ c.incoming \in Seq(Message) /\ c.stream = "Open" /\ Typed(Online)
  BY <1>1, ReadyIs, OnlineIs
<1>3. Only(Online, Online, {"agg", "updates", "resets", "broken"})
  BY <1>2, OnlySame
<1>4. /\ ReadFrom(Online, c, t) /\ SameView(Online, Online) /\ SameDisk(Online, Online)
      /\ Online.keys = client.keys
  BY <1>1, <1>3, HeadRead
<1>5. /\ Online.agg = c.agg /\ Online.updates = c.updates /\ Online.resets = c.resets
      /\ Online.incoming = Tail(c.incoming) /\ Entry(Online, t) = Entry(c, t)
  BY <1>1, OnlineIs DEF Only, Fields
<1>6. Due(Online.incoming, Online.requests, t) = Due(c.incoming, c.requests, t)
  BY <1>1, <1>2, OnlineDue
<1>7. t \in DOMAIN c.listening => Late(c, t)
  BY <1>1, WaitingLate DEF IsActiveTarget
<1>8. Right(log, Online, t)
  <2> DEFINE x == Online
  <2>1. /\ ReadFrom(x, c, t) /\ x.agg = c.agg /\ x.updates = c.updates
        /\ Entry(x, t) = Entry(c, t)
        /\ Due(x.incoming, x.requests, t) = Due(c.incoming, c.requests, t)
    BY <1>4, <1>5, <1>6
  <2> HIDE DEF x, c, t
  <2>2. ASSUME t \notin DOMAIN c.listening PROVE Right(log, x, t)
    BY <1>1, <1>2, <2>1, <2>2, ReadUnwatched
  <2>3. ASSUME t \in DOMAIN c.listening PROVE Right(log, x, t)
    <3>1. Head(c.incoming) \notin Answers(t) \cup Said("reset", t)
      BY <1>1
    <3> QED
      BY <1>1, <1>2, <1>7, <2>1, <2>3, <3>1, ReadWaiting
  <2>4. Right(log, x, t)
    BY <2>2, <2>3
  <2> QED
    BY <2>4 DEF x, t
<1>9. Telltale(log, Online)
  BY <1>1, <1>4, <1>5, TelltaleRead
<1>10. ASSUME NEW u \in Watched
       PROVE  \/ Right(log, Online, u)
              \/ SameTarget(Online, Online, u) /\ Head(client.incoming) \notin Of(u)
  <2>1. CASE u = t
    BY <1>8, <2>1
  <2>2. CASE u # t
    <3>1. SameTarget(Online, Online, u)
      BY SameElse
    <3> QED
      BY <1>1, <2>2, <3>1
  <2> QED
    BY <2>1, <2>2
<1> QED
  BY <1>1, <1>4, <1>9, <1>10, ReadExact

\* HandleTargetChange, Current.
LEMMA TargetCurrentExact ==
    ASSUME Ready, TargetCurrent
    PROVE  Exact(log', client')
<1> DEFINE t == AboutTarget
           e == [Entry(client, t) EXCEPT !.current = TRUE]
           x == WithEntry(Online, t, e)
<1>1. /\ Received("current") /\ client.incoming # <<>> /\ t \in Watched
      /\ Head(client.incoming).kind = "current"
      /\ \A u : Head(client.incoming) \in Of(u) <=> u = t
  BY HeadOf DEF TargetCurrent
<1>2. Typed(client) /\ log' = log
  BY <1>1, ReadyIs, OnlineIs DEF TargetCurrent, Client
<1>3. CASE ~IsActiveTarget(client, t)
  <2>1. client' = Online
    BY <1>3 DEF TargetCurrent, Client
  <2>2. Exact(log, Online)
    BY <1>1, <1>3, UnheardExact
  <2> QED
    BY <1>2, <2>1, <2>2
<1>4. CASE IsActiveTarget(client, t)
  <2>1. client' = x
    BY <1>4 DEF TargetCurrent, Client
  <2>2. /\ e \in EntryType /\ DOMAIN e.changes \subseteq t.docs
        /\ e.outstanding = Entry(client, t).outstanding /\ e.current
        /\ e.changes = Entry(client, t).changes
    <3> DEFINE old == Entry(client, t)
    <3>1. old \in EntryType /\ DOMAIN old.changes \subseteq t.docs
      BY <1>1, <1>2, EntryTyped
    <3>2. e = [old EXCEPT !.current = TRUE]
      OBVIOUS
    <3> HIDE DEF old, e
    <3>3. /\ e \in EntryType /\ DOMAIN e.changes \subseteq t.docs
          /\ e.outstanding = old.outstanding /\ e.current = TRUE /\ e.changes = old.changes
      BY <3>1, <3>2 DEF EntryType
    <3> QED
      BY <3>3 DEF old
  <2>3. x = WithEntry(Online, t, e)
    OBVIOUS
  <2> HIDE DEF x, e
  <2>4. /\ ReadFrom(x, client, t) /\ DOMAIN x.agg = DOMAIN client.agg \cup {t}
        /\ Entry(x, t) = e /\ x.updates = client.updates /\ x.resets = client.resets
        /\ (Right(log, x, t) => Exact(log, x))
    BY <1>1, <2>2, <2>3, EntryRead
  <2>5. Right(log, x, t)
    BY <1>1, <1>4, <2>2, <2>4, CurrentRight
  <2> QED
    BY <1>2, <2>1, <2>4, <2>5
<1> QED
  BY <1>3, <1>4

-----------------------------------------------------------------------------
(***************************************************************************)
(* A document changes.                                                     *)
(***************************************************************************)
\* What a target has, and whether it is watched, does not depend on what is gathered.
LEMMA GatheredSees ==
    ASSUME NEW c, NEW y, Gathered(c, y)
    PROVE  /\ y.listening = c.listening /\ \A t : RemoteKeys(y, t) = RemoteKeys(c, t)
           /\ y.incoming = c.incoming /\ y.requests = c.requests /\ y.serving = c.serving
           /\ y.stream = c.stream /\ y.resets = c.resets /\ y.on = c.on /\ y.view = c.view
           /\ y.limbo = c.limbo /\ y.received = c.received /\ y.keys = c.keys /\ Typed(y)
<1>1. /\ y.listening = c.listening /\ y.received = c.received /\ y.on = c.on /\ y.view = c.view
      /\ y.incoming = c.incoming /\ y.requests = c.requests /\ y.serving = c.serving
      /\ y.stream = c.stream /\ y.resets = c.resets /\ y.limbo = c.limbo /\ y.keys = c.keys
  BY DEF Gathered, Only, Fields
<1>2. \A t : RemoteKeys(y, t) = RemoteKeys(c, t)
  BY <1>1 DEF RemoteKeys
<1> QED
  BY <1>1, <1>2 DEF Gathered

\* Client x is c with other changes and more documents gathered for target t.
Regathered(x, c, t, changes, update) ==
    /\ DOMAIN x.agg = DOMAIN c.agg \cup {t} /\ (\A u : u # t => Entry(x, u) = Entry(c, u))
    /\ Entry(x, t).outstanding = Entry(c, t).outstanding
    /\ Entry(x, t).current = Entry(c, t).current /\ Entry(x, t).changes = changes
    /\ x.updates = Over(update, c.updates)

\* An entry that has gathered something else.
LEMMA GatherIs ==
    ASSUME NEW c, Typed(c), NEW t \in Watched, NEW changes, NEW update, NEW x,
           x = [WithEntry(c, t, [Entry(c, t) EXCEPT !.changes = changes])
                   EXCEPT !.updates = Over(update, @)]
    PROVE  Regathered(x, c, t, changes, update)
<1> DEFINE old == Entry(c, t)
           e == [old EXCEPT !.changes = changes]
           w == WithEntry(c, t, e)
<1>1. old \in EntryType
  BY EntryTyped
<1>2. x = [w EXCEPT !.updates = Over(update, @)] /\ w = [c EXCEPT !.agg = With(@, t, e)]
  BY DEF WithEntry
<1> HIDE DEF w, e
<1>3. w.agg = With(c.agg, t, e) /\ w.updates = c.updates /\ Shape(w)
  BY <1>2 DEF Typed, Shape, Fields
<1>4. x.agg = With(c.agg, t, e) /\ x.updates = Over(update, c.updates)
  BY <1>2, <1>3 DEF Shape, Fields
<1>5. DOMAIN x.agg = DOMAIN c.agg \cup {t} /\ Entry(x, t) = e
      /\ \A u : u # t => Entry(x, u) = Entry(c, u)
  BY <1>4 DEF With, Over, Entry
<1>6. e.outstanding = old.outstanding /\ e.current = old.current /\ e.changes = changes
  <2> HIDE DEF old
  <2> QED
    BY <1>1 DEF e, EntryType
<1> QED
  BY <1>4, <1>5, <1>6 DEF Regathered

\* Client x is c after target t heard that it has document d (found), or that it has not.
Rechecked(x, c, t, d, found, update) ==
    /\ DOMAIN x.agg = DOMAIN c.agg \cup {t} /\ (\A u : u # t => Entry(x, u) = Entry(c, u))
    /\ SameTypes(x, c, t, {d})
    /\ (d \in OfType(Entry(x, t), "Added") <=> found /\ d \notin RemoteKeys(c, t))
    /\ (d \in OfType(Entry(x, t), "Removed") <=> ~found /\ d \in RemoteKeys(c, t))
    /\ x.updates = Over(update, c.updates)

\* A document that a target has is gathered as modified, another as added.
LEMMA AddDocumentIs ==
    ASSUME NEW c, Typed(c), NEW t \in Watched, IsActiveTarget(c, t), NEW d, NEW doc,
           NEW x, x = AddDocument(c, t, d, doc), NEW update, update = [y \in {d} |-> doc]
    PROVE  Rechecked(x, c, t, d, TRUE, update)
<1> DEFINE kind == IF d \in RemoteKeys(c, t) THEN "Modified" ELSE "Added"
           old == Entry(c, t).changes
           changes == With(old, d, kind)
<1>1. x = [WithEntry(c, t, [Entry(c, t) EXCEPT !.changes = changes])
              EXCEPT !.updates = Over(update, @)]
  BY DEF AddDocument, With
<1> HIDE DEF changes
<1>2. Regathered(x, c, t, changes, update)
  BY <1>1, GatherIs
<1>3. /\ DOMAIN changes = DOMAIN old \cup {d} /\ changes[d] = kind
      /\ \A e \in DOMAIN old : e # d => changes[e] = old[e]
  <2> HIDE DEF kind, old
  <2> QED
    BY DEF changes, With, Over
<1>4. /\ d \in OfType(Entry(x, t), "Added") <=> d \notin RemoteKeys(c, t)
      /\ d \notin OfType(Entry(x, t), "Removed")
  BY <1>2, <1>3 DEF OfType, Regathered
<1>5. \A e : e \notin {d} =>
         \A type : e \in OfType(Entry(x, t), type) <=> e \in OfType(Entry(c, t), type)
  BY <1>2, <1>3 DEF OfType, Regathered
<1>6. SameTypes(x, c, t, {d})
  BY <1>2, <1>5 DEF SameTypes, Regathered
<1> QED
  BY <1>2, <1>4, <1>6 DEF Regathered, Rechecked

\* A document that a target has is gathered as removed, another is not gathered.
LEMMA RemoveDocumentIs ==
    ASSUME NEW c, Typed(c), NEW t \in Watched, IsActiveTarget(c, t), NEW d, NEW update,
           NEW x, x = RemoveDocument(c, t, d, update)
    PROVE  Rechecked(x, c, t, d, FALSE, update)
<1> DEFINE old == Entry(c, t).changes
           changes == IF d \in RemoteKeys(c, t) THEN With(old, d, "Removed") ELSE Without(old, d)
<1>1. x = [WithEntry(c, t, [Entry(c, t) EXCEPT !.changes = changes])
              EXCEPT !.updates = Over(update, @)]
  BY DEF RemoveDocument
<1> HIDE DEF changes
<1>2. Regathered(x, c, t, changes, update)
  BY <1>1, GatherIs
<1>3. /\ d \in DOMAIN changes <=> d \in RemoteKeys(c, t)
      /\ d \in DOMAIN changes => changes[d] = "Removed"
      /\ \A e : e # d => (e \in DOMAIN changes <=> e \in DOMAIN old)
      /\ \A e \in DOMAIN old : e # d => changes[e] = old[e]
  <2> HIDE DEF old
  <2>1. CASE d \in RemoteKeys(c, t)
    <3>1. changes = With(old, d, "Removed")
      BY <2>1 DEF changes
    <3> QED
      BY <2>1, <3>1 DEF With, Over
  <2>2. CASE d \notin RemoteKeys(c, t)
    <3>1. changes = Without(old, d)
      BY <2>2 DEF changes
    <3> QED
      BY <2>2, <3>1 DEF Without, Restrict
  <2> QED
    BY <2>1, <2>2
<1>4. /\ d \notin OfType(Entry(x, t), "Added")
      /\ d \in OfType(Entry(x, t), "Removed") <=> d \in RemoteKeys(c, t)
  BY <1>2, <1>3 DEF OfType, Regathered
<1>5. \A e : e \notin {d} =>
         \A type : e \in OfType(Entry(x, t), type) <=> e \in OfType(Entry(c, t), type)
  BY <1>2, <1>3 DEF OfType, Regathered
<1>6. SameTypes(x, c, t, {d})
  BY <1>2, <1>5 DEF SameTypes, Regathered
<1> QED
  BY <1>2, <1>4, <1>6 DEF Regathered, Rechecked

\* What a message says of a document is heard by one more target, ...
LEMMA HeardStep ==
    ASSUME NEW c, Typed(c), c.stream = "Open", DOMAIN c.listening \subseteq DOMAIN c.agg,
           NEW m \in Document, NEW p, p = [goal |-> "exact", of |-> "change", from |-> c, m |-> m],
           NEW s \in SUBSET m.about, NEW t \in m.about \ s, NEW y, FoldInv(p, s, y)
    PROVE  FoldInv(p, s \cup {t}, FoldStep(p, t, y))
<1> DEFINE z == FoldStep(p, t, y)
<1>1. p.goal = "exact" /\ p.of = "change" /\ p.from = c /\ p.m = m
  OBVIOUS
<1>2. /\ Gathered(c, y) /\ DOMAIN y.agg = DOMAIN c.agg
      /\ \A u \in Watched : Heard(y, c, m, u, s)
      /\ DOMAIN c.updates \subseteq DOMAIN y.updates
      /\ \A d \in DOMAIN y.updates :
            \/ d \in DOMAIN c.updates /\ y.updates[d] = c.updates[d]
            \/ d \in DOMAIN m.update /\ y.updates[d] = m.update[d]
  BY <1>1 DEF FoldInv, ExactKept
<1>3. /\ t \in Watched /\ m.doc \in t.docs /\ m.update \in Partial(Docs, CachedDoc)
      /\ m.found \in BOOLEAN /\ (m.found => m.doc \in DOMAIN m.update)
  BY DEF Document, News, Finite
<1>4. z = IF m.found THEN AddDocument(y, t, m.doc, m.update[m.doc])
          ELSE RemoveDocument(y, t, m.doc, m.update)
  BY <1>1 DEF FoldStep
<1>5. Entry(y, t) = Entry(c, t)
  BY <1>2, <1>3 DEF Heard
<1>6. y.listening = c.listening /\ RemoteKeys(y, t) = RemoteKeys(c, t) /\ Typed(y)
  BY <1>2, GatheredSees
<1>7. IsActiveTarget(y, t) <=> IsActiveTarget(c, t)
  BY <1>5, <1>6 DEF IsActiveTarget
<1> HIDE DEF z
<1>8. CASE ~IsActiveTarget(c, t)
  <2>1. z = y
    BY <1>4, <1>7, <1>8 DEF AddDocument, RemoveDocument
  <2>2. ASSUME NEW u \in Watched PROVE Heard(y, c, m, u, s \cup {t})
    BY <1>2, <1>5, <1>8, <2>2, Zenon DEF Heard
  <2>3. FoldInv(p, s \cup {t}, y)
    BY <1>1, <1>2, <2>2 DEF FoldInv, ExactKept
  <2> QED
    BY <2>1, <2>3 DEF z
<1>9. CASE IsActiveTarget(c, t)
  <2> DEFINE more == IF m.found THEN [d \in {m.doc} |-> m.update[m.doc]] ELSE m.update
  <2>1. /\ DOMAIN z.agg = DOMAIN y.agg \cup {t} /\ (\A u : u # t => Entry(z, u) = Entry(y, u))
        /\ SameTypes(z, y, t, {m.doc})
        /\ (m.doc \in OfType(Entry(z, t), "Added") <=> m.found /\ m.doc \notin RemoteKeys(c, t))
        /\ (m.doc \in OfType(Entry(z, t), "Removed") <=> ~m.found /\ m.doc \in RemoteKeys(c, t))
        /\ z.updates = Over(more, y.updates) /\ Gathered(y, z)
    <3>1. CASE m.found
      <4>1. z = AddDocument(y, t, m.doc, m.update[m.doc])
        BY <1>4, <3>1
      <4>2. m.update[m.doc] \in CachedDoc
        BY <1>3, <3>1, PartialIs
      <4> DEFINE d == m.doc
                 v == m.update[m.doc]
      <4>3. z = AddDocument(y, t, d, v) /\ v \in CachedDoc /\ d \in t.docs /\ IsActiveTarget(y, t)
            /\ more = [e \in {d} |-> v]
        BY <1>3, <1>7, <1>9, <3>1, <4>1, <4>2
      <4> HIDE DEF d, v, more
      <4>4. Gathered(y, z)
        BY <1>3, <1>6, <4>3, AddDocumentTyped
      <4>5. Rechecked(z, y, t, d, TRUE, more)
        BY <1>3, <1>6, <4>3, AddDocumentIs
      <4> QED
        BY <1>6, <3>1, <4>4, <4>5 DEF d, Rechecked
    <3>2. CASE ~m.found
      <4>1. z = RemoveDocument(y, t, m.doc, m.update)
        BY <1>4, <3>2
      <4> DEFINE d == m.doc
                 v == m.update
      <4>3. z = RemoveDocument(y, t, d, v) /\ v \in Partial(Docs, CachedDoc) /\ d \in t.docs
            /\ IsActiveTarget(y, t) /\ more = v
        BY <1>3, <1>7, <1>9, <3>2, <4>1
      <4> HIDE DEF d, v, more
      <4>4. Gathered(y, z)
        BY <1>3, <1>6, <4>3, RemoveDocumentTyped
      <4>5. Rechecked(z, y, t, d, FALSE, more)
        BY <1>3, <1>6, <4>3, RemoveDocumentIs
      <4> QED
        BY <1>6, <3>2, <4>4, <4>5 DEF d, Rechecked
    <3> QED
      BY <1>3, <3>1, <3>2
  <2>2. /\ \A d \in DOMAIN more : d \in DOMAIN m.update /\ more[d] = m.update[d]
        /\ m.found => m.doc \in DOMAIN more
    BY <1>3
  <2> HIDE DEF more
  <2>3. Gathered(c, z)
    BY <1>2, <2>1, GatheredTrans
  <2>4. DOMAIN z.agg = DOMAIN c.agg
    <3>1. t \in DOMAIN c.agg
      BY <1>9 DEF IsActiveTarget
    <3> QED
      BY <1>2, <2>1, <3>1
  <2>5. /\ DOMAIN z.updates = DOMAIN y.updates \cup DOMAIN more
        /\ \A d \in DOMAIN z.updates :
              z.updates[d] = IF d \in DOMAIN more THEN more[d] ELSE y.updates[d]
    BY <2>1 DEF Over
  <2>6. ASSUME NEW u \in Watched PROVE Heard(z, c, m, u, s \cup {t})
    <3>1. CASE u # t
      <4>1. Entry(z, u) = Entry(y, u) /\ Heard(y, c, m, u, s)
        BY <1>2, <2>1, <3>1
      <4>2. u \in s \cup {t} <=> u \in s
        BY <3>1
      <4>3. \A D : SameTypes(y, c, u, D) => SameTypes(z, c, u, D)
        BY <4>1 DEF SameTypes
      <4> QED
        BY <2>5, <4>1, <4>2, <4>3 DEF Heard
    <3>2. CASE u = t
      <4>1. SameTypes(z, c, t, {m.doc})
        BY <1>5, <2>1 DEF SameTypes
      <4> QED
        BY <1>9, <2>1, <2>2, <2>5, <3>2, <4>1 DEF Heard
    <3> QED
      BY <3>1, <3>2
  <2>7. DOMAIN c.updates \subseteq DOMAIN z.updates
    BY <1>2, <2>5
  <2>8. ASSUME NEW d \in DOMAIN z.updates
        PROVE  \/ d \in DOMAIN c.updates /\ z.updates[d] = c.updates[d]
               \/ d \in DOMAIN m.update /\ z.updates[d] = m.update[d]
    BY <1>2, <2>2, <2>5
  <2>9. FoldInv(p, s \cup {t}, z)
    BY <1>1, <2>3, <2>4, <2>6, <2>7, <2>8 DEF FoldInv, ExactKept
  <2> QED
    BY <2>9 DEF z
<1> QED
  BY <1>8, <1>9

\* ... and by all that it is about.
LEMMA HeardAll ==
    ASSUME NEW c, Typed(c), c.stream = "Open", DOMAIN c.listening \subseteq DOMAIN c.agg,
           NEW m \in Document
    PROVE  LET change(t, y) == IF m.found THEN AddDocument(y, t, m.doc, m.update[m.doc])
                               ELSE RemoveDocument(y, t, m.doc, m.update)
               x == FoldSet(change, c, m.about)
           IN  /\ Gathered(c, x) /\ DOMAIN x.agg = DOMAIN c.agg
               /\ \A t \in Watched : Heard(x, c, m, t, m.about)
               /\ DOMAIN c.updates \subseteq DOMAIN x.updates
               /\ \A d \in DOMAIN x.updates :
                     \/ d \in DOMAIN c.updates /\ x.updates[d] = c.updates[d]
                     \/ d \in DOMAIN m.update /\ x.updates[d] = m.update[d]
<1> DEFINE p == [goal |-> "exact", of |-> "change", from |-> c, m |-> m]
           S == m.about
           change(t, y) == IF m.found THEN AddDocument(y, t, m.doc, m.update[m.doc])
                           ELSE RemoveDocument(y, t, m.doc, m.update)
           f == FoldSet(change, c, S)
<1>1. S \subseteq Watched /\ IsFiniteSet(S)
  BY DEF Document, News, Finite
<1>2. FoldInv(p, {}, c)
  <2>1. Gathered(c, c)
    BY GatheredSame
  <2>2. \A t : Heard(c, c, m, t, {})
    BY DEF Heard
  <2> QED
    BY <2>1, <2>2 DEF FoldInv, ExactKept
<1>3. ASSUME NEW r \in SUBSET S, NEW t \in S \ r, NEW y, FoldInv(p, r, y)
      PROVE  FoldInv(p, r \cup {t}, FoldStep(p, t, y))
  <2> DEFINE q == p
  <2>1. q = [goal |-> "exact", of |-> "change", from |-> c, m |-> m] /\ FoldInv(q, r, y)
    BY <1>3
  <2> HIDE DEF q, p
  <2>2. FoldInv(q, r \cup {t}, FoldStep(q, t, y))
    BY <1>3, <2>1, HeardStep
  <2> QED
    BY <2>2 DEF q
<1>4. FoldInv(p, S, FoldedSet(p, c, S))
  <2> HIDE DEF p, S
  <2> QED
    BY <1>1, <1>2, <1>3, FoldKeeps
<1>5. f = FoldedSet(p, c, S)
  BY DEF FoldSet, MapThenFoldSet, FoldedSet, FoldStep
<1>6. /\ Gathered(c, f) /\ DOMAIN f.agg = DOMAIN c.agg
      /\ \A t \in Watched : Heard(f, c, m, t, S)
      /\ DOMAIN c.updates \subseteq DOMAIN f.updates
      /\ \A d \in DOMAIN f.updates :
            \/ d \in DOMAIN c.updates /\ f.updates[d] = c.updates[d]
            \/ d \in DOMAIN m.update /\ f.updates[d] = m.update[d]
  <2> HIDE DEF f
  <2> QED
    BY <1>4, <1>5 DEF FoldInv, ExactKept
<1> QED
  BY <1>6

\* A target that is told something is right if what it is brought stays so.
LEMMA ToldRight ==
    ASSUME Ready, client.incoming # <<>>, Head(client.incoming).kind \in Telling,
           Head(client.incoming).kind # "snapshot", NEW t \in Watched, IsActiveTarget(client, t),
           NEW x, ReadFrom(x, client, t), t \in DOMAIN x.agg,
           Entry(x, t).outstanding = Entry(client, t).outstanding,
           \A d \in OfType(Entry(x, t), "Added") :
              d \notin RemoteKeys(client, t) /\ d \in DOMAIN x.updates,
           \A n : Coming(client.incoming, n) /\ Delivers(log, client, t, n) => Delivers(log, x, t, n)
    PROVE  Right(log, x, t)
<1> DEFINE c == client
<1>1. c.incoming \in Seq(Message) /\ c.incoming # <<>> /\ c.stream = "Open"
  BY OnlineIs
<1>2. /\ t \in DOMAIN c.listening /\ Flows(log, c, t) /\ ~Late(c, t)
      /\ Entry(c, t).outstanding = 0
  BY <1>1, ActiveTold
<1>3. /\ Served(x, t) /\ Known(c, t) /\ ~Late(x, t) /\ Asking(x, t) /\ Sees(log, x, t)
      /\ Due(x.incoming, x.requests, t) = 0
  BY <1>1, ReadServed
<1>4. ReadFrom(x, c, t)
  OBVIOUS
<1>5. Known(x, t)
  <2> HIDE DEF c
  <2> QED
    BY <1>1, <1>3, <1>4, ReadKnown
<1>6. x.incoming = Tail(c.incoming) /\ RemoteKeys(x, t) = RemoteKeys(c, t)
  BY <1>2, <1>4 DEF ReadFrom
<1>7. Collects(x, t)
  BY <1>2, <1>3, <1>6 DEF Collects
<1>8. \A n : Coming(x.incoming, n) <=> Coming(c.incoming, n)
  BY <1>1, <1>6, ComingTail
<1>9. Brings(log, x, t)
  BY <1>2, <1>8 DEF Flows, Brings
<1> QED
  BY <1>3, <1>5, <1>7, <1>9 DEF Right, Flows

\* A target that has heard of a document has what the server has of it.
LEMMA HeardRight ==
    ASSUME Ready, client.incoming # <<>>, NEW m, m = Head(client.incoming), m.kind = "document",
           NEW t \in m.about, t \in Watched, IsActiveTarget(client, t),
           NEW x, ReadFrom(x, client, t), t \in DOMAIN x.agg, x.resets = client.resets,
           DOMAIN client.updates \subseteq DOMAIN x.updates, Heard(x, client, m, t, m.about)
    PROVE  Right(log, x, t)
<1> DEFINE c == client
           in == c.incoming
<1>1. /\ in \in Seq(Message) /\ in # <<>> /\ Head(in) = m /\ m \in Message
      /\ m.kind \in Telling /\ m.kind # "snapshot"
  BY OnlineIs DEF Telling
<1>2. m.doc \in t.docs
  BY <1>1 DEF Message, Single, Filter, Snapshot, Document
<1>3. Sorted(in) /\ \A n : Coming(in, n) => TrueMail(log, in, n)
  BY ReadyIs DEF Net, Telltale
<1>4. /\ t \in DOMAIN c.listening /\ Flows(log, c, t) /\ Entry(c, t).outstanding = 0
  BY ActiveTold
<1>5. /\ ~Before(x.incoming, Said("reset", t)) /\ ~Before(in, Said("reset", t))
  BY <1>1, ReadServed
<1>6. x.incoming = Tail(in) /\ x.listening[t] = c.listening[t]
      /\ RemoteKeys(x, t) = RemoteKeys(c, t)
  BY <1>4 DEF ReadFrom
<1> DEFINE h == m.doc
<1>7. /\ SameTypes(x, c, t, {h})
      /\ (h \in OfType(Entry(x, t), "Added") <=> m.found /\ h \notin RemoteKeys(c, t))
      /\ (h \in OfType(Entry(x, t), "Removed") <=> ~m.found /\ h \in RemoteKeys(c, t))
      /\ (m.found => h \in DOMAIN x.updates)
  BY DEF Heard
<1>8. m \in Said("document", t) /\ m \notin Said("filter", t) /\ m \notin Said("current", t)
      /\ \A d : d # h => m \notin DocOf(t, d)
  BY <1>1 DEF Said, DocOf
<1>9. /\ DOMAIN c.updates \subseteq DOMAIN x.updates /\ x.resets = c.resets
      /\ \A d \in OfType(Entry(c, t), "Added") : d \notin RemoteKeys(c, t) /\ d \in DOMAIN c.updates
  BY <1>4 DEF Flows, Collects
<1> HIDE DEF c, in, h
<1>10. /\ Some(in, Said("document", t))
       /\ Some(x.incoming, Said("filter", t)) <=> Some(in, Said("filter", t))
       /\ Some(x.incoming, Said("current", t)) <=> Some(in, Said("current", t))
  BY <1>1, <1>6, <1>8, SomeTail
<1>11. \A d : d # h => (Some(x.incoming, DocOf(t, d)) <=> Some(in, DocOf(t, d)))
  BY <1>1, <1>6, <1>8, SomeTail
<1>12. /\ Entry(x, t).outstanding = Entry(c, t).outstanding
       /\ Entry(x, t).current = Entry(c, t).current
       /\ \A d : d # h =>
             /\ d \in OfType(Entry(x, t), "Added") <=> d \in OfType(Entry(c, t), "Added")
             /\ d \in OfType(Entry(x, t), "Removed") <=> d \in OfType(Entry(c, t), "Removed")
  BY <1>7 DEF SameTypes
<1>13. ASSUME NEW d \in OfType(Entry(x, t), "Added")
       PROVE  d \notin RemoteKeys(c, t) /\ d \in DOMAIN x.updates
  BY <1>7, <1>9, <1>12
<1>14. \A d : d # h => (d \in Holds(x, t) <=> d \in Holds(c, t))
  BY <1>6, <1>12 DEF Holds
<1>15. h \in Holds(x, t) <=> m.found
  BY <1>6, <1>7 DEF Holds
<1>16. ASSUME NEW n, Coming(in, n), Delivers(log, c, t, n) PROVE Delivers(log, x, t, n)
  <2>1. TrueMessage(log, m, n)
    <3>1. TrueMail(log, in, n) /\ Head(in).kind # "snapshot"
      BY <1>1, <1>3, <1>16
    <3>2. TrueMessage(log, Head(in), n)
      BY <1>1, <3>1, MailRead
    <3> QED
      BY <1>1, <3>2
  <2>2. t \notin c.resets /\ \A d \in t.docs : Rightly(log, c, t, d, n)
    BY <1>10, <1>16 DEF Delivers, in
  <2>3. h \in Have(log, t, n) <=> m.found
    BY <1>1, <1>2, <2>1 DEF TrueMessage, Have, h
  <2>4. Rightly(log, x, t, h, n)
    BY <1>5, <1>7, <1>15, <2>3 DEF Rightly, Will
  <2>5. ASSUME NEW d \in t.docs, d # h PROVE Rightly(log, x, t, d, n)
    <3>1. Will(x, t, d) <=> Will(c, t, d)
      BY <1>5, <1>14, <2>5 DEF Will, in
    <3> QED
      BY <1>6, <1>9, <1>10, <1>11, <2>2, <2>5, <3>1 DEF Rightly, in
  <2>6. Confirmed(x, t)
    BY <1>5, <1>10, <1>12, <1>16 DEF Confirmed, Delivers, in
  <2> QED
    BY <1>9, <2>2, <2>4, <2>5, <2>6 DEF Delivers
<1>17. \A n : Coming(client.incoming, n) /\ Delivers(log, client, t, n) => Delivers(log, x, t, n)
  BY <1>16 DEF c, in
<1>18. \A d \in OfType(Entry(x, t), "Added") :
          d \notin RemoteKeys(client, t) /\ d \in DOMAIN x.updates
  BY <1>13 DEF c
<1>19. Entry(x, t).outstanding = Entry(client, t).outstanding
  BY <1>12 DEF c
<1> QED
  BY <1>1, <1>17, <1>18, <1>19, ToldRight DEF in, c

\* What a document brought is true.
LEMMA DocumentTelltale ==
    ASSUME Ready, client.incoming # <<>>, NEW m, m = Head(client.incoming), m.kind = "document",
           NEW x, x.incoming = Tail(client.incoming), x.resets = client.resets,
           x.keys = client.keys,
           \A d \in DOMAIN x.updates :
              \/ d \in DOMAIN client.updates /\ x.updates[d] = client.updates[d]
              \/ d \in DOMAIN m.update /\ x.updates[d] = m.update[d]
    PROVE  Telltale(log, x)
<1> DEFINE c == client
           in == c.incoming
<1>1. in \in Seq(Message) /\ in # <<>> /\ Head(in).kind = "document"
  BY OnlineIs
<1>2. Telltale(log, c) /\ \A n : Coming(in, n) => n \in Nat
  BY ReadyIs, VersionsOf DEF Net
<1>3. Reports(Tail(in), 1) /\ Tail(in) # <<>>
  BY <1>1, HeadTells DEF Telling
<1>4. Sorted(in) /\ c.resets \subseteq {Query}
      /\ \A n : Coming(in, n) =>
            TrueMail(log, in, n) /\ \A d \in DOMAIN c.updates : TrueUpdate(log, c, d, n)
  BY <1>2 DEF Telltale
<1> HIDE DEF c, in
<1>5. Sorted(Tail(in)) /\ \A n : Coming(Tail(in), n) <=> Coming(in, n)
  BY <1>1, <1>4, MailRead
<1>6. ASSUME NEW n, Coming(Tail(in), n)
      PROVE  TrueMail(log, Tail(in), n) /\ \A d \in DOMAIN x.updates : TrueUpdate(log, x, d, n)
  <2>1. TrueMail(log, Tail(in), n) /\ TrueMessage(log, m, n)
    BY <1>1, <1>4, <1>5, <1>6, MailRead DEF c, in
  <2>2. ASSUME NEW d \in DOMAIN x.updates PROVE TrueUpdate(log, x, d, n)
    <3>1. CASE d \in DOMAIN c.updates /\ x.updates[d] = c.updates[d]
      <4>1. TrueUpdate(log, c, d, n)
        BY <1>4, <1>5, <1>6, <3>1
      <4> QED
        BY <3>1, <4>1 DEF TrueUpdate, c
    <3>2. CASE d \in DOMAIN m.update /\ x.updates[d] = m.update[d]
      <4>1. d = m.doc /\ x.updates[d] = Update(log, d, n) /\ Newest(log, d, n) > 0
        BY <2>1, <3>2 DEF TrueMessage
      <4>2. n \in Nat
        BY <1>2, <1>5, <1>6 DEF in
      <4>3. Newest(log, d, n) \in 0 .. n
        BY <4>2, NewestIs
      <4> QED
        BY <4>1, <4>2, <4>3 DEF TrueUpdate, Update
    <3> QED
      BY <3>1, <3>2 DEF c
  <2> QED
    BY <2>1, <2>2
<1> QED
  BY <1>3, <1>4, <1>5, <1>6 DEF Telltale, c, in

\* HandleDocumentChange.
LEMMA DocumentChangeExact ==
    ASSUME Ready, DocumentChange
    PROVE  Exact(log', client')
<1> DEFINE m == Head(client.incoming)
           change(t, c) == IF m.found THEN AddDocument(c, t, m.doc, m.update[m.doc])
                           ELSE RemoveDocument(c, t, m.doc, m.update)
           x == FoldSet(change, Online, m.about)
<1>1. client.incoming # <<>> /\ m.kind = "document"
  BY Zenon DEF DocumentChange, Received
<1>2. client' = x /\ log' = log
  BY DEF DocumentChange, Client
<1>3. /\ Typed(Online) /\ Online.incoming = Tail(client.incoming) /\ client.stream = "Open"
      /\ m \in Message /\ client.incoming \in Seq(Message)
      /\ Only(Online, client, {"incoming", "online", "raised", "view", "timer", "failed"})
      /\ \A t : /\ RemoteKeys(Online, t) = RemoteKeys(client, t)
                /\ Entry(Online, t) = Entry(client, t)
  BY <1>1, OnlineIs
<1>4. /\ Online.stream = "Open" /\ Online.listening = client.listening /\ Online.agg = client.agg
      /\ Online.updates = client.updates /\ Online.resets = client.resets
      /\ Online.keys = client.keys /\ Online.requests = client.requests
      /\ DOMAIN Online.listening \subseteq DOMAIN Online.agg
  BY <1>3, ReadyIs DEF Only, Fields
<1>5. m \in Document /\ m.about \subseteq Watched
  BY <1>1, <1>3, MessageAbout DEF Message, Single, Filter, Snapshot
<1>6. /\ Gathered(Online, x) /\ DOMAIN x.agg = DOMAIN Online.agg
      /\ \A t \in Watched : Heard(x, Online, m, t, m.about)
      /\ DOMAIN Online.updates \subseteq DOMAIN x.updates
      /\ \A d \in DOMAIN x.updates :
            \/ d \in DOMAIN Online.updates /\ x.updates[d] = Online.updates[d]
            \/ d \in DOMAIN m.update /\ x.updates[d] = m.update[d]
  BY <1>3, <1>4, <1>5, HeardAll
<1> HIDE DEF x
<1>7. Only(x, Online, {"agg", "updates", "broken"}) /\ x.resets = Online.resets
      /\ x.incoming = Online.incoming /\ x.requests = Online.requests
      /\ Only(x, Online, {"agg", "updates", "resets", "broken"})
  BY <1>6 DEF Gathered, Only, Fields
<1>8. /\ \A t : ReadFrom(x, client, t)
      /\ SameView(x, Online) /\ SameDisk(x, Online) /\ x.limbo = Online.limbo
      /\ x.keys = client.keys
  BY <1>1, <1>7, HeadRead
<1>9. Telltale(log, x)
  <2> DEFINE h == m
  <2>1. h = Head(client.incoming) /\ h.kind = "document"
        /\ \A d \in DOMAIN x.updates :
              \/ d \in DOMAIN client.updates /\ x.updates[d] = client.updates[d]
              \/ d \in DOMAIN h.update /\ x.updates[d] = h.update[d]
    BY <1>1, <1>4, <1>6
  <2> HIDE DEF h, m
  <2>2. x.incoming = Tail(client.incoming) /\ x.resets = client.resets
    BY <1>3, <1>4, <1>7
  <2> QED
    BY <1>1, <1>8, <2>1, <2>2, DocumentTelltale
<1>10. ASSUME NEW t \in Watched
       PROVE  \/ Right(log, x, t)
              \/ SameTarget(x, Online, t) /\ Head(client.incoming) \notin Of(t)
  <2>1. Heard(x, Online, m, t, m.about)
    BY <1>6
  <2>2. t \in DOMAIN x.agg <=> t \in DOMAIN client.agg
    BY <1>4, <1>6
  <2>3. IsActiveTarget(Online, t) <=> IsActiveTarget(client, t)
    BY <1>3, <1>4 DEF IsActiveTarget
  <2>4. Right(log, client, t) /\ World
    BY ReadyIs DEF Net
  <2>5. CASE t \notin m.about
    <3>1. Entry(x, t) = Entry(Online, t)
      BY <2>1, <2>5 DEF Heard
    <3>2. \A u : RemoteKeys(x, u) = RemoteKeys(Online, u)
      BY <1>6, GatheredSees
    <3>3. x.listening = Online.listening /\ x.serving = Online.serving /\ x.stream = Online.stream
      BY <1>7 DEF Only, Fields
    <3>4. t \in DOMAIN x.agg <=> t \in DOMAIN Online.agg
      BY <1>6
    <3>5. SameTarget(x, Online, t)
      BY <1>6, <1>7, <3>1, <3>2, <3>3, <3>4, SameElse
    <3> QED
      BY <2>5, <3>5 DEF Of
  <2>6. CASE t \in m.about /\ t \notin DOMAIN client.listening
    BY <1>1, <1>3, <1>8, <2>2, <2>4, <2>6, ReadUnwatched
  <2>7. CASE t \in m.about /\ t \in DOMAIN client.listening /\ ~IsActiveTarget(client, t)
    <3>1. Entry(x, t) = Entry(client, t)
      BY <1>3, <2>1, <2>3, <2>7 DEF Heard
    <3>2. Late(client, t)
      BY <1>1, <2>7, WaitingLate DEF IsActiveTarget, Telling
    <3>3. Head(client.incoming) \notin Answers(t) \cup Said("reset", t)
      BY <1>1 DEF Answers, Said
    <3>4. Due(x.incoming, x.requests, t) = Due(client.incoming, client.requests, t)
      BY <1>1, <1>7, <2>4, <3>3, OnlineDue
    <3>5. DOMAIN client.updates \subseteq DOMAIN x.updates
      BY <1>4, <1>6
    <3> QED
      BY <1>1, <1>3, <1>8, <2>2, <2>4, <2>7, <3>1, <3>2, <3>3, <3>4, <3>5, ReadWaiting
  <2>8. CASE t \in m.about /\ t \in DOMAIN client.listening /\ IsActiveTarget(client, t)
    <3> DEFINE h == m
    <3>1. Heard(x, client, m, t, m.about)
      BY <1>3, <2>1, <2>3, <2>8 DEF Heard, SameTypes
    <3>2. /\ t \in DOMAIN x.agg /\ x.resets = client.resets
          /\ DOMAIN client.updates \subseteq DOMAIN x.updates
      BY <1>4, <1>6, <1>7, <2>2, <2>8, ReadyIs
    <3>3. h = Head(client.incoming) /\ h.kind = "document" /\ t \in h.about
          /\ Heard(x, client, h, t, h.about)
      BY <1>1, <2>8, <3>1
    <3> HIDE DEF h, m
    <3> QED
      BY <1>1, <1>8, <2>8, <3>2, <3>3, HeardRight
  <2> QED
    BY <2>5, <2>6, <2>7, <2>8
<1> QED
  BY <1>1, <1>2, <1>8, <1>9, <1>10, ReadExact

-----------------------------------------------------------------------------
(***************************************************************************)
(* A target is reset.                                                      *)
(***************************************************************************)
\* A target that starts over has one more document removed, ...
LEMMA ResetStep ==
    ASSUME NEW c, Typed(c), NEW t \in Watched, IsActiveTarget(c, t), t \in DOMAIN c.agg,
           NEW p, p = [goal |-> "exact", of |-> "reset", from |-> c, target |-> t],
           NEW s \in SUBSET RemoteKeys(c, t), NEW d \in RemoteKeys(c, t) \ s,
           NEW y, FoldInv(p, s, y)
    PROVE  FoldInv(p, s \cup {d}, FoldStep(p, d, y))
<1> DEFINE z == FoldStep(p, d, y)
<1>1. p.goal = "exact" /\ p.of = "reset" /\ p.from = c /\ p.target = t
  OBVIOUS
<1>2. /\ Gathered(c, y) /\ DOMAIN y.agg = DOMAIN c.agg /\ y.updates = c.updates
      /\ \A u \in Watched : u # t => Entry(y, u) = Entry(c, u)
      /\ SameTypes(y, c, t, s) /\ s \subseteq OfType(Entry(y, t), "Removed")
  BY <1>1 DEF FoldInv, ExactKept
<1>3. z = RemoveDocument(y, t, d, <<>>)
  BY <1>1 DEF FoldStep
<1>4. y.listening = c.listening /\ RemoteKeys(y, t) = RemoteKeys(c, t) /\ Typed(y)
  BY <1>2, GatheredSees
<1>5. IsActiveTarget(y, t)
  BY <1>2, <1>4 DEF IsActiveTarget, SameTypes
<1>6. d \in t.docs
  BY RemoteKeysTyped
<1> DEFINE none == <<>>
<1>7. none \in Partial(Docs, CachedDoc) /\ DOMAIN none = {} /\ z = RemoveDocument(y, t, d, none)
  BY <1>3, PartialNone
<1> HIDE DEF z, none
<1>8. Gathered(y, z)
  BY <1>4, <1>6, <1>7, RemoveDocumentTyped
<1>9. Rechecked(z, y, t, d, FALSE, none)
  BY <1>4, <1>5, <1>7, RemoveDocumentIs
<1>10. /\ DOMAIN z.agg = DOMAIN y.agg \cup {t} /\ (\A u : u # t => Entry(z, u) = Entry(y, u))
       /\ SameTypes(z, y, t, {d}) /\ d \in OfType(Entry(z, t), "Removed")
       /\ z.updates = Over(none, y.updates)
  BY <1>4, <1>9 DEF Rechecked
<1>11. z.updates = y.updates
  <2>1. y.updates = [e \in DOMAIN y.updates |-> y.updates[e]]
    BY <1>4, FieldTypes, PartialIs
  <2> QED
    BY <1>7, <1>10, <2>1 DEF Over
<1>12. Gathered(c, z)
  BY <1>2, <1>8, GatheredTrans
<1>13. DOMAIN z.agg = DOMAIN c.agg
  BY <1>2, <1>10
<1>14. SameTypes(z, c, t, s \cup {d})
  BY <1>2, <1>10 DEF SameTypes
<1>15. s \cup {d} \subseteq OfType(Entry(z, t), "Removed")
  BY <1>2, <1>10 DEF SameTypes
<1>16. FoldInv(p, s \cup {d}, z)
  BY <1>1, <1>2, <1>10, <1>11, <1>12, <1>13, <1>14, <1>15 DEF FoldInv, ExactKept
<1> QED
  BY <1>16 DEF z

\* ... until it has none.
LEMMA ResetTargetIs ==
    ASSUME NEW c, Typed(c), NEW t \in Watched, IsActiveTarget(c, t), NEW x, x = ResetTarget(c, t)
    PROVE  /\ Gathered(c, x) /\ DOMAIN x.agg = DOMAIN c.agg \cup {t} /\ x.updates = c.updates
           /\ \A u \in Watched : u # t => Entry(x, u) = Entry(c, u)
           /\ Entry(x, t).outstanding = 0 /\ OfType(Entry(x, t), "Added") = {}
           /\ Holds(x, t) = {} /\ x.resets = c.resets
<1> DEFINE holds == t \in DOMAIN c.agg /\ Entry(c, t).outstanding = 0
           w == WithEntry(c, t, NewEntry)
           r == Require(w, holds)
           S == RemoteKeys(c, t)
           p == [goal |-> "exact", of |-> "reset", from |-> r, target |-> t]
           remove(d, y) == RemoveDocument(y, t, d, <<>>)
<1>1. NewEntry \in EntryType /\ DOMAIN NewEntry.changes = {} /\ NewEntry.outstanding = 0
  BY PartialNone DEF NewEntry, EntryType
<1>2. Typed(w) /\ Only(w, c, {"agg"}) /\ w.agg = With(c.agg, t, NewEntry)
  BY <1>1, WithEntryTyped
<1> HIDE DEF w
<1>3. Typed(r) /\ Only(r, w, {"broken"})
  BY <1>2, RequireTyped
<1> HIDE DEF r
<1>4. r.agg = With(c.agg, t, NewEntry) /\ Only(r, c, {"agg", "broken"})
  <2>1. r.agg = w.agg
    BY <1>3 DEF Only, Fields
  <2>2. Only(r, c, {"agg"} \cup {"broken"})
    BY <1>2, <1>3, OnlyTrans
  <2> QED
    BY <1>2, <2>1, <2>2 DEF Only
<1>5. /\ DOMAIN r.agg = DOMAIN c.agg \cup {t} /\ Entry(r, t) = NewEntry
      /\ \A u : u # t => Entry(r, u) = Entry(c, u)
  BY <1>4 DEF With, Over, Entry
<1>6. Gathered(c, r)
  BY <1>3, <1>4 DEF Gathered, Only
<1>7. r.listening = c.listening /\ RemoteKeys(r, t) = S
  BY <1>6, GatheredSees
<1>8. IsActiveTarget(r, t) /\ r.updates = c.updates
  BY <1>1, <1>4, <1>5, <1>7 DEF IsActiveTarget, Only, Fields
<1>9. FoldInv(p, {}, r)
  <2>1. Gathered(r, r)
    BY <1>3, GatheredSame
  <2> QED
    BY <2>1 DEF FoldInv, ExactKept, SameTypes
<1>10. ASSUME NEW s \in SUBSET S, NEW d \in S \ s, NEW y, FoldInv(p, s, y)
       PROVE  FoldInv(p, s \cup {d}, FoldStep(p, d, y))
  <2> DEFINE q == p
  <2>1. /\ q = [goal |-> "exact", of |-> "reset", from |-> r, target |-> t] /\ FoldInv(q, s, y)
        /\ s \in SUBSET RemoteKeys(r, t) /\ d \in RemoteKeys(r, t) \ s /\ t \in DOMAIN r.agg
    BY <1>5, <1>7, <1>10
  <2> HIDE DEF q, p
  <2>2. FoldInv(q, s \cup {d}, FoldStep(q, d, y))
    BY <1>3, <1>8, <2>1, ResetStep
  <2> QED
    BY <2>2 DEF q
<1>11. IsFiniteSet(S)
  <2>1. S \subseteq Docs
    BY RemoteKeysTyped
  <2> QED
    BY <2>1, DocsAssumption, FS_Subset
<1>12. FoldInv(p, S, FoldedSet(p, r, S))
  <2> HIDE DEF p, S
  <2> QED
    BY <1>9, <1>10, <1>11, FoldKeeps
<1>13. x = FoldSet(remove, r, S)
  BY DEF ResetTarget, r, w
<1>14. FoldSet(remove, r, S) = FoldedSet(p, r, S)
  BY DEF FoldSet, MapThenFoldSet, FoldedSet, FoldStep
<1>15. FoldInv(p, S, x)
  BY <1>12, <1>13, <1>14
<1>16. /\ Gathered(r, x) /\ DOMAIN x.agg = DOMAIN r.agg /\ x.updates = r.updates
       /\ \A u \in Watched : u # t => Entry(x, u) = Entry(r, u)
       /\ SameTypes(x, r, t, S) /\ S \subseteq OfType(Entry(x, t), "Removed")
  BY <1>15 DEF FoldInv, ExactKept
<1>17. Gathered(c, x)
  BY <1>6, <1>16, GatheredTrans
<1>18. RemoteKeys(x, t) = S /\ x.resets = c.resets
  BY <1>17, GatheredSees
<1> HIDE DEF S, p
<1>19. OfType(Entry(x, t), "Added") = {}
  <2>1. \A type : OfType(Entry(r, t), type) = {}
    BY <1>1, <1>5 DEF OfType
  <2>2. \A d \in S : d \notin OfType(Entry(x, t), "Added")
    BY <1>16 DEF OfType
  <2> QED
    BY <1>16, <2>1, <2>2 DEF SameTypes
<1>20. Holds(x, t) = {}
  BY <1>16, <1>18, <1>19 DEF Holds
<1>21. Entry(x, t).outstanding = 0
  BY <1>1, <1>5, <1>16 DEF SameTypes
<1> QED
  BY <1>5, <1>8, <1>16, <1>17, <1>18, <1>19, <1>20, <1>21

\* A target that the server starts over, active or not yet, is still right.
LEMMA ResetRight ==
    ASSUME Ready, Received("reset"), AboutTarget \in DOMAIN client.listening,
           NEW x, ReadFrom(x, client, AboutTarget), AboutTarget \in DOMAIN x.agg, Typed(x),
           x.updates = client.updates, x.resets = client.resets,
           \/ /\ Entry(client, AboutTarget).outstanding # 0
              /\ Entry(x, AboutTarget) = Entry(client, AboutTarget)
           \/ /\ Entry(client, AboutTarget).outstanding = 0
              /\ Entry(x, AboutTarget).outstanding = 0
              /\ OfType(Entry(x, AboutTarget), "Added") = {} /\ Holds(x, AboutTarget) = {}
    PROVE  Right(log, x, AboutTarget)
<1> DEFINE t == AboutTarget
           c == client
           in == c.incoming
           R == Said("reset", t)
           old == Entry(c, t)
           new == Entry(x, t)
<1>1. /\ t \in Watched /\ in # <<>> /\ Head(in).kind = "reset" /\ Right(log, c, t)
      /\ \A A : Head(in) \notin Said(A, t) \/ A = "reset"
      /\ Head(in) \in Of(t) /\ Head(in) \notin Answers(t) /\ \A d : Head(in) \notin DocOf(t, d)
  BY HeadOf
<1>2. /\ in \in Seq(Message) /\ c.requests \in Seq(RequestType) /\ c.stream = "Open" /\ World
      /\ Typed(c)
  BY <1>1, OnlineIs, ReadyIs
<1>3. Head(in) \in R
  BY <1>1 DEF Of, Said
<1>4. /\ t \in DOMAIN c.listening /\ ReadFrom(x, c, t) /\ t \in DOMAIN x.agg
      /\ x.updates = c.updates /\ x.resets = c.resets
      /\ \/ old.outstanding # 0 /\ new = old
         \/ /\ old.outstanding = 0 /\ new.outstanding = 0
            /\ OfType(new, "Added") = {} /\ Holds(x, t) = {}
  OBVIOUS
<1>5. Sees(log, c, t) /\ Flows(log, c, t) /\ Known(c, t)
  BY <1>1, <1>2, <1>4 DEF Right
<1>6. Due(x.incoming, x.requests, t) = Due(in, c.requests, t)
  <2>1. Online.incoming = Tail(in) /\ Online.requests = c.requests
    BY <1>1, OnlineIs DEF Only, Fields
  <2> QED
    BY <1>1, <1>2, <1>4, <2>1, OnlineDue DEF ReadFrom
<1> HIDE DEF t, c, R, old, new
<1>8. /\ x.incoming = Tail(in) /\ x.requests = c.requests /\ x.serving = c.serving
      /\ x.stream = c.stream /\ t \in DOMAIN x.listening /\ x.listening[t] = c.listening[t]
      /\ RemoteKeys(x, t) = RemoteKeys(c, t)
  BY <1>4 DEF ReadFrom
<1>9. Known(x, t)
  BY <1>1, <1>2, <1>4, <1>5, ReadKnown DEF in
<1>10. Asking(x, t)
  BY <1>1, <1>2, <1>4, <1>5, ReadAsking DEF in, Flows
<1>11. Sees(log, x, t)
  BY <1>5, <1>8 DEF Sees
<1>12. Late(x, t) <=> Late(c, t)
  BY <1>1, <1>2, <1>4, ReadLate DEF in
<1> HIDE DEF in
<1>13. /\ \A n : Coming(x.incoming, n) <=> Coming(in, n)
       /\ Pending(x.incoming) <=> Pending(in)
       /\ Ahead(in, 1) <=> Pending(x.incoming)
  BY <1>1, <1>2, <1>8, ComingTail
<1>14. /\ Some(in, Answers(t)) <=> Some(x.incoming, Answers(t))
       /\ Some(in, Said("error", t)) <=> Some(x.incoming, Said("error", t))
       /\ Some(in, Said("current", t)) <=> Some(x.incoming, Said("current", t))
       /\ Some(in, Said("filter", t)) <=> Some(x.incoming, Said("filter", t))
       /\ Some(in, Said("document", t)) <=> Some(x.incoming, Said("document", t))
  BY <1>1, <1>2, <1>8, SomeTail
<1>15. \A d : Some(in, DocOf(t, d)) <=> Some(x.incoming, DocOf(t, d))
  BY <1>1, <1>2, <1>8, SomeTail
<1>16. /\ Before(in, R) <=> Ahead(in, 1) \/ Before(x.incoming, R)
       /\ Behind(in, R) <=> ~Ahead(in, 1) \/ Behind(x.incoming, R)
  BY <1>1, <1>2, <1>3, <1>8, BeforeTail
<1>17. Some(in, Answers(t)) => Then(in, R, Answers(t))
  BY <1>1, <1>2, <1>3, <1>8, <1>14, ThenTail
<1>18. /\ old.outstanding = Due(in, c.requests, t)
       /\ old.outstanding # 0 => DOMAIN old.changes = {}
       /\ \A d \in OfType(old, "Added") : d \notin RemoteKeys(c, t) /\ d \in DOMAIN c.updates
       /\ Then(in, R, Answers(t)) => c.listening[t] = 0
  BY <1>5 DEF Flows, Collects, Asking, old, in, R
<1>19. ASSUME ~Some(c.requests, Asks(t)) PROVE Holds(x, t) = {}
  <2>1. CASE old.outstanding # 0 /\ new = old
    <3>1. Some(in, Answers(t))
      BY <1>1, <1>2, <1>18, <1>19, <2>1, NothingLate DEF in
    <3>2. c.listening[t] = 0
      BY <1>17, <1>18, <3>1
    <3>3. RemoteKeys(x, t) = {}
      BY <1>5, <1>8, <3>2, HaveNone DEF Sees
    <3>4. \A type : OfType(new, type) = {}
      BY <1>18, <2>1 DEF OfType
    <3> QED
      BY <3>3, <3>4 DEF Holds, new
  <2> QED
    BY <1>4, <2>1
<1>20. Collects(x, t)
  <2>1. new.outstanding = old.outstanding
    BY <1>4
  <2>2. new.outstanding # 0 => DOMAIN new.changes = {}
    BY <1>4, <1>18
  <2>3. \A d \in OfType(new, "Added") : d \notin RemoteKeys(x, t) /\ d \in DOMAIN x.updates
    BY <1>4, <1>8, <1>18
  <2> QED
    BY <1>6, <1>18, <2>1, <2>2, <2>3 DEF Collects, new, in
<1>21. Served(x, t)
  <2> SUFFICES ASSUME ~Some(c.requests, Asks(t)), ~Some(in, Said("error", t))
               PROVE  /\ t \in DOMAIN x.serving
                      /\ Behind(x.incoming, R) => x.serving[t].at = 0 /\ x.serving[t].fresh
                      /\ ~Behind(x.incoming, R) /\ ~Late(x, t) =>
                            \A n : Coming(x.incoming, n) => x.serving[t].at = n
                      /\ ~Behind(x.incoming, R) /\ (Late(x, t) \/ ~Pending(x.incoming)) =>
                            Resumed(x, t) \/ StartedOver(x, t)
    BY <1>8, <1>14 DEF Served, R
  <2>1. /\ t \in DOMAIN c.serving
        /\ Behind(in, R) => c.serving[t].at = 0 /\ c.serving[t].fresh
        /\ ~Behind(in, R) /\ ~Late(c, t) => \A n : Coming(in, n) => c.serving[t].at = n
        /\ ~Behind(in, R) /\ (Late(c, t) \/ ~Pending(in)) => Resumed(c, t) \/ StartedOver(c, t)
    BY <1>5 DEF Flows, Served, R, in
  <2>2. \A n : Coming(in, n) => Pending(in)
    BY DEF Coming, Pending
  <2>3. Holds(x, t) = {}
    BY <1>19
  <2>4. ASSUME ~Behind(x.incoming, R), Late(x, t) \/ ~Pending(x.incoming)
        PROVE  Resumed(x, t) \/ StartedOver(x, t)
    <3>1. CASE Behind(in, R)
      BY <1>8, <2>1, <2>3, <3>1 DEF StartedOver
    <3>2. CASE ~Behind(in, R)
      <4>1. Late(c, t) /\ (Resumed(c, t) \/ StartedOver(c, t))
        BY <1>12, <1>13, <1>16, <2>1, <2>4, <3>2
      <4>2. old.outstanding # 0
        BY <1>1, <1>2, <1>18, <4>1, NothingLate DEF in
      <4>3. new = old
        BY <1>4, <4>2
      <4> QED
        BY <1>8, <2>3, <4>1, <4>3 DEF Resumed, StartedOver, new, old
    <3> QED
      BY <3>1, <3>2
  <2> QED
    BY <1>8, <1>12, <1>13, <1>16, <2>1, <2>2, <2>4
<1>22. ASSUME NEW n, ~Late(x, t), Coming(x.incoming, n) PROVE Delivers(log, x, t, n)
  <2>1. Delivers(log, c, t, n)
    BY <1>5, <1>12, <1>13, <1>22 DEF Flows, Brings, in
  <2>2. Before(in, R)
    BY <1>13, <1>16, <1>22 DEF Coming, Pending
  <2>3. Holds(x, t) = {}
    BY <1>8, <1>19, <1>22 DEF Late
  <2>4. ASSUME NEW d, Rightly(log, c, t, d, n) PROVE Rightly(log, x, t, d, n)
    <3>1. ~Will(c, t, d) /\ ~Will(x, t, d)
      BY <2>2, <2>3 DEF Will, in, R
    <3> QED
      BY <1>4, <1>8, <1>14, <1>15, <2>4, <3>1 DEF Rightly, in
  <2>5. Confirmed(x, t)
    BY <1>14, <2>1, <2>2 DEF Delivers, Confirmed, in, R
  <2> QED
    BY <1>4, <1>14, <2>1, <2>3, <2>4, <2>5 DEF Delivers, in
<1> QED
  BY <1>9, <1>10, <1>11, <1>20, <1>21, <1>22 DEF Right, Flows, Brings, t

\* Other targets are not heard of when one gathers something.
LEMMA OtherSame ==
    ASSUME Ready, client.incoming # <<>>, NEW t \in Watched, NEW x,
           Only(x, Online, {"agg", "updates", "resets", "broken"}),
           DOMAIN Online.updates \subseteq DOMAIN x.updates,
           DOMAIN x.agg = DOMAIN Online.agg \cup {t}, NEW u \in Watched, u # t,
           Entry(x, u) = Entry(Online, u), u \in x.resets <=> u \in Online.resets
    PROVE  SameTarget(x, Online, u)
<1>1. /\ x.listening = Online.listening /\ x.serving = Online.serving /\ x.stream = Online.stream
      /\ x.incoming = Online.incoming /\ x.requests = Online.requests
      /\ x.received = Online.received /\ x.on = Online.on /\ x.view = Online.view
  BY DEF Only, Fields
<1>2. RemoteKeys(x, u) = RemoteKeys(Online, u)
  BY <1>1 DEF RemoteKeys
<1> QED
  BY <1>1, <1>2, SameElse

\* Only the target of the message is concerned, and nothing more is known of documents.
LEMMA TargetExact ==
    ASSUME Ready, NEW kind \in {"reset", "filter"}, Received(kind), NEW x,
           Only(x, Online, {"agg", "updates", "resets", "broken"}), Telltale(log, x),
           DOMAIN Online.updates \subseteq DOMAIN x.updates,
           DOMAIN x.agg = DOMAIN Online.agg \cup {AboutTarget},
           \A u \in Watched : u # AboutTarget => /\ Entry(x, u) = Entry(Online, u)
                                                 /\ u \in x.resets <=> u \in Online.resets,
           Right(log, x, AboutTarget)
    PROVE  Exact(log, x)
<1> DEFINE t == AboutTarget
<1>1. /\ t \in Watched /\ client.incoming # <<>> /\ Head(client.incoming).kind = kind
      /\ \A u : Head(client.incoming) \in Of(u) <=> u = t
  BY HeadOf
<1>2. x.incoming = Online.incoming
  BY DEF Only, Fields
<1>3. SameView(x, Online) /\ SameDisk(x, Online) /\ x.limbo = Online.limbo
  BY <1>1, <1>2, HeadRead
<1>4. ASSUME NEW u \in Watched
      PROVE  \/ Right(log, x, u)
             \/ SameTarget(x, Online, u) /\ Head(client.incoming) \notin Of(u)
  <2>1. CASE u = t
    BY <2>1
  <2>2. CASE u # t
    <3>1. SameTarget(x, Online, u)
      BY <1>1, <2>2, OtherSame
    <3> QED
      BY <1>1, <2>2, <3>1
  <2> QED
    BY <2>1, <2>2
<1> QED
  BY <1>1, <1>3, <1>4, ReadExact

\* HandleTargetChange, Reset.
LEMMA TargetResetExact ==
    ASSUME Ready, TargetReset
    PROVE  Exact(log', client')
<1> DEFINE t == AboutTarget
           c == client
<1>1. /\ Received("reset") /\ t \in Watched /\ c.incoming # <<>> /\ Right(log, c, t)
      /\ Head(c.incoming).kind = "reset"
  BY HeadOf DEF TargetReset
<1>2. /\ Typed(Online) /\ c.stream = "Open" /\ c.incoming \in Seq(Message)
      /\ Only(Online, c, {"incoming", "online", "raised", "view", "timer", "failed"})
      /\ Online.incoming = Tail(c.incoming) /\ Entry(Online, t) = Entry(c, t)
  BY <1>1, OnlineIs
<1>3. /\ Online.listening = c.listening /\ Online.agg = c.agg /\ Online.keys = c.keys
      /\ Online.updates = c.updates /\ Online.resets = c.resets
  BY <1>2 DEF Only, Fields
<1>4. IsActiveTarget(Online, t) <=> IsActiveTarget(c, t)
  BY <1>2, <1>3 DEF IsActiveTarget
<1>5. PICK x : /\ x = IF ~IsActiveTarget(c, t) THEN Online ELSE ResetTarget(Online, t)
               /\ client' = x /\ log' = log
  BY DEF TargetReset, Client
<1>6. /\ Gathered(Online, x) /\ x.updates = Online.updates
      /\ \A u \in Watched : u # t => Entry(x, u) = Entry(Online, u)
      /\ t \in DOMAIN c.listening \/ t \in DOMAIN c.agg => DOMAIN x.agg = DOMAIN Online.agg \cup {t}
      /\ \/ ~IsActiveTarget(c, t) /\ Entry(x, t) = Entry(c, t)
         \/ /\ IsActiveTarget(c, t) /\ Entry(x, t).outstanding = 0
            /\ OfType(Entry(x, t), "Added") = {} /\ Holds(x, t) = {}
  <2>1. CASE ~IsActiveTarget(c, t)
    <3>1. x = Online
      BY <1>5, <2>1
    <3>2. Gathered(Online, x)
      BY <1>2, <3>1, GatheredSame
    <3>3. t \in DOMAIN c.listening => t \in DOMAIN c.agg
      BY <1>2, ReadyIs
    <3> QED
      BY <1>2, <1>3, <2>1, <3>1, <3>2, <3>3
  <2>2. CASE IsActiveTarget(c, t)
    <3>1. x = ResetTarget(Online, t) /\ IsActiveTarget(Online, t)
      BY <1>4, <1>5, <2>2
    <3> HIDE DEF t, c
    <3>2. /\ Gathered(Online, x) /\ x.updates = Online.updates
          /\ DOMAIN x.agg = DOMAIN Online.agg \cup {t}
          /\ \A u \in Watched : u # t => Entry(x, u) = Entry(Online, u)
          /\ Entry(x, t).outstanding = 0 /\ OfType(Entry(x, t), "Added") = {}
          /\ Holds(x, t) = {}
      BY <1>1, <1>2, <3>1, ResetTargetIs
    <3> QED
      BY <2>2, <3>2
  <2> QED
    BY <2>1, <2>2
<1>7. /\ Only(x, Online, {"agg", "updates", "resets", "broken"}) /\ x.incoming = Online.incoming
      /\ x.resets = Online.resets /\ Typed(x)
  BY <1>6 DEF Gathered, Only, Fields
<1>8. ReadFrom(x, c, t) /\ x.keys = c.keys
  BY <1>1, <1>7, HeadRead
<1>9. t \in DOMAIN c.agg
  <2>1. Some(c.incoming, Said("reset", t))
    <3>1. Head(c.incoming) \in Of(t)
      BY <1>1, HeadOf
    <3>2. Head(c.incoming) \in Said("reset", t)
      BY <1>1, <3>1 DEF Of, Said
    <3> QED
      BY <1>1, <1>2, <3>2, SomeTail
  <2> QED
    BY <1>1, <2>1 DEF Right, Known
<1>10. DOMAIN x.agg = DOMAIN Online.agg \cup {t} /\ t \in DOMAIN x.agg
  BY <1>6, <1>9
<1>11. Telltale(log, x)
  BY <1>1, <1>2, <1>3, <1>6, <1>7, <1>8, TelltaleRead
<1>12. Right(log, x, t)
  <2>1. CASE t \notin DOMAIN c.listening
    BY <1>1, <1>2, <1>8, <1>10, <2>1, ReadUnwatched
  <2>2. CASE t \in DOMAIN c.listening
    <3>1. \/ Entry(c, t).outstanding # 0 /\ Entry(x, t) = Entry(c, t)
          \/ /\ Entry(c, t).outstanding = 0 /\ Entry(x, t).outstanding = 0
             /\ OfType(Entry(x, t), "Added") = {} /\ Holds(x, t) = {}
      BY <1>6, <2>2 DEF IsActiveTarget
    <3> QED
      BY <1>1, <1>3, <1>6, <1>7, <1>8, <1>10, <2>2, <3>1, ResetRight
  <2> QED
    BY <2>1, <2>2
<1>13. \A u \in Watched : u # t => Entry(x, u) = Entry(Online, u)
                                   /\ (u \in x.resets <=> u \in Online.resets)
  BY <1>6, <1>7
<1>14. Exact(log, x)
  BY <1>1, <1>6, <1>7, <1>10, <1>11, <1>12, <1>13, TargetExact
<1> QED
  BY <1>5, <1>14

-----------------------------------------------------------------------------
(***************************************************************************)
(* A filter counts.                                                        *)
(***************************************************************************)
\* What a target will have is as much as a filter expects.
LEMMA HoldsCount ==
    ASSUME NEW RK, IsFiniteSet(RK), NEW A, IsFiniteSet(A), NEW R \in SUBSET RK, RK \cap A = {}
    PROVE  /\ IsFiniteSet((RK \cup A) \ R)
           /\ Cardinality((RK \cup A) \ R) = Cardinality(RK) + Cardinality(A) - Cardinality(R)
<1> DEFINE S == RK \cup A
<1>1. IsFiniteSet(R) /\ Cardinality({}) = 0
  BY FS_Subset, FS_EmptySet
<1>2. IsFiniteSet(S) /\ Cardinality(S) = Cardinality(RK) + Cardinality(A) - 0
  BY <1>1, FS_Union
<1>3. S \cap R = R
  OBVIOUS
<1> HIDE DEF S
<1>4. IsFiniteSet(S \ R) /\ Cardinality(S \ R) = Cardinality(S) - Cardinality(S \cap R)
  BY <1>2, FS_Difference
<1>5. Cardinality(RK) \in Nat /\ Cardinality(A) \in Nat /\ Cardinality(R) \in Nat
  BY <1>1, FS_CardinalityType
<1>6. Cardinality(S \ R) = Cardinality(S) - Cardinality(R)
  BY <1>3, <1>4, Zenon
<1> DEFINE T == S \ R
<1>7. IsFiniteSet(T) /\ Cardinality(T) = Cardinality(S) - Cardinality(R)
  BY <1>4, <1>6
<1> HIDE DEF T
<1>8. Cardinality(T) = Cardinality(RK) + Cardinality(A) - Cardinality(R)
  BY <1>2, <1>5, <1>7
<1> QED
  BY <1>7, <1>8, Zenon DEF S, T

\* What is on its way with a filter about an active target.
LEMMA FilterHead ==
    ASSUME Ready, Received("filter"), IsActiveTarget(client, AboutTarget)
    PROVE  LET t == AboutTarget
               in == client.incoming
           IN  /\ t \in Watched /\ in # <<>> /\ Head(in).kind = "filter"
               /\ ~Some(Tail(in), Said("document", t))
               /\ \A d : ~Some(in, DocOf(t, d)) /\ ~Some(Tail(in), DocOf(t, d))
               /\ \A n : Coming(in, n) => Head(in).count = Cardinality(Have(log, t, n))
               /\ \A n : Delivers(log, client, t, n) => Some(Tail(in), Said("current", t))
<1> DEFINE t == AboutTarget
           in == client.incoming
<1>1. /\ t \in Watched /\ in # <<>> /\ Head(in).kind = "filter"
      /\ Head(in) \in Of(t) /\ Head(in) \notin Said("document", t) /\ Head(in) \notin Said("current", t)
      /\ \A d : Head(in) \notin DocOf(t, d)
  BY HeadOf
<1>2. in \in Seq(Message) /\ Sorted(in) /\ \A n : Coming(in, n) => TrueMail(log, in, n)
  BY <1>1, OnlineIs, ReadyIs DEF Net, Telltale
<1>3. Head(in) \in Said("filter", t) /\ t \in Head(in).about
  BY <1>1 DEF Of, Said
<1> HIDE DEF t, in
<1>4. Some(in, Said("filter", t)) /\ (Some(in, Said("current", t)) <=> Some(Tail(in), Said("current", t)))
  BY <1>1, <1>2, <1>3, SomeTail
<1>5. ~Some(Tail(in), Kind("document"))
  BY <1>1, <1>2, MailRead
<1>6. ~Some(Tail(in), Said("document", t)) /\ \A d : ~Some(Tail(in), DocOf(t, d))
  BY <1>5 DEF Some, Said, DocOf, Kind
<1>7. \A d : ~Some(in, DocOf(t, d))
  BY <1>1, <1>2, <1>6, SomeTail
<1>8. ASSUME NEW n, Coming(in, n) PROVE Head(in).count = Cardinality(Have(log, t, n))
  <2>1. TrueMail(log, in, n) /\ Head(in).kind # "snapshot"
    BY <1>1, <1>2, <1>8
  <2>2. TrueMessage(log, Head(in), n)
    BY <1>1, <1>2, <2>1, MailRead
  <2> QED
    BY <1>1, <1>3, <2>2 DEF TrueMessage
<1>9. \A n : Delivers(log, client, t, n) => Some(Tail(in), Said("current", t))
  BY <1>4 DEF Delivers, Confirmed, in
<1> QED
  BY <1>1, <1>6, <1>7, <1>8, <1>9 DEF t, in

\* A filter that leaves the target as it is.
LEMMA FilterKeeps ==
    ASSUME Ready, Received("filter"), IsActiveTarget(client, AboutTarget),
           \A n : Coming(client.incoming, n) /\ AboutTarget \notin client.resets
                  /\ Delivers(log, client, AboutTarget, n)
                  => \A d \in AboutTarget.docs : d \in Have(log, AboutTarget, n)
                                                <=> d \in Holds(client, AboutTarget)
    PROVE  Exact(log, Online)
<1> DEFINE t == AboutTarget
           c == client
           in == c.incoming
           x == Online
<1>1. /\ t \in Watched /\ in # <<>> /\ Head(in).kind = "filter"
      /\ ~Some(Tail(in), Said("document", t))
      /\ \A d : ~Some(in, DocOf(t, d)) /\ ~Some(Tail(in), DocOf(t, d))
      /\ \A n : Delivers(log, c, t, n) => Some(Tail(in), Said("current", t))
  BY FilterHead
<1>2. Head(in).kind \in Telling /\ Head(in).kind # "snapshot"
  BY <1>1 DEF Telling
<1>3. /\ Typed(x) /\ x.incoming = Tail(in)
      /\ Only(x, c, {"incoming", "online", "raised", "view", "timer", "failed"})
      /\ RemoteKeys(x, t) = RemoteKeys(c, t) /\ Entry(x, t) = Entry(c, t)
  BY <1>1, OnlineIs
<1>4. x.listening = c.listening /\ x.agg = c.agg /\ x.updates = c.updates /\ x.resets = c.resets
  BY <1>3 DEF Only, Fields
<1>5. Only(x, x, {"agg", "updates", "resets", "broken"})
  BY <1>3, OnlySame
<1>6. ReadFrom(x, c, t) /\ x.keys = c.keys
  BY <1>1, <1>5, HeadRead
<1>7. Telltale(log, x)
  BY <1>1, <1>2, <1>3, <1>4, <1>6, TelltaleRead
<1>8. /\ t \in DOMAIN c.listening /\ Flows(log, c, t) /\ t \in DOMAIN c.agg
  <2>1. t \in DOMAIN c.listening /\ Flows(log, c, t)
    BY <1>1, ActiveTold
  <2> QED
    BY <1>1, <2>1, OnlineIs, ReadyIs
<1>9. /\ ~Before(x.incoming, Said("reset", t)) /\ ~Before(in, Said("reset", t))
  BY <1>1, <1>2, <1>6, ReadServed
<1>10. Holds(x, t) = Holds(c, t)
  BY <1>3 DEF Holds
<1>11. ASSUME NEW n, Coming(in, n), Delivers(log, c, t, n) PROVE Delivers(log, x, t, n)
  <2>1. Confirmed(x, t)
    BY <1>1, <1>3, <1>11 DEF Confirmed
  <2>2. t \in x.resets => Holds(x, t) = {} /\ ~Some(x.incoming, Said("document", t))
    BY <1>1, <1>3, <1>4, <1>10, <1>11 DEF Delivers
  <2>3. ASSUME t \notin x.resets, NEW d \in t.docs PROVE Rightly(log, x, t, d, n)
    <3>1. t \notin c.resets /\ Rightly(log, c, t, d, n)
      BY <1>4, <1>11, <2>3 DEF Delivers
    <3>2. d \in Have(log, t, n) <=> d \in Holds(c, t)
      BY <1>11, <2>3, <3>1
    <3> HIDE DEF x, t, c
    <3>3. Will(x, t, d) <=> d \in Have(log, t, n)
      BY <1>9, <1>10, <3>2 DEF Will
    <3>4. d \in Have(log, t, n) => d \in DOMAIN c.updates \/ Newest(log, d, n) <= c.listening[t]
      BY <1>1, <3>1 DEF Rightly
    <3> QED
      BY <1>4, <3>3, <3>4 DEF Rightly
  <2> QED
    BY <2>1, <2>2, <2>3 DEF Delivers
<1>12. \A d \in OfType(Entry(x, t), "Added") : d \notin RemoteKeys(c, t) /\ d \in DOMAIN x.updates
  BY <1>3, <1>4, <1>8 DEF Flows, Collects
<1>13. t \in DOMAIN x.agg /\ Entry(x, t).outstanding = Entry(c, t).outstanding
  BY <1>3, <1>4, <1>8
<1>14. Right(log, x, t)
  <2> HIDE DEF x, t
  <2> QED
    BY <1>1, <1>2, <1>6, <1>11, <1>12, <1>13, ToldRight DEF c, in, t
<1>15. DOMAIN x.agg = DOMAIN x.agg \cup {t}
  BY <1>13
<1> QED
  BY <1>5, <1>7, <1>14, <1>15, TargetExact

\* What is gathered is true when the next message is read.
LEMMA TelltaleTold ==
    ASSUME Ready, client.incoming # <<>>, Head(client.incoming).kind \in Telling,
           Head(client.incoming).kind # "snapshot",
           NEW x, x.incoming = Tail(client.incoming), x.resets \subseteq {Query},
           \A n : Coming(client.incoming, n) => \A d \in DOMAIN x.updates : TrueUpdate(log, x, d, n)
    PROVE  Telltale(log, x)
<1> DEFINE in == client.incoming
<1>1. in \in Seq(Message) /\ in # <<>> /\ Head(in).kind # "snapshot"
  BY OnlineIs
<1>2. Sorted(in) /\ \A n : Coming(in, n) => TrueMail(log, in, n)
  BY ReadyIs DEF Net, Telltale
<1>3. Reports(Tail(in), 1) /\ Tail(in) # <<>>
  BY HeadTells
<1> HIDE DEF in
<1>4. Sorted(Tail(in)) /\ (\A n : Coming(Tail(in), n) <=> Coming(in, n))
      /\ \A n : TrueMail(log, in, n) => TrueMail(log, Tail(in), n)
  BY <1>1, <1>2, MailRead
<1> QED
  BY <1>2, <1>3, <1>4 DEF Telltale, in

\* A document that is looked up is none of the query's.
LEMMA LookedUpIs ==
    ASSUME Ready, NEW t \in Watched, t # Query, t \in DOMAIN client.listening
    PROVE  /\ t \in Lookup /\ TheDoc(t) \in Docs /\ t.docs = {TheDoc(t)}
           /\ TheDoc(t) \in DOMAIN client.limbo /\ client.limbo[TheDoc(t)] = t
           /\ client.on /\ TheDoc(t) \notin client.keys
<1>1. t \in Lookup
  BY DEF Watched
<1>2. TheDoc(t) \in Docs /\ t.docs = {TheDoc(t)}
  BY <1>1, LookupIs
<1>3. Sound(client) /\ Looking(client)
  BY ReadyIs
<1>4. PICK d \in DOMAIN client.limbo : t = client.limbo[d]
  BY <1>3 DEF Sound, LookedUp
<1>5. t.docs = {d}
  BY <1>3, <1>4 DEF Sound, LookedUp
<1>6. d = TheDoc(t)
  BY <1>2, <1>5
<1>7. TheDoc(t) \in client.view.limbo
  BY <1>3, <1>4, <1>6 DEF Looking
<1> QED
  BY <1>1, <1>2, <1>3, <1>4, <1>6, <1>7 DEF Looking

\* A lookup that the server counts no document for.
LEMMA LookupForgotten ==
    ASSUME Ready, Received("filter"), IsActiveTarget(client, AboutTarget), AboutTarget # Query,
           Head(client.incoming).count = 0, NEW x, NEW update,
           update = [d \in {TheDoc(AboutTarget)} |-> Unknown],
           x = RemoveDocument(Online, AboutTarget, TheDoc(AboutTarget), update)
    PROVE  Exact(log, x)
<1> DEFINE t == AboutTarget
           h == TheDoc(t)
           c == client
           in == c.incoming
<1>1. /\ t \in Watched /\ in # <<>> /\ Head(in).kind = "filter" /\ Head(in).count = 0
      /\ ~Some(Tail(in), Said("document", t))
      /\ \A d : ~Some(in, DocOf(t, d)) /\ ~Some(Tail(in), DocOf(t, d))
      /\ \A n : Coming(in, n) => Head(in).count = Cardinality(Have(log, t, n))
      /\ \A n : Delivers(log, c, t, n) => Some(Tail(in), Said("current", t))
  BY FilterHead
<1>2. Head(in).kind \in Telling /\ Head(in).kind # "snapshot"
  BY <1>1 DEF Telling
<1>3. /\ Typed(Online) /\ Online.incoming = Tail(in)
      /\ Only(Online, c, {"incoming", "online", "raised", "view", "timer", "failed"})
      /\ RemoteKeys(Online, t) = RemoteKeys(c, t) /\ Entry(Online, t) = Entry(c, t)
  BY <1>1, OnlineIs
<1>4. /\ Online.listening = c.listening /\ Online.agg = c.agg /\ Online.updates = c.updates
      /\ Online.resets = c.resets /\ Online.keys = c.keys
  BY <1>3 DEF Only, Fields
<1>5. /\ t \in DOMAIN c.listening /\ Flows(log, c, t) /\ t \in DOMAIN c.agg
  <2>1. t \in DOMAIN c.listening /\ Flows(log, c, t)
    BY <1>1, ActiveTold
  <2> QED
    BY <1>1, <2>1, OnlineIs, ReadyIs
<1>6. h \in Docs /\ t.docs = {h} /\ h \notin c.keys
  BY <1>1, <1>5, LookedUpIs
<1>7. IsActiveTarget(Online, t)
  BY <1>3, <1>4 DEF IsActiveTarget
<1>8. x = RemoveDocument(Online, t, h, update) /\ h \in t.docs
  BY <1>6
<1>9. update \in Partial(Docs, CachedDoc) /\ DOMAIN update = {h} /\ update[h] = Unknown
  <2>1. Unknown \in CachedDoc
    BY BoundsAssumption DEF Unknown, CachedDoc, Versions, Values
  <2> HIDE DEF h
  <2>2. [d \in {h} |-> Unknown] \in Partial(Docs, CachedDoc)
    BY <1>6, <2>1, OnePartial
  <2>3. update = [d \in {h} |-> Unknown]
    BY DEF h
  <2> QED
    BY <2>2, <2>3
<1> HIDE DEF t, c, h
<1>10. Gathered(Online, x)
  BY <1>1, <1>3, <1>8, <1>9, RemoveDocumentTyped
<1>11. Rechecked(x, Online, t, h, FALSE, update)
  BY <1>1, <1>3, <1>7, <1>8, RemoveDocumentIs
<1>12. /\ DOMAIN x.agg = DOMAIN Online.agg \cup {t}
       /\ \A u : u # t => Entry(x, u) = Entry(Online, u)
       /\ SameTypes(x, c, t, {h}) /\ x.updates = Over(update, c.updates)
       /\ h \notin OfType(Entry(x, t), "Added")
       /\ h \in RemoteKeys(c, t) => h \in OfType(Entry(x, t), "Removed")
  BY <1>3, <1>4, <1>11 DEF Rechecked, SameTypes
<1>13. /\ Only(x, Online, {"agg", "updates", "resets", "broken"}) /\ x.incoming = Tail(in)
       /\ x.resets = c.resets
  BY <1>3, <1>4, <1>10 DEF Gathered, Only, Fields
<1>14. ReadFrom(x, c, t) /\ x.keys = c.keys
  BY <1>1, <1>3, <1>13, HeadRead DEF c, in
<1>15. RemoteKeys(x, t) = RemoteKeys(c, t) /\ h \notin Holds(x, t)
  <2>1. RemoteKeys(x, t) = RemoteKeys(c, t)
    BY <1>5, <1>14 DEF ReadFrom
  <2> QED
    BY <1>12, <2>1 DEF Holds
<1>16. ASSUME NEW n, Coming(in, n) PROVE h \notin Have(log, t, n)
  <2>1. Cardinality(Have(log, t, n)) = 0
    BY <1>1, <1>16
  <2>2. IsFiniteSet(Have(log, t, n))
    <3>1. Have(log, t, n) \in SUBSET Docs
      BY <1>6 DEF Have
    <3> QED
      BY <3>1, DocsAssumption, FS_Subset
  <2> QED
    BY <2>1, <2>2, FS_EmptySet
<1>17. c.resets \subseteq {Query}
       /\ \A n : Coming(in, n) => n \in Nat /\ \A d \in DOMAIN c.updates : TrueUpdate(log, c, d, n)
  BY ReadyIs, VersionsOf DEF Net, Telltale, c, in
<1>18. /\ DOMAIN c.updates \subseteq DOMAIN x.updates
       /\ \A d \in DOMAIN x.updates : IF d = h THEN x.updates[d] = Unknown
                                      ELSE d \in DOMAIN c.updates /\ x.updates[d] = c.updates[d]
  BY <1>9, <1>12 DEF Over
<1>19. ASSUME NEW n, Coming(in, n), NEW d \in DOMAIN x.updates PROVE TrueUpdate(log, x, d, n)
  <2>1. CASE d = h
    <3>1. x.updates[d] = Unknown
      BY <1>18, <2>1
    <3>2. Truth(log, d, n) = Missing
      BY <1>6, <1>16, <1>19, <2>1 DEF Have
    <3> QED
      BY <1>6, <1>14, <2>1, <3>1, <3>2 DEF TrueUpdate, Unknown
  <2>2. CASE d # h
    <3>1. d \in DOMAIN c.updates /\ x.updates[d] = c.updates[d]
      BY <1>18, <2>2
    <3>2. TrueUpdate(log, c, d, n)
      BY <1>17, <1>19, <3>1
    <3> QED
      BY <1>14, <3>1, <3>2 DEF TrueUpdate
  <2> QED
    BY <2>1, <2>2
<1>20. Telltale(log, x)
  BY <1>1, <1>2, <1>13, <1>17, <1>19, TelltaleTold DEF c, in
<1>21. ~Before(x.incoming, Said("reset", t))
  BY <1>1, <1>2, <1>14, ReadServed DEF c, in, t
<1>22. ASSUME NEW n, Coming(in, n), Delivers(log, c, t, n) PROVE Delivers(log, x, t, n)
  <2>1. t \notin x.resets
    BY <1>13, <1>17 DEF t
  <2>2. ASSUME NEW d \in t.docs PROVE Rightly(log, x, t, d, n)
    <3>1. d = h
      BY <1>6
    <3>2. d \notin Have(log, t, n) /\ ~Will(x, t, d)
      BY <1>15, <1>16, <1>22, <3>1 DEF Will
    <3> QED
      BY <3>2 DEF Rightly
  <2>3. Confirmed(x, t)
    BY <1>1, <1>13, <1>22 DEF Confirmed
  <2> QED
    BY <2>1, <2>2, <2>3 DEF Delivers
<1>23. ASSUME NEW d \in OfType(Entry(x, t), "Added")
       PROVE  d \notin RemoteKeys(c, t) /\ d \in DOMAIN x.updates
  <2>1. d \in OfType(Entry(c, t), "Added")
    BY <1>12, <1>23 DEF SameTypes
  <2> QED
    BY <1>5, <1>18, <2>1 DEF Flows, Collects
<1>24. t \in DOMAIN x.agg /\ Entry(x, t).outstanding = Entry(c, t).outstanding
  BY <1>12 DEF SameTypes
<1>25. Right(log, x, t)
  BY <1>1, <1>2, <1>14, <1>22, <1>23, <1>24, ToldRight DEF c, in, t
<1>26. \A u \in Watched : u # AboutTarget => /\ Entry(x, u) = Entry(Online, u)
                                             /\ u \in x.resets <=> u \in Online.resets
  BY <1>4, <1>12, <1>13 DEF t, c
<1>27. /\ DOMAIN x.agg = DOMAIN Online.agg \cup {AboutTarget} /\ Right(log, x, AboutTarget)
       /\ DOMAIN Online.updates \subseteq DOMAIN x.updates
  BY <1>4, <1>12, <1>18, <1>25 DEF t, c
<1> QED
  BY <1>13, <1>20, <1>26, <1>27, TargetExact

\* A query whose count differs starts over.
LEMMA QueryRestarted ==
    ASSUME Ready, Received("filter"), IsActiveTarget(client, AboutTarget), AboutTarget = Query,
           NEW r, r = ResetTarget(Online, AboutTarget),
           NEW x, x = [r EXCEPT !.resets = @ \cup {AboutTarget}]
    PROVE  Exact(log, x)
<1> DEFINE t == AboutTarget
           c == client
           in == c.incoming
<1>1. /\ t \in Watched /\ in # <<>> /\ Head(in).kind = "filter"
      /\ ~Some(Tail(in), Said("document", t))
      /\ \A n : Delivers(log, c, t, n) => Some(Tail(in), Said("current", t))
  BY FilterHead
<1>2. Head(in).kind \in Telling /\ Head(in).kind # "snapshot"
  BY <1>1 DEF Telling
<1>3. /\ Typed(Online) /\ Online.incoming = Tail(in)
      /\ Only(Online, c, {"incoming", "online", "raised", "view", "timer", "failed"})
      /\ RemoteKeys(Online, t) = RemoteKeys(c, t) /\ Entry(Online, t) = Entry(c, t)
  BY <1>1, OnlineIs
<1>4. /\ Online.listening = c.listening /\ Online.agg = c.agg /\ Online.updates = c.updates
      /\ Online.resets = c.resets /\ Online.keys = c.keys
  BY <1>3 DEF Only, Fields
<1>5. IsActiveTarget(Online, t) /\ Entry(c, t).outstanding = 0
  BY <1>3, <1>4 DEF IsActiveTarget
<1>6. r = ResetTarget(Online, t) /\ x = [r EXCEPT !.resets = @ \cup {t}] /\ t = Query
  OBVIOUS
<1> HIDE DEF t, c
<1>7. /\ Gathered(Online, r) /\ DOMAIN r.agg = DOMAIN Online.agg \cup {t}
      /\ r.updates = Online.updates
      /\ \A u \in Watched : u # t => Entry(r, u) = Entry(Online, u)
      /\ Entry(r, t).outstanding = 0 /\ OfType(Entry(r, t), "Added") = {}
      /\ Holds(r, t) = {} /\ r.resets = Online.resets
  BY <1>1, <1>3, <1>5, <1>6, ResetTargetIs
<1>8. Only(x, r, {"resets"}) /\ x.resets = c.resets \cup {t}
  BY <1>4, <1>6, <1>7 DEF Gathered, Typed, Only, Shape, Fields
<1>9. /\ x.agg = r.agg /\ x.updates = c.updates /\ x.received = r.received /\ x.on = r.on
      /\ x.view = r.view
  BY <1>4, <1>7, <1>8 DEF Only, Fields
<1>10. (\A u : Entry(x, u) = Entry(r, u)) /\ Holds(x, t) = {}
  BY <1>7, <1>9 DEF Entry, Holds, RemoteKeys
<1>11. Only(x, Online, {"agg", "updates", "resets", "broken"}) /\ x.incoming = Tail(in)
  BY <1>3, <1>7, <1>8 DEF Gathered, Only, Fields
<1>12. ReadFrom(x, c, t) /\ x.keys = c.keys
  BY <1>1, <1>3, <1>11, HeadRead DEF c, in
<1>13. c.resets \subseteq {Query}
       /\ \A n : Coming(in, n) => \A d \in DOMAIN c.updates : TrueUpdate(log, c, d, n)
  BY ReadyIs DEF Net, Telltale, c, in
<1>14. Telltale(log, x)
  <2>1. \A n : Coming(in, n) => \A d \in DOMAIN x.updates : TrueUpdate(log, x, d, n)
    BY <1>9, <1>12, <1>13 DEF TrueUpdate
  <2>2. x.resets \subseteq {Query}
    BY <1>6, <1>8, <1>13
  <2> QED
    BY <1>1, <1>2, <1>11, <2>1, <2>2, TelltaleTold DEF c, in
<1>15. ASSUME NEW n, Coming(in, n), Delivers(log, c, t, n) PROVE Delivers(log, x, t, n)
  <2>1. Confirmed(x, t)
    BY <1>1, <1>11, <1>15 DEF Confirmed
  <2> QED
    BY <1>1, <1>8, <1>10, <1>11, <2>1 DEF Delivers
<1>16. t \in DOMAIN x.agg /\ Entry(x, t).outstanding = Entry(c, t).outstanding
       /\ OfType(Entry(x, t), "Added") = {}
  BY <1>5, <1>7, <1>9, <1>10, Zenon
<1>17. Right(log, x, t)
  BY <1>1, <1>2, <1>12, <1>15, <1>16, ToldRight DEF c, in, t
<1>18. /\ DOMAIN x.agg = DOMAIN Online.agg \cup {t} /\ DOMAIN Online.updates \subseteq DOMAIN x.updates
       /\ \A u \in Watched : u # t => /\ Entry(x, u) = Entry(Online, u)
                                      /\ u \in x.resets <=> u \in Online.resets
  BY <1>4, <1>7, <1>8, <1>9, <1>10
<1> QED
  BY <1>11, <1>14, <1>17, <1>18, TargetExact DEF t

\* A target that has as many documents as the server has has the same.
LEMMA EvenCount ==
    ASSUME Ready, Received("filter"), NEW t, t = AboutTarget, IsActiveTarget(client, t),
           Head(client.incoming).count
               = Cardinality(RemoteKeys(client, t))
                   + Cardinality(OfType(Entry(client, t), "Added"))
                   - Cardinality(OfType(Entry(client, t), "Removed")),
           NEW n, Coming(client.incoming, n), t \notin client.resets, Delivers(log, client, t, n)
    PROVE  Have(log, t, n) = Holds(client, t)
<1> DEFINE c == client
           in == c.incoming
           RK == RemoteKeys(c, t)
           A == OfType(Entry(c, t), "Added")
           R == OfType(Entry(c, t), "Removed")
<1>1. /\ t \in Watched /\ in # <<>> /\ Head(in).kind = "filter"
      /\ \A d : ~Some(in, DocOf(t, d))
      /\ Head(in).count = Cardinality(Have(log, t, n))
  BY FilterHead
<1>2. ~Before(in, Said("reset", t))
  <2>1. Typed(Online) /\ Head(in).kind \in Telling /\ Head(in).kind # "snapshot"
    BY <1>1, OnlineIs DEF Telling
  <2>2. Only(Online, Online, {"agg", "updates", "resets", "broken"})
    BY <2>1, OnlySame
  <2>3. ReadFrom(Online, c, t)
    BY <1>1, <2>2, HeadRead
  <2> QED
    BY <1>1, <2>1, <2>3, ReadServed
<1>3. Typed(c) /\ Sound(c)
  BY ReadyIs
<1>4. /\ t \in DOMAIN c.listening /\ Entry(c, t).outstanding = 0 /\ Flows(log, c, t)
  BY <1>1, ActiveTold
<1>5. Gotten(c, t)
  BY <1>3, <1>4 DEF Sound, Runs, Running, Flowing, Gathers
<1>6. RK \cap A = {}
  BY <1>4 DEF Flows, Collects
<1>7. R \subseteq RK
  BY <1>5 DEF Gotten, OfType
<1>8. RK \subseteq t.docs /\ A \subseteq t.docs /\ t.docs \subseteq Docs
  BY <1>1, <1>3, RemoteKeysTyped, EntryTyped DEF OfType
<1>9. IsFiniteSet(RK) /\ IsFiniteSet(A)
  BY <1>8, DocsAssumption, FS_Subset
<1>10. Holds(c, t) = (RK \cup A) \ R
  BY DEF Holds
<1> HIDE DEF RK, A, R
<1>11. /\ IsFiniteSet((RK \cup A) \ R)
       /\ Cardinality((RK \cup A) \ R) = Cardinality(RK) + Cardinality(A) - Cardinality(R)
  BY <1>6, <1>7, <1>9, HoldsCount
<1>12. IsFiniteSet(Holds(c, t)) /\ Cardinality(Holds(c, t)) = Cardinality(Have(log, t, n))
  <2>1. Head(in).count = Cardinality(RK) + Cardinality(A) - Cardinality(R)
    BY DEF RK, A, R
  <2> QED
    BY <1>1, <1>10, <1>11, <2>1
<1>13. ASSUME NEW d \in Have(log, t, n) PROVE d \in Holds(c, t)
  <2>1. Rightly(log, c, t, d, n)
    BY <1>13 DEF Delivers, Have
  <2> QED
    BY <1>1, <1>2, <1>13, <2>1 DEF Rightly, Will
<1>14. Have(log, t, n) \in SUBSET Holds(c, t)
  BY <1>13
<1> DEFINE S == Holds(c, t)
           T == Have(log, t, n)
<1>15. IsFiniteSet(S) /\ T \in SUBSET S /\ Cardinality(S) = Cardinality(T)
  BY <1>12, <1>14
<1> HIDE DEF S, T
<1>16. S = T
  BY <1>15, FS_Subset
<1> QED
  BY <1>16 DEF S, T

\* HandleExistenceFilter.
LEMMA ExistenceFilterExact ==
    ASSUME Ready, ExistenceFilter
    PROVE  Exact(log', client')
<1> DEFINE t == AboutTarget
           c == client
           count == Head(c.incoming).count
           expected == Cardinality(RemoteKeys(c, t)) + Cardinality(OfType(Entry(c, t), "Added"))
                          - Cardinality(OfType(Entry(c, t), "Removed"))
<1>1. Received("filter") /\ c.incoming # <<>> /\ t \in Watched
  BY HeadOf DEF ExistenceFilter
<1>2. /\ Typed(Online) /\ RemoteKeys(Online, t) = RemoteKeys(c, t)
      /\ Entry(Online, t) = Entry(c, t)
      /\ Only(Online, c, {"incoming", "online", "raised", "view", "timer", "failed"})
  BY <1>1, OnlineIs
<1>3. Online.listening = c.listening
  BY <1>2 DEF Only, Fields
<1>4. IsActiveTarget(Online, t) <=> IsActiveTarget(c, t)
  BY <1>2, <1>3 DEF IsActiveTarget
<1>5. client' = HandleFilter(Online, t, count) /\ log' = log
  BY DEF ExistenceFilter, Client
<1>6. CASE ~IsActiveTarget(c, t)
  <2>1. client' = Online
    BY <1>4, <1>5, <1>6 DEF HandleFilter
  <2>2. Exact(log, Online)
    BY <1>1, <1>6, UnheardExact
  <2> QED
    BY <1>5, <2>1, <2>2
<1>7. CASE IsActiveTarget(c, t) /\ t # Query /\ count = 0
  <2>1. client' = RemoveDocument(Online, t, TheDoc(t), [d \in {TheDoc(t)} |-> Unknown])
    BY <1>4, <1>5, <1>7 DEF HandleFilter
  <2> DEFINE update == [d \in {TheDoc(t)} |-> Unknown]
             x == RemoveDocument(Online, t, TheDoc(t), update)
  <2>2. update = [d \in {TheDoc(t)} |-> Unknown]
    OBVIOUS
  <2>3. x = RemoveDocument(Online, t, TheDoc(t), update)
    OBVIOUS
  <2>4. client' = x
    BY <2>1
  <2> HIDE DEF x, update
  <2>5. Exact(log, x)
    BY <1>1, <1>7, <2>2, <2>3, LookupForgotten
  <2> QED
    BY <1>5, <2>4, <2>5
<1>8. CASE IsActiveTarget(c, t) /\ t # Query /\ count # 0
  <2>1. client' = Online
    BY <1>4, <1>5, <1>8 DEF HandleFilter
  <2>2. ASSUME NEW n, Coming(c.incoming, n), t \notin c.resets, Delivers(log, c, t, n),
               NEW d \in t.docs
        PROVE  d \in Have(log, t, n) <=> d \in Holds(c, t)
    <3>1. t \in DOMAIN c.listening
      BY <1>8 DEF IsActiveTarget
    <3>2. t.docs = {TheDoc(t)}
      BY <1>1, <1>8, <3>1, LookedUpIs
    <3>3. count = Cardinality(Have(log, t, n)) /\ ~Some(c.incoming, DocOf(t, d))
      BY <1>1, <1>8, <2>2, FilterHead
    <3>4. Have(log, t, n) # {}
      BY <1>8, <3>3, FS_EmptySet
    <3>5. d \in Have(log, t, n)
      BY <2>2, <3>2, <3>4 DEF Have
    <3>6. Rightly(log, c, t, d, n)
      BY <2>2 DEF Delivers
    <3> QED
      BY <3>3, <3>5, <3>6 DEF Rightly, Will
  <2>3. Exact(log, Online)
    BY <1>1, <1>8, <2>2, FilterKeeps
  <2> QED
    BY <1>5, <2>1, <2>3
<1>9. CASE IsActiveTarget(c, t) /\ t = Query /\ count = expected
  <2>1. client' = Online
    BY <1>2, <1>4, <1>5, <1>9 DEF HandleFilter
  <2>2. ASSUME NEW n, Coming(c.incoming, n), t \notin c.resets, Delivers(log, c, t, n),
               NEW d \in t.docs
        PROVE  d \in Have(log, t, n) <=> d \in Holds(c, t)
    BY <1>1, <1>9, <2>2, EvenCount
  <2>3. Exact(log, Online)
    BY <1>1, <1>9, <2>2, FilterKeeps
  <2> QED
    BY <1>5, <2>1, <2>3
<1>10. CASE IsActiveTarget(c, t) /\ t = Query /\ count # expected
  <2> DEFINE r == ResetTarget(Online, t)
             x == [r EXCEPT !.resets = @ \cup {t}]
  <2>1. client' = x
    BY <1>2, <1>4, <1>5, <1>10 DEF HandleFilter
  <2>2. r = ResetTarget(Online, t)
    OBVIOUS
  <2> HIDE DEF r
  <2>3. x = [r EXCEPT !.resets = @ \cup {t}]
    OBVIOUS
  <2> HIDE DEF x
  <2>4. Exact(log, x)
    BY <1>1, <1>10, <2>2, <2>3, QueryRestarted
  <2> QED
    BY <1>5, <2>1, <2>4
<1> QED
  BY <1>6, <1>7, <1>8, <1>9, <1>10
=============================================================================
