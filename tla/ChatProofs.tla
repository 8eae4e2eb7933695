------------------------------ MODULE ChatProofs ------------------------------
(***************************************************************************)
(* What holds of ChatApp.  First the chats of one phone, for any people,    *)
(* timestamps and listeners, and however long its main queue grows; then    *)
(* its session, for any users, any number of requests and any depth of the  *)
(* stack.                                                                  *)
(***************************************************************************)
EXTENDS ChatMessages, ChatSession, ListFacts

SentTimes == {t \in Times : sent[t] # Nil}

TypesOfSent == sent \in [Times -> Message \cup {Nil}]

-----------------------------------------------------------------------------
(***************************************************************************)
(* Sorting.                                                                *)
(***************************************************************************)
LEMMA SomeTimes ==
    ASSUME NEW times \in SUBSET Times
    PROVE  times \in SUBSET Int /\ IsFiniteSet(times)
<1>1. IsFiniteSet(Times)
  BY BoundsAssumption, FS_Interval DEF Times
<1>2. IsFiniteSet(times)
  BY <1>1, FS_Subset
<1>3. \A t \in times : t \in Int
  BY DEF Times
<1> QED
  BY <1>2, <1>3

LEMMA OldestFirstIs ==
    ASSUME NEW times \in SUBSET Times
    PROVE  /\ OldestFirst(times) \in Seq(Times)
           /\ Range(OldestFirst(times)) = times
           /\ OldestFirst(times) = <<>> <=> times = {}
<1> DEFINE f == Ascending(times)
           n == Cardinality(times)
<1>1. times \in SUBSET Int /\ IsFiniteSet(times)
  BY SomeTimes
<1>2. /\ n \in Nat /\ f \in [1 .. n -> times]
      /\ \A i \in times : \E k \in 1 .. n : f[k] = i
  BY <1>1, AscendingIs
<1> HIDE DEF f, n
<1>3. f \in [1 .. n -> Times]
  BY <1>2
<1>4. f \in Seq(Times) /\ Len(f) = n /\ DOMAIN f = 1 .. n
  BY <1>2, <1>3, ListOf
<1>5. Range(f) = times
  BY <1>2, <1>4 DEF Range
<1>6. f = <<>> <=> times = {}
  BY <1>2, <1>4
<1> QED
  BY <1>4, <1>5, <1>6 DEF OldestFirst, f

LEMMA NewestFirstIs ==
    ASSUME NEW times \in SUBSET Times
    PROVE  /\ NewestFirst(times) \in Seq(Times)
           /\ \A i \in 1 .. Len(NewestFirst(times)) : NewestFirst(times)[i] \in times
           /\ \A t \in times : \E i \in 1 .. Len(NewestFirst(times)) : NewestFirst(times)[i] = t
           /\ \A i, j \in 1 .. Len(NewestFirst(times)) :
                 i < j => NewestFirst(times)[j] < NewestFirst(times)[i]
<1> DEFINE f == Ascending(times)
           n == Cardinality(times)
           g == Reverse(f)
<1>1. times \in SUBSET Int /\ IsFiniteSet(times)
  BY SomeTimes
<1>2. /\ n \in Nat /\ f \in [1 .. n -> times] /\ Increasing(f, n)
      /\ \A i \in times : \E k \in 1 .. n : f[k] = i
  BY <1>1, AscendingIs
<1> HIDE DEF f, n
<1>3. f \in [1 .. n -> Times]
  BY <1>2
<1>4. f \in Seq(Times) /\ Len(f) = n /\ DOMAIN f = 1 .. n
  BY <1>2, <1>3, ListOf
<1>5. g = [i \in 1 .. n |-> f[n - i + 1]]
  BY <1>4 DEF Reverse
<1>6. \A i \in 1 .. n : n - i + 1 \in 1 .. n
  BY <1>2
<1>7. \A i \in 1 .. n : g[i] = f[n - i + 1]
  BY <1>5
<1>8. g \in [1 .. n -> Times]
  BY <1>3, <1>5, <1>6
<1>9. g \in Seq(Times) /\ Len(g) = n
  BY <1>2, <1>8, ListOf
<1> HIDE DEF g
<1>10. \A i \in 1 .. n : g[i] \in times
  BY <1>2, <1>6, <1>7
<1>11. ASSUME NEW t \in times
       PROVE  \E i \in 1 .. n : g[i] = t
  <2>1. PICK k \in 1 .. n : f[k] = t
    BY <1>2
  <2>2. n - k + 1 \in 1 .. n /\ n - (n - k + 1) + 1 = k
    BY <1>2
  <2> QED
    BY <1>7, <2>1, <2>2
<1>12. ASSUME NEW i \in 1 .. n, NEW j \in 1 .. n, i < j
       PROVE  g[j] < g[i]
  <2>1. n - j + 1 \in 1 .. n /\ n - i + 1 \in 1 .. n /\ n - j + 1 < n - i + 1
    BY <1>2, <1>12
  <2> QED
    BY <1>2, <1>7, <2>1 DEF Increasing
<1> QED
  BY <1>9, <1>10, <1>11, <1>12 DEF NewestFirst, f, g

-----------------------------------------------------------------------------
(***************************************************************************)
(* The groups of the inbox, message after message.                        *)
(***************************************************************************)
F == INSTANCE ListFacts WITH op <- AddToGroup

LEMMA GroupsOfNone == F!Folded(<<>>, <<>>) = <<>>
BY F!FoldedEmpty

LEMMA GroupsAppend ==
    ASSUME NEW base, NEW list \in Seq(Times), NEW t \in Times
    PROVE  F!Folded(base, Append(list, t)) = AddToGroup(F!Folded(base, list), t)
BY F!FoldedAppend

LEMMA GroupsAre ==
    ASSUME NEW known
    PROVE  GroupedMessages(known)
             = F!Folded(<<>>, NewestFirst({t \in known : Me \in {sent[t].from, sent[t].to}}))
BY DEF GroupedMessages, F!Folded, FoldLeft, F!FoldLeft, MapThenFoldSet, F!MapThenFoldSet,
   Max, F!Max

\* The two keys a pair of people may have.
KeysOf(a, b) == {<<a, b>>, <<b, a>>}
Keys(t) == KeysOf(sent[t].from, sent[t].to)

\* What the first n messages of a list are grouped into: each group begins with the
\* first message of its pair of people, and each of those messages is in one.
GroupsOf(groups, list, n) ==
    /\ \A key \in DOMAIN groups :
          /\ groups[key] \in Seq(Times) /\ groups[key] # <<>>
          /\ \E i \in 1 .. n : /\ groups[key][1] = list[i] /\ key \in Keys(list[i])
                               /\ \A j \in 1 .. n : j < i => Pair(list[j]) # Pair(list[i])
    /\ \A i \in 1 .. n : \E key \in DOMAIN groups : key \in Keys(list[i])

LEMMA KeysAre ==
    ASSUME TypesOfSent, NEW t \in SentTimes, NEW u \in SentTimes
    PROVE  /\ Pair(t) = Pair(u) <=> Keys(t) = Keys(u)
           /\ \A key \in Keys(t) : key \in Keys(u) => Pair(t) = Pair(u)
<1>1. Pair(t) = {sent[t].from, sent[t].to} /\ Pair(u) = {sent[u].from, sent[u].to}
  BY DEF SentTimes, Pair
<1> DEFINE a == sent[t].from
           b == sent[t].to
           c == sent[u].from
           d == sent[u].to
<1>2. Keys(t) = KeysOf(a, b) /\ Keys(u) = KeysOf(c, d)
  BY DEF Keys
<1>3. Pair(t) = {a, b} /\ Pair(u) = {c, d}
  BY <1>1
<1> HIDE DEF a, b, c, d
<1>4. {a, b} = {c, d} <=> (a = c /\ b = d) \/ (a = d /\ b = c)
  OBVIOUS
<1>5. <<a, b>> \in KeysOf(c, d) => (a = c /\ b = d) \/ (a = d /\ b = c)
  BY DEF KeysOf
<1>6. <<b, a>> \in KeysOf(c, d) => (a = c /\ b = d) \/ (a = d /\ b = c)
  BY DEF KeysOf
<1>7. (a = c /\ b = d) \/ (a = d /\ b = c) => KeysOf(a, b) = KeysOf(c, d)
  BY DEF KeysOf
<1>8. <<a, b>> \in KeysOf(a, b) /\ \A k \in KeysOf(a, b) : k = <<a, b>> \/ k = <<b, a>>
  BY DEF KeysOf
<1> QED
  BY <1>2, <1>3, <1>4, <1>5, <1>6, <1>7, <1>8

LEMMA AddedToGroup ==
    ASSUME TypesOfSent, NEW list \in Seq(SentTimes), NEW n \in Nat, n + 1 <= Len(list),
           NEW groups, GroupsOf(groups, list, n)
    PROVE  GroupsOf(AddToGroup(groups, list[n + 1]), list, n + 1)
<1> DEFINE t == list[n + 1]
           key == <<sent[t].from, sent[t].to>>
           reverse == <<sent[t].to, sent[t].from>>
           found == IF key \in DOMAIN groups THEN key
                    ELSE IF reverse \in DOMAIN groups THEN reverse ELSE key
           new == AddToGroup(groups, t)
<1>1. Len(list) \in Nat /\ \A i \in 1 .. Len(list) : list[i] \in SentTimes
  BY ListIs
<1>2. t \in SentTimes /\ t \in Times
  BY <1>1 DEF SentTimes
<1>3. found \in Keys(t)
  BY DEF Keys, KeysOf
<1>4. found \notin DOMAIN groups => \A k \in DOMAIN groups : k \notin Keys(t)
  BY DEF Keys, KeysOf
<1>5. /\ DOMAIN new = DOMAIN groups \cup {found}
      /\ \A k \in DOMAIN new :
            new[k] = IF k # found THEN groups[k]
                     ELSE IF k \in DOMAIN groups THEN Append(groups[k], t) ELSE <<t>>
  BY DEF AddToGroup
<1> HIDE DEF found, new, t
<1>6. \A i \in 1 .. n : i \in 1 .. (n + 1) /\ list[i] \in SentTimes
  BY <1>1
<1>7. ASSUME NEW k \in DOMAIN groups
      PROVE  /\ new[k] \in Seq(Times) /\ new[k] # <<>>
             /\ \E i \in 1 .. (n + 1) :
                   /\ new[k][1] = list[i] /\ k \in Keys(list[i])
                   /\ \A j \in 1 .. (n + 1) : j < i => Pair(list[j]) # Pair(list[i])
  <2>1. groups[k] \in Seq(Times) /\ groups[k] # <<>>
    BY DEF GroupsOf
  <2>2. PICK i \in 1 .. n : /\ groups[k][1] = list[i] /\ k \in Keys(list[i])
                            /\ \A j \in 1 .. n : j < i => Pair(list[j]) # Pair(list[i])
    BY DEF GroupsOf
  <2>3. new[k] = groups[k] \/ new[k] = Append(groups[k], t)
    BY <1>5
  <2>4. new[k] \in Seq(Times) /\ new[k] # <<>> /\ new[k][1] = groups[k][1]
    <3>1. CASE new[k] = Append(groups[k], t)
      <4>1. Len(groups[k]) \in Nat /\ Len(groups[k]) # 0
        BY <2>1, ListIs
      <4>2. 1 \in 1 .. Len(groups[k])
        BY <4>1
      <4> QED
        BY <1>2, <2>1, <3>1, <4>1, <4>2, AppendIs, ListIs
    <3> QED
      BY <2>1, <2>3, <3>1
  <2>5. \A j \in 1 .. (n + 1) : j < i => j \in 1 .. n
    OBVIOUS
  <2> QED
    BY <1>6, <2>2, <2>4, <2>5
<1>8. ASSUME found \notin DOMAIN groups
      PROVE  /\ new[found] = <<t>>
             /\ \A j \in 1 .. n : Pair(list[j]) # Pair(t)
  <2>1. new[found] = <<t>>
    BY <1>5, <1>8
  <2>2. ASSUME NEW j \in 1 .. n
        PROVE  Pair(list[j]) # Pair(t)
    <3>1. PICK k \in DOMAIN groups : k \in Keys(list[j])
      BY DEF GroupsOf
    <3>2. k \notin Keys(t)
      BY <1>4, <1>8
    <3> QED
      BY <1>2, <1>6, <3>1, <3>2, KeysAre
  <2> QED
    BY <2>1, <2>2
<1>9. \A k \in DOMAIN new :
          /\ new[k] \in Seq(Times) /\ new[k] # <<>>
          /\ \E i \in 1 .. (n + 1) :
                /\ new[k][1] = list[i] /\ k \in Keys(list[i])
                /\ \A j \in 1 .. (n + 1) : j < i => Pair(list[j]) # Pair(list[i])
  <2> SUFFICES ASSUME NEW k \in DOMAIN new, k \notin DOMAIN groups
               PROVE  /\ new[k] \in Seq(Times) /\ new[k] # <<>>
                      /\ \E i \in 1 .. (n + 1) :
                            /\ new[k][1] = list[i] /\ k \in Keys(list[i])
                            /\ \A j \in 1 .. (n + 1) : j < i => Pair(list[j]) # Pair(list[i])
    BY <1>7
  <2>1. k = found /\ new[k] = <<t>> /\ \A j \in 1 .. n : Pair(list[j]) # Pair(t)
    BY <1>5, <1>8
  <2>2. new[k] \in Seq(Times) /\ new[k] # <<>> /\ new[k][1] = t
    BY <1>2, <2>1
  <2>3. n + 1 \in 1 .. (n + 1) /\ \A j \in 1 .. (n + 1) : j < n + 1 => j \in 1 .. n
    OBVIOUS
  <2> QED
    BY <1>3, <2>1, <2>2, <2>3 DEF t
<1>10. \A i \in 1 .. (n + 1) : \E k \in DOMAIN new : k \in Keys(list[i])
  <2> TAKE i \in 1 .. (n + 1)
  <2>1. CASE i \in 1 .. n
    BY <1>5, <2>1 DEF GroupsOf
  <2>2. CASE i = n + 1
    BY <1>3, <1>5, <2>2 DEF t
  <2> QED
    BY <2>1, <2>2
<1> QED
  BY <1>9, <1>10 DEF GroupsOf, new, t

LEMMA PrefixGroups ==
    ASSUME TypesOfSent, NEW list \in Seq(SentTimes)
    PROVE  GroupsOf(F!Folded(<<>>, list), list, Len(list))
<1> DEFINE n == Len(list)
           Prefix(k) == [i \in 1 .. k |-> list[i]]
           T == {k \in 0 .. n : GroupsOf(F!Folded(<<>>, Prefix(k)), list, k)}
<1>1. /\ n \in Nat /\ \A i \in 1 .. n : list[i] \in SentTimes /\ list[i] \in Times
      /\ list = [i \in 1 .. n |-> list[i]]
  BY ListIs DEF SentTimes
<1>2. \A k \in 0 .. n : Prefix(k) \in Seq(Times) /\ Len(Prefix(k)) = k
  <2> TAKE k \in 0 .. n
  <2>1. k \in Nat /\ \A i \in 1 .. k : i \in 1 .. n
    BY <1>1
  <2>2. Prefix(k) \in [1 .. k -> Times]
    BY <1>1, <2>1
  <2> HIDE DEF Prefix
  <2> QED
    BY <2>1, <2>2, ListOf
<1>3. 0 \in T
  <2>1. Prefix(0) = <<>>
    OBVIOUS
  <2>2. F!Folded(<<>>, Prefix(0)) = <<>>
    BY <2>1, GroupsOfNone
  <2>3. GroupsOf(<<>>, list, 0)
    BY DEF GroupsOf
  <2> HIDE DEF Prefix
  <2> QED
    BY <1>1, <2>2, <2>3
<1>4. ASSUME NEW k \in 0 .. (n - 1), k \in T
      PROVE  k + 1 \in T
  <2>1. k \in Nat /\ k \in 0 .. n /\ k + 1 \in 0 .. n /\ k + 1 \in 1 .. n /\ k + 1 <= Len(list)
    BY <1>1
  <2>2. list[k + 1] \in Times
    BY <1>1, <2>1
  <2>3. Prefix(k + 1) = Append(Prefix(k), list[k + 1])
    OBVIOUS
  <2>4. GroupsOf(F!Folded(<<>>, Prefix(k)), list, k)
    BY <1>4
  <2> HIDE DEF Prefix, n
  <2>5. F!Folded(<<>>, Prefix(k + 1)) = AddToGroup(F!Folded(<<>>, Prefix(k)), list[k + 1])
    BY <1>2, <2>1, <2>2, <2>3, GroupsAppend
  <2>6. GroupsOf(AddToGroup(F!Folded(<<>>, Prefix(k)), list[k + 1]), list, k + 1)
    BY <2>1, <2>4, AddedToGroup
  <2> QED
    BY <2>1, <2>5, <2>6
<1>5. n \in T
  <2>1. \A k \in 0 .. (n - 1) : k \in T => k + 1 \in T
    BY <1>4
  <2> HIDE DEF T
  <2>2. \A k \in 0 .. n : k \in T
    BY <1>1, <1>3, <2>1, Counting
  <2> QED
    BY <1>1, <2>2
<1>6. Prefix(n) = list
  BY <1>1
<1> HIDE DEF Prefix
<1> QED
  BY <1>5, <1>6

\* Of every pair of people the newest message.
Newest(known) ==
    {t \in known : Me \in Pair(t) /\ \A u \in known : Pair(u) = Pair(t) => u <= t}

\* What the inbox computes: the first of each group is the newest of its pair.
LEMMA LatestIs ==
    ASSUME TypesOfSent, NEW known \in SUBSET SentTimes
    PROVE  LatestOfGroups(GroupedMessages(known)) = NewestFirst(Newest(known))
<1> DEFINE mine == {t \in known : Me \in {sent[t].from, sent[t].to}}
           list == NewestFirst(mine)
           n == Len(list)
           groups == GroupedMessages(known)
<1>1. \A t \in known : /\ Pair(t) = {sent[t].from, sent[t].to} /\ t \in Times
                       /\ t \in mine <=> Me \in Pair(t)
  BY DEF Pair, SentTimes
<1>2. mine \in SUBSET Times /\ mine \in SUBSET known
  BY <1>1
<1>3. groups = F!Folded(<<>>, list)
  BY GroupsAre
<1> HIDE DEF mine, groups
<1>4. /\ list \in Seq(Times) /\ n \in Nat
      /\ \A i \in 1 .. n : list[i] \in mine /\ list[i] \in SentTimes
      /\ \A t \in mine : \E i \in 1 .. n : list[i] = t
      /\ \A i, j \in 1 .. n : i < j => list[j] < list[i]
  BY <1>2, NewestFirstIs, ListIs
<1>5. list \in Seq(SentTimes)
  <2>1. list = [i \in 1 .. n |-> list[i]]
    BY <1>4, ListIs
  <2> HIDE DEF list, n
  <2>2. list \in [1 .. n -> SentTimes]
    BY <1>4, <2>1
  <2> QED
    BY <1>4, <2>2, ListOf
<1> HIDE DEF list
<1>6. GroupsOf(groups, list, n)
  BY <1>3, <1>5, PrefixGroups
<1> HIDE DEF n
<1>7. ASSUME NEW key \in DOMAIN groups
      PROVE  groups[key][1] \in Newest(known)
  <2>1. PICK i \in 1 .. n : /\ groups[key][1] = list[i]
                            /\ \A j \in 1 .. n : j < i => Pair(list[j]) # Pair(list[i])
    BY <1>6 DEF GroupsOf
  <2>2. list[i] \in known /\ Me \in Pair(list[i])
    BY <1>1, <1>2, <1>4
  <2>3. ASSUME NEW u \in known, Pair(u) = Pair(list[i])
        PROVE  u <= list[i]
    <3>1. u \in mine
      BY <1>1, <2>2, <2>3
    <3>2. PICK j \in 1 .. n : list[j] = u
      BY <1>4, <3>1
    <3>3. ~(j < i)
      BY <2>1, <2>3, <3>2
    <3>4. j = i \/ i < j
      BY <1>4, <3>3
    <3>5. u \in Int /\ list[i] \in Int
      BY <1>1, <2>2 DEF Times
    <3> QED
      BY <1>4, <3>2, <3>4, <3>5
  <2> QED
    BY <2>1, <2>2, <2>3 DEF Newest
<1>8. ASSUME NEW t \in Newest(known)
      PROVE  \E key \in DOMAIN groups : groups[key][1] = t
  <2>1. t \in known /\ t \in mine /\ \A u \in known : Pair(u) = Pair(t) => u <= t
    BY <1>1 DEF Newest
  <2>2. PICK m \in 1 .. n : list[m] = t
    BY <1>4, <2>1
  <2>3. PICK key \in DOMAIN groups : key \in Keys(t)
    BY <1>6, <2>2 DEF GroupsOf
  <2>4. PICK i \in 1 .. n : groups[key][1] = list[i] /\ key \in Keys(list[i])
                            /\ \A j \in 1 .. n : j < i => Pair(list[j]) # Pair(list[i])
    BY <1>6 DEF GroupsOf
  <2>5. Pair(list[i]) = Pair(t)
    BY <1>4, <2>2, <2>3, <2>4, KeysAre
  <2>6. ~(m < i)
    BY <2>2, <2>4, <2>5
  <2>7. list[i] <= t
    BY <1>2, <1>4, <2>1, <2>5
  <2>8. m = i \/ i < m
    BY <1>4, <2>6
  <2>9. t \in Int /\ list[i] \in Int
    <3>1. t \in Times /\ list[i] \in Times
      BY <1>1, <1>2, <1>4, <2>1
    <3> QED
      BY <3>1, BoundsAssumption DEF Times
  <2>10. i < m => t < list[i]
    BY <1>4, <2>2
  <2>11. m = i
    BY <2>7, <2>8, <2>9, <2>10
  <2> QED
    BY <2>2, <2>4, <2>11
<1>9. {groups[k][1] : k \in DOMAIN groups} = Newest(known)
  <2>1. \A t \in Newest(known) : t \in {groups[k][1] : k \in DOMAIN groups}
    BY <1>8
  <2> QED
    BY <1>7, <2>1
<1> QED
  BY <1>9 DEF LatestOfGroups, groups

-----------------------------------------------------------------------------
(***************************************************************************)
(* Queues of jobs.                                                         *)
(***************************************************************************)
HasJob(queue, kinds) == \E j \in Range(queue) : j.run \in kinds

\* job is the last one of these kinds.
LastJob(queue, kinds, job) ==
    \E i \in DOMAIN queue :
        /\ job = queue[i] /\ queue[i].run \in kinds
        /\ \A k \in DOMAIN queue : k > i => queue[k].run \notin kinds

LEMMA RangeIs ==
    ASSUME NEW E, NEW queue \in Seq(E)
    PROVE  \A job : job \in Range(queue) <=> \E i \in 1 .. Len(queue) : job = queue[i]
BY ListIs DEF Range

LEMMA LastJobIs ==
    ASSUME NEW queue, NEW kinds, NEW job, LastJob(queue, kinds, job)
    PROVE  job \in Range(queue) /\ job.run \in kinds
BY DEF LastJob, Range

LEMMA TailIs ==
    ASSUME NEW E, NEW queue \in Seq(E), queue # <<>>
    PROVE  /\ Tail(queue) \in Seq(E) /\ Len(Tail(queue)) = Len(queue) - 1
           /\ \A i \in 1 .. Len(Tail(queue)) : Tail(queue)[i] = queue[i + 1]
           /\ Head(queue) = queue[1] /\ 1 \in 1 .. Len(queue) /\ queue[1] \in E
           /\ \A i \in 1 .. Len(queue) :
                 i # 1 => i - 1 \in 1 .. Len(Tail(queue)) /\ Tail(queue)[i - 1] = queue[i]
<1>1. Len(queue) \in Nat /\ Len(queue) > 0
  BY ListIs
<1>2. /\ Tail(queue) \in Seq(E) /\ Len(Tail(queue)) = Len(queue) - 1
      /\ \A i \in 1 .. Len(Tail(queue)) : Tail(queue)[i] = queue[i + 1]
      /\ Head(queue) = queue[1]
  BY <1>1
<1>3. 1 \in 1 .. Len(queue) /\ queue[1] \in E
  BY <1>1
<1>4. ASSUME NEW i \in 1 .. Len(queue), i # 1
      PROVE  i - 1 \in 1 .. Len(Tail(queue)) /\ Tail(queue)[i - 1] = queue[i]
  <2>1. i - 1 \in 1 .. Len(Tail(queue)) /\ (i - 1) + 1 = i
    BY <1>1, <1>2, <1>4
  <2> QED
    BY <1>2, <2>1
<1> QED
  BY <1>2, <1>3, <1>4

LEMMA JobsOfTail ==
    ASSUME NEW E, NEW queue \in Seq(E), queue # <<>>
    PROVE  /\ \A job : job \in Range(queue) <=> job = Head(queue) \/ job \in Range(Tail(queue))
           /\ \A kinds, job : LastJob(Tail(queue), kinds, job) => LastJob(queue, kinds, job)
           /\ \A kinds : Head(queue).run \in kinds /\ ~HasJob(Tail(queue), kinds)
                            => LastJob(queue, kinds, Head(queue))
<1> DEFINE t == Tail(queue)
<1>1. /\ t \in Seq(E) /\ Len(t) = Len(queue) - 1 /\ Len(queue) \in Nat
      /\ \A i \in 1 .. Len(t) : t[i] = queue[i + 1] /\ i + 1 \in 1 .. Len(queue)
      /\ Head(queue) = queue[1] /\ 1 \in 1 .. Len(queue)
      /\ \A i \in 1 .. Len(queue) : i # 1 => i - 1 \in 1 .. Len(t) /\ t[i - 1] = queue[i]
  BY TailIs, ListIs
<1>2. DOMAIN t = 1 .. Len(t) /\ DOMAIN queue = 1 .. Len(queue)
  BY <1>1, ListIs
<1> HIDE DEF t
<1>3. ASSUME NEW job
      PROVE  job \in Range(queue) <=> job = Head(queue) \/ job \in Range(t)
  <2>1. ASSUME job \in Range(queue)
        PROVE  job = Head(queue) \/ job \in Range(t)
    <3>1. PICK i \in 1 .. Len(queue) : job = queue[i]
      BY <1>2, <2>1 DEF Range
    <3>2. i # 1 => i - 1 \in DOMAIN t /\ t[i - 1] = job
      BY <1>1, <1>2, <3>1
    <3> QED
      BY <1>1, <3>1, <3>2 DEF Range
  <2>2. ASSUME job = Head(queue)
        PROVE  job \in Range(queue)
    BY <1>1, <1>2, <2>2 DEF Range
  <2>3. ASSUME job \in Range(t)
        PROVE  job \in Range(queue)
    BY <1>1, <1>2, <2>3 DEF Range
  <2> QED
    BY <2>1, <2>2, <2>3
<1>4. ASSUME NEW kinds, NEW job, LastJob(t, kinds, job)
      PROVE  LastJob(queue, kinds, job)
  <2>1. PICK i \in 1 .. Len(t) : /\ job = t[i] /\ t[i].run \in kinds
                                 /\ \A k \in 1 .. Len(t) : k > i => t[k].run \notin kinds
    BY <1>2, <1>4 DEF LastJob
  <2>2. ASSUME NEW k \in 1 .. Len(queue), k > i + 1
        PROVE  queue[k].run \notin kinds
    <3>1. k # 1 /\ k - 1 > i
      BY <2>2
    <3>2. k - 1 \in 1 .. Len(t) /\ t[k - 1] = queue[k]
      BY <1>1, <3>1
    <3> QED
      BY <2>1, <3>1, <3>2
  <2>3. i + 1 \in 1 .. Len(queue) /\ queue[i + 1] = t[i]
    BY <1>1
  <2> QED
    BY <1>2, <2>1, <2>2, <2>3 DEF LastJob
<1>5. ASSUME NEW kinds, Head(queue).run \in kinds, ~HasJob(t, kinds)
      PROVE  LastJob(queue, kinds, Head(queue))
  <2>1. ASSUME NEW k \in 1 .. Len(queue), k > 1
        PROVE  queue[k].run \notin kinds
    <3>1. k - 1 \in 1 .. Len(t) /\ t[k - 1] = queue[k]
      BY <1>1, <2>1
    <3>2. queue[k] \in Range(t)
      BY <1>2, <3>1 DEF Range
    <3> QED
      BY <1>5, <3>2 DEF HasJob
  <2> QED
    BY <1>1, <1>2, <1>5, <2>1 DEF LastJob
<1> QED
  BY <1>3, <1>4, <1>5 DEF t

LEMMA JobsOfConcat ==
    ASSUME NEW E, NEW queue \in Seq(E), NEW more \in Seq(E)
    PROVE  /\ \A job : job \in Range(queue \o more) <=> job \in Range(queue) \/ job \in Range(more)
           /\ \A kinds, job :
                 LastJob(queue \o more, kinds, job) =>
                    IF HasJob(more, kinds) THEN job \in Range(more)
                    ELSE LastJob(queue, kinds, job)
<1> DEFINE all == queue \o more
           m == Len(queue)
           n == Len(more)
<1>1. /\ all \in Seq(E) /\ Len(all) = m + n /\ m \in Nat /\ n \in Nat
      /\ \A i \in 1 .. m : all[i] = queue[i] /\ i \in 1 .. (m + n)
      /\ \A i \in 1 .. n : all[m + i] = more[i] /\ m + i \in 1 .. (m + n)
  BY ConcatIs, ListIs
<1>2. DOMAIN all = 1 .. (m + n) /\ DOMAIN queue = 1 .. m /\ DOMAIN more = 1 .. n
  BY <1>1, ListIs
<1> HIDE DEF all, m, n
<1>3. \A i \in 1 .. (m + n) : i \in 1 .. m \/ (i > m /\ i - m \in 1 .. n /\ all[i] = more[i - m])
  <2> TAKE i \in 1 .. (m + n)
  <2>1. CASE i > m
    <3>1. i - m \in 1 .. n /\ m + (i - m) = i
      BY <1>1, <2>1
    <3> QED
      BY <1>1, <2>1, <3>1
  <2>2. CASE ~(i > m)
    BY <1>1, <2>2
  <2> QED
    BY <2>1, <2>2
<1>4. ASSUME NEW job
      PROVE  job \in Range(all) <=> job \in Range(queue) \/ job \in Range(more)
  <2>1. ASSUME job \in Range(all)
        PROVE  job \in Range(queue) \/ job \in Range(more)
    <3>1. PICK i \in 1 .. (m + n) : job = all[i]
      BY <1>2, <2>1 DEF Range
    <3> QED
      BY <1>1, <1>2, <1>3, <3>1 DEF Range
  <2>2. ASSUME job \in Range(queue) \/ job \in Range(more)
        PROVE  job \in Range(all)
    BY <1>1, <1>2, <2>2 DEF Range
  <2> QED
    BY <2>1, <2>2
<1>5. ASSUME NEW kinds, NEW job, LastJob(all, kinds, job)
      PROVE  IF HasJob(more, kinds) THEN job \in Range(more) ELSE LastJob(queue, kinds, job)
  <2>1. PICK i \in 1 .. (m + n) : /\ job = all[i] /\ all[i].run \in kinds
                                  /\ \A k \in 1 .. (m + n) : k > i => all[k].run \notin kinds
    BY <1>2, <1>5 DEF LastJob
  <2>2. CASE i > m
    <3>1. i - m \in 1 .. n /\ all[i] = more[i - m]
      BY <1>1, <1>3, <2>2
    <3>2. job \in Range(more)
      BY <1>2, <2>1, <3>1 DEF Range
    <3> QED
      BY <2>1, <3>2 DEF HasJob
  <2>3. CASE ~(i > m)
    <3>1. i \in 1 .. m
      BY <1>1, <2>3
    <3>2. ~HasJob(more, kinds)
      <4> SUFFICES ASSUME NEW k \in 1 .. n, more[k].run \in kinds
                   PROVE  FALSE
        BY <1>2 DEF HasJob, Range
      <4>1. m + k \in 1 .. (m + n) /\ all[m + k] = more[k] /\ m + k > i
        BY <1>1, <3>1
      <4> QED
        BY <2>1, <4>1
    <3>3. LastJob(queue, kinds, job)
      <4>1. \A k \in 1 .. m : k > i => queue[k].run \notin kinds
        BY <1>1, <2>1
      <4>2. job = queue[i] /\ queue[i].run \in kinds
        BY <1>1, <2>1, <3>1
      <4> QED
        BY <1>2, <3>1, <4>1, <4>2 DEF LastJob
    <3> QED
      BY <3>2, <3>3
  <2> QED
    BY <2>2, <2>3
<1> QED
  BY <1>4, <1>5 DEF all

\* What is left when the chat closes.
LEMMA JobsOfInbox ==
    ASSUME NEW E, NEW queue \in Seq(E)
    PROVE  /\ InboxJobs(queue) \in Seq(E)
           /\ \A job : job \in Range(InboxJobs(queue)) <=>
                          job \in Range(queue) /\ job.run \in {"inbox", "reloadInbox"}
           /\ \A kinds, job :
                 kinds \subseteq {"inbox", "reloadInbox"} /\ LastJob(InboxJobs(queue), kinds, job)
                    => LastJob(queue, kinds, job)
<1> DEFINE S == {i \in DOMAIN queue : queue[i].run \in {"inbox", "reloadInbox"}}
           n == Cardinality(S)
           kept == Keep(queue, S)
           f == Ascending(S)
<1>1. kept = InboxJobs(queue)
  BY DEF InboxJobs
<1>2. S \in SUBSET DOMAIN queue /\ \A i \in DOMAIN queue : i \in Int
  BY ListIs
<1>3. S \in SUBSET Int
  BY <1>2
<1>4. \A i \in S : i \in DOMAIN queue /\ queue[i].run \in {"inbox", "reloadInbox"}
  OBVIOUS
<1>5. \A i \in DOMAIN queue : queue[i].run \in {"inbox", "reloadInbox"} => i \in S
  OBVIOUS
<1> HIDE DEF S
<1>6. /\ kept \in Seq(E) /\ IsFiniteSet(S) /\ n \in Nat /\ DOMAIN kept = 1 .. n
      /\ \A k \in 1 .. n : f[k] \in S /\ kept[k] = queue[f[k]]
  BY <1>2, KeepIs
<1>7. Increasing(f, n) /\ \A i \in S : \E k \in 1 .. n : f[k] = i
  BY <1>3, <1>6, AscendingIs
<1> HIDE DEF kept, f, n
<1>8. ASSUME NEW job
      PROVE  job \in Range(kept) <=> job \in Range(queue) /\ job.run \in {"inbox", "reloadInbox"}
  <2>1. ASSUME job \in Range(kept)
        PROVE  job \in Range(queue) /\ job.run \in {"inbox", "reloadInbox"}
    <3>1. PICK k \in 1 .. n : job = kept[k]
      BY <1>6, <2>1 DEF Range
    <3> QED
      BY <1>4, <1>6, <3>1 DEF Range
  <2>2. ASSUME job \in Range(queue), job.run \in {"inbox", "reloadInbox"}
        PROVE  job \in Range(kept)
    <3>1. PICK i \in DOMAIN queue : job = queue[i]
      BY <2>2 DEF Range
    <3>2. PICK k \in 1 .. n : f[k] = i
      BY <1>5, <1>7, <2>2, <3>1
    <3> QED
      BY <1>6, <3>1, <3>2 DEF Range
  <2> QED
    BY <2>1, <2>2
<1>9. ASSUME NEW kinds, NEW job, kinds \subseteq {"inbox", "reloadInbox"}, LastJob(kept, kinds, job)
      PROVE  LastJob(queue, kinds, job)
  <2>1. PICK k \in 1 .. n : /\ job = kept[k] /\ kept[k].run \in kinds
                            /\ \A l \in 1 .. n : l > k => kept[l].run \notin kinds
    BY <1>6, <1>9 DEF LastJob
  <2>2. f[k] \in DOMAIN queue /\ queue[f[k]] = job
    BY <1>4, <1>6, <2>1
  <2>3. ASSUME NEW i \in DOMAIN queue, i > f[k], queue[i].run \in kinds
        PROVE  FALSE
    <3>1. i \in S
      BY <1>5, <1>9, <2>3
    <3>2. PICK l \in 1 .. n : f[l] = i
      BY <1>7, <3>1
    <3>3. ~(l > k)
      BY <1>6, <2>1, <2>3, <3>2
    <3>4. l = k \/ l < k
      BY <3>3
    <3>5. f[l] = f[k] \/ f[l] < f[k]
      BY <1>7, <3>4 DEF Increasing
    <3>6. f[k] \in Int /\ i \in Int
      BY <1>2, <2>2
    <3> QED
      BY <2>3, <3>2, <3>5, <3>6
  <2> QED
    BY <2>1, <2>2, <2>3 DEF LastJob
<1> QED
  BY <1>1, <1>6, <1>8, <1>9

\* One job waits before another.
Before(queue, first, second) ==
    \E i, k \in DOMAIN queue : i < k /\ queue[i] = first /\ queue[k] = second

LEMMA BeforeInTail ==
    ASSUME NEW E, NEW queue \in Seq(E), queue # <<>>
    PROVE  /\ \A a, b : Before(Tail(queue), a, b) => Before(queue, a, b)
           /\ \A b \in Range(Tail(queue)) : Before(queue, Head(queue), b)
<1> DEFINE t == Tail(queue)
<1>1. /\ t \in Seq(E) /\ Len(t) = Len(queue) - 1 /\ Len(queue) \in Nat
      /\ \A i \in 1 .. Len(t) : t[i] = queue[i + 1] /\ i + 1 \in 1 .. Len(queue)
      /\ Head(queue) = queue[1] /\ 1 \in 1 .. Len(queue)
  BY TailIs, ListIs
<1>2. DOMAIN t = 1 .. Len(t) /\ DOMAIN queue = 1 .. Len(queue)
  BY <1>1, ListIs
<1> HIDE DEF t
<1>3. ASSUME NEW a, NEW b, Before(t, a, b)
      PROVE  Before(queue, a, b)
  <2>1. PICK i \in 1 .. Len(t), k \in 1 .. Len(t) : i < k /\ t[i] = a /\ t[k] = b
    BY <1>2, <1>3 DEF Before
  <2>2. i + 1 < k + 1 /\ queue[i + 1] = a /\ queue[k + 1] = b
    BY <1>1, <2>1
  <2> QED
    BY <1>1, <1>2, <2>2 DEF Before
<1>4. ASSUME NEW b \in Range(t)
      PROVE  Before(queue, Head(queue), b)
  <2>1. PICK k \in 1 .. Len(t) : t[k] = b
    BY <1>2 DEF Range
  <2>2. 1 < k + 1 /\ queue[k + 1] = b
    BY <1>1, <2>1
  <2> QED
    BY <1>1, <1>2, <2>2 DEF Before
<1> QED
  BY <1>3, <1>4 DEF t

LEMMA BeforeInConcat ==
    ASSUME NEW E, NEW queue \in Seq(E), NEW more \in Seq(E), NEW a, NEW b,
           Before(queue \o more, a, b)
    PROVE  /\ Before(queue, a, b) \/ b \in Range(more)
           /\ a \in Range(queue) \cup Range(more)
<1> DEFINE all == queue \o more
           m == Len(queue)
           n == Len(more)
<1>1. /\ all \in Seq(E) /\ Len(all) = m + n /\ m \in Nat /\ n \in Nat
      /\ \A i \in 1 .. m : all[i] = queue[i]
      /\ \A i \in 1 .. n : all[m + i] = more[i]
  BY ConcatIs, ListIs
<1>2. DOMAIN all = 1 .. (m + n) /\ DOMAIN queue = 1 .. m /\ DOMAIN more = 1 .. n
  BY <1>1, ListIs
<1>3. \A job \in Range(all) : job \in Range(queue) \/ job \in Range(more)
  BY JobsOfConcat
<1> HIDE DEF all, m, n
<1>4. PICK i \in 1 .. (m + n), k \in 1 .. (m + n) : i < k /\ all[i] = a /\ all[k] = b
  BY <1>2 DEF Before, all
<1>5. a \in Range(all)
  BY <1>2, <1>4 DEF Range
<1>6. CASE k > m
  <2>1. k - m \in 1 .. n /\ m + (k - m) = k
    BY <1>1, <1>6
  <2>2. more[k - m] = b
    BY <1>1, <1>4, <2>1
  <2>3. b \in Range(more)
    BY <1>2, <2>1, <2>2 DEF Range
  <2> QED
    BY <1>3, <1>5, <2>3
<1>7. CASE ~(k > m)
  <2>1. i \in 1 .. m /\ k \in 1 .. m
    BY <1>1, <1>4, <1>7
  <2>2. Before(queue, a, b)
    BY <1>1, <1>2, <1>4, <2>1 DEF Before
  <2> QED
    BY <1>3, <1>5, <2>2
<1> QED
  BY <1>6, <1>7

LEMMA OneIs ==
    ASSUME NEW E, NEW e \in E
    PROVE  <<e>> \in Seq(E) /\ Range(<<e>>) = {e}
<1>1. <<e>> \in Seq(E)
  OBVIOUS
<1>2. DOMAIN <<e>> = {1} /\ <<e>>[1] = e
  OBVIOUS
<1>3. Range(<<e>>) = {e}
  BY <1>2 DEF Range
<1> QED
  BY <1>1, <1>3

LEMMA OneMoreIsConcat ==
    ASSUME NEW E, NEW s \in Seq(E), NEW e \in E
    PROVE  Append(s, e) = s \o <<e>>
OBVIOUS

LEMMA AppendToConcat ==
    ASSUME NEW E, NEW s \in Seq(E), NEW t \in Seq(E), NEW e \in E
    PROVE  Append(s \o t, e) = s \o (t \o <<e>>)
BY SMTT(30)

LEMMA ConcatNone ==
    ASSUME NEW E, NEW s \in Seq(E)
    PROVE  s \o <<>> = s
OBVIOUS

LEMMA NoneIs ==
    ASSUME NEW E
    PROVE  <<>> \in Seq(E) /\ Range(<<>>) = {}
BY DEF Range

LEMMA ReloadIs ==
    ASSUME NEW queue \in Seq(Job), NEW job \in Job
    PROVE  /\ \E added \in Seq(Job) :
                 Reload(queue, job) = queue \o added /\ \A x \in Range(added) : x = job
           /\ job \in Range(Reload(queue, job))
<1>1. CASE queue # <<>> /\ Last(queue) = job
  <2>1. Reload(queue, job) = queue /\ queue = queue \o <<>> /\ <<>> \in Seq(Job)
    BY <1>1, ConcatNone, NoneIs DEF Reload
  <2>2. Len(queue) \in DOMAIN queue /\ queue[Len(queue)] = job
    BY <1>1, ListIs DEF Last
  <2>3. \A x \in Range(<<>>) : x = job
    BY DEF Range
  <2> QED
    BY <2>1, <2>2, <2>3 DEF Range
<1>2. CASE ~(queue # <<>> /\ Last(queue) = job)
  <2>1. Reload(queue, job) = Append(queue, job)
    BY <1>2 DEF Reload
  <2>2. /\ Append(queue, job) = queue \o <<job>> /\ <<job>> \in Seq(Job)
        /\ Range(<<job>>) = {job}
    BY OneMoreIsConcat, OneIs
  <2>3. job \in Range(queue \o <<job>>)
    BY <2>2, JobsOfConcat
  <2> QED
    BY <2>1, <2>2, <2>3
<1> QED
  BY <1>1, <1>2

-----------------------------------------------------------------------------
(***************************************************************************)
(* Types.                                                                  *)
(***************************************************************************)
TypesInv ==
    /\ TypeOK
    /\ \A job \in Range(main) : job.run \in {"chat", "inbox"} => job.result \subseteq SentTimes

\* The queue is what is left of it and what is added.
Queued(rest, added) ==
    /\ rest \in Seq(Job) /\ added \in Seq(Job)
    /\ Range(rest) \subseteq Range(main)
    /\ main' = rest \o added

LEMMA QueuedIs ==
    ASSUME NEW rest, NEW added, Queued(rest, added)
    PROVE  /\ main' \in Seq(Job)
           /\ Range(main') = Range(rest) \cup Range(added)
           /\ \A kinds, job :
                 LastJob(main', kinds, job) =>
                    IF HasJob(added, kinds) THEN job \in Range(added)
                    ELSE LastJob(rest, kinds, job)
           /\ \A kinds : HasJob(main', kinds) <=> HasJob(rest, kinds) \/ HasJob(added, kinds)
<1>1. main' \in Seq(Job)
  BY ConcatIs DEF Queued
<1>2. \A job : job \in Range(main') <=> job \in Range(rest) \/ job \in Range(added)
  BY JobsOfConcat DEF Queued
<1>3. \A kinds, job :
         LastJob(main', kinds, job) =>
            IF HasJob(added, kinds) THEN job \in Range(added) ELSE LastJob(rest, kinds, job)
  BY JobsOfConcat DEF Queued
<1>4. \A kinds : HasJob(main', kinds) <=> HasJob(rest, kinds) \/ HasJob(added, kinds)
  BY <1>2 DEF HasJob
<1> QED
  BY <1>1, <1>2, <1>3, <1>4

LEMMA JobsAre ==
    /\ \A result \in SUBSET Times :
          [run |-> "chat", result |-> result] \in Job /\ [run |-> "inbox", result |-> result] \in Job
    /\ [run |-> "chatError"] \in Job /\ [run |-> "reloadChat"] \in Job
    /\ [run |-> "reloadInbox"] \in Job
    /\ \A job \in Job : job.run \in {"chat", "inbox"} => job.result \in SUBSET Times
    /\ \A job \in Job : job.run \in {"chat", "inbox", "chatError", "reloadChat", "reloadInbox"}
BY DEF Job

\* The messages between two people.
LEMMA QueryIs ==
    ASSUME NEW all \in [Times -> Message \cup {Nil}], NEW other \in Others,
           NEW known \in SUBSET Times, \A t \in known : all[t] # Nil
    PROVE  ChatQuery(all, known, other)
             = {t \in known : {all[t].from, all[t].to} = {Me, other}}
<1>1. \A t \in known : all[t] \in Message
  OBVIOUS
<1>2. ASSUME NEW t \in known
      PROVE  all[t].from \in {Me, other} /\ all[t].to \in {Me, other}
               <=> {all[t].from, all[t].to} = {Me, other}
  <2>1. all[t].from # all[t].to
    BY <1>1 DEF Message
  <2> QED
    BY <2>1
<1> QED
  BY <1>2 DEF ChatQuery

LEMMA CallsAre ==
    ASSUME TypesInv, NEW all, NEW known \in SUBSET Times, NEW new,
           ChatQuery(all, known, peer) \in SUBSET Times
    PROVE  /\ Calls(all, known, new) \in Seq(Job)
           /\ \A job \in Range(Calls(all, known, new)) :
                 \/ job.run = "inbox" /\ job.result = known /\ Me \in listening
                 \/ /\ job.run = "chat" /\ job.result = ChatQuery(all, known, peer)
                    /\ peer # Nil /\ listeners > 0
           /\ Me \in listening => HasJob(Calls(all, known, new), {"inbox"})
           /\ peer # Nil /\ listeners > 0 /\ ChatQuery(all, {new}, peer) # {}
                 => HasJob(Calls(all, known, new), {"chat"})
<1> DEFINE one == [run |-> "chat", result |-> ChatQuery(all, known, peer)]
           chats == [i \in 1 .. listeners |-> one]
           first == IF peer # Nil /\ ChatQuery(all, {new}, peer) # {} THEN chats ELSE <<>>
           last == [run |-> "inbox", result |-> known]
           lasts == IF Me \in listening THEN <<last>> ELSE <<>>
           calls == first \o lasts
<1>1. calls = Calls(all, known, new)
  BY DEF Calls
<1>2. /\ one \in Job /\ one.run = "chat" /\ one.result = ChatQuery(all, known, peer)
      /\ last \in Job /\ last.run = "inbox" /\ last.result = known
  BY JobsAre
<1>3. listeners \in Nat
  BY DEF TypesInv, TypeOK
<1> HIDE DEF one, last
<1>4. /\ chats \in Seq(Job) /\ \A job \in Range(chats) : job = one /\ listeners > 0
      /\ listeners > 0 => one \in Range(chats)
  <2>1. chats \in [1 .. listeners -> Job] /\ DOMAIN chats = 1 .. listeners
    BY <1>2
  <2>2. \A i \in 1 .. listeners : chats[i] = one
    OBVIOUS
  <2> HIDE DEF chats
  <2>3. chats \in Seq(Job)
    BY <1>3, <2>1, ListOf
  <2>4. \A job \in Range(chats) : job = one /\ listeners > 0
    BY <1>3, <2>1, <2>2 DEF Range
  <2>5. listeners > 0 => one \in Range(chats)
    <3>1. listeners > 0 => 1 \in 1 .. listeners
      BY <1>3
    <3> QED
      BY <2>1, <2>2, <3>1 DEF Range
  <2> QED
    BY <2>3, <2>4, <2>5
<1> HIDE DEF chats
<1>5. /\ first \in Seq(Job)
      /\ \A job \in Range(first) : job = one /\ listeners > 0 /\ peer # Nil
      /\ peer # Nil /\ listeners > 0 /\ ChatQuery(all, {new}, peer) # {} => one \in Range(first)
  <2>1. CASE peer # Nil /\ ChatQuery(all, {new}, peer) # {}
    BY <1>4, <2>1
  <2>2. CASE ~(peer # Nil /\ ChatQuery(all, {new}, peer) # {})
    <3>1. first = <<>>
      BY <2>2
    <3> HIDE DEF first
    <3>2. <<>> \in Seq(Job) /\ Range(<<>>) = {}
      BY NoneIs
    <3> QED
      BY <2>2, <3>1, <3>2
  <2> QED
    BY <2>1, <2>2
<1> HIDE DEF first
<1>6. /\ lasts \in Seq(Job)
      /\ \A job : job \in Range(lasts) <=> job = last /\ Me \in listening
  <2>1. CASE Me \in listening
    BY <1>2, <2>1, OneIs
  <2>2. CASE Me \notin listening
    BY <2>2, NoneIs
  <2> QED
    BY <2>1, <2>2
<1> HIDE DEF lasts
<1>7. /\ calls \in Seq(Job)
      /\ \A job : job \in Range(calls) <=>
                     job \in Range(first) \/ (job = last /\ Me \in listening)
  BY <1>5, <1>6, ConcatIs, JobsOfConcat
<1> HIDE DEF calls
<1>8. Me \in listening => HasJob(calls, {"inbox"})
  BY <1>2, <1>7 DEF HasJob
<1>9. peer # Nil /\ listeners > 0 /\ ChatQuery(all, {new}, peer) # {} => HasJob(calls, {"chat"})
  BY <1>2, <1>5, <1>7 DEF HasJob
<1>10. \A job \in Range(calls) :
          \/ job.run = "inbox" /\ job.result = known /\ Me \in listening
          \/ /\ job.run = "chat" /\ job.result = ChatQuery(all, known, peer)
             /\ peer # Nil /\ listeners > 0
  BY <1>2, <1>5, <1>7
<1> QED
  BY <1>1, <1>7, <1>8, <1>9, <1>10

-----------------------------------------------------------------------------
(***************************************************************************)
(* The invariants.                                                         *)
(***************************************************************************)
\* The last call waiting for the inbox will show what it can know of.
InboxInv ==
    /\ \A job : LastJob(main, {"inbox"}, job) => job.result = Known
    /\ ~HasJob(main, {"inbox"}) => inbox = NewestFirst(Newest(Known))
    /\ ~HasJob(main, {"inbox", "reloadInbox"}) => inboxRows = inbox

Conversation == {t \in cached : Pair(t) = {Me, peer}}

ChatCall == {"chat", "chatError"}

\* So will the last call waiting for the open chat, unless it is an error; a chat
\* without listeners ends in an error or has ended in one.
ChatInv ==
    /\ peer = Nil =>
          /\ listeners = 0 /\ messages = <<>> /\ rows = <<>>
          /\ ~HasJob(main, ChatCall \cup {"reloadChat"})
    /\ peer # Nil =>
          /\ \A job : LastJob(main, ChatCall, job) =>
                /\ job.run = "chat" => job.result = Conversation
                /\ listeners = 0 => job.run = "chatError"
          /\ ~HasJob(main, ChatCall) =>
                failed \/ (listeners # 0 /\ messages = OldestFirst(Conversation))
    /\ messages # <<>> /\ ~HasJob(main, {"reloadChat"}) => rows = messages

\* A message of the open chat that the server has is not forgotten again.
OfChat(times) ==
    /\ times \subseteq {t \in SentTimes : Pair(t) = {Me, peer}}
    /\ times \cap cloud \subseteq cached

\* What is shown now is still in the list and in each call that waits, and what one
\* call brings is in the next one.
ShownInv ==
    /\ OfChat(Range(messages)) /\ OfChat(Range(rows))
    /\ messages # <<>> => Range(rows) \cap cached \subseteq Range(messages)
    /\ \A job \in Range(main) :
          job.run = "chat" =>
             /\ OfChat(job.result)
             /\ Range(messages) \cap cached \subseteq job.result
             /\ Range(rows) \cap cached \subseteq job.result
    /\ \A a, b :
          Before(main, a, b) /\ a.run = "chat" /\ b.run = "chat" =>
             a.result \cap cached \subseteq b.result

\* A message keeps its two people.
SentGrows ==
    /\ TypesOfSent' /\ SentTimes \subseteq SentTimes'
    /\ \A t \in SentTimes : Pair(t)' = Pair(t)

\* Nothing of these kinds has left the queue.
Left(rest, kinds) ==
    /\ \A job : LastJob(rest, kinds, job) => LastJob(main, kinds, job)
    /\ HasJob(main, kinds) => HasJob(rest, kinds)

LEMMA TypesKept ==
    ASSUME TypesInv, NEW rest, NEW added, Queued(rest, added), SentGrows,
           \A job \in Range(added) :
               job.run \in {"chat", "inbox"} => job.result \subseteq SentTimes'
    PROVE  /\ main' \in Seq(Job)
           /\ \A job \in Range(main') :
                 job.run \in {"chat", "inbox"} => job.result \subseteq SentTimes'
<1>1. main' \in Seq(Job) /\ Range(main') = Range(rest) \cup Range(added)
  BY QueuedIs
<1>2. Range(rest) \subseteq Range(main) /\ SentTimes \subseteq SentTimes'
  BY DEF Queued, SentGrows
<1>3. ASSUME NEW job \in Range(main'), job.run \in {"chat", "inbox"}
      PROVE  job.result \subseteq SentTimes'
  <2>1. job \in Range(added) \/ job \in Range(main)
    BY <1>1, <1>2
  <2>2. job \in Range(main) => job.result \subseteq SentTimes
    BY <1>3 DEF TypesInv
  <2> QED
    BY <1>2, <1>3, <2>1, <2>2
<1> QED
  BY <1>1, <1>3

LEMMA InboxKept ==
    ASSUME TypesInv, InboxInv, NEW rest, NEW added, Queued(rest, added), SentGrows,
           Left(rest, {"inbox"}),
           \A job \in Range(added) : job.run = "inbox" => job.result = Known',
           Known' = Known \/ HasJob(added, {"inbox"}),
           inbox' = inbox,
           \/ inboxRows' = inbox
           \/ inboxRows' = inboxRows /\ Left(rest, {"inbox", "reloadInbox"})
    PROVE  InboxInv'
<1>1. /\ \A kinds, job :
            LastJob(main', kinds, job) =>
               IF HasJob(added, kinds) THEN job \in Range(added) ELSE LastJob(rest, kinds, job)
      /\ \A kinds : HasJob(main', kinds) <=> HasJob(rest, kinds) \/ HasJob(added, kinds)
  BY QueuedIs
<1>2. ASSUME NEW job, LastJob(main', {"inbox"}, job)
      PROVE  job.result = Known'
  <2>1. job.run = "inbox"
    BY <1>2, LastJobIs
  <2>2. CASE HasJob(added, {"inbox"})
    BY <1>1, <1>2, <2>1, <2>2
  <2>3. CASE ~HasJob(added, {"inbox"})
    BY <1>1, <1>2, <2>3 DEF InboxInv, Left
  <2> QED
    BY <2>2, <2>3
<1>3. ASSUME ~HasJob(main', {"inbox"})
      PROVE  inbox' = NewestFirst(Newest(Known))'
  <2>1. Known' = Known /\ inbox = NewestFirst(Newest(Known))
    BY <1>1, <1>3 DEF InboxInv, Left
  <2>2. \A t \in Known : Pair(t)' = Pair(t)
    BY DEF TypesInv, TypeOK, SentGrows, SentTimes, Known
  <2>3. Newest(Known)' = Newest(Known)
    BY <2>1, <2>2 DEF Newest
  <2> QED
    BY <2>1, <2>3 DEF NewestFirst
<1>4. ASSUME ~HasJob(main', {"inbox", "reloadInbox"})
      PROVE  inboxRows' = inbox'
  BY <1>1, <1>4 DEF InboxInv, Left
<1> QED
  BY <1>2, <1>3, <1>4 DEF InboxInv

LEMMA ChatKept ==
    ASSUME TypesInv, ChatInv, NEW rest, NEW added, Queued(rest, added), peer # Nil,
           Left(rest, ChatCall), Left(rest, {"reloadChat"}),
           \A job \in Range(added) :
               job.run = "chat" => job.result = Conversation' /\ listeners' # 0,
           \/ HasJob(added, ChatCall)
           \/ (Conversation' = Conversation \/ listeners = 0) /\ listeners' = listeners,
           UNCHANGED <<peer, messages, rows, failed>>
    PROVE  ChatInv'
<1>1. /\ \A kinds, job :
            LastJob(main', kinds, job) =>
               IF HasJob(added, kinds) THEN job \in Range(added) ELSE LastJob(rest, kinds, job)
      /\ \A kinds : HasJob(main', kinds) <=> HasJob(rest, kinds) \/ HasJob(added, kinds)
  BY QueuedIs
<1>2. ASSUME NEW job, LastJob(main', ChatCall, job)
      PROVE  /\ job.run = "chat" => job.result = Conversation'
             /\ listeners' = 0 => job.run = "chatError"
  <2>1. job.run \in ChatCall
    BY <1>2, LastJobIs
  <2>2. CASE HasJob(added, ChatCall)
    BY <1>1, <1>2, <2>1, <2>2 DEF ChatCall
  <2>3. CASE ~HasJob(added, ChatCall)
    <3>1. LastJob(main, ChatCall, job)
      BY <1>1, <1>2, <2>3 DEF Left
    <3>2. /\ job.run = "chat" => job.result = Conversation
          /\ listeners = 0 => job.run = "chatError"
      BY <3>1 DEF ChatInv
    <3> QED
      BY <2>3, <3>2
  <2> QED
    BY <2>2, <2>3
<1>3. ASSUME ~HasJob(main', ChatCall)
      PROVE  failed \/ (listeners' # 0 /\ messages = OldestFirst(Conversation'))
  <2>1. ~HasJob(added, ChatCall) /\ ~HasJob(main, ChatCall)
    BY <1>1, <1>3 DEF Left
  <2> QED
    BY <2>1 DEF ChatInv
<1>4. messages # <<>> /\ ~HasJob(main', {"reloadChat"}) => rows = messages
  BY <1>1 DEF ChatInv, Left
<1> QED
  BY <1>2, <1>3, <1>4 DEF ChatInv, OldestFirst

LEMMA ShownKept ==
    ASSUME TypesInv, ShownInv, NEW rest, NEW added, Queued(rest, added), SentGrows,
           \A a, b : Before(rest, a, b) => Before(main, a, b),
           peer' = peer, cached' \subseteq SentTimes',
           \A times : OfChat(times) => /\ times \cap cloud' \subseteq cached'
                                      /\ times \cap cached' \subseteq cached,
           \A job \in Range(added) : job.run = "chat" => job.result = Conversation',
           UNCHANGED <<messages, rows>>
    PROVE  ShownInv'
<1>1. /\ Range(main') = Range(rest) \cup Range(added)
      /\ \A a, b : Before(main', a, b) =>
            /\ Before(main, a, b) \/ b \in Range(added)
            /\ a \in Range(main) \cup Range(added)
  BY QueuedIs, BeforeInConcat DEF Queued
<1>2. ASSUME NEW times, OfChat(times)
      PROVE  /\ OfChat(times)'
             /\ times \cap cached' \subseteq cached
             /\ times \cap cached' \subseteq Conversation'
  <2>1. \A t \in times : t \in SentTimes' /\ Pair(t)' = {Me, peer}
    BY <1>2 DEF OfChat, SentGrows
  <2>2. times \cap cloud' \subseteq cached' /\ times \cap cached' \subseteq cached
    BY <1>2
  <2>3. OfChat(times)'
    BY <2>1, <2>2 DEF OfChat
  <2>4. times \cap cached' \subseteq Conversation'
    BY <2>1 DEF Conversation
  <2> QED
    BY <2>2, <2>3, <2>4
<1>3. OfChat(Range(messages)) /\ OfChat(Range(rows))
  BY DEF ShownInv
<1>4. OfChat(Conversation)'
  BY DEF OfChat, Conversation
<1>5. \A job \in Range(main') : job.run = "chat" =>
          (job \in Range(main) /\ OfChat(job.result)) \/ job.result = Conversation'
  BY <1>1 DEF ShownInv, Queued
<1>6. ASSUME NEW job \in Range(main'), job.run = "chat"
      PROVE  /\ OfChat(job.result)'
             /\ Range(messages) \cap cached' \subseteq job.result
             /\ Range(rows) \cap cached' \subseteq job.result
  <2>1. CASE job \in Range(main) /\ OfChat(job.result)
    <3>1. /\ Range(messages) \cap cached \subseteq job.result
          /\ Range(rows) \cap cached \subseteq job.result
      BY <1>6, <2>1 DEF ShownInv
    <3>2. OfChat(job.result)'
      BY <1>2, <2>1
    <3>3. /\ Range(messages) \cap cached' \subseteq cached
          /\ Range(rows) \cap cached' \subseteq cached
      BY <1>2, <1>3
    <3> QED
      BY <3>1, <3>2, <3>3
  <2>2. CASE job.result = Conversation'
    <3>1. /\ Range(messages) \cap cached' \subseteq Conversation'
          /\ Range(rows) \cap cached' \subseteq Conversation'
      BY <1>2, <1>3
    <3> QED
      BY <1>4, <2>2, <3>1
  <2> QED
    BY <1>5, <1>6, <2>1, <2>2
<1>7. ASSUME NEW a, NEW b, Before(main', a, b), a.run = "chat", b.run = "chat"
      PROVE  a.result \cap cached' \subseteq b.result
  <2>1. a \in Range(main) => OfChat(a.result)
    BY <1>7 DEF ShownInv
  <2>2. a.result \cap cached' \subseteq Conversation'
    <3>1. a \in Range(main) \/ a \in Range(added)
      BY <1>1, <1>7
    <3>2. a \in Range(added) => a.result = Conversation'
      BY <1>7
    <3> QED
      BY <1>2, <2>1, <3>1, <3>2
  <2>3. CASE b \in Range(added)
    BY <1>7, <2>2, <2>3
  <2>4. CASE Before(main, a, b)
    <3>1. a.result \cap cached \subseteq b.result /\ a \in Range(main)
      BY <1>7, <2>4 DEF ShownInv, Before, Range
    <3>2. a.result \cap cached' \subseteq cached
      BY <1>2, <2>1, <3>1
    <3> QED
      BY <3>1, <3>2
  <2> QED
    BY <1>1, <1>7, <2>3, <2>4
<1>8. messages # <<>> => Range(rows) \cap cached' \subseteq Range(messages)
  <2>1. messages # <<>> => Range(rows) \cap cached \subseteq Range(messages)
    BY DEF ShownInv
  <2>2. Range(rows) \cap cached' \subseteq cached
    BY <1>2, <1>3
  <2> QED
    BY <2>1, <2>2
<1>9. OfChat(Range(messages))' /\ OfChat(Range(rows))'
  <2>1. OfChat(Range(messages))' /\ OfChat(Range(rows))'
    BY <1>2, <1>3
  <2> QED
    BY <2>1
<1> QED
  BY <1>6, <1>7, <1>8, <1>9 DEF ShownInv

-----------------------------------------------------------------------------
(***************************************************************************)
(* The steps of the cloud.                                                 *)
(***************************************************************************)
ChatsInv == TypesInv /\ InboxInv /\ ChatInv /\ ShownInv

LEMMA Unsent ==
    ASSUME TypesInv
    PROVE  /\ TypesOfSent /\ cached \subseteq SentTimes /\ cloud \subseteq SentTimes
           /\ SentTimes \in SUBSET Times /\ cached \in SUBSET Times
           /\ \A t \in SentTimes : sent[t] \in Message /\ sent[t] # Nil /\ t \in Times
           /\ Conversation \in SUBSET Times
           /\ heard \subseteq SentTimes /\ listening \subseteq Everyone
BY DEF TypesInv, TypeOK, TypesOfSent, SentTimes, Conversation

\* The inbox can know of no more and no less.
LEMMA KnownSame == UNCHANGED <<cached, queries>> => Known' = Known
BY DEF Known, queries

LEMMA SentSame ==
    ASSUME TypesInv, sent' = sent
    PROVE  SentGrows /\ SentTimes' = SentTimes /\ \A t : Pair(t)' = Pair(t)
<1>1. TypesOfSent' /\ SentTimes' = SentTimes
  BY DEF TypesInv, TypeOK, TypesOfSent, SentTimes
<1>2. \A t : Pair(t)' = Pair(t)
  BY DEF Pair
<1> QED
  BY <1>1, <1>2 DEF SentGrows

\* One more message is sent.
LEMMA SentMore ==
    ASSUME TypesInv, NEW t \in Times, NEW from \in Everyone, NEW to \in Everyone, from # to,
           sent[t] = Nil, sent' = [sent EXCEPT ![t] = [from |-> from, to |-> to]]
    PROVE  /\ SentGrows /\ t \notin SentTimes /\ SentTimes' = SentTimes \cup {t}
           /\ Pair(t)' = {from, to}
<1> DEFINE m == [from |-> from, to |-> to]
<1>1. m \in Message /\ m.from = from /\ m.to = to
  BY DEF Message
<1>2. m # Nil
  BY <1>1, NilAssumption
<1> HIDE DEF m
<1>3. sent \in [Times -> Message \cup {Nil}]
  BY DEF TypesInv, TypeOK
<1>4. sent' = [sent EXCEPT ![t] = m]
  BY DEF m
<1>5. /\ sent' \in [Times -> Message \cup {Nil}]
      /\ sent'[t] = m
      /\ \A u \in Times : u # t => sent'[u] = sent[u]
  BY <1>1, <1>3, <1>4
<1>6. TypesOfSent' /\ t \notin SentTimes /\ SentTimes' = SentTimes \cup {t}
  BY <1>2, <1>5 DEF TypesOfSent, SentTimes
<1>7. \A u \in SentTimes : Pair(u)' = Pair(u)
  BY <1>5, <1>6 DEF Pair, SentTimes
<1>8. Pair(t)' = {from, to}
  BY <1>1, <1>2, <1>5 DEF Pair
<1> QED
  BY <1>6, <1>7, <1>8 DEF SentGrows

\* Nothing is added to the queue.
LEMMA QueueSame ==
    ASSUME TypesInv, main' = main
    PROVE  Queued(main, <<>>) /\ Range(<<>>) = {} /\ \A kinds : Left(main, kinds)
<1>1. main \in Seq(Job)
  BY DEF TypesInv, TypeOK
<1>2. main = main \o <<>> /\ <<>> \in Seq(Job) /\ Range(<<>>) = {}
  BY <1>1, ConcatNone, NoneIs
<1> QED
  BY <1>1, <1>2 DEF Queued, Left

LEMMA OtherSendsStep ==
    ASSUME ChatsInv, NEW t \in Times, NEW from \in Others, NEW to \in Everyone, OtherSends(t, from, to)
    PROVE  ChatsInv'
<1>1. /\ TypesInv /\ InboxInv /\ ChatInv /\ ShownInv
      /\ from \in Everyone /\ from # to /\ sent[t] = Nil
      /\ sent' = [sent EXCEPT ![t] = [from |-> from, to |-> to]]
      /\ cloud' = cloud \cup {t}
      /\ UNCHANGED <<cached, queries, main, inboxVars, chat>>
  BY DEF ChatsInv, OtherSends, Everyone
<1>2. SentGrows /\ t \notin SentTimes /\ SentTimes' = SentTimes \cup {t}
  BY <1>1, SentMore
<1>3. Queued(main, <<>>) /\ Range(<<>>) = {} /\ \A kinds : Left(main, kinds)
  BY <1>1, QueueSame
<1>4. /\ cached \subseteq SentTimes /\ cloud \subseteq SentTimes /\ heard \subseteq SentTimes
      /\ Known' = Known
  BY <1>1, Unsent, KnownSame
<1>5. TypesInv'
  <2>1. /\ main' \in Seq(Job)
        /\ \A job \in Range(main') :
              job.run \in {"chat", "inbox"} => job.result \subseteq SentTimes'
    BY <1>1, <1>2, <1>3, TypesKept
  <2>2. /\ cloud' \subseteq SentTimes' /\ cached' \subseteq SentTimes'
        /\ heard' \subseteq SentTimes'
    BY <1>1, <1>2, <1>4 DEF queries
  <2> QED
    BY <1>1, <1>2, <2>1, <2>2
       DEF TypesInv, TypeOK, SentGrows, TypesOfSent, SentTimes, inboxVars, queries, chat
<1>6. InboxInv'
  BY <1>1, <1>2, <1>3, <1>4, InboxKept DEF inboxVars
<1>7. ChatInv'
  <2>1. CASE peer # Nil
    <3>1. Conversation' = Conversation
      BY <1>1, <1>2, <1>4 DEF Conversation, SentGrows, chat
    <3> QED
      BY <1>1, <1>3, <2>1, <3>1, ChatKept DEF chat
  <2>2. CASE peer = Nil
    BY <1>1, <2>2 DEF ChatInv, chat
  <2> QED
    BY <2>1, <2>2
<1>8. ShownInv'
  <2>1. \A times : OfChat(times) => /\ times \cap cloud' \subseteq cached'
                                   /\ times \cap cached' \subseteq cached
    BY <1>1, <1>2 DEF OfChat
  <2>2. cached' \subseteq SentTimes'
    BY <1>1, <1>2, <1>4
  <2> QED
    BY <1>1, <1>2, <1>3, <2>1, <2>2, ShownKept DEF chat
<1> QED
  BY <1>5, <1>6, <1>7, <1>8 DEF ChatsInv

LEMMA AcceptedStep ==
    ASSUME ChatsInv, NEW t \in Times, Accepted(t)
    PROVE  ChatsInv'
<1>1. /\ TypesInv /\ InboxInv /\ ChatInv /\ ShownInv
      /\ t \in cached /\ cloud' = cloud \cup {t}
      /\ UNCHANGED <<sent, cached, queries, main, inboxVars, chat>>
  BY DEF ChatsInv, Accepted
<1>2. SentGrows /\ SentTimes' = SentTimes /\ \A u : Pair(u)' = Pair(u)
  BY <1>1, SentSame
<1>3. Queued(main, <<>>) /\ Range(<<>>) = {}
  BY <1>1, QueueSame
<1>4. cached \subseteq SentTimes /\ cloud \subseteq SentTimes /\ Known' = Known
  BY <1>1, Unsent, KnownSame
<1>5. TypesInv'
  <2>1. cloud' \subseteq SentTimes' /\ cached' \subseteq SentTimes'
    BY <1>1, <1>2, <1>4
  <2> QED
    BY <1>1, <1>2, <2>1 DEF TypesInv, TypeOK, SentTimes, inboxVars, queries, chat
<1>6. InboxInv'
  BY <1>1, <1>2, <1>4 DEF InboxInv, Newest, inboxVars
<1>7. ChatInv'
  BY <1>1, <1>2 DEF ChatInv, Conversation, chat
<1>8. ShownInv'
  <2>1. \A times : OfChat(times) => /\ times \cap cloud' \subseteq cached'
                                   /\ times \cap cached' \subseteq cached
    BY <1>1 DEF OfChat
  <2>2. cached' \subseteq SentTimes'
    BY <1>1, <1>2, <1>4
  <2> QED
    BY <1>1, <1>2, <1>3, <2>1, <2>2, ShownKept DEF chat
<1> QED
  BY <1>5, <1>6, <1>7, <1>8 DEF ChatsInv

\* What this phone knows changes by one message and the listeners are called.
LEMMA CalledStep ==
    ASSUME ChatsInv, NEW t \in SentTimes,
           cached' = cached \cup {t} \/ cached' = cached \ {t},
           \A times : OfChat(times) => /\ times \cap cloud \subseteq cached'
                                      /\ times \cap cached' \subseteq cached,
           main' = main \o Calls(sent, cached', t),
           UNCHANGED <<sent, cloud, queries, inboxVars, chat>>
    PROVE  ChatsInv'
<1> DEFINE added == Calls(sent, cached', t)
<1>1. TypesInv /\ InboxInv /\ ChatInv /\ ShownInv
  BY DEF ChatsInv
<1>2. SentGrows /\ SentTimes' = SentTimes /\ \A u : Pair(u)' = Pair(u)
  BY <1>1, SentSame
<1>3. /\ cached' \subseteq SentTimes /\ cached' \in SUBSET Times /\ cloud \subseteq SentTimes
      /\ t \in Times /\ sent \in [Times -> Message \cup {Nil}]
      /\ \A u \in SentTimes : sent[u] # Nil
  BY <1>1, Unsent DEF TypesOfSent
<1>4. ChatQuery(sent, cached', peer) \in SUBSET Times /\ ChatQuery(sent, cached', peer) \subseteq cached'
  BY <1>3 DEF ChatQuery
<1>5. /\ added \in Seq(Job)
      /\ \A job \in Range(added) :
            \/ job.run = "inbox" /\ job.result = cached' /\ Me \in listening
            \/ /\ job.run = "chat" /\ job.result = ChatQuery(sent, cached', peer)
               /\ peer # Nil /\ listeners > 0
      /\ Me \in listening => HasJob(added, {"inbox"})
      /\ peer # Nil /\ listeners > 0 /\ ChatQuery(sent, {t}, peer) # {} => HasJob(added, {"chat"})
  BY <1>1, <1>3, <1>4, CallsAre
<1> HIDE DEF added
<1>6. ASSUME peer # Nil
      PROVE  /\ ChatQuery(sent, cached', peer) = Conversation'
             /\ ChatQuery(sent, {t}, peer) = {} => Conversation' = Conversation
  <2>1. peer \in Others
    BY <1>1, <1>6 DEF TypesInv, TypeOK
  <2>2. ChatQuery(sent, cached', peer) = {u \in cached' : {sent[u].from, sent[u].to} = {Me, peer}}
    BY <1>3, <2>1, QueryIs
  <2>3. ChatQuery(sent, {t}, peer) = {u \in {t} : {sent[u].from, sent[u].to} = {Me, peer}}
    <3>1. {t} \in SUBSET Times /\ \A u \in {t} : sent[u] # Nil
      BY <1>3
    <3> QED
      BY <1>3, <2>1, <3>1, QueryIs
  <2>4. \A u \in SentTimes : Pair(u) = {sent[u].from, sent[u].to}
    BY <1>3 DEF Pair
  <2>5. Conversation' = {u \in cached' : Pair(u) = {Me, peer}}
    BY <1>2 DEF Conversation, chat
  <2>6. ChatQuery(sent, cached', peer) = Conversation'
    BY <1>3, <2>2, <2>4, <2>5
  <2>7. ASSUME ChatQuery(sent, {t}, peer) = {}
        PROVE  Conversation' = Conversation
    <3>1. Pair(t) # {Me, peer}
      BY <2>3, <2>4, <2>7
    <3> QED
      BY <2>5, <3>1 DEF Conversation
  <2> QED
    BY <2>6, <2>7
<1>7. Queued(main, added) /\ \A kinds : Left(main, kinds)
  <2>1. main \in Seq(Job) /\ main' = main \o added
    BY <1>1 DEF TypesInv, TypeOK, added
  <2> QED
    BY <1>5, <2>1 DEF Queued, Left
<1>8. TypesInv'
  <2>1. \A job \in Range(added) : job.result \subseteq SentTimes'
    BY <1>2, <1>3, <1>4, <1>5
  <2>2. /\ main' \in Seq(Job)
        /\ \A job \in Range(main') :
              job.run \in {"chat", "inbox"} => job.result \subseteq SentTimes'
    BY <1>1, <1>2, <1>7, <2>1, TypesKept
  <2> QED
    BY <1>1, <1>2, <1>3, <2>2 DEF TypesInv, TypeOK, SentTimes, inboxVars, queries, chat
<1>9. InboxInv'
  <2>1. /\ Me \in listening => Known' = cached'
        /\ Me \notin listening => Known' = Known
    BY DEF Known, queries
  <2> QED
    BY <1>1, <1>2, <1>5, <1>7, <2>1, InboxKept DEF inboxVars
<1>10. ChatInv'
  <2>1. CASE peer # Nil
    <3>1. \A job \in Range(added) : job.run = "chat" => job.result = Conversation' /\ listeners' # 0
      BY <1>1, <1>5, <1>6, <2>1 DEF TypesInv, TypeOK, chat
    <3>2. HasJob(added, {"chat"}) => HasJob(added, ChatCall)
      BY DEF HasJob, ChatCall
    <3>3. HasJob(added, ChatCall) \/ Conversation' = Conversation \/ listeners = 0
      <4>1. listeners = 0 \/ listeners > 0
        BY <1>1 DEF TypesInv, TypeOK
      <4> QED
        BY <1>5, <1>6, <2>1, <3>2, <4>1
    <3> QED
      BY <1>1, <1>7, <2>1, <3>1, <3>3, ChatKept DEF chat
  <2>2. CASE peer = Nil
    <3>1. ~HasJob(main, ChatCall \cup {"reloadChat"}) /\ listeners = 0 /\ messages = <<>> /\ rows = <<>>
      BY <1>1, <2>2 DEF ChatInv
    <3>2. ~HasJob(added, ChatCall \cup {"reloadChat"})
      BY <1>5, <2>2 DEF HasJob, ChatCall
    <3>3. ~HasJob(main', ChatCall \cup {"reloadChat"})
      BY <1>7, <3>1, <3>2, QueuedIs
    <3> QED
      BY <2>2, <3>1, <3>3 DEF ChatInv, chat
  <2> QED
    BY <2>1, <2>2
<1>11. ShownInv'
  <2>1. \A job \in Range(added) : job.run = "chat" => job.result = Conversation'
    BY <1>5, <1>6
  <2> QED
    BY <1>1, <1>2, <1>3, <1>7, <2>1, ShownKept DEF chat
<1> QED
  BY <1>8, <1>9, <1>10, <1>11 DEF ChatsInv

LEMMA SyncedStep ==
    ASSUME ChatsInv, NEW t \in Times, Synced(t)
    PROVE  ChatsInv'
<1>1. /\ t \in cloud \ cached /\ cached' = cached \cup {t}
      /\ main' = main \o Calls(sent, cached', t)
      /\ UNCHANGED <<sent, cloud, queries, inboxVars, chat>>
  BY DEF Synced
<1>2. t \in SentTimes
  BY <1>1, Unsent DEF ChatsInv
<1>3. \A times : OfChat(times) => /\ times \cap cloud \subseteq cached'
                                 /\ times \cap cached' \subseteq cached
  BY <1>1 DEF OfChat
<1> QED
  BY <1>1, <1>2, <1>3, CalledStep

LEMMA RefusedStep ==
    ASSUME ChatsInv, NEW t \in Times, Refused(t)
    PROVE  ChatsInv'
<1>1. /\ t \in cached \ cloud /\ cached' = cached \ {t}
      /\ main' = main \o Calls(sent, cached', t)
      /\ UNCHANGED <<sent, cloud, queries, inboxVars, chat>>
  BY DEF Refused
<1>2. t \in SentTimes
  BY <1>1, Unsent DEF ChatsInv
<1>3. \A times : OfChat(times) => /\ times \cap cloud \subseteq cached'
                                 /\ times \cap cached' \subseteq cached
  BY <1>1 DEF OfChat
<1> QED
  BY <1>1, <1>2, <1>3, CalledStep

-----------------------------------------------------------------------------
(***************************************************************************)
(* The steps of the user.                                                  *)
(***************************************************************************)
LEMMA Appended ==
    ASSUME TypesInv, NEW job \in Job, main' = Append(main, job)
    PROVE  /\ Queued(main, <<job>>) /\ Range(<<job>>) = {job}
           /\ \A kinds : Left(main, kinds)
           /\ \A kinds : HasJob(<<job>>, kinds) <=> job.run \in kinds
<1>1. main \in Seq(Job)
  BY DEF TypesInv, TypeOK
<1>2. main' = main \o <<job>>
  BY <1>1, OneMoreIsConcat
<1>3. <<job>> \in Seq(Job) /\ Range(<<job>>) = {job}
  BY OneIs
<1> QED
  BY <1>1, <1>2, <1>3 DEF Queued, Left, HasJob

LEMMA SendMessageStep ==
    ASSUME ChatsInv, NEW t \in Times, SendMessage(t)
    PROVE  ChatsInv'
<1> DEFINE calls == Calls(sent', cached', t)
           result == ChatQuery(sent', cached', peer)
           job == [run |-> "chat", result |-> result]
           added == calls \o <<job>>
<1>1. /\ TypesInv /\ InboxInv /\ ChatInv /\ ShownInv
      /\ peer # Nil /\ sent[t] = Nil
      /\ sent' = [sent EXCEPT ![t] = [from |-> Me, to |-> peer]]
      /\ cached' = cached \cup {t} /\ listeners' = listeners + 1
      /\ listening' = listening \cup {peer}
      /\ main' = Append(main \o calls, job)
      /\ UNCHANGED <<cloud, heard, inboxVars, peer, messages, rows, failed>>
  BY DEF ChatsInv, SendMessage
<1>2. peer \in Others /\ peer \in Everyone /\ Me \in Everyone /\ Me # peer /\ listeners \in Nat
  BY <1>1, PeopleAssumption DEF TypesInv, TypeOK, Everyone
<1>3. /\ SentGrows /\ t \notin SentTimes /\ SentTimes' = SentTimes \cup {t}
      /\ Pair(t)' = {Me, peer}
  BY <1>1, <1>2, SentMore
<1>4. /\ cached \subseteq SentTimes /\ cloud \subseteq SentTimes
      /\ cached' \subseteq SentTimes' /\ cached' \in SUBSET Times
      /\ heard \subseteq SentTimes /\ listening \subseteq Everyone
  BY <1>1, <1>3, Unsent
<1>5. result = Conversation'
  <2>1. sent' \in [Times -> Message \cup {Nil}] /\ \A u \in cached' : sent'[u] # Nil
    BY <1>3, <1>4 DEF SentGrows, TypesOfSent, SentTimes
  <2>2. result = {u \in cached' : {sent'[u].from, sent'[u].to} = {Me, peer}}
    BY <1>2, <1>4, <2>1, QueryIs
  <2>3. \A u \in cached' : Pair(u)' = {sent'[u].from, sent'[u].to}
    BY <2>1 DEF Pair
  <2> QED
    BY <1>1, <2>2, <2>3 DEF Conversation
<1>6. result \in SUBSET Times /\ result \subseteq cached'
  BY <1>4 DEF ChatQuery
<1>7. /\ calls \in Seq(Job)
      /\ \A j \in Range(calls) :
            \/ j.run = "inbox" /\ j.result = cached' /\ Me \in listening
            \/ j.run = "chat" /\ j.result = result
      /\ Me \in listening => HasJob(calls, {"inbox"})
  <2>1. /\ calls \in Seq(Job)
        /\ \A j \in Range(calls) :
              \/ j.run = "inbox" /\ j.result = cached' /\ Me \in listening
              \/ j.run = "chat" /\ j.result = result /\ peer # Nil /\ listeners > 0
        /\ Me \in listening => HasJob(calls, {"inbox"})
    <3>1. TypesInv
      BY <1>1
    <3>2. cached' \in SUBSET Times /\ result \in SUBSET Times
      BY <1>4, <1>6
    <3> QED
      BY <3>1, <3>2, CallsAre
  <2> HIDE DEF calls, result
  <2> QED
    BY <2>1
<1>8. job \in Job /\ job.run = "chat" /\ job.result = result
  BY <1>6, JobsAre
<1>9. main \in Seq(Job)
  BY <1>1 DEF TypesInv, TypeOK
<1> HIDE DEF calls, result, job
<1>10. main' = main \o added
  BY <1>1, <1>7, <1>8, <1>9, AppendToConcat
<1>11. <<job>> \in Seq(Job) /\ Range(<<job>>) = {job}
  BY <1>8, OneIs
<1>12. added \in Seq(Job) /\ \A j : j \in Range(added) <=> j \in Range(calls) \/ j = job
  BY <1>7, <1>11, ConcatIs, JobsOfConcat
<1> HIDE DEF added
<1>13. /\ \A j \in Range(added) :
             \/ j.run = "inbox" /\ j.result = cached' /\ Me \in listening
             \/ j.run = "chat" /\ j.result = Conversation'
       /\ Me \in listening => HasJob(added, {"inbox"})
       /\ HasJob(added, ChatCall)
  BY <1>5, <1>7, <1>8, <1>12 DEF HasJob, ChatCall
<1>14. Queued(main, added) /\ \A kinds : Left(main, kinds)
  BY <1>9, <1>10, <1>12 DEF Queued, Left
<1>15. TypesInv'
  <2>1. \A j \in Range(added) : j.result \subseteq SentTimes'
    BY <1>4, <1>5, <1>6, <1>13
  <2>2. /\ main' \in Seq(Job)
        /\ \A j \in Range(main') :
              j.run \in {"chat", "inbox"} => j.result \subseteq SentTimes'
    BY <1>1, <1>3, <1>14, <2>1, TypesKept
  <2>3. /\ cloud' \subseteq SentTimes' /\ heard' \subseteq SentTimes'
        /\ listeners' \in Nat /\ listeners' > 0
        /\ listening' \subseteq Everyone /\ peer \in listening'
    BY <1>1, <1>2, <1>3, <1>4
  <2> QED
    BY <1>1, <1>3, <1>4, <2>2, <2>3
       DEF TypesInv, TypeOK, SentGrows, TypesOfSent, SentTimes, inboxVars
<1>16. InboxInv'
  <2>1. /\ Me \in listening => Known' = cached'
        /\ Me \notin listening => Known' = Known
    BY <1>1, <1>2 DEF Known
  <2> QED
    BY <1>1, <1>3, <1>13, <1>14, <2>1, InboxKept DEF inboxVars
<1>17. ChatInv'
  <2>1. listeners' # 0
    BY <1>1, <1>2
  <2> QED
    BY <1>1, <1>13, <1>14, <2>1, ChatKept
<1>18. ShownInv'
  <2>1. \A times : OfChat(times) => /\ times \cap cloud' \subseteq cached'
                                   /\ times \cap cached' \subseteq cached
    BY <1>1, <1>3 DEF OfChat
  <2> QED
    BY <1>1, <1>3, <1>4, <1>13, <1>14, <2>1, ShownKept
<1> QED
  BY <1>15, <1>16, <1>17, <1>18 DEF ChatsInv

\* Errors or reloads are added for the open chat, or nothing is.
LEMMA AddedStep ==
    ASSUME ChatsInv, NEW added, Queued(main, added),
           \A job \in Range(added) : job.run \in {"chatError", "reloadChat"},
           HasJob(added, ChatCall) \/ listeners' = listeners,
           peer = Nil => Range(added) = {} /\ listeners' = listeners,
           listeners' \in Nat, (listeners' > 0) <=> (peer \in listening'),
           listening' \subseteq Everyone, heard' \subseteq SentTimes, Known' = Known,
           UNCHANGED <<sent, cloud, cached, inboxVars, peer, messages, rows, failed>>
    PROVE  ChatsInv'
<1>1. TypesInv /\ InboxInv /\ ChatInv /\ ShownInv
  BY DEF ChatsInv
<1>2. SentGrows /\ SentTimes' = SentTimes /\ \A u : Pair(u)' = Pair(u)
  BY <1>1, SentSame
<1>3. \A kinds : Left(main, kinds)
  BY DEF Left
<1>4. \A job \in Range(added) : job.run # "chat" /\ job.run # "inbox"
  OBVIOUS
<1>5. TypesInv'
  <2>1. /\ main' \in Seq(Job)
        /\ \A j \in Range(main') :
              j.run \in {"chat", "inbox"} => j.result \subseteq SentTimes'
    BY <1>1, <1>2, <1>4, TypesKept
  <2> QED
    BY <1>1, <1>2, <2>1 DEF TypesInv, TypeOK, SentTimes, inboxVars
<1>6. InboxInv'
  BY <1>1, <1>2, <1>3, <1>4, InboxKept DEF inboxVars
<1>7. ChatInv'
  <2>1. CASE peer # Nil
    <3>1. Conversation' = Conversation
      BY <1>2 DEF Conversation
    <3> QED
      BY <1>1, <1>3, <1>4, <2>1, <3>1, ChatKept
  <2>2. CASE peer = Nil
    <3>1. /\ ~HasJob(main, ChatCall \cup {"reloadChat"}) /\ listeners = 0
          /\ messages = <<>> /\ rows = <<>>
      BY <1>1, <2>2 DEF ChatInv
    <3>2. ~HasJob(added, ChatCall \cup {"reloadChat"})
      BY <2>2 DEF HasJob
    <3>3. ~HasJob(main', ChatCall \cup {"reloadChat"})
      BY <3>1, <3>2, QueuedIs
    <3> QED
      BY <2>2, <3>1, <3>3 DEF ChatInv
  <2> QED
    BY <2>1, <2>2
<1>8. ShownInv'
  <2>1. \A times : OfChat(times) => /\ times \cap cloud' \subseteq cached'
                                   /\ times \cap cached' \subseteq cached
    BY DEF OfChat
  <2>2. cached' \subseteq SentTimes'
    BY <1>1, <1>2, Unsent
  <2> QED
    BY <1>1, <1>2, <1>4, <2>1, <2>2, ShownKept
<1> QED
  BY <1>5, <1>6, <1>7, <1>8 DEF ChatsInv

LEMMA QueryEndsStep ==
    ASSUME ChatsInv, NEW q \in Everyone, QueryEnds(q)
    PROVE  ChatsInv'
<1> DEFINE error == [run |-> "chatError"]
           errors == [i \in 1 .. listeners |-> error]
<1>1. /\ TypesInv /\ q \in listening /\ listening' = listening \ {q}
      /\ heard' = IF q = Me THEN cached ELSE heard
      /\ q = peer => listeners' = 0 /\ main' = main \o errors
      /\ q # peer => listeners' = listeners /\ main' = main
      /\ UNCHANGED <<sent, cloud, cached, inboxVars, peer, messages, rows, failed>>
  BY DEF ChatsInv, QueryEnds
<1>2. /\ cached \subseteq SentTimes /\ heard \subseteq SentTimes /\ listening \subseteq Everyone
      /\ listeners \in Nat /\ main \in Seq(Job) /\ ((listeners > 0) <=> (peer \in listening))
  BY <1>1, Unsent DEF TypesInv, TypeOK
<1>3. heard' \subseteq SentTimes /\ listening' \subseteq Everyone /\ Known' = Known
  BY <1>1, <1>2 DEF Known
<1>4. CASE q = peer
  <2>1. peer # Nil /\ listeners > 0
    BY <1>1, <1>2, <1>4, PeopleAssumption DEF Everyone
  <2>2. error \in Job /\ error.run = "chatError"
    BY JobsAre
  <2> HIDE DEF error
  <2>3. errors \in [1 .. listeners -> Job] /\ DOMAIN errors = 1 .. listeners
    BY <2>2
  <2>4. \A i \in 1 .. listeners : errors[i] = error
    OBVIOUS
  <2>5. main' = main \o errors
    BY <1>1, <1>4
  <2> HIDE DEF errors
  <2>6. errors \in Seq(Job)
    BY <1>2, <2>3, ListOf
  <2>7. (\A job \in Range(errors) : job = error) /\ error \in Range(errors)
    <3>1. 1 \in 1 .. listeners
      BY <1>2, <2>1
    <3> QED
      BY <2>3, <2>4, <3>1 DEF Range
  <2>8. Queued(main, errors)
    BY <1>2, <2>5, <2>6 DEF Queued
  <2>9. /\ \A job \in Range(errors) : job.run \in {"chatError", "reloadChat"}
        /\ HasJob(errors, ChatCall)
    BY <2>2, <2>7 DEF HasJob, ChatCall
  <2>10. listeners' \in Nat /\ ((listeners' > 0) <=> (peer \in listening'))
    BY <1>1, <1>4
  <2> QED
    BY <1>1, <1>3, <2>1, <2>8, <2>9, <2>10, AddedStep
<1>5. CASE q # peer
  <2>1. Queued(main, <<>>) /\ Range(<<>>) = {}
    BY <1>1, <1>5, QueueSame
  <2>2. listeners' \in Nat /\ ((listeners' > 0) <=> (peer \in listening'))
    BY <1>1, <1>2, <1>5
  <2> QED
    BY <1>1, <1>3, <1>5, <2>1, <2>2, AddedStep
<1> QED
  BY <1>4, <1>5

LEMMA KeyboardHidesStep ==
    ASSUME ChatsInv, KeyboardHides
    PROVE  ChatsInv'
<1> DEFINE job == [run |-> "reloadChat"]
<1>1. /\ TypesInv /\ peer # Nil /\ main' = Append(main, job)
      /\ UNCHANGED <<sent, cloud, cached, queries, inboxVars, chat>>
  BY DEF ChatsInv, KeyboardHides
<1>2. job \in Job /\ job.run = "reloadChat"
  BY JobsAre
<1> HIDE DEF job
<1>3. Queued(main, <<job>>) /\ Range(<<job>>) = {job}
  BY <1>1, <1>2, Appended
<1>4. /\ listeners' \in Nat /\ ((listeners' > 0) <=> (peer \in listening'))
      /\ listening' \subseteq Everyone /\ heard' \subseteq SentTimes /\ Known' = Known
  BY <1>1, Unsent, KnownSame DEF TypesInv, TypeOK, queries, chat
<1>5. UNCHANGED <<sent, cloud, cached, inboxVars, peer, listeners, messages, rows, failed>>
  BY <1>1 DEF chat
<1>6. \A j \in Range(<<job>>) : j.run \in {"chatError", "reloadChat"}
  BY <1>2, <1>3
<1> QED
  BY <1>1, <1>3, <1>4, <1>5, <1>6, AddedStep

LEMMA OpenChatStep ==
    ASSUME ChatsInv, NEW other \in Others, OpenChat(other)
    PROVE  ChatsInv'
<1> DEFINE result == ChatQuery(sent, cached, other)
           job == [run |-> "chat", result |-> result]
<1>1. /\ TypesInv /\ InboxInv /\ ChatInv /\ ShownInv
      /\ peer = Nil /\ peer' = other /\ listeners' = 1
      /\ listening' = listening \cup {other}
      /\ messages' = <<>> /\ rows' = <<>> /\ failed' = FALSE
      /\ main' = Append(main, job)
      /\ UNCHANGED <<sent, cloud, cached, heard, inboxVars>>
  BY DEF ChatsInv, OpenChat
<1>2. SentGrows /\ SentTimes' = SentTimes /\ \A u : Pair(u)' = Pair(u)
  BY <1>1, SentSame
<1>3. /\ cached \subseteq SentTimes /\ cached \in SUBSET Times /\ other # Nil /\ other # Me
      /\ heard \subseteq SentTimes /\ listening \subseteq Everyone
      /\ sent \in [Times -> Message \cup {Nil}] /\ \A u \in cached : sent[u] # Nil
  BY <1>1, Unsent, PeopleAssumption DEF TypesOfSent
<1>4. result = Conversation'
  <2>1. result = {u \in cached : {sent[u].from, sent[u].to} = {Me, other}}
    BY <1>3, QueryIs
  <2>2. \A u \in cached : Pair(u) = {sent[u].from, sent[u].to}
    BY <1>3 DEF Pair
  <2> QED
    BY <1>1, <1>2, <2>1, <2>2 DEF Conversation
<1>5. result \in SUBSET Times /\ result \subseteq cached
  BY <1>3 DEF ChatQuery
<1>6. job \in Job /\ job.run = "chat" /\ job.result = result
  BY <1>5, JobsAre
<1> HIDE DEF result, job
<1>7. /\ Queued(main, <<job>>) /\ Range(<<job>>) = {job}
      /\ \A kinds : Left(main, kinds)
      /\ \A kinds : HasJob(<<job>>, kinds) <=> job.run \in kinds
  BY <1>1, <1>6, Appended
<1>8. /\ main' \in Seq(Job) /\ Range(main') = Range(main) \cup {job}
      /\ \A kinds, j :
            LastJob(main', kinds, j) =>
               IF HasJob(<<job>>, kinds) THEN j \in Range(<<job>>) ELSE LastJob(main, kinds, j)
      /\ \A kinds : HasJob(main', kinds) <=> HasJob(main, kinds) \/ HasJob(<<job>>, kinds)
  BY <1>7, QueuedIs
<1>9. \A j \in Range(main) : j.run # "chat"
  BY <1>1 DEF ChatInv, HasJob, ChatCall
<1>10. TypesInv'
  <2>1. \A j \in Range(<<job>>) : j.result \subseteq SentTimes'
    BY <1>2, <1>3, <1>5, <1>6, <1>7
  <2>2. /\ main' \in Seq(Job)
        /\ \A j \in Range(main') :
              j.run \in {"chat", "inbox"} => j.result \subseteq SentTimes'
    BY <1>1, <1>2, <1>7, <2>1, TypesKept
  <2>3. <<>> \in Seq(Times)
    BY NoneIs
  <2>4. /\ listening' \subseteq Everyone /\ peer' \in listening' /\ listeners' > 0
        /\ heard' \subseteq SentTimes'
    BY <1>1, <1>2, <1>3 DEF Everyone
  <2> QED
    BY <1>1, <1>2, <2>2, <2>3, <2>4 DEF TypesInv, TypeOK, SentTimes, inboxVars
<1>11. InboxInv'
  <2>1. Known' = Known
    BY <1>1, <1>3 DEF Known
  <2> QED
    BY <1>1, <1>2, <1>6, <1>7, <2>1, InboxKept DEF inboxVars
<1>12. ChatInv'
  <2>1. HasJob(<<job>>, ChatCall) /\ HasJob(main', ChatCall)
    BY <1>6, <1>7, <1>8 DEF ChatCall
  <2>2. \A j : LastJob(main', ChatCall, j) => j.result = Conversation'
    BY <1>4, <1>6, <1>7, <1>8, <2>1
  <2> QED
    BY <1>1, <1>3, <2>1, <2>2 DEF ChatInv
<1>13. ShownInv'
  <2>1. OfChat(Conversation)'
    BY <1>2, <1>3, <1>1 DEF OfChat, Conversation
  <2>2. OfChat({})'
    BY DEF OfChat
  <2>3. Range(messages') = {} /\ Range(rows') = {}
    BY <1>1, NoneIs
  <2>4. \A j \in Range(main') : j.run = "chat" => j.result = Conversation'
    BY <1>4, <1>6, <1>8, <1>9
  <2>5. \A a, b : Before(main', a, b) => a \in Range(main') /\ b \in Range(main')
    BY DEF Before, Range
  <2>6. OfChat(Range(messages))' /\ OfChat(Range(rows))'
    BY <2>2, <2>3
  <2>7. \A j \in Range(main') : j.run = "chat" => OfChat(j.result)'
    BY <2>1, <2>4
  <2>8. \A a, b :
           Before(main', a, b) /\ a.run = "chat" /\ b.run = "chat" =>
              a.result \cap cached' \subseteq b.result
    BY <2>4, <2>5
  <2> QED
    BY <1>1, <2>3, <2>6, <2>7, <2>8 DEF ShownInv
<1> QED
  BY <1>10, <1>11, <1>12, <1>13 DEF ChatsInv

LEMMA CloseChatStep ==
    ASSUME ChatsInv, CloseChat
    PROVE  ChatsInv'
<1> DEFINE rest == InboxJobs(main)
<1>1. /\ TypesInv /\ InboxInv /\ ChatInv /\ ShownInv
      /\ peer' = Nil /\ listeners' = 0
      /\ messages' = <<>> /\ rows' = <<>> /\ failed' = FALSE
      /\ main' = rest /\ inboxRows' = inbox
      /\ UNCHANGED <<sent, cloud, cached, queries, inbox>>
  BY DEF ChatsInv, CloseChat
<1>2. SentGrows /\ SentTimes' = SentTimes /\ \A u : Pair(u)' = Pair(u)
  BY <1>1, SentSame
<1>3. main \in Seq(Job)
  BY <1>1 DEF TypesInv, TypeOK
<1>4. /\ rest \in Seq(Job)
      /\ \A job : job \in Range(rest) <=>
                     job \in Range(main) /\ job.run \in {"inbox", "reloadInbox"}
      /\ \A kinds, job :
            kinds \subseteq {"inbox", "reloadInbox"} /\ LastJob(rest, kinds, job)
               => LastJob(main, kinds, job)
  BY <1>3, JobsOfInbox
<1> HIDE DEF rest
<1>5. Queued(rest, <<>>) /\ Range(<<>>) = {}
  <2>1. rest \o <<>> = rest /\ <<>> \in Seq(Job) /\ Range(<<>>) = {}
    BY <1>4, ConcatNone, NoneIs
  <2> QED
    BY <1>1, <1>4, <2>1 DEF Queued
<1>6. Left(rest, {"inbox"})
  BY <1>4 DEF Left, HasJob
<1>7. TypesInv'
  <2>1. /\ main' \in Seq(Job)
        /\ \A j \in Range(main') :
              j.run \in {"chat", "inbox"} => j.result \subseteq SentTimes'
    BY <1>1, <1>2, <1>5, TypesKept
  <2>2. <<>> \in Seq(Times)
    BY NoneIs
  <2>3. listeners' \in Nat /\ ~(listeners' > 0) /\ peer' \notin listening'
    BY <1>1, Unsent, PeopleAssumption DEF queries, Everyone
  <2> QED
    BY <1>1, <1>2, <2>1, <2>2, <2>3 DEF TypesInv, TypeOK, SentTimes, queries
<1>8. InboxInv'
  BY <1>1, <1>2, <1>5, <1>6, KnownSame, InboxKept
<1>9. \A job \in Range(main') : job.run \in {"inbox", "reloadInbox"}
  BY <1>1, <1>4
<1>10. ChatInv'
  <2>1. ~HasJob(main', ChatCall \cup {"reloadChat"})
    BY <1>9 DEF HasJob, ChatCall
  <2> QED
    BY <1>1, <2>1 DEF ChatInv
<1>11. ShownInv'
  <2>1. OfChat({})'
    BY DEF OfChat
  <2>2. Range(messages') = {} /\ Range(rows') = {}
    BY <1>1, NoneIs
  <2>3. \A a, b : Before(main', a, b) => a \in Range(main') /\ b \in Range(main')
    BY DEF Before, Range
  <2>4. OfChat(Range(messages))' /\ OfChat(Range(rows))'
    BY <2>1, <2>2
  <2>5. \A job \in Range(main') : job.run # "chat"
    BY <1>9
  <2> QED
    BY <1>1, <2>3, <2>4, <2>5 DEF ShownInv
<1> QED
  BY <1>7, <1>8, <1>10, <1>11 DEF ChatsInv

-----------------------------------------------------------------------------
(***************************************************************************)
(* The steps of the main queue.                                            *)
(***************************************************************************)
\* What is known of the jobs that are left when the first is taken.
LEMMA TakenHead ==
    ASSUME TypesInv, main # <<>>
    PROVE  /\ Head(main) \in Range(main) /\ Head(main) \in Job
           /\ Tail(main) \in Seq(Job) /\ Range(Tail(main)) \subseteq Range(main)
           /\ \A kinds : Head(main).run \notin kinds => Left(Tail(main), kinds)
           /\ \A kinds, job : LastJob(Tail(main), kinds, job) => LastJob(main, kinds, job)
           /\ \A kinds : Head(main).run \in kinds /\ ~HasJob(Tail(main), kinds)
                            => LastJob(main, kinds, Head(main))
           /\ \A a, b : Before(Tail(main), a, b) => Before(main, a, b)
           /\ \A b \in Range(Tail(main)) : Before(main, Head(main), b)
<1> DEFINE rest == Tail(main)
<1>1. main \in Seq(Job) /\ rest \in Seq(Job)
  BY TailIs DEF TypesInv, TypeOK
<1>2. \A job : job \in Range(main) <=> job = Head(main) \/ job \in Range(rest)
  BY <1>1, JobsOfTail
<1>3. \A kinds, job : LastJob(rest, kinds, job) => LastJob(main, kinds, job)
  BY <1>1, JobsOfTail
<1>4. \A kinds : Head(main).run \in kinds /\ ~HasJob(rest, kinds)
                    => LastJob(main, kinds, Head(main))
  BY <1>1, JobsOfTail
<1>5. /\ \A a, b : Before(rest, a, b) => Before(main, a, b)
      /\ \A b \in Range(rest) : Before(main, Head(main), b)
  BY <1>1, BeforeInTail
<1>6. Head(main) \in Job
  BY <1>1, TailIs
<1>7. \A kinds : Head(main).run \notin kinds => Left(rest, kinds)
  BY <1>2, <1>3 DEF Left, HasJob
<1>8. Range(rest) \subseteq Range(main) /\ Head(main) \in Range(main)
  BY <1>2
<1> QED
  BY <1>1, <1>3, <1>4, <1>5, <1>6, <1>7, <1>8 DEF rest

\* Nothing is added.
LEMMA TakenNone ==
    ASSUME TypesInv, main # <<>>, main' = Tail(main)
    PROVE  Queued(Tail(main), <<>>) /\ Range(<<>>) = {}
<1> DEFINE rest == Tail(main)
<1>1. rest \in Seq(Job) /\ Range(rest) \subseteq Range(main)
  BY TakenHead
<1> HIDE DEF rest
<1>2. rest \o <<>> = rest /\ <<>> \in Seq(Job) /\ Range(<<>>) = {}
  BY <1>1, ConcatNone, NoneIs
<1> QED
  BY <1>1, <1>2 DEF Queued, rest

\* A reload is asked for.
LEMMA TakenReload ==
    ASSUME TypesInv, main # <<>>, NEW again \in Job, main' = Reload(Tail(main), again)
    PROVE  /\ \E added : Queued(Tail(main), added) /\ \A x \in Range(added) : x = again
           /\ again \in Range(main')
<1> DEFINE rest == Tail(main)
<1>1. rest \in Seq(Job) /\ Range(rest) \subseteq Range(main)
  BY TakenHead
<1> HIDE DEF rest
<1>2. /\ \E added \in Seq(Job) :
            Reload(rest, again) = rest \o added /\ \A x \in Range(added) : x = again
      /\ again \in Range(Reload(rest, again))
  BY <1>1, ReloadIs
<1>3. PICK added \in Seq(Job) :
          Reload(rest, again) = rest \o added /\ \A x \in Range(added) : x = again
  BY <1>2
<1>4. main' = Reload(rest, again)
  BY DEF rest
<1>5. Queued(rest, added)
  BY <1>1, <1>3, <1>4 DEF Queued
<1> QED
  BY <1>2, <1>3, <1>4, <1>5 DEF rest

LEMMA ChatListenerRunsStep ==
    ASSUME ChatsInv, ChatListenerRuns
    PROVE  ChatsInv'
<1> DEFINE again == [run |-> "reloadChat"]
           head == Head(main)
           rest == Tail(main)
<1>1. /\ TypesInv /\ InboxInv /\ ChatInv /\ ShownInv
      /\ main # <<>> /\ head.run = "chat"
      /\ messages' = OldestFirst(head.result)
      /\ main' = rest \/ main' = Reload(rest, again)
      /\ messages' # <<>> => main' = Reload(rest, again)
      /\ failed' = FALSE
      /\ UNCHANGED <<sent, cloud, cached, queries, inboxVars, peer, listeners, rows>>
  BY DEF ChatsInv, ChatListenerRuns
<1>2. SentGrows /\ SentTimes' = SentTimes /\ \A u : Pair(u)' = Pair(u)
  BY <1>1, SentSame
<1>3. again \in Job /\ again.run = "reloadChat"
  BY JobsAre
<1>4. TypesInv /\ main # <<>>
  BY <1>1
<1>5. /\ head \in Range(main) /\ head \in Job
      /\ \A kinds : head.run \notin kinds => Left(rest, kinds)
      /\ \A kinds, job : LastJob(rest, kinds, job) => LastJob(main, kinds, job)
      /\ \A kinds : head.run \in kinds /\ ~HasJob(rest, kinds) => LastJob(main, kinds, head)
      /\ \A a, b : Before(rest, a, b) => Before(main, a, b)
      /\ \A b \in Range(rest) : Before(main, head, b)
  BY <1>4, TakenHead
<1>6. main' = Reload(rest, again) =>
         /\ \E added : Queued(rest, added) /\ \A x \in Range(added) : x = again
         /\ again \in Range(main')
  <2> SUFFICES ASSUME main' = Reload(rest, again)
               PROVE  /\ \E added : Queued(rest, added) /\ \A x \in Range(added) : x = again
                      /\ again \in Range(main')
    OBVIOUS
  <2> HIDE DEF again
  <2> QED
    BY <1>4, <1>3, TakenReload
<1>7. main' = rest => Queued(rest, <<>>) /\ Range(<<>>) = {}
  BY <1>4, TakenNone
<1> HIDE DEF again, head, rest
<1>8. \E added : Queued(rest, added) /\ \A x \in Range(added) : x = again
  BY <1>1, <1>6, <1>7
<1>9. main' = Reload(rest, again) => again \in Range(main')
  BY <1>6
<1>10. PICK added : Queued(rest, added) /\ \A x \in Range(added) : x = again
  BY <1>8
<1>11. \A x \in Range(added) : x.run = "reloadChat"
  BY <1>3, <1>10
<1>12. ~HasJob(added, {"inbox"}) /\ ~HasJob(added, ChatCall)
  BY <1>11 DEF HasJob, ChatCall
<1>13. /\ \A kinds, job :
             LastJob(main', kinds, job) =>
                IF HasJob(added, kinds) THEN job \in Range(added) ELSE LastJob(rest, kinds, job)
       /\ \A kinds : HasJob(main', kinds) <=> HasJob(rest, kinds) \/ HasJob(added, kinds)
       /\ Range(main') = Range(rest) \cup Range(added)
  BY <1>10, QueuedIs
<1>14. head.result \in SUBSET Times /\ OfChat(head.result)
  <2>1. head.result \in SUBSET Times
    BY <1>1, <1>5, JobsAre
  <2> QED
    BY <1>1, <1>5, <2>1 DEF ShownInv
<1>15. messages' \in Seq(Times) /\ Range(messages') = head.result
  BY <1>1, <1>14, OldestFirstIs
<1>16. TypesInv'
  <2>1. /\ main' \in Seq(Job)
        /\ \A j \in Range(main') :
              j.run \in {"chat", "inbox"} => j.result \subseteq SentTimes'
    BY <1>1, <1>2, <1>10, <1>11, TypesKept
  <2> QED
    BY <1>1, <1>2, <1>15, <2>1 DEF TypesInv, TypeOK, SentTimes, queries, inboxVars
<1>17. InboxInv'
  <2>1. Left(rest, {"inbox"}) /\ Left(rest, {"inbox", "reloadInbox"})
    BY <1>1, <1>5
  <2> QED
    BY <1>1, <1>2, <1>10, <1>11, <2>1, KnownSame, InboxKept DEF inboxVars
<1>18. ChatInv'
  <2>1. peer # Nil
    BY <1>1, <1>5 DEF ChatInv, HasJob, ChatCall
  <2>2. Conversation' = Conversation
    BY <1>1, <1>2 DEF Conversation
  <2>3. \A job : LastJob(main', ChatCall, job) => LastJob(main, ChatCall, job)
    BY <1>5, <1>12, <1>13
  <2>4. ASSUME ~HasJob(main', ChatCall)
        PROVE  listeners # 0 /\ messages' = OldestFirst(Conversation)
    <3>1. ~HasJob(rest, ChatCall)
      BY <1>13, <2>4
    <3>2. LastJob(main, ChatCall, head)
      BY <1>1, <1>5, <3>1 DEF ChatCall
    <3>3. head.result = Conversation /\ listeners # 0
      BY <1>1, <2>1, <3>2 DEF ChatInv
    <3> QED
      BY <1>1, <3>3
  <2>5. messages' # <<>> => HasJob(main', {"reloadChat"})
    BY <1>1, <1>3, <1>9 DEF HasJob
  <2> QED
    BY <1>1, <2>1, <2>2, <2>3, <2>4, <2>5 DEF ChatInv, OldestFirst
<1>19. ShownInv'
  <2>1. \A times : OfChat(times)' <=> OfChat(times)
    BY <1>1, <1>2 DEF OfChat
  <2>2. OfChat(Range(messages))' /\ OfChat(Range(rows))'
    BY <1>1, <1>14, <1>15, <2>1 DEF ShownInv
  <2>3. Range(rows) \cap cached \subseteq Range(messages')
    BY <1>1, <1>5, <1>15 DEF ShownInv
  <2>4. \A job \in Range(main') : job.run = "chat" => job \in Range(rest) /\ job \in Range(main)
    BY <1>10, <1>11, <1>13 DEF Queued
  <2>5. \A job \in Range(rest) : job.run = "chat" => head.result \cap cached \subseteq job.result
    BY <1>1, <1>5 DEF ShownInv
  <2>6. \A a, b : Before(main', a, b) /\ b.run = "chat" => Before(main, a, b)
    BY <1>5, <1>10, <1>11, BeforeInConcat DEF Queued
  <2>7. ASSUME NEW job \in Range(main'), job.run = "chat"
        PROVE  /\ OfChat(job.result)'
               /\ Range(messages') \cap cached \subseteq job.result
               /\ Range(rows) \cap cached \subseteq job.result
    BY <1>1, <1>15, <2>1, <2>4, <2>5, <2>7 DEF ShownInv
  <2>8. \A a, b :
           Before(main', a, b) /\ a.run = "chat" /\ b.run = "chat" =>
              a.result \cap cached \subseteq b.result
    BY <1>1, <2>6 DEF ShownInv
  <2> QED
    BY <1>1, <2>2, <2>3, <2>7, <2>8 DEF ShownInv
<1> QED
  BY <1>16, <1>17, <1>18, <1>19 DEF ChatsInv

\* A job that is taken without adding any, and neither cached nor sent change.
LEMMA TakenOnly ==
    ASSUME ChatsInv, main # <<>>, main' = Tail(main),
           UNCHANGED <<sent, cloud, cached, queries, peer, listeners>>
    PROVE  /\ SentGrows /\ SentTimes' = SentTimes /\ Conversation' = Conversation
           /\ \A times : OfChat(times)' <=> OfChat(times)
           /\ Queued(main', <<>>) /\ Range(<<>>) = {}
           /\ Head(main) \in Range(main)
           /\ \A kinds : Head(main).run \notin kinds => Left(main', kinds)
           /\ \A kinds, job : LastJob(main', kinds, job) => LastJob(main, kinds, job)
           /\ \A kinds : Head(main).run \in kinds /\ ~HasJob(main', kinds)
                            => LastJob(main, kinds, Head(main))
           /\ \A a, b : Before(main', a, b) => Before(main, a, b)
           /\ Range(main') \subseteq Range(main) /\ main' \in Seq(Job)
           /\ \A j \in Range(main') :
                 j.run \in {"chat", "inbox"} => j.result \subseteq SentTimes'
<1>1. TypesInv
  BY DEF ChatsInv
<1>2. SentGrows /\ SentTimes' = SentTimes /\ \A u : Pair(u)' = Pair(u)
  BY <1>1, SentSame
<1>3. Queued(Tail(main), <<>>) /\ Range(<<>>) = {}
  BY <1>1, TakenNone
<1>4. /\ Head(main) \in Range(main)
      /\ \A kinds : Head(main).run \notin kinds => Left(Tail(main), kinds)
      /\ \A kinds, job : LastJob(Tail(main), kinds, job) => LastJob(main, kinds, job)
      /\ \A kinds : Head(main).run \in kinds /\ ~HasJob(Tail(main), kinds)
                       => LastJob(main, kinds, Head(main))
      /\ \A a, b : Before(Tail(main), a, b) => Before(main, a, b)
      /\ Range(Tail(main)) \subseteq Range(main)
  BY <1>1, TakenHead
<1>6. /\ main' \in Seq(Job)
      /\ \A j \in Range(main') : j.run \in {"chat", "inbox"} => j.result \subseteq SentTimes'
  BY <1>1, <1>2, <1>3, TypesKept
<1>7. Conversation' = Conversation /\ \A times : OfChat(times)' <=> OfChat(times)
  BY <1>2 DEF Conversation, OfChat
<1>8. Range(main') \subseteq Range(main)
  BY <1>4
<1> QED
  BY <1>2, <1>3, <1>4, <1>6, <1>7, <1>8

LEMMA ChatReloadsStep ==
    ASSUME ChatsInv, ChatReloads
    PROVE  ChatsInv'
<1>1. /\ TypesInv /\ InboxInv /\ ChatInv /\ ShownInv
      /\ main # <<>> /\ Head(main).run = "reloadChat" /\ main' = Tail(main)
      /\ rows' = IF messages = <<>> THEN rows ELSE messages
      /\ UNCHANGED <<sent, cloud, cached, queries, inboxVars, peer, listeners, messages, failed>>
  BY DEF ChatsInv, ChatReloads
<1>2. /\ SentGrows /\ SentTimes' = SentTimes /\ Conversation' = Conversation
      /\ \A times : OfChat(times)' <=> OfChat(times)
      /\ Queued(main', <<>>) /\ Range(<<>>) = {} /\ Head(main) \in Range(main)
      /\ \A kinds : Head(main).run \notin kinds => Left(main', kinds)
      /\ \A a, b : Before(main', a, b) => Before(main, a, b)
      /\ Range(main') \subseteq Range(main) /\ main' \in Seq(Job)
      /\ \A j \in Range(main') : j.run \in {"chat", "inbox"} => j.result \subseteq SentTimes'
  BY <1>1, TakenOnly
<1>3. TypesInv'
  BY <1>1, <1>2 DEF TypesInv, TypeOK, SentTimes, queries, inboxVars
<1>4. InboxInv'
  <2>1. Left(main', {"inbox"}) /\ Left(main', {"inbox", "reloadInbox"})
    BY <1>1, <1>2
  <2> QED
    BY <1>1, <1>2, <2>1, KnownSame, InboxKept DEF inboxVars
<1>5. ChatInv'
  <2>1. peer # Nil
    BY <1>1, <1>2 DEF ChatInv, HasJob
  <2>2. Left(main', ChatCall)
    BY <1>1, <1>2 DEF ChatCall
  <2> QED
    BY <1>1, <1>2, <2>1, <2>2 DEF ChatInv, Left, OldestFirst
<1>6. ShownInv'
  <2>1. OfChat(Range(messages))' /\ OfChat(Range(rows))'
    BY <1>1, <1>2 DEF ShownInv
  <2>2. \A job \in Range(main') : job.run = "chat" =>
           /\ OfChat(job.result)'
           /\ Range(messages) \cap cached \subseteq job.result
           /\ Range(rows') \cap cached \subseteq job.result
    BY <1>1, <1>2 DEF ShownInv
  <2>3. messages # <<>> => rows' = messages
    BY <1>1
  <2>4. \A a, b :
           Before(main', a, b) /\ a.run = "chat" /\ b.run = "chat" =>
              a.result \cap cached \subseteq b.result
    BY <1>1, <1>2 DEF ShownInv
  <2> QED
    BY <1>1, <2>1, <2>2, <2>3, <2>4 DEF ShownInv
<1> QED
  BY <1>3, <1>4, <1>5, <1>6 DEF ChatsInv

LEMMA ChatErrorRunsStep ==
    ASSUME ChatsInv, ChatErrorRuns
    PROVE  ChatsInv'
<1>1. /\ TypesInv /\ InboxInv /\ ChatInv /\ ShownInv
      /\ main # <<>> /\ Head(main).run = "chatError" /\ main' = Tail(main)
      /\ messages' = <<>> /\ failed' = TRUE
      /\ UNCHANGED <<sent, cloud, cached, queries, inboxVars, peer, listeners, rows>>
  BY DEF ChatsInv, ChatErrorRuns
<1>2. /\ SentGrows /\ SentTimes' = SentTimes /\ Conversation' = Conversation
      /\ \A times : OfChat(times)' <=> OfChat(times)
      /\ Queued(main', <<>>) /\ Range(<<>>) = {} /\ Head(main) \in Range(main)
      /\ \A kinds : Head(main).run \notin kinds => Left(main', kinds)
      /\ \A kinds, job : LastJob(main', kinds, job) => LastJob(main, kinds, job)
      /\ \A a, b : Before(main', a, b) => Before(main, a, b)
      /\ Range(main') \subseteq Range(main) /\ main' \in Seq(Job)
      /\ \A j \in Range(main') : j.run \in {"chat", "inbox"} => j.result \subseteq SentTimes'
  BY <1>1, TakenOnly
<1>3. Range(messages') = {} /\ messages' \in Seq(Times)
  BY <1>1, NoneIs
<1>4. TypesInv'
  BY <1>1, <1>2, <1>3 DEF TypesInv, TypeOK, SentTimes, queries, inboxVars
<1>5. InboxInv'
  <2>1. Left(main', {"inbox"}) /\ Left(main', {"inbox", "reloadInbox"})
    BY <1>1, <1>2
  <2> QED
    BY <1>1, <1>2, <2>1, KnownSame, InboxKept DEF inboxVars
<1>6. ChatInv'
  <2>1. peer # Nil
    BY <1>1, <1>2 DEF ChatInv, HasJob, ChatCall
  <2> QED
    BY <1>1, <1>2, <2>1 DEF ChatInv
<1>7. ShownInv'
  <2>1. OfChat({})'
    BY DEF OfChat
  <2>2. OfChat(Range(messages))' /\ OfChat(Range(rows))'
    BY <1>1, <1>2, <1>3, <2>1 DEF ShownInv
  <2>3. \A job \in Range(main') : job.run = "chat" =>
           OfChat(job.result)' /\ Range(rows) \cap cached \subseteq job.result
    BY <1>1, <1>2 DEF ShownInv
  <2>4. \A a, b :
           Before(main', a, b) /\ a.run = "chat" /\ b.run = "chat" =>
              a.result \cap cached \subseteq b.result
    BY <1>1, <1>2 DEF ShownInv
  <2> QED
    BY <1>1, <1>3, <2>2, <2>3, <2>4 DEF ShownInv
<1> QED
  BY <1>4, <1>5, <1>6, <1>7 DEF ChatsInv

LEMMA InboxReloadsStep ==
    ASSUME ChatsInv, InboxReloads
    PROVE  ChatsInv'
<1>1. /\ TypesInv /\ InboxInv /\ ChatInv /\ ShownInv
      /\ main # <<>> /\ Head(main).run = "reloadInbox" /\ main' = Tail(main)
      /\ inboxRows' = inbox
      /\ UNCHANGED <<sent, cloud, cached, queries, inbox, chat>>
  BY DEF ChatsInv, InboxReloads
<1>2. /\ SentGrows /\ SentTimes' = SentTimes /\ Conversation' = Conversation
      /\ \A times : OfChat(times)' <=> OfChat(times)
      /\ Queued(main', <<>>) /\ Range(<<>>) = {}
      /\ \A kinds : Head(main).run \notin kinds => Left(main', kinds)
      /\ \A a, b : Before(main', a, b) => Before(main, a, b)
      /\ Range(main') \subseteq Range(main) /\ main' \in Seq(Job)
      /\ \A j \in Range(main') : j.run \in {"chat", "inbox"} => j.result \subseteq SentTimes'
  BY <1>1, TakenOnly DEF chat
<1>3. TypesInv'
  BY <1>1, <1>2 DEF TypesInv, TypeOK, SentTimes, queries, chat
<1>4. InboxInv'
  <2>1. Left(main', {"inbox"})
    BY <1>1, <1>2
  <2> QED
    BY <1>1, <1>2, <2>1, KnownSame, InboxKept
<1>5. ChatInv'
  <2>1. Left(main', ChatCall) /\ Left(main', {"reloadChat"})
    BY <1>1, <1>2 DEF ChatCall
  <2>2. HasJob(main', ChatCall \cup {"reloadChat"}) => HasJob(main, ChatCall \cup {"reloadChat"})
    BY <1>2 DEF HasJob
  <2> QED
    BY <1>1, <1>2, <2>1, <2>2 DEF ChatInv, Left, OldestFirst, chat
<1>6. ShownInv'
  BY <1>1, <1>2 DEF ShownInv, chat
<1> QED
  BY <1>3, <1>4, <1>5, <1>6 DEF ChatsInv

LEMMA InboxListenerRunsStep ==
    ASSUME ChatsInv, InboxListenerRuns
    PROVE  ChatsInv'
<1> DEFINE again == [run |-> "reloadInbox"]
           head == Head(main)
           rest == Tail(main)
<1>1. /\ TypesInv /\ InboxInv /\ ChatInv /\ ShownInv
      /\ main # <<>> /\ head.run = "inbox"
      /\ inbox' = LatestOfGroups(GroupedMessages(head.result))
      /\ main' = Reload(rest, again)
      /\ UNCHANGED <<sent, cloud, cached, queries, inboxRows, chat>>
  BY DEF ChatsInv, InboxListenerRuns
<1>2. SentGrows /\ SentTimes' = SentTimes /\ \A u : Pair(u)' = Pair(u)
  BY <1>1, SentSame
<1>3. again \in Job /\ again.run = "reloadInbox"
  BY JobsAre
<1>4. TypesInv /\ main # <<>>
  BY <1>1
<1>5. /\ head \in Range(main) /\ head \in Job
      /\ \A kinds : head.run \notin kinds => Left(rest, kinds)
      /\ \A kinds, job : LastJob(rest, kinds, job) => LastJob(main, kinds, job)
      /\ \A kinds : head.run \in kinds /\ ~HasJob(rest, kinds) => LastJob(main, kinds, head)
      /\ \A a, b : Before(rest, a, b) => Before(main, a, b)
  BY <1>4, TakenHead
<1>6. main' = Reload(rest, again)
  BY <1>1
<1> HIDE DEF again
<1>7. /\ \E added : Queued(rest, added) /\ \A x \in Range(added) : x = again
      /\ again \in Range(main')
  BY <1>3, <1>4, <1>6, TakenReload
<1> HIDE DEF head, rest
<1>8. PICK added : Queued(rest, added) /\ \A x \in Range(added) : x = again
  BY <1>7
<1>9. \A x \in Range(added) : x.run = "reloadInbox"
  BY <1>3, <1>8
<1>10. ~HasJob(added, {"inbox"}) /\ ~HasJob(added, ChatCall)
  BY <1>9 DEF HasJob, ChatCall
<1>11. /\ \A kinds, job :
             LastJob(main', kinds, job) =>
                IF HasJob(added, kinds) THEN job \in Range(added) ELSE LastJob(rest, kinds, job)
       /\ \A kinds : HasJob(main', kinds) <=> HasJob(rest, kinds) \/ HasJob(added, kinds)
       /\ Range(main') = Range(rest) \cup Range(added)
  BY <1>8, QueuedIs
<1>12. head.result \in SUBSET SentTimes
  BY <1>1, <1>5 DEF TypesInv
<1>13. inbox' = NewestFirst(Newest(head.result))
  BY <1>1, <1>12, Unsent, LatestIs
<1>14. inbox' \in Seq(Times)
  <2>1. Newest(head.result) \in SUBSET Times
    BY <1>12 DEF Newest, SentTimes
  <2> QED
    BY <1>13, <2>1, NewestFirstIs
<1>15. TypesInv'
  <2>1. /\ main' \in Seq(Job)
        /\ \A j \in Range(main') :
              j.run \in {"chat", "inbox"} => j.result \subseteq SentTimes'
    BY <1>1, <1>2, <1>8, <1>9, TypesKept
  <2> QED
    BY <1>1, <1>2, <1>14, <2>1 DEF TypesInv, TypeOK, SentTimes, queries, chat
<1>16. InboxInv'
  <2>1. Known' = Known /\ \A job : LastJob(main', {"inbox"}, job) => job.result = Known'
    BY <1>1, <1>5, <1>10, <1>11, KnownSame DEF InboxInv
  <2>2. ASSUME ~HasJob(main', {"inbox"})
        PROVE  inbox' = NewestFirst(Newest(Known))'
    <3>1. LastJob(main, {"inbox"}, head)
      BY <1>1, <1>5, <1>11, <2>2
    <3>2. head.result = Known
      BY <1>1, <3>1 DEF InboxInv
    <3>3. Newest(Known)' = Newest(Known)
      BY <1>2, <2>1 DEF Newest
    <3> QED
      BY <1>13, <3>2, <3>3 DEF NewestFirst
  <2>3. HasJob(main', {"inbox", "reloadInbox"})
    BY <1>3, <1>7 DEF HasJob
  <2> QED
    BY <2>1, <2>2, <2>3 DEF InboxInv
<1>17. ChatInv'
  <2>1. Conversation' = Conversation /\ Left(rest, ChatCall) /\ Left(rest, {"reloadChat"})
    BY <1>1, <1>2, <1>5 DEF Conversation, ChatCall, chat
  <2>2. CASE peer # Nil
    BY <1>1, <1>8, <1>9, <2>1, <2>2, ChatKept DEF chat
  <2>3. CASE peer = Nil
    <3>1. ~HasJob(main, ChatCall \cup {"reloadChat"}) /\ listeners = 0 /\ messages = <<>> /\ rows = <<>>
      BY <1>1, <2>3 DEF ChatInv
    <3>2. ~HasJob(rest, ChatCall \cup {"reloadChat"})
      BY <1>8, <3>1 DEF HasJob, Queued
    <3>3. ~HasJob(added, ChatCall \cup {"reloadChat"})
      BY <1>9 DEF HasJob, ChatCall
    <3>4. ~HasJob(main', ChatCall \cup {"reloadChat"})
      BY <1>11, <3>2, <3>3
    <3> QED
      BY <1>1, <2>3, <3>1, <3>4 DEF ChatInv, chat
  <2> QED
    BY <2>2, <2>3
<1>18. ShownInv'
  <2>1. cached' \subseteq SentTimes' /\ cloud' = cloud /\ cached' = cached
    BY <1>1, <1>2, Unsent
  <2>2. \A times : OfChat(times) => /\ times \cap cloud' \subseteq cached'
                                   /\ times \cap cached' \subseteq cached
    BY <2>1 DEF OfChat
  <2> QED
    BY <1>1, <1>2, <1>5, <1>8, <1>9, <2>1, <2>2, ShownKept DEF chat
<1> QED
  BY <1>15, <1>16, <1>17, <1>18 DEF ChatsInv

-----------------------------------------------------------------------------
(***************************************************************************)
(* The invariant, and what it is for.                                      *)
(***************************************************************************)
LEMMA ChatsInvInit ==
    ASSUME Init
    PROVE  ChatsInv
<1>1. /\ sent = [t \in Times |-> Nil] /\ cloud = {} /\ cached = {} /\ main = <<>>
      /\ inbox = <<>> /\ inboxRows = <<>> /\ peer = Nil /\ listeners = 0
      /\ messages = <<>> /\ rows = <<>> /\ failed = FALSE
      /\ listening = {Me} /\ heard = {} /\ Me \in Everyone /\ Nil # Me
  BY PeopleAssumption DEF Init, Everyone
<1>2. /\ Range(main) = {} /\ main \in Seq(Job) /\ Range(messages) = {} /\ Range(rows) = {}
      /\ <<>> \in Seq(Times)
  BY <1>1, NoneIs
<1>3. \A kinds : ~HasJob(main, kinds)
  BY <1>2 DEF HasJob
<1>4. \A kinds, job : ~LastJob(main, kinds, job)
  BY <1>2, LastJobIs
<1>5. TypesInv
  <2>1. /\ sent \in [Times -> Message \cup {Nil}] /\ cloud \subseteq {t \in Times : sent[t] # Nil}
        /\ cached \subseteq {t \in Times : sent[t] # Nil}
        /\ heard \subseteq {t \in Times : sent[t] # Nil}
    BY <1>1
  <2>2. /\ listening \subseteq Everyone /\ listeners \in Nat /\ peer \in Others \cup {Nil}
        /\ ((listeners > 0) <=> (peer \in listening))
    BY <1>1
  <2> QED
    BY <1>1, <1>2, <2>1, <2>2 DEF TypesInv, TypeOK
<1>6. InboxInv
  <2>1. Newest(Known) = {}
    BY <1>1 DEF Newest, Known
  <2>2. NewestFirst({}) = <<>>
    <3>1. /\ NewestFirst({}) \in Seq(Times)
          /\ \A i \in 1 .. Len(NewestFirst({})) : NewestFirst({})[i] \in {}
      BY NewestFirstIs
    <3>2. ~(1 \in 1 .. Len(NewestFirst({})))
      BY <3>1
    <3> HIDE DEF NewestFirst
    <3> QED
      BY <3>1, <3>2
  <2> QED
    BY <1>1, <1>3, <1>4, <2>1, <2>2 DEF InboxInv
<1>7. ChatInv
  BY <1>1, <1>3, <1>4 DEF ChatInv
<1>8. ShownInv
  <2>1. OfChat({})
    BY DEF OfChat
  <2>2. \A a, b : ~Before(main, a, b)
    BY <1>2 DEF Before, Range
  <2> QED
    BY <1>1, <1>2, <2>1, <2>2 DEF ShownInv
<1> QED
  BY <1>5, <1>6, <1>7, <1>8 DEF ChatsInv

LEMMA ChatsInvSame ==
    ASSUME ChatsInv, UNCHANGED vars
    PROVE  ChatsInv'
<1>1. UNCHANGED vars
  OBVIOUS
<1>2. TypesInv' /\ InboxInv'
  BY <1>1 DEF ChatsInv, TypesInv, TypeOK, SentTimes, InboxInv, Newest, Known, Pair, vars
<1>3. Conversation' = Conversation
  BY <1>1 DEF Conversation, Pair, vars
<1>4. \A times : OfChat(times)' <=> OfChat(times)
  BY <1>1 DEF OfChat, SentTimes, Pair, vars
<1>5. ChatInv' /\ ShownInv'
  BY <1>1, <1>3, <1>4 DEF ChatsInv, ChatInv, ShownInv, OldestFirst, vars
<1> QED
  BY <1>2, <1>5 DEF ChatsInv

LEMMA ChatsInvStep ==
    ASSUME ChatsInv, [Next]_vars
    PROVE  ChatsInv'
<1>1. CASE \E t \in Times : Synced(t) \/ Accepted(t) \/ Refused(t) \/ SendMessage(t)
  BY <1>1, SyncedStep, AcceptedStep, RefusedStep, SendMessageStep
<1>2. CASE \E t \in Times, from \in Others, to \in Everyone : OtherSends(t, from, to)
  BY <1>2, OtherSendsStep
<1>3. CASE \E other \in Others : OpenChat(other)
  BY <1>3, OpenChatStep
<1>4. CASE (\E q \in Everyone : QueryEnds(q)) \/ CloseChat \/ KeyboardHides
  BY <1>4, CloseChatStep, QueryEndsStep, KeyboardHidesStep
<1>5. CASE RunMain
  BY <1>5, ChatListenerRunsStep, ChatErrorRunsStep, ChatReloadsStep, InboxListenerRunsStep,
     InboxReloadsStep DEF RunMain
<1>6. CASE UNCHANGED vars
  BY <1>6, ChatsInvSame
<1> QED
  BY <1>1, <1>2, <1>3, <1>4, <1>5, <1>6 DEF Next

\* The invariant always holds.
LEMMA ChatsInvAlways == Spec => []ChatsInv
<1>1. Init => ChatsInv
  BY ChatsInvInit
<1>2. ChatsInv /\ [Next]_vars => ChatsInv'
  BY ChatsInvStep
<1> QED
  BY <1>1, <1>2, PTL DEF Spec

\* Every variable keeps its type, and nothing is known of that was not sent.
THEOREM ChatTypes == Spec => []TypeOK
<1>1. ChatsInv => TypeOK
  BY DEF ChatsInv, TypesInv
<1> QED
  BY <1>1, ChatsInvAlways, PTL

\* With nothing waiting for the chat its rows are the conversation.
LEMMA ChatIsExact ==
    ASSUME ChatsInv
    PROVE  ChatExact
<1> DEFINE conversation == {t \in cached : Pair(t) = {Me, peer}}
<1> SUFFICES ASSUME peer # Nil, ~failed, conversation # {},
                    ~Waiting({"chat", "chatError", "reloadChat"})
             PROVE  rows = OldestFirst(conversation)
  BY DEF ChatExact
<1>1. ~HasJob(main, ChatCall) /\ ~HasJob(main, {"reloadChat"})
  BY DEF Waiting, HasJob, ChatCall
<1>2. messages = OldestFirst(Conversation)
  BY <1>1 DEF ChatsInv, ChatInv
<1>3. Conversation \in SUBSET Times /\ Conversation # {}
  BY Unsent DEF ChatsInv, Conversation
<1>4. messages # <<>>
  BY <1>2, <1>3, OldestFirstIs
<1> QED
  BY <1>1, <1>2, <1>4 DEF ChatsInv, ChatInv, Conversation

\* With nothing waiting for the inbox its rows are the newest of each pair it can know.
LEMMA InboxIsExact ==
    ASSUME ChatsInv
    PROVE  InboxExact
<1>1. SUFFICES ASSUME ~Waiting({"inbox", "reloadInbox"})
               PROVE  inboxRows = NewestFirst(Newest(Known))
  BY DEF InboxExact, Newest
<1>2. ~HasJob(main, {"inbox"}) /\ ~HasJob(main, {"inbox", "reloadInbox"})
  BY <1>1 DEF Waiting, HasJob
<1> QED
  BY <1>2 DEF ChatsInv, InboxInv

\* Whatever order the clocks, the server, the listeners and the reloads come in, a
\* table the main queue owes nothing shows what the phone knows: the open chat its
\* messages once each, oldest first, and the inbox the newest of each pair, which for
\* the inbox stays what the phone knew when the server refused its query.
THEOREM TablesAreExact == Spec => []TablesExact
<1>1. ChatsInv => TablesExact
  BY ChatIsExact, InboxIsExact DEF TablesExact
<1> QED
  BY <1>1, ChatsInvAlways, PTL

\* Of the steps with the chat left open only a reload redraws its rows.
LEMMA RowsStay ==
    ASSUME ChatsInv, [Next]_vars, peer # Nil, peer' = peer
    PROVE  Range(rows) \cap cached' \subseteq Range(rows')
<1>1. CASE ChatReloads
  <2>1. cached' = cached /\ rows' = IF messages = <<>> THEN rows ELSE messages
    BY <1>1 DEF ChatReloads
  <2>2. messages # <<>> => Range(rows) \cap cached \subseteq Range(messages)
    BY DEF ChatsInv, ShownInv
  <2> QED
    BY <2>1, <2>2
<1>2. CASE rows' = rows
  BY <1>2
<1>3. CASE CloseChat \/ \E other \in Others : OpenChat(other)
  BY <1>3, PeopleAssumption DEF CloseChat, OpenChat
<1>4. ChatReloads \/ rows' = rows \/ CloseChat \/ \E other \in Others : OpenChat(other)
  BY DEF Next, vars, chat, RunMain, ChatListenerRuns, ChatErrorRuns, InboxListenerRuns,
         InboxReloads, OtherSends, Synced, Accepted, Refused, SendMessage, QueryEnds,
         KeyboardHides
<1> QED
  BY <1>1, <1>2, <1>3, <1>4

\* A message an open chat shows stays there while the phone knows of it, however
\* many listeners refill the list and whichever of them fails.
THEOREM NeverUnshownHolds == Spec => NeverUnshown
<1> DEFINE Stays == peer # Nil /\ peer' = peer => Range(rows) \cap cached' \subseteq Range(rows')
<1>1. ChatsInv /\ [Next]_vars => [Stays]_vars
  BY RowsStay
<1>2. []ChatsInv /\ [][Next]_vars => [][Stays]_vars
  BY <1>1, PTL
<1> QED
  BY <1>2, ChatsInvAlways, PTL DEF Spec, NeverUnshown

-----------------------------------------------------------------------------
(***************************************************************************)
(* The session.                                                            *)
(***************************************************************************)

\* A form for signing in or registering.
Entrance == {"login", "register"}

\* A form is at the bottom and nowhere else.  What a controller still on the
\* stack asks for is a session (from a form), or comes from above the form; the
\* request for the users was sent by the list of users.
Shape ==
    /\ \A i \in DOMAIN stack : i = 1 <=> stack[i].kind \in Entrance
    /\ \A k \in DOMAIN requests : requests[k].owner > 0 =>
          /\ requests[k].step = "users" => stack[requests[k].owner].kind = "users"
          /\ requests[k].step \notin SigningIn => requests[k].owner > 1

\* Above the form somebody is signed in, and behind every registration that is
\* past its first step and can still push.
Session ==
    /\ Len(stack) > 1 => currentUser # Nobody
    /\ \A k \in DOMAIN requests :
          requests[k].owner > 0 /\ requests[k].step \in {"upload", "url", "write"}
              => currentUser # Nobody

\* The part of TypeOK about the phone; whoever a request is about is a user,
\* except in the one for all users.
StackType ==
    /\ stack \in Seq(Controller)
    /\ requests \in Seq(Request)
    /\ \A k \in DOMAIN requests : requests[k].owner <= Len(stack)
    /\ \A k \in DOMAIN requests : requests[k].step # "users" => requests[k].user \in Users

\* The part about the server and the session.
ServerType ==
    /\ accounts \subseteq Users /\ profiles \subseteq Users
    /\ sentTo \subseteq Users \X Users
    /\ currentUser \in Someone
    /\ overlapped \in BOOLEAN

StackInv == StackType /\ Shape /\ Session

AtMostOneSignsIn ==
    \A j, k \in DOMAIN requests :
        requests[j].step \in SigningIn /\ requests[k].step \in SigningIn => j = k

\* Without a race of sign-ins: at most one is under way, none of them while the
\* user is inside; the inbox is second on the stack and nowhere else, and it
\* and every chat is for who is signed in.
Alone ==
    ~overlapped =>
        /\ AtMostOneSignsIn
        /\ \A k \in DOMAIN requests : requests[k].step \in SigningIn => Len(stack) < 2
        /\ \A i \in DOMAIN stack : i = 2 <=> stack[i].kind = "messages"
        /\ \A i \in DOMAIN stack : stack[i].kind \in {"messages", "chat"} => stack[i].me = currentUser

NothingToOneself == \A u \in Users : <<u, u>> \notin sentTo

\* And nobody is offered themselves, asks about themselves, or has a chat with
\* themselves.
Offered == \A i \in DOMAIN stack : stack[i].kind = "users" => currentUser \notin stack[i].users

Asked == \A k \in DOMAIN requests :
             requests[k].owner > 0 /\ requests[k].step \in {"peer", "mine"} => requests[k].user # currentUser

WithOthers == \A i \in DOMAIN stack : stack[i].kind = "chat" => stack[i].peer # stack[i].me

Apart == ~overlapped /\ NothingToOneself => Offered /\ Asked /\ WithOthers

\* What a registration under way stands on: the account that createUser made,
\* and, without a race of sign-ins, that it is the one who is signed in.  A
\* sign-in comes from the form for logging in.
Registration == {"upload", "url", "write"}

Registering ==
    /\ \A k \in DOMAIN requests :
          requests[k].owner > 0 /\ requests[k].step = "signIn" => stack[requests[k].owner].kind = "login"
    /\ \A k \in DOMAIN requests : requests[k].step \in Registration => requests[k].user \in accounts
    /\ ~overlapped => \A k \in DOMAIN requests :
          requests[k].owner > 0 /\ requests[k].step \in Registration => requests[k].user = currentUser
-----------------------------------------------------------------------------
(***************************************************************************)
(* The stack and the list of requests.                                     *)
(***************************************************************************)
\* A list with one more element, ...
LEMMA SeqPush ==
    ASSUME NEW S, NEW s \in Seq(S), NEW e \in S
    PROVE  /\ Append(s, e) \in Seq(S)
           /\ Len(Append(s, e)) = Len(s) + 1
           /\ \A i \in 1 .. Len(s) : Append(s, e)[i] = s[i]
           /\ Append(s, e)[Len(s) + 1] = e
OBVIOUS

\* ... without its last, ...
LEMMA SeqFront ==
    ASSUME NEW S, NEW s \in Seq(S), Len(s) # 0
    PROVE  /\ Front(s) \in Seq(S)
           /\ Len(Front(s)) = Len(s) - 1
           /\ \A i \in 1 .. Len(s) - 1 : Front(s)[i] = s[i]
<1>0. Len(s) \in Nat /\ Len(s) # 0
  OBVIOUS
<1>1. Len(s) - 1 \in Nat /\ \A i \in 1 .. Len(s) - 1 : s[i] \in S
  BY <1>0
<1> DEFINE f == SubSeq(s, 1, Len(s) - 1)
<1>2. /\ f \in Seq(S)
      /\ Len(f) = IF 1 <= Len(s) - 1 THEN Len(s) - 1 - 1 + 1 ELSE 0
      /\ \A i \in 1 .. Len(s) - 1 - 1 + 1 : f[i] = s[1 + i - 1]
  BY <1>1, SubSeqProperties
<1>3. Front(s) = f
  BY DEF Front
<1> HIDE DEF f
<1>4. Len(f) = Len(s) - 1
  <2> DEFINE n == Len(s)
  <2>1. n \in Nat /\ n # 0
    BY <1>0
  <2>2. Len(f) = IF 1 <= n - 1 THEN n - 1 - 1 + 1 ELSE 0
    BY <1>2
  <2> HIDE DEF n
  <2>3. (IF 1 <= n - 1 THEN n - 1 - 1 + 1 ELSE 0) = n - 1
    BY <2>1
  <2>4. Len(f) = n - 1
    BY <2>2, <2>3
  <2> QED
    BY <2>4 DEF n
<1>5. \A i \in 1 .. Len(s) - 1 : f[i] = s[i]
  BY <1>1, <1>2
<1> QED
  BY <1>2, <1>3, <1>4, <1>5

\* ... and without one of them.
LEMMA SeqRemove ==
    ASSUME NEW S, NEW s \in Seq(S), NEW i \in 1 .. Len(s)
    PROVE  /\ RemoveAt(s, i) \in Seq(S)
           /\ Len(RemoveAt(s, i)) = Len(s) - 1
           /\ \A k \in 1 .. Len(s) - 1 : RemoveAt(s, i)[k] = s[IF k < i THEN k ELSE k + 1]
<1>1. /\ RemoveAt(s, i) \in Seq(S) /\ Len(RemoveAt(s, i)) = Len(s) - 1
      /\ \A k \in 1 .. (Len(s) - 1) :
            RemoveAt(s, i)[k] = IF k < i THEN s[k] ELSE s[k + 1]
  BY RemoveAtIs
<1> QED
  BY <1>1

\* A request that is dropped leaves the others, a place further down.
LEMMA DropKeeps ==
    ASSUME requests \in Seq(Request), NEW i \in DOMAIN requests, Drop(i)
    PROVE  /\ requests' \in Seq(Request)
           /\ \E f \in [DOMAIN requests' -> DOMAIN requests \ {i}] :
                 /\ \A k \in DOMAIN requests' : requests'[k] = requests[f[k]]
                 /\ \A j, k \in DOMAIN requests' : f[j] = f[k] => j = k
<1> DEFINE f == [k \in DOMAIN requests' |-> IF k < i THEN k ELSE k + 1]
<1>1. /\ requests' \in Seq(Request)
      /\ Len(requests') = Len(requests) - 1
      /\ \A k \in 1 .. Len(requests) - 1 : requests'[k] = requests[IF k < i THEN k ELSE k + 1]
  <2>1. i \in 1 .. Len(requests)
    OBVIOUS
  <2>2. requests' = RemoveAt(requests, i)
    BY DEF Drop
  <2> QED
    BY <2>1, <2>2, SeqRemove
<1>2. DOMAIN requests' = 1 .. Len(requests) - 1 /\ DOMAIN requests = 1 .. Len(requests)
  BY <1>1
<1>3. f \in [DOMAIN requests' -> DOMAIN requests \ {i}]
  BY <1>2
<1>4. \A k \in DOMAIN requests' : requests'[k] = requests[f[k]]
  BY <1>1, <1>2
<1>5. \A j, k \in DOMAIN requests' : f[j] = f[k] => j = k
  BY <1>2
<1> QED
  BY <1>1, <1>3, <1>4, <1>5

\* A request that goes on changes its step and nothing else.
LEMMA ContinueKeeps ==
    ASSUME requests \in Seq(Request), NEW i \in DOMAIN requests, NEW step \in SigningIn,
           Continue(i, step)
    PROVE  /\ requests' \in Seq(Request)
           /\ DOMAIN requests' = DOMAIN requests
           /\ requests'[i].step = step
           /\ requests'[i].owner = requests[i].owner
           /\ requests'[i].user = requests[i].user
           /\ \A k \in DOMAIN requests : k # i => requests'[k] = requests[k]
<1>1. requests[i] \in Request
  OBVIOUS
<1> DEFINE r == [requests[i] EXCEPT !.step = step]
<1>2. r \in Request
  BY <1>1 DEF Request, SigningIn
<1>3. requests' = [requests EXCEPT ![i] = r]
  BY DEF Continue
<1>4. r.step = step /\ r.owner = requests[i].owner /\ r.user = requests[i].user
  BY <1>1 DEF Request
<1> HIDE DEF r
<1>5. /\ requests' \in Seq(Request)
      /\ DOMAIN requests' = DOMAIN requests
      /\ requests'[i] = r
      /\ \A k \in DOMAIN requests : k # i => requests'[k] = requests[k]
  BY <1>2, <1>3
<1> QED
  BY <1>4, <1>5

\* Popping controllers takes the owner from what they had asked.
LEMMA OrphanedKeeps ==
    ASSUME requests \in Seq(Request), NEW depth \in Nat
    PROVE  /\ Orphaned(depth) \in Seq(Request)
           /\ DOMAIN Orphaned(depth) = DOMAIN requests
           /\ \A k \in DOMAIN requests :
                 /\ Orphaned(depth)[k].step = requests[k].step
                 /\ Orphaned(depth)[k].user = requests[k].user
                 /\ Orphaned(depth)[k].owner = IF requests[k].owner > depth THEN 0 ELSE requests[k].owner
<1>1. ASSUME NEW k \in DOMAIN requests
      PROVE  /\ Orphaned(depth)[k] \in Request
             /\ Orphaned(depth)[k].step = requests[k].step
             /\ Orphaned(depth)[k].user = requests[k].user
             /\ Orphaned(depth)[k].owner = IF requests[k].owner > depth THEN 0 ELSE requests[k].owner
  <2>1. requests[k] \in Request
    OBVIOUS
  <2>2. Orphaned(depth)[k] = IF requests[k].owner > depth THEN [requests[k] EXCEPT !.owner = 0] ELSE requests[k]
    BY DEF Orphaned
  <2> QED
    BY <2>1, <2>2 DEF Request
<1>2. DOMAIN Orphaned(depth) = 1 .. Len(requests)
  BY DEF Orphaned
<1>3. Orphaned(depth) \in Seq(Request)
  BY <1>1, <1>2 DEF Orphaned
<1> QED
  BY <1>1, <1>2, <1>3

\* A new request comes last.
LEMMA AskAdds ==
    ASSUME requests \in Seq(Request), stack \in Seq(Controller),
           NEW step \in {"signIn", "create", "peer", "mine"},
           NEW user \in Users, NEW me \in Someone, NEW theirs \in BOOLEAN,
           Ask(step, user, me, theirs)
    PROVE  /\ requests' \in Seq(Request)
           /\ DOMAIN requests' = DOMAIN requests \cup {Len(requests) + 1}
           /\ \A k \in DOMAIN requests : requests'[k] = requests[k]
           /\ requests'[Len(requests) + 1].step = step
           /\ requests'[Len(requests) + 1].user = user
           /\ requests'[Len(requests) + 1].owner = Len(stack)
<1> DEFINE r == [step |-> step, user |-> user, me |-> me, theirs |-> theirs, owner |-> Len(stack)]
<1>1. r \in Request
  BY DEF Request, Someone
<1>2. requests' = Append(requests, r)
  BY DEF Ask
<1>3. r.step = step /\ r.user = user /\ r.owner = Len(stack)
  OBVIOUS
<1> HIDE DEF r
<1>4. /\ requests' \in Seq(Request)
      /\ Len(requests') = Len(requests) + 1
      /\ \A k \in 1 .. Len(requests) : requests'[k] = requests[k]
      /\ requests'[Len(requests) + 1] = r
  BY <1>1, <1>2, SeqPush
<1> QED
  BY <1>3, <1>4
-----------------------------------------------------------------------------
(***************************************************************************)
(* The shape of the stack, and that nobody is inside without a session.    *)
(***************************************************************************)
LEMMA TypeParts == ServerType /\ StackType => SessionTypeOK
BY DEF SessionTypeOK, ServerType, StackType, Range

LEMMA TopKind ==
    ASSUME stack \in Seq(Controller), NEW kind, OnTop(kind)
    PROVE  /\ Len(stack) \in Nat /\ Len(stack) # 0
           /\ Len(stack) \in DOMAIN stack
           /\ Last(stack) = stack[Len(stack)]
           /\ stack[Len(stack)].kind = kind
           /\ stack[Len(stack)] \in Controller
<1>1. Len(stack) \in Nat /\ Len(stack) # 0
  BY DEF OnTop
<1>2. Len(stack) \in DOMAIN stack
  BY <1>1
<1> QED
  BY <1>1, <1>2 DEF OnTop, Last

LEMMA RequestType ==
    ASSUME StackType, NEW k \in DOMAIN requests
    PROVE  /\ requests[k] \in Request
           /\ requests[k].owner \in Nat
           /\ requests[k].user \in Someone
           /\ requests[k].owner <= Len(stack)
           /\ Len(stack) \in Nat
<1>1. requests[k] \in Request
  BY DEF StackType
<1>2. Len(stack) \in Nat /\ requests[k].owner <= Len(stack)
  BY DEF StackType
<1> QED
  BY <1>1, <1>2 DEF Request

\* A controller other than a form, pushed over what is there for somebody who
\* is signed in, while requests only go away.
LEMMA PushStackInv ==
    ASSUME StackInv, NEW c \in Controller, c.kind \notin Entrance, Push(c), Len(stack) # 0,
           currentUser' # Nobody, requests' \in Seq(Request),
           NEW f \in [DOMAIN requests' -> DOMAIN requests],
           \A k \in DOMAIN requests' : requests'[k] = requests[f[k]]
    PROVE  StackInv'
<1>1. /\ stack' \in Seq(Controller)
      /\ Len(stack') = Len(stack) + 1
      /\ \A i \in 1 .. Len(stack) : stack'[i] = stack[i]
      /\ stack'[Len(stack) + 1] = c
  BY SeqPush DEF Push, StackInv, StackType
<1>2. Len(stack) \in Nat /\ DOMAIN stack = 1 .. Len(stack) /\ DOMAIN stack' = 1 .. Len(stack) + 1
  BY <1>1 DEF StackInv, StackType
<1>3. ASSUME NEW k \in DOMAIN requests'
      PROVE  /\ requests'[k] = requests[f[k]] /\ f[k] \in DOMAIN requests
             /\ requests[f[k]].owner \in Nat /\ requests[f[k]].owner <= Len(stack)
  BY RequestType DEF StackInv
<1>4. StackType'
  BY <1>1, <1>2, <1>3 DEF StackInv, StackType
<1>5. Shape'
  <2>1. \A i \in DOMAIN stack' : i = 1 <=> stack'[i].kind \in Entrance
    BY <1>1, <1>2 DEF StackInv, Shape
  <2>2. ASSUME NEW k \in DOMAIN requests', requests'[k].owner > 0
        PROVE  /\ requests'[k].step = "users" => stack'[requests'[k].owner].kind = "users"
               /\ requests'[k].step \notin SigningIn => requests'[k].owner > 1
    <3>1. requests[f[k]].owner \in 1 .. Len(stack)
      BY <1>2, <1>3, <2>2
    <3>2. stack'[requests[f[k]].owner] = stack[requests[f[k]].owner]
      BY <1>1, <3>1
    <3> QED
      BY <1>3, <2>2, <3>2 DEF StackInv, Shape
  <2> QED
    BY <2>1, <2>2 DEF Shape
<1>6. Session'
  BY DEF Session
<1> QED
  BY <1>4, <1>5, <1>6 DEF StackInv

\* The stack and the requests that remain are as before.
LEMMA FewerStackInv ==
    ASSUME StackInv, UNCHANGED stack, currentUser # Nobody => currentUser' # Nobody,
           requests' \in Seq(Request),
           NEW f \in [DOMAIN requests' -> DOMAIN requests],
           \A k \in DOMAIN requests' : requests'[k] = requests[f[k]]
    PROVE  StackInv'
<1>1. ASSUME NEW k \in DOMAIN requests'
      PROVE  requests'[k] = requests[f[k]] /\ f[k] \in DOMAIN requests
  OBVIOUS
<1>2. StackType'
  BY <1>1 DEF StackInv, StackType
<1>3. Shape'
  BY <1>1 DEF StackInv, Shape
<1>4. Session'
  BY <1>1 DEF StackInv, Session
<1> QED
  BY <1>2, <1>3, <1>4 DEF StackInv

\* An answer is gone with its request, and may push for whoever is signed in.
LEMMA AnswerStackInv ==
    ASSUME StackInv, NEW i \in DOMAIN requests, Drop(i),
           NEW c \in Controller, c.kind \notin Entrance, PushFor(requests[i], c),
           currentUser # Nobody => currentUser' # Nobody,
           requests[i].owner > 0 => currentUser' # Nobody
    PROVE  StackInv'
<1>1. PICK f \in [DOMAIN requests' -> DOMAIN requests \ {i}] :
         \A k \in DOMAIN requests' : requests'[k] = requests[f[k]]
  BY DropKeeps DEF StackInv, StackType
<1>2. requests' \in Seq(Request) /\ f \in [DOMAIN requests' -> DOMAIN requests]
  BY <1>1, DropKeeps DEF StackInv, StackType
<1>3. /\ requests[i].owner \in Nat /\ Len(stack) \in Nat
      /\ requests[i].owner <= Len(stack)
  BY RequestType DEF StackInv
<1>4. CASE requests[i].owner = 0
  <2>1. UNCHANGED stack
    BY <1>4 DEF PushFor
  <2> QED
    BY <1>1, <1>2, <2>1, FewerStackInv
<1>5. CASE requests[i].owner # 0
  <2>1. Push(c) /\ Len(stack) # 0 /\ currentUser' # Nobody
    BY <1>3, <1>5 DEF PushFor
  <2> QED
    BY <1>1, <1>2, <2>1, PushStackInv
<1> QED
  BY <1>4, <1>5

\* A new request, from a form or from above one.
LEMMA AskStackInv ==
    ASSUME StackInv, UNCHANGED <<stack, currentUser>>, Len(stack) # 0,
           NEW step \in {"signIn", "create", "peer", "mine"},
           NEW user \in Users, NEW me \in Someone, NEW theirs \in BOOLEAN,
           Ask(step, user, me, theirs),
           step \notin SigningIn => Len(stack) > 1
    PROVE  StackInv'
<1> DEFINE n == Len(requests) + 1
<1>1. /\ requests' \in Seq(Request)
      /\ DOMAIN requests' = DOMAIN requests \cup {n}
      /\ \A k \in DOMAIN requests : requests'[k] = requests[k]
      /\ requests'[n].step = step
      /\ requests'[n].user = user
      /\ requests'[n].owner = Len(stack)
  BY AskAdds DEF StackInv, StackType
<1> HIDE DEF n
<1>2. Len(stack) \in Nat
  BY DEF StackInv, StackType
<1>3. StackType'
  BY <1>1, <1>2 DEF StackInv, StackType
<1>4. Shape'
  BY <1>1 DEF StackInv, Shape
<1>5. Session'
  BY <1>1 DEF StackInv, Session
<1> QED
  BY <1>3, <1>4, <1>5 DEF StackInv

LEMMA StackInit == SessionInit => StackInv
<1> SUFFICES ASSUME SessionInit PROVE StackInv
  OBVIOUS
<1>1. stack \in Seq(Controller) /\ requests \in Seq(Request) /\ Len(stack) = 0
      /\ DOMAIN requests = {} /\ DOMAIN stack = {}
  BY DEF SessionInit
<1> QED
  BY <1>1 DEF StackInv, StackType, Shape, Session

LEMMA OpenFormStackInv ==
    ASSUME StackInv, NEW kind \in Entrance, OpenForm(kind)
    PROVE  StackInv'
<1> DEFINE c == [kind |-> kind]
<1>1. c \in Controller /\ c.kind = kind
  BY DEF Controller, Form, Entrance
<1>2. stack' = Append(stack, c) /\ Len(stack) = 0 /\ requests' = requests
  BY DEF OpenForm, Push
<1> HIDE DEF c
<1>3. /\ stack' \in Seq(Controller)
      /\ Len(stack') = 1
      /\ DOMAIN stack' = {1}
      /\ stack'[1] = c
  BY <1>1, <1>2, SeqPush DEF StackInv, StackType
<1>4. \A k \in DOMAIN requests : requests[k].owner \in Nat /\ requests[k].owner <= 0
  BY <1>2, RequestType DEF StackInv
<1>5. StackType'
  BY <1>2, <1>3, <1>4 DEF StackInv, StackType
<1>6. Shape'
  BY <1>1, <1>2, <1>3, <1>4 DEF Shape
<1>7. Session'
  BY <1>2, <1>3, <1>4 DEF Session
<1> QED
  BY <1>5, <1>6, <1>7 DEF StackInv

\* Going back, or out: what is left of the stack is its beginning.
LEMMA PopStackInv ==
    ASSUME StackInv, NEW depth \in 0 .. Len(stack),
           stack' \in Seq(Controller), Len(stack') = depth,
           \A i \in 1 .. depth : stack'[i] = stack[i],
           requests' = Orphaned(depth),
           depth = 0 \/ currentUser' = currentUser
    PROVE  StackInv'
<1>1. Len(stack) \in Nat /\ depth \in Nat /\ DOMAIN stack' = 1 .. depth /\ DOMAIN stack = 1 .. Len(stack)
  BY DEF StackInv, StackType
<1>2. /\ requests' \in Seq(Request)
      /\ DOMAIN requests' = DOMAIN requests
      /\ \A k \in DOMAIN requests :
            /\ requests'[k].step = requests[k].step
            /\ requests'[k].user = requests[k].user
            /\ requests'[k].owner = IF requests[k].owner > depth THEN 0 ELSE requests[k].owner
  BY <1>1, OrphanedKeeps DEF StackInv, StackType
<1>3. ASSUME NEW k \in DOMAIN requests'
      PROVE  /\ k \in DOMAIN requests
             /\ requests'[k].step = requests[k].step
             /\ requests'[k].user = requests[k].user
             /\ \/ requests'[k].owner = 0
                \/ requests'[k].owner = requests[k].owner /\ requests[k].owner \in 1 .. depth
  <2>1. requests[k].owner \in Nat
    BY <1>2, RequestType DEF StackInv
  <2> QED
    BY <1>1, <1>2, <2>1
<1>4. StackType'
  <2>1. \A k \in DOMAIN requests' : requests'[k].owner <= Len(stack')
    BY <1>1, <1>3
  <2>2. \A k \in DOMAIN requests' : requests'[k].step # "users" => requests'[k].user \in Users
    BY <1>3 DEF StackInv, StackType
  <2> QED
    BY <1>2, <2>1, <2>2 DEF StackType
<1>5. Shape'
  <2>1. \A i \in DOMAIN stack' : i = 1 <=> stack'[i].kind \in Entrance
    BY <1>1 DEF StackInv, Shape
  <2>2. ASSUME NEW k \in DOMAIN requests', requests'[k].owner > 0
        PROVE  /\ requests'[k].step = "users" => stack'[requests'[k].owner].kind = "users"
               /\ requests'[k].step \notin SigningIn => requests'[k].owner > 1
    <3>1. requests'[k].owner = requests[k].owner /\ requests[k].owner \in 1 .. depth
      BY <1>3, <2>2
    <3>2. stack'[requests[k].owner] = stack[requests[k].owner]
      BY <3>1
    <3>3. k \in DOMAIN requests /\ requests[k].owner > 0 /\ requests'[k].step = requests[k].step
      BY <1>3, <2>2, <3>1
    <3> QED
      BY <3>1, <3>2, <3>3 DEF StackInv, Shape
  <2> QED
    BY <2>1, <2>2 DEF Shape
<1>6. Session'
  BY <1>1, <1>2, <1>3 DEF StackInv, Session
<1> QED
  BY <1>4, <1>5, <1>6 DEF StackInv

LEMMA BackStackInv ==
    ASSUME StackInv, Back
    PROVE  StackInv'
<1>1. Len(stack) \in Nat /\ Len(stack) # 0 /\ stack \in Seq(Controller)
  BY DEF Back, StackInv, StackType
<1>2. /\ stack' = Front(stack)
      /\ requests' = Orphaned(Len(stack) - 1)
      /\ currentUser' = currentUser
  BY DEF Back
<1>3. /\ stack' \in Seq(Controller)
      /\ Len(stack') = Len(stack) - 1
      /\ \A i \in 1 .. Len(stack) - 1 : stack'[i] = stack[i]
  BY <1>1, <1>2, SeqFront
<1>4. Len(stack) - 1 \in 0 .. Len(stack)
  BY <1>1
<1> QED
  BY <1>2, <1>3, <1>4, PopStackInv

LEMMA LogoutStackInv ==
    ASSUME StackInv, LogoutButtonClick
    PROVE  StackInv'
<1>1. 0 \in 0 .. Len(stack)
  BY DEF StackInv, StackType
<1>2. stack' \in Seq(Controller) /\ Len(stack') = 0
  BY DEF LogoutButtonClick
<1>3. \A i \in 1 .. 0 : stack'[i] = stack[i]
  OBVIOUS
<1>4. requests' = Orphaned(0)
  BY DEF LogoutButtonClick
<1> QED
  BY <1>1, <1>2, <1>3, <1>4, PopStackInv

LEMMA SubmitStackInv ==
    ASSUME StackInv, NEW kind \in Entrance, NEW step \in {"signIn", "create"}, NEW u \in Users,
           SubmitForm(kind, step, u)
    PROVE  StackInv'
<1>1. Ask(step, u, Nobody, FALSE) /\ UNCHANGED <<stack, currentUser>> /\ OnTop(kind)
  BY DEF SubmitForm, server
<1>2. Len(stack) # 0
  BY <1>1, TopKind DEF StackInv, StackType
<1>3. Nobody \in Someone /\ step \in SigningIn /\ step \in {"signIn", "create", "peer", "mine"}
  BY DEF Someone, SigningIn
<1> QED
  BY <1>1, <1>2, <1>3, AskStackInv

LEMMA ComposeStackInv ==
    ASSUME StackInv, ComposeClick
    PROVE  StackInv'
<1> DEFINE c == [kind |-> "users", users |-> {}]
<1> DEFINE r == [step |-> "users", user |-> Nobody, me |-> Nobody, theirs |-> FALSE, owner |-> Len(stack')]
<1>1. OnTop("messages") /\ stack' = Append(stack, c) /\ requests' = Append(requests, r)
      /\ currentUser' = currentUser
  BY DEF ComposeClick, Push
<1>2. c \in Controller /\ c.kind = "users"
  BY DEF Controller, People
<1>3. /\ stack' \in Seq(Controller)
      /\ Len(stack') = Len(stack) + 1
      /\ \A i \in 1 .. Len(stack) : stack'[i] = stack[i]
      /\ stack'[Len(stack) + 1] = c
  BY <1>1, <1>2, SeqPush DEF StackInv, StackType
<1>4. /\ Len(stack) \in Nat /\ Len(stack) \in DOMAIN stack /\ stack[Len(stack)].kind = "messages"
      /\ DOMAIN stack = 1 .. Len(stack) /\ DOMAIN stack' = 1 .. Len(stack) + 1
  BY <1>1, <1>3, TopKind DEF StackInv, StackType
<1>5. Len(stack) > 1
  BY <1>4 DEF StackInv, Shape, Entrance
<1>6. r \in Request /\ r.step = "users" /\ r.owner = Len(stack) + 1
  BY <1>3, <1>4 DEF Request, Someone
<1> HIDE DEF c, r
<1>7. /\ requests' \in Seq(Request)
      /\ DOMAIN requests' = 1 .. Len(requests) + 1
      /\ DOMAIN requests = 1 .. Len(requests)
      /\ Len(requests) \in Nat
      /\ \A k \in DOMAIN requests : requests'[k] = requests[k]
      /\ requests'[Len(requests) + 1] = r
  BY <1>1, <1>6, SeqPush DEF StackInv, StackType
<1>8. ASSUME NEW k \in DOMAIN requests'
      PROVE  \/ requests'[k] = r
             \/ k \in DOMAIN requests /\ requests'[k] = requests[k]
                /\ requests[k].owner \in Nat /\ requests[k].owner <= Len(stack)
  BY <1>7, RequestType DEF StackInv
<1>9. StackType'
  <2>1. \A k \in DOMAIN requests' : requests'[k].owner <= Len(stack')
    BY <1>3, <1>4, <1>6, <1>8
  <2>2. \A k \in DOMAIN requests' : requests'[k].step # "users" => requests'[k].user \in Users
    BY <1>6, <1>8 DEF StackInv, StackType
  <2> QED
    BY <1>3, <1>7, <2>1, <2>2 DEF StackType
<1>10. Shape'
  <2>1. \A i \in DOMAIN stack' : i = 1 <=> stack'[i].kind \in Entrance
    BY <1>2, <1>3, <1>4, <1>5 DEF StackInv, Shape, Entrance
  <2>2. ASSUME NEW k \in DOMAIN requests', requests'[k].owner > 0
        PROVE  /\ requests'[k].step = "users" => stack'[requests'[k].owner].kind = "users"
               /\ requests'[k].step \notin SigningIn => requests'[k].owner > 1
    <3>1. CASE requests'[k] = r
      BY <1>2, <1>3, <1>4, <1>5, <1>6, <3>1
    <3>2. CASE k \in DOMAIN requests /\ requests'[k] = requests[k]
               /\ requests[k].owner \in Nat /\ requests[k].owner <= Len(stack)
      <4>1. requests[k].owner \in 1 .. Len(stack)
        BY <1>4, <2>2, <3>2
      <4>2. stack'[requests[k].owner] = stack[requests[k].owner]
        BY <1>3, <4>1
      <4> QED
        BY <2>2, <3>2, <4>2 DEF StackInv, Shape
    <3> QED
      BY <1>8, <3>1, <3>2
  <2> QED
    BY <2>1, <2>2 DEF Shape
<1>11. Session'
  BY <1>1, <1>5 DEF StackInv, Session
<1> QED
  BY <1>9, <1>10, <1>11 DEF StackInv

\* A request that goes on to its next step.
LEMMA StepStackInv ==
    ASSUME StackInv, UNCHANGED stack, currentUser # Nobody => currentUser' # Nobody,
           NEW i \in DOMAIN requests,
           requests' \in Seq(Request), DOMAIN requests' = DOMAIN requests,
           \A k \in DOMAIN requests : /\ requests'[k].owner = requests[k].owner
                                      /\ requests'[k].user = requests[k].user
                                      /\ k # i => requests'[k].step = requests[k].step,
           requests[i].step # "users", requests'[i].step # "users",
           requests[i].step \in SigningIn => requests'[i].step \in SigningIn,
           requests'[i].step \in {"upload", "url", "write"} /\ requests[i].owner > 0
              => currentUser' # Nobody
    PROVE  StackInv'
<1>1. StackType'
  BY DEF StackInv, StackType
<1>2. Shape'
  BY DEF StackInv, Shape
<1>3. Session'
  <2> SUFFICES ASSUME NEW k \in DOMAIN requests, requests[k].owner > 0,
                      requests'[k].step \in {"upload", "url", "write"}
               PROVE  currentUser' # Nobody
    BY DEF StackInv, Session
  <2>1. CASE k = i
    BY <2>1
  <2>2. CASE k # i
    BY <2>2 DEF StackInv, Session
  <2> QED
    BY <2>1, <2>2
<1> QED
  BY <1>1, <1>2, <1>3 DEF StackInv

LEMMA ContinueStackInv ==
    ASSUME StackInv, UNCHANGED stack, currentUser # Nobody => currentUser' # Nobody,
           NEW i \in DOMAIN requests, requests[i].step \in SigningIn,
           NEW step \in {"upload", "url", "write"}, Continue(i, step),
           requests[i].owner > 0 => currentUser' # Nobody
    PROVE  StackInv'
<1>1. requests \in Seq(Request) /\ step \in SigningIn
  BY DEF StackInv, StackType, SigningIn
<1>2. /\ requests' \in Seq(Request)
      /\ DOMAIN requests' = DOMAIN requests
      /\ requests'[i].step = step
      /\ requests'[i].owner = requests[i].owner
      /\ requests'[i].user = requests[i].user
      /\ \A k \in DOMAIN requests : k # i => requests'[k] = requests[k]
  BY <1>1, ContinueKeeps
<1>3. \A k \in DOMAIN requests : /\ requests'[k].owner = requests[k].owner
                                 /\ requests'[k].user = requests[k].user
                                 /\ k # i => requests'[k].step = requests[k].step
  BY <1>2
<1>4. requests[i].step # "users" /\ requests'[i].step # "users" /\ requests'[i].step \in SigningIn
  BY <1>2 DEF SigningIn
<1> QED
  BY <1>2, <1>3, <1>4, StepStackInv

\* Only its theirs and its step change.
LEMMA PeerReadKeeps ==
    ASSUME StackInv, NEW i \in DOMAIN requests, PeerRead(i)
    PROVE  /\ requests' \in Seq(Request)
           /\ DOMAIN requests' = DOMAIN requests
           /\ requests'[i].step = "mine"
           /\ requests'[i].owner = requests[i].owner
           /\ requests'[i].user = requests[i].user
           /\ \A k \in DOMAIN requests : k # i => requests'[k] = requests[k]
<1>1. requests \in Seq(Request) /\ requests[i] \in Request
  BY DEF StackInv, StackType
<1>2. PICK theirs \in {requests[i].user \in profiles, FALSE} :
         requests' = [requests EXCEPT ![i].step = "mine", ![i].theirs = theirs]
  BY Zenon DEF PeerRead
<1>0. theirs \in BOOLEAN
  <2>1. (requests[i].user \in profiles) \in BOOLEAN
    OBVIOUS
  <2>2. theirs = (requests[i].user \in profiles) \/ theirs = FALSE
    BY Zenon
  <2> QED
    BY <2>1, <2>2, Zenon
<1> DEFINE r == [requests[i] EXCEPT !.step = "mine", !.theirs = theirs]
<1>3. r \in Request /\ r.step = "mine" /\ r.owner = requests[i].owner /\ r.user = requests[i].user
  BY <1>0, <1>1 DEF Request
<1>4. requests' = [requests EXCEPT ![i] = r]
  BY <1>1, <1>2
<1> HIDE DEF r
<1>5. /\ requests' \in Seq(Request)
      /\ DOMAIN requests' = DOMAIN requests
      /\ requests'[i] = r
      /\ \A k \in DOMAIN requests : k # i => requests'[k] = requests[k]
  BY <1>1, <1>3, <1>4
<1> QED
  BY <1>3, <1>5

LEMMA PeerReadStackInv ==
    ASSUME StackInv, NEW i \in DOMAIN requests, PeerRead(i)
    PROVE  StackInv'
<1>1. /\ requests' \in Seq(Request)
      /\ DOMAIN requests' = DOMAIN requests
      /\ requests'[i].step = "mine"
      /\ requests'[i].owner = requests[i].owner
      /\ requests'[i].user = requests[i].user
      /\ \A k \in DOMAIN requests : k # i => requests'[k] = requests[k]
  BY PeerReadKeeps
<1>2. requests[i].step = "peer" /\ UNCHANGED <<stack, currentUser>>
  BY DEF PeerRead
<1>3. requests[i].step \notin SigningIn
  BY <1>2 DEF SigningIn
<1>4. \A k \in DOMAIN requests : /\ requests'[k].owner = requests[k].owner
                                 /\ requests'[k].user = requests[k].user
                                 /\ k # i => requests'[k].step = requests[k].step
  BY <1>1
<1>5. requests[i].step # "users" /\ requests'[i].step # "users"
      /\ requests'[i].step \notin {"upload", "url", "write"}
  BY <1>1, <1>2
<1> QED
  BY <1>1, <1>2, <1>3, <1>4, <1>5, StepStackInv

\* The list of users fills up; it stays what and where it is.
LEMMA UsersFetchedKeeps ==
    ASSUME StackInv, ServerType, NEW i \in DOMAIN requests, UsersFetched(i)
    PROVE  /\ stack' \in Seq(Controller)
           /\ Len(stack') = Len(stack)
           /\ \A k \in DOMAIN stack :
                 /\ stack'[k].kind = stack[k].kind
                 /\ \/ stack'[k] = stack[k]
                    \/ /\ stack[k].kind = "users"
                       /\ stack'[k].users = stack[k].users \cup (profiles \ {currentUser})
<1> DEFINE o == requests[i].owner
<1>1. stack \in Seq(Controller) /\ o \in Nat /\ o <= Len(stack) /\ requests[i].step = "users"
  BY RequestType DEF StackInv, StackType, UsersFetched
<1>2. CASE UNCHANGED stack
  BY <1>1, <1>2
<1>3. CASE o # 0 /\ stack' = [stack EXCEPT ![o].users = @ \cup (profiles \ {currentUser})]
  <2>1. o \in DOMAIN stack /\ stack[o] \in Controller /\ stack[o].kind = "users"
    BY <1>1, <1>3 DEF StackInv, Shape
  <2>2. stack[o] \in People
    BY <2>1 DEF Controller, Form, Inbox, People, Chat
  <2> DEFINE c == [stack[o] EXCEPT !.users = stack[o].users \cup (profiles \ {currentUser})]
  <2>3. c \in People /\ c.kind = "users"
        /\ c.users = stack[o].users \cup (profiles \ {currentUser})
    BY <2>2 DEF ServerType, People
  <2>4. stack' = [stack EXCEPT ![o] = c]
    BY <1>3
  <2>5. c \in Controller
    BY <2>3 DEF Controller
  <2> HIDE DEF c, o
  <2>6. /\ stack' \in Seq(Controller)
        /\ Len(stack') = Len(stack)
        /\ stack'[o] = c
        /\ \A k \in DOMAIN stack : k # o => stack'[k] = stack[k]
    BY <1>1, <2>1, <2>4, <2>5
  <2> QED
    BY <2>1, <2>3, <2>6
<1> QED
  BY <1>2, <1>3 DEF UsersFetched

LEMMA UsersFetchedStackInv ==
    ASSUME StackInv, ServerType, NEW i \in DOMAIN requests, UsersFetched(i)
    PROVE  StackInv'
<1>1. /\ stack' \in Seq(Controller)
      /\ Len(stack') = Len(stack)
      /\ \A k \in DOMAIN stack : stack'[k].kind = stack[k].kind
  BY UsersFetchedKeeps
<1>2. PICK f \in [DOMAIN requests' -> DOMAIN requests \ {i}] :
         \A k \in DOMAIN requests' : requests'[k] = requests[f[k]]
  BY DropKeeps DEF StackInv, StackType, UsersFetched
<1>3. requests' \in Seq(Request) /\ currentUser' = currentUser
  BY DropKeeps DEF StackInv, StackType, UsersFetched
<1>4. DOMAIN stack' = DOMAIN stack /\ DOMAIN stack = 1 .. Len(stack) /\ Len(stack) \in Nat
  BY <1>1 DEF StackInv, StackType
<1>5. ASSUME NEW k \in DOMAIN requests'
      PROVE  /\ requests'[k] = requests[f[k]] /\ f[k] \in DOMAIN requests
             /\ requests[f[k]].owner \in Nat /\ requests[f[k]].owner <= Len(stack)
  BY <1>2, RequestType DEF StackInv
<1>6. StackType'
  BY <1>1, <1>3, <1>5 DEF StackInv, StackType
<1>7. Shape'
  <2>1. \A k \in DOMAIN stack' : k = 1 <=> stack'[k].kind \in Entrance
    BY <1>1, <1>4 DEF StackInv, Shape
  <2>2. ASSUME NEW k \in DOMAIN requests', requests'[k].owner > 0
        PROVE  /\ requests'[k].step = "users" => stack'[requests'[k].owner].kind = "users"
               /\ requests'[k].step \notin SigningIn => requests'[k].owner > 1
    <3>1. requests[f[k]].owner \in DOMAIN stack
      BY <1>4, <1>5, <2>2
    <3> QED
      BY <1>1, <1>5, <2>2, <3>1 DEF StackInv, Shape
  <2> QED
    BY <2>1, <2>2 DEF Shape
<1>8. Session'
  BY <1>1, <1>3, <1>5 DEF StackInv, Session
<1> QED
  BY <1>6, <1>7, <1>8 DEF StackInv

\* Whoever asks from above the form is signed in, as long as they can push.
LEMMA AskerSignedIn ==
    ASSUME StackInv, NEW i \in DOMAIN requests, requests[i].owner > 0,
           requests[i].step \notin {"signIn", "create"}
    PROVE  currentUser # Nobody
<1>1. CASE requests[i].step \in SigningIn
  BY <1>1 DEF StackInv, Session, SigningIn
<1>2. CASE requests[i].step \notin SigningIn
  <2>1. requests[i].owner > 1 /\ requests[i].owner \in Nat /\ Len(stack) \in Nat
        /\ requests[i].owner <= Len(stack)
    BY <1>2, RequestType DEF StackInv, Shape
  <2> QED
    BY <2>1 DEF StackInv, Session
<1> QED
  BY <1>1, <1>2

\* The chat that opens is the asker's, with whom they asked about.
LEMMA MineReadPushes ==
    ASSUME ServerType, StackInv, NEW i \in DOMAIN requests, MineRead(i)
    PROVE  \E c \in Chat : /\ PushFor(requests[i], c)
                           /\ c.me = currentUser /\ c.peer = requests[i].user
<1>1. PICK mine \in {requests[i].me \in profiles, FALSE} :
        PushFor(requests[i], [kind |-> "chat", me |-> currentUser, peer |-> requests[i].user,
                              mine |-> mine, theirs |-> requests[i].theirs])
  BY Zenon DEF MineRead
<1>2. mine \in BOOLEAN
  <2>1. (requests[i].me \in profiles) \in BOOLEAN
    OBVIOUS
  <2>2. mine = (requests[i].me \in profiles) \/ mine = FALSE
    BY Zenon
  <2> QED
    BY <2>1, <2>2, Zenon
<1> DEFINE c == [kind |-> "chat", me |-> currentUser, peer |-> requests[i].user,
                 mine |-> mine, theirs |-> requests[i].theirs]
<1>3. requests[i] \in Request /\ requests[i].user \in Users
  BY RequestType DEF StackInv, StackType, MineRead
<1>4. c \in Chat /\ c.me = currentUser /\ c.peer = requests[i].user
  BY <1>2, <1>3 DEF Chat, ServerType, Request
<1>5. PushFor(requests[i], c)
  BY <1>1
<1> QED
  BY <1>4, <1>5

LEMMA AnsweredInv ==
    ASSUME ServerType, StackInv, NEW i \in DOMAIN requests, Answered(i)
    PROVE  ServerType' /\ StackInv'
<1>1. requests[i] \in Request /\ (requests[i].step # "users" => requests[i].user \in Users)
  BY RequestType DEF StackInv, StackType
<1>2. CASE SignInAnswered(i)
  <2>1. requests[i].user \in Users /\ currentUser' = requests[i].user
    BY <1>1, <1>2 DEF SignInAnswered
  <2>2. currentUser' \in Someone /\ currentUser' # Nobody
    BY <2>1, NobodyAssumption DEF Someone
  <2>3. InboxOf(currentUser') \in Controller /\ InboxOf(currentUser').kind \notin Entrance
    BY <2>2 DEF InboxOf, Controller, Inbox, Entrance
  <2>4. Drop(i) /\ PushFor(requests[i], InboxOf(currentUser'))
    BY <1>2 DEF SignInAnswered
  <2>5. StackInv'
    BY <2>2, <2>3, <2>4, AnswerStackInv
  <2>6. ServerType'
    BY <1>2, <2>2 DEF ServerType, SignInAnswered, server
  <2> QED
    BY <2>5, <2>6
<1>3. CASE AccountCreated(i)
  <2>1. requests[i].step = "create" /\ requests[i].user \in Users /\ currentUser' = requests[i].user
    BY <1>1, <1>3 DEF AccountCreated
  <2>2. currentUser' \in Someone /\ currentUser' # Nobody
    BY <2>1, NobodyAssumption DEF Someone
  <2>3. Continue(i, "upload") /\ UNCHANGED stack /\ requests[i].step \in SigningIn
    BY <1>3, <2>1 DEF AccountCreated, SigningIn
  <2>4. StackInv'
    BY <2>2, <2>3, ContinueStackInv
  <2>5. ServerType'
    BY <1>3, <2>1, <2>2 DEF ServerType, AccountCreated
  <2> QED
    BY <2>4, <2>5
<1>4. CASE PictureUploaded(i)
  <2>1. PICK step \in {"upload", "url", "write"} :
          Continue(i, step) /\ requests[i].step \in {"upload", "url"}
    BY <1>4 DEF PictureUploaded
  <2>2. UNCHANGED <<stack, currentUser>> /\ ServerType'
    BY <1>4 DEF PictureUploaded, ServerType, server
  <2>3. requests[i].step \in SigningIn /\ requests[i].step \notin {"signIn", "create"}
    BY <2>1 DEF SigningIn
  <2>4. requests[i].owner > 0 => currentUser' # Nobody
    BY <2>2, <2>3, AskerSignedIn
  <2>5. StackInv'
    BY <2>1, <2>2, <2>3, <2>4, ContinueStackInv
  <2> QED
    BY <2>2, <2>5
<1>5. CASE ProfileWritten(i)
  <2>1. /\ requests[i].step = "write" /\ Drop(i) /\ PushFor(requests[i], InboxOf(currentUser))
        /\ currentUser' = currentUser
    BY <1>5 DEF ProfileWritten
  <2>2. InboxOf(currentUser) \in Controller /\ InboxOf(currentUser).kind \notin Entrance
    BY DEF InboxOf, Controller, Inbox, Entrance, ServerType
  <2>3. requests[i].owner > 0 => currentUser' # Nobody
    BY <2>1, AskerSignedIn
  <2>4. StackInv'
    BY <2>1, <2>2, <2>3, AnswerStackInv
  <2>5. ServerType'
    BY <1>1, <1>5, <2>1 DEF ServerType, ProfileWritten
  <2> QED
    BY <2>4, <2>5
<1>6. CASE SigningInFails(i)
  <2>1. requests[i].step # "users" /\ Drop(i) /\ UNCHANGED <<stack, currentUser, profiles, sentTo, overlapped>>
    BY <1>6 DEF SigningInFails, SigningIn
  <2>2. PICK f \in [DOMAIN requests' -> DOMAIN requests \ {i}] :
           \A k \in DOMAIN requests' : requests'[k] = requests[f[k]]
    BY <2>1, DropKeeps DEF StackInv, StackType
  <2>3. requests' \in Seq(Request) /\ f \in [DOMAIN requests' -> DOMAIN requests]
    BY <2>1, <2>2, DropKeeps DEF StackInv, StackType
  <2>4. StackInv'
    BY <2>1, <2>2, <2>3, FewerStackInv
  <2>5. accounts' \subseteq Users
    BY <1>1, <1>6, <2>1 DEF SigningInFails, ServerType
  <2>6. ServerType'
    BY <2>1, <2>5 DEF ServerType
  <2> QED
    BY <2>4, <2>6
<1>7. CASE UsersFetched(i)
  <2>1. ServerType'
    BY <1>7 DEF UsersFetched, ServerType, server
  <2> QED
    BY <1>7, <2>1, UsersFetchedStackInv
<1>8. CASE PeerRead(i)
  <2>1. ServerType'
    BY <1>8 DEF PeerRead, ServerType, server
  <2> QED
    BY <1>8, <2>1, PeerReadStackInv
<1>9. CASE MineRead(i)
  <2>1. requests[i].step = "mine" /\ Drop(i) /\ UNCHANGED <<server, currentUser, overlapped>>
    BY <1>9 DEF MineRead
  <2>2. \A c \in Chat : c \in Controller /\ c.kind \notin Entrance
    BY DEF Controller, Chat, Entrance
  <2>3. requests[i].owner > 0 => currentUser' # Nobody
    BY <2>1, AskerSignedIn
  <2>4. PICK c \in Chat : PushFor(requests[i], c)
    BY <1>9, MineReadPushes
  <2>5. StackInv'
    BY <2>1, <2>2, <2>3, <2>4, AnswerStackInv
  <2>6. ServerType'
    BY <2>1 DEF ServerType, server
  <2> QED
    BY <2>5, <2>6
<1> QED
  BY <1>2, <1>3, <1>4, <1>5, <1>6, <1>7, <1>8, <1>9 DEF Answered

LEMMA SelectStackInv ==
    ASSUME ServerType, StackInv, NEW other \in Users, SelectMessage(other) \/ SelectUser(other)
    PROVE  StackInv'
<1>1. PICK step \in {"peer", "mine"}, me \in Someone, theirs \in BOOLEAN, kind \in {"messages", "users"} :
         Ask(step, other, me, theirs) /\ OnTop(kind)
  <2>1. CASE SelectMessage(other)
    <3>1. OnTop("messages")
      BY <2>1 DEF SelectMessage
    <3>2. Last(stack) \in Controller /\ Last(stack).kind = "messages"
      BY <3>1, TopKind DEF StackInv, StackType
    <3>3. Last(stack).me \in Someone
      BY <3>2 DEF Controller, Form, Inbox, People, Chat
    <3>4. Ask("peer", other, Last(stack).me, FALSE)
      BY <2>1 DEF SelectMessage
    <3> QED
      BY <3>1, <3>3, <3>4
  <2>2. CASE SelectUser(other)
    <3>1. Ask("mine", other, currentUser, TRUE) /\ OnTop("users")
      BY <2>2 DEF SelectUser
    <3> QED
      BY <3>1 DEF ServerType
  <2> QED
    BY <2>1, <2>2
<1>2. UNCHANGED <<stack, currentUser>>
  BY DEF SelectMessage, SelectUser
<1>3. /\ Len(stack) \in Nat /\ Len(stack) # 0 /\ Len(stack) \in DOMAIN stack
      /\ stack[Len(stack)].kind \in {"messages", "users"}
  BY <1>1, TopKind DEF StackInv, StackType
<1>4. Len(stack) > 1
  BY <1>3 DEF StackInv, Shape, Entrance
<1>5. step \in {"signIn", "create", "peer", "mine"}
  OBVIOUS
<1> QED
  BY <1>1, <1>2, <1>3, <1>4, <1>5, AskStackInv

LEMMA StackNext == ServerType /\ StackInv /\ [SessionNext]_sessionVars => ServerType' /\ StackInv'
<1> SUFFICES ASSUME ServerType, StackInv, [SessionNext]_sessionVars
             PROVE  ServerType' /\ StackInv'
  OBVIOUS
<1>1. CASE \E kind \in {"login", "register"} : OpenForm(kind)
  <2>1. StackInv'
    BY <1>1, OpenFormStackInv DEF Entrance
  <2> QED
    BY <1>1, <2>1 DEF OpenForm, ServerType, server
<1>2. CASE \E u \in Users : LoginButtonClick(u) \/ RegisterButtonClick(u)
  <2>1. PICK u \in Users, kind \in Entrance, step \in {"signIn", "create"} : SubmitForm(kind, step, u)
    BY <1>2 DEF LoginButtonClick, RegisterButtonClick, Entrance
  <2>2. StackInv'
    BY <2>1, SubmitStackInv
  <2> QED
    BY <2>1, <2>2 DEF SubmitForm, ServerType, server
<1>3. CASE Back
  BY <1>3, BackStackInv DEF Back, ServerType, server
<1>4. CASE LogoutButtonClick
  BY <1>4, LogoutStackInv DEF LogoutButtonClick, ServerType, server, Someone
<1>5. CASE Crash
  <2>1. PICK arrived \in SUBSET Range(requests) :
          /\ accounts' = accounts \cup {r.user : r \in {q \in arrived : q.step = "create"}}
          /\ profiles' = profiles \cup {r.user : r \in {q \in arrived : q.step = "write"}}
    BY <1>5 DEF Crash
  <2>2. \A q \in arrived : q.step # "users" => q.user \in Users
    BY DEF Range, StackInv, StackType
  <2>3. accounts' \subseteq Users /\ profiles' \subseteq Users
    BY <2>1, <2>2 DEF ServerType
  <2>4. ServerType'
    BY <1>5, <2>3 DEF Crash, ServerType
  <2>5. /\ stack' \in Seq(Controller) /\ requests' \in Seq(Request) /\ Len(stack') = 0
        /\ DOMAIN requests' = {} /\ DOMAIN stack' = {}
    BY <1>5 DEF Crash
  <2>6. StackInv'
    BY <2>5 DEF StackInv, StackType, Shape, Session
  <2> QED
    BY <2>4, <2>6
<1>6. CASE ComposeClick
  BY <1>6, ComposeStackInv DEF ComposeClick, ServerType, server
<1>7. CASE SendMessageClick \/ \E from, to \in Users : OtherPhoneSends(from, to)
  <2>1. UNCHANGED <<stack, requests, currentUser, accounts, profiles, overlapped>>
    BY <1>7 DEF SendMessageClick, OtherPhoneSends
  <2>2. sentTo' \subseteq Users \X Users
    <3>1. CASE SendMessageClick
      <4>1. OnTop("chat") /\ currentUser # Nobody /\ sentTo' = sentTo \cup {<<currentUser, Last(stack).peer>>}
        BY <3>1 DEF SendMessageClick
      <4>2. Last(stack) \in Controller /\ Last(stack).kind = "chat"
        BY <4>1, TopKind DEF StackInv, StackType
      <4>3. Last(stack).peer \in Users
        BY <4>2 DEF Controller, Form, Inbox, People, Chat
      <4> QED
        BY <4>1, <4>3 DEF ServerType, Someone
    <3>2. CASE \E from, to \in Users : OtherPhoneSends(from, to)
      BY <3>2 DEF OtherPhoneSends, ServerType
    <3> QED
      BY <1>7, <3>1, <3>2
  <2> QED
    BY <2>1, <2>2 DEF ServerType, StackInv, StackType, Shape, Session
<1>8. CASE \E other \in Users : SelectMessage(other) \/ SelectUser(other)
  <2>1. StackInv'
    BY <1>8, SelectStackInv
  <2> QED
    BY <1>8, <2>1 DEF SelectMessage, SelectUser, ServerType, server
<1>9. CASE \E i \in DOMAIN requests : Answered(i)
  BY <1>9, AnsweredInv
<1>10. CASE UNCHANGED sessionVars
  BY <1>10 DEF sessionVars, server, ServerType, StackInv, StackType, Shape, Session
<1> QED
  BY <1>1, <1>2, <1>3, <1>4, <1>5, <1>6, <1>7, <1>8, <1>9, <1>10 DEF SessionNext

LEMMA ServerInit == SessionInit => ServerType
BY DEF SessionInit, ServerType, Someone

LEMMA StackAlways == SessionSpec => [](ServerType /\ StackInv)
<1>1. QED
  BY ServerInit, StackInit, StackNext, PTL DEF SessionSpec

\* Every variable keeps its type, and a request comes from the stack or from
\* a controller that is gone (loginButtonClick, registerButtonClick, the
\* selections of a row): no answer pushes for a controller that is not there.
THEOREM SessionTypeCorrect == SessionSpec => []SessionTypeOK
<1>1. ServerType /\ StackInv => SessionTypeOK
  BY TypeParts DEF StackInv
<1> QED
  BY <1>1, StackAlways, PTL

\* The inbox, the users and a chat are only ever open for somebody who is
\* signed in, however late the answers that open them (the completion handlers
\* of loginButtonClick, registerButtonClick and didSelectRowAt push) and
\* whatever fails.
THEOREM SignedInAlways == SessionSpec => []SignedInBehindTheDoor
<1>1. StackInv => SignedInBehindTheDoor
  BY DEF StackInv, StackType, Shape, Session, SignedInBehindTheDoor, Range, Entrance
<1> QED
  BY <1>1, StackAlways, PTL
-----------------------------------------------------------------------------
(***************************************************************************)
(* One identity.                                                           *)
(***************************************************************************)
LEMMA StackPositions ==
    ASSUME StackInv
    PROVE  /\ Len(stack) \in Nat /\ DOMAIN stack = 1 .. Len(stack)
           /\ \A k \in DOMAIN stack : stack[k].kind \in {"messages", "users", "chat"} => k > 1
BY DEF StackInv, StackType, Shape, Entrance

\* The one sign-in under way ends, and opens the inbox or nothing.
LEMMA InboxAlone ==
    ASSUME StackInv, Alone, ~overlapped, NEW i \in DOMAIN requests,
           requests[i].step \in SigningIn, Drop(i),
           PushFor(requests[i], InboxOf(currentUser')), InboxOf(currentUser') \in Controller
    PROVE  Alone'
<1> DEFINE c == InboxOf(currentUser')
<1>1. PICK f \in [DOMAIN requests' -> DOMAIN requests \ {i}] :
         \A k \in DOMAIN requests' : requests'[k] = requests[f[k]]
  BY DropKeeps DEF StackInv, StackType
<1>2. \A k \in DOMAIN requests' : requests'[k].step \notin SigningIn
  BY <1>1 DEF Alone, AtMostOneSignsIn
<1>3. Len(stack) \in Nat /\ Len(stack) < 2 /\ DOMAIN stack = 1 .. Len(stack)
      /\ \A k \in DOMAIN stack : stack[k].kind \notin {"messages", "chat"}
  BY StackPositions DEF Alone
<1>4. c.kind = "messages" /\ c.me = currentUser' /\ c \in Controller
  BY DEF InboxOf
<1>5. requests[i].owner \in Nat /\ requests[i].owner <= Len(stack)
  BY RequestType DEF StackInv
<1>6. CASE UNCHANGED stack
  BY <1>2, <1>3, <1>6 DEF Alone, AtMostOneSignsIn
<1>7. CASE requests[i].owner # 0 /\ Push(c)
  <2>1. Len(stack) = 1
    BY <1>3, <1>5, <1>7
  <2> HIDE DEF c
  <2>2. /\ stack' \in Seq(Controller) /\ Len(stack') = Len(stack) + 1
        /\ \A k \in 1 .. Len(stack) : stack'[k] = stack[k]
        /\ stack'[Len(stack) + 1] = c
    BY <1>4, <1>7, SeqPush DEF Push, StackInv, StackType
  <2>3. DOMAIN stack' = 1 .. 2 /\ stack'[1] = stack[1] /\ stack'[2] = c /\ 1 \in DOMAIN stack
    BY <1>3, <2>1, <2>2
  <2> QED
    BY <1>2, <1>3, <1>4, <2>3 DEF Alone, AtMostOneSignsIn
<1> QED
  BY <1>6, <1>7 DEF PushFor

\* Requests only go away, and the stack gets at most a controller that is
\* neither a form nor an inbox, over the inbox.
LEMMA InsideAlone ==
    ASSUME StackInv, Alone, ~overlapped, currentUser' = currentUser,
           NEW f \in [DOMAIN requests' -> DOMAIN requests],
           \A k \in DOMAIN requests' : requests'[k] = requests[f[k]],
           \A j, k \in DOMAIN requests' : f[j] = f[k] => j = k,
           \/ UNCHANGED stack
           \/ \E c \in Controller : /\ Push(c) /\ Len(stack) > 1
                                    /\ c.kind \in {"users", "chat"}
                                    /\ (c.kind = "chat" => c.me = currentUser)
    PROVE  Alone'
<1>1. AtMostOneSignsIn'
  BY DEF Alone, AtMostOneSignsIn
<1>2. \A k \in DOMAIN requests' : requests'[k].step \in SigningIn => Len(stack) < 2
  BY DEF Alone
<1>3. Len(stack) \in Nat /\ DOMAIN stack = 1 .. Len(stack)
  BY StackPositions
<1>4. CASE UNCHANGED stack
  BY <1>1, <1>2, <1>4 DEF Alone
<1>5. ASSUME NEW c \in Controller, Push(c), Len(stack) > 1, c.kind \in {"users", "chat"},
             c.kind = "chat" => c.me = currentUser
      PROVE  Alone'
  <2>0. /\ stack' \in Seq(Controller)
        /\ Len(stack') = Len(stack) + 1
        /\ \A k \in 1 .. Len(stack) : stack'[k] = stack[k]
        /\ stack'[Len(stack) + 1] = c
    BY <1>5, SeqPush DEF Push, StackInv, StackType
  <2>1. /\ DOMAIN stack' = 1 .. Len(stack) + 1
        /\ \A k \in 1 .. Len(stack) : stack'[k] = stack[k]
        /\ stack'[Len(stack) + 1] = c
    BY <2>0
  <2>2. \A k \in DOMAIN requests' : requests'[k].step \notin SigningIn
    BY <1>2, <1>3, <1>5
  <2>3. \A k \in DOMAIN stack' : k = 2 <=> stack'[k].kind = "messages"
    BY <1>3, <1>5, <2>1 DEF Alone
  <2>4. \A k \in DOMAIN stack' : stack'[k].kind \in {"messages", "chat"} => stack'[k].me = currentUser'
    BY <1>3, <1>5, <2>1 DEF Alone
  <2> QED
    BY <1>1, <2>2, <2>3, <2>4 DEF Alone
<1> QED
  BY <1>4, <1>5

\* A request joins that is not a sign-in.
LEMMA AskedAlone ==
    ASSUME StackInv, Alone, ~overlapped, currentUser' = currentUser,
           NEW n, n \notin DOMAIN requests,
           DOMAIN requests' = DOMAIN requests \cup {n},
           \A k \in DOMAIN requests : requests'[k].step = requests[k].step,
           requests'[n].step \notin SigningIn,
           \/ UNCHANGED stack
           \/ \E c \in Controller : /\ Push(c) /\ Len(stack) > 1
                                    /\ c.kind = "users"
    PROVE  Alone'
<1>1. AtMostOneSignsIn'
  BY DEF Alone, AtMostOneSignsIn
<1>2. \A k \in DOMAIN requests' : requests'[k].step \in SigningIn => Len(stack) < 2
  BY DEF Alone
<1>3. Len(stack) \in Nat /\ DOMAIN stack = 1 .. Len(stack)
  BY StackPositions
<1>4. CASE UNCHANGED stack
  BY <1>1, <1>2, <1>4 DEF Alone
<1>5. ASSUME NEW c \in Controller, Push(c), Len(stack) > 1, c.kind = "users"
      PROVE  Alone'
  <2>1. /\ stack' \in Seq(Controller)
        /\ Len(stack') = Len(stack) + 1
        /\ \A k \in 1 .. Len(stack) : stack'[k] = stack[k]
        /\ stack'[Len(stack) + 1] = c
    BY <1>5, SeqPush DEF Push, StackInv, StackType
  <2>2. DOMAIN stack' = 1 .. Len(stack) + 1
    BY <2>1
  <2>3. \A k \in DOMAIN requests' : requests'[k].step \notin SigningIn
    BY <1>2, <1>3, <1>5
  <2>4. \A k \in DOMAIN stack' : k = 2 <=> stack'[k].kind = "messages"
    BY <1>3, <1>5, <2>1, <2>2 DEF Alone
  <2>5. \A k \in DOMAIN stack' : stack'[k].kind \in {"messages", "chat"} => stack'[k].me = currentUser'
    BY <1>3, <1>5, <2>1, <2>2 DEF Alone
  <2> QED
    BY <1>1, <2>3, <2>4, <2>5 DEF Alone
<1> QED
  BY <1>4, <1>5

\* Requests go on, and whoever signs in does so at the form.
LEMMA StepAlone ==
    ASSUME StackInv, Alone, ~overlapped,
           DOMAIN requests' = DOMAIN requests,
           \A k \in DOMAIN requests : requests'[k].step \in SigningIn => requests[k].step \in SigningIn,
           DOMAIN stack' = DOMAIN stack, Len(stack') = Len(stack),
           \A k \in DOMAIN stack : /\ stack'[k].kind = stack[k].kind
                                   /\ stack[k].kind # "users" => stack'[k] = stack[k],
           currentUser' = currentUser \/ Len(stack) < 2
    PROVE  Alone'
<1>1. AtMostOneSignsIn'
  BY DEF Alone, AtMostOneSignsIn
<1>2. \A k \in DOMAIN requests' : requests'[k].step \in SigningIn => Len(stack') < 2
  BY DEF Alone
<1>3. \A k \in DOMAIN stack' : k = 2 <=> stack'[k].kind = "messages"
  BY DEF Alone
<1>4. \A k \in DOMAIN stack' : stack'[k].kind \in {"messages", "chat"} => stack'[k].me = currentUser'
  BY StackPositions DEF Alone
<1> QED
  BY <1>1, <1>2, <1>3, <1>4 DEF Alone

LEMMA PopAlone ==
    ASSUME StackInv, Alone, ~overlapped, NEW depth \in 0 .. Len(stack),
           stack' \in Seq(Controller), Len(stack') = depth,
           \A i \in 1 .. depth : stack'[i] = stack[i],
           requests' = Orphaned(depth),
           depth = 0 \/ currentUser' = currentUser
    PROVE  Alone'
<1>1. Len(stack) \in Nat /\ depth \in Nat /\ DOMAIN stack' = 1 .. depth /\ DOMAIN stack = 1 .. Len(stack)
  BY StackPositions
<1>2. DOMAIN requests' = DOMAIN requests /\ \A k \in DOMAIN requests : requests'[k].step = requests[k].step
  BY <1>1, OrphanedKeeps DEF StackInv, StackType
<1>3. AtMostOneSignsIn'
  BY <1>2 DEF Alone, AtMostOneSignsIn
<1>4. \A k \in DOMAIN requests' : requests'[k].step \in SigningIn => Len(stack') < 2
  BY <1>1, <1>2 DEF Alone
<1>5. \A k \in DOMAIN stack' : /\ k = 2 <=> stack'[k].kind = "messages"
                               /\ stack'[k].kind \in {"messages", "chat"} => stack'[k].me = currentUser'
  BY <1>1 DEF Alone
<1> QED
  BY <1>3, <1>4, <1>5 DEF Alone

LEMMA AnsweredAlone ==
    ASSUME ServerType, StackInv, Alone, ~overlapped, NEW i \in DOMAIN requests, Answered(i)
    PROVE  Alone'
<1>0. requests[i] \in Request /\ (requests[i].step # "users" => requests[i].user \in Users)
  BY RequestType DEF StackInv, StackType
<1>1. CASE SignInAnswered(i) \/ ProfileWritten(i)
  <2>1. requests[i].step \in SigningIn /\ Drop(i) /\ PushFor(requests[i], InboxOf(currentUser'))
    BY <1>1 DEF SignInAnswered, ProfileWritten, SigningIn
  <2>2. currentUser' \in Someone
    BY <1>0, <1>1 DEF SignInAnswered, ProfileWritten, ServerType, Someone
  <2>3. InboxOf(currentUser') \in Controller
    BY <2>2 DEF InboxOf, Controller, Inbox
  <2> QED
    BY <2>1, <2>3, InboxAlone
<1>2. CASE AccountCreated(i) \/ PictureUploaded(i)
  <2>1. PICK step \in {"upload", "url", "write"} : Continue(i, step)
    BY <1>2 DEF AccountCreated, PictureUploaded
  <2>2. requests[i].step \in SigningIn /\ UNCHANGED stack
    BY <1>2 DEF AccountCreated, PictureUploaded, SigningIn
  <2>3. DOMAIN requests' = DOMAIN requests
        /\ \A k \in DOMAIN requests : k # i => requests'[k] = requests[k]
    BY <2>1, ContinueKeeps DEF StackInv, StackType, SigningIn
  <2>4. Len(stack) < 2
    BY <2>2 DEF Alone
  <2> QED
    BY <2>2, <2>3, <2>4, StepAlone
<1>3. CASE SigningInFails(i)
  <2>1. Drop(i) /\ UNCHANGED <<stack, currentUser>>
    BY <1>3 DEF SigningInFails
  <2>2. PICK f \in [DOMAIN requests' -> DOMAIN requests \ {i}] :
           /\ \A k \in DOMAIN requests' : requests'[k] = requests[f[k]]
           /\ \A j, k \in DOMAIN requests' : f[j] = f[k] => j = k
    BY <2>1, DropKeeps DEF StackInv, StackType
  <2>3. f \in [DOMAIN requests' -> DOMAIN requests]
    BY <2>2
  <2> QED
    BY <2>1, <2>2, <2>3, InsideAlone
<1>4. CASE UsersFetched(i)
  <2>1. Drop(i) /\ currentUser' = currentUser
    BY <1>4 DEF UsersFetched
  <2>2. PICK f \in [DOMAIN requests' -> DOMAIN requests \ {i}] :
           /\ \A k \in DOMAIN requests' : requests'[k] = requests[f[k]]
           /\ \A j, k \in DOMAIN requests' : f[j] = f[k] => j = k
    BY <2>1, DropKeeps DEF StackInv, StackType
  <2>3. /\ stack' \in Seq(Controller)
        /\ Len(stack') = Len(stack)
        /\ \A k \in DOMAIN stack : /\ stack'[k].kind = stack[k].kind
                                   /\ stack[k].kind # "users" => stack'[k] = stack[k]
    BY <1>4, UsersFetchedKeeps
  <2>4. DOMAIN stack' = DOMAIN stack
    BY <2>3, StackPositions
  <2>5. AtMostOneSignsIn'
    BY <2>2 DEF Alone, AtMostOneSignsIn
  <2>6. \A k \in DOMAIN requests' : requests'[k].step \in SigningIn => Len(stack') < 2
    BY <2>2, <2>3 DEF Alone
  <2>7. \A k \in DOMAIN stack' : /\ k = 2 <=> stack'[k].kind = "messages"
                                 /\ stack'[k].kind \in {"messages", "chat"} => stack'[k].me = currentUser'
    BY <2>1, <2>3, <2>4 DEF Alone
  <2> QED
    BY <2>5, <2>6, <2>7 DEF Alone
<1>5. CASE PeerRead(i)
  <2>1. /\ DOMAIN requests' = DOMAIN requests /\ requests'[i].step = "mine"
        /\ \A k \in DOMAIN requests : k # i => requests'[k] = requests[k]
    BY <1>5, PeerReadKeeps
  <2>2. UNCHANGED <<stack, currentUser>>
    BY <1>5 DEF PeerRead
  <2> QED
    BY <2>1, <2>2, StepAlone DEF SigningIn
<1>6. CASE MineRead(i)
  <2>1. requests[i].step = "mine" /\ Drop(i) /\ currentUser' = currentUser
    BY <1>6 DEF MineRead
  <2>2. PICK f \in [DOMAIN requests' -> DOMAIN requests \ {i}] :
           /\ \A k \in DOMAIN requests' : requests'[k] = requests[f[k]]
           /\ \A j, k \in DOMAIN requests' : f[j] = f[k] => j = k
    BY <2>1, DropKeeps DEF StackInv, StackType
  <2>3. f \in [DOMAIN requests' -> DOMAIN requests]
    BY <2>2
  <2>4. UNCHANGED stack \/ \E c \in Chat : Push(c) /\ requests[i].owner # 0 /\ c.me = currentUser
    BY <1>6, MineReadPushes DEF PushFor
  <2>5. requests[i].owner # 0 => Len(stack) > 1
    <3>1. requests[i].owner \in Nat /\ Len(stack) \in Nat /\ requests[i].owner <= Len(stack)
      BY RequestType DEF StackInv
    <3>2. requests[i].step \notin SigningIn
      BY <2>1 DEF SigningIn
    <3> QED
      BY <3>1, <3>2 DEF StackInv, Shape
  <2>6. \A c \in Chat : c \in Controller /\ c.kind = "chat"
    BY DEF Controller, Chat
  <2>7. \/ UNCHANGED stack
        \/ \E c \in Controller : /\ Push(c) /\ Len(stack) > 1
                                 /\ c.kind \in {"users", "chat"}
                                 /\ (c.kind = "chat" => c.me = currentUser)
    BY <2>4, <2>5, <2>6
  <2> QED
    BY <2>1, <2>2, <2>3, <2>7, InsideAlone
<1> QED
  BY <1>1, <1>2, <1>3, <1>4, <1>5, <1>6 DEF Answered

LEMMA AloneInit == SessionInit => Alone
<1> SUFFICES ASSUME SessionInit PROVE Alone
  OBVIOUS
<1>1. DOMAIN requests = {} /\ DOMAIN stack = {}
  BY DEF SessionInit
<1> QED
  BY <1>1 DEF Alone, AtMostOneSignsIn

LEMMA AskedKeeps ==
    ASSUME ServerType, StackInv, NEW other \in Users, SelectMessage(other) \/ SelectUser(other)
    PROVE  /\ DOMAIN requests' = DOMAIN requests \cup {Len(requests) + 1}
           /\ \A k \in DOMAIN requests : requests'[k] = requests[k]
           /\ requests'[Len(requests) + 1].step \in {"peer", "mine"}
           /\ requests'[Len(requests) + 1].user = other
<1>1. PICK step \in {"peer", "mine"}, me \in Someone, theirs \in BOOLEAN : Ask(step, other, me, theirs)
  <2>1. CASE SelectMessage(other)
    <3>1. Last(stack) \in Controller /\ Last(stack).kind = "messages"
      BY <2>1, TopKind DEF SelectMessage, StackInv, StackType
    <3>2. Last(stack).me \in Someone
      BY <3>1 DEF Controller, Form, Inbox, People, Chat
    <3> QED
      BY <2>1, <3>2 DEF SelectMessage
  <2>2. CASE SelectUser(other)
    BY <2>2 DEF SelectUser, ServerType
  <2> QED
    BY <2>1, <2>2
<1>2. step \in {"signIn", "create", "peer", "mine"}
  OBVIOUS
<1> QED
  BY <1>1, <1>2, AskAdds DEF StackInv, StackType

LEMMA AloneNext == ServerType /\ StackInv /\ Alone /\ [SessionNext]_sessionVars => Alone'
<1> SUFFICES ASSUME ServerType, StackInv, Alone, [SessionNext]_sessionVars, ~overlapped'
             PROVE  Alone'
  BY DEF Alone
<1>0. Len(requests) \in Nat /\ DOMAIN requests = 1 .. Len(requests) /\ Len(requests) + 1 \notin DOMAIN requests
  BY DEF StackInv, StackType
<1>1. CASE \E kind \in {"login", "register"} : OpenForm(kind)
  <2>1. PICK kind \in {"login", "register"} : stack' = Append(stack, [kind |-> kind])
    BY <1>1 DEF OpenForm, Push
  <2>2. Len(stack) = 0 /\ UNCHANGED <<requests, overlapped>>
    BY <1>1 DEF OpenForm
  <2> DEFINE c == [kind |-> kind]
  <2>3. c \in Controller /\ c.kind \notin {"messages", "chat"}
    BY DEF Controller, Form
  <2>4. stack' = Append(stack, c)
    BY <2>1
  <2> HIDE DEF c
  <2>5. /\ stack' \in Seq(Controller) /\ Len(stack') = Len(stack) + 1
        /\ stack'[Len(stack) + 1] = c
    BY <2>3, <2>4, SeqPush DEF StackInv, StackType
  <2>6. Len(stack') = 1 /\ DOMAIN stack' = {1} /\ stack'[1] = c
    BY <2>2, <2>5
  <2> QED
    BY <2>2, <2>3, <2>6 DEF Alone, AtMostOneSignsIn
<1>2. CASE \E u \in Users : LoginButtonClick(u) \/ RegisterButtonClick(u)
  <2>1. PICK u \in Users, kind \in Entrance, step \in {"signIn", "create"} : SubmitForm(kind, step, u)
    BY <1>2 DEF LoginButtonClick, RegisterButtonClick, Entrance
  <2>2. Ask(step, u, Nobody, FALSE) /\ UNCHANGED <<stack, currentUser>> /\ OnTop(kind)
        /\ ~overlapped /\ \A k \in DOMAIN requests : requests[k].step \notin SigningIn
    BY <2>1 DEF SubmitForm, server, Range
  <2>3. Nobody \in Someone /\ step \in {"signIn", "create", "peer", "mine"}
    BY DEF Someone
  <2>4. /\ DOMAIN requests' = DOMAIN requests \cup {Len(requests) + 1}
        /\ \A k \in DOMAIN requests : requests'[k] = requests[k]
    BY <2>2, <2>3, AskAdds DEF StackInv, StackType
  <2>5. Len(stack) = 1
    BY <2>2, TopKind DEF StackInv, StackType, Shape
  <2> QED
    BY <2>2, <2>4, <2>5 DEF Alone, AtMostOneSignsIn
<1>3. CASE Back
  <2>1. Len(stack) \in Nat /\ Len(stack) # 0 /\ stack \in Seq(Controller)
    BY <1>3 DEF Back, StackInv, StackType
  <2>2. stack' = Front(stack) /\ requests' = Orphaned(Len(stack) - 1) /\ UNCHANGED <<currentUser, overlapped>>
    BY <1>3 DEF Back
  <2>3. /\ stack' \in Seq(Controller) /\ Len(stack') = Len(stack) - 1
        /\ \A i \in 1 .. Len(stack) - 1 : stack'[i] = stack[i]
    BY <2>1, <2>2, SeqFront
  <2>4. Len(stack) - 1 \in 0 .. Len(stack)
    BY <2>1
  <2> QED
    BY <2>2, <2>3, <2>4, PopAlone
<1>4. CASE LogoutButtonClick
  <2>1. 0 \in 0 .. Len(stack) /\ \A i \in 1 .. 0 : stack'[i] = stack[i]
    BY StackPositions
  <2>2. stack' \in Seq(Controller) /\ Len(stack') = 0 /\ requests' = Orphaned(0) /\ overlapped' = overlapped
    BY <1>4 DEF LogoutButtonClick
  <2> QED
    BY <2>1, <2>2, PopAlone
<1>5. CASE Crash
  <2>1. DOMAIN requests' = {} /\ DOMAIN stack' = {}
    BY <1>5 DEF Crash
  <2> QED
    BY <2>1 DEF Alone, AtMostOneSignsIn
<1>6. CASE ComposeClick
  <2> DEFINE c == [kind |-> "users", users |-> {}]
  <2> DEFINE r == [step |-> "users", user |-> Nobody, me |-> Nobody, theirs |-> FALSE, owner |-> Len(stack')]
  <2>1. OnTop("messages") /\ Push(c) /\ requests' = Append(requests, r) /\ UNCHANGED <<currentUser, overlapped>>
    BY <1>6 DEF ComposeClick
  <2>2. c \in Controller /\ c.kind = "users" /\ r.step \notin SigningIn
    BY DEF Controller, People, SigningIn
  <2> HIDE DEF c, r
  <2>3. /\ DOMAIN requests' = DOMAIN requests \cup {Len(requests) + 1}
        /\ \A k \in DOMAIN requests : requests'[k] = requests[k]
        /\ requests'[Len(requests) + 1] = r
    BY <2>1 DEF StackInv, StackType
  <2>4. Len(stack) > 1
    BY <2>1, TopKind, StackPositions DEF StackInv, StackType
  <2> QED
    BY <1>0, <2>1, <2>2, <2>3, <2>4, AskedAlone
<1>7. CASE SendMessageClick \/ \E from, to \in Users : OtherPhoneSends(from, to)
  BY <1>7 DEF SendMessageClick, OtherPhoneSends, Alone, AtMostOneSignsIn
<1>8. CASE \E other \in Users : SelectMessage(other) \/ SelectUser(other)
  <2>1. PICK other \in Users : SelectMessage(other) \/ SelectUser(other)
    BY <1>8
  <2>2. UNCHANGED <<stack, currentUser, overlapped>>
    BY <2>1 DEF SelectMessage, SelectUser
  <2>3. requests'[Len(requests) + 1].step \notin SigningIn
    BY <2>1, AskedKeeps DEF SigningIn
  <2> QED
    BY <1>0, <2>1, <2>2, <2>3, AskedKeeps, AskedAlone
<1>9. CASE \E i \in DOMAIN requests : Answered(i)
  <2>1. ~overlapped
    BY <1>9 DEF Answered, SignInAnswered, AccountCreated, PictureUploaded, ProfileWritten,
                SigningInFails, UsersFetched, PeerRead, MineRead
  <2> QED
    BY <1>9, <2>1, AnsweredAlone
<1>10. CASE UNCHANGED sessionVars
  BY <1>10 DEF sessionVars, Alone, AtMostOneSignsIn
<1> QED
  BY <1>1, <1>2, <1>3, <1>4, <1>5, <1>6, <1>7, <1>8, <1>9, <1>10 DEF SessionNext

LEMMA AloneAlways == SessionSpec => []Alone
<1>1. QED
  BY AloneInit, AloneNext, StackAlways, PTL DEF SessionSpec

\* Unless two sign-ins were under way at once, whoever an inbox or a chat was
\* opened for is who is signed in, and there is a single inbox: a late sign-in
\* finds no inbox to change the user under (loginButtonClick and
\* registerButtonClick push from a form, and a form is only ever at the bottom).
THEOREM OneIdentityAlways == SessionSpec => []OneIdentity
<1>1. Alone => OneIdentity
  BY DEF Alone, OneIdentity, Range
<1> QED
  BY <1>1, AloneAlways, PTL
-----------------------------------------------------------------------------
(***************************************************************************)
(* Nobody chats with themselves.                                           *)
(***************************************************************************)
\* What is new on the stack offers nobody themselves, and who is signed in
\* changes only where nothing is offered.
LEMMA StackApart ==
    ASSUME StackInv, Offered, WithOthers,
           currentUser' = currentUser \/ Len(stack) < 2,
           \A k \in DOMAIN stack' :
              \/ k \in DOMAIN stack /\ stack'[k] = stack[k]
              \/ stack'[k].kind \notin {"users", "chat"}
              \/ stack'[k].kind = "users" /\ currentUser' \notin stack'[k].users
              \/ stack'[k].kind = "chat" /\ stack'[k].peer # stack'[k].me
    PROVE  Offered' /\ WithOthers'
<1>1. Offered'
  <2> SUFFICES ASSUME NEW k \in DOMAIN stack', stack'[k].kind = "users"
               PROVE  currentUser' \notin stack'[k].users
    BY DEF Offered
  <2>1. CASE k \in DOMAIN stack /\ stack'[k] = stack[k]
    BY <2>1, StackPositions DEF Offered
  <2> QED
    BY <2>1
<1>2. WithOthers'
  BY DEF WithOthers
<1> QED
  BY <1>1, <1>2

LEMMA RequestsApart ==
    ASSUME StackInv, Asked,
           currentUser' = currentUser \/ Len(stack) < 2,
           \A k \in DOMAIN requests' :
              requests'[k].owner > 0 /\ requests'[k].step \in {"peer", "mine"} =>
                 \/ requests'[k].user # currentUser'
                 \/ \E j \in DOMAIN requests :
                       /\ requests[j].owner > 0 /\ requests[j].step \in {"peer", "mine"}
                       /\ requests[j].user = requests'[k].user
    PROVE  Asked'
<1> SUFFICES ASSUME NEW k \in DOMAIN requests', NEW j \in DOMAIN requests,
                    requests[j].owner > 0, requests[j].step \in {"peer", "mine"},
                    requests[j].user = requests'[k].user
             PROVE  requests'[k].user # currentUser'
  BY DEF Asked
<1>1. requests[j].owner \in Nat /\ Len(stack) \in Nat /\ requests[j].owner <= Len(stack)
  BY RequestType DEF StackInv
<1>2. requests[j].owner > 1
  BY DEF StackInv, Shape, SigningIn
<1> QED
  BY <1>1, <1>2 DEF Asked

\* One controller is pushed, and requests only go away.
LEMMA PushApart ==
    ASSUME StackInv, Offered, Asked, WithOthers, NEW c \in Controller, Push(c),
           currentUser' = currentUser \/ Len(stack) < 2,
           \/ c.kind \notin {"users", "chat"}
           \/ c.kind = "users" /\ currentUser' \notin c.users
           \/ c.kind = "chat" /\ c.peer # c.me,
           NEW f \in [DOMAIN requests' -> DOMAIN requests],
           \A k \in DOMAIN requests' : requests'[k] = requests[f[k]]
    PROVE  Offered' /\ Asked' /\ WithOthers'
<1>1. /\ stack' \in Seq(Controller)
      /\ Len(stack') = Len(stack) + 1
      /\ \A k \in 1 .. Len(stack) : stack'[k] = stack[k]
      /\ stack'[Len(stack) + 1] = c
  BY SeqPush DEF Push, StackInv, StackType
<1>2. Len(stack) \in Nat /\ DOMAIN stack = 1 .. Len(stack) /\ DOMAIN stack' = 1 .. Len(stack) + 1
  BY <1>1, StackPositions
<1>3. \A k \in DOMAIN stack' : (k \in DOMAIN stack /\ stack'[k] = stack[k]) \/ stack'[k] = c
  BY <1>1, <1>2
<1>4. Offered' /\ WithOthers'
  BY <1>3, StackApart
<1>5. Asked'
  BY RequestsApart
<1> QED
  BY <1>4, <1>5

\* Going back, or out.
LEMMA PopApart ==
    ASSUME StackInv, Offered, Asked, WithOthers, NEW depth \in 0 .. Len(stack),
           stack' \in Seq(Controller), Len(stack') = depth,
           \A i \in 1 .. depth : stack'[i] = stack[i],
           requests' = Orphaned(depth),
           depth = 0 \/ currentUser' = currentUser
    PROVE  Offered' /\ Asked' /\ WithOthers'
<1>1. Len(stack) \in Nat /\ depth \in Nat /\ DOMAIN stack' = 1 .. depth /\ DOMAIN stack = 1 .. Len(stack)
  BY StackPositions
<1>2. /\ DOMAIN requests' = DOMAIN requests
      /\ \A k \in DOMAIN requests :
            /\ requests'[k].step = requests[k].step
            /\ requests'[k].user = requests[k].user
            /\ requests'[k].owner = IF requests[k].owner > depth THEN 0 ELSE requests[k].owner
  BY <1>1, OrphanedKeeps DEF StackInv, StackType
<1>3. \A k \in DOMAIN requests : requests[k].owner \in Nat
  BY RequestType DEF StackInv
<1>4. CASE depth = 0
  <2>1. DOMAIN stack' = {} /\ \A k \in DOMAIN requests' : ~(requests'[k].owner > 0)
    BY <1>1, <1>2, <1>3, <1>4
  <2> QED
    BY <2>1 DEF Offered, Asked, WithOthers
<1>5. CASE currentUser' = currentUser
  <2>1. Offered' /\ WithOthers'
    BY <1>1, <1>5 DEF Offered, WithOthers
  <2>2. \A k \in DOMAIN requests' : requests'[k].owner > 0 => requests'[k].owner = requests[k].owner
    BY <1>1, <1>2, <1>3
  <2>3. Asked'
    BY <1>2, <1>5, <2>2 DEF Asked
  <2> QED
    BY <2>1, <2>3
<1> QED
  BY <1>4, <1>5

LEMMA AnsweredApart ==
    ASSUME ServerType, StackInv, Alone, ~overlapped, Offered, Asked, WithOthers,
           NEW i \in DOMAIN requests, Answered(i)
    PROVE  Offered' /\ Asked' /\ WithOthers'
<1>0. /\ requests[i] \in Request
      /\ requests[i].owner \in Nat
      /\ requests[i].step # "users" => requests[i].user \in Users
  BY RequestType DEF StackInv, StackType
<1>1. requests[i].step \in SigningIn => Len(stack) < 2
  BY DEF Alone
<1>2. Drop(i) => \E f \in [DOMAIN requests' -> DOMAIN requests] :
                    \A k \in DOMAIN requests' : requests'[k] = requests[f[k]]
  <2> SUFFICES ASSUME Drop(i)
               PROVE  \E f \in [DOMAIN requests' -> DOMAIN requests] :
                         \A k \in DOMAIN requests' : requests'[k] = requests[f[k]]
    OBVIOUS
  <2>1. PICK f \in [DOMAIN requests' -> DOMAIN requests \ {i}] :
           \A k \in DOMAIN requests' : requests'[k] = requests[f[k]]
    BY DropKeeps DEF StackInv, StackType
  <2>2. f \in [DOMAIN requests' -> DOMAIN requests]
    OBVIOUS
  <2> QED
    BY <2>1, <2>2
<1>3. ASSUME Drop(i), UNCHANGED stack, currentUser' = currentUser \/ Len(stack) < 2
      PROVE  Offered' /\ Asked' /\ WithOthers'
  <2>1. PICK f \in [DOMAIN requests' -> DOMAIN requests] :
           \A k \in DOMAIN requests' : requests'[k] = requests[f[k]]
    BY <1>2, <1>3
  <2>2. Asked'
    BY <1>3, <2>1, RequestsApart
  <2>3. Offered' /\ WithOthers'
    BY <1>3, StackApart
  <2> QED
    BY <2>2, <2>3
<1>4. CASE SignInAnswered(i) \/ ProfileWritten(i)
  <2>1. requests[i].step \in SigningIn /\ Drop(i) /\ PushFor(requests[i], InboxOf(currentUser'))
    BY <1>4 DEF SignInAnswered, ProfileWritten, SigningIn
  <2>2. currentUser' \in Someone
    BY <1>0, <1>4 DEF SignInAnswered, ProfileWritten, ServerType, Someone
  <2>3. InboxOf(currentUser') \in Controller /\ InboxOf(currentUser').kind = "messages"
    BY <2>2 DEF InboxOf, Controller, Inbox
  <2>4. UNCHANGED stack \/ Push(InboxOf(currentUser'))
    BY <2>1 DEF PushFor
  <2>5. CASE Push(InboxOf(currentUser'))
    BY <1>1, <1>2, <2>1, <2>3, <2>5, PushApart
  <2> QED
    BY <1>1, <1>3, <2>1, <2>4, <2>5
<1>5. CASE AccountCreated(i) \/ PictureUploaded(i)
  <2>1. PICK step \in {"upload", "url", "write"} : Continue(i, step)
    BY <1>5 DEF AccountCreated, PictureUploaded
  <2>2. requests[i].step \in SigningIn /\ UNCHANGED stack
    BY <1>5 DEF AccountCreated, PictureUploaded, SigningIn
  <2>3. /\ DOMAIN requests' = DOMAIN requests
        /\ requests'[i].step = step
        /\ \A k \in DOMAIN requests : k # i => requests'[k] = requests[k]
    BY <2>1, ContinueKeeps DEF StackInv, StackType, SigningIn
  <2>4. Asked'
    BY <1>1, <2>2, <2>3, RequestsApart
  <2>5. Offered' /\ WithOthers'
    BY <1>1, <2>2, StackApart
  <2> QED
    BY <2>4, <2>5
<1>6. CASE SigningInFails(i)
  BY <1>3, <1>6 DEF SigningInFails
<1>7. CASE UsersFetched(i)
  <2>1. Drop(i) /\ currentUser' = currentUser
    BY <1>7 DEF UsersFetched
  <2>2. PICK f \in [DOMAIN requests' -> DOMAIN requests] :
           \A k \in DOMAIN requests' : requests'[k] = requests[f[k]]
    BY <1>2, <2>1
  <2>3. Asked'
    BY <2>1, <2>2, RequestsApart
  <2>4. /\ DOMAIN stack' = DOMAIN stack
        /\ \A k \in DOMAIN stack :
              /\ stack'[k].kind = stack[k].kind
              /\ \/ stack'[k] = stack[k]
                 \/ /\ stack[k].kind = "users"
                    /\ stack'[k].users = stack[k].users \cup (profiles \ {currentUser})
    BY <1>7, UsersFetchedKeeps, StackPositions
  <2>5. Offered' /\ WithOthers'
    BY <2>1, <2>4 DEF Offered, WithOthers
  <2> QED
    BY <2>3, <2>5
<1>8. CASE PeerRead(i)
  <2>1. /\ DOMAIN requests' = DOMAIN requests
        /\ requests[i].step = "peer"
        /\ requests'[i].owner = requests[i].owner
        /\ requests'[i].user = requests[i].user
        /\ \A k \in DOMAIN requests : k # i => requests'[k] = requests[k]
        /\ UNCHANGED <<stack, currentUser>>
    BY <1>8, PeerReadKeeps DEF PeerRead
  <2>2. \A k \in DOMAIN requests' : requests'[k].user = requests[k].user
    BY <2>1
  <2>3. Asked'
    BY <2>1, <2>2 DEF Asked
  <2>4. Offered' /\ WithOthers'
    BY <2>1, StackApart
  <2> QED
    BY <2>3, <2>4
<1>9. CASE MineRead(i)
  <2>1. requests[i].step = "mine" /\ Drop(i) /\ currentUser' = currentUser
    BY <1>9 DEF MineRead
  <2>2. PICK c \in Chat : /\ PushFor(requests[i], c)
                          /\ c.me = currentUser /\ c.peer = requests[i].user
    BY <1>9, MineReadPushes
  <2>3. CASE requests[i].owner = 0
    BY <1>3, <2>1, <2>2, <2>3 DEF PushFor
  <2>4. CASE requests[i].owner # 0
    <3>1. Push(c)
      BY <2>2, <2>4 DEF PushFor
    <3>2. c \in Controller /\ c.kind = "chat"
      BY DEF Controller, Chat
    <3>3. requests[i].user # currentUser
      BY <1>0, <2>1, <2>4 DEF Asked
    <3> QED
      BY <1>2, <2>1, <2>2, <3>1, <3>2, <3>3, PushApart
  <2> QED
    BY <2>3, <2>4
<1> QED
  BY <1>4, <1>5, <1>6, <1>7, <1>8, <1>9 DEF Answered

LEMMA ApartInit == SessionInit => Apart
<1> SUFFICES ASSUME SessionInit PROVE Apart
  OBVIOUS
<1>1. DOMAIN requests = {} /\ DOMAIN stack = {}
  BY DEF SessionInit
<1> QED
  BY <1>1 DEF Apart, Offered, Asked, WithOthers

\* A message, once sent, stays.
LEMMA SentStays == [SessionNext]_sessionVars => sentTo \subseteq sentTo'
BY DEF SessionNext, sessionVars, server, OpenForm, LoginButtonClick, RegisterButtonClick, SubmitForm, Back,
       LogoutButtonClick, Crash, ComposeClick, SendMessageClick, SelectMessage, SelectUser,
       OtherPhoneSends, Answered, SignInAnswered, AccountCreated, PictureUploaded,
       ProfileWritten, SigningInFails, UsersFetched, PeerRead, MineRead

\* A row of the inbox is for whom one has messages with, and a row of the list
\* of users for somebody else.
LEMMA SelectApart ==
    ASSUME ServerType, StackInv, Alone, ~overlapped, NothingToOneself, Offered, Asked, WithOthers,
           NEW other \in Users, SelectMessage(other) \/ SelectUser(other)
    PROVE  Offered' /\ Asked' /\ WithOthers'
<1>1. UNCHANGED <<stack, currentUser>>
  BY DEF SelectMessage, SelectUser
<1>2. other # currentUser
  <2>1. CASE SelectMessage(other)
    <3>1. /\ Len(stack) \in DOMAIN stack /\ Last(stack) = stack[Len(stack)]
          /\ stack[Len(stack)].kind = "messages"
      BY <2>1, TopKind DEF SelectMessage, StackInv, StackType
    <3>2. Last(stack).me = currentUser
      BY <3>1 DEF Alone
    <3> QED
      BY <2>1, <3>2 DEF SelectMessage, NothingToOneself
  <2>2. CASE SelectUser(other)
    <3>1. /\ Len(stack) \in DOMAIN stack /\ Last(stack) = stack[Len(stack)]
          /\ stack[Len(stack)].kind = "users"
      BY <2>2, TopKind DEF SelectUser, StackInv, StackType
    <3> QED
      BY <2>2, <3>1 DEF SelectUser, Offered
  <2> QED
    BY <2>1, <2>2
<1>3. Asked'
  <2>1. /\ DOMAIN requests' = DOMAIN requests \cup {Len(requests) + 1}
        /\ \A k \in DOMAIN requests : requests'[k] = requests[k]
        /\ requests'[Len(requests) + 1].user = other
    BY AskedKeeps
  <2> QED
    BY <1>1, <1>2, <2>1 DEF Asked
<1>4. Offered' /\ WithOthers'
  BY <1>1, StackApart
<1> QED
  BY <1>3, <1>4

LEMMA ApartNext == ServerType /\ StackInv /\ Alone /\ Apart /\ [SessionNext]_sessionVars => Apart'
<1> SUFFICES ASSUME ServerType, StackInv, Alone, Apart, [SessionNext]_sessionVars, ~overlapped', NothingToOneself'
             PROVE  Offered' /\ Asked' /\ WithOthers'
  BY DEF Apart
<1>0. NothingToOneself /\ Len(requests) + 1 \notin DOMAIN requests
  BY SentStays DEF NothingToOneself, StackInv, StackType
<1>1. ~overlapped => Offered /\ Asked /\ WithOthers
  BY <1>0 DEF Apart
<1>2. CASE \E kind \in {"login", "register"} : OpenForm(kind)
  <2>1. PICK kind \in {"login", "register"} : Push([kind |-> kind])
    BY <1>2 DEF OpenForm
  <2>2. UNCHANGED <<currentUser, requests, overlapped>>
    BY <1>2 DEF OpenForm
  <2> DEFINE c == [kind |-> kind]
  <2>3. c \in Controller /\ c.kind \notin {"users", "chat"}
    BY DEF Controller, Form
  <2>4. Push(c)
    BY <2>1
  <2> HIDE DEF c
  <2>5. [k \in DOMAIN requests |-> k] \in [DOMAIN requests' -> DOMAIN requests]
    BY <2>2
  <2>6. \A k \in DOMAIN requests' : requests'[k] = requests[[j \in DOMAIN requests |-> j][k]]
    BY <2>2
  <2> QED
    BY <1>1, <2>2, <2>3, <2>4, <2>5, <2>6, PushApart
<1>3. CASE \E u \in Users : LoginButtonClick(u) \/ RegisterButtonClick(u)
  <2>1. PICK u \in Users, kind \in Entrance, step \in {"signIn", "create"} : SubmitForm(kind, step, u)
    BY <1>3 DEF LoginButtonClick, RegisterButtonClick, Entrance
  <2>2. Ask(step, u, Nobody, FALSE) /\ UNCHANGED <<stack, currentUser>> /\ ~overlapped
    BY <2>1 DEF SubmitForm, server
  <2>3. Nobody \in Someone /\ step \in {"signIn", "create", "peer", "mine"}
    BY DEF Someone
  <2>4. /\ DOMAIN requests' = DOMAIN requests \cup {Len(requests) + 1}
        /\ \A k \in DOMAIN requests : requests'[k] = requests[k]
        /\ requests'[Len(requests) + 1].step = step
    BY <2>2, <2>3, AskAdds DEF StackInv, StackType
  <2>5. Asked'
    BY <1>1, <2>2, <2>4 DEF Asked
  <2>6. Offered' /\ WithOthers'
    BY <1>1, <2>2, StackApart
  <2> QED
    BY <2>5, <2>6
<1>4. CASE Back
  <2>1. Len(stack) \in Nat /\ Len(stack) # 0 /\ stack \in Seq(Controller)
    BY <1>4 DEF Back, StackInv, StackType
  <2>2. stack' = Front(stack) /\ requests' = Orphaned(Len(stack) - 1) /\ UNCHANGED <<currentUser, overlapped>>
    BY <1>4 DEF Back
  <2>3. /\ stack' \in Seq(Controller) /\ Len(stack') = Len(stack) - 1
        /\ \A i \in 1 .. Len(stack) - 1 : stack'[i] = stack[i]
    BY <2>1, <2>2, SeqFront
  <2>4. Len(stack) - 1 \in 0 .. Len(stack)
    BY <2>1
  <2> QED
    BY <1>1, <2>2, <2>3, <2>4, PopApart
<1>5. CASE LogoutButtonClick
  <2>1. 0 \in 0 .. Len(stack) /\ \A i \in 1 .. 0 : stack'[i] = stack[i]
    BY StackPositions
  <2>2. stack' \in Seq(Controller) /\ Len(stack') = 0 /\ requests' = Orphaned(0) /\ overlapped' = overlapped
    BY <1>5 DEF LogoutButtonClick
  <2> QED
    BY <1>1, <2>1, <2>2, PopApart
<1>6. CASE Crash
  <2>1. DOMAIN requests' = {} /\ DOMAIN stack' = {}
    BY <1>6 DEF Crash
  <2> QED
    BY <2>1 DEF Offered, Asked, WithOthers
<1>7. CASE ComposeClick
  <2> DEFINE c == [kind |-> "users", users |-> {}]
  <2> DEFINE r == [step |-> "users", user |-> Nobody, me |-> Nobody, theirs |-> FALSE, owner |-> Len(stack')]
  <2>1. Push(c) /\ requests' = Append(requests, r) /\ UNCHANGED <<currentUser, overlapped>>
    BY <1>7 DEF ComposeClick
  <2>2. c \in Controller /\ c.kind = "users" /\ currentUser' \notin c.users /\ r.step = "users"
    BY DEF Controller, People
  <2> HIDE DEF c, r
  <2>3. /\ DOMAIN requests' = DOMAIN requests \cup {Len(requests) + 1}
        /\ \A k \in DOMAIN requests : requests'[k] = requests[k]
        /\ requests'[Len(requests) + 1] = r
    BY <2>1 DEF StackInv, StackType
  <2>4. /\ stack' \in Seq(Controller)
        /\ Len(stack') = Len(stack) + 1
        /\ \A k \in 1 .. Len(stack) : stack'[k] = stack[k]
        /\ stack'[Len(stack) + 1] = c
    BY <2>1, <2>2, SeqPush DEF Push, StackInv, StackType
  <2>5. \A k \in DOMAIN stack' : (k \in DOMAIN stack /\ stack'[k] = stack[k]) \/ stack'[k] = c
    BY <2>4, StackPositions
  <2>6. Offered' /\ WithOthers'
    BY <1>1, <2>1, <2>2, <2>5, StackApart
  <2>7. Asked'
    BY <1>1, <2>1, <2>2, <2>3 DEF Asked
  <2> QED
    BY <2>6, <2>7
<1>8. CASE SendMessageClick \/ \E from, to \in Users : OtherPhoneSends(from, to)
  <2>1. UNCHANGED <<stack, requests, currentUser, overlapped>>
    BY <1>8 DEF SendMessageClick, OtherPhoneSends
  <2> QED
    BY <1>1, <2>1 DEF Offered, Asked, WithOthers
<1>9. CASE \E other \in Users : SelectMessage(other) \/ SelectUser(other)
  <2>1. ~overlapped
    BY <1>9 DEF SelectMessage, SelectUser
  <2> QED
    BY <1>0, <1>1, <1>9, <2>1, SelectApart
<1>10. CASE \E i \in DOMAIN requests : Answered(i)
  <2>1. ~overlapped
    BY <1>10 DEF Answered, SignInAnswered, AccountCreated, PictureUploaded, ProfileWritten,
                 SigningInFails, UsersFetched, PeerRead, MineRead
  <2> QED
    BY <1>1, <1>10, <2>1, AnsweredApart
<1>11. CASE UNCHANGED sessionVars
  BY <1>1, <1>11 DEF sessionVars, Offered, Asked, WithOthers
<1> QED
  BY <1>2, <1>3, <1>4, <1>5, <1>6, <1>7, <1>8, <1>9, <1>10, <1>11 DEF SessionNext

\* A chat is with somebody else, however late the list of users arrived
\* (fetchUsers leaves out who is signed in when it is answered, and nobody else
\* can have signed in before a row of it is selected), as long as two sign-ins
\* were never under way at once and nobody has a message from themselves.
THEOREM NoSelfChatAlways == SessionSpec => []NoSelfChat
<1>1. SessionSpec => []Apart
  BY ApartInit, ApartNext, StackAlways, AloneAlways, PTL DEF SessionSpec
<1>2. Apart => NoSelfChat
  BY DEF Apart, WithOthers, NothingToOneself, NoSelfChat, Range
<1> QED
  BY <1>1, <1>2, PTL
-----------------------------------------------------------------------------
(***************************************************************************)
(* Whoever registers can be found once inside.                             *)
(***************************************************************************)
\* Nothing new is signing in, and what is keeps its user, and its form if that
\* is still there.
LEMMA KeptRegistering ==
    ASSUME StackInv, Registering, accounts \subseteq accounts', overlapped' = overlapped,
           \A k \in DOMAIN requests' : requests'[k].step \in SigningIn =>
              /\ \E j \in DOMAIN requests :
                    /\ requests[j].step = requests'[k].step
                    /\ requests[j].user = requests'[k].user
                    /\ \/ requests'[k].owner = 0
                       \/ /\ requests[j].owner = requests'[k].owner
                          /\ stack'[requests[j].owner].kind = stack[requests[j].owner].kind
              /\ overlapped \/ requests'[k].owner = 0 \/ currentUser' = currentUser
    PROVE  Registering'
<1> SUFFICES ASSUME NEW k \in DOMAIN requests', requests'[k].step \in SigningIn
             PROVE  /\ requests'[k].owner > 0 /\ requests'[k].step = "signIn" =>
                          stack'[requests'[k].owner].kind = "login"
                    /\ requests'[k].step \in Registration => requests'[k].user \in accounts'
                    /\ ~overlapped' => (requests'[k].owner > 0 /\ requests'[k].step \in Registration
                          => requests'[k].user = currentUser')
  <2>1. \A step : step \in Registration \/ step = "signIn" => step \in SigningIn
    BY DEF Registration, SigningIn
  <2> QED
    BY <2>1 DEF Registering
<1>1. PICK j \in DOMAIN requests :
         /\ requests[j].step = requests'[k].step
         /\ requests[j].user = requests'[k].user
         /\ \/ requests'[k].owner = 0
            \/ /\ requests[j].owner = requests'[k].owner
               /\ stack'[requests[j].owner].kind = stack[requests[j].owner].kind
  OBVIOUS
<1>2. overlapped \/ requests'[k].owner = 0 \/ currentUser' = currentUser
  OBVIOUS
<1> QED
  BY <1>1, <1>2 DEF Registering

\* Requests go away, and at most one controller comes on top.
LEMMA FewerRegistering ==
    ASSUME StackInv, Registering, accounts \subseteq accounts', overlapped' = overlapped,
           NEW f \in [DOMAIN requests' -> DOMAIN requests],
           \A k \in DOMAIN requests' : requests'[k] = requests[f[k]],
           UNCHANGED stack \/ \E c \in Controller : Push(c),
           \/ overlapped \/ currentUser' = currentUser
           \/ \A k \in DOMAIN requests' : requests'[k].step \notin SigningIn
    PROVE  Registering'
<1>1. \A i \in DOMAIN stack : stack'[i] = stack[i]
  BY SeqPush, StackPositions, SMTT(30) DEF Push, StackInv, StackType
<1>2. \A k \in DOMAIN requests : requests[k].owner = 0 \/ requests[k].owner \in DOMAIN stack
  BY RequestType, StackPositions DEF StackInv
<1>3. ASSUME NEW k \in DOMAIN requests'
      PROVE  /\ requests'[k] = requests[f[k]] /\ f[k] \in DOMAIN requests
             /\ \/ requests'[k].owner = 0
                \/ stack'[requests[f[k]].owner].kind = stack[requests[f[k]].owner].kind
  BY <1>1, <1>2
<1> QED
  BY <1>3, KeptRegistering

\* A request joins that is not signing in, or is its first step.
LEMMA AskedRegistering ==
    ASSUME StackInv, Registering, accounts \subseteq accounts', ~overlapped' => ~overlapped,
           currentUser' = currentUser, NEW n,
           DOMAIN requests' = DOMAIN requests \cup {n},
           \A k \in DOMAIN requests : requests'[k] = requests[k],
           requests'[n].step \notin Registration,
           requests'[n].step = "signIn" => stack'[requests'[n].owner].kind = "login",
           \A i \in DOMAIN stack : stack'[i] = stack[i]
    PROVE  Registering'
<1>1. \A k \in DOMAIN requests : ~(requests[k].owner > 0) \/ requests[k].owner \in DOMAIN stack
  BY RequestType, StackPositions DEF StackInv
<1> QED
  BY <1>1 DEF Registering

LEMMA PopRegistering ==
    ASSUME StackInv, Registering, accounts' = accounts, overlapped' = overlapped,
           NEW depth \in 0 .. Len(stack),
           \A i \in 1 .. depth : stack'[i] = stack[i],
           requests' = Orphaned(depth),
           depth = 0 \/ currentUser' = currentUser
    PROVE  Registering'
<1>1. Len(stack) \in Nat /\ depth \in Nat
  BY StackPositions
<1>2. /\ DOMAIN requests' = DOMAIN requests
      /\ \A k \in DOMAIN requests :
            /\ requests'[k].step = requests[k].step
            /\ requests'[k].user = requests[k].user
            /\ requests'[k].owner = IF requests[k].owner > depth THEN 0 ELSE requests[k].owner
  BY <1>1, OrphanedKeeps DEF StackInv, StackType
<1>3. ASSUME NEW k \in DOMAIN requests'
      PROVE  \/ requests'[k].owner = 0
             \/ /\ requests[k].owner = requests'[k].owner
                /\ stack'[requests[k].owner].kind = stack[requests[k].owner].kind
                /\ currentUser' = currentUser
  <2>1. requests[k].owner \in Nat
    BY <1>2, RequestType DEF StackInv
  <2> QED
    BY <1>1, <1>2, <2>1
<1> QED
  BY <1>2, <1>3, KeptRegistering

LEMMA AnsweredRegistering ==
    ASSUME ServerType, StackInv, Alone, Registering, NEW i \in DOMAIN requests, Answered(i)
    PROVE  Registering'
<1>0. /\ requests[i] \in Request
      /\ \A j \in DOMAIN requests :
            ~overlapped /\ requests[i].step \in SigningIn /\ requests[j].step \in SigningIn => i = j
  BY DEF Alone, AtMostOneSignsIn, StackInv, StackType
<1>1. Drop(i) => \E f \in [DOMAIN requests' -> DOMAIN requests \ {i}] :
                    \A k \in DOMAIN requests' : requests'[k] = requests[f[k]]
  BY DropKeeps DEF StackInv, StackType
<1>2. \A k \in DOMAIN requests : requests[k].owner = 0 \/ requests[k].owner \in DOMAIN stack
  BY RequestType, StackPositions DEF StackInv
<1>3. ASSUME Drop(i), UNCHANGED stack \/ (\E c \in Controller : Push(c)),
             accounts \subseteq accounts', overlapped' = overlapped,
             currentUser' = currentUser \/ requests[i].step \in SigningIn
      PROVE  Registering'
  <2>1. PICK f \in [DOMAIN requests' -> DOMAIN requests \ {i}] :
           \A k \in DOMAIN requests' : requests'[k] = requests[f[k]]
    BY <1>1, <1>3
  <2>2. f \in [DOMAIN requests' -> DOMAIN requests]
    OBVIOUS
  <2>3. \/ overlapped \/ currentUser' = currentUser
        \/ \A k \in DOMAIN requests' : requests'[k].step \notin SigningIn
    BY <1>0, <1>3, <2>1
  <2> QED
    BY <1>3, <2>1, <2>2, <2>3, FewerRegistering
<1>4. CASE SignInAnswered(i) \/ ProfileWritten(i)
  <2>1. /\ requests[i].step \in SigningIn /\ Drop(i) /\ PushFor(requests[i], InboxOf(currentUser'))
        /\ accounts' = accounts /\ overlapped' = overlapped
    BY <1>4 DEF SignInAnswered, ProfileWritten, SigningIn, server
  <2>2. currentUser' \in Someone
    BY <1>0, <1>4 DEF SignInAnswered, ProfileWritten, ServerType, Someone, Request
  <2>3. InboxOf(currentUser') \in Controller
    BY <2>2 DEF InboxOf, Controller, Inbox
  <2>4. UNCHANGED stack \/ Push(InboxOf(currentUser'))
    BY <2>1 DEF PushFor
  <2> QED
    BY <1>3, <2>1, <2>3, <2>4
<1>5. CASE AccountCreated(i) \/ PictureUploaded(i)
  <2>1. PICK step \in Registration : Continue(i, step)
    BY <1>5 DEF AccountCreated, PictureUploaded, Registration
  <2>2. /\ DOMAIN requests' = DOMAIN requests
        /\ requests'[i].step = step
        /\ requests'[i].user = requests[i].user
        /\ requests'[i].owner = requests[i].owner
        /\ \A k \in DOMAIN requests : k # i => requests'[k] = requests[k]
    BY <2>1, ContinueKeeps DEF StackInv, StackType, SigningIn, Registration
  <2>3. /\ requests[i].step \in SigningIn /\ UNCHANGED <<stack, overlapped>>
        /\ accounts \subseteq accounts' /\ requests[i].user \in accounts'
        /\ requests[i].owner > 0 => overlapped \/ requests[i].user = currentUser'
        /\ currentUser' = currentUser \/ currentUser' = requests[i].user
    BY <1>5 DEF AccountCreated, PictureUploaded, SigningIn, Registering, Registration, server
  <2>4. \A k \in DOMAIN requests : k = i \/ overlapped \/ requests[k].step \notin Registration
    BY <1>0, <2>3 DEF Registration, SigningIn
  <2>5. "signIn" \notin Registration
    BY DEF Registration
  <2> QED
    BY <2>1, <2>2, <2>3, <2>4, <2>5 DEF Registering
<1>6. CASE SigningInFails(i)
  <2>1. accounts \subseteq accounts'
    BY <1>6 DEF SigningInFails
  <2> QED
    BY <1>3, <1>6, <2>1 DEF SigningInFails
<1>7. CASE UsersFetched(i)
  <2>1. Drop(i) /\ UNCHANGED <<accounts, currentUser, overlapped>>
    BY <1>7 DEF UsersFetched, server
  <2>2. PICK f \in [DOMAIN requests' -> DOMAIN requests \ {i}] :
           \A k \in DOMAIN requests' : requests'[k] = requests[f[k]]
    BY <1>1, <2>1
  <2>3. \A k \in DOMAIN stack : stack'[k].kind = stack[k].kind
    BY <1>7, UsersFetchedKeeps
  <2>4. \A k \in DOMAIN requests' :
           /\ requests'[k] = requests[f[k]] /\ f[k] \in DOMAIN requests
           /\ \/ requests'[k].owner = 0
              \/ stack'[requests[f[k]].owner].kind = stack[requests[f[k]].owner].kind
    BY <1>2, <2>2, <2>3
  <2> QED
    BY <2>1, <2>4, KeptRegistering
<1>8. CASE PeerRead(i)
  <2>1. /\ DOMAIN requests' = DOMAIN requests /\ requests'[i].step = "mine"
        /\ \A k \in DOMAIN requests : k # i => requests'[k] = requests[k]
        /\ UNCHANGED <<accounts, stack, currentUser, overlapped>>
    BY <1>8, PeerReadKeeps DEF PeerRead, server
  <2>2. "mine" \notin SigningIn
    BY DEF SigningIn
  <2> QED
    BY <2>1, <2>2, KeptRegistering
<1>9. CASE MineRead(i)
  <2>1. Drop(i) /\ UNCHANGED <<accounts, currentUser, overlapped>>
    BY <1>9 DEF MineRead, server
  <2>2. UNCHANGED stack \/ \E c \in Chat : Push(c)
    BY <1>9, MineReadPushes DEF PushFor
  <2> QED
    BY <1>3, <2>1, <2>2 DEF Controller
<1> QED
  BY <1>4, <1>5, <1>6, <1>7, <1>8, <1>9 DEF Answered

LEMMA RegisteringInit == SessionInit => Registering
<1> SUFFICES ASSUME SessionInit PROVE Registering
  OBVIOUS
<1>1. DOMAIN requests = {}
  BY DEF SessionInit
<1> QED
  BY <1>1 DEF Registering

LEMMA RegisteringNext == ServerType /\ StackInv /\ Alone /\ Registering /\ [SessionNext]_sessionVars => Registering'
<1> SUFFICES ASSUME ServerType, StackInv, Alone, Registering, [SessionNext]_sessionVars
             PROVE  Registering'
  OBVIOUS
<1>1. CASE \E kind \in {"login", "register"} : OpenForm(kind)
  <2>1. PICK kind \in {"login", "register"} : Push([kind |-> kind])
    BY <1>1 DEF OpenForm
  <2>2. UNCHANGED <<accounts, currentUser, requests, overlapped>> /\ stack = <<>>
    BY <1>1 DEF OpenForm, server
  <2>3. \A k \in DOMAIN requests : requests[k].owner = 0
    BY <2>2, RequestType DEF StackInv
  <2> QED
    BY <2>2, <2>3, KeptRegistering
<1>2. CASE \E u \in Users : LoginButtonClick(u) \/ RegisterButtonClick(u)
  <2>1. PICK u \in Users, kind \in Entrance, step \in {"signIn", "create"} :
           SubmitForm(kind, step, u) /\ (step = "signIn" => kind = "login")
    BY <1>2 DEF LoginButtonClick, RegisterButtonClick, Entrance
  <2>2. /\ Ask(step, u, Nobody, FALSE) /\ UNCHANGED <<accounts, stack, currentUser>>
        /\ ~overlapped' => ~overlapped
        /\ OnTop(kind)
    BY <2>1 DEF SubmitForm, server
  <2>3. Nobody \in Someone /\ step \in {"signIn", "create", "peer", "mine"} /\ step \notin Registration
    BY DEF Someone, Registration
  <2>4. /\ DOMAIN requests' = DOMAIN requests \cup {Len(requests) + 1}
        /\ \A k \in DOMAIN requests : requests'[k] = requests[k]
        /\ requests'[Len(requests) + 1].step = step
        /\ requests'[Len(requests) + 1].owner = Len(stack)
    BY <2>2, <2>3, AskAdds DEF StackInv, StackType
  <2>5. stack[Len(stack)].kind = kind
    BY <2>2, TopKind DEF StackInv, StackType
  <2> QED
    BY <2>1, <2>2, <2>3, <2>4, <2>5, AskedRegistering
<1>3. CASE Back
  <2>1. Len(stack) \in Nat /\ Len(stack) # 0 /\ stack \in Seq(Controller)
    BY <1>3 DEF Back, StackInv, StackType
  <2>2. /\ stack' = Front(stack) /\ requests' = Orphaned(Len(stack) - 1)
        /\ UNCHANGED <<accounts, currentUser, overlapped>>
    BY <1>3 DEF Back, server
  <2>3. \A i \in 1 .. Len(stack) - 1 : stack'[i] = stack[i]
    BY <2>1, <2>2, SeqFront
  <2>4. Len(stack) - 1 \in 0 .. Len(stack)
    BY <2>1
  <2> QED
    BY <2>2, <2>3, <2>4, PopRegistering
<1>4. CASE LogoutButtonClick
  <2>1. 0 \in 0 .. Len(stack) /\ \A i \in 1 .. 0 : stack'[i] = stack[i]
    BY StackPositions
  <2>2. requests' = Orphaned(0) /\ UNCHANGED <<accounts, overlapped>>
    BY <1>4 DEF LogoutButtonClick, server
  <2> QED
    BY <2>1, <2>2, PopRegistering
<1>5. CASE Crash
  <2>1. DOMAIN requests' = {}
    BY <1>5 DEF Crash
  <2> QED
    BY <2>1 DEF Registering
<1>6. CASE ComposeClick
  <2> DEFINE c == [kind |-> "users", users |-> {}]
  <2> DEFINE r == [step |-> "users", user |-> Nobody, me |-> Nobody, theirs |-> FALSE, owner |-> Len(stack')]
  <2>1. Push(c) /\ requests' = Append(requests, r) /\ UNCHANGED <<accounts, currentUser, overlapped>>
    BY <1>6 DEF ComposeClick, server
  <2>2. c \in Controller /\ r.step \notin Registration /\ r.step # "signIn"
    BY DEF Controller, People, Registration
  <2> HIDE DEF c, r
  <2>3. /\ DOMAIN requests' = DOMAIN requests \cup {Len(requests) + 1}
        /\ \A k \in DOMAIN requests : requests'[k] = requests[k]
        /\ requests'[Len(requests) + 1] = r
    BY <2>1 DEF StackInv, StackType
  <2>4. \A i \in DOMAIN stack : stack'[i] = stack[i]
    BY <2>1, <2>2, SeqPush, StackPositions DEF Push, StackInv, StackType
  <2> QED
    BY <2>1, <2>2, <2>3, <2>4, AskedRegistering
<1>7. CASE SendMessageClick \/ \E from, to \in Users : OtherPhoneSends(from, to)
  BY <1>7 DEF SendMessageClick, OtherPhoneSends, Registering
<1>8. CASE \E other \in Users : SelectMessage(other) \/ SelectUser(other)
  <2>1. PICK other \in Users : SelectMessage(other) \/ SelectUser(other)
    BY <1>8
  <2>2. UNCHANGED <<accounts, stack, currentUser, overlapped>>
    BY <2>1 DEF SelectMessage, SelectUser, server
  <2>3. /\ DOMAIN requests' = DOMAIN requests \cup {Len(requests) + 1}
        /\ \A k \in DOMAIN requests : requests'[k] = requests[k]
        /\ requests'[Len(requests) + 1].step \in {"peer", "mine"}
    BY <2>1, AskedKeeps
  <2>4. requests'[Len(requests) + 1].step \notin Registration \cup {"signIn"}
    BY <2>3 DEF Registration
  <2> QED
    BY <2>2, <2>3, <2>4, AskedRegistering
<1>9. CASE \E i \in DOMAIN requests : Answered(i)
  BY <1>9, AnsweredRegistering
<1>10. CASE UNCHANGED sessionVars
  BY <1>10 DEF sessionVars, Registering
<1> QED
  BY <1>1, <1>2, <1>3, <1>4, <1>5, <1>6, <1>7, <1>8, <1>9, <1>10 DEF SessionNext

\* What comes last on a stack that grew.
LEMMA PushedLast ==
    ASSUME StackInv, NEW c \in Controller, Push(c)
    PROVE  Last(stack') = c
<1>1. /\ Len(stack') = Len(stack) + 1
      /\ stack'[Len(stack) + 1] = c
  BY SeqPush DEF Push, StackInv, StackType
<1> QED
  BY <1>1 DEF Last

\* A step that opens the inbox over the form for registering.
LEMMA FindableStep ==
    ASSUME ServerType, StackInv, Registering, [SessionNext]_sessionVars, NEW u \in Users,
           stack # <<>>, Head(stack).kind = "register", ~overlapped,
           Len(stack') > Len(stack), Last(stack') = InboxOf(u)
    PROVE  u \in accounts' \cap profiles'
<1>0. /\ Len(stack) \in Nat /\ Last(stack').kind = "messages" /\ Last(stack').me = u
      /\ stack' # stack
  BY StackPositions DEF InboxOf
<1>1. \A c \in Controller : Push(c) => c = InboxOf(u)
  BY PushedLast
<1>2. ~ComposeClick
  <2> DEFINE c == [kind |-> "users", users |-> {}]
  <2>1. c \in Controller /\ c.kind # "messages"
    BY DEF Controller, People
  <2> HIDE DEF c
  <2>2. ~Push(c)
    BY <1>0, <2>1, PushedLast
  <2> QED
    BY <2>2 DEF ComposeClick, c
<1>3. ~Back
  <2> SUFFICES ASSUME Back PROVE FALSE
    OBVIOUS
  <2>1. Len(stack') = Len(stack) - 1
    BY <1>0, SeqFront DEF Back, StackInv, StackType
  <2> QED
    BY <1>0, <2>1
<1>4. ~LogoutButtonClick /\ ~Crash
  BY <1>0 DEF LogoutButtonClick, Crash
<1>5. PICK i \in DOMAIN requests : Answered(i)
  BY <1>0, <1>2, <1>3, <1>4 DEF SessionNext, sessionVars, OpenForm, LoginButtonClick, RegisterButtonClick, SubmitForm,
                                SendMessageClick, OtherPhoneSends, SelectMessage, SelectUser
<1>6. /\ requests[i] \in Request /\ requests[i].owner \in Nat
      /\ requests[i].owner = 0 \/ requests[i].owner \in DOMAIN stack
  BY RequestType, StackPositions DEF StackInv
<1>7. CASE SignInAnswered(i)
  <2>1. requests[i].step = "signIn" /\ requests[i].owner # 0
    BY <1>0, <1>7 DEF SignInAnswered, PushFor
  <2>2. stack[requests[i].owner].kind = "login"
    BY <1>6, <2>1 DEF Registering
  <2>3. requests[i].owner = 1
    BY <1>6, <2>1, <2>2 DEF StackInv, Shape, Entrance
  <2> QED
    BY <2>2, <2>3
<1>8. CASE ProfileWritten(i)
  <2>1. /\ requests[i].step \in Registration /\ requests[i].owner # 0 /\ Push(InboxOf(currentUser))
        /\ profiles' = profiles \cup {requests[i].user} /\ accounts' = accounts
    BY <1>0, <1>8 DEF ProfileWritten, PushFor, Registration
  <2>2. requests[i].user = currentUser /\ requests[i].user \in accounts
    BY <1>6, <2>1 DEF Registering
  <2>3. InboxOf(currentUser) \in Controller /\ InboxOf(currentUser).me = currentUser
    BY DEF InboxOf, Controller, Inbox, ServerType
  <2>4. currentUser = u
    BY <1>0, <2>1, <2>3, PushedLast
  <2> QED
    BY <2>1, <2>2, <2>4
<1>9. CASE UsersFetched(i)
  BY <1>0, <1>9, UsersFetchedKeeps
<1>10. CASE MineRead(i)
  <2>1. PICK c \in Chat : PushFor(requests[i], c)
    BY <1>10, MineReadPushes
  <2>2. c \in Controller /\ c.kind = "chat"
    BY DEF Controller, Chat
  <2> QED
    BY <1>0, <2>1, <2>2, PushedLast DEF PushFor
<1> QED
  BY <1>0, <1>5, <1>7, <1>8, <1>9, <1>10 DEF Answered, AccountCreated, PictureUploaded, SigningInFails, PeerRead

\* A registration opens the inbox (registerButtonClick pushes it when setData
\* has answered) only once the account and the document that others find the
\* user by exist, unless two sign-ins were under way at once.
THEOREM FindableOnceInsideAlways == SessionSpec => FindableOnceInside
<1>1. SessionSpec => []Registering
  BY RegisteringInit, RegisteringNext, StackAlways, AloneAlways, PTL DEF SessionSpec
<1> DEFINE Findable ==
       \A u \in Users : stack # <<>> /\ Head(stack).kind = "register" /\ ~overlapped
          /\ Len(stack') > Len(stack) /\ Last(stack') = InboxOf(u)
             => u \in accounts' \cap profiles'
<1>2. ServerType /\ StackInv /\ Registering /\ [SessionNext]_sessionVars => [Findable]_sessionVars
  BY FindableStep
<1>3. FindableOnceInside <=> [][Findable]_sessionVars
  BY PTL DEF FindableOnceInside
<1> QED
  BY <1>1, <1>2, <1>3, StackAlways, PTL DEF SessionSpec
=============================================================================
