------------------------------ MODULE ListFacts ------------------------------
(***************************************************************************)
(* Facts about bounded sets of numbers, and about lists: sorted, filtered   *)
(* and folded.                                                             *)
(***************************************************************************)
EXTENDS Lists, SequencesExt, FiniteSetTheorems, FunctionTheorems, SequenceTheorems,
        WellFoundedInduction, TLAPS

\* What lists are folded with: any operator.  A module that folds instantiates this
\* one with an operator of its own.
CONSTANT op(_, _)

-----------------------------------------------------------------------------
(* Bounded sets of numbers. *)

\* A bounded set of numbers has a greatest; an infinite chain of ever smaller
\* sets of greater numbers would be needed to refute it.
LEMMA GreatestExists ==
    ASSUME NEW T, NEW n \in Nat, T \subseteq 0 .. n, T # {}
    PROVE  \E x \in T : \A y \in T : x >= y
<1> DEFINE Above(x) == {y \in T : y > x}
           F == {Above(x) : x \in T}
           R == StrictSubsetOrdering(T)
<1>1. IsFiniteSet(T)
  <2>1. IsFiniteSet(0 .. n)
    BY FS_Interval
  <2> QED
    BY <2>1, FS_Subset
<1>2. IsWellFoundedOn(R, SUBSET T)
  <2>1. FiniteSubsetsOf(T) = SUBSET T
    BY <1>1, FS_FiniteSubsetsOfFinite
  <2>2. IsWellFoundedOn(R, FiniteSubsetsOf(T))
    BY FS_StrictSubsetOrderingWellFounded
  <2> QED
    BY <2>1, <2>2
<1>3. F \subseteq SUBSET T /\ F # {}
  OBVIOUS
<1>4. PICK U \in F : \A V \in F : ~ (<<V, U>> \in R)
  <2> HIDE DEF F, R
  <2> QED
    BY <1>2, <1>3, WFMin
<1>5. PICK x \in T : U = Above(x)
  OBVIOUS
<1>6. ASSUME NEW y \in T, y > x
      PROVE  FALSE
  <2>1. y \in Above(x) /\ y \notin Above(y) /\ Above(y) \subseteq Above(x)
    <3>1. y \in Above(x) /\ y \notin Above(y)
      BY <1>6
    <3>2. \A z \in Above(y) : z \in Above(x)
      BY <1>6
    <3> QED
      BY <3>1, <3>2
  <2>2. Above(y) \in SUBSET T /\ Above(x) \in SUBSET T /\ Above(y) # Above(x)
    BY <2>1
  <2>3. <<Above(y), Above(x)>> \in R
    <3> HIDE DEF Above
    <3> QED
      BY <2>1, <2>2 DEF StrictSubsetOrdering
  <2> QED
    BY <2>3, <1>5, <1>4
<1>7. \A y \in T : ~(y > x) /\ x \in Int /\ y \in Int
  BY <1>6
<1> QED
  BY <1>7

\* What holds of 0, and of k + 1 when it holds of k, holds up to n.
LEMMA Counting ==
    ASSUME NEW n \in Nat, NEW T, 0 \in T,
           \A k \in 0 .. (n - 1) : k \in T => k + 1 \in T
    PROVE  \A k \in 0 .. n : k \in T
<1> DEFINE Q == {k \in 0 .. n : \A j \in 0 .. k : j \in T}
<1>1. 0 \in Q
  OBVIOUS
<1>2. PICK x \in Q : \A y \in Q : x >= y
  <2> HIDE DEF Q
  <2>1. Q \subseteq 0 .. n
    BY DEF Q
  <2> QED
    BY <1>1, <2>1, GreatestExists
<1>3. ASSUME x # n
      PROVE  FALSE
  <2>1. x \in 0 .. (n - 1) /\ x \in T
    BY <1>3
  <2>2. x + 1 \in T
    BY <2>1
  <2>3. x + 1 \in Q
    BY <2>1, <2>2
  <2> QED
    BY <2>3, <2>1, <1>2
<1> QED
  BY <1>3

-----------------------------------------------------------------------------
(* Sorting. *)

Increasing(f, m) == \A i, j \in 1 .. m : i < j => f[i] < f[j]

LEMMA RankIs ==
    ASSUME NEW S \in SUBSET Int, IsFiniteSet(S), NEW i \in S
    PROVE  /\ Rank(i, S) \in 1 .. Cardinality(S)
           /\ \A k \in S : i < k => Rank(i, S) < Rank(k, S)
<1>1. Cardinality(S) \in Nat
  BY FS_CardinalityType
<1>2. \A k \in S : /\ IsFiniteSet({j \in S : j <= k})
                   /\ Rank(k, S) \in Nat
                   /\ Rank(k, S) <= Cardinality(S)
  <2> TAKE k \in S
  <2>1. {j \in S : j <= k} \in SUBSET S
    OBVIOUS
  <2> QED
    BY <2>1, FS_Subset, FS_CardinalityType DEF Rank
<1>3. Rank(i, S) # 0
  <2>1. i \in {j \in S : j <= i}
    OBVIOUS
  <2> QED
    BY <1>2, <2>1, FS_EmptySet DEF Rank
<1>4. ASSUME NEW k \in S, i < k
      PROVE  Rank(i, S) < Rank(k, S)
  <2> DEFINE A == {j \in S : j <= i}
             B == {j \in S : j <= k}
  <2>1. A \in SUBSET B /\ k \in B /\ k \notin A
    <3>1. i \in Int /\ k \in Int
      OBVIOUS
    <3>2. \A j \in A : j \in B
      BY <1>4, <3>1
    <3>3. k \in B /\ k \notin A
      BY <1>4, <3>1
    <3> QED
      BY <3>2, <3>3
  <2>2. IsFiniteSet(B)
    BY <1>2
  <2>3. Cardinality(A) <= Cardinality(B) /\ Cardinality(A) # Cardinality(B)
    <3> HIDE DEF A, B
    <3> QED
      BY <2>1, <2>2, FS_Subset
  <2> QED
    BY <2>3, <1>2 DEF Rank
<1>5. Rank(i, S) \in Nat /\ Rank(i, S) <= Cardinality(S)
  BY <1>2
<1>6. Rank(i, S) \in 1 .. Cardinality(S)
  BY <1>1, <1>3, <1>5
<1> QED
  BY <1>4, <1>6

\* Every place up to the number of elements is some element's.
LEMMA RankReaches ==
    ASSUME NEW S \in SUBSET Int, IsFiniteSet(S), NEW n \in 1 .. Cardinality(S)
    PROVE  \E i \in S : Rank(i, S) = n
<1> DEFINE N == Cardinality(S)
           r == [i \in S |-> Rank(i, S)]
<1>1. N \in Nat /\ Cardinality(1 .. N) = N /\ IsFiniteSet(1 .. N)
  BY FS_CardinalityType, FS_Interval
<1>2. r \in [S -> 1 .. N]
  BY RankIs
<1>3. \A i, k \in S : r[i] = r[k] => i = k
  <2> SUFFICES ASSUME NEW i \in S, NEW k \in S, r[i] = r[k], i # k
               PROVE  FALSE
    OBVIOUS
  <2>1. i < k \/ k < i
    OBVIOUS
  <2>2. Rank(i, S) \in Int /\ Rank(k, S) \in Int
    BY RankIs
  <2>3. i < k => Rank(i, S) < Rank(k, S)
    BY RankIs
  <2>4. k < i => Rank(k, S) < Rank(i, S)
    BY RankIs
  <2> QED
    BY <2>1, <2>2, <2>3, <2>4
<1>4. r \in Injection(S, 1 .. N)
  BY <1>2, <1>3 DEF Injection, IsInjective
<1>5. r \in Surjection(S, 1 .. N)
  <2> HIDE DEF r
  <2> QED
    BY <1>1, <1>4, FS_Injection
<1> QED
  BY <1>5 DEF Surjection

\* Ascending lists every number once, the smallest first.
LEMMA AscendingIs ==
    ASSUME NEW S \in SUBSET Int, IsFiniteSet(S)
    PROVE  /\ Cardinality(S) \in Nat
           /\ Ascending(S) \in [1 .. Cardinality(S) -> S]
           /\ Increasing(Ascending(S), Cardinality(S))
           /\ \A i \in S : \E n \in 1 .. Cardinality(S) : Ascending(S)[n] = i
<1>1. Cardinality(S) \in Nat
  BY FS_CardinalityType
<1>2. \A n \in 1 .. Cardinality(S) :
          Ascending(S)[n] \in S /\ Rank(Ascending(S)[n], S) = n
  BY RankReaches DEF Ascending
<1>3. Ascending(S) \in [1 .. Cardinality(S) -> S]
  BY <1>2 DEF Ascending
<1>4. ASSUME NEW i \in S, NEW k \in S, Rank(i, S) = Rank(k, S)
      PROVE  i = k
  <2>1. Rank(i, S) \in Int /\ i \in Int /\ k \in Int
    BY RankIs
  <2>2. ~(i < k) /\ ~(k < i)
    BY <1>4, <2>1, RankIs
  <2> QED
    BY <2>1, <2>2
<1>5. Increasing(Ascending(S), Cardinality(S))
  <2> SUFFICES ASSUME NEW m \in 1 .. Cardinality(S), NEW n \in 1 .. Cardinality(S), m < n,
                      ~(Ascending(S)[m] < Ascending(S)[n])
               PROVE  FALSE
    BY DEF Increasing
  <2> DEFINE i == Ascending(S)[m]
             k == Ascending(S)[n]
  <2>1. i \in S /\ k \in S /\ Rank(i, S) = m /\ Rank(k, S) = n
    BY <1>2
  <2>2. k < i \/ k = i
    <3>1. i \in Int /\ k \in Int /\ ~(i < k)
      BY <2>1
    <3> HIDE DEF i, k
    <3> QED
      BY <3>1
  <2>3. k < i => Rank(k, S) < Rank(i, S)
    <3> HIDE DEF i, k
    <3> QED
      BY <2>1, RankIs
  <2> HIDE DEF i, k
  <2> QED
    BY <2>1, <2>2, <2>3
<1>6. ASSUME NEW i \in S
      PROVE  \E n \in 1 .. Cardinality(S) : Ascending(S)[n] = i
  <2>1. Rank(i, S) \in 1 .. Cardinality(S)
    BY RankIs
  <2> QED
    BY <2>1, <1>2, <1>4
<1> QED
  BY <1>1, <1>3, <1>5, <1>6

\* A list of numbers that grows is the sorted list of what it holds.
LEMMA AscendingUnique ==
    ASSUME NEW m \in Nat, NEW S \in SUBSET Int, NEW f \in [1 .. m -> S],
           Increasing(f, m), \A i \in S : \E n \in 1 .. m : f[n] = i
    PROVE  /\ IsFiniteSet(S)
           /\ Cardinality(S) = m
           /\ Ascending(S) = f
<1>1. \A i, j \in 1 .. m : f[i] = f[j] => i = j
  <2> SUFFICES ASSUME NEW i \in 1 .. m, NEW j \in 1 .. m, f[i] = f[j], i < j \/ j < i
               PROVE  FALSE
    OBVIOUS
  <2>1. f[i] \in Int /\ f[j] \in Int
    OBVIOUS
  <2> QED
    BY <2>1 DEF Increasing
<1>2. f \in Bijection(1 .. m, S)
  BY <1>1 DEF Bijection, Injection, IsInjective, Surjection
<1>3. ExistsBijection(1 .. m, S)
  BY <1>2 DEF ExistsBijection
<1>4. IsFiniteSet(S) /\ Cardinality(S) = m
  BY <1>3, FS_NatBijection, FS_CountingElements
<1>5. ASSUME NEW n \in 1 .. m
      PROVE  Rank(f[n], S) = n
  <2> DEFINE T == {j \in S : j <= f[n]}
             g == [k \in 1 .. n |-> f[k]]
  <2>1. \A k \in 1 .. m : f[k] <= f[n] <=> k <= n
    <3> TAKE k \in 1 .. m
    <3>1. f[k] \in S /\ f[n] \in S /\ k \in Int /\ n \in Int
      OBVIOUS
    <3>2. f[k] \in Int /\ f[n] \in Int
      BY <3>1
    <3>3. k < n \/ k = n \/ n < k
      BY <3>1
    <3> QED
      BY <3>2, <3>3 DEF Increasing
  <2>2. g \in [1 .. n -> T]
    BY <2>1
  <2>3. \A j \in T : \E k \in 1 .. n : g[k] = j
    BY <2>1
  <2>4. \A i, j \in 1 .. n : g[i] = g[j] => i = j
    BY <1>1
  <2>5. g \in Bijection(1 .. n, T)
    <3> HIDE DEF T, g
    <3> QED
      BY <2>2, <2>3, <2>4 DEF Bijection, Injection, IsInjective, Surjection
  <2>6. ExistsBijection(1 .. n, T)
    BY <2>5 DEF ExistsBijection
  <2> HIDE DEF T, g
  <2>7. Cardinality(T) = n
    BY <2>6, FS_CountingElements
  <2> QED
    BY <2>7 DEF Rank, T
<1>6. ASSUME NEW n \in 1 .. m
      PROVE  Ascending(S)[n] = f[n]
  <2>1. \A i \in S : Rank(i, S) = n => i = f[n]
    BY <1>5
  <2>2. f[n] \in S /\ Rank(f[n], S) = n
    BY <1>5
  <2> QED
    BY <2>1, <2>2, <1>4 DEF Ascending
<1> QED
  BY <1>4, <1>6, AscendingIs

-----------------------------------------------------------------------------
(* Lists. *)

LEMMA ListIs ==
    ASSUME NEW E, NEW list \in Seq(E)
    PROVE  /\ Len(list) \in Nat
           /\ DOMAIN list = 1 .. Len(list)
           /\ \A i \in 1 .. Len(list) : list[i] \in E
           /\ list = [i \in 1 .. Len(list) |-> list[i]]
           /\ list = <<>> <=> Len(list) = 0
           /\ IsFiniteSet(DOMAIN list)
           /\ Cardinality(DOMAIN list) = Len(list)
<1>1. Len(list) \in Nat /\ DOMAIN list = 1 .. Len(list)
  OBVIOUS
<1>2. IsFiniteSet(1 .. Len(list)) /\ Cardinality(1 .. Len(list)) = Len(list)
  BY <1>1, FS_Interval
<1>3. \A i \in 1 .. Len(list) : list[i] \in E
  OBVIOUS
<1>4. list = [i \in 1 .. Len(list) |-> list[i]]
  BY <1>1
<1>5. list = <<>> <=> Len(list) = 0
  OBVIOUS
<1> QED
  BY <1>1, <1>2, <1>3, <1>4, <1>5

\* A function on the first numbers is a list.
LEMMA ListOf ==
    ASSUME NEW E, NEW m \in Nat, NEW f \in [1 .. m -> E]
    PROVE  f \in Seq(E) /\ Len(f) = m /\ DOMAIN f = 1 .. m
OBVIOUS

LEMMA SameList ==
    ASSUME NEW E, NEW s \in Seq(E), NEW t \in Seq(E), Len(s) = Len(t),
           \A i \in 1 .. Len(s) : s[i] = t[i]
    PROVE  s = t
BY SeqEqual

LEMMA AppendIs ==
    ASSUME NEW E, NEW list \in Seq(E), NEW e \in E
    PROVE  /\ Append(list, e) \in Seq(E)
           /\ Len(Append(list, e)) = Len(list) + 1
           /\ \A i \in 1 .. Len(list) : Append(list, e)[i] = list[i]
           /\ Append(list, e)[Len(list) + 1] = e
OBVIOUS

LEMMA ConcatIs ==
    ASSUME NEW E, NEW s \in Seq(E), NEW t \in Seq(E)
    PROVE  /\ s \o t \in Seq(E)
           /\ Len(s \o t) = Len(s) + Len(t)
           /\ \A i \in 1 .. Len(s) : (s \o t)[i] = s[i]
           /\ \A i \in 1 .. Len(t) : (s \o t)[Len(s) + i] = t[i]
           /\ s \o t = <<>> <=> s = <<>> /\ t = <<>>
OBVIOUS

LEMMA RemoveAtIs ==
    ASSUME NEW E, NEW list \in Seq(E), NEW row \in 1 .. Len(list)
    PROVE  /\ RemoveAt(list, row) \in Seq(E)
           /\ Len(RemoveAt(list, row)) = Len(list) - 1
           /\ \A i \in 1 .. (Len(list) - 1) :
                 RemoveAt(list, row)[i] = IF i < row THEN list[i] ELSE list[i + 1]
<1> DEFINE a == SubSeq(list, 1, row - 1)
           b == SubSeq(list, row + 1, Len(list))
<1>1. Len(list) \in Nat /\ row \in Nat /\ row >= 1 /\ row <= Len(list)
  OBVIOUS
<1>2. \A i \in 1 .. Len(list) : list[i] \in E
  OBVIOUS
<1>3. /\ a \in Seq(E)
      /\ Len(a) = row - 1
      /\ \A i \in 1 .. (row - 1) : a[i] = list[i]
  <2>1. \A i \in 1 .. (row - 1) : list[i] \in E
    BY <1>1, <1>2
  <2>2. /\ a \in Seq(E)
        /\ Len(a) = IF 1 <= row - 1 THEN (row - 1) - 1 + 1 ELSE 0
        /\ \A i \in 1 .. ((row - 1) - 1 + 1) : a[i] = list[1 + i - 1]
    BY <2>1, <1>1, SubSeqProperties
  <2> HIDE DEF a
  <2> QED
    BY <2>2, <1>1
<1>4. /\ b \in Seq(E)
      /\ Len(b) = Len(list) - row
      /\ \A i \in 1 .. (Len(list) - row) : b[i] = list[row + i]
  <2>1. \A i \in (row + 1) .. Len(list) : list[i] \in E
    BY <1>1, <1>2
  <2>2. /\ b \in Seq(E)
        /\ Len(b) = IF row + 1 <= Len(list) THEN Len(list) - (row + 1) + 1 ELSE 0
        /\ \A i \in 1 .. (Len(list) - (row + 1) + 1) : b[i] = list[(row + 1) + i - 1]
    BY <2>1, <1>1, SubSeqProperties
  <2> HIDE DEF a, b
  <2>3. row \in 1 .. Len(list) /\ Len(list) \in Nat
    BY <1>1
  <2>4. \A i \in 1 .. (Len(list) - row) :
           i \in 1 .. (Len(list) - (row + 1) + 1) /\ (row + 1) + i - 1 = row + i
    BY <2>3
  <2>5. (IF row + 1 <= Len(list) THEN Len(list) - (row + 1) + 1 ELSE 0) = Len(list) - row
    BY <2>3
  <2> QED
    BY <2>2, <2>4, <2>5
<1> HIDE DEF a, b
<1>5. /\ a \o b \in Seq(E)
      /\ Len(a \o b) = Len(a) + Len(b)
      /\ \A i \in 1 .. Len(a) : (a \o b)[i] = a[i]
      /\ \A i \in 1 .. Len(b) : (a \o b)[Len(a) + i] = b[i]
  <2>1. a \in Seq(E) /\ b \in Seq(E)
    BY <1>3, <1>4
  <2> QED
    BY <2>1, ConcatIs
<1>6. RemoveAt(list, row) = a \o b
  BY DEF RemoveAt, a, b
<1>7. ASSUME NEW i \in 1 .. (Len(list) - 1)
      PROVE  (a \o b)[i] = IF i < row THEN list[i] ELSE list[i + 1]
  <2>1. CASE i < row
    <3>1. i \in 1 .. (row - 1)
      BY <2>1, <1>1
    <3> QED
      BY <3>1, <2>1, <1>3, <1>5
  <2>2. CASE ~(i < row)
    <3>1. (i - row + 1) \in 1 .. (Len(list) - row) /\ i = (row - 1) + (i - row + 1)
      BY <2>2, <1>1
    <3>2. (a \o b)[(row - 1) + (i - row + 1)] = b[i - row + 1]
      BY <3>1, <1>3, <1>4, <1>5
    <3>3. b[i - row + 1] = list[row + (i - row + 1)] /\ row + (i - row + 1) = i + 1
      BY <3>1, <1>4, <1>1
    <3> QED
      BY <3>1, <3>2, <3>3, <2>2
  <2> QED
    BY <2>1, <2>2
<1>8. Len(a) + Len(b) = Len(list) - 1
  BY <1>1, <1>3, <1>4
<1> QED
  BY <1>5, <1>6, <1>7, <1>8

-----------------------------------------------------------------------------
(* Filtered lists. *)

LEMMA KeepIs ==
    ASSUME NEW E, NEW list \in Seq(E), NEW S \in SUBSET DOMAIN list
    PROVE  /\ Keep(list, S) \in Seq(E)
           /\ IsFiniteSet(S)
           /\ Len(Keep(list, S)) = Cardinality(S)
           /\ Cardinality(S) \in Nat
           /\ Cardinality(S) <= Len(list)
           /\ DOMAIN Keep(list, S) = 1 .. Cardinality(S)
           /\ \A n \in 1 .. Cardinality(S) :
                 Ascending(S)[n] \in S /\ Keep(list, S)[n] = list[Ascending(S)[n]]
           /\ \A i \in S : \E n \in 1 .. Cardinality(S) :
                 Ascending(S)[n] = i /\ Keep(list, S)[n] = list[i]
           /\ Increasing(Ascending(S), Cardinality(S))
<1>1. DOMAIN list = 1 .. Len(list) /\ IsFiniteSet(DOMAIN list)
      /\ Cardinality(DOMAIN list) = Len(list)
  BY ListIs
<1>2. IsFiniteSet(S) /\ Cardinality(S) <= Len(list)
  BY <1>1, FS_Subset
<1>3. S \in SUBSET Int
  BY <1>1
<1>4. /\ Cardinality(S) \in Nat
      /\ Ascending(S) \in [1 .. Cardinality(S) -> S]
      /\ Increasing(Ascending(S), Cardinality(S))
      /\ \A i \in S : \E n \in 1 .. Cardinality(S) : Ascending(S)[n] = i
  BY <1>2, <1>3, AscendingIs
<1>5. \A i \in S : list[i] \in E
  BY <1>1
<1>6. Keep(list, S) \in [1 .. Cardinality(S) -> E]
  BY <1>4, <1>5 DEF Keep
<1>7. /\ Keep(list, S) \in Seq(E)
      /\ Len(Keep(list, S)) = Cardinality(S)
      /\ DOMAIN Keep(list, S) = 1 .. Cardinality(S)
  <2> DEFINE k == Keep(list, S)
  <2> HIDE DEF k
  <2> QED
    BY <1>4, <1>6, ListOf DEF k
<1>8. \A n \in 1 .. Cardinality(S) :
          Ascending(S)[n] \in S /\ Keep(list, S)[n] = list[Ascending(S)[n]]
  BY <1>4 DEF Keep
<1> QED
  BY <1>2, <1>4, <1>7, <1>8

\* It can be read off any increasing list of the places kept.
LEMMA KeepBy ==
    ASSUME NEW list, NEW m \in Nat, NEW S \in SUBSET Int, NEW f \in [1 .. m -> S],
           Increasing(f, m), \A i \in S : \E n \in 1 .. m : f[n] = i
    PROVE  Keep(list, S) = [n \in 1 .. m |-> list[f[n]]]
BY AscendingUnique DEF Keep

LEMMA KeepNone ==
    ASSUME NEW list
    PROVE  Keep(list, {}) = <<>>
<1>1. Cardinality({}) = 0
  BY FS_EmptySet
<1> QED
  BY <1>1 DEF Keep

\* The places of a list are those of its beginning and the last one.
LEMMA KeepAppend ==
    ASSUME NEW E, NEW list \in Seq(E), NEW e \in E, NEW S \in SUBSET DOMAIN list
    PROVE  /\ Keep(Append(list, e), S) = Keep(list, S)
           /\ Keep(Append(list, e), S \cup {Len(list) + 1}) = Append(Keep(list, S), e)
<1> DEFINE m == Cardinality(S)
           new == Append(list, e)
           last == Len(list) + 1
           f == [n \in 1 .. (m + 1) |-> IF n = m + 1 THEN last ELSE Ascending(S)[n]]
           T == S \cup {last}
<1>1. Len(list) \in Nat /\ DOMAIN list = 1 .. Len(list)
  BY ListIs
<1>2. /\ Keep(list, S) \in Seq(E)
      /\ Len(Keep(list, S)) = m
      /\ m \in Nat
      /\ \A n \in 1 .. m : Ascending(S)[n] \in S /\ Keep(list, S)[n] = list[Ascending(S)[n]]
      /\ \A i \in S : \E n \in 1 .. m : Ascending(S)[n] = i
      /\ Increasing(Ascending(S), m)
  BY KeepIs
<1>3. \A i \in 1 .. Len(list) : new[i] = list[i]
  BY AppendIs
<1>4. new[last] = e
  BY AppendIs
<1>5. Keep(new, S) = Keep(list, S)
  <2>1. \A n \in 1 .. m : new[Ascending(S)[n]] = list[Ascending(S)[n]]
    BY <1>1, <1>2, <1>3
  <2> QED
    BY <2>1 DEF Keep
<1>6. f \in [1 .. (m + 1) -> T] /\ m + 1 \in Nat /\ T \in SUBSET Int
  BY <1>1, <1>2
<1>7. Increasing(f, m + 1)
  <2> SUFFICES ASSUME NEW i \in 1 .. (m + 1), NEW j \in 1 .. (m + 1), i < j
               PROVE  f[i] < f[j]
    BY DEF Increasing
  <2>1. i \in 1 .. m /\ f[i] = Ascending(S)[i] /\ f[i] \in 1 .. Len(list)
    BY <1>1, <1>2
  <2>2. CASE j = m + 1
    BY <2>1, <2>2, <1>1
  <2>3. CASE j # m + 1
    <3>1. j \in 1 .. m
      <4> HIDE DEF m
      <4> QED
        BY <2>3, <1>2
    <3>2. f[j] = Ascending(S)[j]
      BY <2>3
    <3> QED
      BY <3>1, <3>2, <2>1, <1>2 DEF Increasing
  <2> QED
    BY <2>2, <2>3
<1>8. \A i \in T : \E n \in 1 .. (m + 1) : f[n] = i
  <2> TAKE i \in T
  <2>1. CASE i = last
    BY <2>1, <1>2
  <2>2. CASE i # last
    <3>1. PICK n \in 1 .. m : Ascending(S)[n] = i
      BY <2>2, <1>2
    <3>2. n \in 1 .. (m + 1) /\ f[n] = i
      BY <3>1, <1>2
    <3> QED
      BY <3>2
  <2> QED
    BY <2>1, <2>2
<1>9. Keep(new, T) = [n \in 1 .. (m + 1) |-> new[f[n]]]
  <2> DEFINE more == m + 1
  <2>1. /\ more \in Nat /\ f \in [1 .. more -> T] /\ T \in SUBSET Int
        /\ Increasing(f, more) /\ \A i \in T : \E n \in 1 .. more : f[n] = i
    BY <1>6, <1>7, <1>8
  <2> HIDE DEF f, T, m, more, new
  <2>2. Cardinality(T) = more /\ Ascending(T) = f
    BY <2>1, AscendingUnique
  <2>3. Keep(new, T) = [n \in 1 .. more |-> new[f[n]]]
    BY <2>2 DEF Keep
  <2> QED
    BY <2>3 DEF more
<1>10. [n \in 1 .. (m + 1) |-> new[f[n]]] = Append(Keep(list, S), e)
  <2>1. \A n \in 1 .. m : new[f[n]] = Keep(list, S)[n]
    <3> TAKE n \in 1 .. m
    <3>1. f[n] = Ascending(S)[n] /\ Ascending(S)[n] \in S
      BY <1>2
    <3> QED
      BY <3>1, <1>1, <1>2, <1>3
  <2>2. new[f[m + 1]] = e
    BY <1>2, <1>4
  <2>3. \A n \in 1 .. m : Keep(list, S)[n] \in E
    BY <1>2
  <2> DEFINE g == [n \in 1 .. (m + 1) |-> new[f[n]]]
             k == Keep(list, S)
  <2>4. g \in [1 .. (m + 1) -> E]
    <3>1. \A n \in 1 .. (m + 1) : n \in 1 .. m \/ n = m + 1
      BY <1>2
    <3>2. \A n \in 1 .. (m + 1) : new[f[n]] \in E
      BY <3>1, <2>1, <2>2, <2>3
    <3> QED
      BY <3>2
  <2>5. g \in Seq(E) /\ Len(g) = m + 1
    <3> HIDE DEF g, m
    <3> QED
      BY <2>4, <1>6, ListOf
  <2>6. \A n \in 1 .. m : g[n] = k[n]
    <3>1. \A n \in 1 .. m : n \in 1 .. (m + 1)
      BY <1>2
    <3> HIDE DEF m, f, new, k
    <3>2. \A n \in 1 .. (m + 1) : g[n] = new[f[n]]
      OBVIOUS
    <3>3. \A n \in 1 .. m : new[f[n]] = k[n]
      BY <2>1 DEF k
    <3> QED
      BY <3>1, <3>2, <3>3
  <2>7. g[m + 1] = e
    BY <2>2, <1>2
  <2>8. k \in Seq(E) /\ Len(k) = m
    BY <1>2
  <2> HIDE DEF g, k, m, f, new
  <2>9. /\ Append(k, e) \in Seq(E)
        /\ Len(Append(k, e)) = m + 1
        /\ \A n \in 1 .. m : Append(k, e)[n] = k[n]
        /\ Append(k, e)[m + 1] = e
    BY <2>8, AppendIs
  <2>10. \A n \in 1 .. (m + 1) : n \in 1 .. m \/ n = m + 1
    BY <1>2
  <2>11. g = Append(k, e)
    BY <2>5, <2>6, <2>7, <2>9, <2>10, SameList
  <2> QED
    BY <2>11 DEF g, k
<1> QED
  BY <1>5, <1>9, <1>10

\* Keeping some of what was kept.
LEMMA KeepOfKeep ==
    ASSUME NEW E, NEW list \in Seq(E), NEW S \in SUBSET DOMAIN list, NEW U \in SUBSET S
    PROVE  Keep(Keep(list, S), {n \in DOMAIN Keep(list, S) : Ascending(S)[n] \in U})
             = Keep(list, U)
<1> DEFINE a == Ascending(S)
           k == Keep(list, S)
           V == {n \in DOMAIN k : a[n] \in U}
           m == Cardinality(V)
           f == [n \in 1 .. m |-> a[Ascending(V)[n]]]
<1>1. /\ k \in Seq(E) /\ DOMAIN k = 1 .. Cardinality(S)
      /\ \A n \in DOMAIN k : a[n] \in S /\ k[n] = list[a[n]]
      /\ \A i \in S : \E n \in DOMAIN k : a[n] = i
      /\ \A i, j \in DOMAIN k : i < j => a[i] < a[j]
  BY KeepIs DEF Increasing
<1>2. S \in SUBSET Int
  BY ListIs
<1> HIDE DEF a, k
<1>3. /\ m \in Nat /\ Increasing(Ascending(V), m)
      /\ \A n \in 1 .. m : Ascending(V)[n] \in V
      /\ \A i \in V : \E n \in 1 .. m : Ascending(V)[n] = i
  <2>1. V \in SUBSET DOMAIN k
    OBVIOUS
  <2> HIDE DEF V, f
  <2>2. V \in SUBSET Int /\ IsFiniteSet(V)
    BY <1>1, <2>1, KeepIs
  <2> QED
    BY <2>2, AscendingIs
<1> HIDE DEF m
<1>4. f \in [1 .. m -> U]
  BY <1>3
<1>5. Increasing(f, m)
  <2> SUFFICES ASSUME NEW i \in 1 .. m, NEW j \in 1 .. m, i < j
               PROVE  f[i] < f[j]
    BY DEF Increasing
  <2>1. Ascending(V)[i] < Ascending(V)[j]
    BY <1>3 DEF Increasing
  <2>2. Ascending(V)[i] \in DOMAIN k /\ Ascending(V)[j] \in DOMAIN k
    BY <1>3
  <2>3. a[Ascending(V)[i]] < a[Ascending(V)[j]]
    BY <1>1, <2>1, <2>2
  <2> QED
    BY <2>3
<1>6. ASSUME NEW i \in U
      PROVE  \E n \in 1 .. m : f[n] = i
  <2>1. PICK x \in DOMAIN k : a[x] = i
    BY <1>1
  <2>2. x \in V
    BY <2>1
  <2>3. PICK n \in 1 .. m : Ascending(V)[n] = x
    BY <1>3, <2>2
  <2> QED
    BY <2>1, <2>3
<1>7. U \in SUBSET Int
  BY <1>2
<1>8. \A n \in 1 .. m : list[f[n]] = k[Ascending(V)[n]]
  BY <1>1, <1>3
<1>9. Keep(list, U) = [n \in 1 .. m |-> list[f[n]]]
  <2> HIDE DEF f
  <2> QED
    BY <1>3, <1>4, <1>5, <1>6, <1>7, KeepBy
<1>10. Keep(k, V) = [n \in 1 .. m |-> k[Ascending(V)[n]]]
  BY DEF Keep, m
<1> HIDE DEF f, V
<1>11. Keep(k, V) = Keep(list, U)
  BY <1>8, <1>9, <1>10
<1> QED
  BY <1>11 DEF V, k, a

\* Keeping all but one is removing it.
LEMMA KeepAllButOne ==
    ASSUME NEW E, NEW list \in Seq(E), NEW row \in 1 .. Len(list)
    PROVE  Keep(list, DOMAIN list \ {row}) = RemoveAt(list, row)
<1> DEFINE m == Len(list) - 1
           S == DOMAIN list \ {row}
           f == [n \in 1 .. m |-> IF n < row THEN n ELSE n + 1]
           left == RemoveAt(list, row)
<1>1. Len(list) \in Nat /\ DOMAIN list = 1 .. Len(list)
  BY ListIs
<1>2. m \in Nat /\ f \in [1 .. m -> S] /\ S \in SUBSET Int
  BY <1>1
<1>3. Increasing(f, m)
  <2> SUFFICES ASSUME NEW i \in 1 .. m, NEW j \in 1 .. m, i < j
               PROVE  f[i] < f[j]
    BY DEF Increasing
  <2> QED
    BY <1>1
<1>4. ASSUME NEW i \in S
      PROVE  \E n \in 1 .. m : f[n] = i
  <2>1. CASE i < row
    <3>1. i \in 1 .. m /\ f[i] = i
      BY <1>1, <2>1
    <3> QED
      BY <3>1
  <2>2. CASE ~(i < row)
    <3>1. i - 1 \in 1 .. m /\ ~(i - 1 < row) /\ (i - 1) + 1 = i
      BY <1>1, <2>2
    <3>2. f[i - 1] = i
      BY <3>1
    <3> QED
      BY <3>1, <3>2
  <2> QED
    BY <2>1, <2>2
<1>5. Keep(list, S) = [n \in 1 .. m |-> list[f[n]]]
  <2> HIDE DEF f, S, m
  <2> QED
    BY <1>2, <1>3, <1>4, KeepBy
<1>6. /\ left \in Seq(E) /\ Len(left) = m
      /\ \A n \in 1 .. m : left[n] = list[f[n]]
  BY RemoveAtIs
<1>7. left = [n \in 1 .. m |-> left[n]]
  <2> HIDE DEF left
  <2> QED
    BY <1>6, ListIs
<1> HIDE DEF f, m, left
<1>8. Keep(list, S) = left
  BY <1>5, <1>6, <1>7
<1> QED
  BY <1>8 DEF left

-----------------------------------------------------------------------------
(* What holds of the empty list and of a list with one element more. *)

\* T is any set of lists: a property is proved of all lists with the set of
\* those that have it.
LEMMA ListInduction ==
    ASSUME NEW E, NEW T, <<>> \in T,
           \A s \in Seq(E) : \A e \in E : s \in T => Append(s, e) \in T,
           NEW list \in Seq(E)
    PROVE  list \in T
<1> DEFINE n == Len(list)
           Prefix(k) == [i \in 1 .. k |-> list[i]]
           K == {k \in 0 .. n : Prefix(k) \in T}
<1>1. /\ n \in Nat /\ \A i \in 1 .. n : list[i] \in E
      /\ list = [i \in 1 .. n |-> list[i]]
  BY ListIs
<1>2. 0 \in K
  <2>1. Prefix(0) = <<>> /\ 0 \in 0 .. n
    BY <1>1
  <2> HIDE DEF Prefix
  <2> QED
    BY <2>1
<1>3. ASSUME NEW k \in 0 .. (n - 1), k \in K
      PROVE  k + 1 \in K
  <2>1. k \in Nat /\ k + 1 \in 0 .. n /\ k + 1 \in 1 .. n /\ \A i \in 1 .. k : i \in 1 .. n
    BY <1>1
  <2>2. list[k + 1] \in E /\ Prefix(k) \in T
    BY <1>1, <1>3, <2>1
  <2>3. Prefix(k) \in [1 .. k -> E]
    BY <1>1, <2>1
  <2>4. Prefix(k) \in Seq(E)
    <3> HIDE DEF Prefix
    <3> QED
      BY <2>1, <2>3, ListOf
  <2>5. Prefix(k + 1) = Append(Prefix(k), list[k + 1])
    BY <2>1
  <2> HIDE DEF Prefix
  <2>6. Prefix(k + 1) \in T
    BY <2>2, <2>4, <2>5
  <2> QED
    BY <2>1, <2>6
<1>4. \A k \in 0 .. (n - 1) : k \in K => k + 1 \in K
  BY <1>3
<1>5. n \in K
  <2> HIDE DEF K, n
  <2>1. \A k \in 0 .. n : k \in K
    BY <1>1, <1>2, <1>4, Counting
  <2> QED
    BY <1>1, <2>1
<1>6. Prefix(n) = list
  BY <1>1
<1> HIDE DEF Prefix
<1> QED
  BY <1>5, <1>6

\* The reverse of one element more.
LEMMA ReverseAppend ==
    ASSUME NEW E, NEW s \in Seq(E), NEW e \in E
    PROVE  Reverse(Append(s, e)) = <<e>> \o Reverse(s)
<1> DEFINE new == Append(s, e)
           n == Len(s)
           r == Reverse(s)
           l == Reverse(new)
           one == <<e>>
<1>1. /\ n \in Nat /\ \A i \in 1 .. n : s[i] \in E
      /\ new \in Seq(E) /\ Len(new) = n + 1 /\ new[n + 1] = e
      /\ \A i \in 1 .. n : new[i] = s[i]
      /\ \A i \in 1 .. (n + 1) : new[i] \in E
  BY AppendIs, ListIs
<1>2. /\ r = [i \in 1 .. n |-> s[n - i + 1]]
      /\ l = [i \in 1 .. Len(new) |-> new[Len(new) - i + 1]]
  BY DEF Reverse
<1>3. one \in Seq(E) /\ Len(one) = 1 /\ one[1] = e
  OBVIOUS
<1> HIDE DEF new, n, r, l, one
<1>4. r \in Seq(E) /\ Len(r) = n
  <2>1. r \in [1 .. n -> E]
    BY <1>1, <1>2
  <2> QED
    BY <1>1, <2>1, ListOf
<1>5. l \in Seq(E) /\ Len(l) = n + 1
  <2>1. l \in [1 .. (n + 1) -> E] /\ n + 1 \in Nat
    BY <1>1, <1>2
  <2> QED
    BY <2>1, ListOf
<1>6. /\ one \o r \in Seq(E) /\ Len(one \o r) = 1 + n
      /\ (one \o r)[1] = e
      /\ \A i \in 1 .. n : (one \o r)[1 + i] = r[i]
  <2>1. /\ one \o r \in Seq(E) /\ Len(one \o r) = Len(one) + Len(r)
        /\ \A i \in 1 .. Len(one) : (one \o r)[i] = one[i]
        /\ \A i \in 1 .. Len(r) : (one \o r)[Len(one) + i] = r[i]
    <3>1. one \in Seq(E) /\ r \in Seq(E)
      BY <1>3, <1>4
    <3> QED
      BY <3>1, ConcatIs
  <2> QED
    BY <1>3, <1>4, <2>1
<1>7. ASSUME NEW i \in 1 .. (n + 1)
      PROVE  l[i] = (one \o r)[i]
  <2>1. l[i] = new[n + 1 - i + 1]
    BY <1>1, <1>2
  <2>2. CASE i = 1
    BY <1>1, <1>6, <2>1, <2>2
  <2>3. CASE i # 1
    <3>1. i - 1 \in 1 .. n /\ 1 + (i - 1) = i /\ n - (i - 1) + 1 = n + 1 - i + 1
          /\ n - (i - 1) + 1 \in 1 .. n
      BY <1>1, <2>3
    <3>2. r[i - 1] = s[n - (i - 1) + 1]
      BY <1>2, <3>1
    <3>3. (one \o r)[i] = r[i - 1]
      BY <1>6, <3>1
    <3> QED
      BY <1>1, <2>1, <3>1, <3>2, <3>3
  <2> QED
    BY <2>2, <2>3
<1>8. 1 + n = n + 1
  BY <1>1
<1>9. l = one \o r
  BY <1>5, <1>6, <1>7, <1>8, SameList
<1> QED
  BY <1>9 DEF l, one, r, new

LEMMA ReverseIs ==
    ASSUME NEW E, NEW s \in Seq(E)
    PROVE  Reverse(s) \in Seq(E)
<1> DEFINE n == Len(s)
           r == Reverse(s)
<1>1. /\ n \in Nat /\ \A i \in 1 .. n : s[i] \in E
      /\ r = [i \in 1 .. n |-> s[n - i + 1]]
  BY ListIs DEF Reverse
<1>2. r \in [1 .. n -> E]
  BY <1>1
<1> HIDE DEF r, n
<1>3. r \in Seq(E)
  BY <1>1, <1>2, ListOf
<1> QED
  BY <1>3 DEF r

-----------------------------------------------------------------------------
(***************************************************************************)
(* What FoldLeft computes for any operator: the definition in SequencesExt  *)
(* is a function defined recursively on the sets of places, and nothing can *)
(* be said of it before there is known to be such a function.              *)
(***************************************************************************)
Folded(base, list) == FoldLeft(op, base, list)

\* One step of the recursion, and what solves it for the first n elements.
Step(g, base, list, s) ==
    IF s = {} THEN base ELSE op(g[s \ {Max(s)}], list[Max(s)])

Solves(g, base, list, n) ==
    g = [s \in SUBSET (1 .. n) |-> Step(g, base, list, s)]

LEMMA FoldedIs ==
    ASSUME NEW base, NEW list
    PROVE  Folded(base, list) =
             (CHOOSE g : g = [s \in SUBSET DOMAIN list |-> Step(g, base, list, s)])[DOMAIN list]
BY DEF Folded, FoldLeft, MapThenFoldSet, Step

LEMMA MaxIs ==
    ASSUME NEW n \in Nat, NEW s \in SUBSET (1 .. n), s # {}
    PROVE  Max(s) \in s /\ \A x \in s : Max(s) >= x
<1>1. s \subseteq 0 .. n
  OBVIOUS
<1>2. \E x \in s : \A y \in s : x >= y
  BY <1>1, GreatestExists
<1> QED
  BY <1>2 DEF Max

LEMMA MaxIsTheNewest ==
    ASSUME NEW n \in Nat, NEW s \in SUBSET (1 .. (n + 1)), n + 1 \in s
    PROVE  Max(s) = n + 1
<1>1. Max(s) \in s /\ Max(s) >= n + 1
  <2>1. n + 1 \in Nat
    OBVIOUS
  <2> QED
    BY <2>1, MaxIs
<1>2. Max(s) \in 1 .. (n + 1)
  BY <1>1
<1> QED
  BY <1>1, <1>2

\* A solution for the first n elements extends to one more.
LEMMA SolutionGrows ==
    ASSUME NEW base, NEW list, NEW n \in Nat, NEW g, Solves(g, base, list, n)
    PROVE  \E h : Solves(h, base, list, n + 1)
<1> DEFINE h == [s \in SUBSET (1 .. (n + 1)) |->
                    IF n + 1 \in s THEN op(g[s \ {n + 1}], list[n + 1]) ELSE g[s]]
<1>1. ASSUME NEW s \in SUBSET (1 .. (n + 1))
      PROVE  h[s] = Step(h, base, list, s)
  <2>1. CASE n + 1 \in s
    <3>1. Max(s) = n + 1 /\ s # {}
      BY <2>1, MaxIsTheNewest
    <3>2. s \ {n + 1} \in SUBSET (1 .. (n + 1)) /\ n + 1 \notin s \ {n + 1}
      OBVIOUS
    <3>3. h[s \ {n + 1}] = g[s \ {n + 1}]
      BY <3>2
    <3>4. h[s] = op(g[s \ {n + 1}], list[n + 1])
      BY <2>1
    <3> HIDE DEF h
    <3> QED
      BY <3>1, <3>3, <3>4 DEF Step
  <2>2. CASE n + 1 \notin s
    <3>1. s \in SUBSET (1 .. n)
      BY <2>2
    <3>2. h[s] = g[s] /\ g[s] = Step(g, base, list, s)
      BY <2>2, <3>1 DEF Solves
    <3>3. ASSUME s # {}
          PROVE  h[s \ {Max(s)}] = g[s \ {Max(s)}]
      <4>1. s \ {Max(s)} \in SUBSET (1 .. (n + 1)) /\ n + 1 \notin s \ {Max(s)}
        BY <2>2
      <4> QED
        BY <4>1
    <3> HIDE DEF h
    <3> QED
      BY <3>2, <3>3 DEF Step
  <2> QED
    BY <2>1, <2>2
<1>2. Solves(h, base, list, n + 1)
  <2>1. DOMAIN h = SUBSET (1 .. (n + 1)) /\ h = [s \in SUBSET (1 .. (n + 1)) |-> h[s]]
    OBVIOUS
  <2> HIDE DEF h
  <2> QED
    BY <1>1, <2>1 DEF Solves
<1> QED
  BY <1>2

LEMMA SolutionExists ==
    ASSUME NEW base, NEW list, NEW n \in Nat
    PROVE  \E g : Solves(g, base, list, n)
<1> DEFINE T == {k \in 0 .. n : \E g : Solves(g, base, list, k)}
<1>1. 0 \in T
  <2> DEFINE g == [s \in SUBSET (1 .. 0) |-> base]
  <2>1. \A s \in SUBSET (1 .. 0) : s = {}
    OBVIOUS
  <2>2. \A s \in SUBSET (1 .. 0) : Step(g, base, list, s) = base
    BY <2>1 DEF Step
  <2>3. Solves(g, base, list, 0)
    BY <2>2 DEF Solves
  <2>4. \E x : Solves(x, base, list, 0)
    BY <2>3
  <2> QED
    BY <2>4
<1>2. \A k \in 0 .. (n - 1) : k \in T => k + 1 \in T
  <2> SUFFICES ASSUME NEW k \in 0 .. (n - 1), k \in T
               PROVE  k + 1 \in T
    OBVIOUS
  <2>1. PICK g : Solves(g, base, list, k)
    OBVIOUS
  <2>2. k \in Nat /\ k + 1 \in 0 .. n
    OBVIOUS
  <2>3. \E h : Solves(h, base, list, k + 1)
    BY <2>1, <2>2, SolutionGrows
  <2> QED
    BY <2>2, <2>3
<1>3. n \in T
  <2> HIDE DEF T
  <2> QED
    BY <1>1, <1>2, Counting
<1> QED
  BY <1>3

\* Two lists that begin alike have the same solution there.
LEMMA SolutionsAgree ==
    ASSUME NEW base, NEW l1, NEW l2, NEW m \in Nat, NEW n \in Nat, NEW k \in Nat,
           k <= m, k <= n, \A i \in 1 .. k : l1[i] = l2[i],
           NEW g, Solves(g, base, l1, m), NEW h, Solves(h, base, l2, n)
    PROVE  g[1 .. k] = h[1 .. k]
<1> DEFINE T == {j \in 0 .. k : g[1 .. j] = h[1 .. j]}
<1>1. \A j \in 0 .. k : g[1 .. j] = Step(g, base, l1, 1 .. j) /\ h[1 .. j] = Step(h, base, l2, 1 .. j)
  <2> TAKE j \in 0 .. k
  <2>1. 1 .. j \in SUBSET (1 .. m) /\ 1 .. j \in SUBSET (1 .. n)
    OBVIOUS
  <2> QED
    BY <2>1 DEF Solves
<1>2. 0 \in T
  <2>1. 1 .. 0 = {}
    OBVIOUS
  <2>2. 0 \in 0 .. k
    OBVIOUS
  <2>3. g[1 .. 0] = base /\ h[1 .. 0] = base
    BY <1>1, <2>1, <2>2 DEF Step
  <2> QED
    BY <2>2, <2>3
<1>3. \A j \in 0 .. (k - 1) : j \in T => j + 1 \in T
  <2> SUFFICES ASSUME NEW j \in 0 .. (k - 1), j \in T
               PROVE  j + 1 \in T
    OBVIOUS
  <2> DEFINE s == 1 .. (j + 1)
  <2>1. j \in Nat /\ j + 1 \in 0 .. k /\ j + 1 \in s /\ s # {} /\ s \in SUBSET (1 .. (j + 1))
    <3>1. j \in Nat /\ j + 1 \in 0 .. k /\ j + 1 \in 1 .. (j + 1)
      <4> HIDE DEF T
      <4> QED
        OBVIOUS
    <3> QED
      BY <3>1
  <2>2. Max(s) = j + 1
    <3> HIDE DEF s
    <3> QED
      BY <2>1, MaxIsTheNewest
  <2>3. s \ {j + 1} = 1 .. j
    OBVIOUS
  <2>4. Step(g, base, l1, s) = op(g[1 .. j], l1[j + 1])
    <3> HIDE DEF s
    <3> QED
      BY <2>1, <2>2, <2>3 DEF Step
  <2>5. Step(h, base, l2, s) = op(h[1 .. j], l2[j + 1])
    <3> HIDE DEF s
    <3> QED
      BY <2>1, <2>2, <2>3 DEF Step
  <2>6. l1[j + 1] = l2[j + 1] /\ g[1 .. j] = h[1 .. j]
    OBVIOUS
  <2>7. g[s] = h[s]
    BY <2>1, <2>4, <2>5, <2>6, <1>1
  <2> QED
    BY <2>1, <2>7
<1>4. k \in T
  <2> HIDE DEF T
  <2> QED
    BY <1>2, <1>3, Counting
<1> QED
  BY <1>4

LEMMA FoldedSolves ==
    ASSUME NEW base, NEW E, NEW list \in Seq(E)
    PROVE  \E g : Solves(g, base, list, Len(list)) /\ Folded(base, list) = g[1 .. Len(list)]
<1> DEFINE g == CHOOSE x : Solves(x, base, list, Len(list))
<1>1. DOMAIN list = 1 .. Len(list) /\ Len(list) \in Nat
  BY ListIs
<1>2. Folded(base, list) = g[1 .. Len(list)]
  BY <1>1, FoldedIs DEF Solves
<1>3. Solves(g, base, list, Len(list))
  BY <1>1, SolutionExists
<1> QED
  BY <1>2, <1>3

\* Nothing to fold: the base.
THEOREM FoldedEmpty ==
    ASSUME NEW base
    PROVE  Folded(base, <<>>) = base
<1>1. <<>> \in Seq({}) /\ Len(<<>>) = 0
  OBVIOUS
<1>2. PICK g : Solves(g, base, <<>>, 0) /\ Folded(base, <<>>) = g[1 .. 0]
  BY <1>1, FoldedSolves
<1>3. 1 .. 0 = {} /\ {} \in SUBSET (1 .. 0)
  OBVIOUS
<1>4. g[{}] = Step(g, base, <<>>, {})
  BY <1>2, <1>3 DEF Solves
<1> QED
  BY <1>2, <1>3, <1>4 DEF Step

\* One element more: the operator once more.
THEOREM FoldedAppend ==
    ASSUME NEW base, NEW E, NEW list \in Seq(E), NEW e \in E
    PROVE  Folded(base, Append(list, e)) = op(Folded(base, list), e)
<1> DEFINE new == Append(list, e)
           n == Len(list)
<1>1. /\ new \in Seq(E) /\ Len(new) = n + 1 /\ n \in Nat
      /\ \A i \in 1 .. n : new[i] = list[i]
      /\ new[n + 1] = e
  BY AppendIs, ListIs
<1>2. PICK g : Solves(g, base, list, n) /\ Folded(base, list) = g[1 .. n]
  BY FoldedSolves
<1> HIDE DEF new
<1>3. PICK h : Solves(h, base, new, n + 1) /\ Folded(base, new) = h[1 .. (n + 1)]
  BY <1>1, FoldedSolves
<1> HIDE DEF n
<1>4. h[1 .. n] = g[1 .. n]
  BY <1>1, <1>2, <1>3, SolutionsAgree
<1>5. h[1 .. (n + 1)] = Step(h, base, new, 1 .. (n + 1))
  <2>1. 1 .. (n + 1) \in SUBSET (1 .. (n + 1))
    OBVIOUS
  <2> QED
    BY <1>3, <2>1 DEF Solves
<1>6. Step(h, base, new, 1 .. (n + 1)) = op(h[1 .. n], e)
  <2> DEFINE s == 1 .. (n + 1)
  <2>1. n + 1 \in s /\ s # {} /\ s \in SUBSET (1 .. (n + 1)) /\ s \ {n + 1} = 1 .. n
    <3>1. n \in Nat
      BY <1>1
    <3> QED
      BY <3>1
  <2>2. Max(s) = n + 1
    <3> HIDE DEF s
    <3> QED
      BY <2>1, <1>1, MaxIsTheNewest
  <2> HIDE DEF s
  <2>3. Step(h, base, new, s) = op(h[1 .. n], e)
    BY <2>1, <2>2, <1>1 DEF Step
  <2> QED
    BY <2>3 DEF s
<1> QED
  BY <1>2, <1>3, <1>4, <1>5, <1>6 DEF new
=============================================================================
