------------------------ MODULE FirestoreWritesProofs ------------------------
(***************************************************************************)
(* What holds of FirestoreWrites for any users, any length of the pipeline, *)
(* any number of writes and any number of faults.                          *)
(***************************************************************************)
EXTENDS FirestoreWrites, SequenceTheorems, FiniteSetTheorems, TLAPS

\* The batches of a user in the order of their ids, which is the order in which
\* the writes were issued.
Sorted(q) ==
    \A i, j \in DOMAIN q : i < j => q[i].id < q[j].id /\ q[i].write < q[j].write

IsFront(p, q) ==
    /\ Len(p) <= Len(q)
    /\ \A i \in DOMAIN p : p[i] = q[i]

\* How many batches a pipeline that is filled holds.
Room(q) == IF Len(q) <= MaxPendingWrites THEN Len(q) ELSE MaxPendingWrites

\* What a stream that has shaken hands owes: the pipeline, in its order.
InFlight(r) ==
    /\ Len(r.responses) + Len(r.requests) = Len(r.pipeline)
    /\ \A i \in DOMAIN r.responses : r.responses[i].batch = r.pipeline[i]
    /\ \A i \in DOMAIN r.requests : r.requests[i] = r.pipeline[Len(r.responses) + i]

Greeting(r) ==
    \/ r.requests = <<Hello>> /\ r.responses = <<>>
    \/ r.requests = <<>> /\ Len(r.responses) = 1

\* A stream and a pipeline that serve the queue q.
Serving(r, q) ==
    /\ r \in Remote
    /\ IsFront(r.pipeline, q)
    /\ Len(r.pipeline) <= MaxPendingWrites
    /\ "now" \in r.asked <=> r.stream = "Starting"
    /\ r.stream # "Open" => ~r.handshake /\ r.requests = <<>> /\ r.responses = <<>>
    /\ r.stream = "Open" /\ ~r.handshake => Greeting(r)
    /\ r.handshake => InFlight(r)
    /\ r.idle => r.handshake /\ r.pipeline = <<>>
    /\ Started(r) /\ ~r.handshake => r.pipeline # <<>>
    /\ ~r.enabled => ~Started(r) /\ r.pipeline = <<>>

\* And they have all the work there is.
Working(r, q) ==
    /\ Serving(r, q)
    /\ r.enabled => Len(r.pipeline) = Room(q)
    /\ r.pipeline # <<>> => Started(r)

-----------------------------------------------------------------------------
(***************************************************************************)
(* Sequences and sets of numbers.                                          *)
(***************************************************************************)
LEMMA SeqLen ==
    ASSUME NEW S, NEW s \in Seq(S)
    PROVE  /\ Len(s) \in Nat
           /\ DOMAIN s = 1 .. Len(s)
           /\ \A i \in 1 .. Len(s) : s[i] \in S
           /\ s # <<>> <=> Len(s) > 0
OBVIOUS

LEMMA SeqAppend ==
    ASSUME NEW S, NEW s \in Seq(S), NEW e \in S
    PROVE  /\ Append(s, e) \in Seq(S)
           /\ Len(Append(s, e)) = Len(s) + 1
           /\ \A i \in 1 .. Len(s) : Append(s, e)[i] = s[i]
           /\ Append(s, e)[Len(s) + 1] = e
OBVIOUS

LEMMA SeqTail ==
    ASSUME NEW S, NEW s \in Seq(S), s # <<>>
    PROVE  /\ Tail(s) \in Seq(S)
           /\ Len(Tail(s)) = Len(s) - 1
           /\ \A i \in 1 .. Len(s) - 1 : Tail(s)[i] = s[i + 1]
           /\ Head(s) = s[1]
           /\ Head(s) \in S
OBVIOUS

LEMMA SeqConcat ==
    ASSUME NEW S, NEW s \in Seq(S), NEW t \in Seq(S)
    PROVE  /\ s \o t \in Seq(S)
           /\ Len(s \o t) = Len(s) + Len(t)
           /\ \A i \in 1 .. Len(s) : (s \o t)[i] = s[i]
           /\ \A i \in 1 .. Len(t) : (s \o t)[Len(s) + i] = t[i]
           /\ s \o t = <<>> <=> s = <<>> /\ t = <<>>
OBVIOUS

LEMMA SeqCut ==
    ASSUME NEW S, NEW s \in Seq(S), NEW a \in Nat, NEW n \in Nat, a + n <= Len(s)
    PROVE  /\ SubSeq(s, a + 1, a + n) \in Seq(S)
           /\ Len(SubSeq(s, a + 1, a + n)) = n
           /\ \A i \in 1 .. n : SubSeq(s, a + 1, a + n)[i] = s[a + i]
<1>1. \A i \in (a + 1) .. (a + n) : s[i] \in S
  OBVIOUS
<1> DEFINE c == SubSeq(s, a + 1, a + n)
<1>2. /\ c \in Seq(S)
      /\ Len(c) = IF a + 1 <= a + n THEN (a + n) - (a + 1) + 1 ELSE 0
      /\ \A i \in 1 .. (a + n) - (a + 1) + 1 : c[i] = s[(a + 1) + i - 1]
  BY <1>1, SubSeqProperties
<1> HIDE DEF c
<1>3. Len(c) = n /\ \A i \in 1 .. n : c[i] = s[a + i]
  BY <1>2
<1> QED
  BY <1>2, <1>3 DEF c

LEMMA SeqSame ==
    ASSUME NEW S, NEW s \in Seq(S), NEW t \in Seq(S), Len(s) = Len(t),
           \A i \in 1 .. Len(s) : s[i] = t[i]
    PROVE  s = t
BY SeqEqual

\* A bounded set of numbers has a greatest; an infinite chain of ever smaller
\* sets of greater numbers would be needed to refute it.
LEMMA Greatest ==
    ASSUME NEW T, NEW n \in Nat, T \subseteq 0 .. n, T # {}
    PROVE  \E x \in T : \A y \in T : x >= y
<1> DEFINE Above(x) == {y \in T : y > x}
           F == {Above(x) : x \in T}
           R == StrictSubsetOrdering(T)
<1>1. IsFiniteSet(T)
  <2>1. IsFiniteSet(0 .. n)
    BY FS_Interval
  <2> QED
    BY <2>1, FS_Subset
<1>2. IsWellFoundedOn(R, SUBSET T)
  <2>1. FiniteSubsetsOf(T) = SUBSET T
    BY <1>1, FS_FiniteSubsetsOfFinite
  <2>2. IsWellFoundedOn(R, FiniteSubsetsOf(T))
    BY FS_StrictSubsetOrderingWellFounded
  <2> QED
    BY <2>1, <2>2
<1>3. F \subseteq SUBSET T /\ F # {}
  OBVIOUS
<1>4. PICK U \in F : \A V \in F : ~ (<<V, U>> \in R)
  <2> HIDE DEF F, R
  <2> QED
    BY <1>2, <1>3, WFMin
<1>5. PICK x \in T : U = Above(x)
  OBVIOUS
<1>6. ASSUME NEW y \in T, y > x
      PROVE  FALSE
  <2>1. \A z \in Above(y) : z \in Above(x)
    BY <1>6
  <2>2. y \in Above(x) /\ y \notin Above(y)
    BY <1>6
  <2>3. Above(y) \subseteq Above(x) /\ Above(y) # Above(x)
    BY <2>1, <2>2
  <2>4. Above(y) \in SUBSET T /\ Above(x) \in SUBSET T
    OBVIOUS
  <2>5. <<Above(y), Above(x)>> \in R
    <3> HIDE DEF Above
    <3> QED
      BY <2>3, <2>4 DEF StrictSubsetOrdering
  <2>6. Above(y) \in F
    OBVIOUS
  <2> QED
    BY <2>5, <2>6, <1>5, <1>4
<1>7. \A y \in T : ~(y > x) /\ x \in Int /\ y \in Int
  BY <1>6
<1> QED
  BY <1>7

LEMMA MaxIsGreatest ==
    ASSUME NEW T, NEW n \in Nat, T \subseteq 0 .. n, T # {}
    PROVE  Max(T) \in T /\ \A y \in T : Max(T) >= y
BY Greatest DEF Max

-----------------------------------------------------------------------------
(***************************************************************************)
(* The queue of a user.                                                    *)
(***************************************************************************)
LEMMA BatchFields ==
    ASSUME NEW b \in Batch
    PROVE  b.id \in Nat \ {0} /\ b.write \in Writes /\ b # Hello
BY DEF Batch, Hello

LEMMA WritesAreNat == Writes \subseteq Nat \ {0}
BY BoundsAssumption DEF Writes

LEMMA SortedUses ==
    ASSUME NEW q \in Seq(Batch), Sorted(q), NEW i \in 1 .. Len(q), NEW j \in 1 .. Len(q)
    PROVE  /\ i < j => q[i].id < q[j].id /\ q[i].write < q[j].write
           /\ q[i].id <= q[j].id <=> i <= j
           /\ q[i].id = q[j].id => i = j
           /\ q[i].write = q[j].write => i = j
<1>1. DOMAIN q = 1 .. Len(q) /\ Len(q) \in Nat /\ q[i] \in Batch /\ q[j] \in Batch
  BY SeqLen
<1>2. q[i].id \in Nat /\ q[j].id \in Nat /\ q[i].write \in Nat /\ q[j].write \in Nat
  BY <1>1, BatchFields, WritesAreNat
<1>3. i < j => q[i].id < q[j].id /\ q[i].write < q[j].write
  BY <1>1 DEF Sorted
<1>4. j < i => q[j].id < q[i].id /\ q[j].write < q[i].write
  BY <1>1 DEF Sorted
<1>5. i \in Nat /\ j \in Nat /\ (i < j \/ i = j \/ j < i)
  BY <1>1
<1> QED
  BY <1>2, <1>3, <1>4, <1>5

LEMMA AfterIs ==
    ASSUME NEW q \in Seq(Batch), NEW id, NEW k \in 0 .. Len(q),
           \A j \in 1 .. Len(q) : q[j].id <= id <=> j <= k
    PROVE  PositionAfter(q, id) = k + 1
<1> DEFINE n == Len(q)
           P(i) == \A j \in 1 .. n : q[j].id <= id <=> j < i
<1>1. n \in Nat /\ DOMAIN q = 1 .. n
  BY SeqLen
<1>2. \A j \in 1 .. n : q[j].id <= id <=> j <= k
  OBVIOUS
<1>3. k \in 0 .. n
  OBVIOUS
<1> HIDE DEF n
<1>4. k + 1 \in 1 .. (n + 1) /\ P(k + 1)
  BY <1>1, <1>2, <1>3
<1>5. ASSUME NEW i \in 1 .. (n + 1), P(i)
      PROVE  i = k + 1
  <2>1. \A j \in 1 .. n : j < i <=> j <= k
    BY <1>2, <1>5
  <2>2. ~(i < k + 1)
    <3>1. i < k + 1 => i \in 1 .. n
      BY <1>1, <1>3
    <3> QED
      BY <3>1, <2>1, <1>1, <1>3
  <2>3. ~(k + 1 < i)
    <3>1. k + 1 < i => k + 1 \in 1 .. n
      BY <1>1, <1>3
    <3> QED
      BY <3>1, <2>1, <1>1, <1>3
  <2> QED
    BY <2>2, <2>3, <1>1, <1>3
<1>6. PositionAfter(q, id) = CHOOSE i \in 1 .. (n + 1) : P(i)
  BY <1>1 DEF PositionAfter, n
<1> HIDE DEF P
<1> QED
  BY <1>4, <1>5, <1>6

\* RemoveMutationBatch of the oldest batch.
LEMMA WithoutFirst ==
    ASSUME NEW q \in Seq(Batch), Sorted(q), q # <<>>
    PROVE  Without(q, q[1].id) = Tail(q)
<1>1. Len(q) \in Nat /\ Len(q) > 0 /\ 1 \in 1 .. Len(q)
  BY SeqLen
<1>2. \A j \in 1 .. Len(q) : q[j].id <= q[1].id <=> j <= 1
  BY <1>1, SortedUses
<1>3. PositionAfter(q, q[1].id) = 1 + 1
  <2> DEFINE id == q[1].id
  <2>1. 1 \in 0 .. Len(q) /\ \A j \in 1 .. Len(q) : q[j].id <= id <=> j <= 1
    BY <1>1, <1>2
  <2> HIDE DEF id
  <2>2. PositionAfter(q, id) = 1 + 1
    BY <2>1, AfterIs
  <2> QED
    BY <2>2 DEF id
<1>4. Without(q, q[1].id) = SubSeq(q, 1, 0) \o SubSeq(q, 2, Len(q))
  BY <1>3 DEF Without
<1>5. SubSeq(q, 1, 0) = <<>>
  BY SubSeqEmpty
<1>6. SubSeq(q, 2, Len(q)) = Tail(q)
  BY TailIsSubSeq
<1>7. <<>> \o Tail(q) = Tail(q)
  <2>1. Tail(q) \in Seq(Batch)
    BY SeqTail
  <2> QED
    BY <2>1, ConcatEmptySeq
<1> QED
  BY <1>4, <1>5, <1>6, <1>7

\* FillWritePipeline takes the next batches, as many as there is room for.
LEMMA NewBatchesAre ==
    ASSUME NEW q \in Seq(Batch), Sorted(q), NEW r, r.pipeline \in Seq(Batch),
           IsFront(r.pipeline, q), Len(r.pipeline) <= MaxPendingWrites
    PROVE  /\ NewBatches(r, q) \in Seq(Batch)
           /\ Len(NewBatches(r, q)) = Room(q) - Len(r.pipeline)
           /\ Room(q) \in Nat /\ Room(q) <= Len(q) /\ Room(q) <= MaxPendingWrites
           /\ \A i \in 1 .. Room(q) - Len(r.pipeline) : NewBatches(r, q)[i] = q[Len(r.pipeline) + i]
<1> DEFINE p == r.pipeline
           a == Len(p)
           n == Len(q)
           id == IF p = <<>> THEN 0 ELSE p[a].id
<1>1. /\ a \in Nat /\ n \in Nat /\ a <= n /\ a <= MaxPendingWrites
      /\ MaxPendingWrites \in Nat
      /\ DOMAIN p = 1 .. a /\ (p # <<>> <=> a > 0)
  BY SeqLen, PipelineAssumption DEF IsFront
<1>2. \A j \in 1 .. n : q[j].id <= id <=> j <= a
  <2>1. CASE a = 0
    <3>1. id = 0
      BY <2>1, <1>1
    <3>2. \A j \in 1 .. n : q[j].id \in Nat \ {0}
      BY SeqLen, BatchFields
    <3> QED
      BY <3>1, <3>2, <2>1
  <2>2. CASE a > 0
    <3>1. a \in 1 .. n /\ a \in DOMAIN p
      BY <2>2, <1>1
    <3>2. id = q[a].id
      BY <2>2, <1>1, <3>1 DEF IsFront
    <3> QED
      BY <3>1, <3>2, SortedUses
  <2> QED
    BY <2>1, <2>2, <1>1
<1>3. PositionAfter(q, id) = a + 1
  BY <1>1, <1>2, AfterIs
<1>4. NewBatches(r, q) = SubSeq(q, a + 1, a + (IF MaxPendingWrites - a <= n - a THEN MaxPendingWrites - a ELSE n - a))
  <2>1. NewBatches(r, q) =
            SubSeq(q, a + 1, (a + 1) - 1 + (IF MaxPendingWrites - a <= n - (a + 1) + 1
                                            THEN MaxPendingWrites - a ELSE n - (a + 1) + 1))
    BY <1>3 DEF NewBatches
  <2> HIDE DEF a, n
  <2>2. n - (a + 1) + 1 = n - a /\ (a + 1) - 1 = a
    BY <1>1
  <2> QED
    BY <2>1, <2>2
<1> DEFINE m == IF MaxPendingWrites - a <= n - a THEN MaxPendingWrites - a ELSE n - a
<1>5. /\ m \in Nat /\ a + m <= n /\ m = Room(q) - a
      /\ Room(q) \in Nat /\ Room(q) <= n /\ Room(q) <= MaxPendingWrites
  <2>1. Room(q) = IF n <= MaxPendingWrites THEN n ELSE MaxPendingWrites
    BY DEF Room
  <2> HIDE DEF a, n
  <2> QED
    BY <2>1, <1>1
<1>6. NewBatches(r, q) = SubSeq(q, a + 1, a + m)
  BY <1>4
<1> DEFINE new == SubSeq(q, a + 1, a + m)
<1>7. new \in Seq(Batch) /\ Len(new) = m /\ \A i \in 1 .. m : new[i] = q[a + i]
  <2>1. a + m <= Len(q) /\ a \in Nat /\ m \in Nat
    BY <1>5, <1>1
  <2> HIDE DEF m, a, n
  <2> QED
    BY ONLY <2>1, SeqCut, q \in Seq(Batch), Zenon
<1> HIDE DEF m, new
<1> QED
  BY <1>5, <1>6, <1>7 DEF new

-----------------------------------------------------------------------------
(***************************************************************************)
(* The stream and the pipeline.                                            *)
(***************************************************************************)
States == {"Initial", "Starting", "Open", "Error", "Backoff"}

LEMMA RemoteFields ==
    ASSUME NEW r \in Remote
    PROVE  /\ r.enabled \in BOOLEAN /\ r.handshake \in BOOLEAN /\ r.idle \in BOOLEAN
           /\ r.pipeline \in Seq(Batch) /\ r.requests \in Seq(Request) /\ r.responses \in Seq(Response)
           /\ r.stream \in States /\ r.asked \in SUBSET {"now", "before"}
BY DEF Remote, States

LEMMA RequestTypes ==
    /\ Batch \subseteq Request /\ Hello \in Request
    /\ <<>> \in Seq(Batch) /\ <<>> \in Seq(Request) /\ <<>> \in Seq(Response)
    /\ <<Hello>> \in Seq(Request)
    /\ Seq(Batch) \subseteq Seq(Request)
<1>1. Batch \subseteq Request /\ Hello \in Request
  BY DEF Request
<1>2. Seq(Batch) \subseteq Seq(Request)
  BY <1>1, SeqMonotonic
<1> QED
  BY <1>1, <1>2

\* A stream that is not running.
Quiet(r) ==
    /\ ~Started(r)
    /\ "now" \notin r.asked
    /\ ~r.handshake /\ ~r.idle
    /\ r.requests = <<>> /\ r.responses = <<>>

LEMMA QuietServes ==
    ASSUME NEW q, NEW r \in Remote, Quiet(r),
           IsFront(r.pipeline, q), Len(r.pipeline) <= MaxPendingWrites,
           ~r.enabled => r.pipeline = <<>>
    PROVE  Serving(r, q)
<1>1. r.stream # "Starting" /\ r.stream # "Open"
  BY DEF Quiet, Started
<1> QED
  BY <1>1 DEF Serving, Quiet

LEMMA NothingIsFront ==
    ASSUME NEW q \in Seq(Batch)
    PROVE  IsFront(<<>>, q) /\ Len(<<>>) = 0 /\ 0 <= MaxPendingWrites
BY SeqLen, PipelineAssumption DEF IsFront

LEMMA CloseIs ==
    ASSUME NEW r \in Remote, NEW s \in {"Initial", "Error"}
    PROVE  /\ Close(r, s) \in Remote /\ Quiet(Close(r, s))
           /\ Close(r, s).stream = s
           /\ Close(r, s).pipeline = r.pipeline /\ Close(r, s).enabled = r.enabled
<1> DEFINE c == Close(r, s)
           asked == IF r.asked = {} THEN {} ELSE {"before"}
<1>1. c = [r EXCEPT !.stream = s, !.handshake = FALSE, !.idle = FALSE, !.asked = asked,
                    !.requests = <<>>, !.responses = <<>>]
  BY DEF Close
<1>2. asked \in SUBSET {"now", "before"} /\ "now" \notin asked
  OBVIOUS
<1>3. s \in {"Initial", "Starting", "Open", "Error", "Backoff"} /\ s \notin {"Starting", "Open", "Backoff"}
  OBVIOUS
<1> HIDE DEF c, asked
<1>4. c \in Remote
  BY <1>1, <1>2, <1>3, RequestTypes DEF Remote
<1>5. /\ c.stream = s /\ c.handshake = FALSE /\ c.idle = FALSE /\ c.asked = asked
      /\ c.requests = <<>> /\ c.responses = <<>> /\ c.pipeline = r.pipeline /\ c.enabled = r.enabled
  BY <1>1 DEF Remote
<1> QED
  BY <1>2, <1>3, <1>4, <1>5 DEF Quiet, Started, c

LEMMA StopIs ==
    ASSUME NEW q, NEW r, Serving(r, q)
    PROVE  /\ Stop(r) \in Remote /\ Quiet(Stop(r))
           /\ Stop(r).pipeline = r.pipeline /\ Stop(r).enabled = r.enabled
<1>1. CASE Started(r)
  BY <1>1, CloseIs DEF Stop, Serving
<1>2. CASE ~Started(r)
  <2>1. r.stream # "Starting" /\ r.stream # "Open"
    BY <1>2 DEF Started
  <2> QED
    BY <1>2, <2>1 DEF Stop, Serving, Quiet
<1> QED
  BY <1>1, <1>2

LEMMA StartServes ==
    ASSUME NEW q, NEW r, Serving(r, q), r.enabled, r.pipeline # <<>>
    PROVE  /\ Serving(Start(r), q) /\ Started(Start(r))
           /\ Start(r).pipeline = r.pipeline /\ Start(r).enabled = r.enabled
<1>1. r \in Remote /\ r.stream \in States
  BY RemoteFields DEF Serving
<1>2. CASE r.stream = "Initial"
  <2> DEFINE s == Start(r)
  <2>1. s = [r EXCEPT !.stream = "Starting", !.asked = @ \cup {"now"}]
    BY <1>2 DEF Start
  <2> HIDE DEF s
  <2>2. s \in Remote
    BY <2>1, <1>1 DEF Remote
  <2>3. /\ s.stream = "Starting" /\ "now" \in s.asked
        /\ s.enabled = r.enabled /\ s.pipeline = r.pipeline /\ s.handshake = r.handshake /\ s.idle = r.idle
        /\ s.requests = r.requests /\ s.responses = r.responses
    BY <2>1, <1>1 DEF Remote
  <2>4. ~r.handshake /\ r.requests = <<>> /\ r.responses = <<>>
    BY <1>2 DEF Serving
  <2>5. Started(s)
    BY <2>3 DEF Started
  <2>6. Serving(s, q)
    BY <2>2, <2>3, <2>4, <2>5 DEF Serving
  <2> QED
    BY <2>3, <2>5, <2>6 DEF s
<1>3. CASE r.stream = "Error"
  <2> DEFINE s == Start(r)
  <2>1. s = [r EXCEPT !.stream = "Backoff"]
    BY <1>3 DEF Start
  <2> HIDE DEF s
  <2>2. s \in Remote
    BY <2>1, <1>1 DEF Remote
  <2>3. /\ s.stream = "Backoff" /\ s.asked = r.asked
        /\ s.enabled = r.enabled /\ s.pipeline = r.pipeline /\ s.handshake = r.handshake /\ s.idle = r.idle
        /\ s.requests = r.requests /\ s.responses = r.responses
    BY <2>1, <1>1 DEF Remote
  <2>4. ~r.handshake /\ r.requests = <<>> /\ r.responses = <<>> /\ "now" \notin r.asked
    BY <1>3 DEF Serving
  <2>5. Started(s)
    BY <2>3 DEF Started
  <2>6. Serving(s, q)
    BY <2>2, <2>3, <2>4, <2>5 DEF Serving
  <2> QED
    BY <2>3, <2>5, <2>6 DEF s
<1>4. CASE r.stream \in {"Starting", "Open", "Backoff"}
  BY <1>4 DEF Start, Started
<1> QED
  BY <1>1, <1>2, <1>3, <1>4 DEF States

LEMMA FrontExtends ==
    ASSUME NEW q \in Seq(Batch), Sorted(q), NEW r, r.pipeline \in Seq(Batch),
           IsFront(r.pipeline, q), Len(r.pipeline) <= MaxPendingWrites
    PROVE  /\ r.pipeline \o NewBatches(r, q) \in Seq(Batch)
           /\ IsFront(r.pipeline \o NewBatches(r, q), q)
           /\ Len(r.pipeline \o NewBatches(r, q)) = Room(q)
           /\ Room(q) <= MaxPendingWrites
<1> DEFINE p == r.pipeline
           new == NewBatches(r, q)
           a == Len(p)
           m == Room(q) - a
<1>1. /\ new \in Seq(Batch) /\ Len(new) = m
      /\ Room(q) \in Nat /\ Room(q) <= Len(q) /\ Room(q) <= MaxPendingWrites
      /\ \A i \in 1 .. m : new[i] = q[a + i]
  BY NewBatchesAre
<1>2. p \in Seq(Batch) /\ a \in Nat /\ \A i \in 1 .. a : p[i] = q[i]
  BY SeqLen DEF IsFront
<1>3. /\ p \o new \in Seq(Batch)
      /\ Len(p \o new) = a + m
      /\ \A i \in 1 .. a : (p \o new)[i] = p[i]
      /\ \A i \in 1 .. m : (p \o new)[a + i] = new[i]
  <2> HIDE DEF new
  <2> QED
    BY <1>1, <1>2, SeqConcat
<1>4. Len(p \o new) = Room(q) /\ m \in Nat
  <2>1. m \in Nat
    BY <1>1, SeqLen
  <2> HIDE DEF new, p
  <2> QED
    BY <1>3, <1>1, <1>2, <2>1
<1>5. ASSUME NEW i \in 1 .. Room(q)
      PROVE  (p \o new)[i] = q[i]
  <2> DEFINE c == p \o new
  <2>0. /\ \A j \in 1 .. a : c[j] = p[j] /\ p[j] = q[j]
        /\ \A j \in 1 .. m : c[a + j] = new[j]
        /\ i \in Nat /\ i >= 1 /\ (i <= a \/ i > a)
    BY <1>1, <1>2, <1>3
  <2> HIDE DEF new, p, a, c
  <2>1. CASE i <= a
    <3>1. i \in 1 .. a
      BY <2>0, <2>1, <1>2
    <3> QED
      BY <3>1, <2>0 DEF c
  <2>2. CASE i > a
    <3>1. i - a \in 1 .. m /\ a + (i - a) = i
      BY <2>2, <1>1, <1>2
    <3> QED
      BY <3>1, <2>0, <1>1 DEF c
  <2> QED
    BY <2>0, <2>1, <2>2
<1>6. IsFront(p \o new, q)
  <2>1. DOMAIN (p \o new) = 1 .. Room(q)
    BY <1>3, <1>4, SeqLen
  <2> HIDE DEF new, p
  <2> QED
    BY <2>1, <1>1, <1>4, <1>5 DEF IsFront
<1> QED
  BY <1>1, <1>3, <1>4, <1>6

LEMMA InFlightExtends ==
    ASSUME NEW r \in Remote, InFlight(r), NEW new \in Seq(Batch), NEW s,
           s.responses = r.responses, s.requests = r.requests \o new,
           s.pipeline = r.pipeline \o new
    PROVE  InFlight(s)
<1> DEFINE a == Len(r.responses)
           b == Len(r.requests)
           c == Len(r.pipeline)
           n == Len(new)
<1>1. /\ r.pipeline \in Seq(Batch) /\ r.requests \in Seq(Request) /\ r.responses \in Seq(Response)
      /\ new \in Seq(Request)
  BY RemoteFields, RequestTypes
<1>2. /\ a \in Nat /\ b \in Nat /\ c \in Nat /\ n \in Nat
      /\ DOMAIN r.responses = 1 .. a /\ DOMAIN r.requests = 1 .. b
  BY <1>1, SeqLen
<1>3. /\ a + b = c
      /\ \A i \in 1 .. a : r.responses[i].batch = r.pipeline[i]
      /\ \A i \in 1 .. b : r.requests[i] = r.pipeline[a + i]
  BY <1>2 DEF InFlight
<1>4. /\ Len(s.requests) = b + n
      /\ DOMAIN s.requests = 1 .. (b + n)
      /\ \A i \in 1 .. b : s.requests[i] = r.requests[i]
      /\ \A i \in 1 .. n : s.requests[b + i] = new[i]
  <2>1. s.requests \in Seq(Request)
    BY <1>1, SeqConcat
  <2> QED
    BY <1>1, <2>1, SeqConcat, SeqLen
<1>5. /\ Len(s.pipeline) = c + n
      /\ \A i \in 1 .. c : s.pipeline[i] = r.pipeline[i]
      /\ \A i \in 1 .. n : s.pipeline[c + i] = new[i]
  BY <1>1, SeqConcat
<1>6. Len(s.responses) = a /\ DOMAIN s.responses = 1 .. a
  BY <1>2
<1> HIDE DEF a, b, c, n
<1>7. \A i \in 1 .. a : s.responses[i].batch = s.pipeline[i]
  BY <1>2, <1>3, <1>5
<1>8. ASSUME NEW i \in 1 .. (b + n)
      PROVE  s.requests[i] = s.pipeline[a + i]
  <2>0. i <= b \/ i > b
    BY <1>2
  <2>1. CASE i <= b
    <3>1. i \in 1 .. b /\ a + i \in 1 .. c
      BY <2>1, <1>2, <1>3
    <3> QED
      BY <3>1, <1>3, <1>4, <1>5
  <2>2. CASE i > b
    <3>1. i - b \in 1 .. n /\ b + (i - b) = i /\ c + (i - b) = a + i
      BY <2>2, <1>2, <1>3
    <3>2. s.requests[b + (i - b)] = new[i - b]
      BY <3>1, <1>4
    <3>3. s.pipeline[c + (i - b)] = new[i - b]
      BY <3>1, <1>5
    <3> QED
      BY <3>1, <3>2, <3>3
  <2> QED
    BY <2>0, <2>1, <2>2
<1>9. Len(s.responses) + Len(s.requests) = Len(s.pipeline)
  BY <1>2, <1>3, <1>4, <1>5, <1>6
<1> QED
  BY <1>4, <1>6, <1>7, <1>8, <1>9 DEF InFlight

\* FillWritePipeline leaves a full pipeline and, if there is anything in it, a
\* stream that is running.
LEMMA FillWorks ==
    ASSUME NEW q \in Seq(Batch), Sorted(q), NEW r, Serving(r, q)
    PROVE  /\ Working(Fill(r, q), q)
           /\ Fill(r, q).enabled = r.enabled
<1> DEFINE new == NewBatches(r, q)
           p == r.pipeline \o new
           open == r.stream = "Open" /\ r.handshake
           f == [r EXCEPT !.pipeline = @ \o new,
                          !.requests = IF open THEN @ \o new ELSE @,
                          !.idle = Idle(r, new)]
<1>1. r \in Remote
  BY DEF Serving
<1>2. CASE ~r.enabled
  <2>1. Fill(r, q) = r
    BY <1>2 DEF Fill
  <2> QED
    BY <2>1, <1>2 DEF Working, Serving
<1>3. CASE r.enabled
  <2>1. /\ new \in Seq(Batch) /\ p \in Seq(Batch) /\ IsFront(p, q) /\ Len(p) = Room(q)
        /\ Room(q) <= MaxPendingWrites
    <3>1. /\ r.pipeline \in Seq(Batch) /\ IsFront(r.pipeline, q)
          /\ Len(r.pipeline) <= MaxPendingWrites
      BY <1>1, RemoteFields DEF Serving
    <3> QED
      BY <3>1, NewBatchesAre, FrontExtends
  <2>2. p = <<>> <=> r.pipeline = <<>> /\ new = <<>>
    <3> HIDE DEF new
    <3>1. r.pipeline \in Seq(Batch)
      BY <1>1, RemoteFields
    <3> QED
      BY <2>1, <3>1, SeqConcat
  <2>3. Idle(r, new) \in BOOLEAN /\ (Idle(r, new) => r.handshake /\ p = <<>>)
    <3>1. CASE p = <<>>
      <4>1. Idle(r, new) = (r.idle \/ r.stream = "Open")
        BY <3>1 DEF Idle
      <4>2. r.stream = "Open" => r.handshake
        BY <3>1, <2>2 DEF Serving, Started
      <4>3. r.idle => r.handshake
        BY DEF Serving
      <4> QED
        BY <3>1, <4>1, <4>2, <4>3, <1>1, RemoteFields
    <3>2. CASE p # <<>>
      <4>1. Idle(r, new) = (r.idle /\ ~(r.stream = "Open" /\ r.handshake /\ new # <<>>))
        BY <3>2 DEF Idle
      <4>2. r.idle => r.handshake /\ r.pipeline = <<>> /\ r.stream = "Open"
        BY DEF Serving
      <4>3. r.idle => new # <<>>
        BY <4>2, <3>2, <2>2
      <4> HIDE DEF new, p
      <4> QED
        BY <4>1, <4>2, <4>3, <1>1, RemoteFields
    <3> QED
      BY <3>1, <3>2
  <2>4. f \in Remote
    <3>1. r.requests \in Seq(Request) /\ new \in Seq(Request)
      BY <1>1, <2>1, RemoteFields, RequestTypes
    <3>2. r.requests \o new \in Seq(Request)
      <4> HIDE DEF new
      <4> QED
        BY <3>1, SeqConcat
    <3>3. (IF open THEN r.requests \o new ELSE r.requests) \in Seq(Request)
      BY <3>1, <3>2
    <3> DEFINE x == IF open THEN r.requests \o new ELSE r.requests
               y == Idle(r, new)
    <3>4. f = [r EXCEPT !.pipeline = p, !.requests = x, !.idle = y]
      OBVIOUS
    <3>5. x \in Seq(Request) /\ y \in BOOLEAN /\ p \in Seq(Batch)
      BY <3>3, <2>3, <2>1
    <3> HIDE DEF f, x, y, p
    <3> QED
      BY <1>1, <3>4, <3>5 DEF Remote
  <2>5. /\ f.enabled = r.enabled /\ f.pipeline = p /\ f.stream = r.stream /\ f.handshake = r.handshake
        /\ f.idle = Idle(r, new) /\ f.asked = r.asked /\ f.responses = r.responses
        /\ f.requests = IF open THEN r.requests \o new ELSE r.requests
    <3> DEFINE x == IF open THEN r.requests \o new ELSE r.requests
               y == Idle(r, new)
    <3>1. f = [r EXCEPT !.pipeline = p, !.requests = x, !.idle = y]
      OBVIOUS
    <3> HIDE DEF f, x, y, p
    <3>2. /\ f.enabled = r.enabled /\ f.pipeline = p /\ f.stream = r.stream /\ f.handshake = r.handshake
          /\ f.idle = y /\ f.asked = r.asked /\ f.responses = r.responses /\ f.requests = x
      BY <1>1, <3>1 DEF Remote
    <3> QED
      BY <3>2 DEF x, y
  <2>6. Fill(r, q) = IF f.pipeline = <<>> THEN f ELSE Start(f)
    BY <1>3 DEF Fill
  <2> HIDE DEF f, p, new
  <2>7. r.handshake => InFlight(f)
    <3>1. SUFFICES ASSUME r.handshake PROVE InFlight(f)
      OBVIOUS
    <3>2. r.stream = "Open" /\ InFlight(r)
      BY <3>1 DEF Serving
    <3>3. f.requests = r.requests \o new
      BY <3>1, <3>2, <2>5
    <3> QED
      BY <3>2, <3>3, <2>5, <2>1, <1>1, InFlightExtends DEF p
  <2>8. Serving(f, q)
    <3>1. f \in Remote /\ IsFront(f.pipeline, q) /\ Len(f.pipeline) <= MaxPendingWrites
      BY <2>1, <2>4, <2>5
    <3>2. "now" \in f.asked <=> f.stream = "Starting"
      BY <2>5 DEF Serving
    <3>3. f.stream # "Open" => ~f.handshake /\ f.requests = <<>> /\ f.responses = <<>>
      BY <2>5 DEF Serving
    <3>4. f.stream = "Open" /\ ~f.handshake => Greeting(f)
      <4>1. f.stream = "Open" /\ ~f.handshake => Greeting(r) /\ f.requests = r.requests
        BY <2>5 DEF Serving
      <4> QED
        BY <4>1, <2>5 DEF Greeting
    <3>5. f.handshake => InFlight(f)
      BY <2>5, <2>7
    <3>6. f.idle => f.handshake /\ f.pipeline = <<>>
      BY <2>3, <2>5
    <3>7. Started(f) /\ ~f.handshake => f.pipeline # <<>>
      BY <2>2, <2>5 DEF Serving, Started
    <3> QED
      BY <3>1, <3>2, <3>3, <3>4, <3>5, <3>6, <3>7, <1>3, <2>5 DEF Serving
  <2>9. CASE f.pipeline = <<>>
    BY <2>9, <2>6, <2>8, <2>5, <2>1 DEF Working
  <2>10. CASE f.pipeline # <<>>
    <3>1. /\ Serving(Start(f), q) /\ Started(Start(f))
          /\ Start(f).pipeline = f.pipeline /\ Start(f).enabled = f.enabled
      BY <2>10, <2>8, <2>5, <1>3, StartServes
    <3> QED
      BY <3>1, <2>10, <2>6, <2>5, <2>1 DEF Working
  <2> QED
    BY <2>9, <2>10
<1> QED
  BY <1>1, <1>2, <1>3, RemoteFields

LEMMA EnableWorks ==
    ASSUME NEW q \in Seq(Batch), Sorted(q), NEW r, Serving(r, q)
    PROVE  Working(Enable(r, q), q)
<1> DEFINE e == [r EXCEPT !.enabled = TRUE]
<1>1. r \in Remote
  BY DEF Serving
<1>2. /\ e \in Remote /\ e.enabled = TRUE
      /\ e.pipeline = r.pipeline /\ e.stream = r.stream /\ e.handshake = r.handshake
      /\ e.idle = r.idle /\ e.asked = r.asked /\ e.requests = r.requests /\ e.responses = r.responses
  BY <1>1 DEF Remote
<1>3. Enable(r, q) = Fill(e, q)
  BY DEF Enable
<1> HIDE DEF e
<1>4. (InFlight(e) <=> InFlight(r)) /\ (Greeting(e) <=> Greeting(r)) /\ (Started(e) <=> Started(r))
  BY <1>2 DEF InFlight, Greeting, Started
<1>5. Serving(e, q)
  BY <1>2, <1>4 DEF Serving
<1> QED
  BY <1>3, <1>5, FillWorks

LEMMA DisableWorks ==
    ASSUME NEW q, NEW r, Serving(r, q), NEW q2 \in Seq(Batch)
    PROVE  /\ Working(Disable(r), q2) /\ Quiet(Disable(r))
           /\ Disable(r) \in Remote /\ Disable(r).pipeline = <<>>
<1> DEFINE s == Stop(r)
           d == [s EXCEPT !.enabled = FALSE, !.pipeline = <<>>]
<1>1. s \in Remote /\ Quiet(s)
  BY StopIs
<1>2. Disable(r) = d
  BY DEF Disable
<1> HIDE DEF s
<1>3. /\ d \in Remote /\ d.enabled = FALSE /\ d.pipeline = <<>>
      /\ d.stream = s.stream /\ d.handshake = s.handshake
      /\ d.idle = s.idle /\ d.asked = s.asked /\ d.requests = s.requests /\ d.responses = s.responses
  BY <1>1, RequestTypes DEF Remote
<1> HIDE DEF d
<1>4. Quiet(d)
  BY <1>1, <1>3 DEF Quiet, Started
<1>5. IsFront(d.pipeline, q2) /\ Len(d.pipeline) <= MaxPendingWrites
  BY <1>3, NothingIsFront
<1>6. Serving(d, q2)
  BY <1>3, <1>4, <1>5, QuietServes
<1> QED
  BY <1>2, <1>3, <1>4, <1>6 DEF Working

LEMMA RestartWorks ==
    ASSUME NEW q, NEW r, Serving(r, q), NEW q2 \in Seq(Batch), Sorted(q2)
    PROVE  Working(RestartNetwork(r, q2), q2)
<1>1. CASE r.enabled
  <2> DEFINE d == Disable(r)
             i == [d EXCEPT !.stream = "Initial"]
  <2>1. d \in Remote /\ Quiet(d) /\ d.pipeline = <<>>
    BY DisableWorks
  <2>2. RestartNetwork(r, q2) = Enable(i, q2)
    BY <1>1 DEF RestartNetwork
  <2> HIDE DEF d
  <2>3. /\ i \in Remote /\ i.stream = "Initial" /\ i.enabled = d.enabled /\ i.pipeline = <<>>
        /\ i.handshake = d.handshake /\ i.idle = d.idle /\ i.asked = d.asked
        /\ i.requests = d.requests /\ i.responses = d.responses
    BY <2>1 DEF Remote
  <2> HIDE DEF i
  <2>4. Quiet(i)
    BY <2>1, <2>3 DEF Quiet, Started
  <2>5. IsFront(i.pipeline, q2) /\ Len(i.pipeline) <= MaxPendingWrites
    BY <2>3, NothingIsFront
  <2>6. Serving(i, q2)
    BY <2>3, <2>4, <2>5, QuietServes
  <2> QED
    BY <2>2, <2>6, EnableWorks
<1>2. CASE ~r.enabled
  <2>1. RestartNetwork(r, q2) = r
    BY <1>2 DEF RestartNetwork
  <2>2. r.pipeline = <<>>
    BY <1>2 DEF Serving
  <2>3. IsFront(r.pipeline, q2) /\ Len(r.pipeline) <= MaxPendingWrites
    BY <2>2, NothingIsFront
  <2> QED
    BY <1>2, <2>1, <2>2, <2>3 DEF Working, Serving
<1>3. r.enabled \in BOOLEAN
  BY RemoteFields DEF Serving
<1> QED
  BY <1>1, <1>2

LEMMA FreshWorks ==
    ASSUME NEW q \in Seq(Batch), Sorted(q)
    PROVE  Working(FreshRemote(q), q)
<1> DEFINE r == [enabled |-> FALSE, pipeline |-> <<>>, stream |-> "Initial", handshake |-> FALSE,
                 idle |-> FALSE, asked |-> {}, requests |-> <<>>, responses |-> <<>>]
<1>1. r \in Remote
  BY RequestTypes DEF Remote
<1>2. Quiet(r) /\ r.pipeline = <<>>
  BY DEF Quiet, Started
<1>3. FreshRemote(q) = Enable(r, q)
  BY DEF FreshRemote
<1> HIDE DEF r
<1>4. IsFront(r.pipeline, q) /\ Len(r.pipeline) <= MaxPendingWrites
  BY <1>2, NothingIsFront
<1>5. Serving(r, q)
  BY <1>1, <1>2, <1>4, QuietServes
<1> QED
  BY <1>3, <1>5, EnableWorks

-----------------------------------------------------------------------------
(***************************************************************************)
(* What the stream hears, and what it is sent.                             *)
(***************************************************************************)
LEMMA CredentialsWork ==
    ASSUME NEW q, NEW r, Working(r, q), NEW t \in r.asked, NEW s,
           s = IF t = "before" THEN [r EXCEPT !.asked = @ \ {t}]
               ELSE [r EXCEPT !.asked = @ \ {t}, !.stream = "Open", !.requests = <<Hello>>]
    PROVE  Working(s, q)
<1>1. r \in Remote /\ t \in {"now", "before"}
  BY RemoteFields DEF Working, Serving
<1>2. CASE t = "before"
  <2>1. s = [r EXCEPT !.asked = @ \ {t}]
    BY <1>2
  <2>2. /\ s \in Remote /\ s.enabled = r.enabled /\ s.asked = r.asked \ {"before"}
        /\ s.pipeline = r.pipeline /\ s.stream = r.stream /\ s.handshake = r.handshake
        /\ s.idle = r.idle /\ s.requests = r.requests /\ s.responses = r.responses
    BY <1>1, <1>2, <2>1, SMTT(30) DEF Remote
  <2>3. (InFlight(s) <=> InFlight(r)) /\ (Greeting(s) <=> Greeting(r)) /\ (Started(s) <=> Started(r))
    BY <2>2, ZenonT(60) DEF InFlight, Greeting, Started
  <2>4. "now" \in s.asked <=> "now" \in r.asked
    BY <2>2
  <2> QED
    BY <2>2, <2>3, <2>4 DEF Working, Serving
<1>3. CASE t = "now"
  <2>1. s = [r EXCEPT !.asked = @ \ {t}, !.stream = "Open", !.requests = <<Hello>>]
    BY <1>3
  <2>2. /\ s \in Remote /\ s.enabled = r.enabled /\ "now" \notin s.asked
        /\ s.pipeline = r.pipeline /\ s.stream = "Open" /\ s.handshake = r.handshake
        /\ s.idle = r.idle /\ s.requests = <<Hello>> /\ s.responses = r.responses
    <3> DEFINE hello == <<Hello>>
               asked == r.asked \ {t}
    <3>1. s = [r EXCEPT !.asked = asked, !.stream = "Open", !.requests = hello]
      BY <2>1
    <3>2. hello \in Seq(Request) /\ asked \in SUBSET {"now", "before"} /\ "now" \notin asked
      BY <1>1, <1>3, RequestTypes, RemoteFields
    <3> HIDE DEF hello, asked
    <3>3. /\ s \in Remote /\ s.enabled = r.enabled /\ s.asked = asked
          /\ s.pipeline = r.pipeline /\ s.stream = "Open" /\ s.handshake = r.handshake
          /\ s.idle = r.idle /\ s.requests = hello /\ s.responses = r.responses
      BY <1>1, <3>1, <3>2 DEF Remote
    <3> QED
      BY <3>2, <3>3 DEF hello
  <2>3. r.stream = "Starting" /\ ~r.handshake /\ r.responses = <<>>
    BY <1>3 DEF Working, Serving
  <2>4. Greeting(s) /\ Started(s) /\ Started(r)
    BY <2>2, <2>3 DEF Greeting, Started
  <2> QED
    BY <2>2, <2>3, <2>4 DEF Working, Serving
<1> QED
  BY <1>1, <1>2, <1>3

LEMMA InFlightAtFirst ==
    ASSUME NEW p \in Seq(Batch), NEW s, s.pipeline = p, s.requests = p, s.responses = <<>>
    PROVE  InFlight(s)
<1>1. DOMAIN s.responses = {} /\ Len(s.responses) = 0
  OBVIOUS
<1>2. Len(p) \in Nat /\ DOMAIN p = 1 .. Len(p)
  BY SeqLen
<1>3. \A i \in DOMAIN s.requests : s.requests[i] = s.pipeline[Len(s.responses) + i]
  BY <1>1, <1>2
<1> QED
  BY <1>1, <1>2, <1>3 DEF InFlight

LEMMA HandshakeWorks ==
    ASSUME NEW q, NEW r, Working(r, q), r.stream = "Open", ~r.handshake, r.responses # <<>>, NEW s,
           s = [r EXCEPT !.handshake = TRUE, !.responses = Tail(@),
                         !.requests = @ \o r.pipeline,
                         !.idle = @ /\ r.pipeline = <<>>]
    PROVE  Working(s, q)
<1>1. r \in Remote
  BY DEF Working, Serving
<1>2. r.requests = <<>> /\ Len(r.responses) = 1 /\ ~r.idle /\ r.pipeline # <<>>
  BY DEF Working, Serving, Greeting, Started
<1>3. Tail(r.responses) = <<>>
  <2>1. /\ Tail(r.responses) \in Seq(Response)
        /\ Len(Tail(r.responses)) = Len(r.responses) - 1
    BY <1>1, RemoteFields, SeqTail
  <2> QED
    BY <2>1, <1>2, SeqLen
<1>4. r.requests \o r.pipeline = r.pipeline /\ r.pipeline \in Seq(Batch) /\ r.pipeline \in Seq(Request)
  <2>1. r.pipeline \in Seq(Batch)
    BY <1>1, RemoteFields
  <2>2. r.pipeline \in Seq(Request)
    BY <2>1, RequestTypes
  <2> QED
    BY <2>1, <2>2, <1>2, ConcatEmptySeq
<1>5. s = [r EXCEPT !.handshake = TRUE, !.responses = <<>>, !.requests = r.pipeline, !.idle = FALSE]
  <2> DEFINE x == Tail(r.responses)
             y == r.requests \o r.pipeline
             z == r.idle /\ r.pipeline = <<>>
  <2>1. s = [r EXCEPT !.handshake = TRUE, !.responses = x, !.requests = y, !.idle = z]
    OBVIOUS
  <2>2. z = FALSE
    BY <1>2
  <2> HIDE DEF x, y, z
  <2> QED
    BY <2>1, <2>2, <1>3, <1>4 DEF x, y
<1>6. /\ s \in Remote /\ s.enabled = r.enabled /\ s.asked = r.asked
      /\ s.pipeline = r.pipeline /\ s.stream = r.stream /\ s.handshake = TRUE
      /\ s.idle = FALSE /\ s.requests = r.pipeline /\ s.responses = <<>>
  BY <1>1, <1>4, <1>5, RequestTypes DEF Remote
<1>7. InFlight(s)
  BY <1>4, <1>6, InFlightAtFirst
<1>8. Started(s) /\ Started(r)
  BY <1>6 DEF Started
<1> QED
  BY <1>2, <1>6, <1>7, <1>8 DEF Working, Serving

\* The idle timer, the backoff timer and errors that refuse nothing.
LEMMA IdleWorks ==
    ASSUME NEW q, NEW r, Working(r, q), r.idle
    PROVE  Working(Stop(r), q)
<1>1. Serving(r, q) /\ r.handshake /\ r.pipeline = <<>>
  BY DEF Working, Serving
<1> DEFINE s == Stop(r)
<1>2. s \in Remote /\ Quiet(s) /\ s.pipeline = r.pipeline /\ s.enabled = r.enabled
  BY <1>1, StopIs
<1> HIDE DEF s
<1>3. IsFront(s.pipeline, q) /\ Len(s.pipeline) <= MaxPendingWrites
  BY <1>1, <1>2 DEF Serving
<1>4. Serving(s, q)
  BY <1>1, <1>2, <1>3, QuietServes
<1>5. Working(s, q)
  BY <1>1, <1>2, <1>4 DEF Working
<1> QED
  BY <1>5 DEF s

LEMMA BackoffWorks ==
    ASSUME NEW q, NEW r, Working(r, q), r.stream = "Backoff"
    PROVE  Working(Start([r EXCEPT !.stream = "Initial"]), q)
<1> DEFINE i == [r EXCEPT !.stream = "Initial"]
<1>1. r \in Remote /\ r.stream \in States
  BY RemoteFields DEF Working, Serving
<1>2. /\ i \in Remote /\ i.stream = "Initial" /\ i.enabled = r.enabled /\ i.pipeline = r.pipeline
      /\ i.handshake = r.handshake /\ i.idle = r.idle /\ i.asked = r.asked
      /\ i.requests = r.requests /\ i.responses = r.responses
  BY <1>1 DEF Remote
<1> HIDE DEF i
<1>3. ~r.handshake /\ ~r.idle /\ r.requests = <<>> /\ r.responses = <<>> /\ "now" \notin r.asked
  BY DEF Working, Serving
<1>4. Quiet(i)
  BY <1>2, <1>3 DEF Quiet, Started
<1>5. r.enabled /\ r.pipeline # <<>>
  BY <1>3 DEF Working, Serving, Started
<1>6. Serving(i, q)
  BY <1>2, <1>4, <1>5, QuietServes DEF Working, Serving
<1>7. /\ Serving(Start(i), q) /\ Started(Start(i))
      /\ Start(i).pipeline = i.pipeline /\ Start(i).enabled = i.enabled
  BY <1>2, <1>5, <1>6, StartServes
<1> QED
  BY <1>2, <1>5, <1>7 DEF Working, i

LEMMA FailureWorks ==
    ASSUME NEW q, NEW r, Working(r, q), r.stream \in {"Starting", "Open"}
    PROVE  /\ Close(r, "Error").pipeline = <<>> => Working(Close(r, "Error"), q)
           /\ Close(r, "Error").pipeline # <<>> => Working(Start(Close(r, "Error")), q)
<1> DEFINE c == Close(r, "Error")
<1>1. r \in Remote
  BY DEF Working, Serving
<1>2. c \in Remote /\ Quiet(c) /\ c.pipeline = r.pipeline /\ c.enabled = r.enabled
  BY <1>1, CloseIs
<1> HIDE DEF c
<1>3. r.enabled
  <2>1. Started(r)
    BY DEF Started
  <2> QED
    BY <2>1 DEF Working, Serving
<1>4. Serving(c, q)
  BY <1>2, <1>3, QuietServes DEF Working, Serving
<1>5. ASSUME c.pipeline = <<>>
      PROVE  Working(c, q)
  BY <1>2, <1>4, <1>5 DEF Working
<1>6. ASSUME c.pipeline # <<>>
      PROVE  Working(Start(c), q)
  <2>1. /\ Serving(Start(c), q) /\ Started(Start(c))
        /\ Start(c).pipeline = c.pipeline /\ Start(c).enabled = c.enabled
    BY <1>2, <1>3, <1>4, <1>6, StartServes
  <2> QED
    BY <1>2, <2>1 DEF Working
<1> QED
  BY <1>5, <1>6 DEF c

\* A new batch at the end of the queue leaves the pipeline at its front.
LEMMA ServesLonger ==
    ASSUME NEW q \in Seq(Batch), NEW b \in Batch, NEW r, Serving(r, q)
    PROVE  Serving(r, Append(q, b))
<1>1. r.pipeline \in Seq(Batch)
  BY RemoteFields DEF Serving
<1>2. Len(r.pipeline) <= Len(q) /\ \A i \in DOMAIN r.pipeline : r.pipeline[i] = q[i]
  BY DEF Serving, IsFront
<1>3. /\ Len(Append(q, b)) = Len(q) + 1
      /\ \A i \in 1 .. Len(q) : Append(q, b)[i] = q[i]
  BY SeqAppend
<1>4. Len(q) \in Nat /\ Len(r.pipeline) \in Nat /\ DOMAIN r.pipeline = 1 .. Len(r.pipeline)
  BY <1>1, SeqLen
<1> DEFINE a == Append(q, b)
           n == Len(q)
<1>5. IsFront(r.pipeline, a)
  <2>1. Len(a) = n + 1 /\ n \in Nat /\ \A i \in 1 .. n : a[i] = q[i]
    BY <1>3, <1>4
  <2>2. Len(r.pipeline) <= n
    BY <1>2
  <2> HIDE DEF a, n
  <2>3. \A i \in DOMAIN r.pipeline : i \in 1 .. n
    BY <1>4, <2>1, <2>2
  <2> QED
    BY <1>2, <1>4, <2>1, <2>2, <2>3 DEF IsFront
<1> QED
  BY <1>5 DEF Serving

\* The front of the queue is taken off, and off the pipeline.
LEMMA FrontAfterTail ==
    ASSUME NEW q \in Seq(Batch), NEW p \in Seq(Batch), IsFront(p, q), p # <<>>
    PROVE  /\ q # <<>> /\ p[1] = q[1] /\ Head(p) = q[1]
           /\ IsFront(Tail(p), Tail(q)) /\ Len(Tail(p)) <= Len(p)
<1>1. /\ Len(p) \in Nat /\ Len(p) > 0 /\ DOMAIN p = 1 .. Len(p) /\ Len(q) \in Nat
      /\ (q # <<>> <=> Len(q) > 0)
  BY SeqLen
<1>2. Len(p) <= Len(q) /\ \A i \in DOMAIN p : p[i] = q[i]
  BY DEF IsFront
<1>3. q # <<>>
  BY <1>1, <1>2
<1> DEFINE tp == Tail(p)
           tq == Tail(q)
<1>4. /\ Head(p) = p[1] /\ tp \in Seq(Batch) /\ Len(tp) = Len(p) - 1
      /\ \A i \in 1 .. Len(p) - 1 : tp[i] = p[i + 1]
      /\ Len(tq) = Len(q) - 1 /\ \A i \in 1 .. Len(q) - 1 : tq[i] = q[i + 1]
  BY <1>3, SeqTail
<1>5. DOMAIN tp = 1 .. Len(p) - 1
  BY <1>4, SeqLen
<1>6. p[1] = q[1]
  <2>1. 1 \in DOMAIN p
    BY <1>1
  <2> QED
    BY <1>2, <2>1
<1> HIDE DEF tp, tq
<1>7. \A i \in DOMAIN tp : i \in 1 .. Len(p) - 1 /\ i \in 1 .. Len(q) - 1 /\ i + 1 \in DOMAIN p
  BY <1>1, <1>2, <1>5
<1>8. \A i \in DOMAIN tp : tp[i] = tq[i]
  BY <1>2, <1>4, <1>7
<1>9. Len(tp) <= Len(tq) /\ Len(tp) <= Len(p)
  BY <1>1, <1>2, <1>4
<1> QED
  BY <1>3, <1>4, <1>6, <1>8, <1>9 DEF IsFront, tp, tq

LEMMA InFlightAfterTail ==
    ASSUME NEW r \in Remote, InFlight(r), r.responses # <<>>, NEW s,
           s.responses = Tail(r.responses), s.requests = r.requests, s.pipeline = Tail(r.pipeline)
    PROVE  r.pipeline # <<>> /\ r.responses[1].batch = r.pipeline[1] /\ InFlight(s)
<1> DEFINE a == Len(r.responses)
           b == Len(r.requests)
           c == Len(r.pipeline)
<1>1. r.pipeline \in Seq(Batch) /\ r.requests \in Seq(Request) /\ r.responses \in Seq(Response)
  BY RemoteFields
<1>2. /\ a \in Nat /\ b \in Nat /\ c \in Nat /\ a > 0
      /\ DOMAIN r.responses = 1 .. a /\ DOMAIN r.requests = 1 .. b
      /\ (r.pipeline # <<>> <=> c > 0)
  BY <1>1, SeqLen
<1>3. /\ a + b = c
      /\ \A i \in 1 .. a : r.responses[i].batch = r.pipeline[i]
      /\ \A i \in 1 .. b : r.requests[i] = r.pipeline[a + i]
  BY <1>2 DEF InFlight
<1>4. r.pipeline # <<>>
  <2>1. c > 0
    <3> HIDE DEF a, b, c
    <3> QED
      BY <1>2, <1>3
  <2> QED
    BY <1>2, <2>1
<1>5. /\ Tail(r.responses) \in Seq(Response) /\ Len(s.responses) = a - 1
      /\ \A i \in 1 .. a - 1 : s.responses[i] = r.responses[i + 1]
  BY <1>1, SeqTail
<1>6. /\ Len(s.pipeline) = c - 1
      /\ \A i \in 1 .. c - 1 : s.pipeline[i] = r.pipeline[i + 1]
  BY <1>1, <1>4, SeqTail
<1>7. DOMAIN s.responses = 1 .. a - 1 /\ DOMAIN s.requests = 1 .. b /\ Len(s.requests) = b
  BY <1>2, <1>5, SeqLen
<1> HIDE DEF a, b, c
<1>8. \A i \in 1 .. a - 1 : i \in 1 .. c - 1 /\ i + 1 \in 1 .. a
  BY <1>2, <1>3
<1>9. \A i \in 1 .. b : (a - 1) + i \in 1 .. c - 1 /\ ((a - 1) + i) + 1 = a + i
  BY <1>2, <1>3
<1>10. \A i \in DOMAIN s.responses : s.responses[i].batch = s.pipeline[i]
  BY <1>3, <1>5, <1>6, <1>7, <1>8
<1>11. \A i \in DOMAIN s.requests : s.requests[i] = s.pipeline[Len(s.responses) + i]
  <2>1. \A i \in 1 .. b : s.pipeline[(a - 1) + i] = r.pipeline[a + i]
    BY <1>6, <1>9
  <2> QED
    BY <2>1, <1>3, <1>5, <1>7
<1>12. Len(s.responses) + Len(s.requests) = Len(s.pipeline)
  <2> DEFINE x == Len(s.responses)
             y == Len(s.requests)
             z == Len(s.pipeline)
  <2>1. x = a - 1 /\ y = b /\ z = c - 1
    BY <1>5, <1>6, <1>7
  <2> HIDE DEF x, y, z
  <2>2. x + y = z
    BY <2>1, <1>2, <1>3
  <2> QED
    BY <2>2 DEF x, y, z
<1>13. r.responses[1].batch = r.pipeline[1]
  BY <1>2, <1>3
<1> QED
  BY <1>4, <1>10, <1>11, <1>12, <1>13 DEF InFlight

LEMMA AcknowledgedServes ==
    ASSUME NEW q \in Seq(Batch), NEW r, Working(r, q), r.handshake, r.responses # <<>>, NEW s,
           s = [r EXCEPT !.pipeline = Tail(@), !.responses = Tail(@)]
    PROVE  r.pipeline # <<>> /\ r.responses[1].batch = r.pipeline[1] /\ Serving(s, Tail(q))
<1>1. /\ r \in Remote /\ r.pipeline \in Seq(Batch) /\ r.responses \in Seq(Response)
      /\ r.stream = "Open" /\ InFlight(r) /\ IsFront(r.pipeline, q)
      /\ Len(r.pipeline) <= MaxPendingWrites
  BY RemoteFields DEF Working, Serving
<1> DEFINE p == Tail(r.pipeline)
           a == Tail(r.responses)
<1>2. s = [r EXCEPT !.pipeline = p, !.responses = a]
  OBVIOUS
<1>3. s.responses = a /\ s.requests = r.requests /\ s.pipeline = p
  <2> HIDE DEF p, a
  <2> QED
    BY <1>1, <1>2 DEF Remote
<1>4. r.pipeline # <<>> /\ r.responses[1].batch = r.pipeline[1] /\ InFlight(s)
  BY <1>1, <1>3, InFlightAfterTail
<1>5. p \in Seq(Batch) /\ a \in Seq(Response)
  BY <1>1, <1>4, SeqTail
<1>6. IsFront(p, Tail(q)) /\ Len(p) <= Len(r.pipeline)
  BY <1>1, <1>4, FrontAfterTail
<1>7. Len(p) <= MaxPendingWrites
  <2>1. Len(p) \in Nat /\ Len(r.pipeline) \in Nat /\ MaxPendingWrites \in Nat
    BY <1>1, <1>5, SeqLen, PipelineAssumption
  <2> HIDE DEF p
  <2> QED
    BY <1>1, <1>6, <2>1
<1> HIDE DEF p, a
<1>8. /\ s \in Remote /\ s.enabled = r.enabled /\ s.asked = r.asked
      /\ s.stream = r.stream /\ s.handshake = r.handshake /\ s.idle = r.idle
  BY <1>1, <1>2, <1>5 DEF Remote
<1>9. ~r.idle /\ r.enabled
  BY <1>4 DEF Working, Serving
<1>10. "now" \in s.asked <=> s.stream = "Starting"
  BY <1>8 DEF Working, Serving
<1> QED
  BY <1>1, <1>3, <1>4, <1>6, <1>7, <1>8, <1>9, <1>10 DEF Serving

LEMMA RefusedServes ==
    ASSUME NEW q \in Seq(Batch), NEW r, Working(r, q), r.pipeline # <<>>, NEW s,
           s = [Close(r, "Initial") EXCEPT !.pipeline = Tail(@)]
    PROVE  Serving(s, Tail(q))
<1> DEFINE c == Close(r, "Initial")
<1>1. /\ r \in Remote /\ r.pipeline \in Seq(Batch) /\ IsFront(r.pipeline, q)
      /\ Len(r.pipeline) <= MaxPendingWrites /\ r.enabled
  BY RemoteFields DEF Working, Serving
<1>2. c \in Remote /\ Quiet(c) /\ c.pipeline = r.pipeline /\ c.enabled = r.enabled
  BY <1>1, CloseIs
<1> DEFINE p == Tail(r.pipeline)
<1>3. p \in Seq(Batch) /\ IsFront(p, Tail(q)) /\ Len(p) <= Len(r.pipeline)
  BY <1>1, SeqTail, FrontAfterTail
<1>4. s = [c EXCEPT !.pipeline = p]
  BY <1>2
<1>5. Len(p) <= MaxPendingWrites
  <2>1. Len(p) \in Nat /\ Len(r.pipeline) \in Nat /\ MaxPendingWrites \in Nat
    BY <1>1, <1>3, SeqLen, PipelineAssumption
  <2> HIDE DEF p
  <2> QED
    BY <1>1, <1>3, <2>1
<1> HIDE DEF c, p
<1>6. /\ s \in Remote /\ s.enabled = c.enabled /\ s.asked = c.asked /\ s.pipeline = p
      /\ s.stream = c.stream /\ s.handshake = c.handshake /\ s.idle = c.idle
      /\ s.requests = c.requests /\ s.responses = c.responses
  BY <1>2, <1>3, <1>4 DEF Remote
<1>7. Quiet(s)
  BY <1>2, <1>6 DEF Quiet, Started
<1> QED
  BY <1>1, <1>2, <1>3, <1>5, <1>6, <1>7, QuietServes

\* The server answers the request it reads.
LEMMA InFlightAfterAnswer ==
    ASSUME NEW r \in Remote, InFlight(r), r.requests # <<>>, NEW s, NEW x \in Response,
           x.batch = Head(r.requests),
           s.responses = Append(r.responses, x), s.requests = Tail(r.requests), s.pipeline = r.pipeline
    PROVE  InFlight(s) /\ Head(r.requests) = r.pipeline[Len(r.responses) + 1]
<1> DEFINE a == Len(r.responses)
           b == Len(r.requests)
           c == Len(r.pipeline)
<1>1. r.pipeline \in Seq(Batch) /\ r.requests \in Seq(Request) /\ r.responses \in Seq(Response)
  BY RemoteFields
<1>2. /\ a \in Nat /\ b \in Nat /\ c \in Nat /\ b > 0
      /\ DOMAIN r.responses = 1 .. a /\ DOMAIN r.requests = 1 .. b
  BY <1>1, SeqLen
<1>3. /\ a + b = c
      /\ \A i \in 1 .. a : r.responses[i].batch = r.pipeline[i]
      /\ \A i \in 1 .. b : r.requests[i] = r.pipeline[a + i]
  BY <1>2 DEF InFlight
<1>4. /\ s.responses \in Seq(Response) /\ Len(s.responses) = a + 1
      /\ \A i \in 1 .. a : s.responses[i] = r.responses[i]
      /\ s.responses[a + 1] = x
  BY <1>1, SeqAppend
<1>5. /\ s.requests \in Seq(Request) /\ Len(s.requests) = b - 1
      /\ \A i \in 1 .. b - 1 : s.requests[i] = r.requests[i + 1]
      /\ Head(r.requests) = r.requests[1]
  BY <1>1, SeqTail
<1>6. DOMAIN s.responses = 1 .. a + 1 /\ DOMAIN s.requests = 1 .. b - 1
  BY <1>4, <1>5, SeqLen
<1>7. x.batch = r.requests[1]
  BY <1>5
<1> HIDE DEF a, b, c
<1>8. r.requests[1] = r.pipeline[a + 1]
  BY <1>2, <1>3
<1>9. ASSUME NEW i \in 1 .. a + 1
      PROVE  s.responses[i].batch = s.pipeline[i]
  <2>1. CASE i = a + 1
    BY <2>1, <1>4, <1>7, <1>8
  <2>2. CASE i # a + 1
    <3>1. i \in 1 .. a
      BY <2>2, <1>2
    <3> QED
      BY <3>1, <1>3, <1>4
  <2> QED
    BY <2>1, <2>2
<1>10. \A i \in 1 .. b - 1 : s.requests[i] = s.pipeline[(a + 1) + i]
  <2>1. \A i \in 1 .. b - 1 : i + 1 \in 1 .. b /\ a + (i + 1) = (a + 1) + i
    BY <1>2
  <2>2. \A i \in 1 .. b - 1 : r.requests[i + 1] = r.pipeline[a + (i + 1)]
    BY <2>1, <1>3
  <2> QED
    BY <2>1, <2>2, <1>5
<1>11. Len(s.responses) + Len(s.requests) = Len(s.pipeline)
  <2> DEFINE u == Len(s.responses)
             v == Len(s.requests)
             w == Len(s.pipeline)
  <2>1. u = a + 1 /\ v = b - 1 /\ w = c
    BY <1>4, <1>5 DEF c
  <2> HIDE DEF u, v, w
  <2>2. u + v = w
    BY <2>1, <1>2, <1>3
  <2> QED
    BY <2>2 DEF u, v, w
<1> QED
  BY <1>4, <1>5, <1>6, <1>8, <1>9, <1>10, <1>11 DEF InFlight, a

LEMMA AnswerWorks ==
    ASSUME NEW q, NEW r, Working(r, q), r.requests # <<>>, NEW ok \in BOOLEAN, NEW s,
           s = [r EXCEPT !.requests = Tail(@),
                         !.responses = Append(@, [batch |-> Head(r.requests), ok |-> ok])]
    PROVE  Working(s, q)
<1>1. /\ r \in Remote /\ r.requests \in Seq(Request) /\ r.responses \in Seq(Response)
      /\ r.stream = "Open"
  BY RemoteFields DEF Working, Serving
<1> DEFINE x == [batch |-> Head(r.requests), ok |-> ok]
           a == Append(r.responses, x)
           b == Tail(r.requests)
<1>2. x \in Response /\ x.batch = Head(r.requests) /\ b \in Seq(Request)
  <2>1. Head(r.requests) \in Request /\ b \in Seq(Request)
    BY <1>1, SeqTail
  <2> HIDE DEF b
  <2> QED
    BY <2>1 DEF Response
<1>3. s = [r EXCEPT !.requests = b, !.responses = a]
  OBVIOUS
<1> HIDE DEF x
<1>4. a \in Seq(Response)
  BY <1>1, <1>2, SeqAppend
<1>5. /\ s \in Remote /\ s.enabled = r.enabled /\ s.asked = r.asked /\ s.pipeline = r.pipeline
      /\ s.stream = r.stream /\ s.handshake = r.handshake /\ s.idle = r.idle
      /\ s.requests = b /\ s.responses = a
  <2> HIDE DEF a, b
  <2> QED
    BY <1>1, <1>2, <1>3, <1>4, ZenonT(60) DEF Remote
<1>6. r.handshake => InFlight(s)
  <2>1. SUFFICES ASSUME r.handshake PROVE InFlight(s)
    OBVIOUS
  <2>2. InFlight(r)
    BY <2>1 DEF Working, Serving
  <2> QED
    BY <2>2, <1>1, <1>2, <1>5, InFlightAfterAnswer
<1>7. ~r.handshake => Greeting(s)
  <2>1. SUFFICES ASSUME ~r.handshake PROVE Greeting(s)
    OBVIOUS
  <2>2. r.requests = <<Hello>> /\ r.responses = <<>>
    BY <2>1, <1>1 DEF Working, Serving, Greeting
  <2>3. s.requests = <<>> /\ Len(s.responses) = 1
    BY <2>2, <1>5
  <2> QED
    BY <2>3 DEF Greeting
<1>8. (Started(s) <=> Started(r)) /\ ("now" \in s.asked <=> "now" \in r.asked)
  BY <1>5 DEF Started
<1> HIDE DEF a, b
<1> QED
  BY <1>1, <1>5, <1>6, <1>7, <1>8 DEF Working, Serving

-----------------------------------------------------------------------------
(***************************************************************************)
(* The queues, and the inductive invariant of what is sent.                *)
(***************************************************************************)

\* Every queue is sorted; its batches have been numbered by the queue, and its
\* writes are its user's.
QueueSound ==
    /\ queue \in [Users -> Seq(Batch)]
    /\ user \in Users
    /\ nextId \in Nat \ {0}
    /\ author \in Seq(Users) /\ Len(author) <= MaxWrites
    /\ \A u \in Users : Sorted(queue[u])
    /\ \A u \in Users : \A i \in DOMAIN queue[u] :
          /\ queue[u][i].id < nextId
          /\ queue[u][i].write <= Len(author)
          /\ author[queue[u][i].write] = u

WorkInv == QueueSound /\ Working(remote, queue[user])

LEMMA SortedAppend ==
    ASSUME NEW q \in Seq(Batch), Sorted(q), NEW b \in Batch,
           \A i \in DOMAIN q : q[i].id < b.id /\ q[i].write < b.write
    PROVE  Sorted(Append(q, b))
<1> DEFINE a == Append(q, b)
           n == Len(q)
<1>1. /\ a \in Seq(Batch) /\ Len(a) = n + 1 /\ a[n + 1] = b
      /\ \A i \in 1 .. n : a[i] = q[i]
  BY SeqAppend
<1>2. n \in Nat /\ DOMAIN q = 1 .. n /\ DOMAIN a = 1 .. n + 1
  BY <1>1, SeqLen
<1> HIDE DEF a, n
<1>3. ASSUME NEW i \in DOMAIN a, NEW j \in DOMAIN a, i < j
      PROVE  a[i].id < a[j].id /\ a[i].write < a[j].write
  <2>1. i \in 1 .. n /\ a[i] = q[i]
    BY <1>1, <1>2, <1>3
  <2>2. CASE j = n + 1
    <3>1. a[j] = b
      BY <2>2, <1>1
    <3>2. q[i].id < b.id /\ q[i].write < b.write
      BY <2>1, <1>2
    <3> QED
      BY <2>1, <3>1, <3>2
  <2>3. CASE j # n + 1
    <3>1. j \in 1 .. n /\ a[j] = q[j]
      BY <2>3, <1>1, <1>2
    <3> QED
      BY <2>1, <3>1, <1>2, <1>3 DEF Sorted
  <2> QED
    BY <2>2, <2>3
<1> QED
  BY <1>3 DEF Sorted, a

LEMMA SortedTail ==
    ASSUME NEW q \in Seq(Batch), Sorted(q), q # <<>>
    PROVE  /\ Tail(q) \in Seq(Batch) /\ Sorted(Tail(q))
           /\ DOMAIN Tail(q) = 1 .. Len(q) - 1
           /\ \A i \in DOMAIN Tail(q) : i + 1 \in 2 .. Len(q) /\ i + 1 \in DOMAIN q /\ Tail(q)[i] = q[i + 1]
<1> DEFINE t == Tail(q)
           n == Len(q)
<1>1. t \in Seq(Batch) /\ Len(t) = n - 1 /\ \A i \in 1 .. n - 1 : t[i] = q[i + 1]
  BY SeqTail
<1>2. n \in Nat /\ DOMAIN q = 1 .. n /\ DOMAIN t = 1 .. n - 1
  BY <1>1, SeqLen
<1> HIDE DEF t, n
<1>3. \A i \in 1 .. n - 1 : i + 1 \in 2 .. n /\ i + 1 \in DOMAIN q
  BY <1>2
<1>4. ASSUME NEW i \in DOMAIN t, NEW j \in DOMAIN t, i < j
      PROVE  t[i].id < t[j].id /\ t[i].write < t[j].write
  <2>1. i + 1 \in DOMAIN q /\ j + 1 \in DOMAIN q /\ i + 1 < j + 1 /\ t[i] = q[i + 1] /\ t[j] = q[j + 1]
    BY <1>1, <1>2, <1>3, <1>4
  <2> QED
    BY <2>1 DEF Sorted
<1> QED
  BY <1>1, <1>2, <1>3, <1>4 DEF Sorted, t, n

\* LoadNextBatchIdFromDb gives a number no batch on disk has.
LEMMA NextBatchIdIs ==
    ASSUME NEW queues \in [Users -> Seq(Batch)], NEW n \in Nat \ {0},
           \A u \in Users : \A i \in DOMAIN queues[u] : queues[u][i].id < n
    PROVE  /\ NextBatchId(queues) \in Nat \ {0}
           /\ \A u \in Users : \A i \in DOMAIN queues[u] : queues[u][i].id < NextBatchId(queues)
<1> DEFINE ids(u) == {queues[u][i].id : i \in DOMAIN queues[u]}
           S == {0} \cup UNION {ids(u) : u \in Users}
           m == Max(S)
<1>1. \A u \in Users : \A i \in DOMAIN queues[u] : queues[u][i].id \in S
  OBVIOUS
<1>2. ASSUME NEW x \in S
      PROVE  x \in 0 .. n
  <2>1. CASE x = 0
    BY <2>1
  <2>2. CASE x \in UNION {ids(u) : u \in Users}
    <3>1. PICK u \in Users : x \in ids(u)
      BY <2>2
    <3>2. PICK i \in DOMAIN queues[u] : x = queues[u][i].id
      BY <3>1
    <3>3. queues[u][i] \in Batch
      BY SeqLen
    <3>4. x \in Nat /\ x < n
      BY <3>2, <3>3, BatchFields
    <3> QED
      BY <3>4
  <2> QED
    BY <2>1, <2>2
<1>3. S \subseteq 0 .. n /\ S # {}
  BY <1>2
<1>4. m \in S /\ \A y \in S : m >= y
  <2> HIDE DEF S
  <2>1. n \in Nat
    OBVIOUS
  <2> QED
    BY <1>3, <2>1, MaxIsGreatest
<1>5. NextBatchId(queues) = 1 + m
  BY DEF NextBatchId
<1> HIDE DEF S, m
<1>6. \A y \in S : y \in Nat
  <2>1. \A y \in 0 .. n : y \in Nat
    OBVIOUS
  <2> QED
    BY <1>3, <2>1, Zenon
<1>7. m \in Nat
  BY <1>4, <1>6, Zenon
<1>8. ASSUME NEW u \in Users, NEW i \in DOMAIN queues[u]
      PROVE  queues[u][i].id < 1 + m
  <2> DEFINE x == queues[u][i].id
  <2>1. x \in S
    BY <1>1
  <2> HIDE DEF x
  <2>2. x \in Nat /\ m >= x
    BY <2>1, <1>4, <1>6, Zenon
  <2>3. x < 1 + m
    BY <2>2, <1>7
  <2> QED
    BY <2>3 DEF x
<1> QED
  BY <1>5, <1>7, <1>8

\* What a queue is after its oldest batch was settled.
LEMMA SettledQueue ==
    ASSUME WorkInv, remote.pipeline # <<>>, NEW answer, Settled(Front, answer)
    PROVE  /\ queue[user] # <<>> /\ Front = queue[user][1]
           /\ queue' = [queue EXCEPT ![user] = Tail(@)]
           /\ queue'[user] = Tail(queue[user]) /\ user' = user
           /\ QueueSound'
<1> DEFINE q == queue[user]
<1>1. /\ q \in Seq(Batch) /\ Sorted(q) /\ user \in Users
      /\ remote.pipeline \in Seq(Batch) /\ IsFront(remote.pipeline, q)
  BY RemoteFields DEF WorkInv, QueueSound, Working, Serving
<1>2. q # <<>> /\ Front = q[1]
  BY <1>1, FrontAfterTail DEF Front
<1>3. Without(q, Front.id) = Tail(q)
  BY <1>1, <1>2, WithoutFirst
<1>4. queue' = [queue EXCEPT ![user] = Tail(q)] /\ user' = user /\ nextId' = nextId /\ author' = author
  BY <1>3 DEF Settled
<1> DEFINE t == Tail(q)
<1>5. /\ t \in Seq(Batch) /\ Sorted(t)
      /\ \A i \in DOMAIN t : i + 1 \in DOMAIN q /\ t[i] = q[i + 1]
  BY <1>1, <1>2, SortedTail
<1>6. queue \in [Users -> Seq(Batch)]
  BY DEF WorkInv, QueueSound
<1> HIDE DEF t
<1>7. queue' \in [Users -> Seq(Batch)] /\ \A u \in Users : queue'[u] = IF u = user THEN t ELSE queue[u]
  BY <1>4, <1>5, <1>6 DEF t
<1>8. \A u \in Users : Sorted(queue'[u])
  BY <1>5, <1>7 DEF WorkInv, QueueSound
<1>9. ASSUME NEW u \in Users, NEW i \in DOMAIN queue'[u]
      PROVE  /\ queue'[u][i].id < nextId
             /\ queue'[u][i].write <= Len(author)
             /\ author[queue'[u][i].write] = u
  <2>1. CASE u = user
    BY <2>1, <1>5, <1>7 DEF WorkInv, QueueSound
  <2>2. CASE u # user
    BY <2>2, <1>7 DEF WorkInv, QueueSound
  <2> QED
    BY <2>1, <2>2
<1>10. QueueSound'
  BY <1>4, <1>7, <1>8, <1>9 DEF WorkInv, QueueSound
<1> QED
  BY <1>2, <1>4, <1>7, <1>1, <1>10 DEF t

LEMMA SoundUnchanged ==
    ASSUME QueueSound, UNCHANGED <<queue, user, nextId, author>>
    PROVE  QueueSound'
BY DEF QueueSound

LEMMA SignedInQueue ==
    ASSUME QueueSound, NEW u \in Users
    PROVE  queue[u] \in Seq(Batch) /\ Sorted(queue[u])
BY DEF QueueSound

LEMMA WorkInvInit ==
    ASSUME Init
    PROVE  WorkInv
<1> USE DEF Init
<1>1. queue[user] = <<>> /\ user \in Users
  BY UsersAssumption
<1>2. <<>> \in Seq(Batch) /\ Sorted(<<>>)
  BY RequestTypes DEF Sorted
<1>3. Working(remote, queue[user])
  BY <1>1, <1>2, FreshWorks
<1>4. queue \in [Users -> Seq(Batch)]
  BY <1>2
<1>5. author \in Seq(Users) /\ Len(author) <= MaxWrites
  BY BoundsAssumption
<1>6. \A u \in Users : Sorted(queue[u]) /\ DOMAIN queue[u] = {}
  BY <1>2
<1>7. QueueSound
  BY <1>1, <1>4, <1>5, <1>6 DEF QueueSound
<1> QED
  BY <1>3, <1>7 DEF WorkInv

LEMMA IssuedQueue ==
    ASSUME WorkInv, WriteMutations
    PROVE  LET batch == [id |-> nextId, write |-> Len(author) + 1]
           IN  /\ batch \in Batch /\ batch.write \in Writes
               /\ queue' = [queue EXCEPT ![user] = Append(@, batch)]
               /\ queue'[user] = Append(queue[user], batch)
               /\ author' = Append(author, user) /\ Len(author') = Len(author) + 1
               /\ author'[Len(author) + 1] = user
               /\ \A w \in 1 .. Len(author) : author'[w] = author[w]
               /\ user' = user
               /\ QueueSound'
<1> DEFINE w == Len(author) + 1
           batch == [id |-> nextId, write |-> w]
           q == queue[user]
           a == Append(q, batch)
<1>1. /\ w \in Writes /\ author' = Append(author, user) /\ queue' = [queue EXCEPT ![user] = a]
      /\ nextId' = nextId + 1 /\ user' = user
  BY DEF WriteMutations
<1>2. /\ queue \in [Users -> Seq(Batch)] /\ user \in Users /\ nextId \in Nat \ {0}
      /\ author \in Seq(Users) /\ q \in Seq(Batch) /\ Sorted(q)
  BY DEF WorkInv, QueueSound
<1>3. batch \in Batch
  BY <1>1, <1>2 DEF Batch
<1>4. \A u \in Users : \A i \in DOMAIN queue[u] :
          /\ queue[u][i].id < nextId /\ queue[u][i].write <= Len(author)
          /\ author[queue[u][i].write] = u
  BY DEF WorkInv, QueueSound
<1>5. \A u \in Users : \A i \in DOMAIN queue[u] :
          queue[u][i].id \in Nat \ {0} /\ queue[u][i].write \in Nat \ {0}
  <2>1. \A u \in Users : \A i \in DOMAIN queue[u] : queue[u][i] \in Batch
    BY <1>2, SeqLen
  <2> QED
    BY <2>1, BatchFields, WritesAreNat
<1>6. Len(author) \in Nat
  BY <1>2, SeqLen
<1>7. \A u \in Users : \A i \in DOMAIN queue[u] :
          queue[u][i].id < nextId + 1 /\ queue[u][i].write < w /\ queue[u][i].write \in 1 .. Len(author)
  BY <1>2, <1>4, <1>5, <1>6
<1>8. /\ a \in Seq(Batch) /\ Len(a) = Len(q) + 1
      /\ \A i \in 1 .. Len(q) : a[i] = q[i]
      /\ a[Len(q) + 1] = batch
  <2> HIDE DEF batch, q
  <2> QED
    BY <1>2, <1>3, SeqAppend
<1>9. Sorted(a)
  <2>1. \A i \in DOMAIN q : q[i].id < batch.id /\ q[i].write < batch.write
    BY <1>2, <1>4, <1>7
  <2> HIDE DEF batch, q
  <2> QED
    BY <1>2, <1>3, <2>1, SortedAppend
<1>10. Len(q) \in Nat /\ DOMAIN q = 1 .. Len(q) /\ DOMAIN a = 1 .. Len(a)
  BY <1>2, <1>8, SeqLen
<1>11. /\ author' \in Seq(Users) /\ Len(author') = w /\ author'[w] = user
       /\ \A x \in 1 .. Len(author) : author'[x] = author[x]
  BY <1>1, <1>2, SeqAppend
<1> HIDE DEF a
<1>12. /\ queue' \in [Users -> Seq(Batch)]
       /\ \A u \in Users : queue'[u] = IF u = user THEN a ELSE queue[u]
  BY <1>1, <1>2, <1>8
<1>13. ASSUME NEW u \in Users, NEW i \in DOMAIN queue'[u]
       PROVE  /\ queue'[u][i].id < nextId'
              /\ queue'[u][i].write <= Len(author')
              /\ author'[queue'[u][i].write] = u
  <2>1. CASE i \in DOMAIN queue[u] /\ queue'[u][i] = queue[u][i]
    <3>1. /\ queue[u][i].id < nextId + 1 /\ queue[u][i].write < w
          /\ queue[u][i].write \in 1 .. Len(author) /\ author[queue[u][i].write] = u
      BY <2>1, <1>4, <1>7
    <3>2. author'[queue[u][i].write] = u
      BY <3>1, <1>11
    <3>3. queue[u][i].write <= w
      BY <3>1, <1>6
    <3> QED
      BY <2>1, <3>1, <3>2, <3>3, <1>1, <1>11
  <2>2. CASE u = user /\ i = Len(q) + 1
    <3>1. queue'[u][i] = batch
      BY <2>2, <1>8, <1>12
    <3>2. batch.id = nextId /\ batch.write = w
      OBVIOUS
    <3> QED
      BY <2>2, <3>1, <3>2, <1>1, <1>2, <1>6, <1>11
  <2>3. CASE u # user
    BY <2>1, <2>3, <1>12
  <2>4. CASE u = user
    <3>1. i \in 1 .. Len(q) + 1
      BY <2>4, <1>8, <1>10, <1>12
    <3>2. i = Len(q) + 1 \/ (i \in DOMAIN queue[u] /\ queue'[u][i] = queue[u][i])
      BY <2>4, <3>1, <1>8, <1>10, <1>12
    <3> QED
      BY <2>1, <2>2, <2>4, <3>2
  <2> QED
    BY <2>3, <2>4
<1>14. \A u \in Users : Sorted(queue'[u])
  BY <1>9, <1>12, <1>2 DEF WorkInv, QueueSound
<1>15. w <= MaxWrites
  BY <1>1 DEF Writes
<1>16. QueueSound'
  <2>1. nextId' \in Nat \ {0} /\ Len(author') <= MaxWrites
    BY <1>1, <1>2, <1>11, <1>15
  <2> QED
    BY <2>1, <1>1, <1>2, <1>11, <1>12, <1>13, <1>14 DEF QueueSound
<1>17. queue'[user] = a
  BY <1>2, <1>12
<1> QED
  BY <1>1, <1>3, <1>11, <1>16, <1>17 DEF a

LEMMA WorkInvStep ==
    ASSUME WorkInv, [Next]_vars
    PROVE  WorkInv'
<1> DEFINE q == queue[user]
<1>1. /\ QueueSound /\ Working(remote, q) /\ Serving(remote, q)
      /\ q \in Seq(Batch) /\ Sorted(q) /\ user \in Users
  BY DEF WorkInv, QueueSound, Working
<1>2. ASSUME UNCHANGED <<queue, user, nextId, author>>, Working(remote', q)
      PROVE  WorkInv'
  <2>1. QueueSound'
    BY <1>1, <1>2, SoundUnchanged
  <2>2. Working(remote', queue'[user'])
    BY <1>2
  <2> QED
    BY <2>1, <2>2 DEF WorkInv
<1>3. ASSUME NEW u \in Users, queue' = queue, author' = author, user' = u, nextId' = NextBatchId(queue)
      PROVE  QueueSound'
  <2>1. queue \in [Users -> Seq(Batch)] /\ nextId \in Nat \ {0}
    BY <1>1 DEF QueueSound
  <2>2. \A v \in Users : \A i \in DOMAIN queue[v] : queue[v][i].id < nextId
    BY <1>1 DEF QueueSound
  <2>3. /\ NextBatchId(queue) \in Nat \ {0}
        /\ \A v \in Users : \A i \in DOMAIN queue[v] : queue[v][i].id < NextBatchId(queue)
    BY <2>1, <2>2, NextBatchIdIs
  <2> QED
    BY <1>1, <1>3, <2>3 DEF QueueSound
<1>4. CASE WriteMutations
  <2> DEFINE b == [id |-> nextId, write |-> Len(author) + 1]
             q1 == Append(q, b)
  <2>1. /\ b \in Batch /\ queue'[user] = q1 /\ user' = user /\ QueueSound'
    BY <1>4, IssuedQueue
  <2>2. remote' = Fill(remote, queue'[user])
    BY <1>4 DEF WriteMutations
  <2>3. q1 \in Seq(Batch) /\ Sorted(q1)
    <3>1. queue'[user] \in Seq(Batch) /\ Sorted(queue'[user])
      BY <2>1, <1>1 DEF QueueSound
    <3> QED
      BY <3>1, <2>1
  <2> HIDE DEF b
  <2>4. Serving(remote, q1)
    BY <1>1, <2>1, ServesLonger
  <2> HIDE DEF q1
  <2>5. Working(Fill(remote, q1), q1)
    BY <2>3, <2>4, FillWorks
  <2> QED
    BY <2>1, <2>2, <2>5 DEF WorkInv
<1>5. CASE WaitForPendingWrites
  BY <1>1, <1>2, <1>5 DEF WaitForPendingWrites, history
<1>6. CASE EnableNetwork
  <2>1. Working(Enable(remote, q), q)
    BY <1>1, EnableWorks
  <2> QED
    BY <1>2, <1>6, <2>1 DEF EnableNetwork, history
<1>7. CASE DisableNetwork
  <2>1. Working(Disable(remote), q)
    BY <1>1, DisableWorks
  <2> QED
    BY <1>2, <1>7, <2>1 DEF DisableNetwork, history
<1>8. ASSUME NEW u \in Users, UserChanges(u)
      PROVE  WorkInv'
  <2>1. queue' = queue /\ author' = author /\ user' = u /\ nextId' = NextBatchId(queue)
    BY <1>8 DEF UserChanges, history
  <2>2. queue[u] \in Seq(Batch) /\ Sorted(queue[u])
    BY <1>1, SignedInQueue
  <2>3. Working(RestartNetwork(remote, queue[u]), queue[u])
    BY <1>1, <2>2, RestartWorks
  <2>4. Working(remote', queue'[user'])
    BY <1>8, <2>1, <2>3 DEF UserChanges
  <2> QED
    BY <1>3, <2>1, <2>4 DEF WorkInv
<1>9. CASE NetworkRestarts
  <2>1. Working(RestartNetwork(remote, q), q)
    BY <1>1, RestartWorks
  <2> QED
    BY <1>2, <1>9, <2>1 DEF NetworkRestarts, history
<1>10. ASSUME NEW t \in {"now", "before"}, CredentialsArrive(t)
       PROVE  WorkInv'
  <2>1. /\ t \in remote.asked
        /\ remote' = IF t = "before" THEN [remote EXCEPT !.asked = @ \ {t}]
                     ELSE [remote EXCEPT !.asked = @ \ {t}, !.stream = "Open", !.requests = <<Hello>>]
    BY <1>10 DEF CredentialsArrive, Stream
  <2>2. Working(remote', q)
    BY <1>1, <2>1, CredentialsWork
  <2> QED
    BY <1>2, <1>10, <2>2 DEF CredentialsArrive, Stream, history
<1>11. CASE HandshakeCompletes
  <2>1. /\ remote.stream = "Open" /\ ~remote.handshake /\ remote.responses # <<>>
        /\ remote' = [remote EXCEPT !.handshake = TRUE, !.responses = Tail(@),
                                    !.requests = @ \o remote.pipeline,
                                    !.idle = @ /\ remote.pipeline = <<>>]
    BY <1>11 DEF HandshakeCompletes, Stream
  <2>2. Working(remote', q)
    BY <1>1, <2>1, HandshakeWorks
  <2> QED
    BY <1>2, <1>11, <2>2 DEF HandshakeCompletes, Stream, history
<1>12. CASE IdleTimeout
  <2>1. Working(Stop(remote), q)
    BY <1>1, <1>12, IdleWorks DEF IdleTimeout
  <2> QED
    BY <1>2, <1>12, <2>1 DEF IdleTimeout, Stream, history
<1>13. CASE BackoffElapses
  <2>1. Working(Start([remote EXCEPT !.stream = "Initial"]), q)
    BY <1>1, <1>13, BackoffWorks DEF BackoffElapses
  <2> QED
    BY <1>2, <1>13, <2>1 DEF BackoffElapses, Stream, history
<1>14. CASE StreamFails
  <2> DEFINE c == Close(remote, "Error")
  <2>1. /\ remote.stream \in {"Starting", "Open"}
        /\ remote' = IF c.pipeline = <<>> THEN c ELSE Start(c)
    BY <1>14 DEF StreamFails, Stream
  <2>2. /\ c.pipeline = <<>> => Working(c, q)
        /\ c.pipeline # <<>> => Working(Start(c), q)
    BY <1>1, <2>1, FailureWorks
  <2> HIDE DEF c
  <2>3. Working(remote', q)
    BY <2>1, <2>2
  <2> QED
    BY <1>2, <1>14, <2>3 DEF StreamFails, Stream, history
<1>15. CASE WriteAcknowledged
  <2> DEFINE s == [remote EXCEPT !.pipeline = Tail(@), !.responses = Tail(@)]
  <2>1. /\ remote.handshake /\ remote.responses # <<>> /\ Settled(Front, "ok")
        /\ remote' = Fill(s, queue'[user])
    BY <1>15 DEF WriteAcknowledged, Acknowledged
  <2>2. remote.pipeline # <<>> /\ Serving(s, Tail(q))
    BY <1>1, <2>1, AcknowledgedServes
  <2>3. queue'[user] = Tail(q) /\ user' = user /\ QueueSound' /\ q # <<>>
    BY <2>1, <2>2, SettledQueue
  <2>4. Tail(q) \in Seq(Batch) /\ Sorted(Tail(q))
    BY <1>1, <2>3, SortedTail
  <2> HIDE DEF s
  <2>5. Working(Fill(s, Tail(q)), Tail(q))
    BY <2>2, <2>4, FillWorks
  <2> QED
    BY <2>1, <2>3, <2>5 DEF WorkInv
<1>16. CASE WriteRefused
  <2> DEFINE s == [Close(remote, "Initial") EXCEPT !.pipeline = Tail(@)]
             a == [remote EXCEPT !.pipeline = Tail(@), !.responses = Tail(@)]
  <2>1. /\ remote.handshake /\ remote.responses # <<>> /\ Settled(Front, "error")
        /\ remote' = Fill(s, queue'[user])
    BY <1>16 DEF WriteRefused
  <2>2. remote.pipeline # <<>>
    <3>1. a = [remote EXCEPT !.pipeline = Tail(@), !.responses = Tail(@)]
      OBVIOUS
    <3> HIDE DEF a
    <3> QED
      BY <1>1, <2>1, <3>1, AcknowledgedServes
  <2>3. Serving(s, Tail(q))
    BY <1>1, <2>2, RefusedServes
  <2>4. queue'[user] = Tail(q) /\ user' = user /\ QueueSound' /\ q # <<>>
    BY <2>1, <2>2, SettledQueue
  <2>5. Tail(q) \in Seq(Batch) /\ Sorted(Tail(q))
    BY <1>1, <2>4, SortedTail
  <2> HIDE DEF s
  <2>6. Working(Fill(s, Tail(q)), Tail(q))
    BY <2>3, <2>5, FillWorks
  <2> QED
    BY <2>1, <2>4, <2>6 DEF WorkInv
<1>17. ASSUME Reborn, author' = author
       PROVE  WorkInv'
  <2>1. queue' = queue /\ user' = user /\ nextId' = NextBatchId(queue) /\ remote' = FreshRemote(q)
    BY <1>17 DEF Reborn
  <2>2. Working(FreshRemote(q), q)
    BY <1>1, FreshWorks
  <2>3. QueueSound'
    BY <1>1, <1>3, <1>17, <2>1
  <2> QED
    BY <2>1, <2>2, <2>3 DEF WorkInv
<1>18. CASE Restart
  BY <1>17, <1>18 DEF Restart, Reborn
<1>19. CASE CrashInAcknowledgement
  BY <1>17, <1>19 DEF CrashInAcknowledgement, Reborn
<1>20. ASSUME NEW batch, NEW ok \in BOOLEAN, Serve(batch, ok)
       PROVE  WorkInv'
  <2>1. /\ remote.requests # <<>>
        /\ remote' = [remote EXCEPT !.requests = Tail(@),
                                    !.responses = Append(@, [batch |-> Head(remote.requests), ok |-> ok])]
    BY <1>20 DEF Serve
  <2>2. Working(remote', q)
    BY <1>1, <2>1, AnswerWorks
  <2> QED
    BY <1>2, <1>20, <2>2 DEF Serve, history
<1>21. CASE ServerGreets
  BY <1>20, <1>21 DEF ServerGreets
<1>22. CASE ServerCommits
  BY <1>20, <1>22 DEF ServerCommits
<1>23. CASE ServerRefuses
  BY <1>20, <1>23 DEF ServerRefuses
<1>24. CASE UNCHANGED vars
  BY <1>1, <1>2, <1>24 DEF vars, history
<1> QED
  BY <1>4, <1>5, <1>6, <1>7, <1>8, <1>9, <1>10, <1>11, <1>12, <1>13, <1>14, <1>15, <1>16,
     <1>18, <1>19, <1>21, <1>22, <1>23, <1>24 DEF Next

\* What is sent is always sound: queues that are sorted, numbered and owned, and
\* a stream and a pipeline that have all the work there is.
THEOREM WorkInvAlways == Spec => []WorkInv
<1>1. Init => WorkInv
  BY WorkInvInit
<1>2. WorkInv /\ [Next]_vars => WorkInv'
  BY WorkInvStep
<1> QED
  BY <1>1, <1>2, PTL DEF Spec

-----------------------------------------------------------------------------
(***************************************************************************)
(* What follows of the pipeline and the stream.                            *)
(***************************************************************************)

\* The pipeline is the front of the signed-in user's queue (FillWritePipeline,
\* OnWriteStreamMutationResult, HandleWriteError), for any length of the pipeline.
THEOREM PipelineIsFrontAlways == Spec => []PipelineIsFront
<1>1. WorkInv => PipelineIsFront
  BY DEF WorkInv, Working, Serving, IsFront, PipelineIsFront
<1> QED
  BY <1>1, WorkInvAlways, PTL

LEMMA SeqOfParts ==
    ASSUME NEW S, NEW f \in Seq(S), NEW g \in Seq(S), NEW p \in Seq(S),
           Len(f) + Len(g) = Len(p),
           \A i \in 1 .. Len(f) : f[i] = p[i],
           \A i \in 1 .. Len(g) : g[i] = p[Len(f) + i]
    PROVE  f \o g = p
<1> DEFINE s == f \o g
           a == Len(f)
           b == Len(g)
<1>1. /\ s \in Seq(S) /\ Len(s) = a + b
      /\ \A i \in 1 .. a : s[i] = f[i]
      /\ \A i \in 1 .. b : s[a + i] = g[i]
  BY SeqConcat
<1>2. a \in Nat /\ b \in Nat /\ Len(p) = a + b
  BY SeqLen
<1>3. (\A i \in 1 .. a : f[i] = p[i]) /\ (\A i \in 1 .. b : g[i] = p[a + i])
  OBVIOUS
<1> HIDE DEF s, a, b
<1>4. ASSUME NEW i \in 1 .. a + b
      PROVE  s[i] = p[i]
  <2>1. CASE i <= a
    <3>1. i \in 1 .. a
      BY <2>1, <1>2
    <3> QED
      BY <3>1, <1>1, <1>3
  <2>2. CASE i > a
    <3>1. i - a \in 1 .. b /\ a + (i - a) = i
      BY <2>2, <1>2
    <3> QED
      BY <3>1, <1>1, <1>3
  <2>3. i <= a \/ i > a
    BY <1>2
  <2> QED
    BY <2>1, <2>2, <2>3
<1>5. s = p
  BY <1>1, <1>2, <1>4, SeqSame
<1> QED
  BY <1>5 DEF s

LEMMA WhatIsOwed ==
    ASSUME NEW r \in Remote, InFlight(r)
    PROVE  [i \in DOMAIN r.responses |-> r.responses[i].batch] \o r.requests = r.pipeline
<1> DEFINE f == [i \in DOMAIN r.responses |-> r.responses[i].batch]
<1>1. r.requests \in Seq(Request) /\ r.responses \in Seq(Response) /\ r.pipeline \in Seq(Request)
  BY RemoteFields, RequestTypes
<1>2. /\ Len(r.responses) \in Nat
      /\ DOMAIN r.responses = 1 .. Len(r.responses) /\ DOMAIN r.requests = 1 .. Len(r.requests)
      /\ \A i \in 1 .. Len(r.responses) : r.responses[i] \in Response
  BY <1>1, SeqLen
<1>3. f \in [1 .. Len(r.responses) -> Request]
  BY <1>2 DEF Response
<1>4. f \in Seq(Request) /\ Len(f) = Len(r.responses)
  BY <1>2, <1>3
<1>5. \A i \in 1 .. Len(f) : f[i] = r.pipeline[i]
  BY <1>2, <1>4 DEF InFlight
<1> HIDE DEF f
<1>6. /\ Len(f) + Len(r.requests) = Len(r.pipeline)
      /\ \A i \in 1 .. Len(r.requests) : r.requests[i] = r.pipeline[Len(f) + i]
  BY <1>2, <1>4 DEF InFlight
<1>7. f \o r.requests = r.pipeline
  BY <1>1, <1>4, <1>5, <1>6, SeqOfParts
<1> QED
  BY <1>7 DEF f

\* The assertions of remote_store.cc and stream.cc: no idle timer while there are
\* writes to send, no handshake without any, and the server owes the pipeline.
THEOREM StreamSoundAlways == Spec => []StreamSound
<1>1. ASSUME WorkInv
      PROVE  StreamSound
  <2>1. Serving(remote, queue[user]) /\ remote \in Remote
    BY <1>1 DEF WorkInv, Working, Serving
  <2>2. remote.idle => remote.pipeline = <<>> /\ remote.stream = "Open" /\ remote.handshake
    BY <2>1 DEF Serving
  <2>3. Started(remote) /\ ~remote.handshake => remote.pipeline # <<>>
    BY <2>1 DEF Serving
  <2>4. remote.handshake =>
            [i \in DOMAIN remote.responses |-> remote.responses[i].batch] \o remote.requests
                = remote.pipeline
    <3>1. SUFFICES ASSUME remote.handshake
                   PROVE  [i \in DOMAIN remote.responses |-> remote.responses[i].batch] \o remote.requests
                              = remote.pipeline
      OBVIOUS
    <3>2. InFlight(remote)
      BY <2>1, <3>1 DEF Serving
    <3> QED
      BY <2>1, <3>2, WhatIsOwed
  <2> QED
    BY <2>2, <2>3, <2>4 DEF StreamSound
<1> QED
  BY <1>1, WorkInvAlways, PTL

\* With the network enabled a queue that is not empty is being worked on: every
\* end of a stream (stream.cc, remote_store.cc) has somebody who starts the next.
THEOREM NeverStalledAlways == Spec => []NeverStalled
<1>1. ASSUME WorkInv, remote.enabled, queue[user] # <<>>
      PROVE  /\ remote.pipeline # <<>>
             /\ Started(remote)
             /\ remote.stream = "Starting" => "now" \in remote.asked
             /\ remote.stream = "Open" => remote.requests # <<>> \/ remote.responses # <<>>
  <2>1. /\ Working(remote, queue[user]) /\ remote \in Remote /\ queue[user] \in Seq(Batch)
    BY <1>1 DEF WorkInv, Working, Serving, QueueSound
  <2>2. /\ remote.pipeline \in Seq(Batch) /\ remote.requests \in Seq(Request)
        /\ remote.responses \in Seq(Response)
    BY <2>1, RemoteFields
  <2>3. remote.pipeline # <<>>
    <3>1. Len(queue[user]) \in Nat /\ Len(queue[user]) > 0 /\ MaxPendingWrites \in Nat \ {0}
      BY <1>1, <2>1, SeqLen, PipelineAssumption
    <3>2. Room(queue[user]) > 0
      BY <3>1 DEF Room
    <3>3. Len(remote.pipeline) = Room(queue[user])
      BY <1>1, <2>1 DEF Working
    <3> QED
      BY <2>2, <3>2, <3>3, SeqLen
  <2>4. Started(remote)
    BY <2>1, <2>3 DEF Working
  <2>5. remote.stream = "Starting" => "now" \in remote.asked
    BY <2>1 DEF Working, Serving
  <2>6. ASSUME remote.stream = "Open", remote.requests = <<>>, remote.responses = <<>>
        PROVE  FALSE
    <3>1. CASE remote.handshake
      <4>1. Len(remote.responses) + Len(remote.requests) = Len(remote.pipeline)
        BY <2>1, <3>1 DEF Working, Serving, InFlight
      <4>2. Len(remote.pipeline) = 0
        BY <2>6, <4>1
      <4> QED
        BY <2>2, <2>3, <4>2, SeqLen
    <3>2. CASE ~remote.handshake
      <4>1. Greeting(remote)
        BY <2>1, <2>6, <3>2 DEF Working, Serving
      <4> QED
        BY <2>6, <4>1 DEF Greeting
    <3> QED
      BY <3>1, <3>2
  <2> QED
    BY <2>3, <2>4, <2>5, <2>6
<1>2. WorkInv => NeverStalled
  BY <1>1 DEF NeverStalled
<1> QED
  BY <1>2, WorkInvAlways, PTL

-----------------------------------------------------------------------------
(***************************************************************************)
(* The caller: FirestoreWrites keeps the promise of WriteLog, and tells the *)
(* truth.                                                                  *)
(***************************************************************************)

\* The part of TypeOK that is not about the queues and the stream.
RestType ==
    /\ callbacks \subseteq [user : Users, batch : Batch]
    /\ waiters \subseteq [id : Nat \ {0}, for : SUBSET Writes]
    /\ told \in [Writes -> {"nothing", "ok", "error"}]
    /\ waited \subseteq Writes
    /\ lives \in Nat
    /\ done \subseteq Writes
    /\ last \in [Users -> Writes \cup {0}]
    /\ faults \in 0 .. MaxFaults

LEMMA FaultType ==
    ASSUME faults \in 0 .. MaxFaults, Fault \/ faults' = faults
    PROVE  faults' \in 0 .. MaxFaults
BY BoundsAssumption DEF Fault

LEMMA AnsweredType ==
    ASSUME RestType, NEW b, NEW answer \in {"ok", "error"}
    PROVE  Told(b, answer) \in [Writes -> {"nothing", "ok", "error"}] /\ Waited(b) \subseteq Writes
<1>1. Told(b, answer) \in [Writes -> {"nothing", "ok", "error"}]
  BY DEF RestType, Told
<1>2. \A x \in Triggered(b) : x.for \subseteq Writes
  BY DEF RestType, Triggered
<1>3. Waited(b) \subseteq Writes
  BY <1>2 DEF RestType, Waited
<1> QED
  BY <1>1, <1>3

LEMMA RestTypeInit ==
    ASSUME Init
    PROVE  RestType
BY BoundsAssumption DEF Init, RestType

LEMMA RestTypeStep ==
    ASSUME WorkInv, RestType, [Next]_vars
    PROVE  RestType'
<1>1. /\ queue[user] \in Seq(Batch) /\ user \in Users
      /\ remote \in Remote /\ IsFront(remote.pipeline, queue[user])
  BY DEF WorkInv, QueueSound, Working, Serving
<1>2. ASSUME UNCHANGED <<callbacks, waiters, told, waited, lives, done, last>>,
             Fault \/ faults' = faults
      PROVE  RestType'
  BY <1>2, FaultType DEF RestType
<1>3. ASSUME NEW answer \in {"ok", "error"}, Settled(Front, answer), faults' = faults
      PROVE  RestType'
  <2>1. /\ told' \in [Writes -> {"nothing", "ok", "error"}] /\ waited' \subseteq Writes
    BY <1>3, AnsweredType DEF Settled
  <2>2. callbacks' \subseteq callbacks /\ waiters' \subseteq waiters /\ UNCHANGED <<lives, done, last>>
    BY <1>3 DEF Settled, server
  <2> QED
    BY <2>1, <2>2, <1>3 DEF RestType
<1>4. CASE WriteMutations
  <2> DEFINE c == [user |-> user, batch |-> [id |-> nextId, write |-> Len(author) + 1]]
  <2>1. c \in [user : Users, batch : Batch]
    BY <1>1, <1>4, IssuedQueue
  <2>2. /\ callbacks' = callbacks \cup {c}
        /\ UNCHANGED <<waiters, told, waited, lives, done, last, faults>>
    BY <1>4 DEF WriteMutations, server
  <2> HIDE DEF c
  <2> QED
    BY <2>1, <2>2 DEF RestType
<1>5. CASE WaitForPendingWrites
  <2>1. /\ queue[user] # <<>> /\ waiters' = waiters \cup {[id |-> Awaited, for |-> Pending(user)]}
        /\ UNCHANGED <<callbacks, told, waited, lives, done, last, faults>>
    BY <1>5 DEF WaitForPendingWrites, history, server
  <2>2. \A i \in DOMAIN queue[user] : queue[user][i].id \in Nat \ {0} /\ queue[user][i].write \in Writes
    BY <1>1, SeqLen, BatchFields
  <2>3. Len(queue[user]) \in DOMAIN queue[user]
    BY <1>1, <2>1, SeqLen
  <2>4. Awaited \in Nat \ {0} /\ Pending(user) \in SUBSET Writes
    BY <2>2, <2>3 DEF Awaited, Pending
  <2> QED
    BY <2>1, <2>4 DEF RestType
<1>6. CASE EnableNetwork \/ DisableNetwork
  BY <1>2, <1>6 DEF EnableNetwork, DisableNetwork, history, server
<1>7. ASSUME NEW u \in Users, UserChanges(u)
      PROVE  RestType'
  <2>1. waiters' = {} /\ Fault /\ UNCHANGED <<callbacks, told, waited, lives, done, last>>
    BY <1>7 DEF UserChanges, history, server
  <2>2. faults' \in 0 .. MaxFaults
    BY <2>1, FaultType DEF RestType
  <2> QED
    BY <2>1, <2>2 DEF RestType
<1>8. CASE NetworkRestarts
  BY <1>2, <1>8 DEF NetworkRestarts, history, server
<1>9. ASSUME NEW t \in {"now", "before"}, CredentialsArrive(t)
      PROVE  RestType'
  BY <1>2, <1>9 DEF CredentialsArrive, Stream, history, server
<1>10. CASE HandshakeCompletes \/ IdleTimeout \/ BackoffElapses
  BY <1>2, <1>10 DEF HandshakeCompletes, IdleTimeout, BackoffElapses, Stream, history, server
<1>11. CASE StreamFails
  BY <1>2, <1>11 DEF StreamFails, Stream, history, server
<1>12. CASE WriteAcknowledged
  BY <1>3, <1>12 DEF WriteAcknowledged
<1>13. CASE WriteRefused
  BY <1>3, <1>13 DEF WriteRefused
<1>14. CASE Restart
  <2>1. /\ Fault /\ callbacks' = {} /\ waiters' = {} /\ lives' = lives + 1
        /\ UNCHANGED <<told, waited, done, last>>
    BY <1>14 DEF Restart, Reborn, server
  <2>2. faults' \in 0 .. MaxFaults
    BY <2>1, FaultType DEF RestType
  <2> QED
    BY <2>1, <2>2 DEF RestType
<1>15. CASE CrashInAcknowledgement
  <2>1. /\ Fault /\ callbacks' = {} /\ waiters' = {} /\ lives' = lives + 1 /\ UNCHANGED <<done, last>>
        /\ told' = Told(Front, "ok") /\ waited' = Waited(Front)
    BY <1>15 DEF CrashInAcknowledgement, Reborn, server
  <2>2. faults' \in 0 .. MaxFaults
    BY <2>1, FaultType DEF RestType
  <2>3. told' \in [Writes -> {"nothing", "ok", "error"}] /\ waited' \subseteq Writes
    BY <2>1, AnsweredType
  <2> QED
    BY <2>1, <2>2, <2>3 DEF RestType
<1>16. CASE ServerGreets
  BY <1>2, <1>16 DEF ServerGreets, Serve, history, server
<1>17. CASE ServerCommits
  <2>1. PICK batch \in Range(remote.pipeline) :
            /\ Serve(batch, TRUE) /\ done' = done \cup {batch.write}
            /\ last' = [last EXCEPT ![user] = batch.write] /\ UNCHANGED faults
    BY <1>17 DEF ServerCommits
  <2>2. batch.write \in Writes
    <3>1. remote.pipeline \in Seq(Batch)
      BY <1>1, RemoteFields
    <3>2. batch \in Batch
      BY <3>1, SeqLen DEF Range
    <3> QED
      BY <3>2, BatchFields
  <2>3. UNCHANGED <<callbacks, waiters, told, waited, lives>>
    BY <2>1 DEF Serve, history
  <2> QED
    BY <2>1, <2>2, <2>3, <1>1 DEF RestType
<1>18. CASE ServerRefuses
  BY <1>2, <1>18 DEF ServerRefuses, Serve, history, server
<1>19. CASE UNCHANGED vars
  BY <1>2, <1>19 DEF vars, history, server
<1> QED
  BY <1>4, <1>5, <1>6, <1>7, <1>8, <1>9, <1>10, <1>11, <1>12, <1>13, <1>14, <1>15, <1>16,
     <1>17, <1>18, <1>19 DEF Next

LEMMA RestTypeAlways == Spec => []RestType
<1>1. Init => RestType
  BY RestTypeInit
<1>2. WorkInv /\ RestType /\ [Next]_vars => RestType'
  BY RestTypeStep
<1> QED
  BY <1>1, <1>2, WorkInvAlways, PTL DEF Spec

\* Every variable keeps its type.
THEOREM TypesAlways == Spec => []TypeOK
<1>1. WorkInv /\ RestType => TypeOK
  BY DEF WorkInv, QueueSound, Working, Serving, RestType, TypeOK
<1> QED
  BY <1>1, WorkInvAlways, RestTypeAlways, PTL

-----------------------------------------------------------------------------
(***************************************************************************)
(* What the server has answered, it has done.                              *)
(***************************************************************************)

\* A write that an answer on its way says is committed is committed, and the
\* document of the user who is signed in holds it or a later one.
AnswersHold ==
    remote.handshake => \A i \in DOMAIN remote.responses : remote.responses[i].ok =>
        /\ remote.responses[i].batch.write \in done
        /\ last[user] >= remote.responses[i].batch.write

\* Nothing new was heard.
NothingHeard(r, s) ==
    s.handshake => /\ r.handshake
                   /\ \A i \in DOMAIN s.responses :
                         \E j \in DOMAIN r.responses : s.responses[i] = r.responses[j]

LEMMA StartKeeps ==
    ASSUME NEW r, {"stream", "asked", "handshake", "responses"} \subseteq DOMAIN r
    PROVE  Start(r).handshake = r.handshake /\ Start(r).responses = r.responses
BY DEF Start

LEMMA FillKeeps ==
    ASSUME NEW r \in Remote, NEW q
    PROVE  Fill(r, q).handshake = r.handshake /\ Fill(r, q).responses = r.responses
<1> DEFINE x == r.pipeline \o NewBatches(r, q)
           y == IF r.stream = "Open" /\ r.handshake THEN r.requests \o NewBatches(r, q) ELSE r.requests
           z == Idle(r, NewBatches(r, q))
           f == [r EXCEPT !.pipeline = x, !.requests = y, !.idle = z]
<1>1. Fill(r, q) = IF ~r.enabled THEN r ELSE IF f.pipeline = <<>> THEN f ELSE Start(f)
  BY DEF Fill
<1> HIDE DEF x, y, z
<1>2. f.handshake = r.handshake /\ f.responses = r.responses
  BY DEF Remote
<1>3. {"stream", "asked", "handshake", "responses"} \subseteq DOMAIN f
  BY DEF Remote
<1> HIDE DEF f
<1>4. Start(f).handshake = f.handshake /\ Start(f).responses = f.responses
  BY <1>3, StartKeeps
<1> QED
  BY <1>1, <1>2, <1>4

LEMMA EnableKeeps ==
    ASSUME NEW r \in Remote, NEW q
    PROVE  Enable(r, q).handshake = r.handshake /\ Enable(r, q).responses = r.responses
<1> DEFINE e == [r EXCEPT !.enabled = TRUE]
<1>1. e \in Remote /\ e.handshake = r.handshake /\ e.responses = r.responses
  BY DEF Remote
<1>2. Enable(r, q) = Fill(e, q)
  BY DEF Enable
<1> HIDE DEF e
<1> QED
  BY <1>1, <1>2, FillKeeps

LEMMA RestartIsQuiet ==
    ASSUME NEW q, NEW r, Serving(r, q), NEW q2
    PROVE  /\ ~RestartNetwork(r, q2).handshake
           /\ RestartNetwork(r, q2).responses \in {<<>>, r.responses}
<1>1. r \in Remote
  BY DEF Serving
<1>2. CASE r.enabled
  <2> DEFINE d == Disable(r)
             i == [d EXCEPT !.stream = "Initial"]
  <2>1. d \in Remote /\ Quiet(d)
    BY RequestTypes, DisableWorks
  <2>2. RestartNetwork(r, q2) = Enable(i, q2)
    BY <1>2 DEF RestartNetwork
  <2> HIDE DEF d
  <2>3. i \in Remote /\ i.handshake = d.handshake /\ i.responses = d.responses
    BY <2>1 DEF Remote
  <2> HIDE DEF i
  <2> QED
    BY <2>1, <2>2, <2>3, EnableKeeps DEF Quiet
<1>3. CASE ~r.enabled
  <2>1. RestartNetwork(r, q2) = r
    BY <1>3 DEF RestartNetwork
  <2>2. r.stream # "Open"
    BY <1>3 DEF Serving, Started
  <2> QED
    BY <2>1, <2>2 DEF Serving
<1> QED
  BY <1>1, <1>2, <1>3, RemoteFields

LEMMA FreshIsQuiet ==
    ASSUME NEW q
    PROVE  ~FreshRemote(q).handshake /\ FreshRemote(q).responses = <<>>
<1> DEFINE r == [enabled |-> FALSE, pipeline |-> <<>>, stream |-> "Initial", handshake |-> FALSE,
                 idle |-> FALSE, asked |-> {}, requests |-> <<>>, responses |-> <<>>]
<1>1. r \in Remote /\ ~r.handshake /\ r.responses = <<>>
  BY RequestTypes DEF Remote
<1>2. FreshRemote(q) = Enable(r, q)
  BY DEF FreshRemote
<1> HIDE DEF r
<1> QED
  BY <1>1, <1>2, EnableKeeps

LEMMA AnswersKept ==
    ASSUME AnswersHold, NothingHeard(remote, remote'), user' = user, last' = last, done' = done
    PROVE  AnswersHold'
BY DEF AnswersHold, NothingHeard

LEMMA AnswersInit ==
    ASSUME Init
    PROVE  AnswersHold
BY FreshIsQuiet DEF Init, AnswersHold

LEMMA TailHeard ==
    ASSUME NEW r \in Remote, r.responses # <<>>, NEW s, s.responses = Tail(r.responses),
           s.handshake => r.handshake
    PROVE  NothingHeard(r, s)
<1>1. /\ r.responses \in Seq(Response) /\ Tail(r.responses) \in Seq(Response)
      /\ Len(Tail(r.responses)) = Len(r.responses) - 1
      /\ \A i \in 1 .. Len(r.responses) - 1 : Tail(r.responses)[i] = r.responses[i + 1]
  BY RemoteFields, SeqTail
<1> DEFINE t == Tail(r.responses)
           n == Len(r.responses)
<1>2. n \in Nat /\ DOMAIN r.responses = 1 .. n /\ DOMAIN t = 1 .. n - 1
      /\ \A i \in 1 .. n - 1 : t[i] = r.responses[i + 1]
  BY <1>1, SeqLen
<1> HIDE DEF t, n
<1>3. \A i \in DOMAIN t : i + 1 \in DOMAIN r.responses /\ t[i] = r.responses[i + 1]
  BY <1>2
<1> QED
  BY <1>3 DEF NothingHeard, t

\* The server reads the batch after those it has answered, each of which it
\* committed.
LEMMA ServedInOrder ==
    ASSUME WorkInv, NEW batch, NEW ok \in BOOLEAN, Serve(batch, ok), remote.handshake
    PROVE  LET a == Len(remote.responses)
           IN  /\ a \in Nat /\ a + 1 \in DOMAIN queue[user] /\ batch = queue[user][a + 1]
               /\ DOMAIN remote.responses = 1 .. a
               /\ \A i \in 1 .. a : remote.responses[i].ok /\ remote.responses[i].batch = queue[user][i]
                                    /\ i \in DOMAIN queue[user]
               /\ DOMAIN remote'.responses = 1 .. a + 1
               /\ remote'.responses[a + 1] = [batch |-> batch, ok |-> ok]
               /\ \A i \in 1 .. a : remote'.responses[i] = remote.responses[i]
               /\ remote'.handshake = remote.handshake
<1> DEFINE r == remote
           a == Len(r.responses)
           b == Len(r.requests)
           c == Len(r.pipeline)
           q == queue[user]
           x == [batch |-> batch, ok |-> ok]
           app == Append(r.responses, x)
           tl == Tail(r.requests)
<1>1. /\ r \in Remote /\ q \in Seq(Batch) /\ IsFront(r.pipeline, q) /\ InFlight(r)
      /\ r.pipeline \in Seq(Batch) /\ r.requests \in Seq(Request) /\ r.responses \in Seq(Response)
  BY RemoteFields DEF WorkInv, QueueSound, Working, Serving
<1>2. /\ r.requests # <<>> /\ Head(r.requests) = batch
      /\ \A i \in DOMAIN r.responses : r.responses[i].ok
      /\ remote' = [r EXCEPT !.requests = tl, !.responses = app]
  BY DEF Serve
<1>3. /\ a \in Nat /\ b \in Nat /\ c \in Nat /\ b > 0
      /\ DOMAIN r.responses = 1 .. a /\ DOMAIN r.requests = 1 .. b /\ DOMAIN r.pipeline = 1 .. c
      /\ Len(q) \in Nat /\ DOMAIN q = 1 .. Len(q)
  BY <1>1, <1>2, SeqLen
<1>4. /\ a + b = c /\ c <= Len(q)
      /\ \A i \in 1 .. a : r.responses[i].batch = r.pipeline[i]
      /\ \A i \in 1 .. b : r.requests[i] = r.pipeline[a + i]
      /\ \A i \in 1 .. c : r.pipeline[i] = q[i]
  BY <1>1, <1>3 DEF InFlight, IsFront
<1>5. Head(r.requests) = r.requests[1] /\ Head(r.requests) \in Request
  BY <1>1, <1>2, SeqTail
<1>6. x \in Response
  BY <1>2, <1>5 DEF Response
<1> HIDE DEF x
<1>7. /\ app \in Seq(Response) /\ Len(app) = a + 1 /\ app[a + 1] = x
      /\ \A i \in 1 .. a : app[i] = r.responses[i]
  BY <1>1, <1>6, SeqAppend
<1>8. DOMAIN app = 1 .. a + 1
  BY <1>7, SeqLen
<1> HIDE DEF app, tl
<1>9. remote'.responses = app /\ remote'.handshake = r.handshake
  BY <1>1, <1>2 DEF Remote
<1> HIDE DEF a, b, c, q
<1>10. /\ a + 1 \in 1 .. c /\ a + 1 \in 1 .. Len(q) /\ 1 \in 1 .. b
       /\ \A i \in 1 .. a : i \in 1 .. c /\ i \in 1 .. Len(q)
  BY <1>3, <1>4
<1>11. batch = q[a + 1]
  BY <1>2, <1>4, <1>5, <1>10
<1>12. \A i \in 1 .. a : r.responses[i].batch = q[i]
  BY <1>4, <1>10
<1> QED
  BY <1>2, <1>3, <1>7, <1>8, <1>9, <1>10, <1>11, <1>12 DEF a, q, x

LEMMA AnswersServed ==
    ASSUME WorkInv, RestType, AnswersHold, NEW batch, NEW ok \in BOOLEAN, Serve(batch, ok),
           user' = user,
           \/ batch = Hello /\ done' = done /\ last' = last
           \/ ~ok /\ done' = done /\ last' = last
           \/ done' = done \cup {batch.write} /\ last' = [last EXCEPT ![user] = batch.write]
    PROVE  AnswersHold'
<1>1. CASE ~remote.handshake
  <2>1. remote'.handshake = remote.handshake
    BY DEF Serve, WorkInv, Working, Serving, Remote
  <2> QED
    BY <1>1, <2>1 DEF AnswersHold
<1>2. CASE remote.handshake
  <2> DEFINE a == Len(remote.responses)
             q == queue[user]
  <2>1. /\ a \in Nat /\ a + 1 \in DOMAIN q /\ batch = q[a + 1]
        /\ DOMAIN remote.responses = 1 .. a
        /\ \A i \in 1 .. a : /\ remote.responses[i].ok /\ remote.responses[i].batch = q[i]
                             /\ i \in DOMAIN q
        /\ DOMAIN remote'.responses = 1 .. a + 1
        /\ remote'.responses[a + 1] = [batch |-> batch, ok |-> ok]
        /\ \A i \in 1 .. a : remote'.responses[i] = remote.responses[i]
    BY <1>2, ServedInOrder
  <2>2. q \in Seq(Batch) /\ Sorted(q) /\ user \in Users
    BY DEF WorkInv, QueueSound
  <2>3. batch \in Batch /\ batch # Hello /\ batch.write \in Nat
    <3>1. batch \in Batch
      BY <2>1, <2>2, SeqLen
    <3> QED
      BY <3>1, BatchFields, WritesAreNat
  <2>4. \A i \in 1 .. a : remote.responses[i].batch.write \in done
                          /\ last[user] >= remote.responses[i].batch.write
    BY <1>2, <2>1 DEF AnswersHold
  <2>5. \A i \in 1 .. a : remote.responses[i].batch.write < batch.write
                          /\ remote.responses[i].batch.write \in Nat
    <3>1. \A i \in DOMAIN q : q[i].write \in Nat
      <4>1. \A i \in DOMAIN q : q[i] \in Batch
        BY <2>2, SeqLen
      <4> QED
        BY <4>1, BatchFields, WritesAreNat
    <3> HIDE DEF a, q
    <3>2. \A i \in 1 .. a : i < a + 1
      BY <2>1
    <3>3. \A i \in 1 .. a : q[i].write < q[a + 1].write
      BY <3>2, <2>1, <2>2 DEF Sorted
    <3> QED
      BY <3>1, <3>3, <2>1
  <2> HIDE DEF a, q
  <2>6. CASE done' = done /\ last' = last /\ ~ok
    <3>1. ASSUME NEW i \in 1 .. a + 1, remote'.responses[i].ok
          PROVE  /\ remote'.responses[i].batch.write \in done
                 /\ last[user] >= remote'.responses[i].batch.write
      <4>1. i # a + 1
        BY <2>1, <2>6, <3>1
      <4>2. i \in 1 .. a
        BY <4>1, <2>1
      <4> QED
        BY <4>2, <2>1, <2>4
    <3> QED
      BY <3>1, <2>1, <2>6 DEF AnswersHold
  <2>7. CASE done' = done \cup {batch.write} /\ last' = [last EXCEPT ![user] = batch.write]
    <3>1. last'[user] = batch.write
      BY <2>2, <2>7 DEF RestType
    <3>2. ASSUME NEW i \in 1 .. a + 1
          PROVE  /\ remote'.responses[i].batch.write \in done'
                 /\ last'[user] >= remote'.responses[i].batch.write
      <4>1. CASE i = a + 1
        <5>1. remote'.responses[i].batch = batch
          BY <4>1, <2>1
        <5> QED
          BY <5>1, <3>1, <2>3, <2>7
      <4>2. CASE i # a + 1
        <5>1. i \in 1 .. a
          BY <4>2, <2>1
        <5>2. remote.responses[i].batch.write <= batch.write
          BY <5>1, <2>3, <2>5
        <5> QED
          BY <5>1, <5>2, <3>1, <2>1, <2>4, <2>7
      <4> QED
        BY <4>1, <4>2
    <3> QED
      BY <3>2, <2>1 DEF AnswersHold
  <2> QED
    BY <2>3, <2>6, <2>7
<1> QED
  BY <1>1, <1>2

LEMMA AnswersStep ==
    ASSUME WorkInv, RestType, AnswersHold, [Next]_vars
    PROVE  AnswersHold'
<1> DEFINE q == queue[user]
<1>1. Working(remote, q) /\ Serving(remote, q) /\ remote \in Remote
  BY DEF WorkInv, Working, Serving
<1>2. ASSUME ~remote'.handshake
      PROVE  AnswersHold'
  BY <1>2 DEF AnswersHold
<1>3. ASSUME UNCHANGED <<user, server>>, remote'.handshake = remote.handshake,
             remote'.responses = remote.responses
      PROVE  AnswersHold'
  BY <1>3 DEF AnswersHold, server
<1>4. CASE WriteMutations
  BY <1>1, <1>3, <1>4, FillKeeps DEF WriteMutations
<1>5. CASE WaitForPendingWrites
  BY <1>3, <1>5 DEF WaitForPendingWrites
<1>6. CASE EnableNetwork
  BY <1>1, <1>3, <1>6, EnableKeeps DEF EnableNetwork
<1>7. CASE DisableNetwork
  <2>1. Quiet(Disable(remote))
    BY <1>1, RequestTypes, DisableWorks
  <2> QED
    BY <1>2, <1>7, <2>1 DEF DisableNetwork, Quiet
<1>8. ASSUME NEW u \in Users, UserChanges(u)
      PROVE  AnswersHold'
  BY <1>1, <1>2, <1>8, RestartIsQuiet DEF UserChanges
<1>9. CASE NetworkRestarts
  BY <1>1, <1>2, <1>9, RestartIsQuiet DEF NetworkRestarts
<1>10. ASSUME NEW t \in {"now", "before"}, CredentialsArrive(t)
       PROVE  AnswersHold'
  <2> DEFINE x == [remote EXCEPT !.asked = @ \ {t}]
             y == [remote EXCEPT !.asked = @ \ {t}, !.stream = "Open", !.requests = <<Hello>>]
  <2>1. remote' = (IF t = "before" THEN x ELSE y) /\ UNCHANGED <<user, server>>
    BY <1>10 DEF CredentialsArrive, Stream
  <2>2. /\ x.handshake = remote.handshake /\ x.responses = remote.responses
        /\ y.handshake = remote.handshake /\ y.responses = remote.responses
    BY <1>1 DEF Remote
  <2> HIDE DEF x, y
  <2> QED
    BY <1>3, <2>1, <2>2
<1>11. CASE HandshakeCompletes
  <2>1. ~remote.handshake /\ remote.responses # <<>> /\ remote.stream = "Open"
    BY <1>11 DEF HandshakeCompletes
  <2>2. Len(remote.responses) = 1 /\ remote.responses \in Seq(Response)
    BY <1>1, <2>1, RemoteFields DEF Serving, Greeting
  <2>3. DOMAIN Tail(remote.responses) = {}
    BY <2>1, <2>2, SeqTail, SeqLen
  <2>4. remote'.responses = Tail(remote.responses)
    BY <1>1, <1>11 DEF HandshakeCompletes, Stream, Remote
  <2> QED
    BY <2>3, <2>4 DEF AnswersHold
<1>12. CASE IdleTimeout
  BY <1>1, <1>2, <1>12, StopIs DEF IdleTimeout, Stream, Quiet
<1>13. CASE BackoffElapses
  <2> DEFINE i == [remote EXCEPT !.stream = "Initial"]
  <2>1. /\ {"stream", "asked", "handshake", "responses"} \subseteq DOMAIN i
        /\ i.handshake = remote.handshake /\ i.responses = remote.responses
    BY <1>1 DEF Remote
  <2>2. remote' = Start(i) /\ UNCHANGED <<user, server>>
    BY <1>13 DEF BackoffElapses, Stream
  <2> HIDE DEF i
  <2> QED
    BY <1>3, <2>1, <2>2, StartKeeps
<1>14. CASE StreamFails
  <2> DEFINE c == Close(remote, "Error")
  <2>1. c \in Remote /\ ~c.handshake
    BY <1>1, CloseIs DEF Quiet
  <2>2. remote' = IF c.pipeline = <<>> THEN c ELSE Start(c)
    BY <1>14 DEF StreamFails, Stream
  <2> HIDE DEF c
  <2>3. {"stream", "asked", "handshake", "responses"} \subseteq DOMAIN c
    BY <2>1 DEF Remote
  <2> QED
    BY <1>2, <2>1, <2>2, <2>3, StartKeeps
<1>15. CASE WriteAcknowledged
  <2> DEFINE s == [remote EXCEPT !.pipeline = Tail(@), !.responses = Tail(@)]
  <2>1. /\ remote.handshake /\ remote.responses # <<>>
        /\ remote' = Fill(s, queue'[user]) /\ UNCHANGED <<user, server>>
    BY <1>15 DEF WriteAcknowledged, Acknowledged, Settled
  <2>2. q \in Seq(Batch)
    BY DEF WorkInv, QueueSound
  <2>3. Serving(s, Tail(q))
    BY <1>1, <2>1, <2>2, AcknowledgedServes
  <2>4. s \in Remote
    BY <2>3 DEF Serving
  <2>5. s.handshake = remote.handshake /\ s.responses = Tail(remote.responses)
    BY <1>1 DEF Remote
  <2> HIDE DEF s
  <2>6. remote'.handshake = s.handshake /\ remote'.responses = s.responses
    BY <2>1, <2>4, FillKeeps
  <2>7. NothingHeard(remote, remote')
    BY <1>1, <2>1, <2>5, <2>6, TailHeard
  <2> QED
    BY <2>1, <2>7, AnswersKept DEF server
<1>16. CASE WriteRefused
  <2> DEFINE c == Close(remote, "Initial")
             s == [c EXCEPT !.pipeline = Tail(@)]
  <2>1. remote' = Fill(s, queue'[user]) /\ remote.handshake /\ remote.responses # <<>>
    BY <1>16 DEF WriteRefused
  <2>2. q \in Seq(Batch)
    BY DEF WorkInv, QueueSound
  <2>3. remote.pipeline # <<>>
    <3> DEFINE a == [remote EXCEPT !.pipeline = Tail(@), !.responses = Tail(@)]
    <3>1. a = [remote EXCEPT !.pipeline = Tail(@), !.responses = Tail(@)]
      OBVIOUS
    <3> HIDE DEF a, s
    <3> QED
      BY <1>1, <2>1, <2>2, <3>1, AcknowledgedServes
  <2>4. s \in Remote
    <3>1. Serving(s, Tail(q))
      BY <1>1, <2>2, <2>3, RefusedServes
    <3> QED
      BY <3>1 DEF Serving
  <2>5. c \in Remote /\ ~c.handshake
    BY <1>1, CloseIs DEF Quiet
  <2> HIDE DEF c
  <2>6. ~s.handshake
    BY <2>5 DEF Remote
  <2> HIDE DEF s
  <2> QED
    BY <1>2, <2>1, <2>4, <2>6, FillKeeps
<1>17. CASE Restart \/ CrashInAcknowledgement
  BY <1>2, <1>17, FreshIsQuiet DEF Restart, CrashInAcknowledgement, Reborn
<1>18. CASE ServerGreets
  <2>1. Serve(Hello, TRUE) /\ user' = user /\ done' = done /\ last' = last
    BY <1>18 DEF ServerGreets, Serve, server
  <2> QED
    BY <2>1, AnswersServed
<1>19. CASE ServerCommits
  <2>1. PICK batch \in Range(remote.pipeline) :
            /\ Serve(batch, TRUE) /\ done' = done \cup {batch.write}
            /\ last' = [last EXCEPT ![user] = batch.write]
    BY <1>19 DEF ServerCommits
  <2>2. user' = user
    BY <2>1 DEF Serve
  <2> QED
    BY <2>1, <2>2, AnswersServed
<1>20. CASE ServerRefuses
  <2>1. PICK batch \in Range(remote.pipeline) : Serve(batch, FALSE)
    BY <1>20 DEF ServerRefuses
  <2>2. user' = user /\ done' = done /\ last' = last
    BY <1>20, <2>1 DEF ServerRefuses, Serve, server
  <2> QED
    BY <2>1, <2>2, AnswersServed
<1>21. CASE UNCHANGED vars
  BY <1>3, <1>21 DEF vars
<1> QED
  BY <1>4, <1>5, <1>6, <1>7, <1>8, <1>9, <1>10, <1>11, <1>12, <1>13, <1>14, <1>15, <1>16,
     <1>17, <1>18, <1>19, <1>20, <1>21 DEF Next

LEMMA AnswersAlways == Spec => []AnswersHold
<1>1. Init => AnswersHold
  BY AnswersInit
<1>2. WorkInv /\ RestType /\ AnswersHold /\ [Next]_vars => AnswersHold'
  BY AnswersStep
<1> QED
  BY <1>1, <1>2, WorkInvAlways, RestTypeAlways, PTL DEF Spec

-----------------------------------------------------------------------------
(***************************************************************************)
(* The refusals that are on their way.                                     *)
(***************************************************************************)
Refused == {remote.responses[i].batch.write : i \in Refusals}

LEMMA RefusalsKept ==
    ASSUME remote'.responses = remote.responses
    PROVE  Refused' = Refused
BY DEF Refused, Refusals

LEMMA RefusalsGone ==
    ASSUME remote'.responses = <<>>
    PROVE  Refused' = {}
BY DEF Refused, Refusals

LEMMA RefusalsAfterFirst ==
    ASSUME remote.responses \in Seq(Response), remote.responses # <<>>,
           remote'.responses = Tail(remote.responses)
    PROVE  Refused' \subseteq Refused /\ (Head(remote.responses).ok => Refused' = Refused)
<1> DEFINE s == remote.responses
           t == Tail(s)
           n == Len(s)
<1>1. /\ n \in Nat /\ n > 0 /\ DOMAIN s = 1 .. n /\ DOMAIN t = 1 .. n - 1
      /\ Head(s) = s[1] /\ \A i \in 1 .. n - 1 : t[i] = s[i + 1]
  <2>1. t \in Seq(Response) /\ Len(t) = n - 1 /\ Head(s) = s[1] /\ \A i \in 1 .. n - 1 : t[i] = s[i + 1]
    BY SeqTail
  <2>2. DOMAIN t = 1 .. Len(t) /\ n \in Nat /\ n > 0 /\ DOMAIN s = 1 .. n
    BY <2>1, SeqLen
  <2> QED
    BY <2>1, <2>2
<1>2. remote'.responses = t
  OBVIOUS
<1> HIDE DEF t, n, s
<1>3. /\ Refused = {s[i].batch.write : i \in {i \in 1 .. n : ~s[i].ok}}
      /\ Refused' = {t[i].batch.write : i \in {i \in 1 .. n - 1 : ~t[i].ok}}
  BY <1>1, <1>2 DEF Refused, Refusals, s
<1>4. \A i \in 1 .. n - 1 : i + 1 \in 1 .. n /\ t[i] = s[i + 1]
  BY <1>1
<1>5. Refused' \subseteq Refused
  BY <1>3, <1>4
<1>6. ASSUME s[1].ok
      PROVE  Refused \subseteq Refused'
  <2>1. \A i \in 1 .. n : i # 1 => i - 1 \in 1 .. n - 1 /\ (i - 1) + 1 = i
    BY <1>1
  <2>2. \A i \in 1 .. n : ~s[i].ok => i - 1 \in 1 .. n - 1 /\ t[i - 1] = s[i]
    BY <1>4, <1>6, <2>1
  <2> QED
    BY <1>3, <2>2
<1> QED
  BY <1>1, <1>5, <1>6 DEF s

LEMMA RefusalsServed ==
    ASSUME WorkInv, NEW batch, NEW ok \in BOOLEAN, Serve(batch, ok)
    PROVE  Refused' = IF ok THEN Refused ELSE Refused \cup {batch.write}
<1> DEFINE s == remote.responses
           x == [batch |-> batch, ok |-> ok]
           t == Append(s, x)
           n == Len(s)
<1>1. /\ remote \in Remote /\ s \in Seq(Response) /\ remote.requests \in Seq(Request)
      /\ remote.requests # <<>> /\ Head(remote.requests) = batch
  BY RemoteFields DEF WorkInv, Working, Serving, Serve
<1>2. x \in Response /\ x.ok = ok /\ x.batch = batch
  BY <1>1, SeqTail DEF Response
<1>3. remote'.responses = t
  BY <1>1 DEF Serve, Remote
<1> HIDE DEF x
<1>4. /\ t \in Seq(Response) /\ Len(t) = n + 1 /\ t[n + 1] = x /\ \A i \in 1 .. n : t[i] = s[i]
  BY <1>1, <1>2, SeqAppend
<1>5. n \in Nat /\ DOMAIN s = 1 .. n /\ DOMAIN t = 1 .. n + 1
  BY <1>1, <1>4, SeqLen
<1> HIDE DEF t, n, s
<1>6. /\ Refused = {s[i].batch.write : i \in {i \in 1 .. n : ~s[i].ok}}
      /\ Refused' = {t[i].batch.write : i \in {i \in 1 .. n + 1 : ~t[i].ok}}
  BY <1>3, <1>5 DEF Refused, Refusals, s
<1>7. \A i \in 1 .. n + 1 : i \in 1 .. n \/ i = n + 1
  BY <1>5
<1>8. \A i \in 1 .. n : i \in 1 .. n + 1 /\ t[i] = s[i]
  BY <1>4, <1>5
<1>9. n + 1 \in 1 .. n + 1
  BY <1>5
<1>10. Refused \subseteq Refused'
  BY <1>6, <1>8
<1>11. CASE ok
  <2>1. \A i \in 1 .. n + 1 : ~t[i].ok => i \in 1 .. n
    BY <1>2, <1>4, <1>7, <1>11
  <2>2. Refused' \subseteq Refused
    BY <1>6, <1>8, <2>1
  <2> QED
    BY <1>10, <1>11, <2>2
<1>12. CASE ~ok
  <2>1. batch.write \in Refused'
    BY <1>2, <1>4, <1>6, <1>9, <1>12
  <2>2. \A i \in 1 .. n + 1 : ~t[i].ok => t[i].batch.write \in Refused \cup {batch.write}
    BY <1>2, <1>4, <1>6, <1>7, <1>8
  <2>3. Refused' \subseteq Refused \cup {batch.write}
    BY <1>6, <2>2
  <2> QED
    BY <1>10, <1>12, <2>1, <2>3
<1> QED
  BY <1>11, <1>12

\* Whatever happens to the network or the stream only drops refusals.
LEMMA RefusalsDropped ==
    ASSUME WorkInv,
           \/ EnableNetwork \/ DisableNetwork \/ NetworkRestarts
           \/ \E u \in Users : UserChanges(u)
           \/ \E t \in {"now", "before"} : CredentialsArrive(t)
           \/ HandshakeCompletes \/ IdleTimeout \/ BackoffElapses \/ StreamFails
    PROVE  Refused' \subseteq Refused
<1>1. /\ Serving(remote, queue[user]) /\ remote \in Remote
      /\ remote.responses \in Seq(Response)
  BY RemoteFields DEF WorkInv, Working, Serving
<1>2. ASSUME remote'.responses \in {<<>>, remote.responses}
      PROVE  Refused' \subseteq Refused
  BY <1>2, RefusalsKept, RefusalsGone
<1>3. CASE EnableNetwork
  BY <1>1, <1>2, <1>3, EnableKeeps DEF EnableNetwork
<1>4. CASE DisableNetwork
  <2>1. Quiet(Disable(remote))
    BY <1>1, RequestTypes, DisableWorks
  <2> QED
    BY <1>2, <1>4, <2>1 DEF DisableNetwork, Quiet
<1>5. CASE NetworkRestarts
  BY <1>1, <1>2, <1>5, RestartIsQuiet DEF NetworkRestarts
<1>6. ASSUME NEW u \in Users, UserChanges(u)
      PROVE  Refused' \subseteq Refused
  BY <1>1, <1>2, <1>6, RestartIsQuiet DEF UserChanges
<1>7. ASSUME NEW t \in {"now", "before"}, CredentialsArrive(t)
      PROVE  Refused' \subseteq Refused
  <2> DEFINE x == [remote EXCEPT !.asked = @ \ {t}]
             y == [remote EXCEPT !.asked = @ \ {t}, !.stream = "Open", !.requests = <<Hello>>]
  <2>1. remote' = (IF t = "before" THEN x ELSE y)
    BY <1>7 DEF CredentialsArrive, Stream
  <2>2. x.responses = remote.responses /\ y.responses = remote.responses
    BY <1>1 DEF Remote
  <2> HIDE DEF x, y
  <2> QED
    BY <1>2, <2>1, <2>2
<1>8. CASE HandshakeCompletes
  <2>1. remote.responses # <<>>
    BY <1>8 DEF HandshakeCompletes
  <2>2. remote'.responses = Tail(remote.responses)
    BY <1>1, <1>8 DEF HandshakeCompletes, Stream, Remote
  <2> QED
    BY <1>1, <2>1, <2>2, RefusalsAfterFirst
<1>9. CASE IdleTimeout
  BY <1>1, <1>2, <1>9, StopIs DEF IdleTimeout, Stream, Quiet
<1>10. CASE BackoffElapses
  <2> DEFINE i == [remote EXCEPT !.stream = "Initial"]
  <2>1. /\ {"stream", "asked", "handshake", "responses"} \subseteq DOMAIN i
        /\ i.responses = remote.responses
    BY <1>1 DEF Remote
  <2>2. remote' = Start(i)
    BY <1>10 DEF BackoffElapses, Stream
  <2> HIDE DEF i
  <2> QED
    BY <1>2, <2>1, <2>2, StartKeeps
<1>11. CASE StreamFails
  <2> DEFINE c == Close(remote, "Error")
  <2>1. c \in Remote /\ c.responses = <<>>
    BY <1>1, CloseIs DEF Quiet
  <2>2. remote' = IF c.pipeline = <<>> THEN c ELSE Start(c)
    BY <1>11 DEF StreamFails, Stream
  <2> HIDE DEF c
  <2>3. {"stream", "asked", "handshake", "responses"} \subseteq DOMAIN c
    BY <2>1 DEF Remote
  <2> QED
    BY <1>2, <2>1, <2>2, <2>3, StartKeeps
<1> QED
  BY <1>3, <1>4, <1>5, <1>6, <1>7, <1>8, <1>9, <1>10, <1>11

\* A refusal a stream has heard is of a batch of the queue.
LEMMA RefusedIsQueued ==
    ASSUME WorkInv, remote.handshake, NEW i \in DOMAIN remote.responses, ~remote.responses[i].ok
    PROVE  \E j \in DOMAIN queue[user] : queue[user][j].write \in Refused
<1>1. /\ remote \in Remote /\ InFlight(remote) /\ IsFront(remote.pipeline, queue[user])
      /\ queue[user] \in Seq(Batch) /\ remote.pipeline \in Seq(Batch)
      /\ remote.responses \in Seq(Response) /\ remote.requests \in Seq(Request)
  BY RemoteFields DEF WorkInv, QueueSound, Working, Serving
<1> DEFINE a == Len(remote.responses)
           b == Len(remote.requests)
           c == Len(remote.pipeline)
           d == Len(queue[user])
<1>2. /\ a \in Nat /\ b \in Nat /\ c \in Nat /\ d \in Nat /\ DOMAIN remote.responses = 1 .. a
      /\ DOMAIN remote.pipeline = 1 .. c /\ DOMAIN queue[user] = 1 .. d
  BY <1>1, SeqLen
<1>3. a + b = c /\ c <= d
  BY <1>1 DEF InFlight, IsFront
<1> HIDE DEF a, b, c, d
<1>4. i \in DOMAIN remote.pipeline /\ i \in DOMAIN queue[user]
  BY <1>2, <1>3
<1>5. remote.responses[i].batch = queue[user][i]
  BY <1>1, <1>4 DEF InFlight, IsFront
<1>6. remote.responses[i].batch.write \in Refused
  BY DEF Refused, Refusals
<1> QED
  BY <1>4, <1>5, <1>6

-----------------------------------------------------------------------------
(***************************************************************************)
(* Six kinds of steps.                                                     *)
(***************************************************************************)

\* The first batch of the queue may be called a success.
Trusted ==
    /\ queue[user] # <<>> /\ Front = queue[user][1]
    /\ Front.write \in done /\ last[user] >= Front.write

Settles(answer) ==
    /\ remote.pipeline # <<>> /\ Settled(Front, answer)
    /\ answer = "ok" => Trusted /\ Refused' = Refused
    /\ answer = "error" =>
          Refused' = {} /\ \E i \in DOMAIN queue[user] : queue[user][i].write \in Refused

DiesAnswering ==
    /\ Trusted
    /\ told' = Told(Front, "ok") /\ waited' = Waited(Front)
    /\ callbacks' = {} /\ waiters' = {} /\ lives' = lives + 1 /\ Refused' = {}
    /\ UNCHANGED <<queue, user, author, done, last>>

Commits(j) ==
    /\ \A i \in 1 .. (j - 1) : queue[user][i].write \in done
    /\ done' = done \cup {queue[user][j].write}
    /\ last' = [last EXCEPT ![user] = queue[user][j].write]
    /\ Refused' = Refused
    /\ UNCHANGED <<queue, user, callbacks, waiters, author, told, waited, lives>>

Refuses(j) ==
    /\ \A i \in 1 .. (j - 1) : queue[user][i].write \in done
    /\ Refused' = Refused \cup {queue[user][j].write}
    /\ UNCHANGED <<queue, user, callbacks, waiters, author, told, waited, lives, done, last>>

Registers ==
    /\ queue[user] # <<>>
    /\ waiters' = waiters \cup {[id |-> Awaited, for |-> Pending(user)]}
    /\ UNCHANGED user

\* Nothing is issued, answered, settled, committed or refused; completions go only
\* with the process.
Idles ==
    /\ UNCHANGED <<queue, author, told, waited, done, last>>
    /\ \/ callbacks' = callbacks /\ lives' = lives /\ Refused' \subseteq Refused
       \/ callbacks' = {} /\ lives' = lives + 1 /\ Refused' = {}
    /\ (waiters' = waiters /\ user' = user) \/ waiters' = {} \/ Registers

LEMMA FrontIsFirst ==
    ASSUME WorkInv, remote.pipeline # <<>>
    PROVE  queue[user] # <<>> /\ Front = queue[user][1]
<1>1. /\ queue[user] \in Seq(Batch) /\ remote.pipeline \in Seq(Batch)
      /\ IsFront(remote.pipeline, queue[user])
  BY RemoteFields DEF WorkInv, QueueSound, Working, Serving
<1> QED
  BY <1>1, FrontAfterTail DEF Front

\* An answer is about the front of the queue (HandleSuccessfulWrite trusts that).
LEMMA AnswerIsForFront ==
    ASSUME WorkInv, AnswersHold, remote.handshake, remote.responses # <<>>
    PROVE  /\ remote.pipeline # <<>> /\ queue[user] # <<>> /\ Front = queue[user][1]
           /\ Head(remote.responses).ok => Trusted
<1> DEFINE s == [remote EXCEPT !.pipeline = Tail(@), !.responses = Tail(@)]
<1>1. s = [remote EXCEPT !.pipeline = Tail(@), !.responses = Tail(@)]
  OBVIOUS
<1> HIDE DEF s
<1>2. /\ queue[user] \in Seq(Batch) /\ Working(remote, queue[user])
      /\ remote.responses \in Seq(Response) /\ remote.pipeline \in Seq(Batch)
  BY RemoteFields DEF WorkInv, QueueSound, Working, Serving
<1>3. remote.pipeline # <<>> /\ remote.responses[1].batch = remote.pipeline[1]
  BY <1>1, <1>2, AcknowledgedServes
<1>4. queue[user] # <<>> /\ Front = queue[user][1]
  BY <1>3, FrontIsFirst
<1>5. Front = remote.pipeline[1]
  BY <1>2, <1>3, SeqTail DEF Front
<1>6. Head(remote.responses) = remote.responses[1] /\ 1 \in DOMAIN remote.responses
  BY <1>2, SeqLen, SeqTail
<1>7. ASSUME Head(remote.responses).ok
      PROVE  Trusted
  <2>1. remote.responses[1].ok
    BY <1>6, <1>7
  <2>2. remote.responses[1].batch.write \in done /\ last[user] >= remote.responses[1].batch.write
    BY <1>6, <2>1 DEF AnswersHold
  <2> QED
    BY <1>3, <1>4, <1>5, <2>2 DEF Trusted
<1> QED
  BY <1>3, <1>4, <1>7

\* The server answers the batches of the queue in their order.
LEMMA ServedIsNext ==
    ASSUME WorkInv, AnswersHold, NEW batch \in Range(remote.pipeline), NEW ok \in BOOLEAN,
           Serve(batch, ok)
    PROVE  \E j \in DOMAIN queue[user] :
              batch = queue[user][j] /\ \A i \in 1 .. (j - 1) : queue[user][i].write \in done
<1>1. remote.handshake
  <2>1. remote \in Remote /\ Serving(remote, queue[user])
    BY DEF WorkInv, Working, Serving
  <2>2. batch \in Batch
    <3>1. remote.pipeline \in Seq(Batch)
      BY <2>1, RemoteFields
    <3> QED
      BY <3>1, SeqLen DEF Range
  <2>3. remote.requests # <<>> /\ Head(remote.requests) = batch
    BY DEF Serve
  <2>4. ASSUME ~remote.handshake
        PROVE  FALSE
    <3>1. remote.stream = "Open" /\ Greeting(remote)
      BY <2>1, <2>3, <2>4 DEF Serving
    <3>2. remote.requests = <<Hello>>
      BY <2>3, <3>1 DEF Greeting
    <3>3. batch = Hello
      BY <2>3, <3>2
    <3> QED
      BY <2>2, <3>3, BatchFields
  <2> QED
    BY <2>4
<1> DEFINE a == Len(remote.responses)
<1>2. /\ a \in Nat /\ a + 1 \in DOMAIN queue[user] /\ batch = queue[user][a + 1]
      /\ DOMAIN remote.responses = 1 .. a
      /\ \A i \in 1 .. a : remote.responses[i].ok /\ remote.responses[i].batch = queue[user][i]
  BY <1>1, ServedInOrder
<1> HIDE DEF a
<1>3. \A i \in 1 .. a : queue[user][i].write \in done
  BY <1>1, <1>2 DEF AnswersHold
<1>4. (a + 1) - 1 = a
  BY <1>2
<1> QED
  BY <1>2, <1>3, <1>4

LEMMA CommitIsNext ==
    ASSUME WorkInv, AnswersHold, ServerCommits
    PROVE  \E j \in DOMAIN queue[user] : Commits(j)
<1>1. PICK batch \in Range(remote.pipeline) :
          /\ Serve(batch, TRUE) /\ done' = done \cup {batch.write}
          /\ last' = [last EXCEPT ![user] = batch.write]
  BY DEF ServerCommits
<1>2. PICK j \in DOMAIN queue[user] :
          batch = queue[user][j] /\ \A i \in 1 .. (j - 1) : queue[user][i].write \in done
  BY <1>1, ServedIsNext
<1>3. Refused' = Refused
  BY <1>1, RefusalsServed
<1>4. UNCHANGED <<queue, user, callbacks, waiters, author, told, waited, lives>>
  BY <1>1 DEF Serve, history
<1> QED
  BY <1>1, <1>2, <1>3, <1>4 DEF Commits

LEMMA RefusalIsNext ==
    ASSUME WorkInv, AnswersHold, ServerRefuses
    PROVE  \E j \in DOMAIN queue[user] : Refuses(j)
<1>1. PICK batch \in Range(remote.pipeline) : Serve(batch, FALSE)
  BY DEF ServerRefuses
<1>2. PICK j \in DOMAIN queue[user] :
          batch = queue[user][j] /\ \A i \in 1 .. (j - 1) : queue[user][i].write \in done
  BY <1>1, ServedIsNext
<1>3. Refused' = Refused \cup {batch.write}
  BY <1>1, RefusalsServed
<1>4. UNCHANGED <<queue, user, callbacks, waiters, author, told, waited, lives, done, last>>
  BY <1>1 DEF ServerRefuses, Serve, history, server
<1> QED
  BY <1>2, <1>3, <1>4 DEF Refuses

LEMMA AcknowledgementSettles ==
    ASSUME WorkInv, AnswersHold, WriteAcknowledged
    PROVE  Settles("ok")
<1> DEFINE s == [remote EXCEPT !.pipeline = Tail(@), !.responses = Tail(@)]
<1>1. /\ remote.handshake /\ remote.responses # <<>> /\ Head(remote.responses).ok
      /\ Settled(Front, "ok") /\ remote' = Fill(s, queue'[user])
  BY DEF WriteAcknowledged, Acknowledged
<1>2. remote \in Remote /\ queue[user] \in Seq(Batch) /\ Working(remote, queue[user])
      /\ remote.responses \in Seq(Response)
  BY RemoteFields DEF WorkInv, QueueSound, Working, Serving
<1>3. s \in Remote
  BY <1>1, <1>2, AcknowledgedServes DEF Serving
<1>4. s.responses = Tail(remote.responses)
  BY <1>2 DEF Remote
<1> HIDE DEF s
<1>5. remote'.responses = Tail(remote.responses)
  BY <1>1, <1>3, <1>4, FillKeeps
<1>6. Refused' = Refused
  BY <1>1, <1>2, <1>5, RefusalsAfterFirst
<1>7. remote.pipeline # <<>> /\ Trusted
  BY <1>1, AnswerIsForFront
<1> QED
  BY <1>1, <1>6, <1>7 DEF Settles

LEMMA RefusalSettles ==
    ASSUME WorkInv, AnswersHold, WriteRefused
    PROVE  Settles("error")
<1> DEFINE c == Close(remote, "Initial")
           s == [c EXCEPT !.pipeline = Tail(@)]
<1>1. /\ remote.handshake /\ remote.responses # <<>> /\ Settled(Front, "error")
      /\ ~Head(remote.responses).ok \/ ~remote.responses[Len(remote.responses)].ok
      /\ remote' = Fill(s, queue'[user])
  BY DEF WriteRefused
<1>2. remote \in Remote /\ queue[user] \in Seq(Batch) /\ Working(remote, queue[user])
      /\ remote.responses \in Seq(Response)
  BY RemoteFields DEF WorkInv, QueueSound, Working, Serving
<1>3. remote.pipeline # <<>>
  BY <1>1, AnswerIsForFront
<1>4. s \in Remote
  <2>1. Serving(s, Tail(queue[user]))
    BY <1>2, <1>3, RefusedServes
  <2> QED
    BY <2>1 DEF Serving
<1>5. c \in Remote /\ c.responses = <<>>
  BY <1>2, CloseIs DEF Quiet
<1> HIDE DEF c
<1>6. s.responses = <<>>
  BY <1>5 DEF Remote
<1> HIDE DEF s
<1>7. Refused' = {}
  <2>1. remote'.responses = <<>>
    BY <1>1, <1>4, <1>6, FillKeeps
  <2> QED
    BY <2>1, RefusalsGone
<1>8. \E i \in DOMAIN remote.responses : ~remote.responses[i].ok
  <2>1. /\ Head(remote.responses) = remote.responses[1]
        /\ 1 \in DOMAIN remote.responses /\ Len(remote.responses) \in DOMAIN remote.responses
    BY <1>1, <1>2, SeqTail, SeqLen
  <2> QED
    BY <1>1, <2>1
<1>9. \E j \in DOMAIN queue[user] : queue[user][j].write \in Refused
  BY <1>1, <1>8, RefusedIsQueued
<1> QED
  BY <1>1, <1>3, <1>7, <1>9 DEF Settles

LEMMA KindsOfSteps ==
    ASSUME WorkInv, AnswersHold, [Next]_vars
    PROVE  \/ WriteMutations
           \/ \E answer \in {"ok", "error"} : Settles(answer)
           \/ DiesAnswering
           \/ \E j \in DOMAIN queue[user] : Commits(j)
           \/ \E j \in DOMAIN queue[user] : Refuses(j)
           \/ Idles
<1>1. ASSUME UNCHANGED <<queue, user, callbacks, waiters, author, told, waited, lives, done, last>>,
             Refused' \subseteq Refused
      PROVE  Idles
  BY <1>1 DEF Idles
<1>2. CASE WaitForPendingWrites
  <2>1. remote' = remote
    BY <1>2 DEF WaitForPendingWrites
  <2>2. Refused' = Refused
    BY <2>1, RefusalsKept
  <2> QED
    BY <1>2, <2>2 DEF WaitForPendingWrites, Idles, Registers, history, server
<1>3. CASE EnableNetwork \/ DisableNetwork \/ NetworkRestarts
  BY <1>1, <1>3, RefusalsDropped DEF EnableNetwork, DisableNetwork, NetworkRestarts, history, server
<1>4. ASSUME NEW u \in Users, UserChanges(u)
      PROVE  Idles
  <2>1. Refused' \subseteq Refused
    BY <1>4, RefusalsDropped
  <2> QED
    BY <1>4, <2>1 DEF UserChanges, Idles, history, server
<1>5. ASSUME NEW t \in {"now", "before"}, CredentialsArrive(t)
      PROVE  Idles
  <2>1. Refused' \subseteq Refused
    BY <1>5, RefusalsDropped
  <2> QED
    BY <1>1, <1>5, <2>1 DEF CredentialsArrive, Stream, history, server
<1>6. CASE HandshakeCompletes \/ IdleTimeout \/ BackoffElapses
  <2>1. Refused' \subseteq Refused
    BY <1>6, RefusalsDropped
  <2> QED
    BY <1>1, <1>6, <2>1 DEF HandshakeCompletes, IdleTimeout, BackoffElapses, Stream, history, server
<1>7. CASE StreamFails
  <2>1. Refused' \subseteq Refused
    BY <1>7, RefusalsDropped
  <2> QED
    BY <1>1, <1>7, <2>1 DEF StreamFails, Stream, history, server
<1>8. CASE WriteAcknowledged
  BY <1>8, AcknowledgementSettles
<1>9. CASE WriteRefused
  BY <1>9, RefusalSettles
<1>10. CASE Restart
  <2>1. Refused' = {}
    BY <1>10, FreshIsQuiet, RefusalsGone DEF Restart, Reborn
  <2> QED
    BY <1>10, <2>1 DEF Restart, Reborn, Idles, server
<1>11. CASE CrashInAcknowledgement
  <2>1. Trusted
    BY <1>11, AnswerIsForFront DEF CrashInAcknowledgement, Acknowledged
  <2>2. Refused' = {}
    BY <1>11, FreshIsQuiet, RefusalsGone DEF CrashInAcknowledgement, Reborn
  <2> QED
    BY <1>11, <2>1, <2>2 DEF CrashInAcknowledgement, Reborn, DiesAnswering, server
<1>12. CASE ServerGreets
  <2>1. Serve(Hello, TRUE)
    BY <1>12 DEF ServerGreets
  <2>2. Refused' = Refused
    BY <2>1, RefusalsServed
  <2> QED
    BY <1>1, <1>12, <2>2 DEF ServerGreets, Serve, history, server
<1>13. CASE ServerCommits
  BY <1>13, CommitIsNext
<1>14. CASE ServerRefuses
  BY <1>14, RefusalIsNext
<1>15. CASE UNCHANGED vars
  <2>1. remote' = remote
    BY <1>15 DEF vars
  <2>2. Refused' = Refused
    BY <2>1, RefusalsKept
  <2> QED
    BY <1>1, <1>15, <2>2 DEF vars, history, server
<1> QED
  BY <1>2, <1>3, <1>4, <1>5, <1>6, <1>7, <1>8, <1>9, <1>10, <1>11, <1>12, <1>13, <1>14,
     <1>15 DEF Next

-----------------------------------------------------------------------------
(***************************************************************************)
(* What the completions of the writes are told.                            *)
(***************************************************************************)

\* A completion that is still to be called belongs to a batch of its user's queue.
Heeded ==
    \A c \in callbacks :
        /\ \E i \in DOMAIN queue[c.user] : queue[c.user][i] = c.batch
        /\ told[c.batch.write] = "nothing"

\* After a success, what is still queued for the same user came later.
Truth ==
    \A w \in Writes :
        /\ told[w] # "nothing" => w <= Len(author)
        /\ told[w] = "ok" =>
              /\ w \in done /\ last[author[w]] >= w
              /\ \A i \in DOMAIN queue[author[w]] : queue[author[w]][i].write >= w

LEMMA QueueFacts ==
    ASSUME WorkInv, NEW u \in Users
    PROVE  /\ queue[u] \in Seq(Batch) /\ Sorted(queue[u])
           /\ Len(queue[u]) \in Nat /\ DOMAIN queue[u] = 1 .. Len(queue[u])
           /\ \A i \in DOMAIN queue[u] :
                 /\ queue[u][i] \in Batch /\ queue[u][i].write \in Writes /\ queue[u][i].write \in Nat
                 /\ queue[u][i].id \in Nat /\ queue[u][i].id < nextId
                 /\ queue[u][i].write <= Len(author) /\ author[queue[u][i].write] = u
<1>1. queue[u] \in Seq(Batch) /\ Sorted(queue[u])
  BY DEF WorkInv, QueueSound
<1>2. /\ Len(queue[u]) \in Nat /\ DOMAIN queue[u] = 1 .. Len(queue[u])
      /\ \A i \in DOMAIN queue[u] : queue[u][i] \in Batch
  BY <1>1, SeqLen
<1>3. \A i \in DOMAIN queue[u] :
         queue[u][i].write \in Writes /\ queue[u][i].write \in Nat /\ queue[u][i].id \in Nat
  BY <1>2, BatchFields, WritesAreNat
<1>4. \A i \in DOMAIN queue[u] :
         /\ queue[u][i].id < nextId
         /\ queue[u][i].write <= Len(author) /\ author[queue[u][i].write] = u
  BY DEF WorkInv, QueueSound
<1> QED
  BY <1>1, <1>2, <1>3, <1>4

LEMMA FrontFacts ==
    ASSUME WorkInv, queue[user] # <<>>, Front = queue[user][1]
    PROVE  /\ user \in Users /\ 1 \in DOMAIN queue[user] /\ Front \in Batch
           /\ Front.write \in Writes /\ Front.write \in Nat /\ Front.write <= Len(author)
           /\ author[Front.write] = user
           /\ \A i \in DOMAIN queue[user] :
                 /\ queue[user][i].write >= Front.write
                 /\ queue[user][i].id = Front.id => i = 1
                 /\ queue[user][i].write = Front.write => i = 1
<1> DEFINE q == queue[user]
           n == Len(q)
<1>1. user \in Users
  BY DEF WorkInv, QueueSound
<1>2. /\ q \in Seq(Batch) /\ Sorted(q) /\ n \in Nat /\ DOMAIN q = 1 .. n
      /\ \A i \in DOMAIN q :
            /\ q[i] \in Batch /\ q[i].write \in Writes /\ q[i].write \in Nat
            /\ q[i].write <= Len(author) /\ author[q[i].write] = user
  BY <1>1, QueueFacts
<1>3. n > 0
  BY <1>2, SeqLen
<1>4. \A i \in 1 .. n, j \in 1 .. n :
         /\ i < j => q[i].write < q[j].write
         /\ q[i].id = q[j].id => i = j
         /\ q[i].write = q[j].write => i = j
  BY <1>2, SortedUses
<1> HIDE DEF q, n
<1>5. 1 \in 1 .. n
  BY <1>2, <1>3
<1>6. ASSUME NEW i \in DOMAIN q
      PROVE  q[i].write >= q[1].write /\ (q[i].id = q[1].id => i = 1) /\ (q[i].write = q[1].write => i = 1)
  <2>1. i \in 1 .. n /\ q[i].write \in Nat /\ q[1].write \in Nat
    BY <1>2, <1>5
  <2>2. CASE i = 1
    BY <2>1, <2>2
  <2>3. CASE i # 1
    <3>1. 1 < i
      BY <2>1, <2>3
    <3>2. q[1].write < q[i].write
      BY <1>4, <1>5, <2>1, <3>1
    <3> QED
      BY <1>4, <1>5, <2>1, <2>3, <3>2
  <2> QED
    BY <2>2, <2>3
<1>7. Front = q[1]
  BY DEF q
<1> QED
  BY <1>1, <1>2, <1>5, <1>6, <1>7 DEF q

\* NotifyUser finds the completion of the front batch, or none.
LEMMA ToldIs ==
    ASSUME WorkInv, RestType, Heeded, queue[user] # <<>>, Front = queue[user][1], NEW answer
    PROVE  /\ \A c \in Heard(Front) : c.batch = Front /\ told[Front.write] = "nothing"
           /\ Told(Front, answer) = IF Heard(Front) = {} THEN told
                                    ELSE [told EXCEPT ![Front.write] = answer]
<1>1. ASSUME NEW c \in Heard(Front)
      PROVE  c.batch = Front /\ told[Front.write] = "nothing"
  <2>1. c \in callbacks /\ c.user = user /\ c.batch.id = Front.id
    BY DEF Heard
  <2>2. PICK i \in DOMAIN queue[user] : queue[user][i] = c.batch
    BY <2>1 DEF Heeded
  <2>3. told[c.batch.write] = "nothing"
    BY <2>1 DEF Heeded
  <2>4. i = 1
    BY <2>1, <2>2, FrontFacts
  <2>5. c.batch = Front
    BY <2>2, <2>4
  <2> QED
    BY <2>3, <2>5
<1>2. told = [w \in Writes |-> told[w]]
  BY DEF RestType
<1>3. CASE Heard(Front) = {}
  BY <1>2, <1>3 DEF Told
<1>4. CASE Heard(Front) # {}
  <2>1. PICK c \in Heard(Front) : TRUE
    BY <1>4
  <2>2. \A w \in Writes : (\E d \in Heard(Front) : d.batch.write = w) <=> w = Front.write
    BY <1>1, <2>1
  <2>3. Told(Front, answer) = [w \in Writes |-> IF w = Front.write THEN answer ELSE told[w]]
    BY <2>2 DEF Told
  <2>4. [told EXCEPT ![Front.write] = answer]
            = [w \in Writes |-> IF w = Front.write THEN answer ELSE told[w]]
    BY <1>2
  <2> QED
    BY <1>1, <1>4, <2>3, <2>4
<1> QED
  BY <1>1, <1>3, <1>4

\* Nothing but the front batch leaves a queue.
LEMMA StillQueued ==
    ASSUME WorkInv, remote.pipeline # <<>>, NEW answer, Settled(Front, answer)
    PROVE  /\ \A u \in Users : u # user => queue'[u] = queue[u]
           /\ \A u \in Users : \A i \in DOMAIN queue'[u] :
                 \E j \in DOMAIN queue[u] : queue'[u][i] = queue[u][j] /\ (u = user => j # 1)
           /\ \A i \in DOMAIN queue[user] : i # 1 =>
                 \E j \in DOMAIN queue'[user] : queue'[user][j] = queue[user][i]
<1> DEFINE q == queue[user]
           n == Len(q)
           t == Tail(q)
<1>1. /\ q # <<>> /\ queue' = [queue EXCEPT ![user] = Tail(@)]
      /\ queue'[user] = t
  BY SettledQueue
<1>2. user \in Users /\ queue \in [Users -> Seq(Batch)]
  BY DEF WorkInv, QueueSound
<1>3. /\ q \in Seq(Batch) /\ Sorted(q) /\ n \in Nat /\ DOMAIN q = 1 .. n
  BY <1>2, QueueFacts
<1>4. /\ DOMAIN t = 1 .. n - 1
      /\ \A i \in DOMAIN t : i + 1 \in 2 .. n /\ i + 1 \in DOMAIN q /\ t[i] = q[i + 1]
  BY <1>1, <1>3, SortedTail
<1>5. \A u \in Users : u # user => queue'[u] = queue[u]
  BY <1>1, <1>2
<1> HIDE DEF q, n, t
<1>6. \A i \in DOMAIN t : \E j \in DOMAIN q : t[i] = q[j] /\ j # 1
  <2> SUFFICES ASSUME NEW i \in DOMAIN t
               PROVE  \E j \in DOMAIN q : t[i] = q[j] /\ j # 1
    OBVIOUS
  <2>1. i + 1 \in DOMAIN q /\ t[i] = q[i + 1] /\ i + 1 # 1
    BY <1>3, <1>4
  <2> QED
    BY <2>1
<1>7. \A i \in DOMAIN q : i # 1 => \E j \in DOMAIN t : t[j] = q[i]
  <2> SUFFICES ASSUME NEW i \in DOMAIN q, i # 1
               PROVE  \E j \in DOMAIN t : t[j] = q[i]
    OBVIOUS
  <2>1. i - 1 \in DOMAIN t /\ (i - 1) + 1 = i
    BY <1>3, <1>4
  <2>2. t[i - 1] = q[i]
    BY <1>4, <2>1
  <2> QED
    BY <2>1, <2>2
<1>8. ASSUME NEW u \in Users
      PROVE  \A i \in DOMAIN queue'[u] :
                \E j \in DOMAIN queue[u] : queue'[u][i] = queue[u][j] /\ (u = user => j # 1)
  <2>1. CASE u = user
    BY <1>1, <1>6, <2>1 DEF q
  <2>2. CASE u # user
    BY <1>5, <2>2
  <2> QED
    BY <2>1, <2>2
<1> QED
  BY <1>1, <1>5, <1>7, <1>8 DEF q

\* What a write that is issued changes.
LEMMA IssuedFacts ==
    ASSUME WorkInv, WriteMutations
    PROVE  LET n == Len(author)
               batch == [id |-> nextId, write |-> n + 1]
           IN  /\ n \in Nat /\ user \in Users /\ n + 1 \in Writes
               /\ Len(author') = n + 1
               /\ author'[n + 1] = user
               /\ \A w \in 1 .. n : author'[w] = author[w]
               /\ \A u \in Users : u # user => queue'[u] = queue[u]
               /\ \A i \in DOMAIN queue[user] :
                     i \in DOMAIN queue'[user] /\ queue'[user][i] = queue[user][i]
               /\ \A i \in DOMAIN queue'[user] :
                     i \in DOMAIN queue[user] \/ queue'[user][i] = batch
               /\ \E i \in DOMAIN queue'[user] : queue'[user][i] = batch
               /\ callbacks' = callbacks \cup {[user |-> user, batch |-> batch]}
               /\ UNCHANGED <<user, waiters, told, waited, done, last>>
<1> DEFINE n == Len(author)
           b == [id |-> nextId, write |-> n + 1]
           q == queue[user]
           m == Len(q)
           a == Append(q, b)
<1>1. /\ b \in Batch /\ b.write \in Writes /\ queue' = [queue EXCEPT ![user] = Append(@, b)]
      /\ queue'[user] = a /\ Len(author') = n + 1 /\ author'[n + 1] = user
      /\ \A w \in 1 .. n : author'[w] = author[w]
  BY IssuedQueue
<1>2. user \in Users /\ author \in Seq(Users) /\ queue \in [Users -> Seq(Batch)]
  BY DEF WorkInv, QueueSound
<1>3. n \in Nat
  BY <1>2, SeqLen
<1>4. q \in Seq(Batch) /\ m \in Nat /\ DOMAIN q = 1 .. m
  BY <1>2, QueueFacts
<1>5. callbacks' = callbacks \cup {[user |-> user, batch |-> b]}
      /\ UNCHANGED <<user, waiters, told, waited, done, last>>
  BY DEF WriteMutations, server
<1>6. \A u \in Users : u # user => queue'[u] = queue[u]
  BY <1>1, <1>2
<1>7. b.write = n + 1
  OBVIOUS
<1> HIDE DEF b
<1>8. /\ a \in Seq(Batch) /\ Len(a) = m + 1 /\ a[m + 1] = b
      /\ \A i \in 1 .. m : a[i] = q[i]
  BY <1>1, <1>4, SeqAppend
<1>9. DOMAIN a = 1 .. m + 1
  BY <1>8, SeqLen
<1> HIDE DEF a, q, m, n
<1>10. /\ \A i \in DOMAIN q : i \in DOMAIN a /\ a[i] = q[i]
       /\ \A i \in DOMAIN a : i \in DOMAIN q \/ a[i] = b
       /\ \E i \in DOMAIN a : a[i] = b
  BY <1>4, <1>8, <1>9
<1> QED
  BY <1>1, <1>2, <1>3, <1>5, <1>6, <1>7, <1>10 DEF q, b, n

LEMMA HeededStep ==
    ASSUME WorkInv, RestType, AnswersHold, Heeded, Truth, [Next]_vars
    PROVE  Heeded'
<1>1. CASE WriteMutations
  <2> DEFINE n == Len(author)
             b == [id |-> nextId, write |-> n + 1]
  <2>1. /\ n \in Nat /\ n + 1 \in Writes /\ user \in Users
        /\ \A u \in Users : u # user => queue'[u] = queue[u]
        /\ \A i \in DOMAIN queue[user] : i \in DOMAIN queue'[user] /\ queue'[user][i] = queue[user][i]
        /\ \E i \in DOMAIN queue'[user] : queue'[user][i] = b
        /\ callbacks' = callbacks \cup {[user |-> user, batch |-> b]} /\ told' = told
    BY <1>1, IssuedFacts
  <2>2. told[n + 1] = "nothing"
    <3> HIDE DEF n
    <3>1. ~(n + 1 <= n)
      BY <2>1
    <3>2. told[n + 1] # "nothing" => n + 1 <= n
      BY <2>1 DEF Truth, n
    <3> QED
      BY <3>1, <3>2
  <2>3. b.write = n + 1
    OBVIOUS
  <2> HIDE DEF b, n
  <2>4. ASSUME NEW c \in callbacks
        PROVE  (\E i \in DOMAIN queue'[c.user] : queue'[c.user][i] = c.batch)
               /\ told'[c.batch.write] = "nothing"
    <3>1. c.user \in Users
      BY DEF RestType
    <3>2. PICK i \in DOMAIN queue[c.user] : queue[c.user][i] = c.batch
      BY DEF Heeded
    <3>3. told[c.batch.write] = "nothing"
      BY DEF Heeded
    <3> QED
      BY <2>1, <3>1, <3>2, <3>3
  <2>5. ASSUME NEW c, c = [user |-> user, batch |-> b]
        PROVE  (\E i \in DOMAIN queue'[c.user] : queue'[c.user][i] = c.batch)
               /\ told'[c.batch.write] = "nothing"
    <3>1. c.user = user /\ c.batch = b
      BY <2>5
    <3> QED
      BY <2>1, <2>2, <2>3, <3>1
  <2> QED
    BY <2>1, <2>4, <2>5 DEF Heeded
<1>2. ASSUME NEW answer \in {"ok", "error"}, Settles(answer)
      PROVE  Heeded'
  <2>1. /\ remote.pipeline # <<>> /\ Settled(Front, answer) /\ queue[user] # <<>>
        /\ Front = queue[user][1] /\ callbacks' = callbacks \ Heard(Front)
        /\ told' = Told(Front, answer)
    BY <1>2, FrontIsFirst DEF Settles, Settled
  <2>2. ASSUME NEW c \in callbacks'
        PROVE  (\E i \in DOMAIN queue'[c.user] : queue'[c.user][i] = c.batch)
               /\ told'[c.batch.write] = "nothing"
    <3>1. /\ c \in callbacks /\ c \notin Heard(Front) /\ c.user \in Users
          /\ told[c.batch.write] = "nothing"
      BY <2>1 DEF RestType, Heeded
    <3>2. PICK i \in DOMAIN queue[c.user] : queue[c.user][i] = c.batch
      BY <3>1 DEF Heeded
    <3>3. author[c.batch.write] = c.user /\ c.batch.write \in Writes
      BY <3>1, <3>2, QueueFacts
    <3>4. author[Front.write] = user
      BY <2>1, FrontFacts
    <3>5. (\E j \in DOMAIN queue'[c.user] : queue'[c.user][j] = c.batch) /\ c.batch.write # Front.write
      <4>1. CASE c.user # user
        BY <2>1, <3>1, <3>2, <3>3, <3>4, <4>1, StillQueued
      <4>2. CASE c.user = user
        <5>1. c.batch.id # Front.id
          BY <3>1, <4>2 DEF Heard
        <5>2. i # 1
          BY <2>1, <3>2, <4>2, <5>1
        <5>3. c.batch.write # Front.write
          BY <2>1, <3>2, <4>2, <5>2, FrontFacts
        <5>4. \E j \in DOMAIN queue'[user] : queue'[user][j] = queue[user][i]
          BY <2>1, <3>2, <4>2, <5>2, StillQueued
        <5> QED
          BY <3>2, <4>2, <5>3, <5>4
      <4> QED
        BY <4>1, <4>2
    <3>6. told'[c.batch.write] = told[c.batch.write]
      <4>1. told' = told \/ told' = [told EXCEPT ![Front.write] = answer]
        BY <2>1, ToldIs
      <4> QED
        BY <3>3, <3>5, <4>1 DEF RestType
    <3> QED
      BY <3>1, <3>5, <3>6
  <2> QED
    BY <2>2 DEF Heeded
<1>3. ASSUME callbacks' \subseteq callbacks, UNCHANGED <<queue, told>>
      PROVE  Heeded'
  BY <1>3 DEF Heeded
<1>4. CASE DiesAnswering
  BY <1>4 DEF DiesAnswering, Heeded
<1>5. ASSUME NEW j, Commits(j)
      PROVE  Heeded'
  BY <1>3, <1>5 DEF Commits
<1>6. ASSUME NEW j, Refuses(j)
      PROVE  Heeded'
  BY <1>3, <1>6 DEF Refuses
<1>7. CASE Idles
  BY <1>3, <1>7 DEF Idles
<1> QED
  BY <1>1, <1>2, <1>4, <1>5, <1>6, <1>7, KindsOfSteps

LEMMA TruthOfFront ==
    ASSUME WorkInv, RestType, Heeded, Truth, NEW answer \in {"ok", "error"},
           queue[user] # <<>>, Front = queue[user][1], answer = "ok" => Trusted,
           told' = Told(Front, answer), UNCHANGED <<author, done, last>>,
           \A u \in Users : \A i \in DOMAIN queue'[u] :
              \E j \in DOMAIN queue[u] : queue'[u][i] = queue[u][j]
    PROVE  Truth'
<1>1. /\ user \in Users /\ Front.write \in Writes /\ Front.write <= Len(author)
      /\ author[Front.write] = user
      /\ \A i \in DOMAIN queue[user] : queue[user][i].write >= Front.write
  BY FrontFacts
<1>2. told' = told \/ told' = [told EXCEPT ![Front.write] = answer]
  BY ToldIs
<1>3. ASSUME NEW w \in Writes, told'[w] # "nothing"
      PROVE  w <= Len(author)
  <2>1. w = Front.write \/ told[w] # "nothing"
    BY <1>2, <1>3 DEF RestType
  <2> QED
    BY <1>1, <2>1 DEF Truth
<1>4. ASSUME NEW w \in Writes, told'[w] = "ok"
      PROVE  /\ w \in done /\ last[author[w]] >= w /\ author[w] \in Users
             /\ \A i \in DOMAIN queue[author[w]] : queue[author[w]][i].write >= w
  <2>1. (w = Front.write /\ answer = "ok") \/ told[w] = "ok"
    BY <1>2, <1>4 DEF RestType
  <2>2. author[w] \in Users
    <3>1. w <= Len(author) /\ author \in Seq(Users)
      BY <1>3, <1>4 DEF WorkInv, QueueSound
    <3>2. w \in Nat \ {0} /\ Len(author) \in Nat
      BY <3>1, WritesAreNat, SeqLen
    <3>3. w \in 1 .. Len(author)
      BY <3>1, <3>2
    <3> QED
      BY <3>1, <3>3, SeqLen
  <2>3. CASE w = Front.write /\ answer = "ok"
    BY <1>1, <2>2, <2>3 DEF Trusted
  <2>4. CASE told[w] = "ok"
    BY <2>2, <2>4 DEF Truth
  <2> QED
    BY <2>1, <2>3, <2>4
<1>5. ASSUME NEW w \in Writes, told'[w] = "ok"
      PROVE  \A i \in DOMAIN queue'[author[w]] : queue'[author[w]][i].write >= w
  BY <1>4, <1>5
<1> QED
  BY <1>3, <1>4, <1>5 DEF Truth

LEMMA AuthorOfTold ==
    ASSUME WorkInv, Truth, NEW w \in Writes, told[w] = "ok"
    PROVE  author[w] \in Users /\ w \in 1 .. Len(author) /\ Len(author) \in Nat
<1>1. w <= Len(author) /\ author \in Seq(Users)
  BY DEF WorkInv, QueueSound, Truth
<1>2. w \in Nat \ {0} /\ Len(author) \in Nat
  BY <1>1, WritesAreNat, SeqLen
<1>3. w \in 1 .. Len(author)
  BY <1>1, <1>2
<1> QED
  BY <1>1, <1>2, <1>3, SeqLen

LEMMA TruthStep ==
    ASSUME WorkInv, RestType, AnswersHold, Heeded, Truth, [Next]_vars
    PROVE  Truth'
<1>1. CASE WriteMutations
  <2> DEFINE n == Len(author)
             b == [id |-> nextId, write |-> n + 1]
  <2>1. /\ n \in Nat /\ user \in Users
        /\ Len(author') = n + 1
        /\ \A w \in 1 .. n : author'[w] = author[w]
        /\ \A u \in Users : u # user => queue'[u] = queue[u]
        /\ \A i \in DOMAIN queue[user] : queue'[user][i] = queue[user][i]
        /\ \A i \in DOMAIN queue'[user] : i \in DOMAIN queue[user] \/ queue'[user][i] = b
        /\ UNCHANGED <<told, done, last>>
    BY <1>1, IssuedFacts
  <2>2. b.write = n + 1
    OBVIOUS
  <2>3. ASSUME NEW w \in Writes, told'[w] # "nothing"
        PROVE  w <= Len(author')
    <3>1. w <= n /\ w \in Nat
      BY <2>1, <2>3, WritesAreNat DEF Truth
    <3> HIDE DEF n
    <3> QED
      BY <2>1, <3>1
  <2>4. ASSUME NEW w \in Writes, told'[w] = "ok"
        PROVE  /\ w \in done' /\ last'[author'[w]] >= w
               /\ \A i \in DOMAIN queue'[author'[w]] : queue'[author'[w]][i].write >= w
    <3>1. /\ told[w] = "ok" /\ w \in 1 .. n
          /\ author[w] \in Users /\ author'[w] = author[w]
      BY <2>1, <2>4, AuthorOfTold
    <3>2. /\ w \in done /\ last[author[w]] >= w
          /\ \A i \in DOMAIN queue[author[w]] : queue[author[w]][i].write >= w
      BY <3>1 DEF Truth
    <3> HIDE DEF n
    <3>3. b.write >= w
      BY <2>1, <2>2, <3>1
    <3> HIDE DEF b
    <3>4. CASE author[w] = user
      BY <2>1, <3>1, <3>2, <3>3, <3>4
    <3>5. CASE author[w] # user
      BY <2>1, <3>1, <3>2, <3>5
    <3> QED
      BY <3>4, <3>5
  <2> QED
    BY <2>3, <2>4 DEF Truth
<1>2. ASSUME NEW answer \in {"ok", "error"}, Settles(answer)
      PROVE  Truth'
  <2>1. /\ remote.pipeline # <<>> /\ Settled(Front, answer) /\ queue[user] # <<>>
        /\ Front = queue[user][1] /\ (answer = "ok" => Trusted)
        /\ told' = Told(Front, answer) /\ UNCHANGED <<author, done, last>>
    BY <1>2, FrontIsFirst DEF Settles, Settled, server
  <2>2. \A u \in Users : \A i \in DOMAIN queue'[u] :
           \E j \in DOMAIN queue[u] : queue'[u][i] = queue[u][j]
    BY <2>1, StillQueued
  <2> QED
    BY <2>1, <2>2, TruthOfFront
<1>3. CASE DiesAnswering
  <2>1. /\ queue[user] # <<>> /\ Front = queue[user][1] /\ Trusted
        /\ told' = Told(Front, "ok") /\ UNCHANGED <<queue, author, done, last>>
    BY <1>3 DEF DiesAnswering, Trusted
  <2> QED
    BY <2>1, TruthOfFront
<1>4. ASSUME NEW j \in DOMAIN queue[user], Commits(j)
      PROVE  Truth'
  <2>1. /\ done' = done \cup {queue[user][j].write}
        /\ last' = [last EXCEPT ![user] = queue[user][j].write]
        /\ UNCHANGED <<queue, author, told>>
    BY <1>4 DEF Commits
  <2>2. ASSUME NEW w \in Writes, told[w] = "ok"
        PROVE  w \in done' /\ last'[author[w]] >= w
    <3>1. /\ w \in done /\ last[author[w]] >= w /\ author[w] \in Users
          /\ \A i \in DOMAIN queue[author[w]] : queue[author[w]][i].write >= w
      BY <2>2, AuthorOfTold DEF Truth
    <3>2. CASE author[w] = user
      BY <2>1, <3>1, <3>2 DEF RestType
    <3>3. CASE author[w] # user
      BY <2>1, <3>1, <3>3 DEF RestType
    <3> QED
      BY <2>1, <3>1, <3>2, <3>3
  <2> QED
    BY <2>1, <2>2 DEF Truth
<1>5. ASSUME NEW j, Refuses(j)
      PROVE  Truth'
  BY <1>5 DEF Refuses, Truth
<1>6. CASE Idles
  BY <1>6 DEF Idles, Truth
<1> QED
  BY <1>1, <1>2, <1>3, <1>4, <1>5, <1>6, KindsOfSteps

LEMMA HeededTruthAlways == Spec => [](Heeded /\ Truth)
<1>1. Init => Heeded /\ Truth
  BY DEF Init, Heeded, Truth
<1>2. WorkInv /\ RestType /\ AnswersHold /\ Heeded /\ Truth /\ [Next]_vars => Heeded' /\ Truth'
  BY HeededStep, TruthStep
<1> QED
  BY <1>1, <1>2, WorkInvAlways, RestTypeAlways, AnswersAlways, PTL DEF Spec

\* Whoever was told that a write succeeded can rely on it: it is committed, and
\* the document holds it or a later write, though HandleSuccessfulWrite never
\* looks at which batch an answer is for.
THEOREM ToldTheTruthAlways == Spec => []ToldTheTruth
<1>1. Truth => ToldTheTruth
  BY DEF Truth, ToldTheTruth
<1> QED
  BY <1>1, HeededTruthAlways, PTL

-----------------------------------------------------------------------------
(***************************************************************************)
(* What the completions of waitForPendingWrites are told.                  *)
(***************************************************************************)

\* A completion waits for the last of its writes that can still be queued.
WaitersSound ==
    \A x \in waiters : \A w \in x.for :
        /\ w <= Len(author)
        /\ \/ w \in done
           \/ \A u \in Users : \A i \in DOMAIN queue[u] :
                 queue[u][i].write = w => u = user /\ queue[u][i].id <= x.id

WaitedSound ==
    \A w \in waited :
        /\ w <= Len(author)
        /\ w \in done \/ \A u \in Users : \A i \in DOMAIN queue[u] : queue[u][i].write # w

LEMMA RegisteredFacts ==
    ASSUME WorkInv, queue[user] # <<>>, NEW w \in Pending(user)
    PROVE  /\ w <= Len(author)
           /\ \A u \in Users : \A i \in DOMAIN queue[u] :
                 queue[u][i].write = w => u = user /\ queue[u][i].id <= Awaited
<1> DEFINE q == queue[user]
           n == Len(q)
<1>1. user \in Users
  BY DEF WorkInv, QueueSound
<1>2. PICK k \in DOMAIN queue[user] : queue[user][k].write = w
  BY DEF Pending
<1>3. w <= Len(author) /\ author[w] = user
  BY <1>1, <1>2, QueueFacts
<1>4. \A u \in Users : \A i \in DOMAIN queue[u] : queue[u][i].write = w => u = user
  BY <1>3, QueueFacts
<1>5. /\ q \in Seq(Batch) /\ Sorted(q) /\ n \in Nat /\ DOMAIN q = 1 .. n
  BY <1>1, QueueFacts
<1>6. n > 0
  BY <1>5, SeqLen
<1>7. \A i \in 1 .. n, j \in 1 .. n : q[i].id <= q[j].id <=> i <= j
  BY <1>5, SortedUses
<1>8. Awaited = q[n].id
  BY DEF Awaited
<1> HIDE DEF q, n
<1>9. \A i \in DOMAIN q : q[i].id <= Awaited
  BY <1>5, <1>6, <1>7, <1>8
<1> QED
  BY <1>3, <1>4, <1>9 DEF q

LEMMA TriggeredFacts ==
    ASSUME WorkInv, WaitersSound, queue[user] # <<>>, Front = queue[user][1],
           NEW x \in Triggered(Front), NEW w \in x.for
    PROVE  /\ w <= Len(author)
           /\ \/ w \in done
              \/ \A u \in Users : \A i \in DOMAIN queue[u] : queue[u][i].write = w => u = user /\ i = 1
<1> DEFINE q == queue[user]
           n == Len(q)
<1>1. user \in Users /\ 1 \in DOMAIN q
  BY FrontFacts
<1>2. x \in waiters /\ x.id = q[1].id
  BY DEF Triggered
<1>3. /\ w <= Len(author)
      /\ \/ w \in done
         \/ \A u \in Users : \A i \in DOMAIN queue[u] :
               queue[u][i].write = w => u = user /\ queue[u][i].id <= q[1].id
  BY <1>2 DEF WaitersSound
<1>4. /\ q \in Seq(Batch) /\ Sorted(q) /\ n \in Nat /\ DOMAIN q = 1 .. n
  BY <1>1, QueueFacts
<1>5. \A i \in 1 .. n, j \in 1 .. n : q[i].id <= q[j].id <=> i <= j
  BY <1>4, SortedUses
<1> HIDE DEF n
<1>6. \A i \in DOMAIN q : q[i].id <= q[1].id => i = 1
  <2> HIDE DEF q
  <2> QED
    BY <1>1, <1>4, <1>5
<1> QED
  BY <1>3, <1>6

LEMMA WaitedStep ==
    ASSUME WorkInv, RestType, AnswersHold, WaitersSound, WaitedSound, [Next]_vars
    PROVE  WaitersSound' /\ WaitedSound'
<1>1. CASE WriteMutations
  <2> DEFINE n == Len(author)
             b == [id |-> nextId, write |-> n + 1]
  <2>1. /\ n \in Nat /\ user \in Users
        /\ Len(author') = n + 1
        /\ \A u \in Users : u # user => queue'[u] = queue[u]
        /\ \A i \in DOMAIN queue[user] : queue'[user][i] = queue[user][i]
        /\ \A i \in DOMAIN queue'[user] : i \in DOMAIN queue[user] \/ queue'[user][i] = b
        /\ UNCHANGED <<user, waiters, waited, done>>
    BY <1>1, IssuedFacts
  <2>2. b.write = n + 1
    OBVIOUS
  <2>3. ASSUME NEW w \in Writes, w <= n
        PROVE  /\ w <= Len(author')
               /\ \A u \in Users : \A i \in DOMAIN queue'[u] :
                     queue'[u][i].write = w => i \in DOMAIN queue[u] /\ queue'[u][i] = queue[u][i]
    <3> HIDE DEF n
    <3>1. w \in Nat /\ w <= Len(author') /\ b.write # w
      BY <2>1, <2>2, <2>3, WritesAreNat
    <3> HIDE DEF b
    <3> QED
      BY <2>1, <3>1
  <2>4. WaitersSound'
    <3> SUFFICES ASSUME NEW x \in waiters, NEW w \in x.for
                 PROVE  /\ w <= Len(author')
                        /\ \/ w \in done'
                           \/ \A u \in Users : \A i \in DOMAIN queue'[u] :
                                 queue'[u][i].write = w => u = user' /\ queue'[u][i].id <= x.id
      BY <2>1 DEF WaitersSound
    <3>1. w \in Writes
      BY DEF RestType
    <3>2. /\ w <= n
          /\ \/ w \in done
             \/ \A u \in Users : \A i \in DOMAIN queue[u] :
                   queue[u][i].write = w => u = user /\ queue[u][i].id <= x.id
      BY DEF WaitersSound
    <3> QED
      BY <2>1, <2>3, <3>1, <3>2
  <2>5. WaitedSound'
    <3> SUFFICES ASSUME NEW w \in waited
                 PROVE  /\ w <= Len(author')
                        /\ w \in done' \/ \A u \in Users : \A i \in DOMAIN queue'[u] : queue'[u][i].write # w
      BY <2>1 DEF WaitedSound
    <3>1. w \in Writes
      BY DEF RestType
    <3>2. w <= n /\ (w \in done \/ \A u \in Users : \A i \in DOMAIN queue[u] : queue[u][i].write # w)
      BY DEF WaitedSound
    <3> QED
      BY <2>1, <2>3, <3>1, <3>2
  <2> QED
    BY <2>4, <2>5
<1>2. ASSUME NEW answer \in {"ok", "error"}, Settles(answer)
      PROVE  WaitersSound' /\ WaitedSound'
  <2>1. /\ remote.pipeline # <<>> /\ Settled(Front, answer) /\ queue[user] # <<>>
        /\ Front = queue[user][1] /\ waiters' = waiters \ Triggered(Front)
        /\ waited' = Waited(Front) /\ UNCHANGED <<user, author, done>>
    BY <1>2, FrontIsFirst DEF Settles, Settled, server
  <2>2. \A u \in Users : \A i \in DOMAIN queue'[u] :
           \E j \in DOMAIN queue[u] : queue'[u][i] = queue[u][j] /\ (u = user => j # 1)
    BY <2>1, StillQueued
  <2>3. WaitersSound'
    BY <2>1, <2>2 DEF WaitersSound
  <2>4. ASSUME NEW x \in Triggered(Front), NEW w \in x.for
        PROVE  w <= Len(author)
               /\ (w \in done \/ \A u \in Users : \A i \in DOMAIN queue'[u] : queue'[u][i].write # w)
    <3>1. /\ w <= Len(author)
          /\ \/ w \in done
             \/ \A u \in Users : \A i \in DOMAIN queue[u] : queue[u][i].write = w => u = user /\ i = 1
      BY <2>1, TriggeredFacts
    <3> QED
      BY <2>2, <3>1
  <2>5. ASSUME NEW w \in waited
        PROVE  w <= Len(author)
               /\ (w \in done \/ \A u \in Users : \A i \in DOMAIN queue'[u] : queue'[u][i].write # w)
    BY <2>2 DEF WaitedSound
  <2>6. WaitedSound'
    BY <2>1, <2>4, <2>5 DEF WaitedSound, Waited
  <2> QED
    BY <2>3, <2>6
<1>3. CASE DiesAnswering
  <2>1. /\ queue[user] # <<>> /\ Front = queue[user][1] /\ Front.write \in done
        /\ waited' = Waited(Front) /\ waiters' = {} /\ UNCHANGED <<queue, author, done>>
    BY <1>3 DEF DiesAnswering, Trusted
  <2>2. ASSUME NEW x \in Triggered(Front), NEW w \in x.for
        PROVE  w <= Len(author)
               /\ (w \in done \/ \A u \in Users : \A i \in DOMAIN queue[u] : queue[u][i].write # w)
    BY <2>1, TriggeredFacts
  <2>3. WaitedSound'
    BY <2>1, <2>2 DEF WaitedSound, Waited
  <2>4. WaitersSound'
    BY <2>1 DEF WaitersSound
  <2> QED
    BY <2>3, <2>4
<1>4. ASSUME NEW j, Commits(j)
      PROVE  WaitersSound' /\ WaitedSound'
  <2>1. done \subseteq done' /\ UNCHANGED <<queue, user, waiters, author, waited>>
    BY <1>4 DEF Commits
  <2> QED
    BY <2>1 DEF WaitersSound, WaitedSound
<1>5. ASSUME NEW j, Refuses(j)
      PROVE  WaitersSound' /\ WaitedSound'
  <2>1. UNCHANGED <<queue, user, waiters, author, waited, done>>
    BY <1>5 DEF Refuses
  <2> QED
    BY <2>1 DEF WaitersSound, WaitedSound
<1>6. CASE Idles
  <2>1. UNCHANGED <<queue, author, waited, done>>
    BY <1>6 DEF Idles
  <2>2. WaitedSound'
    BY <2>1 DEF WaitedSound
  <2>3. CASE waiters' = waiters /\ user' = user
    BY <2>1, <2>2, <2>3 DEF WaitersSound
  <2>4. CASE waiters' = {}
    BY <2>2, <2>4 DEF WaitersSound
  <2>5. CASE Registers
    <3> DEFINE y == [id |-> Awaited, for |-> Pending(user)]
    <3>1. waiters' = waiters \cup {y} /\ user' = user /\ queue[user] # <<>>
      BY <2>5 DEF Registers
    <3>2. y.id = Awaited /\ y.for = Pending(user)
      OBVIOUS
    <3> HIDE DEF y
    <3>3. ASSUME NEW w \in y.for
          PROVE  /\ w <= Len(author)
                 /\ \A u \in Users : \A i \in DOMAIN queue[u] :
                       queue[u][i].write = w => u = user /\ queue[u][i].id <= y.id
      BY <3>1, <3>2, RegisteredFacts
    <3> QED
      BY <2>1, <2>2, <3>1, <3>3 DEF WaitersSound
  <2> QED
    BY <1>6, <2>2, <2>3, <2>4, <2>5 DEF Idles
<1> QED
  BY <1>1, <1>2, <1>3, <1>4, <1>5, <1>6, KindsOfSteps

\* When waitForPendingWrites answers, every write it waited for is committed or
\* has left its queue, also when others were issued meanwhile.
THEOREM WaitedForAllAlways == Spec => []WaitedForAll
<1>1. Init => WaitersSound /\ WaitedSound
  BY DEF Init, WaitersSound, WaitedSound
<1>2. WorkInv /\ RestType /\ AnswersHold /\ WaitersSound /\ WaitedSound /\ [Next]_vars
          => WaitersSound' /\ WaitedSound'
  BY WaitedStep
<1>3. WaitedSound => WaitedForAll
  BY DEF WaitedSound, WaitedForAll, Pending
<1> QED
  BY <1>1, <1>2, <1>3, WorkInvAlways, RestTypeAlways, AnswersAlways, PTL DEF Spec

-----------------------------------------------------------------------------
(***************************************************************************)
(* Every step is one WriteLog allows.                                      *)
(***************************************************************************)
WritesOf(q) == [i \in DOMAIN q |-> q[i].write]

Logged == [u \in Users |-> WritesOf(queue[u])]

Owed == {c.batch.write : c \in callbacks}

LEMMA WritesOfIs ==
    ASSUME NEW q \in Seq(Batch)
    PROVE  /\ WritesOf(q) \in Seq(Writes) /\ Len(WritesOf(q)) = Len(q)
           /\ DOMAIN WritesOf(q) = DOMAIN q
           /\ \A i \in DOMAIN q : WritesOf(q)[i] = q[i].write
<1> DEFINE n == Len(q)
<1>1. n \in Nat /\ DOMAIN q = 1 .. n /\ \A i \in 1 .. n : q[i] \in Batch
  BY SeqLen
<1>2. \A i \in 1 .. n : q[i].write \in Writes
  BY <1>1, BatchFields
<1> HIDE DEF n
<1>3. WritesOf(q) = [i \in 1 .. n |-> q[i].write]
  BY <1>1 DEF WritesOf
<1>4. WritesOf(q) \in Seq(Writes) /\ Len(WritesOf(q)) = n
  BY <1>1, <1>2, <1>3
<1> QED
  BY <1>1, <1>3, <1>4 DEF n

LEMMA WritesOfAppend ==
    ASSUME NEW q \in Seq(Batch), NEW b \in Batch
    PROVE  WritesOf(Append(q, b)) = Append(WritesOf(q), b.write)
<1> DEFINE n == Len(q)
           a == Append(q, b)
           w == b.write
           l == WritesOf(q)
           m == Append(l, w)
           k == WritesOf(a)
<1>1. n \in Nat /\ DOMAIN q = 1 .. n
  BY SeqLen
<1>2. a \in Seq(Batch) /\ Len(a) = n + 1 /\ a[n + 1] = b /\ \A i \in 1 .. n : a[i] = q[i]
  BY SeqAppend
<1>3. DOMAIN a = 1 .. n + 1
  BY <1>2, SeqLen
<1>4. l \in Seq(Writes) /\ Len(l) = n /\ \A i \in 1 .. n : l[i] = q[i].write
  BY <1>1, WritesOfIs
<1>5. w \in Writes
  BY BatchFields
<1> HIDE DEF l, w
<1>6. m \in Seq(Writes) /\ Len(m) = n + 1 /\ m[n + 1] = w /\ \A i \in 1 .. n : m[i] = l[i]
  BY <1>4, <1>5, SeqAppend
<1> HIDE DEF a, m
<1>7. k \in Seq(Writes) /\ Len(k) = n + 1 /\ \A i \in 1 .. n + 1 : k[i] = a[i].write
  BY <1>2, <1>3, WritesOfIs
<1> HIDE DEF n, k
<1>8. ASSUME NEW i \in 1 .. n + 1
      PROVE  k[i] = m[i]
  <2>1. CASE i = n + 1
    BY <1>2, <1>6, <1>7, <2>1 DEF w
  <2>2. CASE i # n + 1
    <3>1. i \in 1 .. n
      BY <1>1, <2>2
    <3> QED
      BY <1>2, <1>4, <1>6, <1>7, <3>1
  <2> QED
    BY <2>1, <2>2
<1>9. k = m
  BY <1>6, <1>7, <1>8, SeqSame
<1> QED
  BY <1>9 DEF k, m, a, l, w

LEMMA WritesOfTail ==
    ASSUME NEW q \in Seq(Batch), q # <<>>
    PROVE  /\ WritesOf(Tail(q)) = Tail(WritesOf(q))
           /\ WritesOf(q) # <<>> /\ Head(WritesOf(q)) = q[1].write
<1> DEFINE n == Len(q)
           t == Tail(q)
           l == WritesOf(q)
           m == Tail(l)
           k == WritesOf(t)
<1>1. n \in Nat /\ DOMAIN q = 1 .. n /\ n > 0
  BY SeqLen
<1>2. t \in Seq(Batch) /\ Len(t) = n - 1 /\ \A i \in 1 .. n - 1 : t[i] = q[i + 1]
  BY SeqTail
<1>3. DOMAIN t = 1 .. n - 1
  BY <1>2, SeqLen
<1>4. l \in Seq(Writes) /\ Len(l) = n /\ \A i \in 1 .. n : l[i] = q[i].write
  BY <1>1, WritesOfIs
<1>5. l # <<>>
  BY <1>1, <1>4, SeqLen
<1> HIDE DEF l
<1>6. m \in Seq(Writes) /\ Len(m) = n - 1 /\ Head(l) = l[1] /\ \A i \in 1 .. n - 1 : m[i] = l[i + 1]
  BY <1>4, <1>5, SeqTail
<1> HIDE DEF t, m
<1>7. k \in Seq(Writes) /\ Len(k) = n - 1 /\ \A i \in 1 .. n - 1 : k[i] = t[i].write
  BY <1>2, <1>3, WritesOfIs
<1> HIDE DEF n, k
<1>8. \A i \in 1 .. n - 1 : i + 1 \in 1 .. n
  BY <1>1
<1>9. \A i \in 1 .. n - 1 : k[i] = m[i]
  BY <1>2, <1>4, <1>6, <1>7, <1>8
<1>10. k = m
  BY <1>6, <1>7, <1>9, SeqSame
<1>11. l[1] = q[1].write
  <2>1. 1 \in 1 .. n
    BY <1>1
  <2> QED
    BY <2>1, <1>4
<1> QED
  BY <1>5, <1>6, <1>10, <1>11 DEF k, m, t, l

LEMMA IssueIsAllowed ==
    ASSUME WorkInv, WriteMutations
    PROVE  Log!Issue(user)
<1> DEFINE n == Len(author)
           b == [id |-> nextId, write |-> n + 1]
<1>1. /\ b \in Batch /\ queue' = [queue EXCEPT ![user] = Append(@, b)] /\ Len(author') = n + 1
  BY IssuedQueue
<1>2. n \in Nat /\ user \in Users /\ n + 1 \in Writes /\ UNCHANGED <<told, done, last>>
      /\ callbacks' = callbacks \cup {[user |-> user, batch |-> b]}
  BY IssuedFacts
<1>3. n < MaxWrites
  BY <1>2, BoundsAssumption DEF Writes
<1>4. queue \in [Users -> Seq(Batch)]
  BY DEF WorkInv, QueueSound
<1>5. b.write = n + 1
  OBVIOUS
<1> HIDE DEF b
<1>6. Owed' = Owed \cup {n + 1}
  <2> DEFINE c == [user |-> user, batch |-> b]
  <2>1. callbacks' = callbacks \cup {c} /\ c.batch = b
    BY <1>2
  <2> HIDE DEF c, n
  <2>2. {x.batch.write : x \in callbacks \cup {c}} = Owed \cup {c.batch.write}
    BY DEF Owed
  <2> QED
    BY <1>5, <2>1, <2>2 DEF Owed
<1>7. Refused' = Refused
  <2>1. remote \in Remote /\ remote' = Fill(remote, queue'[user])
    BY DEF WriteMutations, WorkInv, Working, Serving
  <2>2. remote'.responses = remote.responses
    BY <2>1, FillKeeps
  <2> QED
    BY <2>2, RefusalsKept
<1>8. lives' = lives
  BY DEF WriteMutations
<1>9. Logged' = [Logged EXCEPT ![user] = Append(@, n + 1)]
  <2>1. queue[user] \in Seq(Batch)
    BY <1>2, <1>4
  <2>2. WritesOf(Append(queue[user], b)) = Append(WritesOf(queue[user]), n + 1)
    BY <1>1, <1>5, <2>1, WritesOfAppend
  <2>3. queue'[user] = Append(queue[user], b) /\ \A u \in Users : u # user => queue'[u] = queue[u]
    BY <1>1, <1>2, <1>4
  <2> HIDE DEF n
  <2>4. ASSUME NEW u \in Users
        PROVE  WritesOf(queue'[u]) = [Logged EXCEPT ![user] = Append(@, n + 1)][u]
    BY <1>2, <2>2, <2>3 DEF Logged
  <2>5. Logged' = [u \in Users |-> WritesOf(queue'[u])]
    BY DEF Logged
  <2>6. [Logged EXCEPT ![user] = Append(@, n + 1)]
            = [u \in Users |-> [Logged EXCEPT ![user] = Append(@, n + 1)][u]]
    BY DEF Logged
  <2> QED
    BY <2>4, <2>5, <2>6
<1> QED
  BY <1>1, <1>2, <1>3, <1>6, <1>7, <1>8, <1>9 DEF Log!Issue, Logged, WritesOf, Owed, Refused

\* What Logged says of the user who is signed in.
LEMMA LoggedFront ==
    ASSUME WorkInv, queue[user] # <<>>, Front = queue[user][1]
    PROVE  user \in Users /\ Logged[user] # <<>> /\ Head(Logged[user]) = Front.write
<1>1. user \in Users
  BY DEF WorkInv, QueueSound
<1>2. queue[user] \in Seq(Batch)
  BY <1>1, QueueFacts
<1>3. Logged[user] = WritesOf(queue[user])
  BY <1>1 DEF Logged
<1> QED
  BY <1>1, <1>2, <1>3, WritesOfTail

LEMMA SettledLog ==
    ASSUME WorkInv, remote.pipeline # <<>>, NEW answer, Settled(Front, answer)
    PROVE  Logged' = [Logged EXCEPT ![user] = Tail(@)]
<1>1. user \in Users /\ queue \in [Users -> Seq(Batch)]
  BY DEF WorkInv, QueueSound
<1>2. queue[user] \in Seq(Batch) /\ queue[user] # <<>> /\ queue'[user] = Tail(queue[user])
  BY <1>1, SettledQueue
<1>3. WritesOf(Tail(queue[user])) = Tail(WritesOf(queue[user]))
  BY <1>2, WritesOfTail
<1>4. \A u \in Users : u # user => queue'[u] = queue[u]
  BY StillQueued
<1>5. ASSUME NEW u \in Users
      PROVE  WritesOf(queue'[u]) = [Logged EXCEPT ![user] = Tail(@)][u]
  BY <1>1, <1>2, <1>3, <1>4 DEF Logged
<1>6. Logged' = [u \in Users |-> WritesOf(queue'[u])]
  BY DEF Logged
<1>7. [Logged EXCEPT ![user] = Tail(@)] = [u \in Users |-> [Logged EXCEPT ![user] = Tail(@)][u]]
  BY DEF Logged
<1> QED
  BY <1>5, <1>6, <1>7

\* The completion the front batch has, if it has one, is the one WriteLog owes.
LEMMA OwedFront ==
    ASSUME WorkInv, RestType, Heeded, queue[user] # <<>>, Front = queue[user][1]
    PROVE  /\ Front.write \in Owed <=> Heard(Front) # {}
           /\ {c.batch.write : c \in callbacks \ Heard(Front)} = Owed \ {Front.write}
<1>1. ASSUME NEW c \in callbacks, c.batch.write = Front.write
      PROVE  c \in Heard(Front)
  <2>1. c.user \in Users
    BY DEF RestType
  <2>2. PICK i \in DOMAIN queue[c.user] : queue[c.user][i] = c.batch
    BY DEF Heeded
  <2>3. author[c.batch.write] = c.user /\ author[Front.write] = user
    BY <2>1, <2>2, QueueFacts, FrontFacts
  <2>4. c.user = user
    BY <1>1, <2>3
  <2>5. i = 1
    BY <1>1, <2>2, <2>4, FrontFacts
  <2>6. c.batch.id = Front.id
    BY <2>2, <2>4, <2>5
  <2> QED
    BY <2>4, <2>6 DEF Heard
<1>2. \A c \in Heard(Front) : c \in callbacks /\ c.batch.write = Front.write
  BY ToldIs DEF Heard
<1> QED
  BY <1>1, <1>2 DEF Owed

LEMMA TellIsAllowed ==
    ASSUME WorkInv, RestType, Heeded, queue[user] # <<>>, Front = queue[user][1],
           NEW answer \in {"ok", "error"}, told' = Told(Front, answer)
    PROVE  Log!Tell(Head(Logged[user]), answer)
<1>1. Head(Logged[user]) = Front.write
  BY LoggedFront
<1>2. CASE Heard(Front) = {}
  <2>1. told' = told /\ Front.write \notin Owed
    BY <1>2, ToldIs, OwedFront
  <2> QED
    BY <1>1, <2>1 DEF Log!Tell, Owed
<1>3. CASE Heard(Front) # {}
  <2>1. told[Front.write] = "nothing" /\ told' = [told EXCEPT ![Front.write] = answer]
    BY <1>3, ToldIs
  <2>2. Front.write \in Owed
    BY <1>3, OwedFront
  <2> QED
    BY <1>1, <2>1, <2>2 DEF Log!Tell, Owed
<1> QED
  BY <1>2, <1>3

\* The oldest write may be settled as accepted.
LEMMA HoldsTrusted ==
    ASSUME WorkInv, Trusted
    PROVE  Log!Holds(user) /\ user \in Users
<1>1. /\ queue[user] # <<>> /\ Front = queue[user][1]
      /\ Front.write \in done /\ last[user] >= Front.write
  BY DEF Trusted
<1>2. user \in Users /\ Logged[user] # <<>> /\ Head(Logged[user]) = Front.write
  BY <1>1, LoggedFront
<1> QED
  BY <1>1, <1>2 DEF Log!Holds, Logged, WritesOf

LEMMA SettleIsAllowed ==
    ASSUME WorkInv, RestType, Heeded, NEW answer \in {"ok", "error"}, Settles(answer)
    PROVE  Log!Settle(user, answer)
<1>1. /\ remote.pipeline # <<>> /\ Settled(Front, answer)
      /\ queue[user] # <<>> /\ Front = queue[user][1]
      /\ told' = Told(Front, answer) /\ callbacks' = callbacks \ Heard(Front)
      /\ UNCHANGED <<author, lives, done, last>>
  BY FrontIsFirst DEF Settles, Settled, server
<1>2. user \in Users /\ Logged[user] # <<>> /\ Head(Logged[user]) = Front.write
  BY <1>1, LoggedFront
<1>3. Logged' = [Logged EXCEPT ![user] = Tail(@)]
  BY <1>1, SettledLog
<1>4. Log!Tell(Head(Logged[user]), answer)
  BY <1>1, TellIsAllowed
<1>5. Owed' = Owed \ {Head(Logged[user])}
  BY <1>1, <1>2, OwedFront DEF Owed
<1>6. IF answer = "ok" THEN Log!Holds(user) /\ Refused' = Refused
      ELSE Log!Fails(user) /\ Refused' = {}
  <2>1. CASE answer = "ok"
    BY <2>1, HoldsTrusted DEF Settles
  <2>2. CASE answer # "ok"
    <3>1. Refused' = {}
      BY <2>2 DEF Settles
    <3>2. PICK i \in DOMAIN queue[user] : queue[user][i].write \in Refused
      BY <2>2 DEF Settles
    <3>3. queue[user] \in Seq(Batch) /\ Logged[user] = WritesOf(queue[user])
      BY <1>2, QueueFacts DEF Logged
    <3>4. i \in DOMAIN Logged[user] /\ Logged[user][i] \in Refused
      BY <3>2, <3>3, WritesOfIs
    <3>5. Log!Fails(user)
      BY <3>4 DEF Log!Fails, Logged, WritesOf, Refused
    <3> QED
      BY <2>2, <3>1, <3>5
  <2> QED
    BY <2>1, <2>2
<1> QED
  BY <1>1, <1>3, <1>4, <1>5, <1>6 DEF Log!Settle, Logged, WritesOf, Owed, Refused

LEMMA AnswerIsAllowed ==
    ASSUME WorkInv, RestType, Heeded, DiesAnswering
    PROVE  Log!DieAnswering(user)
<1>1. /\ queue[user] # <<>> /\ Front = queue[user][1] /\ Trusted
      /\ told' = Told(Front, "ok") /\ callbacks' = {} /\ lives' = lives + 1 /\ Refused' = {}
      /\ UNCHANGED <<queue, author, done, last>>
  BY DEF DiesAnswering, Trusted
<1>2. Log!Tell(Head(Logged[user]), "ok")
  BY <1>1, TellIsAllowed
<1>3. Log!Holds(user)
  BY <1>1, HoldsTrusted
<1>4. Owed' = {}
  BY <1>1 DEF Owed
<1>5. Log!Reborn
  BY <1>1, <1>4 DEF Log!Reborn, Owed, Refused
<1> QED
  BY <1>2, <1>3, <1>5 DEF Log!DieAnswering, Logged, WritesOf

\* The server answers the batch after those it has committed.
LEMMA NextInLog ==
    ASSUME WorkInv, NEW j \in DOMAIN queue[user],
           \A i \in 1 .. (j - 1) : queue[user][i].write \in done
    PROVE  /\ user \in Users /\ j \in DOMAIN Logged[user]
           /\ Logged[user][j] = queue[user][j].write /\ Log!IsNext(user, j)
<1>1. user \in Users
  BY DEF WorkInv, QueueSound
<1>2. /\ queue[user] \in Seq(Batch) /\ Len(queue[user]) \in Nat
      /\ DOMAIN queue[user] = 1 .. Len(queue[user])
  BY <1>1, QueueFacts
<1>3. Logged[user] = WritesOf(queue[user])
  BY <1>1 DEF Logged
<1>4. /\ DOMAIN Logged[user] = DOMAIN queue[user]
      /\ \A i \in DOMAIN queue[user] : Logged[user][i] = queue[user][i].write
  BY <1>2, <1>3, WritesOfIs
<1>5. \A i \in 1 .. (j - 1) : i \in DOMAIN queue[user]
  <2> DEFINE n == Len(queue[user])
  <2>1. n \in Nat /\ j \in 1 .. n /\ DOMAIN queue[user] = 1 .. n
    BY <1>2
  <2> HIDE DEF n
  <2> QED
    BY <2>1
<1>6. \A i \in 1 .. (j - 1) : Logged[user][i] \in done
  BY <1>4, <1>5
<1>7. Log!IsNext(user, j)
  BY <1>6 DEF Log!IsNext, Logged, WritesOf
<1> QED
  BY <1>1, <1>4, <1>7

LEMMA CommitIsAllowed ==
    ASSUME WorkInv, NEW j \in DOMAIN queue[user], Commits(j)
    PROVE  user \in Users /\ j \in DOMAIN Logged[user] /\ Log!Commit(user, j)
<1>1. /\ user \in Users /\ j \in DOMAIN Logged[user]
      /\ Logged[user][j] = queue[user][j].write /\ Log!IsNext(user, j)
  BY NextInLog DEF Commits
<1>2. /\ done' = done \cup {Logged[user][j]} /\ last' = [last EXCEPT ![user] = Logged[user][j]]
      /\ Refused' = Refused /\ UNCHANGED <<queue, author, callbacks, lives, told>>
  BY <1>1 DEF Commits
<1> QED
  BY <1>1, <1>2 DEF Log!Commit, Logged, WritesOf, Refused

LEMMA RefusalIsAllowed ==
    ASSUME WorkInv, NEW j \in DOMAIN queue[user], Refuses(j)
    PROVE  user \in Users /\ j \in DOMAIN Logged[user] /\ Log!Refuse(user, j)
<1>1. /\ user \in Users /\ j \in DOMAIN Logged[user]
      /\ Logged[user][j] = queue[user][j].write /\ Log!IsNext(user, j)
  BY NextInLog DEF Refuses
<1>2. /\ Refused' = Refused \cup {Logged[user][j]}
      /\ UNCHANGED <<queue, author, callbacks, lives, told, done, last>>
  BY <1>1 DEF Refuses
<1> QED
  BY <1>1, <1>2 DEF Log!Refuse, Logged, WritesOf, Refused

LEMMA IdleIsAllowed ==
    ASSUME Idles
    PROVE  Log!Disconnect \/ Log!Die
<1>1. UNCHANGED <<queue, author, told, done, last>>
  BY DEF Idles
<1>2. CASE callbacks' = callbacks /\ lives' = lives /\ Refused' \subseteq Refused
  <2>1. Refused' \in SUBSET Refused
    BY <1>2
  <2> QED
    BY <1>1, <1>2, <2>1 DEF Log!Disconnect, Refused
<1>3. CASE callbacks' = {} /\ lives' = lives + 1 /\ Refused' = {}
  BY <1>1, <1>3 DEF Log!Die, Log!Reborn, Refused
<1> QED
  BY <1>2, <1>3 DEF Idles

LEMMA StepIsAllowed ==
    ASSUME WorkInv, RestType, AnswersHold, Heeded, [Next]_vars
    PROVE  [Log!LogNext]_(Log!vars)
<1>1. PICK u \in Users : u = user
  BY DEF WorkInv, QueueSound
<1>2. CASE WriteMutations
  <2>1. Log!Issue(u)
    BY <1>1, <1>2, IssueIsAllowed DEF Log!Issue
  <2> QED
    BY <2>1 DEF Log!LogNext
<1>3. ASSUME NEW answer \in {"ok", "error"}, Settles(answer)
      PROVE  Log!LogNext
  <2>1. Log!Settle(u, answer)
    BY <1>1, <1>3, SettleIsAllowed DEF Log!Settle, Log!Holds, Log!Fails
  <2> QED
    BY <2>1 DEF Log!LogNext
<1>4. CASE DiesAnswering
  <2>1. Log!DieAnswering(u)
    BY <1>1, <1>4, AnswerIsAllowed DEF Log!DieAnswering, Log!Holds
  <2> QED
    BY <2>1 DEF Log!LogNext
<1>5. ASSUME NEW j \in DOMAIN queue[user], Commits(j)
      PROVE  Log!LogNext
  BY <1>5, CommitIsAllowed DEF Log!LogNext, Logged, WritesOf
<1>6. ASSUME NEW j \in DOMAIN queue[user], Refuses(j)
      PROVE  Log!LogNext
  BY <1>6, RefusalIsAllowed DEF Log!LogNext, Logged, WritesOf
<1>7. CASE Idles
  BY <1>7, IdleIsAllowed DEF Log!LogNext
<1> QED
  BY <1>2, <1>3, <1>4, <1>5, <1>6, <1>7, KindsOfSteps

LEMMA StartIsAllowed ==
    ASSUME Init
    PROVE  Log!LogInit
<1>1. /\ queue = [u \in Users |-> <<>>] /\ author = <<>> /\ told = [w \in Writes |-> "nothing"]
      /\ done = {} /\ last = [u \in Users |-> 0] /\ callbacks = {} /\ lives = 1
  BY DEF Init
<1>2. Logged = [u \in Users |-> <<>>]
  <2>1. WritesOf(<<>>) = <<>>
    BY DEF WritesOf
  <2> QED
    BY <1>1, <2>1 DEF Logged
<1>3. Len(author) = 0
  BY <1>1
<1>4. Refused = {}
  BY FreshIsQuiet DEF Init, Refused, Refusals
<1>5. Owed = {}
  BY <1>1 DEF Owed
<1> QED
  BY <1>1, <1>2, <1>3, <1>4, <1>5
     DEF Log!LogInit, Log!Writes, Writes, Logged, WritesOf, Owed, Refused

\* The pipeline, its streams, its batch ids and its crashes keep the promise of
\* WriteLog: no write is lost, invented, reordered, or settled before its turn.  One
\* leaves its log only if it is committed or a refusal came, and its completion is
\* called then, unless the process that had it died.
THEOREM ImplementsWriteLogAlways == Spec => ImplementsWriteLog
<1>1. Init => Log!LogInit
  BY StartIsAllowed
<1>2. WorkInv /\ RestType /\ AnswersHold /\ Heeded /\ [Next]_vars => [Log!LogNext]_(Log!vars)
  BY StepIsAllowed
<1> QED
  BY <1>1, <1>2, WorkInvAlways, RestTypeAlways, AnswersAlways, HeededTruthAlways, PTL
     DEF Spec, ImplementsWriteLog, Log!LogSpec
=============================================================================
