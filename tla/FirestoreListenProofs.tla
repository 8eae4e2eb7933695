------------------------ MODULE FirestoreListenProofs ------------------------
(***************************************************************************)
(* What is proved about FirestoreListen.                                   *)
(*                                                                         *)
(* First: until it stops listening, a listener's view has the documents of *)
(* the local store, own writes included, but for those that the query left *)
(* out. The invariant is World: the type of every field of the client's    *)
(* record, and what the view has of each document.                         *)
(*                                                                         *)
(* Then, when nobody is hasty: no assertion of the code fails, and every   *)
(* count is one. The invariant is Steady: World, and the books of Sound,   *)
(* which say what is due about each target from what is on its way.        *)
(*                                                                         *)
(* That a view in sync is exact, and that what the query left out is gone, *)
(* rests on Exact too, which is defined here and proved by                 *)
(* FirestoreExactProofs and FirestoreSyncedProofs.                         *)
(***************************************************************************)
EXTENDS FirestoreListen, ListFacts

(***************************************************************************)
(* The client's record: what its fields may hold, and what a handler leaves *)
(* alone.                                                                  *)
(***************************************************************************)
Finite(D) == {S \in SUBSET D : IsFiniteSet(S)}
Partial(D, R) == UNION {[S -> R] : S \in Finite(D)}

Lookup == [id : Nat \ {0}, docs : {{d} : d \in Docs}]
Watched == {Query} \cup Lookup

Change == {"Added", "Modified", "Removed"}
EntryType == [outstanding : Int, current : BOOLEAN, changes : Partial(Docs, Change)]

Aggregator == {a \in Partial(Watched, EntryType) :
                  \A t \in DOMAIN a : DOMAIN a[t].changes \subseteq t.docs}

RequestType == [target : Watched, add : BOOLEAN, token : Versions]

\* What one message says of one target, a document, or everything so far.
Single == [kind : {"added", "removed", "current", "reset", "error"}, about : {{t} : t \in Watched}]
Filter == [kind : {"filter"}, about : {{t} : t \in Watched}, count : Nat]
Snapshot == [kind : {"snapshot"}, about : {{}}, version : Versions]
News == [kind : {"document"}, about : Finite(Watched), doc : Docs, found : BOOLEAN,
         update : Partial(Docs, CachedDoc)]
Document == {m \in News : /\ \A t \in m.about : m.doc \in t.docs
                          /\ m.found => m.doc \in DOMAIN m.update}
Message == Single \cup Filter \cup Snapshot \cup Document

ViewType == [docs : [Docs -> ViewDoc], synced : SUBSET Docs, current : BOOLEAN,
             limbo : SUBSET Docs, sync : {"None", "Local", "Synced"}]

WriteType == [doc : Docs, content : Values, version : Versions \cup {-1}]

Client_ == [cache |-> [Docs -> CachedDoc], keys |-> SUBSET Docs, token |-> Versions,
         savedFree |-> Versions, lastSnap |-> Versions, writes |-> Seq(WriteType),
         on |-> BOOLEAN, raised |-> BOOLEAN, view |-> ViewType,
         leftOut |-> SUBSET Docs, limboFree |-> Versions,
         limbo |-> Partial(Docs, Lookup), received |-> SUBSET Lookup,
         enabled |-> BOOLEAN, stream |-> {"Initial", "Starting", "Open"}, idle |-> BOOLEAN,
         listening |-> Partial(Watched, Versions), agg |-> Aggregator,
         updates |-> Partial(Docs, CachedDoc), resets |-> SUBSET Watched,
         online |-> {"Unknown", "Online", "Offline"}, timer |-> BOOLEAN, failed |-> BOOLEAN,
         requests |-> Seq(RequestType), incoming |-> Seq(Message),
         serving |-> Partial(Watched, [at : Versions, fresh : BOOLEAN]), broken |-> BOOLEAN]

Fields == {"cache", "keys", "token", "savedFree", "lastSnap", "writes", "on", "raised", "view",
           "leftOut", "limboFree", "limbo", "received", "enabled", "stream", "idle", "listening",
           "agg", "updates", "resets", "online", "timer", "failed", "requests", "incoming",
           "serving", "broken"}

\* c is a client's record, x one that differs in the fields F only, ...
Shape(c) == DOMAIN c = Fields
Only(x, c, F) == Shape(x) /\ \A f \in Fields : f \in F \/ x[f] = c[f]

\* ... and c has the right values in its fields.
Typed(c) == Shape(c) /\ \A f \in Fields : c[f] \in Client_[f]

-----------------------------------------------------------------------------
(***************************************************************************)
(* How the client keeps its books, when nobody is hasty.                   *)
(***************************************************************************)

\* The online timer runs only while the client is not known to be online or
\* offline, and a stream that is not needed has none.
Clock(c) ==
    /\ c.timer => c.online = "Unknown"
    /\ c.failed => c.online = "Offline"
    /\ c.stream = "Initial" => ~c.timer

\* The query is watched while somebody listens, and so is every lookup.
Linked(c) == c.on <=> Query \in DOMAIN c.listening

LookedUp(c) ==
    /\ \A d \in DOMAIN c.limbo : c.limbo[d].docs = {d} /\ c.limbo[d] \in DOMAIN c.listening
    /\ DOMAIN c.listening \subseteq {Query} \cup {c.limbo[d] : d \in DOMAIN c.limbo}
    /\ c.received \subseteq {c.limbo[d] : d \in DOMAIN c.limbo}

\* Without an open stream nothing is on its way, and nothing is gathered.
Quiet(c) ==
    /\ c.agg = <<>> /\ c.updates = <<>> /\ c.resets = {}
    /\ c.requests = <<>> /\ c.incoming = <<>> /\ c.serving = <<>>
    /\ ~c.idle

Wired(c) ==
    /\ c.idle => DOMAIN c.listening = {}
    /\ c.stream = "Open" => DOMAIN c.listening \subseteq DOMAIN c.agg
    /\ c.stream # "Open" => Quiet(c)

\* The places of a list that hold an element of A.
At(s, A) == {i \in DOMAIN s : s[i] \in A}

\* The answers about a target that wait to be read, and the requests for it that wait
\* to be answered; those that end with the target watched, or refused.
Answers(t) == [kind : {"added", "removed", "error"}, about : {{t}}]
Closing(t) == [kind : {"added", "error"}, about : {{t}}]
Asks(t) == [target : {t}, add : BOOLEAN, token : Versions]
Adds(t) == [target : {t}, add : {TRUE}, token : Versions]

Due(in, out, t) == Cardinality(At(in, Answers(t))) + Cardinality(At(out, Asks(t)))

\* The client expects at least the answers that are due.
Counted(c) ==
    \A t \in Watched : Entry(c, t).outstanding >= Due(c.incoming, c.requests, t)

\* What is on its way about a target that is watched ends with its addition.
InOrder(in, out, t) ==
    /\ \A i \in At(in, Closing(t)) :
          (\A j \in At(in, Answers(t)) : j <= i) /\ At(out, Asks(t)) = {}
    /\ \A i \in At(out, Adds(t)) : \A j \in At(out, Asks(t)) : j <= i
    /\ At(in, Answers(t)) # {} \/ At(out, Asks(t)) # {}
          => At(in, Closing(t)) # {} \/ At(out, Adds(t)) # {}

Ordered(c) == \A t \in DOMAIN c.listening : InOrder(c.incoming, c.requests, t)

\* The server tells all it has to tell up to a snapshot at once: between a filter and
\* its snapshot it answers nothing.
Telling == {"document", "filter", "current", "snapshot"}

Reports(in, i) ==
    \E k \in DOMAIN in : /\ i <= k /\ in[k].kind = "snapshot"
                         /\ \A j \in i .. k : in[j].kind \in Telling

Blocked(c) ==
    \A i \in DOMAIN c.incoming : c.incoming[i].kind = "filter" => Reports(c.incoming, i)

\* A query that has to start over waits for the snapshot of the filter that said so,
\* and nothing is due about it.
Pressing(c) == c.resets # {} => c.incoming # <<>> /\ Reports(c.incoming, 1)

Resetting(c) ==
    \A t \in c.resets : /\ t \in DOMAIN c.agg
                        /\ t \in DOMAIN c.listening => Due(c.incoming, c.requests, t) = 0

\* A document that is gathered as modified or removed is one its target has.
Gotten(c, t) ==
    \A d \in DOMAIN Entry(c, t).changes :
        Entry(c, t).changes[d] # "Added" => d \in RemoteKeys(c, t)

Gathers(c) ==
    \A t \in DOMAIN c.listening : Entry(c, t).outstanding = 0 => Gotten(c, t)

Flowing(c) == Wired(c) /\ Counted(c) /\ Ordered(c) /\ Blocked(c) /\ Resetting(c) /\ Gathers(c)
Booked(c) ==
    /\ Counted(c) /\ Ordered(c) /\ Blocked(c) /\ Pressing(c) /\ Resetting(c) /\ Gathers(c)
    /\ Clock(c) /\ ~c.broken
Running(c) == Clock(c) /\ Flowing(c) /\ ~c.broken
Runs(c) == Running(c) /\ Pressing(c)
Sound(c) == Runs(c) /\ LookedUp(c) /\ Linked(c)

LEMMA TypedOnly ==
    ASSUME NEW c, Typed(c), NEW F \in SUBSET Fields, NEW x, Only(x, c, F),
           \A f \in F : x[f] \in Client_[f]
    PROVE  Typed(x)
BY DEF Typed, Only

LEMMA FieldTypes ==
    ASSUME NEW c, Typed(c)
    PROVE  /\ c.cache \in [Docs -> CachedDoc] /\ c.keys \in SUBSET Docs /\ c.token \in Versions
           /\ c.savedFree \in Versions /\ c.leftOut \in SUBSET Docs /\ c.limboFree \in Versions
           /\ c.lastSnap \in Versions /\ c.writes \in Seq(WriteType)
           /\ c.on \in BOOLEAN /\ c.raised \in BOOLEAN /\ c.view \in ViewType
           /\ c.limbo \in Partial(Docs, Lookup) /\ c.received \in SUBSET Lookup
           /\ c.enabled \in BOOLEAN /\ c.stream \in {"Initial", "Starting", "Open"}
           /\ c.idle \in BOOLEAN
           /\ c.listening \in Partial(Watched, Versions) /\ c.agg \in Aggregator
           /\ c.updates \in Partial(Docs, CachedDoc) /\ c.resets \in SUBSET Watched
           /\ c.online \in {"Unknown", "Online", "Offline"}
           /\ c.timer \in BOOLEAN /\ c.failed \in BOOLEAN
           /\ c.requests \in Seq(RequestType) /\ c.incoming \in Seq(Message)
           /\ c.serving \in Partial(Watched, [at : Versions, fresh : BOOLEAN])
           /\ c.broken \in BOOLEAN
BY DEF Typed, Shape, Fields, Client_

LEMMA ClientIs ==
    /\ Client_["agg"] = Aggregator /\ Client_["listening"] = Partial(Watched, Versions)
    /\ Client_["requests"] = Seq(RequestType) /\ Client_["incoming"] = Seq(Message)
    /\ Client_["serving"] = Partial(Watched, [at : Versions, fresh : BOOLEAN])
    /\ Client_["updates"] = Partial(Docs, CachedDoc) /\ Client_["resets"] = SUBSET Watched
    /\ Client_["limbo"] = Partial(Docs, Lookup) /\ Client_["received"] = SUBSET Lookup
    /\ Client_["view"] = ViewType /\ Client_["cache"] = [Docs -> CachedDoc]
    /\ Client_["writes"] = Seq(WriteType) /\ Client_["keys"] = SUBSET Docs
    /\ Client_["token"] = Versions /\ Client_["lastSnap"] = Versions
    /\ Client_["savedFree"] = Versions /\ Client_["limboFree"] = Versions
    /\ Client_["leftOut"] = SUBSET Docs
    /\ Client_["stream"] = {"Initial", "Starting", "Open"}
    /\ Client_["online"] = {"Unknown", "Online", "Offline"}
    /\ Client_["on"] = BOOLEAN /\ Client_["raised"] = BOOLEAN /\ Client_["enabled"] = BOOLEAN
    /\ Client_["idle"] = BOOLEAN /\ Client_["timer"] = BOOLEAN /\ Client_["failed"] = BOOLEAN
    /\ Client_["broken"] = BOOLEAN
BY DEF Client_

-----------------------------------------------------------------------------
(***************************************************************************)
(* What a view in sync rests on, when nobody is hasty.                     *)
(***************************************************************************)
\* The last write of d up to version n in the log lg, what d was then, and the documents
\* that a target had.
Newest(lg, d, n) == Max({0} \cup {i \in 1..n : lg[i].doc = d})
Truth(lg, d, n) == IF Newest(lg, d, n) = 0 THEN Missing ELSE lg[Newest(lg, d, n)].content
Have(lg, t, n) == {d \in t.docs : Truth(lg, d, n) # Missing}

\* One of A is in the list s, ...
Some(s, A) == \E i \in DOMAIN s : s[i] \in A

\* ... before a snapshot that is on its way, or not.
Ahead(s, i) == \E k \in DOMAIN s : i < k /\ s[k].kind = "snapshot"
Before(s, A) == \E i \in DOMAIN s : s[i] \in A /\ Ahead(s, i)
Behind(s, A) == \E i \in DOMAIN s : s[i] \in A /\ ~Ahead(s, i)

\* One of A is followed by one of B; each of A is, or is one of B.
Then(s, A, B) == \E i, j \in DOMAIN s : i < j /\ s[i] \in A /\ s[j] \in B
Ends(s, A, B) == \A i \in DOMAIN s : s[i] \in A => \E j \in DOMAIN s : i <= j /\ s[j] \in B

\* The snapshot that is on its way.
Coming(s, n) == \E k \in DOMAIN s : s[k].kind = "snapshot" /\ s[k].version = n
Pending(s) == \E k \in DOMAIN s : s[k].kind = "snapshot"

\* Messages about a target, those of a kind, and those that tell it of one document; the
\* requests to leave it, and those that resume it elsewhere than at v.
Of(t) == {m \in Message : t \in m.about}
Said(kind, t) == {m \in Message : m.kind = kind /\ t \in m.about}
DocOf(t, d) == {m \in Message : m.kind = "document" /\ t \in m.about /\ m.doc = d}
Drops(t) == [target : {t}, add : {FALSE}, token : Versions]
Outdated(t, v) == {r \in Adds(t) : r.token # v}

\* What the target will have when what it gathered is taken, unless the server starts it over.
Holds(c, t) ==
    (RemoteKeys(c, t) \cup OfType(Entry(c, t), "Added")) \ OfType(Entry(c, t), "Removed")

\* The snapshot on its way brings nothing to a target that is asked for, refused, or
\* answered after it.
Late(c, t) ==
    \/ Some(c.requests, Asks(t))
    \/ Some(c.incoming, Said("error", t))
    \/ Behind(c.incoming, Answers(t))

\* A target has the documents that the server's had at the version it is resumed from.
Sees(lg, c, t) ==
    c.listening[t] <= Len(lg) /\ RemoteKeys(c, t) = Have(lg, t, c.listening[t])

\* What it gathers: nothing before it is active, and what it adds is new and known.
Collects(c, t) ==
    /\ Entry(c, t).outstanding = Due(c.incoming, c.requests, t)
    /\ Entry(c, t).outstanding # 0 => DOMAIN Entry(c, t).changes = {}
    /\ \A d \in OfType(Entry(c, t), "Added") : d \notin RemoteKeys(c, t) /\ d \in DOMAIN c.updates

\* It is asked for as it is, and once more only from the start.
Asking(c, t) ==
    /\ ~Some(c.requests, Outdated(t, c.listening[t]))
    /\ Some(c.requests, Asks(t)) /\ t \in DOMAIN c.serving => c.listening[t] = 0
    /\ \/ Some(c.incoming, Said("reset", t)) /\ Some(c.requests, Asks(t))
       \/ Then(c.incoming, Said("reset", t), Answers(t))
       => c.listening[t] = 0
    /\ Some(c.incoming, Said("error", t)) => t \notin DOMAIN c.serving
    /\ t \in DOMAIN c.serving /\ Some(c.requests, Adds(t)) => Some(c.requests, Drops(t))

\* What the server has told of it: everything up to the snapshot on its way, or else up to
\* where the client is, or nothing to a client that holds nothing.
Resumed(c, t) ==
    /\ c.serving[t].at = c.listening[t] /\ DOMAIN Entry(c, t).changes = {}
    /\ c.serving[t].fresh \/ Entry(c, t).current
StartedOver(c, t) == c.serving[t].at = 0 /\ c.serving[t].fresh /\ Holds(c, t) = {}

Served(c, t) ==
    ~Some(c.requests, Asks(t)) /\ ~Some(c.incoming, Said("error", t)) =>
        /\ t \in DOMAIN c.serving
        /\ Behind(c.incoming, Said("reset", t)) => c.serving[t].at = 0 /\ c.serving[t].fresh
        /\ ~Behind(c.incoming, Said("reset", t)) /\ ~Late(c, t) =>
              \A n : Coming(c.incoming, n) => c.serving[t].at = n
        /\ ~Behind(c.incoming, Said("reset", t)) /\ (Late(c, t) \/ ~Pending(c.incoming)) =>
              Resumed(c, t) \/ StartedOver(c, t)

\* What the snapshot on its way will leave it with, of a document d, is what the server had.
Will(c, t, d) == ~Before(c.incoming, Said("reset", t)) /\ d \in Holds(c, t)

Rightly(lg, c, t, d, n) ==
    \/ Some(c.incoming, DocOf(t, d))
    \/ /\ Will(c, t, d) <=> d \in Have(lg, t, n)
       /\ d \in Have(lg, t, n) => d \in DOMAIN c.updates \/ Newest(lg, d, n) <= c.listening[t]
    \/ d \notin Have(lg, t, n) /\ Some(c.incoming, Said("filter", t))

Confirmed(c, t) ==
    \/ Some(c.incoming, Said("current", t))
    \/ /\ Entry(c, t).current /\ ~Before(c.incoming, Said("reset", t))
       /\ ~Some(c.incoming, Said("filter", t))

Delivers(lg, c, t, n) ==
    /\ t \in c.resets => Holds(c, t) = {} /\ ~Some(c.incoming, Said("document", t))
    /\ t \notin c.resets => \A d \in t.docs : Rightly(lg, c, t, d, n)
    /\ Confirmed(c, t)

Brings(lg, c, t) == \A n : ~Late(c, t) /\ Coming(c.incoming, n) => Delivers(lg, c, t, n)

\* The server serves no target that the client does not know, or is not about to leave.
Known(c, t) ==
    /\ t \in DOMAIN c.serving =>
          t \in DOMAIN c.agg /\ (t \in DOMAIN c.listening \/ Some(c.requests, Asks(t)))
    /\ Some(c.incoming, Said("reset", t)) => t \in DOMAIN c.agg
    /\ t \in DOMAIN c.serving \/ Ends(c.incoming, Said("reset", t), Said("removed", t))
    /\ t \notin DOMAIN c.listening => Ends(c.requests, Asks(t), Drops(t))

Flows(lg, c, t) == Collects(c, t) /\ Asking(c, t) /\ Served(c, t) /\ Brings(lg, c, t)
Right(lg, c, t) ==
    /\ Known(c, t)
    /\ t \in DOMAIN c.listening => Sees(lg, c, t) /\ (c.stream = "Open" => Flows(lg, c, t))

\* What is known of a document when a snapshot at n is on its way, and what a message may say.
Update(lg, d, n) == [version |-> Newest(lg, d, n), content |-> Truth(lg, d, n), committed |-> FALSE]

TrueUpdate(lg, c, d, n) ==
    LET u == c.updates[d]
    IN  /\ u.content = Truth(lg, d, n) /\ ~u.committed
        /\ \/ u.version > 0 /\ Newest(lg, d, n) <= u.version /\ u.version <= n
           \/ u.version = 0 /\ u.content = Missing /\ d \notin c.keys

TrueMessage(lg, m, n) ==
    /\ m.kind = "filter" => \A t \in m.about : m.count = Cardinality(Have(lg, t, n))
    /\ m.kind = "document" =>
          /\ m.found <=> Truth(lg, m.doc, n) # Missing
          /\ Newest(lg, m.doc, n) > 0
          /\ \/ m.update = [x \in {m.doc} |-> Update(lg, m.doc, n)]
             \/ ~m.found /\ m.update = <<>>

Kind(kind) == {m \in Message : m.kind = kind}

\* What is on its way is true: documents first, then filters, and what is current.
TrueMail(lg, in, n) == n <= Len(lg) /\ \A i \in DOMAIN in : TrueMessage(lg, in[i], n)
Sorted(in) ==
    /\ \A i \in DOMAIN in : in[i].kind \in Telling => Reports(in, i)
    /\ ~Then(in, Kind("filter"), Kind("document"))
    /\ ~Then(in, Kind("current"), Kind("filter"))

Telltale(lg, c) ==
    /\ c.resets \subseteq {Query}
    /\ c.updates # <<>> => c.incoming # <<>> /\ Reports(c.incoming, 1)
    /\ Sorted(c.incoming)
    /\ \A n : Coming(c.incoming, n) =>
          TrueMail(lg, c.incoming, n) /\ \A d \in DOMAIN c.updates : TrueUpdate(lg, c, d, n)

Net(lg, c) == Telltale(lg, c) /\ \A t \in Watched : Right(lg, c, t)

\* The disk: writes that the server has taken, documents as they were at their versions, and
\* the documents that the query had, none older than it was then.
SentOnes(lg, c) ==
    \A i \in DOMAIN c.writes : c.writes[i].version > 0 =>
        /\ c.writes[i].version <= Len(lg)
        /\ lg[c.writes[i].version] = [doc |-> c.writes[i].doc, content |-> c.writes[i].content]

CacheTrue(lg, c) ==
    \A d \in Docs : /\ c.cache[d].version <= Len(lg)
                    /\ c.cache[d].content = Truth(lg, d, c.cache[d].version)

KeysAt(lg, c, v) ==
    /\ v <= Len(lg) /\ c.keys = Have(lg, Query, v)
    /\ \A d \in c.keys : Newest(lg, d, v) <= c.cache[d].version

Disk(lg, c) ==
    /\ SentOnes(lg, c) /\ CacheTrue(lg, c) /\ KeysAt(lg, c, c.token)
    /\ c.on => KeysAt(lg, c, c.listening[Query])

\* The view: the documents of the query are those on disk, and the others that it shows
\* from the cache are looked up before it is in sync.
Looking(c) ==
    /\ c.view.limbo \cap c.view.synced = {} /\ DOMAIN c.limbo \subseteq c.view.limbo
    /\ c.on => c.view.synced = c.keys
    /\ ~c.on => c.view.limbo = {} /\ c.view.sync # "Synced"

Showing(c) ==
    /\ c.on => \A d \in Docs : \/ c.view.docs[d].content = LocalDoc(c, d).content
                              \/ c.view.docs[d].local \/ d \in c.leftOut
    /\ c.view.sync = "Synced" => InLimbo(c.view.docs, c.view.synced) = {}

\* The versions kept for the query are none after the last snapshot, the limbo-free one
\* first.  A document that the query left out is not shown, written or among its
\* documents, and a snapshot that was heard was without it.
Dated(c) ==
    /\ c.savedFree <= c.token /\ c.token <= c.lastSnap
    /\ c.on => c.limboFree <= c.listening[Query] /\ c.listening[Query] <= c.lastSnap

Gone(lg, c, d) == \E n \in c.cache[d].version .. c.lastSnap : Truth(lg, d, n) = Missing

Omitted(lg, c, d) ==
    /\ c.on /\ c.view.docs[d] = NotShown /\ d \notin c.keys
    /\ \A i \in DOMAIN c.writes : c.writes[i].doc # d
    /\ Gone(lg, c, d)

Leaving(lg, c) == Dated(c) /\ \A d \in c.leftOut : Omitted(lg, c, d)

Exact(lg, c) == Net(lg, c) /\ Disk(lg, c) /\ Looking(c) /\ Showing(c) /\ Leaving(lg, c)

\* The same is on disk and followed there; a view goes out of sync at most.
SameDisk(x, c) ==
    /\ x.cache = c.cache /\ x.keys = c.keys /\ x.token = c.token /\ x.writes = c.writes
    /\ x.savedFree = c.savedFree /\ x.limboFree = c.limboFree /\ x.lastSnap = c.lastSnap
    /\ x.leftOut = c.leftOut
    /\ x.on = c.on /\ (c.on => x.listening[Query] = c.listening[Query])

SameView(x, c) ==
    /\ x.on = c.on /\ x.view.docs = c.view.docs /\ x.view.synced = c.view.synced
    /\ x.view.limbo = c.view.limbo /\ (x.view.sync = "Synced" => c.view.sync = "Synced")

\* A target that was asked for once, and of which the server knows nothing.
AskedFor(x, t) ==
    /\ t \in DOMAIN x.listening /\ t \in DOMAIN x.agg
    /\ Entry(x, t).outstanding = Due(x.incoming, x.requests, t)
    /\ DOMAIN Entry(x, t).changes = {} /\ t \notin DOMAIN x.serving
    /\ ~Some(x.incoming, Said("reset", t))
    /\ Some(x.requests, Asks(t)) /\ ~Some(x.requests, Outdated(t, x.listening[t]))

-----------------------------------------------------------------------------
(* Functions that are defined here and there. *)

LEMMA PartialIs ==
    ASSUME NEW D, NEW R, NEW f \in Partial(D, R)
    PROVE  /\ DOMAIN f \subseteq D /\ IsFiniteSet(DOMAIN f)
           /\ \A x \in DOMAIN f : f[x] \in R
           /\ f = [x \in DOMAIN f |-> f[x]]
BY DEF Partial, Finite

LEMMA PartialOf ==
    ASSUME NEW D, NEW R, NEW S \in SUBSET D, IsFiniteSet(S), NEW f \in [S -> R]
    PROVE  f \in Partial(D, R)
BY DEF Partial, Finite

LEMMA PartialNone ==
    ASSUME NEW D, NEW R
    PROVE  <<>> \in Partial(D, R) /\ DOMAIN <<>> = {}
<1>1. IsFiniteSet({}) /\ {} \in SUBSET D
  BY FS_EmptySet
<1>2. <<>> \in [{} -> R]
  OBVIOUS
<1> QED
  BY <1>1, <1>2, PartialOf

LEMMA OverIs ==
    ASSUME NEW g, NEW f
    PROVE  /\ DOMAIN Over(g, f) = DOMAIN f \cup DOMAIN g
           /\ \A y \in DOMAIN g : Over(g, f)[y] = g[y]
           /\ \A y \in DOMAIN f \ DOMAIN g : Over(g, f)[y] = f[y]
BY DEF Over

LEMMA OverPartial ==
    ASSUME NEW D, NEW R, NEW f \in Partial(D, R), NEW g \in Partial(D, R)
    PROVE  Over(g, f) \in Partial(D, R)
<1> DEFINE S == DOMAIN f \cup DOMAIN g
<1>1. /\ DOMAIN f \subseteq D /\ IsFiniteSet(DOMAIN f) /\ \A y \in DOMAIN f : f[y] \in R
      /\ DOMAIN g \subseteq D /\ IsFiniteSet(DOMAIN g) /\ \A y \in DOMAIN g : g[y] \in R
  BY PartialIs
<1>2. S \in SUBSET D /\ IsFiniteSet(S)
  BY <1>1, FS_Union
<1>3. Over(g, f) \in [S -> R]
  BY <1>1 DEF Over
<1> HIDE DEF S
<1> QED
  BY <1>2, <1>3, PartialOf

LEMMA OnePartial ==
    ASSUME NEW D, NEW R, NEW x \in D, NEW v \in R
    PROVE  [y \in {x} |-> v] \in Partial(D, R)
<1>1. {x} \in SUBSET D /\ IsFiniteSet({x})
  BY FS_Singleton
<1>2. [y \in {x} |-> v] \in [{x} -> R]
  OBVIOUS
<1> QED
  BY <1>1, <1>2, PartialOf

LEMMA WithIs ==
    ASSUME NEW f, NEW x, NEW v
    PROVE  /\ DOMAIN With(f, x, v) = DOMAIN f \cup {x}
           /\ With(f, x, v)[x] = v
           /\ \A y \in DOMAIN f : y # x => With(f, x, v)[y] = f[y]
BY DEF Over, With

LEMMA WithPartial ==
    ASSUME NEW D, NEW R, NEW f \in Partial(D, R), NEW x \in D, NEW v \in R
    PROVE  With(f, x, v) \in Partial(D, R)
BY OnePartial, OverPartial DEF With

LEMMA WithoutIs ==
    ASSUME NEW f, NEW x
    PROVE  /\ DOMAIN Without(f, x) = DOMAIN f \ {x}
           /\ \A y \in DOMAIN f : y # x => Without(f, x)[y] = f[y]
BY DEF Without, Restrict

LEMMA WithoutPartial ==
    ASSUME NEW D, NEW R, NEW f \in Partial(D, R), NEW x
    PROVE  Without(f, x) \in Partial(D, R)
<1> DEFINE S == DOMAIN f \ {x}
<1>1. DOMAIN f \subseteq D /\ IsFiniteSet(DOMAIN f) /\ \A y \in DOMAIN f : f[y] \in R
  BY PartialIs
<1>2. S \in SUBSET D /\ IsFiniteSet(S)
  BY <1>1, FS_Subset
<1>3. Without(f, x) \in [S -> R]
  BY <1>1 DEF Without, Restrict
<1> HIDE DEF S
<1> QED
  BY <1>2, <1>3, PartialOf

LEMMA SubsetFinite ==
    ASSUME NEW D, IsFiniteSet(D), NEW R, NEW S \in SUBSET D, NEW f \in [S -> R]
    PROVE  f \in Partial(D, R)
BY FS_Subset, PartialOf

-----------------------------------------------------------------------------
(***************************************************************************)
(* The sets that handlers fold, and what is said of the client when the     *)
(* elements of s have been folded: p says which fold it is.                *)
(***************************************************************************)
DeletedAt(version) == [version |-> version, content |-> Missing, committed |-> FALSE]

FoldStep(p, x, c) ==
    CASE p.of = "track" -> TrackLimbo(x, c)
      [] p.of = "drop" -> RemoveLimboTarget(x, c)
      [] p.of = "reset" -> RemoveDocument(c, p.target, x, <<>>)
      [] p.of = "find" -> RemoveDocument(c, x, TheDoc(x),
                                         [d \in {TheDoc(x)} |-> DeletedAt(p.version)])
      [] p.of = "look" ->
            CASE p.changes[x].added # {} -> [c EXCEPT !.received = @ \cup {x}]
              [] p.changes[x].modified # {} -> Require(c, x \in c.received)
              [] p.changes[x].removed # {} ->
                     [Require(c, x \in c.received) EXCEPT !.received = @ \ {x}]
              [] OTHER -> c
      [] p.of = "rewatch" -> Rewatch(x, c)
      [] p.of = "ask" -> Send(c, x, TRUE, c.listening[x])
      [] p.of = "change" ->
            IF p.m.found THEN AddDocument(c, x, p.m.doc, p.m.update[p.m.doc])
            ELSE RemoveDocument(c, x, p.m.doc, p.m.update)
      [] OTHER -> c

\* What x shows of the local store is what c does.
Local(x, c) ==
    /\ x.on = c.on /\ x.cache = c.cache /\ x.writes = c.writes /\ x.view.docs = c.view.docs
    /\ x.leftOut = c.leftOut
    /\ Query \in DOMAIN c.listening => Query \in DOMAIN x.listening

\* What is said of y, reached from c: lookups come and go, ...
Kept(c, y) ==
    /\ Typed(y) /\ Local(y, c)
    /\ y.view.limbo = c.view.limbo /\ y.view.synced = c.view.synced

\* ... the aggregator changes, ...
Gathered(c, y) == Typed(y) /\ Only(y, c, {"agg", "updates", "broken"})

\* ... lookups are answered, ...
Looks(c, y) == Typed(y) /\ Only(y, c, {"received", "broken"})

\* ... targets are watched anew.
Rewatches(c, y) ==
    /\ Typed(y) /\ Only(y, c, {"listening", "agg", "requests", "idle"})
    /\ DOMAIN y.listening = DOMAIN c.listening

TypesKept(p, y) ==
    CASE p.of \in {"track", "drop"} -> Kept(p.from, y)
      [] p.of \in {"reset", "find", "change"} -> Gathered(p.from, y)
      [] p.of = "look" -> Looks(p.from, y)
      [] p.of \in {"rewatch", "ask"} -> Rewatches(p.from, y)
      [] OTHER -> TRUE

\* Nothing is asked for, answered or asserted while a target gathers.
SameDue(y, c) ==
    /\ DOMAIN y.agg = DOMAIN c.agg /\ y.broken = c.broken
    /\ \A t \in Watched : Entry(y, t).outstanding = Entry(c, t).outstanding

\* What is on its way is still to be read, or lost.
Unread(y, c) == y.lastSnap = c.lastSnap /\ y.incoming \in {c.incoming, <<>>}

BooksKept(p, s, y) ==
    CASE p.of \in {"track", "drop"} -> Typed(y) /\ Sound(y) /\ Unread(y, p.from)
      [] p.of \in {"reset", "find", "change"} ->
            Gathered(p.from, y) /\ SameDue(y, p.from) /\ Gathers(y)
      [] p.of = "look" ->
            /\ Looks(p.from, y) /\ y.broken = p.from.broken
            /\ \A t : t \notin s => (t \in y.received <=> t \in p.from.received)
            /\ y.received \subseteq p.from.received \cup s
      [] p.of = "rewatch" ->
            /\ Rewatches(p.from, y) /\ Runs(y)
            /\ \A t \in Watched \ s : Due(y.incoming, y.requests, t)
                                           = Due(p.from.incoming, p.from.requests, t)
            /\ \A t : Entry(y, t).changes = Entry(p.from, t).changes
      [] p.of = "ask" -> Rewatches(p.from, y) /\ Booked(y) /\ DOMAIN y.agg = s /\ ~y.idle
      [] OTHER -> TRUE

\* What a target gathers stays the same, except about the documents D.
SameTypes(y, c, t, D) ==
    /\ Entry(y, t).outstanding = Entry(c, t).outstanding /\ Entry(y, t).current = Entry(c, t).current
    /\ \A d : d \notin D => \A type : d \in OfType(Entry(y, t), type) <=> d \in OfType(Entry(c, t), type)

\* What a message says of a document is gathered by the active targets t in s.
Heard(y, c, m, t, s) ==
    IF t \in s /\ IsActiveTarget(c, t)
    THEN /\ SameTypes(y, c, t, {m.doc})
         /\ m.doc \in OfType(Entry(y, t), "Added") <=> m.found /\ m.doc \notin RemoteKeys(c, t)
         /\ m.doc \in OfType(Entry(y, t), "Removed") <=> ~m.found /\ m.doc \in RemoteKeys(c, t)
         /\ m.found => m.doc \in DOMAIN y.updates
    ELSE Entry(y, t) = Entry(c, t)

\* What is exact is so when lookups have come and gone; and, more precisely, what is gathered
\* and asked for.
ExactKept(p, s, y) ==
    CASE p.of \in {"track", "drop"} ->
            /\ Typed(y) /\ Sound(y) /\ Net(p.log, y) /\ SameView(y, p.from) /\ SameDisk(y, p.from)
            /\ DOMAIN y.limbo \subseteq IF p.of = "drop" THEN DOMAIN p.from.limbo \ s
                                        ELSE DOMAIN p.from.limbo \cup s
      [] p.of = "reset" ->
            /\ Gathered(p.from, y) /\ DOMAIN y.agg = DOMAIN p.from.agg /\ y.updates = p.from.updates
            /\ \A t \in Watched : t # p.target => Entry(y, t) = Entry(p.from, t)
            /\ SameTypes(y, p.from, p.target, s)
            /\ s \subseteq OfType(Entry(y, p.target), "Removed")
      [] p.of = "find" ->
            /\ Gathered(p.from, y) /\ DOMAIN y.agg = DOMAIN p.from.agg
            /\ \A t \in Watched : SameTypes(y, p.from, t, {})
            /\ DOMAIN y.updates = DOMAIN p.from.updates \cup {TheDoc(t) : t \in s}
            /\ \A d \in DOMAIN y.updates :
                  y.updates[d] = IF d \in DOMAIN p.from.updates THEN p.from.updates[d]
                                 ELSE DeletedAt(p.version)
      [] p.of = "change" ->
            /\ Gathered(p.from, y) /\ DOMAIN y.agg = DOMAIN p.from.agg
            /\ \A t \in Watched : Heard(y, p.from, p.m, t, s)
            /\ DOMAIN p.from.updates \subseteq DOMAIN y.updates
            /\ \A d \in DOMAIN y.updates :
                  \/ d \in DOMAIN p.from.updates /\ y.updates[d] = p.from.updates[d]
                  \/ d \in DOMAIN p.m.update /\ y.updates[d] = p.m.update[d]
      [] p.of = "look" ->
            /\ Looks(p.from, y)
            /\ \A t : t \in y.received <=>
                  \/ t \in s /\ p.changes[t].added # {}
                  \/ /\ t \in p.from.received
                     /\ t \in s => p.changes[t].modified # {} \/ p.changes[t].removed = {}
      [] p.of = "ask" ->
            /\ Rewatches(p.from, y) /\ y.listening = p.from.listening /\ Counted(y)
            /\ \A t \in s : AskedFor(y, t)
            /\ \A t \in Watched \ s : t \notin DOMAIN y.agg /\ ~Some(y.requests, Asks(t))
      [] OTHER -> TRUE

FoldInv(p, s, y) ==
    CASE p.goal = "types" -> TypesKept(p, y)
      [] p.goal = "books" -> BooksKept(p, s, y)
      [] OTHER -> ExactKept(p, s, y)

-----------------------------------------------------------------------------
(***************************************************************************)
(* Folding a set: FoldSet takes its elements in some order.  The first      *)
(* argument of the step stands for what does not change meanwhile.         *)
(***************************************************************************)
Pick(s) == CHOOSE x \in s : TRUE

FoldedSet(p, base, S) == FoldSet(LAMBDA x, y : FoldStep(p, x, y), base, S)

Solution(g, p, base, S) ==
    /\ FoldedSet(p, base, S) = g[S]
    /\ g[{}] = base
    /\ \A s \in SUBSET S : s # {} => g[s] = FoldStep(p, Pick(s), g[s \ {Pick(s)}])

\* g is right about the sets in D.
Folds(g, p, base, D) ==
    g = [s \in D |-> IF s = {} THEN base ELSE FoldStep(p, Pick(s), g[s \ {Pick(s)}])]

Small(S, k) == {s \in SUBSET S : Cardinality(s) <= k}

LEMMA FoldedSetIs ==
    ASSUME NEW p, NEW base, NEW S
    PROVE  FoldedSet(p, base, S) = (CHOOSE g : Folds(g, p, base, SUBSET S))[S]
BY DEF FoldedSet, FoldSet, MapThenFoldSet, Folds, Pick

LEMMA SmallerWithoutPick ==
    ASSUME NEW S, IsFiniteSet(S), NEW k \in Nat, NEW s \in Small(S, k + 1), s # {}
    PROVE  s \ {Pick(s)} \in Small(S, k)
<1>1. s \subseteq S /\ IsFiniteSet(s) /\ Pick(s) \in s
  BY FS_Subset DEF Small, Pick
<1>2. /\ Cardinality(s) \in Nat
      /\ Cardinality(s \ {Pick(s)}) = Cardinality(s) - 1
  BY <1>1, FS_RemoveElement, FS_CardinalityType
<1> QED
  BY <1>1, <1>2 DEF Small

LEMMA FoldGrows ==
    ASSUME NEW p, NEW base, NEW S, IsFiniteSet(S), NEW k \in Nat,
           NEW g, Folds(g, p, base, Small(S, k))
    PROVE  \E h : Folds(h, p, base, Small(S, k + 1))
<1> DEFINE D == Small(S, k)
           E == Small(S, k + 1)
           h == [s \in E |-> IF s = {} THEN base ELSE FoldStep(p, Pick(s), g[s \ {Pick(s)}])]
<1>1. \A s \in D : s \in E /\ Cardinality(s) \in Nat /\ Cardinality(s) <= k
  <2> TAKE s \in D
  <2>1. s \in SUBSET S /\ Cardinality(s) <= k
    BY DEF Small
  <2>2. Cardinality(s) \in Nat
    BY <2>1, FS_Subset, FS_CardinalityType
  <2> QED
    BY <2>1, <2>2 DEF Small
<1>2. \A s \in E : s # {} => s \ {Pick(s)} \in D
  BY SmallerWithoutPick
<1> HIDE DEF D, E
<1>3. \A s \in D : g[s] = IF s = {} THEN base ELSE FoldStep(p, Pick(s), g[s \ {Pick(s)}])
  BY DEF Folds, D
<1>4. \A s \in D : h[s] = g[s]
  BY <1>1, <1>3
<1>5. \A s \in E : h[s] = IF s = {} THEN base ELSE FoldStep(p, Pick(s), h[s \ {Pick(s)}])
  <2> TAKE s \in E
  <2>1. CASE s = {}
    BY <2>1
  <2>2. CASE s # {}
    <3>1. h[s] = FoldStep(p, Pick(s), g[s \ {Pick(s)}])
      BY <2>2
    <3>2. h[s \ {Pick(s)}] = g[s \ {Pick(s)}]
      BY <2>2, <1>2, <1>4
    <3> HIDE DEF h
    <3> QED
      BY <2>2, <3>1, <3>2
  <2> QED
    BY <2>1, <2>2
<1>6. h = [s \in E |-> h[s]]
  OBVIOUS
<1> HIDE DEF h
<1>7. h = [s \in E |-> IF s = {} THEN base ELSE FoldStep(p, Pick(s), h[s \ {Pick(s)}])]
  BY <1>5, <1>6
<1>8. Folds(h, p, base, E)
  BY <1>7 DEF Folds
<1> QED
  BY <1>8 DEF E

LEMMA FoldExists ==
    ASSUME NEW p, NEW base, NEW S, IsFiniteSet(S)
    PROVE  \E g : Folds(g, p, base, SUBSET S)
<1> DEFINE n == Cardinality(S)
           T == {k \in 0 .. n : \E g : Folds(g, p, base, Small(S, k))}
<1>1. n \in Nat
  BY FS_CardinalityType
<1>2. 0 \in T
  <2> DEFINE g == [s \in Small(S, 0) |-> base]
  <2>1. \A s \in Small(S, 0) : s = {}
    <3> TAKE s \in Small(S, 0)
    <3>1. IsFiniteSet(s) /\ Cardinality(s) <= 0
      BY FS_Subset DEF Small
    <3>2. Cardinality(s) = 0
      BY <3>1, FS_CardinalityType
    <3> QED
      BY <3>1, <3>2, FS_EmptySet
  <2>2. g = [s \in Small(S, 0) |-> IF s = {} THEN base ELSE FoldStep(p, Pick(s), g[s \ {Pick(s)}])]
    BY <2>1
  <2>3. Folds(g, p, base, Small(S, 0))
    <3> HIDE DEF g
    <3> QED
      BY <2>2 DEF Folds
  <2>4. 0 \in 0 .. n
    BY <1>1
  <2>5. \E f : Folds(f, p, base, Small(S, 0))
    BY <2>3
  <2> QED
    BY <2>4, <2>5
<1>3. \A k \in 0 .. (n - 1) : k \in T => k + 1 \in T
  <2> SUFFICES ASSUME NEW k \in 0 .. (n - 1), k \in T
               PROVE  k + 1 \in T
    OBVIOUS
  <2>1. PICK g : Folds(g, p, base, Small(S, k))
    OBVIOUS
  <2>2. k \in Nat /\ k + 1 \in 0 .. n
    BY <1>1
  <2>3. \E h : Folds(h, p, base, Small(S, k + 1))
    BY <2>1, <2>2, FoldGrows
  <2> QED
    BY <2>2, <2>3
<1>4. n \in T
  <2> HIDE DEF T, n
  <2> QED
    BY <1>1, <1>2, <1>3, Counting
<1>5. Small(S, n) = SUBSET S
  <2>1. ASSUME NEW s \in SUBSET S
        PROVE  Cardinality(s) <= n
    BY FS_Subset
  <2> QED
    BY <2>1 DEF Small
<1> QED
  BY <1>4, <1>5

\* Whatever holds of the base, and after each step if before it, holds of the result.
\* Q says of which sets it holds that folding them leads to such a result.
THEOREM FoldedSetSolves ==
    ASSUME NEW p, NEW base, NEW S, IsFiniteSet(S)
    PROVE  \E g : Solution(g, p, base, S)
<1> DEFINE g == CHOOSE x : Folds(x, p, base, SUBSET S)
<1>1. Folds(g, p, base, SUBSET S)
  BY FoldExists
<1>2. FoldedSet(p, base, S) = g[S]
  BY FoldedSetIs
<1> HIDE DEF g
<1>3. {} \in SUBSET S
  OBVIOUS
<1> QED
  BY <1>1, <1>2, <1>3 DEF Folds, Solution

\* What holds of the base, and after each step if before it, holds of the result:
\* FoldInv(p, s, y) says of y what there is to say when s has been folded.
THEOREM FoldKeeps ==
    ASSUME NEW p, NEW base, NEW S, IsFiniteSet(S), FoldInv(p, {}, base),
           ASSUME NEW s \in SUBSET S, NEW x \in S \ s, NEW y, FoldInv(p, s, y)
           PROVE  FoldInv(p, s \cup {x}, FoldStep(p, x, y))
    PROVE  FoldInv(p, S, FoldedSet(p, base, S))
<1> DEFINE n == Cardinality(S)
<1>1. n \in Nat
  BY FS_CardinalityType
<1>2. PICK g : Solution(g, p, base, S)
  BY FoldedSetSolves
<1> DEFINE Good(s) == FoldInv(p, s, g[s])
           T == {k \in 0 .. n : \A s \in Small(S, k) : Good(s)}
<1>3. 0 \in T
  <2>1. ASSUME NEW s \in Small(S, 0) PROVE Good(s)
    <3>1. IsFiniteSet(s) /\ Cardinality(s) <= 0
      BY FS_Subset DEF Small
    <3>2. s = {}
      BY <3>1, FS_CardinalityType, FS_EmptySet
    <3>3. g[{}] = base
      BY <1>2 DEF Solution
    <3> QED
      BY <3>2, <3>3
  <2>2. 0 \in 0 .. n
    BY <1>1
  <2> QED
    BY <2>1, <2>2
<1>4. \A k \in 0 .. (n - 1) : k \in T => k + 1 \in T
  <2> SUFFICES ASSUME NEW k \in 0 .. (n - 1), \A s \in Small(S, k) : Good(s)
               PROVE  k + 1 \in T
    OBVIOUS
  <2>1. k \in Nat /\ k + 1 \in 0 .. n
    BY <1>1
  <2>2. ASSUME NEW s \in Small(S, k + 1) PROVE Good(s)
    <3>1. s \in SUBSET S
      BY DEF Small
    <3>2. CASE s # {}
      <4> DEFINE x == Pick(s)
                 r == s \ {x}
      <4>1. x \in s
        BY <3>2 DEF Pick
      <4>2. r \in Small(S, k)
        BY <3>2, <2>1, SmallerWithoutPick
      <4>3. r \in SUBSET S /\ x \in S \ r
        BY <3>1, <4>1
      <4>4. Good(r)
        BY <4>2
      <4>5. g[s] = FoldStep(p, x, g[r])
        BY <3>1, <3>2, <1>2 DEF Solution
      <4>6. s = r \cup {x}
        BY <4>1
      <4> HIDE DEF x, r
      <4>7. FoldInv(p, r \cup {x}, FoldStep(p, x, g[r]))
        BY <4>3, <4>4
      <4> QED
        BY <4>5, <4>6, <4>7
    <3>3. CASE s = {}
      <4>1. g[{}] = base
        BY <1>2 DEF Solution
      <4> QED
        BY <3>3, <4>1
    <3> QED
      BY <3>2, <3>3
  <2> HIDE DEF Right
  <2> QED
    BY <2>1, <2>2
<1>5. n \in T
  <2> HIDE DEF T, n
  <2> QED
    BY <1>1, <1>3, <1>4, Counting
<1>6. S \in Small(S, n)
  BY <1>1 DEF Small
<1>7. FoldedSet(p, base, S) = g[S]
  BY <1>2 DEF Solution
<1>8. Good(S)
  <2> HIDE DEF Right, n
  <2> QED
    BY <1>5, <1>6
<1> QED
  BY <1>7, <1>8

-----------------------------------------------------------------------------
(* The online state. *)

LEMMA RequireTyped ==
    ASSUME NEW c, Typed(c), NEW holds
    PROVE  Typed(Require(c, holds)) /\ Only(Require(c, holds), c, {"broken"})
<1>1. Only(Require(c, holds), c, {"broken"})
  BY DEF Require, Only, Typed, Shape, Fields
<1>2. Require(c, holds)["broken"] \in Client_["broken"]
  BY FieldTypes DEF Require, Client_, Typed, Shape, Fields
<1> QED
  BY <1>1, <1>2, TypedOnly DEF Fields

LEMMA SetOnlineTyped ==
    ASSUME NEW c, Typed(c), NEW state \in {"Unknown", "Online", "Offline"}
    PROVE  /\ Typed(SetOnline(c, state)) /\ Local(SetOnline(c, state), c)
           /\ Only(SetOnline(c, state), c, {"online", "raised", "view"})
           /\ SetOnline(c, state).online = state
           /\ SetOnline(c, state).view.limbo = c.view.limbo
           /\ SetOnline(c, state).view.synced = c.view.synced
<1> DEFINE x == SetOnline(c, state)
<1>1. Only(x, c, {"online", "raised", "view"})
  BY DEF SetOnline, Only, Typed, Shape, Fields
<1>2. /\ x.online = state /\ x.raised \in BOOLEAN /\ x.view \in ViewType
      /\ x.view.docs = c.view.docs /\ x.view.limbo = c.view.limbo /\ x.view.synced = c.view.synced
  <2>1. c.view \in ViewType /\ c.raised \in BOOLEAN
    BY FieldTypes
  <2>2. x.online = state /\ x.raised \in BOOLEAN
    BY <2>1 DEF SetOnline, Typed, Shape, Fields
  <2>3. x.view \in {c.view, [c.view EXCEPT !.current = FALSE, !.sync = "Local"]}
    BY DEF SetOnline, Typed, Shape, Fields
  <2> HIDE DEF x
  <2> QED
    BY <2>1, <2>2, <2>3, Zenon DEF ViewType
<1>3. x["online"] \in Client_["online"] /\ x["raised"] \in Client_["raised"] /\ x["view"] \in Client_["view"]
  BY <1>2 DEF Client_
<1> HIDE DEF x
<1>4. Typed(x)
  BY <1>1, <1>3, TypedOnly DEF Fields
<1>5. Local(x, c)
  BY <1>1, <1>2 DEF Only, Fields, Local
<1> QED
  BY <1>1, <1>2, <1>4, <1>5 DEF x

LEMMA OnlyTrans ==
    ASSUME NEW c, NEW F, NEW x, Only(x, c, F), NEW G, NEW y, Only(y, x, G)
    PROVE  Only(y, c, F \cup G)
BY DEF Only

LEMMA OnlyMore ==
    ASSUME NEW c, NEW F, NEW x, Only(x, c, F), NEW G, F \subseteq G
    PROVE  Only(x, c, G)
BY DEF Only

LEMMA OnlySame ==
    ASSUME NEW c, Typed(c), NEW F
    PROVE  Only(c, c, F)
BY DEF Only, Typed

LEMMA LocalTrans ==
    ASSUME NEW c, NEW x, Local(x, c), NEW y, Local(y, x)
    PROVE  Local(y, c)
BY DEF Local

LEMMA LocalSame == ASSUME NEW c PROVE Local(c, c)
BY DEF Local

\* Nothing that is shown or watched changes.
LEMMA LocalOnly ==
    ASSUME NEW c, NEW x, NEW F, Only(x, c, F),
           F \cap {"on", "cache", "writes", "view", "leftOut", "listening"} = {}
    PROVE  Local(x, c) /\ x.view = c.view /\ x.listening = c.listening
<1>1. /\ "on" \notin F /\ "cache" \notin F /\ "writes" \notin F /\ "view" \notin F
      /\ "leftOut" \notin F /\ "listening" \notin F
  OBVIOUS
<1> QED
  BY <1>1 DEF Only, Local, Fields

LEMMA UpdateStateTyped ==
    ASSUME NEW c, Typed(c), NEW state \in {"Unknown", "Online", "Offline"}
    PROVE  /\ Typed(UpdateState(c, state)) /\ Local(UpdateState(c, state), c)
           /\ Only(UpdateState(c, state), c, {"online", "raised", "view", "timer", "failed"})
           /\ UpdateState(c, state).online = state
           /\ UpdateState(c, state).timer = FALSE /\ UpdateState(c, state).failed = FALSE
           /\ UpdateState(c, state).view.limbo = c.view.limbo
           /\ UpdateState(c, state).view.synced = c.view.synced
<1> DEFINE y == [c EXCEPT !.timer = FALSE, !.failed = FALSE]
           x == SetOnline(y, state)
<1>1. /\ Only(y, c, {"timer", "failed"}) /\ y.timer = FALSE /\ y.failed = FALSE
      /\ y["timer"] \in Client_["timer"] /\ y["failed"] \in Client_["failed"]
  BY DEF Only, Typed, Shape, Fields, Client_
<1>2. UpdateState(c, state) = x
  BY DEF UpdateState
<1> HIDE DEF y
<1>3. Typed(y) /\ Local(y, c) /\ y.view = c.view
  <2>1. Typed(y)
    BY <1>1, TypedOnly DEF Fields
  <2>2. Local(y, c)
    BY <1>1, LocalOnly
  <2> QED
    BY <1>1, <2>1, <2>2 DEF Only, Fields
<1>4. /\ Typed(x) /\ Local(x, y) /\ Only(x, y, {"online", "raised", "view"})
      /\ x.online = state /\ x.view.limbo = y.view.limbo /\ x.view.synced = y.view.synced
  BY <1>3, SetOnlineTyped
<1> HIDE DEF x
<1>5. Only(x, c, {"online", "raised", "view", "timer", "failed"})
  BY <1>1, <1>4 DEF Only
<1>6. x.timer = FALSE /\ x.failed = FALSE
  BY <1>1, <1>4 DEF Only, Fields
<1>7. Local(x, c)
  BY <1>3, <1>4, LocalTrans
<1> QED
  BY <1>2, <1>3, <1>4, <1>5, <1>6, <1>7

LEMMA HandleWatchStreamStartTyped ==
    ASSUME NEW c, Typed(c)
    PROVE  /\ Typed(HandleWatchStreamStart(c)) /\ Local(HandleWatchStreamStart(c), c)
           /\ Only(HandleWatchStreamStart(c), c, {"online", "raised", "view", "timer", "broken"})
           /\ HandleWatchStreamStart(c).view.limbo = c.view.limbo
           /\ HandleWatchStreamStart(c).view.synced = c.view.synced
<1>1. CASE c.failed
  BY <1>1, OnlySame, LocalSame DEF HandleWatchStreamStart
<1>2. CASE ~c.failed
  <2> DEFINE y == SetOnline(c, "Unknown")
             z == Require(y, ~c.timer)
             x == [z EXCEPT !.timer = TRUE]
  <2>1. /\ Typed(y) /\ Local(y, c) /\ Only(y, c, {"online", "raised", "view"})
        /\ y.view.limbo = c.view.limbo /\ y.view.synced = c.view.synced
    BY SetOnlineTyped
  <2> HIDE DEF y
  <2>2. Typed(z) /\ Only(z, y, {"broken"})
    BY <2>1, RequireTyped
  <2>3. HandleWatchStreamStart(c) = x
    BY <1>2 DEF HandleWatchStreamStart, y
  <2> HIDE DEF z
  <2>4. Only(x, z, {"timer"}) /\ x["timer"] \in Client_["timer"]
    BY <2>2 DEF Only, Typed, Shape, Fields, Client_
  <2> HIDE DEF x
  <2>5. Typed(x)
    BY <2>2, <2>4, TypedOnly DEF Fields
  <2>6. Only(x, c, {"online", "raised", "view", "timer", "broken"})
    BY <2>1, <2>2, <2>4 DEF Only
  <2>7. Local(x, c) /\ x.view = y.view
    BY <2>1, <2>2, <2>4 DEF Only, Local, Fields
  <2> QED
    BY <2>1, <2>3, <2>5, <2>6, <2>7
<1> QED
  BY <1>1, <1>2, FieldTypes

LEMMA HandleWatchStreamFailureTyped ==
    ASSUME NEW c, Typed(c)
    PROVE  /\ Typed(HandleWatchStreamFailure(c)) /\ Local(HandleWatchStreamFailure(c), c)
           /\ Only(HandleWatchStreamFailure(c), c,
                   {"online", "raised", "view", "timer", "failed", "broken"})
           /\ HandleWatchStreamFailure(c).view.limbo = c.view.limbo
           /\ HandleWatchStreamFailure(c).view.synced = c.view.synced
<1>1. CASE c.online = "Online"
  <2> DEFINE y == SetOnline(c, "Unknown")
             x == Require(y, ~c.failed /\ ~c.timer)
  <2>1. /\ Typed(y) /\ Local(y, c) /\ Only(y, c, {"online", "raised", "view"})
        /\ y.view.limbo = c.view.limbo /\ y.view.synced = c.view.synced
    BY SetOnlineTyped
  <2> HIDE DEF y
  <2>2. Typed(x) /\ Only(x, y, {"broken"})
    BY <2>1, RequireTyped
  <2>3. HandleWatchStreamFailure(c) = x
    BY <1>1 DEF HandleWatchStreamFailure, y
  <2> HIDE DEF x
  <2>4. Only(x, c, {"online", "raised", "view", "timer", "failed", "broken"})
    BY <2>1, <2>2 DEF Only
  <2>5. Local(x, c) /\ x.view = y.view
    BY <2>1, <2>2 DEF Only, Local, Fields
  <2> QED
    BY <2>1, <2>2, <2>3, <2>4, <2>5
<1>2. CASE c.online # "Online"
  <2> DEFINE y == [c EXCEPT !.failed = TRUE, !.timer = FALSE]
             x == SetOnline(y, "Offline")
  <2>1. /\ Only(y, c, {"timer", "failed"})
        /\ y["timer"] \in Client_["timer"] /\ y["failed"] \in Client_["failed"]
    BY DEF Only, Typed, Shape, Fields, Client_
  <2>2. HandleWatchStreamFailure(c) = x
    BY <1>2 DEF HandleWatchStreamFailure
  <2> HIDE DEF y
  <2>3. Typed(y)
    BY <2>1, TypedOnly DEF Fields
  <2>4. /\ Typed(x) /\ Local(x, y) /\ Only(x, y, {"online", "raised", "view"})
        /\ x.view.limbo = y.view.limbo /\ x.view.synced = y.view.synced
    BY <2>3, SetOnlineTyped
  <2> HIDE DEF x
  <2>5. Only(x, c, {"online", "raised", "view", "timer", "failed", "broken"})
    BY <2>1, <2>4 DEF Only
  <2>6. Local(x, c) /\ y.view = c.view
    BY <2>1, <2>4 DEF Only, Local, Fields
  <2> QED
    BY <2>2, <2>4, <2>5, <2>6
<1> QED
  BY <1>1, <1>2

-----------------------------------------------------------------------------
(* The watch stream. *)

LEMMA StartWatchStreamTyped ==
    ASSUME NEW c, Typed(c)
    PROVE  /\ Typed(StartWatchStream(c)) /\ Local(StartWatchStream(c), c)
           /\ Only(StartWatchStream(c), c, {"online", "raised", "view", "timer", "broken",
                                            "stream", "agg", "updates", "resets"})
           /\ StartWatchStream(c).view.limbo = c.view.limbo
           /\ StartWatchStream(c).view.synced = c.view.synced
<1>1. CASE ~ShouldStartWatchStream(c)
  BY <1>1, OnlySame, LocalSame DEF StartWatchStream
<1>2. CASE ShouldStartWatchStream(c)
  <2> DEFINE y == [c EXCEPT !.stream = "Starting", !.agg = <<>>, !.updates = <<>>, !.resets = {}]
             x == HandleWatchStreamStart(y)
             F == {"stream", "agg", "updates", "resets"}
  <2>1. StartWatchStream(c) = x
    BY <1>2 DEF StartWatchStream
  <2>2. Only(y, c, F)
    BY DEF Only, Typed, Shape, Fields
  <2>3. \A f \in F : y[f] \in Client_[f]
    <3>1. <<>> \in Partial(Watched, EntryType) /\ <<>> \in Partial(Docs, CachedDoc) /\ DOMAIN <<>> = {}
      BY PartialNone
    <3>2. <<>> \in Aggregator
      BY <3>1 DEF Aggregator
    <3>3. /\ y["stream"] = "Starting" /\ y["agg"] = <<>> /\ y["updates"] = <<>>
          /\ y["resets"] = {}
      BY DEF Typed, Shape, Fields
    <3> HIDE DEF y
    <3> QED
      BY <3>1, <3>2, <3>3 DEF Client_
  <2> HIDE DEF y
  <2>4. Typed(y)
    BY <2>2, <2>3, TypedOnly DEF Fields
  <2>5. /\ Typed(x) /\ Local(x, y) /\ Only(x, y, {"online", "raised", "view", "timer", "broken"})
        /\ x.view.limbo = y.view.limbo /\ x.view.synced = y.view.synced
    BY <2>4, HandleWatchStreamStartTyped
  <2> HIDE DEF x
  <2>6. Only(x, c, {"online", "raised", "view", "timer", "broken",
                    "stream", "agg", "updates", "resets"})
    BY <2>2, <2>5 DEF Only
  <2>7. Local(x, c) /\ y.view = c.view
    BY <2>2, <2>5 DEF Only, Local, Fields
  <2> QED
    BY <2>1, <2>5, <2>6, <2>7
<1> QED
  BY <1>1, <1>2

LEMMA EntryTyped ==
    ASSUME NEW c, Typed(c), NEW t \in Watched
    PROVE  Entry(c, t) \in EntryType /\ DOMAIN Entry(c, t).changes \subseteq t.docs
<1>1. c.agg \in Partial(Watched, EntryType)
      /\ \A u \in DOMAIN c.agg : DOMAIN c.agg[u].changes \subseteq u.docs
  BY FieldTypes DEF Aggregator
<1>2. CASE t \in DOMAIN c.agg
  BY <1>1, <1>2, PartialIs DEF Entry
<1>3. CASE t \notin DOMAIN c.agg
  <2>1. <<>> \in Partial(Docs, Change) /\ DOMAIN <<>> = {}
    BY PartialNone
  <2> QED
    BY <1>3, <2>1 DEF Entry, NewEntry, EntryType
<1> QED
  BY <1>2, <1>3

LEMMA WithEntryTyped ==
    ASSUME NEW c, Typed(c), NEW t \in Watched, NEW entry \in EntryType,
           DOMAIN entry.changes \subseteq t.docs
    PROVE  /\ Typed(WithEntry(c, t, entry)) /\ Only(WithEntry(c, t, entry), c, {"agg"})
           /\ WithEntry(c, t, entry).agg = With(c.agg, t, entry)
<1> DEFINE x == WithEntry(c, t, entry)
<1>1. Only(x, c, {"agg"}) /\ x["agg"] = With(c.agg, t, entry)
  BY DEF WithEntry, Only, Typed, Shape, Fields
<1>2. c.agg \in Partial(Watched, EntryType)
      /\ \A u \in DOMAIN c.agg : DOMAIN c.agg[u].changes \subseteq u.docs
  BY FieldTypes DEF Aggregator
<1>3. With(c.agg, t, entry) \in Partial(Watched, EntryType)
  BY <1>2, WithPartial
<1>4. With(c.agg, t, entry) \in Aggregator
  <2>1. \A u \in DOMAIN With(c.agg, t, entry) :
           DOMAIN With(c.agg, t, entry)[u].changes \subseteq u.docs
    <3>1. /\ DOMAIN With(c.agg, t, entry) = DOMAIN c.agg \cup {t}
          /\ With(c.agg, t, entry)[t] = entry
          /\ \A u \in DOMAIN c.agg : u # t => With(c.agg, t, entry)[u] = c.agg[u]
      BY DEF With, Over
    <3> QED
      BY <1>2, <3>1
  <2> QED
    BY <1>3, <2>1 DEF Aggregator
<1> HIDE DEF x
<1>5. Typed(x)
  BY <1>1, <1>4, TypedOnly, ClientIs DEF Fields
<1> QED
  BY <1>1, <1>5 DEF x

LEMMA SendTyped ==
    ASSUME NEW c, Typed(c), NEW t \in Watched, NEW add \in BOOLEAN, NEW token \in Versions
    PROVE  /\ Typed(Send(c, t, add, token)) /\ Local(Send(c, t, add, token), c)
           /\ Only(Send(c, t, add, token), c, {"agg", "requests", "idle"})
           /\ Send(c, t, add, token).agg
                = With(c.agg, t, [Entry(c, t) EXCEPT !.outstanding = @ + 1])
           /\ Send(c, t, add, token).requests
                = Append(c.requests, [target |-> t, add |-> add, token |-> token])
           /\ Send(c, t, add, token).idle = FALSE
<1> DEFINE entry == [Entry(c, t) EXCEPT !.outstanding = @ + 1]
           r == [target |-> t, add |-> add, token |-> token]
           y == WithEntry(c, t, entry)
           x == [y EXCEPT !.requests = Append(@, r), !.idle = FALSE]
<1>1. entry \in EntryType /\ DOMAIN entry.changes \subseteq t.docs
  <2>1. Entry(c, t) \in EntryType /\ DOMAIN Entry(c, t).changes \subseteq t.docs
    BY EntryTyped
  <2> QED
    BY <2>1 DEF EntryType
<1>2. Send(c, t, add, token) = x
  BY DEF Send
<1> HIDE DEF entry
<1>3. Typed(y) /\ Only(y, c, {"agg"}) /\ y.agg = With(c.agg, t, entry)
  BY <1>1, WithEntryTyped
<1> HIDE DEF y, r
<1>4. /\ Only(x, y, {"requests", "idle"}) /\ x.requests = Append(y.requests, r) /\ x.idle = FALSE
  BY <1>3 DEF Only, Typed, Shape, Fields
<1> HIDE DEF x
<1>5. y.requests = c.requests /\ c.requests \in Seq(RequestType) /\ r \in RequestType
  BY <1>3, FieldTypes DEF Only, Fields, RequestType, r
<1>6. Append(y.requests, r) \in Seq(RequestType)
  BY <1>5
<1>7. Typed(x)
  <2>1. x["requests"] \in Client_["requests"] /\ x["idle"] \in Client_["idle"]
    BY <1>4, <1>6, ClientIs
  <2> QED
    BY <1>3, <1>4, <2>1, TypedOnly DEF Fields
<1>8. Only(x, c, {"agg", "requests", "idle"})
  BY <1>3, <1>4 DEF Only
<1>9. Local(x, c)
  BY <1>8, LocalOnly
<1>10. x.agg = y.agg
  BY <1>4 DEF Only, Fields
<1> QED
  BY <1>2, <1>3, <1>4, <1>5, <1>7, <1>8, <1>9, <1>10 DEF entry, r

\* Watching a target adds it to those that are watched.
LEMMA StartWatchingTyped ==
    ASSUME NEW c, Typed(c), NEW t \in Watched, NEW token \in Versions
    PROVE  /\ Typed(StartWatching(c, t, token)) /\ Local(StartWatching(c, t, token), c)
           /\ Only(StartWatching(c, t, token), c,
                   {"listening", "agg", "requests", "idle", "online", "raised", "view", "timer",
                    "broken", "stream", "updates", "resets"})
           /\ DOMAIN StartWatching(c, t, token).listening = DOMAIN c.listening \cup {t}
           /\ StartWatching(c, t, token).view.limbo = c.view.limbo
           /\ StartWatching(c, t, token).view.synced = c.view.synced
<1> DEFINE F == {"listening", "agg", "requests", "idle", "online", "raised", "view", "timer",
                 "broken", "stream", "updates", "resets"}
           y == [c EXCEPT !.listening = With(@, t, token)]
<1>1. CASE t \in DOMAIN c.listening
  <2>1. StartWatching(c, t, token) = c
    BY <1>1 DEF StartWatching
  <2> QED
    BY <1>1, <2>1, OnlySame, LocalSame
<1>2. CASE t \notin DOMAIN c.listening
  <2>1. Only(y, c, {"listening"}) /\ y.listening = With(c.listening, t, token)
    BY DEF Only, Typed, Shape, Fields
  <2>2. c.listening \in Partial(Watched, Versions)
    BY FieldTypes
  <2>3. StartWatching(c, t, token)
          = IF c.stream = "Open" THEN Send(y, t, TRUE, token) ELSE StartWatchStream(y)
    BY <1>2 DEF StartWatching
  <2> HIDE DEF y
  <2>4. y.listening \in Partial(Watched, Versions) /\ DOMAIN y.listening = DOMAIN c.listening \cup {t}
    <3>1. With(c.listening, t, token) \in Partial(Watched, Versions)
      BY <2>2, WithPartial
    <3>2. DOMAIN With(c.listening, t, token) = DOMAIN c.listening \cup {t}
      BY DEF With, Over
    <3> QED
      BY <2>1, <3>1, <3>2
  <2>5. Typed(y)
    BY <2>1, <2>4, TypedOnly, ClientIs DEF Fields
  <2>6. Local(y, c) /\ y.view = c.view
    BY <2>1, <2>4 DEF Only, Local, Fields
  <2>7. CASE c.stream = "Open"
    <3> DEFINE x == Send(y, t, TRUE, token)
    <3>1. Typed(x) /\ Local(x, y) /\ Only(x, y, {"agg", "requests", "idle"})
      BY <2>5, SendTyped
    <3> HIDE DEF x
    <3>2. Only(x, c, F) /\ Local(x, c) /\ x.listening = y.listening /\ x.view = y.view
      BY <2>1, <2>6, <3>1 DEF Only, Local, Fields
    <3> QED
      BY <2>3, <2>4, <2>6, <2>7, <3>1, <3>2 DEF x
  <2>8. CASE c.stream # "Open"
    <3> DEFINE x == StartWatchStream(y)
    <3>1. /\ Typed(x) /\ Local(x, y)
          /\ Only(x, y, {"online", "raised", "view", "timer", "broken",
                         "stream", "agg", "updates", "resets"})
          /\ x.view.limbo = y.view.limbo /\ x.view.synced = y.view.synced
      BY <2>5, StartWatchStreamTyped
    <3> HIDE DEF x
    <3>2. Only(x, c, F) /\ Local(x, c) /\ x.listening = y.listening
      BY <2>1, <2>6, <3>1 DEF Only, Local, Fields
    <3> QED
      BY <2>3, <2>4, <2>6, <2>8, <3>1, <3>2 DEF x
  <2> QED
    BY <2>7, <2>8
<1> QED
  BY <1>1, <1>2

\* Whoever stops watching another target than the query changes nothing of it.
LEMMA StopWatchingTyped ==
    ASSUME NEW c, Typed(c), NEW t \in Watched
    PROVE  /\ Typed(StopWatching(c, t)) /\ (t # Query => Local(StopWatching(c, t), c))
           /\ Only(StopWatching(c, t), c,
                   {"listening", "broken", "agg", "requests", "idle", "online", "raised", "view",
                    "timer", "failed"})
           /\ StopWatching(c, t).listening = Without(c.listening, t)
           /\ StopWatching(c, t).view.limbo = c.view.limbo
           /\ StopWatching(c, t).view.synced = c.view.synced
<1> DEFINE F == {"listening", "broken", "agg", "requests", "idle", "online", "raised", "view",
                 "timer", "failed"}
           y == [c EXCEPT !.listening = Without(@, t)]
           left == Require(y, t \in DOMAIN c.listening)
           none == DOMAIN left.listening = {}
           x == StopWatching(c, t)
<1>1. Only(y, c, {"listening"}) /\ y.listening = Without(c.listening, t)
  BY DEF Only, Typed, Shape, Fields
<1>2. c.listening \in Partial(Watched, Versions)
  BY FieldTypes
<1>3. /\ x = IF c.stream = "Open" THEN [Send(left, t, FALSE, 0) EXCEPT !.idle = none]
             ELSE IF none /\ c.enabled THEN UpdateState(left, "Unknown") ELSE left
  BY DEF StopWatching
<1> HIDE DEF y
<1>4. y.listening \in Partial(Watched, Versions) /\ DOMAIN Without(c.listening, t) = DOMAIN c.listening \ {t}
  <2>1. Without(c.listening, t) \in Partial(Watched, Versions)
    BY <1>2, WithoutPartial
  <2> QED
    BY <1>1, <2>1 DEF Without, Restrict
<1>5. Typed(y)
  BY <1>1, <1>4, TypedOnly, ClientIs DEF Fields
<1>6. Typed(left) /\ Only(left, y, {"broken"})
  BY <1>5, RequireTyped
<1> HIDE DEF left, x
<1>7. /\ Only(left, c, {"listening", "broken"}) /\ left.listening = Without(c.listening, t)
      /\ left.view = c.view
  BY <1>1, <1>6 DEF Only, Fields
<1>8. t # Query => Local(left, c)
  BY <1>4, <1>7 DEF Only, Local, Fields
<1>9. /\ Typed(x) /\ Local(x, left) /\ x.listening = left.listening
      /\ x.view.limbo = left.view.limbo /\ x.view.synced = left.view.synced
      /\ Only(x, c, F)
  <2>1. CASE c.stream = "Open"
    <3> DEFINE z == Send(left, t, FALSE, 0)
               w == [z EXCEPT !.idle = none]
    <3>1. FALSE \in BOOLEAN /\ 0 \in Versions
      BY BoundsAssumption DEF Versions
    <3>2. Typed(z) /\ Local(z, left) /\ Only(z, left, {"agg", "requests", "idle"})
      BY <1>6, <3>1, SendTyped
    <3> HIDE DEF z
    <3>3. Only(w, z, {"idle"}) /\ w["idle"] \in Client_["idle"]
      BY <3>2, ClientIs DEF Only, Typed, Shape, Fields
    <3>4. x = w
      BY <1>3, <2>1 DEF z
    <3> HIDE DEF w
    <3>5. Typed(w)
      BY <3>2, <3>3, TypedOnly DEF Fields
    <3>6. Only(w, c, F) /\ Local(w, left) /\ w.listening = left.listening /\ w.view = left.view
      BY <1>7, <3>2, <3>3 DEF Only, Local, Fields
    <3> QED
      BY <3>4, <3>5, <3>6
  <2>2. CASE c.stream # "Open" /\ none /\ c.enabled
    <3> DEFINE w == UpdateState(left, "Unknown")
    <3>1. /\ Typed(w) /\ Local(w, left) /\ Only(w, left, {"online", "raised", "view", "timer", "failed"})
          /\ w.view.limbo = left.view.limbo /\ w.view.synced = left.view.synced
      BY <1>6, UpdateStateTyped
    <3>2. x = w
      BY <1>3, <2>2
    <3> HIDE DEF w
    <3>3. Only(w, c, F) /\ w.listening = left.listening
      BY <1>7, <3>1 DEF Only, Fields
    <3> QED
      BY <3>1, <3>2, <3>3
  <2>3. CASE c.stream # "Open" /\ ~(none /\ c.enabled)
    <3>1. x = left
      BY <1>3, <2>3
    <3>2. Only(left, c, F)
      BY <1>7 DEF Only
    <3> QED
      BY <1>6, <3>1, <3>2, LocalSame
  <2> QED
    BY <2>1, <2>2, <2>3
<1>10. t # Query => Local(x, c)
  BY <1>8, <1>9, LocalTrans
<1> QED
  BY <1>7, <1>9, <1>10 DEF x

\* The client with its stream closed.
Closed(c) ==
    [c EXCEPT !.stream = "Initial", !.idle = FALSE, !.agg = <<>>, !.updates = <<>>,
              !.resets = {}, !.requests = <<>>, !.incoming = <<>>, !.serving = <<>>]

LEMMA ClosedTyped ==
    ASSUME NEW c, Typed(c)
    PROVE  /\ Typed(Closed(c)) /\ Quiet(Closed(c)) /\ Closed(c).stream = "Initial"
           /\ Only(Closed(c), c, {"stream", "idle", "agg", "updates", "resets", "requests",
                                  "incoming", "serving"})
<1> DEFINE G == {"stream", "idle", "agg", "updates", "resets", "requests", "incoming", "serving"}
           closed == Closed(c)
<1>2. Only(closed, c, G)
  BY DEF Closed, Only, Typed, Shape, Fields
<1>3. /\ closed.stream = "Initial" /\ closed.idle = FALSE /\ closed.agg = <<>>
      /\ closed.updates = <<>> /\ closed.resets = {} /\ closed.requests = <<>>
      /\ closed.incoming = <<>> /\ closed.serving = <<>>
  BY DEF Closed, Typed, Shape, Fields
<1> HIDE DEF closed
<1>4. Typed(closed)
  <2>1. /\ <<>> \in Partial(Watched, EntryType) /\ <<>> \in Partial(Docs, CachedDoc)
        /\ <<>> \in Partial(Watched, [at : Versions, fresh : BOOLEAN]) /\ DOMAIN <<>> = {}
    BY PartialNone
  <2>2. <<>> \in Aggregator
    BY <2>1 DEF Aggregator
  <2>3. <<>> \in Seq(RequestType) /\ <<>> \in Seq(Message)
    OBVIOUS
  <2>4. /\ closed["stream"] \in Client_["stream"] /\ closed["idle"] \in Client_["idle"]
        /\ closed["agg"] \in Client_["agg"] /\ closed["updates"] \in Client_["updates"]
        /\ closed["resets"] \in Client_["resets"] /\ closed["requests"] \in Client_["requests"]
        /\ closed["incoming"] \in Client_["incoming"] /\ closed["serving"] \in Client_["serving"]
    <3>1. /\ "Initial" \in Client_["stream"] /\ FALSE \in Client_["idle"]
          /\ <<>> \in Client_["agg"] /\ <<>> \in Client_["updates"] /\ {} \in Client_["resets"]
      BY <2>1, <2>2, ClientIs
    <3>2. /\ <<>> \in Client_["requests"] /\ <<>> \in Client_["incoming"]
          /\ <<>> \in Client_["serving"]
      BY <2>1, <2>3, ClientIs
    <3> QED
      BY <1>3, <3>1, <3>2
  <2>5. \A f \in G : closed[f] \in Client_[f]
    BY <2>4
  <2>6. G \in SUBSET Fields
    BY DEF Fields
  <2> QED
    BY <1>2, <2>5, <2>6, TypedOnly
<1>5. Quiet(closed)
  BY <1>3 DEF Quiet
<1> QED
  BY <1>2, <1>3, <1>4, <1>5 DEF closed

LEMMA CloseTyped ==
    ASSUME NEW c, Typed(c), NEW graceful
    PROVE  /\ Typed(Close(c, graceful)) /\ Local(Close(c, graceful), c)
           /\ Only(Close(c, graceful), c,
                   {"stream", "idle", "agg", "updates", "resets", "requests", "incoming",
                    "serving", "online", "raised", "view", "timer", "failed", "broken"})
           /\ Close(c, graceful).view.limbo = c.view.limbo
           /\ Close(c, graceful).view.synced = c.view.synced
<1> DEFINE G == {"stream", "idle", "agg", "updates", "resets", "requests", "incoming", "serving"}
           F == {"stream", "idle", "agg", "updates", "resets", "requests", "incoming",
                 "serving", "online", "raised", "view", "timer", "failed", "broken"}
           closed == Closed(c)
           x == Close(c, graceful)
<1>1. x = IF ShouldStartWatchStream(closed)
          THEN Require(StartWatchStream(HandleWatchStreamFailure(closed)), ~graceful)
          ELSE UpdateState(closed, "Unknown")
  BY DEF Close, Closed
<1>2. Typed(closed) /\ Only(closed, c, G)
  BY ClosedTyped
<1> HIDE DEF closed, x
<1>4. Typed(closed)
  BY <1>2
<1>5. Local(closed, c) /\ closed.view = c.view
  BY <1>2, LocalOnly
<1>6. CASE ShouldStartWatchStream(closed)
  <2> DEFINE y == HandleWatchStreamFailure(closed)
             z == StartWatchStream(y)
  <2>1. /\ Typed(y) /\ Local(y, closed)
        /\ Only(y, closed, {"online", "raised", "view", "timer", "failed", "broken"})
        /\ y.view.limbo = closed.view.limbo /\ y.view.synced = closed.view.synced
    BY <1>4, HandleWatchStreamFailureTyped
  <2> HIDE DEF y
  <2>2. /\ Typed(z) /\ Local(z, y)
        /\ Only(z, y, {"online", "raised", "view", "timer", "broken",
                       "stream", "agg", "updates", "resets"})
        /\ z.view.limbo = y.view.limbo /\ z.view.synced = y.view.synced
    BY <2>1, StartWatchStreamTyped
  <2>3. x = Require(z, ~graceful)
    BY <1>1, <1>6 DEF y
  <2> HIDE DEF z
  <2>4. Typed(x) /\ Only(x, z, {"broken"})
    BY <2>2, <2>3, RequireTyped
  <2>5. Local(x, z) /\ x.view = z.view
    BY <2>4, LocalOnly
  <2>6. Local(x, c)
    BY <1>5, <2>1, <2>2, <2>5, LocalTrans
  <2>7. Only(x, c, F)
    BY <1>2, <2>1, <2>2, <2>4 DEF Only
  <2> QED
    BY <1>5, <2>1, <2>2, <2>4, <2>5, <2>6, <2>7 DEF x
<1>7. CASE ~ShouldStartWatchStream(closed)
  <2>1. x = UpdateState(closed, "Unknown")
    BY <1>1, <1>7
  <2>2. /\ Typed(x) /\ Local(x, closed)
        /\ Only(x, closed, {"online", "raised", "view", "timer", "failed"})
        /\ x.view.limbo = closed.view.limbo /\ x.view.synced = closed.view.synced
    BY <1>4, <2>1, UpdateStateTyped
  <2>3. Local(x, c)
    BY <1>5, <2>2, LocalTrans
  <2>4. Only(x, c, F)
    BY <1>2, <2>2 DEF Only
  <2> QED
    BY <1>5, <2>2, <2>3, <2>4 DEF x
<1> QED
  BY <1>6, <1>7

LEMMA StopTyped ==
    ASSUME NEW c, Typed(c)
    PROVE  Typed(Stop(c)) /\ Local(Stop(c), c)
<1> DEFINE off == [c EXCEPT !.enabled = FALSE]
<1>1. Only(off, c, {"enabled"}) /\ off["enabled"] \in Client_["enabled"]
  BY ClientIs DEF Only, Typed, Shape, Fields
<1>2. Stop(c) = IF c.stream = "Initial" THEN off ELSE Close(off, TRUE)
  BY DEF Stop
<1> HIDE DEF off
<1>3. Typed(off) /\ Local(off, c)
  BY <1>1, TypedOnly, LocalOnly DEF Fields
<1>4. Typed(Close(off, TRUE)) /\ Local(Close(off, TRUE), off)
  BY <1>3, CloseTyped
<1> QED
  BY <1>2, <1>3, <1>4, LocalTrans

LEMMA EnableTyped ==
    ASSUME NEW c, Typed(c)
    PROVE  Typed(Enable(c)) /\ Local(Enable(c), c)
<1> DEFINE on == [c EXCEPT !.enabled = TRUE]
<1>1. Only(on, c, {"enabled"}) /\ on["enabled"] \in Client_["enabled"]
  BY ClientIs DEF Only, Typed, Shape, Fields
<1>2. Enable(c) \in {StartWatchStream(on), UpdateState(on, "Unknown")}
  BY DEF Enable
<1> HIDE DEF on
<1>3. Typed(on) /\ Local(on, c)
  BY <1>1, TypedOnly, LocalOnly DEF Fields
<1>4. Typed(StartWatchStream(on)) /\ Local(StartWatchStream(on), on)
  BY <1>3, StartWatchStreamTyped
<1>5. Typed(UpdateState(on, "Unknown")) /\ Local(UpdateState(on, "Unknown"), on)
  BY <1>3, UpdateStateTyped
<1> QED
  BY <1>2, <1>3, <1>4, <1>5, LocalTrans

-----------------------------------------------------------------------------
(* The ids of targets: a new one is always at hand. *)

LEMMA ImageFinite ==
    ASSUME NEW f, IsFiniteSet(DOMAIN f)
    PROVE  IsFiniteSet({f[x] : x \in DOMAIN f})
<1> DEFINE S == DOMAIN f
           T == {f[x] : x \in S}
           g == [x \in S |-> f[x]]
<1>1. g \in Surjection(S, T)
  BY DEF Surjection
<1> QED
  BY <1>1, FS_Surjection

LEMMA LeastExists ==
    ASSUME NEW n \in Nat, NEW T \in SUBSET (1 .. n), T # {}
    PROVE  Min(T) \in T
<1> DEFINE U == {n - x : x \in T}
<1>1. U \subseteq 0 .. n /\ U # {}
  OBVIOUS
<1>2. PICK u \in U : \A y \in U : u >= y
  <2> HIDE DEF U
  <2> QED
    BY <1>1, GreatestExists
<1>3. PICK x \in T : u = n - x
  OBVIOUS
<1>4. \A y \in T : x <= y
  BY <1>2, <1>3
<1> QED
  BY <1>4 DEF Min

LEMMA SmallestUnused ==
    ASSUME NEW K, IsFiniteSet(K)
    PROVE  Min((1 .. (Cardinality(K) + 1)) \ K) \in Nat \ ({0} \cup K)
<1> DEFINE n == Cardinality(K) + 1
           T == (1 .. n) \ K
<1>1. Cardinality(K) \in Nat
  BY FS_CardinalityType
<1>2. T # {}
  <2> SUFFICES ASSUME T = {} PROVE FALSE
    OBVIOUS
  <2>1. 1 .. n \subseteq K
    OBVIOUS
  <2>2. Cardinality(1 .. n) <= Cardinality(K)
    BY <2>1, FS_Subset
  <2>3. Cardinality(1 .. n) = n
    BY <1>1, FS_Interval
  <2> QED
    BY <1>1, <2>2, <2>3
<1>3. T \in SUBSET (1 .. n) /\ n \in Nat
  BY <1>1
<1>4. Min(T) \in T
  <2> HIDE DEF T, n
  <2> QED
    BY <1>2, <1>3, LeastExists
<1> QED
  BY <1>1, <1>4

LEMMA MessageAbout ==
    ASSUME NEW m \in Message
    PROVE  IsFiniteSet(m.about) /\ m.about \subseteq Watched
<1>1. CASE m \in Document
  BY <1>1 DEF Document, News, Finite
<1>2. CASE m \in Single \cup Filter
  <2>1. PICK t \in Watched : m.about = {t}
    BY <1>2 DEF Single, Filter
  <2> QED
    BY <2>1, FS_Singleton
<1>3. CASE m \in Snapshot
  BY <1>3, FS_EmptySet DEF Snapshot
<1> QED
  BY <1>1, <1>2, <1>3 DEF Message

LEMMA KnownIdsFinite ==
    ASSUME NEW c, Typed(c)
    PROVE  IsFiniteSet(KnownIds(c))
<1> DEFINE R == [i \in DOMAIN c.requests |-> c.requests[i].target]
           A == [i \in DOMAIN c.incoming |-> c.incoming[i].about]
           rs == {R[i] : i \in DOMAIN R}
           as == {A[i] : i \in DOMAIN A}
           U == DOMAIN c.listening \cup DOMAIN c.agg \cup DOMAIN c.serving \cup rs \cup UNION as
           I == [t \in U |-> t.id]
<1>1. /\ c.listening \in Partial(Watched, Versions) /\ c.agg \in Partial(Watched, EntryType)
      /\ c.serving \in Partial(Watched, [at : Versions, fresh : BOOLEAN])
      /\ c.requests \in Seq(RequestType) /\ c.incoming \in Seq(Message)
  BY FieldTypes DEF Aggregator
<1>2. IsFiniteSet(DOMAIN c.listening) /\ IsFiniteSet(DOMAIN c.agg) /\ IsFiniteSet(DOMAIN c.serving)
  <2>1. IsFiniteSet(DOMAIN c.listening)
    BY <1>1, PartialIs
  <2>2. IsFiniteSet(DOMAIN c.agg)
    BY <1>1, PartialIs
  <2>3. IsFiniteSet(DOMAIN c.serving)
    BY <1>1, PartialIs
  <2> QED
    BY <2>1, <2>2, <2>3
<1>3. IsFiniteSet(DOMAIN R) /\ IsFiniteSet(DOMAIN A)
  <2>1. /\ DOMAIN R = 1 .. Len(c.requests) /\ Len(c.requests) \in Nat
        /\ DOMAIN A = 1 .. Len(c.incoming) /\ Len(c.incoming) \in Nat
    BY <1>1
  <2> QED
    BY <2>1, FS_Interval
<1>4. IsFiniteSet(rs) /\ IsFiniteSet(as)
  <2> HIDE DEF R, A
  <2> QED
    BY <1>3, ImageFinite
<1>5. \A T \in as : IsFiniteSet(T)
  <2>1. \A i \in DOMAIN c.incoming : c.incoming[i] \in Message
    BY <1>1
  <2> QED
    BY <2>1, MessageAbout, Zenon
<1>6. IsFiniteSet(UNION as)
  <2> HIDE DEF as
  <2> QED
    BY <1>4, <1>5, FS_UNION, Zenon
<1>7. IsFiniteSet(U)
  <2> HIDE DEF rs, as
  <2> QED
    BY <1>2, <1>4, <1>6, FS_Union, Zenon
<1>8. KnownIds(c) = {I[t] : t \in DOMAIN I}
  BY Zenon DEF KnownIds
<1>9. DOMAIN I = U
  OBVIOUS
<1> HIDE DEF I, U
<1> QED
  BY <1>7, <1>8, <1>9, ImageFinite

LEMMA NextIdIs ==
    ASSUME NEW c, Typed(c)
    PROVE  NextId(c) \in Nat \ {0} /\ NextId(c) \notin KnownIds(c)
BY KnownIdsFinite, SmallestUnused DEF NextId

-----------------------------------------------------------------------------
(* Lookups come and go. *)

LEMMA KeptTrans ==
    ASSUME NEW p, NEW y, Kept(p, y), NEW z, Kept(y, z)
    PROVE  Kept(p, z)
BY LocalTrans DEF Kept

LEMMA KeptSame ==
    ASSUME NEW p, Typed(p)
    PROVE  Kept(p, p)
BY LocalSame DEF Kept

LEMMA LookupIs ==
    ASSUME NEW t \in Lookup
    PROVE  t # Query /\ t \in Watched /\ TheDoc(t) \in Docs /\ t.docs = {TheDoc(t)}
<1>1. PICK d \in Docs : t.docs = {d}
  BY DEF Lookup
<1>2. TheDoc(t) = d
  BY <1>1 DEF TheDoc
<1>3. t # Query
  BY DEF Lookup, Query
<1> QED
  BY <1>1, <1>2, <1>3 DEF Watched

LEMMA TrackLimboTyped ==
    ASSUME NEW c, Typed(c), NEW d \in Docs
    PROVE  Kept(c, TrackLimbo(d, c))
<1> DEFINE t == [id |-> NextId(c), docs |-> {d}]
           y == [c EXCEPT !.limbo = With(@, d, t)]
           x == StartWatching(y, t, 0)
<1>1. CASE d \in DOMAIN c.limbo
  BY <1>1, KeptSame DEF TrackLimbo
<1>2. CASE d \notin DOMAIN c.limbo
  <2>1. TrackLimbo(d, c) = x
    BY <1>2 DEF TrackLimbo
  <2>2. t \in Lookup
    BY NextIdIs DEF Lookup
  <2>3. Only(y, c, {"limbo"}) /\ y["limbo"] = With(c.limbo, d, t)
    BY DEF Only, Typed, Shape, Fields
  <2> HIDE DEF t, y
  <2>4. c.limbo \in Partial(Docs, Lookup)
    BY FieldTypes
  <2>5. With(c.limbo, d, t) \in Partial(Docs, Lookup)
    BY <2>2, <2>4, WithPartial
  <2>6. Typed(y)
    BY <2>3, <2>5, TypedOnly, ClientIs DEF Fields
  <2>7. Local(y, c) /\ y.view = c.view
    BY <2>3, LocalOnly
  <2>8. t \in Watched /\ 0 \in Versions
    BY <2>2, BoundsAssumption DEF Watched, Versions
  <2>9. /\ Typed(x) /\ Local(x, y)
        /\ x.view.limbo = y.view.limbo /\ x.view.synced = y.view.synced
    BY <2>6, <2>8, StartWatchingTyped
  <2> QED
    BY <2>1, <2>7, <2>9, LocalTrans DEF Kept
<1> QED
  BY <1>1, <1>2

LEMMA RemoveLimboTargetTyped ==
    ASSUME NEW c, Typed(c), NEW d
    PROVE  Kept(c, RemoveLimboTarget(d, c))
<1> DEFINE t == c.limbo[d]
           y == StopWatching(c, t)
           x == [y EXCEPT !.limbo = Without(@, d), !.received = @ \ {t}]
<1>1. CASE d \notin DOMAIN c.limbo
  BY <1>1, KeptSame DEF RemoveLimboTarget
<1>2. CASE d \in DOMAIN c.limbo
  <2>1. RemoveLimboTarget(d, c) = x
    BY <1>2 DEF RemoveLimboTarget
  <2>2. c.limbo \in Partial(Docs, Lookup) /\ c.received \in SUBSET Lookup
    BY FieldTypes
  <2>3. t \in Lookup
    BY <1>2, <2>2, PartialIs
  <2>4. t # Query /\ t \in Watched
    BY <2>3, LookupIs
  <2> HIDE DEF t
  <2>5. /\ Typed(y) /\ Local(y, c) /\ y.view.limbo = c.view.limbo /\ y.view.synced = c.view.synced
        /\ Only(y, c, {"listening", "broken", "agg", "requests", "idle", "online", "raised",
                       "view", "timer", "failed"})
    <3>1. Typed(StopWatching(c, t)) /\ (t # Query => Local(StopWatching(c, t), c))
      BY <2>4, StopWatchingTyped
    <3>2. /\ Only(StopWatching(c, t), c,
                  {"listening", "broken", "agg", "requests", "idle", "online", "raised", "view",
                   "timer", "failed"})
          /\ StopWatching(c, t).view.limbo = c.view.limbo
          /\ StopWatching(c, t).view.synced = c.view.synced
      BY <2>4, StopWatchingTyped
    <3> QED
      BY <2>4, <3>1, <3>2
  <2> HIDE DEF y
  <2>6. /\ Only(x, y, {"limbo", "received"})
        /\ x["limbo"] = Without(y.limbo, d) /\ x["received"] = y.received \ {t}
    BY <2>5 DEF Only, Typed, Shape, Fields
  <2> HIDE DEF x
  <2>7. y.limbo = c.limbo /\ y.received = c.received
    BY <2>5 DEF Only, Fields
  <2>8. Without(c.limbo, d) \in Partial(Docs, Lookup)
    BY <2>2, WithoutPartial
  <2>9. x["limbo"] \in Client_["limbo"] /\ x["received"] \in Client_["received"]
    BY <2>2, <2>6, <2>7, <2>8, ClientIs
  <2>10. Typed(x)
    BY <2>5, <2>6, <2>9, TypedOnly DEF Fields
  <2>11. Local(x, y) /\ x.view = y.view
    BY <2>6, LocalOnly
  <2> QED
    BY <2>1, <2>5, <2>10, <2>11, LocalTrans DEF Kept
<1> QED
  BY <1>1, <1>2

LEMMA TrackAll ==
    ASSUME NEW c, Typed(c), NEW S \in SUBSET Docs
    PROVE  Kept(c, FoldSet(TrackLimbo, c, S))
<1> DEFINE p == [goal |-> "types", of |-> "track", from |-> c]
<1>1. IsFiniteSet(S)
  BY DocsAssumption, FS_Subset
<1>2. FoldInv(p, {}, c)
  BY KeptSame DEF FoldInv, TypesKept
<1>3. ASSUME NEW r \in SUBSET S, NEW x \in S \ r, NEW y, FoldInv(p, r, y)
      PROVE  FoldInv(p, r \cup {x}, FoldStep(p, x, y))
  <2>1. Kept(c, y) /\ Typed(y) /\ x \in Docs
    BY <1>3 DEF FoldInv, TypesKept, Kept
  <2>2. Kept(y, TrackLimbo(x, y))
    BY <2>1, TrackLimboTyped
  <2> QED
    BY <2>1, <2>2, KeptTrans DEF FoldStep, FoldInv, TypesKept
<1>4. FoldInv(p, S, FoldedSet(p, c, S))
  BY <1>1, <1>2, <1>3, FoldKeeps
<1>5. FoldSet(TrackLimbo, c, S) = FoldedSet(p, c, S)
  BY DEF FoldSet, MapThenFoldSet, FoldedSet, FoldStep
<1> QED
  BY <1>4, <1>5 DEF FoldInv, TypesKept

LEMMA RemoveAll ==
    ASSUME NEW c, Typed(c), NEW S \in SUBSET Docs
    PROVE  Kept(c, FoldSet(RemoveLimboTarget, c, S))
<1> DEFINE p == [goal |-> "types", of |-> "drop", from |-> c]
<1>1. IsFiniteSet(S)
  BY DocsAssumption, FS_Subset
<1>2. FoldInv(p, {}, c)
  BY KeptSame DEF FoldInv, TypesKept
<1>3. ASSUME NEW r \in SUBSET S, NEW x \in S \ r, NEW y, FoldInv(p, r, y)
      PROVE  FoldInv(p, r \cup {x}, FoldStep(p, x, y))
  <2>1. Kept(c, y) /\ Typed(y)
    BY <1>3 DEF FoldInv, TypesKept, Kept
  <2>2. Kept(y, RemoveLimboTarget(x, y))
    BY <2>1, RemoveLimboTargetTyped
  <2> QED
    BY <2>1, <2>2, KeptTrans DEF FoldStep, FoldInv, TypesKept
<1>4. FoldInv(p, S, FoldedSet(p, c, S))
  BY <1>1, <1>2, <1>3, FoldKeeps
<1>5. FoldSet(RemoveLimboTarget, c, S) = FoldedSet(p, c, S)
  BY DEF FoldSet, MapThenFoldSet, FoldedSet, FoldStep
<1> QED
  BY <1>4, <1>5 DEF FoldInv, TypesKept

-----------------------------------------------------------------------------
(* What a view shows. *)

ChangeType == [added : SUBSET Docs, modified : SUBSET Docs, removed : SUBSET Docs,
               current : BOOLEAN, token : Versions]

\* ViewIsLocal of one client, but for the documents that the query left out.
ViewLocal(c) ==
    c.on => \A d \in Docs : \/ c.view.docs[d].content = LocalDoc(c, d).content
                            \/ Committed(c, d)
                            \/ d \in c.leftOut

LEMMA LocalKeepsView ==
    ASSUME NEW c, ViewLocal(c), NEW x, Local(x, c)
    PROVE  ViewLocal(x)
<1>1. \A d \in Docs : LocalDoc(x, d) = LocalDoc(c, d) /\ Committed(x, d) = Committed(c, d)
  BY DEF Local, LocalDoc, Committed
<1> QED
  BY <1>1 DEF ViewLocal, Local

LEMMA MaxOfPlaces ==
    ASSUME NEW n \in Nat, NEW S \in SUBSET (1 .. n), S # {}
    PROVE  Max(S) \in S /\ \A x \in S : x <= Max(S)
<1>1. S \subseteq 0 .. n
  OBVIOUS
<1>2. PICK x \in S : \A y \in S : x >= y
  BY <1>1, GreatestExists
<1>3. Max(S) \in S /\ \A y \in S : Max(S) >= y
  BY <1>2 DEF Max
<1> QED
  BY <1>3

LEMMA LocalDocTyped ==
    ASSUME NEW c, Typed(c), NEW d \in Docs
    PROVE  LocalDoc(c, d) \in ViewDoc
<1> DEFINE mine == {i \in DOMAIN c.writes : c.writes[i].doc = d}
<1>1. c.writes \in Seq(WriteType) /\ c.cache \in [Docs -> CachedDoc]
  BY FieldTypes
<1>2. CASE mine = {}
  <2>1. LocalDoc(c, d) = [content |-> c.cache[d].content, local |-> FALSE]
    BY <1>2 DEF LocalDoc
  <2>2. c.cache[d].content \in Values
    BY <1>1 DEF CachedDoc
  <2> QED
    BY <2>1, <2>2 DEF ViewDoc
<1>3. CASE mine # {}
  <2>1. Len(c.writes) \in Nat /\ mine \in SUBSET (1 .. Len(c.writes))
    BY <1>1
  <2>2. Max(mine) \in mine
    BY <1>3, <2>1, MaxOfPlaces
  <2>3. c.writes[Max(mine)].content \in Values
    <3>1. c.writes[Max(mine)] \in WriteType
      <4> HIDE DEF mine
      <4> DEFINE i == Max(mine)
      <4>1. i \in 1 .. Len(c.writes)
        BY <2>1, <2>2
      <4> HIDE DEF i
      <4>2. c.writes[i] \in WriteType
        BY <1>1, <4>1
      <4> QED
        BY <4>2 DEF i
    <3> HIDE DEF mine
    <3> QED
      BY <3>1 DEF WriteType
  <2>4. LocalDoc(c, d) = [content |-> c.writes[Max(mine)].content, local |-> TRUE]
    BY <1>3 DEF LocalDoc
  <2> QED
    BY <2>3, <2>4 DEF ViewDoc
<1> QED
  BY <1>2, <1>3

LEMMA ComputedTyped ==
    ASSUME NEW c, Typed(c)
    PROVE  Computed(c) \in [Docs -> ViewDoc]
<1>1. c.view.docs \in [Docs -> ViewDoc]
  BY FieldTypes DEF ViewType
<1>2. NotShown \in ViewDoc
  BY DEF NotShown, ViewDoc, Values
<1>3. \A d \in Docs : Computed(c)[d] \in {c.view.docs[d], NotShown, LocalDoc(c, d)}
  BY DEF Computed
<1>4. Computed(c) = [d \in Docs |-> Computed(c)[d]]
  BY DEF Computed
<1>5. \A d \in Docs : Computed(c)[d] \in ViewDoc
  BY <1>1, <1>2, <1>3, LocalDocTyped
<1> QED
  BY <1>4, <1>5

\* What is computed is what the local store has, unless it waits for the stream or was
\* left out.
LEMMA ComputedIsLocal ==
    ASSUME NEW c, NEW d \in Docs, d \notin c.leftOut
    PROVE  Computed(c)[d].content = LocalDoc(c, d).content \/ Committed(c, d)
<1> DEFINE old == c.view.docs[d]
           new == LocalDoc(c, d)
<1>1. CASE ~Applies(old, new, Committed(c, d))
  <2>1. Computed(c)[d] = old
    BY <1>1 DEF Computed
  <2>2. old.content = new.content \/ Committed(c, d)
    BY <1>1 DEF Applies
  <2> QED
    BY <2>1, <2>2
<1>2. CASE Applies(old, new, Committed(c, d)) /\ new.content = Missing
  BY <1>2 DEF Computed, NotShown
<1>3. CASE Applies(old, new, Committed(c, d)) /\ new.content # Missing
  BY <1>3 DEF Computed
<1> QED
  BY <1>1, <1>2, <1>3

LEMMA AppliedTyped ==
    ASSUME NEW c, Typed(c), NEW change \in ChangeType
    PROVE  Applied(c, change) \in ViewType /\ Applied(c, change).docs = Computed(c)
<1> DEFINE synced == (c.view.synced \cup change.added) \ change.removed
           limbo == IF change.current THEN InLimbo(Computed(c), synced) ELSE c.view.limbo
<1>1. c.view.synced \in SUBSET Docs /\ c.view.limbo \in SUBSET Docs
  BY FieldTypes DEF ViewType
<1>2. synced \in SUBSET Docs /\ limbo \in SUBSET Docs /\ change.current \in BOOLEAN
  BY <1>1 DEF ChangeType, InLimbo
<1>3. Applied(c, change)
        = [docs |-> Computed(c), synced |-> synced, current |-> change.current, limbo |-> limbo,
           sync |-> IF change.current /\ limbo = {} THEN "Synced" ELSE "Local"]
  BY DEF Applied
<1> HIDE DEF synced, limbo
<1> QED
  BY <1>2, <1>3, ComputedTyped DEF ViewType

LEMMA NoChangeTyped ==
    ASSUME NEW c, Typed(c)
    PROVE  NoChange(c) \in ChangeType
<1>1. c.view.current \in BOOLEAN /\ 0 \in Versions
  BY FieldTypes, BoundsAssumption DEF ViewType, Versions
<1> QED
  BY <1>1 DEF NoChange, ChangeType

\* Whatever is raised shows the local store's documents.
LEMMA EmitTyped ==
    ASSUME NEW c, Typed(c), NEW change \in ChangeType
    PROVE  /\ Typed(Emit(c, change)) /\ ViewLocal(Emit(c, change))
           /\ Emit(c, change).on = c.on
           /\ (Query \in DOMAIN c.listening => Query \in DOMAIN Emit(c, change).listening)
<1>1. CASE ~c.on
  BY <1>1 DEF Emit, ViewLocal
<1>2. CASE c.on
  <2> DEFINE view == Applied(c, change)
             checked == Require(c, change.modified \subseteq c.view.synced \cup change.added)
             shown == [checked EXCEPT !.view = view, !.raised = @ \/ Raises(c, view, change)]
             left == FoldSet(RemoveLimboTarget, shown, c.view.limbo \ view.limbo)
             x == FoldSet(TrackLimbo, left, view.limbo \ c.view.limbo)
  <2>1. Emit(c, change) = x
    BY <1>2 DEF Emit
  <2>2. view \in ViewType /\ view.docs = Computed(c)
    BY AppliedTyped
  <2>3. Typed(checked) /\ Only(checked, c, {"broken"})
    BY RequireTyped
  <2> HIDE DEF view, checked
  <2>4. /\ Only(shown, checked, {"view", "raised"}) /\ shown["view"] = view
        /\ shown["raised"] \in BOOLEAN
    BY <2>3 DEF Only, Typed, Shape, Fields
  <2> HIDE DEF shown
  <2>5. Typed(shown)
    BY <2>2, <2>3, <2>4, TypedOnly, ClientIs DEF Fields
  <2>6. /\ shown.on = c.on /\ shown.cache = c.cache /\ shown.writes = c.writes
        /\ shown.listening = c.listening /\ shown.leftOut = c.leftOut
    BY <2>3, <2>4 DEF Only, Fields
  <2>7. c.view.limbo \in SUBSET Docs /\ view.limbo \in SUBSET Docs
    BY <2>2, FieldTypes DEF ViewType
  <2>8. Kept(shown, left)
    BY <2>5, <2>7, RemoveAll
  <2> HIDE DEF left
  <2>9. Kept(left, x)
    BY <2>7, <2>8, TrackAll DEF Kept
  <2> HIDE DEF x
  <2>10. Typed(x) /\ Local(x, shown)
    BY <2>8, <2>9, LocalTrans DEF Kept
  <2>11. ViewLocal(shown)
    <3>1. \A d \in Docs : LocalDoc(shown, d) = LocalDoc(c, d) /\ Committed(shown, d) = Committed(c, d)
      BY <2>6 DEF LocalDoc, Committed
    <3> QED
      BY <2>2, <2>4, <2>6, <3>1, ComputedIsLocal DEF ViewLocal
  <2>12. ViewLocal(x)
    BY <2>10, <2>11, LocalKeepsView
  <2> QED
    BY <2>1, <2>6, <2>10, <2>12 DEF Local
<1> QED
  BY <1>1, <1>2, FieldTypes

-----------------------------------------------------------------------------
(* The aggregator. *)

LEMMA GatheredTrans ==
    ASSUME NEW p, NEW y, Gathered(p, y), NEW z, Gathered(y, z)
    PROVE  Gathered(p, z)
BY DEF Gathered, Only

LEMMA GatheredSame ==
    ASSUME NEW p, Typed(p)
    PROVE  Gathered(p, p)
BY OnlySame DEF Gathered

LEMMA RemoteKeysTyped ==
    ASSUME NEW c, Typed(c), NEW t \in Watched
    PROVE  RemoteKeys(c, t) \subseteq t.docs /\ t.docs \subseteq Docs
<1>1. c.view.synced \in SUBSET Docs
  BY FieldTypes DEF ViewType
<1>2. t.docs \subseteq Docs
  BY DEF Watched, Query, Lookup
<1> QED
  BY <1>1, <1>2 DEF RemoteKeys, Query

LEMMA SetUpdatesTyped ==
    ASSUME NEW c, Typed(c), NEW update \in Partial(Docs, CachedDoc)
    PROVE  /\ Typed([c EXCEPT !.updates = update])
           /\ Only([c EXCEPT !.updates = update], c, {"updates"})
           /\ [c EXCEPT !.updates = update].updates = update
<1> DEFINE x == [c EXCEPT !.updates = update]
<1>1. Only(x, c, {"updates"}) /\ x["updates"] = update
  BY DEF Only, Typed, Shape, Fields
<1> HIDE DEF x
<1>2. Typed(x)
  BY <1>1, TypedOnly, ClientIs DEF Fields
<1> QED
  BY <1>1, <1>2 DEF x

\* An entry whose changes are others, and what is known of some documents.
LEMMA GatherTyped ==
    ASSUME NEW c, Typed(c), NEW t \in Watched, NEW changes \in Partial(Docs, Change),
           DOMAIN changes \subseteq t.docs, NEW update \in Partial(Docs, CachedDoc), NEW x,
           x = [WithEntry(c, t, [Entry(c, t) EXCEPT !.changes = changes])
                   EXCEPT !.updates = Over(update, @)]
    PROVE  Gathered(c, x)
<1> DEFINE entry == [Entry(c, t) EXCEPT !.changes = changes]
           y == WithEntry(c, t, entry)
           all == Over(update, y.updates)
<1>1. entry \in EntryType /\ DOMAIN entry.changes \subseteq t.docs
  BY EntryTyped DEF EntryType
<1> HIDE DEF entry
<1>2. Typed(y) /\ Only(y, c, {"agg"})
  BY <1>1, WithEntryTyped
<1>3. x = [y EXCEPT !.updates = all]
  <2>1. x = [y EXCEPT !.updates = Over(update, @)]
    BY DEF entry
  <2> HIDE DEF y
  <2> QED
    BY <2>1
<1> HIDE DEF y
<1>4. all \in Partial(Docs, CachedDoc)
  <2>1. y.updates \in Partial(Docs, CachedDoc)
    BY <1>2, FieldTypes
  <2> QED
    BY <2>1, OverPartial
<1> HIDE DEF all
<1>5. Typed(x) /\ Only(x, y, {"updates"})
  <2> DEFINE w == [y EXCEPT !.updates = all]
  <2>1. Typed(w) /\ Only(w, y, {"updates"})
    BY <1>2, <1>4, SetUpdatesTyped
  <2>2. x = w
    BY <1>3
  <2> HIDE DEF w
  <2> QED
    BY <2>1, <2>2
<1> QED
  BY <1>2, <1>5 DEF Gathered, Only

LEMMA AddDocumentTyped ==
    ASSUME NEW c, Typed(c), NEW t \in Watched, NEW d \in t.docs, NEW doc \in CachedDoc
    PROVE  Gathered(c, AddDocument(c, t, d, doc))
<1> DEFINE kind == IF d \in RemoteKeys(c, t) THEN "Modified" ELSE "Added"
           changes == With(Entry(c, t).changes, d, kind)
           update == [x \in {d} |-> doc]
<1>1. CASE ~IsActiveTarget(c, t)
  BY <1>1, GatheredSame DEF AddDocument
<1>2. CASE IsActiveTarget(c, t)
  <2>1. Entry(c, t).changes \in Partial(Docs, Change) /\ DOMAIN Entry(c, t).changes \subseteq t.docs
    BY EntryTyped DEF EntryType
  <2>2. d \in Docs
    BY RemoteKeysTyped
  <2>3. kind \in Change
    BY DEF Change
  <2>4. AddDocument(c, t, d, doc)
          = [WithEntry(c, t, [Entry(c, t) EXCEPT !.changes = changes])
                EXCEPT !.updates = Over(update, @)]
    <3>1. Entry(c, t) \in EntryType
      BY EntryTyped
    <3>2. [Entry(c, t) EXCEPT !.changes = With(@, d, kind)]
            = [Entry(c, t) EXCEPT !.changes = changes]
      BY <3>1 DEF EntryType
    <3> QED
      BY <1>2, <3>2 DEF AddDocument, With
  <2> HIDE DEF kind
  <2>5. changes \in Partial(Docs, Change)
    BY <2>1, <2>2, <2>3, WithPartial
  <2>6. DOMAIN changes \subseteq t.docs
    BY <2>1 DEF With, Over
  <2>7. update \in Partial(Docs, CachedDoc)
    BY <2>2, OnePartial
  <2> HIDE DEF changes, update
  <2> QED
    BY <2>4, <2>5, <2>6, <2>7, GatherTyped
<1> QED
  BY <1>1, <1>2

LEMMA RemoveDocumentTyped ==
    ASSUME NEW c, Typed(c), NEW t \in Watched, NEW d \in t.docs,
           NEW update \in Partial(Docs, CachedDoc)
    PROVE  Gathered(c, RemoveDocument(c, t, d, update))
<1> DEFINE without == IF d \in RemoteKeys(c, t) THEN With(Entry(c, t).changes, d, "Removed")
                      ELSE Without(Entry(c, t).changes, d)
<1>1. CASE ~IsActiveTarget(c, t)
  BY <1>1, GatheredSame DEF RemoveDocument
<1>2. CASE IsActiveTarget(c, t)
  <2>1. Entry(c, t).changes \in Partial(Docs, Change) /\ DOMAIN Entry(c, t).changes \subseteq t.docs
    BY EntryTyped DEF EntryType
  <2>2. d \in Docs /\ "Removed" \in Change
    BY RemoteKeysTyped DEF Change
  <2>3. RemoveDocument(c, t, d, update)
          = [WithEntry(c, t, [Entry(c, t) EXCEPT !.changes = without])
                EXCEPT !.updates = Over(update, @)]
    BY <1>2 DEF RemoveDocument
  <2>4. /\ With(Entry(c, t).changes, d, "Removed") \in Partial(Docs, Change)
        /\ Without(Entry(c, t).changes, d) \in Partial(Docs, Change)
    BY <2>1, <2>2, WithPartial, WithoutPartial
  <2>5. DOMAIN without \subseteq t.docs
    BY <2>1 DEF With, Over, Without, Restrict
  <2>6. without \in Partial(Docs, Change)
    BY <2>4
  <2> HIDE DEF without
  <2> QED
    BY <2>3, <2>5, <2>6, GatherTyped
<1> QED
  BY <1>1, <1>2

LEMMA ResetTargetTyped ==
    ASSUME NEW c, Typed(c), NEW t \in Watched
    PROVE  Gathered(c, ResetTarget(c, t))
<1> DEFINE start == Require(WithEntry(c, t, NewEntry),
                            t \in DOMAIN c.agg /\ Entry(c, t).outstanding = 0)
           S == RemoteKeys(c, t)
           p == [goal |-> "types", of |-> "reset", from |-> c, target |-> t]
<1>1. NewEntry \in EntryType /\ DOMAIN NewEntry.changes \subseteq t.docs
  <2>1. <<>> \in Partial(Docs, Change) /\ DOMAIN <<>> = {}
    BY PartialNone
  <2> QED
    BY <2>1 DEF NewEntry, EntryType
<1>2. Gathered(c, start)
  <2>1. Typed(WithEntry(c, t, NewEntry)) /\ Only(WithEntry(c, t, NewEntry), c, {"agg"})
    BY <1>1, WithEntryTyped
  <2>2. Typed(start) /\ Only(start, WithEntry(c, t, NewEntry), {"broken"})
    BY <2>1, RequireTyped
  <2> QED
    BY <2>1, <2>2 DEF Gathered, Only
<1> HIDE DEF start
<1>3. S \subseteq t.docs /\ S \subseteq Docs
  BY RemoteKeysTyped
<1>4. IsFiniteSet(S)
  BY <1>3, DocsAssumption, FS_Subset
<1>5. <<>> \in Partial(Docs, CachedDoc)
  BY PartialNone
<1> HIDE DEF S
<1>6. FoldInv(p, {}, start)
  BY <1>2 DEF FoldInv, TypesKept
<1>7. ASSUME NEW r \in SUBSET S, NEW x \in S \ r, NEW y, FoldInv(p, r, y)
      PROVE  FoldInv(p, r \cup {x}, FoldStep(p, x, y))
  <2>1. Gathered(c, y) /\ Typed(y) /\ x \in t.docs
    BY <1>3, <1>7 DEF FoldInv, TypesKept, Gathered
  <2>2. Gathered(y, RemoveDocument(y, t, x, <<>>))
    BY <1>5, <2>1, RemoveDocumentTyped
  <2>3. Gathered(c, RemoveDocument(y, t, x, <<>>))
    BY <2>1, <2>2, GatheredTrans
  <2> QED
    BY <2>3 DEF FoldInv, TypesKept, FoldStep
<1>8. FoldInv(p, S, FoldedSet(p, start, S))
  BY <1>4, <1>6, <1>7, FoldKeeps
<1>9. ResetTarget(c, t) = FoldedSet(p, start, S)
  BY DEF ResetTarget, FoldSet, MapThenFoldSet, FoldedSet, FoldStep, start, S
<1> QED
  BY <1>8, <1>9 DEF FoldInv, TypesKept

LEMMA HandleFilterTyped ==
    ASSUME NEW c, Typed(c), NEW t \in Watched, NEW count
    PROVE  /\ Typed(HandleFilter(c, t, count))
           /\ Only(HandleFilter(c, t, count), c, {"agg", "updates", "broken", "resets"})
<1> DEFINE x == HandleFilter(c, t, count)
           gone == [d \in {TheDoc(t)} |-> Unknown]
           y == ResetTarget(c, t)
           z == [y EXCEPT !.resets = @ \cup {t}]
<1>1. x = c \/ (t # Query /\ x = RemoveDocument(c, t, TheDoc(t), gone)) \/ x = z
  BY DEF HandleFilter
<1>2. CASE x = c
  BY <1>2, OnlySame
<1>3. CASE t # Query /\ x = RemoveDocument(c, t, TheDoc(t), gone)
  <2>1. TheDoc(t) \in Docs /\ TheDoc(t) \in t.docs
    BY <1>3, LookupIs DEF Watched
  <2>2. Unknown \in CachedDoc
    BY BoundsAssumption DEF Unknown, CachedDoc, Values, Versions
  <2>3. gone \in Partial(Docs, CachedDoc)
    BY <2>1, <2>2, OnePartial
  <2>4. Gathered(c, RemoveDocument(c, t, TheDoc(t), gone))
    BY <2>1, <2>3, RemoveDocumentTyped
  <2> QED
    BY <1>3, <2>4 DEF Gathered, Only
<1>4. CASE x = z
  <2>1. Gathered(c, y)
    BY ResetTargetTyped
  <2> HIDE DEF y
  <2>2. Only(z, y, {"resets"}) /\ z["resets"] = y.resets \cup {t}
    BY <2>1 DEF Gathered, Only, Typed, Shape, Fields
  <2> HIDE DEF z
  <2>3. y.resets \in SUBSET Watched
    BY <2>1, FieldTypes DEF Gathered
  <2>4. Typed(z)
    BY <2>1, <2>2, <2>3, TypedOnly, ClientIs DEF Fields, Gathered
  <2> QED
    BY <1>4, <2>1, <2>2, <2>4 DEF Gathered, Only
<1> QED
  BY <1>1, <1>2, <1>3, <1>4

LEMMA SynthesizedTyped ==
    ASSUME NEW c, Typed(c), NEW version \in Versions
    PROVE  Gathered(c, Synthesized(c, version))
<1> DEFINE S == {t \in DOMAIN c.agg : /\ IsActiveTarget(c, t) /\ t # Query
                                      /\ Entry(c, t).current
                                      /\ TheDoc(t) \notin DOMAIN c.updates
                                      /\ TheDoc(t) \notin RemoteKeys(c, t)}
           p == [goal |-> "types", of |-> "find", from |-> c, version |-> version]
<1>1. S \subseteq Lookup /\ IsFiniteSet(S)
  <2>1. c.agg \in Partial(Watched, EntryType)
    BY FieldTypes DEF Aggregator
  <2>2. DOMAIN c.agg \subseteq Watched /\ IsFiniteSet(DOMAIN c.agg)
    BY <2>1, PartialIs
  <2> QED
    BY <2>2, FS_Subset DEF Watched
<1>3. DeletedAt(version) \in CachedDoc
  BY DEF DeletedAt, CachedDoc, Values
<1>4. FoldInv(p, {}, c)
  BY GatheredSame DEF FoldInv, TypesKept
<1>5. Synthesized(c, version) = FoldedSet(p, c, S)
  BY DEF Synthesized, FoldSet, MapThenFoldSet, FoldedSet, FoldStep, DeletedAt
<1> HIDE DEF S
<1>6. ASSUME NEW r \in SUBSET S, NEW t \in S \ r, NEW y, FoldInv(p, r, y)
      PROVE  FoldInv(p, r \cup {t}, FoldStep(p, t, y))
  <2> DEFINE update == [d \in {TheDoc(t)} |-> DeletedAt(version)]
  <2>1. Gathered(c, y) /\ Typed(y)
    BY <1>6 DEF FoldInv, TypesKept, Gathered
  <2>2. t \in Lookup
    BY <1>1
  <2>3. t \in Watched /\ TheDoc(t) \in Docs /\ TheDoc(t) \in t.docs
    BY <2>2, LookupIs
  <2>4. update \in Partial(Docs, CachedDoc)
    BY <1>3, <2>3, OnePartial
  <2>5. FoldStep(p, t, y) = RemoveDocument(y, t, TheDoc(t), update)
    BY DEF FoldStep
  <2> HIDE DEF update
  <2>6. Gathered(y, RemoveDocument(y, t, TheDoc(t), update))
    BY <2>1, <2>3, <2>4, RemoveDocumentTyped
  <2>7. Gathered(c, RemoveDocument(y, t, TheDoc(t), update))
    BY <2>1, <2>6, GatheredTrans
  <2> QED
    BY <2>5, <2>7 DEF FoldInv, TypesKept
<1>7. FoldInv(p, S, FoldedSet(p, c, S))
  BY <1>1, <1>4, <1>6, FoldKeeps
<1> QED
  BY <1>5, <1>7 DEF FoldInv, TypesKept, Gathered

-----------------------------------------------------------------------------
(* Remote events. *)

LookFrom(c, changes) == [goal |-> "types", of |-> "look", from |-> c, changes |-> changes]

LEMMA LookedIs ==
    ASSUME NEW c, NEW changes
    PROVE  Looked(c, changes)
             = FoldedSet(LookFrom(c, changes), c, {t \in DOMAIN changes : t \in Range(c.limbo)})
BY DEF Looked, FoldSet, MapThenFoldSet, FoldedSet, FoldStep, LookFrom

LEMMA SetReceivedTyped ==
    ASSUME NEW c, Typed(c), NEW received \in SUBSET Lookup
    PROVE  /\ Typed([c EXCEPT !.received = received])
           /\ Only([c EXCEPT !.received = received], c, {"received"})
           /\ [c EXCEPT !.received = received].received = received
<1> DEFINE x == [c EXCEPT !.received = received]
<1>1. Only(x, c, {"received"}) /\ x["received"] = received
  BY DEF Only, Typed, Shape, Fields
<1> HIDE DEF x
<1>2. Typed(x)
  BY <1>1, TypedOnly, ClientIs DEF Fields
<1> QED
  BY <1>1, <1>2 DEF x

LEMMA LookStepTyped ==
    ASSUME NEW c, Typed(c), NEW p, p.of = "look", NEW t \in Lookup
    PROVE  Typed(FoldStep(p, t, c)) /\ Only(FoldStep(p, t, c), c, {"received", "broken"})
<1> DEFINE a == [c EXCEPT !.received = @ \cup {t}]
           y == Require(c, t \in c.received)
           b == [y EXCEPT !.received = @ \ {t}]
<1>1. Typed(y) /\ Only(y, c, {"broken"})
  BY RequireTyped
<1>2. FoldStep(p, t, c) \in {a, y, b, c}
  BY DEF FoldStep
<1>3. Typed(a) /\ Only(a, c, {"received"})
  <2>1. c.received \cup {t} \in SUBSET Lookup
    BY FieldTypes
  <2> QED
    BY <2>1, SetReceivedTyped
<1> HIDE DEF y
<1>4. Typed(b) /\ Only(b, y, {"received"})
  <2>1. y.received \ {t} \in SUBSET Lookup
    BY <1>1, FieldTypes
  <2> QED
    BY <1>1, <2>1, SetReceivedTyped
<1> HIDE DEF a, b
<1> QED
  BY <1>1, <1>2, <1>3, <1>4, OnlySame DEF Only

LEMMA LookupsOf ==
    ASSUME NEW c, Typed(c)
    PROVE  Range(c.limbo) \subseteq Lookup
<1>1. c.limbo \in Partial(Docs, Lookup)
  BY FieldTypes
<1> QED
  BY <1>1, PartialIs DEF Range

LEMMA LookedTyped ==
    ASSUME NEW c, Typed(c), NEW changes, IsFiniteSet(DOMAIN changes)
    PROVE  Typed(Looked(c, changes)) /\ Only(Looked(c, changes), c, {"received", "broken"})
<1> DEFINE S == {t \in DOMAIN changes : t \in Range(c.limbo)}
           p == LookFrom(c, changes)
<1>1. S \subseteq Lookup
  BY LookupsOf
<1>2. IsFiniteSet(S)
  BY FS_Subset
<1>3. FoldInv(p, {}, c)
  BY OnlySame DEF FoldInv, TypesKept, Looks, LookFrom
<1> HIDE DEF S
<1>4. ASSUME NEW r \in SUBSET S, NEW t \in S \ r, NEW y, FoldInv(p, r, y)
      PROVE  FoldInv(p, r \cup {t}, FoldStep(p, t, y))
  <2>1. Typed(y) /\ Only(y, c, {"received", "broken"}) /\ t \in Lookup
    BY <1>1, <1>4 DEF Looks, FoldInv, TypesKept, LookFrom
  <2>2. Typed(FoldStep(p, t, y)) /\ Only(FoldStep(p, t, y), y, {"received", "broken"})
    BY <2>1, LookStepTyped DEF LookFrom
  <2> QED
    BY <2>1, <2>2 DEF Looks, Only, FoldInv, TypesKept, LookFrom
<1>5. FoldInv(p, S, FoldedSet(p, c, S))
  BY <1>2, <1>3, <1>4, FoldKeeps
<1> QED
  BY <1>5, LookedIs DEF FoldInv, TypesKept, LookFrom, Looks, S

LEMMA UpdateCacheTyped ==
    ASSUME NEW c, Typed(c), NEW updates \in Partial(Docs, CachedDoc)
    PROVE  /\ Typed(UpdateCache(c, updates))
           /\ Only(UpdateCache(c, updates), c, {"cache", "leftOut"})
<1> DEFINE x == UpdateCache(c, updates)
           news(d) == \/ c.cache[d].version = 0
                      \/ updates[d].version > c.cache[d].version
                      \/ updates[d].version = c.cache[d].version /\ c.cache[d].committed
           replaced == {d \in DOMAIN updates : updates[d].version = 0 \/ news(d)}
           cache == [d \in Docs |-> IF d \in replaced THEN updates[d] ELSE c.cache[d]]
           leftOut == c.leftOut \ replaced
<1>1. Only(x, c, {"cache", "leftOut"}) /\ x["cache"] = cache /\ x["leftOut"] = leftOut
  <2>1. x = [c EXCEPT !.cache = cache, !.leftOut = leftOut]
    BY DEF UpdateCache
  <2> HIDE DEF x, cache, leftOut
  <2> QED
    BY <2>1 DEF Only, Typed, Shape, Fields
<1>2. c.cache \in [Docs -> CachedDoc] /\ \A d \in DOMAIN updates : updates[d] \in CachedDoc
  BY FieldTypes, PartialIs
<1>3. replaced \subseteq DOMAIN updates
  OBVIOUS
<1> HIDE DEF x, replaced
<1>4. cache \in [Docs -> CachedDoc]
  BY <1>2, <1>3
<1>5. leftOut \in SUBSET Docs
  BY FieldTypes
<1> HIDE DEF cache, leftOut
<1>6. Typed(x)
  BY <1>1, <1>4, <1>5, TypedOnly, ClientIs DEF Fields
<1> QED
  BY <1>1, <1>6 DEF x

LEMMA SaveTargetTyped ==
    ASSUME NEW c, Typed(c), NEW changes \in Partial(Watched, ChangeType),
           Query \in DOMAIN changes => Query \in DOMAIN c.listening,
           NEW resets, NEW old, NEW late
    PROVE  /\ Typed(SaveTarget(c, changes, resets, old, late))
           /\ Only(SaveTarget(c, changes, resets, old, late), c,
                   {"keys", "limboFree", "token", "savedFree"})
<1> DEFINE x == SaveTarget(c, changes, resets, old, late)
           change == changes[Query]
           keys == (c.keys \ change.removed) \cup change.added
           free == IF Query \in resets THEN 0 ELSE c.limboFree
           saved == [c EXCEPT !.keys = keys, !.limboFree = free]
           both == [saved EXCEPT !.token = c.listening[Query], !.savedFree = saved.limboFree]
<1>1. CASE Query \notin DOMAIN changes
  BY <1>1, OnlySame DEF SaveTarget
<1>2. CASE Query \in DOMAIN changes
  <2>1. x \in {saved, both}
    BY <1>2 DEF SaveTarget
  <2>2. change \in ChangeType /\ c.keys \in SUBSET Docs
    BY <1>2, PartialIs, FieldTypes
  <2>3. keys \in SUBSET Docs
    BY <2>2 DEF ChangeType
  <2>4. c.listening[Query] \in Versions /\ free \in Versions
    BY <1>2, FieldTypes, PartialIs, BoundsAssumption DEF Versions
  <2> HIDE DEF keys, free, x
  <2>5. Only(saved, c, {"keys", "limboFree"}) /\ saved["keys"] = keys /\ saved["limboFree"] = free
    BY DEF Only, Typed, Shape, Fields
  <2> HIDE DEF saved
  <2>6. Typed(saved)
    BY <2>3, <2>4, <2>5, TypedOnly, ClientIs DEF Fields
  <2>7. /\ Only(both, saved, {"token", "savedFree"})
        /\ both["token"] = c.listening[Query] /\ both["savedFree"] = free
    BY <2>5, <2>6 DEF Only, Typed, Shape, Fields
  <2> HIDE DEF both
  <2>8. Typed(both)
    BY <2>4, <2>6, <2>7, TypedOnly, ClientIs DEF Fields
  <2>9. Typed(x) /\ Only(x, c, {"keys", "limboFree", "token", "savedFree"})
    BY <2>1, <2>5, <2>6, <2>7, <2>8 DEF Only
  <2> QED
    BY <2>9 DEF x
<1> QED
  BY <1>1, <1>2

EventType == [version : Versions, changes : Partial(Watched, ChangeType),
              resets : SUBSET Watched, updates : Partial(Docs, CachedDoc)]

LEMMA ApplyRemoteEventTyped ==
    ASSUME NEW c, Typed(c), NEW event \in EventType,
           DOMAIN event.changes \subseteq DOMAIN c.listening, NEW old, NEW late
    PROVE  /\ Typed(ApplyRemoteEvent(c, event, old, late))
           /\ ViewLocal(ApplyRemoteEvent(c, event, old, late))
           /\ ApplyRemoteEvent(c, event, old, late).on = c.on
           /\ (Query \in DOMAIN c.listening =>
                  Query \in DOMAIN ApplyRemoteEvent(c, event, old, late).listening)
<1> DEFINE looked == Looked(c, event.changes)
           saved == SaveTarget(looked, event.changes, event.resets, old, late)
           stored == UpdateCache(saved, event.updates)
           required == Require(stored, event.version >= c.lastSnap)
           dated == [required EXCEPT !.lastSnap = event.version]
           versioned == IF event.version = 0 THEN stored ELSE dated
           change == IF Query \in DOMAIN event.changes THEN event.changes[Query] ELSE NoChange(c)
<1>1. ApplyRemoteEvent(c, event, old, late) = Emit(versioned, change)
  BY DEF ApplyRemoteEvent
<1>2. /\ event.version \in Versions /\ event.changes \in Partial(Watched, ChangeType)
      /\ event.updates \in Partial(Docs, CachedDoc)
  BY DEF EventType
<1>3. Typed(looked) /\ Only(looked, c, {"received", "broken"})
  BY <1>2, PartialIs, LookedTyped
<1> HIDE DEF looked
<1>4. looked.listening = c.listening
  BY <1>3 DEF Only, Fields
<1>5. Typed(saved) /\ Only(saved, looked, {"keys", "limboFree", "token", "savedFree"})
  BY <1>2, <1>3, <1>4, SaveTargetTyped
<1> HIDE DEF saved
<1>6. Typed(stored) /\ Only(stored, saved, {"cache", "leftOut"})
  BY <1>2, <1>5, UpdateCacheTyped
<1> HIDE DEF stored
<1>7. Typed(required) /\ Only(required, stored, {"broken"})
  BY <1>6, RequireTyped
<1> HIDE DEF required
<1>8. Only(dated, required, {"lastSnap"}) /\ dated["lastSnap"] = event.version
  BY <1>7 DEF Only, Typed, Shape, Fields
<1> HIDE DEF dated
<1>9. Typed(dated)
  BY <1>2, <1>7, <1>8, TypedOnly, ClientIs DEF Fields
<1>10. /\ Typed(versioned)
       /\ Only(versioned, c, {"received", "broken", "keys", "limboFree", "token", "savedFree",
                              "cache", "leftOut", "lastSnap"})
  BY <1>3, <1>5, <1>6, <1>7, <1>8, <1>9 DEF Only
<1>11. change \in ChangeType
  BY <1>2, PartialIs, NoChangeTyped
<1> HIDE DEF versioned, change
<1>12. versioned.on = c.on /\ versioned.listening = c.listening
  BY <1>10 DEF Only, Fields
<1> QED
  BY <1>1, <1>10, <1>11, <1>12, EmitTyped

LEMMA RewatchTyped ==
    ASSUME NEW c, Typed(c), NEW t \in DOMAIN c.listening
    PROVE  Rewatches(c, Rewatch(t, c))
<1> DEFINE listening == [c.listening EXCEPT ![t] = 0]
           y == [c EXCEPT !.listening = listening]
           z == Send(y, t, FALSE, 0)
           x == Send(z, t, TRUE, 0)
<1>1. Rewatch(t, c) = x
  BY DEF Rewatch
<1>2. c.listening \in Partial(Watched, Versions)
  BY FieldTypes
<1>3. /\ DOMAIN c.listening \subseteq Watched /\ IsFiniteSet(DOMAIN c.listening)
      /\ \A u \in DOMAIN c.listening : c.listening[u] \in Versions
  BY <1>2, PartialIs
<1>4. t \in Watched /\ 0 \in Versions /\ FALSE \in BOOLEAN /\ TRUE \in BOOLEAN
  BY <1>3, BoundsAssumption DEF Versions
<1>5. listening \in [DOMAIN c.listening -> Versions]
  BY <1>3, <1>4
<1>6. listening \in Partial(Watched, Versions) /\ DOMAIN listening = DOMAIN c.listening
  BY <1>3, <1>5, PartialOf
<1> HIDE DEF listening
<1>7. Only(y, c, {"listening"}) /\ y["listening"] = listening
  BY DEF Only, Typed, Shape, Fields
<1> HIDE DEF y
<1>8. Typed(y)
  BY <1>6, <1>7, TypedOnly, ClientIs DEF Fields
<1>9. Typed(z) /\ Only(z, y, {"agg", "requests", "idle"})
  BY <1>4, <1>8, SendTyped
<1> HIDE DEF z
<1>10. Typed(x) /\ Only(x, z, {"agg", "requests", "idle"})
  BY <1>4, <1>9, SendTyped
<1> HIDE DEF x
<1>11. Only(x, c, {"listening", "agg", "requests", "idle"}) /\ x.listening = y.listening
  BY <1>7, <1>9, <1>10 DEF Only, Fields
<1> QED
  BY <1>1, <1>6, <1>7, <1>10, <1>11 DEF Rewatches

LEMMA RewatchAll ==
    ASSUME NEW c, Typed(c), NEW S \in SUBSET DOMAIN c.listening
    PROVE  Rewatches(c, FoldSet(Rewatch, c, S))
<1> DEFINE p == [goal |-> "types", of |-> "rewatch", from |-> c]
<1>1. c.listening \in Partial(Watched, Versions)
  BY FieldTypes
<1>2. IsFiniteSet(S)
  BY <1>1, PartialIs, FS_Subset
<1>4. FoldInv(p, {}, c)
  BY OnlySame DEF Rewatches, FoldInv, TypesKept
<1>5. ASSUME NEW r \in SUBSET S, NEW t \in S \ r, NEW y, FoldInv(p, r, y)
      PROVE  FoldInv(p, r \cup {t}, FoldStep(p, t, y))
  <2>1. Rewatches(c, y) /\ Typed(y) /\ t \in DOMAIN y.listening
    BY <1>5 DEF Rewatches, FoldInv, TypesKept
  <2>2. Rewatches(y, Rewatch(t, y))
    BY <2>1, RewatchTyped
  <2>3. Rewatches(c, Rewatch(t, y))
    BY <2>1, <2>2 DEF Rewatches, Only
  <2> QED
    BY <2>3 DEF FoldInv, TypesKept, FoldStep
<1>6. FoldInv(p, S, FoldedSet(p, c, S))
  BY <1>2, <1>4, <1>5, FoldKeeps
<1>7. FoldSet(Rewatch, c, S) = FoldedSet(p, c, S)
  BY DEF FoldSet, MapThenFoldSet, FoldedSet, FoldStep
<1> QED
  BY <1>6, <1>7 DEF FoldInv, TypesKept

LEMMA TargetChangeTyped ==
    ASSUME NEW entry \in EntryType, NEW token \in Versions
    PROVE  TargetChange(entry, token) \in ChangeType
<1>1. entry.changes \in Partial(Docs, Change) /\ entry.current \in BOOLEAN
  BY DEF EntryType
<1>2. DOMAIN entry.changes \subseteq Docs
  BY <1>1, PartialIs
<1> QED
  BY <1>1, <1>2 DEF TargetChange, ChangeType, OfType

\* The parts of RaiseWatchSnapshot: what the active targets bring, ...
Active(s) == {t \in DOMAIN s.agg : IsActiveTarget(s, t)}
EventOf(s, version) ==
    [version |-> version, updates |-> s.updates, resets |-> s.resets,
     changes |-> [t \in Active(s) |-> TargetChange(s.agg[t], version)]]

\* ... and what is left when it is taken.
Taken(s, version) ==
    [s EXCEPT !.updates = <<>>, !.resets = {},
              !.agg = [t \in DOMAIN @ |->
                          IF t \in Active(s) THEN [@[t] EXCEPT !.changes = <<>>] ELSE @[t]],
              !.listening = [t \in DOMAIN @ |-> IF t \in Active(s) THEN version ELSE @[t]]]

LEMMA RaiseWatchSnapshotIs ==
    ASSUME NEW c, NEW version, NEW late
    PROVE  LET s == Synthesized(c, version)
               old == IF Query \in DOMAIN c.listening THEN c.listening[Query] ELSE 0
           IN  RaiseWatchSnapshot(c, version, late)
                 = ApplyRemoteEvent(FoldSet(Rewatch, Taken(s, version),
                                            s.resets \cap DOMAIN s.listening),
                                    EventOf(s, version), old, late)
BY DEF RaiseWatchSnapshot, Active, EventOf, Taken

LEMMA EventOfTyped ==
    ASSUME NEW s, Typed(s), NEW version \in Versions
    PROVE  EventOf(s, version) \in EventType
           /\ DOMAIN EventOf(s, version).changes = Active(s)
           /\ Active(s) \subseteq DOMAIN s.listening
<1> DEFINE changes == [t \in Active(s) |-> TargetChange(s.agg[t], version)]
<1>1. s.agg \in Partial(Watched, EntryType)
  BY FieldTypes DEF Aggregator
<1>2. /\ DOMAIN s.agg \subseteq Watched /\ IsFiniteSet(DOMAIN s.agg)
      /\ \A t \in DOMAIN s.agg : s.agg[t] \in EntryType
  BY <1>1, PartialIs
<1>3. Active(s) \subseteq DOMAIN s.agg /\ Active(s) \subseteq DOMAIN s.listening
  BY DEF Active, IsActiveTarget
<1>4. Active(s) \in SUBSET Watched /\ IsFiniteSet(Active(s))
  BY <1>2, <1>3, FS_Subset
<1>5. changes \in [Active(s) -> ChangeType]
  BY <1>2, <1>3, TargetChangeTyped
<1>6. changes \in Partial(Watched, ChangeType)
  BY <1>4, <1>5, PartialOf
<1>7. DOMAIN changes = Active(s)
  OBVIOUS
<1>8. EventOf(s, version) = [version |-> version, updates |-> s.updates, resets |-> s.resets,
                             changes |-> changes]
  BY DEF EventOf
<1> HIDE DEF changes
<1>9. s.updates \in Partial(Docs, CachedDoc) /\ s.resets \in SUBSET Watched
  BY FieldTypes
<1> QED
  BY <1>3, <1>6, <1>7, <1>8, <1>9 DEF EventType

LEMMA TakenTyped ==
    ASSUME NEW s, Typed(s), NEW version \in Versions
    PROVE  /\ Typed(Taken(s, version))
           /\ Only(Taken(s, version), s, {"updates", "resets", "agg", "listening"})
           /\ Taken(s, version).updates = <<>> /\ Taken(s, version).resets = {}
           /\ Taken(s, version).agg
                = [t \in DOMAIN s.agg |->
                      IF t \in Active(s) THEN [s.agg[t] EXCEPT !.changes = <<>>] ELSE s.agg[t]]
           /\ Taken(s, version).listening
                = [t \in DOMAIN s.listening |->
                      IF t \in Active(s) THEN version ELSE s.listening[t]]
<1> DEFINE agg == [t \in DOMAIN s.agg |->
                      IF t \in Active(s) THEN [s.agg[t] EXCEPT !.changes = <<>>] ELSE s.agg[t]]
           listening == [t \in DOMAIN s.listening |->
                            IF t \in Active(s) THEN version ELSE s.listening[t]]
           x == Taken(s, version)
<1>1. x = [s EXCEPT !.updates = <<>>, !.resets = {}, !.agg = agg, !.listening = listening]
  BY DEF Taken
<1>2. s.agg \in Partial(Watched, EntryType) /\ s.listening \in Partial(Watched, Versions)
      /\ \A u \in DOMAIN s.agg : DOMAIN s.agg[u].changes \subseteq u.docs
  BY FieldTypes DEF Aggregator
<1>3. <<>> \in Partial(Docs, Change) /\ <<>> \in Partial(Docs, CachedDoc) /\ DOMAIN <<>> = {}
  BY PartialNone
<1>4. agg \in Aggregator
  <2>1. /\ DOMAIN s.agg \in SUBSET Watched /\ IsFiniteSet(DOMAIN s.agg)
        /\ \A t \in DOMAIN s.agg : s.agg[t] \in EntryType
    BY <1>2, PartialIs
  <2>2. \A t \in DOMAIN s.agg : agg[t] \in EntryType /\ DOMAIN agg[t].changes \subseteq t.docs
    <3> TAKE t \in DOMAIN s.agg
    <3>1. s.agg[t] \in EntryType /\ DOMAIN s.agg[t].changes \subseteq t.docs
      BY <1>2, <2>1
    <3>2. agg[t] \in {s.agg[t], [s.agg[t] EXCEPT !.changes = <<>>]}
      OBVIOUS
    <3> HIDE DEF agg
    <3> QED
      BY <1>3, <3>1, <3>2 DEF EntryType
  <2>3. agg \in [DOMAIN s.agg -> EntryType]
    BY <2>2
  <2>4. DOMAIN agg = DOMAIN s.agg
    OBVIOUS
  <2> HIDE DEF agg
  <2>5. agg \in Partial(Watched, EntryType)
    BY <2>1, <2>3, PartialOf
  <2> QED
    BY <2>2, <2>4, <2>5 DEF Aggregator
<1>5. listening \in Partial(Watched, Versions)
  <2>1. /\ DOMAIN s.listening \in SUBSET Watched /\ IsFiniteSet(DOMAIN s.listening)
        /\ \A t \in DOMAIN s.listening : s.listening[t] \in Versions
    BY <1>2, PartialIs
  <2>2. listening \in [DOMAIN s.listening -> Versions]
    BY <2>1
  <2> HIDE DEF listening
  <2> QED
    BY <2>1, <2>2, PartialOf
<1> HIDE DEF agg, listening, x
<1>6. /\ Only(x, s, {"updates", "resets", "agg", "listening"})
      /\ x["updates"] = <<>> /\ x["resets"] = {} /\ x["agg"] = agg /\ x["listening"] = listening
  BY <1>1 DEF Only, Typed, Shape, Fields
<1>7. Typed(x)
  <2>1. /\ x["updates"] \in Client_["updates"] /\ x["resets"] \in Client_["resets"]
        /\ x["agg"] \in Client_["agg"] /\ x["listening"] \in Client_["listening"]
    BY <1>3, <1>4, <1>5, <1>6, ClientIs
  <2> QED
    BY <1>6, <2>1, TypedOnly DEF Fields
<1>8. x.updates = <<>> /\ x.resets = {} /\ x.agg = agg /\ x.listening = listening
  BY <1>6
<1> QED
  BY <1>6, <1>7, <1>8 DEF x, agg, listening

LEMMA RaiseWatchSnapshotTyped ==
    ASSUME NEW c, Typed(c), NEW version \in Versions, NEW late
    PROVE  /\ Typed(RaiseWatchSnapshot(c, version, late))
           /\ ViewLocal(RaiseWatchSnapshot(c, version, late))
           /\ RaiseWatchSnapshot(c, version, late).on = c.on
           /\ (Query \in DOMAIN c.listening =>
                  Query \in DOMAIN RaiseWatchSnapshot(c, version, late).listening)
<1> DEFINE s == Synthesized(c, version)
           old == IF Query \in DOMAIN c.listening THEN c.listening[Query] ELSE 0
           taken == Taken(s, version)
           again == FoldSet(Rewatch, taken, s.resets \cap DOMAIN s.listening)
           event == EventOf(s, version)
<1>1. RaiseWatchSnapshot(c, version, late) = ApplyRemoteEvent(again, event, old, late)
  BY RaiseWatchSnapshotIs
<1>2. Typed(s) /\ Only(s, c, {"agg", "updates", "broken"})
  BY SynthesizedTyped DEF Gathered
<1> HIDE DEF s, old
<1>3. /\ event \in EventType /\ DOMAIN event.changes = Active(s)
      /\ Active(s) \subseteq DOMAIN s.listening
  BY <1>2, EventOfTyped
<1> HIDE DEF event
<1>4. /\ Typed(taken) /\ Only(taken, s, {"updates", "resets", "agg", "listening"})
      /\ DOMAIN taken.listening = DOMAIN s.listening
  <2>1. taken.listening = [t \in DOMAIN s.listening |->
                              IF t \in Active(s) THEN version ELSE s.listening[t]]
    BY <1>2, TakenTyped, Zenon
  <2>2. Typed(taken) /\ Only(taken, s, {"updates", "resets", "agg", "listening"})
    BY <1>2, TakenTyped, Zenon
  <2> HIDE DEF taken
  <2> QED
    BY <2>1, <2>2
<1> HIDE DEF taken
<1>5. Rewatches(taken, again)
  <2>1. (s.resets \cap DOMAIN s.listening) \in SUBSET DOMAIN taken.listening
    BY <1>4
  <2> QED
    BY <1>4, <2>1, RewatchAll
<1> HIDE DEF again
<1>6. /\ Typed(again) /\ DOMAIN again.listening = DOMAIN c.listening /\ again.on = c.on
      /\ DOMAIN event.changes \subseteq DOMAIN again.listening
  BY <1>2, <1>3, <1>4, <1>5 DEF Rewatches, Only, Fields
<1> QED
  BY <1>1, <1>3, <1>6, ApplyRemoteEventTyped

\* The query is forgotten: Forget before its lookups go.
Viewed == {"on", "raised", "view", "leftOut", "limboFree"}
Unviewed(c) == [c EXCEPT !.on = FALSE, !.raised = FALSE, !.view = NewView({}),
                        !.leftOut = {}, !.limboFree = 0]

LEMMA UnviewedIs ==
    ASSUME NEW c, Typed(c)
    PROVE  /\ Only(Unviewed(c), c, Viewed)
           /\ Unviewed(c)["on"] = FALSE /\ Unviewed(c)["raised"] = FALSE
           /\ Unviewed(c)["view"] = NewView({})
           /\ Unviewed(c)["leftOut"] = {} /\ Unviewed(c)["limboFree"] = 0
BY DEF Unviewed, Only, Typed, Shape, Fields, Viewed

LEMMA ZeroVersion == 0 \in Versions /\ Missing \in Values /\ Versions \subseteq Nat
BY BoundsAssumption DEF Versions, Values

LEMMA ForgetTyped ==
    ASSUME NEW c, Typed(c)
    PROVE  Typed(Forget(c)) /\ Forget(c).on = FALSE
<1> DEFINE y == Unviewed(c)
<1>1. /\ Only(y, c, Viewed) /\ y["on"] = FALSE /\ y["raised"] = FALSE
      /\ y["view"] = NewView({}) /\ y["leftOut"] = {} /\ y["limboFree"] = 0
  BY UnviewedIs
<1>2. Forget(c) = FoldSet(RemoveLimboTarget, y, c.view.limbo)
  BY DEF Forget, Unviewed
<1> HIDE DEF y
<1>3. NewView({}) \in ViewType
  BY DEF NewView, ViewType, NotShown, ViewDoc, Values
<1>4. Typed(y)
  <2>1. \A f \in Viewed : y[f] \in Client_[f]
    BY <1>1, <1>3, ClientIs, ZeroVersion DEF Viewed
  <2> QED
    BY <1>1, <2>1, TypedOnly DEF Fields, Viewed
<1>5. c.view.limbo \in SUBSET Docs
  BY FieldTypes DEF ViewType
<1>6. Kept(y, FoldSet(RemoveLimboTarget, y, c.view.limbo))
  BY <1>4, <1>5, RemoveAll
<1> QED
  BY <1>1, <1>2, <1>6 DEF Kept, Local

\* The query is watched whenever somebody listens, and shown as it is.
Shown(c) ==
    /\ Typed(c) /\ ViewLocal(c)
    /\ c.on => Query \in DOMAIN c.listening

LEMMA LocalShown ==
    ASSUME NEW c, Shown(c), NEW x, Typed(x), Local(x, c)
    PROVE  Shown(x)
<1>1. ViewLocal(x)
  BY LocalKeepsView DEF Shown
<1> QED
  BY <1>1 DEF Shown, Local

LEMMA ProcessTargetErrorShown ==
    ASSUME NEW c, Shown(c), NEW t \in Watched
    PROVE  Shown(ProcessTargetError(c, t))
<1> DEFINE left == [c EXCEPT !.listening = Without(@, t), !.agg = Without(@, t)]
           quit == [left EXCEPT !.limbo = Without(@, TheDoc(t)), !.received = @ \ {t}]
           event == [version |-> 0, changes |-> <<>>, resets |-> {},
                     updates |-> [d \in {TheDoc(t)} |-> Unknown]]
           kept == [left EXCEPT !.token = c.listening[t], !.savedFree = c.limboFree]
           x == ProcessTargetError(c, t)
<1>1. CASE t \notin DOMAIN c.listening
  BY <1>1 DEF ProcessTargetError
<1>2. CASE t \in DOMAIN c.listening
  <2>1. x = IF t \in Range(c.limbo) THEN ApplyRemoteEvent(quit, event, 0, FALSE) ELSE Forget(kept)
    <3>1. CASE t \in Range(c.limbo)
      <4>1. x = ApplyRemoteEvent(quit, event, 0, FALSE)
        BY <1>2, <3>1, Zenon DEF ProcessTargetError
      <4> HIDE DEF x, quit, event
      <4> QED
        BY <3>1, <4>1
    <3>2. CASE t \notin Range(c.limbo)
      BY <1>2, <3>2 DEF ProcessTargetError
    <3> QED
      BY <3>1, <3>2
  <2>2. /\ Only(left, c, {"listening", "agg"})
        /\ left["listening"] = Without(c.listening, t) /\ left["agg"] = Without(c.agg, t)
    BY DEF Only, Typed, Shape, Fields, Shown
  <2> HIDE DEF left, x
  <2>3. /\ c.listening \in Partial(Watched, Versions) /\ c.agg \in Partial(Watched, EntryType)
        /\ \A u \in DOMAIN c.agg : DOMAIN c.agg[u].changes \subseteq u.docs
    BY FieldTypes DEF Aggregator, Shown
  <2>4. /\ Without(c.listening, t) \in Partial(Watched, Versions)
        /\ Without(c.agg, t) \in Partial(Watched, EntryType)
    BY <2>3, WithoutPartial
  <2>5. Without(c.agg, t) \in Aggregator
    BY <2>3, <2>4 DEF Aggregator, Without, Restrict
  <2>6. Typed(left)
    BY <2>2, <2>4, <2>5, TypedOnly, ClientIs DEF Fields, Shown
  <2>7. CASE t \in Range(c.limbo)
    <3>1. t \in Lookup
      BY <2>7, LookupsOf DEF Shown
    <3>2. t # Query /\ TheDoc(t) \in Docs
      BY <3>1, LookupIs
    <3>3. /\ Only(quit, left, {"limbo", "received"})
          /\ quit["limbo"] = Without(left.limbo, TheDoc(t))
          /\ quit["received"] = left.received \ {t}
      BY <2>6 DEF Only, Typed, Shape, Fields
    <3> HIDE DEF quit
    <3>4. left.limbo \in Partial(Docs, Lookup) /\ left.received \in SUBSET Lookup
      BY <2>6, FieldTypes
    <3>5. Without(left.limbo, TheDoc(t)) \in Partial(Docs, Lookup)
      BY <3>4, WithoutPartial
    <3>6. Typed(quit)
      BY <2>6, <3>3, <3>4, <3>5, TypedOnly, ClientIs DEF Fields
    <3>7. quit.on = c.on /\ quit.listening = Without(c.listening, t)
      BY <2>2, <3>3 DEF Only, Fields
    <3>8. event \in EventType /\ DOMAIN event.changes = {}
      <4>1. <<>> \in Partial(Watched, ChangeType) /\ DOMAIN <<>> = {}
        BY PartialNone
      <4>2. Unknown \in CachedDoc /\ 0 \in Versions
        BY BoundsAssumption DEF Unknown, CachedDoc, Values, Versions
      <4>3. [d \in {TheDoc(t)} |-> Unknown] \in Partial(Docs, CachedDoc)
        BY <3>2, <4>2, OnePartial
      <4> QED
        BY <4>1, <4>2, <4>3 DEF EventType
    <3> HIDE DEF event
    <3>9. DOMAIN event.changes \subseteq DOMAIN quit.listening
      BY <3>8
    <3>10. /\ Typed(ApplyRemoteEvent(quit, event, 0, FALSE))
           /\ ViewLocal(ApplyRemoteEvent(quit, event, 0, FALSE))
           /\ ApplyRemoteEvent(quit, event, 0, FALSE).on = quit.on
           /\ (Query \in DOMAIN quit.listening =>
                  Query \in DOMAIN ApplyRemoteEvent(quit, event, 0, FALSE).listening)
      BY <3>6, <3>8, <3>9, ApplyRemoteEventTyped
    <3>11. c.on => Query \in DOMAIN quit.listening
      BY <3>2, <3>7 DEF Shown, Without, Restrict
    <3> QED
      BY <2>1, <2>7, <3>7, <3>10, <3>11 DEF Shown, x
  <2>8. CASE t \notin Range(c.limbo)
    <3>1. c.listening[t] \in Versions /\ c.limboFree \in Versions
      BY <1>2, <2>3, PartialIs, FieldTypes DEF Shown
    <3>2. /\ Only(kept, left, {"token", "savedFree"})
          /\ kept["token"] = c.listening[t] /\ kept["savedFree"] = c.limboFree
      BY <2>6 DEF Only, Typed, Shape, Fields
    <3> HIDE DEF kept
    <3>3. Typed(kept)
      BY <2>6, <3>1, <3>2, TypedOnly, ClientIs DEF Fields
    <3>4. Typed(Forget(kept)) /\ Forget(kept).on = FALSE
      BY <3>3, ForgetTyped
    <3> QED
      BY <2>1, <2>8, <3>4 DEF Shown, ViewLocal, x
  <2> QED
    BY <2>7, <2>8
<1> QED
  BY <1>1, <1>2

-----------------------------------------------------------------------------
(* What the program asks for. *)

LogType == Seq([doc : Docs, content : Values])

\* What every step keeps.
World == Shown(client) /\ log \in LogType /\ Len(log) <= MaxVersions

LEMMA NewViewTyped ==
    ASSUME NEW keys \in SUBSET Docs
    PROVE  NewView(keys) \in ViewType
BY DEF NewView, ViewType, NotShown, ViewDoc, Values

\* The token is saved, with the limbo-free version.
Saving(c, token, free) == [c EXCEPT !.token = token, !.savedFree = free]

LEMMA SavingTyped ==
    ASSUME NEW c, Typed(c), NEW token \in Versions, NEW free \in Versions
    PROVE  /\ Typed(Saving(c, token, free)) /\ Only(Saving(c, token, free), c, {"token", "savedFree"})
           /\ Saving(c, token, free).token = token /\ Saving(c, token, free).savedFree = free
<1> DEFINE x == Saving(c, token, free)
<1>1. Only(x, c, {"token", "savedFree"}) /\ x["token"] = token /\ x["savedFree"] = free
  BY DEF Saving, Only, Typed, Shape, Fields
<1> HIDE DEF x
<1>2. Typed(x)
  BY <1>1, TypedOnly, ClientIs DEF Fields
<1> QED
  BY <1>1, <1>2 DEF x

LEMMA LeftOutIs == \A c : LeftOut(c) \subseteq Docs
BY DEF LeftOut

\* What Listen starts from.
Starting(watched, c) ==
    [watched EXCEPT !.on = TRUE, !.view = NewView(c.keys), !.leftOut = LeftOut(c),
                    !.limboFree = c.savedFree]
StartFields == {"on", "view", "leftOut", "limboFree"}

LEMMA StartingTyped ==
    ASSUME NEW c, Typed(c), NEW watched, Typed(watched)
    PROVE  /\ Typed(Starting(watched, c)) /\ Only(Starting(watched, c), watched, StartFields)
           /\ Starting(watched, c).on = TRUE /\ Starting(watched, c).view = NewView(c.keys)
           /\ Starting(watched, c).leftOut = LeftOut(c)
           /\ Starting(watched, c).limboFree = c.savedFree
<1> DEFINE x == Starting(watched, c)
<1>1. /\ Only(x, watched, StartFields) /\ x["on"] = TRUE /\ x["view"] = NewView(c.keys)
      /\ x["leftOut"] = LeftOut(c) /\ x["limboFree"] = c.savedFree
  BY DEF Starting, Only, Typed, Shape, Fields, StartFields
<1> HIDE DEF x
<1>2. NewView(c.keys) \in ViewType /\ LeftOut(c) \in SUBSET Docs /\ c.savedFree \in Versions
  BY FieldTypes, NewViewTyped, LeftOutIs
<1>3. /\ x["on"] \in Client_["on"] /\ x["view"] \in Client_["view"]
      /\ x["leftOut"] \in Client_["leftOut"] /\ x["limboFree"] \in Client_["limboFree"]
  BY <1>1, <1>2, ClientIs
<1>4. Typed(x)
  BY <1>1, <1>3, TypedOnly DEF Fields, StartFields
<1> QED
  BY <1>1, <1>4 DEF x

\* What is said of a snapshot that was not from the cache.
NoteFields == {"token", "savedFree", "limboFree"}

LEMMA NotifiedTyped ==
    ASSUME NEW c, Typed(c), c.on => Query \in DOMAIN c.listening, NEW late
    PROVE  Typed(Notified(c, late)) /\ Only(Notified(c, late), c, NoteFields)
<1> DEFINE free == c.listening[Query]
           noted == [c EXCEPT !.limboFree = free]
           both == [noted EXCEPT !.token = free, !.savedFree = free]
           x == Notified(c, late)
<1>1. CASE ~c.on
  BY <1>1, OnlySame DEF Notified
<1>2. CASE c.on
  <2>1. x \in {c, noted, both}
    BY DEF Notified
  <2>2. free \in Versions
    BY <1>2, FieldTypes, PartialIs
  <2>3. Only(noted, c, {"limboFree"}) /\ noted["limboFree"] = free
    BY DEF Only, Typed, Shape, Fields
  <2> HIDE DEF free, noted, x
  <2>4. Typed(noted)
    BY <2>2, <2>3, TypedOnly, ClientIs DEF Fields
  <2>5. Only(both, noted, {"token", "savedFree"}) /\ both["token"] = free /\ both["savedFree"] = free
    BY <2>4 DEF Only, Typed, Shape, Fields
  <2> HIDE DEF both
  <2>6. Typed(both)
    BY <2>2, <2>4, <2>5, TypedOnly, ClientIs DEF Fields
  <2>7. Only(c, c, NoteFields) /\ Only(noted, c, NoteFields) /\ Only(both, c, NoteFields)
    BY <2>3, <2>5, OnlySame DEF Only, NoteFields
  <2> QED
    BY <2>1, <2>4, <2>6, <2>7 DEF x
<1> QED
  BY <1>1, <1>2, FieldTypes

LEMMA NotifiedShown ==
    ASSUME NEW c, Shown(c), NEW late
    PROVE  Shown(Notified(c, late)) /\ Only(Notified(c, late), c, NoteFields)
<1>1. Typed(Notified(c, late)) /\ Only(Notified(c, late), c, NoteFields)
  BY NotifiedTyped DEF Shown
<1>2. Local(Notified(c, late), c)
  BY <1>1, LocalOnly DEF NoteFields
<1> QED
  BY <1>1, <1>2, LocalShown

LEMMA NotifyShown ==
    ASSUME NEW c, Shown(c), Notify(c)
    PROVE  Shown(client') /\ log' = log
BY NotifiedShown DEF Notify, Client

\* Only the client changes.
LEMMA NotifyKeeps ==
    ASSUME NEW c, Notify(c)
    PROVE  log' = log /\ UNCHANGED <<listens, faults>>
BY Zenon DEF Notify, Client

LEMMA ListenShown ==
    ASSUME World, Listen
    PROVE  Shown(client') /\ log' = log
<1> DEFINE watched == StartWatching(client, Query, client.token)
           start == Starting(watched, client)
           change == [added |-> {}, modified |-> {}, removed |-> {},
                      current |-> FALSE, token |-> client.token]
<1>1. client' = Emit(start, change) /\ log' = log
  BY DEF Listen, Starting
<1>2. Typed(client) /\ client.token \in Versions /\ client.keys \in SUBSET Docs
  BY FieldTypes DEF World, Shown
<1>3. Query \in Watched
  BY DEF Watched
<1>4. Typed(watched) /\ DOMAIN watched.listening = DOMAIN client.listening \cup {Query}
  BY <1>2, <1>3, StartWatchingTyped
<1> HIDE DEF watched
<1>7. Typed(start) /\ Only(start, watched, StartFields)
  BY <1>2, <1>4, StartingTyped
<1> HIDE DEF start
<1>8. start.listening = watched.listening
  BY <1>7 DEF Only, Fields, StartFields
<1>9. change \in ChangeType
  BY <1>2 DEF ChangeType
<1> HIDE DEF change
<1> QED
  BY <1>1, <1>4, <1>7, <1>8, <1>9, EmitTyped DEF Shown

LEMMA StopListeningShown ==
    ASSUME World, StopListening
    PROVE  Shown(client') /\ log' = log
<1> DEFINE token == client.listening[Query]
           saved == Saving(client, token, client.limboFree)
           left == StopWatching(saved, Query)
<1>1. client' = Forget(left) /\ log' = log
  BY DEF StopListening, Client, Saving
<1>2. Typed(client) /\ Query \in DOMAIN client.listening
  BY DEF World, Shown, StopListening
<1>3. token \in Versions /\ client.limboFree \in Versions
  BY <1>2, FieldTypes, PartialIs
<1>4. Query \in Watched
  BY DEF Watched
<1> HIDE DEF token
<1>5. Typed(saved)
  BY <1>2, <1>3, SavingTyped
<1> HIDE DEF saved
<1>6. Typed(left)
  BY <1>4, <1>5, StopWatchingTyped
<1> HIDE DEF left
<1>7. Typed(Forget(left)) /\ Forget(left).on = FALSE
  BY <1>6, ForgetTyped
<1> QED
  BY <1>1, <1>7 DEF Shown, ViewLocal

\* A client that emits what its caches and writes have become.
LEMMA EmitShown ==
    ASSUME NEW c, Shown(c), NEW F, NEW x, Typed(x), Only(x, c, F),
           F \subseteq {"cache", "writes", "leftOut"}
    PROVE  Shown(Emit(x, NoChange(x)))
<1>1. "on" \notin F /\ "listening" \notin F
  OBVIOUS
<1>2. x.on = c.on /\ x.listening = c.listening
  BY <1>1 DEF Only, Fields
<1>3. NoChange(x) \in ChangeType
  BY NoChangeTyped
<1> QED
  BY <1>2, <1>3, EmitTyped DEF Shown

LEMMA SetWritesTyped ==
    ASSUME NEW c, Typed(c), NEW writes \in Seq(WriteType)
    PROVE  /\ Typed([c EXCEPT !.writes = writes])
           /\ Only([c EXCEPT !.writes = writes], c, {"writes"})
           /\ [c EXCEPT !.writes = writes].writes = writes
<1> DEFINE x == [c EXCEPT !.writes = writes]
<1>1. Only(x, c, {"writes"}) /\ x["writes"] = writes
  BY DEF Only, Typed, Shape, Fields
<1> HIDE DEF x
<1>2. Typed(x)
  BY <1>1, TypedOnly, ClientIs DEF Fields
<1> QED
  BY <1>1, <1>2 DEF x

LEMMA ContentTyped ==
    ASSUME NEW d \in Docs, NEW v \in Contents[d]
    PROVE  v \in Values
BY DEF Values

Emitted(x) ==
    /\ Notify(Emit(x, NoChange(x))) /\ Typed(x)
    /\ Only(x, client, {"writes", "cache", "leftOut"})

\* A write changes the local store, and the view is emitted, ...
LEMMA WriteEmits ==
    ASSUME World, NEW d \in Docs, NEW v \in Contents[d], Write(d, v)
    PROVE  \E x : Emitted(x)
<1> DEFINE w == [doc |-> d, content |-> v, version |-> 0]
           writes == Append(client.writes, w)
           leftOut == client.leftOut \ {d}
           x == [client EXCEPT !.writes = writes, !.leftOut = leftOut]
<1>1. Notify(Emit(x, NoChange(x)))
  BY DEF Write
<1>2. Typed(client) /\ client.writes \in Seq(WriteType) /\ leftOut \in SUBSET Docs
  BY FieldTypes DEF World, Shown
<1>3. w \in WriteType
  BY ContentTyped, ZeroVersion DEF WriteType
<1> HIDE DEF w
<1>4. writes \in Seq(WriteType)
  BY <1>2, <1>3
<1> HIDE DEF writes, leftOut
<1>5. /\ Only(x, client, {"writes", "leftOut"})
      /\ x["writes"] = writes /\ x["leftOut"] = leftOut
  BY <1>2 DEF Only, Typed, Shape, Fields
<1> HIDE DEF x
<1>6. Typed(x)
  BY <1>2, <1>4, <1>5, TypedOnly, ClientIs DEF Fields
<1>7. Emitted(x)
  BY <1>1, <1>5, <1>6 DEF Emitted, Only
<1> QED
  BY <1>7

\* ... as when it is refused ...
LEMMA WriteRefusedEmits ==
    ASSUME World, WriteRefused
    PROVE  \E x : Emitted(x)
<1> DEFINE writes == Tail(client.writes)
           x == [client EXCEPT !.writes = writes]
<1>1. Notify(Emit(x, NoChange(x)))
  BY DEF WriteRefused
<1>2. Typed(client) /\ client.writes \in Seq(WriteType) /\ client.writes # <<>>
  BY FieldTypes DEF World, Shown, WriteRefused
<1>3. writes \in Seq(WriteType)
  BY <1>2
<1> HIDE DEF writes
<1>4. Typed(x) /\ Only(x, client, {"writes"})
  BY <1>2, <1>3, SetWritesTyped
<1> HIDE DEF x
<1>5. Emitted(x)
  BY <1>1, <1>4 DEF Emitted, Only
<1> QED
  BY <1>5

\* ... or acknowledged, ...
LEMMA WriteAcknowledgedEmits ==
    ASSUME World, WriteAcknowledged
    PROVE  \E x : Emitted(x)
<1> DEFINE w == Head(client.writes)
           writes == Tail(client.writes)
           cached == IF client.cache[w.doc].version >= w.version THEN client.cache[w.doc]
                     ELSE [version |-> w.version, content |-> w.content, committed |-> TRUE]
           cache == [client.cache EXCEPT ![w.doc] = cached]
           x == [client EXCEPT !.writes = writes, !.cache = cache]
<1>1. Notify(Emit(x, NoChange(x)))
  <2> DEFINE y == [client EXCEPT !.writes = Tail(@),
                                 !.cache[w.doc] = IF @.version >= w.version THEN @
                                     ELSE [version |-> w.version, content |-> w.content,
                                           committed |-> TRUE]]
  <2>1. Notify(Emit(y, NoChange(y)))
    BY DEF WriteAcknowledged
  <2>2. y = x
    <3>1. DOMAIN client.cache = Docs /\ Shape(client)
      BY FieldTypes DEF World, Shown, Typed
    <3> QED
      BY <3>1 DEF Shape, Fields
  <2> HIDE DEF x, y
  <2> QED
    BY <2>1, <2>2
<1>2. /\ Typed(client) /\ client.writes \in Seq(WriteType) /\ client.writes # <<>>
      /\ client.cache \in [Docs -> CachedDoc] /\ w.version > 0
  BY FieldTypes DEF World, Shown, WriteAcknowledged
<1>3. w \in WriteType /\ writes \in Seq(WriteType)
  BY <1>2
<1> HIDE DEF w, writes
<1>4. w.doc \in Docs /\ cached \in CachedDoc
  <2>1. w.doc \in Docs /\ w.version \in Versions /\ w.content \in Values
    BY <1>2, <1>3 DEF WriteType, Versions
  <2> QED
    BY <1>2, <2>1 DEF CachedDoc
<1> HIDE DEF cached
<1>5. cache \in [Docs -> CachedDoc]
  BY <1>2, <1>4
<1> HIDE DEF cache
<1>6. /\ Only(x, client, {"writes", "cache"})
      /\ x["writes"] = writes /\ x["cache"] = cache
  BY <1>2 DEF Only, Typed, Shape, Fields
<1> HIDE DEF x
<1>7. x["writes"] \in Client_["writes"] /\ x["cache"] \in Client_["cache"]
  BY <1>3, <1>5, <1>6, ClientIs
<1>8. Typed(x)
  BY <1>2, <1>6, <1>7, TypedOnly DEF Fields
<1>9. Emitted(x)
  BY <1>1, <1>6, <1>8 DEF Emitted, Only
<1> QED
  BY <1>9

\* ... and what is emitted is shown.
LEMMA EmittedShown ==
    ASSUME World, \E x : Emitted(x)
    PROVE  Shown(client') /\ log' = log
<1>1. PICK x : Emitted(x)
  OBVIOUS
<1>2. Shown(Emit(x, NoChange(x)))
  BY <1>1, EmitShown DEF Emitted, World
<1> QED
  BY <1>1, <1>2, NotifyShown DEF Emitted

-----------------------------------------------------------------------------
(* The network comes and goes. *)

\* Answers to writes change nothing that is shown.
LEMMA AnswersShown ==
    ASSUME NEW c, Shown(c), NEW writes \in Seq(WriteType), Len(writes) = Len(c.writes),
           \A i \in 1..Len(writes) : /\ writes[i].doc = c.writes[i].doc
                                     /\ writes[i].content = c.writes[i].content
    PROVE  Shown([c EXCEPT !.writes = writes])
<1> DEFINE x == [c EXCEPT !.writes = writes]
<1>1. Typed(x) /\ Only(x, c, {"writes"}) /\ x.writes = writes
  BY SetWritesTyped DEF Shown
<1> HIDE DEF x
<1>2. /\ x.on = c.on /\ x.cache = c.cache /\ x.view = c.view /\ x.listening = c.listening
      /\ x.leftOut = c.leftOut
  BY <1>1 DEF Only, Fields
<1>3. c.writes \in Seq(WriteType)
  BY FieldTypes DEF Shown
<1>4. ASSUME NEW d \in Docs
      PROVE  LocalDoc(x, d) = LocalDoc(c, d)
  <2> DEFINE mine == {i \in DOMAIN c.writes : c.writes[i].doc = d}
             yours == {i \in DOMAIN x.writes : x.writes[i].doc = d}
  <2>1. DOMAIN c.writes = 1..Len(c.writes) /\ DOMAIN x.writes = 1..Len(c.writes)
        /\ Len(c.writes) \in Nat
    BY <1>1, <1>3
  <2>2. mine = yours
    BY <1>1, <2>1
  <2>3. CASE mine = {}
    BY <1>2, <2>2, <2>3 DEF LocalDoc
  <2>4. CASE mine # {}
    <3>1. Max(mine) \in mine
      BY <2>1, <2>4, MaxOfPlaces
    <3>2. x.writes[Max(mine)].content = c.writes[Max(mine)].content
      <4> HIDE DEF mine
      <4> DEFINE i == Max(mine)
      <4>1. i \in 1..Len(writes)
        BY <2>1, <3>1 DEF mine
      <4> HIDE DEF i
      <4>2. writes[i].content = c.writes[i].content
        BY <4>1
      <4> QED
        BY <1>1, <4>2 DEF i
    <3>3. LocalDoc(c, d) = [content |-> c.writes[Max(mine)].content, local |-> TRUE]
      BY <2>4 DEF LocalDoc
    <3>4. LocalDoc(x, d) = [content |-> x.writes[Max(mine)].content, local |-> TRUE]
      BY <2>2, <2>4 DEF LocalDoc
    <3> QED
      BY <3>2, <3>3, <3>4
  <2> QED
    BY <2>3, <2>4
<1>5. \A d \in Docs : Committed(x, d) = Committed(c, d)
  BY <1>2, <1>4 DEF Committed
<1>6. ViewLocal(x)
  BY <1>2, <1>4, <1>5 DEF Shown, ViewLocal
<1> QED
  BY <1>1, <1>2, <1>6 DEF Shown, x

LEMMA UnansweredShown ==
    ASSUME NEW c, Shown(c)
    PROVE  Shown(Unanswered(c))
<1> DEFINE writes == [i \in DOMAIN c.writes |-> [c.writes[i] EXCEPT !.version = 0]]
<1>1. c.writes \in Seq(WriteType)
  BY FieldTypes DEF Shown
<1>2. \A i \in 1..Len(c.writes) :
         /\ c.writes[i] \in WriteType
         /\ [c.writes[i] EXCEPT !.version = 0] \in WriteType
  <2> HIDE DEF writes
  <2> TAKE i \in 1..Len(c.writes)
  <2>1. c.writes[i] \in WriteType
    BY <1>1
  <2> QED
    BY <2>1, ZeroVersion DEF WriteType
<1>3. writes \in Seq(WriteType) /\ Len(writes) = Len(c.writes)
  <2>1. Len(c.writes) \in Nat /\ writes \in [1..Len(c.writes) -> WriteType]
    BY <1>1, <1>2
  <2> HIDE DEF writes
  <2> QED
    BY <2>1, ListOf
<1>4. \A i \in 1..Len(writes) : /\ writes[i].doc = c.writes[i].doc
                                /\ writes[i].content = c.writes[i].content
  BY <1>1, <1>2, <1>3 DEF WriteType
<1>5. Unanswered(c) = [c EXCEPT !.writes = writes]
  BY DEF Unanswered
<1> HIDE DEF writes
<1> QED
  BY <1>3, <1>4, <1>5, AnswersShown

LEMMA DisableNetworkShown ==
    ASSUME World, DisableNetwork
    PROVE  Shown(client') /\ log' = log
<1> DEFINE u == Unanswered(client)
           x == UpdateState(Stop(u), "Offline")
<1>1. client' = x /\ log' = log
  BY DEF DisableNetwork
<1>2. Shown(u)
  BY UnansweredShown DEF World
<1> HIDE DEF u
<1>3. Typed(Stop(u)) /\ Local(Stop(u), u)
  BY <1>2, StopTyped DEF Shown
<1>4. Typed(x) /\ Local(x, Stop(u))
  BY <1>3, UpdateStateTyped
<1> QED
  BY <1>1, <1>2, <1>3, <1>4, LocalTrans, LocalShown

LEMMA NetworkRestartsShown ==
    ASSUME World, NetworkRestarts
    PROVE  Shown(client') /\ log' = log
<1> DEFINE u == Unanswered(client)
           y == UpdateState(Stop(u), "Unknown")
<1>1. client' = Enable(y) /\ log' = log
  BY DEF NetworkRestarts
<1>2. Shown(u)
  BY UnansweredShown DEF World
<1> HIDE DEF u
<1>3. Typed(Stop(u)) /\ Local(Stop(u), u)
  BY <1>2, StopTyped DEF Shown
<1>4. Typed(y) /\ Local(y, Stop(u))
  BY <1>3, UpdateStateTyped
<1> HIDE DEF y
<1>5. Typed(Enable(y)) /\ Local(Enable(y), y)
  BY <1>4, EnableTyped
<1> QED
  BY <1>1, <1>2, <1>3, <1>4, <1>5, LocalTrans, LocalShown

LEMMA EnableNetworkShown ==
    ASSUME World, EnableNetwork
    PROVE  Shown(client') /\ log' = log
<1>1. client' = Enable(client) /\ log' = log
  BY DEF EnableNetwork, Client
<1>2. Typed(Enable(client)) /\ Local(Enable(client), client)
  BY EnableTyped DEF World, Shown
<1> QED
  BY <1>1, <1>2, LocalShown DEF World

NothingKept == {"on", "raised", "view", "leftOut", "limboFree", "limbo", "received", "enabled",
                "stream", "idle", "listening", "agg", "updates", "resets", "online", "timer",
                "failed", "requests", "incoming", "serving"}
OnDisk == {"cache", "keys", "token", "savedFree", "lastSnap", "writes", "broken"}

\* What a process starts with: the values of NothingKept.
Started(x) ==
    /\ x["on"] = FALSE /\ x["raised"] = FALSE /\ x["view"] = NewView({}) /\ x["limbo"] = <<>>
    /\ x["received"] = {} /\ x["enabled"] = TRUE /\ x["stream"] = "Initial" /\ x["idle"] = FALSE
    /\ x["listening"] = <<>> /\ x["agg"] = <<>> /\ x["updates"] = <<>> /\ x["resets"] = {}
    /\ x["online"] = "Unknown" /\ x["timer"] = FALSE /\ x["failed"] = FALSE
    /\ x["requests"] = <<>> /\ x["incoming"] = <<>> /\ x["serving"] = <<>>
    /\ x["leftOut"] = {} /\ x["limboFree"] = 0

LEMMA StartedTyped ==
    ASSUME NEW x, Shape(x), \A f \in OnDisk : x[f] \in Client_[f], Started(x)
    PROVE  Typed(x) /\ x.on = FALSE
<1>4. NewView({}) \in ViewType
  BY NewViewTyped
<1>5. /\ x["on"] \in Client_["on"] /\ x["raised"] \in Client_["raised"]
      /\ x["view"] \in Client_["view"] /\ x["received"] \in Client_["received"]
      /\ x["enabled"] \in Client_["enabled"] /\ x["stream"] \in Client_["stream"]
      /\ x["idle"] \in Client_["idle"]
  BY <1>4, ClientIs, Zenon DEF Started
<1>6. /\ x["resets"] \in Client_["resets"] /\ x["online"] \in Client_["online"]
      /\ x["timer"] \in Client_["timer"] /\ x["failed"] \in Client_["failed"]
      /\ x["requests"] \in Client_["requests"] /\ x["incoming"] \in Client_["incoming"]
  <2>1. <<>> \in Seq(RequestType) /\ <<>> \in Seq(Message)
    OBVIOUS
  <2> QED
    BY <2>1, ClientIs DEF Started
<1>7. /\ x["limbo"] \in Client_["limbo"] /\ x["listening"] \in Client_["listening"]
      /\ x["agg"] \in Client_["agg"] /\ x["updates"] \in Client_["updates"]
      /\ x["serving"] \in Client_["serving"]
  <2>1. /\ <<>> \in Partial(Docs, Lookup) /\ <<>> \in Partial(Watched, Versions)
        /\ <<>> \in Partial(Watched, EntryType) /\ <<>> \in Partial(Docs, CachedDoc)
        /\ <<>> \in Partial(Watched, [at : Versions, fresh : BOOLEAN]) /\ DOMAIN <<>> = {}
    BY PartialNone
  <2>2. <<>> \in Aggregator
    BY <2>1 DEF Aggregator
  <2> QED
    BY <2>1, <2>2, ClientIs DEF Started
<1>8. x["leftOut"] \in Client_["leftOut"] /\ x["limboFree"] \in Client_["limboFree"]
  BY ClientIs, ZeroVersion DEF Started
<1>12. \A f \in NothingKept : x[f] \in Client_[f]
  BY <1>5, <1>6, <1>7, <1>8 DEF NothingKept
<1>9. Fields = NothingKept \cup OnDisk
  BY DEF Fields, NothingKept, OnDisk
<1>10. Typed(x)
  BY <1>9, <1>12 DEF Typed
<1> QED
  BY <1>10 DEF Started

LEMMA FreshTyped ==
    ASSUME NEW c, Typed(c)
    PROVE  Typed(Fresh(c)) /\ Fresh(c).on = FALSE
<1> DEFINE x == Fresh(c)
<1>1. Only(x, c, NothingKept) /\ Shape(x)
  BY DEF Fresh, Only, Typed, Shape, Fields, NothingKept
<1>2. Started(x)
  BY DEF Fresh, Typed, Shape, Fields, Started
<1> HIDE DEF x
<1>3. \A f \in OnDisk : x[f] \in Client_[f]
  <2>1. \A f \in OnDisk : f \in Fields /\ f \notin NothingKept
    BY DEF OnDisk, Fields, NothingKept
  <2> QED
    BY <1>1, <2>1 DEF Typed, Only
<1> QED
  BY <1>1, <1>2, <1>3, StartedTyped DEF x

LEMMA RestartShown ==
    ASSUME World, Restart
    PROVE  Shown(client') /\ log' = log
<1>1. client' = Fresh(Unanswered(client)) /\ log' = log
  BY DEF Restart
<1>2. Typed(Unanswered(client))
  BY UnansweredShown DEF World, Shown
<1>3. Typed(client') /\ client'.on = FALSE
  BY <1>1, <1>2, FreshTyped
<1> QED
  BY <1>1, <1>3 DEF Shown, ViewLocal

LEMMA InitShown ==
    ASSUME Init
    PROVE  World
<1>1. Shape(client)
  BY DEF Init, Shape, Fields
<1>2. /\ client["cache"] = [d \in Docs |-> Unknown] /\ client["keys"] = {}
      /\ client["token"] = 0 /\ client["savedFree"] = 0 /\ client["lastSnap"] = 0
      /\ client["writes"] = <<>> /\ client["broken"] = FALSE
  BY DEF Init
<1>3. \A f \in OnDisk : client[f] \in Client_[f]
  <2>1. Unknown \in CachedDoc
    BY ZeroVersion DEF Unknown, CachedDoc
  <2>2. [d \in Docs |-> Unknown] \in [Docs -> CachedDoc]
    BY <2>1
  <2>3. client["cache"] \in Client_["cache"] /\ client["keys"] \in Client_["keys"]
        /\ client["token"] \in Client_["token"] /\ client["lastSnap"] \in Client_["lastSnap"]
        /\ client["savedFree"] \in Client_["savedFree"]
    BY <1>2, <2>2, ClientIs, ZeroVersion
  <2>4. client["writes"] \in Client_["writes"] /\ client["broken"] \in Client_["broken"]
    <3>1. <<>> \in Seq(WriteType)
      OBVIOUS
    <3> QED
      BY <1>2, <3>1, ClientIs
  <2> QED
    BY <2>3, <2>4 DEF OnDisk
<1>4. Started(client)
  BY DEF Init, Started
<1>5. Typed(client) /\ client.on = FALSE
  BY <1>1, <1>3, <1>4, StartedTyped
<1>6. log = <<>> /\ 0 <= MaxVersions
  BY BoundsAssumption DEF Init
<1>7. log \in LogType /\ Len(log) <= MaxVersions
  BY <1>6 DEF LogType
<1> QED
  BY <1>5, <1>7 DEF World, Shown, ViewLocal

-----------------------------------------------------------------------------
(* What the watch stream and the timers bring. *)

LEMMA StreamOpensShown ==
    ASSUME World, StreamOpens
    PROVE  Shown(client') /\ log' = log
<1> DEFINE open == [client EXCEPT !.stream = "Open"]
           S == DOMAIN client.listening
           p == [goal |-> "types", of |-> "ask", from |-> open]
<1>1. client' = FoldedSet(p, open, S) /\ log' = log
  BY DEF StreamOpens, Client, FoldSet, MapThenFoldSet, FoldedSet, FoldStep
<1>2. Typed(client) /\ Only(open, client, {"stream"}) /\ open["stream"] = "Open"
  BY DEF World, Shown, Only, Typed, Shape, Fields
<1> HIDE DEF open
<1>3. open["stream"] \in Client_["stream"]
  BY <1>2, ClientIs
<1>4. Typed(open) /\ Local(open, client) /\ open.listening = client.listening
  BY <1>2, <1>3, TypedOnly, LocalOnly DEF Fields
<1>5. client.listening \in Partial(Watched, Versions)
  BY <1>2, FieldTypes
<1>6. S \subseteq Watched /\ IsFiniteSet(S)
  BY <1>5, PartialIs
<1>7. FoldInv(p, {}, open)
  BY <1>4, OnlySame DEF Rewatches, FoldInv, TypesKept
<1>8. ASSUME NEW r \in SUBSET S, NEW t \in S \ r, NEW y, FoldInv(p, r, y)
      PROVE  FoldInv(p, r \cup {t}, FoldStep(p, t, y))
  <2> DEFINE z == Send(y, t, TRUE, y.listening[t])
  <2>1. Rewatches(open, y) /\ Typed(y) /\ t \in DOMAIN y.listening
    BY <1>4, <1>8 DEF Rewatches, FoldInv, TypesKept
  <2>2. y.listening[t] \in Versions /\ t \in Watched
    BY <1>6, <2>1, FieldTypes, PartialIs
  <2>3. Typed(z) /\ Only(z, y, {"agg", "requests", "idle"})
    BY <2>1, <2>2, SendTyped
  <2>4. FoldStep(p, t, y) = z
    BY DEF FoldStep
  <2> HIDE DEF z
  <2>5. z.listening = y.listening
    BY <2>3 DEF Only, Fields
  <2> QED
    BY <2>1, <2>3, <2>4, <2>5 DEF FoldInv, TypesKept, Rewatches, Only
<1> HIDE DEF S
<1>9. FoldInv(p, S, FoldedSet(p, open, S))
  BY <1>6, <1>7, <1>8, FoldKeeps
<1>10. Rewatches(open, client')
  BY <1>1, <1>9 DEF FoldInv, TypesKept
<1>11. Typed(client') /\ Local(client', open)
  BY <1>10 DEF Rewatches, Only, Fields, Local
<1> QED
  BY <1>1, <1>4, <1>11, LocalTrans, LocalShown DEF World

LEMMA ClosesShown ==
    ASSUME World, NEW graceful, client' = Close(client, graceful)
    PROVE  Shown(client')
BY CloseTyped, LocalShown DEF World, Shown

LEMMA StreamFailsShown ==
    ASSUME World, StreamFails
    PROVE  Shown(client') /\ log' = log
BY ClosesShown DEF StreamFails

LEMMA IdleTimeoutShown ==
    ASSUME World, IdleTimeout
    PROVE  Shown(client') /\ log' = log
BY ClosesShown DEF IdleTimeout, Client

LEMMA OnlineTimeoutShown ==
    ASSUME World, OnlineTimeout
    PROVE  Shown(client') /\ log' = log
<1> DEFINE y == [client EXCEPT !.timer = FALSE]
           z == SetOnline(y, "Offline")
           x == Require(z, client.online = "Unknown")
<1>1. client' = x /\ log' = log
  BY DEF OnlineTimeout, Client
<1>2. Typed(client) /\ Only(y, client, {"timer"}) /\ y["timer"] \in Client_["timer"]
  BY ClientIs DEF World, Shown, Only, Typed, Shape, Fields
<1> HIDE DEF y
<1>3. Typed(y) /\ Local(y, client)
  BY <1>2, TypedOnly, LocalOnly DEF Fields
<1>4. Typed(z) /\ Local(z, y)
  BY <1>3, SetOnlineTyped
<1> HIDE DEF z
<1>5. Typed(x) /\ Only(x, z, {"broken"})
  BY <1>4, RequireTyped
<1>6. Local(x, z)
  BY <1>5, LocalOnly
<1> HIDE DEF x
<1> QED
  BY <1>1, <1>3, <1>4, <1>5, <1>6, LocalTrans, LocalShown DEF World

\* The message that is read is gone, and the client is online.
LEMMA OnlineShown ==
    ASSUME World, client.incoming # <<>>
    PROVE  /\ Shown(Online) /\ Local(Online, client)
           /\ Head(client.incoming) \in Message
           /\ Only(Online, client, {"incoming", "online", "raised", "view", "timer", "failed"})
<1> DEFINE incoming == Tail(client.incoming)
           y == [client EXCEPT !.incoming = incoming]
           x == UpdateState(y, "Online")
<1>1. Online = x
  BY DEF Online
<1>2. Typed(client) /\ client.incoming \in Seq(Message)
  BY FieldTypes DEF World, Shown
<1>3. Head(client.incoming) \in Message /\ incoming \in Seq(Message)
  BY <1>2
<1> HIDE DEF incoming
<1>4. Only(y, client, {"incoming"}) /\ y["incoming"] = incoming
  BY <1>2 DEF Only, Typed, Shape, Fields
<1> HIDE DEF y
<1>5. Typed(y) /\ Local(y, client)
  BY <1>2, <1>3, <1>4, TypedOnly, LocalOnly, ClientIs DEF Fields
<1>6. Typed(x) /\ Local(x, y) /\ Only(x, y, {"online", "raised", "view", "timer", "failed"})
  BY <1>5, UpdateStateTyped
<1> HIDE DEF x
<1>7. Local(x, client) /\ Only(x, client, {"incoming", "online", "raised", "view", "timer", "failed"})
  BY <1>4, <1>5, <1>6, LocalTrans DEF Only
<1>8. Shown(x)
  BY <1>6, <1>7, LocalShown DEF World
<1> QED
  BY <1>1, <1>3, <1>7, <1>8

LEMMA AboutIs ==
    ASSUME World, NEW kind \in {"added", "removed", "current", "reset", "error", "filter"},
           Received(kind)
    PROVE  /\ client.incoming # <<>> /\ AboutTarget \in Watched
           /\ Head(client.incoming).about = {AboutTarget}
<1> DEFINE m == Head(client.incoming)
<1>1. client.incoming # <<>> /\ m.kind = kind
  BY DEF Received
<1>2. m \in Message
  BY <1>1, OnlineShown
<1> HIDE DEF m
<1>3. m \in Single \cup Filter
  BY <1>1, <1>2 DEF Message, Snapshot, Document, News
<1>4. PICK t \in Watched : m.about = {t}
  BY <1>3 DEF Single, Filter
<1>5. AboutTarget = t
  BY <1>4 DEF AboutTarget, m
<1> QED
  BY <1>1, <1>4, <1>5 DEF m

\* Only the entry of a target changes.
LEMMA EntryShown ==
    ASSUME NEW c, Shown(c), NEW t \in Watched, NEW entry \in EntryType,
           DOMAIN entry.changes \subseteq t.docs
    PROVE  Shown(WithEntry(c, t, entry))
<1>1. Typed(WithEntry(c, t, entry)) /\ Only(WithEntry(c, t, entry), c, {"agg"})
  BY WithEntryTyped DEF Shown
<1> QED
  BY <1>1, LocalOnly, LocalShown

LEMMA GatheredShown ==
    ASSUME NEW c, Shown(c), NEW x, Gathered(c, x)
    PROVE  Shown(x)
BY LocalOnly, LocalShown DEF Gathered

LEMMA TargetAddedShown ==
    ASSUME World, TargetAdded
    PROVE  Shown(client') /\ log' = log
<1> DEFINE t == AboutTarget
           entry == [Entry(client, t) EXCEPT !.outstanding = @ - 1]
           after == [entry EXCEPT !.changes = IF entry.outstanding = 0 THEN <<>> ELSE @]
<1>1. client' = WithEntry(Online, t, after) /\ log' = log
  BY DEF TargetAdded, Client
<1>2. client.incoming # <<>> /\ t \in Watched
  BY AboutIs DEF TargetAdded
<1>3. Shown(Online) /\ Typed(client)
  BY <1>2, OnlineShown DEF World, Shown
<1>4. Entry(client, t) \in EntryType /\ DOMAIN Entry(client, t).changes \subseteq t.docs
  BY <1>2, <1>3, EntryTyped
<1> HIDE DEF t
<1>5. entry \in EntryType /\ DOMAIN entry.changes \subseteq t.docs
  BY <1>4 DEF EntryType
<1> HIDE DEF entry
<1>6. after \in EntryType /\ DOMAIN after.changes \subseteq t.docs
  <2>1. <<>> \in Partial(Docs, Change) /\ DOMAIN <<>> = {}
    BY PartialNone
  <2> QED
    BY <1>5, <2>1 DEF EntryType
<1> HIDE DEF after
<1> QED
  BY <1>1, <1>2, <1>3, <1>6, EntryShown

LEMMA TargetRemovedShown ==
    ASSUME World, TargetRemoved
    PROVE  Shown(client') /\ log' = log
<1> DEFINE t == AboutTarget
           entry == [Entry(client, t) EXCEPT !.outstanding = @ - 1]
           gone == [Online EXCEPT !.agg = Without(@, t)]
<1>1. /\ client' = IF entry.outstanding = 0 THEN gone ELSE WithEntry(Online, t, entry)
      /\ log' = log
  BY DEF TargetRemoved, Client
<1>2. client.incoming # <<>> /\ t \in Watched
  BY AboutIs DEF TargetRemoved
<1>3. Shown(Online) /\ Typed(client)
  BY <1>2, OnlineShown DEF World, Shown
<1>4. Entry(client, t) \in EntryType /\ DOMAIN Entry(client, t).changes \subseteq t.docs
  BY <1>2, <1>3, EntryTyped
<1> HIDE DEF t
<1>5. entry \in EntryType /\ DOMAIN entry.changes \subseteq t.docs
  BY <1>4 DEF EntryType
<1> HIDE DEF entry
<1>6. Shown(WithEntry(Online, t, entry))
  BY <1>2, <1>3, <1>5, EntryShown
<1>7. Shown(gone)
  <2>1. Only(gone, Online, {"agg"}) /\ gone["agg"] = Without(Online.agg, t)
    BY <1>3 DEF Only, Shown, Typed, Shape, Fields
  <2> HIDE DEF gone
  <2>2. Online.agg \in Partial(Watched, EntryType)
        /\ \A u \in DOMAIN Online.agg : DOMAIN Online.agg[u].changes \subseteq u.docs
    BY <1>3, FieldTypes DEF Aggregator, Shown
  <2>3. Without(Online.agg, t) \in Partial(Watched, EntryType)
    BY <2>2, WithoutPartial
  <2>4. Without(Online.agg, t) \in Aggregator
    BY <2>2, <2>3 DEF Aggregator, Without, Restrict
  <2>5. Typed(gone)
    BY <1>3, <2>1, <2>4, TypedOnly, ClientIs DEF Fields, Shown
  <2> QED
    BY <1>3, <2>1, <2>5, LocalOnly, LocalShown
<1> QED
  BY <1>1, <1>6, <1>7

LEMMA TargetCurrentShown ==
    ASSUME World, TargetCurrent
    PROVE  Shown(client') /\ log' = log
<1> DEFINE t == AboutTarget
           entry == [Entry(client, t) EXCEPT !.current = TRUE]
<1>1. client' \in {Online, WithEntry(Online, t, entry)} /\ log' = log
  BY DEF TargetCurrent, Client
<1>2. client.incoming # <<>> /\ t \in Watched
  BY AboutIs DEF TargetCurrent
<1>3. Shown(Online) /\ Typed(client)
  BY <1>2, OnlineShown DEF World, Shown
<1>4. Entry(client, t) \in EntryType /\ DOMAIN Entry(client, t).changes \subseteq t.docs
  BY <1>2, <1>3, EntryTyped
<1> HIDE DEF t
<1>5. entry \in EntryType /\ DOMAIN entry.changes \subseteq t.docs
  BY <1>4 DEF EntryType
<1> HIDE DEF entry
<1>6. Shown(WithEntry(Online, t, entry))
  BY <1>2, <1>3, <1>5, EntryShown
<1> QED
  BY <1>1, <1>3, <1>6

LEMMA TargetResetShown ==
    ASSUME World, TargetReset
    PROVE  Shown(client') /\ log' = log
<1>1. client' \in {Online, ResetTarget(Online, AboutTarget)} /\ log' = log
  BY DEF TargetReset, Client
<1>2. client.incoming # <<>> /\ AboutTarget \in Watched
  BY AboutIs DEF TargetReset
<1>3. Shown(Online) /\ Typed(Online)
  BY <1>2, OnlineShown DEF Shown
<1>4. Gathered(Online, ResetTarget(Online, AboutTarget))
  BY <1>2, <1>3, ResetTargetTyped
<1> QED
  BY <1>1, <1>3, <1>4, GatheredShown

LEMMA TargetRefusedShown ==
    ASSUME World, TargetRefused
    PROVE  Shown(client') /\ log' = log
<1>1. Notify(ProcessTargetError(Online, AboutTarget))
  BY DEF TargetRefused
<1>2. client.incoming # <<>> /\ AboutTarget \in Watched
  BY AboutIs DEF TargetRefused
<1>3. Shown(Online)
  BY <1>2, OnlineShown
<1>4. Shown(ProcessTargetError(Online, AboutTarget))
  BY <1>2, <1>3, ProcessTargetErrorShown
<1> QED
  BY <1>1, <1>4, NotifyShown

LEMMA ExistenceFilterShown ==
    ASSUME World, ExistenceFilter
    PROVE  Shown(client') /\ log' = log
<1> DEFINE x == HandleFilter(Online, AboutTarget, Head(client.incoming).count)
<1>1. client' = x /\ log' = log
  BY DEF ExistenceFilter, Client
<1>2. client.incoming # <<>> /\ AboutTarget \in Watched
  BY AboutIs DEF ExistenceFilter
<1>3. Shown(Online) /\ Typed(Online)
  BY <1>2, OnlineShown DEF Shown
<1>4. Typed(x) /\ Only(x, Online, {"agg", "updates", "broken", "resets"})
  BY <1>2, <1>3, HandleFilterTyped
<1> HIDE DEF x
<1> QED
  BY <1>1, <1>3, <1>4, LocalOnly, LocalShown

\* A document that was found, or is gone, told of some targets.
LEMMA DocumentChangeShown ==
    ASSUME World, DocumentChange
    PROVE  Shown(client') /\ log' = log
<1> DEFINE m == Head(client.incoming)
           p == [goal |-> "types", of |-> "change", from |-> Online, m |-> m]
<1>1. client.incoming # <<>> /\ m.kind = "document"
  BY DEF DocumentChange, Received
<1>2. Shown(Online) /\ Typed(Online) /\ m \in Message
  BY <1>1, OnlineShown DEF Shown
<1>3. client' = FoldedSet(p, Online, m.about) /\ log' = log
  BY DEF DocumentChange, Client, FoldSet, MapThenFoldSet, FoldedSet, FoldStep
<1> HIDE DEF m
<1>4. m \in Document
  BY <1>1, <1>2 DEF Message, Single, Filter, Snapshot
<1>5. /\ IsFiniteSet(m.about) /\ m.about \subseteq Watched /\ m.doc \in Docs
      /\ m.update \in Partial(Docs, CachedDoc)
  BY <1>4 DEF Document, News, Finite
<1>6. /\ \A t \in m.about : m.doc \in t.docs
      /\ m.found => m.doc \in DOMAIN m.update
  BY <1>4 DEF Document
<1>7. m.found => m.update[m.doc] \in CachedDoc
  BY <1>5, <1>6, PartialIs
<1>8. FoldInv(p, {}, Online)
  BY <1>2, GatheredSame DEF FoldInv, TypesKept
<1>9. ASSUME NEW r \in SUBSET m.about, NEW t \in m.about \ r, NEW y, FoldInv(p, r, y)
      PROVE  FoldInv(p, r \cup {t}, FoldStep(p, t, y))
  <2>1. Gathered(Online, y) /\ Typed(y) /\ t \in Watched /\ m.doc \in t.docs
    BY <1>5, <1>6, <1>9 DEF FoldInv, TypesKept, Gathered
  <2>2. m.found => Gathered(y, AddDocument(y, t, m.doc, m.update[m.doc]))
    BY <1>7, <2>1, AddDocumentTyped
  <2>3. Gathered(y, RemoveDocument(y, t, m.doc, m.update))
    BY <1>5, <2>1, RemoveDocumentTyped
  <2>4. FoldStep(p, t, y) = IF m.found THEN AddDocument(y, t, m.doc, m.update[m.doc])
                            ELSE RemoveDocument(y, t, m.doc, m.update)
    BY DEF FoldStep
  <2>5. Gathered(Online, FoldStep(p, t, y))
    BY <2>1, <2>2, <2>3, <2>4, GatheredTrans
  <2> QED
    BY <2>5 DEF FoldInv, TypesKept
<1>10. FoldInv(p, m.about, FoldedSet(p, Online, m.about))
  BY <1>5, <1>8, <1>9, FoldKeeps
<1>11. Gathered(Online, client')
  BY <1>3, <1>10 DEF FoldInv, TypesKept
<1> QED
  BY <1>2, <1>3, <1>11, GatheredShown

LEMMA WatchSnapshotShown ==
    ASSUME World, NEW late, WatchSnapshot(late)
    PROVE  Shown(client') /\ log' = log
<1> DEFINE m == Head(client.incoming)
           x == RaiseWatchSnapshot(Online, m.version, late)
<1>1. client.incoming # <<>> /\ m.kind = "snapshot"
  BY DEF WatchSnapshot, Received
<1>2. client' \in {Online, Notified(x, late)} /\ log' = log
  BY DEF WatchSnapshot, Client
<1>3. Shown(Online) /\ m \in Message
  BY <1>1, OnlineShown
<1> HIDE DEF m
<1>4. m.version \in Versions
  BY <1>1, <1>3 DEF Message, Single, Filter, Document, News, Snapshot
<1>5. /\ Typed(x) /\ ViewLocal(x) /\ x.on = Online.on
      /\ (Query \in DOMAIN Online.listening => Query \in DOMAIN x.listening)
  BY <1>3, <1>4, RaiseWatchSnapshotTyped DEF Shown
<1>6. Shown(x)
  BY <1>3, <1>5 DEF Shown
<1> HIDE DEF x
<1> QED
  BY <1>2, <1>3, <1>6, NotifiedShown

-----------------------------------------------------------------------------
(* The server. *)

\* What the server reads, tells and remembers is not shown.
LEMMA ServedShown ==
    ASSUME NEW c, Shown(c), NEW x, Only(x, c, {"requests", "incoming", "serving"}),
           x["requests"] \in Seq(RequestType), x["incoming"] \in Seq(Message),
           x["serving"] \in Partial(Watched, [at : Versions, fresh : BOOLEAN])
    PROVE  Shown(x)
<1>1. /\ x["requests"] \in Client_["requests"] /\ x["incoming"] \in Client_["incoming"]
      /\ x["serving"] \in Client_["serving"]
  BY ClientIs
<1>2. Typed(x)
  BY <1>1, TypedOnly DEF Fields, Shown
<1>3. Local(x, c)
  BY LocalOnly
<1> QED
  BY <1>2, <1>3, LocalShown

ServingType == Partial(Watched, [at : Versions, fresh : BOOLEAN])

LEMMA ServerKnows ==
    ASSUME World
    PROVE  /\ client.requests \in Seq(RequestType) /\ client.incoming \in Seq(Message)
           /\ client.serving \in ServingType /\ Shape(client)
BY FieldTypes DEF World, Shown, Typed, ServingType

LEMMA ServingIs ==
    ASSUME World
    PROVE  /\ DOMAIN client.serving \in SUBSET Watched /\ IsFiniteSet(DOMAIN client.serving)
           /\ \A t \in DOMAIN client.serving :
                 client.serving[t] \in [at : Versions, fresh : BOOLEAN]
<1> DEFINE R == [at : Versions, fresh : BOOLEAN]
<1>1. client.serving \in Partial(Watched, R)
  BY ServerKnows DEF ServingType
<1> HIDE DEF R
<1>2. /\ DOMAIN client.serving \subseteq Watched /\ IsFiniteSet(DOMAIN client.serving)
      /\ \A t \in DOMAIN client.serving : client.serving[t] \in R
  BY <1>1, PartialIs
<1> QED
  BY <1>2 DEF R

LEMMA AboutTyped ==
    ASSUME NEW t \in Watched, NEW kind \in {"added", "removed", "current", "reset", "error"}
    PROVE  About(t, kind) \in Message
BY DEF About, Message, Single

LEMMA ServerAddsShown ==
    ASSUME World, ServerAdds
    PROVE  Shown(client') /\ log' = log
<1> DEFINE r == Head(client.requests)
           requests == Tail(client.requests)
           incoming == Append(client.incoming, About(r.target, "added"))
           serving == With(client.serving, r.target, [at |-> r.token, fresh |-> TRUE])
           x == [client EXCEPT !.requests = requests, !.incoming = incoming, !.serving = serving]
<1>1. client' = x /\ log' = log /\ client.requests # <<>>
  BY DEF ServerAdds, Reads
<1>2. /\ client.requests \in Seq(RequestType) /\ client.incoming \in Seq(Message)
      /\ client.serving \in ServingType /\ Shape(client)
  BY ServerKnows
<1>3. r \in RequestType /\ requests \in Seq(RequestType)
  BY <1>1, <1>2
<1> HIDE DEF r, requests
<1>4. r.target \in Watched /\ [at |-> r.token, fresh |-> TRUE] \in [at : Versions, fresh : BOOLEAN]
  BY <1>3 DEF RequestType
<1>5. About(r.target, "added") \in Message
  BY <1>4, AboutTyped
<1>6. incoming \in Seq(Message)
  BY <1>2, <1>5
<1>7. serving \in Partial(Watched, [at : Versions, fresh : BOOLEAN])
  BY <1>2, <1>4, WithPartial DEF ServingType
<1> HIDE DEF incoming, serving
<1>8. /\ Only(x, client, {"requests", "incoming", "serving"})
      /\ x["requests"] = requests /\ x["incoming"] = incoming /\ x["serving"] = serving
  BY <1>2 DEF Only, Shape, Fields
<1> HIDE DEF x
<1> QED
  BY <1>1, <1>3, <1>6, <1>7, <1>8, ServedShown DEF World

LEMMA ServerRemovesShown ==
    ASSUME World, ServerRemoves
    PROVE  Shown(client') /\ log' = log
<1> DEFINE r == Head(client.requests)
           requests == Tail(client.requests)
           incoming == Append(client.incoming, About(r.target, "removed"))
           serving == Without(client.serving, r.target)
           x == [client EXCEPT !.requests = requests, !.incoming = incoming, !.serving = serving]
<1>1. client' = x /\ log' = log /\ client.requests # <<>>
  BY DEF ServerRemoves, Reads
<1>2. /\ client.requests \in Seq(RequestType) /\ client.incoming \in Seq(Message)
      /\ client.serving \in ServingType /\ Shape(client)
  BY ServerKnows
<1>3. r \in RequestType /\ requests \in Seq(RequestType)
  BY <1>1, <1>2
<1> HIDE DEF r, requests
<1>4. r.target \in Watched
  BY <1>3 DEF RequestType
<1>5. About(r.target, "removed") \in Message
  BY <1>4, AboutTyped
<1>6. incoming \in Seq(Message)
  BY <1>2, <1>5
<1>7. serving \in Partial(Watched, [at : Versions, fresh : BOOLEAN])
  BY <1>2, WithoutPartial DEF ServingType
<1> HIDE DEF incoming, serving
<1>8. /\ Only(x, client, {"requests", "incoming", "serving"})
      /\ x["requests"] = requests /\ x["incoming"] = incoming /\ x["serving"] = serving
  BY <1>2 DEF Only, Shape, Fields
<1> HIDE DEF x
<1> QED
  BY <1>1, <1>3, <1>6, <1>7, <1>8, ServedShown DEF World

LEMMA ServerRefusesShown ==
    ASSUME World, ServerRefuses
    PROVE  Shown(client') /\ log' = log
<1> DEFINE r == Head(client.requests)
           requests == Tail(client.requests)
           incoming == Append(client.incoming, About(r.target, "error"))
           x == [client EXCEPT !.requests = requests, !.incoming = incoming]
<1>1. client' = x /\ log' = log /\ client.requests # <<>>
  BY DEF ServerRefuses, Reads
<1>2. /\ client.requests \in Seq(RequestType) /\ client.incoming \in Seq(Message)
      /\ client.serving \in ServingType /\ Shape(client)
  BY ServerKnows
<1>3. r \in RequestType /\ requests \in Seq(RequestType)
  BY <1>1, <1>2
<1> HIDE DEF r, requests
<1>4. r.target \in Watched
  BY <1>3 DEF RequestType
<1>5. About(r.target, "error") \in Message
  BY <1>4, AboutTyped
<1>6. incoming \in Seq(Message)
  BY <1>2, <1>5
<1> HIDE DEF incoming
<1>7. /\ Only(x, client, {"requests", "incoming", "serving"})
      /\ x["requests"] = requests /\ x["incoming"] = incoming /\ x["serving"] = client.serving
  BY <1>2 DEF Only, Shape, Fields
<1> HIDE DEF x
<1> QED
  BY <1>1, <1>2, <1>3, <1>6, <1>7, ServedShown DEF World, ServingType

\* More messages, and what the server remembers of targets it serves.
LEMMA ToldShown ==
    ASSUME World, NEW messages \in Seq(Message), NEW serving \in ServingType,
           Told(messages, serving)
    PROVE  Shown(client')
<1> DEFINE incoming == client.incoming \o messages
           x == [client EXCEPT !.incoming = incoming, !.serving = serving]
<1>1. client' = x
  BY DEF Told
<1>2. /\ client.requests \in Seq(RequestType) /\ client.incoming \in Seq(Message)
      /\ Shape(client)
  BY ServerKnows
<1>3. incoming \in Seq(Message)
  BY <1>2
<1> HIDE DEF incoming
<1>4. /\ Only(x, client, {"requests", "incoming", "serving"})
      /\ x["requests"] = client.requests /\ x["incoming"] = incoming /\ x["serving"] = serving
  BY <1>2 DEF Only, Shape, Fields
<1> HIDE DEF x
<1> QED
  BY <1>1, <1>2, <1>3, <1>4, ServedShown DEF World, ServingType

LEMMA ServerResetsShown ==
    ASSUME World, NEW t \in DOMAIN client.serving, ServerResets(t)
    PROVE  Shown(client') /\ log' = log
<1> DEFINE messages == <<About(t, "reset")>>
           anew == [at |-> 0, fresh |-> TRUE]
           serving == [client.serving EXCEPT ![t] = anew]
           S == DOMAIN client.serving
<1>1. Told(messages, serving) /\ log' = log
  BY DEF ServerResets
<1>3. /\ S \in SUBSET Watched /\ IsFiniteSet(S)
      /\ \A u \in S : client.serving[u] \in [at : Versions, fresh : BOOLEAN]
  BY ServingIs
<1>4. messages \in Seq(Message)
  <2>1. About(t, "reset") \in Message
    BY <1>3, AboutTyped
  <2> QED
    BY <2>1
<1>5. anew \in [at : Versions, fresh : BOOLEAN]
  BY ZeroVersion
<1> HIDE DEF anew
<1>6. serving \in [S -> [at : Versions, fresh : BOOLEAN]]
  BY <1>3, <1>5
<1>7. serving \in ServingType
  <2> HIDE DEF serving, S
  <2> QED
    BY <1>3, <1>6, PartialOf DEF ServingType
<1> HIDE DEF messages, serving
<1> QED
  BY <1>1, <1>4, <1>7, ToldShown

LEMMA SetToSeqIs ==
    ASSUME NEW E, NEW S \in SUBSET E, IsFiniteSet(S)
    PROVE  SetToSeq(S) \in Seq(E)
<1> DEFINE n == Cardinality(S)
<1>1. n \in Nat
  BY FS_CardinalityType
<1>2. \E f \in [1..n -> S] : \A a, b \in DOMAIN f : f[a] = f[b] => a = b
  <2>1. PICK k \in Nat : ExistsBijection(1..k, S)
    BY FS_NatBijection
  <2>2. k = n
    BY <2>1, FS_CountingElements
  <2>3. PICK f \in Bijection(1..n, S) : TRUE
    BY <2>1, <2>2 DEF ExistsBijection
  <2> HIDE DEF n
  <2>4. f \in [1..n -> S] /\ IsInjective(f)
    BY <2>3 DEF Bijection, Injection
  <2> QED
    BY <2>4 DEF IsInjective
<1>3. SetToSeq(S) \in [1..n -> S]
  BY <1>2 DEF SetToSeq, IsInjective
<1>4. SetToSeq(S) \in [1..n -> E]
  BY <1>3
<1> HIDE DEF n
<1> QED
  BY <1>1, <1>4, ListOf

\* The server's documents.
LEMMA LogIs ==
    ASSUME World
    PROVE  /\ Len(log) \in Nat /\ Len(log) <= MaxVersions
           /\ \A i \in 1..Len(log) : log[i].content \in Values
<1> DEFINE E == [doc : Docs, content : Values]
<1>1. log \in Seq(E) /\ Len(log) <= MaxVersions
  BY DEF World, LogType
<1>2. \A e \in E : e.content \in Values
  OBVIOUS
<1> HIDE DEF E
<1>3. \A i \in 1..Len(log) : log[i] \in E
  BY <1>1
<1> QED
  BY <1>1, <1>2, <1>3

LEMMA LastWriteIs ==
    ASSUME World, NEW d \in Docs
    PROVE  LastWrite(d, Len(log)) \in Versions /\ StateAt(d, Len(log)) \in Values
<1> DEFINE n == Len(log)
           S == {0} \cup {i \in 1..n : log[i].doc = d}
           last == LastWrite(d, n)
<1>1. n \in Nat /\ n <= MaxVersions /\ \A i \in 1..n : log[i].content \in Values
  BY LogIs
<1>2. S \subseteq 0..n /\ S # {}
  BY <1>1
<1>3. last \in S
  <2>1. PICK x \in S : \A y \in S : x >= y
    <3> HIDE DEF S, n
    <3> QED
      BY <1>1, <1>2, GreatestExists
  <2>2. Max(S) \in S
    BY <2>1 DEF Max
  <2> QED
    BY <2>2 DEF LastWrite
<1>4. last \in Versions
  BY <1>1, <1>2, <1>3, BoundsAssumption DEF Versions
<1>5. last # 0 => log[last].content \in Values
  <2> HIDE DEF last, n
  <2> QED
    BY <1>1, <1>3
<1>6. StateAt(d, n) = IF last = 0 THEN Missing ELSE log[last].content
  BY DEF StateAt
<1> HIDE DEF last, n
<1> QED
  BY <1>4, <1>5, <1>6, ZeroVersion DEF last, n

LEMMA DocumentNewsTyped ==
    ASSUME World, NEW d \in Docs, NEW bare \in BOOLEAN
    PROVE  DocumentNews(d, bare) \in Message
<1> DEFINE found == StateAt(d, Len(log)) # Missing
           doc == [version |-> LastWrite(d, Len(log)), content |-> StateAt(d, Len(log)),
                   committed |-> FALSE]
           update == IF bare /\ ~found THEN <<>> ELSE [x \in {d} |-> doc]
           about == Uninformed(d)
<1>1. doc \in CachedDoc
  BY LastWriteIs DEF CachedDoc
<1>2. <<>> \in Partial(Docs, CachedDoc)
  BY PartialNone
<1>3. [x \in {d} |-> doc] \in Partial(Docs, CachedDoc)
  BY <1>1, OnePartial
<1>4. update \in Partial(Docs, CachedDoc) /\ (found => d \in DOMAIN update)
  BY <1>2, <1>3
<1>5. DOMAIN client.serving \subseteq Watched /\ IsFiniteSet(DOMAIN client.serving)
  BY ServingIs
<1>6. /\ about \subseteq DOMAIN client.serving /\ about \subseteq Watched
      /\ \A t \in about : d \in t.docs
  BY <1>5 DEF Uninformed
<1>7. about \in Finite(Watched)
  BY <1>5, <1>6, FS_Subset DEF Finite
<1>8. DocumentNews(d, bare) = [kind |-> "document", about |-> about, doc |-> d, found |-> found,
                               update |-> update]
  BY DEF DocumentNews
<1> HIDE DEF update, about
<1>9. found \in BOOLEAN
  OBVIOUS
<1> HIDE DEF found
<1>10. DocumentNews(d, bare) \in News
  BY <1>4, <1>7, <1>8, <1>9 DEF News
<1> QED
  BY <1>4, <1>6, <1>8, <1>10 DEF Document, Message

\* A consistent snapshot is a list of messages.
LEMMA ServerTellsShown ==
    ASSUME World, NEW how \in {"named", "bare", "filter"}, ServerTells(how)
    PROVE  Shown(client') /\ log' = log
<1> DEFINE S == DOMAIN client.serving
           resumed == {t \in S : client.serving[t].fresh /\ client.serving[t].at > 0}
           news == {d \in Docs : Uninformed(d) # {}}
           gone == {d \in news : StateAt(d, Len(log)) = Missing}
           named == IF how = "filter" THEN news \ gone ELSE news
           filters == IF how = "filter" THEN resumed ELSE {}
           fresh == {t \in S : client.serving[t].fresh}
           documents == {DocumentNews(d, how = "bare") : d \in named}
           counts == {[kind |-> "filter", about |-> {t}, count |-> Count(t)] : t \in filters}
           currents == {About(t, "current") : t \in fresh}
           last == <<[kind |-> "snapshot", about |-> {}, version |-> Len(log)]>>
           messages == SetToSeq(documents) \o SetToSeq(counts) \o SetToSeq(currents) \o last
           serving == [t \in S |-> [at |-> Len(log), fresh |-> FALSE]]
<1>1. Told(messages, serving) /\ log' = log
  BY DEF ServerTells
<1>3. S \subseteq Watched /\ IsFiniteSet(S)
  BY ServingIs
<1>4. Len(log) \in Versions
  BY DEF World, LogType, Versions
<1>5. serving \in ServingType
  <2>1. serving \in [S -> [at : Versions, fresh : BOOLEAN]]
    BY <1>4
  <2> HIDE DEF serving, S
  <2> QED
    BY <1>3, <2>1, PartialOf DEF ServingType
<1> HIDE DEF serving
<1>6. SetToSeq(documents) \in Seq(Message)
  <2>1. named \subseteq Docs /\ IsFiniteSet(named)
    BY DocsAssumption, FS_Subset
  <2> HIDE DEF named
  <2>2. \A d \in named : DocumentNews(d, how = "bare") \in Message
    BY <2>1, DocumentNewsTyped
  <2>3. IsFiniteSet(documents)
    <3> DEFINE f == [d \in named |-> DocumentNews(d, how = "bare")]
    <3>1. DOMAIN f = named /\ documents = {f[x] : x \in DOMAIN f}
      OBVIOUS
    <3> HIDE DEF f, documents
    <3> QED
      BY <2>1, <3>1, ImageFinite
  <2> QED
    BY <2>2, <2>3, SetToSeqIs
<1>7. SetToSeq(counts) \in Seq(Message)
  <2>1. filters \subseteq S /\ IsFiniteSet(filters)
    BY <1>3, FS_Subset
  <2> HIDE DEF filters
  <2>2. ASSUME NEW t \in filters
        PROVE  [kind |-> "filter", about |-> {t}, count |-> Count(t)] \in Message
    <3>1. t \in Watched /\ t.docs \subseteq Docs
      BY <1>3, <2>1, RemoteKeysTyped DEF Watched, Query, Lookup
    <3>2. IsFiniteSet({d \in t.docs : StateAt(d, Len(log)) # Missing})
      BY <3>1, DocsAssumption, FS_Subset
    <3>3. Count(t) \in Nat
      BY <3>2, FS_CardinalityType DEF Count
    <3> QED
      BY <3>1, <3>3 DEF Message, Filter
  <2>3. IsFiniteSet(counts)
    <3> DEFINE f == [t \in filters |-> [kind |-> "filter", about |-> {t}, count |-> Count(t)]]
    <3>1. DOMAIN f = filters /\ counts = {f[x] : x \in DOMAIN f}
      OBVIOUS
    <3> HIDE DEF f, counts
    <3> QED
      BY <2>1, <3>1, ImageFinite
  <2> QED
    BY <2>2, <2>3, SetToSeqIs
<1>8. SetToSeq(currents) \in Seq(Message)
  <2>1. fresh \subseteq S /\ IsFiniteSet(fresh)
    BY <1>3, FS_Subset
  <2> HIDE DEF fresh
  <2>2. \A t \in fresh : About(t, "current") \in Message
    BY <1>3, <2>1, AboutTyped
  <2>3. IsFiniteSet(currents)
    <3> DEFINE f == [t \in fresh |-> About(t, "current")]
    <3>1. DOMAIN f = fresh /\ currents = {f[x] : x \in DOMAIN f}
      OBVIOUS
    <3> HIDE DEF f, currents
    <3> QED
      BY <2>1, <3>1, ImageFinite
  <2> QED
    BY <2>2, <2>3, SetToSeqIs
<1>9. last \in Seq(Message)
  <2>1. [kind |-> "snapshot", about |-> {}, version |-> Len(log)] \in Message
    BY <1>4 DEF Message, Snapshot
  <2> QED
    BY <2>1
<1> HIDE DEF documents, counts, currents, last
<1>10. messages \in Seq(Message)
  BY <1>6, <1>7, <1>8, <1>9
<1> HIDE DEF messages
<1> QED
  BY <1>1, <1>5, <1>10, ToldShown

\* Answers of the server to writes.
LEMMA AnswerShown ==
    ASSUME World, NEW i \in DOMAIN client.writes, NEW version \in Versions \cup {-1},
           client' = [client EXCEPT !.writes[i].version = version]
    PROVE  Shown(client')
<1> DEFINE w == [client.writes[i] EXCEPT !.version = version]
           writes == [client.writes EXCEPT ![i] = w]
<1>1. client.writes \in Seq(WriteType) /\ Shape(client)
  BY FieldTypes DEF World, Shown, Typed
<1>2. client' = [client EXCEPT !.writes = writes]
  BY <1>1 DEF Shape, Fields
<1>3. client.writes[i] \in WriteType
  BY <1>1
<1>4. w \in WriteType /\ w.doc = client.writes[i].doc /\ w.content = client.writes[i].content
  BY <1>3 DEF WriteType
<1> HIDE DEF w
<1>5. writes \in Seq(WriteType) /\ Len(writes) = Len(client.writes)
  BY <1>1, <1>4
<1>6. \A j \in 1..Len(writes) : /\ writes[j].doc = client.writes[j].doc
                                /\ writes[j].content = client.writes[j].content
  BY <1>1, <1>4, <1>5
<1> HIDE DEF writes
<1>7. Shown(client)
  BY DEF World
<1>8. Shown([client EXCEPT !.writes = writes])
  BY <1>5, <1>6, <1>7, AnswersShown
<1> QED
  BY <1>2, <1>8

LEMMA ServerCommitsWorld ==
    ASSUME World, NEW i \in DOMAIN client.writes, ServerCommits(i)
    PROVE  Shown(client') /\ log' \in LogType /\ Len(log') <= MaxVersions
<1> DEFINE w == client.writes[i]
<1>1. log \in Seq([doc : Docs, content : Values]) /\ client.writes \in Seq(WriteType)
  BY FieldTypes DEF World, Shown, LogType
<1>2. w \in WriteType
  BY <1>1
<1>3. [doc |-> w.doc, content |-> w.content] \in [doc : Docs, content : Values]
  BY <1>2 DEF WriteType
<1>4. log' = Append(log, [doc |-> w.doc, content |-> w.content]) /\ Len(log) < MaxVersions
  BY DEF ServerCommits
<1> HIDE DEF w
<1>5. /\ log' \in Seq([doc : Docs, content : Values]) /\ Len(log') = Len(log) + 1
      /\ Len(log) \in Nat
  BY <1>1, <1>3, <1>4
<1>6. Len(log') \in Versions /\ Len(log') <= MaxVersions
  BY <1>4, <1>5, BoundsAssumption DEF Versions
<1>7. client' = [client EXCEPT !.writes[i].version = Len(log')]
  BY DEF ServerCommits
<1>8. Shown(client')
  BY <1>6, <1>7, AnswerShown
<1> QED
  BY <1>5, <1>6, <1>8 DEF LogType

LEMMA OthersWriteWorld ==
    ASSUME World, NEW d \in Docs, NEW v \in Contents[d], OthersWrite(d, v)
    PROVE  client' = client /\ log' \in LogType /\ Len(log') <= MaxVersions
<1>1. log \in Seq([doc : Docs, content : Values]) /\ client.writes \in Seq(WriteType)
  BY FieldTypes DEF World, Shown, LogType
<1>2. [doc |-> d, content |-> v] \in [doc : Docs, content : Values]
  BY ContentTyped
<1>3. /\ log' = Append(log, [doc |-> d, content |-> v]) /\ client' = client
      /\ Len(log) + Len(client.writes) < MaxVersions
  BY DEF OthersWrite
<1>4. Len(log) \in Nat /\ Len(client.writes) \in Nat /\ MaxVersions \in Nat
  BY <1>1, BoundsAssumption
<1>5. log' \in Seq([doc : Docs, content : Values]) /\ Len(log') = Len(log) + 1
  BY <1>1, <1>2, <1>3
<1> QED
  BY <1>3, <1>4, <1>5 DEF LogType

LEMMA WorldStep ==
    ASSUME World, [Next]_vars
    PROVE  World'
<1>0. ASSUME Shown(client'), log' \in LogType, Len(log') <= MaxVersions PROVE World'
  BY <1>0 DEF World, LogType, Values
<1>1. ASSUME Shown(client'), log' = log PROVE World'
  BY <1>0, <1>1 DEF World
<1>2. CASE Listen
  BY <1>1, <1>2, ListenShown
<1>3. CASE StopListening
  BY <1>1, <1>3, StopListeningShown
<1>4. CASE WriteAcknowledged
  BY <1>1, <1>4, WriteAcknowledgedEmits, EmittedShown
<1>5. CASE WriteRefused
  BY <1>1, <1>5, WriteRefusedEmits, EmittedShown
<1>6. CASE DisableNetwork
  BY <1>1, <1>6, DisableNetworkShown
<1>7. CASE EnableNetwork
  BY <1>1, <1>7, EnableNetworkShown
<1>8. CASE NetworkRestarts
  BY <1>1, <1>8, NetworkRestartsShown
<1>9. CASE Restart
  BY <1>1, <1>9, RestartShown
<1>10. CASE StreamOpens
  BY <1>1, <1>10, StreamOpensShown
<1>11. CASE StreamFails
  BY <1>1, <1>11, StreamFailsShown
<1>12. CASE IdleTimeout
  BY <1>1, <1>12, IdleTimeoutShown
<1>13. CASE OnlineTimeout
  BY <1>1, <1>13, OnlineTimeoutShown
<1>14. CASE TargetAdded
  BY <1>1, <1>14, TargetAddedShown
<1>15. CASE TargetRemoved
  BY <1>1, <1>15, TargetRemovedShown
<1>16. CASE TargetCurrent
  BY <1>1, <1>16, TargetCurrentShown
<1>17. CASE TargetReset
  BY <1>1, <1>17, TargetResetShown
<1>18. CASE TargetRefused
  BY <1>1, <1>18, TargetRefusedShown
<1>19. CASE ExistenceFilter
  BY <1>1, <1>19, ExistenceFilterShown
<1>20. CASE DocumentChange
  BY <1>1, <1>20, DocumentChangeShown
<1>21. CASE ServerAdds
  BY <1>1, <1>21, ServerAddsShown
<1>22. CASE ServerRemoves
  BY <1>1, <1>22, ServerRemovesShown
<1>23. CASE ServerRefuses
  BY <1>1, <1>23, ServerRefusesShown
<1>24. CASE \E d \in Docs : \E v \in Contents[d] : Write(d, v) \/ OthersWrite(d, v)
  <2>0. PICK d \in Docs : \E v \in Contents[d] : Write(d, v) \/ OthersWrite(d, v)
    BY <1>24
  <2>1. PICK v \in Contents[d] : Write(d, v) \/ OthersWrite(d, v)
    BY <2>0
  <2>2. CASE Write(d, v)
    BY <1>1, <2>2, WriteEmits, EmittedShown
  <2>3. CASE OthersWrite(d, v)
    <3>1. client' = client /\ log' \in LogType /\ Len(log') <= MaxVersions
      BY <2>3, OthersWriteWorld
    <3>2. Shown(client')
      BY <3>1 DEF World
    <3> QED
      BY <1>0, <3>1, <3>2
  <2> QED
    BY <2>1, <2>2, <2>3
<1>25. CASE \E late \in BOOLEAN : WatchSnapshot(late)
  BY <1>1, <1>25, WatchSnapshotShown
<1>26. CASE \E t \in DOMAIN client.serving : ServerResets(t)
  BY <1>1, <1>26, ServerResetsShown
<1>27. CASE \E how \in {"named", "bare", "filter"} : ServerTells(how)
  BY <1>1, <1>27, ServerTellsShown
<1>28. CASE \E i \in DOMAIN client.writes : ServerCommits(i) \/ ServerRefusesWrite(i)
  <2>1. PICK i \in DOMAIN client.writes : ServerCommits(i) \/ ServerRefusesWrite(i)
    BY <1>28
  <2>2. CASE ServerCommits(i)
    BY <1>0, <2>2, ServerCommitsWorld
  <2>3. CASE ServerRefusesWrite(i)
    <3>1. client' = [client EXCEPT !.writes[i].version = -1] /\ log' = log
      BY <2>3 DEF ServerRefusesWrite
    <3>2. -1 \in Versions \cup {-1}
      OBVIOUS
    <3>3. Shown(client')
      BY <3>1, <3>2, AnswerShown
    <3> QED
      BY <1>1, <3>1, <3>3
  <2> QED
    BY <2>1, <2>2, <2>3
<1>29. CASE UNCHANGED vars
  BY <1>1, <1>29 DEF vars, World
<1> QED
  BY <1>2, <1>3, <1>4, <1>5, <1>6, <1>7, <1>8, <1>9, <1>10, <1>11, <1>12, <1>13, <1>14,
     <1>15, <1>16, <1>17, <1>18, <1>19, <1>20, <1>21, <1>22, <1>23, <1>24, <1>25, <1>26,
     <1>27, <1>28, <1>29 DEF Next

-----------------------------------------------------------------------------
(* The places of messages and requests in their lists, and how many there are. *)

\* The places of elements of A are among those of the list, and finitely many.
LEMMA AtIs ==
    ASSUME NEW D, NEW s \in Seq(D), NEW A
    PROVE  /\ At(s, A) \subseteq 1 .. Len(s) /\ IsFiniteSet(At(s, A))
           /\ Cardinality(At(s, A)) \in Nat
           /\ Cardinality(At(s, A)) = 0 <=> At(s, A) = {}
<1>1. Len(s) \in Nat /\ At(s, A) \subseteq 1 .. Len(s)
  BY DEF At
<1>2. IsFiniteSet(1 .. Len(s))
  BY <1>1, FS_Interval
<1>3. IsFiniteSet(At(s, A))
  BY <1>1, <1>2, FS_Subset
<1> QED
  BY <1>1, <1>3, FS_CardinalityType, FS_EmptySet

\* A list with one more element has at most one more place.
LEMMA AtAppend ==
    ASSUME NEW D, NEW s \in Seq(D), NEW x \in D, NEW A
    PROVE  /\ At(Append(s, x), A) = At(s, A) \cup (IF x \in A THEN {Len(s) + 1} ELSE {})
           /\ Cardinality(At(Append(s, x), A))
                = Cardinality(At(s, A)) + (IF x \in A THEN 1 ELSE 0)
<1>1. Len(s) \in Nat /\ DOMAIN s = 1 .. Len(s)
  OBVIOUS
<1>2. /\ DOMAIN Append(s, x) = 1 .. (Len(s) + 1)
      /\ \A i \in 1 .. Len(s) : Append(s, x)[i] = s[i]
      /\ Append(s, x)[Len(s) + 1] = x
  BY <1>1
<1>3. At(Append(s, x), A) = At(s, A) \cup (IF x \in A THEN {Len(s) + 1} ELSE {})
  BY <1>1, <1>2 DEF At
<1>4. Len(s) + 1 \notin At(s, A) /\ IsFiniteSet(At(s, A)) /\ Cardinality(At(s, A)) \in Nat
  BY <1>1, AtIs
<1>5. CASE x \in A
  BY <1>3, <1>4, <1>5, FS_AddElement
<1>6. CASE x \notin A
  BY <1>3, <1>4, <1>6
<1> QED
  BY <1>3, <1>5, <1>6

\* Without its head a list has its places one further down, and at most one fewer.
LEMMA AtTail ==
    ASSUME NEW D, NEW s \in Seq(D), s # <<>>, NEW A
    PROVE  /\ 1 \in At(s, A) <=> Head(s) \in A
           /\ \A i \in Nat : i \in At(Tail(s), A) <=> i # 0 /\ i + 1 \in At(s, A)
           /\ Cardinality(At(s, A))
                = Cardinality(At(Tail(s), A)) + (IF Head(s) \in A THEN 1 ELSE 0)
<1> DEFINE S == At(Tail(s), A)
           T == At(s, A) \ {1}
           f == [i \in S |-> i + 1]
<1>1. /\ Len(s) \in Nat \ {0} /\ DOMAIN s = 1 .. Len(s) /\ Head(s) = s[1]
      /\ DOMAIN Tail(s) = 1 .. (Len(s) - 1) /\ \A i \in 1 .. (Len(s) - 1) : Tail(s)[i] = s[i + 1]
  OBVIOUS
<1>2. 1 \in At(s, A) <=> Head(s) \in A
  BY <1>1 DEF At
<1>3. \A i \in Nat : i \in S <=> i # 0 /\ i + 1 \in At(s, A)
  BY <1>1 DEF At
<1>4. At(s, A) \subseteq Nat \ {0} /\ S \subseteq Nat
  BY <1>1 DEF At
<1>5. ExistsBijection(S, T)
  <2>1. f \in [S -> T]
    BY <1>3, <1>4
  <2>2. \A a, b \in S : f[a] = f[b] => a = b
    BY <1>4
  <2>3. \A b \in T : \E a \in S : f[a] = b
    <3> TAKE b \in T
    <3>1. b - 1 \in S /\ f[b - 1] = b
      BY <1>3, <1>4
    <3> QED
      BY <3>1
  <2>4. f \in Bijection(S, T)
    BY <2>1, <2>2, <2>3, Fun_IsBij
  <2> QED
    BY <2>4, Fun_ExistsBij
<1>6. IsFiniteSet(At(s, A)) /\ IsFiniteSet(S)
  <2>1. Tail(s) \in Seq(D)
    OBVIOUS
  <2> QED
    BY <2>1, AtIs
<1>7. Cardinality(T) = Cardinality(S) /\ Cardinality(At(s, A)) \in Nat
  BY <1>5, <1>6, FS_Bijection, FS_CardinalityType
<1>8. Cardinality(T) = IF 1 \in At(s, A) THEN Cardinality(At(s, A)) - 1 ELSE Cardinality(At(s, A))
  BY <1>6, FS_RemoveElement
<1>9. Cardinality(At(s, A)) = Cardinality(S) + (IF Head(s) \in A THEN 1 ELSE 0)
  BY <1>2, <1>7, <1>8
<1> QED
  BY <1>2, <1>3, <1>9

\* Elements that are not in A add no place.
LEMMA AtConcat ==
    ASSUME NEW D, NEW s \in Seq(D), NEW m \in Seq(D), NEW A, \A i \in DOMAIN m : m[i] \notin A
    PROVE  At(s \o m, A) = At(s, A)
<1>1. /\ Len(s) \in Nat /\ DOMAIN s = 1 .. Len(s) /\ Len(m) \in Nat /\ DOMAIN m = 1 .. Len(m)
      /\ DOMAIN (s \o m) = 1 .. (Len(s) + Len(m))
      /\ \A i \in 1 .. (Len(s) + Len(m)) :
            (s \o m)[i] = IF i <= Len(s) THEN s[i] ELSE m[i - Len(s)]
  OBVIOUS
<1>2. ASSUME NEW i \in DOMAIN (s \o m), (s \o m)[i] \in A PROVE i \in DOMAIN s /\ s[i] \in A
  BY <1>1, <1>2
<1>3. ASSUME NEW i \in DOMAIN s, s[i] \in A PROVE i \in DOMAIN (s \o m) /\ (s \o m)[i] \in A
  BY <1>1, <1>3
<1> QED
  BY <1>2, <1>3 DEF At

\* An empty list has no places.
LEMMA AtNone ==
    ASSUME NEW A
    PROVE  At(<<>>, A) = {} /\ Cardinality(At(<<>>, A)) = 0
BY FS_EmptySet DEF At

-----------------------------------------------------------------------------
(* What is due about a target. *)

\* An answer, or a request, is about one target.
LEMMA KindsOf ==
    ASSUME NEW t
    PROVE  /\ Closing(t) \subseteq Answers(t) /\ Adds(t) \subseteq Asks(t)
           /\ \A u : u # t => Answers(t) \cap Answers(u) = {} /\ Asks(t) \cap Asks(u) = {}
<1>1. Closing(t) \subseteq Answers(t) /\ Adds(t) \subseteq Asks(t)
  BY DEF Closing, Answers, Adds, Asks
<1>2. ASSUME NEW u, u # t PROVE Answers(t) \cap Answers(u) = {} /\ Asks(t) \cap Asks(u) = {}
  <2>1. {u} # {t}
    BY <1>2
  <2> QED
    BY <1>2, <2>1 DEF Answers, Asks
<1> QED
  BY <1>1, <1>2

\* A larger set has the places of a smaller one.
LEMMA AtWithin ==
    ASSUME NEW s, NEW A, NEW B, A \subseteq B
    PROVE  At(s, A) \subseteq At(s, B)
BY DEF At

\* What is due is counted, and nothing is when nothing is on its way.
LEMMA DueIs ==
    ASSUME NEW in \in Seq(Message), NEW out \in Seq(RequestType), NEW t
    PROVE  /\ Due(in, out, t) \in Nat
           /\ Due(in, out, t) = 0 <=> At(in, Answers(t)) = {} /\ At(out, Asks(t)) = {}
<1>1. /\ Cardinality(At(in, Answers(t))) \in Nat
      /\ Cardinality(At(in, Answers(t))) = 0 <=> At(in, Answers(t)) = {}
  BY AtIs
<1>2. /\ Cardinality(At(out, Asks(t))) \in Nat
      /\ Cardinality(At(out, Asks(t))) = 0 <=> At(out, Asks(t)) = {}
  BY AtIs
<1> QED
  BY <1>1, <1>2 DEF Due

\* One more request.
LEMMA OneMoreRequest ==
    ASSUME NEW in \in Seq(Message), NEW out \in Seq(RequestType), NEW r \in RequestType,
           NEW t
    PROVE  /\ Due(in, Append(out, r), t) = Due(in, out, t) + (IF t = r.target THEN 1 ELSE 0)
           /\ t # r.target /\ InOrder(in, out, t) => InOrder(in, Append(out, r), t)
           /\ t = r.target /\ Due(in, out, t) = 0 /\ r.add => InOrder(in, Append(out, r), t)
<1>1. /\ At(Append(out, r), Asks(t))
            = At(out, Asks(t)) \cup (IF r \in Asks(t) THEN {Len(out) + 1} ELSE {})
      /\ Cardinality(At(Append(out, r), Asks(t)))
            = Cardinality(At(out, Asks(t))) + (IF r \in Asks(t) THEN 1 ELSE 0)
  BY AtAppend
<1>2. At(Append(out, r), Adds(t))
            = At(out, Adds(t)) \cup (IF r \in Adds(t) THEN {Len(out) + 1} ELSE {})
  BY AtAppend
<1>3. r \in Asks(t) <=> t = r.target
  BY DEF Asks, RequestType
<1>4. r \in Adds(t) <=> t = r.target /\ r.add
  BY DEF Adds, RequestType
<1>5. Due(in, Append(out, r), t) = Due(in, out, t) + (IF t = r.target THEN 1 ELSE 0)
  <2>1. Cardinality(At(out, Asks(t))) \in Nat /\ Cardinality(At(in, Answers(t))) \in Nat
    BY AtIs
  <2> QED
    BY <1>1, <1>3, <2>1 DEF Due
<1>6. t # r.target /\ InOrder(in, out, t) => InOrder(in, Append(out, r), t)
  BY <1>1, <1>2, <1>3, <1>4 DEF InOrder
<1>7. ASSUME t = r.target, Due(in, out, t) = 0, r.add PROVE InOrder(in, Append(out, r), t)
  <2>1. At(in, Answers(t)) = {} /\ At(out, Asks(t)) = {}
    BY <1>7, DueIs
  <2>2. At(in, Closing(t)) = {} /\ At(out, Adds(t)) = {}
    BY <2>1, KindsOf, AtWithin
  <2>3. Len(out) + 1 \in Nat
    OBVIOUS
  <2> QED
    BY <1>1, <1>2, <1>3, <1>4, <1>7, <2>1, <2>2, <2>3 DEF InOrder
<1> QED
  BY <1>5, <1>6, <1>7

\* A query that starts over: its removal, and its addition.
LEMMA TwoMoreRequests ==
    ASSUME NEW in \in Seq(Message), NEW out \in Seq(RequestType), NEW r \in RequestType,
           NEW q \in RequestType, ~r.add, q.add, r.target = q.target,
           Due(in, out, r.target) = 0
    PROVE  InOrder(in, Append(Append(out, r), q), r.target)
<1> DEFINE t == r.target
           one == Append(out, r)
           two == Append(one, q)
<1>1. one \in Seq(RequestType) /\ Len(one) \in Nat
  OBVIOUS
<1>2. At(in, Answers(t)) = {} /\ At(out, Asks(t)) = {}
  BY DueIs
<1>3. At(in, Closing(t)) = {} /\ At(out, Adds(t)) = {}
  BY <1>2, KindsOf, AtWithin, Zenon
<1>4. r \notin Adds(t) /\ q \in Adds(t) /\ q \in Asks(t)
  BY DEF Adds, Asks, RequestType
<1> HIDE DEF t
<1>5. At(one, Adds(t)) = At(out, Adds(t)) \cup (IF r \in Adds(t) THEN {Len(out) + 1} ELSE {})
  BY AtAppend
<1>6. At(two, Adds(t)) = At(one, Adds(t)) \cup (IF q \in Adds(t) THEN {Len(one) + 1} ELSE {})
  BY <1>1, AtAppend, Zenon
<1>7. At(two, Asks(t)) = At(one, Asks(t)) \cup (IF q \in Asks(t) THEN {Len(one) + 1} ELSE {})
  BY <1>1, AtAppend, Zenon
<1>8. \A i \in At(one, Asks(t)) : i <= Len(one) + 1
  <2> HIDE DEF one
  <2>1. At(one, Asks(t)) \subseteq 1 .. Len(one)
    BY <1>1, AtIs
  <2> QED
    BY <1>1, <2>1
<1> HIDE DEF one, two
<1>9. At(two, Adds(t)) = {Len(one) + 1}
  BY <1>3, <1>4, <1>5, <1>6
<1>10. \A i \in At(two, Asks(t)) : i <= Len(one) + 1
  BY <1>1, <1>4, <1>7, <1>8
<1>11. InOrder(in, two, t)
  BY <1>2, <1>3, <1>9, <1>10 DEF InOrder
<1> QED
  BY <1>11 DEF one, two, t

\* A message is read.
LEMMA OneMessageRead ==
    ASSUME NEW in \in Seq(Message), in # <<>>, NEW out \in Seq(RequestType), NEW t
    PROVE  /\ Due(in, out, t) = Due(Tail(in), out, t) + (IF Head(in) \in Answers(t) THEN 1 ELSE 0)
           /\ InOrder(in, out, t) => InOrder(Tail(in), out, t)
           /\ InOrder(in, out, t) /\ Head(in) \in Closing(t) => Due(Tail(in), out, t) = 0
           /\ InOrder(in, out, t) /\ Head(in) \in Answers(t) /\ Head(in) \notin Closing(t)
                => Due(Tail(in), out, t) # 0
<1> DEFINE rest == Tail(in)
<1>1. /\ 1 \in At(in, Answers(t)) <=> Head(in) \in Answers(t)
      /\ \A i \in Nat : i \in At(rest, Answers(t)) <=> i # 0 /\ i + 1 \in At(in, Answers(t))
      /\ Cardinality(At(in, Answers(t)))
                = Cardinality(At(rest, Answers(t))) + (IF Head(in) \in Answers(t) THEN 1 ELSE 0)
  BY AtTail
<1>2. /\ 1 \in At(in, Closing(t)) <=> Head(in) \in Closing(t)
      /\ \A i \in Nat : i \in At(rest, Closing(t)) <=> i # 0 /\ i + 1 \in At(in, Closing(t))
  BY AtTail
<1>3. rest \in Seq(Message)
  OBVIOUS
<1> HIDE DEF rest
<1>4. /\ At(in, Answers(t)) \subseteq Nat \ {0} /\ At(rest, Answers(t)) \subseteq Nat
      /\ Cardinality(At(rest, Answers(t))) \in Nat
  BY <1>3, AtIs
<1>5. Cardinality(At(out, Asks(t))) \in Nat /\ At(out, Asks(t)) \subseteq Nat
  BY AtIs
<1>6. Due(in, out, t) = Due(rest, out, t) + (IF Head(in) \in Answers(t) THEN 1 ELSE 0)
  BY <1>1, <1>4, <1>5 DEF Due
<1>7. /\ At(in, Closing(t)) \subseteq At(in, Answers(t))
      /\ At(rest, Closing(t)) \subseteq At(rest, Answers(t)) /\ Closing(t) \subseteq Answers(t)
  BY KindsOf, AtWithin
<1>8. ASSUME InOrder(in, out, t), Head(in) \in Closing(t)
      PROVE  At(rest, Answers(t)) = {} /\ At(out, Asks(t)) = {}
  <2>1. At(out, Asks(t)) = {} /\ \A j \in At(in, Answers(t)) : j <= 1
    BY <1>2, <1>8 DEF InOrder
  <2>2. ASSUME NEW j \in At(rest, Answers(t)) PROVE FALSE
    <3>1. j # 0 /\ j + 1 \in At(in, Answers(t)) /\ j \in Nat
      BY <1>1, <1>4
    <3> QED
      BY <2>1, <3>1
  <2> QED
    BY <2>1, <2>2
<1>9. ASSUME InOrder(in, out, t), Head(in) \notin Closing(t),
             At(in, Answers(t)) # {} \/ At(out, Asks(t)) # {}
      PROVE  At(rest, Closing(t)) # {} \/ At(out, Adds(t)) # {}
  <2>1. CASE At(out, Adds(t)) # {}
    BY <2>1
  <2>2. CASE At(out, Adds(t)) = {}
    <3>1. PICK i \in At(in, Closing(t)) : TRUE
      BY <1>9, <2>2 DEF InOrder
    <3>2. i \in Nat /\ i # 0 /\ i # 1
      BY <1>2, <1>4, <1>7, <1>9, <3>1
    <3>3. i - 1 \in Nat /\ i - 1 # 0 /\ (i - 1) + 1 = i
      BY <3>2
    <3>4. i - 1 \in At(rest, Closing(t))
      BY <1>2, <3>1, <3>3
    <3> QED
      BY <3>4
  <2> QED
    BY <2>1, <2>2
<1>10. ASSUME InOrder(in, out, t) PROVE InOrder(rest, out, t)
  <2>1. ASSUME NEW i \in At(rest, Closing(t))
        PROVE  (\A j \in At(rest, Answers(t)) : j <= i) /\ At(out, Asks(t)) = {}
    <3>1. i \in Nat /\ i + 1 \in At(in, Closing(t))
      BY <1>2, <1>4, <1>7
    <3>2. (\A j \in At(in, Answers(t)) : j <= i + 1) /\ At(out, Asks(t)) = {}
      BY <1>10, <3>1 DEF InOrder
    <3>3. ASSUME NEW j \in At(rest, Answers(t)) PROVE j <= i
      <4>1. j \in Nat /\ j + 1 \in At(in, Answers(t))
        BY <1>1, <1>4
      <4> QED
        BY <3>1, <3>2, <4>1
    <3> QED
      BY <3>2, <3>3
  <2>2. \A i \in At(out, Adds(t)) : \A j \in At(out, Asks(t)) : j <= i
    BY <1>10 DEF InOrder
  <2>3. At(rest, Answers(t)) # {} => At(in, Answers(t)) # {}
    BY <1>1, <1>4
  <2>4. At(rest, Answers(t)) # {} \/ At(out, Asks(t)) # {}
          => At(rest, Closing(t)) # {} \/ At(out, Adds(t)) # {}
    BY <1>8, <1>9, <1>10, <2>3
  <2> QED
    BY <2>1, <2>2, <2>4 DEF InOrder
<1>11. InOrder(in, out, t) /\ Head(in) \in Closing(t) => Due(rest, out, t) = 0
  BY <1>3, <1>8, DueIs
<1>12. ASSUME InOrder(in, out, t), Head(in) \in Answers(t), Head(in) \notin Closing(t)
       PROVE  Due(rest, out, t) # 0
  <2>1. At(rest, Closing(t)) # {} \/ At(out, Adds(t)) # {}
    BY <1>1, <1>9, <1>12
  <2>2. At(out, Adds(t)) \subseteq At(out, Asks(t))
    BY KindsOf, AtWithin
  <2> QED
    BY <1>3, <1>7, <2>1, <2>2, DueIs
<1> QED
  BY <1>6, <1>10, <1>11, <1>12 DEF rest

-----------------------------------------------------------------------------
(* What the server answers and tells. *)

\* The server answers the request it reads.
LEMMA RequestAnswered ==
    ASSUME NEW in \in Seq(Message), NEW out \in Seq(RequestType), out # <<>>,
           NEW m \in Message, m \in Answers(Head(out).target),
           m \in Closing(Head(out).target) <=> Head(out).add,
           NEW t
    PROVE  /\ Due(Append(in, m), Tail(out), t) = Due(in, out, t)
           /\ InOrder(in, out, t) => InOrder(Append(in, m), Tail(out), t)
<1> DEFINE r == Head(out)
           then == Append(in, m)
           rest == Tail(out)
<1>1. r \in RequestType /\ rest \in Seq(RequestType)
  OBVIOUS
<1> HIDE DEF r, rest
<1>2. /\ m \in Answers(t) <=> r \in Asks(t)
      /\ m \in Closing(t) <=> r \in Adds(t)
  <2>1. r \in Asks(t) <=> t = r.target
    BY <1>1 DEF Asks, RequestType
  <2>2. r \in Adds(t) <=> t = r.target /\ r.add
    BY <1>1 DEF Adds, RequestType
  <2>3. m \in Answers(t) <=> t = r.target
    BY KindsOf DEF r
  <2>4. m \in Closing(t) => m \in Answers(t)
    BY KindsOf
  <2>5. t = r.target => (m \in Closing(t) <=> r.add)
    BY DEF r
  <2> QED
    BY <2>1, <2>2, <2>3, <2>4, <2>5
<1>3. /\ At(then, Answers(t)) = At(in, Answers(t)) \cup (IF m \in Answers(t) THEN {Len(in) + 1} ELSE {})
      /\ Cardinality(At(then, Answers(t)))
            = Cardinality(At(in, Answers(t))) + (IF m \in Answers(t) THEN 1 ELSE 0)
  BY AtAppend
<1>4. At(then, Closing(t)) = At(in, Closing(t)) \cup (IF m \in Closing(t) THEN {Len(in) + 1} ELSE {})
  BY AtAppend
<1>5. /\ 1 \in At(out, Asks(t)) <=> r \in Asks(t)
      /\ \A i \in Nat : i \in At(rest, Asks(t)) <=> i # 0 /\ i + 1 \in At(out, Asks(t))
      /\ Cardinality(At(out, Asks(t)))
            = Cardinality(At(rest, Asks(t))) + (IF r \in Asks(t) THEN 1 ELSE 0)
  BY AtTail DEF r, rest
<1>6. /\ 1 \in At(out, Adds(t)) <=> r \in Adds(t)
      /\ \A i \in Nat : i \in At(rest, Adds(t)) <=> i # 0 /\ i + 1 \in At(out, Adds(t))
  BY AtTail DEF r, rest
<1>7. /\ At(in, Answers(t)) \subseteq 1 .. Len(in) /\ Cardinality(At(in, Answers(t))) \in Nat
      /\ Len(in) \in Nat
  BY AtIs
<1>8. At(rest, Asks(t)) \subseteq Nat /\ Cardinality(At(rest, Asks(t))) \in Nat
  <2>1. At(rest, Asks(t)) \subseteq 1 .. Len(rest) /\ Cardinality(At(rest, Asks(t))) \in Nat
    BY <1>1, AtIs
  <2> QED
    BY <2>1
<1>9. At(out, Asks(t)) \subseteq Nat \ {0}
  <2>1. At(out, Asks(t)) \subseteq 1 .. Len(out)
    BY AtIs
  <2> QED
    BY <2>1
<1>10. /\ At(in, Closing(t)) \subseteq At(in, Answers(t)) /\ At(out, Adds(t)) \subseteq At(out, Asks(t))
       /\ At(rest, Adds(t)) \subseteq At(rest, Asks(t))
  BY KindsOf, AtWithin
<1> HIDE DEF then
<1>11. Due(then, rest, t) = Due(in, out, t)
  BY <1>2, <1>3, <1>5, <1>7, <1>8 DEF Due
<1>12. ASSUME InOrder(in, out, t) PROVE InOrder(then, rest, t)
  <2>1. ASSUME NEW i \in At(then, Closing(t))
        PROVE  (\A j \in At(then, Answers(t)) : j <= i) /\ At(rest, Asks(t)) = {}
    <3>1. CASE i \in At(in, Closing(t))
      <4>1. (\A j \in At(in, Answers(t)) : j <= i) /\ At(out, Asks(t)) = {}
        BY <1>12, <3>1 DEF InOrder
      <4>2. At(rest, Asks(t)) = {} /\ m \notin Answers(t)
        BY <1>2, <1>5, <1>8, <4>1
      <4> QED
        BY <1>3, <4>1, <4>2
    <3>2. CASE i \notin At(in, Closing(t))
      <4>1. i = Len(in) + 1 /\ m \in Closing(t)
        BY <1>4, <2>1, <3>2
      <4>2. 1 \in At(out, Adds(t))
        BY <1>2, <1>6, <4>1
      <4>3. \A j \in At(out, Asks(t)) : j <= 1
        BY <1>12, <4>2 DEF InOrder
      <4>4. ASSUME NEW j \in At(rest, Asks(t)) PROVE FALSE
        BY <1>5, <1>8, <4>3
      <4>5. \A j \in At(then, Answers(t)) : j <= i
        BY <1>3, <1>7, <4>1
      <4> QED
        BY <4>4, <4>5
    <3> QED
      BY <3>1, <3>2
  <2>2. ASSUME NEW i \in At(rest, Adds(t)), NEW j \in At(rest, Asks(t)) PROVE j <= i
    <3>1. i \in Nat /\ j \in Nat /\ i + 1 \in At(out, Adds(t)) /\ j + 1 \in At(out, Asks(t))
      BY <1>5, <1>6, <1>8, <1>10
    <3>2. j + 1 <= i + 1
      BY <1>12, <3>1 DEF InOrder
    <3> QED
      BY <3>1, <3>2
  <2>3. ASSUME At(then, Answers(t)) # {} \/ At(rest, Asks(t)) # {}
        PROVE  At(then, Closing(t)) # {} \/ At(rest, Adds(t)) # {}
    <3>1. At(in, Answers(t)) # {} \/ At(out, Asks(t)) # {}
      BY <1>2, <1>3, <1>5, <1>8, <2>3
    <3>2. At(in, Closing(t)) # {} \/ At(out, Adds(t)) # {}
      BY <1>12, <3>1 DEF InOrder
    <3>3. CASE At(in, Closing(t)) # {}
      BY <1>4, <3>3
    <3>4. CASE m \in Closing(t)
      BY <1>4, <3>4
    <3>5. CASE At(out, Adds(t)) # {} /\ m \notin Closing(t)
      <4>1. PICK i \in At(out, Adds(t)) : TRUE
        BY <3>5
      <4>2. i \in Nat /\ i # 0 /\ i # 1
        BY <1>2, <1>6, <1>9, <1>10, <3>5, <4>1
      <4>3. i - 1 \in Nat /\ i - 1 # 0 /\ (i - 1) + 1 = i
        BY <4>2
      <4>4. i - 1 \in At(rest, Adds(t))
        BY <1>6, <4>1, <4>3
      <4> QED
        BY <4>4
    <3> QED
      BY <3>2, <3>3, <3>4, <3>5
  <2> QED
    BY <2>1, <2>2, <2>3 DEF InOrder
<1> QED
  BY <1>11, <1>12 DEF rest, then

\* The server tells news.
LEMMA NewsTold ==
    ASSUME NEW in \in Seq(Message), NEW m \in Seq(Message), NEW out,
           NEW t, \A i \in DOMAIN m : m[i] \notin Answers(t)
    PROVE  /\ Due(in \o m, out, t) = Due(in, out, t)
           /\ InOrder(in, out, t) => InOrder(in \o m, out, t)
<1>1. At(in \o m, Answers(t)) = At(in, Answers(t))
  BY AtConcat
<1>2. \A i \in DOMAIN m : m[i] \notin Closing(t)
  BY KindsOf
<1>3. At(in \o m, Closing(t)) = At(in, Closing(t))
  BY <1>2, AtConcat
<1> QED
  BY <1>1, <1>3 DEF Due, InOrder

-----------------------------------------------------------------------------
(* Filters and their snapshots. *)

\* What a filter is followed by does not change when more is told, or when
\* something before it is read.
LEMMA ReportsMore ==
    ASSUME NEW in \in Seq(Message), NEW m \in Seq(Message), NEW i \in Nat \ {0}, Reports(in, i)
    PROVE  Reports(in \o m, i)
<1>1. /\ Len(in) \in Nat /\ DOMAIN in = 1 .. Len(in) /\ Len(m) \in Nat
      /\ DOMAIN (in \o m) = 1 .. (Len(in) + Len(m))
      /\ \A j \in 1 .. Len(in) : (in \o m)[j] = in[j]
  OBVIOUS
<1>2. PICK k \in DOMAIN in : /\ i <= k /\ in[k].kind = "snapshot"
                             /\ \A j \in i .. k : in[j].kind \in Telling
  BY DEF Reports
<1>3. k \in DOMAIN (in \o m) /\ (in \o m)[k].kind = "snapshot"
  BY <1>1, <1>2
<1>4. \A j \in i .. k : (in \o m)[j].kind \in Telling
  BY <1>1, <1>2
<1> QED
  BY <1>2, <1>3, <1>4 DEF Reports

\* A message that is read, and is no snapshot, takes no snapshot from those behind it.
LEMMA ReportsRead ==
    ASSUME NEW in \in Seq(Message), in # <<>>, NEW i \in Nat \ {0}, Reports(in, i),
           i # 1 \/ Head(in).kind # "snapshot"
    PROVE  Reports(Tail(in), IF i = 1 THEN 1 ELSE i - 1)
<1>1. /\ Len(in) \in Nat \ {0} /\ DOMAIN in = 1 .. Len(in) /\ Head(in) = in[1]
      /\ DOMAIN Tail(in) = 1 .. (Len(in) - 1)
      /\ \A j \in 1 .. (Len(in) - 1) : Tail(in)[j] = in[j + 1]
  OBVIOUS
<1>2. PICK k \in DOMAIN in : /\ i <= k /\ in[k].kind = "snapshot"
                             /\ \A j \in i .. k : in[j].kind \in Telling
  BY DEF Reports
<1>3. k # 1 /\ k - 1 \in DOMAIN Tail(in) /\ Tail(in)[k - 1].kind = "snapshot" /\ k - 1 \in Nat \ {0}
  <2>1. k # 1
    BY <1>1, <1>2
  <2> QED
    BY <1>1, <1>2, <2>1
<1> DEFINE b == IF i = 1 THEN 1 ELSE i - 1
<1>4. b \in Nat \ {0} /\ b <= k - 1 /\ i <= b + 1
  <2>1. CASE i = 1
    BY <1>1, <1>2, <1>3, <2>1
  <2>2. CASE i # 1
    BY <1>1, <1>2, <1>3, <2>2
  <2> QED
    BY <2>1, <2>2
<1>5. ASSUME NEW j \in b .. (k - 1) PROVE Tail(in)[j].kind \in Telling
  <2>1. j \in 1 .. (Len(in) - 1) /\ j + 1 \in i .. k
    BY <1>1, <1>4
  <2> QED
    BY <1>1, <1>2, <2>1
<1> QED
  BY <1>3, <1>4, <1>5 DEF Reports

\* Filters are followed by their snapshots also when a message is read.
LEMMA BlocksRead ==
    ASSUME NEW c, NEW x, c.incoming \in Seq(Message), c.incoming # <<>>,
           x.incoming = Tail(c.incoming), Blocked(c)
    PROVE  Blocked(x)
<1> DEFINE in == c.incoming
<1>1. /\ Len(in) \in Nat \ {0} /\ DOMAIN in = 1 .. Len(in)
      /\ DOMAIN Tail(in) = 1 .. (Len(in) - 1)
      /\ \A j \in 1 .. (Len(in) - 1) : Tail(in)[j] = in[j + 1]
  OBVIOUS
<1>2. ASSUME NEW i \in DOMAIN Tail(in), Tail(in)[i].kind = "filter"
      PROVE  Reports(Tail(in), i)
  <2>1. i + 1 \in DOMAIN in /\ in[i + 1].kind = "filter" /\ i + 1 \in Nat \ {0} /\ i + 1 # 1
    BY <1>1, <1>2
  <2>2. Reports(in, i + 1)
    BY <2>1 DEF Blocked
  <2>3. Reports(Tail(in), IF i + 1 = 1 THEN 1 ELSE (i + 1) - 1)
    BY <2>1, <2>2, ReportsRead
  <2>4. (i + 1) - 1 = i
    BY <1>1
  <2> QED
    BY <2>1, <2>3, <2>4
<1> QED
  BY <1>2 DEF Blocked

\* Messages whose filters are followed by a snapshot.
LEMMA BlocksMore ==
    ASSUME NEW c, NEW x, NEW m \in Seq(Message), c.incoming \in Seq(Message),
           x.incoming = c.incoming \o m, Blocked(c),
           \A i \in DOMAIN m : m[i].kind = "filter" => Reports(x.incoming, Len(c.incoming) + i)
    PROVE  Blocked(x)
<1> DEFINE in == c.incoming
<1>1. /\ Len(in) \in Nat /\ DOMAIN in = 1 .. Len(in) /\ Len(m) \in Nat /\ DOMAIN m = 1 .. Len(m)
      /\ DOMAIN (in \o m) = 1 .. (Len(in) + Len(m))
      /\ \A i \in 1 .. (Len(in) + Len(m)) :
            (in \o m)[i] = IF i <= Len(in) THEN in[i] ELSE m[i - Len(in)]
  OBVIOUS
<1>2. ASSUME NEW i \in DOMAIN (in \o m), (in \o m)[i].kind = "filter"
      PROVE  Reports(in \o m, i)
  <2>1. CASE i <= Len(in)
    <3>1. i \in DOMAIN in /\ in[i].kind = "filter" /\ i \in Nat \ {0}
      BY <1>1, <1>2, <2>1
    <3>2. Reports(in, i)
      BY <3>1 DEF Blocked
    <3> QED
      BY <3>1, <3>2, ReportsMore
  <2>2. CASE ~(i <= Len(in))
    <3>1. i - Len(in) \in DOMAIN m /\ m[i - Len(in)].kind = "filter" /\ Len(in) + (i - Len(in)) = i
      BY <1>1, <1>2, <2>2
    <3> QED
      BY <3>1
  <2> QED
    BY <2>1, <2>2
<1> QED
  BY <1>2 DEF Blocked

-----------------------------------------------------------------------------
(* The streams and the online state. *)

\* x and c do not differ in what the books are about.
SameBooks(x, c) ==
    /\ x.listening = c.listening /\ x.agg = c.agg /\ x.requests = c.requests
    /\ x.incoming = c.incoming /\ x.resets = c.resets /\ x.received = c.received
    /\ x.on = c.on /\ x.view.synced = c.view.synced /\ x.stream = c.stream
    /\ x.idle = c.idle /\ x.updates = c.updates /\ x.serving = c.serving


\* The books depend on nothing but what SameBooks compares, ...
LEMMA SameBooksKeep ==
    ASSUME NEW c, NEW x, SameBooks(x, c), Flowing(c)
    PROVE  Flowing(x)
<1> USE DEF SameBooks
<1>1. \A t : Entry(x, t) = Entry(c, t) /\ RemoteKeys(x, t) = RemoteKeys(c, t)
  BY DEF Entry, RemoteKeys
<1>2. Wired(x)
  BY DEF Flowing, Wired, Quiet
<1>3. Counted(x)
  BY <1>1 DEF Flowing, Counted
<1>4. Ordered(x)
  BY DEF Flowing, Ordered
<1>5. Blocked(x)
  BY DEF Flowing, Blocked
<1>6. Resetting(x)
  BY DEF Flowing, Resetting
<1>7. Gathers(x)
  BY <1>1 DEF Flowing, Gathers, Gotten
<1> QED
  BY <1>2, <1>3, <1>4, <1>5, <1>6, <1>7 DEF Flowing

\* ... so a step that leaves that alone keeps them.
LEMMA SameBooksRun ==
    ASSUME NEW c, NEW x, SameBooks(x, c), Flowing(c), Pressing(c), Clock(x), ~x.broken
    PROVE  Runs(x)
<1>1. Flowing(x)
  BY SameBooksKeep
<1>2. Pressing(x)
  BY DEF SameBooks, Pressing
<1> QED
  BY <1>1, <1>2 DEF Runs, Running

\* The books are in order as long as no stream is open.
LEMMA QuietFlows ==
    ASSUME NEW c, Typed(c), Quiet(c), c.stream # "Open"
    PROVE  Flowing(c) /\ Pressing(c)
<1>1. Wired(c)
  BY DEF Wired, Quiet
<1>2. \A t, A : At(<<>>, A) = {} /\ Cardinality(At(<<>>, A)) = 0
  BY AtNone
<1>3. \A t : Entry(c, t).outstanding = 0 /\ DOMAIN Entry(c, t).changes = {}
  BY PartialNone DEF Quiet, Entry, NewEntry
<1>4. Counted(c)
  BY <1>2, <1>3 DEF Counted, Quiet, Due
<1>5. Ordered(c)
  BY <1>2 DEF Ordered, InOrder, Quiet
<1>6. Blocked(c)
  BY DEF Blocked, Quiet
<1>7. Resetting(c) /\ Pressing(c)
  BY DEF Resetting, Quiet, Pressing
<1>8. Gathers(c)
  BY <1>3 DEF Gathers, Gotten
<1> QED
  BY <1>1, <1>4, <1>5, <1>6, <1>7, <1>8 DEF Flowing

\* OnlineStateTracker::UpdateState concerns the clock only, ...
LEMMA UpdateStateRuns ==
    ASSUME NEW c, Typed(c), NEW state \in {"Unknown", "Online", "Offline"}
    PROVE  /\ SameBooks(UpdateState(c, state), c) /\ Clock(UpdateState(c, state))
           /\ UpdateState(c, state).broken = c.broken
<1> DEFINE x == UpdateState(c, state)
<1>1. /\ Only(x, c, {"online", "raised", "view", "timer", "failed"})
      /\ x.timer = FALSE /\ x.failed = FALSE /\ x.view.synced = c.view.synced
  BY UpdateStateTyped
<1> HIDE DEF x
<1>2. SameBooks(x, c) /\ x.broken = c.broken
  BY <1>1 DEF SameBooks, Only, Fields
<1>3. Clock(x)
  BY <1>1 DEF Clock
<1> QED
  BY <1>2, <1>3 DEF x

\* ... like HandleWatchStreamStart when no timer runs, ...
LEMMA HandleWatchStreamStartRuns ==
    ASSUME NEW c, Typed(c), ~c.timer, c.failed => c.online = "Offline", c.stream # "Initial"
    PROVE  /\ SameBooks(HandleWatchStreamStart(c), c) /\ Clock(HandleWatchStreamStart(c))
           /\ HandleWatchStreamStart(c).broken = c.broken
<1> DEFINE x == HandleWatchStreamStart(c)
           z == SetOnline(c, "Unknown")
           w == Require(z, ~c.timer)
           v == [w EXCEPT !.timer = TRUE]
<1>1. CASE c.failed
  BY <1>1 DEF HandleWatchStreamStart, SameBooks, Clock
<1>2. CASE ~c.failed
  <2>1. x = v
    BY <1>2 DEF HandleWatchStreamStart
  <2>2. /\ Typed(z) /\ Only(z, c, {"online", "raised", "view"}) /\ z.online = "Unknown"
        /\ z.view.synced = c.view.synced
    BY SetOnlineTyped
  <2> HIDE DEF z
  <2>3. Only(w, z, {"broken"}) /\ Typed(w)
    BY <2>2, RequireTyped
  <2>4. w.broken = (z.broken \/ ~(~c.timer))
    BY <2>2 DEF Require, Typed, Shape, Fields
  <2> HIDE DEF w
  <2>5. Only(v, w, {"timer"}) /\ v.timer = TRUE
    BY <2>3 DEF Only, Typed, Shape, Fields
  <2> HIDE DEF v
  <2>6. SameBooks(v, c)
    BY <2>2, <2>3, <2>5 DEF SameBooks, Only, Fields
  <2>7. z.broken \in BOOLEAN /\ z.broken = c.broken
    BY <2>2, FieldTypes DEF Only, Fields
  <2>8. v.broken = c.broken
    BY <2>4, <2>5, <2>7 DEF Only, Fields
  <2>9. v.online = "Unknown" /\ v.failed = c.failed /\ v.stream = c.stream
    BY <2>2, <2>3, <2>5 DEF Only, Fields
  <2>10. Clock(v)
    BY <1>2, <2>9 DEF Clock
  <2> QED
    BY <2>1, <2>6, <2>8, <2>10
<1> QED
  BY <1>1, <1>2

\* ... and HandleWatchStreamFailure, which stops the timer.
LEMMA HandleWatchStreamFailureRuns ==
    ASSUME NEW c, Typed(c), c.timer => c.online = "Unknown", c.failed => c.online = "Offline"
    PROVE  /\ SameBooks(HandleWatchStreamFailure(c), c)
           /\ ~HandleWatchStreamFailure(c).timer
           /\ HandleWatchStreamFailure(c).failed => HandleWatchStreamFailure(c).online = "Offline"
           /\ HandleWatchStreamFailure(c).broken = c.broken
<1> DEFINE x == HandleWatchStreamFailure(c)
<1>1. CASE c.online = "Online"
  <2> DEFINE z == SetOnline(c, "Unknown")
             w == Require(z, ~c.failed /\ ~c.timer)
  <2>1. x = w
    BY <1>1 DEF HandleWatchStreamFailure
  <2>2. /\ Typed(z) /\ Only(z, c, {"online", "raised", "view"}) /\ z.online = "Unknown"
        /\ z.view.synced = c.view.synced
    BY SetOnlineTyped
  <2> HIDE DEF z
  <2>3. Only(w, z, {"broken"})
    BY <2>2, RequireTyped
  <2>4. w.broken = (z.broken \/ ~(~c.failed /\ ~c.timer))
    BY <2>2 DEF Require, Typed, Shape, Fields
  <2> HIDE DEF w
  <2>5. z.broken \in BOOLEAN /\ z.broken = c.broken
    BY <2>2, FieldTypes DEF Only, Fields
  <2>6. SameBooks(w, c) /\ w.timer = c.timer /\ w.failed = c.failed
    BY <2>2, <2>3 DEF SameBooks, Only, Fields
  <2>7. ~c.failed /\ ~c.timer
    BY <1>1
  <2>8. w.broken = c.broken
    BY <2>4, <2>5, <2>7
  <2>9. ~w.timer /\ ~w.failed
    BY <2>6, <2>7
  <2> HIDE DEF x
  <2> QED
    BY <2>1, <2>6, <2>8, <2>9 DEF x
<1>2. CASE c.online # "Online"
  <2> DEFINE z == [c EXCEPT !.failed = TRUE, !.timer = FALSE]
             w == SetOnline(z, "Offline")
  <2>1. x = w
    BY <1>2 DEF HandleWatchStreamFailure
  <2>2. /\ Only(z, c, {"failed", "timer"}) /\ z.timer = FALSE
        /\ z["failed"] \in Client_["failed"] /\ z["timer"] \in Client_["timer"]
    BY DEF Only, Typed, Shape, Fields, Client_
  <2> HIDE DEF z
  <2>3. Typed(z)
    BY <2>2, TypedOnly DEF Fields
  <2>4. /\ Only(w, z, {"online", "raised", "view"}) /\ w.online = "Offline"
        /\ w.view.synced = z.view.synced
    BY <2>3, SetOnlineTyped
  <2> HIDE DEF w
  <2>5. SameBooks(w, c) /\ w.timer = FALSE /\ w.broken = c.broken
    BY <2>2, <2>4 DEF SameBooks, Only, Fields
  <2> QED
    BY <2>1, <2>4, <2>5
<1> QED
  BY <1>1, <1>2

\* A stream that is started has nothing in its books.
LEMMA StartWatchStreamRuns ==
    ASSUME NEW c, Typed(c), Clock(c), Quiet(c), c.stream # "Open", ~c.broken
    PROVE  Runs(StartWatchStream(c))
<1> DEFINE x == StartWatchStream(c)
<1>1. CASE ~ShouldStartWatchStream(c)
  <2>1. x = c
    BY <1>1 DEF StartWatchStream
  <2> QED
    BY <2>1, QuietFlows DEF Runs, Running
<1>2. CASE ShouldStartWatchStream(c)
  <2> DEFINE y == [c EXCEPT !.stream = "Starting", !.agg = <<>>, !.updates = <<>>, !.resets = {}]
             F == {"stream", "agg", "updates", "resets"}
  <2>1. x = HandleWatchStreamStart(y)
    BY <1>2 DEF StartWatchStream
  <2>2. /\ Only(y, c, F) /\ y["stream"] = "Starting" /\ y["agg"] = <<>> /\ y["updates"] = <<>>
        /\ y["resets"] = {}
    BY DEF Only, Typed, Shape, Fields
  <2> HIDE DEF y
  <2>3. Typed(y)
    <3>1. <<>> \in Partial(Watched, EntryType) /\ <<>> \in Partial(Docs, CachedDoc) /\ DOMAIN <<>> = {}
      BY PartialNone
    <3>2. <<>> \in Aggregator
      BY <3>1 DEF Aggregator
    <3> QED
      BY <2>2, <3>1, <3>2, TypedOnly, ClientIs DEF Fields
  <2>4. /\ y.timer = c.timer /\ y.failed = c.failed /\ y.online = c.online /\ y.broken = c.broken
        /\ y.requests = c.requests /\ y.incoming = c.incoming /\ y.serving = c.serving
        /\ y.idle = c.idle /\ y.stream = "Starting"
    BY <2>2 DEF Only, Fields
  <2>5. Quiet(y)
    BY <2>2, <2>4 DEF Quiet
  <2>6. c.stream = "Initial" /\ ~y.timer /\ (y.failed => y.online = "Offline")
    BY <1>2, <2>4 DEF ShouldStartWatchStream, Clock
  <2>7. SameBooks(x, y) /\ Clock(x) /\ x.broken = y.broken
    BY <2>1, <2>3, <2>4, <2>6, HandleWatchStreamStartRuns
  <2> QED
    BY <2>3, <2>4, <2>5, <2>7, QuietFlows, SameBooksRun
<1> QED
  BY <1>1, <1>2

\* A request for a target that is (newly) watched, or that is not watched any more.
LEMMA SendBooks ==
    ASSUME NEW c, Typed(c), Clock(c), ~c.broken, Pressing(c), c.stream = "Open",
           Counted(c), Blocked(c), NEW t \in Watched, NEW add \in BOOLEAN, NEW token \in Versions,
           \A u \in DOMAIN c.listening \ {t} :
              /\ InOrder(c.incoming, c.requests, u)
              /\ Entry(c, u).outstanding = 0 => Gotten(c, u),
           \A u \in c.resets :
              /\ u \in DOMAIN c.agg
              /\ u \in DOMAIN c.listening => u # t /\ Due(c.incoming, c.requests, u) = 0,
           t \in DOMAIN c.listening => add /\ Due(c.incoming, c.requests, t) = 0
    PROVE  /\ Booked(Send(c, t, add, token)) /\ ~Send(c, t, add, token).idle
           /\ DOMAIN Send(c, t, add, token).agg = DOMAIN c.agg \cup {t}
<1> DEFINE x == Send(c, t, add, token)
           entry == [Entry(c, t) EXCEPT !.outstanding = @ + 1]
           r == [target |-> t, add |-> add, token |-> token]
<1>1. /\ Only(x, c, {"agg", "requests", "idle"}) /\ x.agg = With(c.agg, t, entry)
      /\ x.requests = Append(c.requests, r) /\ x.idle = FALSE
  BY SendTyped, Zenon
<1>2. r \in RequestType /\ r.target = t /\ r.add = add
  BY DEF RequestType
<1>3. /\ c.incoming \in Seq(Message) /\ c.requests \in Seq(RequestType)
      /\ Entry(c, t) \in EntryType
  BY FieldTypes, EntryTyped
<1>4. entry.outstanding = Entry(c, t).outstanding + 1 /\ Entry(c, t).outstanding \in Int
  BY <1>3 DEF EntryType
<1> HIDE DEF x, entry, r
<1>5. /\ x.listening = c.listening /\ x.incoming = c.incoming /\ x.resets = c.resets
      /\ x.received = c.received /\ x.on = c.on /\ x.view = c.view /\ x.stream = c.stream
      /\ x.timer = c.timer /\ x.failed = c.failed /\ x.online = c.online /\ x.broken = c.broken
  BY <1>1 DEF Only, Fields
<1>6. /\ DOMAIN x.agg = DOMAIN c.agg \cup {t} /\ Entry(x, t) = entry
      /\ \A u : u # t => Entry(x, u) = Entry(c, u)
  <2>1. x.agg = With(c.agg, t, entry)
    BY <1>1
  <2> QED
    BY <2>1 DEF Entry, With, Over
<1>7. \A u : /\ Due(x.incoming, x.requests, u)
                  = Due(c.incoming, c.requests, u) + (IF u = t THEN 1 ELSE 0)
             /\ u # t /\ InOrder(c.incoming, c.requests, u) => InOrder(x.incoming, x.requests, u)
             /\ u = t /\ Due(c.incoming, c.requests, u) = 0 /\ add
                  => InOrder(x.incoming, x.requests, u)
  BY <1>1, <1>2, <1>3, <1>5, OneMoreRequest
<1>8. \A u : Due(c.incoming, c.requests, u) \in Nat
  BY <1>3, DueIs
<1>10. Counted(x)
  <2>1. ASSUME NEW u \in Watched PROVE Entry(x, u).outstanding >= Due(x.incoming, x.requests, u)
    <3>1. Entry(c, u).outstanding >= Due(c.incoming, c.requests, u)
      BY DEF Counted
    <3>2. CASE u = t
      BY <1>4, <1>6, <1>7, <1>8, <3>1, <3>2
    <3>3. CASE u # t
      <4>1. Due(x.incoming, x.requests, u) = Due(c.incoming, c.requests, u)
        BY <1>7, <1>8, <3>3
      <4> QED
        BY <1>6, <3>1, <3>3, <4>1
    <3> QED
      BY <3>2, <3>3
  <2> QED
    BY <2>1 DEF Counted
<1>11. Ordered(x)
  BY <1>5, <1>7 DEF Ordered
<1>12. Blocked(x) /\ Pressing(x) /\ Clock(x)
  BY <1>5 DEF Blocked, Pressing, Clock
<1>13. Resetting(x)
  BY <1>5, <1>6, <1>7, <1>8 DEF Resetting
<1>14. Gathers(x)
  <2>1. ASSUME NEW u \in DOMAIN x.listening, Entry(x, u).outstanding = 0 PROVE Gotten(x, u)
    <3>1. u # t
      <4>1. Entry(c, t).outstanding >= Due(c.incoming, c.requests, t)
        BY DEF Counted
      <4>2. entry.outstanding # 0
        BY <1>4, <1>8, <4>1
      <4> QED
        BY <1>6, <2>1, <4>2
    <3>2. Entry(x, u) = Entry(c, u) /\ Gotten(c, u)
      BY <1>5, <1>6, <2>1, <3>1
    <3>3. RemoteKeys(x, u) = RemoteKeys(c, u)
      BY <1>5 DEF RemoteKeys
    <3> QED
      BY <3>2, <3>3 DEF Gotten
  <2> QED
    BY <2>1 DEF Gathers
<1>15. ~x.broken
  BY <1>5
<1> QED
  BY <1>1, <1>6, <1>10, <1>11, <1>12, <1>13, <1>14, <1>15 DEF Booked, x

\* One request more is one answer more to expect, about a target nothing is due about.
LEMMA SendRuns ==
    ASSUME NEW c, Typed(c), Clock(c), ~c.broken, Pressing(c), c.stream = "Open",
           Counted(c), Blocked(c), NEW t \in Watched, NEW add \in BOOLEAN, NEW token \in Versions,
           DOMAIN c.listening \subseteq DOMAIN c.agg \cup {t},
           \A u \in DOMAIN c.listening \ {t} :
              /\ InOrder(c.incoming, c.requests, u)
              /\ Entry(c, u).outstanding = 0 => Gotten(c, u),
           \A u \in c.resets :
              /\ u \in DOMAIN c.agg
              /\ u \in DOMAIN c.listening => u # t /\ Due(c.incoming, c.requests, u) = 0,
           t \in DOMAIN c.listening => add /\ Due(c.incoming, c.requests, t) = 0
    PROVE  Runs(Send(c, t, add, token))
<1> DEFINE x == Send(c, t, add, token)
<1>1. Booked(x) /\ ~x.idle /\ DOMAIN x.agg = DOMAIN c.agg \cup {t}
  BY SendBooks
<1>2. Only(x, c, {"agg", "requests", "idle"})
  BY SendTyped
<1> HIDE DEF x
<1>3. x.listening = c.listening /\ x.stream = "Open"
  BY <1>2 DEF Only, Fields
<1>4. Wired(x)
  BY <1>1, <1>3 DEF Wired
<1> QED
  BY <1>1, <1>4 DEF Runs, Running, Flowing, Booked, x

-----------------------------------------------------------------------------
(* What is watched. *)

\* RemoteStore::Listen: the books are in order once the target is watched, ...
LEMMA StartWatchingRuns ==
    ASSUME NEW c, Typed(c), Runs(c), NEW t \in Watched, NEW token \in Versions,
           t \in DOMAIN c.listening \/ t \notin DOMAIN c.agg
    PROVE  Runs(StartWatching(c, t, token))
<1> DEFINE x == StartWatching(c, t, token)
           y == [c EXCEPT !.listening = With(@, t, token)]
<1>1. CASE t \in DOMAIN c.listening
  BY <1>1 DEF StartWatching
<1>2. CASE t \notin DOMAIN c.listening
  <2>1. Only(y, c, {"listening"}) /\ y.listening = With(c.listening, t, token)
    BY DEF Only, Typed, Shape, Fields
  <2>2. x = IF c.stream = "Open" THEN Send(y, t, TRUE, token) ELSE StartWatchStream(y)
    BY <1>2 DEF StartWatching
  <2> HIDE DEF x, y
  <2>3. y.listening \in Partial(Watched, Versions) /\ DOMAIN y.listening = DOMAIN c.listening \cup {t}
    <3>1. c.listening \in Partial(Watched, Versions)
      BY FieldTypes
    <3>2. With(c.listening, t, token) \in Partial(Watched, Versions)
      BY <3>1, WithPartial
    <3>3. DOMAIN With(c.listening, t, token) = DOMAIN c.listening \cup {t}
      BY DEF With, Over
    <3> QED
      BY <2>1, <3>2, <3>3
  <2>4. Typed(y)
    BY <2>1, <2>3, TypedOnly, ClientIs DEF Fields
  <2>5. /\ y.agg = c.agg /\ y.requests = c.requests /\ y.incoming = c.incoming
        /\ y.resets = c.resets /\ y.received = c.received /\ y.on = c.on /\ y.view = c.view
        /\ y.stream = c.stream /\ y.idle = c.idle /\ y.updates = c.updates
        /\ y.serving = c.serving /\ y.timer = c.timer /\ y.failed = c.failed
        /\ y.online = c.online /\ y.broken = c.broken
    BY <2>1 DEF Only, Fields
  <2>6. Clock(y) /\ ~y.broken /\ Pressing(y) /\ Blocked(y)
    BY <2>5 DEF Runs, Running, Flowing, Clock, Pressing, Blocked
  <2>7. CASE c.stream = "Open"
    <3>1. t \notin DOMAIN c.agg
      BY <1>2
    <3>2. \A u : Entry(y, u) = Entry(c, u) /\ RemoteKeys(y, u) = RemoteKeys(c, u)
      BY <2>5 DEF Entry, RemoteKeys
    <3>3. Counted(y)
      BY <2>5, <3>2 DEF Runs, Running, Flowing, Counted
    <3>4. DOMAIN y.listening \subseteq DOMAIN y.agg \cup {t}
      BY <2>3, <2>5, <2>7 DEF Runs, Running, Flowing, Wired
    <3>5. \A u \in DOMAIN y.listening \ {t} :
              /\ InOrder(y.incoming, y.requests, u)
              /\ Entry(y, u).outstanding = 0 => Gotten(y, u)
      BY <2>3, <2>5, <3>2 DEF Runs, Running, Flowing, Ordered, Gathers, Gotten
    <3>6. \A u \in y.resets :
              /\ u \in DOMAIN y.agg
              /\ u \in DOMAIN y.listening => u # t /\ Due(y.incoming, y.requests, u) = 0
      BY <2>3, <2>5, <3>1 DEF Runs, Running, Flowing, Resetting
    <3>7. Due(y.incoming, y.requests, t) = 0
      <4>1. Entry(c, t).outstanding = 0
        BY <3>1 DEF Entry, NewEntry
      <4>2. 0 >= Due(c.incoming, c.requests, t)
        BY <4>1 DEF Runs, Running, Flowing, Counted
      <4>3. c.incoming \in Seq(Message) /\ c.requests \in Seq(RequestType)
        BY FieldTypes
      <4>4. Due(c.incoming, c.requests, t) \in Nat
        BY <4>3, DueIs
      <4> QED
        BY <2>5, <4>2, <4>4
    <3>8. TRUE \in BOOLEAN /\ y.stream = "Open"
      BY <2>5, <2>7
    <3>9. Runs(Send(y, t, TRUE, token))
      BY <2>4, <2>6, <3>3, <3>4, <3>5, <3>6, <3>7, <3>8, SendRuns
    <3> QED
      BY <2>2, <2>7, <3>9 DEF x
  <2>8. CASE c.stream # "Open"
    <3>1. Quiet(y)
      BY <2>5, <2>8 DEF Runs, Running, Flowing, Wired, Quiet
    <3>2. Runs(StartWatchStream(y))
      BY <2>4, <2>5, <2>6, <2>8, <3>1, StartWatchStreamRuns
    <3> QED
      BY <2>2, <2>8, <3>2 DEF x
  <2> QED
    BY <2>7, <2>8
<1> QED
  BY <1>1, <1>2

\* ... and RemoteStore::StopListening, once it is not.
LEMMA StopWatchingRuns ==
    ASSUME NEW c, Typed(c), Runs(c), NEW t \in Watched, t \in DOMAIN c.listening
    PROVE  Runs(StopWatching(c, t))
<1> DEFINE y == [c EXCEPT !.listening = Without(@, t)]
           left == Require(y, t \in DOMAIN c.listening)
           none == DOMAIN left.listening = {}
           x == StopWatching(c, t)
<1>1. Only(y, c, {"listening"}) /\ y.listening = Without(c.listening, t)
  BY DEF Only, Typed, Shape, Fields
<1>2. c.listening \in Partial(Watched, Versions) /\ c.broken \in BOOLEAN
  BY FieldTypes
<1>3. x = IF c.stream = "Open" THEN [Send(left, t, FALSE, 0) EXCEPT !.idle = none]
          ELSE IF none /\ c.enabled THEN UpdateState(left, "Unknown") ELSE left
  BY DEF StopWatching
<1> HIDE DEF y
<1>4. y.listening \in Partial(Watched, Versions) /\ DOMAIN y.listening = DOMAIN c.listening \ {t}
  <2>1. Without(c.listening, t) \in Partial(Watched, Versions)
    BY <1>2, WithoutPartial
  <2> QED
    BY <1>1, <2>1 DEF Without, Restrict
<1>5. Typed(y)
  BY <1>1, <1>4, TypedOnly, ClientIs DEF Fields
<1>6. Typed(left) /\ Only(left, y, {"broken"})
  BY <1>5, RequireTyped
<1>7. left.broken = c.broken
  <2>1. left.broken = (y.broken \/ ~(t \in DOMAIN c.listening))
    BY <1>5 DEF Require, Typed, Shape, Fields
  <2>2. y.broken = c.broken
    BY <1>1 DEF Only, Fields
  <2> HIDE DEF left
  <2> QED
    BY <1>2, <2>1, <2>2
<1> HIDE DEF left, x
<1>8. /\ left.listening = y.listening
      /\ left.agg = c.agg /\ left.requests = c.requests /\ left.incoming = c.incoming
      /\ left.resets = c.resets /\ left.received = c.received /\ left.on = c.on
      /\ left.view = c.view
      /\ left.stream = c.stream /\ left.idle = c.idle /\ left.updates = c.updates
      /\ left.serving = c.serving /\ left.timer = c.timer /\ left.failed = c.failed
      /\ left.online = c.online
  BY <1>1, <1>6 DEF Only, Fields
<1>9. Clock(left) /\ ~left.broken /\ Pressing(left) /\ Blocked(left)
  BY <1>7, <1>8 DEF Runs, Running, Flowing, Clock, Pressing, Blocked
<1>10. CASE c.stream = "Open"
  <2> DEFINE z == Send(left, t, FALSE, 0)
             w == [z EXCEPT !.idle = none]
  <2>1. x = w
    BY <1>3, <1>10
  <2>2. \A u : Entry(left, u) = Entry(c, u) /\ RemoteKeys(left, u) = RemoteKeys(c, u)
    BY <1>8 DEF Entry, RemoteKeys
  <2>3. Counted(left)
    BY <1>8, <2>2 DEF Runs, Running, Flowing, Counted
  <2>4. DOMAIN left.listening \subseteq DOMAIN left.agg \cup {t}
    BY <1>4, <1>8, <1>10 DEF Runs, Running, Flowing, Wired
  <2>5. \A u \in DOMAIN left.listening \ {t} :
            /\ InOrder(left.incoming, left.requests, u)
            /\ Entry(left, u).outstanding = 0 => Gotten(left, u)
    BY <1>4, <1>8, <2>2 DEF Runs, Running, Flowing, Ordered, Gathers, Gotten
  <2>6. \A u \in left.resets :
            /\ u \in DOMAIN left.agg
            /\ u \in DOMAIN left.listening => u # t /\ Due(left.incoming, left.requests, u) = 0
    BY <1>4, <1>8 DEF Runs, Running, Flowing, Resetting
  <2>7. FALSE \in BOOLEAN /\ left.stream = "Open" /\ 0 \in Versions /\ t \notin DOMAIN left.listening
    BY <1>4, <1>8, <1>10, BoundsAssumption DEF Versions
  <2>8. Runs(z)
    BY <1>6, <1>9, <2>3, <2>4, <2>5, <2>6, <2>7, SendRuns
  <2>9. Typed(z) /\ Only(z, left, {"agg", "requests", "idle"})
    BY <1>6, <2>7, SendTyped
  <2> HIDE DEF z
  <2>10. Only(w, z, {"idle"}) /\ w.idle = none
    BY <2>9 DEF Only, Typed, Shape, Fields
  <2> HIDE DEF w
  <2>11. /\ w.listening = z.listening /\ w.agg = z.agg /\ w.requests = z.requests
         /\ w.incoming = z.incoming /\ w.resets = z.resets /\ w.received = z.received
         /\ w.on = z.on /\ w.view = z.view /\ w.stream = z.stream
         /\ w.timer = z.timer /\ w.failed = z.failed /\ w.online = z.online /\ w.broken = z.broken
    BY <2>10 DEF Only, Fields
  <2>12. z.listening = left.listening /\ z.stream = "Open"
    BY <2>7, <2>9 DEF Only, Fields
  <2>13. Wired(w)
    BY <2>8, <2>10, <2>11, <2>12 DEF Runs, Running, Flowing, Wired
  <2>14. \A u : Entry(w, u) = Entry(z, u) /\ RemoteKeys(w, u) = RemoteKeys(z, u)
    BY <2>11 DEF Entry, RemoteKeys
  <2>15. Counted(w) /\ Ordered(w) /\ Blocked(w) /\ Resetting(w) /\ Pressing(w) /\ Clock(w)
    BY <2>8, <2>11, <2>14
       DEF Runs, Running, Flowing, Counted, Ordered, Blocked, Resetting, Pressing, Clock
  <2>16. Gathers(w) /\ ~w.broken
    BY <2>8, <2>11, <2>14 DEF Runs, Running, Flowing, Gathers, Gotten
  <2> QED
    BY <2>1, <2>13, <2>15, <2>16 DEF Runs, Running, Flowing, x
<1>11. CASE c.stream # "Open"
  <2>1. Quiet(left)
    BY <1>8, <1>11 DEF Runs, Running, Flowing, Wired, Quiet
  <2>2. Flowing(left) /\ Pressing(left)
    BY <1>6, <1>8, <1>11, <2>1, QuietFlows
  <2>3. Runs(left)
    BY <1>9, <2>2 DEF Runs, Running
  <2>4. Runs(UpdateState(left, "Unknown"))
    <3>1. /\ SameBooks(UpdateState(left, "Unknown"), left) /\ Clock(UpdateState(left, "Unknown"))
          /\ UpdateState(left, "Unknown").broken = left.broken
      BY <1>6, UpdateStateRuns
    <3> QED
      BY <1>9, <2>2, <3>1, SameBooksRun
  <2> QED
    BY <1>3, <1>11, <2>3, <2>4 DEF x
<1> QED
  BY <1>10, <1>11 DEF x

\* A stream that closes takes its books with it.
LEMMA CloseRuns ==
    ASSUME NEW c, Typed(c), Clock(c), ~c.broken, NEW graceful,
           graceful => DOMAIN c.listening = {} \/ ~c.enabled
    PROVE  Runs(Close(c, graceful))
<1> DEFINE closed == Closed(c)
           x == Close(c, graceful)
<1>1. x = IF ShouldStartWatchStream(closed)
          THEN Require(StartWatchStream(HandleWatchStreamFailure(closed)), ~graceful)
          ELSE UpdateState(closed, "Unknown")
  BY DEF Close, Closed
<1>2. /\ Typed(closed) /\ Quiet(closed) /\ closed.stream = "Initial"
      /\ Only(closed, c, {"stream", "idle", "agg", "updates", "resets", "requests", "incoming",
                          "serving"})
  BY ClosedTyped
<1> HIDE DEF closed, x
<1>3. /\ closed.timer = c.timer /\ closed.failed = c.failed /\ closed.online = c.online
      /\ closed.broken = c.broken /\ closed.listening = c.listening /\ closed.enabled = c.enabled
  BY <1>2 DEF Only, Fields
<1>4. CASE ShouldStartWatchStream(closed)
  <2> DEFINE y == HandleWatchStreamFailure(closed)
             z == StartWatchStream(y)
  <2>1. /\ SameBooks(y, closed) /\ ~y.timer /\ (y.failed => y.online = "Offline")
        /\ y.broken = closed.broken
    BY <1>2, <1>3, HandleWatchStreamFailureRuns DEF Clock
  <2>2. Typed(y)
    BY <1>2, HandleWatchStreamFailureTyped
  <2> HIDE DEF y
  <2>3. Quiet(y) /\ Clock(y) /\ y.stream # "Open" /\ ~y.broken
    BY <1>2, <1>3, <2>1 DEF SameBooks, Quiet, Clock
  <2>4. Runs(z) /\ Typed(z)
    BY <2>2, <2>3, StartWatchStreamRuns, StartWatchStreamTyped
  <2>5. x = Require(z, ~graceful)
    BY <1>1, <1>4 DEF y
  <2> HIDE DEF z
  <2>6. ~graceful
    BY <1>3, <1>4 DEF ShouldStartWatchStream
  <2>7. Only(x, z, {"broken"})
    BY <2>4, <2>5, RequireTyped
  <2>8. ~x.broken
    <3>1. x.broken = (z.broken \/ ~(~graceful))
      BY <2>4, <2>5 DEF Require, Typed, Shape, Fields
    <3>2. ~z.broken
      BY <2>4 DEF Runs, Running
    <3> QED
      BY <2>6, <3>1, <3>2
  <2>9. SameBooks(x, z) /\ x.timer = z.timer /\ x.failed = z.failed /\ x.online = z.online
    BY <2>7 DEF SameBooks, Only, Fields
  <2>10. Clock(x)
    BY <2>4, <2>9 DEF Runs, Running, Clock, SameBooks
  <2>11. Runs(x)
    BY <2>4, <2>8, <2>9, <2>10, SameBooksRun DEF Runs, Running
  <2> QED
    BY <2>11 DEF x
<1>5. CASE ~ShouldStartWatchStream(closed)
  <2>1. x = UpdateState(closed, "Unknown")
    BY <1>1, <1>5
  <2>2. SameBooks(x, closed) /\ Clock(x) /\ x.broken = closed.broken
    BY <1>2, <2>1, UpdateStateRuns
  <2>3. Flowing(closed) /\ Pressing(closed)
    BY <1>2, QuietFlows
  <2>4. Runs(x)
    BY <1>3, <2>2, <2>3, SameBooksRun
  <2> QED
    BY <2>4 DEF x
<1> QED
  BY <1>4, <1>5

\* What the names of the lookups are about.
SameNames(x, c) ==
    /\ x.limbo = c.limbo /\ x.received = c.received /\ x.on = c.on
    /\ DOMAIN x.listening = DOMAIN c.listening

\* RemoteStore::DisableNetwork keeps the books, and what is watched, ...
LEMMA StopRuns ==
    ASSUME NEW c, Typed(c), Runs(c)
    PROVE  Runs(Stop(c)) /\ SameNames(Stop(c), c)
<1> DEFINE off == [c EXCEPT !.enabled = FALSE]
<1>1. Only(off, c, {"enabled"}) /\ off["enabled"] = FALSE
  BY DEF Only, Typed, Shape, Fields
<1>2. Stop(c) = IF c.stream = "Initial" THEN off ELSE Close(off, TRUE)
  BY DEF Stop
<1> HIDE DEF off
<1>3. Typed(off)
  <2>1. off["enabled"] \in Client_["enabled"]
    BY <1>1 DEF Client_
  <2> QED
    BY <1>1, <2>1, TypedOnly DEF Fields
<1>4. /\ SameBooks(off, c) /\ SameNames(off, c) /\ off.timer = c.timer /\ off.failed = c.failed
      /\ off.online = c.online /\ off.broken = c.broken
  BY <1>1 DEF SameBooks, SameNames, Only, Fields
<1>5. Clock(off) /\ ~off.broken
  BY <1>4 DEF Clock, Runs, Running, SameBooks
<1>6. Runs(off)
  BY <1>4, <1>5, SameBooksRun DEF Runs, Running
<1>7. ~off.enabled
  BY <1>1
<1>8. Runs(Close(off, TRUE))
  BY <1>3, <1>5, <1>7, CloseRuns
<1>9. SameNames(Close(off, TRUE), off)
  <2> DEFINE x == Close(off, TRUE)
  <2>1. Only(x, off, {"stream", "idle", "agg", "updates", "resets", "requests", "incoming",
                      "serving", "online", "raised", "view", "timer", "failed", "broken"})
    BY <1>3, CloseTyped
  <2> HIDE DEF x
  <2>2. SameNames(x, off)
    BY <2>1 DEF SameNames, Only, Fields
  <2> QED
    BY <2>2 DEF x
<1>10. SameNames(Close(off, TRUE), c)
  BY <1>4, <1>9 DEF SameNames
<1> QED
  BY <1>2, <1>4, <1>6, <1>8, <1>10

\* ... and so does EnableNetwork.
LEMMA EnableRuns ==
    ASSUME NEW c, Typed(c), Runs(c)
    PROVE  Runs(Enable(c)) /\ SameNames(Enable(c), c)
<1> DEFINE on == [c EXCEPT !.enabled = TRUE]
           x == StartWatchStream(on)
           y == UpdateState(on, "Unknown")
<1>1. Only(on, c, {"enabled"}) /\ on["enabled"] = TRUE
  BY DEF Only, Typed, Shape, Fields
<1>2. Enable(c) = IF ShouldStartWatchStream(on) THEN x ELSE y
  BY DEF Enable
<1> HIDE DEF on
<1>3. Typed(on)
  <2>1. on["enabled"] \in Client_["enabled"]
    BY <1>1 DEF Client_
  <2> QED
    BY <1>1, <2>1, TypedOnly DEF Fields
<1>4. /\ SameBooks(on, c) /\ SameNames(on, c) /\ on.timer = c.timer /\ on.failed = c.failed
      /\ on.online = c.online /\ on.broken = c.broken
  BY <1>1 DEF SameBooks, SameNames, Only, Fields
<1>5. Clock(on) /\ ~on.broken
  BY <1>4 DEF Clock, Runs, Running, SameBooks
<1>6. Runs(on)
  BY <1>4, <1>5, SameBooksRun DEF Runs, Running
<1>7. ASSUME ShouldStartWatchStream(on) PROVE Runs(x)
  <2>1. on.stream # "Open"
    BY <1>7 DEF ShouldStartWatchStream
  <2>2. Quiet(on)
    BY <1>6, <2>1 DEF Runs, Running, Flowing, Wired
  <2> QED
    BY <1>3, <1>5, <2>1, <2>2, StartWatchStreamRuns
<1>8. Runs(y)
  <2>1. SameBooks(y, on) /\ Clock(y) /\ y.broken = on.broken
    BY <1>3, UpdateStateRuns
  <2> QED
    BY <1>5, <1>6, <2>1, SameBooksRun DEF Runs, Running
<1>9. Only(x, on, {"online", "raised", "view", "timer", "broken", "stream", "agg", "updates", "resets"})
  BY <1>3, StartWatchStreamTyped
<1>10. Only(y, on, {"online", "raised", "view", "timer", "failed"})
  BY <1>3, UpdateStateTyped
<1> HIDE DEF x, y
<1>11. SameNames(x, c) /\ SameNames(y, c)
  BY <1>4, <1>9, <1>10 DEF SameNames, Only, Fields
<1> QED
  BY <1>2, <1>7, <1>8, <1>11

-----------------------------------------------------------------------------
(* The lookups. *)

\* Two steps that leave the messages alone, one after the other, ...
LEMMA UnreadTrans ==
    ASSUME NEW c, NEW y, Unread(y, c), NEW x, Unread(x, y)
    PROVE  Unread(x, c)
BY DEF Unread

\* ... and a step that changes other fields.
LEMMA UnreadOnly ==
    ASSUME NEW c, NEW F, NEW x, Only(x, c, F), F \cap {"lastSnap", "incoming"} = {}
    PROVE  Unread(x, c)
BY DEF Unread, Only, Fields

\* A new lookup is watched.
LEMMA TrackLimboSound ==
    ASSUME NEW c, Typed(c), Sound(c), NEW d \in Docs
    PROVE  Sound(TrackLimbo(d, c)) /\ Unread(TrackLimbo(d, c), c)
<1> DEFINE t == [id |-> NextId(c), docs |-> {d}]
           y == [c EXCEPT !.limbo = With(@, d, t)]
           x == StartWatching(y, t, 0)
<1>1. CASE d \in DOMAIN c.limbo
  BY <1>1 DEF TrackLimbo, Unread
<1>2. CASE d \notin DOMAIN c.limbo
  <2>1. TrackLimbo(d, c) = x
    BY <1>2 DEF TrackLimbo
  <2>2. NextId(c) \in Nat \ {0} /\ NextId(c) \notin KnownIds(c)
    BY NextIdIs
  <2>3. t \in Lookup /\ t.id = NextId(c) /\ t.docs = {d}
    BY <2>2 DEF Lookup
  <2>4. Only(y, c, {"limbo"}) /\ y["limbo"] = With(c.limbo, d, t)
    BY DEF Only, Typed, Shape, Fields
  <2> HIDE DEF t, y
  <2>5. c.limbo \in Partial(Docs, Lookup)
    BY FieldTypes
  <2>6. With(c.limbo, d, t) \in Partial(Docs, Lookup)
    BY <2>3, <2>5, WithPartial
  <2>7. Typed(y)
    BY <2>4, <2>6, TypedOnly, ClientIs DEF Fields
  <2>8. SameBooks(y, c) /\ y.timer = c.timer /\ y.online = c.online /\ y.failed = c.failed
        /\ y.broken = c.broken
    BY <2>4 DEF SameBooks, Only, Fields
  <2>9. Runs(y)
    <3>1. Clock(y) /\ ~y.broken
      BY <2>8 DEF Sound, Runs, Running, Clock, SameBooks
    <3> QED
      BY <2>8, <3>1, SameBooksRun DEF Sound, Runs, Running
  <2>10. t \in Watched /\ 0 \in Versions
    BY <2>3, LookupIs, ZeroVersion
  <2>11. t \notin DOMAIN c.agg
    BY <2>2, <2>3 DEF KnownIds
  <2>12. t \notin DOMAIN y.agg
    BY <2>8, <2>11 DEF SameBooks
  <2>13. Runs(x)
    BY <2>7, <2>9, <2>10, <2>12, StartWatchingRuns
  <2>14. /\ Only(x, y, {"listening", "agg", "requests", "idle", "online", "raised", "view", "timer",
                        "broken", "stream", "updates", "resets"})
         /\ DOMAIN x.listening = DOMAIN y.listening \cup {t}
    BY <2>7, <2>10, StartWatchingTyped
  <2> HIDE DEF x
  <2>15. /\ x.limbo = With(c.limbo, d, t) /\ x.received = c.received /\ x.on = c.on
         /\ DOMAIN x.listening = DOMAIN c.listening \cup {t}
    BY <2>4, <2>8, <2>14 DEF Only, Fields, SameBooks
  <2>16. LookedUp(x)
    <3>1. /\ DOMAIN x.limbo = DOMAIN c.limbo \cup {d} /\ x.limbo[d] = t
          /\ \A e \in DOMAIN c.limbo : x.limbo[e] = c.limbo[e]
      BY <1>2, <2>15 DEF With, Over
    <3> QED
      BY <2>3, <2>15, <3>1 DEF Sound, LookedUp
  <2>17. Linked(x)
    BY <2>3, <2>15, LookupIs DEF Sound, Linked
  <2>18. Unread(x, c)
    BY <2>4, <2>14 DEF Unread, Only, Fields
  <2> QED
    BY <2>1, <2>13, <2>16, <2>17, <2>18 DEF Sound, x
<1> QED
  BY <1>1, <1>2

\* A lookup that is over is left.
LEMMA RemoveLimboTargetSound ==
    ASSUME NEW c, Typed(c), Sound(c), NEW d
    PROVE  Sound(RemoveLimboTarget(d, c)) /\ Unread(RemoveLimboTarget(d, c), c)
<1> DEFINE t == c.limbo[d]
           y == StopWatching(c, t)
           x == [y EXCEPT !.limbo = Without(@, d), !.received = @ \ {t}]
<1>1. CASE d \notin DOMAIN c.limbo
  BY <1>1 DEF RemoveLimboTarget, Unread
<1>2. CASE d \in DOMAIN c.limbo
  <2>1. RemoveLimboTarget(d, c) = x
    BY <1>2 DEF RemoveLimboTarget
  <2>2. c.limbo \in Partial(Docs, Lookup)
    BY FieldTypes
  <2>3. t \in Lookup
    BY <1>2, <2>2, PartialIs
  <2>4. t # Query /\ t \in Watched
    BY <2>3, LookupIs
  <2>5. t \in DOMAIN c.listening /\ t.docs = {d}
    BY <1>2 DEF Sound, LookedUp
  <2> HIDE DEF t
  <2>6. Runs(y)
    BY <2>4, <2>5, StopWatchingRuns DEF Sound
  <2>7. /\ Typed(y)
        /\ Only(y, c, {"listening", "broken", "agg", "requests", "idle", "online", "raised",
                       "view", "timer", "failed"})
        /\ y.listening = Without(c.listening, t)
    BY <2>4, StopWatchingTyped
  <2> HIDE DEF y
  <2>8. /\ Only(x, y, {"limbo", "received"})
        /\ x["limbo"] = Without(y.limbo, d) /\ x["received"] = y.received \ {t}
    BY <2>7 DEF Only, Typed, Shape, Fields
  <2> HIDE DEF x
  <2>9. /\ x.limbo = Without(c.limbo, d) /\ x.received = c.received \ {t} /\ x.on = c.on
        /\ x.listening = Without(c.listening, t) /\ y.received = c.received
    BY <2>7, <2>8 DEF Only, Fields
  <2>10. DOMAIN x.listening = DOMAIN c.listening \ {t}
    BY <2>9 DEF Without, Restrict
  <2>11. /\ x.listening = y.listening /\ x.agg = y.agg /\ x.requests = y.requests
         /\ x.incoming = y.incoming /\ x.resets = y.resets /\ x.on = y.on
         /\ x.view = y.view /\ x.stream = y.stream /\ x.idle = y.idle /\ x.updates = y.updates
         /\ x.serving = y.serving /\ x.timer = y.timer /\ x.failed = y.failed
         /\ x.online = y.online /\ x.broken = y.broken
    BY <2>8 DEF Only, Fields
  <2>12. \A u : Entry(x, u) = Entry(y, u) /\ (u # t => RemoteKeys(x, u) = RemoteKeys(y, u))
    BY <2>9, <2>11 DEF Entry, RemoteKeys
  <2>13. Gathers(x)
    BY <2>6, <2>10, <2>11, <2>12 DEF Runs, Running, Flowing, Gathers, Gotten
  <2>14. /\ Wired(x) /\ Ordered(x) /\ Blocked(x) /\ Resetting(x) /\ Pressing(x) /\ Clock(x)
         /\ ~x.broken
    BY <2>6, <2>11 DEF Runs, Running, Flowing, Wired, Quiet, Ordered, Blocked, Resetting,
                       Pressing, Clock
  <2>15. Counted(x)
    BY <2>6, <2>11, <2>12 DEF Runs, Running, Flowing, Counted
  <2>16. Runs(x)
    BY <2>13, <2>14, <2>15 DEF Runs, Running, Flowing
  <2>17. LookedUp(x)
    <3>1. /\ DOMAIN x.limbo = DOMAIN c.limbo \ {d}
          /\ \A e \in DOMAIN x.limbo : x.limbo[e] = c.limbo[e]
      BY <2>9 DEF Without, Restrict
    <3>2. LookedUp(c)
      BY DEF Sound
    <3>3. \A e \in DOMAIN x.limbo : x.limbo[e].docs = {e} /\ x.limbo[e] # t
      BY <2>5, <3>1, <3>2 DEF LookedUp
    <3>4. \A e \in DOMAIN x.limbo : x.limbo[e] \in DOMAIN x.listening
      BY <2>10, <3>1, <3>2, <3>3 DEF LookedUp
    <3>5. \A e \in DOMAIN c.limbo : e \in DOMAIN x.limbo \/ c.limbo[e] = t
      BY <3>1 DEF t
    <3>6. DOMAIN x.listening \subseteq {Query} \cup {x.limbo[e] : e \in DOMAIN x.limbo}
      BY <2>10, <3>1, <3>2, <3>5 DEF LookedUp
    <3>7. x.received \subseteq {x.limbo[e] : e \in DOMAIN x.limbo}
      BY <2>9, <3>1, <3>2, <3>5 DEF LookedUp
    <3> QED
      BY <3>3, <3>4, <3>6, <3>7 DEF LookedUp
  <2>18. Linked(x)
    BY <2>4, <2>9, <2>10 DEF Sound, Linked
  <2>19. Unread(x, c)
    BY <2>7, <2>8 DEF Unread, Only, Fields
  <2> QED
    BY <2>1, <2>16, <2>17, <2>18, <2>19 DEF Sound, x
<1> QED
  BY <1>1, <1>2

\* All new lookups are watched, ...
LEMMA TrackAllSound ==
    ASSUME NEW c, Typed(c), Sound(c), NEW S \in SUBSET Docs
    PROVE  Sound(FoldSet(TrackLimbo, c, S)) /\ Unread(FoldSet(TrackLimbo, c, S), c)
<1> DEFINE p == [goal |-> "books", of |-> "track", from |-> c]
<1>1. IsFiniteSet(S)
  BY DocsAssumption, FS_Subset
<1>2. FoldInv(p, {}, c)
  BY DEF FoldInv, BooksKept, Unread
<1>3. ASSUME NEW r \in SUBSET S, NEW x \in S \ r, NEW y, FoldInv(p, r, y)
      PROVE  FoldInv(p, r \cup {x}, FoldStep(p, x, y))
  <2>1. Typed(y) /\ Sound(y) /\ x \in Docs /\ Unread(y, c)
    BY <1>3 DEF FoldInv, BooksKept
  <2>2. Typed(TrackLimbo(x, y)) /\ Sound(TrackLimbo(x, y)) /\ Unread(TrackLimbo(x, y), y)
    BY <2>1, TrackLimboTyped, TrackLimboSound DEF Kept
  <2>3. Unread(TrackLimbo(x, y), c)
    BY <2>1, <2>2, UnreadTrans
  <2> QED
    BY <2>2, <2>3 DEF FoldStep, FoldInv, BooksKept
<1>4. FoldInv(p, S, FoldedSet(p, c, S))
  BY <1>1, <1>2, <1>3, FoldKeeps
<1>5. FoldSet(TrackLimbo, c, S) = FoldedSet(p, c, S)
  BY DEF FoldSet, MapThenFoldSet, FoldedSet, FoldStep
<1> QED
  BY <1>4, <1>5 DEF FoldInv, BooksKept

\* ... and all that are over are left.
LEMMA RemoveAllSound ==
    ASSUME NEW c, Typed(c), Sound(c), NEW S \in SUBSET Docs
    PROVE  /\ Sound(FoldSet(RemoveLimboTarget, c, S))
           /\ Unread(FoldSet(RemoveLimboTarget, c, S), c)
<1> DEFINE p == [goal |-> "books", of |-> "drop", from |-> c]
<1>1. IsFiniteSet(S)
  BY DocsAssumption, FS_Subset
<1>2. FoldInv(p, {}, c)
  BY DEF FoldInv, BooksKept, Unread
<1>3. ASSUME NEW r \in SUBSET S, NEW x \in S \ r, NEW y, FoldInv(p, r, y)
      PROVE  FoldInv(p, r \cup {x}, FoldStep(p, x, y))
  <2>1. Typed(y) /\ Sound(y) /\ Unread(y, c)
    BY <1>3 DEF FoldInv, BooksKept
  <2>2. /\ Typed(RemoveLimboTarget(x, y)) /\ Sound(RemoveLimboTarget(x, y))
        /\ Unread(RemoveLimboTarget(x, y), y)
    BY <2>1, RemoveLimboTargetTyped, RemoveLimboTargetSound DEF Kept
  <2>3. Unread(RemoveLimboTarget(x, y), c)
    BY <2>1, <2>2, UnreadTrans
  <2> QED
    BY <2>2, <2>3 DEF FoldStep, FoldInv, BooksKept
<1>4. FoldInv(p, S, FoldedSet(p, c, S))
  BY <1>1, <1>2, <1>3, FoldKeeps
<1>5. FoldSet(RemoveLimboTarget, c, S) = FoldedSet(p, c, S)
  BY DEF FoldSet, MapThenFoldSet, FoldedSet, FoldStep
<1> QED
  BY <1>4, <1>5 DEF FoldInv, BooksKept

-----------------------------------------------------------------------------
(* The view. *)

\* The query has gathered nothing that counts.
Idle(c) ==
    Query \in DOMAIN c.listening /\ Entry(c, Query).outstanding = 0
        => DOMAIN Entry(c, Query).changes = {}

\* A view is computed anew: what changes in it was in it.
LEMMA EmitSound ==
    ASSUME NEW c, Typed(c), Sound(c), NEW change \in ChangeType,
           c.on => change.modified \subseteq c.view.synced \cup change.added,
           change.added \cup change.removed = {} \/ Idle(c)
    PROVE  Sound(Emit(c, change)) /\ Unread(Emit(c, change), c)
<1>1. CASE ~c.on
  BY <1>1 DEF Emit, Unread
<1>2. CASE c.on
  <2> DEFINE view == Applied(c, change)
             checked == Require(c, change.modified \subseteq c.view.synced \cup change.added)
             shown == [checked EXCEPT !.view = view, !.raised = @ \/ Raises(c, view, change)]
             left == FoldSet(RemoveLimboTarget, shown, c.view.limbo \ view.limbo)
             x == FoldSet(TrackLimbo, left, view.limbo \ c.view.limbo)
  <2>1. Emit(c, change) = x
    BY <1>2 DEF Emit
  <2>2. view \in ViewType /\ view.synced = (c.view.synced \cup change.added) \ change.removed
    BY AppliedTyped DEF Applied
  <2>3. Typed(checked) /\ Only(checked, c, {"broken"})
    BY RequireTyped
  <2>4. ~checked.broken
    <3>1. checked.broken
            = (c.broken \/ ~(change.modified \subseteq c.view.synced \cup change.added))
      BY DEF Require, Typed, Shape, Fields
    <3>2. ~c.broken
      BY DEF Sound, Runs, Running
    <3> QED
      BY <1>2, <3>1, <3>2
  <2> HIDE DEF view, checked
  <2>5. /\ Only(shown, checked, {"view", "raised"}) /\ shown["view"] = view
        /\ shown["raised"] \in BOOLEAN
    BY <2>3 DEF Only, Typed, Shape, Fields
  <2> HIDE DEF shown
  <2>6. Typed(shown)
    BY <2>2, <2>3, <2>5, TypedOnly, ClientIs DEF Fields
  <2>7. /\ shown.listening = c.listening /\ shown.agg = c.agg /\ shown.requests = c.requests
        /\ shown.incoming = c.incoming /\ shown.resets = c.resets /\ shown.on = c.on
        /\ shown.received = c.received /\ shown.limbo = c.limbo /\ shown.stream = c.stream
        /\ shown.idle = c.idle /\ shown.updates = c.updates /\ shown.serving = c.serving
        /\ shown.timer = c.timer /\ shown.failed = c.failed /\ shown.online = c.online
        /\ shown.broken = checked.broken /\ shown.view = view
    BY <2>3, <2>5 DEF Only, Fields
  <2>8. /\ Wired(shown) /\ Ordered(shown) /\ Blocked(shown) /\ Resetting(shown)
        /\ Pressing(shown) /\ Clock(shown) /\ ~shown.broken
    BY <2>4, <2>7 DEF Sound, Runs, Running, Flowing, Wired, Quiet, Ordered, Blocked, Resetting,
                      Pressing, Clock
  <2>9. \A t : Entry(shown, t) = Entry(c, t)
    BY <2>7 DEF Entry
  <2>10. Counted(shown)
    BY <2>7, <2>9 DEF Sound, Runs, Running, Flowing, Counted
  <2>11. Gathers(shown)
    <3>1. ASSUME NEW t \in DOMAIN shown.listening, Entry(shown, t).outstanding = 0
          PROVE  Gotten(shown, t)
      <4>1. Gotten(c, t)
        BY <2>7, <2>9, <3>1 DEF Sound, Runs, Running, Flowing, Gathers
      <4>2. CASE RemoteKeys(shown, t) = RemoteKeys(c, t)
        BY <2>9, <4>1, <4>2 DEF Gotten
      <4>3. CASE RemoteKeys(shown, t) # RemoteKeys(c, t)
        <5>1. t = Query /\ view.synced # c.view.synced
          BY <2>7, <4>3 DEF RemoteKeys
        <5>2. Idle(c)
          BY <2>2, <5>1
        <5>3. DOMAIN Entry(shown, t).changes = {}
          BY <2>7, <2>9, <3>1, <5>1, <5>2 DEF Idle
        <5> QED
          BY <5>3 DEF Gotten
      <4> QED
        BY <4>2, <4>3
    <3> QED
      BY <3>1 DEF Gathers
  <2>12. LookedUp(shown) /\ Linked(shown)
    BY <2>7 DEF Sound, LookedUp, Linked
  <2>13. Sound(shown)
    BY <2>8, <2>10, <2>11, <2>12 DEF Sound, Runs, Running, Flowing
  <2>14. c.view.limbo \in SUBSET Docs /\ view.limbo \in SUBSET Docs
    BY <2>2, FieldTypes DEF ViewType
  <2>15. Kept(shown, left) /\ Sound(left) /\ Unread(left, shown)
    BY <2>6, <2>13, <2>14, RemoveAll, RemoveAllSound
  <2> HIDE DEF left
  <2>16. Sound(x) /\ Unread(x, left)
    BY <2>14, <2>15, TrackAllSound DEF Kept
  <2>17. Unread(shown, c)
    BY <2>3, <2>5 DEF Unread, Only, Fields
  <2>18. Unread(x, c)
    BY <2>15, <2>16, <2>17, UnreadTrans
  <2> QED
    BY <2>1, <2>16, <2>18
<1> QED
  BY <1>1, <1>2

\* What the local store changes concerns no target.
LEMMA EmitLocalSound ==
    ASSUME NEW c, Typed(c), Sound(c)
    PROVE  Sound(Emit(c, NoChange(c))) /\ Unread(Emit(c, NoChange(c)), c)
<1>1. NoChange(c) \in ChangeType
  BY NoChangeTyped
<1>2. NoChange(c).modified = {} /\ NoChange(c).added \cup NoChange(c).removed = {}
  BY DEF NoChange
<1> QED
  BY <1>1, <1>2, EmitSound

\* Sound depends on some fields only.
SameState(x, c) ==
    /\ SameBooks(x, c) /\ x.limbo = c.limbo /\ x.timer = c.timer /\ x.failed = c.failed
    /\ x.online = c.online /\ x.broken = c.broken

\* What SameState compares is all that the books are about.
LEMMA SameStateSound ==
    ASSUME NEW c, NEW x, Sound(c), SameState(x, c)
    PROVE  Sound(x)
<1>1. Clock(x) /\ ~x.broken
  BY DEF SameState, SameBooks, Sound, Runs, Running, Clock
<1>2. Runs(x)
  BY <1>1, SameBooksRun DEF SameState, Sound, Runs, Running
<1>3. LookedUp(x) /\ Linked(x)
  BY DEF SameState, SameBooks, Sound, LookedUp, Linked
<1> QED
  BY <1>2, <1>3 DEF Sound

-----------------------------------------------------------------------------
(* What the targets gather. *)

SameNews(y, c) == SameDue(y, c) /\ Gathers(y)

\* Nothing becomes due in two steps that make nothing due.
LEMMA SameDueTrans ==
    ASSUME NEW c, NEW y, SameDue(y, c), NEW x, SameDue(x, y)
    PROVE  SameDue(x, c)
BY DEF SameDue

\* What an active target gathers: a document is removed or modified if the target has it.
LEMMA GatherNews ==
    ASSUME NEW c, Typed(c), Gathers(c), NEW t \in DOMAIN c.agg, NEW changes, NEW update, NEW x,
           \A d \in DOMAIN changes : changes[d] # "Added" => d \in RemoteKeys(c, t),
           x = [WithEntry(c, t, [Entry(c, t) EXCEPT !.changes = changes])
                   EXCEPT !.updates = Over(update, @)]
    PROVE  SameNews(x, c)
<1> DEFINE entry == [Entry(c, t) EXCEPT !.changes = changes]
<1>1. c.agg \in Partial(Watched, EntryType)
  BY FieldTypes DEF Aggregator
<1>2. t \in Watched /\ Entry(c, t) \in EntryType
  BY <1>1, PartialIs, EntryTyped
<1>3. entry.outstanding = Entry(c, t).outstanding /\ entry.changes = changes
  BY <1>2 DEF EntryType
<1>4. /\ x.agg = With(c.agg, t, entry) /\ x.broken = c.broken /\ x.listening = c.listening
      /\ x.received = c.received /\ x.on = c.on /\ x.view = c.view
  BY DEF WithEntry, Typed, Shape, Fields
<1> HIDE DEF entry
<1>5. /\ DOMAIN x.agg = DOMAIN c.agg /\ Entry(x, t) = entry
      /\ \A u : u # t => Entry(x, u) = Entry(c, u)
  BY <1>4 DEF Entry, With, Over
<1>6. SameDue(x, c)
  BY <1>3, <1>4, <1>5 DEF SameDue
<1>7. Gathers(x)
  <2>1. ASSUME NEW u \in DOMAIN x.listening, Entry(x, u).outstanding = 0
        PROVE  Gotten(x, u)
    <3>1. RemoteKeys(x, u) = RemoteKeys(c, u)
      BY <1>4 DEF RemoteKeys
    <3>2. CASE u = t
      BY <1>3, <1>5, <3>1, <3>2 DEF Gotten
    <3>3. CASE u # t
      BY <1>4, <1>5, <2>1, <3>1, <3>3 DEF Gathers, Gotten
    <3> QED
      BY <3>2, <3>3
  <2> QED
    BY <2>1 DEF Gathers
<1> QED
  BY <1>6, <1>7 DEF SameNews

\* A client is its own later state.
LEMMA SameNewsSame ==
    ASSUME NEW c, Gathers(c)
    PROVE  SameNews(c, c)
BY DEF SameNews, SameDue

\* TargetState gathers a document that is there, ...
LEMMA AddDocumentNews ==
    ASSUME NEW c, Typed(c), Gathers(c), DOMAIN c.listening \subseteq DOMAIN c.agg,
           NEW t \in Watched, NEW d, NEW doc
    PROVE  SameNews(AddDocument(c, t, d, doc), c)
<1> DEFINE kind == IF d \in RemoteKeys(c, t) THEN "Modified" ELSE "Added"
           changes == With(Entry(c, t).changes, d, kind)
           update == [x \in {d} |-> doc]
           x == AddDocument(c, t, d, doc)
<1>1. CASE ~IsActiveTarget(c, t)
  BY <1>1, SameNewsSame DEF AddDocument
<1>2. CASE IsActiveTarget(c, t)
  <2>1. t \in DOMAIN c.agg /\ Gotten(c, t)
    BY <1>2 DEF IsActiveTarget, Gathers
  <2>2. x = [WithEntry(c, t, [Entry(c, t) EXCEPT !.changes = changes])
                EXCEPT !.updates = Over(update, @)]
    <3>1. Entry(c, t) \in EntryType
      BY EntryTyped
    <3>2. [Entry(c, t) EXCEPT !.changes = With(@, d, kind)]
            = [Entry(c, t) EXCEPT !.changes = changes]
      BY <3>1 DEF EntryType
    <3> QED
      BY <1>2, <3>2 DEF AddDocument, With
  <2>3. \A e \in DOMAIN changes : changes[e] # "Added" => e \in RemoteKeys(c, t)
    BY <2>1 DEF Gotten, With, Over
  <2> HIDE DEF changes, update, x
  <2> QED
    BY <2>1, <2>2, <2>3, GatherNews DEF x
<1> QED
  BY <1>1, <1>2

\* ... and one that is gone, as removed only if the target has it.
LEMMA RemoveDocumentNews ==
    ASSUME NEW c, Typed(c), Gathers(c), DOMAIN c.listening \subseteq DOMAIN c.agg,
           NEW t \in Watched, NEW d, NEW update
    PROVE  SameNews(RemoveDocument(c, t, d, update), c)
<1> DEFINE without == IF d \in RemoteKeys(c, t) THEN With(Entry(c, t).changes, d, "Removed")
                      ELSE Without(Entry(c, t).changes, d)
           x == RemoveDocument(c, t, d, update)
<1>1. CASE ~IsActiveTarget(c, t)
  BY <1>1, SameNewsSame DEF RemoveDocument
<1>2. CASE IsActiveTarget(c, t)
  <2>1. t \in DOMAIN c.agg /\ Gotten(c, t)
    BY <1>2 DEF IsActiveTarget, Gathers
  <2>2. x = [WithEntry(c, t, [Entry(c, t) EXCEPT !.changes = without])
                EXCEPT !.updates = Over(update, @)]
    BY <1>2 DEF RemoveDocument
  <2>3. \A e \in DOMAIN without : without[e] # "Added" => e \in RemoteKeys(c, t)
    <3>1. CASE d \in RemoteKeys(c, t)
      BY <2>1, <3>1 DEF Gotten, With, Over
    <3>2. CASE d \notin RemoteKeys(c, t)
      BY <2>1, <3>2 DEF Gotten, Without, Restrict
    <3> QED
      BY <3>1, <3>2
  <2> HIDE DEF without, x
  <2> QED
    BY <2>1, <2>2, <2>3, GatherNews DEF x
<1> QED
  BY <1>1, <1>2

\* The documents of an active target are removed, unless the server names them again.
LEMMA ResetTargetNews ==
    ASSUME NEW c, Typed(c), Gathers(c), DOMAIN c.listening \subseteq DOMAIN c.agg,
           NEW t \in Watched, IsActiveTarget(c, t)
    PROVE  SameNews(ResetTarget(c, t), c)
<1> DEFINE fresh == WithEntry(c, t, NewEntry)
           start == Require(fresh, t \in DOMAIN c.agg /\ Entry(c, t).outstanding = 0)
           S == RemoteKeys(c, t)
           p == [goal |-> "books", of |-> "reset", from |-> c, target |-> t]
<1>1. t \in DOMAIN c.agg /\ Entry(c, t).outstanding = 0
  BY DEF IsActiveTarget
<1>2. NewEntry \in EntryType /\ DOMAIN NewEntry.changes = {} /\ NewEntry.outstanding = 0
  <2>1. <<>> \in Partial(Docs, Change) /\ DOMAIN <<>> = {}
    BY PartialNone
  <2> QED
    BY <2>1 DEF NewEntry, EntryType
<1>3. Typed(fresh) /\ Only(fresh, c, {"agg"}) /\ fresh.agg = With(c.agg, t, NewEntry)
  BY <1>2, WithEntryTyped
<1> HIDE DEF fresh
<1>4. Typed(start) /\ Only(start, fresh, {"broken"})
  BY <1>3, RequireTyped
<1>5. start.broken = (fresh.broken \/ ~(t \in DOMAIN c.agg /\ Entry(c, t).outstanding = 0))
  BY <1>3 DEF Require, Typed, Shape, Fields
<1> HIDE DEF start
<1>6. start.broken = c.broken
  <2>1. fresh.broken = c.broken /\ c.broken \in BOOLEAN
    BY <1>3, FieldTypes DEF Only, Fields
  <2> QED
    BY <1>1, <1>5, <2>1
<1>7. /\ start.agg = With(c.agg, t, NewEntry) /\ start.listening = c.listening
      /\ start.received = c.received /\ start.on = c.on /\ start.view = c.view
  BY <1>3, <1>4 DEF Only, Fields
<1>8. /\ DOMAIN start.agg = DOMAIN c.agg /\ Entry(start, t) = NewEntry
      /\ \A u : u # t => Entry(start, u) = Entry(c, u)
  BY <1>1, <1>7 DEF Entry, With, Over
<1>9. SameDue(start, c)
  BY <1>1, <1>2, <1>6, <1>8 DEF SameDue
<1>10. Gathers(start)
  <2>1. ASSUME NEW u \in DOMAIN start.listening, Entry(start, u).outstanding = 0
        PROVE  Gotten(start, u)
    <3>1. RemoteKeys(start, u) = RemoteKeys(c, u)
      BY <1>7 DEF RemoteKeys
    <3>2. CASE u = t
      BY <1>2, <1>8, <3>2 DEF Gotten
    <3>3. CASE u # t
      BY <1>7, <1>8, <2>1, <3>1, <3>3 DEF Gathers, Gotten
    <3> QED
      BY <3>2, <3>3
  <2> QED
    BY <2>1 DEF Gathers
<1>11. Gathered(c, start)
  BY <1>3, <1>4 DEF Gathered, Only
<1>12. S \subseteq t.docs /\ S \subseteq Docs
  BY RemoteKeysTyped
<1>13. IsFiniteSet(S)
  BY <1>12, DocsAssumption, FS_Subset
<1>14. <<>> \in Partial(Docs, CachedDoc)
  BY PartialNone
<1> HIDE DEF S
<1>15. FoldInv(p, {}, start)
  BY <1>9, <1>10, <1>11 DEF FoldInv, BooksKept
<1>16. ASSUME NEW r \in SUBSET S, NEW x \in S \ r, NEW y, FoldInv(p, r, y)
       PROVE  FoldInv(p, r \cup {x}, FoldStep(p, x, y))
  <2> DEFINE z == RemoveDocument(y, t, x, <<>>)
  <2>1. Gathered(c, y) /\ Typed(y) /\ x \in t.docs /\ SameDue(y, c) /\ Gathers(y)
    BY <1>12, <1>16 DEF FoldInv, BooksKept, Gathered
  <2>2. DOMAIN y.listening \subseteq DOMAIN y.agg
    BY <2>1 DEF Gathered, Only, Fields, SameDue
  <2>3. Gathered(y, z) /\ SameNews(z, y)
    BY <1>14, <2>1, <2>2, RemoveDocumentTyped, RemoveDocumentNews
  <2> HIDE DEF z
  <2>4. Gathered(c, z) /\ SameDue(z, c) /\ Gathers(z)
    BY <2>1, <2>3, GatheredTrans, SameDueTrans DEF SameNews
  <2> QED
    BY <2>4 DEF FoldInv, BooksKept, FoldStep, z
<1>17. FoldInv(p, S, FoldedSet(p, start, S))
  BY <1>13, <1>15, <1>16, FoldKeeps
<1>18. ResetTarget(c, t) = FoldedSet(p, start, S)
  BY DEF ResetTarget, FoldSet, MapThenFoldSet, FoldedSet, FoldStep, start, fresh, S
<1> QED
  BY <1>17, <1>18 DEF FoldInv, BooksKept, SameNews

\* Lookups that found nothing.
LEMMA SynthesizedNews ==
    ASSUME NEW c, Typed(c), Gathers(c), DOMAIN c.listening \subseteq DOMAIN c.agg,
           NEW version \in Versions
    PROVE  SameNews(Synthesized(c, version), c)
<1> DEFINE S == {t \in DOMAIN c.agg : /\ IsActiveTarget(c, t) /\ t # Query
                                      /\ Entry(c, t).current
                                      /\ TheDoc(t) \notin DOMAIN c.updates
                                      /\ TheDoc(t) \notin RemoteKeys(c, t)}
           p == [goal |-> "books", of |-> "find", from |-> c, version |-> version]
<1>1. S \subseteq Lookup /\ IsFiniteSet(S)
  <2>1. c.agg \in Partial(Watched, EntryType)
    BY FieldTypes DEF Aggregator
  <2>2. DOMAIN c.agg \subseteq Watched /\ IsFiniteSet(DOMAIN c.agg)
    BY <2>1, PartialIs
  <2> QED
    BY <2>2, FS_Subset DEF Watched
<1>3. DeletedAt(version) \in CachedDoc
  BY DEF DeletedAt, CachedDoc, Values
<1>4. FoldInv(p, {}, c)
  BY GatheredSame, SameNewsSame DEF FoldInv, BooksKept, SameNews
<1>5. Synthesized(c, version) = FoldedSet(p, c, S)
  BY DEF Synthesized, FoldSet, MapThenFoldSet, FoldedSet, FoldStep, DeletedAt
<1> HIDE DEF S
<1>6. ASSUME NEW r \in SUBSET S, NEW t \in S \ r, NEW y, FoldInv(p, r, y)
      PROVE  FoldInv(p, r \cup {t}, FoldStep(p, t, y))
  <2> DEFINE update == [d \in {TheDoc(t)} |-> DeletedAt(version)]
             z == RemoveDocument(y, t, TheDoc(t), update)
  <2>1. Gathered(c, y) /\ Typed(y) /\ SameDue(y, c) /\ Gathers(y)
    BY <1>6 DEF FoldInv, BooksKept, Gathered
  <2>2. t \in Watched /\ TheDoc(t) \in Docs /\ TheDoc(t) \in t.docs
    BY <1>1, LookupIs
  <2>3. update \in Partial(Docs, CachedDoc)
    BY <1>3, <2>2, OnePartial
  <2>4. FoldStep(p, t, y) = z
    BY DEF FoldStep
  <2>5. DOMAIN y.listening \subseteq DOMAIN y.agg
    BY <2>1 DEF Gathered, Only, Fields, SameDue
  <2> HIDE DEF update
  <2>6. Gathered(y, z) /\ SameNews(z, y)
    BY <2>1, <2>2, <2>3, <2>5, RemoveDocumentTyped, RemoveDocumentNews
  <2> HIDE DEF z
  <2>7. Gathered(c, z) /\ SameDue(z, c) /\ Gathers(z)
    BY <2>1, <2>6, GatheredTrans, SameDueTrans DEF SameNews
  <2> QED
    BY <2>4, <2>7 DEF FoldInv, BooksKept
<1>7. FoldInv(p, S, FoldedSet(p, c, S))
  BY <1>1, <1>4, <1>6, FoldKeeps
<1> QED
  BY <1>5, <1>7 DEF FoldInv, BooksKept, SameNews

\* What is gathered keeps the books, ...
LEMMA NewsKeep ==
    ASSUME NEW c, Typed(c), Running(c), c.stream = "Open", NEW y, Gathered(c, y), SameNews(y, c)
    PROVE  Running(y) /\ y.stream = "Open"
<1>1. /\ y.listening = c.listening /\ y.requests = c.requests /\ y.incoming = c.incoming
      /\ y.resets = c.resets /\ y.received = c.received /\ y.on = c.on /\ y.view = c.view
      /\ y.stream = c.stream /\ y.idle = c.idle /\ y.serving = c.serving
      /\ y.timer = c.timer /\ y.failed = c.failed /\ y.online = c.online /\ y.limbo = c.limbo
  BY DEF Gathered, Only, Fields
<1>2. /\ DOMAIN y.agg = DOMAIN c.agg /\ y.broken = c.broken /\ Gathers(y)
      /\ \A t \in Watched : Entry(y, t).outstanding = Entry(c, t).outstanding
  BY DEF SameNews, SameDue
<1>3. Counted(y)
  BY <1>1, <1>2 DEF Running, Flowing, Counted
<1>4. /\ Wired(y) /\ Ordered(y) /\ Blocked(y) /\ Resetting(y) /\ Clock(y)
      /\ ~y.broken
  BY <1>1, <1>2 DEF Running, Flowing, Wired, Ordered, Blocked, Resetting,
                    Clock
<1> QED
  BY <1>1, <1>2, <1>3, <1>4 DEF Running, Flowing

\* ... and the lookups.
LEMMA NewsSound ==
    ASSUME NEW c, Typed(c), Sound(c), c.stream = "Open", NEW y, Gathered(c, y), SameNews(y, c)
    PROVE  Sound(y)
<1>1. /\ y.incoming = c.incoming /\ y.resets = c.resets /\ y.received = c.received
      /\ y.on = c.on /\ y.limbo = c.limbo /\ y.listening = c.listening
  BY DEF Gathered, Only, Fields
<1>2. Running(y)
  BY NewsKeep DEF Sound, Runs
<1>3. Pressing(y) /\ LookedUp(y) /\ Linked(y)
  BY <1>1 DEF Sound, Runs, Pressing, LookedUp, Linked
<1> QED
  BY <1>2, <1>3 DEF Sound, Runs

\* A target that the client expects no answer about is owed none.
LEMMA NothingDue ==
    ASSUME NEW c, Typed(c), Counted(c), NEW t \in Watched, Entry(c, t).outstanding = 0
    PROVE  Due(c.incoming, c.requests, t) = 0
<1>1. c.incoming \in Seq(Message) /\ c.requests \in Seq(RequestType)
  BY FieldTypes
<1>2. Due(c.incoming, c.requests, t) \in Nat
  BY <1>1, DueIs
<1>3. 0 >= Due(c.incoming, c.requests, t)
  BY DEF Counted
<1> QED
  BY <1>2, <1>3

\* A query that has to start over is put down while its snapshot is still to come.
LEMMA HandleFilterSound ==
    ASSUME NEW c, Typed(c), Sound(c), c.stream = "Open", NEW t \in Watched, NEW count,
           c.incoming # <<>>, Reports(c.incoming, 1)
    PROVE  Sound(HandleFilter(c, t, count))
<1> DEFINE x == HandleFilter(c, t, count)
           gone == [d \in {TheDoc(t)} |-> Unknown]
           y == ResetTarget(c, t)
           z == [y EXCEPT !.resets = @ \cup {t}]
<1>1. x = c \/ (t # Query /\ x = RemoveDocument(c, t, TheDoc(t), gone))
      \/ (IsActiveTarget(c, t) /\ x = z)
  BY DEF HandleFilter
<1> HIDE DEF x
<1>2. Gathers(c) /\ DOMAIN c.listening \subseteq DOMAIN c.agg
  BY DEF Sound, Runs, Running, Flowing, Wired
<1>3. CASE t # Query /\ x = RemoveDocument(c, t, TheDoc(t), gone)
  <2>1. TheDoc(t) \in Docs /\ TheDoc(t) \in t.docs
    BY <1>3, LookupIs DEF Watched
  <2>2. Unknown \in CachedDoc
    BY BoundsAssumption DEF Unknown, CachedDoc, Values, Versions
  <2>3. gone \in Partial(Docs, CachedDoc)
    BY <2>1, <2>2, OnePartial
  <2> HIDE DEF gone
  <2>4. Gathered(c, x) /\ SameNews(x, c)
    BY <1>2, <1>3, <2>1, <2>3, RemoveDocumentTyped, RemoveDocumentNews
  <2> QED
    BY <2>4, NewsSound DEF x
<1>4. CASE IsActiveTarget(c, t) /\ x = z
  <2>1. Gathered(c, y) /\ SameNews(y, c) /\ Typed(y)
    BY <1>2, <1>4, ResetTargetTyped, ResetTargetNews DEF Gathered
  <2>2. Sound(y)
    BY <2>1, NewsSound
  <2>3. Due(c.incoming, c.requests, t) = 0 /\ t \in DOMAIN c.agg
    BY <1>2, <1>4, NothingDue DEF Sound, Runs, Running, Flowing, IsActiveTarget
  <2>4. /\ y.incoming = c.incoming /\ y.requests = c.requests /\ DOMAIN y.agg = DOMAIN c.agg
        /\ y.stream = "Open"
    BY <2>1 DEF Gathered, Only, Fields, SameNews, SameDue
  <2> HIDE DEF y
  <2>5. Only(z, y, {"resets"}) /\ z["resets"] = y.resets \cup {t}
    BY <2>1 DEF Only, Typed, Shape, Fields
  <2> HIDE DEF z
  <2>6. /\ z.listening = y.listening /\ z.requests = y.requests /\ z.incoming = y.incoming
        /\ z.agg = y.agg /\ z.received = y.received /\ z.on = y.on /\ z.view = y.view
        /\ z.stream = y.stream /\ z.idle = y.idle /\ z.serving = y.serving
        /\ z.timer = y.timer /\ z.failed = y.failed /\ z.online = y.online /\ z.limbo = y.limbo
        /\ z.broken = y.broken /\ z.resets = y.resets \cup {t}
    BY <2>5 DEF Only, Fields
  <2>7. \A u : Entry(z, u) = Entry(y, u) /\ RemoteKeys(z, u) = RemoteKeys(y, u)
    BY <2>6 DEF Entry, RemoteKeys
  <2>8. Counted(z) /\ Gathers(z)
    BY <2>2, <2>6, <2>7 DEF Sound, Runs, Running, Flowing, Counted, Gathers, Gotten
  <2>9. Wired(z) /\ Ordered(z) /\ Blocked(z) /\ Clock(z) /\ ~z.broken
    BY <2>2, <2>4, <2>6 DEF Sound, Runs, Running, Flowing, Wired, Ordered, Blocked, Clock
  <2>10. Resetting(z) /\ Pressing(z)
    BY <2>2, <2>3, <2>4, <2>6 DEF Sound, Runs, Running, Flowing, Resetting, Pressing
  <2>11. LookedUp(z) /\ Linked(z)
    BY <2>2, <2>6 DEF Sound, LookedUp, Linked
  <2>12. Sound(z)
    BY <2>8, <2>9, <2>10, <2>11 DEF Sound, Runs, Running, Flowing
  <2> QED
    BY <1>4, <2>12 DEF x
<1> QED
  BY <1>1, <1>3, <1>4 DEF x

-----------------------------------------------------------------------------
(* Remote events. *)

\* A document that a lookup lost or changed was brought by it.
Brought(c, changes) ==
    \A t \in DOMAIN changes :
        t \in Range(c.limbo) /\ (changes[t].modified # {} \/ changes[t].removed # {})
            => t \in c.received

LookBooks(c, changes) == [goal |-> "books", of |-> "look", from |-> c, changes |-> changes]

\* A lookup asserts what its target brought, and remembers that it was answered, ...
LEMMA LookStepBooks ==
    ASSUME NEW y, Typed(y), NEW p, p.of = "look", NEW t,
           p.changes[t].modified # {} \/ p.changes[t].removed # {} => t \in y.received
    PROVE  /\ FoldStep(p, t, y).broken = y.broken
           /\ \A u : u # t => (u \in FoldStep(p, t, y).received <=> u \in y.received)
           /\ FoldStep(p, t, y).received \subseteq y.received \cup {t}
<1> DEFINE a == [y EXCEPT !.received = @ \cup {t}]
           z == Require(y, t \in y.received)
           b == [z EXCEPT !.received = @ \ {t}]
           x == FoldStep(p, t, y)
<1>1. y.broken \in BOOLEAN
  BY FieldTypes
<1>2. x = a \/ (t \in y.received /\ x \in {z, b}) \/ x = y
  BY DEF FoldStep
<1>3. a.broken = y.broken /\ a.received = y.received \cup {t}
  BY DEF Typed, Shape, Fields
<1>4. z.broken = (y.broken \/ ~(t \in y.received)) /\ z.received = y.received
  BY DEF Require, Typed, Shape, Fields
<1>5. b.broken = z.broken /\ b.received = z.received \ {t}
  BY DEF Require, Typed, Shape, Fields
<1> HIDE DEF a, z, b, x
<1>6. CASE x = a
  BY <1>3, <1>6 DEF x
<1>7. CASE t \in y.received /\ x \in {z, b}
  <2>1. z.broken = y.broken
    BY <1>1, <1>4, <1>7
  <2>2. x.broken = y.broken
    BY <1>5, <1>7, <2>1
  <2>3. x.received \in {y.received, y.received \ {t}}
    BY <1>4, <1>5, <1>7
  <2> QED
    BY <2>2, <2>3 DEF x
<1>8. CASE x = y
  BY <1>8 DEF x
<1> QED
  BY <1>2, <1>6, <1>7, <1>8

\* ... and so do all lookups of an event.
LEMMA LookedBooks ==
    ASSUME NEW c, Typed(c), NEW changes, IsFiniteSet(DOMAIN changes), Brought(c, changes)
    PROVE  LET x == Looked(c, changes)
           IN  /\ x.broken = c.broken
               /\ \A t : t \notin DOMAIN changes => (t \in x.received <=> t \in c.received)
               /\ x.received \subseteq c.received \cup Range(c.limbo)
<1> DEFINE S == {t \in DOMAIN changes : t \in Range(c.limbo)}
           p == LookBooks(c, changes)
           x == FoldedSet(p, c, S)
<1>1. S \subseteq Lookup /\ S \subseteq Range(c.limbo) /\ S \subseteq DOMAIN changes
  BY LookupsOf
<1>2. IsFiniteSet(S)
  BY FS_Subset
<1>3. FoldInv(p, {}, c)
  BY OnlySame DEF FoldInv, BooksKept, Looks, LookBooks
<1>4. \A t \in S : changes[t].modified # {} \/ changes[t].removed # {} => t \in c.received
  BY DEF Brought
<1> HIDE DEF S
<1>5. ASSUME NEW r \in SUBSET S, NEW t \in S \ r, NEW y, FoldInv(p, r, y)
      PROVE  FoldInv(p, r \cup {t}, FoldStep(p, t, y))
  <2> DEFINE z == FoldStep(p, t, y)
  <2>1. /\ Typed(y) /\ Only(y, c, {"received", "broken"}) /\ t \in Lookup
        /\ y.broken = c.broken
        /\ \A u : u \notin r => (u \in y.received <=> u \in c.received)
        /\ y.received \subseteq c.received \cup r
    BY <1>1, <1>5 DEF Looks, FoldInv, BooksKept, LookBooks
  <2>2. p.of = "look" /\ p.changes = changes
    BY DEF LookBooks
  <2>3. changes[t].modified # {} \/ changes[t].removed # {} => t \in y.received
    BY <1>4, <2>1
  <2>4. Typed(z) /\ Only(z, y, {"received", "broken"})
    BY <2>1, <2>2, LookStepTyped
  <2>5. /\ z.broken = y.broken
        /\ \A u : u # t => (u \in z.received <=> u \in y.received)
        /\ z.received \subseteq y.received \cup {t}
    BY <2>1, <2>2, <2>3, LookStepBooks
  <2> HIDE DEF z
  <2>6. Looks(c, z)
    BY <2>1, <2>4 DEF Looks, Only
  <2>7. \A u : u \notin r \cup {t} => (u \in z.received <=> u \in c.received)
    BY <2>1, <2>5
  <2>8. z.received \subseteq c.received \cup (r \cup {t})
    BY <2>1, <2>5
  <2> QED
    BY <2>1, <2>5, <2>6, <2>7, <2>8 DEF FoldInv, BooksKept, LookBooks, z
<1>6. FoldInv(p, S, FoldedSet(p, c, S))
  BY <1>2, <1>3, <1>5, FoldKeeps
<1>7. /\ x.broken = c.broken
      /\ \A t : t \notin S => (t \in x.received <=> t \in c.received)
      /\ x.received \subseteq c.received \cup S
  BY <1>6 DEF FoldInv, BooksKept, LookBooks
<1>8. Looked(c, changes) = x
  BY DEF Looked, FoldSet, MapThenFoldSet, FoldedSet, FoldStep, LookBooks, S
<1> QED
  BY <1>1, <1>7, <1>8

\* The targets of an event have gathered nothing since.
Spent(c, changes) == \A t \in DOMAIN changes : DOMAIN Entry(c, t).changes = {}

\* No assertion fails about the lookups of an event, and the books stay in order.
LEMMA LookedSound ==
    ASSUME NEW c, Typed(c), Sound(c), NEW changes, IsFiniteSet(DOMAIN changes),
           Brought(c, changes), Spent(c, changes)
    PROVE  /\ Sound(Looked(c, changes)) /\ Spent(Looked(c, changes), changes)
           /\ Typed(Looked(c, changes)) /\ Only(Looked(c, changes), c, {"received", "broken"})
<1> DEFINE x == Looked(c, changes)
<1>1. Typed(x) /\ Only(x, c, {"received", "broken"})
  BY LookedTyped
<1>2. /\ x.broken = c.broken
      /\ \A t : t \notin DOMAIN changes => (t \in x.received <=> t \in c.received)
      /\ x.received \subseteq c.received \cup Range(c.limbo)
  BY LookedBooks
<1> HIDE DEF x
<1>3. /\ x.listening = c.listening /\ x.agg = c.agg /\ x.requests = c.requests
      /\ x.incoming = c.incoming /\ x.resets = c.resets /\ x.on = c.on /\ x.view = c.view
      /\ x.stream = c.stream /\ x.idle = c.idle /\ x.updates = c.updates
      /\ x.serving = c.serving /\ x.timer = c.timer /\ x.failed = c.failed
      /\ x.online = c.online /\ x.limbo = c.limbo
  BY <1>1 DEF Only, Fields
<1>4. \A t : Entry(x, t) = Entry(c, t)
  BY <1>3 DEF Entry
<1>5. \A t : t \notin DOMAIN changes => RemoteKeys(x, t) = RemoteKeys(c, t)
  BY <1>2, <1>3 DEF RemoteKeys
<1>6. Gathers(x)
  <2>1. ASSUME NEW t \in DOMAIN x.listening, Entry(x, t).outstanding = 0 PROVE Gotten(x, t)
    <3>1. CASE t \in DOMAIN changes
      BY <1>4, <3>1 DEF Spent, Gotten
    <3>2. CASE t \notin DOMAIN changes
      BY <1>3, <1>4, <1>5, <2>1, <3>2 DEF Sound, Runs, Running, Flowing, Gathers, Gotten
    <3> QED
      BY <3>1, <3>2
  <2> QED
    BY <2>1 DEF Gathers
<1>7. Counted(x) /\ Spent(x, changes)
  BY <1>3, <1>4 DEF Sound, Runs, Running, Flowing, Counted, Spent
<1>8. /\ Wired(x) /\ Ordered(x) /\ Blocked(x) /\ Resetting(x) /\ Pressing(x) /\ Clock(x)
      /\ ~x.broken
  BY <1>2, <1>3 DEF Sound, Runs, Running, Flowing, Wired, Quiet, Ordered, Blocked, Resetting,
                    Pressing, Clock
<1>9. LookedUp(x)
  <2>1. Range(c.limbo) = {c.limbo[d] : d \in DOMAIN c.limbo}
    BY DEF Range
  <2> QED
    BY <1>2, <1>3, <2>1 DEF Sound, LookedUp
<1>10. Linked(x)
  BY <1>3 DEF Sound, Linked
<1> QED
  BY <1>1, <1>6, <1>7, <1>8, <1>9, <1>10 DEF Sound, Runs, Running, Flowing, x

\* SyncEngine::ApplyRemoteEvent: an event is taken to the caches and to the view.
LEMMA ApplyRemoteEventSound ==
    ASSUME NEW c, Typed(c), Sound(c), NEW event \in EventType,
           DOMAIN event.changes \subseteq DOMAIN c.listening, NEW old, NEW late,
           event.version = 0 \/ event.version >= c.lastSnap,
           Brought(c, event.changes), Spent(c, event.changes),
           Query \in DOMAIN event.changes /\ c.on
               => event.changes[Query].modified \subseteq c.view.synced
    PROVE  LET x == ApplyRemoteEvent(c, event, old, late)
           IN  /\ Sound(x) /\ x.incoming \in {c.incoming, <<>>}
               /\ x.lastSnap = IF event.version = 0 THEN c.lastSnap ELSE event.version
<1> DEFINE looked == Looked(c, event.changes)
           saved == SaveTarget(looked, event.changes, event.resets, old, late)
           stored == UpdateCache(saved, event.updates)
           required == Require(stored, event.version >= c.lastSnap)
           dated == [required EXCEPT !.lastSnap = event.version]
           versioned == IF event.version = 0 THEN stored ELSE dated
           change == IF Query \in DOMAIN event.changes THEN event.changes[Query] ELSE NoChange(c)
<1>1. ApplyRemoteEvent(c, event, old, late) = Emit(versioned, change)
  BY DEF ApplyRemoteEvent
<1>2. /\ event.version \in Versions /\ event.changes \in Partial(Watched, ChangeType)
      /\ event.updates \in Partial(Docs, CachedDoc)
  BY DEF EventType
<1>3. /\ Sound(looked) /\ Spent(looked, event.changes) /\ Typed(looked)
      /\ Only(looked, c, {"received", "broken"})
  BY <1>2, PartialIs, LookedSound
<1> HIDE DEF looked
<1>4. looked.listening = c.listening /\ looked.on = c.on /\ looked.view = c.view
  BY <1>3 DEF Only, Fields
<1>5. Typed(saved) /\ Only(saved, looked, {"keys", "limboFree", "token", "savedFree"})
  BY <1>2, <1>3, <1>4, SaveTargetTyped
<1> HIDE DEF saved
<1>6. Typed(stored) /\ Only(stored, saved, {"cache", "leftOut"})
  BY <1>2, <1>5, UpdateCacheTyped
<1> HIDE DEF stored
<1>7. Typed(required) /\ Only(required, stored, {"broken"})
  BY <1>6, RequireTyped
<1>8. required.broken = (stored.broken \/ ~(event.version >= c.lastSnap))
  BY <1>6 DEF Require, Typed, Shape, Fields
<1> HIDE DEF required
<1>9. Only(dated, required, {"lastSnap"}) /\ dated["lastSnap"] = event.version
  BY <1>7 DEF Only, Typed, Shape, Fields
<1> HIDE DEF dated
<1>10. Typed(dated)
  BY <1>2, <1>7, <1>9, TypedOnly, ClientIs DEF Fields
<1>11. stored.broken = looked.broken /\ stored.broken \in BOOLEAN
  BY <1>5, <1>6, FieldTypes DEF Only, Fields
<1>12. event.version # 0 => dated.broken = looked.broken
  <2>1. dated.broken = required.broken
    BY <1>9 DEF Only, Fields
  <2>2. event.version # 0 => required.broken = stored.broken
    BY <1>8, <1>11
  <2> QED
    BY <1>11, <2>1, <2>2
<1>13. SameState(stored, looked)
  BY <1>5, <1>6, <1>11 DEF SameState, SameBooks, Only, Fields
<1>14. event.version # 0 => SameState(dated, looked)
  BY <1>5, <1>6, <1>7, <1>9, <1>12 DEF SameState, SameBooks, Only, Fields
<1>15. Typed(versioned) /\ SameState(versioned, looked)
  BY <1>6, <1>10, <1>13, <1>14
<1>16. change \in ChangeType
  BY <1>2, PartialIs, NoChangeTyped
<1>17. versioned.on = c.on /\ versioned.view.synced = c.view.synced
  BY <1>4, <1>15 DEF SameState, SameBooks
<1> HIDE DEF versioned
<1>18. Sound(versioned)
  BY <1>3, <1>15, SameStateSound
<1>19. versioned.on => change.modified \subseteq versioned.view.synced \cup change.added
  <2>1. CASE Query \in DOMAIN event.changes
    BY <1>17, <2>1
  <2>2. CASE Query \notin DOMAIN event.changes
    BY <2>2 DEF NoChange
  <2> QED
    BY <2>1, <2>2
<1>20. change.added \cup change.removed = {} \/ Idle(versioned)
  <2>1. CASE Query \in DOMAIN event.changes
    <3>1. Entry(versioned, Query) = Entry(looked, Query)
      BY <1>15 DEF SameState, SameBooks, Entry
    <3> QED
      BY <1>3, <2>1, <3>1 DEF Idle, Spent
  <2>2. CASE Query \notin DOMAIN event.changes
    BY <2>2 DEF NoChange
  <2> QED
    BY <2>1, <2>2
<1> HIDE DEF change
<1>21. Sound(Emit(versioned, change)) /\ Unread(Emit(versioned, change), versioned)
  BY <1>15, <1>16, <1>18, <1>19, <1>20, EmitSound
<1>22. versioned.incoming = c.incoming
  BY <1>3, <1>15 DEF SameState, SameBooks, Only, Fields
<1>23. stored.lastSnap = c.lastSnap /\ dated.lastSnap = event.version
  BY <1>3, <1>5, <1>6, <1>9 DEF Only, Fields
<1>24. versioned.lastSnap = IF event.version = 0 THEN c.lastSnap ELSE event.version
  BY <1>23 DEF versioned
<1> QED
  BY <1>1, <1>21, <1>22, <1>24 DEF Unread

-----------------------------------------------------------------------------
(* What starts over. *)

\* What a request to watch a target changes.
LEMMA SendAdds ==
    ASSUME NEW c, Typed(c), NEW t \in Watched, NEW token \in Versions
    PROVE  /\ Only(Send(c, t, TRUE, token), c, {"agg", "requests", "idle"})
           /\ Send(c, t, TRUE, token).agg
                = With(c.agg, t, [Entry(c, t) EXCEPT !.outstanding = @ + 1])
           /\ Send(c, t, TRUE, token).requests
                = Append(c.requests, [target |-> t, add |-> TRUE, token |-> token])
<1>1. TRUE \in BOOLEAN
  OBVIOUS
<1> QED
  BY <1>1, SendTyped

\* A target that starts over is left and watched again, ...
LEMMA RewatchRuns ==
    ASSUME NEW c, Typed(c), Runs(c), c.stream = "Open", c.resets = {},
           NEW t \in DOMAIN c.listening, Due(c.incoming, c.requests, t) = 0
    PROVE  LET x == Rewatch(t, c)
           IN  /\ Runs(x)
               /\ \A u : u # t => Due(x.incoming, x.requests, u) = Due(c.incoming, c.requests, u)
               /\ \A u : Entry(x, u).changes = Entry(c, u).changes
<1> DEFINE listening == [c.listening EXCEPT ![t] = 0]
           y == [c EXCEPT !.listening = listening]
           z == Send(y, t, FALSE, 0)
           x == Send(z, t, TRUE, 0)
           r == [target |-> t, add |-> FALSE, token |-> 0]
           q == [target |-> t, add |-> TRUE, token |-> 0]
           one == Append(c.requests, r)
           two == Append(one, q)
           first == [Entry(c, t) EXCEPT !.outstanding = @ + 1]
           entry == [first EXCEPT !.outstanding = @ + 1]
<1>1. Rewatch(t, c) = x
  BY DEF Rewatch
<1>30. Rewatches(c, Rewatch(t, c))
  BY RewatchTyped
<1> HIDE DEF listening, y, z, x, r, q, one, two, first, entry
<1>2. /\ Rewatches(c, x) /\ t \in Watched /\ 0 \in Versions
  <2>1. c.listening \in Partial(Watched, Versions)
    BY FieldTypes
  <2> QED
    BY <1>1, <1>30, <2>1, PartialIs, ZeroVersion
<1>3. Typed(y) /\ Only(y, c, {"listening"})
  <2>1. c.listening \in Partial(Watched, Versions)
    BY FieldTypes
  <2>2. /\ DOMAIN c.listening \in SUBSET Watched /\ IsFiniteSet(DOMAIN c.listening)
        /\ \A u \in DOMAIN c.listening : c.listening[u] \in Versions
    BY <2>1, PartialIs
  <2>3. listening \in [DOMAIN c.listening -> Versions]
    BY <1>2, <2>2 DEF listening
  <2>4. listening \in Partial(Watched, Versions)
    BY <2>2, <2>3, PartialOf
  <2>5. Only(y, c, {"listening"}) /\ y["listening"] = listening
    BY DEF y, Only, Typed, Shape, Fields
  <2>6. Typed(y)
    BY <2>4, <2>5, TypedOnly, ClientIs DEF Fields
  <2> QED
    BY <2>5, <2>6
<1>4. /\ Typed(z) /\ Only(z, y, {"agg", "requests", "idle"})
      /\ z.agg = With(y.agg, t, [Entry(y, t) EXCEPT !.outstanding = @ + 1])
      /\ z.requests = Append(y.requests, r)
  BY <1>2, <1>3, SendTyped, Zenon DEF z, r
<1>5. y.agg = c.agg /\ y.requests = c.requests /\ Entry(y, t) = Entry(c, t)
  BY <1>3 DEF Only, Fields, Entry
<1>6. z.agg = With(c.agg, t, first) /\ z.requests = one
  BY <1>4, <1>5 DEF first, one
<1>7. /\ Only(x, z, {"agg", "requests", "idle"})
      /\ x.agg = With(z.agg, t, [Entry(z, t) EXCEPT !.outstanding = @ + 1])
      /\ x.requests = Append(z.requests, q)
  <2>1. TRUE \in BOOLEAN /\ 0 \in Versions /\ Typed(z) /\ t \in Watched
    BY <1>2, <1>4
  <2> QED
    BY <2>1, SendAdds, Zenon DEF x, q
<1>31. ~x.idle
  BY <1>2, <1>4, SendTyped, Zenon DEF x
<1>8. Entry(z, t) = first
  BY <1>6 DEF Entry, With, Over
<1>9. x.agg = With(With(c.agg, t, first), t, entry) /\ x.requests = two
  BY <1>6, <1>7, <1>8 DEF entry, two
<1>10. Entry(c, t) \in EntryType
  BY <1>2, EntryTyped
<1>11. /\ Entry(c, t).outstanding \in Int
       /\ entry.outstanding = Entry(c, t).outstanding + 2
       /\ entry.changes = Entry(c, t).changes
  <2>1. /\ first \in EntryType /\ first.outstanding = Entry(c, t).outstanding + 1
        /\ first.changes = Entry(c, t).changes
    BY <1>10 DEF EntryType, first
  <2>2. Entry(c, t).outstanding \in Int
    BY <1>10 DEF EntryType
  <2>3. entry.outstanding = first.outstanding + 1 /\ entry.changes = first.changes
    BY <2>1 DEF EntryType, entry
  <2> QED
    BY <2>1, <2>2, <2>3
<1>12. /\ DOMAIN x.agg = DOMAIN c.agg \cup {t} /\ Entry(x, t) = entry
       /\ \A u : u # t => Entry(x, u) = Entry(c, u)
  BY <1>9 DEF Entry, With, Over
<1>13. /\ DOMAIN x.listening = DOMAIN c.listening /\ x.incoming = c.incoming
       /\ x.resets = {} /\ x.received = c.received /\ x.on = c.on /\ x.view = c.view
       /\ x.stream = "Open" /\ x.timer = c.timer /\ x.failed = c.failed
       /\ x.online = c.online /\ x.broken = c.broken
  BY <1>2 DEF Rewatches, Only, Fields
<1>14. /\ c.incoming \in Seq(Message) /\ c.requests \in Seq(RequestType)
       /\ r \in RequestType /\ q \in RequestType
  BY <1>2, FieldTypes DEF RequestType, r, q
<1>15. one \in Seq(RequestType)
  BY <1>14 DEF one
<1>16. \A u : /\ Due(c.incoming, one, u)
                  = Due(c.incoming, c.requests, u) + (IF u = t THEN 1 ELSE 0)
              /\ u # t /\ InOrder(c.incoming, c.requests, u) => InOrder(c.incoming, one, u)
  BY <1>14, OneMoreRequest DEF one, r
<1>17. \A u : /\ Due(c.incoming, two, u) = Due(c.incoming, one, u) + (IF u = t THEN 1 ELSE 0)
              /\ u # t /\ InOrder(c.incoming, one, u) => InOrder(c.incoming, two, u)
  <2>1. q.target = t
    BY DEF q
  <2> TAKE u
  <2> QED
    BY <1>14, <1>15, <2>1, OneMoreRequest DEF two
<1>18. InOrder(c.incoming, two, t)
  <2>1. ~r.add /\ q.add /\ r.target = t /\ q.target = t
    BY DEF r, q
  <2> QED
    BY <1>14, <2>1, TwoMoreRequests DEF one, two
<1>19. \A u : Due(c.incoming, c.requests, u) \in Nat
  BY <1>14, DueIs
<1>20. \A u : u # t => Due(x.incoming, x.requests, u) = Due(c.incoming, c.requests, u)
  BY <1>9, <1>13, <1>16, <1>17, <1>19
<1>21. Due(x.incoming, x.requests, t) = 2
  <2>1. Due(c.incoming, one, t) = 0 + 1
    BY <1>16
  <2>2. Due(c.incoming, two, t) = (0 + 1) + 1
    BY <1>17, <2>1
  <2> QED
    BY <1>9, <1>13, <2>2
<1>22. Entry(c, t).outstanding >= 0
  BY <1>2 DEF Runs, Running, Flowing, Counted
<1>23. Counted(x)
  <2>1. ASSUME NEW u \in Watched PROVE Entry(x, u).outstanding >= Due(x.incoming, x.requests, u)
    <3>1. CASE u = t
      BY <1>11, <1>12, <1>21, <1>22, <3>1
    <3>2. CASE u # t
      BY <1>12, <1>20, <3>2 DEF Runs, Running, Flowing, Counted
    <3> QED
      BY <3>1, <3>2
  <2> QED
    BY <2>1 DEF Counted
<1>24. Ordered(x)
  <2>1. ASSUME NEW u \in DOMAIN x.listening PROVE InOrder(x.incoming, x.requests, u)
    <3>1. CASE u = t
      BY <1>9, <1>13, <1>18, <3>1
    <3>2. CASE u # t
      BY <1>9, <1>13, <1>16, <1>17, <2>1, <3>2 DEF Runs, Running, Flowing, Ordered
    <3> QED
      BY <3>1, <3>2
  <2> QED
    BY <2>1 DEF Ordered
<1>25. Gathers(x)
  <2>1. ASSUME NEW u \in DOMAIN x.listening, Entry(x, u).outstanding = 0 PROVE Gotten(x, u)
    <3>1. u # t
      BY <1>11, <1>12, <1>22, <2>1
    <3>2. Entry(x, u) = Entry(c, u) /\ Gotten(c, u) /\ RemoteKeys(x, u) = RemoteKeys(c, u)
      BY <1>12, <1>13, <2>1, <3>1 DEF Runs, Running, Flowing, Gathers, RemoteKeys
    <3> QED
      BY <3>2 DEF Gotten
  <2> QED
    BY <2>1 DEF Gathers
<1>26. Wired(x)
  BY <1>31, <1>12, <1>13 DEF Runs, Running, Flowing, Wired
<1>27. Blocked(x) /\ Resetting(x) /\ Pressing(x) /\ Clock(x) /\ ~x.broken
  BY <1>13 DEF Runs, Running, Flowing, Blocked, Resetting, Pressing, Clock
<1>28. Runs(x)
  BY <1>23, <1>24, <1>25, <1>26, <1>27 DEF Runs, Running, Flowing
<1>29. \A u : Entry(x, u).changes = Entry(c, u).changes
  BY <1>11, <1>12
<1> QED
  BY <1>1, <1>20, <1>28, <1>29

\* ... and so are all that start over.
LEMMA RewatchAllRuns ==
    ASSUME NEW c, Typed(c), Runs(c), c.stream = "Open", c.resets = {},
           NEW S \in SUBSET DOMAIN c.listening, \A t \in S : Due(c.incoming, c.requests, t) = 0
    PROVE  LET x == FoldSet(Rewatch, c, S)
           IN  Runs(x) /\ \A u : Entry(x, u).changes = Entry(c, u).changes
<1> DEFINE p == [goal |-> "books", of |-> "rewatch", from |-> c]
<1>1. c.listening \in Partial(Watched, Versions)
  BY FieldTypes
<1>2. IsFiniteSet(S) /\ S \subseteq Watched
  BY <1>1, PartialIs, FS_Subset
<1>3. FoldInv(p, {}, c)
  BY OnlySame DEF Rewatches, FoldInv, BooksKept
<1>4. ASSUME NEW r \in SUBSET S, NEW t \in S \ r, NEW y, FoldInv(p, r, y)
      PROVE  FoldInv(p, r \cup {t}, FoldStep(p, t, y))
  <2> DEFINE x == Rewatch(t, y)
  <2>1. /\ Rewatches(c, y) /\ Typed(y) /\ t \in DOMAIN y.listening /\ Runs(y)
        /\ \A u \in Watched \ r : Due(y.incoming, y.requests, u) = Due(c.incoming, c.requests, u)
        /\ \A u : Entry(y, u).changes = Entry(c, u).changes
    BY <1>4 DEF Rewatches, FoldInv, BooksKept
  <2>2. y.stream = "Open" /\ y.resets = {}
    BY <2>1 DEF Rewatches, Only, Fields
  <2>3. Due(y.incoming, y.requests, t) = 0
    BY <1>2, <2>1
  <2>4. Rewatches(y, x)
    BY <2>1, RewatchTyped
  <2>5. /\ Runs(x)
        /\ \A u : u # t => Due(x.incoming, x.requests, u) = Due(y.incoming, y.requests, u)
        /\ \A u : Entry(x, u).changes = Entry(y, u).changes
    BY <2>1, <2>2, <2>3, RewatchRuns
  <2> HIDE DEF x
  <2>6. Rewatches(c, x)
    BY <2>1, <2>4 DEF Rewatches, Only
  <2>7. \A u \in Watched \ (r \cup {t}) : Due(x.incoming, x.requests, u)
                                            = Due(c.incoming, c.requests, u)
    BY <2>1, <2>5
  <2>8. \A u : Entry(x, u).changes = Entry(c, u).changes
    BY <2>1, <2>5
  <2> QED
    BY <2>5, <2>6, <2>7, <2>8 DEF FoldInv, BooksKept, FoldStep, x
<1>5. FoldInv(p, S, FoldedSet(p, c, S))
  BY <1>2, <1>3, <1>4, FoldKeeps
<1>6. FoldSet(Rewatch, c, S) = FoldedSet(p, c, S)
  BY DEF FoldSet, MapThenFoldSet, FoldedSet, FoldStep
<1> QED
  BY <1>5, <1>6 DEF FoldInv, BooksKept

-----------------------------------------------------------------------------
(* Snapshots and errors. *)

\* What the client has gathered is taken from the aggregator.
LEMMA TakenSound ==
    ASSUME NEW s, Typed(s), Running(s), LookedUp(s), Linked(s), s.stream = "Open",
           NEW version \in Versions
    PROVE  LET x == Taken(s, version)
           IN  /\ Sound(x) /\ Spent(x, EventOf(s, version).changes) /\ x.resets = {}
               /\ DOMAIN x.listening = DOMAIN s.listening
<1> DEFINE x == Taken(s, version)
           changes == EventOf(s, version).changes
<1>1. /\ Typed(x) /\ Only(x, s, {"updates", "resets", "agg", "listening"})
      /\ x.resets = {}
  BY TakenTyped
<1>2. x.agg = [t \in DOMAIN s.agg |->
                  IF t \in Active(s) THEN [s.agg[t] EXCEPT !.changes = <<>>] ELSE s.agg[t]]
  BY TakenTyped, Zenon
<1>3. DOMAIN x.listening = DOMAIN s.listening
  <2>1. x.listening = [t \in DOMAIN s.listening |->
                          IF t \in Active(s) THEN version ELSE s.listening[t]]
    BY TakenTyped, Zenon
  <2> HIDE DEF x
  <2> QED
    BY <2>1
<1>4. DOMAIN changes = Active(s)
  BY EventOfTyped
<1> HIDE DEF x, changes
<1>5. /\ x.requests = s.requests /\ x.incoming = s.incoming /\ x.received = s.received
      /\ x.on = s.on /\ x.view = s.view /\ x.stream = s.stream /\ x.idle = s.idle
      /\ x.timer = s.timer /\ x.failed = s.failed /\ x.online = s.online /\ x.limbo = s.limbo
      /\ x.broken = s.broken
  BY <1>1 DEF Only, Fields
<1>6. s.agg \in Partial(Watched, EntryType)
  BY FieldTypes DEF Aggregator
<1>7. \A t \in DOMAIN s.agg : s.agg[t] \in EntryType
  BY <1>6, PartialIs
<1>8. DOMAIN x.agg = DOMAIN s.agg
  BY <1>2
<1>9. \A t : Entry(x, t).outstanding = Entry(s, t).outstanding
  <2> TAKE t
  <2>1. CASE t \in DOMAIN s.agg
    <3>1. s.agg[t] \in EntryType
      BY <1>7, <2>1
    <3>2. x.agg[t] \in {[s.agg[t] EXCEPT !.changes = <<>>], s.agg[t]}
      BY <1>2, <2>1
    <3>3. x.agg[t].outstanding = s.agg[t].outstanding
      BY <3>1, <3>2 DEF EntryType
    <3> QED
      BY <1>8, <2>1, <3>3 DEF Entry
  <2>2. CASE t \notin DOMAIN s.agg
    BY <1>8, <2>2 DEF Entry
  <2> QED
    BY <2>1, <2>2
<1>10. \A t \in Active(s) : DOMAIN Entry(x, t).changes = {}
  <2> TAKE t \in Active(s)
  <2>1. t \in DOMAIN s.agg /\ s.agg[t] \in EntryType
    BY <1>7 DEF Active
  <2>2. x.agg[t] = [s.agg[t] EXCEPT !.changes = <<>>]
    BY <1>2, <2>1
  <2>3. x.agg[t].changes = <<>>
    BY <2>1, <2>2 DEF EntryType
  <2> QED
    BY <1>8, <2>1, <2>3, PartialNone DEF Entry
<1>11. Gathers(x)
  <2>1. ASSUME NEW t \in DOMAIN x.listening, Entry(x, t).outstanding = 0 PROVE Gotten(x, t)
    <3>1. t \in Active(s)
      BY <1>3, <1>9, <2>1 DEF Running, Flowing, Wired, Active, IsActiveTarget
    <3> QED
      BY <1>10, <3>1 DEF Gotten
  <2> QED
    BY <2>1 DEF Gathers
<1>12. Counted(x)
  BY <1>5, <1>9 DEF Running, Flowing, Counted
<1>13. Wired(x) /\ Ordered(x) /\ Blocked(x) /\ Clock(x) /\ ~x.broken
  BY <1>3, <1>5, <1>8 DEF Running, Flowing, Wired, Ordered, Blocked, Clock
<1>14. Resetting(x) /\ Pressing(x)
  BY <1>1 DEF Resetting, Pressing
<1>15. LookedUp(x) /\ Linked(x)
  BY <1>3, <1>5 DEF LookedUp, Linked
<1>16. Spent(x, changes)
  BY <1>4, <1>10 DEF Spent
<1>17. Sound(x)
  BY <1>11, <1>12, <1>13, <1>14, <1>15 DEF Sound, Runs, Running, Flowing
<1> QED
  BY <1>1, <1>3, <1>16, <1>17 DEF x, changes

\* What an active target gathered as modified or removed, it has.
LEMMA EventBrought ==
    ASSUME NEW s, Typed(s), Gathers(s), NEW version \in Versions, NEW t \in Active(s)
    PROVE  LET change == EventOf(s, version).changes[t]
           IN  change.modified \cup change.removed \subseteq RemoteKeys(s, t)
<1> DEFINE change == EventOf(s, version).changes[t]
<1>1. t \in DOMAIN s.agg /\ IsActiveTarget(s, t)
  BY DEF Active
<1>2. /\ change.modified = OfType(s.agg[t], "Modified")
      /\ change.removed = OfType(s.agg[t], "Removed")
  BY DEF EventOf, TargetChange
<1>3. Gotten(s, t) /\ Entry(s, t) = s.agg[t]
  BY <1>1 DEF Gathers, IsActiveTarget, Entry
<1> HIDE DEF change
<1>4. ASSUME NEW d \in change.modified \cup change.removed PROVE d \in RemoteKeys(s, t)
  <2>1. d \in DOMAIN s.agg[t].changes /\ s.agg[t].changes[d] # "Added"
    BY <1>2, <1>4 DEF OfType
  <2> QED
    BY <1>3, <2>1 DEF Gotten
<1> QED
  BY <1>4 DEF change

\* A snapshot of the server takes what was gathered to the local store and the view, and
\* starts over what has to.
LEMMA RaiseWatchSnapshotSound ==
    ASSUME NEW c, Typed(c), Running(c), LookedUp(c), Linked(c), c.stream = "Open",
           NEW version \in Versions, version >= c.lastSnap, NEW late
    PROVE  LET x == RaiseWatchSnapshot(c, version, late)
           IN  Sound(x) /\ x.incoming \in {c.incoming, <<>>} /\ x.lastSnap = version
<1> DEFINE s == Synthesized(c, version)
           old == IF Query \in DOMAIN c.listening THEN c.listening[Query] ELSE 0
           taken == Taken(s, version)
           R == s.resets \cap DOMAIN s.listening
           again == FoldSet(Rewatch, taken, R)
           event == EventOf(s, version)
<1>1. RaiseWatchSnapshot(c, version, late) = ApplyRemoteEvent(again, event, old, late)
  BY RaiseWatchSnapshotIs
<1>2. Gathers(c) /\ DOMAIN c.listening \subseteq DOMAIN c.agg
  BY DEF Running, Flowing, Wired
<1>3. Gathered(c, s) /\ SameNews(s, c)
  BY <1>2, SynthesizedTyped, SynthesizedNews
<1> HIDE DEF s, old
<1>4. Typed(s) /\ Running(s) /\ s.stream = "Open"
  BY <1>3, NewsKeep DEF Gathered
<1>5. /\ s.limbo = c.limbo /\ s.listening = c.listening /\ s.received = c.received
      /\ s.on = c.on /\ s.lastSnap = c.lastSnap
  BY <1>3 DEF Gathered, Only, Fields
<1>6. LookedUp(s) /\ Linked(s)
  BY <1>5 DEF LookedUp, Linked
<1>7. /\ event \in EventType /\ DOMAIN event.changes = Active(s)
      /\ Active(s) \subseteq DOMAIN s.listening
  BY <1>4, EventOfTyped
<1>8. event.version = version
  BY DEF EventOf
<1>9. /\ Sound(taken) /\ Spent(taken, event.changes) /\ taken.resets = {}
      /\ DOMAIN taken.listening = DOMAIN s.listening
  BY <1>4, <1>6, TakenSound
<1>10. Typed(taken) /\ Only(taken, s, {"updates", "resets", "agg", "listening"})
  BY <1>4, TakenTyped
<1>11. \A t \in Active(s) : event.changes[t].modified \cup event.changes[t].removed
                               \subseteq RemoteKeys(s, t)
  BY <1>4, EventBrought DEF Running, Flowing
<1> HIDE DEF event, taken
<1>12. /\ taken.stream = "Open" /\ taken.incoming = s.incoming /\ taken.requests = s.requests
       /\ taken.lastSnap = s.lastSnap /\ taken.limbo = s.limbo /\ taken.on = s.on
       /\ taken.received = s.received /\ taken.view = s.view
  BY <1>4, <1>10 DEF Only, Fields
<1>13. R \in SUBSET DOMAIN taken.listening
  BY <1>9
<1>14. \A t \in R : Due(taken.incoming, taken.requests, t) = 0
  BY <1>4, <1>12 DEF Running, Flowing, Resetting
<1> HIDE DEF R
<1>15. Runs(again) /\ \A t : Entry(again, t).changes = Entry(taken, t).changes
  BY <1>9, <1>10, <1>12, <1>13, <1>14, RewatchAllRuns DEF Sound
<1>16. Rewatches(taken, again)
  BY <1>10, <1>13, RewatchAll
<1> HIDE DEF again
<1>17. /\ Typed(again) /\ DOMAIN again.listening = DOMAIN taken.listening
       /\ again.limbo = taken.limbo /\ again.received = taken.received /\ again.on = taken.on
       /\ again.view = taken.view /\ again.lastSnap = taken.lastSnap
  BY <1>16 DEF Rewatches, Only, Fields
<1>18. Sound(again)
  BY <1>9, <1>15, <1>17 DEF Sound, LookedUp, Linked
<1>19. Spent(again, event.changes)
  BY <1>9, <1>15 DEF Spent
<1>20. Range(s.limbo) \subseteq Lookup /\ s.received \subseteq Lookup
  BY <1>4, LookupsOf, FieldTypes
<1>21. Brought(again, event.changes)
  <2>1. ASSUME NEW t \in Active(s), t \in Range(s.limbo),
               event.changes[t].modified # {} \/ event.changes[t].removed # {}
        PROVE  t \in s.received
    <3>1. RemoteKeys(s, t) # {}
      BY <1>11, <2>1
    <3>2. t # Query
      BY <1>20, <2>1, LookupIs
    <3> QED
      BY <3>1, <3>2 DEF RemoteKeys
  <2> QED
    BY <1>7, <1>12, <1>17, <2>1 DEF Brought
<1>22. Query \in DOMAIN event.changes /\ again.on
         => event.changes[Query].modified \subseteq again.view.synced
  <2>1. ASSUME Query \in Active(s), s.on
        PROVE  event.changes[Query].modified \subseteq s.view.synced
    <3>1. Query \notin s.received
      BY <1>20, LookupIs
    <3>2. RemoteKeys(s, Query) = s.view.synced
      BY <2>1, <3>1 DEF RemoteKeys
    <3> QED
      BY <1>11, <2>1, <3>2
  <2> QED
    BY <1>7, <1>12, <1>17, <2>1
<1>23. DOMAIN event.changes \subseteq DOMAIN again.listening
  BY <1>7, <1>9, <1>17
<1>24. event.version >= again.lastSnap
  BY <1>5, <1>8, <1>12, <1>17
<1> DEFINE x == ApplyRemoteEvent(again, event, old, late)
<1>25. /\ Sound(x) /\ x.incoming \in {again.incoming, <<>>}
       /\ x.lastSnap = IF event.version = 0 THEN again.lastSnap ELSE event.version
  BY <1>7, <1>17, <1>18, <1>19, <1>21, <1>22, <1>23, <1>24, ApplyRemoteEventSound
<1> HIDE DEF x
<1>26. again.incoming = c.incoming
  BY <1>3, <1>12, <1>16 DEF Gathered, Rewatches, Only, Fields
<1>27. c.lastSnap \in Nat /\ version \in Nat
  BY FieldTypes, ZeroVersion
<1>28. x.lastSnap = version
  BY <1>5, <1>8, <1>12, <1>17, <1>24, <1>25, <1>27
<1> QED
  BY <1>1, <1>25, <1>26, <1>28 DEF x

\* Nobody listens any more, and the lookups go.
LEMMA ForgetSound ==
    ASSUME NEW c, Typed(c), Runs(c), LookedUp(c), Query \notin DOMAIN c.listening
    PROVE  Sound(Forget(c)) /\ Unread(Forget(c), c)
<1> DEFINE y == Unviewed(c)
<1>1. /\ Only(y, c, Viewed) /\ y["on"] = FALSE /\ y["raised"] = FALSE
      /\ y["view"] = NewView({}) /\ y["leftOut"] = {} /\ y["limboFree"] = 0
  BY UnviewedIs
<1>2. Forget(c) = FoldSet(RemoveLimboTarget, y, c.view.limbo)
  BY DEF Forget, Unviewed
<1> HIDE DEF y
<1>3. NewView({}) \in ViewType
  BY DEF NewView, ViewType, NotShown, ViewDoc, Values
<1>4. Typed(y)
  <2>1. \A f \in Viewed : y[f] \in Client_[f]
    BY <1>1, <1>3, ClientIs, ZeroVersion DEF Viewed
  <2> QED
    BY <1>1, <2>1, TypedOnly DEF Fields, Viewed
<1>5. c.view.limbo \in SUBSET Docs
  BY FieldTypes DEF ViewType
<1>6. /\ y.listening = c.listening /\ y.requests = c.requests /\ y.incoming = c.incoming
      /\ y.agg = c.agg /\ y.resets = c.resets /\ y.received = c.received
      /\ y.stream = c.stream /\ y.idle = c.idle /\ y.serving = c.serving
      /\ y.timer = c.timer /\ y.failed = c.failed /\ y.online = c.online /\ y.limbo = c.limbo
      /\ y.broken = c.broken /\ y.updates = c.updates
  BY <1>1 DEF Only, Fields, Viewed
<1>7. \A t \in DOMAIN c.listening : /\ Entry(y, t) = Entry(c, t)
                                    /\ RemoteKeys(y, t) = RemoteKeys(c, t)
  BY <1>6 DEF Entry, RemoteKeys
<1>8. Gathers(y)
  BY <1>6, <1>7 DEF Runs, Running, Flowing, Gathers, Gotten
<1>9. Counted(y)
  BY <1>6 DEF Runs, Running, Flowing, Counted, Entry
<1>10. /\ Wired(y) /\ Ordered(y) /\ Blocked(y) /\ Resetting(y) /\ Pressing(y) /\ Clock(y)
       /\ ~y.broken
  BY <1>6 DEF Runs, Running, Flowing, Wired, Quiet, Ordered, Blocked, Resetting, Pressing, Clock
<1>11. LookedUp(y)
  BY <1>6 DEF LookedUp
<1>12. Linked(y)
  BY <1>1, <1>6 DEF Linked
<1>13. Sound(y)
  BY <1>8, <1>9, <1>10, <1>11, <1>12 DEF Sound, Runs, Running, Flowing
<1>14. Unread(y, c)
  BY <1>1 DEF Unread, Only, Fields, Viewed
<1> QED
  BY <1>2, <1>4, <1>5, <1>13, <1>14, RemoveAllSound, UnreadTrans

\* A target is dropped about which nothing is due.
LEMMA DroppedRuns ==
    ASSUME NEW c, Typed(c), Runs(c), c.stream = "Open", c.resets = {}, NEW t,
           Due(c.incoming, c.requests, t) = 0,
           NEW x, Only(x, c, {"listening", "agg", "limbo", "received", "token", "savedFree"}),
           x.listening = Without(c.listening, t), x.agg = Without(c.agg, t),
           \A u : u # t => (u \in x.received <=> u \in c.received)
    PROVE  Runs(x)
<1>1. /\ x.requests = c.requests /\ x.incoming = c.incoming /\ x.resets = c.resets
      /\ x.stream = c.stream /\ x.idle = c.idle /\ x.serving = c.serving
      /\ x.timer = c.timer /\ x.failed = c.failed /\ x.online = c.online
      /\ x.broken = c.broken /\ x.updates = c.updates /\ x.on = c.on /\ x.view = c.view
  BY DEF Only, Fields
<1>2. /\ DOMAIN x.listening = DOMAIN c.listening \ {t}
      /\ DOMAIN x.agg = DOMAIN c.agg \ {t}
      /\ \A u \in DOMAIN c.agg : u # t => x.agg[u] = c.agg[u]
  BY DEF Without, Restrict
<1>3. \A u : u # t => Entry(x, u) = Entry(c, u) /\ RemoteKeys(x, u) = RemoteKeys(c, u)
  BY <1>1, <1>2 DEF Entry, RemoteKeys
<1>4. Entry(x, t).outstanding = 0
  BY <1>2 DEF Entry, NewEntry
<1>5. Counted(x)
  <2>1. ASSUME NEW u \in Watched PROVE Entry(x, u).outstanding >= Due(x.incoming, x.requests, u)
    <3>1. CASE u = t
      BY <1>1, <1>4, <3>1
    <3>2. CASE u # t
      BY <1>1, <1>3, <3>2 DEF Runs, Running, Flowing, Counted
    <3> QED
      BY <3>1, <3>2
  <2> QED
    BY <2>1 DEF Counted
<1>6. Gathers(x)
  BY <1>2, <1>3 DEF Runs, Running, Flowing, Gathers, Gotten
<1>7. Wired(x) /\ Ordered(x) /\ Blocked(x) /\ Clock(x) /\ ~x.broken
  BY <1>1, <1>2 DEF Runs, Running, Flowing, Wired, Ordered, Blocked, Clock
<1>8. Resetting(x) /\ Pressing(x)
  BY <1>1 DEF Resetting, Pressing
<1> QED
  BY <1>5, <1>6, <1>7, <1>8 DEF Runs, Running, Flowing

\* The server refuses a target: a lookup finds nothing, and the query is forgotten.
LEMMA ProcessTargetErrorSound ==
    ASSUME NEW c, Typed(c), Sound(c), c.stream = "Open", c.resets = {}, NEW t \in Watched,
           t \in DOMAIN c.listening => Due(c.incoming, c.requests, t) = 0
    PROVE  Sound(ProcessTargetError(c, t)) /\ Unread(ProcessTargetError(c, t), c)
<1> DEFINE left == [c EXCEPT !.listening = Without(@, t), !.agg = Without(@, t)]
           quit == [left EXCEPT !.limbo = Without(@, TheDoc(t)), !.received = @ \ {t}]
           event == [version |-> 0, changes |-> <<>>, resets |-> {},
                     updates |-> [d \in {TheDoc(t)} |-> Unknown]]
           kept == [left EXCEPT !.token = c.listening[t], !.savedFree = c.limboFree]
           x == ProcessTargetError(c, t)
<1>1. CASE t \notin DOMAIN c.listening
  BY <1>1 DEF ProcessTargetError, Unread
<1>2. CASE t \in DOMAIN c.listening
  <2>1. x = IF t \in Range(c.limbo) THEN ApplyRemoteEvent(quit, event, 0, FALSE) ELSE Forget(kept)
    <3>1. CASE t \in Range(c.limbo)
      <4>1. x = ApplyRemoteEvent(quit, event, 0, FALSE)
        BY <1>2, <3>1, Zenon DEF ProcessTargetError
      <4> HIDE DEF x, quit, event
      <4> QED
        BY <3>1, <4>1
    <3>2. CASE t \notin Range(c.limbo)
      BY <1>2, <3>2 DEF ProcessTargetError
    <3> QED
      BY <3>1, <3>2
  <2>2. /\ Only(left, c, {"listening", "agg"})
        /\ left["listening"] = Without(c.listening, t) /\ left["agg"] = Without(c.agg, t)
    BY DEF Only, Typed, Shape, Fields
  <2> HIDE DEF left, x
  <2>3. /\ c.listening \in Partial(Watched, Versions) /\ c.agg \in Partial(Watched, EntryType)
        /\ \A u \in DOMAIN c.agg : DOMAIN c.agg[u].changes \subseteq u.docs
    BY FieldTypes DEF Aggregator
  <2>4. /\ Without(c.listening, t) \in Partial(Watched, Versions)
        /\ Without(c.agg, t) \in Partial(Watched, EntryType)
    BY <2>3, WithoutPartial
  <2>5. Without(c.agg, t) \in Aggregator
    BY <2>3, <2>4 DEF Aggregator, Without, Restrict
  <2>6. Typed(left)
    BY <2>2, <2>4, <2>5, TypedOnly, ClientIs DEF Fields
  <2>7. Range(c.limbo) = {c.limbo[d] : d \in DOMAIN c.limbo}
    BY DEF Range
  <2>8. DOMAIN left.listening = DOMAIN c.listening \ {t}
    BY <2>2, WithoutIs, Zenon
  <2>9. CASE t \in Range(c.limbo)
    <3>1. t \in Lookup
      BY <2>9, LookupsOf
    <3>2. t # Query /\ TheDoc(t) \in Docs /\ t.docs = {TheDoc(t)}
      BY <3>1, LookupIs
    <3>3. /\ Only(quit, left, {"limbo", "received"})
          /\ quit["limbo"] = Without(left.limbo, TheDoc(t))
          /\ quit["received"] = left.received \ {t}
      BY <2>6 DEF Only, Typed, Shape, Fields
    <3> HIDE DEF quit
    <3>4. left.limbo \in Partial(Docs, Lookup) /\ left.received \in SUBSET Lookup
      BY <2>6, FieldTypes
    <3>5. Without(left.limbo, TheDoc(t)) \in Partial(Docs, Lookup)
      BY <3>4, WithoutPartial
    <3>6. Typed(quit)
      BY <2>6, <3>3, <3>4, <3>5, TypedOnly, ClientIs DEF Fields
    <3>7. /\ quit.on = c.on /\ quit.listening = Without(c.listening, t)
          /\ quit.agg = Without(c.agg, t) /\ quit.limbo = Without(c.limbo, TheDoc(t))
          /\ quit.received = c.received \ {t}
          /\ Only(quit, c, {"listening", "agg", "limbo", "received", "token", "savedFree"})
      BY <2>2, <3>3 DEF Only, Fields
    <3>8. Runs(quit)
      BY <1>2, <3>7, DroppedRuns DEF Sound
    <3>9. DOMAIN quit.listening = DOMAIN c.listening \ {t}
      BY <3>7 DEF Without, Restrict
    <3>10. LookedUp(quit)
      <4>1. /\ DOMAIN quit.limbo = DOMAIN c.limbo \ {TheDoc(t)}
            /\ \A d \in DOMAIN quit.limbo : quit.limbo[d] = c.limbo[d]
        <5>1. quit.limbo = Without(c.limbo, TheDoc(t))
          BY <3>7
        <5>2. DOMAIN Without(c.limbo, TheDoc(t)) = DOMAIN c.limbo \ {TheDoc(t)}
          BY WithoutIs, Zenon
        <5>3. \A d \in DOMAIN c.limbo : d # TheDoc(t) => Without(c.limbo, TheDoc(t))[d] = c.limbo[d]
          BY WithoutIs, Zenon
        <5>4. \A d \in DOMAIN quit.limbo : d \in DOMAIN c.limbo /\ d # TheDoc(t)
          BY <5>1, <5>2
        <5> QED
          BY <5>1, <5>2, <5>3, <5>4, Zenon
      <4>2. LookedUp(c)
        BY DEF Sound
      <4>3. \A d \in DOMAIN c.limbo : c.limbo[d] = t <=> d = TheDoc(t)
        BY <2>7, <2>9, <3>2, <4>2 DEF LookedUp
      <4>4. \A d \in DOMAIN quit.limbo : /\ quit.limbo[d].docs = {d}
                                         /\ quit.limbo[d] \in DOMAIN quit.listening
        BY <3>9, <4>1, <4>2, <4>3 DEF LookedUp
      <4>5. \A d \in DOMAIN c.limbo : d \in DOMAIN quit.limbo \/ c.limbo[d] = t
        BY <4>1, <4>3
      <4>6. DOMAIN quit.listening \subseteq {Query} \cup {quit.limbo[d] : d \in DOMAIN quit.limbo}
        BY <3>9, <4>1, <4>2, <4>5 DEF LookedUp
      <4>7. quit.received \subseteq {quit.limbo[d] : d \in DOMAIN quit.limbo}
        BY <3>7, <4>1, <4>2, <4>5 DEF LookedUp
      <4> QED
        BY <4>4, <4>6, <4>7 DEF LookedUp
    <3>11. Linked(quit)
      BY <3>2, <3>7, <3>9 DEF Sound, Linked
    <3>12. /\ event \in EventType /\ DOMAIN event.changes = {} /\ event.version = 0
      <4>1. <<>> \in Partial(Watched, ChangeType) /\ DOMAIN <<>> = {}
        BY PartialNone
      <4>2. Unknown \in CachedDoc /\ 0 \in Versions
        BY BoundsAssumption DEF Unknown, CachedDoc, Values, Versions
      <4>3. [d \in {TheDoc(t)} |-> Unknown] \in Partial(Docs, CachedDoc)
        BY <3>2, <4>2, OnePartial
      <4> QED
        BY <4>1, <4>2, <4>3 DEF EventType
    <3> HIDE DEF event
    <3>13. Sound(quit)
      BY <3>8, <3>10, <3>11 DEF Sound
    <3>14. Brought(quit, event.changes) /\ Spent(quit, event.changes)
      BY <3>12 DEF Brought, Spent
    <3>15. DOMAIN event.changes \subseteq DOMAIN quit.listening
      BY <3>12
    <3>19. PICK late : late = FALSE
      OBVIOUS
    <3> DEFINE y == ApplyRemoteEvent(quit, event, 0, late)
    <3>18. /\ Sound(y) /\ y.incoming \in {quit.incoming, <<>>}
           /\ y.lastSnap = IF event.version = 0 THEN quit.lastSnap ELSE event.version
      BY <3>6, <3>12, <3>13, <3>14, <3>15, ApplyRemoteEventSound
    <3> HIDE DEF y
    <3>16. Sound(y) /\ Unread(y, quit)
      BY <3>12, <3>18 DEF Unread
    <3>17. Unread(quit, c)
      BY <3>7 DEF Unread, Only, Fields
    <3> QED
      BY <2>1, <2>9, <3>16, <3>17, <3>19, UnreadTrans DEF x, y
  <2>10. CASE t \notin Range(c.limbo)
    <3>1. c.listening[t] \in Versions /\ c.limboFree \in Versions
      BY <1>2, <2>3, PartialIs, FieldTypes DEF Shown
    <3>2. /\ Only(kept, left, {"token", "savedFree"})
          /\ kept["token"] = c.listening[t] /\ kept["savedFree"] = c.limboFree
      BY <2>6 DEF Only, Typed, Shape, Fields
    <3> HIDE DEF kept
    <3>3. Typed(kept)
      BY <2>6, <3>1, <3>2, TypedOnly, ClientIs DEF Fields
    <3>4. /\ Only(kept, c, {"listening", "agg", "limbo", "received", "token", "savedFree"})
          /\ kept.listening = Without(c.listening, t) /\ kept.agg = Without(c.agg, t)
          /\ kept.received = c.received /\ kept.limbo = c.limbo
      BY <2>2, <3>2 DEF Only, Fields
    <3>5. Runs(kept)
      BY <1>2, <3>4, DroppedRuns DEF Sound
    <3>6. DOMAIN kept.listening = DOMAIN c.listening \ {t}
      BY <3>4, WithoutIs
    <3>7. t = Query
      BY <1>2, <2>7, <2>10 DEF Sound, LookedUp
    <3>8. LookedUp(kept)
      BY <2>7, <2>10, <3>4, <3>6 DEF Sound, LookedUp
    <3>9. Sound(Forget(kept)) /\ Unread(Forget(kept), kept)
      BY <3>3, <3>5, <3>6, <3>7, <3>8, ForgetSound
    <3>10. Unread(kept, c)
      BY <3>4 DEF Unread, Only, Fields
    <3> QED
      BY <2>1, <2>10, <3>9, <3>10, UnreadTrans DEF x
  <2> QED
    BY <2>9, <2>10
<1> QED
  BY <1>1, <1>2

-----------------------------------------------------------------------------
(* Snapshots on their way. *)

\* A snapshot on its way is not older than the last one, and is the only one.
Fresher(c, n) ==
    /\ c.lastSnap <= n
    /\ \A i \in DOMAIN c.incoming : c.incoming[i].kind = "snapshot" =>
          /\ c.lastSnap <= c.incoming[i].version /\ c.incoming[i].version <= n
          /\ \A j \in DOMAIN c.incoming : c.incoming[j].kind = "snapshot" => i = j

\* Snapshots stay fresh when no message is touched.
LEMMA UnreadFresher ==
    ASSUME NEW c, NEW n, Fresher(c, n), NEW x, Unread(x, c)
    PROVE  Fresher(x, n)
<1>1. DOMAIN <<>> = {}
  OBVIOUS
<1>2. CASE x.incoming = c.incoming
  BY <1>2 DEF Unread, Fresher
<1>3. CASE x.incoming = <<>>
  BY <1>1, <1>3 DEF Unread, Fresher
<1> QED
  BY <1>2, <1>3 DEF Unread

-----------------------------------------------------------------------------
(* A message is read. *)

\* The books of a client that has read a message: in order,
\* but for a snapshot that still has to be raised.
LEMMA OnlineSound ==
    ASSUME World, Sound(client), NEW n, Fresher(client, n), client.incoming # <<>>
    PROVE  /\ Typed(Online) /\ Running(Online) /\ LookedUp(Online) /\ Linked(Online)
           /\ Online.stream = "Open" /\ Fresher(Online, n)
           /\ Head(client.incoming).kind # "snapshot" => Sound(Online)
           /\ Online.resets # {} => Head(client.incoming).kind \in Telling
<1> DEFINE incoming == Tail(client.incoming)
           h == Head(client.incoming)
           y == [client EXCEPT !.incoming = incoming]
           x == UpdateState(y, "Online")
<1>1. Online = x
  BY DEF Online
<1>2. /\ Typed(client) /\ client.incoming \in Seq(Message)
      /\ client.requests \in Seq(RequestType)
  BY FieldTypes DEF World, Shown
<1>3. h \in Message /\ incoming \in Seq(Message) /\ h = client.incoming[1]
  BY <1>2
<1>4. /\ DOMAIN incoming = 1 .. Len(client.incoming) - 1 /\ Len(client.incoming) \in Nat
      /\ DOMAIN client.incoming = 1 .. Len(client.incoming) /\ 1 \in DOMAIN client.incoming
      /\ \A i \in DOMAIN incoming : incoming[i] = client.incoming[i + 1]
  BY <1>2
<1>5. \A u : /\ Due(client.incoming, client.requests, u)
                  = Due(incoming, client.requests, u) + (IF h \in Answers(u) THEN 1 ELSE 0)
             /\ InOrder(client.incoming, client.requests, u)
                  => InOrder(incoming, client.requests, u)
  BY <1>2, OneMessageRead
<1>6. \A u : Due(incoming, client.requests, u) \in Nat
  BY <1>2, <1>3, DueIs
<1>7. \A i \in Nat \ {0} : Reports(client.incoming, i) /\ (i # 1 \/ h.kind # "snapshot")
                              => Reports(incoming, IF i = 1 THEN 1 ELSE i - 1)
  BY <1>2, ReportsRead
<1>8. client.resets # {} => Reports(client.incoming, 1)
  BY DEF Sound, Runs, Pressing
<1> HIDE DEF incoming, h
<1>9. Only(y, client, {"incoming"}) /\ y["incoming"] = incoming
  BY <1>2 DEF Only, Typed, Shape, Fields
<1> HIDE DEF y
<1>10. Typed(y)
  BY <1>2, <1>3, <1>9, TypedOnly, ClientIs DEF Fields
<1>11. /\ y.incoming = incoming /\ y.listening = client.listening
       /\ y.requests = client.requests /\ y.agg = client.agg /\ y.resets = client.resets
       /\ y.received = client.received /\ y.stream = client.stream /\ y.idle = client.idle
       /\ y.on = client.on /\ y.view = client.view /\ y.limbo = client.limbo
       /\ y.broken = client.broken /\ y.lastSnap = client.lastSnap
       /\ y.timer = client.timer /\ y.failed = client.failed /\ y.online = client.online
  BY <1>9 DEF Only, Fields
<1>12. client.stream = "Open"
  BY DEF Sound, Runs, Running, Flowing, Wired, Quiet
<1>13. Counted(y)
  <2>1. ASSUME NEW u \in Watched PROVE Entry(y, u).outstanding >= Due(y.incoming, y.requests, u)
    <3>1. Entry(y, u) = Entry(client, u)
      BY <1>11 DEF Entry
    <3>2. Entry(client, u).outstanding >= Due(client.incoming, client.requests, u)
      BY DEF Sound, Runs, Running, Flowing, Counted
    <3>3. Entry(client, u).outstanding \in Int
      BY <1>2, EntryTyped DEF EntryType
    <3>4. Due(client.incoming, client.requests, u) >= Due(incoming, client.requests, u)
      BY <1>5, <1>6
    <3> QED
      BY <1>5, <1>6, <1>11, <3>1, <3>2, <3>3, <3>4
  <2> QED
    BY <2>1 DEF Counted
<1>14. Ordered(y)
  BY <1>5, <1>11 DEF Sound, Runs, Running, Flowing, Ordered
<1>15. Blocked(y)
  BY <1>2, <1>11, BlocksRead DEF Sound, Runs, Running, Flowing, incoming
<1>16. Resetting(y)
  <2>1. ASSUME NEW t \in y.resets, t \in DOMAIN y.listening
        PROVE  Due(y.incoming, y.requests, t) = 0
    <3>1. Due(client.incoming, client.requests, t) = 0
      BY <1>11, <2>1 DEF Sound, Runs, Running, Flowing, Resetting
    <3> QED
      BY <1>5, <1>6, <1>11, <3>1
  <2> QED
    BY <1>11, <2>1 DEF Sound, Runs, Running, Flowing, Resetting
<1>17. Gathers(y)
  BY <1>11 DEF Sound, Runs, Running, Flowing, Gathers, Gotten, RemoteKeys, Entry
<1>18. Wired(y)
  BY <1>11, <1>12 DEF Sound, Runs, Running, Flowing, Wired
<1>19. Flowing(y)
  BY <1>13, <1>14, <1>15, <1>16, <1>17, <1>18 DEF Flowing
<1>20. /\ SameBooks(x, y) /\ Clock(x) /\ x.broken = y.broken
       /\ Typed(x) /\ Only(x, y, {"online", "raised", "view", "timer", "failed"})
  BY <1>10, UpdateStateRuns, UpdateStateTyped
<1> HIDE DEF x
<1>21. Running(x)
  BY <1>11, <1>19, <1>20, SameBooksKeep DEF Running, Sound, Runs
<1>22. /\ x.limbo = client.limbo /\ x.listening = client.listening /\ x.on = client.on
       /\ x.received = client.received /\ x.stream = "Open" /\ x.incoming = incoming
       /\ x.resets = client.resets /\ x.lastSnap = client.lastSnap
  BY <1>11, <1>12, <1>20 DEF Only, Fields
<1>23. LookedUp(x) /\ Linked(x)
  BY <1>22 DEF Sound, LookedUp, Linked
<1>24. h.kind # "snapshot" => Pressing(x)
  <2>1. ASSUME h.kind # "snapshot", x.resets # {} PROVE x.incoming # <<>> /\ Reports(x.incoming, 1)
    <3>1. Reports(incoming, 1)
      BY <1>7, <1>8, <1>22, <2>1
    <3>2. DOMAIN incoming # {}
      BY <3>1 DEF Reports
    <3>3. DOMAIN <<>> = {}
      OBVIOUS
    <3> QED
      BY <1>22, <3>1, <3>2, <3>3
  <2> QED
    BY <2>1 DEF Pressing
<1>25. x.resets # {} => h.kind \in Telling
  <2>1. ASSUME Reports(client.incoming, 1) PROVE h.kind \in Telling
    <3>1. PICK k \in DOMAIN client.incoming :
             1 <= k /\ \A j \in 1 .. k : client.incoming[j].kind \in Telling
      BY <2>1 DEF Reports
    <3>2. 1 \in 1 .. k
      BY <1>4, <3>1
    <3> QED
      BY <1>3, <3>1, <3>2
  <2> QED
    BY <1>8, <1>22, <2>1
<1>26. Fresher(x, n)
  <2>1. x.lastSnap <= n
    BY <1>22 DEF Fresher
  <2>2. ASSUME NEW i \in DOMAIN x.incoming, x.incoming[i].kind = "snapshot"
        PROVE  /\ x.lastSnap <= x.incoming[i].version /\ x.incoming[i].version <= n
               /\ \A j \in DOMAIN x.incoming : x.incoming[j].kind = "snapshot" => i = j
    <3>1. i \in Int /\ i + 1 \in DOMAIN client.incoming /\ x.incoming[i] = client.incoming[i + 1]
      BY <1>4, <1>22, <2>2
    <3>2. /\ client.lastSnap <= x.incoming[i].version /\ x.incoming[i].version <= n
          /\ \A j \in DOMAIN client.incoming : client.incoming[j].kind = "snapshot" => i + 1 = j
      BY <2>2, <3>1 DEF Fresher
    <3>3. ASSUME NEW j \in DOMAIN x.incoming, x.incoming[j].kind = "snapshot" PROVE i = j
      <4>1. j \in Int /\ j + 1 \in DOMAIN client.incoming /\ x.incoming[j] = client.incoming[j + 1]
        BY <1>4, <1>22, <3>3
      <4>2. i + 1 = j + 1
        BY <3>2, <3>3, <4>1
      <4> QED
        BY <3>1, <4>1, <4>2
    <3> QED
      BY <1>22, <3>2, <3>3
  <2> QED
    BY <2>1, <2>2 DEF Fresher
<1>27. h.kind # "snapshot" => Sound(x)
  BY <1>21, <1>23, <1>24 DEF Sound, Runs
<1> QED
  BY <1>1, <1>20, <1>21, <1>22, <1>23, <1>25, <1>26, <1>27 DEF h

\* What is due about a target once a message is read.
LEMMA OnlineDue ==
    ASSUME World, client.incoming # <<>>, NEW t
    PROVE  /\ Due(client.incoming, client.requests, t)
                = Due(Online.incoming, Online.requests, t)
                  + (IF Head(client.incoming) \in Answers(t) THEN 1 ELSE 0)
           /\ Due(Online.incoming, Online.requests, t) \in Nat
           /\ InOrder(client.incoming, client.requests, t)
                /\ Head(client.incoming) \in Closing(t)
                => Due(Online.incoming, Online.requests, t) = 0
           /\ InOrder(client.incoming, client.requests, t)
                /\ Head(client.incoming) \in Answers(t) /\ Head(client.incoming) \notin Closing(t)
                => Due(Online.incoming, Online.requests, t) # 0
           /\ Entry(Online, t) = Entry(client, t) /\ Online.listening = client.listening
           /\ Online.agg = client.agg /\ Online.lastSnap = client.lastSnap
<1> DEFINE incoming == Tail(client.incoming)
           y == [client EXCEPT !.incoming = incoming]
<1>1. /\ Typed(client) /\ client.incoming \in Seq(Message)
      /\ client.requests \in Seq(RequestType) /\ incoming \in Seq(Message)
  BY FieldTypes DEF World, Shown
<1>2. Only(y, client, {"incoming"}) /\ y["incoming"] = incoming
  BY <1>1 DEF Only, Typed, Shape, Fields
<1>5. Online = UpdateState(y, "Online")
  BY DEF Online
<1>10. incoming \in Seq(Message)
  BY <1>1
<1>11. incoming = Tail(client.incoming)
  OBVIOUS
<1> HIDE DEF y, incoming
<1>3. Typed(y)
  <2>1. Typed(client) /\ y["incoming"] \in Client_["incoming"]
    BY <1>1, <1>2, <1>10, ClientIs
  <2> QED
    BY <1>2, <2>1, TypedOnly DEF Fields
<1>4. Only(UpdateState(y, "Online"), y, {"online", "raised", "view", "timer", "failed"})
  BY <1>3, UpdateStateTyped
<1>6. /\ Online.incoming = incoming /\ Online.requests = client.requests
      /\ Online.agg = client.agg /\ Online.listening = client.listening
      /\ Online.lastSnap = client.lastSnap
  BY <1>2, <1>4, <1>5 DEF Only, Fields
<1>7. Entry(Online, t) = Entry(client, t)
  BY <1>6 DEF Entry
<1>8. /\ Due(client.incoming, client.requests, t)
            = Due(incoming, client.requests, t)
              + (IF Head(client.incoming) \in Answers(t) THEN 1 ELSE 0)
      /\ InOrder(client.incoming, client.requests, t)
            /\ Head(client.incoming) \in Closing(t) => Due(incoming, client.requests, t) = 0
      /\ InOrder(client.incoming, client.requests, t)
            /\ Head(client.incoming) \in Answers(t) /\ Head(client.incoming) \notin Closing(t)
            => Due(incoming, client.requests, t) # 0
  <2> DEFINE in == client.incoming
             out == client.requests
  <2>1. in \in Seq(Message) /\ in # <<>> /\ out \in Seq(RequestType)
    BY <1>1
  <2> HIDE DEF in, out
  <2>2. /\ Due(in, out, t) = Due(Tail(in), out, t) + (IF Head(in) \in Answers(t) THEN 1 ELSE 0)
        /\ InOrder(in, out, t) /\ Head(in) \in Closing(t) => Due(Tail(in), out, t) = 0
        /\ InOrder(in, out, t) /\ Head(in) \in Answers(t) /\ Head(in) \notin Closing(t)
             => Due(Tail(in), out, t) # 0
    BY <2>1, OneMessageRead
  <2> QED
    BY <1>11, <2>2 DEF in, out
<1>9. Due(incoming, client.requests, t) \in Nat
  BY <1>1, <1>10, DueIs
<1> QED
  BY <1>6, <1>7, <1>8, <1>9

\* It has taken the first message.
LEMMA OnlineIncoming ==
    ASSUME World, client.incoming # <<>>
    PROVE  Online.incoming = Tail(client.incoming)
<1> DEFINE incoming == Tail(client.incoming)
           y == [client EXCEPT !.incoming = incoming]
<1>1. Typed(client) /\ client.incoming \in Seq(Message) /\ incoming \in Seq(Message)
  BY FieldTypes DEF World, Shown
<1>2. Only(y, client, {"incoming"}) /\ y["incoming"] = incoming
  BY <1>1 DEF Only, Typed, Shape, Fields
<1>3. Online = UpdateState(y, "Online")
  BY DEF Online
<1>4. incoming \in Seq(Message)
  BY <1>1
<1> HIDE DEF y, incoming
<1>5. Typed(y)
  <2>1. Typed(client) /\ y["incoming"] \in Client_["incoming"]
    BY <1>1, <1>2, <1>4, ClientIs
  <2> QED
    BY <1>2, <2>1, TypedOnly DEF Fields
<1>6. Only(UpdateState(y, "Online"), y, {"online", "raised", "view", "timer", "failed"})
  BY <1>5, UpdateStateTyped
<1> QED
  BY <1>2, <1>3, <1>6 DEF Only, Fields, incoming

\* A message about one target, and the answers among them.
LEMMA HeadIs ==
    ASSUME World, NEW kind \in {"added", "removed", "current", "reset", "error", "filter"},
           Received(kind)
    PROVE  /\ client.incoming # <<>> /\ AboutTarget \in Watched
           /\ Head(client.incoming).kind = kind
           /\ kind \in {"added", "removed", "error"}
                => Head(client.incoming) \in Answers(AboutTarget)
           /\ kind \in {"added", "error"} <=> Head(client.incoming) \in Closing(AboutTarget)
<1> DEFINE m == Head(client.incoming)
<1>1. client.incoming # <<>> /\ m.kind = kind
  BY DEF Received
<1>2. m \in Message
  BY <1>1, OnlineShown
<1>3. AboutTarget \in Watched /\ m.about = {AboutTarget}
  BY AboutIs
<1> HIDE DEF m
<1>4. kind # "filter" => m \in Single
  BY <1>1, <1>2 DEF Message, Snapshot, Document, News, Filter
<1>5. kind \in {"added", "removed", "error"} => m \in Answers(AboutTarget)
  BY <1>1, <1>3, <1>4 DEF Single, Answers
<1>6. kind \in {"added", "error"} <=> m \in Closing(AboutTarget)
  BY <1>1, <1>3, <1>4 DEF Single, Closing
<1> QED
  BY <1>1, <1>3, <1>5, <1>6 DEF m

\* What is proved of a step: the books stay in order.
Solid(c, n) == Sound(c) /\ Fresher(c, n)

\* The limbo-free version is in no book.
LEMMA NotifiedSolid ==
    ASSUME NEW c, Shown(c), NEW n, Solid(c, n), NEW late
    PROVE  Solid(Notified(c, late), n)
<1> DEFINE x == Notified(c, late)
<1>1. Only(x, c, NoteFields)
  BY NotifiedShown
<1> HIDE DEF x
<1>2. SameState(x, c) /\ Unread(x, c)
  BY <1>1 DEF SameState, SameBooks, Unread, Only, Fields, NoteFields
<1> QED
  BY <1>2, SameStateSound, UnreadFresher DEF Solid, x

LEMMA NotifySolid ==
    ASSUME NEW c, Shown(c), NEW n, Solid(c, n), Notify(c)
    PROVE  Solid(client', n)
BY NotifiedSolid DEF Notify, Client

\* An answer is counted.
LEMMA CountedSound ==
    ASSUME NEW c, Typed(c), Sound(c), c.stream = "Open", c.resets = {}, NEW t \in Watched,
           NEW entry, entry.outstanding >= Due(c.incoming, c.requests, t),
           t \in DOMAIN c.listening /\ entry.outstanding = 0 => DOMAIN entry.changes = {},
           NEW agg, NEW x, Only(x, c, {"agg"}), x.agg = agg,
           DOMAIN c.listening \subseteq DOMAIN agg,
           Entry(x, t) = entry, \A u : u # t => Entry(x, u) = Entry(c, u)
    PROVE  Sound(x) /\ Unread(x, c)
<1>1. /\ x.requests = c.requests /\ x.incoming = c.incoming /\ x.resets = c.resets
      /\ x.stream = c.stream /\ x.idle = c.idle /\ x.serving = c.serving
      /\ x.timer = c.timer /\ x.failed = c.failed /\ x.online = c.online
      /\ x.broken = c.broken /\ x.updates = c.updates /\ x.on = c.on /\ x.view = c.view
      /\ x.listening = c.listening /\ x.received = c.received /\ x.limbo = c.limbo
      /\ x.lastSnap = c.lastSnap
  BY DEF Only, Fields
<1>2. \A u : RemoteKeys(x, u) = RemoteKeys(c, u)
  BY <1>1 DEF RemoteKeys
<1>3. Counted(x)
  BY <1>1 DEF Sound, Runs, Running, Flowing, Counted
<1>4. Gathers(x)
  <2>1. ASSUME NEW u \in DOMAIN x.listening, Entry(x, u).outstanding = 0 PROVE Gotten(x, u)
    <3>1. CASE u = t
      BY <1>1, <2>1, <3>1 DEF Gotten
    <3>2. CASE u # t
      BY <1>1, <1>2, <2>1, <3>2 DEF Sound, Runs, Running, Flowing, Gathers, Gotten
    <3> QED
      BY <3>1, <3>2
  <2> QED
    BY <2>1 DEF Gathers
<1>5. Wired(x) /\ Ordered(x) /\ Blocked(x) /\ Clock(x) /\ ~x.broken
  BY <1>1 DEF Sound, Runs, Running, Flowing, Wired, Ordered, Blocked, Clock
<1>6. Resetting(x) /\ Pressing(x)
  BY <1>1 DEF Resetting, Pressing
<1>7. LookedUp(x) /\ Linked(x)
  BY <1>1 DEF Sound, LookedUp, Linked
<1>8. Unread(x, c)
  BY <1>1 DEF Unread
<1> QED
  BY <1>3, <1>4, <1>5, <1>6, <1>7, <1>8 DEF Sound, Runs, Running, Flowing

\* The server has added a target, ...
LEMMA TargetAddedSolid ==
    ASSUME World, Sound(client), NEW n, Fresher(client, n), TargetAdded
    PROVE  Solid(client', n)
<1> DEFINE t == AboutTarget
           entry == [Entry(client, t) EXCEPT !.outstanding = @ - 1]
           after == [entry EXCEPT !.changes = IF entry.outstanding = 0 THEN <<>> ELSE @]
           x == WithEntry(Online, t, after)
<1>1. client' = x
  BY DEF TargetAdded, Client
<1>2. /\ client.incoming # <<>> /\ t \in Watched /\ Head(client.incoming).kind = "added"
      /\ Head(client.incoming) \in Answers(t)
  BY HeadIs DEF TargetAdded
<1>3. /\ Sound(Online) /\ Fresher(Online, n) /\ Typed(Online) /\ Online.stream = "Open"
      /\ Online.resets = {}
  BY <1>2, OnlineSound DEF Telling
<1>4. /\ Due(client.incoming, client.requests, t)
           = Due(Online.incoming, Online.requests, t) + 1
      /\ Due(Online.incoming, Online.requests, t) \in Nat
  BY <1>2, OnlineDue
<1>5. Entry(client, t) \in EntryType /\ DOMAIN Entry(client, t).changes \subseteq t.docs
  BY <1>2, EntryTyped DEF World, Shown
<1>6. Entry(client, t).outstanding >= Due(client.incoming, client.requests, t)
  BY <1>2 DEF Sound, Runs, Running, Flowing, Counted
<1> HIDE DEF t
<1>7. /\ entry \in EntryType /\ entry.outstanding = Entry(client, t).outstanding - 1
      /\ DOMAIN entry.changes \subseteq t.docs
  BY <1>5 DEF EntryType
<1> HIDE DEF entry
<1>8. /\ after \in EntryType /\ DOMAIN after.changes \subseteq t.docs
      /\ after.outstanding = entry.outstanding
      /\ after.outstanding = 0 => DOMAIN after.changes = {}
  <2>1. <<>> \in Partial(Docs, Change) /\ DOMAIN <<>> = {}
    BY PartialNone
  <2> QED
    BY <1>7, <2>1 DEF EntryType
<1> HIDE DEF after
<1>9. after.outstanding >= Due(Online.incoming, Online.requests, t)
  BY <1>4, <1>5, <1>6, <1>7, <1>8 DEF EntryType
<1>10. Typed(x) /\ Only(x, Online, {"agg"}) /\ x.agg = With(Online.agg, t, after)
  BY <1>2, <1>3, <1>8, WithEntryTyped
<1> HIDE DEF x
<1>11. /\ DOMAIN x.agg = DOMAIN Online.agg \cup {t} /\ Entry(x, t) = after
       /\ \A u : u # t => Entry(x, u) = Entry(Online, u)
  BY <1>10 DEF Entry, With, Over
<1>12. DOMAIN Online.listening \subseteq DOMAIN x.agg
  BY <1>3, <1>11 DEF Sound, Runs, Running, Flowing, Wired
<1>13. Sound(x) /\ Unread(x, Online)
  BY <1>2, <1>3, <1>8, <1>9, <1>10, <1>11, <1>12, CountedSound
<1> QED
  BY <1>1, <1>3, <1>13, UnreadFresher DEF Solid

\* ... removed one, ...
LEMMA TargetRemovedSolid ==
    ASSUME World, Sound(client), NEW n, Fresher(client, n), TargetRemoved
    PROVE  Solid(client', n)
<1> DEFINE t == AboutTarget
           entry == [Entry(client, t) EXCEPT !.outstanding = @ - 1]
           gone == [Online EXCEPT !.agg = Without(@, t)]
           x == WithEntry(Online, t, entry)
<1>1. client' = IF entry.outstanding = 0 THEN gone ELSE x
  BY DEF TargetRemoved, Client
<1>2. /\ client.incoming # <<>> /\ t \in Watched /\ Head(client.incoming).kind = "removed"
      /\ Head(client.incoming) \in Answers(t) /\ Head(client.incoming) \notin Closing(t)
  BY HeadIs DEF TargetRemoved
<1>3. /\ Sound(Online) /\ Fresher(Online, n) /\ Typed(Online) /\ Online.stream = "Open"
      /\ Online.resets = {}
  BY <1>2, OnlineSound DEF Telling
<1>4. /\ Due(client.incoming, client.requests, t)
           = Due(Online.incoming, Online.requests, t) + 1
      /\ Due(Online.incoming, Online.requests, t) \in Nat
      /\ Online.listening = client.listening
  BY <1>2, OnlineDue
<1>5. t \in DOMAIN client.listening => Due(Online.incoming, Online.requests, t) # 0
  BY <1>2, OnlineDue DEF Sound, Runs, Running, Flowing, Ordered
<1>6. Entry(client, t) \in EntryType /\ DOMAIN Entry(client, t).changes \subseteq t.docs
  BY <1>2, EntryTyped DEF World, Shown
<1>7. Entry(client, t).outstanding >= Due(client.incoming, client.requests, t)
  BY <1>2 DEF Sound, Runs, Running, Flowing, Counted
<1> HIDE DEF t
<1>8. /\ entry \in EntryType /\ entry.outstanding = Entry(client, t).outstanding - 1
      /\ DOMAIN entry.changes \subseteq t.docs
  BY <1>6 DEF EntryType
<1> HIDE DEF entry
<1>9. entry.outstanding >= Due(Online.incoming, Online.requests, t) /\ entry.outstanding \in Int
  BY <1>4, <1>6, <1>7, <1>8 DEF EntryType
<1>10. t \in DOMAIN Online.listening => entry.outstanding # 0
  BY <1>4, <1>5, <1>9
<1>11. Typed(x) /\ Only(x, Online, {"agg"}) /\ x.agg = With(Online.agg, t, entry)
  BY <1>2, <1>3, <1>8, WithEntryTyped
<1>12. Only(gone, Online, {"agg"}) /\ gone["agg"] = Without(Online.agg, t)
  BY <1>3 DEF Only, Typed, Shape, Fields
<1> HIDE DEF x, gone
<1>13. DOMAIN Online.listening \subseteq DOMAIN Online.agg
  BY <1>3 DEF Sound, Runs, Running, Flowing, Wired
<1>14. Sound(x) /\ Unread(x, Online)
  <2>1. /\ DOMAIN x.agg = DOMAIN Online.agg \cup {t} /\ Entry(x, t) = entry
        /\ \A u : u # t => Entry(x, u) = Entry(Online, u)
    BY <1>11 DEF Entry, With, Over
  <2>2. DOMAIN Online.listening \subseteq DOMAIN x.agg
    BY <1>13, <2>1
  <2> QED
    BY <1>2, <1>3, <1>9, <1>10, <1>11, <2>1, <2>2, CountedSound
<1>15. CASE entry.outstanding = 0
  <2>1. /\ DOMAIN gone.agg = DOMAIN Online.agg \ {t} /\ Entry(gone, t) = NewEntry
        /\ \A u : u # t => Entry(gone, u) = Entry(Online, u)
    BY <1>12 DEF Entry, Without, Restrict
  <2>2. DOMAIN Online.listening \subseteq DOMAIN gone.agg
    BY <1>10, <1>13, <1>15, <2>1
  <2>3. NewEntry.outstanding >= Due(Online.incoming, Online.requests, t)
    BY <1>4, <1>9, <1>15 DEF NewEntry
  <2>4. DOMAIN NewEntry.changes = {}
    BY PartialNone DEF NewEntry
  <2>5. Sound(gone) /\ Unread(gone, Online)
    BY <1>2, <1>3, <1>12, <2>1, <2>2, <2>3, <2>4, CountedSound
  <2> QED
    BY <1>1, <1>3, <1>15, <2>5, UnreadFresher DEF Solid
<1>16. CASE entry.outstanding # 0
  BY <1>1, <1>3, <1>14, <1>16, UnreadFresher DEF Solid
<1> QED
  BY <1>15, <1>16

\* ... told all there is of one, ...
LEMMA TargetCurrentSolid ==
    ASSUME World, Sound(client), NEW n, Fresher(client, n), TargetCurrent
    PROVE  Solid(client', n)
<1> DEFINE t == AboutTarget
           entry == [Entry(client, t) EXCEPT !.current = TRUE]
           x == WithEntry(Online, t, entry)
<1>1. client' = Online \/ (IsActiveTarget(client, t) /\ client' = x)
  BY DEF TargetCurrent, Client
<1>2. client.incoming # <<>> /\ t \in Watched /\ Head(client.incoming).kind = "current"
  BY HeadIs DEF TargetCurrent
<1>3. Sound(Online) /\ Fresher(Online, n) /\ Typed(Online) /\ Online.stream = "Open"
  BY <1>2, OnlineSound
<1>4. Entry(client, t) \in EntryType /\ DOMAIN Entry(client, t).changes \subseteq t.docs
  BY <1>2, EntryTyped DEF World, Shown
<1>5. Entry(Online, t) = Entry(client, t) /\ Online.listening = client.listening
  BY <1>2, OnlineDue
<1> HIDE DEF t
<1>6. /\ entry \in EntryType /\ DOMAIN entry.changes \subseteq t.docs
      /\ entry.outstanding = Entry(client, t).outstanding
      /\ entry.changes = Entry(client, t).changes
  BY <1>4 DEF EntryType
<1> HIDE DEF entry
<1>7. Typed(x) /\ Only(x, Online, {"agg"}) /\ x.agg = With(Online.agg, t, entry)
  BY <1>2, <1>3, <1>6, WithEntryTyped
<1> HIDE DEF x
<1>8. CASE IsActiveTarget(client, t) /\ client' = x
  <2>1. t \in DOMAIN Online.agg
    BY <1>3, <1>5, <1>8 DEF IsActiveTarget, Sound, Runs, Running, Flowing, Wired
  <2>2. /\ DOMAIN x.agg = DOMAIN Online.agg /\ Entry(x, t) = entry
        /\ \A u : u # t => Entry(x, u) = Entry(Online, u)
    BY <1>7, <2>1 DEF Entry, With, Over
  <2>3. /\ x.broken = Online.broken /\ x.listening = Online.listening /\ x.on = Online.on
        /\ x.received = Online.received /\ x.view = Online.view
    BY <1>7 DEF Only, Fields
  <2>4. SameDue(x, Online)
    BY <1>5, <1>6, <2>2, <2>3 DEF SameDue
  <2>5. \A u : /\ Entry(x, u).changes = Entry(Online, u).changes
               /\ Entry(x, u).outstanding = Entry(Online, u).outstanding
               /\ RemoteKeys(x, u) = RemoteKeys(Online, u)
    BY <1>5, <1>6, <2>2, <2>3 DEF RemoteKeys
  <2>6. Gathers(x)
    BY <1>3, <2>3, <2>5 DEF Sound, Runs, Running, Flowing, Gathers, Gotten
  <2>7. Gathered(Online, x) /\ SameNews(x, Online) /\ Unread(x, Online)
    BY <1>7, <2>4, <2>6 DEF Gathered, SameNews, Only, Unread, Fields
  <2>8. Sound(x)
    BY <1>3, <2>7, NewsSound
  <2> QED
    BY <1>3, <1>8, <2>7, <2>8, UnreadFresher DEF Solid
<1> QED
  BY <1>1, <1>3, <1>8 DEF Solid

\* ... started over with one, ...
LEMMA TargetResetSolid ==
    ASSUME World, Sound(client), NEW n, Fresher(client, n), TargetReset
    PROVE  Solid(client', n)
<1> DEFINE t == AboutTarget
           x == ResetTarget(Online, t)
<1>1. client' = Online \/ (IsActiveTarget(client, t) /\ client' = x)
  BY DEF TargetReset, Client
<1>2. client.incoming # <<>> /\ t \in Watched /\ Head(client.incoming).kind = "reset"
  BY HeadIs DEF TargetReset
<1>3. Sound(Online) /\ Fresher(Online, n) /\ Typed(Online) /\ Online.stream = "Open"
  BY <1>2, OnlineSound
<1>4. Entry(Online, t) = Entry(client, t) /\ Online.listening = client.listening
  BY <1>2, OnlineDue
<1>5. CASE IsActiveTarget(client, t) /\ client' = x
  <2>1. IsActiveTarget(Online, t)
    BY <1>4, <1>5 DEF IsActiveTarget
  <2>2. Gathers(Online) /\ DOMAIN Online.listening \subseteq DOMAIN Online.agg
    BY <1>3 DEF Sound, Runs, Running, Flowing, Wired
  <2>3. Gathered(Online, x) /\ SameNews(x, Online)
    BY <1>2, <1>3, <2>1, <2>2, ResetTargetTyped, ResetTargetNews
  <2> HIDE DEF x
  <2>4. Sound(x) /\ Unread(x, Online)
    BY <1>3, <2>3, NewsSound DEF Gathered, Only, Unread, Fields
  <2> QED
    BY <1>3, <1>5, <2>4, UnreadFresher DEF Solid
<1> QED
  BY <1>1, <1>3, <1>5 DEF Solid

\* ... or refused one.
LEMMA TargetRefusedSolid ==
    ASSUME World, Sound(client), NEW n, Fresher(client, n), TargetRefused
    PROVE  Solid(client', n)
<1> DEFINE t == AboutTarget
           x == ProcessTargetError(Online, t)
<1>1. Notify(x)
  BY DEF TargetRefused
<1>2. /\ client.incoming # <<>> /\ t \in Watched /\ Head(client.incoming).kind = "error"
      /\ Head(client.incoming) \in Closing(t)
  BY HeadIs DEF TargetRefused
<1>3. /\ Sound(Online) /\ Fresher(Online, n) /\ Typed(Online) /\ Online.stream = "Open"
      /\ Online.resets = {}
  BY <1>2, OnlineSound DEF Telling
<1>4. Online.listening = client.listening
  BY <1>2, OnlineDue
<1>5. t \in DOMAIN Online.listening => Due(Online.incoming, Online.requests, t) = 0
  BY <1>2, <1>4, OnlineDue DEF Sound, Runs, Running, Flowing, Ordered
<1>6. Sound(x) /\ Unread(x, Online)
  BY <1>2, <1>3, <1>5, ProcessTargetErrorSound
<1>7. Shown(x)
  BY <1>2, OnlineShown, ProcessTargetErrorShown
<1> HIDE DEF x
<1>8. Solid(x, n)
  BY <1>3, <1>6, UnreadFresher DEF Solid
<1> QED
  BY <1>1, <1>7, <1>8, NotifySolid

\* The server has counted what matches.
LEMMA ExistenceFilterSolid ==
    ASSUME World, Sound(client), NEW n, Fresher(client, n), ExistenceFilter
    PROVE  Solid(client', n)
<1> DEFINE t == AboutTarget
           h == Head(client.incoming)
           x == HandleFilter(Online, t, h.count)
<1>1. client' = x
  BY DEF ExistenceFilter, Client
<1>2. client.incoming # <<>> /\ t \in Watched /\ h.kind = "filter"
  BY HeadIs DEF ExistenceFilter
<1>3. /\ Sound(Online) /\ Fresher(Online, n) /\ Typed(Online) /\ Online.stream = "Open"
  BY <1>2, OnlineSound
<1>4. client.incoming \in Seq(Message)
  BY FieldTypes DEF World, Shown
<1>5. Reports(client.incoming, 1)
  <2>1. 1 \in DOMAIN client.incoming /\ client.incoming[1].kind = "filter"
    BY <1>2, <1>4
  <2> QED
    BY <2>1 DEF Sound, Runs, Running, Flowing, Blocked
<1>6. Reports(Tail(client.incoming), 1)
  <2>1. 1 \in Nat \ {0}
    OBVIOUS
  <2>2. Reports(Tail(client.incoming), IF 1 = 1 THEN 1 ELSE 1 - 1)
    BY <1>2, <1>4, <1>5, <2>1, ReportsRead
  <2> QED
    BY <2>2
<1>7. Online.incoming = Tail(client.incoming)
  BY <1>2, OnlineIncoming
<1>8. Online.incoming # <<>>
  <2>1. DOMAIN Online.incoming # {}
    BY <1>6, <1>7 DEF Reports
  <2>2. DOMAIN <<>> = {}
    OBVIOUS
  <2> QED
    BY <2>1, <2>2
<1> HIDE DEF t, h
<1>9. Sound(x)
  BY <1>2, <1>3, <1>6, <1>7, <1>8, HandleFilterSound
<1>10. Only(x, Online, {"agg", "updates", "broken", "resets"})
  BY <1>2, <1>3, HandleFilterTyped
<1> HIDE DEF x
<1>11. Unread(x, Online)
  BY <1>10 DEF Only, Unread, Fields
<1> QED
  BY <1>1, <1>3, <1>9, <1>11, UnreadFresher DEF Solid

\* Targets gather a document, one by one.
LEMMA DocumentChangeSolid ==
    ASSUME World, Sound(client), NEW n, Fresher(client, n), DocumentChange
    PROVE  Solid(client', n)
<1> DEFINE m == Head(client.incoming)
           p == [goal |-> "books", of |-> "change", from |-> Online, m |-> m]
<1>1. client.incoming # <<>> /\ m.kind = "document"
  BY DEF DocumentChange, Received
<1>2. /\ Typed(Online) /\ m \in Message /\ Sound(Online) /\ Fresher(Online, n)
      /\ Online.stream = "Open"
  BY <1>1, OnlineShown, OnlineSound
<1>3. client' = FoldedSet(p, Online, m.about)
  BY DEF DocumentChange, Client, FoldSet, MapThenFoldSet, FoldedSet, FoldStep
<1> HIDE DEF m
<1>4. m \in Document
  BY <1>1, <1>2 DEF Message, Single, Filter, Snapshot
<1>5. /\ IsFiniteSet(m.about) /\ m.about \subseteq Watched /\ m.doc \in Docs
      /\ m.update \in Partial(Docs, CachedDoc)
  BY <1>4 DEF Document, News, Finite
<1>6. /\ \A t \in m.about : m.doc \in t.docs
      /\ m.found => m.doc \in DOMAIN m.update
  BY <1>4 DEF Document
<1>7. m.found => m.update[m.doc] \in CachedDoc
  BY <1>5, <1>6, PartialIs
<1>8. Gathers(Online) /\ DOMAIN Online.listening \subseteq DOMAIN Online.agg
  BY <1>2 DEF Sound, Runs, Running, Flowing, Wired
<1>9. FoldInv(p, {}, Online)
  BY <1>2, <1>8, GatheredSame, SameNewsSame DEF FoldInv, BooksKept, SameNews
<1>10. ASSUME NEW r \in SUBSET m.about, NEW t \in m.about \ r, NEW y, FoldInv(p, r, y)
       PROVE  FoldInv(p, r \cup {t}, FoldStep(p, t, y))
  <2>1. /\ Gathered(Online, y) /\ Typed(y) /\ t \in Watched /\ m.doc \in t.docs
        /\ SameDue(y, Online) /\ Gathers(y)
    BY <1>5, <1>6, <1>10 DEF FoldInv, BooksKept, Gathered
  <2>2. DOMAIN y.listening \subseteq DOMAIN y.agg
    BY <1>8, <2>1 DEF Gathered, Only, Fields, SameDue
  <2>3. m.found => LET z == AddDocument(y, t, m.doc, m.update[m.doc])
                   IN  Gathered(y, z) /\ SameNews(z, y)
    BY <1>7, <2>1, <2>2, AddDocumentTyped, AddDocumentNews
  <2>4. LET z == RemoveDocument(y, t, m.doc, m.update)
        IN  Gathered(y, z) /\ SameNews(z, y)
    BY <1>5, <2>1, <2>2, RemoveDocumentTyped, RemoveDocumentNews
  <2>5. FoldStep(p, t, y) = IF m.found THEN AddDocument(y, t, m.doc, m.update[m.doc])
                            ELSE RemoveDocument(y, t, m.doc, m.update)
    BY DEF FoldStep
  <2>6. Gathered(y, FoldStep(p, t, y)) /\ SameNews(FoldStep(p, t, y), y)
    BY <2>3, <2>4, <2>5
  <2>7. Gathered(Online, FoldStep(p, t, y))
    BY <2>1, <2>6, GatheredTrans
  <2>8. SameDue(FoldStep(p, t, y), Online) /\ Gathers(FoldStep(p, t, y))
    BY <2>1, <2>6, SameDueTrans DEF SameNews
  <2> QED
    BY <2>7, <2>8 DEF FoldInv, BooksKept
<1>11. FoldInv(p, m.about, FoldedSet(p, Online, m.about))
  BY <1>5, <1>9, <1>10, FoldKeeps
<1>12. Gathered(Online, client') /\ SameNews(client', Online)
  BY <1>3, <1>11 DEF FoldInv, BooksKept, SameNews
<1>13. Sound(client')
  BY <1>2, <1>12, NewsSound
<1>14. Unread(client', Online)
  BY <1>12 DEF Gathered, Only, Unread, Fields
<1> QED
  BY <1>2, <1>13, <1>14, UnreadFresher DEF Solid

\* No snapshot is ignored.
LEMMA WatchSnapshotSolid ==
    ASSUME World, Sound(client), NEW n \in Nat, Fresher(client, n), NEW late, WatchSnapshot(late)
    PROVE  Solid(client', n)
<1> DEFINE h == Head(client.incoming)
           x == RaiseWatchSnapshot(Online, h.version, late)
<1>1. client.incoming # <<>> /\ h.kind = "snapshot"
  BY DEF WatchSnapshot, Received
<1>2. /\ Typed(client) /\ client.incoming \in Seq(Message) /\ h \in Message
  BY <1>1, OnlineShown, FieldTypes DEF World, Shown
<1>3. 1 \in DOMAIN client.incoming /\ client.incoming[1] = h
  BY <1>1, <1>2
<1>4. client' = IF h.version < client.lastSnap THEN Online ELSE Notified(x, late)
  BY DEF WatchSnapshot, Client
<1> HIDE DEF h
<1>5. h.version \in Versions
  BY <1>1, <1>2 DEF Message, Single, Filter, Document, News, Snapshot
<1>6. client.lastSnap <= h.version /\ h.version <= n
  BY <1>1, <1>3 DEF Fresher
<1>7. client.lastSnap \in Nat /\ h.version \in Nat
  BY <1>2, <1>5, FieldTypes, ZeroVersion
<1>8. client' = Notified(x, late)
  BY <1>4, <1>6, <1>7
<1>9. /\ Typed(Online) /\ Running(Online) /\ LookedUp(Online) /\ Linked(Online)
      /\ Online.stream = "Open"
  BY <1>1, OnlineSound
<1>10. Online.lastSnap = client.lastSnap /\ Online.incoming = Tail(client.incoming)
  BY <1>1, OnlineDue, OnlineIncoming
<1>11. Sound(x) /\ x.incoming \in {Online.incoming, <<>>} /\ x.lastSnap = h.version
  BY <1>5, <1>6, <1>7, <1>9, <1>10, RaiseWatchSnapshotSound
<1>14. Shown(x)
  BY <1>1, <1>5, OnlineShown, RaiseWatchSnapshotTyped DEF Shown
<1> HIDE DEF x
<1>12. ASSUME NEW i \in DOMAIN x.incoming PROVE x.incoming[i].kind # "snapshot"
  <2>1. DOMAIN <<>> = {}
    OBVIOUS
  <2>2. x.incoming = Tail(client.incoming)
    BY <1>10, <1>11, <1>12, <2>1
  <2>3. i \in 1 .. Len(client.incoming) - 1 /\ Len(client.incoming) \in Nat
    BY <1>1, <1>2, <1>12, <2>2
  <2>4. /\ i + 1 \in DOMAIN client.incoming /\ i + 1 # 1
        /\ x.incoming[i] = client.incoming[i + 1]
    BY <1>1, <1>2, <2>2, <2>3
  <2> QED
    BY <1>1, <1>3, <2>4 DEF Fresher
<1>13. Fresher(x, n)
  BY <1>6, <1>11, <1>12 DEF Fresher
<1> QED
  BY <1>8, <1>11, <1>13, <1>14, NotifiedSolid DEF Solid

\* What is watched is the same, with the same names.
LEMMA SameNamesSound ==
    ASSUME NEW c, NEW x, LookedUp(c), Linked(c), Runs(x), SameNames(x, c)
    PROVE  Sound(x)
BY DEF Sound, LookedUp, Linked, SameNames

\* A new stream asks for every target once.
LEMMA StreamOpensSolid ==
    ASSUME World, Sound(client), NEW n, Fresher(client, n), StreamOpens
    PROVE  Solid(client', n)
<1> DEFINE open == [client EXCEPT !.stream = "Open"]
           S == DOMAIN client.listening
           p == [goal |-> "books", of |-> "ask", from |-> open]
<1>1. client' = FoldedSet(p, open, S) /\ client.stream = "Starting"
  BY DEF StreamOpens, Client, FoldSet, MapThenFoldSet, FoldedSet, FoldStep
<1>2. Typed(client) /\ Only(open, client, {"stream"}) /\ open["stream"] = "Open"
  BY DEF World, Shown, Only, Typed, Shape, Fields
<1> HIDE DEF open
<1>3. open["stream"] \in Client_["stream"]
  BY <1>2, ClientIs
<1>4. Typed(open)
  BY <1>2, <1>3, TypedOnly DEF Fields
<1>5. /\ open.listening = client.listening /\ open.agg = client.agg /\ open.idle = client.idle
      /\ open.requests = client.requests /\ open.incoming = client.incoming
      /\ open.resets = client.resets /\ open.received = client.received /\ open.on = client.on
      /\ open.view = client.view /\ open.timer = client.timer /\ open.failed = client.failed
      /\ open.online = client.online /\ open.broken = client.broken
      /\ open.limbo = client.limbo /\ open.lastSnap = client.lastSnap
  BY <1>2 DEF Only, Fields
<1>6. client.listening \in Partial(Watched, Versions)
  BY <1>2, FieldTypes
<1>7. S \subseteq Watched /\ IsFiniteSet(S)
  BY <1>6, PartialIs
<1>8. /\ client.agg = <<>> /\ client.resets = {} /\ ~client.idle /\ Wired(client)
      /\ Flowing(client) /\ Pressing(client) /\ Clock(client) /\ ~client.broken
  BY <1>1 DEF Sound, Runs, Running, Flowing, Wired, Quiet
<1>9. Booked(open)
  <2>1. \A u : Entry(open, u) = Entry(client, u) /\ RemoteKeys(open, u) = RemoteKeys(client, u)
    BY <1>5 DEF Entry, RemoteKeys
  <2>2. Counted(open) /\ Gathers(open)
    BY <1>5, <1>8, <2>1 DEF Flowing, Counted, Gathers, Gotten
  <2>3. Ordered(open) /\ Blocked(open) /\ Pressing(open) /\ Resetting(open)
    BY <1>5, <1>8 DEF Flowing, Ordered, Blocked, Pressing, Resetting
  <2>4. Clock(open) /\ ~open.broken
    BY <1>2, <1>5, <1>8 DEF Clock
  <2> QED
    BY <2>2, <2>3, <2>4 DEF Booked
<1>10. FoldInv(p, {}, open)
  <2>1. DOMAIN open.agg = {} /\ ~open.idle
    BY <1>5, <1>8
  <2> QED
    BY <1>4, <1>9, <2>1, OnlySame DEF Rewatches, FoldInv, BooksKept
<1>11. ASSUME NEW r \in SUBSET S, NEW t \in S \ r, NEW y, FoldInv(p, r, y)
       PROVE  FoldInv(p, r \cup {t}, FoldStep(p, t, y))
  <2> DEFINE z == Send(y, t, TRUE, y.listening[t])
  <2>1. /\ Rewatches(open, y) /\ Typed(y) /\ t \in DOMAIN y.listening
        /\ Booked(y) /\ DOMAIN y.agg = r
    BY <1>5, <1>11 DEF Rewatches, FoldInv, BooksKept
  <2>2. y.listening[t] \in Versions /\ t \in Watched
    BY <1>7, <2>1, FieldTypes, PartialIs
  <2>3. Typed(z) /\ Only(z, y, {"agg", "requests", "idle"})
    BY <2>1, <2>2, SendTyped
  <2>4. FoldStep(p, t, y) = z
    BY DEF FoldStep
  <2>5. y.stream = "Open" /\ y.resets = {}
    BY <1>2, <1>5, <1>8, <2>1 DEF Rewatches, Only, Fields
  <2>6. Entry(y, t).outstanding = 0
    BY <2>1 DEF Entry, NewEntry
  <2>7. Due(y.incoming, y.requests, t) = 0
    BY <2>1, <2>2, <2>6, NothingDue DEF Booked
  <2>8. Booked(z) /\ ~z.idle /\ DOMAIN z.agg = r \cup {t}
    <3>1. PICK add \in BOOLEAN : add = TRUE
      OBVIOUS
    <3>2. \A u \in DOMAIN y.listening \ {t} :
             /\ InOrder(y.incoming, y.requests, u)
             /\ Entry(y, u).outstanding = 0 => Gotten(y, u)
      BY <2>1 DEF Booked, Ordered, Gathers
    <3>3. /\ Booked(Send(y, t, add, y.listening[t])) /\ ~Send(y, t, add, y.listening[t]).idle
          /\ DOMAIN Send(y, t, add, y.listening[t]).agg = DOMAIN y.agg \cup {t}
      BY <2>1, <2>2, <2>5, <2>7, <3>1, <3>2, SendBooks, Zenon DEF Booked
    <3> QED
      BY <2>1, <3>1, <3>3
  <2> HIDE DEF z
  <2>9. z.listening = y.listening
    BY <2>3 DEF Only, Fields
  <2>10. Rewatches(open, z)
    BY <2>1, <2>3, <2>9 DEF Rewatches, Only
  <2> QED
    BY <2>4, <2>8, <2>10 DEF FoldInv, BooksKept
<1> HIDE DEF S
<1>12. FoldInv(p, S, FoldedSet(p, open, S))
  BY <1>7, <1>10, <1>11, FoldKeeps
<1>13. Rewatches(open, client') /\ Booked(client') /\ DOMAIN client'.agg = S /\ ~client'.idle
  BY <1>1, <1>12 DEF FoldInv, BooksKept
<1>14. /\ client'.stream = "Open" /\ DOMAIN client'.listening = S
       /\ client'.limbo = client.limbo /\ client'.received = client.received
       /\ client'.on = client.on
  BY <1>2, <1>5, <1>13 DEF Rewatches, Only, Fields, S
<1>15. Wired(client')
  BY <1>13, <1>14 DEF Wired
<1>16. Runs(client')
  BY <1>13, <1>15 DEF Booked, Runs, Running, Flowing
<1>17. SameNames(client', client)
  BY <1>14 DEF SameNames, S
<1>18. Unread(client', client)
  BY <1>2, <1>5, <1>13 DEF Unread, Rewatches, Only, Fields
<1> QED
  BY <1>16, <1>17, <1>18, SameNamesSound, UnreadFresher DEF Solid, Sound

-----------------------------------------------------------------------------
(* What the program asks for. *)

\* A target that is watched anew has gathered nothing.
LEMMA NewlyWatched ==
    ASSUME NEW c, Typed(c), NEW t \in Watched, NEW token \in Versions,
           t \notin DOMAIN c.listening, t \notin DOMAIN c.agg
    PROVE  DOMAIN Entry(StartWatching(c, t, token), t).changes = {}
<1> DEFINE y == [c EXCEPT !.listening = With(@, t, token)]
           x == StartWatching(c, t, token)
<1>1. x = IF c.stream = "Open" THEN Send(y, t, TRUE, token) ELSE StartWatchStream(y)
  BY DEF StartWatching
<1>2. Only(y, c, {"listening"}) /\ y.listening = With(c.listening, t, token)
  BY DEF Only, Typed, Shape, Fields
<1> HIDE DEF x, y
<1>3. Typed(y)
  <2>1. c.listening \in Partial(Watched, Versions)
    BY FieldTypes
  <2>2. With(c.listening, t, token) \in Partial(Watched, Versions)
    BY <2>1, WithPartial
  <2> QED
    BY <1>2, <2>2, TypedOnly, ClientIs DEF Fields
<1>4. t \notin DOMAIN y.agg
  BY <1>2 DEF Only, Fields
<1>5. DOMAIN NewEntry.changes = {}
  BY PartialNone DEF NewEntry
<1>6. CASE c.stream = "Open"
  <2>1. x.agg = With(y.agg, t, [Entry(y, t) EXCEPT !.outstanding = @ + 1])
    BY <1>1, <1>3, <1>6, SendAdds
  <2>2. Entry(y, t) = NewEntry
    BY <1>4 DEF Entry
  <2>3. Entry(x, t) = [NewEntry EXCEPT !.outstanding = @ + 1]
    BY <2>1, <2>2 DEF Entry, With, Over
  <2> QED
    BY <1>5, <2>3 DEF NewEntry, x
<1>7. CASE c.stream # "Open"
  <2>1. x = StartWatchStream(y)
    BY <1>1, <1>7
  <2>2. t \notin DOMAIN x.agg
    <3> DEFINE z == [y EXCEPT !.stream = "Starting", !.agg = <<>>, !.updates = <<>>, !.resets = {}]
    <3>1. CASE ShouldStartWatchStream(y)
      <4>1. x = HandleWatchStreamStart(z)
        BY <2>1, <3>1 DEF StartWatchStream
      <4>2. x.agg = z.agg /\ z.agg = <<>>
        <5>1. Shape(z) /\ z["agg"] = <<>>
          BY <1>3 DEF Typed, Shape, Fields
        <5> HIDE DEF z
        <5>2. x["agg"] = z["agg"]
          BY <4>1, <5>1 DEF HandleWatchStreamStart, SetOnline, Require, Shape, Fields
        <5> QED
          BY <5>1, <5>2
      <4> QED
        BY <4>2, PartialNone
    <3>2. CASE ~ShouldStartWatchStream(y)
      BY <1>4, <2>1, <3>2 DEF StartWatchStream
    <3> QED
      BY <3>1, <3>2
  <2> QED
    BY <1>5, <2>2 DEF Entry, x
<1> QED
  BY <1>6, <1>7

\* Nobody hasty listens while an answer about the query is due.
LEMMA ListenSolid ==
    ASSUME World, Sound(client), NEW n, Fresher(client, n), ~Hasty, Listen
    PROVE  Solid(client', n)
<1> DEFINE watched == StartWatching(client, Query, client.token)
           start == Starting(watched, client)
           change == [added |-> {}, modified |-> {}, removed |-> {},
                      current |-> FALSE, token |-> client.token]
<1>1. client' = Emit(start, change)
  BY DEF Listen, Starting
<1>2. Typed(client) /\ client.token \in Versions /\ client.keys \in SUBSET Docs
  BY FieldTypes DEF World, Shown
<1>3. Query \in Watched /\ Query \notin DOMAIN client.agg
  BY DEF Watched, Listen
<1>4. ~client.on /\ Query \notin DOMAIN client.listening
  BY DEF Listen, Sound, Linked
<1>5. /\ Typed(watched) /\ DOMAIN watched.listening = DOMAIN client.listening \cup {Query}
      /\ Only(watched, client, {"listening", "agg", "requests", "idle", "online", "raised", "view",
                                "timer", "broken", "stream", "updates", "resets"})
  BY <1>2, <1>3, StartWatchingTyped
<1>6. Runs(watched)
  BY <1>2, <1>3, StartWatchingRuns DEF Sound
<1>7. DOMAIN Entry(watched, Query).changes = {}
  BY <1>2, <1>3, <1>4, NewlyWatched
<1> HIDE DEF watched
<1>8. Typed(start) /\ Only(start, watched, StartFields) /\ start.on = TRUE
  BY <1>2, <1>5, StartingTyped
<1> HIDE DEF start
<1>11. /\ start.listening = watched.listening /\ start.agg = watched.agg
       /\ start.requests = watched.requests /\ start.incoming = watched.incoming
       /\ start.resets = watched.resets /\ start.received = watched.received
       /\ start.limbo = watched.limbo /\ start.stream = watched.stream
       /\ start.idle = watched.idle /\ start.updates = watched.updates
       /\ start.serving = watched.serving /\ start.timer = watched.timer
       /\ start.failed = watched.failed /\ start.online = watched.online
       /\ start.broken = watched.broken
  BY <1>8 DEF Only, Fields, StartFields
<1>12. Runs(start)
  <2>1. \A u : Entry(start, u) = Entry(watched, u)
    BY <1>11 DEF Entry
  <2>2. Counted(start)
    BY <1>6, <1>11, <2>1 DEF Runs, Running, Flowing, Counted
  <2>3. Gathers(start)
    <3>1. ASSUME NEW u \in DOMAIN start.listening, Entry(start, u).outstanding = 0
          PROVE  Gotten(start, u)
      <4>1. CASE u = Query
        BY <1>7, <2>1, <4>1 DEF Gotten
      <4>2. CASE u # Query
        <5>1. RemoteKeys(start, u) = RemoteKeys(watched, u)
          BY <1>11, <4>2 DEF RemoteKeys
        <5> QED
          BY <1>6, <1>11, <2>1, <3>1, <5>1 DEF Runs, Running, Flowing, Gathers, Gotten
      <4> QED
        BY <4>1, <4>2
    <3> QED
      BY <3>1 DEF Gathers
  <2>4. /\ Wired(start) /\ Ordered(start) /\ Blocked(start) /\ Resetting(start)
        /\ Pressing(start) /\ Clock(start) /\ ~start.broken
    BY <1>6, <1>11 DEF Runs, Running, Flowing, Wired, Quiet, Ordered, Blocked, Resetting,
                       Pressing, Clock
  <2> QED
    BY <2>2, <2>3, <2>4 DEF Runs, Running, Flowing
<1>13. /\ start.limbo = client.limbo /\ start.received = client.received
       /\ DOMAIN start.listening = DOMAIN client.listening \cup {Query} /\ start.on = TRUE
  BY <1>5, <1>8, <1>11 DEF Only, Fields, StartFields
<1>14. LookedUp(start) /\ Linked(start)
  BY <1>13 DEF Sound, LookedUp, Linked
<1>15. Unread(start, client)
  BY <1>5, <1>8 DEF Unread, Only, Fields, StartFields
<1>16. /\ change \in ChangeType /\ change.modified = {}
       /\ change.added \cup change.removed = {}
  BY <1>2 DEF ChangeType
<1> HIDE DEF change
<1>17. Sound(Emit(start, change)) /\ Unread(Emit(start, change), start)
  BY <1>8, <1>12, <1>14, <1>16, EmitSound DEF Sound
<1> QED
  BY <1>1, <1>15, <1>17, UnreadTrans, UnreadFresher DEF Solid

\* The listener goes, and what is watched for it.
LEMMA StopListeningSolid ==
    ASSUME World, Sound(client), NEW n, Fresher(client, n), StopListening
    PROVE  Solid(client', n)
<1> DEFINE token == client.listening[Query]
           saved == Saving(client, token, client.limboFree)
           left == StopWatching(saved, Query)
<1>1. client' = Forget(left)
  BY DEF StopListening, Client, Saving
<1>2. Typed(client) /\ Query \in DOMAIN client.listening
  BY DEF World, Shown, StopListening
<1>3. token \in Versions /\ client.limboFree \in Versions
  BY <1>2, FieldTypes, PartialIs
<1>4. Query \in Watched
  BY DEF Watched
<1> HIDE DEF token
<1>5. Typed(saved) /\ Only(saved, client, {"token", "savedFree"})
  BY <1>2, <1>3, SavingTyped
<1> HIDE DEF saved
<1>6. SameState(saved, client) /\ Unread(saved, client) /\ saved.listening = client.listening
  BY <1>5 DEF SameState, SameBooks, Unread, Only, Fields
<1>7. Sound(saved)
  BY <1>6, SameStateSound
<1>8. /\ Typed(left) /\ left.listening = Without(saved.listening, Query)
      /\ Only(left, saved, {"listening", "broken", "agg", "requests", "idle", "online", "raised",
                            "view", "timer", "failed"})
  BY <1>4, <1>5, StopWatchingTyped
<1>9. Runs(left)
  BY <1>2, <1>4, <1>5, <1>6, <1>7, StopWatchingRuns DEF Sound
<1> HIDE DEF left
<1>10. /\ left.limbo = saved.limbo /\ left.received = saved.received
       /\ DOMAIN left.listening = DOMAIN saved.listening \ {Query}
  BY <1>8 DEF Only, Fields, Without, Restrict
<1>11. LookedUp(left)
  <2>1. \A d \in DOMAIN saved.limbo : saved.limbo[d] # Query
    BY <1>5, FieldTypes, PartialIs, LookupIs
  <2> QED
    BY <1>7, <1>10, <2>1 DEF Sound, LookedUp
<1>12. Unread(left, saved)
  BY <1>8 DEF Unread, Only, Fields
<1>13. Sound(Forget(left)) /\ Unread(Forget(left), left)
  BY <1>8, <1>9, <1>10, <1>11, ForgetSound
<1>14. Unread(left, client)
  BY <1>6, <1>12, UnreadTrans
<1> QED
  BY <1>1, <1>13, <1>14, UnreadTrans, UnreadFresher DEF Solid

\* What is emitted after the caches and the writes have changed keeps the books in order.
LEMMA EmittedSolid ==
    ASSUME World, Sound(client), NEW n, Fresher(client, n), \E x : Emitted(x)
    PROVE  Solid(client', n)
<1>1. PICK x : Emitted(x)
  OBVIOUS
<1>2. SameState(x, client) /\ Unread(x, client) /\ Typed(x)
  BY <1>1 DEF Emitted, SameState, SameBooks, Unread, Only, Fields
<1>3. Sound(x) /\ Fresher(x, n)
  BY <1>2, SameStateSound, UnreadFresher
<1>4. Sound(Emit(x, NoChange(x))) /\ Unread(Emit(x, NoChange(x)), x)
  BY <1>2, <1>3, EmitLocalSound
<1>5. Solid(Emit(x, NoChange(x)), n)
  BY <1>3, <1>4, UnreadFresher DEF Solid
<1>6. Shown(Emit(x, NoChange(x)))
  BY <1>1, EmitShown DEF Emitted, World
<1> QED
  BY <1>1, <1>5, <1>6, NotifySolid DEF Emitted

-----------------------------------------------------------------------------
(* The network comes and goes. *)

\* Writes whose answers are lost are sent again.
LEMMA UnansweredSound ==
    ASSUME World, Sound(client)
    PROVE  LET u == Unanswered(client)
           IN  Typed(u) /\ Sound(u) /\ Unread(u, client) /\ Only(u, client, {"writes"})
<1> DEFINE u == Unanswered(client)
<1>1. Typed(u)
  BY UnansweredShown DEF World, Shown
<1>2. Only(u, client, {"writes"})
  BY DEF Unanswered, World, Shown, Only, Typed, Shape, Fields
<1> HIDE DEF u
<1>3. SameState(u, client) /\ Unread(u, client)
  BY <1>2 DEF SameState, SameBooks, Unread, Only, Fields
<1> QED
  BY <1>1, <1>2, <1>3, SameStateSound DEF u

\* A stream that closes forgets its messages, and nothing else is told.
LEMMA CloseUnread ==
    ASSUME NEW c, Typed(c), NEW graceful
    PROVE  Unread(Close(c, graceful), c) /\ SameNames(Close(c, graceful), c)
<1> DEFINE closed == Closed(c)
           x == Close(c, graceful)
<1>1. x = IF ShouldStartWatchStream(closed)
          THEN Require(StartWatchStream(HandleWatchStreamFailure(closed)), ~graceful)
          ELSE UpdateState(closed, "Unknown")
  BY DEF Close, Closed
<1>2. /\ Typed(closed) /\ Quiet(closed)
  BY ClosedTyped
<1>3. /\ Only(x, c, {"stream", "idle", "agg", "updates", "resets", "requests", "incoming",
                    "serving", "online", "raised", "view", "timer", "failed", "broken"})
  BY CloseTyped
<1> HIDE DEF closed, x
<1>4. closed.incoming = <<>>
  BY <1>2 DEF Quiet
<1>5. CASE ShouldStartWatchStream(closed)
  <2> DEFINE y == HandleWatchStreamFailure(closed)
             z == StartWatchStream(y)
  <2>1. Typed(y) /\ y.incoming = closed.incoming
    BY <1>2, HandleWatchStreamFailureTyped DEF Only, Fields
  <2> HIDE DEF y
  <2>2. Typed(z) /\ z.incoming = y.incoming
    BY <2>1, StartWatchStreamTyped DEF Only, Fields
  <2>3. x = Require(z, ~graceful)
    BY <1>1, <1>5 DEF y
  <2> HIDE DEF z
  <2>4. Only(x, z, {"broken"})
    BY <2>2, <2>3, RequireTyped
  <2>5. x.incoming = z.incoming
    BY <2>4 DEF Only, Fields
  <2>6. x.incoming = <<>>
    BY <1>4, <2>1, <2>2, <2>5
  <2> QED
    BY <1>3, <2>6 DEF Unread, SameNames, Only, Fields, x
<1>6. CASE ~ShouldStartWatchStream(closed)
  <2>1. x = UpdateState(closed, "Unknown")
    BY <1>1, <1>6
  <2>2. Only(x, closed, {"online", "raised", "view", "timer", "failed"})
    BY <1>2, <2>1, UpdateStateTyped
  <2>3. x.incoming = <<>>
    BY <1>4, <2>2 DEF Only, Fields
  <2> QED
    BY <1>3, <2>3 DEF Unread, SameNames, Only, Fields, x
<1> QED
  BY <1>5, <1>6

\* The same of DisableNetwork, with the lookups and the listener, ...
LEMMA StopSound ==
    ASSUME NEW c, Typed(c), Sound(c)
    PROVE  Typed(Stop(c)) /\ Sound(Stop(c)) /\ Unread(Stop(c), c)
<1> DEFINE off == [c EXCEPT !.enabled = FALSE]
<1>1. Only(off, c, {"enabled"}) /\ off["enabled"] \in Client_["enabled"]
  BY ClientIs DEF Only, Typed, Shape, Fields
<1>2. Stop(c) = IF c.stream = "Initial" THEN off ELSE Close(off, TRUE)
  BY DEF Stop
<1> HIDE DEF off
<1>3. Typed(off) /\ Unread(off, c)
  BY <1>1, TypedOnly, UnreadOnly DEF Fields
<1>4. Unread(Close(off, TRUE), off)
  BY <1>3, CloseUnread
<1>5. Unread(Stop(c), c)
  BY <1>2, <1>3, <1>4, UnreadTrans
<1>6. Typed(Stop(c)) /\ Runs(Stop(c)) /\ SameNames(Stop(c), c)
  BY StopTyped, StopRuns DEF Sound
<1> QED
  BY <1>5, <1>6, SameNamesSound DEF Sound

\* ... of EnableNetwork, ...
LEMMA EnableSound ==
    ASSUME NEW c, Typed(c), Sound(c)
    PROVE  Typed(Enable(c)) /\ Sound(Enable(c)) /\ Unread(Enable(c), c)
<1> DEFINE on == [c EXCEPT !.enabled = TRUE]
           x == Enable(c)
<1>1. Only(on, c, {"enabled"}) /\ on["enabled"] \in Client_["enabled"]
  BY ClientIs DEF Only, Typed, Shape, Fields
<1>2. x \in {StartWatchStream(on), UpdateState(on, "Unknown")}
  BY DEF Enable
<1> HIDE DEF on, x
<1>3. Typed(on) /\ on.incoming = c.incoming /\ on.lastSnap = c.lastSnap
  <2>1. Typed(on)
    BY <1>1, TypedOnly DEF Fields
  <2>2. on.incoming = c.incoming /\ on.lastSnap = c.lastSnap
    BY <1>1 DEF Only, Fields
  <2> QED
    BY <2>1, <2>2
<1>4. x.incoming = on.incoming /\ x.lastSnap = on.lastSnap
  <2>1. CASE x = StartWatchStream(on)
    BY <1>3, <2>1, StartWatchStreamTyped DEF Only, Fields
  <2>2. CASE x = UpdateState(on, "Unknown")
    BY <1>3, <2>2, UpdateStateTyped, Zenon DEF Only, Fields
  <2> QED
    BY <1>2, <2>1, <2>2
<1>5. Typed(x) /\ Runs(x) /\ SameNames(x, c)
  BY EnableTyped, EnableRuns DEF Sound, x
<1>6. Sound(x) /\ Unread(x, c)
  BY <1>3, <1>4, <1>5, SameNamesSound DEF Sound, Unread
<1> QED
  BY <1>5, <1>6 DEF x

\* ... and of UpdateState.
LEMMA UpdateStateSound ==
    ASSUME NEW c, Typed(c), Sound(c), NEW state \in {"Unknown", "Online", "Offline"}
    PROVE  LET x == UpdateState(c, state) IN Typed(x) /\ Sound(x) /\ Unread(x, c)
<1> DEFINE x == UpdateState(c, state)
<1>1. SameBooks(x, c) /\ Clock(x) /\ x.broken = c.broken
  BY UpdateStateRuns
<1>2. Typed(x) /\ Only(x, c, {"online", "raised", "view", "timer", "failed"})
  BY UpdateStateTyped
<1> HIDE DEF x
<1>3. Runs(x)
  BY <1>1, SameBooksRun DEF Sound, Runs, Running
<1>4. SameNames(x, c) /\ Unread(x, c)
  BY <1>2 DEF SameNames, Unread, Only, Fields
<1> QED
  BY <1>2, <1>3, <1>4, SameNamesSound DEF Sound, x

\* The program takes the network away, ...
LEMMA DisableNetworkSolid ==
    ASSUME World, Sound(client), NEW n, Fresher(client, n), DisableNetwork
    PROVE  Solid(client', n)
<1> DEFINE u == Unanswered(client)
           y == Stop(u)
           x == UpdateState(y, "Offline")
<1>1. client' = x
  BY DEF DisableNetwork
<1>2. Typed(u) /\ Sound(u) /\ Unread(u, client)
  BY UnansweredSound
<1> HIDE DEF u
<1>3. Typed(y) /\ Sound(y) /\ Unread(y, u)
  BY <1>2, StopSound
<1> HIDE DEF y
<1>4. Sound(x) /\ Unread(x, y)
  BY <1>3, UpdateStateSound
<1> HIDE DEF x
<1> QED
  BY <1>1, <1>2, <1>3, <1>4, UnreadFresher DEF Solid

\* ... the network comes back as another, ...
LEMMA NetworkRestartsSolid ==
    ASSUME World, Sound(client), NEW n, Fresher(client, n), NetworkRestarts
    PROVE  Solid(client', n)
<1> DEFINE u == Unanswered(client)
           y == Stop(u)
           x == UpdateState(y, "Unknown")
<1>1. client' = Enable(x)
  BY DEF NetworkRestarts
<1>2. Typed(u) /\ Sound(u) /\ Unread(u, client)
  BY UnansweredSound
<1> HIDE DEF u
<1>3. Typed(y) /\ Sound(y) /\ Unread(y, u)
  BY <1>2, StopSound
<1> HIDE DEF y
<1>4. Typed(x) /\ Sound(x) /\ Unread(x, y)
  BY <1>3, UpdateStateSound
<1> HIDE DEF x
<1>5. Sound(Enable(x)) /\ Unread(Enable(x), x)
  BY <1>4, EnableSound
<1> QED
  BY <1>1, <1>2, <1>3, <1>4, <1>5, UnreadFresher DEF Solid

\* ... and the program allows it again.
LEMMA EnableNetworkSolid ==
    ASSUME World, Sound(client), NEW n, Fresher(client, n), EnableNetwork
    PROVE  Solid(client', n)
<1>1. client' = Enable(client)
  BY DEF EnableNetwork, Client
<1>2. Sound(Enable(client)) /\ Unread(Enable(client), client)
  BY EnableSound DEF World, Shown
<1> QED
  BY <1>1, <1>2, UnreadFresher DEF Solid

\* A process that starts watches nothing, and no stream is open.
LEMMA StartedSound ==
    ASSUME NEW x, Typed(x), Started(x), ~x.broken
    PROVE  Sound(x)
<1>1. Quiet(x) /\ x.stream # "Open"
  BY DEF Started, Quiet
<1>2. Flowing(x) /\ Pressing(x)
  BY <1>1, QuietFlows
<1>3. Clock(x)
  BY DEF Started, Clock
<1>4. DOMAIN x.limbo = {} /\ DOMAIN x.listening = {} /\ x.received = {} /\ ~x.on
  BY PartialNone DEF Started
<1>5. LookedUp(x) /\ Linked(x)
  BY <1>4 DEF LookedUp, Linked
<1> QED
  BY <1>2, <1>3, <1>5 DEF Sound, Runs, Running

\* A new process reads the disk.
LEMMA RestartSolid ==
    ASSUME World, Sound(client), NEW n, Fresher(client, n), Restart
    PROVE  Solid(client', n)
<1> DEFINE u == Unanswered(client)
           x == Fresh(u)
<1>1. client' = x
  BY DEF Restart
<1>2. Typed(u) /\ Sound(u) /\ Unread(u, client)
  BY UnansweredSound
<1> HIDE DEF u
<1>3. Typed(x)
  BY <1>2, FreshTyped
<1>4. Only(x, u, NothingKept) /\ Started(x)
  BY <1>2 DEF Fresh, Only, Typed, Shape, Fields, NothingKept, Started
<1> HIDE DEF x
<1>5. x.broken = u.broken /\ x.lastSnap = u.lastSnap /\ x.incoming = <<>>
  BY <1>4 DEF Only, Fields, NothingKept, Started
<1>6. Sound(x)
  BY <1>2, <1>3, <1>4, <1>5, StartedSound DEF Sound, Runs, Running
<1>7. Unread(x, u)
  BY <1>5 DEF Unread
<1> QED
  BY <1>1, <1>2, <1>6, <1>7, UnreadFresher DEF Solid

\* The stream is lost, ...
LEMMA StreamFailsSolid ==
    ASSUME World, Sound(client), NEW n, Fresher(client, n), StreamFails
    PROVE  Solid(client', n)
<1>1. PICK graceful : graceful = FALSE
  OBVIOUS
<1>2. client' = Close(client, graceful) /\ Typed(client)
  BY <1>1 DEF StreamFails, World, Shown
<1>3. Runs(client')
  BY <1>1, <1>2, CloseRuns DEF Sound, Runs, Running
<1>4. Unread(client', client) /\ SameNames(client', client)
  BY <1>2, CloseUnread
<1> QED
  BY <1>3, <1>4, SameNamesSound, UnreadFresher DEF Solid, Sound

\* ... or closed when nothing was watched for a while.
LEMMA IdleTimeoutSolid ==
    ASSUME World, Sound(client), NEW n, Fresher(client, n), IdleTimeout
    PROVE  Solid(client', n)
<1>1. client' = Close(client, TRUE) /\ Typed(client) /\ client.idle
  BY DEF IdleTimeout, Client, World, Shown
<1>2. DOMAIN client.listening = {}
  BY <1>1 DEF Sound, Runs, Running, Flowing, Wired
<1>3. Runs(client')
  BY <1>1, <1>2, CloseRuns DEF Sound, Runs, Running
<1>4. Unread(client', client) /\ SameNames(client', client)
  BY <1>1, CloseUnread
<1> QED
  BY <1>3, <1>4, SameNamesSound, UnreadFresher DEF Solid, Sound

\* The timer runs only while the client is not known to be online or offline.
LEMMA OnlineTimeoutSolid ==
    ASSUME World, Sound(client), NEW n, Fresher(client, n), OnlineTimeout
    PROVE  Solid(client', n)
<1> DEFINE y == [client EXCEPT !.timer = FALSE]
           z == SetOnline(y, "Offline")
           x == Require(z, client.online = "Unknown")
<1>1. client' = x /\ client.online = "Unknown"
  BY DEF OnlineTimeout, Client, Sound, Runs, Running, Clock
<1>2. /\ Typed(client) /\ Only(y, client, {"timer"})
      /\ y["timer"] = FALSE /\ y["timer"] \in Client_["timer"]
  BY ClientIs DEF World, Shown, Only, Typed, Shape, Fields
<1> HIDE DEF y
<1>3. Typed(y)
  BY <1>2, TypedOnly DEF Fields
<1>4. /\ Typed(z) /\ Only(z, y, {"online", "raised", "view"})
      /\ z.view.synced = y.view.synced /\ z.online = "Offline"
  BY <1>3, SetOnlineTyped
<1> HIDE DEF z
<1>5. Typed(x) /\ Only(x, z, {"broken"})
  BY <1>4, RequireTyped
<1>6. ~x.broken
  <2>1. x.broken = (z.broken \/ ~(client.online = "Unknown"))
    BY <1>4 DEF Require, Typed, Shape, Fields
  <2>2. z.broken = client.broken
    BY <1>2, <1>4 DEF Only, Fields
  <2>3. ~client.broken
    BY DEF Sound, Runs, Running
  <2>4. ~z.broken
    BY <2>2, <2>3
  <2> QED
    BY <1>1, <2>1, <2>4
<1> HIDE DEF x
<1>7. /\ SameBooks(x, client) /\ SameNames(x, client) /\ Unread(x, client)
      /\ x.online = "Offline" /\ x.timer = FALSE
  BY <1>2, <1>4, <1>5 DEF SameBooks, SameNames, Unread, Only, Fields
<1>8. Clock(x)
  BY <1>7 DEF Clock
<1>9. Runs(x)
  BY <1>6, <1>7, <1>8, SameBooksRun DEF Sound, Runs, Running
<1> QED
  BY <1>1, <1>7, <1>9, SameNamesSound, UnreadFresher DEF Solid, Sound

-----------------------------------------------------------------------------
(* The server. *)

\* More messages, and requests that are answered by them.
LEMMA MessagesSound ==
    ASSUME World, Sound(client), client.stream = "Open", NEW m \in Seq(Message), m # <<>>,
           NEW x, Only(x, client, {"requests", "incoming", "serving"}),
           x.incoming = client.incoming \o m,
           \A u : /\ Due(x.incoming, x.requests, u) = Due(client.incoming, client.requests, u)
                  /\ InOrder(client.incoming, client.requests, u)
                       => InOrder(x.incoming, x.requests, u),
           \A i \in DOMAIN m : m[i].kind = "filter"
                                 => Reports(x.incoming, Len(client.incoming) + i)
    PROVE  Sound(x)
<1>1. /\ x.agg = client.agg /\ x.listening = client.listening /\ x.resets = client.resets
      /\ x.received = client.received /\ x.on = client.on /\ x.view = client.view
      /\ x.stream = client.stream /\ x.idle = client.idle /\ x.limbo = client.limbo
      /\ x.timer = client.timer /\ x.failed = client.failed /\ x.online = client.online
      /\ x.broken = client.broken
  BY DEF Only, Fields
<1>2. client.incoming \in Seq(Message)
  BY ServerKnows
<1>3. \A u : Entry(x, u) = Entry(client, u) /\ RemoteKeys(x, u) = RemoteKeys(client, u)
  BY <1>1 DEF Entry, RemoteKeys
<1>4. Wired(x) /\ Clock(x) /\ ~x.broken
  BY <1>1 DEF Sound, Runs, Running, Flowing, Wired, Clock
<1>5. Counted(x) /\ Ordered(x) /\ Resetting(x)
  BY <1>1, <1>3 DEF Sound, Runs, Running, Flowing, Counted, Ordered, Resetting
<1>6. Gathers(x)
  BY <1>1, <1>3 DEF Sound, Runs, Running, Flowing, Gathers, Gotten
<1>7. Blocked(x)
  BY <1>2, BlocksMore DEF Sound, Runs, Running, Flowing
<1>8. Pressing(x)
  <2>1. ASSUME x.resets # {} PROVE x.incoming # <<>> /\ Reports(x.incoming, 1)
    <3>1. Reports(client.incoming, 1)
      BY <1>1, <2>1 DEF Sound, Runs, Pressing
    <3>2. Reports(client.incoming \o m, 1)
      BY <1>2, <3>1, ReportsMore
    <3>3. client.incoming \o m # <<>>
      BY <1>2
    <3> QED
      BY <3>2, <3>3
  <2> QED
    BY <2>1 DEF Pressing
<1>9. LookedUp(x) /\ Linked(x)
  BY <1>1 DEF Sound, LookedUp, Linked
<1> QED
  BY <1>4, <1>5, <1>6, <1>7, <1>8, <1>9 DEF Sound, Runs, Running, Flowing

\* Where the messages of a longer list are.
LEMMA LongerList ==
    ASSUME NEW D, NEW s \in Seq(D), NEW m \in Seq(D), NEW i \in DOMAIN (s \o m)
    PROVE  \/ i \in DOMAIN s /\ (s \o m)[i] = s[i]
           \/ i - Len(s) \in DOMAIN m /\ (s \o m)[i] = m[i - Len(s)]
OBVIOUS

\* A message that is not a snapshot.
LEMMA MessageFresher ==
    ASSUME World, NEW n, Fresher(client, n), NEW m \in Message, m.kind # "snapshot",
           NEW x, x.lastSnap = client.lastSnap, x.incoming = client.incoming \o <<m>>
    PROVE  Fresher(x, n)
<1> DEFINE s == client.incoming
<1>1. s \in Seq(Message) /\ <<m>> \in Seq(Message)
  BY ServerKnows
<1>2. x.incoming = s \o <<m>>
  OBVIOUS
<1>3. /\ client.lastSnap <= n
      /\ \A i \in DOMAIN s : s[i].kind = "snapshot" =>
            /\ client.lastSnap <= s[i].version /\ s[i].version <= n
            /\ \A j \in DOMAIN s : s[j].kind = "snapshot" => i = j
  BY DEF Fresher
<1> HIDE DEF s
<1>4. ASSUME NEW i \in DOMAIN x.incoming, x.incoming[i].kind = "snapshot"
      PROVE  i \in DOMAIN s /\ x.incoming[i] = s[i]
  <2>1. \A k \in DOMAIN <<m>> : <<m>>[k] = m
    OBVIOUS
  <2> QED
    BY <1>1, <1>2, <1>4, <2>1, LongerList
<1> QED
  BY <1>3, <1>4 DEF Fresher

\* One more message is a list of one at the end.
LEMMA OneMore ==
    ASSUME NEW D, NEW s \in Seq(D), NEW m \in D
    PROVE  Append(s, m) = s \o <<m>>
OBVIOUS

\* The server answers the first request.
LEMMA AnsweredSolid ==
    ASSUME World, Sound(client), NEW n, Fresher(client, n), client.requests # <<>>,
           NEW kind \in {"added", "removed", "error"},
           kind \in {"added", "error"} <=> Head(client.requests).add,
           NEW x, Only(x, client, {"requests", "incoming", "serving"}),
           x.requests = Tail(client.requests),
           x.incoming = Append(client.incoming, About(Head(client.requests).target, kind))
    PROVE  Solid(x, n)
<1> DEFINE r == Head(client.requests)
           m == About(r.target, kind)
           in == client.incoming
           out == client.requests
<1>1. in \in Seq(Message) /\ out \in Seq(RequestType) /\ out # <<>>
  BY ServerKnows
<1>2. r = Head(out) /\ r \in RequestType
  BY <1>1
<1>3. x.incoming = Append(in, m) /\ x.requests = Tail(out) /\ (kind \in {"added", "error"} <=> r.add)
  OBVIOUS
<1>4. client.stream = "Open"
  BY DEF Sound, Runs, Running, Flowing, Wired, Quiet
<1> HIDE DEF r, in, out
<1>5. r.target \in Watched
  BY <1>2 DEF RequestType
<1>6. /\ m \in Message /\ m.kind = kind /\ m \in Answers(r.target)
      /\ m \in Closing(r.target) <=> r.add
  <2>1. m \in Message
    BY <1>5, AboutTyped
  <2>2. m.kind = kind /\ m \in Answers(r.target)
    BY DEF About, Answers
  <2>3. m \in Closing(r.target) <=> kind \in {"added", "error"}
    BY DEF About, Closing
  <2> QED
    BY <1>3, <2>1, <2>2, <2>3
<1> HIDE DEF m
<1>7. \A u : /\ Due(Append(in, m), Tail(out), u) = Due(in, out, u)
             /\ InOrder(in, out, u) => InOrder(Append(in, m), Tail(out), u)
  BY <1>1, <1>2, <1>6, RequestAnswered
<1>8. x.incoming = in \o <<m>>
  <2>1. m \in Message /\ in \in Seq(Message)
    BY <1>1, <1>6
  <2>2. Append(in, m) = in \o <<m>>
    BY <2>1, OneMore
  <2> QED
    BY <1>3, <2>2
<1>9. <<m>> \in Seq(Message) /\ <<m>> # <<>> /\ \A i \in DOMAIN <<m>> : <<m>>[i].kind # "filter"
  BY <1>6
<1>10. Sound(x)
  <2>1. \A u : /\ Due(x.incoming, x.requests, u) = Due(in, out, u)
               /\ InOrder(in, out, u) => InOrder(x.incoming, x.requests, u)
    BY <1>3, <1>7
  <2> QED
    BY <1>4, <1>8, <1>9, <2>1, MessagesSound DEF in, out
<1>11. x.lastSnap = client.lastSnap
  BY DEF Only, Fields
<1>12. Fresher(x, n)
  BY <1>6, <1>8, <1>11, MessageFresher DEF in
<1> QED
  BY <1>10, <1>12 DEF Solid

\* The server adds the target it is asked for, ...
LEMMA ServerAddsSolid ==
    ASSUME World, Sound(client), NEW n, Fresher(client, n), ServerAdds
    PROVE  Solid(client', n)
<1> DEFINE r == Head(client.requests)
           requests == Tail(client.requests)
           incoming == Append(client.incoming, About(r.target, "added"))
           serving == With(client.serving, r.target, [at |-> r.token, fresh |-> TRUE])
           x == [client EXCEPT !.requests = requests, !.incoming = incoming, !.serving = serving]
<1>1. client' = x /\ client.requests # <<>> /\ r.add
  BY DEF ServerAdds, Reads
<1>2. Shape(client)
  BY ServerKnows
<1>3. requests = Tail(client.requests) /\ incoming = Append(client.incoming, About(r.target, "added"))
  OBVIOUS
<1> HIDE DEF requests, incoming, serving
<1>4. /\ Only(x, client, {"requests", "incoming", "serving"})
      /\ x["requests"] = requests /\ x["incoming"] = incoming
  BY <1>2 DEF Only, Shape, Fields
<1> HIDE DEF x
<1> QED
  BY <1>1, <1>3, <1>4, AnsweredSolid

\* ... removes it, ...
LEMMA ServerRemovesSolid ==
    ASSUME World, Sound(client), NEW n, Fresher(client, n), ServerRemoves
    PROVE  Solid(client', n)
<1> DEFINE r == Head(client.requests)
           requests == Tail(client.requests)
           incoming == Append(client.incoming, About(r.target, "removed"))
           serving == Without(client.serving, r.target)
           x == [client EXCEPT !.requests = requests, !.incoming = incoming, !.serving = serving]
<1>1. client' = x /\ client.requests # <<>> /\ ~r.add
  BY DEF ServerRemoves, Reads
<1>2. Shape(client)
  BY ServerKnows
<1>3. requests = Tail(client.requests) /\ incoming = Append(client.incoming, About(r.target, "removed"))
  OBVIOUS
<1> HIDE DEF requests, incoming, serving
<1>4. /\ Only(x, client, {"requests", "incoming", "serving"})
      /\ x["requests"] = requests /\ x["incoming"] = incoming
  BY <1>2 DEF Only, Shape, Fields
<1> HIDE DEF x
<1> QED
  BY <1>1, <1>3, <1>4, AnsweredSolid

\* ... refuses it, ...
LEMMA ServerRefusesSolid ==
    ASSUME World, Sound(client), NEW n, Fresher(client, n), ServerRefuses
    PROVE  Solid(client', n)
<1> DEFINE r == Head(client.requests)
           requests == Tail(client.requests)
           incoming == Append(client.incoming, About(r.target, "error"))
           x == [client EXCEPT !.requests = requests, !.incoming = incoming]
<1>1. client' = x /\ client.requests # <<>> /\ r.add
  BY DEF ServerRefuses, Reads
<1>2. Shape(client)
  BY ServerKnows
<1>3. requests = Tail(client.requests) /\ incoming = Append(client.incoming, About(r.target, "error"))
  OBVIOUS
<1> HIDE DEF requests, incoming
<1>4. /\ Only(x, client, {"requests", "incoming", "serving"})
      /\ x["requests"] = requests /\ x["incoming"] = incoming
  BY <1>2 DEF Only, Shape, Fields
<1> HIDE DEF x
<1> QED
  BY <1>1, <1>3, <1>4, AnsweredSolid

\* ... or starts over with one it serves.
LEMMA ServerResetsSolid ==
    ASSUME World, Sound(client), NEW n, Fresher(client, n), NEW t \in DOMAIN client.serving,
           ServerResets(t)
    PROVE  Solid(client', n)
<1> DEFINE m == About(t, "reset")
           incoming == client.incoming \o <<m>>
           serving == [client.serving EXCEPT ![t] = [at |-> 0, fresh |-> TRUE]]
           x == [client EXCEPT !.incoming = incoming, !.serving = serving]
<1>1. client' = x
  BY DEF ServerResets, Told
<1>2. Shape(client) /\ client.incoming \in Seq(Message)
  BY ServerKnows
<1>3. t \in Watched
  BY ServingIs
<1>4. m \in Message /\ m.kind = "reset"
  <2>1. m \in Message
    BY <1>3, AboutTyped
  <2> QED
    BY <2>1 DEF About
<1>5. client.stream = "Open"
  <2>1. client.serving # <<>>
    BY PartialNone
  <2> QED
    BY <2>1 DEF Sound, Runs, Running, Flowing, Wired, Quiet
<1>6. incoming = client.incoming \o <<m>>
  OBVIOUS
<1> HIDE DEF m, incoming, serving
<1>7. /\ Only(x, client, {"requests", "incoming", "serving"})
      /\ x["incoming"] = incoming /\ x["requests"] = client.requests
  BY <1>2 DEF Only, Shape, Fields
<1> HIDE DEF x
<1>8. /\ <<m>> \in Seq(Message) /\ <<m>> # <<>>
      /\ \A i \in DOMAIN <<m>> : <<m>>[i].kind = "reset"
  BY <1>4
<1>9. \A i \in DOMAIN <<m>> : <<m>>[i].kind # "filter" /\ \A u : <<m>>[i] \notin Answers(u)
  BY <1>8 DEF Answers
<1>10. Sound(x)
  <2>1. \A u : /\ Due(incoming, client.requests, u) = Due(client.incoming, client.requests, u)
               /\ InOrder(client.incoming, client.requests, u)
                    => InOrder(incoming, client.requests, u)
    <3> DEFINE in == client.incoming
               out == client.requests
               add == <<m>>
    <3>1. in \in Seq(Message) /\ add \in Seq(Message) /\ \A i \in DOMAIN add : \A u : add[i] \notin Answers(u)
      BY <1>2, <1>8, <1>9
    <3>2. incoming = in \o add
      BY <1>6
    <3> HIDE DEF in, out, add
    <3>3. \A u : /\ Due(in \o add, out, u) = Due(in, out, u)
                 /\ InOrder(in, out, u) => InOrder(in \o add, out, u)
      BY <3>1, NewsTold
    <3> QED
      BY <3>2, <3>3 DEF in, out
  <2> QED
    BY <1>5, <1>6, <1>7, <1>8, <1>9, <2>1, MessagesSound
<1>11. Fresher(x, n)
  BY <1>4, <1>6, <1>7, MessageFresher DEF Only, Fields
<1> QED
  BY <1>1, <1>10, <1>11 DEF Solid

\* What a consistent snapshot says before it ends.
Body == {m \in Message : m.kind \in {"document", "filter", "current"}}
SnapshotAt(version) == [kind |-> "snapshot", about |-> {}, version |-> version]

\* What the server tells is a list of news and a snapshot, and there is no other snapshot.
LEMMA TellingIs ==
    ASSUME World, NEW how \in {"named", "bare", "filter"}, ServerTells(how)
    PROVE  /\ log' = log /\ client.serving # <<>>
           /\ \A i \in DOMAIN client.incoming : client.incoming[i].kind # "snapshot"
           /\ \E body \in Seq(Body) : \E serving \in ServingType :
                 Told(body \o <<SnapshotAt(Len(log))>>, serving)
<1> DEFINE S == DOMAIN client.serving
           resumed == {t \in S : client.serving[t].fresh /\ client.serving[t].at > 0}
           news == {d \in Docs : Uninformed(d) # {}}
           gone == {d \in news : StateAt(d, Len(log)) = Missing}
           named == IF how = "filter" THEN news \ gone ELSE news
           filters == IF how = "filter" THEN resumed ELSE {}
           fresh == {t \in S : client.serving[t].fresh}
           documents == {DocumentNews(d, how = "bare") : d \in named}
           counts == {[kind |-> "filter", about |-> {t}, count |-> Count(t)] : t \in filters}
           currents == {About(t, "current") : t \in fresh}
           body == SetToSeq(documents) \o SetToSeq(counts) \o SetToSeq(currents)
           serving == [t \in S |-> [at |-> Len(log), fresh |-> FALSE]]
<1>1. /\ Told(body \o <<SnapshotAt(Len(log))>>, serving) /\ log' = log
      /\ \A i \in DOMAIN client.incoming : client.incoming[i].kind # "snapshot"
  BY DEF ServerTells, SnapshotAt
<1>2. client.serving # <<>>
  <2>1. S # {}
    BY DEF ServerTells, Unserved
  <2>2. DOMAIN <<>> = {}
    OBVIOUS
  <2> QED
    BY <2>1, <2>2
<1>3. S \subseteq Watched /\ IsFiniteSet(S)
  BY ServingIs
<1>4. Len(log) \in Versions
  BY DEF World, LogType, Versions
<1>5. serving \in ServingType
  <2>1. serving \in [S -> [at : Versions, fresh : BOOLEAN]]
    BY <1>4
  <2> HIDE DEF serving, S
  <2> QED
    BY <1>3, <2>1, PartialOf DEF ServingType
<1> HIDE DEF serving
<1>6. SetToSeq(documents) \in Seq(Body)
  <2>1. named \subseteq Docs /\ IsFiniteSet(named)
    BY DocsAssumption, FS_Subset
  <2> HIDE DEF named
  <2>2. \A d \in named : DocumentNews(d, how = "bare") \in Body
    BY <2>1, DocumentNewsTyped DEF Body, DocumentNews
  <2>3. IsFiniteSet(documents)
    <3> DEFINE f == [d \in named |-> DocumentNews(d, how = "bare")]
    <3>1. DOMAIN f = named /\ documents = {f[x] : x \in DOMAIN f}
      OBVIOUS
    <3> HIDE DEF f, documents
    <3> QED
      BY <2>1, <3>1, ImageFinite
  <2> QED
    BY <2>2, <2>3, SetToSeqIs
<1>7. SetToSeq(counts) \in Seq(Body)
  <2>1. filters \subseteq S /\ IsFiniteSet(filters)
    BY <1>3, FS_Subset
  <2> HIDE DEF filters
  <2>2. ASSUME NEW t \in filters
        PROVE  [kind |-> "filter", about |-> {t}, count |-> Count(t)] \in Body
    <3>1. t \in Watched /\ t.docs \subseteq Docs
      BY <1>3, <2>1, RemoteKeysTyped DEF Watched, Query, Lookup
    <3>2. IsFiniteSet({d \in t.docs : StateAt(d, Len(log)) # Missing})
      BY <3>1, DocsAssumption, FS_Subset
    <3>3. Count(t) \in Nat
      BY <3>2, FS_CardinalityType DEF Count
    <3> QED
      BY <3>1, <3>3 DEF Body, Message, Filter
  <2>3. IsFiniteSet(counts)
    <3> DEFINE f == [t \in filters |-> [kind |-> "filter", about |-> {t}, count |-> Count(t)]]
    <3>1. DOMAIN f = filters /\ counts = {f[x] : x \in DOMAIN f}
      OBVIOUS
    <3> HIDE DEF f, counts
    <3> QED
      BY <2>1, <3>1, ImageFinite
  <2> QED
    BY <2>2, <2>3, SetToSeqIs
<1>8. SetToSeq(currents) \in Seq(Body)
  <2>1. fresh \subseteq S /\ IsFiniteSet(fresh)
    BY <1>3, FS_Subset
  <2> HIDE DEF fresh
  <2>2. \A t \in fresh : About(t, "current") \in Body
    BY <1>3, <2>1, AboutTyped DEF Body, About
  <2>3. IsFiniteSet(currents)
    <3> DEFINE f == [t \in fresh |-> About(t, "current")]
    <3>1. DOMAIN f = fresh /\ currents = {f[x] : x \in DOMAIN f}
      OBVIOUS
    <3> HIDE DEF f, currents
    <3> QED
      BY <2>1, <3>1, ImageFinite
  <2> QED
    BY <2>2, <2>3, SetToSeqIs
<1> HIDE DEF documents, counts, currents
<1>9. body \in Seq(Body)
  BY <1>6, <1>7, <1>8
<1> HIDE DEF body
<1> QED
  BY <1>1, <1>2, <1>5, <1>9

\* A body and its snapshot.
LEMMA TellingTyped ==
    ASSUME NEW version \in Versions, NEW body \in Seq(Body)
    PROVE  LET m == body \o <<SnapshotAt(version)>>
           IN  /\ m \in Seq(Message) /\ m # <<>> /\ Len(m) = Len(body) + 1 /\ Len(body) \in Nat
               /\ \A i \in DOMAIN m : m[i].kind \in Telling
               /\ \A i \in DOMAIN m : m[i].kind = "snapshot" => i = Len(m)
               /\ m[Len(m)] = SnapshotAt(version)
<1> DEFINE m == body \o <<SnapshotAt(version)>>
           s == SnapshotAt(version)
<1>1. s \in Message /\ s.kind = "snapshot"
  BY DEF SnapshotAt, Message, Snapshot
<1>2. \A b \in Body : b \in Message /\ b.kind \in {"document", "filter", "current"}
  BY DEF Body
<1> HIDE DEF s
<1>3. body \in Seq(Message)
  BY <1>2
<1>4. m = body \o <<s>>
  BY DEF s
<1> HIDE DEF m
<1>5. /\ m \in Seq(Message) /\ Len(m) = Len(body) + 1 /\ Len(body) \in Nat
      /\ m[Len(m)] = s
      /\ \A i \in 1..Len(body) : m[i] = body[i] /\ body[i] \in Body
  BY <1>1, <1>3, <1>4
<1>6. DOMAIN m = 1..Len(m) /\ m # <<>>
  BY <1>5
<1>7. ASSUME NEW i \in DOMAIN m
      PROVE  m[i].kind \in Telling /\ (m[i].kind = "snapshot" => i = Len(m))
  <2>1. CASE i = Len(m)
    BY <1>1, <1>5, <2>1 DEF Telling
  <2>2. CASE i # Len(m)
    <3>1. i \in 1..Len(body)
      BY <1>5, <1>6, <2>2
    <3>2. m[i].kind \in {"document", "filter", "current"}
      BY <1>2, <1>5, <3>1
    <3> QED
      BY <3>2 DEF Telling
  <2> QED
    BY <2>1, <2>2
<1> QED
  BY <1>5, <1>6, <1>7 DEF m, s

\* What it tells leads to its snapshot.
LEMMA TellingReports ==
    ASSUME NEW s \in Seq(Message), NEW m \in Seq(Message), m # <<>>,
           \A i \in DOMAIN m : m[i].kind \in Telling, m[Len(m)].kind = "snapshot",
           NEW i \in DOMAIN m
    PROVE  Reports(s \o m, Len(s) + i)
<1> DEFINE in == s \o m
           k == Len(s) + Len(m)
<1>1. /\ Len(in) = k /\ Len(s) \in Nat /\ Len(m) \in Nat /\ DOMAIN in = 1..k /\ DOMAIN m = 1..Len(m)
      /\ i \in 1..Len(m) /\ 1 <= Len(m)
  OBVIOUS
<1>2. \A j \in 1..Len(m) : in[Len(s) + j] = m[j]
  OBVIOUS
<1> HIDE DEF in
<1>3. k \in DOMAIN in /\ Len(s) + i <= k /\ in[k].kind = "snapshot"
  BY <1>1, <1>2
<1>4. ASSUME NEW j \in (Len(s) + i)..k PROVE in[j].kind \in Telling
  <2>1. j - Len(s) \in 1..Len(m) /\ j = Len(s) + (j - Len(s))
    BY <1>1
  <2>2. in[j] = m[j - Len(s)]
    BY <1>2, <2>1
  <2> QED
    BY <1>1, <2>1, <2>2
<1> QED
  BY <1>3, <1>4 DEF Reports, in

\* A snapshot at the last version, when there is no other.
LEMMA SnapshotFresher ==
    ASSUME World, NEW n \in Nat, Fresher(client, n),
           \A i \in DOMAIN client.incoming : client.incoming[i].kind # "snapshot",
           NEW m \in Seq(Message), \A i \in DOMAIN m : m[i].kind = "snapshot" => i = Len(m),
           m[Len(m)] = SnapshotAt(n),
           NEW x, x.lastSnap = client.lastSnap, x.incoming = client.incoming \o m
    PROVE  Fresher(x, n)
<1> DEFINE s == client.incoming
<1>1. s \in Seq(Message)
  BY ServerKnows
<1>2. x.incoming = s \o m /\ (\A i \in DOMAIN s : s[i].kind # "snapshot") /\ client.lastSnap <= n
  BY DEF Fresher
<1> HIDE DEF s
<1>3. ASSUME NEW i \in DOMAIN x.incoming, x.incoming[i].kind = "snapshot"
      PROVE  i = Len(s) + Len(m) /\ x.incoming[i] = SnapshotAt(n)
  <2>1. i - Len(s) \in DOMAIN m /\ x.incoming[i] = m[i - Len(s)]
    BY <1>1, <1>2, <1>3, LongerList
  <2>2. i - Len(s) = Len(m)
    BY <1>3, <2>1
  <2>3. i \in Int /\ Len(s) \in Int /\ Len(m) \in Int
    BY <1>1, <1>2
  <2>4. i = Len(s) + Len(m)
    <3>1. \A a, b, k \in Int : a - b = k => a = b + k
      OBVIOUS
    <3> QED
      BY <2>2, <2>3, <3>1, Zenon
  <2>5. x.incoming[i] = SnapshotAt(n)
    BY <2>1, <2>2
  <2> QED
    BY <2>4, <2>5
<1>4. SnapshotAt(n).version = n
  BY DEF SnapshotAt
<1> QED
  BY <1>2, <1>3, <1>4 DEF Fresher

\* The server tells up to a snapshot.
LEMMA ServerTellsSolid ==
    ASSUME World, Sound(client), Fresher(client, Len(log)),
           NEW how \in {"named", "bare", "filter"}, ServerTells(how)
    PROVE  Solid(client', Len(log))
<1>1. /\ client.serving # <<>>
      /\ \A i \in DOMAIN client.incoming : client.incoming[i].kind # "snapshot"
  BY TellingIs
<1>2. PICK body \in Seq(Body) : \E served \in ServingType :
         Told(body \o <<SnapshotAt(Len(log))>>, served)
  BY TellingIs
<1>3. PICK serving \in ServingType : Told(body \o <<SnapshotAt(Len(log))>>, serving)
  BY <1>2
<1> DEFINE n == Len(log)
           m == body \o <<SnapshotAt(n)>>
           incoming == client.incoming \o m
           x == [client EXCEPT !.incoming = incoming, !.serving = serving]
<1>4. client' = x
  BY <1>3 DEF Told
<1>5. Shape(client) /\ client.incoming \in Seq(Message)
  BY ServerKnows
<1>6. n \in Versions /\ n \in Nat
  BY DEF World, LogType, Versions
<1>7. client.stream = "Open"
  BY <1>1 DEF Sound, Runs, Running, Flowing, Wired, Quiet
<1> HIDE DEF n
<1>8. /\ m \in Seq(Message) /\ m # <<>>
      /\ \A i \in DOMAIN m : m[i].kind \in Telling
      /\ \A i \in DOMAIN m : m[i].kind = "snapshot" => i = Len(m)
      /\ m[Len(m)] = SnapshotAt(n)
  BY <1>6, TellingTyped
<1>9. incoming = client.incoming \o m
  OBVIOUS
<1> HIDE DEF m, incoming
<1>10. /\ Only(x, client, {"requests", "incoming", "serving"})
       /\ x["incoming"] = incoming /\ x["requests"] = client.requests
  BY <1>5 DEF Only, Shape, Fields
<1> HIDE DEF x
<1>11. Sound(x)
  <2>1. \A i \in DOMAIN m : \A u : m[i] \notin Answers(u)
    BY <1>8 DEF Answers, Telling
  <2>2. \A u : /\ Due(incoming, client.requests, u) = Due(client.incoming, client.requests, u)
               /\ InOrder(client.incoming, client.requests, u)
                    => InOrder(incoming, client.requests, u)
    <3> DEFINE in == client.incoming
               out == client.requests
    <3>1. in \in Seq(Message) /\ incoming = in \o m
      BY <1>5, <1>9
    <3> HIDE DEF in, out
    <3>2. \A u : /\ Due(in \o m, out, u) = Due(in, out, u)
                 /\ InOrder(in, out, u) => InOrder(in \o m, out, u)
      BY <1>8, <2>1, <3>1, NewsTold
    <3> QED
      BY <3>1, <3>2 DEF in, out
  <2>3. SnapshotAt(n).kind = "snapshot"
    BY DEF SnapshotAt
  <2>4. \A i \in DOMAIN m : Reports(incoming, Len(client.incoming) + i)
    BY <1>5, <1>8, <1>9, <2>3, TellingReports, Zenon
  <2> QED
    BY <1>7, <1>8, <1>9, <1>10, <2>2, <2>4, MessagesSound
<1>12. Fresher(x, n)
  <2>1. x.lastSnap = client.lastSnap
    BY <1>10 DEF Only, Fields
  <2>2. Fresher(client, n)
    BY DEF n
  <2> QED
    BY <1>1, <1>6, <1>8, <1>9, <1>10, <2>1, <2>2, SnapshotFresher
<1> QED
  BY <1>4, <1>11, <1>12 DEF Solid, n

\* The log grows, or a write is answered.
LEMMA FresherLater ==
    ASSUME World, NEW n \in Nat, Fresher(client, n), NEW k \in Nat, n <= k
    PROVE  Fresher(client, k)
<1>1. client.lastSnap \in Nat /\ client.incoming \in Seq(Message)
  BY FieldTypes, ZeroVersion DEF World, Shown
<1>2. client.lastSnap <= n
  BY DEF Fresher
<1>3. ASSUME NEW i \in DOMAIN client.incoming, client.incoming[i].kind = "snapshot"
      PROVE  client.incoming[i].version <= k
  <2>1. client.incoming[i] \in Message /\ client.incoming[i].version <= n
    BY <1>1, <1>3 DEF Fresher
  <2>2. client.incoming[i].version \in Nat
    BY <1>3, <2>1, ZeroVersion DEF Message, Single, Filter, Snapshot, Document, News
  <2> QED
    BY <2>1, <2>2
<1> QED
  BY <1>1, <1>2, <1>3 DEF Fresher

\* That a write is answered concerns no target.
LEMMA AnswerSolid ==
    ASSUME World, Sound(client), NEW n, Fresher(client, n), NEW i, NEW version,
           client' = [client EXCEPT !.writes[i].version = version]
    PROVE  Solid(client', n)
<1> DEFINE writes == [client.writes EXCEPT ![i] = [@ EXCEPT !.version = version]]
           x == [client EXCEPT !.writes = writes]
<1>1. Shape(client)
  BY ServerKnows
<1>2. client' = x
  BY <1>1 DEF Shape, Fields
<1> HIDE DEF writes
<1>3. Only(x, client, {"writes"})
  BY <1>1 DEF Only, Shape, Fields
<1> HIDE DEF x
<1>4. SameState(x, client) /\ Unread(x, client)
  BY <1>3 DEF SameState, SameBooks, Unread, Only, Fields
<1> QED
  BY <1>2, <1>4, SameStateSound, UnreadFresher DEF Solid

-----------------------------------------------------------------------------
(* Every step. *)

Steady == World /\ Solid(client, Len(log))

\* A client that starts is steady.
LEMMA InitSteady ==
    ASSUME Init
    PROVE  Steady
<1>1. World
  BY InitShown
<1>2. Started(client) /\ Typed(client)
  BY <1>1 DEF Init, Started, World, Shown
<1>3. client.broken = FALSE /\ client.lastSnap = 0 /\ client.incoming = <<>> /\ log = <<>>
  BY DEF Init
<1>4. Sound(client)
  BY <1>2, <1>3, StartedSound
<1>5. Fresher(client, Len(log))
  <2>1. DOMAIN <<>> = {} /\ Len(<<>>) = 0
    OBVIOUS
  <2> QED
    BY <1>3, <2>1 DEF Fresher
<1> QED
  BY <1>1, <1>4, <1>5 DEF Steady, Solid

\* What was said of versions stays true when there are more.
LEMMA LogGrows ==
    ASSUME Steady, NEW e, log' = Append(log, e)
    PROVE  Len(log') \in Nat /\ Fresher(client, Len(log'))
<1>1. Len(log) \in Nat /\ Len(log') = Len(log) + 1
  BY DEF Steady, World, LogType
<1>2. Fresher(client, Len(log)) /\ World
  BY DEF Steady, Solid
<1> QED
  BY <1>1, <1>2, FresherLater

\* The inductive step: one case per action.
LEMMA SteadyStep ==
    ASSUME ~Hasty, Steady, [Next]_vars
    PROVE  Steady'
<1> DEFINE n == Len(log)
<1>1. World /\ Sound(client) /\ Fresher(client, n) /\ n \in Nat
  BY LogIs DEF Steady, Solid
<1>2. World'
  BY <1>1, WorldStep
<1>3. ASSUME log' = log, Solid(client', n) PROVE Steady'
  BY <1>2, <1>3 DEF Steady, Solid, n
<1>4. ASSUME Solid(client', Len(log')) PROVE Steady'
  BY <1>2, <1>4 DEF Steady, Solid
<1> HIDE DEF n
<1>5. CASE Listen
  BY <1>1, <1>3, <1>5, ListenSolid DEF Listen
<1>6. CASE StopListening
  BY <1>1, <1>3, <1>6, StopListeningSolid DEF StopListening, Client
<1>7. CASE WriteAcknowledged
  BY <1>1, <1>3, <1>7, WriteAcknowledgedEmits, EmittedSolid, NotifyKeeps DEF WriteAcknowledged
<1>8. CASE WriteRefused
  BY <1>1, <1>3, <1>8, WriteRefusedEmits, EmittedSolid, NotifyKeeps DEF WriteRefused
<1>9. CASE DisableNetwork
  BY <1>1, <1>3, <1>9, DisableNetworkSolid DEF DisableNetwork
<1>10. CASE EnableNetwork
  BY <1>1, <1>3, <1>10, EnableNetworkSolid DEF EnableNetwork, Client
<1>11. CASE NetworkRestarts
  BY <1>1, <1>3, <1>11, NetworkRestartsSolid DEF NetworkRestarts
<1>12. CASE Restart
  BY <1>1, <1>3, <1>12, RestartSolid DEF Restart
<1>13. CASE StreamOpens
  BY <1>1, <1>3, <1>13, StreamOpensSolid DEF StreamOpens, Client
<1>14. CASE StreamFails
  BY <1>1, <1>3, <1>14, StreamFailsSolid DEF StreamFails
<1>15. CASE IdleTimeout
  BY <1>1, <1>3, <1>15, IdleTimeoutSolid DEF IdleTimeout, Client
<1>16. CASE OnlineTimeout
  BY <1>1, <1>3, <1>16, OnlineTimeoutSolid DEF OnlineTimeout, Client
<1>17. CASE TargetAdded
  BY <1>1, <1>3, <1>17, TargetAddedSolid DEF TargetAdded, Client
<1>18. CASE TargetRemoved
  BY <1>1, <1>3, <1>18, TargetRemovedSolid DEF TargetRemoved, Client
<1>19. CASE TargetCurrent
  BY <1>1, <1>3, <1>19, TargetCurrentSolid DEF TargetCurrent, Client
<1>20. CASE TargetReset
  BY <1>1, <1>3, <1>20, TargetResetSolid DEF TargetReset, Client
<1>21. CASE TargetRefused
  BY <1>1, <1>3, <1>21, TargetRefusedSolid, NotifyKeeps DEF TargetRefused
<1>22. CASE ExistenceFilter
  BY <1>1, <1>3, <1>22, ExistenceFilterSolid DEF ExistenceFilter, Client
<1>23. CASE DocumentChange
  BY <1>1, <1>3, <1>23, DocumentChangeSolid DEF DocumentChange, Client
<1>24. CASE ServerAdds
  BY <1>1, <1>3, <1>24, ServerAddsSolid DEF ServerAdds
<1>25. CASE ServerRemoves
  BY <1>1, <1>3, <1>25, ServerRemovesSolid DEF ServerRemoves
<1>26. CASE ServerRefuses
  BY <1>1, <1>3, <1>26, ServerRefusesSolid DEF ServerRefuses
<1>27. CASE \E late \in BOOLEAN : WatchSnapshot(late)
  <2>1. PICK late \in BOOLEAN : WatchSnapshot(late)
    BY <1>27
  <2> QED
    BY <1>1, <1>3, <2>1, WatchSnapshotSolid DEF WatchSnapshot, Client
<1>28. CASE \E t \in DOMAIN client.serving : ServerResets(t)
  <2>1. PICK t \in DOMAIN client.serving : ServerResets(t)
    BY <1>28
  <2> QED
    BY <1>1, <1>3, <2>1, ServerResetsSolid DEF ServerResets
<1>29. CASE \E how \in {"named", "bare", "filter"} : ServerTells(how)
  <2>1. PICK how \in {"named", "bare", "filter"} : ServerTells(how)
    BY <1>29
  <2>2. log' = log
    BY <1>1, <2>1, TellingIs
  <2> QED
    BY <1>1, <1>3, <2>1, <2>2, ServerTellsSolid DEF n
<1>30. CASE \E d \in Docs : \E v \in Contents[d] : Write(d, v) \/ OthersWrite(d, v)
  <2>1. PICK d \in Docs : \E v \in Contents[d] : Write(d, v) \/ OthersWrite(d, v)
    BY <1>30
  <2>2. PICK v \in Contents[d] : Write(d, v) \/ OthersWrite(d, v)
    BY <2>1
  <2>3. CASE Write(d, v)
    BY <1>1, <1>3, <2>3, WriteEmits, EmittedSolid, NotifyKeeps DEF Write
  <2>4. CASE OthersWrite(d, v)
    <3>1. log' = Append(log, [doc |-> d, content |-> v]) /\ client' = client
      BY <2>4 DEF OthersWrite
    <3> QED
      BY <1>1, <1>4, <3>1, LogGrows DEF Solid
  <2> QED
    BY <2>2, <2>3, <2>4
<1>31. CASE \E i \in DOMAIN client.writes : ServerCommits(i) \/ ServerRefusesWrite(i)
  <2>1. PICK i \in DOMAIN client.writes : ServerCommits(i) \/ ServerRefusesWrite(i)
    BY <1>31
  <2>2. CASE ServerCommits(i)
    <3>1. /\ log' = Append(log, [doc |-> client.writes[i].doc, content |-> client.writes[i].content])
          /\ client' = [client EXCEPT !.writes[i].version = Len(log')]
      BY <2>2 DEF ServerCommits
    <3>2. Fresher(client, Len(log'))
      BY <3>1, LogGrows
    <3> QED
      BY <1>1, <1>4, <3>1, <3>2, AnswerSolid
  <2>3. CASE ServerRefusesWrite(i)
    <3>1. client' = [client EXCEPT !.writes[i].version = -1] /\ log' = log
      BY <2>3 DEF ServerRefusesWrite
    <3> QED
      BY <1>1, <1>3, <3>1, AnswerSolid
  <2> QED
    BY <2>1, <2>2, <2>3
<1>32. CASE UNCHANGED vars
  BY <1>1, <1>3, <1>32 DEF vars, Solid
<1> QED
  BY <1>5, <1>6, <1>7, <1>8, <1>9, <1>10, <1>11, <1>12, <1>13, <1>14, <1>15, <1>16, <1>17,
     <1>18, <1>19, <1>20, <1>21, <1>22, <1>23, <1>24, <1>25, <1>26, <1>27, <1>28, <1>29,
     <1>30, <1>31, <1>32 DEF Next

\* When nobody is hasty, no HARD_ASSERT of these handlers fails, whatever the order of
\* messages, failures and calls (RemoteStore, WatchChangeAggregator, TargetState, SyncEngine,
\* OnlineStateTracker, View).
THEOREM AssertionsHoldAlways == ~Hasty => (Spec => []AssertionsHold)
<1> SUFFICES ASSUME ~Hasty PROVE Spec => []AssertionsHold
  OBVIOUS
<1>1. Init => Steady
  BY InitSteady
<1>2. Steady /\ [Next]_vars => Steady'
  BY SteadyStep
<1>3. Steady => AssertionsHold
  BY DEF Steady, Solid, Sound, Runs, Running, AssertionsHold
<1> QED
  BY <1>1, <1>2, <1>3, PTL DEF Spec

\* The bounds of the model are kept.
Bounded == listens \in 0..MaxListens /\ faults \in 0..MaxFaults

\* They bound what they count.
LEMMA BoundedStep ==
    ASSUME Bounded, [Next]_vars
    PROVE  Bounded'
<1>1. MaxListens \in Nat /\ MaxFaults \in Nat
  BY BoundsAssumption
<1>2. CASE UNCHANGED <<listens, faults>>
  BY <1>2 DEF Bounded
<1>3. CASE Fault /\ UNCHANGED listens
  BY <1>1, <1>3 DEF Bounded, Fault
<1>4. CASE Listen
  BY <1>1, <1>4 DEF Bounded, Listen
<1>5. UNCHANGED <<listens, faults>> \/ (Fault /\ UNCHANGED listens) \/ Listen
  <2>1. CASE UNCHANGED vars
    BY <2>1 DEF vars
  <2>2. WriteAcknowledged \/ WriteRefused \/ TargetRefused => UNCHANGED <<listens, faults>>
    BY NotifyKeeps, Zenon DEF WriteAcknowledged, WriteRefused, TargetRefused
  <2>3. \A d \in Docs : \A v \in Contents[d] : Write(d, v) => UNCHANGED <<listens, faults>>
    BY NotifyKeeps, Zenon DEF Write
  <2>4. CASE Next
    BY <2>2, <2>3, <2>4, Zenon DEF Next, StopListening, OthersWrite,
                DisableNetwork, EnableNetwork, NetworkRestarts, Restart, StreamOpens, StreamFails,
                IdleTimeout, OnlineTimeout, TargetAdded, TargetRemoved, TargetCurrent, TargetReset,
                ExistenceFilter, DocumentChange, WatchSnapshot, ServerAdds,
                ServerRemoves, ServerRefuses, ServerResets, ServerTells, ServerCommits,
                ServerRefusesWrite, Client
  <2> QED
    BY <2>1, <2>4
<1> QED
  BY <1>2, <1>3, <1>4, <1>5

\* A client whose books are in order has the right values in its fields.
LEMMA SteadyTyped ==
    ASSUME Steady, Bounded
    PROVE  TypeOK
<1>1. Typed(client) /\ Sound(client) /\ log \in LogType /\ Len(log) <= MaxVersions
  BY DEF Steady, World, Shown, Solid
<1>2. /\ client.cache \in [Docs -> CachedDoc] /\ client.keys \subseteq Docs
      /\ {client.token, client.savedFree, client.limboFree, client.lastSnap} \subseteq Versions
      /\ client.leftOut \subseteq Docs
      /\ client.view \in [docs : [Docs -> ViewDoc], synced : SUBSET Docs, current : BOOLEAN,
                          limbo : SUBSET Docs, sync : {"None", "Local", "Synced"}]
  BY <1>1, FieldTypes DEF ViewType
<1>3. \A w \in Range(client.writes) :
         w \in [doc : Docs, content : Values, version : Versions \cup {-1}]
  <2>1. client.writes \in Seq(WriteType)
    BY <1>1, FieldTypes
  <2>2. \A i \in DOMAIN client.writes : client.writes[i] \in WriteType
    BY <2>1
  <2> QED
    BY <2>2 DEF Range, WriteType
<1>4. DOMAIN client.limbo \subseteq Docs /\ client.received \subseteq Range(client.limbo)
  <2>1. client.limbo \in Partial(Docs, Lookup)
    BY <1>1, FieldTypes
  <2>2. DOMAIN client.limbo \subseteq Docs
    BY <2>1, PartialIs
  <2> QED
    BY <1>1, <2>2 DEF Sound, LookedUp, Range
<1>5. /\ {client.on, client.raised, client.enabled, client.idle, client.timer, client.failed,
          client.broken} \subseteq BOOLEAN
      /\ client.stream \in {"Initial", "Starting", "Open"}
      /\ client.online \in {"Unknown", "Online", "Offline"}
  <2>1. client.on \in BOOLEAN /\ client.raised \in BOOLEAN /\ client.enabled \in BOOLEAN
    BY <1>1, FieldTypes
  <2>2. /\ client.idle \in BOOLEAN /\ client.timer \in BOOLEAN /\ client.failed \in BOOLEAN
        /\ client.broken \in BOOLEAN
    BY <1>1, FieldTypes
  <2>3. /\ client.stream \in {"Initial", "Starting", "Open"}
        /\ client.online \in {"Unknown", "Online", "Offline"}
    BY <1>1, FieldTypes
  <2> QED
    BY <2>1, <2>2, <2>3
<1>6. \A t \in DOMAIN client.listening : t \in Target /\ client.listening[t] \in Versions
  <2>1. client.listening \in Partial(Watched, Versions)
    BY <1>1, FieldTypes
  <2>2. Watched \subseteq Target
    BY DEF Watched, Query, Lookup, Target
  <2> QED
    BY <2>1, <2>2, PartialIs
<1>7. \A t \in DOMAIN client.agg :
         /\ client.agg[t].outstanding \in Nat
         /\ client.agg[t].current \in BOOLEAN
         /\ DOMAIN client.agg[t].changes \subseteq t.docs
  <2>1. /\ client.agg \in Aggregator /\ client.incoming \in Seq(Message)
        /\ client.requests \in Seq(RequestType)
    BY <1>1, FieldTypes
  <2>2. client.agg \in Partial(Watched, EntryType)
    BY <2>1 DEF Aggregator
  <2>3. ASSUME NEW t \in DOMAIN client.agg
        PROVE  /\ client.agg[t].outstanding \in Nat
               /\ client.agg[t].current \in BOOLEAN
               /\ DOMAIN client.agg[t].changes \subseteq t.docs
    <3>1. t \in Watched /\ client.agg[t] \in EntryType
      BY <2>2, PartialIs
    <3>2. client.agg[t].outstanding \in Int /\ client.agg[t].current \in BOOLEAN
      BY <3>1 DEF EntryType
    <3>3. client.agg[t].outstanding >= Due(client.incoming, client.requests, t)
      BY <1>1, <3>1 DEF Sound, Runs, Running, Flowing, Counted, Entry
    <3>4. Due(client.incoming, client.requests, t) \in Nat
      BY <2>1, DueIs
    <3>5. client.agg[t].outstanding \in Nat
      BY <3>2, <3>3, <3>4
    <3>6. DOMAIN client.agg[t].changes \subseteq t.docs
      BY <2>1 DEF Aggregator
    <3> QED
      BY <3>2, <3>5, <3>6
  <2> QED
    BY <2>3
<1>8. DOMAIN client.updates \subseteq Docs
  <2>1. client.updates \in Partial(Docs, CachedDoc)
    BY <1>1, FieldTypes
  <2> QED
    BY <2>1, PartialIs
<1>9. log \in Seq([doc : Docs, content : Values]) /\ Len(log) \in Versions
  BY <1>1 DEF LogType, Versions
<1>10. listens \in 0..MaxListens /\ faults \in 0..MaxFaults
  BY DEF Bounded
<1> QED
  BY <1>2, <1>3, <1>4, <1>5, <1>6, <1>7, <1>8, <1>9, <1>10 DEF TypeOK

\* When nobody is hasty, the client's books have the right values: no more answers are read
\* than requests were sent (TargetState::RecordTargetResponse), and what a target gathers is
\* about its documents.
THEOREM TypeCorrect == ~Hasty => (Spec => []TypeOK)
<1> SUFFICES ASSUME ~Hasty PROVE Spec => []TypeOK
  OBVIOUS
<1>1. Init => Steady /\ Bounded
  <2>1. Init => Bounded
    BY BoundsAssumption DEF Init, Bounded
  <2> QED
    BY <2>1, InitSteady
<1>2. Steady /\ Bounded /\ [Next]_vars => Steady' /\ Bounded'
  BY SteadyStep, BoundedStep
<1>3. Steady /\ Bounded => TypeOK
  BY SteadyTyped
<1> QED
  BY <1>1, <1>2, <1>3, PTL DEF Spec
=============================================================================
