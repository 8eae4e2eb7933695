----------------------- MODULE FirestoreSyncedProofs ------------------------
(***************************************************************************)
(* When nobody is hasty, a view that claims to be in sync is what the       *)
(* server had.  The steps that FirestoreExactProofs leaves: the client      *)
(* reads of refused targets and of snapshots, and the server answers and    *)
(* tells what it has.                                                      *)
(***************************************************************************)
EXTENDS FirestoreExactProofs

-----------------------------------------------------------------------------
(***************************************************************************)
(* A target is refused.                                                    *)
(***************************************************************************)
\* ProcessTargetError: a target that is refused is not watched, nor known, ...
Dropped(c, t) == [c EXCEPT !.listening = Without(@, t), !.agg = Without(@, t)]

\* ... a lookup is over, and a query is kept as it was.
LookupOver(c, t) ==
    [Dropped(c, t) EXCEPT !.limbo = Without(@, TheDoc(t)), !.received = @ \ {t}]
QueryOver(c, t) ==
    [Dropped(c, t) EXCEPT !.token = c.listening[t], !.savedFree = c.limboFree]

\* What a target that is dropped leaves is of its type.
LEMMA DroppedTyped ==
    ASSUME NEW c, Typed(c), NEW t
    PROVE  LET left == Dropped(c, t)
           IN  /\ Typed(left) /\ Only(left, c, {"listening", "agg"})
               /\ left.listening = Without(c.listening, t) /\ left.agg = Without(c.agg, t)
<1> DEFINE left == Dropped(c, t)
<1>1. /\ Only(left, c, {"listening", "agg"})
      /\ left["listening"] = Without(c.listening, t) /\ left["agg"] = Without(c.agg, t)
  BY DEF Dropped, Only, Typed, Shape, Fields
<1> HIDE DEF left
<1>2. /\ c.listening \in Partial(Watched, Versions) /\ c.agg \in Partial(Watched, EntryType)
      /\ \A u \in DOMAIN c.agg : DOMAIN c.agg[u].changes \subseteq u.docs
  BY FieldTypes DEF Aggregator
<1>3. /\ Without(c.listening, t) \in Partial(Watched, Versions)
      /\ Without(c.agg, t) \in Partial(Watched, EntryType)
  BY <1>2, WithoutPartial
<1>4. Without(c.agg, t) \in Aggregator
  BY <1>2, <1>3 DEF Aggregator, Without, Restrict
<1>5. Typed(left)
  BY <1>1, <1>3, <1>4, TypedOnly, ClientIs DEF Fields
<1> QED
  BY <1>1, <1>5 DEF left

\* The books of a lookup that is refused, ...
LEMMA LookupOverSound ==
    ASSUME NEW c, Typed(c), Sound(c), c.stream = "Open", c.resets = {}, NEW t \in DOMAIN c.listening,
           t \in Range(c.limbo), Due(c.incoming, c.requests, t) = 0
    PROVE  LET quit == LookupOver(c, t)
           IN  /\ Typed(quit) /\ Sound(quit)
               /\ Only(quit, c, {"listening", "agg", "limbo", "received"})
               /\ quit.listening = Without(c.listening, t) /\ quit.agg = Without(c.agg, t)
               /\ quit.received = c.received \ {t} /\ DOMAIN quit.limbo \subseteq DOMAIN c.limbo
               /\ t \in Lookup
<1> DEFINE left == Dropped(c, t)
           quit == LookupOver(c, t)
<1>1. /\ Typed(left) /\ Only(left, c, {"listening", "agg"})
      /\ left.listening = Without(c.listening, t) /\ left.agg = Without(c.agg, t)
  BY DroppedTyped
<1>2. quit = [left EXCEPT !.limbo = Without(@, TheDoc(t)), !.received = @ \ {t}]
  BY DEF LookupOver
<1> HIDE DEF left, quit
<1>3. Range(c.limbo) = {c.limbo[d] : d \in DOMAIN c.limbo}
  BY DEF Range
<1>4. t \in Lookup
  BY LookupsOf
<1>5. t # Query /\ TheDoc(t) \in Docs /\ t.docs = {TheDoc(t)}
  BY <1>4, LookupIs
<1>6. /\ Only(quit, left, {"limbo", "received"})
      /\ quit["limbo"] = Without(left.limbo, TheDoc(t))
      /\ quit["received"] = left.received \ {t}
  BY <1>1, <1>2 DEF Only, Typed, Shape, Fields
<1>7. left.limbo \in Partial(Docs, Lookup) /\ left.received \in SUBSET Lookup
  BY <1>1, FieldTypes
<1>8. Without(left.limbo, TheDoc(t)) \in Partial(Docs, Lookup)
  BY <1>7, WithoutPartial
<1>9. Typed(quit)
  BY <1>1, <1>6, <1>7, <1>8, TypedOnly, ClientIs DEF Fields
<1>10. /\ quit.on = c.on /\ quit.listening = Without(c.listening, t)
       /\ quit.agg = Without(c.agg, t) /\ quit.limbo = Without(c.limbo, TheDoc(t))
       /\ quit.received = c.received \ {t}
       /\ Only(quit, c, {"listening", "agg", "limbo", "received"})
       /\ Only(quit, c, {"listening", "agg", "limbo", "received", "token", "savedFree"})
  BY <1>1, <1>6 DEF Only, Fields
<1>11. Runs(quit)
  BY <1>10, DroppedRuns DEF Sound
<1>12. DOMAIN quit.listening = DOMAIN c.listening \ {t}
  BY <1>10 DEF Without, Restrict
<1>13. /\ DOMAIN quit.limbo = DOMAIN c.limbo \ {TheDoc(t)}
       /\ \A d \in DOMAIN quit.limbo : quit.limbo[d] = c.limbo[d]
  BY <1>10 DEF Without, Restrict
<1>14. LookedUp(quit)
  <2>1. LookedUp(c)
    BY DEF Sound
  <2>2. \A d \in DOMAIN c.limbo : c.limbo[d] = t <=> d = TheDoc(t)
    BY <1>3, <1>5, <2>1 DEF LookedUp
  <2>3. \A d \in DOMAIN quit.limbo : /\ quit.limbo[d].docs = {d}
                                     /\ quit.limbo[d] \in DOMAIN quit.listening
    BY <1>12, <1>13, <2>1, <2>2 DEF LookedUp
  <2>4. \A d \in DOMAIN c.limbo : d \in DOMAIN quit.limbo \/ c.limbo[d] = t
    BY <1>13, <2>2
  <2>5. DOMAIN quit.listening \subseteq {Query} \cup {quit.limbo[d] : d \in DOMAIN quit.limbo}
    BY <1>12, <1>13, <2>1, <2>4 DEF LookedUp
  <2>6. quit.received \subseteq {quit.limbo[d] : d \in DOMAIN quit.limbo}
    BY <1>10, <1>13, <2>1, <2>4 DEF LookedUp
  <2> QED
    BY <2>3, <2>5, <2>6 DEF LookedUp
<1>15. Linked(quit)
  BY <1>5, <1>10, <1>12 DEF Sound, Linked
<1> QED
  BY <1>4, <1>9, <1>10, <1>11, <1>13, <1>14, <1>15 DEF Sound, quit

\* ... and of a query.
LEMMA QueryOverSound ==
    ASSUME NEW c, Typed(c), Sound(c), c.stream = "Open", c.resets = {}, NEW t \in DOMAIN c.listening,
           t \notin Range(c.limbo), Due(c.incoming, c.requests, t) = 0
    PROVE  LET kept == QueryOver(c, t)
           IN  /\ Typed(kept) /\ Runs(kept) /\ LookedUp(kept)
               /\ Only(kept, c, {"listening", "agg", "token", "savedFree"})
               /\ kept.listening = Without(c.listening, t) /\ kept.agg = Without(c.agg, t)
               /\ kept.token = c.listening[t] /\ kept.savedFree = c.limboFree /\ t = Query
<1> DEFINE left == Dropped(c, t)
           kept == QueryOver(c, t)
<1>1. /\ Typed(left) /\ Only(left, c, {"listening", "agg"})
      /\ left.listening = Without(c.listening, t) /\ left.agg = Without(c.agg, t)
  BY DroppedTyped
<1>2. kept = [left EXCEPT !.token = c.listening[t], !.savedFree = c.limboFree]
  BY DEF QueryOver
<1> HIDE DEF left, kept
<1>3. Range(c.limbo) = {c.limbo[d] : d \in DOMAIN c.limbo}
  BY DEF Range
<1>4. c.listening[t] \in Versions /\ c.limboFree \in Versions
  BY FieldTypes, PartialIs
<1>5. /\ Only(kept, left, {"token", "savedFree"})
      /\ kept["token"] = c.listening[t] /\ kept["savedFree"] = c.limboFree
  BY <1>1, <1>2 DEF Only, Typed, Shape, Fields
<1>6. Typed(kept)
  BY <1>1, <1>4, <1>5, TypedOnly, ClientIs DEF Fields
<1>7. /\ Only(kept, c, {"listening", "agg", "token", "savedFree"})
      /\ Only(kept, c, {"listening", "agg", "limbo", "received", "token", "savedFree"})
      /\ kept.listening = Without(c.listening, t) /\ kept.agg = Without(c.agg, t)
      /\ kept.received = c.received /\ kept.limbo = c.limbo
  BY <1>1, <1>5 DEF Only, Fields
<1>8. Runs(kept)
  BY <1>7, DroppedRuns DEF Sound
<1>9. DOMAIN kept.listening = DOMAIN c.listening \ {t}
  BY <1>7 DEF Without, Restrict
<1>10. t = Query
  BY <1>3 DEF Sound, LookedUp
<1>11. LookedUp(kept)
  BY <1>3, <1>7, <1>9 DEF Sound, LookedUp
<1> QED
  BY <1>5, <1>6, <1>7, <1>8, <1>10, <1>11 DEF kept

\* Of a target that is refused nothing more is due, and the server has forgotten it.
LEMMA RefusedRight ==
    ASSUME Ready, Received("error"), AboutTarget \in DOMAIN client.listening
    PROVE  /\ Due(Online.incoming, Online.requests, AboutTarget) = 0
           /\ \A x : /\ x.incoming = Tail(client.incoming) /\ x.requests = client.requests
                     /\ x.serving = client.serving /\ AboutTarget \notin DOMAIN x.listening
                     => Right(log, x, AboutTarget)
<1> DEFINE t == AboutTarget
           c == client
<1>1. /\ c.incoming # <<>> /\ t \in Watched /\ Right(log, c, t)
      /\ Head(c.incoming) \in Answers(t) /\ Head(c.incoming) \in Closing(t)
      /\ Head(c.incoming).kind = "error" /\ Head(c.incoming) \in Of(t)
  BY HeadOf, HeadIs, ReadyIs
<1>2. Typed(c) /\ Sound(c) /\ c.incoming \in Seq(Message) /\ c.requests \in Seq(RequestType)
      /\ c.stream = "Open" /\ Tail(c.incoming) \in Seq(Message)
      /\ Online.incoming = Tail(c.incoming)
  BY <1>1, ReadyIs, OnlineIs
<1>3. t \in DOMAIN c.listening
  OBVIOUS
<1>4. Online.requests = c.requests
  BY <1>1, OnlineIs DEF Only, Fields
<1>5. Due(Online.incoming, Online.requests, t) = 0
  <2>1. World
    BY ReadyIs
  <2> QED
    BY <1>1, <1>2, <1>3, <2>1, OnlineDue DEF Sound, Runs, Running, Flowing, Ordered
<1> HIDE DEF t, c
<1>6. Due(Tail(c.incoming), c.requests, t) = 0
  BY <1>2, <1>4, <1>5
<1>7. ~Some(c.requests, Asks(t)) /\ ~Some(Tail(c.incoming), Answers(t))
  <2>1. At(Tail(c.incoming), Answers(t)) = {} /\ At(c.requests, Asks(t)) = {}
    BY <1>2, <1>6, DueIs
  <2> QED
    BY <2>1 DEF At, Some
<1>8. t \notin DOMAIN c.serving
  <2>1. Head(c.incoming) \in Said("error", t)
    BY <1>1 DEF Said, Of
  <2>2. Some(c.incoming, Said("error", t))
    BY <1>1, <1>2, <2>1, SomeTail
  <2> QED
    BY <1>1, <1>2, <1>3, <2>2 DEF Right, Flows, Asking
<1>9. ~Some(Tail(c.incoming), Said("reset", t))
      /\ Ends(Tail(c.incoming), Said("reset", t), Said("removed", t))
  <2>1. Ends(c.incoming, Said("reset", t), Said("removed", t))
    BY <1>1, <1>8 DEF Right, Known
  <2>2. Ends(Tail(c.incoming), Said("reset", t), Said("removed", t))
    BY <1>1, <1>2, <2>1, ThenTail
  <2>3. Said("removed", t) \subseteq Answers(t)
    BY DEF Said, Answers, Message, Single, Filter, Snapshot, Document, News
  <2> QED
    BY <1>7, <2>2, <2>3 DEF Ends, Some
<1>10. Ends(c.requests, Asks(t), Drops(t))
  BY <1>7 DEF Ends, Some
<1>11. ASSUME NEW x, x.incoming = Tail(c.incoming), x.requests = c.requests,
              x.serving = c.serving, t \notin DOMAIN x.listening
       PROVE  Right(log, x, t)
  <2>1. Known(x, t)
    BY <1>8, <1>9, <1>10, <1>11 DEF Known
  <2> QED
    BY <1>11, <2>1 DEF Right
<1> QED
  BY <1>5, <1>11 DEF t, c

\* Everything is right about the targets when one is dropped.
LEMMA DroppedNet ==
    ASSUME Ready, Received("error"), NEW t, t = AboutTarget, t \in DOMAIN client.listening, NEW x,
           Only(x, Online, {"listening", "agg", "limbo", "received", "token", "savedFree"}),
           x.listening = Without(Online.listening, t), x.agg = Without(Online.agg, t),
           \A u : u # t => (u \in x.received <=> u \in Online.received)
    PROVE  Net(log, x)
<1> DEFINE in == client.incoming
<1>1. /\ in # <<>> /\ Head(in).kind = "error" /\ \A u : Head(in) \in Of(u) <=> u = t
  BY HeadOf
<1>2. Online.incoming = Tail(in)
      /\ Only(Online, client, {"incoming", "online", "raised", "view", "timer", "failed"})
  BY <1>1, OnlineIs
<1>3. /\ x.incoming = Tail(in) /\ x.updates = client.updates /\ x.resets = client.resets
      /\ x.keys = client.keys /\ x.requests = client.requests /\ x.serving = client.serving
  BY <1>2 DEF Only, Fields
<1>4. /\ x.incoming = Online.incoming /\ x.updates = Online.updates /\ x.resets = Online.resets
      /\ x.requests = Online.requests /\ x.serving = Online.serving /\ x.stream = Online.stream
      /\ x.view = Online.view /\ x.on = Online.on
  BY DEF Only, Fields
<1>5. Telltale(log, x)
  BY <1>1, <1>3, TelltaleRead
<1>6. t \notin DOMAIN x.listening
  BY DEF Without, Restrict
<1>7. Right(log, x, t)
  BY <1>3, <1>6, RefusedRight
<1>8. ASSUME NEW u \in Watched, u # t PROVE Right(log, x, u)
  <2>1. /\ u \in DOMAIN x.listening <=> u \in DOMAIN Online.listening
        /\ u \in DOMAIN Online.listening => x.listening[u] = Online.listening[u]
        /\ u \in DOMAIN x.agg <=> u \in DOMAIN Online.agg
        /\ u \in DOMAIN Online.agg => x.agg[u] = Online.agg[u]
    BY <1>8 DEF Without, Restrict
  <2>2. Entry(x, u) = Entry(Online, u)
    BY <2>1 DEF Entry
  <2>3. RemoteKeys(x, u) = RemoteKeys(Online, u)
    BY <1>4, <1>8 DEF RemoteKeys
  <2>4. SameTarget(x, Online, u)
    BY <1>4, <2>1, <2>2, <2>3, SameElse
  <2>5. SameTarget(Online, client, u)
    BY <1>1, <1>8, OnlineElse
  <2>6. SameTarget(x, client, u)
    BY <2>4, <2>5, SameTargetTrans
  <2>7. Right(log, client, u)
    BY ReadyIs DEF Net
  <2> QED
    BY <2>6, <2>7, RightSame
<1> QED
  BY <1>5, <1>7, <1>8 DEF Net

\* An event about no target looks nothing up.
LEMMA LookedNone ==
    ASSUME NEW c, NEW changes, DOMAIN changes = {}
    PROVE  Looked(c, changes) = c
<1> DEFINE p == LookFrom(c, changes)
<1>1. Looked(c, changes) = FoldedSet(p, c, {t \in DOMAIN changes : t \in Range(c.limbo)})
  BY LookedIs
<1>2. {t \in DOMAIN changes : t \in Range(c.limbo)} = {}
  OBVIOUS
<1> HIDE DEF p
<1>3. IsFiniteSet({})
  BY FS_EmptySet
<1>4. \E g : Solution(g, p, c, {})
  BY <1>3, FoldedSetSolves
<1> QED
  BY <1>1, <1>2, <1>4 DEF Solution

\* A document that is none of the query's is forgotten.
LEMMA UncachedDisk ==
    ASSUME NEW lg, Len(lg) \in Nat, NEW c, Typed(c), Disk(lg, c), NEW d \in Docs, d \notin c.keys,
           NEW x, Only(x, c, {"cache", "leftOut"}), x.cache = [c.cache EXCEPT ![d] = Unknown]
    PROVE  Disk(lg, x)
<1>1. /\ x.writes = c.writes /\ x.keys = c.keys /\ x.token = c.token /\ x.on = c.on
      /\ x.listening = c.listening
  BY DEF Only, Fields
<1>2. c.cache \in [Docs -> CachedDoc]
  BY FieldTypes
<1>3. /\ x.cache[d] = Unknown /\ \A e \in Docs : e # d => x.cache[e] = c.cache[e]
  BY <1>2
<1>4. SentOnes(lg, x)
  BY <1>1, Zenon DEF Disk, SentOnes
<1>5. CacheTrue(lg, x)
  <2>1. ASSUME NEW e \in Docs
        PROVE  x.cache[e].version <= Len(lg) /\ x.cache[e].content = Truth(lg, e, x.cache[e].version)
    <3>1. CASE e = d
      <4>1. x.cache[e].version = 0 /\ x.cache[e].content = Missing
        BY <1>3, <3>1 DEF Unknown
      <4>2. Truth(lg, e, 0) = Missing
        BY NewestNone
      <4> QED
        BY <4>1, <4>2
    <3>2. CASE e # d
      BY <1>3, <3>2 DEF Disk, CacheTrue
    <3> QED
      BY <3>1, <3>2
  <2> QED
    BY <2>1 DEF CacheTrue
<1>6. ASSUME NEW v, KeysAt(lg, c, v) PROVE KeysAt(lg, x, v)
  <2>1. c.keys \subseteq Docs
    BY FieldTypes
  <2> QED
    BY <1>1, <1>3, <1>6, <2>1 DEF KeysAt
<1> QED
  BY <1>1, <1>4, <1>5, <1>6 DEF Disk

\* What the refusal of a lookup says of its document.
LEMMA UncachedIs ==
    ASSUME NEW c, Typed(c), NEW d \in Docs, NEW updates, updates = [e \in {d} |-> Unknown]
    PROVE  /\ Typed(UpdateCache(c, updates)) /\ Only(UpdateCache(c, updates), c, {"cache", "leftOut"})
           /\ UpdateCache(c, updates).cache = [c.cache EXCEPT ![d] = Unknown]
           /\ UpdateCache(c, updates).leftOut = c.leftOut \ {d}
<1>1. Unknown \in CachedDoc
  BY BoundsAssumption DEF Unknown, CachedDoc, Versions, Values
<1>2. updates \in Partial(Docs, CachedDoc)
  BY <1>1, OnePartial
<1>3. DOMAIN updates = {d} /\ updates[d] = Unknown /\ updates[d].version = 0
  BY DEF Unknown
<1> DEFINE x == UpdateCache(c, updates)
           replaced == {e \in DOMAIN updates :
                           \/ updates[e].version = 0
                           \/ \/ c.cache[e].version = 0
                              \/ updates[e].version > c.cache[e].version
                              \/ updates[e].version = c.cache[e].version /\ c.cache[e].committed}
<1>4. Typed(x) /\ Only(x, c, {"cache", "leftOut"})
  BY <1>2, UpdateCacheTyped
<1>5. replaced = {d}
  BY <1>3
<1>6. x = [c EXCEPT !.cache = [e \in Docs |-> IF e \in replaced THEN updates[e] ELSE @[e]],
                    !.leftOut = @ \ replaced]
  BY DEF UpdateCache
<1> HIDE DEF replaced, x
<1>7. /\ x.cache = [e \in Docs |-> IF e \in replaced THEN updates[e] ELSE c.cache[e]]
      /\ x.leftOut = c.leftOut \ {d}
  BY <1>5, <1>6 DEF Typed, Shape, Fields
<1>8. c.cache \in [Docs -> CachedDoc]
  BY FieldTypes
<1>9. x.cache = [c.cache EXCEPT ![d] = Unknown]
  BY <1>3, <1>5, <1>7, <1>8
<1> QED
  BY <1>4, <1>7, <1>9 DEF x

\* A lookup is refused: its document is taken to be deleted.
LEMMA LookupRefused ==
    ASSUME Ready, Received("error"), NEW t, t = AboutTarget, t \in DOMAIN client.listening,
           t \in Range(client.limbo), NEW event,
           event = [version |-> 0, changes |-> <<>>, resets |-> {},
                    updates |-> [d \in {TheDoc(t)} |-> Unknown]], NEW late
    PROVE  Exact(log, ApplyRemoteEvent(LookupOver(Online, t), event, 0, late))
<1> DEFINE d == TheDoc(t)
           y == LookupOver(Online, t)
           updates == [e \in {d} |-> Unknown]
           x == UpdateCache(y, updates)
<1>1. /\ client.incoming # <<>> /\ t \in Watched /\ Head(client.incoming).kind = "error"
  BY HeadOf
<1>2. /\ Sound(Online) /\ Typed(Online) /\ Online.stream = "Open" /\ Online.resets = {}
  BY <1>1, OnlineSound, ReadyIs DEF Telling
<1>3. /\ Only(Online, client, {"incoming", "online", "raised", "view", "timer", "failed"})
      /\ SameView(Online, client) /\ SameDisk(Online, client)
  BY <1>1, OnlineIs
<1>4. Online.listening = client.listening /\ Online.limbo = client.limbo /\ Online.keys = client.keys
  BY <1>3 DEF Only, Fields
<1>5. t \in DOMAIN Online.listening /\ t \in Range(Online.limbo)
      /\ Due(Online.incoming, Online.requests, t) = 0
  BY <1>4, RefusedRight
<1>6. /\ Typed(y) /\ Sound(y) /\ Only(y, Online, {"listening", "agg", "limbo", "received"})
      /\ y.listening = Without(Online.listening, t) /\ y.agg = Without(Online.agg, t)
      /\ y.received = Online.received \ {t} /\ DOMAIN y.limbo \subseteq DOMAIN Online.limbo
      /\ t \in Lookup
  BY <1>2, <1>5, LookupOverSound
<1>7. t # Query /\ d \in Docs /\ d \notin client.keys
  BY <1>1, <1>6, LookedUpIs, LookupIs
<1> HIDE DEF y
<1>8. Net(log, y)
  BY <1>6, DroppedNet DEF Only
<1>9. SameView(y, Online)
  BY <1>6, SameViewOnly
<1>10. SameDisk(y, Online)
  <2>1. /\ y.cache = Online.cache /\ y.keys = Online.keys /\ y.token = Online.token
        /\ y.writes = Online.writes /\ y.on = Online.on /\ y.savedFree = Online.savedFree
        /\ y.limboFree = Online.limboFree /\ y.lastSnap = Online.lastSnap
        /\ y.leftOut = Online.leftOut
    BY <1>6 DEF Only, Fields
  <2>2. Online.on => Query \in DOMAIN Online.listening
    BY <1>2 DEF Sound, Linked
  <2>3. Online.on => y.listening[Query] = Online.listening[Query]
    BY <1>6, <1>7, <2>2 DEF Without, Restrict
  <2> QED
    BY <2>1, <2>3 DEF SameDisk
<1>11. Exact(log, y)
  <2>1. SameView(y, client) /\ SameDisk(y, client)
    BY <1>3, <1>9, <1>10, SameViewTrans, SameDiskTrans
  <2> QED
    BY <1>4, <1>6, <1>8, <2>1, SameExact DEF Ready
<1>12. Looked(y, event.changes) = y
  <2>1. DOMAIN event.changes = {}
    BY PartialNone
  <2> QED
    BY <2>1, LookedNone
<1>13. Query \notin DOMAIN event.changes
  BY PartialNone
<1>14. event.updates = updates /\ event.version = 0
  OBVIOUS
<1> HIDE DEF updates, d
<1>15. ApplyRemoteEvent(y, event, 0, late) = Emit(x, NoChange(y))
  <2>1. SaveTarget(y, event.changes, event.resets, 0, late) = y
    BY <1>13 DEF SaveTarget
  <2> DEFINE looked == Looked(y, event.changes)
             stored == UpdateCache(SaveTarget(looked, event.changes, event.resets, 0, late),
                                   event.updates)
             dated == [Require(stored, event.version >= y.lastSnap)
                          EXCEPT !.lastSnap = event.version]
             versioned == IF event.version = 0 THEN stored ELSE dated
             change == IF Query \in DOMAIN event.changes THEN event.changes[Query]
                       ELSE NoChange(y)
  <2>2. ApplyRemoteEvent(y, event, 0, late) = Emit(versioned, change)
    BY DEF ApplyRemoteEvent
  <2>3. stored = x
    BY <1>12, <1>14, <2>1
  <2> HIDE DEF stored, dated, x
  <2>4. versioned = x
    BY <1>14, <2>3
  <2>5. change = NoChange(y)
    BY <1>13
  <2> HIDE DEF versioned, change
  <2> QED
    BY <2>2, <2>4, <2>5
<1>16. updates = [e \in {d} |-> Unknown]
  BY DEF updates
<1>17. /\ Typed(x) /\ Only(x, y, {"cache", "leftOut"}) /\ x.cache = [y.cache EXCEPT ![d] = Unknown]
       /\ x.leftOut = y.leftOut \ {d}
  BY <1>6, <1>7, <1>16, UncachedIs
<1> HIDE DEF x
<1>18. y.keys = client.keys
  BY <1>4, <1>6 DEF Only, Fields
<1>19. Disk(log, x)
  BY <1>6, <1>7, <1>11, <1>17, <1>18, UncachedDisk, ReadyIs DEF Exact
<1>20. NoChange(x) = NoChange(y) /\ Only(x, y, {"writes", "cache", "leftOut"})
  BY <1>17, Zenon DEF NoChange, Only, Fields
<1>21. Leaving(log, x)
  <2>1. Leaving(log, y) /\ y.leftOut \subseteq Docs /\ y.cache \in [Docs -> CachedDoc]
    BY <1>6, <1>11, FieldTypes DEF Exact
  <2>2. x.leftOut \subseteq y.leftOut /\ x.writes = y.writes
    BY <1>17 DEF Only, Fields
  <2>3. ASSUME NEW e \in x.leftOut
        PROVE  x.cache[e] = y.cache[e] /\ \A i \in DOMAIN x.writes : x.writes[i].doc # e
    <3>1. e \in Docs /\ e # d /\ e \in y.leftOut
      BY <1>17, <2>1, <2>3
    <3> QED
      BY <1>17, <2>1, <2>2, <3>1 DEF Leaving, Omitted
  <2> QED
    BY <1>20, <2>1, <2>2, <2>3, WritesLeave
<1>22. Exact(log, Emit(x, NoChange(x)))
  BY <1>6, <1>11, <1>17, <1>19, <1>20, <1>21, EmitLocalExact, ReadyIs
<1> QED
  BY <1>15, <1>20, <1>22 DEF y

\* A query is refused: it is forgotten.
LEMMA QueryRefused ==
    ASSUME Ready, Received("error"), NEW t, t = AboutTarget, t \in DOMAIN client.listening,
           t \notin Range(client.limbo)
    PROVE  Exact(log, Forget(QueryOver(Online, t)))
<1> DEFINE y == QueryOver(Online, t)
<1>1. /\ client.incoming # <<>> /\ t \in Watched /\ Head(client.incoming).kind = "error"
  BY HeadOf
<1>2. /\ Sound(Online) /\ Typed(Online) /\ Online.stream = "Open" /\ Online.resets = {}
  BY <1>1, OnlineSound, ReadyIs DEF Telling
<1>3. /\ Only(Online, client, {"incoming", "online", "raised", "view", "timer", "failed"})
      /\ SameView(Online, client) /\ SameDisk(Online, client)
  BY <1>1, OnlineIs
<1>4. Online.listening = client.listening /\ Online.limbo = client.limbo /\ Online.on = client.on
  BY <1>3 DEF Only, Fields
<1>5. t \in DOMAIN Online.listening /\ t \notin Range(Online.limbo)
      /\ Due(Online.incoming, Online.requests, t) = 0
  BY <1>4, RefusedRight
<1>6. /\ Typed(y) /\ Runs(y) /\ LookedUp(y) /\ Only(y, Online, {"listening", "agg", "token", "savedFree"})
      /\ y.listening = Without(Online.listening, t) /\ y.agg = Without(Online.agg, t)
      /\ y.token = Online.listening[t] /\ y.savedFree = Online.limboFree /\ t = Query
  BY <1>2, <1>5, QueryOverSound
<1> HIDE DEF y
<1>7. Net(log, y)
  <2>1. /\ Only(y, Online, {"listening", "agg", "limbo", "received", "token", "savedFree"})
        /\ y.received = Online.received
    BY <1>6 DEF Only, Fields
  <2> QED
    BY <1>6, <2>1, DroppedNet
<1>8. Query \notin DOMAIN y.listening
  BY <1>6 DEF Without, Restrict
<1>9. /\ y.writes = Online.writes /\ y.cache = Online.cache /\ y.keys = Online.keys
      /\ y.limbo = client.limbo /\ y.view = Online.view /\ y.lastSnap = Online.lastSnap
  BY <1>4, <1>6 DEF Only, Fields
<1>10. Disk(log, Online)
  BY <1>3, DiskSame, ReadyIs
<1>11. Online.on
  BY <1>2, <1>5, <1>6 DEF Sound, Linked
<1>12. SentOnes(log, y) /\ CacheTrue(log, y) /\ KeysAt(log, y, y.token)
  BY <1>6, <1>9, <1>10, <1>11 DEF Disk, SentOnes, CacheTrue, KeysAt
<1>13. DOMAIN y.limbo \subseteq y.view.limbo
  BY <1>3, <1>9, ReadyIs DEF Looking, SameView
<1>14. y.savedFree <= y.token /\ y.token <= y.lastSnap
  <2>1. Leaving(log, Online)
    BY <1>3, LeavingSame, ReadyIs
  <2> QED
    BY <1>6, <1>9, <1>11, <2>1 DEF Leaving, Dated
<1> QED
  BY <1>6, <1>7, <1>8, <1>12, <1>13, <1>14, ForgetExact DEF y

\* ProcessTargetError, ...
LEMMA TargetErrorExact ==
    ASSUME Ready, Received("error")
    PROVE  Exact(log, ProcessTargetError(Online, AboutTarget))
<1> DEFINE t == AboutTarget
           x == ProcessTargetError(Online, t)
           event == [version |-> 0, changes |-> <<>>, resets |-> {},
                     updates |-> [d \in {TheDoc(t)} |-> Unknown]]
<1>1. Received("error")
  OBVIOUS
<1>2. /\ client.incoming # <<>> /\ t \in Watched /\ Right(log, client, t)
      /\ Head(client.incoming).kind = "error" /\ \A u : Head(client.incoming) \in Of(u) <=> u = t
  BY <1>1, HeadOf
<1>3. /\ Only(Online, client, {"incoming", "online", "raised", "view", "timer", "failed"})
      /\ Typed(Online)
  BY <1>2, OnlineIs
<1>4. Online.listening = client.listening /\ Online.limbo = client.limbo /\ Online.agg = client.agg
  BY <1>3 DEF Only, Fields
<1>5. CASE t \notin DOMAIN client.listening
  <2>1. x = Online
    BY <1>4, <1>5 DEF ProcessTargetError
  <2>2. /\ Online.incoming = Tail(client.incoming) /\ Online.updates = client.updates
        /\ Online.resets = client.resets /\ Online.keys = client.keys
    BY <1>2, <1>3, OnlineIs DEF Only, Fields
  <2>3. Telltale(log, Online)
    BY <1>2, <2>2, TelltaleRead
  <2>4. Only(Online, Online, {"agg", "updates", "resets", "broken"})
    BY <1>3, OnlySame
  <2>5. /\ ReadFrom(Online, client, t) /\ SameView(Online, Online) /\ SameDisk(Online, Online)
    BY <1>2, <2>4, HeadRead
  <2>6. Right(log, Online, t)
    BY <1>2, <1>4, <1>5, <2>5, OnlineIs, ReadUnwatched
  <2>7. ASSUME NEW u \in Watched, u # t PROVE SameTarget(Online, Online, u)
    BY SameElse
  <2>8. Exact(log, Online)
    <3> HIDE DEF t
    <3> QED
      BY <1>2, <2>3, <2>5, <2>6, <2>7, ReadExact
  <2> QED
    BY <2>1, <2>8
<1>6. CASE t \in DOMAIN client.listening /\ t \in Range(client.limbo)
  <2>1. x = ApplyRemoteEvent(LookupOver(Online, t), event, 0, FALSE)
    BY <1>4, <1>6, Zenon DEF ProcessTargetError, LookupOver, Dropped
  <2>2. PICK late : late = FALSE
    OBVIOUS
  <2>3. event = [version |-> 0, changes |-> <<>>, resets |-> {},
                 updates |-> [d \in {TheDoc(t)} |-> Unknown]]
    OBVIOUS
  <2> HIDE DEF event
  <2>4. Exact(log, ApplyRemoteEvent(LookupOver(Online, t), event, 0, late))
    BY <1>1, <1>6, <2>3, LookupRefused
  <2> QED
    BY <2>1, <2>2, <2>4
<1>7. CASE t \in DOMAIN client.listening /\ t \notin Range(client.limbo)
  <2>1. x = Forget(QueryOver(Online, t))
    BY <1>4, <1>7 DEF ProcessTargetError, QueryOver, Dropped
  <2>2. Exact(log, Forget(QueryOver(Online, t)))
    BY <1>1, <1>7, QueryRefused
  <2> QED
    BY <2>1, <2>2
<1> QED
  BY <1>5, <1>6, <1>7

\* ... and what is said of the snapshot, if the lookup was the last.
LEMMA TargetRefusedExact ==
    ASSUME Ready, TargetRefused
    PROVE  Exact(log', client')
<1> DEFINE t == AboutTarget
           x == ProcessTargetError(Online, t)
<1>1. Notify(x) /\ Received("error")
  BY DEF TargetRefused
<1>2. /\ client.incoming # <<>> /\ t \in Watched /\ Head(client.incoming).kind = "error"
      /\ World /\ Sound(client) /\ Fresher(client, Len(log))
  BY <1>1, HeadOf, ReadyIs
<1>3. /\ Sound(Online) /\ Typed(Online) /\ Online.stream = "Open" /\ Online.resets = {}
  BY <1>2, OnlineSound, ReadyIs DEF Telling
<1>4. t \in DOMAIN Online.listening => Due(Online.incoming, Online.requests, t) = 0
  <2>1. Online.listening = client.listening
    BY <1>2, OnlineIs DEF Only, Fields
  <2> QED
    BY <1>1, <2>1, RefusedRight
<1>5. Sound(x)
  BY <1>2, <1>3, <1>4, ProcessTargetErrorSound
<1>6. Typed(x)
  BY <1>2, OnlineShown, ProcessTargetErrorShown DEF Shown
<1>7. Exact(log, x)
  BY <1>1, TargetErrorExact
<1> HIDE DEF x
<1> QED
  BY <1>1, <1>5, <1>6, <1>7, NotifyExact

-----------------------------------------------------------------------------
(***************************************************************************)
(* A snapshot: the targets.                                                *)
(***************************************************************************)
\* A snapshot is the only one on its way, nothing is told behind it, and all that is gathered
\* is true at its version.
LEMMA SnapshotHead ==
    ASSUME Ready, Received("snapshot")
    PROVE  LET in == client.incoming
               n == Head(in).version
           IN  /\ in # <<>> /\ in \in Seq(Message) /\ Head(in).kind = "snapshot"
               /\ n \in Versions /\ n \in Nat /\ n <= Len(log) /\ client.lastSnap <= n
               /\ Coming(in, n) /\ (\A m : ~Coming(Tail(in), m)) /\ ~Pending(Tail(in))
               /\ \A i \in DOMAIN Tail(in) : Tail(in)[i].kind \notin Telling
               /\ \A d \in DOMAIN client.updates : TrueUpdate(log, client, d, n)
               /\ Tail(in) \in Seq(Message)
<1> DEFINE in == client.incoming
           n == Head(in).version
<1>1. in # <<>> /\ Head(in).kind = "snapshot"
  BY DEF Received
<1>2. in \in Seq(Message) /\ Typed(client) /\ Fresher(client, Len(log)) /\ Telltale(log, client)
  BY <1>1, OnlineIs, ReadyIs DEF Net
<1>3. Sorted(in) /\ \A m : Coming(in, m) => TrueMail(log, in, m)
                                           /\ \A d \in DOMAIN client.updates : TrueUpdate(log, client, d, m)
  BY <1>2 DEF Telltale
<1>4. /\ \A i \in DOMAIN in : in[i].kind = "snapshot" =>
            /\ client.lastSnap <= in[i].version
            /\ \A j \in DOMAIN in : in[j].kind = "snapshot" => i = j
  BY <1>2 DEF Fresher
<1> HIDE DEF in
<1>5. /\ Len(in) \in Nat \ {0} /\ DOMAIN in = 1 .. Len(in) /\ in[1] = Head(in)
      /\ DOMAIN Tail(in) = 1 .. (Len(in) - 1)
      /\ \A i \in DOMAIN Tail(in) : i + 1 \in DOMAIN in /\ Tail(in)[i] = in[i + 1]
  BY <1>1, <1>2, TailPlaces
<1>6. 1 \in DOMAIN in
  BY <1>5
<1>7. Coming(in, n)
  BY <1>1, <1>5, <1>6 DEF Coming
<1>8. n \in Versions /\ n \in Nat
  BY <1>2, <1>7, VersionsOf DEF in
<1>9. client.lastSnap <= n
  BY <1>1, <1>4, <1>5, <1>6
<1>10. ASSUME NEW i \in DOMAIN Tail(in) PROVE Tail(in)[i].kind \notin Telling
  <2>1. i \in Nat /\ i + 1 \in DOMAIN in /\ Tail(in)[i] = in[i + 1] /\ i >= 1
    BY <1>5
  <2>2. ASSUME in[i + 1].kind \in Telling PROVE FALSE
    <3>1. Reports(in, i + 1)
      BY <1>3, <2>1, <2>2 DEF Sorted
    <3>2. PICK k \in DOMAIN in : i + 1 <= k /\ in[k].kind = "snapshot"
      BY <3>1 DEF Reports
    <3>3. k = 1
      BY <1>1, <1>4, <1>5, <1>6, <3>2
    <3> QED
      BY <2>1, <3>2, <3>3
  <2> QED
    BY <2>1, <2>2
<1>11. \A i \in DOMAIN Tail(in) : Tail(in)[i].kind # "snapshot"
  BY <1>10 DEF Telling
<1>12. Tail(in) \in Seq(Message)
  BY <1>1, <1>2
<1>13. n <= Len(log)
  BY <1>3, <1>7 DEF TrueMail
<1> QED
  BY <1>1, <1>2, <1>3, <1>7, <1>8, <1>9, <1>10, <1>11, <1>12, <1>13 DEF Coming, Pending, in

\* What is left behind it of messages of other kinds.
LEMMA SnapshotMail ==
    ASSUME Ready, Received("snapshot"), NEW A, \A m \in A : m.kind # "snapshot"
    PROVE  LET in == client.incoming
           IN  /\ Some(in, A) <=> Some(Tail(in), A)
               /\ ~Before(in, A) /\ ~Before(Tail(in), A)
               /\ Behind(in, A) <=> Some(Tail(in), A)
               /\ Behind(Tail(in), A) <=> Some(Tail(in), A)
               /\ \A B : Then(in, A, B) <=> Then(Tail(in), A, B)
               /\ \A B : Ends(in, A, B) => Ends(Tail(in), A, B)
               /\ (\A m \in A : m.kind \in Telling) => ~Some(in, A) /\ ~Some(Tail(in), A)
<1> DEFINE in == client.incoming
<1>1. /\ in # <<>> /\ in \in Seq(Message) /\ Head(in).kind = "snapshot" /\ Tail(in) \in Seq(Message)
      /\ ~Pending(Tail(in)) /\ \A i \in DOMAIN Tail(in) : Tail(in)[i].kind \notin Telling
  BY SnapshotHead
<1> HIDE DEF in
<1>2. Head(in) \notin A
  BY <1>1
<1>3. \A i \in DOMAIN Tail(in) : ~Ahead(Tail(in), i)
  BY <1>1 DEF Ahead, Pending
<1>4. ~Before(Tail(in), A) /\ (Behind(Tail(in), A) <=> Some(Tail(in), A))
  BY <1>3 DEF Before, Behind, Some
<1>5. /\ Before(in, A) <=> (Head(in) \in A /\ Ahead(in, 1)) \/ Before(Tail(in), A)
      /\ Behind(in, A) <=> (Head(in) \in A /\ ~Ahead(in, 1)) \/ Behind(Tail(in), A)
  BY <1>1, BeforeTail
<1>6. Some(in, A) <=> Head(in) \in A \/ Some(Tail(in), A)
  BY <1>1, SomeTail
<1>7. /\ \A B : Then(in, A, B) <=> (Head(in) \in A /\ Some(Tail(in), B)) \/ Then(Tail(in), A, B)
      /\ \A B : Ends(in, A, B) => Ends(Tail(in), A, B)
  BY <1>1, ThenTail
<1>8. (\A m \in A : m.kind \in Telling) => ~Some(Tail(in), A)
  BY <1>1 DEF Some
<1> QED
  BY <1>2, <1>4, <1>5, <1>6, <1>7, <1>8 DEF in

\* An active target has gathered what it will have at the snapshot's version, and the server
\* has told it of everything up to there.
LEMMA SnapshotTold ==
    ASSUME Ready, Received("snapshot"), NEW t \in Watched, IsActiveTarget(client, t)
    PROVE  LET n == Head(client.incoming).version
           IN  /\ Entry(client, t).current /\ t \in DOMAIN client.serving
               /\ Due(client.incoming, client.requests, t) = 0
               /\ t \in client.resets => Holds(client, t) = {}
               /\ t \notin client.resets =>
                     /\ Holds(client, t) = Have(log, t, n)
                     /\ \A d \in Have(log, t, n) : \/ d \in DOMAIN client.updates
                                                   \/ Newest(log, d, n) <= client.listening[t]
               /\ ~Some(Tail(client.incoming), Said("reset", t)) => client.serving[t].at = n
               /\ Some(Tail(client.incoming), Said("reset", t)) =>
                     client.serving[t].at = 0 /\ client.serving[t].fresh
<1> DEFINE c == client
           in == c.incoming
           n == Head(in).version
           R == Said("reset", t)
<1>1. /\ in # <<>> /\ Coming(in, n)
  BY SnapshotHead
<1>2. /\ t \in DOMAIN c.listening /\ Flows(log, c, t) /\ Due(in, c.requests, t) = 0 /\ ~Late(c, t)
      /\ ~Some(c.requests, Asks(t)) /\ ~Some(in, Said("error", t)) /\ t \in DOMAIN c.serving
  BY <1>1, ActiveTold
<1>3. Delivers(log, c, t, n)
  BY <1>1, <1>2 DEF Flows, Brings
<1>4. /\ ~Some(in, Said("document", t)) /\ ~Some(in, Said("filter", t)) /\ ~Some(in, Said("current", t))
      /\ \A d : ~Some(in, DocOf(t, d))
  BY SnapshotMail DEF Said, DocOf, Telling
<1>5. \A m \in R : m.kind # "snapshot"
  BY DEF Said
<1>6. ~Before(in, R) /\ (Behind(in, R) <=> Some(Tail(in), R))
  <2> HIDE DEF R, in
  <2> QED
    BY <1>5, SnapshotMail DEF in
<1>7. Entry(c, t).current
  BY <1>3, <1>4 DEF Delivers, Confirmed
<1>8. /\ Behind(in, R) => c.serving[t].at = 0 /\ c.serving[t].fresh
      /\ ~Behind(in, R) => c.serving[t].at = n
  BY <1>1, <1>2 DEF Flows, Served
<1>9. t \in c.resets => Holds(c, t) = {}
  BY <1>3 DEF Delivers
<1>10. ASSUME t \notin c.resets, NEW d \in t.docs
       PROVE  /\ d \in Holds(c, t) <=> d \in Have(log, t, n)
              /\ d \in Have(log, t, n) => d \in DOMAIN c.updates \/ Newest(log, d, n) <= c.listening[t]
  <2>1. Rightly(log, c, t, d, n)
    BY <1>3, <1>10 DEF Delivers
  <2> QED
    BY <1>4, <1>6, <2>1 DEF Rightly, Will
<1>11. Holds(c, t) \subseteq t.docs /\ Have(log, t, n) \subseteq t.docs
  <2>1. Typed(c)
    BY ReadyIs
  <2> QED
    BY <2>1, RemoteKeysTyped, EntryTyped DEF Holds, OfType, Have
<1> QED
  BY <1>2, <1>6, <1>7, <1>8, <1>9, <1>10, <1>11

\* After a snapshot a target is known, or not, as before.
LEMMA SnapshotKnown ==
    ASSUME Ready, Received("snapshot"), NEW t \in Watched, NEW x, x.incoming = Tail(client.incoming),
           x.serving = client.serving,
           \/ SameAsked(x.requests, client.requests, t)
           \/ t \in DOMAIN client.listening /\ t \in DOMAIN client.serving,
           DOMAIN x.listening = DOMAIN client.listening,
           t \in DOMAIN client.agg => t \in DOMAIN x.agg
    PROVE  Known(x, t)
<1> DEFINE in == client.incoming
           R == Said("reset", t)
<1>1. Known(client, t)
  BY ReadyIs DEF Net, Right
<1>2. \A m \in R : m.kind # "snapshot"
  BY DEF Said
<1> HIDE DEF R, in
<1>3. /\ Some(in, R) <=> Some(Tail(in), R)
      /\ \A B : Ends(in, R, B) => Ends(Tail(in), R, B)
  BY <1>2, SnapshotMail DEF in
<1>4. Drops(t) \in SUBSET Asks(t)
  BY MailSets
<1>5. x.incoming = Tail(in) /\ x.serving = client.serving
  BY DEF in
<1> QED
  BY <1>1, <1>3, <1>4, <1>5 DEF Known, R, in, SameAsked

\* A target is asked for, or not, as before a message was read that is no answer.
AskedAsBefore(x, c, t) ==
    /\ x.incoming = Tail(c.incoming) /\ x.serving = c.serving
    /\ SameAsked(x.requests, c.requests, t)
    /\ Due(x.incoming, x.requests, t) = Due(c.incoming, c.requests, t)
    /\ DOMAIN x.listening = DOMAIN c.listening
    /\ t \in DOMAIN c.agg => t \in DOMAIN x.agg

\* Kinds of messages about a target that are not told with a snapshot.
LEMMA AnswerKinds ==
    ASSUME NEW t
    PROVE  /\ \A m \in Answers(t) : m.kind # "snapshot"
           /\ \A m \in Said("reset", t) : m.kind # "snapshot"
           /\ \A m \in Said("error", t) : m.kind # "snapshot"
           /\ Said("error", t) \subseteq Answers(t)
<1>1. \A m \in Said("error", t) : m \in Answers(t)
  BY DEF Said, Answers, Message, Single, Filter, Snapshot, Document, News
<1> QED
  BY <1>1 DEF Answers, Said

\* What a target knows that waits for an answer is not changed by a snapshot.
LEMMA SnapshotWaits ==
    ASSUME Ready, Received("snapshot"), NEW t \in Watched, t \in DOMAIN client.listening,
           Entry(client, t).outstanding # 0, NEW x, AskedAsBefore(x, client, t),
           x.listening[t] = client.listening[t], Entry(x, t) = Entry(client, t),
           RemoteKeys(x, t) = RemoteKeys(client, t)
    PROVE  Right(log, x, t)
<1> DEFINE c == client
           in == c.incoming
           R == Said("reset", t)
           E == Said("error", t)
           A == Answers(t)
<1>1. /\ x.incoming = Tail(in) /\ x.serving = c.serving /\ SameAsked(x.requests, c.requests, t)
      /\ Due(x.incoming, x.requests, t) = Due(in, c.requests, t)
      /\ DOMAIN x.listening = DOMAIN c.listening /\ (t \in DOMAIN c.agg => t \in DOMAIN x.agg)
  BY DEF AskedAsBefore
<1>2. /\ in # <<>> /\ c.stream = "Open" /\ Right(log, c, t) /\ Typed(c)
      /\ \A m : ~Coming(Tail(in), m)
  BY SnapshotHead, OnlineIs, ReadyIs DEF Net
<1>3. Known(x, t)
  BY <1>1, SnapshotKnown
<1>4. /\ \A m \in A : m.kind # "snapshot"
      /\ \A m \in R : m.kind # "snapshot"
      /\ \A m \in E : m.kind # "snapshot"
  BY AnswerKinds
<1>5. Sees(log, c, t) /\ Collects(c, t) /\ Asking(c, t) /\ Served(c, t)
  BY <1>2 DEF Right, Flows
<1>6. Some(c.requests, Asks(t)) \/ Some(in, A)
  BY <1>2, <1>5, NothingLate DEF Collects
<1>7. /\ Adds(t) \in SUBSET Asks(t) /\ Drops(t) \in SUBSET Asks(t) /\ Asks(t) \in SUBSET Asks(t)
      /\ Outdated(t, c.listening[t]) \in SUBSET Asks(t)
  BY MailSets
<1> HIDE DEF c, in, R, E, A
<1>8. /\ Some(in, A) <=> Some(Tail(in), A)
      /\ Behind(in, A) <=> Some(Tail(in), A)
      /\ Behind(Tail(in), A) <=> Some(Tail(in), A)
  BY <1>4, SnapshotMail DEF c, in
<1>9. /\ Some(in, R) <=> Some(Tail(in), R)
      /\ Behind(in, R) <=> Some(Tail(in), R)
      /\ Behind(Tail(in), R) <=> Some(Tail(in), R)
      /\ Then(in, R, A) <=> Then(Tail(in), R, A)
  BY <1>4, SnapshotMail DEF c, in
<1>10. Some(in, E) <=> Some(Tail(in), E)
  BY <1>4, SnapshotMail DEF c, in
<1>11. Late(c, t)
  BY <1>6, <1>8 DEF Late, in, A
<1>12. /\ Some(x.requests, Asks(t)) <=> Some(c.requests, Asks(t))
       /\ Some(x.requests, Adds(t)) <=> Some(c.requests, Adds(t))
       /\ Some(x.requests, Drops(t)) <=> Some(c.requests, Drops(t))
       /\ Some(x.requests, Outdated(t, c.listening[t])) <=> Some(c.requests, Outdated(t, c.listening[t]))
  BY <1>1, <1>7 DEF SameAsked
<1>13. /\ x.listening[t] = c.listening[t] /\ Entry(x, t) = Entry(c, t)
       /\ RemoteKeys(x, t) = RemoteKeys(c, t) /\ Entry(c, t).outstanding # 0
  BY DEF c
<1>14. Sees(log, x, t)
  BY <1>5, <1>13 DEF Sees
<1>15. Collects(x, t)
  <2>1. DOMAIN Entry(x, t).changes = {}
    BY <1>5, <1>13 DEF Collects
  <2>2. OfType(Entry(x, t), "Added") = {}
    BY <2>1 DEF OfType
  <2>3. Entry(x, t).outstanding = Due(x.incoming, x.requests, t)
    BY <1>1, <1>5, <1>13 DEF Collects, in
  <2> QED
    BY <2>1, <2>2, <2>3 DEF Collects
<1>16. Asking(x, t)
  <2>1. /\ ~Some(c.requests, Outdated(t, c.listening[t]))
        /\ Some(c.requests, Asks(t)) /\ t \in DOMAIN c.serving => c.listening[t] = 0
        /\ (Some(in, R) /\ Some(c.requests, Asks(t))) \/ Then(in, R, A) => c.listening[t] = 0
        /\ Some(in, E) => t \notin DOMAIN c.serving
        /\ t \in DOMAIN c.serving /\ Some(c.requests, Adds(t)) => Some(c.requests, Drops(t))
    BY <1>5 DEF Asking, in, R, E, A
  <2>2. /\ (Some(x.incoming, R) /\ Some(x.requests, Asks(t))) \/ Then(x.incoming, R, A)
             => x.listening[t] = 0
        /\ Some(x.incoming, E) => t \notin DOMAIN x.serving
    BY <1>1, <1>9, <1>10, <1>12, <1>13, <2>1
  <2>3. /\ ~Some(x.requests, Outdated(t, x.listening[t]))
        /\ Some(x.requests, Asks(t)) /\ t \in DOMAIN x.serving => x.listening[t] = 0
        /\ t \in DOMAIN x.serving /\ Some(x.requests, Adds(t)) => Some(x.requests, Drops(t))
    BY <1>1, <1>12, <1>13, <2>1
  <2> QED
    BY <2>2, <2>3 DEF Asking, R, E, A
<1>17. Served(x, t)
  <2> SUFFICES ASSUME ~Some(x.requests, Asks(t)), ~Some(x.incoming, E) PROVE
        /\ t \in DOMAIN x.serving
        /\ Behind(x.incoming, R) => x.serving[t].at = 0 /\ x.serving[t].fresh
        /\ ~Behind(x.incoming, R) /\ ~Late(x, t) =>
              \A n : Coming(x.incoming, n) => x.serving[t].at = n
        /\ ~Behind(x.incoming, R) /\ (Late(x, t) \/ ~Pending(x.incoming)) =>
              Resumed(x, t) \/ StartedOver(x, t)
    BY DEF Served, R, E
  <2>1. ~Some(c.requests, Asks(t)) /\ ~Some(in, E)
    BY <1>1, <1>10, <1>12
  <2>2. /\ t \in DOMAIN c.serving
        /\ Behind(in, R) => c.serving[t].at = 0 /\ c.serving[t].fresh
        /\ ~Behind(in, R) => Resumed(c, t) \/ StartedOver(c, t)
    BY <1>5, <1>11, <2>1 DEF Served, in, R, E
  <2>3. Holds(x, t) = Holds(c, t)
    BY <1>13 DEF Holds
  <2>4. /\ Resumed(c, t) => Resumed(x, t)
        /\ StartedOver(c, t) => StartedOver(x, t)
    BY <1>1, <1>13, <2>3 DEF Resumed, StartedOver
  <2> QED
    BY <1>1, <1>2, <1>9, <2>2, <2>4
<1>18. Brings(log, x, t)
  BY <1>1, <1>2 DEF Brings
<1> QED
  BY <1>3, <1>14, <1>15, <1>16, <1>17, <1>18 DEF Right, Flows

\* A target that takes what it has gathered is resumed from the snapshot, ...
LEMMA SnapshotTaken ==
    ASSUME Ready, Received("snapshot"), NEW t \in Watched, IsActiveTarget(client, t),
           NEW x, AskedAsBefore(x, client, t), x.listening[t] = Head(client.incoming).version,
           Entry(x, t).outstanding = 0, DOMAIN Entry(x, t).changes = {}, Entry(x, t).current,
           RemoteKeys(x, t) = Have(log, t, Head(client.incoming).version)
    PROVE  Right(log, x, t)
<1> DEFINE c == client
           in == c.incoming
           n == Head(in).version
           R == Said("reset", t)
           E == Said("error", t)
           A == Answers(t)
<1>1. /\ x.incoming = Tail(in) /\ x.serving = c.serving /\ SameAsked(x.requests, c.requests, t)
      /\ Due(x.incoming, x.requests, t) = Due(in, c.requests, t)
      /\ DOMAIN x.listening = DOMAIN c.listening /\ (t \in DOMAIN c.agg => t \in DOMAIN x.agg)
  BY DEF AskedAsBefore
<1>2. in # <<>> /\ (\A m : ~Coming(Tail(in), m)) /\ n <= Len(log) /\ c.stream = "Open" /\ Typed(c)
  BY SnapshotHead, OnlineIs, ReadyIs
<1>3. /\ t \in DOMAIN c.listening /\ ~Some(c.requests, Asks(t)) /\ ~Some(in, A)
      /\ Due(in, c.requests, t) = 0
  BY <1>2, ActiveTold
<1>4. /\ t \in DOMAIN c.serving
      /\ ~Some(Tail(in), R) => c.serving[t].at = n
      /\ Some(Tail(in), R) => c.serving[t].at = 0 /\ c.serving[t].fresh
  BY SnapshotTold
<1>5. Known(x, t)
  BY <1>1, SnapshotKnown
<1>6. /\ \A m \in A : m.kind # "snapshot"
      /\ \A m \in R : m.kind # "snapshot"
      /\ E \subseteq A
  BY AnswerKinds
<1>7. /\ Adds(t) \in SUBSET Asks(t) /\ Asks(t) \in SUBSET Asks(t)
      /\ Outdated(t, n) \in SUBSET Asks(t)
  BY MailSets
<1>8. x.listening[t] = n
  OBVIOUS
<1> HIDE DEF c, n, in, R, E, A
<1>9. ~Some(Tail(in), A)
  BY <1>3, <1>6, SnapshotMail DEF c, in
<1>10. Behind(Tail(in), R) <=> Some(Tail(in), R)
  BY <1>6, SnapshotMail DEF c, in
<1>11. ~Some(x.requests, Asks(t)) /\ ~Some(x.requests, Adds(t)) /\ ~Some(x.requests, Outdated(t, n))
  BY <1>1, <1>3, <1>7 DEF SameAsked, Some
<1>12. ~Some(x.incoming, E) /\ ~Then(x.incoming, R, A)
  BY <1>1, <1>6, <1>9 DEF Some, Then
<1>13. Sees(log, x, t)
  BY <1>2, <1>8 DEF Sees, n, in, c
<1>14. Collects(x, t)
  BY <1>1, <1>3 DEF Collects, OfType
<1>15. Asking(x, t)
  BY <1>8, <1>11, <1>12 DEF Asking, R, E, A
<1>16. Served(x, t)
  <2>1. t \in DOMAIN x.serving /\ (Behind(x.incoming, R) => x.serving[t].at = 0 /\ x.serving[t].fresh)
    BY <1>1, <1>4, <1>10
  <2>2. ~Behind(x.incoming, R) => Resumed(x, t)
    BY <1>1, <1>4, <1>8, <1>10 DEF Resumed
  <2> QED
    BY <1>1, <1>2, <2>1, <2>2 DEF Served, R
<1>17. Brings(log, x, t)
  BY <1>1, <1>2 DEF Brings
<1> QED
  BY <1>5, <1>13, <1>14, <1>15, <1>16, <1>17 DEF Right, Flows

\* ... and one that starts over is left, and asked for with no token.
LEMMA SnapshotAgain ==
    ASSUME Ready, Received("snapshot"), NEW t \in Watched, IsActiveTarget(client, t),
           NEW x, Typed(x), x.incoming = Tail(client.incoming), x.serving = client.serving,
           DOMAIN x.listening = DOMAIN client.listening, t \in DOMAIN x.agg,
           x.requests = Append(Append(client.requests, [target |-> t, add |-> FALSE, token |-> 0]),
                               [target |-> t, add |-> TRUE, token |-> 0]),
           x.listening[t] = 0, Entry(x, t).outstanding = 2, DOMAIN Entry(x, t).changes = {},
           RemoteKeys(x, t) = {}
    PROVE  Right(log, x, t)
<1> DEFINE c == client
           in == c.incoming
           out == c.requests
           drop == [target |-> t, add |-> FALSE, token |-> 0]
           add == [target |-> t, add |-> TRUE, token |-> 0]
           E == Said("error", t)
<1>1. /\ in # <<>> /\ in \in Seq(Message) /\ Tail(in) \in Seq(Message)
      /\ (\A m : ~Coming(Tail(in), m)) /\ c.stream = "Open" /\ Typed(c) /\ out \in Seq(RequestType)
  BY SnapshotHead, OnlineIs, ReadyIs
<1>2. /\ t \in DOMAIN c.listening /\ ~Some(out, Asks(t)) /\ ~Some(in, Answers(t))
      /\ Due(in, out, t) = 0
  BY <1>1, ActiveTold
<1>3. t \in DOMAIN c.serving
  BY SnapshotTold
<1>4. Known(x, t)
  BY <1>2, <1>3, SnapshotKnown
<1>5. /\ drop \in RequestType /\ add \in RequestType /\ drop \in Asks(t) /\ add \in Asks(t)
      /\ drop \in Drops(t) /\ drop \notin Outdated(t, 0) /\ add \notin Outdated(t, 0)
  BY ZeroVersion DEF RequestType, Asks, Drops, Outdated, Adds
<1>6. Outdated(t, 0) \in SUBSET Asks(t) /\ E \subseteq Answers(t)
      /\ \A m \in Answers(t) : m.kind # "snapshot"
  BY MailSets, AnswerKinds
<1>7. x.requests = Append(Append(out, drop), add) /\ x.incoming = Tail(in) /\ x.serving = c.serving
  OBVIOUS
<1> HIDE DEF c, in, out, drop, add, E
<1>8. ~Some(Tail(in), Answers(t))
  BY <1>2, <1>6, SnapshotMail DEF c, in
<1>9. Append(out, drop) \in Seq(RequestType) /\ drop.target = t /\ add.target = t
  BY <1>1, <1>5 DEF drop, add
<1>10. Due(Tail(in), x.requests, t) = 2
  <2> DEFINE rest == Tail(in)
             mid == Append(out, drop)
  <2>1. rest \in Seq(Message) /\ mid \in Seq(RequestType)
    BY <1>1, <1>9
  <2>2. Due(in, out, t) = Due(rest, out, t) + (IF Head(in) \in Answers(t) THEN 1 ELSE 0)
    BY <1>1, OneMessageRead
  <2>3. Head(in) \notin Answers(t)
    BY <1>1, <1>2, SomeTail
  <2> HIDE DEF rest
  <2>4. Due(rest, mid, t) = Due(rest, out, t) + (IF t = drop.target THEN 1 ELSE 0)
    BY <1>1, <1>5, <2>1, OneMoreRequest
  <2> HIDE DEF mid
  <2>5. Due(rest, Append(mid, add), t) = Due(rest, mid, t) + (IF t = add.target THEN 1 ELSE 0)
    BY <1>5, <2>1, OneMoreRequest
  <2>6. Due(rest, out, t) \in Nat
    BY <1>1, <2>1, DueIs
  <2>7. x.requests = Append(mid, add)
    BY <1>7 DEF mid
  <2>8. Due(rest, Append(mid, add), t) = 2
    BY <1>2, <1>9, <2>2, <2>3, <2>4, <2>5, <2>6
  <2> QED
    BY <2>7, <2>8 DEF rest
<1>11. ASSUME NEW A PROVE Some(x.requests, A) <=> Some(out, A) \/ drop \in A \/ add \in A
  <2> DEFINE mid == Append(out, drop)
             one == <<drop>>
             two == <<add>>
  <2>1. one \in Seq(RequestType) /\ two \in Seq(RequestType)
    BY <1>5
  <2>2. mid = out \o one
    BY <1>1, <1>5, OneMore
  <2>3. mid \in Seq(RequestType) /\ x.requests = Append(mid, add)
    BY <1>7, <1>9
  <2>4. Some(one, A) <=> drop \in A
    BY OneIs, Zenon
  <2>5. Some(two, A) <=> add \in A
    BY OneIs
  <2> HIDE DEF mid, one
  <2>6. x.requests = mid \o two
    <3>1. add \in RequestType /\ mid \in Seq(RequestType)
      BY <1>5, <2>3
    <3>2. Append(mid, add) = mid \o two
      BY <3>1, OneMore
    <3> QED
      BY <2>3, <3>2
  <2> HIDE DEF two
  <2>7. Some(mid \o two, A) <=> Some(mid, A) \/ Some(two, A)
    BY <2>1, <2>3, SomeConcat
  <2>8. Some(mid, A) <=> Some(out, A) \/ Some(one, A)
    BY <1>1, <2>1, <2>2, SomeConcat
  <2> QED
    BY <2>4, <2>5, <2>6, <2>7, <2>8
<1>12. Some(x.requests, Asks(t)) /\ Some(x.requests, Drops(t)) /\ ~Some(x.requests, Outdated(t, 0))
  <2>1. ~Some(out, Outdated(t, 0))
    BY <1>2, <1>6 DEF Some
  <2> QED
    BY <1>5, <1>11, <2>1
<1>13. Sees(log, x, t)
  <2>1. Have(log, t, 0) = {}
    BY HaveNone
  <2>2. 0 <= Len(log)
    BY ReadyIs
  <2> QED
    BY <2>1, <2>2 DEF Sees
<1>14. Collects(x, t)
  BY <1>7, <1>10 DEF Collects, OfType
<1>15. ~Some(x.incoming, E)
  BY <1>6, <1>7, <1>8 DEF Some
<1>16. Asking(x, t)
  BY <1>12, <1>15 DEF Asking, E
<1>17. Served(x, t)
  BY <1>12 DEF Served
<1>18. Brings(log, x, t)
  BY <1>1, <1>7 DEF Brings
<1>19. t \in DOMAIN x.listening
  BY <1>2 DEF c
<1> QED
  BY <1>4, <1>13, <1>14, <1>16, <1>17, <1>18, <1>19 DEF Right, Flows

-----------------------------------------------------------------------------
(***************************************************************************)
(* A snapshot: what it synthesizes.                                        *)
(***************************************************************************)
\* The lookups that are current and brought nothing.
Unfound(c) == {t \in DOMAIN c.agg : /\ IsActiveTarget(c, t) /\ t # Query
                                    /\ Entry(c, t).current
                                    /\ TheDoc(t) \notin DOMAIN c.updates
                                    /\ TheDoc(t) \notin RemoteKeys(c, t)}

\* One more of them says that its document is deleted: nothing is gathered for it, ...
LEMMA FoundStep ==
    ASSUME NEW c, Typed(c), NEW S \in SUBSET Lookup, NEW version \in Versions,
           \A u \in S : /\ IsActiveTarget(c, u) /\ u \in DOMAIN c.agg
                        /\ TheDoc(u) \notin DOMAIN Entry(c, u).changes
                        /\ TheDoc(u) \notin RemoteKeys(c, u)
                        /\ TheDoc(u) \notin DOMAIN c.updates,
           NEW p, p = [goal |-> "exact", of |-> "find", from |-> c, version |-> version],
           NEW s \in SUBSET S, NEW t \in S \ s, NEW y, FoldInv(p, s, y)
    PROVE  FoldInv(p, s \cup {t}, FoldStep(p, t, y))
<1> DEFINE z == FoldStep(p, t, y)
           d == TheDoc(t)
           update == [e \in {d} |-> DeletedAt(version)]
           without == Without(Entry(y, t).changes, d)
<1>1. p.goal = "exact" /\ p.of = "find" /\ p.from = c /\ p.version = version
  OBVIOUS
<1>2. /\ Gathered(c, y) /\ DOMAIN y.agg = DOMAIN c.agg
      /\ \A u \in Watched : SameTypes(y, c, u, {})
      /\ DOMAIN y.updates = DOMAIN c.updates \cup {TheDoc(u) : u \in s}
      /\ \A e \in DOMAIN y.updates :
            y.updates[e] = IF e \in DOMAIN c.updates THEN c.updates[e] ELSE DeletedAt(version)
  BY <1>1 DEF FoldInv, ExactKept
<1>3. /\ t \in Watched /\ IsActiveTarget(c, t) /\ t \in DOMAIN c.agg
      /\ d \notin DOMAIN Entry(c, t).changes /\ d \notin RemoteKeys(c, t)
      /\ d \in t.docs /\ d \in Docs
  BY LookupIs
<1>4. y.listening = c.listening /\ RemoteKeys(y, t) = RemoteKeys(c, t) /\ Typed(y)
  BY <1>2, GatheredSees
<1>5. IsActiveTarget(y, t)
  BY <1>2, <1>3, <1>4 DEF IsActiveTarget, SameTypes
<1>6. z = RemoveDocument(y, t, d, update)
  BY <1>1 DEF FoldStep
<1>7. update \in Partial(Docs, CachedDoc)
  <2>1. DeletedAt(version) \in CachedDoc
    BY DEF DeletedAt, CachedDoc, Values
  <2> QED
    BY <1>3, <2>1, OnePartial
<1>8. z = [WithEntry(y, t, [Entry(y, t) EXCEPT !.changes = without])
              EXCEPT !.updates = Over(update, @)]
  BY <1>3, <1>4, <1>5, <1>6 DEF RemoveDocument
<1>9. DOMAIN update = {d} /\ update[d] = DeletedAt(version)
  OBVIOUS
<1> HIDE DEF z, update, without, d
<1>10. Gathered(y, z)
  BY <1>3, <1>4, <1>6, <1>7, RemoveDocumentTyped
<1>11. Regathered(z, y, t, without, update)
  BY <1>3, <1>4, <1>8, GatherIs
<1>12. /\ DOMAIN z.agg = DOMAIN y.agg \cup {t} /\ (\A u : u # t => Entry(z, u) = Entry(y, u))
       /\ Entry(z, t).outstanding = Entry(y, t).outstanding
       /\ Entry(z, t).current = Entry(y, t).current /\ Entry(z, t).changes = without
       /\ z.updates = Over(update, y.updates)
  BY <1>11 DEF Regathered
<1>13. Gathered(c, z)
  BY <1>2, <1>10, GatheredTrans
<1>14. DOMAIN z.agg = DOMAIN c.agg
  BY <1>2, <1>3, <1>12
<1>15. SameTypes(y, c, t, {})
  BY <1>2, <1>3
<1>16. SameTypes(z, c, t, {})
  <2>1. DOMAIN without = DOMAIN Entry(y, t).changes \ {d}
        /\ \A e \in DOMAIN without : without[e] = Entry(y, t).changes[e]
    BY DEF without, Without, Restrict
  <2>2. ASSUME NEW e, NEW type
        PROVE  e \in OfType(Entry(z, t), type) <=> e \in OfType(Entry(c, t), type)
    <3>1. e \in OfType(Entry(y, t), type) <=> e \in OfType(Entry(c, t), type)
      BY <1>15 DEF SameTypes
    <3>2. CASE e = d
      <4>1. e \notin OfType(Entry(z, t), type)
        BY <1>12, <2>1, <3>2 DEF OfType
      <4>2. e \notin OfType(Entry(c, t), type)
        BY <1>3, <3>2 DEF OfType
      <4> QED
        BY <4>1, <4>2
    <3>3. CASE e # d
      <4>1. /\ e \in OfType(Entry(z, t), type) <=> e \in DOMAIN without /\ without[e] = type
            /\ e \in OfType(Entry(y, t), type)
                  <=> e \in DOMAIN Entry(y, t).changes /\ Entry(y, t).changes[e] = type
        BY <1>12 DEF OfType
      <4>2. e \in DOMAIN without <=> e \in DOMAIN Entry(y, t).changes
        BY <2>1, <3>3
      <4> QED
        BY <2>1, <3>1, <4>1, <4>2
    <3> QED
      BY <3>2, <3>3
  <2> QED
    BY <1>12, <1>15, <2>2 DEF SameTypes
<1>17. \A u \in Watched : SameTypes(z, c, u, {})
  <2> TAKE u \in Watched
  <2>1. CASE u = t
    BY <1>16, <2>1
  <2>2. CASE u # t
    <3>1. Entry(z, u) = Entry(y, u) /\ SameTypes(y, c, u, {})
      BY <1>2, <1>12, <2>2
    <3> QED
      BY <3>1 DEF SameTypes
  <2> QED
    BY <2>1, <2>2
<1>18. DOMAIN z.updates = DOMAIN c.updates \cup {TheDoc(u) : u \in s \cup {t}}
  <2>1. DOMAIN z.updates = {d} \cup DOMAIN y.updates
    BY <1>9, <1>12 DEF Over
  <2> QED
    BY <1>2, <2>1 DEF d
<1>19. ASSUME NEW e \in DOMAIN z.updates
       PROVE  z.updates[e] = IF e \in DOMAIN c.updates THEN c.updates[e] ELSE DeletedAt(version)
  <2>1. CASE e = d
    <3>1. z.updates[e] = update[e]
      BY <1>9, <1>12, <2>1 DEF Over
    <3> QED
      BY <1>9, <2>1, <3>1 DEF d
  <2>2. CASE e # d
    <3>1. e \in DOMAIN y.updates /\ z.updates[e] = y.updates[e]
      BY <1>9, <1>12, <2>2 DEF Over
    <3> QED
      BY <1>2, <3>1
  <2> QED
    BY <2>1, <2>2
<1>20. FoldInv(p, s \cup {t}, z)
  BY <1>1, <1>13, <1>14, <1>17, <1>18, <1>19 DEF FoldInv, ExactKept
<1> QED
  BY <1>20 DEF z

\* ... and all of them do.
LEMMA SynthesizedIs ==
    ASSUME NEW c, Typed(c), Gathers(c), DOMAIN c.listening \subseteq DOMAIN c.agg,
           \A t \in DOMAIN c.listening : Entry(c, t).outstanding = 0 =>
               OfType(Entry(c, t), "Added") \subseteq DOMAIN c.updates,
           NEW version \in Versions, NEW x, x = Synthesized(c, version)
    PROVE  /\ Gathered(c, x) /\ DOMAIN x.agg = DOMAIN c.agg
           /\ \A t \in Watched : SameTypes(x, c, t, {})
           /\ DOMAIN x.updates = DOMAIN c.updates \cup {TheDoc(t) : t \in Unfound(c)}
           /\ \A d \in DOMAIN x.updates :
                 x.updates[d] = IF d \in DOMAIN c.updates THEN c.updates[d] ELSE DeletedAt(version)
           /\ Unfound(c) \subseteq Lookup
<1> DEFINE S == Unfound(c)
           p == [goal |-> "exact", of |-> "find", from |-> c, version |-> version]
<1>1. S \subseteq Lookup /\ IsFiniteSet(S)
  <2>1. c.agg \in Partial(Watched, EntryType)
    BY FieldTypes DEF Aggregator
  <2>2. DOMAIN c.agg \subseteq Watched /\ IsFiniteSet(DOMAIN c.agg)
    BY <2>1, PartialIs
  <2>3. S \subseteq DOMAIN c.agg /\ Query \notin S
    BY DEF Unfound
  <2> QED
    BY <2>2, <2>3, FS_Subset DEF Watched
<1>2. ASSUME NEW u \in S
      PROVE  /\ IsActiveTarget(c, u) /\ u \in DOMAIN c.agg
             /\ TheDoc(u) \notin DOMAIN Entry(c, u).changes
             /\ TheDoc(u) \notin RemoteKeys(c, u)
             /\ TheDoc(u) \notin DOMAIN c.updates
  <2>1. /\ IsActiveTarget(c, u) /\ u \in DOMAIN c.agg /\ TheDoc(u) \notin RemoteKeys(c, u)
        /\ TheDoc(u) \notin DOMAIN c.updates
    BY DEF Unfound
  <2>2. /\ u \in DOMAIN c.listening /\ Gotten(c, u)
        /\ OfType(Entry(c, u), "Added") \subseteq DOMAIN c.updates
    BY <2>1 DEF IsActiveTarget, Gathers
  <2> QED
    BY <2>1, <2>2 DEF Gotten, OfType
<1>3. Synthesized(c, version) = FoldedSet(p, c, S)
  BY DEF Synthesized, FoldSet, MapThenFoldSet, FoldedSet, FoldStep, DeletedAt, Unfound
<1> HIDE DEF S
<1>4. FoldInv(p, {}, c)
  <2>1. Gathered(c, c)
    BY GatheredSame
  <2> QED
    BY <2>1 DEF FoldInv, ExactKept, SameTypes
<1>5. ASSUME NEW s \in SUBSET S, NEW t \in S \ s, NEW y, FoldInv(p, s, y)
      PROVE  FoldInv(p, s \cup {t}, FoldStep(p, t, y))
  <2> DEFINE q == p
  <2>1. /\ q = [goal |-> "exact", of |-> "find", from |-> c, version |-> version]
        /\ FoldInv(q, s, y) /\ S \in SUBSET Lookup
    BY <1>1, <1>5
  <2> HIDE DEF q, p
  <2>2. FoldInv(q, s \cup {t}, FoldStep(q, t, y))
    BY <1>2, <2>1, FoundStep
  <2> QED
    BY <2>2 DEF q
<1>6. FoldInv(p, S, FoldedSet(p, c, S))
  <2> HIDE DEF p
  <2> QED
    BY <1>1, <1>4, <1>5, FoldKeeps
<1>7. FoldInv(p, S, x)
  BY <1>3, <1>6
<1> QED
  BY <1>1, <1>7 DEF FoldInv, ExactKept, S

-----------------------------------------------------------------------------
(***************************************************************************)
(* A snapshot: the targets that start over.                                *)
(***************************************************************************)
\* What a target that starts over asks for.
LEMMA RewatchIs ==
    ASSUME NEW c, Typed(c), NEW t \in DOMAIN c.listening, NEW x, x = Rewatch(t, c)
    PROVE  /\ Rewatches(c, x) /\ t \in Watched
           /\ x.requests = Append(Append(c.requests, [target |-> t, add |-> FALSE, token |-> 0]),
                                  [target |-> t, add |-> TRUE, token |-> 0])
           /\ x.listening = [c.listening EXCEPT ![t] = 0] /\ DOMAIN x.agg = DOMAIN c.agg \cup {t}
           /\ Entry(x, t).outstanding = Entry(c, t).outstanding + 2
           /\ Entry(x, t).changes = Entry(c, t).changes
           /\ \A u \in Watched : u # t =>
                 /\ Entry(x, u) = Entry(c, u) /\ SameAsked(x.requests, c.requests, u)
                 /\ Due(x.incoming, x.requests, u) = Due(c.incoming, c.requests, u)
<1> DEFINE listening == [c.listening EXCEPT ![t] = 0]
           y == [c EXCEPT !.listening = listening]
           z == Send(y, t, FALSE, 0)
           r == [target |-> t, add |-> FALSE, token |-> 0]
           q == [target |-> t, add |-> TRUE, token |-> 0]
           first == [Entry(c, t) EXCEPT !.outstanding = @ + 1]
           entry == [first EXCEPT !.outstanding = @ + 1]
<1>1. x = Send(z, t, TRUE, 0)
  BY DEF Rewatch
<1>2. Rewatches(c, x)
  BY RewatchTyped
<1>3. c.listening \in Partial(Watched, Versions)
  BY FieldTypes
<1>4. /\ DOMAIN c.listening \in SUBSET Watched /\ IsFiniteSet(DOMAIN c.listening)
      /\ \A u \in DOMAIN c.listening : c.listening[u] \in Versions
  BY <1>3, PartialIs
<1>5. t \in Watched /\ 0 \in Versions
  BY <1>4, ZeroVersion
<1>6. listening \in Partial(Watched, Versions)
  <2>1. c.listening \in [DOMAIN c.listening -> Versions]
    BY <1>3, PartialIs
  <2>2. listening \in [DOMAIN c.listening -> Versions]
    BY <1>4, <1>5, <2>1
  <2> HIDE DEF listening
  <2> QED
    BY <1>4, <2>2, PartialOf
<1>7. Only(y, c, {"listening"}) /\ y["listening"] = listening
  BY DEF Only, Typed, Shape, Fields
<1> HIDE DEF listening, y
<1>8. y["listening"] \in Client_["listening"]
  BY <1>6, <1>7, ClientIs
<1>9. Typed(y)
  BY <1>7, <1>8, TypedOnly DEF Fields
<1>10. /\ Typed(z) /\ Only(z, y, {"agg", "requests", "idle"})
       /\ z.agg = With(y.agg, t, [Entry(y, t) EXCEPT !.outstanding = @ + 1])
       /\ z.requests = Append(y.requests, r)
  BY <1>5, <1>9, SendTyped
<1>11. \A u \in Watched : u # t => SameTarget(z, y, u)
  BY <1>5, <1>9, SendElse, Zenon
<1> HIDE DEF z
<1>12. /\ Only(x, z, {"agg", "requests", "idle"})
       /\ x.agg = With(z.agg, t, [Entry(z, t) EXCEPT !.outstanding = @ + 1])
       /\ x.requests = Append(z.requests, q)
  <2>1. TRUE \in BOOLEAN
    OBVIOUS
  <2> QED
    BY <1>1, <1>5, <1>10, <2>1, SendAdds, Zenon
<1>13. \A u \in Watched : u # t => SameTarget(x, z, u)
  <2>1. TRUE \in BOOLEAN
    OBVIOUS
  <2> QED
    BY <1>1, <1>5, <1>10, <2>1, SendElse
<1>14. y.agg = c.agg /\ y.requests = c.requests /\ y.incoming = c.incoming
  BY <1>7 DEF Only, Fields
<1>15. \A u : Entry(y, u) = Entry(c, u)
  BY <1>14 DEF Entry
<1>16. z.agg = With(c.agg, t, first)
  BY <1>10, <1>14, <1>15
<1> HIDE DEF r, q, first
<1>17. Entry(z, t) = first
  BY <1>16 DEF Entry, With, Over
<1>18. DOMAIN x.agg = DOMAIN c.agg \cup {t} /\ Entry(x, t) = entry
  <2>1. x.agg = With(With(c.agg, t, first), t, entry)
    BY <1>12, <1>16, <1>17
  <2> HIDE DEF entry
  <2> QED
    BY <2>1 DEF Entry, With, Over
<1>19. Entry(c, t) \in EntryType
  BY <1>5, EntryTyped
<1>20. entry.outstanding = Entry(c, t).outstanding + 2 /\ entry.changes = Entry(c, t).changes
  <2>1. /\ first \in EntryType /\ first.outstanding = Entry(c, t).outstanding + 1
        /\ first.changes = Entry(c, t).changes
    BY <1>19 DEF EntryType, first
  <2>2. Entry(c, t).outstanding \in Int
    BY <1>19 DEF EntryType
  <2>3. entry.outstanding = first.outstanding + 1 /\ entry.changes = first.changes
    BY <2>1 DEF EntryType
  <2> QED
    BY <2>1, <2>2, <2>3
<1> HIDE DEF entry
<1>21. x.requests = Append(Append(c.requests, r), q)
  BY <1>10, <1>12, <1>14
<1>22. x.listening = listening
  BY <1>7, <1>10, <1>12 DEF Only, Fields
<1>23. ASSUME NEW u \in Watched, u # t
       PROVE  /\ Entry(x, u) = Entry(c, u) /\ SameAsked(x.requests, c.requests, u)
              /\ Due(x.incoming, x.requests, u) = Due(c.incoming, c.requests, u)
  <2>1. SameTarget(x, y, u)
    BY <1>11, <1>13, <1>23, SameTargetTrans
  <2> QED
    BY <1>14, <1>15, <2>1 DEF SameTarget, SamePlace
<1> QED
  BY <1>2, <1>5, <1>18, <1>20, <1>21, <1>22, <1>23 DEF listening, r, q

\* Of a target that does not start over what was gathered is taken, if it is active.
TakenAt(x, s, version, t) ==
    /\ SameAsked(x.requests, s.requests, t)
    /\ Due(s.incoming, x.requests, t) = Due(s.incoming, s.requests, t)
    /\ Entry(x, t).outstanding = Entry(s, t).outstanding /\ Entry(x, t).current = Entry(s, t).current
    /\ t \in Active(s) => x.listening[t] = version /\ DOMAIN Entry(x, t).changes = {}
    /\ t \notin Active(s) =>
          /\ Entry(x, t) = Entry(s, t)
          /\ t \in DOMAIN s.listening => x.listening[t] = s.listening[t]

\* A target that starts over is left, and asked for with no token.
OverAgain(x, s, t) ==
    /\ x.requests = Append(Append(s.requests, [target |-> t, add |-> FALSE, token |-> 0]),
                           [target |-> t, add |-> TRUE, token |-> 0])
    /\ x.listening[t] = 0 /\ Entry(x, t).outstanding = Entry(s, t).outstanding + 2
    /\ DOMAIN Entry(x, t).changes = {}

\* What the client has gathered is taken.
LEMMA TakenIs ==
    ASSUME NEW s, Typed(s), NEW version \in Versions, NEW x, x = Taken(s, version)
    PROVE  /\ DOMAIN x.listening = DOMAIN s.listening /\ DOMAIN x.agg = DOMAIN s.agg
           /\ \A t \in Watched : TakenAt(x, s, version, t)
<1>1. /\ Typed(x) /\ Only(x, s, {"updates", "resets", "agg", "listening"})
      /\ x.agg = [t \in DOMAIN s.agg |->
                     IF t \in Active(s) THEN [s.agg[t] EXCEPT !.changes = <<>>] ELSE s.agg[t]]
      /\ x.listening = [t \in DOMAIN s.listening |->
                           IF t \in Active(s) THEN version ELSE s.listening[t]]
  BY TakenTyped
<1>2. DOMAIN x.listening = DOMAIN s.listening /\ DOMAIN x.agg = DOMAIN s.agg
  BY <1>1
<1>3. x.requests = s.requests
  BY <1>1 DEF Only, Fields
<1>4. \A t : SameAsked(x.requests, s.requests, t)
  BY <1>3, MailSame
<1>5. s.agg \in Partial(Watched, EntryType)
  BY FieldTypes DEF Aggregator
<1>6. \A t \in DOMAIN s.agg : s.agg[t] \in EntryType
  BY <1>5, PartialIs
<1>7. Active(s) \subseteq DOMAIN s.agg /\ Active(s) \subseteq DOMAIN s.listening
  BY DEF Active, IsActiveTarget
<1>8. ASSUME NEW t \in Active(s)
      PROVE  /\ Entry(x, t).outstanding = Entry(s, t).outstanding
             /\ Entry(x, t).current = Entry(s, t).current
             /\ DOMAIN Entry(x, t).changes = {} /\ x.listening[t] = version
  <2>1. t \in DOMAIN s.agg /\ t \in DOMAIN s.listening /\ s.agg[t] \in EntryType
    BY <1>6, <1>7
  <2>2. x.agg[t] = [s.agg[t] EXCEPT !.changes = <<>>] /\ x.listening[t] = version
    BY <1>1, <1>8, <2>1
  <2>3. /\ x.agg[t].changes = <<>> /\ x.agg[t].outstanding = s.agg[t].outstanding
        /\ x.agg[t].current = s.agg[t].current
    BY <2>1, <2>2 DEF EntryType
  <2> QED
    BY <1>2, <2>1, <2>2, <2>3, PartialNone DEF Entry
<1>9. ASSUME NEW t, t \notin Active(s)
      PROVE  /\ Entry(x, t) = Entry(s, t)
             /\ t \in DOMAIN s.listening => x.listening[t] = s.listening[t]
  BY <1>1, <1>2, <1>9 DEF Entry
<1>10. \A t \in Watched : TakenAt(x, s, version, t)
  BY <1>3, <1>4, <1>8, <1>9 DEF TakenAt
<1> QED
  BY <1>2, <1>10

\* What is taken, when the targets have been asked for that start over.
Again(s, version) == FoldSet(Rewatch, Taken(s, version), s.resets \cap DOMAIN s.listening)

\* None starts over, or one.
LEMMA RewatchFew ==
    ASSUME NEW c
    PROVE  /\ FoldSet(Rewatch, c, {}) = c
           /\ \A t : FoldSet(Rewatch, c, {t}) = Rewatch(t, c)
<1> DEFINE p == [goal |-> "books", of |-> "rewatch", from |-> c]
<1>1. \A S : FoldSet(Rewatch, c, S) = FoldedSet(p, c, S)
  BY DEF FoldSet, MapThenFoldSet, FoldedSet, FoldStep
<1>2. \A t, y : FoldStep(p, t, y) = Rewatch(t, y)
  BY DEF FoldStep
<1> HIDE DEF p
<1>3. FoldedSet(p, c, {}) = c
  <2>1. IsFiniteSet({})
    BY FS_EmptySet
  <2>2. PICK g : Solution(g, p, c, {})
    BY <2>1, FoldedSetSolves
  <2> QED
    BY <2>2 DEF Solution
<1>4. ASSUME NEW t PROVE FoldedSet(p, c, {t}) = Rewatch(t, c)
  <2>1. IsFiniteSet({t})
    BY FS_Singleton
  <2>2. PICK g : Solution(g, p, c, {t})
    BY <2>1, FoldedSetSolves
  <2>3. Pick({t}) = t /\ {t} # {} /\ {t} \ {t} = {} /\ {t} \in SUBSET {t}
    BY DEF Pick
  <2>4. g[{t}] = FoldStep(p, t, g[{}]) /\ g[{}] = c /\ FoldedSet(p, c, {t}) = g[{t}]
    BY <2>2, <2>3 DEF Solution
  <2> QED
    BY <1>2, <2>4
<1> QED
  BY <1>1, <1>3, <1>4

\* What the client knows of the targets then.
LEMMA AgainIs ==
    ASSUME NEW s, Typed(s), DOMAIN s.listening \subseteq DOMAIN s.agg, s.resets \subseteq {Query},
           Query \in s.resets /\ Query \in DOMAIN s.listening => Query \in Active(s),
           NEW version \in Versions, NEW x, x = Again(s, version)
    PROVE  /\ Typed(x) /\ Only(x, s, {"updates", "resets", "agg", "listening", "requests", "idle"})
           /\ x.updates = <<>> /\ x.resets = {}
           /\ DOMAIN x.listening = DOMAIN s.listening /\ DOMAIN x.agg = DOMAIN s.agg
           /\ \A t \in Watched : IF t \in s.resets \cap DOMAIN s.listening THEN OverAgain(x, s, t)
                                 ELSE TakenAt(x, s, version, t)
<1> DEFINE y == Taken(s, version)
           R == s.resets \cap DOMAIN s.listening
<1>1. /\ Typed(y) /\ Only(y, s, {"updates", "resets", "agg", "listening"})
      /\ y.updates = <<>> /\ y.resets = {}
  BY TakenTyped
<1>2. /\ DOMAIN y.listening = DOMAIN s.listening /\ DOMAIN y.agg = DOMAIN s.agg
      /\ \A t \in Watched : TakenAt(y, s, version, t)
  BY TakenIs
<1>3. x = FoldSet(Rewatch, y, R)
  BY DEF Again
<1>4. y.requests = s.requests /\ y.incoming = s.incoming
  BY <1>1 DEF Only, Fields
<1> HIDE DEF y
<1>5. CASE R = {}
  <2>1. x = y
    BY <1>3, <1>5, RewatchFew
  <2>2. Only(x, s, {"updates", "resets", "agg", "listening", "requests", "idle"})
    BY <1>1, <2>1, OnlyMore
  <2> QED
    BY <1>1, <1>2, <1>5, <2>1, <2>2
<1>6. CASE R # {}
  <2>1. R = {Query} /\ Query \in DOMAIN y.listening /\ Query \in Active(s) /\ Query \in DOMAIN y.agg
    BY <1>2, <1>6
  <2>2. x = Rewatch(Query, y)
    BY <1>3, <2>1, RewatchFew, Zenon
  <2>3. /\ Rewatches(y, x) /\ Query \in Watched
        /\ x.requests = Append(Append(y.requests, [target |-> Query, add |-> FALSE, token |-> 0]),
                               [target |-> Query, add |-> TRUE, token |-> 0])
        /\ x.listening = [y.listening EXCEPT ![Query] = 0] /\ DOMAIN x.agg = DOMAIN y.agg \cup {Query}
        /\ Entry(x, Query).outstanding = Entry(y, Query).outstanding + 2
        /\ Entry(x, Query).changes = Entry(y, Query).changes
        /\ \A u \in Watched : u # Query =>
              /\ Entry(x, u) = Entry(y, u) /\ SameAsked(x.requests, y.requests, u)
              /\ Due(x.incoming, x.requests, u) = Due(y.incoming, y.requests, u)
    BY <1>1, <2>1, <2>2, RewatchIs
  <2>4. /\ Typed(x) /\ Only(x, y, {"listening", "agg", "requests", "idle"})
        /\ DOMAIN x.listening = DOMAIN y.listening
    BY <2>3 DEF Rewatches
  <2>5. Only(x, s, {"updates", "resets", "agg", "listening", "requests", "idle"})
    <3>1. Only(x, s, {"updates", "resets", "agg", "listening"}
                       \cup {"listening", "agg", "requests", "idle"})
      BY <1>1, <2>4, OnlyTrans
    <3> QED
      BY <3>1, OnlyMore
  <2>6. x.updates = <<>> /\ x.resets = {} /\ x.incoming = y.incoming
    BY <1>1, <2>4 DEF Only, Fields
  <2>7. OverAgain(x, s, Query)
    <3>1. TakenAt(y, s, version, Query)
      BY <1>2, <2>3
    <3>2. DOMAIN Entry(y, Query).changes = {} /\ Entry(y, Query).outstanding = Entry(s, Query).outstanding
      BY <2>1, <3>1 DEF TakenAt
    <3>3. x.listening[Query] = 0
      BY <2>1, <2>3
    <3> QED
      BY <1>4, <2>3, <3>2, <3>3 DEF OverAgain
  <2>8. ASSUME NEW t \in Watched, t # Query PROVE TakenAt(x, s, version, t)
    <3>1. TakenAt(y, s, version, t)
      BY <1>2
    <3>2. /\ Entry(x, t) = Entry(y, t) /\ SameAsked(x.requests, y.requests, t)
          /\ Due(x.incoming, x.requests, t) = Due(y.incoming, y.requests, t)
      BY <2>3, <2>8
    <3>3. t \in DOMAIN y.listening => x.listening[t] = y.listening[t]
      BY <2>3, <2>8
    <3>4. Active(s) \subseteq DOMAIN s.listening
      BY DEF Active, IsActiveTarget
    <3> QED
      BY <1>2, <1>4, <2>6, <3>1, <3>2, <3>3, <3>4 DEF TakenAt
  <2>9. DOMAIN x.agg = DOMAIN s.agg
    BY <1>2, <2>1, <2>3
  <2> QED
    BY <1>2, <2>1, <2>4, <2>5, <2>6, <2>7, <2>8, <2>9
<1> QED
  BY <1>5, <1>6

-----------------------------------------------------------------------------
(***************************************************************************)
(* A snapshot: the lookups that it answers.                                *)
(***************************************************************************)
\* A lookup hears one thing of its document.
OneThing(change) ==
    \/ change.modified = {} /\ change.removed = {}
    \/ change.added = {} /\ change.removed = {}
    \/ change.added = {} /\ change.modified = {}

\* One more lookup is answered, ...
LEMMA LookStepExact ==
    ASSUME NEW c, Typed(c), NEW changes,
           NEW p, p = [goal |-> "exact", of |-> "look", from |-> c, changes |-> changes],
           NEW s, NEW t \in Lookup, t \notin s, OneThing(changes[t]), NEW y, FoldInv(p, s, y)
    PROVE  FoldInv(p, s \cup {t}, FoldStep(p, t, y))
<1> DEFINE z == FoldStep(p, t, y)
<1>1. p.goal = "exact" /\ p.of = "look" /\ p.from = c /\ p.changes = changes
  OBVIOUS
<1>2. /\ Looks(c, y)
      /\ \A u : u \in y.received <=>
            \/ u \in s /\ changes[u].added # {}
            \/ u \in c.received /\ (u \in s => changes[u].modified # {} \/ changes[u].removed = {})
  BY <1>1 DEF FoldInv, ExactKept
<1>3. Typed(y) /\ Only(y, c, {"received", "broken"})
  BY <1>2 DEF Looks
<1>4. Typed(z) /\ Only(z, y, {"received", "broken"})
  BY <1>1, <1>3, LookStepTyped
<1>5. Looks(c, z)
  BY <1>3, <1>4 DEF Looks, Only
<1>6. Shape(y) /\ Shape(Require(y, t \in y.received)) /\ Require(y, t \in y.received).received = y.received
  BY <1>3 DEF Typed, Shape, Fields, Require
<1>7. /\ changes[t].added # {} => z.received = y.received \cup {t}
      /\ changes[t].added = {} /\ (changes[t].modified # {} \/ changes[t].removed = {})
            => z.received = y.received
      /\ changes[t].added = {} /\ changes[t].modified = {} /\ changes[t].removed # {}
            => z.received = y.received \ {t}
  <2> DEFINE ch == changes[t]
  <2>1. z = CASE ch.added # {} -> [y EXCEPT !.received = @ \cup {t}]
              [] ch.modified # {} -> Require(y, t \in y.received)
              [] ch.removed # {} ->
                     [Require(y, t \in y.received) EXCEPT !.received = @ \ {t}]
              [] OTHER -> y
    BY <1>1 DEF FoldStep
  <2>2. OneThing(ch)
    OBVIOUS
  <2> HIDE DEF ch, z
  <2>3. CASE ch.added # {}
    <3>1. ch.modified = {} /\ ch.removed = {}
      BY <2>2, <2>3 DEF OneThing
    <3>2. z = [y EXCEPT !.received = @ \cup {t}]
      BY <2>1, <2>3, <3>1
    <3> QED
      BY <1>6, <2>3, <3>2 DEF ch, Shape, Fields
  <2>4. CASE ch.modified # {}
    <3>1. ch.added = {} /\ ch.removed = {}
      BY <2>2, <2>4 DEF OneThing
    <3>2. z = Require(y, t \in y.received)
      BY <2>1, <2>4, <3>1
    <3> QED
      BY <1>6, <2>4, <3>1, <3>2 DEF ch
  <2>5. CASE ch.added = {} /\ ch.modified = {} /\ ch.removed # {}
    <3>1. z = [Require(y, t \in y.received) EXCEPT !.received = @ \ {t}]
      BY <2>1, <2>5
    <3> QED
      BY <1>6, <2>5, <3>1 DEF ch, Shape, Fields
  <2>6. CASE ch.added = {} /\ ch.modified = {} /\ ch.removed = {}
    <3>1. z = y
      BY <2>1, <2>6
    <3> QED
      BY <2>6, <3>1 DEF ch
  <2> QED
    BY <2>3, <2>4, <2>5, <2>6
<1> HIDE DEF z
<1>8. ASSUME NEW u
      PROVE  u \in z.received <=>
                \/ u \in s \cup {t} /\ changes[u].added # {}
                \/ /\ u \in c.received
                   /\ u \in s \cup {t} => changes[u].modified # {} \/ changes[u].removed = {}
  <2>1. CASE u # t
    <3>1. u \in z.received <=> u \in y.received
      BY <1>7, <2>1
    <3>2. u \in s \cup {t} <=> u \in s
      BY <2>1
    <3> QED
      BY <1>2, <3>1, <3>2
  <2>2. CASE u = t
    <3>1. t \in y.received <=> t \in c.received
      BY <1>2
    <3>2. t \in z.received <=>
             \/ changes[t].added # {}
             \/ t \in y.received /\ (changes[t].modified # {} \/ changes[t].removed = {})
      BY <1>7
    <3> QED
      BY <2>2, <3>1, <3>2
  <2> QED
    BY <2>1, <2>2
<1>9. FoldInv(p, s \cup {t}, z)
  BY <1>1, <1>5, <1>8 DEF FoldInv, ExactKept
<1> QED
  BY <1>9 DEF z

\* ... and all of them.
LEMMA LookedHas ==
    ASSUME NEW c, Typed(c), NEW changes, IsFiniteSet(DOMAIN changes),
           \A t \in DOMAIN changes : t \in Range(c.limbo) => OneThing(changes[t]),
           NEW x, x = Looked(c, changes)
    PROVE  LET S == {t \in DOMAIN changes : t \in Range(c.limbo)}
           IN  /\ Looks(c, x)
               /\ \A t : t \in x.received <=>
                     \/ t \in S /\ changes[t].added # {}
                     \/ /\ t \in c.received
                        /\ t \in S => changes[t].modified # {} \/ changes[t].removed = {}
<1> DEFINE S == {t \in DOMAIN changes : t \in Range(c.limbo)}
           p == [goal |-> "exact", of |-> "look", from |-> c, changes |-> changes]
<1>1. IsFiniteSet(S) /\ S \subseteq Lookup
  BY LookupsOf, FS_Subset
<1>8. \A t \in S : OneThing(changes[t])
  OBVIOUS
<1>2. Looked(c, changes) = FoldedSet(p, c, S)
  BY DEF Looked, FoldSet, MapThenFoldSet, FoldedSet, FoldStep
<1> HIDE DEF S
<1>3. FoldInv(p, {}, c)
  BY OnlySame DEF FoldInv, ExactKept, Looks
<1>4. ASSUME NEW s \in SUBSET S, NEW t \in S \ s, NEW y, FoldInv(p, s, y)
      PROVE  FoldInv(p, s \cup {t}, FoldStep(p, t, y))
  <2> DEFINE q == p
  <2>1. /\ q = [goal |-> "exact", of |-> "look", from |-> c, changes |-> changes]
        /\ FoldInv(q, s, y) /\ t \in Lookup /\ t \notin s /\ OneThing(changes[t])
    BY <1>1, <1>4, <1>8
  <2> HIDE DEF q, p
  <2>2. FoldInv(q, s \cup {t}, FoldStep(q, t, y))
    BY <2>1, LookStepExact
  <2> QED
    BY <2>2 DEF q
<1>5. FoldInv(p, S, FoldedSet(p, c, S))
  <2> HIDE DEF p
  <2> QED
    BY <1>1, <1>3, <1>4, FoldKeeps
<1>6. FoldInv(p, S, x)
  BY <1>2, <1>5
<1> QED
  BY <1>6 DEF FoldInv, ExactKept, S

\* What is gathered for an active target, as its change.
LEMMA ChangeOf ==
    ASSUME NEW s, NEW version, NEW t \in Active(s)
    PROVE  LET change == EventOf(s, version).changes[t]
           IN  /\ change.added = OfType(Entry(s, t), "Added")
               /\ change.modified = OfType(Entry(s, t), "Modified")
               /\ change.removed = OfType(Entry(s, t), "Removed")
               /\ change.current = Entry(s, t).current
<1>1. t \in DOMAIN s.agg /\ Entry(s, t) = s.agg[t]
  BY DEF Active, Entry
<1>2. EventOf(s, version).changes[t] = TargetChange(s.agg[t], version)
  BY DEF EventOf
<1> QED
  BY <1>1, <1>2 DEF TargetChange

\* A lookup hears one thing of its one document.
LEMMA LookupHears ==
    ASSUME NEW s, Typed(s), NEW version, NEW t \in Active(s), t \in Lookup
    PROVE  OneThing(EventOf(s, version).changes[t])
<1> DEFINE d == TheDoc(t)
           e == Entry(s, t)
           change == EventOf(s, version).changes[t]
<1>1. t \in Watched /\ t.docs = {d}
  BY LookupIs
<1>2. DOMAIN e.changes \subseteq {d}
  BY <1>1, EntryTyped
<1>3. \A type : OfType(e, type) = IF d \in DOMAIN e.changes /\ e.changes[d] = type THEN {d} ELSE {}
  BY <1>2 DEF OfType
<1>4. /\ change.added = OfType(e, "Added") /\ change.modified = OfType(e, "Modified")
      /\ change.removed = OfType(e, "Removed")
  BY ChangeOf
<1> HIDE DEF d, e, change
<1>5. OneThing(change)
  BY <1>3, <1>4 DEF OneThing
<1> QED
  BY <1>5 DEF change

\* A lookup that takes what it has gathered holds its document, or not.
LEMMA LookupAnswered ==
    ASSUME NEW s, Typed(s), NEW t \in Lookup, NEW D,
           t \in D <=> \/ OfType(Entry(s, t), "Added") # {}
                       \/ t \in s.received /\ (OfType(Entry(s, t), "Modified") # {}
                                               \/ OfType(Entry(s, t), "Removed") = {})
    PROVE  Holds(s, t) = IF t \in D THEN t.docs ELSE {}
<1> DEFINE d == TheDoc(t)
           e == Entry(s, t)
<1>1. t \in Watched /\ t # Query /\ t.docs = {d}
  BY LookupIs
<1>2. DOMAIN e.changes \subseteq {d}
  BY <1>1, EntryTyped
<1>3. RemoteKeys(s, t) = IF t \in s.received THEN {d} ELSE {}
  BY <1>1 DEF RemoteKeys
<1>4. \A type : OfType(e, type) = IF d \in DOMAIN e.changes /\ e.changes[d] = type THEN {d} ELSE {}
  BY <1>2 DEF OfType
<1> HIDE DEF d, e
<1>5. OfType(e, "Added") # {} => OfType(e, "Removed") = {} /\ OfType(e, "Added") = {d}
  BY <1>4
<1>6. OfType(e, "Modified") # {} => OfType(e, "Removed") = {}
  BY <1>4
<1>7. OfType(e, "Removed") \in {{}, {d}}
  BY <1>4
<1> QED
  BY <1>1, <1>3, <1>5, <1>6, <1>7 DEF Holds, e

-----------------------------------------------------------------------------
(***************************************************************************)
(* A snapshot: what it stores.                                             *)
(***************************************************************************)
\* What an event leaves in the caches before it is emitted, and what it says of the query.
Stored(c, event, old, late) ==
    LET saved == SaveTarget(Looked(c, event.changes), event.changes, event.resets, old, late)
        stored == UpdateCache(saved, event.updates)
    IN  IF event.version = 0 THEN stored
        ELSE [Require(stored, event.version >= c.lastSnap) EXCEPT !.lastSnap = event.version]

\* What an event changes on the client before it is emitted.
KeptFields == {"keys", "limboFree", "token", "savedFree"}
StoredFields == {"received", "broken", "cache", "leftOut", "lastSnap"} \cup KeptFields
EventFields == StoredFields \cup {"view"}

\* The change that an event brings to the query.
QueryChange(c, event) ==
    IF Query \in DOMAIN event.changes THEN event.changes[Query] ELSE NoChange(c)

\* SyncEngine::ApplyRemoteEvent: the books when an event is taken to the caches, ...
LEMMA StoredSound ==
    ASSUME NEW c, Typed(c), Sound(c), NEW event \in EventType,
           DOMAIN event.changes \subseteq DOMAIN c.listening, NEW old, NEW late,
           event.version = 0 \/ event.version >= c.lastSnap,
           Brought(c, event.changes), Spent(c, event.changes),
           Query \in DOMAIN event.changes /\ c.on
               => event.changes[Query].modified \subseteq c.view.synced
    PROVE  LET x == Stored(c, event, old, late)
               change == QueryChange(c, event)
           IN  /\ ApplyRemoteEvent(c, event, old, late) = Emit(x, change)
               /\ Typed(x) /\ Sound(x) /\ change \in ChangeType
               /\ Only(x, c, StoredFields)
               /\ x.received = Looked(c, event.changes).received
               /\ x.on => change.modified \subseteq x.view.synced \cup change.added
               /\ change.added \cup change.removed = {} \/ Idle(x)
               /\ x.lastSnap = IF event.version = 0 THEN c.lastSnap ELSE event.version
<1> DEFINE looked == Looked(c, event.changes)
           saved == SaveTarget(looked, event.changes, event.resets, old, late)
           stored == UpdateCache(saved, event.updates)
           required == Require(stored, event.version >= c.lastSnap)
           dated == [required EXCEPT !.lastSnap = event.version]
           versioned == IF event.version = 0 THEN stored ELSE dated
           change == QueryChange(c, event)
<1>1. ApplyRemoteEvent(c, event, old, late) = Emit(versioned, change)
  BY DEF ApplyRemoteEvent, QueryChange
<1>25. Stored(c, event, old, late) = versioned
  BY DEF Stored
<1>26. change = IF Query \in DOMAIN event.changes THEN event.changes[Query] ELSE NoChange(c)
  BY DEF QueryChange
<1> HIDE DEF change
<1>2. /\ event.version \in Versions /\ event.changes \in Partial(Watched, ChangeType)
      /\ event.updates \in Partial(Docs, CachedDoc)
  BY DEF EventType
<1>3. /\ Sound(looked) /\ Spent(looked, event.changes) /\ Typed(looked)
      /\ Only(looked, c, {"received", "broken"})
  BY <1>2, PartialIs, LookedSound
<1> HIDE DEF looked
<1>4. looked.listening = c.listening /\ looked.on = c.on /\ looked.view = c.view
  BY <1>3 DEF Only, Fields
<1>5. Typed(saved) /\ Only(saved, looked, KeptFields)
  BY <1>2, <1>3, <1>4, SaveTargetTyped DEF KeptFields
<1> HIDE DEF saved
<1>6. Typed(stored) /\ Only(stored, saved, {"cache", "leftOut"})
  BY <1>2, <1>5, UpdateCacheTyped
<1> HIDE DEF stored
<1>7. Typed(required) /\ Only(required, stored, {"broken"})
  BY <1>6, RequireTyped
<1>8. required.broken = (stored.broken \/ ~(event.version >= c.lastSnap))
  BY <1>6 DEF Require, Typed, Shape, Fields
<1> HIDE DEF required
<1>9. Only(dated, required, {"lastSnap"}) /\ dated["lastSnap"] = event.version
  BY <1>7 DEF Only, Typed, Shape, Fields
<1> HIDE DEF dated
<1>10. Typed(dated)
  BY <1>2, <1>7, <1>9, TypedOnly, ClientIs DEF Fields
<1>11. stored.broken = looked.broken /\ stored.broken \in BOOLEAN
  BY <1>5, <1>6, FieldTypes DEF Only, Fields, KeptFields
<1>12. event.version # 0 => dated.broken = looked.broken
  <2>1. dated.broken = required.broken
    BY <1>9 DEF Only, Fields
  <2>2. event.version # 0 => required.broken = stored.broken
    BY <1>8, <1>11
  <2> QED
    BY <1>11, <2>1, <2>2
<1>13. SameState(stored, looked)
  BY <1>5, <1>6, <1>11 DEF SameState, SameBooks, Only, Fields, KeptFields
<1>14. event.version # 0 => SameState(dated, looked)
  BY <1>5, <1>6, <1>7, <1>9, <1>12 DEF SameState, SameBooks, Only, Fields, KeptFields
<1>15. Typed(versioned) /\ SameState(versioned, looked)
  BY <1>6, <1>10, <1>13, <1>14
<1>16. change \in ChangeType
  BY <1>2, <1>26, PartialIs, NoChangeTyped
<1>17. versioned.on = c.on /\ versioned.view.synced = c.view.synced
  BY <1>4, <1>15 DEF SameState, SameBooks
<1>27. Only(versioned, c, StoredFields)
  <2>1. Only(stored, looked, KeptFields \cup {"cache", "leftOut"})
    BY <1>5, <1>6, OnlyTrans
  <2>2. Only(dated, stored, {"broken"} \cup {"lastSnap"})
    BY <1>7, <1>9, OnlyTrans
  <2>3. Only(stored, c, {"received", "broken"} \cup (KeptFields \cup {"cache", "leftOut"}))
    BY <1>3, <2>1, OnlyTrans
  <2>4. Only(dated, c, ({"received", "broken"} \cup (KeptFields \cup {"cache", "leftOut"}))
                           \cup ({"broken"} \cup {"lastSnap"}))
    BY <2>2, <2>3, OnlyTrans
  <2>5. Only(stored, c, StoredFields)
    BY <2>3, OnlyMore DEF StoredFields
  <2>6. Only(dated, c, StoredFields)
    BY <2>4, OnlyMore DEF StoredFields
  <2> QED
    BY <2>5, <2>6
<1>28. versioned.received = looked.received
  BY <1>15 DEF SameState, SameBooks
<1>23. stored.lastSnap = c.lastSnap /\ dated.lastSnap = event.version
  BY <1>3, <1>5, <1>6, <1>9 DEF Only, Fields, KeptFields
<1>24. versioned.lastSnap = IF event.version = 0 THEN c.lastSnap ELSE event.version
  BY <1>23
<1> HIDE DEF versioned
<1>18. Sound(versioned)
  BY <1>3, <1>15, SameStateSound
<1>19. versioned.on => change.modified \subseteq versioned.view.synced \cup change.added
  <2>1. CASE Query \in DOMAIN event.changes
    BY <1>17, <1>26, <2>1
  <2>2. CASE Query \notin DOMAIN event.changes
    BY <1>26, <2>2 DEF NoChange
  <2> QED
    BY <2>1, <2>2
<1>20. change.added \cup change.removed = {} \/ Idle(versioned)
  <2>1. CASE Query \in DOMAIN event.changes
    <3>1. Entry(versioned, Query) = Entry(looked, Query)
      BY <1>15 DEF SameState, SameBooks, Entry
    <3> QED
      BY <1>3, <2>1, <3>1 DEF Idle, Spent
  <2>2. CASE Query \notin DOMAIN event.changes
    BY <1>26, <2>2 DEF NoChange
  <2> QED
    BY <2>1, <2>2
<1> QED
  BY <1>1, <1>15, <1>16, <1>18, <1>19, <1>20, <1>24, <1>25, <1>27, <1>28 DEF change, looked

\* ... and what the caches have: the documents of the query, with its token, ...
KeysTaken(x, c, event) ==
    LET change == event.changes[Query]
    IN  /\ x.keys = IF Query \in DOMAIN event.changes
                    THEN (c.keys \ change.removed) \cup change.added ELSE c.keys
        /\ x.token \in {c.token} \cup
                       IF Query \in DOMAIN event.changes THEN {c.listening[Query]} ELSE {}
        /\ Query \in DOMAIN event.changes /\ Touched(change) # {} => x.token = c.listening[Query]

\* ... the versions saved for the query, ...
VersionsTaken(x, c, event) ==
    /\ x.limboFree = IF Query \in DOMAIN event.changes /\ Query \in event.resets THEN 0
                     ELSE c.limboFree
    /\ \/ x.token = c.token /\ x.savedFree = c.savedFree
       \/ /\ Query \in DOMAIN event.changes
          /\ x.token = c.listening[Query] /\ x.savedFree = x.limboFree

\* ... what is left out still, which did not change, ...
LeftTaken(x, c) == x.leftOut \subseteq c.leftOut /\ \A d \in x.leftOut : x.cache[d] = c.cache[d]

\* ... and every document, or its news.
CacheTaken(x, c, u, d) ==
    \/ /\ d \in DOMAIN u /\ x.cache[d] = u[d]
       /\ u[d].version > 0 => u[d].version >= c.cache[d].version
    \/ /\ x.cache[d] = c.cache[d]
       /\ d \in DOMAIN u => u[d].version # 0 /\ ~(u[d].version > c.cache[d].version)

\* What a snapshot leaves on disk.
LEMMA StoredIs ==
    ASSUME NEW c, Typed(c), NEW event \in EventType, DOMAIN event.changes \subseteq DOMAIN c.listening,
           NEW old, NEW late
    PROVE  LET x == Stored(c, event, old, late)
           IN  /\ KeysTaken(x, c, event) /\ VersionsTaken(x, c, event) /\ LeftTaken(x, c)
               /\ \A d \in Docs : CacheTaken(x, c, event.updates, d)
<1> DEFINE looked == Looked(c, event.changes)
           saved == SaveTarget(looked, event.changes, event.resets, old, late)
           stored == UpdateCache(saved, event.updates)
           required == Require(stored, event.version >= c.lastSnap)
           dated == [required EXCEPT !.lastSnap = event.version]
           versioned == IF event.version = 0 THEN stored ELSE dated
           change == event.changes[Query]
           u == event.updates
<1>1. Stored(c, event, old, late) = versioned
  BY DEF Stored
<1>2. /\ event.version \in Versions /\ event.changes \in Partial(Watched, ChangeType)
      /\ event.updates \in Partial(Docs, CachedDoc)
  BY DEF EventType
<1>3. Typed(looked) /\ Only(looked, c, {"received", "broken"})
  BY <1>2, PartialIs, LookedTyped
<1> HIDE DEF looked
<1>4. /\ looked.listening = c.listening /\ looked.keys = c.keys /\ looked.token = c.token
      /\ looked.cache = c.cache /\ looked.savedFree = c.savedFree
      /\ looked.limboFree = c.limboFree /\ looked.leftOut = c.leftOut
  BY <1>3 DEF Only, Fields
<1>5. Typed(saved) /\ Only(saved, looked, KeptFields)
  BY <1>2, <1>3, <1>4, SaveTargetTyped DEF KeptFields
<1>6. /\ saved.keys = IF Query \in DOMAIN event.changes
                      THEN (c.keys \ change.removed) \cup change.added ELSE c.keys
      /\ saved.token \in {c.token} \cup
                         IF Query \in DOMAIN event.changes THEN {c.listening[Query]} ELSE {}
      /\ Query \in DOMAIN event.changes /\ Touched(change) # {} => saved.token = c.listening[Query]
      /\ VersionsTaken(saved, c, event)
  <2>1. CASE Query \notin DOMAIN event.changes
    <3>1. saved = looked
      BY <2>1 DEF SaveTarget
    <3> HIDE DEF saved
    <3> QED
      BY <1>4, <2>1, <3>1 DEF VersionsTaken
  <2>2. CASE Query \in DOMAIN event.changes
    <3> DEFINE keys == (looked.keys \ change.removed) \cup change.added
               free == IF Query \in event.resets THEN 0 ELSE looked.limboFree
               some == [looked EXCEPT !.keys = keys, !.limboFree = free]
               all == [some EXCEPT !.token = looked.listening[Query], !.savedFree = some.limboFree]
    <3>1. saved \in {some, all} /\ (Touched(change) # {} => saved = all)
      BY <2>2 DEF SaveTarget
    <3> HIDE DEF saved, keys, free
    <3>2. /\ some.keys = keys /\ some.token = looked.token
          /\ some.limboFree = free /\ some.savedFree = looked.savedFree
          /\ all.keys = keys /\ all.token = looked.listening[Query]
          /\ all.limboFree = free /\ all.savedFree = free
      BY <1>3 DEF Typed, Shape, Fields
    <3> HIDE DEF some, all
    <3>3. VersionsTaken(saved, c, event)
      BY <1>4, <2>2, <3>1, <3>2 DEF free, VersionsTaken
    <3> QED
      BY <1>4, <2>2, <3>1, <3>2, <3>3 DEF keys
  <2> QED
    BY <2>1, <2>2
<1> HIDE DEF saved
<1>7. saved.cache = c.cache /\ saved.leftOut = c.leftOut
  BY <1>4, <1>5 DEF Only, Fields, KeptFields
<1>8. Typed(stored) /\ Only(stored, saved, {"cache", "leftOut"})
  BY <1>2, <1>5, UpdateCacheTyped
<1>9. ASSUME NEW d \in Docs
      PROVE  /\ \/ /\ d \in DOMAIN u /\ stored.cache[d] = u[d]
                   /\ u[d].version > 0 => u[d].version >= c.cache[d].version
                \/ /\ stored.cache[d] = c.cache[d]
                   /\ d \in DOMAIN u => u[d].version # 0 /\ ~(u[d].version > c.cache[d].version)
             /\ stored.leftOut \subseteq c.leftOut
             /\ d \in stored.leftOut => stored.cache[d] = c.cache[d]
  <2> DEFINE news(e) == \/ saved.cache[e].version = 0
                        \/ u[e].version > saved.cache[e].version
                        \/ u[e].version = saved.cache[e].version /\ saved.cache[e].committed
             replaced == {e \in DOMAIN u : u[e].version = 0 \/ news(e)}
             cache == [e \in Docs |-> IF e \in replaced THEN u[e] ELSE saved.cache[e]]
             leftOut == saved.leftOut \ replaced
  <2>1. stored = [saved EXCEPT !.cache = cache, !.leftOut = leftOut]
    BY DEF UpdateCache
  <2> HIDE DEF cache, leftOut
  <2>2. stored.cache = cache /\ stored.leftOut = leftOut
    BY <1>5, <2>1 DEF Typed, Shape, Fields
  <2> HIDE DEF stored
  <2>3. stored.cache[d] = IF d \in replaced THEN u[d] ELSE c.cache[d]
    BY <1>7, <2>2 DEF cache
  <2>6. stored.leftOut = c.leftOut \ replaced
    BY <1>7, <2>2 DEF leftOut
  <2>4. d \in replaced <=> /\ d \in DOMAIN u
                           /\ \/ u[d].version = 0 \/ c.cache[d].version = 0
                              \/ u[d].version > c.cache[d].version
                              \/ u[d].version = c.cache[d].version /\ c.cache[d].committed
    BY <1>7
  <2> HIDE DEF replaced
  <2>5. c.cache[d].version \in Nat /\ (d \in DOMAIN u => u[d].version \in Nat)
    <3>1. c.cache \in [Docs -> CachedDoc] /\ \A e \in DOMAIN u : u[e] \in CachedDoc
      BY <1>2, FieldTypes, PartialIs
    <3> QED
      BY <3>1, ZeroVersion DEF CachedDoc
  <2> QED
    BY <2>3, <2>4, <2>5, <2>6
<1> HIDE DEF stored
<1>10. /\ stored.keys = saved.keys /\ stored.token = saved.token
       /\ stored.savedFree = saved.savedFree /\ stored.limboFree = saved.limboFree
  BY <1>8 DEF Only, Fields
<1>11. Typed(required) /\ Only(required, stored, {"broken"})
  BY <1>8, RequireTyped
<1> HIDE DEF required
<1>12. Only(dated, required, {"lastSnap"})
  BY <1>11 DEF Only, Typed, Shape, Fields
<1> HIDE DEF dated
<1>13. /\ versioned.keys = saved.keys /\ versioned.token = saved.token
       /\ versioned.savedFree = saved.savedFree /\ versioned.limboFree = saved.limboFree
       /\ versioned.cache = stored.cache /\ versioned.leftOut = stored.leftOut
  BY <1>10, <1>11, <1>12 DEF Only, Fields
<1> HIDE DEF versioned
<1>14. KeysTaken(versioned, c, event)
  BY <1>6, <1>13 DEF KeysTaken, change
<1>15. ASSUME NEW d \in Docs PROVE CacheTaken(versioned, c, event.updates, d)
  BY <1>9, <1>13 DEF CacheTaken, u
<1>16. VersionsTaken(versioned, c, event)
  BY <1>6, <1>13 DEF VersionsTaken
<1>17. LeftTaken(versioned, c)
  <2>1. stored.leftOut \subseteq Docs
    BY <1>8, FieldTypes
  <2>2. stored.leftOut \subseteq c.leftOut
    BY <1>9, <2>1
  <2> QED
    BY <1>9, <1>13, <2>1, <2>2 DEF LeftTaken
<1> QED
  BY <1>1, <1>14, <1>15, <1>16, <1>17

-----------------------------------------------------------------------------
(***************************************************************************)
(* A snapshot: what it finds.                                              *)
(***************************************************************************)
\* A snapshot of the server: the books when what was gathered is taken, and what has to start
\* over is asked for.
LEMMA AgainSound ==
    ASSUME NEW c, Typed(c), Running(c), LookedUp(c), Linked(c), c.stream = "Open",
           NEW version \in Versions, version >= c.lastSnap,
           NEW s, s = Synthesized(c, version), NEW again, again = Again(s, version),
           NEW event, event = EventOf(s, version)
    PROVE  /\ Gathered(c, s) /\ Running(s) /\ DOMAIN s.agg = DOMAIN c.agg
           /\ Typed(again) /\ Sound(again) /\ event \in EventType /\ event.version = version
           /\ DOMAIN event.changes = Active(s) /\ DOMAIN event.changes \subseteq DOMAIN again.listening
           /\ event.version >= again.lastSnap /\ again.incoming = c.incoming
           /\ again.lastSnap = c.lastSnap
           /\ Brought(again, event.changes) /\ Spent(again, event.changes)
           /\ Query \in DOMAIN event.changes /\ again.on
                => event.changes[Query].modified \subseteq again.view.synced
<1> DEFINE taken == Taken(s, version)
           R == s.resets \cap DOMAIN s.listening
<1>2. Gathers(c) /\ DOMAIN c.listening \subseteq DOMAIN c.agg
  BY DEF Running, Flowing, Wired
<1>3. Gathered(c, s) /\ SameNews(s, c)
  BY <1>2, SynthesizedTyped, SynthesizedNews
<1>29. again = FoldSet(Rewatch, taken, R)
  BY DEF Again
<1>4. Typed(s) /\ Running(s) /\ s.stream = "Open"
  BY <1>3, NewsKeep DEF Gathered
<1>5. /\ s.limbo = c.limbo /\ s.listening = c.listening /\ s.received = c.received
      /\ s.on = c.on /\ s.lastSnap = c.lastSnap
  BY <1>3 DEF Gathered, Only, Fields
<1>6. LookedUp(s) /\ Linked(s)
  BY <1>5 DEF LookedUp, Linked
<1>7. /\ event \in EventType /\ DOMAIN event.changes = Active(s)
      /\ Active(s) \subseteq DOMAIN s.listening
  BY <1>4, EventOfTyped
<1>8. event.version = version
  BY DEF EventOf
<1>9. /\ Sound(taken) /\ Spent(taken, event.changes) /\ taken.resets = {}
      /\ DOMAIN taken.listening = DOMAIN s.listening
  BY <1>4, <1>6, TakenSound
<1>10. Typed(taken) /\ Only(taken, s, {"updates", "resets", "agg", "listening"})
  BY <1>4, TakenTyped
<1>11. \A t \in Active(s) : event.changes[t].modified \cup event.changes[t].removed
                               \subseteq RemoteKeys(s, t)
  BY <1>4, EventBrought DEF Running, Flowing
<1> HIDE DEF taken
<1>12. /\ taken.stream = "Open" /\ taken.incoming = s.incoming /\ taken.requests = s.requests
       /\ taken.lastSnap = s.lastSnap /\ taken.limbo = s.limbo /\ taken.on = s.on
       /\ taken.received = s.received /\ taken.view = s.view
  BY <1>4, <1>10 DEF Only, Fields
<1>13. R \in SUBSET DOMAIN taken.listening
  BY <1>9
<1>14. \A t \in R : Due(taken.incoming, taken.requests, t) = 0
  BY <1>4, <1>12 DEF Running, Flowing, Resetting
<1> HIDE DEF R
<1>15. Runs(again) /\ \A t : Entry(again, t).changes = Entry(taken, t).changes
  BY <1>9, <1>10, <1>12, <1>13, <1>14, <1>29, RewatchAllRuns DEF Sound
<1>16. Rewatches(taken, again)
  BY <1>10, <1>13, <1>29, RewatchAll
<1>17. /\ Typed(again) /\ DOMAIN again.listening = DOMAIN taken.listening
       /\ again.limbo = taken.limbo /\ again.received = taken.received /\ again.on = taken.on
       /\ again.view = taken.view /\ again.lastSnap = taken.lastSnap
  BY <1>16 DEF Rewatches, Only, Fields
<1>18. Sound(again)
  BY <1>9, <1>15, <1>17 DEF Sound, LookedUp, Linked
<1>19. Spent(again, event.changes)
  BY <1>9, <1>15 DEF Spent
<1>20. Range(s.limbo) \subseteq Lookup /\ s.received \subseteq Lookup
  BY <1>4, LookupsOf, FieldTypes
<1>21. Brought(again, event.changes)
  <2>1. ASSUME NEW t \in Active(s), t \in Range(s.limbo),
               event.changes[t].modified # {} \/ event.changes[t].removed # {}
        PROVE  t \in s.received
    <3>1. RemoteKeys(s, t) # {}
      BY <1>11, <2>1
    <3>2. t # Query
      BY <1>20, <2>1, LookupIs
    <3> QED
      BY <3>1, <3>2 DEF RemoteKeys
  <2> QED
    BY <1>7, <1>12, <1>17, <2>1 DEF Brought
<1>22. Query \in DOMAIN event.changes /\ again.on
         => event.changes[Query].modified \subseteq again.view.synced
  <2>1. ASSUME Query \in Active(s), s.on
        PROVE  event.changes[Query].modified \subseteq s.view.synced
    <3>1. Query \notin s.received
      BY <1>20, LookupIs
    <3>2. RemoteKeys(s, Query) = s.view.synced
      BY <2>1, <3>1 DEF RemoteKeys
    <3> QED
      BY <1>11, <2>1, <3>2
  <2> QED
    BY <1>7, <1>12, <1>17, <2>1
<1>23. DOMAIN event.changes \subseteq DOMAIN again.listening
  BY <1>7, <1>9, <1>17
<1>24. event.version >= again.lastSnap
  BY <1>5, <1>8, <1>12, <1>17
<1>26. again.incoming = c.incoming /\ again.lastSnap = c.lastSnap
  BY <1>3, <1>12, <1>16 DEF Gathered, Rewatches, Only, Fields
<1>27. DOMAIN s.agg = DOMAIN c.agg
  BY <1>3 DEF SameNews, SameDue
<1> QED
  BY <1>3, <1>4, <1>7, <1>8, <1>17, <1>18, <1>19, <1>21, <1>22, <1>23, <1>24, <1>26, <1>27

\* What is gathered, with what the lookups did not find, when a snapshot is read.
Found(s, c, version) ==
    /\ Gathered(c, s) /\ DOMAIN s.agg = DOMAIN c.agg
    /\ \A t \in Watched : SameTypes(s, c, t, {})
    /\ DOMAIN s.updates = DOMAIN c.updates \cup {TheDoc(t) : t \in Unfound(c)}
    /\ \A d \in DOMAIN s.updates :
          s.updates[d] = IF d \in DOMAIN c.updates THEN c.updates[d] ELSE DeletedAt(version)
    /\ Unfound(c) \subseteq Lookup

\* What a snapshot finds on the client that heard it.
LEMMA SnapshotFound ==
    ASSUME Ready, Received("snapshot"), NEW n, n = Head(client.incoming).version,
           NEW s, s = Synthesized(Online, n)
    PROVE  /\ Found(s, Online, n) /\ Typed(Online) /\ Running(Online) /\ LookedUp(Online)
           /\ Linked(Online) /\ Online.stream = "Open" /\ n >= Online.lastSnap /\ n \in Versions
           /\ DOMAIN Online.listening \subseteq DOMAIN Online.agg
<1> DEFINE c == Online
<1>1. /\ client.incoming # <<>> /\ n \in Versions /\ n \in Nat /\ client.lastSnap <= n
  BY SnapshotHead
<1>2. World /\ Sound(client) /\ Fresher(client, Len(log))
  BY ReadyIs
<1>3. Typed(c) /\ Running(c) /\ LookedUp(c) /\ Linked(c) /\ c.stream = "Open"
  BY <1>1, <1>2, OnlineSound
<1>4. /\ c.listening = client.listening /\ c.updates = client.updates /\ c.lastSnap = client.lastSnap
      /\ c.agg = client.agg /\ client.stream = "Open"
      /\ \A t : RemoteKeys(c, t) = RemoteKeys(client, t) /\ Entry(c, t) = Entry(client, t)
  BY <1>1, OnlineIs DEF Only, Fields
<1>5. n >= c.lastSnap
  <2>1. client.lastSnap \in Nat
    BY ReadyIs, FieldTypes, ZeroVersion
  <2> QED
    BY <1>1, <1>4, <2>1
<1> HIDE DEF c
<1>6. Gathers(c) /\ DOMAIN c.listening \subseteq DOMAIN c.agg
  BY <1>3 DEF Running, Flowing, Wired
<1>7. ASSUME NEW t \in DOMAIN c.listening, Entry(c, t).outstanding = 0
      PROVE  OfType(Entry(c, t), "Added") \subseteq DOMAIN c.updates
  <2>1. t \in DOMAIN client.listening /\ t \in Watched
    BY <1>4, ReadyIs, VersionsOf
  <2>2. IsActiveTarget(client, t)
    BY <1>4, <1>7, <2>1 DEF IsActiveTarget
  <2>3. Collects(client, t)
    BY <1>1, <2>1, <2>2, ActiveTold DEF Flows
  <2> QED
    BY <1>4, <2>3 DEF Collects
<1>8. s = Synthesized(c, n)
  BY DEF c
<1>9. Found(s, c, n)
  BY <1>1, <1>3, <1>6, <1>7, <1>8, SynthesizedIs DEF Found
<1> QED
  BY <1>1, <1>3, <1>5, <1>6, <1>9 DEF c

\* The versions kept for the query, and what it left out.
SameVersions(x, c) ==
    /\ x.savedFree = c.savedFree /\ x.limboFree = c.limboFree /\ x.leftOut = c.leftOut
    /\ x.lastSnap = c.lastSnap

\* Nothing else has changed when a snapshot is read, and what a target gathers is the same.
LEMMA FoundSame ==
    ASSUME Ready, Received("snapshot"), NEW n, n = Head(client.incoming).version,
           NEW s, s = Synthesized(Online, n)
    PROVE  /\ Typed(s) /\ s.listening = client.listening /\ s.resets = client.resets
           /\ s.requests = client.requests /\ s.incoming = Tail(client.incoming)
           /\ s.serving = client.serving /\ s.on = client.on /\ s.keys = client.keys
           /\ s.token = client.token /\ s.cache = client.cache /\ s.writes = client.writes
           /\ s.limbo = client.limbo /\ s.received = client.received /\ s.stream = client.stream
           /\ DOMAIN s.agg = DOMAIN client.agg /\ DOMAIN client.updates \subseteq DOMAIN s.updates
           /\ SameView(s, client) /\ SameVersions(s, client)
<1> DEFINE c == Online
<1>1. Found(s, c, n)
  BY SnapshotFound
<1>2. client.incoming # <<>>
  BY SnapshotHead
<1>3. /\ c.incoming = Tail(client.incoming) /\ SameView(c, client)
      /\ Only(c, client, {"incoming", "online", "raised", "view", "timer", "failed"})
  BY <1>2, OnlineIs
<1> HIDE DEF c
<1>4. Gathered(c, s) /\ DOMAIN s.agg = DOMAIN c.agg /\ DOMAIN c.updates \subseteq DOMAIN s.updates
  BY <1>1 DEF Found
<1>5. /\ s.listening = c.listening /\ s.resets = c.resets /\ s.requests = c.requests
      /\ s.incoming = c.incoming /\ s.serving = c.serving /\ s.on = c.on /\ s.keys = c.keys
      /\ s.token = c.token /\ s.cache = c.cache /\ s.writes = c.writes /\ s.limbo = c.limbo
      /\ s.received = c.received /\ s.stream = c.stream /\ s.view = c.view /\ Typed(s)
  BY <1>4 DEF Gathered, Only, Fields
<1>6. /\ c.listening = client.listening /\ c.resets = client.resets /\ c.requests = client.requests
      /\ c.serving = client.serving /\ c.on = client.on /\ c.keys = client.keys
      /\ c.token = client.token /\ c.cache = client.cache /\ c.writes = client.writes
      /\ c.limbo = client.limbo /\ c.received = client.received /\ c.stream = client.stream
      /\ c.agg = client.agg /\ c.updates = client.updates
  BY <1>3 DEF Only, Fields
<1>7. SameView(s, client)
  BY <1>3, <1>5 DEF SameView
<1>8. SameVersions(s, client)
  BY <1>3, <1>4 DEF SameVersions, Gathered, Only, Fields
<1> QED
  BY <1>3, <1>4, <1>5, <1>6, <1>7, <1>8

\* The same of every target.
AsGathered(s, c, t) ==
    /\ RemoteKeys(s, t) = RemoteKeys(c, t) /\ Holds(s, t) = Holds(c, t)
    /\ OfType(Entry(s, t), "Added") = OfType(Entry(c, t), "Added")
    /\ OfType(Entry(s, t), "Removed") = OfType(Entry(c, t), "Removed")
    /\ Entry(s, t).outstanding = Entry(c, t).outstanding /\ Entry(s, t).current = Entry(c, t).current
    /\ DOMAIN Entry(c, t).changes = {} => Entry(s, t) = Entry(c, t)
    /\ t \in Active(s) <=> IsActiveTarget(c, t)

\* The targets are found as they were gathered.
LEMMA FoundTargets ==
    ASSUME Ready, Received("snapshot"), NEW n, n = Head(client.incoming).version,
           NEW s, s = Synthesized(Online, n), NEW t \in Watched
    PROVE  AsGathered(s, client, t)
<1>1. Found(s, Online, n) /\ DOMAIN Online.listening \subseteq DOMAIN Online.agg
  BY SnapshotFound
<1>2. client.incoming # <<>>
  BY SnapshotHead
<1>3. RemoteKeys(Online, t) = RemoteKeys(client, t) /\ Entry(Online, t) = Entry(client, t)
  BY <1>2, OnlineIs
<1>4. Gathered(Online, s) /\ SameTypes(s, Online, t, {}) /\ DOMAIN s.agg = DOMAIN Online.agg
  BY <1>1 DEF Found
<1>5. /\ RemoteKeys(s, t) = RemoteKeys(client, t) /\ s.listening = Online.listening
      /\ s.listening = client.listening /\ Typed(s) /\ Typed(client)
  <2>1. Typed(client)
    BY ReadyIs
  <2>2. Typed(s) /\ s.listening = client.listening
    BY FoundSame
  <2>3. Online.listening = client.listening
    BY <1>2, OnlineIs DEF Only, Fields
  <2>4. RemoteKeys(s, t) = RemoteKeys(Online, t)
    <3> DEFINE c == Online
    <3>1. Gathered(c, s)
      BY <1>4
    <3> HIDE DEF c
    <3>2. RemoteKeys(s, t) = RemoteKeys(c, t)
      BY <3>1, GatheredSees
    <3> QED
      BY <3>2 DEF c
  <2> QED
    BY <1>3, <2>1, <2>2, <2>3, <2>4
<1> DEFINE e == Entry(s, t)
           f == Entry(client, t)
<1>6. /\ e.outstanding = f.outstanding /\ e.current = f.current
      /\ \A d, type : d \in OfType(e, type) <=> d \in OfType(f, type)
  BY <1>3, <1>4 DEF SameTypes
<1>7. e \in EntryType /\ f \in EntryType
  BY <1>5, EntryTyped
<1> HIDE DEF e, f
<1>8. OfType(e, "Added") = OfType(f, "Added") /\ OfType(e, "Removed") = OfType(f, "Removed")
  <2>1. ASSUME NEW type PROVE OfType(e, type) = OfType(f, type)
    <3>1. \A d : d \in OfType(e, type) <=> d \in OfType(f, type)
      BY <1>6
    <3> DEFINE A == OfType(e, type)
               B == OfType(f, type)
    <3> HIDE DEF A, B
    <3>2. \A d : d \in A <=> d \in B
      BY <3>1 DEF A, B
    <3>3. A = B
      BY <3>2
    <3> QED
      BY <3>3 DEF A, B
  <2> QED
    BY <2>1
<1>9. ASSUME DOMAIN f.changes = {} PROVE e = f
  <2>1. \A type : OfType(f, type) = {}
    BY <1>9 DEF OfType
  <2>2. DOMAIN e.changes = {}
    BY <1>6, <2>1 DEF OfType
  <2>3. e.changes \in Partial(Docs, Change) /\ f.changes \in Partial(Docs, Change)
    BY <1>7 DEF EntryType
  <2>4. /\ e.changes = [d \in DOMAIN e.changes |-> e.changes[d]]
        /\ f.changes = [d \in DOMAIN f.changes |-> f.changes[d]]
    BY <2>3, PartialIs
  <2>5. e.changes = f.changes
    BY <1>9, <2>2, <2>4
  <2> QED
    BY <1>6, <1>7, <2>5 DEF EntryType
<1>10. t \in Active(s) <=> IsActiveTarget(client, t)
  BY <1>1, <1>4, <1>5, <1>6 DEF Active, IsActiveTarget, e, f
<1>11. Holds(s, t) = Holds(client, t)
  BY <1>5, <1>8 DEF Holds, e, f
<1> QED
  BY <1>5, <1>6, <1>8, <1>9, <1>10, <1>11 DEF AsGathered, e, f

\* All that is taken to the cache was true when the server's snapshot was made.
LEMMA FoundTrue ==
    ASSUME Ready, Received("snapshot"), NEW n, n = Head(client.incoming).version,
           NEW s, s = Synthesized(Online, n), NEW d \in DOMAIN s.updates
    PROVE  TrueUpdate(log, s, d, n)
<1>1. /\ client.incoming # <<>> /\ n \in Nat
      /\ \A e \in DOMAIN client.updates : TrueUpdate(log, client, e, n)
  BY SnapshotHead
<1>2. Found(s, Online, n)
  BY SnapshotFound
<1>3. s.keys = client.keys
  BY FoundSame
<1>4. /\ Only(Online, client, {"incoming", "online", "raised", "view", "timer", "failed"})
      /\ \A t : RemoteKeys(Online, t) = RemoteKeys(client, t) /\ Entry(Online, t) = Entry(client, t)
  BY <1>1, OnlineIs
<1>5. /\ Online.updates = client.updates /\ Online.listening = client.listening
      /\ Online.agg = client.agg
  BY <1>4 DEF Only, Fields
<1>6. CASE d \in DOMAIN client.updates
  <2>1. s.updates[d] = client.updates[d]
    BY <1>2, <1>5, <1>6 DEF Found
  <2> QED
    BY <1>1, <1>3, <1>6, <2>1 DEF TrueUpdate
<1>7. CASE d \notin DOMAIN client.updates
  <2>1. s.updates[d] = DeletedAt(n)
    BY <1>2, <1>5, <1>7 DEF Found
  <2>2. PICK t \in Unfound(Online) : d = TheDoc(t)
    BY <1>2, <1>5, <1>7 DEF Found
  <2>3. t \in Lookup
    BY <1>2 DEF Found
  <2>4. t \in Watched /\ t # Query /\ t.docs = {d} /\ d \in Docs
    BY <2>2, <2>3, LookupIs
  <2>5. /\ IsActiveTarget(client, t) /\ d \notin RemoteKeys(client, t) /\ t \in DOMAIN client.listening
    BY <1>4, <1>5, <2>2 DEF Unfound, IsActiveTarget
  <2>6. Collects(client, t)
    BY <1>1, <2>4, <2>5, ActiveTold DEF Flows
  <2>7. d \notin Holds(client, t)
    BY <1>7, <2>5, <2>6 DEF Collects, Holds
  <2>8. t \notin client.resets
    BY <2>4, ReadyIs DEF Net, Telltale
  <2>9. d \notin Have(log, t, n)
    BY <2>4, <2>5, <2>7, <2>8, SnapshotTold
  <2>10. Truth(log, d, n) = Missing
    BY <2>4, <2>9 DEF Have
  <2>11. d \notin client.keys
    BY <2>4, <2>5, LookedUpIs
  <2>12. Newest(log, d, n) \in 0 .. n
    BY <1>1, NewestIs
  <2> QED
    BY <1>1, <1>3, <2>1, <2>10, <2>11, <2>12 DEF TrueUpdate, DeletedAt
<1> QED
  BY <1>6, <1>7

-----------------------------------------------------------------------------
(***************************************************************************)
(* A snapshot: what it leaves behind.                                      *)
(***************************************************************************)
\* What has been taken of a snapshot, and asked for, but for the caches and the view.
Settled(x, s, n) ==
    /\ Typed(x) /\ x.incoming = Tail(client.incoming) /\ x.serving = client.serving
    /\ DOMAIN x.listening = DOMAIN client.listening /\ DOMAIN x.agg = DOMAIN client.agg
    /\ x.updates = <<>> /\ x.resets = {} /\ x.stream = "Open" /\ x.on = client.on
    /\ \A t \in Watched : IF t \in client.resets \cap DOMAIN client.listening
                          THEN OverAgain(x, s, t) ELSE TakenAt(x, s, n, t)

\* A query that starts over is active.
LEMMA ResetActive ==
    ASSUME Ready, client.stream = "Open", NEW t \in client.resets, t \in DOMAIN client.listening
    PROVE  t = Query /\ IsActiveTarget(client, t)
<1>1. Sound(client) /\ Net(log, client)
  BY ReadyIs
<1>2. Resetting(client)
  BY <1>1 DEF Sound, Runs, Running, Flowing
<1>3. t = Query /\ t \in Watched
  BY <1>1 DEF Net, Telltale, Watched
<1>4. Collects(client, t)
  BY <1>1, <1>3 DEF Net, Right, Flows
<1> QED
  BY <1>2, <1>3, <1>4 DEF Resetting, Collects, IsActiveTarget

\* Each target is left at the version of the snapshot, asked for again, or as it was.
LEMMA SnapshotSettled ==
    ASSUME Ready, Received("snapshot"), NEW n, n = Head(client.incoming).version,
           NEW s, s = Synthesized(Online, n), NEW a, a = Again(s, n),
           NEW x, Typed(x), Only(x, a, EventFields)
    PROVE  Settled(x, s, n)
<1>1. /\ Typed(s) /\ s.listening = client.listening /\ s.resets = client.resets
      /\ s.incoming = Tail(client.incoming) /\ s.serving = client.serving /\ s.on = client.on
      /\ s.stream = client.stream /\ DOMAIN s.agg = DOMAIN client.agg
  BY FoundSame
<1>2. client.incoming # <<>> /\ n \in Versions
  BY SnapshotHead
<1>3. client.stream = "Open"
  BY <1>2, OnlineIs
<1>4. DOMAIN s.listening \subseteq DOMAIN s.agg
  BY <1>1, <1>3, ReadyIs
<1>5. s.resets \subseteq {Query}
  BY <1>1, ReadyIs DEF Net, Telltale
<1>6. Query \in s.resets /\ Query \in DOMAIN s.listening => Query \in Active(s)
  <2> SUFFICES ASSUME Query \in s.resets, Query \in DOMAIN s.listening
               PROVE  Query \in Active(s)
    OBVIOUS
  <2>1. IsActiveTarget(client, Query)
    BY <1>1, <1>3, ResetActive
  <2>2. Query \in Watched
    BY DEF Watched
  <2> QED
    BY <2>1, <2>2, FoundTargets DEF AsGathered
<1>7. /\ Typed(a) /\ Only(a, s, {"updates", "resets", "agg", "listening", "requests", "idle"})
      /\ a.updates = <<>> /\ a.resets = {}
      /\ DOMAIN a.listening = DOMAIN s.listening /\ DOMAIN a.agg = DOMAIN s.agg
      /\ \A t \in Watched : IF t \in s.resets \cap DOMAIN s.listening THEN OverAgain(a, s, t)
                            ELSE TakenAt(a, s, n, t)
  BY <1>1, <1>2, <1>4, <1>5, <1>6, AgainIs
<1>8. /\ x.incoming = s.incoming /\ x.serving = s.serving /\ x.stream = s.stream /\ x.on = s.on
      /\ x.updates = a.updates /\ x.resets = a.resets /\ x.listening = a.listening
      /\ x.agg = a.agg /\ x.requests = a.requests
  BY <1>7, Zenon DEF Only, Fields, EventFields, StoredFields, KeptFields
<1>9. ASSUME NEW t \in Watched PROVE IF t \in client.resets \cap DOMAIN client.listening
                                     THEN OverAgain(x, s, t) ELSE TakenAt(x, s, n, t)
  <2>1. Entry(x, t) = Entry(a, t)
    BY <1>8 DEF Entry
  <2>2. IF t \in client.resets \cap DOMAIN client.listening THEN OverAgain(a, s, t)
        ELSE TakenAt(a, s, n, t)
    BY <1>1, <1>7
  <2>3. OverAgain(a, s, t) => OverAgain(x, s, t)
    BY <1>8, <2>1, Zenon DEF OverAgain
  <2>4. TakenAt(a, s, n, t) => TakenAt(x, s, n, t)
    BY <1>8, <2>1, Zenon DEF TakenAt
  <2> QED
    BY <2>2, <2>3, <2>4
<1>10. /\ x.incoming = Tail(client.incoming) /\ x.serving = client.serving
       /\ DOMAIN x.listening = DOMAIN client.listening /\ DOMAIN x.agg = DOMAIN client.agg
       /\ x.updates = <<>> /\ x.resets = {} /\ x.stream = "Open" /\ x.on = client.on
  BY <1>1, <1>3, <1>7, <1>8
<1> QED
  BY <1>9, <1>10 DEF Settled

\* A snapshot leaves a target right when it has what it was told.
LEMMA SnapshotRight ==
    ASSUME Ready, Received("snapshot"), NEW n, n = Head(client.incoming).version,
           NEW s, s = Synthesized(Online, n), NEW x, Settled(x, s, n), NEW t \in Watched,
           t \in DOMAIN client.listening =>
               RemoteKeys(x, t) = IF t \in Active(s) THEN Holds(s, t) ELSE RemoteKeys(s, t)
    PROVE  Right(log, x, t)
<1> DEFINE c == client
           in == c.incoming
<1>1. /\ Typed(x) /\ x.incoming = Tail(in) /\ x.serving = c.serving
      /\ DOMAIN x.listening = DOMAIN c.listening /\ DOMAIN x.agg = DOMAIN c.agg
      /\ x.updates = <<>> /\ x.resets = {} /\ x.stream = "Open"
      /\ IF t \in c.resets \cap DOMAIN c.listening THEN OverAgain(x, s, t) ELSE TakenAt(x, s, n, t)
  BY DEF Settled
<1>2. /\ Typed(s) /\ s.listening = c.listening /\ s.requests = c.requests /\ s.incoming = Tail(in)
      /\ DOMAIN s.agg = DOMAIN c.agg
  BY FoundSame
<1>3. AsGathered(s, c, t)
  BY FoundTargets
<1>4. /\ RemoteKeys(s, t) = RemoteKeys(c, t) /\ Holds(s, t) = Holds(c, t)
      /\ Entry(s, t).outstanding = Entry(c, t).outstanding /\ Entry(s, t).current = Entry(c, t).current
      /\ DOMAIN Entry(c, t).changes = {} => Entry(s, t) = Entry(c, t)
      /\ t \in Active(s) <=> IsActiveTarget(c, t)
  BY <1>3 DEF AsGathered
<1>5. /\ in # <<>> /\ in \in Seq(Message) /\ Head(in).kind = "snapshot"
      /\ Tail(in) \in Seq(Message)
  BY SnapshotHead
<1>6. c.stream = "Open" /\ c.requests \in Seq(RequestType) /\ Net(log, c)
  BY <1>5, OnlineIs, ReadyIs
<1>7. Due(Tail(in), c.requests, t) = Due(in, c.requests, t)
  <2> DEFINE req == c.requests
  <2>1. Head(in) \notin Answers(t)
    BY <1>5, AnswerKinds
  <2>2. req \in Seq(RequestType)
    BY <1>6
  <2> HIDE DEF in, req
  <2>3. Due(in, req, t) = Due(Tail(in), req, t) + (IF Head(in) \in Answers(t) THEN 1 ELSE 0)
    BY <1>5, <2>2, OneMessageRead
  <2>4. Due(Tail(in), req, t) \in Nat
    BY <1>5, <2>2, DueIs, Zenon
  <2> QED
    BY <2>1, <2>3, <2>4 DEF req
<1>8. CASE t \in c.resets \cap DOMAIN c.listening
  <2>1. OverAgain(x, s, t)
    BY <1>1, <1>8
  <2>2. IsActiveTarget(c, t)
    BY <1>6, <1>8, ResetActive
  <2>3. Holds(c, t) = {}
    BY <1>8, <2>2, SnapshotTold
  <2>4. RemoteKeys(x, t) = {}
    BY <1>4, <1>8, <2>2, <2>3
  <2>5. Entry(s, t).outstanding = 0
    BY <1>4, <2>2 DEF IsActiveTarget
  <2>6. t \in DOMAIN x.agg
    BY <1>1, <1>6, <1>8, ReadyIs
  <2>7. /\ x.requests = Append(Append(c.requests, [target |-> t, add |-> FALSE, token |-> 0]),
                               [target |-> t, add |-> TRUE, token |-> 0])
        /\ x.listening[t] = 0 /\ Entry(x, t).outstanding = 2 /\ DOMAIN Entry(x, t).changes = {}
    BY <1>2, <2>1, <2>5 DEF OverAgain
  <2> QED
    BY <1>1, <2>2, <2>4, <2>6, <2>7, SnapshotAgain
<1>9. CASE t \notin c.resets \cap DOMAIN c.listening
  <2>1. TakenAt(x, s, n, t)
    BY <1>1, <1>9
  <2>2. SameAsked(x.requests, c.requests, t)
    BY <1>2, <2>1 DEF TakenAt
  <2>3. Due(x.incoming, x.requests, t) = Due(in, c.requests, t)
    BY <1>1, <1>2, <1>7, <2>1 DEF TakenAt
  <2>4. AskedAsBefore(x, c, t)
    BY <1>1, <2>2, <2>3 DEF AskedAsBefore
  <2>5. CASE t \notin DOMAIN c.listening
    <3>1. Known(x, t)
      BY <1>1, <2>2, SnapshotKnown
    <3> QED
      BY <1>1, <2>5, <3>1 DEF Right
  <2>6. CASE t \in DOMAIN c.listening /\ ~IsActiveTarget(c, t)
    <3>1. Collects(c, t)
      BY <1>6, <2>6 DEF Net, Right, Flows
    <3>2. Entry(c, t).outstanding # 0
      BY <2>6 DEF IsActiveTarget
    <3>3. Entry(s, t) = Entry(c, t)
      BY <1>4, <3>1, <3>2 DEF Collects
    <3>4. Entry(x, t) = Entry(c, t) /\ x.listening[t] = c.listening[t]
      BY <1>2, <1>4, <2>1, <2>6, <3>3 DEF TakenAt
    <3>5. RemoteKeys(x, t) = RemoteKeys(c, t)
      BY <1>4, <2>6
    <3> QED
      BY <2>4, <2>6, <3>2, <3>4, <3>5, SnapshotWaits
  <2>7. CASE IsActiveTarget(c, t)
    <3>1. t \in DOMAIN c.listening /\ t \notin c.resets /\ Entry(c, t).outstanding = 0
      BY <1>9, <2>7 DEF IsActiveTarget
    <3>2. Entry(c, t).current /\ Holds(c, t) = Have(log, t, n)
      BY <2>7, <3>1, SnapshotTold
    <3>3. /\ x.listening[t] = n /\ DOMAIN Entry(x, t).changes = {} /\ Entry(x, t).outstanding = 0
          /\ Entry(x, t).current
      BY <1>4, <2>1, <2>7, <3>1, <3>2 DEF TakenAt
    <3>4. RemoteKeys(x, t) = Have(log, t, n)
      BY <1>4, <2>7, <3>1, <3>2
    <3> QED
      BY <2>4, <2>7, <3>3, <3>4, SnapshotTaken
  <2> QED
    BY <2>5, <2>6, <2>7
<1> QED
  BY <1>8, <1>9

\* Nothing is told behind a snapshot.
LEMMA SnapshotNet ==
    ASSUME Ready, Received("snapshot"), NEW n, n = Head(client.incoming).version,
           NEW s, s = Synthesized(Online, n), NEW x, Settled(x, s, n),
           \A t \in DOMAIN client.listening :
               RemoteKeys(x, t) = IF t \in Active(s) THEN Holds(s, t) ELSE RemoteKeys(s, t)
    PROVE  Net(log, x)
<1>1. x.incoming = Tail(client.incoming) /\ x.updates = <<>> /\ x.resets = {}
  BY DEF Settled
<1>2. \A t \in Watched : Right(log, x, t)
  BY SnapshotRight
<1>3. /\ \A i \in DOMAIN Tail(client.incoming) : Tail(client.incoming)[i].kind \notin Telling
      /\ \A m : ~Coming(Tail(client.incoming), m)
  BY SnapshotHead
<1>4. Sorted(x.incoming)
  BY <1>1, <1>3 DEF Sorted, Then, Kind, Telling
<1>5. Telltale(log, x)
  BY <1>1, <1>3, <1>4 DEF Telltale
<1> QED
  BY <1>2, <1>5 DEF Net

\* What is taken of a snapshot and what it says are in order.
LEMMA SnapshotTaking ==
    ASSUME Ready, Received("snapshot"), NEW n, n = Head(client.incoming).version,
           NEW s, s = Synthesized(Online, n), NEW a, a = Again(s, n),
           NEW event, event = EventOf(s, n)
    PROVE  /\ Typed(a) /\ Sound(a) /\ Settled(a, s, n) /\ SameView(a, client)
           /\ a.keys = client.keys /\ a.token = client.token /\ a.cache = client.cache
           /\ a.writes = client.writes /\ a.limbo = client.limbo /\ a.received = client.received
           /\ a.on = client.on /\ SameVersions(a, client)
           /\ event \in EventType /\ event.version = n /\ event.resets = client.resets
           /\ event.updates = s.updates /\ DOMAIN event.changes = Active(s)
           /\ DOMAIN event.changes \subseteq DOMAIN a.listening /\ event.version >= a.lastSnap
           /\ Brought(a, event.changes) /\ Spent(a, event.changes)
           /\ Query \in DOMAIN event.changes /\ a.on
                => event.changes[Query].modified \subseteq a.view.synced
<1> DEFINE c == Online
<1>1. /\ Typed(c) /\ Running(c) /\ LookedUp(c) /\ Linked(c) /\ c.stream = "Open"
      /\ n >= c.lastSnap /\ n \in Versions
  BY SnapshotFound
<1>2. s = Synthesized(c, n)
  OBVIOUS
<1> HIDE DEF c
<1>3. /\ Typed(a) /\ Sound(a) /\ event \in EventType /\ event.version = n
      /\ DOMAIN event.changes = Active(s) /\ DOMAIN event.changes \subseteq DOMAIN a.listening
      /\ event.version >= a.lastSnap
      /\ Brought(a, event.changes) /\ Spent(a, event.changes)
      /\ Query \in DOMAIN event.changes /\ a.on
           => event.changes[Query].modified \subseteq a.view.synced
  BY <1>1, <1>2, AgainSound
<1>4. /\ Typed(s) /\ s.listening = client.listening /\ s.resets = client.resets
      /\ s.on = client.on /\ s.keys = client.keys /\ s.stream = client.stream
      /\ s.token = client.token /\ s.cache = client.cache /\ s.writes = client.writes
      /\ s.limbo = client.limbo /\ s.received = client.received
      /\ DOMAIN s.agg = DOMAIN client.agg /\ SameView(s, client) /\ SameVersions(s, client)
  BY FoundSame
<1>5. Only(a, a, EventFields)
  BY <1>3, OnlySame, Zenon
<1>6. Settled(a, s, n)
  BY <1>3, <1>5, SnapshotSettled, Zenon
<1>7. DOMAIN s.listening \subseteq DOMAIN s.agg
  <2>1. client.stream = "Open"
    BY SnapshotHead, OnlineIs
  <2> QED
    BY <1>4, <2>1, ReadyIs
<1>8. s.resets \subseteq {Query}
  BY <1>4, ReadyIs DEF Net, Telltale
<1>9. Query \in s.resets /\ Query \in DOMAIN s.listening => Query \in Active(s)
  <2> SUFFICES ASSUME Query \in s.resets, Query \in DOMAIN s.listening
               PROVE  Query \in Active(s)
    OBVIOUS
  <2>1. client.stream = "Open"
    BY SnapshotHead, OnlineIs
  <2>2. IsActiveTarget(client, Query)
    BY <1>4, <2>1, ResetActive
  <2>3. Query \in Watched
    BY DEF Watched
  <2> QED
    BY <2>2, <2>3, FoundTargets DEF AsGathered
<1>10. Only(a, s, {"updates", "resets", "agg", "listening", "requests", "idle"})
  BY <1>1, <1>4, <1>7, <1>8, <1>9, AgainIs
<1>11. /\ a.on = s.on /\ a.keys = s.keys /\ a.token = s.token /\ a.cache = s.cache
       /\ a.writes = s.writes /\ a.limbo = s.limbo /\ a.received = s.received
  BY <1>10 DEF Only, Fields
<1>12. SameView(a, s)
  BY <1>10, SameViewOnly
<1>13. SameView(a, client)
  BY <1>4, <1>12, SameViewTrans
<1>14. event.updates = s.updates /\ event.resets = client.resets
  BY <1>4 DEF EventOf
<1>15. SameVersions(a, client)
  BY <1>4, <1>10 DEF SameVersions, Only, Fields
<1> QED
  BY <1>3, <1>4, <1>6, <1>11, <1>13, <1>14, <1>15

\* What a snapshot leaves on disk.
Written(x, s) ==
    /\ x.keys = IF Query \in Active(s) THEN Holds(client, Query) ELSE client.keys
    /\ x.token \in {client.token} \cup (IF Query \in Active(s) THEN {x.listening[Query]} ELSE {})
    /\ x.keys # client.keys => x.token = x.listening[Query]
    /\ x.writes = client.writes
    /\ \A d \in Docs : CacheTaken(x, client, s.updates, d)

\* The documents are written to disk as they were updated, and the keys as they were gathered.
LEMMA SnapshotWritten ==
    ASSUME Ready, Received("snapshot"), NEW n, n = Head(client.incoming).version,
           NEW s, s = Synthesized(Online, n), NEW a, a = Again(s, n),
           NEW event, event = EventOf(s, n), NEW old, NEW late,
           NEW x, x = Stored(a, event, old, late), x.listening = a.listening,
           x.writes = a.writes
    PROVE  Written(x, s)
<1> DEFINE change == event.changes[Query]
           u == event.updates
<1>1. /\ Typed(a) /\ a.keys = client.keys /\ a.token = client.token /\ a.cache = client.cache
      /\ a.writes = client.writes /\ event \in EventType /\ u = s.updates
      /\ DOMAIN event.changes = Active(s) /\ DOMAIN event.changes \subseteq DOMAIN a.listening
  BY SnapshotTaking
<1>2. KeysTaken(x, a, event) /\ \A d \in Docs : CacheTaken(x, a, u, d)
  BY <1>1, StoredIs
<1>9. /\ x.keys = IF Query \in Active(s)
                  THEN (a.keys \ change.removed) \cup change.added ELSE a.keys
      /\ x.token \in {a.token} \cup (IF Query \in Active(s) THEN {a.listening[Query]} ELSE {})
      /\ Query \in Active(s) /\ Touched(change) # {} => x.token = a.listening[Query]
  BY <1>1, <1>2, Zenon DEF KeysTaken
<1>3. ASSUME Query \in Active(s)
      PROVE  (a.keys \ change.removed) \cup change.added = Holds(client, Query)
  <2>1. Query \in Watched
    BY DEF Watched
  <2>2. AsGathered(s, client, Query)
    BY <2>1, FoundTargets
  <2>3. /\ change.added = OfType(Entry(s, Query), "Added")
        /\ change.removed = OfType(Entry(s, Query), "Removed")
    BY <1>3, ChangeOf
  <2>4. change.added = OfType(Entry(client, Query), "Added")
        /\ change.removed = OfType(Entry(client, Query), "Removed")
    BY <2>2, <2>3 DEF AsGathered
  <2>5. Query \in DOMAIN client.listening
    BY <1>3, <2>2 DEF AsGathered, IsActiveTarget
  <2>6. client.view.synced = client.keys /\ client.on
    BY <2>5, ReadyIs DEF Looking
  <2>7. Query \notin client.received
    BY ReadyIs, FieldTypes, LookupIs
  <2>8. RemoteKeys(client, Query) = client.keys
    BY <2>6, <2>7 DEF RemoteKeys
  <2>9. OfType(Entry(client, Query), "Added") \cap OfType(Entry(client, Query), "Removed") = {}
    BY DEF OfType
  <2> DEFINE A == OfType(Entry(client, Query), "Added")
             R == OfType(Entry(client, Query), "Removed")
  <2>10. Holds(client, Query) = (client.keys \cup A) \ R
    BY <2>8 DEF Holds
  <2>11. change.added = A /\ change.removed = R /\ A \cap R = {}
    BY <2>4, <2>9
  <2> HIDE DEF A, R, change
  <2> QED
    BY <1>1, <2>10, <2>11
<1>4. x.keys # client.keys => x.token = x.listening[Query]
  <2>1. ASSUME Query \in Active(s), Touched(change) = {} PROVE x.keys = client.keys
    <3>1. change.added = {} /\ change.removed = {}
      BY <2>1, Zenon DEF Touched
    <3> HIDE DEF change
    <3> QED
      BY <1>1, <1>9, <2>1, <3>1
  <2> QED
    BY <1>1, <1>9, <2>1, Zenon
<1>5. x.keys = IF Query \in Active(s) THEN Holds(client, Query) ELSE client.keys
  BY <1>1, <1>3, <1>9, Zenon
<1>6. x.token \in {client.token} \cup (IF Query \in Active(s) THEN {x.listening[Query]} ELSE {})
  BY <1>1, <1>9, Zenon
<1>7. x.writes = client.writes
  BY <1>1
<1>8. ASSUME NEW d \in Docs PROVE CacheTaken(x, client, s.updates, d)
  <2>1. CacheTaken(x, a, u, d)
    BY <1>2
  <2> QED
    BY <1>1, <2>1, Zenon DEF CacheTaken
<1> QED
  BY <1>4, <1>5, <1>6, <1>7, <1>8, Zenon DEF Written

\* The cache grows newer, and stays true.
LEMMA SnapshotCache ==
    ASSUME Ready, Received("snapshot"), NEW n, n = Head(client.incoming).version,
           NEW s, s = Synthesized(Online, n), NEW x, Typed(x), Written(x, s), NEW d \in Docs
    PROVE  /\ x.cache[d].version \in Nat /\ client.cache[d].version \in Nat
           /\ x.cache[d].version <= Len(log)
           /\ x.cache[d].content = Truth(log, d, x.cache[d].version)
           /\ d \in client.keys => client.cache[d].version <= x.cache[d].version
           /\ d \in DOMAIN s.updates /\ Truth(log, d, n) # Missing =>
                 Newest(log, d, n) <= x.cache[d].version
<1> DEFINE u == s.updates[d]
<1>1. n \in Nat /\ n <= Len(log)
  BY SnapshotHead
<1>2. Len(log) \in Nat /\ CacheTrue(log, client) /\ Typed(client)
  BY ReadyIs DEF Disk
<1>3. x.cache[d].version \in Nat /\ client.cache[d].version \in Nat
  BY <1>2, VersionsOf
<1>4. Typed(s) /\ s.keys = client.keys
  BY FoundSame
<1>5. ASSUME d \in DOMAIN s.updates
      PROVE  /\ u.version \in Nat /\ u.content = Truth(log, d, n)
             /\ \/ u.version > 0 /\ Newest(log, d, n) <= u.version /\ u.version <= n
                \/ u.version = 0 /\ u.content = Missing /\ d \notin client.keys
  <2>1. TrueUpdate(log, s, d, n)
    BY <1>5, FoundTrue
  <2>2. s.updates \in Partial(Docs, CachedDoc)
    BY <1>4, FieldTypes
  <2>3. u \in CachedDoc
    BY <1>5, <2>2, PartialIs
  <2>4. u.version \in Nat
    BY <2>3, ZeroVersion DEF CachedDoc
  <2> QED
    BY <1>4, <2>1, <2>4 DEF TrueUpdate
<1>6. Newest(log, d, n) \in Nat
  BY <1>1, NewestIs
<1>7. \/ /\ d \in DOMAIN s.updates /\ x.cache[d] = u
         /\ u.version > 0 => u.version >= client.cache[d].version
      \/ /\ x.cache[d] = client.cache[d]
         /\ d \in DOMAIN s.updates => u.version # 0 /\ ~(u.version > client.cache[d].version)
  BY DEF Written, CacheTaken
<1> HIDE DEF u
<1>8. CASE /\ d \in DOMAIN s.updates /\ x.cache[d] = u
           /\ u.version > 0 => u.version >= client.cache[d].version
  <2>1. /\ u.version \in Nat /\ u.content = Truth(log, d, n)
        /\ \/ u.version > 0 /\ Newest(log, d, n) <= u.version /\ u.version <= n
           \/ u.version = 0 /\ u.content = Missing /\ d \notin client.keys
    BY <1>5, <1>8
  <2>2. CASE u.version > 0 /\ Newest(log, d, n) <= u.version /\ u.version <= n
    <3>1. Truth(log, d, u.version) = Truth(log, d, n)
      BY <1>1, <2>1, <2>2, NewestBetween
    <3>2. u.version <= Len(log)
      BY <1>1, <1>2, <2>1, <2>2
    <3> QED
      BY <1>3, <1>8, <2>1, <2>2, <3>1, <3>2
  <2>3. CASE u.version = 0 /\ u.content = Missing /\ d \notin client.keys
    <3>1. Truth(log, d, 0) = Missing
      BY NewestNone
    <3> QED
      BY <1>2, <1>3, <1>8, <2>1, <2>3, <3>1
  <2> QED
    BY <2>1, <2>2, <2>3
<1>9. CASE /\ x.cache[d] = client.cache[d]
           /\ d \in DOMAIN s.updates => u.version # 0 /\ ~(u.version > client.cache[d].version)
  <2>1. /\ client.cache[d].version <= Len(log)
        /\ client.cache[d].content = Truth(log, d, client.cache[d].version)
    BY <1>2 DEF CacheTrue
  <2>2. ASSUME d \in DOMAIN s.updates PROVE Newest(log, d, n) <= client.cache[d].version
    BY <1>3, <1>5, <1>6, <1>9, <2>2
  <2> QED
    BY <1>3, <1>9, <2>1, <2>2
<1> QED
  BY <1>7, <1>8, <1>9

\* The query has on disk what the server had at the version it is resumed from.
LEMMA SnapshotKeys ==
    ASSUME Ready, Received("snapshot"), NEW n, n = Head(client.incoming).version,
           NEW s, s = Synthesized(Online, n), NEW x, Settled(x, s, n), Written(x, s), client.on
    PROVE  KeysAt(log, x, x.listening[Query])
<1> DEFINE c == client
           v == c.listening[Query]
<1>1. n \in Nat /\ n <= Len(log)
  BY SnapshotHead
<1>2. /\ Query \in Watched /\ Query \in DOMAIN c.listening /\ Typed(c) /\ Len(log) \in Nat
      /\ KeysAt(log, c, v) /\ c.view.synced = c.keys /\ Net(log, c)
  BY ReadyIs DEF Watched, Disk, Looking
<1>3. v \in Nat
  BY <1>2, VersionsOf
<1>4. c.stream = "Open"
  BY SnapshotHead, OnlineIs
<1>5. /\ Typed(x)
      /\ IF Query \in c.resets \cap DOMAIN c.listening THEN OverAgain(x, s, Query)
         ELSE TakenAt(x, s, n, Query)
  BY <1>2 DEF Settled
<1>6. /\ s.listening = c.listening /\ s.keys = c.keys
      /\ DOMAIN c.updates \subseteq DOMAIN s.updates
  BY FoundSame, Zenon
<1>7. Query \in Active(s) <=> IsActiveTarget(c, Query)
  BY <1>2, FoundTargets DEF AsGathered
<1>8. x.keys = IF IsActiveTarget(c, Query) THEN Holds(c, Query) ELSE c.keys
  BY <1>7 DEF Written
<1>9. RemoteKeys(c, Query) = c.keys
  <2>1. Query \notin c.received
    BY <1>2, FieldTypes, LookupIs
  <2> QED
    BY <1>2, <2>1 DEF RemoteKeys
<1>10. c.keys \subseteq Docs /\ Query.docs = Docs
  BY <1>2, FieldTypes DEF Query
<1>11. \A d \in Docs :
          /\ x.cache[d].version \in Nat /\ c.cache[d].version \in Nat
          /\ d \in c.keys => c.cache[d].version <= x.cache[d].version
          /\ d \in DOMAIN s.updates /\ Truth(log, d, n) # Missing =>
                Newest(log, d, n) <= x.cache[d].version
  BY <1>5, SnapshotCache
<1>12. c.keys = Have(log, Query, v) /\ v <= Len(log)
       /\ \A d \in c.keys : Newest(log, d, v) <= c.cache[d].version
  BY <1>2 DEF KeysAt
<1> HIDE DEF c, v
<1>13. CASE Query \in c.resets
  <2>1. IsActiveTarget(c, Query)
    BY <1>2, <1>4, <1>13, ResetActive DEF c
  <2>2. Holds(c, Query) = {}
    BY <1>2, <1>13, <2>1, SnapshotTold DEF c
  <2>3. x.keys = {}
    BY <1>8, <2>1, <2>2
  <2>4. x.listening[Query] = 0
    BY <1>2, <1>5, <1>13 DEF OverAgain
  <2>5. Have(log, Query, 0) = {}
    BY HaveNone
  <2> QED
    BY <1>2, <2>3, <2>4, <2>5 DEF KeysAt
<1>14. CASE Query \notin c.resets /\ IsActiveTarget(c, Query)
  <2>1. TakenAt(x, s, n, Query)
    BY <1>5, <1>14
  <2>2. x.listening[Query] = n
    BY <1>7, <1>14, <2>1 DEF TakenAt
  <2>3. /\ Holds(c, Query) = Have(log, Query, n)
        /\ \A d \in Have(log, Query, n) : d \in DOMAIN c.updates \/ Newest(log, d, n) <= v
    BY <1>2, <1>14, SnapshotTold DEF c, v
  <2>4. x.keys = Have(log, Query, n)
    BY <1>8, <1>14, <2>3
  <2>5. Collects(c, Query)
    BY <1>2, <1>4 DEF Net, Right, Flows, c
  <2>6. ASSUME NEW d \in Have(log, Query, n) PROVE Newest(log, d, n) <= x.cache[d].version
    <3>1. d \in Docs /\ Truth(log, d, n) # Missing
      BY <1>10, <2>6 DEF Have
    <3>2. CASE d \in DOMAIN s.updates
      BY <1>11, <3>1, <3>2
    <3>3. CASE d \notin DOMAIN s.updates
      <4>1. d \notin DOMAIN c.updates
        BY <1>6, <3>3 DEF c
      <4>2. Newest(log, d, n) <= v
        BY <2>3, <2>6, <4>1
      <4>3. d \in RemoteKeys(c, Query)
        BY <2>3, <2>5, <2>6, <4>1 DEF Holds, Collects
      <4>4. d \in c.keys /\ Newest(log, d, v) <= c.cache[d].version
        BY <1>9, <1>12, <4>3
      <4>5. c.cache[d].version <= x.cache[d].version /\ c.cache[d].version \in Nat
            /\ x.cache[d].version \in Nat
        BY <1>11, <3>1, <4>4
      <4>6. Newest(log, d, n) \in Nat /\ Newest(log, d, v) \in Nat
        BY <1>1, <1>3, NewestIs DEF v
      <4>7. v \in Nat
        BY <1>3
      <4>8. Newest(log, d, n) <= Newest(log, d, v)
        <5>1. CASE v <= n
          <6>1. Newest(log, d, v) = Newest(log, d, n)
            BY <1>1, <4>2, <4>7, <5>1, NewestBetween
          <6> QED
            BY <4>6, <6>1
        <5>2. CASE n <= v
          BY <1>1, <4>7, <5>2, NewestBetween
        <5> QED
          BY <1>1, <4>7, <5>1, <5>2
      <4> QED
        BY <4>4, <4>5, <4>6, <4>8
    <3> QED
      BY <3>2, <3>3
  <2> QED
    BY <1>1, <2>2, <2>4, <2>6 DEF KeysAt
<1>15. CASE ~IsActiveTarget(c, Query) /\ Query \notin c.resets
  <2>1. TakenAt(x, s, n, Query)
    BY <1>5, <1>15
  <2>2. x.listening[Query] = v
    BY <1>2, <1>6, <1>7, <1>15, <2>1 DEF TakenAt, v, c
  <2>3. x.keys = c.keys
    BY <1>8, <1>15
  <2>4. ASSUME NEW d \in c.keys PROVE Newest(log, d, v) <= x.cache[d].version
    <3>1. d \in Docs
      BY <1>10, <2>4
    <3>2. Newest(log, d, v) \in Nat
      BY <1>3, NewestIs DEF v
    <3> QED
      BY <1>11, <1>12, <2>4, <3>1, <3>2
  <2> QED
    BY <1>12, <2>2, <2>3, <2>4 DEF KeysAt
<1> QED
  BY <1>13, <1>14, <1>15

\* What a snapshot leaves on disk is true.
LEMMA SnapshotDisk ==
    ASSUME Ready, Received("snapshot"), NEW n, n = Head(client.incoming).version,
           NEW s, s = Synthesized(Online, n), NEW x, Settled(x, s, n), Written(x, s)
    PROVE  Disk(log, x)
<1>1. Disk(log, client) /\ Typed(client)
  BY ReadyIs
<1>2. Typed(x) /\ x.on = client.on
  BY DEF Settled
<1>3. SentOnes(log, x)
  BY <1>1 DEF Disk, SentOnes, Written
<1>4. CacheTrue(log, x)
  BY <1>2, SnapshotCache DEF CacheTrue
<1>5. x.on => KeysAt(log, x, x.listening[Query])
  BY <1>2, SnapshotKeys
<1>6. KeysAt(log, x, x.token)
  <2>1. CASE x.on /\ x.token = x.listening[Query]
    BY <1>5, <2>1
  <2>2. CASE ~(x.on /\ x.token = x.listening[Query])
    <3>1. Query \in Active(s) => client.on
      <4>1. Query \in Watched
        BY DEF Watched
      <4>2. Query \in Active(s) => Query \in DOMAIN client.listening
        BY <4>1, FoundTargets DEF AsGathered, IsActiveTarget
      <4> QED
        BY <4>2, ReadyIs
    <3>2. x.keys = client.keys /\ x.token = client.token
      BY <1>2, <2>2, <3>1 DEF Written
    <3>3. KeysAt(log, client, client.token)
      BY <1>1 DEF Disk
    <3>4. ASSUME NEW d \in client.keys PROVE Newest(log, d, client.token) <= x.cache[d].version
      <4>1. d \in Docs
        BY <1>1, <3>4, FieldTypes
      <4>2. /\ x.cache[d].version \in Nat /\ client.cache[d].version \in Nat
            /\ client.cache[d].version <= x.cache[d].version
        BY <1>2, <3>4, <4>1, SnapshotCache
      <4>3. Newest(log, d, client.token) <= client.cache[d].version
        BY <3>3, <3>4 DEF KeysAt
      <4>4. client.token \in Nat
        BY <1>1, VersionsOf
      <4>5. Newest(log, d, client.token) \in Nat
        BY <4>4, NewestIs
      <4> QED
        BY <4>2, <4>3, <4>5
    <3> QED
      BY <3>2, <3>3, <3>4 DEF KeysAt
  <2> QED
    BY <2>1, <2>2
<1> QED
  BY <1>2, <1>3, <1>4, <1>5, <1>6 DEF Disk

\* What the query left out has no news, so no snapshot brings it to the query.
LEMMA SnapshotLeaves ==
    ASSUME Ready, Received("snapshot"), NEW n, n = Head(client.incoming).version,
           NEW s, s = Synthesized(Online, n), NEW a, a = Again(s, n),
           NEW event, event = EventOf(s, n), NEW x, Settled(x, s, n), Written(x, s),
           x.listening = a.listening, x.view.docs = client.view.docs,
           VersionsTaken(x, a, event), LeftTaken(x, a),
           x.lastSnap = IF event.version = 0 THEN a.lastSnap ELSE event.version
    PROVE  Leaving(log, x)
<1>1. n \in Nat /\ n <= Len(log) /\ client.lastSnap <= n
  BY SnapshotHead
<1>2. /\ Typed(client) /\ Leaving(log, client) /\ Disk(log, client) /\ client.stream = "Open"
      /\ client.on <=> Query \in DOMAIN client.listening
  BY SnapshotHead, OnlineIs, ReadyIs
<1>3. /\ {client.token, client.savedFree, client.limboFree, client.lastSnap} \subseteq Nat
      /\ \A t \in DOMAIN client.listening : client.listening[t] \in Nat
      /\ \A d \in Docs : client.cache[d].version \in Nat
  BY <1>2, VersionsOf
<1>4. /\ a.token = client.token /\ a.cache = client.cache /\ SameVersions(a, client)
      /\ event.version = n /\ event.resets = client.resets
      /\ DOMAIN event.changes = Active(s)
  BY SnapshotTaking
<1>5. /\ Typed(x) /\ x.on = client.on
      /\ IF Query \in client.resets \cap DOMAIN client.listening THEN OverAgain(x, s, Query)
         ELSE TakenAt(x, s, n, Query)
  BY DEF Settled, Watched
<1>6. Query \in Active(s) <=> IsActiveTarget(client, Query)
  BY FoundTargets DEF AsGathered, Watched
<1>7. s.listening = client.listening
  BY FoundSame
<1>8. x.lastSnap = n
  BY <1>1, <1>3, <1>4 DEF SameVersions
<1> DEFINE v == x.listening[Query]
           w == client.listening[Query]
<1>9. client.on => w \in Nat /\ client.limboFree <= w /\ w <= client.lastSnap
  BY <1>2, <1>3 DEF Leaving, Dated
<1>10. Query \in client.resets /\ client.on => IsActiveTarget(client, Query)
  BY <1>2, ResetActive
<1>11. /\ client.on /\ Query \in client.resets => v = 0
       /\ client.on /\ Query \notin client.resets =>
             v = IF IsActiveTarget(client, Query) THEN n ELSE w
  BY <1>2, <1>5, <1>6, <1>7 DEF OverAgain, TakenAt
<1>12. x.limboFree = IF IsActiveTarget(client, Query) /\ Query \in client.resets THEN 0
                     ELSE client.limboFree
  BY <1>4, <1>6 DEF VersionsTaken, SameVersions
<1>13. \/ x.token = client.token /\ x.savedFree = client.savedFree
       \/ IsActiveTarget(client, Query) /\ x.token = v /\ x.savedFree = x.limboFree
  BY <1>4, <1>6 DEF VersionsTaken, SameVersions
<1>14. IsActiveTarget(client, Query) => client.on
  BY <1>2 DEF IsActiveTarget
<1> HIDE DEF v, w
<1>15. client.on => x.limboFree <= v /\ v <= n
  BY <1>1, <1>3, <1>9, <1>10, <1>11, <1>12
<1>16. x.savedFree <= x.token /\ x.token <= n
  <2>1. client.savedFree <= client.token /\ client.token <= client.lastSnap
    BY <1>2 DEF Leaving, Dated
  <2> QED
    BY <1>1, <1>3, <1>13, <1>14, <1>15, <2>1
<1>17. Dated(x)
  BY <1>5, <1>8, <1>15, <1>16 DEF Dated, v
<1>18. ASSUME NEW d \in x.leftOut PROVE Omitted(log, x, d)
  <2>1. d \in client.leftOut /\ x.cache[d] = client.cache[d]
    BY <1>4 DEF LeftTaken, SameVersions
  <2>2. Omitted(log, client, d) /\ d \in Docs
    BY <1>2, <2>1, FieldTypes DEF Leaving
  <2>3. PICK m \in client.cache[d].version .. client.lastSnap : Truth(log, d, m) = Missing
    BY <2>2 DEF Omitted, Gone
  <2>4. m \in Nat /\ client.cache[d].version <= m /\ m <= n /\ client.cache[d].version \in Nat
    BY <1>1, <1>3, <2>2, <2>3
  <2>5. Gone(log, x, d)
    BY <1>8, <2>1, <2>3, <2>4 DEF Gone
  <2>6. d \notin x.keys
    <3>1. client.on /\ d \notin client.keys
      BY <2>2 DEF Omitted
    <3>2. KeysAt(log, x, v)
      BY <3>1, SnapshotKeys DEF v
    <3>3. CASE ~IsActiveTarget(client, Query)
      BY <1>6, <3>1, <3>3 DEF Written
    <3>4. CASE IsActiveTarget(client, Query) /\ Query \in client.resets
      BY <1>11, <3>1, <3>2, <3>4, HaveNone DEF KeysAt
    <3>5. CASE IsActiveTarget(client, Query) /\ Query \notin client.resets
      <4>1. ASSUME d \in x.keys PROVE FALSE
        <5>1. v = n
          BY <1>11, <3>1, <3>5
        <5>2. Truth(log, d, n) # Missing /\ Newest(log, d, n) <= client.cache[d].version
          BY <2>1, <3>2, <4>1, <5>1 DEF KeysAt, Have
        <5>3. Newest(log, d, n) \in Nat
          BY <1>1, NewestIs
        <5>4. Newest(log, d, n) <= m
          BY <2>4, <5>2, <5>3
        <5>5. Truth(log, d, m) = Truth(log, d, n)
          BY <1>1, <2>4, <5>4, NewestBetween
        <5> QED
          BY <2>3, <5>2, <5>5
      <4> QED
        BY <4>1
    <3> QED
      BY <3>3, <3>4, <3>5
  <2> QED
    BY <1>5, <2>2, <2>5, <2>6 DEF Omitted, Written
<1> QED
  BY <1>17, <1>18 DEF Leaving

-----------------------------------------------------------------------------
(***************************************************************************)
(* A snapshot: what it shows.                                              *)
(***************************************************************************)
\* What the client has of the targets when the event of a snapshot is in the caches.
LEMMA SnapshotLooked ==
    ASSUME Ready, Received("snapshot"), NEW n, n = Head(client.incoming).version,
           NEW s, s = Synthesized(Online, n), NEW a, a = Again(s, n),
           NEW event, event = EventOf(s, n),
           NEW x, Written(x, s),
           NEW b, Typed(b), b.on = client.on, b.received = Looked(a, event.changes).received,
           b.on => b.view.synced = x.keys, NEW t \in DOMAIN client.listening
    PROVE  RemoteKeys(b, t) = IF t \in Active(s) THEN Holds(s, t) ELSE RemoteKeys(s, t)
<1>1. /\ Typed(client) /\ Sound(client) /\ Looking(client)
      /\ client.on <=> Query \in DOMAIN client.listening
  BY ReadyIs
<1>2. t \in Watched
  BY <1>1, VersionsOf
<1>3. AsGathered(s, client, t)
  BY <1>2, FoundTargets
<1>4. /\ Typed(s) /\ s.received = client.received /\ s.limbo = client.limbo /\ s.on = client.on
  BY FoundSame
<1>5. CASE t = Query
  <2>1. Query \notin b.received /\ Query \notin client.received
    BY <1>1, FieldTypes, LookupIs
  <2>2. b.on /\ client.on /\ client.view.synced = client.keys
    BY <1>1, <1>5 DEF Looking
  <2>3. RemoteKeys(b, t) = x.keys
    BY <1>5, <2>1, <2>2 DEF RemoteKeys
  <2>4. RemoteKeys(client, t) = client.keys
    BY <1>5, <2>1, <2>2 DEF RemoteKeys
  <2>5. Holds(s, t) = Holds(client, t) /\ RemoteKeys(s, t) = RemoteKeys(client, t)
    BY <1>3 DEF AsGathered
  <2>6. x.keys = IF Query \in Active(s) THEN Holds(client, Query) ELSE client.keys
    BY DEF Written
  <2> QED
    BY <1>5, <2>3, <2>4, <2>5, <2>6
<1>6. CASE t # Query
  <2>1. t \in Lookup
    BY <1>2, <1>6 DEF Watched
  <2>2. t \in Range(client.limbo)
    <3>1. DOMAIN client.listening \subseteq {Query} \cup {client.limbo[d] : d \in DOMAIN client.limbo}
      BY <1>1 DEF Sound, LookedUp
    <3> QED
      BY <1>6, <3>1 DEF Range
  <2>3. /\ Typed(a) /\ a.limbo = client.limbo /\ a.received = client.received
        /\ event \in EventType /\ DOMAIN event.changes = Active(s)
    BY SnapshotTaking
  <2>4. IsFiniteSet(DOMAIN event.changes)
    <3>1. event.changes \in Partial(Watched, ChangeType)
      BY <2>3 DEF EventType
    <3> QED
      BY <3>1, PartialIs
  <2>5. ASSUME NEW u \in DOMAIN event.changes, u \in Range(a.limbo)
        PROVE  OneThing(event.changes[u])
    <3>1. u \in Active(s) /\ u \in Lookup
      BY <2>3, <2>5, LookupsOf
    <3> QED
      BY <1>4, <3>1, LookupHears
  <2> DEFINE g == event.changes
             y == Looked(a, g)
             D == y.received
             S == {u \in DOMAIN g : u \in Range(a.limbo)}
  <2>11. IsFiniteSet(DOMAIN g) /\ \A u \in DOMAIN g : u \in Range(a.limbo) => OneThing(g[u])
    BY <2>4, <2>5
  <2>12. b.received = D
    OBVIOUS
  <2>13. g = event.changes
    OBVIOUS
  <2> HIDE DEF g
  <2>6. t \in D <=> \/ t \in S /\ g[t].added # {}
                    \/ /\ t \in a.received
                       /\ t \in S => g[t].modified # {} \/ g[t].removed = {}
    BY <2>3, <2>11, LookedHas
  <2>7. RemoteKeys(b, t) = IF t \in D THEN t.docs ELSE {}
    BY <1>6, <2>12 DEF RemoteKeys
  <2>8. t \in S <=> t \in Active(s)
    BY <2>2, <2>3, <2>13
  <2> HIDE DEF D, S, y
  <2>9. CASE t \in Active(s)
    <3>1. /\ event.changes[t].added = OfType(Entry(s, t), "Added")
          /\ event.changes[t].modified = OfType(Entry(s, t), "Modified")
          /\ event.changes[t].removed = OfType(Entry(s, t), "Removed")
      BY <2>9, ChangeOf
    <3>2. t \in D <=> \/ OfType(Entry(s, t), "Added") # {}
                      \/ t \in s.received /\ (OfType(Entry(s, t), "Modified") # {}
                                              \/ OfType(Entry(s, t), "Removed") = {})
      BY <1>4, <2>3, <2>6, <2>8, <2>9, <2>13, <3>1, Zenon
    <3>3. Holds(s, t) = IF t \in D THEN t.docs ELSE {}
      BY <1>4, <2>1, <3>2, LookupAnswered
    <3> QED
      BY <2>7, <2>9, <3>3
  <2>10. CASE t \notin Active(s)
    <3>1. t \in D <=> t \in s.received
      BY <1>4, <2>3, <2>6, <2>8, <2>10
    <3>2. RemoteKeys(s, t) = IF t \in s.received THEN t.docs ELSE {}
      BY <1>6 DEF RemoteKeys
    <3> QED
      BY <2>7, <2>10, <3>1, <3>2
  <2> QED
    BY <2>9, <2>10
<1> QED
  BY <1>5, <1>6

\* The synced documents of a client are others.
LEMMA SyncedIs ==
    ASSUME NEW c, Typed(c), NEW b, b = [c EXCEPT !.view = [c.view EXCEPT !.synced = c.keys]]
    PROVE  Typed(b) /\ Only(b, c, {"view"}) /\ b.view.synced = c.keys
<1> DEFINE w == [c.view EXCEPT !.synced = c.keys]
<1>1. c.view \in ViewType /\ c.keys \in SUBSET Docs
  BY FieldTypes
<1>2. w \in ViewType /\ w.synced = c.keys
  BY <1>1 DEF ViewType
<1> HIDE DEF w
<1>3. Only(b, c, {"view"}) /\ b.view = w
  BY DEF Only, Typed, Shape, Fields, w
<1>4. b["view"] \in Client_["view"]
  BY <1>2, <1>3, ClientIs
<1>5. Typed(b)
  BY <1>3, <1>4, TypedOnly DEF Fields
<1> QED
  BY <1>2, <1>3, <1>5

\* An event that can be taken, and the books when it is taken to the caches.
Takes(c, event) ==
    /\ Typed(c) /\ Sound(c) /\ event \in EventType
    /\ DOMAIN event.changes \subseteq DOMAIN c.listening
    /\ event.version = 0 \/ event.version >= c.lastSnap
    /\ Brought(c, event.changes) /\ Spent(c, event.changes)
    /\ Query \in DOMAIN event.changes /\ c.on
         => event.changes[Query].modified \subseteq c.view.synced

\* A state that has taken an event but for its view, which the change then brings up to date.
Stowed(x, change, c, event) ==
    /\ Typed(x) /\ Sound(x) /\ change \in ChangeType
    /\ Only(x, c, StoredFields)
    /\ x.received = Looked(c, event.changes).received
    /\ x.on => change.modified \subseteq x.view.synced \cup change.added
    /\ change.added \cup change.removed = {} \/ Idle(x)
    /\ x.lastSnap = IF event.version = 0 THEN c.lastSnap ELSE event.version

\* What the snapshot stores keeps all but the view.
LEMMA StoredKept ==
    ASSUME NEW c, NEW event, Takes(c, event), NEW old, NEW late,
           NEW x, x = Stored(c, event, old, late), NEW change, change = QueryChange(c, event)
    PROVE  ApplyRemoteEvent(c, event, old, late) = Emit(x, change) /\ Stowed(x, change, c, event)
<1> USE DEF Takes
<1>1. ApplyRemoteEvent(c, event, old, late) = Emit(x, change)
  BY StoredSound
<1>2. Typed(x) /\ Sound(x) /\ change \in ChangeType
  BY StoredSound
<1>3. Only(x, c, StoredFields)
  BY StoredSound
<1>4. x.received = Looked(c, event.changes).received
  BY StoredSound
<1>5. x.on => change.modified \subseteq x.view.synced \cup change.added
  BY StoredSound
<1>6. change.added \cup change.removed = {} \/ Idle(x)
  BY StoredSound
<1>7. x.lastSnap = IF event.version = 0 THEN c.lastSnap ELSE event.version
  BY StoredSound
<1> QED
  BY <1>1, <1>2, <1>3, <1>4, <1>5, <1>6, <1>7 DEF Stowed

\* What is taken of a snapshot, with what was asked for again, is taken to the caches, and shown.
LEMMA SnapshotShown ==
    ASSUME Ready, Received("snapshot"), NEW n, n = Head(client.incoming).version,
           NEW s, s = Synthesized(Online, n), NEW a, a = Again(s, n),
           NEW event, event = EventOf(s, n), NEW old, NEW late
    PROVE  Exact(log, ApplyRemoteEvent(a, event, old, late))
<1>1. PICK x, change : x = Stored(a, event, old, late) /\ change = QueryChange(a, event)
  OBVIOUS
<1>4. PICK b : b = [x EXCEPT !.view = [x.view EXCEPT !.synced = x.keys]]
  BY Zenon
<1>5. /\ Typed(a) /\ Sound(a) /\ Settled(a, s, n) /\ SameView(a, client)
      /\ a.keys = client.keys /\ a.limbo = client.limbo /\ a.received = client.received
      /\ a.on = client.on /\ event \in EventType /\ event.version = n
      /\ DOMAIN event.changes = Active(s)
      /\ DOMAIN event.changes \subseteq DOMAIN a.listening /\ event.version >= a.lastSnap
      /\ Brought(a, event.changes) /\ Spent(a, event.changes)
      /\ Query \in DOMAIN event.changes /\ a.on
           => event.changes[Query].modified \subseteq a.view.synced
  BY SnapshotTaking
<1>6. /\ ApplyRemoteEvent(a, event, old, late) = Emit(x, change)
      /\ Typed(x) /\ Sound(x) /\ change \in ChangeType
      /\ Only(x, a, StoredFields)
      /\ x.received = Looked(a, event.changes).received
      /\ x.on => change.modified \subseteq x.view.synced \cup change.added
      /\ change.added \cup change.removed = {} \/ Idle(x)
      /\ x.lastSnap = IF event.version = 0 THEN a.lastSnap ELSE event.version
  <2>1. Takes(a, event)
    BY <1>5, Zenon DEF Takes
  <2>2. ApplyRemoteEvent(a, event, old, late) = Emit(x, change) /\ Stowed(x, change, a, event)
    BY <1>1, <2>1, StoredKept
  <2> QED
    BY <2>2 DEF Stowed
<1>7. KeysTaken(x, a, event) /\ VersionsTaken(x, a, event) /\ LeftTaken(x, a)
  BY <1>1, <1>5, StoredIs
<1>8. /\ x.listening = a.listening /\ x.writes = a.writes /\ x.on = client.on /\ x.view = a.view
      /\ x.limbo = client.limbo
  BY <1>5, <1>6, Zenon DEF Only, Fields, StoredFields, KeptFields
<1>9. Written(x, s)
  BY <1>1, <1>8, SnapshotWritten
<1>10. Only(x, a, EventFields)
  BY <1>6, OnlyMore DEF EventFields
<1>11. Settled(x, s, n)
  BY <1>6, <1>10, SnapshotSettled
<1>12. Disk(log, x)
  BY <1>9, <1>11, SnapshotDisk
<1>13. /\ x.view.docs = client.view.docs /\ x.view.synced = client.view.synced
       /\ x.view.limbo = client.view.limbo /\ (x.view.sync = "Synced" => client.view.sync = "Synced")
  BY <1>5, <1>8 DEF SameView
<1>17. Leaving(log, x)
  BY <1>6, <1>7, <1>8, <1>9, <1>11, <1>13, SnapshotLeaves
<1>14. /\ Looking(client) /\ Showing(client) /\ Len(log) \in Nat
       /\ client.on <=> Query \in DOMAIN client.listening
  BY ReadyIs
<1>15. CASE ~client.on
  <2>1. Emit(x, change) = x
    BY <1>6, <1>8, <1>15 DEF Emit
  <2>2. ASSUME NEW t \in DOMAIN client.listening
        PROVE  RemoteKeys(x, t) = IF t \in Active(s) THEN Holds(s, t) ELSE RemoteKeys(s, t)
    BY <1>6, <1>8, <1>9, <1>15, SnapshotLooked
  <2>3. Net(log, x)
    BY <1>11, <2>2, SnapshotNet
  <2>4. Looking(x)
    BY <1>8, <1>13, <1>14, <1>15, Zenon DEF Looking
  <2>5. Showing(x)
    BY <1>8, <1>13, <1>14, <1>15, Zenon DEF Showing
  <2> QED
    BY <1>6, <1>12, <1>17, <2>1, <2>3, <2>4, <2>5 DEF Exact
<1>16. CASE client.on
  <2>1. Typed(b) /\ Only(b, x, {"view"}) /\ b.view.synced = x.keys
    BY <1>4, <1>6, SyncedIs
  <2>2. b.on = client.on /\ b.received = x.received
    BY <1>8, <2>1 DEF Only, Fields
  <2>3. Only(b, a, EventFields)
    <3>1. Only(b, x, EventFields)
      BY <2>1, OnlyMore DEF EventFields
    <3>2. Only(b, a, EventFields \cup EventFields)
      BY <1>10, <3>1, OnlyTrans
    <3> QED
      BY <3>2, OnlyMore
  <2>4. Settled(b, s, n)
    BY <2>1, <2>3, SnapshotSettled
  <2>5. ASSUME NEW t \in DOMAIN client.listening
        PROVE  RemoteKeys(b, t) = IF t \in Active(s) THEN Holds(s, t) ELSE RemoteKeys(s, t)
    BY <1>6, <1>9, <2>1, <2>2, SnapshotLooked
  <2>6. Net(log, b)
    BY <2>4, <2>5, SnapshotNet
  <2>7. client.view.synced = client.keys /\ client.view.limbo \cap client.view.synced = {}
    BY <1>14, <1>16 DEF Looking
  <2>8. /\ (x.view.synced \cup change.added) \ change.removed = x.keys
        /\ ~change.current => x.view.limbo \cap x.keys = {}
    <3>1. CASE Query \in Active(s)
      <4>1. change = event.changes[Query]
        BY <1>1, <1>5, <3>1, Zenon DEF QueryChange
      <4>2. x.keys = (a.keys \ change.removed) \cup change.added
        BY <1>5, <1>7, <3>1, <4>1, Zenon DEF KeysTaken
      <4>3. /\ change.added = OfType(Entry(s, Query), "Added")
            /\ change.removed = OfType(Entry(s, Query), "Removed")
            /\ change.current = Entry(s, Query).current
        BY <3>1, <4>1, ChangeOf
      <4>4. change.added \cap change.removed = {}
        BY <4>3 DEF OfType
      <4>5. Query \in Watched
        BY DEF Watched
      <4>6. AsGathered(s, client, Query)
        BY <4>5, FoundTargets
      <4>7. IsActiveTarget(client, Query)
        BY <3>1, <4>6 DEF AsGathered
      <4>8. Entry(client, Query).current
        BY <4>5, <4>7, SnapshotTold
      <4>9. change.current
        BY <4>3, <4>6, <4>8, Zenon DEF AsGathered
      <4> QED
        BY <1>5, <1>13, <2>7, <4>2, <4>4, <4>9, Zenon
    <3>2. CASE Query \notin Active(s)
      <4>1. change = NoChange(a)
        BY <1>1, <1>5, <3>2 DEF QueryChange
      <4>2. change.added = {} /\ change.removed = {}
        BY <4>1 DEF NoChange
      <4>3. x.keys = a.keys
        BY <1>5, <1>7, <3>2, Zenon DEF KeysTaken
      <4> QED
        BY <1>5, <1>13, <2>7, <4>2, <4>3, Zenon
    <3> QED
      BY <3>1, <3>2
  <2>9. DOMAIN x.limbo \subseteq x.view.limbo
    BY <1>8, <1>13, <1>14 DEF Looking
  <2>10. Exact(log, Emit(x, change))
    BY <1>6, <1>8, <1>12, <1>14, <1>16, <1>17, <2>1, <2>6, <2>8, <2>9, EmitExact
  <2> QED
    BY <1>6, <2>10
<1> QED
  BY <1>15, <1>16

\* A consistent snapshot is taken to the caches, and shown.
LEMMA WatchSnapshotExact ==
    ASSUME Ready, NEW late, WatchSnapshot(late)
    PROVE  Exact(log', client')
<1>1. PICK n, s, a : n = Head(client.incoming).version /\ s = Synthesized(Online, n) /\ a = Again(s, n)
  OBVIOUS
<1>2. PICK event : event = EventOf(s, n)
  OBVIOUS
<1>3. Received("snapshot") /\ log' = log
      /\ client' = IF n < client.lastSnap THEN Online
                   ELSE Notified(RaiseWatchSnapshot(Online, n, late), late)
  BY <1>1 DEF WatchSnapshot, Client
<1>4. client.lastSnap <= n /\ n \in Nat /\ client.lastSnap \in Nat
  <2>1. Typed(client)
    BY ReadyIs
  <2> QED
    BY <1>1, <1>3, <2>1, SnapshotHead, FieldTypes, ZeroVersion
<1> DEFINE x == RaiseWatchSnapshot(Online, n, late)
<1>5. client' = Notified(x, late)
  BY <1>3, <1>4
<1>6. PICK old : old = IF Query \in DOMAIN Online.listening THEN Online.listening[Query] ELSE 0
  OBVIOUS
<1>7. x = ApplyRemoteEvent(a, event, old, late)
  BY <1>1, <1>2, <1>6, RaiseWatchSnapshotIs DEF Again
<1>8. Exact(log, x)
  <2> HIDE DEF x
  <2> QED
    BY <1>1, <1>2, <1>3, <1>7, SnapshotShown
<1>9. /\ Typed(Online) /\ Running(Online) /\ LookedUp(Online) /\ Linked(Online)
      /\ Online.stream = "Open" /\ n >= Online.lastSnap /\ n \in Versions
  BY <1>1, <1>3, SnapshotFound
<1>10. Sound(x)
  BY <1>9, RaiseWatchSnapshotSound
<1>11. Shown(Online)
  BY <1>3, SnapshotHead, OnlineShown, ReadyIs
<1>12. Typed(x)
  BY <1>9, <1>11, RaiseWatchSnapshotTyped DEF Shown
<1> HIDE DEF x
<1> QED
  BY <1>3, <1>5, <1>8, <1>10, <1>12, NotifiedExact

-----------------------------------------------------------------------------
(***************************************************************************)
(* The server answers.                                                     *)
(***************************************************************************)
\* The server's part: what the client has is the same.
LEMMA ServerExact ==
    ASSUME Ready, NEW x, Only(x, client, {"requests", "incoming", "serving"}),
           Telltale(log, x), \A u \in Watched : Right(log, x, u)
    PROVE  Exact(log, x)
<1>1. SameView(x, client)
  BY SameViewOnly
<1>2. SameDisk(x, client) /\ x.limbo = client.limbo
  BY DEF SameDisk, Only, Fields
<1>3. Net(log, x)
  BY DEF Net
<1> QED
  BY <1>1, <1>2, <1>3, SameExact DEF Ready

\* What an answer, or a reset, leaves as it was for another target.
LEMMA ServerElse ==
    ASSUME NEW x, Only(x, client, {"requests", "incoming", "serving"}), NEW u,
           SameMail(x.incoming, client.incoming, u), SameAsked(x.requests, client.requests, u),
           Due(x.incoming, x.requests, u) = Due(client.incoming, client.requests, u),
           u \in DOMAIN x.serving <=> u \in DOMAIN client.serving,
           u \in DOMAIN client.serving => x.serving[u] = client.serving[u]
    PROVE  SameTarget(x, client, u)
<1>1. /\ x.listening = client.listening /\ x.agg = client.agg /\ x.resets = client.resets
      /\ x.updates = client.updates /\ x.stream = client.stream /\ x.received = client.received
      /\ x.on = client.on /\ x.view = client.view
  BY DEF Only, Fields
<1>2. RemoteKeys(x, u) = RemoteKeys(client, u) /\ Entry(x, u) = Entry(client, u)
  BY <1>1 DEF RemoteKeys, Entry
<1>3. SamePlace(x, client, u)
  BY <1>1, <1>2 DEF SamePlace
<1> QED
  BY <1>3 DEF SameTarget

\* One more message that tells of no document says nothing that is not true.
LEMMA MessageTelltale ==
    ASSUME Ready, NEW m \in Message, m.kind \notin Telling, NEW x,
           x.incoming = Append(client.incoming, m), x.updates = client.updates,
           x.resets = client.resets, x.keys = client.keys
    PROVE  Telltale(log, x)
<1> DEFINE in == client.incoming
           one == <<m>>
<1>1. Telltale(log, client) /\ in \in Seq(Message)
  BY ReadyIs, ServerKnows DEF Net
<1>2. one \in Seq(Message) /\ DOMAIN one = {1} /\ one[1] = m
  OBVIOUS
<1>3. x.incoming = in \o one
  BY <1>1, OneMore
<1>4. m.kind \notin {"document", "filter", "current", "snapshot"}
  BY DEF Telling
<1>5. /\ ~Some(one, Kind("filter")) /\ ~Some(one, Kind("document")) /\ ~Some(one, Kind("current"))
      /\ ~Then(one, Kind("filter"), Kind("document")) /\ ~Then(one, Kind("current"), Kind("filter"))
      /\ ~Pending(one) /\ \A n : ~Coming(one, n)
  BY <1>2, <1>4 DEF Some, Then, Pending, Coming, Kind
<1>6. \A i \in DOMAIN (in \o one) :
         \/ i \in DOMAIN in /\ (in \o one)[i] = in[i]
         \/ (in \o one)[i] = m
  <2> HIDE DEF in, one
  <2> QED
    BY <1>1, <1>2, ConcatPlaces
<1>7. \A i \in Nat \ {0} : Reports(in, i) => Reports(in \o one, i)
  <2> HIDE DEF in, one
  <2> QED
    BY <1>1, <1>2, ReportsMore
<1>8. DOMAIN in \subseteq Nat \ {0}
  <2> HIDE DEF in
  <2> QED
    BY <1>1
<1>9. \A n : Coming(in \o one, n) <=> Coming(in, n)
  <2> HIDE DEF in, one
  <2> QED
    BY <1>1, <1>2, <1>5, ComingConcat
<1>10. /\ Then(in \o one, Kind("filter"), Kind("document")) => Then(in, Kind("filter"), Kind("document"))
       /\ Then(in \o one, Kind("current"), Kind("filter")) => Then(in, Kind("current"), Kind("filter"))
  <2> HIDE DEF in, one
  <2> QED
    BY <1>1, <1>2, <1>5, ThenConcat
<1>11. Sorted(in)
  BY <1>1 DEF Telltale
<1>12. client.updates # <<>> => in # <<>> /\ Reports(in, 1)
  BY <1>1 DEF Telltale
<1>13. \A n : Coming(in, n) =>
          TrueMail(log, in, n) /\ \A d \in DOMAIN client.updates : TrueUpdate(log, client, d, n)
  BY <1>1 DEF Telltale
<1>14. in \o one # <<>>
  <2> HIDE DEF in
  <2> QED
    BY <1>1, <1>2
<1> HIDE DEF in, one
<1>15. Sorted(in \o one)
  <2>1. ASSUME NEW i \in DOMAIN (in \o one), (in \o one)[i].kind \in Telling
        PROVE  Reports(in \o one, i)
    BY <1>6, <1>7, <1>8, <1>11, <2>1 DEF Sorted
  <2> QED
    BY <1>10, <1>11, <2>1 DEF Sorted
<1>16. ASSUME NEW n, Coming(in \o one, n)
       PROVE  TrueMail(log, in \o one, n) /\ \A d \in DOMAIN x.updates : TrueUpdate(log, x, d, n)
  <2>1. Coming(in, n)
    BY <1>9, <1>16
  <2>2. TrueMail(log, in, n)
    BY <1>13, <2>1
  <2>3. TrueMessage(log, m, n)
    BY <1>4 DEF TrueMessage
  <2>4. TrueMail(log, in \o one, n)
    BY <1>6, <2>2, <2>3 DEF TrueMail
  <2>5. \A d \in DOMAIN x.updates : TrueUpdate(log, x, d, n)
    BY <1>13, <2>1 DEF TrueUpdate
  <2> QED
    BY <2>4, <2>5
<1>17. x.resets \subseteq {Query}
  BY <1>1 DEF Telltale
<1>18. x.updates # <<>> => in \o one # <<>> /\ Reports(in \o one, 1)
  BY <1>7, <1>12, <1>14
<1> QED
  BY <1>3, <1>15, <1>16, <1>17, <1>18 DEF Telltale

\* The server answers the first request, with a message of a kind.
Replies(x, kind) ==
    /\ client.requests # <<>> /\ kind \in {"added", "removed", "error"}
    /\ kind \in {"added", "error"} <=> Head(client.requests).add
    /\ Only(x, client, {"requests", "incoming", "serving"})
    /\ x.requests = Tail(client.requests)
    /\ x.incoming = Append(client.incoming, About(Head(client.requests).target, kind))
    /\ \A u \in Watched : u # Head(client.requests).target =>
          /\ u \in DOMAIN x.serving <=> u \in DOMAIN client.serving
          /\ u \in DOMAIN client.serving => x.serving[u] = client.serving[u]

\* What it read, and what it says.
LEMMA RequestIs ==
    ASSUME Ready, NEW x, NEW kind, Replies(x, kind)
    PROVE  LET r == Head(client.requests)
               m == About(r.target, kind)
           IN  /\ r \in RequestType /\ r.target \in Watched /\ r \in Asks(r.target)
               /\ r.add <=> r \in Adds(r.target)
               /\ r.add <=> r \notin Drops(r.target)
               /\ \A u : u # r.target => r \notin Asks(u)
               /\ m \in Message /\ m.kind = kind /\ m \in Answers(r.target)
               /\ m \in Closing(r.target) <=> r.add
               /\ \A u : u # r.target => m \notin Of(u)
               /\ \A other : other # kind => m \notin Said(other, r.target)
               /\ m \in Said(kind, r.target)
               /\ client.stream = "Open" /\ client.incoming \in Seq(Message)
               /\ client.requests \in Seq(RequestType)
<1> DEFINE r == Head(client.requests)
           m == About(r.target, kind)
<1>1. client.incoming \in Seq(Message) /\ client.requests \in Seq(RequestType)
  BY ReadyIs, ServerKnows
<1>2. client.requests # <<>> /\ kind \in {"added", "removed", "error"}
      /\ (kind \in {"added", "error"} <=> r.add)
  BY DEF Replies
<1>3. client.stream = "Open"
  BY <1>2, ReadyIs DEF Sound, Runs, Running, Flowing, Wired, Quiet
<1>4. r \in RequestType
  BY <1>1, <1>2
<1> HIDE DEF r
<1>5. /\ r.target \in Watched /\ r \in Asks(r.target) /\ (r.add <=> r \in Adds(r.target))
      /\ (r.add <=> r \notin Drops(r.target)) /\ \A u : u # r.target => r \notin Asks(u)
  BY <1>4 DEF RequestType, Asks, Adds, Drops
<1>6. m \in Message
  BY <1>2, <1>5, AboutTyped
<1>7. m.kind = kind /\ m.about = {r.target} /\ m \in Answers(r.target)
  BY <1>2 DEF About, Answers
<1>8. m \in Closing(r.target) <=> r.add
  BY <1>2 DEF About, Closing
<1> HIDE DEF m
<1>9. /\ \A u : u # r.target => m \notin Of(u)
      /\ \A other : other # kind => m \notin Said(other, r.target)
      /\ m \in Said(kind, r.target)
  BY <1>6, <1>7 DEF Of, Said
<1> QED
  BY <1>1, <1>3, <1>4, <1>5, <1>6, <1>7, <1>8, <1>9 DEF m, r

\* It is enough that the target of the request is right.
LEMMA RepliesExact ==
    ASSUME Ready, NEW x, NEW kind, Replies(x, kind), Right(log, x, Head(client.requests).target)
    PROVE  Exact(log, x)
<1> DEFINE r == Head(client.requests)
           m == About(r.target, kind)
           in == client.incoming
           out == client.requests
<1>1. /\ r \in RequestType /\ r.target \in Watched /\ \A u : u # r.target => r \notin Asks(u)
      /\ m \in Message /\ m.kind = kind /\ m \in Answers(r.target)
      /\ m \in Closing(r.target) <=> r.add
      /\ \A u : u # r.target => m \notin Of(u)
      /\ in \in Seq(Message) /\ out \in Seq(RequestType)
  BY RequestIs
<1>2. /\ out # <<>> /\ kind \in {"added", "removed", "error"} /\ x.requests = Tail(out)
      /\ x.incoming = Append(in, m) /\ Only(x, client, {"requests", "incoming", "serving"})
      /\ \A u \in Watched : u # r.target =>
            /\ u \in DOMAIN x.serving <=> u \in DOMAIN client.serving
            /\ u \in DOMAIN client.serving => x.serving[u] = client.serving[u]
  BY DEF Replies
<1>3. r = Head(out) /\ in = client.incoming /\ out = client.requests /\ r = Head(client.requests)
  OBVIOUS
<1> HIDE DEF m, r, in, out
<1>4. /\ x.updates = client.updates /\ x.resets = client.resets /\ x.keys = client.keys
  BY <1>2 DEF Only, Fields
<1>5. kind \notin Telling /\ kind # "snapshot"
  BY <1>2 DEF Telling
<1>6. Telltale(log, x)
  BY <1>1, <1>2, <1>3, <1>4, <1>5, MessageTelltale
<1>7. ASSUME NEW u \in Watched, u # r.target
      PROVE  Right(log, x, u)
  <2>1. m \notin Of(u) /\ r \notin Asks(u)
    BY <1>1, <1>7
  <2>2. SameMail(Append(in, m), in, u)
    BY <1>1, <1>5, <2>1, MailMore
  <2>3. SameAsked(Tail(out), out, u)
    BY <1>1, <1>2, <1>3, <2>1, AskedTail
  <2>4. Due(Append(in, m), Tail(out), u) = Due(in, out, u)
    BY <1>1, <1>2, <1>3, RequestAnswered
  <2>5. SameTarget(x, client, u)
    BY <1>2, <1>3, <1>7, <2>2, <2>3, <2>4, ServerElse, Zenon
  <2>6. Right(log, client, u)
    BY ReadyIs DEF Net
  <2> QED
    BY <2>5, <2>6, RightSame
<1>8. \A u \in Watched : Right(log, x, u)
  BY <1>3, <1>7
<1> QED
  BY <1>2, <1>6, <1>8, ServerExact

\* What is said of that target.
LEMMA RepliesTold ==
    ASSUME Ready, NEW x, NEW kind, Replies(x, kind), NEW t, t = Head(client.requests).target
    PROVE  /\ \A A : /\ About(t, kind) \notin A => (Some(x.incoming, A) <=> Some(client.incoming, A))
                     /\ About(t, kind) \notin A => (Behind(x.incoming, A) <=> Behind(client.incoming, A))
                     /\ Some(x.requests, A) => Some(client.requests, A)
           /\ Then(x.incoming, Said("reset", t), Answers(t)) =>
                 \/ Then(client.incoming, Said("reset", t), Answers(t))
                 \/ Some(client.incoming, Said("reset", t))
           /\ Late(x, t)
           /\ Some(x.incoming, Said(kind, t))
           /\ Ends(client.incoming, Said("reset", t), Said("removed", t)) \/ kind = "removed"
                 => Ends(x.incoming, Said("reset", t), Said("removed", t))
           /\ Ends(client.requests, Asks(t), Drops(t)) => Ends(x.requests, Asks(t), Drops(t))
           /\ Ends(client.requests, Asks(t), Drops(t)) /\ kind # "removed" => Some(x.requests, Asks(t))
<1> DEFINE m == About(t, kind)
           in == client.incoming
           out == client.requests
           one == <<m>>
<1>1. /\ Head(out) \in Asks(t) /\ (Head(out).add <=> Head(out) \notin Drops(t))
      /\ m \in Message /\ m.kind = kind /\ m \in Answers(t) /\ m \in Said(kind, t)
      /\ \A other : other # kind => m \notin Said(other, t)
      /\ in \in Seq(Message) /\ out \in Seq(RequestType)
  BY RequestIs
<1>2. /\ out # <<>> /\ kind \in {"added", "removed", "error"} /\ x.requests = Tail(out)
      /\ x.incoming = Append(in, m) /\ (kind \in {"added", "error"} <=> Head(out).add)
  BY DEF Replies
<1>3. one \in Seq(Message) /\ DOMAIN one = {1} /\ one[1] = m
  BY <1>1
<1>4. Append(in, m) = in \o one
  BY <1>1, OneMore
<1>5. in = client.incoming /\ out = client.requests /\ m = About(t, kind)
  OBVIOUS
<1>6. ~Pending(one) /\ \A A : Some(one, A) <=> m \in A
  BY <1>1, <1>2, <1>3 DEF Pending, Some
<1>7. /\ ~Then(one, Said("reset", t), Answers(t))
      /\ Ends(one, Said("reset", t), Said("removed", t))
  BY <1>1, <1>2, <1>3 DEF Then, Ends
<1> HIDE DEF m, in, out, one
<1>8. x.incoming = in \o one
  BY <1>2, <1>4
<1>9. \A A : /\ Some(in \o one, A) <=> Some(in, A) \/ m \in A
             /\ Behind(in \o one, A) <=> Behind(in, A) \/ m \in A
  BY <1>1, <1>3, <1>6, SomeConcat, BeforeConcat
<1>10. \A A : Some(Tail(out), A) => Some(out, A)
  BY <1>1, <1>2, SomeTail
<1>11. Late(x, t)
  BY <1>1, <1>8, <1>9 DEF Late
<1>12. Then(in \o one, Said("reset", t), Answers(t)) =>
          Then(in, Said("reset", t), Answers(t)) \/ Some(in, Said("reset", t))
  BY <1>1, <1>3, <1>7, ThenConcat
<1>13. /\ Ends(in, Said("reset", t), Said("removed", t)) \/ kind = "removed"
            => Ends(in \o one, Said("reset", t), Said("removed", t))
  BY <1>1, <1>3, <1>6, <1>7, ThenConcat
<1>14. Ends(out, Asks(t), Drops(t)) => Ends(Tail(out), Asks(t), Drops(t))
  BY <1>1, <1>2, ThenTail
<1>15. Ends(out, Asks(t), Drops(t)) /\ kind # "removed" => Some(Tail(out), Asks(t))
  <2>1. ASSUME Ends(out, Asks(t), Drops(t)), kind # "removed"
        PROVE  Some(Tail(out), Asks(t))
    <3>1. Head(out) \notin Drops(t)
      BY <1>1, <1>2, <2>1
    <3>2. Some(Tail(out), Drops(t))
      BY <1>1, <1>2, <2>1, <3>1, ThenTail
    <3>3. Drops(t) \subseteq Asks(t)
      BY DEF Drops, Asks
    <3> QED
      BY <3>2, <3>3 DEF Some
  <2> QED
    BY <2>1
<1>17. Some(x.incoming, Said(kind, t))
  BY <1>1, <1>8, <1>9
<1> QED
  BY <1>2, <1>5, <1>8, <1>9, <1>10, <1>11, <1>12, <1>13, <1>14, <1>15, <1>17

\* A target that is watched is asked for last.
LEMMA RepliesOrder ==
    ASSUME Ready, NEW x, NEW kind, Replies(x, kind), NEW t, t = Head(client.requests).target,
           t \in DOMAIN client.listening
    PROVE  /\ ~Some(client.incoming, Said("error", t))
           /\ Some(x.requests, Asks(t)) <=> kind = "removed"
           /\ kind # "removed" => ~Some(client.requests, Drops(t))
           /\ Some(client.requests, Asks(t)) /\ (kind # "removed" => Some(client.requests, Adds(t)))
<1> DEFINE in == client.incoming
           out == client.requests
<1>1. /\ Head(out) \in Asks(t) /\ (Head(out).add <=> Head(out) \in Adds(t))
      /\ (Head(out).add <=> Head(out) \notin Drops(t))
      /\ in \in Seq(Message) /\ out \in Seq(RequestType)
  BY RequestIs
<1>2. /\ out # <<>> /\ kind \in {"added", "removed", "error"} /\ x.requests = Tail(out)
      /\ (kind \in {"added", "error"} <=> Head(out).add)
  BY DEF Replies
<1>3. InOrder(in, out, t)
  BY ReadyIs DEF Sound, Runs, Running, Flowing, Ordered
<1> HIDE DEF in, out
<1>4. /\ Len(out) \in Nat \ {0} /\ DOMAIN out = 1 .. Len(out) /\ out[1] = Head(out)
      /\ DOMAIN Tail(out) = 1 .. (Len(out) - 1)
      /\ \A i \in DOMAIN Tail(out) : i + 1 \in DOMAIN out /\ Tail(out)[i] = out[i + 1]
      /\ \A i \in DOMAIN out : i # 1 => i - 1 \in DOMAIN Tail(out) /\ Tail(out)[i - 1] = out[i]
  BY <1>1, <1>2, TailPlaces
<1>5. 1 \in At(out, Asks(t))
  BY <1>1, <1>4 DEF At
<1>6. At(in, Closing(t)) = {}
  BY <1>3, <1>5 DEF InOrder
<1>7. ~Some(in, Said("error", t))
  <2>1. ASSUME NEW i \in DOMAIN in, in[i] \in Said("error", t)
        PROVE  FALSE
    <3>1. in[i] \in Message /\ in[i].kind = "error" /\ t \in in[i].about
      BY <2>1 DEF Said
    <3>2. in[i] \in Single
      BY <3>1 DEF Message, Filter, Snapshot, Document, News
    <3>3. in[i] \in Closing(t)
      BY <3>1, <3>2 DEF Single, Closing
    <3> QED
      BY <1>6, <3>3 DEF At
  <2> QED
    BY <2>1 DEF Some
<1>8. CASE kind = "removed"
  <2>1. Head(out) \notin Adds(t)
    BY <1>1, <1>2, <1>8
  <2>2. At(out, Adds(t)) # {}
    BY <1>3, <1>5, <1>6 DEF InOrder
  <2>3. PICK i \in DOMAIN out : out[i] \in Adds(t)
    BY <2>2 DEF At
  <2>4. i # 1
    BY <1>4, <2>1, <2>3
  <2>5. i - 1 \in DOMAIN Tail(out) /\ Tail(out)[i - 1] \in Asks(t)
    BY <1>4, <2>3, <2>4 DEF Adds, Asks
  <2>6. Some(Tail(out), Asks(t))
    BY <2>5 DEF Some
  <2>7. Some(out, Asks(t))
    BY <1>1, <1>4 DEF Some
  <2> QED
    BY <1>2, <1>7, <1>8, <2>6, <2>7 DEF in, out
<1>9. CASE kind # "removed"
  <2>1. Head(out) \in Adds(t) /\ Head(out) \notin Drops(t)
    BY <1>1, <1>2, <1>9
  <2>2. 1 \in At(out, Adds(t))
    BY <1>4, <2>1 DEF At
  <2>3. \A j \in At(out, Asks(t)) : j <= 1
    BY <1>3, <2>2 DEF InOrder
  <2>4. ~Some(Tail(out), Asks(t))
    <3>1. ASSUME NEW i \in DOMAIN Tail(out), Tail(out)[i] \in Asks(t)
          PROVE  FALSE
      <4>1. i + 1 \in DOMAIN out /\ out[i + 1] \in Asks(t) /\ i \in Nat \ {0}
        BY <1>4, <3>1
      <4>2. i + 1 \in At(out, Asks(t))
        BY <4>1 DEF At
      <4>3. i + 1 <= 1
        BY <2>3, <4>2
      <4> QED
        BY <4>1, <4>3
    <3> QED
      BY <3>1 DEF Some
  <2>5. ~Some(out, Drops(t))
    <3>1. ASSUME NEW i \in DOMAIN out, out[i] \in Drops(t)
          PROVE  FALSE
      <4>1. i \in At(out, Asks(t))
        BY <3>1 DEF At, Drops, Asks
      <4>2. i = 1
        BY <1>4, <2>3, <4>1
      <4> QED
        BY <1>4, <2>1, <3>1, <4>2
    <3> QED
      BY <3>1 DEF Some
  <2>6. Some(out, Asks(t)) /\ Some(out, Adds(t))
    BY <1>1, <1>4, <2>1 DEF Some
  <2> QED
    BY <1>2, <1>7, <1>9, <2>4, <2>5, <2>6 DEF in, out
<1> QED
  BY <1>8, <1>9

\* What the client knows of a target of which an answer is due.
LEMMA RepliesDue ==
    ASSUME Ready, NEW x, NEW kind, Replies(x, kind), NEW t, t = Head(client.requests).target
    PROVE  /\ t \in Watched /\ Right(log, client, t) /\ client.stream = "Open"
           /\ t \in DOMAIN client.agg /\ x.agg = client.agg /\ x.listening = client.listening
           /\ Some(client.requests, Asks(t))
           /\ t \in DOMAIN client.listening =>
                 Sees(log, x, t) /\ Collects(x, t) /\ DOMAIN Entry(x, t).changes = {}
<1>1. t \in Watched /\ client.stream = "Open" /\ Head(client.requests) \in Asks(t)
      /\ client.incoming \in Seq(Message) /\ client.requests \in Seq(RequestType)
      /\ About(t, kind) \in Message /\ About(t, kind) \in Answers(t)
      /\ (About(t, kind) \in Closing(t) <=> Head(client.requests).add)
  BY RequestIs
<1>2. client.requests # <<>> /\ x.requests = Tail(client.requests)
      /\ x.incoming = Append(client.incoming, About(t, kind))
      /\ Only(x, client, {"requests", "incoming", "serving"})
  BY DEF Replies
<1>3. Right(log, client, t)
  BY <1>1, ReadyIs DEF Net
<1>4. /\ x.listening = client.listening /\ x.agg = client.agg /\ x.updates = client.updates
      /\ x.received = client.received /\ x.on = client.on /\ x.view = client.view
  BY <1>2 DEF Only, Fields
<1>5. RemoteKeys(x, t) = RemoteKeys(client, t) /\ Entry(x, t) = Entry(client, t)
  BY <1>4 DEF RemoteKeys, Entry
<1>6. Due(x.incoming, x.requests, t) = Due(client.incoming, client.requests, t)
  <2> DEFINE m == About(t, kind)
             in == client.incoming
             out == client.requests
  <2>1. in \in Seq(Message) /\ out \in Seq(RequestType) /\ out # <<>> /\ m \in Message
        /\ m \in Answers(Head(out).target) /\ (m \in Closing(Head(out).target) <=> Head(out).add)
        /\ x.incoming = Append(in, m) /\ x.requests = Tail(out)
    BY <1>1, <1>2
  <2>2. in = client.incoming /\ out = client.requests
    OBVIOUS
  <2> HIDE DEF m, in, out
  <2>3. Due(Append(in, m), Tail(out), t) = Due(in, out, t)
    BY <2>1, RequestAnswered
  <2> QED
    BY <2>1, <2>2, <2>3
<1>7. Some(client.requests, Asks(t))
  BY <1>1, <1>2, SomeTail
<1>8. Due(client.incoming, client.requests, t) # 0 /\ Due(client.incoming, client.requests, t) \in Nat
  <2>1. At(client.requests, Asks(t)) # {}
    BY <1>7 DEF Some, At
  <2> QED
    BY <1>1, <2>1, DueIs
<1>9. Entry(client, t).outstanding >= Due(client.incoming, client.requests, t)
  BY <1>1, ReadyIs DEF Sound, Runs, Running, Flowing, Counted
<1>10. t \in DOMAIN client.agg
  <2>1. NewEntry.outstanding = 0
    BY DEF NewEntry
  <2>2. t \notin DOMAIN client.agg => Entry(client, t) = NewEntry
    BY DEF Entry
  <2> QED
    BY <1>8, <1>9, <2>1, <2>2
<1>11. ASSUME t \in DOMAIN client.listening
       PROVE  Sees(log, x, t) /\ Collects(x, t) /\ DOMAIN Entry(x, t).changes = {}
  <2>1. Sees(log, client, t) /\ Collects(client, t)
    BY <1>1, <1>3, <1>11 DEF Right, Flows
  <2>2. Sees(log, x, t)
    BY <1>4, <1>5, <2>1 DEF Sees
  <2>3. Collects(x, t)
    BY <1>4, <1>5, <1>6, <2>1 DEF Collects
  <2>4. DOMAIN Entry(x, t).changes = {}
    BY <1>5, <1>8, <2>1 DEF Collects
  <2> QED
    BY <2>2, <2>3, <2>4
<1> QED
  BY <1>1, <1>3, <1>4, <1>7, <1>10, <1>11

-----------------------------------------------------------------------------
(***************************************************************************)
(* A target is added, removed, refused or started over on the server.      *)
(***************************************************************************)
\* A target that is added is served from where the client is.
LEMMA AddedRight ==
    ASSUME Ready, NEW x, Replies(x, "added"), NEW t, t = Head(client.requests).target,
           t \in DOMAIN x.serving,
           x.serving[t] = [at |-> Head(client.requests).token, fresh |-> TRUE]
    PROVE  Right(log, x, t)
<1> DEFINE m == About(t, "added")
<1>1. /\ t \in Watched /\ Right(log, client, t) /\ client.stream = "Open"
      /\ t \in DOMAIN client.agg /\ x.agg = client.agg /\ x.listening = client.listening
      /\ Some(client.requests, Asks(t))
      /\ t \in DOMAIN client.listening =>
            Sees(log, x, t) /\ Collects(x, t) /\ DOMAIN Entry(x, t).changes = {}
  BY RepliesDue
<1>2. /\ \A A : /\ m \notin A => (Some(x.incoming, A) <=> Some(client.incoming, A))
                /\ m \notin A => (Behind(x.incoming, A) <=> Behind(client.incoming, A))
                /\ Some(x.requests, A) => Some(client.requests, A)
      /\ Then(x.incoming, Said("reset", t), Answers(t)) =>
            \/ Then(client.incoming, Said("reset", t), Answers(t))
            \/ Some(client.incoming, Said("reset", t))
      /\ Late(x, t)
      /\ Ends(client.requests, Asks(t), Drops(t)) => Ends(x.requests, Asks(t), Drops(t))
      /\ Ends(client.requests, Asks(t), Drops(t)) => Some(x.requests, Asks(t))
  BY RepliesTold
<1>3. /\ Head(client.requests) \in RequestType /\ Head(client.requests).target = t
      /\ m \notin Said("reset", t) /\ m \notin Said("error", t)
      /\ client.requests \in Seq(RequestType) /\ Head(client.requests) \in Adds(t)
  <2>1. Head(client.requests).add
    BY DEF Replies
  <2> QED
    BY <2>1, RequestIs
<1> HIDE DEF m
<1>4. Known(client, t)
  BY <1>1 DEF Right
<1>5. Known(x, t)
  BY <1>1, <1>2, <1>4 DEF Known
<1>6. ASSUME t \in DOMAIN x.listening
      PROVE  Flows(log, x, t)
  <2>1. Asking(client, t)
    BY <1>1, <1>6 DEF Right, Flows
  <2>2. ~Some(x.requests, Asks(t)) /\ ~Some(client.incoming, Said("error", t))
    BY <1>1, <1>6, RepliesOrder
  <2>3. ~Some(x.requests, Adds(t))
    <3>1. Adds(t) \subseteq Asks(t)
      BY DEF Adds, Asks
    <3> QED
      BY <2>2, <3>1 DEF Some
  <2>4. Some(client.incoming, Said("reset", t)) => x.listening[t] = 0
    BY <1>1, <2>1 DEF Asking
  <2>5. Asking(x, t)
    BY <1>1, <1>2, <1>3, <2>1, <2>2, <2>3, <2>4 DEF Asking
  <2>6. Head(client.requests).token = x.listening[t]
    <3>1. ~Some(client.requests, Outdated(t, x.listening[t]))
      BY <1>1, <2>1 DEF Asking
    <3>2. client.requests # <<>>
      BY DEF Replies
    <3>3. Head(client.requests) \notin Outdated(t, x.listening[t])
      BY <1>3, <3>1, <3>2, SomeTail
    <3> QED
      BY <1>3, <3>3 DEF Outdated
  <2>7. x.serving[t].at = x.listening[t] /\ x.serving[t].fresh
    BY <2>6
  <2>8. Behind(x.incoming, Said("reset", t)) => x.listening[t] = 0
    <3>1. Behind(x.incoming, Said("reset", t)) => Some(client.incoming, Said("reset", t))
      BY <1>2, <1>3 DEF Behind, Some
    <3> QED
      BY <2>4, <3>1
  <2>9. Resumed(x, t)
    BY <1>1, <1>6, <2>7 DEF Resumed
  <2>10. Served(x, t)
    BY <1>2, <2>7, <2>8, <2>9 DEF Served
  <2>11. Brings(log, x, t)
    BY <1>2 DEF Brings
  <2> QED
    BY <1>1, <1>6, <2>5, <2>10, <2>11 DEF Flows
<1> QED
  BY <1>1, <1>5, <1>6 DEF Right

\* One that is removed is asked for again, ...
LEMMA RemovedRight ==
    ASSUME Ready, NEW x, Replies(x, "removed"), NEW t, t = Head(client.requests).target,
           t \notin DOMAIN x.serving
    PROVE  Right(log, x, t)
<1> DEFINE m == About(t, "removed")
<1>1. /\ t \in Watched /\ Right(log, client, t) /\ client.stream = "Open"
      /\ t \in DOMAIN client.agg /\ x.agg = client.agg /\ x.listening = client.listening
      /\ Some(client.requests, Asks(t))
      /\ t \in DOMAIN client.listening => Sees(log, x, t) /\ Collects(x, t)
  BY RepliesDue
<1>2. /\ \A A : /\ m \notin A => (Some(x.incoming, A) <=> Some(client.incoming, A))
                /\ Some(x.requests, A) => Some(client.requests, A)
      /\ Then(x.incoming, Said("reset", t), Answers(t)) =>
            \/ Then(client.incoming, Said("reset", t), Answers(t))
            \/ Some(client.incoming, Said("reset", t))
      /\ Late(x, t)
      /\ Ends(x.incoming, Said("reset", t), Said("removed", t))
      /\ Ends(client.requests, Asks(t), Drops(t)) => Ends(x.requests, Asks(t), Drops(t))
  BY RepliesTold
<1>3. m \notin Said("reset", t) /\ m \notin Said("error", t)
  BY RequestIs
<1> HIDE DEF m
<1>4. Known(client, t)
  BY <1>1 DEF Right
<1>5. Known(x, t)
  BY <1>1, <1>2, <1>4 DEF Known
<1>6. ASSUME t \in DOMAIN x.listening
      PROVE  Flows(log, x, t)
  <2>1. Asking(client, t)
    BY <1>1, <1>6 DEF Right, Flows
  <2>2. Some(x.requests, Asks(t)) /\ ~Some(client.incoming, Said("error", t))
    BY <1>1, <1>6, RepliesOrder
  <2>3. Some(client.incoming, Said("reset", t)) => x.listening[t] = 0
    BY <1>1, <2>1 DEF Asking
  <2>4. Asking(x, t)
    BY <1>1, <1>2, <1>3, <2>1, <2>2, <2>3 DEF Asking
  <2>5. Served(x, t)
    BY <2>2 DEF Served
  <2>6. Brings(log, x, t)
    BY <1>2 DEF Brings
  <2> QED
    BY <1>1, <1>6, <2>4, <2>5, <2>6 DEF Flows
<1> QED
  BY <1>1, <1>5, <1>6 DEF Right

\* ... and one that is refused was not served.
LEMMA TurnedDownRight ==
    ASSUME Ready, NEW x, Replies(x, "error"), NEW t, t = Head(client.requests).target,
           x.serving = client.serving
    PROVE  Right(log, x, t)
<1> DEFINE m == About(t, "error")
<1>1. /\ t \in Watched /\ Right(log, client, t) /\ client.stream = "Open"
      /\ t \in DOMAIN client.agg /\ x.agg = client.agg /\ x.listening = client.listening
      /\ Some(client.requests, Asks(t))
      /\ t \in DOMAIN client.listening => Sees(log, x, t) /\ Collects(x, t)
  BY RepliesDue
<1>2. /\ \A A : /\ m \notin A => (Some(x.incoming, A) <=> Some(client.incoming, A))
                /\ Some(x.requests, A) => Some(client.requests, A)
      /\ Then(x.incoming, Said("reset", t), Answers(t)) =>
            \/ Then(client.incoming, Said("reset", t), Answers(t))
            \/ Some(client.incoming, Said("reset", t))
      /\ Late(x, t) /\ Some(x.incoming, Said("error", t))
      /\ Ends(client.incoming, Said("reset", t), Said("removed", t))
            => Ends(x.incoming, Said("reset", t), Said("removed", t))
      /\ Ends(client.requests, Asks(t), Drops(t)) => Ends(x.requests, Asks(t), Drops(t))
      /\ Ends(client.requests, Asks(t), Drops(t)) => Some(x.requests, Asks(t))
  BY RepliesTold
<1>3. m \notin Said("reset", t)
  BY RequestIs
<1> HIDE DEF m
<1>4. Known(client, t)
  BY <1>1 DEF Right
<1>5. Known(x, t)
  BY <1>1, <1>2, <1>3, <1>4 DEF Known
<1>6. ASSUME t \in DOMAIN x.listening
      PROVE  Flows(log, x, t)
  <2>1. Asking(client, t)
    BY <1>1, <1>6 DEF Right, Flows
  <2>2. /\ ~Some(x.requests, Asks(t)) /\ ~Some(client.requests, Drops(t))
        /\ Some(client.requests, Adds(t))
    BY <1>1, <1>6, RepliesOrder
  <2>3. t \notin DOMAIN x.serving
    BY <2>1, <2>2 DEF Asking
  <2>4. Some(client.incoming, Said("reset", t)) => x.listening[t] = 0
    BY <1>1, <2>1 DEF Asking
  <2>5. Asking(x, t)
    BY <1>1, <1>2, <1>3, <2>1, <2>2, <2>3, <2>4 DEF Asking
  <2>6. Served(x, t)
    BY <1>2 DEF Served
  <2>7. Brings(log, x, t)
    BY <1>2 DEF Brings
  <2> QED
    BY <1>1, <1>6, <2>5, <2>6, <2>7 DEF Flows
<1> QED
  BY <1>1, <1>5, <1>6 DEF Right

\* The server adds a target, ...
LEMMA ServerAddsExact ==
    ASSUME Ready, ServerAdds
    PROVE  Exact(log', client')
<1> DEFINE r == Head(client.requests)
           requests == Tail(client.requests)
           incoming == Append(client.incoming, About(r.target, "added"))
           old == client.serving
           v == [at |-> r.token, fresh |-> TRUE]
           serving == With(old, r.target, v)
           x == [client EXCEPT !.requests = requests, !.incoming = incoming, !.serving = serving]
<1>1. client' = x /\ log' = log /\ client.requests # <<>> /\ r.add
  BY DEF ServerAdds, Reads
<1>2. Shape(client)
  BY ReadyIs, ServerKnows
<1>3. requests = Tail(client.requests) /\ incoming = Append(client.incoming, About(r.target, "added"))
      /\ old = client.serving /\ r = Head(client.requests)
      /\ v = [at |-> Head(client.requests).token, fresh |-> TRUE]
  OBVIOUS
<1>4. /\ r.target \in DOMAIN serving /\ serving[r.target] = v
      /\ \A u : u # r.target => /\ u \in DOMAIN serving <=> u \in DOMAIN old
                                /\ u \in DOMAIN old => serving[u] = old[u]
  <2> HIDE DEF old, v, r
  <2> QED
    BY DEF With, Over
<1> HIDE DEF requests, incoming, serving, old, v, r
<1>5. /\ Only(x, client, {"requests", "incoming", "serving"})
      /\ x.requests = requests /\ x.incoming = incoming /\ x.serving = serving
  BY <1>2 DEF Only, Shape, Fields
<1> HIDE DEF x
<1>6. Replies(x, "added")
  BY <1>1, <1>3, <1>4, <1>5 DEF Replies
<1>7. Right(log, x, r.target)
  BY <1>3, <1>4, <1>5, <1>6, AddedRight
<1> QED
  BY <1>1, <1>3, <1>6, <1>7, RepliesExact

\* ... removes it, ...
LEMMA ServerRemovesExact ==
    ASSUME Ready, ServerRemoves
    PROVE  Exact(log', client')
<1> DEFINE r == Head(client.requests)
           requests == Tail(client.requests)
           incoming == Append(client.incoming, About(r.target, "removed"))
           old == client.serving
           serving == Without(old, r.target)
           x == [client EXCEPT !.requests = requests, !.incoming = incoming, !.serving = serving]
<1>1. client' = x /\ log' = log /\ client.requests # <<>> /\ ~r.add
  BY DEF ServerRemoves, Reads
<1>2. Shape(client)
  BY ReadyIs, ServerKnows
<1>3. requests = Tail(client.requests) /\ incoming = Append(client.incoming, About(r.target, "removed"))
      /\ old = client.serving /\ r = Head(client.requests)
  OBVIOUS
<1>4. /\ r.target \notin DOMAIN serving
      /\ \A u : u # r.target => /\ u \in DOMAIN serving <=> u \in DOMAIN old
                                /\ u \in DOMAIN old => serving[u] = old[u]
  <2> HIDE DEF old, r
  <2> QED
    BY DEF Without, Restrict
<1> HIDE DEF requests, incoming, serving, old, r
<1>5. /\ Only(x, client, {"requests", "incoming", "serving"})
      /\ x.requests = requests /\ x.incoming = incoming /\ x.serving = serving
  BY <1>2 DEF Only, Shape, Fields
<1> HIDE DEF x
<1>6. Replies(x, "removed")
  BY <1>1, <1>3, <1>4, <1>5 DEF Replies
<1>7. Right(log, x, r.target)
  BY <1>3, <1>4, <1>5, <1>6, RemovedRight
<1> QED
  BY <1>1, <1>3, <1>6, <1>7, RepliesExact

\* ... or refuses it.
LEMMA ServerRefusesExact ==
    ASSUME Ready, ServerRefuses
    PROVE  Exact(log', client')
<1> DEFINE r == Head(client.requests)
           requests == Tail(client.requests)
           incoming == Append(client.incoming, About(r.target, "error"))
           x == [client EXCEPT !.requests = requests, !.incoming = incoming]
<1>1. client' = x /\ log' = log /\ client.requests # <<>> /\ r.add
  BY DEF ServerRefuses, Reads
<1>2. Shape(client)
  BY ReadyIs, ServerKnows
<1>3. requests = Tail(client.requests) /\ incoming = Append(client.incoming, About(r.target, "error"))
      /\ r = Head(client.requests)
  OBVIOUS
<1> HIDE DEF requests, incoming, r
<1>4. /\ Only(x, client, {"requests", "incoming", "serving"})
      /\ x.requests = requests /\ x.incoming = incoming /\ x.serving = client.serving
  BY <1>2 DEF Only, Shape, Fields
<1> HIDE DEF x
<1>5. Replies(x, "error")
  BY <1>1, <1>3, <1>4 DEF Replies
<1>6. Right(log, x, r.target)
  BY <1>3, <1>4, <1>5, TurnedDownRight
<1> QED
  BY <1>1, <1>3, <1>5, <1>6, RepliesExact

\* A target that the server starts over has told it nothing.
LEMMA StartsOverRight ==
    ASSUME Ready, NEW t \in DOMAIN client.serving, t \in Watched, client.stream = "Open",
           NEW m \in Message, m.kind = "reset", m \in Said("reset", t),
           NEW x, Only(x, client, {"requests", "incoming", "serving"}),
           x.requests = client.requests, x.incoming = Append(client.incoming, m),
           t \in DOMAIN x.serving, x.serving[t] = [at |-> 0, fresh |-> TRUE]
    PROVE  Right(log, x, t)
<1> DEFINE in == client.incoming
           out == client.requests
           one == <<m>>
<1>1. in \in Seq(Message) /\ out \in Seq(RequestType) /\ one \in Seq(Message)
  BY ReadyIs, ServerKnows
<1>2. DOMAIN one = {1} /\ one[1] = m
  OBVIOUS
<1>3. x.incoming = in \o one /\ x.requests = out
  BY <1>1, OneMore
<1>4. in = client.incoming /\ out = client.requests
  OBVIOUS
<1>5. ~Pending(one) /\ (\A A : Some(one, A) <=> m \in A) /\ \A n : ~Coming(one, n)
  BY <1>2 DEF Pending, Some, Coming
<1>6. ~Then(one, Said("reset", t), Answers(t))
  BY <1>2 DEF Then
<1>7. /\ m \notin Answers(t) /\ \A kind : kind # "reset" => m \notin Said(kind, t)
      /\ \A d : m \notin DocOf(t, d)
  BY DEF Answers, Said, DocOf
<1> HIDE DEF in, out, one
<1>8. \A A : /\ Some(in \o one, A) <=> Some(in, A) \/ m \in A
             /\ Behind(in \o one, A) <=> Behind(in, A) \/ m \in A
             /\ Before(in \o one, A) <=> Before(in, A)
  BY <1>1, <1>5, SomeConcat, BeforeConcat
<1>9. Then(in \o one, Said("reset", t), Answers(t)) => Then(in, Said("reset", t), Answers(t))
  BY <1>1, <1>5, <1>6, <1>7, ThenConcat
<1>10. \A n : Coming(in \o one, n) <=> Coming(in, n)
  BY <1>1, <1>5, ComingConcat
<1>11. Due(in \o one, out, t) = Due(in, out, t)
  <2>1. \A i \in DOMAIN one : one[i] \notin Answers(t)
    BY <1>2, <1>7
  <2> QED
    BY <1>1, <2>1, NewsTold
<1>12. /\ x.listening = client.listening /\ x.agg = client.agg /\ x.updates = client.updates
       /\ x.received = client.received /\ x.on = client.on /\ x.view = client.view
       /\ x.resets = client.resets
  BY DEF Only, Fields
<1>13. RemoteKeys(x, t) = RemoteKeys(client, t) /\ Entry(x, t) = Entry(client, t)
  BY <1>12 DEF RemoteKeys, Entry
<1>14. Right(log, client, t)
  BY ReadyIs DEF Net
<1>15. Known(client, t)
  BY <1>14 DEF Right
<1>16. Known(x, t)
  BY <1>3, <1>4, <1>12, <1>15 DEF Known
<1>17. ASSUME t \in DOMAIN x.listening
       PROVE  Sees(log, x, t) /\ Flows(log, x, t)
  <2>1. /\ Sees(log, client, t) /\ Collects(client, t) /\ Asking(client, t) /\ Served(client, t)
        /\ Brings(log, client, t)
    BY <1>12, <1>14, <1>17 DEF Right, Flows
  <2>2. Sees(log, x, t)
    BY <1>12, <1>13, <2>1 DEF Sees
  <2>3. Collects(x, t)
    BY <1>3, <1>4, <1>11, <1>12, <1>13, <2>1 DEF Collects
  <2>4. Some(out, Asks(t)) => x.listening[t] = 0
    BY <1>4, <1>12, <2>1 DEF Asking
  <2>5. Asking(x, t)
    BY <1>3, <1>4, <1>7, <1>8, <1>9, <1>12, <2>1, <2>4 DEF Asking
  <2>6. Behind(x.incoming, Said("reset", t))
    BY <1>3, <1>8
  <2>7. Served(x, t)
    BY <2>6 DEF Served
  <2>8. Late(x, t) <=> Late(client, t)
    BY <1>3, <1>4, <1>7, <1>8 DEF Late
  <2>9. \A d : Will(x, t, d) <=> Will(client, t, d)
    BY <1>3, <1>4, <1>8, <1>13 DEF Will, Holds
  <2>10. ASSUME NEW n, Delivers(log, client, t, n)
         PROVE  Delivers(log, x, t, n)
    <3>1. ASSUME NEW d \in t.docs, Rightly(log, client, t, d, n)
          PROVE  Rightly(log, x, t, d, n)
      BY <1>3, <1>4, <1>7, <1>8, <1>12, <2>9, <3>1 DEF Rightly
    <3>2. Confirmed(client, t) => Confirmed(x, t)
      BY <1>3, <1>4, <1>7, <1>8, <1>13 DEF Confirmed
    <3>3. Holds(x, t) = Holds(client, t)
      BY <1>13 DEF Holds
    <3> QED
      BY <1>3, <1>4, <1>7, <1>8, <1>12, <2>10, <3>1, <3>2, <3>3 DEF Delivers
  <2>11. Brings(log, x, t)
    BY <1>3, <1>4, <1>10, <2>1, <2>8, <2>10 DEF Brings
  <2> QED
    BY <2>2, <2>3, <2>5, <2>7, <2>11 DEF Flows
<1> QED
  BY <1>16, <1>17 DEF Right

\* The server starts over with a target it serves.
LEMMA ServerResetsExact ==
    ASSUME Ready, NEW t \in DOMAIN client.serving, ServerResets(t)
    PROVE  Exact(log', client')
<1> DEFINE m == About(t, "reset")
           incoming == client.incoming \o <<m>>
           old == client.serving
           serving == [old EXCEPT ![t] = [at |-> 0, fresh |-> TRUE]]
           x == [client EXCEPT !.incoming = incoming, !.serving = serving]
<1>1. client' = x /\ log' = log
  BY DEF ServerResets, Told
<1>2. Shape(client) /\ client.incoming \in Seq(Message) /\ client.requests \in Seq(RequestType)
  BY ReadyIs, ServerKnows
<1>3. t \in Watched
  BY ReadyIs, ServingIs
<1>4. client.stream = "Open"
  <2>1. client.serving # <<>>
    BY PartialNone
  <2> QED
    BY <2>1, ReadyIs DEF Sound, Runs, Running, Flowing, Wired, Quiet
<1>5. m \in Message /\ m.kind = "reset" /\ m \in Said("reset", t) /\ \A u : u # t => m \notin Of(u)
  <2>1. m \in Message
    BY <1>3, AboutTyped
  <2>2. m.kind = "reset" /\ m.about = {t}
    BY DEF About
  <2> QED
    BY <2>1, <2>2 DEF Said, Of
<1>6. t \in DOMAIN old /\ old = client.serving
  OBVIOUS
<1>7. /\ t \in DOMAIN serving /\ serving[t] = [at |-> 0, fresh |-> TRUE]
      /\ \A u : u # t => /\ u \in DOMAIN serving <=> u \in DOMAIN old
                         /\ u \in DOMAIN old => serving[u] = old[u]
  <2> HIDE DEF old
  <2> QED
    BY <1>6
<1>8. incoming = client.incoming \o <<m>>
  OBVIOUS
<1> HIDE DEF m, incoming, serving, old
<1>9. incoming = Append(client.incoming, m)
  BY <1>2, <1>5, <1>8, OneMore
<1>10. /\ Only(x, client, {"requests", "incoming", "serving"})
       /\ x.incoming = incoming /\ x.requests = client.requests /\ x.serving = serving
  BY <1>2 DEF Only, Shape, Fields
<1> HIDE DEF x
<1>11. Right(log, x, t)
  BY <1>3, <1>4, <1>5, <1>7, <1>9, <1>10, StartsOverRight
<1>12. x.updates = client.updates /\ x.resets = client.resets /\ x.keys = client.keys
  BY <1>10 DEF Only, Fields
<1>13. Telltale(log, x)
  <2>1. m.kind \notin Telling
    BY <1>5 DEF Telling
  <2> QED
    BY <1>5, <1>9, <1>10, <1>12, <2>1, MessageTelltale
<1>14. ASSUME NEW u \in Watched, u # t
       PROVE  Right(log, x, u)
  <2> DEFINE in == client.incoming
             out == client.requests
             one == <<m>>
  <2>1. in \in Seq(Message) /\ one \in Seq(Message) /\ m \notin Of(u) /\ m.kind # "snapshot"
    BY <1>2, <1>5, <1>14
  <2>2. \A i \in DOMAIN one : one[i] \notin Answers(u)
    BY <1>5 DEF Answers
  <2>3. incoming = in \o one /\ incoming = Append(in, m) /\ in = client.incoming
        /\ out = client.requests
    BY <1>8, <1>9
  <2> HIDE DEF in, out, one
  <2>9. m \in Message
    BY <1>5
  <2>10. SameMail(Append(in, m), in, u)
    BY <2>1, <2>9, MailMore
  <2>11. incoming = Append(in, m)
    BY <2>3
  <2>4. SameMail(incoming, in, u)
    BY <2>10, <2>11, Zenon
  <2>5. SameAsked(out, out, u)
    BY MailSame
  <2>12. Due(in \o one, out, u) = Due(in, out, u)
    BY <2>1, <2>2, NewsTold
  <2>13. incoming = in \o one
    BY <2>3
  <2>6. Due(incoming, out, u) = Due(in, out, u)
    BY <2>12, <2>13, Zenon
  <2>7. SameTarget(x, client, u)
    BY <1>6, <1>7, <1>10, <1>14, <2>3, <2>4, <2>5, <2>6, ServerElse
  <2>8. Right(log, client, u)
    BY ReadyIs DEF Net
  <2> QED
    BY <2>7, <2>8, RightSame
<1>15. \A u \in Watched : Right(log, x, u)
  BY <1>11, <1>14
<1>16. Exact(log, x)
  BY <1>10, <1>13, <1>15, ServerExact
<1> QED
  BY <1>1, <1>16

-----------------------------------------------------------------------------
\* A set as a list has all its elements.
LEMMA SetToSeqHas ==
    ASSUME NEW E, NEW S \in SUBSET E, IsFiniteSet(S), NEW s, s = SetToSeq(S)
    PROVE  s \in Seq(E) /\ \A A : Some(s, A) <=> S \cap A # {}
<1> DEFINE n == Cardinality(S)
<1>1. n \in Nat
  BY FS_CardinalityType
<1>2. \E f \in [1..n -> S] : \A a, b \in DOMAIN f : f[a] = f[b] => a = b
  <2>1. PICK k \in Nat : ExistsBijection(1..k, S)
    BY FS_NatBijection
  <2>2. k = n
    BY <2>1, FS_CountingElements
  <2>3. PICK f \in Bijection(1..n, S) : TRUE
    BY <2>1, <2>2 DEF ExistsBijection
  <2> HIDE DEF n
  <2>4. f \in [1..n -> S] /\ IsInjective(f)
    BY <2>3 DEF Bijection, Injection
  <2> QED
    BY <2>4 DEF IsInjective
<1>3. s \in [1..n -> S] /\ IsInjective(s)
  BY <1>2 DEF SetToSeq, IsInjective
<1>4. s \in Injection(1..n, S)
  BY <1>3 DEF Injection
<1>5. Cardinality(1..n) = Cardinality(S) /\ Cardinality(S) = n
  <2> HIDE DEF n
  <2>1. IsFiniteSet(1..n) /\ Cardinality(1..n) = IF 1 > n THEN 0 ELSE n - 1 + 1
    BY <1>1, FS_Interval
  <2>2. Cardinality(1..n) = n
    BY <1>1, <2>1
  <2> QED
    BY <2>2 DEF n
<1>6. s \in Surjection(1..n, S)
  <2> HIDE DEF n
  <2> QED
    BY <1>4, <1>5, FS_Injection
<1>7. \A e \in S : \E i \in 1..n : s[i] = e
  <2> HIDE DEF n
  <2> QED
    BY <1>6 DEF Surjection
<1> HIDE DEF n
<1>8. s \in Seq(E)
  BY SetToSeqIs
<1>9. ASSUME NEW A
      PROVE  Some(s, A) <=> S \cap A # {}
  BY <1>3, <1>7 DEF Some
<1> QED
  BY <1>8, <1>9

-----------------------------------------------------------------------------
(***************************************************************************)
(* The server tells what it has.                                           *)
(***************************************************************************)
\* What a telling says of documents is true, ...
LEMMA DocumentsTold ==
    ASSUME Ready, NEW named \in SUBSET {d \in Docs : Uninformed(d) # {}}, NEW bare \in BOOLEAN,
           NEW D, D = {DocumentNews(d, bare) : d \in named}
    PROVE  /\ D \in SUBSET Message /\ IsFiniteSet(D)
           /\ \A m \in D : m.kind = "document" /\ TrueMessage(log, m, Len(log))
           /\ \A d \in named : \A t \in Uninformed(d) : D \cap DocOf(t, d) # {}
<1>1. World /\ Len(log) \in Nat
  BY ReadyIs
<1>2. named \subseteq Docs /\ IsFiniteSet(named)
  BY DocsAssumption, FS_Subset
<1>3. ASSUME NEW d \in named
      PROVE  DocumentNews(d, bare) \in Message
  BY <1>1, <1>2, DocumentNewsTyped
<1>4. ASSUME NEW d \in named
      PROVE  /\ DocumentNews(d, bare).kind = "document"
             /\ TrueMessage(log, DocumentNews(d, bare), Len(log))
  <2> DEFINE n == Len(log)
             found == StateAt(d, n) # Missing
             doc == [version |-> LastWrite(d, n), content |-> StateAt(d, n), committed |-> FALSE]
             u == IF bare /\ ~found THEN <<>> ELSE [x \in {d} |-> doc]
             m == DocumentNews(d, bare)
  <2>1. m.kind = "document" /\ m.doc = d /\ m.found = found /\ m.update = u
    BY DEF DocumentNews
  <2>2. LastWrite(d, n) = Newest(log, d, n) /\ StateAt(d, n) = Truth(log, d, n)
    BY ServersOwn
  <2>3. doc = Update(log, d, n)
    BY <2>2 DEF Update
  <2>4. n \in Nat
    BY <1>1
  <2>5. Newest(log, d, n) > 0
    <3>1. PICK t \in DOMAIN client.serving : client.serving[t].at < LastWrite(d, n)
      BY DEF Uninformed
    <3>2. client.serving[t] \in [at : Versions, fresh : BOOLEAN]
      BY <1>1, ServingIs
    <3>3. client.serving[t].at \in Nat
      BY <3>2, BoundsAssumption DEF Versions
    <3>4. Newest(log, d, n) \in Nat
      BY <2>4, NewestIs
    <3> QED
      BY <2>2, <3>1, <3>3, <3>4
  <2>6. m.found <=> Truth(log, d, n) # Missing
    BY <2>1, <2>2
  <2>7. m.update = [x \in {d} |-> Update(log, d, n)] \/ (~m.found /\ m.update = <<>>)
    BY <2>1, <2>3
  <2> HIDE DEF m, n, u, doc, found
  <2> QED
    BY <2>1, <2>5, <2>6, <2>7 DEF TrueMessage, m, n
<1>5. IsFiniteSet(D)
  <2> DEFINE f == [d \in named |-> DocumentNews(d, bare)]
  <2>1. DOMAIN f = named /\ D = {f[x] : x \in DOMAIN f}
    OBVIOUS
  <2> HIDE DEF f
  <2> QED
    BY <1>2, <2>1, ImageFinite, Zenon
<1>6. ASSUME NEW d \in named, NEW t \in Uninformed(d)
      PROVE  D \cap DocOf(t, d) # {}
  <2> DEFINE m == DocumentNews(d, bare)
  <2>1. m.kind = "document" /\ m.doc = d /\ m.about = Uninformed(d) /\ m \in D
    BY DEF DocumentNews
  <2>2. m \in Message
    BY <1>3
  <2> HIDE DEF m
  <2> QED
    BY <2>1, <2>2 DEF DocOf
<1> QED
  BY <1>3, <1>4, <1>5, <1>6

\* The message that tells how many documents a target has.
Tally(t) == [kind |-> "filter", about |-> {t}, count |-> Count(t)]

\* C tells the number of documents of the targets in filters.
Counts(C, filters) == \A t : (C \cap Said("filter", t) # {}) <=> (t \in filters)

\* ... and of their number, ...
LEMMA CountsTold ==
    ASSUME Ready, NEW filters \in SUBSET DOMAIN client.serving,
           NEW C, C = {Tally(t) : t \in filters}
    PROVE  /\ C \in SUBSET Message /\ IsFiniteSet(C)
           /\ \A m \in C : m.kind = "filter" /\ TrueMessage(log, m, Len(log))
           /\ Counts(C, filters)
<1>1. World /\ DOMAIN client.serving \subseteq Watched /\ IsFiniteSet(DOMAIN client.serving)
  BY ReadyIs, ServingIs
<1>2. filters \subseteq Watched /\ IsFiniteSet(filters)
  BY <1>1, FS_Subset
<1>3. ASSUME NEW t \in filters
      PROVE  LET m == Tally(t)
             IN  m \in Message /\ m.kind = "filter" /\ m.about = {t} /\ TrueMessage(log, m, Len(log))
  <2> DEFINE m == [kind |-> "filter", about |-> {t}, count |-> Count(t)]
  <2>1. t \in Watched /\ t.docs \subseteq Docs
    BY <1>2, RemoteKeysTyped DEF Watched, Query, Lookup
  <2>2. IsFiniteSet({d \in t.docs : StateAt(d, Len(log)) # Missing})
    BY <2>1, DocsAssumption, FS_Subset
  <2>3. Count(t) \in Nat
    BY <2>2, FS_CardinalityType DEF Count
  <2>4. m \in Message
    BY <2>1, <2>3 DEF Message, Filter
  <2>5. {d \in t.docs : StateAt(d, Len(log)) # Missing} = Have(log, t, Len(log))
    BY ServersOwn DEF Have
  <2>6. Count(t) = Cardinality(Have(log, t, Len(log)))
    BY <2>5 DEF Count
  <2>7. TrueMessage(log, m, Len(log))
    BY <2>6 DEF TrueMessage
  <2> QED
    BY <2>4, <2>7 DEF Tally
<1>4. IsFiniteSet(C)
  <2> DEFINE f == [t \in filters |-> Tally(t)]
  <2>1. DOMAIN f = filters /\ C = {f[x] : x \in DOMAIN f}
    OBVIOUS
  <2> HIDE DEF f
  <2> QED
    BY <1>2, <2>1, ImageFinite
<1>5. ASSUME NEW t
      PROVE  C \cap Said("filter", t) # {} <=> t \in filters
  <2>1. ASSUME NEW m \in C, m \in Said("filter", t)
        PROVE  t \in filters
    BY <2>1 DEF Said, Tally
  <2>2. ASSUME t \in filters
        PROVE  C \cap Said("filter", t) # {}
    BY <1>3, <2>2 DEF Said
  <2> QED
    BY <2>1, <2>2
<1> QED
  BY <1>3, <1>4, <1>5 DEF Counts

\* ... and that a target is current.
LEMMA CurrentsTold ==
    ASSUME Ready, NEW fresh \in SUBSET DOMAIN client.serving,
           NEW R, R = {About(t, "current") : t \in fresh}
    PROVE  /\ R \in SUBSET Message /\ IsFiniteSet(R)
           /\ \A m \in R : m.kind = "current" /\ TrueMessage(log, m, Len(log))
           /\ \A t \in fresh : R \cap Said("current", t) # {}
<1>1. World /\ DOMAIN client.serving \subseteq Watched /\ IsFiniteSet(DOMAIN client.serving)
  BY ReadyIs, ServingIs
<1>2. fresh \subseteq Watched /\ IsFiniteSet(fresh)
  BY <1>1, FS_Subset
<1>3. ASSUME NEW t \in fresh
      PROVE  /\ About(t, "current") \in Message /\ About(t, "current").kind = "current"
             /\ About(t, "current").about = {t} /\ TrueMessage(log, About(t, "current"), Len(log))
  <2>1. About(t, "current") \in Message
    BY <1>2, AboutTyped
  <2>2. About(t, "current").kind = "current" /\ About(t, "current").about = {t}
    BY DEF About
  <2>3. TrueMessage(log, About(t, "current"), Len(log))
    BY <2>2 DEF TrueMessage
  <2> QED
    BY <2>1, <2>2, <2>3
<1>4. IsFiniteSet(R)
  <2> DEFINE f == [t \in fresh |-> About(t, "current")]
  <2>1. DOMAIN f = fresh /\ R = {f[x] : x \in DOMAIN f}
    OBVIOUS
  <2> HIDE DEF f
  <2> QED
    BY <1>2, <2>1, ImageFinite
<1> QED
  BY <1>3, <1>4 DEF Said

\* The list s tells of D, then C, then R, and ends with the snapshot at n.
Listed(s, D, C, R, n) ==
    /\ s \in Seq(Message) /\ s # <<>> /\ s[Len(s)] = SnapshotAt(n)
    /\ \A i \in DOMAIN s : s[i].kind \in Telling /\ (s[i].kind = "snapshot" => i = Len(s))
    /\ \A i \in DOMAIN s : s[i] \in D \cup C \cup R \/ s[i] = SnapshotAt(n)
    /\ \A A : D \cap A # {} \/ C \cap A # {} \/ R \cap A # {} => Some(s, A)
    /\ \A A : Some(s, A) => \/ D \cap A # {} \/ C \cap A # {} \/ R \cap A # {}
                            \/ SnapshotAt(n) \in A
    /\ ~Then(s, Kind("filter"), Kind("document")) /\ ~Then(s, Kind("current"), Kind("filter"))

\* The list that the server tells: documents, then filters, then what is current, and then
\* the snapshot.
LEMMA ListTold ==
    ASSUME NEW D \in SUBSET Message, IsFiniteSet(D), \A m \in D : m.kind = "document",
           NEW C \in SUBSET Message, IsFiniteSet(C), \A m \in C : m.kind = "filter",
           NEW R \in SUBSET Message, IsFiniteSet(R), \A m \in R : m.kind = "current",
           NEW n \in Versions,
           NEW s, s = SetToSeq(D) \o SetToSeq(C) \o SetToSeq(R) \o <<SnapshotAt(n)>>
    PROVE  Listed(s, D, C, R, n)
<1> DEFINE d == SetToSeq(D)
           c == SetToSeq(C)
           r == SetToSeq(R)
           end == <<SnapshotAt(n)>>
           U == D \cup C \cup R
<1>1. U \in SUBSET Body /\ U \in SUBSET Message
  BY DEF Body
<1>2. /\ d \in Seq(U) /\ \A A : Some(d, A) <=> D \cap A # {}
      /\ c \in Seq(U) /\ \A A : Some(c, A) <=> C \cap A # {}
      /\ r \in Seq(U) /\ \A A : Some(r, A) <=> R \cap A # {}
  <2>1. D \in SUBSET U /\ C \in SUBSET U /\ R \in SUBSET U
    OBVIOUS
  <2> HIDE DEF U
  <2>2. d \in Seq(U) /\ \A A : Some(d, A) <=> D \cap A # {}
    BY <2>1, SetToSeqHas
  <2>3. c \in Seq(U) /\ \A A : Some(c, A) <=> C \cap A # {}
    BY <2>1, SetToSeqHas
  <2>4. r \in Seq(U) /\ \A A : Some(r, A) <=> R \cap A # {}
    BY <2>1, SetToSeqHas
  <2> QED
    BY <2>2, <2>3, <2>4
<1>3. /\ D \cap Kind("filter") = {} /\ D \cap Kind("current") = {}
      /\ C \cap Kind("document") = {} /\ C \cap Kind("current") = {}
      /\ R \cap Kind("document") = {} /\ R \cap Kind("filter") = {}
  BY DEF Kind
<1>4. /\ Some(end, Kind("document")) = FALSE /\ Some(end, Kind("filter")) = FALSE
      /\ \A A : Some(end, A) <=> SnapshotAt(n) \in A
  <2>1. \A A : Some(end, A) <=> SnapshotAt(n) \in A
    BY OneIs
  <2>2. SnapshotAt(n).kind = "snapshot"
    BY DEF SnapshotAt
  <2> QED
    BY <2>1, <2>2 DEF Kind
<1>5. SnapshotAt(n) \in Message /\ end \in Seq(Message)
  <2>1. SnapshotAt(n) \in Message
    BY DEF SnapshotAt, Message, Snapshot
  <2> QED
    BY <2>1
<1>6. s = ((d \o c) \o r) \o end
  OBVIOUS
<1> HIDE DEF d, c, r, end
<1>7. (d \o c) \in Seq(U) /\ ((d \o c) \o r) \in Seq(U)
  <2> HIDE DEF U
  <2>1. d \o c \in Seq(U)
    BY <1>2
  <2> QED
    BY <1>2, <2>1
<1> DEFINE dc == d \o c
           b == dc \o r
<1>8. dc \in Seq(U) /\ b \in Seq(U) /\ s = b \o end
  BY <1>6, <1>7
<1>9. \A A : Some(dc, A) <=> Some(d, A) \/ Some(c, A)
  <2> HIDE DEF U
  <2> QED
    BY <1>2, SomeConcat
<1>10. \A A, B : Then(dc, A, B) <=> Then(d, A, B) \/ Then(c, A, B) \/ (Some(d, A) /\ Some(c, B))
  <2> HIDE DEF U
  <2> QED
    BY <1>2, ThenConcat
<1> HIDE DEF dc
<1>11. \A A : Some(b, A) <=> Some(dc, A) \/ Some(r, A)
  <2> HIDE DEF U
  <2> QED
    BY <1>2, <1>8, SomeConcat
<1>12. \A A, B : Then(b, A, B) <=> Then(dc, A, B) \/ Then(r, A, B) \/ (Some(dc, A) /\ Some(r, B))
  <2> HIDE DEF U
  <2> QED
    BY <1>2, <1>8, ThenConcat
<1> HIDE DEF b
<1>13. b \in Seq(Message) /\ b \in Seq(Body) /\ Len(b) \in Nat /\ \A i \in 1 .. Len(b) : b[i] \in U
  <2>1. Len(b) \in Nat /\ DOMAIN b = 1 .. Len(b) /\ \A i \in 1 .. Len(b) : b[i] \in U
    <3> HIDE DEF U
    <3> QED
      BY <1>8, ListIs
  <2>2. b = [i \in 1 .. Len(b) |-> b[i]]
    <3> HIDE DEF U
    <3> QED
      BY <1>8, ListIs
  <2> QED
    BY <1>1, <1>8
<1>14. \A A : Some(s, A) <=> Some(b, A) \/ Some(end, A)
  <2>1. \A A : Some(b \o end, A) <=> Some(b, A) \/ Some(end, A)
    BY <1>5, <1>13, SomeConcat
  <2>2. s = b \o end
    BY <1>8
  <2> QED
    BY <2>1, <2>2, Zenon
<1>15. \A A, B : Then(s, A, B) <=> Then(b, A, B) \/ Then(end, A, B) \/ (Some(b, A) /\ Some(end, B))
  <2>1. \A A, B : Then(b \o end, A, B)
                    <=> Then(b, A, B) \/ Then(end, A, B) \/ (Some(b, A) /\ Some(end, B))
    BY <1>5, <1>13, ThenConcat
  <2>2. s = b \o end
    BY <1>8
  <2> QED
    BY <2>1, <2>2, Zenon
<1>16. \A A, B : /\ Then(d, A, B) => Some(d, A) /\ Some(d, B)
                 /\ Then(c, A, B) => Some(c, A) /\ Some(c, B)
                 /\ Then(r, A, B) => Some(r, A) /\ Some(r, B)
                 /\ Then(end, A, B) => Some(end, A) /\ Some(end, B)
  BY DEF Then, Some
<1>17. ~Then(s, Kind("filter"), Kind("document"))
  BY <1>2, <1>3, <1>4, <1>9, <1>10, <1>11, <1>12, <1>15, <1>16
<1>18. ~Then(s, Kind("current"), Kind("filter"))
  BY <1>2, <1>3, <1>4, <1>9, <1>10, <1>11, <1>12, <1>15, <1>16
<1>19. /\ s \in Seq(Message) /\ s # <<>> /\ Len(s) = Len(b) + 1
       /\ \A i \in DOMAIN s : s[i].kind \in Telling
       /\ \A i \in DOMAIN s : s[i].kind = "snapshot" => i = Len(s)
       /\ s[Len(s)] = SnapshotAt(n)
  <2>1. s = b \o <<SnapshotAt(n)>>
    BY <1>8, Zenon DEF end
  <2> QED
    BY <1>13, <2>1, TellingTyped, Zenon
<1>20. ASSUME NEW i \in DOMAIN s
       PROVE  s[i] \in U \/ s[i] = SnapshotAt(n)
  <2>1. \/ i \in DOMAIN b /\ s[i] = b[i]
        \/ i - Len(b) \in DOMAIN end /\ s[i] = end[i - Len(b)]
    <3>1. s = b \o end
      BY <1>8
    <3>2. i \in DOMAIN (b \o end)
      BY <3>1
    <3>3. \/ i \in DOMAIN b /\ (b \o end)[i] = b[i]
          \/ i - Len(b) \in DOMAIN end /\ (b \o end)[i] = end[i - Len(b)]
      BY <1>5, <1>13, <3>2, ConcatPlaces
    <3> QED
      BY <3>1, <3>3, Zenon
  <2>2. DOMAIN end = {1} /\ end[1] = SnapshotAt(n)
    BY DEF end
  <2>3. DOMAIN b = 1 .. Len(b)
    BY <1>13
  <2> QED
    BY <1>13, <2>1, <2>2, <2>3
<1>21. ASSUME NEW A
       PROVE  /\ D \cap A # {} \/ C \cap A # {} \/ R \cap A # {} => Some(s, A)
              /\ Some(s, A) => \/ D \cap A # {} \/ C \cap A # {} \/ R \cap A # {}
                               \/ SnapshotAt(n) \in A
  BY <1>2, <1>4, <1>9, <1>11, <1>14
<1> QED
  BY <1>17, <1>18, <1>19, <1>20, <1>21 DEF Listed

\* What the list s tells of a document d that the target t asks for: the document, or in a
\* number that it is gone, or there is no news.
Tidings(s, t, d) ==
    \/ Some(s, DocOf(t, d))
    \/ Truth(log, d, Len(log)) = Missing /\ Some(s, Said("filter", t))
    \/ Newest(log, d, Len(log)) <= client.serving[t].at
    \/ /\ Truth(log, d, Len(log)) = Missing
       /\ Truth(log, d, client.serving[t].at) = Missing

\* What it tells of the target.
Informs(s, t) ==
    /\ \A d \in t.docs : Tidings(s, t, d)
    /\ client.serving[t].fresh => Some(s, Said("current", t))
    /\ Some(s, Said("filter", t)) => client.serving[t].fresh

\* A list that ends with a snapshot at the last version.
Ending(s) ==
    /\ s \in Seq(Message) /\ s # <<>> /\ s[Len(s)] = SnapshotAt(Len(log))
    /\ \A i \in DOMAIN s : s[i].kind \in Telling /\ (s[i].kind = "snapshot" => i = Len(s))
    /\ ~Then(s, Kind("filter"), Kind("document")) /\ ~Then(s, Kind("current"), Kind("filter"))

\* The server tells the list s to all that it serves.
Tells(x, s) ==
    /\ Only(x, client, {"requests", "incoming", "serving"})
    /\ x.requests = client.requests /\ x.incoming = client.incoming \o s
    /\ DOMAIN x.serving = DOMAIN client.serving
    /\ \A t \in DOMAIN x.serving : x.serving[t] = [at |-> Len(log), fresh |-> FALSE]
    /\ client.serving # <<>> /\ ~Pending(client.incoming)
    /\ Ending(s) /\ \A i \in DOMAIN s : TrueMessage(log, s[i], Len(log))
    /\ \A t \in DOMAIN client.serving : Informs(s, t)

\* What it tells is all there is to tell.
LEMMA TellsIs ==
    ASSUME Ready, NEW how \in {"named", "bare", "filter"}, ServerTells(how)
    PROVE  log' = log /\ \E s : Tells(client', s)
<1> DEFINE S == DOMAIN client.serving
           resumed == {t \in S : client.serving[t].fresh /\ client.serving[t].at > 0}
           news == {d \in Docs : Uninformed(d) # {}}
           gone == {d \in news : StateAt(d, Len(log)) = Missing}
           named == IF how = "filter" THEN news \ gone ELSE news
           filters == IF how = "filter" THEN resumed ELSE {}
           fresh == {t \in S : client.serving[t].fresh}
           D == {DocumentNews(d, how = "bare") : d \in named}
           C == {Tally(t) : t \in filters}
           R == {About(t, "current") : t \in fresh}
           s == SetToSeq(D) \o SetToSeq(C) \o SetToSeq(R) \o <<SnapshotAt(Len(log))>>
           serving == [t \in S |-> [at |-> Len(log), fresh |-> FALSE]]
           x == [client EXCEPT !.incoming = client.incoming \o s, !.serving = serving]
<1>1. /\ client' = x /\ log' = log
      /\ \A i \in DOMAIN client.incoming : client.incoming[i].kind # "snapshot"
      /\ how = "filter" => \A d \in gone : Uninformed(d) \subseteq resumed
  BY DEF ServerTells, Told, SnapshotAt, Tally
<1>2. client.serving # <<>>
  BY ReadyIs, TellingIs
<1>3. Shape(client)
  BY ReadyIs, ServerKnows
<1>4. Len(log) \in Versions
  BY ReadyIs DEF Versions
<1>5. /\ named \in SUBSET news /\ (how = "bare") \in BOOLEAN
      /\ filters \in SUBSET S /\ fresh \in SUBSET S
  OBVIOUS
<1>6. /\ D \in SUBSET Message /\ IsFiniteSet(D)
      /\ \A m \in D : m.kind = "document" /\ TrueMessage(log, m, Len(log))
      /\ \A d \in named : \A t \in Uninformed(d) : D \cap DocOf(t, d) # {}
  <2> DEFINE bare == (how = "bare")
             E == {DocumentNews(d, bare) : d \in named}
  <2>1. bare \in BOOLEAN /\ named \in SUBSET {d \in Docs : Uninformed(d) # {}}
    BY <1>5
  <2>2. D = E
    OBVIOUS
  <2>3. E = {DocumentNews(d, bare) : d \in named}
    OBVIOUS
  <2> HIDE DEF bare, named, E, D
  <2>4. /\ E \in SUBSET Message /\ IsFiniteSet(E)
        /\ \A m \in E : m.kind = "document" /\ TrueMessage(log, m, Len(log))
        /\ \A d \in named : \A t \in Uninformed(d) : E \cap DocOf(t, d) # {}
    BY <2>1, <2>3, DocumentsTold
  <2> QED
    BY <2>2, <2>4
<1>7. /\ C \in SUBSET Message /\ IsFiniteSet(C)
      /\ \A m \in C : m.kind = "filter" /\ TrueMessage(log, m, Len(log))
      /\ Counts(C, filters)
  <2>1. C = {Tally(t) : t \in filters}
    OBVIOUS
  <2> HIDE DEF filters, C, x, s
  <2> QED
    BY <1>5, <2>1, CountsTold, Zenon
<1>8. /\ R \in SUBSET Message /\ IsFiniteSet(R)
      /\ \A m \in R : m.kind = "current" /\ TrueMessage(log, m, Len(log))
      /\ \A t \in fresh : R \cap Said("current", t) # {}
  <2>1. R = {About(t, "current") : t \in fresh}
    OBVIOUS
  <2> HIDE DEF fresh, R, x, s
  <2> QED
    BY <1>5, <2>1, CurrentsTold, Zenon
<1> HIDE DEF D, C, R
<1>9. Listed(s, D, C, R, Len(log))
  <2> DEFINE n == Len(log)
  <2>1. n \in Versions /\ s = SetToSeq(D) \o SetToSeq(C) \o SetToSeq(R) \o <<SnapshotAt(n)>>
        /\ n = Len(log)
    BY <1>4
  <2>2. /\ D \in SUBSET Message /\ IsFiniteSet(D) /\ \A m \in D : m.kind = "document"
        /\ C \in SUBSET Message /\ IsFiniteSet(C) /\ \A m \in C : m.kind = "filter"
        /\ R \in SUBSET Message /\ IsFiniteSet(R) /\ \A m \in R : m.kind = "current"
    BY <1>6, <1>7, <1>8
  <2> HIDE DEF s, n, x
  <2>3. Listed(s, D, C, R, n)
    BY <2>1, <2>2, ListTold
  <2> QED
    BY <2>3 DEF n
<1> HIDE DEF s
<1>10. Ending(s)
  BY <1>9 DEF Ending, Listed
<1>11. \A i \in DOMAIN s : TrueMessage(log, s[i], Len(log))
  <2>1. TrueMessage(log, SnapshotAt(Len(log)), Len(log))
    BY DEF TrueMessage, SnapshotAt
  <2> QED
    BY <1>6, <1>7, <1>8, <1>9, <2>1 DEF Listed
<1>12. ~Pending(client.incoming)
  BY <1>1 DEF Pending
<1>13. ASSUME NEW t \in DOMAIN client.serving
       PROVE  Informs(s, t)
  <2>1. t \in S /\ t \in Watched /\ t.docs \subseteq Docs
    BY ReadyIs, ServingIs, RemoteKeysTyped DEF Watched, Query, Lookup
  <2>2. client.serving[t].fresh => Some(s, Said("current", t))
    BY <1>8, <1>9, <2>1 DEF Listed
  <2>3. Some(s, Said("filter", t)) <=> t \in filters
    <3>1. /\ D \cap Said("filter", t) = {} /\ R \cap Said("filter", t) = {}
          /\ SnapshotAt(Len(log)) \notin Said("filter", t)
      BY <1>6, <1>8 DEF Said, SnapshotAt
    <3> HIDE DEF filters
    <3> QED
      BY <1>7, <1>9, <3>1 DEF Listed, Counts
  <2>4. Some(s, Said("filter", t)) => client.serving[t].fresh
    BY <2>3
  <2>5. ASSUME NEW d \in t.docs
        PROVE  Tidings(s, t, d)
    <3>1. /\ LastWrite(d, Len(log)) = Newest(log, d, Len(log))
          /\ StateAt(d, Len(log)) = Truth(log, d, Len(log))
          /\ StateAt(d, client.serving[t].at) = Truth(log, d, client.serving[t].at)
      BY ServersOwn
    <3>2. client.serving[t].at \in Nat
      BY ReadyIs, ServingIs, BoundsAssumption DEF Versions
    <3>3. Newest(log, d, Len(log)) \in Nat
      BY ReadyIs, NewestIs
    <3>4. CASE t \notin Uninformed(d)
      <4>1. \/ ~(client.serving[t].at < Newest(log, d, Len(log)))
            \/ /\ Truth(log, d, Len(log)) = Missing
               /\ Truth(log, d, client.serving[t].at) = Missing
        BY <3>1, <3>4 DEF Uninformed
      <4> QED
        BY <3>2, <3>3, <4>1 DEF Tidings
    <3>5. CASE t \in Uninformed(d) /\ d \in named
      <4>1. D \cap DocOf(t, d) # {}
        <5> HIDE DEF named
        <5> QED
          BY <1>6, <3>5
      <4>2. Some(s, DocOf(t, d))
        BY <1>9, <4>1 DEF Listed
      <4> QED
        BY <4>2 DEF Tidings
    <3>6. CASE t \in Uninformed(d) /\ d \notin named
      <4>1. d \in Docs /\ Uninformed(d) # {}
        BY <2>1, <3>6
      <4>2. how = "filter" /\ d \in gone
        BY <3>6, <4>1
      <4>3. t \in resumed
        BY <1>1, <3>6, <4>2
      <4>4. t \in filters
        BY <4>2, <4>3
      <4>5. Truth(log, d, Len(log)) = Missing
        BY <3>1, <4>2
      <4> QED
        BY <2>3, <4>4, <4>5 DEF Tidings
    <3> QED
      BY <3>4, <3>5, <3>6
  <2> QED
    BY <2>2, <2>4, <2>5 DEF Informs
<1>14. /\ Only(x, client, {"requests", "incoming", "serving"})
       /\ x.requests = client.requests /\ x.incoming = client.incoming \o s /\ x.serving = serving
  <2> DEFINE in == client.incoming \o s
  <2> HIDE DEF in, serving
  <2> QED
    BY <1>3 DEF Only, Shape, Fields
<1>15. /\ DOMAIN serving = DOMAIN client.serving
       /\ \A t \in DOMAIN serving : serving[t] = [at |-> Len(log), fresh |-> FALSE]
  OBVIOUS
<1> HIDE DEF x, serving
<1>16. Tells(x, s)
  BY <1>2, <1>10, <1>11, <1>12, <1>13, <1>14, <1>15 DEF Tells
<1> QED
  BY <1>1, <1>16

\* When no snapshot is on its way there is nothing gathered, and nothing tells of documents.
LEMMA UntoldIs ==
    ASSUME Ready, ~Pending(client.incoming)
    PROVE  /\ client.resets = {} /\ client.updates = <<>>
           /\ \A i \in DOMAIN client.incoming : client.incoming[i].kind \notin Telling
<1>1. Telltale(log, client)
  BY ReadyIs DEF Net
<1>2. \A i : ~Reports(client.incoming, i)
  BY DEF Reports, Pending
<1>3. client.updates = <<>>
  BY <1>1, <1>2 DEF Telltale
<1>4. client.resets = {}
  BY <1>2, ReadyIs DEF Sound, Runs, Pressing
<1>5. \A i \in DOMAIN client.incoming : client.incoming[i].kind \notin Telling
  BY <1>1, <1>2 DEF Telltale, Sorted
<1> QED
  BY <1>3, <1>4, <1>5

\* What the server tells is true, and in order.
LEMMA TellsTelltale ==
    ASSUME Ready, NEW x, NEW s, Tells(x, s)
    PROVE  Telltale(log, x)
<1> DEFINE in == client.incoming
<1>1. in \in Seq(Message) /\ Len(log) \in Nat
  BY ReadyIs, ServerKnows
<1>2. /\ ~Pending(in) /\ Ending(s) /\ x.incoming = in \o s
      /\ \A i \in DOMAIN s : TrueMessage(log, s[i], Len(log))
  BY DEF Tells
<1>3. s \in Seq(Message) /\ s # <<>> /\ s[Len(s)] = SnapshotAt(Len(log))
  BY <1>2 DEF Ending
<1>4. /\ client.resets = {} /\ client.updates = <<>>
      /\ \A i \in DOMAIN in : in[i].kind \notin Telling
  BY <1>2, UntoldIs
<1>5. x.resets = {} /\ x.updates = <<>>
  BY <1>4 DEF Tells, Only, Fields
<1> HIDE DEF in
<1>6. \A i \in DOMAIN (in \o s) :
         \/ i \in DOMAIN in /\ (in \o s)[i] = in[i]
         \/ i - Len(in) \in DOMAIN s /\ (in \o s)[i] = s[i - Len(in)] /\ i = Len(in) + (i - Len(in))
  BY <1>1, <1>3, ConcatPlaces
<1>7. \A i \in DOMAIN s : Reports(in \o s, Len(in) + i)
  <2>1. s[Len(s)].kind = "snapshot" /\ \A i \in DOMAIN s : s[i].kind \in Telling
    BY <1>2, <1>3 DEF Ending, SnapshotAt
  <2> QED
    BY <1>1, <1>3, <2>1, TellingReports
<1>8. ASSUME NEW i \in DOMAIN (in \o s), (in \o s)[i].kind \in Telling
      PROVE  Reports(in \o s, i)
  <2>1. i - Len(in) \in DOMAIN s /\ i = Len(in) + (i - Len(in))
    BY <1>4, <1>6, <1>8
  <2> DEFINE j == i - Len(in)
  <2>2. j \in DOMAIN s /\ i = Len(in) + j
    BY <2>1
  <2> HIDE DEF j
  <2> QED
    BY <1>7, <2>2
<1>9. ~Some(in, Kind("filter")) /\ ~Some(in, Kind("document")) /\ ~Some(in, Kind("current"))
  BY <1>4 DEF Some, Kind, Telling
<1>10. ~Then(in, Kind("filter"), Kind("document")) /\ ~Then(in, Kind("current"), Kind("filter"))
  BY <1>9 DEF Then, Some
<1>11. ~Then(s, Kind("filter"), Kind("document")) /\ ~Then(s, Kind("current"), Kind("filter"))
  BY <1>2 DEF Ending
<1>12. ~Then(in \o s, Kind("filter"), Kind("document"))
  BY <1>1, <1>3, <1>9, <1>10, <1>11, ThenConcat
<1>13. ~Then(in \o s, Kind("current"), Kind("filter"))
  BY <1>1, <1>3, <1>9, <1>10, <1>11, ThenConcat
<1>14. Sorted(in \o s)
  BY <1>8, <1>12, <1>13 DEF Sorted
<1>15. ASSUME NEW n, Coming(in \o s, n)
       PROVE  n = Len(log)
  <2>1. Coming(in, n) \/ Coming(s, n)
    BY <1>1, <1>3, <1>15, ComingConcat
  <2>2. ~Coming(in, n)
    BY <1>2 DEF Coming, Pending
  <2>3. PICK k \in DOMAIN s : s[k].kind = "snapshot" /\ s[k].version = n
    BY <2>1, <2>2 DEF Coming
  <2>4. k = Len(s)
    BY <1>2, <2>3 DEF Ending
  <2> QED
    BY <1>3, <2>3, <2>4 DEF SnapshotAt
<1>16. TrueMail(log, in \o s, Len(log))
  <2>1. \A i \in DOMAIN in : TrueMessage(log, in[i], Len(log))
    BY <1>4 DEF TrueMessage, Telling
  <2> QED
    BY <1>1, <1>2, <1>6, <2>1 DEF TrueMail
<1>17. DOMAIN x.updates = {}
  BY <1>5
<1> QED
  BY <1>2, <1>5, <1>14, <1>15, <1>16, <1>17 DEF Telltale

\* What is on its way about a target when the server has told.
LEMMA TellsMail ==
    ASSUME Ready, NEW x, NEW s, Tells(x, s), NEW t
    PROVE  /\ ~Behind(x.incoming, Answers(t)) /\ ~Behind(x.incoming, Said("reset", t))
           /\ Before(x.incoming, Said("reset", t)) <=> Some(client.incoming, Said("reset", t))
           /\ Some(x.incoming, Said("reset", t)) <=> Some(client.incoming, Said("reset", t))
           /\ Some(x.incoming, Said("error", t)) <=> Some(client.incoming, Said("error", t))
           /\ Then(x.incoming, Said("reset", t), Answers(t)) =>
                 Then(client.incoming, Said("reset", t), Answers(t))
           /\ Ends(client.incoming, Said("reset", t), Said("removed", t)) =>
                 Ends(x.incoming, Said("reset", t), Said("removed", t))
           /\ Pending(x.incoming) /\ \A n : Coming(x.incoming, n) => n = Len(log)
           /\ Some(client.incoming, Said("reset", t)) => Behind(client.incoming, Said("reset", t))
           /\ \A A : Some(s, A) => Some(x.incoming, A)
           /\ Some(x.incoming, Said("filter", t)) => Some(s, Said("filter", t))
           /\ Due(x.incoming, x.requests, t) = Due(client.incoming, client.requests, t)
<1> DEFINE in == client.incoming
<1>1. in \in Seq(Message) /\ Len(log) \in Nat
  BY ReadyIs, ServerKnows
<1>2. ~Pending(in) /\ Ending(s) /\ x.incoming = in \o s /\ x.requests = client.requests
  BY DEF Tells
<1>3. s \in Seq(Message) /\ s # <<>> /\ s[Len(s)] = SnapshotAt(Len(log))
  BY <1>2 DEF Ending
<1>4. \A i \in DOMAIN in : in[i].kind \notin Telling
  BY <1>2, UntoldIs
<1>5. SnapshotAt(Len(log)).kind = "snapshot" /\ SnapshotAt(Len(log)).version = Len(log)
  BY DEF SnapshotAt
<1>6. \A i \in DOMAIN s : s[i].kind \in {"document", "filter", "current", "snapshot"}
  BY <1>2 DEF Ending, Telling
<1>7. /\ \A i \in DOMAIN s : s[i] \notin Answers(t)
      /\ ~Some(s, Answers(t)) /\ ~Some(s, Said("reset", t)) /\ ~Some(s, Said("error", t))
  BY <1>6 DEF Some, Said, Answers
<1>8. ~Then(s, Said("reset", t), Answers(t)) /\ Ends(s, Said("reset", t), Said("removed", t))
  BY <1>7 DEF Then, Ends, Some
<1>9. \A y \in Answers(t) \cup Said("reset", t) : y.kind # "snapshot"
  BY DEF Answers, Said
<1>10. ~Some(in, Said("filter", t))
  BY <1>4 DEF Some, Said, Telling
<1>11. Some(in, Said("reset", t)) => Behind(in, Said("reset", t))
  BY <1>2 DEF Some, Behind, Ahead, Pending
<1> HIDE DEF in
<1>12. s[Len(s)].kind = "snapshot"
  BY <1>3, <1>5
<1>13. ~Behind(in \o s, Answers(t))
  BY <1>1, <1>3, <1>9, <1>12, AllBefore
<1>14. /\ ~Behind(in \o s, Said("reset", t))
       /\ Before(in \o s, Said("reset", t)) <=> Some(in, Said("reset", t))
  BY <1>1, <1>3, <1>7, <1>9, <1>12, AllBefore
<1>15. \A A : Some(in \o s, A) <=> Some(in, A) \/ Some(s, A)
  BY <1>1, <1>3, SomeConcat
<1>16. Then(in \o s, Said("reset", t), Answers(t)) => Then(in, Said("reset", t), Answers(t))
  BY <1>1, <1>3, <1>7, <1>8, ThenConcat
<1>17. Ends(in, Said("reset", t), Said("removed", t)) => Ends(in \o s, Said("reset", t), Said("removed", t))
  BY <1>1, <1>3, <1>8, ThenConcat
<1>18. Pending(s)
  <2>1. Len(s) \in DOMAIN s
    BY <1>3
  <2> QED
    BY <1>12, <2>1 DEF Pending
<1>19. Pending(in \o s)
  BY <1>1, <1>3, <1>18, ComingConcat
<1>20. ASSUME NEW n, Coming(in \o s, n)
       PROVE  n = Len(log)
  <2>1. Coming(in, n) \/ Coming(s, n)
    BY <1>1, <1>3, <1>20, ComingConcat
  <2>2. ~Coming(in, n)
    BY <1>2 DEF Coming, Pending
  <2>3. PICK k \in DOMAIN s : s[k].kind = "snapshot" /\ s[k].version = n
    BY <2>1, <2>2 DEF Coming
  <2>4. k = Len(s)
    BY <1>2, <2>3 DEF Ending
  <2> QED
    BY <1>3, <1>5, <2>3, <2>4
<1>21. Due(in \o s, client.requests, t) = Due(in, client.requests, t)
  BY <1>1, <1>3, <1>7, NewsTold
<1>22. x.incoming = in \o s /\ x.requests = client.requests /\ in = client.incoming
  BY <1>2 DEF in
<1> QED
  BY <1>7, <1>10, <1>11, <1>13, <1>14, <1>15, <1>16, <1>17, <1>19, <1>20, <1>21, <1>22

\* A target that the server tells has what the server told of it before: all that it had
\* where it is resumed, or nothing.
ToldTo(t) ==
    LET at == client.serving[t].at
    IN  /\ at \in Nat /\ at <= Len(log) /\ (at = 0 \/ at = client.listening[t])
        /\ \A d \in t.docs :
              ~Some(client.incoming, Said("reset", t)) /\ d \in Holds(client, t)
                <=> d \in Have(log, t, at)
        /\ client.serving[t].fresh \/ (Entry(client, t).current
                                         /\ ~Some(client.incoming, Said("reset", t)))

\* A target that is followed and waits for nothing is one that the server tells.
LEMMA ToldToIs ==
    ASSUME Ready, ~Pending(client.incoming), NEW t \in DOMAIN client.listening, t \in Watched,
           Right(log, client, t), client.stream = "Open",
           ~Some(client.requests, Asks(t)), ~Some(client.incoming, Said("error", t))
    PROVE  t \in DOMAIN client.serving /\ ToldTo(t)
<1> DEFINE e == client.serving[t]
           reset == Said("reset", t)
<1>1. Sees(log, client, t) /\ Collects(client, t) /\ Served(client, t)
  BY DEF Right, Flows
<1>2. t \in DOMAIN client.serving
  BY <1>1 DEF Served
<1>3. Len(log) \in Nat /\ client.listening[t] \in Nat
  BY ReadyIs, VersionsOf
<1>4. Some(client.incoming, reset) => Behind(client.incoming, reset)
  BY DEF Some, Behind, Ahead, Pending
<1>5. Behind(client.incoming, reset) => Some(client.incoming, reset)
  BY DEF Some, Behind
<1>6. OfType(Entry(client, t), "Added") = {}
  <2>1. client.updates = <<>>
    BY UntoldIs
  <2>2. DOMAIN client.updates = {}
    BY <2>1
  <2>3. \A d \in OfType(Entry(client, t), "Added") : d \in DOMAIN client.updates
    BY <1>1 DEF Collects
  <2> QED
    BY <2>2, <2>3
<1>7. CASE Some(client.incoming, reset)
  <2>1. e.at = 0 /\ e.fresh
    BY <1>1, <1>4, <1>7 DEF Served
  <2>2. Have(log, t, e.at) = {}
    BY <2>1, HaveNone
  <2> QED
    BY <1>2, <1>3, <1>7, <2>1, <2>2 DEF ToldTo
<1>8. CASE ~Some(client.incoming, reset)
  <2>1. Resumed(client, t) \/ StartedOver(client, t)
    BY <1>1, <1>5, <1>8 DEF Served
  <2>2. CASE Resumed(client, t)
    <3>1. /\ e.at = client.listening[t] /\ DOMAIN Entry(client, t).changes = {}
          /\ e.fresh \/ Entry(client, t).current
      BY <2>2 DEF Resumed
    <3>2. OfType(Entry(client, t), "Removed") = {}
      BY <3>1 DEF OfType
    <3>3. Holds(client, t) = RemoteKeys(client, t)
      BY <1>6, <3>2 DEF Holds
    <3>4. RemoteKeys(client, t) = Have(log, t, e.at) /\ e.at <= Len(log)
      BY <1>1, <3>1 DEF Sees
    <3> QED
      BY <1>2, <1>3, <1>8, <3>1, <3>3, <3>4 DEF ToldTo
  <2>3. CASE StartedOver(client, t)
    <3>1. e.at = 0 /\ e.fresh /\ Holds(client, t) = {}
      BY <2>3 DEF StartedOver
    <3>2. Have(log, t, e.at) = {}
      BY <3>1, HaveNone
    <3> QED
      BY <1>2, <1>3, <3>1, <3>2 DEF ToldTo
  <2> QED
    BY <2>1, <2>2, <2>3
<1> QED
  BY <1>7, <1>8

\* The snapshot brings what the server told it.
LEMMA TellsBrings ==
    ASSUME Ready, NEW x, NEW s, Tells(x, s), NEW t \in Watched, t \in DOMAIN client.serving,
           ToldTo(t)
    PROVE  Delivers(log, x, t, Len(log))
<1> DEFINE n == Len(log)
           at == client.serving[t].at
           reset == Said("reset", t)
<1>1. Informs(s, t) /\ ~Pending(client.incoming)
  BY DEF Tells
<1>2. x.resets = {} /\ x.listening = client.listening /\ Entry(x, t) = Entry(client, t)
      /\ RemoteKeys(x, t) = RemoteKeys(client, t)
  <2>1. x.resets = client.resets /\ x.listening = client.listening /\ x.agg = client.agg
        /\ x.on = client.on /\ x.view = client.view /\ x.received = client.received
    BY DEF Tells, Only, Fields
  <2>2. client.resets = {}
    BY <1>1, UntoldIs
  <2> QED
    BY <2>1, <2>2 DEF RemoteKeys, Entry
<1>3. Holds(x, t) = Holds(client, t)
  BY <1>2 DEF Holds
<1>4. Before(x.incoming, reset) <=> Some(client.incoming, reset)
  BY TellsMail
<1>5. /\ \A A : Some(s, A) => Some(x.incoming, A)
      /\ Some(x.incoming, Said("filter", t)) => Some(s, Said("filter", t))
  BY TellsMail
<1>6. /\ at \in Nat /\ at <= n /\ n \in Nat /\ (at = 0 \/ at = client.listening[t])
      /\ client.serving[t].fresh \/ (Entry(client, t).current /\ ~Some(client.incoming, reset))
  BY ReadyIs DEF ToldTo
<1>7. \A d \in t.docs : Will(x, t, d) <=> d \in Have(log, t, at)
  BY <1>3, <1>4 DEF ToldTo, Will
<1>8. ASSUME NEW d \in t.docs
      PROVE  Rightly(log, x, t, d, n)
  <2>1. d \in Have(log, t, n) <=> Truth(log, d, n) # Missing
    BY DEF Have
  <2>2. d \in Have(log, t, at) <=> Truth(log, d, at) # Missing
    BY DEF Have
  <2>3. Tidings(s, t, d)
    BY <1>1 DEF Informs
  <2>4. CASE Some(s, DocOf(t, d))
    BY <1>5, <2>4 DEF Rightly
  <2>5. CASE Truth(log, d, n) = Missing /\ Some(s, Said("filter", t))
    BY <1>5, <2>1, <2>5 DEF Rightly
  <2>6. CASE Newest(log, d, n) <= at
    <3>1. Truth(log, d, at) = Truth(log, d, n)
      BY <1>6, <2>6, NewestBetween
    <3>2. Newest(log, d, n) \in Nat
      BY <1>6, NewestIs
    <3>3. d \in Have(log, t, n) => Newest(log, d, n) <= client.listening[t]
      <4>1. CASE at = client.listening[t]
        BY <2>6, <4>1
      <4>2. CASE at = 0
        <5>1. Have(log, t, at) = {}
          BY <4>2, HaveNone
        <5> QED
          BY <2>1, <2>2, <3>1, <5>1
      <4> QED
        BY <1>6, <4>1, <4>2
    <3>4. Will(x, t, d) <=> d \in Have(log, t, n)
      BY <1>7, <2>1, <2>2, <3>1
    <3>5. x.listening[t] = client.listening[t]
      BY <1>2
    <3> QED
      BY <3>3, <3>4, <3>5 DEF Rightly
  <2>7. CASE Truth(log, d, n) = Missing /\ Truth(log, d, at) = Missing
    <3>1. d \notin Have(log, t, n) /\ ~Will(x, t, d)
      BY <1>7, <2>1, <2>2, <2>7
    <3> QED
      BY <3>1 DEF Rightly
  <2> QED
    BY <2>3, <2>4, <2>5, <2>6, <2>7 DEF Tidings
<1>9. Confirmed(x, t)
  <2>1. CASE client.serving[t].fresh
    <3>1. Some(x.incoming, Said("current", t))
      BY <1>1, <1>5, <2>1 DEF Informs
    <3> QED
      BY <3>1 DEF Confirmed
  <2>2. CASE ~client.serving[t].fresh
    <3>1. ~Some(x.incoming, Said("filter", t))
      BY <1>1, <1>5, <2>2 DEF Informs
    <3> QED
      BY <1>2, <1>4, <1>6, <2>2, <3>1 DEF Confirmed
  <2> QED
    BY <2>1, <2>2
<1>10. t \notin x.resets
  BY <1>2
<1> QED
  BY <1>8, <1>9, <1>10 DEF Delivers

\* Every target is right when the server has told.
LEMMA TellsRight ==
    ASSUME Ready, NEW x, NEW s, Tells(x, s), NEW t \in Watched
    PROVE  Right(log, x, t)
<1> DEFINE reset == Said("reset", t)
<1>1. Right(log, client, t) /\ Known(client, t)
  BY ReadyIs DEF Net, Right
<1>2. /\ x.listening = client.listening /\ x.agg = client.agg /\ x.updates = client.updates
      /\ x.on = client.on /\ x.view = client.view /\ x.received = client.received
      /\ x.stream = client.stream
  BY DEF Tells, Only, Fields
<1>3. RemoteKeys(x, t) = RemoteKeys(client, t) /\ Entry(x, t) = Entry(client, t)
  BY <1>2 DEF RemoteKeys, Entry
<1>4. /\ x.requests = client.requests /\ DOMAIN x.serving = DOMAIN client.serving
      /\ ~Pending(client.incoming)
  BY DEF Tells
<1>5. client.stream = "Open"
  BY ReadyIs DEF Tells, Sound, Runs, Running, Flowing, Wired, Quiet
<1>6. /\ ~Behind(x.incoming, Answers(t)) /\ ~Behind(x.incoming, reset)
      /\ Some(x.incoming, reset) <=> Some(client.incoming, reset)
      /\ Some(x.incoming, Said("error", t)) <=> Some(client.incoming, Said("error", t))
      /\ Then(x.incoming, reset, Answers(t)) => Then(client.incoming, reset, Answers(t))
      /\ Ends(client.incoming, reset, Said("removed", t)) =>
            Ends(x.incoming, reset, Said("removed", t))
      /\ Pending(x.incoming) /\ \A n : Coming(x.incoming, n) => n = Len(log)
      /\ Due(x.incoming, x.requests, t) = Due(client.incoming, client.requests, t)
  BY TellsMail
<1>7. Known(x, t)
  BY <1>1, <1>2, <1>4, <1>6 DEF Known
<1>8. ASSUME t \in DOMAIN client.listening
      PROVE  Sees(log, x, t) /\ Flows(log, x, t)
  <2>1. Sees(log, client, t) /\ Flows(log, client, t)
    BY <1>1, <1>5, <1>8 DEF Right
  <2>2. Sees(log, x, t)
    BY <1>2, <1>3, <2>1 DEF Sees
  <2>3. Collects(x, t)
    BY <1>2, <1>3, <1>6, <2>1 DEF Flows, Collects
  <2>4. Asking(x, t)
    BY <1>2, <1>4, <1>6, <2>1 DEF Flows, Asking
  <2>5. Late(x, t) <=> Some(client.requests, Asks(t)) \/ Some(client.incoming, Said("error", t))
    BY <1>4, <1>6 DEF Late
  <2>6. Served(x, t)
    <3>1. SUFFICES ASSUME ~Late(x, t)
                   PROVE  /\ t \in DOMAIN x.serving
                          /\ \A n : Coming(x.incoming, n) => x.serving[t].at = n
      BY <1>4, <1>6, <2>5 DEF Served
    <3>2. t \in DOMAIN client.serving
      BY <1>1, <1>4, <1>5, <1>8, <2>5, <3>1, ToldToIs
    <3>3. x.serving[t].at = Len(log)
      BY <1>4, <3>2 DEF Tells
    <3> QED
      BY <1>4, <1>6, <3>2, <3>3
  <2>7. Brings(log, x, t)
    <3>1. SUFFICES ASSUME NEW n, ~Late(x, t), Coming(x.incoming, n)
                   PROVE  Delivers(log, x, t, n)
      BY DEF Brings
    <3>2. t \in DOMAIN client.serving /\ ToldTo(t)
      BY <1>1, <1>4, <1>5, <1>8, <2>5, <3>1, ToldToIs
    <3>3. n = Len(log)
      BY <1>6, <3>1
    <3>4. Delivers(log, x, t, Len(log))
      BY <3>2, TellsBrings
    <3> QED
      BY <3>3, <3>4, Zenon
  <2> QED
    BY <2>2, <2>3, <2>4, <2>6, <2>7 DEF Flows
<1> QED
  BY <1>2, <1>7, <1>8 DEF Right

\* The server tells all that it has to tell.
LEMMA ServerTellsExact ==
    ASSUME Ready, NEW how \in {"named", "bare", "filter"}, ServerTells(how)
    PROVE  Exact(log', client')
<1>1. log' = log /\ \E s : Tells(client', s)
  BY TellsIs
<1>2. PICK s : Tells(client', s)
  BY <1>1
<1> DEFINE x == client'
<1>3. Tells(x, s)
  BY <1>2
<1> HIDE DEF x
<1>4. Telltale(log, x)
  BY <1>3, TellsTelltale
<1>5. \A t \in Watched : Right(log, x, t)
  BY <1>3, TellsRight
<1>6. Only(x, client, {"requests", "incoming", "serving"})
  BY <1>3 DEF Tells
<1>7. Exact(log, x)
  BY <1>4, <1>5, <1>6, ServerExact
<1> QED
  BY <1>1, <1>7 DEF x

-----------------------------------------------------------------------------
(***************************************************************************)
(* The invariant holds, and what it is for.                                *)
(***************************************************************************)
\* Nothing is kept, and nothing is shown, in the beginning.
LEMMA InitExact ==
    ASSUME Init
    PROVE  Exact(log, client)
<1>1. /\ client.cache = [d \in Docs |-> Unknown] /\ client.keys = {} /\ client.token = 0
      /\ client.writes = <<>> /\ ~client.on /\ client.view = NewView({}) /\ client.limbo = <<>>
      /\ client.listening = <<>> /\ Quiet(client) /\ client.stream # "Open"
      /\ client.savedFree = 0 /\ client.lastSnap = 0 /\ client.leftOut = {}
  BY DEF Init, Quiet
<1>2. log = <<>> /\ Len(log) = 0
  BY DEF Init
<1>3. Net(log, client)
  <2>1. DOMAIN client.listening = {}
    BY <1>1
  <2> QED
    BY <1>1, <2>1, QuietNet
<1>4. \A d : Newest(log, d, 0) = 0 /\ Truth(log, d, 0) = Missing
  BY NewestNone
<1>5. SentOnes(log, client)
  BY <1>1 DEF SentOnes
<1>6. CacheTrue(log, client)
  BY <1>1, <1>2, <1>4 DEF CacheTrue, Unknown
<1>7. KeysAt(log, client, client.token)
  <2>1. Have(log, Query, 0) = {}
    BY HaveNone
  <2> QED
    BY <1>1, <1>2, <2>1 DEF KeysAt
<1>8. Disk(log, client)
  BY <1>1, <1>5, <1>6, <1>7 DEF Disk
<1>9. Looking(client) /\ Showing(client)
  BY <1>1 DEF Looking, Showing, NewView
<1>10. Leaving(log, client)
  BY <1>1 DEF Leaving, Dated
<1> QED
  BY <1>3, <1>8, <1>9, <1>10 DEF Exact

\* The inductive step: one case per action.
LEMMA ExactStep ==
    ASSUME ~Hasty, Ready, [Next]_vars
    PROVE  Exact(log, client)'
<1> DEFINE Goal == Exact(log', client')
<1>1. CASE UNCHANGED vars
  <2>1. log' = log /\ client' = client
    BY <1>1 DEF vars
  <2> QED
    BY <2>1 DEF Ready
<1>2. CASE Listen \/ StopListening
  BY <1>2, ListenExact, StopListeningExact
<1>3. CASE WriteAcknowledged \/ WriteRefused
  BY <1>3, WriteAcknowledgedExact, WriteRefusedExact
<1>4. CASE DisableNetwork \/ EnableNetwork \/ NetworkRestarts \/ Restart
  BY <1>4, DisableNetworkExact, EnableNetworkExact, NetworkRestartsExact, RestartExact
<1>5. CASE StreamOpens \/ StreamFails \/ IdleTimeout \/ OnlineTimeout
  BY <1>5, StreamOpensExact, StreamFailsExact, IdleTimeoutExact, OnlineTimeoutExact
<1>6. CASE TargetAdded \/ TargetRemoved \/ TargetCurrent \/ TargetReset \/ TargetRefused
  BY <1>6, TargetAddedExact, TargetRemovedExact, TargetCurrentExact, TargetResetExact,
     TargetRefusedExact
<1>7. CASE ExistenceFilter \/ DocumentChange
  BY <1>7, ExistenceFilterExact, DocumentChangeExact
<1>8. CASE \E late \in BOOLEAN : WatchSnapshot(late)
  BY <1>8, WatchSnapshotExact
<1>9. CASE ServerAdds \/ ServerRemoves \/ ServerRefuses
  BY <1>9, ServerAddsExact, ServerRemovesExact, ServerRefusesExact
<1>10. CASE \E t \in DOMAIN client.serving : ServerResets(t)
  BY <1>10, ServerResetsExact
<1>11. CASE \E how \in {"named", "bare", "filter"} : ServerTells(how)
  BY <1>11, ServerTellsExact
<1>12. CASE \E d \in Docs : \E v \in Contents[d] : Write(d, v) \/ OthersWrite(d, v)
  BY <1>12, WriteExact, OthersWriteExact
<1>13. CASE \E i \in DOMAIN client.writes : ServerCommits(i) \/ ServerRefusesWrite(i)
  BY <1>13, ServerCommitsExact, ServerRefusesWriteExact
<1> QED
  BY <1>1, <1>2, <1>3, <1>4, <1>5, <1>6, <1>7, <1>8, <1>9, <1>10, <1>11, <1>12, <1>13 DEF Next

\* A view in sync shows what the server had when the query's documents are those it had.
LEMMA ReadySynced ==
    ASSUME Ready
    PROVE  SyncedIsExact
<1> SUFFICES ASSUME client.on, client.view.sync = "Synced", NEW d \in Docs,
                    ~LocalDoc(client, d).local, ~client.view.docs[d].local,
                    client.cache[d].version <= client.listening[Query]
             PROVE  client.view.docs[d].content = StateAt(d, client.listening[Query])
  BY DEF SyncedIsExact
<1> DEFINE v == client.listening[Query]
           k == client.cache[d].version
<1>1. /\ Disk(log, client) /\ Looking(client) /\ Showing(client) /\ Leaving(log, client)
      /\ Len(log) \in Nat
  BY ReadyIs
<1>2. v \in Nat /\ k \in Nat
  BY ReadyIs, VersionsOf
<1>3. StateAt(d, v) = Truth(log, d, v)
  BY ServersOwn
<1>4. LocalDoc(client, d).content = client.cache[d].content
  BY DEF LocalDoc
<1>5. d \notin client.leftOut => client.view.docs[d].content = client.cache[d].content
  BY <1>1, <1>4 DEF Showing
<1>6. client.cache[d].content = Truth(log, d, k)
  BY <1>1 DEF Disk, CacheTrue
<1>7. KeysAt(log, client, v) /\ client.view.synced = client.keys
  BY <1>1 DEF Disk, Looking
<1>8. CASE d \in client.keys
  <2>1. Newest(log, d, v) <= k /\ k <= v
    BY <1>7, <1>8 DEF KeysAt
  <2>2. Truth(log, d, k) = Truth(log, d, v)
    BY <1>2, <2>1, NewestBetween
  <2>3. d \notin client.leftOut
    BY <1>1, <1>8 DEF Leaving, Omitted
  <2> QED
    BY <1>3, <1>5, <1>6, <2>2, <2>3
<1>9. CASE d \notin client.keys
  <2>1. d \notin Have(log, Query, v)
    BY <1>7, <1>9 DEF KeysAt
  <2>2. Truth(log, d, v) = Missing
    BY <2>1 DEF Have, Query
  <2>3. InLimbo(client.view.docs, client.view.synced) = {}
    BY <1>1 DEF Showing
  <2>4. client.view.docs[d].content = Missing
    BY <1>7, <1>9, <2>3 DEF InLimbo
  <2> QED
    BY <1>3, <2>2, <2>4
<1> QED
  BY <1>8, <1>9

\* The view is the local store's, but for what the query left out, which is gone.
LEMMA ReadyLocal ==
    ASSUME Ready
    PROVE  ViewIsLocal
<1>1. ViewLocal(client) /\ Leaving(log, client)
  BY ReadyIs DEF World, Shown
<1> SUFFICES ASSUME client.on, NEW d \in Docs, d \in client.leftOut
             PROVE  /\ client.view.docs[d] = NotShown /\ ~LocalDoc(client, d).local
                    /\ \E n \in client.cache[d].version .. client.lastSnap : StateAt(d, n) = Missing
  BY <1>1 DEF ViewLocal, ViewIsLocal
<1>2. Omitted(log, client, d)
  BY <1>1 DEF Leaving
<1>3. ~LocalDoc(client, d).local
  BY <1>2 DEF Omitted, LocalDoc
<1>4. \A n : StateAt(d, n) = Truth(log, d, n)
  BY ServersOwn
<1> QED
  BY <1>2, <1>3, <1>4 DEF Omitted, Gone

\* When nobody is hasty, a listener has, until it stops listening, the documents of the
\* local store, own writes included at once, except those whose last change waits for the
\* stream, and those that its query left out, which the server had deleted by a snapshot
\* that the client has heard (View::ComputeDocumentChanges, QueryEngine and
\* SyncEngine::EmitNewSnapshotsAndNotifyLocalStore).
THEOREM ViewIsLocalHolds == ~Hasty => (Spec => []ViewIsLocal)
<1> SUFFICES ASSUME ~Hasty PROVE Spec => []ViewIsLocal
  OBVIOUS
<1>1. Init => Ready
  BY InitSteady, InitExact DEF Ready
<1>2. Ready /\ [Next]_vars => Ready'
  BY SteadyStep, ExactStep DEF Ready
<1>3. Ready => ViewIsLocal
  BY ReadyLocal
<1> QED
  BY <1>1, <1>2, <1>3, PTL DEF Spec

\* When nobody is hasty, a view that claims to be in sync shows, of every document without
\* pending writes, what the server had at the version of the last snapshot (View,
\* SyncEngine, WatchChangeAggregator, LocalStore).
THEOREM SyncedIsExactAlways == ~Hasty => (Spec => []SyncedIsExact)
<1> SUFFICES ASSUME ~Hasty PROVE Spec => []SyncedIsExact
  OBVIOUS
<1>1. Init => Ready
  BY InitSteady, InitExact DEF Ready
<1>2. Ready /\ [Next]_vars => Ready'
  BY SteadyStep, ExactStep DEF Ready
<1>3. Ready => SyncedIsExact
  BY ReadySynced
<1> QED
  BY <1>1, <1>2, <1>3, PTL DEF Spec
=============================================================================
