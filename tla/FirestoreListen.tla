--------------------------- MODULE FirestoreListen ---------------------------
(***************************************************************************)
(* How the Firestore client under ChatApp's "addSnapshotListener" keeps a   *)
(* query's result true: the document and target caches on disk, the view of *)
(* SyncEngine with its documents in limbo, the watch stream of RemoteStore  *)
(* with the aggregator of its messages, the online state, and the listener. *)
(* Every handler runs on the worker queue and is one action, written as a   *)
(* function of the client's state, since handlers call each other.          *)
(*                                                                         *)
(* ChatApp's queries order the documents of a collection, by fields that    *)
(* never change: Docs are those that match whenever they exist.  The server *)
(* is a log of writes; the version of a write is its position, and so are   *)
(* snapshot versions, read times and resume tokens (0 for none).  It        *)
(* answers every request, in order, and between two requests sends          *)
(* consistent snapshots.  How writes reach it is FirestoreWrites.           *)
(***************************************************************************)
EXTENDS Integers, SequencesExt

CONSTANTS Docs,
          Contents,     \* the contents each document may be given
          Missing,      \* the content of a document that does not exist: who gives
                        \* it to one deletes the document
          Hasty,        \* whether somebody listens again before the server has
                        \* answered that it removed the query
          MaxVersions,  \* bound on the writes issued, whoever issues them
          MaxListens,   \* bound on the times somebody listens
          MaxFaults     \* bound on failures, refusals, resets and restarts

ASSUME DocsAssumption == IsFiniteSet(Docs)
ASSUME ContentsAssumption == DOMAIN Contents = Docs
ASSUME HastyAssumption == Hasty \in BOOLEAN
ASSUME BoundsAssumption == {MaxVersions, MaxListens, MaxFaults} \subseteq Nat

VARIABLES client,  \* the process, its disk and its connection to the server
          log,     \* server: every write, in the order of their versions
          listens, \* counts up to MaxListens
          faults   \* counts up to MaxFaults

vars == <<client, log, listens, faults>>

Versions == 0..MaxVersions
Values == {Missing} \cup UNION {Contents[d] : d \in Docs}

\* RemoteDocumentCache: version 0 says that nothing is known of a document, and
\* "committed" that it holds a write acknowledged but not yet seen on the stream.
CachedDoc == [version : Versions, content : Values, committed : BOOLEAN]
Unknown == [version |-> 0, content |-> Missing, committed |-> FALSE]

\* A target is the query (0), or the lookup of one document in limbo.
Target == [id : Nat, docs : SUBSET Docs]
Query == [id |-> 0, docs |-> Docs]
TheDoc(t) == CHOOSE d \in t.docs : TRUE

\* What a view shows; "local" stands for mutated_keys_ too.
ViewDoc == [content : Values, local : BOOLEAN]
NotShown == [content |-> Missing, local |-> FALSE]
NewView(keys) == [docs |-> [d \in Docs |-> NotShown], synced |-> keys, current |-> FALSE,
                  limbo |-> {}, sync |-> "None"]

Without(f, x) == Restrict(f, DOMAIN f \ {x})
Over(g, f) == [x \in DOMAIN f \cup DOMAIN g |-> IF x \in DOMAIN g THEN g[x] ELSE f[x]]
With(f, x, v) == Over([y \in {x} |-> v], f)

\* TargetState, as it is when a target is first heard of.
NewEntry == [outstanding |-> 0, current |-> FALSE, changes |-> <<>>]
Entry(c, t) == IF t \in DOMAIN c.agg THEN c.agg[t] ELSE NewEntry
WithEntry(c, t, entry) == [c EXCEPT !.agg = With(@, t, entry)]

\* A HARD_ASSERT.
Require(c, holds) == [c EXCEPT !.broken = @ \/ ~holds]

\* The server's document d at version n, and the version of its last write.
LastWrite(d, n) == Max({0} \cup {i \in 1..n : log[i].doc = d})
StateAt(d, n) == IF LastWrite(d, n) = 0 THEN Missing ELSE log[LastWrite(d, n)].content

-----------------------------------------------------------------------------
(* OnlineStateTracker; kMaxWatchStreamFailures is 1, so "failed" is the count. *)

\* Mutant: the listener is not told.
SetOnline_Untold(c, state) ==
    IF state = "Offline" /\ state # c.online /\ c.on
    THEN [c EXCEPT !.online = state, !.view.current = FALSE, !.view.sync = "Local"]
    ELSE [c EXCEPT !.online = state]

\* Going offline takes the view out of sync, and a listener that has heard
\* nothing yet gets what is in the cache.
SetOnline(c, state) ==
    IF state = "Offline" /\ state # c.online /\ c.on
    THEN [c EXCEPT !.online = state, !.raised = TRUE,
                   !.view.current = FALSE, !.view.sync = "Local"]
    ELSE [c EXCEPT !.online = state]

UpdateState(c, state) == SetOnline([c EXCEPT !.timer = FALSE, !.failed = FALSE], state)

HandleWatchStreamStart(c) ==
    IF c.failed THEN c
    ELSE [Require(SetOnline(c, "Unknown"), ~c.timer) EXCEPT !.timer = TRUE]

HandleWatchStreamFailure(c) ==
    IF c.online = "Online" THEN Require(SetOnline(c, "Unknown"), ~c.failed /\ ~c.timer)
    ELSE SetOnline([c EXCEPT !.failed = TRUE, !.timer = FALSE], "Offline")

-----------------------------------------------------------------------------
(* The watch stream. *)

ShouldStartWatchStream(c) ==
    c.enabled /\ c.stream = "Initial" /\ DOMAIN c.listening # {}

\* StartWatchStream makes a new aggregator.
StartWatchStream(c) ==
    IF ShouldStartWatchStream(c)
    THEN HandleWatchStreamStart([c EXCEPT !.stream = "Starting", !.agg = <<>>,
                                          !.updates = <<>>, !.resets = {}])
    ELSE c

\* SendWatchRequest and SendUnwatchRequest: an answer is due.
Send(c, t, add, token) ==
    [WithEntry(c, t, [Entry(c, t) EXCEPT !.outstanding = @ + 1])
        EXCEPT !.requests = Append(@, [target |-> t, add |-> add, token |-> token]),
               !.idle = FALSE]

\* RemoteStore::Listen.
StartWatching(c, t, token) ==
    LET listening == [c EXCEPT !.listening = With(@, t, token)]
    IN  CASE t \in DOMAIN c.listening -> c
          [] t \notin DOMAIN c.listening /\ c.stream = "Open" -> Send(listening, t, TRUE, token)
          [] OTHER -> StartWatchStream(listening)

\* RemoteStore::StopListening.
StopWatching(c, t) ==
    LET left == Require([c EXCEPT !.listening = Without(@, t)], t \in DOMAIN c.listening)
        none == DOMAIN left.listening = {}
    IN  CASE c.stream = "Open" -> [Send(left, t, FALSE, 0) EXCEPT !.idle = none]
          [] c.stream # "Open" /\ none /\ c.enabled -> UpdateState(left, "Unknown")
          [] OTHER -> left

\* Stream::Close and OnWatchStreamClose: what is on its way is not heard, the
\* server forgets the targets, and the stream starts again if it is needed, which
\* it must not be after a graceful stop.
Close(c, graceful) ==
    LET closed == [c EXCEPT !.stream = "Initial", !.idle = FALSE, !.agg = <<>>, !.updates = <<>>,
                            !.resets = {}, !.requests = <<>>, !.incoming = <<>>, !.serving = <<>>]
    IN  IF ShouldStartWatchStream(closed)
        THEN Require(StartWatchStream(HandleWatchStreamFailure(closed)), ~graceful)
        ELSE UpdateState(closed, "Unknown")

\* DisableNetworkInternal.
Stop(c) ==
    LET off == [c EXCEPT !.enabled = FALSE]
    IN  IF c.stream = "Initial" THEN off ELSE Close(off, TRUE)

\* RemoteStore::EnableNetwork.
Enable(c) ==
    LET on == [c EXCEPT !.enabled = TRUE]
    IN  IF ShouldStartWatchStream(on) THEN StartWatchStream(on) ELSE UpdateState(on, "Unknown")

-----------------------------------------------------------------------------
(* The view. *)

\* The document as the local store sees it: the newest pending write, or what is
\* cached.
LocalDoc(c, d) ==
    LET mine == {i \in DOMAIN c.writes : c.writes[i].doc = d}
    IN  IF mine = {} THEN [content |-> c.cache[d].content, local |-> FALSE]
        ELSE [content |-> c.writes[Max(mine)].content, local |-> TRUE]

Committed(c, d) == c.cache[d].committed /\ ~LocalDoc(c, d).local

\* View::ComputeDocumentChanges for one document: a change that an acknowledgement
\* made waits for the stream (ShouldWaitForSyncedDocument).
Applies(old, new, committed) ==
    \/ Missing \in {old.content, new.content} /\ old.content # new.content
    \/ /\ Missing \notin {old.content, new.content}
       /\ IF old.content = new.content
          THEN old.local # (new.local \/ (old.local /\ committed))
          ELSE ~(old.local /\ committed)

\* View::ComputeDocumentChanges: what did not change since the query left it out
\* stays out.
Computed(c) ==
    [d \in Docs |->
        LET old == c.view.docs[d]
            new == LocalDoc(c, d)
        IN  CASE d \in c.leftOut \/ ~Applies(old, new, Committed(c, d)) -> old
              [] d \notin c.leftOut /\ Applies(old, new, Committed(c, d))
                     /\ new.content = Missing -> NotShown
              [] OTHER -> new]

\* View::ShouldBeInLimbo.
InLimbo(docs, synced) ==
    {d \in Docs : docs[d].content # Missing /\ d \notin synced /\ ~docs[d].local}

\* What a view is given when the event says nothing about its target.
NoChange(c) == [added |-> {}, modified |-> {}, removed |-> {},
                current |-> c.view.current, token |-> 0]

\* View::ApplyChanges: documents that did not change give no change.
Applied(c, change) ==
    LET docs == Computed(c)
        synced == (c.view.synced \cup change.added) \ change.removed
        limbo == IF change.current THEN InLimbo(docs, synced) ELSE c.view.limbo
    IN  [docs |-> docs, synced |-> synced, current |-> change.current, limbo |-> limbo,
         sync |-> IF change.current /\ limbo = {} THEN "Synced" ELSE "Local"]

\* QueryListener::OnViewSnapshot with ShouldRaiseInitialEvent.
Raises(c, view, change) ==
    /\ view.docs # c.view.docs \/ view.sync # c.view.sync
    /\ \/ view.sync = "Synced"
       \/ \E d \in Docs : view.docs[d].content # Missing
       \/ change.token # 0
       \/ c.online = "Offline"

\* The ids of targets that the client, the server or a message knows of; a new
\* target takes another one.
KnownIds(c) ==
    {t.id : t \in DOMAIN c.listening \cup DOMAIN c.agg \cup DOMAIN c.serving
                    \cup {c.requests[i].target : i \in DOMAIN c.requests}
                    \cup UNION {c.incoming[i].about : i \in DOMAIN c.incoming}}

NextId(c) == Min((1..(Cardinality(KnownIds(c)) + 1)) \ KnownIds(c))

\* TrackLimboChange; the limit of a hundred lookups at a time is not reached.
TrackLimbo(d, c) ==
    LET t == [id |-> NextId(c), docs |-> {d}]
    IN  IF d \in DOMAIN c.limbo THEN c
        ELSE StartWatching([c EXCEPT !.limbo = With(@, d, t)], t, 0)

RemoveLimboTarget(d, c) ==
    IF d \notin DOMAIN c.limbo THEN c
    ELSE [StopWatching(c, c.limbo[d]) EXCEPT !.limbo = Without(@, d),
                                             !.received = @ \ {c.limbo[d]}]

\* EmitNewSnapshotsAndNotifyLocalStore and UpdateTrackedLimboDocuments.
Emit(c, change) ==
    LET view == Applied(c, change)
        checked == Require(c, change.modified \subseteq c.view.synced \cup change.added)
        shown == [checked EXCEPT !.view = view, !.raised = @ \/ Raises(c, view, change)]
    IN  IF ~c.on THEN c
        ELSE FoldSet(TrackLimbo,
                     FoldSet(RemoveLimboTarget, shown, c.view.limbo \ view.limbo),
                     view.limbo \ c.view.limbo)

-----------------------------------------------------------------------------
(* WatchChangeAggregator. *)

\* A target whose requests are all answered.
IsActiveTarget(c, t) == Entry(c, t).outstanding = 0 /\ t \in DOMAIN c.listening

\* SyncEngine::GetRemoteKeys.
RemoteKeys(c, t) ==
    CASE t \in c.received -> t.docs
      [] t = Query /\ c.on -> c.view.synced
      [] OTHER -> {}

AddDocument(c, t, d, doc) ==
    LET kind == IF d \in RemoteKeys(c, t) THEN "Modified" ELSE "Added"
    IN  IF ~IsActiveTarget(c, t) THEN c
        ELSE [WithEntry(c, t, [Entry(c, t) EXCEPT !.changes = With(@, d, kind)])
                 EXCEPT !.updates = With(@, d, doc)]

\* "update" is what is now known of the document, if anything.
RemoveDocument(c, t, d, update) ==
    LET without == IF d \in RemoteKeys(c, t) THEN With(Entry(c, t).changes, d, "Removed")
                   ELSE Without(Entry(c, t).changes, d)
    IN  IF ~IsActiveTarget(c, t) THEN c
        ELSE [WithEntry(c, t, [Entry(c, t) EXCEPT !.changes = without])
                 EXCEPT !.updates = Over(update, @)]

\* Mutant: the documents of the target are kept.
ResetTarget_KeepsDocuments(c, t) ==
    Require(WithEntry(c, t, NewEntry), t \in DOMAIN c.agg /\ Entry(c, t).outstanding = 0)

\* ResetTarget: the documents are removed unless the server names them again.
ResetTarget(c, t) ==
    LET remove(d, x) == RemoveDocument(x, t, d, <<>>)
    IN  FoldSet(remove,
                Require(WithEntry(c, t, NewEntry),
                        t \in DOMAIN c.agg /\ Entry(c, t).outstanding = 0),
                RemoteKeys(c, t))

OfType(entry, type) == {d \in DOMAIN entry.changes : entry.changes[d] = type}

\* HandleExistenceFilter: a lookup that found nothing is a deleted document of no
\* version; a query whose count differs starts over.
HandleFilter(c, t, count) ==
    LET expected == Cardinality(RemoteKeys(c, t)) + Cardinality(OfType(Entry(c, t), "Added"))
                        - Cardinality(OfType(Entry(c, t), "Removed"))
    IN  CASE ~IsActiveTarget(c, t) -> c
          [] IsActiveTarget(c, t) /\ t # Query ->
                 IF count # 0 THEN c
                 ELSE RemoveDocument(c, t, TheDoc(t), [d \in {TheDoc(t)} |-> Unknown])
          [] OTHER -> IF count = expected THEN c
                      ELSE [ResetTarget(c, t) EXCEPT !.resets = @ \cup {t}]

\* Mutant: a lookup is left to the server.
Synthesized_Never(c, version) == c

\* CreateRemoteEvent says that a document is deleted when its lookup is current
\* and brought nothing.
Synthesized(c, version) ==
    LET unfound == {t \in DOMAIN c.agg : /\ IsActiveTarget(c, t) /\ t # Query
                                         /\ Entry(c, t).current
                                         /\ TheDoc(t) \notin DOMAIN c.updates
                                         /\ TheDoc(t) \notin RemoteKeys(c, t)}
        deleted == [version |-> version, content |-> Missing, committed |-> FALSE]
        remove(t, x) == RemoveDocument(x, t, TheDoc(t), [d \in {TheDoc(t)} |-> deleted])
    IN  FoldSet(remove, c, unfound)

\* TargetState::ToTargetChange.
TargetChange(entry, token) ==
    [added |-> OfType(entry, "Added"), modified |-> OfType(entry, "Modified"),
     removed |-> OfType(entry, "Removed"), current |-> entry.current, token |-> token]

Touched(change) == change.added \cup change.modified \cup change.removed

-----------------------------------------------------------------------------
(* Remote events. *)

\* LocalStore::PopulateDocumentChanges: a deletion of no version forgets the
\* document, and only news replaces what is cached.
UpdateCache(c, updates) ==
    LET news(d) == \/ c.cache[d].version = 0
                   \/ updates[d].version > c.cache[d].version
                   \/ updates[d].version = c.cache[d].version /\ c.cache[d].committed
        replaced == {d \in DOMAIN updates : updates[d].version = 0 \/ news(d)}
    IN  [c EXCEPT !.cache = [d \in Docs |-> IF d \in replaced THEN updates[d] ELSE @[d]],
                  !.leftOut = @ \ replaced]

\* The lookups of SyncEngine::ApplyRemoteEvent.
Looked(c, changes) ==
    LET look(t, x) ==
            CASE changes[t].added # {} -> [x EXCEPT !.received = @ \cup {t}]
              [] changes[t].modified # {} -> Require(x, t \in x.received)
              [] changes[t].removed # {} ->
                     [Require(x, t \in x.received) EXCEPT !.received = @ \ {t}]
              [] OTHER -> x
    IN  FoldSet(look, c, {t \in DOMAIN changes : t \in Range(c.limbo)})

\* The target data of LocalStore::ApplyRemoteEvent: the keys are always saved, the
\* token with them, or when there was none, or when the last is old ("late").  A
\* query that starts over has no limbo-free version.
SaveTarget(c, changes, resets, old, late) ==
    LET change == changes[Query]
        saved == [c EXCEPT !.keys = (@ \ change.removed) \cup change.added,
                           !.limboFree = IF Query \in resets THEN 0 ELSE @]
    IN  CASE Query \notin DOMAIN changes -> c
          [] Query \in DOMAIN changes /\ (old = 0 \/ Touched(change) # {}
                                              \/ (late /\ Query \notin resets)) ->
                 [saved EXCEPT !.token = c.listening[Query], !.savedFree = saved.limboFree]
          [] OTHER -> saved

ApplyRemoteEvent(c, event, old, late) ==
    LET looked == Looked(c, event.changes)
        stored == UpdateCache(SaveTarget(looked, event.changes, event.resets, old, late),
                              event.updates)
        versioned == IF event.version = 0 THEN stored
                     ELSE [Require(stored, event.version >= c.lastSnap)
                              EXCEPT !.lastSnap = event.version]
    IN  Emit(versioned, IF Query \in DOMAIN event.changes THEN event.changes[Query]
                        ELSE NoChange(c))

\* The query starts over: its target is unwatched and watched with no token.
Rewatch(t, c) == Send(Send([c EXCEPT !.listening[t] = 0], t, FALSE, 0), t, TRUE, 0)

\* RaiseWatchSnapshot: the message brought every active target a new token.
RaiseWatchSnapshot(c, version, late) ==
    LET s == Synthesized(c, version)
        active == {t \in DOMAIN s.agg : IsActiveTarget(s, t)}
        event == [version |-> version, updates |-> s.updates, resets |-> s.resets,
                  changes |-> [t \in active |-> TargetChange(s.agg[t], version)]]
        taken == [s EXCEPT
            !.updates = <<>>, !.resets = {},
            !.agg = [t \in DOMAIN @ |->
                        IF t \in active THEN [@[t] EXCEPT !.changes = <<>>] ELSE @[t]],
            !.listening = [t \in DOMAIN @ |-> IF t \in active THEN version ELSE @[t]]]
        rewatched == FoldSet(Rewatch, taken, s.resets \cap DOMAIN s.listening)
        old == IF Query \in DOMAIN c.listening THEN c.listening[Query] ELSE 0
    IN  ApplyRemoteEvent(rewatched, event, old, late)

\* RemoveAndCleanupTarget: the view and its lookups go.
Forget(c) ==
    FoldSet(RemoveLimboTarget, [c EXCEPT !.on = FALSE, !.raised = FALSE, !.view = NewView({}),
                                         !.leftOut = {}, !.limboFree = 0],
            c.view.limbo)

\* Mutant: the lookup stays in the books.
ProcessTargetError_KeepsLookup(c, t) ==
    LET left == [c EXCEPT !.listening = Without(@, t), !.agg = Without(@, t)]
    IN  CASE t \notin DOMAIN c.listening -> c
          [] t \in DOMAIN c.listening /\ t \in Range(c.limbo) ->
                 ApplyRemoteEvent(left, [version |-> 0, changes |-> <<>>, resets |-> {},
                                         updates |-> [d \in {TheDoc(t)} |-> Unknown]], 0, FALSE)
          [] OTHER -> Forget([left EXCEPT !.token = c.listening[t], !.savedFree = c.limboFree])

\* ProcessTargetError and HandleRejectedListen; a lookup that is refused makes a
\* synthetic event that deletes the document.
ProcessTargetError(c, t) ==
    LET left == [c EXCEPT !.listening = Without(@, t), !.agg = Without(@, t)]
    IN  CASE t \notin DOMAIN c.listening -> c
          [] t \in DOMAIN c.listening /\ t \in Range(c.limbo) ->
                 ApplyRemoteEvent([left EXCEPT !.limbo = Without(@, TheDoc(t)),
                                               !.received = @ \ {t}],
                                  [version |-> 0, changes |-> <<>>, resets |-> {},
                                   updates |-> [d \in {TheDoc(t)} |-> Unknown]], 0, FALSE)
          [] OTHER -> Forget([left EXCEPT !.token = c.listening[t], !.savedFree = c.limboFree])

-----------------------------------------------------------------------------

\* What a process that starts has, apart from its disk.
Fresh(c) ==
    [c EXCEPT !.on = FALSE, !.raised = FALSE, !.view = NewView({}), !.leftOut = {},
              !.limboFree = 0, !.limbo = <<>>,
              !.received = {}, !.enabled = TRUE, !.stream = "Initial", !.idle = FALSE,
              !.listening = <<>>, !.agg = <<>>, !.updates = <<>>, !.resets = {},
              !.online = "Unknown", !.timer = FALSE, !.failed = FALSE,
              !.requests = <<>>, !.incoming = <<>>, !.serving = <<>>]

\* On disk: the caches, the target's keys, token and limbo-free version, and the
\* pending writes with the version the server gave them (0 for none yet, -1 for a
\* refusal).
Init ==
    /\ client = [cache |-> [d \in Docs |-> Unknown], keys |-> {}, token |-> 0, savedFree |-> 0,
                 lastSnap |-> 0, writes |-> <<>>, on |-> FALSE, raised |-> FALSE,
                 view |-> NewView({}), leftOut |-> {}, limboFree |-> 0,
                 limbo |-> <<>>, received |-> {}, enabled |-> TRUE, stream |-> "Initial",
                 idle |-> FALSE, listening |-> <<>>, agg |-> <<>>, updates |-> <<>>,
                 resets |-> {}, online |-> "Unknown", timer |-> FALSE, failed |-> FALSE,
                 requests |-> <<>>, incoming |-> <<>>, serving |-> <<>>, broken |-> FALSE]
    /\ log = <<>> /\ listens = 0 /\ faults = 0

Fault == faults < MaxFaults /\ faults' = faults + 1

Client(c) == client' = c /\ UNCHANGED <<log, listens, faults>>

\* LocalStore::NotifyLocalViewChanges: the last snapshot that was not from the cache
\* was free of limbo; that is saved the first time, or when the last is old ("late").
Notified(c, late) ==
    LET free == c.listening[Query]
        noted == [c EXCEPT !.limboFree = free]
        same == c.view.docs = client.view.docs /\ c.view.sync = client.view.sync
    IN  CASE ~c.on \/ c.view.sync # "Synced" \/ same -> c
          [] OTHER -> IF c.limboFree = 0 \/ late
                      THEN [noted EXCEPT !.token = free, !.savedFree = free] ELSE noted

Notify(c) == \E late \in BOOLEAN : Client(Notified(c, late))

-----------------------------------------------------------------------------
(* What the program asks for. *)

\* Mutant: the documents that the query had are not looked up.
LeftOut_Keys(c) ==
    {d \in Docs : /\ c.cache[d].content # Missing /\ ~LocalDoc(c, d).local
                  /\ c.cache[d].version <= c.savedFree}

\* QueryEngine::PerformQueryUsingRemoteKeys: a query takes the documents it had, those
\* with pending writes and those read since the limbo-free version; with none it takes
\* them all.  A document's version stands for the time it was read: no snapshot
\* free of limbo comes between the two.
LeftOut(c) ==
    {d \in Docs \ c.keys : /\ c.cache[d].content # Missing /\ ~LocalDoc(c, d).local
                           /\ c.cache[d].version <= c.savedFree}

\* EventManager::AddQueryListener and SyncEngine::Listen: the view starts from the
\* local store, and from the cache, whatever the stream brings.
Listen ==
    /\ ~client.on /\ listens < MaxListens
    /\ Hasty \/ Query \notin DOMAIN client.agg
    /\ LET watched == StartWatching(client, Query, client.token)
       IN  client' = Emit([watched EXCEPT !.on = TRUE, !.view = NewView(client.keys),
                                          !.leftOut = LeftOut(client),
                                          !.limboFree = client.savedFree],
                          [added |-> {}, modified |-> {}, removed |-> {},
                           current |-> FALSE, token |-> client.token])
    /\ listens' = listens + 1
    /\ UNCHANGED <<log, faults>>

\* EventManager::RemoveQueryListener and SyncEngine::StopListening; releasing the
\* target saves its token.
StopListening ==
    /\ client.on
    /\ Client(Forget(StopWatching([client EXCEPT !.token = client.listening[Query],
                                                 !.savedFree = client.limboFree], Query)))

\* SyncEngine::WriteMutations: listeners see the write at once.
Write(d, content) ==
    /\ Len(log) + Len(client.writes) < MaxVersions
    /\ LET written == [client EXCEPT
               !.writes = Append(@, [doc |-> d, content |-> content, version |-> 0]),
               !.leftOut = @ \ {d}]
       IN  Notify(Emit(written, NoChange(written)))

\* HandleSuccessfulWrite and LocalStore::AcknowledgeBatch.
WriteAcknowledged ==
    /\ client.writes # <<>> /\ Head(client.writes).version > 0
    /\ LET w == Head(client.writes)
           acked == [client EXCEPT
               !.writes = Tail(@),
               !.cache[w.doc] = IF @.version >= w.version THEN @
                                ELSE [version |-> w.version, content |-> w.content,
                                      committed |-> TRUE]]
       IN  Notify(Emit(acked, NoChange(acked)))

\* HandleRejectedWrite and LocalStore::RejectBatch.
WriteRefused ==
    /\ client.writes # <<>> /\ Head(client.writes).version = -1
    /\ LET dropped == [client EXCEPT !.writes = Tail(@)]
       IN  Notify(Emit(dropped, NoChange(dropped)))

\* A closed write stream loses the answers: the writes will be sent again.
Unanswered(c) ==
    [c EXCEPT !.writes = [i \in DOMAIN @ |-> [@[i] EXCEPT !.version = 0]]]

DisableNetwork ==
    /\ Fault /\ client.enabled
    /\ client' = UpdateState(Stop(Unanswered(client)), "Offline")
    /\ UNCHANGED <<log, listens>>

EnableNetwork == ~client.enabled /\ Client(Enable(client))

\* RestartNetwork: the connectivity or the credential changed.
NetworkRestarts ==
    /\ Fault /\ client.enabled
    /\ client' = Enable(UpdateState(Stop(Unanswered(client)), "Unknown"))
    /\ UNCHANGED <<log, listens>>

Restart ==
    /\ Fault
    /\ client' = Fresh(Unanswered(client))
    /\ UNCHANGED <<log, listens>>

-----------------------------------------------------------------------------
(* What the watch stream and the timers bring. *)

\* Mutant: the answers to these requests are not counted.
StreamOpens_Uncounted ==
    /\ client.stream = "Starting"
    /\ LET ask(t, c) == [c EXCEPT !.requests = Append(@, [target |-> t, add |-> TRUE,
                                                          token |-> c.listening[t]])]
       IN  Client(FoldSet(ask, [client EXCEPT !.stream = "Open"], DOMAIN client.listening))

\* OnWatchStreamOpen asks for every target again.
StreamOpens ==
    /\ client.stream = "Starting"
    /\ LET ask(t, c) == Send(c, t, TRUE, c.listening[t])
       IN  Client(FoldSet(ask, [client EXCEPT !.stream = "Open"], DOMAIN client.listening))

StreamFails ==
    /\ Fault /\ client.stream # "Initial"
    /\ client' = Close(client, FALSE)
    /\ UNCHANGED <<log, listens>>

IdleTimeout == client.idle /\ Client(Close(client, TRUE))

\* The ten seconds of HandleWatchStreamStart.
OnlineTimeout ==
    /\ client.timer
    /\ Client(Require(SetOnline([client EXCEPT !.timer = FALSE], "Offline"),
                      client.online = "Unknown"))

\* OnWatchStreamChange: the client is online, whatever the message.
Received(kind) ==
    client.incoming # <<>> /\ Head(client.incoming).kind = kind

Online == UpdateState([client EXCEPT !.incoming = Tail(@)], "Online")

AboutTarget == CHOOSE t \in Head(client.incoming).about : TRUE

\* HandleTargetChange, Added: the last answer due makes the target active, and
\* what it had gathered before is dropped.
TargetAdded ==
    /\ Received("added")
    /\ LET entry == [Entry(client, AboutTarget) EXCEPT !.outstanding = @ - 1]
       IN  Client(WithEntry(Online, AboutTarget,
                            [entry EXCEPT !.changes = IF entry.outstanding = 0 THEN <<>> ELSE @]))

\* HandleTargetChange, Removed.
TargetRemoved ==
    /\ Received("removed")
    /\ LET entry == [Entry(client, AboutTarget) EXCEPT !.outstanding = @ - 1]
       IN  Client(IF entry.outstanding = 0 THEN [Online EXCEPT !.agg = Without(@, AboutTarget)]
                  ELSE WithEntry(Online, AboutTarget, entry))

TargetCurrent ==
    /\ Received("current")
    /\ Client(IF ~IsActiveTarget(client, AboutTarget) THEN Online
              ELSE WithEntry(Online, AboutTarget,
                             [Entry(client, AboutTarget) EXCEPT !.current = TRUE]))

TargetReset ==
    /\ Received("reset")
    /\ Client(IF ~IsActiveTarget(client, AboutTarget) THEN Online
              ELSE ResetTarget(Online, AboutTarget))

TargetRefused == Received("error") /\ Notify(ProcessTargetError(Online, AboutTarget))

ExistenceFilter ==
    /\ Received("filter")
    /\ Client(HandleFilter(Online, AboutTarget, Head(client.incoming).count))

\* HandleDocumentChange: the document, its deletion, or its removal from targets.
DocumentChange ==
    /\ Received("document")
    /\ LET m == Head(client.incoming)
           change(t, c) == IF m.found THEN AddDocument(c, t, m.doc, m.update[m.doc])
                           ELSE RemoveDocument(c, t, m.doc, m.update)
       IN  Client(FoldSet(change, Online, m.about))

\* A snapshot older than the last one is ignored.
WatchSnapshot(late) ==
    /\ Received("snapshot")
    /\ LET version == Head(client.incoming).version
       IN  Client(IF version < client.lastSnap THEN Online
                  ELSE Notified(RaiseWatchSnapshot(Online, version, late), late))

-----------------------------------------------------------------------------
(* The server. *)

About(t, kind) == [kind |-> kind, about |-> {t}]

Told(messages, serving) ==
    client' = [client EXCEPT !.incoming = @ \o messages, !.serving = serving]

Reads == client.requests # <<>>

\* It serves a target from the token on; at: what it has told of it.
ServerAdds ==
    /\ Reads /\ Head(client.requests).add
    /\ LET r == Head(client.requests)
       IN  client' = [client EXCEPT
               !.requests = Tail(@), !.incoming = Append(@, About(r.target, "added")),
               !.serving = With(@, r.target, [at |-> r.token, fresh |-> TRUE])]
    /\ UNCHANGED <<log, listens, faults>>

ServerRemoves ==
    /\ Reads /\ ~Head(client.requests).add
    /\ LET t == Head(client.requests).target
       IN  client' = [client EXCEPT
               !.requests = Tail(@), !.incoming = Append(@, About(t, "removed")),
               !.serving = Without(@, t)]
    /\ UNCHANGED <<log, listens, faults>>

\* It refuses a request for a target.
ServerRefuses ==
    /\ Fault
    /\ Reads /\ Head(client.requests).add
    /\ client' = [client EXCEPT !.requests = Tail(@),
                                !.incoming = Append(@, About(Head(client.requests).target, "error"))]
    /\ UNCHANGED <<log, listens>>

\* It drops what it knows of a target and starts it over.
ServerResets(t) ==
    /\ Fault
    /\ t \in DOMAIN client.serving
    /\ Told(<<About(t, "reset")>>, [client.serving EXCEPT ![t] = [at |-> 0, fresh |-> TRUE]])
    /\ UNCHANGED <<log, listens>>

\* The targets that a document has news for: those that do not have its last write,
\* and, when it is gone, had the document.
Uninformed(d) ==
    {t \in DOMAIN client.serving :
        /\ d \in t.docs /\ client.serving[t].at < LastWrite(d, Len(log))
        /\ \/ StateAt(d, Len(log)) # Missing
           \/ StateAt(d, client.serving[t].at) # Missing}

\* What it says of d: its content or its deletion, or only, of a document that is
\* gone, that it left the targets.
DocumentNews(d, bare) ==
    LET found == StateAt(d, Len(log)) # Missing
        doc == [version |-> LastWrite(d, Len(log)), content |-> StateAt(d, Len(log)),
                committed |-> FALSE]
    IN  [kind |-> "document", about |-> Uninformed(d), doc |-> d, found |-> found,
         update |-> IF bare /\ ~found THEN <<>> ELSE [x \in {d} |-> doc]]

Count(t) == Cardinality({d \in t.docs : StateAt(d, Len(log)) # Missing})

\* The targets with something left to tell.
Unserved == {t \in DOMAIN client.serving :
                client.serving[t].fresh \/ client.serving[t].at < Len(log)}

\* A consistent snapshot at the last version, sent when the one before was read.
\* For targets it resumes it may count documents instead of naming deleted ones.
ServerTells(how) ==
    LET serving == client.serving
        resumed == {t \in DOMAIN serving : serving[t].fresh /\ serving[t].at > 0}
        news == {d \in Docs : Uninformed(d) # {}}
        gone == {d \in news : StateAt(d, Len(log)) = Missing}
        named == IF how = "filter" THEN news \ gone ELSE news
        filters == IF how = "filter" THEN resumed ELSE {}
        document(d) == DocumentNews(d, how = "bare")
        filter(t) == [kind |-> "filter", about |-> {t}, count |-> Count(t)]
        current(t) == About(t, "current")
    IN  /\ Unserved # {}
        /\ \A i \in DOMAIN client.incoming : client.incoming[i].kind # "snapshot"
        /\ how # "named" => gone # {}
        /\ how = "filter" => \A d \in gone : Uninformed(d) \subseteq resumed
        /\ Told(SetToSeq({document(d) : d \in named}) \o SetToSeq({filter(t) : t \in filters})
                    \o SetToSeq({current(t) : t \in {u \in DOMAIN serving : serving[u].fresh}})
                    \o <<[kind |-> "snapshot", about |-> {}, version |-> Len(log)]>>,
                [t \in DOMAIN serving |-> [at |-> Len(log), fresh |-> FALSE]])
        /\ UNCHANGED <<log, listens, faults>>

\* Somebody else writes.
OthersWrite(d, content) ==
    /\ Len(log) + Len(client.writes) < MaxVersions
    /\ log' = Append(log, [doc |-> d, content |-> content])
    /\ UNCHANGED <<client, listens, faults>>

Uncommitted(i) ==
    /\ i \in DOMAIN client.writes /\ client.writes[i].version = 0
    /\ \A j \in 1..(i - 1) : client.writes[j].version > 0

\* The writes are committed in their order, again if their answer was lost.
ServerCommits(i) ==
    /\ client.enabled /\ Uncommitted(i) /\ Len(log) < MaxVersions
    /\ log' = Append(log, [doc |-> client.writes[i].doc, content |-> client.writes[i].content])
    /\ client' = [client EXCEPT !.writes[i].version = Len(log')]
    /\ UNCHANGED <<listens, faults>>

ServerRefusesWrite(i) ==
    /\ Fault
    /\ client.enabled /\ Uncommitted(i)
    /\ client' = [client EXCEPT !.writes[i].version = -1]
    /\ UNCHANGED <<log, listens>>

-----------------------------------------------------------------------------

Next ==
    \/ Listen
    \/ StopListening
    \/ \E d \in Docs : \E v \in Contents[d] : Write(d, v) \/ OthersWrite(d, v)
    \/ WriteAcknowledged
    \/ WriteRefused
    \/ DisableNetwork
    \/ EnableNetwork
    \/ NetworkRestarts
    \/ Restart
    \/ StreamOpens
    \/ StreamFails
    \/ IdleTimeout
    \/ OnlineTimeout
    \/ TargetAdded
    \/ TargetRemoved
    \/ TargetCurrent
    \/ TargetReset
    \/ TargetRefused
    \/ ExistenceFilter
    \/ DocumentChange
    \/ \E late \in BOOLEAN : WatchSnapshot(late)
    \/ ServerAdds
    \/ ServerRemoves
    \/ ServerRefuses
    \/ \E t \in DOMAIN client.serving : ServerResets(t)
    \/ \E how \in {"named", "bare", "filter"} : ServerTells(how)
    \/ \E i \in DOMAIN client.writes : ServerCommits(i) \/ ServerRefusesWrite(i)

Spec == Init /\ [][Next]_vars

\* The stream opens, what was sent is read and answered, and timers fire: while
\* one of these steps can be taken, one is.  (None of them writes, listens or fails:
\* TLC looks at that first.)
Progress ==
    /\ client'.writes = client.writes /\ UNCHANGED <<log, listens, faults>>
    /\ \/ StreamOpens
       \/ OnlineTimeout
       \/ ServerAdds
       \/ ServerRemoves
       \/ \E how \in {"named", "bare", "filter"} : ServerTells(how)
       \/ TargetAdded
       \/ TargetRemoved
       \/ TargetCurrent
       \/ TargetReset
       \/ TargetRefused
       \/ ExistenceFilter
       \/ DocumentChange
       \/ \E late \in BOOLEAN : WatchSnapshot(late)

\* ENABLED <<Progress>>_vars, written out: TLC takes too long to compute it.
CanProgress ==
    \/ client.stream = "Starting"
    \/ client.timer
    \/ client.requests # <<>>
    \/ client.incoming # <<>>
    \/ Unserved # {}

\* Weak fairness of Progress.
FairSpec == Spec /\ ([]<>~CanProgress \/ []<><<Progress>>_vars)

-----------------------------------------------------------------------------
(* Properties *)

TypeOK ==
    /\ client.cache \in [Docs -> CachedDoc]
    /\ client.keys \subseteq Docs
    /\ {client.token, client.savedFree, client.limboFree, client.lastSnap} \subseteq Versions
    /\ client.leftOut \subseteq Docs
    /\ \A w \in Range(client.writes) :
          w \in [doc : Docs, content : Values, version : Versions \cup {-1}]
    /\ client.view \in [docs : [Docs -> ViewDoc], synced : SUBSET Docs, current : BOOLEAN,
                        limbo : SUBSET Docs, sync : {"None", "Local", "Synced"}]
    /\ DOMAIN client.limbo \subseteq Docs /\ client.received \subseteq Range(client.limbo)
    /\ {client.on, client.raised, client.enabled, client.idle, client.timer, client.failed,
        client.broken} \subseteq BOOLEAN
    /\ client.stream \in {"Initial", "Starting", "Open"}
    /\ client.online \in {"Unknown", "Online", "Offline"}
    /\ \A t \in DOMAIN client.listening : t \in Target /\ client.listening[t] \in Versions
    /\ \A t \in DOMAIN client.agg :
          /\ client.agg[t].outstanding \in Nat
          /\ client.agg[t].current \in BOOLEAN
          /\ DOMAIN client.agg[t].changes \subseteq t.docs
    /\ DOMAIN client.updates \subseteq Docs
    /\ log \in Seq([doc : Docs, content : Values]) /\ Len(log) \in Versions
    /\ listens \in 0..MaxListens /\ faults \in 0..MaxFaults

\* No HARD_ASSERT of these handlers fails, whatever the order of messages, failures
\* and calls, as long as nobody is Hasty: a lookup is stopped once, and only while it
\* is watched; a stream that is needed is never stopped gracefully; a document that
\* changes in a target was added to it; the online timer runs only while the state is
\* unknown.
AssertionsHold == ~client.broken

\* The listener's documents are the local store's, own writes included at once,
\* except for a document whose last change waits for the stream, and one that the
\* query left out: the server has deleted it since, and the client had a snapshot
\* without it.
ViewIsLocal ==
    client.on => \A d \in Docs :
        \/ client.view.docs[d].content = LocalDoc(client, d).content
        \/ Committed(client, d)
        \/ /\ client.view.docs[d] = NotShown /\ ~LocalDoc(client, d).local
           /\ \E n \in client.cache[d].version .. client.lastSnap : StateAt(d, n) = Missing

\* FIRSnapshotMetadata.h: what is not from the cache is up to date, as long as nobody
\* is Hasty.  A view in sync shows the server's documents as of its last snapshot,
\* apart from those shown with pending writes or that the cache has a newer write of:
\* after resumptions, filters, resets, lookups and restarts no deleted document stays
\* in it, and none that the query left out is missing.
SyncedIsExact ==
    client.on /\ client.view.sync = "Synced" =>
        \A d \in Docs :
            /\ ~LocalDoc(client, d).local /\ ~client.view.docs[d].local
            /\ client.cache[d].version <= client.listening[Query]
            => client.view.docs[d].content = StateAt(d, client.listening[Query])

\* The same for documents shown with pending writes that are long settled, as the
\* documentation has it.  The code refutes it: a write that was acknowledged before
\* the query's first snapshot stays "local" in the view, so when somebody deletes
\* the document meanwhile it is never in limbo.
NotFromCache ==
    client.on /\ client.view.sync = "Synced" =>
        \A d \in Docs :
            /\ ~LocalDoc(client, d).local
            /\ client.cache[d].version <= client.listening[Query]
            => client.view.docs[d].content = StateAt(d, client.listening[Query])

\* A listener gets in sync with the server, lookups of documents in limbo included,
\* unless it is removed or the network is disabled, as long as nobody is Hasty.
ChangesArrive ==
    client.on ~>
        \/ client.view.sync = "Synced" /\ client.listening[Query] = Len(log)
        \/ ~client.on \/ ~client.enabled

\* A listener hears of its documents whatever the network does: from the server, or
\* from the cache once the client knows that it is offline.
FirstEventComes == client.on ~> client.raised \/ ~client.on
=============================================================================
