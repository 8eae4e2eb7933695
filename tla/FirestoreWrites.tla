--------------------------- MODULE FirestoreWrites ---------------------------
(***************************************************************************)
(* How the Firestore client under ChatApp's "setData" gets writes to the    *)
(* server: the mutation queues on disk (one per user), the completions in   *)
(* memory, the write pipeline of RemoteStore and its WriteStream.  Every    *)
(* handler runs on the worker queue, so each is one action; between them    *)
(* tokens, answers, timers, failures, user changes and crashes come in any  *)
(* order.                                                                  *)
(*                                                                         *)
(* Writes are numbered in the order they are issued.  The server keeps, per *)
(* user, one document that every write overwrites, and stops reading a      *)
(* stream when it refuses a write or the stream is closed.                  *)
(***************************************************************************)
EXTENDS Integers, Sequences, FiniteSetsExt, Functions

CONSTANTS Users,
          FirstUser,         \* who is signed in when the program is installed
          MaxPendingWrites,  \* kMaxPendingWrites
          MaxWrites,         \* bound on the writes issued
          MaxFaults          \* bound on refusals, failures, restarts and crashes

ASSUME UsersAssumption == FirstUser \in Users
ASSUME PipelineAssumption == MaxPendingWrites \in Nat \ {0}
ASSUME BoundsAssumption == MaxWrites \in Nat /\ MaxFaults \in Nat

VARIABLES queue,      \* LevelDB: per user the batches that are not settled
          user,       \* SyncEngine::current_user_
          nextId,     \* LevelDbMutationQueue::next_batch_id_
          callbacks,  \* SyncEngine::mutation_callbacks_
          waiters,    \* SyncEngine::pending_writes_callbacks_
          remote,     \* RemoteStore and its write stream
          author,     \* history: who issued each write
          told,       \* history: what the completion of each write was called with
          waited,     \* history: the writes that waitForPendingWrites said are settled
          lives,      \* history: how often the process has started
          done,       \* server: the writes committed
          last,       \* server: the write each user's document holds, or 0
          faults      \* counts up to MaxFaults

history == <<author, told, waited, lives>>
server == <<done, last>>
vars == <<queue, user, nextId, callbacks, waiters, remote, history, server, faults>>

Writes == 1..MaxWrites
Batch == [id : Nat \ {0}, write : Writes]

\* What goes over the stream.  The first request is the handshake; it carries no
\* batch.
Hello == [id |-> 0, write |-> 0]
Request == Batch \cup {Hello}
Response == [batch : Request, ok : BOOLEAN]

\* stream: Stream::State, Open standing for Healthy too.  asked: the requests for
\* credentials under way, for this stream or for one that was closed before.
Remote == [enabled : BOOLEAN, pipeline : Seq(Batch),
           stream : {"Initial", "Starting", "Open", "Error", "Backoff"},
           handshake : BOOLEAN, idle : BOOLEAN, asked : SUBSET {"now", "before"},
           requests : Seq(Request), responses : Seq(Response)]

Started(r) == r.stream \in {"Starting", "Open", "Backoff"}

\* The position of the first batch with an id greater than id: a seek in LevelDB,
\* which keeps a user's batches in the order of their ids.
PositionAfter(q, id) ==
    CHOOSE i \in 1..(Len(q) + 1) : \A j \in DOMAIN q : q[j].id <= id <=> j < i

\* RemoveMutationBatch.
Without(q, id) ==
    LET i == PositionAfter(q, id) - 1
    IN  SubSeq(q, 1, i - 1) \o SubSeq(q, i + 1, Len(q))

\* Mutant: the greatest id itself.
NextBatchId_NotOneMore(queues) ==
    Max({0} \cup UNION {{queues[u][i].id : i \in DOMAIN queues[u]} : u \in Users})

\* LoadNextBatchIdFromDb: one more than the greatest id of anybody's batches.
NextBatchId(queues) ==
    1 + Max({0} \cup UNION {{queues[u][i].id : i \in DOMAIN queues[u]} : u \in Users})

-----------------------------------------------------------------------------
(* The write stream. *)

\* Stream::Start, from Initial or, after an error, with a backoff.
Start(r) ==
    CASE r.stream = "Initial" -> [r EXCEPT !.stream = "Starting", !.asked = @ \cup {"now"}]
      [] r.stream = "Error" -> [r EXCEPT !.stream = "Backoff"]
      [] OTHER -> r

\* Stream::Close: the timers are cancelled, the credentials on their way are for
\* a stream of another close count, and nothing of the call is heard again.
Close(r, state) ==
    [r EXCEPT !.stream = state, !.handshake = FALSE, !.idle = FALSE,
              !.asked = IF @ = {} THEN {} ELSE {"before"},
              !.requests = <<>>, !.responses = <<>>]

Stop(r) == IF Started(r) THEN Close(r, "Initial") ELSE r

\* MarkIdle for an empty pipeline; Stream::Write cancels the timer.
Idle(r, new) ==
    IF r.pipeline \o new = <<>> THEN r.idle \/ r.stream = "Open"
    ELSE r.idle /\ ~(r.stream = "Open" /\ r.handshake /\ new # <<>>)

\* The batches FillWritePipeline takes: those after the last of the pipeline, as
\* long as there is room.
NewBatches(r, q) ==
    LET from == PositionAfter(q, IF r.pipeline = <<>> THEN 0 ELSE r.pipeline[Len(r.pipeline)].id)
        room == MaxPendingWrites - Len(r.pipeline)
        left == Len(q) - from + 1
    IN  SubSeq(q, from, from - 1 + (IF room <= left THEN room ELSE left))

\* RemoteStore::FillWritePipeline: a batch is sent at once on a stream that has
\* shaken hands, the others wait for that.
Fill(r, q) ==
    LET new == NewBatches(r, q)
        filled == [r EXCEPT !.pipeline = @ \o new,
                            !.requests = IF r.stream = "Open" /\ r.handshake THEN @ \o new ELSE @,
                            !.idle = Idle(r, new)]
    IN  IF ~r.enabled THEN r
        ELSE IF filled.pipeline = <<>> THEN filled ELSE Start(filled)

\* Mutant: the pipeline is kept for when the network is enabled again.
Disable_KeepsPipeline(r) == [Stop(r) EXCEPT !.enabled = FALSE]

\* RemoteStore::DisableNetwork and EnableNetwork.
Disable(r) == [Stop(r) EXCEPT !.enabled = FALSE, !.pipeline = <<>>]

Enable(r, q) == Fill([r EXCEPT !.enabled = TRUE], q)

\* RemoteStore::RestartNetwork, if the network may be used.
RestartNetwork(r, q) ==
    IF r.enabled THEN Enable([Disable(r) EXCEPT !.stream = "Initial"], q) ELSE r

\* The store and the stream of a process that starts.
FreshRemote(q) ==
    Enable([enabled |-> FALSE, pipeline |-> <<>>, stream |-> "Initial", handshake |-> FALSE,
            idle |-> FALSE, asked |-> {}, requests |-> <<>>, responses |-> <<>>], q)

Init ==
    /\ queue = [u \in Users |-> <<>>]
    /\ user = FirstUser
    /\ nextId = 1
    /\ callbacks = {} /\ waiters = {}
    /\ remote = FreshRemote(<<>>)
    /\ author = <<>> /\ told = [w \in Writes |-> "nothing"] /\ waited = {} /\ lives = 1
    /\ done = {} /\ last = [u \in Users |-> 0]
    /\ faults = 0

Fault == faults < MaxFaults /\ faults' = faults + 1

-----------------------------------------------------------------------------
(* What the program asks for. *)

\* SyncEngine::WriteMutations.
WriteMutations ==
    LET w == Len(author) + 1
        batch == [id |-> nextId, write |-> w]
    IN  /\ w \in Writes
        /\ author' = Append(author, user)
        /\ queue' = [queue EXCEPT ![user] = Append(@, batch)]
        /\ nextId' = nextId + 1
        /\ callbacks' = callbacks \cup {[user |-> user, batch |-> batch]}
        /\ remote' = Fill(remote, queue'[user])
        /\ UNCHANGED <<user, waiters, told, waited, lives, server, faults>>

Pending(u) == {queue[u][i].write : i \in DOMAIN queue[u]}

\* Mutant: the completion waits for the last batch of the pipeline.
Awaited_InPipeline ==
    IF remote.pipeline # <<>> THEN remote.pipeline[Len(remote.pipeline)].id ELSE queue[user][1].id

\* GetHighestUnacknowledgedBatchId.
Awaited == queue[user][Len(queue[user])].id

\* SyncEngine::RegisterPendingWritesCallback; a completion called at once has
\* nothing to wait for.
WaitForPendingWrites ==
    /\ queue[user] # <<>>
    /\ waiters' = waiters \cup {[id |-> Awaited, for |-> Pending(user)]}
    /\ UNCHANGED <<queue, user, nextId, callbacks, remote, history, server, faults>>

EnableNetwork ==
    /\ remote' = Enable(remote, queue[user])
    /\ UNCHANGED <<queue, user, nextId, callbacks, waiters, history, server, faults>>

DisableNetwork ==
    /\ remote' = Disable(remote)
    /\ UNCHANGED <<queue, user, nextId, callbacks, waiters, history, server, faults>>

\* Mutant: the completions of the writes are dropped, too.
UserChanges_DropsCallbacks(u) ==
    /\ Fault /\ u # user
    /\ user' = u
    /\ nextId' = NextBatchId(queue)
    /\ waiters' = {} /\ callbacks' = {}
    /\ remote' = RestartNetwork(remote, queue[u])
    /\ UNCHANGED <<queue, history, server>>

\* SyncEngine::HandleCredentialChange: somebody else signs in; completions of
\* waitForPendingWrites are called with an error, those of the writes are kept.
UserChanges(u) ==
    /\ Fault /\ u # user
    /\ user' = u
    /\ nextId' = NextBatchId(queue)
    /\ waiters' = {}
    /\ remote' = RestartNetwork(remote, queue[u])
    /\ UNCHANGED <<queue, callbacks, history, server>>

\* HandleCredentialChange for the same user, and a change of connectivity.
NetworkRestarts ==
    /\ Fault
    /\ remote' = RestartNetwork(remote, queue[user])
    /\ UNCHANGED <<queue, user, nextId, callbacks, waiters, history, server>>

-----------------------------------------------------------------------------
(* What the write stream hears. *)

Stream(r) ==
    /\ remote' = r
    /\ UNCHANGED <<queue, user, nextId, callbacks, waiters, history, server>>

\* Mutant: the close count is not compared.
CredentialsArrive_AnyStream(t) ==
    /\ t \in remote.asked
    /\ Stream([remote EXCEPT !.stream = "Open", !.requests = <<Hello>>, !.asked = @ \ {t}])
    /\ UNCHANGED faults

\* The callback of RequestCredentials: ResumeStartWithCredentials, the gRPC call,
\* OnStreamStart and the handshake, unless the stream was closed in between.
CredentialsArrive(t) ==
    /\ t \in remote.asked
    /\ Stream(IF t = "before" THEN [remote EXCEPT !.asked = @ \ {t}]
              ELSE [remote EXCEPT !.asked = @ \ {t}, !.stream = "Open", !.requests = <<Hello>>])
    /\ UNCHANGED faults

\* Mutant: what waited for the handshake is not sent.
HandshakeCompletes_SendsNothing ==
    /\ remote.stream = "Open" /\ ~remote.handshake /\ remote.responses # <<>>
    /\ Stream([remote EXCEPT !.handshake = TRUE, !.responses = Tail(@)])
    /\ UNCHANGED faults

\* NotifyStreamResponse of the first response: the pipeline is sent.
HandshakeCompletes ==
    /\ remote.stream = "Open" /\ ~remote.handshake /\ remote.responses # <<>>
    /\ Stream([remote EXCEPT !.handshake = TRUE, !.responses = Tail(@),
                             !.requests = @ \o remote.pipeline,
                             !.idle = @ /\ remote.pipeline = <<>>])
    /\ UNCHANGED faults

IdleTimeout == remote.idle /\ Stream(Stop(remote)) /\ UNCHANGED faults

\* The closure of BackoffAndTryRestarting.
BackoffElapses ==
    /\ remote.stream = "Backoff"
    /\ Stream(Start([remote EXCEPT !.stream = "Initial"]))
    /\ UNCHANGED faults

\* OnStreamFinish with an error that refuses nothing: no credentials, a transient
\* error, or one before the handshake.  OnWriteStreamClose starts the stream
\* again if it is needed.
StreamFails ==
    /\ Fault
    /\ remote.stream \in {"Starting", "Open"}
    /\ LET closed == Close(remote, "Error")
       IN  Stream(IF closed.pipeline = <<>> THEN closed ELSE Start(closed))

\* The completion found by NotifyUser: batches of an earlier process have none.
Heard(batch) == {c \in callbacks : c.user = user /\ c.batch.id = batch.id}

Told(batch, answer) ==
    [w \in Writes |-> IF \E c \in Heard(batch) : c.batch.write = w THEN answer ELSE told[w]]

\* SyncEngine::TriggerPendingWriteCallbacks.
Triggered(batch) == {x \in waiters : x.id = batch.id}

Waited(batch) == waited \cup UNION {x.for : x \in Triggered(batch)}

\* The batch leaves the queue on disk and its completions are called.
Settled(batch, answer) ==
    /\ told' = Told(batch, answer)
    /\ callbacks' = callbacks \ Heard(batch)
    /\ waited' = Waited(batch)
    /\ waiters' = waiters \ Triggered(batch)
    /\ queue' = [queue EXCEPT ![user] = Without(@, batch.id)]
    /\ UNCHANGED <<author, lives, user, nextId, server>>

\* Mutant: the completion of the newest batch of the pipeline is called.
Front_Newest == remote.pipeline[Len(remote.pipeline)]

\* An answer is about the first batch of the pipeline, whatever it answers.
Front == Head(remote.pipeline)

Acknowledged ==
    /\ remote.handshake /\ remote.responses # <<>>
    /\ Head(remote.responses).ok

\* OnWriteStreamMutationResult and HandleSuccessfulWrite.
WriteAcknowledged ==
    /\ Acknowledged
    /\ Settled(Front, "ok")
    /\ remote' = Fill([remote EXCEPT !.pipeline = Tail(@), !.responses = Tail(@)], queue'[user])
    /\ UNCHANGED faults

\* Mutant: the pipeline is not filled again, so nothing starts the stream.
WriteRefused_NoRefill ==
    /\ remote.handshake /\ remote.responses # <<>>
    /\ \/ ~Head(remote.responses).ok
       \/ ~remote.responses[Len(remote.responses)].ok /\ remote.requests # <<>>
    /\ Settled(Front, "error")
    /\ remote' = [Close(remote, "Initial") EXCEPT !.pipeline = Tail(@)]
    /\ UNCHANGED faults

\* OnStreamFinish with the error of a refused write: HandleWriteError rejects the
\* first batch of the pipeline and inhibits the backoff.  When a request could not
\* be sent any more, OnOperationFailed makes the reads that came before no-ops, so
\* the first batch may be one whose acknowledgement was dropped.
WriteRefused ==
    /\ remote.handshake /\ remote.responses # <<>>
    /\ \/ ~Head(remote.responses).ok
       \/ ~remote.responses[Len(remote.responses)].ok /\ remote.requests # <<>>
    /\ Settled(Front, "error")
    /\ remote' = Fill([Close(remote, "Initial") EXCEPT !.pipeline = Tail(@)], queue'[user])
    /\ UNCHANGED faults

-----------------------------------------------------------------------------
(* The process dies and starts again; the disk is all it has. *)

Reborn ==
    /\ Fault
    /\ callbacks' = {} /\ waiters' = {}
    /\ nextId' = NextBatchId(queue)
    /\ remote' = FreshRemote(queue[user])
    /\ lives' = lives + 1
    /\ UNCHANGED <<queue, user, author, server>>

Restart == Reborn /\ UNCHANGED <<told, waited>>

\* HandleSuccessfulWrite calls the completions first: a crash before
\* AcknowledgeBatch is saved leaves an acknowledged batch in the queue.
CrashInAcknowledgement ==
    /\ Acknowledged
    /\ Reborn
    /\ told' = Told(Front, "ok")
    /\ waited' = Waited(Front)

-----------------------------------------------------------------------------
(* The server. *)

Serve(batch, ok) ==
    /\ remote.requests # <<>> /\ Head(remote.requests) = batch
    /\ \A i \in DOMAIN remote.responses : remote.responses[i].ok
    /\ remote' = [remote EXCEPT !.requests = Tail(@),
                                !.responses = Append(@, [batch |-> batch, ok |-> ok])]
    /\ UNCHANGED <<queue, user, nextId, callbacks, waiters, history>>

ServerGreets == Serve(Hello, TRUE) /\ UNCHANGED <<server, faults>>

ServerCommits ==
    \E batch \in Range(remote.pipeline) :
        /\ Serve(batch, TRUE)
        /\ done' = done \cup {batch.write}
        /\ last' = [last EXCEPT ![user] = batch.write]
        /\ UNCHANGED faults

ServerRefuses ==
    /\ Fault
    /\ \E batch \in Range(remote.pipeline) : Serve(batch, FALSE)
    /\ UNCHANGED server

-----------------------------------------------------------------------------

Next ==
    \/ WriteMutations
    \/ WaitForPendingWrites
    \/ EnableNetwork
    \/ DisableNetwork
    \/ \E u \in Users : UserChanges(u)
    \/ NetworkRestarts
    \/ \E t \in {"now", "before"} : CredentialsArrive(t)
    \/ HandshakeCompletes
    \/ IdleTimeout
    \/ BackoffElapses
    \/ StreamFails
    \/ WriteAcknowledged
    \/ WriteRefused
    \/ Restart
    \/ CrashInAcknowledgement
    \/ ServerGreets
    \/ ServerCommits
    \/ ServerRefuses

Spec == Init /\ [][Next]_vars

\* Credentials, timers and the handlers of the worker queue come, and the server
\* reads what it was sent: while one of these steps can be taken, one is.  Nobody
\* has to use the program, and the network may fail.
Progress ==
    \/ CredentialsArrive("now")
    \/ BackoffElapses
    \/ ServerGreets
    \/ ServerCommits
    \/ HandshakeCompletes
    \/ WriteAcknowledged
    \/ WriteRefused

FairSpec == Spec /\ WF_vars(Progress)

-----------------------------------------------------------------------------
(* Properties *)

TypeOK ==
    /\ queue \in [Users -> Seq(Batch)]
    /\ user \in Users
    /\ nextId \in Nat \ {0}
    /\ callbacks \subseteq [user : Users, batch : Batch]
    /\ waiters \subseteq [id : Nat \ {0}, for : SUBSET Writes]
    /\ remote \in Remote
    /\ author \in Seq(Users) /\ Len(author) <= MaxWrites
    /\ told \in [Writes -> {"nothing", "ok", "error"}]
    /\ waited \subseteq Writes
    /\ lives \in Nat
    /\ done \subseteq Writes
    /\ last \in [Users -> Writes \cup {0}]
    /\ faults \in 0..MaxFaults

\* The pipeline is the front of the signed-in user's queue: after any failures and
\* user changes nothing is skipped, sent for somebody else or settled twice.
PipelineIsFront ==
    /\ Len(remote.pipeline) <= Len(queue[user])
    /\ \A i \in DOMAIN remote.pipeline : remote.pipeline[i] = queue[user][i]

\* Whoever was told that a write succeeded can rely on it: the server committed
\* that write, and its document holds it or a later write of the same user, even
\* if older writes were sent again after a crash (HandleSuccessfulWrite trusts
\* that an answer is about the front of the pipeline).
ToldTheTruth ==
    \A w \in Writes : told[w] = "ok" => w \in done /\ last[author[w]] >= w

\* FIRFirestore.h: waitForPendingWrites answers when the writes that were pending
\* have been acknowledged: each was committed or has left its queue.
WaitedForAll ==
    \A u \in Users : waited \cap Pending(u) \subseteq done

\* The assertions of the stream (remote_store.cc, stream.cc): the idle timer never
\* stops a stream with writes to send, a stream that has not shaken hands has
\* some, and what the server may still answer is the pipeline in its order.
StreamSound ==
    /\ remote.idle => remote.pipeline = <<>> /\ remote.stream = "Open" /\ remote.handshake
    /\ Started(remote) /\ ~remote.handshake => remote.pipeline # <<>>
    /\ remote.handshake =>
          [i \in DOMAIN remote.responses |-> remote.responses[i].batch] \o remote.requests
              = remote.pipeline

\* With the network enabled, a queue that is not empty is being worked on: a
\* timer, a token, the server or an answer will move it.
NeverStalled ==
    remote.enabled /\ queue[user] # <<>> =>
        /\ remote.pipeline # <<>>
        /\ Started(remote)
        /\ remote.stream = "Starting" => "now" \in remote.asked
        /\ remote.stream = "Open" => remote.requests # <<>> \/ remote.responses # <<>>

\* The answers on their way that are refusals.
Refusals == {i \in DOMAIN remote.responses : ~remote.responses[i].ok}

Log == INSTANCE WriteLog WITH
    log <- [u \in Users |-> [i \in DOMAIN queue[u] |-> queue[u][i].write]],
    count <- Len(author),
    owed <- {c.batch.write : c \in callbacks},
    refused <- {remote.responses[i].batch.write : i \in Refusals}

\* Every step is one the promise of WriteLog allows: no write is lost, invented,
\* reordered, or settled before its turn; a write leaves its queue only committed or
\* with a refusal, and with its completion called unless the process that had the
\* completion died.
ImplementsWriteLog == Log!LogSpec

\* A write is settled unless the network is disabled or its user signs out.
EveryWriteSettles ==
    \A w \in Writes : w \in Pending(user) ~> w \notin Pending(user) \/ ~remote.enabled
=============================================================================
