------------------------------ MODULE WriteLog ------------------------------
(***************************************************************************)
(* What the Firestore client promises of writes, without pipelines, streams *)
(* or batch ids: every user has a log of writes that are not settled, on    *)
(* disk; the process owes each write it was given a completion.  The server *)
(* commits the writes in the order of the log, possibly more than once, or  *)
(* refuses one.  Only the oldest can be settled: as accepted when the       *)
(* server's document holds it or a later write of the same user, as failed  *)
(* when a refusal is on its way, and never without telling its completion,  *)
(* which only the death of the process takes away.                          *)
(***************************************************************************)
EXTENDS Naturals, Sequences

CONSTANTS Users, MaxWrites

VARIABLES log,      \* per user: the numbers of the writes that are not settled
          count,    \* the writes issued; they are numbered from 1
          owed,     \* the writes whose completion the process has still to call
          lives,    \* how often the process has started
          done,     \* the writes the server committed
          last,     \* per user: the write the server's document holds, or 0
          refused,  \* the writes whose refusal is on its way
          told      \* per write: what its completion was called with

vars == <<log, count, owed, lives, done, last, refused, told>>

Writes == 1..MaxWrites
Answers == {"nothing", "ok", "error"}

LogInit ==
    /\ log = [u \in Users |-> <<>>]
    /\ count = 0
    /\ owed = {} /\ lives = 1
    /\ done = {} /\ refused = {}
    /\ last = [u \in Users |-> 0]
    /\ told = [w \in Writes |-> "nothing"]

\* SyncEngine::WriteMutations: a write is in the log before anything is sent.
Issue(u) ==
    /\ count < MaxWrites
    /\ count' = count + 1
    /\ log' = [log EXCEPT ![u] = Append(@, count + 1)]
    /\ owed' = owed \cup {count + 1}
    /\ UNCHANGED <<lives, done, last, refused, told>>

\* The server has committed all writes before this one, and reads them in order.
IsNext(u, i) == \A j \in 1..(i - 1) : log[u][j] \in done

Commit(u, i) ==
    /\ IsNext(u, i)
    /\ done' = done \cup {log[u][i]}
    /\ last' = [last EXCEPT ![u] = log[u][i]]
    /\ UNCHANGED <<log, count, owed, lives, refused, told>>

Refuse(u, i) ==
    /\ IsNext(u, i)
    /\ refused' = refused \cup {log[u][i]}
    /\ UNCHANGED <<log, count, owed, lives, done, last, told>>

\* The server's document holds the oldest write, or a later one of the same user.
Holds(u) ==
    /\ log[u] # <<>>
    /\ Head(log[u]) \in done /\ last[u] >= Head(log[u])

\* Some write of the user is refused.  It may be behind the oldest, when the answers
\* before it were dropped with the connection.
Fails(u) == \E i \in DOMAIN log[u] : log[u][i] \in refused

\* A completion is called at most once, and always if the process still has it.
Tell(w, answer) ==
    IF w \in owed THEN told[w] = "nothing" /\ told' = [told EXCEPT ![w] = answer]
    ELSE UNCHANGED told

\* HandleSuccessfulWrite and HandleRejectedWrite: the oldest write leaves the log.
\* After a refusal the connection starts over.
Settle(u, answer) ==
    /\ IF answer = "ok" THEN Holds(u) /\ UNCHANGED refused ELSE Fails(u) /\ refused' = {}
    /\ Tell(Head(log[u]), answer)
    /\ owed' = owed \ {Head(log[u])}
    /\ log' = [log EXCEPT ![u] = Tail(@)]
    /\ UNCHANGED <<count, lives, done, last>>

\* Refusals that were on their way are lost with the connection.
Disconnect ==
    /\ refused' \in SUBSET refused
    /\ UNCHANGED <<log, count, owed, lives, done, last, told>>

\* The process dies and starts again without completions; the log is kept.
Reborn ==
    /\ owed' = {} /\ refused' = {} /\ lives' = lives + 1
    /\ UNCHANGED <<log, count, done, last>>

Die == Reborn /\ UNCHANGED told

\* It dies between the completion of the oldest write and its removal.
DieAnswering(u) == Holds(u) /\ Reborn /\ Tell(Head(log[u]), "ok")

LogNext ==
    \/ Disconnect \/ Die
    \/ \E u \in Users :
          \/ Issue(u) \/ DieAnswering(u)
          \/ \E i \in DOMAIN log[u] : Commit(u, i) \/ Refuse(u, i)
          \/ \E answer \in {"ok", "error"} : Settle(u, answer)

LogSpec == LogInit /\ [][LogNext]_vars
=============================================================================
