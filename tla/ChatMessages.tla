---------------------------- MODULE ChatMessages ----------------------------
(***************************************************************************)
(* The messages of ChatApp on one phone: the "messages" collection in the  *)
(* cloud, what the phone's Firestore has cached of it, the snapshot        *)
(* listeners of the inbox and of the open chat, and the main queue where   *)
(* their calls and the table reloads they ask for run one after another.   *)
(*                                                                         *)
(* A chat adds a listener when it opens and one more at every message it   *)
(* sends, and removes none.  Each is called with the whole result of its   *)
(* query whenever that changes, first with what is cached; all listeners   *)
(* of a phone see the same sequence of results.  The listeners of a chat   *)
(* share one query, also with those left behind by an earlier visit.  When *)
(* the server refuses a query, all its listeners are called with the error *)
(* and never again; only the chat ever listens anew.                       *)
(*                                                                         *)
(* A message is known by the timestamp its sender's clock gave it; clocks  *)
(* differ, so a message may be older than one sent before it.              *)
(***************************************************************************)
EXTENDS Integers, SequencesExt, Lists

CONSTANTS Me,             \* who is signed in on this phone
          Others,         \* everybody else
          Nil,            \* no chat is open; no message at this time
          MaxTime,        \* bound on timestamps, and so on messages
          MaxJobs,        \* the user only acts while the main queue is shorter
          ServerMayFail   \* may the server refuse a write or a query?

ASSUME PeopleAssumption == Me \notin Others /\ Nil \notin Others \cup {Me}
ASSUME BoundsAssumption == MaxTime \in Nat /\ MaxJobs \in Nat
ASSUME ServerAssumption == ServerMayFail \in BOOLEAN

VARIABLES sent,       \* the messages there are, by timestamp
          cloud,      \* timestamps of those the server holds
          cached,     \* timestamps of those this phone knows of
          listening,  \* queries with listeners: Me for the inbox's, a person for a chat's
          heard,      \* history: what was cached when the inbox's query ended
          main,       \* the phone's main queue
          inbox,      \* MessagesViewController.messages
          inboxRows,  \* what its table has drawn
          peer,       \* ChatViewController.receiverId, or Nil when no chat is open
          listeners,  \* snapshot listeners of the open chat
          messages,   \* ChatViewController.messages
          rows,       \* what its table has drawn
          failed      \* history: the last call of a chat listener was an error

chat == <<peer, listeners, messages, rows, failed>>
inboxVars == <<inbox, inboxRows>>
queries == <<listening, heard>>
vars == <<sent, cloud, cached, listening, heard, main, inbox, inboxRows, peer, listeners, messages, rows, failed>>

Times == 1 .. MaxTime
Everyone == Others \cup {Me}
Message == {m \in [from : Everyone, to : Everyone] : m.from # m.to}

ASSUME NilAssumption == Nil \notin Message

Job == [run : {"chat", "inbox"}, result : SUBSET Times]
       \cup [run : {"chatError", "reloadChat", "reloadInbox"}]

\* Timestamps in their order, as "order(by:)" and "sort" put them.
OldestFirst(times) == Ascending(times)
NewestFirst(times) == Reverse(Ascending(times))

\* The query of ChatViewController.loadMessages: both fields in [me, receiver].
ChatQuery(all, known, other) ==
    {t \in known : all[t].from \in {Me, other} /\ all[t].to \in {Me, other}}

\* MessagesViewController.loadMessages: newest first, each message of mine
\* goes to the group of its pair of people, whichever of the two keys it has.
AddToGroup(groups, t) ==
    LET key == <<sent[t].from, sent[t].to>>
        reverse == <<sent[t].to, sent[t].from>>
        found == IF key \in DOMAIN groups THEN key
                 ELSE IF reverse \in DOMAIN groups THEN reverse ELSE key
    IN  [k \in DOMAIN groups \cup {found} |->
            IF k # found THEN groups[k]
            ELSE IF k \in DOMAIN groups THEN Append(groups[k], t) ELSE <<t>>]

\* Mutant: a message is only looked up under its own direction.
GroupedMessages_OneKey(known) ==
    LET mine == NewestFirst({t \in known : Me \in {sent[t].from, sent[t].to}})
    IN  FoldLeft(LAMBDA groups, t : [k \in DOMAIN groups \cup {<<sent[t].from, sent[t].to>>} |->
                                        IF k \in DOMAIN groups THEN groups[k] ELSE <<t>>],
                 <<>>, mine)

GroupedMessages(known) ==
    FoldLeft(AddToGroup, <<>>,
             NewestFirst({t \in known : Me \in {sent[t].from, sent[t].to}}))

\* The first of every group, sorted.
LatestOfGroups(groups) == NewestFirst({groups[k][1] : k \in DOMAIN groups})

\* Firestore calls the listeners of the queries whose result has changed.
Calls(all, known, new) ==
    (IF peer # Nil /\ ChatQuery(all, {new}, peer) # {}
     THEN [i \in 1 .. listeners |-> [run |-> "chat", result |-> ChatQuery(all, known, peer)]]
     ELSE <<>>)
    \o (IF Me \in listening THEN <<[run |-> "inbox", result |-> known]>> ELSE <<>>)
-----------------------------------------------------------------------------
Init ==
    /\ sent = [t \in Times |-> Nil]
    /\ cloud = {} /\ cached = {}
    /\ listening = {Me} /\ heard = {}
    /\ main = <<>>
    /\ inbox = <<>> /\ inboxRows = <<>>
    /\ peer = Nil /\ listeners = 0 /\ messages = <<>> /\ rows = <<>> /\ failed = FALSE

\* Somebody else's phone sends, to this user or not.
OtherSends(t, from, to) ==
    /\ sent[t] = Nil
    /\ from # to
    /\ sent' = [sent EXCEPT ![t] = [from |-> from, to |-> to]]
    /\ cloud' = cloud \cup {t}
    /\ UNCHANGED <<cached, queries, main, inboxVars, chat>>

\* The phone hears of a message that a query it listens to selects.
Synced(t) ==
    /\ t \in cloud \ cached
    /\ Me \in listening \/ \E other \in listening \cap Others : ChatQuery(sent, {t}, other) # {}
    /\ cached' = cached \cup {t}
    /\ main' = main \o Calls(sent, cached', t)
    /\ UNCHANGED <<sent, cloud, queries, inboxVars, chat>>

\* The server takes a message this phone wrote; no listener is told.
Accepted(t) ==
    /\ t \in cached \ cloud
    /\ cloud' = cloud \cup {t}
    /\ UNCHANGED <<sent, cached, queries, main, inboxVars, chat>>

\* The server refuses it: it leaves the cache again, and the error is printed.
Refused(t) ==
    /\ ServerMayFail
    /\ t \in cached \ cloud
    /\ cached' = cached \ {t}
    /\ main' = main \o Calls(sent, cached', t)
    /\ UNCHANGED <<sent, cloud, queries, inboxVars, chat>>
-----------------------------------------------------------------------------
\* A job of a controller that is gone changes nothing the user sees.
InboxJobs(queue) ==
    Keep(queue, {i \in DOMAIN queue : queue[i].run \in {"inbox", "reloadInbox"}})

\* ChatViewController is pushed: viewDidLoad adds its first listener.
OpenChat(other) ==
    /\ Len(main) < MaxJobs
    /\ peer = Nil
    /\ peer' = other
    /\ listening' = listening \cup {other}
    /\ listeners' = 1
    /\ messages' = <<>> /\ rows' = <<>> /\ failed' = FALSE
    /\ main' = Append(main, [run |-> "chat", result |-> ChatQuery(sent, cached, other)])
    /\ UNCHANGED <<sent, cloud, cached, heard, inboxVars>>

\* Back to the inbox, whose viewWillAppear reloads its table; the listeners stay.
CloseChat ==
    /\ peer # Nil
    /\ peer' = Nil
    /\ listeners' = 0 /\ messages' = <<>> /\ rows' = <<>> /\ failed' = FALSE
    /\ main' = InboxJobs(main)
    /\ inboxRows' = inbox
    /\ UNCHANGED <<sent, cloud, cached, queries, inbox>>

\* sendMessageClick: written to the cache at once, then loadMessages again.
SendMessage(t) ==
    /\ Len(main) < MaxJobs
    /\ peer # Nil
    /\ sent[t] = Nil
    /\ sent' = [sent EXCEPT ![t] = [from |-> Me, to |-> peer]]
    /\ cached' = cached \cup {t}
    /\ listening' = listening \cup {peer}
    /\ listeners' = listeners + 1
    /\ main' = Append(main \o Calls(sent', cached', t),
                      [run |-> "chat", result |-> ChatQuery(sent', cached', peer)])
    /\ UNCHANGED <<cloud, heard, inboxVars, peer, messages, rows, failed>>

\* Mutant: an error takes one listener of the chat away and leaves the others.
QueryEnds_OneListener(q) ==
    /\ Len(main) < MaxJobs
    /\ ServerMayFail
    /\ q \in listening
    /\ listening' = listening \ {q}
    /\ heard' = IF q = Me THEN cached ELSE heard
    /\ IF q = peer
       THEN /\ listeners' = listeners - 1
            /\ main' = Append(main, [run |-> "chatError"])
       ELSE UNCHANGED <<listeners, main>>
    /\ UNCHANGED <<sent, cloud, cached, inboxVars, peer, messages, rows, failed>>

\* The server refuses a query: every listener of it is called with the error,
\* and no more.  The inbox's prints it and returns, and does not listen again.
QueryEnds(q) ==
    /\ Len(main) < MaxJobs
    /\ ServerMayFail
    /\ q \in listening
    /\ listening' = listening \ {q}
    /\ heard' = IF q = Me THEN cached ELSE heard
    /\ IF q = peer
       THEN /\ listeners' = 0
            /\ main' = main \o [i \in 1 .. listeners |-> [run |-> "chatError"]]
       ELSE UNCHANGED <<listeners, main>>
    /\ UNCHANGED <<sent, cloud, cached, inboxVars, peer, messages, rows, failed>>

\* keyboardWillHide asks for a reload too; one waiting is enough to consider.
KeyboardHides ==
    /\ Len(main) < MaxJobs
    /\ peer # Nil
    /\ [run |-> "reloadChat"] \notin Range(main)
    /\ main' = Append(main, [run |-> "reloadChat"])
    /\ UNCHANGED <<sent, cloud, cached, queries, inboxVars, chat>>
-----------------------------------------------------------------------------
\* Reloads that follow one another draw the same: one stands for them.
Reload(queue, job) == IF queue # <<>> /\ Last(queue) = job THEN queue ELSE Append(queue, job)

\* The listener of the chat refills the list and, if there is any message,
\* asks for a reload on the main queue (one per message, all alike).
ChatListenerRuns ==
    /\ main # <<>> /\ Head(main).run = "chat"
    /\ messages' = OldestFirst(Head(main).result)
    /\ main' = IF messages' = <<>> THEN Tail(main) ELSE Reload(Tail(main), [run |-> "reloadChat"])
    /\ failed' = FALSE
    /\ UNCHANGED <<sent, cloud, cached, queries, inboxVars, peer, listeners, rows>>

\* It reads the list as it is by then, unless that is empty.
ChatReloads ==
    /\ main # <<>> /\ Head(main).run = "reloadChat"
    /\ rows' = IF messages = <<>> THEN rows ELSE messages
    /\ main' = Tail(main)
    /\ UNCHANGED <<sent, cloud, cached, queries, inboxVars, peer, listeners, messages, failed>>

\* Mutant: an error empties the table too.
ChatErrorRuns_Reloads ==
    /\ main # <<>> /\ Head(main).run = "chatError"
    /\ messages' = <<>>
    /\ rows' = <<>>
    /\ failed' = TRUE
    /\ main' = Tail(main)
    /\ UNCHANGED <<sent, cloud, cached, queries, inboxVars, peer, listeners>>

\* An error empties the list and returns: the table is not reloaded.
ChatErrorRuns ==
    /\ main # <<>> /\ Head(main).run = "chatError"
    /\ messages' = <<>>
    /\ failed' = TRUE
    /\ main' = Tail(main)
    /\ UNCHANGED <<sent, cloud, cached, queries, inboxVars, peer, listeners, rows>>

InboxListenerRuns ==
    /\ main # <<>> /\ Head(main).run = "inbox"
    /\ inbox' = LatestOfGroups(GroupedMessages(Head(main).result))
    /\ main' = Reload(Tail(main), [run |-> "reloadInbox"])
    /\ UNCHANGED <<sent, cloud, cached, queries, inboxRows, chat>>

InboxReloads ==
    /\ main # <<>> /\ Head(main).run = "reloadInbox"
    /\ inboxRows' = inbox
    /\ main' = Tail(main)
    /\ UNCHANGED <<sent, cloud, cached, queries, inbox, chat>>

RunMain == ChatListenerRuns \/ ChatErrorRuns \/ ChatReloads \/ InboxListenerRuns \/ InboxReloads
-----------------------------------------------------------------------------
Next ==
    \/ \E t \in Times : Synced(t) \/ Accepted(t) \/ Refused(t) \/ SendMessage(t)
    \/ \E t \in Times, from \in Others, to \in Everyone : OtherSends(t, from, to)
    \/ \E other \in Others : OpenChat(other)
    \/ \E q \in Everyone : QueryEnds(q)
    \/ CloseChat \/ KeyboardHides
    \/ RunMain

Spec == Init /\ [][Next]_vars
-----------------------------------------------------------------------------
(***************************************************************************)
(* Properties.                                                             *)
(***************************************************************************)
\* Every variable has its type; only messages that were sent are known of, and
\* an open chat has listeners exactly while its query is listened to.
TypeOK ==
    /\ sent \in [Times -> Message \cup {Nil}]
    /\ cloud \subseteq {t \in Times : sent[t] # Nil}
    /\ cached \subseteq {t \in Times : sent[t] # Nil}
    /\ listening \subseteq Everyone
    /\ heard \subseteq {t \in Times : sent[t] # Nil}
    /\ main \in Seq(Job)
    /\ inbox \in Seq(Times) /\ inboxRows \in Seq(Times)
    /\ peer \in Others \cup {Nil}
    /\ listeners \in Nat
    /\ listeners > 0 <=> peer \in listening
    /\ messages \in Seq(Times) /\ rows \in Seq(Times)
    /\ failed \in BOOLEAN

Waiting(jobs) == \E j \in Range(main) : j.run \in jobs

Pair(t) == IF sent[t] = Nil THEN {} ELSE {sent[t].from, sent[t].to}

\* When the main queue owes the chat nothing, its table shows the messages
\* between the two people the phone knows of, once each, oldest first,
\* however many listeners refilled the list; a list that was emptied (its
\* query, or its only message, was refused) is not redrawn.
ChatExact ==
    LET conversation == {t \in cached : Pair(t) = {Me, peer}} IN
    (/\ peer # Nil /\ ~failed /\ conversation # {}
     /\ ~Waiting({"chat", "chatError", "reloadChat"}))
    => rows = OldestFirst(conversation)

\* What the inbox can know of.
Known == IF Me \in listening THEN cached ELSE heard

\* When the main queue owes the inbox nothing, it shows for each person the
\* newest message of either direction, and the newest of all first: of what
\* the phone knows of, or knew of when the inbox's query was refused, after
\* which nothing calls its listener again.
InboxExact ==
    ~Waiting({"inbox", "reloadInbox"}) =>
        inboxRows = NewestFirst({t \in Known : Me \in Pair(t)
                        /\ \A u \in Known : Pair(u) = Pair(t) => u <= t})

\* Both tables, whatever order clocks, listeners and reloads come in.
TablesExact == ChatExact /\ InboxExact

\* A message once shown in an open chat stays there, whichever listener is
\* called next or fails, unless the server refused it.
NeverUnshown ==
    [][peer # Nil /\ peer' = peer => Range(rows) \cap cached' \subseteq Range(rows')]_vars
=============================================================================
