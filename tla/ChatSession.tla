---------------------------- MODULE ChatSession -----------------------------
(***************************************************************************)
(* One phone running ChatApp: who Firebase Auth says is signed in, the     *)
(* controllers stacked over the welcome screen, and the requests whose     *)
(* answers push them.  A request is sent by a controller and answered at   *)
(* any later moment, in any order, whatever the user did meanwhile; its    *)
(* answer can push only while that controller is still on the stack        *)
(* (self.navigationController? is nil otherwise).                          *)
(*                                                                         *)
(* Only the end of the stack grows and shrinks, so a controller on it is   *)
(* known by its position; 0 stands for one that was popped.                *)
(***************************************************************************)
EXTENDS Naturals, Sequences, SequencesExt

CONSTANTS Users,          \* people, each with an e-mail address and a password
          Nobody,         \* nobody
          ReadsMayFail,   \* may reading a user's document fail?
          MaxRequests,    \* bound on the requests in flight
          MaxDepth        \* bound on the stack

ASSUME NobodyAssumption == Nobody \notin Users
ASSUME ReadsAssumption == ReadsMayFail \in BOOLEAN
ASSUME DepthAssumption == MaxRequests \in Nat /\ MaxDepth \in Nat

VARIABLES accounts,     \* users Firebase Auth knows
          profiles,     \* users with a document in "users"
          sentTo,       \* <<sender, receiver>> of the documents in "messages"
          currentUser,  \* Auth.auth().currentUser
          stack,        \* the controllers over WelcomeViewController
          requests,     \* what has not been answered yet
          overlapped    \* history: two ways of signing in were under way at once

server == <<accounts, profiles, sentTo>>
sessionVars == <<accounts, profiles, sentTo, currentUser, stack, requests, overlapped>>

Someone == Users \cup {Nobody}
Form == [kind : {"login", "register"}]
Inbox == [kind : {"messages"}, me : Someone]
People == [kind : {"users"}, users : SUBSET Users]
Chat == [kind : {"chat"}, me : Someone, peer : Users, mine : BOOLEAN, theirs : BOOLEAN]
Controller == Form \cup Inbox \cup People \cup Chat

\* mine, theirs: is there a URL for one's own and the other's picture?
Request == [step : {"signIn", "create", "upload", "url", "write", "users", "peer", "mine"},
            user : Someone, me : Someone, theirs : BOOLEAN, owner : Nat]

SigningIn == {"signIn", "create", "upload", "url", "write"}

OnTop(kind) == stack # <<>> /\ Last(stack).kind = kind

Push(controller) == stack' = Append(stack, controller)

\* Mutant: the answer pushes whether or not its controller is still there.
PushFor_AnyStack(r, controller) == Len(stack) < MaxDepth /\ Push(controller)

\* The push of an answer: "self.navigationController?.pushViewController".
PushFor(r, controller) ==
    IF r.owner = 0 THEN UNCHANGED stack
    ELSE Len(stack) < MaxDepth /\ Push(controller)

Ask(step, user, me, theirs) ==
    /\ Len(requests) < MaxRequests
    /\ requests' = Append(requests, [step |-> step, user |-> user, me |-> me,
                                     theirs |-> theirs, owner |-> Len(stack)])

Drop(i) == requests' = RemoveAt(requests, i)
Continue(i, step) == requests' = [requests EXCEPT ![i].step = step]

\* Controllers above a depth are gone, and what they had asked is orphaned.
Orphaned(depth) ==
    [i \in DOMAIN requests |->
        IF requests[i].owner > depth THEN [requests[i] EXCEPT !.owner = 0] ELSE requests[i]]
-----------------------------------------------------------------------------
SessionInit ==
    /\ accounts = {} /\ profiles = {} /\ sentTo = {}
    /\ currentUser = Nobody
    /\ stack = <<>>
    /\ requests = <<>>
    /\ overlapped = FALSE

\* The two buttons of WelcomeViewController.
OpenForm(kind) ==
    /\ stack = <<>>
    /\ MaxDepth > 0
    /\ Push([kind |-> kind])
    /\ UNCHANGED <<server, currentUser, requests, overlapped>>

\* loginButtonClick and registerButtonClick; neither stops a second click.
SubmitForm(kind, step, u) ==
    /\ OnTop(kind)
    /\ Ask(step, u, Nobody, FALSE)
    /\ overlapped' = (overlapped \/ \E r \in Range(requests) : r.step \in SigningIn)
    /\ UNCHANGED <<server, currentUser, stack>>

LoginButtonClick(u) == SubmitForm("login", "signIn", u)
RegisterButtonClick(u) == SubmitForm("register", "create", u)

\* Mutant: what a popped controller had asked still counts as asked by it.
Back_KeepsOwner ==
    /\ stack # <<>> /\ ~OnTop("messages")
    /\ stack' = Front(stack)
    /\ UNCHANGED <<server, currentUser, requests, overlapped>>

\* The back button.  The inbox has a Logout button in its place.
Back ==
    /\ stack # <<>> /\ ~OnTop("messages")
    /\ stack' = Front(stack)
    /\ requests' = Orphaned(Len(stack) - 1)
    /\ UNCHANGED <<server, currentUser, overlapped>>

\* Mutant: log out does not leave the inbox.
LogoutButtonClick_Stays ==
    /\ OnTop("messages")
    /\ currentUser' = Nobody
    /\ UNCHANGED <<server, stack, requests, overlapped>>

\* logoutButtonClick: signOut, then popToRootViewController.
LogoutButtonClick ==
    /\ OnTop("messages")
    /\ currentUser' = Nobody
    /\ stack' = <<>>
    /\ requests' = Orphaned(0)
    /\ UNCHANGED <<server, overlapped>>

\* The process is lost.  Auth remembers who is signed in; what was on its way
\* to the server may have arrived (Firestore even sends a pending write later).
Crash ==
    /\ stack # <<>> \/ requests # <<>>
    /\ \E arrived \in SUBSET Range(requests) :
          /\ accounts' = accounts \cup {r.user : r \in {q \in arrived : q.step = "create"}}
          /\ profiles' = profiles \cup {r.user : r \in {q \in arrived : q.step = "write"}}
    /\ stack' = <<>>
    /\ requests' = <<>>
    /\ overlapped' = FALSE
    /\ UNCHANGED <<sentTo, currentUser>>
-----------------------------------------------------------------------------
(***************************************************************************)
(* Signing in and registering.                                             *)
(***************************************************************************)
\* The inbox asks who is signed in when its view loads, at the push.
InboxOf(u) == [kind |-> "messages", me |-> u]

SignInAnswered(i) ==
    /\ requests[i].step = "signIn"
    /\ requests[i].user \in accounts
    /\ currentUser' = requests[i].user
    /\ PushFor(requests[i], InboxOf(currentUser'))
    /\ Drop(i)
    /\ UNCHANGED <<server, overlapped>>

\* createUser signs the new user in, and the upload of the picture starts.
AccountCreated(i) ==
    /\ requests[i].step = "create"
    /\ requests[i].user \notin accounts
    /\ accounts' = accounts \cup {requests[i].user}
    /\ currentUser' = requests[i].user
    /\ Continue(i, "upload")
    /\ UNCHANGED <<profiles, sentTo, stack, overlapped>>

PictureUploaded(i) ==
    /\ \/ requests[i].step = "upload" /\ Continue(i, "url")
       \/ requests[i].step = "url" /\ Continue(i, "write")
    /\ UNCHANGED <<server, currentUser, stack, overlapped>>

\* Mutant: the inbox does not wait for the document to be written.
ProfileWritten_PushesFirst(i) ==
    /\ requests[i].step = "write"
    /\ PushFor(requests[i], InboxOf(currentUser))
    /\ Drop(i)
    /\ UNCHANGED <<server, currentUser, overlapped>>

\* setData succeeded: the inbox opens.
ProfileWritten(i) ==
    /\ requests[i].step = "write"
    /\ profiles' = profiles \cup {requests[i].user}
    /\ PushFor(requests[i], InboxOf(currentUser))
    /\ Drop(i)
    /\ UNCHANGED <<accounts, sentTo, currentUser, overlapped>>

\* Each step of either form may fail, and that ends it; an account whose
\* answer was lost exists all the same.
SigningInFails(i) ==
    /\ requests[i].step \in SigningIn
    /\ accounts' \in {accounts, IF requests[i].step = "create"
                                THEN accounts \cup {requests[i].user} ELSE accounts}
    /\ Drop(i)
    /\ UNCHANGED <<profiles, sentTo, currentUser, stack, overlapped>>
-----------------------------------------------------------------------------
(***************************************************************************)
(* From the inbox to a chat.                                               *)
(***************************************************************************)
\* sendMessageClick of the inbox; UsersViewController then fetches the users.
ComposeClick ==
    /\ OnTop("messages")
    /\ Len(stack) < MaxDepth
    /\ Push([kind |-> "users", users |-> {}])
    /\ Len(requests) < MaxRequests
    /\ requests' = Append(requests, [step |-> "users", user |-> Nobody, me |-> Nobody,
                                     theirs |-> FALSE, owner |-> Len(stack')])
    /\ UNCHANGED <<server, currentUser, overlapped>>

\* Mutant: the list does not leave out the user who is signed in.
UsersFetched_WithMyself(i) ==
    /\ requests[i].step = "users"
    /\ stack' = IF requests[i].owner = 0 THEN stack
                ELSE [stack EXCEPT ![requests[i].owner].users = @ \cup profiles]
    /\ Drop(i)
    /\ UNCHANGED <<server, currentUser, overlapped>>

\* fetchUsers; a query that fails leaves the list empty.
UsersFetched(i) ==
    /\ requests[i].step = "users"
    /\ \/ stack' = IF requests[i].owner = 0 THEN stack
                   ELSE [stack EXCEPT ![requests[i].owner].users = @ \cup (profiles \ {currentUser})]
       \/ ReadsMayFail /\ UNCHANGED stack
    /\ Drop(i)
    /\ UNCHANGED <<server, currentUser, overlapped>>

\* didSelectRowAt of the inbox: a row for each person one has messages with.
SelectMessage(peer) ==
    /\ OnTop("messages")
    /\ LET me == Last(stack).me IN
       /\ <<me, peer>> \in sentTo \/ <<peer, me>> \in sentTo
       /\ Ask("peer", peer, me, FALSE)
    /\ UNCHANGED <<server, currentUser, stack, overlapped>>

\* didSelectRowAt of the users, who all have a picture.
SelectUser(peer) ==
    /\ OnTop("users")
    /\ peer \in Last(stack).users
    /\ Ask("mine", peer, currentUser, TRUE)
    /\ UNCHANGED <<server, currentUser, stack, overlapped>>

\* getUserData answered: no document, or no answer, is no picture.
PeerRead(i) ==
    /\ requests[i].step = "peer"
    /\ \E theirs \in {requests[i].user \in profiles, FALSE} :
          /\ ReadsMayFail \/ theirs = (requests[i].user \in profiles)
          /\ requests' = [requests EXCEPT ![i].step = "mine", ![i].theirs = theirs]
    /\ UNCHANGED <<server, currentUser, stack, overlapped>>

\* getProfileImageUrl answered, the group is notified and the chat is pushed.
MineRead(i) ==
    /\ requests[i].step = "mine"
    /\ \E mine \in {requests[i].me \in profiles, FALSE} :
          /\ ReadsMayFail \/ mine = (requests[i].me \in profiles)
          /\ PushFor(requests[i], [kind |-> "chat", me |-> currentUser, peer |-> requests[i].user,
                                   mine |-> mine, theirs |-> requests[i].theirs])
    /\ Drop(i)
    /\ UNCHANGED <<server, currentUser, overlapped>>

\* sendMessageClick of the chat: a message from whoever is signed in by now.
SendMessageClick ==
    /\ OnTop("chat")
    /\ currentUser # Nobody
    /\ sentTo' = sentTo \cup {<<currentUser, Last(stack).peer>>}
    /\ UNCHANGED <<accounts, profiles, currentUser, stack, requests, overlapped>>

\* Someone writes from another phone, having picked a person with a document.
OtherPhoneSends(from, to) ==
    /\ from \in accounts \ {currentUser} /\ to \in profiles \ {from}
    /\ sentTo' = sentTo \cup {<<from, to>>}
    /\ UNCHANGED <<accounts, profiles, currentUser, stack, requests, overlapped>>
-----------------------------------------------------------------------------
Answered(i) ==
    \/ SignInAnswered(i) \/ AccountCreated(i) \/ PictureUploaded(i) \/ ProfileWritten(i)
    \/ SigningInFails(i) \/ UsersFetched(i) \/ PeerRead(i) \/ MineRead(i)

SessionNext ==
    \/ \E kind \in {"login", "register"} : OpenForm(kind)
    \/ \E u \in Users : LoginButtonClick(u) \/ RegisterButtonClick(u)
    \/ Back \/ LogoutButtonClick \/ Crash
    \/ ComposeClick \/ SendMessageClick
    \/ \E peer \in Users : SelectMessage(peer) \/ SelectUser(peer)
    \/ \E from, to \in Users : OtherPhoneSends(from, to)
    \/ \E i \in DOMAIN requests : Answered(i)

SessionSpec == SessionInit /\ [][SessionNext]_sessionVars
-----------------------------------------------------------------------------
(***************************************************************************)
(* Properties.                                                             *)
(***************************************************************************)
\* Every variable has its type, and a request comes from the stack or from
\* a controller that is gone.
SessionTypeOK ==
    /\ accounts \subseteq Users /\ profiles \subseteq Users
    /\ sentTo \subseteq Users \X Users
    /\ currentUser \in Someone
    /\ stack \in Seq(Controller)
    /\ requests \in Seq(Request)
    /\ \A r \in Range(requests) : r.owner <= Len(stack)
    /\ overlapped \in BOOLEAN

\* Nobody is ever at the inbox, the users or a chat without being signed in:
\* no late answer opens them for a session that was logged out.
SignedInBehindTheDoor ==
    \A c \in Range(stack) : c.kind \in {"messages", "users", "chat"} => currentUser # Nobody

\* Whoever an inbox or a chat was opened for is who is signed in now, so that
\* what is shown and what is sent belong to one person, unless two sign-ins
\* were under way at once; and there is a single inbox.
OneIdentity ==
    ~overlapped =>
        /\ \A c \in Range(stack) : c.kind \in {"messages", "chat"} => c.me = currentUser
        /\ \A i, j \in DOMAIN stack :
              stack[i].kind = "messages" /\ stack[j].kind = "messages" => i = j

\* A chat is with somebody else, however late the list of users arrived, as
\* long as no race of sign-ins has sent anybody a message from themselves.
NoSelfChat ==
    ~overlapped /\ (\A u \in Users : <<u, u>> \notin sentTo) =>
        \A c \in Range(stack) : c.kind = "chat" => c.peer # c.me

\* A registration opens the inbox only once the user can be found by others:
\* the account and then the document exist.
FindableOnceInside ==
    [][\A u \in Users : stack # <<>> /\ Head(stack).kind = "register" /\ ~overlapped
          /\ Len(stack') > Len(stack) /\ Last(stack') = InboxOf(u)
             => u \in accounts' \cap profiles']_sessionVars

\* ChatViewController asserts with "currentUserProfileImageUrl!" and
\* "receiverProfileImageUrl!" that a chat with messages has both pictures.
PicturesAtHand ==
    \A c \in Range(stack) : c.kind = "chat" =>
        /\ <<c.me, c.peer>> \in sentTo => c.mine
        /\ <<c.peer, c.me>> \in sentTo => c.theirs
=============================================================================
