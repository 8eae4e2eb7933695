------------------------------ MODULE Followers ------------------------------
(***************************************************************************)
(* Instagram-Clone: the table of users with a check mark for those that are *)
(* followed (UserTableViewController) against the Following objects of the  *)
(* Parse server.  Every query, save and delete is a request of its own: the *)
(* server carries the requests out in any order or refuses them, and the     *)
(* answers that matter come to the main thread at some later time.          *)
(***************************************************************************)
EXTENDS Integers, FiniteSetsExt, Functions

CONSTANTS People,       \* the other users, in the order of the rows
          Nobody,
          MaxRequests,  \* bound on the requests under way when one is asked for
          MaxObjects    \* bound on the Following objects about one user

\* There may be nobody else, whom the refresher would then wait for.
ASSUME PeopleAssumption == Nobody \notin People

VARIABLES following,    \* server: per user the Following objects that name him
          followings,   \* UserTableViewController::followings
          listed,       \* usernames and objectIds are filled
          spinning,     \* the refresher
          requests,
          disturbed,    \* history: users whose requests overlapped or failed
          refused       \* history: a query failed since the refresher last stopped

followersVars == <<following, followings, listed, spinning, requests, disturbed, refused>>

Objects == 1..(2 * MaxObjects)

\* number tells equal requests apart; for a delete it is the object.  mixed: another
\* request about the same user was under way at the same time.
Request == [kind : {"users", "isFollowing", "save", "find", "delete"},
            about : People \cup {Nobody}, number : Objects, mixed : BOOLEAN,
            answered : BOOLEAN, found : SUBSET Objects]

About(u) == {r \in requests : r.about = u}

New(kind, u, number) ==
    [kind |-> kind, about |-> u, number |-> number, mixed |-> FALSE,
     answered |-> FALSE, found |-> {}]

Free(kind, u) ==
    CHOOSE n \in Objects : ~\E r \in requests : r.kind = kind /\ r.about = u /\ r.number = n

\* The requests new are sent while the request answered, if any, is done with.
Send(new, answered) ==
    LET crossed == {u \in People : /\ \E r \in new : r.about = u
                                   /\ About(u) \ answered # {}}
        Mixed(r) == [r EXCEPT !.mixed = @ \/ r.about \in crossed]
    IN  /\ requests' = {Mixed(r) : r \in (requests \ answered) \cup new}
        /\ disturbed' = disturbed \cup crossed

FollowersInit ==
    /\ following \in [People -> {{}, {1}}]
    /\ followings = <<>> /\ listed = FALSE
    /\ spinning = FALSE
    /\ requests = {New("users", Nobody, 1)}      \* viewDidLoad
    /\ disturbed = {} /\ refused = FALSE

-----------------------------------------------------------------------------
(* The user. *)

Quiet == Cardinality(requests) < MaxRequests

\* Pulling the table down: the refresher spins and calls refreshUserTable.
Refresh ==
    /\ Quiet /\ ~spinning
    /\ spinning' = TRUE
    /\ Send({New("users", Nobody, Free("users", Nobody))}, {})
    /\ UNCHANGED <<following, followings, listed, refused>>

\* didSelectRow without a check mark.
Follow(u) ==
    /\ Quiet /\ listed /\ u \in DOMAIN followings /\ ~followings[u]
    /\ Cardinality(following[u]) + Cardinality({r \in About(u) : r.kind = "save"}) < MaxObjects
    /\ followings' = [followings EXCEPT ![u] = TRUE]
    /\ Send({New("save", u, Free("save", u))}, {})
    /\ UNCHANGED <<following, listed, spinning, refused>>

\* didSelectRow with a check mark.
Unfollow(u) ==
    /\ Quiet /\ listed /\ u \in DOMAIN followings /\ followings[u]
    /\ followings' = [followings EXCEPT ![u] = FALSE]
    /\ Send({New("find", u, Free("find", u))}, {})
    /\ UNCHANGED <<following, listed, spinning, refused>>

\* Logging out and in again opens another table; the answers of the first one's
\* refreshes are not seen any more.
SignInAgain ==
    /\ Quiet
    /\ followings' = <<>> /\ listed' = FALSE
    /\ spinning' = FALSE /\ refused' = FALSE
    /\ requests' = {r \in requests : r.kind \notin {"users", "isFollowing"}}
                       \cup {New("users", Nobody, 1)}
    /\ UNCHANGED <<following, disturbed>>

-----------------------------------------------------------------------------
(* The server. *)

\* An object that no delete under way is about.
NewObject(u) == CHOOSE o \in Objects : o \notin following[u] /\ ~\E r \in About(u) :
                    o \in r.found \/ (r.kind = "delete" /\ r.number = o)

\* A query is carried out and its answer is on the way.
ServerFinds(r) ==
    /\ ~r.answered /\ r.kind \in {"users", "isFollowing", "find"}
    /\ requests' = (requests \ {r}) \cup
          {[r EXCEPT !.answered = TRUE,
                     !.found = IF r.kind = "users" THEN {} ELSE following[r.about]]}
    /\ UNCHANGED <<following, followings, listed, spinning, disturbed, refused>>

\* A save or a delete is carried out; the program does nothing with its answer.
ServerChanges(r) ==
    /\ r.kind \in {"save", "delete"}
    /\ following' = [following EXCEPT ![r.about] =
                        IF r.kind = "save" THEN @ \cup {NewObject(r.about)} ELSE @ \ {r.number}]
    /\ requests' = requests \ {r}
    /\ UNCHANGED <<followings, listed, spinning, disturbed, refused>>

\* A request that fails changes nothing; the blocks do nothing with an error.
RequestFails(r) ==
    LET query == r.kind \in {"users", "isFollowing"}
    IN  /\ ~r.answered
        /\ requests' = requests \ {r}
        /\ disturbed' = IF query THEN disturbed ELSE disturbed \cup {r.about}
        /\ refused' = (refused \/ query)
        /\ UNCHANGED <<following, followings, listed, spinning>>

-----------------------------------------------------------------------------
(* The answers on the main thread. *)

\* The answer of the outer query of refreshUserTable.
UsersArrive(r) ==
    /\ r.kind = "users" /\ r.answered
    /\ listed' = TRUE /\ followings' = <<>>
    /\ Send({New("isFollowing", u, Free("isFollowing", u)) : u \in People}, {r})
    /\ UNCHANGED <<following, spinning, refused>>

Flagged(r) ==
    [u \in DOMAIN followings \cup {r.about} |-> IF u = r.about THEN r.found # {} ELSE followings[u]]

\* Mutant: the refresher is stopped by the answer that finds all flags there before it.
FlagArrives_StopsLate(r) ==
    LET all == DOMAIN followings = People
    IN  /\ r.kind = "isFollowing" /\ r.answered
        /\ followings' = Flagged(r)
        /\ spinning' = (spinning /\ ~all)
        /\ refused' = (refused /\ ~all)
        /\ requests' = requests \ {r}
        /\ disturbed' = IF r.mixed THEN disturbed ELSE disturbed \ {r.about}
        /\ UNCHANGED <<following, listed>>

\* The answer of an inner query: when every user has a flag the table is reloaded.
FlagArrives(r) ==
    LET all == DOMAIN followings \cup {r.about} = People
    IN  /\ r.kind = "isFollowing" /\ r.answered
        /\ followings' = Flagged(r)
        /\ spinning' = (spinning /\ ~all)
        /\ refused' = (refused /\ ~all)
        /\ requests' = requests \ {r}
        /\ disturbed' = IF r.mixed THEN disturbed ELSE disturbed \ {r.about}
        /\ UNCHANGED <<following, listed>>

\* Mutant: only one of the objects found is deleted.
ObjectsFound_DeletesOne(r) ==
    /\ r.kind = "find" /\ r.answered
    /\ Send({New("delete", r.about, o) : o \in {x \in r.found : \A y \in r.found : x <= y}}, {r})
    /\ UNCHANGED <<following, followings, listed, spinning, refused>>

\* The query of an unfollow is answered: every object found is deleted.
ObjectsFound(r) ==
    /\ r.kind = "find" /\ r.answered
    /\ Send({New("delete", r.about, o) : o \in r.found}, {r})
    /\ UNCHANGED <<following, followings, listed, spinning, refused>>

FollowersNext ==
    \/ Refresh \/ SignInAgain
    \/ \E u \in People : Follow(u) \/ Unfollow(u)
    \/ \E r \in requests :
          \/ ServerFinds(r) \/ ServerChanges(r) \/ RequestFails(r)
          \/ UsersArrive(r) \/ FlagArrives(r) \/ ObjectsFound(r)

-----------------------------------------------------------------------------
(* Properties *)

\* The flag of a user about whom nothing is under way is what the server holds,
\* unless requests about him overlapped or failed and no refresh has asked since
\* (followings is set at the tap, before the server is asked).
FollowingsTrue ==
    \A u \in DOMAIN followings :
        About(u) = {} /\ u \notin disturbed => (followings[u] <=> following[u] # {})

\* The refresher spins as long as queries of a refresh are under way and no longer,
\* unless one of them failed or there is nobody to list: then nothing stops it.
\* (refreshUserTable compares two counts to find out that the last answer has come,
\* answers of two refreshes may be mixed, and with no user no answer comes.)
RefreshEnds ==
    spinning /\ ~(\E r \in requests : r.kind \in {"users", "isFollowing"})
        => refused \/ People = {}
=============================================================================
