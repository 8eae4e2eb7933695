# Verification of ios-projects

TLA+ models of the apps in this repository and of the Firestore client that one
of them is built on, the TLC configurations that check them on small instances,
and TLAPS proofs of what matters most for every instance. Each app is a program
of its own; none talks to another. All of them are UIKit programs whose handlers
run one at a time on the main queue, and the Firestore client runs its handlers
one at a time on a worker queue. So an action of a model is one run of a
handler, of a callback or of a timer's closure, and the interesting behaviour
lies in what happens *between* two of them.

Contents: [the apps](#the-apps) · [modules](#the-modules) ·
[runs](#the-runs) · [bounds](#bounds-and-why-they-are-enough) ·
[fairness](#fairness) · [proofs](#what-is-proved) · [findings](#findings) ·
[limits](#what-is-not-modelled) · [plan](#plan)

To check: `tlc -config MCX_y.cfg MCX`, and `tlapm` on each module whose name
ends in `Proofs` or `Facts`.

## The apps

### TaskMaster: to-do lists on Core Data

*State.* The managed object context and the persistent store under it;
`tasks` and `tasksByDate` of the Tasks tab, its display mode; `completedTasks`
of the Completed tab; `DataManager.shared.tasksByDate`, which the Tasks tab
writes and the Calendar tab copies; the form's `editTask`; a user name in
`UserDefaults`.

*Operations.* Launch and welcome screen, tab changes, the grid's and the
Completed tab's checkboxes, adding and editing in a sheet, deletion by context
menu and by swipe, setting incomplete, clearing the completed tasks, search,
going to the background, being terminated or killed.

*Interactions.* Shared memory (the context, `DataManager.shared`), a delegate
(the form tells the Tasks tab), `viewDidAppear` (each tab reloads itself), and
`asyncAfter(0.1)` closures: a tap on a checkbox flips the flag at once and a
closure takes the row out and saves.

*Hard.* The closure runs after anything the user did meanwhile; `save()` and
`fetch()` may throw, which is printed and ignored; the process may be killed at
any moment; five views of the same tasks are kept level by hand.

*Correct when* an add, edit or delete the user saw survives; a deleted task
stays deleted; no tab shows a row that does not belong there; the list by dates
is exact; the calendar, which forces a shared optional, finds it set once any
fetch of the Tasks tab went through, and shows dates that are current.

### Budget-App: budgets and expenses on Core Data

*State.* The context and the store; the budgets table's list; the expense
screen's budget, list, drawn rows, "spent" label with its colour, pie chart.

*Operations.* Add and delete a budget, open it, add and delete an expense, go
back, lose the process.

*Interactions.* `DataManager.shared` is called with *row numbers*: it fetches
again and deletes the object at that index. Deleting a budget cascades.

*Hard.* An index into one list is used in a different fetch (other order, other
filter); a save that throws is fatal after a budget was deleted in memory;
failed fetches leave shorter lists.

*Correct when* what is shown is stored, no expense outlives its budget, a swipe
deletes what its row shows, and the label is red exactly over budget.

### ChatApp: messages on Firebase

*State.* In the cloud: accounts, the documents of `users` and `messages`. On
the phone: who is signed in, the navigation stack, requests in flight,
Firestore's cache and its snapshot listeners, the lists and tables of the inbox
and of the chat.

*Operations.* Log in, register (four remote calls in a row), log out, open the
list of users, open a chat (two look-ups, then a push), send.

*Interactions.* Requests answered later, in any order; listeners called on
every change; `DispatchQueue.main.async` reloads.

*Hard.* Answers that arrive after the user went elsewhere, or logged out;
registration stopping half way; listeners that pile up (one per message sent)
and all refill one list; listener errors; senders' clocks that disagree.

*Correct when* nobody is inside without being signed in, inbox, chat and
session are one person's, nobody chats with themselves, and the tables show exactly
what the phone knows, as long as the server does not refuse the inbox's query.

### The Firestore client under ChatApp

ChatApp asks Firestore for nearly everything it shows, and the client is in the
repository (`ChatApp/Pods/FirebaseFirestore/Firestore/core/src`). It is where the
hard concurrency is: two streams to the server, caches on disk, timers, changes
of user.

*State.* On disk: per user a queue of mutation batches, the cached documents,
the target with its keys and resume token. In memory: completions to call, the
write pipeline, the write stream and the watch stream (state, handshake or
answers due, idle and backoff timers), the aggregator of watch messages, the
view with its documents in limbo, the online state, the listener.

*Operations.* Write, wait for pending writes, listen, unlisten, enable and
disable the network, change the user, a change of connectivity, each message
and each timer of either stream, a crash and a restart.

*Interactions.* Every handler runs on one worker queue; streams answer in their
order until they end, and after that not at all.

*Hard.* An answer names no batch; credentials and messages asked for by a stream
come back when another is open; batch ids start over; a crash between telling
and forgetting; answers due that must be counted; documents whose deletion the
server never tells.

*Correct when* a write that is called done is done, writes keep their order,
nothing stalls, a result that claims to be the server's is, and every listener
hears of every change.

### Instagram-Clone: posts, likes, followers on Parse

*State.* Lists of users with a local `followings` flag each; four parallel lists
for the feed; `Following`, `Like` and `Post` objects on the server.
*Operations.* Sign up and log in, refresh users (a query, then one per user),
follow and unfollow, load the feed, like, post.
*Hard.* Fire-and-forget writes that race with the queries of the next tap or
refresh; refreshes that overlap; a check-then-create of likes.
*Correct when* flags agree with the server once everything is answered, and a
refresh ends when its last answer has come.

### Smaller apps

| App | State and operations | Hard part, and what makes it correct |
|---|---|---|
| Todo-List | to-dos as one value in `UserDefaults`; the list, an editor, an "add" tab | the list rewrites the whole value from memory: it must still be what is stored |
| Travel-List | places in `UserDefaults`; a map adds, a table deletes | a pin is added when a geocoder answers, while the table holds an older copy: no pin may be lost |
| Tic-Tac-Toe | two boards, the player to move | the last free cell may also win: the win is announced, though the board is emptied behind the alert |
| MealFinder | the recipes of the last search | overlapping searches; a list emptied without a reload |
| Bucket-List-Hotels | an array of hotels and a table snapshot | deletion changes only the snapshot |
| Timer-App | a counter, a timer, a flag | Reset clears the flag but leaves the timer running |
| Weather-App | labels filled by one answer | nothing is kept between two requests |
| Random-Image-Picker | one image | one handler |
| Core-Data | a sample of the Core Data stack | inserts and prints one object |
| Auto-Layout-Programmatically | the page shown | layout only |

Everything in this code that is hard to test is listed, at its line, under
`hazards` in `PROJECT.json`, with the properties that cover it.

## The modules

| Module | Models |
|---|---|
| `TaskBook` | what TaskMaster promises of its tasks: an abstract specification of durable adds, edits and deletes, with a completion flag that may run ahead of the disk |
| `TaskMaster` | the TaskMaster app; `TaskBookOf == INSTANCE TaskBook WITH live <- ctx, saved <- store` |
| `BudgetApp` | the Budget app |
| `BudgetAppProofs` | theorems about `BudgetApp` |
| `ChatSession` | ChatApp: session, navigation stack, requests |
| `ChatMessages` | ChatApp: messages, cache, listeners, main queue, tables |
| `ChatProofs` | theorems about `ChatMessages` and about `ChatSession` |
| `WriteLog` | what Firestore promises of writes: an abstract specification of a log per user, committed in order, settled from its front as accepted or as failed, and of the completions owed, which only the death of the process drops |
| `FirestoreWrites` | Firestore: mutation queues, completions, write pipeline, write stream; `Log == INSTANCE WriteLog WITH log <- ..., count <- ..., owed <- ..., refused <- ...` |
| `FirestoreWritesProofs` | theorems about the queues, the pipeline and the stream of `FirestoreWrites`, about what completions are told, and that it implements `WriteLog` |
| `FirestoreListen` | Firestore: caches, view, limbo, watch stream, aggregator, online state, listener |
| `FirestoreListenProofs` | theorems about the assertions and the counts of `FirestoreListen`, lemmas about its view, and about `FoldSet` |
| `FirestoreExactProofs` | what a view in sync rests on: facts about lists, targets and the log, and the steps in which the client calls, writes, connects, or reads of targets and documents |
| `FirestoreSyncedProofs` | the steps of refused targets, of snapshots and of the server, and the theorems that a view is the local store's and, in sync, what the server had |
| `Followers` | Instagram-Clone: the table of users |
| `TodoList`, `TravelList`, `TicTacToe` | the apps of these names |
| `Apps` | puts the last four side by side: a behaviour is about one of them |
| `AppsProofs` | theorems about `Apps` and about `TaskMaster` |
| `Lists` | sorting a set of numbers, and the elements of a list that match, for `BudgetApp` and `ChatMessages` |
| `ListFacts` | theorems about lists: places, duplicates, what `Ascending`, `Keep`, `Reverse` and `RemoveAt` return, induction; and about `FoldLeft` of any operator, the module's constant |
| `MC...` | small instances and symmetry sets for TLC |

`map` in `PROJECT.json` gives the lines every definition stands for.

### TaskMaster and the code

`ctx` is `viewContext` as the program sees it: a function from identities to
tasks or `Nil`. `store` is what is on disk. A list is the set of its rows
(order on the screen is left out, no list holds a task twice), a grouping the
relation between days and tasks (the code removes a key whose list is empty,
so nothing is lost). `screen` says what the user can touch; `deferred` is the
FIFO of closures of `asyncAfter`, all with the same delay. Two history
variables exist only for the properties: `unsaved` (the last save threw) and
`stale` (the lists whose last reload failed).

`Save`, `LoadTasks`, `RefreshData`, `ShareGroups`, `LoadCompleted` are the
helpers of the same names; the actions are the handlers. Points worth knowing:

- `FireTimer` does nothing, *not even save*, when its list no longer holds the
  task; a completion can stay in memory until another save or the background.
  `Durable` therefore leaves the flag out.
- Opening a context menu and choosing from it is one step: a long press lasts
  more than 0.1 s and the menu covers the rows, so the timers pending when it
  began have fired before the choice, and nothing else changes its task.
- The alert before `deleteCompletedTasks` is merged with its Yes.
- Rows whose task is deleted trap when drawn: that is `Crash`, which may happen
  at any moment, and loses what was not saved.
- `Search` takes the set of titles that contain the text.
- `TaskIds` is finite for TLC; a new object takes an identity nothing refers to
  (`Fresh`), so reuse stands for an unlimited supply.

### BudgetApp and the code

`ctx` and `store` hold budgets and expenses in the order they were made, which
is the order SQLite returns without a sort; `timestamp` grows, so "newest
first" is the reverse. `budgets`, `expenses` are the controllers' lists, `rows`
what the table has drawn, which differs once `deleteRows` and a refetch
disagree. `DeleteBudget(row)`, `DeleteExpense(row)` use the row as an index
into `Matching`, as `DataManager` does. A save that throws in `DataManager` is
`fatalError`: `GoDown`, except for the deletion of a budget, where the error is
caught and the deletion stays in memory (`unsaved`). An object just deleted may
or may not still give its amount: `spent'` ranges over both. `Crash` also stands
for the row whose budget is gone. `AppDelegate.saveContext` saves a container of
its own, not the one `DataManager` uses, so going to the background saves
nothing.

### ChatSession and the code

A controller is known by its position on the stack; a request carries the
position of its sender, or 0 once that was popped, since
`self.navigationController?` is then nil and its push does nothing. A request
moves through the steps of its handler (`create`, `upload`, `url`, `write` for a
registration; `peer`, `mine` for a chat) one answer at a time, and any step may
fail. `overlapped` remembers that two sign-ins were under way at once, which the
buttons allow.

### ChatMessages and the code

A message is its timestamp. `cloud` and `cached` say who knows it; `main` is the
main queue: calls of listeners with the result they carry, and reloads, which
read the list as it is *when they run*. `SendMessage` writes to the cache,
which calls every listener there is, and adds one more listener. `listening` holds
the queries that have listeners: the inbox's (as `Me`) and one for each person a chat
was opened with, which outlive the chat. `QueryEnds` is `EventManager::OnError`: the
server refuses a query, all its listeners are called with the error and are gone. The
chat's empties the list without a reload, and the next message sent listens anew; the
inbox's prints the error, and nothing ever listens for the inbox again. Listeners
of one phone see the same results in the same order. Jobs of a chat that was
closed touch nothing the user sees and are dropped.

What Firestore does for this app (`Synced`, `Accepted`, `Refused`,
`QueryEnds`) is modelled here only as far as the app can tell: latency
compensation (a write shows in the cache at once), refusal by rules, listener
termination. `FirestoreWrites` and `FirestoreListen` model how the client brings
that about.

### FirestoreWrites and the code

| Model | Code |
|---|---|
| `queue[u]` | `LevelDbMutationQueue` of user `u`: batches in the order of their ids |
| `nextId` | `next_batch_id_`; `NextBatchId` is `LoadNextBatchIdFromDb`, over *all* users |
| `callbacks`, `waiters` | `mutation_callbacks_`, `pending_writes_callbacks_` of `SyncEngine` |
| `remote.pipeline`, `.enabled` | `RemoteStore::write_pipeline_`, `is_network_enabled_` |
| `remote.stream`, `.handshake`, `.idle` | the state, handshake and idle timer of `WriteStream` |
| `remote.asked` | callbacks of `RequestCredentials` that have not come: "now" for this stream, "before" for one that was closed, which the close count tells apart |
| `remote.requests`, `.responses` | what is on its way on the open stream |

`Start`, `Stop`, `Close`, `Fill`, `Enable`, `Disable`, `RestartNetwork` are
functions of `remote`, named after the methods, because the handlers call each
other; an action is a whole handler. `WriteMutations`, `WaitForPendingWrites`,
`UserChanges`, `NetworkRestarts`, `EnableNetwork`, `DisableNetwork` are called by
the program or the system; `CredentialsArrive`, `HandshakeCompletes`,
`IdleTimeout`, `BackoffElapses`, `StreamFails`, `WriteAcknowledged`,
`WriteRefused` by streams and timers. `Restart` loses the memory.
`CrashInAcknowledgement` is a crash inside `HandleSuccessfulWrite`, which calls
the completion before the batch leaves the disk. `author`, `told`, `waited` and
`lives` (how often the process has started) are history for the properties. Points worth knowing:

- The server answers the requests of a stream once each and in order, and reads
  none of them after one it refused or after the stream was closed. It keeps one
  document per user, which each write overwrites.
- The server ends no stream with success while writes wait on it; a response
  that cannot be parsed is a `StreamFails`.
- A permanent error rejects the front of the pipeline. When a request could not
  be sent any more, `OnOperationFailed` drops the reads before the error, so that
  batch may be one the server committed: its completion is told "error" although
  the write took place. `ToldTheTruth` speaks of successes only.
- Ids of batches are used again once all queues are empty and the process or the
  user changed.

### FirestoreListen and the code

`client` is one record: the disk (`cache` with versions, `keys`, `token`, `savedFree`,
`lastSnap`, `writes`), the listener and its `view` (`synced` are
`synced_documents_`, `limbo` the documents in limbo; `leftOut` is what its query did not
take from the cache, `limboFree` the version of its last snapshot that was not from
the cache), `limbo` (the lookups of
`SyncEngine`), the watch stream with `listening` (`RemoteStore`'s targets), `agg`
(`TargetState` of the aggregator: answers due, changes, whether current),
`updates` and `resets` (its pending documents and targets to reset), and the
`OnlineStateTracker`. `broken` says that a `HARD_ASSERT` failed. The handlers are functions of this
record (`StartWatching`, `HandleFilter`, `RaiseWatchSnapshot`, `Emit`, ...)
composed as the code composes them. Points worth knowing:

- One query, which filters or orders by fields that never change, as ChatApp's do
  (`ChatViewController.swift:157-160`, `MessagesViewController.swift:104-105`): `Docs`
  are the documents that match it whenever they exist. Two targets of one document, a
  lookup and the query, are there.
- Such a query does not start from the whole cache
  (`QueryEngine::PerformQueryUsingRemoteKeys`). Once it has had a snapshot free of limbo, it takes
  the documents it had, those with pending writes, and those read since that
  snapshot: `LeftOut` is the rest, and stays out of the view until it changes. The
  limbo-free version is noted when a view gets or stays in sync with something to
  tell (`Notified`), saved the first time, when it is old (`late`) or with the
  target, and lost when the query starts over.
- A document's version stands for the time it was read, which the code compares: a
  snapshot of the query that is free of limbo has read whatever the server has by then,
  so none comes between the two.
- The server is a log; versions, snapshot versions and tokens are positions in
  it. It answers every request in order. `ServerTells` sends a consistent
  snapshot and has three ways to tell of a deleted document: by name, by saying
  it left the targets, or only by a count (an existence filter). A snapshot
  carries a token for every target, and one at a time is unread.
- The write pipeline is reduced to what the view can see of it (sent,
  acknowledged or refused in order, sent again when the stream is lost).
- A lookup takes an id that neither the client nor the server nor a message on
  its way uses, which stands for ids that grow.
- `Hasty` says whether a program listens again before the server has answered
  that the query was removed. The runs have `Hasty = FALSE`; see
  [findings](#findings).

### The small apps and the code

`Followers`: `requests` holds every query, save and delete under way; the server
carries each out at any time, in any order, or it fails; only answers that the
code acts upon come back. `following` starts with or without one object per user.
`disturbed` and `refused` remember what the code cannot know: that requests about
a user overlapped, that a query of a refresh failed. The refresher is stopped by the last answer about
a user, so with nobody to list it never is: `RefreshEnds` and its theorem say so
rather than assume that there is somebody. `TodoList`, `TravelList`: a
screen is its copy of the stored array and is written back whole. `TicTacToe`:
`Presented` says which alert is seen when two are presented in a row, and `Reset`
empties the board as `isBoardFull` does.

## The runs

| Run | Instance | Checks | States |
|---|---|---|---|
| `taskmaster_failures` | 1 task, 2 days, 2 timers, saves and fetches may throw, fair | `TypeOK`, `Durable`, `CalendarSound`, `NoResurrection`, `CheckedRowsLeave` | 389 k |
| `taskmaster_rows` | 2 tasks, 2 days, 2 timers, database works | `RowsMatch`, `ListExact`, `ImplementsTaskBook` | 1.0 M |
| `taskmaster_empty_grid` | | *violates* `EmptyMeansNone` | |
| `budget_rows` | 2 budgets, 3 expenses, amounts 0, 2, 3, all failures | `TypeOK`, `StoreSound`, `BudgetRowsMatch`, `OverBudgetExact` | 413 k |
| `budget_delete` | 1 budget, 2 expenses | *violates* `DeletesItsRow` | |
| `chat_session` | 2 users, 2 requests, stack of 4, all failures | `SessionTypeOK`, `SignedInBehindTheDoor`, `OneIdentity`, `NoSelfChat`, `FindableOnceInside` | 90 k |
| `chat_pictures` | 2 users, 1 request | *violates* `PicturesAtHand` | |
| `chat_messages` | 3 people, 2 messages, the user acts behind up to 3 jobs, failures | `TypeOK`, `TablesExact`, `NeverUnshown` | 526 k |
| `firestore_writes` | 2 users, 3 writes, pipeline of 2, 2 faults, fair | `TypeOK`, `PipelineIsFront`, `ToldTheTruth`, `WaitedForAll`, `StreamSound`, `NeverStalled`, `ImplementsWriteLog`, `EveryWriteSettles` | 203 k |
| `firestore_listen` | 2 documents, 2 versions, 2 listens, 1 fault, fair | `TypeOK`, `AssertionsHold`, `ViewIsLocal`, `SyncedIsExact`, `ChangesArrive`, `FirstEventComes` | 652 k |
| `firestore_ghost` | the same | *violates* `NotFromCache` | |
| `small_apps` | 2 people, 2 requests; 3 to-dos; 3 places; the whole board | `FollowingsTrue`, `RefreshEnds`, `TodosKept`, `PlacesKept`, `Decided` | 1.4 M |

What the passing runs show: `RowsMatch`, with its allowance for a row whose
timer is pending, says late timers never *leave* a wrong row. (They can *drop* a
right one: see `EmptyMeansNone`.) `OverBudgetExact` holds although rows and
stored expenses come apart, because the label is recomputed from the whole
fetch at the moments named. `SignedInBehindTheDoor` needs the weak
`navigationController?`; `OneIdentity` needs the inbox to have no back button
and fails without the proviso on overlapping sign-ins. `TablesExact` holds with
any number of piled-up listeners, because each refills the list from scratch.
`ToldTheTruth` holds
although a crash sends writes again: what is sent again is never older than a
write already told.
`ViewIsLocal` says what a listener may lack of its local store: not only what waits
for the stream, but also a document that was told removed under an own write, when the
write is then refused with nobody listening: the cache has the document, the next
listen leaves it out. It is right to, the server has deleted it.
`SyncedIsExact` holds across resumed tokens, filters and lookups because a view
is in sync only with nothing in limbo. `FollowingsTrue` needs its proviso: a tap
sets the flag before anybody is asked, and nothing compares the two until the
next refresh.

Deadlock is checked in every run but the two of `FirestoreListen`, where a client
that has used its listens, writes and faults up really has nothing to do. Every
property is also shown to fail when a plausible bug is put into one definition
(the operators commented "Mutant"); `PROJECT.json` pairs them.

## Bounds, and why they are enough

- `TaskIds`: rows interact only through list membership, so two tasks show every
  pairwise interleaving (a timer of one, a delete or refresh for the other).
  Failures are about one task against the disk: one task suffices and leaves
  room for all failures. `Titles` matters to `Search` alone; `Days` needs two
  for an edit to move a task.
- `MaxDeferred = 2`: two timers of one task (a double tap), or of two tasks or
  tabs.
- Budget: two budgets for a delete in front of another; three expenses so that a
  sorted and an unsorted list differ at more than one row; amount 0 for the
  filter `amount > 0`, 2 and 3 for totals below, at and above a budget.
- Chat session: two users for mixed identities; two requests for any race of two
  answers; a stack of four holds form, inbox, users, chat.
- Chat messages: three people so a conversation can be told from another; two
  messages are a group of two directions, or two groups. `MaxJobs` bounds only
  what the user and the environment add; jobs that jobs ask for always run.
- Firestore writes: a pipeline of two is full with a third write waiting; two
  users for ids that must not be shared and for queues left behind; two faults
  for a crash followed by another, or by a refusal, on what the first left.
  What these sizes cannot show is proved for every size.
- Firestore listen: two documents, of which one is written, deleted and written
  again, tell a document in limbo from one that is not; two versions for a
  deletion after a write; two listens for a target unlistened and resumed; one
  fault, which may be a restart, a lost stream, a reset, a refusal or a change of
  network.
- Small apps: two people with two requests at once are two overlapping refreshes,
  or a follow that crosses an unfollow; three rows so that a deletion in the
  middle differs from one at either end; Tic-Tac-Toe is checked whole.

## Fairness

- TaskMaster: `WF(FireTimer)`, `WF(Dismissed)`: the main queue runs due closures
  and UIKit ends an animation it has begun.
- FirestoreWrites: `WF(Progress)`, the disjunction of what the worker queue, a
  timer, the credentials' provider or the server has under way. It asks for less
  than fairness of each: *some* step comes.
- FirestoreListen: `WF(Progress)` likewise, of the watch stream, the server's
  answers and the online timer; `FairSpec` writes out when one of them is enabled
  (`CanProgress`), which TLC takes too long to compute. Writes need not arrive.

No user action, no crash and no failure is fair. `CheckedRowsLeave` allows
for a grid whose last fetch threw, which leaves the list as it was;
`EveryWriteSettles` and `ChangesArrive` allow for a network that is disabled.

## What is proved

`AppsProofs` proves of `TaskMaster`, for all `TaskIds`, `Titles`, `Days`, any number of
timers and (but for the last) any failures, that is from `NilAssumption`
(`Nil` is none of the other values), `FailureAssumption` (the two switches are
Booleans) and `BoundAssumption` only:

| Theorem | Property | Argument |
|---|---|---|
| `TypeCorrect` | `TypeOK` | inductive as it stands: the conjunct that a form edits a task that exists needs that nothing is deleted while the form is up, as the sheet covers the tabs |
| `DurableAlways` | `Durable` | inductive with `TypeOK`: every action that changes existence, title or date saves in the same step; a tap changes only the flag |
| `NoResurrectionAlways` | `NoResurrection` | needs `Durable`: going down with `~unsaved` loads a store that knows the same tasks |
| `ListExactAlways` | `ListExact` | inductive with `TypeOK`: in the list a task is only touched by actions that also regroup, and the timers touch `tasks`, not `groups` |
| `CalendarSoundAlways` | `CalendarSound`, that is `CalendarLoadable` and `CalendarDates` | not inductive alone; `CalendarInv` adds that there is neither list nor grouping before the tab bar is up, and `Unread` that `tasks` is `Nil` only as long as every fetch of the Tasks tab threw: the one case in which the Calendar traps |
| `RowsMatchAlways` | `RowsMatch` | inductive with `TypeOK`; the lemmas `InFlightAppend` and `InFlightTail` say what a tap adds to the timers and what a firing takes away |
| `TaskMasterIsATaskBook` | `ImplementsTaskBook` | assumes `~SaveMayFail`; each action is a `Put`, `Remove`, `Flip`, `Reopen`, `Sync`, `Lose` or a stutter |

Each proof that a step preserves an invariant has a step per action. Lemmas on
records and functions (`BookPut`, `BookDone`, `BookToggled`, `BookWithout`) and
on the shared helpers (`SaveType`, `RefreshType`, `GoDownType`...) are stated
once and cited.

`ChatProofs` proves every property that `chat_session` checks, for any
`Users`, any number of requests in flight and any depth of the stack, from
`NobodyAssumption` (`Nobody` is not a user), `ReadsAssumption` and
`DepthAssumption` only:

| Theorem | Property | Argument |
|---|---|---|
| `SessionTypeCorrect` | `SessionTypeOK` | `UsersFetched` fills in the list that asked, so `Shape` is needed: a form is at the bottom of the stack and nowhere else, and what a controller still on the stack asks for comes from a controller of the right kind |
| `SignedInAlways` | `SignedInBehindTheDoor` | `Session`: somebody is signed in above a form, and behind every registration that is past its first step and can still push. Logging out empties the stack and so takes the owner from every request |
| `OneIdentityAlways` | `OneIdentity` | `Alone`, for a state without a race of sign-ins: at most one is under way, and then nothing is above the form; the inbox is second and nowhere else, for who is signed in |
| `NoSelfChatAlways` | `NoSelfChat` | `Apart`, which follows the user's own name from the list of users to the request about a row to the chat; it needs `Alone` to know that the inbox and Auth agree, and `SentStays`, since a message from oneself would put oneself in the inbox |
| `FindableOnceInsideAlways` | `FindableOnceInside` | `Registering`: a registration past its first step has its account and, without a race, its user is the one signed in; a sign-in comes from the login form, so the inbox over the form for registering was opened by `ProfileWritten` |

`StackInv` (`StackType`, `Shape` and `Session`) is inductive together with
`ServerType`; the three others are each inductive relative to what is above them.
Lemmas on the stack (`SeqPush`, `SeqFront`), on the requests (`DropKeeps`,
`ContinueKeeps`, `OrphanedKeeps`, `AskAdds`) and on what an action does to both
(`PushStackInv`, `PopAlone`, `RequestsApart`, `KeptRegistering`...) are stated
once, so that the step of an action is a few lines.

`FirestoreWritesProofs` proves every safety property that
`firestore_writes` checks, and the refinement, for any `Users`, any length of
the pipeline, any number of writes and of faults, from `UsersAssumption`,
`PipelineAssumption` (the pipeline has room for one) and `BoundsAssumption`:

| Theorem | Property | Argument |
|---|---|---|
| `WorkInvAlways` | | the inductive invariant `WorkInv == QueueSound /\ Working(remote, queue[user])` |
| `PipelineIsFrontAlways`, `StreamSoundAlways`, `NeverStalledAlways` | `PipelineIsFront`, `StreamSound`, `NeverStalled` | follow from `WorkInv` |
| `TypesAlways` | `TypeOK` | `WorkInv` and the types of what it leaves out |
| `ToldTheTruthAlways` | `ToldTheTruth` | `AnswersHold`: what an answer on its way says is committed, and not overwritten by an older write; `Heeded`: a completion belongs to a batch still queued; `Truth`: after a success, whatever is queued for that user is later, so sending it again does no harm |
| `WaitedForAllAlways` | `WaitedForAll` | `WaitersSound`: the writes a completion waits for are committed, gone, or queued with an id up to its own; it is called when that id is the front's |
| `ImplementsWriteLogAlways` | `ImplementsWriteLog` | `KindsOfSteps` sorts the steps into six kinds: issuing, settling the front, dying after telling, committing, refusing, and the rest, which may drop refusals, or everything in memory with the process; each is a step of `WriteLog` or a stutter. `OwedFront`: the completion found by `NotifyUser` is the one the log owes, since every completion still held belongs to a batch of its user's queue (`Heeded`) and a write to one queue |

None of the three stream properties is inductive. `QueueSound` says that every
queue is sorted, numbered below `nextId` and its user's own. `Serving(r, q)` says
that the stream and pipeline `r` fit the queue `q`: the pipeline is a front of
`q`; the stream owes exactly the pipeline once it has shaken hands (`InFlight`),
exactly the handshake before; it has asked for credentials exactly when it is
starting. `Working` adds that there is nothing left to do: the pipeline holds
all it has room for, and if it holds anything the stream is started. Each
operation on `remote` has a lemma (`FillWorks`, `CloseIs`, `RestartWorks`,
`HandshakeWorks`, `AcknowledgedServes`, ...) saying that it keeps `Serving`, or
makes `Working` of it, so the step of a handler follows its calls. That
`NextBatchId` takes a greatest id needs that a bounded set of numbers has one
(`Greatest`), which is proved from the well-foundedness of strict subsets.

`ChatProofs` also proves every property that `chat_messages` checks, for any
`Others`, any number of messages, of listeners and of jobs on the main queue and
any failures, from `PeopleAssumption`, `NilAssumption`, `BoundsAssumption` and
`ServerAssumption`:

| Theorem | Property | Argument |
|---|---|---|
| `ChatTypes` | `TypeOK` | inductive with the fact that a result a call carries holds messages that were sent |
| `TablesAreExact` | `TablesExact` | `InboxInv` and `ChatInv` speak of the *last* call that waits: what it carries is what the phone knows now. `Calls` puts one call behind all others at every change, so the last is always new (for an inbox whose query is gone `Known` stands still instead); when none waits, the list is what the last one made of it; when no reload waits, the rows are the list |
| `NeverUnshownHolds` | `NeverUnshown` | `ShownInv`: what the table shows and the phone still knows is in the list and in every call that waits, and what one call brings is in the next. The results of an open chat only shrink when the cache does |

None of the tables is exact while something waits, so `TablesExact` alone says
nothing about the next step. That the inbox ends up with the newest message of
each pair (`LatestIs`) is a fact about the loop that groups the messages under
two possible keys, newest first. `PrefixGroups` says what the groups hold after
each message, for every number of them.

`BudgetAppProofs` proves every property that `budget_rows` checks, for any
budgets, expenses and amounts and any failures, from `AmountsAssumption` (no
amount is negative), `FailuresAssumption` and `NilAssumption`:

| Theorem | Property | Argument |
|---|---|---|
| `BudgetTypes` | `TypeOK` | inductive with the rest |
| `StoreIsSound` | `StoreSound` | `DataInv`: in the context and on disk budgets have identities of their own and every expense has its budget (`Good`). A cascade keeps that in the context, and a save copies it |
| `BudgetRowsAlwaysMatch` | `BudgetRowsMatch` | inductive: the table's list and the fetch lose the same place and gain the same end |
| `OverBudgetIsExact` | `OverBudgetExact` | `OpenInv`: the budget of the open table is one the context has, and its list *adds up to* what the context holds of it. `Agree`: of a budget the context has, disk and context hold the same expenses, so the label compares what is stored |

The list of an open budget may be in another order than the fetch, a new expense
being appended to what was sorted, and may hold more, one of amount 0 being
appended which the fetch leaves out. Only its total can be relied on, and only
while no fetch has failed, which `misread` records. `TotalOfConcat`,
`TotalOfReverse` and `TotalWithOneMore` say that a total does not depend on the
order.

`AppsProofs` also proves every property that `small_apps` checks, for any people,
objects, to-dos and places and any number of requests, from `PeopleAssumption`,
`TodosAssumption` and `PlacesAssumption`:

| Theorem | Property | Argument |
|---|---|---|
| `TodosAreKept` | `TodosKept` | inductive with the types |
| `PlacesAreKept` | `PlacesKept` | `TravelInv`: the list that is shown may lack only places that came too late for it, so writing it back loses no other |
| `FollowingsAreTrue` | `FollowingsTrue` | `FlagSound`: the flag of a user nobody disturbed is what the server *will* hold when the requests about that user are carried out. `Alone`: two requests about one user crossed, or delete what one query found |
| `RefreshesEnd` | `RefreshEnds` | `RefreshGoesOn`: a refresh that spins waits for the users, or for one flag per user that is missing, or was refused one, or has nobody to ask about |
| `GamesAreDecided` | `Decided` | `BoardInv`: a line is announced by the tap that makes it, so a line on the board is the line of the last alert |

A behaviour of `Apps` is about one app and leaves the others alone (`AppsInvStep`).

`FirestoreListenProofs`, `FirestoreExactProofs` and `FirestoreSyncedProofs` prove
every safety property that `firestore_listen` checks, for any documents and contents and any number of writes
and faults, from `DocsAssumption` (the documents are finitely many),
`ContentsAssumption`, `HastyAssumption` and `BoundsAssumption`:

| Theorem | Property | Argument |
|---|---|---|
| `ViewIsLocalHolds` | `ViewIsLocal` | `Ready`, under `~Hasty`: the view agrees with the local store but for what the query left out (`ViewLocal`), and that is gone (`Leaving`) |
| `AssertionsHoldAlways` | `AssertionsHold` | `Steady`, under `~Hasty`: `World`, and the books of `Sound` and `Fresher` |
| `TypeCorrect` | `TypeOK` | `Steady` and `Bounded`, under `~Hasty`: a count of answers due is at least what is on its way (`Counted`), and an answered lookup is one that was made (`LookedUp`) |
| `SyncedIsExactAlways` | `SyncedIsExact` | `Ready == Steady /\ Exact(log, client)`, under `~Hasty` |

*The view.* The property alone is not inductive: a handler takes the next change of the
view from what the aggregator, the lookups and the saved keys hold, so what these
may hold has to be known first. `Typed` gives a type to each of the client's
fields, and a handler is a chain of the code's functions; each function has a
lemma that it keeps the type and that it changes no fields but its own (`Only`),
or nothing that the view depends on (`Local`), and each action has a lemma
`...Shown` made of them. The documents of
a view change only in `Emit` and when a listener starts; what they become is what
the local store has then, but for documents whose write waits for the stream and those
that the query left out (`ComputedIsLocal`). That those are gone takes more: why the cache still has
a document that the query had not at its limbo-free version, without a pending
write, only the log explains. `Leaving` says of each that it is not shown, not
written and not among the keys, and that the log was without it at some version between
the cache's and the last snapshot's (`Gone`); it is kept because the versions of a query are in
order (`Dated`: limbo-free, then token, then last snapshot), and it holds when a
listener starts because the saved keys are what the query had at its token (`KeysAt`).

*The books.* Whether an assertion fails depends on what is still on its way. The
code asserts that a target that starts over is known and owed no answer, that a
target that is left was watched, that a lookup loses or changes only the document it brought, that a view
has what is said to be modified in it, that a snapshot is not older than the last,
that a stream closes gracefully only when it is not needed, and that the online
timer is not started twice. So the invariant relates the client to the two
channels of the stream. `Due` counts the answers about a
target that are unread and the requests that are unanswered; `Counted` says that
`outstanding` is at least that, `InOrder` that what is on its way about a watched
target ends with its addition. With both, a target the client calls active is
owed nothing (`NothingDue`), and an error is about a target that was asked for
last. `Blocked` and `Pressing` say that a filter is followed by its snapshot with
nothing answered in between, so that a query that has to start over is still the
one its filter counted (`Resetting`). `Gathers` says that an active target gathers
as modified or removed only documents it has. `Clock` ties the online timer to the
online state, `LookedUp` and `Linked` tie what is watched to the lookups and the
listener, and `Fresher` says that a snapshot on its way is not older than the last,
and alone. A step's proof takes the lists apart by places (`RequestAnswered`,
`OneMessageRead`, `BlocksRead`, ...), the functions of the code have a lemma each
(`...Runs`, `...Sound`), and so has each action (`...Solid`). Only
`Listen` needs `~Hasty`: a query that is added while its removal is unanswered
has a count its books do not explain.

*The view in sync.* `SyncedIsExact` compares what a user sees with the server's
log, which nothing in the client knows, so the invariant has to say at each
point of the way from one to the other what the log has there. `Exact` has these
parts.

- `Disk`: a document in the cache is what the log had at its version (`CacheTrue`),
  the saved keys are the documents that the query had at the version it would be
  resumed from, none of them older in the cache than it was then (`KeysAt`), and
  a write that is acknowledged is in the log at the version it was told (`SentOnes`).
- `Looking` and `Showing`: what the view takes for the server's documents are
  the saved keys; it shows of each document what the local store has, unless the
  document waits for the stream; and it is in sync only with nothing in limbo. So
  what it shows, without own writes, is what the query had at that version; the
  property leaves out the documents that the cache has newer.
- `Telltale`: what is on its way is true at the version of the snapshot behind it:
  documents, counts of filters, in the order in which the server tells them; and
  what the aggregator has heard of a document is true at that version.
- `Right`, of each target: what it held at the version it is resumed from (`Sees`);
  while the stream is open, that what it has gathered, with what is unread, comes
  to what the log has at the version of the snapshot on its way (`Brings`), or it
  starts over (`resets`); where the server has told up to (`Served`); that it is
  asked for once, and again only from the start (`Asking`); and that the server
  serves no target the client has forgotten (`Known`).

The hard part is what a snapshot finds (`FoundTargets`, `FoundTrue`): a target
that is current, is owed no answer and has no mismatch of a filter has just what
the log has, so the keys that are saved with its version are right
(`SnapshotKeys`); one whose filter did not count right starts over from nothing; a
lookup that is current and found nothing makes a deletion of its document, rightly
(`SynthesizedIs`). Until a filter is read its target may hold documents that the
log has no more, never too few; when it counts right they are the same
(`EvenCount`), and else the target starts over. On the server's side, `TellsIs`
says what is in the list that `ServerTells` sends, and `TellsBrings` that a target
which is resumed at a version gets what was written since. The steps of the
handlers follow their calls: `StartWatchingNet`, `StopWatchingNet`,
`TrackLimboExact`, `EmitExact`, and for each message `DocumentChangeExact`,
`TargetResetExact`, `ExistenceFilterExact`, `TargetRefusedExact`,
`WatchSnapshotExact` and the like. A write of another client lengthens the log and
changes nothing of its past (`ExactLater`). `~Hasty` is needed by `Listen` alone,
and there it is needed: with `Hasty` TLC finds a counterexample (see Findings).

*Sets folded.* The loops over changed documents, lookups and targets are
`FoldSet`s. The library defines it by a function over all subsets, in an order
nobody knows; `FoldExists` shows by induction on the size that there is such a
function, and `FoldKeeps` that what the base has and every step keeps, the result
has. Since a theorem cannot take the step as a parameter, `FoldStep` and
`FoldInv` list the steps of all the loops, and what is said of each, by name.

*Lists.* The prover cannot instantiate the library's induction theorems, whose
parameter is an operator. `ListInduction` in `ListFacts` takes a *set* of lengths
instead and rests on the well-foundedness of strict subsets, which the library
states with a set; so facts about lists of every length are proved after all.
`SelectSeq`, `SetToSortSeq` and the recursive operators of the library are out of
reach, so the models use `Ascending` and `Keep`, which are defined by places:
`KeepIs`, `KeepOfKeep`, `KeepAllButOne`, `ReverseAppend` and the like say what
they return. For any operator `op`, `FoldLeft` of the empty list is the base, and of a list
with one more element is one more step (`FoldedEmpty`, `FoldedAppend`); a proof module takes it with
`INSTANCE ListFacts WITH op <- ...`.

Only model-checked: `CheckedRowsLeave`, `EveryWriteSettles`, `ChangesArrive` and
`FirstEventComes`, since liveness under fairness is beyond the prover. Every
invariant and every action property that a passing run checks is a theorem.

## Findings

1. *A double tap hides a task* (`EmptyMeansNone`): two taps within 0.1 s leave
   the task unfinished, but the first closure removes its row.
2. *A swipe deletes another expense* (`DeletesItsRow`): the table is sorted,
   newest first, the fetch of the deletion is not.
3. *Opening a chat traps* (`PicturesAtHand`): a registration that stopped half
   way leaves a user without picture URL, which the chat forces.
4. *A deleted document is called up to date* (`NotFromCache`): a document written
   and acknowledged before the query's first snapshot keeps its local mark in the
   view; if somebody deletes it meanwhile, the view never doubts it.

With `Hasty = TRUE` TLC finds two more of this kind in `FirestoreListen`, which no
document speaks of and which the runs leave out: a mismatch of an existence
filter that is dropped when the query is unlistened and listened to again on the
same stream (`SyncedIsExact` fails), and the error of a target listened to again,
which erases the count of answers due (`ChangesArrive` fails). Also seen while
modelling, and not stated by the repository either way: clearing the completed
tasks after a search clears what was found only; a completed task set incomplete
is missing from the calendar until the Tasks tab regroups; the Calendar tab traps
while no fetch of the Tasks tab has gone through; the refresher of the table of
users spins for good when there is nobody to list; Timer-App's Reset leaves its
timer running, so that Start makes a second one.

## What is not modelled

- Layout, wording, colours (but the label's red), keyboards, validation of texts,
  the formatting of dates. The image picker, picture cache and cell reuse of
  ChatApp; sign-outs that Firebase Auth brings about by itself.
- Instagram-Clone beyond its table of users: likes are shown nowhere and their
  toggle treats all it finds alike; the feed appends one row per post that has
  everything, in one block.
- Timer-App, Bucket-List-Hotels, MealFinder, Weather-App, Random-Image-Picker,
  Core-Data, Auto-Layout-Programmatically: no state lives between two events of
  different origin, or what can go wrong takes one tap to see.
- In Firestore: transactions, aggregates, bundles, indexes, query limits, garbage
  collection of the cache, several listeners, more than a hundred lookups at a
  time, several clients on one disk, backoff times,
  serialisation; field transforms and preconditions of mutations.
- Other vendored code: gRPC, abseil, libuv, BoringSSL, LevelDB, Firebase Auth and
  Storage, Parse, Charts, FSCalendar and Core Data stand under the models as what
  their callers rely on. Together they are nearly all of the lines of the
  repository; they are other projects' code, mostly generated tables,
  cryptography and drawing.

## Plan

Done: TaskMaster, its abstract specification and its proofs; BudgetApp,
ChatSession, ChatMessages and the small apps with proofs of every safety property
that is checked of them; FirestoreWrites, its abstract specification and its
proofs; FirestoreListen and the proofs of every safety property that is checked of
it.

Next, from most to least valuable:

1. An abstract specification of what FirestoreListen promises a listener.
