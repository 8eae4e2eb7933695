----------------------------- MODULE TaskMaster -----------------------------
(***************************************************************************)
(* The TaskMaster app: the Core Data context and its store, the lists the  *)
(* Tasks and Completed tabs keep of it, the grouping by due date that      *)
(* DataManager shares with the Calendar tab, the form that adds and edits, *)
(* and the 0.1 s timers behind the checkboxes.  All of it runs on the main *)
(* queue, so an action is one run of a handler or of a timer's closure.    *)
(*                                                                         *)
(* A list is the set of its rows: no list holds a task twice, and the code *)
(* turns every row it is given back into its task at once.  A grouping is  *)
(* the relation between dates and tasks, so a date without tasks has no    *)
(* key, which is what the code's removeValue(forKey:) keeps true.          *)
(***************************************************************************)
EXTENDS Naturals, Sequences

CONSTANTS TaskIds,        \* identities of managed objects
          Titles,         \* non-empty texts of at most 30 characters
          Days,           \* days a due date can fall on
          Nil,            \* Swift's nil, and a task that does not exist
          SaveMayFail,    \* may context.save() throw?
          FetchMayFail,   \* may context.fetch() throw?
          MaxDeferred     \* bound on the timers in flight

Task == [title : Titles, due : Days, done : BOOLEAN]

ASSUME NilAssumption ==
    /\ Nil \notin Task
    /\ Nil \notin TaskIds
    /\ \A rows \in SUBSET TaskIds : Nil # rows
    /\ \A pairs \in SUBSET (Days \X TaskIds) : Nil # pairs

ASSUME FailureAssumption == SaveMayFail \in BOOLEAN /\ FetchMayFail \in BOOLEAN

ASSUME BoundAssumption == MaxDeferred \in Nat

VARIABLES ctx,           \* viewContext: the tasks as the program sees them
          store,         \* the tasks in the persistent store
          tasks,         \* TaskViewController.tasks
          groups,        \* TaskViewController.tasksByDate
          mode,          \* TaskViewController.displayMode
          completed,     \* CompletedTasksViewController.completedTasks
          shared,        \* DataManager.shared.tasksByDate
          calendar,      \* CalendarViewController.tasksByDate
          selectedDate,  \* CalendarViewController.selectedDate
          screen,        \* what the user can touch
          editTask,      \* AddTaskViewController.editTask
          userName,      \* has a user name been stored in UserDefaults?
          deferred,      \* asyncAfter closures not yet run, in order
          unsaved,       \* history: the last save threw
          stale          \* history: lists whose last reload did not happen

data == <<ctx, store, unsaved>>
lists == <<tasks, groups, shared, completed, stale>>
ui == <<mode, calendar, selectedDate, screen, editTask, userName>>
vars == <<ctx, store, tasks, groups, mode, completed, shared, calendar,
          selectedDate, screen, editTask, userName, deferred, unsaved, stale>>

Tabs == {"tasks", "completed", "calendar"}
Screens == Tabs \cup {"down", "welcome", "form", "dismissing"}

Book == [TaskIds -> Task \cup {Nil}]
Grouping == SUBSET (Days \X TaskIds)
Timer == {"tasks", "completed"} \X TaskIds

Live(c) == {t \in TaskIds : c[t] # Nil}
Incomplete(c) == {t \in Live(c) : ~c[t].done}
Complete(c) == {t \in Live(c) : c[t].done}
Rows(list) == IF list = Nil THEN {} ELSE list

\* groupTasksByDate; an object deleted from the context has lost its date.
Dated(c, rows) == {<<c[t].due, t>> : t \in rows \cap Live(c)}

Without(c, gone) == [t \in TaskIds |-> IF t \in gone THEN Nil ELSE c[t]]

WithDone(c, t, done) == [c EXCEPT ![t] = [title |-> c[t].title, due |-> c[t].due, done |-> done]]

Toggled(c, t) == WithDone(c, t, ~c[t].done)
-----------------------------------------------------------------------------
(***************************************************************************)
(* Saving and loading.  Every save writes all of the context; one that     *)
(* throws is printed and leaves the changes in memory.  A fetch sees       *)
(* unsaved changes; one that throws leaves the list as it was.             *)
(***************************************************************************)
\* saveTasks, and the save of deleteCompletedTasks.
Save(c) ==
    /\ ctx' = c
    /\ \/ store' = c /\ unsaved' = FALSE
       \/ SaveMayFail /\ unsaved' = TRUE /\ UNCHANGED store

\* TaskViewController.loadTasks; "fed" is what its caller fills from the rows.
LoadTasks(c, fed) ==
    \/ tasks' = Incomplete(c) /\ stale' = stale \ fed
    \/ FetchMayFail /\ stale' = stale \cup fed /\ UNCHANGED tasks

\* "if let tasks = tasks { DataManager.shared.groupTasksByDate(tasks: tasks) }"
ShareGroups(c) == shared' = IF tasks' = Nil THEN shared ELSE Dated(c, tasks')

\* TaskViewController.refreshData.
RefreshData(c) ==
    /\ LoadTasks(c, {"tasks", "groups"})
    /\ groups' = Dated(c, Rows(tasks'))
    /\ ShareGroups(c)

\* CompletedTasksViewController.loadTasks; a search narrows the rows.
LoadCompleted(c, rows) ==
    \/ completed' = rows \cap Complete(c) /\ stale' = stale \ {"completed"}
    \/ FetchMayFail /\ stale' = stale \cup {"completed"} /\ UNCHANGED completed
-----------------------------------------------------------------------------
Init ==
    /\ ctx \in [TaskIds -> {Nil}]
    /\ store = ctx
    /\ tasks = Nil
    /\ groups = {}
    /\ mode = "collection"
    /\ completed = Nil
    /\ shared = Nil
    /\ calendar = Nil
    /\ selectedDate \in Days
    /\ screen = "down"
    /\ editTask = Nil
    /\ userName = FALSE
    /\ deferred = <<>>
    /\ unsaved = FALSE
    /\ stale = {}

(***************************************************************************)
(* The life of the process.                                                *)
(***************************************************************************)
\* The tab bar appears with the Tasks tab in front, which refreshes itself.
ShowTabBar ==
    /\ screen' = "tasks"
    /\ selectedDate' \in Days
    /\ RefreshData(ctx)
    /\ UNCHANGED <<data, mode, completed, calendar, editTask, deferred>>

Launch ==
    /\ screen = "down"
    /\ \/ userName /\ ShowTabBar /\ UNCHANGED userName
       \/ /\ ~userName
          /\ screen' = "welcome"
          /\ UNCHANGED <<data, lists, mode, calendar, selectedDate, editTask, userName, deferred>>

SaveUserNameAndNavigate ==
    /\ screen = "welcome"
    /\ userName' = TRUE
    /\ ShowTabBar

\* The process is gone: what it held in memory is what a new one starts with.
GoDown(disk) ==
    /\ store' = disk
    /\ ctx' = disk
    /\ tasks' = Nil /\ groups' = {} /\ completed' = Nil /\ shared' = Nil /\ calendar' = Nil
    /\ mode' = "collection"
    /\ screen' = "down"
    /\ editTask' = Nil
    /\ deferred' = <<>>
    /\ unsaved' = FALSE
    /\ stale' = {}
    /\ UNCHANGED <<selectedDate, userName>>

\* Killed, or trapped (a nil that is forced, a row that outlived its task).
Crash == screen # "down" /\ GoDown(store)

\* applicationWillTerminate saves first; saveContext traps when that throws.
Terminate ==
    /\ screen # "down"
    /\ \/ GoDown(ctx)
       \/ SaveMayFail /\ GoDown(store)

\* Mutant: a save that throws in the background rolls the context back.
EnterBackground_RollsBack ==
    /\ screen # "down"
    /\ ctx # store
    /\ \/ store' = ctx /\ unsaved' = FALSE /\ UNCHANGED ctx
       \/ SaveMayFail /\ ctx' = store /\ UNCHANGED <<store, unsaved>>
    /\ UNCHANGED <<lists, ui, deferred>>

\* sceneDidEnterBackground saves what has changed, or traps.
EnterBackground ==
    /\ screen # "down"
    /\ ctx # store
    /\ \/ /\ store' = ctx
          /\ unsaved' = FALSE
          /\ UNCHANGED <<ctx, lists, ui, deferred>>
       \/ SaveMayFail /\ GoDown(store)
-----------------------------------------------------------------------------
(***************************************************************************)
(* Moving between the tabs.  Each tab reloads when it appears.             *)
(***************************************************************************)
OpenTasks ==
    /\ screen \in Tabs \ {"tasks"}
    /\ screen' = "tasks"
    /\ RefreshData(ctx)
    /\ UNCHANGED <<data, mode, completed, calendar, selectedDate, editTask, userName, deferred>>

\* super.viewDidAppear ends in the overridden loadTasks; this controller's
\* own tasks stay nil, so nothing is regrouped.
OpenCompleted ==
    /\ screen \in Tabs \ {"completed"}
    /\ screen' = "completed"
    /\ LoadCompleted(ctx, TaskIds)
    /\ UNCHANGED <<data, tasks, groups, shared, mode, calendar, selectedDate, editTask, userName, deferred>>

\* reloadData forces the shared grouping, and traps when it is nil.
OpenCalendar ==
    /\ screen \in Tabs \ {"calendar"}
    /\ \/ /\ shared # Nil
          /\ screen' = "calendar"
          /\ calendar' = shared
          /\ UNCHANGED <<data, lists, mode, selectedDate, editTask, userName, deferred>>
       \/ shared = Nil /\ GoDown(store)

\* calendar(_:didSelect:at:).  The rows shown are those of the new date.
SelectDate(d) ==
    /\ screen = "calendar"
    /\ selectedDate' = d
    /\ UNCHANGED <<data, lists, mode, calendar, screen, editTask, userName, deferred>>

\* CalendarViewController.selectedTasks; nil there is no row here.
SelectedTasks == {t \in TaskIds : <<selectedDate, t>> \in Rows(calendar)}

\* Mutant: the segmented control only swaps the views.
ViewTypeChanged_NoRefresh ==
    /\ screen = "tasks"
    /\ mode' = IF mode = "collection" THEN "list" ELSE "collection"
    /\ UNCHANGED <<data, lists, calendar, selectedDate, screen, editTask, userName, deferred>>

ViewTypeChanged ==
    /\ screen = "tasks"
    /\ mode' = IF mode = "collection" THEN "list" ELSE "collection"
    /\ RefreshData(ctx)
    /\ UNCHANGED <<data, completed, calendar, selectedDate, screen, editTask, userName, deferred>>
-----------------------------------------------------------------------------
(***************************************************************************)
(* The checkboxes: the flag flips now, the row goes 0.1 s later.           *)
(***************************************************************************)
Tap(list, t) ==
    /\ ctx[t] # Nil
    /\ Len(deferred) < MaxDeferred
    /\ ctx' = Toggled(ctx, t)
    /\ deferred' = Append(deferred, <<list, t>>)
    /\ UNCHANGED <<store, unsaved, lists, ui>>

\* TaskViewController.toggleCheckbox; only the grid has checkboxes.
ToggleTask(t) ==
    /\ screen = "tasks" /\ mode = "collection"
    /\ t \in Rows(tasks)
    /\ Tap("tasks", t)

\* CompletedTasksViewController.toggleCheckbox.
ToggleCompleted(t) ==
    /\ screen = "completed"
    /\ t \in Rows(completed)
    /\ Tap("completed", t)

\* Mutant: the closure saves but leaves the row of the grid.
FireTimer_LeavesRow ==
    /\ deferred # <<>>
    /\ deferred' = Tail(deferred)
    /\ Save(ctx)
    /\ UNCHANGED <<lists, ui>>

\* The closure of either toggleCheckbox: if its list still holds the task,
\* take it out and save; otherwise nothing, and no save either.
FireTimer ==
    /\ deferred # <<>>
    /\ deferred' = Tail(deferred)
    /\ LET t == Head(deferred)[2] IN
       \/ /\ Head(deferred)[1] = "tasks"
          /\ t \in Rows(tasks)
          /\ tasks' = tasks \ {t}
          /\ Save(ctx)
          /\ UNCHANGED <<groups, shared, completed, stale, ui>>
       \/ /\ Head(deferred)[1] = "completed"
          /\ t \in Rows(completed)
          /\ completed' = completed \ {t}
          /\ Save(ctx)
          /\ UNCHANGED <<tasks, groups, shared, stale, ui>>
       \/ /\ t \notin Rows(IF Head(deferred)[1] = "tasks" THEN tasks ELSE completed)
          /\ UNCHANGED <<data, lists, ui>>
-----------------------------------------------------------------------------
(***************************************************************************)
(* The form, a sheet over the Tasks tab.                                   *)
(***************************************************************************)
Present(t) ==
    /\ screen' = "form"
    /\ editTask' = t
    /\ UNCHANGED <<data, lists, mode, calendar, selectedDate, userName, deferred>>

AddTask == screen = "tasks" /\ Present(Nil)

\* The grid's context menu.
MenuEdit(t) ==
    /\ screen = "tasks" /\ mode = "collection"
    /\ t \in Rows(tasks) \cap Live(ctx)
    /\ Present(t)

\* The list's swipe action takes its task from the grouping.
Listed == {t \in TaskIds : \E d \in Days : <<d, t>> \in groups}

SwipeEdit(t) ==
    /\ screen = "tasks" /\ mode = "list"
    /\ t \in Listed \cap Live(ctx)
    /\ Present(t)

\* A new managed object is none that anything still refers to.
Fresh(t) ==
    /\ ctx[t] = Nil /\ store[t] = Nil
    /\ t \notin Rows(tasks) \cup Rows(completed)
    /\ \A d \in Days : <<d, t>> \notin groups \cup Rows(shared) \cup Rows(calendar)
    /\ \A i \in DOMAIN deferred : deferred[i][2] # t

\* saveTask with didEditTask or didAddTask, and the start of the dismissal.
SaveTask(title, due) ==
    /\ screen = "form"
    /\ \/ /\ editTask # Nil
          /\ Save([ctx EXCEPT ![editTask] = [title |-> title, due |-> due, done |-> ctx[editTask].done]])
          /\ UNCHANGED tasks
       \/ /\ editTask = Nil
          /\ \E t \in TaskIds :
                /\ Fresh(t)
                /\ Save([ctx EXCEPT ![t] = [title |-> title, due |-> due, done |-> FALSE]])
                /\ tasks' = IF tasks = Nil THEN Nil ELSE tasks \cup {t}
    /\ screen' = "dismissing"
    /\ editTask' = Nil
    /\ UNCHANGED <<groups, shared, completed, stale, mode, calendar, selectedDate, userName, deferred>>

\* Mutant: a form put away keeps the task it was editing.
CancelForm_KeepsTask ==
    /\ screen = "form"
    /\ screen' = "dismissing"
    /\ UNCHANGED <<data, lists, mode, calendar, selectedDate, editTask, userName, deferred>>

\* The sheet is dragged down or its background tapped.
CancelForm ==
    /\ screen = "form"
    /\ screen' = "dismissing"
    /\ editTask' = Nil
    /\ UNCHANGED <<data, lists, mode, calendar, selectedDate, userName, deferred>>

\* Mutant: the Tasks tab is not told that the sheet is gone.
Dismissed_NoRefresh ==
    /\ screen = "dismissing"
    /\ screen' = "tasks"
    /\ UNCHANGED <<data, lists, mode, calendar, selectedDate, editTask, userName, deferred>>

\* The sheet is gone: the Tasks tab gets viewDidAppear.
Dismissed ==
    /\ screen = "dismissing"
    /\ screen' = "tasks"
    /\ RefreshData(ctx)
    /\ UNCHANGED <<data, mode, completed, calendar, selectedDate, editTask, userName, deferred>>
-----------------------------------------------------------------------------
(***************************************************************************)
(* Deleting, and the Completed tab.                                        *)
(***************************************************************************)
\* Mutant: the deletion is not saved.
MenuDelete_NoSave(t) ==
    /\ screen = "tasks" /\ mode = "collection"
    /\ t \in Rows(tasks) \cap Live(ctx)
    /\ groups' = groups \ {<<ctx[t].due, t>>}
    /\ tasks' = tasks \ {t}
    /\ ctx' = Without(ctx, {t})
    /\ ShareGroups(Without(ctx, {t}))
    /\ UNCHANGED <<store, unsaved, completed, stale, ui, deferred>>

\* createDeleteAction of the grid.
MenuDelete(t) ==
    /\ screen = "tasks" /\ mode = "collection"
    /\ t \in Rows(tasks) \cap Live(ctx)
    /\ groups' = groups \ {<<ctx[t].due, t>>}
    /\ tasks' = tasks \ {t}
    /\ Save(Without(ctx, {t}))
    /\ ShareGroups(Without(ctx, {t}))
    /\ UNCHANGED <<completed, stale, ui, deferred>>

\* The delete action of the list: the row leaves the section it is shown in.
SwipeDelete(d, t) ==
    /\ screen = "tasks" /\ mode = "list"
    /\ <<d, t>> \in groups
    /\ t \in Live(ctx)
    /\ groups' = groups \ {<<d, t>>}
    /\ Save(Without(ctx, {t}))
    /\ LoadTasks(Without(ctx, {t}), {"tasks"})
    /\ ShareGroups(Without(ctx, {t}))
    /\ UNCHANGED <<completed, ui, deferred>>

\* createEditAction of the Completed tab: "Set it to incomplete".
SetIncomplete(t) ==
    /\ screen = "completed"
    /\ t \in Rows(completed) \cap Live(ctx)
    /\ Save(WithDone(ctx, t, FALSE))
    /\ completed' = completed \ {t}
    /\ UNCHANGED <<tasks, groups, shared, stale, ui, deferred>>

\* createDeleteAction of the Completed tab.
DeleteOne(t) ==
    /\ screen = "completed"
    /\ t \in Rows(completed) \cap Live(ctx)
    /\ Save(Without(ctx, {t}))
    /\ completed' = completed \ {t}
    /\ UNCHANGED <<tasks, groups, shared, stale, ui, deferred>>

\* deleteCompletedTasks, run by the alert's Yes; the tap that shows the alert
\* changes nothing.  Only a save that succeeds reloads the list.
DeleteCompletedTasks ==
    /\ screen = "completed"
    /\ completed # Nil
    /\ Save(Without(ctx, completed))
    /\ IF unsaved' THEN UNCHANGED completed /\ stale' = stale \cup {"completed"}
       ELSE LoadCompleted(ctx', TaskIds)
    /\ UNCHANGED <<tasks, groups, shared, ui, deferred>>

\* searchBarSearchButtonClicked: a text is known by the titles that contain it.
Search(titles) ==
    /\ screen = "completed"
    /\ LoadCompleted(ctx, {t \in Live(ctx) : ctx[t].title \in titles})
    /\ UNCHANGED <<data, tasks, groups, shared, ui, deferred>>

\* textDidChange, once the search text is empty.
ClearSearch ==
    /\ screen = "completed"
    /\ LoadCompleted(ctx, TaskIds)
    /\ UNCHANGED <<data, tasks, groups, shared, ui, deferred>>
-----------------------------------------------------------------------------
ProcessStep == Launch \/ SaveUserNameAndNavigate \/ Crash \/ Terminate \/ EnterBackground

TabStep ==
    \/ OpenTasks \/ OpenCompleted \/ OpenCalendar \/ ViewTypeChanged
    \/ \E d \in Days : SelectDate(d)

CheckboxStep == \E t \in TaskIds : ToggleTask(t) \/ ToggleCompleted(t)

FormStep ==
    \/ AddTask \/ CancelForm \/ Dismissed
    \/ \E t \in TaskIds : MenuEdit(t) \/ SwipeEdit(t)
    \/ \E title \in Titles, due \in Days : SaveTask(title, due)

DeleteStep ==
    \/ \E t \in TaskIds : MenuDelete(t) \/ SetIncomplete(t) \/ DeleteOne(t)
    \/ \E d \in Days, t \in TaskIds : SwipeDelete(d, t)
    \/ DeleteCompletedTasks

SearchStep == ClearSearch \/ \E titles \in SUBSET Titles : Search(titles)

Next ==
    \/ ProcessStep
    \/ TabStep
    \/ CheckboxStep
    \/ FireTimer
    \/ FormStep
    \/ DeleteStep
    \/ SearchStep

Spec == Init /\ [][Next]_vars

\* The main queue runs its timers and ends its animations; a user owes nothing.
FairSpec == Spec /\ WF_vars(FireTimer) /\ WF_vars(Dismissed)
-----------------------------------------------------------------------------
(***************************************************************************)
(* Properties.                                                             *)
(***************************************************************************)
\* Every variable has its type, and a form edits a task that exists.
TypeOK ==
    /\ ctx \in Book /\ store \in Book
    /\ tasks \in (SUBSET TaskIds) \cup {Nil}
    /\ completed \in (SUBSET TaskIds) \cup {Nil}
    /\ groups \in Grouping
    /\ shared \in Grouping \cup {Nil}
    /\ calendar \in Grouping \cup {Nil}
    /\ mode \in {"collection", "list"}
    /\ selectedDate \in Days
    /\ screen \in Screens
    /\ editTask \in TaskIds \cup {Nil}
    /\ editTask # Nil => screen = "form" /\ ctx[editTask] # Nil
    /\ userName \in BOOLEAN
    /\ deferred \in Seq(Timer)
    /\ unsaved \in BOOLEAN
    /\ stale \in SUBSET {"tasks", "groups", "completed"}

\* As long as the last save went through, memory and disk hold the same
\* tasks with the same titles and dates: an add, an edit or a delete that
\* the user has seen survives losing the process.  Only the completion flag,
\* which a checkbox flips before anything is saved, may be ahead of the disk.
Durable ==
    ~unsaved => \A t \in TaskIds :
        /\ ctx[t] = Nil <=> store[t] = Nil
        /\ ctx[t] # Nil => /\ ctx[t].title = store[t].title
                           /\ ctx[t].due = store[t].due

InFlight(timers, list, t) == \E i \in DOMAIN timers : timers[i] = <<list, t>>

\* The tab in front shows no task that is gone or that belongs to the other
\* tab, unless its reload failed or the row's 0.1 s timer is still to come:
\* a flip made elsewhere, a delete or a late timer never leaves a wrong row.
RowsMatch ==
    /\ screen = "tasks" /\ "tasks" \notin stale =>
         \A t \in Rows(tasks) : t \in Incomplete(ctx) \/ InFlight(deferred, "tasks", t)
    /\ screen = "completed" /\ "completed" \notin stale =>
         \A t \in Rows(completed) : t \in Complete(ctx) \/ InFlight(deferred, "completed", t)

\* The list by dates shows every task still to do, under its own date, and
\* nothing else, whatever timers of the grid fire behind it.
ListExact ==
    screen = "tasks" /\ mode = "list" /\ "groups" \notin stale =>
        groups = Dated(ctx, Incomplete(ctx))

\* OpenCalendar forces the shared grouping and loses the process when it is
\* nil.  While the app is up that is so exactly as long as the Tasks tab never
\* got a list, which takes a first fetch that threw and none since that went
\* through: a later fetch that throws, a delete or a form never brings it back.
CalendarLoadable ==
    screen \notin {"down", "welcome"} =>
        /\ shared = Nil <=> tasks = Nil
        /\ shared = Nil => "tasks" \in stale

\* The calendar shows a task that still exists on its own due date: an edit
\* cannot reach the Calendar tab without a regrouping on the way.
CalendarDates ==
    screen \in Tabs => \A d \in Days, t \in Live(ctx) :
        /\ <<d, t>> \in Rows(shared) => d = ctx[t].due
        /\ screen = "calendar" /\ <<d, t>> \in Rows(calendar) => d = ctx[t].due

\* Whichever fetches and saves threw before, the Calendar tab traps only after
\* the Tasks tab's fetches have all thrown, and shows no task that still exists
\* under a date it no longer has.  (It may lack one set back to incomplete.)
CalendarSound == CalendarLoadable /\ CalendarDates

\* A task comes into being only by the form, and one that was deleted comes
\* back only when the process is lost after a save that threw.
NoResurrection ==
    [][\A t \in TaskIds : ctx[t] = Nil /\ ctx'[t] # Nil =>
          \/ screen = "form" /\ editTask = Nil
          \/ screen' = "down" /\ unsaved]_vars

\* A checked row of the grid leaves it, unless the user unchecks it or goes
\* elsewhere, or the grid still shows what was there when its last fetch threw.
CheckedRowsLeave ==
    \A t \in TaskIds :
        (screen = "tasks" /\ t \in Rows(tasks) \cap Complete(ctx))
            ~> \/ screen # "tasks" \/ t \notin Rows(tasks) \cap Complete(ctx)
               \/ "tasks" \in stale

\* The tasks of the app are a TaskBook when every save goes through.
TaskBookOf == INSTANCE TaskBook WITH live <- ctx, saved <- store
ImplementsTaskBook == TaskBookOf!Spec

(***************************************************************************)
(* What the app says of itself and does not keep.                          *)
(***************************************************************************)
\* The grid says "You don't have any tasks yet!" when its list is empty.
EmptyMeansNone ==
    screen = "tasks" /\ mode = "collection" /\ tasks = {} /\ stale = {} =>
        Incomplete(ctx) = {}
=============================================================================
