------------------------------ MODULE TaskBook ------------------------------
(***************************************************************************)
(* What TaskMaster promises about its tasks when the device can write its  *)
(* database: a task is added, edited or deleted durably, in one step.      *)
(* Only the completion flag may run ahead of the disk: a tap flips it in   *)
(* memory, and a later write brings the disk level.  Losing the process    *)
(* puts the book back to what the disk holds.                              *)
(***************************************************************************)
CONSTANTS TaskIds, Titles, Days, Nil

VARIABLES live,     \* the tasks the running program knows, Nil where none
          saved     \* the tasks on disk

Task == [title : Titles, due : Days, done : BOOLEAN]

Book == [TaskIds -> Task \cup {Nil}]

Init == live \in Book /\ saved = live

\* A durable change: whatever is still only in memory is written with it.
Write(book) == live' = book /\ saved' = book

Put(t) ==
    \E title \in Titles, due \in Days :
        \E done \in IF live[t] = Nil THEN {FALSE} ELSE {live[t].done} :
            Write([live EXCEPT ![t] = [title |-> title, due |-> due, done |-> done]])

Remove(gone) == Write([t \in TaskIds |-> IF t \in gone THEN Nil ELSE live[t]])

Flip(t) ==
    /\ live[t] # Nil
    /\ live' = [live EXCEPT ![t].done = ~live[t].done]
    /\ UNCHANGED saved

\* "Set it to incomplete" clears the flag and writes in the same step.
Reopen(t) ==
    /\ live[t] # Nil
    /\ Write([live EXCEPT ![t] = [title |-> live[t].title, due |-> live[t].due, done |-> FALSE]])

Sync == Write(live)

Lose == live' = saved /\ UNCHANGED saved

Next ==
    \/ Sync
    \/ Lose
    \/ \E t \in TaskIds : Flip(t) \/ Reopen(t) \/ Put(t)
    \/ \E gone \in SUBSET TaskIds : Remove(gone)

Spec == Init /\ [][Next]_<<live, saved>>
=============================================================================
