------------------------------ MODULE TodoList ------------------------------
(***************************************************************************)
(* Todo-List: a list and an editor over one array in UserDefaults.  The two  *)
(* tabs keep a navigation stack each: the list, with perhaps an editor on    *)
(* top of it, and an editor for new to-dos that lives as long as the app.    *)
(* Every screen reads the array, changes its copy and writes it back whole.  *)
(***************************************************************************)
EXTENDS Integers, Sequences, SequencesExt

CONSTANTS Texts,      \* what can be typed, besides nothing
          Empty,      \* the empty text
          MaxTodos    \* bound on the to-dos ever made

ASSUME TodosAssumption == MaxTodos \in Nat

VARIABLES stored,     \* UserDefaults "todos"
          todos,      \* TodoListViewController::todos
          opened,     \* the editor on top of the list: <<>> or <<[todo, text]>>
          addText,    \* the text field of the "Add Todo" tab
          tab,
          made        \* history: the number of to-dos made

todoVars == <<stored, todos, opened, addText, tab, made>>

Todo == [id : 1..MaxTodos, title : Texts]

TodoInit ==
    /\ stored = <<>> /\ todos = <<>>
    /\ opened = <<>> /\ addText = Empty
    /\ tab = "Todos"
    /\ made = 0

ListShown == tab = "Todos" /\ opened = <<>>

\* Mutant: the list is loaded only when the app starts.
SelectTab_NoReload(t) ==
    /\ t # tab
    /\ tab' = t
    /\ UNCHANGED <<stored, todos, opened, addText, made>>

\* The tab bar.  viewWillAppear reaches the screen on top of the stack shown: the
\* list loads only if no editor covers it.
SelectTab(t) ==
    /\ t # tab
    /\ tab' = t
    /\ todos' = IF t = "Todos" /\ opened = <<>> THEN stored ELSE todos
    /\ UNCHANGED <<stored, opened, addText, made>>

\* didSelectRow.
OpenTodo(i) ==
    /\ ListShown
    /\ opened' = <<[todo |-> todos[i], text |-> todos[i].title]>>
    /\ UNCHANGED <<stored, todos, addText, tab, made>>

\* The back button: the list appears again.
Back ==
    /\ tab = "Todos" /\ opened # <<>>
    /\ opened' = <<>> /\ todos' = stored
    /\ UNCHANGED <<stored, addText, tab, made>>

Type(text) ==
    /\ IF tab = "Add" THEN addText' = text /\ UNCHANGED opened
       ELSE /\ opened # <<>>
            /\ opened' = <<[opened[1] EXCEPT !.text = text]>>
            /\ UNCHANGED addText
    /\ UNCHANGED <<stored, todos, tab, made>>

\* addTodo in the editor of a new to-do.
SaveNew ==
    /\ tab = "Add" /\ addText # Empty /\ made < MaxTodos
    /\ made' = made + 1
    /\ stored' = Append(stored, [id |-> made + 1, title |-> addText])
    /\ addText' = Empty
    /\ UNCHANGED <<todos, opened, tab>>

\* addTodo in the editor of an old one: a to-do that is not found is not saved.
SaveEdited ==
    /\ tab = "Todos" /\ opened # <<>> /\ opened[1].text # Empty
    /\ LET edited == [opened[1].todo EXCEPT !.title = opened[1].text]
       IN  stored' = [i \in DOMAIN stored |->
                         IF stored[i].id = edited.id THEN edited ELSE stored[i]]
    /\ opened' = <<[opened[1] EXCEPT !.text = Empty]>>
    /\ UNCHANGED <<todos, addText, tab, made>>

\* A swipe: the copy of the list, one row shorter, is what is saved.
Delete(i) ==
    /\ ListShown
    /\ todos' = RemoveAt(todos, i) /\ stored' = todos'
    /\ UNCHANGED <<opened, addText, tab, made>>

TodoRestart ==
    /\ todos' = stored
    /\ opened' = <<>> /\ addText' = Empty /\ tab' = "Todos"
    /\ UNCHANGED <<stored, made>>

TodoNext ==
    \/ \E t \in {"Todos", "Add"} : SelectTab(t)
    \/ \E i \in DOMAIN todos : OpenTodo(i) \/ Delete(i)
    \/ \E text \in Texts \cup {Empty} : Type(text)
    \/ Back \/ SaveNew \/ SaveEdited \/ TodoRestart

-----------------------------------------------------------------------------
(* Properties *)

\* The two tabs never overwrite each other's changes: the list that can be swiped
\* is the array that is saved, so a swipe writes away nothing but its row, and the
\* to-do under an editor is still saved, so its edit is found by addTodo, which
\* would drop it silently.
TodosKept ==
    /\ ListShown => todos = stored
    /\ opened # <<>> => \E i \in DOMAIN stored : stored[i].id = opened[1].todo.id
=============================================================================
