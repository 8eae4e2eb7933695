------------------------------ MODULE AppsProofs ------------------------------
(***************************************************************************)
(* What holds of the small apps for any users, texts, numbers of to-dos,    *)
(* places and requests.  Each app is proved on its own variables; Apps then *)
(* leaves them alone while another app runs.                               *)
(***************************************************************************)
EXTENDS Apps, TaskMaster, ListFacts

-----------------------------------------------------------------------------
(***************************************************************************)
(* Todo-List.                                                              *)
(***************************************************************************)
TodoTypes ==
    /\ stored \in Seq(Todo) /\ todos \in Seq(Todo)
    /\ opened = <<>> \/ \E edit \in [todo : Todo, text : Texts \cup {Empty}] : opened = <<edit>>
    /\ addText \in Texts \cup {Empty}
    /\ made \in Nat

TodoInv == TodoTypes /\ TodosKept

LEMMA TodoInvInit == TodoInit => TodoInv
BY DEF TodoInit, TodoInv, TodoTypes, TodosKept, ListShown

LEMMA TodoInvStep == TodoInv /\ [TodoNext]_todoVars => TodoInv'
<1> SUFFICES ASSUME TodoInv, [TodoNext]_todoVars
             PROVE  TodoInv'
  OBVIOUS
<1> USE DEF TodoInv
<1>1. ASSUME NEW t \in {"Todos", "Add"}, SelectTab(t)
      PROVE  TodoInv'
  BY <1>1 DEF SelectTab, TodoTypes, TodosKept, ListShown
<1>2. ASSUME NEW i \in DOMAIN todos, OpenTodo(i)
      PROVE  TodoInv'
  <2> DEFINE edit == [todo |-> todos[i], text |-> todos[i].title]
  <2>1. todos[i] \in Todo /\ todos = stored
    BY <1>2 DEF TodoTypes, TodosKept, OpenTodo
  <2>2. edit \in [todo : Todo, text : Texts \cup {Empty}] /\ edit.todo = todos[i]
    BY <2>1 DEF Todo
  <2>3. opened' = <<edit>> /\ UNCHANGED <<stored, todos, addText, tab, made>>
    BY <1>2 DEF OpenTodo
  <2> HIDE DEF edit
  <2>4. opened'[1] = edit /\ opened' # <<>>
    BY <2>3
  <2>5. TodoTypes'
    BY <2>2, <2>3 DEF TodoTypes
  <2> QED
    BY <2>1, <2>2, <2>3, <2>4, <2>5 DEF TodosKept, ListShown
<1>3. ASSUME Back
      PROVE  TodoInv'
  BY <1>3 DEF Back, TodoTypes, TodosKept, ListShown
<1>4. ASSUME NEW text \in Texts \cup {Empty}, Type(text)
      PROVE  TodoInv'
  <2>1. CASE tab = "Add"
    BY <1>4, <2>1 DEF Type, TodoTypes, TodosKept, ListShown
  <2>2. CASE tab # "Add"
    <3>1. PICK edit \in [todo : Todo, text : Texts \cup {Empty}] : opened = <<edit>>
      BY <1>4, <2>2 DEF Type, TodoTypes
    <3> DEFINE new == [edit EXCEPT !.text = text]
    <3>2. new \in [todo : Todo, text : Texts \cup {Empty}] /\ new.todo = edit.todo
      OBVIOUS
    <3>3. opened' = <<new>> /\ UNCHANGED <<stored, todos, addText, tab, made>>
      BY <1>4, <2>2, <3>1 DEF Type
    <3> HIDE DEF new
    <3>4. opened[1] = edit /\ opened'[1] = new /\ opened # <<>> /\ opened' # <<>>
      BY <3>1, <3>3
    <3>5. TodoTypes'
      BY <3>2, <3>3 DEF TodoTypes
    <3> QED
      BY <3>2, <3>3, <3>4, <3>5 DEF TodosKept, ListShown
  <2> QED
    BY <2>1, <2>2
<1>5. ASSUME SaveNew
      PROVE  TodoInv'
  <2> DEFINE todo == [id |-> made + 1, title |-> addText]
  <2>1. todo \in Todo
    BY <1>5, TodosAssumption DEF SaveNew, Todo, TodoTypes
  <2>2. stored' = Append(stored, todo) /\ UNCHANGED <<todos, opened, tab>>
        /\ made' = made + 1 /\ addText' = Empty /\ tab = "Add"
    BY <1>5 DEF SaveNew
  <2> HIDE DEF todo
  <2>3. /\ stored' \in Seq(Todo) /\ DOMAIN stored \subseteq DOMAIN stored'
        /\ \A i \in DOMAIN stored : stored'[i] = stored[i]
    BY <2>1, <2>2 DEF TodoTypes
  <2>4. TodoTypes'
    BY <2>2, <2>3 DEF TodoTypes
  <2> QED
    BY <2>2, <2>3, <2>4 DEF TodosKept, ListShown
<1>6. ASSUME SaveEdited
      PROVE  TodoInv'
  <2>1. PICK edit \in [todo : Todo, text : Texts \cup {Empty}] : opened = <<edit>>
    BY <1>6 DEF SaveEdited, TodoTypes
  <2>2. opened[1] = edit /\ opened # <<>>
    BY <2>1
  <2> DEFINE edited == [edit.todo EXCEPT !.title = edit.text]
             new == [edit EXCEPT !.text = Empty]
  <2>3. edit.text \in Texts
    BY <1>6, <2>2 DEF SaveEdited
  <2>4. edited \in Todo /\ edited.id = edit.todo.id
    BY <2>3 DEF Todo
  <2>5. new \in [todo : Todo, text : Texts \cup {Empty}] /\ new.todo = edit.todo
    OBVIOUS
  <2>6. /\ stored' = [i \in DOMAIN stored |-> IF stored[i].id = edited.id THEN edited ELSE stored[i]]
        /\ opened' = <<new>>
        /\ UNCHANGED <<todos, addText, tab, made>>
    BY <1>6, <2>2 DEF SaveEdited
  <2> HIDE DEF edited, new
  <2>7. /\ DOMAIN stored = 1 .. Len(stored) /\ Len(stored) \in Nat
        /\ \A i \in DOMAIN stored : stored[i] \in Todo
    BY ListIs DEF TodoTypes
  <2>8. stored' \in [1 .. Len(stored) -> Todo]
    BY <2>4, <2>6, <2>7
  <2>9. stored' \in Seq(Todo) /\ DOMAIN stored' = DOMAIN stored
    BY <2>7, <2>8, ListOf
  <2>10. \A i \in DOMAIN stored : stored[i].id = edit.todo.id => stored'[i].id = edit.todo.id
    BY <2>4, <2>6
  <2>11. opened'[1] = new /\ opened' # <<>>
    BY <2>6
  <2>12. TodoTypes'
    BY <2>5, <2>6, <2>9 DEF TodoTypes
  <2> QED
    BY <2>2, <2>5, <2>6, <2>9, <2>10, <2>11, <2>12 DEF TodosKept, ListShown
<1>7. ASSUME NEW i \in DOMAIN todos, Delete(i)
      PROVE  TodoInv'
  <2>1. i \in 1 .. Len(todos) /\ todos \in Seq(Todo)
    BY DEF TodoTypes
  <2>2. RemoveAt(todos, i) \in Seq(Todo)
    BY <2>1, RemoveAtIs
  <2> QED
    BY <1>7, <2>2 DEF Delete, TodoTypes, TodosKept, ListShown
<1>8. ASSUME TodoRestart
      PROVE  TodoInv'
  BY <1>8 DEF TodoRestart, TodoTypes, TodosKept, ListShown
<1>9. ASSUME UNCHANGED todoVars
      PROVE  TodoInv'
  BY <1>9 DEF todoVars, TodoTypes, TodosKept, ListShown
<1> QED
  BY <1>1, <1>2, <1>3, <1>4, <1>5, <1>6, <1>7, <1>8, <1>9 DEF TodoNext

-----------------------------------------------------------------------------
(***************************************************************************)
(* Travel-List.                                                            *)
(***************************************************************************)
NoneTwice(list) == \A i, j \in DOMAIN list : list[i] = list[j] => i = j

TravelTypes ==
    /\ savedPlaces \in Seq(Nat) /\ places \in Seq(Nat)
    /\ presses \in Nat
    /\ geocoding \subseteq 1 .. presses /\ found \subseteq 1 .. presses
    /\ removed \subseteq found

\* The list that is shown may lack places, but only those that came too late for it.
TravelInv ==
    /\ TravelTypes
    /\ geocoding \cap found = {}
    /\ NoneTwice(savedPlaces)
    /\ ToSet(savedPlaces) \subseteq found \ removed
    /\ found \ late \subseteq ToSet(savedPlaces) \cup removed
    /\ ~onMap => /\ NoneTwice(places)
                 /\ ToSet(places) \subseteq ToSet(savedPlaces)
                 /\ found \ late \subseteq ToSet(places) \cup removed

LEMMA TravelInvInit == TravelInit => TravelInv
BY DEF TravelInit, TravelInv, TravelTypes, NoneTwice, ToSet

\* A place found is appended.
LEMMA PlaceFound ==
    ASSUME TravelInv, NEW p \in geocoding, Geocoded(p)
    PROVE  TravelInv'
<1> USE DEF TravelInv
<1>1. savedPlaces \in Seq(Nat) /\ p \in Nat /\ p \in 1 .. presses
  BY DEF TravelTypes
<1> DEFINE n == Len(savedPlaces)
<1>2. n \in Nat /\ DOMAIN savedPlaces = 1 .. n
  BY <1>1, ListIs
<1>3. /\ savedPlaces' = Append(savedPlaces, p)
      /\ geocoding' = geocoding \ {p}
      /\ found' = found \cup {p}
      /\ late' = IF onMap THEN late ELSE late \cup {p}
      /\ UNCHANGED <<places, onMap, presses, removed>>
  BY DEF Geocoded
<1>4. /\ savedPlaces' \in Seq(Nat)
      /\ DOMAIN savedPlaces' = 1 .. (n + 1)
      /\ \A i \in 1 .. n : savedPlaces'[i] = savedPlaces[i]
      /\ savedPlaces'[n + 1] = p
  BY <1>1, <1>2, <1>3, AppendIs, ListIs
<1> HIDE DEF n
<1>5. \A i \in 1 .. (n + 1) : i \in 1 .. n \/ i = n + 1
  BY <1>2
<1>6. ToSet(savedPlaces') = ToSet(savedPlaces) \cup {p}
  <2>1. ToSet(savedPlaces') \subseteq ToSet(savedPlaces) \cup {p}
    BY <1>2, <1>4, <1>5 DEF ToSet
  <2>2. ToSet(savedPlaces) \subseteq ToSet(savedPlaces')
    <3>1. \A i \in 1 .. n : i \in 1 .. (n + 1)
      BY <1>2
    <3> QED
      BY <3>1, <1>2, <1>4 DEF ToSet
  <2>3. p \in ToSet(savedPlaces')
    <3>1. n + 1 \in 1 .. (n + 1)
      BY <1>2
    <3> QED
      BY <3>1, <1>4 DEF ToSet
  <2> QED
    BY <2>1, <2>2, <2>3
<1>7. p \notin found /\ p \notin ToSet(savedPlaces)
  OBVIOUS
<1>8. \A i \in 1 .. n : savedPlaces[i] # p
  BY <1>2, <1>7 DEF ToSet
<1>9. NoneTwice(savedPlaces')
  BY <1>2, <1>4, <1>5, <1>8 DEF NoneTwice
<1>10. TravelTypes'
  BY <1>1, <1>3, <1>4 DEF TravelTypes
<1>11. p \notin removed
  BY <1>7 DEF TravelTypes
<1>12. (~onMap => /\ NoneTwice(places)
                  /\ ToSet(places) \subseteq ToSet(savedPlaces)
                  /\ found \ late \subseteq ToSet(places) \cup removed)'
  BY <1>3, <1>6
<1> QED
  BY <1>3, <1>6, <1>7, <1>9, <1>10, <1>11, <1>12

\* A swipe removes one place and no other.
LEMMA PlaceRemoved ==
    ASSUME TravelInv, NEW i \in DOMAIN places, DeletePlace(i)
    PROVE  TravelInv'
<1> USE DEF TravelInv
<1> DEFINE n == Len(places)
           rest == RemoveAt(places, i)
<1>1. places \in Seq(Nat) /\ n \in Nat /\ DOMAIN places = 1 .. n /\ i \in 1 .. n
  BY ListIs DEF TravelTypes
<1>2. /\ ~onMap /\ places' = rest /\ savedPlaces' = rest
      /\ removed' = removed \cup {places[i]}
      /\ UNCHANGED <<onMap, geocoding, presses, found, late>>
  BY DEF DeletePlace
<1>3. /\ rest \in Seq(Nat)
      /\ Len(rest) = n - 1
      /\ \A j \in 1 .. (n - 1) : rest[j] = IF j < i THEN places[j] ELSE places[j + 1]
  BY <1>1, RemoveAtIs
<1> HIDE DEF rest
<1>4. DOMAIN rest = 1 .. (n - 1)
  BY <1>3, ListIs
<1> HIDE DEF n
<1> DEFINE from(j) == IF j < i THEN j ELSE j + 1
<1>5. \A j \in 1 .. (n - 1) : from(j) \in 1 .. n /\ from(j) # i /\ rest[j] = places[from(j)]
  BY <1>1, <1>3
<1>6. \A j, k \in 1 .. (n - 1) : from(j) = from(k) => j = k
  BY <1>1
<1>7. \A m \in 1 .. n : m # i => \E j \in 1 .. (n - 1) : from(j) = m
  <2> TAKE m \in 1 .. n
  <2> HAVE m # i
  <2>1. CASE m < i
    <3>1. m \in 1 .. (n - 1) /\ from(m) = m
      BY <2>1, <1>1
    <3> QED
      BY <3>1
  <2>2. CASE m > i
    <3>1. m - 1 \in 1 .. (n - 1) /\ from(m - 1) = m
      BY <2>2, <1>1
    <3> QED
      BY <3>1
  <2> QED
    BY <2>1, <2>2, <1>1
<1> HIDE DEF from
<1>8. NoneTwice(rest)
  BY <1>1, <1>2, <1>4, <1>5, <1>6 DEF NoneTwice
<1>9. ToSet(rest) = ToSet(places) \ {places[i]}
  <2>1. \A x \in ToSet(rest) : x \in ToSet(places) /\ x # places[i]
    BY <1>1, <1>2, <1>4, <1>5 DEF ToSet, NoneTwice
  <2>2. ASSUME NEW x \in ToSet(places), x # places[i]
        PROVE  x \in ToSet(rest)
    <3>1. PICK m \in 1 .. n : places[m] = x
      BY <1>1 DEF ToSet
    <3>2. PICK j \in 1 .. (n - 1) : from(j) = m
      BY <2>2, <3>1, <1>7
    <3> QED
      BY <3>1, <3>2, <1>4, <1>5 DEF ToSet
  <2> QED
    BY <2>1, <2>2
<1>10. places[i] \in ToSet(places)
  BY <1>1 DEF ToSet
<1>11. TravelTypes'
  BY <1>2, <1>3, <1>10 DEF TravelTypes
<1> QED
  BY <1>2, <1>8, <1>9, <1>10, <1>11

LEMMA TravelInvStep == TravelInv /\ [TravelNext]_travelVars => TravelInv'
<1> SUFFICES ASSUME TravelInv, [TravelNext]_travelVars
             PROVE  TravelInv'
  OBVIOUS
<1>1. ASSUME OpenMap
      PROVE  TravelInv'
  BY <1>1 DEF OpenMap, TravelInv, TravelTypes
<1>2. ASSUME LongPress
      PROVE  TravelInv'
  <2>1. presses \in Nat /\ presses + 1 \notin found
    BY DEF TravelInv, TravelTypes
  <2> QED
    BY <1>2, <2>1 DEF LongPress, TravelInv, TravelTypes
<1>3. ASSUME NEW p \in geocoding, NotGeocoded(p)
      PROVE  TravelInv'
  BY <1>3 DEF NotGeocoded, TravelInv, TravelTypes
<1>4. ASSUME BackToList
      PROVE  TravelInv'
  BY <1>4 DEF BackToList, TravelInv, TravelTypes
<1>5. ASSUME TravelRestart
      PROVE  TravelInv'
  BY <1>5 DEF TravelRestart, TravelInv, TravelTypes
<1>6. ASSUME UNCHANGED travelVars
      PROVE  TravelInv'
  BY <1>6 DEF travelVars, TravelInv, TravelTypes
<1> QED
  BY <1>1, <1>2, <1>3, <1>4, <1>5, <1>6, PlaceFound, PlaceRemoved DEF TravelNext

\* A list that holds nothing twice has as many elements as it has places.
LEMMA NoneTwiceCounts ==
    ASSUME NEW E, NEW list \in Seq(E), NoneTwice(list)
    PROVE  Cardinality(ToSet(list)) = Len(list)
<1> DEFINE n == Len(list)
<1>1. n \in Nat /\ DOMAIN list = 1 .. n /\ list = [i \in 1 .. n |-> list[i]]
  BY ListIs
<1>2. list \in [1 .. n -> ToSet(list)]
  BY <1>1 DEF ToSet
<1>3. list \in Bijection(1 .. n, ToSet(list))
  BY <1>1, <1>2 DEF Bijection, Injection, IsInjective, Surjection, NoneTwice, ToSet
<1>4. ExistsBijection(1 .. n, ToSet(list))
  BY <1>3 DEF ExistsBijection
<1> QED
  BY <1>1, <1>4, FS_CountingElements

LEMMA TravelInvImplies == TravelInv => PlacesKept
<1> SUFFICES ASSUME TravelInv
             PROVE  PlacesKept
  OBVIOUS
<1>1. Cardinality(ToSet(savedPlaces)) = Len(savedPlaces)
  BY NoneTwiceCounts DEF TravelInv, TravelTypes
<1> QED
  BY <1>1 DEF TravelInv, PlacesKept

-----------------------------------------------------------------------------
(***************************************************************************)
(* Tic-Tac-Toe.                                                            *)
(***************************************************************************)
\* A line is announced as soon as it is there.
BoardInv ==
    /\ playerX \subseteq Cells /\ playerO \subseteq Cells /\ enabled \subseteq Cells
    /\ currPlayer \in {"X", "O"}
    /\ InLine(playerX) => alert = "X"
    /\ InLine(playerO) => alert = "O"

\* The eight combinations of the code are the lines of the magic square.
LEMMA CombinationsAreLines ==
    ASSUME NEW cells \in SUBSET Cells
    PROVE  checkWinner(cells) <=> InLine(cells)
<1>1. /\ Magic[0] = 2 /\ Magic[1] = 7 /\ Magic[2] = 6
      /\ Magic[3] = 9 /\ Magic[4] = 5 /\ Magic[5] = 1
      /\ Magic[6] = 4 /\ Magic[7] = 3 /\ Magic[8] = 8
  BY DEF Magic, Cells
<1>2. ASSUME checkWinner(cells)
      PROVE  InLine(cells)
  <2>1. PICK combo \in winningCombinations : combo \subseteq cells
    BY <1>2 DEF checkWinner
  <2> QED
    BY <2>1, <1>1 DEF winningCombinations, InLine
<1>3. ASSUME NEW a \in cells, NEW b \in cells, NEW c \in cells, a < b, b < c,
             Magic[a] + Magic[b] + Magic[c] = 15
      PROVE  {a, b, c} \in winningCombinations
  <2> HIDE DEF Magic
  <2>1. /\ a \in {0, 1, 2, 3, 4, 5, 6, 7, 8}
        /\ b \in {0, 1, 2, 3, 4, 5, 6, 7, 8}
        /\ c \in {0, 1, 2, 3, 4, 5, 6, 7, 8}
    BY DEF Cells
  <2>2. \/ <<a, b, c>> = <<0, 1, 2>> \/ <<a, b, c>> = <<3, 4, 5>>
        \/ <<a, b, c>> = <<6, 7, 8>> \/ <<a, b, c>> = <<0, 3, 6>>
        \/ <<a, b, c>> = <<1, 4, 7>> \/ <<a, b, c>> = <<2, 5, 8>>
        \/ <<a, b, c>> = <<0, 4, 8>> \/ <<a, b, c>> = <<2, 4, 6>>
    BY <2>1, <1>1, <1>3, SMTT(60)
  <2> QED
    BY <2>2 DEF winningCombinations
<1>4. ASSUME InLine(cells)
      PROVE  checkWinner(cells)
  <2>1. PICK a \in cells, b \in cells, c \in cells :
            a < b /\ b < c /\ Magic[a] + Magic[b] + Magic[c] = 15
    BY <1>4 DEF InLine
  <2>2. {a, b, c} \in winningCombinations
    BY <2>1, <1>3
  <2> QED
    BY <2>2 DEF checkWinner
<1> QED
  BY <1>2, <1>4

LEMMA NoLineAtFirst == ~InLine({})
BY DEF InLine

LEMMA BoardInvInit == TicTacToeInit => BoardInv
BY NoLineAtFirst DEF TicTacToeInit, BoardInv

\* What a tap does, in terms of lines.
LEMMA TapAnnounces ==
    ASSUME BoardInv, NEW cell \in enabled, BoardTap(cell)
    PROVE  /\ BoardInv'
           /\ alert' = currPlayer <=>
                 InLine({cell} \cup IF currPlayer = "X" THEN playerX ELSE playerO)
<1> DEFINE mine == {cell} \cup IF currPlayer = "X" THEN playerX ELSE playerO
           X == IF currPlayer = "X" THEN playerX \cup {cell} ELSE playerX
           O == IF currPlayer = "O" THEN playerO \cup {cell} ELSE playerO
           full == enabled = {cell}
<1>1. mine \in SUBSET Cells /\ cell \in Cells
  BY DEF BoardInv
<1>2. mine = IF currPlayer = "X" THEN X ELSE O
  BY DEF BoardInv
<1>3. /\ alert = "none"
      /\ alert' = Presented(checkWinner(mine), full)
      /\ currPlayer' = IF currPlayer = "X" THEN "O" ELSE "X"
      /\ IF full THEN Reset
         ELSE playerX' = X /\ playerO' = O /\ enabled' = enabled \ {cell}
  BY <1>2 DEF BoardTap
<1>4. checkWinner(mine) <=> InLine(mine)
  BY <1>1, CombinationsAreLines
<1>5. alert' = currPlayer <=> InLine(mine)
  BY <1>3, <1>4 DEF Presented, BoardInv
<1>6. ~InLine(playerX) /\ ~InLine(playerO)
  BY <1>3 DEF BoardInv
<1>7. CASE full
  <2>1. playerX' = {} /\ playerO' = {} /\ enabled' = Cells
    BY <1>3, <1>7 DEF Reset
  <2> QED
    BY <2>1, <1>3, <1>5, NoLineAtFirst DEF BoardInv
<1>8. CASE ~full
  <2>1. playerX' = X /\ playerO' = O /\ enabled' = enabled \ {cell}
    BY <1>3, <1>8
  <2>2. CASE currPlayer = "X"
    <3>1. playerX' = mine /\ playerO' = playerO /\ currPlayer' = "O"
      BY <2>1, <2>2, <1>2, <1>3
    <3> HIDE DEF mine
    <3> QED
      BY <2>1, <2>2, <3>1, <1>1, <1>5, <1>6 DEF BoardInv
  <2>3. CASE currPlayer = "O"
    <3>1. playerO' = mine /\ playerX' = playerX /\ currPlayer' = "X"
      BY <2>1, <2>3, <1>2, <1>3
    <3> HIDE DEF mine
    <3> QED
      BY <2>1, <2>3, <3>1, <1>1, <1>5, <1>6 DEF BoardInv
  <2> QED
    BY <2>2, <2>3 DEF BoardInv
<1> QED
  BY <1>5, <1>7, <1>8

LEMMA BoardInvStep == BoardInv /\ [TicTacToeNext]_ticTacToeVars => BoardInv'
<1> SUFFICES ASSUME BoardInv, [TicTacToeNext]_ticTacToeVars
             PROVE  BoardInv'
  OBVIOUS
<1>1. ASSUME NEW cell \in Cells, BoardTap(cell)
      PROVE  BoardInv'
  BY <1>1, TapAnnounces DEF BoardTap
<1>2. ASSUME Dismiss \/ RestartGame
      PROVE  BoardInv'
  BY <1>2, NoLineAtFirst DEF Dismiss, RestartGame, Reset, BoardInv
<1>3. ASSUME UNCHANGED ticTacToeVars
      PROVE  BoardInv'
  BY <1>3 DEF ticTacToeVars, BoardInv
<1> QED
  BY <1>1, <1>2, <1>3 DEF TicTacToeNext

-----------------------------------------------------------------------------
(***************************************************************************)
(* Instagram-Clone.                                                        *)
(***************************************************************************)
Query == {"users", "isFollowing"}
Kind == Query \cup {"save", "find", "delete"}

IsRequest(r) ==
    /\ r = [kind |-> r.kind, about |-> r.about, number |-> r.number,
            mixed |-> r.mixed, answered |-> r.answered, found |-> r.found]
    /\ r.kind \in Kind
    /\ IF r.kind = "users" THEN r.about = Nobody ELSE r.about \in People
    /\ r.mixed \in BOOLEAN /\ r.answered \in BOOLEAN

FollowersTypes ==
    /\ \A r \in requests : IsRequest(r)
    /\ DOMAIN following = People
    /\ DOMAIN followings \subseteq People
    /\ \A u \in DOMAIN followings : followings[u] \in BOOLEAN
    /\ spinning \in BOOLEAN /\ refused \in BOOLEAN

Apart(r, q) == (r.mixed /\ q.mixed) \/ (r.kind = "delete" /\ q.kind = "delete")

\* Two requests about one user crossed, or delete what one query found.
Alone ==
    \A r, q \in requests : r # q /\ r.about = q.about /\ r.about \in People => Apart(r, q)

MixedKnown == \A r \in requests : r.mixed => r.about \in disturbed

\* A user about whom a refresh asks alone has no flag yet, and its answer is the truth.
QuestionsFresh ==
    \A r \in requests :
        r.kind = "isFollowing" /\ ~r.mixed =>
            /\ r.about \notin DOMAIN followings
            /\ r.answered => r.found = following[r.about]

Deletes(u) == {r \in About(u) : r.kind = "delete"}

\* The flag that was set at the tap will be true when the requests are carried out.
FlagSound(u) ==
    u \in DOMAIN followings /\ u \notin disturbed =>
        /\ About(u) = {} => (followings[u] <=> following[u] # {})
        /\ \A r \in About(u) :
              /\ r.kind = "save" => followings[u]
              /\ r.kind \in {"find", "delete"} => ~followings[u]
              /\ r.kind = "find" /\ r.answered => r.found = following[u]
        /\ Deletes(u) # {} => following[u] \subseteq {r.number : r \in Deletes(u)}

Asked(kind) == {r.about : r \in {q \in requests : q.kind = kind}}

\* A refresh that none of its queries failed still waits for every flag it lacks,
\* if there is anybody to have one.
RefreshGoesOn ==
    spinning /\ ~refused /\ Asked("users") = {} /\ People # {} =>
        /\ Asked("isFollowing") # {}
        /\ People \subseteq DOMAIN followings \cup Asked("isFollowing")

FollowersInv ==
    /\ FollowersTypes
    /\ Alone
    /\ MixedKnown
    /\ QuestionsFresh
    /\ \A u \in People : FlagSound(u)
    /\ RefreshGoesOn

LEMMA NewIs ==
    ASSUME NEW kind \in Kind, NEW u, NEW n,
           IF kind = "users" THEN u = Nobody ELSE u \in People
    PROVE  /\ IsRequest(New(kind, u, n))
           /\ New(kind, u, n).kind = kind /\ New(kind, u, n).about = u
           /\ New(kind, u, n).number = n
           /\ ~New(kind, u, n).mixed /\ ~New(kind, u, n).answered
BY DEF New, IsRequest

LEMMA FollowersInvInit == FollowersInit => FollowersInv
<1> SUFFICES ASSUME FollowersInit
             PROVE  FollowersInv
  OBVIOUS
<1> DEFINE first == New("users", Nobody, 1)
<1>1. /\ IsRequest(first) /\ first.kind = "users" /\ first.about = Nobody
      /\ ~first.mixed /\ ~first.answered
  BY NewIs DEF Kind, Query
<1>2. requests = {first} /\ DOMAIN followings = {} /\ DOMAIN following = People
      /\ spinning = FALSE /\ refused = FALSE
  BY DEF FollowersInit
<1> HIDE DEF first
<1> QED
  BY <1>1, <1>2 DEF FollowersInv, FollowersTypes, Alone, MixedKnown, QuestionsFresh,
     FlagSound, RefreshGoesOn

\* What a request becomes when others are sent.
Marked(r, crossed) == [r EXCEPT !.mixed = @ \/ r.about \in crossed]

LEMMA MarkedIs ==
    ASSUME NEW r, IsRequest(r), NEW crossed
    PROVE  /\ IsRequest(Marked(r, crossed))
           /\ Marked(r, crossed).kind = r.kind /\ Marked(r, crossed).about = r.about
           /\ Marked(r, crossed).number = r.number
           /\ Marked(r, crossed).answered = r.answered /\ Marked(r, crossed).found = r.found
           /\ Marked(r, crossed).mixed <=> r.mixed \/ r.about \in crossed
           /\ ~Marked(r, crossed).mixed => Marked(r, crossed) = r
<1> DEFINE m == Marked(r, crossed)
           x == r.mixed \/ r.about \in crossed
<1>1. m = [kind |-> r.kind, about |-> r.about, number |-> r.number,
           mixed |-> x, answered |-> r.answered, found |-> r.found]
  BY DEF Marked, IsRequest
<1>2. x \in BOOLEAN
  BY DEF IsRequest
<1>3. ASSUME ~x
      PROVE  m = r
  <2>1. r.mixed = x
    BY <1>3 DEF IsRequest
  <2> QED
    BY <1>1, <2>1 DEF IsRequest
<1>4. /\ m.kind = r.kind /\ m.about = r.about /\ m.number = r.number
      /\ m.answered = r.answered /\ m.found = r.found /\ m.mixed = x
  BY <1>1
<1>5. IsRequest(m)
  <2>1. m = [kind |-> m.kind, about |-> m.about, number |-> m.number,
             mixed |-> m.mixed, answered |-> m.answered, found |-> m.found]
    BY <1>1, <1>4
  <2> HIDE DEF m, x
  <2> QED
    BY <2>1, <1>2, <1>4 DEF IsRequest
<1> QED
  BY <1>3, <1>4, <1>5

\* Sending requests: they and what was under way about the same users are mixed.
LEMMA SendIs ==
    ASSUME FollowersInv,
           NEW new, NEW answered \in SUBSET requests, Send(new, answered),
           \A r \in new : IsRequest(r) /\ ~r.mixed /\ ~r.answered,
           \A r, q \in new : r # q /\ r.about = q.about =>
                                r.kind = "delete" /\ q.kind = "delete"
    PROVE  /\ \A r \in requests' : IsRequest(r)
           /\ Alone' /\ MixedKnown'
           /\ disturbed \subseteq disturbed'
           /\ \A r \in requests' :
                 ~r.mixed => /\ r \in (requests \ answered) \cup new
                             /\ r \in requests \ answered /\ r.about \in People =>
                                   \A q \in new : q.about # r.about
           /\ \A u \in People :
                 u \notin disturbed' =>
                    /\ About(u)' = {r \in (requests \ answered) \cup new : r.about = u}
                    /\ (\E r \in new : r.about = u) => About(u) \ answered = {}
           /\ \A r \in (requests \ answered) \cup new :
                 \E q \in requests' : q.kind = r.kind /\ q.about = r.about
           /\ \A q \in requests' :
                 \E r \in (requests \ answered) \cup new : q.kind = r.kind /\ q.about = r.about
<1> DEFINE crossed == {u \in People : /\ \E r \in new : r.about = u
                                      /\ About(u) \ answered # {}}
           all == (requests \ answered) \cup new
<1>1. /\ requests' = {Marked(r, crossed) : r \in all}
      /\ disturbed' = disturbed \cup crossed
  BY DEF Send, Marked
<1>2. \A r \in all : IsRequest(r)
  BY DEF FollowersInv, FollowersTypes
<1>3. \A u \in People : About(u) \ answered = {r \in requests \ answered : r.about = u}
  BY DEF About
<1>4. \A r \in requests \ answered, q \in new :
          r.about = q.about /\ r.about \in People => r.about \in crossed
  BY <1>3
<1> HIDE DEF crossed, all
<1>5. \A r \in all : Marked(r, crossed) \in requests'
  BY <1>1
<1>6. \A q \in requests' : \E r \in all : q = Marked(r, crossed)
  BY <1>1
<1>7. \A q \in requests' : IsRequest(q)
  BY <1>2, <1>6, MarkedIs
<1>8. Alone'
  <2> SUFFICES ASSUME NEW x \in requests', NEW y \in requests', x # y,
                      x.about = y.about, x.about \in People
               PROVE  Apart(x, y)
    BY DEF Alone, Apart
  <2>1. PICK r \in all : x = Marked(r, crossed)
    BY <1>6
  <2>2. PICK q \in all : y = Marked(q, crossed)
    BY <1>6
  <2>3. /\ r # q /\ x.kind = r.kind /\ x.about = r.about /\ y.kind = q.kind /\ y.about = q.about
        /\ x.mixed <=> r.mixed \/ r.about \in crossed
        /\ y.mixed <=> q.mixed \/ q.about \in crossed
    BY <2>1, <2>2, <1>2, MarkedIs
  <2>4. CASE r \in requests \ answered /\ q \in requests \ answered
    <3>1. Apart(r, q)
      BY <2>3, <2>4 DEF FollowersInv, Alone
    <3> QED
      BY <3>1, <2>3 DEF Apart
  <2>5. CASE r \in new /\ q \in new
    BY <2>3, <2>5 DEF Apart
  <2>6. CASE (r \in requests \ answered /\ q \in new) \/ (q \in requests \ answered /\ r \in new)
    <3>1. r.about \in crossed /\ q.about \in crossed
      BY <2>3, <2>6, <1>4
    <3> QED
      BY <3>1, <2>3 DEF Apart
  <2> QED
    BY <2>4, <2>5, <2>6 DEF all
<1>9. MixedKnown'
  <2> SUFFICES ASSUME NEW x \in requests', x.mixed
               PROVE  x.about \in disturbed'
    BY DEF MixedKnown
  <2>1. PICK r \in all : x = Marked(r, crossed)
    BY <1>6
  <2>2. x.about = r.about /\ (r.mixed \/ r.about \in crossed)
    BY <2>1, <1>2, MarkedIs
  <2>3. r \in new => ~r.mixed
    OBVIOUS
  <2> QED
    BY <2>2, <2>3, <1>1 DEF all, FollowersInv, MixedKnown
<1>10. ASSUME NEW x \in requests', ~x.mixed
       PROVE  /\ x \in all
              /\ x \in requests \ answered /\ x.about \in People =>
                    \A q \in new : q.about # x.about
  <2>1. PICK r \in all : x = Marked(r, crossed)
    BY <1>6
  <2>2. x = r /\ r.about \notin crossed
    BY <2>1, <1>2, <1>10, MarkedIs
  <2> QED
    BY <2>2, <1>4
<1>11. ASSUME NEW u \in People, u \notin disturbed'
       PROVE  /\ About(u)' = {r \in all : r.about = u}
              /\ (\E r \in new : r.about = u) => About(u) \ answered = {}
  <2>1. u \notin crossed
    BY <1>1, <1>11
  <2>2. \A r \in all : r.about = u => ~r.mixed
    BY <1>1, <1>11 DEF all, FollowersInv, MixedKnown
  <2>3. \A r \in all : r.about = u => Marked(r, crossed) = r
    BY <2>1, <2>2, <1>2, MarkedIs
  <2>4. \A x \in requests' : x.about = u => x \in all
    BY <2>3, <1>2, <1>6, MarkedIs
  <2>5. \A r \in all : r.about = u => r \in requests'
    BY <2>3, <1>5
  <2>6. About(u)' = {r \in all : r.about = u}
    BY <2>4, <2>5 DEF About
  <2> QED
    BY <2>1, <2>6 DEF crossed
<1>12. \A r \in all : \E q \in requests' : q.kind = r.kind /\ q.about = r.about
  BY <1>2, <1>5, MarkedIs
<1>13. \A q \in requests' : \E r \in all : q.kind = r.kind /\ q.about = r.about
  BY <1>2, <1>6, MarkedIs
<1>14. disturbed \subseteq disturbed'
  BY <1>1
<1> QED
  BY <1>7, <1>8, <1>9, <1>10, <1>11, <1>12, <1>13, <1>14 DEF all

\* Nothing about v happens.
LEMMA FlagKept ==
    ASSUME NEW v \in People, FlagSound(v),
           v \notin disturbed' => v \notin disturbed,
           v \notin disturbed' => About(v)' = About(v),
           v \in DOMAIN followings' <=> v \in DOMAIN followings,
           v \in DOMAIN followings' => followings'[v] = followings[v],
           following'[v] = following[v]
    PROVE  FlagSound(v)'
<1> SUFFICES ASSUME v \in DOMAIN followings', v \notin disturbed'
             PROVE  FlagSound(v)'
  BY DEF FlagSound
<1>1. Deletes(v)' = Deletes(v)
  BY DEF Deletes
<1> QED
  BY <1>1 DEF FlagSound

\* While nothing about u was disturbed his requests are one, or the deletes of one unfollow.
LEMMA AloneIs ==
    ASSUME FollowersInv, NEW r \in requests, r.about \in People,
           r.about \notin disturbed \/ ~r.mixed,
           NEW q \in requests, q.about = r.about, q # r
    PROVE  r.kind = "delete" /\ q.kind = "delete"
BY DEF FollowersInv, Alone, MixedKnown, Apart

LEMMA RefreshStep ==
    ASSUME FollowersInv, Refresh
    PROVE  FollowersInv'
<1> DEFINE n == Free("users", Nobody)
           one == New("users", Nobody, n)
<1>1. /\ IsRequest(one) /\ one.kind = "users" /\ one.about = Nobody
      /\ ~one.mixed /\ ~one.answered
  BY NewIs DEF Kind, Query
<1>2. Send({one}, {}) /\ UNCHANGED <<following, followings, listed, refused>> /\ spinning' = TRUE
  BY DEF Refresh
<1> HIDE DEF one
<1>3. /\ \A r \in requests' : IsRequest(r)
      /\ Alone' /\ MixedKnown'
      /\ disturbed \subseteq disturbed'
      /\ \A r \in requests' : ~r.mixed => r \in (requests \ {}) \cup {one}
      /\ \A u \in People :
            u \notin disturbed' => About(u)' = {r \in (requests \ {}) \cup {one} : r.about = u}
      /\ \A r \in (requests \ {}) \cup {one} :
            \E q \in requests' : q.kind = r.kind /\ q.about = r.about
  <2>1. {} \in SUBSET requests
    OBVIOUS
  <2> QED
    BY <1>1, <1>2, <2>1, SendIs
<1>4. FollowersTypes'
  BY <1>2, <1>3 DEF FollowersInv, FollowersTypes
<1>5. QuestionsFresh'
  BY <1>1, <1>2, <1>3 DEF FollowersInv, QuestionsFresh
<1>6. ASSUME NEW v \in People
      PROVE  FlagSound(v)'
  <2>1. v \notin disturbed' => About(v)' = About(v)
    BY <1>1, <1>3, PeopleAssumption DEF About
  <2> QED
    BY <1>2, <1>3, <2>1, FlagKept DEF FollowersInv
<1>7. RefreshGoesOn'
  <2>1. Asked("users")' # {}
    BY <1>1, <1>3 DEF Asked
  <2> QED
    BY <2>1 DEF RefreshGoesOn
<1> QED
  BY <1>3, <1>4, <1>5, <1>6, <1>7 DEF FollowersInv

\* A tap sends one request about u and sets his flag.
LEMMA TapStep ==
    ASSUME FollowersInv, NEW u \in People, NEW kind \in {"save", "find"}, NEW n,
           u \in DOMAIN followings,
           followings' = [followings EXCEPT ![u] = (kind = "save")],
           Send({New(kind, u, n)}, {}),
           UNCHANGED <<following, spinning, refused>>
    PROVE  FollowersInv'
<1> DEFINE one == New(kind, u, n)
<1>1. /\ IsRequest(one) /\ one.kind = kind /\ one.about = u
      /\ ~one.mixed /\ ~one.answered
  BY NewIs DEF Kind, Query
<1>2. Send({one}, {})
  OBVIOUS
<1> HIDE DEF one
<1>3. /\ \A r \in requests' : IsRequest(r)
      /\ Alone' /\ MixedKnown'
      /\ disturbed \subseteq disturbed'
      /\ \A r \in requests' : ~r.mixed => r \in (requests \ {}) \cup {one}
      /\ \A v \in People :
            v \notin disturbed' =>
                /\ About(v)' = {r \in (requests \ {}) \cup {one} : r.about = v}
                /\ (\E r \in {one} : r.about = v) => About(v) \ {} = {}
      /\ \A r \in (requests \ {}) \cup {one} :
            \E q \in requests' : q.kind = r.kind /\ q.about = r.about
      /\ \A q \in requests' :
            \E r \in (requests \ {}) \cup {one} : q.kind = r.kind /\ q.about = r.about
  <2>1. {} \in SUBSET requests
    OBVIOUS
  <2> QED
    BY <1>1, <1>2, <2>1, SendIs
<1>4. /\ DOMAIN followings' = DOMAIN followings
      /\ followings'[u] = (kind = "save")
      /\ \A v \in DOMAIN followings : v # u => followings'[v] = followings[v]
  OBVIOUS
<1>5. FollowersTypes'
  BY <1>3, <1>4 DEF FollowersInv, FollowersTypes
<1>6. QuestionsFresh'
  BY <1>1, <1>3, <1>4 DEF FollowersInv, QuestionsFresh
<1>7. ASSUME NEW v \in People
      PROVE  FlagSound(v)'
  <2>1. CASE v # u
    <3>1. v \notin disturbed' => About(v)' = About(v)
      BY <1>1, <1>3, <2>1 DEF About
    <3> QED
      BY <1>3, <1>4, <2>1, <3>1, FlagKept DEF FollowersInv
  <2>2. CASE v = u
    <3> SUFFICES ASSUME u \notin disturbed'
                 PROVE  FlagSound(u)'
      BY <2>2 DEF FlagSound
    <3>1. About(u) = {} /\ About(u)' = {r \in requests \cup {one} : r.about = u}
      BY <1>1, <1>3
    <3>2. About(u)' = {one}
      BY <1>1, <3>1 DEF About
    <3>3. Deletes(u)' = {}
      BY <1>1, <3>2 DEF Deletes
    <3> QED
      BY <1>1, <1>4, <3>2, <3>3 DEF FlagSound
  <2> QED
    BY <2>1, <2>2
<1>8. RefreshGoesOn'
  <2>1. Asked("users")' = Asked("users") /\ Asked("isFollowing")' = Asked("isFollowing")
    BY <1>1, <1>3 DEF Asked
  <2> QED
    BY <1>4, <2>1 DEF FollowersInv, RefreshGoesOn
<1> QED
  BY <1>3, <1>5, <1>6, <1>7, <1>8 DEF FollowersInv

LEMMA SignInAgainStep ==
    ASSUME FollowersInv, SignInAgain
    PROVE  FollowersInv'
<1> DEFINE one == New("users", Nobody, 1)
           left == {r \in requests : r.kind \notin Query}
<1>1. /\ IsRequest(one) /\ one.kind = "users" /\ one.about = Nobody
      /\ ~one.mixed /\ ~one.answered
  BY NewIs DEF Kind, Query
<1>2. /\ requests' = left \cup {one} /\ DOMAIN followings' = {}
      /\ spinning' = FALSE /\ refused' = FALSE
      /\ UNCHANGED <<following, disturbed>>
  BY DEF SignInAgain, Query
<1> HIDE DEF one
<1>3. FollowersTypes'
  BY <1>1, <1>2 DEF FollowersInv, FollowersTypes
<1>4. Alone'
  BY <1>1, <1>2, PeopleAssumption DEF FollowersInv, Alone, Apart
<1>5. MixedKnown'
  BY <1>1, <1>2 DEF FollowersInv, MixedKnown
<1>6. QuestionsFresh' /\ RefreshGoesOn' /\ \A v \in People : FlagSound(v)'
  BY <1>1, <1>2 DEF QuestionsFresh, RefreshGoesOn, FlagSound, Query
<1> QED
  BY <1>3, <1>4, <1>5, <1>6 DEF FollowersInv

\* A query that is answered.
LEMMA AnsweredIs ==
    ASSUME NEW r, IsRequest(r), NEW yes, NEW objects
    PROVE  [r EXCEPT !.answered = yes, !.found = objects]
              = [kind |-> r.kind, about |-> r.about, number |-> r.number,
                 mixed |-> r.mixed, answered |-> yes, found |-> objects]
<1> DEFINE a == [r EXCEPT !.answered = yes]
<1>1. a = [kind |-> r.kind, about |-> r.about, number |-> r.number,
           mixed |-> r.mixed, answered |-> yes, found |-> r.found]
  BY DEF IsRequest
<1>2. [a EXCEPT !.found = objects]
          = [kind |-> r.kind, about |-> r.about, number |-> r.number,
             mixed |-> r.mixed, answered |-> yes, found |-> objects]
  <2> HIDE DEF a
  <2> QED
    BY <1>1
<1>3. [r EXCEPT !.answered = yes, !.found = objects] = [a EXCEPT !.found = objects]
  OBVIOUS
<1> QED
  BY <1>2, <1>3

LEMMA ServerFindsStep ==
    ASSUME FollowersInv, NEW r \in requests, ServerFinds(r)
    PROVE  FollowersInv'
<1> DEFINE objects == IF r.kind = "users" THEN {} ELSE following[r.about]
           q == [r EXCEPT !.answered = TRUE, !.found = objects]
<1>1. /\ ~r.answered /\ r.kind \in {"users", "isFollowing", "find"}
      /\ requests' = (requests \ {r}) \cup {q}
      /\ UNCHANGED <<following, followings, listed, spinning, disturbed, refused>>
  BY DEF ServerFinds
<1>2. IsRequest(r)
  BY DEF FollowersInv, FollowersTypes
<1>3. q = [kind |-> r.kind, about |-> r.about, number |-> r.number,
           mixed |-> r.mixed, answered |-> TRUE, found |-> objects]
  BY <1>2, AnsweredIs
<1>4. /\ q.kind = r.kind /\ q.about = r.about /\ q.mixed = r.mixed
      /\ q.answered = TRUE /\ q.found = objects /\ q.number = r.number
  BY <1>3
<1>5. IsRequest(q)
  BY <1>2, <1>3 DEF IsRequest
<1>6. r.kind # "users" => q.found = following[r.about]
  BY <1>4
<1> HIDE DEF q, objects
<1>7. FollowersTypes'
  BY <1>1, <1>5 DEF FollowersInv, FollowersTypes
<1>8. Alone'
  BY <1>1, <1>4 DEF FollowersInv, Alone, Apart
<1>9. MixedKnown'
  BY <1>1, <1>4 DEF FollowersInv, MixedKnown
<1>10. QuestionsFresh'
  BY <1>1, <1>4, <1>6 DEF FollowersInv, QuestionsFresh
<1>11. ASSUME NEW v \in People
       PROVE  FlagSound(v)'
  <2>1. CASE v # r.about
    <3>1. About(v)' = About(v)
      BY <1>1, <1>4, <2>1 DEF About
    <3> QED
      BY <1>1, <3>1, FlagKept DEF FollowersInv
  <2>2. CASE v = r.about
    <3>1. q \in About(v)' /\ r \in About(v) /\ FlagSound(v)
      BY <1>1, <1>4, <2>2 DEF About, FollowersInv
    <3>2. \A x \in About(v)' : x = q \/ x \in About(v)
      BY <1>1 DEF About
    <3>3. Deletes(v)' = Deletes(v)
      BY <1>1, <1>4 DEF Deletes, About
    <3> QED
      BY <1>1, <1>4, <1>6, <2>2, <3>1, <3>2, <3>3 DEF FlagSound
  <2> QED
    BY <2>1, <2>2
<1>12. RefreshGoesOn'
  <2>1. Asked("users")' = Asked("users") /\ Asked("isFollowing")' = Asked("isFollowing")
    BY <1>1, <1>4 DEF Asked
  <2> QED
    BY <1>1, <2>1 DEF FollowersInv, RefreshGoesOn
<1> QED
  BY <1>7, <1>8, <1>9, <1>10, <1>11, <1>12 DEF FollowersInv

LEMMA ServerChangesStep ==
    ASSUME FollowersInv, NEW r \in requests, ServerChanges(r)
    PROVE  FollowersInv'
<1> DEFINE u == r.about
<1>1. /\ r.kind \in {"save", "delete"} /\ u \in People
      /\ requests' = requests \ {r}
      /\ DOMAIN following' = People
      /\ r.kind = "save" => following'[u] # {}
      /\ r.kind = "delete" => following'[u] = following[u] \ {r.number}
      /\ \A v \in People : v # u => following'[v] = following[v]
      /\ UNCHANGED <<followings, listed, spinning, disturbed, refused>>
  BY DEF ServerChanges, FollowersInv, FollowersTypes, IsRequest
<1>2. FollowersTypes'
  BY <1>1 DEF FollowersInv, FollowersTypes
<1>3. Alone' /\ MixedKnown'
  BY <1>1 DEF FollowersInv, Alone, MixedKnown, Apart
<1>4. QuestionsFresh'
  <2> SUFFICES ASSUME NEW s \in requests', s.kind = "isFollowing", ~s.mixed
               PROVE  /\ s.about \notin DOMAIN followings
                      /\ s.answered => s.found = following'[s.about]
    BY <1>1 DEF QuestionsFresh
  <2>1. s.about \in People
    BY <1>1 DEF FollowersInv, FollowersTypes, IsRequest
  <2>2. s.about # u
    BY <1>1, <2>1, AloneIs
  <2> QED
    BY <1>1, <2>1, <2>2 DEF FollowersInv, QuestionsFresh
<1>5. ASSUME NEW v \in People
      PROVE  FlagSound(v)'
  <2>1. CASE v # u
    <3>1. About(v)' = About(v)
      BY <1>1, <2>1 DEF About
    <3> QED
      BY <1>1, <2>1, <3>1, FlagKept DEF FollowersInv
  <2>2. CASE v = u
    <3> SUFFICES ASSUME u \in DOMAIN followings, u \notin disturbed
                 PROVE  FlagSound(u)'
      BY <1>1, <2>2 DEF FlagSound
    <3>1. FlagSound(u) /\ r \in About(u)
      BY <1>1 DEF FollowersInv, About
    <3>2. About(u)' = About(u) \ {r}
      BY <1>1 DEF About
    <3>3. \A q \in About(u) \ {r} : r.kind = "delete" /\ q.kind = "delete"
      BY <1>1, AloneIs DEF About
    <3>4. CASE r.kind = "save"
      <4>1. About(u)' = {} /\ Deletes(u)' = {}
        BY <3>2, <3>3, <3>4 DEF Deletes
      <4> QED
        BY <1>1, <3>1, <3>4, <4>1 DEF FlagSound
    <3>5. CASE r.kind = "delete"
      <4>1. r \in Deletes(u) /\ Deletes(u)' = Deletes(u) \ {r}
        BY <3>1, <3>2, <3>5 DEF Deletes
      <4>2. following[u] \subseteq {d.number : d \in Deletes(u)} /\ ~followings[u]
        BY <3>1, <3>5, <4>1 DEF FlagSound
      <4>3. \A o \in following'[u] : \E d \in Deletes(u)' : o = d.number
        BY <1>1, <3>5, <4>1, <4>2
      <4>4. About(u)' = {} => following'[u] = {}
        BY <4>3 DEF Deletes
      <4>5. \A q \in About(u)' : q.kind = "delete"
        BY <3>2, <3>3
      <4> QED
        BY <1>1, <4>2, <4>3, <4>4, <4>5 DEF FlagSound
    <3> QED
      BY <1>1, <3>4, <3>5
  <2> QED
    BY <2>1, <2>2
<1>6. RefreshGoesOn'
  <2>1. Asked("users")' = Asked("users") /\ Asked("isFollowing")' = Asked("isFollowing")
    BY <1>1 DEF Asked
  <2> QED
    BY <1>1, <2>1 DEF FollowersInv, RefreshGoesOn
<1> QED
  BY <1>2, <1>3, <1>4, <1>5, <1>6 DEF FollowersInv

LEMMA RequestFailsStep ==
    ASSUME FollowersInv, NEW r \in requests, RequestFails(r)
    PROVE  FollowersInv'
<1>1. /\ requests' = requests \ {r} /\ disturbed \subseteq disturbed'
      /\ r.kind \notin Query => r.about \in disturbed' /\ refused' = (refused \/ FALSE)
      /\ r.kind \in Query => disturbed' = disturbed /\ refused' = TRUE
      /\ refused' \in BOOLEAN
      /\ UNCHANGED <<following, followings, listed, spinning>>
  BY DEF RequestFails, Query, FollowersInv, FollowersTypes
<1>2. FollowersTypes'
  BY <1>1 DEF FollowersInv, FollowersTypes
<1>3. Alone' /\ MixedKnown' /\ QuestionsFresh'
  BY <1>1 DEF FollowersInv, Alone, MixedKnown, QuestionsFresh, Apart
<1>4. ASSUME NEW v \in People
      PROVE  FlagSound(v)'
  <2>1. CASE v # r.about
    <3>1. About(v)' = About(v)
      BY <1>1, <2>1 DEF About
    <3> QED
      BY <1>1, <3>1, FlagKept DEF FollowersInv
  <2>2. CASE v = r.about /\ r.kind \notin Query
    BY <1>1, <2>2 DEF FlagSound
  <2>3. CASE v = r.about /\ r.kind \in Query
    <3>1. r.kind = "isFollowing"
      BY <2>3, PeopleAssumption DEF Query, FollowersInv, FollowersTypes, IsRequest
    <3>2. v \in DOMAIN followings => v \in disturbed
      BY <2>3, <3>1 DEF FollowersInv, QuestionsFresh, MixedKnown
    <3> QED
      BY <1>1, <2>3, <3>2 DEF FlagSound
  <2> QED
    BY <2>1, <2>2, <2>3
<1>5. RefreshGoesOn'
  <2>1. CASE r.kind \in Query
    BY <1>1, <2>1 DEF RefreshGoesOn
  <2>2. CASE r.kind \notin Query
    <3>1. Asked("users")' = Asked("users") /\ Asked("isFollowing")' = Asked("isFollowing")
      BY <1>1, <2>2 DEF Asked, Query
    <3> QED
      BY <1>1, <2>2, <3>1 DEF FollowersInv, RefreshGoesOn
  <2> QED
    BY <2>1, <2>2
<1> QED
  BY <1>2, <1>3, <1>4, <1>5 DEF FollowersInv

LEMMA UsersArriveStep ==
    ASSUME FollowersInv, NEW r \in requests, UsersArrive(r)
    PROVE  FollowersInv'
<1> DEFINE new == {New("isFollowing", u, Free("isFollowing", u)) : u \in People}
<1>1. /\ Send(new, {r}) /\ DOMAIN followings' = {}
      /\ UNCHANGED <<following, spinning, refused>>
  BY DEF UsersArrive
<1>2. \A q \in new : /\ IsRequest(q) /\ q.kind = "isFollowing" /\ ~q.mixed /\ ~q.answered
                     /\ q = New("isFollowing", q.about, Free("isFollowing", q.about))
  BY NewIs DEF Kind, Query
<1>3. \A u \in People : \E q \in new : q.about = u
  BY NewIs DEF Kind, Query
<1> HIDE DEF new
<1>4. /\ \A q \in requests' : IsRequest(q)
      /\ Alone' /\ MixedKnown'
      /\ \A q \in requests' : ~q.mixed => q \in (requests \ {r}) \cup new
      /\ \A q \in (requests \ {r}) \cup new :
            \E s \in requests' : s.kind = q.kind /\ s.about = q.about
  <2>1. {r} \in SUBSET requests
    OBVIOUS
  <2>2. \A q, s \in new : q # s /\ q.about = s.about => q.kind = "delete" /\ s.kind = "delete"
    BY <1>2
  <2> QED
    BY <1>1, <1>2, <2>1, <2>2, SendIs
<1>5. FollowersTypes'
  BY <1>1, <1>4 DEF FollowersInv, FollowersTypes
<1>6. QuestionsFresh'
  BY <1>1, <1>2, <1>4 DEF FollowersInv, QuestionsFresh
<1>7. \A v \in People : FlagSound(v)'
  BY <1>1 DEF FlagSound
<1>8. RefreshGoesOn'
  <2>1. \A u \in People : \E s \in requests' : s.kind = "isFollowing" /\ s.about = u
    BY <1>2, <1>3, <1>4
  <2>2. \A u \in People : u \in Asked("isFollowing")'
    BY <2>1 DEF Asked
  <2> QED
    BY <2>2 DEF RefreshGoesOn
<1> QED
  BY <1>4, <1>5, <1>6, <1>7, <1>8 DEF FollowersInv

LEMMA FlagArrivesStep ==
    ASSUME FollowersInv, NEW r \in requests, FlagArrives(r)
    PROVE  FollowersInv'
<1> DEFINE u == r.about
           all == DOMAIN followings \cup {u} = People
<1>1. /\ r.kind = "isFollowing" /\ r.answered /\ u \in People
      /\ requests' = requests \ {r}
      /\ DOMAIN followings' = DOMAIN followings \cup {u}
      /\ followings'[u] = (r.found # {})
      /\ \A v \in DOMAIN followings : v # u => followings'[v] = followings[v]
      /\ spinning' = (spinning /\ ~all) /\ refused' = (refused /\ ~all)
      /\ r.mixed => disturbed' = disturbed
      /\ ~r.mixed => disturbed' = disturbed \ {u}
      /\ UNCHANGED <<following, listed>>
  BY DEF FlagArrives, Flagged, FollowersInv, FollowersTypes, IsRequest
<1>2. ~r.mixed => \A q \in requests' : q.about # u
  BY <1>1, AloneIs
<1>3. r.mixed => u \in disturbed
  BY DEF FollowersInv, MixedKnown
<1>4. FollowersTypes'
  BY <1>1 DEF FollowersInv, FollowersTypes
<1>5. Alone' /\ MixedKnown'
  BY <1>1, <1>2 DEF FollowersInv, Alone, MixedKnown, Apart
<1>6. QuestionsFresh'
  <2> SUFFICES ASSUME NEW s \in requests', s.kind = "isFollowing", ~s.mixed
               PROVE  /\ s.about \notin DOMAIN followings'
                      /\ s.answered => s.found = following[s.about]
    BY <1>1 DEF QuestionsFresh
  <2>1. s.about # u
    BY <1>1, AloneIs
  <2> QED
    BY <1>1, <2>1 DEF FollowersInv, QuestionsFresh
<1>7. ASSUME NEW v \in People
      PROVE  FlagSound(v)'
  <2>1. CASE v # u
    <3>1. About(v)' = About(v)
      BY <1>1, <2>1 DEF About
    <3> QED
      BY <1>1, <2>1, <3>1, FlagKept DEF FollowersInv
  <2>2. CASE v = u /\ r.mixed
    BY <1>1, <1>3, <2>2 DEF FlagSound
  <2>3. CASE v = u /\ ~r.mixed
    <3>1. About(u)' = {} /\ Deletes(u)' = {}
      BY <1>2, <2>3 DEF About, Deletes
    <3>2. r.found = following[u]
      BY <1>1, <2>3 DEF FollowersInv, QuestionsFresh
    <3> QED
      BY <1>1, <2>3, <3>1, <3>2 DEF FlagSound
  <2> QED
    BY <2>1, <2>2, <2>3
<1>8. RefreshGoesOn'
  <2> SUFFICES ASSUME spinning', ~refused', Asked("users")' = {}
               PROVE  /\ Asked("isFollowing")' # {}
                      /\ People \subseteq DOMAIN followings' \cup Asked("isFollowing")'
    BY DEF RefreshGoesOn
  <2>1. spinning /\ ~refused /\ ~all
    BY <1>1
  <2>2. Asked("users") = {}
    BY <1>1 DEF Asked
  <2>3. \A v \in People : v \in DOMAIN followings \/ v \in Asked("isFollowing")
    BY <2>1, <2>2 DEF FollowersInv, RefreshGoesOn
  <2>4. \A v \in Asked("isFollowing") : v = u \/ v \in Asked("isFollowing")'
    BY <1>1 DEF Asked
  <2>5. \A v \in People : v \in DOMAIN followings' \/ v \in Asked("isFollowing")'
    BY <1>1, <2>3, <2>4
  <2>6. DOMAIN followings' # People /\ DOMAIN followings' \subseteq People
    BY <1>1, <2>1 DEF FollowersInv, FollowersTypes
  <2> QED
    BY <2>5, <2>6
<1> QED
  BY <1>4, <1>5, <1>6, <1>7, <1>8 DEF FollowersInv

LEMMA ObjectsFoundStep ==
    ASSUME FollowersInv, NEW r \in requests, ObjectsFound(r)
    PROVE  FollowersInv'
<1> DEFINE u == r.about
           new == {New("delete", u, o) : o \in r.found}
<1>1. /\ r.kind = "find" /\ r.answered /\ u \in People
      /\ Send(new, {r})
      /\ UNCHANGED <<following, followings, listed, spinning, refused>>
  BY DEF ObjectsFound, FollowersInv, FollowersTypes, IsRequest
<1>2. \A q \in new : IsRequest(q) /\ q.kind = "delete" /\ q.about = u /\ ~q.mixed /\ ~q.answered
  BY <1>1, NewIs DEF Kind, Query
<1>3. \A o \in r.found : \E q \in new : q.number = o
  BY <1>1, NewIs DEF Kind, Query
<1> HIDE DEF new
<1>4. /\ \A q \in requests' : IsRequest(q)
      /\ Alone' /\ MixedKnown'
      /\ disturbed \subseteq disturbed'
      /\ \A q \in requests' : ~q.mixed => q \in (requests \ {r}) \cup new
      /\ \A v \in People :
            v \notin disturbed' =>
                /\ About(v)' = {q \in (requests \ {r}) \cup new : q.about = v}
                /\ (\E q \in new : q.about = v) => About(v) \ {r} = {}
      /\ \A q \in (requests \ {r}) \cup new :
            \E s \in requests' : s.kind = q.kind /\ s.about = q.about
      /\ \A s \in requests' :
            \E q \in (requests \ {r}) \cup new : s.kind = q.kind /\ s.about = q.about
  <2>1. {r} \in SUBSET requests
    OBVIOUS
  <2> QED
    BY <1>1, <1>2, <2>1, SendIs
<1>5. FollowersTypes'
  BY <1>1, <1>4 DEF FollowersInv, FollowersTypes
<1>6. QuestionsFresh'
  BY <1>1, <1>2, <1>4 DEF FollowersInv, QuestionsFresh
<1>7. ASSUME NEW v \in People
      PROVE  FlagSound(v)'
  <2>1. CASE v # u
    <3>1. v \notin disturbed' => About(v)' = About(v)
      BY <1>2, <1>4, <2>1 DEF About
    <3> QED
      BY <1>1, <1>4, <3>1, FlagKept DEF FollowersInv
  <2>2. CASE v = u
    <3> SUFFICES ASSUME u \in DOMAIN followings, u \notin disturbed'
                 PROVE  FlagSound(u)'
      BY <1>1, <2>2 DEF FlagSound
    <3>1. u \notin disturbed /\ r \in About(u) /\ FlagSound(u)
      BY <1>1, <1>4 DEF FollowersInv, About
    <3>2. ~followings[u] /\ r.found = following[u]
      BY <1>1, <3>1 DEF FlagSound
    <3>3. About(u) = {r}
      BY <1>1, <3>1, AloneIs DEF About
    <3>4. About(u)' = new
      BY <1>1, <1>2, <1>4, <3>3 DEF About
    <3>5. Deletes(u)' = new
      BY <1>2, <3>4 DEF Deletes
    <3>6. \A o \in following[u] : \E q \in new : q.number = o
      BY <1>3, <3>2
    <3> QED
      BY <1>1, <1>2, <3>2, <3>4, <3>5, <3>6 DEF FlagSound
  <2> QED
    BY <2>1, <2>2
<1>8. RefreshGoesOn'
  <2>1. Asked("users")' = Asked("users") /\ Asked("isFollowing")' = Asked("isFollowing")
    BY <1>1, <1>2, <1>4 DEF Asked
  <2> QED
    BY <1>1, <2>1 DEF FollowersInv, RefreshGoesOn
<1> QED
  BY <1>4, <1>5, <1>6, <1>7, <1>8 DEF FollowersInv

LEMMA FollowersInvStep == FollowersInv /\ [FollowersNext]_followersVars => FollowersInv'
<1> SUFFICES ASSUME FollowersInv, [FollowersNext]_followersVars
             PROVE  FollowersInv'
  OBVIOUS
<1>1. ASSUME NEW u \in People, Follow(u)
      PROVE  FollowersInv'
  <2>1. PICK n : /\ u \in DOMAIN followings
                 /\ followings' = [followings EXCEPT ![u] = TRUE]
                 /\ Send({New("save", u, n)}, {})
                 /\ UNCHANGED <<following, spinning, refused>>
    BY <1>1 DEF Follow
  <2> QED
    BY <2>1, TapStep
<1>2. ASSUME NEW u \in People, Unfollow(u)
      PROVE  FollowersInv'
  <2>1. PICK n : /\ u \in DOMAIN followings
                 /\ followings' = [followings EXCEPT ![u] = FALSE]
                 /\ Send({New("find", u, n)}, {})
                 /\ UNCHANGED <<following, spinning, refused>>
    BY <1>2 DEF Unfollow
  <2> QED
    BY <2>1, TapStep
<1>3. CASE UNCHANGED followersVars
  BY <1>3 DEF followersVars, FollowersInv, FollowersTypes, Alone, MixedKnown, QuestionsFresh,
     FlagSound, RefreshGoesOn, About, Deletes, Asked, Apart
<1> QED
  BY <1>1, <1>2, <1>3, RefreshStep, SignInAgainStep, ServerFindsStep, ServerChangesStep,
     RequestFailsStep, UsersArriveStep, FlagArrivesStep, ObjectsFoundStep DEF FollowersNext

LEMMA FollowersInvImplies == FollowersInv => FollowingsTrue /\ RefreshEnds
<1> SUFFICES ASSUME FollowersInv
             PROVE  FollowingsTrue /\ RefreshEnds
  OBVIOUS
<1>1. FollowingsTrue
  BY DEF FollowersInv, FollowersTypes, FlagSound, FollowingsTrue
<1>2. RefreshEnds
  BY DEF FollowersInv, RefreshGoesOn, RefreshEnds, Asked
<1> QED
  BY <1>1, <1>2

-----------------------------------------------------------------------------
(***************************************************************************)
(* Apps: one program runs, the others keep what they have.                *)
(***************************************************************************)
AppsInv == TodoInv /\ TravelInv /\ BoardInv /\ FollowersInv

LEMMA AppsInvInit == AppsInit => AppsInv
BY TodoInvInit, TravelInvInit, BoardInvInit, FollowersInvInit DEF AppsInit, AppsInv

\* Every step is one of each program's steps or leaves its variables alone.
LEMMA NextIs ==
    [AppsNext]_appsVars =>
        /\ [TodoNext]_todoVars /\ [TravelNext]_travelVars
        /\ [TicTacToeNext]_ticTacToeVars /\ [FollowersNext]_followersVars
BY DEF AppsNext, appsVars

LEMMA AppsInvStep == AppsInv /\ [AppsNext]_appsVars => AppsInv'
BY NextIs, TodoInvStep, TravelInvStep, BoardInvStep, FollowersInvStep DEF AppsInv

LEMMA AppsInvAlways == AppsSpec => []AppsInv
BY AppsInvInit, AppsInvStep, PTL DEF AppsSpec

\* Todo-List: neither tab writes away what the other one saved, and the to-do under
\* an editor is still there when its edit is saved.
THEOREM TodosAreKept == AppsSpec => []TodosKept
<1>1. AppsInv => TodosKept
  BY DEF AppsInv, TodoInv
<1> QED
  BY <1>1, AppsInvAlways, PTL

\* Travel-List: a place that was found stays saved until it is swiped away, unless
\* its answer came late, and is never saved twice or after its deletion.
THEOREM PlacesAreKept == AppsSpec => []PlacesKept
<1>1. AppsInv => PlacesKept
  BY TravelInvImplies DEF AppsInv
<1> QED
  BY <1>1, AppsInvAlways, PTL

\* Instagram-Clone: the flag of a user about whom nothing is under way, or was
\* disturbed, is what the server holds.
THEOREM FollowingsAreTrue == AppsSpec => []FollowingsTrue
<1>1. AppsInv => FollowingsTrue
  BY FollowersInvImplies DEF AppsInv
<1> QED
  BY <1>1, AppsInvAlways, PTL

\* Instagram-Clone: the refresher spins only while queries of a refresh are under
\* way, or because one of them was refused or there is nobody to list.
THEOREM RefreshesEnd == AppsSpec => []RefreshEnds
<1>1. AppsInv => RefreshEnds
  BY FollowersInvImplies DEF AppsInv
<1> QED
  BY <1>1, AppsInvAlways, PTL

\* Tic-Tac-Toe: a game is announced exactly as the rules decide it.
THEOREM GamesAreDecided == AppsSpec => Decided
<1> DEFINE Announced ==
             /\ \A cell \in enabled :
                   BoardTap(cell) =>
                      (alert' = currPlayer <=>
                          InLine({cell} \cup IF currPlayer = "X" THEN playerX ELSE playerO))
             /\ InLine(playerX') => alert' = "X"
             /\ InLine(playerO') => alert' = "O"
<1>1. AppsInv /\ AppsInv' => Announced
  BY TapAnnounces DEF AppsInv, BoardInv
<1>2. AppsInv /\ AppsInv' => [Announced]_ticTacToeVars
  BY <1>1
<1>3. AppsSpec => [][Announced]_ticTacToeVars
  BY <1>2, AppsInvAlways, PTL
<1> QED
  BY <1>3 DEF Decided

-----------------------------------------------------------------------------
(***************************************************************************)
(* TaskMaster: what holds for any tasks, titles, dates and any bound on the *)
(* timers, with or without failing saves and fetches.                      *)
(***************************************************************************)
\* A book stays a book when one entry of it is put, changed or taken out.
LEMMA BookPut ==
    ASSUME NEW c \in Book, NEW t \in TaskIds, NEW r \in Task
    PROVE  /\ [c EXCEPT ![t] = r] \in Book
           /\ [c EXCEPT ![t] = r][t] = r
           /\ \A u \in TaskIds : u # t => [c EXCEPT ![t] = r][u] = c[u]
BY DEF Book

\* A change of the completion flag keeps the task, its title and its date.
LEMMA BookDone ==
    ASSUME NEW c \in Book, NEW t \in TaskIds, c[t] # Nil, NEW done \in BOOLEAN
    PROVE  /\ WithDone(c, t, done) \in Book
           /\ WithDone(c, t, done)[t] # Nil
           /\ WithDone(c, t, done)[t].title = c[t].title
           /\ WithDone(c, t, done)[t].due = c[t].due
           /\ WithDone(c, t, done)[t].done = done
           /\ \A u \in TaskIds : u # t => WithDone(c, t, done)[u] = c[u]
<1> DEFINE r == [title |-> c[t].title, due |-> c[t].due, done |-> done]
<1>1. c[t] \in Task
  BY DEF Book
<1>2. r \in Task
  BY <1>1 DEF Task
<1>3. WithDone(c, t, done) = [c EXCEPT ![t] = r]
  BY DEF WithDone
<1>4. /\ [c EXCEPT ![t] = r] \in Book
      /\ [c EXCEPT ![t] = r][t] = r
      /\ \A u \in TaskIds : u # t => [c EXCEPT ![t] = r][u] = c[u]
  BY <1>2, BookPut
<1>5. r # Nil
  BY <1>2, NilAssumption
<1> QED
  BY <1>3, <1>4, <1>5

\* A tap is such a change.
LEMMA BookToggled ==
    ASSUME NEW c \in Book, NEW t \in TaskIds, c[t] # Nil
    PROVE  /\ Toggled(c, t) \in Book
           /\ Toggled(c, t)[t] # Nil
           /\ Toggled(c, t)[t].title = c[t].title
           /\ Toggled(c, t)[t].due = c[t].due
           /\ Toggled(c, t)[t].done = ~c[t].done
           /\ \A u \in TaskIds : u # t => Toggled(c, t)[u] = c[u]
<1>1. (~c[t].done) \in BOOLEAN
  OBVIOUS
<1> QED
  BY <1>1, BookDone, ZenonT(60) DEF Toggled

LEMMA BookWithout ==
    ASSUME NEW c \in Book, NEW gone
    PROVE  /\ Without(c, gone) \in Book
           /\ \A t \in TaskIds : Without(c, gone)[t] = IF t \in gone THEN Nil ELSE c[t]
BY DEF Book, Without

\* A grouping is a set of pairs, and so never nil.
LEMMA DatedGrouping ==
    ASSUME NEW c \in Book, NEW rows
    PROVE  Dated(c, rows) \in Grouping /\ Dated(c, rows) # Nil
<1>1. ASSUME NEW t \in Live(c)
      PROVE  <<c[t].due, t>> \in Days \X TaskIds
  BY <1>1 DEF Live, Book, Task
<1>2. Dated(c, rows) \in Grouping
  BY <1>1 DEF Dated, Grouping
<1> QED
  BY <1>2, NilAssumption DEF Grouping

\* The pairs of a grouping are the dates of tasks that exist.
LEMMA DatedPairs ==
    ASSUME NEW c, NEW rows, NEW d, NEW t
    PROVE  <<d, t>> \in Dated(c, rows) <=> t \in rows \cap Live(c) /\ d = c[t].due
BY DEF Dated

LEMMA RowsType ==
    ASSUME NEW list \in (SUBSET TaskIds) \cup {Nil}
    PROVE  Rows(list) \in SUBSET TaskIds
BY DEF Rows
-----------------------------------------------------------------------------
(***************************************************************************)
(* Types.                                                                  *)
(***************************************************************************)
LEMMA SaveType ==
    ASSUME TypeOK, NEW c \in Book, Save(c)
    PROVE  ctx' = c /\ store' \in Book /\ unsaved' \in BOOLEAN
BY DEF TypeOK, Save

LEMMA LoadTasksType ==
    ASSUME TypeOK, NEW c \in Book, NEW fed \in SUBSET {"tasks", "groups"}, LoadTasks(c, fed)
    PROVE  /\ tasks' \in (SUBSET TaskIds) \cup {Nil}
           /\ stale' \in SUBSET {"tasks", "groups", "completed"}
BY DEF TypeOK, LoadTasks, Incomplete, Live

LEMMA ShareGroupsType ==
    ASSUME TypeOK, NEW c \in Book, ShareGroups(c)
    PROVE  shared' \in Grouping \cup {Nil}
BY DatedGrouping DEF TypeOK, ShareGroups

LEMMA RefreshType ==
    ASSUME TypeOK, NEW c \in Book, RefreshData(c)
    PROVE  /\ tasks' \in (SUBSET TaskIds) \cup {Nil}
           /\ stale' \in SUBSET {"tasks", "groups", "completed"}
           /\ groups' \in Grouping
           /\ shared' \in Grouping \cup {Nil}
<1>1. LoadTasks(c, {"tasks", "groups"}) /\ groups' = Dated(c, Rows(tasks')) /\ ShareGroups(c)
  BY DEF RefreshData
<1> QED
  BY <1>1, LoadTasksType, ShareGroupsType, DatedGrouping

LEMMA LoadCompletedType ==
    ASSUME TypeOK, NEW c \in Book, NEW rows, LoadCompleted(c, rows)
    PROVE  /\ completed' \in (SUBSET TaskIds) \cup {Nil}
           /\ stale' \in SUBSET {"tasks", "groups", "completed"}
BY DEF TypeOK, LoadCompleted, Complete, Live

LEMMA EmptyTimers == <<>> \in Seq(Timer)
OBVIOUS

LEMMA GoDownType ==
    ASSUME TypeOK, NEW disk \in Book, GoDown(disk)
    PROVE  TypeOK'
<1>1. /\ ctx' \in Book /\ store' \in Book
      /\ tasks' = Nil /\ completed' = Nil /\ shared' = Nil /\ calendar' = Nil
      /\ groups' \in Grouping
  BY DEF GoDown, Grouping
<1>2. /\ mode' = "collection" /\ screen' \in Screens /\ editTask' = Nil
      /\ selectedDate' \in Days /\ userName' \in BOOLEAN
  BY DEF TypeOK, GoDown, Screens
<1>3. deferred' \in Seq(Timer) /\ unsaved' \in BOOLEAN /\ stale' = {}
  BY EmptyTimers DEF GoDown
<1> QED
  BY <1>1, <1>2, <1>3 DEF TypeOK

LEMMA TypeInit == Init => TypeOK
<1> SUFFICES ASSUME Init PROVE TypeOK
  OBVIOUS
<1>1. ctx \in Book /\ store \in Book
  BY DEF Init, Book
<1>2. tasks = Nil /\ completed = Nil /\ shared = Nil /\ calendar = Nil /\ groups \in Grouping
  BY DEF Init, Grouping
<1>3. /\ mode = "collection" /\ screen \in Screens /\ editTask = Nil
      /\ selectedDate \in Days /\ userName \in BOOLEAN
  BY DEF Init, Screens
<1>4. deferred \in Seq(Timer) /\ unsaved \in BOOLEAN /\ stale = {}
  BY EmptyTimers DEF Init
<1> QED
  BY <1>1, <1>2, <1>3, <1>4 DEF TypeOK

LEMMA ShowTabBarType ==
    ASSUME TypeOK, ShowTabBar, userName' \in BOOLEAN, editTask = Nil
    PROVE  TypeOK'
<1>1. ctx \in Book /\ RefreshData(ctx)
  BY DEF TypeOK, ShowTabBar
<1>2. /\ tasks' \in (SUBSET TaskIds) \cup {Nil}
      /\ stale' \in SUBSET {"tasks", "groups", "completed"}
      /\ groups' \in Grouping
      /\ shared' \in Grouping \cup {Nil}
  BY <1>1, RefreshType
<1> QED
  BY <1>2 DEF TypeOK, ShowTabBar, data, Screens, Tabs

LEMMA TapType ==
    ASSUME TypeOK, NEW list \in {"tasks", "completed"}, NEW t \in TaskIds, Tap(list, t)
    PROVE  TypeOK'
<1>1. ctx' \in Book /\ \A u \in TaskIds : ctx[u] # Nil => ctx'[u] # Nil
  BY BookToggled DEF TypeOK, Tap
<1>2. deferred' \in Seq(Timer)
  BY DEF TypeOK, Tap, Timer
<1> QED
  BY <1>1, <1>2 DEF TypeOK, Tap, lists, ui

\* The lists may lose rows or be reloaded, the book may be saved, and the
\* types hold as long as no form is open on a task.
LEMMA DataType ==
    ASSUME TypeOK, NEW c \in Book, Save(c), editTask = Nil,
           tasks' \in (SUBSET TaskIds) \cup {Nil},
           completed' \in (SUBSET TaskIds) \cup {Nil},
           groups' \in Grouping,
           shared' \in Grouping \cup {Nil},
           stale' \in SUBSET {"tasks", "groups", "completed"},
           UNCHANGED <<ui, deferred>>
    PROVE  TypeOK'
BY SaveType DEF TypeOK, ui

LEMMA TypeNext == TypeOK /\ [Next]_vars => TypeOK'
<1> SUFFICES ASSUME TypeOK, [Next]_vars
             PROVE  TypeOK'
  OBVIOUS
<1> USE DEF Screens, Tabs
<1>0. ctx \in Book /\ store \in Book /\ (screen # "form" => editTask = Nil)
  BY DEF TypeOK
<1>1. CASE ProcessStep
  <2>1. CASE Launch
    BY <2>1, <1>0, ShowTabBarType DEF Launch, TypeOK, data, lists
  <2>2. CASE SaveUserNameAndNavigate
    BY <2>2, <1>0, ShowTabBarType DEF SaveUserNameAndNavigate
  <2>3. CASE Crash
    BY <2>3, <1>0, GoDownType DEF Crash
  <2>4. CASE Terminate
    BY <2>4, <1>0, GoDownType DEF Terminate
  <2>5. CASE EnterBackground
    <3>1. CASE store' = ctx /\ unsaved' = FALSE /\ UNCHANGED <<ctx, lists, ui, deferred>>
      BY <3>1 DEF TypeOK, lists, ui
    <3>2. CASE GoDown(store)
      BY <3>2, <1>0, GoDownType
    <3> QED
      BY <2>5, <3>1, <3>2 DEF EnterBackground
  <2> QED
    BY <1>1, <2>1, <2>2, <2>3, <2>4, <2>5 DEF ProcessStep
<1>2. CASE TabStep
  <2>1. CASE OpenTasks
    BY <2>1, <1>0, RefreshType DEF OpenTasks, TypeOK, data
  <2>2. CASE OpenCompleted
    BY <2>2, <1>0, LoadCompletedType DEF OpenCompleted, TypeOK, data
  <2>3. CASE OpenCalendar
    BY <2>3, <1>0, GoDownType DEF OpenCalendar, TypeOK, data, lists
  <2>4. CASE ViewTypeChanged
    BY <2>4, <1>0, RefreshType DEF ViewTypeChanged, TypeOK, data
  <2>5. ASSUME NEW d \in Days, SelectDate(d)
        PROVE  TypeOK'
    BY <2>5 DEF SelectDate, TypeOK, data, lists
  <2> QED
    BY <1>2, <2>1, <2>2, <2>3, <2>4, <2>5 DEF TabStep
<1>3. CASE CheckboxStep
  BY <1>3, TapType DEF CheckboxStep, ToggleTask, ToggleCompleted
<1>4. CASE FireTimer
  <2>1. deferred' \in Seq(Timer)
    BY <1>4 DEF FireTimer, TypeOK
  <2>2. ctx' = ctx /\ store' \in Book /\ unsaved' \in BOOLEAN
    BY <1>4, <1>0, SaveType DEF FireTimer, TypeOK, data
  <2>3. tasks' \in (SUBSET TaskIds) \cup {Nil} /\ completed' \in (SUBSET TaskIds) \cup {Nil}
    BY <1>4 DEF FireTimer, TypeOK, Rows, lists
  <2>4. UNCHANGED <<groups, shared, stale, ui>>
    BY <1>4 DEF FireTimer, lists
  <2> QED
    BY <2>1, <2>2, <2>3, <2>4 DEF TypeOK, ui
<1>5. CASE FormStep
  <2>1. ASSUME NEW t \in TaskIds \cup {Nil}, Present(t), t # Nil => ctx[t] # Nil
        PROVE  TypeOK'
    BY <2>1 DEF Present, TypeOK, data, lists
  <2>2. CASE AddTask
    BY <2>2, <2>1 DEF AddTask
  <2>3. ASSUME NEW t \in TaskIds, MenuEdit(t) \/ SwipeEdit(t)
        PROVE  TypeOK'
    BY <2>3, <2>1 DEF MenuEdit, SwipeEdit, Live
  <2>4. CASE CancelForm
    BY <2>4 DEF CancelForm, TypeOK, data, lists
  <2>5. CASE Dismissed
    BY <2>5, <1>0, RefreshType DEF Dismissed, TypeOK, data
  <2>6. ASSUME NEW title \in Titles, NEW due \in Days, SaveTask(title, due)
        PROVE  TypeOK'
    <3> DEFINE filed(done) == [title |-> title, due |-> due, done |-> done]
    <3>1. /\ ctx' \in Book /\ store' \in Book /\ unsaved' \in BOOLEAN
          /\ tasks' \in (SUBSET TaskIds) \cup {Nil}
      <4>1. CASE editTask # Nil
        <5>1. editTask \in TaskIds /\ ctx[editTask] \in Task
          BY <4>1, <1>0 DEF TypeOK, Book
        <5>2. filed(ctx[editTask].done) \in Task
          BY <5>1 DEF Task
        <5>3. [ctx EXCEPT ![editTask] = filed(ctx[editTask].done)] \in Book
          BY <5>1, <5>2, <1>0, BookPut
        <5> QED
          BY <2>6, <4>1, <5>3, SaveType DEF SaveTask, TypeOK
      <4>2. CASE editTask = Nil
        <5>1. PICK t \in TaskIds : /\ Save([ctx EXCEPT ![t] = filed(FALSE)])
                                   /\ tasks' = IF tasks = Nil THEN Nil ELSE tasks \cup {t}
          BY <2>6, <4>2 DEF SaveTask
        <5>2. filed(FALSE) \in Task
          BY DEF Task
        <5>3. [ctx EXCEPT ![t] = filed(FALSE)] \in Book
          BY <5>2, <1>0, BookPut
        <5> QED
          BY <5>1, <5>3, SaveType DEF TypeOK
      <4> QED
        BY <4>1, <4>2
    <3> QED
      BY <2>6, <3>1 DEF SaveTask, TypeOK
  <2> QED
    BY <1>5, <2>2, <2>3, <2>4, <2>5, <2>6 DEF FormStep
<1>6. CASE DeleteStep
  <2>0. editTask = Nil
    BY <1>6, <1>0 DEF DeleteStep, MenuDelete, SwipeDelete, SetIncomplete, DeleteOne, DeleteCompletedTasks
  <2>1. ASSUME NEW t \in TaskIds, MenuDelete(t)
        PROVE  TypeOK'
    <3>1. Without(ctx, {t}) \in Book
      BY <1>0, BookWithout
    <3>2. shared' \in Grouping \cup {Nil}
      BY <2>1, <3>1, ShareGroupsType DEF MenuDelete
    <3>3. tasks' \in (SUBSET TaskIds) \cup {Nil} /\ groups' \in Grouping
      BY <2>1 DEF MenuDelete, TypeOK, Rows, Grouping
    <3> QED
      BY <2>0, <2>1, <3>1, <3>2, <3>3, DataType DEF MenuDelete, TypeOK
  <2>2. ASSUME NEW d \in Days, NEW t \in TaskIds, SwipeDelete(d, t)
        PROVE  TypeOK'
    <3>1. Without(ctx, {t}) \in Book
      BY <1>0, BookWithout
    <3>2. shared' \in Grouping \cup {Nil}
      BY <2>2, <3>1, ShareGroupsType DEF SwipeDelete
    <3>3. groups' \in Grouping
      BY <2>2 DEF SwipeDelete, TypeOK, Grouping
    <3>4. /\ tasks' \in (SUBSET TaskIds) \cup {Nil}
          /\ stale' \in SUBSET {"tasks", "groups", "completed"}
      BY <2>2, <3>1, LoadTasksType DEF SwipeDelete
    <3> QED
      BY <2>0, <2>2, <3>1, <3>2, <3>3, <3>4, DataType DEF SwipeDelete, TypeOK
  <2>3. ASSUME NEW t \in TaskIds, SetIncomplete(t)
        PROVE  TypeOK'
    <3>1. WithDone(ctx, t, FALSE) \in Book
      BY <2>3, <1>0, BookDone DEF SetIncomplete, Live
    <3>2. completed' \in (SUBSET TaskIds) \cup {Nil}
      BY <2>3 DEF SetIncomplete, TypeOK, Rows
    <3> QED
      BY <2>0, <2>3, <3>1, <3>2, DataType DEF SetIncomplete, TypeOK
  <2>4. ASSUME NEW t \in TaskIds, DeleteOne(t)
        PROVE  TypeOK'
    <3>1. Without(ctx, {t}) \in Book
      BY <1>0, BookWithout
    <3>2. completed' \in (SUBSET TaskIds) \cup {Nil}
      BY <2>4 DEF DeleteOne, TypeOK, Rows
    <3> QED
      BY <2>0, <2>4, <3>1, <3>2, DataType DEF DeleteOne, TypeOK
  <2>5. CASE DeleteCompletedTasks
    <3>1. Without(ctx, completed) \in Book
      BY <1>0, BookWithout
    <3>2. ctx' \in Book
      BY <2>5, <3>1, SaveType DEF DeleteCompletedTasks
    <3>3. /\ completed' \in (SUBSET TaskIds) \cup {Nil}
          /\ stale' \in SUBSET {"tasks", "groups", "completed"}
      BY <2>5, <3>2, LoadCompletedType DEF DeleteCompletedTasks, TypeOK
    <3> QED
      BY <2>0, <2>5, <3>1, <3>3, DataType DEF DeleteCompletedTasks, TypeOK
  <2> QED
    BY <1>6, <2>1, <2>2, <2>3, <2>4, <2>5 DEF DeleteStep
<1>7. CASE SearchStep
  BY <1>7, <1>0, LoadCompletedType DEF SearchStep, ClearSearch, Search, TypeOK, data, ui
<1>8. CASE UNCHANGED vars
  BY <1>8 DEF vars, TypeOK
<1> QED
  BY <1>1, <1>2, <1>3, <1>4, <1>5, <1>6, <1>7, <1>8 DEF Next

\* Every variable keeps its type, and a form edits a task that exists.
THEOREM TypeCorrect == Spec => []TypeOK
<1>1. QED
  BY TypeInit, TypeNext, PTL DEF Spec
-----------------------------------------------------------------------------
(***************************************************************************)
(* Memory and disk.                                                        *)
(***************************************************************************)
\* A save levels memory and disk, or is remembered as one that threw.
LEMMA SaveDurable ==
    ASSUME NEW c, Save(c)
    PROVE  Durable'
BY DEF Save, Durable

LEMMA GoDownDurable ==
    ASSUME NEW disk, GoDown(disk)
    PROVE  Durable'
BY DEF GoDown, Durable

LEMMA SameDataDurable ==
    ASSUME Durable, UNCHANGED data
    PROVE  Durable'
BY DEF Durable, data

LEMMA DurableNext == TypeOK /\ Durable /\ [Next]_vars => Durable'
<1> SUFFICES ASSUME TypeOK, Durable, [Next]_vars
             PROVE  Durable'
  OBVIOUS
<1>1. CASE ProcessStep
  <2>1. CASE Launch \/ SaveUserNameAndNavigate
    BY <2>1, SameDataDurable DEF Launch, SaveUserNameAndNavigate, ShowTabBar
  <2>2. CASE Crash \/ Terminate
    BY <2>2, GoDownDurable DEF Crash, Terminate
  <2>3. CASE EnterBackground
    <3>1. CASE store' = ctx /\ UNCHANGED ctx
      BY <3>1 DEF Durable
    <3> QED
      BY <2>3, <3>1, GoDownDurable DEF EnterBackground
  <2> QED
    BY <1>1, <2>1, <2>2, <2>3 DEF ProcessStep
<1>2. CASE TabStep
  BY <1>2, SameDataDurable, GoDownDurable
     DEF TabStep, OpenTasks, OpenCompleted, OpenCalendar, ViewTypeChanged, SelectDate
<1>3. CASE CheckboxStep
  <2>1. PICK t \in TaskIds, list \in {"tasks", "completed"} : Tap(list, t)
    BY <1>3 DEF CheckboxStep, ToggleTask, ToggleCompleted
  <2>2. /\ ctx'[t] # Nil /\ ctx[t] # Nil
        /\ ctx'[t].title = ctx[t].title /\ ctx'[t].due = ctx[t].due
        /\ \A u \in TaskIds : u # t => ctx'[u] = ctx[u]
    BY <2>1, BookToggled DEF Tap, TypeOK
  <2>3. store' = store /\ unsaved' = unsaved
    BY <2>1 DEF Tap
  <2> QED
    BY <2>2, <2>3 DEF Durable
<1>4. CASE FireTimer
  BY <1>4, SaveDurable, SameDataDurable DEF FireTimer
<1>5. CASE FormStep
  <2>1. ASSUME NEW title \in Titles, NEW due \in Days, SaveTask(title, due)
        PROVE  Durable'
    BY <2>1, SaveDurable DEF SaveTask
  <2> QED
    BY <1>5, <2>1, SameDataDurable
       DEF FormStep, AddTask, MenuEdit, SwipeEdit, Present, CancelForm, Dismissed
<1>6. CASE DeleteStep
  BY <1>6, SaveDurable
     DEF DeleteStep, MenuDelete, SwipeDelete, SetIncomplete, DeleteOne, DeleteCompletedTasks
<1>7. CASE SearchStep
  BY <1>7, SameDataDurable DEF SearchStep, ClearSearch, Search
<1>8. CASE UNCHANGED vars
  BY <1>8, SameDataDurable DEF vars, data
<1> QED
  BY <1>1, <1>2, <1>3, <1>4, <1>5, <1>6, <1>7, <1>8 DEF Next

\* What the user saw added, edited or deleted is on disk unless a save threw.
THEOREM DurableAlways == Spec => []Durable
<1>1. Init => Durable
  BY DEF Init, Durable
<1> QED
  BY <1>1, TypeCorrect, DurableNext, PTL DEF Spec

\* A step from a state where memory and disk are level brings no task back.
LEMMA ResurrectionStep ==
    ASSUME TypeOK, Durable, [Next]_vars, NEW t \in TaskIds, ctx[t] = Nil, ctx'[t] # Nil
    PROVE  \/ screen = "form" /\ editTask = Nil
           \/ screen' = "down" /\ unsaved
<1>1. ASSUME NEW disk \in {ctx, store}, GoDown(disk)
      PROVE  screen' = "down" /\ unsaved
  BY <1>1 DEF GoDown, Durable
<1>2. CASE ProcessStep
  BY <1>1, <1>2 DEF ProcessStep, Launch, SaveUserNameAndNavigate, ShowTabBar, Crash, Terminate,
                    EnterBackground, data
<1>3. CASE TabStep
  BY <1>1, <1>3 DEF TabStep, OpenTasks, OpenCompleted, OpenCalendar, ViewTypeChanged, SelectDate, data
<1>4. CASE CheckboxStep
  <2>1. PICK u \in TaskIds, list \in {"tasks", "completed"} : Tap(list, u)
    BY <1>4 DEF CheckboxStep, ToggleTask, ToggleCompleted
  <2>2. t = u \/ ctx'[t] = ctx[t]
    BY <2>1, BookToggled DEF Tap, TypeOK
  <2> QED
    BY <2>1, <2>2 DEF Tap
<1>5. CASE FireTimer
  BY <1>5 DEF FireTimer, Save, data
<1>6. CASE FormStep
  <2>1. ASSUME NEW title \in Titles, NEW due \in Days, SaveTask(title, due), editTask # Nil
        PROVE  FALSE
    <3>1. ctx' = [ctx EXCEPT ![editTask] = [title |-> title, due |-> due, done |-> ctx[editTask].done]]
      BY <2>1 DEF SaveTask, Save
    <3>2. t = editTask
      BY <3>1 DEF TypeOK, Book
    <3> QED
      BY <3>2, <2>1 DEF TypeOK
  <2> QED
    BY <1>6, <2>1 DEF FormStep, AddTask, MenuEdit, SwipeEdit, Present, CancelForm, Dismissed, SaveTask, data
<1>7. CASE DeleteStep
  <2>1. ASSUME NEW gone, Save(Without(ctx, gone))
        PROVE  FALSE
    BY <2>1, BookWithout DEF Save, TypeOK
  <2>2. ASSUME NEW u \in TaskIds, SetIncomplete(u)
        PROVE  FALSE
    <3>1. u \in TaskIds /\ ctx[u] # Nil /\ ctx' = WithDone(ctx, u, FALSE)
      BY <2>2 DEF SetIncomplete, Save, Live
    <3>2. \A v \in TaskIds : v # u => WithDone(ctx, u, FALSE)[v] = ctx[v]
      BY <3>1, BookDone, ZenonT(60) DEF TypeOK
    <3> QED
      BY <3>1, <3>2
  <2> QED
    BY <1>7, <2>1, <2>2 DEF DeleteStep, MenuDelete, SwipeDelete, DeleteOne, DeleteCompletedTasks
<1>8. CASE SearchStep
  BY <1>8 DEF SearchStep, ClearSearch, Search, data
<1>9. CASE UNCHANGED vars
  BY <1>9 DEF vars
<1> QED
  BY <1>2, <1>3, <1>4, <1>5, <1>6, <1>7, <1>8, <1>9 DEF Next

\* A deleted task comes back only with the process lost after a save that threw.
THEOREM NoResurrectionAlways == Spec => NoResurrection
<1>1. TypeOK /\ Durable /\ [Next]_vars =>
        [\A t \in TaskIds : ctx[t] = Nil /\ ctx'[t] # Nil =>
            \/ screen = "form" /\ editTask = Nil
            \/ screen' = "down" /\ unsaved]_vars
  BY ResurrectionStep
<1> QED
  BY <1>1, TypeCorrect, DurableAlways, PTL DEF Spec, NoResurrection
-----------------------------------------------------------------------------
(***************************************************************************)
(* The list by dates.  In list mode the book changes only by a swipe, which *)
(* takes the same task out of the book and out of the sections; everything *)
(* else reloads, or happens in another mode or on another screen.          *)
(***************************************************************************)
LEMMA RefreshListExact ==
    ASSUME RefreshData(ctx), UNCHANGED ctx
    PROVE  ListExact'
<1>1. CASE tasks' = Incomplete(ctx)
  <2>1. Rows(tasks') = Incomplete(ctx)
    BY <1>1, NilAssumption DEF Rows, Incomplete, Live
  <2> QED
    BY <2>1 DEF RefreshData, ListExact
<1>2. CASE "groups" \in stale'
  BY <1>2 DEF ListExact
<1> QED
  BY <1>1, <1>2 DEF RefreshData, LoadTasks

LEMMA ListExactNext == TypeOK /\ ListExact /\ [Next]_vars => ListExact'
<1> SUFFICES ASSUME TypeOK, ListExact, [Next]_vars
             PROVE  ListExact'
  OBVIOUS
<1>0. ASSUME UNCHANGED <<ctx, groups, stale, screen, mode>>
      PROVE  ListExact'
  BY <1>0 DEF ListExact
<1>1. CASE screen' # "tasks" \/ mode' # "list"
  BY <1>1 DEF ListExact
<1>2. ASSUME NEW disk, GoDown(disk)
      PROVE  ListExact'
  BY <1>2 DEF GoDown, ListExact
<1>3. CASE ProcessStep
  BY <1>0, <1>1, <1>2, <1>3, RefreshListExact
     DEF ProcessStep, Launch, SaveUserNameAndNavigate, ShowTabBar, Crash, Terminate, EnterBackground,
         data, lists, ui
<1>4. CASE TabStep
  BY <1>0, <1>1, <1>2, <1>4, RefreshListExact
     DEF TabStep, OpenTasks, OpenCompleted, OpenCalendar, ViewTypeChanged, SelectDate, data, lists
<1>5. CASE CheckboxStep
  BY <1>1, <1>5 DEF CheckboxStep, ToggleTask, ToggleCompleted, Tap, ui
<1>6. CASE FireTimer
  BY <1>0, <1>6 DEF FireTimer, Save, data, lists, ui
<1>7. CASE FormStep
  BY <1>1, <1>7, RefreshListExact
     DEF FormStep, AddTask, MenuEdit, SwipeEdit, Present, SaveTask, CancelForm, Dismissed, data
<1>8. CASE DeleteStep
  <2>1. ASSUME NEW d \in Days, NEW t \in TaskIds, SwipeDelete(d, t), "groups" \notin stale'
        PROVE  groups' = Dated(ctx', Incomplete(ctx'))
    <3>1. groups = Dated(ctx, Incomplete(ctx)) /\ <<d, t>> \in groups
      BY <2>1 DEF SwipeDelete, LoadTasks, ListExact
    <3>2. ctx' = Without(ctx, {t}) /\ groups' = groups \ {<<d, t>>}
      BY <2>1 DEF SwipeDelete, Save
    <3>3. \A u \in TaskIds : ctx'[u] = IF u = t THEN Nil ELSE ctx[u]
      BY <3>2, BookWithout DEF TypeOK
    <3>4. Live(ctx') = Live(ctx) \ {t} /\ Incomplete(ctx') = Incomplete(ctx) \ {t}
      BY <3>3 DEF Live, Incomplete
    <3>5. d = ctx[t].due
      BY <3>1, DatedPairs
    <3>6. Dated(ctx', Incomplete(ctx')) = Dated(ctx, Incomplete(ctx)) \ {<<ctx[t].due, t>>}
      BY <3>3, <3>4 DEF Dated, Live
    <3> QED
      BY <3>1, <3>2, <3>5, <3>6
  <2> QED
    BY <1>1, <1>8, <2>1
       DEF DeleteStep, MenuDelete, SwipeDelete, SetIncomplete, DeleteOne, DeleteCompletedTasks, ui, ListExact
<1>9. CASE SearchStep
  BY <1>1, <1>9 DEF SearchStep, ClearSearch, Search, ui
<1>10. CASE UNCHANGED vars
  BY <1>0, <1>10 DEF vars
<1> QED
  BY <1>3, <1>4, <1>5, <1>6, <1>7, <1>8, <1>9, <1>10 DEF Next

\* The list by dates is the unfinished tasks under their dates.
THEOREM ListExactAlways == Spec => []ListExact
<1>1. Init => ListExact
  BY DEF Init, ListExact
<1> QED
  BY <1>1, TypeCorrect, ListExactNext, PTL DEF Spec
-----------------------------------------------------------------------------
(***************************************************************************)
(* The store as a task book, when no save throws.                          *)
(***************************************************************************)
LEMMA SaveWrites ==
    ASSUME ~SaveMayFail, NEW c, Save(c)
    PROVE  TaskBookOf!Write(c)
BY DEF Save, TaskBookOf!Write

LEMMA GoDownRefines ==
    ASSUME NEW disk \in {ctx, store}, GoDown(disk)
    PROVE  TaskBookOf!Next
BY DEF GoDown, TaskBookOf!Next, TaskBookOf!Sync, TaskBookOf!Lose, TaskBookOf!Write

LEMMA WithoutRefines ==
    ASSUME ~SaveMayFail, NEW gone \in SUBSET TaskIds, Save(Without(ctx, gone))
    PROVE  TaskBookOf!Next
BY SaveWrites DEF Without, TaskBookOf!Next, TaskBookOf!Remove

LEMMA BookStep ==
    ASSUME ~SaveMayFail, TypeOK, [Next]_vars
    PROVE  [TaskBookOf!Next]_<<ctx, store>>
<1>0. ASSUME UNCHANGED data
      PROVE  [TaskBookOf!Next]_<<ctx, store>>
  BY <1>0 DEF data
<1>1. CASE ProcessStep
  <2>1. CASE EnterBackground
    BY <2>1 DEF EnterBackground, TaskBookOf!Next, TaskBookOf!Sync, TaskBookOf!Write
  <2> QED
    BY <1>0, <1>1, <2>1, GoDownRefines
       DEF ProcessStep, Launch, SaveUserNameAndNavigate, ShowTabBar, Crash, Terminate
<1>2. CASE TabStep
  BY <1>0, <1>2, GoDownRefines
     DEF TabStep, OpenTasks, OpenCompleted, OpenCalendar, ViewTypeChanged, SelectDate
<1>3. CASE CheckboxStep
  <2>1. PICK t \in TaskIds, list \in {"tasks", "completed"} : Tap(list, t)
    BY <1>3 DEF CheckboxStep, ToggleTask, ToggleCompleted
  <2>2. ctx[t] \in Task
    BY <2>1 DEF Tap, TypeOK, Book
  <2>3. [ctx[t] EXCEPT !.done = ~ctx[t].done]
          = [title |-> ctx[t].title, due |-> ctx[t].due, done |-> ~ctx[t].done]
    BY <2>2 DEF Task
  <2>4. TaskBookOf!Flip(t)
    BY <2>1, <2>3 DEF Tap, Toggled, WithDone, TaskBookOf!Flip
  <2> QED
    BY <2>4 DEF TaskBookOf!Next
<1>4. CASE FireTimer
  <2>1. ASSUME Save(ctx)
        PROVE  TaskBookOf!Sync
    BY <2>1, SaveWrites DEF TaskBookOf!Sync
  <2> QED
    BY <1>0, <1>4, <2>1 DEF FireTimer, TaskBookOf!Next
<1>5. CASE FormStep
  <2>1. ASSUME NEW title \in Titles, NEW due \in Days, SaveTask(title, due)
        PROVE  TaskBookOf!Next
    <3>1. CASE editTask # Nil
      <4>1. editTask \in TaskIds /\ ctx[editTask] # Nil
        BY <3>1 DEF TypeOK
      <4>2. TaskBookOf!Write([ctx EXCEPT ![editTask] =
                 [title |-> title, due |-> due, done |-> ctx[editTask].done]])
        BY <2>1, <3>1, SaveWrites DEF SaveTask
      <4>3. TaskBookOf!Put(editTask)
        BY <4>1, <4>2 DEF TaskBookOf!Put
      <4> QED
        BY <4>1, <4>3 DEF TaskBookOf!Next
    <3>2. CASE editTask = Nil
      <4>1. PICK t \in TaskIds :
               Fresh(t) /\ Save([ctx EXCEPT ![t] = [title |-> title, due |-> due, done |-> FALSE]])
        BY <2>1, <3>2 DEF SaveTask
      <4>2. TaskBookOf!Put(t)
        BY <4>1, SaveWrites DEF Fresh, TaskBookOf!Put
      <4> QED
        BY <4>2 DEF TaskBookOf!Next
    <3> QED
      BY <3>1, <3>2
  <2> QED
    BY <1>0, <1>5, <2>1 DEF FormStep, AddTask, MenuEdit, SwipeEdit, Present, CancelForm, Dismissed
<1>6. CASE DeleteStep
  <2>1. ASSUME NEW t \in TaskIds, SetIncomplete(t)
        PROVE  TaskBookOf!Next
    <3>1. ctx[t] # Nil
      BY <2>1 DEF SetIncomplete, Live
    <3>2. TaskBookOf!Write(WithDone(ctx, t, FALSE))
      BY <2>1, SaveWrites DEF SetIncomplete
    <3>3. TaskBookOf!Reopen(t)
      BY <3>1, <3>2 DEF WithDone, TaskBookOf!Reopen
    <3> QED
      BY <3>3 DEF TaskBookOf!Next
  <2>2. CASE DeleteCompletedTasks
    <3>1. completed \in SUBSET TaskIds
      BY <2>2 DEF DeleteCompletedTasks, TypeOK
    <3> QED
      BY <2>2, <3>1, WithoutRefines DEF DeleteCompletedTasks
  <2>3. ASSUME NEW t \in TaskIds, Save(Without(ctx, {t}))
        PROVE  TaskBookOf!Next
    BY <2>3, WithoutRefines
  <2> QED
    BY <1>6, <2>1, <2>2, <2>3 DEF DeleteStep, MenuDelete, SwipeDelete, DeleteOne
<1>7. CASE SearchStep
  BY <1>0, <1>7 DEF SearchStep, ClearSearch, Search
<1>8. CASE UNCHANGED vars
  BY <1>8 DEF vars
<1> QED
  BY <1>1, <1>2, <1>3, <1>4, <1>5, <1>6, <1>7, <1>8 DEF Next

\* Adding, editing and deleting are durable in one step; only flags wait.
THEOREM TaskMasterIsATaskBook ==
    ASSUME ~SaveMayFail
    PROVE  Spec => ImplementsTaskBook
<1>1. Init => TaskBookOf!Init
  BY TypeInit DEF Init, TypeOK, Book, TaskBookOf!Init, TaskBookOf!Book, TaskBookOf!Task, Task
<1>2. TypeOK /\ [Next]_vars => [TaskBookOf!Next]_<<ctx, store>>
  BY BookStep
<1> QED
  BY <1>1, <1>2, TypeCorrect, PTL DEF Spec, ImplementsTaskBook, TaskBookOf!Spec
-----------------------------------------------------------------------------
(***************************************************************************)
(* The calendar.  CalendarDates alone is not inductive: a first fetch that *)
(* throws leaves tasks nil, and then a refresh does not regroup.  It holds *)
(* because a grouping exists exactly when the Tasks tab has a list, and    *)
(* no list outlives the process.                                           *)
(***************************************************************************)
CalendarInv ==
    /\ CalendarDates
    /\ tasks = Nil <=> shared = Nil
    /\ screen \in {"down", "welcome"} => tasks = Nil /\ calendar = Nil

LEMMA ShareGroupsDates ==
    ASSUME TypeOK, NEW c \in Book, ShareGroups(c), tasks = Nil <=> shared = Nil,
           tasks' = Nil => tasks = Nil
    PROVE  /\ tasks' = Nil <=> shared' = Nil
           /\ \A d \in Days, t \in TaskIds : <<d, t>> \in Rows(shared') => d = c[t].due
<1>1. CASE tasks' = Nil
  BY <1>1 DEF ShareGroups, Rows
<1>2. CASE tasks' # Nil
  <2>1. shared' = Dated(c, tasks')
    BY <1>2 DEF ShareGroups
  <2> QED
    BY <1>2, <2>1, DatedGrouping, DatedPairs DEF Rows
<1> QED
  BY <1>1, <1>2

LEMMA LoadTasksNil ==
    ASSUME NEW c, NEW fed, LoadTasks(c, fed)
    PROVE  tasks' = Nil => tasks = Nil
BY NilAssumption DEF LoadTasks, Incomplete, Live

\* A refresh that brings the Tasks tab in front.
LEMMA RefreshCalendarInv ==
    ASSUME TypeOK, RefreshData(ctx), UNCHANGED ctx, screen' = "tasks",
           tasks = Nil <=> shared = Nil
    PROVE  CalendarInv'
<1>1. tasks' = Nil => tasks = Nil
  BY LoadTasksNil DEF RefreshData
<1>2. /\ tasks' = Nil <=> shared' = Nil
      /\ \A d \in Days, t \in TaskIds : <<d, t>> \in Rows(shared') => d = ctx[t].due
  BY <1>1, ShareGroupsDates DEF RefreshData, TypeOK
<1> QED
  BY <1>2 DEF CalendarInv, CalendarDates, Live

LEMMA GoDownCalendarInv ==
    ASSUME NEW disk, GoDown(disk)
    PROVE  CalendarInv'
BY DEF GoDown, CalendarInv, CalendarDates, Tabs

\* Steps on another tab that move no due date and touch no grouping.
LEMMA SameDatesCalendarInv ==
    ASSUME CalendarInv, UNCHANGED <<screen, shared, calendar>>, tasks' = Nil <=> tasks = Nil,
           \A t \in Live(ctx') : t \in Live(ctx) /\ ctx'[t].due = ctx[t].due
    PROVE  CalendarInv'
BY DEF CalendarInv, CalendarDates

LEMMA CalendarNext == TypeOK /\ CalendarInv /\ [Next]_vars => CalendarInv'
<1> SUFFICES ASSUME TypeOK, CalendarInv, [Next]_vars
             PROVE  CalendarInv'
  OBVIOUS
<1> USE DEF Tabs
<1>0. tasks = Nil <=> shared = Nil
  BY DEF CalendarInv
<1>1. ASSUME UNCHANGED <<ctx, screen, shared, calendar>>, tasks' = Nil <=> tasks = Nil
      PROVE  CalendarInv'
  BY <1>1, SameDatesCalendarInv
<1>2. CASE ProcessStep
  BY <1>0, <1>1, <1>2, RefreshCalendarInv, GoDownCalendarInv
     DEF ProcessStep, Launch, SaveUserNameAndNavigate, ShowTabBar, Crash, Terminate, EnterBackground,
         data, lists, ui, CalendarInv, CalendarDates
<1>3. CASE TabStep
  <2>1. CASE OpenCompleted
    BY <2>1 DEF OpenCompleted, data, CalendarInv, CalendarDates
  <2>2. CASE OpenCalendar
    BY <2>2, GoDownCalendarInv DEF OpenCalendar, data, lists, CalendarInv, CalendarDates
  <2>3. ASSUME NEW d \in Days, SelectDate(d)
        PROVE  CalendarInv'
    BY <2>3, <1>1 DEF SelectDate, data, lists
  <2>4. CASE OpenTasks
    BY <2>4, <1>0, RefreshCalendarInv DEF OpenTasks, data
  <2>5. CASE ViewTypeChanged
    BY <2>5, <1>0, RefreshCalendarInv DEF ViewTypeChanged, data
  <2> QED
    BY <1>3, <2>1, <2>2, <2>3, <2>4, <2>5 DEF TabStep
<1>4. CASE CheckboxStep
  <2>1. PICK t \in TaskIds, list \in {"tasks", "completed"} : Tap(list, t)
    BY <1>4 DEF CheckboxStep, ToggleTask, ToggleCompleted
  <2>2. \A u \in Live(ctx') : u \in Live(ctx) /\ ctx'[u].due = ctx[u].due
    BY <2>1, BookToggled DEF Tap, Live, TypeOK
  <2> QED
    BY <2>1, <2>2, SameDatesCalendarInv DEF Tap, lists, ui
<1>5. CASE FireTimer
  <2>1. tasks' = Nil <=> tasks = Nil
    BY <1>5, NilAssumption DEF FireTimer, TypeOK, Rows, lists
  <2> QED
    BY <1>1, <1>5, <2>1 DEF FireTimer, Save, data, lists, ui
<1>6. CASE FormStep
  <2>1. CASE Dismissed
    BY <2>1, <1>0, RefreshCalendarInv DEF Dismissed, data
  <2>2. ASSUME NEW title \in Titles, NEW due \in Days, SaveTask(title, due)
        PROVE  CalendarInv'
    <3>1. tasks' = Nil <=> tasks = Nil
      BY <2>2, NilAssumption DEF SaveTask, TypeOK
    <3> QED
      BY <2>2, <3>1 DEF SaveTask, CalendarInv, CalendarDates
  <2>3. ASSUME screen' \in {"form", "dismissing"}, UNCHANGED lists
        PROVE  CalendarInv'
    BY <2>3 DEF CalendarInv, CalendarDates, lists
  <2> QED
    BY <1>6, <2>1, <2>2, <2>3 DEF FormStep, AddTask, MenuEdit, SwipeEdit, Present, CancelForm
<1>7. CASE DeleteStep
  <2>1. ASSUME NEW gone, Save(Without(ctx, gone)), screen' = "tasks",
               ShareGroups(Without(ctx, gone)), tasks' = Nil => tasks = Nil
        PROVE  CalendarInv'
    <3>1. Without(ctx, gone) \in Book /\ ctx' = Without(ctx, gone)
      BY <2>1, BookWithout DEF Save, TypeOK
    <3>2. /\ tasks' = Nil <=> shared' = Nil
          /\ \A d \in Days, t \in TaskIds : <<d, t>> \in Rows(shared') => d = ctx'[t].due
      BY <2>1, <3>1, <1>0, ShareGroupsDates
    <3> QED
      BY <2>1, <3>2 DEF CalendarInv, CalendarDates, Live
  <2>2. ASSUME NEW gone, Save(Without(ctx, gone)), UNCHANGED <<screen, shared, calendar, tasks>>
        PROVE  CalendarInv'
    <3>1. \A t \in Live(ctx') : t \in Live(ctx) /\ ctx'[t].due = ctx[t].due
      BY <2>2, BookWithout DEF Save, TypeOK, Live
    <3> QED
      BY <2>2, <3>1, SameDatesCalendarInv
  <2>3. ASSUME NEW t \in TaskIds, SetIncomplete(t)
        PROVE  CalendarInv'
    <3>1. t \in Live(ctx) /\ ctx' = WithDone(ctx, t, FALSE)
      BY <2>3 DEF SetIncomplete, Save
    <3>2. /\ WithDone(ctx, t, FALSE)[t].due = ctx[t].due
          /\ \A u \in TaskIds : u # t => WithDone(ctx, t, FALSE)[u] = ctx[u]
      BY <3>1, BookDone DEF TypeOK, Live
    <3>3. \A u \in Live(ctx') : u \in Live(ctx) /\ ctx'[u].due = ctx[u].due
      BY <3>1, <3>2 DEF Live
    <3> QED
      BY <2>3, <3>3, SameDatesCalendarInv DEF SetIncomplete, ui
  <2>4. ASSUME NEW t \in TaskIds, MenuDelete(t)
        PROVE  CalendarInv'
    <3>1. tasks' = Nil => tasks = Nil
      BY <2>4, NilAssumption DEF MenuDelete, TypeOK, Rows
    <3> QED
      BY <2>4, <3>1, <2>1 DEF MenuDelete, ui
  <2>5. ASSUME NEW d \in Days, NEW t \in TaskIds, SwipeDelete(d, t)
        PROVE  CalendarInv'
    BY <2>5, <2>1, LoadTasksNil DEF SwipeDelete, ui
  <2> QED
    BY <1>7, <2>2, <2>3, <2>4, <2>5 DEF DeleteStep, DeleteOne, DeleteCompletedTasks, ui
<1>8. CASE SearchStep
  BY <1>1, <1>8 DEF SearchStep, ClearSearch, Search, data, ui
<1>9. CASE UNCHANGED vars
  BY <1>1, <1>9 DEF vars
<1> QED
  BY <1>2, <1>3, <1>4, <1>5, <1>6, <1>7, <1>8, <1>9 DEF Next

LEMMA CalendarInvariant == Spec => []CalendarInv
<1>1. Init => CalendarInv
  BY DEF Init, CalendarInv, CalendarDates, Tabs
<1> QED
  BY <1>1, TypeCorrect, CalendarNext, PTL DEF Spec

\* A task that exists is shown on its own date, on any tab.
THEOREM CalendarDatesAlways == Spec => []CalendarDates
<1>1. CalendarInv => CalendarDates
  BY DEF CalendarInv
<1> QED
  BY <1>1, CalendarInvariant, PTL

\* The Tasks tab lacks a list only while its fetches throw.
Unread == screen \notin {"down", "welcome"} /\ tasks = Nil => "tasks" \in stale

LEMMA LoadTasksUnread ==
    ASSUME NEW c, NEW fed, "tasks" \in fed, LoadTasks(c, fed)
    PROVE  tasks' = Nil => "tasks" \in stale'
BY NilAssumption DEF LoadTasks, Incomplete, Live

LEMMA UnreadNext == TypeOK /\ Unread /\ [Next]_vars => Unread'
<1> SUFFICES ASSUME TypeOK, Unread, [Next]_vars
             PROVE  Unread'
  OBVIOUS
<1>1. ASSUME tasks' = Nil => tasks = Nil, stale \ {"completed"} \subseteq stale',
             screen \notin {"down", "welcome"}
      PROVE  Unread'
  BY <1>1 DEF Unread
<1>2. ASSUME RefreshData(ctx)
      PROVE  Unread'
  BY <1>2, LoadTasksUnread DEF RefreshData, Unread
<1>3. ASSUME NEW disk, GoDown(disk)
      PROVE  Unread'
  BY <1>3 DEF GoDown, Unread
<1>4. CASE ProcessStep
  <2>1. CASE UNCHANGED lists /\ screen' \in {screen, "welcome"}
    BY <2>1 DEF lists, Unread
  <2> QED
    BY <1>2, <1>3, <1>4, <2>1
       DEF ProcessStep, Launch, SaveUserNameAndNavigate, ShowTabBar, Crash, Terminate, EnterBackground, ui
<1>5. CASE TabStep
  <2>1. CASE OpenCompleted
    BY <1>1, <2>1 DEF OpenCompleted, LoadCompleted, Tabs
  <2>2. CASE OpenCalendar
    BY <1>1, <1>3, <2>2 DEF OpenCalendar, lists, Tabs
  <2>3. ASSUME NEW d \in Days, SelectDate(d)
        PROVE  Unread'
    BY <1>1, <2>3 DEF SelectDate, lists
  <2> QED
    BY <1>2, <1>5, <2>1, <2>2, <2>3 DEF TabStep, OpenTasks, ViewTypeChanged
<1>6. CASE CheckboxStep
  <2>1. PICK t \in TaskIds, list \in {"tasks", "completed"} :
           Tap(list, t) /\ screen \in {"tasks", "completed"}
    BY <1>6 DEF CheckboxStep, ToggleTask, ToggleCompleted
  <2> QED
    BY <1>1, <2>1 DEF Tap, lists
<1>7. CASE FireTimer
  <2>1. tasks' = Nil => tasks = Nil
    BY <1>7, NilAssumption DEF FireTimer, TypeOK, Rows, lists
  <2> QED
    BY <1>7, <2>1 DEF FireTimer, Unread, lists, ui
<1>8. CASE FormStep
  <2>1. CASE Dismissed
    BY <1>2, <2>1 DEF Dismissed
  <2>2. ASSUME NEW title \in Titles, NEW due \in Days, SaveTask(title, due)
        PROVE  Unread'
    <3>1. tasks' = Nil => tasks = Nil
      BY <2>2, NilAssumption DEF SaveTask, TypeOK
    <3> QED
      BY <1>1, <2>2, <3>1 DEF SaveTask
  <2> QED
    BY <1>1, <1>8, <2>1, <2>2 DEF FormStep, AddTask, MenuEdit, SwipeEdit, Present, CancelForm, lists
<1>9. CASE DeleteStep
  <2>1. ASSUME NEW d \in Days, NEW t \in TaskIds, SwipeDelete(d, t)
        PROVE  Unread'
    BY <2>1, LoadTasksUnread DEF SwipeDelete, Unread
  <2>2. ASSUME NEW t \in TaskIds, MenuDelete(t)
        PROVE  Unread'
    <3>1. tasks' = Nil => tasks = Nil
      BY <2>2, NilAssumption DEF MenuDelete, TypeOK, Rows
    <3> QED
      BY <1>1, <2>2, <3>1 DEF MenuDelete
  <2>3. CASE DeleteCompletedTasks
    BY <1>1, <2>3 DEF DeleteCompletedTasks, LoadCompleted
  <2> QED
    BY <1>1, <1>9, <2>1, <2>2, <2>3 DEF DeleteStep, SetIncomplete, DeleteOne
<1>10. CASE SearchStep
  BY <1>1, <1>10 DEF SearchStep, ClearSearch, Search, LoadCompleted
<1>11. CASE UNCHANGED vars
  BY <1>11 DEF vars, Unread
<1> QED
  BY <1>4, <1>5, <1>6, <1>7, <1>8, <1>9, <1>10, <1>11 DEF Next

LEMMA UnreadInvariant == Spec => []Unread
<1>1. Init => Unread
  BY DEF Init, Unread
<1> QED
  BY <1>1, TypeCorrect, UnreadNext, PTL DEF Spec

\* The Calendar tab forces a nil exactly while the Tasks tab has no list,
\* which it lacks only while its fetches throw.
THEOREM CalendarLoadableAlways == Spec => []CalendarLoadable
<1>1. CalendarInv /\ Unread => CalendarLoadable
  BY DEF CalendarInv, Unread, CalendarLoadable
<1> QED
  BY <1>1, CalendarInvariant, UnreadInvariant, PTL

\* The Calendar tab traps only after fetches that all threw, and shows no task
\* that still exists under a date it no longer has.
THEOREM CalendarSoundAlways == Spec => []CalendarSound
<1>1. CalendarDates /\ CalendarLoadable => CalendarSound
  BY DEF CalendarSound
<1> QED
  BY <1>1, CalendarDatesAlways, CalendarLoadableAlways, PTL
-----------------------------------------------------------------------------
(***************************************************************************)
(* The rows of the tab in front.  A row stops matching only by a tap on    *)
(* that very row, which starts its timer; the timer leaves the queue only  *)
(* by firing, which takes the row out.                                     *)
(***************************************************************************)
\* A timer in flight stays in flight when another one joins the queue ...
LEMMA InFlightAppend ==
    ASSUME TypeOK, NEW x \in Timer, deferred' = Append(deferred, x)
    PROVE  /\ \E i \in DOMAIN deferred' : deferred'[i] = x
           /\ \A y \in Timer : (\E i \in DOMAIN deferred : deferred[i] = y)
                                 => \E i \in DOMAIN deferred' : deferred'[i] = y
<1>0. deferred \in Seq(Timer)
  BY DEF TypeOK
<1>1. /\ Len(deferred') = Len(deferred) + 1
      /\ DOMAIN deferred' = 1 .. Len(deferred) + 1
      /\ deferred'[Len(deferred) + 1] = x
      /\ \A i \in 1 .. Len(deferred) : deferred'[i] = deferred[i]
  BY <1>0
<1>2. Len(deferred) + 1 \in DOMAIN deferred'
  BY <1>0, <1>1
<1>3. ASSUME NEW i \in DOMAIN deferred
      PROVE  i \in DOMAIN deferred' /\ deferred'[i] = deferred[i]
  BY <1>0, <1>1
<1> QED
  BY <1>1, <1>2, <1>3

\* ... and when one ahead of it leaves.
LEMMA InFlightTail ==
    ASSUME TypeOK, deferred # <<>>, deferred' = Tail(deferred),
           NEW y \in Timer, y # Head(deferred),
           \E i \in DOMAIN deferred : deferred[i] = y
    PROVE  \E i \in DOMAIN deferred' : deferred'[i] = y
<1>0. deferred \in Seq(Timer)
  BY DEF TypeOK
<1>1. PICK i \in DOMAIN deferred : deferred[i] = y
  OBVIOUS
<1>2. i \in 2 .. Len(deferred)
  BY <1>0, <1>1
<1>3. i - 1 \in DOMAIN deferred' /\ deferred'[i - 1] = deferred[i]
  BY <1>0, <1>2
<1> QED
  BY <1>1, <1>3

LEMMA RefreshRowsMatch ==
    ASSUME TypeOK, RefreshData(ctx), UNCHANGED ctx, screen' = "tasks"
    PROVE  RowsMatch'
<1>1. CASE tasks' = Incomplete(ctx)
  <2>1. Rows(tasks') = Incomplete(ctx')
    BY <1>1, NilAssumption DEF Rows, Incomplete, Live
  <2> QED
    BY <2>1 DEF RowsMatch
<1>2. CASE "tasks" \in stale'
  BY <1>2 DEF RowsMatch
<1> QED
  BY <1>1, <1>2 DEF RefreshData, LoadTasks

LEMMA LoadCompletedRowsMatch ==
    ASSUME TypeOK, NEW rows, LoadCompleted(ctx', rows), screen' = "completed"
    PROVE  RowsMatch'
<1>1. CASE completed' = rows \cap Complete(ctx')
  <2>1. Rows(completed') \subseteq Complete(ctx')
    BY <1>1 DEF Rows
  <2> QED
    BY <2>1 DEF RowsMatch
<1>2. CASE "completed" \in stale'
  BY <1>2 DEF RowsMatch
<1> QED
  BY <1>1, <1>2 DEF LoadCompleted

\* Taking rows out, and changing no task but those, leaves the others right.
LEMMA FewerRowsMatch ==
    ASSUME TypeOK, RowsMatch, NEW gone \in SUBSET TaskIds,
           UNCHANGED <<screen, deferred, stale>>,
           \A t \in TaskIds \ gone : ctx'[t] = ctx[t],
           screen = "tasks" => Rows(tasks') \subseteq Rows(tasks) \ gone,
           screen = "completed" => Rows(completed') \subseteq Rows(completed) \ gone
    PROVE  RowsMatch'
<1>1. Rows(tasks) \subseteq TaskIds /\ Rows(completed) \subseteq TaskIds
  BY RowsType DEF TypeOK
<1>2. \A t \in TaskIds \ gone : /\ t \in Incomplete(ctx) => t \in Incomplete(ctx')
                                /\ t \in Complete(ctx) => t \in Complete(ctx')
  BY DEF Incomplete, Complete, Live
<1>3. ASSUME screen' = "tasks", "tasks" \notin stale', NEW t \in Rows(tasks')
      PROVE  t \in Incomplete(ctx') \/ InFlight(deferred', "tasks", t)
  <2>1. t \in Rows(tasks) /\ t \in TaskIds \ gone
    BY <1>1, <1>3
  <2>2. CASE t \in Incomplete(ctx)
    BY <1>2, <2>1, <2>2
  <2>3. CASE InFlight(deferred, "tasks", t)
    BY <2>3
  <2> QED
    BY <1>3, <2>1, <2>2, <2>3 DEF RowsMatch
<1>4. ASSUME screen' = "completed", "completed" \notin stale', NEW t \in Rows(completed')
      PROVE  t \in Complete(ctx') \/ InFlight(deferred', "completed", t)
  <2>1. t \in Rows(completed) /\ t \in TaskIds \ gone
    BY <1>1, <1>4
  <2>2. CASE t \in Complete(ctx)
    BY <1>2, <2>1, <2>2
  <2>3. CASE InFlight(deferred, "completed", t)
    BY <2>3
  <2> QED
    BY <1>4, <2>1, <2>2, <2>3 DEF RowsMatch
<1> QED
  BY <1>3, <1>4 DEF RowsMatch

LEMMA RowsMatchNext == TypeOK /\ RowsMatch /\ [Next]_vars => RowsMatch'
<1> SUFFICES ASSUME TypeOK, RowsMatch, [Next]_vars
             PROVE  RowsMatch'
  OBVIOUS
<1>0. ASSUME UNCHANGED <<ctx, tasks, completed, stale, screen, deferred>>
      PROVE  RowsMatch'
  BY <1>0 DEF RowsMatch, InFlight
<1>1. CASE screen' \notin {"tasks", "completed"}
  BY <1>1 DEF RowsMatch
<1>2. ASSUME NEW disk, GoDown(disk)
      PROVE  RowsMatch'
  BY <1>1, <1>2 DEF GoDown
<1>3. CASE ProcessStep
  BY <1>0, <1>1, <1>2, <1>3, RefreshRowsMatch
     DEF ProcessStep, Launch, SaveUserNameAndNavigate, ShowTabBar, Crash, Terminate, EnterBackground,
         data, lists, ui
<1>4. CASE TabStep
  BY <1>1, <1>2, <1>4, RefreshRowsMatch, LoadCompletedRowsMatch
     DEF TabStep, OpenTasks, OpenCompleted, OpenCalendar, ViewTypeChanged, SelectDate, data
<1>5. CASE CheckboxStep
  <2>1. PICK t \in TaskIds, list \in {"tasks", "completed"} : Tap(list, t) /\ screen = list
    BY <1>5 DEF CheckboxStep, ToggleTask, ToggleCompleted
  <2>2. InFlight(deferred', list, t) /\ \A u \in TaskIds : InFlight(deferred, list, u) => InFlight(deferred', list, u)
    <3>1. /\ \E i \in DOMAIN deferred' : deferred'[i] = <<list, t>>
          /\ \A y \in Timer : (\E i \in DOMAIN deferred : deferred[i] = y)
                                 => \E i \in DOMAIN deferred' : deferred'[i] = y
      BY <2>1, InFlightAppend DEF Tap, Timer
    <3> QED
      BY <3>1 DEF InFlight, Timer
  <2>3. \A u \in TaskIds : u # t => /\ u \in Incomplete(ctx) => u \in Incomplete(ctx')
                                    /\ u \in Complete(ctx) => u \in Complete(ctx')
    BY <2>1, BookToggled DEF Tap, TypeOK, Incomplete, Complete, Live
  <2>4. UNCHANGED <<tasks, completed, stale, screen>>
    BY <2>1 DEF Tap, lists, ui
  <2>5. Rows(tasks) \subseteq TaskIds /\ Rows(completed) \subseteq TaskIds
    BY RowsType DEF TypeOK
  <2>6. CASE list = "tasks"
    BY <2>1, <2>2, <2>3, <2>4, <2>5, <2>6 DEF RowsMatch
  <2>7. CASE list = "completed"
    BY <2>1, <2>2, <2>3, <2>4, <2>5, <2>7 DEF RowsMatch
  <2> QED
    BY <2>6, <2>7
<1>6. CASE FireTimer
  <2> DEFINE head == Head(deferred)
  <2>1. deferred # <<>> /\ deferred' = Tail(deferred) /\ head \in Timer
    BY <1>6 DEF FireTimer, TypeOK
  <2>2. UNCHANGED <<ctx, stale, screen>>
    BY <1>6 DEF FireTimer, Save, data, lists, ui
  <2>3. Rows(tasks') \subseteq Rows(tasks) /\ Rows(completed') \subseteq Rows(completed)
    BY <1>6, NilAssumption DEF FireTimer, Rows, TypeOK, lists
  <2>4. /\ \A t \in Rows(tasks') : <<"tasks", t>> # head
        /\ \A t \in Rows(completed') : <<"completed", t>> # head
    BY <1>6, NilAssumption DEF FireTimer, Rows, TypeOK, lists
  <2>5. Rows(tasks) \subseteq TaskIds /\ Rows(completed) \subseteq TaskIds
    BY RowsType DEF TypeOK
  <2>6. ASSUME NEW list \in {"tasks", "completed"}, NEW t \in TaskIds, <<list, t>> # head, InFlight(deferred, list, t)
        PROVE  InFlight(deferred', list, t)
    BY <2>1, <2>6, InFlightTail DEF InFlight, Timer
  <2> QED
    BY <2>2, <2>3, <2>4, <2>5, <2>6 DEF RowsMatch
<1>7. CASE FormStep
  BY <1>1, <1>7, RefreshRowsMatch
     DEF FormStep, AddTask, MenuEdit, SwipeEdit, Present, SaveTask, CancelForm, Dismissed, data
<1>8. CASE DeleteStep
  <2>1. ASSUME NEW gone \in SUBSET TaskIds, Save(Without(ctx, gone))
        PROVE  \A t \in TaskIds \ gone : ctx'[t] = ctx[t]
    BY <2>1, BookWithout DEF Save, TypeOK
  <2>2. ASSUME NEW t \in TaskIds, MenuDelete(t)
        PROVE  RowsMatch'
    <3>1. Rows(tasks') \subseteq Rows(tasks) \ {t}
      BY <2>2, NilAssumption DEF MenuDelete, Rows, TypeOK
    <3>2. UNCHANGED <<screen, deferred, stale>> /\ screen = "tasks"
      BY <2>2 DEF MenuDelete, ui
    <3>3. \A u \in TaskIds \ {t} : ctx'[u] = ctx[u]
      BY <2>1, <2>2 DEF MenuDelete
    <3> QED
      BY <3>1, <3>2, <3>3, FewerRowsMatch
  <2>3. ASSUME NEW d \in Days, NEW t \in TaskIds, SwipeDelete(d, t)
        PROVE  RowsMatch'
    <3>1. ctx' = Without(ctx, {t}) /\ screen' = "tasks"
      BY <2>3 DEF SwipeDelete, Save, ui
    <3>2. CASE tasks' = Incomplete(ctx')
      <4>1. Rows(tasks') = Incomplete(ctx')
        BY <3>2, NilAssumption DEF Rows, Incomplete, Live
      <4> QED
        BY <3>1, <4>1 DEF RowsMatch
    <3>3. CASE "tasks" \in stale'
      BY <3>1, <3>3 DEF RowsMatch
    <3> QED
      BY <2>3, <3>1, <3>2, <3>3 DEF SwipeDelete, LoadTasks
  <2>4. ASSUME NEW t \in TaskIds, SetIncomplete(t) \/ DeleteOne(t)
        PROVE  RowsMatch'
    <3>1. Rows(completed') \subseteq Rows(completed) \ {t}
      BY <2>4, NilAssumption DEF SetIncomplete, DeleteOne, Rows, TypeOK
    <3>2. UNCHANGED <<screen, deferred, stale>> /\ screen = "completed"
      BY <2>4 DEF SetIncomplete, DeleteOne, ui
    <3>3. CASE DeleteOne(t)
      <4>1. \A u \in TaskIds \ {t} : ctx'[u] = ctx[u]
        BY <3>3, <2>1 DEF DeleteOne
      <4> QED
        BY <3>1, <3>2, <4>1, FewerRowsMatch
    <3>4. CASE SetIncomplete(t)
      <4>1. ctx[t] # Nil /\ ctx' = WithDone(ctx, t, FALSE)
        BY <3>4 DEF SetIncomplete, Save, Live
      <4>2. \A u \in TaskIds : u # t => WithDone(ctx, t, FALSE)[u] = ctx[u]
        BY <4>1, BookDone DEF TypeOK
      <4>3. \A u \in TaskIds \ {t} : ctx'[u] = ctx[u]
        BY <4>1, <4>2
      <4> QED
        BY <3>1, <3>2, <4>3, FewerRowsMatch
    <3> QED
      BY <2>4, <3>3, <3>4
  <2>5. CASE DeleteCompletedTasks
    <3>1. CASE "completed" \in stale'
      BY <2>5, <3>1 DEF DeleteCompletedTasks, RowsMatch, ui
    <3>2. CASE LoadCompleted(ctx', TaskIds)
      BY <2>5, <3>2, LoadCompletedRowsMatch DEF DeleteCompletedTasks, ui
    <3> QED
      BY <2>5, <3>1, <3>2 DEF DeleteCompletedTasks
  <2> QED
    BY <1>8, <2>2, <2>3, <2>4, <2>5 DEF DeleteStep
<1>9. CASE SearchStep
  BY <1>9, LoadCompletedRowsMatch DEF SearchStep, ClearSearch, Search, data, ui
<1>10. CASE UNCHANGED vars
  BY <1>0, <1>10 DEF vars
<1> QED
  BY <1>3, <1>4, <1>5, <1>6, <1>7, <1>8, <1>9, <1>10 DEF Next

\* The tab in front shows no wrong row but those whose timer is to come.
THEOREM RowsMatchAlways == Spec => []RowsMatch
<1>1. Init => RowsMatch
  BY DEF Init, RowsMatch
<1> QED
  BY <1>1, TypeCorrect, RowsMatchNext, PTL DEF Spec
=============================================================================
