----------------------------- MODULE BudgetApp ------------------------------
(***************************************************************************)
(* The Budget app: budgets, the expenses of each, and the two tables that  *)
(* show them.  DataManager deletes by position: it fetches again, without  *)
(* a sort, and deletes the object at the row the user swiped.              *)
(*                                                                         *)
(* The context and the store hold their objects in the order they were     *)
(* made, which is the order SQLite returns when no sort is asked for; a    *)
(* sort by timestamp, newest first, is the reverse (the clock goes on).    *)
(* What the user types as an amount is a natural number: saveBudget and    *)
(* saveExpense refuse a text that holds anything but digits.               *)
(***************************************************************************)
EXTENDS Integers, SequencesExt, Lists

CONSTANTS BudgetIds,      \* identities of Budget objects
          ExpenseIds,     \* identities of Expense objects
          Amounts,        \* amounts a user types, zero included
          Nil,            \* no budget
          SaveMayFail,    \* may viewContext.save() throw?
          FetchMayFail    \* may viewContext.fetch() throw?

Budget == [id : BudgetIds, amount : Amounts]
Expense == [id : ExpenseIds, amount : Amounts, budget : BudgetIds]

ASSUME AmountsAssumption == Amounts \subseteq Nat
ASSUME FailuresAssumption == SaveMayFail \in BOOLEAN /\ FetchMayFail \in BOOLEAN
ASSUME NilAssumption == Nil \notin Budget

VARIABLES ctx,        \* DataManager.shared.persistentContainer.viewContext
          store,      \* the persistent store
          budgets,    \* BudgetViewController.budgets, and the rows of its table
          screen,     \* the controller in front
          budget,     \* ExpenseViewController.budget
          expenses,   \* ExpenseViewController.expenses
          rows,       \* the rows its table has drawn
          spent,      \* the amount in spentLabel
          red,        \* is spentLabel red?
          pie,        \* the slices of pieChartView
          unsaved,    \* history: a deletion of a budget was not saved
          misread     \* history: a fetch that fills a list, or deletes, threw

data == <<ctx, store, unsaved>>
table == <<budget, expenses, rows, spent, red, pie>>
vars == <<ctx, store, budgets, screen, budget, expenses, rows, spent, red, pie,
          unsaved, misread>>

Objects == [budgets : Seq(Budget), expenses : Seq(Expense)]

\* A list without one of its objects.
Without(list, o) == Keep(list, {i \in DOMAIN list : list[i] # o})

\* calculateTotalExpenses.
Total(list) == FoldLeft(LAMBDA sum, e : sum + e.amount, 0, list)

\* The predicate of both fetches of expenses: (amount > 0) AND (budget = %@).
Matching(c, b) ==
    Keep(c.expenses, {i \in DOMAIN c.expenses : c.expenses[i].amount > 0
                                               /\ c.expenses[i].budget = b.id})

\* getExpenses sorts by timestamp, newest first.
Newest(c, b) == Reverse(Matching(c, b))

\* delete of a budget: the model cascades to its expenses.
DropBudget(c, b) ==
    [budgets |-> Without(c.budgets, b),
     expenses |-> Keep(c.expenses, {i \in DOMAIN c.expenses : c.expenses[i].budget # b.id})]

DropExpense(c, e) == [c EXCEPT !.expenses = Without(@, e)]

NoTable ==
    /\ budget' = Nil /\ expenses' = <<>> /\ rows' = <<>>
    /\ spent' = 0 /\ red' = FALSE /\ pie' = <<>>
-----------------------------------------------------------------------------
Init ==
    /\ ctx = [budgets |-> <<>>, expenses |-> <<>>]
    /\ store = ctx
    /\ budgets = <<>>
    /\ screen = "down"
    /\ budget = Nil /\ expenses = <<>> /\ rows = <<>>
    /\ spent = 0 /\ red = FALSE /\ pie = <<>>
    /\ unsaved = FALSE
    /\ misread = FALSE

\* The process dies: killed, or trapped (fatalError, an index out of range).
\* AppDelegate saves a container of its own, never this context.
GoDown ==
    /\ screen' = "down"
    /\ ctx' = store
    /\ budgets' = <<>>
    /\ NoTable
    /\ unsaved' = FALSE
    /\ misread' = FALSE
    /\ UNCHANGED store

Crash == screen # "down" /\ GoDown

\* BudgetViewController.viewDidLoad.
Launch ==
    /\ screen = "down"
    /\ screen' = "budgets"
    /\ \/ budgets' = ctx.budgets /\ UNCHANGED misread
       \/ FetchMayFail /\ misread' = TRUE /\ UNCHANGED budgets
    /\ UNCHANGED <<data, table>>

\* Mutant: a save that throws is only printed.
SaveContext_Prints(c) ==
    /\ ctx' = c
    /\ \/ store' = c /\ unsaved' = FALSE
       \/ SaveMayFail /\ unsaved' = TRUE /\ UNCHANGED store

\* DataManager.saveContext when the save goes through; it is fatal otherwise,
\* and its callers go down.
SaveContext(c) == ctx' = c /\ store' = c /\ unsaved' = FALSE

\* The new object is one that nothing refers to.
NewBudget(b) ==
    \A o \in Range(ctx.budgets \o store.budgets \o budgets) : o.id # b.id

NewExpense(e) ==
    \A o \in Range(ctx.expenses \o store.expenses \o expenses \o rows \o pie) : o.id # e.id

\* saveBudget, with a title and a whole amount; fatalError when the save throws.
SaveBudget(b) ==
    /\ screen = "budgets"
    /\ NewBudget(b)
    /\ \/ /\ SaveContext([ctx EXCEPT !.budgets = Append(@, b)])
          /\ budgets' = Append(budgets, b)
          /\ UNCHANGED <<screen, table, misread>>
       \/ SaveMayFail /\ GoDown

\* Mutant: the row is looked up in a list with the newest budget first.
DeleteBudget_NewestFirst(row) ==
    /\ screen = "budgets"
    /\ row \in DOMAIN budgets \cap DOMAIN ctx.budgets
    /\ budgets' = RemoveAt(budgets, row)
    /\ SaveContext(DropBudget(ctx, Reverse(ctx.budgets)[row]))
    /\ UNCHANGED <<screen, table, misread>>

\* A swipe on a budget: the row goes, then DataManager.deleteBudget(idx:).
DeleteBudget(row) ==
    /\ screen = "budgets"
    /\ row \in DOMAIN budgets
    /\ \/ /\ ctx' = DropBudget(ctx, ctx.budgets[row])
          /\ \/ store' = ctx' /\ unsaved' = FALSE
             \/ SaveMayFail /\ unsaved' = TRUE /\ UNCHANGED store
          /\ budgets' = RemoveAt(budgets, row)
          /\ UNCHANGED <<screen, table, misread>>
       \/ /\ FetchMayFail
          /\ budgets' = RemoveAt(budgets, row)
          /\ misread' = TRUE
          /\ UNCHANGED <<data, screen, table>>
-----------------------------------------------------------------------------
\* openExpenses, then viewDidLoad of the expenses: setupExpenses, setupPieChart.
\* A row whose budget is gone traps on its amount: see Crash.
OpenExpenses(row) ==
    /\ screen = "budgets"
    /\ row \in DOMAIN budgets
    /\ budgets[row] \in Range(ctx.budgets)
    /\ screen' = "expenses"
    /\ budget' = budgets[row]
    /\ \/ expenses' = Newest(ctx, budget') /\ UNCHANGED misread
       \/ FetchMayFail /\ expenses' = <<>> /\ misread' = TRUE
    /\ rows' = expenses'
    /\ spent' = Total(expenses')
    /\ red' = (spent' > budget'.amount)
    /\ pie' = expenses'
    /\ UNCHANGED <<data, budgets>>

\* Mutant: the expenses controller keeps its budget and its list.
Back_KeepsTable ==
    /\ screen = "expenses"
    /\ screen' = "budgets"
    /\ UNCHANGED <<data, budgets, table, misread>>

\* Back to the budgets, whose controller kept its list.
Back ==
    /\ screen = "expenses"
    /\ screen' = "budgets"
    /\ NoTable
    /\ UNCHANGED <<data, budgets, misread>>

AddExpense ==
    /\ screen = "expenses"
    /\ screen' = "addExpense"
    /\ UNCHANGED <<data, budgets, table, misread>>

CancelAdd ==
    /\ screen = "addExpense"
    /\ screen' = "expenses"
    /\ UNCHANGED <<data, budgets, table, misread>>

\* Mutant: the label is worked out before the new expense is appended.
SaveExpense_LabelFirst(e) ==
    /\ screen = "addExpense"
    /\ e.budget = budget.id /\ NewExpense(e)
    /\ SaveContext([ctx EXCEPT !.expenses = Append(@, e)])
    /\ expenses' = Append(expenses, e)
    /\ rows' = expenses'
    /\ spent' = Total(expenses)
    /\ red' = (spent' > budget.amount)
    /\ pie' = expenses'
    /\ screen' = "expenses"
    /\ UNCHANGED <<budgets, budget, misread>>

\* saveExpense and didAddExpense: appended last, whatever the sort, and saved.
SaveExpense(e) ==
    /\ screen = "addExpense"
    /\ e.budget = budget.id /\ NewExpense(e)
    /\ \/ /\ SaveContext([ctx EXCEPT !.expenses = Append(@, e)])
          /\ expenses' = Append(expenses, e)
          /\ rows' = expenses'
          /\ spent' = Total(expenses')
          /\ red' = (spent' > budget.amount)
          /\ pie' = expenses'
          /\ screen' = "expenses"
          /\ UNCHANGED <<budgets, budget, misread>>
       \/ SaveMayFail /\ GoDown

\* A swipe on an expense.  The row goes; deleteExpense(idx:) fetches without a
\* sort and deletes what is at that row, which need not be what the row showed;
\* the label counts the rows left (an object just deleted may still tell its
\* amount, or have lost it); the list is fetched again, the table not reloaded.
\* The table must lose exactly one row, and the fetch must reach the row.
DeleteExpense(row) ==
    /\ screen = "expenses"
    /\ row \in DOMAIN rows
    /\ LET found == Matching(ctx, budget)
           left == RemoveAt(expenses, row)
       IN
       \/ /\ Len(expenses) = Len(rows)
          /\ row \in DOMAIN found
          /\ SaveContext(DropExpense(ctx, found[row]))
          /\ spent' \in {Total(left), Total(Without(left, found[row]))}
          /\ \/ expenses' = Newest(ctx', budget) /\ UNCHANGED misread
             \/ FetchMayFail /\ expenses' = <<>> /\ misread' = TRUE
          /\ rows' = RemoveAt(rows, row)
          /\ UNCHANGED <<budgets, screen, budget, red, pie>>
       \/ /\ FetchMayFail
          /\ Len(expenses) = Len(rows)
          /\ spent' = Total(left)
          /\ expenses' \in {Newest(ctx, budget), <<>>}
          /\ misread' = TRUE
          /\ rows' = RemoveAt(rows, row)
          /\ UNCHANGED <<data, budgets, screen, budget, red, pie>>
       \/ (Len(expenses) # Len(rows) \/ row \notin DOMAIN found \/ SaveMayFail) /\ GoDown
-----------------------------------------------------------------------------
Next ==
    \/ Crash \/ Launch \/ Back \/ AddExpense \/ CancelAdd
    \/ \E b \in Budget : SaveBudget(b)
    \/ \E e \in Expense : SaveExpense(e)
    \/ \E row \in DOMAIN budgets : DeleteBudget(row) \/ OpenExpenses(row)
    \/ \E row \in DOMAIN rows : DeleteExpense(row)

Spec == Init /\ [][Next]_vars
-----------------------------------------------------------------------------
(***************************************************************************)
(* Properties.                                                             *)
(***************************************************************************)
\* Every variable has its type; a table of expenses has its budget.
TypeOK ==
    /\ ctx \in Objects /\ store \in Objects
    /\ budgets \in Seq(Budget)
    /\ screen \in {"down", "budgets", "expenses", "addExpense"}
    /\ budget \in Budget \cup {Nil}
    /\ budget # Nil <=> screen \in {"expenses", "addExpense"}
    /\ expenses \in Seq(Expense) /\ rows \in Seq(Expense) /\ pie \in Seq(Expense)
    /\ spent \in Nat
    /\ red \in BOOLEAN /\ unsaved \in BOOLEAN /\ misread \in BOOLEAN

\* What the user sees is on disk: saveContext stops the app rather than go on
\* unsaved, so only a deleted budget whose save threw can come back, and what
\* is added later never depends on it.
SeenIsSaved ==
    /\ Range(ctx.budgets) \subseteq Range(store.budgets)
    /\ Range(ctx.expenses) \subseteq Range(store.expenses)
    /\ ~unsaved => ctx = store

\* No expense outlives its budget, on disk or in memory, whichever saves throw.
NoOrphans ==
    \A c \in {ctx, store} : \A e \in Range(c.expenses) :
        \E b \in Range(c.budgets) : b.id = e.budget

\* Both, whichever saves throw and whenever the process is killed.
StoreSound == SeenIsSaved /\ NoOrphans

\* The budgets table and the unsorted fetch of deleteBudget(idx:) agree row by
\* row, whatever was added, deleted or lost since the table was filled; a fetch
\* that threw can hide budgets, yet leaves a swiped row within the fetch.
BudgetRowsMatch ==
    /\ screen # "down" /\ ~misread => budgets = ctx.budgets
    /\ Len(budgets) <= Len(ctx.budgets)

\* The label is worked out from everything the budget holds on disk: opening
\* it, or adding to it, leaves the label red exactly when the stored expenses
\* exceed the budget, even after deletions that hit another row's expense.
OverBudgetExact ==
    [][(/\ screen' = "expenses" /\ ~misread'
        /\ screen = "budgets" \/ (screen = "addExpense" /\ ctx' # ctx))
        => (red' <=> Total(Matching(store', budget')) > budget'.amount)]_vars

\* A swipe deletes the expense its row shows ("delete ... individual expenses").
DeletesItsRow ==
    [][\A row \in DOMAIN rows :
          DeleteExpense(row) /\ screen' = "expenses" /\ ~misread' =>
              rows[row] \notin Range(ctx'.expenses)]_vars
=============================================================================
