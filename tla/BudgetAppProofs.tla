--------------------------- MODULE BudgetAppProofs ---------------------------
(***************************************************************************)
(* What holds of the Budget app for any budgets, expenses and amounts,     *)
(* however many there are and whichever saves and fetches throw.           *)
(***************************************************************************)
EXTENDS BudgetApp, ListFacts

-----------------------------------------------------------------------------
(***************************************************************************)
(* Sums of expenses.                                                       *)
(***************************************************************************)
AddAmount(sum, e) == sum + e.amount

F == INSTANCE ListFacts WITH op <- AddAmount

LEMMA TotalIs ==
    ASSUME NEW list
    PROVE  Total(list) = F!Folded(0, list)
BY DEF Total, AddAmount, F!Folded, FoldLeft, F!FoldLeft, MapThenFoldSet, F!MapThenFoldSet,
   Max, F!Max

LEMMA TotalOfNone == Total(<<>>) = 0
BY TotalIs, F!FoldedEmpty

LEMMA TotalOfAppend ==
    ASSUME NEW list \in Seq(Expense), NEW e \in Expense
    PROVE  Total(Append(list, e)) = Total(list) + e.amount
<1>1. F!Folded(0, Append(list, e)) = AddAmount(F!Folded(0, list), e)
  BY F!FoldedAppend
<1> QED
  BY <1>1, TotalIs DEF AddAmount

LEMMA AmountIs ==
    ASSUME NEW e \in Expense
    PROVE  e.amount \in Nat
BY AmountsAssumption DEF Expense

LEMMA TotalType ==
    ASSUME NEW list \in Seq(Expense)
    PROVE  Total(list) \in Nat
<1> DEFINE T == {s \in Seq(Expense) : Total(s) \in Nat}
<1>1. <<>> \in T
  BY TotalOfNone
<1>2. ASSUME NEW s \in Seq(Expense), NEW e \in Expense, s \in T
      PROVE  Append(s, e) \in T
  <2>1. Total(Append(s, e)) = Total(s) + e.amount /\ e.amount \in Nat /\ Total(s) \in Nat
    BY <1>2, TotalOfAppend, AmountIs
  <2>2. Append(s, e) \in Seq(Expense)
    BY AppendIs
  <2> QED
    BY <2>1, <2>2
<1> HIDE DEF T
<1>3. list \in T
  BY <1>1, <1>2, ListInduction
<1> QED
  BY <1>3 DEF T

LEMMA ConcatAppend ==
    ASSUME NEW E, NEW s \in Seq(E), NEW t \in Seq(E), NEW e \in E
    PROVE  s \o Append(t, e) = Append(s \o t, e)
OBVIOUS

LEMMA TotalOfConcat ==
    ASSUME NEW s \in Seq(Expense), NEW list \in Seq(Expense)
    PROVE  Total(s \o list) = Total(s) + Total(list)
<1> DEFINE T == {t \in Seq(Expense) : Total(s \o t) = Total(s) + Total(t)}
<1>1. <<>> \in T
  <2>1. s \o <<>> = s /\ <<>> \in Seq(Expense)
    OBVIOUS
  <2>2. Total(s) \in Nat
    BY TotalType
  <2> QED
    BY <2>1, <2>2, TotalOfNone
<1>2. ASSUME NEW t \in Seq(Expense), NEW e \in Expense, t \in T
      PROVE  Append(t, e) \in T
  <2>1. s \o Append(t, e) = Append(s \o t, e)
    BY ConcatAppend
  <2>2. s \o t \in Seq(Expense) /\ Append(t, e) \in Seq(Expense)
    BY ConcatIs, AppendIs
  <2>3. Total(Append(s \o t, e)) = Total(s \o t) + e.amount
    BY <2>2, TotalOfAppend
  <2>4. Total(Append(t, e)) = Total(t) + e.amount
    BY TotalOfAppend
  <2>5. Total(s) \in Nat /\ Total(t) \in Nat /\ e.amount \in Nat
    BY TotalType, AmountIs
  <2> QED
    <3>1. Total(s \o t) = Total(s) + Total(t)
      BY <1>2
    <3>2. Total(s \o Append(t, e)) = Total(s) + Total(Append(t, e))
      BY <2>1, <2>3, <2>4, <2>5, <3>1
    <3> QED
      BY <2>2, <3>2
<1> HIDE DEF T
<1>3. list \in T
  BY <1>1, <1>2, ListInduction
<1> QED
  BY <1>3 DEF T

\* What the label shows does not depend on the order of the list.
LEMMA TotalOfReverse ==
    ASSUME NEW list \in Seq(Expense)
    PROVE  Total(Reverse(list)) = Total(list)
<1> DEFINE T == {s \in Seq(Expense) : Total(Reverse(s)) = Total(s)}
<1>1. <<>> \in T
  <2>1. Reverse(<<>>) = <<>> /\ <<>> \in Seq(Expense)
    BY DEF Reverse
  <2> QED
    BY <2>1
<1>2. ASSUME NEW s \in Seq(Expense), NEW e \in Expense, s \in T
      PROVE  Append(s, e) \in T
  <2>1. Reverse(Append(s, e)) = <<e>> \o Reverse(s)
    BY ReverseAppend
  <2>2. Reverse(s) \in Seq(Expense) /\ Append(s, e) \in Seq(Expense)
    BY ReverseIs, AppendIs
  <2>3. <<e>> \in Seq(Expense) /\ <<e>> = Append(<<>>, e) /\ <<>> \in Seq(Expense)
    OBVIOUS
  <2>4. Total(<<e>>) = 0 + e.amount
    BY <2>3, TotalOfAppend, TotalOfNone
  <2>5. Total(<<e>> \o Reverse(s)) = Total(<<e>>) + Total(Reverse(s))
    BY <2>2, <2>3, TotalOfConcat
  <2>6. Total(Append(s, e)) = Total(s) + e.amount
    BY TotalOfAppend
  <2>7. Total(s) \in Nat /\ e.amount \in Nat /\ Total(Reverse(s)) = Total(s)
    BY <1>2, TotalType, AmountIs
  <2>8. Total(Reverse(Append(s, e))) = Total(Append(s, e))
    BY <2>1, <2>4, <2>5, <2>6, <2>7
  <2> QED
    BY <2>2, <2>8
<1> HIDE DEF T
<1>3. list \in T
  BY <1>1, <1>2, ListInduction
<1> QED
  BY <1>3 DEF T

-----------------------------------------------------------------------------
(***************************************************************************)
(* Lists of objects.                                                       *)
(***************************************************************************)
LEMMA KeptIs ==
    ASSUME NEW E, NEW list \in Seq(E), NEW S \in SUBSET DOMAIN list
    PROVE  /\ Keep(list, S) \in Seq(E)
           /\ \A o : o \in Range(Keep(list, S)) <=> \E i \in S : list[i] = o
<1> DEFINE k == Keep(list, S)
           m == Cardinality(S)
<1>1. /\ k \in Seq(E) /\ DOMAIN k = 1 .. m
      /\ \A n \in 1 .. m : Ascending(S)[n] \in S /\ k[n] = list[Ascending(S)[n]]
      /\ \A i \in S : \E n \in 1 .. m : k[n] = list[i]
  BY KeepIs
<1> HIDE DEF k, m
<1>2. \A o : o \in Range(k) <=> \E i \in S : list[i] = o
  BY <1>1 DEF Range
<1> QED
  BY <1>1, <1>2 DEF k

LEMMA AppendedIs ==
    ASSUME NEW E, NEW list \in Seq(E), NEW e \in E
    PROVE  \A o : o \in Range(Append(list, e)) <=> o \in Range(list) \/ o = e
<1> DEFINE new == Append(list, e)
           n == Len(list)
<1>1. /\ new \in Seq(E) /\ Len(new) = n + 1 /\ n \in Nat
      /\ \A i \in 1 .. n : new[i] = list[i] /\ new[n + 1] = e
      /\ DOMAIN list = 1 .. n
  BY AppendIs, ListIs
<1>2. DOMAIN new = 1 .. (n + 1) /\ new[n + 1] = e
  BY <1>1, AppendIs, ListIs
<1> HIDE DEF new, n
<1>3. \A i \in 1 .. (n + 1) : i \in 1 .. n \/ i = n + 1
  BY <1>1
<1>4. n + 1 \in 1 .. (n + 1) /\ \A i \in 1 .. n : i \in 1 .. (n + 1)
  BY <1>1
<1>5. \A o : o \in Range(new) <=> o \in Range(list) \/ o = e
  BY <1>1, <1>2, <1>3, <1>4 DEF Range
<1> QED
  BY <1>5 DEF new

LEMMA ConcatHas ==
    ASSUME NEW E, NEW s \in Seq(E), NEW t \in Seq(E)
    PROVE  Range(s) \subseteq Range(s \o t)
<1> DEFINE all == s \o t
<1>1. /\ all \in Seq(E) /\ Len(all) = Len(s) + Len(t) /\ Len(s) \in Nat /\ Len(t) \in Nat
      /\ \A i \in 1 .. Len(s) : all[i] = s[i]
  BY ConcatIs, ListIs
<1>2. DOMAIN all = 1 .. Len(all) /\ DOMAIN s = 1 .. Len(s)
  BY <1>1, ListIs
<1> HIDE DEF all
<1>3. \A i \in DOMAIN s : i \in DOMAIN all /\ all[i] = s[i]
  BY <1>1, <1>2
<1>4. Range(s) \subseteq Range(all)
  BY <1>3 DEF Range
<1> QED
  BY <1>4 DEF all

LEMMA InRange ==
    ASSUME NEW E, NEW list \in Seq(E)
    PROVE  /\ \A o \in Range(list) : o \in E
           /\ \A i \in DOMAIN list : list[i] \in Range(list)
BY ListIs DEF Range

-----------------------------------------------------------------------------
(***************************************************************************)
(* The context and the store.                                              *)
(***************************************************************************)
UniqueIds(list) == \A i, j \in DOMAIN list : list[i].id = list[j].id => i = j

\* Budgets have identities of their own, and every expense has its budget.
Good(c) ==
    /\ c \in Objects
    /\ UniqueIds(c.budgets)
    /\ \A e \in Range(c.expenses) : \E b \in Range(c.budgets) : b.id = e.budget

\* What is on disk of a budget the context has is what the context has of it.
Agree == \A b \in Range(ctx.budgets) : Matching(store, b) = Matching(ctx, b)

DataInv == Good(ctx) /\ Good(store) /\ SeenIsSaved /\ Agree

LEMMA ObjectsAre ==
    ASSUME NEW c \in Objects
    PROVE  /\ c.budgets \in Seq(Budget) /\ c.expenses \in Seq(Expense)
           /\ \A s \in Seq(Budget) :
                 /\ [c EXCEPT !.budgets = s] \in Objects
                 /\ [c EXCEPT !.budgets = s].budgets = s
                 /\ [c EXCEPT !.budgets = s].expenses = c.expenses
           /\ \A s \in Seq(Expense) :
                 /\ [c EXCEPT !.expenses = s] \in Objects
                 /\ [c EXCEPT !.expenses = s].expenses = s
                 /\ [c EXCEPT !.expenses = s].budgets = c.budgets
BY DEF Objects

LEMMA MatchingIs ==
    ASSUME NEW c \in Objects, NEW b
    PROVE  Matching(c, b) \in Seq(Expense)
<1>1. c.expenses \in Seq(Expense)
  BY ObjectsAre
<1> QED
  BY <1>1, KeptIs DEF Matching

\* A save that goes through: both are the same.
LEMMA Saved ==
    ASSUME Good(ctx'), store' = ctx'
    PROVE  DataInv'
BY DEF DataInv, SeenIsSaved, Agree

LEMMA BudgetAdded ==
    ASSUME NEW c, Good(c), NEW b \in Budget, \A o \in Range(c.budgets) : o.id # b.id
    PROVE  /\ Good([c EXCEPT !.budgets = Append(@, b)])
           /\ [c EXCEPT !.budgets = Append(@, b)].budgets = Append(c.budgets, b)
<1> DEFINE list == c.budgets
           new == Append(list, b)
           d == [c EXCEPT !.budgets = new]
           n == Len(list)
<1>1. c \in Objects /\ list \in Seq(Budget)
  BY ObjectsAre DEF Good
<1>2. /\ new \in Seq(Budget) /\ Len(new) = n + 1 /\ n \in Nat
      /\ \A i \in 1 .. n : new[i] = list[i]
      /\ new[n + 1] = b /\ DOMAIN new = 1 .. (n + 1) /\ DOMAIN list = 1 .. n
  <2>1. /\ new \in Seq(Budget) /\ Len(new) = n + 1
        /\ \A i \in 1 .. n : new[i] = list[i]
        /\ new[n + 1] = b
    BY <1>1, AppendIs
  <2> QED
    BY <1>1, <2>1, ListIs
<1>3. \A o : o \in Range(new) <=> o \in Range(list) \/ o = b
  BY <1>1, AppendedIs
<1> HIDE DEF new
<1>4. d \in Objects /\ d.budgets = new /\ d.expenses = c.expenses
  BY <1>1, <1>2, ObjectsAre
<1> HIDE DEF d
<1>5. UniqueIds(new)
  <2>1. \A i \in 1 .. n : list[i].id # b.id
    BY <1>2, InRange, <1>1
  <2>2. \A i \in 1 .. (n + 1) : i \in 1 .. n \/ i = n + 1
    BY <1>2
  <2>3. \A i, j \in 1 .. n : list[i].id = list[j].id => i = j
    BY <1>2 DEF Good, UniqueIds
  <2> QED
    BY <1>2, <2>1, <2>2, <2>3 DEF UniqueIds
<1>6. \A e \in Range(d.expenses) : \E o \in Range(d.budgets) : o.id = e.budget
  BY <1>3, <1>4 DEF Good
<1>7. Good(d)
  BY <1>4, <1>5, <1>6 DEF Good
<1> QED
  BY <1>4, <1>7 DEF d, new

LEMMA ExpenseAdded ==
    ASSUME NEW c, Good(c), NEW e \in Expense, \E b \in Range(c.budgets) : b.id = e.budget
    PROVE  /\ Good([c EXCEPT !.expenses = Append(@, e)])
           /\ [c EXCEPT !.expenses = Append(@, e)].budgets = c.budgets
           /\ [c EXCEPT !.expenses = Append(@, e)].expenses = Append(c.expenses, e)
<1> DEFINE new == Append(c.expenses, e)
           d == [c EXCEPT !.expenses = new]
<1>1. c \in Objects /\ c.expenses \in Seq(Expense)
  BY ObjectsAre DEF Good
<1>2. new \in Seq(Expense) /\ \A o : o \in Range(new) <=> o \in Range(c.expenses) \/ o = e
  BY <1>1, AppendIs, AppendedIs
<1> HIDE DEF new
<1>3. d \in Objects /\ d.expenses = new /\ d.budgets = c.budgets
  BY <1>1, <1>2, ObjectsAre
<1> HIDE DEF d
<1>4. \A x \in Range(d.expenses) : \E b \in Range(d.budgets) : b.id = x.budget
  BY <1>2, <1>3 DEF Good
<1>5. Good(d)
  BY <1>3, <1>4 DEF Good
<1> QED
  BY <1>3, <1>5 DEF d, new

LEMMA WithoutIs ==
    ASSUME NEW E, NEW list \in Seq(E), NEW o
    PROVE  /\ Without(list, o) \in Seq(E)
           /\ \A x : x \in Range(Without(list, o)) <=> x \in Range(list) /\ x # o
<1> DEFINE S == {i \in DOMAIN list : list[i] # o}
<1>1. S \in SUBSET DOMAIN list
  OBVIOUS
<1> HIDE DEF S
<1>2. /\ Keep(list, S) \in Seq(E)
      /\ \A x : x \in Range(Keep(list, S)) <=> \E i \in S : list[i] = x
  BY <1>1, KeptIs
<1>3. \A x : (\E i \in S : list[i] = x) <=> x \in Range(list) /\ x # o
  BY DEF S, Range
<1> QED
  BY <1>2, <1>3 DEF Without, S

\* With identities of their own, taking out an object is removing its row.
LEMMA WithoutRow ==
    ASSUME NEW list \in Seq(Budget), UniqueIds(list), NEW row \in DOMAIN list
    PROVE  Without(list, list[row]) = RemoveAt(list, row)
<1> DEFINE S == {i \in DOMAIN list : list[i] # list[row]}
<1>1. \A i \in DOMAIN list : list[i] = list[row] => i = row
  BY DEF UniqueIds
<1>2. S = DOMAIN list \ {row}
  BY <1>1
<1>3. row \in 1 .. Len(list)
  BY ListIs
<1>4. Keep(list, DOMAIN list \ {row}) = RemoveAt(list, row)
  BY <1>3, KeepAllButOne
<1> QED
  BY <1>2, <1>4 DEF Without

LEMMA UniqueKept ==
    ASSUME NEW list \in Seq(Budget), UniqueIds(list), NEW S \in SUBSET DOMAIN list
    PROVE  UniqueIds(Keep(list, S))
<1> DEFINE k == Keep(list, S)
           a == Ascending(S)
           m == Cardinality(S)
<1>1. /\ m \in Nat /\ DOMAIN k = 1 .. m
      /\ \A n \in 1 .. m : a[n] \in S /\ k[n] = list[a[n]]
      /\ Increasing(a, m)
  BY KeepIs
<1>2. \A i \in S : i \in Int
  BY ListIs
<1> HIDE DEF k, a, m
<1> SUFFICES ASSUME NEW i \in 1 .. m, NEW j \in 1 .. m, k[i].id = k[j].id
             PROVE  i = j
  BY <1>1 DEF UniqueIds, k
<1>3. a[i] = a[j]
  BY <1>1 DEF UniqueIds
<1>4. a[i] \in Int
  BY <1>1, <1>2
<1>5. ~(i < j) /\ ~(j < i)
  BY <1>1, <1>3, <1>4 DEF Increasing
<1> QED
  BY <1>1, <1>5

\* The cascade leaves the expenses of the other budgets, in their order.
LEMMA MatchingOfOthers ==
    ASSUME NEW c \in Objects, NEW x, NEW b, b.id # x.id
    PROVE  Matching(DropBudget(c, x), b) = Matching(c, b)
<1> DEFINE list == c.expenses
           S == {i \in DOMAIN list : list[i].budget # x.id}
           U == {i \in DOMAIN list : list[i].amount > 0 /\ list[i].budget = b.id}
           k == Keep(list, S)
           V == {n \in DOMAIN k : k[n].amount > 0 /\ k[n].budget = b.id}
<1>1. list \in Seq(Expense)
  BY ObjectsAre
<1>2. S \in SUBSET DOMAIN list /\ U \in SUBSET S
  OBVIOUS
<1>3. Matching(c, b) = Keep(list, U)
  BY DEF Matching
<1>4. Matching(DropBudget(c, x), b) = Keep(k, V)
  BY DEF Matching, DropBudget
<1>5. \A i \in DOMAIN list : i \in U <=> list[i].amount > 0 /\ list[i].budget = b.id
  OBVIOUS
<1> HIDE DEF list, S, U
<1>6. \A n \in DOMAIN k : Ascending(S)[n] \in S /\ k[n] = list[Ascending(S)[n]]
  BY <1>1, <1>2, KeepIs, SMTT(30)
<1>7. Keep(k, {n \in DOMAIN k : Ascending(S)[n] \in U}) = Keep(list, U)
  BY <1>1, <1>2, KeepOfKeep
<1> HIDE DEF k
<1>8. V = {n \in DOMAIN k : Ascending(S)[n] \in U}
  BY <1>2, <1>5, <1>6
<1> QED
  BY <1>3, <1>4, <1>7, <1>8

LEMMA BudgetDropped ==
    ASSUME NEW c, Good(c), NEW row \in DOMAIN c.budgets
    PROVE  LET d == DropBudget(c, c.budgets[row])
           IN  /\ Good(d)
               /\ d.budgets = RemoveAt(c.budgets, row)
               /\ Range(d.budgets) \subseteq Range(c.budgets)
               /\ Range(d.expenses) \subseteq Range(c.expenses)
               /\ \A b \in Range(d.budgets) : Matching(d, b) = Matching(c, b)
<1> DEFINE x == c.budgets[row]
           d == DropBudget(c, x)
           S == {i \in DOMAIN c.budgets : c.budgets[i] # x}
           U == {i \in DOMAIN c.expenses : c.expenses[i].budget # x.id}
<1>1. c \in Objects /\ c.budgets \in Seq(Budget) /\ c.expenses \in Seq(Expense)
  BY ObjectsAre DEF Good
<1>2. /\ d.budgets = Without(c.budgets, x) /\ d.expenses = Keep(c.expenses, U)
      /\ d = [budgets |-> d.budgets, expenses |-> d.expenses]
  BY DEF DropBudget
<1>3. d.budgets = RemoveAt(c.budgets, row)
  BY <1>1, <1>2, WithoutRow DEF Good
<1>4. S \in SUBSET DOMAIN c.budgets /\ U \in SUBSET DOMAIN c.expenses
  OBVIOUS
<1>5. Without(c.budgets, x) = Keep(c.budgets, S)
  BY DEF Without
<1>6. \A i \in DOMAIN c.expenses : i \in U <=> c.expenses[i].budget # x.id
  OBVIOUS
<1> HIDE DEF S, U, d
<1>7. UniqueIds(d.budgets)
  BY <1>1, <1>2, <1>4, <1>5, UniqueKept DEF Good
<1>8. /\ d.budgets \in Seq(Budget)
      /\ \A b : b \in Range(d.budgets) <=> b \in Range(c.budgets) /\ b # x
  BY <1>1, <1>2, WithoutIs
<1>9. /\ d.expenses \in Seq(Expense)
      /\ \A e : e \in Range(d.expenses) <=> \E i \in U : c.expenses[i] = e
  BY <1>1, <1>2, <1>4, KeptIs
<1>10. d \in Objects
  BY <1>2, <1>8, <1>9 DEF Objects
<1>11. \A e \in Range(d.expenses) : e \in Range(c.expenses) /\ e.budget # x.id
  BY <1>4, <1>6, <1>9 DEF Range
<1>12. \A e \in Range(d.expenses) : \E b \in Range(d.budgets) : b.id = e.budget
  <2> TAKE e \in Range(d.expenses)
  <2>1. PICK b \in Range(c.budgets) : b.id = e.budget
    BY <1>11 DEF Good
  <2>2. b # x
    BY <1>11, <2>1
  <2> QED
    BY <1>8, <2>1, <2>2
<1>13. Good(d)
  BY <1>7, <1>10, <1>12 DEF Good
<1>14. ASSUME NEW b \in Range(d.budgets)
       PROVE  Matching(d, b) = Matching(c, b)
  <2>1. b \in Range(c.budgets) /\ b # x
    BY <1>8
  <2>2. b.id # x.id
    BY <2>1 DEF Good, UniqueIds, Range
  <2> QED
    BY <1>1, <2>2, MatchingOfOthers DEF d
<1> QED
  BY <1>3, <1>8, <1>11, <1>13, <1>14 DEF d

LEMMA ExpenseDropped ==
    ASSUME NEW c, Good(c), NEW e
    PROVE  Good(DropExpense(c, e)) /\ DropExpense(c, e).budgets = c.budgets
<1> DEFINE left == Without(c.expenses, e)
           d == [c EXCEPT !.expenses = left]
<1>1. c \in Objects /\ c.expenses \in Seq(Expense)
  BY ObjectsAre DEF Good
<1>2. left \in Seq(Expense) /\ \A o : o \in Range(left) => o \in Range(c.expenses)
  BY <1>1, WithoutIs
<1> HIDE DEF left
<1>3. d \in Objects /\ d.expenses = left /\ d.budgets = c.budgets
  BY <1>1, <1>2, ObjectsAre
<1> HIDE DEF d
<1>4. \A o \in Range(d.expenses) : \E b \in Range(d.budgets) : b.id = o.budget
  BY <1>2, <1>3 DEF Good
<1>5. Good(d)
  BY <1>3, <1>4 DEF Good
<1> QED
  BY <1>3, <1>5 DEF DropExpense, d, left

\* An expense that is added is counted, whether or not the fetch finds it.
LEMMA TotalWithOneMore ==
    ASSUME NEW c \in Objects, NEW d, NEW e \in Expense, NEW b, e.budget = b.id,
           d.expenses = Append(c.expenses, e)
    PROVE  Total(Matching(d, b)) = Total(Matching(c, b)) + e.amount
<1> DEFINE list == c.expenses
           new == Append(list, e)
           n == Len(list)
           S == {i \in DOMAIN list : list[i].amount > 0 /\ list[i].budget = b.id}
           U == {i \in DOMAIN new : new[i].amount > 0 /\ new[i].budget = b.id}
<1>1. list \in Seq(Expense)
  BY ObjectsAre
<1>2. /\ n \in Nat /\ DOMAIN list = 1 .. n
      /\ DOMAIN new = 1 .. (n + 1) /\ new[n + 1] = e
      /\ \A i \in 1 .. n : new[i] = list[i]
  <2>1. /\ new \in Seq(Expense) /\ Len(new) = n + 1
        /\ \A i \in 1 .. n : new[i] = list[i]
        /\ new[n + 1] = e
    BY <1>1, AppendIs
  <2> QED
    BY <1>1, <2>1, ListIs
<1>3. Matching(c, b) = Keep(list, S) /\ Matching(d, b) = Keep(new, U)
  BY DEF Matching
<1>4. S \in SUBSET DOMAIN list
  OBVIOUS
<1>5. \A i \in 1 .. (n + 1) : i \in 1 .. n \/ i = n + 1
  BY <1>2
<1>6. e.amount \in Nat
  BY AmountIs
<1>7. IF e.amount > 0 THEN U = S \cup {n + 1} ELSE U = S
  <2> HIDE DEF new, n
  <2>1. \A i \in 1 .. n : i \in 1 .. (n + 1) /\ i # n + 1 /\ (i \in S <=> i \in U)
    BY <1>2
  <2>2. n + 1 \in 1 .. (n + 1) /\ (n + 1 \in U <=> e.amount > 0)
    BY <1>2
  <2>3. \A i \in U : i \in 1 .. n \/ i = n + 1
    BY <1>2, <1>5
  <2>4. \A i \in S : i \in 1 .. n
    BY <1>2
  <2> HIDE DEF U, S
  <2>5. CASE e.amount > 0
    BY <2>1, <2>2, <2>3, <2>4, <2>5
  <2>6. CASE ~(e.amount > 0)
    <3>1. \A i \in U : i \in S
      BY <2>1, <2>2, <2>3, <2>6
    <3>2. \A i \in S : i \in U
      BY <2>1, <2>4
    <3>3. U = S
      BY <3>1, <3>2
    <3> QED
      BY <2>6, <3>3
  <2> QED
    BY <2>5, <2>6
<1> HIDE DEF U, S
<1>8. /\ Keep(new, S) = Keep(list, S)
      /\ Keep(new, S \cup {n + 1}) = Append(Keep(list, S), e)
  <2> HIDE DEF list
  <2>1. list \in Seq(Expense) /\ S \in SUBSET DOMAIN list
    BY <1>1, <1>4
  <2> QED
    BY <2>1, KeepAppend
<1>9. Keep(list, S) \in Seq(Expense)
  BY <1>1, <1>4, KeptIs
<1>10. /\ Total(Append(Keep(list, S), e)) = Total(Keep(list, S)) + e.amount
       /\ Total(Keep(list, S)) \in Nat
  BY <1>9, TotalOfAppend, TotalType
<1> HIDE DEF new, n, list
<1>11. CASE e.amount > 0
  BY <1>3, <1>7, <1>8, <1>10, <1>11
<1>12. CASE ~(e.amount > 0)
  <2>1. e.amount = 0
    BY <1>6, <1>12
  <2> QED
    BY <1>3, <1>7, <1>8, <1>10, <1>12, <2>1
<1> QED
  BY <1>11, <1>12

LEMMA NewestIs ==
    ASSUME NEW c \in Objects, NEW b
    PROVE  Newest(c, b) \in Seq(Expense) /\ Total(Newest(c, b)) = Total(Matching(c, b))
BY MatchingIs, ReverseIs, TotalOfReverse DEF Newest

-----------------------------------------------------------------------------
(***************************************************************************)
(* The invariant.                                                          *)
(***************************************************************************)
\* The budget of an open table is one the context has, and what the controller
\* lists of it adds up to what the context holds of it, in whatever order.
OpenInv ==
    budget # Nil =>
       /\ budget \in Range(ctx.budgets)
       /\ ~misread => Total(expenses) = Total(Matching(ctx, budget))

BudgetInv == TypeOK /\ DataInv /\ BudgetRowsMatch /\ OpenInv

LEMMA DataSame ==
    ASSUME DataInv, UNCHANGED data
    PROVE  DataInv'
BY DEF DataInv, SeenIsSaved, Agree, data

LEMMA NoneIs ==
    ASSUME NEW E
    PROVE  <<>> \in Seq(E) /\ Len(<<>>) = 0 /\ Range(<<>>) = {}
BY DEF Range

LEMMA InitStep ==
    ASSUME Init
    PROVE  BudgetInv
<1> DEFINE none == [budgets |-> <<>>, expenses |-> <<>>]
<1>1. /\ ctx = none /\ store = none /\ budgets = <<>> /\ screen = "down"
      /\ budget = Nil /\ expenses = <<>> /\ rows = <<>> /\ spent = 0 /\ red = FALSE
      /\ pie = <<>> /\ unsaved = FALSE /\ misread = FALSE
  BY DEF Init
<1>2. none \in Objects /\ none.budgets = <<>> /\ none.expenses = <<>>
  BY NoneIs DEF Objects
<1> HIDE DEF none
<1>3. TypeOK
  BY <1>1, <1>2, NoneIs DEF TypeOK
<1>4. Good(none)
  <2>1. UniqueIds(<<>>)
    BY DEF UniqueIds
  <2> QED
    BY <1>2, <2>1, NoneIs DEF Good
<1>5. DataInv
  BY <1>1, <1>4 DEF DataInv, SeenIsSaved, Agree
<1>6. BudgetRowsMatch /\ OpenInv
  BY <1>1, <1>2, NoneIs DEF BudgetRowsMatch, OpenInv
<1> QED
  BY <1>3, <1>5, <1>6 DEF BudgetInv

LEMMA GoDownStep ==
    ASSUME BudgetInv, GoDown
    PROVE  BudgetInv'
<1>1. /\ TypeOK /\ DataInv
      /\ screen' = "down" /\ ctx' = store /\ store' = store /\ budgets' = <<>>
      /\ budget' = Nil /\ expenses' = <<>> /\ rows' = <<>> /\ spent' = 0 /\ red' = FALSE
      /\ pie' = <<>> /\ unsaved' = FALSE /\ misread' = FALSE
  BY DEF BudgetInv, GoDown, NoTable
<1>2. TypeOK'
  BY <1>1, NoneIs DEF TypeOK
<1>3. DataInv'
  <2>1. Good(ctx') /\ store' = ctx'
    BY <1>1 DEF DataInv
  <2> QED
    BY <2>1, Saved
<1>4. BudgetRowsMatch'
  <2>1. Len(ctx'.budgets) \in Nat
    BY <1>1, ObjectsAre, ListIs DEF TypeOK
  <2> QED
    BY <1>1, <2>1, NoneIs DEF BudgetRowsMatch
<1>5. OpenInv'
  BY <1>1 DEF OpenInv
<1> QED
  BY <1>2, <1>3, <1>4, <1>5 DEF BudgetInv

LEMMA LaunchStep ==
    ASSUME BudgetInv, Launch
    PROVE  BudgetInv'
<1>1. /\ TypeOK /\ DataInv /\ BudgetRowsMatch /\ OpenInv
      /\ screen = "down" /\ screen' = "budgets"
      /\ \/ budgets' = ctx.budgets /\ misread' = misread
         \/ misread' = TRUE /\ budgets' = budgets
      /\ UNCHANGED <<data, table>>
  BY DEF BudgetInv, Launch
<1>2. ctx.budgets \in Seq(Budget) /\ Len(ctx.budgets) \in Nat
  BY <1>1, ObjectsAre, ListIs DEF TypeOK
<1>3. TypeOK'
  BY <1>1, <1>2 DEF TypeOK, data, table
<1>4. DataInv'
  BY <1>1, DataSame
<1>5. BudgetRowsMatch' /\ OpenInv'
  BY <1>1, <1>2 DEF BudgetRowsMatch, OpenInv, TypeOK, data, table
<1> QED
  BY <1>3, <1>4, <1>5 DEF BudgetInv

LEMMA SaveBudgetStep ==
    ASSUME BudgetInv, NEW b \in Budget, SaveBudget(b)
    PROVE  BudgetInv'
<1>1. TypeOK /\ DataInv /\ BudgetRowsMatch /\ OpenInv /\ screen = "budgets" /\ NewBudget(b)
  BY DEF BudgetInv, SaveBudget
<1>2. CASE /\ SaveContext([ctx EXCEPT !.budgets = Append(@, b)])
           /\ budgets' = Append(budgets, b)
           /\ UNCHANGED <<screen, table, misread>>
  <2> DEFINE c == [ctx EXCEPT !.budgets = Append(@, b)]
  <2>1. /\ ctx \in Objects /\ ctx.budgets \in Seq(Budget) /\ store.budgets \in Seq(Budget)
        /\ budgets \in Seq(Budget) /\ Good(ctx)
    BY <1>1, ObjectsAre DEF TypeOK, DataInv
  <2>2. \A o \in Range(ctx.budgets) : o.id # b.id
    <3>1. ctx.budgets \o store.budgets \in Seq(Budget)
      BY <2>1, ConcatIs
    <3>2. /\ Range(ctx.budgets) \subseteq Range(ctx.budgets \o store.budgets)
          /\ Range(ctx.budgets \o store.budgets)
               \subseteq Range((ctx.budgets \o store.budgets) \o budgets)
      BY <2>1, <3>1, ConcatHas
    <3> QED
      BY <1>1, <3>2 DEF NewBudget
  <2>3. Good(c) /\ c.budgets = Append(ctx.budgets, b)
    BY <2>1, <2>2, BudgetAdded
  <2>4. ctx' = c /\ store' = c /\ unsaved' = FALSE
    BY <1>2 DEF SaveContext
  <2> HIDE DEF c
  <2>5. DataInv'
    BY <2>3, <2>4, Saved
  <2>6. /\ budgets' \in Seq(Budget) /\ Len(budgets') = Len(budgets) + 1
        /\ Len(ctx'.budgets) = Len(ctx.budgets) + 1
        /\ Len(budgets) \in Nat /\ Len(ctx.budgets) \in Nat
    BY <1>2, <2>1, <2>3, <2>4, AppendIs, ListIs
  <2>7. TypeOK'
    BY <1>1, <1>2, <2>3, <2>4, <2>6 DEF TypeOK, Good, table
  <2>8. BudgetRowsMatch'
    BY <1>1, <1>2, <2>3, <2>4, <2>6 DEF BudgetRowsMatch
  <2>9. OpenInv'
    BY <1>1, <1>2 DEF OpenInv, TypeOK, table
  <2> QED
    BY <2>5, <2>7, <2>8, <2>9 DEF BudgetInv
<1>3. CASE GoDown
  BY <1>3, GoDownStep
<1> QED
  BY <1>2, <1>3 DEF SaveBudget

LEMMA DeleteBudgetStep ==
    ASSUME BudgetInv, NEW row \in DOMAIN budgets, DeleteBudget(row)
    PROVE  BudgetInv'
<1> DEFINE c == DropBudget(ctx, ctx.budgets[row])
<1>1. /\ TypeOK /\ DataInv /\ BudgetRowsMatch /\ OpenInv /\ screen = "budgets"
      /\ budgets' = RemoveAt(budgets, row) /\ UNCHANGED <<screen, table>>
      /\ \/ /\ ctx' = c
            /\ store' = c \/ (unsaved' = TRUE /\ store' = store)
            /\ unsaved' \in BOOLEAN
            /\ misread' = misread
         \/ misread' = TRUE /\ UNCHANGED data
  BY DEF BudgetInv, DeleteBudget
<1>2. /\ ctx \in Objects /\ ctx.budgets \in Seq(Budget) /\ budgets \in Seq(Budget)
      /\ Good(ctx) /\ Good(store)
      /\ Len(budgets) \in Nat /\ Len(ctx.budgets) \in Nat /\ Len(budgets) <= Len(ctx.budgets)
      /\ DOMAIN budgets = 1 .. Len(budgets) /\ DOMAIN ctx.budgets = 1 .. Len(ctx.budgets)
  BY <1>1, ObjectsAre, ListIs DEF TypeOK, DataInv, BudgetRowsMatch
<1>3. row \in 1 .. Len(budgets) /\ row \in 1 .. Len(ctx.budgets) /\ row \in DOMAIN ctx.budgets
  BY <1>2
<1>4. /\ budgets' \in Seq(Budget) /\ Len(budgets') = Len(budgets) - 1
      /\ Len(RemoveAt(ctx.budgets, row)) = Len(ctx.budgets) - 1
  BY <1>1, <1>2, <1>3, RemoveAtIs
<1>5. /\ Good(c) /\ c.budgets = RemoveAt(ctx.budgets, row)
      /\ Range(c.budgets) \subseteq Range(ctx.budgets)
      /\ Range(c.expenses) \subseteq Range(ctx.expenses)
      /\ \A b \in Range(c.budgets) : Matching(c, b) = Matching(ctx, b)
  BY <1>2, <1>3, BudgetDropped
<1> HIDE DEF c
<1>6. CASE /\ ctx' = c /\ misread' = misread /\ unsaved' \in BOOLEAN
           /\ store' = c \/ (unsaved' = TRUE /\ store' = store)
  <2>1. DataInv'
    <3>1. CASE store' = c
      BY <1>5, <1>6, <3>1, Saved
    <3>2. CASE unsaved' = TRUE /\ store' = store
      <4>1. SeenIsSaved'
        BY <1>1, <1>5, <1>6, <3>2 DEF SeenIsSaved, DataInv
      <4>2. Agree'
        BY <1>1, <1>5, <1>6, <3>2 DEF Agree, DataInv
      <4> QED
        BY <1>2, <1>5, <1>6, <3>2, <4>1, <4>2 DEF DataInv
    <3> QED
      BY <1>6, <3>1, <3>2
  <2>2. TypeOK'
    BY <1>1, <1>4, <1>5, <1>6 DEF TypeOK, Good, table
  <2>3. BudgetRowsMatch'
    BY <1>1, <1>2, <1>4, <1>5, <1>6 DEF BudgetRowsMatch
  <2>4. OpenInv'
    BY <1>1 DEF OpenInv, TypeOK, table
  <2> QED
    BY <2>1, <2>2, <2>3, <2>4 DEF BudgetInv
<1>7. CASE misread' = TRUE /\ UNCHANGED data
  <2>1. DataInv'
    BY <1>1, <1>7, DataSame
  <2>2. TypeOK'
    BY <1>1, <1>4, <1>7 DEF TypeOK, table, data
  <2>3. BudgetRowsMatch'
    BY <1>1, <1>2, <1>4, <1>7 DEF BudgetRowsMatch, data
  <2>4. OpenInv'
    BY <1>1 DEF OpenInv, TypeOK, table
  <2> QED
    BY <2>1, <2>2, <2>3, <2>4 DEF BudgetInv
<1> QED
  BY <1>1, <1>6, <1>7

LEMMA OpenExpensesStep ==
    ASSUME BudgetInv, NEW row \in DOMAIN budgets, OpenExpenses(row)
    PROVE  BudgetInv'
<1>1. /\ TypeOK /\ DataInv /\ BudgetRowsMatch
      /\ screen' = "expenses" /\ budget' = budgets[row] /\ budgets[row] \in Range(ctx.budgets)
      /\ \/ expenses' = Newest(ctx, budget') /\ misread' = misread
         \/ expenses' = <<>> /\ misread' = TRUE
      /\ rows' = expenses' /\ pie' = expenses' /\ spent' = Total(expenses')
      /\ red' = (spent' > budget'.amount)
      /\ screen = "budgets" /\ UNCHANGED <<data, budgets>>
  BY DEF BudgetInv, OpenExpenses
<1>2. ctx \in Objects /\ budget' \in Budget /\ budget' # Nil
  <2>1. budgets[row] \in Budget
    BY <1>1, ListIs DEF TypeOK
  <2> QED
    BY <1>1, <2>1, NilAssumption DEF TypeOK
<1>3. /\ expenses' \in Seq(Expense)
      /\ ~misread' => Total(expenses') = Total(Matching(ctx, budget'))
  BY <1>1, <1>2, NewestIs, NoneIs
<1>4. spent' \in Nat
  BY <1>1, <1>3, TotalType
<1>5. TypeOK'
  <2>1. red' \in BOOLEAN
    BY <1>1
  <2> QED
    BY <1>1, <1>2, <1>3, <1>4, <2>1 DEF TypeOK, data
<1>6. DataInv'
  BY <1>1, DataSame
<1>7. BudgetRowsMatch' /\ OpenInv'
  BY <1>1, <1>3 DEF BudgetRowsMatch, OpenInv, data, TypeOK
<1> QED
  BY <1>5, <1>6, <1>7 DEF BudgetInv

\* The steps between screens that change no object.
LEMMA ScreenStep ==
    ASSUME BudgetInv, Back \/ AddExpense \/ CancelAdd
    PROVE  BudgetInv'
<1>1. /\ TypeOK /\ DataInv /\ BudgetRowsMatch /\ OpenInv
      /\ UNCHANGED <<data, budgets, misread>> /\ screen # "down" /\ screen' # "down"
  BY DEF BudgetInv, Back, AddExpense, CancelAdd
<1>2. DataInv'
  BY <1>1, DataSame
<1>3. BudgetRowsMatch'
  BY <1>1 DEF BudgetRowsMatch, data
<1>4. CASE Back
  <2>1. TypeOK'
    BY <1>1, <1>4, NoneIs DEF TypeOK, Back, NoTable, data
  <2>2. OpenInv'
    BY <1>4 DEF OpenInv, Back, NoTable
  <2> QED
    BY <1>2, <1>3, <2>1, <2>2 DEF BudgetInv
<1>5. CASE AddExpense \/ CancelAdd
  <2>1. TypeOK'
    BY <1>1, <1>5 DEF TypeOK, AddExpense, CancelAdd, data, table
  <2>2. OpenInv'
    BY <1>1, <1>5 DEF OpenInv, AddExpense, CancelAdd, data, table
  <2> QED
    BY <1>2, <1>3, <2>1, <2>2 DEF BudgetInv
<1> QED
  BY <1>4, <1>5

\* An expense saved for the open budget: the label counts what is on disk.
LEMMA ExpenseSaved ==
    ASSUME BudgetInv, NEW e \in Expense, screen = "addExpense", e.budget = budget.id,
           SaveContext([ctx EXCEPT !.expenses = Append(@, e)]),
           expenses' = Append(expenses, e), spent' = Total(expenses')
    PROVE  /\ DataInv' /\ store' = ctx' /\ ctx'.budgets = ctx.budgets /\ ctx' \in Objects
           /\ budget \in Range(ctx.budgets) /\ budget # Nil
           /\ expenses' \in Seq(Expense) /\ spent' \in Nat
           /\ ~misread => Total(expenses') = Total(Matching(ctx', budget))
<1> DEFINE c == [ctx EXCEPT !.expenses = Append(@, e)]
<1>1. TypeOK /\ DataInv /\ OpenInv
  BY DEF BudgetInv
<1>2. budget # Nil /\ budget \in Range(ctx.budgets) /\ expenses \in Seq(Expense)
  BY <1>1 DEF TypeOK, OpenInv
<1>3. ctx \in Objects /\ Good(ctx) /\ \E b \in Range(ctx.budgets) : b.id = e.budget
  BY <1>1, <1>2 DEF TypeOK, DataInv
<1>4. Good(c) /\ c.budgets = ctx.budgets /\ c.expenses = Append(ctx.expenses, e)
  BY <1>3, ExpenseAdded
<1>5. ctx' = c /\ store' = c
  BY DEF SaveContext
<1> HIDE DEF c
<1>6. DataInv'
  BY <1>4, <1>5, Saved
<1>7. /\ expenses' \in Seq(Expense) /\ Total(expenses') = Total(expenses) + e.amount
      /\ spent' \in Nat
  <2>1. expenses' \in Seq(Expense)
    BY <1>2, AppendIs
  <2>2. Total(Append(expenses, e)) = Total(expenses) + e.amount
    BY <1>2, TotalOfAppend
  <2> QED
    BY <2>1, <2>2, TotalType
<1>8. Total(Matching(c, budget)) = Total(Matching(ctx, budget)) + e.amount
  BY <1>3, <1>4, TotalWithOneMore
<1>9. ~misread => Total(expenses') = Total(Matching(ctx', budget))
  BY <1>1, <1>2, <1>5, <1>7, <1>8 DEF OpenInv
<1> QED
  BY <1>2, <1>4, <1>5, <1>6, <1>7, <1>9 DEF Good

LEMMA SaveExpenseStep ==
    ASSUME BudgetInv, NEW e \in Expense, SaveExpense(e)
    PROVE  BudgetInv'
<1>1. CASE GoDown
  BY <1>1, GoDownStep
<1>2. CASE ~GoDown
  <2>1. /\ screen = "addExpense" /\ e.budget = budget.id
        /\ SaveContext([ctx EXCEPT !.expenses = Append(@, e)])
        /\ expenses' = Append(expenses, e) /\ spent' = Total(expenses')
        /\ rows' = expenses' /\ pie' = expenses' /\ red' = (spent' > budget.amount)
        /\ screen' = "expenses" /\ unsaved' = FALSE
        /\ UNCHANGED <<budgets, budget, misread>>
    BY <1>2 DEF SaveExpense, SaveContext
  <2>2. TypeOK /\ BudgetRowsMatch
    BY DEF BudgetInv
  <2>3. /\ DataInv' /\ store' = ctx' /\ ctx'.budgets = ctx.budgets /\ ctx' \in Objects
        /\ budget \in Range(ctx.budgets) /\ budget # Nil
        /\ expenses' \in Seq(Expense) /\ spent' \in Nat
        /\ ~misread => Total(expenses') = Total(Matching(ctx', budget))
    BY <2>1, ExpenseSaved
  <2>4. TypeOK'
    <3>1. red' \in BOOLEAN
      BY <2>1
    <3> QED
      BY <2>1, <2>2, <2>3, <3>1 DEF TypeOK
  <2>5. BudgetRowsMatch' /\ OpenInv'
    BY <2>1, <2>2, <2>3 DEF BudgetRowsMatch, OpenInv
  <2> QED
    BY <2>3, <2>4, <2>5 DEF BudgetInv
<1> QED
  BY <1>1, <1>2

LEMMA DeleteExpenseStep ==
    ASSUME BudgetInv, NEW row \in DOMAIN rows, DeleteExpense(row)
    PROVE  BudgetInv'
<1> DEFINE found == Matching(ctx, budget)
           left == RemoveAt(expenses, row)
<1>1. TypeOK /\ DataInv /\ BudgetRowsMatch /\ OpenInv /\ screen = "expenses"
  BY DEF BudgetInv, DeleteExpense
<1>2. /\ ctx \in Objects /\ Good(ctx) /\ budget # Nil /\ budget \in Range(ctx.budgets)
      /\ expenses \in Seq(Expense) /\ rows \in Seq(Expense)
  BY <1>1 DEF TypeOK, DataInv, OpenInv
<1>3. row \in 1 .. Len(rows) /\ RemoveAt(rows, row) \in Seq(Expense)
  BY <1>2, ListIs, RemoveAtIs
<1>4. Len(expenses) = Len(rows) => left \in Seq(Expense)
  BY <1>2, <1>3, RemoveAtIs
<1>5. CASE /\ Len(expenses) = Len(rows)
           /\ row \in DOMAIN found
           /\ SaveContext(DropExpense(ctx, found[row]))
           /\ spent' \in {Total(left), Total(Without(left, found[row]))}
           /\ \/ expenses' = Newest(ctx', budget) /\ UNCHANGED misread
              \/ FetchMayFail /\ expenses' = <<>> /\ misread' = TRUE
           /\ rows' = RemoveAt(rows, row)
           /\ UNCHANGED <<budgets, screen, budget, red, pie>>
  <2> DEFINE c == DropExpense(ctx, found[row])
             e == found[row]
  <2> HIDE DEF found, left, e
  <2>1. Good(c) /\ c.budgets = ctx.budgets /\ c \in Objects
    BY <1>2, ExpenseDropped DEF Good
  <2>2. ctx' = c /\ store' = c /\ unsaved' = FALSE
    BY <1>5 DEF SaveContext
  <2> HIDE DEF c
  <2>3. DataInv'
    BY <2>1, <2>2, Saved
  <2>4. /\ expenses' \in Seq(Expense)
        /\ ~misread' => Total(expenses') = Total(Matching(ctx', budget))
    BY <1>5, <2>1, <2>2, NewestIs, NoneIs
  <2>5. spent' \in Nat
    <3>1. Without(left, found[row]) \in Seq(Expense)
      BY <1>4, <1>5, WithoutIs
    <3>2. Total(left) \in Nat /\ Total(Without(left, found[row])) \in Nat
      BY <1>4, <1>5, <3>1, TotalType
    <3> QED
      BY <1>5, <3>2
  <2>6. TypeOK'
    BY <1>1, <1>3, <1>5, <2>1, <2>2, <2>4, <2>5 DEF TypeOK
  <2>7. BudgetRowsMatch' /\ OpenInv'
    BY <1>1, <1>2, <1>5, <2>1, <2>2, <2>4 DEF BudgetRowsMatch, OpenInv
  <2> QED
    BY <2>3, <2>6, <2>7 DEF BudgetInv
<1>6. CASE /\ FetchMayFail
           /\ Len(expenses) = Len(rows)
           /\ spent' = Total(left)
           /\ expenses' \in {Newest(ctx, budget), <<>>}
           /\ misread' = TRUE
           /\ rows' = RemoveAt(rows, row)
           /\ UNCHANGED <<data, budgets, screen, budget, red, pie>>
  <2>1. DataInv'
    BY <1>1, <1>6, DataSame
  <2>2. expenses' \in Seq(Expense) /\ spent' \in Nat
    <3>1. Newest(ctx, budget) \in Seq(Expense) /\ <<>> \in Seq(Expense)
      BY <1>2, NewestIs, NoneIs
    <3> HIDE DEF left
    <3>2. Total(left) \in Nat
      BY <1>4, <1>6, TotalType
    <3> QED
      BY <1>6, <3>1, <3>2
  <2>3. TypeOK'
    BY <1>1, <1>3, <1>6, <2>2 DEF TypeOK, data
  <2>4. BudgetRowsMatch' /\ OpenInv'
    BY <1>1, <1>2, <1>6 DEF BudgetRowsMatch, OpenInv, data
  <2> QED
    BY <2>1, <2>3, <2>4 DEF BudgetInv
<1>7. CASE GoDown
  BY <1>7, GoDownStep
<1> QED
  BY <1>5, <1>6, <1>7 DEF DeleteExpense

LEMMA BudgetInvStep ==
    ASSUME BudgetInv, [Next]_vars
    PROVE  BudgetInv'
<1>1. CASE Crash \/ Launch \/ Back \/ AddExpense \/ CancelAdd
  BY <1>1, GoDownStep, LaunchStep, ScreenStep DEF Crash
<1>2. CASE \E b \in Budget : SaveBudget(b)
  BY <1>2, SaveBudgetStep
<1>3. CASE \E e \in Expense : SaveExpense(e)
  BY <1>3, SaveExpenseStep
<1>4. CASE \E row \in DOMAIN budgets : DeleteBudget(row) \/ OpenExpenses(row)
  BY <1>4, DeleteBudgetStep, OpenExpensesStep
<1>5. CASE \E row \in DOMAIN rows : DeleteExpense(row)
  BY <1>5, DeleteExpenseStep
<1>6. CASE UNCHANGED vars
  <2>1. TypeOK' /\ BudgetRowsMatch' /\ OpenInv'
    BY <1>6 DEF BudgetInv, TypeOK, BudgetRowsMatch, OpenInv, vars
  <2>2. DataInv'
    BY <1>6, DataSame DEF BudgetInv, vars, data
  <2> QED
    BY <2>1, <2>2 DEF BudgetInv
<1> QED
  BY <1>1, <1>2, <1>3, <1>4, <1>5, <1>6 DEF Next

\* The invariant always holds.
LEMMA BudgetInvAlways == Spec => []BudgetInv
<1>1. Init => BudgetInv
  BY InitStep
<1>2. BudgetInv /\ [Next]_vars => BudgetInv'
  BY BudgetInvStep
<1> QED
  BY <1>1, <1>2, PTL DEF Spec

-----------------------------------------------------------------------------
(***************************************************************************)
(* What it is for.                                                         *)
(***************************************************************************)
\* Every variable keeps its type, and a table of expenses has its budget.
THEOREM BudgetTypes == Spec => []TypeOK
<1>1. BudgetInv => TypeOK
  BY DEF BudgetInv
<1> QED
  BY <1>1, BudgetInvAlways, PTL

\* Whichever saves throw and whenever the process is killed, what the user sees is
\* on disk unless a deletion was not saved, and no expense outlives its budget.
THEOREM StoreIsSound == Spec => []StoreSound
<1>1. BudgetInv => StoreSound
  BY DEF BudgetInv, DataInv, Good, StoreSound, NoOrphans
<1> QED
  BY <1>1, BudgetInvAlways, PTL

\* The rows of the budgets table are the objects that deleteBudget(idx:) fetches, so
\* a swipe deletes what it shows; after a fetch that threw it is still in range.
THEOREM BudgetRowsAlwaysMatch == Spec => []BudgetRowsMatch
<1>1. BudgetInv => BudgetRowsMatch
  BY DEF BudgetInv
<1> QED
  BY <1>1, BudgetInvAlways, PTL

\* Opening a budget, or adding to it, works the colour out from what is on disk.
LEMMA ColourStep ==
    ASSUME BudgetInv, [Next]_vars,
           screen' = "expenses", ~misread', screen = "budgets" \/ (screen = "addExpense" /\ ctx' # ctx)
    PROVE  red' <=> Total(Matching(store', budget')) > budget'.amount
<1>1. TypeOK /\ DataInv
  BY DEF BudgetInv
<1>2. CASE \E row \in DOMAIN budgets : OpenExpenses(row)
  <2>1. PICK row \in DOMAIN budgets : OpenExpenses(row)
    BY <1>2
  <2>2. /\ expenses' = Newest(ctx, budget') /\ spent' = Total(expenses')
        /\ red' = (spent' > budget'.amount) /\ store' = store
        /\ budget' \in Range(ctx.budgets)
    BY <2>1 DEF OpenExpenses, data
  <2>3. Total(Newest(ctx, budget')) = Total(Matching(ctx, budget'))
    BY <1>1, NewestIs DEF TypeOK
  <2>4. Matching(store, budget') = Matching(ctx, budget')
    BY <1>1, <2>2 DEF DataInv, Agree
  <2> QED
    BY <2>2, <2>3, <2>4
<1>3. CASE \E e \in Expense : SaveExpense(e)
  <2>1. PICK e \in Expense : SaveExpense(e)
    BY <1>3
  <2>2. /\ screen = "addExpense" /\ e.budget = budget.id
        /\ SaveContext([ctx EXCEPT !.expenses = Append(@, e)])
        /\ expenses' = Append(expenses, e) /\ spent' = Total(expenses')
        /\ red' = (spent' > budget.amount)
        /\ UNCHANGED <<budgets, budget, misread>>
    BY <2>1 DEF SaveExpense, SaveContext, GoDown
  <2>3. store' = ctx' /\ (~misread => Total(expenses') = Total(Matching(ctx', budget)))
    BY <2>2, ExpenseSaved
  <2> QED
    BY <2>2, <2>3
<1>4. (\E row \in DOMAIN budgets : OpenExpenses(row)) \/ (\E e \in Expense : SaveExpense(e))
  BY DEF Next, vars, Crash, GoDown, Launch, Back, AddExpense, CancelAdd, SaveBudget, SaveContext,
         DeleteBudget, DeleteExpense, data
<1> QED
  BY <1>2, <1>3, <1>4

\* The label is red exactly when the stored expenses exceed the budget, however the
\* list on screen came about and whichever rows other deletions hit.
THEOREM OverBudgetIsExact == Spec => OverBudgetExact
<1> DEFINE Worked == /\ screen' = "expenses" /\ ~misread'
                     /\ screen = "budgets" \/ (screen = "addExpense" /\ ctx' # ctx)
           Exact == Worked => (red' <=> Total(Matching(store', budget')) > budget'.amount)
<1>1. BudgetInv /\ [Next]_vars => [Exact]_vars
  BY ColourStep
<1>2. []BudgetInv /\ [][Next]_vars => [][Exact]_vars
  BY <1>1, PTL
<1> QED
  BY <1>2, BudgetInvAlways, PTL DEF Spec, OverBudgetExact
=============================================================================
