\* Two budgets and three expenses; every save and every fetch may throw.
SPECIFICATION Spec
CONSTANTS
    BudgetIds = {b1, b2}
    ExpenseIds = {e1, e2, e3}
    Amounts = {0, 2, 3}
    Nil = Nil
    SaveMayFail = TRUE
    FetchMayFail = TRUE
SYMMETRY Symmetry
INVARIANTS TypeOK StoreSound BudgetRowsMatch
PROPERTIES OverBudgetExact
