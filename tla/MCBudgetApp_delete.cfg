SPECIFICATION Spec
CONSTANTS
    BudgetIds = {b1}
    ExpenseIds = {e1, e2}
    Amounts = {1}
    Nil = Nil
    SaveMayFail = FALSE
    FetchMayFail = FALSE
PROPERTIES DeletesItsRow
