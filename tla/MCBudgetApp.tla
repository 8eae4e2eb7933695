---------------------------- MODULE MCBudgetApp -----------------------------
EXTENDS BudgetApp, TLC

Symmetry == Permutations(BudgetIds) \cup Permutations(ExpenseIds)
=============================================================================
