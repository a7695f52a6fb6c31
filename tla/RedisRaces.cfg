\* Two callers, one call after another each, on one share; calls dropped anywhere.
CONSTANTS
  None = None
  Id = {i1}
  Caller = {c1, c2}
  Key = {k1}
  Budgets = {1, 2}
  Lifetimes = {1}
  Grace = 1
  MaxNow = 1
  Passwords = TRUE
  Drops = TRUE
SPECIFICATION FairSpec
CHECK_DEADLOCK FALSE
INVARIANTS TypeOK BudgetKept IndexKept
PROPERTIES NoGrantAfterDelete KeepsTrait EventuallyCollected
