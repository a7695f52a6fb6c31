\* A password change reads the record, a delete comes, the change writes.
CONSTANTS
  None = None
  Id = {i1}
  Caller = {c1, c2}
  Key = {k1}
  Budgets = {1, 2}
  Lifetimes = {1}
  Grace = 1
  MaxNow = 1
  Passwords = TRUE
  Drops = FALSE
SPECIFICATION Spec
CHECK_DEADLOCK FALSE
INVARIANTS DeletedIsGone
