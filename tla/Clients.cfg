\* One upload page, one visit, one command; two shares, five things that people do.
CONSTANTS
  None = None
  MaxShare = 2
  MaxSalt = 1
  MaxClick = 5
  File = {f1, f2}
  Passphrase = {"", "p"}
  Budget = {1, 2}
  Limit = 2
  Visit = {v1}
  Command = {c1}
SPECIFICATION Spec
CHECK_DEADLOCK FALSE
INVARIANTS TypeOK ShownIsChosen ShownOpens DeletedIsGone OneTask GoneIsGone RefusedIsFree
PROPERTIES WarnedIsLast Settles
