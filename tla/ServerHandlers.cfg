\* Three requests and a reaper on one share, nothing fails.
CONSTANTS
  None = None
  MIN_EXPIRY_SECS = 1
  MAX_EXPIRY_SECS = 3
  MAX_DOWNLOADS = 3
  DEFAULT_MAX_DOWNLOADS = 1
  max_expiry = 2
  max_downloads = 2
  default_expiry = 1
  Id = {i1}
  Req = {r1, r2, r3}
  Reaper = {p1}
  Key = {k1, k2}
  DownloadAsks <- AsksNoneZeroMany
  ExpiryAsks <- AsksOne
  MaxNow = 0
  BATCH = 1
  Durable = TRUE
  Faults = {}
  Stuck = {}
SPECIFICATION BurnSpec
CHECK_DEADLOCK FALSE
INVARIANTS TypeOK BudgetKept OneFinalSlot SpentHasBurner
PROPERTIES SpentIsBurnt
