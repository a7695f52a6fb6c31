\* The process that holds the metadata in memory dies and restarts.
CONSTANTS
  None = None
  MIN_EXPIRY_SECS = 1
  MAX_EXPIRY_SECS = 3
  MAX_DOWNLOADS = 3
  DEFAULT_MAX_DOWNLOADS = 1
  max_expiry = 2
  max_downloads = 2
  default_expiry = 1
  Id = {i1}
  Req = {r1, r2}
  Reaper = {p1}
  Key = {k1}
  DownloadAsks <- AsksTwo
  ExpiryAsks <- AsksOneTwo
  MaxNow = 1
  BATCH = 1
  Durable = FALSE
  Faults = {"meta", "blob", "hangup", "crash"}
  Stuck = {}
SPECIFICATION Spec
CHECK_DEADLOCK FALSE
PROPERTIES NeverReturns

