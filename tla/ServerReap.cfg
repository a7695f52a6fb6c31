\* More shares than a sweep takes on, one of them stuck, two of them expired from the
\* start; the reaper against failing stores and crashes.
CONSTANTS
  None = None
  MIN_EXPIRY_SECS = 1
  MAX_EXPIRY_SECS = 3
  MAX_DOWNLOADS = 3
  DEFAULT_MAX_DOWNLOADS = 1
  max_expiry = 2
  max_downloads = 2
  default_expiry = 1
  Id = {i1, i2, i3}
  Req = {r1}
  Reaper = {p1}
  Key = {k1}
  DownloadAsks <- AsksOne
  ExpiryAsks <- AsksOne
  MaxNow = 0
  BATCH = 2
  Durable = TRUE
  Faults = {"meta", "blob", "crash"}
  Stuck = {i1}
SPECIFICATION BacklogSpec
CHECK_DEADLOCK FALSE
PROPERTIES EventuallyGone
