SPECIFICATION Spec
CONSTANTS
  Browser = {"a", "b"}
  Tab <- MCTab
  BrowserOf <- MCBrowserOf
  Replica = {r1, r2}
  Claims <- MCClaims
  allowed_domains = {"ours"}
  auth_mode = "all"
  FLOW_TTL = 1
  session_ttl = 1
  MaxFlow = 2
  MaxGen = 1
  MaxNow = 1
  None = None
INVARIANTS TypeOK SessionIsItsOwn AdmittedInTime
PROPERTIES RefusedForCause FinishedOnce SignedInStays
CHECK_DEADLOCK FALSE

SYMMETRY MCSymmetry
