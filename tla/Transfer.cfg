SPECIFICATION Spec
CONSTANTS
  CHUNK_SIZE = 2
  TAG_LEN = 1
  RECORDS_PER_BLOB = 2
  MaxSize = 5
  NetChunk = {1, 4}
  Faults = {"file", "server", "net"}
  Junk = Junk
  None = None
INVARIANTS TypeOK SavedIsWhole OutputIsPrefix HonestOpens LengthsAgree
CHECK_DEADLOCK FALSE
