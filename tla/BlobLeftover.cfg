SPECIFICATION Spec
CONSTANTS
  Id = {i1}
  Backend = {"fs", "s3"}
  Chunk = {1, 2, 3}
  MaxSize = 8
  PART_SIZE = 3
  Faults = {"call"}
  None = None
INVARIANT NoPartialLeft
CHECK_DEADLOCK FALSE
