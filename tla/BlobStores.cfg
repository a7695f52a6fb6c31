SPECIFICATION Spec
CONSTANTS
  Id = {i1}
  Backend = {"fs", "s3"}
  Chunk = {1, 2, 3}
  MaxSize = 8
  PART_SIZE = 3
  Faults = {"body", "call", "lost", "undo", "drop", "crash"}
  None = None
INVARIANTS TypeOK OnlyWhole PartsLegal RefusedLeavesNothing
CHECK_DEADLOCK FALSE
