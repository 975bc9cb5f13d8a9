CONSTANTS
  ROB_SIZE = 3
  RENAME_WIDTH = 2
  COMMIT_WIDTH = 2
  Kinds <- Memory
  Empty = Empty
SPECIFICATION Spec
INVARIANT ViolatingLoadNeverRetires
