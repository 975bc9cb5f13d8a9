CONSTANTS
  FTQ_SIZE = 3
  POS = 4
SPECIFICATION Spec
INVARIANTS RingConsistent ReadsOwn OnlyStallLoses
PROPERTY ImplementsQueue
