CONSTANTS
  LQSIZE = 2
  SQSIZE = 2
  ROB_SIZE = 3
  MEMDQ_DISP_WID = 1
  LD_ISSUE_WIDTH = 1
  ST_ISSUE_WIDTH = 1
  LDU_NUM = 2
  STU_NUM = 2
  COMMIT_WIDTH = 1
  Bytes <- TwoBytes
  Insts <- Partial
SPECIFICATION Spec
INVARIANTS QueuesConsistent StaleLoadsKnown
PROPERTY ImplementsSequentialMemory
