CONSTANTS
  LQSIZE = 2
  SQSIZE = 2
  ROB_SIZE = 3
  MEMDQ_DISP_WID = 2
  LD_ISSUE_WIDTH = 1
  ST_ISSUE_WIDTH = 1
  LDU_NUM = 1
  STU_NUM = 1
  COMMIT_WIDTH = 1
  Bytes <- OneByte
  Insts <- Single
SPECIFICATION Spec
INVARIANT SqIndexTellsAge
