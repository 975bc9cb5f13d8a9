CONSTANTS
  LQSIZE = 2
  SQSIZE = 2
  ROB_SIZE = 2
  MEMDQ_DISP_WID = 2
  LD_ISSUE_WIDTH = 1
  ST_ISSUE_WIDTH = 1
  LDU_NUM = 1
  STU_NUM = 2
  COMMIT_WIDTH = 1
  Bytes <- OneByte
  Insts <- Single
SPECIFICATION FairSpec
PROPERTY QueuesDrain
