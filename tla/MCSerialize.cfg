CONSTANTS
  ROB_SIZE = 3
  RENAME_WIDTH = 1
  COMMIT_WIDTH = 2
  INTDQ_DISP_WID = 3
  IQ_SIZE = 2
  IQ_INOUT = 2
SPECIFICATION FairSpec
INVARIANTS SyncedAtCommit OneWriter SerialisedAlone
PROPERTY FirstIsServed
