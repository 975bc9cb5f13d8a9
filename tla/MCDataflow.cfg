CONSTANTS
  LREG_NUM = 3
  PhysRegs = {p1, p2, p3}
  RENAME_WIDTH = 2
  COMMIT_WIDTH = 2
  ROB_SIZE = 2
  Zero = Zero
  NotReady = NotReady
  DecInsts <- MCDecInsts
SPECIFICATION DataSpec
SYMMETRY RegSymmetry
INVARIANT OldestCanExecute
PROPERTY ImplementsProgramOrder
