CONSTANTS
  LREG_NUM = 3
  PhysRegs = {p1, p2, p3, p4, p5}
  RENAME_WIDTH = 2
  COMMIT_WIDTH = 2
  ROB_SIZE = 2
  Zero = Zero
  DecInsts <- MCDecInsts
SPECIFICATION Spec
SYMMETRY RegSymmetry
INVARIANTS RegistersAccounted SquashRestores SourcesStayLive
