CONSTANTS
  PhysRegs = {p1, p2, p3, p4, p5}
  RENAME_WIDTH = 2
  COMMIT_WIDTH = 2
SPECIFICATION Spec
SYMMETRY RegSymmetry
INVARIANTS TypeOK PointersAgree NoDuplicate
PROPERTY ImplementsAbs
