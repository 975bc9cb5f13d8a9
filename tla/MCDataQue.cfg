CONSTANTS
  DEPTH = 3
  INPORT_NUM = 2
  COMMIT_WID = 2
  Data = {d1, d2}
  Empty = Empty
SPECIFICATION Spec
SYMMETRY DataSymmetry
INVARIANTS TypeOK WindowAgrees AgesInOrder
PROPERTY ImplementsAbs
