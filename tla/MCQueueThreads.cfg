CONSTANTS
  v1 = v1
  v2 = v2
  Values = {v1, v2}
  None = None
  MaxSize = 4
  ElemSize = 4
SPECIFICATION Spec
INVARIANTS TypeOK NoSlotConflict
PROPERTIES IsAFifo
SYMMETRY MCSymmetry
