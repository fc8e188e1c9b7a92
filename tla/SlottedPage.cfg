\* A plain page and a heap page, of at most two slots, vacuumed as the code does:
\* plain pages only.
SPECIFICATION Spec
CONSTANTS
  PageSize = 6 HeaderSize = 1 SlotSize = 1 PointerBytes = 1
  Sizes = {1, 2}
  Values = {v1, v2}
  CountMod = 16
  DoubleDelete = FALSE
  VacuumHeap = FALSE
  None = None
SYMMETRY Symmetry
INVARIANTS Layout RecordsReadBack PointersKept TuplesCounted
