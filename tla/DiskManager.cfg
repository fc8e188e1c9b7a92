SPECIFICATION Spec
CONSTANTS
  Threads = {t1, t2}
  Files = {A}
  Handles = {h1, h2}
  MaxPages = 4
  RemoveFaults = {A}
  NoHandle = NoHandle
  NoThread = NoThread
SYMMETRY Symmetry
INVARIANTS TypeOK NoDoubleAllocation OwnedInRange FreeInFile
