\* Shared pages, file deletion and restart; no I/O failure.
SPECIFICATION Spec
CONSTANTS
  c1 = c1 c2 = c2 c3 = c3 p1 = p1 p2 = p2 p3 = p3 A = A B = B
  Clients = {c1, c2}
  Frames = {f1, f2}
  Pages = {p1, p2, p3}
  Files = {A, B}
  FileOf <- TwoFiles
  InitFiles = {A}
  Versions = {0, 1}
  Zero = 0
  Uses <- AllPages
  Deleters = {c2}
  MayShutdown = TRUE
  SizeMod = 4
  Garbage = Garbage NoPage = NoPage NoFrame = NoFrame NoBytes = NoBytes
  ReadFaults = {} WriteFaults = {} RemoveFaults = {}
  StaleUse = FALSE ReuseIds = FALSE
INVARIANTS TypeOK HoldersResident PinAccounting EvictableIffUnpinned CleanMatchesDisk
PROPERTY ImplementsPageStore
