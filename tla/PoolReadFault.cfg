\* Reading one page may fail; nothing else goes wrong.
SPECIFICATION Spec
CONSTANTS
  c1 = c1 c2 = c2 c3 = c3 p1 = p1 p2 = p2 p3 = p3 A = A B = B
  Clients = {c1, c2}
  Frames = {f1, f2}
  Pages = {p1, p3}
  Files = {A, B}
  FileOf <- TwoFilesTwoPages
  InitFiles = {A, B}
  Versions = {0}
  Zero = 0
  Uses <- AllPages
  Deleters = {}
  MayShutdown = FALSE
  SizeMod = 4
  Garbage = Garbage NoPage = NoPage NoFrame = NoFrame NoBytes = NoBytes
  ReadFaults = {p3} WriteFaults = {} RemoveFaults = {}
  StaleUse = FALSE ReuseIds = FALSE
INVARIANT OwnBytes
CHECK_DEADLOCK FALSE
