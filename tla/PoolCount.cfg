\* Two clients pin the same page.
SPECIFICATION Spec
CONSTANTS
  c1 = c1 c2 = c2 c3 = c3 p1 = p1 p2 = p2 p3 = p3 A = A B = B
  Clients = {c1, c2}
  Frames = {f1, f2}
  Pages = {p1, p2, p3}
  Files = {A}
  FileOf <- OneFile
  InitFiles = {A}
  Versions = {0}
  Zero = 0
  Uses <- AllPages
  Deleters = {}
  MayShutdown = FALSE
  SizeMod = 8
  Garbage = Garbage NoPage = NoPage NoFrame = NoFrame NoBytes = NoBytes
  ReadFaults = {} WriteFaults = {} RemoveFaults = {}
  StaleUse = FALSE ReuseIds = FALSE
INVARIANT CountAccurate
