\* Everything around the pool goes wrong: reads, writes and removals fail, file
\* ids are reused, clients ask for pages of deleted files.  The process may abort.
SPECIFICATION Spec
CONSTANTS
  c1 = c1 c2 = c2 c3 = c3 p1 = p1 p2 = p2 p3 = p3 A = A B = B
  Clients = {c1, c2}
  Frames = {f1, f2}
  Pages = {p1, p3}
  Files = {A, B}
  FileOf <- TwoFilesTwoPages
  InitFiles = {A, B}
  Versions = {0}
  Zero = 0
  Uses <- AllPages
  Deleters = {c2}
  MayShutdown = FALSE
  SizeMod = 4
  Garbage = Garbage NoPage = NoPage NoFrame = NoFrame NoBytes = NoBytes
  ReadFaults = {p3} WriteFaults = {p1} RemoveFaults = {B}
  StaleUse = TRUE ReuseIds = TRUE
INVARIANT MapConsistent
CHECK_DEADLOCK FALSE
