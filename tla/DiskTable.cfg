\* One thread inserts and updates, another deletes, a third scans.
SPECIFICATION Spec
CONSTANTS
  Pages = {p1, p2}
  Root = root
  Null = null
  Writers = {w1, w2}
  Inserters = {w1}
  Cursors = {k1}
  PageRoom = 2
  RowSizes = {1, 2}
INVARIANTS RowsReachable ScanComplete ScanOnce
PROPERTY AdvanceReturns
