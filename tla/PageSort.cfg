\* Every page of up to five slots over five records, two pairs of which have equal keys.
SPECIFICATION Spec
CONSTANTS
  MaxCapacity = 5
  Records <- MCRecords
  Key <- MCKey
  None = None
INVARIANTS SortedAtEnd RecordsKept PointersInBounds
PROPERTY SortReturns
