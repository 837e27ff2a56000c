SPECIFICATION HeapSpec
CONSTANTS
  Entries = {e1, e2, e3, e4, e5, e6}
  MaxPriority = 2
  InitCapacity = 1
SYMMETRY EntrySymmetry
INVARIANTS
  HeapOrdered
  FitsCapacity
PROPERTIES
  RefinesPriorityQueue
