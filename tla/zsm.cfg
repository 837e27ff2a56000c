SPECIFICATION ZsmSpec
CONSTANTS
  NumZones = 3
  MaxZoneChunks = 3
  Threads = {t1, t2, t3}
  NoThread = NoThread
  MaxNrActiveZones = 2
  Backend = "ZNS"
  Faults = {"open", "finish", "reset"}
  MaxInvalid = 1
SYMMETRY ThreadSymmetry
INVARIANTS
  ZsmTypeOK
  QueuesMatchStates
  GrantsExclusive
  ActiveZoneBudget
  NoZoneLeaked
  RetryHasWriter
PROPERTIES
  OffsetsAdvance
  RefinesLifecycle
CHECK_DEADLOCK FALSE
