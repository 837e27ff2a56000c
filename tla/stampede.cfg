SPECIFICATION FairSpec
CONSTANTS
  NumZones = 2
  MaxZoneChunks = 2
  Threads = {w1, w2, w3}
  Workers = {w1, w2, w3}
  MaxNrActiveZones = 1
  Backend = "ZNS"
  Faults = {"write"}
  MaxInvalid = 0
  Ids = {d1, d2}
  NULL = NULL
  ZeroId = ZeroId
  Blank = Blank
  Torn = Torn
  WorkloadMax = 4
  EVICT_HIGH_THRESH_ZONES = 1
  EVICT_LOW_THRESH_ZONES = 2
  UintMod = 64
INVARIANTS
  ReadValid
  ReadersBalanced
  FetchedOnce
PROPERTIES
  GetReturns
