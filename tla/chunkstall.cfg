SPECIFICATION FairSpec
CONSTANTS
  NumZones = 3
  MaxZoneChunks = 1
  Threads = {w1}
  Workers = {w1}
  MaxNrActiveZones = 2
  Backend = "ZNS"
  Faults = {}
  MaxInvalid = 0
  Ids = {d0, d1, d2, d3}
  NULL = NULL
  ZeroId = d0
  Blank = Blank
  Torn = Torn
  WorkloadMax = 5
  EVICT_HIGH_THRESH_ZONES = 0
  EVICT_LOW_THRESH_ZONES = 1
  EVICT_HIGH_THRESH_CHUNKS = 1
  EVICT_LOW_THRESH_CHUNKS = 3
  UintMod = 64
PROPERTIES
  GetReturns
CHECK_DEADLOCK FALSE
