SPECIFICATION Spec
CONSTANTS
  NumZones = 3
  MaxZoneChunks = 2
  Threads = {w1}
  Workers = {w1}
  MaxNrActiveZones = 2
  Backend = "ZNS"
  Faults = {"read", "write"}
  MaxInvalid = 0
  Ids = {d0, d1, d2, d3, d4, d5, d6}
  NULL = NULL
  ZeroId = d0
  Blank = Blank
  Torn = Torn
  WorkloadMax = 9
  EVICT_HIGH_THRESH_ZONES = 0
  EVICT_LOW_THRESH_ZONES = 2
  EVICT_HIGH_THRESH_CHUNKS = 1
  EVICT_LOW_THRESH_CHUNKS = 4
  UintMod = 64
INVARIANTS
  ChunkTypeOK
  PoolMatchesLru
  FullZonesQueued
  CheapestZoneFirst
  EvictableIsMapped
  ChunkReadValid
SYMMETRY WorkerAndIdSymmetry
CHECK_DEADLOCK FALSE
