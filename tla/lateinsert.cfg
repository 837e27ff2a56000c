SPECIFICATION Spec
CONSTANTS
  NumZones = 2
  MaxZoneChunks = 2
  Threads = {w1, e}
  Workers = {w1}
  MaxNrActiveZones = 2
  Backend = "ZNS"
  Faults = {}
  MaxInvalid = 0
  Ids = {d1, d2, d3}
  NULL = NULL
  ZeroId = ZeroId
  Blank = Blank
  Torn = Torn
  WorkloadMax = 5
  EVICT_HIGH_THRESH_ZONES = 1
  EVICT_LOW_THRESH_ZONES = 2
  UintMod = 64
PROPERTIES
  NoEntryIntoEvictedZone
