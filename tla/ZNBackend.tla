------------------------------ MODULE ZNBackend ------------------------------
(***************************************************************************)
(* The vocabulary every component shares: the zones of the device, the     *)
(* chunks a zone is divided into, the threads of the program, and zn_pair, *)
(* the location of a chunk (include/znbackend.h).  The fields id and       *)
(* in_use of zn_pair are read by the chunk policy only and are left out.   *)
(***************************************************************************)
EXTENDS Integers, Sequences, FiniteSets

CONSTANTS
  NumZones,       \* number of zones (cache->nr_zones)
  MaxZoneChunks,  \* chunks that fit into a zone (zone_cap / chunk_sz)
  Threads         \* worker threads and eviction threads

ASSUME NumZonesAssumption == NumZones \in Nat \ {0}
ASSUME MaxZoneChunksAssumption == MaxZoneChunks \in Nat \ {0}
ASSUME ThreadsAssumption == IsFiniteSet(Threads)

Zones == 0 .. NumZones - 1

Chunks == 0 .. MaxZoneChunks - 1

zn_pair == [zone : Zones, chunk_offset : Chunks]

\* An uninitialised or returned location: never a member of zn_pair.
NoPair == [zone |-> -1, chunk_offset |-> -1]

Pair(z, c) == [zone |-> z, chunk_offset |-> c]
==============================================================================
