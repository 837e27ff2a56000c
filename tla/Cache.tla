--------------------------------- MODULE Cache ---------------------------------
(***************************************************************************)
(* The cache front end (zn_cache_get, src/cache.c) and the worker that     *)
(* calls it (task_function, src/zncache.c), on top of the zone state       *)
(* manager and the cache map.  pc[t] is the point thread t has reached;    *)
(* one action is one critical section or one device transfer.  What a      *)
(* policy adds (its update, and the eviction) is left to the module that   *)
(* composes this one with a policy.                                        *)
(***************************************************************************)
EXTENDS ZoneStateManager, CacheMap

CONSTANTS
  Workers,     \* the threads that run task_function; the others evict
  WorkloadMax, \* reader.workload_max: requests in the workload
  Blank,       \* contents of a chunk that was not written since its zone was reset
  Torn,        \* contents of a chunk that was written and holds the data of no id
  EVICT_HIGH_THRESH_ZONES, \* evict_task starts when no more zones are free
  EVICT_LOW_THRESH_ZONES,  \* and aims at this number of free zones
  UintMod                  \* modulus of uint32_t arithmetic, scaled down

ASSUME WorkersAssumption == Workers \subseteq Threads
ASSUME WorkloadMaxAssumption == WorkloadMax \in Nat
ASSUME ContentsAssumption ==
  /\ Blank \notin Ids \cup {NULL}
  /\ Torn \notin Ids \cup {NULL, Blank}
ASSUME ThresholdAssumption ==
  /\ EVICT_HIGH_THRESH_ZONES \in Nat
  /\ EVICT_LOW_THRESH_ZONES \in Nat
ASSUME UintModAssumption ==
  UintMod \in Nat /\ UintMod > NumZones + EVICT_LOW_THRESH_ZONES + WorkloadMax

VARIABLES
  pc,                   \* where each thread is
  data_id,              \* data_id[t]: the id t is getting
  result,               \* result[t]: the copy zn_cachemap_find returned to t
  location,             \* location[t]: the chunk t is filling
  data,                 \* data[t]: the buffer t read, NULL before and on an error
  disk,                 \* disk[z][c]: the id whose data the chunk holds
  ratio,                \* hits and misses
  workload_index,       \* reader.workload_index
  nr_threads_completed, \* workers that have finished the workload
  done                  \* tells the eviction thread to stop

locals == <<data_id, result, location, data>>
progress == <<workload_index, nr_threads_completed, done>>
cacheVars == <<pc, locals, disk, ratio, progress>>

zn_init_cache ==
  /\ zsm_init
  /\ zn_cachemap_init
  /\ pc = [t \in Threads |-> IF t \in Workers THEN "next" ELSE "bg_done"]
  /\ data_id = [t \in Threads |-> NULL]
  /\ result = [t \in Threads |-> NoEntry]
  /\ location = [t \in Threads |-> NoPair]
  /\ data = [t \in Threads |-> NULL]
  /\ disk = [z \in Zones |-> [c \in Chunks |-> Blank]]
  /\ ratio = [hits |-> 0, misses |-> 0]
  /\ workload_index = 0
  /\ nr_threads_completed = 0
  /\ done = FALSE

Goto(t, from, to) == pc[t] = from /\ pc' = [pc EXCEPT ![t] = to]

\* zn_cache_get returns: its locals go out of scope.
Return(t, to) ==
  /\ pc' = [pc EXCEPT ![t] = to]
  /\ data_id' = [data_id EXCEPT ![t] = NULL]
  /\ result' = [result EXCEPT ![t] = NoEntry]
  /\ location' = [location EXCEPT ![t] = NoPair]
  /\ data' = [data EXCEPT ![t] = NULL]
------------------------------------------------------------------------------
(***************************************************************************)
(* task_function: take requests until there are none, then count oneself   *)
(* out.  A worker whose get failed returns at once and is never counted.   *)
(***************************************************************************)

\* Mutant: the end of the workload is missed by one.
TakeRequest_OffByOne(t) ==
  /\ workload_index <= WorkloadMax
  /\ Goto(t, "next", "find")
  /\ workload_index' = workload_index + 1
  /\ \E id \in Ids : data_id' = [data_id EXCEPT ![t] = id]
  /\ UNCHANGED <<zsmVars, mapVars, result, location, data, disk, ratio, nr_threads_completed, done>>

TakeRequest(t) ==
  /\ workload_index < WorkloadMax
  /\ Goto(t, "next", "find")
  /\ workload_index' = workload_index + 1
  /\ \E id \in Ids : data_id' = [data_id EXCEPT ![t] = id]
  /\ UNCHANGED <<zsmVars, mapVars, result, location, data, disk, ratio, nr_threads_completed, done>>

WorkloadDone(t) ==
  /\ workload_index >= WorkloadMax
  /\ Goto(t, "next", "finish")
  /\ UNCHANGED <<zsmVars, mapVars, locals, disk, ratio, progress>>

CountCompleted(t) ==
  /\ Goto(t, "finish", "exited")
  /\ nr_threads_completed' = nr_threads_completed + 1
  /\ done' = (done \/ nr_threads_completed' = Cardinality(Workers))
  /\ UNCHANGED <<zsmVars, mapVars, locals, disk, ratio, workload_index>>
------------------------------------------------------------------------------
(***************************************************************************)
(* zn_cache_get: the lookup.                                               *)
(***************************************************************************)
zn_cachemap_find(t) ==
  /\ pc[t] = "find" /\ waiting[t] = NULL
  /\ \/ FindHit(data_id[t]) /\ pc' = [pc EXCEPT ![t] = "copy_location"]
     \/ FindClaim(data_id[t]) /\ pc' = [pc EXCEPT ![t] = "copy_location"]
     \/ FindWait(t, data_id[t]) /\ UNCHANGED pc
  /\ UNCHANGED <<zsmVars, locals, disk, ratio, progress>>

Wakeup(t) ==
  /\ SpuriousWakeup(t)
  /\ UNCHANGED <<zsmVars, cacheVars>>

\* return *lookup, after g_mutex_unlock: a copy of the entry as it is by then,
\* the location (first in the struct) before the type (last in the struct).
FindReturnLocation(t) ==
  /\ Goto(t, "copy_location", "copy_type")
  /\ result' = [result EXCEPT ![t].location = zone_map[data_id[t]].location]
  /\ UNCHANGED <<zsmVars, mapVars, data_id, location, data, disk, ratio, progress>>

FindReturnType(t) ==
  LET type == zone_map[data_id[t]].type IN
  /\ Goto(t, "copy_type", IF type = "LOC" THEN "read" ELSE "get_zone")
  /\ result' = [result EXCEPT ![t].type = type]
  /\ UNCHANGED <<zsmVars, mapVars, data_id, location, data, disk, ratio, progress>>
------------------------------------------------------------------------------
(***************************************************************************)
(* zn_cache_get: the hit.                                                  *)
(***************************************************************************)

\* Mutant: the chunk offset is left out of the read pointer.
zn_read_from_disk_ZoneStart(pair) == {disk[pair.zone][0]}

\* What a read of a chunk may return: its contents, or NULL when a read fails.
zn_read_from_disk(pair) ==
  {disk[pair.zone][pair.chunk_offset]} \cup (IF "read" \in Faults THEN {NULL} ELSE {})

ReadChunk(t) ==
  /\ Goto(t, "read", "update_read")
  /\ \E buffer \in zn_read_from_disk(result[t].location) :
       data' = [data EXCEPT ![t] = buffer]
  /\ UNCHANGED <<zsmVars, mapVars, data_id, result, location, disk, ratio, progress>>

\* The policy's update comes between the read and this step.
HitDone(t) ==
  /\ pc[t] = "release"
  /\ ReleaseReader(result[t].location.zone)
  /\ ratio' = [ratio EXCEPT !.hits = @ + 1]
  /\ Return(t, IF data[t] = NULL THEN "failed" ELSE "next")
  /\ UNCHANGED <<zsmVars, disk, progress>>
------------------------------------------------------------------------------
(***************************************************************************)
(* zn_cache_get: the miss.  RETRY is a wait: the step is taken only when   *)
(* zsm_get_active_zone says something else.                                *)
(***************************************************************************)
GetZone(t) ==
  /\ \/ /\ zsm_get_active_zone_success(t)
        /\ location' = [location EXCEPT ![t] = grant'[t]]
        /\ Goto(t, "get_zone", "write")
     \/ /\ zsm_get_active_zone_error(t)
        /\ Goto(t, "get_zone", "undo_map")
        /\ UNCHANGED location
     \/ /\ EvictNeeded
        /\ Goto(t, "get_zone", "evict")
        /\ UNCHANGED <<zsmVars, location>>
  /\ UNCHANGED <<mapVars, data_id, result, data, disk, ratio, progress>>

\* A zoned device writes at its write pointer only: the chunks before this one are
\* written, and nothing of this one is.
AtWritePointer(pair) ==
  \/ Backend = "BLOCK"
  \/ /\ disk[pair.zone][pair.chunk_offset] = Blank
     /\ \A c \in 0 .. pair.chunk_offset - 1 : disk[pair.zone][c] \in Ids

\* A buffer is written to a chunk, block by block, each block retried from its
\* start.  A write that is given up may have written a part of the chunk; the write
\* pointer has then moved, and no write of that chunk succeeds before a reset.
zn_write_out(pair, buffer, succeeds) ==
  LET Put(v) == [disk EXCEPT ![pair.zone][pair.chunk_offset] = v] IN
  IF succeeds
  THEN AtWritePointer(pair) /\ disk' = Put(buffer)
  ELSE \/ disk' = disk /\ ("write" \in Faults \/ ~AtWritePointer(pair))
       \/ disk' = Put(Torn) /\ "write" \in Faults /\ AtWritePointer(pair)

\* Mutant: the miss is counted before the result of the write is known.
WriteChunk_CountsFailure(t) ==
  /\ \E succeeds \in BOOLEAN :
       /\ Goto(t, "write", IF succeeds THEN "return_zone" ELSE "undo_zone")
       /\ zn_write_out(location[t], data_id[t], succeeds)
       /\ ratio' = [ratio EXCEPT !.misses = @ + 1]
  /\ UNCHANGED <<zsmVars, mapVars, locals, progress>>

WriteChunk(t) ==
  /\ \E succeeds \in BOOLEAN :
       /\ Goto(t, "write", IF succeeds THEN "return_zone" ELSE "undo_zone")
       /\ zn_write_out(location[t], data_id[t], succeeds)
       /\ ratio' = IF succeeds THEN [ratio EXCEPT !.misses = @ + 1] ELSE ratio
  /\ UNCHANGED <<zsmVars, mapVars, locals, progress>>

ReturnZone(t) ==
  /\ Goto(t, "return_zone", "update_write")
  /\ zsm_return_active_zone(t, location[t])
  /\ UNCHANGED <<mapVars, locals, disk, ratio, progress>>

\* The policy's update comes between ReturnZone and this step.
MissDone(t) ==
  /\ pc[t] = "insert"
  /\ zn_cachemap_insert(data_id[t], location[t])
  /\ Return(t, "next")
  /\ UNCHANGED <<zsmVars, disk, ratio, progress>>

UndoZoneGet(t) ==
  /\ Goto(t, "undo_zone", "undo_map")
  /\ zsm_failed_to_write(t, location[t])
  /\ UNCHANGED <<mapVars, locals, disk, ratio, progress>>

UndoMap(t) ==
  /\ pc[t] = "undo_map"
  /\ zn_cachemap_fail(data_id[t])
  /\ Return(t, "failed")
  /\ UNCHANGED <<zsmVars, disk, ratio, progress>>
------------------------------------------------------------------------------
\* The reset of a zoned device erases the zone; zsm_evict decides whether it is sent.
ResetOnDevice(z) ==
  /\ zsm_evict(z)
  /\ disk' = IF Backend = "ZNS" /\ zone_state[z] # "FREE" /\ zone_state'[z] = "FREE"
             THEN [disk EXCEPT ![z] = [c \in Chunks |-> Blank]]
             ELSE disk

(***************************************************************************)
(* evict_task: its loop reads done, then the number of free zones, and     *)
(* calls zn_fg_evict, which begins at "evict".                             *)
(***************************************************************************)
CheckDone(t) ==
  /\ Goto(t, "bg_done", IF done THEN "exited" ELSE "bg_free")
  /\ UNCHANGED <<zsmVars, mapVars, locals, disk, ratio, progress>>

CheckFreeZones(t) ==
  /\ Goto(t, "bg_free", IF zsm_get_num_free_zones > EVICT_HIGH_THRESH_ZONES
                        THEN "bg_done" ELSE "evict")
  /\ UNCHANGED <<zsmVars, mapVars, locals, disk, ratio, progress>>

evict_task(t) == CheckDone(t) \/ CheckFreeZones(t)

\* Where zn_fg_evict returns to.
AfterEvict(t) == IF t \in Workers THEN "get_zone" ELSE "bg_done"
------------------------------------------------------------------------------
TaskStep(t) == TakeRequest(t) \/ WorkloadDone(t) \/ CountCompleted(t)

GetStep(t) ==
  \/ zn_cachemap_find(t) \/ FindReturnLocation(t) \/ FindReturnType(t)
  \/ ReadChunk(t) \/ HitDone(t)
  \/ GetZone(t) \/ WriteChunk(t) \/ ReturnZone(t) \/ MissDone(t)
  \/ UndoZoneGet(t) \/ UndoMap(t)
------------------------------------------------------------------------------
(***************************************************************************)
(* What the front end promises whatever the policy.  The modules that      *)
(* compose it with a policy say under which conditions.                    *)
(***************************************************************************)
InGet == {"find", "copy_location", "copy_type", "read", "update_read", "release",
          "get_zone", "write", "return_zone", "update_write", "insert",
          "undo_zone", "undo_map"}

\* Threads on their way to insert id or to give it up; one that still copies the
\* entry will be when it finds no location there.
Fillers(id) ==
  {t \in Threads :
     /\ data_id[t] = id
     /\ pc[t] \notin {"find", "read", "update_read", "release"}
     /\ pc[t] \in {"copy_location", "copy_type"} => zone_map[id].type # "LOC"}

\* Threads that entered zone z as readers and have not released it.
Readers(z) ==
  {t \in Threads :
     \/ pc[t] \in {"read", "update_read", "release"} /\ result[t].location.zone = z
     \/ /\ pc[t] \in {"copy_location", "copy_type"}
        /\ zone_map[data_id[t]].type = "LOC"
        /\ zone_map[data_id[t]].location.zone = z}

\* Points at which a thread copies the entry it has found, and points between the
\* commit of a chunk and the insertion of its mapping.
Copying == {"copy_location", "copy_type"}
Inserting == {"update_write", "insert"}

\* Threads that have looked at an entry into the zone and not copied it yet, and
\* threads that are about to insert one.
InFlight(z) ==
  {t \in Threads :
     \/ /\ pc[t] \in Copying
        /\ zone_map[data_id[t]].type = "LOC" /\ zone_map[data_id[t]].location.zone = z
     \/ pc[t] \in Inserting /\ location[t].zone = z}

cacheTypeOK(evictPcs) ==
  /\ ZsmTypeOK
  /\ mapTypeOK
  /\ pc \in [Threads -> InGet \cup evictPcs \cup
              {"next", "finish", "exited", "failed", "bg_done", "bg_free"}]
  /\ data_id \in [Threads -> Ids \cup {NULL}]
  /\ result \in [Threads -> zone_map_result]
  /\ location \in [Threads -> zn_pair \cup {NoPair}]
  /\ data \in [Threads -> Ids \cup {NULL, Blank, Torn}]
  /\ disk \in [Zones -> [Chunks -> Ids \cup {Blank, Torn}]]
  /\ ratio \in [hits : Nat, misses : Nat]
  /\ workload_index \in 0 .. WorkloadMax
  /\ nr_threads_completed \in 0 .. Cardinality(Workers)
  /\ done \in BOOLEAN

\* The program as a whole, evictors included, uses the zone state manager the way
\* the manager assumes: a pair goes back to where it came from, and only a zone
\* whose last chunk is written is reset.
CallsRespectZsm == ZsmSpec

\* No lost wakeup: as long as a thread sleeps on write_finished of an id
\* (cachemap.c:60), another thread is on its way to insert that id or to give it
\* up, and both broadcast.
WaitersHaveFiller ==
  \A t \in Threads : waiting[t] # NULL => Fillers(waiting[t]) # {}

\* A chunk the manager counts as written holds the whole data of some id until its
\* zone is reset: a write that failed, or tore its chunk, is never committed by the
\* thread that gets the zone next (cache.c:134-157, 314).  With the chunk policy this
\* is so on zoned devices only: on a block device the collector may write over a
\* committed chunk (chunk.c:109-131).
CommittedChunksWhole ==
  \A z \in Zones, c \in Chunks :
    zone_state[z] # "FREE" /\ ChunkWritten(Pair(z, c)) => disk[z][c] \in Ids

\* A hit returns the data of the id that was asked for (zn_validate_read in
\* task_function, zncache.c:152).
ReadValid ==
  \A t \in Threads :
    pc[t] \in {"update_read", "release"} => data[t] \in {data_id[t], NULL}

\* The two maps are inverse to each other, and a mapped chunk holds the data:
\* what the asserts of zn_cachemap_clear_zone (cachemap.c:149-152) rest on.
MapsAgree ==
  /\ \A id \in Ids : zone_map[id].type = "LOC" =>
       LET pair == zone_map[id].location IN
       /\ data_map[pair.zone][pair.chunk_offset] = id
       /\ disk[pair.zone][pair.chunk_offset] = id
  /\ \A pair \in zn_pair :
       LET id == data_map[pair.zone][pair.chunk_offset] IN
       id # NULL => zone_map[id] = Entry("LOC", pair)

\* active_readers counts the readers of a zone, so that an evictor that waits for
\* it to reach 0 (cache.c:37) waits for these readers and for nobody else.
ReadersBalanced ==
  \A z \in Zones : active_readers[z] = Cardinality(Readers(z))

\* Single flight: however many workers ask for an id at the same time, its data is
\* fetched and stored once.
FetchedOnce ==
  ratio.misses = Cardinality({id \in Ids : \E z \in Zones, c \in Chunks : disk[z][c] = id})

\* zn_cachemap_find tells its caller where the data is, or that it is to write it;
\* it never returns an empty entry (assert at cache.c:65).
ResultNotEmpty ==
  \A t \in Threads : pc[t] \in {"read", "get_zone"} => result[t].type # "EMPTY"

\* Every zn_cache_get returns, with data or with NULL.
GetReturns ==
  \A t \in Workers : pc[t] = "find" ~> pc[t] \in {"next", "failed"}
==============================================================================
