------------------------------- MODULE CacheProofs -------------------------------
(***************************************************************************)
(* What the front end of the cache (module Cache) keeps invariant whatever *)
(* the eviction policy: lemmas for the modules that compose it with one.   *)
(***************************************************************************)
EXTENDS Cache, ZoneStateManagerProofs

\* Points of the program at which a thread serves no request.
OutsideGet == {"next", "finish", "exited", "failed", "bg_done", "bg_free"}

\* Points at which a thread has a location to fill, and at which the zone of that
\* location is out with it.
HasLocation == {"write", "return_zone", "update_write", "insert", "undo_zone"}
HoldsZone == {"write", "return_zone", "undo_zone"}

\* The variables of the front end and the map keep their types; those of the zone
\* state manager are the subject of ZsmInv.
FrontTypeOK(evictPcs) ==
  /\ mapTypeOK
  /\ pc \in [Threads -> InGet \cup evictPcs \cup OutsideGet]
  /\ data_id \in [Threads -> Ids \cup {NULL}]
  /\ result \in [Threads -> zone_map_result]
  /\ location \in [Threads -> zn_pair \cup {NoPair}]
  /\ data \in [Threads -> Ids \cup {NULL, Blank, Torn}]
  /\ disk \in [Zones -> [Chunks -> Ids \cup {Blank, Torn}]]
  /\ ratio \in [hits : Nat, misses : Nat]
  /\ workload_index \in 0 .. WorkloadMax
  /\ done \in BOOLEAN

\* A worker never runs the code of the eviction thread nor the eviction thread that
\* of a worker, and a thread has an id, and a location, where the code uses them.
ControlOK ==
  \A t \in Threads :
    /\ pc[t] \in InGet \cup {"next", "finish", "failed"} => t \in Workers
    /\ pc[t] \in {"bg_done", "bg_free"} => t \notin Workers
    /\ data_id[t] # NULL <=> t \in Workers /\ pc[t] \notin OutsideGet
    /\ pc[t] \in HasLocation => location[t] \in zn_pair

Exited == {w \in Workers : pc[w] = "exited"}

\* nr_threads_completed counts the workers that have left task_function.
CompletedOK == nr_threads_completed = Cardinality(Exited)

\* A thread holds a zone of the manager from zsm_get_active_zone to the call that
\* gives it back, and its location is what it was given.
GrantsMatchLocations ==
  \A t \in Threads :
    IF pc[t] \in HoldsZone THEN grant[t] # NoPair /\ grant[t] = location[t]
                           ELSE grant[t] = NoPair

\* An id that is being fetched, or waited for, has a thread that will broadcast.
FillersPresent ==
  \A id \in Ids :
    zone_map[id].type = "COND" \/ (\E t \in Threads : waiting[t] = id) => Fillers(id) # {}

\* The chunks the manager counts as written.
Committed == {p \in zn_pair : zone_state[p.zone] # "FREE" /\ ChunkWritten(p)}

\* A committed chunk holds the whole data of some id, and so does a chunk that is
\* about to be committed.
WholeCommitted == \A p \in Committed : disk[p.zone][p.chunk_offset] \in Ids
WholeBeforeReturn ==
  \A t \in Threads :
    pc[t] = "return_zone" => disk[location[t].zone][location[t].chunk_offset] \in Ids

\* The zones that are written to their end.
Written == {z \in Zones : LastChunkWritten(z)}
------------------------------------------------------------------------------
\* A zone that is granted is a zone.
LEMMA SuccessGrants ==
  ASSUME ZsmTypeOK, NEW t \in Threads, zsm_get_active_zone_success(t)
  PROVE  grant'[t].zone \in Zones
<1>1. CASE TakeActiveZone(t)
  <2>1. Head(active) \in Zones
    BY <1>1, PopQueue DEF ZsmTypeOK, TakeActiveZone
  <2> QED BY <1>1, <2>1 DEF ZsmTypeOK, TakeActiveZone, PopActive, Pair
<1>2. CASE OpenFreeZone(t)
  <2>1. Head(free) \in Zones
    BY <1>2, PopQueue DEF ZsmTypeOK, OpenFreeZone, CanOpen
  <2>2. Head(Append(active, Head(free))) = Head(free)
    BY <1>2, <2>1, PushPop DEF OpenFreeZone
  <2> QED BY <1>2, <2>1, <2>2 DEF ZsmTypeOK, OpenFreeZone, PopActive, Pair
<1> QED BY <1>1, <1>2 DEF zsm_get_active_zone_success

\* zn_init_cache establishes the front end's part of the invariants.
LEMMA FrontInit ==
  ASSUME NEW evictPcs, zn_init_cache
  PROVE  FrontTypeOK(evictPcs) /\ ControlOK
<1> USE NumZonesAssumption, MaxZoneChunksAssumption, NullAssumption, WorkloadMaxAssumption
<1>1. Pair(0, 0) \in zn_pair
  BY NoPairFacts DEF Zones, Chunks
<1>2. mapTypeOK
  BY <1>1 DEF zn_init_cache, zn_cachemap_init, mapTypeOK, zone_map_result, NoEntry, Entry
<1>3. result \in [Threads -> zone_map_result]
  BY <1>1 DEF zn_init_cache, zone_map_result, NoEntry, Entry
<1>4. FrontTypeOK(evictPcs)
  <2>1. /\ pc \in [Threads -> InGet \cup evictPcs \cup OutsideGet]
        /\ data_id \in [Threads -> Ids \cup {NULL}]
        /\ location \in [Threads -> zn_pair \cup {NoPair}]
        /\ data \in [Threads -> Ids \cup {NULL, Blank, Torn}]
    BY DEF zn_init_cache, OutsideGet
  <2>2. /\ disk \in [Zones -> [Chunks -> Ids \cup {Blank, Torn}]]
        /\ ratio \in [hits : Nat, misses : Nat]
        /\ workload_index \in 0 .. WorkloadMax
    BY DEF zn_init_cache
  <2>3. done \in BOOLEAN
    BY DEF zn_init_cache
  <2> QED BY <1>2, <1>3, <2>1, <2>2, <2>3 DEF FrontTypeOK
<1>5. ControlOK
  BY DEF zn_init_cache, ControlOK, InGet, OutsideGet, HasLocation
<1> QED BY <1>4, <1>5

\* Requests and lookups keep types and control.
LEMMA TaskFront ==
  ASSUME NEW evictPcs, FrontTypeOK(evictPcs), ControlOK, NEW t \in Threads, TaskStep(t)
  PROVE  FrontTypeOK(evictPcs)' /\ ControlOK'
<1> USE NullAssumption, WorkloadMaxAssumption
<1>1. CASE TakeRequest(t)
  <2>1. PICK id \in Ids : data_id' = [data_id EXCEPT ![t] = id]
    BY <1>1 DEF TakeRequest
  <2>2. FrontTypeOK(evictPcs)'
    BY <1>1, <2>1 DEF TakeRequest, Goto, mapVars, FrontTypeOK, mapTypeOK, InGet
  <2>3. ControlOK'
    BY <1>1, <2>1 DEF TakeRequest, Goto, mapVars, FrontTypeOK, ControlOK, InGet, OutsideGet, HasLocation
  <2> QED BY <2>2, <2>3
<1>2. CASE WorkloadDone(t)
  <2>2. FrontTypeOK(evictPcs)'
    BY <1>2 DEF WorkloadDone, Goto, mapVars, locals, progress, FrontTypeOK, mapTypeOK, OutsideGet
  <2>3. ControlOK'
    BY <1>2 DEF WorkloadDone, Goto, locals, FrontTypeOK, ControlOK, InGet, OutsideGet, HasLocation
  <2> QED BY <2>2, <2>3
<1>3. CASE CountCompleted(t)
  <2>2. FrontTypeOK(evictPcs)'
    BY <1>3 DEF CountCompleted, Goto, mapVars, locals, FrontTypeOK, mapTypeOK, OutsideGet
  <2>3. ControlOK'
    BY <1>3 DEF CountCompleted, Goto, locals, FrontTypeOK, ControlOK, InGet, OutsideGet, HasLocation
  <2> QED BY <2>2, <2>3
<1> QED BY <1>1, <1>2, <1>3 DEF TaskStep

\* What a lookup returns is an entry: the copy of zn_cachemap_find keeps the type.
LEMMA EntryUpdate ==
  ASSUME NEW entry \in zone_map_result
  PROVE  /\ entry.location \in zn_pair
         /\ entry.type \in {"LOC", "COND", "EMPTY", "NONE"}
         /\ \A type \in {"LOC", "COND", "EMPTY", "NONE"} :
              [entry EXCEPT !.type = type] \in zone_map_result
         /\ \A pair \in zn_pair : /\ [entry EXCEPT !.location = pair] \in zone_map_result
                                  /\ Entry("LOC", pair) \in zone_map_result
BY DEF zone_map_result, Entry

\* zn_cache_get returns: what the thread kept for the request is gone.
LEMMA ReturnFront ==
  ASSUME NEW evictPcs, FrontTypeOK(evictPcs), ControlOK, NEW t \in Threads,
         pc[t] \in InGet, NEW to \in {"next", "failed"}, Return(t, to),
         mapTypeOK', ratio' \in [hits : Nat, misses : Nat], UNCHANGED <<disk, progress>>
  PROVE  FrontTypeOK(evictPcs)' /\ ControlOK'
<1>1. NoEntry \in zone_map_result
  BY NoPairFacts, NumZonesAssumption, MaxZoneChunksAssumption
  DEF zone_map_result, NoEntry, Entry, Zones, Chunks
<1>2. FrontTypeOK(evictPcs)'
  BY <1>1 DEF Return, FrontTypeOK, OutsideGet, progress
<1>3. ControlOK'
  BY DEF Return, FrontTypeOK, ControlOK, InGet, OutsideGet, HasLocation
<1> QED BY <1>2, <1>3

\* The lookup.
LEMMA FindFront ==
  ASSUME NEW evictPcs, FrontTypeOK(evictPcs), ControlOK, NEW t \in Threads,
         zn_cachemap_find(t) \/ FindReturnLocation(t) \/ FindReturnType(t)
  PROVE  FrontTypeOK(evictPcs)' /\ ControlOK'
<1> USE NullAssumption
<1>0. pc[t] \in {"find", "copy_location", "copy_type"}
  BY DEF zn_cachemap_find, FindReturnLocation, FindReturnType, Goto
<1>1. data_id[t] \in Ids
  BY <1>0 DEF ControlOK, FrontTypeOK, InGet, OutsideGet
<1>2. zone_map[data_id[t]] \in zone_map_result
  BY <1>1 DEF FrontTypeOK, mapTypeOK
<1>3. CASE zn_cachemap_find(t)
  <2>1. mapTypeOK'
    <3>1. CASE FindHit(data_id[t])
      <4>1. zone_map[data_id[t]].location.zone \in Zones
        BY <1>2, EntryUpdate, NoPairFacts
      <4> QED BY <3>1, <4>1 DEF FindHit, FrontTypeOK, mapTypeOK
    <3>2. CASE FindClaim(data_id[t])
      BY <1>1, <1>2, <3>2, EntryUpdate DEF FindClaim, FrontTypeOK, mapTypeOK
    <3>3. CASE FindWait(t, data_id[t])
      BY <1>1, <3>3 DEF FindWait, FrontTypeOK, mapTypeOK
    <3> QED BY <1>3, <3>1, <3>2, <3>3 DEF zn_cachemap_find
  <2>2. /\ pc' = pc \/ pc' = [pc EXCEPT ![t] = "copy_location"]
        /\ UNCHANGED <<locals, disk, ratio, progress>>
    BY <1>3 DEF zn_cachemap_find
  <2>3. FrontTypeOK(evictPcs)'
    BY <2>1, <2>2 DEF FrontTypeOK, locals, progress, InGet
  <2>4. ControlOK'
    BY <1>0, <2>2 DEF FrontTypeOK, locals, ControlOK, InGet, OutsideGet, HasLocation
  <2> QED BY <2>3, <2>4
<1>4. CASE FindReturnLocation(t)
  <2>1. result' \in [Threads -> zone_map_result]
    BY <1>2, <1>4, EntryUpdate DEF FindReturnLocation, FrontTypeOK
  <2>2. FrontTypeOK(evictPcs)'
    BY <1>4, <2>1 DEF FindReturnLocation, Goto, mapVars, progress, FrontTypeOK, mapTypeOK, InGet
  <2>3. ControlOK'
    BY <1>4 DEF FindReturnLocation, Goto, FrontTypeOK, ControlOK, InGet, OutsideGet, HasLocation
  <2> QED BY <2>2, <2>3
<1>5. CASE FindReturnType(t)
  <2>1. result' \in [Threads -> zone_map_result]
    BY <1>2, <1>5, EntryUpdate DEF FindReturnType, FrontTypeOK
  <2>2. FrontTypeOK(evictPcs)'
    BY <1>5, <2>1 DEF FindReturnType, Goto, mapVars, progress, FrontTypeOK, mapTypeOK, InGet
  <2>3. ControlOK'
    BY <1>5 DEF FindReturnType, Goto, FrontTypeOK, ControlOK, InGet, OutsideGet, HasLocation
  <2> QED BY <2>2, <2>3
<1> QED BY <1>3, <1>4, <1>5

\* The hit.
LEMMA HitFront ==
  ASSUME NEW evictPcs, FrontTypeOK(evictPcs), ControlOK, NEW t \in Threads,
         ReadChunk(t) \/ HitDone(t)
  PROVE  FrontTypeOK(evictPcs)' /\ ControlOK'
<1>1. result[t] \in zone_map_result
  BY DEF FrontTypeOK
<1>2. result[t].location \in zn_pair
  BY <1>1, EntryUpdate
<1>3. result[t].location.zone \in Zones /\ result[t].location.chunk_offset \in Chunks
  BY <1>2, NoPairFacts
<1>4. CASE ReadChunk(t)
  <2>1. zn_read_from_disk(result[t].location) \subseteq Ids \cup {NULL, Blank, Torn}
    BY <1>3 DEF FrontTypeOK, zn_read_from_disk
  <2>2. data' \in [Threads -> Ids \cup {NULL, Blank, Torn}]
    BY <1>4, <2>1 DEF ReadChunk, FrontTypeOK
  <2>3. FrontTypeOK(evictPcs)'
    BY <1>4, <2>2 DEF ReadChunk, Goto, mapVars, progress, FrontTypeOK, mapTypeOK, InGet
  <2>4. ControlOK'
    BY <1>4 DEF ReadChunk, Goto, FrontTypeOK, ControlOK, InGet, OutsideGet, HasLocation
  <2> QED BY <2>3, <2>4
<1>5. CASE HitDone(t)
  <2>1. mapTypeOK'
    BY <1>3, <1>5 DEF HitDone, ReleaseReader, FrontTypeOK, mapTypeOK
  <2>2. ratio' \in [hits : Nat, misses : Nat]
    BY <1>5 DEF HitDone, FrontTypeOK
  <2> QED BY <1>5, <2>1, <2>2, ReturnFront DEF HitDone, InGet
<1> QED BY <1>4, <1>5

\* The miss, up to the return of the zone.
LEMMA MissFront ==
  ASSUME NEW evictPcs, "evict" \in evictPcs, ZsmTypeOK, ZsmTypeOK',
         FrontTypeOK(evictPcs), ControlOK, NEW t \in Threads,
         GetZone(t) \/ WriteChunk(t) \/ ReturnZone(t) \/ UndoZoneGet(t)
  PROVE  FrontTypeOK(evictPcs)' /\ ControlOK'
<1> USE NullAssumption
<1>1. CASE GetZone(t)
  <2>1. pc[t] = "get_zone" /\ UNCHANGED <<mapVars, data_id, result, data, disk, ratio, progress>>
    BY <1>1 DEF GetZone, Goto
  <2>2. \/ /\ pc' = [pc EXCEPT ![t] = "write"]
           /\ location' = [location EXCEPT ![t] = grant'[t]]
           /\ zsm_get_active_zone_success(t)
        \/ /\ pc' = [pc EXCEPT ![t] = "undo_map"] \/ pc' = [pc EXCEPT ![t] = "evict"]
           /\ location' = location
    BY <1>1 DEF GetZone, Goto
  <2>3. zsm_get_active_zone_success(t) => grant'[t] \in zn_pair
    BY SuccessGrants, NoPairFacts DEF ZsmTypeOK
  <2>4. FrontTypeOK(evictPcs)'
    BY <2>1, <2>2, <2>3 DEF mapVars, progress, FrontTypeOK, mapTypeOK, InGet
  <2>5. ControlOK'
    BY <2>1, <2>2, <2>3 DEF FrontTypeOK, ControlOK, InGet, OutsideGet, HasLocation
  <2> QED BY <2>4, <2>5
<1>2. CASE WriteChunk(t)
  <2>1. /\ pc[t] = "write"
        /\ pc' = [pc EXCEPT ![t] = "return_zone"] \/ pc' = [pc EXCEPT ![t] = "undo_zone"]
        /\ UNCHANGED <<mapVars, locals, progress>>
        /\ ratio' = ratio \/ ratio' = [ratio EXCEPT !.misses = @ + 1]
    BY <1>2 DEF WriteChunk, Goto
  <2>2. location[t] \in zn_pair /\ data_id[t] \in Ids
    BY <2>1 DEF ControlOK, FrontTypeOK, InGet, HasLocation, OutsideGet
  <2>3. location[t].zone \in Zones /\ location[t].chunk_offset \in Chunks
    BY <2>2, NoPairFacts
  <2>4. disk' \in [Zones -> [Chunks -> Ids \cup {Blank, Torn}]]
    <3>1. \E v \in Ids \cup {Torn} :
            \/ disk' = [disk EXCEPT ![location[t].zone][location[t].chunk_offset] = v]
            \/ disk' = disk
      BY <1>2, <2>2 DEF WriteChunk, zn_write_out
    <3> QED BY <2>3, <3>1 DEF FrontTypeOK
  <2>5. ratio' \in [hits : Nat, misses : Nat]
    BY <2>1 DEF FrontTypeOK
  <2>6. FrontTypeOK(evictPcs)'
    BY <2>1, <2>4, <2>5 DEF mapVars, locals, progress, FrontTypeOK, mapTypeOK, InGet
  <2>7. ControlOK'
    BY <2>1, <2>2 DEF locals, FrontTypeOK, ControlOK, InGet, OutsideGet, HasLocation
  <2> QED BY <2>6, <2>7
<1>3. CASE ReturnZone(t) \/ UndoZoneGet(t)
  <2>1. /\ pc[t] \in {"return_zone", "undo_zone"}
        /\ \/ pc' = [pc EXCEPT ![t] = "update_write"] /\ pc[t] = "return_zone"
           \/ pc' = [pc EXCEPT ![t] = "undo_map"]
        /\ UNCHANGED <<mapVars, locals, disk, ratio, progress>>
    BY <1>3 DEF ReturnZone, UndoZoneGet, Goto
  <2>2. FrontTypeOK(evictPcs)'
    BY <2>1 DEF mapVars, locals, progress, FrontTypeOK, mapTypeOK, InGet
  <2>3. ControlOK'
    BY <2>1 DEF locals, FrontTypeOK, ControlOK, InGet, OutsideGet, HasLocation
  <2> QED BY <2>2, <2>3
<1> QED BY <1>1, <1>2, <1>3

\* The end of a miss: the entry of the id is set, and its waiters are woken.
LEMMA MissDoneFront ==
  ASSUME NEW evictPcs, FrontTypeOK(evictPcs), ControlOK, NEW t \in Threads,
         MissDone(t) \/ UndoMap(t)
  PROVE  FrontTypeOK(evictPcs)' /\ ControlOK'
<1> USE NullAssumption
<1>1. pc[t] \in {"insert", "undo_map"}
  BY DEF MissDone, UndoMap
<1>2. data_id[t] \in Ids /\ zone_map[data_id[t]] \in zone_map_result
  BY <1>1 DEF ControlOK, FrontTypeOK, mapTypeOK, InGet, OutsideGet
<1>3. waiting' \in [Threads -> Ids \cup {NULL}]
  BY DEF MissDone, UndoMap, zn_cachemap_insert, zn_cachemap_fail, Broadcast, FrontTypeOK, mapTypeOK
<1>4. CASE MissDone(t)
  <2>1. location[t] \in zn_pair
    BY <1>4 DEF MissDone, ControlOK, HasLocation
  <2>2. location[t].zone \in Zones /\ location[t].chunk_offset \in Chunks
    BY <2>1, NoPairFacts
  <2>3. Entry("LOC", location[t]) \in zone_map_result
    BY <2>1 DEF Entry, zone_map_result
  <2>4. zone_map' \in [Ids -> zone_map_result]
    BY <1>2, <1>4, <2>3 DEF MissDone, zn_cachemap_insert, FrontTypeOK, mapTypeOK
  <2>5. data_map' \in [Zones -> [Chunks -> Ids \cup {NULL}]]
    BY <1>2, <1>4, <2>2 DEF MissDone, zn_cachemap_insert, FrontTypeOK, mapTypeOK
  <2>6. mapTypeOK'
    BY <1>3, <1>4, <2>4, <2>5 DEF MissDone, zn_cachemap_insert, FrontTypeOK, mapTypeOK
  <2>7. /\ pc[t] \in InGet /\ Return(t, "next")
        /\ ratio' \in [hits : Nat, misses : Nat] /\ UNCHANGED <<disk, progress>>
    BY <1>4 DEF MissDone, InGet, FrontTypeOK
  <2> QED BY <2>6, <2>7, ReturnFront
<1>5. CASE UndoMap(t)
  <2>1. zone_map' \in [Ids -> zone_map_result]
    BY <1>2, <1>5, EntryUpdate DEF UndoMap, zn_cachemap_fail, FrontTypeOK, mapTypeOK
  <2>2. mapTypeOK'
    BY <1>3, <1>5, <2>1 DEF UndoMap, zn_cachemap_fail, FrontTypeOK, mapTypeOK
  <2>3. /\ pc[t] \in InGet /\ Return(t, "failed")
        /\ ratio' \in [hits : Nat, misses : Nat] /\ UNCHANGED <<disk, progress>>
    BY <1>5 DEF UndoMap, InGet, FrontTypeOK
  <2> QED BY <2>2, <2>3, ReturnFront
<1> QED BY <1>4, <1>5

\* The loop of the eviction thread, and a spurious wakeup.
LEMMA EvictTaskFront ==
  ASSUME NEW evictPcs, "evict" \in evictPcs, FrontTypeOK(evictPcs), ControlOK,
         NEW t \in Threads, evict_task(t) \/ Wakeup(t)
  PROVE  FrontTypeOK(evictPcs)' /\ ControlOK'
<1>1. CASE evict_task(t)
  <2>1. /\ pc[t] \in {"bg_done", "bg_free"}
        /\ \E to \in {"exited", "bg_free", "bg_done", "evict"} : pc' = [pc EXCEPT ![t] = to]
        /\ UNCHANGED <<mapVars, locals, disk, ratio, progress>>
    BY <1>1 DEF evict_task, CheckDone, CheckFreeZones, Goto
  <2>2. FrontTypeOK(evictPcs)'
    BY <2>1 DEF mapVars, locals, progress, FrontTypeOK, mapTypeOK, OutsideGet
  <2>3. ControlOK'
    BY <2>1 DEF locals, FrontTypeOK, ControlOK, InGet, OutsideGet, HasLocation
  <2> QED BY <2>2, <2>3
<1>2. CASE Wakeup(t)
  <2>1. FrontTypeOK(evictPcs)'
    BY <1>2 DEF Wakeup, SpuriousWakeup, cacheVars, locals, progress, FrontTypeOK, mapTypeOK
  <2>2. ControlOK'
    BY <1>2 DEF Wakeup, cacheVars, locals, ControlOK
  <2> QED BY <2>1, <2>2
<1> QED BY <1>1, <1>2

\* Every step of the front end keeps types and control.
LEMMA FrontStep ==
  ASSUME NEW evictPcs, "evict" \in evictPcs, ZsmTypeOK, ZsmTypeOK',
         FrontTypeOK(evictPcs), ControlOK, NEW t \in Threads,
         TaskStep(t) \/ GetStep(t) \/ evict_task(t) \/ Wakeup(t)
  PROVE  FrontTypeOK(evictPcs)' /\ ControlOK'
<1>1. CASE TaskStep(t)
  BY <1>1, TaskFront
<1>2. CASE zn_cachemap_find(t) \/ FindReturnLocation(t) \/ FindReturnType(t)
  BY <1>2, FindFront
<1>3. CASE ReadChunk(t) \/ HitDone(t)
  BY <1>3, HitFront
<1>4. CASE GetZone(t) \/ WriteChunk(t) \/ ReturnZone(t) \/ UndoZoneGet(t)
  BY <1>4, MissFront
<1>5. CASE MissDone(t) \/ UndoMap(t)
  BY <1>5, MissDoneFront
<1>6. CASE evict_task(t) \/ Wakeup(t)
  BY <1>6, EvictTaskFront
<1> QED BY <1>1, <1>2, <1>3, <1>4, <1>5, <1>6 DEF GetStep
------------------------------------------------------------------------------
(***************************************************************************)
(* The workers that have left task_function are counted.                   *)
(***************************************************************************)
\* A step that lets no worker leave keeps the count.
LEMMA ExitedUnchanged ==
  ASSUME NEW evictPcs, FrontTypeOK(evictPcs), NEW t \in Threads, NEW to,
         pc' = [pc EXCEPT ![t] = to],
         t \notin Workers \/ (pc[t] # "exited" /\ to # "exited")
  PROVE  Exited' = Exited
BY WorkersAssumption DEF Exited, FrontTypeOK

\* Counting never passes the number of workers.
LEMMA CompletedBound ==
  ASSUME CompletedOK
  PROVE  nr_threads_completed \in 0 .. Cardinality(Workers)
<1>1. IsFiniteSet(Workers) /\ Exited \subseteq Workers
  BY WorkersAssumption, ThreadsAssumption, FS_Subset DEF Exited
<1>2. Cardinality(Exited) <= Cardinality(Workers)
  BY <1>1, FS_Subset
<1>3. Cardinality(Exited) \in Nat /\ Cardinality(Workers) \in Nat
  BY <1>1, FS_Subset, FS_CardinalityType
<1> QED BY <1>2, <1>3 DEF CompletedOK

\* Nobody has left at the start.
LEMMA CompletedInit == zn_init_cache => CompletedOK
<1> SUFFICES ASSUME zn_init_cache PROVE CompletedOK
  OBVIOUS
<1>1. Exited = {}
  BY WorkersAssumption DEF zn_init_cache, Exited
<1> QED BY <1>1, FS_EmptySet DEF zn_init_cache, CompletedOK

\* A worker leaves task_function exactly when it is counted.
LEMMA CompletedStep ==
  ASSUME NEW evictPcs, FrontTypeOK(evictPcs), ControlOK, CompletedOK, NEW t \in Threads,
         TaskStep(t) \/ GetStep(t) \/ evict_task(t) \/ Wakeup(t)
  PROVE  CompletedOK'
<1>1. CASE CountCompleted(t)
  <2>1. pc[t] = "finish" /\ pc' = [pc EXCEPT ![t] = "exited"] /\ t \in Workers
    BY <1>1 DEF CountCompleted, Goto, ControlOK
  <2>2. Exited' = Exited \cup {t} /\ t \notin Exited
    BY <2>1, WorkersAssumption DEF Exited, FrontTypeOK
  <2>3. IsFiniteSet(Exited)
    BY WorkersAssumption, ThreadsAssumption, FS_Subset DEF Exited
  <2>4. Cardinality(Exited') = Cardinality(Exited) + 1
    BY <2>2, <2>3, FS_AddElement
  <2> QED BY <1>1, <2>4 DEF CountCompleted, CompletedOK
<1>2. CASE TakeRequest(t) \/ WorkloadDone(t)
  <2>1. /\ nr_threads_completed' = nr_threads_completed
        /\ pc' = [pc EXCEPT ![t] = "find"] \/ pc' = [pc EXCEPT ![t] = "finish"]
        /\ pc[t] = "next"
    BY <1>2 DEF TakeRequest, WorkloadDone, Goto, progress
  <2> QED BY <2>1, ExitedUnchanged DEF CompletedOK
<1>3. CASE GetStep(t)
  <2>1. nr_threads_completed' = nr_threads_completed
    BY <1>3 DEF GetStep, zn_cachemap_find, FindReturnLocation, FindReturnType, ReadChunk, HitDone,
                GetZone, WriteChunk, ReturnZone, MissDone, UndoZoneGet, UndoMap, progress
  <2>2. /\ pc[t] # "exited"
        /\ pc' = pc \/ \E to \in InGet \cup {"evict", "next", "failed"} : pc' = [pc EXCEPT ![t] = to]
    <3>1. CASE zn_cachemap_find(t)
      BY <3>1 DEF zn_cachemap_find, InGet
    <3>2. CASE FindReturnLocation(t) \/ FindReturnType(t) \/ ReadChunk(t)
      BY <3>2 DEF FindReturnLocation, FindReturnType, ReadChunk, Goto, InGet
    <3>3. CASE HitDone(t) \/ MissDone(t) \/ UndoMap(t)
      BY <3>3 DEF HitDone, MissDone, UndoMap, Return
    <3>4. CASE GetZone(t)
      BY <3>4 DEF GetZone, Goto, InGet
    <3>5. CASE WriteChunk(t) \/ ReturnZone(t) \/ UndoZoneGet(t)
      BY <3>5 DEF WriteChunk, ReturnZone, UndoZoneGet, Goto, InGet
    <3> QED BY <1>3, <3>1, <3>2, <3>3, <3>4, <3>5 DEF GetStep
  <2>3. Exited' = Exited
    BY <2>2, ExitedUnchanged DEF InGet, Exited
  <2> QED BY <2>1, <2>3 DEF CompletedOK
<1>4. CASE evict_task(t)
  <2>1. /\ nr_threads_completed' = nr_threads_completed
        /\ pc[t] \in {"bg_done", "bg_free"}
        /\ \E to : pc' = [pc EXCEPT ![t] = to]
    BY <1>4 DEF evict_task, CheckDone, CheckFreeZones, Goto, progress
  <2>2. t \notin Workers
    BY <2>1 DEF ControlOK
  <2>3. Exited' = Exited
    BY <2>1, <2>2, ExitedUnchanged
  <2> QED BY <2>1, <2>3 DEF CompletedOK
<1>5. CASE Wakeup(t)
  BY <1>5 DEF Wakeup, cacheVars, progress, CompletedOK, Exited
<1> QED BY <1>1, <1>2, <1>3, <1>4, <1>5 DEF TaskStep
------------------------------------------------------------------------------
(***************************************************************************)
(* The front end uses the zone state manager as its callers should.        *)
(***************************************************************************)
\* A step of the front end is a step of the manager or leaves it alone.
LEMMA FrontCallsZsm ==
  ASSUME GrantsMatchLocations, NEW t \in Threads,
         TaskStep(t) \/ GetStep(t) \/ evict_task(t) \/ Wakeup(t)
  PROVE  ThreadStep(t) \/ UNCHANGED zsmVars
<1>1. CASE TaskStep(t) \/ evict_task(t) \/ Wakeup(t)
  BY <1>1 DEF TaskStep, TakeRequest, WorkloadDone, CountCompleted, evict_task, CheckDone,
              CheckFreeZones, Wakeup
<1>2. CASE zn_cachemap_find(t) \/ FindReturnLocation(t) \/ FindReturnType(t) \/ ReadChunk(t)
           \/ HitDone(t) \/ WriteChunk(t) \/ MissDone(t) \/ UndoMap(t)
  BY <1>2 DEF zn_cachemap_find, FindReturnLocation, FindReturnType, ReadChunk, HitDone,
              WriteChunk, MissDone, UndoMap
<1>3. CASE GetZone(t)
  <2>1. grant[t] = NoPair
    BY <1>3 DEF GetZone, Goto, GrantsMatchLocations, HoldsZone
  <2> QED BY <1>3, <2>1 DEF GetZone, ThreadStep
<1>4. CASE ReturnZone(t)
  <2>1. grant[t] # NoPair /\ location[t] = grant[t]
    BY <1>4 DEF ReturnZone, Goto, GrantsMatchLocations, HoldsZone
  <2> QED BY <1>4, <2>1 DEF ReturnZone, ThreadStep
<1>5. CASE UndoZoneGet(t)
  <2>1. grant[t] # NoPair /\ location[t] = grant[t]
    BY <1>5 DEF UndoZoneGet, Goto, GrantsMatchLocations, HoldsZone
  <2> QED BY <1>5, <2>1 DEF UndoZoneGet, ThreadStep
<1> QED BY <1>1, <1>2, <1>3, <1>4, <1>5 DEF GetStep

\* Nobody holds a zone at the start.
LEMMA GrantsInit == zn_init_cache => GrantsMatchLocations
BY DEF zn_init_cache, zsm_init, GrantsMatchLocations, HoldsZone

\* A thread that holds no zone and takes none still holds none.
LEMMA GrantsMove ==
  ASSUME NEW evictPcs, FrontTypeOK(evictPcs), GrantsMatchLocations, NEW t \in Threads,
         pc[t] \notin HoldsZone, NEW to, to \notin HoldsZone,
         pc' = [pc EXCEPT ![t] = to], UNCHANGED grant,
         \A u \in Threads \ {t} : location'[u] = location[u]
  PROVE  GrantsMatchLocations'
BY DEF GrantsMatchLocations, FrontTypeOK

\* The link between a thread's location and what the manager gave it is kept.
LEMMA GrantsStep ==
  ASSUME NEW evictPcs, "evict" \in evictPcs, ZsmTypeOK, ZsmTypeOK', FrontTypeOK(evictPcs),
         GrantsMatchLocations, NEW t \in Threads,
         TaskStep(t) \/ GetStep(t) \/ evict_task(t) \/ Wakeup(t)
  PROVE  GrantsMatchLocations'
<1> USE DEF HoldsZone
<1>1. CASE TaskStep(t) \/ evict_task(t)
  <2>1. /\ pc[t] \in OutsideGet
        /\ \E to \in OutsideGet \cup {"find", "evict"} : pc' = [pc EXCEPT ![t] = to]
        /\ UNCHANGED <<grant, location>>
    BY <1>1 DEF TaskStep, TakeRequest, WorkloadDone, CountCompleted, evict_task, CheckDone,
                CheckFreeZones, Goto, locals, zsmVars, OutsideGet
  <2>2. PICK to \in OutsideGet \cup {"find", "evict"} : pc' = [pc EXCEPT ![t] = to]
    BY <2>1
  <2>3. pc[t] \notin HoldsZone /\ to \notin HoldsZone
    BY <2>1, <2>2 DEF OutsideGet
  <2> QED BY <2>1, <2>2, <2>3, GrantsMove
<1>2. CASE Wakeup(t)
  BY <1>2 DEF Wakeup, cacheVars, locals, zsmVars, GrantsMatchLocations
<1>3. CASE zn_cachemap_find(t)
  <2>1. /\ pc[t] = "find"
        /\ pc' = pc \/ pc' = [pc EXCEPT ![t] = "copy_location"]
        /\ UNCHANGED <<grant, location>>
    BY <1>3 DEF zn_cachemap_find, locals, zsmVars
  <2>2. CASE pc' = pc
    BY <2>1, <2>2 DEF GrantsMatchLocations
  <2>3. CASE pc' = [pc EXCEPT ![t] = "copy_location"]
    BY <2>1, <2>3, GrantsMove
  <2> QED BY <2>1, <2>2, <2>3
<1>4. CASE FindReturnLocation(t) \/ FindReturnType(t) \/ ReadChunk(t)
  <2>1. /\ pc[t] \in {"copy_location", "copy_type", "read"}
        /\ \E to \in {"copy_type", "read", "get_zone", "update_read"} : pc' = [pc EXCEPT ![t] = to]
        /\ UNCHANGED <<grant, location>>
    BY <1>4 DEF FindReturnLocation, FindReturnType, ReadChunk, Goto, zsmVars
  <2> QED BY <2>1, GrantsMove
<1>5. CASE HitDone(t) \/ MissDone(t) \/ UndoMap(t)
  <2>1. /\ pc[t] \in {"release", "insert", "undo_map"}
        /\ \E to \in {"next", "failed"} : Return(t, to)
        /\ UNCHANGED grant
    BY <1>5 DEF HitDone, MissDone, UndoMap, zsmVars
  <2>2. PICK to \in {"next", "failed"} : Return(t, to)
    BY <2>1
  <2>3. /\ pc' = [pc EXCEPT ![t] = to] /\ \A u \in Threads \ {t} : location'[u] = location[u]
    BY <2>2 DEF Return, FrontTypeOK
  <2> QED BY <2>1, <2>2, <2>3, GrantsMove
<1>6. CASE GetZone(t)
  <2>1. CASE /\ zsm_get_active_zone_success(t)
             /\ location' = [location EXCEPT ![t] = grant'[t]]
             /\ Goto(t, "get_zone", "write")
    <3>1. grant'[t] # NoPair
      BY <2>1, SuccessGrants, NoPairFacts
    <3>2. \A u \in Threads \ {t} : grant'[u] = grant[u]
      BY <2>1 DEF zsm_get_active_zone_success, TakeActiveZone, OpenFreeZone, PopActive, ZsmTypeOK
    <3>3. /\ \A u \in Threads \ {t} : pc'[u] = pc[u] /\ location'[u] = location[u]
          /\ pc'[t] = "write" /\ location'[t] = grant'[t]
      BY <2>1 DEF Goto, FrontTypeOK
    <3> QED BY <3>1, <3>2, <3>3 DEF GrantsMatchLocations
  <2>2. CASE /\ zsm_get_active_zone_error(t) \/ UNCHANGED zsmVars
             /\ Goto(t, "get_zone", "undo_map") \/ Goto(t, "get_zone", "evict")
             /\ UNCHANGED location
    <3>1. /\ pc[t] = "get_zone" /\ UNCHANGED <<grant, location>>
          /\ \E to \in {"undo_map", "evict"} : pc' = [pc EXCEPT ![t] = to]
      BY <2>2 DEF Goto, zsmVars, zsm_get_active_zone_error
    <3> QED BY <3>1, GrantsMove
  <2> QED BY <1>6, <2>1, <2>2 DEF GetZone
<1>7. CASE WriteChunk(t)
  <2>1. /\ pc[t] = "write" /\ UNCHANGED <<grant, location>>
        /\ \E to \in {"return_zone", "undo_zone"} : pc' = [pc EXCEPT ![t] = to]
    BY <1>7 DEF WriteChunk, Goto, locals, zsmVars
  <2> QED BY <2>1 DEF GrantsMatchLocations, FrontTypeOK
<1>8. CASE ReturnZone(t) \/ UndoZoneGet(t)
  <2>1. /\ grant' = [grant EXCEPT ![t] = NoPair] /\ UNCHANGED location
        /\ \E to \in {"update_write", "undo_map"} : pc' = [pc EXCEPT ![t] = to]
    BY <1>8 DEF ReturnZone, UndoZoneGet, zsm_return_active_zone, zsm_failed_to_write, Goto, locals
  <2> QED BY <2>1 DEF GrantsMatchLocations, FrontTypeOK, ZsmTypeOK
<1> QED BY <1>1, <1>2, <1>3, <1>4, <1>5, <1>6, <1>7, <1>8 DEF GetStep
------------------------------------------------------------------------------
(***************************************************************************)
(* Nobody waits for a broadcast that does not come.                        *)
(***************************************************************************)
\* Points at which a thread is not on its way to insert its id.
NotFilling == {"find", "read", "update_read", "release"}

\* A thread moves on without giving up the id it is to fill, while entries may
\* become empty under it.
LEMMA FillersMove ==
  ASSUME NEW evictPcs, FrontTypeOK(evictPcs), FillersPresent, NEW t \in Threads, NEW to,
         pc' = [pc EXCEPT ![t] = to],
         UNCHANGED <<data_id, waiting>>,
         \A id \in Ids : zone_map'[id].type \in {zone_map[id].type, "EMPTY"},
         to \notin NotFilling \cup Copying \/ pc[t] \in NotFilling \/ data_id[t] = NULL
  PROVE  FillersPresent'
<1> SUFFICES ASSUME NEW id \in Ids,
                    zone_map'[id].type = "COND" \/ (\E u \in Threads : waiting'[u] = id)
             PROVE  \E u \in Threads : u \in Fillers(id)'
  BY DEF FillersPresent
<1>1. PICK u \in Threads : u \in Fillers(id)
  BY DEF FillersPresent, Fillers
<1>2. data_id[u] = id /\ pc[u] \notin NotFilling
      /\ (pc[u] \in Copying => zone_map[id].type # "LOC")
  BY <1>1 DEF Fillers, NotFilling, Copying
<1>3. data_id'[u] = id /\ (zone_map'[id].type = "LOC" => zone_map[id].type = "LOC")
  BY <1>2
<1>4. CASE u # t
  <2>1. pc'[u] = pc[u]
    BY <1>4 DEF FrontTypeOK
  <2> QED BY <1>2, <1>3, <2>1 DEF Fillers, NotFilling, Copying
<1>5. CASE u = t
  <2>1. pc'[u] = to /\ to \notin NotFilling \cup Copying
    BY <1>2, <1>5, NullAssumption DEF FrontTypeOK
  <2> QED BY <1>2, <1>3, <2>1 DEF Fillers, NotFilling, Copying
<1> QED BY <1>4, <1>5

\* A thread that does not move stays on its way, unless the entry it is copying gets
\* a location.
LEMMA FillerStays ==
  ASSUME NEW id \in Ids, NEW u \in Fillers(id), pc'[u] = pc[u], data_id'[u] = data_id[u],
         zone_map'[id].type = "LOC" => zone_map[id].type = "LOC"
  PROVE  u \in Fillers(id)'
BY DEF Fillers

\* Nobody waits at the start.
LEMMA FillersInit == zn_init_cache => FillersPresent
BY NullAssumption DEF zn_init_cache, zn_cachemap_init, FillersPresent, NoEntry, Entry

\* The lookup: who finds an id that is being fetched waits, and who finds it empty
\* is on his way to fetch it.
LEMMA FindFillers ==
  ASSUME NEW evictPcs, FrontTypeOK(evictPcs), ControlOK, FillersPresent, NEW t \in Threads,
         zn_cachemap_find(t) \/ FindReturnLocation(t) \/ FindReturnType(t)
  PROVE  FillersPresent'
<1> USE NullAssumption
<1>0. pc[t] \in {"find"} \cup Copying
  BY DEF zn_cachemap_find, FindReturnLocation, FindReturnType, Goto, Copying
<1>1. data_id[t] \in Ids
  BY <1>0 DEF ControlOK, FrontTypeOK, InGet, OutsideGet, Copying
<1>2. CASE zn_cachemap_find(t) /\ FindHit(data_id[t])
  <2>1. CASE pc' = [pc EXCEPT ![t] = "copy_location"]
    <3>1. UNCHANGED <<data_id, waiting, zone_map>> /\ pc[t] = "find"
      BY <1>2 DEF zn_cachemap_find, FindHit, locals
    <3> QED BY <2>1, <3>1, FillersMove DEF NotFilling
  <2>2. CASE pc' = pc
    BY <1>2, <2>2 DEF zn_cachemap_find, FindHit, FindWait, locals, FillersPresent, Fillers
  <2> QED BY <1>2, <2>1, <2>2 DEF zn_cachemap_find
<1>3. CASE zn_cachemap_find(t) /\ FindClaim(data_id[t])
  <2>1. /\ pc[t] = "find" /\ pc' = [pc EXCEPT ![t] = "copy_location"]
        /\ zone_map' = [zone_map EXCEPT ![data_id[t]].type = "COND"]
        /\ UNCHANGED <<data_id, waiting>>
    BY <1>3 DEF zn_cachemap_find, FindClaim, FindWait, locals
  <2>2. /\ \A id \in Ids \ {data_id[t]} : zone_map'[id] = zone_map[id]
        /\ zone_map'[data_id[t]].type = "COND"
    BY <1>1, <2>1 DEF FrontTypeOK, mapTypeOK, zone_map_result
  <2>3. t \in Fillers(data_id[t])'
    BY <2>1, <2>2 DEF Fillers, FrontTypeOK
  <2>4. ASSUME NEW id \in Ids \ {data_id[t]},
               zone_map'[id].type = "COND" \/ (\E u \in Threads : waiting'[u] = id)
        PROVE  Fillers(id)' # {}
    <3>1. PICK u \in Threads : u \in Fillers(id)
      BY <2>1, <2>2, <2>4 DEF FillersPresent, Fillers
    <3>2. u # t
      BY <2>4, <3>1 DEF Fillers
    <3>3. pc'[u] = pc[u] /\ data_id'[u] = data_id[u]
      BY <2>1, <3>2 DEF FrontTypeOK
    <3> QED BY <2>2, <3>1, <3>3, FillerStays
  <2> QED BY <2>1, <2>3, <2>4 DEF FillersPresent
<1>4. CASE zn_cachemap_find(t) /\ FindWait(t, data_id[t]) /\ UNCHANGED pc
  <2>1. /\ UNCHANGED <<pc, data_id, zone_map>>
        /\ waiting' = [waiting EXCEPT ![t] = data_id[t]]
        /\ zone_map[data_id[t]].type = "COND"
    BY <1>4 DEF zn_cachemap_find, FindWait, locals
  <2>2. ASSUME NEW id \in Ids, NEW u \in Threads, waiting'[u] = id
        PROVE  waiting[u] = id \/ zone_map[id].type = "COND"
    BY <2>1, <2>2 DEF FrontTypeOK, mapTypeOK
  <2>3. \A id \in Ids : Fillers(id)' = Fillers(id)
    BY <2>1 DEF Fillers
  <2> QED BY <2>1, <2>2, <2>3 DEF FillersPresent
<1>5. CASE FindReturnLocation(t) \/ FindReturnType(t)
  <2>1. /\ pc[t] \in Copying /\ UNCHANGED <<data_id, zone_map, waiting>>
        /\ \E to \in {"copy_type", "read", "get_zone"} :
             /\ pc' = [pc EXCEPT ![t] = to]
             /\ to = "read" => zone_map[data_id[t]].type = "LOC"
    BY <1>5 DEF FindReturnLocation, FindReturnType, Goto, mapVars, Copying
  <2>2. ASSUME NEW id \in Ids, NEW u \in Fillers(id) PROVE u \in Fillers(id)'
    <3>1. CASE u = t
      BY <2>1, <2>2, <3>1 DEF Fillers, FrontTypeOK, Copying
    <3>2. CASE u # t
      BY <2>1, <2>2, <3>2, FillerStays DEF Fillers, FrontTypeOK
    <3> QED BY <3>1, <3>2
  <2> QED BY <2>1, <2>2 DEF FillersPresent
<1> QED BY <1>2, <1>3, <1>4, <1>5 DEF zn_cachemap_find

\* A miss that ends wakes everybody who waits for its id.
LEMMA BroadcastFillers ==
  ASSUME NEW evictPcs, FrontTypeOK(evictPcs), FillersPresent, NEW t \in Threads,
         data_id[t] \in Ids,
         zone_map'[data_id[t]].type # "COND",
         \A id \in Ids \ {data_id[t]} : zone_map'[id] = zone_map[id],
         Broadcast(data_id[t]),
         \A u \in Threads \ {t} : pc'[u] = pc[u] /\ data_id'[u] = data_id[u]
  PROVE  FillersPresent'
<1> SUFFICES ASSUME NEW id \in Ids,
                    zone_map'[id].type = "COND" \/ (\E u \in Threads : waiting'[u] = id)
             PROVE  \E u \in Threads : u \in Fillers(id)'
  BY DEF FillersPresent
<1>1. /\ \A u \in Threads : waiting'[u] # data_id[t]
      /\ \A u \in Threads : waiting'[u] = id => waiting[u] = id
  BY NullAssumption DEF Broadcast
<1>2. id # data_id[t]
  BY <1>1
<1>3. PICK u \in Threads : u \in Fillers(id)
  BY <1>1, <1>2 DEF FillersPresent, Fillers
<1>4. u # t
  BY <1>2, <1>3 DEF Fillers
<1> QED BY <1>2, <1>3, <1>4, FillerStays

\* Every step of the front end leaves a thread on its way to each id that is waited
\* for.
LEMMA FillersStep ==
  ASSUME NEW evictPcs, FrontTypeOK(evictPcs), ControlOK, FillersPresent, NEW t \in Threads,
         TaskStep(t) \/ GetStep(t) \/ evict_task(t) \/ Wakeup(t)
  PROVE  FillersPresent'
<1> USE NullAssumption
<1>1. CASE TakeRequest(t)
  <2>1. /\ UNCHANGED <<zone_map, waiting>> /\ data_id[t] = NULL
        /\ \A u \in Threads \ {t} : pc'[u] = pc[u] /\ data_id'[u] = data_id[u]
    BY <1>1 DEF TakeRequest, Goto, mapVars, FrontTypeOK, ControlOK, OutsideGet
  <2>2. ASSUME NEW id \in Ids, NEW u \in Fillers(id) PROVE u \in Fillers(id)'
    BY <2>1, <2>2, FillerStays DEF Fillers
  <2> QED BY <2>1, <2>2 DEF FillersPresent
<1>2. CASE WorkloadDone(t) \/ CountCompleted(t) \/ evict_task(t)
  <2>1. /\ pc[t] \in OutsideGet /\ \E to : pc' = [pc EXCEPT ![t] = to]
        /\ UNCHANGED <<data_id, zone_map, waiting>>
    BY <1>2 DEF WorkloadDone, CountCompleted, evict_task, CheckDone, CheckFreeZones, Goto,
                locals, mapVars, OutsideGet
  <2>2. data_id[t] = NULL
    BY <2>1 DEF ControlOK
  <2> QED BY <2>1, <2>2, FillersMove
<1>3. CASE Wakeup(t)
  <2>1. /\ UNCHANGED <<pc, data_id, zone_map>>
        /\ waiting' = [waiting EXCEPT ![t] = NULL]
    BY <1>3 DEF Wakeup, SpuriousWakeup, cacheVars, locals
  <2>2. \A u \in Threads, id \in Ids : waiting'[u] = id => waiting[u] = id
    BY <2>1 DEF FrontTypeOK, mapTypeOK
  <2> QED BY <2>1, <2>2 DEF FillersPresent, Fillers
<1>4. CASE zn_cachemap_find(t) \/ FindReturnLocation(t) \/ FindReturnType(t)
  BY <1>4, FindFillers
<1>5. CASE ReadChunk(t)
  <2>1. /\ pc[t] = "read" /\ pc' = [pc EXCEPT ![t] = "update_read"]
        /\ UNCHANGED <<data_id, zone_map, waiting>>
    BY <1>5 DEF ReadChunk, Goto, mapVars
  <2> QED BY <2>1, FillersMove DEF NotFilling
<1>6. CASE HitDone(t)
  <2>1. /\ pc[t] = "release" /\ UNCHANGED <<zone_map, waiting>>
        /\ \A u \in Threads \ {t} : pc'[u] = pc[u] /\ data_id'[u] = data_id[u]
    BY <1>6 DEF HitDone, ReleaseReader, Return, FrontTypeOK
  <2>2. ASSUME NEW id \in Ids, NEW u \in Fillers(id) PROVE u \in Fillers(id)'
    BY <2>1, <2>2, FillerStays DEF Fillers
  <2> QED BY <2>1, <2>2 DEF FillersPresent
<1>7. CASE GetZone(t) \/ WriteChunk(t) \/ ReturnZone(t) \/ UndoZoneGet(t)
  <2>1. /\ \E to \in {"write", "undo_map", "evict", "return_zone", "undo_zone", "update_write"} :
             pc' = [pc EXCEPT ![t] = to]
        /\ UNCHANGED <<data_id, zone_map, waiting>>
    <3>1. CASE GetZone(t)
      BY <3>1 DEF GetZone, Goto, mapVars
    <3>2. CASE WriteChunk(t) \/ ReturnZone(t) \/ UndoZoneGet(t)
      BY <3>2 DEF WriteChunk, ReturnZone, UndoZoneGet, Goto, locals, mapVars
    <3> QED BY <1>7, <3>1, <3>2
  <2> QED BY <2>1, FillersMove DEF NotFilling, Copying
<1>8. CASE MissDone(t) \/ UndoMap(t)
  <2>1. data_id[t] \in Ids
    BY <1>8 DEF MissDone, UndoMap, ControlOK, FrontTypeOK, InGet, OutsideGet
  <2>2. /\ zone_map'[data_id[t]].type # "COND"
        /\ \A id \in Ids \ {data_id[t]} : zone_map'[id] = zone_map[id]
        /\ Broadcast(data_id[t])
    BY <1>8, <2>1 DEF MissDone, UndoMap, zn_cachemap_insert, zn_cachemap_fail, FrontTypeOK,
                      mapTypeOK, zone_map_result, Entry
  <2>3. \A u \in Threads \ {t} : pc'[u] = pc[u] /\ data_id'[u] = data_id[u]
    BY <1>8 DEF MissDone, UndoMap, Return, FrontTypeOK
  <2> QED BY <2>1, <2>2, <2>3, BroadcastFillers
<1> QED BY <1>1, <1>2, <1>3, <1>4, <1>5, <1>6, <1>7, <1>8 DEF TaskStep, GetStep

\* Who waits has a thread to wait for.
LEMMA WaitersServed ==
  ASSUME NEW evictPcs, FrontTypeOK(evictPcs), FillersPresent
  PROVE  WaitersHaveFiller
BY DEF FrontTypeOK, mapTypeOK, FillersPresent, WaitersHaveFiller
------------------------------------------------------------------------------
(***************************************************************************)
(* What a call of the manager does to the zones that are full and to the   *)
(* chunks that are written.                                                *)
(***************************************************************************)
\* A grant, or the failure to get one, neither fills a zone nor commits a chunk.
LEMMA GetWritten ==
  ASSUME ZsmInv, NEW t \in Threads,
         zsm_get_active_zone_success(t) \/ zsm_get_active_zone_error(t)
  PROVE  Written' = Written /\ Committed' = Committed
<1> USE DEF Written, Committed, LastChunkWritten, ChunkWritten
<1>1. CASE TakeActiveZone(t)
  <2> DEFINE z == Head(active)
  <2>1. /\ z \in Zones /\ zone_state[z] = "ACTIVE" /\ chunk_offset[z] < MaxZoneChunks
        /\ zone_state' = [zone_state EXCEPT ![z] = "WRITE_OCCURING"]
        /\ chunk_offset' = chunk_offset
    BY <1>1, PopQueue DEF TakeActiveZone, PopActive, ZsmInv, ZsmTypeOK, QueuesMatchStates, ZoneHasRoom
  <2>2. \A y \in Zones \ {z} : zone_state'[y] = zone_state[y]
    BY <2>1 DEF ZsmInv, ZsmTypeOK
  <2>3. zone_state'[z] = "WRITE_OCCURING" /\ chunk_offset[z] # MaxZoneChunks
    BY <2>1, MaxZoneChunksAssumption DEF ZsmInv, ZsmTypeOK
  <2> HIDE DEF z
  <2> QED BY <2>1, <2>2, <2>3, NoPairFacts
<1>2. CASE OpenFreeZone(t)
  <2> DEFINE z == Head(free)
  <2>1. z \in Zones /\ zone_state[z] = "FREE"
    BY <1>2, PopQueue DEF OpenFreeZone, CanOpen, ZsmInv, ZsmTypeOK, QueuesMatchStates
  <2>2. /\ zone_state' = [zone_state EXCEPT ![z] = "WRITE_OCCURING"]
        /\ chunk_offset' = [chunk_offset EXCEPT ![z] = 0]
    BY <1>2, <2>1, PushPop DEF OpenFreeZone, PopActive
  <2>3. /\ \A y \in Zones \ {z} : zone_state'[y] = zone_state[y] /\ chunk_offset'[y] = chunk_offset[y]
        /\ zone_state'[z] = "WRITE_OCCURING" /\ chunk_offset'[z] = 0 /\ MaxZoneChunks # 0
    BY <2>1, <2>2, MaxZoneChunksAssumption DEF ZsmInv, ZsmTypeOK
  <2>4. \A p \in zn_pair : ~(p.chunk_offset < 0)
    BY NoPairFacts, MaxZoneChunksAssumption DEF Chunks
  <2> HIDE DEF z
  <2>5. Written' = Written
    BY <2>1, <2>3
  <2>6. Committed' = Committed
    BY <2>1, <2>3, <2>4, NoPairFacts
  <2> QED BY <2>5, <2>6
<1>3. CASE zsm_get_active_zone_error(t)
  BY <1>3 DEF zsm_get_active_zone_error
<1> QED BY <1>1, <1>2, <1>3 DEF zsm_get_active_zone_success

\* The chunk a thread was given is not committed, nor its zone full.
LEMMA GrantNotCommitted ==
  ASSUME ZsmInv, NEW t \in Threads, grant[t] # NoPair
  PROVE  grant[t] \notin Committed /\ grant[t].zone \notin Written
<1>1. /\ zone_state[grant[t].zone] = "WRITE_OCCURING"
      /\ chunk_offset[grant[t].zone] = grant[t].chunk_offset
      /\ chunk_offset[grant[t].zone] \in 0 .. MaxZoneChunks - 1
  BY GrantedZone
<1> QED
  BY <1>1, MaxZoneChunksAssumption DEF Committed, Written, LastChunkWritten, ChunkWritten

\* Giving a zone back commits the chunk that was written, and fills the zone with its
\* last chunk, whether or not the device lets it be finished.
LEMMA ReturnWritten ==
  ASSUME ZsmInv, NEW t \in Threads, grant[t] # NoPair, zsm_return_active_zone(t, grant[t])
  PROVE  /\ Written' = Written \cup
              (IF grant[t].chunk_offset = MaxZoneChunks - 1 THEN {grant[t].zone} ELSE {})
         /\ Committed' = Committed \cup {grant[t]}
<1> DEFINE z == grant[t].zone
<1> DEFINE c == grant[t].chunk_offset
<1>1. /\ z \in Zones /\ zone_state[z] = "WRITE_OCCURING" /\ chunk_offset[z] = c
      /\ c \in 0 .. MaxZoneChunks - 1 /\ grant[t] \in zn_pair
  BY GrantedZone
<1>2. \A y \in Zones \ {z} : zone_state'[y] = zone_state[y] /\ chunk_offset'[y] = chunk_offset[y]
  BY <1>1 DEF zsm_return_active_zone, close_zone, ZsmInv, ZsmTypeOK
<1>3. CASE c + 1 = MaxZoneChunks
  <2>1. \/ zone_state'[z] = "FULL"
        \/ zone_state'[z] = "WRITE_OCCURING" /\ chunk_offset'[z] = MaxZoneChunks
    BY <1>1, <1>3 DEF zsm_return_active_zone, close_zone, ZsmInv, ZsmTypeOK
  <2>2. \A p \in zn_pair : p.zone = z => p.chunk_offset < c \/ p = grant[t]
    <3>1. \A p \in zn_pair : p.chunk_offset \in 0 .. c
      BY <1>1, <1>3, NoPairFacts, MaxZoneChunksAssumption DEF Chunks
    <3> QED BY <1>1, <3>1 DEF zn_pair
  <2>3. c = MaxZoneChunks - 1 /\ grant[t].zone = z
    BY <1>1, <1>3, MaxZoneChunksAssumption
  <2> HIDE DEF z, c
  <2>4. Written' = Written \cup {z}
    BY <1>1, <1>2, <2>1 DEF Written, LastChunkWritten
  <2>5. Committed' = Committed \cup {grant[t]}
    BY <1>1, <1>2, <2>1, <2>2, <2>3, NoPairFacts DEF Committed, LastChunkWritten, ChunkWritten
  <2> QED BY <2>3, <2>4, <2>5 DEF z, c
<1>4. CASE c + 1 # MaxZoneChunks
  <2>1. zone_state'[z] = "ACTIVE" /\ chunk_offset'[z] = c + 1
    BY <1>1, <1>4 DEF zsm_return_active_zone, ZsmInv, ZsmTypeOK
  <2>2. \A p \in zn_pair : p.zone = z => (p.chunk_offset < c + 1 <=> p.chunk_offset < c \/ p = grant[t])
    <3>1. \A p \in zn_pair : p.chunk_offset \in Int
      BY NoPairFacts, MaxZoneChunksAssumption DEF Chunks
    <3> QED BY <1>1, <3>1 DEF zn_pair
  <2>3. c # MaxZoneChunks - 1 /\ c # MaxZoneChunks /\ grant[t].zone = z
    BY <1>1, <1>4, MaxZoneChunksAssumption
  <2> HIDE DEF z, c
  <2>4. Written' = Written
    BY <1>1, <1>2, <2>1, <2>3 DEF Written, LastChunkWritten
  <2>5. Committed' = Committed \cup {grant[t]}
    BY <1>1, <1>2, <2>1, <2>2, <2>3, NoPairFacts DEF Committed, LastChunkWritten, ChunkWritten
  <2> QED BY <2>3, <2>4, <2>5 DEF z, c
<1> QED BY <1>3, <1>4

\* A write that failed commits nothing.
LEMMA FailedWritten ==
  ASSUME ZsmInv, NEW t \in Threads, grant[t] # NoPair, zsm_failed_to_write(t, grant[t])
  PROVE  Written' = Written /\ Committed' = Committed
<1> DEFINE z == grant[t].zone
<1>1. /\ z \in Zones /\ zone_state[z] = "WRITE_OCCURING"
      /\ chunk_offset[z] \in 0 .. MaxZoneChunks - 1 /\ chunk_offset[z] # MaxZoneChunks
  BY GrantedZone, MaxZoneChunksAssumption
<1>2. /\ zone_state'[z] = "ACTIVE" /\ chunk_offset' = chunk_offset
      /\ \A y \in Zones \ {z} : zone_state'[y] = zone_state[y]
  BY <1>1 DEF zsm_failed_to_write, ZsmInv, ZsmTypeOK
<1> HIDE DEF z
<1> QED BY <1>1, <1>2, NoPairFacts DEF Written, Committed, LastChunkWritten, ChunkWritten

\* A reset takes the zone, and nothing else, out of the full ones; only a failed
\* reset leaves it there.
LEMMA EvictWritten ==
  ASSUME ZsmInv, NEW z \in Written, zsm_evict(z)
  PROVE  /\ \/ Written' = Written \ {z} /\ zone_state'[z] = "FREE"
            \/ Written' = Written /\ "reset" \in Faults /\ zone_state' = zone_state
         /\ Committed' = {p \in Committed : zone_state'[z] = "FREE" => p.zone # z}
<1>1. z \in Zones /\ zone_state[z] # "FREE"
  BY DEF Written, LastChunkWritten
<1>2. CASE ResetDone(z)
  <2>1. /\ zone_state'[z] = "FREE"
        /\ \A y \in Zones \ {z} : zone_state'[y] = zone_state[y] /\ chunk_offset'[y] = chunk_offset[y]
    BY <1>1, <1>2 DEF ResetDone, ZsmInv, ZsmTypeOK
  <2> QED BY <1>1, <2>1, NoPairFacts DEF Written, Committed, LastChunkWritten, ChunkWritten
<1>3. CASE ResetFailed(z)
  BY <1>1, <1>3 DEF ResetFailed, zbd_fails, Written, Committed, LastChunkWritten, ChunkWritten
<1> QED BY <1>2, <1>3 DEF zsm_evict
------------------------------------------------------------------------------
(***************************************************************************)
(* Committed chunks are whole.                                             *)
(***************************************************************************)
\* What WholeCommitted is for.
LEMMA CommittedWhole == WholeCommitted => CommittedChunksWhole
BY NoPairFacts DEF WholeCommitted, CommittedChunksWhole, Committed

\* Nothing is committed at the start.
LEMMA WholeInit == zn_init_cache => WholeCommitted /\ WholeBeforeReturn
BY NoPairFacts DEF zn_init_cache, zsm_init, WholeCommitted, WholeBeforeReturn, Committed

\* A step that commits nothing, writes nothing and has no write behind it.
LEMMA WholeKept ==
  ASSUME NEW evictPcs, FrontTypeOK(evictPcs), WholeCommitted, WholeBeforeReturn,
         NEW t \in Threads, NEW to, to # "return_zone",
         pc' = [pc EXCEPT ![t] = to] \/ pc' = pc,
         \A u \in Threads \ {t} : location'[u] = location[u],
         location'[t] = location[t] \/ pc[t] # "return_zone",
         UNCHANGED disk, Committed' \subseteq Committed
  PROVE  WholeCommitted' /\ WholeBeforeReturn'
BY DEF WholeCommitted, WholeBeforeReturn, FrontTypeOK

\* A write changes only the chunk its thread was given, and reports success only
\* when that chunk holds the data.
LEMMA WriteDisk ==
  ASSUME NEW evictPcs, FrontTypeOK(evictPcs), NEW t \in Threads, WriteChunk(t),
         location[t] \in zn_pair
  PROVE  /\ pc[t] = "write" /\ UNCHANGED <<zsmVars, mapVars, locals>>
         /\ \E to \in {"return_zone", "undo_zone"} : pc' = [pc EXCEPT ![t] = to]
         /\ \A p \in zn_pair : p # location[t] => disk'[p.zone][p.chunk_offset] = disk[p.zone][p.chunk_offset]
         /\ pc'[t] = "return_zone" =>
              disk'[location[t].zone][location[t].chunk_offset] = data_id[t]
<1> DEFINE z == location[t].zone
<1> DEFINE c == location[t].chunk_offset
<1>1. /\ pc[t] = "write" /\ UNCHANGED <<zsmVars, mapVars, locals>>
      /\ \E to \in {"return_zone", "undo_zone"} : pc' = [pc EXCEPT ![t] = to]
  BY DEF WriteChunk, Goto
<1>2. z \in Zones /\ c \in Chunks
  BY NoPairFacts
<1>3. PICK succeeds \in BOOLEAN :
        /\ Goto(t, "write", IF succeeds THEN "return_zone" ELSE "undo_zone")
        /\ zn_write_out(location[t], data_id[t], succeeds)
  BY DEF WriteChunk
<1>4. PICK v \in {data_id[t], Torn} :
        /\ disk' = disk \/ disk' = [disk EXCEPT ![z][c] = v]
        /\ succeeds => disk' = [disk EXCEPT ![z][c] = v] /\ v = data_id[t]
  <2>1. CASE succeeds
    BY <1>3, <2>1 DEF zn_write_out
  <2>2. CASE ~succeeds
    BY <1>3, <2>2 DEF zn_write_out
  <2> QED BY <2>1, <2>2
<1>5. ASSUME NEW p \in zn_pair, p # location[t]
      PROVE  disk'[p.zone][p.chunk_offset] = disk[p.zone][p.chunk_offset]
  <2>1. p.zone \in Zones /\ p.chunk_offset \in Chunks /\ (p.zone # z \/ p.chunk_offset # c)
    <3>1. p.zone # z \/ p.chunk_offset # c
      BY <1>5 DEF zn_pair
    <3> QED BY <3>1, NoPairFacts
  <2>2. /\ disk \in [Zones -> [Chunks -> Ids \cup {Blank, Torn}]]
        /\ disk[z] \in [Chunks -> Ids \cup {Blank, Torn}]
    BY <1>2 DEF FrontTypeOK
  <2> HIDE DEF z, c
  <2> QED BY <1>2, <1>4, <2>1, <2>2
<1>6. pc'[t] = "return_zone" => disk'[z][c] = data_id[t]
  <2>1. pc'[t] = "return_zone" => succeeds
    BY <1>3 DEF Goto, FrontTypeOK
  <2>2. succeeds => disk'[z][c] = data_id[t]
    BY <1>2, <1>4 DEF FrontTypeOK
  <2> QED BY <2>1, <2>2
<1> QED BY <1>1, <1>5, <1>6

\* The chunk that is written is one nobody has committed and nobody else is about to
\* commit.
LEMMA WriteWhole ==
  ASSUME NEW evictPcs, ZsmInv, FrontTypeOK(evictPcs), ControlOK, GrantsMatchLocations,
         WholeCommitted, WholeBeforeReturn, NEW t \in Threads, WriteChunk(t)
  PROVE  WholeCommitted' /\ WholeBeforeReturn'
<1>1. pc[t] = "write"
  BY DEF WriteChunk, Goto
<1>2. data_id[t] \in Ids
  BY <1>1, NullAssumption DEF ControlOK, FrontTypeOK, InGet, OutsideGet
<1>3. grant[t] # NoPair /\ grant[t] = location[t]
  BY <1>1 DEF GrantsMatchLocations, HoldsZone
<1>4. location[t] \notin Committed /\ location[t] \in zn_pair
  BY <1>3, GrantedZone, GrantNotCommitted
<1>5. /\ UNCHANGED <<zsmVars, locals>>
      /\ \E to \in {"return_zone", "undo_zone"} : pc' = [pc EXCEPT ![t] = to]
      /\ \A p \in zn_pair : p # location[t] => disk'[p.zone][p.chunk_offset] = disk[p.zone][p.chunk_offset]
      /\ pc'[t] = "return_zone" =>
           disk'[location[t].zone][location[t].chunk_offset] = data_id[t]
  BY <1>4, WriteDisk
<1>6. Committed' = Committed
  BY <1>5 DEF zsmVars, Committed, ChunkWritten, LastChunkWritten
<1>7. WholeCommitted'
  BY <1>4, <1>5, <1>6 DEF WholeCommitted, Committed
<1>8. WholeBeforeReturn'
  <2> SUFFICES ASSUME NEW u \in Threads, pc'[u] = "return_zone"
               PROVE  disk'[location'[u].zone][location'[u].chunk_offset] \in Ids
    BY DEF WholeBeforeReturn
  <2>1. CASE u = t
    BY <1>2, <1>5, <2>1 DEF locals
  <2>2. CASE u # t
    <3>1. pc[u] = "return_zone" /\ location'[u] = location[u]
      BY <1>5, <2>2 DEF FrontTypeOK, locals
    <3>2. grant[u] # NoPair /\ grant[u] = location[u]
      BY <3>1 DEF GrantsMatchLocations, HoldsZone
    <3>3. location[u] \in zn_pair /\ location[u] # location[t]
      BY <1>3, <2>2, <3>2, GrantedZone
    <3> QED BY <1>5, <3>1, <3>3 DEF WholeBeforeReturn
  <2> QED BY <2>1, <2>2
<1> QED BY <1>7, <1>8

\* Every step of the front end commits whole chunks only.
LEMMA WholeStep ==
  ASSUME NEW evictPcs, ZsmInv, FrontTypeOK(evictPcs), ControlOK, GrantsMatchLocations,
         WholeCommitted, WholeBeforeReturn, NEW t \in Threads,
         TaskStep(t) \/ GetStep(t) \/ evict_task(t) \/ Wakeup(t)
  PROVE  WholeCommitted' /\ WholeBeforeReturn'
<1>0. UNCHANGED zsmVars => Committed' = Committed
  BY DEF zsmVars, Committed, ChunkWritten, LastChunkWritten
<1>1. CASE TaskStep(t) \/ evict_task(t)
  <2>1. /\ \E to \in OutsideGet \cup {"find", "evict"} : pc' = [pc EXCEPT ![t] = to]
        /\ UNCHANGED <<zsmVars, location, disk>>
    BY <1>1 DEF TaskStep, TakeRequest, WorkloadDone, CountCompleted, evict_task, CheckDone,
                CheckFreeZones, Goto, locals, OutsideGet
  <2> QED BY <1>0, <2>1, WholeKept DEF OutsideGet
<1>2. CASE Wakeup(t)
  BY <1>0, <1>2, WholeKept DEF Wakeup, cacheVars, locals
<1>3. CASE zn_cachemap_find(t)
  BY <1>0, <1>3, WholeKept DEF zn_cachemap_find, locals
<1>4. CASE FindReturnLocation(t) \/ FindReturnType(t) \/ ReadChunk(t)
  <2>1. /\ \E to \in {"copy_type", "read", "get_zone", "update_read"} : pc' = [pc EXCEPT ![t] = to]
        /\ UNCHANGED <<zsmVars, location, disk>>
    BY <1>4 DEF FindReturnLocation, FindReturnType, ReadChunk, Goto
  <2> QED BY <1>0, <2>1, WholeKept
<1>5. CASE HitDone(t) \/ MissDone(t) \/ UndoMap(t)
  <2>1. /\ pc[t] \in {"release", "insert", "undo_map"}
        /\ \E to \in {"next", "failed"} : Return(t, to)
        /\ UNCHANGED <<zsmVars, disk>>
    BY <1>5 DEF HitDone, MissDone, UndoMap
  <2>2. PICK to \in {"next", "failed"} : Return(t, to)
    BY <2>1
  <2>3. pc' = [pc EXCEPT ![t] = to] /\ \A u \in Threads \ {t} : location'[u] = location[u]
    BY <2>2 DEF Return, FrontTypeOK
  <2> QED BY <1>0, <2>1, <2>2, <2>3, WholeKept
<1>6. CASE GetZone(t)
  <2>1. /\ pc[t] = "get_zone" /\ UNCHANGED disk
        /\ \E to \in {"write", "undo_map", "evict"} : pc' = [pc EXCEPT ![t] = to]
        /\ \A u \in Threads \ {t} : location'[u] = location[u]
    BY <1>6 DEF GetZone, Goto, FrontTypeOK
  <2>2. Committed' \subseteq Committed
    BY <1>0, <1>6, GetWritten DEF GetZone
  <2> QED BY <2>1, <2>2, WholeKept
<1>7. CASE WriteChunk(t)
  BY <1>7, WriteWhole
<1>8. CASE ReturnZone(t)
  <2>1. /\ pc[t] = "return_zone" /\ pc' = [pc EXCEPT ![t] = "update_write"]
        /\ UNCHANGED <<location, disk>> /\ zsm_return_active_zone(t, location[t])
    BY <1>8 DEF ReturnZone, Goto, locals
  <2>2. grant[t] # NoPair /\ grant[t] = location[t]
    BY <2>1 DEF GrantsMatchLocations, HoldsZone
  <2>3. Committed' \subseteq Committed \cup {location[t]}
    BY <2>1, <2>2, ReturnWritten
  <2>4. WholeCommitted'
    BY <2>1, <2>3 DEF WholeCommitted, WholeBeforeReturn
  <2>5. WholeBeforeReturn'
    BY <2>1 DEF WholeBeforeReturn, FrontTypeOK
  <2> QED BY <2>4, <2>5
<1>9. CASE UndoZoneGet(t)
  <2>1. /\ pc[t] = "undo_zone" /\ pc' = [pc EXCEPT ![t] = "undo_map"]
        /\ UNCHANGED <<location, disk>> /\ zsm_failed_to_write(t, location[t])
    BY <1>9 DEF UndoZoneGet, Goto, locals
  <2>2. grant[t] # NoPair /\ grant[t] = location[t]
    BY <2>1 DEF GrantsMatchLocations, HoldsZone
  <2>3. Committed' \subseteq Committed
    BY <2>1, <2>2, FailedWritten
  <2> QED BY <2>1, <2>3, WholeKept
<1> QED BY <1>1, <1>2, <1>3, <1>4, <1>5, <1>6, <1>7, <1>8, <1>9 DEF GetStep
------------------------------------------------------------------------------
(***************************************************************************)
(* What a step of a policy may do to the front end.                        *)
(***************************************************************************)
\* The parts of the invariant that concern the front end and the manager.
FrontInv(evictPcs) ==
  /\ ZsmInv
  /\ ActiveZoneBudget
  /\ FrontTypeOK(evictPcs)
  /\ ControlOK
  /\ CompletedOK
  /\ GrantsMatchLocations
  /\ FillersPresent
  /\ WholeCommitted
  /\ WholeBeforeReturn

\* zn_init_cache establishes all of them.
LEMMA FrontInvInit ==
  ASSUME NEW evictPcs, zn_init_cache
  PROVE  FrontInv(evictPcs)
<1>1. ZsmInv /\ ActiveZoneBudget
  BY ZsmInitInv, ZsmInitBudget DEF zn_init_cache
<1> QED
  BY <1>1, FrontInit, CompletedInit, GrantsInit, FillersInit, WholeInit DEF FrontInv

\* The steps of the front end keep them.
LEMMA FrontInvStep ==
  ASSUME NEW evictPcs, "evict" \in evictPcs,
         FrontInv(evictPcs), NEW t \in Threads,
         TaskStep(t) \/ GetStep(t) \/ evict_task(t) \/ Wakeup(t)
  PROVE  FrontInv(evictPcs)'
<1>1. ThreadStep(t) \/ UNCHANGED zsmVars
  BY FrontCallsZsm DEF FrontInv
<1>2. ZsmInv' /\ ActiveZoneBudget'
  BY <1>1, ZsmStepInv DEF FrontInv, ZsmNext
<1>3. ZsmTypeOK /\ ZsmTypeOK'
  BY <1>2 DEF FrontInv, ZsmInv
<1>4. FrontTypeOK(evictPcs)' /\ ControlOK'
  BY <1>3, FrontStep DEF FrontInv
<1>5. CompletedOK'
  BY CompletedStep DEF FrontInv
<1>6. GrantsMatchLocations'
  BY <1>3, GrantsStep DEF FrontInv
<1>7. FillersPresent'
  BY FillersStep DEF FrontInv
<1>8. WholeCommitted' /\ WholeBeforeReturn'
  BY WholeStep DEF FrontInv
<1> QED BY <1>2, <1>4, <1>5, <1>6, <1>7, <1>8 DEF FrontInv

\* A policy may move a thread that holds no zone from one of its points to another,
\* or back to where it was called from, and empty entries of the map.
LEMMA PolicyMove ==
  ASSUME NEW evictPcs, FrontInv(evictPcs), NEW t \in Threads,
         NEW to \in InGet \cup evictPcs \cup OutsideGet,
         pc' = [pc EXCEPT ![t] = to],
         t \in Workers => pc[t] \notin OutsideGet /\ to \notin OutsideGet,
         t \notin Workers => to \notin InGet \cup {"next", "finish", "failed"},
         to \in HasLocation => pc[t] \in HasLocation,
         pc[t] \notin HoldsZone, to \notin HoldsZone,
         to \notin NotFilling \cup Copying \/ pc[t] \in NotFilling \/ data_id[t] = NULL,
         \A id \in Ids : zone_map'[id].type \in {zone_map[id].type, "EMPTY"},
         mapTypeOK',
         disk' \in [Zones -> [Chunks -> Ids \cup {Blank, Torn}]],
         UNCHANGED <<locals, ratio, progress, waiting, grant>>
  PROVE  /\ FrontTypeOK(evictPcs)' /\ ControlOK' /\ CompletedOK'
         /\ GrantsMatchLocations' /\ FillersPresent'
<1>1. FrontTypeOK(evictPcs)'
  BY DEF FrontInv, FrontTypeOK, locals, progress
<1>2. ControlOK'
  BY DEF FrontInv, FrontTypeOK, ControlOK, locals, InGet, OutsideGet, HasLocation
<1>3. CompletedOK'
  <2>1. t \notin Workers \/ (pc[t] # "exited" /\ to # "exited")
    BY DEF OutsideGet
  <2>2. Exited' = Exited
    BY <2>1, ExitedUnchanged DEF FrontInv
  <2> QED BY <2>2 DEF FrontInv, CompletedOK, progress
<1>4. GrantsMatchLocations'
  BY GrantsMove DEF FrontInv, locals
<1>5. FillersPresent'
  BY FillersMove DEF FrontInv, locals
<1> QED BY <1>1, <1>2, <1>3, <1>4, <1>5

\* A step of a policy that changes neither the manager, the map nor the disk.
LEMMA PolicyMoveOnly ==
  ASSUME NEW evictPcs, FrontInv(evictPcs), NEW t \in Threads,
         NEW to \in InGet \cup evictPcs \cup OutsideGet,
         pc' = [pc EXCEPT ![t] = to],
         t \in Workers => pc[t] \notin OutsideGet /\ to \notin OutsideGet,
         t \notin Workers => to \notin InGet \cup {"next", "finish", "failed"},
         to \in HasLocation => pc[t] \in HasLocation,
         pc[t] \notin HoldsZone, to \notin HoldsZone,
         to \notin NotFilling \cup Copying \/ pc[t] \in NotFilling \/ data_id[t] = NULL,
         UNCHANGED <<zsmVars, mapVars, locals, disk, ratio, progress>>
  PROVE  FrontInv(evictPcs)'
<1>1. mapTypeOK' /\ disk' \in [Zones -> [Chunks -> Ids \cup {Blank, Torn}]]
  BY DEF FrontInv, FrontTypeOK, mapTypeOK, mapVars
<1>2. /\ FrontTypeOK(evictPcs)' /\ ControlOK' /\ CompletedOK'
      /\ GrantsMatchLocations' /\ FillersPresent'
  BY <1>1, PolicyMove DEF zsmVars, mapVars
<1>3. ZsmInv' /\ ActiveZoneBudget'
  BY ZsmStepInv DEF FrontInv
<1>4. Committed' = Committed
  BY DEF zsmVars, Committed, ChunkWritten, LastChunkWritten
<1>5. WholeCommitted' /\ WholeBeforeReturn'
  BY <1>4, WholeKept DEF FrontInv, HoldsZone, locals
<1> QED BY <1>2, <1>3, <1>5 DEF FrontInv

\* zn_cachemap_clear_zone empties entries and does nothing else to them.
LEMMA ClearZoneMap ==
  ASSUME mapTypeOK, NEW z \in Zones, zn_cachemap_clear_zone(z)
  PROVE  /\ mapTypeOK'
         /\ \A id \in Ids : zone_map'[id].type \in {zone_map[id].type, "EMPTY"}
<1>1. \A id \in Ids : zone_map'[id] = zone_map[id]
                      \/ zone_map'[id] = [zone_map[id] EXCEPT !.type = "EMPTY"]
  BY DEF zn_cachemap_clear_zone
<1>2. \A id \in Ids : /\ zone_map'[id] \in zone_map_result
                      /\ zone_map'[id].type \in {zone_map[id].type, "EMPTY"}
  BY <1>1 DEF mapTypeOK, zone_map_result
<1>3. zone_map' \in [Ids -> zone_map_result]
  BY <1>2 DEF zn_cachemap_clear_zone
<1>4. data_map' \in [Zones -> [Chunks -> Ids \cup {NULL}]]
  BY DEF zn_cachemap_clear_zone, mapTypeOK
<1> QED BY <1>2, <1>3, <1>4 DEF zn_cachemap_clear_zone, mapTypeOK

\* The reset of a full zone keeps the chunks of the other zones.
LEMMA ResetWhole ==
  ASSUME NEW evictPcs, FrontInv(evictPcs), NEW z \in Written, ResetOnDevice(z)
  PROVE  /\ disk' \in [Zones -> [Chunks -> Ids \cup {Blank, Torn}]]
         /\ WholeCommitted'
         /\ \A y \in Zones \ {z} : disk'[y] = disk[y]
<1>1. z \in Zones /\ zsm_evict(z)
  BY DEF Written, ResetOnDevice
<1>2. disk' \in [Zones -> [Chunks -> Ids \cup {Blank, Torn}]] /\ \A y \in Zones \ {z} : disk'[y] = disk[y]
  BY <1>1 DEF FrontInv, FrontTypeOK, ResetOnDevice
<1>3. /\ Committed' \subseteq Committed
      /\ zone_state'[z] = "FREE" => \A p \in Committed' : p.zone # z
  BY <1>1, EvictWritten DEF FrontInv
<1>4. zone_state'[z] # "FREE" => disk' = disk
  BY DEF ResetOnDevice
<1>5. WholeCommitted'
  BY <1>2, <1>3, <1>4, NoPairFacts DEF FrontInv, WholeCommitted, Committed
<1> QED BY <1>2, <1>5
==============================================================================
