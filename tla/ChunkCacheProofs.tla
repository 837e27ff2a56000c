---------------------------- MODULE ChunkCacheProofs ----------------------------
(***************************************************************************)
(* Theorems about ChunkCache, the program with the chunk policy, for every *)
(* number of zones, chunks and threads and any device faults, also after   *)
(* the collector has relocated chunks.                                     *)
(***************************************************************************)
EXTENDS ChunkCache, CacheDataProofs

(***************************************************************************)
(* The zones as the workers hold them.  The collector keeps the zones it   *)
(* relocates chunks to (chunk.c:108 is answered by no return), so from the *)
(* first relocation on grant and writes_occurring say more than the        *)
(* workers have to give back.  W is the manager without what the collector *)
(* took: everything that was proved of the manager and the front end holds *)
(* of W, whatever the collector does.                                      *)
(***************************************************************************)
Holders == {t \in Threads : pc[t] \in HoldsZone}

held == [t \in Threads |-> IF t \in Holders THEN location[t] ELSE NoPair]

W == INSTANCE CacheProofs WITH grant <- held, writes_occurring <- Cardinality(Holders)

\* A worker that holds a zone holds the zone of its location, and nobody else does.
HeldExclusive ==
  /\ \A t \in Holders :
       /\ zone_state[location[t].zone] = "WRITE_OCCURING"
       /\ chunk_offset[location[t].zone] = location[t].chunk_offset
  /\ \A t, u \in Holders : location[t].zone = location[u].zone => t = u

\* writes_occurring counts the workers' zones and those the collector kept.
LentOK ==
  /\ Cardinality(Holders) <= writes_occurring
  /\ NumActiveZones <= MaxNrActiveZones
  /\ ~gc.moved => grant = held /\ writes_occurring = Cardinality(Holders)

\* The zone state manager.
ManagerOK ==
  /\ ZsmTypeOK
  /\ QueuesMatchStates
  /\ ZoneHasRoom
  /\ HeldExclusive
  /\ LentOK

\* The manager and the front end.
FrontOK ==
  /\ ManagerOK
  /\ FrontTypeOK(EvictPcs)
  /\ ControlOK
  /\ CompletedOK
  /\ FillersPresent

\* On a block device the collector may write to a place that was never assigned, and
\* so over any chunk; a zoned device refuses a write that is not at a write pointer.
WholeOK == (gc.moved /\ Backend = "BLOCK") \/ (WholeCommitted /\ WholeBeforeReturn)

\* The nodes of the LRU queue, the slots and the counters of the policy.
Nodes == [slot : Slots, linked : BOOLEAN]
SlotType == [pair : zn_pair \cup {NoPair}, in_use : BOOLEAN]
Counts == 0 .. UintMod - 1
PoolType == [Zones -> [chunks : [Chunks -> SlotType], chunks_in_use : Counts, has_entry : BOOLEAN]]
GcType == [zone : Zones \cup {-1}, chunk : 0 .. MaxZoneChunks, location : zn_pair \cup {NoPair},
           data : Ids \cup {NULL, Blank, Torn}, moved : BOOLEAN]

PolicyTypeOK ==
  /\ lru_queue \in Seq(Nodes)
  /\ zone_pool \in PoolType
  /\ invalid_pqueue \in [Heap!Queued -> Counts] /\ Heap!Queued \subseteq Zones
  /\ policy_mutex \in Threads \cup {NULL}
  /\ nr_evict \in Counts
  /\ gc \in GcType

Relocating == {"gc_read", "gc_write", "gc_insert"}
Collecting == {"gc_chunk", "gc_reset"} \cup Relocating
InPolicy == {"ch_evict", "gc_next"} \cup Collecting

\* policy_mutex admits one thread to zn_policy_chunk_evict.
MutexOK ==
  \A t \in Threads :
    /\ pc[t] \in InPolicy => policy_mutex = t
    /\ policy_mutex = t => pc[t] \in InPolicy \cup {"crashed"}

\* What the collector has in hand.
CollectorOK ==
  /\ policy_mutex = NULL => gc.zone = -1
  /\ ~gc.moved => gc.chunk = 0
  /\ \A t \in Threads :
       /\ pc[t] \in {"ch_evict", "gc_next"} => gc.zone = -1
       /\ pc[t] \in Collecting => gc.zone \in Zones
       /\ pc[t] \in Relocating =>
            /\ gc.moved /\ gc.location \in zn_pair /\ gc.chunk \in Chunks
            /\ Slot(Pair(gc.zone, gc.chunk)).in_use

\* The slot s of a pool.
At(P, s) == P[s.zone].chunks[s.chunk_offset]

\* A slot that is in use, or has a node, names some chunk.
Named(P, q) ==
  /\ \A s \in Slots : At(P, s).in_use => At(P, s).pair \in zn_pair
  /\ \A i \in DOMAIN q : At(P, q[i].slot).pair \in zn_pair

SlotsNamed == Named(zone_pool, lru_queue)

\* The worker that has filled z and not told the policy yet.
Pending(t, z) == pc[t] = "update_write" /\ location[t] = Pair(z, MaxZoneChunks - 1)

\* A zone that is written to its end is in one place: in the priority queue, with the
\* collector, or with the worker that filled it.
ZonesHeld ==
  /\ Heap!Queued \subseteq Written
  /\ gc.zone # -1 => gc.zone \in Written \ Heap!Queued
  /\ \A t \in Threads, z \in Zones :
       Pending(t, z) => z \in Written \ Heap!Queued /\ gc.zone # z
  /\ \A t, u \in Threads, z \in Zones : Pending(t, z) /\ Pending(u, z) => t = u

\* And in no less than one, unless a reset failed.
ZonesFound ==
  "reset" \notin Faults =>
    \A z \in Written :
      z \in Heap!Queued \/ gc.zone = z \/ \E t \in Threads : Pending(t, z)

PolicyInv ==
  /\ PolicyTypeOK
  /\ MutexOK
  /\ CollectorOK
  /\ SlotsNamed
  /\ ZonesHeld
  /\ ZonesFound

ChunkInv == FrontOK /\ WholeOK /\ PolicyInv
------------------------------------------------------------------------------
(***************************************************************************)
(* The view of the workers.                                                *)
(***************************************************************************)
\* What W assumes of the constants is what ChunkCache assumes.
LEMMA Constants ==
  /\ NumZones \in Nat \ {0} /\ MaxZoneChunks \in Nat \ {0}
  /\ IsFiniteSet(Threads) /\ W!IsFiniteSet(Threads)
  /\ MaxNrActiveZones \in Nat \ {0}
  /\ Backend \in {"ZNS", "BLOCK"}
  /\ Faults \subseteq {"open", "finish", "reset", "write", "read"}
  /\ MaxInvalid \in Nat
  /\ NULL \notin Ids /\ ZeroId # NULL
  /\ Workers \subseteq Threads
  /\ WorkloadMax \in Nat
  /\ Blank \notin Ids \cup {NULL}
  /\ Torn \notin Ids \cup {NULL, Blank}
  /\ EVICT_HIGH_THRESH_ZONES \in Nat
  /\ EVICT_LOW_THRESH_ZONES \in Nat
  /\ UintMod \in Nat /\ UintMod > NumZones + EVICT_LOW_THRESH_ZONES + WorkloadMax
<1>1. W!IsFiniteSet(Threads)
  BY ThreadsAssumption DEF IsFiniteSet, W!IsFiniteSet
<1> QED
  BY <1>1, NumZonesAssumption, MaxZoneChunksAssumption, ThreadsAssumption,
     MaxNrActiveZonesAssumption, BackendAssumption, FaultsAssumption, MaxInvalidAssumption,
     NullAssumption, WorkersAssumption, WorkloadMaxAssumption, ContentsAssumption,
     ThresholdAssumption, UintModAssumption

\* The constant operators of W are those of ChunkCache.
LEMMA SameNames ==
  /\ W!Zones = Zones /\ W!Chunks = Chunks /\ W!zn_pair = zn_pair /\ W!NoPair = NoPair
  /\ \A z, c : W!Pair(z, c) = Pair(z, c)
  /\ W!zn_zone_condition = zn_zone_condition
  /\ \A q, z : W!InQueue(q, z) <=> InQueue(q, z)
  /\ \A q : W!Distinct(q) <=> Distinct(q)
  /\ \A command : W!zbd_fails(command) <=> zbd_fails(command)
<1>1. W!Zones = Zones /\ W!Chunks = Chunks
  BY DEF Zones, W!Zones, Chunks, W!Chunks
<1>2. W!zn_pair = zn_pair
  BY <1>1 DEF zn_pair, W!zn_pair
<1>3. W!NoPair = NoPair /\ \A z, c : W!Pair(z, c) = Pair(z, c)
  BY DEF NoPair, W!NoPair, Pair, W!Pair
<1>4. W!zn_zone_condition = zn_zone_condition /\ \A command : W!zbd_fails(command) <=> zbd_fails(command)
  BY DEF zn_zone_condition, W!zn_zone_condition, zbd_fails, W!zbd_fails
<1>5. (\A q, z : W!InQueue(q, z) <=> InQueue(q, z)) /\ (\A q : W!Distinct(q) <=> Distinct(q))
  BY DEF InQueue, W!InQueue, Distinct, W!Distinct
<1> QED BY <1>1, <1>2, <1>3, <1>4, <1>5

\* Cardinalities are the same as well.
LEMMA SameCardinality == \A S : W!Cardinality(S) = Cardinality(S)
<1>1. \A S : W!IsFiniteSet(S) <=> IsFiniteSet(S)
  BY DEF IsFiniteSet, W!IsFiniteSet
<1> QED BY <1>1 DEF Cardinality, W!Cardinality

\* So are the chunks that are written, which do not depend on who holds what.
LEMMA SameWritten == W!Written = Written /\ W!Committed = Committed
<1>1. \A z : W!LastChunkWritten(z) <=> LastChunkWritten(z)
  BY DEF LastChunkWritten, W!LastChunkWritten
<1>2. \A p : W!ChunkWritten(p) <=> ChunkWritten(p)
  BY <1>1 DEF ChunkWritten, W!ChunkWritten
<1> QED BY <1>1, <1>2, SameNames DEF Written, W!Written, Committed, W!Committed

\* And in the next state.
LEMMA SameWrittenNext == W!Written' = Written' /\ W!Committed' = Committed'
<1>1. \A z : W!LastChunkWritten(z)' <=> LastChunkWritten(z)'
  BY DEF LastChunkWritten, W!LastChunkWritten
<1>2. \A p : W!ChunkWritten(p)' <=> ChunkWritten(p)'
  BY <1>1 DEF ChunkWritten, W!ChunkWritten
<1> QED BY <1>1, <1>2, SameNames DEF Written, W!Written, Committed, W!Committed

\* The number of the workers that hold a zone.
LEMMA HoldersFinite ==
  IsFiniteSet(Holders) /\ Cardinality(Holders) \in Nat
BY ThreadsAssumption, FS_Subset, FS_CardinalityType DEF Holders

\* held[t] is a location exactly when t holds a zone.
LEMMA HeldFacts ==
  ASSUME ControlOK
  PROVE  /\ held \in [Threads -> zn_pair \cup {NoPair}]
         /\ \A t \in Threads : /\ t \in Holders => held[t] = location[t] /\ held[t] \in zn_pair
                               /\ t \notin Holders => held[t] = NoPair
                               /\ held[t] # NoPair <=> t \in Holders
BY NoPairFacts DEF held, Holders, ControlOK, HoldsZone, HasLocation

\* The manager keeps what ZsmInv and ActiveZoneBudget say of W.
LEMMA ViewOfManager ==
  ASSUME ManagerOK, ControlOK
  PROVE  W!ZsmInv /\ W!ActiveZoneBudget
<1> USE SameNames, HoldersFinite, HeldFacts
<1>1. W!ZsmTypeOK
  BY DEF ManagerOK, ZsmTypeOK, W!ZsmTypeOK
<1>2. W!QueuesMatchStates
  BY DEF ManagerOK, QueuesMatchStates, W!QueuesMatchStates
<1>3. W!ZoneHasRoom
  BY DEF ManagerOK, ZoneHasRoom, W!ZoneHasRoom
<1>4. W!GrantsExclusive
  <2>1. ASSUME NEW t \in Threads, held[t] # NoPair
        PROVE  /\ zone_state[held[t].zone] = "WRITE_OCCURING"
               /\ chunk_offset[held[t].zone] = held[t].chunk_offset
    BY <2>1 DEF ManagerOK, HeldExclusive
  <2>2. ASSUME NEW t \in Threads, NEW u \in Threads, held[t] # NoPair, held[t].zone = held[u].zone
        PROVE  t = u
    <3>1. held[u] # NoPair
      BY <2>2, NoPairFacts
    <3> QED BY <2>2, <3>1 DEF ManagerOK, HeldExclusive
  <2> QED BY <2>1, <2>2 DEF W!GrantsExclusive
<1>5. W!Writers = Holders
  BY DEF W!Writers, Holders
<1>6. W!ActiveZoneBudget
  <2>1. Len(active) \in Nat
    BY DEF ManagerOK, ZsmTypeOK
  <2>2. Len(active) + Cardinality(Holders) <= MaxNrActiveZones
    BY <2>1, Constants DEF ManagerOK, LentOK, NumActiveZones, ZsmTypeOK
  <2> QED BY <1>5, <2>2, SameCardinality DEF W!ActiveZoneBudget, W!NumActiveZones
<1> QED BY <1>1, <1>2, <1>3, <1>4, <1>6 DEF W!ZsmInv

\* And back, in the next state.
LEMMA ManagerOfView ==
  ASSUME W!ZsmInv', ControlOK', grant' \in [Threads -> zn_pair \cup {NoPair}],
         writes_occurring' \in Nat
  PROVE  (ZsmTypeOK /\ QueuesMatchStates /\ ZoneHasRoom /\ HeldExclusive)'
<1> USE SameNames
<1>1. ZsmTypeOK'
  BY DEF W!ZsmInv, ZsmTypeOK, W!ZsmTypeOK
<1>2. QueuesMatchStates'
  BY DEF W!ZsmInv, QueuesMatchStates, W!QueuesMatchStates
<1>3. ZoneHasRoom'
  BY DEF W!ZsmInv, ZoneHasRoom, W!ZoneHasRoom
<1>4. HeldExclusive'
  <2>1. \A t \in Holders' : t \in Threads /\ held'[t] = location'[t] /\ held'[t] \in zn_pair /\ held'[t] # NoPair
    BY NoPairFacts DEF held, Holders, ControlOK, HoldsZone, HasLocation
  <2>2. /\ \A t \in Threads : held'[t] # NoPair =>
             /\ zone_state'[held'[t].zone] = "WRITE_OCCURING"
             /\ chunk_offset'[held'[t].zone] = held'[t].chunk_offset
        /\ \A t, u \in Threads : held'[t] # NoPair /\ held'[t].zone = held'[u].zone => t = u
    BY DEF W!ZsmInv, W!GrantsExclusive
  <2> QED BY <2>1, <2>2 DEF HeldExclusive
<1> QED BY <1>1, <1>2, <1>3, <1>4
------------------------------------------------------------------------------
(***************************************************************************)
(* The front end's calls, as W sees them.                                  *)
(***************************************************************************)
\* A thread that does not hold a zone, and does not get one.
LEMMA HoldersMove ==
  ASSUME FrontTypeOK(EvictPcs), NEW t \in Threads, NEW to,
         pc[t] \notin HoldsZone, to \notin HoldsZone,
         pc' = [pc EXCEPT ![t] = to] \/ pc' = pc,
         \A u \in Threads \ {t} : location'[u] = location[u]
  PROVE  Holders' = Holders /\ held' = held
<1>1. Holders' = Holders
  BY DEF Holders, FrontTypeOK
<1>2. \A u \in Threads : u \in Holders => location'[u] = location[u]
  BY DEF Holders
<1> QED BY <1>1, <1>2 DEF held

\* A thread that gets a zone.
LEMMA HoldersGain ==
  ASSUME FrontTypeOK(EvictPcs), NEW t \in Threads, NEW to \in HoldsZone, NEW p,
         pc[t] \notin HoldsZone, pc' = [pc EXCEPT ![t] = to],
         location' = [location EXCEPT ![t] = p]
  PROVE  /\ held' = [held EXCEPT ![t] = p]
         /\ Cardinality(Holders') = Cardinality(Holders) + 1
<1>1. Holders' = Holders \cup {t} /\ t \notin Holders
  BY DEF Holders, FrontTypeOK
<1>2. Cardinality(Holders') = Cardinality(Holders) + 1
  BY <1>1, HoldersFinite, FS_AddElement
<1>3. held' = [held EXCEPT ![t] = p]
  <2>1. \A u \in Threads : held'[u] = [held EXCEPT ![t] = p][u]
    BY <1>1 DEF held, FrontTypeOK
  <2>2. DOMAIN held' = Threads /\ DOMAIN held = Threads
    BY DEF held
  <2> QED BY <2>1, <2>2 DEF held
<1> QED BY <1>2, <1>3

\* A thread that gives its zone back.
LEMMA HoldersLose ==
  ASSUME FrontTypeOK(EvictPcs), NEW t \in Threads, NEW to,
         pc[t] \in HoldsZone, to \notin HoldsZone, pc' = [pc EXCEPT ![t] = to], UNCHANGED location
  PROVE  /\ held' = [held EXCEPT ![t] = NoPair]
         /\ Cardinality(Holders') = Cardinality(Holders) - 1
<1>1. Holders' = Holders \ {t} /\ t \in Holders
  BY DEF Holders, FrontTypeOK
<1>2. Cardinality(Holders') = Cardinality(Holders) - 1
  BY <1>1, HoldersFinite, FS_RemoveElement
<1>3. held' = [held EXCEPT ![t] = NoPair]
  <2>1. \A u \in Threads : held'[u] = [held EXCEPT ![t] = NoPair][u]
    BY <1>1 DEF held, FrontTypeOK
  <2> QED BY <2>1 DEF held
<1> QED BY <1>2, <1>3

\* The steps of the front end that do not call the manager.
LEMMA OtherSteps ==
  ASSUME FrontTypeOK(EvictPcs), NEW t \in Threads,
         TaskStep(t) \/ GetStep(t) \/ evict_task(t) \/ Wakeup(t),
         ~GetZone(t), ~WriteChunk(t), ~ReturnZone(t), ~UndoZoneGet(t)
  PROVE  /\ UNCHANGED <<zsmVars, disk>>
         /\ pc[t] \notin HoldsZone \/ pc' = pc
         /\ \E to \in InGet \cup EvictPcs \cup OutsideGet :
              to \notin HoldsZone /\ (pc' = [pc EXCEPT ![t] = to] \/ pc' = pc)
         /\ \A u \in Threads \ {t} : location'[u] = location[u]
         /\ pc' = pc => UNCHANGED location
<1>1. CASE TaskStep(t) \/ evict_task(t)
  BY <1>1 DEF TaskStep, TakeRequest, WorkloadDone, CountCompleted, evict_task, CheckDone,
              CheckFreeZones, Goto, locals, OutsideGet, InGet, EvictPcs, HoldsZone
<1>2. CASE Wakeup(t) \/ zn_cachemap_find(t)
  BY <1>2 DEF Wakeup, cacheVars, zn_cachemap_find, locals, InGet, HoldsZone
<1>3. CASE FindReturnLocation(t) \/ FindReturnType(t) \/ ReadChunk(t)
  BY <1>3 DEF FindReturnLocation, FindReturnType, ReadChunk, Goto, InGet, HoldsZone
<1>4. CASE HitDone(t) \/ MissDone(t) \/ UndoMap(t)
  <2>1. /\ pc[t] \in {"release", "insert", "undo_map"} /\ UNCHANGED <<zsmVars, disk>>
        /\ \E to \in {"next", "failed"} : Return(t, to)
    BY <1>4 DEF HitDone, MissDone, UndoMap
  <2>2. PICK to \in {"next", "failed"} : Return(t, to)
    BY <2>1
  <2>3. pc' = [pc EXCEPT ![t] = to] /\ \A u \in Threads \ {t} : location'[u] = location[u]
    BY <2>2 DEF Return, FrontTypeOK
  <2>4. pc' # pc
    BY <2>1, <2>3 DEF FrontTypeOK
  <2> QED BY <2>1, <2>2, <2>3, <2>4 DEF HoldsZone, OutsideGet
<1> QED BY <1>1, <1>2, <1>3, <1>4 DEF GetStep

\* Every step of the front end is a call W allows, or none.
LEMMA ViewStep ==
  ASSUME FrontOK, NEW t \in Threads,
         TaskStep(t) \/ GetStep(t) \/ evict_task(t) \/ Wakeup(t)
  PROVE  /\ W!ThreadStep(t) \/ UNCHANGED W!zsmVars
         /\ ReturnZone(t) => held[t] = location[t] /\ held[t] # NoPair
                             /\ W!zsm_return_active_zone(t, held[t])
         /\ UndoZoneGet(t) => held[t] = location[t] /\ held[t] # NoPair
                              /\ W!zsm_failed_to_write(t, held[t])
<1> USE SameNames
<1>0. /\ FrontTypeOK(EvictPcs) /\ ControlOK /\ ZsmTypeOK
      /\ Cardinality(Holders) <= writes_occurring
      /\ Cardinality(Holders) \in Nat /\ writes_occurring \in Nat /\ Len(active) \in Nat
  BY HoldersFinite DEF FrontOK, ManagerOK, ZsmTypeOK, LentOK
<1>1. CASE GetZone(t)
  <2>1. pc[t] = "get_zone"
    BY <1>1 DEF GetZone, Goto
  <2>2. held[t] = NoPair
    BY <1>0, <2>1, HeldFacts DEF Holders, HoldsZone
  <2>5. ~ReturnZone(t) /\ ~UndoZoneGet(t)
    BY <2>1 DEF ReturnZone, UndoZoneGet, Goto
  <2> SUFFICES W!ThreadStep(t) \/ UNCHANGED W!zsmVars
    BY <2>5
  <2>3. CASE /\ zsm_get_active_zone_success(t)
             /\ location' = [location EXCEPT ![t] = grant'[t]]
             /\ Goto(t, "get_zone", "write")
    <3>1. /\ held' = [held EXCEPT ![t] = grant'[t]]
          /\ Cardinality(Holders') = Cardinality(Holders) + 1
      BY <1>0, <2>3, HoldersGain DEF Goto, HoldsZone
    <3>2. CASE TakeActiveZone(t)
      <4>1. grant'[t] = Pair(Head(active), chunk_offset[Head(active)])
        BY <1>0, <3>2 DEF TakeActiveZone, PopActive, ZsmTypeOK
      <4>2. W!TakeActiveZone(t)
        BY <3>1, <3>2, <4>1 DEF TakeActiveZone, PopActive, W!TakeActiveZone, W!PopActive
      <4> QED BY <2>2, <4>2 DEF W!ThreadStep, W!zsm_get_active_zone_success
    <3>3. CASE OpenFreeZone(t)
      <4>1. grant'[t] = Pair(Head(Append(active, Head(free))),
                             [chunk_offset EXCEPT ![Head(free)] = 0][Head(Append(active, Head(free)))])
        BY <1>0, <3>3 DEF OpenFreeZone, PopActive, ZsmTypeOK
      <4>2. W!CanOpen
        BY <1>0, <3>3, Constants DEF OpenFreeZone, CanOpen, W!CanOpen, NumActiveZones, W!NumActiveZones
      <4>3. W!OpenFreeZone(t)
        BY <3>1, <3>3, <4>1, <4>2 DEF OpenFreeZone, PopActive, W!OpenFreeZone, W!PopActive
      <4> QED BY <2>2, <4>3 DEF W!ThreadStep, W!zsm_get_active_zone_success
    <3> QED BY <2>3, <3>2, <3>3 DEF zsm_get_active_zone_success
  <2>4. CASE ~(/\ zsm_get_active_zone_success(t)
               /\ location' = [location EXCEPT ![t] = grant'[t]]
               /\ Goto(t, "get_zone", "write"))
    <3>1. /\ \E to \in {"undo_map", "evict"} : pc' = [pc EXCEPT ![t] = to]
          /\ UNCHANGED location /\ (zsm_get_active_zone_error(t) \/ UNCHANGED zsmVars)
      BY <1>1, <2>4 DEF GetZone, Goto
    <3>2. Holders' = Holders /\ held' = held
      BY <1>0, <2>1, <3>1, HoldersMove DEF HoldsZone
    <3>3. CASE zsm_get_active_zone_error(t)
      <4>1. W!CanOpen
        BY <1>0, <3>3, Constants DEF zsm_get_active_zone_error, CanOpen, W!CanOpen, NumActiveZones, W!NumActiveZones
      <4> QED BY <2>2, <3>2, <3>3, <4>1 DEF zsm_get_active_zone_error, W!zsm_get_active_zone_error, W!ThreadStep
    <3> QED BY <3>1, <3>2, <3>3 DEF zsmVars, W!zsmVars
  <2> QED BY <2>3, <2>4
<1>2. CASE WriteChunk(t)
  <2>1. /\ UNCHANGED <<zsmVars, location>> /\ pc[t] = "write"
        /\ \E to \in {"return_zone", "undo_zone"} : pc' = [pc EXCEPT ![t] = to]
    BY <1>2 DEF WriteChunk, Goto, locals
  <2>2. Holders' = Holders
    BY <1>0, <2>1 DEF Holders, HoldsZone, FrontTypeOK
  <2>3. ~ReturnZone(t) /\ ~UndoZoneGet(t)
    BY <2>1 DEF ReturnZone, UndoZoneGet, Goto
  <2> QED BY <2>1, <2>2, <2>3 DEF held, zsmVars, W!zsmVars
<1>3. CASE ReturnZone(t) \/ UndoZoneGet(t)
  <2>1. /\ pc[t] \in {"return_zone", "undo_zone"} /\ UNCHANGED location
        /\ \E to \in {"update_write", "undo_map"} : pc' = [pc EXCEPT ![t] = to]
        /\ zsm_return_active_zone(t, location[t]) \/ zsm_failed_to_write(t, location[t])
    BY <1>3 DEF ReturnZone, UndoZoneGet, Goto, locals
  <2>2. /\ held' = [held EXCEPT ![t] = NoPair]
        /\ Cardinality(Holders') = Cardinality(Holders) - 1
    <3>1. PICK to \in {"update_write", "undo_map"} : pc' = [pc EXCEPT ![t] = to]
      BY <2>1
    <3>2. pc[t] \in HoldsZone /\ to \notin HoldsZone
      BY <2>1, <3>1 DEF HoldsZone
    <3> QED BY <1>0, <2>1, <3>1, <3>2, HoldersLose
  <2>3. held[t] # NoPair /\ held[t] = location[t]
    BY <1>0, <2>1, HeldFacts, NoPairFacts DEF Holders, HoldsZone
  <2>4. zsm_return_active_zone(t, location[t]) => W!zsm_return_active_zone(t, held[t])
    BY <2>2, <2>3 DEF zsm_return_active_zone, W!zsm_return_active_zone, close_zone, W!close_zone
  <2>5. zsm_failed_to_write(t, location[t]) => W!zsm_failed_to_write(t, held[t])
    BY <2>2, <2>3 DEF zsm_failed_to_write, W!zsm_failed_to_write
  <2>6. /\ ReturnZone(t) => zsm_return_active_zone(t, location[t])
        /\ UndoZoneGet(t) => zsm_failed_to_write(t, location[t])
    BY DEF ReturnZone, UndoZoneGet
  <2> QED BY <2>1, <2>3, <2>4, <2>5, <2>6 DEF W!ThreadStep
<1>4. CASE ~GetZone(t) /\ ~WriteChunk(t) /\ ~ReturnZone(t) /\ ~UndoZoneGet(t)
  <2>1. Holders' = Holders /\ held' = held /\ UNCHANGED zsmVars
    <3>1. CASE pc' = pc
      BY <1>0, <1>4, <3>1, OtherSteps DEF Holders, held
    <3>2. CASE pc' # pc
      BY <1>0, <1>4, <3>2, OtherSteps, HoldersMove
    <3> QED BY <3>1, <3>2
  <2> QED BY <1>4, <2>1 DEF zsmVars, W!zsmVars
<1> QED BY <1>1, <1>2, <1>3, <1>4

\* The manager's counters, before and after a step of the front end.
LEMMA LentStep ==
  ASSUME FrontOK, NEW t \in Threads, UNCHANGED gc,
         TaskStep(t) \/ GetStep(t) \/ evict_task(t) \/ Wakeup(t)
  PROVE  /\ writes_occurring' \in Nat
         /\ held' \in [Threads -> zn_pair \cup {NoPair}] =>
              LentOK' /\ grant' \in [Threads -> zn_pair \cup {NoPair}]
<1>0. /\ FrontTypeOK(EvictPcs) /\ ControlOK /\ ZsmTypeOK /\ LentOK
      /\ Cardinality(Holders) <= writes_occurring
      /\ Cardinality(Holders) \in Nat /\ writes_occurring \in Nat
      /\ active \in Seq(Zones) /\ Len(active) \in Nat
      /\ Len(active) + writes_occurring <= MaxNrActiveZones
      /\ ~gc.moved => grant = held /\ writes_occurring = Cardinality(Holders)
      /\ grant \in [Threads -> zn_pair \cup {NoPair}]
  BY HoldersFinite DEF FrontOK, ManagerOK, ZsmTypeOK, LentOK, NumActiveZones
<1> SUFFICES /\ writes_occurring' \in Nat
             /\ held' \in [Threads -> zn_pair \cup {NoPair}] =>
                  /\ Cardinality(Holders') <= writes_occurring'
                  /\ Len(active') + writes_occurring' <= MaxNrActiveZones
                  /\ ~gc.moved => grant' = held' /\ writes_occurring' = Cardinality(Holders')
                  /\ grant' \in [Threads -> zn_pair \cup {NoPair}]
  BY DEF LentOK, NumActiveZones
<1>1. CASE GetZone(t)
  <2>1. pc[t] = "get_zone"
    BY <1>1 DEF GetZone, Goto
  <2>2. CASE /\ zsm_get_active_zone_success(t)
             /\ location' = [location EXCEPT ![t] = grant'[t]]
             /\ Goto(t, "get_zone", "write")
    <3>1. /\ held' = [held EXCEPT ![t] = grant'[t]]
          /\ Cardinality(Holders') = Cardinality(Holders) + 1
      BY <1>0, <2>2, HoldersGain DEF Goto, HoldsZone
    <3>2. PICK p : grant' = [grant EXCEPT ![t] = p]
      BY <2>2 DEF zsm_get_active_zone_success, TakeActiveZone, OpenFreeZone, PopActive
    <3>3. grant'[t] = p
      BY <1>0, <3>2
    <3>4. held' \in [Threads -> zn_pair \cup {NoPair}] => p \in zn_pair \cup {NoPair}
      <4>1. held'[t] = p
        BY <3>1, <3>3 DEF held
      <4> QED BY <4>1
    <3>5. writes_occurring' = writes_occurring + 1 /\ Len(active') + writes_occurring' <= MaxNrActiveZones
      <4>1. CASE TakeActiveZone(t)
        <5>1. active' = Tail(active) /\ active # <<>> /\ writes_occurring' = writes_occurring + 1
          BY <4>1 DEF TakeActiveZone, PopActive
        <5>2. Len(active') = Len(active) - 1
          BY <1>0, <5>1, PopQueue
        <5> QED BY <1>0, <5>1, <5>2
      <4>2. CASE OpenFreeZone(t)
        <5>1. /\ active = <<>> /\ free # <<>> /\ active' = Tail(Append(active, Head(free)))
              /\ writes_occurring' = writes_occurring + 1
              /\ Len(active) + writes_occurring < MaxNrActiveZones
          BY <4>2 DEF OpenFreeZone, PopActive, CanOpen, NumActiveZones
        <5>2. Len(active') = Len(active)
          BY <5>1, PushPop
        <5> QED BY <1>0, <5>1, <5>2, Constants
      <4> QED BY <2>2, <4>1, <4>2 DEF zsm_get_active_zone_success
    <3>6. /\ writes_occurring' \in Nat /\ Cardinality(Holders') <= writes_occurring'
          /\ ~gc.moved => writes_occurring' = Cardinality(Holders')
      BY <1>0, <3>1, <3>5
    <3>7. ~gc.moved => grant' = held'
      BY <1>0, <3>1, <3>2, <3>3
    <3>8. p \in zn_pair \cup {NoPair} => grant' \in [Threads -> zn_pair \cup {NoPair}]
      BY <1>0, <3>2
    <3> QED BY <3>4, <3>5, <3>6, <3>7, <3>8
  <2>3. CASE ~(/\ zsm_get_active_zone_success(t)
               /\ location' = [location EXCEPT ![t] = grant'[t]]
               /\ Goto(t, "get_zone", "write"))
    <3>1. /\ \E to \in {"undo_map", "evict"} : pc' = [pc EXCEPT ![t] = to]
          /\ UNCHANGED location /\ UNCHANGED <<active, writes_occurring, grant>>
      BY <1>1, <2>3 DEF GetZone, Goto, zsmVars, zsm_get_active_zone_error
    <3>2. Holders' = Holders /\ held' = held
      BY <1>0, <2>1, <3>1, HoldersMove DEF HoldsZone
    <3> QED BY <1>0, <3>1, <3>2
  <2> QED BY <2>2, <2>3
<1>2. CASE WriteChunk(t)
  <2>1. /\ UNCHANGED <<zsmVars, location>> /\ pc[t] = "write"
        /\ \E to \in {"return_zone", "undo_zone"} : pc' = [pc EXCEPT ![t] = to]
    BY <1>2 DEF WriteChunk, Goto, locals
  <2>2. Holders' = Holders
    BY <1>0, <2>1 DEF Holders, HoldsZone, FrontTypeOK
  <2> QED BY <1>0, <2>1, <2>2 DEF held, zsmVars
<1>3. CASE ReturnZone(t) \/ UndoZoneGet(t)
  <2>1. /\ pc[t] \in {"return_zone", "undo_zone"} /\ UNCHANGED location
        /\ \E to \in {"update_write", "undo_map"} : pc' = [pc EXCEPT ![t] = to]
        /\ zsm_return_active_zone(t, location[t]) \/ zsm_failed_to_write(t, location[t])
    BY <1>3 DEF ReturnZone, UndoZoneGet, Goto, locals
  <2>2. /\ held' = [held EXCEPT ![t] = NoPair]
        /\ Cardinality(Holders') = Cardinality(Holders) - 1
    <3>1. PICK to \in {"update_write", "undo_map"} : pc' = [pc EXCEPT ![t] = to]
      BY <2>1
    <3>2. pc[t] \in HoldsZone /\ to \notin HoldsZone
      BY <2>1, <3>1 DEF HoldsZone
    <3> QED BY <1>0, <2>1, <3>1, <3>2, HoldersLose
  <2>3. /\ grant' = [grant EXCEPT ![t] = NoPair] /\ writes_occurring' = writes_occurring - 1
        /\ active' \in {active, Append(active, location[t].zone)}
    BY <2>1 DEF zsm_return_active_zone, zsm_failed_to_write
  <2>4. location[t].zone \in Zones
    BY <1>0, <2>1, NoPairFacts DEF ControlOK, HasLocation
  <2>5. Len(active') <= Len(active) + 1 /\ Len(active') \in Nat
    BY <1>0, <2>3, <2>4, PushQueue
  <2>6. Cardinality(Holders') \in Nat
    <3>1. IsFiniteSet(Holders')
      BY ThreadsAssumption, FS_Subset DEF Holders
    <3> QED BY <3>1, FS_CardinalityType
  <2>7. /\ writes_occurring' \in Nat /\ Cardinality(Holders') <= writes_occurring'
        /\ Len(active') + writes_occurring' <= MaxNrActiveZones
        /\ ~gc.moved => writes_occurring' = Cardinality(Holders')
    BY <1>0, <2>2, <2>3, <2>5, <2>6, Constants
  <2>8. ~gc.moved => grant' = held'
    BY <1>0, <2>2, <2>3
  <2>9. grant' \in [Threads -> zn_pair \cup {NoPair}]
    BY <1>0, <2>3
  <2> QED BY <2>7, <2>8, <2>9
<1>4. CASE ~GetZone(t) /\ ~WriteChunk(t) /\ ~ReturnZone(t) /\ ~UndoZoneGet(t)
  <2>1. Holders' = Holders /\ held' = held /\ UNCHANGED zsmVars
    <3>1. CASE pc' = pc
      BY <1>0, <1>4, <3>1, OtherSteps DEF Holders, held
    <3>2. CASE pc' # pc
      BY <1>0, <1>4, <3>2, OtherSteps, HoldersMove
    <3> QED BY <3>1, <3>2
  <2> QED BY <1>0, <2>1 DEF zsmVars
<1> QED BY <1>1, <1>2, <1>3, <1>4

\* The steps of the front end keep the manager and the front end consistent.
LEMMA FrontOKStep ==
  ASSUME FrontOK, NEW t \in Threads, UNCHANGED gc,
         TaskStep(t) \/ GetStep(t) \/ evict_task(t) \/ Wakeup(t)
  PROVE  FrontOK'
<1>1. W!ZsmInv'
  <2>1. W!ThreadStep(t) \/ UNCHANGED W!zsmVars
    BY ViewStep
  <2>2. W!ZsmInv /\ W!ActiveZoneBudget
    BY ViewOfManager DEF FrontOK
  <2> QED BY <2>1, <2>2, W!ZsmStepInv, Constants DEF W!ZsmNext
<1>2. held' \in [Threads -> zn_pair \cup {NoPair}]
  BY <1>1, SameNames DEF W!ZsmInv, W!ZsmTypeOK
<1>3. /\ writes_occurring' \in Nat /\ LentOK'
      /\ grant' \in [Threads -> zn_pair \cup {NoPair}]
  BY <1>2, LentStep
<1>4. ZsmTypeOK /\ ZsmTypeOK'
  BY <1>1, <1>3, SameNames DEF FrontOK, ManagerOK, W!ZsmInv, W!ZsmTypeOK, ZsmTypeOK
<1>5. FrontTypeOK(EvictPcs)' /\ ControlOK'
  <2>1. "evict" \in EvictPcs
    BY DEF EvictPcs
  <2> QED BY <1>4, <2>1, FrontStep DEF FrontOK
<1>6. CompletedOK' /\ FillersPresent'
  BY CompletedStep, FillersStep DEF FrontOK
<1>7. ManagerOK'
  BY <1>1, <1>3, <1>5, ManagerOfView DEF ManagerOK
<1> QED BY <1>5, <1>6, <1>7 DEF FrontOK
------------------------------------------------------------------------------
(***************************************************************************)
(* What is written to the zones.                                           *)
(***************************************************************************)
\* The chunk a worker is filling is not committed, and its zone is not full.
LEMMA HolderNotCommitted ==
  ASSUME ManagerOK, ControlOK, NEW t \in Holders
  PROVE  location[t] \in zn_pair /\ location[t] \notin Committed /\ location[t].zone \notin Written
<1>1. W!ZsmInv
  BY ViewOfManager
<1>2. t \in Threads /\ held[t] = location[t] /\ held[t] # NoPair /\ location[t] \in zn_pair
  BY HeldFacts, NoPairFacts DEF Holders
<1> QED BY <1>1, <1>2, W!GrantNotCommitted, Constants, SameNames, SameWritten

\* Only the return of a zone commits a chunk.
LEMMA FrontWritten ==
  ASSUME FrontOK, NEW t \in Threads,
         TaskStep(t) \/ GetStep(t) \/ evict_task(t) \/ Wakeup(t)
  PROVE  /\ ~ReturnZone(t) => Written' = Written /\ Committed' = Committed
         /\ ReturnZone(t) =>
              /\ Written' = Written \cup
                   (IF location[t].chunk_offset = MaxZoneChunks - 1 THEN {location[t].zone} ELSE {})
              /\ Committed' = Committed \cup {location[t]}
<1> USE SameWritten, SameWrittenNext, SameNames
<1>1. W!ZsmInv
  BY ViewOfManager DEF FrontOK
<1>2. CASE ReturnZone(t)
  BY <1>1, <1>2, ViewStep, W!ReturnWritten, Constants
<1>3. CASE UndoZoneGet(t)
  <2>1. ~ReturnZone(t)
    BY <1>3 DEF ReturnZone, UndoZoneGet, Goto
  <2> QED BY <1>1, <1>3, <2>1, ViewStep, W!FailedWritten, Constants
<1>4. CASE ~ReturnZone(t) /\ ~UndoZoneGet(t) /\ GetZone(t)
  <2>1. held[t] = NoPair
    BY <1>4, HeldFacts DEF GetZone, Goto, FrontOK, Holders, HoldsZone
  <2>2. \/ W!zsm_get_active_zone_success(t) \/ W!zsm_get_active_zone_error(t)
        \/ UNCHANGED W!zsmVars
    BY <2>1, ViewStep DEF W!ThreadStep
  <2>3. UNCHANGED W!zsmVars => Written' = Written /\ Committed' = Committed
    BY DEF W!zsmVars, Written, Committed, ChunkWritten, LastChunkWritten
  <2> QED BY <1>1, <1>4, <2>2, <2>3, W!GetWritten, Constants
<1>5. CASE ~ReturnZone(t) /\ ~UndoZoneGet(t) /\ ~GetZone(t)
  <2>1. UNCHANGED zsmVars
    BY <1>5, OtherSteps DEF FrontOK, WriteChunk
  <2> QED BY <1>5, <2>1 DEF zsmVars, Written, Committed, ChunkWritten, LastChunkWritten
<1> QED BY <1>2, <1>3, <1>4, <1>5

\* As long as the collector has written nothing to a place it was not given, the
\* front end commits whole chunks only.
LEMMA WholeFront ==
  ASSUME FrontOK, WholeOK, NEW t \in Threads, UNCHANGED gc,
         TaskStep(t) \/ GetStep(t) \/ evict_task(t) \/ Wakeup(t)
  PROVE  WholeOK'
<1> SUFFICES ASSUME WholeCommitted, WholeBeforeReturn
             PROVE  WholeCommitted' /\ WholeBeforeReturn'
  BY DEF WholeOK
<1>0. FrontTypeOK(EvictPcs) /\ ControlOK /\ ManagerOK
  BY DEF FrontOK
<1>1. CASE WriteChunk(t)
  <2>1. pc[t] = "write" /\ t \in Holders
    BY <1>1 DEF WriteChunk, Goto, Holders, HoldsZone
  <2>2. data_id[t] \in Ids
    BY <1>0, <2>1, NullAssumption DEF ControlOK, FrontTypeOK, InGet, OutsideGet
  <2>3. location[t] \in zn_pair /\ location[t] \notin Committed
    BY <1>0, <2>1, HolderNotCommitted
  <2>4. /\ UNCHANGED <<zsmVars, locals>>
        /\ \E to \in {"return_zone", "undo_zone"} : pc' = [pc EXCEPT ![t] = to]
        /\ \A p \in zn_pair : p # location[t] => disk'[p.zone][p.chunk_offset] = disk[p.zone][p.chunk_offset]
        /\ pc'[t] = "return_zone" =>
             disk'[location[t].zone][location[t].chunk_offset] = data_id[t]
    BY <1>0, <1>1, <2>3, WriteDisk
  <2>5. Committed' = Committed
    BY <2>4 DEF zsmVars, Committed, ChunkWritten, LastChunkWritten
  <2>6. WholeCommitted'
    BY <2>3, <2>4, <2>5 DEF WholeCommitted, Committed
  <2>7. ASSUME NEW u \in Threads, pc'[u] = "return_zone"
        PROVE  disk'[location'[u].zone][location'[u].chunk_offset] \in Ids
    <3>1. CASE u = t
      BY <2>2, <2>4, <2>7, <3>1 DEF locals
    <3>2. CASE u # t
      <4>1. pc[u] = "return_zone" /\ location'[u] = location[u] /\ u \in Holders
        BY <1>0, <2>4, <2>7, <3>2 DEF FrontTypeOK, locals, Holders, HoldsZone
      <4>2. location[u] \in zn_pair /\ location[u] # location[t]
        BY <1>0, <2>1, <3>2, <4>1, HolderNotCommitted DEF ManagerOK, HeldExclusive
      <4> QED BY <2>4, <4>1, <4>2 DEF WholeBeforeReturn
    <3> QED BY <3>1, <3>2
  <2> QED BY <2>6, <2>7 DEF WholeBeforeReturn
<1>2. CASE ReturnZone(t)
  <2>1. pc[t] = "return_zone" /\ pc' = [pc EXCEPT ![t] = "update_write"] /\ UNCHANGED <<location, disk>>
    BY <1>2 DEF ReturnZone, Goto, locals
  <2>2. Committed' = Committed \cup {location[t]}
    BY <1>2, FrontWritten
  <2>3. WholeCommitted'
    BY <2>1, <2>2 DEF WholeCommitted, WholeBeforeReturn
  <2> QED BY <1>0, <2>1, <2>3 DEF WholeBeforeReturn, FrontTypeOK
<1>3. CASE ~WriteChunk(t) /\ ~ReturnZone(t)
  <2>1. Committed' = Committed
    BY <1>3, FrontWritten
  <2>2. CASE GetZone(t) \/ UndoZoneGet(t)
    <3>1. /\ pc[t] # "return_zone" /\ UNCHANGED disk
          /\ \E to \in {"write", "undo_map", "evict"} : pc' = [pc EXCEPT ![t] = to]
          /\ \A u \in Threads \ {t} : location'[u] = location[u]
      BY <1>0, <2>2 DEF GetZone, UndoZoneGet, Goto, FrontTypeOK, locals
    <3> QED BY <1>0, <2>1, <3>1, WholeKept
  <2>3. CASE ~GetZone(t) /\ ~UndoZoneGet(t)
    <3>1. PICK to \in InGet \cup EvictPcs \cup OutsideGet :
            to \notin HoldsZone /\ (pc' = [pc EXCEPT ![t] = to] \/ pc' = pc)
      BY <1>0, <1>3, <2>3, OtherSteps
    <3>2. /\ UNCHANGED disk /\ \A u \in Threads \ {t} : location'[u] = location[u]
          /\ location'[t] = location[t] \/ pc[t] # "return_zone"
      BY <1>0, <1>3, <2>3, OtherSteps DEF HoldsZone
    <3> QED BY <1>0, <2>1, <3>1, <3>2, WholeKept DEF HoldsZone
  <2> QED BY <2>2, <2>3
<1> QED BY <1>1, <1>2, <1>3
------------------------------------------------------------------------------
(***************************************************************************)
(* The policy's steps, as the front end sees them.                         *)
(***************************************************************************)
\* The points between which the policy moves a thread.
Moves(t, to) ==
  \/ pc[t] = "update_read" /\ to = "release"
  \/ pc[t] = "update_write" /\ to = "insert"
  \/ pc[t] \in EvictPcs /\ to \in EvictPcs \cup {AfterEvict(t)}

\* What such a move may disturb of the front end.
LEMMA PolicyFront ==
  ASSUME FrontOK, NEW t \in Threads, NEW to, Moves(t, to), pc' = [pc EXCEPT ![t] = to],
         mapTypeOK', disk' \in [Zones -> [Chunks -> Ids \cup {Blank, Torn}]],
         UNCHANGED <<locals, ratio, progress>>
  PROVE  /\ FrontTypeOK(EvictPcs)' /\ ControlOK' /\ CompletedOK'
         /\ Holders' = Holders /\ held' = held
<1>0. FrontTypeOK(EvictPcs) /\ ControlOK /\ CompletedOK
  BY DEF FrontOK
<1>1. /\ to \in InGet \cup EvictPcs \cup OutsideGet
      /\ t \in Workers => pc[t] \notin OutsideGet /\ to \notin OutsideGet
      /\ t \notin Workers => to \notin InGet \cup {"next", "finish", "failed"}
      /\ to \in HasLocation => pc[t] \in HasLocation
      /\ pc[t] \notin HoldsZone /\ to \notin HoldsZone
  BY <1>0 DEF Moves, AfterEvict, EvictPcs, InGet, OutsideGet, HasLocation, HoldsZone, ControlOK
<1>2. FrontTypeOK(EvictPcs)'
  BY <1>0, <1>1 DEF FrontTypeOK, locals, progress
<1>3. ControlOK'
  BY <1>0, <1>1 DEF FrontTypeOK, ControlOK, locals, InGet, OutsideGet, HasLocation
<1>4. CompletedOK'
  <2>1. t \notin Workers \/ (pc[t] # "exited" /\ to # "exited")
    BY <1>1 DEF OutsideGet
  <2>2. Exited' = Exited
    BY <1>0, <2>1, ExitedUnchanged
  <2> QED BY <1>0, <2>2 DEF CompletedOK, progress
<1>5. Holders' = Holders /\ held' = held
  BY <1>0, <1>1, HoldersMove DEF locals
<1> QED BY <1>2, <1>3, <1>4, <1>5

\* A move of the policy that only empties entries keeps the fillers.
LEMMA PolicyFillers ==
  ASSUME FrontOK, NEW t \in Threads, NEW to, Moves(t, to), pc' = [pc EXCEPT ![t] = to],
         \A id \in Ids : zone_map'[id].type \in {zone_map[id].type, "EMPTY"},
         UNCHANGED <<data_id, waiting>>
  PROVE  FillersPresent'
<1>1. to \notin NotFilling \cup Copying \/ pc[t] \in NotFilling
  BY DEF Moves, AfterEvict, EvictPcs, NotFilling, Copying
<1> QED BY <1>1, FillersMove DEF FrontOK

\* A step that leaves the zones and their holders alone keeps the manager.
LEMMA ManagerKept ==
  ASSUME ManagerOK, Holders' = Holders, held' = held, gc'.moved = gc.moved,
         invalid' \in [Zones -> Seq(Chunks)],
         UNCHANGED <<zone_state, chunk_offset, active, free, writes_occurring, grant, location>>
  PROVE  ManagerOK' /\ Written' = Written /\ Committed' = Committed
<1>1. ZsmTypeOK' /\ QueuesMatchStates' /\ ZoneHasRoom' /\ HeldExclusive' /\ LentOK'
  BY DEF ManagerOK, ZsmTypeOK, QueuesMatchStates, ZoneHasRoom, HeldExclusive, LentOK, NumActiveZones
<1> QED BY <1>1 DEF ManagerOK, Written, Committed, ChunkWritten, LastChunkWritten

\* A step of the policy that changes neither the manager, the map nor the disk.
LEMMA QuietPolicy ==
  ASSUME FrontOK, WholeOK, NEW t \in Threads, NEW to, Moves(t, to),
         pc' = [pc EXCEPT ![t] = to], gc'.moved = gc.moved,
         UNCHANGED <<zsmVars, mapVars, locals, disk, ratio, progress>>
  PROVE  FrontOK' /\ WholeOK' /\ Written' = Written /\ Committed' = Committed
<1>0. FrontTypeOK(EvictPcs) /\ ManagerOK
  BY DEF FrontOK
<1>1. mapTypeOK' /\ disk' \in [Zones -> [Chunks -> Ids \cup {Blank, Torn}]]
  BY <1>0 DEF FrontTypeOK, mapTypeOK, mapVars
<1>2. /\ FrontTypeOK(EvictPcs)' /\ ControlOK' /\ CompletedOK'
      /\ Holders' = Holders /\ held' = held
  BY <1>1, PolicyFront
<1>3. FillersPresent'
  BY PolicyFillers DEF mapVars, locals
<1>4. ManagerOK' /\ Written' = Written /\ Committed' = Committed
  BY <1>0, <1>2, ManagerKept DEF zsmVars, locals, ManagerOK, ZsmTypeOK
<1>5. to # "return_zone"
  BY DEF Moves, AfterEvict, EvictPcs
<1>6. WholeOK'
  BY <1>0, <1>4, <1>5, WholeKept DEF WholeOK, locals
<1> QED BY <1>2, <1>3, <1>4, <1>6 DEF FrontOK
------------------------------------------------------------------------------
(***************************************************************************)
(* The policy's own variables.                                             *)
(***************************************************************************)
\* A slot is a slot of a zone.
LEMMA SlotTypes ==
  ASSUME PolicyTypeOK, NEW s \in Slots
  PROVE  /\ s.zone \in Zones /\ s.chunk_offset \in Chunks
         /\ zone_pool[s.zone].chunks \in [Chunks -> SlotType]
         /\ Slot(s) \in SlotType
         /\ Pair(s.zone, s.chunk_offset) = s
<1>1. s.zone \in Zones /\ s.chunk_offset \in Chunks
  BY NoPairFacts DEF Slots
<1>2. Pair(s.zone, s.chunk_offset) = s
  BY DEF Slots, zn_pair, Pair
<1> QED BY <1>1, <1>2 DEF PolicyTypeOK, PoolType, Slot

\* Counting modulo UintMod stays below UintMod.
LEMMA Modulus ==
  /\ UintMod \in Nat \ {0}
  /\ \A n \in Int : n % UintMod \in 0 .. UintMod - 1
  /\ \A n \in Int : Dec(n) \in 0 .. UintMod - 1 /\ Inc(n) \in 0 .. UintMod - 1
<1>1. UintMod \in Nat \ {0}
  BY Constants
<1>2. \A n \in Int : n % UintMod \in 0 .. UintMod - 1
  BY <1>1
<1> QED BY <1>1, <1>2 DEF Dec, Inc

\* A step of the front end takes no thread into the policy's code or out of it.
LEMMA FrontOutside ==
  ASSUME FrontOK, NEW t \in Threads,
         TaskStep(t) \/ GetStep(t) \/ evict_task(t) \/ Wakeup(t)
  PROVE  /\ \A u \in Threads :
              pc[u] \in InPolicy \cup {"crashed"} \/ pc'[u] \in InPolicy \cup {"crashed"} => pc'[u] = pc[u]
         /\ \A u \in Threads : pc[u] = "update_write" => pc'[u] = pc[u] /\ location'[u] = location[u]
         /\ \A u \in Threads : pc'[u] = "update_write" /\ pc[u] # "update_write" => u = t /\ ReturnZone(t)
<1>0. pc \in [Threads -> InGet \cup EvictPcs \cup OutsideGet] /\ location \in [Threads -> zn_pair \cup {NoPair}]
  BY DEF FrontOK, FrontTypeOK
<1> USE <1>0 DEF InPolicy, Collecting, Relocating
<1>1. CASE TaskStep(t) \/ evict_task(t)
  BY <1>1 DEF TaskStep, TakeRequest, WorkloadDone, CountCompleted, evict_task, CheckDone,
              CheckFreeZones, Goto, locals
<1>2. CASE zn_cachemap_find(t) \/ Wakeup(t)
  BY <1>2 DEF zn_cachemap_find, Wakeup, cacheVars, locals
<1>3. CASE FindReturnLocation(t) \/ FindReturnType(t) \/ ReadChunk(t)
  BY <1>3 DEF FindReturnLocation, FindReturnType, ReadChunk, Goto
<1>4. CASE HitDone(t) \/ MissDone(t) \/ UndoMap(t)
  <2>1. /\ pc[t] \in {"release", "insert", "undo_map"}
        /\ \E to \in {"next", "failed"} : pc' = [pc EXCEPT ![t] = to]
        /\ \A u \in Threads \ {t} : location'[u] = location[u]
    BY <1>4 DEF HitDone, MissDone, UndoMap, Return
  <2> QED BY <2>1
<1>5. CASE GetZone(t)
  <2>1. /\ pc[t] = "get_zone"
        /\ \E to \in {"write", "undo_map", "evict"} : pc' = [pc EXCEPT ![t] = to]
        /\ \A u \in Threads \ {t} : location'[u] = location[u]
    BY <1>5 DEF GetZone, Goto
  <2> QED BY <2>1
<1>6. CASE WriteChunk(t) \/ ReturnZone(t) \/ UndoZoneGet(t)
  <2>1. /\ pc[t] \in HoldsZone /\ UNCHANGED location
        /\ \/ pc' = [pc EXCEPT ![t] = "update_write"] /\ ReturnZone(t)
           \/ \E to \in {"return_zone", "undo_zone", "undo_map"} : pc' = [pc EXCEPT ![t] = to]
    BY <1>6 DEF WriteChunk, ReturnZone, UndoZoneGet, Goto, locals, HoldsZone
  <2> QED BY <2>1 DEF HoldsZone
<1> QED BY <1>1, <1>2, <1>3, <1>4, <1>5, <1>6 DEF GetStep

\* The policy's own variables do not depend on the front end.
LEMMA FrontPolicy ==
  ASSUME ChunkInv, NEW t \in Threads, UNCHANGED policyVars,
         TaskStep(t) \/ GetStep(t) \/ evict_task(t) \/ Wakeup(t)
  PROVE  PolicyTypeOK' /\ MutexOK' /\ CollectorOK' /\ SlotsNamed'
<1>1. PolicyTypeOK' /\ SlotsNamed'
  BY DEF ChunkInv, PolicyInv, PolicyTypeOK, PoolType, SlotsNamed, Slot, policyVars, Heap!Queued
<1>2. \A u \in Threads :
        pc[u] \in InPolicy \cup {"crashed"} \/ pc'[u] \in InPolicy \cup {"crashed"} => pc'[u] = pc[u]
  BY FrontOutside DEF ChunkInv
<1>3. MutexOK'
  BY <1>2 DEF ChunkInv, PolicyInv, MutexOK, policyVars
<1>4. CollectorOK'
  BY <1>2 DEF ChunkInv, PolicyInv, CollectorOK, policyVars, InPolicy, Collecting, Relocating, Slot
<1> QED BY <1>1, <1>3, <1>4

\* A zone that is filled goes to the worker that filled it.
LEMMA FrontZones ==
  ASSUME ChunkInv, NEW t \in Threads, UNCHANGED policyVars,
         TaskStep(t) \/ GetStep(t) \/ evict_task(t) \/ Wakeup(t)
  PROVE  ZonesHeld' /\ ZonesFound'
<1>0. FrontOK /\ ManagerOK /\ ControlOK /\ ZonesHeld /\ ZonesFound
  BY DEF ChunkInv, FrontOK, PolicyInv
<1>1. UNCHANGED <<invalid_pqueue, gc>> /\ UNCHANGED Heap!Queued
  BY DEF policyVars, Heap!Queued
<1>2. /\ \A u \in Threads : pc[u] = "update_write" => pc'[u] = pc[u] /\ location'[u] = location[u]
      /\ \A u \in Threads : pc'[u] = "update_write" /\ pc[u] # "update_write" => u = t /\ ReturnZone(t)
  BY <1>0, FrontOutside
<1>3. CASE ~ReturnZone(t)
  <2>1. Written' = Written
    BY <1>0, <1>3, FrontWritten
  <2>2. \A u \in Threads, z \in Zones : Pending(u, z)' <=> Pending(u, z)
    BY <1>2, <1>3 DEF Pending
  <2>3. ZonesHeld'
    BY <1>0, <1>1, <2>1, <2>2 DEF ZonesHeld
  <2>4. ZonesFound'
    BY <1>0, <1>1, <2>1, <2>2 DEF ZonesFound, Written
  <2> QED BY <2>3, <2>4
<1>4. CASE ReturnZone(t)
  <2>1. /\ pc[t] = "return_zone" /\ pc'[t] = "update_write" /\ location' = location
    BY <1>0, <1>4 DEF ReturnZone, Goto, locals, FrontOK, FrontTypeOK
  <2>2. location[t] \in zn_pair /\ location[t].zone \notin Written
    BY <1>0, <2>1, HolderNotCommitted DEF Holders, HoldsZone
  <2>3. Written' = Written \cup
          (IF location[t].chunk_offset = MaxZoneChunks - 1 THEN {location[t].zone} ELSE {})
    BY <1>0, <1>4, FrontWritten
  <2>4. \A u \in Threads, z \in Zones :
          Pending(u, z)' <=> Pending(u, z) \/ (u = t /\ location[t] = Pair(z, MaxZoneChunks - 1))
    BY <1>2, <2>1 DEF Pending
  <2>5. \A z \in Zones : location[t] = Pair(z, MaxZoneChunks - 1) <=>
                           z = location[t].zone /\ location[t].chunk_offset = MaxZoneChunks - 1
    BY <2>2 DEF Pair, zn_pair
  <2>6. location[t].zone \in Zones
    BY <2>2, NoPairFacts
  <2>7. ZonesHeld'
    <3>1. Heap!Queued \subseteq Written /\ (gc.zone # -1 => gc.zone \in Written \ Heap!Queued)
      BY <1>0 DEF ZonesHeld
    <3>2. \A u \in Threads, z \in Zones :
            Pending(u, z)' => z \in Written' \ Heap!Queued /\ gc.zone # z
      <4> SUFFICES ASSUME NEW u \in Threads, NEW z \in Zones, Pending(u, z)'
                   PROVE  z \in Written' \ Heap!Queued /\ gc.zone # z
        OBVIOUS
      <4>1. CASE Pending(u, z)
        BY <1>0, <2>3, <4>1 DEF ZonesHeld
      <4>2. CASE ~Pending(u, z)
        <5>1. z = location[t].zone /\ location[t].chunk_offset = MaxZoneChunks - 1
          BY <2>4, <2>5, <4>2
        <5> QED BY <2>2, <2>3, <2>6, <3>1, <5>1, NumZonesAssumption DEF Zones
      <4> QED BY <4>1, <4>2
    <3>3. \A u, v \in Threads, z \in Zones : Pending(u, z)' /\ Pending(v, z)' => u = v
      <4> SUFFICES ASSUME NEW u \in Threads, NEW v \in Threads, NEW z \in Zones,
                          Pending(u, z)', Pending(v, z)'
                   PROVE  u = v
        OBVIOUS
      <4>1. CASE Pending(u, z) \/ Pending(v, z)
        <5>1. z \in Written
          BY <1>0, <4>1 DEF ZonesHeld
        <5>2. Pending(u, z) /\ Pending(v, z)
          BY <2>2, <2>4, <2>5, <5>1
        <5> QED BY <1>0, <5>2 DEF ZonesHeld
      <4> QED BY <2>4, <4>1
    <3> QED BY <1>1, <2>3, <3>1, <3>2, <3>3 DEF ZonesHeld
  <2>8. ZonesFound'
    BY <1>0, <1>1, <2>3, <2>4, <2>5, <2>6 DEF ZonesFound, Written
  <2> QED BY <2>7, <2>8
<1> QED BY <1>3, <1>4

\* The steps of the front end keep the invariant.
LEMMA FrontChunk ==
  ASSUME ChunkInv, NEW t \in Threads, UNCHANGED policyVars,
         TaskStep(t) \/ GetStep(t) \/ evict_task(t) \/ Wakeup(t)
  PROVE  ChunkInv'
<1>1. FrontOK' /\ WholeOK'
  BY FrontOKStep, WholeFront DEF ChunkInv, policyVars
<1> QED BY <1>1, FrontPolicy, FrontZones DEF ChunkInv, PolicyInv
------------------------------------------------------------------------------
(***************************************************************************)
(* Facts about the operators the policy is built from.                     *)
(***************************************************************************)
\* A set of natural numbers has a least one.
LEMMA MinFacts ==
  ASSUME NEW S \in SUBSET Nat, S # {}
  PROVE  Min(S) \in S /\ \A n \in S : Min(S) <= n
<1>1. PICK x \in S : \A y \in S : ~(<<y, x>> \in OpToRel(<, Nat))
  BY WFMin, NatLessThanWellFounded, Zenon
<1>2. \A y \in S : x <= y
  <2> SUFFICES ASSUME NEW y \in S PROVE x <= y
    OBVIOUS
  <2>1. x \in Nat /\ y \in Nat
    OBVIOUS
  <2>2. ~(y < x)
    BY <1>1, <2>1 DEF OpToRel
  <2> QED BY <2>1, <2>2
<1> QED BY <1>2 DEF Min

\* A sequence without its k-th element.
LEMMA Without ==
  ASSUME NEW S, NEW q \in Seq(S), NEW k \in 1 .. Len(q)
  PROVE  /\ RemoveAt(q, k) \in Seq(S)
         /\ Len(RemoveAt(q, k)) = Len(q) - 1
         /\ \A i \in 1 .. Len(q) - 1 : RemoveAt(q, k)[i] = IF i < k THEN q[i] ELSE q[i + 1]
<1> DEFINE a == SubSeq(q, 1, k - 1)
<1> DEFINE b == SubSeq(q, k + 1, Len(q))
<1>1. a \in Seq(S) /\ b \in Seq(S) /\ Len(q) \in Nat
  OBVIOUS
<1>2. Len(a) = k - 1 /\ Len(b) = Len(q) - k
  OBVIOUS
<1>3. \A i \in 1 .. k - 1 : a[i] = q[i]
  OBVIOUS
<1>4. \A i \in 1 .. Len(q) - k : b[i] = q[i + k]
  OBVIOUS
<1>5. RemoveAt(q, k) = a \o b
  BY DEF RemoveAt
<1> HIDE DEF a, b
<1>6. /\ a \o b \in Seq(S) /\ Len(a \o b) = Len(a) + Len(b)
      /\ \A i \in 1 .. Len(a) + Len(b) :
           (a \o b)[i] = IF i <= Len(a) THEN a[i] ELSE b[i - Len(a)]
  BY <1>1
<1>7. ASSUME NEW i \in 1 .. Len(q) - 1
      PROVE  (a \o b)[i] = IF i < k THEN q[i] ELSE q[i + 1]
  <2>1. CASE i < k
    BY <1>1, <1>2, <1>3, <1>6, <2>1
  <2>2. CASE ~(i < k)
    <3>1. i - Len(a) \in 1 .. Len(q) - k /\ (i - Len(a)) + k = i + 1
      BY <1>1, <1>2, <2>2
    <3>2. b[i - Len(a)] = q[i + 1]
      BY <1>4, <3>1
    <3> QED BY <1>1, <1>2, <1>6, <2>2, <3>2
  <2> QED BY <2>1, <2>2
<1> QED BY <1>2, <1>5, <1>6, <1>7

\* Unlinking changes no more than the link of the nodes of one slot.
LEMMA UnlinkFacts ==
  ASSUME NEW q \in Seq(Nodes), NEW s \in Slots
  PROVE  /\ Unlink(q, s) \in Seq(Nodes) /\ Len(Unlink(q, s)) = Len(q) /\ Len(q) \in Nat
         /\ \A i \in 1 .. Len(q) :
              /\ Unlink(q, s)[i] = IF q[i].slot = s THEN Node(s, FALSE) ELSE q[i]
              /\ Unlink(q, s)[i].slot = q[i].slot
<1>1. DOMAIN q = 1 .. Len(q) /\ Len(q) \in Nat /\ \A i \in 1 .. Len(q) : q[i] \in Nodes
  OBVIOUS
<1>2. \A i \in 1 .. Len(q) :
        (IF q[i].slot = s THEN Node(s, FALSE) ELSE q[i]) \in Nodes
  BY <1>1 DEF Nodes, Node
<1>3. Unlink(q, s) = [i \in 1 .. Len(q) |-> IF q[i].slot = s THEN Node(s, FALSE) ELSE q[i]]
  BY <1>1 DEF Unlink
<1>4. Unlink(q, s) \in Seq(Nodes) /\ Len(Unlink(q, s)) = Len(q)
  <2> DEFINE u == Unlink(q, s)
  <2>1. u \in [1 .. Len(q) -> Nodes]
    BY <1>2, <1>3
  <2> HIDE DEF u
  <2>2. u \in Seq(Nodes) /\ Len(u) = Len(q)
    BY <1>1, <2>1
  <2> QED BY <2>2 DEF u
<1>5. \A i \in 1 .. Len(q) : Unlink(q, s)[i].slot = q[i].slot
  BY <1>3 DEF Node
<1> QED BY <1>1, <1>3, <1>4, <1>5

\* What the tail of a queue of nodes is.
LEMMA TailFacts ==
  ASSUME NEW S, NEW q \in Seq(S), q # <<>>
  PROVE  /\ Len(q) \in Nat \ {0} /\ Head(q) = q[1] /\ Head(q) \in S
         /\ Tail(q) \in Seq(S) /\ Len(Tail(q)) = Len(q) - 1
         /\ \A i \in 1 .. Len(q) - 1 : Tail(q)[i] = q[i + 1]
OBVIOUS

\* A sequence with one more element.
LEMMA AppendFacts ==
  ASSUME NEW S, NEW q \in Seq(S), NEW e \in S
  PROVE  /\ Append(q, e) \in Seq(S) /\ Len(Append(q, e)) = Len(q) + 1 /\ Len(q) \in Nat
         /\ DOMAIN Append(q, e) = 1 .. Len(q) + 1 /\ DOMAIN q = 1 .. Len(q)
         /\ \A i \in 1 .. Len(q) : Append(q, e)[i] = q[i]
         /\ Append(q, e)[Len(q) + 1] = e
OBVIOUS

\* Q is P but for one slot, and the count and the entry of its zone.
SlotSet(P, Q, s, slot, n, entry) ==
  /\ Q \in PoolType
  /\ \A r \in Slots : Q[r.zone].chunks[r.chunk_offset] =
                        IF r = s THEN slot ELSE P[r.zone].chunks[r.chunk_offset]
  /\ \A z \in Zones : /\ Q[z].chunks_in_use = IF z = s.zone THEN n ELSE P[z].chunks_in_use
                      /\ Q[z].has_entry = IF z = s.zone THEN entry ELSE P[z].has_entry

\* What it takes.
LEMMA SlotIsSet ==
  ASSUME NEW P \in PoolType, NEW Q \in PoolType, NEW s \in Slots, NEW slot, NEW n, NEW entry,
         Q[s.zone].chunks = [P[s.zone].chunks EXCEPT ![s.chunk_offset] = slot],
         Q[s.zone].chunks_in_use = n, Q[s.zone].has_entry = entry,
         \A z \in Zones : z # s.zone => Q[z] = P[z]
  PROVE  SlotSet(P, Q, s, slot, n, entry)
<1>1. s.zone \in Zones /\ s.chunk_offset \in Chunks
  BY NoPairFacts DEF Slots
<1>2. P[s.zone].chunks \in [Chunks -> SlotType]
  BY <1>1 DEF PoolType
<1>3. ASSUME NEW r \in Slots
      PROVE  Q[r.zone].chunks[r.chunk_offset] = IF r = s THEN slot ELSE P[r.zone].chunks[r.chunk_offset]
  <2>1. r.zone \in Zones /\ r.chunk_offset \in Chunks
    BY NoPairFacts DEF Slots
  <2>2. r = s <=> r.zone = s.zone /\ r.chunk_offset = s.chunk_offset
    BY DEF Slots, zn_pair
  <2>3. CASE r.zone = s.zone
    BY <1>1, <1>2, <2>1, <2>2, <2>3
  <2>4. CASE r.zone # s.zone
    BY <2>1, <2>2, <2>4
  <2> QED BY <2>3, <2>4
<1> QED BY <1>1, <1>3 DEF SlotSet

\* A slot that is no longer in use.
LEMMA SlotFreed ==
  ASSUME NEW old \in SlotType
  PROVE  /\ [old EXCEPT !.in_use = FALSE] \in SlotType
         /\ [old EXCEPT !.in_use = FALSE] = [pair |-> old.pair, in_use |-> FALSE]
<1>1. [old EXCEPT !.in_use = FALSE] \in SlotType
  BY DEF SlotType
<1>2. [old EXCEPT !.in_use = FALSE].in_use = FALSE /\ [old EXCEPT !.in_use = FALSE].pair = old.pair
  BY DEF SlotType
<1>3. ASSUME NEW new \in SlotType, new.in_use = FALSE, new.pair = old.pair
      PROVE  new = [pair |-> old.pair, in_use |-> FALSE]
  BY <1>3 DEF SlotType
<1> QED BY <1>1, <1>2, <1>3

\* An assignment to a slot, the count and the entry of its zone.
LEMMA WriteSlot ==
  ASSUME NEW P \in PoolType, NEW z \in Zones, NEW c \in Chunks, NEW slot \in SlotType,
         NEW n \in Counts, NEW entry \in BOOLEAN, NEW Q,
         Q = [P EXCEPT ![z].chunks[c] = slot, ![z].chunks_in_use = n, ![z].has_entry = entry]
  PROVE  SlotSet(P, Q, Pair(z, c), slot, n, entry)
<1>1. /\ Q \in PoolType
      /\ Q[z].chunks = [P[z].chunks EXCEPT ![c] = slot]
      /\ Q[z].chunks_in_use = n /\ Q[z].has_entry = entry
      /\ \A y \in Zones : y # z => Q[y] = P[y]
  BY DEF PoolType
<1>2. Pair(z, c) \in Slots /\ Pair(z, c).zone = z /\ Pair(z, c).chunk_offset = c
  BY NoPairFacts DEF Slots
<1> QED BY <1>1, <1>2, SlotIsSet

\* The same without the entry.
LEMMA CopySlot ==
  ASSUME NEW P \in PoolType, NEW z \in Zones, NEW c \in Chunks, NEW slot \in SlotType,
         NEW n \in Counts, NEW Q,
         Q = [P EXCEPT ![z].chunks[c] = slot, ![z].chunks_in_use = n]
  PROVE  SlotSet(P, Q, Pair(z, c), slot, n, P[z].has_entry)
<1>1. /\ Q \in PoolType
      /\ Q[z].chunks = [P[z].chunks EXCEPT ![c] = slot]
      /\ Q[z].chunks_in_use = n /\ Q[z].has_entry = P[z].has_entry
      /\ \A y \in Zones : y # z => Q[y] = P[y]
  BY DEF PoolType
<1>2. Pair(z, c) \in Slots /\ Pair(z, c).zone = z /\ Pair(z, c).chunk_offset = c
  BY NoPairFacts DEF Slots
<1> QED BY <1>1, <1>2, SlotIsSet

\* zn_policy_chunk_update sets a slot.
LEMMA SlotWritten ==
  ASSUME NEW P \in PoolType, NEW s \in Slots, NEW slot \in SlotType, NEW full \in BOOLEAN
  PROVE  SlotSet(P, [P EXCEPT ![s.zone].chunks[s.chunk_offset] = slot,
                              ![s.zone].chunks_in_use = Inc(@), ![s.zone].has_entry = @ \/ full],
                 s, slot, Inc(P[s.zone].chunks_in_use), P[s.zone].has_entry \/ full)
<1>1. PICK z \in Zones, c \in Chunks : z = s.zone /\ c = s.chunk_offset
  BY NoPairFacts DEF Slots
<1>2. P[z].chunks_in_use \in Counts /\ P[z].has_entry \in BOOLEAN
  BY DEF PoolType
<1>3. PICK n \in Counts : n = Inc(P[z].chunks_in_use)
  BY <1>2, Modulus, SMTT(30) DEF Counts
<1>4. PICK entry \in BOOLEAN : entry = (P[z].has_entry \/ full)
  BY <1>2
<1>5. [P EXCEPT ![z].chunks[c] = slot, ![z].chunks_in_use = Inc(@), ![z].has_entry = @ \/ full]
        = [P EXCEPT ![z].chunks[c] = slot, ![z].chunks_in_use = n, ![z].has_entry = entry]
  BY <1>3, <1>4 DEF PoolType
<1>6. SlotSet(P, [P EXCEPT ![z].chunks[c] = slot, ![z].chunks_in_use = n, ![z].has_entry = entry],
              Pair(z, c), slot, n, entry)
  BY WriteSlot
<1>7. Pair(z, c) = s
  BY <1>1 DEF Slots, zn_pair, Pair
<1> QED BY <1>1, <1>3, <1>4, <1>5, <1>6, <1>7

\* And the slot a chunk was relocated to.
LEMMA SlotCopied ==
  ASSUME NEW P \in PoolType, NEW s \in Slots, NEW slot \in SlotType
  PROVE  SlotSet(P, [P EXCEPT ![s.zone].chunks[s.chunk_offset] = slot,
                              ![s.zone].chunks_in_use = Inc(@)],
                 s, slot, Inc(P[s.zone].chunks_in_use), P[s.zone].has_entry)
<1>1. PICK z \in Zones, c \in Chunks : z = s.zone /\ c = s.chunk_offset
  BY NoPairFacts DEF Slots
<1>2. P[z].chunks_in_use \in Counts
  BY DEF PoolType
<1>3. PICK n \in Counts : n = Inc(P[z].chunks_in_use)
  BY <1>2, Modulus, SMTT(30) DEF Counts
<1>5. [P EXCEPT ![z].chunks[c] = slot, ![z].chunks_in_use = Inc(@)]
        = [P EXCEPT ![z].chunks[c] = slot, ![z].chunks_in_use = n]
  BY <1>3 DEF PoolType
<1>6. SlotSet(P, [P EXCEPT ![z].chunks[c] = slot, ![z].chunks_in_use = n],
              Pair(z, c), slot, n, P[z].has_entry)
  BY CopySlot
<1>7. Pair(z, c) = s
  BY <1>1 DEF Slots, zn_pair, Pair
<1> QED BY <1>1, <1>3, <1>5, <1>6, <1>7

\* So does the invalidation of a chunk.
LEMMA SlotInvalidated ==
  ASSUME NEW P \in PoolType, NEW s \in Slots
  PROVE  SlotSet(P, [P EXCEPT ![s.zone].chunks[s.chunk_offset].in_use = FALSE,
                              ![s.zone].chunks_in_use = Dec(@)],
                 s, [pair |-> P[s.zone].chunks[s.chunk_offset].pair, in_use |-> FALSE],
                 Dec(P[s.zone].chunks_in_use), P[s.zone].has_entry)
<1>1. PICK z \in Zones, c \in Chunks : z = s.zone /\ c = s.chunk_offset
  BY NoPairFacts DEF Slots
<1>2. P[z].chunks_in_use \in Counts /\ P[z].chunks[c] \in SlotType
  BY DEF PoolType
<1>3. PICK n \in Counts : n = Dec(P[z].chunks_in_use)
  BY <1>2, Modulus DEF Counts
<1>4. PICK slot \in SlotType : /\ slot = [pair |-> P[z].chunks[c].pair, in_use |-> FALSE]
                               /\ slot = [P[z].chunks[c] EXCEPT !.in_use = FALSE]
  BY <1>2, SlotFreed
<1>5. [P EXCEPT ![z].chunks[c].in_use = FALSE, ![z].chunks_in_use = Dec(@)]
        = [P EXCEPT ![z].chunks[c] = slot, ![z].chunks_in_use = n]
  BY <1>3, <1>4 DEF PoolType
<1>6. SlotSet(P, [P EXCEPT ![z].chunks[c] = slot, ![z].chunks_in_use = n],
              Pair(z, c), slot, n, P[z].has_entry)
  BY CopySlot
<1>7. Pair(z, c) = s
  BY <1>1 DEF Slots, zn_pair, Pair
<1> QED BY <1>1, <1>3, <1>4, <1>5, <1>6, <1>7, Zenon
------------------------------------------------------------------------------
(***************************************************************************)
(* zn_policy_chunk_update.                                                 *)
(***************************************************************************)
\* Nobody is in the policy's code when its mutex is free.
LEMMA MutexFree ==
  ASSUME MutexOK, CollectorOK, policy_mutex = NULL
  PROVE  gc.zone = -1 /\ \A t \in Threads : pc[t] \notin InPolicy
BY MutexAssumption DEF MutexOK, CollectorOK

\* Nobody but the thread that holds the mutex is.
LEMMA OneInPolicy ==
  ASSUME MutexOK, NEW t \in Threads, pc[t] \in InPolicy
  PROVE  policy_mutex = t /\ \A u \in Threads \ {t} : pc[u] \notin InPolicy
BY DEF MutexOK

\* An assignment to a slot keeps the slots' names.
LEMMA NamesKept ==
  ASSUME NEW P, NEW Q, NEW q \in Seq(Nodes), NEW r \in Seq(Nodes), Named(P, q),
         NEW s \in Slots, NEW slot, NEW n, NEW entry,
         SlotSet(P, Q, s, slot, n, entry),
         slot.pair \in zn_pair \/ (slot.pair = At(P, s).pair /\ ~slot.in_use),
         \A i \in DOMAIN r :
            \/ r[i].slot = s /\ slot.pair \in zn_pair
            \/ \E j \in DOMAIN q : r[i].slot = q[j].slot
  PROVE  Named(Q, r)
<1>1. \A x \in Slots : At(Q, x) = IF x = s THEN slot ELSE At(P, x)
  BY DEF SlotSet, At
<1>2. ASSUME NEW x \in Slots, At(Q, x).in_use PROVE At(Q, x).pair \in zn_pair
  BY <1>1, <1>2 DEF Named
<1>3. ASSUME NEW i \in DOMAIN r PROVE At(Q, r[i].slot).pair \in zn_pair
  <2>1. CASE r[i].slot = s /\ slot.pair \in zn_pair
    BY <1>1, <2>1
  <2>2. CASE \E j \in DOMAIN q : r[i].slot = q[j].slot
    <3>1. PICK j \in DOMAIN q : r[i].slot = q[j].slot
      BY <2>2
    <3>2. q[j] \in Nodes
      OBVIOUS
    <3>3. q[j].slot \in Slots /\ At(P, q[j].slot).pair \in zn_pair
      BY <3>2 DEF Nodes, Named
    <3> QED BY <1>1, <3>1, <3>3
  <2> QED BY <1>3, <2>1, <2>2
<1> QED BY <1>2, <1>3 DEF Named

\* Where the zones are when a step fills and resets none and moves no zone.
LEMMA ZonesSame ==
  ASSUME ZonesHeld, ZonesFound, Written' = Written, Heap!Queued' = Heap!Queued, gc'.zone = gc.zone,
         \A u \in Threads, z \in Zones : Pending(u, z)' <=> Pending(u, z)
  PROVE  ZonesHeld' /\ ZonesFound'
BY DEF ZonesHeld, ZonesFound, Written

\* A thread moves between points of the program that are not update_write.
LEMMA PendingSame ==
  ASSUME FrontTypeOK(EvictPcs), NEW t \in Threads, NEW to,
         pc' = pc \/ (pc' = [pc EXCEPT ![t] = to] /\ pc[t] # "update_write" /\ to # "update_write"),
         UNCHANGED location
  PROVE  \A u \in Threads, z \in Zones : Pending(u, z)' <=> Pending(u, z)
BY DEF Pending, FrontTypeOK

\* A chunk was written.
LEMMA UpdateWriteChunk ==
  ASSUME ChunkInv, NEW t \in Threads, UpdatePolicyWrite(t)
  PROVE  ChunkInv'
<1>0. /\ FrontOK /\ WholeOK /\ PolicyTypeOK /\ MutexOK /\ CollectorOK /\ SlotsNamed
      /\ ZonesHeld /\ ZonesFound /\ FrontTypeOK(EvictPcs) /\ ControlOK
  BY DEF ChunkInv, FrontOK, PolicyInv
<1> DEFINE pair == location[t]
<1> DEFINE z == pair.zone
<1> DEFINE full == pair.chunk_offset = MaxZoneChunks - 1
<1>1. /\ pc[t] = "update_write" /\ pc' = [pc EXCEPT ![t] = "insert"]
      /\ policy_mutex = NULL /\ UpdateWrite(pair)
      /\ UNCHANGED <<policy_mutex, nr_evict, gc>>
      /\ UNCHANGED <<zsmVars, mapVars, locals, disk, ratio, progress>>
  BY DEF UpdatePolicyWrite, Goto, zn_policy_chunk_update
<1>2. /\ pair \in Slots /\ z \in Zones /\ pair.chunk_offset \in Chunks /\ pair \in zn_pair
      /\ \A y \in Zones : pair = Pair(y, MaxZoneChunks - 1) <=> y = z /\ full
  <2>1. pair \in zn_pair
    BY <1>0, <1>1 DEF ControlOK, HasLocation
  <2> QED BY <2>1, NoPairFacts DEF Slots, Pair, zn_pair
<1>3. FrontOK' /\ WholeOK' /\ Written' = Written
  BY <1>0, <1>1, QuietPolicy, Zenon DEF Moves
<1>4. SlotSet(zone_pool, zone_pool', pair, [pair |-> pair, in_use |-> TRUE],
              Inc(zone_pool[z].chunks_in_use), zone_pool[z].has_entry \/ full)
  <2>1. [pair |-> pair, in_use |-> TRUE] \in SlotType
    BY <1>2 DEF SlotType
  <2> QED BY <1>0, <1>1, <1>2, <2>1, SlotWritten, Zenon DEF UpdateWrite, PolicyTypeOK
<1>5. /\ lru_queue' \in Seq(Nodes)
      /\ \A i \in DOMAIN lru_queue' :
            lru_queue'[i].slot = pair \/ \E j \in DOMAIN lru_queue : lru_queue'[i].slot = lru_queue[j].slot
  <2> DEFINE q == Unlink(lru_queue, pair)
  <2>1. lru_queue' = Append(q, Node(pair, TRUE)) /\ Node(pair, TRUE) \in Nodes
    BY <1>1, <1>2 DEF UpdateWrite, Nodes, Node
  <2>2. /\ q \in Seq(Nodes) /\ Len(q) = Len(lru_queue)
        /\ \A i \in 1 .. Len(lru_queue) : q[i].slot = lru_queue[i].slot
    BY <1>0, <1>2, UnlinkFacts DEF PolicyTypeOK
  <2>3. DOMAIN lru_queue = 1 .. Len(lru_queue)
    BY <1>0 DEF PolicyTypeOK
  <2>4. Node(pair, TRUE).slot = pair
    BY DEF Node
  <2> HIDE DEF q
  <2>5. /\ lru_queue' \in Seq(Nodes) /\ DOMAIN lru_queue' = 1 .. Len(q) + 1
        /\ lru_queue'[Len(q) + 1] = Node(pair, TRUE) /\ \A i \in 1 .. Len(q) : lru_queue'[i] = q[i]
    <3>1. PICK e \in Nodes : e = Node(pair, TRUE)
      BY <2>1
    <3>2. lru_queue' = Append(q, e)
      BY <2>1, <3>1
    <3>3. /\ Append(q, e) \in Seq(Nodes) /\ DOMAIN Append(q, e) = 1 .. Len(q) + 1
          /\ \A i \in 1 .. Len(q) : Append(q, e)[i] = q[i]
          /\ Append(q, e)[Len(q) + 1] = e
      BY <2>2, AppendFacts
    <3> QED BY <3>1, <3>2, <3>3
  <2>6. ASSUME NEW i \in DOMAIN lru_queue'
        PROVE  lru_queue'[i].slot = pair \/ \E j \in DOMAIN lru_queue : lru_queue'[i].slot = lru_queue[j].slot
    <3>1. CASE i = Len(q) + 1
      BY <2>4, <2>5, <3>1
    <3>2. CASE i # Len(q) + 1
      <4>1. i \in 1 .. Len(q)
        BY <2>2, <2>5, <3>2
      <4> QED BY <2>2, <2>3, <2>5, <4>1
    <3> QED BY <3>1, <3>2
  <2> QED BY <2>5, <2>6, SMTT(30)
<1>6. SlotsNamed'
  <2>1. PICK slot : slot = [pair |-> pair, in_use |-> TRUE]
    OBVIOUS
  <2>2. slot.pair \in zn_pair
    BY <1>2, <2>1
  <2>3. \A i \in DOMAIN lru_queue' :
           \/ lru_queue'[i].slot = pair /\ slot.pair \in zn_pair
           \/ \E j \in DOMAIN lru_queue : lru_queue'[i].slot = lru_queue[j].slot
    BY <1>5, <2>2
  <2>6. PICK n, entry : SlotSet(zone_pool, zone_pool', pair, slot, n, entry)
    BY <1>4, <2>1
  <2>4. /\ lru_queue \in Seq(Nodes) /\ lru_queue' \in Seq(Nodes) /\ Named(zone_pool, lru_queue)
    BY <1>0, <1>4, <1>5, <2>1 DEF SlotsNamed, PolicyTypeOK
  <2>5. Named(zone_pool', lru_queue')
    BY <1>2, <2>2, <2>3, <2>4, <2>6, NamesKept
  <2> QED BY <2>5 DEF SlotsNamed
<1>7. /\ Heap!Queued' = Heap!Queued \cup (IF full THEN {z} ELSE {})
      /\ invalid_pqueue' \in [Heap!Queued' -> Counts]
  <2>1. zone_pool'[z].chunks_in_use \in Counts
    BY <1>2, <1>4 DEF SlotSet, PoolType
  <2>2. CASE full
    <3>1. invalid_pqueue' = [x \in Heap!Queued \cup {z} |->
                               IF x = z THEN zone_pool'[z].chunks_in_use ELSE invalid_pqueue[x]]
      BY <1>1, <2>2 DEF UpdateWrite, Heap!Insert
    <3> QED BY <1>0, <2>1, <2>2, <3>1, SMTT(30) DEF Heap!Queued, PolicyTypeOK
  <2>3. CASE ~full
    BY <1>0, <1>1, <2>3 DEF UpdateWrite, Heap!Queued, PolicyTypeOK
  <2> QED BY <2>2, <2>3
<1>8. PolicyTypeOK'
  BY <1>0, <1>1, <1>2, <1>4, <1>5, <1>7 DEF PolicyTypeOK, SlotSet
<1>9. MutexOK' /\ CollectorOK'
  <2>1. gc.zone = -1 /\ \A u \in Threads : pc[u] \notin InPolicy
    BY <1>0, <1>1, MutexFree
  <2>2. \A u \in Threads : pc'[u] \notin InPolicy
    BY <1>0, <1>1, <2>1 DEF FrontTypeOK, InPolicy, Collecting, Relocating
  <2> QED BY <1>0, <1>1, <2>1, <2>2, MutexAssumption
          DEF MutexOK, CollectorOK, InPolicy, Collecting
<1>10. ZonesHeld' /\ ZonesFound'
  <2>1. gc.zone = -1 /\ gc'.zone = -1
    BY <1>0, <1>1, MutexFree
  <2>2. \A u \in Threads, y \in Zones : Pending(u, y)' <=> Pending(u, y) /\ u # t
    BY <1>0, <1>1 DEF Pending, FrontTypeOK, locals
  <2>3. \A y \in Zones : Pending(t, y) <=> y = z /\ full
    BY <1>1, <1>2 DEF Pending
  <2>4. ZonesHeld'
    <3>1. Heap!Queued' \subseteq Written'
      BY <1>0, <1>2, <1>3, <1>7, <2>3 DEF ZonesHeld
    <3>2. ASSUME NEW u \in Threads, NEW y \in Zones, Pending(u, y)'
          PROVE  y \in Written' \ Heap!Queued' /\ gc'.zone # y
      <4>1. Pending(u, y) /\ u # t
        BY <2>2, <3>2
      <4>2. ~(y = z /\ full)
        BY <1>0, <2>3, <4>1 DEF ZonesHeld
      <4> QED BY <1>0, <1>1, <1>3, <1>7, <4>1, <4>2 DEF ZonesHeld
    <3> QED BY <1>0, <2>1, <2>2, <3>1, <3>2 DEF ZonesHeld
  <2>5. ZonesFound'
    BY <1>0, <1>3, <1>7, <2>1, <2>2, <2>3, NumZonesAssumption DEF ZonesFound, Written, Zones
  <2> QED BY <2>4, <2>5
<1> QED BY <1>3, <1>6, <1>8, <1>9, <1>10 DEF ChunkInv, PolicyInv

\* The place of the node that leads from a slot, and the queue with that node at its tail.
Found(q, s) == SelectInSeq(q, LAMBDA n : n = Node(s, TRUE))
Moved(q, k) == Append(RemoveAt(q, k), q[k])

\* What zn_policy_chunk_update finds.
LEMMA SelectFacts ==
  ASSUME NEW q \in Seq(Nodes), NEW s, NEW k, k = Found(q, s)
  PROVE  /\ k \in 0 .. Len(q)
         /\ k # 0 => q[k] = Node(s, TRUE)
         /\ k = 0 => \A i \in 1 .. Len(q) : q[i] # Node(s, TRUE)
<1>0. PICK e : e = Node(s, TRUE)
  OBVIOUS
<1>1. PICK I : I = {i \in 1 .. Len(q) : q[i] = e}
  OBVIOUS
<1>2. k = IF I # {} THEN Min(I) ELSE 0
  BY <1>0, <1>1 DEF SelectInSeq, Found
<1>4. /\ k \in 0 .. Len(q)
      /\ k # 0 => q[k] = e
      /\ k = 0 => \A i \in 1 .. Len(q) : q[i] # e
  <2>1. CASE I # {}
    <3>1. I \in SUBSET Nat
      BY <1>1
    <3>2. Min(I) \in I
      BY <2>1, <3>1, MinFacts
    <3> QED BY <1>1, <1>2, <2>1, <3>2
  <2>2. CASE I = {}
    BY <1>1, <1>2, <2>2
  <2> QED BY <2>1, <2>2
<1> QED BY <1>0, <1>4

\* One more than the length.
LEMMA LastPlace ==
  ASSUME NEW n \in Nat, NEW m, m = n - 1, n # 0
  PROVE  /\ \A i \in 1 .. n : i = n \/ i \in 1 .. m
         /\ \A i \in 1 .. m : i # n /\ i \in 1 .. n /\ i \in 1 .. n - 1
         /\ n = m + 1 /\ n \in 1 .. n /\ m \in Nat
OBVIOUS

\* Taking an element out and putting it at the tail.
LEMMA MoveToTail ==
  ASSUME NEW S, NEW q \in Seq(S), NEW k \in 1 .. Len(q)
  PROVE  LET r == Moved(q, k) IN
         /\ r \in Seq(S) /\ Len(r) = Len(q) /\ Len(q) \in Nat
         /\ DOMAIN r = 1 .. Len(q) /\ DOMAIN q = 1 .. Len(q)
         /\ r[Len(q)] = q[k]
         /\ \A i \in 1 .. Len(q) - 1 : r[i] = IF i < k THEN q[i] ELSE q[i + 1]
<1>1. PICK n \in Nat : n = Len(q) /\ n # 0 /\ DOMAIN q = 1 .. n
  OBVIOUS
<1>2. PICK e \in S : e = q[k]
  OBVIOUS
<1>3. PICK w \in Seq(S) : /\ w = RemoveAt(q, k) /\ Len(w) = n - 1
                          /\ \A i \in 1 .. n - 1 : w[i] = IF i < k THEN q[i] ELSE q[i + 1]
  BY <1>1, Without
<1>4. n = Len(w) + 1 /\ \A i \in 1 .. n - 1 : i \in 1 .. Len(w)
  BY <1>1, <1>3, LastPlace
<1>5. /\ Append(w, e) \in Seq(S) /\ Len(Append(w, e)) = Len(w) + 1
      /\ DOMAIN Append(w, e) = 1 .. Len(w) + 1
      /\ \A i \in 1 .. Len(w) : Append(w, e)[i] = w[i]
      /\ Append(w, e)[Len(w) + 1] = e
  BY AppendFacts
<1>6. Moved(q, k) = Append(w, e)
  BY <1>2, <1>3 DEF Moved
<1> QED BY <1>1, <1>2, <1>3, <1>4, <1>5, <1>6

\* That makes no new slot.
LEMMA MoveSlots ==
  ASSUME NEW q \in Seq(Nodes), NEW k \in 1 .. Len(q), NEW r, r = Moved(q, k)
  PROVE  r \in Seq(Nodes) /\ \A i \in DOMAIN r : \E j \in DOMAIN q : r[i].slot = q[j].slot
<1>1. PICK n \in Nat : n = Len(q)
  OBVIOUS
<1>2. /\ r \in Seq(Nodes) /\ DOMAIN r = 1 .. n /\ DOMAIN q = 1 .. n
      /\ r[n] = q[k]
      /\ \A i \in 1 .. n - 1 : r[i] = IF i < k THEN q[i] ELSE q[i + 1]
  BY <1>1, MoveToTail
<1>3. \A i \in 1 .. n : i = n \/ (i \in 1 .. n - 1 /\ i + 1 \in 1 .. n)
  OBVIOUS
<1>4. k \in 1 .. n
  BY <1>1
<1>5. \A i \in 1 .. n : \E j \in 1 .. n : r[i] = q[j]
  BY <1>2, <1>3, <1>4
<1>6. r \in Seq(Nodes) /\ \A i \in DOMAIN r : \E j \in DOMAIN q : r[i] = q[j]
  BY <1>2, <1>5, ZenonT(60)
<1>7. \A i \in DOMAIN r : \E j \in DOMAIN q : r[i].slot = q[j].slot
  BY ONLY <1>6
<1> QED BY <1>6, <1>7

\* A queue with no other slots keeps the slots' names.
LEMMA NamedSame ==
  ASSUME NEW P, NEW q, NEW r, Named(P, q),
         \A i \in DOMAIN r : \E j \in DOMAIN q : r[i].slot = q[j].slot
  PROVE  Named(P, r)
BY DEF Named

\* The mutex when one thread moves.
LEMMA MutexMove ==
  ASSUME FrontTypeOK(EvictPcs), MutexOK, NEW t \in Threads, NEW to, pc' = [pc EXCEPT ![t] = to],
         \/ /\ policy_mutex' = policy_mutex
            /\ pc[t] \in InPolicy /\ to \in InPolicy \cup {"crashed"}
         \/ /\ policy_mutex' = policy_mutex
            /\ pc[t] \notin InPolicy \cup {"crashed"} /\ to \notin InPolicy
         \/ policy_mutex = NULL /\ policy_mutex' = t /\ to \in InPolicy
         \/ pc[t] \in InPolicy /\ policy_mutex' = NULL /\ to \notin InPolicy
  PROVE  MutexOK'
<1>1. "crashed" \notin InPolicy
  BY DEF InPolicy, Collecting, Relocating
<1>2. \A u \in Threads : pc'[u] = IF u = t THEN to ELSE pc[u]
  BY DEF FrontTypeOK
<1> QED BY <1>1, <1>2, MutexAssumption DEF MutexOK

\* A chunk was read.
LEMMA UpdateReadChunk ==
  ASSUME ChunkInv, NEW t \in Threads, UpdatePolicyRead(t)
  PROVE  ChunkInv'
<1>0. /\ FrontOK /\ WholeOK /\ PolicyTypeOK /\ MutexOK /\ CollectorOK /\ SlotsNamed
      /\ ZonesHeld /\ ZonesFound /\ FrontTypeOK(EvictPcs)
  BY DEF ChunkInv, FrontOK, PolicyInv
<1>1. /\ pc[t] = "update_read" /\ pc' = [pc EXCEPT ![t] = "release"]
      /\ policy_mutex = NULL /\ UpdateRead(result[t].location)
      /\ UNCHANGED <<zone_pool, invalid_pqueue, policy_mutex, nr_evict, gc>>
      /\ UNCHANGED <<zsmVars, mapVars, locals, disk, ratio, progress>>
  BY DEF UpdatePolicyRead, Goto, zn_policy_chunk_update, UpdateRead
<1>2. FrontOK' /\ WholeOK' /\ Written' = Written
  BY <1>0, <1>1, QuietPolicy DEF Moves
<1>3. /\ lru_queue' \in Seq(Nodes)
      /\ \A i \in DOMAIN lru_queue' : \E j \in DOMAIN lru_queue : lru_queue'[i].slot = lru_queue[j].slot
  <2>1. lru_queue \in Seq(Nodes)
    BY <1>0 DEF PolicyTypeOK
  <2>2. PICK k : /\ k = Found(lru_queue, result[t].location)
                 /\ lru_queue' = IF k = 0 THEN lru_queue ELSE Moved(lru_queue, k)
    BY <1>1 DEF UpdateRead, Found, Moved
  <2>3. k \in 0 .. Len(lru_queue)
    BY <2>1, <2>2, SelectFacts
  <2>4. CASE k = 0
    BY <2>1, <2>2, <2>4
  <2>5. CASE k # 0
    <3>1. k \in 1 .. Len(lru_queue) /\ lru_queue' = Moved(lru_queue, k)
      BY <2>2, <2>3, <2>5
    <3> QED BY <2>1, <3>1, MoveSlots
  <2> QED BY <2>4, <2>5
<1>4. SlotsNamed'
  <2>1. Named(zone_pool, lru_queue')
    BY <1>0, <1>3, NamedSame DEF SlotsNamed
  <2> QED BY <1>1, <2>1 DEF SlotsNamed
<1>5. Heap!Queued' = Heap!Queued
  BY <1>1 DEF Heap!Queued
<1>6. PolicyTypeOK'
  BY <1>0, <1>1, <1>3, <1>5 DEF PolicyTypeOK
<1>7. MutexOK'
  BY <1>0, <1>1, MutexMove DEF InPolicy, Collecting, Relocating
<1>8. CollectorOK'
  <2>1. \A u \in Threads : pc'[u] \in InPolicy => pc'[u] = pc[u]
    BY <1>0, <1>1 DEF FrontTypeOK, InPolicy, Collecting, Relocating
  <2> QED BY <1>0, <1>1, <2>1 DEF CollectorOK, InPolicy, Collecting, Relocating, Slot
<1>9. ZonesHeld' /\ ZonesFound'
  <2>1. \A u \in Threads, z \in Zones : Pending(u, z)' <=> Pending(u, z)
    BY <1>0, <1>1, PendingSame DEF locals
  <2> QED BY <1>0, <1>1, <1>2, <1>5, <2>1, ZonesSame
<1> QED BY <1>2, <1>4, <1>6, <1>7, <1>8, <1>9 DEF ChunkInv, PolicyInv
------------------------------------------------------------------------------
(***************************************************************************)
(* zn_policy_chunk_evict.                                                  *)
(***************************************************************************)
\* A thread that leaves the policy alone, because it is refused or because it crashes.
LEMMA StaysOut ==
  ASSUME ChunkInv, NEW t \in Threads, NEW to, Moves(t, to), pc' = [pc EXCEPT ![t] = to],
         to \notin InPolicy,
         (pc[t] \in InPolicy /\ to = "crashed") \/ pc[t] = "evict",
         UNCHANGED <<zsmVars, mapVars, locals, disk, ratio, progress, policyVars>>
  PROVE  ChunkInv'
<1>0. /\ FrontOK /\ WholeOK /\ PolicyTypeOK /\ MutexOK /\ CollectorOK /\ SlotsNamed
      /\ ZonesHeld /\ ZonesFound /\ FrontTypeOK(EvictPcs)
  BY DEF ChunkInv, FrontOK, PolicyInv
<1>1. FrontOK' /\ WholeOK' /\ Written' = Written
  BY <1>0, QuietPolicy DEF policyVars
<1>2. UNCHANGED <<lru_queue, zone_pool, invalid_pqueue, policy_mutex, nr_evict, gc>>
      /\ Heap!Queued' = Heap!Queued
  BY DEF policyVars, Heap!Queued
<1>3. PolicyTypeOK' /\ SlotsNamed'
  BY <1>0, <1>2 DEF PolicyTypeOK, SlotsNamed
<1>4. MutexOK'
  <2>1. "evict" \notin InPolicy \cup {"crashed"}
    BY DEF InPolicy, Collecting, Relocating
  <2> QED BY <1>0, <1>2, <2>1, MutexMove
<1>5. CollectorOK'
  <2>1. \A u \in Threads : pc'[u] \in InPolicy => pc'[u] = pc[u]
    BY <1>0 DEF FrontTypeOK
  <2> QED BY <1>0, <1>2, <2>1 DEF CollectorOK, InPolicy, Collecting, Relocating, Slot
<1>6. ZonesHeld' /\ ZonesFound'
  <2>1. pc[t] # "update_write" /\ to # "update_write"
    BY DEF Moves, EvictPcs, AfterEvict, InPolicy, Collecting, Relocating
  <2>2. \A u \in Threads, z \in Zones : Pending(u, z)' <=> Pending(u, z)
    BY <1>0, <2>1, PendingSame DEF locals
  <2> QED BY <1>0, <1>1, <1>2, <2>2, ZonesSame
<1> QED BY <1>1, <1>3, <1>4, <1>5, <1>6 DEF ChunkInv, PolicyInv

\* The mutex is taken, or enough chunks are free.
LEMMA EvictRefusedChunk ==
  ASSUME ChunkInv, NEW t \in Threads, EvictRefused(t)
  PROVE  ChunkInv'
<1>1. /\ pc[t] = "evict" /\ pc' = [pc EXCEPT ![t] = AfterEvict(t)]
      /\ UNCHANGED <<zsmVars, mapVars, locals, disk, ratio, progress, policyVars>>
  BY DEF EvictRefused, ReturnFromEvict
<1>2. AfterEvict(t) \notin InPolicy
  BY DEF AfterEvict, InPolicy, Collecting, Relocating
<1>3. Moves(t, AfterEvict(t))
  BY <1>1 DEF Moves, EvictPcs
<1> QED BY <1>1, <1>2, <1>3, StaysOut

\* A crash in the policy's code.
LEMMA CrashChunk ==
  ASSUME ChunkInv, NEW t \in Threads, pc[t] \in InPolicy, Crash(t)
  PROVE  ChunkInv'
<1>1. /\ pc' = [pc EXCEPT ![t] = "crashed"]
      /\ UNCHANGED <<zsmVars, mapVars, locals, disk, ratio, progress, policyVars>>
  BY DEF Crash
<1>2. Moves(t, "crashed") /\ "crashed" \notin InPolicy
  BY DEF Moves, EvictPcs, InPolicy, Collecting, Relocating
<1> QED BY <1>1, <1>2, StaysOut

\* A thread that moves in the policy's code, and changes nothing outside of it.
LEMMA MovesInside ==
  ASSUME ChunkInv, NEW t \in Threads, NEW to, pc[t] \in InPolicy \cup {"evict"},
         to \in InPolicy \/ to = AfterEvict(t), pc' = [pc EXCEPT ![t] = to], gc'.moved = gc.moved,
         UNCHANGED <<zsmVars, mapVars, locals, disk, ratio, progress>>,
         UNCHANGED <<lru_queue, zone_pool>>
  PROVE  /\ FrontOK' /\ WholeOK' /\ Written' = Written /\ SlotsNamed'
         /\ \A u \in Threads, z \in Zones : Pending(u, z)' <=> Pending(u, z)
         /\ \A u \in Threads : pc'[u] = IF u = t THEN to ELSE pc[u]
<1>0. FrontOK /\ WholeOK /\ SlotsNamed /\ FrontTypeOK(EvictPcs)
  BY DEF ChunkInv, FrontOK, PolicyInv
<1>1. Moves(t, to) /\ pc[t] # "update_write" /\ to # "update_write"
  BY DEF Moves, EvictPcs, InPolicy, Collecting, Relocating, AfterEvict
<1>2. FrontOK' /\ WholeOK' /\ Written' = Written
  BY <1>0, <1>1, QuietPolicy
<1>3. \A u \in Threads, z \in Zones : Pending(u, z)' <=> Pending(u, z)
  BY <1>0, <1>1, PendingSame DEF locals
<1>4. SlotsNamed'
  BY <1>0 DEF SlotsNamed
<1>5. \A u \in Threads : pc'[u] = IF u = t THEN to ELSE pc[u]
  BY <1>0 DEF FrontTypeOK
<1> QED BY <1>2, <1>3, <1>4, <1>5

\* The mutex is free, and there is something to evict.
LEMMA EvictStartChunk ==
  ASSUME ChunkInv, NEW t \in Threads, EvictStart(t)
  PROVE  ChunkInv'
<1>0. /\ PolicyTypeOK /\ MutexOK /\ CollectorOK /\ ZonesHeld /\ ZonesFound /\ FrontTypeOK(EvictPcs)
  BY DEF ChunkInv, FrontOK, PolicyInv
<1>1. /\ pc[t] = "evict" /\ pc' = [pc EXCEPT ![t] = "ch_evict"]
      /\ policy_mutex = NULL /\ policy_mutex' = t
      /\ nr_evict' = (EVICT_LOW_THRESH_CHUNKS - FreeChunks) % UintMod
      /\ UNCHANGED <<zsmVars, mapVars, locals, disk, ratio, progress>>
      /\ UNCHANGED <<lru_queue, zone_pool, invalid_pqueue, gc>>
  BY DEF EvictStart, Goto
<1>2. /\ FrontOK' /\ WholeOK' /\ Written' = Written /\ SlotsNamed'
      /\ \A u \in Threads, z \in Zones : Pending(u, z)' <=> Pending(u, z)
      /\ \A u \in Threads : pc'[u] = IF u = t THEN "ch_evict" ELSE pc[u]
  BY <1>1, MovesInside DEF InPolicy
<1>3. PolicyTypeOK'
  <2>1. nr_evict' \in Counts
    <3>1. FreeChunks \in Int
      <4>1. total_chunks \in Int /\ Len(lru_queue) \in Int
        BY <1>0, NumZonesAssumption, MaxZoneChunksAssumption DEF total_chunks, PolicyTypeOK
      <4> QED BY <4>1, Modulus DEF FreeChunks
    <3> QED BY <1>1, <3>1, Modulus, ChunkThresholdAssumption DEF Counts
  <2>2. Heap!Queued' = Heap!Queued
    BY <1>1 DEF Heap!Queued
  <2> QED BY <1>0, <1>1, <2>1, <2>2 DEF PolicyTypeOK
<1>4. MutexOK'
  BY <1>0, <1>1, MutexMove DEF InPolicy
<1>5. CollectorOK'
  <2>1. gc.zone = -1 /\ \A u \in Threads : pc[u] \notin InPolicy
    BY <1>0, <1>1, MutexFree
  <2> QED BY <1>0, <1>1, <1>2, <2>1, MutexAssumption DEF CollectorOK, InPolicy, Collecting, Relocating
<1>6. ZonesHeld' /\ ZonesFound'
  <2>1. Heap!Queued' = Heap!Queued
    BY <1>1 DEF Heap!Queued
  <2> QED BY <1>0, <1>1, <1>2, <2>1, ZonesSame
<1> QED BY <1>2, <1>3, <1>4, <1>5, <1>6 DEF ChunkInv, PolicyInv

\* zn_cachemap_clear_chunk only empties entries.
LEMMA ClearChunkMap ==
  ASSUME mapTypeOK, NEW pair \in zn_pair, zn_cachemap_clear_chunk(pair)
  PROVE  /\ mapTypeOK' /\ UNCHANGED waiting
         /\ \A id \in Ids : zone_map'[id].type \in {zone_map[id].type, "EMPTY"}
<1>0. PICK id \in Ids : id = IdAt(pair)
  BY DEF zn_cachemap_clear_chunk, HasEntry
<1>1. PICK z \in Zones, c \in Chunks : z = pair.zone /\ c = pair.chunk_offset
  BY NoPairFacts
<1>2. /\ zone_map' = [zone_map EXCEPT ![id].type = "EMPTY"]
      /\ data_map' = [data_map EXCEPT ![z][c] = NULL]
      /\ UNCHANGED <<active_readers, waiting>>
  BY <1>0, <1>1 DEF zn_cachemap_clear_chunk
<1>3. zone_map \in [Ids -> zone_map_result]
  BY DEF mapTypeOK
<1>4. [zone_map[id] EXCEPT !.type = "EMPTY"] \in zone_map_result
  BY <1>3, EntryUpdate
<1>5. /\ zone_map' \in [Ids -> zone_map_result]
      /\ \A x \in Ids : zone_map'[x] = IF x = id THEN [zone_map[id] EXCEPT !.type = "EMPTY"] ELSE zone_map[x]
  BY <1>2, <1>3, <1>4
<1>6. [zone_map[id] EXCEPT !.type = "EMPTY"].type = "EMPTY"
  BY <1>3 DEF zone_map_result
<1>7. data_map' \in [Zones -> [Chunks -> Ids \cup {NULL}]]
  BY <1>2 DEF mapTypeOK
<1> QED BY <1>2, <1>5, <1>6, <1>7 DEF mapTypeOK

\* A step of the policy that changes neither the zones nor the disk.
LEMMA MapPolicy ==
  ASSUME FrontOK, WholeOK, NEW t \in Threads, NEW to, Moves(t, to), pc[t] # "update_write",
         pc' = [pc EXCEPT ![t] = to], gc'.moved = gc.moved,
         mapTypeOK', \A id \in Ids : zone_map'[id].type \in {zone_map[id].type, "EMPTY"},
         invalid' \in [Zones -> Seq(Chunks)],
         UNCHANGED <<zone_state, chunk_offset, active, free, writes_occurring, grant>>,
         UNCHANGED <<waiting, locals, disk, ratio, progress>>
  PROVE  /\ FrontOK' /\ WholeOK' /\ Written' = Written /\ Committed' = Committed
         /\ \A u \in Threads, z \in Zones : Pending(u, z)' <=> Pending(u, z)
         /\ \A u \in Threads : pc'[u] = IF u = t THEN to ELSE pc[u]
<1>0. FrontTypeOK(EvictPcs) /\ ManagerOK
  BY DEF FrontOK
<1>1. disk' \in [Zones -> [Chunks -> Ids \cup {Blank, Torn}]]
  BY <1>0 DEF FrontTypeOK
<1>2. /\ FrontTypeOK(EvictPcs)' /\ ControlOK' /\ CompletedOK'
      /\ Holders' = Holders /\ held' = held
  BY <1>1, PolicyFront
<1>3. FillersPresent'
  BY PolicyFillers DEF locals
<1>4. ManagerOK' /\ Written' = Written /\ Committed' = Committed
  BY <1>0, <1>2, ManagerKept DEF locals
<1>5. to # "return_zone" /\ to # "update_write"
  BY DEF Moves, AfterEvict, EvictPcs
<1>6. WholeOK'
  <2>1. UNCHANGED location
    BY DEF locals
  <2> QED BY <1>0, <1>4, <1>5, <2>1, WholeKept DEF WholeOK
<1>7. \A u \in Threads, z \in Zones : Pending(u, z)' <=> Pending(u, z)
  BY <1>0, <1>5, PendingSame DEF locals
<1>8. \A u \in Threads : pc'[u] = IF u = t THEN to ELSE pc[u]
  BY <1>0 DEF FrontTypeOK
<1> QED BY <1>2, <1>3, <1>4, <1>6, <1>7, <1>8 DEF FrontOK

\* The queue after an eviction: its head is gone, and so are the links from its slot.
LEMMA PopFacts ==
  ASSUME NEW q \in Seq(Nodes), q # <<>>, NEW r, r = Unlink(Tail(q), Head(q).slot)
  PROVE  /\ Head(q) = q[1] /\ Head(q).slot \in Slots /\ 1 \in DOMAIN q
         /\ r \in Seq(Nodes) /\ Len(q) \in Nat \ {0} /\ Len(r) = Len(q) - 1
         /\ DOMAIN q = 1 .. Len(q) /\ DOMAIN r = 1 .. Len(q) - 1
         /\ \A i \in 1 .. Len(q) - 1 : r[i].slot = q[i + 1].slot
         /\ \A i \in 1 .. Len(q) - 1 : q[i + 1].slot # Head(q).slot => r[i] = q[i + 1]
<1>1. /\ Len(q) \in Nat \ {0} /\ Head(q) = q[1] /\ Head(q) \in Nodes
      /\ Tail(q) \in Seq(Nodes) /\ Len(Tail(q)) = Len(q) - 1
      /\ \A i \in 1 .. Len(q) - 1 : Tail(q)[i] = q[i + 1]
  BY TailFacts
<1>2. PICK w \in Seq(Nodes) : w = Tail(q)
  BY <1>1
<1>3. PICK s \in Slots : s = Head(q).slot
  BY <1>1 DEF Nodes
<1>4. PICK n \in Nat : n = Len(q) /\ n # 0
  BY <1>1
<1>5. Len(w) = n - 1 /\ \A i \in 1 .. n - 1 : w[i] = q[i + 1]
  BY <1>1, <1>2, <1>4
<1>6. /\ r \in Seq(Nodes) /\ Len(r) = Len(w)
      /\ \A i \in 1 .. Len(w) : /\ r[i] = IF w[i].slot = s THEN Node(s, FALSE) ELSE w[i]
                                /\ r[i].slot = w[i].slot
  <2>1. r = Unlink(w, s)
    BY <1>2, <1>3
  <2> QED BY ONLY <2>1, w \in Seq(Nodes), s \in Slots, UnlinkFacts
<1>7. DOMAIN q = 1 .. n /\ DOMAIN r = 1 .. n - 1 /\ 1 \in 1 .. n
  BY <1>4, <1>5, <1>6, SMTT(30)
<1> QED BY <1>1, <1>3, <1>4, <1>5, <1>6, <1>7, Zenon

\* What an iteration of the loop does to the policy.
LEMMA EvictFacts ==
  ASSUME ChunkInv, NEW t \in Threads, EvictChunk(t)
  PROVE  /\ pc[t] = "ch_evict" /\ pc' = pc /\ lru_queue # <<>> /\ LruVictim \in zn_pair
         /\ LruVictim = At(zone_pool, Head(lru_queue).slot).pair
         /\ SlotSet(zone_pool, zone_pool', LruVictim,
                    [pair |-> At(zone_pool, LruVictim).pair, in_use |-> FALSE],
                    Dec(zone_pool[LruVictim.zone].chunks_in_use), zone_pool[LruVictim.zone].has_entry)
         /\ lru_queue' = Unlink(Tail(lru_queue), Head(lru_queue).slot)
         /\ Heap!Queued' = Heap!Queued /\ invalid_pqueue' \in [Heap!Queued -> Counts]
         /\ \A z \in Heap!Queued :
              invalid_pqueue'[z] = IF z = LruVictim.zone THEN zone_pool'[z].chunks_in_use ELSE invalid_pqueue[z]
<1>0. PolicyTypeOK /\ SlotsNamed
  BY DEF ChunkInv, PolicyInv
<1>1. /\ pc[t] = "ch_evict" /\ pc' = pc /\ lru_queue # <<>> /\ Invalidate(LruVictim)
      /\ lru_queue' = Unlink(Tail(lru_queue), Head(lru_queue).slot)
  BY DEF EvictChunk, cacheVars
<1>2. LruVictim = At(zone_pool, Head(lru_queue).slot).pair
  BY DEF LruVictim, At
<1>3. LruVictim \in zn_pair
  <2>1. lru_queue \in Seq(Nodes)
    BY <1>0 DEF PolicyTypeOK
  <2>2. Head(lru_queue) = lru_queue[1] /\ 1 \in DOMAIN lru_queue
    BY <1>1, <2>1, PopFacts
  <2> QED BY <1>0, <1>2, <2>2 DEF SlotsNamed, Named
<1>4. PICK v \in Slots : v = LruVictim
  BY <1>3, SMTT(30) DEF Slots
<1>5. SlotSet(zone_pool, zone_pool', v, [pair |-> At(zone_pool, v).pair, in_use |-> FALSE],
              Dec(zone_pool[v.zone].chunks_in_use), zone_pool[v.zone].has_entry)
  <2>1. zone_pool' = [zone_pool EXCEPT ![v.zone].chunks[v.chunk_offset].in_use = FALSE,
                                       ![v.zone].chunks_in_use = Dec(@)]
    BY <1>1, <1>4 DEF Invalidate
  <2>2. zone_pool \in PoolType
    BY <1>0 DEF PolicyTypeOK
  <2> QED BY <2>1, <2>2, SlotInvalidated DEF At
<1>6. v.zone \in Zones /\ zone_pool'[v.zone].chunks_in_use \in Counts
  BY <1>5, NoPairFacts DEF SlotSet, PoolType, Slots
<1>7. /\ Heap!Queued' = Heap!Queued /\ invalid_pqueue' \in [Heap!Queued -> Counts]
      /\ \A z \in Heap!Queued :
           invalid_pqueue'[z] = IF z = v.zone THEN zone_pool'[z].chunks_in_use ELSE invalid_pqueue[z]
  <2>1. invalid_pqueue \in [Heap!Queued -> Counts]
    BY <1>0 DEF PolicyTypeOK
  <2>2. CASE v.zone \in Heap!Queued
    <3>1. invalid_pqueue' = [invalid_pqueue EXCEPT ![v.zone] = zone_pool'[v.zone].chunks_in_use]
      BY <1>1, <1>4, <2>2 DEF Invalidate, Heap!Update
    <3>2. DOMAIN invalid_pqueue' = Heap!Queued
      BY <2>1, <3>1
    <3> QED BY <1>6, <2>1, <2>2, <3>1, <3>2 DEF Heap!Queued
  <2>3. CASE v.zone \notin Heap!Queued
    <3>1. UNCHANGED invalid_pqueue
      BY <1>1, <1>4, <2>3 DEF Invalidate
    <3> QED BY <2>1, <2>3, <3>1 DEF Heap!Queued
  <2> QED BY <2>2, <2>3
<1> QED BY <1>1, <1>2, <1>3, <1>4, <1>5, <1>7, Zenon

\* A chunk is evicted.
LEMMA EvictChunkChunk ==
  ASSUME ChunkInv, NEW t \in Threads, EvictChunk(t)
  PROVE  ChunkInv'
<1>0. /\ FrontOK /\ WholeOK /\ PolicyTypeOK /\ MutexOK /\ CollectorOK /\ SlotsNamed
      /\ ZonesHeld /\ ZonesFound /\ FrontTypeOK(EvictPcs) /\ ZsmTypeOK /\ mapTypeOK
  BY DEF ChunkInv, FrontOK, PolicyInv, ManagerOK, FrontTypeOK
<1>1. /\ pc[t] = "ch_evict" /\ pc' = pc /\ nr_evict > 0 /\ nr_evict' = nr_evict - 1
      /\ zsm_mark_chunk_invalid(LruVictim) /\ zn_cachemap_clear_chunk(LruVictim)
      /\ UNCHANGED <<locals, disk, ratio, progress>> /\ UNCHANGED <<policy_mutex, gc>>
  BY DEF EvictChunk, cacheVars
<1>2. /\ lru_queue # <<>> /\ LruVictim \in zn_pair
      /\ lru_queue' = Unlink(Tail(lru_queue), Head(lru_queue).slot)
      /\ Heap!Queued' = Heap!Queued /\ invalid_pqueue' \in [Heap!Queued -> Counts]
  BY EvictFacts
<1>3. pc' = [pc EXCEPT ![t] = "ch_evict"] /\ Moves(t, "ch_evict")
  BY <1>0, <1>1 DEF FrontTypeOK, Moves, EvictPcs
<1>4. /\ mapTypeOK' /\ UNCHANGED waiting
      /\ \A id \in Ids : zone_map'[id].type \in {zone_map[id].type, "EMPTY"}
  BY <1>0, <1>1, <1>2, ClearChunkMap
<1>5. /\ invalid' \in [Zones -> Seq(Chunks)]
      /\ UNCHANGED <<zone_state, chunk_offset, active, free, writes_occurring, grant>>
  <2>1. PICK z \in Zones, c \in Chunks : z = LruVictim.zone /\ c = LruVictim.chunk_offset
    BY <1>2, NoPairFacts
  <2>2. invalid' = [invalid EXCEPT ![z] = Append(@, c)]
    BY <1>1, <2>1 DEF zsm_mark_chunk_invalid
  <2>3. Append(invalid[z], c) \in Seq(Chunks)
    BY <1>0 DEF ZsmTypeOK
  <2> QED BY <1>0, <1>1, <2>2, <2>3 DEF ZsmTypeOK, zsm_mark_chunk_invalid
<1>6. /\ FrontOK' /\ WholeOK' /\ Written' = Written
      /\ \A u \in Threads, z \in Zones : Pending(u, z)' <=> Pending(u, z)
  BY <1>0, <1>1, <1>3, <1>4, <1>5, MapPolicy
<1>7. lru_queue \in Seq(Nodes) /\ lru_queue' \in Seq(Nodes)
      /\ \A i \in DOMAIN lru_queue' : \E j \in DOMAIN lru_queue : lru_queue'[i].slot = lru_queue[j].slot
  <2>1. lru_queue \in Seq(Nodes)
    BY <1>0 DEF PolicyTypeOK
  <2>2. PICK n : n = Len(lru_queue)
    OBVIOUS
  <2>3. /\ lru_queue' \in Seq(Nodes) /\ n \in Nat \ {0}
        /\ DOMAIN lru_queue = 1 .. n /\ DOMAIN lru_queue' = 1 .. n - 1
        /\ \A i \in 1 .. n - 1 : lru_queue'[i].slot = lru_queue[i + 1].slot
    BY <1>2, <2>1, <2>2, PopFacts
  <2>4. \A i \in 1 .. n - 1 : i + 1 \in 1 .. n
    BY <2>3
  <2> QED BY <2>1, <2>3, <2>4
<1>8. SlotsNamed' /\ zone_pool' \in PoolType
  <2>1. PICK v \in Slots : v = LruVictim
    BY <1>2 DEF Slots
  <2>2. PICK slot : slot = [pair |-> At(zone_pool, v).pair, in_use |-> FALSE]
    OBVIOUS
  <2>3. PICK n, entry : SlotSet(zone_pool, zone_pool', v, slot, n, entry)
    BY <2>1, <2>2, EvictFacts
  <2>4. slot.pair = At(zone_pool, v).pair /\ ~slot.in_use
    BY <2>2
  <2>5. Named(zone_pool', lru_queue')
    BY <1>0, <1>7, <2>3, <2>4, NamesKept DEF SlotsNamed
  <2> QED BY <2>3, <2>5 DEF SlotsNamed, SlotSet
<1>9. PolicyTypeOK'
  <2>1. nr_evict' \in Counts
    BY <1>0, <1>1, Modulus DEF PolicyTypeOK, Counts
  <2> QED BY <1>0, <1>1, <1>2, <1>7, <1>8, <2>1 DEF PolicyTypeOK
<1>10. MutexOK'
  BY <1>0, <1>1 DEF MutexOK
<1>11. CollectorOK'
  <2>1. \A u \in Threads : pc[u] \notin Collecting
    BY <1>0, <1>1, OneInPolicy DEF InPolicy, Collecting, Relocating
  <2> QED BY <1>0, <1>1, <2>1 DEF CollectorOK, Collecting
<1>12. ZonesHeld' /\ ZonesFound'
  BY <1>0, <1>1, <1>2, <1>6, ZonesSame
<1> QED BY <1>6, <1>8, <1>9, <1>10, <1>11, <1>12 DEF ChunkInv, PolicyInv
------------------------------------------------------------------------------
(***************************************************************************)
(* zn_policy_chunk_gc.                                                     *)
(***************************************************************************)
TakeZone(g, z) == [g EXCEPT !.zone = z, !.chunk = 0]
TakePlace(g, c, p) == [g EXCEPT !.chunk = c, !.location = p, !.moved = TRUE]
Advance(g) == [g EXCEPT !.chunk = @ + 1, !.location = NoPair, !.data = NULL]

\* What the collector keeps, when it takes a zone, ...
LEMMA GcZone ==
  ASSUME NEW g \in GcType, NEW z \in Zones, NEW h, h = TakeZone(g, z)
  PROVE  h \in GcType /\ h.zone = z /\ h.chunk = 0 /\ h.moved = g.moved
<1>1. 0 \in 0 .. MaxZoneChunks
  BY MaxZoneChunksAssumption
<1> QED BY <1>1 DEF GcType, TakeZone

\* ... gets a place, ...
LEMMA GcPlace ==
  ASSUME NEW g \in GcType, NEW c \in Chunks, NEW p \in zn_pair,
         NEW h, h = TakePlace(g, c, p)
  PROVE  h \in GcType /\ h.zone = g.zone /\ h.chunk = c /\ h.location = p /\ h.moved
<1>1. c \in 0 .. MaxZoneChunks
  BY MaxZoneChunksAssumption DEF Chunks
<1> QED BY <1>1 DEF GcType, TakePlace

\* ... reads a chunk, ...
LEMMA GcData ==
  ASSUME NEW g \in GcType, NEW d \in Ids \cup {NULL, Blank, Torn}, NEW h, h = [g EXCEPT !.data = d]
  PROVE  h \in GcType /\ h.zone = g.zone /\ h.chunk = g.chunk /\ h.location = g.location /\ h.moved = g.moved
BY DEF GcType

\* ... and goes on to the next one.
LEMMA GcNext ==
  ASSUME NEW g \in GcType, g.chunk \in Chunks,
         NEW h, h = Advance(g)
  PROVE  h \in GcType /\ h.zone = g.zone /\ h.chunk = g.chunk + 1 /\ h.moved = g.moved
<1>1. g.chunk + 1 \in 0 .. MaxZoneChunks
  BY MaxZoneChunksAssumption DEF Chunks
<1> QED BY <1>1 DEF GcType, Advance

\* The collector has nothing to do, or nothing left to do.
LEMMA CollectDoneChunk ==
  ASSUME ChunkInv, NEW t \in Threads, CollectDone(t)
  PROVE  ChunkInv'
<1>0. /\ PolicyTypeOK /\ MutexOK /\ CollectorOK /\ ZonesHeld /\ ZonesFound /\ FrontTypeOK(EvictPcs)
  BY DEF ChunkInv, FrontOK, PolicyInv
<1>1. /\ pc[t] \in {"ch_evict", "gc_next"} /\ pc' = [pc EXCEPT ![t] = AfterEvict(t)]
      /\ policy_mutex' = NULL
      /\ UNCHANGED <<zsmVars, mapVars, locals, disk, ratio, progress>>
      /\ UNCHANGED <<lru_queue, zone_pool, invalid_pqueue, nr_evict, gc>>
  BY DEF CollectDone, AtCollect, ReturnFromEvict
<1>2. /\ FrontOK' /\ WholeOK' /\ Written' = Written /\ SlotsNamed'
      /\ \A u \in Threads, z \in Zones : Pending(u, z)' <=> Pending(u, z)
      /\ \A u \in Threads : pc'[u] = IF u = t THEN AfterEvict(t) ELSE pc[u]
  BY <1>1, MovesInside DEF InPolicy
<1>3. AfterEvict(t) \notin InPolicy /\ pc[t] \in InPolicy /\ Heap!Queued' = Heap!Queued
  BY <1>1 DEF AfterEvict, InPolicy, Collecting, Relocating, Heap!Queued
<1>4. PolicyTypeOK'
  BY <1>0, <1>1, <1>3 DEF PolicyTypeOK
<1>5. MutexOK'
  BY <1>0, <1>1, <1>3, MutexMove
<1>6. CollectorOK'
  <2>1. gc.zone = -1 /\ \A u \in Threads : pc'[u] \notin InPolicy
    BY <1>0, <1>1, <1>2, <1>3, OneInPolicy DEF CollectorOK
  <2> QED BY <1>0, <1>1, <2>1 DEF CollectorOK, InPolicy, Collecting
<1>7. ZonesHeld' /\ ZonesFound'
  BY <1>0, <1>1, <1>2, <1>3, ZonesSame
<1> QED BY <1>2, <1>4, <1>5, <1>6, <1>7 DEF ChunkInv, PolicyInv

\* The collector takes a zone out of the priority queue.
LEMMA CollectZoneChunk ==
  ASSUME ChunkInv, NEW t \in Threads, CollectZone(t)
  PROVE  ChunkInv'
<1>0. /\ PolicyTypeOK /\ MutexOK /\ CollectorOK /\ ZonesHeld /\ ZonesFound /\ FrontTypeOK(EvictPcs)
  BY DEF ChunkInv, FrontOK, PolicyInv
<1>1. /\ pc[t] \in {"ch_evict", "gc_next"} /\ pc' = [pc EXCEPT ![t] = "gc_chunk"]
      /\ UNCHANGED <<zsmVars, mapVars, locals, disk, ratio, progress>>
      /\ UNCHANGED <<lru_queue, zone_pool, policy_mutex, nr_evict>>
  BY DEF CollectZone, AtCollect
<1>2. PICK z \in Zones : /\ z \in Heap!Queued /\ gc' = [gc EXCEPT !.zone = z, !.chunk = 0]
                         /\ invalid_pqueue' = [x \in Heap!Queued \ {z} |-> invalid_pqueue[x]]
  BY DEF CollectZone, Heap!ExtractMin
<1>3. gc' \in GcType /\ gc'.zone = z /\ gc'.chunk = 0 /\ gc'.moved = gc.moved
  <2>1. gc \in GcType
    BY <1>0 DEF PolicyTypeOK
  <2>2. gc' = [gc EXCEPT !.zone = z, !.chunk = 0]
    BY <1>2
  <2>3. gc' = TakeZone(gc, z)
    BY <2>2 DEF TakeZone
  <2> QED BY <2>1, <2>3, GcZone
<1>4. /\ FrontOK' /\ WholeOK' /\ Written' = Written /\ SlotsNamed'
      /\ \A u \in Threads, y \in Zones : Pending(u, y)' <=> Pending(u, y)
      /\ \A u \in Threads : pc'[u] = IF u = t THEN "gc_chunk" ELSE pc[u]
  BY <1>1, <1>3, MovesInside DEF InPolicy, Collecting
<1>5. Heap!Queued' = Heap!Queued \ {z} /\ invalid_pqueue' \in [Heap!Queued' -> Counts]
  BY <1>0, <1>2 DEF PolicyTypeOK, Heap!Queued
<1>6. PolicyTypeOK'
  BY <1>0, <1>1, <1>3, <1>5 DEF PolicyTypeOK
<1>7. MutexOK' /\ policy_mutex = t /\ gc.zone = -1
  BY <1>0, <1>1, MutexMove, OneInPolicy DEF InPolicy, Collecting, CollectorOK
<1>8. CollectorOK'
  <2>1. \A u \in Threads : u # t => pc'[u] \notin InPolicy
    BY <1>0, <1>1, <1>4, OneInPolicy DEF InPolicy
  <2> QED BY <1>0, <1>1, <1>3, <1>4, <1>7, <2>1, MutexAssumption
          DEF CollectorOK, InPolicy, Collecting, Relocating
<1>9. ZonesHeld' /\ ZonesFound'
  <2>1. ZonesHeld'
    <3>1. z \in Written /\ \A u \in Threads : ~Pending(u, z)
      BY <1>0, <1>2 DEF ZonesHeld
    <3> QED BY <1>0, <1>3, <1>4, <1>5, <3>1 DEF ZonesHeld
  <2>2. ZonesFound'
    BY <1>0, <1>3, <1>4, <1>5, <1>7, NumZonesAssumption DEF ZonesFound, Written, Zones
  <2> QED BY <2>1, <2>2
<1> QED BY <1>4, <1>6, <1>7, <1>8, <1>9 DEF ChunkInv, PolicyInv

\* The collector reads a chunk it relocates.
LEMMA RelocateReadChunk ==
  ASSUME ChunkInv, NEW t \in Threads, RelocateRead(t)
  PROVE  ChunkInv'
<1>0. /\ PolicyTypeOK /\ MutexOK /\ CollectorOK /\ ZonesHeld /\ ZonesFound /\ FrontTypeOK(EvictPcs)
      /\ SlotsNamed
  BY DEF ChunkInv, FrontOK, PolicyInv
<1>1. /\ pc[t] = "gc_read" /\ pc' = [pc EXCEPT ![t] = "gc_write"]
      /\ UNCHANGED <<zsmVars, mapVars, locals, disk, ratio, progress>>
      /\ UNCHANGED <<lru_queue, zone_pool, invalid_pqueue, policy_mutex, nr_evict>>
  BY DEF RelocateRead, Goto
<1>2. PICK buffer \in zn_read_from_disk(OldChunk.pair) : gc' = [gc EXCEPT !.data = buffer]
  BY DEF RelocateRead
<1>3. /\ gc.zone \in Zones /\ gc.chunk \in Chunks /\ gc.moved /\ gc.location \in zn_pair
      /\ Slot(Pair(gc.zone, gc.chunk)).in_use
  BY <1>0, <1>1 DEF CollectorOK, Collecting, Relocating
<1>4. buffer \in Ids \cup {NULL, Blank, Torn}
  <2>1. PICK s \in Slots : s = Pair(gc.zone, gc.chunk)
    BY <1>3, NoPairFacts DEF Slots
  <2>2. OldChunk = At(zone_pool, s)
    BY <1>3, <2>1, NoPairFacts DEF OldChunk, At
  <2>3. At(zone_pool, s).in_use
    BY <1>3, <2>1 DEF Slot, At
  <2>4. OldChunk.pair \in zn_pair
    BY <1>0, <2>2, <2>3 DEF SlotsNamed, Named
  <2>5. disk \in [Zones -> [Chunks -> Ids \cup {Blank, Torn}]]
    BY <1>0 DEF FrontTypeOK
  <2> QED BY <1>2, <2>4, <2>5, NoPairFacts DEF zn_read_from_disk
<1>5. /\ gc' \in GcType
      /\ gc'.zone = gc.zone /\ gc'.chunk = gc.chunk /\ gc'.moved = gc.moved /\ gc'.location = gc.location
  BY <1>0, <1>2, <1>4, GcData, ZenonT(60) DEF PolicyTypeOK
<1>6. /\ FrontOK' /\ WholeOK' /\ Written' = Written /\ SlotsNamed'
      /\ \A u \in Threads, y \in Zones : Pending(u, y)' <=> Pending(u, y)
      /\ \A u \in Threads : pc'[u] = IF u = t THEN "gc_write" ELSE pc[u]
  BY <1>1, <1>5, MovesInside DEF InPolicy, Collecting, Relocating
<1>7. PolicyTypeOK' /\ Heap!Queued' = Heap!Queued
  BY <1>0, <1>1, <1>5 DEF PolicyTypeOK, Heap!Queued
<1>8. MutexOK' /\ policy_mutex = t
  BY <1>0, <1>1, MutexMove, OneInPolicy DEF InPolicy, Collecting, Relocating
<1>9. CollectorOK'
  <2>1. \A u \in Threads : u # t => pc'[u] \notin InPolicy
    BY <1>0, <1>1, <1>6, OneInPolicy DEF InPolicy, Collecting, Relocating
  <2>2. Slot(Pair(gc.zone, gc.chunk))'.in_use
    BY <1>1, <1>3, <1>5 DEF Slot, Pair
  <2> QED BY <1>0, <1>1, <1>3, <1>5, <1>6, <1>8, <2>1, <2>2, MutexAssumption
          DEF CollectorOK, InPolicy, Collecting, Relocating
<1>10. ZonesHeld' /\ ZonesFound'
  BY <1>0, <1>5, <1>6, <1>7, ZonesSame
<1> QED BY <1>6, <1>7, <1>8, <1>9, <1>10 DEF ChunkInv, PolicyInv

\* What the collector gets from zsm_get_active_zone: a zone nobody holds, at its next chunk.
LEMMA PoppedZone ==
  ASSUME ManagerOK, NEW t \in Threads, zsm_get_active_zone_success(t)
  PROVE  \E z \in Zones, c \in Chunks :
           /\ \/ zone_state[z] = "ACTIVE" /\ chunk_offset[z] = c
              \/ zone_state[z] = "FREE" /\ c = 0
           /\ zone_state' = [zone_state EXCEPT ![z] = "WRITE_OCCURING"]
           /\ chunk_offset' = [chunk_offset EXCEPT ![z] = c]
           /\ grant' = [grant EXCEPT ![t] = Pair(z, c)]
           /\ writes_occurring' = writes_occurring + 1 /\ UNCHANGED invalid
           /\ active' \in Seq(Zones) /\ free' \in Seq(Zones) /\ Distinct(active') /\ Distinct(free')
           /\ \A y \in Zones : InQueue(active', y) <=> InQueue(active, y) /\ y # z
           /\ \A y \in Zones : InQueue(free', y) => InQueue(free, y) /\ y # z
           /\ Len(active') + writes_occurring' <= MaxNrActiveZones
<1>0. ZsmTypeOK /\ QueuesMatchStates /\ ZoneHasRoom
      /\ Len(active) \in Nat /\ writes_occurring \in Nat /\ Len(active) + writes_occurring <= MaxNrActiveZones
  BY DEF ManagerOK, LentOK, NumActiveZones, ZsmTypeOK
<1>1. CASE TakeActiveZone(t)
  <2>1. PICK z : z = Head(active)
    OBVIOUS
  <2>2. /\ z \in Zones /\ active' \in Seq(Zones) /\ Distinct(active')
        /\ InQueue(active, z) /\ Len(active') = Len(active) - 1
        /\ \A y : InQueue(active', y) <=> InQueue(active, y) /\ y # z
    BY <1>0, <1>1, <2>1, PopQueue DEF ZsmTypeOK, QueuesMatchStates, TakeActiveZone, PopActive
  <2>3. zone_state[z] = "ACTIVE" /\ chunk_offset[z] \in Chunks
    BY <1>0, <2>2, MaxZoneChunksAssumption DEF ZsmTypeOK, QueuesMatchStates, ZoneHasRoom, Chunks
  <2>4. /\ zone_state' = [zone_state EXCEPT ![z] = "WRITE_OCCURING"]
        /\ grant' = [grant EXCEPT ![t] = Pair(z, chunk_offset[z])]
        /\ writes_occurring' = writes_occurring + 1
        /\ UNCHANGED <<chunk_offset, free, invalid>>
    BY <1>1, <2>1 DEF TakeActiveZone, PopActive
  <2>5. chunk_offset' = [chunk_offset EXCEPT ![z] = chunk_offset[z]]
    BY <1>0, <2>2, <2>4 DEF ZsmTypeOK
  <2>6. /\ free' \in Seq(Zones) /\ Distinct(free')
        /\ \A y \in Zones : InQueue(free', y) => InQueue(free, y) /\ y # z
    BY <1>0, <2>3, <2>4 DEF ZsmTypeOK, QueuesMatchStates
  <2>7. Len(active') + writes_occurring' <= MaxNrActiveZones
    BY <1>0, <2>2, <2>4, MaxNrActiveZonesAssumption
  <2> QED BY <2>2, <2>3, <2>4, <2>5, <2>6, <2>7
<1>2. CASE OpenFreeZone(t)
  <2>1. PICK z : z = Head(free)
    OBVIOUS
  <2>2. /\ z \in Zones /\ free' \in Seq(Zones) /\ Distinct(free')
        /\ InQueue(free, z)
        /\ \A y : InQueue(free', y) <=> InQueue(free, y) /\ y # z
    BY <1>0, <1>2, <2>1, PopQueue DEF ZsmTypeOK, QueuesMatchStates, OpenFreeZone, CanOpen
  <2>3. zone_state[z] = "FREE" /\ 0 \in Chunks
    BY <1>0, <2>2, MaxZoneChunksAssumption DEF QueuesMatchStates, Chunks
  <2>4. /\ active = <<>> /\ active' = <<>>
        /\ zone_state' = [zone_state EXCEPT ![z] = "WRITE_OCCURING"]
        /\ chunk_offset' = [chunk_offset EXCEPT ![z] = 0]
        /\ grant' = [grant EXCEPT ![t] = Pair(z, 0)]
        /\ writes_occurring' = writes_occurring + 1
        /\ UNCHANGED invalid
    <3>1. z \in Zones /\ z = Head(free)
      BY <2>1, <2>2
    <3>2. active = <<>> /\ PopActive(t, Append(<<>>, z), [chunk_offset EXCEPT ![z] = 0]) /\ UNCHANGED invalid
      BY <1>2, <3>1 DEF OpenFreeZone
    <3>3. Head(Append(<<>>, z)) = z /\ Tail(Append(<<>>, z)) = <<>>
      BY <3>1, PushPop
    <3>4. PICK o : o = [chunk_offset EXCEPT ![z] = 0]
      OBVIOUS
    <3>5. o[z] = 0
      BY <1>0, <3>1, <3>4 DEF ZsmTypeOK
    <3> QED BY <3>2, <3>3, <3>4, <3>5 DEF PopActive
  <2>5. /\ active' \in Seq(Zones) /\ Distinct(active')
        /\ \A y \in Zones : InQueue(active', y) <=> InQueue(active, y) /\ y # z
    BY <1>0, <2>4, EmptyQueue DEF ZsmTypeOK
  <2>6. Len(active') + writes_occurring' <= MaxNrActiveZones
    BY <1>0, <1>2, <2>4, MaxNrActiveZonesAssumption DEF OpenFreeZone, CanOpen, NumActiveZones
  <2> QED BY <2>2, <2>3, <2>4, <2>5, <2>6
<1> QED BY <1>1, <1>2 DEF zsm_get_active_zone_success

\* The manager when the collector has asked it for a zone.
LEMMA CollectorGets ==
  ASSUME ManagerOK, ControlOK, NEW t \in Threads,
         zsm_get_active_zone_success(t) \/ zsm_get_active_zone_error(t) \/ UNCHANGED zsmVars,
         Holders' = Holders, UNCHANGED location, gc'.moved
  PROVE  /\ ManagerOK' /\ Written' = Written /\ Committed' = Committed
         /\ zsm_get_active_zone_success(t) => grant'[t] \in zn_pair
<1>0. ZsmTypeOK /\ QueuesMatchStates /\ ZoneHasRoom /\ HeldExclusive
      /\ Len(active) \in Nat /\ writes_occurring \in Nat /\ Len(active) + writes_occurring <= MaxNrActiveZones
      /\ Cardinality(Holders) <= writes_occurring /\ Cardinality(Holders) \in Nat
  BY HoldersFinite DEF ManagerOK, LentOK, NumActiveZones, ZsmTypeOK
<1>1. CASE zsm_get_active_zone_success(t)
  <2>1. PICK z \in Zones, c \in Chunks :
           /\ \/ zone_state[z] = "ACTIVE" /\ chunk_offset[z] = c
              \/ zone_state[z] = "FREE" /\ c = 0
           /\ zone_state' = [zone_state EXCEPT ![z] = "WRITE_OCCURING"]
           /\ chunk_offset' = [chunk_offset EXCEPT ![z] = c]
           /\ grant' = [grant EXCEPT ![t] = Pair(z, c)]
           /\ writes_occurring' = writes_occurring + 1 /\ UNCHANGED invalid
           /\ active' \in Seq(Zones) /\ free' \in Seq(Zones) /\ Distinct(active') /\ Distinct(free')
           /\ \A y \in Zones : InQueue(active', y) <=> InQueue(active, y) /\ y # z
           /\ \A y \in Zones : InQueue(free', y) => InQueue(free, y) /\ y # z
           /\ Len(active') + writes_occurring' <= MaxNrActiveZones
    BY <1>1, PoppedZone
  <2>2. /\ c \in 0 .. MaxZoneChunks /\ c < MaxZoneChunks /\ c # MaxZoneChunks /\ c >= 0
        /\ Pair(z, c) \in zn_pair
    BY MaxZoneChunksAssumption, NoPairFacts DEF Chunks
  <2>3. /\ \A y \in Zones : /\ zone_state'[y] = IF y = z THEN "WRITE_OCCURING" ELSE zone_state[y]
                            /\ chunk_offset'[y] = IF y = z THEN c ELSE chunk_offset[y]
        /\ zone_state' \in [Zones -> zn_zone_condition] /\ chunk_offset' \in [Zones -> 0 .. MaxZoneChunks]
        /\ grant' \in [Threads -> zn_pair \cup {NoPair}] /\ grant'[t] = Pair(z, c)
    BY <1>0, <2>1, <2>2 DEF ZsmTypeOK, zn_zone_condition
  <2>4. ZsmTypeOK'
    BY <1>0, <2>1, <2>3 DEF ZsmTypeOK
  <2>5. QueuesMatchStates'
    BY <1>0, <2>1, <2>3 DEF QueuesMatchStates
  <2>6. ZoneHasRoom'
    BY <1>0, <2>3 DEF ZoneHasRoom
  <2>7. HeldExclusive'
    <3>1. \A u \in Holders : location[u].zone \in Zones /\ location[u].zone # z
      <4> SUFFICES ASSUME NEW u \in Holders PROVE location[u].zone \in Zones /\ location[u].zone # z
        OBVIOUS
      <4>1. location[u] \in zn_pair
        BY DEF Holders, HoldsZone, HasLocation, ControlOK
      <4>2. zone_state[location[u].zone] = "WRITE_OCCURING"
        BY <1>0 DEF HeldExclusive
      <4> QED BY <2>1, <4>1, <4>2, NoPairFacts
    <3> QED BY <1>0, <2>3, <3>1 DEF HeldExclusive
  <2>8. LentOK'
    <3>1. Cardinality(Holders') <= writes_occurring'
      BY <1>0, <2>1
    <3> QED BY <2>1, <3>1 DEF LentOK, NumActiveZones
  <2>9. Written' = Written
    BY <1>0, <2>1, <2>2, <2>3 DEF Written, LastChunkWritten
  <2>10. Committed' = Committed
    <3> SUFFICES ASSUME NEW p \in zn_pair PROVE p \in Committed' <=> p \in Committed
      BY DEF Committed
    <3>1. p.zone \in Zones /\ p.chunk_offset \in Chunks
      BY NoPairFacts
    <3>2. CASE p.zone # z
      BY <2>3, <3>1, <3>2 DEF Committed, ChunkWritten, LastChunkWritten
    <3>3. CASE p.zone = z /\ zone_state[z] = "ACTIVE"
      BY <2>1, <2>2, <2>3, <3>1, <3>3 DEF Committed, ChunkWritten, LastChunkWritten
    <3>4. CASE p.zone = z /\ zone_state[z] = "FREE" /\ c = 0
      <4>1. ~(p.chunk_offset < 0)
        BY <3>1, MaxZoneChunksAssumption DEF Chunks
      <4> QED BY <2>2, <2>3, <3>1, <3>4, <4>1 DEF Committed, ChunkWritten, LastChunkWritten
    <3> QED BY <2>1, <3>2, <3>3, <3>4
  <2> QED BY <2>2, <2>3, <2>4, <2>5, <2>6, <2>7, <2>8, <2>9, <2>10 DEF ManagerOK
<1>2. CASE ~zsm_get_active_zone_success(t)
  <2>1. /\ UNCHANGED <<zone_state, chunk_offset, active, writes_occurring, invalid, grant>>
        /\ free' \in Seq(Zones) /\ Distinct(free') /\ \A y : InQueue(free', y) => InQueue(free, y)
    <3>1. CASE zsm_get_active_zone_error(t)
      BY <1>0, <3>1, PopQueue DEF ZsmTypeOK, QueuesMatchStates, zsm_get_active_zone_error, CanOpen
    <3>2. CASE UNCHANGED zsmVars
      BY <1>0, <3>2 DEF ZsmTypeOK, QueuesMatchStates, zsmVars
    <3> QED BY <1>2, <3>1, <3>2
  <2>2. ZsmTypeOK' /\ QueuesMatchStates' /\ ZoneHasRoom' /\ HeldExclusive'
    BY <1>0, <2>1 DEF ZsmTypeOK, QueuesMatchStates, ZoneHasRoom, HeldExclusive
  <2>3. LentOK'
    BY <1>0, <2>1 DEF LentOK, NumActiveZones
  <2>4. Written' = Written /\ Committed' = Committed
    BY <2>1 DEF Written, Committed, ChunkWritten, LastChunkWritten
  <2> QED BY <1>2, <2>2, <2>3, <2>4 DEF ManagerOK
<1> QED BY <1>1, <1>2

\* A chunk of LiveChunks is in use.
LEMMA LiveFacts ==
  ASSUME PolicyTypeOK, LiveChunks # {}
  PROVE  /\ Min(LiveChunks) \in Chunks /\ Min(LiveChunks) >= gc.chunk
         /\ At(zone_pool, Pair(gc.zone, Min(LiveChunks))).in_use
<1>1. LiveChunks \in SUBSET Nat
  BY MaxZoneChunksAssumption DEF LiveChunks, Chunks
<1>2. Min(LiveChunks) \in LiveChunks
  BY <1>1, MinFacts
<1>3. PICK c : c = Min(LiveChunks) /\ c \in LiveChunks
  BY <1>2, SMTT(30)
<1>4. c \in Chunks /\ c >= gc.chunk /\ zone_pool[gc.zone].chunks[c].in_use
  BY <1>3 DEF LiveChunks
<1>5. Pair(gc.zone, c).zone = gc.zone /\ Pair(gc.zone, c).chunk_offset = c
  BY DEF Pair
<1> QED BY <1>3, <1>4, <1>5 DEF At

\* The collector asks for a place for a chunk.
LEMMA RelocateToChunk ==
  ASSUME ChunkInv, NEW t \in Threads, RelocateTo(t)
  PROVE  ChunkInv'
<1>0. /\ FrontOK /\ WholeOK /\ PolicyTypeOK /\ MutexOK /\ CollectorOK /\ ZonesHeld /\ ZonesFound
      /\ FrontTypeOK(EvictPcs) /\ ManagerOK /\ ControlOK /\ SlotsNamed
  BY DEF ChunkInv, FrontOK, PolicyInv
<1>1. /\ pc[t] = "gc_chunk" /\ LiveChunks # {} /\ pc' = [pc EXCEPT ![t] = "gc_read"]
      /\ UNCHANGED <<mapVars, locals, disk, ratio, progress>>
      /\ UNCHANGED <<lru_queue, zone_pool, invalid_pqueue, policy_mutex, nr_evict>>
  BY DEF RelocateTo
<1>2. PICK pair \in zn_pair :
        /\ zsm_get_active_zone_success(t) \/ zsm_get_active_zone_error(t) \/ UNCHANGED zsmVars
        /\ gc' = TakePlace(gc, Min(LiveChunks), pair)
  BY DEF RelocateTo, NoActiveZone, TakePlace
<1>3. PICK c \in Chunks : c = Min(LiveChunks) /\ At(zone_pool, Pair(gc.zone, c)).in_use
  BY <1>0, <1>1, LiveFacts
<1>4. gc' \in GcType /\ gc'.zone = gc.zone /\ gc'.chunk = c /\ gc'.location = pair /\ gc'.moved
  <2>1. gc \in GcType
    BY <1>0 DEF PolicyTypeOK
  <2> QED BY <1>2, <1>3, <2>1, GcPlace
<1>5. Moves(t, "gc_read")
  BY <1>1 DEF Moves, EvictPcs
<1>6. /\ FrontTypeOK(EvictPcs)' /\ ControlOK' /\ CompletedOK' /\ Holders' = Holders
      /\ FillersPresent'
  <2>1. mapTypeOK' /\ disk' \in [Zones -> [Chunks -> Ids \cup {Blank, Torn}]]
    BY <1>0, <1>1 DEF FrontTypeOK, mapTypeOK, mapVars
  <2>2. FillersPresent'
    BY <1>0, <1>1, <1>5, PolicyFillers DEF mapVars, locals
  <2> QED BY <1>0, <1>1, <1>5, <2>1, <2>2, PolicyFront
<1>7. ManagerOK' /\ Written' = Written /\ Committed' = Committed
  <2>1. UNCHANGED location
    BY <1>1 DEF locals
  <2> QED BY <1>0, <1>2, <1>4, <1>6, <2>1, CollectorGets
<1>8. FrontOK'
  BY <1>6, <1>7 DEF FrontOK
<1>9. WholeOK'
  <2>1. CASE Backend = "BLOCK"
    BY <1>4, <2>1 DEF WholeOK
  <2>2. CASE Backend # "BLOCK"
    <3>1. WholeCommitted /\ WholeBeforeReturn
      BY <1>0, <2>2 DEF WholeOK
    <3>2. UNCHANGED location
      BY <1>1 DEF locals
    <3> QED BY <1>0, <1>1, <1>7, <3>1, <3>2, WholeKept DEF WholeOK
  <2> QED BY <2>1, <2>2
<1>10. /\ \A u \in Threads, z \in Zones : Pending(u, z)' <=> Pending(u, z)
       /\ \A u \in Threads : pc'[u] = IF u = t THEN "gc_read" ELSE pc[u]
       /\ Heap!Queued' = Heap!Queued
  <2>1. \A u \in Threads, z \in Zones : Pending(u, z)' <=> Pending(u, z)
    BY <1>0, <1>1, PendingSame DEF locals
  <2> QED BY <1>0, <1>1, <2>1 DEF FrontTypeOK, Heap!Queued
<1>11. PolicyTypeOK' /\ SlotsNamed'
  BY <1>0, <1>1, <1>4, <1>10 DEF PolicyTypeOK, SlotsNamed
<1>12. MutexOK' /\ policy_mutex = t
  BY <1>0, <1>1, MutexMove, OneInPolicy DEF InPolicy, Collecting, Relocating
<1>13. CollectorOK'
  <2>1. \A u \in Threads : u # t => pc'[u] \notin InPolicy
    BY <1>0, <1>1, <1>10, OneInPolicy DEF InPolicy, Collecting, Relocating
  <2>2. gc.zone \in Zones
    BY <1>0, <1>1 DEF CollectorOK, Collecting
  <2>3. Slot(Pair(gc.zone, gc.chunk))'.in_use
    BY <1>1, <1>3, <1>4 DEF Slot, At, Pair
  <2> QED BY <1>1, <1>4, <1>10, <1>12, <2>1, <2>2, <2>3, MutexAssumption
          DEF CollectorOK, InPolicy, Collecting, Relocating
<1>14. ZonesHeld' /\ ZonesFound'
  BY <1>0, <1>4, <1>7, <1>10, ZonesSame
<1> QED BY <1>8, <1>9, <1>11, <1>12, <1>13, <1>14 DEF ChunkInv, PolicyInv

\* There is no place, and what is on the stack lies outside of every zone.
LEMMA RelocateNowhereChunk ==
  ASSUME ChunkInv, NEW t \in Threads, RelocateNowhere(t)
  PROVE  ChunkInv'
<1>0. /\ FrontOK /\ WholeOK /\ PolicyTypeOK /\ MutexOK /\ CollectorOK /\ ZonesHeld /\ ZonesFound
      /\ FrontTypeOK(EvictPcs) /\ ManagerOK /\ ControlOK /\ SlotsNamed
  BY DEF ChunkInv, FrontOK, PolicyInv
<1>1. /\ pc[t] = "gc_chunk" /\ pc' = [pc EXCEPT ![t] = "crashed"]
      /\ UNCHANGED <<mapVars, locals, disk, ratio, progress>>
      /\ UNCHANGED <<lru_queue, zone_pool, invalid_pqueue, policy_mutex, nr_evict>>
      /\ zsm_get_active_zone_success(t) \/ zsm_get_active_zone_error(t) \/ UNCHANGED zsmVars
  BY DEF RelocateNowhere, NoActiveZone
<1>2. gc' \in GcType /\ gc'.zone = gc.zone /\ gc'.moved
  BY <1>0 DEF RelocateNowhere, PolicyTypeOK, GcType
<1>3. Moves(t, "crashed") /\ "crashed" \notin InPolicy /\ pc[t] \in InPolicy
  BY <1>1 DEF Moves, EvictPcs, InPolicy, Collecting, Relocating
<1>4. /\ FrontTypeOK(EvictPcs)' /\ ControlOK' /\ CompletedOK' /\ Holders' = Holders
      /\ FillersPresent'
  <2>1. mapTypeOK' /\ disk' \in [Zones -> [Chunks -> Ids \cup {Blank, Torn}]]
    BY <1>0, <1>1 DEF FrontTypeOK, mapTypeOK, mapVars
  <2>2. FillersPresent'
    BY <1>0, <1>1, <1>3, PolicyFillers DEF mapVars, locals
  <2> QED BY <1>0, <1>1, <1>3, <2>1, <2>2, PolicyFront
<1>5. ManagerOK' /\ Written' = Written /\ Committed' = Committed
  <2>1. UNCHANGED location
    BY <1>1 DEF locals
  <2> QED BY <1>0, <1>1, <1>2, <1>4, <2>1, CollectorGets
<1>6. FrontOK'
  BY <1>4, <1>5 DEF FrontOK
<1>7. WholeOK'
  <2>1. CASE Backend = "BLOCK"
    BY <1>2, <2>1 DEF WholeOK
  <2>2. CASE Backend # "BLOCK"
    <3>1. WholeCommitted /\ WholeBeforeReturn
      BY <1>0, <2>2 DEF WholeOK
    <3>2. UNCHANGED location
      BY <1>1 DEF locals
    <3> QED BY <1>0, <1>1, <1>5, <3>1, <3>2, WholeKept DEF WholeOK
  <2> QED BY <2>1, <2>2
<1>8. /\ \A u \in Threads, z \in Zones : Pending(u, z)' <=> Pending(u, z)
      /\ \A u \in Threads : pc'[u] \in InPolicy => pc'[u] = pc[u]
      /\ Heap!Queued' = Heap!Queued
  <2>1. \A u \in Threads, z \in Zones : Pending(u, z)' <=> Pending(u, z)
    BY <1>0, <1>1, PendingSame DEF locals
  <2>2. \A u \in Threads : pc'[u] \in InPolicy => pc'[u] = pc[u]
    BY <1>0, <1>1, <1>3 DEF FrontTypeOK
  <2> QED BY <1>1, <2>1, <2>2 DEF Heap!Queued
<1>9. PolicyTypeOK' /\ SlotsNamed'
  BY <1>0, <1>1, <1>2, <1>8 DEF PolicyTypeOK, SlotsNamed
<1>10. MutexOK' /\ policy_mutex = t
  BY <1>0, <1>1, <1>3, MutexMove, OneInPolicy
<1>11. CollectorOK'
  <2>1. \A u \in Threads : pc'[u] \notin InPolicy
    <3>1. pc'[t] = "crashed"
      BY <1>0, <1>1 DEF FrontTypeOK
    <3> QED BY <1>0, <1>3, <1>8, <3>1, OneInPolicy
  <2> QED BY <1>1, <1>2, <1>10, <2>1, MutexAssumption DEF CollectorOK, InPolicy, Collecting
<1>12. ZonesHeld' /\ ZonesFound'
  BY <1>0, <1>2, <1>5, <1>8, ZonesSame
<1> QED BY <1>6, <1>7, <1>9, <1>10, <1>11, <1>12 DEF ChunkInv, PolicyInv

\* What a write does to the disk: it changes nothing but the chunk it is meant for,
\* and on a zoned device only a chunk that is blank.
LEMMA WrittenOut ==
  ASSUME FrontTypeOK(EvictPcs), NEW pair \in zn_pair, NEW buffer \in Ids \cup {Torn},
         zn_write_out(pair, buffer, TRUE) \/ zn_write_out(pair, buffer, FALSE)
  PROVE  /\ disk' \in [Zones -> [Chunks -> Ids \cup {Blank, Torn}]]
         /\ \A p \in zn_pair : p # pair => disk'[p.zone][p.chunk_offset] = disk[p.zone][p.chunk_offset]
         /\ Backend = "ZNS" /\ disk[pair.zone][pair.chunk_offset] # Blank => disk' = disk
<1>1. PICK z \in Zones, c \in Chunks : z = pair.zone /\ c = pair.chunk_offset
  BY NoPairFacts
<1>2. disk \in [Zones -> [Chunks -> Ids \cup {Blank, Torn}]]
  BY DEF FrontTypeOK
<1>3. \/ disk' = disk
      \/ AtWritePointer(pair) /\ \E v \in Ids \cup {Torn} : disk' = [disk EXCEPT ![z][c] = v]
  BY <1>1 DEF zn_write_out
<1>4. CASE disk' = disk
  BY <1>2, <1>4
<1>5. CASE disk' # disk
  <2>1. PICK v \in Ids \cup {Torn} : disk' = [disk EXCEPT ![z][c] = v]
    BY <1>3, <1>5
  <2>2. disk' \in [Zones -> [Chunks -> Ids \cup {Blank, Torn}]]
    BY <1>2, <2>1
  <2>3. ASSUME NEW p \in zn_pair, p # pair
        PROVE  disk'[p.zone][p.chunk_offset] = disk[p.zone][p.chunk_offset]
    <3>1. p.zone \in Zones /\ p.chunk_offset \in Chunks
      BY NoPairFacts
    <3>2. p.zone # z \/ p.chunk_offset # c
      BY <1>1, <2>3 DEF zn_pair
    <3> QED BY <1>2, <2>1, <3>1, <3>2
  <2>4. Backend = "ZNS" => disk[z][c] = Blank
    BY <1>1, <1>3, <1>5 DEF AtWritePointer
  <2> QED BY <1>1, <1>5, <2>2, <2>3, <2>4
<1> QED BY <1>4, <1>5

\* The collector writes a chunk.
LEMMA RelocateWriteChunk ==
  ASSUME ChunkInv, NEW t \in Threads, RelocateWrite(t)
  PROVE  ChunkInv'
<1>0. /\ FrontOK /\ WholeOK /\ PolicyTypeOK /\ MutexOK /\ CollectorOK /\ ZonesHeld /\ ZonesFound
      /\ FrontTypeOK(EvictPcs) /\ ManagerOK /\ ControlOK /\ SlotsNamed
  BY DEF ChunkInv, FrontOK, PolicyInv
<1>1. /\ pc[t] = "gc_write" /\ pc' = [pc EXCEPT ![t] = "gc_insert"]
      /\ UNCHANGED <<zsmVars, mapVars, locals, ratio, progress, policyVars>>
  BY DEF RelocateWrite, Goto
<1>2. /\ gc.zone \in Zones /\ gc.chunk \in Chunks /\ gc.moved /\ gc.location \in zn_pair
      /\ Slot(Pair(gc.zone, gc.chunk)).in_use
  BY <1>0, <1>1 DEF CollectorOK, Collecting, Relocating
<1>3. /\ disk' \in [Zones -> [Chunks -> Ids \cup {Blank, Torn}]]
      /\ \A p \in zn_pair : disk'[p.zone][p.chunk_offset] # disk[p.zone][p.chunk_offset] =>
           p = gc.location /\ (Backend = "ZNS" => disk[p.zone][p.chunk_offset] = Blank)
  <2>1. CASE gc.data = NULL /\ UNCHANGED disk
    BY <1>0, <2>1 DEF FrontTypeOK
  <2>2. CASE ~(gc.data = NULL /\ UNCHANGED disk)
    <3>1. PICK buffer \in Ids \cup {Torn} :
            zn_write_out(gc.location, buffer, TRUE) \/ zn_write_out(gc.location, buffer, FALSE)
      BY <2>2 DEF RelocateWrite
    <3> QED BY <1>0, <1>2, <3>1, WrittenOut
  <2> QED BY <2>1, <2>2
<1>4. Moves(t, "gc_insert") /\ UNCHANGED <<location, gc>>
  BY <1>1 DEF Moves, EvictPcs, locals, policyVars
<1>5. /\ FrontTypeOK(EvictPcs)' /\ ControlOK' /\ CompletedOK' /\ Holders' = Holders /\ held' = held
      /\ FillersPresent'
  <2>1. mapTypeOK'
    BY <1>0, <1>1 DEF FrontTypeOK, mapTypeOK, mapVars
  <2>2. FillersPresent'
    BY <1>0, <1>1, <1>4, PolicyFillers DEF mapVars, locals
  <2> QED BY <1>0, <1>1, <1>3, <1>4, <2>1, <2>2, PolicyFront
<1>6. ManagerOK' /\ Written' = Written /\ Committed' = Committed
  BY <1>0, <1>1, <1>4, <1>5, ManagerKept DEF zsmVars, ManagerOK, ZsmTypeOK
<1>7. FrontOK'
  BY <1>5, <1>6 DEF FrontOK
<1>8. \A u \in Threads : pc'[u] = IF u = t THEN "gc_insert" ELSE pc[u]
  BY <1>0, <1>1 DEF FrontTypeOK
<1>9. WholeOK'
  <2>1. CASE Backend = "BLOCK"
    BY <1>2, <1>4, <2>1 DEF WholeOK
  <2>2. CASE Backend = "ZNS"
    <3>1. WholeCommitted /\ WholeBeforeReturn
      BY <1>0, <2>2 DEF WholeOK
    <3>2. \A p \in zn_pair : disk[p.zone][p.chunk_offset] \in Ids => disk'[p.zone][p.chunk_offset] \in Ids
      BY <1>3, <2>2, ContentsAssumption
    <3>3. \A u \in Threads : pc'[u] = "return_zone" => pc[u] = "return_zone" /\ location[u] \in zn_pair
      BY <1>0, <1>8 DEF ControlOK, HasLocation
    <3>4. WholeCommitted'
      <4>1. Committed \subseteq zn_pair
        BY DEF Committed
      <4> QED BY <1>6, <3>1, <3>2, <4>1 DEF WholeCommitted
    <3>5. WholeBeforeReturn'
      BY <1>4, <3>1, <3>2, <3>3 DEF WholeBeforeReturn
    <3> QED BY <3>4, <3>5 DEF WholeOK
  <2> QED BY <2>1, <2>2, BackendAssumption
<1>10. /\ \A u \in Threads, z \in Zones : Pending(u, z)' <=> Pending(u, z)
       /\ Heap!Queued' = Heap!Queued
       /\ UNCHANGED <<lru_queue, zone_pool, invalid_pqueue, policy_mutex, nr_evict>>
  <2>1. \A u \in Threads, z \in Zones : Pending(u, z)' <=> Pending(u, z)
    BY <1>0, <1>1, <1>4, PendingSame
  <2> QED BY <1>1, <2>1 DEF policyVars, Heap!Queued
<1>11. PolicyTypeOK' /\ SlotsNamed'
  BY <1>0, <1>4, <1>10 DEF PolicyTypeOK, SlotsNamed
<1>12. MutexOK' /\ policy_mutex = t
  BY <1>0, <1>1, <1>10, MutexMove, OneInPolicy DEF InPolicy, Collecting, Relocating
<1>13. CollectorOK'
  <2>1. \A u \in Threads : u # t => pc'[u] \notin InPolicy
    BY <1>0, <1>1, <1>8, OneInPolicy DEF InPolicy, Collecting, Relocating
  <2>2. Slot(Pair(gc.zone, gc.chunk))'.in_use
    BY <1>2, <1>4, <1>10 DEF Slot, Pair
  <2> QED BY <1>2, <1>4, <1>8, <1>10, <1>12, <2>1, <2>2, MutexAssumption
          DEF CollectorOK, InPolicy, Collecting, Relocating
<1>14. ZonesHeld' /\ ZonesFound'
  BY <1>0, <1>4, <1>6, <1>10, ZonesSame
<1> QED BY <1>7, <1>9, <1>11, <1>12, <1>13, <1>14 DEF ChunkInv, PolicyInv

\* The mapping of a relocated chunk.
LEMMA InsertMap ==
  ASSUME mapTypeOK, NEW id \in Ids, NEW pair \in zn_pair, zn_cachemap_insert(id, pair)
  PROVE  /\ mapTypeOK' /\ zone_map'[id].type = "LOC" /\ Broadcast(id)
         /\ \A x \in Ids \ {id} : zone_map'[x] = zone_map[x]
<1>1. PICK z \in Zones, c \in Chunks : z = pair.zone /\ c = pair.chunk_offset
  BY NoPairFacts
<1>7. Entry("LOC", pair) \in zone_map_result /\ Entry("LOC", pair).type = "LOC"
  BY DEF zone_map_result, Entry
<1>2. PICK entry \in zone_map_result : entry = Entry("LOC", pair) /\ entry.type = "LOC"
  BY <1>7
<1>3. /\ zone_map' = [zone_map EXCEPT ![id] = entry]
      /\ data_map' = [data_map EXCEPT ![z][c] = id]
      /\ Broadcast(id) /\ UNCHANGED active_readers
  BY <1>1, <1>2 DEF zn_cachemap_insert
<1>4. zone_map' \in [Ids -> zone_map_result] /\ \A x \in Ids : zone_map'[x] = IF x = id THEN entry ELSE zone_map[x]
  BY <1>3 DEF mapTypeOK
<1>5. data_map' \in [Zones -> [Chunks -> Ids \cup {NULL}]]
  BY <1>3 DEF mapTypeOK
<1>6. waiting' \in [Threads -> Ids \cup {NULL}]
  BY <1>3 DEF mapTypeOK, Broadcast
<1> QED BY <1>2, <1>3, <1>4, <1>5, <1>6 DEF mapTypeOK

\* It wakes the waiters of that id, and the other ids keep their fillers.
LEMMA InsertFillers ==
  ASSUME FrontOK, NEW t \in Threads, NEW to, Moves(t, to), pc[t] \in EvictPcs, pc' = [pc EXCEPT ![t] = to],
         NEW id \in Ids, zone_map'[id].type = "LOC", Broadcast(id),
         \A x \in Ids \ {id} : zone_map'[x] = zone_map[x], UNCHANGED data_id
  PROVE  FillersPresent'
<1> SUFFICES ASSUME NEW x \in Ids, zone_map'[x].type = "COND" \/ (\E u \in Threads : waiting'[u] = x)
             PROVE  \E u \in Threads : u \in Fillers(x)'
  BY DEF FillersPresent
<1>1. x # id
  BY NullAssumption DEF Broadcast
<1>2. zone_map[x].type = "COND" \/ (\E u \in Threads : waiting[u] = x)
  BY <1>1, NullAssumption DEF Broadcast
<1>3. PICK u \in Threads : u \in Fillers(x)
  BY <1>2 DEF FrontOK, FillersPresent, Fillers
<1>4. \A y \in Threads : pc'[y] = IF y = t THEN to ELSE pc[y]
  BY DEF FrontOK, FrontTypeOK
<1>5. to \notin NotFilling \cup Copying
  BY DEF Moves, AfterEvict, EvictPcs, NotFilling, Copying
<1>6. u \in Fillers(x)'
  BY <1>1, <1>3, <1>4, <1>5 DEF Fillers, NotFilling, Copying
<1> QED BY <1>6

\* A relocation frees a slot ...
LEMMA SlotLeft ==
  ASSUME NEW P \in PoolType, NEW q \in Seq(Nodes), Named(P, q), NEW old \in Slots, NEW R,
         R = [P EXCEPT ![old.zone].chunks[old.chunk_offset].in_use = FALSE,
                       ![old.zone].chunks_in_use = Dec(@)]
  PROVE  R \in PoolType /\ Named(R, q)
<1>1. PICK freed : freed = [pair |-> At(P, old).pair, in_use |-> FALSE]
  OBVIOUS
<1>2. PICK n, entry : SlotSet(P, R, old, freed, n, entry)
  BY <1>1, SlotInvalidated, Zenon DEF At
<1>3. R \in PoolType /\ freed.pair = At(P, old).pair /\ ~freed.in_use
  BY <1>1, <1>2, Zenon DEF SlotSet
<1>4. \A i \in DOMAIN q : \E j \in DOMAIN q : q[i].slot = q[j].slot
  OBVIOUS
<1> QED BY <1>2, <1>3, <1>4, NamesKept, SMTT(30)

\* A node at the tail.
LEMMA TailNode ==
  ASSUME NEW q \in Seq(Nodes), NEW e \in Nodes
  PROVE  /\ Append(q, e) \in Seq(Nodes)
         /\ \A i \in DOMAIN Append(q, e) :
              Append(q, e)[i].slot = e.slot \/ \E j \in DOMAIN q : Append(q, e)[i].slot = q[j].slot
<1>1. /\ Append(q, e) \in Seq(Nodes) /\ Len(q) \in Nat
      /\ DOMAIN Append(q, e) = 1 .. Len(q) + 1 /\ DOMAIN q = 1 .. Len(q)
      /\ \A i \in 1 .. Len(q) : Append(q, e)[i] = q[i]
      /\ Append(q, e)[Len(q) + 1] = e
  BY AppendFacts
<1>2. \A i \in 1 .. Len(q) + 1 : i = Len(q) + 1 \/ i \in 1 .. Len(q)
  BY <1>1
<1>3. \A i \in DOMAIN Append(q, e) : Append(q, e)[i] = e \/ \E j \in DOMAIN q : Append(q, e)[i] = q[j]
  BY <1>1, <1>2
<1> QED BY <1>1, <1>3

\* ... and fills another.
FillSlot(P, s, pair) == [P EXCEPT ![s.zone].chunks[s.chunk_offset] = [pair |-> pair, in_use |-> TRUE],
                                  ![s.zone].chunks_in_use = Inc(@)]

\* The policy's pool when a slot is filled that the queue now names.
LEMMA SlotFilled ==
  ASSUME NEW R \in PoolType, NEW q \in Seq(Nodes), Named(R, q), NEW new \in Slots, NEW p \in zn_pair,
         NEW Q, Q = FillSlot(R, new, p),
         NEW r \in Seq(Nodes),
         \A i \in DOMAIN r : r[i].slot = new \/ \E j \in DOMAIN q : r[i].slot = q[j].slot
  PROVE  Q \in PoolType /\ Named(Q, r)
<1>1. [pair |-> p, in_use |-> TRUE] \in SlotType
  BY DEF SlotType
<1>2. PICK slot \in SlotType : slot = [pair |-> p, in_use |-> TRUE] /\ slot.pair \in zn_pair
  BY <1>1
<1>3. PICK n, entry : SlotSet(R, Q, new, slot, n, entry)
  BY <1>2, SlotCopied DEF FillSlot
<1>4. \A i \in DOMAIN r : \/ r[i].slot = new /\ slot.pair \in zn_pair
                          \/ \E j \in DOMAIN q : r[i].slot = q[j].slot
  BY <1>2
<1>5. Q \in PoolType
  BY <1>3 DEF SlotSet
<1>7. slot.pair \in zn_pair
  BY <1>2
<1>8. SlotSet(R, Q, new, slot, n, entry)
  BY <1>3
<1>9. Named(R, q)
  OBVIOUS
<1>6. Named(Q, r)
  BY ONLY <1>4, <1>7, <1>8, <1>9, NamesKept, q \in Seq(Nodes), r \in Seq(Nodes), new \in Slots
<1> QED BY <1>5, <1>6

\* The collector enters the chunk it has relocated.
LEMMA RelocateInsertChunk ==
  ASSUME ChunkInv, NEW t \in Threads, RelocateInsert(t)
  PROVE  ChunkInv'
<1>0. /\ FrontOK /\ WholeOK /\ PolicyTypeOK /\ MutexOK /\ CollectorOK /\ ZonesHeld /\ ZonesFound
      /\ FrontTypeOK(EvictPcs) /\ ManagerOK /\ ControlOK /\ SlotsNamed /\ mapTypeOK
  BY SMTT(30) DEF ChunkInv, FrontOK, PolicyInv, FrontTypeOK
<1>1. /\ pc[t] = "gc_insert" /\ pc' = [pc EXCEPT ![t] = "gc_chunk"]
      /\ ZeroId \in Ids /\ zn_cachemap_insert(ZeroId, gc.location)
      /\ lru_queue' = Append(lru_queue, Node(gc.location, FALSE))
      /\ gc' = Advance(gc)
      /\ UNCHANGED <<zsmVars, locals, disk, ratio, progress, invalid_pqueue, policy_mutex, nr_evict>>
  BY Zenon DEF RelocateInsert, HasEntry, Advance
<1>2. /\ gc.zone \in Zones /\ gc.chunk \in Chunks /\ gc.moved /\ gc.location \in zn_pair
      /\ Slot(Pair(gc.zone, gc.chunk)).in_use /\ gc \in GcType
  BY <1>0, <1>1 DEF CollectorOK, Collecting, Relocating, PolicyTypeOK
<1>3. gc' \in GcType /\ gc'.zone = gc.zone /\ gc'.moved
  BY <1>1, <1>2, GcNext
<1>4. Moves(t, "gc_chunk") /\ pc[t] \in EvictPcs /\ UNCHANGED <<location, data_id>>
  BY <1>1 DEF Moves, EvictPcs, locals
<1>5. /\ mapTypeOK' /\ zone_map'[ZeroId].type = "LOC" /\ Broadcast(ZeroId)
      /\ \A x \in Ids \ {ZeroId} : zone_map'[x] = zone_map[x]
  BY <1>0, <1>1, <1>2, InsertMap
<1>6. /\ FrontTypeOK(EvictPcs)' /\ ControlOK' /\ CompletedOK' /\ Holders' = Holders /\ held' = held
      /\ FillersPresent'
  <2>1. disk' \in [Zones -> [Chunks -> Ids \cup {Blank, Torn}]]
    BY <1>0, <1>1 DEF FrontTypeOK
  <2>2. FillersPresent'
    BY <1>0, <1>1, <1>4, <1>5, InsertFillers
  <2> QED BY <1>0, <1>1, <1>4, <1>5, <2>1, <2>2, PolicyFront
<1>7. ManagerOK' /\ Written' = Written /\ Committed' = Committed
  BY <1>0, <1>1, <1>2, <1>3, <1>4, <1>6, ManagerKept DEF zsmVars, ManagerOK, ZsmTypeOK
<1>8. FrontOK' /\ WholeOK'
  <2>1. WholeOK'
    <3>1. "gc_chunk" # "return_zone"
      OBVIOUS
    <3> QED BY <1>0, <1>1, <1>2, <1>3, <1>4, <1>7, <3>1, WholeKept DEF WholeOK
  <2> QED BY <1>6, <1>7, <2>1 DEF FrontOK
<1>9. /\ \A u \in Threads, z \in Zones : Pending(u, z)' <=> Pending(u, z)
      /\ \A u \in Threads : pc'[u] = IF u = t THEN "gc_chunk" ELSE pc[u]
      /\ Heap!Queued' = Heap!Queued
  <2>1. \A u \in Threads, z \in Zones : Pending(u, z)' <=> Pending(u, z)
    BY <1>0, <1>1, <1>4, PendingSame
  <2> QED BY <1>0, <1>1, <2>1 DEF FrontTypeOK, Heap!Queued
<1>10. lru_queue' \in Seq(Nodes) /\ zone_pool' \in PoolType /\ SlotsNamed'
  <2>1. PICK old \in Slots : old = Pair(gc.zone, gc.chunk)
    BY <1>2, NoPairFacts DEF Slots
  <2>2. PICK new \in Slots : new = gc.location
    BY <1>2 DEF Slots
  <2>3. OldChunk = At(zone_pool, old) /\ At(zone_pool, old).in_use
    BY <1>2, <2>1, NoPairFacts DEF OldChunk, At, Slot
  <2>4. PICK p \in zn_pair : p = OldChunk.pair
    BY <1>0, <2>3 DEF SlotsNamed, Named
  <2>5. PICK R : R = [zone_pool EXCEPT ![old.zone].chunks[old.chunk_offset].in_use = FALSE,
                                       ![old.zone].chunks_in_use = Dec(@)]
    BY Zenon
  <2>6. zone_pool' = FillSlot(R, new, p)
    BY <2>1, <2>2, <2>4, <2>5, Zenon DEF RelocateInsert, FillSlot
  <2>7. zone_pool \in PoolType /\ lru_queue \in Seq(Nodes) /\ Named(zone_pool, lru_queue)
    BY <1>0, SMTT(30) DEF PolicyTypeOK, SlotsNamed
  <2>8. R \in PoolType /\ Named(R, lru_queue)
    BY <2>5, <2>7, SlotLeft
  <2>12. Node(new, FALSE) \in Nodes /\ Node(new, FALSE).slot = new
    BY DEF Node, Nodes
  <2>9. PICK e \in Nodes : e = Node(new, FALSE) /\ e.slot = new
    BY <2>12
  <2>10. /\ lru_queue' \in Seq(Nodes)
         /\ \A i \in DOMAIN lru_queue' :
              lru_queue'[i].slot = new \/ \E j \in DOMAIN lru_queue : lru_queue'[i].slot = lru_queue[j].slot
    BY <1>1, <2>2, <2>7, <2>9, TailNode
  <2>11. zone_pool' \in PoolType /\ Named(zone_pool', lru_queue')
    BY <2>6, <2>7, <2>8, <2>10, SlotFilled
  <2> QED BY <2>10, <2>11 DEF SlotsNamed, Named, At
<1>11. PolicyTypeOK'
  BY <1>0, <1>1, <1>3, <1>9, <1>10 DEF PolicyTypeOK
<1>12. MutexOK' /\ policy_mutex = t
  BY <1>0, <1>1, MutexMove, OneInPolicy DEF InPolicy, Collecting, Relocating
<1>13. CollectorOK'
  <2>1. \A u \in Threads : u # t => pc'[u] \notin InPolicy
    BY <1>0, <1>1, <1>9, OneInPolicy DEF InPolicy, Collecting, Relocating
  <2> QED BY <1>1, <1>2, <1>3, <1>9, <1>12, <2>1, MutexAssumption
          DEF CollectorOK, InPolicy, Collecting, Relocating
<1>14. ZonesHeld' /\ ZonesFound'
  BY <1>0, <1>3, <1>7, <1>9, ZonesSame
<1> QED BY <1>8, <1>10, <1>11, <1>12, <1>13, <1>14 DEF ChunkInv, PolicyInv

\* The collector clears the mappings of a zone whose chunks it has all relocated.
LEMMA CollectClearChunk ==
  ASSUME ChunkInv, NEW t \in Threads, CollectClear(t)
  PROVE  ChunkInv'
<1>0. /\ FrontOK /\ WholeOK /\ PolicyTypeOK /\ MutexOK /\ CollectorOK /\ ZonesHeld /\ ZonesFound
      /\ FrontTypeOK(EvictPcs) /\ SlotsNamed /\ mapTypeOK /\ invalid \in [Zones -> Seq(Chunks)]
  BY DEF ChunkInv, FrontOK, PolicyInv, FrontTypeOK, ManagerOK, ZsmTypeOK
<1>1. /\ pc[t] = "gc_chunk" /\ pc' = [pc EXCEPT ![t] = "gc_reset"]
      /\ zn_cachemap_clear_zone(gc.zone)
      /\ UNCHANGED <<zsmVars, locals, disk, ratio, progress>>
      /\ UNCHANGED <<lru_queue, zone_pool, invalid_pqueue, policy_mutex, nr_evict, gc>>
  BY DEF CollectClear, Goto, policyVars
<1>2. gc.zone \in Zones
  BY <1>0, <1>1 DEF CollectorOK, Collecting
<1>3. /\ mapTypeOK' /\ UNCHANGED waiting
      /\ \A id \in Ids : zone_map'[id].type \in {zone_map[id].type, "EMPTY"}
  BY <1>0, <1>1, <1>2, ClearZoneMap DEF zn_cachemap_clear_zone
<1>4. Moves(t, "gc_reset") /\ pc[t] # "update_write"
  BY <1>1 DEF Moves, EvictPcs
<1>5. /\ FrontOK' /\ WholeOK' /\ Written' = Written
      /\ \A u \in Threads, z \in Zones : Pending(u, z)' <=> Pending(u, z)
      /\ \A u \in Threads : pc'[u] = IF u = t THEN "gc_reset" ELSE pc[u]
  <2>1. UNCHANGED <<zone_state, chunk_offset, active, free, writes_occurring, grant>>
        /\ invalid' \in [Zones -> Seq(Chunks)]
    BY <1>0, <1>1 DEF zsmVars
  <2> QED BY <1>0, <1>1, <1>3, <1>4, <2>1, MapPolicy, ZenonT(60)
<1>6. PolicyTypeOK' /\ Heap!Queued' = Heap!Queued /\ SlotsNamed'
  BY <1>0, <1>1 DEF PolicyTypeOK, Heap!Queued, SlotsNamed
<1>7. MutexOK' /\ policy_mutex = t
  BY <1>0, <1>1, MutexMove, OneInPolicy DEF InPolicy, Collecting
<1>8. CollectorOK'
  <2>1. \A u \in Threads : u # t => pc'[u] \notin InPolicy
    BY <1>0, <1>1, <1>5, OneInPolicy DEF InPolicy, Collecting
  <2> QED BY <1>0, <1>1, <1>2, <1>5, <1>7, <2>1, MutexAssumption
          DEF CollectorOK, InPolicy, Collecting, Relocating
<1>9. ZonesHeld' /\ ZonesFound'
  BY <1>0, <1>1, <1>5, <1>6, ZonesSame
<1> QED BY <1>5, <1>6, <1>7, <1>8, <1>9 DEF ChunkInv, PolicyInv

\* The manager when the collector has sent a written zone back.
LEMMA CollectorResets ==
  ASSUME ManagerOK, ControlOK, NEW z \in Written, zsm_evict(z), ControlOK',
         Holders' = Holders, held' = held, gc'.moved = gc.moved
  PROVE  /\ ManagerOK'
         /\ \/ Written' = Written \ {z} /\ zone_state'[z] = "FREE"
            \/ Written' = Written /\ "reset" \in Faults /\ zone_state' = zone_state
         /\ Committed' = {p \in Committed : zone_state'[z] = "FREE" => p.zone # z}
<1>1. W!ZsmInv
  BY ViewOfManager
<1>2. z \in Zones /\ z \in W!Written /\ z \in W!Zones /\ W!LastChunkWritten(z)
  BY SameWritten, SameNames DEF Written, W!Written
<1>3. W!zsm_evict(z) /\ W!EvictStep(z)
  BY <1>2, SameNames DEF zsm_evict, W!zsm_evict, ResetDone, W!ResetDone, ResetFailed, W!ResetFailed, W!EvictStep
<1>4. W!ZsmInv'
  BY <1>1, <1>2, <1>3, W!EvictInv, Constants
<1>5. UNCHANGED <<active, writes_occurring, grant>>
  BY DEF zsm_evict
<1>6. (ZsmTypeOK /\ QueuesMatchStates /\ ZoneHasRoom /\ HeldExclusive)'
  BY <1>4, <1>5, ManagerOfView DEF ManagerOK, ZsmTypeOK
<1>7. LentOK'
  BY <1>5 DEF ManagerOK, LentOK, NumActiveZones
<1>8. /\ \/ Written' = Written \ {z} /\ zone_state'[z] = "FREE"
         \/ Written' = Written /\ "reset" \in Faults /\ zone_state' = zone_state
      /\ Committed' = {p \in Committed : zone_state'[z] = "FREE" => p.zone # z}
  BY <1>1, <1>2, <1>3, W!EvictWritten, Constants, SameWritten, SameWrittenNext
<1> QED BY <1>6, <1>7, <1>8 DEF ManagerOK

\* The collector resets a zone.
LEMMA CollectResetChunk ==
  ASSUME ChunkInv, NEW t \in Threads, CollectReset(t)
  PROVE  ChunkInv'
<1>0. /\ FrontOK /\ WholeOK /\ PolicyTypeOK /\ MutexOK /\ CollectorOK /\ ZonesHeld /\ ZonesFound
      /\ FrontTypeOK(EvictPcs) /\ SlotsNamed /\ mapTypeOK /\ ManagerOK /\ ControlOK
  BY DEF ChunkInv, FrontOK, PolicyInv, FrontTypeOK
<1>1. /\ pc[t] = "gc_reset" /\ pc' = [pc EXCEPT ![t] = "gc_next"]
      /\ zsm_evict(gc.zone) /\ gc' = [NoCollection EXCEPT !.moved = gc.moved]
      /\ disk' = IF Backend = "ZNS" /\ zone_state[gc.zone] # "FREE" /\ zone_state'[gc.zone] = "FREE"
                 THEN [disk EXCEPT ![gc.zone] = [c \in Chunks |-> Blank]] ELSE disk
      /\ UNCHANGED <<mapVars, locals, ratio, progress>>
      /\ UNCHANGED <<lru_queue, zone_pool, invalid_pqueue, policy_mutex, nr_evict>>
  BY DEF CollectReset, Goto, ResetOnDevice
<1>2. PICK z \in Written \ Heap!Queued : z = gc.zone /\ z \in Zones /\ z # -1
  <2>1. gc.zone \in Zones /\ gc.zone # -1
    BY <1>0, <1>1, NumZonesAssumption DEF CollectorOK, Collecting, Zones
  <2> QED BY <1>0, <2>1 DEF ZonesHeld
<1>3. gc' \in GcType /\ gc'.zone = -1 /\ gc'.chunk = 0 /\ gc'.moved = gc.moved
  <2>1. gc.moved \in BOOLEAN /\ 0 \in 0 .. MaxZoneChunks
    BY <1>0, MaxZoneChunksAssumption DEF PolicyTypeOK, GcType
  <2> QED BY <1>1, <2>1 DEF NoCollection, GcType
<1>4. Moves(t, "gc_next") /\ pc[t] # "update_write" /\ UNCHANGED <<location, data_id, waiting, zone_map>>
  BY <1>1 DEF Moves, EvictPcs, locals, mapVars
<1>5. /\ disk' \in [Zones -> [Chunks -> Ids \cup {Blank, Torn}]]
      /\ \A y \in Zones : y # z => disk'[y] = disk[y]
      /\ zone_state'[z] # "FREE" => disk' = disk
  BY <1>0, <1>1, <1>2 DEF FrontTypeOK
<1>6. /\ FrontTypeOK(EvictPcs)' /\ ControlOK' /\ CompletedOK' /\ Holders' = Holders /\ held' = held
      /\ FillersPresent'
  <2>1. mapTypeOK'
    BY <1>0, <1>1 DEF mapTypeOK, mapVars
  <2>2. FillersPresent'
    BY <1>0, <1>1, <1>4, PolicyFillers
  <2> QED BY <1>0, <1>1, <1>4, <1>5, <2>1, <2>2, PolicyFront
<1>7. /\ ManagerOK'
      /\ \/ Written' = Written \ {z} /\ zone_state'[z] = "FREE"
         \/ Written' = Written /\ "reset" \in Faults /\ zone_state' = zone_state
      /\ Committed' = {p \in Committed : zone_state'[z] = "FREE" => p.zone # z}
  BY <1>0, <1>1, <1>2, <1>3, <1>6, CollectorResets
<1>8. FrontOK'
  BY <1>6, <1>7 DEF FrontOK
<1>9. \A u \in Threads : pc'[u] = IF u = t THEN "gc_next" ELSE pc[u]
  BY <1>0, <1>1 DEF FrontTypeOK
<1>10. WholeOK'
  <2> SUFFICES ASSUME WholeCommitted, WholeBeforeReturn PROVE WholeCommitted' /\ WholeBeforeReturn'
    BY <1>0, <1>3 DEF WholeOK
  <2>1. WholeCommitted'
    <3> SUFFICES ASSUME NEW p \in Committed' PROVE disk'[p.zone][p.chunk_offset] \in Ids
      BY DEF WholeCommitted
    <3>1. p \in Committed /\ p.zone \in Zones /\ (zone_state'[z] = "FREE" => p.zone # z)
      BY <1>7, NoPairFacts DEF Committed
    <3> QED BY <1>5, <3>1 DEF WholeCommitted
  <2>2. WholeBeforeReturn'
    <3> SUFFICES ASSUME NEW u \in Threads, pc'[u] = "return_zone"
                 PROVE  disk'[location[u].zone][location[u].chunk_offset] \in Ids
      BY <1>4 DEF WholeBeforeReturn
    <3>1. pc[u] = "return_zone" /\ u \in Holders
      BY <1>9 DEF Holders, HoldsZone
    <3>2. location[u].zone \in Zones /\ location[u].zone # z
      BY <1>0, <3>1, HolderNotCommitted, NoPairFacts
    <3> QED BY <1>5, <3>1, <3>2 DEF WholeBeforeReturn
  <2> QED BY <2>1, <2>2
<1>11. /\ \A u \in Threads, y \in Zones : Pending(u, y)' <=> Pending(u, y)
       /\ Heap!Queued' = Heap!Queued
  <2>1. \A u \in Threads, y \in Zones : Pending(u, y)' <=> Pending(u, y)
    BY <1>0, <1>1, <1>4, PendingSame
  <2> QED BY <1>1, <2>1 DEF Heap!Queued
<1>12. PolicyTypeOK' /\ SlotsNamed'
  BY <1>0, <1>1, <1>3, <1>11 DEF PolicyTypeOK, SlotsNamed
<1>13. MutexOK' /\ policy_mutex = t
  BY <1>0, <1>1, MutexMove, OneInPolicy DEF InPolicy, Collecting
<1>14. CollectorOK'
  <2>1. \A u \in Threads : u # t => pc'[u] \notin InPolicy
    BY <1>0, <1>1, <1>9, OneInPolicy DEF InPolicy, Collecting
  <2> QED BY <1>0, <1>1, <1>3, <1>9, <1>13, <2>1, MutexAssumption
          DEF CollectorOK, InPolicy, Collecting, Relocating
<1>15. ZonesHeld'
  <2>1. \A y \in Zones : y # -1
    BY NumZonesAssumption DEF Zones
  <2>2. Heap!Queued' \subseteq Written'
    BY <1>0, <1>2, <1>7, <1>11 DEF ZonesHeld
  <2>3. ASSUME NEW u \in Threads, NEW y \in Zones, Pending(u, y)'
        PROVE  y \in Written' \ Heap!Queued' /\ gc'.zone # y
    <3>1. y \in Written \ Heap!Queued /\ y # z
      BY <1>0, <1>2, <1>11, <2>3 DEF ZonesHeld
    <3> QED BY <1>3, <1>7, <1>11, <2>1, <3>1
  <2>4. \A u, x \in Threads, y \in Zones : Pending(u, y)' /\ Pending(x, y)' => u = x
    BY <1>0, <1>11 DEF ZonesHeld
  <2> QED BY <1>3, <2>2, <2>3, <2>4 DEF ZonesHeld
<1>16. ZonesFound'
  <2> SUFFICES ASSUME "reset" \notin Faults, NEW y \in Written'
               PROVE  y \in Heap!Queued' \/ gc'.zone = y \/ \E u \in Threads : Pending(u, y)'
    BY DEF ZonesFound
  <2>1. y \in Written /\ y # z /\ y \in Zones
    BY <1>7 DEF Written
  <2> QED BY <1>0, <1>2, <1>11, <2>1 DEF ZonesFound
<1> QED BY <1>8, <1>10, <1>12, <1>13, <1>14, <1>15, <1>16 DEF ChunkInv, PolicyInv
------------------------------------------------------------------------------
(***************************************************************************)
(* The invariant, and what follows from it for any number of threads.      *)
(***************************************************************************)
\* It holds when the program starts, ...
LEMMA ChunkInit == Init => ChunkInv
<1> SUFFICES ASSUME Init PROVE ChunkInv
  OBVIOUS
<1>1. zn_init_cache /\ zsm_init /\ PolicyInit
  BY DEF Init, zn_init_cache
<1>2. FrontTypeOK(EvictPcs) /\ ControlOK /\ CompletedOK /\ FillersPresent
      /\ WholeCommitted /\ WholeBeforeReturn
  BY <1>1, FrontInit, CompletedInit, FillersInit, WholeInit
<1>3. Holders = {} /\ \A t \in Threads : pc[t] \in {"next", "bg_done"}
  BY <1>1 DEF zn_init_cache, Holders, HoldsZone
<1>4. Cardinality(Holders) = 0
  BY <1>3, FS_EmptySet
<1>5. ManagerOK
  <2>1. ZsmInv /\ ActiveZoneBudget
    BY <1>1, ZsmInitInv, ZsmInitBudget
  <2>2. grant = held /\ writes_occurring = 0
    BY <1>1, <1>3 DEF zsm_init, held
  <2>3. HeldExclusive
    BY <1>3 DEF HeldExclusive
  <2> QED BY <1>4, <2>1, <2>2, <2>3 DEF ManagerOK, LentOK, ZsmInv, ActiveZoneBudget
<1>6. Written = {}
  BY <1>1 DEF zsm_init, Written, LastChunkWritten
<1>7. PolicyTypeOK
  <2>1. lru_queue \in Seq(Nodes) /\ policy_mutex = NULL
    BY <1>1 DEF PolicyInit
  <2>2. 0 \in Counts /\ 0 \in 0 .. MaxZoneChunks
    BY Modulus, MaxZoneChunksAssumption DEF Counts
  <2>3. zone_pool \in PoolType
    BY <1>1, <2>2 DEF PolicyInit, PoolType, SlotType
  <2>4. Heap!Queued = {} /\ invalid_pqueue \in [Heap!Queued -> Counts]
    BY <1>1 DEF PolicyInit, Heap!Init, Heap!Queued
  <2>5. gc \in GcType
    BY <1>1, <2>2 DEF PolicyInit, NoCollection, GcType
  <2>6. nr_evict \in Counts
    BY <1>1, <2>2 DEF PolicyInit
  <2> QED BY <2>1, <2>3, <2>4, <2>5, <2>6 DEF PolicyTypeOK
<1>8. MutexOK /\ CollectorOK
  BY <1>1, <1>3, MutexAssumption
     DEF MutexOK, CollectorOK, InPolicy, Collecting, Relocating, PolicyInit, NoCollection
<1>9. SlotsNamed
  <2>1. \A s \in Slots : ~At(zone_pool, s).in_use
    BY <1>1, NoPairFacts DEF PolicyInit, At, Slots
  <2>2. DOMAIN lru_queue = {}
    BY <1>1 DEF PolicyInit
  <2> QED BY <2>1, <2>2 DEF SlotsNamed, Named
<1>10. ZonesHeld /\ ZonesFound
  <2>1. Heap!Queued = {} /\ gc.zone = -1 /\ \A t \in Threads, z \in Zones : ~Pending(t, z)
    BY <1>1, <1>3 DEF PolicyInit, Heap!Init, Heap!Queued, NoCollection, Pending
  <2> QED BY <1>6, <2>1 DEF ZonesHeld, ZonesFound
<1> QED BY <1>2, <1>5, <1>7, <1>8, <1>9, <1>10 DEF ChunkInv, FrontOK, WholeOK, PolicyInv

\* ... and every step keeps it.
LEMMA ChunkStep == ChunkInv /\ [Next]_vars => ChunkInv'
<1> SUFFICES ASSUME ChunkInv, [Next]_vars PROVE ChunkInv'
  OBVIOUS
<1>1. ASSUME NEW t \in Threads, RunStep(t) PROVE ChunkInv'
  <2>1. CASE (TaskStep(t) \/ GetStep(t) \/ evict_task(t)) /\ UNCHANGED policyVars
    BY <2>1, FrontChunk
  <2>2. CASE UpdatePolicyRead(t) \/ UpdatePolicyWrite(t)
    BY <2>2, UpdateReadChunk, UpdateWriteChunk
  <2>3. CASE EvictRefused(t) \/ EvictStart(t) \/ EvictChunk(t)
    BY <2>3, EvictRefusedChunk, EvictStartChunk, EvictChunkChunk
  <2>4. CASE EvictCrash(t) \/ RelocateNowhere(t) \/ RelocateCrash(t)
    <3>1. EvictCrash(t) \/ RelocateCrash(t) => Crash(t) /\ pc[t] \in InPolicy
      BY DEF EvictCrash, RelocateCrash, InPolicy, Collecting, Relocating
    <3> QED BY <2>4, <3>1, CrashChunk, RelocateNowhereChunk
  <2>5. CASE CollectDone(t) \/ CollectZone(t) \/ CollectClear(t) \/ CollectReset(t)
    BY <2>5, CollectDoneChunk, CollectZoneChunk, CollectClearChunk, CollectResetChunk
  <2>6. CASE RelocateTo(t) \/ RelocateRead(t) \/ RelocateWrite(t) \/ RelocateInsert(t)
    BY <2>6, RelocateToChunk, RelocateReadChunk, RelocateWriteChunk, RelocateInsertChunk
  <2> QED BY <1>1, <2>1, <2>2, <2>3, <2>4, <2>5, <2>6
          DEF RunStep, zn_policy_chunk_evict, zn_policy_chunk_gc
<1>2. ASSUME NEW t \in Threads, WakeupStep(t) PROVE ChunkInv'
  BY <1>2, FrontChunk DEF WakeupStep
<1>3. CASE UNCHANGED vars
  <2>1. FrontOK' /\ WholeOK'
    <3>1. UNCHANGED <<zsmVars, mapVars, locals, disk, ratio, progress, pc, gc>>
      BY <1>3 DEF vars, cacheVars, policyVars
    <3>2. /\ ManagerOK' = ManagerOK /\ FrontTypeOK(EvictPcs)' = FrontTypeOK(EvictPcs)
      BY <3>1 DEF ManagerOK, ZsmTypeOK, QueuesMatchStates, ZoneHasRoom, HeldExclusive, LentOK,
                  NumActiveZones, Holders, held, zsmVars, locals, FrontTypeOK, mapTypeOK, mapVars,
                  progress
    <3>3. ControlOK' = ControlOK /\ CompletedOK' = CompletedOK /\ FillersPresent' = FillersPresent
      BY <3>1 DEF ControlOK, CompletedOK, Exited, FillersPresent, Fillers, mapVars, locals, progress
    <3>4. WholeOK' = WholeOK
      BY <3>1 DEF WholeOK, WholeCommitted, WholeBeforeReturn, Committed, ChunkWritten, LastChunkWritten,
                  zsmVars, locals
    <3> QED BY <3>2, <3>3, <3>4 DEF ChunkInv, FrontOK
  <2>2. PolicyInv' = PolicyInv
    BY <1>3 DEF vars, policyVars, cacheVars, zsmVars, locals, PolicyInv, PolicyTypeOK, Heap!Queued,
                MutexOK, CollectorOK, Slot, SlotsNamed, ZonesHeld, ZonesFound, Written,
                LastChunkWritten, Pending
  <2> QED BY <2>1, <2>2 DEF ChunkInv
<1> QED BY <1>1, <1>2, <1>3 DEF Next, Terminated

\* The program with the chunk policy keeps its invariant, whatever the number of
\* zones, chunks and threads, whatever the device refuses, and also after the
\* collector has relocated chunks.
THEOREM ChunkInductive == Spec => []ChunkInv
<1>1. ChunkInv /\ [Next]_vars => ChunkInv'
  BY ChunkStep
<1> QED BY <1>1, ChunkInit, PTL DEF Spec

\* Every variable of the program keeps its type: in particular the slots, counters and
\* queues of the policy, and what the collector has in hand (chunk.c).
THEOREM ChunkTypeCorrect == Spec => []ChunkTypeOK
<1>1. ChunkInv => ChunkTypeOK
  <2> SUFFICES ASSUME ChunkInv PROVE ChunkTypeOK
    OBVIOUS
  <2>1. FrontTypeOK(EvictPcs) /\ ZsmTypeOK /\ PolicyTypeOK
    BY DEF ChunkInv, FrontOK, ManagerOK, PolicyInv
  <2>2. nr_threads_completed \in 0 .. Cardinality(Workers)
    BY CompletedBound DEF ChunkInv, FrontOK
  <2>3. cacheTypeOK(EvictPcs)
    BY <2>1, <2>2 DEF FrontTypeOK, cacheTypeOK, OutsideGet
  <2> QED BY <2>1, <2>3 DEF PolicyTypeOK, Nodes, PoolType, SlotType, Counts, GcType, ChunkTypeOK
<1> QED BY <1>1, ChunkInductive, PTL

\* No lost wakeup with this policy either: as long as a thread sleeps on
\* write_finished of an id, another one will insert that id or give it up
\* (cachemap.c:60), and the collector's own insertion wakes who waits for its id.
THEOREM ChunkNoLostWakeup == Spec => []WaitersHaveFiller
<1>1. ChunkInv => WaitersHaveFiller
  BY WaitersServed DEF ChunkInv, FrontOK
<1> QED BY <1>1, ChunkInductive, PTL

\* On a zoned device a chunk the manager counts as written holds the whole data of
\* some id, whatever fails, also when the collector writes to a place it was never
\* given (chunk.c:108-131): the device refuses that write.
THEOREM ChunkChunksWhole ==
  ASSUME Backend = "ZNS"
  PROVE  Spec => []CommittedChunksWhole
<1>1. ChunkInv => CommittedChunksWhole
  BY CommittedWhole DEF ChunkInv, WholeOK
<1> QED BY <1>1, ChunkInductive, PTL

\* The device's limit of active zones is kept also by the collector, which never
\* returns the zones it was given, and a worker's zone is written by nobody else.
THEOREM ChunkKeepsZsm == Spec => [](NumActiveZones <= MaxNrActiveZones /\ HeldExclusive)
<1>1. ChunkInv => NumActiveZones <= MaxNrActiveZones /\ HeldExclusive
  BY DEF ChunkInv, FrontOK, ManagerOK, LentOK
<1> QED BY <1>1, ChunkInductive, PTL
------------------------------------------------------------------------------
(***************************************************************************)
(* The full zones and the order the collector takes them in.  Every full   *)
(* zone is in one place, whatever the threads do.  Its priority is another *)
(* matter: zn_policy_chunk_update (chunk.c:42-53) counts a chunk after its *)
(* zone was returned, so a worker that is late with a chunk may find its   *)
(* zone already queued by the worker that wrote the last one, and then     *)
(* leaves the heap with a priority that is too small.  The theorems say    *)
(* that this late update is all that can go wrong with the priorities.     *)
(***************************************************************************)
\* What a step may do to the policy.
LEMMA PolicySteps ==
  ASSUME [Next]_vars
  PROVE  \/ UNCHANGED policyVars
         \/ \E t \in Threads :
              \/ UpdatePolicyRead(t) \/ UpdatePolicyWrite(t) \/ EvictStart(t) \/ EvictChunk(t)
              \/ CollectDone(t) \/ CollectZone(t) \/ RelocateTo(t) \/ RelocateNowhere(t)
              \/ RelocateRead(t) \/ RelocateInsert(t) \/ CollectReset(t)
BY DEF Next, RunStep, WakeupStep, Terminated, vars, zn_policy_chunk_evict, zn_policy_chunk_gc,
       EvictRefused, EvictCrash, Crash, RelocateWrite, RelocateCrash, CollectClear

\* A chunk is counted before its zone is queued.
UpdatesInOrder ==
  [][\A t \in Threads : UpdatePolicyWrite(t) => location[t].zone \notin Heap!Queued]_vars

\* The priorities are exact, and the collector has the cheapest zone.
PrioritiesOK ==
  ~gc.moved =>
    /\ \A z \in Heap!Queued : invalid_pqueue[z] = zone_pool[z].chunks_in_use
    /\ gc.zone # -1 =>
         \A z \in Heap!Queued : zone_pool[gc.zone].chunks_in_use <= zone_pool[z].chunks_in_use

\* What an update for a written chunk does to the pool and the priority queue.
LEMMA UpdateFacts ==
  ASSUME ChunkInv, NEW t \in Threads, UpdatePolicyWrite(t)
  PROVE  /\ pc[t] = "update_write" /\ location[t] \in zn_pair /\ policy_mutex = NULL
         /\ SlotSet(zone_pool, zone_pool', location[t], [pair |-> location[t], in_use |-> TRUE],
                    Inc(zone_pool[location[t].zone].chunks_in_use),
                    zone_pool[location[t].zone].has_entry \/ location[t].chunk_offset = MaxZoneChunks - 1)
         /\ lru_queue' = Append(Unlink(lru_queue, location[t]), Node(location[t], TRUE))
         /\ IF location[t].chunk_offset = MaxZoneChunks - 1
            THEN /\ location[t].zone \notin Heap!Queued
                 /\ Heap!Queued' = Heap!Queued \cup {location[t].zone}
                 /\ invalid_pqueue' = [x \in Heap!Queued \cup {location[t].zone} |->
                      IF x = location[t].zone THEN zone_pool'[x].chunks_in_use ELSE invalid_pqueue[x]]
            ELSE Heap!Queued' = Heap!Queued /\ invalid_pqueue' = invalid_pqueue
         /\ UNCHANGED <<policy_mutex, nr_evict, gc>>
         /\ UNCHANGED <<zsmVars, mapVars, locals, disk, ratio, progress>>
<1>1. /\ pc[t] = "update_write" /\ policy_mutex = NULL /\ UpdateWrite(location[t])
      /\ UNCHANGED <<policy_mutex, nr_evict, gc>>
      /\ UNCHANGED <<zsmVars, mapVars, locals, disk, ratio, progress>>
  BY DEF UpdatePolicyWrite, Goto, zn_policy_chunk_update
<1>2. location[t] \in zn_pair /\ location[t] \in Slots
  BY <1>1, SMTT(30) DEF ChunkInv, FrontOK, ControlOK, HasLocation, Slots
<1>3. SlotSet(zone_pool, zone_pool', location[t], [pair |-> location[t], in_use |-> TRUE],
              Inc(zone_pool[location[t].zone].chunks_in_use),
              zone_pool[location[t].zone].has_entry \/ location[t].chunk_offset = MaxZoneChunks - 1)
  <2>1. [pair |-> location[t], in_use |-> TRUE] \in SlotType
    BY <1>2 DEF SlotType
  <2>2. (location[t].chunk_offset = MaxZoneChunks - 1) \in BOOLEAN
    OBVIOUS
  <2>3. zone_pool \in PoolType
    BY SMTT(30) DEF ChunkInv, PolicyInv, PolicyTypeOK
  <2> QED BY <1>1, <1>2, <2>1, <2>2, <2>3, SlotWritten, Zenon DEF UpdateWrite
<1>4. lru_queue' = Append(Unlink(lru_queue, location[t]), Node(location[t], TRUE))
  BY <1>1 DEF UpdateWrite
<1>5. CASE location[t].chunk_offset = MaxZoneChunks - 1
  <2>1. Heap!Insert(location[t].zone, zone_pool'[location[t].zone].chunks_in_use)
    BY <1>1, <1>5 DEF UpdateWrite
  <2> QED BY <1>1, <1>2, <1>3, <1>4, <1>5, <2>1 DEF Heap!Insert, Heap!Queued
<1>6. CASE location[t].chunk_offset # MaxZoneChunks - 1
  <2>1. UNCHANGED invalid_pqueue
    BY <1>1, <1>6 DEF UpdateWrite
  <2> QED BY <1>1, <1>2, <1>3, <1>4, <1>6, <2>1 DEF Heap!Queued
<1> QED BY <1>5, <1>6

\* The priorities stay exact when no update is late.
LEMMA PrioritiesStep ==
  ASSUME ChunkInv, PrioritiesOK, [Next]_vars,
         [\A t \in Threads : UpdatePolicyWrite(t) => location[t].zone \notin Heap!Queued]_vars
  PROVE  PrioritiesOK'
<1>0. /\ PolicyTypeOK /\ MutexOK /\ CollectorOK /\ ZonesHeld
      /\ \A z \in Heap!Queued : z \in Zones /\ z # -1
  BY NumZonesAssumption DEF ChunkInv, PolicyInv, PolicyTypeOK, Zones
<1>1. CASE UNCHANGED policyVars
  BY <1>1 DEF policyVars, PrioritiesOK, Heap!Queued
<1>2. ASSUME NEW t \in Threads, UpdatePolicyRead(t) PROVE PrioritiesOK'
  <2>1. UNCHANGED <<zone_pool, invalid_pqueue, gc>>
    BY <1>2 DEF UpdatePolicyRead, zn_policy_chunk_update, UpdateRead
  <2> QED BY <2>1 DEF PrioritiesOK, Heap!Queued
<1>3. ASSUME NEW t \in Threads, UpdatePolicyWrite(t) PROVE PrioritiesOK'
  <2>1. PICK z \in Zones : z = location[t].zone
    BY <1>3, UpdateFacts, NoPairFacts
  <2>2. z \notin Heap!Queued
    <3>1. pc' # pc
      BY <1>3 DEF UpdatePolicyWrite, Goto, ChunkInv, FrontOK, FrontTypeOK
    <3>2. vars' # vars
      BY <3>1 DEF vars, cacheVars
    <3> QED BY <1>3, <2>1, <3>2
  <2>3. /\ \A y \in Zones : y # z => zone_pool'[y].chunks_in_use = zone_pool[y].chunks_in_use
        /\ gc' = gc /\ gc.zone = -1
    BY <1>0, <1>3, <2>1, UpdateFacts, MutexFree, ZenonT(60) DEF SlotSet
  <2>4. \A y \in Heap!Queued' : invalid_pqueue'[y] = IF y = z THEN zone_pool'[y].chunks_in_use ELSE invalid_pqueue[y]
    <3>1. CASE location[t].chunk_offset = MaxZoneChunks - 1
      <4>1. /\ Heap!Queued' = Heap!Queued \cup {z}
            /\ invalid_pqueue' = [x \in Heap!Queued \cup {z} |->
                                   IF x = z THEN zone_pool'[x].chunks_in_use ELSE invalid_pqueue[x]]
        BY <1>3, <2>1, <3>1, UpdateFacts
      <4> QED BY <4>1
    <3>2. CASE location[t].chunk_offset # MaxZoneChunks - 1
      <4>1. Heap!Queued' = Heap!Queued /\ invalid_pqueue' = invalid_pqueue
        BY <1>3, <2>1, <3>2, UpdateFacts
      <4> QED BY <2>2, <4>1
    <3> QED BY <3>1, <3>2
  <2>5. Heap!Queued' \subseteq Heap!Queued \cup {z}
    BY <1>3, <2>1, UpdateFacts
  <2> QED BY <1>0, <2>3, <2>4, <2>5 DEF PrioritiesOK
<1>4. ASSUME NEW t \in Threads, EvictStart(t) \/ CollectDone(t) \/ RelocateRead(t) \/ CollectReset(t)
      PROVE  PrioritiesOK'
  <2>1. UNCHANGED <<zone_pool, invalid_pqueue>> /\ (gc'.zone \in {-1, gc.zone}) /\ gc'.moved = gc.moved
    <3>1. gc \in GcType
      BY <1>0 DEF PolicyTypeOK
    <3>2. CASE EvictStart(t) \/ CollectDone(t)
      BY <3>2 DEF EvictStart, CollectDone
    <3>3. CASE RelocateRead(t)
      BY <3>1, <3>3 DEF RelocateRead, GcType
    <3>4. CASE CollectReset(t)
      BY <3>4 DEF CollectReset, NoCollection
    <3> QED BY <1>4, <3>2, <3>3, <3>4
  <2> QED BY <2>1 DEF PrioritiesOK, Heap!Queued
<1>5. ASSUME NEW t \in Threads, EvictChunk(t) PROVE PrioritiesOK'
  <2>1. PICK v \in Slots : v = LruVictim /\ v.zone \in Zones
    BY <1>5, EvictFacts, NoPairFacts DEF Slots
  <2>2. /\ \A y \in Zones : y # v.zone => zone_pool'[y].chunks_in_use = zone_pool[y].chunks_in_use
        /\ Heap!Queued' = Heap!Queued
        /\ \A z \in Heap!Queued :
             invalid_pqueue'[z] = IF z = v.zone THEN zone_pool'[z].chunks_in_use ELSE invalid_pqueue[z]
    BY <1>5, <2>1, EvictFacts DEF SlotSet
  <2>3. gc' = gc /\ gc.zone = -1
    BY <1>0, <1>5 DEF EvictChunk, CollectorOK
  <2> QED BY <1>0, <2>2, <2>3 DEF PrioritiesOK
<1>6. ASSUME NEW t \in Threads, CollectZone(t) PROVE PrioritiesOK'
  <2>1. PICK z \in Heap!Queued :
          /\ \A x \in Heap!Queued : invalid_pqueue[z] <= invalid_pqueue[x]
          /\ invalid_pqueue' = [x \in Heap!Queued \ {z} |-> invalid_pqueue[x]]
          /\ gc' = TakeZone(gc, z) /\ UNCHANGED zone_pool
    BY <1>6 DEF CollectZone, Heap!ExtractMin, TakeZone
  <2>2. gc'.zone = z /\ gc'.moved = gc.moved
    BY <1>0, <2>1, GcZone DEF PolicyTypeOK
  <2>3. Heap!Queued' = Heap!Queued \ {z}
    BY <2>1 DEF Heap!Queued
  <2> QED BY <2>1, <2>2, <2>3 DEF PrioritiesOK
<1>7. ASSUME NEW t \in Threads, RelocateTo(t) \/ RelocateNowhere(t) \/ RelocateInsert(t)
      PROVE  PrioritiesOK'
  <2>1. gc'.moved
    <3>1. gc \in GcType
      BY <1>0 DEF PolicyTypeOK
    <3>2. CASE RelocateTo(t) \/ RelocateNowhere(t)
      BY <3>1, <3>2 DEF RelocateTo, RelocateNowhere, GcType
    <3>3. CASE RelocateInsert(t)
      <4>1. gc.moved
        BY <1>0, <3>3, ZenonT(60) DEF RelocateInsert, CollectorOK, Relocating
      <4>2. gc' = Advance(gc)
        BY <3>3, Zenon DEF RelocateInsert, Advance
      <4> QED BY <3>1, <4>1, <4>2, SMTT(30) DEF Advance, GcType
    <3> QED BY <1>7, <3>2, <3>3
  <2> QED BY <2>1 DEF PrioritiesOK
<1> QED BY <1>1, <1>2, <1>3, <1>4, <1>5, <1>6, <1>7, PolicySteps

\* Every full zone is in exactly one place: in the priority queue, with the collector,
\* or with the worker that filled it and has not told the policy yet.
LEMMA ZonesCounted ==
  ASSUME ChunkInv, "reset" \notin Faults, NEW z \in Zones
  PROVE  LET queued == IF z \in Heap!Queued THEN 1 ELSE 0
             collecting == IF gc.zone = z THEN 1 ELSE 0
             pending == Cardinality({t \in Threads : /\ pc[t] = "update_write"
                                                     /\ location[t] = Pair(z, MaxZoneChunks - 1)})
         IN queued + collecting + pending = (IF LastChunkWritten(z) THEN 1 ELSE 0)
<1> DEFINE P == {t \in Threads : Pending(t, z)}
<1>1. P = {t \in Threads : pc[t] = "update_write" /\ location[t] = Pair(z, MaxZoneChunks - 1)}
  BY DEF Pending
<1>2. z # -1 /\ ZonesHeld /\ ZonesFound /\ (LastChunkWritten(z) <=> z \in Written)
  BY NumZonesAssumption DEF ChunkInv, PolicyInv, Zones, Written
<1>3. CASE P = {}
  <2>1. Cardinality(P) = 0
    BY <1>3, FS_EmptySet
  <2>2. ~(z \in Heap!Queued /\ gc.zone = z)
    BY <1>2 DEF ZonesHeld
  <2>3. z \in Written <=> z \in Heap!Queued \/ gc.zone = z
    BY <1>2, <1>3 DEF ZonesHeld, ZonesFound
  <2> QED BY <1>1, <1>2, <2>1, <2>2, <2>3
<1>4. CASE P # {}
  <2>1. PICK t \in Threads : Pending(t, z)
    BY <1>4
  <2>2. P = {t}
    BY <1>2, <2>1 DEF ZonesHeld
  <2>3. Cardinality(P) = 1
    BY <2>2, FS_Singleton
  <2>4. z \in Written /\ z \notin Heap!Queued /\ gc.zone # z
    BY <1>2, <2>1 DEF ZonesHeld
  <2> QED BY <1>1, <1>2, <2>3, <2>4
<1> QED BY <1>3, <1>4

\* Whatever the number of threads, no full zone is lost to the collector nor known to
\* it twice, also after it has relocated chunks: zn_minheap_insert (chunk.c:47-53)
\* never meets a zone that is queued already.
THEOREM FullZonesOnce ==
  ASSUME "reset" \notin Faults
  PROVE  Spec => [](\A z \in Zones :
           (IF z \in Heap!Queued THEN 1 ELSE 0) + (IF gc.zone = z THEN 1 ELSE 0)
           + Cardinality({t \in Threads : /\ pc[t] = "update_write"
                                          /\ location[t] = Pair(z, MaxZoneChunks - 1)})
             = (IF LastChunkWritten(z) THEN 1 ELSE 0))
<1>1. ChunkInv => \A z \in Zones :
           (IF z \in Heap!Queued THEN 1 ELSE 0) + (IF gc.zone = z THEN 1 ELSE 0)
           + Cardinality({t \in Threads : /\ pc[t] = "update_write"
                                          /\ location[t] = Pair(z, MaxZoneChunks - 1)})
             = (IF LastChunkWritten(z) THEN 1 ELSE 0)
  BY ZonesCounted
<1> QED BY <1>1, ChunkInductive, PTL

\* The invariant of the priorities.
LEMMA PrioritiesInductive == Spec /\ UpdatesInOrder => [](ChunkInv /\ PrioritiesOK)
<1>1. Init => PrioritiesOK
  BY DEF Init, PolicyInit, Heap!Init, Heap!Queued, PrioritiesOK
<1>2. ChunkInv /\ PrioritiesOK /\ [Next]_vars
      /\ [\A t \in Threads : UpdatePolicyWrite(t) => location[t].zone \notin Heap!Queued]_vars
        => PrioritiesOK'
  BY PrioritiesStep
<1> QED BY <1>1, <1>2, ChunkInductive, PTL DEF Spec, UpdatesInOrder

\* As long as no update is late, every full zone is queued once and under its exact
\* number of chunks in use (chunk.c:47-53, 193-197).
THEOREM FullZonesKept ==
  ASSUME "reset" \notin Faults
  PROVE  Spec /\ UpdatesInOrder => []FullZonesQueued
<1>1. ChunkInv /\ PrioritiesOK => FullZonesQueued
  <2> SUFFICES ASSUME ChunkInv, PrioritiesOK PROVE FullZonesQueued
    OBVIOUS
  <2>1. \A z \in Zones : ~gc.moved /\ z \in Heap!Queued => invalid_pqueue[z] = zone_pool[z].chunks_in_use
    BY DEF PrioritiesOK
  <2> QED BY <2>1, ZonesCounted DEF FullZonesQueued
<1> QED BY <1>1, PrioritiesInductive, PTL

\* And the collector takes a zone with the fewest chunks in use (chunk.c:90).
THEOREM CheapestZoneTaken == Spec /\ UpdatesInOrder => []CheapestZoneFirst
<1>1. ChunkInv /\ PrioritiesOK => CheapestZoneFirst
  <2> SUFFICES ASSUME ChunkInv, PrioritiesOK, NEW t \in Threads, pc[t] = "gc_chunk", ~gc.moved,
                      NEW z \in Heap!Queued
               PROVE  zone_pool[gc.zone].chunks_in_use <= zone_pool[z].chunks_in_use
    BY DEF CheapestZoneFirst
  <2>1. gc.zone # -1
    BY NumZonesAssumption DEF ChunkInv, PolicyInv, CollectorOK, Collecting, Zones
  <2> QED BY <2>1 DEF PrioritiesOK
<1> QED BY <1>1, PrioritiesInductive, PTL

\* With one chunk per zone no update can be late.
THEOREM OneChunkInOrder ==
  ASSUME MaxZoneChunks = 1
  PROVE  Spec => UpdatesInOrder
<1>1. ChunkInv /\ [Next]_vars
      => [\A t \in Threads : UpdatePolicyWrite(t) => location[t].zone \notin Heap!Queued]_vars
  <2> SUFFICES ASSUME ChunkInv, NEW t \in Threads, UpdatePolicyWrite(t)
               PROVE  location[t].zone \notin Heap!Queued
    OBVIOUS
  <2>1. location[t].chunk_offset = MaxZoneChunks - 1
    <3>1. location[t] \in zn_pair
      BY UpdateFacts
    <3>2. location[t].chunk_offset \in 0 .. 0
      BY <3>1, NoPairFacts DEF Chunks
    <3> QED BY <3>2
  <2> QED BY <2>1, UpdateFacts
<1> QED BY <1>1, ChunkInductive, PTL DEF Spec, UpdatesInOrder

\* The policy itself fills no zone: the collector never returns the zones it gets.
LEMMA PolicyWritten ==
  ASSUME ChunkInv, NEW t \in Threads, zn_policy_chunk_evict(t)
  PROVE  Written' \subseteq Written
<1>0. FrontTypeOK(EvictPcs) /\ ManagerOK /\ ControlOK /\ PolicyTypeOK /\ CollectorOK /\ ZonesHeld
  BY DEF ChunkInv, FrontOK, PolicyInv
<1>1. CASE RelocateTo(t) \/ RelocateNowhere(t)
  <2>1. /\ zsm_get_active_zone_success(t) \/ zsm_get_active_zone_error(t) \/ UNCHANGED zsmVars
        /\ pc[t] = "gc_chunk" /\ (pc' = [pc EXCEPT ![t] = "gc_read"] \/ pc' = [pc EXCEPT ![t] = "crashed"])
        /\ UNCHANGED location
    BY <1>1, Zenon DEF RelocateTo, RelocateNowhere, NoActiveZone, locals
  <2>2. Holders' = Holders
    BY <1>0, <2>1 DEF Holders, HoldsZone, FrontTypeOK
  <2>3. gc'.moved
    BY <1>0, <1>1 DEF RelocateTo, RelocateNowhere, PolicyTypeOK, GcType
  <2> QED BY <1>0, <2>1, <2>2, <2>3, CollectorGets
<1>2. CASE CollectReset(t)
  <2>1. gc.zone \in Zones /\ zsm_evict(gc.zone)
    BY <1>0, <1>2 DEF CollectReset, Goto, ResetOnDevice, CollectorOK, Collecting
  <2>2. CASE UNCHANGED <<zone_state, chunk_offset>>
    BY <2>2 DEF Written, LastChunkWritten
  <2>3. CASE ~UNCHANGED <<zone_state, chunk_offset>>
    BY <1>0, <2>1, <2>3, MaxZoneChunksAssumption
       DEF zsm_evict, ResetDone, ResetFailed, Written, LastChunkWritten, ManagerOK, ZsmTypeOK
  <2> QED BY <2>2, <2>3
<1>3. CASE ~(RelocateTo(t) \/ RelocateNowhere(t) \/ CollectReset(t))
  <2>1. UNCHANGED <<zone_state, chunk_offset>>
    BY <1>3 DEF zn_policy_chunk_evict, zn_policy_chunk_gc, EvictRefused, EvictStart, EvictChunk, EvictCrash,
         Crash, ReturnFromEvict, CollectDone, CollectZone, RelocateRead, RelocateWrite, RelocateInsert,
         RelocateCrash, CollectClear, zsm_mark_chunk_invalid, zsmVars
  <2> QED BY <2>1 DEF Written, LastChunkWritten
<1> QED BY <1>1, <1>2, <1>3

\* A worker that is about to tell the policy of a chunk has just returned its zone.
JustReturned ==
  \A t \in Threads :
    pc[t] = "update_write" =>
      location[t].chunk_offset = MaxZoneChunks - 1 \/ location[t].zone \notin Written

\* One worker comes to its update only from the return of its zone, and another thread
\* does not take it there.
LEMMA UpdateComesFromReturn ==
  ASSUME ChunkInv, NEW w, Workers = {w}, w \in Threads, NEW u \in Threads, RunStep(u),
         ~ReturnZone(w), pc'[w] = "update_write"
  PROVE  pc[w] = "update_write" /\ location'[w] = location[w] /\ Written' \subseteq Written
<1>0. FrontOK /\ FrontTypeOK(EvictPcs) /\ ControlOK
  BY DEF ChunkInv, FrontOK
<1>1. CASE (TaskStep(u) \/ GetStep(u) \/ evict_task(u)) /\ UNCHANGED policyVars
  <2>1. pc[w] = "update_write" /\ location'[w] = location[w]
    <3>1. CASE u = w
      BY <1>0, <1>1, <3>1
         DEF FrontTypeOK, TaskStep, TakeRequest, WorkloadDone, CountCompleted, GetStep, evict_task,
             zn_cachemap_find, FindReturnLocation, FindReturnType, ReadChunk, HitDone, GetZone,
             WriteChunk, MissDone, UndoZoneGet, UndoMap, Goto, Return, CheckDone, CheckFreeZones
    <3>2. CASE u # w
      <4>1. u \notin Workers /\ pc[u] \notin InGet \cup {"next", "finish", "failed"}
        BY <1>0, <3>2 DEF ControlOK
      <4>2. ~TaskStep(u)
        BY <4>1 DEF TaskStep, TakeRequest, WorkloadDone, CountCompleted, Goto
      <4>3. ~GetStep(u)
        BY <4>1, Zenon
           DEF GetStep, zn_cachemap_find, FindReturnLocation, FindReturnType, ReadChunk, HitDone, GetZone,
               ReturnZone, WriteChunk, MissDone, UndoZoneGet, UndoMap, Goto, Return, InGet
      <4> QED BY <1>0, <1>1, <3>2, <4>2, <4>3
              DEF FrontTypeOK, evict_task, CheckDone, CheckFreeZones, Goto, locals
    <3> QED BY <3>1, <3>2
  <2>2. ~ReturnZone(u)
    BY <1>0, <1>1 DEF ControlOK, ReturnZone, Goto, InGet
  <2> QED BY <1>0, <1>1, <2>1, <2>2, FrontWritten
<1>2. CASE UpdatePolicyRead(u) \/ UpdatePolicyWrite(u)
  BY <1>0, <1>2 DEF FrontTypeOK, UpdatePolicyRead, UpdatePolicyWrite, Goto, zsmVars, locals, Written, LastChunkWritten
<1>3. CASE zn_policy_chunk_evict(u)
  <2>1. \E to : pc' = pc \/ (pc' = [pc EXCEPT ![u] = to] /\ to # "update_write")
    BY <1>3, ZenonT(60)
       DEF zn_policy_chunk_evict, zn_policy_chunk_gc, EvictRefused, EvictStart, EvictChunk,
           EvictCrash, Crash, ReturnFromEvict, AfterEvict, CollectDone, CollectZone, RelocateTo,
           RelocateNowhere, RelocateRead, RelocateWrite, RelocateInsert, RelocateCrash,
           CollectClear, CollectReset, Goto, cacheVars
  <2>2. pc[w] = "update_write"
    BY <1>0, <2>1 DEF FrontTypeOK
  <2>3. UNCHANGED locals
    BY <1>3, Zenon
       DEF zn_policy_chunk_evict, zn_policy_chunk_gc, EvictRefused, EvictStart, EvictChunk,
           EvictCrash, Crash, ReturnFromEvict, CollectDone, CollectZone, RelocateTo,
           RelocateNowhere, RelocateRead, RelocateWrite, RelocateInsert, RelocateCrash,
           CollectClear, CollectReset, cacheVars
  <2>4. UNCHANGED location
    BY <2>3 DEF locals
  <2> QED BY <1>3, <2>2, <2>4, PolicyWritten
<1> QED BY <1>1, <1>2, <1>3 DEF RunStep

\* When the program has one worker, whatever threads evict beside it.
LEMMA JustReturnedStep ==
  ASSUME NEW w, Workers = {w}, ChunkInv, JustReturned, [Next]_vars
  PROVE  JustReturned'
<1>0. FrontOK /\ FrontTypeOK(EvictPcs) /\ w \in Threads /\ ManagerOK /\ ControlOK /\ ControlOK'
  BY ChunkStep, WorkersAssumption DEF ChunkInv, FrontOK
<1> SUFFICES ASSUME pc'[w] = "update_write"
             PROVE  location'[w].chunk_offset = MaxZoneChunks - 1 \/ location'[w].zone \notin Written'
  BY <1>0 DEF JustReturned, ControlOK, InGet
<1>1. CASE ReturnZone(w)
  <2>1. w \in Holders /\ location'[w] = location[w]
    BY <1>0, <1>1 DEF ReturnZone, Goto, Holders, HoldsZone, locals
  <2>2. location[w].zone \notin Written
    BY <1>0, <2>1, HolderNotCommitted
  <2>3. Written' = Written \cup
          (IF location[w].chunk_offset = MaxZoneChunks - 1 THEN {location[w].zone} ELSE {})
    BY <1>0, <1>1, FrontWritten DEF GetStep
  <2> QED BY <2>1, <2>2, <2>3
<1>2. CASE ~ReturnZone(w)
  <2>1. pc[w] = "update_write" /\ location'[w] = location[w] /\ Written' \subseteq Written
    <3>1. ASSUME NEW u \in Threads, RunStep(u)
          PROVE  pc[w] = "update_write" /\ location'[w] = location[w] /\ Written' \subseteq Written
      BY <1>0, <1>2, <3>1, UpdateComesFromReturn
    <3>2. ASSUME (\E u \in Threads : WakeupStep(u)) \/ UNCHANGED vars
          PROVE  UNCHANGED <<pc, location, zone_state, chunk_offset>>
      BY <3>2 DEF WakeupStep, Wakeup, vars, cacheVars, zsmVars, locals
    <3>3. UNCHANGED <<zone_state, chunk_offset>> => Written' = Written
      BY DEF Written, LastChunkWritten
    <3> QED BY <3>1, <3>2, <3>3 DEF Next, Terminated
  <2> QED BY <1>0, <2>1 DEF JustReturned
<1> QED BY <1>1, <1>2

\* The invariant of the program with one worker.
LEMMA JustReturnedInductive ==
  ASSUME NEW w, Workers = {w}
  PROVE  Spec => [](ChunkInv /\ JustReturned)
<1>1. Init => JustReturned
  BY DEF Init, zn_init_cache, JustReturned
<1>2. ChunkInv /\ JustReturned /\ [Next]_vars => JustReturned'
  BY JustReturnedStep
<1> QED BY <1>1, <1>2, ChunkInductive, PTL DEF Spec

\* One worker is never late either, whatever threads evict and collect beside it
\* (main starts one, zncache.c:458): chunk.c:47 queues a zone when all its chunks are
\* counted, and the theorems about the priorities hold without a hypothesis.
THEOREM OneWorkerInOrder ==
  ASSUME NEW w, Workers = {w}
  PROVE  Spec => UpdatesInOrder
<1>1. ChunkInv /\ JustReturned /\ [Next]_vars
      => [\A t \in Threads : UpdatePolicyWrite(t) => location[t].zone \notin Heap!Queued]_vars
  <2> SUFFICES ASSUME ChunkInv, JustReturned, NEW t \in Threads, UpdatePolicyWrite(t)
               PROVE  location[t].zone \notin Heap!Queued
    OBVIOUS
  <2>1. CASE location[t].chunk_offset = MaxZoneChunks - 1
    BY <2>1, UpdateFacts
  <2>2. CASE location[t].chunk_offset # MaxZoneChunks - 1
    BY <2>2, UpdateFacts DEF JustReturned, ChunkInv, PolicyInv, ZonesHeld
  <2> QED BY <2>1, <2>2
<1> QED BY <1>1, JustReturnedInductive, PTL DEF Spec, UpdatesInOrder
------------------------------------------------------------------------------
(***************************************************************************)
(* The number of chunks to evict, EVICT_LOW_THRESH_CHUNKS - free_chunks in *)
(* uint32_t (chunk.c:164-179).  free_chunks is computed from the length of *)
(* the LRU queue, which is no number of chunks: a relocation leaves the    *)
(* old node in the queue and appends a second one (chunk.c:128-137).  The  *)
(* queue may so outgrow the device, free_chunks then wraps around, and     *)
(* nothing is evicted until it has shrunk.  How far can it grow?  In one   *)
(* run of the collector by at most one node for every chunk of the device, *)
(* since no zone enters the priority queue while the mutex is held; and    *)
(* between two runs by one node for every request.                         *)
(***************************************************************************)
\* The requests that may still append a node.
Owing == {t \in Workers : pc[t] \notin OutsideGet \cup {"insert"}}

\* The chunks the collector may still relocate in this run.
LeftToCollect ==
  Cardinality(Heap!Queued) * MaxZoneChunks + (IF gc.zone = -1 THEN 0 ELSE MaxZoneChunks - gc.chunk)

RoomOK ==
  /\ Cardinality(Owing) <= workload_index
  /\ policy_mutex = NULL =>
       Len(lru_queue) + Cardinality(Owing) <= 2 * total_chunks + workload_index
  /\ policy_mutex # NULL =>
       /\ Len(lru_queue) + LeftToCollect <= 2 * total_chunks
       /\ nr_evict <= Len(lru_queue)

\* Products, out of the reach of linear arithmetic.
LEMMA Products ==
  ASSUME NEW m \in Nat
  PROVE  /\ \A n \in Nat \ {0} : n * m = (n - 1) * m + m
         /\ \A n \in Nat, k \in Nat : n <= k => n * m <= k * m
         /\ \A n \in Nat : n * m \in Nat
<1>1. \A n \in Nat \ {0} : n * m = (n - 1) * m + m
  OBVIOUS
<1>2. \A n \in Nat, k \in Nat : n <= k => n * m <= k * m
  <2> SUFFICES ASSUME NEW n \in Nat, NEW k \in Nat, n <= k PROVE n * m <= k * m
    OBVIOUS
  <2>1. (k - n) * m >= 0
    OBVIOUS
  <2>2. k * m = (k - n) * m + n * m
    OBVIOUS
  <2> QED BY <2>1, <2>2
<1>3. \A n \in Nat : n * m \in Nat
  OBVIOUS
<1> QED BY <1>1, <1>2, <1>3

\* The sets that are counted.
LEMMA RoomTypes ==
  ASSUME ChunkInv
  PROVE  /\ IsFiniteSet(Owing) /\ Cardinality(Owing) \in Nat
         /\ IsFiniteSet(Heap!Queued) /\ Cardinality(Heap!Queued) \in 0 .. NumZones
         /\ lru_queue \in Seq(Nodes) /\ Len(lru_queue) \in Nat /\ total_chunks \in Nat
         /\ workload_index \in 0 .. WorkloadMax /\ nr_evict \in Nat
         /\ gc.chunk \in 0 .. MaxZoneChunks /\ WorkloadMax \in Nat /\ NumZones \in Nat
         /\ Cardinality(Heap!Queued) * MaxZoneChunks \in 0 .. total_chunks
<1>1. IsFiniteSet(Owing) /\ Cardinality(Owing) \in Nat
  BY ThreadsAssumption, WorkersAssumption, FS_Subset, FS_CardinalityType DEF Owing
<1>2. Heap!Queued \subseteq Zones /\ lru_queue \in Seq(Nodes) /\ nr_evict \in Counts /\ gc \in GcType
  BY DEF ChunkInv, PolicyInv, PolicyTypeOK
<1>3. IsFiniteSet(Zones) /\ Cardinality(Zones) = NumZones /\ NumZones \in Nat
  BY NumZonesAssumption, FS_Interval DEF Zones
<1>4. IsFiniteSet(Heap!Queued) /\ Cardinality(Heap!Queued) <= NumZones /\ Cardinality(Heap!Queued) \in Nat
  BY <1>2, <1>3, FS_Subset, FS_CardinalityType
<1>5. total_chunks = NumZones * MaxZoneChunks /\ MaxZoneChunks \in Nat
  BY MaxZoneChunksAssumption DEF total_chunks
<1>6. PICK q \in Nat : q = Cardinality(Heap!Queued)
  BY <1>4
<1>7. q * MaxZoneChunks <= NumZones * MaxZoneChunks /\ q * MaxZoneChunks \in Nat
      /\ NumZones * MaxZoneChunks \in Nat
  BY <1>3, <1>4, <1>5, <1>6, Products
<1>8. workload_index \in 0 .. WorkloadMax
  BY DEF ChunkInv, FrontOK, FrontTypeOK
<1>9. gc.chunk \in 0 .. MaxZoneChunks
  BY <1>2 DEF GcType
<1>10. Cardinality(Heap!Queued) * MaxZoneChunks \in 0 .. total_chunks /\ total_chunks \in Nat
  BY <1>5, <1>6, <1>7
<1> QED BY <1>1, <1>2, <1>3, <1>4, <1>8, <1>9, <1>10, WorkloadMaxAssumption DEF Counts

\* How the requests come and go.
LEMMA OwingSteps ==
  ASSUME ChunkInv, [Next]_vars, ~\E t \in Threads : UpdatePolicyWrite(t)
  PROVE  /\ Cardinality(Owing') \in Nat /\ workload_index' \in Nat
         /\ workload_index <= workload_index'
         /\ Cardinality(Owing') + workload_index <= Cardinality(Owing) + workload_index'
<1>0. FrontTypeOK(EvictPcs) /\ ControlOK /\ IsFiniteSet(Owing) /\ Cardinality(Owing) \in Nat
      /\ workload_index \in Nat
  BY RoomTypes DEF ChunkInv, FrontOK
<1>1. ASSUME NEW t \in Threads, TakeRequest(t)
      PROVE  Cardinality(Owing') = Cardinality(Owing) + 1 /\ workload_index' = workload_index + 1
  <2>1. pc[t] = "next" /\ pc' = [pc EXCEPT ![t] = "find"] /\ t \in Workers
    BY <1>0, <1>1 DEF TakeRequest, Goto, ControlOK
  <2>2. Owing' = Owing \cup {t} /\ t \notin Owing
    BY <1>0, <2>1, WorkersAssumption DEF Owing, FrontTypeOK, OutsideGet
  <2> QED BY <1>0, <1>1, <2>2, FS_AddElement DEF TakeRequest
<1>2. ASSUME NEW t \in Threads, ~TakeRequest(t), RunStep(t) \/ WakeupStep(t)
      PROVE  /\ workload_index' = workload_index
             /\ \A u \in Threads : u # t => pc'[u] = pc[u]
             /\ t \notin Workers \/ pc[t] \notin OutsideGet \cup {"insert"} \/ pc'[t] \in OutsideGet \cup {"insert"}
  <2>1. CASE TaskStep(t) \/ evict_task(t) \/ WakeupStep(t)
    BY <1>0, <1>2, <2>1
       DEF FrontTypeOK, ControlOK, TaskStep, WorkloadDone, CountCompleted, evict_task, CheckDone, CheckFreeZones,
           Goto, progress, OutsideGet, WakeupStep, Wakeup, cacheVars
  <2>2. CASE GetStep(t)
    BY <1>0, <2>2
       DEF FrontTypeOK, GetStep, zn_cachemap_find, FindReturnLocation, FindReturnType, ReadChunk, HitDone,
           GetZone, WriteChunk, ReturnZone, MissDone, UndoZoneGet, UndoMap, Goto, Return, progress, OutsideGet
  <2>3. CASE UpdatePolicyRead(t)
    BY <1>0, <2>3 DEF FrontTypeOK, UpdatePolicyRead, Goto, progress, OutsideGet
  <2>4. CASE zn_policy_chunk_evict(t)
    <3>1. pc[t] \notin OutsideGet \cup {"insert"}
      BY <2>4, ZenonT(60)
        DEF zn_policy_chunk_evict, zn_policy_chunk_gc, EvictRefused, EvictStart, EvictChunk, EvictCrash,
             CollectDone, CollectZone, AtCollect, RelocateTo, RelocateNowhere, RelocateRead,
             RelocateWrite, RelocateInsert, RelocateCrash, CollectClear, CollectReset, Goto, OutsideGet
    <3>2. UNCHANGED progress /\ (pc' = pc \/ \E to : pc' = [pc EXCEPT ![t] = to])
      BY <2>4, Zenon
        DEF zn_policy_chunk_evict, zn_policy_chunk_gc, EvictRefused, EvictStart, EvictChunk, EvictCrash,
             Crash, ReturnFromEvict, CollectDone, CollectZone, RelocateTo, RelocateNowhere, RelocateRead,
             RelocateWrite, RelocateInsert, RelocateCrash, CollectClear, CollectReset, Goto, cacheVars
    <3> QED BY <1>0, <3>1, <3>2, SMTT(30) DEF progress, FrontTypeOK
  <2> QED BY <1>2, <2>1, <2>2, <2>3, <2>4 DEF RunStep
<1>3. ASSUME NEW t \in Threads, ~TakeRequest(t), RunStep(t) \/ WakeupStep(t)
      PROVE  Cardinality(Owing') <= Cardinality(Owing) /\ Cardinality(Owing') \in Nat
             /\ workload_index' = workload_index
  <2>1. Owing' \subseteq Owing
    BY <1>2, <1>3, WorkersAssumption DEF Owing
  <2> QED BY <1>0, <1>2, <1>3, <2>1, FS_Subset, FS_CardinalityType
<1>4. CASE UNCHANGED vars
  <2>1. Owing' = Owing /\ workload_index' = workload_index
    BY <1>4 DEF vars, cacheVars, progress, Owing
  <2> QED BY <1>0, <2>1
<1>5. CASE \E t \in Threads : TakeRequest(t)
  BY <1>0, <1>1, <1>5
<1>6. CASE (~\E t \in Threads : TakeRequest(t)) /\ ~UNCHANGED vars
  <2>1. PICK t \in Threads : RunStep(t) \/ WakeupStep(t)
    BY <1>6 DEF Next, Terminated
  <2> QED BY <1>0, <1>3, <1>6, <2>1
<1> QED BY <1>4, <1>5, <1>6

\* The same of the next state.
LEMMA RoomTypesNext ==
  ASSUME ChunkInv'
  PROVE  /\ IsFiniteSet(Heap!Queued') /\ Cardinality(Heap!Queued') \in 0 .. NumZones
         /\ lru_queue' \in Seq(Nodes) /\ Len(lru_queue') \in Nat
         /\ gc'.chunk \in 0 .. MaxZoneChunks
         /\ Cardinality(Heap!Queued') * MaxZoneChunks \in 0 .. total_chunks
<1>2. Heap!Queued' \subseteq Zones /\ lru_queue' \in Seq(Nodes) /\ gc' \in GcType
  BY DEF ChunkInv, PolicyInv, PolicyTypeOK
<1>3. IsFiniteSet(Zones) /\ Cardinality(Zones) = NumZones /\ NumZones \in Nat
  BY NumZonesAssumption, FS_Interval DEF Zones
<1>4. IsFiniteSet(Heap!Queued') /\ Cardinality(Heap!Queued') <= NumZones /\ Cardinality(Heap!Queued') \in Nat
  BY <1>2, <1>3, FS_Subset, FS_CardinalityType
<1>5. total_chunks = NumZones * MaxZoneChunks /\ MaxZoneChunks \in Nat
  BY MaxZoneChunksAssumption DEF total_chunks
<1>6. PICK q \in Nat : q = Cardinality(Heap!Queued')
  BY <1>4
<1>7. q * MaxZoneChunks <= NumZones * MaxZoneChunks /\ q * MaxZoneChunks \in Nat
      /\ NumZones * MaxZoneChunks \in Nat
  BY <1>3, <1>4, <1>5, <1>6, Products
<1>9. gc'.chunk \in 0 .. MaxZoneChunks
  BY <1>2 DEF GcType
<1>10. Cardinality(Heap!Queued') * MaxZoneChunks \in 0 .. total_chunks
  BY <1>5, <1>6, <1>7
<1> QED BY <1>2, <1>3, <1>4, <1>9, <1>10

\* A chunk of the loop, and the collector's progress, in numbers.
LEMMA RoomInside ==
  ASSUME ChunkInv, RoomOK, ChunkInv', policy_mutex # NULL, policy_mutex' = policy_mutex,
         Cardinality(Owing') <= workload_index',
         Len(lru_queue') + LeftToCollect' <= Len(lru_queue) + LeftToCollect,
         nr_evict' <= Len(lru_queue')
  PROVE  RoomOK'
<1>1. LeftToCollect \in Int /\ LeftToCollect' \in Int
  <2>1. LeftToCollect \in Int
    BY RoomTypes, MaxZoneChunksAssumption DEF LeftToCollect
  <2>2. gc'.chunk \in Int /\ Cardinality(Heap!Queued') * MaxZoneChunks \in Int
    BY RoomTypesNext
  <2>3. LeftToCollect' \in Int
    BY <2>2, MaxZoneChunksAssumption DEF LeftToCollect
  <2> QED BY <2>1, <2>3
<1>2. Len(lru_queue) \in Nat /\ Len(lru_queue') \in Nat /\ total_chunks \in Nat
  BY RoomTypes, RoomTypesNext
<1>3. Len(lru_queue) + LeftToCollect <= 2 * total_chunks
  BY DEF RoomOK
<1>4. Len(lru_queue') + LeftToCollect' <= 2 * total_chunks
  BY ONLY <1>1, <1>2, <1>3, Len(lru_queue') + LeftToCollect' <= Len(lru_queue) + LeftToCollect
<1> QED BY <1>4 DEF RoomOK, total_chunks

\* An update appends one node, for one request.
LEMMA UpdateCounts ==
  ASSUME ChunkInv, NEW t \in Threads, UpdatePolicyWrite(t)
  PROVE  Len(lru_queue') = Len(lru_queue) + 1 /\ Cardinality(Owing') = Cardinality(Owing) - 1
<1>1. /\ pc[t] = "update_write" /\ location[t] \in Slots
      /\ lru_queue' = Append(Unlink(lru_queue, location[t]), Node(location[t], TRUE))
  BY UpdateFacts DEF Slots
<1>2. Len(lru_queue') = Len(lru_queue) + 1
  <2>1. lru_queue \in Seq(Nodes) /\ Node(location[t], TRUE) \in Nodes
    BY <1>1, RoomTypes DEF Node, Nodes
  <2>2. PICK u \in Seq(Nodes) : u = Unlink(lru_queue, location[t]) /\ Len(u) = Len(lru_queue)
    BY <1>1, <2>1, UnlinkFacts, ZenonT(60)
  <2>3. Len(Append(u, Node(location[t], TRUE))) = Len(u) + 1
    BY <2>1, <2>2, AppendFacts
  <2> QED BY <1>1, <2>2, <2>3
<1>3. Owing' = Owing \ {t} /\ t \in Owing
  <2>1. pc' = [pc EXCEPT ![t] = "insert"] /\ t \in Workers
    BY <1>1 DEF UpdatePolicyWrite, Goto, ChunkInv, FrontOK, ControlOK, InGet
  <2> QED BY <1>1, <2>1, WorkersAssumption DEF Owing, ChunkInv, FrontOK, FrontTypeOK, OutsideGet
<1>4. Cardinality(Owing') = Cardinality(Owing) - 1
  BY <1>3, RoomTypes, FS_RemoveElement
<1> QED BY <1>2, <1>4

\* A hit leaves the length of the queue.
LEMMA ReadCounts ==
  ASSUME ChunkInv, NEW t \in Threads, UpdatePolicyRead(t)
  PROVE  Len(lru_queue') = Len(lru_queue)
<1>0. lru_queue \in Seq(Nodes)
  BY RoomTypes
<1>1. PICK k : k = Found(lru_queue, result[t].location)
  OBVIOUS
<1>2. lru_queue' = IF k = 0 THEN lru_queue ELSE Moved(lru_queue, k)
  BY <1>1 DEF UpdatePolicyRead, zn_policy_chunk_update, UpdateRead, Found, Moved
<1>3. k \in 0 .. Len(lru_queue)
  BY <1>0, <1>1, SelectFacts
<1>4. CASE k = 0
  BY <1>2, <1>4
<1>5. CASE k # 0
  BY <1>0, <1>2, <1>3, <1>5, MoveToTail
<1> QED BY <1>4, <1>5

\* The bound after an update.
LEMMA RoomUpdate ==
  ASSUME ChunkInv, ChunkInv', RoomOK, NEW t \in Threads, UpdatePolicyWrite(t)
  PROVE  RoomOK'
<1>1. policy_mutex = NULL /\ policy_mutex' = NULL /\ workload_index' = workload_index
  BY UpdateFacts DEF progress
<1>2. Len(lru_queue') = Len(lru_queue) + 1 /\ Cardinality(Owing') = Cardinality(Owing) - 1
  BY UpdateCounts
<1>3. Len(lru_queue) \in Nat /\ Cardinality(Owing) \in Nat /\ workload_index \in Nat /\ total_chunks \in Nat
  BY RoomTypes
<1>4. Cardinality(Owing) <= workload_index
      /\ Len(lru_queue) + Cardinality(Owing) <= 2 * total_chunks + workload_index
  BY <1>1 DEF RoomOK
<1>5. Cardinality(Owing') <= workload_index'
      /\ Len(lru_queue') + Cardinality(Owing') <= 2 * total_chunks + workload_index'
  BY ONLY <1>1, <1>2, <1>3, <1>4
<1> QED BY <1>1, <1>5 DEF RoomOK, total_chunks

\* An eviction starts with no more than the queue holds: the wrapped number of free
\* chunks is larger than either threshold.
LEMMA RoomStart ==
  ASSUME EVICT_HIGH_THRESH_CHUNKS <= EVICT_LOW_THRESH_CHUNKS, EVICT_LOW_THRESH_CHUNKS <= total_chunks,
         ChunkInv, ChunkInv', RoomOK, Cardinality(Owing') <= workload_index',
         NEW t \in Threads, EvictStart(t)
  PROVE  RoomOK'
<1>1. /\ policy_mutex = NULL /\ policy_mutex' # NULL /\ ~NothingToEvict
      /\ nr_evict' = (EVICT_LOW_THRESH_CHUNKS - FreeChunks) % UintMod
      /\ lru_queue' = lru_queue /\ gc' = gc /\ invalid_pqueue' = invalid_pqueue
  BY MutexAssumption DEF EvictStart
<1>2. gc.zone = -1
  BY <1>1, MutexFree DEF ChunkInv, PolicyInv
<1>3. /\ Len(lru_queue) \in Nat /\ Cardinality(Owing) \in Nat /\ workload_index \in 0 .. WorkloadMax
      /\ total_chunks \in Nat /\ WorkloadMax \in Nat
      /\ Cardinality(Heap!Queued) * MaxZoneChunks \in 0 .. total_chunks
  BY RoomTypes
<1>4. /\ EVICT_HIGH_THRESH_CHUNKS \in Nat /\ EVICT_LOW_THRESH_CHUNKS \in Nat
      /\ UintMod > total_chunks + EVICT_LOW_THRESH_CHUNKS + WorkloadMax /\ UintMod \in Nat \ {0}
  BY ChunkThresholdAssumption, Modulus DEF total_chunks
<1>5. Len(lru_queue) + Cardinality(Owing) <= 2 * total_chunks + workload_index
  BY <1>1 DEF RoomOK
<1>6. FreeChunks = (total_chunks - Len(lru_queue)) % UintMod /\ FreeChunks <= EVICT_HIGH_THRESH_CHUNKS
  <2>1. FreeChunks \in Int
    BY <1>3, Modulus DEF FreeChunks
  <2> QED BY <1>1, <1>4, <2>1 DEF NothingToEvict, FreeChunks
<1>7. Len(lru_queue) <= total_chunks /\ FreeChunks = total_chunks - Len(lru_queue)
  <2>1. CASE Len(lru_queue) <= total_chunks
    BY ONLY <1>3, <1>4, <1>6, <2>1
  <2>2. CASE Len(lru_queue) > total_chunks
    <3>1. Len(lru_queue) - total_chunks <= total_chunks + WorkloadMax
      BY ONLY <1>3, <1>5, <2>2
    <3>2. UintMod + total_chunks - Len(lru_queue) \in 0 .. UintMod - 1
      BY ONLY <1>3, <1>4, <2>2, <3>1
    <3>3. (total_chunks - Len(lru_queue)) % UintMod = UintMod + total_chunks - Len(lru_queue)
      BY ONLY <1>3, <1>4, <2>2, <3>1, <3>2
    <3>4. FreeChunks > EVICT_LOW_THRESH_CHUNKS
      BY ONLY <1>3, <1>4, <1>6, <3>1, <3>3
    <3> QED BY ONLY <1>3, <1>4, <1>6, <3>3, <3>4, EVICT_HIGH_THRESH_CHUNKS <= EVICT_LOW_THRESH_CHUNKS
  <2> QED BY <1>3, <2>1, <2>2
<1>8. nr_evict' = EVICT_LOW_THRESH_CHUNKS - (total_chunks - Len(lru_queue))
  <2>1. EVICT_LOW_THRESH_CHUNKS - FreeChunks \in 0 .. UintMod - 1
    BY ONLY <1>3, <1>4, <1>6, <1>7, EVICT_HIGH_THRESH_CHUNKS <= EVICT_LOW_THRESH_CHUNKS
  <2> QED BY ONLY <1>1, <1>3, <1>4, <1>7, <2>1
<1>9. nr_evict' <= Len(lru_queue')
  BY ONLY <1>1, <1>3, <1>4, <1>8, EVICT_LOW_THRESH_CHUNKS <= total_chunks
<1>10. Len(lru_queue') + LeftToCollect' <= 2 * total_chunks
  <2>1. LeftToCollect' = Cardinality(Heap!Queued) * MaxZoneChunks
    BY <1>1, <1>2, <1>3 DEF LeftToCollect, Heap!Queued
  <2> QED BY ONLY <1>1, <1>3, <1>7, <2>1
<1> QED BY <1>1, <1>9, <1>10 DEF RoomOK, total_chunks

\* One step keeps the bound on the queue.
LEMMA RoomStep ==
  ASSUME EVICT_HIGH_THRESH_CHUNKS <= EVICT_LOW_THRESH_CHUNKS, EVICT_LOW_THRESH_CHUNKS <= total_chunks,
         ChunkInv, ChunkInv', RoomOK, [Next]_vars
  PROVE  RoomOK'
<1>0. PolicyTypeOK /\ MutexOK /\ CollectorOK /\ gc \in GcType /\ lru_queue \in Seq(Nodes) /\ Len(lru_queue) \in Nat
  BY RoomTypes DEF ChunkInv, PolicyInv, PolicyTypeOK
<1>1. CASE \E t \in Threads : UpdatePolicyWrite(t)
  BY <1>1, RoomUpdate
<1>2. CASE ~\E t \in Threads : UpdatePolicyWrite(t)
  <2>1. /\ Cardinality(Owing') \in Nat /\ workload_index' \in Nat /\ workload_index <= workload_index'
        /\ Cardinality(Owing') + workload_index <= Cardinality(Owing) + workload_index'
        /\ Cardinality(Owing) <= workload_index
        /\ Cardinality(Owing) \in Nat /\ workload_index \in Nat
    BY <1>2, OwingSteps, RoomTypes DEF RoomOK
  <2>2. Cardinality(Owing') <= workload_index'
    BY ONLY <2>1
  <2>3. ASSUME Len(lru_queue') = Len(lru_queue), UNCHANGED <<invalid_pqueue, policy_mutex, nr_evict, gc>>
        PROVE  RoomOK'
    <3>1. LeftToCollect' = LeftToCollect
      BY <2>3 DEF LeftToCollect, Heap!Queued
    <3>2. CASE policy_mutex = NULL
      <4>1. Len(lru_queue) + Cardinality(Owing) <= 2 * total_chunks + workload_index /\ total_chunks \in Nat
        BY <3>2, RoomTypes DEF RoomOK
      <4>2. Len(lru_queue') + Cardinality(Owing') <= 2 * total_chunks + workload_index'
        BY ONLY <1>0, <2>1, <2>3, <4>1
      <4> QED BY <2>2, <2>3, <3>2, <4>2 DEF RoomOK, total_chunks
    <3>3. CASE policy_mutex # NULL
      BY <2>2, <2>3, <3>1, <3>3 DEF RoomOK, total_chunks
    <3> QED BY <3>2, <3>3
  <2>4. CASE UNCHANGED policyVars
    BY <2>3, <2>4 DEF policyVars
  <2>5. ASSUME NEW t \in Threads, UpdatePolicyRead(t) PROVE RoomOK'
    <3>1. UNCHANGED <<invalid_pqueue, policy_mutex, nr_evict, gc>>
      BY <2>5 DEF UpdatePolicyRead, zn_policy_chunk_update, UpdateRead
    <3>2. Len(lru_queue') = Len(lru_queue)
      BY <2>5, ReadCounts
    <3> QED BY <2>3, <3>1, <3>2
  <2>6. ASSUME NEW t \in Threads, EvictStart(t) PROVE RoomOK'
    BY <2>2, <2>6, RoomStart
  <2>7. ASSUME NEW t \in Threads, CollectDone(t) PROVE RoomOK'
    <3>1. policy_mutex = t /\ t # NULL /\ policy_mutex' = NULL /\ UNCHANGED <<lru_queue, invalid_pqueue, gc>>
      BY <1>0, <2>7, MutexAssumption DEF CollectDone, AtCollect, MutexOK, InPolicy
    <3>2. Len(lru_queue) + LeftToCollect <= 2 * total_chunks /\ total_chunks \in Nat
      BY <3>1, RoomTypes DEF RoomOK
    <3>3. LeftToCollect \in Nat
      BY <1>0, RoomTypes, MaxZoneChunksAssumption DEF LeftToCollect, GcType
    <3>4. Len(lru_queue') + Cardinality(Owing') <= 2 * total_chunks + workload_index'
      BY ONLY <1>0, <2>1, <2>2, <3>1, <3>2, <3>3
    <3> QED BY <2>2, <3>1, <3>4 DEF RoomOK, total_chunks
  <2>8. ASSUME NEW t \in Threads, EvictChunk(t) \/ CollectZone(t) \/ RelocateTo(t) \/ RelocateNowhere(t)
                                  \/ RelocateRead(t) \/ RelocateInsert(t) \/ CollectReset(t)
        PROVE  RoomOK'
    <3>1. policy_mutex = t /\ t # NULL /\ policy_mutex' = policy_mutex /\ nr_evict <= Len(lru_queue) /\ nr_evict \in Nat
      <4>1. policy_mutex = t /\ t # NULL /\ policy_mutex' = policy_mutex
        BY <1>0, <2>8, MutexAssumption, Zenon
          DEF EvictChunk, CollectZone, AtCollect, RelocateTo, RelocateNowhere, RelocateRead, RelocateInsert,
               CollectReset, Goto, MutexOK, InPolicy, Collecting, Relocating
      <4> QED BY <4>1, RoomTypes, SMTT(30) DEF RoomOK
    <3>2. CASE EvictChunk(t)
      <4>1. lru_queue # <<>> /\ lru_queue' = Unlink(Tail(lru_queue), Head(lru_queue).slot)
            /\ Heap!Queued' = Heap!Queued /\ gc' = gc /\ nr_evict' = nr_evict - 1
        BY <3>2, EvictFacts DEF EvictChunk
      <4>2. Len(lru_queue') = Len(lru_queue) - 1
        BY <1>0, <4>1, PopFacts
      <4>3. LeftToCollect' = LeftToCollect /\ LeftToCollect \in Int
        BY <1>0, <4>1, RoomTypes, MaxZoneChunksAssumption, SMTT(30) DEF LeftToCollect
      <4>4. Len(lru_queue') + LeftToCollect' <= Len(lru_queue) + LeftToCollect /\ nr_evict' <= Len(lru_queue')
        BY ONLY <1>0, <3>1, <4>1, <4>2, <4>3
      <4> QED BY <2>2, <3>1, <4>4, RoomInside
    <3>3. CASE CollectZone(t)
      <4>1. PICK z \in Heap!Queued :
              /\ invalid_pqueue' = [x \in Heap!Queued \ {z} |-> invalid_pqueue[x]]
              /\ gc' = TakeZone(gc, z) /\ lru_queue' = lru_queue /\ nr_evict' = nr_evict
        BY <3>3 DEF CollectZone, Heap!ExtractMin, TakeZone
      <4>2. Heap!Queued' = Heap!Queued \ {z} /\ z \in Zones /\ gc'.chunk = 0 /\ gc'.zone = z /\ z # -1
        BY <1>0, <4>1, GcZone, NumZonesAssumption DEF Heap!Queued, PolicyTypeOK, Zones
      <4>3. gc.zone = -1
        BY <1>0, <3>3 DEF CollectZone, AtCollect, CollectorOK
      <4>4. /\ Cardinality(Heap!Queued') = Cardinality(Heap!Queued) - 1
            /\ Cardinality(Heap!Queued) \in Nat \ {0}
        BY <4>1, <4>2, RoomTypes, FS_RemoveElement, FS_EmptySet, SMTT(30)
      <4>5. PICK q \in Nat \ {0} : q = Cardinality(Heap!Queued)
        BY <4>4
      <4>6. q * MaxZoneChunks = (q - 1) * MaxZoneChunks + MaxZoneChunks /\ MaxZoneChunks \in Nat
            /\ q * MaxZoneChunks \in Int
        BY Products, MaxZoneChunksAssumption
      <4>7. LeftToCollect = q * MaxZoneChunks /\ LeftToCollect' = (q - 1) * MaxZoneChunks + (MaxZoneChunks - 0)
        BY <4>2, <4>3, <4>4, <4>5, <4>6 DEF LeftToCollect
      <4>8. LeftToCollect' = LeftToCollect /\ LeftToCollect \in Int
        BY <4>6, <4>7
      <4>9. Len(lru_queue') + LeftToCollect' <= Len(lru_queue) + LeftToCollect /\ nr_evict' <= Len(lru_queue')
        BY ONLY <1>0, <3>1, <4>1, <4>8
      <4> QED BY <2>2, <3>1, <4>9, RoomInside
    <3>4. ASSUME UNCHANGED <<lru_queue, invalid_pqueue, nr_evict>>, gc'.zone = -1 \/ gc'.zone = gc.zone,
                 gc.zone # -1, gc'.chunk >= gc.chunk
          PROVE  RoomOK'
      <4>1. gc.chunk \in 0 .. MaxZoneChunks /\ gc'.chunk \in 0 .. MaxZoneChunks /\ MaxZoneChunks \in Nat
            /\ Cardinality(Heap!Queued) * MaxZoneChunks \in Nat
        BY RoomTypes, RoomTypesNext, MaxZoneChunksAssumption
      <4>2. LeftToCollect = Cardinality(Heap!Queued) * MaxZoneChunks + (MaxZoneChunks - gc.chunk)
        BY <3>4 DEF LeftToCollect
      <4>3. \/ LeftToCollect' = Cardinality(Heap!Queued) * MaxZoneChunks
            \/ LeftToCollect' = Cardinality(Heap!Queued) * MaxZoneChunks + (MaxZoneChunks - gc'.chunk)
        BY <3>4, <4>1 DEF LeftToCollect, Heap!Queued
      <4>4. Len(lru_queue') + LeftToCollect' <= Len(lru_queue) + LeftToCollect /\ nr_evict' <= Len(lru_queue')
        BY ONLY <1>0, <3>1, <3>4, <4>1, <4>2, <4>3, SMTT(30)
      <4> QED BY <2>2, <3>1, <4>4, RoomInside
    <3>5. CASE RelocateTo(t)
      <4>1. PICK pair \in zn_pair : gc' = TakePlace(gc, Min(LiveChunks), pair)
        BY <3>5 DEF RelocateTo, TakePlace
      <4>2. LiveChunks # {} /\ UNCHANGED <<lru_queue, invalid_pqueue, nr_evict>> /\ gc.zone # -1
        BY <1>0, <3>5, NumZonesAssumption DEF RelocateTo, CollectorOK, Collecting, Zones
      <4>3. gc'.zone = gc.zone /\ gc'.chunk >= gc.chunk
        BY <1>0, <4>1, <4>2, LiveFacts, GcPlace
      <4> QED BY <3>4, <4>2, <4>3
    <3>6. CASE RelocateRead(t)
      <4>1. UNCHANGED <<lru_queue, invalid_pqueue, nr_evict>> /\ gc.zone # -1
        BY <1>0, <3>6, NumZonesAssumption DEF RelocateRead, Goto, CollectorOK, Collecting, Relocating, Zones
      <4>2. gc'.zone = gc.zone /\ gc'.chunk = gc.chunk
        BY <1>0, <3>6 DEF RelocateRead, GcType
      <4> QED BY <1>0, <3>4, <4>1, <4>2 DEF GcType
    <3>7. CASE RelocateInsert(t)
      <4>1. gc.zone \in Zones /\ gc.zone # -1 /\ gc.chunk \in Chunks /\ gc.location \in Slots
        <5>1. pc[t] = "gc_insert"
          BY <3>7, Zenon DEF RelocateInsert
        <5>2. gc.zone \in Zones /\ gc.chunk \in Chunks /\ gc.location \in Slots
          BY <1>0, <5>1, SMTT(30) DEF CollectorOK, Collecting, Relocating, Slots
        <5> QED BY <5>2, NumZonesAssumption, SMTT(30) DEF Zones
      <4>2. gc' = Advance(gc) /\ lru_queue' = Append(lru_queue, Node(gc.location, FALSE))
            /\ UNCHANGED <<invalid_pqueue, nr_evict>>
        BY <3>7, Zenon DEF RelocateInsert, Advance
      <4>3. gc'.zone = gc.zone /\ gc'.chunk = gc.chunk + 1
        BY <1>0, <4>1, <4>2, GcNext
      <4>4. Len(lru_queue') = Len(lru_queue) + 1
        <5>1. Node(gc.location, FALSE) \in Nodes
          BY <4>1 DEF Node, Nodes
        <5> QED BY <1>0, <4>2, <5>1, AppendFacts
      <4>5. gc.chunk \in Nat /\ MaxZoneChunks \in Nat /\ Cardinality(Heap!Queued) * MaxZoneChunks \in Nat
        BY RoomTypes, MaxZoneChunksAssumption
      <4>6. LeftToCollect = Cardinality(Heap!Queued) * MaxZoneChunks + (MaxZoneChunks - gc.chunk)
        BY <4>1 DEF LeftToCollect
      <4>7. LeftToCollect' = Cardinality(Heap!Queued) * MaxZoneChunks + (MaxZoneChunks - gc'.chunk)
        BY <4>1, <4>2, <4>3 DEF LeftToCollect, Heap!Queued
      <4>8. Len(lru_queue') + LeftToCollect' <= Len(lru_queue) + LeftToCollect /\ nr_evict' <= Len(lru_queue')
        BY ONLY <1>0, <3>1, <4>2, <4>3, <4>4, <4>5, <4>6, <4>7, SMTT(30)
      <4> QED BY <2>2, <3>1, <4>8, RoomInside
    <3>8. CASE CollectReset(t)
      <4>1. /\ UNCHANGED <<lru_queue, invalid_pqueue, nr_evict>> /\ gc.zone # -1 /\ gc'.zone = -1
        BY <1>0, <3>8, NumZonesAssumption
           DEF CollectReset, Goto, NoCollection, CollectorOK, Collecting, Zones
      <4>2. gc.chunk \in 0 .. MaxZoneChunks /\ MaxZoneChunks \in Nat
            /\ Cardinality(Heap!Queued) * MaxZoneChunks \in Nat
        BY RoomTypes, MaxZoneChunksAssumption
      <4>3. /\ LeftToCollect = Cardinality(Heap!Queued) * MaxZoneChunks + (MaxZoneChunks - gc.chunk)
            /\ LeftToCollect' = Cardinality(Heap!Queued) * MaxZoneChunks
        BY <4>1, <4>2 DEF LeftToCollect, Heap!Queued
      <4>4. Len(lru_queue') + LeftToCollect' <= Len(lru_queue) + LeftToCollect /\ nr_evict' <= Len(lru_queue')
        BY ONLY <1>0, <3>1, <4>1, <4>2, <4>3
      <4> QED BY <2>2, <3>1, <4>4, RoomInside
    <3>9. CASE RelocateNowhere(t)
      <4>1. UNCHANGED <<lru_queue, invalid_pqueue, nr_evict>> /\ gc.zone # -1
        BY <1>0, <3>9, NumZonesAssumption DEF RelocateNowhere, CollectorOK, Collecting, Zones
      <4>2. gc'.zone = gc.zone /\ gc'.chunk = gc.chunk
        BY <1>0, <3>9 DEF RelocateNowhere, GcType
      <4> QED BY <1>0, <3>4, <4>1, <4>2 DEF GcType
    <3> QED BY <2>8, <3>2, <3>3, <3>5, <3>6, <3>7, <3>8, <3>9
  <2> QED BY <1>2, <2>4, <2>5, <2>6, <2>7, <2>8, PolicySteps
<1> QED BY <1>1, <1>2

\* The loop of zn_policy_chunk_evict never pops an empty queue (chunk.c:179-186), for
\* thresholds in the right order that fit the device: neither relocations, which
\* leave two nodes for one chunk, nor the wrap-around of free_chunks can break it.
THEOREM EvictBudgetKept ==
  ASSUME EVICT_HIGH_THRESH_CHUNKS <= EVICT_LOW_THRESH_CHUNKS, EVICT_LOW_THRESH_CHUNKS <= total_chunks
  PROVE  Spec => []EvictBudgetFits
<1>1. Init => RoomOK
  <2> SUFFICES ASSUME Init PROVE RoomOK
    OBVIOUS
  <2>1. Owing = {} /\ workload_index = 0
    BY WorkersAssumption DEF Init, zn_init_cache, Owing, OutsideGet
  <2>2. lru_queue = <<>> /\ policy_mutex = NULL
    BY DEF Init, PolicyInit
  <2>3. Cardinality(Owing) = 0 /\ Len(lru_queue) = 0
    BY <2>1, <2>2, FS_EmptySet
  <2>4. total_chunks \in Nat
    BY NumZonesAssumption, MaxZoneChunksAssumption DEF total_chunks
  <2> QED BY <2>1, <2>2, <2>3, <2>4 DEF RoomOK
<1>2. ChunkInv /\ RoomOK /\ [Next]_vars => RoomOK'
  BY ChunkStep, RoomStep
<1>3. ChunkInv /\ RoomOK => EvictBudgetFits
  BY MutexAssumption DEF ChunkInv, PolicyInv, MutexOK, InPolicy, RoomOK, EvictBudgetFits
<1> QED BY <1>1, <1>2, <1>3, ChunkInductive, PTL DEF Spec
------------------------------------------------------------------------------
(***************************************************************************)
(* The policy's views of the cache.  A worker tells the policy of a chunk  *)
(* after it has returned the zone (cache.c:145-150), and the collector may *)
(* reset the zone in between: the zone was filled by another worker, and   *)
(* the chunks the policy knows of were all evicted.  The late update then  *)
(* enters a chunk of a zone that is free, and the next worker that writes  *)
(* there enters it a second time.  The theorem says that this race is all  *)
(* that can separate the three views, until a chunk is relocated.          *)
(***************************************************************************)
CollectsSettled ==
  [][\A t \in Threads : CollectReset(t) =>
       \A u \in Threads : pc[u] = "update_write" => location[u].zone # gc.zone]_vars

\* The queue q holds the chunks of U, each once and linked.
LruOf(q, U) ==
  /\ \A i, j \in DOMAIN q : q[i].slot = q[j].slot => i = j
  /\ \A i \in DOMAIN q : q[i] = Node(q[i].slot, TRUE) /\ q[i].slot \in U
  /\ \A s \in U : \E i \in DOMAIN q : q[i].slot = s

\* The pool P says that the chunks of U are in use.
PoolOf(P, U) ==
  /\ U = {s \in Slots : At(P, s).in_use}
  /\ \A s \in U : At(P, s).pair = s
  /\ \A z \in Zones : P[z].chunks_in_use = Cardinality({s \in U : s.zone = z})

\* And the chunks a worker is about to tell the policy of are none of these.
ViewsAgree ==
  /\ LruOf(lru_queue, InUse)
  /\ PoolOf(zone_pool, InUse)
  /\ InUse \subseteq Committed
  /\ \A t \in Threads : pc[t] = "update_write" => location[t] \in Committed \ InUse
  /\ \A t, u \in Threads :
       pc[t] = "update_write" /\ pc[u] = "update_write" /\ location[t] = location[u] => t = u
  /\ \A t \in Threads : pc[t] = "gc_reset" => \A s \in InUse : s.zone # gc.zone

\* The chunks of a zone can be counted.
LEMMA ZoneCount ==
  ASSUME NEW U \in SUBSET Slots, NEW z \in Zones
  PROVE  LET S == {s \in U : s.zone = z} IN IsFiniteSet(S) /\ Cardinality(S) \in 0 .. MaxZoneChunks
<1> DEFINE S == {s \in U : s.zone = z}
<1> DEFINE f == [s \in S |-> s.chunk_offset]
<1>1. \A s \in S : s \in zn_pair /\ s.chunk_offset \in Chunks
  BY NoPairFacts DEF Slots
<1>2. \A s, r \in S : s.chunk_offset = r.chunk_offset => s = r
  <2> SUFFICES ASSUME NEW s \in S, NEW r \in S, s.chunk_offset = r.chunk_offset PROVE s = r
    OBVIOUS
  <2>1. s \in zn_pair /\ r \in zn_pair /\ s.zone = r.zone
    BY <1>1
  <2> QED BY <2>1 DEF zn_pair
<1>3. f \in Injection(S, Chunks)
  BY <1>1, <1>2 DEF Injection, IsInjective
<1>4. IsFiniteSet(Chunks) /\ Cardinality(Chunks) = MaxZoneChunks /\ MaxZoneChunks \in Nat
  BY MaxZoneChunksAssumption, FS_Interval DEF Chunks
<1>5. IsFiniteSet(S) /\ Cardinality(S) <= MaxZoneChunks
  BY <1>3, <1>4, FS_Injection
<1>6. Cardinality(S) \in Nat
  BY <1>5, FS_CardinalityType
<1> QED BY <1>4, <1>5, <1>6

\* No counter of chunks wraps around.
LEMMA SmallCounts ==
  /\ \A n \in 0 .. MaxZoneChunks : n < MaxZoneChunks => Inc(n) = n + 1
  /\ \A n \in 1 .. MaxZoneChunks : Dec(n) = n - 1
<1>1. MaxZoneChunks \in Nat /\ UintMod \in Nat /\ UintMod > MaxZoneChunks
  <2>1. PICK m \in Nat, k \in Nat \ {0}, l \in Nat, w \in Nat :
          m = MaxZoneChunks /\ k = NumZones /\ l = EVICT_LOW_THRESH_CHUNKS /\ w = WorkloadMax
    BY MaxZoneChunksAssumption, NumZonesAssumption, ChunkThresholdAssumption, WorkloadMaxAssumption
  <2>2. 1 * m <= k * m /\ k * m \in Nat
    BY <2>1, Products
  <2>3. UintMod > k * m + l + w /\ UintMod \in Nat
    BY <2>1, ChunkThresholdAssumption, UintModAssumption
  <2> QED BY <2>1, <2>2, <2>3
<1> QED BY <1>1 DEF Inc, Dec

\* A chunk that is not in the queue is appended.
LEMMA LruAppend ==
  ASSUME NEW q \in Seq(Nodes), NEW U \in SUBSET Slots, LruOf(q, U), NEW s \in Slots \ U,
         NEW r, r = Append(Unlink(q, s), Node(s, TRUE))
  PROVE  LruOf(r, U \cup {s})
<1>1. PICK u \in Seq(Nodes) :
        /\ u = Unlink(q, s) /\ Len(u) = Len(q) /\ Len(q) \in Nat
        /\ \A i \in 1 .. Len(q) : u[i] = IF q[i].slot = s THEN Node(s, FALSE) ELSE q[i]
  <2>1. PICK u : u = Unlink(q, s)
    OBVIOUS
  <2>2. /\ u \in Seq(Nodes) /\ Len(u) = Len(q) /\ Len(q) \in Nat
        /\ \A i \in 1 .. Len(q) : u[i] = IF q[i].slot = s THEN Node(s, FALSE) ELSE q[i]
    BY <2>1, UnlinkFacts
  <2> QED BY <2>1, <2>2
<1>2. DOMAIN q = 1 .. Len(q)
  OBVIOUS
<1>3. \A i \in 1 .. Len(q) : u[i] = q[i] /\ q[i].slot \in U /\ q[i] = Node(q[i].slot, TRUE)
  BY <1>1, <1>2 DEF LruOf
<1>4. Node(s, TRUE) \in Nodes /\ Node(s, TRUE).slot = s
  BY DEF Node, Nodes
<1>5. /\ DOMAIN r = 1 .. Len(q) + 1 /\ r[Len(q) + 1] = Node(s, TRUE)
      /\ \A i \in 1 .. Len(q) : r[i] = q[i]
  <2>1. PICK e \in Nodes : e = Node(s, TRUE)
    BY <1>4
  <2>2. r = Append(u, e)
    BY <1>1, <2>1
  <2>3. /\ DOMAIN r = 1 .. Len(u) + 1 /\ r[Len(u) + 1] = e
        /\ \A i \in 1 .. Len(u) : r[i] = u[i]
    BY ONLY u \in Seq(Nodes), e \in Nodes, <2>2, AppendFacts
  <2> QED BY <1>1, <1>3, <2>1, <2>3
<1>6. \A i, j \in DOMAIN r : r[i].slot = r[j].slot => i = j
  <2> SUFFICES ASSUME NEW i \in DOMAIN r, NEW j \in DOMAIN r, r[i].slot = r[j].slot PROVE i = j
    OBVIOUS
  <2>1. (i \in 1 .. Len(q) \/ i = Len(q) + 1) /\ (j \in 1 .. Len(q) \/ j = Len(q) + 1)
    BY <1>1, <1>5
  <2>2. CASE i \in 1 .. Len(q) /\ j \in 1 .. Len(q)
    BY <1>2, <1>5, <2>2 DEF LruOf
  <2>3. CASE ~(i \in 1 .. Len(q) /\ j \in 1 .. Len(q))
    BY <1>3, <1>4, <1>5, <2>1, <2>3
  <2> QED BY <2>2, <2>3
<1>7. \A i \in DOMAIN r : r[i] = Node(r[i].slot, TRUE) /\ r[i].slot \in U \cup {s}
  <2> SUFFICES ASSUME NEW i \in DOMAIN r PROVE r[i] = Node(r[i].slot, TRUE) /\ r[i].slot \in U \cup {s}
    OBVIOUS
  <2>1. i \in 1 .. Len(q) \/ i = Len(q) + 1
    BY <1>1, <1>5
  <2> QED BY <1>3, <1>4, <1>5, <2>1
<1>8. ASSUME NEW p \in U \cup {s} PROVE \E i \in DOMAIN r : r[i].slot = p
  <2>1. CASE p = s
    <3>1. Len(q) + 1 \in DOMAIN r
      BY <1>1, <1>5
    <3> QED BY <1>4, <1>5, <2>1, <3>1
  <2>2. CASE p \in U
    <3>1. PICK i \in 1 .. Len(q) : q[i].slot = p
      BY <1>2, <2>2 DEF LruOf
    <3>2. i \in DOMAIN r
      BY <1>1, <1>5
    <3> QED BY <1>5, <3>1, <3>2
  <2> QED BY <2>1, <2>2
<1> QED BY <1>6, <1>7, <1>8 DEF LruOf

\* The head of the queue is removed.
LEMMA LruPop ==
  ASSUME NEW q \in Seq(Nodes), NEW U \in SUBSET Slots, LruOf(q, U), q # <<>>,
         NEW r, r = Unlink(Tail(q), Head(q).slot)
  PROVE  Head(q).slot \in U /\ LruOf(r, U \ {Head(q).slot})
<1>1. /\ Head(q) = q[1] /\ 1 \in DOMAIN q /\ Len(q) \in Nat \ {0}
      /\ DOMAIN q = 1 .. Len(q) /\ DOMAIN r = 1 .. Len(q) - 1
      /\ \A i \in 1 .. Len(q) - 1 : q[i + 1].slot # Head(q).slot => r[i] = q[i + 1]
  BY PopFacts
<1>2. PICK h \in U : h = Head(q).slot /\ h = q[1].slot
  BY <1>1 DEF LruOf
<1>3. \A i \in 1 .. Len(q) - 1 : i + 1 \in DOMAIN q /\ i + 1 # 1
  BY <1>1
<1>4. \A i \in 1 .. Len(q) - 1 : q[i + 1].slot # h
  BY <1>1, <1>2, <1>3 DEF LruOf
<1>5. \A i \in 1 .. Len(q) - 1 : r[i] = q[i + 1]
  BY <1>1, <1>2, <1>4
<1>6. \A i, j \in DOMAIN r : r[i].slot = r[j].slot => i = j
  <2> SUFFICES ASSUME NEW i \in DOMAIN r, NEW j \in DOMAIN r, r[i].slot = r[j].slot PROVE i = j
    OBVIOUS
  <2>1. i + 1 \in DOMAIN q /\ j + 1 \in DOMAIN q /\ q[i + 1].slot = q[j + 1].slot
    BY <1>1, <1>3, <1>5
  <2>2. i + 1 = j + 1
    BY <2>1 DEF LruOf
  <2> QED BY <1>1, <2>2
<1>7. \A i \in DOMAIN r : r[i] = Node(r[i].slot, TRUE) /\ r[i].slot \in U \ {h}
  <2> SUFFICES ASSUME NEW i \in DOMAIN r PROVE r[i] = Node(r[i].slot, TRUE) /\ r[i].slot \in U \ {h}
    OBVIOUS
  <2>1. i \in 1 .. Len(q) - 1
    BY <1>1
  <2>2. PICK j \in DOMAIN q : j = i + 1 /\ r[i] = q[j] /\ q[j].slot # h
    BY <1>3, <1>4, <1>5, <2>1
  <2>3. q[j] = Node(q[j].slot, TRUE) /\ q[j].slot \in U
    BY DEF LruOf
  <2> QED BY <2>2, <2>3
<1>8. ASSUME NEW p \in U \ {h} PROVE \E i \in DOMAIN r : r[i].slot = p
  <2>1. PICK j \in DOMAIN q : q[j].slot = p
    BY DEF LruOf
  <2>2. j # 1
    BY <1>2, <2>1
  <2>3. j - 1 \in 1 .. Len(q) - 1 /\ (j - 1) + 1 = j
    BY <1>1, <2>1, <2>2
  <2>4. r[j - 1] = q[j]
    BY <1>5, <2>3
  <2> QED BY <1>1, <2>1, <2>3, <2>4
<1> QED BY <1>2, <1>6, <1>7, <1>8 DEF LruOf

\* A node is moved to the tail.
LEMMA LruMove ==
  ASSUME NEW q \in Seq(Nodes), NEW U \in SUBSET Slots, LruOf(q, U), NEW k \in 1 .. Len(q),
         NEW r, r = Moved(q, k)
  PROVE  LruOf(r, U)
<1>1. /\ Len(q) \in Nat /\ DOMAIN r = 1 .. Len(q) /\ DOMAIN q = 1 .. Len(q) /\ r[Len(q)] = q[k]
      /\ \A i \in 1 .. Len(q) - 1 : r[i] = IF i < k THEN q[i] ELSE q[i + 1]
  BY MoveToTail, SMTT(30)
<1>2. PICK n \in Nat : n = Len(q)
  BY <1>1
<1> DEFINE from == [i \in 1 .. n |-> IF i = n THEN k ELSE IF i < k THEN i ELSE i + 1]
<1>3. \A i \in 1 .. n : /\ from[i] \in 1 .. n
                         /\ from[i] = IF i = n THEN k ELSE IF i < k THEN i ELSE i + 1
  BY <1>2
<1> HIDE DEF from
<1>4. \A i, j \in 1 .. n : from[i] = from[j] => i = j
  BY <1>2, <1>3
<1>5. \A j \in 1 .. n : \E i \in 1 .. n : from[i] = j
  <2> SUFFICES ASSUME NEW j \in 1 .. n PROVE \E i \in 1 .. n : from[i] = j
    OBVIOUS
  <2>1. CASE j = k
    <3>1. n \in 1 .. n
      BY <1>2
    <3>2. from[n] = j
      BY <1>3, <2>1, <3>1
    <3> QED BY <3>1, <3>2
  <2>2. CASE j < k
    <3>1. from[j] = j
      BY <1>2, <1>3, <2>2
    <3> QED BY <3>1
  <2>3. CASE j > k
    <3>1. j - 1 \in 1 .. n /\ j - 1 # n /\ ~(j - 1 < k) /\ (j - 1) + 1 = j
      BY <1>2, <2>3
    <3>2. from[j - 1] = j
      BY <1>3, <3>1
    <3> QED BY <3>1, <3>2
  <2> QED BY <1>2, <2>1, <2>2, <2>3
<1>6. ASSUME NEW i \in 1 .. n PROVE r[i] = q[from[i]]
  <2>1. CASE i = n
    BY <1>1, <1>2, <1>3, <2>1
  <2>2. CASE i # n
    <3>1. i \in 1 .. Len(q) - 1
      BY <1>2, <2>2
    <3> QED BY <1>1, <1>3, <2>2, <3>1
  <2> QED BY <2>1, <2>2, SMTT(30)
<1>7. DOMAIN r = 1 .. n /\ DOMAIN q = 1 .. n
  BY <1>1, <1>2
<1>8. \A i, j \in DOMAIN r : r[i].slot = r[j].slot => i = j
  <2> SUFFICES ASSUME NEW i \in 1 .. n, NEW j \in 1 .. n, r[i].slot = r[j].slot PROVE i = j
    BY <1>7
  <2>1. from[i] \in DOMAIN q /\ from[j] \in DOMAIN q /\ q[from[i]].slot = q[from[j]].slot
    BY <1>3, <1>6, <1>7
  <2>2. from[i] = from[j]
    BY <2>1 DEF LruOf
  <2> QED BY <1>4, <2>2
<1>9. \A i \in DOMAIN r : r[i] = Node(r[i].slot, TRUE) /\ r[i].slot \in U
  <2> SUFFICES ASSUME NEW i \in 1 .. n PROVE r[i] = Node(r[i].slot, TRUE) /\ r[i].slot \in U
    BY <1>7
  <2>1. PICK j \in DOMAIN q : r[i] = q[j]
    BY <1>3, <1>6, <1>7
  <2> QED BY <2>1 DEF LruOf
<1>10. ASSUME NEW p \in U PROVE \E i \in DOMAIN r : r[i].slot = p
  <2>1. PICK j \in 1 .. n : q[j].slot = p
    BY <1>7 DEF LruOf
  <2>2. PICK i \in 1 .. n : from[i] = j
    BY <1>5
  <2> QED BY <1>6, <1>7, <2>1, <2>2
<1> QED BY <1>8, <1>9, <1>10 DEF LruOf

\* A chunk comes into use.
LEMMA PoolAdd ==
  ASSUME NEW P \in PoolType, NEW Q, NEW U \in SUBSET Slots, PoolOf(P, U), NEW s \in Slots \ U, NEW entry,
         SlotSet(P, Q, s, [pair |-> s, in_use |-> TRUE], Inc(P[s.zone].chunks_in_use), entry)
  PROVE  PoolOf(Q, U \cup {s})
<1>1. \A r \in Slots : At(Q, r) = IF r = s THEN [pair |-> s, in_use |-> TRUE] ELSE At(P, r)
  BY DEF SlotSet, At
<1>2. U \cup {s} = {r \in Slots : At(Q, r).in_use} /\ \A r \in U \cup {s} : At(Q, r).pair = r
  BY <1>1 DEF PoolOf
<1>3. ASSUME NEW z \in Zones PROVE Q[z].chunks_in_use = Cardinality({r \in U \cup {s} : r.zone = z})
  <2> DEFINE S == {r \in U : r.zone = z}
  <2>1. IsFiniteSet(S) /\ Cardinality(S) \in 0 .. MaxZoneChunks /\ P[z].chunks_in_use = Cardinality(S)
    BY ZoneCount DEF PoolOf
  <2>2. CASE z = s.zone
    <3>1. {r \in U \cup {s} : r.zone = z} = S \cup {s} /\ s \notin S
      BY <2>2
    <3>2. Cardinality(S \cup {s}) = Cardinality(S) + 1
      BY <2>1, <3>1, FS_AddElement
    <3>3. Cardinality(S \cup {s}) \in 0 .. MaxZoneChunks
      BY <3>1, ZoneCount
    <3>4. Cardinality(S) < MaxZoneChunks
      BY <2>1, <3>2, <3>3, MaxZoneChunksAssumption
    <3>5. Inc(Cardinality(S)) = Cardinality(S) + 1
      BY <2>1, <3>4, SmallCounts
    <3>6. Q[z].chunks_in_use = Inc(P[z].chunks_in_use)
      BY <2>2 DEF SlotSet
    <3> QED BY <2>1, <3>1, <3>2, <3>5, <3>6
  <2>3. CASE z # s.zone
    <3>1. {r \in U \cup {s} : r.zone = z} = S
      BY <2>3
    <3> QED BY <2>1, <2>3, <3>1 DEF SlotSet
  <2> QED BY <2>2, <2>3
<1> QED BY <1>2, <1>3 DEF PoolOf

\* A chunk goes out of use.
LEMMA PoolDrop ==
  ASSUME NEW P \in PoolType, NEW Q, NEW U \in SUBSET Slots, PoolOf(P, U), NEW s \in U, NEW entry,
         SlotSet(P, Q, s, [pair |-> At(P, s).pair, in_use |-> FALSE], Dec(P[s.zone].chunks_in_use), entry)
  PROVE  PoolOf(Q, U \ {s})
<1>1. \A r \in Slots : At(Q, r) = IF r = s THEN [pair |-> At(P, s).pair, in_use |-> FALSE] ELSE At(P, r)
  BY DEF SlotSet, At
<1>2. U \ {s} = {r \in Slots : At(Q, r).in_use} /\ \A r \in U \ {s} : At(Q, r).pair = r
  BY <1>1 DEF PoolOf
<1>3. ASSUME NEW z \in Zones PROVE Q[z].chunks_in_use = Cardinality({r \in U \ {s} : r.zone = z})
  <2> DEFINE S == {r \in U : r.zone = z}
  <2>1. IsFiniteSet(S) /\ Cardinality(S) \in 0 .. MaxZoneChunks /\ P[z].chunks_in_use = Cardinality(S)
    BY ZoneCount DEF PoolOf
  <2>2. CASE z = s.zone
    <3>1. {r \in U \ {s} : r.zone = z} = S \ {s} /\ s \in S
      BY <2>2
    <3>2. Cardinality(S \ {s}) = Cardinality(S) - 1 /\ Cardinality(S) # 0
      BY <2>1, <3>1, FS_RemoveElement, FS_EmptySet
    <3>3. Dec(Cardinality(S)) = Cardinality(S) - 1
      BY <2>1, <3>2, SmallCounts, MaxZoneChunksAssumption
    <3>4. Q[z].chunks_in_use = Dec(P[z].chunks_in_use)
      BY <2>2 DEF SlotSet
    <3> QED BY <2>1, <3>1, <3>2, <3>3, <3>4
  <2>3. CASE z # s.zone
    <3>1. {r \in U \ {s} : r.zone = z} = S
      BY <2>3
    <3> QED BY <2>1, <2>3, <3>1 DEF SlotSet
  <2> QED BY <2>2, <2>3
<1> QED BY <1>2, <1>3 DEF PoolOf

\* A step that changes neither the pool nor the queue.
LEMMA ViewsSame ==
  ASSUME ViewsAgree, UNCHANGED <<lru_queue, zone_pool>>, Committed \subseteq Committed',
         \A u \in Threads : pc'[u] = "update_write" => pc[u] = "update_write" /\ location'[u] = location[u],
         \A u \in Threads : pc'[u] = "gc_reset" => pc[u] = "gc_reset" /\ gc'.zone = gc.zone
  PROVE  ViewsAgree'
<1>1. InUse' = InUse
  BY DEF InUse, Slot
<1>2. LruOf(lru_queue, InUse)' /\ PoolOf(zone_pool, InUse)'
  <2>1. LruOf(lru_queue', InUse') /\ PoolOf(zone_pool', InUse')
    BY <1>1 DEF ViewsAgree
  <2> QED BY <2>1 DEF LruOf, PoolOf, At
<1> QED BY <1>1, <1>2 DEF ViewsAgree

\* The front end commits a chunk that the policy does not know.
LEMMA ViewsFront ==
  ASSUME ChunkInv, ViewsAgree, NEW t \in Threads, UNCHANGED policyVars,
         TaskStep(t) \/ GetStep(t) \/ evict_task(t) \/ Wakeup(t)
  PROVE  ViewsAgree'
<1>0. FrontOK /\ FrontTypeOK(EvictPcs) /\ ManagerOK /\ ControlOK /\ UNCHANGED <<lru_queue, zone_pool, gc>>
  BY DEF ChunkInv, FrontOK, policyVars
<1>1. CASE ReturnZone(t)
  <2>1. pc[t] = "return_zone" /\ pc' = [pc EXCEPT ![t] = "update_write"] /\ location' = location
    BY <1>1 DEF ReturnZone, Goto, locals
  <2>2. location[t] \in zn_pair /\ location[t] \notin Committed
    BY <1>0, <2>1, HolderNotCommitted DEF Holders, HoldsZone
  <2>3. Committed' = Committed \cup {location[t]}
    BY <1>0, <1>1, FrontWritten
  <2>4. InUse' = InUse
    BY <1>0 DEF InUse, Slot
  <2>5. LruOf(lru_queue, InUse)' /\ PoolOf(zone_pool, InUse)'
    <3>1. LruOf(lru_queue', InUse') /\ PoolOf(zone_pool', InUse')
      BY <1>0, <2>4 DEF ViewsAgree
    <3> QED BY <3>1 DEF LruOf, PoolOf, At
  <2>6. \A u \in Threads : u # t => pc'[u] = pc[u]
    BY <1>0, <2>1 DEF FrontTypeOK
  <2>7. pc'[t] = "update_write"
    BY <1>0, <2>1 DEF FrontTypeOK
  <2>8. \A u \in Threads : pc'[u] = "update_write" => location[u] \in Committed' \ InUse
    BY <2>2, <2>3, <2>6 DEF ViewsAgree
  <2>9. \A u, v \in Threads :
          pc'[u] = "update_write" /\ pc'[v] = "update_write" /\ location[u] = location[v] => u = v
    BY <2>2, <2>6 DEF ViewsAgree
  <2>10. \A u \in Threads : pc'[u] = "gc_reset" => \A s \in InUse : s.zone # gc.zone
    BY <2>6, <2>7 DEF ViewsAgree
  <2>11. InUse \subseteq Committed'
    BY <2>3 DEF ViewsAgree
  <2> QED BY <1>0, <2>1, <2>4, <2>5, <2>8, <2>9, <2>10, <2>11 DEF ViewsAgree
<1>2. CASE ~ReturnZone(t)
  <2>1. Committed' = Committed
    BY <1>0, <1>2, FrontWritten
  <2>2. /\ \A u \in Threads : u # t => pc'[u] = pc[u] /\ location'[u] = location[u]
        /\ pc'[t] = "update_write" => pc[t] = "update_write" /\ location'[t] = location[t]
        /\ pc'[t] = "gc_reset" => pc[t] = "gc_reset"
    BY <1>0, <1>2
       DEF FrontTypeOK, TaskStep, TakeRequest, WorkloadDone, CountCompleted, GetStep, evict_task,
           zn_cachemap_find, FindReturnLocation, FindReturnType, ReadChunk, HitDone, GetZone,
           WriteChunk, MissDone, UndoZoneGet, UndoMap, Goto, Return, CheckDone, CheckFreeZones,
           Wakeup, cacheVars, locals
  <2> QED BY <1>0, <2>1, <2>2, ViewsSame
<1> QED BY <1>1, <1>2

\* The policy learns of a chunk.
LEMMA ViewsUpdateWrite ==
  ASSUME ChunkInv, ViewsAgree, NEW t \in Threads, UpdatePolicyWrite(t)
  PROVE  ViewsAgree' /\ InUse' = InUse \cup {location[t]}
<1>1. PICK s \in Slots : s = location[t]
  BY UpdateFacts DEF Slots
<1>2. /\ pc[t] = "update_write" /\ pc' = [pc EXCEPT ![t] = "insert"] /\ location' = location
      /\ lru_queue' = Append(Unlink(lru_queue, s), Node(s, TRUE)) /\ policy_mutex = NULL
  BY <1>1, UpdateFacts DEF UpdatePolicyWrite, Goto, locals
<1>3. PICK entry : SlotSet(zone_pool, zone_pool', s, [pair |-> s, in_use |-> TRUE],
                           Inc(zone_pool[s.zone].chunks_in_use), entry)
  BY <1>1, UpdateFacts
<1>4. s \in Committed \ InUse /\ InUse \in SUBSET Slots /\ InUse \subseteq Committed
  BY <1>1, <1>2 DEF ViewsAgree, InUse
<1>5. zone_pool \in PoolType /\ lru_queue \in Seq(Nodes) /\ MutexOK /\ CollectorOK
  BY DEF ChunkInv, PolicyInv, PolicyTypeOK
<1>6. LruOf(lru_queue', InUse \cup {s})
  BY <1>2, <1>4, <1>5, LruAppend DEF ViewsAgree
<1>7. PoolOf(zone_pool', InUse \cup {s})
  BY <1>3, <1>4, <1>5, PoolAdd DEF ViewsAgree
<1>8. InUse' = InUse \cup {s}
  BY <1>7 DEF PoolOf, InUse, Slot, At
<1>9. LruOf(lru_queue, InUse)' /\ PoolOf(zone_pool, InUse)'
  <2>1. LruOf(lru_queue', InUse') /\ PoolOf(zone_pool', InUse')
    BY <1>6, <1>7, <1>8
  <2> QED BY <2>1 DEF LruOf, PoolOf, At
<1>10. Committed' = Committed
  BY UpdateFacts DEF zsmVars, Committed, ChunkWritten, LastChunkWritten
<1>11. \A u \in Threads : u # t => pc'[u] = pc[u]
  BY <1>2 DEF ChunkInv, FrontOK, FrontTypeOK
<1>12. pc'[t] = "insert"
  BY <1>2 DEF ChunkInv, FrontOK, FrontTypeOK
<1>13. \A u \in Threads : pc'[u] = "update_write" => location[u] \in Committed \ (InUse \cup {s})
  BY <1>1, <1>2, <1>11, <1>12 DEF ViewsAgree
<1>14. \A u \in Threads : pc'[u] # "gc_reset"
  BY <1>2, <1>5, <1>11, <1>12, MutexFree DEF InPolicy, Collecting
<1>15. \A u, v \in Threads :
         pc'[u] = "update_write" /\ pc'[v] = "update_write" /\ location[u] = location[v] => u = v
  BY <1>11, <1>12 DEF ViewsAgree
<1> QED BY <1>1, <1>2, <1>4, <1>8, <1>9, <1>10, <1>13, <1>14, <1>15 DEF ViewsAgree

\* A hit only reorders the queue.
LEMMA ViewsUpdateRead ==
  ASSUME ChunkInv, ViewsAgree, NEW t \in Threads, UpdatePolicyRead(t)
  PROVE  ViewsAgree'
<1>1. PICK k : k = Found(lru_queue, result[t].location)
  OBVIOUS
<1>2. /\ lru_queue' = IF k = 0 THEN lru_queue ELSE Moved(lru_queue, k)
      /\ UNCHANGED <<zone_pool, gc, zsmVars, location>>
      /\ pc[t] = "update_read" /\ pc' = [pc EXCEPT ![t] = "release"]
  BY <1>1 DEF UpdatePolicyRead, zn_policy_chunk_update, UpdateRead, Found, Moved, Goto, locals
<1>3. lru_queue \in Seq(Nodes) /\ InUse \in SUBSET Slots
  BY DEF ChunkInv, PolicyInv, PolicyTypeOK, InUse
<1>4. k \in 0 .. Len(lru_queue)
  BY <1>1, <1>3, SelectFacts
<1>5. LruOf(lru_queue', InUse)
  <2>1. CASE k = 0
    BY <1>2, <2>1 DEF ViewsAgree
  <2>2. CASE k # 0
    <3>1. k \in 1 .. Len(lru_queue) /\ lru_queue' = Moved(lru_queue, k) /\ LruOf(lru_queue, InUse)
      BY <1>2, <1>3, <1>4, <2>2 DEF ViewsAgree
    <3> QED BY <1>3, <3>1, LruMove
  <2> QED BY <2>1, <2>2
<1>6. InUse' = InUse
  BY <1>2 DEF InUse, Slot
<1>7. LruOf(lru_queue, InUse)' /\ PoolOf(zone_pool, InUse)'
  <2>1. LruOf(lru_queue', InUse') /\ PoolOf(zone_pool', InUse')
    BY <1>2, <1>5, <1>6 DEF ViewsAgree
  <2> QED BY <2>1 DEF LruOf, PoolOf, At
<1>8. Committed' = Committed
  BY <1>2 DEF zsmVars, Committed, ChunkWritten, LastChunkWritten
<1>9. \A u \in Threads : pc'[u] \in {"update_write", "gc_reset"} => pc[u] = pc'[u]
  BY <1>2 DEF ChunkInv, FrontOK, FrontTypeOK
<1> QED BY <1>2, <1>6, <1>7, <1>8, <1>9 DEF ViewsAgree

\* A chunk is evicted.
LEMMA ViewsEvict ==
  ASSUME ChunkInv, ViewsAgree, NEW t \in Threads, EvictChunk(t)
  PROVE  ViewsAgree' /\ LruVictim \in InUse /\ InUse' = InUse \ {LruVictim}
<1>1. /\ pc[t] = "ch_evict" /\ pc' = pc /\ lru_queue # <<>>
      /\ LruVictim = At(zone_pool, Head(lru_queue).slot).pair
      /\ lru_queue' = Unlink(Tail(lru_queue), Head(lru_queue).slot)
  BY EvictFacts
<1>2. zone_pool \in PoolType /\ lru_queue \in Seq(Nodes) /\ MutexOK /\ InUse \in SUBSET Slots
  BY DEF ChunkInv, PolicyInv, PolicyTypeOK, InUse
<1>3. PICK s \in InUse : s = Head(lru_queue).slot /\ LruOf(lru_queue', InUse \ {s})
  BY <1>1, <1>2, LruPop DEF ViewsAgree
<1>4. LruVictim = s
  BY <1>1, <1>3 DEF ViewsAgree, PoolOf
<1>5. PICK entry : SlotSet(zone_pool, zone_pool', s, [pair |-> At(zone_pool, s).pair, in_use |-> FALSE],
                           Dec(zone_pool[s.zone].chunks_in_use), entry)
  BY <1>4, EvictFacts
<1>6. PoolOf(zone_pool', InUse \ {s})
  BY <1>2, <1>3, <1>5, PoolDrop DEF ViewsAgree
<1>7. InUse' = InUse \ {s}
  BY <1>6 DEF PoolOf, InUse, Slot, At
<1>8. LruOf(lru_queue, InUse)' /\ PoolOf(zone_pool, InUse)'
  <2>1. LruOf(lru_queue', InUse') /\ PoolOf(zone_pool', InUse')
    BY <1>3, <1>6, <1>7
  <2> QED BY <2>1 DEF LruOf, PoolOf, At
<1>9. Committed' = Committed
  BY DEF EvictChunk, zsm_mark_chunk_invalid, Committed, ChunkWritten, LastChunkWritten
<1>10. UNCHANGED <<location, gc>>
  BY DEF EvictChunk, cacheVars, locals
<1> QED BY <1>1, <1>4, <1>7, <1>8, <1>9, <1>10 DEF ViewsAgree

\* The collector clears and resets zones without a chunk in use.
LEMMA ViewsCollect ==
  ASSUME ChunkInv, ViewsAgree, ~gc.moved, NEW t \in Threads, CollectClear(t) \/ CollectReset(t),
         CollectReset(t) => \A u \in Threads : pc[u] = "update_write" => location[u].zone # gc.zone
  PROVE  ViewsAgree'
<1>0. /\ FrontTypeOK(EvictPcs) /\ ManagerOK /\ ControlOK /\ PolicyTypeOK /\ MutexOK /\ CollectorOK /\ ZonesHeld
      /\ gc.chunk = 0
  BY DEF ChunkInv, FrontOK, PolicyInv, CollectorOK
<1>1. UNCHANGED <<lru_queue, zone_pool, location>>
  BY DEF CollectClear, CollectReset, policyVars, locals
<1>2. InUse' = InUse
  BY <1>1 DEF InUse, Slot
<1>3. LruOf(lru_queue, InUse)' /\ PoolOf(zone_pool, InUse)'
  <2>1. LruOf(lru_queue', InUse') /\ PoolOf(zone_pool', InUse')
    BY <1>1, <1>2 DEF ViewsAgree
  <2> QED BY <2>1 DEF LruOf, PoolOf, At
<1>4. CASE CollectClear(t)
  <2>1. pc[t] = "gc_chunk" /\ pc' = [pc EXCEPT ![t] = "gc_reset"] /\ LiveChunks = {} /\ UNCHANGED <<zsmVars, gc>>
    BY <1>4 DEF CollectClear, Goto, policyVars
  <2>2. \A s \in InUse : s.zone # gc.zone
    <3> SUFFICES ASSUME NEW s \in InUse, s.zone = gc.zone PROVE FALSE
      OBVIOUS
    <3>1. s \in Slots /\ Slot(s).in_use /\ s.chunk_offset \in Chunks
      BY <1>0, SlotTypes DEF InUse
    <3>2. s.chunk_offset >= 0 /\ zone_pool[gc.zone].chunks[s.chunk_offset].in_use
      BY <3>1 DEF Slot, Chunks
    <3>3. s.chunk_offset \in LiveChunks
      BY <1>0, <3>1, <3>2 DEF LiveChunks
    <3> QED BY <2>1, <3>3
  <2>3. Committed' = Committed
    BY <2>1 DEF zsmVars, Committed, ChunkWritten, LastChunkWritten
  <2>4. \A u \in Threads : pc'[u] = "update_write" => pc[u] = "update_write"
    BY <1>0, <2>1 DEF FrontTypeOK
  <2> QED BY <1>1, <1>2, <1>3, <2>1, <2>2, <2>3, <2>4 DEF ViewsAgree
<1>5. CASE CollectReset(t)
  <2>1. /\ pc[t] = "gc_reset" /\ pc' = [pc EXCEPT ![t] = "gc_next"] /\ zsm_evict(gc.zone) /\ gc'.moved = gc.moved
        /\ UNCHANGED locals
    BY <1>5 DEF CollectReset, Goto, ResetOnDevice, NoCollection
  <2>2. \A u \in Threads : u # t => pc'[u] = pc[u] /\ pc[u] # "gc_reset"
    BY <1>0, <2>1, OneInPolicy DEF FrontTypeOK, InPolicy, Collecting
  <2>3. pc'[t] = "gc_next"
    BY <1>0, <2>1 DEF FrontTypeOK
  <2>4. PICK z \in Written : z = gc.zone
    <3>1. gc.zone \in Zones
      BY <1>0, <2>1 DEF CollectorOK, Collecting
    <3>2. gc.zone # -1
      BY <3>1, NumZonesAssumption DEF Zones
    <3> QED BY <1>0, <3>2 DEF ZonesHeld
  <2>5. Committed' = {p \in Committed : zone_state'[z] = "FREE" => p.zone # z}
    <3>1. ControlOK'
      BY <1>0, <2>1, <2>2, <2>3 DEF ControlOK, locals, InGet, OutsideGet, HasLocation
    <3>2. Holders' = Holders /\ held' = held
      <4>1. Holders' = Holders
        BY <2>1, <2>2, <2>3 DEF Holders, HoldsZone
      <4> QED BY <2>1, <4>1 DEF held, locals
    <3> QED BY <1>0, <2>1, <2>4, <3>1, <3>2, CollectorResets
  <2>6. InUse \subseteq Committed'
    BY <2>1, <2>4, <2>5 DEF ViewsAgree
  <2>7. \A u \in Threads : pc'[u] = "update_write" => location[u] \in Committed' \ InUse
    BY <1>5, <2>2, <2>3, <2>4, <2>5 DEF ViewsAgree
  <2>8. \A u \in Threads : pc'[u] # "gc_reset" /\ (pc'[u] = "update_write" => pc[u] = "update_write")
    BY <2>2, <2>3
  <2> QED BY <1>1, <1>2, <1>3, <2>6, <2>7, <2>8 DEF ViewsAgree
<1> QED BY <1>4, <1>5

\* A relocation that has begun is recorded, ...
LEMMA RelocationMoves ==
  ASSUME gc \in GcType, NEW t \in Threads, RelocateTo(t) \/ RelocateNowhere(t)
  PROVE  gc'.moved
<1>1. CASE RelocateTo(t)
  <2>1. \E c, p : gc' = TakePlace(gc, c, p)
    BY <1>1, Zenon DEF RelocateTo, TakePlace
  <2> QED BY <2>1 DEF TakePlace, GcType
<1>2. CASE RelocateNowhere(t)
  BY <1>2, SMTT(30) DEF RelocateNowhere, GcType
<1> QED BY <1>1, <1>2

\* ... and for good.
LEMMA MovedStays ==
  ASSUME ChunkInv, [Next]_vars
  PROVE  gc.moved => gc'.moved
<1>0. gc \in GcType
  BY DEF ChunkInv, PolicyInv, PolicyTypeOK
<1>1. CASE UNCHANGED gc
  BY <1>1
<1>2. ASSUME NEW t \in Threads, CollectZone(t) PROVE gc'.moved = gc.moved
  BY <1>0, <1>2 DEF CollectZone, GcType
<1>3. ASSUME NEW t \in Threads, RelocateTo(t) \/ RelocateNowhere(t) PROVE gc'.moved
  BY <1>0, <1>3, RelocationMoves
<1>4. ASSUME NEW t \in Threads, RelocateRead(t) \/ CollectReset(t) PROVE gc'.moved = gc.moved
  BY <1>0, <1>4, SMTT(30) DEF RelocateRead, CollectReset, NoCollection, GcType
<1>5. ASSUME NEW t \in Threads, RelocateInsert(t) PROVE gc'.moved = gc.moved
  BY <1>0, <1>5, Zenon DEF RelocateInsert, GcType
<1> QED BY <1>1, <1>2, <1>3, <1>4, <1>5, PolicySteps
     DEF policyVars, UpdatePolicyRead, UpdatePolicyWrite, zn_policy_chunk_update, EvictStart, EvictChunk,
         CollectDone

\* Every step keeps the views together.
LEMMA ViewsStep ==
  ASSUME ChunkInv, ~gc.moved => ViewsAgree, [Next]_vars,
         [\A t \in Threads : CollectReset(t) =>
            \A u \in Threads : pc[u] = "update_write" => location[u].zone # gc.zone]_vars
  PROVE  ~gc'.moved => ViewsAgree'
<1> SUFFICES ASSUME ~gc'.moved PROVE ViewsAgree'
  OBVIOUS
<1>0. FrontTypeOK(EvictPcs) /\ gc \in GcType /\ CollectorOK
  BY DEF ChunkInv, FrontOK, PolicyInv, PolicyTypeOK
<1>1. ~gc.moved /\ ViewsAgree
  BY MovedStays
<1>2. ASSUME NEW t \in Threads, (TaskStep(t) \/ GetStep(t) \/ evict_task(t) \/ Wakeup(t)) /\ UNCHANGED policyVars
      PROVE  ViewsAgree'
  BY <1>1, <1>2, ViewsFront
<1>3. ASSUME NEW t \in Threads, UpdatePolicyRead(t) \/ UpdatePolicyWrite(t) \/ EvictChunk(t) PROVE ViewsAgree'
  BY <1>1, <1>3, ViewsUpdateRead, ViewsUpdateWrite, ViewsEvict
<1>4. ASSUME NEW t \in Threads, CollectClear(t) \/ CollectReset(t) PROVE ViewsAgree'
  <2>1. pc' # pc
    BY <1>0, <1>4 DEF CollectClear, CollectReset, Goto, FrontTypeOK
  <2>2. vars' # vars
    BY <2>1 DEF vars, cacheVars
  <2> QED BY <1>1, <1>4, <2>2, ViewsCollect
<1>5. ASSUME NEW t \in Threads, RelocateTo(t) \/ RelocateNowhere(t) \/ RelocateRead(t) \/ RelocateWrite(t)
                                \/ RelocateInsert(t) \/ RelocateCrash(t)
      PROVE  FALSE
  <2>1. RelocateTo(t) \/ RelocateNowhere(t) => gc'.moved
    BY <1>0, RelocationMoves
  <2>2. RelocateRead(t) \/ RelocateWrite(t) \/ RelocateInsert(t) \/ RelocateCrash(t) => gc.moved
    BY <1>0, Zenon DEF RelocateRead, RelocateWrite, RelocateInsert, RelocateCrash, Goto, CollectorOK, Relocating
  <2> QED BY <1>1, <1>5, <2>1, <2>2
<1>6. ASSUME NEW t \in Threads, EvictRefused(t) \/ EvictStart(t) \/ EvictCrash(t) \/ CollectDone(t) \/ CollectZone(t)
      PROVE  ViewsAgree'
  <2>1. UNCHANGED <<zsmVars, locals, lru_queue, zone_pool>>
        /\ \E to \in {"get_zone", "bg_done", "ch_evict", "gc_chunk", "crashed"} : pc' = [pc EXCEPT ![t] = to]
    BY <1>6 DEF EvictRefused, EvictStart, EvictCrash, Crash, CollectDone, CollectZone, Goto,
                ReturnFromEvict, AfterEvict, policyVars
  <2>2. Committed' = Committed
    BY <2>1 DEF zsmVars, Committed, ChunkWritten, LastChunkWritten
  <2>3. \A u \in Threads : pc'[u] \in {"update_write", "gc_reset"} => u # t /\ pc[u] = pc'[u]
    BY <1>0, <2>1 DEF FrontTypeOK
  <2>4. \A u \in Threads : pc'[u] = "gc_reset" => gc'.zone = gc.zone
    <3>1. CASE CollectZone(t)
      <4>1. \A u \in Threads : u # t => pc[u] # "gc_reset"
        BY <3>1, OneInPolicy DEF CollectZone, AtCollect, ChunkInv, PolicyInv, InPolicy, Collecting
      <4> QED BY <2>3, <4>1
    <3>2. CASE ~CollectZone(t)
      BY <1>6, <3>2 DEF EvictRefused, EvictStart, EvictCrash, Crash, CollectDone, policyVars
    <3> QED BY <3>1, <3>2
  <2> QED BY <1>1, <2>1, <2>2, <2>3, <2>4, ViewsSame DEF locals
<1>7. CASE UNCHANGED vars
  <2>1. UNCHANGED <<zsmVars, locals, lru_queue, zone_pool, gc, pc>>
    BY <1>7 DEF vars, policyVars, cacheVars
  <2>2. Committed' = Committed
    BY <2>1 DEF zsmVars, Committed, ChunkWritten, LastChunkWritten
  <2> QED BY <1>1, <2>1, <2>2, ViewsSame DEF locals
<1> QED BY <1>2, <1>3, <1>4, <1>5, <1>6, <1>7
     DEF Next, RunStep, WakeupStep, Terminated, zn_policy_chunk_evict, zn_policy_chunk_gc

\* The invariant of the views.
LEMMA ViewsInductive == Spec /\ CollectsSettled => [](ChunkInv /\ (~gc.moved => ViewsAgree))
<1>1. Init => ViewsAgree
  <2> SUFFICES ASSUME Init PROVE ViewsAgree
    OBVIOUS
  <2>1. InUse = {} /\ lru_queue = <<>>
    BY NoPairFacts DEF Init, PolicyInit, InUse, Slot, Slots
  <2>2. \A z \in Zones : zone_pool[z].chunks_in_use = 0
    BY DEF Init, PolicyInit
  <2>3. \A t \in Threads : pc[t] \in {"next", "bg_done"}
    BY DEF Init, zn_init_cache
  <2>4. LruOf(lru_queue, InUse)
    BY <2>1 DEF LruOf
  <2>5. PoolOf(zone_pool, InUse)
    <3>1. \A z \in Zones : Cardinality({s \in InUse : s.zone = z}) = 0
      <4>1. \A z \in Zones : {s \in InUse : s.zone = z} = {}
        BY <2>1
      <4> QED BY <4>1, FS_EmptySet
    <3>2. InUse = {s \in Slots : At(zone_pool, s).in_use}
      BY DEF InUse, Slot, At
    <3> QED BY <2>1, <2>2, <3>1, <3>2 DEF PoolOf
  <2> QED BY <2>1, <2>3, <2>4, <2>5 DEF ViewsAgree
<1>2. ChunkInv /\ (~gc.moved => ViewsAgree) /\ [Next]_vars
      /\ [\A t \in Threads : CollectReset(t) =>
            \A u \in Threads : pc[u] = "update_write" => location[u].zone # gc.zone]_vars
        => (~gc.moved => ViewsAgree)'
  BY ViewsStep
<1> QED BY <1>1, <1>2, ChunkInductive, PTL DEF Spec, CollectsSettled

\* Until a chunk is relocated, the LRU queue, chunk_to_lru_map and zone_pool describe
\* the same chunks (chunk.c:37-45, 185-190), however many workers and evictors there
\* are, unless a zone is reset with an update for it under way.
THEOREM PoolKept == Spec /\ CollectsSettled => []PoolMatchesLru
<1>1. (~gc.moved => ViewsAgree) => PoolMatchesLru
  <2> SUFFICES ASSUME ~gc.moved, ViewsAgree PROVE PoolMatchesLru
    BY DEF PoolMatchesLru
  <2>1. \A i, j \in DOMAIN lru_queue : lru_queue[i].slot = lru_queue[j].slot => i = j
    BY DEF ViewsAgree, LruOf
  <2>2. {lru_queue[i] : i \in DOMAIN lru_queue} = {Node(s, TRUE) : s \in InUse}
    <3>1. ASSUME NEW i \in DOMAIN lru_queue PROVE \E s \in InUse : lru_queue[i] = Node(s, TRUE)
      BY DEF ViewsAgree, LruOf
    <3>2. ASSUME NEW s \in InUse PROVE \E i \in DOMAIN lru_queue : lru_queue[i] = Node(s, TRUE)
      <4>1. PICK i \in DOMAIN lru_queue : lru_queue[i].slot = s
        BY DEF ViewsAgree, LruOf
      <4>2. lru_queue[i] = Node(lru_queue[i].slot, TRUE)
        BY <4>1, Zenon DEF ViewsAgree, LruOf
      <4> QED BY <4>1, <4>2
    <3> QED BY <3>1, <3>2
  <2>3. /\ \A s \in InUse : Slot(s).pair = s
        /\ \A z \in Zones : zone_pool[z].chunks_in_use = Cardinality({s \in InUse : s.zone = z})
    BY Zenon DEF ViewsAgree, PoolOf, Slot, At
  <2> QED BY <2>1, <2>2, <2>3 DEF PoolMatchesLru
<1> QED BY <1>1, ViewsInductive, PTL

\* With one chunk per zone no zone is reset with an update for it under way.
THEOREM CollectsInOrder ==
  ASSUME MaxZoneChunks = 1
  PROVE  Spec => CollectsSettled
<1>1. ChunkInv /\ [Next]_vars
      => [\A t \in Threads : CollectReset(t) =>
            \A u \in Threads : pc[u] = "update_write" => location[u].zone # gc.zone]_vars
  <2> SUFFICES ASSUME ChunkInv, NEW t \in Threads, CollectReset(t), NEW u \in Threads, pc[u] = "update_write"
               PROVE  location[u].zone # gc.zone
    OBVIOUS
  <2>1. location[u] \in zn_pair
    BY DEF ChunkInv, FrontOK, ControlOK, HasLocation
  <2>2. location[u].zone \in Zones /\ location[u].chunk_offset \in 0 .. 0
    BY <2>1, NoPairFacts DEF Chunks
  <2>3. location[u] = Pair(location[u].zone, MaxZoneChunks - 1)
    BY <2>1, <2>2 DEF zn_pair, Pair
  <2> QED BY <2>2, <2>3 DEF ChunkInv, PolicyInv, ZonesHeld, Pending
<1> QED BY <1>1, ChunkInductive, PTL DEF Spec, CollectsSettled

\* With one worker the three views agree until a chunk is relocated, although other
\* threads evict and collect beside it: a zone that is reset (chunk.c:147) is full, and
\* the worker has told the policy of all of its chunks.
THEOREM OneWorkerViews ==
  ASSUME NEW w, Workers = {w}
  PROVE  Spec => []PoolMatchesLru
<1>1. ChunkInv /\ JustReturned /\ [Next]_vars
      => [\A t \in Threads : CollectReset(t) =>
            \A u \in Threads : pc[u] = "update_write" => location[u].zone # gc.zone]_vars
  <2> SUFFICES ASSUME ChunkInv, JustReturned, NEW t \in Threads, CollectReset(t),
                      NEW u \in Threads, pc[u] = "update_write"
               PROVE  location[u].zone # gc.zone
    OBVIOUS
  <2>1. gc.zone \in Zones /\ gc.zone # -1
    BY NumZonesAssumption DEF CollectReset, Goto, ChunkInv, PolicyInv, CollectorOK, Collecting, Zones
  <2>2. gc.zone \in Written
    BY <2>1 DEF ChunkInv, PolicyInv, ZonesHeld
  <2>3. location[u] \in zn_pair
    BY DEF ChunkInv, FrontOK, ControlOK, HasLocation
  <2>4. CASE location[u].chunk_offset = MaxZoneChunks - 1
    <3>1. location[u] = Pair(location[u].zone, MaxZoneChunks - 1) /\ location[u].zone \in Zones
      BY <2>3, <2>4, NoPairFacts DEF zn_pair, Pair
    <3> QED BY <3>1 DEF ChunkInv, PolicyInv, ZonesHeld, Pending
  <2>5. CASE location[u].chunk_offset # MaxZoneChunks - 1
    BY <2>2, <2>5 DEF JustReturned
  <2> QED BY <2>4, <2>5
<1>2. Spec => CollectsSettled
  BY <1>1, JustReturnedInductive, PTL DEF Spec, CollectsSettled
<1> QED BY <1>2, PoolKept, PTL
------------------------------------------------------------------------------
(***************************************************************************)
(* What the manager assumes of its callers.  Until a chunk is relocated    *)
(* the manager has lent zones to the workers only, it resets zones that    *)
(* are full, and no more chunks are marked invalid than were asked for.    *)
(***************************************************************************)
\* The front end's invariant, as with the promotional policy.
LEMMA NothingLent ==
  ASSUME ChunkInv, ~gc.moved
  PROVE  FrontInv(EvictPcs)
<1>1. /\ ManagerOK /\ ControlOK /\ FrontTypeOK(EvictPcs) /\ CompletedOK /\ FillersPresent
      /\ WholeCommitted /\ WholeBeforeReturn
      /\ grant = held /\ writes_occurring = Cardinality(Holders)
  BY DEF ChunkInv, FrontOK, WholeOK, ManagerOK, LentOK
<1>2. \A t \in Threads : /\ t \in Holders => grant[t] = location[t] /\ grant[t] \in zn_pair
                         /\ grant[t] # NoPair <=> t \in Holders
                         /\ t \notin Holders => grant[t] = NoPair
  BY <1>1, HeldFacts
<1>3. Writers = Holders
  BY <1>2 DEF Writers, Holders
<1>4. ActiveZoneBudget
  BY <1>1, <1>3 DEF ManagerOK, LentOK, ActiveZoneBudget
<1>5. GrantsMatchLocations
  BY <1>2 DEF GrantsMatchLocations, Holders
<1>6. GrantsExclusive
  <2>1. ASSUME NEW t \in Threads, grant[t] # NoPair
        PROVE  /\ zone_state[grant[t].zone] = "WRITE_OCCURING"
               /\ chunk_offset[grant[t].zone] = grant[t].chunk_offset
    BY <1>1, <1>2, <2>1 DEF ManagerOK, HeldExclusive
  <2>2. ASSUME NEW t \in Threads, NEW u \in Threads, grant[t] # NoPair, grant[t].zone = grant[u].zone
        PROVE  t = u
    <3>1. grant[u] # NoPair
      BY <1>2, <2>2, NoPairFacts
    <3> QED BY <1>1, <1>2, <2>2, <3>1 DEF ManagerOK, HeldExclusive
  <2> QED BY <2>1, <2>2 DEF GrantsExclusive
<1>7. ZsmInv
  BY <1>1, <1>6 DEF ManagerOK, ZsmInv
<1> QED BY <1>1, <1>4, <1>5, <1>7 DEF FrontInv

\* Every mark stands for a request whose node has left the LRU queue; a successful
\* reset does not take the marks back (zone_state_manager.c:280-284).
MarksOK ==
  \A z \in Zones : Len(invalid[z]) + Len(lru_queue) + Cardinality(Owing) <= workload_index

\* The front end marks nothing.
LEMMA FrontMarks ==
  ASSUME ChunkInv, NEW t \in Threads, TaskStep(t) \/ GetStep(t) \/ evict_task(t) \/ Wakeup(t)
  PROVE  invalid' = invalid
<1>1. CASE GetZone(t) \/ ReturnZone(t) \/ UndoZoneGet(t)
  BY <1>1 DEF GetZone, ReturnZone, UndoZoneGet, zsm_get_active_zone_success, TakeActiveZone, OpenFreeZone,
              zsm_get_active_zone_error, zsm_return_active_zone, zsm_failed_to_write, PopActive, close_zone,
              zsmVars
<1>2. CASE ~GetZone(t) /\ ~ReturnZone(t) /\ ~UndoZoneGet(t)
  BY <1>2, OtherSteps DEF ChunkInv, FrontOK, zsmVars, WriteChunk
<1> QED BY <1>1, <1>2

\* The list of invalid chunks grows by evictions only.
LEMMA MarksStep ==
  ASSUME ChunkInv, ChunkInv', MarksOK, ~gc.moved, ~gc'.moved, [Next]_vars
  PROVE  MarksOK'
<1> SUFFICES ASSUME NEW z \in Zones
             PROVE  Len(invalid'[z]) + Len(lru_queue') + Cardinality(Owing') <= workload_index'
  BY DEF MarksOK
<1>0. /\ FrontTypeOK(EvictPcs) /\ ManagerOK /\ CollectorOK /\ gc \in GcType
      /\ lru_queue \in Seq(Nodes) /\ Len(lru_queue) \in Nat /\ Cardinality(Owing) \in Nat
      /\ workload_index \in Nat /\ invalid \in [Zones -> Seq(Chunks)] /\ Len(invalid[z]) \in Nat
      /\ Len(invalid[z]) + Len(lru_queue) + Cardinality(Owing) <= workload_index
  <2>1. /\ FrontTypeOK(EvictPcs) /\ ManagerOK /\ CollectorOK /\ gc \in GcType
        /\ invalid \in [Zones -> Seq(Chunks)]
    BY DEF ChunkInv, FrontOK, PolicyInv, PolicyTypeOK, ManagerOK, ZsmTypeOK
  <2>2. Len(invalid[z]) \in Nat
    <3>1. invalid[z] \in Seq(Chunks)
      BY <2>1
    <3> QED BY <3>1
  <2>3. Len(invalid[z]) + Len(lru_queue) + Cardinality(Owing) <= workload_index
    BY DEF MarksOK
  <2>4. /\ lru_queue \in Seq(Nodes) /\ Len(lru_queue) \in Nat /\ Cardinality(Owing) \in Nat
        /\ workload_index \in 0 .. WorkloadMax /\ WorkloadMax \in Nat
    BY RoomTypes
  <2>5. workload_index \in Nat
    BY ONLY <2>4
  <2> QED BY <2>1, <2>2, <2>3, <2>4, <2>5
<1>1. CASE \E t \in Threads : UpdatePolicyWrite(t)
  <2>1. PICK t \in Threads : UpdatePolicyWrite(t)
    BY <1>1
  <2>2. Len(lru_queue') = Len(lru_queue) + 1 /\ Cardinality(Owing') = Cardinality(Owing) - 1
    BY <2>1, UpdateCounts
  <2>3. invalid' = invalid /\ workload_index' = workload_index
    BY <2>1, UpdateFacts DEF zsmVars, progress
  <2> QED BY <1>0, <2>2, <2>3
<1>2. CASE ~\E t \in Threads : UpdatePolicyWrite(t)
  <2>1. /\ Cardinality(Owing') \in Nat /\ workload_index' \in Nat /\ workload_index <= workload_index'
        /\ Cardinality(Owing') + workload_index <= Cardinality(Owing) + workload_index'
    BY <1>2, OwingSteps
  <2>2. ASSUME Len(lru_queue') \in Nat, Len(invalid'[z]) \in Nat,
               Len(invalid'[z]) + Len(lru_queue') <= Len(invalid[z]) + Len(lru_queue)
        PROVE  Len(invalid'[z]) + Len(lru_queue') + Cardinality(Owing') <= workload_index'
    BY ONLY <1>0, <2>1, <2>2, SMTT(30)
  <2>3. CASE \E t \in Threads : EvictChunk(t)
    <3>1. PICK t \in Threads : EvictChunk(t)
      BY <2>3
    <3>2. Len(lru_queue') = Len(lru_queue) - 1 /\ Len(lru_queue) \in Nat \ {0}
      BY <1>0, <3>1, EvictFacts, PopFacts
    <3>3. PICK v \in zn_pair : v = LruVictim /\ v.zone \in Zones /\ v.chunk_offset \in Chunks
      BY <3>1, EvictFacts, NoPairFacts
    <3>4. invalid' = [invalid EXCEPT ![v.zone] = Append(@, v.chunk_offset)]
      BY <3>1, <3>3 DEF EvictChunk, zsm_mark_chunk_invalid
    <3>5. Len(invalid'[z]) \in {Len(invalid[z]), Len(invalid[z]) + 1}
      <4>1. CASE z = v.zone
        <5>1. PICK q \in Seq(Chunks) : q = invalid[z]
          BY <1>0
        <5>2. invalid'[z] = Append(q, v.chunk_offset)
          BY <1>0, <3>4, <4>1, <5>1
        <5> QED BY <3>3, <5>1, <5>2, AppendFacts
      <4>2. CASE z # v.zone
        BY <1>0, <3>4, <4>2
      <4> QED BY <4>1, <4>2
    <3> QED BY <1>0, <2>2, <3>2, <3>5
  <2>4. CASE ~\E t \in Threads : EvictChunk(t)
    <3>1. Len(lru_queue') = Len(lru_queue)
      <4>1. ASSUME NEW t \in Threads, UpdatePolicyRead(t) PROVE Len(lru_queue') = Len(lru_queue)
        BY <4>1, ReadCounts, SMTT(30)
      <4>2. ASSUME NEW t \in Threads, RelocateInsert(t) PROVE FALSE
        BY <1>0, <4>2, Zenon DEF RelocateInsert, CollectorOK, Relocating
      <4> QED BY <1>2, <2>4, <4>1, <4>2, PolicySteps
           DEF policyVars, EvictStart, CollectDone, CollectZone, RelocateTo, RelocateNowhere, RelocateRead,
               CollectReset
    <3>2. invalid' = invalid \/ \E y \in Zones : invalid' = [invalid EXCEPT ![y] = <<>>]
      <4>1. ASSUME NEW t \in Threads, TaskStep(t) \/ GetStep(t) \/ evict_task(t) \/ Wakeup(t)
            PROVE  invalid' = invalid
        BY <4>1, FrontMarks
      <4>2. ASSUME NEW t \in Threads, CollectReset(t)
            PROVE  invalid' = invalid \/ \E y \in Zones : invalid' = [invalid EXCEPT ![y] = <<>>]
        <5>1. gc.zone \in Zones /\ zsm_evict(gc.zone)
          BY <1>0, <4>2 DEF CollectReset, Goto, ResetOnDevice, CollectorOK, Collecting
        <5> QED BY <5>1 DEF zsm_evict, ResetDone, ResetFailed
      <4>3. ASSUME NEW t \in Threads, RelocateTo(t) \/ RelocateNowhere(t) PROVE FALSE
        BY <1>0, <4>3, RelocationMoves
      <4>4. ASSUME NEW t \in Threads,
                   \/ UpdatePolicyRead(t) \/ EvictRefused(t) \/ EvictStart(t) \/ EvictCrash(t) \/ CollectDone(t)
                   \/ CollectZone(t) \/ RelocateRead(t) \/ RelocateWrite(t)
                   \/ RelocateInsert(t) \/ RelocateCrash(t) \/ CollectClear(t)
            PROVE  invalid' = invalid
        BY <4>4, Zenon DEF UpdatePolicyRead, EvictRefused, EvictStart, EvictCrash, Crash, ReturnFromEvict, CollectDone,
                    CollectZone, RelocateRead, RelocateWrite, RelocateInsert, RelocateCrash,
                    CollectClear, zsmVars
      <4>5. CASE UNCHANGED vars
        BY <4>5 DEF vars, zsmVars
      <4> QED BY <1>2, <2>4, <4>1, <4>2, <4>3, <4>4, <4>5
           DEF Next, RunStep, WakeupStep, Terminated, zn_policy_chunk_evict, zn_policy_chunk_gc
    <3>3. Len(invalid'[z]) \in {Len(invalid[z]), 0}
      BY <1>0, <3>2
    <3> QED BY <1>0, <2>2, <3>1, <3>3
  <2> QED BY <2>3, <2>4
<1> QED BY <1>1, <1>2

\* The calls of a step that relocates nothing are calls the manager is made for.
LEMMA CallsStep ==
  ASSUME MaxInvalid >= WorkloadMax, ChunkInv, ViewsAgree, MarksOK, ~gc.moved, ~gc'.moved, [Next]_vars
  PROVE  [ZsmNext]_zsmVars
<1>0. /\ FrontTypeOK(EvictPcs) /\ gc \in GcType /\ CollectorOK /\ ZonesHeld /\ ManagerOK
      /\ GrantsMatchLocations
  BY NothingLent DEF ChunkInv, FrontOK, PolicyInv, PolicyTypeOK, FrontInv
<1>1. ASSUME NEW t \in Threads, TaskStep(t) \/ GetStep(t) \/ evict_task(t) \/ Wakeup(t)
      PROVE  [ZsmNext]_zsmVars
  BY <1>0, <1>1, FrontCallsZsm DEF ZsmNext
<1>2. ASSUME NEW t \in Threads, EvictChunk(t) PROVE [ZsmNext]_zsmVars
  <2>1. PICK v \in zn_pair : v = LruVictim /\ v.zone \in Zones
    BY <1>2, EvictFacts, NoPairFacts
  <2>2. v \in Committed
    BY <1>2, <2>1, ViewsEvict DEF ViewsAgree
  <2>3. ChunkWritten(v)
    BY <2>2 DEF Committed
  <2>4. Len(invalid[v.zone]) < MaxInvalid
    <3>1. Len(invalid[v.zone]) + Len(lru_queue) + Cardinality(Owing) <= workload_index
      BY <2>1 DEF MarksOK
    <3>2. lru_queue \in Seq(Nodes) /\ lru_queue # <<>>
      BY <1>2, EvictFacts, RoomTypes
    <3>3. Len(lru_queue) \in Nat \ {0}
      BY <3>2, PopFacts
    <3>4. Cardinality(Owing) \in Nat /\ workload_index \in 0 .. WorkloadMax /\ WorkloadMax \in Nat
      BY RoomTypes
    <3>5. invalid[v.zone] \in Seq(Chunks)
      BY <1>0, <2>1 DEF ManagerOK, ZsmTypeOK
    <3>6. Len(invalid[v.zone]) \in Nat
      BY <3>5
    <3> QED BY ONLY <3>1, <3>3, <3>4, <3>6, MaxInvalid >= WorkloadMax, Constants
  <2>5. zsm_mark_chunk_invalid(v)
    BY <1>2, <2>1 DEF EvictChunk
  <2> QED BY <2>1, <2>3, <2>4, <2>5 DEF ZsmNext, InvalidateStep
<1>3. ASSUME NEW t \in Threads, CollectReset(t) PROVE [ZsmNext]_zsmVars
  <2>1. gc.zone \in Zones /\ zsm_evict(gc.zone)
    BY <1>0, <1>3 DEF CollectReset, Goto, ResetOnDevice, CollectorOK, Collecting
  <2>2. gc.zone # -1
    BY <2>1 DEF Zones
  <2>3. LastChunkWritten(gc.zone)
    BY <1>0, <2>2 DEF ZonesHeld, Written
  <2> QED BY <2>1, <2>3 DEF ZsmNext, EvictStep
<1>4. ASSUME NEW t \in Threads, RelocateTo(t) \/ RelocateNowhere(t) PROVE FALSE
  BY <1>0, <1>4, RelocationMoves
<1>5. ASSUME NEW t \in Threads,
             \/ UpdatePolicyRead(t) \/ UpdatePolicyWrite(t) \/ EvictRefused(t) \/ EvictStart(t) \/ EvictCrash(t)
             \/ CollectDone(t) \/ CollectZone(t) \/ RelocateRead(t) \/ RelocateWrite(t)
             \/ RelocateInsert(t) \/ RelocateCrash(t) \/ CollectClear(t)
      PROVE  UNCHANGED zsmVars
  BY <1>5, Zenon DEF UpdatePolicyRead, UpdatePolicyWrite, EvictRefused, EvictStart, EvictCrash, Crash, ReturnFromEvict,
              CollectDone, CollectZone, RelocateRead, RelocateWrite, RelocateInsert,
              RelocateCrash, CollectClear
<1>6. CASE UNCHANGED vars
  BY <1>6 DEF vars
<1> QED BY <1>1, <1>2, <1>3, <1>4, <1>5, <1>6
     DEF Next, RunStep, WakeupStep, Terminated, zn_policy_chunk_evict, zn_policy_chunk_gc

\* The invariant of the marks.
LEMMA MarksInductive ==
  Spec /\ CollectsSettled => [](ChunkInv /\ (~gc.moved => ViewsAgree) /\ (~gc.moved => MarksOK))
<1>1. Init => MarksOK
  <2> SUFFICES ASSUME Init, NEW z \in Zones
               PROVE  Len(invalid[z]) + Len(lru_queue) + Cardinality(Owing) <= workload_index
    BY DEF MarksOK
  <2>1. invalid[z] = <<>> /\ lru_queue = <<>> /\ workload_index = 0
    BY DEF Init, zn_init_cache, zsm_init, PolicyInit
  <2>2. Owing = {}
    BY WorkersAssumption DEF Init, zn_init_cache, Owing, OutsideGet
  <2>3. Cardinality(Owing) = 0
    BY <2>2, FS_EmptySet
  <2> QED BY <2>1, <2>3
<1>2. ChunkInv /\ ChunkInv' /\ (~gc.moved => MarksOK) /\ [Next]_vars => (~gc.moved => MarksOK)'
  BY MovedStays, MarksStep
<1> QED BY <1>1, <1>2, ViewsInductive, PTL DEF Spec

\* Until a chunk is relocated, the program calls the zone state manager only as the
\* manager assumes: a zone is reset when its last chunk was written, and a chunk that
\* is marked invalid was written (chunk.c:145-147, 200), for every number of workers and
\* evictors, unless a zone is reset with an update for it under way.  MaxInvalid, the
\* bound of the manager's own model, must not be what stops it.
THEOREM ChunkRespectsZsm ==
  ASSUME MaxInvalid >= WorkloadMax
  PROVE  Spec /\ CollectsSettled => ChunkCallsRespectZsm
<1>1. Init => zsm_init
  BY DEF Init, zn_init_cache
<1>2. /\ ChunkInv /\ (~gc.moved => ViewsAgree) /\ (~gc.moved => MarksOK) /\ [Next]_vars
      => [ZsmNext \/ gc'.moved]_zsmVars
  BY MovedStays, CallsStep
<1> QED BY <1>1, <1>2, MarksInductive, PTL DEF Spec, ChunkCallsRespectZsm
------------------------------------------------------------------------------
(***************************************************************************)
(* The data.  Until a chunk is relocated, the chunks in use are those the  *)
(* map knows, and a hit returns what was asked for, unless a chunk is      *)
(* evicted, or a zone reset, while a thread is on its way to it.           *)
(***************************************************************************)
\* A thread that has looked at the entry of a chunk and not copied it yet, or is about
\* to insert one.
BoundFor(t, p) ==
  \/ pc[t] \in Copying /\ zone_map[data_id[t]] = Entry("LOC", p)
  \/ pc[t] = "insert" /\ location[t] = p

\* No chunk is evicted with a thread bound for it, and no zone is reset with a reader
\* in it or an update for it under way: the policy looks at neither (chunk.c:145-147,
\* 185-203).
EvictsSettled ==
  [][\A t \in Threads :
       /\ EvictChunk(t) => \A u \in Threads : ~BoundFor(u, LruVictim)
       /\ CollectReset(t) =>
            /\ Readers(gc.zone) = {}
            /\ \A u \in Threads : pc[u] = "update_write" => location[u].zone # gc.zone]_vars

\* The chunks in use are the ones that are mapped, and those about to be.
KnownOK ==
  \A s \in Slots :
    s \in InUse <=> IdOf(s) # NULL \/ \E t \in Threads : pc[t] = "insert" /\ location[t] = s

\* What EvictableIsMapped says.
LEMMA KnownMapped ==
  ASSUME FrontTypeOK(EvictPcs), ControlOK, DataInv, KnownOK
  PROVE  InUse = {zone_map[id].location : id \in {i \in Ids : zone_map[i].type = "LOC"}}
                   \cup {location[t] : t \in {u \in Threads : pc[u] = "insert"}}
<1> DEFINE Mapped == {zone_map[id].location : id \in {i \in Ids : zone_map[i].type = "LOC"}}
<1> DEFINE Coming == {location[t] : t \in {u \in Threads : pc[u] = "insert"}}
<1>1. ASSUME NEW s \in InUse PROVE s \in Mapped \cup Coming
  <2>1. s \in zn_pair /\ (IdOf(s) # NULL \/ \E t \in Threads : pc[t] = "insert" /\ location[t] = s)
    BY DEF InUse, Slots, KnownOK
  <2>2. CASE IdOf(s) # NULL
    <3>1. IdOf(s) \in Ids /\ zone_map[IdOf(s)] = Entry("LOC", s)
      BY <2>1, <2>2, DataTypes DEF DataInv, MapsInverse
    <3>2. zone_map[IdOf(s)].type = "LOC" /\ zone_map[IdOf(s)].location = s
      BY <3>1 DEF Entry
    <3> QED BY <3>1, <3>2
  <2>3. CASE \E t \in Threads : pc[t] = "insert" /\ location[t] = s
    BY <2>3
  <2> QED BY <2>1, <2>2, <2>3
<1>2. ASSUME NEW id \in Ids, zone_map[id].type = "LOC" PROVE zone_map[id].location \in InUse
  <2>1. zone_map[id].location \in zn_pair /\ IdOf(zone_map[id].location) = id
    BY <1>2, DataTypes DEF DataInv, MapsInverse
  <2> QED BY <2>1, NullAssumption DEF KnownOK, Slots
<1>3. ASSUME NEW t \in Threads, pc[t] = "insert" PROVE location[t] \in InUse
  <2>1. location[t] \in zn_pair
    BY <1>3, LocationTypes DEF Inserting
  <2> QED BY <1>3, <2>1 DEF KnownOK, Slots
<1> QED BY <1>1, <1>2, <1>3

\* An insertion maps one chunk.
LEMMA InsertIds ==
  ASSUME FrontTypeOK(EvictPcs), NEW id \in Ids, NEW pair \in zn_pair, zn_cachemap_insert(id, pair), NEW p \in zn_pair
  PROVE  IdOf(p)' = IF p = pair THEN id ELSE IdOf(p)
<1>1. data_map' = [data_map EXCEPT ![pair.zone][pair.chunk_offset] = id]
  BY DEF zn_cachemap_insert
<1>2. /\ p.zone \in Zones /\ p.chunk_offset \in Chunks
      /\ pair.zone \in Zones /\ pair.chunk_offset \in Chunks
  BY NoPairFacts
<1>3. /\ data_map \in [Zones -> [Chunks -> Ids \cup {NULL}]]
      /\ data_map[pair.zone] \in [Chunks -> Ids \cup {NULL}]
  BY <1>2 DEF FrontTypeOK, mapTypeOK
<1>4. p = pair \/ p.zone # pair.zone \/ p.chunk_offset # pair.chunk_offset
  BY DEF zn_pair
<1> QED BY <1>1, <1>2, <1>3, <1>4 DEF IdOf

\* The eviction of a chunk takes one mapping away.
LEMMA ClearIds ==
  ASSUME FrontTypeOK(EvictPcs), NEW v \in zn_pair, zn_cachemap_clear_chunk(v), NEW p \in zn_pair
  PROVE  IdOf(p)' = IF p = v THEN NULL ELSE IdOf(p)
<1>1. data_map' = [data_map EXCEPT ![v.zone][v.chunk_offset] = NULL]
  BY DEF zn_cachemap_clear_chunk
<1>2. /\ p.zone \in Zones /\ p.chunk_offset \in Chunks
      /\ v.zone \in Zones /\ v.chunk_offset \in Chunks
  BY NoPairFacts
<1>3. /\ data_map \in [Zones -> [Chunks -> Ids \cup {NULL}]]
      /\ data_map[v.zone] \in [Chunks -> Ids \cup {NULL}]
  BY <1>2 DEF FrontTypeOK, mapTypeOK
<1>4. p = v \/ p.zone # v.zone \/ p.chunk_offset # v.chunk_offset
  BY DEF zn_pair
<1> QED BY <1>1, <1>2, <1>3, <1>4 DEF IdOf

\* The eviction of a chunk nobody is bound for leaves the rest as it was.
LEMMA ClearChunkData ==
  ASSUME FrontTypeOK(EvictPcs), ControlOK, DataInv, NEW v \in zn_pair, IdOf(v) # NULL,
         zn_cachemap_clear_chunk(v), \A u \in Threads : ~BoundFor(u, v),
         Committed' = Committed, UNCHANGED <<pc, locals, disk>>
  PROVE  DataInv'
<1>0. UNCHANGED <<data_id, result, location, data, active_readers>>
  BY DEF locals, zn_cachemap_clear_chunk
<1>1. PICK id \in Ids : id = IdOf(v)
  BY DataTypes
<1>2. zone_map[id] = Entry("LOC", v) /\ zone_map[id].type = "LOC" /\ IdAt(v) = id
  <2>1. zone_map[id] = Entry("LOC", v)
    BY <1>1 DEF DataInv, MapsInverse
  <2> QED BY <1>1, <2>1 DEF Entry, IdAt, IdOf
<1>3. zone_map' = [zone_map EXCEPT ![id].type = "EMPTY"]
  BY <1>2 DEF zn_cachemap_clear_chunk
<1>4. /\ \A i \in Ids \ {id} : zone_map'[i] = zone_map[i]
      /\ zone_map'[id].type = "EMPTY"
  BY <1>3 DEF FrontTypeOK, mapTypeOK, zone_map_result
<1>5. \A p \in zn_pair : IdOf(p)' = IF p = v THEN NULL ELSE IdOf(p)
  BY ClearIds
<1>6. ASSUME NEW u \in Threads, pc[u] \in Copying
      PROVE  data_id[u] \in Ids \ {id} /\ zone_map'[data_id[u]] = zone_map[data_id[u]]
  <2>1. data_id[u] \in Ids
    BY <1>6, NullAssumption DEF Copying, ControlOK, FrontTypeOK, InGet, OutsideGet
  <2>2. data_id[u] # id
    BY <1>2, <1>6 DEF BoundFor
  <2> QED BY <1>4, <2>1, <2>2
<1>7. MapsInverse' /\ MappedStored'
  <2>1. ASSUME NEW i \in Ids, zone_map'[i].type = "LOC" PROVE IdOf(zone_map[i].location)' = i
    <3>1. /\ i # id /\ zone_map'[i] = zone_map[i]
          /\ zone_map[i].location \in zn_pair /\ IdOf(zone_map[i].location) = i
      BY <1>4, <2>1, DataTypes DEF DataInv, MapsInverse
    <3>2. zone_map[i].location # v
      BY <1>1, <3>1
    <3>3. data_map'[zone_map[i].location.zone][zone_map[i].location.chunk_offset] = i
      BY <1>5, <3>1, <3>2 DEF IdOf
    <3> QED BY <3>1, <3>3 DEF IdOf
  <2>2. ASSUME NEW p \in zn_pair, IdOf(p)' # NULL
        PROVE  zone_map'[IdOf(p)'] = Entry("LOC", p) /\ IdOf(p)' = IdOf(p)
    <3>1. p # v /\ IdOf(p)' = IdOf(p) /\ IdOf(p) \in Ids /\ zone_map[IdOf(p)] = Entry("LOC", p)
      BY <1>5, <2>2, DataTypes DEF DataInv, MapsInverse
    <3>2. IdOf(p) # id
      BY <1>2, <3>1 DEF Entry
    <3> QED BY <1>4, <3>1, <3>2
  <2>3. MapsInverse'
    BY <2>1, <2>2 DEF MapsInverse
  <2>4. MappedStored'
    BY <2>2 DEF DataInv, MappedStored, Disk
  <2> QED BY <2>3, <2>4
<1>8. OneFiller'
  <2>1. ASSUME NEW i \in Ids, NEW u \in Fillers(i)' PROVE u \in Fillers(i) /\ i # id
    <3>1. u \in Threads /\ data_id[u] = i /\ pc[u] \notin NotFilling
      BY <1>0, <2>1 DEF Fillers, NotFilling
    <3>2. CASE pc[u] \in Copying
      <4>1. i # id /\ zone_map'[i] = zone_map[i]
        BY <1>6, <3>1, <3>2
      <4> QED BY <1>0, <2>1, <3>1, <3>2, <4>1 DEF Fillers, Copying
    <3>3. CASE pc[u] \notin Copying
      <4>1. u \in Fillers(i)
        BY <3>1, <3>3 DEF Fillers, NotFilling, Copying
      <4>2. zone_map[i].type = "COND"
        BY <4>1 DEF DataInv, OneFiller
      <4> QED BY <1>2, <4>1, <4>2
    <3> QED BY <3>2, <3>3
  <2> QED BY <1>4, <2>1 DEF DataInv, OneFiller
<1>9. \A y \in Zones : Readers(y)' = Readers(y)
  <2> SUFFICES ASSUME NEW y \in Zones, NEW u \in Threads PROVE u \in Readers(y)' <=> u \in Readers(y)
    BY DEF Readers
  <2>1. CASE pc[u] \in Copying
    BY <1>0, <1>6, <2>1 DEF Readers
  <2>2. CASE pc[u] \notin Copying
    BY <1>0, <2>2 DEF Readers, Copying
  <2> QED BY <2>1, <2>2
<1>10. ReadersFind' /\ ReadValid'
  BY <1>0, <1>6 DEF DataInv, ReadersFind, ReadValid, Disk, Copying
<1>11. WritersStored'
  <2>1. ASSUME NEW u \in Threads, pc[u] \in Inserting PROVE IdOf(location[u])' = NULL
    <3>1. location[u] \in zn_pair /\ IdOf(location[u]) = NULL
      BY <2>1 DEF DataInv, WritersStored, Committed
    <3>2. data_map'[location[u].zone][location[u].chunk_offset] = NULL
      BY <1>5, <3>1 DEF IdOf
    <3> QED BY <1>0, <3>2 DEF IdOf
  <2> QED BY <1>0, <2>1 DEF DataInv, WritersStored, Disk
<1>12. ReadersBalanced'
  BY <1>0, <1>9 DEF DataInv, ReadersBalanced
<1> QED BY <1>7, <1>8, <1>10, <1>11, <1>12 DEF DataInv

\* The steps that move no thread to or from "insert" and touch neither data_map nor the
\* slots.
LEMMA KnownSame ==
  ASSUME KnownOK, UNCHANGED <<data_map, zone_pool>>,
         \A u \in Threads : /\ pc'[u] = "insert" <=> pc[u] = "insert"
                            /\ pc[u] = "insert" => location'[u] = location[u]
  PROVE  KnownOK'
<1>1. InUse' = InUse
  BY DEF InUse, Slot
<1> QED BY <1>1 DEF KnownOK, IdOf

\* The front end inserts the chunk it was about to insert.
LEMMA KnownFront ==
  ASSUME ChunkInv, DataInv, KnownOK, NEW t \in Threads, UNCHANGED policyVars,
         TaskStep(t) \/ GetStep(t) \/ evict_task(t) \/ Wakeup(t)
  PROVE  KnownOK'
<1>0. FrontTypeOK(EvictPcs) /\ ControlOK /\ UNCHANGED zone_pool
  BY DEF ChunkInv, FrontOK, policyVars
<1>1. CASE MissDone(t)
  <2>1. pc[t] = "insert" /\ Return(t, "next") /\ zn_cachemap_insert(data_id[t], location[t])
    BY <1>1 DEF MissDone
  <2>2. PICK id \in Ids : id = data_id[t]
    BY <1>0, <2>1, SoleFiller DEF InGet, NotFilling, Copying
  <2>3. PICK pair \in zn_pair : pair = location[t]
    BY <1>0, <2>1, LocationTypes DEF Inserting
  <2>4. \A p \in zn_pair : IdOf(p)' = IF p = pair THEN id ELSE IdOf(p)
    BY <1>0, <2>1, <2>2, <2>3, InsertIds
  <2>5. \A u \in Threads \ {t} : pc'[u] = pc[u] /\ location'[u] = location[u]
    BY <1>0, <2>1 DEF Return, FrontTypeOK
  <2>6. pc'[t] = "next"
    BY <1>0, <2>1 DEF Return, FrontTypeOK
  <2>7. InUse' = InUse
    BY <1>0 DEF InUse, Slot
  <2>8. ASSUME NEW s \in Slots
        PROVE  s \in InUse <=>
                 IdOf(s)' # NULL \/ \E u \in Threads : pc'[u] = "insert" /\ location'[u] = s
    <3>1. s \in zn_pair /\ (s \in InUse <=> IdOf(s) # NULL \/ \E u \in Threads : pc[u] = "insert" /\ location[u] = s)
      BY DEF KnownOK, Slots
    <3>2. CASE s = pair
      <4>1. IdOf(s)' # NULL
        BY <2>4, <3>1, <3>2, NullAssumption
      <4> QED BY <2>1, <2>3, <3>1, <3>2, <4>1
    <3>3. CASE s # pair
      <4>1. IdOf(s)' = IdOf(s)
        BY <2>4, <3>1, <3>3
      <4>2. (\E u \in Threads : pc'[u] = "insert" /\ location'[u] = s)
            <=> \E u \in Threads : pc[u] = "insert" /\ location[u] = s
        BY <2>3, <2>5, <2>6, <3>3
      <4> QED BY <3>1, <4>1, <4>2
    <3> QED BY <3>2, <3>3
  <2> QED BY <2>7, <2>8 DEF KnownOK, IdOf
<1>2. CASE ~MissDone(t)
  <2>1. \A u \in Threads : /\ pc'[u] = "insert" <=> pc[u] = "insert"
                           /\ pc[u] = "insert" => location'[u] = location[u]
    BY <1>0, <1>2
    DEF FrontTypeOK, TaskStep, TakeRequest, WorkloadDone, CountCompleted, GetStep,
        zn_cachemap_find, FindReturnLocation, FindReturnType, ReadChunk, HitDone, GetZone, WriteChunk,
        ReturnZone, UndoZoneGet, UndoMap, Return, evict_task, CheckDone, CheckFreeZones,
        Wakeup, cacheVars, locals, Goto
  <2>2. data_map' = data_map
    BY <1>2
    DEF TaskStep, TakeRequest, WorkloadDone, CountCompleted, GetStep,
        zn_cachemap_find, FindHit, FindClaim, FindWait, FindReturnLocation, FindReturnType, ReadChunk, HitDone,
        ReleaseReader, GetZone, WriteChunk, ReturnZone, UndoZoneGet, UndoMap, zn_cachemap_fail, evict_task,
        CheckDone, CheckFreeZones, Wakeup, SpuriousWakeup, mapVars
  <2> QED BY <1>0, <2>1, <2>2, KnownSame
<1> QED BY <1>1, <1>2

\* The policy learns of a chunk when its worker is about to insert it.
LEMMA KnownUpdate ==
  ASSUME ChunkInv, ViewsAgree, KnownOK, NEW t \in Threads, UpdatePolicyWrite(t)
  PROVE  KnownOK'
<1>1. /\ pc[t] = "update_write" /\ pc' = [pc EXCEPT ![t] = "insert"] /\ location' = location /\ data_map' = data_map
  BY DEF UpdatePolicyWrite, Goto, locals, mapVars
<1>2. pc'[t] = "insert" /\ \A u \in Threads \ {t} : pc'[u] = pc[u]
  BY <1>1 DEF ChunkInv, FrontOK, FrontTypeOK
<1>3. InUse' = InUse \cup {location[t]}
  BY ViewsUpdateWrite
<1>4. ASSUME NEW s \in Slots
      PROVE  s \in InUse \cup {location[t]} <=>
               IdOf(s) # NULL \/ \E u \in Threads : pc'[u] = "insert" /\ location[u] = s
  <2>1. s \in InUse <=> IdOf(s) # NULL \/ \E u \in Threads : pc[u] = "insert" /\ location[u] = s
    BY DEF KnownOK
  <2>2. (\E u \in Threads : pc'[u] = "insert" /\ location[u] = s)
        <=> s = location[t] \/ \E u \in Threads : pc[u] = "insert" /\ location[u] = s
    BY <1>1, <1>2
  <2> QED BY <2>1, <2>2
<1> QED BY <1>1, <1>3, <1>4 DEF KnownOK, IdOf

\* A chunk that is evicted was mapped, and is not any more.
LEMMA EvictChunkData ==
  ASSUME ChunkInv, ViewsAgree, DataInv, KnownOK, NEW t \in Threads, EvictChunk(t),
         \A u \in Threads : ~BoundFor(u, LruVictim)
  PROVE  DataInv' /\ KnownOK'
<1>0. FrontTypeOK(EvictPcs) /\ ControlOK
  BY DEF ChunkInv, FrontOK
<1>1. PICK v \in zn_pair : v = LruVictim
  BY EvictFacts
<1>2. v \in InUse /\ InUse' = InUse \ {v}
  BY <1>1, ViewsEvict
<1>3. \A u \in Threads : pc[u] = "insert" => location[u] # v
  BY <1>1 DEF BoundFor
<1>4. IdOf(v) # NULL
  BY <1>2, <1>3 DEF KnownOK, Slots
<1>5. /\ zn_cachemap_clear_chunk(v) /\ zsm_mark_chunk_invalid(v)
      /\ UNCHANGED <<pc, locals, disk>>
  BY <1>1 DEF EvictChunk, cacheVars
<1>6. Committed' = Committed
  BY <1>5 DEF zsm_mark_chunk_invalid, Committed, ChunkWritten, LastChunkWritten
<1>7. DataInv'
  BY <1>0, <1>1, <1>4, <1>5, <1>6, ClearChunkData
<1>8. \A p \in zn_pair : IdOf(p)' = IF p = v THEN NULL ELSE IdOf(p)
  BY <1>0, <1>5, ClearIds
<1>9. ASSUME NEW s \in Slots
      PROVE  s \in InUse \ {v} <=> IdOf(s)' # NULL \/ \E u \in Threads : pc[u] = "insert" /\ location[u] = s
  <2>1. s \in zn_pair /\ (s \in InUse <=> IdOf(s) # NULL \/ \E u \in Threads : pc[u] = "insert" /\ location[u] = s)
    BY DEF KnownOK, Slots
  <2>2. CASE s = v
    BY <1>3, <1>8, <2>1, <2>2
  <2>3. CASE s # v
    BY <1>8, <2>1, <2>3
  <2> QED BY <2>2, <2>3
<1>10. KnownOK'
  BY <1>2, <1>5, <1>9 DEF KnownOK, IdOf, locals
<1> QED BY <1>7, <1>10

\* The zone that is collected has no chunk in use, so that clearing it finds nothing to
\* clear and resetting it takes nothing away.
LEMMA CollectData ==
  ASSUME ChunkInv, ViewsAgree, DataInv, KnownOK, ~gc.moved, NEW t \in Threads, CollectClear(t) \/ CollectReset(t),
         CollectReset(t) =>
            /\ Readers(gc.zone) = {}
            /\ \A u \in Threads : pc[u] = "update_write" => location[u].zone # gc.zone
  PROVE  DataInv' /\ KnownOK'
<1>0. /\ FrontTypeOK(EvictPcs) /\ ControlOK /\ PolicyTypeOK /\ CollectorOK /\ ZonesHeld
      /\ gc.chunk = 0 /\ FrontInv(EvictPcs)
  BY NothingLent DEF ChunkInv, FrontOK, PolicyInv, CollectorOK
<1>1. PICK z \in Zones : z = gc.zone
  BY <1>0 DEF CollectClear, CollectReset, Goto, CollectorOK, Collecting
<1>2. \A s \in InUse : s.zone # z
  <2>1. CASE CollectClear(t)
    <3>1. LiveChunks = {}
      BY <2>1 DEF CollectClear
    <3>2. \A s \in InUse : s \in zn_pair /\ Slot(s).in_use
      BY DEF InUse, Slots
    <3>3. \A s \in InUse : s.chunk_offset \in Chunks /\ s.chunk_offset >= 0
      BY <3>2, NoPairFacts DEF Chunks
    <3> QED BY <1>0, <1>1, <3>1, <3>2, <3>3 DEF LiveChunks, Slot
  <2>2. CASE CollectReset(t)
    BY <1>1, <2>2 DEF CollectReset, Goto, ViewsAgree
  <2> QED BY <2>1, <2>2
<1>3. /\ \A p \in zn_pair : p.zone = z => IdOf(p) = NULL
      /\ \A u \in Threads : pc[u] = "insert" => location[u].zone # z
  <2>1. ASSUME NEW u \in Threads, pc[u] = "insert" PROVE location[u] \in InUse
    <3>1. location[u] \in zn_pair
      BY <1>0, <2>1, LocationTypes DEF Inserting
    <3> QED BY <2>1, <3>1 DEF KnownOK, Slots
  <2> QED BY <1>2, <2>1 DEF KnownOK, Slots
<1>4. /\ pc[t] \in {"gc_chunk", "gc_reset"}
      /\ \E to \in {"gc_reset", "gc_next"} : pc' = [pc EXCEPT ![t] = to]
      /\ UNCHANGED <<locals, zone_pool>>
  BY DEF CollectClear, CollectReset, Goto, policyVars
<1>5. OthersStay(t) /\ pc'[t] \in {"gc_reset", "gc_next"}
  BY <1>0, <1>4 DEF OthersStay, FrontTypeOK, locals
<1>6. \A u \in Threads : /\ pc'[u] = "insert" <=> pc[u] = "insert"
                         /\ pc[u] = "insert" => location'[u] = location[u]
  BY <1>4, <1>5 DEF OthersStay
<1>7. CASE CollectClear(t)
  <2>1. zn_cachemap_clear_zone(z) /\ UNCHANGED <<zsmVars, disk>>
    BY <1>1, <1>7 DEF CollectClear
  <2>2. \A c \in Chunks : data_map[z][c] = NULL
    <3> SUFFICES ASSUME NEW c \in Chunks PROVE data_map[z][c] = NULL
      OBVIOUS
    <3>1. Pair(z, c) \in zn_pair /\ Pair(z, c).zone = z /\ Pair(z, c).chunk_offset = c
      BY NoPairFacts DEF Pair
    <3> QED BY <1>3, <3>1 DEF IdOf
  <2>3. zone_map' = zone_map
    <3>1. \A id \in Ids : id \notin {data_map[z][c] : c \in Chunks}
      BY <2>2, NullAssumption
    <3>2. zone_map \in [Ids -> zone_map_result]
      BY <1>0 DEF FrontTypeOK, mapTypeOK
    <3>3. zone_map' = [id \in Ids |-> IF id \in {data_map[z][c] : c \in Chunks}
                                      THEN [zone_map[id] EXCEPT !.type = "EMPTY"] ELSE zone_map[id]]
      BY <2>1 DEF zn_cachemap_clear_zone
    <3>4. zone_map' = [id \in Ids |-> zone_map[id]]
      BY <3>1, <3>3
    <3> QED BY <3>2, <3>4
  <2>4. data_map' = data_map
    <3>1. data_map \in [Zones -> [Chunks -> Ids \cup {NULL}]]
      BY <1>0 DEF FrontTypeOK, mapTypeOK
    <3>2. data_map[z] \in [Chunks -> Ids \cup {NULL}]
      BY <3>1
    <3>3. data_map[z] = [c \in Chunks |-> NULL]
      BY <2>2, <3>2
    <3>4. data_map' = [data_map EXCEPT ![z] = [c \in Chunks |-> NULL]]
      BY <2>1 DEF zn_cachemap_clear_zone
    <3> QED BY <3>1, <3>3, <3>4
  <2>5. active_readers' = active_readers /\ data_id' = data_id
    BY <1>4, <2>1 DEF zn_cachemap_clear_zone, locals
  <2>6. Committed' = Committed
    BY <2>1 DEF zsmVars, Committed, ChunkWritten, LastChunkWritten
  <2>7. /\ pc[t] \notin Reading \cup Copying /\ pc[t] # "find"
        /\ pc'[t] \notin Inserting \cup Reading \cup Copying \cup {"return_zone"}
    BY <1>4, <1>5 DEF Reading, Copying, Inserting
  <2>8. DataInv'
    BY <1>0, <1>5, <2>1, <2>3, <2>4, <2>5, <2>6, <2>7, DataQuiet
  <2> QED BY <1>4, <1>6, <2>4, <2>8, KnownSame
<1>8. CASE CollectReset(t)
  <2>1. /\ ResetOnDevice(z) /\ UNCHANGED <<mapVars, locals>>
        /\ pc[t] = "gc_reset" /\ pc' = [pc EXCEPT ![t] = "gc_next"]
    BY <1>1, <1>8 DEF CollectReset, Goto
  <2>2. z # -1
    BY DEF Zones
  <2>3. z \in Written
    BY <1>0, <1>1, <2>2 DEF ZonesHeld
  <2>4. Unmapped(z) /\ Readers(z) = {}
    BY <1>1, <1>3, <1>8 DEF Unmapped, Inserting
  <2>5. pc[t] \notin InGet /\ "gc_next" \notin InGet
    BY <2>1 DEF InGet
  <2>6. DataInv'
    BY <1>0, <2>1, <2>3, <2>4, <2>5, ResetData
  <2> QED BY <1>4, <1>6, <2>1, <2>6, KnownSame DEF mapVars
<1> QED BY <1>7, <1>8

\* Every step keeps the data where the maps and the policy say it is.
LEMMA ChunkDataStep ==
  ASSUME ChunkInv, ViewsAgree, DataInv, KnownOK, ~gc.moved, ~gc'.moved, [Next]_vars,
         [\A t \in Threads :
            /\ EvictChunk(t) => \A u \in Threads : ~BoundFor(u, LruVictim)
            /\ CollectReset(t) =>
                 /\ Readers(gc.zone) = {}
                 /\ \A u \in Threads : pc[u] = "update_write" => location[u].zone # gc.zone]_vars
  PROVE  DataInv' /\ KnownOK'
<1>0. /\ FrontTypeOK(EvictPcs) /\ ControlOK /\ gc \in GcType /\ CollectorOK /\ nr_evict \in Counts
      /\ ZsmInv /\ GrantsMatchLocations
  BY NothingLent DEF ChunkInv, FrontOK, PolicyInv, PolicyTypeOK, FrontInv
<1>1. ASSUME NEW t \in Threads, (TaskStep(t) \/ GetStep(t) \/ evict_task(t) \/ Wakeup(t)) /\ UNCHANGED policyVars
      PROVE  DataInv' /\ KnownOK'
  BY <1>0, <1>1, DataStep, KnownFront
<1>2. ASSUME NEW t \in Threads, UpdatePolicyRead(t) PROVE DataInv' /\ KnownOK'
  <2>1. /\ Goto(t, "update_read", "release") /\ UNCHANGED <<zsmVars, mapVars, locals, disk, zone_pool>>
    BY <1>2 DEF UpdatePolicyRead, zn_policy_chunk_update, UpdateRead
  <2>2. DataInv'
    BY <1>0, <2>1, ReadData
  <2>3. \A u \in Threads : /\ pc'[u] = "insert" <=> pc[u] = "insert"
                           /\ pc[u] = "insert" => location'[u] = location[u]
    BY <1>0, <2>1 DEF Goto, FrontTypeOK, locals
  <2> QED BY <2>1, <2>2, <2>3, KnownSame DEF mapVars
<1>3. ASSUME NEW t \in Threads, UpdatePolicyWrite(t) PROVE DataInv' /\ KnownOK'
  <2>1. Goto(t, "update_write", "insert") /\ UNCHANGED <<zsmVars, mapVars, locals, disk>>
    BY <1>3 DEF UpdatePolicyWrite
  <2>2. DataInv'
    BY <1>0, <2>1, UpdateWriteData
  <2> QED BY <1>3, <2>2, KnownUpdate
<1>4. ASSUME NEW t \in Threads, EvictChunk(t) PROVE DataInv' /\ KnownOK'
  <2>1. vars' # vars
    <3>1. nr_evict' # nr_evict
      BY <1>0, <1>4, ChunkThresholdAssumption DEF EvictChunk, Counts
    <3> QED BY <3>1 DEF vars, policyVars
  <2> QED BY <1>4, <2>1, EvictChunkData
<1>5. ASSUME NEW t \in Threads, CollectClear(t) \/ CollectReset(t) PROVE DataInv' /\ KnownOK'
  <2>1. pc' # pc
    BY <1>0, <1>5 DEF CollectClear, CollectReset, Goto, FrontTypeOK
  <2>2. vars' # vars
    BY <2>1 DEF vars, cacheVars
  <2> QED BY <1>5, <2>2, CollectData
<1>6. ASSUME NEW t \in Threads, RelocateTo(t) \/ RelocateNowhere(t) \/ RelocateRead(t) \/ RelocateWrite(t)
                                \/ RelocateInsert(t) \/ RelocateCrash(t)
      PROVE  FALSE
  <2>1. RelocateTo(t) \/ RelocateNowhere(t) => gc'.moved
    BY <1>0, RelocationMoves
  <2>2. RelocateRead(t) \/ RelocateWrite(t) \/ RelocateInsert(t) \/ RelocateCrash(t) => gc.moved
    BY <1>0, Zenon DEF RelocateRead, RelocateWrite, RelocateInsert, RelocateCrash, Goto, CollectorOK, Relocating
  <2> QED BY <1>6, <2>1, <2>2
<1>7. ASSUME NEW t \in Threads, EvictRefused(t) \/ EvictStart(t) \/ EvictCrash(t) \/ CollectDone(t) \/ CollectZone(t)
      PROVE  DataInv' /\ KnownOK'
  <2>1. /\ UNCHANGED <<zsmVars, mapVars, locals, disk, zone_pool>>
        /\ pc[t] \in {"evict", "ch_evict", "gc_next", "gc_chunk"}
        /\ \E to \in {"get_zone", "bg_done", "ch_evict", "gc_chunk", "crashed"} : pc' = [pc EXCEPT ![t] = to]
    BY <1>7 DEF EvictRefused, EvictStart, EvictCrash, Crash, CollectDone, CollectZone, Goto,
                ReturnFromEvict, AfterEvict, AtCollect, policyVars
  <2>2. /\ OthersStay(t) /\ pc'[t] \in {"get_zone", "bg_done", "ch_evict", "gc_chunk", "crashed"} /\ data_id' = data_id
        /\ UNCHANGED <<zone_map, data_map, active_readers>>
    BY <1>0, <2>1 DEF OthersStay, FrontTypeOK, locals, mapVars
  <2>3. Committed' = Committed
    BY <2>1 DEF zsmVars, Committed, ChunkWritten, LastChunkWritten
  <2>4. /\ pc[t] \notin Reading \cup Copying /\ pc[t] # "find"
        /\ pc'[t] \notin Inserting \cup Reading \cup Copying \cup {"return_zone"}
    BY <2>1, <2>2 DEF Reading, Copying, Inserting
  <2>5. DataInv'
    BY <1>0, <2>1, <2>2, <2>3, <2>4, DataQuiet
  <2>6. \A u \in Threads : /\ pc'[u] = "insert" <=> pc[u] = "insert"
                           /\ pc[u] = "insert" => location'[u] = location[u]
    BY <2>1, <2>2 DEF OthersStay
  <2> QED BY <2>1, <2>2, <2>5, <2>6, KnownSame
<1>8. CASE UNCHANGED vars
  <2>1. UNCHANGED <<zone_map, data_map, active_readers, pc, locals, disk, zsmVars, zone_pool>>
    BY <1>8 DEF vars, policyVars, cacheVars, mapVars
  <2>2. Committed' = Committed
    BY <2>1 DEF zsmVars, Committed, ChunkWritten, LastChunkWritten
  <2>3. DataInv'
    BY <2>1, <2>2, DataSame
  <2> QED BY <2>1, <2>3, KnownSame DEF locals
<1> QED BY <1>1, <1>2, <1>3, <1>4, <1>5, <1>6, <1>7, <1>8
     DEF Next, RunStep, WakeupStep, Terminated, zn_policy_chunk_evict, zn_policy_chunk_gc

\* The hypothesis on the data covers the one on the policy's views.
LEMMA SettledCovers == EvictsSettled => CollectsSettled
<1>1. [\A t \in Threads :
         /\ EvictChunk(t) => \A u \in Threads : ~BoundFor(u, LruVictim)
         /\ CollectReset(t) =>
              /\ Readers(gc.zone) = {}
              /\ \A u \in Threads : pc[u] = "update_write" => location[u].zone # gc.zone]_vars
      => [\A t \in Threads : CollectReset(t) =>
            \A u \in Threads : pc[u] = "update_write" => location[u].zone # gc.zone]_vars
  OBVIOUS
<1> QED BY <1>1, PTL DEF EvictsSettled, CollectsSettled

\* The invariant with the data, under that hypothesis.
LEMMA ChunkDataInductive ==
  Spec /\ EvictsSettled => [](ChunkInv /\ (~gc.moved => ViewsAgree) /\ (~gc.moved => DataInv /\ KnownOK))
<1>1. Init => DataInv /\ KnownOK
  <2> SUFFICES ASSUME Init PROVE DataInv /\ KnownOK
    OBVIOUS
  <2>1. DataInv
    BY DataInit DEF Init
  <2>2. \A p \in zn_pair : IdOf(p) = NULL
    BY NoPairFacts DEF Init, zn_init_cache, zn_cachemap_init, IdOf
  <2>3. \A t \in Threads : pc[t] # "insert"
    BY DEF Init, zn_init_cache
  <2>4. InUse = {}
    BY NoPairFacts DEF Init, PolicyInit, InUse, Slot, Slots
  <2> QED BY <2>1, <2>2, <2>3, <2>4 DEF KnownOK, Slots
<1>2. /\ ChunkInv /\ (~gc.moved => ViewsAgree) /\ (~gc.moved => DataInv /\ KnownOK) /\ [Next]_vars
      /\ [\A t \in Threads :
            /\ EvictChunk(t) => \A u \in Threads : ~BoundFor(u, LruVictim)
            /\ CollectReset(t) =>
                 /\ Readers(gc.zone) = {}
                 /\ \A u \in Threads : pc[u] = "update_write" => location[u].zone # gc.zone]_vars
      => (~gc.moved => DataInv /\ KnownOK)'
  BY MovedStays, ChunkDataStep
<1> QED BY <1>1, <1>2, ViewsInductive, SettledCovers, PTL DEF Spec, EvictsSettled

\* Until a chunk is relocated, the chunks the policy may evict are the chunks the map
\* knows, but for the one a worker is about to insert, so that zn_cachemap_clear_chunk
\* finds an entry (chunk.c:201), for every number of workers and evictors, unless a chunk
\* or a zone is taken away under a thread on its way to it.
THEOREM EvictableKept == Spec /\ EvictsSettled => []EvictableIsMapped
<1>1. ChunkInv /\ (~gc.moved => DataInv /\ KnownOK) => EvictableIsMapped
  BY KnownMapped DEF ChunkInv, FrontOK, EvictableIsMapped
<1> QED BY <1>1, ChunkDataInductive, PTL

\* Until a chunk is relocated, a hit returns the data that was asked for (zn_cache_get,
\* zncache.c:152), and the two maps agree with each other and with the disk, under the
\* same hypothesis.
THEOREM ChunkDataKept ==
  Spec /\ EvictsSettled => [](ChunkReadValid /\ (gc.moved \/ (MapsAgree /\ ReadersBalanced)))
<1>1. ChunkInv /\ (~gc.moved => DataInv /\ KnownOK)
      => ChunkReadValid /\ (gc.moved \/ (MapsAgree /\ ReadersBalanced))
  BY DataAgree DEF ChunkInv, FrontOK, ChunkReadValid
<1> QED BY <1>1, ChunkDataInductive, PTL
==============================================================================
