------------------------------ MODULE ChunkPolicy ------------------------------
(***************************************************************************)
(* The chunk eviction policy and its garbage collector                     *)
(* (src/eviction/chunk.c): an LRU queue of chunks, and a priority queue of *)
(* the full zones by the number of their chunks that are in use.  Evicting *)
(* a chunk only invalidates it; the collector then takes the zones with    *)
(* the fewest chunks in use, relocates these chunks and resets the zones.  *)
(*                                                                         *)
(* zn_policy_chunk_evict holds policy_mutex all along, so what it does to  *)
(* the policy's own state is seen by nobody; each of its calls into the    *)
(* zone state manager, the cache map or the device is a step.              *)
(***************************************************************************)
EXTENDS Cache, SequencesExt

CONSTANTS
  EVICT_HIGH_THRESH_CHUNKS, \* no eviction when more chunks are free
  EVICT_LOW_THRESH_CHUNKS   \* the number of free chunks an eviction aims at

ASSUME ChunkThresholdAssumption ==
  /\ EVICT_HIGH_THRESH_CHUNKS \in Nat
  /\ EVICT_LOW_THRESH_CHUNKS \in Nat
  /\ UintMod > NumZones * MaxZoneChunks + EVICT_LOW_THRESH_CHUNKS + WorkloadMax

\* A mutex nobody holds is held by no thread.
ASSUME MutexAssumption == NULL \notin Threads

VARIABLES
  lru_queue,      \* nodes, least recently used first
  zone_pool,      \* zone_pool[z]: the chunks of z as the policy sees them
  invalid_pqueue, \* invalid_pqueue[z]: chunks in use of z, for every queued zone
  policy_mutex,   \* the thread inside zn_policy_chunk_evict, or NULL
  nr_evict,       \* iterations left of its loop
  gc              \* locals of zn_policy_chunk_gc

policyVars == <<lru_queue, zone_pool, invalid_pqueue, policy_mutex, nr_evict, gc>>

\* A node points to a slot of zone_pool, named by its place there.  It is linked
\* when chunk_to_lru_map leads from the slot to this node.
Node(slot, linked) == [slot |-> slot, linked |-> linked]

\* The heap keeps the promises of PriorityQueue, also when it is updated through an
\* entry that was extracted.
Heap == INSTANCE PriorityQueue
          WITH Items <- Zones, Priorities <- 0 .. UintMod - 1, queue <- invalid_pqueue

\* The collector has begun no relocation yet when moved is FALSE.
NoCollection == [zone |-> -1, chunk |-> 0, location |-> NoPair, data |-> NULL, moved |-> FALSE]

\* Neither the slots' zones nor pqueue_entry are initialised; has_entry tells
\* whether pqueue_entry was assigned.
PolicyInit ==
  /\ lru_queue = <<>>
  /\ zone_pool = [z \in Zones |->
       [chunks |-> [c \in Chunks |-> [pair |-> NoPair, in_use |-> FALSE]],
        chunks_in_use |-> 0, has_entry |-> FALSE]]
  /\ Heap!Init
  /\ policy_mutex = NULL
  /\ nr_evict = 0
  /\ gc = NoCollection

\* chunk_to_lru_map no longer leads from slot to one of these nodes.
Unlink(nodes, slot) ==
  [i \in DOMAIN nodes |-> IF nodes[i].slot = slot THEN Node(slot, FALSE) ELSE nodes[i]]

Dec(n) == (n - 1) % UintMod
Inc(n) == (n + 1) % UintMod
------------------------------------------------------------------------------
(***************************************************************************)
(* zn_policy_chunk_update, which waits for policy_mutex.                   *)
(***************************************************************************)
\* Mutant: every zone that is written enters the priority queue.
UpdateWrite_NotOnlyFull(pair) ==
  LET z == pair.zone IN
  /\ lru_queue' = Append(Unlink(lru_queue, pair), Node(pair, TRUE))
  /\ zone_pool' = [zone_pool EXCEPT
       ![z].chunks[pair.chunk_offset] = [pair |-> pair, in_use |-> TRUE],
       ![z].chunks_in_use = Inc(@),
       ![z].has_entry = TRUE]
  /\ IF z \in Heap!Queued THEN UNCHANGED invalid_pqueue
                          ELSE Heap!Insert(z, zone_pool'[z].chunks_in_use)

\* A chunk was written: it becomes the most recently used one, and a zone whose
\* last chunk it is enters the priority queue.
UpdateWrite(pair) ==
  LET z == pair.zone
      full == pair.chunk_offset = MaxZoneChunks - 1 IN
  /\ lru_queue' = Append(Unlink(lru_queue, pair), Node(pair, TRUE))
  /\ zone_pool' = [zone_pool EXCEPT
       ![z].chunks[pair.chunk_offset] = [pair |-> pair, in_use |-> TRUE],
       ![z].chunks_in_use = Inc(@),
       ![z].has_entry = @ \/ full]
  /\ IF full THEN Heap!Insert(z, zone_pool'[z].chunks_in_use) ELSE UNCHANGED invalid_pqueue

\* Mutant: the node that is moved leaves a copy behind.
UpdateRead_KeepsNode(pair) ==
  LET i == SelectInSeq(lru_queue, LAMBDA n : n = Node(pair, TRUE)) IN
  /\ lru_queue' = IF i = 0 THEN lru_queue
                  ELSE Append(Unlink(lru_queue, pair), lru_queue[i])
  /\ UNCHANGED <<zone_pool, invalid_pqueue>>

\* A chunk was read: its node, if there is one, moves to the tail.
UpdateRead(pair) ==
  LET i == SelectInSeq(lru_queue, LAMBDA n : n = Node(pair, TRUE)) IN
  /\ lru_queue' = IF i = 0 THEN lru_queue ELSE Append(RemoveAt(lru_queue, i), lru_queue[i])
  /\ UNCHANGED <<zone_pool, invalid_pqueue>>

zn_policy_chunk_update(pair, io_type) ==
  /\ policy_mutex = NULL
  /\ IF io_type = "ZN_WRITE" THEN UpdateWrite(pair) ELSE UpdateRead(pair)
  /\ UNCHANGED <<policy_mutex, nr_evict, gc>>
------------------------------------------------------------------------------
(***************************************************************************)
(* zn_policy_chunk_evict.                                                  *)
(***************************************************************************)
total_chunks == NumZones * MaxZoneChunks

FreeChunks == (total_chunks - Len(lru_queue)) % UintMod

\* Mutant: the early return is missing.
NothingToEvict_Never == FALSE

NothingToEvict == lru_queue = <<>> \/ FreeChunks > EVICT_HIGH_THRESH_CHUNKS

\* Nothing outside the policy changes, and the thread leaves zn_fg_evict.
ReturnFromEvict(t) ==
  /\ pc' = [pc EXCEPT ![t] = AfterEvict(t)]
  /\ UNCHANGED <<zsmVars, mapVars, locals, disk, ratio, progress>>

\* The mutex is taken, or enough chunks are free.
EvictRefused(t) ==
  /\ pc[t] = "evict"
  /\ \/ policy_mutex # NULL
     \/ NothingToEvict
     \/ \E u \in Threads \ {t} : pc[u] \in {"update_read", "update_write", "evict"}
  /\ ReturnFromEvict(t)
  /\ UNCHANGED policyVars

EvictStart(t) ==
  /\ Goto(t, "evict", "ch_evict")
  /\ policy_mutex = NULL /\ ~NothingToEvict
  /\ policy_mutex' = t
  /\ nr_evict' = (EVICT_LOW_THRESH_CHUNKS - FreeChunks) % UintMod
  /\ UNCHANGED <<zsmVars, mapVars, locals, disk, ratio, progress,
                 lru_queue, zone_pool, invalid_pqueue, gc>>

\* The chunk the slot at the head of the queue says it is.
LruVictim == LET slot == Head(lru_queue).slot IN
             zone_pool[slot.zone].chunks[slot.chunk_offset].pair

\* Mutant: the priority of the zone is not updated.
Invalidate_NoUpdate(pair) ==
  /\ zone_pool' = [zone_pool EXCEPT ![pair.zone].chunks[pair.chunk_offset].in_use = FALSE,
                                    ![pair.zone].chunks_in_use = Dec(@)]
  /\ UNCHANGED invalid_pqueue

\* The chunk is no longer in use; the heap ignores a zone that is not queued.
Invalidate(pair) ==
  LET z == pair.zone IN
  /\ zone_pool' = [zone_pool EXCEPT ![z].chunks[pair.chunk_offset].in_use = FALSE,
                                    ![z].chunks_in_use = Dec(@)]
  /\ IF z \in Heap!Queued THEN Heap!Update(z, zone_pool'[z].chunks_in_use)
                          ELSE UNCHANGED invalid_pqueue

\* One iteration of the loop.  Nobody else looks at the invalid chunks of a zone, so
\* marking one is no step of its own.
EvictChunk(t) ==
  /\ pc[t] = "ch_evict" /\ nr_evict > 0 /\ lru_queue # <<>>
  /\ lru_queue' = Unlink(Tail(lru_queue), Head(lru_queue).slot)
  /\ Invalidate(LruVictim)
  /\ zsm_mark_chunk_invalid(LruVictim)
  /\ zn_cachemap_clear_chunk(LruVictim)
  /\ nr_evict' = nr_evict - 1
  /\ UNCHANGED <<cacheVars, policy_mutex, gc>>

Crash(t) ==
  /\ pc' = [pc EXCEPT ![t] = "crashed"]
  /\ UNCHANGED <<zsmVars, mapVars, locals, disk, ratio, progress, policyVars>>

\* A pointer that is NULL is dereferenced (the node's data, or the entry of an id
\* that is not mapped), or one that was never assigned (pqueue_entry).
EvictCrash(t) ==
  /\ pc[t] = "ch_evict" /\ nr_evict > 0
  /\ \/ lru_queue = <<>>
     \/ /\ lru_queue # <<>>
        /\ \/ ~zone_pool[LruVictim.zone].has_entry
           \/ ~HasEntry(IdAt(LruVictim))
  /\ Crash(t)
------------------------------------------------------------------------------
(***************************************************************************)
(* zn_policy_chunk_gc.                                                     *)
(***************************************************************************)
\* The number of free zones is read before the loop and after every reset.
CollectEnough(t) ==
  \/ pc[t] = "ch_evict" /\ zsm_get_num_free_zones > EVICT_HIGH_THRESH_ZONES
  \/ zsm_get_num_free_zones >= EVICT_LOW_THRESH_ZONES
  \/ Heap!Queued = {}

AtCollect(t) == (pc[t] = "ch_evict" /\ nr_evict = 0) \/ pc[t] = "gc_next"

\* Mutant: this return leaves the mutex locked.
CollectDone_KeepsMutex(t) ==
  /\ AtCollect(t) /\ CollectEnough(t)
  /\ ReturnFromEvict(t)
  /\ UNCHANGED policyVars

CollectDone(t) ==
  /\ AtCollect(t) /\ CollectEnough(t)
  /\ ReturnFromEvict(t)
  /\ policy_mutex' = NULL
  /\ UNCHANGED <<lru_queue, zone_pool, invalid_pqueue, nr_evict, gc>>

\* Mutant: any full zone is collected.
CollectZone_AnyZone(t) ==
  /\ AtCollect(t) /\ ~CollectEnough(t)
  /\ \E z \in Heap!Queued :
       /\ invalid_pqueue' = [x \in Heap!Queued \ {z} |-> invalid_pqueue[x]]
       /\ gc' = [gc EXCEPT !.zone = z, !.chunk = 0]
  /\ pc' = [pc EXCEPT ![t] = "gc_chunk"]
  /\ UNCHANGED <<zsmVars, mapVars, locals, disk, ratio, progress,
                 lru_queue, zone_pool, policy_mutex, nr_evict>>

\* Mutant: the zone is looked at and stays in the queue.
CollectZone_Peeks(t) ==
  /\ AtCollect(t) /\ ~CollectEnough(t)
  /\ \E z \in Heap!Queued :
       /\ \A y \in Heap!Queued : invalid_pqueue[z] <= invalid_pqueue[y]
       /\ gc' = [gc EXCEPT !.zone = z, !.chunk = 0]
  /\ pc' = [pc EXCEPT ![t] = "gc_chunk"]
  /\ UNCHANGED <<zsmVars, mapVars, locals, disk, ratio, progress,
                 lru_queue, zone_pool, invalid_pqueue, policy_mutex, nr_evict>>

CollectZone(t) ==
  /\ AtCollect(t) /\ ~CollectEnough(t)
  /\ \E z \in Zones : Heap!ExtractMin(z) /\ gc' = [gc EXCEPT !.zone = z, !.chunk = 0]
  /\ pc' = [pc EXCEPT ![t] = "gc_chunk"]
  /\ UNCHANGED <<zsmVars, mapVars, locals, disk, ratio, progress,
                 lru_queue, zone_pool, policy_mutex, nr_evict>>

\* The chunks of the zone that are still to be relocated.
LiveChunks ==
  {c \in Chunks : c >= gc.chunk /\ zone_pool[gc.zone].chunks[c].in_use}

\* zsm_get_active_zone gives no zone: its caller has to evict or to try again, or the
\* zone could not be opened.
NoActiveZone(t) ==
  \/ zsm_get_active_zone_error(t)
  \/ (EvictNeeded \/ RetryNeeded) /\ UNCHANGED zsmVars

\* A place for the next live chunk.  The result of zsm_get_active_zone is not looked
\* at: when there is no zone, new_location is what happens to be on the stack.
RelocateTo(t) ==
  /\ pc[t] = "gc_chunk" /\ LiveChunks # {}
  /\ \E pair \in zn_pair :
       /\ \/ zsm_get_active_zone_success(t) /\ pair = grant'[t]
          \/ NoActiveZone(t)
       /\ gc' = [gc EXCEPT !.chunk = Min(LiveChunks), !.location = pair, !.moved = TRUE]
  /\ pc' = [pc EXCEPT ![t] = "gc_read"]
  /\ UNCHANGED <<mapVars, locals, disk, ratio, progress,
                 lru_queue, zone_pool, invalid_pqueue, policy_mutex, nr_evict>>

\* That place may also lie outside of every zone: the relocation dies.
RelocateNowhere(t) ==
  /\ pc[t] = "gc_chunk" /\ LiveChunks # {}
  /\ NoActiveZone(t)
  /\ gc' = [gc EXCEPT !.moved = TRUE]
  /\ pc' = [pc EXCEPT ![t] = "crashed"]
  /\ UNCHANGED <<mapVars, locals, disk, ratio, progress,
                 lru_queue, zone_pool, invalid_pqueue, policy_mutex, nr_evict>>

OldChunk == zone_pool[gc.zone].chunks[gc.chunk]

RelocateRead(t) ==
  /\ Goto(t, "gc_read", "gc_write")
  /\ \E buffer \in zn_read_from_disk(OldChunk.pair) : gc' = [gc EXCEPT !.data = buffer]
  /\ UNCHANGED <<zsmVars, mapVars, locals, disk, ratio, progress,
                 lru_queue, zone_pool, invalid_pqueue, policy_mutex, nr_evict>>

\* The result of the write is not looked at; without a buffer it fails.
RelocateWrite(t) ==
  /\ Goto(t, "gc_write", "gc_insert")
  /\ \/ gc.data # NULL /\ zn_write_out(gc.location, IF gc.data \in Ids THEN gc.data ELSE Torn, TRUE)
     \/ gc.data # NULL /\ zn_write_out(gc.location, Torn, FALSE)
     \/ gc.data = NULL /\ UNCHANGED disk
  /\ UNCHANGED <<zsmVars, mapVars, locals, ratio, progress, policyVars>>

\* The mapping goes to the id of the slot, which zn_policy_chunk_update took from a
\* location without an id.  The new slot is a copy of the old one, old place
\* included, its node is not entered into chunk_to_lru_map, and the zone the chunk
\* went to is not returned to the zone state manager.
RelocateInsert(t) ==
  LET old == Pair(gc.zone, gc.chunk)
      new == gc.location IN
  /\ pc[t] = "gc_insert"
  /\ HasEntry(ZeroId) /\ zn_cachemap_insert(ZeroId, new)
  /\ zone_pool' =
       [[zone_pool EXCEPT ![old.zone].chunks[old.chunk_offset].in_use = FALSE,
                          ![old.zone].chunks_in_use = Dec(@)]
          EXCEPT ![new.zone].chunks[new.chunk_offset] = [pair |-> OldChunk.pair, in_use |-> TRUE],
                 ![new.zone].chunks_in_use = Inc(@)]
  /\ lru_queue' = Append(lru_queue, Node(new, FALSE))
  /\ gc' = [gc EXCEPT !.chunk = @ + 1, !.location = NoPair, !.data = NULL]
  /\ pc' = [pc EXCEPT ![t] = "gc_chunk"]
  /\ UNCHANGED <<zsmVars, locals, disk, ratio, progress, invalid_pqueue, policy_mutex, nr_evict>>

RelocateCrash(t) ==
  /\ pc[t] = "gc_insert"
  /\ ~HasEntry(ZeroId)
  /\ Crash(t)

CollectClear(t) ==
  /\ Goto(t, "gc_chunk", "gc_reset")
  /\ LiveChunks = {}
  /\ zn_cachemap_clear_zone(gc.zone)
  /\ UNCHANGED <<zsmVars, locals, disk, ratio, progress, policyVars>>

\* The zone is reset whether or not somebody reads it.
CollectReset(t) ==
  /\ Goto(t, "gc_reset", "gc_next")
  /\ ResetOnDevice(gc.zone)
  /\ gc' = [NoCollection EXCEPT !.moved = gc.moved]
  /\ UNCHANGED <<mapVars, locals, ratio, progress,
                 lru_queue, zone_pool, invalid_pqueue, policy_mutex, nr_evict>>

zn_policy_chunk_gc(t) ==
  \/ CollectDone(t) \/ CollectZone(t)
  \/ RelocateTo(t) \/ RelocateNowhere(t) \/ RelocateRead(t) \/ RelocateWrite(t)
  \/ RelocateInsert(t) \/ RelocateCrash(t)
  \/ CollectClear(t) \/ CollectReset(t)

zn_policy_chunk_evict(t) ==
  EvictRefused(t) \/ EvictStart(t) \/ EvictChunk(t) \/ EvictCrash(t) \/ zn_policy_chunk_gc(t)
==============================================================================
