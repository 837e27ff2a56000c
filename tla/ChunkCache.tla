------------------------------- MODULE ChunkCache -------------------------------
(***************************************************************************)
(* The whole program with the chunk policy (EVICTION_POLICY set to         *)
(* ZN_EVICT_CHUNK): workers that serve requests, evicting in the           *)
(* foreground when no zone is left, and the eviction thread.  With this    *)
(* policy zn_fg_evict is one call of zn_policy_chunk_evict.                *)
(***************************************************************************)
EXTENDS ChunkPolicy

vars == <<zsmVars, mapVars, cacheVars, policyVars>>

Init == zn_init_cache /\ PolicyInit

UpdatePolicyRead(t) ==
  /\ Goto(t, "update_read", "release")
  /\ zn_policy_chunk_update(result[t].location, "ZN_READ")
  /\ UNCHANGED <<zsmVars, mapVars, locals, disk, ratio, progress>>

UpdatePolicyWrite(t) ==
  /\ Goto(t, "update_write", "insert")
  /\ zn_policy_chunk_update(location[t], "ZN_WRITE")
  /\ UNCHANGED <<zsmVars, mapVars, locals, disk, ratio, progress>>

\* A thread that dereferences a bad pointer takes the process with it.
Crashed == \E t \in Threads : pc[t] = "crashed"

RunStep(t) ==
  /\ ~Crashed
  /\ \/ (TaskStep(t) \/ GetStep(t) \/ evict_task(t)) /\ UNCHANGED policyVars
     \/ UpdatePolicyRead(t) \/ UpdatePolicyWrite(t)
     \/ zn_policy_chunk_evict(t)

WakeupStep(t) == ~Crashed /\ Wakeup(t) /\ UNCHANGED policyVars

\* Every thread has left its function, or the process has died.
Terminated ==
  /\ Crashed \/ \A t \in Threads : pc[t] \in {"exited", "failed"}
  /\ UNCHANGED vars

Next ==
  \/ \E t \in Threads : RunStep(t)
  \/ \E t \in Threads : WakeupStep(t)
  \/ Terminated

Spec == Init /\ [][Next]_vars

\* Every thread that can go on is scheduled again.
FairSpec == Spec /\ \A t \in Threads : WF_vars(RunStep(t))
------------------------------------------------------------------------------
EvictPcs == {"evict", "ch_evict", "gc_next", "gc_chunk", "gc_read", "gc_write", "gc_insert",
             "gc_reset", "crashed"}

Slots == zn_pair

Slot(s) == zone_pool[s.zone].chunks[s.chunk_offset]

InUse == {s \in Slots : Slot(s).in_use}

\* Every variable of the program keeps its type.
ChunkTypeOK ==
  /\ cacheTypeOK(EvictPcs)
  /\ lru_queue \in Seq([slot : Slots, linked : BOOLEAN])
  /\ zone_pool \in [Zones ->
       [chunks : [Chunks -> [pair : zn_pair \cup {NoPair}, in_use : BOOLEAN]],
        chunks_in_use : 0 .. UintMod - 1, has_entry : BOOLEAN]]
  /\ Heap!Queued \subseteq Zones
  /\ \A z \in Heap!Queued : invalid_pqueue[z] \in 0 .. UintMod - 1
  /\ policy_mutex \in Threads \cup {NULL}
  /\ nr_evict \in 0 .. UintMod - 1
  /\ gc \in [zone : Zones \cup {-1}, chunk : 0 .. MaxZoneChunks, location : zn_pair \cup {NoPair},
             data : Ids \cup {NULL, Blank, Torn}, moved : BOOLEAN]

\* The policy's three views of the cache agree as long as nothing was relocated: the
\* LRU queue holds the chunks in use, each once and reachable through
\* chunk_to_lru_map, each slot names its own place, and chunks_in_use counts them
\* (chunk.c:37-45, 185-190).
PoolMatchesLru ==
  gc.moved \/
    /\ \A i, j \in DOMAIN lru_queue : lru_queue[i].slot = lru_queue[j].slot => i = j
    /\ {lru_queue[i] : i \in DOMAIN lru_queue} = {Node(s, TRUE) : s \in InUse}
    /\ \A s \in InUse : Slot(s).pair = s
    /\ \A z \in Zones :
         zone_pool[z].chunks_in_use = Cardinality({s \in InUse : s.zone = z})

\* Every full zone is known to the collector, in one place only: in the priority
\* queue under its exact number of chunks in use, in the collector's hands, or with
\* the worker that filled it and has not told the policy yet; and the queue holds
\* nothing but full zones (chunk.c:47-53, 90, 193-197).
FullZonesQueued ==
  \A z \in Zones :
    LET queued == IF z \in Heap!Queued THEN 1 ELSE 0
        collecting == IF gc.zone = z THEN 1 ELSE 0
        pending == Cardinality({t \in Threads : /\ pc[t] = "update_write"
                                                /\ location[t] = Pair(z, MaxZoneChunks - 1)})
    IN /\ queued + collecting + pending = (IF LastChunkWritten(z) THEN 1 ELSE 0)
       /\ queued = 1 /\ ~gc.moved => invalid_pqueue[z] = zone_pool[z].chunks_in_use

\* The collector never relocates a chunk while a full zone without any chunk in use
\* waits: zn_minheap_extract_min gives it the cheapest zone first (chunk.c:90).
CheapestZoneFirst ==
  (\E t \in Threads : pc[t] = "gc_chunk") /\ ~gc.moved =>
    \A z \in Heap!Queued :
      zone_pool[gc.zone].chunks_in_use <= zone_pool[z].chunks_in_use

\* The chunks the policy may evict are the chunks the map knows, but for the one a
\* worker is about to insert: zn_cachemap_clear_chunk (chunk.c:201) finds an entry.
EvictableIsMapped ==
  gc.moved \/
    InUse = {zone_map[id].location : id \in {i \in Ids : zone_map[i].type = "LOC"}}
              \cup {location[t] : t \in {u \in Threads : pc[u] = "insert"}}

\* The loop of zn_policy_chunk_evict never runs out of chunks, so that
\* g_queue_pop_head never returns NULL (chunk.c:179-186), whatever the collector did
\* to the queue before.
EvictBudgetFits == (\E t \in Threads : pc[t] = "ch_evict") => nr_evict <= Len(lru_queue)

\* ReadValid as long as nothing was relocated: a chunk that is evicted, and a zone that
\* is collected and written again, leave no mapping to the old data behind.
ChunkReadValid == gc.moved \/ ReadValid

\* CallsRespectZsm as long as nothing was relocated: evicting single chunks and
\* collecting zones without a chunk in use is within what the manager assumes
\* (chunk.c:145-147, 200).
ChunkCallsRespectZsm == zsm_init /\ [][ZsmNext \/ gc'.moved]_zsmVars

\* "migrate via: read in old data, grab active zone, write out old data, Update
\* mappings" (architecture.md:37-41): once a chunk was relocated its id is mapped to
\* the new place.
RelocationKeepsMapping ==
  [][\A t \in Threads :
       pc[t] = "gc_insert" /\ pc'[t] # "gc_insert" /\ gc.data \in Ids =>
         zone_map'[gc.data] = Entry("LOC", gc.location)]_vars

\* A thread found policy_mutex taken, for a moment only, by another one.
TrylockLost(t) ==
  /\ pc[t] = "evict" /\ policy_mutex = NULL /\ ~NothingToEvict
  /\ pc'[t] = AfterEvict(t)

\* With thresholds that fit each other the workload comes to its end, unless the
\* collector has to relocate a chunk, the program crashes, or threads go on for ever
\* taking policy_mutex away from each other (chunk.c:156, 164, 179, 216).
WorkloadCompletesUnlessMoved ==
  <>(done \/ gc.moved \/ Crashed) \/ []<><<\E t \in Threads : TrylockLost(t)>>_vars
==============================================================================
