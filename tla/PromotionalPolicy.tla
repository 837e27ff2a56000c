--------------------------- MODULE PromotionalPolicy ---------------------------
(***************************************************************************)
(* The promotional eviction policy (src/eviction/promotional.c): an LRU    *)
(* queue of full zones.  A zone enters at its last chunk, moves to the     *)
(* tail when it is read, and the head is evicted.  policy_mutex makes each *)
(* operation atomic; the eviction only tries the mutex.                    *)
(***************************************************************************)
EXTENDS ZNBackend, SequencesExt

VARIABLES
  lru_queue,       \* zones, least recently used first
  zone_to_lru_map  \* the zones whose entry in the hash table is a node, not NULL

policyVars == <<lru_queue, zone_to_lru_map>>

PolicyInit == lru_queue = <<>> /\ zone_to_lru_map = {}

\* The node the map keeps for z is the one pushed last.
NodeOf(z) == SelectLastInSeq(lru_queue, LAMBDA y : y = z)

\* Mutant: a zone that is read enters the queue a second time.
zn_policy_promotional_update_KeepsLink(pair, io_type) ==
  LET z == pair.zone IN
  \/ /\ \/ io_type = "ZN_WRITE" /\ pair.chunk_offset = MaxZoneChunks - 1
        \/ io_type = "ZN_READ" /\ z \in zone_to_lru_map
     /\ lru_queue' = Append(lru_queue, z)
     /\ zone_to_lru_map' = zone_to_lru_map \cup {z}
  \/ /\ io_type = "ZN_WRITE" => pair.chunk_offset # MaxZoneChunks - 1
     /\ io_type = "ZN_READ" => z \notin zone_to_lru_map
     /\ UNCHANGED policyVars

\* Mutant: the last chunk is looked for one chunk too late.
zn_policy_promotional_update_MissesLast(pair, io_type) ==
  LET z == pair.zone IN
  \/ /\ io_type = "ZN_READ" /\ z \in zone_to_lru_map
     /\ lru_queue' = Append(RemoveAt(lru_queue, NodeOf(z)), z)
     /\ UNCHANGED zone_to_lru_map
  \/ /\ io_type = "ZN_READ" => z \notin zone_to_lru_map
     /\ UNCHANGED policyVars

\* Mutant: a zone enters the queue at its first chunk.
zn_policy_promotional_update_TooEarly(pair, io_type) ==
  LET z == pair.zone IN
  \/ /\ io_type = "ZN_WRITE" /\ pair.chunk_offset = 0
     /\ lru_queue' = Append(lru_queue, z)
     /\ zone_to_lru_map' = zone_to_lru_map \cup {z}
  \/ /\ io_type = "ZN_READ" \/ pair.chunk_offset # 0
     /\ UNCHANGED policyVars

zn_policy_promotional_update(pair, io_type) ==
  LET z == pair.zone IN
  \/ /\ io_type = "ZN_WRITE" /\ pair.chunk_offset = MaxZoneChunks - 1
     /\ lru_queue' = Append(lru_queue, z)
     /\ zone_to_lru_map' = zone_to_lru_map \cup {z}
  \/ /\ io_type = "ZN_READ" /\ z \in zone_to_lru_map
     /\ lru_queue' = Append(RemoveAt(lru_queue, NodeOf(z)), z)
     /\ UNCHANGED zone_to_lru_map
  \/ /\ io_type = "ZN_WRITE" => pair.chunk_offset # MaxZoneChunks - 1
     /\ io_type = "ZN_READ" => z \notin zone_to_lru_map
     /\ UNCHANGED policyVars

\* The zone taken from the head of the queue.
zn_policy_promotional_get_zone_to_evict(z) ==
  /\ lru_queue # <<>>
  /\ z = Head(lru_queue)
  /\ lru_queue' = Tail(lru_queue)
  /\ zone_to_lru_map' = zone_to_lru_map \ {z}
==============================================================================
