--------------------------- MODULE ZoneStateManager ---------------------------
(***************************************************************************)
(* The zone state manager (src/zone_state_manager.c).  It hands out the    *)
(* next chunk of an active zone to a thread that wants to write, takes the *)
(* zone back when the write is over, and returns evicted zones to the free *)
(* queue.  Every operation runs under state_mutex, so each one is a single *)
(* atomic action here.                                                     *)
(*                                                                         *)
(* The default build defines NDEBUG: a failing assert does not stop the    *)
(* program.  The actions do what the code then does; what an assert claims *)
(* is stated as a property.                                                *)
(***************************************************************************)
EXTENDS ZNBackend

CONSTANTS
  MaxNrActiveZones, \* max_nr_active_zones
  Backend,          \* "ZNS" or "BLOCK" (enum zn_backend)
  Faults,           \* the device commands that may fail
  MaxInvalid        \* bound: length to which an invalid queue is explored

ASSUME MaxNrActiveZonesAssumption == MaxNrActiveZones \in Nat \ {0}
ASSUME BackendAssumption == Backend \in {"ZNS", "BLOCK"}
ASSUME FaultsAssumption == Faults \subseteq {"open", "finish", "reset", "write", "read"}
ASSUME MaxInvalidAssumption == MaxInvalid \in Nat

VARIABLES
  zone_state,       \* state[z].state
  chunk_offset,     \* state[z].chunk_offset: next chunk to write in z
  active,           \* queue of zones that can be written and are not being written
  free,             \* queue of zones that can be opened
  writes_occurring, \* number of zones out with a writer
  invalid,          \* state[z].invalid: queue of invalidated chunks
  grant             \* grant[t]: the pair handed to t and not given back yet

zsmVars == <<zone_state, chunk_offset, active, free, writes_occurring, invalid, grant>>

zn_zone_condition == {"FREE", "FULL", "ACTIVE", "WRITE_OCCURING"}

\* A zone management command is sent to a zoned device only, and may fail there.
zbd_fails(command) == Backend = "ZNS" /\ command \in Faults

zsm_init ==
  /\ zone_state = [z \in Zones |-> "FREE"]
  /\ chunk_offset = [z \in Zones |-> 0]
  /\ active = <<>>
  /\ free = [i \in 1 .. NumZones |-> i - 1]
  /\ writes_occurring = 0
  /\ invalid = [z \in Zones |-> <<>>]
  /\ grant = [t \in Threads |-> NoPair]
------------------------------------------------------------------------------
(***************************************************************************)
(* zsm_get_active_zone has four outcomes.  EVICT and RETRY leave the state *)
(* alone and are predicates; SUCCESS and ERROR are actions.                *)
(***************************************************************************)
NumActiveZones == Len(active) + writes_occurring

EvictNeeded == NumActiveZones = 0 /\ free = <<>>

\* Mutant: the limit is compared with <= .
CanOpen_OffByOne == NumActiveZones <= MaxNrActiveZones /\ free # <<>>

CanOpen == NumActiveZones < MaxNrActiveZones /\ free # <<>>

RetryNeeded == ~EvictNeeded /\ active = <<>> /\ ~CanOpen

\* Mutant: the zone that is handed out keeps its state.
PopActive_KeepsState(t, queue, offset) ==
  LET z == Head(queue) IN
  /\ active' = Tail(queue)
  /\ grant' = [grant EXCEPT ![t] = Pair(z, offset[z])]
  /\ chunk_offset' = offset
  /\ writes_occurring' = writes_occurring + 1
  /\ UNCHANGED zone_state

\* Mutant: the chunk pointer advances already when the chunk is handed out.
PopActive_AdvancesEarly(t, queue, offset) ==
  LET z == Head(queue) IN
  /\ active' = Tail(queue)
  /\ grant' = [grant EXCEPT ![t] = Pair(z, offset[z])]
  /\ zone_state' = [zone_state EXCEPT ![z] = "WRITE_OCCURING"]
  /\ chunk_offset' = [offset EXCEPT ![z] = @ + 1]
  /\ writes_occurring' = writes_occurring + 1

\* Pop the head of queue and hand its next chunk to t.
PopActive(t, queue, offset) ==
  LET z == Head(queue) IN
  /\ active' = Tail(queue)
  /\ grant' = [grant EXCEPT ![t] = Pair(z, offset[z])]
  /\ zone_state' = [zone_state EXCEPT ![z] = "WRITE_OCCURING"]
  /\ chunk_offset' = offset
  /\ writes_occurring' = writes_occurring + 1

\* A zone of the active queue has room: take the first.
TakeActiveZone(t) ==
  /\ active # <<>>
  /\ PopActive(t, active, chunk_offset)
  /\ UNCHANGED <<free, invalid>>

\* No zone is waiting in the active queue: open the first free one and take it.
OpenFreeZone(t) ==
  /\ active = <<>>
  /\ CanOpen
  /\ free' = Tail(free)
  /\ PopActive(t, Append(active, Head(free)), [chunk_offset EXCEPT ![Head(free)] = 0])
  /\ UNCHANGED invalid

zsm_get_active_zone_success(t) == TakeActiveZone(t) \/ OpenFreeZone(t)

\* zbd_open_zones fails: the zone has left the free queue and goes nowhere.
zsm_get_active_zone_error(t) ==
  /\ active = <<>>
  /\ CanOpen
  /\ zbd_fails("open")
  /\ free' = Tail(free)
  /\ UNCHANGED <<zone_state, chunk_offset, active, writes_occurring, invalid, grant>>
------------------------------------------------------------------------------
\* chunk_offset++ and close_zone on a zone whose last chunk is written.  When
\* zbd_finish_zones fails the zone stays in WRITE_OCCURING, past its last chunk.
close_zone(z) ==
  \/ /\ zone_state' = [zone_state EXCEPT ![z] = "FULL"]
     /\ chunk_offset' = [chunk_offset EXCEPT ![z] = 0]
  \/ /\ zbd_fails("finish")
     /\ chunk_offset' = [chunk_offset EXCEPT ![z] = @ + 1]
     /\ UNCHANGED zone_state

\* Mutant: closing a zone counts its writer out a second time.
zsm_return_active_zone_CountsTwice(t, pair) ==
  LET z == pair.zone IN
  /\ grant' = [grant EXCEPT ![t] = NoPair]
  /\ \/ /\ chunk_offset[z] + 1 = MaxZoneChunks
        /\ close_zone(z)
        /\ writes_occurring' = writes_occurring - 2
        /\ UNCHANGED active
     \/ /\ chunk_offset[z] + 1 # MaxZoneChunks
        /\ chunk_offset' = [chunk_offset EXCEPT ![z] = @ + 1]
        /\ zone_state' = [zone_state EXCEPT ![z] = "ACTIVE"]
        /\ active' = Append(active, z)
        /\ writes_occurring' = writes_occurring - 1
  /\ UNCHANGED <<free, invalid>>

\* Mutant: a writer is not counted out when its zone is closed.
zsm_return_active_zone_KeepsCount(t, pair) ==
  LET z == pair.zone IN
  /\ grant' = [grant EXCEPT ![t] = NoPair]
  /\ \/ /\ chunk_offset[z] + 1 = MaxZoneChunks
        /\ close_zone(z)
        /\ UNCHANGED <<active, writes_occurring>>
     \/ /\ chunk_offset[z] + 1 # MaxZoneChunks
        /\ chunk_offset' = [chunk_offset EXCEPT ![z] = @ + 1]
        /\ zone_state' = [zone_state EXCEPT ![z] = "ACTIVE"]
        /\ active' = Append(active, z)
        /\ writes_occurring' = writes_occurring - 1
  /\ UNCHANGED <<free, invalid>>

\* The write succeeded: advance, then close the zone or queue it again.
zsm_return_active_zone(t, pair) ==
  LET z == pair.zone IN
  /\ grant' = [grant EXCEPT ![t] = NoPair]
  /\ writes_occurring' = writes_occurring - 1
  /\ \/ /\ chunk_offset[z] + 1 = MaxZoneChunks
        /\ close_zone(z)
        /\ UNCHANGED active
     \/ /\ chunk_offset[z] + 1 # MaxZoneChunks
        /\ chunk_offset' = [chunk_offset EXCEPT ![z] = @ + 1]
        /\ zone_state' = [zone_state EXCEPT ![z] = "ACTIVE"]
        /\ active' = Append(active, z)
  /\ UNCHANGED <<free, invalid>>

\* Mutant: undoing a grant moves the chunk pointer back.
zsm_failed_to_write_RollsBack(t, pair) ==
  LET z == pair.zone IN
  /\ grant' = [grant EXCEPT ![t] = NoPair]
  /\ writes_occurring' = writes_occurring - 1
  /\ zone_state' = [zone_state EXCEPT ![z] = "ACTIVE"]
  /\ chunk_offset' = [chunk_offset EXCEPT ![z] = IF @ > 0 THEN @ - 1 ELSE 0]
  /\ active' = Append(active, z)
  /\ UNCHANGED <<free, invalid>>

\* Mutant: a failed write skips its chunk.
zsm_failed_to_write_Skips(t, pair) ==
  LET z == pair.zone IN
  /\ grant' = [grant EXCEPT ![t] = NoPair]
  /\ writes_occurring' = writes_occurring - 1
  /\ zone_state' = [zone_state EXCEPT ![z] = "ACTIVE"]
  /\ chunk_offset' = [chunk_offset EXCEPT ![z] = @ + 1]
  /\ active' = Append(active, z)
  /\ UNCHANGED <<free, invalid>>

\* Mutant: after a failed write the zone is not queued again.
zsm_failed_to_write_NotQueued(t, pair) ==
  /\ grant' = [grant EXCEPT ![t] = NoPair]
  /\ writes_occurring' = writes_occurring - 1
  /\ zone_state' = [zone_state EXCEPT ![pair.zone] = "ACTIVE"]
  /\ UNCHANGED <<chunk_offset, active, free, invalid>>

\* The write failed: the zone is queued again at the same chunk.
zsm_failed_to_write(t, pair) ==
  LET z == pair.zone IN
  /\ grant' = [grant EXCEPT ![t] = NoPair]
  /\ writes_occurring' = writes_occurring - 1
  /\ zone_state' = [zone_state EXCEPT ![z] = "ACTIVE"]
  /\ active' = Append(active, z)
  /\ UNCHANGED <<chunk_offset, free, invalid>>
------------------------------------------------------------------------------
\* reset_zone succeeds: the zone is free and queued; a FREE zone is left alone.
ResetDone(z) ==
  /\ IF zone_state[z] = "FREE"
     THEN UNCHANGED <<zone_state, chunk_offset, free>>
     ELSE /\ zone_state' = [zone_state EXCEPT ![z] = "FREE"]
          /\ chunk_offset' = [chunk_offset EXCEPT ![z] = 0]
          /\ free' = Append(free, z)
  /\ UNCHANGED invalid

\* zbd_reset_zones fails: only this branch reaches g_queue_clear, and 0 is returned.
ResetFailed(z) ==
  /\ zone_state[z] # "FREE"
  /\ zbd_fails("reset")
  /\ invalid' = [invalid EXCEPT ![z] = <<>>]
  /\ UNCHANGED <<zone_state, chunk_offset, free>>

zsm_evict(z) ==
  /\ ResetDone(z) \/ ResetFailed(z)
  /\ UNCHANGED <<active, writes_occurring, grant>>

zsm_mark_chunk_invalid(pair) ==
  /\ invalid' = [invalid EXCEPT ![pair.zone] = Append(@, pair.chunk_offset)]
  /\ UNCHANGED <<zone_state, chunk_offset, active, free, writes_occurring, grant>>

zsm_get_num_active_zones == NumActiveZones

zsm_get_num_free_zones == Len(free)

zsm_get_num_full_zones == Cardinality({z \in Zones : zone_state[z] = "FULL"})

zsm_get_num_invalid_chunks(z) == Len(invalid[z])
------------------------------------------------------------------------------
(***************************************************************************)
(* The manager with every caller it is made for: a thread asks for a pair  *)
(* when it holds none and gives back the pair it was given, and only a     *)
(* zone whose last chunk was written is evicted.  PromotionalCache shows   *)
(* that the callers of the program are of this kind.                       *)
(***************************************************************************)
LastChunkWritten(z) ==
  \/ zone_state[z] = "FULL"
  \/ zone_state[z] = "WRITE_OCCURING" /\ chunk_offset[z] = MaxZoneChunks

ChunkWritten(pair) ==
  LastChunkWritten(pair.zone) \/ pair.chunk_offset < chunk_offset[pair.zone]

ThreadStep(t) ==
  \/ grant[t] = NoPair /\ zsm_get_active_zone_success(t)
  \/ grant[t] = NoPair /\ zsm_get_active_zone_error(t)
  \/ grant[t] # NoPair /\ zsm_return_active_zone(t, grant[t])
  \/ grant[t] # NoPair /\ zsm_failed_to_write(t, grant[t])

EvictStep(z) == LastChunkWritten(z) /\ zsm_evict(z)

InvalidateStep(pair) ==
  /\ ChunkWritten(pair)
  /\ Len(invalid[pair.zone]) < MaxInvalid
  /\ zsm_mark_chunk_invalid(pair)

ZsmNext ==
  \/ \E t \in Threads : ThreadStep(t)
  \/ \E z \in Zones : EvictStep(z)
  \/ \E pair \in zn_pair : InvalidateStep(pair)

ZsmSpec == zsm_init /\ [][ZsmNext]_zsmVars
------------------------------------------------------------------------------
InQueue(queue, z) == \E i \in 1 .. Len(queue) : queue[i] = z

Distinct(queue) == \A i, j \in 1 .. Len(queue) : queue[i] = queue[j] => i = j

Writers == {t \in Threads : grant[t] # NoPair}

\* Every variable of the manager keeps its type; chunk_offset reaches
\* MaxZoneChunks only in a zone that could not be finished.
ZsmTypeOK ==
  /\ zone_state \in [Zones -> zn_zone_condition]
  /\ chunk_offset \in [Zones -> 0 .. MaxZoneChunks]
  /\ active \in Seq(Zones)
  /\ free \in Seq(Zones)
  /\ writes_occurring \in Nat
  /\ invalid \in [Zones -> Seq(Chunks)]
  /\ grant \in [Threads -> zn_pair \cup {NoPair}]

\* The active queue holds exactly the ACTIVE zones, each once, and the free
\* queue only FREE zones, each once (no zone is handed out twice by g_queue_pop_head).
QueuesMatchStates ==
  /\ Distinct(active)
  /\ Distinct(free)
  /\ \A z \in Zones : InQueue(active, z) <=> zone_state[z] = "ACTIVE"
  /\ \A z \in Zones : InQueue(free, z) => zone_state[z] = "FREE"

\* A pair a thread holds names a zone in WRITE_OCCURING at the chunk that zone
\* will write next, and no two threads hold the same zone: what the asserts of
\* zsm_return_active_zone and zsm_failed_to_write (lines 249-250, 302-304) claim.
GrantsExclusive ==
  /\ \A t \in Threads : grant[t] # NoPair =>
       /\ zone_state[grant[t].zone] = "WRITE_OCCURING"
       /\ chunk_offset[grant[t].zone] = grant[t].chunk_offset
  /\ \A t, u \in Threads :
       grant[t] # NoPair /\ grant[t].zone = grant[u].zone => t = u

\* The active-zone budget of the device is never exceeded, counted as the asserts
\* at lines 245 and 299 count it: queued zones and zones with a writer, and
\* writes_occurring never drifts from the number of writers.  A zone that
\* zbd_finish_zones failed to finish (line 257) is in neither count, although the
\* device may still hold it active.
ActiveZoneBudget ==
  /\ NumActiveZones <= MaxNrActiveZones
  /\ writes_occurring = Cardinality(Writers)

\* A thread that is told to retry has somebody to wait for: a writer that will
\* give its zone back.  The retry loop of zn_cache_get (cache.c:100-114) never
\* spins on a manager in which nothing can change.
RetryHasWriter == RetryNeeded => Writers # {}

\* A zone that may still be written has a chunk left: get never hands out a
\* location past the end of a zone.
ZoneHasRoom ==
  \A z \in Zones : zone_state[z] = "ACTIVE" => chunk_offset[z] < MaxZoneChunks

\* Whatever the device refuses, every zone is where somebody will find it: in the
\* free queue, in the active queue, with one writer, or written to its end and so
\* up for eviction.  The one way out is the failed open of line 199, which leaves
\* a FREE zone in no queue.
NoZoneLeaked ==
  \A z \in Zones :
    \/ InQueue(free, z)
    \/ InQueue(active, z)
    \/ \E t \in Threads : grant[t].zone = z
    \/ LastChunkWritten(z)
    \/ "open" \in Faults /\ zone_state[z] = "FREE"

\* A committed chunk of an open zone is not handed out again: as long as the zone is
\* neither full nor freed, returns and failed writes (lines 239-312) never move the
\* next chunk to write in it back.
OffsetsAdvance ==
  [][\A z \in Zones :
       zone_state[z] \in {"ACTIVE", "WRITE_OCCURING"} =>
         \/ chunk_offset'[z] \in {chunk_offset[z], chunk_offset[z] + 1}
         \/ zone_state'[z] \in {"FULL", "FREE"}]_zsmVars
==============================================================================
