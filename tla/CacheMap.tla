------------------------------- MODULE CacheMap -------------------------------
(***************************************************************************)
(* The cache map (src/cachemap.c): where the chunk of a data id is stored, *)
(* or which id a thread is fetching right now.  Every operation runs under *)
(* cache_map_mutex and is one atomic action, with two exceptions that      *)
(* follow the code: g_cond_wait gives the mutex up, and zn_cachemap_find   *)
(* copies the entry it returns after it has released the mutex (the copy is *)
(* a step of the caller, in module Cache).                                 *)
(***************************************************************************)
EXTENDS ZNBackend

CONSTANTS
  Ids,    \* data ids
  NULL,   \* no id: an unused slot, a thread that waits for nothing
  ZeroId  \* the id 0, in Ids when the workload asks for it

ASSUME NullAssumption == NULL \notin Ids /\ ZeroId # NULL

VARIABLES
  zone_map,       \* zone_map[id]: the entry of id
  data_map,       \* data_map[z][c]: the id stored in chunk c of z
  active_readers, \* active_readers[z]: readers that entered z (a signed gint)
  waiting         \* waiting[t]: the id whose write_finished t waits for

mapVars == <<zone_map, data_map, active_readers, waiting>>

\* "NONE": the id has no entry in the hash table.  An entry keeps its last
\* location when its type changes; g_new0 makes the first one zero.
Entry(type, pair) == [type |-> type, location |-> pair]

zone_map_result == [type : {"LOC", "COND", "EMPTY", "NONE"}, location : zn_pair]

NoEntry == Entry("NONE", Pair(0, 0))

zn_cachemap_init ==
  /\ zone_map = [id \in Ids |-> NoEntry]
  /\ data_map = [z \in Zones |-> [c \in Chunks |-> NULL]]
  /\ active_readers = [z \in Zones |-> 0]
  /\ waiting = [t \in Threads |-> NULL]

\* g_cond_broadcast on the entry of id: every waiter will look the id up again.
Broadcast(id) ==
  waiting' = [t \in Threads |-> IF waiting[t] = id THEN NULL ELSE waiting[t]]
------------------------------------------------------------------------------
(***************************************************************************)
(* zn_cachemap_find: one pass of its loop, by the type of the entry found. *)
(***************************************************************************)

\* Mutant: the reader is not counted.
FindHit_NotCounted(id) ==
  /\ zone_map[id].type = "LOC"
  /\ UNCHANGED mapVars

FindHit(id) ==
  /\ zone_map[id].type = "LOC"
  /\ active_readers' = [active_readers EXCEPT ![zone_map[id].location.zone] = @ + 1]
  /\ UNCHANGED <<zone_map, data_map, waiting>>

FindWait(t, id) ==
  /\ zone_map[id].type = "COND"
  /\ waiting' = [waiting EXCEPT ![t] = id]
  /\ UNCHANGED <<zone_map, data_map, active_readers>>

\* No entry, or an empty one: the caller is the thread that writes the data.
FindClaim(id) ==
  /\ zone_map[id].type \in {"NONE", "EMPTY"}
  /\ zone_map' = [zone_map EXCEPT ![id].type = "COND"]
  /\ UNCHANGED <<data_map, active_readers, waiting>>

\* g_cond_wait may return without a broadcast; the loop looks the id up again.
SpuriousWakeup(t) ==
  /\ waiting[t] # NULL
  /\ waiting' = [waiting EXCEPT ![t] = NULL]
  /\ UNCHANGED <<zone_map, data_map, active_readers>>
------------------------------------------------------------------------------
\* Mutant: the waiters are not woken.
zn_cachemap_insert_NoBroadcast(id, pair) ==
  /\ zone_map' = [zone_map EXCEPT ![id] = Entry("LOC", pair)]
  /\ data_map' = [data_map EXCEPT ![pair.zone][pair.chunk_offset] = id]
  /\ UNCHANGED <<active_readers, waiting>>

zn_cachemap_insert(id, pair) ==
  /\ zone_map' = [zone_map EXCEPT ![id] = Entry("LOC", pair)]
  /\ data_map' = [data_map EXCEPT ![pair.zone][pair.chunk_offset] = id]
  /\ Broadcast(id)
  /\ UNCHANGED active_readers

\* Mutant: the waiters are not woken.
zn_cachemap_fail_NoBroadcast(id) ==
  /\ zone_map' = [zone_map EXCEPT ![id].type = "EMPTY"]
  /\ UNCHANGED <<data_map, active_readers, waiting>>

zn_cachemap_fail(id) ==
  /\ zone_map' = [zone_map EXCEPT ![id].type = "EMPTY"]
  /\ Broadcast(id)
  /\ UNCHANGED <<data_map, active_readers>>

\* Mutant: g_hash_table_remove_all is missing.
zn_cachemap_clear_zone_KeepsReverse(z) ==
  LET ids == {data_map[z][c] : c \in Chunks} IN
  /\ zone_map' = [id \in Ids |-> IF id \in ids THEN [zone_map[id] EXCEPT !.type = "EMPTY"]
                                               ELSE zone_map[id]]
  /\ UNCHANGED <<data_map, active_readers, waiting>>

\* The entry of every id the reverse map names in z becomes empty.
zn_cachemap_clear_zone(z) ==
  LET ids == {data_map[z][c] : c \in Chunks} IN
  /\ zone_map' = [id \in Ids |-> IF id \in ids THEN [zone_map[id] EXCEPT !.type = "EMPTY"]
                                               ELSE zone_map[id]]
  /\ data_map' = [data_map EXCEPT ![z] = [c \in Chunks |-> NULL]]
  /\ UNCHANGED <<active_readers, waiting>>

\* g_hash_table_lookup returns NULL for an id without an entry, and the next line
\* dereferences it.
HasEntry(id) == id \in Ids /\ zone_map[id].type # "NONE"

\* What the reverse map says of a chunk: GPOINTER_TO_INT turns NULL into the id 0.
IdAt(pair) ==
  LET id == data_map[pair.zone][pair.chunk_offset] IN IF id = NULL THEN ZeroId ELSE id

\* Mutant: the entry keeps its type.
zn_cachemap_clear_chunk_KeepsEntry(pair) ==
  /\ HasEntry(IdAt(pair))
  /\ data_map' = [data_map EXCEPT ![pair.zone][pair.chunk_offset] = NULL]
  /\ UNCHANGED <<zone_map, active_readers, waiting>>

zn_cachemap_clear_chunk(pair) ==
  /\ HasEntry(IdAt(pair))
  /\ zone_map' = [zone_map EXCEPT ![IdAt(pair)].type = "EMPTY"]
  /\ data_map' = [data_map EXCEPT ![pair.zone][pair.chunk_offset] = NULL]
  /\ UNCHANGED <<active_readers, waiting>>

\* A reader leaves a zone (g_atomic_int_dec_and_test in zn_cache_get).
ReleaseReader(z) ==
  /\ active_readers' = [active_readers EXCEPT ![z] = @ - 1]
  /\ UNCHANGED <<zone_map, data_map, waiting>>

mapTypeOK ==
  /\ zone_map \in [Ids -> zone_map_result]
  /\ data_map \in [Zones -> [Chunks -> Ids \cup {NULL}]]
  /\ active_readers \in [Zones -> Int]
  /\ waiting \in [Threads -> Ids \cup {NULL}]
==============================================================================
