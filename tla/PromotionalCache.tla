---------------------------- MODULE PromotionalCache ----------------------------
(***************************************************************************)
(* The whole program with the promotional policy, its default: workers     *)
(* that serve requests, evicting in the foreground when no zone is left    *)
(* (zn_fg_evict, src/cache.c), and the eviction thread (evict_task,        *)
(* src/zncache.c), which runs the same eviction in the background.         *)
(***************************************************************************)
EXTENDS Cache, PromotionalPolicy

VARIABLES
  nr_evict, \* nr_evict[t]: iterations left of the loop in zn_fg_evict
  victim,   \* victim[t]: the zone t is evicting, -1 outside an iteration
  raced     \* history: a zone was cleared with a thread in flight to it

evictVars == <<nr_evict, victim, raced>>
vars == <<zsmVars, mapVars, cacheVars, policyVars, evictVars>>

Init ==
  /\ zn_init_cache
  /\ PolicyInit
  /\ nr_evict = [t \in Threads |-> 0]
  /\ victim = [t \in Threads |-> -1]
  /\ raced = FALSE
------------------------------------------------------------------------------
\* update_policy of a hit, between the read and the release of the zone.
UpdatePolicyRead(t) ==
  /\ Goto(t, "update_read", "release")
  /\ zn_policy_promotional_update(result[t].location, "ZN_READ")
  /\ UNCHANGED <<zsmVars, mapVars, locals, disk, ratio, progress, evictVars>>

\* update_policy of a miss, between the return of the zone and the insertion.
UpdatePolicyWrite(t) ==
  /\ Goto(t, "update_write", "insert")
  /\ zn_policy_promotional_update(location[t], "ZN_WRITE")
  /\ UNCHANGED <<zsmVars, mapVars, locals, disk, ratio, progress, evictVars>>
------------------------------------------------------------------------------
(***************************************************************************)
(* zn_fg_evict.                                                            *)
(***************************************************************************)
CountFreeZones(t) ==
  /\ Goto(t, "evict", "ev_pick")
  /\ nr_evict' = [nr_evict EXCEPT
       ![t] = (EVICT_LOW_THRESH_ZONES - zsm_get_num_free_zones) % UintMod]
  /\ UNCHANGED <<zsmVars, mapVars, locals, disk, ratio, progress, policyVars, victim, raced>>

\* g_mutex_trylock can fail only while another thread is inside a policy operation.
TrylockMayFail(t) ==
  \E u \in Threads \ {t} : pc[u] \in {"update_read", "update_write", "ev_pick"}

PickVictim(t) ==
  /\ nr_evict[t] > 0
  /\ Goto(t, "ev_pick", "ev_clear")
  /\ \E z \in Zones : /\ zn_policy_promotional_get_zone_to_evict(z)
                      /\ victim' = [victim EXCEPT ![t] = z]
  /\ nr_evict' = [nr_evict EXCEPT ![t] = @ - 1]
  /\ UNCHANGED <<zsmVars, mapVars, locals, disk, ratio, progress, raced>>

\* The loop is over, or do_evict returned -1.
EvictReturn(t) ==
  /\ nr_evict[t] = 0 \/ lru_queue = <<>> \/ TrylockMayFail(t)
  /\ Goto(t, "ev_pick", AfterEvict(t))
  /\ nr_evict' = [nr_evict EXCEPT ![t] = 0]
  /\ UNCHANGED <<zsmVars, mapVars, locals, disk, ratio, progress, policyVars, victim, raced>>

ClearVictim(t) ==
  /\ Goto(t, "ev_clear", "ev_wait")
  /\ zn_cachemap_clear_zone(victim[t])
  /\ raced' = (raced \/ InFlight(victim[t]) # {})
  /\ UNCHANGED <<zsmVars, locals, disk, ratio, progress, policyVars, nr_evict, victim>>

WaitForReaders(t) ==
  /\ Goto(t, "ev_wait", "ev_reset")
  /\ active_readers[victim[t]] <= 0
  /\ UNCHANGED <<zsmVars, mapVars, locals, disk, ratio, progress, policyVars, evictVars>>

ResetVictim(t) ==
  /\ Goto(t, "ev_reset", "ev_pick")
  /\ ResetOnDevice(victim[t])
  /\ victim' = [victim EXCEPT ![t] = -1]
  /\ UNCHANGED <<mapVars, locals, ratio, progress, policyVars, nr_evict, raced>>

zn_fg_evict(t) ==
  \/ CountFreeZones(t) \/ PickVictim(t) \/ EvictReturn(t)
  \/ ClearVictim(t) \/ WaitForReaders(t) \/ ResetVictim(t)
------------------------------------------------------------------------------
RunStep(t) ==
  \/ (TaskStep(t) \/ GetStep(t) \/ evict_task(t)) /\ UNCHANGED <<policyVars, evictVars>>
  \/ UpdatePolicyRead(t) \/ UpdatePolicyWrite(t)
  \/ zn_fg_evict(t)

WakeupStep(t) == Wakeup(t) /\ UNCHANGED <<policyVars, evictVars>>

\* Every thread has left its function: the program is about to exit.
Terminated ==
  /\ \A t \in Threads : pc[t] \in {"exited", "failed"}
  /\ UNCHANGED vars

Next ==
  \/ \E t \in Threads : RunStep(t)
  \/ \E t \in Threads : WakeupStep(t)
  \/ Terminated

Spec == Init /\ [][Next]_vars

\* Every thread that can go on is scheduled again.
FairSpec == Spec /\ \A t \in Threads : WF_vars(RunStep(t))
------------------------------------------------------------------------------
EvictPcs == {"evict", "ev_pick", "ev_clear", "ev_wait", "ev_reset"}

\* Zones whose mappings an evictor has cleared and which it has not reset yet.
ClearedVictims == {victim[t] : t \in {u \in Threads : pc[u] \in {"ev_wait", "ev_reset"}}}

\* Every variable of the program keeps its type.
CacheTypeOK ==
  /\ cacheTypeOK(EvictPcs)
  /\ lru_queue \in Seq(Zones)
  /\ zone_to_lru_map \subseteq Zones
  /\ nr_evict \in [Threads -> 0 .. UintMod - 1]
  /\ victim \in [Threads -> Zones \cup {-1}]
  /\ raced \in BOOLEAN
------------------------------------------------------------------------------
(***************************************************************************)
(* Safety that holds under every interleaving of workers and evictors.     *)
(***************************************************************************)
\* The LRU queue never holds a zone twice or a zone that is still being written:
\* the order of zsm_return_active_zone before update_policy (cache.c:142-144)
\* keeps do_evict from handing out an open zone.
LruHoldsFullZones ==
  /\ Distinct(lru_queue)
  /\ ToSet(lru_queue) = zone_to_lru_map
  /\ \A z \in zone_to_lru_map : LastChunkWritten(z)

\* A full zone can always be found again, and in one place only: in the LRU
\* queue, with the one evictor that popped it, or with the worker that filled it
\* and has not told the policy yet (cache.c:142-144).  Zones never fall out of the
\* cache unless the device refuses a reset.
FullZoneTracked ==
  "reset" \notin Faults =>
    \A z \in Zones : zone_state[z] = "FULL" =>
      LET queued == IF z \in zone_to_lru_map THEN 1 ELSE 0
          evicting == Cardinality({t \in Threads : victim[t] = z})
          pending == Cardinality({t \in Threads : /\ pc[t] = "update_write"
                                                  /\ location[t] = Pair(z, MaxZoneChunks - 1)})
      IN queued + evicting + pending = 1

\* zn_fg_evict never asks for more zones than bring the free zones up to the
\* low-water mark: EVICT_LOW_THRESH_ZONES - free_zones does not wrap around
\* (cache.c:27).  Another evictor that frees zones between the check that led to the
\* eviction and this count can break it.
EvictBudget ==
  \A t \in Threads : nr_evict[t] <= EVICT_LOW_THRESH_ZONES

(***************************************************************************)
(* The two defects that the runs emptyresult and lateinsert show begin     *)
(* with an evictor that clears a zone with a thread in flight to it: one   *)
(* about to copy an entry (cachemap.c:58), or about to insert one          *)
(* (cache.c:144-146).  Nothing else endangers the data.                    *)
(***************************************************************************)
\* An evictor clears a zone only while no thread is in flight to it.
ClearSettled == \A t \in Threads : ClearVictim(t) => InFlight(victim[t]) = {}

\* With workers and the eviction thread side by side, failing transfers and zones
\* that are evicted and written again, a hit returns the data of the id that was
\* asked for (cache.c:64-90, zncache.c:152), until a zone is cleared with a thread in
\* flight to it.
ReadValidUnlessRaced == raced \/ ReadValid

\* Until then the two maps are inverse to each other and a mapped chunk holds the
\* data, so that the asserts of zn_cachemap_clear_zone (cachemap.c:149-152) hold.
MapsAgreeUnlessRaced == raced \/ MapsAgree

\* Until then active_readers counts the readers, so that no evictor spins at
\* cache.c:37 on a reader that is not there, or resets a zone that is being read.
ReadersBalancedUnlessRaced == raced \/ ReadersBalanced

\* "We can assume that no threads will create entries to the zone in the cache
\* map, because it is full" (cache.c:41-42).
NoEntryIntoEvictedZone ==
  [][\A id \in Ids :
       zone_map[id].type # "LOC" /\ zone_map'[id].type = "LOC" =>
         LET z == zone_map'[id].location.zone IN
         z \notin ClearedVictims /\ zone_state[z] # "FREE"]_vars
==============================================================================
