------------------------- MODULE PromotionalCacheProofs -------------------------
(***************************************************************************)
(* Theorems about PromotionalCache: the whole program under the            *)
(* promotional policy, for every number of workers and eviction threads,   *)
(* zones, chunks and ids, for all thresholds and every set of device       *)
(* faults.                                                                 *)
(***************************************************************************)
EXTENDS PromotionalCache, CacheDataProofs

(***************************************************************************)
(* The LRU queue.                                                          *)
(***************************************************************************)
\* The largest of one number.
LEMMA MaxOne == ASSUME NEW i \in Nat PROVE Max({i}) = i
BY DEF Max

\* A sequence without its k-th element.
LEMMA Without ==
  ASSUME NEW S, NEW q \in Seq(S), NEW k \in 1 .. Len(q)
  PROVE  /\ RemoveAt(q, k) \in Seq(S)
         /\ Len(RemoveAt(q, k)) = Len(q) - 1
         /\ \A i \in 1 .. Len(q) - 1 : RemoveAt(q, k)[i] = IF i < k THEN q[i] ELSE q[i + 1]
<1> DEFINE a == SubSeq(q, 1, k - 1)
<1> DEFINE b == SubSeq(q, k + 1, Len(q))
<1>1. a \in Seq(S) /\ b \in Seq(S) /\ Len(q) \in Nat
  OBVIOUS
<1>2. Len(a) = k - 1 /\ Len(b) = Len(q) - k
  OBVIOUS
<1>3. \A i \in 1 .. k - 1 : a[i] = q[i]
  OBVIOUS
<1>4. \A i \in 1 .. Len(q) - k : b[i] = q[i + k]
  OBVIOUS
<1>5. RemoveAt(q, k) = a \o b
  BY DEF RemoveAt
<1> HIDE DEF a, b
<1>6. /\ a \o b \in Seq(S) /\ Len(a \o b) = Len(a) + Len(b)
      /\ \A i \in 1 .. Len(a) + Len(b) :
           (a \o b)[i] = IF i <= Len(a) THEN a[i] ELSE b[i - Len(a)]
  BY <1>1
<1>7. ASSUME NEW i \in 1 .. Len(q) - 1
      PROVE  (a \o b)[i] = IF i < k THEN q[i] ELSE q[i + 1]
  <2>1. CASE i < k
    BY <1>1, <1>2, <1>3, <1>6, <2>1
  <2>2. CASE ~(i < k)
    <3>1. i - Len(a) \in 1 .. Len(q) - k /\ (i - Len(a)) + k = i + 1
      BY <1>1, <1>2, <2>2
    <3>2. b[i - Len(a)] = q[i + 1]
      BY <1>4, <3>1
    <3> QED BY <1>1, <1>2, <1>6, <2>2, <3>2
  <2> QED BY <2>1, <2>2
<1> QED BY <1>1, <1>2, <1>5, <1>6, <1>7

\* A zone that is read moves to the tail: the queue holds the same zones, each once.
LEMMA MoveToTail ==
  ASSUME lru_queue \in Seq(Zones), Distinct(lru_queue), NEW z \in Zones, InQueue(lru_queue, z)
  PROVE  LET r == Append(RemoveAt(lru_queue, NodeOf(z)), z) IN
         /\ r \in Seq(Zones) /\ Distinct(r)
         /\ \A y : InQueue(r, y) <=> InQueue(lru_queue, y)
<1> DEFINE q == lru_queue
<1>1. PICK k \in 1 .. Len(q) : q[k] = z
  BY DEF InQueue
<1>2. NodeOf(z) = k
  <2>1. {i \in 1 .. Len(q) : q[i] = z} = {k}
    BY <1>1 DEF Distinct
  <2>2. Max({k}) = k
    BY MaxOne
  <2> QED BY <2>1, <2>2 DEF NodeOf, SelectLastInSeq
<1> DEFINE s == RemoveAt(q, k)
<1>3. /\ s \in Seq(Zones) /\ Len(s) = Len(q) - 1 /\ Len(q) \in Nat
      /\ \A i \in 1 .. Len(q) - 1 : s[i] = IF i < k THEN q[i] ELSE q[i + 1]
  BY Without
<1> HIDE DEF s
<1>4. Distinct(s)
  BY <1>3 DEF Distinct
<1>5. ASSUME NEW y PROVE InQueue(s, y) <=> InQueue(q, y) /\ y # z
  <2>1. ASSUME InQueue(s, y) PROVE InQueue(q, y) /\ y # z
    <3>1. PICK i \in 1 .. Len(q) - 1 : s[i] = y
      BY <1>3, <2>1 DEF InQueue
    <3>2. PICK j \in 1 .. Len(q) : j # k /\ q[j] = y
      BY <1>3, <3>1
    <3> QED BY <1>1, <3>2 DEF InQueue, Distinct
  <2>2. ASSUME InQueue(q, y), y # z PROVE InQueue(s, y)
    <3>1. PICK j \in 1 .. Len(q) : q[j] = y
      BY <2>2 DEF InQueue
    <3>2. CASE j < k
      BY <1>3, <3>1, <3>2 DEF InQueue
    <3>3. CASE ~(j < k)
      <4>1. j > k
        BY <1>1, <2>2, <3>1, <3>3
      <4>2. j - 1 \in 1 .. Len(s) /\ s[j - 1] = y
        BY <1>3, <3>1, <4>1
      <4> QED BY <4>2 DEF InQueue
    <3> QED BY <3>2, <3>3
  <2> QED BY <2>1, <2>2
<1>6. /\ Append(s, z) \in Seq(Zones) /\ Distinct(Append(s, z))
      /\ \A y : InQueue(Append(s, z), y) <=> InQueue(s, y) \/ y = z
  BY <1>3, <1>4, <1>5, PushQueue
<1>7. \A y : InQueue(Append(s, z), y) <=> InQueue(q, y)
  BY <1>1, <1>5, <1>6 DEF InQueue
<1> QED BY <1>2, <1>6, <1>7 DEF s
------------------------------------------------------------------------------
(***************************************************************************)
(* The inductive invariant.  A zone that is written to its end is known to *)
(* one holder: the LRU queue, the evictor that popped it, or the worker    *)
(* that filled it and has not told the policy yet.                         *)
(***************************************************************************)
Evicting == {"ev_clear", "ev_wait", "ev_reset"}

Pending(t, z) == pc[t] = "update_write" /\ location[t] = Pair(z, MaxZoneChunks - 1)

PolicyTypeOK ==
  /\ lru_queue \in Seq(Zones)
  /\ zone_to_lru_map \subseteq Zones
  /\ nr_evict \in [Threads -> 0 .. UintMod - 1]
  /\ victim \in [Threads -> Zones \cup {-1}]

\* A thread has a victim from the pop of the LRU queue to the reset.
VictimsMatch == \A t \in Threads : pc[t] \in Evicting <=> victim[t] \in Zones

\* The queue and the hash table name the same zones.
LruMatches ==
  /\ Distinct(lru_queue)
  /\ \A z \in Zones : InQueue(lru_queue, z) <=> z \in zone_to_lru_map

\* What a holder has is written to its end.
HoldersFull ==
  /\ zone_to_lru_map \subseteq Written
  /\ \A t \in Threads : victim[t] \in Zones => victim[t] \in Written
  /\ \A t \in Threads, z \in Zones : Pending(t, z) => z \in Written

\* No two holders have the same zone.
HoldersExclusive ==
  /\ \A t, u \in Threads : victim[t] \in Zones /\ victim[t] = victim[u] => t = u
  /\ \A t, u \in Threads, z \in Zones : Pending(t, z) /\ Pending(u, z) => t = u
  /\ \A t \in Threads : victim[t] \notin zone_to_lru_map
  /\ \A t, u \in Threads, z \in Zones :
       Pending(t, z) => z \notin zone_to_lru_map /\ victim[u] # z

\* Every zone that is written to its end has a holder, unless its reset failed.
HoldersComplete ==
  "reset" \notin Faults =>
    \A z \in Written :
      \/ z \in zone_to_lru_map
      \/ \E t \in Threads : victim[t] = z
      \/ \E t \in Threads : Pending(t, z)

PolicyInv ==
  /\ PolicyTypeOK
  /\ VictimsMatch
  /\ LruMatches
  /\ HoldersFull
  /\ HoldersExclusive
  /\ HoldersComplete

CacheInv == FrontInv(EvictPcs) /\ PolicyInv

\* The program starts with empty queues and no holder.
LEMMA CacheInvInit == Init => CacheInv
<1> SUFFICES ASSUME Init PROVE CacheInv
  OBVIOUS
<1>1. FrontInv(EvictPcs)
  BY FrontInvInit DEF Init
<1>2. Written = {}
  BY DEF Init, zn_init_cache, zsm_init, Written, LastChunkWritten
<1>3. PolicyTypeOK
  BY UintModAssumption, NumZonesAssumption, ThresholdAssumption, WorkloadMaxAssumption
  DEF Init, PolicyInit, PolicyTypeOK
<1>4. VictimsMatch
  BY NumZonesAssumption DEF Init, zn_init_cache, VictimsMatch, Evicting, Zones
<1>5. LruMatches
  BY EmptyQueue DEF Init, PolicyInit, LruMatches
<1>6. \A t \in Threads, z \in Zones : ~Pending(t, z) /\ victim[t] \notin Zones
  BY NumZonesAssumption DEF Init, zn_init_cache, Pending, Zones
<1>7. HoldersFull /\ HoldersExclusive /\ HoldersComplete
  BY <1>2, <1>3, <1>6, NumZonesAssumption
  DEF Init, PolicyInit, HoldersFull, HoldersExclusive, HoldersComplete, Zones
<1> QED BY <1>1, <1>3, <1>4, <1>5, <1>7 DEF CacheInv, PolicyInv
------------------------------------------------------------------------------
(***************************************************************************)
(* Steps of the front end.                                                 *)
(***************************************************************************)
\* Who waits to tell the policy stays the same when others move.
LEMMA PendingKept ==
  ASSUME CacheInv, NEW t \in Threads, NEW to,
         pc' = [pc EXCEPT ![t] = to],
         pc[t] # "update_write", to # "update_write",
         \A u \in Threads \ {t} : location'[u] = location[u]
  PROVE  \A u \in Threads, z \in Zones : Pending(u, z)' <=> Pending(u, z)
BY DEF CacheInv, FrontInv, FrontTypeOK, Pending

\* The holders stay the same when no zone is filled or reset.
LEMMA HoldersKept ==
  ASSUME PolicyInv, Written' = Written, UNCHANGED <<policyVars, victim>>,
         \A u \in Threads, z \in Zones : Pending(u, z)' <=> Pending(u, z)
  PROVE  LruMatches' /\ HoldersFull' /\ HoldersExclusive' /\ HoldersComplete'
<1>1. LruMatches'
  BY DEF PolicyInv, LruMatches, policyVars
<1>2. HoldersFull'
  BY DEF PolicyInv, HoldersFull, policyVars
<1>3. HoldersExclusive'
  BY DEF PolicyInv, HoldersExclusive, policyVars
<1>4. Written \subseteq Zones
  BY DEF Written
<1>5. HoldersComplete'
  BY <1>4 DEF PolicyInv, HoldersComplete, policyVars
<1> QED BY <1>1, <1>2, <1>3, <1>5

\* A step outside the eviction that neither fills a zone nor tells the policy of one.
LEMMA PolicyKept ==
  ASSUME CacheInv, NEW t \in Threads, NEW to,
         pc' = [pc EXCEPT ![t] = to],
         pc[t] \notin Evicting, to \notin Evicting, pc[t] # "update_write", to # "update_write",
         \A u \in Threads \ {t} : location'[u] = location[u],
         Written' = Written, UNCHANGED <<policyVars, evictVars>>
  PROVE  PolicyInv'
<1>1. \A u \in Threads, z \in Zones : Pending(u, z)' <=> Pending(u, z)
  BY PendingKept
<1>2. PolicyTypeOK'
  BY DEF CacheInv, PolicyInv, PolicyTypeOK, policyVars, evictVars
<1>3. VictimsMatch'
  BY DEF CacheInv, FrontInv, FrontTypeOK, PolicyInv, VictimsMatch, evictVars
<1>4. LruMatches' /\ HoldersFull' /\ HoldersExclusive' /\ HoldersComplete'
  BY <1>1, HoldersKept DEF CacheInv, evictVars
<1> QED BY <1>2, <1>3, <1>4 DEF PolicyInv

\* The worker that writes the last chunk of a zone becomes its holder.
LEMMA ReturnZonePolicy ==
  ASSUME CacheInv, NEW t \in Threads, ReturnZone(t), UNCHANGED <<policyVars, evictVars>>
  PROVE  PolicyInv'
<1> DEFINE x == location[t].zone
<1>1. /\ pc[t] = "return_zone" /\ pc' = [pc EXCEPT ![t] = "update_write"]
      /\ UNCHANGED location /\ zsm_return_active_zone(t, location[t])
  BY DEF ReturnZone, Goto, locals
<1>2. grant[t] # NoPair /\ grant[t] = location[t]
  BY <1>1 DEF CacheInv, FrontInv, GrantsMatchLocations, HoldsZone
<1>3. x \in Zones /\ x \notin Written /\ location[t] \in zn_pair
  BY <1>2, GrantNotCommitted, GrantedZone DEF CacheInv, FrontInv
<1>4. Written' = Written \cup
        (IF location[t].chunk_offset = MaxZoneChunks - 1 THEN {x} ELSE {})
  BY <1>1, <1>2, ReturnWritten DEF CacheInv, FrontInv
<1>5. \A u \in Threads, z \in Zones :
        Pending(u, z)' <=> \/ Pending(u, z)
                           \/ u = t /\ z = x /\ location[t].chunk_offset = MaxZoneChunks - 1
  <2>1. \A z \in Zones : location[t] = Pair(z, MaxZoneChunks - 1)
                         <=> z = x /\ location[t].chunk_offset = MaxZoneChunks - 1
    BY <1>3 DEF Pair, zn_pair
  <2>2. pc'[t] = "update_write" /\ \A u \in Threads \ {t} : pc'[u] = pc[u]
    BY <1>1 DEF CacheInv, FrontInv, FrontTypeOK
  <2> QED BY <1>1, <2>1, <2>2 DEF Pending
<1>6. PolicyTypeOK'
  BY DEF CacheInv, PolicyInv, PolicyTypeOK, policyVars, evictVars
<1>7. VictimsMatch'
  BY <1>1 DEF CacheInv, FrontInv, FrontTypeOK, PolicyInv, VictimsMatch, evictVars, Evicting
<1>8. /\ \A z \in zone_to_lru_map : z # x
      /\ \A u \in Threads : victim[u] # x /\ ~Pending(u, x)
  BY <1>3 DEF CacheInv, PolicyInv, HoldersFull
<1> HIDE DEF x
<1>9. LruMatches'
  BY DEF CacheInv, PolicyInv, LruMatches, policyVars
<1>10. HoldersFull'
  BY <1>3, <1>4, <1>5 DEF CacheInv, PolicyInv, HoldersFull, policyVars, evictVars
<1>11. HoldersExclusive'
  BY <1>3, <1>5, <1>8 DEF CacheInv, PolicyInv, HoldersExclusive, policyVars, evictVars
<1>12. HoldersComplete'
  <2>1. Written \subseteq Zones
    BY DEF Written
  <2> QED BY <1>3, <1>4, <1>5, <2>1 DEF CacheInv, PolicyInv, HoldersComplete, policyVars, evictVars
<1> QED BY <1>6, <1>7, <1>9, <1>10, <1>11, <1>12 DEF PolicyInv

\* Every step of the front end keeps the policy's part of the invariant.
LEMMA FrontPolicy ==
  ASSUME CacheInv, NEW t \in Threads, UNCHANGED <<policyVars, evictVars>>,
         TaskStep(t) \/ GetStep(t) \/ evict_task(t) \/ Wakeup(t)
  PROVE  PolicyInv'
<1> USE DEF Evicting
<1>0. UNCHANGED zsmVars => Written' = Written
  BY DEF zsmVars, Written, LastChunkWritten
<1>1. CASE TaskStep(t) \/ evict_task(t)
  <2>1. /\ pc[t] \in OutsideGet
        /\ \E to \in OutsideGet \cup {"find", "evict"} : pc' = [pc EXCEPT ![t] = to]
        /\ UNCHANGED <<zsmVars, location>>
    BY <1>1 DEF TaskStep, TakeRequest, WorkloadDone, CountCompleted, evict_task, CheckDone,
                CheckFreeZones, Goto, locals, OutsideGet
  <2> QED BY <1>0, <2>1, PolicyKept DEF OutsideGet
<1>2. CASE Wakeup(t)
  <2>1. /\ UNCHANGED <<pc, zsmVars, location, policyVars, victim>>
    BY <1>2 DEF Wakeup, cacheVars, locals, evictVars
  <2>2. \A u \in Threads, z \in Zones : Pending(u, z)' <=> Pending(u, z)
    BY <2>1 DEF Pending
  <2>3. PolicyTypeOK' /\ VictimsMatch'
    BY <2>1 DEF CacheInv, PolicyInv, PolicyTypeOK, VictimsMatch, policyVars, evictVars
  <2> QED BY <1>0, <2>1, <2>2, <2>3, HoldersKept DEF CacheInv, PolicyInv
<1>3. CASE zn_cachemap_find(t)
  <2>1. /\ pc[t] = "find" /\ UNCHANGED <<zsmVars, location>>
        /\ \E to \in {"find", "copy_location"} : pc' = [pc EXCEPT ![t] = to]
    BY <1>3 DEF zn_cachemap_find, locals, CacheInv, FrontInv, FrontTypeOK
  <2> QED BY <1>0, <2>1, PolicyKept
<1>4. CASE FindReturnLocation(t) \/ FindReturnType(t) \/ ReadChunk(t)
  <2>1. /\ pc[t] \in {"copy_location", "copy_type", "read"}
        /\ \E to \in {"copy_type", "read", "get_zone", "update_read"} : pc' = [pc EXCEPT ![t] = to]
        /\ UNCHANGED <<zsmVars, location>>
    BY <1>4 DEF FindReturnLocation, FindReturnType, ReadChunk, Goto
  <2> QED BY <1>0, <2>1, PolicyKept
<1>5. CASE HitDone(t) \/ MissDone(t) \/ UndoMap(t)
  <2>1. /\ pc[t] \in {"release", "insert", "undo_map"}
        /\ \E to \in {"next", "failed"} : Return(t, to)
        /\ UNCHANGED zsmVars
    BY <1>5 DEF HitDone, MissDone, UndoMap
  <2>2. PICK to \in {"next", "failed"} : Return(t, to)
    BY <2>1
  <2>3. pc' = [pc EXCEPT ![t] = to] /\ \A u \in Threads \ {t} : location'[u] = location[u]
    BY <2>2 DEF Return, CacheInv, FrontInv, FrontTypeOK
  <2> QED BY <1>0, <2>1, <2>2, <2>3, PolicyKept
<1>6. CASE GetZone(t)
  <2>1. /\ pc[t] = "get_zone"
        /\ \E to \in {"write", "undo_map", "evict"} : pc' = [pc EXCEPT ![t] = to]
        /\ \A u \in Threads \ {t} : location'[u] = location[u]
    BY <1>6 DEF GetZone, Goto, CacheInv, FrontInv, FrontTypeOK
  <2>2. Written' = Written
    BY <1>0, <1>6, GetWritten DEF GetZone, CacheInv, FrontInv
  <2> QED BY <2>1, <2>2, PolicyKept
<1>7. CASE WriteChunk(t)
  <2>1. /\ pc[t] = "write" /\ UNCHANGED <<zsmVars, location>>
        /\ \E to \in {"return_zone", "undo_zone"} : pc' = [pc EXCEPT ![t] = to]
    BY <1>7 DEF WriteChunk, Goto, locals
  <2> QED BY <1>0, <2>1, PolicyKept
<1>8. CASE ReturnZone(t)
  BY <1>8, ReturnZonePolicy
<1>9. CASE UndoZoneGet(t)
  <2>1. /\ pc[t] = "undo_zone" /\ pc' = [pc EXCEPT ![t] = "undo_map"]
        /\ UNCHANGED location /\ zsm_failed_to_write(t, location[t])
    BY <1>9 DEF UndoZoneGet, Goto, locals
  <2>2. grant[t] # NoPair /\ grant[t] = location[t]
    BY <2>1 DEF CacheInv, FrontInv, GrantsMatchLocations, HoldsZone
  <2>3. Written' = Written
    BY <2>1, <2>2, FailedWritten DEF CacheInv, FrontInv
  <2> QED BY <2>1, <2>3, PolicyKept
<1> QED BY <1>1, <1>2, <1>3, <1>4, <1>5, <1>6, <1>7, <1>8, <1>9 DEF GetStep
------------------------------------------------------------------------------
(***************************************************************************)
(* Steps of the policy.                                                    *)
(***************************************************************************)
\* update_policy leaves the front end alone.
LEMMA UpdateFront ==
  ASSUME CacheInv, NEW t \in Threads, UpdatePolicyRead(t) \/ UpdatePolicyWrite(t)
  PROVE  FrontInv(EvictPcs)'
<1>1. /\ \/ pc[t] = "update_read" /\ pc' = [pc EXCEPT ![t] = "release"]
         \/ pc[t] = "update_write" /\ pc' = [pc EXCEPT ![t] = "insert"]
      /\ UNCHANGED <<zsmVars, mapVars, locals, disk, ratio, progress>>
  BY DEF UpdatePolicyRead, UpdatePolicyWrite, Goto
<1>2. t \in Workers
  BY <1>1 DEF CacheInv, FrontInv, ControlOK, InGet
<1>3. CASE pc[t] = "update_read" /\ pc' = [pc EXCEPT ![t] = "release"]
  BY <1>1, <1>2, <1>3, PolicyMoveOnly
  DEF CacheInv, InGet, OutsideGet, HasLocation, HoldsZone, NotFilling
<1>4. CASE pc[t] = "update_write" /\ pc' = [pc EXCEPT ![t] = "insert"]
  BY <1>1, <1>2, <1>4, PolicyMoveOnly
  DEF CacheInv, InGet, OutsideGet, HasLocation, HoldsZone, NotFilling, Copying
<1> QED BY <1>1, <1>3, <1>4

\* A zone that is read may move in the queue; its holder stays the same.
LEMMA UpdateReadPolicy ==
  ASSUME CacheInv, NEW t \in Threads, UpdatePolicyRead(t)
  PROVE  PolicyInv'
<1>1. /\ pc[t] = "update_read" /\ pc' = [pc EXCEPT ![t] = "release"]
      /\ UNCHANGED <<zsmVars, locals, evictVars>>
      /\ zn_policy_promotional_update(result[t].location, "ZN_READ")
  BY DEF UpdatePolicyRead, Goto
<1>2. Written' = Written /\ \A u \in Threads, z \in Zones : Pending(u, z)' <=> Pending(u, z)
  BY <1>1, PendingKept DEF zsmVars, locals, Written, LastChunkWritten
<1>3. /\ zone_to_lru_map' = zone_to_lru_map /\ lru_queue' \in Seq(Zones) /\ Distinct(lru_queue')
      /\ \A y \in Zones : InQueue(lru_queue', y) <=> InQueue(lru_queue, y)
  <2> DEFINE x == result[t].location.zone
  <2>1. lru_queue \in Seq(Zones) /\ Distinct(lru_queue)
    BY DEF CacheInv, PolicyInv, PolicyTypeOK, LruMatches
  <2>2. CASE UNCHANGED policyVars
    BY <2>1, <2>2 DEF policyVars
  <2>3. CASE /\ x \in zone_to_lru_map /\ UNCHANGED zone_to_lru_map
             /\ lru_queue' = Append(RemoveAt(lru_queue, NodeOf(x)), x)
    <3>1. x \in Zones /\ InQueue(lru_queue, x)
      BY <2>3 DEF CacheInv, PolicyInv, PolicyTypeOK, LruMatches
    <3> HIDE DEF x
    <3> QED BY <2>1, <2>3, <3>1, MoveToTail
  <2> QED BY <1>1, <2>2, <2>3 DEF zn_policy_promotional_update
<1>4. PolicyTypeOK'
  BY <1>1, <1>3 DEF CacheInv, PolicyInv, PolicyTypeOK, evictVars
<1>5. VictimsMatch'
  BY <1>1 DEF CacheInv, FrontInv, FrontTypeOK, PolicyInv, VictimsMatch, evictVars, Evicting
<1>6. LruMatches'
  BY <1>3 DEF CacheInv, PolicyInv, LruMatches
<1>7. HoldersFull' /\ HoldersExclusive'
  BY <1>1, <1>2, <1>3 DEF CacheInv, PolicyInv, HoldersFull, HoldersExclusive, evictVars
<1>8. HoldersComplete'
  <2>1. Written \subseteq Zones
    BY DEF Written
  <2> QED BY <1>1, <1>2, <1>3, <2>1 DEF CacheInv, PolicyInv, HoldersComplete, evictVars
<1> QED BY <1>4, <1>5, <1>6, <1>7, <1>8 DEF PolicyInv

\* The worker that filled a zone hands it over to the queue.
LEMMA UpdateWritePolicy ==
  ASSUME CacheInv, NEW t \in Threads, UpdatePolicyWrite(t)
  PROVE  PolicyInv'
<1> DEFINE x == location[t].zone
<1> DEFINE last == location[t].chunk_offset = MaxZoneChunks - 1
<1>1. /\ pc[t] = "update_write" /\ pc' = [pc EXCEPT ![t] = "insert"]
      /\ UNCHANGED <<zsmVars, locals, evictVars>>
      /\ zn_policy_promotional_update(location[t], "ZN_WRITE")
  BY DEF UpdatePolicyWrite, Goto
<1>2. location[t] \in zn_pair /\ x \in Zones
  BY <1>1, NoPairFacts DEF CacheInv, FrontInv, ControlOK, HasLocation
<1>3. Written' = Written /\ Written \subseteq Zones
  BY <1>1 DEF zsmVars, Written, LastChunkWritten
<1>4. \A z \in Zones : Pending(t, z) <=> z = x /\ last
  BY <1>1, <1>2 DEF Pending, Pair, zn_pair
<1>5. \A u \in Threads, z \in Zones : Pending(u, z)' <=> Pending(u, z) /\ u # t
  BY <1>1 DEF Pending, CacheInv, FrontInv, FrontTypeOK, locals
<1>6. /\ last => lru_queue' = Append(lru_queue, x) /\ zone_to_lru_map' = zone_to_lru_map \cup {x}
      /\ ~last => UNCHANGED policyVars
  BY <1>1 DEF zn_policy_promotional_update
<1>7. VictimsMatch'
  BY <1>1 DEF CacheInv, FrontInv, FrontTypeOK, PolicyInv, VictimsMatch, evictVars, Evicting
<1>8. victim' = victim /\ nr_evict' = nr_evict
  BY <1>1 DEF evictVars
<1> HIDE DEF x, last
<1>9. CASE last
  <2>1. x \notin zone_to_lru_map /\ x \in Written /\ \A u \in Threads : victim[u] # x
    BY <1>2, <1>4, <1>9 DEF CacheInv, PolicyInv, HoldersFull, HoldersExclusive
  <2>2. \A u \in Threads : Pending(u, x) => u = t
    BY <1>2, <1>4, <1>9 DEF CacheInv, PolicyInv, HoldersExclusive
  <2>3. /\ lru_queue' \in Seq(Zones) /\ Distinct(lru_queue')
        /\ \A z : InQueue(lru_queue', z) <=> InQueue(lru_queue, z) \/ z = x
    <3>1. lru_queue \in Seq(Zones) /\ Distinct(lru_queue) /\ ~InQueue(lru_queue, x)
      BY <1>2, <2>1 DEF CacheInv, PolicyInv, PolicyTypeOK, LruMatches
    <3>2. lru_queue' = Append(lru_queue, x)
      BY <1>6, <1>9
    <3> QED BY <1>2, <3>1, <3>2, PushQueue
  <2>4. PolicyTypeOK'
    BY <1>2, <1>6, <1>8, <1>9, <2>3 DEF CacheInv, PolicyInv, PolicyTypeOK
  <2>5. LruMatches'
    BY <1>6, <1>9, <2>3 DEF CacheInv, PolicyInv, LruMatches
  <2>6. HoldersFull'
    BY <1>3, <1>5, <1>6, <1>8, <1>9, <2>1 DEF CacheInv, PolicyInv, HoldersFull
  <2>7. HoldersExclusive'
    BY <1>5, <1>6, <1>8, <1>9, <2>1, <2>2 DEF CacheInv, PolicyInv, HoldersExclusive
  <2>8. HoldersComplete'
    BY <1>3, <1>4, <1>5, <1>6, <1>8, <1>9 DEF CacheInv, PolicyInv, HoldersComplete
  <2> QED BY <1>7, <2>4, <2>5, <2>6, <2>7, <2>8 DEF PolicyInv
<1>10. CASE ~last
  <2>1. \A u \in Threads, z \in Zones : Pending(u, z)' <=> Pending(u, z)
    BY <1>4, <1>5, <1>10
  <2>2. PolicyTypeOK'
    BY <1>6, <1>8, <1>10 DEF CacheInv, PolicyInv, PolicyTypeOK, policyVars
  <2> QED BY <1>3, <1>6, <1>7, <1>8, <1>10, <2>1, <2>2, HoldersKept DEF CacheInv, PolicyInv
<1> QED BY <1>9, <1>10
------------------------------------------------------------------------------
(***************************************************************************)
(* Steps of the eviction.                                                  *)
(***************************************************************************)
\* A move within zn_fg_evict, or out of it, that changes no zone and no entry.
LEMMA EvictMoveFront ==
  ASSUME CacheInv, NEW t \in Threads, pc[t] \in EvictPcs,
         NEW to \in EvictPcs \cup {AfterEvict(t)}, pc' = [pc EXCEPT ![t] = to],
         UNCHANGED <<zsmVars, mapVars, locals, disk, ratio, progress>>
  PROVE  FrontInv(EvictPcs)'
<1> USE DEF EvictPcs, AfterEvict
<1>1. to \in InGet \cup EvictPcs \cup OutsideGet
  BY DEF InGet, OutsideGet
<1>2. pc[t] \notin OutsideGet /\ (t \in Workers => to \notin OutsideGet)
  BY DEF OutsideGet
<1>3. t \notin Workers => to \notin InGet \cup {"next", "finish", "failed"}
  BY DEF InGet
<1>4. to \notin HasLocation /\ pc[t] \notin HoldsZone /\ to \notin HoldsZone
  BY DEF HasLocation, HoldsZone
<1>5. to \notin NotFilling \cup Copying
  BY DEF NotFilling, Copying
<1> HIDE DEF EvictPcs, AfterEvict
<1> QED BY <1>1, <1>2, <1>3, <1>4, <1>5, PolicyMoveOnly DEF CacheInv

\* The moves that change nothing the policy knows of.
LEMMA EvictMovePolicy ==
  ASSUME CacheInv, NEW t \in Threads, NEW to, pc' = [pc EXCEPT ![t] = to],
         pc[t] \in Evicting <=> to \in Evicting,
         pc[t] # "update_write", to # "update_write",
         nr_evict' \in [Threads -> 0 .. UintMod - 1],
         UNCHANGED <<zsmVars, location, policyVars, victim>>
  PROVE  PolicyInv'
<1>1. Written' = Written /\ \A u \in Threads, z \in Zones : Pending(u, z)' <=> Pending(u, z)
  BY PendingKept DEF zsmVars, Written, LastChunkWritten
<1>2. PolicyTypeOK'
  BY DEF CacheInv, PolicyInv, PolicyTypeOK, policyVars
<1>3. VictimsMatch'
  BY DEF CacheInv, FrontInv, FrontTypeOK, PolicyInv, VictimsMatch
<1>4. LruMatches' /\ HoldersFull' /\ HoldersExclusive' /\ HoldersComplete'
  BY <1>1, HoldersKept DEF CacheInv
<1> QED BY <1>2, <1>3, <1>4 DEF PolicyInv

\* The number of zones to evict is a uint32_t.
LEMMA UintRange ==
  ASSUME NEW a \in Int
  PROVE  a % UintMod \in 0 .. UintMod - 1
<1>1. UintMod \in Nat \ {0}
  BY UintModAssumption, NumZonesAssumption, ThresholdAssumption, WorkloadMaxAssumption
<1> QED BY <1>1

\* The head of the LRU queue goes to an evictor.
LEMMA PickVictimPolicy ==
  ASSUME CacheInv, NEW t \in Threads, PickVictim(t)
  PROVE  PolicyInv'
<1>1. PICK x \in Zones : /\ zn_policy_promotional_get_zone_to_evict(x)
                         /\ victim' = [victim EXCEPT ![t] = x]
  BY DEF PickVictim
<1>2. /\ pc[t] = "ev_pick" /\ pc' = [pc EXCEPT ![t] = "ev_clear"]
      /\ nr_evict[t] > 0 /\ nr_evict' = [nr_evict EXCEPT ![t] = @ - 1]
      /\ UNCHANGED <<zsmVars, locals>>
  BY DEF PickVictim, Goto
<1>3. /\ lru_queue # <<>> /\ x = Head(lru_queue)
      /\ lru_queue' = Tail(lru_queue) /\ zone_to_lru_map' = zone_to_lru_map \ {x}
  BY <1>1 DEF zn_policy_promotional_get_zone_to_evict
<1>4. /\ lru_queue' \in Seq(Zones) /\ Distinct(lru_queue') /\ InQueue(lru_queue, x)
      /\ \A z : InQueue(lru_queue', z) <=> InQueue(lru_queue, z) /\ z # x
  BY <1>3, PopQueue DEF CacheInv, PolicyInv, PolicyTypeOK, LruMatches
<1>5. Written' = Written /\ Written \subseteq Zones
  BY <1>2 DEF zsmVars, Written, LastChunkWritten
<1>6. \A u \in Threads, z \in Zones : Pending(u, z)' <=> Pending(u, z)
  BY <1>2, PendingKept DEF locals
<1>7. x \in zone_to_lru_map
  BY <1>4 DEF CacheInv, PolicyInv, LruMatches
<1>8. /\ x \in Written /\ \A u \in Threads : victim[u] # x /\ ~Pending(u, x)
      /\ victim[t] \notin Zones
  BY <1>2, <1>7 DEF CacheInv, PolicyInv, HoldersFull, HoldersExclusive, VictimsMatch, Evicting
<1>9. victim'[t] = x /\ \A u \in Threads \ {t} : victim'[u] = victim[u]
  BY <1>1 DEF CacheInv, PolicyInv, PolicyTypeOK
<1>10. PolicyTypeOK'
  <2>1. UintMod \in Nat /\ nr_evict[t] \in 0 .. UintMod - 1
    BY UintModAssumption DEF CacheInv, PolicyInv, PolicyTypeOK
  <2>2. nr_evict[t] - 1 \in 0 .. UintMod - 1
    BY <1>2, <2>1
  <2>3. nr_evict' \in [Threads -> 0 .. UintMod - 1]
    BY <1>2, <2>2 DEF CacheInv, PolicyInv, PolicyTypeOK
  <2> QED BY <1>1, <1>3, <1>4, <2>3 DEF CacheInv, PolicyInv, PolicyTypeOK
<1>11. VictimsMatch'
  BY <1>2, <1>9 DEF CacheInv, FrontInv, FrontTypeOK, PolicyInv, VictimsMatch, Evicting
<1>12. LruMatches'
  BY <1>3, <1>4 DEF CacheInv, PolicyInv, LruMatches
<1>13. HoldersFull'
  BY <1>3, <1>5, <1>6, <1>8, <1>9 DEF CacheInv, PolicyInv, HoldersFull
<1>14. HoldersExclusive'
  BY <1>3, <1>6, <1>8, <1>9 DEF CacheInv, PolicyInv, HoldersExclusive
<1>15. HoldersComplete'
  BY <1>3, <1>5, <1>6, <1>8, <1>9 DEF CacheInv, PolicyInv, HoldersComplete
<1> QED BY <1>10, <1>11, <1>12, <1>13, <1>14, <1>15 DEF PolicyInv

\* An evictor resets its victim and lets go of it.
LEMMA ResetVictimInv ==
  ASSUME CacheInv, NEW t \in Threads, ResetVictim(t)
  PROVE  CacheInv' /\ EvictStep(victim[t])
<1> DEFINE x == victim[t]
<1>1. /\ pc[t] = "ev_reset" /\ pc' = [pc EXCEPT ![t] = "ev_pick"]
      /\ ResetOnDevice(x) /\ zsm_evict(x)
      /\ victim' = [victim EXCEPT ![t] = -1]
      /\ UNCHANGED <<mapVars, locals, ratio, progress, policyVars, nr_evict, grant>>
  BY DEF ResetVictim, Goto, ResetOnDevice, zsm_evict
<1>2. x \in Zones /\ x \in Written
  BY <1>1 DEF CacheInv, PolicyInv, VictimsMatch, HoldersFull, Evicting
<1>3. EvictStep(x)
  BY <1>1, <1>2 DEF EvictStep, Written
<1>4. ZsmInv' /\ ActiveZoneBudget'
  BY <1>2, <1>3, ZsmStepInv DEF CacheInv, FrontInv, ZsmNext
<1>5. /\ disk' \in [Zones -> [Chunks -> Ids \cup {Blank, Torn}]] /\ WholeCommitted'
      /\ \A y \in Zones \ {x} : disk'[y] = disk[y]
  BY <1>1, <1>2, ResetWhole DEF CacheInv
<1>6. WholeBeforeReturn'
  <2> SUFFICES ASSUME NEW u \in Threads, pc'[u] = "return_zone"
               PROVE  disk'[location'[u].zone][location'[u].chunk_offset] \in Ids
    BY DEF WholeBeforeReturn
  <2>1. pc[u] = "return_zone" /\ location'[u] = location[u]
    BY <1>1 DEF CacheInv, FrontInv, FrontTypeOK, locals
  <2>2. grant[u] # NoPair /\ grant[u] = location[u]
    BY <2>1 DEF CacheInv, FrontInv, GrantsMatchLocations, HoldsZone
  <2>3. location[u].zone \in Zones \ {x}
    BY <1>2, <2>2, GrantedZone, GrantNotCommitted DEF CacheInv, FrontInv
  <2> QED BY <1>5, <2>1, <2>3 DEF CacheInv, FrontInv, WholeBeforeReturn
<1>7. mapTypeOK' /\ UNCHANGED <<zone_map, waiting>>
  BY <1>1 DEF CacheInv, FrontInv, FrontTypeOK, mapTypeOK, mapVars
<1>8. /\ FrontTypeOK(EvictPcs)' /\ ControlOK' /\ CompletedOK'
      /\ GrantsMatchLocations' /\ FillersPresent'
  <2>1. "ev_pick" \in InGet \cup EvictPcs \cup OutsideGet
    BY DEF EvictPcs
  <2>2. /\ pc[t] \notin OutsideGet /\ "ev_pick" \notin OutsideGet \cup HasLocation
        /\ pc[t] \notin HoldsZone /\ "ev_pick" \notin HoldsZone
    BY <1>1 DEF OutsideGet, HasLocation, HoldsZone
  <2>3. "ev_pick" \notin InGet \cup {"next", "finish", "failed"} /\ "ev_pick" \notin NotFilling \cup Copying
    BY DEF InGet, NotFilling, Copying
  <2>4. \A id \in Ids : zone_map'[id].type \in {zone_map[id].type, "EMPTY"}
    BY <1>7
  <2>5. UNCHANGED <<locals, ratio, progress, waiting, grant>> /\ pc' = [pc EXCEPT ![t] = "ev_pick"]
    BY <1>1, <1>7
  <2>6. FrontInv(EvictPcs)
    BY DEF CacheInv
  <2> QED BY <1>5, <1>7, <2>1, <2>2, <2>3, <2>4, <2>5, <2>6, PolicyMove
<1>9. FrontInv(EvictPcs)'
  BY <1>4, <1>5, <1>6, <1>8 DEF FrontInv
<1>10. \/ Written' = Written \ {x}
       \/ Written' = Written /\ "reset" \in Faults
  BY <1>1, <1>2, EvictWritten DEF CacheInv, FrontInv
<1>11. \A u \in Threads, z \in Zones : Pending(u, z)' <=> Pending(u, z)
  BY <1>1, PendingKept DEF locals
<1>12. /\ victim'[t] = -1 /\ -1 \notin Zones /\ \A u \in Threads \ {t} : victim'[u] = victim[u]
       /\ victim' \in [Threads -> Zones \cup {-1}]
  BY <1>1, NumZonesAssumption DEF CacheInv, PolicyInv, PolicyTypeOK, Zones
<1>13. /\ x \notin zone_to_lru_map
       /\ \A u \in Threads : ~Pending(u, x) /\ (u # t => victim[u] # x)
  BY <1>2 DEF CacheInv, PolicyInv, HoldersExclusive
<1> HIDE DEF x
<1>14. PolicyTypeOK' /\ LruMatches'
  BY <1>1, <1>12 DEF CacheInv, PolicyInv, PolicyTypeOK, LruMatches, policyVars
<1>15. VictimsMatch'
  BY <1>1, <1>12 DEF CacheInv, FrontInv, FrontTypeOK, PolicyInv, VictimsMatch, Evicting
<1>16. zone_to_lru_map' = zone_to_lru_map
  BY <1>1 DEF policyVars
<1>17. HoldersFull'
  BY <1>10, <1>11, <1>12, <1>13, <1>16 DEF CacheInv, PolicyInv, HoldersFull
<1>18. HoldersExclusive'
  BY <1>11, <1>12, <1>13, <1>16 DEF CacheInv, PolicyInv, HoldersExclusive, PolicyTypeOK
<1>19. HoldersComplete'
  <2>1. Written \subseteq Zones /\ x = victim[t]
    BY DEF Written, x
  <2> QED BY <1>10, <1>11, <1>12, <1>16, <2>1 DEF CacheInv, PolicyInv, HoldersComplete
<1> QED
  BY <1>3, <1>9, <1>14, <1>15, <1>17, <1>18, <1>19 DEF CacheInv, PolicyInv, x

\* The mappings of a victim are emptied.
LEMMA ClearVictimInv ==
  ASSUME CacheInv, NEW t \in Threads, ClearVictim(t)
  PROVE  CacheInv'
<1>1. /\ pc[t] = "ev_clear" /\ pc' = [pc EXCEPT ![t] = "ev_wait"]
      /\ zn_cachemap_clear_zone(victim[t]) /\ UNCHANGED waiting
      /\ UNCHANGED <<zsmVars, locals, disk, ratio, progress, policyVars, nr_evict, victim>>
  BY DEF ClearVictim, Goto, zn_cachemap_clear_zone
<1>2. victim[t] \in Zones
  BY <1>1 DEF CacheInv, PolicyInv, VictimsMatch, Evicting
<1>3. FrontInv(EvictPcs) /\ mapTypeOK
  BY DEF CacheInv, FrontInv, FrontTypeOK
<1>4. mapTypeOK' /\ \A id \in Ids : zone_map'[id].type \in {zone_map[id].type, "EMPTY"}
  BY <1>1, <1>2, <1>3, ClearZoneMap
<1>5. /\ FrontTypeOK(EvictPcs)' /\ ControlOK' /\ CompletedOK'
      /\ GrantsMatchLocations' /\ FillersPresent'
  <2>1. "ev_wait" \in InGet \cup EvictPcs \cup OutsideGet
    BY DEF EvictPcs
  <2>2. /\ pc[t] \notin OutsideGet /\ "ev_wait" \notin OutsideGet \cup HasLocation
        /\ pc[t] \notin HoldsZone /\ "ev_wait" \notin HoldsZone
    BY <1>1 DEF OutsideGet, HasLocation, HoldsZone
  <2>3. "ev_wait" \notin InGet \cup {"next", "finish", "failed"} /\ "ev_wait" \notin NotFilling \cup Copying
    BY DEF InGet, NotFilling, Copying
  <2>4. UNCHANGED <<locals, ratio, progress, waiting, grant>> /\ pc' = [pc EXCEPT ![t] = "ev_wait"]
    BY <1>1 DEF zsmVars
  <2>5. disk' \in [Zones -> [Chunks -> Ids \cup {Blank, Torn}]]
    BY <1>1 DEF CacheInv, FrontInv, FrontTypeOK
  <2> QED BY <1>3, <1>4, <2>1, <2>2, <2>3, <2>4, <2>5, PolicyMove
<1>6. ZsmInv' /\ ActiveZoneBudget'
  BY <1>1, ZsmStepInv DEF CacheInv, FrontInv
<1>7. Committed' = Committed
  BY <1>1 DEF zsmVars, Committed, ChunkWritten, LastChunkWritten
<1>8. WholeCommitted' /\ WholeBeforeReturn'
  BY <1>1, <1>3, <1>7, WholeKept DEF FrontInv, locals
<1>9. FrontInv(EvictPcs)'
  BY <1>5, <1>6, <1>8 DEF FrontInv
<1>10. PolicyInv'
  <2>1. nr_evict' \in [Threads -> 0 .. UintMod - 1]
    BY <1>1 DEF CacheInv, PolicyInv, PolicyTypeOK
  <2>2. UNCHANGED <<zsmVars, location, policyVars, victim>>
    BY <1>1 DEF locals
  <2>3. pc[t] \in Evicting <=> "ev_wait" \in Evicting
    BY <1>1 DEF Evicting
  <2> QED BY <1>1, <2>1, <2>2, <2>3, EvictMovePolicy
<1> QED BY <1>9, <1>10 DEF CacheInv

\* The steps of zn_fg_evict that change neither a zone nor an entry nor a holder.
LEMMA EvictMoveInv ==
  ASSUME CacheInv, NEW t \in Threads, CountFreeZones(t) \/ EvictReturn(t) \/ WaitForReaders(t)
  PROVE  CacheInv'
<1>1. /\ nr_evict \in [Threads -> 0 .. UintMod - 1] /\ Len(free) \in Nat
      /\ UintMod \in Nat \ {0} /\ EVICT_LOW_THRESH_ZONES \in Nat
  BY UintModAssumption, NumZonesAssumption, ThresholdAssumption, WorkloadMaxAssumption
  DEF CacheInv, PolicyInv, PolicyTypeOK, FrontInv, ZsmInv, ZsmTypeOK
<1>2. nr_evict' \in [Threads -> 0 .. UintMod - 1]
  <2>1. CASE CountFreeZones(t)
    <3>1. EVICT_LOW_THRESH_ZONES - zsm_get_num_free_zones \in Int
      BY <1>1 DEF zsm_get_num_free_zones
    <3>2. (EVICT_LOW_THRESH_ZONES - zsm_get_num_free_zones) % UintMod \in 0 .. UintMod - 1
      BY <3>1, UintRange
    <3> QED BY <1>1, <2>1, <3>2 DEF CountFreeZones
  <2>2. CASE EvictReturn(t)
    BY <1>1, <2>2 DEF EvictReturn
  <2>3. CASE WaitForReaders(t)
    BY <1>1, <2>3 DEF WaitForReaders, evictVars
  <2> QED BY <2>1, <2>2, <2>3
<1>3. UNCHANGED <<zsmVars, mapVars, locals, disk, ratio, progress, policyVars, victim>>
  BY DEF CountFreeZones, EvictReturn, WaitForReaders, evictVars
<1>4. PICK to \in {"ev_pick", "ev_reset", AfterEvict(t)} :
        /\ pc' = [pc EXCEPT ![t] = to] /\ pc[t] \in {"evict", "ev_pick", "ev_wait"}
        /\ pc[t] = "ev_wait" <=> to = "ev_reset"
  BY DEF CountFreeZones, EvictReturn, WaitForReaders, Goto, AfterEvict
<1>5. pc[t] \in EvictPcs /\ to \in EvictPcs \cup {AfterEvict(t)}
  BY <1>4 DEF EvictPcs
<1>6. (pc[t] \in Evicting <=> to \in Evicting) /\ pc[t] # "update_write" /\ to # "update_write"
  BY <1>4 DEF Evicting, AfterEvict
<1>7. FrontInv(EvictPcs)'
  BY <1>3, <1>4, <1>5, EvictMoveFront
<1>8. PolicyInv'
  BY <1>2, <1>3, <1>4, <1>6, EvictMovePolicy DEF locals
<1> QED BY <1>7, <1>8 DEF CacheInv

\* The pop of the LRU queue leaves the front end alone.
LEMMA PickVictimInv ==
  ASSUME CacheInv, NEW t \in Threads, PickVictim(t)
  PROVE  CacheInv'
<1>1. /\ pc[t] = "ev_pick" /\ pc' = [pc EXCEPT ![t] = "ev_clear"]
      /\ UNCHANGED <<zsmVars, mapVars, locals, disk, ratio, progress>>
  BY DEF PickVictim, Goto
<1>2. FrontInv(EvictPcs)'
  <2>1. pc[t] \in EvictPcs /\ "ev_clear" \in EvictPcs \cup {AfterEvict(t)}
    BY <1>1 DEF EvictPcs
  <2> QED BY <1>1, <2>1, EvictMoveFront
<1> QED BY <1>2, PickVictimPolicy DEF CacheInv
------------------------------------------------------------------------------
(***************************************************************************)
(* The whole program.                                                      *)
(***************************************************************************)
\* Every step of the program is a step of the zone state manager's callers, as the
\* manager assumes them, or leaves the manager alone.
LEMMA CallsZsm ==
  ASSUME CacheInv, [Next]_vars
  PROVE  [ZsmNext]_zsmVars
<1>1. ASSUME NEW t \in Threads, RunStep(t) PROVE [ZsmNext]_zsmVars
  <2>1. CASE TaskStep(t) \/ GetStep(t) \/ evict_task(t)
    BY <2>1, FrontCallsZsm DEF CacheInv, FrontInv, ZsmNext
  <2>2. CASE UpdatePolicyRead(t) \/ UpdatePolicyWrite(t)
    BY <2>2 DEF UpdatePolicyRead, UpdatePolicyWrite
  <2>3. CASE ResetVictim(t)
    <3>1. victim[t] \in Zones
      BY <2>3 DEF ResetVictim, Goto, CacheInv, PolicyInv, VictimsMatch, Evicting
    <3> QED BY <2>3, <3>1, ResetVictimInv DEF ZsmNext
  <2>4. CASE CountFreeZones(t) \/ PickVictim(t) \/ EvictReturn(t) \/ ClearVictim(t) \/ WaitForReaders(t)
    BY <2>4 DEF CountFreeZones, PickVictim, EvictReturn, ClearVictim, WaitForReaders
  <2> QED BY <1>1, <2>1, <2>2, <2>3, <2>4 DEF RunStep, zn_fg_evict
<1>2. ASSUME NEW t \in Threads, WakeupStep(t) PROVE [ZsmNext]_zsmVars
  BY <1>2 DEF WakeupStep, Wakeup
<1>3. CASE Terminated \/ UNCHANGED vars
  BY <1>3 DEF Terminated, vars
<1> QED BY <1>1, <1>2, <1>3 DEF Next

\* Every step of the program keeps the invariant.
LEMMA CacheInvStep ==
  ASSUME CacheInv, [Next]_vars
  PROVE  CacheInv'
<1>0. FrontInv(EvictPcs) /\ "evict" \in EvictPcs
  BY DEF CacheInv, EvictPcs
<1>1. ASSUME NEW t \in Threads, UNCHANGED <<policyVars, evictVars>>,
             TaskStep(t) \/ GetStep(t) \/ evict_task(t) \/ Wakeup(t)
      PROVE  CacheInv'
  BY <1>0, <1>1, FrontInvStep, FrontPolicy DEF CacheInv
<1>2. ASSUME NEW t \in Threads, RunStep(t) PROVE CacheInv'
  <2>1. CASE (TaskStep(t) \/ GetStep(t) \/ evict_task(t)) /\ UNCHANGED <<policyVars, evictVars>>
    BY <1>1, <2>1
  <2>2. CASE UpdatePolicyRead(t) \/ UpdatePolicyWrite(t)
    BY <2>2, UpdateFront, UpdateReadPolicy, UpdateWritePolicy DEF CacheInv
  <2>3. CASE zn_fg_evict(t)
    BY <2>3, EvictMoveInv, PickVictimInv, ClearVictimInv, ResetVictimInv DEF zn_fg_evict
  <2> QED BY <1>2, <2>1, <2>2, <2>3 DEF RunStep
<1>3. ASSUME NEW t \in Threads, WakeupStep(t) PROVE CacheInv'
  BY <1>1, <1>3 DEF WakeupStep
<1>4. CASE Terminated \/ UNCHANGED vars
  <2>1. UNCHANGED vars
    BY <1>4 DEF Terminated
  <2> USE <2>1 DEF vars, cacheVars, locals, progress, evictVars, policyVars, mapVars, zsmVars
  <2>2. ZsmInv' /\ ActiveZoneBudget'
    BY ZsmStepInv DEF CacheInv, FrontInv
  <2>3. Written' = Written /\ Committed' = Committed /\ \A u \in Threads, z \in Zones : Pending(u, z)' <=> Pending(u, z)
    BY DEF Written, LastChunkWritten, Committed, ChunkWritten, Pending
  <2>4. FrontTypeOK(EvictPcs)' /\ ControlOK' /\ CompletedOK' /\ GrantsMatchLocations'
    BY DEF CacheInv, FrontInv, FrontTypeOK, mapTypeOK, ControlOK, CompletedOK, Exited, GrantsMatchLocations
  <2>5. FillersPresent' /\ WholeCommitted' /\ WholeBeforeReturn'
    BY <2>3 DEF CacheInv, FrontInv, FillersPresent, Fillers, WholeCommitted, WholeBeforeReturn
  <2>6. PolicyTypeOK' /\ VictimsMatch'
    BY DEF CacheInv, PolicyInv, PolicyTypeOK, VictimsMatch
  <2>7. LruMatches' /\ HoldersFull' /\ HoldersExclusive' /\ HoldersComplete'
    BY <2>3, HoldersKept DEF CacheInv
  <2> QED BY <2>2, <2>4, <2>5, <2>6, <2>7 DEF CacheInv, FrontInv, PolicyInv
<1> QED BY <1>2, <1>3, <1>4 DEF Next

\* The inductive invariant holds in every reachable state of the program.
THEOREM CacheInductive == Spec => []CacheInv
<1>1. CacheInv /\ [Next]_vars => CacheInv'
  BY CacheInvStep
<1> QED BY <1>1, CacheInvInit, PTL DEF Spec

\* Only an evictor that clears a zone changes the history variable, and never back.
LEMMA RacedStep ==
  ASSUME [Next]_vars
  PROVE  \/ raced' = raced
         \/ \E t \in Threads : ClearVictim(t) /\ raced' = (raced \/ InFlight(victim[t]) # {})
BY DEF Next, RunStep, WakeupStep, Terminated, UpdatePolicyRead, UpdatePolicyWrite, zn_fg_evict,
  CountFreeZones, PickVictim, EvictReturn, ClearVictim, WaitForReaders, ResetVictim, vars, evictVars

\* The history variable is Boolean.
LEMMA RacedType == Spec => [](raced \in BOOLEAN)
<1>1. Init => raced \in BOOLEAN
  BY DEF Init
<1>2. raced \in BOOLEAN /\ [Next]_vars => (raced \in BOOLEAN)'
  BY RacedStep
<1> QED BY <1>1, <1>2, PTL DEF Spec

\* Every variable of the program keeps its type: no thread leaves the code of its
\* function, no request is taken past the end of the workload, and no worker counts
\* itself out twice (task_function, zncache.c).
THEOREM CacheTypeCorrect == Spec => []CacheTypeOK
<1>1. CacheInv /\ raced \in BOOLEAN => CacheTypeOK
  <2> SUFFICES ASSUME CacheInv, raced \in BOOLEAN PROVE CacheTypeOK
    OBVIOUS
  <2>1. FrontTypeOK(EvictPcs) /\ ZsmTypeOK
    BY DEF CacheInv, FrontInv, ZsmInv
  <2>2. nr_threads_completed \in 0 .. Cardinality(Workers)
    BY CompletedBound DEF CacheInv, FrontInv
  <2>3. cacheTypeOK(EvictPcs)
    BY <2>1, <2>2 DEF FrontTypeOK, cacheTypeOK, OutsideGet
  <2> QED BY <2>3 DEF CacheInv, PolicyInv, PolicyTypeOK, CacheTypeOK
<1> QED BY <1>1, RacedType, CacheInductive, PTL

\* Under every interleaving of workers and evictors the LRU queue holds each of its
\* zones once, its hash table names the same zones, and all of them are written to
\* their end: do_evict never hands out a zone that is being written.
THEOREM LruIsFull == Spec => []LruHoldsFullZones
<1>1. CacheInv => LruHoldsFullZones
  <2> SUFFICES ASSUME CacheInv PROVE LruHoldsFullZones
    OBVIOUS
  <2>1. lru_queue \in Seq(Zones) /\ zone_to_lru_map \subseteq Zones
    BY DEF CacheInv, PolicyInv, PolicyTypeOK
  <2>2. Distinct(lru_queue) /\ \A z \in Zones : InQueue(lru_queue, z) <=> z \in zone_to_lru_map
    BY DEF CacheInv, PolicyInv, LruMatches
  <2>3. \A z \in ToSet(lru_queue) : z \in Zones /\ InQueue(lru_queue, z)
    BY <2>1 DEF ToSet, InQueue
  <2>4. \A z \in Zones : InQueue(lru_queue, z) => z \in ToSet(lru_queue)
    BY <2>1 DEF ToSet, InQueue
  <2>5. ToSet(lru_queue) = zone_to_lru_map
    BY <2>1, <2>2, <2>3, <2>4
  <2>6. \A z \in zone_to_lru_map : LastChunkWritten(z)
    BY DEF CacheInv, PolicyInv, HoldersFull, Written
  <2> QED BY <2>2, <2>5, <2>6 DEF LruHoldsFullZones
<1> QED BY <1>1, CacheInductive, PTL

\* However the threads interleave, a full zone is in the LRU queue, with one
\* evictor, or with the worker that filled it, and in one of these places only:
\* no zone is evicted twice and none is forgotten (cache.c:142-144, promotional.c).
THEOREM FullZonesFound == Spec => []FullZoneTracked
<1>1. CacheInv => FullZoneTracked
  <2> SUFFICES ASSUME CacheInv, "reset" \notin Faults, NEW z \in Zones, zone_state[z] = "FULL"
               PROVE  (IF z \in zone_to_lru_map THEN 1 ELSE 0)
                      + Cardinality({t \in Threads : victim[t] = z})
                      + Cardinality({t \in Threads : /\ pc[t] = "update_write"
                                                     /\ location[t] = Pair(z, MaxZoneChunks - 1)}) = 1
    BY DEF FullZoneTracked
  <2> DEFINE E == {t \in Threads : victim[t] = z}
  <2> DEFINE P == {t \in Threads : Pending(t, z)}
  <2>1. P = {t \in Threads : pc[t] = "update_write" /\ location[t] = Pair(z, MaxZoneChunks - 1)}
    BY DEF Pending
  <2>2. \/ z \in zone_to_lru_map
        \/ \E t \in Threads : victim[t] = z
        \/ \E t \in Threads : Pending(t, z)
    BY DEF CacheInv, PolicyInv, HoldersComplete, Written, LastChunkWritten
  <2>3. Cardinality({}) = 0 /\ \A t : Cardinality({t}) = 1
    BY FS_EmptySet, FS_Singleton
  <2> SUFFICES (IF z \in zone_to_lru_map THEN 1 ELSE 0) + Cardinality(E) + Cardinality(P) = 1
    BY <2>1
  <2>4. CASE z \in zone_to_lru_map
    <3>1. E = {} /\ P = {}
      BY <2>4 DEF CacheInv, PolicyInv, HoldersExclusive
    <3> HIDE DEF E, P
    <3> QED BY <2>3, <2>4, <3>1
  <2>5. CASE \E t \in Threads : victim[t] = z
    <3>1. PICK t \in Threads : victim[t] = z
      BY <2>5
    <3>2. E = {t} /\ P = {} /\ z \notin zone_to_lru_map
      BY <3>1 DEF CacheInv, PolicyInv, HoldersExclusive
    <3> HIDE DEF E, P
    <3>3. Cardinality(E) = 1 /\ Cardinality(P) = 0
      BY <2>3, <3>2
    <3> QED BY <3>2, <3>3
  <2>6. CASE \E t \in Threads : Pending(t, z)
    <3>1. PICK t \in Threads : Pending(t, z)
      BY <2>6
    <3>2. E = {} /\ P = {t} /\ z \notin zone_to_lru_map
      BY <3>1 DEF CacheInv, PolicyInv, HoldersExclusive
    <3> HIDE DEF E, P
    <3>3. Cardinality(E) = 0 /\ Cardinality(P) = 1
      BY <2>3, <3>2
    <3> QED BY <3>2, <3>3
  <2> QED BY <2>2, <2>4, <2>5, <2>6
<1> QED BY <1>1, CacheInductive, PTL

\* No wakeup is lost: a thread that sleeps on write_finished of an id
\* (cachemap.c:60) always has another thread that will insert the id or give it up.
THEOREM NoLostWakeup == Spec => []WaitersHaveFiller
<1>1. CacheInv => WaitersHaveFiller
  BY WaitersServed DEF CacheInv, FrontInv
<1> QED BY <1>1, CacheInductive, PTL

\* A chunk the manager counts as written holds the whole data of some id, whatever
\* writes fail or tear their chunk (cache.c:134-157).
THEOREM ChunksWhole == Spec => []CommittedChunksWhole
<1>1. CacheInv => CommittedChunksWhole
  BY CommittedWhole DEF CacheInv, FrontInv
<1> QED BY <1>1, CacheInductive, PTL

\* The program, evictors included, implements the zone state manager with the
\* callers it was made for: a pair goes back to where it came from, and only a zone
\* whose last chunk is written is reset (zsm_evict in zn_fg_evict).
THEOREM ProgramRespectsZsm == Spec => CallsRespectZsm
<1>1. Init => zsm_init
  BY DEF Init, zn_init_cache
<1>2. CacheInv /\ [Next]_vars => [ZsmNext]_zsmVars
  BY CallsZsm
<1> QED BY <1>1, <1>2, CacheInductive, PTL DEF Spec, CallsRespectZsm, ZsmSpec

\* What was proved of the manager holds in the whole program: no two threads write
\* to the same zone, no more zones are open than the device allows, a retry has a
\* writer to wait for, no zone is lost, and no write pointer moves back.
THEOREM ProgramKeepsZsm ==
  Spec => /\ [](GrantsExclusive /\ ActiveZoneBudget /\ RetryHasWriter /\ NoZoneLeaked)
          /\ OffsetsAdvance
BY ProgramRespectsZsm, ZsmExclusive, ZsmBudget, ZsmRetry, ZsmNoLeak, ZsmOffsetsAdvance, PTL
DEF CallsRespectZsm
------------------------------------------------------------------------------
(***************************************************************************)
(* The data.  "We can assume that no threads will create entries to the    *)
(* zone" (cache.c:41-42) is not so: a worker may be about to insert one,   *)
(* and a reader about to copy one, when the zone is cleared (the runs      *)
(* lateinsert and emptyresult).  The theorems say that these two races are *)
(* all that can go wrong: as long as an evictor never clears a zone with   *)
(* such a thread in flight, every number of workers and evictors keeps the *)
(* maps, the readers and the data consistent.                              *)
(***************************************************************************)
ClearsSettled == [][ClearSettled]_vars

\* Nothing leads into a victim that was cleared, and nobody reads it when it is reset.
VictimsSettled ==
  \A t \in Threads :
    /\ pc[t] \in {"ev_wait", "ev_reset"} => Unmapped(victim[t])
    /\ pc[t] = "ev_reset" => Readers(victim[t]) = {}

\* Victims stay settled under the steps of the front end.
LEMMA SettledKept ==
  ASSUME CacheInv, VictimsSettled, SettledStay,
         \A u \in Threads : pc'[u] \in {"ev_wait", "ev_reset"} =>
           pc[u] = pc'[u] /\ victim'[u] = victim[u]
  PROVE  VictimsSettled'
<1> SUFFICES ASSUME NEW u \in Threads, pc'[u] \in {"ev_wait", "ev_reset"}
             PROVE  Unmapped(victim[u])' /\ (pc'[u] = "ev_reset" => Readers(victim[u])' = {})
  BY DEF VictimsSettled
<1>1. pc[u] = pc'[u] /\ victim'[u] = victim[u] /\ victim[u] \in Zones
  BY DEF CacheInv, PolicyInv, VictimsMatch, Evicting
<1>2. PICK z \in Written : z = victim[u]
  BY <1>1 DEF CacheInv, PolicyInv, HoldersFull
<1>3. Unmapped(z)' /\ (pc'[u] = "ev_reset" => Readers(z)' = {})
  BY <1>1, <1>2 DEF VictimsSettled, SettledStay
<1> QED BY <1>1, <1>2, <1>3 DEF Unmapped, Readers

\* The steps of zn_fg_evict keep the data consistent.
LEMMA EvictData ==
  ASSUME CacheInv, DataInv, VictimsSettled, NEW t \in Threads, zn_fg_evict(t),
         ClearVictim(t) => InFlight(victim[t]) = {}
  PROVE  DataInv' /\ VictimsSettled'
<1>0. FrontInv(EvictPcs) /\ FrontTypeOK(EvictPcs) /\ ControlOK
  BY DEF CacheInv, FrontInv
<1>1. CASE CountFreeZones(t) \/ PickVictim(t) \/ EvictReturn(t)
  <2>1. /\ pc[t] \in {"evict", "ev_pick"} /\ pc'[t] \in {"ev_pick", "ev_clear", "get_zone", "bg_done"}
        /\ OthersStay(t) /\ data_id' = data_id /\ Committed' = Committed
        /\ UNCHANGED <<zone_map, data_map, active_readers, disk>>
    BY <1>0, <1>1 DEF CountFreeZones, PickVictim, EvictReturn, AfterEvict, Goto, OthersStay, FrontTypeOK,
      locals, mapVars, zsmVars, Committed, ChunkWritten, LastChunkWritten
  <2>2. /\ pc[t] \notin Reading \cup Copying /\ pc[t] # "find"
        /\ pc'[t] \notin Inserting \cup Reading \cup Copying \cup {"return_zone"}
    BY <2>1 DEF Reading, Copying, Inserting
  <2>3. DataInv' /\ SettledStay
    BY <1>0, <2>1, <2>2, DataQuiet
  <2>4. \A u \in Threads \ {t} : victim'[u] = victim[u]
    BY <1>1 DEF CountFreeZones, PickVictim, EvictReturn, CacheInv, PolicyInv, PolicyTypeOK
  <2> QED BY <2>1, <2>3, <2>4, SettledKept DEF OthersStay
<1>2. CASE ClearVictim(t)
  <2>1. /\ pc[t] = "ev_clear" /\ pc' = [pc EXCEPT ![t] = "ev_wait"]
        /\ zn_cachemap_clear_zone(victim[t]) /\ InFlight(victim[t]) = {}
        /\ UNCHANGED <<zsmVars, locals, disk, victim>>
    BY <1>2 DEF ClearVictim, Goto
  <2>2. PICK z \in Zones : z = victim[t]
    BY <2>1 DEF CacheInv, PolicyInv, VictimsMatch, Evicting
  <2>3. pc[t] \notin InGet /\ "ev_wait" \notin InGet
    BY <2>1 DEF InGet
  <2>4. DataInv' /\ SettledStay /\ Unmapped(z)'
    BY <1>0, <2>1, <2>2, <2>3, ClearData
  <2>5. ASSUME NEW u \in Threads, pc'[u] \in {"ev_wait", "ev_reset"}
        PROVE  Unmapped(victim[u])' /\ (pc'[u] = "ev_reset" => Readers(victim[u])' = {})
    <3>1. CASE u = t
      BY <1>0, <2>1, <2>2, <2>4, <3>1 DEF Unmapped, FrontTypeOK
    <3>2. CASE u # t
      <4>1. pc[u] = pc'[u] /\ victim[u] \in Zones
        BY <1>0, <2>1, <2>5, <3>2 DEF FrontTypeOK, CacheInv, PolicyInv, VictimsMatch, Evicting
      <4>2. PICK y \in Written : y = victim[u]
        BY <4>1 DEF CacheInv, PolicyInv, HoldersFull
      <4>3. Unmapped(y)' /\ (pc'[u] = "ev_reset" => Readers(y)' = {})
        BY <2>4, <2>5, <4>1, <4>2 DEF VictimsSettled, SettledStay
      <4> QED BY <2>1, <4>2, <4>3 DEF Unmapped, Readers
    <3> QED BY <3>1, <3>2
  <2> QED BY <2>4, <2>5 DEF VictimsSettled
<1>3. CASE WaitForReaders(t)
  <2>1. /\ pc[t] = "ev_wait" /\ pc'[t] = "ev_reset" /\ active_readers[victim[t]] <= 0
        /\ OthersStay(t) /\ data_id' = data_id /\ Committed' = Committed
        /\ UNCHANGED <<zone_map, data_map, active_readers, disk, victim>>
    BY <1>0, <1>3 DEF WaitForReaders, Goto, OthersStay, FrontTypeOK,
      locals, mapVars, evictVars, zsmVars, Committed, ChunkWritten, LastChunkWritten
  <2>2. /\ pc[t] \notin Reading \cup Copying /\ pc[t] # "find"
        /\ pc'[t] \notin Inserting \cup Reading \cup Copying \cup {"return_zone"}
    BY <2>1 DEF Reading, Copying, Inserting
  <2>3. DataInv' /\ SettledStay
    BY <1>0, <2>1, <2>2, DataQuiet
  <2>4. PICK z \in Written : z = victim[t]
    BY <2>1 DEF CacheInv, PolicyInv, VictimsMatch, Evicting, HoldersFull
  <2>5. Readers(z) = {}
    <3>1. z \in Zones /\ IsFiniteSet(Readers(z))
      BY <1>0, <2>4, DataTypes DEF Written
    <3>2. Cardinality(Readers(z)) <= 0 /\ Cardinality(Readers(z)) \in Nat
      BY <2>1, <2>4, <3>1, FS_CardinalityType DEF DataInv, ReadersBalanced
    <3>3. Cardinality(Readers(z)) = 0
      BY <3>2
    <3> QED BY <3>1, <3>3, FS_EmptySet
  <2>6. Unmapped(z)
    BY <2>1, <2>4 DEF VictimsSettled
  <2>7. Unmapped(z)' /\ Readers(z)' = {}
    BY <2>3, <2>5, <2>6 DEF SettledStay
  <2>8. ASSUME NEW u \in Threads, pc'[u] \in {"ev_wait", "ev_reset"}
        PROVE  Unmapped(victim[u])' /\ (pc'[u] = "ev_reset" => Readers(victim[u])' = {})
    <3>1. CASE u = t
      BY <2>1, <2>4, <2>7, <3>1 DEF Unmapped, Readers
    <3>2. CASE u # t
      <4>1. pc[u] = pc'[u] /\ victim[u] \in Zones
        BY <2>1, <2>8, <3>2 DEF OthersStay, CacheInv, PolicyInv, VictimsMatch, Evicting
      <4>2. PICK y \in Written : y = victim[u]
        BY <4>1 DEF CacheInv, PolicyInv, HoldersFull
      <4>3. Unmapped(y)' /\ (pc'[u] = "ev_reset" => Readers(y)' = {})
        BY <2>3, <2>8, <4>1, <4>2 DEF VictimsSettled, SettledStay
      <4> QED BY <2>1, <4>2, <4>3 DEF Unmapped, Readers
    <3> QED BY <3>1, <3>2
  <2> QED BY <2>3, <2>8 DEF VictimsSettled
<1>4. CASE ResetVictim(t)
  <2>1. /\ pc[t] = "ev_reset" /\ pc' = [pc EXCEPT ![t] = "ev_pick"]
        /\ ResetOnDevice(victim[t]) /\ victim' = [victim EXCEPT ![t] = -1]
        /\ UNCHANGED <<mapVars, locals>>
    BY <1>4 DEF ResetVictim, Goto
  <2>2. PICK z \in Written : z = victim[t]
    BY <2>1 DEF CacheInv, PolicyInv, VictimsMatch, Evicting, HoldersFull
  <2>3. Unmapped(z) /\ Readers(z) = {}
    BY <2>1, <2>2 DEF VictimsSettled
  <2>4. pc[t] \notin InGet /\ "ev_pick" \notin InGet
    BY <2>1 DEF InGet
  <2>5. DataInv' /\ \A y : /\ Unmapped(y) => Unmapped(y)'
                           /\ y \in Zones => Readers(y)' = Readers(y)
    BY <1>0, <2>1, <2>2, <2>3, <2>4, ResetData
  <2>6. ASSUME NEW u \in Threads, pc'[u] \in {"ev_wait", "ev_reset"}
        PROVE  Unmapped(victim[u])' /\ (pc'[u] = "ev_reset" => Readers(victim[u])' = {})
    <3>1. u # t /\ pc[u] = pc'[u] /\ victim'[u] = victim[u]
      BY <1>0, <2>1, <2>6 DEF FrontTypeOK, CacheInv, PolicyInv, PolicyTypeOK
    <3>2. PICK y \in Zones : y = victim[u]
      BY <2>6, <3>1 DEF CacheInv, PolicyInv, VictimsMatch, Evicting
    <3>3. Unmapped(y)' /\ (pc'[u] = "ev_reset" => Readers(y)' = {})
      BY <2>5, <2>6, <3>1, <3>2 DEF VictimsSettled
    <3> QED BY <3>1, <3>2, <3>3 DEF Unmapped, Readers
  <2> QED BY <2>5, <2>6 DEF VictimsSettled
<1> QED BY <1>1, <1>2, <1>3, <1>4 DEF zn_fg_evict

\* Every step of the program keeps the data consistent.
LEMMA ProgramData ==
  ASSUME CacheInv, DataInv, VictimsSettled, [Next]_vars,
         [ClearSettled]_vars
  PROVE  DataInv' /\ VictimsSettled'
<1>0. FrontTypeOK(EvictPcs) /\ ControlOK /\ ZsmInv /\ GrantsMatchLocations
  BY DEF CacheInv, FrontInv
<1>1. ASSUME NEW t \in Threads, UNCHANGED <<policyVars, evictVars>>,
             TaskStep(t) \/ GetStep(t) \/ evict_task(t) \/ Wakeup(t)
      PROVE  DataInv' /\ VictimsSettled'
  <2>1. DataInv' /\ SettledStay
    BY <1>0, <1>1, DataStep
  <2>2. /\ \A u \in Threads \ {t} : pc'[u] = pc[u]
        /\ pc'[t] \notin {"ev_wait", "ev_reset"} \/ pc'[t] = pc[t]
    BY <1>0, <1>1 DEF FrontTypeOK, TaskStep, TakeRequest, WorkloadDone, CountCompleted, GetStep,
      zn_cachemap_find, FindReturnLocation, FindReturnType, ReadChunk, HitDone, GetZone, WriteChunk,
      ReturnZone, MissDone, UndoZoneGet, UndoMap, Return, evict_task, CheckDone, CheckFreeZones,
      Wakeup, cacheVars, Goto
  <2>3. UNCHANGED victim
    BY <1>1 DEF evictVars
  <2> QED BY <2>1, <2>2, <2>3, SettledKept
<1>2. ASSUME NEW t \in Threads, UpdatePolicyRead(t) \/ UpdatePolicyWrite(t)
      PROVE  DataInv' /\ VictimsSettled'
  <2>1. /\ UNCHANGED <<zsmVars, mapVars, locals, disk, victim>>
        /\ Goto(t, "update_read", "release") \/ Goto(t, "update_write", "insert")
    BY <1>2 DEF UpdatePolicyRead, UpdatePolicyWrite, evictVars
  <2>2. DataInv' /\ SettledStay
    BY <1>0, <2>1, ReadData, UpdateWriteData
  <2> QED BY <1>0, <2>1, <2>2, SettledKept DEF Goto, FrontTypeOK
<1>3. ASSUME NEW t \in Threads, zn_fg_evict(t) PROVE DataInv' /\ VictimsSettled'
  <2>1. pc'[t] # pc[t]
    BY <1>0, <1>3 DEF zn_fg_evict, CountFreeZones, PickVictim, EvictReturn, AfterEvict, ClearVictim,
      WaitForReaders, ResetVictim, Goto, FrontTypeOK
  <2>2. ClearVictim(t) => InFlight(victim[t]) = {}
    BY <2>1 DEF vars, cacheVars, ClearSettled
  <2> QED BY <1>3, <2>2, EvictData
<1>4. CASE Terminated \/ UNCHANGED vars
  <2>1. /\ UNCHANGED <<zone_map, data_map, active_readers, pc, locals, disk, victim>>
        /\ Committed' = Committed
    BY <1>4 DEF Terminated, vars, mapVars, cacheVars, evictVars, zsmVars, Committed, ChunkWritten,
      LastChunkWritten
  <2> QED BY <2>1, DataSame, SettledKept
<1> QED BY <1>1, <1>2, <1>3, <1>4 DEF Next, RunStep, WakeupStep

\* The inductive invariant with the data, under that hypothesis.
LEMMA DataInductive == Spec /\ ClearsSettled => [](CacheInv /\ DataInv /\ VictimsSettled)
<1>1. Init => DataInv /\ VictimsSettled
  BY DataInit DEF Init, zn_init_cache, VictimsSettled
<1>2. CacheInv /\ DataInv /\ VictimsSettled /\ [Next]_vars /\ [ClearSettled]_vars => DataInv' /\ VictimsSettled'
  BY ProgramData
<1> QED BY <1>1, <1>2, CacheInductive, PTL DEF Spec, ClearsSettled

\* A hit returns the data that was asked for, the two maps agree with each other and
\* with the disk, and active_readers counts the readers (zn_cache_get, cachemap.c), for
\* every number of workers and evictors, unless an evictor clears a zone with a thread
\* in flight to it.
THEOREM DataIntegrity == Spec /\ ClearsSettled => [](ReadValid /\ MapsAgree /\ ReadersBalanced)
<1>1. CacheInv /\ DataInv => ReadValid /\ MapsAgree /\ ReadersBalanced
  BY DataAgree DEF CacheInv, FrontInv
<1> QED BY <1>1, DataInductive, PTL

\* The same without a hypothesis, of every behaviour up to the step at fault: until a
\* zone is cleared with a thread in flight to it, hits are right, the asserts of
\* zn_cachemap_clear_zone (cachemap.c:149-152) hold and reader counts are exact.
THEOREM DataUnlessRaced ==
  Spec => [](ReadValidUnlessRaced /\ MapsAgreeUnlessRaced /\ ReadersBalancedUnlessRaced)
<1> DEFINE DataI == DataInv /\ VictimsSettled
           Clean == raced = TRUE \/ DataI
<1>1. Init => Clean
  BY DataInit DEF Init, zn_init_cache, VictimsSettled
<1>2. CacheInv /\ raced \in BOOLEAN /\ Clean /\ [Next]_vars => Clean'
  <2> SUFFICES ASSUME CacheInv, raced \in BOOLEAN, Clean, [Next]_vars, raced' # TRUE PROVE DataI'
    OBVIOUS
  <2>1. raced = FALSE /\ [ClearSettled]_vars
    <3>1. raced # TRUE
      BY RacedStep
    <3>2. ASSUME NEW t \in Threads, ClearVictim(t) PROVE InFlight(victim[t]) = {}
      BY <3>2 DEF ClearVictim
    <3> QED BY <3>1, <3>2 DEF ClearSettled
  <2> QED BY <2>1, ProgramData
<1>3. CacheInv /\ Clean => ReadValidUnlessRaced /\ MapsAgreeUnlessRaced /\ ReadersBalancedUnlessRaced
  BY DataAgree DEF CacheInv, FrontInv, ReadValidUnlessRaced, MapsAgreeUnlessRaced, ReadersBalancedUnlessRaced
<1> QED BY <1>1, <1>2, <1>3, RacedType, CacheInductive, PTL DEF Spec

\* active_readers is the number of readers of a zone, on which the wait of zn_fg_evict
\* rests, under the same hypothesis.
THEOREM ReadersCounted == Spec /\ ClearsSettled => []ReadersBalanced
BY DataIntegrity, PTL

\* Under the same hypothesis, what the comment at cache.c:41-42 says is right: no
\* mapping is inserted into a zone between its clearing and its next use.
THEOREM NoLateInsert == Spec /\ ClearsSettled => NoEntryIntoEvictedZone
<1> DEFINE Good(id) == zone_map[id].type # "LOC" /\ zone_map'[id].type = "LOC" =>
                         /\ zone_map'[id].location.zone \notin ClearedVictims
                         /\ zone_state[zone_map'[id].location.zone] # "FREE"
<1>1. ASSUME CacheInv, DataInv, VictimsSettled, [Next]_vars, NEW id \in Ids PROVE Good(id)
  <2>0. FrontTypeOK(EvictPcs) /\ ControlOK /\ mapTypeOK
    BY <1>1 DEF CacheInv, FrontInv, FrontTypeOK
  <2>1. ASSUME NEW t \in Threads, MissDone(t) PROVE Good(id)
    <3>1. pc[t] \in Inserting /\ zn_cachemap_insert(data_id[t], location[t])
      BY <2>1 DEF MissDone, Inserting
    <3>2. zone_map'[id] = zone_map[id] \/ zone_map'[id].location = location[t]
      BY <2>0, <3>1 DEF zn_cachemap_insert, mapTypeOK, Entry
    <3>3. zone_state[location[t].zone] # "FREE"
      BY <1>1, <3>1 DEF DataInv, WritersStored, Committed
    <3>4. location[t].zone \notin ClearedVictims
      BY <1>1, <3>1 DEF VictimsSettled, Unmapped, ClearedVictims
    <3> QED BY <3>2, <3>3, <3>4
  <2>2. ASSUME NEW t \in Threads,
               (TaskStep(t) \/ GetStep(t) \/ evict_task(t) \/ Wakeup(t)) /\ ~MissDone(t)
        PROVE  zone_map'[id].type = "LOC" => zone_map[id].type = "LOC"
    <3>1. CASE zn_cachemap_find(t) \/ UndoMap(t)
      <4>1. \/ zone_map' = zone_map
            \/ zone_map' = [zone_map EXCEPT ![data_id[t]].type = "COND"]
            \/ zone_map' = [zone_map EXCEPT ![data_id[t]].type = "EMPTY"]
        BY <3>1 DEF zn_cachemap_find, FindHit, FindClaim, FindWait, UndoMap, zn_cachemap_fail
      <4> QED BY <2>0, <4>1 DEF mapTypeOK, zone_map_result
    <3>2. CASE ~(zn_cachemap_find(t) \/ UndoMap(t))
      BY <2>2, <3>2 DEF TaskStep, TakeRequest, WorkloadDone, CountCompleted, GetStep,
        FindReturnLocation, FindReturnType, ReadChunk, HitDone, ReleaseReader, GetZone, WriteChunk,
        ReturnZone, UndoZoneGet, evict_task, CheckDone, CheckFreeZones, Wakeup, SpuriousWakeup, mapVars
    <3> QED BY <3>1, <3>2
  <2>3. ASSUME NEW t \in Threads, UpdatePolicyRead(t) \/ UpdatePolicyWrite(t) \/ zn_fg_evict(t)
        PROVE  zone_map'[id].type = "LOC" => zone_map[id].type = "LOC"
    <3>1. CASE ClearVictim(t)
      <4>1. victim[t] \in Zones
        BY <1>1, <3>1 DEF ClearVictim, Goto, CacheInv, PolicyInv, VictimsMatch, Evicting
      <4>2. zone_map'[id].type \in {zone_map[id].type, "EMPTY"}
        BY <2>0, <3>1, <4>1, ClearZoneMap DEF ClearVictim
      <4> QED BY <4>2
    <3>2. CASE ~ClearVictim(t)
      BY <2>3, <3>2 DEF UpdatePolicyRead, UpdatePolicyWrite, zn_fg_evict, CountFreeZones, PickVictim,
        EvictReturn, WaitForReaders, ResetVictim, mapVars
    <3> QED BY <3>1, <3>2
  <2>4. CASE Terminated \/ UNCHANGED vars
    BY <2>4 DEF Terminated, vars, mapVars
  <2> QED BY <1>1, <2>1, <2>2, <2>3, <2>4 DEF Next, RunStep, WakeupStep
<1>2. CacheInv /\ DataInv /\ VictimsSettled /\ [Next]_vars =>
        [\A id \in Ids :
           zone_map[id].type # "LOC" /\ zone_map'[id].type = "LOC" =>
             LET z == zone_map'[id].location.zone IN
             z \notin ClearedVictims /\ zone_state[z] # "FREE"]_vars
  BY <1>1
<1> QED BY <1>2, DataInductive, PTL DEF Spec, NoEntryIntoEvictedZone

\* An entry that is being copied is neither missing nor empty, and neither is a copy.
CopiersFind ==
  \A t \in Threads :
    /\ pc[t] \in Copying => zone_map[data_id[t]].type \in {"LOC", "COND"}
    /\ result[t].type # "EMPTY"

\* The lookups and the copies themselves.
LEMMA FindCopiers ==
  ASSUME CacheInv, CopiersFind, NEW t \in Threads,
         zn_cachemap_find(t) \/ FindReturnLocation(t) \/ FindReturnType(t)
  PROVE  CopiersFind'
<1>0. FrontTypeOK(EvictPcs) /\ ControlOK /\ mapTypeOK
  BY DEF CacheInv, FrontInv, FrontTypeOK
<1>1. pc[t] \in InGet /\ data_id' = data_id
  BY DEF zn_cachemap_find, FindReturnLocation, FindReturnType, Goto, InGet, locals
<1>2. data_id[t] \in Ids /\ result[t] \in zone_map_result
  BY <1>0, <1>1, NullAssumption DEF ControlOK, FrontTypeOK, InGet, OutsideGet
<1>3. CASE zn_cachemap_find(t)
  <2>1. /\ pc[t] = "find" /\ result' = result
        /\ \A u \in Threads \ {t} : pc'[u] = pc[u]
    BY <1>0, <1>3 DEF zn_cachemap_find, locals, FrontTypeOK
  <2>2. CASE FindHit(data_id[t]) \/ (FindWait(t, data_id[t]) /\ UNCHANGED pc)
    <3>1. UNCHANGED zone_map /\ (zone_map[data_id[t]].type = "LOC" \/ UNCHANGED pc)
      BY <2>2 DEF FindHit, FindWait
    <3> QED BY <1>1, <2>1, <3>1 DEF CopiersFind
  <2>3. CASE FindClaim(data_id[t])
    <3>1. zone_map'[data_id[t]].type = "COND"
      BY <1>0, <1>2, <2>3 DEF FindClaim, mapTypeOK, zone_map_result
    <3>2. \A id \in Ids \ {data_id[t]} : zone_map'[id] = zone_map[id]
      BY <1>0, <2>3 DEF FindClaim, mapTypeOK
    <3>3. \A u \in Threads : pc'[u] \in Copying => data_id[u] \in Ids
      BY <1>0, <1>2, <2>1, NullAssumption DEF ControlOK, FrontTypeOK, InGet, OutsideGet, Copying
    <3> QED BY <1>1, <2>1, <3>1, <3>2, <3>3 DEF CopiersFind
  <2> QED BY <1>3, <2>2, <2>3 DEF zn_cachemap_find
<1>4. CASE FindReturnLocation(t) \/ FindReturnType(t)
  <2>1. /\ pc[t] \in Copying /\ zone_map' = zone_map
        /\ \A u \in Threads \ {t} : pc'[u] = pc[u] /\ result'[u] = result[u]
    BY <1>0, <1>4 DEF FindReturnLocation, FindReturnType, Goto, mapVars, FrontTypeOK, Copying
  <2>2. result'[t].type \in {result[t].type, zone_map[data_id[t]].type}
    BY <1>0, <1>2, <1>4 DEF FindReturnLocation, FindReturnType, FrontTypeOK, zone_map_result
  <2> QED BY <1>1, <2>1, <2>2 DEF CopiersFind
<1> QED BY <1>3, <1>4

\* No step takes the entry away from a thread that copies it.
LEMMA CopiersStep ==
  ASSUME CacheInv, DataInv, CopiersFind, [Next]_vars,
         [ClearSettled]_vars
  PROVE  CopiersFind'
<1>0. FrontTypeOK(EvictPcs) /\ ControlOK
  BY DEF CacheInv, FrontInv
<1>1. ASSUME NEW t \in Threads, UNCHANGED zone_map,
             \A u \in Threads \ {t} : pc'[u] = pc[u] /\ data_id'[u] = data_id[u] /\ result'[u] = result[u],
             pc'[t] \notin Copying, result'[t].type # "EMPTY"
      PROVE  CopiersFind'
  BY <1>1 DEF CopiersFind
<1>2. ASSUME NEW t \in Threads,
             \/ TaskStep(t) \/ evict_task(t) \/ ReadChunk(t) \/ GetZone(t) \/ WriteChunk(t)
             \/ ReturnZone(t) \/ UndoZoneGet(t) \/ UpdatePolicyRead(t) \/ UpdatePolicyWrite(t)
             \/ CountFreeZones(t) \/ PickVictim(t) \/ EvictReturn(t) \/ WaitForReaders(t) \/ ResetVictim(t)
      PROVE  CopiersFind'
  <2>1. UNCHANGED <<zone_map, result>> /\ \A u \in Threads \ {t} : data_id'[u] = data_id[u]
    BY <1>0, <1>2 DEF TaskStep, TakeRequest, WorkloadDone, CountCompleted, evict_task, CheckDone,
      CheckFreeZones, ReadChunk, GetZone, WriteChunk, ReturnZone, UndoZoneGet, UpdatePolicyRead,
      UpdatePolicyWrite, CountFreeZones, PickVictim, EvictReturn, WaitForReaders, ResetVictim,
      mapVars, locals, FrontTypeOK
  <2>2. \E to : to \notin Copying /\ pc' = [pc EXCEPT ![t] = to]
    BY <1>2 DEF TaskStep, TakeRequest, WorkloadDone, CountCompleted, evict_task, CheckDone,
      CheckFreeZones, ReadChunk, GetZone, WriteChunk, ReturnZone, UndoZoneGet, UpdatePolicyRead,
      UpdatePolicyWrite, CountFreeZones, PickVictim, EvictReturn, AfterEvict, WaitForReaders,
      ResetVictim, Goto, Copying
  <2>3. pc'[t] \notin Copying /\ \A u \in Threads \ {t} : pc'[u] = pc[u]
    BY <1>0, <2>2 DEF FrontTypeOK
  <2>4. result'[t].type # "EMPTY"
    BY <2>1 DEF CopiersFind
  <2> QED BY <1>1, <2>1, <2>3, <2>4
<1>3. ASSUME NEW t \in Threads, HitDone(t) PROVE CopiersFind'
  <2>1. /\ UNCHANGED zone_map /\ pc'[t] \notin Copying /\ result'[t].type # "EMPTY"
        /\ \A u \in Threads \ {t} : pc'[u] = pc[u] /\ data_id'[u] = data_id[u] /\ result'[u] = result[u]
    BY <1>0, <1>3 DEF HitDone, ReleaseReader, Return, NoEntry, Entry, FrontTypeOK, Copying
  <2> QED BY <1>1, <2>1
<1>4. ASSUME NEW t \in Threads, MissDone(t) \/ UndoMap(t) PROVE CopiersFind'
  <2>1. PICK to \in {"next", "failed"} : Return(t, to) /\ pc[t] \in {"insert", "undo_map"}
    BY <1>4 DEF MissDone, UndoMap
  <2>2. data_id[t] \in Ids
    BY <1>0, <2>1, NullAssumption DEF ControlOK, FrontTypeOK, InGet, OutsideGet
  <2>3. /\ \A i \in Ids \ {data_id[t]} : zone_map'[i] = zone_map[i]
        /\ zone_map'[data_id[t]].type \in {"LOC", "EMPTY"}
    BY <1>0, <1>4, <2>2 DEF MissDone, UndoMap, zn_cachemap_insert, zn_cachemap_fail, FrontTypeOK,
      mapTypeOK, zone_map_result, Entry
  <2>4. \A u \in Threads \ {t} : pc[u] \in Copying => data_id[u] \in Ids \ {data_id[t]}
    BY <1>0, <2>1, <2>3, FetchEnds
  <2>5. /\ pc'[t] \notin Copying /\ result'[t].type # "EMPTY"
        /\ \A u \in Threads \ {t} : pc'[u] = pc[u] /\ data_id'[u] = data_id[u] /\ result'[u] = result[u]
    BY <1>0, <2>1 DEF Return, NoEntry, Entry, FrontTypeOK, Copying
  <2> QED BY <2>3, <2>4, <2>5 DEF CopiersFind
<1>5. ASSUME NEW t \in Threads, ClearVictim(t) PROVE CopiersFind'
  <2>1. /\ pc[t] = "ev_clear" /\ pc' = [pc EXCEPT ![t] = "ev_wait"] /\ UNCHANGED <<data_id, result>>
        /\ zn_cachemap_clear_zone(victim[t])
    BY <1>5 DEF ClearVictim, Goto, locals
  <2>2. InFlight(victim[t]) = {}
    BY <1>0, <1>5, <2>1 DEF vars, cacheVars, FrontTypeOK, ClearSettled
  <2>3. PICK z \in Zones : z = victim[t]
    BY <2>1 DEF CacheInv, PolicyInv, VictimsMatch, Evicting
  <2>4. \A id \in Ids : IF zone_map[id].type = "LOC" /\ zone_map[id].location.zone = z
                        THEN zone_map'[id].type = "EMPTY"
                        ELSE zone_map'[id] = zone_map[id]
    BY <1>0, <2>1, <2>3, ClearEntries
  <2>5. \A u \in Threads : pc'[u] \in Copying => pc[u] \in Copying /\ data_id[u] \in Ids
    BY <1>0, <2>1, NullAssumption DEF ControlOK, FrontTypeOK, InGet, OutsideGet, Copying
  <2> QED BY <2>1, <2>2, <2>3, <2>4, <2>5 DEF CopiersFind, InFlight
<1>6. ASSUME NEW t \in Threads, zn_cachemap_find(t) \/ FindReturnLocation(t) \/ FindReturnType(t)
      PROVE  CopiersFind'
  BY <1>6, FindCopiers
<1>7. CASE (\E t \in Threads : WakeupStep(t)) \/ Terminated \/ UNCHANGED vars
  <2>1. UNCHANGED <<zone_map, pc, data_id, result>>
    BY <1>7 DEF WakeupStep, Wakeup, SpuriousWakeup, Terminated, vars, mapVars, cacheVars, locals
  <2> QED BY <2>1 DEF CopiersFind
<1> QED BY <1>2, <1>3, <1>4, <1>5, <1>6, <1>7 DEF Next, RunStep, GetStep, zn_fg_evict

\* Under the same hypothesis zn_cachemap_find never returns an empty entry: the assert
\* at cache.c:65 fails in no other way than the one the run emptyresult shows.
THEOREM NoEmptyResult == Spec /\ ClearsSettled => []ResultNotEmpty
<1>1. Init => CopiersFind
  BY DEF Init, zn_init_cache, CopiersFind, NoEntry, Entry, Copying
<1>2. CacheInv /\ DataInv /\ CopiersFind /\ [Next]_vars
      /\ [ClearSettled]_vars => CopiersFind'
  BY CopiersStep
<1>3. CopiersFind => ResultNotEmpty
  BY DEF CopiersFind, ResultNotEmpty
<1> QED BY <1>1, <1>2, <1>3, DataInductive, PTL DEF Spec, ClearsSettled
------------------------------------------------------------------------------
(***************************************************************************)
(* The number of zones to evict, EVICT_LOW_THRESH_ZONES - free_zones in    *)
(* uint32_t (cache.c:27).  The free zones are counted a second time, after *)
(* the check that led to the eviction; zones freed in between by another   *)
(* evictor are what can make the subtraction wrap around.                  *)
(***************************************************************************)
CountsFresh == [][\A t \in Threads : ResetVictim(t) => \A u \in Threads : pc[u] # "evict"]_vars

BudgetInv ==
  \A t \in Threads :
    /\ nr_evict[t] <= EVICT_LOW_THRESH_ZONES
    /\ pc[t] = "evict" => Len(free) <= EVICT_LOW_THRESH_ZONES

\* A number of the range of uint32_t is not changed by the modulus.
LEMMA UintSmall ==
  ASSUME NEW a \in 0 .. EVICT_LOW_THRESH_ZONES
  PROVE  a % UintMod = a
<1>1. UintMod \in Nat \ {0} /\ a \in 0 .. UintMod - 1
  BY UintModAssumption, NumZonesAssumption, ThresholdAssumption, WorkloadMaxAssumption
<1> QED BY <1>1

\* The front end takes free zones and gives none back.
LEMMA FreeShrinks ==
  ASSUME CacheInv, NEW t \in Threads, TaskStep(t) \/ GetStep(t) \/ evict_task(t) \/ Wakeup(t)
  PROVE  Len(free') <= Len(free) /\ Len(free) \in Nat
<1>1. free \in Seq(Zones) /\ Len(free) \in Nat
  BY DEF CacheInv, FrontInv, ZsmInv, ZsmTypeOK
<1>2. CASE zsm_get_active_zone_success(t) \/ zsm_get_active_zone_error(t)
  <2>1. free' = free \/ (free # <<>> /\ free' = Tail(free))
    BY <1>2 DEF zsm_get_active_zone_success, zsm_get_active_zone_error, TakeActiveZone, OpenFreeZone,
      CanOpen
  <2>2. free # <<>> => Len(Tail(free)) = Len(free) - 1
    BY <1>1, PopQueue
  <2> QED BY <1>1, <2>1, <2>2
<1>3. CASE ~(zsm_get_active_zone_success(t) \/ zsm_get_active_zone_error(t))
  <2>1. free' = free
    BY <1>3 DEF TaskStep, TakeRequest, WorkloadDone, CountCompleted, GetStep, zn_cachemap_find,
      FindReturnLocation, FindReturnType, ReadChunk, HitDone, GetZone, WriteChunk, ReturnZone,
      zsm_return_active_zone, MissDone, UndoZoneGet, zsm_failed_to_write, UndoMap, evict_task,
      CheckDone, CheckFreeZones, Wakeup, zsmVars
  <2> QED BY <1>1, <2>1
<1> QED BY <1>2, <1>3

\* Every step keeps the budget of every eviction under the low-water mark.
LEMMA BudgetStep ==
  ASSUME EVICT_HIGH_THRESH_ZONES <= EVICT_LOW_THRESH_ZONES, CacheInv, BudgetInv, [Next]_vars,
         [\A t \in Threads : ResetVictim(t) => \A u \in Threads : pc[u] # "evict"]_vars
  PROVE  BudgetInv'
<1>0. /\ FrontTypeOK(EvictPcs) /\ nr_evict \in [Threads -> 0 .. UintMod - 1] /\ UintMod \in Nat
      /\ Len(free) \in Nat /\ EVICT_LOW_THRESH_ZONES \in Nat /\ EVICT_HIGH_THRESH_ZONES \in Nat
  BY UintModAssumption, ThresholdAssumption
  DEF CacheInv, FrontInv, ZsmInv, ZsmTypeOK, PolicyInv, PolicyTypeOK
<1>1. ASSUME NEW t \in Threads, UNCHANGED evictVars,
             TaskStep(t) \/ GetStep(t) \/ evict_task(t) \/ Wakeup(t)
      PROVE  BudgetInv'
  <2>1. Len(free') <= Len(free) /\ Len(free') \in Nat
    <3>1. free' \in Seq(Zones)
      BY <1>1, CacheInvStep DEF CacheInv, FrontInv, ZsmInv, ZsmTypeOK
    <3> QED BY <1>1, <3>1, FreeShrinks
  <2>2. \A u \in Threads \ {t} : pc'[u] = pc[u]
    BY <1>0, <1>1 DEF FrontTypeOK, TaskStep, TakeRequest, WorkloadDone, CountCompleted, GetStep,
      zn_cachemap_find, FindReturnLocation, FindReturnType, ReadChunk, HitDone, GetZone, WriteChunk,
      ReturnZone, MissDone, UndoZoneGet, UndoMap, Return, evict_task, CheckDone, CheckFreeZones,
      Wakeup, cacheVars, Goto
  <2>3. CASE GetZone(t)
    <3>1. pc'[t] = "evict" => EvictNeeded
      BY <1>0, <2>3 DEF GetZone, Goto, FrontTypeOK
    <3>2. EvictNeeded => Len(free) = 0
      BY DEF EvictNeeded
    <3> QED BY <1>0, <1>1, <2>1, <2>2, <3>1, <3>2 DEF BudgetInv, evictVars
  <2>4. CASE CheckFreeZones(t)
    <3>1. pc'[t] = "evict" => ~(Len(free) > EVICT_HIGH_THRESH_ZONES)
      BY <1>0, <2>4 DEF CheckFreeZones, Goto, FrontTypeOK, zsm_get_num_free_zones
    <3> QED BY <1>0, <1>1, <2>1, <2>2, <3>1 DEF BudgetInv, evictVars
  <2>5. CASE ~GetZone(t) /\ ~CheckFreeZones(t)
    <3>1. pc'[t] # "evict" \/ pc'[t] = pc[t]
      BY <1>0, <1>1, <2>5 DEF FrontTypeOK, TaskStep, TakeRequest, WorkloadDone, CountCompleted, GetStep,
        zn_cachemap_find, FindReturnLocation, FindReturnType, ReadChunk, HitDone, WriteChunk,
        ReturnZone, MissDone, UndoZoneGet, UndoMap, Return, evict_task, CheckDone,
        Wakeup, cacheVars, Goto
    <3> QED BY <1>0, <1>1, <2>1, <2>2, <3>1 DEF BudgetInv, evictVars
  <2> QED BY <2>3, <2>4, <2>5
<1>2. ASSUME NEW t \in Threads, CountFreeZones(t) PROVE BudgetInv'
  <2>1. /\ pc[t] = "evict" /\ pc' = [pc EXCEPT ![t] = "ev_pick"] /\ free' = free
        /\ nr_evict' = [nr_evict EXCEPT ![t] = (EVICT_LOW_THRESH_ZONES - Len(free)) % UintMod]
    BY <1>2 DEF CountFreeZones, Goto, zsm_get_num_free_zones, zsmVars
  <2>2. EVICT_LOW_THRESH_ZONES - Len(free) \in 0 .. EVICT_LOW_THRESH_ZONES
    BY <1>0, <2>1 DEF BudgetInv
  <2>3. (EVICT_LOW_THRESH_ZONES - Len(free)) % UintMod = EVICT_LOW_THRESH_ZONES - Len(free)
    BY <2>2, UintSmall
  <2>4. nr_evict'[t] = EVICT_LOW_THRESH_ZONES - Len(free) /\ nr_evict'[t] <= EVICT_LOW_THRESH_ZONES
    BY <1>0, <2>1, <2>2, <2>3
  <2>5. \A u \in Threads \ {t} : nr_evict'[u] = nr_evict[u]
    BY <1>0, <2>1
  <2> QED BY <1>0, <2>1, <2>4, <2>5 DEF BudgetInv, FrontTypeOK
<1>3. ASSUME NEW t \in Threads,
             \/ PickVictim(t) \/ EvictReturn(t) \/ ClearVictim(t) \/ WaitForReaders(t)
             \/ UpdatePolicyRead(t) \/ UpdatePolicyWrite(t)
      PROVE  BudgetInv'
  <2>1. /\ free' = free /\ pc'[t] # "evict" /\ \A u \in Threads \ {t} : pc'[u] = pc[u]
    BY <1>0, <1>3 DEF PickVictim, EvictReturn, AfterEvict, ClearVictim, WaitForReaders,
      UpdatePolicyRead, UpdatePolicyWrite, Goto, FrontTypeOK, zsmVars
  <2>2. \A u \in Threads : nr_evict'[u] \in {nr_evict[u], nr_evict[u] - 1, 0}
    BY <1>0, <1>3 DEF PickVictim, EvictReturn, ClearVictim, WaitForReaders,
      UpdatePolicyRead, UpdatePolicyWrite, evictVars
  <2>3. ASSUME NEW u \in Threads PROVE nr_evict'[u] <= EVICT_LOW_THRESH_ZONES
    <3>1. nr_evict[u] \in Nat /\ nr_evict[u] <= EVICT_LOW_THRESH_ZONES
      BY <1>0 DEF BudgetInv
    <3> QED BY <1>0, <2>2, <3>1
  <2> QED BY <2>1, <2>3 DEF BudgetInv
<1>4. ASSUME NEW t \in Threads, ResetVictim(t) PROVE BudgetInv'
  <2>1. pc[t] = "ev_reset" /\ pc' = [pc EXCEPT ![t] = "ev_pick"] /\ nr_evict' = nr_evict
    BY <1>4 DEF ResetVictim, Goto
  <2>2. \A u \in Threads : pc[u] # "evict"
    BY <1>0, <1>4, <2>1 DEF vars, cacheVars, FrontTypeOK
  <2> QED BY <1>0, <2>1, <2>2 DEF BudgetInv, FrontTypeOK
<1>5. CASE Terminated \/ UNCHANGED vars
  BY <1>5 DEF Terminated, vars, zsmVars, cacheVars, evictVars, BudgetInv
<1> QED BY <1>1, <1>2, <1>3, <1>4, <1>5 DEF Next, RunStep, WakeupStep, zn_fg_evict

\* As long as no zone is freed between an evictor's check and its second count of the
\* free zones, an eviction never asks for more than EVICT_LOW_THRESH_ZONES zones: the
\* subtraction at cache.c:27 does not wrap around.
THEOREM BudgetHolds ==
  ASSUME EVICT_HIGH_THRESH_ZONES <= EVICT_LOW_THRESH_ZONES
  PROVE  Spec /\ CountsFresh => []EvictBudget
<1>1. Init => BudgetInv
  BY ThresholdAssumption, WorkersAssumption DEF Init, zn_init_cache, BudgetInv
<1>2. CacheInv /\ BudgetInv /\ [Next]_vars
      /\ [\A t \in Threads : ResetVictim(t) => \A u \in Threads : pc[u] # "evict"]_vars => BudgetInv'
  BY BudgetStep
<1>3. BudgetInv => EvictBudget
  BY DEF BudgetInv, EvictBudget
<1> QED BY <1>1, <1>2, <1>3, CacheInductive, PTL DEF Spec, CountsFresh
------------------------------------------------------------------------------
(***************************************************************************)
(* Single flight.  As long as nothing is evicted, the data of an id is     *)
(* fetched and stored once, however many workers ask for it.               *)
(***************************************************************************)
NothingCleared == [][\A t \in Threads : ~ClearVictim(t)]_vars

\* Points between the write of the data of an id and the end of its insertion.
Storing == {"return_zone", "update_write", "insert"}

StoredIds == {id \in Ids : \E z \in Zones, c \in Chunks : disk[z][c] = id}

\* A chunk that holds data is committed or about to be; an id whose data is stored is
\* mapped or about to be; and the misses count these ids.
FetchInv ==
  /\ \A t \in Threads : pc[t] \notin {"ev_wait", "ev_reset"}
  /\ \A p \in zn_pair : Disk(p) \in Ids =>
       p \in Committed \/ \E u \in Threads : pc[u] = "return_zone" /\ location[u] = p
  /\ \A id \in StoredIds :
       zone_map[id].type = "LOC" \/ \E u \in Threads : data_id[u] = id /\ pc[u] \in Storing
  /\ IsFiniteSet(StoredIds)
  /\ ratio.misses = Cardinality(StoredIds)

\* What is stored, by chunks.
LEMMA StoredByPair == StoredIds = {id \in Ids : \E p \in zn_pair : Disk(p) = id}
<1>1. \A p \in zn_pair : p.zone \in Zones /\ p.chunk_offset \in Chunks
  BY NoPairFacts
<1>2. \A z \in Zones, c \in Chunks : Pair(z, c) \in zn_pair /\ Disk(Pair(z, c)) = disk[z][c]
  BY NoPairFacts DEF Disk, Pair
<1> QED BY <1>1, <1>2 DEF StoredIds, Disk

\* A step that stores nothing and takes no mapping away.
LEMMA FetchKept ==
  ASSUME FetchInv, UNCHANGED disk, ratio'.misses = ratio.misses, Committed \subseteq Committed',
         \A u \in Threads : pc'[u] \notin {"ev_wait", "ev_reset"},
         \A u \in Threads : pc[u] = "return_zone" =>
           location[u] \in Committed' \/ (pc'[u] = "return_zone" /\ location'[u] = location[u]),
         \A id \in Ids : zone_map[id].type = "LOC" => zone_map'[id].type = "LOC",
         \A u \in Threads : pc[u] \in Storing =>
           zone_map'[data_id[u]].type = "LOC" \/ (pc'[u] \in Storing /\ data_id'[u] = data_id[u])
  PROVE  FetchInv'
<1>1. StoredIds' = StoredIds
  BY DEF StoredIds
<1>2. \A p \in zn_pair : Disk(p)' = Disk(p)
  BY DEF Disk
<1>3. \A p \in zn_pair : Disk(p)' \in Ids =>
        p \in Committed' \/ \E u \in Threads : pc'[u] = "return_zone" /\ location'[u] = p
  BY <1>2 DEF FetchInv
<1>4. \A id \in StoredIds :
        zone_map'[id].type = "LOC" \/ \E u \in Threads : data_id'[u] = id /\ pc'[u] \in Storing
  BY DEF FetchInv, StoredIds
<1> QED BY <1>1, <1>3, <1>4 DEF FetchInv

\* The write: the id was not stored, and the chunk held no data.
LEMMA WriteFetch ==
  ASSUME CacheInv, DataInv, FetchInv, NEW t \in Threads, WriteChunk(t)
  PROVE  FetchInv'
<1>0. FrontTypeOK(EvictPcs) /\ ControlOK /\ ZsmInv /\ GrantsMatchLocations
  BY DEF CacheInv, FrontInv
<1>1. pc[t] = "write"
  BY DEF WriteChunk, Goto
<1>2. grant[t] # NoPair /\ grant[t] = location[t]
  BY <1>0, <1>1 DEF GrantsMatchLocations, HoldsZone
<1>3. location[t] \notin Committed /\ location[t] \in zn_pair
  BY <1>0, <1>2, GrantedZone, GrantNotCommitted
<1>4. /\ data_id[t] \in Ids /\ zone_map[data_id[t]].type = "COND"
      /\ \A u \in Threads \ {t} : data_id[u] = data_id[t] => pc[u] \in NotFilling
  BY <1>0, <1>1, SoleFiller DEF InGet, NotFilling, Copying
<1>5. /\ UNCHANGED <<zsmVars, mapVars, locals>>
      /\ \E to \in {"return_zone", "undo_zone"} : pc' = [pc EXCEPT ![t] = to]
      /\ \A p \in zn_pair : p # location[t] => Disk(p)' = Disk(p)
      /\ pc'[t] = "return_zone" =>
           disk'[location[t].zone][location[t].chunk_offset] = data_id[t]
  BY <1>0, <1>3, WriteDisk DEF Disk
<1>6. /\ Committed' = Committed /\ UNCHANGED <<zone_map, data_id, location>>
      /\ \A u \in Threads \ {t} : pc'[u] = pc[u]
      /\ pc'[t] \in {"return_zone", "undo_zone"}
  BY <1>0, <1>5 DEF zsmVars, mapVars, locals, Committed, ChunkWritten, LastChunkWritten, FrontTypeOK
<1>7. Disk(location[t]) \notin Ids
  <2>1. ASSUME NEW u \in Threads, pc[u] = "return_zone", location[u] = location[t] PROVE FALSE
    <3>1. u # t /\ grant[u] # NoPair /\ grant[u] = location[u]
      BY <1>0, <1>1, <2>1 DEF GrantsMatchLocations, HoldsZone
    <3> QED BY <1>0, <1>2, <2>1, <3>1, GrantedZone
  <2> QED BY <1>3, <2>1 DEF FetchInv
<1>8. data_id[t] \notin StoredIds
  BY <1>1, <1>4 DEF FetchInv, Storing, NotFilling
<1>9. PICK v : Disk(location[t])' = v /\ \/ v \notin Ids /\ ratio' = ratio /\ pc'[t] = "undo_zone"
                                         \/ v = data_id[t] /\ pc'[t] = "return_zone"
                                            /\ ratio' = [ratio EXCEPT !.misses = @ + 1]
  <2>1. PICK succeeds \in BOOLEAN :
          /\ Goto(t, "write", IF succeeds THEN "return_zone" ELSE "undo_zone")
          /\ zn_write_out(location[t], data_id[t], succeeds)
          /\ ratio' = IF succeeds THEN [ratio EXCEPT !.misses = @ + 1] ELSE ratio
    BY DEF WriteChunk
  <2>2. CASE succeeds
    <3>1. pc'[t] = "return_zone"
      BY <1>0, <2>1, <2>2 DEF Goto, FrontTypeOK
    <3> QED BY <1>5, <1>6, <2>1, <2>2, <3>1 DEF Disk
  <2>3. CASE ~succeeds
    <3>1. pc'[t] = "undo_zone" /\ ratio' = ratio
      BY <1>0, <2>1, <2>3 DEF Goto, FrontTypeOK
    <3>2. disk' = disk \/ disk' = [disk EXCEPT ![location[t].zone][location[t].chunk_offset] = Torn]
      BY <2>1, <2>3 DEF zn_write_out
    <3>3. location[t].zone \in Zones /\ location[t].chunk_offset \in Chunks
      BY <1>3, NoPairFacts
    <3>4. disk' # disk => disk'[location[t].zone][location[t].chunk_offset] = Torn
      BY <1>0, <3>2, <3>3 DEF FrontTypeOK
    <3>5. disk'[location[t].zone][location[t].chunk_offset] \notin Ids
      BY <1>7, <3>2, <3>4, ContentsAssumption DEF Disk
    <3> QED BY <1>6, <3>1, <3>5 DEF Disk
  <2> QED BY <2>2, <2>3
<1>10. \A p \in zn_pair : p = location[t] => Disk(p)' = v
  BY <1>6, <1>9 DEF Disk
<1>11. StoredIds' = StoredIds \cup (IF v \in Ids THEN {v} ELSE {})
  <2>1. StoredIds = {id \in Ids : \E p \in zn_pair : Disk(p) = id}
    BY StoredByPair
  <2>2. StoredIds' = {id \in Ids : \E p \in zn_pair : Disk(p)' = id}
    <3>1. (StoredIds = {id \in Ids : \E p \in zn_pair : Disk(p) = id})'
      BY StoredByPair, PTL
    <3> QED BY <3>1
  <2> QED BY <1>3, <1>5, <1>7, <1>10, <2>1, <2>2
<1>12. IsFiniteSet(StoredIds') /\ ratio'.misses = Cardinality(StoredIds')
  <2>1. CASE v \in Ids
    <3>1. v = data_id[t] /\ ratio' = [ratio EXCEPT !.misses = @ + 1] /\ StoredIds' = StoredIds \cup {v}
      BY <1>9, <1>11, <2>1
    <3>2. IsFiniteSet(StoredIds') /\ Cardinality(StoredIds') = Cardinality(StoredIds) + 1
      BY <1>8, <3>1, FS_AddElement DEF FetchInv
    <3>3. ratio'.misses = ratio.misses + 1
      BY <1>0, <3>1 DEF FrontTypeOK
    <3> QED BY <3>2, <3>3 DEF FetchInv
  <2>2. CASE v \notin Ids
    BY <1>4, <1>9, <1>11, <2>2 DEF FetchInv
  <2> QED BY <2>1, <2>2
<1>13. ASSUME NEW p \in zn_pair, Disk(p)' \in Ids
       PROVE  p \in Committed' \/ \E u \in Threads : pc'[u] = "return_zone" /\ location'[u] = p
  <2>1. CASE p = location[t]
    BY <1>6, <1>9, <1>10, <1>13, <2>1
  <2>2. CASE p # location[t]
    BY <1>1, <1>5, <1>6, <1>13, <2>2 DEF FetchInv
  <2> QED BY <2>1, <2>2
<1>14. ASSUME NEW id \in StoredIds'
       PROVE  zone_map'[id].type = "LOC" \/ \E u \in Threads : data_id'[u] = id /\ pc'[u] \in Storing
  <2>1. CASE id \in StoredIds
    BY <1>1, <1>6, <2>1 DEF FetchInv, Storing
  <2>2. CASE id \notin StoredIds
    BY <1>4, <1>6, <1>9, <1>11, <1>14, <2>2 DEF Storing
  <2> QED BY <2>1, <2>2
<1>15. \A u \in Threads : pc'[u] \notin {"ev_wait", "ev_reset"}
  BY <1>6 DEF FetchInv
<1> QED BY <1>12, <1>13, <1>14, <1>15 DEF FetchInv

\* Every step of a program that clears no zone.
LEMMA FetchStep ==
  ASSUME CacheInv, DataInv, FetchInv, [Next]_vars, [\A t \in Threads : ~ClearVictim(t)]_vars
  PROVE  FetchInv'
<1>0. FrontTypeOK(EvictPcs) /\ ControlOK /\ ZsmInv /\ GrantsMatchLocations
  BY DEF CacheInv, FrontInv
<1>1. UNCHANGED zsmVars => Committed' = Committed
  BY DEF zsmVars, Committed, ChunkWritten, LastChunkWritten
\* Steps of a thread that has stored nothing yet, or not any more.
<1>2. ASSUME NEW t \in Threads, pc[t] \notin Storing, pc'[t] \notin {"ev_wait", "ev_reset"},
             \A u \in Threads \ {t} : pc'[u] = pc[u] /\ data_id'[u] = data_id[u] /\ location'[u] = location[u],
             UNCHANGED disk, ratio'.misses = ratio.misses, Committed' = Committed,
             \A id \in Ids : zone_map[id].type = "LOC" => zone_map'[id].type = "LOC"
      PROVE  FetchInv'
  <2>1. \A u \in Threads : pc'[u] \notin {"ev_wait", "ev_reset"}
    BY <1>2 DEF FetchInv
  <2>2. \A u \in Threads : pc[u] \in Storing => pc'[u] \in Storing /\ data_id'[u] = data_id[u]
    BY <1>2
  <2>3. \A u \in Threads : pc[u] = "return_zone" => pc'[u] = "return_zone" /\ location'[u] = location[u]
    BY <1>2 DEF Storing
  <2> QED BY <1>2, <2>1, <2>2, <2>3, FetchKept
<1>3. ASSUME NEW t \in Threads,
             TaskStep(t) \/ evict_task(t) \/ CountFreeZones(t) \/ PickVictim(t) \/ EvictReturn(t)
             \/ FindReturnLocation(t) \/ FindReturnType(t) \/ ReadChunk(t) \/ UpdatePolicyRead(t)
      PROVE  FetchInv'
  <2>1. /\ pc[t] \notin Storing /\ \E to : pc' = [pc EXCEPT ![t] = to] /\ to \notin {"ev_wait", "ev_reset"}
        /\ \A u \in Threads \ {t} : data_id'[u] = data_id[u]
        /\ UNCHANGED <<zsmVars, zone_map, location, disk, ratio>>
    BY <1>0, <1>3 DEF TaskStep, TakeRequest, WorkloadDone, CountCompleted, evict_task, CheckDone,
      CheckFreeZones, CountFreeZones, PickVictim, EvictReturn, AfterEvict, FindReturnLocation,
      FindReturnType, ReadChunk, UpdatePolicyRead, Goto, mapVars, locals, Storing, FrontTypeOK
  <2>2. pc'[t] \notin {"ev_wait", "ev_reset"} /\ \A u \in Threads \ {t} : pc'[u] = pc[u]
    BY <1>0, <2>1 DEF FrontTypeOK
  <2> QED BY <1>1, <1>2, <2>1, <2>2
<1>4. ASSUME NEW t \in Threads, zn_cachemap_find(t) PROVE FetchInv'
  <2>1. /\ pc[t] = "find" /\ pc'[t] \in {"find", "copy_location"} /\ \A u \in Threads \ {t} : pc'[u] = pc[u]
        /\ UNCHANGED <<zsmVars, locals, disk, ratio>>
    BY <1>0, <1>4 DEF zn_cachemap_find, FrontTypeOK
  <2>2. \A id \in Ids : zone_map[id].type = "LOC" => zone_map'[id].type = "LOC"
    <3>1. CASE FindClaim(data_id[t])
      <4>1. \A id \in Ids \ {data_id[t]} : zone_map'[id] = zone_map[id]
        BY <1>0, <3>1 DEF FindClaim, FrontTypeOK, mapTypeOK
      <4> QED BY <3>1, <4>1 DEF FindClaim
    <3>2. CASE FindHit(data_id[t]) \/ FindWait(t, data_id[t])
      BY <3>2 DEF FindHit, FindWait
    <3> QED BY <1>4, <3>1, <3>2 DEF zn_cachemap_find
  <2>3. pc[t] \notin Storing
    BY <2>1 DEF Storing
  <2> QED BY <1>1, <1>2, <2>1, <2>2, <2>3 DEF locals
<1>5. ASSUME NEW t \in Threads, HitDone(t) PROVE FetchInv'
  <2>1. /\ pc[t] = "release" /\ pc'[t] \in {"failed", "next"} /\ UNCHANGED <<zsmVars, zone_map, disk>>
        /\ \A u \in Threads \ {t} : pc'[u] = pc[u] /\ data_id'[u] = data_id[u] /\ location'[u] = location[u]
        /\ ratio'.misses = ratio.misses
    BY <1>0, <1>5 DEF HitDone, ReleaseReader, Return, FrontTypeOK
  <2>2. pc[t] \notin Storing
    BY <2>1 DEF Storing
  <2> QED BY <1>1, <1>2, <2>1, <2>2
<1>6. ASSUME NEW t \in Threads, GetZone(t) \/ UndoZoneGet(t) PROVE FetchInv'
  <2>1. /\ pc[t] \in {"get_zone", "undo_zone"} /\ pc'[t] \in {"write", "undo_map", "evict"}
        /\ \A u \in Threads \ {t} : pc'[u] = pc[u] /\ data_id'[u] = data_id[u] /\ location'[u] = location[u]
        /\ UNCHANGED <<zone_map, disk, ratio>>
    BY <1>0, <1>6 DEF GetZone, UndoZoneGet, Goto, mapVars, locals, FrontTypeOK
  <2>2. Committed' = Committed
    <3>1. CASE GetZone(t)
      BY <1>0, <1>1, <3>1, GetWritten DEF GetZone
    <3>2. CASE UndoZoneGet(t)
      <4>1. grant[t] # NoPair /\ grant[t] = location[t]
        BY <1>0, <3>2 DEF UndoZoneGet, Goto, GrantsMatchLocations, HoldsZone
      <4> QED BY <1>0, <3>2, <4>1, FailedWritten DEF UndoZoneGet
    <3> QED BY <1>6, <3>1, <3>2
  <2>3. pc[t] \notin Storing
    BY <2>1 DEF Storing
  <2> QED BY <1>2, <2>1, <2>2, <2>3
<1>7. ASSUME NEW t \in Threads, ReturnZone(t) PROVE FetchInv'
  <2>1. /\ pc[t] = "return_zone" /\ pc' = [pc EXCEPT ![t] = "update_write"]
        /\ UNCHANGED <<zone_map, data_id, location, disk, ratio>>
    BY <1>7 DEF ReturnZone, Goto, mapVars, locals
  <2>2. grant[t] # NoPair /\ grant[t] = location[t]
    BY <1>0, <2>1 DEF GrantsMatchLocations, HoldsZone
  <2>3. Committed' = Committed \cup {location[t]}
    BY <1>0, <1>7, <2>2, ReturnWritten DEF ReturnZone
  <2>4. pc'[t] = "update_write" /\ \A u \in Threads \ {t} : pc'[u] = pc[u]
    BY <1>0, <2>1 DEF FrontTypeOK
  <2>5. \A u \in Threads : pc'[u] \notin {"ev_wait", "ev_reset"}
    BY <2>4 DEF FetchInv
  <2>6. \A u \in Threads : pc[u] \in Storing => pc'[u] \in Storing
    BY <2>4 DEF Storing
  <2> QED BY <2>1, <2>3, <2>4, <2>5, <2>6, FetchKept
<1>8. ASSUME NEW t \in Threads, UpdatePolicyWrite(t) PROVE FetchInv'
  <2>1. /\ pc[t] = "update_write" /\ pc' = [pc EXCEPT ![t] = "insert"]
        /\ UNCHANGED <<zsmVars, zone_map, data_id, location, disk, ratio>>
    BY <1>8 DEF UpdatePolicyWrite, Goto, mapVars, locals
  <2>2. pc'[t] = "insert" /\ \A u \in Threads \ {t} : pc'[u] = pc[u]
    BY <1>0, <2>1 DEF FrontTypeOK
  <2>3. \A u \in Threads : pc'[u] \notin {"ev_wait", "ev_reset"}
    BY <2>2 DEF FetchInv
  <2>4. \A u \in Threads : pc[u] \in Storing => pc'[u] \in Storing
    BY <2>2 DEF Storing
  <2>5. \A u \in Threads : pc[u] = "return_zone" => pc'[u] = "return_zone"
    BY <2>1, <2>2
  <2> QED BY <1>1, <2>1, <2>3, <2>4, <2>5, FetchKept
<1>9. ASSUME NEW t \in Threads, MissDone(t) PROVE FetchInv'
  <2>1. /\ pc[t] = "insert" /\ pc'[t] = "next" /\ UNCHANGED <<zsmVars, disk, ratio>>
        /\ \A u \in Threads \ {t} : pc'[u] = pc[u] /\ data_id'[u] = data_id[u] /\ location'[u] = location[u]
    BY <1>0, <1>9 DEF MissDone, Return, FrontTypeOK
  <2>2. data_id[t] \in Ids
    BY <1>0, <2>1, NullAssumption DEF ControlOK, FrontTypeOK, InGet, OutsideGet
  <2>3. zone_map'[data_id[t]].type = "LOC" /\ \A i \in Ids \ {data_id[t]} : zone_map'[i] = zone_map[i]
    BY <1>0, <1>9, <2>2 DEF MissDone, zn_cachemap_insert, FrontTypeOK, mapTypeOK, Entry
  <2>4. \A u \in Threads : pc'[u] \notin {"ev_wait", "ev_reset"}
    BY <2>1 DEF FetchInv
  <2>5. \A u \in Threads : pc[u] = "return_zone" => pc'[u] = "return_zone" /\ location'[u] = location[u]
    BY <2>1
  <2>6. \A u \in Threads : pc[u] \in Storing =>
          zone_map'[data_id[u]].type = "LOC" \/ (pc'[u] \in Storing /\ data_id'[u] = data_id[u])
    BY <2>1, <2>3
  <2> QED BY <1>1, <2>1, <2>3, <2>4, <2>5, <2>6, FetchKept
<1>10. ASSUME NEW t \in Threads, UndoMap(t) PROVE FetchInv'
  <2>1. /\ pc[t] = "undo_map" /\ pc'[t] = "failed" /\ UNCHANGED <<zsmVars, disk, ratio>>
        /\ \A u \in Threads \ {t} : pc'[u] = pc[u] /\ data_id'[u] = data_id[u] /\ location'[u] = location[u]
    BY <1>0, <1>10 DEF UndoMap, Return, FrontTypeOK
  <2>2. data_id[t] \in Ids /\ zone_map[data_id[t]].type = "COND"
    BY <1>0, <2>1, SoleFiller DEF InGet, NotFilling, Copying
  <2>3. \A i \in Ids \ {data_id[t]} : zone_map'[i] = zone_map[i]
    BY <1>0, <1>10, <2>2 DEF UndoMap, zn_cachemap_fail, FrontTypeOK, mapTypeOK
  <2>4. \A id \in Ids : zone_map[id].type = "LOC" => zone_map'[id].type = "LOC"
    BY <2>2, <2>3
  <2>5. pc[t] \notin Storing
    BY <2>1 DEF Storing
  <2> QED BY <1>1, <1>2, <2>1, <2>4, <2>5
<1>11. ASSUME NEW t \in Threads, ClearVictim(t) \/ WaitForReaders(t) \/ ResetVictim(t) PROVE FALSE
  <2>1. ~(WaitForReaders(t) \/ ResetVictim(t))
    BY DEF FetchInv, WaitForReaders, ResetVictim, Goto
  <2>2. ClearVictim(t) => pc' # pc
    BY <1>0 DEF ClearVictim, Goto, FrontTypeOK
  <2> QED BY <1>11, <2>1, <2>2 DEF vars, cacheVars
<1>12. CASE (\E t \in Threads : WakeupStep(t)) \/ Terminated \/ UNCHANGED vars
  <2>1. UNCHANGED <<zsmVars, zone_map, pc, data_id, location, disk, ratio>>
    BY <1>12 DEF WakeupStep, Wakeup, SpuriousWakeup, Terminated, vars, mapVars, cacheVars, locals
  <2>2. \A u \in Threads : pc'[u] \notin {"ev_wait", "ev_reset"}
    BY <2>1 DEF FetchInv
  <2> QED BY <1>1, <2>1, <2>2, FetchKept
<1> QED
  BY <1>3, <1>4, <1>5, <1>6, <1>7, <1>8, <1>9, <1>10, <1>11, <1>12, WriteFetch
  DEF Next, RunStep, GetStep, zn_fg_evict

\* Single flight: as long as nothing is evicted, the misses that are counted are the
\* ids whose data is stored, each of them once, for every number of workers that ask
\* for the same ids and whatever writes fail (zn_cachemap_find, cachemap.c:31-80).
THEOREM SingleFlight == Spec /\ NothingCleared => []FetchedOnce
<1>1. Init => FetchInv
  <2> SUFFICES ASSUME Init PROVE FetchInv
    OBVIOUS
  <2>1. \A z \in Zones, c \in Chunks : disk[z][c] = Blank
    BY DEF Init, zn_init_cache
  <2>2. StoredIds = {} /\ \A p \in zn_pair : Disk(p) \notin Ids
    BY <2>1, ContentsAssumption, NoPairFacts DEF StoredIds, Disk
  <2>3. \A t \in Threads : pc[t] \notin {"ev_wait", "ev_reset"}
    BY DEF Init, zn_init_cache
  <2>4. ratio.misses = 0
    BY DEF Init, zn_init_cache
  <2> QED BY <2>2, <2>3, <2>4, FS_EmptySet DEF FetchInv
<1>2. CacheInv /\ DataInv /\ FetchInv /\ [Next]_vars /\ [\A t \in Threads : ~ClearVictim(t)]_vars
      => FetchInv'
  BY FetchStep
<1>3. [\A t \in Threads : ~ClearVictim(t)]_vars => [ClearSettled]_vars
  BY DEF ClearSettled
<1>4. FetchInv => FetchedOnce
  BY DEF FetchInv, FetchedOnce, StoredIds
<1>5. NothingCleared => ClearsSettled
  BY <1>3, PTL DEF NothingCleared, ClearsSettled
<1> QED BY <1>1, <1>2, <1>4, <1>5, DataInductive, PTL DEF Spec, NothingCleared
==============================================================================
