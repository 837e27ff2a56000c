------------------------- MODULE ZoneStateManagerProofs -------------------------
(***************************************************************************)
(* Theorems about ZoneStateManager, for every number of zones, chunks and  *)
(* threads, every active-zone limit, either backend and any set of device  *)
(* faults.                                                                 *)
(***************************************************************************)
EXTENDS ZoneStateManager, FiniteSetTheorems, TLAPS

(***************************************************************************)
(* Facts about the queues.                                                 *)
(***************************************************************************)
\* g_queue_pop_head on a queue without duplicates removes its head and nothing else.
LEMMA PopQueue ==
  ASSUME NEW S, NEW q \in Seq(S), q # <<>>
  PROVE  /\ Head(q) \in S
         /\ Tail(q) \in Seq(S)
         /\ Len(q) \in Nat \ {0}
         /\ Len(Tail(q)) = Len(q) - 1
         /\ InQueue(q, Head(q))
         /\ Distinct(q) => Distinct(Tail(q))
         /\ Distinct(q) => \A z : InQueue(Tail(q), z) <=> InQueue(q, z) /\ z # Head(q)
<1>1. /\ Head(q) = q[1] /\ Tail(q) \in Seq(S) /\ Len(q) \in Nat /\ Len(q) # 0
      /\ Len(Tail(q)) = Len(q) - 1 /\ \A i \in 1 .. Len(q) - 1 : Tail(q)[i] = q[i + 1]
  OBVIOUS
<1>2. Head(q) \in S
  OBVIOUS
<1>3. InQueue(q, Head(q))
  BY <1>1 DEF InQueue
<1>4. ASSUME Distinct(q) PROVE Distinct(Tail(q))
  BY <1>1, <1>4 DEF Distinct
<1>5. ASSUME Distinct(q), NEW z PROVE InQueue(Tail(q), z) <=> InQueue(q, z) /\ z # Head(q)
  <2>1. ASSUME InQueue(Tail(q), z) PROVE InQueue(q, z) /\ z # Head(q)
    BY <1>1, <1>5, <2>1 DEF Distinct, InQueue
  <2>2. ASSUME InQueue(q, z), z # Head(q) PROVE InQueue(Tail(q), z)
    <3>1. PICK i \in 1 .. Len(q) : q[i] = z
      BY <2>2 DEF InQueue
    <3>2. i # 1
      BY <1>1, <2>2, <3>1
    <3>3. i - 1 \in 1 .. Len(Tail(q)) /\ Tail(q)[i - 1] = z
      BY <1>1, <3>1, <3>2
    <3> QED BY <3>3 DEF InQueue
  <2> QED BY <2>1, <2>2
<1> QED BY <1>1, <1>2, <1>3, <1>4, <1>5

\* g_queue_push_tail adds one element; a queue that did not hold it stays without
\* duplicates.
LEMMA PushQueue ==
  ASSUME NEW S, NEW q \in Seq(S), NEW x \in S
  PROVE  /\ Append(q, x) \in Seq(S)
         /\ Len(q) \in Nat
         /\ Len(Append(q, x)) = Len(q) + 1
         /\ Append(q, x) # <<>>
         /\ \A z : InQueue(Append(q, x), z) <=> InQueue(q, z) \/ z = x
         /\ Distinct(q) /\ ~InQueue(q, x) => Distinct(Append(q, x))
<1> DEFINE r == Append(q, x)
<1>1. /\ r \in Seq(S) /\ Len(q) \in Nat /\ Len(r) = Len(q) + 1 /\ r[Len(q) + 1] = x
      /\ \A i \in 1 .. Len(q) : r[i] = q[i]
  OBVIOUS
<1>2. r # <<>>
  BY <1>1
<1>3. ASSUME NEW z PROVE InQueue(r, z) <=> InQueue(q, z) \/ z = x
  <2>1. ASSUME InQueue(r, z) PROVE InQueue(q, z) \/ z = x
    BY <1>1, <2>1 DEF InQueue
  <2>2. ASSUME InQueue(q, z) PROVE InQueue(r, z)
    BY <1>1, <2>2 DEF InQueue
  <2>3. InQueue(r, x)
    BY <1>1 DEF InQueue
  <2> QED BY <2>1, <2>2, <2>3
<1>4. ASSUME Distinct(q), ~InQueue(q, x) PROVE Distinct(r)
  BY <1>1, <1>4 DEF InQueue, Distinct
<1> QED BY <1>1, <1>2, <1>3, <1>4

\* Pushing to an empty queue and popping gives the element and an empty queue.
LEMMA PushPop ==
  ASSUME NEW S, NEW x \in S
  PROVE  /\ Head(Append(<<>>, x)) = x
         /\ Tail(Append(<<>>, x)) = <<>>
OBVIOUS

\* The empty queue holds nothing.
LEMMA EmptyQueue ==
  /\ Distinct(<<>>)
  /\ \A z : ~InQueue(<<>>, z)
BY DEF Distinct, InQueue

\* NoPair is no location.
LEMMA NoPairFacts ==
  /\ NoPair \notin zn_pair
  /\ NoPair.zone \notin Zones
  /\ \A p \in zn_pair : p.zone \in Zones /\ p.chunk_offset \in Chunks
  /\ \A z \in Zones, c \in Chunks :
       /\ Pair(z, c) \in zn_pair
       /\ Pair(z, c) # NoPair
       /\ Pair(z, c).zone = z
       /\ Pair(z, c).chunk_offset = c
BY NumZonesAssumption, MaxZoneChunksAssumption DEF NoPair, zn_pair, Zones, Chunks, Pair
------------------------------------------------------------------------------
(***************************************************************************)
(* The inductive invariant.  The type of chunk_offset needs the grants (a  *)
(* zone that is given back is at a chunk it has), these need the queues (a *)
(* zone that is popped has no writer), and a new grant needs room.         *)
(***************************************************************************)
ZsmInv ==
  /\ ZsmTypeOK
  /\ QueuesMatchStates
  /\ GrantsExclusive
  /\ ZoneHasRoom

\* zsm_init establishes the invariant.
LEMMA ZsmInitInv == zsm_init => ZsmInv
<1> SUFFICES ASSUME zsm_init PROVE ZsmInv
  OBVIOUS
<1> USE NumZonesAssumption, MaxZoneChunksAssumption
<1>1. free \in Seq(Zones) /\ Len(free) = NumZones
  BY DEF zsm_init, Zones
<1>2. invalid \in [Zones -> Seq(Chunks)]
  BY DEF zsm_init
<1>3. ZsmTypeOK
  BY <1>1, <1>2 DEF zsm_init, ZsmTypeOK, zn_zone_condition
<1>4. QueuesMatchStates
  BY <1>1, EmptyQueue DEF zsm_init, QueuesMatchStates, Distinct, InQueue
<1>5. GrantsExclusive
  BY DEF zsm_init, GrantsExclusive
<1>6. ZoneHasRoom
  BY DEF zsm_init, ZoneHasRoom
<1> QED BY <1>3, <1>4, <1>5, <1>6 DEF ZsmInv

\* The head of the active queue is given to a thread that holds no zone.
LEMMA TakeActiveZoneInv ==
  ASSUME ZsmInv, NEW t \in Threads, grant[t] = NoPair, TakeActiveZone(t)
  PROVE  ZsmInv'
<1> DEFINE z == Head(active)
<1>1. /\ z \in Zones /\ active' \in Seq(Zones) /\ Distinct(active')
      /\ InQueue(active, z)
      /\ \A y : InQueue(active', y) <=> InQueue(active, y) /\ y # z
  BY PopQueue DEF ZsmInv, ZsmTypeOK, QueuesMatchStates, TakeActiveZone, PopActive
<1>2. zone_state[z] = "ACTIVE" /\ chunk_offset[z] \in Chunks
  BY <1>1, MaxZoneChunksAssumption
  DEF ZsmInv, ZsmTypeOK, QueuesMatchStates, ZoneHasRoom, Chunks
<1>3. /\ Pair(z, chunk_offset[z]) \in zn_pair
      /\ Pair(z, chunk_offset[z]) # NoPair
      /\ Pair(z, chunk_offset[z]).zone = z
      /\ Pair(z, chunk_offset[z]).chunk_offset = chunk_offset[z]
  BY <1>1, <1>2, NoPairFacts
<1>4. /\ zone_state' = [zone_state EXCEPT ![z] = "WRITE_OCCURING"]
      /\ grant' = [grant EXCEPT ![t] = Pair(z, chunk_offset[z])]
      /\ writes_occurring' = writes_occurring + 1
      /\ UNCHANGED <<chunk_offset, free, invalid>>
  BY DEF TakeActiveZone, PopActive
<1>5. ZsmTypeOK'
  BY <1>1, <1>3, <1>4 DEF ZsmInv, ZsmTypeOK, zn_zone_condition
<1>6. QueuesMatchStates'
  BY <1>1, <1>2, <1>4 DEF ZsmInv, ZsmTypeOK, QueuesMatchStates
<1>7. GrantsExclusive'
  BY <1>1, <1>2, <1>3, <1>4, NoPairFacts DEF ZsmInv, ZsmTypeOK, GrantsExclusive
<1>8. ZoneHasRoom'
  BY <1>1, <1>4 DEF ZsmInv, ZsmTypeOK, ZoneHasRoom
<1> QED BY <1>5, <1>6, <1>7, <1>8 DEF ZsmInv

\* The head of the free queue is opened and given to a thread.
LEMMA OpenFreeZoneInv ==
  ASSUME ZsmInv, NEW t \in Threads, grant[t] = NoPair, OpenFreeZone(t)
  PROVE  ZsmInv'
<1> DEFINE z == Head(free)
<1>1. /\ z \in Zones /\ free' \in Seq(Zones) /\ Distinct(free')
      /\ InQueue(free, z)
      /\ \A y : InQueue(free', y) <=> InQueue(free, y) /\ y # z
  BY PopQueue DEF ZsmInv, ZsmTypeOK, QueuesMatchStates, OpenFreeZone, CanOpen
<1>2. zone_state[z] = "FREE" /\ 0 \in Chunks
  BY <1>1, MaxZoneChunksAssumption DEF ZsmInv, QueuesMatchStates, Chunks
<1>3. /\ Pair(z, 0) \in zn_pair /\ Pair(z, 0) # NoPair
      /\ Pair(z, 0).zone = z /\ Pair(z, 0).chunk_offset = 0
  BY <1>1, <1>2, NoPairFacts
<1>4. /\ active = <<>> /\ active' = <<>>
      /\ zone_state' = [zone_state EXCEPT ![z] = "WRITE_OCCURING"]
      /\ chunk_offset' = [chunk_offset EXCEPT ![z] = 0]
      /\ grant' = [grant EXCEPT ![t] = Pair(z, 0)]
      /\ writes_occurring' = writes_occurring + 1
      /\ UNCHANGED invalid
  BY <1>1, PushPop DEF OpenFreeZone, PopActive, ZsmInv, ZsmTypeOK
<1>5. ZsmTypeOK'
  BY <1>1, <1>3, <1>4, MaxZoneChunksAssumption DEF ZsmInv, ZsmTypeOK, zn_zone_condition
<1>6. QueuesMatchStates'
  BY <1>1, <1>2, <1>4 DEF ZsmInv, ZsmTypeOK, QueuesMatchStates
<1>7. GrantsExclusive'
  BY <1>1, <1>2, <1>3, <1>4, NoPairFacts DEF ZsmInv, ZsmTypeOK, GrantsExclusive
<1>8. ZoneHasRoom'
  BY <1>1, <1>4 DEF ZsmInv, ZsmTypeOK, ZoneHasRoom
<1> QED BY <1>5, <1>6, <1>7, <1>8 DEF ZsmInv

\* The zone that cannot be opened leaves the free queue.
LEMMA OpenErrorInv ==
  ASSUME ZsmInv, NEW t \in Threads, zsm_get_active_zone_error(t)
  PROVE  ZsmInv'
<1>1. /\ free' \in Seq(Zones) /\ Distinct(free')
      /\ \A y : InQueue(free', y) => InQueue(free, y)
  BY PopQueue DEF ZsmInv, ZsmTypeOK, QueuesMatchStates, zsm_get_active_zone_error, CanOpen
<1> QED
  BY <1>1 DEF ZsmInv, ZsmTypeOK, QueuesMatchStates, GrantsExclusive, ZoneHasRoom,
              zsm_get_active_zone_error

\* What a pair that is given back says of its zone.
LEMMA GrantedZone ==
  ASSUME ZsmInv, NEW t \in Threads, grant[t] # NoPair
  PROVE  LET z == grant[t].zone IN
         /\ grant[t] \in zn_pair
         /\ z \in Zones
         /\ zone_state[z] = "WRITE_OCCURING"
         /\ chunk_offset[z] = grant[t].chunk_offset
         /\ chunk_offset[z] \in 0 .. MaxZoneChunks - 1
         /\ ~InQueue(active, z)
         /\ ~InQueue(free, z)
         /\ \A u \in Threads \ {t} : grant[u].zone # z
<1>1. grant[t] \in zn_pair
  BY DEF ZsmInv, ZsmTypeOK
<1>2. grant[t].zone \in Zones /\ grant[t].chunk_offset \in Chunks
  BY <1>1, NoPairFacts
<1> QED
  BY <1>1, <1>2 DEF ZsmInv, QueuesMatchStates, GrantsExclusive, Chunks

\* A zone goes back to the active queue: after a chunk that is not its last, or
\* after a failed write.
LEMMA RequeueInv ==
  ASSUME ZsmInv, NEW t \in Threads, grant[t] # NoPair, NEW n \in 0 .. MaxZoneChunks - 1,
         grant' = [grant EXCEPT ![t] = NoPair],
         writes_occurring' \in Nat,
         zone_state' = [zone_state EXCEPT ![grant[t].zone] = "ACTIVE"],
         chunk_offset' = [chunk_offset EXCEPT ![grant[t].zone] = n],
         active' = Append(active, grant[t].zone),
         UNCHANGED <<free, invalid>>
  PROVE  ZsmInv'
<1> DEFINE z == grant[t].zone
<1>1. /\ z \in Zones /\ zone_state[z] = "WRITE_OCCURING"
      /\ ~InQueue(active, z) /\ ~InQueue(free, z)
      /\ \A u \in Threads \ {t} : grant[u].zone # z
  BY GrantedZone
<1>2. /\ active' \in Seq(Zones) /\ Distinct(active')
      /\ \A y : InQueue(active', y) <=> InQueue(active, y) \/ y = z
  BY <1>1, PushQueue DEF ZsmInv, ZsmTypeOK, QueuesMatchStates
<1>3. ZsmTypeOK'
  BY <1>1, <1>2, MaxZoneChunksAssumption DEF ZsmInv, ZsmTypeOK, zn_zone_condition
<1>4. QueuesMatchStates'
  BY <1>1, <1>2 DEF ZsmInv, ZsmTypeOK, QueuesMatchStates
<1>5. GrantsExclusive'
  <2>1. ASSUME NEW u \in Threads, grant'[u] # NoPair
        PROVE  /\ u # t /\ grant'[u] = grant[u] /\ grant[u].zone # z
               /\ grant[u].zone \in Zones
    BY <1>1, <2>1, GrantedZone DEF ZsmInv, ZsmTypeOK
  <2>2. ASSUME NEW u \in Threads, grant'[u] # NoPair
        PROVE  /\ zone_state'[grant'[u].zone] = "WRITE_OCCURING"
               /\ chunk_offset'[grant'[u].zone] = grant'[u].chunk_offset
    BY <1>1, <2>1, <2>2 DEF ZsmInv, ZsmTypeOK, GrantsExclusive
  <2>3. ASSUME NEW u \in Threads, NEW v \in Threads,
               grant'[u] # NoPair, grant'[u].zone = grant'[v].zone
        PROVE  u = v
    <3>1. grant'[v] # NoPair
      BY <2>1, <2>3, NoPairFacts
    <3> QED BY <2>1, <2>3, <3>1 DEF ZsmInv, GrantsExclusive
  <2> QED BY <2>2, <2>3 DEF GrantsExclusive
<1>6. ZoneHasRoom'
  BY <1>1, MaxZoneChunksAssumption DEF ZsmInv, ZsmTypeOK, ZoneHasRoom
<1> QED BY <1>3, <1>4, <1>5, <1>6 DEF ZsmInv

\* writes_occurring is positive while a thread holds a zone.  The invariant on the
\* counter is proved below; the steps that decrement it take this as a hypothesis.
CounterPositive == \A t \in Threads : grant[t] # NoPair => writes_occurring > 0

\* The write succeeded.
LEMMA ReturnInv ==
  ASSUME ZsmInv, CounterPositive, NEW t \in Threads, grant[t] # NoPair,
         zsm_return_active_zone(t, grant[t])
  PROVE  ZsmInv'
<1> DEFINE z == grant[t].zone
<1>1. /\ z \in Zones /\ zone_state[z] = "WRITE_OCCURING"
      /\ chunk_offset[z] \in 0 .. MaxZoneChunks - 1
      /\ ~InQueue(active, z) /\ ~InQueue(free, z)
      /\ \A u \in Threads \ {t} : grant[u].zone # z
  BY GrantedZone
<1>2. writes_occurring' \in Nat
  BY DEF ZsmInv, ZsmTypeOK, CounterPositive, zsm_return_active_zone
<1>3. CASE chunk_offset[z] + 1 = MaxZoneChunks
  <2>1. /\ grant' = [grant EXCEPT ![t] = NoPair]
        /\ close_zone(z)
        /\ UNCHANGED <<active, free, invalid>>
    BY <1>3 DEF zsm_return_active_zone
  <2>2. /\ \A y \in Zones \ {z} : /\ zone_state'[y] = zone_state[y]
                                 /\ chunk_offset'[y] = chunk_offset[y]
        /\ zone_state'[z] \in {"FULL", "WRITE_OCCURING"}
        /\ zone_state' \in [Zones -> zn_zone_condition]
        /\ chunk_offset' \in [Zones -> 0 .. MaxZoneChunks]
    <3> USE DEF zn_zone_condition
    <3>1. /\ zone_state \in [Zones -> zn_zone_condition]
          /\ chunk_offset \in [Zones -> 0 .. MaxZoneChunks]
      BY DEF ZsmInv, ZsmTypeOK
    <3>2. CASE /\ zone_state' = [zone_state EXCEPT ![z] = "FULL"]
               /\ chunk_offset' = [chunk_offset EXCEPT ![z] = 0]
      BY <1>1, <3>1, <3>2, MaxZoneChunksAssumption
    <3>3. CASE /\ zone_state' = zone_state
               /\ chunk_offset' = [chunk_offset EXCEPT ![z] = chunk_offset[z] + 1]
      BY <1>1, <3>1, <3>3, MaxZoneChunksAssumption
    <3> QED BY <2>1, <3>2, <3>3 DEF close_zone
  <2>3. ZsmTypeOK'
    BY <1>2, <2>1, <2>2 DEF ZsmInv, ZsmTypeOK
  <2>4. QueuesMatchStates'
    BY <1>1, <2>1, <2>2 DEF ZsmInv, QueuesMatchStates
  <2>5. GrantsExclusive'
    <3>1. ASSUME NEW u \in Threads, grant'[u] # NoPair
          PROVE  /\ u # t /\ grant'[u] = grant[u]
                 /\ grant[u].zone \in Zones \ {z}
      BY <1>1, <2>1, <3>1, GrantedZone DEF ZsmInv, ZsmTypeOK
    <3>2. ASSUME NEW u \in Threads, NEW v \in Threads,
                 grant'[u] # NoPair, grant'[u].zone = grant'[v].zone
          PROVE  u = v
      <4>1. grant'[v] # NoPair
        BY <3>1, <3>2, NoPairFacts
      <4> QED BY <3>1, <3>2, <4>1 DEF ZsmInv, GrantsExclusive
    <3> QED BY <2>2, <3>1, <3>2 DEF ZsmInv, GrantsExclusive
  <2>6. ZoneHasRoom'
    BY <2>2 DEF ZsmInv, ZoneHasRoom
  <2> QED BY <2>3, <2>4, <2>5, <2>6 DEF ZsmInv
<1>4. CASE chunk_offset[z] + 1 # MaxZoneChunks
  <2>1. chunk_offset[z] + 1 \in 0 .. MaxZoneChunks - 1
    BY <1>1, <1>4, MaxZoneChunksAssumption
  <2>2. /\ grant' = [grant EXCEPT ![t] = NoPair]
        /\ zone_state' = [zone_state EXCEPT ![z] = "ACTIVE"]
        /\ chunk_offset' = [chunk_offset EXCEPT ![z] = chunk_offset[z] + 1]
        /\ active' = Append(active, z)
        /\ UNCHANGED <<free, invalid>>
    BY <1>4 DEF zsm_return_active_zone
  <2> QED BY <1>2, <2>1, <2>2, RequeueInv
<1> QED BY <1>3, <1>4

\* The write failed.
LEMMA FailedInv ==
  ASSUME ZsmInv, CounterPositive, NEW t \in Threads, grant[t] # NoPair,
         zsm_failed_to_write(t, grant[t])
  PROVE  ZsmInv'
<1> DEFINE z == grant[t].zone
<1>1. z \in Zones /\ chunk_offset[z] \in 0 .. MaxZoneChunks - 1
  BY GrantedZone
<1>2. writes_occurring' \in Nat
  BY DEF ZsmInv, ZsmTypeOK, CounterPositive, zsm_failed_to_write
<1>3. chunk_offset' = [chunk_offset EXCEPT ![z] = chunk_offset[z]]
  BY <1>1 DEF zsm_failed_to_write, ZsmInv, ZsmTypeOK
<1>4. /\ grant' = [grant EXCEPT ![t] = NoPair]
      /\ zone_state' = [zone_state EXCEPT ![z] = "ACTIVE"]
      /\ active' = Append(active, z)
      /\ UNCHANGED <<free, invalid>>
  BY DEF zsm_failed_to_write
<1> QED BY <1>1, <1>2, <1>3, <1>4, RequeueInv

\* A zone whose last chunk is written is reset, or its reset fails.
LEMMA EvictInv ==
  ASSUME ZsmInv, NEW z \in Zones, EvictStep(z)
  PROVE  ZsmInv'
<1>1. /\ zone_state[z] # "FREE" /\ zone_state[z] # "ACTIVE"
      /\ ~InQueue(active, z) /\ ~InQueue(free, z)
  BY DEF EvictStep, LastChunkWritten, ZsmInv, QueuesMatchStates
<1>2. \A t \in Threads : grant[t] # NoPair => grant[t].zone # z
  BY GrantedZone DEF EvictStep, LastChunkWritten
<1>3. UNCHANGED <<active, writes_occurring, grant>>
  BY DEF EvictStep, zsm_evict
<1>4. CASE ResetDone(z)
  <2>1. /\ zone_state' = [zone_state EXCEPT ![z] = "FREE"]
        /\ chunk_offset' = [chunk_offset EXCEPT ![z] = 0]
        /\ free' = Append(free, z)
        /\ UNCHANGED invalid
    BY <1>1, <1>4 DEF ResetDone
  <2>2. /\ free' \in Seq(Zones) /\ Distinct(free')
        /\ \A y : InQueue(free', y) <=> InQueue(free, y) \/ y = z
    BY <1>1, <2>1, PushQueue DEF ZsmInv, ZsmTypeOK, QueuesMatchStates
  <2>3. ZsmTypeOK'
    BY <1>3, <2>1, <2>2, MaxZoneChunksAssumption DEF ZsmInv, ZsmTypeOK, zn_zone_condition
  <2>4. QueuesMatchStates'
    BY <1>1, <1>3, <2>1, <2>2 DEF ZsmInv, ZsmTypeOK, QueuesMatchStates
  <2>5. GrantsExclusive'
    BY <1>2, <1>3, <2>1, GrantedZone DEF ZsmInv, ZsmTypeOK, GrantsExclusive
  <2>6. ZoneHasRoom'
    BY <2>1 DEF ZsmInv, ZsmTypeOK, ZoneHasRoom
  <2> QED BY <2>3, <2>4, <2>5, <2>6 DEF ZsmInv
<1>5. CASE ResetFailed(z)
  <2>1. invalid' \in [Zones -> Seq(Chunks)] /\ UNCHANGED <<zone_state, chunk_offset, free>>
    BY <1>5 DEF ResetFailed, ZsmInv, ZsmTypeOK
  <2> QED
    BY <1>3, <2>1 DEF ZsmInv, ZsmTypeOK, QueuesMatchStates, GrantsExclusive, ZoneHasRoom
<1> QED BY <1>4, <1>5 DEF EvictStep, zsm_evict

\* Marking a chunk invalid changes the invalid queue of its zone only.
LEMMA InvalidateInv ==
  ASSUME ZsmInv, NEW pair \in zn_pair, InvalidateStep(pair)
  PROVE  ZsmInv'
<1>1. pair.zone \in Zones /\ pair.chunk_offset \in Chunks
  BY NoPairFacts
<1>2. Append(invalid[pair.zone], pair.chunk_offset) \in Seq(Chunks)
  BY <1>1 DEF ZsmInv, ZsmTypeOK
<1>3. invalid' \in [Zones -> Seq(Chunks)]
  BY <1>1, <1>2 DEF InvalidateStep, zsm_mark_chunk_invalid, ZsmInv, ZsmTypeOK
<1> QED
  BY <1>3 DEF InvalidateStep, zsm_mark_chunk_invalid, ZsmInv, ZsmTypeOK, QueuesMatchStates,
              GrantsExclusive, ZoneHasRoom
------------------------------------------------------------------------------
(***************************************************************************)
(* The counter writes_occurring and the active-zone budget.                *)
(***************************************************************************)
\* A thread becomes a writer, or stops being one; the others are not concerned.
LEMMA WriterChanges ==
  ASSUME ZsmInv, NEW t \in Threads, NEW p \in zn_pair \cup {NoPair},
         grant' = [grant EXCEPT ![t] = p]
  PROVE  /\ IsFiniteSet(Writers) /\ Cardinality(Writers) \in Nat
         /\ grant[t] = NoPair /\ p # NoPair =>
              Cardinality(Writers') = Cardinality(Writers) + 1
         /\ grant[t] # NoPair /\ p = NoPair =>
              Cardinality(Writers') = Cardinality(Writers) - 1
<1>1. IsFiniteSet(Writers)
  BY ThreadsAssumption, FS_Subset DEF Writers
<1>2. Cardinality(Writers) \in Nat
  BY <1>1, FS_CardinalityType
<1>3. ASSUME grant[t] = NoPair, p # NoPair
      PROVE  Cardinality(Writers') = Cardinality(Writers) + 1
  <2>1. Writers' = Writers \cup {t} /\ t \notin Writers
    BY <1>3 DEF Writers, ZsmInv, ZsmTypeOK
  <2> QED BY <1>1, <2>1, FS_AddElement
<1>4. ASSUME grant[t] # NoPair, p = NoPair
      PROVE  Cardinality(Writers') = Cardinality(Writers) - 1
  <2>1. Writers' = Writers \ {t} /\ t \in Writers
    BY <1>4 DEF Writers, ZsmInv, ZsmTypeOK
  <2> QED BY <1>1, <2>1, FS_RemoveElement
<1> QED BY <1>1, <1>2, <1>3, <1>4

\* As long as the counter equals the number of writers, it is positive while there
\* is one: it is never decremented below zero.
LEMMA CounterIsPositive ==
  ASSUME ZsmInv, ActiveZoneBudget
  PROVE  CounterPositive
<1>1. IsFiniteSet(Writers)
  BY ThreadsAssumption, FS_Subset DEF Writers
<1>2. ASSUME NEW t \in Threads, grant[t] # NoPair PROVE writes_occurring > 0
  <2>1. Writers # {}
    BY <1>2 DEF Writers
  <2>2. Cardinality(Writers) # 0 /\ Cardinality(Writers) \in Nat
    BY <1>1, <2>1, FS_EmptySet, FS_CardinalityType
  <2> QED BY <2>2 DEF ActiveZoneBudget
<1> QED BY <1>2 DEF CounterPositive

\* A step that leaves the queue of active zones, the counter and the grants alone
\* keeps the budget.
LEMMA BudgetUnchanged ==
  ASSUME ActiveZoneBudget, UNCHANGED <<active, writes_occurring, grant>>
  PROVE  ActiveZoneBudget'
BY DEF ActiveZoneBudget, NumActiveZones, Writers

\* A grant keeps the budget: a popped zone moves from the queue to the counter, and
\* a zone is opened only below the limit.
LEMMA GetBudget ==
  ASSUME ZsmInv, ActiveZoneBudget, NEW t \in Threads, grant[t] = NoPair,
         zsm_get_active_zone_success(t)
  PROVE  ActiveZoneBudget'
<1>1. writes_occurring \in Nat /\ Len(active) \in Nat
  BY DEF ZsmInv, ZsmTypeOK
<1>2. CASE TakeActiveZone(t)
  <2>1. Len(active') = Len(active) - 1 /\ writes_occurring' = writes_occurring + 1
    BY <1>2, PopQueue DEF TakeActiveZone, PopActive, ZsmInv, ZsmTypeOK
  <2>2. ZsmInv'
    BY <1>1, <1>2, TakeActiveZoneInv
  <2>3. /\ grant' = [grant EXCEPT ![t] = grant'[t]]
        /\ grant'[t] \in zn_pair \cup {NoPair} /\ grant'[t] # NoPair
    <3>1. /\ Head(active) \in Zones
          /\ grant' = [grant EXCEPT ![t] = Pair(Head(active), chunk_offset[Head(active)])]
      BY <1>2, PopQueue DEF TakeActiveZone, PopActive, ZsmInv, ZsmTypeOK
    <3>2. grant'[t] = Pair(Head(active), chunk_offset[Head(active)])
      BY <3>1 DEF ZsmInv, ZsmTypeOK
    <3>3. grant'[t] # NoPair
      BY <3>1, <3>2, NoPairFacts DEF Pair, NoPair
    <3>4. grant'[t] \in zn_pair \cup {NoPair}
      BY <2>2 DEF ZsmInv, ZsmTypeOK
    <3> QED BY <3>1, <3>2, <3>3, <3>4
  <2>4. Cardinality(Writers') = Cardinality(Writers) + 1
    BY <1>1, <2>3, WriterChanges
  <2> QED BY <1>1, <2>1, <2>4 DEF ActiveZoneBudget, NumActiveZones
<1>3. CASE OpenFreeZone(t)
  <2>1. /\ NumActiveZones < MaxNrActiveZones /\ active = <<>> /\ active' = <<>>
        /\ writes_occurring' = writes_occurring + 1
        /\ Head(free) \in Zones
        /\ grant' = [grant EXCEPT ![t] = Pair(Head(free), 0)]
    <3>1. Head(free) \in Zones
      BY <1>3, PopQueue DEF OpenFreeZone, CanOpen, ZsmInv, ZsmTypeOK
    <3> QED BY <1>3, <3>1, PushPop DEF OpenFreeZone, CanOpen, PopActive, ZsmInv, ZsmTypeOK
  <2>2. Pair(Head(free), 0) \in zn_pair /\ Pair(Head(free), 0) # NoPair
    BY <2>1, NoPairFacts, MaxZoneChunksAssumption DEF Chunks
  <2>3. Cardinality(Writers') = Cardinality(Writers) + 1
    BY <1>1, <2>1, <2>2, WriterChanges
  <2> QED
    BY <1>1, <2>1, <2>3, MaxNrActiveZonesAssumption DEF ActiveZoneBudget, NumActiveZones
<1> QED BY <1>2, <1>3 DEF zsm_get_active_zone_success

\* Giving a zone back keeps the budget: the counter loses what the queue may gain.
LEMMA GiveBackBudget ==
  ASSUME ZsmInv, ActiveZoneBudget, NEW t \in Threads, grant[t] # NoPair,
         \/ zsm_return_active_zone(t, grant[t])
         \/ zsm_failed_to_write(t, grant[t])
  PROVE  ActiveZoneBudget'
<1>1. grant[t].zone \in Zones /\ active \in Seq(Zones) /\ writes_occurring \in Nat
  BY GrantedZone DEF ZsmInv, ZsmTypeOK
<1>2. active' \in {active, Append(active, grant[t].zone)}
  BY DEF zsm_return_active_zone, zsm_failed_to_write
<1>3. Len(active) \in Nat /\ Len(active') \in Nat /\ Len(active') <= Len(active) + 1
  BY <1>1, <1>2, PushQueue
<1>4. /\ grant' = [grant EXCEPT ![t] = NoPair]
      /\ writes_occurring' = writes_occurring - 1
  BY DEF zsm_return_active_zone, zsm_failed_to_write
<1>5. Cardinality(Writers') = Cardinality(Writers) - 1
  BY <1>4, WriterChanges
<1> QED
  BY <1>1, <1>3, <1>4, <1>5, MaxNrActiveZonesAssumption
  DEF ActiveZoneBudget, NumActiveZones
------------------------------------------------------------------------------
\* Every step of the manager keeps the invariant and the budget.
LEMMA ZsmStepInv == ZsmInv /\ ActiveZoneBudget /\ [ZsmNext]_zsmVars => (ZsmInv /\ ActiveZoneBudget)'
<1> SUFFICES ASSUME ZsmInv, ActiveZoneBudget, [ZsmNext]_zsmVars
             PROVE  ZsmInv' /\ ActiveZoneBudget'
  OBVIOUS
<1>0. CounterPositive
  BY CounterIsPositive
<1>1. ASSUME NEW t \in Threads, ThreadStep(t) PROVE ZsmInv' /\ ActiveZoneBudget'
  <2>1. CASE grant[t] = NoPair /\ zsm_get_active_zone_success(t)
    BY <2>1, GetBudget, TakeActiveZoneInv, OpenFreeZoneInv DEF zsm_get_active_zone_success
  <2>2. CASE zsm_get_active_zone_error(t)
    BY <2>2, OpenErrorInv, BudgetUnchanged DEF zsm_get_active_zone_error
  <2>3. CASE grant[t] # NoPair /\ zsm_return_active_zone(t, grant[t])
    BY <1>0, <2>3, ReturnInv, GiveBackBudget
  <2>4. CASE grant[t] # NoPair /\ zsm_failed_to_write(t, grant[t])
    BY <1>0, <2>4, FailedInv, GiveBackBudget
  <2> QED BY <1>1, <2>1, <2>2, <2>3, <2>4 DEF ThreadStep
<1>2. ASSUME NEW z \in Zones, EvictStep(z) PROVE ZsmInv' /\ ActiveZoneBudget'
  BY <1>2, EvictInv, BudgetUnchanged DEF EvictStep, zsm_evict
<1>3. ASSUME NEW pair \in zn_pair, InvalidateStep(pair) PROVE ZsmInv' /\ ActiveZoneBudget'
  BY <1>3, InvalidateInv, BudgetUnchanged DEF InvalidateStep, zsm_mark_chunk_invalid
<1>4. CASE UNCHANGED zsmVars
  <2>1. ZsmInv'
    BY <1>4 DEF zsmVars, ZsmInv, ZsmTypeOK, QueuesMatchStates, GrantsExclusive, ZoneHasRoom
  <2> QED BY <1>4, <2>1, BudgetUnchanged DEF zsmVars
<1> QED BY <1>1, <1>2, <1>3, <1>4 DEF ZsmNext

\* The budget holds before the first grant.
LEMMA ZsmInitBudget == zsm_init => ActiveZoneBudget
<1> SUFFICES ASSUME zsm_init PROVE ActiveZoneBudget
  OBVIOUS
<1>1. Writers = {}
  BY DEF zsm_init, Writers
<1>2. Cardinality(Writers) = 0
  BY <1>1, FS_EmptySet
<1> QED BY <1>2, MaxNrActiveZonesAssumption DEF zsm_init, ActiveZoneBudget, NumActiveZones

\* The inductive invariant holds in every reachable state.
THEOREM ZsmInductive == ZsmSpec => [](ZsmInv /\ ActiveZoneBudget)
<1>1. zsm_init => ZsmInv /\ ActiveZoneBudget
  BY ZsmInitInv, ZsmInitBudget
<1> QED BY <1>1, ZsmStepInv, PTL DEF ZsmSpec

\* The variables of zone_state_manager.c keep their types: no chunk offset passes
\* the end of a zone, and writes_occurring never wraps below zero.
THEOREM ZsmTypeCorrect == ZsmSpec => []ZsmTypeOK
BY ZsmInductive, PTL DEF ZsmInv

\* The queues agree with the states of the zones: g_queue_pop_head never hands
\* out a zone that is full, free or being written (zsm_get_active_zone).
THEOREM ZsmQueues == ZsmSpec => []QueuesMatchStates
BY ZsmInductive, PTL DEF ZsmInv

\* No two threads ever write to the same zone, and each writes at the write
\* pointer of its zone: the asserts of zsm_return_active_zone and
\* zsm_failed_to_write (lines 249-250, 302-304) can never fail.
THEOREM ZsmExclusive == ZsmSpec => []GrantsExclusive
BY ZsmInductive, PTL DEF ZsmInv

\* zsm_get_active_zone never has more zones open than max_nr_active_zones, and
\* writes_occurring is exactly the number of writers (asserts at lines 245, 299).
THEOREM ZsmBudget == ZsmSpec => []ActiveZoneBudget
BY ZsmInductive, PTL DEF ZsmInv

\* ZSM_GET_ACTIVE_ZONE_RETRY is returned only while a thread is writing, whose
\* return ends the wait: zn_cache_get never retries with nobody to wait for.
THEOREM ZsmRetry == ZsmSpec => []RetryHasWriter
<1>1. ZsmInv /\ ActiveZoneBudget => RetryHasWriter
  <2> SUFFICES ASSUME ZsmInv, ActiveZoneBudget, RetryNeeded, Writers = {} PROVE FALSE
    BY DEF RetryHasWriter
  <2>1. writes_occurring = 0
    BY FS_EmptySet DEF ActiveZoneBudget
  <2>2. active = <<>> /\ Len(active) = 0
    BY DEF RetryNeeded
  <2> QED
    BY <2>1, <2>2, MaxNrActiveZonesAssumption
    DEF RetryNeeded, EvictNeeded, CanOpen, NumActiveZones
<1> QED BY <1>1, ZsmInductive, PTL

\* zsm_get_active_zone never hands out a chunk beyond the end of a zone.
THEOREM ZsmRoom == ZsmSpec => []ZoneHasRoom
BY ZsmInductive, PTL DEF ZsmInv
------------------------------------------------------------------------------
(***************************************************************************)
(* No zone is lost but by a failed open.                                   *)
(***************************************************************************)
\* Every zone is accounted for by its state: a FREE zone is queued unless it could
\* not be opened, and a zone in WRITE_OCCURING has a writer or is at its end.
Accounted ==
  \A z \in Zones :
    /\ zone_state[z] = "FREE" => InQueue(free, z) \/ "open" \in Faults
    /\ zone_state[z] = "WRITE_OCCURING" =>
         \/ \E t \in Threads : grant[t].zone = z
         \/ chunk_offset[z] = MaxZoneChunks

\* The accounting survives every step, with and without device faults.
LEMMA AccountedStep ==
  ASSUME ZsmInv, ZsmInv', Accounted, ZsmNext
  PROVE  Accounted'
<1> USE DEF Accounted
<1>1. ASSUME NEW t \in Threads, TakeActiveZone(t), grant[t] = NoPair PROVE Accounted'
  <2> DEFINE z == Head(active)
  <2>1. /\ z \in Zones /\ chunk_offset[z] \in Chunks
        /\ zone_state' = [zone_state EXCEPT ![z] = "WRITE_OCCURING"]
        /\ grant' = [grant EXCEPT ![t] = Pair(z, chunk_offset[z])]
        /\ free' = free /\ chunk_offset' = chunk_offset
    BY <1>1, PopQueue, MaxZoneChunksAssumption
    DEF TakeActiveZone, PopActive, ZsmInv, ZsmTypeOK, QueuesMatchStates, ZoneHasRoom, Chunks
  <2>2. grant'[t].zone = z
    BY <2>1, NoPairFacts DEF ZsmInv, ZsmTypeOK
  <2>3. \A u \in Threads \ {t} : grant'[u] = grant[u]
    BY <2>1 DEF ZsmInv, ZsmTypeOK
  <2> QED BY <1>1, <2>1, <2>2, <2>3, NoPairFacts DEF ZsmInv, ZsmTypeOK
<1>2. ASSUME NEW t \in Threads, OpenFreeZone(t), grant[t] = NoPair PROVE Accounted'
  <2> DEFINE z == Head(free)
  <2>1. /\ z \in Zones /\ 0 \in Chunks
        /\ \A y : InQueue(free', y) <=> InQueue(free, y) /\ y # z
    BY <1>2, PopQueue, MaxZoneChunksAssumption
    DEF OpenFreeZone, CanOpen, ZsmInv, ZsmTypeOK, QueuesMatchStates, Chunks
  <2>2. /\ zone_state' = [zone_state EXCEPT ![z] = "WRITE_OCCURING"]
        /\ grant' = [grant EXCEPT ![t] = Pair(z, 0)]
        /\ chunk_offset' = [chunk_offset EXCEPT ![z] = 0]
    BY <1>2, <2>1, PushPop DEF OpenFreeZone, PopActive, ZsmInv, ZsmTypeOK
  <2>3. grant'[t].zone = z /\ \A u \in Threads \ {t} : grant'[u] = grant[u]
    BY <2>1, <2>2, NoPairFacts DEF ZsmInv, ZsmTypeOK
  <2> QED BY <1>2, <2>1, <2>2, <2>3, NoPairFacts DEF ZsmInv, ZsmTypeOK
<1>3. ASSUME NEW t \in Threads, grant[t] # NoPair,
             \/ zsm_return_active_zone(t, grant[t])
             \/ zsm_failed_to_write(t, grant[t])
      PROVE  Accounted'
  <2> DEFINE z == grant[t].zone
  <2>1. z \in Zones
    BY <1>3, GrantedZone
  <2>2. /\ free' = free /\ grant' = [grant EXCEPT ![t] = NoPair]
        /\ \A y \in Zones \ {z} :
             zone_state'[y] = zone_state[y] /\ chunk_offset'[y] = chunk_offset[y]
    BY <1>3, <2>1 DEF zsm_return_active_zone, zsm_failed_to_write, close_zone, ZsmInv, ZsmTypeOK
  <2>3. zone_state[z] = "WRITE_OCCURING"
    BY <1>3 DEF ZsmInv, GrantsExclusive
  <2>4. zone_state'[z] \in {"FULL", "ACTIVE"} \/ chunk_offset'[z] = MaxZoneChunks
    BY <1>3, <2>1 DEF zsm_return_active_zone, zsm_failed_to_write, close_zone, ZsmInv, ZsmTypeOK
  <2>5. zone_state'[z] # "FREE"
    BY <1>3, <2>1, <2>3 DEF zsm_return_active_zone, zsm_failed_to_write, close_zone, ZsmInv, ZsmTypeOK
  <2>6. \A u \in Threads \ {t} : grant'[u] = grant[u]
    BY <2>2 DEF ZsmInv, ZsmTypeOK
  <2>7. ASSUME NEW y \in Zones, zone_state'[y] = "WRITE_OCCURING"
        PROVE  (\E u \in Threads : grant'[u].zone = y) \/ chunk_offset'[y] = MaxZoneChunks
    BY <2>2, <2>4, <2>6, <2>7
  <2>8. ASSUME NEW y \in Zones, zone_state'[y] = "FREE"
        PROVE  InQueue(free', y) \/ "open" \in Faults
    BY <2>2, <2>5, <2>8
  <2> QED BY <2>7, <2>8
<1>4. ASSUME NEW z \in Zones, EvictStep(z) PROVE Accounted'
  <2>1. zone_state[z] # "FREE" /\ UNCHANGED grant
    BY <1>4 DEF EvictStep, LastChunkWritten, zsm_evict
  <2>2. CASE ResetDone(z)
    <3>1. /\ zone_state' = [zone_state EXCEPT ![z] = "FREE"]
          /\ chunk_offset' = [chunk_offset EXCEPT ![z] = 0]
          /\ free' = Append(free, z)
      BY <2>1, <2>2 DEF ResetDone
    <3>2. \A y : InQueue(free', y) <=> InQueue(free, y) \/ y = z
      BY <3>1, PushQueue DEF ZsmInv, ZsmTypeOK
    <3> QED BY <2>1, <3>1, <3>2 DEF ZsmInv, ZsmTypeOK
  <2>3. CASE ResetFailed(z)
    BY <2>1, <2>3 DEF ResetFailed
  <2> QED BY <1>4, <2>2, <2>3 DEF EvictStep, zsm_evict
<1>5. ASSUME NEW pair \in zn_pair, InvalidateStep(pair) PROVE Accounted'
  BY <1>5 DEF InvalidateStep, zsm_mark_chunk_invalid
<1>6. ASSUME NEW t \in Threads, zsm_get_active_zone_error(t) PROVE Accounted'
  BY <1>6 DEF zsm_get_active_zone_error, zbd_fails
<1>7. ASSUME NEW t \in Threads, ThreadStep(t) PROVE Accounted'
  BY <1>1, <1>2, <1>3, <1>6, <1>7 DEF ThreadStep, zsm_get_active_zone_success
<1> QED BY <1>4, <1>5, <1>7 DEF ZsmNext

\* Whatever commands fail, a zone is always in the free queue, in the active queue,
\* with a writer, or written to its end, unless opening it failed: failed finishes
\* and resets never shrink the cache.
THEOREM ZsmNoLeak == ZsmSpec => []NoZoneLeaked
<1>1. zsm_init => Accounted
  BY NumZonesAssumption DEF zsm_init, Accounted, InQueue, Zones
<1>2. ZsmInv /\ ZsmInv' /\ Accounted /\ [ZsmNext]_zsmVars => Accounted'
  BY AccountedStep DEF zsmVars, Accounted
<1>3. ZsmInv /\ Accounted => NoZoneLeaked
  BY DEF ZsmInv, ZsmTypeOK, zn_zone_condition, QueuesMatchStates, Accounted, NoZoneLeaked,
         LastChunkWritten
<1> QED BY <1>1, <1>2, <1>3, ZsmInductive, PTL DEF ZsmSpec
------------------------------------------------------------------------------
\* The next chunk of a zone that is being filled never moves back: returns and failed
\* writes hand no committed chunk of it out again (zone_state_manager.c:239-312).
THEOREM ZsmOffsetsAdvance == ZsmSpec => OffsetsAdvance
<1> DEFINE Advance ==
      \A z \in Zones :
        zone_state[z] \in {"ACTIVE", "WRITE_OCCURING"} =>
          \/ chunk_offset'[z] \in {chunk_offset[z], chunk_offset[z] + 1}
          \/ zone_state'[z] \in {"FULL", "FREE"}
<1>1. ASSUME ZsmInv, ZsmNext PROVE Advance
  <2> USE <1>1 DEF ZsmInv, ZsmTypeOK
  <2>1. ASSUME NEW t \in Threads, ThreadStep(t) PROVE Advance
    <3>1. CASE grant[t] = NoPair /\ TakeActiveZone(t)
      BY <3>1 DEF TakeActiveZone, PopActive
    <3>2. CASE grant[t] = NoPair /\ OpenFreeZone(t)
      <4>1. Head(free) \in Zones /\ zone_state[Head(free)] = "FREE"
        BY <3>2, PopQueue DEF OpenFreeZone, CanOpen, QueuesMatchStates
      <4>2. chunk_offset' = [chunk_offset EXCEPT ![Head(free)] = 0]
        BY <3>2 DEF OpenFreeZone, PopActive
      <4> QED BY <4>1, <4>2
    <3>3. CASE zsm_get_active_zone_error(t)
      BY <3>3 DEF zsm_get_active_zone_error
    <3>4. CASE grant[t] # NoPair /\ zsm_return_active_zone(t, grant[t])
      <4>1. grant[t].zone \in Zones
        BY <3>4, GrantedZone
      <4>2. \/ chunk_offset' = [chunk_offset EXCEPT ![grant[t].zone] = @ + 1]
            \/ /\ chunk_offset' = [chunk_offset EXCEPT ![grant[t].zone] = 0]
               /\ zone_state' = [zone_state EXCEPT ![grant[t].zone] = "FULL"]
        BY <3>4 DEF zsm_return_active_zone, close_zone
      <4> QED BY <4>1, <4>2
    <3>5. CASE grant[t] # NoPair /\ zsm_failed_to_write(t, grant[t])
      BY <3>5 DEF zsm_failed_to_write
    <3> QED
      BY <2>1, <3>1, <3>2, <3>3, <3>4, <3>5 DEF ThreadStep, zsm_get_active_zone_success
  <2>2. ASSUME NEW z \in Zones, EvictStep(z) PROVE Advance
    BY <2>2 DEF EvictStep, zsm_evict, ResetDone, ResetFailed
  <2>3. ASSUME NEW pair \in zn_pair, InvalidateStep(pair) PROVE Advance
    BY <2>3 DEF InvalidateStep, zsm_mark_chunk_invalid
  <2> QED BY <2>1, <2>2, <2>3 DEF ZsmNext
<1>2. ZsmInv /\ [ZsmNext]_zsmVars => [Advance]_zsmVars
  BY <1>1
<1> HIDE DEF Advance
<1>3. ZsmSpec => [][Advance]_zsmVars
  BY <1>2, ZsmInductive, PTL DEF ZsmSpec
<1> QED BY <1>3 DEF OffsetsAdvance, Advance
==============================================================================
