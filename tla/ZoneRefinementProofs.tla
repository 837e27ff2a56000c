-------------------------- MODULE ZoneRefinementProofs --------------------------
(***************************************************************************)
(* The zone state manager implements ZoneLifecycle, for every number of    *)
(* zones, chunks and threads, every active-zone limit, either backend and  *)
(* any set of device faults.                                               *)
(***************************************************************************)
EXTENDS ZoneRefinement, ZoneStateManagerProofs

(***************************************************************************)
(* The writer of a zone.  Stated for a function g, so that it applies to   *)
(* grant before and after a step.                                          *)
(***************************************************************************)
Holds(g, t, z) == g[t] # NoPair /\ g[t].zone = z

WriterIn(g, z) ==
  IF \E t \in Threads : Holds(g, t, z)
  THEN CHOOSE t \in Threads : Holds(g, t, z)
  ELSE NoThread

OneHolder(g) ==
  \A t, u \in Threads, z \in Zones : Holds(g, t, z) /\ Holds(g, u, z) => t = u

\* The thread that holds a zone is its writer.
LEMMA WriterIs ==
  ASSUME NEW g, OneHolder(g), NEW z \in Zones, NEW t \in Threads, Holds(g, t, z)
  PROVE  WriterIn(g, z) = t
<1>1. (CHOOSE u \in Threads : Holds(g, u, z)) \in {u \in Threads : Holds(g, u, z)}
  OBVIOUS
<1> QED BY <1>1 DEF WriterIn, OneHolder

\* A zone nobody holds has no writer.
LEMMA WriterNone ==
  ASSUME NEW g, NEW z, \A t \in Threads : ~Holds(g, t, z)
  PROVE  WriterIn(g, z) = NoThread
BY DEF WriterIn

\* A zone that is held by the same thread has the same writer.
LEMMA WriterSame ==
  ASSUME NEW g, NEW h, OneHolder(g), OneHolder(h), NEW z \in Zones,
         \A t \in Threads : Holds(h, t, z) <=> Holds(g, t, z)
  PROVE  WriterIn(h, z) = WriterIn(g, z)
<1>1. CASE \A t \in Threads : ~Holds(g, t, z)
  BY <1>1, WriterNone
<1>2. ASSUME NEW t \in Threads, Holds(g, t, z) PROVE WriterIn(h, z) = WriterIn(g, z)
  BY <1>2, WriterIs
<1> QED BY <1>1, <1>2

\* The manager's grants are exclusive.
LEMMA GrantsOneHolder == ZsmInv => OneHolder(grant)
BY DEF ZsmInv, GrantsExclusive, OneHolder, Holds

\* The refinement mapping in terms of the holders of a zone.
LEMMA BarsAre ==
  /\ \A z : Granted(z) <=> \E t \in Threads : Holds(grant, t, z)
  /\ writerBar = [z \in Zones |-> WriterIn(grant, z)]
BY DEF Granted, writerBar, WriterIn, Holds
------------------------------------------------------------------------------
(***************************************************************************)
(* The three variables of ZoneLifecycle, zone by zone.                     *)
(***************************************************************************)
\* A zone with a writer is open, in the manager's state WRITE_OCCURING.
LEMMA HeldZone ==
  ASSUME ZsmInv, NEW t \in Threads, grant[t] # NoPair
  PROVE  LET z == grant[t].zone IN
         /\ z \in Zones /\ Granted(z) /\ phaseBar[z] = "open"
         /\ writerBar[z] = t /\ wpBar[z] = chunk_offset[z]
<1> DEFINE z == grant[t].zone
<1>1. z \in Zones /\ Holds(grant, t, z) /\ zone_state[z] = "WRITE_OCCURING" /\ ~InQueue(free, z)
  BY GrantedZone DEF Holds
<1> HIDE DEF z
<1>2. WriterIn(grant, z) = t /\ Granted(z)
  BY <1>1, WriterIs, GrantsOneHolder, BarsAre
<1>3. phaseBar[z] = "open" /\ wpBar[z] = chunk_offset[z]
  BY <1>1, <1>2 DEF phaseBar, wpBar
<1>4. writerBar[z] = t
  BY <1>1, <1>2, BarsAre
<1> QED BY <1>1, <1>2, <1>3, <1>4 DEF z

\* A thread that holds no zone is nobody's writer.
LEMMA NotWriter ==
  ASSUME ZsmInv, NEW t \in Threads, grant[t] = NoPair, NEW y \in Zones
  PROVE  writerBar[y] # t
<1>1. CASE \A u \in Threads : ~Holds(grant, u, y)
  <2>1. writerBar[y] = NoThread
    BY <1>1, WriterNone, BarsAre
  <2> QED BY <2>1, NoThreadAssumption
<1>2. ASSUME NEW u \in Threads, Holds(grant, u, y) PROVE writerBar[y] # t
  <2>1. writerBar[y] = u
    BY <1>2, WriterIs, GrantsOneHolder, BarsAre
  <2> QED BY <1>2, <2>1 DEF Holds
<1> QED BY <1>1, <1>2

\* A zone in which nothing changes keeps its place in the life cycle.
LEMMA ZoneKept ==
  ASSUME ZsmInv, ZsmInv', NEW y \in Zones,
         zone_state'[y] = zone_state[y], chunk_offset'[y] = chunk_offset[y],
         InQueue(free', y) <=> InQueue(free, y),
         \A t \in Threads : Holds(grant', t, y) <=> Holds(grant, t, y)
  PROVE  phaseBar'[y] = phaseBar[y] /\ wpBar'[y] = wpBar[y] /\ writerBar'[y] = writerBar[y]
<1>1. Granted(y)' <=> Granted(y)
  BY DEF Granted, Holds
<1>2. phaseBar'[y] = phaseBar[y] /\ wpBar'[y] = wpBar[y]
  BY <1>1 DEF phaseBar, wpBar
<1>3. OneHolder(grant) /\ OneHolder(grant')
  BY DEF ZsmInv, GrantsExclusive, OneHolder, Holds
<1>4. WriterIn(grant', y) = WriterIn(grant, y)
  BY <1>3, WriterSame
<1>5. writerBar' = [z \in Zones |-> WriterIn(grant', z)]
  BY DEF writerBar, Granted, WriterIn, Holds
<1> QED BY <1>2, <1>4, <1>5, BarsAre

\* A step that changes one zone changes the abstract variables at that zone only.
LEMMA OneZoneChanges ==
  ASSUME ZsmInv, ZsmInv', NEW z \in Zones,
         \A y \in Zones \ {z} :
           /\ zone_state'[y] = zone_state[y] /\ chunk_offset'[y] = chunk_offset[y]
           /\ InQueue(free', y) <=> InQueue(free, y)
           /\ \A t \in Threads : Holds(grant', t, y) <=> Holds(grant, t, y)
  PROVE  /\ phaseBar' = [phaseBar EXCEPT ![z] = phaseBar'[z]]
         /\ wpBar' = [wpBar EXCEPT ![z] = wpBar'[z]]
         /\ writerBar' = [writerBar EXCEPT ![z] = writerBar'[z]]
<1>1. \A y \in Zones \ {z} :
        phaseBar'[y] = phaseBar[y] /\ wpBar'[y] = wpBar[y] /\ writerBar'[y] = writerBar[y]
  BY ZoneKept
<1>2. phaseBar' = [phaseBar EXCEPT ![z] = phaseBar'[z]]
  <2>1. phaseBar' = [y \in Zones |-> phaseBar'[y]] /\ phaseBar = [y \in Zones |-> phaseBar[y]]
    BY DEF phaseBar
  <2> QED BY <1>1, <2>1
<1>3. wpBar' = [wpBar EXCEPT ![z] = wpBar'[z]]
  <2>1. wpBar' = [y \in Zones |-> wpBar'[y]] /\ wpBar = [y \in Zones |-> wpBar[y]]
    BY DEF wpBar
  <2> QED BY <1>1, <2>1
<1>4. writerBar' = [writerBar EXCEPT ![z] = writerBar'[z]]
  <2>1. writerBar' = [y \in Zones |-> writerBar'[y]] /\ writerBar = [y \in Zones |-> writerBar[y]]
    BY DEF writerBar
  <2> QED BY <1>1, <2>1
<1> QED BY <1>2, <1>3, <1>4

\* Setting a component to what it is changes nothing.
LEMMA SameAt == ASSUME NEW S, NEW f, f = [y \in S |-> f[y]], NEW z \in S PROVE [f EXCEPT ![z] = f[z]] = f
OBVIOUS

\* The zone a thread holds after a step.
LEMMA HeldAfter ==
  ASSUME ZsmInv', NEW z \in Zones, NEW t \in Threads, Holds(grant', t, z)
  PROVE  phaseBar'[z] = "open" /\ writerBar'[z] = t /\ wpBar'[z] = chunk_offset'[z]
<1>1. zone_state'[z] = "WRITE_OCCURING" /\ ~InQueue(free', z) /\ OneHolder(grant')
  BY DEF ZsmInv, GrantsExclusive, QueuesMatchStates, OneHolder, Holds
<1>2. Granted(z)'
  BY DEF Granted, Holds
<1>3. phaseBar'[z] = "open" /\ wpBar'[z] = chunk_offset'[z]
  BY <1>1, <1>2 DEF phaseBar, wpBar
<1>4. writerBar' = [y \in Zones |-> WriterIn(grant', y)]
  BY DEF writerBar, Granted, WriterIn, Holds
<1>5. WriterIn(grant', z) = t
  BY <1>1, WriterIs
<1> QED BY <1>3, <1>4, <1>5

\* The zone nobody holds after a step.
LEMMA NotHeldAfter ==
  ASSUME ZsmInv', NEW z \in Zones, \A t \in Threads : ~Holds(grant', t, z)
  PROVE  /\ writerBar'[z] = NoThread
         /\ zone_state'[z] = "ACTIVE" => phaseBar'[z] = "open" /\ wpBar'[z] = chunk_offset'[z]
         /\ zone_state'[z] # "ACTIVE" => wpBar'[z] = 0
         /\ zone_state'[z] = "FULL" => phaseBar'[z] = "full"
         /\ zone_state'[z] = "WRITE_OCCURING" => phaseBar'[z] = "lost"
         /\ zone_state'[z] = "FREE" => phaseBar'[z] = IF InQueue(free', z) THEN "free" ELSE "lost"
<1>1. ~Granted(z)' /\ (InQueue(free', z) => zone_state'[z] = "FREE")
  BY DEF Granted, Holds, ZsmInv, QueuesMatchStates
<1>2. writerBar' = [y \in Zones |-> WriterIn(grant', y)]
  BY DEF writerBar, Granted, WriterIn, Holds
<1>3. WriterIn(grant', z) = NoThread
  BY WriterNone
<1>4. /\ zone_state'[z] = "ACTIVE" => phaseBar'[z] = "open" /\ wpBar'[z] = chunk_offset'[z]
      /\ zone_state'[z] # "ACTIVE" => wpBar'[z] = 0
  BY <1>1 DEF phaseBar, wpBar
<1>5. /\ zone_state'[z] = "FULL" => phaseBar'[z] = "full"
      /\ zone_state'[z] = "WRITE_OCCURING" => phaseBar'[z] = "lost"
  BY <1>1 DEF phaseBar
<1>6. zone_state'[z] = "FREE" => phaseBar'[z] = IF InQueue(free', z) THEN "free" ELSE "lost"
  BY <1>1 DEF phaseBar
<1> QED BY <1>2, <1>3, <1>4, <1>5, <1>6

\* The zone nobody holds before a step.
LEMMA NotHeld ==
  ASSUME ZsmInv, NEW z \in Zones, \A t \in Threads : ~Holds(grant, t, z)
  PROVE  /\ writerBar[z] = NoThread
         /\ zone_state[z] = "ACTIVE" => phaseBar[z] = "open" /\ wpBar[z] = chunk_offset[z]
         /\ zone_state[z] # "ACTIVE" => wpBar[z] = 0
         /\ zone_state[z] = "FULL" => phaseBar[z] = "full"
         /\ zone_state[z] = "WRITE_OCCURING" => phaseBar[z] = "lost"
         /\ zone_state[z] = "FREE" => phaseBar[z] = IF InQueue(free, z) THEN "free" ELSE "lost"
<1>1. ~Granted(z) /\ (InQueue(free, z) => zone_state[z] = "FREE")
  BY DEF Granted, Holds, ZsmInv, QueuesMatchStates
<1>2. WriterIn(grant, z) = NoThread
  BY WriterNone
<1>3. /\ zone_state[z] = "ACTIVE" => phaseBar[z] = "open" /\ wpBar[z] = chunk_offset[z]
      /\ zone_state[z] # "ACTIVE" => wpBar[z] = 0
  BY <1>1 DEF phaseBar, wpBar
<1>4. /\ zone_state[z] = "FULL" => phaseBar[z] = "full"
      /\ zone_state[z] = "WRITE_OCCURING" => phaseBar[z] = "lost"
  BY <1>1 DEF phaseBar
<1>5. zone_state[z] = "FREE" => phaseBar[z] = IF InQueue(free, z) THEN "free" ELSE "lost"
  BY <1>1 DEF phaseBar
<1> QED BY <1>2, <1>3, <1>4, <1>5, BarsAre
------------------------------------------------------------------------------
(***************************************************************************)
(* Each operation of the manager is a step of ZoneLifecycle or a stutter.  *)
(***************************************************************************)
\* ZoneLifecycle counts as the manager does.
LEMMA SameCardinality == \A S : Lifecycle!Cardinality(S) = Cardinality(S)
BY DEF Lifecycle!Cardinality, Cardinality

\* With an empty active queue, the open zones are those that are being written:
\* a new one may be opened as long as the counter is below the limit.
LEMMA OpenBelowLimit ==
  ASSUME ZsmInv, ActiveZoneBudget, active = <<>>, NumActiveZones < MaxNrActiveZones
  PROVE  Cardinality(Lifecycle!Open) < MaxNrActiveZones
<1> DEFINE held == [t \in Writers |-> grant[t].zone]
<1>1. IsFiniteSet(Writers)
  BY ThreadsAssumption, FS_Subset DEF Writers
<1>2. Lifecycle!Open \subseteq {z \in Zones : Granted(z)}
  <2> SUFFICES ASSUME NEW z \in Zones, phaseBar[z] = "open", ~Granted(z) PROVE FALSE
    BY DEF Lifecycle!Open
  <2>1. zone_state[z] # "ACTIVE"
    BY EmptyQueue DEF ZsmInv, QueuesMatchStates
  <2>2. InQueue(free, z) => zone_state[z] = "FREE"
    BY DEF ZsmInv, QueuesMatchStates
  <2> QED BY <2>1, <2>2 DEF phaseBar
<1>3. {z \in Zones : Granted(z)} \subseteq Lifecycle!Open
  <2> SUFFICES ASSUME NEW t \in Threads, grant[t] # NoPair PROVE phaseBar[grant[t].zone] = "open"
    BY DEF Lifecycle!Open, Granted
  <2> QED BY HeldZone
<1>4. held \in Surjection(Writers, Lifecycle!Open)
  <2>1. \A t \in Writers : grant[t].zone \in Zones /\ Granted(grant[t].zone)
    BY HeldZone DEF Writers
  <2>2. \A z \in Lifecycle!Open : \E t \in Writers : held[t] = z
    BY <1>2 DEF Granted, Writers
  <2> QED BY <1>3, <2>1, <2>2 DEF Surjection
<1>5. Cardinality(Lifecycle!Open) <= Cardinality(Writers)
  BY <1>1, <1>4, FS_Surjection
<1>6. Len(active) = 0
  OBVIOUS
<1>7. Cardinality(Writers) < MaxNrActiveZones
  BY <1>6 DEF ActiveZoneBudget, NumActiveZones, ZsmInv, ZsmTypeOK
<1>8. Cardinality(Lifecycle!Open) \in Nat /\ Cardinality(Writers) \in Nat
  BY <1>1, <1>4, FS_Surjection, FS_CardinalityType
<1> QED BY <1>5, <1>7, <1>8, MaxNrActiveZonesAssumption

\* Handing a zone to a thread, from the active queue or newly opened.
LEMMA AcquireStep ==
  ASSUME ZsmInv, ZsmInv', NEW t \in Threads, grant[t] = NoPair,
         NEW z \in Zones, NEW n \in Chunks,
         \/ zone_state[z] = "ACTIVE" /\ n = chunk_offset[z]
         \/ /\ zone_state[z] = "FREE" /\ InQueue(free, z) /\ n = 0
            /\ Cardinality(Lifecycle!Open) < MaxNrActiveZones,
         grant' = [grant EXCEPT ![t] = Pair(z, n)],
         zone_state' = [zone_state EXCEPT ![z] = "WRITE_OCCURING"],
         chunk_offset' = [chunk_offset EXCEPT ![z] = n],
         \A y \in Zones \ {z} : InQueue(free', y) <=> InQueue(free, y)
  PROVE  Lifecycle!Acquire(t, z)
<1>1. \A u \in Threads : ~Holds(grant, u, z)
  BY GrantedZone DEF Holds
<1>2. /\ writerBar[z] = NoThread /\ wpBar[z] = n
      /\ \/ phaseBar[z] = "open"
         \/ phaseBar[z] = "free" /\ Cardinality(Lifecycle!Open) < MaxNrActiveZones
  <2>1. CASE zone_state[z] = "ACTIVE" /\ n = chunk_offset[z]
    BY <1>1, <2>1, NotHeld
  <2>2. CASE /\ zone_state[z] = "FREE" /\ InQueue(free, z) /\ n = 0
             /\ Cardinality(Lifecycle!Open) < MaxNrActiveZones
    BY <1>1, <2>2, NotHeld
  <2> QED BY <2>1, <2>2
<1>3. Holds(grant', t, z) /\ chunk_offset'[z] = n
  BY NoPairFacts DEF Holds, ZsmInv, ZsmTypeOK
<1>4. phaseBar'[z] = "open" /\ writerBar'[z] = t /\ wpBar'[z] = n
  BY <1>3, HeldAfter
<1>5. \A y \in Zones \ {z} :
        /\ zone_state'[y] = zone_state[y] /\ chunk_offset'[y] = chunk_offset[y]
        /\ \A u \in Threads : Holds(grant', u, y) <=> Holds(grant, u, y)
  BY NoPairFacts DEF Holds, ZsmInv, ZsmTypeOK
<1>6. /\ phaseBar' = [phaseBar EXCEPT ![z] = "open"]
      /\ wpBar' = [wpBar EXCEPT ![z] = wpBar[z]]
      /\ writerBar' = [writerBar EXCEPT ![z] = t]
  BY <1>2, <1>4, <1>5, OneZoneChanges
<1>7. wpBar' = wpBar
  <2>1. wpBar = [y \in Zones |-> wpBar[y]]
    BY DEF wpBar
  <2> QED BY <1>6, <2>1, SameAt
<1>8. \A y \in Zones : writerBar[y] # t
  BY NotWriter
<1> QED BY <1>2, <1>6, <1>7, <1>8, SameCardinality DEF Lifecycle!Acquire

\* zsm_get_active_zone returns a zone.
LEMMA GetRefines ==
  ASSUME ZsmInv, ZsmInv', ActiveZoneBudget, NEW t \in Threads, grant[t] = NoPair,
         zsm_get_active_zone_success(t)
  PROVE  \E z \in Zones : Lifecycle!Acquire(t, z)
<1>1. CASE TakeActiveZone(t)
  <2> DEFINE z == Head(active)
  <2>1. z \in Zones /\ InQueue(active, z)
    BY <1>1, PopQueue DEF TakeActiveZone, ZsmInv, ZsmTypeOK
  <2>2. zone_state[z] = "ACTIVE"
    BY <2>1 DEF ZsmInv, QueuesMatchStates
  <2>3. chunk_offset[z] \in Chunks
    BY <2>1, <2>2, MaxZoneChunksAssumption DEF ZsmInv, ZsmTypeOK, ZoneHasRoom, Chunks
  <2>4. /\ grant' = [grant EXCEPT ![t] = Pair(z, chunk_offset[z])]
        /\ zone_state' = [zone_state EXCEPT ![z] = "WRITE_OCCURING"]
        /\ chunk_offset' = chunk_offset /\ free' = free
    BY <1>1 DEF TakeActiveZone, PopActive
  <2> HIDE DEF z
  <2>5. chunk_offset' = [chunk_offset EXCEPT ![z] = chunk_offset[z]]
    BY <2>1, <2>4 DEF ZsmInv, ZsmTypeOK
  <2>6. \A y \in Zones \ {z} : InQueue(free', y) <=> InQueue(free, y)
    BY <2>4
  <2>7. Lifecycle!Acquire(t, z)
    BY <2>1, <2>2, <2>3, <2>4, <2>5, <2>6, AcquireStep
  <2> QED BY <2>1, <2>7
<1>2. CASE OpenFreeZone(t)
  <2> DEFINE z == Head(free)
  <2>1. /\ z \in Zones /\ InQueue(free, z) /\ active = <<>> /\ NumActiveZones < MaxNrActiveZones
        /\ \A y : InQueue(free', y) <=> InQueue(free, y) /\ y # z
    BY <1>2, PopQueue DEF OpenFreeZone, CanOpen, ZsmInv, ZsmTypeOK, QueuesMatchStates
  <2>2. zone_state[z] = "FREE"
    BY <2>1 DEF ZsmInv, QueuesMatchStates
  <2>3. Head(Append(active, z)) = z
    BY <2>1, PushPop
  <2>4. /\ chunk_offset' = [chunk_offset EXCEPT ![z] = 0]
        /\ zone_state' = [zone_state EXCEPT ![z] = "WRITE_OCCURING"]
        /\ grant' = [grant EXCEPT ![t] = Pair(z, chunk_offset'[z])]
    BY <1>2, <2>3 DEF OpenFreeZone, PopActive
  <2>5. Cardinality(Lifecycle!Open) < MaxNrActiveZones
    BY <2>1, OpenBelowLimit
  <2> HIDE DEF z
  <2>6. chunk_offset'[z] = 0 /\ 0 \in Chunks
    BY <2>1, <2>4, MaxZoneChunksAssumption DEF ZsmInv, ZsmTypeOK, Chunks
  <2>7. grant' = [grant EXCEPT ![t] = Pair(z, 0)]
    BY <2>4, <2>6
  <2>8. Lifecycle!Acquire(t, z)
    BY <2>1, <2>2, <2>4, <2>5, <2>6, <2>7, AcquireStep
  <2> QED BY <2>1, <2>8
<1> QED BY <1>1, <1>2 DEF zsm_get_active_zone_success

\* A zone that cannot be opened is lost.
LEMMA OpenErrorRefines ==
  ASSUME ZsmInv, ZsmInv', NEW t \in Threads, zsm_get_active_zone_error(t)
  PROVE  \E z \in Zones : Lifecycle!Lose(z)
<1> DEFINE z == Head(free)
<1>1. /\ z \in Zones /\ InQueue(free, z)
      /\ \A y : InQueue(free', y) <=> InQueue(free, y) /\ y # z
  BY PopQueue DEF zsm_get_active_zone_error, CanOpen, ZsmInv, ZsmTypeOK, QueuesMatchStates
<1>2. UNCHANGED <<zone_state, chunk_offset, grant>>
  BY DEF zsm_get_active_zone_error
<1> HIDE DEF z
<1>3. zone_state[z] = "FREE" /\ zone_state'[z] = "FREE" /\ ~InQueue(free', z)
  BY <1>1, <1>2 DEF ZsmInv, QueuesMatchStates
<1>4. \A u \in Threads : ~Holds(grant, u, z) /\ ~Holds(grant', u, z)
  BY <1>2, <1>3, GrantedZone DEF Holds
<1>5. phaseBar[z] = "free" /\ wpBar[z] = 0 /\ writerBar[z] = NoThread
  BY <1>1, <1>3, <1>4, NotHeld
<1>6. phaseBar'[z] = "lost" /\ wpBar'[z] = 0 /\ writerBar'[z] = NoThread
  BY <1>1, <1>3, <1>4, NotHeldAfter
<1>7. \A y \in Zones \ {z} :
        /\ zone_state'[y] = zone_state[y] /\ chunk_offset'[y] = chunk_offset[y]
        /\ InQueue(free', y) <=> InQueue(free, y)
        /\ \A u \in Threads : Holds(grant', u, y) <=> Holds(grant, u, y)
  BY <1>1, <1>2
<1>8. /\ phaseBar' = [phaseBar EXCEPT ![z] = "lost"]
      /\ wpBar' = [wpBar EXCEPT ![z] = wpBar[z]]
      /\ writerBar' = [writerBar EXCEPT ![z] = writerBar[z]]
  BY <1>1, <1>5, <1>6, <1>7, OneZoneChanges
<1>9. wpBar' = wpBar /\ writerBar' = writerBar
  <2>1. wpBar = [y \in Zones |-> wpBar[y]] /\ writerBar = [y \in Zones |-> writerBar[y]]
    BY DEF wpBar, writerBar
  <2> QED BY <1>1, <1>8, <2>1, SameAt
<1> QED BY <1>1, <1>5, <1>8, <1>9 DEF Lifecycle!Lose

\* A thread gives its zone back: it was the writer of the zone, and now nobody is.
LEMMA GiveBackStep ==
  ASSUME ZsmInv, ZsmInv', NEW t \in Threads, grant[t] # NoPair,
         grant' = [grant EXCEPT ![t] = NoPair], free' = free,
         \A y \in Zones \ {grant[t].zone} :
           zone_state'[y] = zone_state[y] /\ chunk_offset'[y] = chunk_offset[y]
  PROVE  LET z == grant[t].zone IN
         /\ z \in Zones /\ phaseBar[z] = "open" /\ writerBar[z] = t /\ wpBar[z] = chunk_offset[z]
         /\ \A u \in Threads : ~Holds(grant', u, z)
         /\ phaseBar' = [phaseBar EXCEPT ![z] = phaseBar'[z]]
         /\ wpBar' = [wpBar EXCEPT ![z] = wpBar'[z]]
         /\ writerBar' = [writerBar EXCEPT ![z] = NoThread]
<1> DEFINE z == grant[t].zone
<1>1. /\ z \in Zones /\ phaseBar[z] = "open" /\ writerBar[z] = t /\ wpBar[z] = chunk_offset[z]
      /\ \A u \in Threads \ {t} : grant[u].zone # z
  BY HeldZone, GrantedZone
<1>2. grant'[t] = NoPair /\ \A u \in Threads \ {t} : grant'[u] = grant[u]
  BY DEF ZsmInv, ZsmTypeOK
<1>3. \A u \in Threads : ~Holds(grant', u, z)
  BY <1>1, <1>2 DEF Holds
<1>4. \A y \in Zones \ {z}, u \in Threads : Holds(grant', u, y) <=> Holds(grant, u, y)
  BY <1>2 DEF Holds
<1> HIDE DEF z
<1>5. \A y \in Zones \ {z} :
        /\ zone_state'[y] = zone_state[y] /\ chunk_offset'[y] = chunk_offset[y]
        /\ InQueue(free', y) <=> InQueue(free, y)
        /\ \A u \in Threads : Holds(grant', u, y) <=> Holds(grant, u, y)
  BY <1>4 DEF z
<1>6. writerBar'[z] = NoThread
  BY <1>1, <1>3, NotHeldAfter
<1>7. /\ phaseBar' = [phaseBar EXCEPT ![z] = phaseBar'[z]]
      /\ wpBar' = [wpBar EXCEPT ![z] = wpBar'[z]]
      /\ writerBar' = [writerBar EXCEPT ![z] = NoThread]
  BY <1>1, <1>5, <1>6, OneZoneChanges
<1> QED BY <1>1, <1>3, <1>7 DEF z

\* The write succeeded.
LEMMA ReturnRefines ==
  ASSUME ZsmInv, ZsmInv', NEW t \in Threads, grant[t] # NoPair,
         zsm_return_active_zone(t, grant[t])
  PROVE  \E z \in Zones : Lifecycle!Commit(t, z)
<1> DEFINE z == grant[t].zone
<1>0. /\ z \in Zones /\ chunk_offset[z] \in 0 .. MaxZoneChunks - 1
      /\ zone_state[z] = "WRITE_OCCURING"
  BY GrantedZone
<1>1. /\ grant' = [grant EXCEPT ![t] = NoPair] /\ free' = free
      /\ \A y \in Zones \ {z} : zone_state'[y] = zone_state[y] /\ chunk_offset'[y] = chunk_offset[y]
  BY <1>0 DEF zsm_return_active_zone, close_zone, ZsmInv, ZsmTypeOK
<1>2. /\ phaseBar[z] = "open" /\ writerBar[z] = t /\ wpBar[z] = chunk_offset[z]
      /\ \A u \in Threads : ~Holds(grant', u, z)
      /\ phaseBar' = [phaseBar EXCEPT ![z] = phaseBar'[z]]
      /\ wpBar' = [wpBar EXCEPT ![z] = wpBar'[z]]
      /\ writerBar' = [writerBar EXCEPT ![z] = NoThread]
  BY <1>1, GiveBackStep
<1>3. \/ chunk_offset[z] + 1 = MaxZoneChunks /\ zone_state'[z] \in {"FULL", "WRITE_OCCURING"}
      \/ /\ chunk_offset[z] + 1 # MaxZoneChunks /\ zone_state'[z] = "ACTIVE"
         /\ chunk_offset'[z] = chunk_offset[z] + 1
  BY <1>0 DEF zsm_return_active_zone, close_zone, ZsmInv, ZsmTypeOK
<1> HIDE DEF z
<1>4. CASE chunk_offset[z] + 1 = MaxZoneChunks /\ zone_state'[z] \in {"FULL", "WRITE_OCCURING"}
  <2>1. wpBar'[z] = 0 /\ phaseBar'[z] \in {"full", "lost"}
    BY <1>0, <1>2, <1>4, NotHeldAfter
  <2>2. Lifecycle!Commit(t, z)
    BY <1>2, <1>4, <2>1 DEF Lifecycle!Commit
  <2> QED BY <1>0, <2>2
<1>5. CASE /\ chunk_offset[z] + 1 # MaxZoneChunks /\ zone_state'[z] = "ACTIVE"
           /\ chunk_offset'[z] = chunk_offset[z] + 1
  <2>1. wpBar'[z] = wpBar[z] + 1 /\ phaseBar'[z] = phaseBar[z]
    BY <1>0, <1>2, <1>5, NotHeldAfter
  <2>2. wpBar[z] + 1 < MaxZoneChunks
    BY <1>0, <1>2, <1>5, MaxZoneChunksAssumption
  <2>3. phaseBar' = phaseBar
    <3>1. phaseBar = [y \in Zones |-> phaseBar[y]]
      BY DEF phaseBar
    <3>2. [phaseBar EXCEPT ![z] = phaseBar[z]] = phaseBar
      BY <1>0, <3>1, SameAt
    <3> QED BY <1>2, <2>1, <3>2
  <2>4. wpBar' = [wpBar EXCEPT ![z] = @ + 1]
    BY <1>2, <2>1
  <2>5. Lifecycle!Commit(t, z)
    BY <1>2, <2>2, <2>3, <2>4 DEF Lifecycle!Commit
  <2> QED BY <1>0, <2>5
<1> QED BY <1>3, <1>4, <1>5

\* The write failed.
LEMMA FailedRefines ==
  ASSUME ZsmInv, ZsmInv', NEW t \in Threads, grant[t] # NoPair,
         zsm_failed_to_write(t, grant[t])
  PROVE  \E z \in Zones : Lifecycle!Abort(t, z)
<1> DEFINE z == grant[t].zone
<1>0. z \in Zones /\ grant' = [grant EXCEPT ![t] = NoPair] /\ free' = free
  BY GrantedZone DEF zsm_failed_to_write
<1>1. /\ zone_state'[z] = "ACTIVE" /\ chunk_offset'[z] = chunk_offset[z]
      /\ \A y \in Zones \ {z} : zone_state'[y] = zone_state[y] /\ chunk_offset'[y] = chunk_offset[y]
  BY <1>0 DEF zsm_failed_to_write, ZsmInv, ZsmTypeOK
<1>2. /\ phaseBar[z] = "open" /\ writerBar[z] = t /\ wpBar[z] = chunk_offset[z]
      /\ \A u \in Threads : ~Holds(grant', u, z)
      /\ phaseBar' = [phaseBar EXCEPT ![z] = phaseBar'[z]]
      /\ wpBar' = [wpBar EXCEPT ![z] = wpBar'[z]]
      /\ writerBar' = [writerBar EXCEPT ![z] = NoThread]
  BY <1>0, <1>1, GiveBackStep
<1> HIDE DEF z
<1>3. phaseBar'[z] = phaseBar[z] /\ wpBar'[z] = wpBar[z]
  BY <1>0, <1>1, <1>2, NotHeldAfter
<1>4. phaseBar' = phaseBar /\ wpBar' = wpBar
  <2>1. phaseBar = [y \in Zones |-> phaseBar[y]] /\ wpBar = [y \in Zones |-> wpBar[y]]
    BY DEF phaseBar, wpBar
  <2>2. [phaseBar EXCEPT ![z] = phaseBar[z]] = phaseBar /\ [wpBar EXCEPT ![z] = wpBar[z]] = wpBar
    BY <1>0, <2>1, SameAt
  <2> QED BY <1>2, <1>3, <2>2
<1>5. Lifecycle!Abort(t, z)
  BY <1>2, <1>4 DEF Lifecycle!Abort
<1> QED BY <1>0, <1>5

\* Nothing of the life cycle changes.
LEMMA Stutter ==
  ASSUME UNCHANGED <<zone_state, chunk_offset, free, grant>>
  PROVE  UNCHANGED Lifecycle!vars
<1>1. phaseBar' = phaseBar /\ wpBar' = wpBar /\ writerBar' = writerBar
  BY DEF phaseBar, wpBar, writerBar, Granted
<1> QED BY <1>1 DEF Lifecycle!vars

\* A zone is reset, or the device refuses.
LEMMA EvictRefines ==
  ASSUME ZsmInv, ZsmInv', NEW z \in Zones, EvictStep(z)
  PROVE  Lifecycle!Reclaim(z) \/ UNCHANGED Lifecycle!vars
<1>1. zone_state[z] \in {"FULL", "WRITE_OCCURING"} /\ grant' = grant
  BY DEF EvictStep, LastChunkWritten, zsm_evict
<1>2. \A u \in Threads : ~Holds(grant, u, z) /\ ~Holds(grant', u, z)
  <2>1. ASSUME NEW u \in Threads, grant[u] # NoPair, grant[u].zone = z PROVE FALSE
    <3>1. zone_state[z] = "WRITE_OCCURING" /\ chunk_offset[z] < MaxZoneChunks
      BY <2>1, GrantedZone, MaxZoneChunksAssumption
    <3> QED BY <3>1, MaxZoneChunksAssumption DEF EvictStep, LastChunkWritten
  <2> QED BY <1>1, <2>1 DEF Holds
<1>3. /\ phaseBar[z] \in {"full", "lost"} /\ wpBar[z] = 0 /\ writerBar[z] = NoThread
  BY <1>1, <1>2, NotHeld
<1>4. CASE ResetDone(z)
  <2>1. /\ zone_state' = [zone_state EXCEPT ![z] = "FREE"]
        /\ chunk_offset' = [chunk_offset EXCEPT ![z] = 0] /\ free' = Append(free, z)
    BY <1>1, <1>4 DEF ResetDone
  <2>2. \A y : InQueue(free', y) <=> InQueue(free, y) \/ y = z
    BY <2>1, PushQueue DEF ZsmInv, ZsmTypeOK
  <2>3. zone_state'[z] = "FREE" /\ InQueue(free', z)
    BY <2>1, <2>2 DEF ZsmInv, ZsmTypeOK
  <2>4. phaseBar'[z] = "free" /\ wpBar'[z] = 0 /\ writerBar'[z] = NoThread
    BY <1>2, <2>3, NotHeldAfter
  <2>5. \A y \in Zones \ {z} :
          /\ zone_state'[y] = zone_state[y] /\ chunk_offset'[y] = chunk_offset[y]
          /\ InQueue(free', y) <=> InQueue(free, y)
          /\ \A u \in Threads : Holds(grant', u, y) <=> Holds(grant, u, y)
    BY <1>1, <2>1, <2>2 DEF ZsmInv, ZsmTypeOK
  <2>6. /\ phaseBar' = [phaseBar EXCEPT ![z] = "free"]
        /\ wpBar' = [wpBar EXCEPT ![z] = wpBar[z]]
        /\ writerBar' = [writerBar EXCEPT ![z] = writerBar[z]]
    BY <1>3, <2>4, <2>5, OneZoneChanges
  <2>7. wpBar' = wpBar /\ writerBar' = writerBar
    <3>1. wpBar = [y \in Zones |-> wpBar[y]] /\ writerBar = [y \in Zones |-> writerBar[y]]
      BY DEF wpBar, writerBar
    <3> QED BY <2>6, <3>1, SameAt
  <2> QED BY <1>3, <2>6, <2>7 DEF Lifecycle!Reclaim
<1>5. CASE ResetFailed(z)
  BY <1>1, <1>5, Stutter DEF ResetFailed
<1> QED BY <1>4, <1>5 DEF EvictStep, zsm_evict
------------------------------------------------------------------------------
\* The manager starts where the life cycle starts.
LEMMA InitRefines == zsm_init => Lifecycle!Init
<1> SUFFICES ASSUME zsm_init PROVE Lifecycle!Init
  OBVIOUS
<1>1. \A z \in Zones : zone_state[z] = "FREE" /\ ~Granted(z) /\ InQueue(free, z)
  BY NumZonesAssumption DEF zsm_init, Granted, InQueue, Zones
<1>2. phaseBar = [z \in Zones |-> "free"]
  BY <1>1 DEF phaseBar
<1>3. wpBar = [z \in Zones |-> 0] /\ writerBar = [z \in Zones |-> NoThread]
  BY <1>1 DEF wpBar, writerBar
<1> QED BY <1>2, <1>3 DEF Lifecycle!Init

\* Every step of the manager is a step of the life cycle or changes nothing of it.
LEMMA StepRefines ==
  ASSUME ZsmInv, ActiveZoneBudget, [ZsmNext]_zsmVars
  PROVE  [Lifecycle!Next]_(Lifecycle!vars)
<1>0. ZsmInv'
  BY ZsmStepInv
<1>1. ASSUME NEW t \in Threads, ThreadStep(t) PROVE Lifecycle!Next
  <2>1. CASE grant[t] = NoPair /\ zsm_get_active_zone_success(t)
    BY <1>0, <2>1, GetRefines DEF Lifecycle!Next
  <2>2. CASE grant[t] = NoPair /\ zsm_get_active_zone_error(t)
    BY <1>0, <2>2, OpenErrorRefines DEF Lifecycle!Next
  <2>3. CASE grant[t] # NoPair /\ zsm_return_active_zone(t, grant[t])
    BY <1>0, <2>3, ReturnRefines DEF Lifecycle!Next
  <2>4. CASE grant[t] # NoPair /\ zsm_failed_to_write(t, grant[t])
    BY <1>0, <2>4, FailedRefines DEF Lifecycle!Next
  <2> QED BY <1>1, <2>1, <2>2, <2>3, <2>4 DEF ThreadStep
<1>2. ASSUME NEW z \in Zones, EvictStep(z) PROVE [Lifecycle!Next]_(Lifecycle!vars)
  BY <1>0, <1>2, EvictRefines DEF Lifecycle!Next
<1>3. ASSUME NEW pair \in zn_pair, InvalidateStep(pair) PROVE UNCHANGED Lifecycle!vars
  BY <1>3, Stutter DEF InvalidateStep, zsm_mark_chunk_invalid
<1>4. CASE UNCHANGED zsmVars
  BY <1>4, Stutter DEF zsmVars
<1> QED BY <1>1, <1>2, <1>3, <1>4 DEF ZsmNext

\* The zone state manager implements ZoneLifecycle: whatever the interleaving of
\* threads and whatever the device refuses, zones are granted exclusively and
\* written in order, and never more of them are open than the device allows.
THEOREM ZsmRefines == ZsmSpec => RefinesLifecycle
<1>1. ZsmInv /\ ActiveZoneBudget /\ [ZsmNext]_zsmVars => [Lifecycle!Next]_(Lifecycle!vars)
  BY StepRefines
<1> QED BY <1>1, InitRefines, ZsmInductive, PTL DEF ZsmSpec, RefinesLifecycle, Lifecycle!Spec
==============================================================================
