---------------------------- MODULE ZoneRefinement ----------------------------
(***************************************************************************)
(* The refinement mapping from the zone state manager to ZoneLifecycle.    *)
(***************************************************************************)
EXTENDS ZoneStateManager

CONSTANT NoThread

ASSUME NoThreadAssumption == NoThread \notin Threads

Granted(z) == \E t \in Threads : grant[t] # NoPair /\ grant[t].zone = z

\* A zone is open exactly while the manager counts it, free exactly while it
\* can be found in the free queue; a zone in neither place is lost.
phaseBar ==
  [z \in Zones |->
     CASE zone_state[z] = "ACTIVE" \/ Granted(z) -> "open"
       [] zone_state[z] = "FULL" -> "full"
       [] InQueue(free, z) -> "free"
       [] OTHER -> "lost"]

wpBar ==
  [z \in Zones |->
     IF zone_state[z] = "ACTIVE" \/ Granted(z) THEN chunk_offset[z] ELSE 0]

writerBar ==
  [z \in Zones |->
     IF Granted(z)
     THEN CHOOSE t \in Threads : grant[t] # NoPair /\ grant[t].zone = z
     ELSE NoThread]

Lifecycle ==
  INSTANCE ZoneLifecycle WITH phase <- phaseBar, wp <- wpBar, writer <- writerBar

\* The manager, with its queues and its counter, is an implementation of
\* ZoneLifecycle: zones are granted exclusively and in order, and never more of
\* them are open than the device allows, whatever the interleaving of threads.
RefinesLifecycle == Lifecycle!Spec
==============================================================================
