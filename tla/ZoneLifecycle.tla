---------------------------- MODULE ZoneLifecycle ----------------------------
(***************************************************************************)
(* What the zone state manager promises, without queues, counters or       *)
(* per-thread bookkeeping: each zone goes from free to open to full and    *)
(* back, its chunks are written one at a time and in order, a zone has at  *)
(* most one writer and a writer one zone, and no more zones are open than  *)
(* the device allows.  A zone whose device command failed is out of        *)
(* service ("lost") until it is reclaimed, if it ever is.                  *)
(***************************************************************************)
EXTENDS Integers, FiniteSets

CONSTANTS Zones, MaxZoneChunks, MaxNrActiveZones, Threads, NoThread

VARIABLES
  phase,  \* phase[z]: "free", "open", "full" or "lost"
  wp,     \* wp[z]: chunks written in z while it is open
  writer  \* writer[z]: the thread that may write chunk wp[z] of z

vars == <<phase, wp, writer>>

Open == {z \in Zones : phase[z] = "open"}

Init ==
  /\ phase = [z \in Zones |-> "free"]
  /\ wp = [z \in Zones |-> 0]
  /\ writer = [z \in Zones |-> NoThread]

\* t becomes the writer of an open zone that has none, or of a zone it opens.
Acquire(t, z) ==
  /\ \A y \in Zones : writer[y] # t
  /\ writer[z] = NoThread
  /\ \/ phase[z] = "open"
     \/ phase[z] = "free" /\ Cardinality(Open) < MaxNrActiveZones
  /\ phase' = [phase EXCEPT ![z] = "open"]
  /\ writer' = [writer EXCEPT ![z] = t]
  /\ UNCHANGED wp

\* t's chunk is written; the last chunk makes the zone full, or loses it.
Commit(t, z) ==
  /\ phase[z] = "open" /\ writer[z] = t
  /\ writer' = [writer EXCEPT ![z] = NoThread]
  /\ \/ /\ wp[z] + 1 < MaxZoneChunks
        /\ wp' = [wp EXCEPT ![z] = @ + 1]
        /\ UNCHANGED phase
     \/ /\ wp[z] + 1 = MaxZoneChunks
        /\ wp' = [wp EXCEPT ![z] = 0]
        /\ \E p \in {"full", "lost"} : phase' = [phase EXCEPT ![z] = p]

\* t's write failed; the same chunk is next again.
Abort(t, z) ==
  /\ phase[z] = "open" /\ writer[z] = t
  /\ writer' = [writer EXCEPT ![z] = NoThread]
  /\ UNCHANGED <<phase, wp>>

Reclaim(z) ==
  /\ phase[z] \in {"full", "lost"}
  /\ phase' = [phase EXCEPT ![z] = "free"]
  /\ UNCHANGED <<wp, writer>>

\* A free zone could not be opened.
Lose(z) ==
  /\ phase[z] = "free"
  /\ phase' = [phase EXCEPT ![z] = "lost"]
  /\ UNCHANGED <<wp, writer>>

Next ==
  \E z \in Zones :
    \/ \E t \in Threads : Acquire(t, z) \/ Commit(t, z) \/ Abort(t, z)
    \/ Reclaim(z)
    \/ Lose(z)

Spec == Init /\ [][Next]_vars
==============================================================================
