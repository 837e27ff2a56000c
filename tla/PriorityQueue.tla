----------------------------- MODULE PriorityQueue -----------------------------
(***************************************************************************)
(* What the minimum heap promises its callers (include/minheap.h): a bag   *)
(* of items with priorities, out of which the item of least priority comes *)
(* first.  MinHeap implements it.                                          *)
(***************************************************************************)
EXTENDS Integers

CONSTANTS Items, Priorities

VARIABLE queue  \* queue[e]: the priority of item e, for every item that is queued

Queued == DOMAIN queue

Init == queue = [e \in {} |-> 0]

Insert(e, p) ==
  /\ e \notin Queued
  /\ queue' = [x \in Queued \cup {e} |-> IF x = e THEN p ELSE queue[x]]

\* Any item of least priority may come out.
ExtractMin(e) ==
  /\ e \in Queued
  /\ \A x \in Queued : queue[e] <= queue[x]
  /\ queue' = [x \in Queued \ {e} |-> queue[x]]

Update(e, p) ==
  /\ e \in Queued
  /\ queue' = [queue EXCEPT ![e] = p]

Next ==
  \E e \in Items :
    \/ ExtractMin(e)
    \/ \E p \in Priorities : Insert(e, p) \/ Update(e, p)

Spec == Init /\ [][Next]_queue
==============================================================================
