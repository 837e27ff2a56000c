-------------------------------- MODULE MinHeap --------------------------------
(***************************************************************************)
(* The priority queue of the chunk policy (src/minheap.c): an array of     *)
(* pointers to entries, each entry knowing its own place in the array.     *)
(* The mutex of the heap makes each operation atomic.  An entry that was   *)
(* extracted stays with the caller, who may still pass it to               *)
(* zn_minheap_update_by_entry until he frees it.                           *)
(***************************************************************************)
EXTENDS Integers, FiniteSets

CONSTANTS
  Entries,     \* the pointers malloc may return
  MaxPriority, \* bound: largest priority explored
  InitCapacity \* the capacity given to zn_minheap_init (cache->nr_zones)

ASSUME EntriesAssumption == IsFiniteSet(Entries)
ASSUME MaxPriorityAssumption == MaxPriority \in Nat
ASSUME InitCapacityAssumption == InitCapacity \in Nat \ {0}

VARIABLES
  heap,     \* arr and the index fields: the two things a swap changes
  size,     \* entries in use of heap.arr
  capacity, \* allocated length of heap.arr
  priority, \* priority[e]
  live      \* entries the caller may use: in the heap, or extracted and not freed

heapVars == <<heap, size, capacity, priority, live>>

Nil == "nil"

Priorities == 0 .. MaxPriority

Slots == 0 .. Cardinality(Entries) - 1

\* A slot at or beyond size is never read and is Nil here.
Heaps == [arr : [Slots -> Entries \cup {Nil}], index : [Entries -> Slots]]

zn_minheap_init ==
  /\ heap = [arr |-> [s \in Slots |-> Nil], index |-> [e \in Entries |-> 0]]
  /\ size = 0
  /\ capacity = InitCapacity
  /\ priority = [e \in Entries |-> 0]
  /\ live = {}

\* Swap two pointers and tell both entries where they are now.
Swap(h, i, j) ==
  [arr   |-> [h.arr EXCEPT ![i] = h.arr[j], ![j] = h.arr[i]],
   index |-> [h.index EXCEPT ![h.arr[j]] = i, ![h.arr[i]] = j]]

bubble_up(prio, h0, i0) ==
  LET up[x \in Heaps \X Slots] ==
        LET h == x[1]
            i == x[2]
            parent == (i - 1) \div 2 IN
        IF i > 0 /\ prio[h.arr[i]] < prio[h.arr[parent]]
        THEN up[<<Swap(h, i, parent), parent>>]
        ELSE h
  IN up[<<h0, i0>>]

\* Mutant: the right child is not looked at.
bubble_down_LeftOnly(prio, n, h0, i0) ==
  LET down[x \in Heaps \X Slots] ==
        LET h == x[1]
            i == x[2]
            left == 2 * i + 1 IN
        IF left < n /\ prio[h.arr[left]] < prio[h.arr[i]]
        THEN down[<<Swap(h, i, left), left>>] ELSE h
  IN down[<<h0, i0>>]

\* The place of the child, when the child is in use and has the smaller priority.
Smaller(prio, n, h, child, s) ==
  IF child < n /\ prio[h.arr[child]] < prio[h.arr[s]] THEN child ELSE s

bubble_down(prio, n, h0, i0) ==
  LET down[x \in Heaps \X Slots] ==
        LET h == x[1]
            i == x[2]
            smallest == Smaller(prio, n, h, 2 * i + 2, Smaller(prio, n, h, 2 * i + 1, i)) IN
        IF smallest # i THEN down[<<Swap(h, i, smallest), smallest>>] ELSE h
  IN down[<<h0, i0>>]
------------------------------------------------------------------------------
\* Mutant: the array grows one insertion too late.
minheap_realloc_Late == IF size > capacity THEN capacity * 2 ELSE capacity

minheap_realloc == IF size = capacity THEN capacity * 2 ELSE capacity

zn_minheap_insert(e, p) ==
  /\ e \notin live
  /\ capacity' = minheap_realloc
  /\ priority' = [priority EXCEPT ![e] = p]
  /\ heap' = bubble_up(priority',
               [arr |-> [heap.arr EXCEPT ![size] = e],
                index |-> [heap.index EXCEPT ![e] = size]], size)
  /\ size' = size + 1
  /\ live' = live \cup {e}

\* Mutant: the last entry is taken instead of the root.
zn_minheap_extract_min_TakesLast ==
  /\ size > 0
  /\ size' = size - 1
  /\ heap' = [heap EXCEPT !.arr[size'] = Nil]
  /\ UNCHANGED <<capacity, priority, live>>

\* The root is replaced by the last entry, which then sinks.
zn_minheap_extract_min ==
  /\ size > 0
  /\ size' = size - 1
  /\ LET last == heap.arr[size']
         rest == [heap.arr EXCEPT ![size'] = Nil] IN
     heap' = IF size' = 0
             THEN [heap EXCEPT !.arr = rest]
             ELSE bubble_down(priority, size',
                    [arr |-> [rest EXCEPT ![0] = last],
                     index |-> [heap.index EXCEPT ![last] = 0]], 0)
  /\ UNCHANGED <<capacity, priority, live>>

\* An entry whose index is no longer in use is refused and keeps its priority.
zn_minheap_update_by_entry(e, p) ==
  /\ e \in live
  /\ heap.index[e] < size
  /\ priority' = [priority EXCEPT ![e] = p]
  /\ heap' = IF p < priority[e] THEN bubble_up(priority', heap, heap.index[e])
             ELSE IF p > priority[e] THEN bubble_down(priority', size, heap, heap.index[e])
             ELSE heap
  /\ UNCHANGED <<size, capacity, live>>

InHeap == {heap.arr[s] : s \in 0 .. size - 1}

\* The caller frees an entry he extracted.
FreeExtracted(e) ==
  /\ e \in live \ InHeap
  /\ live' = live \ {e}
  /\ UNCHANGED <<heap, size, capacity, priority>>

HeapNext ==
  \/ \E e \in Entries, p \in Priorities : zn_minheap_insert(e, p)
  \/ zn_minheap_extract_min
  \/ \E e \in Entries, p \in Priorities : zn_minheap_update_by_entry(e, p)
  \/ \E e \in Entries : FreeExtracted(e)

HeapSpec == zn_minheap_init /\ [][HeapNext]_heapVars
------------------------------------------------------------------------------
\* No child has a smaller priority than its parent, also after the priority of an
\* extracted entry was changed through its stale index.
HeapOrdered ==
  \A s \in 1 .. size - 1 :
    priority[heap.arr[(s - 1) \div 2]] <= priority[heap.arr[s]]

\* No slot beyond the allocated array is written.
FitsCapacity == size <= capacity

Abstract ==
  INSTANCE PriorityQueue WITH Items <- Entries, queue <- [e \in InHeap |-> priority[e]]

\* Seen from its callers the heap is a priority queue: an extraction returns an
\* entry of least priority, bubbling neither loses nor duplicates one, and an
\* update through an entry that was extracted before changes nothing.
RefinesPriorityQueue == Abstract!Spec
==============================================================================
