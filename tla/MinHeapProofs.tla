----------------------------- MODULE MinHeapProofs -----------------------------
(***************************************************************************)
(* The heap is a priority queue, for any number of entries and priorities  *)
(* and any initial capacity: the array is never written beyond its end,    *)
(* bubble_up and bubble_down restore the order they find disturbed in one  *)
(* place and keep the entries, and every operation is one of               *)
(* PriorityQueue.                                                          *)
(*                                                                         *)
(* The two recursive functions are dealt with by the least-number          *)
(* principle for sets of naturals: no step of the recursion goes wrong     *)
(* first.                                                                  *)
(***************************************************************************)
EXTENDS MinHeap, TLAPS, FiniteSetTheorems, WellFoundedInduction, NaturalsInduction

\* zn_minheap_insert doubles the array when it is full: that makes room for one
\* more entry only because the capacity is never 0, so both are needed.
CapacityInv ==
  /\ size \in Nat
  /\ capacity \in Nat \ {0}
  /\ size <= capacity

\* zn_minheap_init allocates at least one slot, cache->nr_zones of them.
LEMMA CapacityInit == zn_minheap_init => CapacityInv
BY InitCapacityAssumption DEF zn_minheap_init, CapacityInv

\* An insertion into a full array finds it reallocated; no other operation adds.
LEMMA CapacityStep == CapacityInv /\ [HeapNext]_heapVars => CapacityInv'
<1> SUFFICES ASSUME CapacityInv, [HeapNext]_heapVars PROVE CapacityInv'
  OBVIOUS
<1>1. ASSUME NEW e \in Entries, NEW p \in Priorities, zn_minheap_insert(e, p) PROVE CapacityInv'
  <2>1. size' = size + 1 /\ capacity' = IF size = capacity THEN capacity * 2 ELSE capacity
    BY <1>1 DEF zn_minheap_insert, minheap_realloc
  <2> QED BY <2>1 DEF CapacityInv
<1>2. CASE zn_minheap_extract_min
  <2>1. size > 0 /\ size' = size - 1 /\ capacity' = capacity
    BY <1>2 DEF zn_minheap_extract_min
  <2> QED BY <2>1 DEF CapacityInv
<1>3. ASSUME NEW e \in Entries, NEW p \in Priorities, zn_minheap_update_by_entry(e, p) PROVE CapacityInv'
  BY <1>3 DEF zn_minheap_update_by_entry, CapacityInv
<1>4. ASSUME NEW e \in Entries, FreeExtracted(e) PROVE CapacityInv'
  BY <1>4 DEF FreeExtracted, CapacityInv
<1>5. CASE UNCHANGED heapVars
  BY <1>5 DEF heapVars, CapacityInv
<1> QED BY <1>1, <1>2, <1>3, <1>4, <1>5 DEF HeapNext

\* No slot beyond the allocated array is written (minheap_realloc is called by
\* zn_minheap_insert before heap->arr[heap->size] is assigned).
THEOREM HeapFits == HeapSpec => []FitsCapacity
<1>1. CapacityInv => FitsCapacity
  BY DEF CapacityInv, FitsCapacity
<1> QED BY CapacityInit, CapacityStep, <1>1, PTL DEF HeapSpec
------------------------------------------------------------------------------
(***************************************************************************)
(* The recursion.                                                          *)
(***************************************************************************)
\* A set of naturals that is not empty has a least element.
LEMMA Least ==
  ASSUME NEW T \in SUBSET Nat, T # {}
  PROVE  \E m \in T : \A k \in T : m <= k
<1> DEFINE R == {ss \in Nat \X Nat : ss[1] < ss[2]}
<1>0. IsWellFoundedOn(R, Nat)
  BY NatLessThanWellFounded DEF OpToRel
<1>1. PICK m \in T : \A y \in T : ~(<<y,m>> \in R)
  <2> HIDE DEF R
  <2> QED BY <1>0, WFMin
<1>2. ASSUME NEW y \in T, y < m PROVE FALSE
  <2>1. y \in Nat /\ m \in Nat
    OBVIOUS
  <2>2. <<y, m>> \in R
    BY <1>2, <2>1
  <2> QED BY <1>1, <2>2
<1>3. \A y \in T : y \in Nat /\ m \in Nat
  OBVIOUS
<1> QED BY ONLY <1>2, <1>3

\* The place above a place of the array.
Parent(i) == (i - 1) \div 2

\* A place has two places below it.
LEMMA ParentFacts ==
  ASSUME NEW s \in Nat \ {0}
  PROVE  Parent(s) \in Nat /\ Parent(s) < s /\ (s = 2 * Parent(s) + 1 \/ s = 2 * Parent(s) + 2)
BY DEF Parent

\* The place above one of n places is one of them.
LEMMA ParentAbove ==
  ASSUME NEW n \in Nat, NEW s \in 1 .. n - 1
  PROVE  Parent(s) \in 0 .. n - 1 /\ Parent(s) < s
<1>1. s \in Nat \ {0} /\ s < n
  OBVIOUS
<1> QED BY <1>1, ParentFacts

\* The places of the array.
LEMMA SlotFacts ==
  /\ Cardinality(Entries) \in Nat
  /\ \A i \in Slots : i \in Nat /\ i < Cardinality(Entries)
  /\ \A i \in Nat : i < Cardinality(Entries) => i \in Slots
<1>1. Cardinality(Entries) \in Nat
  BY EntriesAssumption, FS_CardinalityType
<1> QED BY <1>1 DEF Slots

\* A swap leaves an array of entries and their places.
LEMMA SwapHeap ==
  ASSUME NEW h \in Heaps, NEW i \in Slots, NEW j \in Slots
  PROVE  Swap(h, i, j) \in Heaps
<1>1. h.arr \in [Slots -> Entries \cup {Nil}] /\ h.index \in [Entries -> Slots]
  BY DEF Heaps
<1>2. [h.arr EXCEPT ![i] = h.arr[j], ![j] = h.arr[i]] \in [Slots -> Entries \cup {Nil}]
  BY <1>1
<1>3. [h.index EXCEPT ![h.arr[j]] = i, ![h.arr[i]] = j] \in [Entries -> Slots]
  BY <1>1
<1> QED BY <1>2, <1>3 DEF Swap, Heaps

\* One step of bubble_up, when f is the rest.
UpBody(prio, f, h, i) ==
  IF i > 0 /\ prio[h.arr[i]] < prio[h.arr[Parent(i)]]
  THEN f[<<Swap(h, i, Parent(i)), Parent(i)>>]
  ELSE h

\* The function bubble_up computes.
Up(prio) == CHOOSE f : f = [x \in Heaps \X Slots |-> UpBody(prio, f, x[1], x[2])]

\* bubble_up is that function.
LEMMA BubbleUp == \A prio, h0, i0 : bubble_up(prio, h0, i0) = Up(prio)[<<h0, i0>>]
BY DEF bubble_up, Up, UpBody, Parent

\* There is such a function: every call goes to a place above.
LEMMA UpExists ==
  ASSUME NEW prio
  PROVE  \E f : f = [x \in Heaps \X Slots |-> UpBody(prio, f, x[1], x[2])]
<1> DEFINE Good(g, n) == \A h \in Heaps, i \in Slots : i < n => g[<<h, i>>] = UpBody(prio, g, h, i)
<1> DEFINE Bad == {n \in Nat : ~\E g : Good(g, n)}
<1>1. Bad = {}
  <2> SUFFICES ASSUME Bad # {} PROVE FALSE
    OBVIOUS
  <2>1. PICK m \in Bad : \A k \in Bad : m <= k
    <3> HIDE DEF Bad
    <3>1. Bad \in SUBSET Nat
      BY DEF Bad
    <3> QED BY <3>1, Least
  <2>2. m \in Nat /\ ~\E g : Good(g, m)
    BY DEF Bad
  <2>3. m # 0
    <3>1. \A g : Good(g, 0)
      BY SlotFacts
    <3> HIDE DEF Good
    <3> QED BY <2>2, <3>1
  <2>4. PICK g : Good(g, m - 1)
    <3>1. m - 1 \in Nat /\ m - 1 \notin Bad
      <4> HIDE DEF Good, Bad
      <4> QED BY <2>1, <2>2, <2>3
    <3> HIDE DEF Good
    <3> QED BY <3>1 DEF Bad
  <2> DEFINE e == [x \in Heaps \X Slots |-> UpBody(prio, g, x[1], x[2])]
  <2>5. \A h \in Heaps, i \in Slots : e[<<h, i>>] = UpBody(prio, g, h, i)
    <3> HIDE DEF Good
    <3> QED OBVIOUS
  <2>6. \A h \in Heaps, i \in Slots : i < m - 1 => e[<<h, i>>] = g[<<h, i>>]
    BY <2>4, <2>5
  <2> HIDE DEF e
  <2>7. ASSUME NEW h \in Heaps, NEW i \in Slots, i < m PROVE e[<<h, i>>] = UpBody(prio, e, h, i)
    <3>1. CASE i = 0
      <4>1. \A f : UpBody(prio, f, h, i) = h
        BY <3>1 DEF UpBody
      <4> QED BY <2>5, <4>1
    <3>2. CASE i # 0
      <4>1. Parent(i) \in Slots /\ Parent(i) < m - 1
        BY <2>2, <2>7, <3>2, SlotFacts, ParentFacts
      <4>2. Swap(h, i, Parent(i)) \in Heaps
        BY <4>1, SwapHeap
      <4>3. e[<<Swap(h, i, Parent(i)), Parent(i)>>] = g[<<Swap(h, i, Parent(i)), Parent(i)>>]
        BY <2>6, <4>1, <4>2
      <4> QED BY <2>5, <4>3 DEF UpBody
    <3> QED BY <3>1, <3>2
  <2> QED BY <2>2, <2>7
<1>2. PICK g : Good(g, Cardinality(Entries))
  <2> HIDE DEF Good
  <2> QED BY <1>1, SlotFacts
<1> DEFINE e == [x \in Heaps \X Slots |-> g[x]]
<1>3. \A h \in Heaps, i \in Slots : e[<<h, i>>] = g[<<h, i>>]
  <2> HIDE DEF Good
  <2> QED OBVIOUS
<1>4. ASSUME NEW h \in Heaps, NEW i \in Slots PROVE g[<<h, i>>] = UpBody(prio, e, h, i)
  <2> HIDE DEF e
  <2>1. g[<<h, i>>] = UpBody(prio, g, h, i)
    BY <1>2, SlotFacts
  <2>2. CASE i = 0
    BY <2>1, <2>2 DEF UpBody
  <2>3. CASE i # 0
    <3>1. Parent(i) \in Slots
      BY <2>3, SlotFacts, ParentFacts
    <3>2. Swap(h, i, Parent(i)) \in Heaps
      BY <3>1, SwapHeap
    <3> QED BY <1>3, <2>1, <3>1, <3>2 DEF UpBody
  <2> QED BY <2>2, <2>3
<1>5. e = [x \in Heaps \X Slots |-> UpBody(prio, e, x[1], x[2])]
  <2>1. e = [x \in Heaps \X Slots |-> g[x]]
    OBVIOUS
  <2> HIDE DEF e, Good
  <2> QED BY <1>4, <2>1
<1> HIDE DEF e
<1> QED BY <1>5

\* The function does what its definition says.
LEMMA UpIs ==
  ASSUME NEW prio, NEW h \in Heaps, NEW i \in Slots
  PROVE  Up(prio)[<<h, i>>] = UpBody(prio, Up(prio), h, i)
<1>1. Up(prio) = [x \in Heaps \X Slots |-> UpBody(prio, Up(prio), x[1], x[2])]
  BY UpExists DEF Up
<1> QED BY <1>1
------------------------------------------------------------------------------
(***************************************************************************)
(* What a swap does to the entries and to their order.                     *)
(***************************************************************************)
\* The first n slots hold entries, and each knows its slot.
Placed(h, n) == \A s \in 0 .. n - 1 : h.arr[s] \in Entries /\ h.index[h.arr[s]] = s

\* The entries of the first n slots.
Content(h, n) == {h.arr[s] : s \in 0 .. n - 1}

\* The n slots of r hold the entries the n slots of h hold, and no other entry
\* was touched.
Rearranged(h, r, n) ==
  /\ r \in Heaps
  /\ Placed(r, n)
  /\ Content(r, n) = Content(h, n)
  /\ \A e \in Entries \ Content(h, n) : r.index[e] = h.index[e]

\* A swap of two slots in use rearranges.
LEMMA SwapFacts ==
  ASSUME NEW h \in Heaps, NEW n \in Nat, n <= Cardinality(Entries), Placed(h, n),
         NEW i \in 0 .. n - 1, NEW j \in 0 .. n - 1, i # j
  PROVE  /\ Rearranged(h, Swap(h, i, j), n)
         /\ \A s \in 0 .. n - 1 :
              Swap(h, i, j).arr[s] = IF s = i THEN h.arr[j] ELSE IF s = j THEN h.arr[i] ELSE h.arr[s]
<1> DEFINE r == Swap(h, i, j)
<1>1. h.arr \in [Slots -> Entries \cup {Nil}] /\ h.index \in [Entries -> Slots]
  BY DEF Heaps
<1>2. \A s \in 0 .. n - 1 : s \in Slots
  BY SlotFacts
<1>3. h.arr[i] \in Entries /\ h.arr[j] \in Entries /\ h.arr[i] # h.arr[j]
  BY DEF Placed
<1>4. r \in Heaps
  BY <1>2, SwapHeap
<1>5. r.arr = [h.arr EXCEPT ![i] = h.arr[j], ![j] = h.arr[i]]
      /\ r.index = [h.index EXCEPT ![h.arr[j]] = i, ![h.arr[i]] = j]
  BY DEF Swap
<1>6. \A s \in 0 .. n - 1 : r.arr[s] = IF s = i THEN h.arr[j] ELSE IF s = j THEN h.arr[i] ELSE h.arr[s]
  BY <1>1, <1>2, <1>5
<1>7. \A e \in Entries : r.index[e] = IF e = h.arr[i] THEN j ELSE IF e = h.arr[j] THEN i ELSE h.index[e]
  BY <1>1, <1>3, <1>5
<1> HIDE DEF r
<1>8. Placed(r, n)
  BY <1>3, <1>6, <1>7 DEF Placed
<1>9. Content(r, n) = Content(h, n)
  <2>1. Content(r, n) \subseteq Content(h, n)
    BY <1>6 DEF Content
  <2>2. ASSUME NEW s \in 0 .. n - 1 PROVE h.arr[s] \in Content(r, n)
    <3>1. CASE s = i
      BY <1>6, <3>1 DEF Content
    <3>2. CASE s = j
      BY <1>6, <3>2 DEF Content
    <3>3. CASE s # i /\ s # j
      BY <1>6, <3>3 DEF Content
    <3> QED BY <3>1, <3>2, <3>3
  <2> QED BY <2>1, <2>2 DEF Content
<1>10. \A e \in Entries \ Content(h, n) : r.index[e] = h.index[e]
  BY <1>7 DEF Content
<1> QED BY <1>4, <1>6, <1>8, <1>9, <1>10 DEF Rearranged, r

\* Two rearrangements make one.
LEMMA RearrangedTwice ==
  ASSUME NEW h, NEW g, NEW r, NEW n, Rearranged(h, g, n), Rearranged(g, r, n)
  PROVE  Rearranged(h, r, n)
BY DEF Rearranged

\* The values v of n slots are ordered, except that the value of slot i may be
\* smaller than the one above it.
UpReady(v, n, i) ==
  /\ \A s \in 1 .. n - 1 : s # i => v[Parent(s)] <= v[s]
  /\ \A s \in 1 .. n - 1 : i > 0 /\ Parent(s) = i => v[Parent(i)] <= v[s]

\* The values v of n slots are ordered, except that the value of slot i may be
\* larger than those below it.
DownReady(v, n, i) ==
  /\ \A s \in 1 .. n - 1 : Parent(s) # i => v[Parent(s)] <= v[s]
  /\ \A s \in 1 .. n - 1 : i > 0 /\ Parent(s) = i => v[Parent(i)] <= v[s]

\* w is v with the values of two slots swapped.
Swapped(v, w, n, i, j) ==
  \A s \in 0 .. n - 1 : w[s] = IF s = i THEN v[j] ELSE IF s = j THEN v[i] ELSE v[s]

\* A value swapped with the larger one above it may be too small only there.
LEMMA UpSwap ==
  ASSUME NEW n \in Nat, NEW v \in [0 .. n - 1 -> Int], NEW w \in [0 .. n - 1 -> Int],
         NEW i \in 1 .. n - 1, UpReady(v, n, i), v[i] < v[Parent(i)],
         Swapped(v, w, n, i, Parent(i))
  PROVE  UpReady(w, n, Parent(i))
<1> DEFINE p == Parent(i)
<1>0. \A s \in 1 .. n - 1 : Parent(s) \in 0 .. n - 1 /\ Parent(s) < s
  BY ParentAbove
<1>1. p \in 0 .. n - 1 /\ p < i
  BY <1>0
<1>2. \A s \in 0 .. n - 1 : v[s] \in Int /\ w[s] \in Int
  OBVIOUS
<1>3. \A s \in 0 .. n - 1 : w[s] = IF s = i THEN v[p] ELSE IF s = p THEN v[i] ELSE v[s]
  BY DEF Swapped
<1> HIDE DEF p
<1>4. ASSUME NEW s \in 1 .. n - 1, s # p PROVE w[Parent(s)] <= w[s]
  <2>1. CASE s = i
    BY <1>0, <1>1, <1>2, <1>3, <2>1 DEF p
  <2>2. CASE s # i /\ Parent(s) = i
    <3>1. w[Parent(s)] = v[p] /\ w[s] = v[s]
      BY <1>0, <1>1, <1>3, <1>4, <2>2
    <3> QED BY <2>2, <3>1 DEF UpReady, p
  <2>3. CASE s # i /\ Parent(s) = p
    <3>1. w[Parent(s)] = v[i] /\ w[s] = v[s] /\ v[p] <= v[s]
      BY <1>0, <1>1, <1>3, <1>4, <2>3 DEF UpReady
    <3> QED BY <1>1, <1>2, <3>1 DEF p
  <2>4. CASE s # i /\ Parent(s) # i /\ Parent(s) # p
    <3>0. s \in 0 .. n - 1 /\ Parent(s) \in 0 .. n - 1
      BY <1>0
    <3>1. w[Parent(s)] = v[Parent(s)] /\ w[s] = v[s]
      BY ONLY <1>3, <1>4, <2>4, <3>0
    <3> QED BY <2>4, <3>1 DEF UpReady
  <2> QED BY <2>1, <2>2, <2>3, <2>4
<1>5. ASSUME NEW s \in 1 .. n - 1, p > 0, Parent(s) = p PROVE w[Parent(p)] <= w[s]
  <2>1. Parent(p) \in 0 .. n - 1 /\ Parent(p) < p /\ p \in 1 .. n - 1
    BY <1>0, <1>1, <1>5
  <2>2. v[Parent(p)] <= v[p] /\ w[Parent(p)] = v[Parent(p)]
    BY <1>1, <1>3, <2>1 DEF UpReady
  <2>3. CASE s = i
    BY <1>3, <2>2, <2>3
  <2>4. CASE s # i
    <3>1. w[s] = v[s] /\ v[p] <= v[s]
      BY <1>0, <1>1, <1>3, <1>5, <2>4 DEF UpReady
    <3> QED BY <1>1, <1>2, <2>1, <2>2, <3>1
  <2> QED BY <2>3, <2>4
<1> QED BY <1>4, <1>5 DEF UpReady, p

\* A value swapped with the smallest one below it may be too large only there.
LEMMA DownSwap ==
  ASSUME NEW n \in Nat, NEW v \in [0 .. n - 1 -> Int], NEW w \in [0 .. n - 1 -> Int],
         NEW i \in 0 .. n - 1, NEW c \in 1 .. n - 1, Parent(c) = i, DownReady(v, n, i), v[c] < v[i],
         \A s \in 1 .. n - 1 : Parent(s) = i => v[c] <= v[s],
         Swapped(v, w, n, i, c)
  PROVE  DownReady(w, n, c)
<1>0. \A s \in 1 .. n - 1 : Parent(s) \in 0 .. n - 1 /\ Parent(s) < s
  BY ParentAbove
<1>1. i < c /\ c \in 0 .. n - 1
  BY <1>0
<1>2. \A s \in 0 .. n - 1 : v[s] \in Int /\ w[s] \in Int
  OBVIOUS
<1>3. \A s \in 0 .. n - 1 : w[s] = IF s = i THEN v[c] ELSE IF s = c THEN v[i] ELSE v[s]
  BY DEF Swapped
<1>4. ASSUME NEW s \in 1 .. n - 1, Parent(s) # c PROVE w[Parent(s)] <= w[s]
  <2>1. CASE s = c
    BY <1>0, <1>1, <1>2, <1>3, <2>1
  <2>2. CASE s # c /\ Parent(s) = i
    <3>1. w[Parent(s)] = v[c] /\ w[s] = v[s]
      BY <1>0, <1>1, <1>3, <1>4, <2>2
    <3> QED BY <2>2, <3>1
  <2>3. CASE s = i
    <3>1. w[s] = v[c] /\ w[Parent(s)] = v[Parent(s)]
      BY <1>0, <1>1, <1>3, <1>4, <2>3
    <3> QED BY <1>0, <2>3, <3>1 DEF DownReady
  <2>4. CASE s # c /\ s # i /\ Parent(s) # i
    <3>0. s \in 0 .. n - 1 /\ Parent(s) \in 0 .. n - 1
      BY <1>0
    <3>1. w[Parent(s)] = v[Parent(s)] /\ w[s] = v[s]
      BY ONLY <1>3, <1>4, <2>4, <3>0
    <3> QED BY <2>4, <3>1 DEF DownReady
  <2> QED BY <2>1, <2>2, <2>3, <2>4
<1>5. ASSUME NEW s \in 1 .. n - 1, Parent(s) = c PROVE w[Parent(c)] <= w[s]
  <2>1. w[i] = v[c] /\ w[s] = v[s]
    BY <1>0, <1>1, <1>3, <1>5
  <2> QED BY <1>0, <1>1, <1>5, <2>1 DEF DownReady
<1> QED BY <1>4, <1>5 DEF DownReady
\* The priorities of the first n slots.
Values(prio, h, n) == [s \in 0 .. n - 1 |-> prio[h.arr[s]]]

\* No value is smaller than the one above it.
Sorted(v, n) == \A s \in 1 .. n - 1 : v[Parent(s)] <= v[s]

\* The values of entries are their priorities.
LEMMA ValuesType ==
  ASSUME NEW prio \in [Entries -> Int], NEW h, NEW n \in Nat, Placed(h, n)
  PROVE  /\ Values(prio, h, n) \in [0 .. n - 1 -> Int]
         /\ \A s \in 0 .. n - 1 : Values(prio, h, n)[s] = prio[h.arr[s]]
BY DEF Values, Placed

\* A swap of slots swaps the values.
LEMMA SwapValues ==
  ASSUME NEW prio \in [Entries -> Int], NEW h \in Heaps, NEW n \in Nat, n <= Cardinality(Entries),
         Placed(h, n), NEW i \in 0 .. n - 1, NEW j \in 0 .. n - 1, i # j
  PROVE  Swapped(Values(prio, h, n), Values(prio, Swap(h, i, j), n), n, i, j)
<1> DEFINE r == Swap(h, i, j)
<1>1. \A s \in 0 .. n - 1 : r.arr[s] = IF s = i THEN h.arr[j] ELSE IF s = j THEN h.arr[i] ELSE h.arr[s]
  BY SwapFacts
<1> HIDE DEF r
<1>2. \A s \in 0 .. n - 1 : /\ Values(prio, h, n)[s] = prio[h.arr[s]]
                            /\ Values(prio, r, n)[s] = prio[r.arr[s]]
  BY DEF Values
<1>3. Swapped(Values(prio, h, n), Values(prio, r, n), n, i, j)
  BY <1>1, <1>2 DEF Swapped
<1> QED BY <1>3 DEF r

\* What bubble_up and bubble_down leave: the same entries, sorted.
Restored(prio, h, r, n) == Rearranged(h, r, n) /\ Sorted(Values(prio, r, n), n)

\* A heap is a rearrangement of itself.
LEMMA RearrangedSelf ==
  ASSUME NEW h \in Heaps, NEW n, Placed(h, n)
  PROVE  Rearranged(h, h, n)
BY DEF Rearranged

\* bubble_up repairs a value that is too small for its place.
LEMMA BubbleUpCorrect ==
  ASSUME NEW prio \in [Entries -> Int], NEW n \in Nat, n <= Cardinality(Entries)
  PROVE  \A h \in Heaps, i \in 0 .. n - 1 :
           Placed(h, n) /\ UpReady(Values(prio, h, n), n, i)
             => Restored(prio, h, Up(prio)[<<h, i>>], n)
<1> DEFINE Ready(h, i) == Placed(h, n) /\ UpReady(Values(prio, h, n), n, i)
           Done(h, i) == Restored(prio, h, Up(prio)[<<h, i>>], n)
           Bad == {i \in 0 .. n - 1 : \E h \in Heaps : Ready(h, i) /\ ~Done(h, i)}
<1>1. Bad = {}
  <2> SUFFICES ASSUME Bad # {} PROVE FALSE
    OBVIOUS
  <2>1. PICK i \in Bad : \A k \in Bad : i <= k
    <3>1. Bad \in SUBSET Nat
      OBVIOUS
    <3> HIDE DEF Bad
    <3> QED BY <3>1, Least
  <2>2. i \in 0 .. n - 1 /\ i \in Slots
    BY SlotFacts
  <2>3. PICK h \in Heaps : Ready(h, i) /\ ~Done(h, i)
    <3> HIDE DEF Ready, Done
    <3> QED BY DEF Bad
  <2> DEFINE v == Values(prio, h, n)
             p == Parent(i)
  <2>4. Placed(h, n) /\ UpReady(v, n, i)
    BY <2>3
  <2>5. v \in [0 .. n - 1 -> Int] /\ \A s \in 0 .. n - 1 : v[s] = prio[h.arr[s]]
    BY <2>4, ValuesType
  <2>6. Up(prio)[<<h, i>>] = UpBody(prio, Up(prio), h, i)
    BY <2>2, UpIs
  <2>7. CASE i > 0 /\ prio[h.arr[i]] < prio[h.arr[p]]
    <3> DEFINE g == Swap(h, i, p)
    <3>1. p \in 0 .. n - 1 /\ p < i /\ i \in 1 .. n - 1
      BY <2>2, <2>7, ParentAbove
    <3>2. v[i] < v[p]
      BY <2>2, <2>5, <2>7, <3>1
    <3>3. Rearranged(h, g, n)
      BY <2>2, <2>4, <3>1, SwapFacts
    <3>4. Swapped(v, Values(prio, g, n), n, i, p)
      BY <2>2, <2>4, <3>1, SwapValues
    <3> HIDE DEF v, g
    <3>5. g \in Heaps /\ Placed(g, n)
      BY <3>3 DEF Rearranged
    <3>6. Values(prio, g, n) \in [0 .. n - 1 -> Int]
      BY <3>5, ValuesType
    <3>7. UpReady(Values(prio, g, n), n, p)
      BY <2>4, <2>5, <3>1, <3>2, <3>4, <3>6, UpSwap
    <3>8. Done(g, p)
      <4>1. p \notin Bad
        <5> HIDE DEF Bad
        <5> QED BY <2>1, <2>2, <3>1
      <4>2. Ready(g, p)
        BY <3>5, <3>7
      <4> HIDE DEF Done, Ready
      <4> QED BY <3>1, <3>5, <4>1, <4>2 DEF Bad
    <3>9. Up(prio)[<<h, i>>] = Up(prio)[<<g, p>>]
      BY <2>6, <2>7 DEF UpBody, g
    <3>10. Rearranged(h, Up(prio)[<<h, i>>], n) /\ Sorted(Values(prio, Up(prio)[<<h, i>>], n), n)
      BY <3>3, <3>8, <3>9, RearrangedTwice DEF Restored
    <3> QED BY <2>3, <3>10 DEF Restored
  <2>8. CASE ~(i > 0 /\ prio[h.arr[i]] < prio[h.arr[p]])
    <3>1. Up(prio)[<<h, i>>] = h
      BY <2>6, <2>8 DEF UpBody
    <3>2. ASSUME NEW s \in 1 .. n - 1 PROVE v[Parent(s)] <= v[s]
      <4> HIDE DEF v
      <4>1. CASE s # i
        BY <2>4, <4>1 DEF UpReady
      <4>2. CASE s = i
        <5>1. p \in 0 .. n - 1 /\ i > 0
          BY <4>2, ParentAbove
        <5>2. v[p] \in Int /\ v[i] \in Int /\ v[p] = prio[h.arr[p]] /\ v[i] = prio[h.arr[i]]
          BY <2>2, <2>5, <5>1
        <5> QED BY <2>8, <4>2, <5>1, <5>2
      <4> QED BY <4>1, <4>2
    <3>3. Sorted(v, n)
      BY <3>2 DEF Sorted
    <3>4. Rearranged(h, h, n)
      BY <2>4, RearrangedSelf
    <3> QED BY <2>3, <3>1, <3>3, <3>4 DEF Restored
  <2> QED BY <2>7, <2>8
<1> HIDE DEF Ready, Done
<1>2. \A h \in Heaps, i \in 0 .. n - 1 : Ready(h, i) => Done(h, i)
  BY <1>1 DEF Bad
<1> QED BY <1>2 DEF Ready, Done
------------------------------------------------------------------------------
(***************************************************************************)
(* bubble_down, in the same way: every call goes to a place below.         *)
(***************************************************************************)
\* The place bubble_down goes to.
Smallest(prio, n, h, i) == Smaller(prio, n, h, 2 * i + 2, Smaller(prio, n, h, 2 * i + 1, i))

\* One step of bubble_down, when f is the rest.
DownBody(prio, n, f, h, i) ==
  IF Smallest(prio, n, h, i) # i
  THEN f[<<Swap(h, i, Smallest(prio, n, h, i)), Smallest(prio, n, h, i)>>]
  ELSE h

\* The function bubble_down computes.
Down(prio, n) == CHOOSE f : f = [x \in Heaps \X Slots |-> DownBody(prio, n, f, x[1], x[2])]

\* bubble_down is that function.
LEMMA BubbleDown == \A prio, n, h0, i0 : bubble_down(prio, n, h0, i0) = Down(prio, n)[<<h0, i0>>]
BY DEF bubble_down, Down, DownBody, Smallest

\* That place is this one, or one of the two below it that is in use.
LEMMA SmallestPlace ==
  ASSUME NEW prio, NEW n \in Nat, NEW h, NEW i \in Nat
  PROVE  \/ Smallest(prio, n, h, i) = i
         \/ /\ Smallest(prio, n, h, i) \in {2 * i + 1, 2 * i + 2}
            /\ Smallest(prio, n, h, i) < n
BY DEF Smallest, Smaller

\* There is such a function.
LEMMA DownExists ==
  ASSUME NEW prio, NEW n \in Nat, n <= Cardinality(Entries)
  PROVE  \E f : f = [x \in Heaps \X Slots |-> DownBody(prio, n, f, x[1], x[2])]
<1> DEFINE N == Cardinality(Entries)
           Good(g, k) == \A h \in Heaps, i \in Slots : N - i <= k => g[<<h, i>>] = DownBody(prio, n, g, h, i)
           Bad == {k \in Nat : ~\E g : Good(g, k)}
<1>0. N \in Nat /\ (\A i \in Slots : i \in Nat /\ i < N) /\ (\A i \in Nat : i < N => i \in Slots)
  BY SlotFacts
<1> HIDE DEF N
<1>s. ASSUME NEW h \in Heaps, NEW i \in Slots, Smallest(prio, n, h, i) # i
      PROVE  /\ Smallest(prio, n, h, i) \in Slots
             /\ i < Smallest(prio, n, h, i)
             /\ Swap(h, i, Smallest(prio, n, h, i)) \in Heaps
  <2>1. i \in Nat
    BY <1>0
  <2>2. Smallest(prio, n, h, i) \in {2 * i + 1, 2 * i + 2} /\ Smallest(prio, n, h, i) < n
    BY <1>s, <2>1, SmallestPlace
  <2>3. Smallest(prio, n, h, i) \in Nat /\ i < Smallest(prio, n, h, i)
    BY <2>1, <2>2
  <2>4. Smallest(prio, n, h, i) \in Slots
    BY <1>0, <2>2, <2>3 DEF N
  <2> QED BY <2>3, <2>4, SwapHeap
<1>1. Bad = {}
  <2> SUFFICES ASSUME Bad # {} PROVE FALSE
    OBVIOUS
  <2>1. PICK m \in Bad : \A k \in Bad : m <= k
    <3> HIDE DEF Bad
    <3>1. Bad \in SUBSET Nat
      BY DEF Bad
    <3> QED BY <3>1, Least
  <2>2. m \in Nat /\ ~\E g : Good(g, m)
    BY DEF Bad
  <2>3. m # 0
    <3>1. \A i \in Slots : ~(N - i <= 0)
      BY <1>0
    <3>2. \A g : Good(g, 0)
      BY <3>1
    <3> HIDE DEF Good
    <3> QED BY <2>2, <3>2
  <2>4. PICK g : Good(g, m - 1)
    <3>1. m - 1 \in Nat /\ m - 1 \notin Bad
      <4> HIDE DEF Good, Bad
      <4> QED BY <2>1, <2>2, <2>3
    <3> HIDE DEF Good
    <3> QED BY <3>1 DEF Bad
  <2> DEFINE e == [x \in Heaps \X Slots |-> DownBody(prio, n, g, x[1], x[2])]
  <2>5. \A h \in Heaps, i \in Slots : e[<<h, i>>] = DownBody(prio, n, g, h, i)
    <3> HIDE DEF Good
    <3> QED OBVIOUS
  <2>6. \A h \in Heaps, i \in Slots : N - i <= m - 1 => e[<<h, i>>] = g[<<h, i>>]
    BY <2>4, <2>5
  <2> HIDE DEF e
  <2>7. ASSUME NEW h \in Heaps, NEW i \in Slots, N - i <= m PROVE e[<<h, i>>] = DownBody(prio, n, e, h, i)
    <3> DEFINE c == Smallest(prio, n, h, i)
    <3>1. CASE c = i
      <4>1. \A f : DownBody(prio, n, f, h, i) = h
        BY <3>1 DEF DownBody
      <4> QED BY <2>5, <4>1
    <3>2. CASE c # i
      <4>1. c \in Slots /\ i < c /\ Swap(h, i, c) \in Heaps
        BY <1>s, <3>2
      <4>2. N - c <= m - 1
        BY <1>0, <2>2, <2>7, <4>1
      <4>3. e[<<Swap(h, i, c), c>>] = g[<<Swap(h, i, c), c>>]
        BY <2>6, <4>1, <4>2
      <4> QED BY <2>5, <4>3 DEF DownBody
    <3> QED BY <3>1, <3>2
  <2> QED BY <2>2, <2>7
<1>2. PICK g : Good(g, N)
  <2> HIDE DEF Good
  <2> QED BY <1>0, <1>1
<1> DEFINE e == [x \in Heaps \X Slots |-> g[x]]
<1>3. \A h \in Heaps, i \in Slots : e[<<h, i>>] = g[<<h, i>>]
  <2> HIDE DEF Good
  <2> QED OBVIOUS
<1>4. ASSUME NEW h \in Heaps, NEW i \in Slots PROVE g[<<h, i>>] = DownBody(prio, n, e, h, i)
  <2> HIDE DEF e
  <2>0. N - i <= N
    BY <1>0
  <2>1. g[<<h, i>>] = DownBody(prio, n, g, h, i)
    BY <1>2, <2>0
  <2>2. CASE Smallest(prio, n, h, i) = i
    BY <2>1, <2>2 DEF DownBody
  <2>3. CASE Smallest(prio, n, h, i) # i
    BY <1>3, <1>s, <2>1, <2>3 DEF DownBody
  <2> QED BY <2>2, <2>3
<1>5. e = [x \in Heaps \X Slots |-> DownBody(prio, n, e, x[1], x[2])]
  <2>1. e = [x \in Heaps \X Slots |-> g[x]]
    OBVIOUS
  <2> HIDE DEF e, Good
  <2> QED BY <1>4, <2>1
<1> HIDE DEF e
<1> QED BY <1>5

\* The function does what its definition says.
LEMMA DownIs ==
  ASSUME NEW prio, NEW n \in Nat, n <= Cardinality(Entries), NEW h \in Heaps, NEW i \in Slots
  PROVE  Down(prio, n)[<<h, i>>] = DownBody(prio, n, Down(prio, n), h, i)
<1>1. Down(prio, n) = [x \in Heaps \X Slots |-> DownBody(prio, n, Down(prio, n), x[1], x[2])]
  BY DownExists DEF Down
<1> QED BY <1>1
\* The two places below a place.
LEMMA ChildPlaces ==
  ASSUME NEW i \in Nat
  PROVE  Parent(2 * i + 1) = i /\ Parent(2 * i + 2) = i
BY DEF Parent

\* The place bubble_down goes to holds the least value of a place and the places
\* below it.
LEMMA SmallestValue ==
  ASSUME NEW prio \in [Entries -> Int], NEW n \in Nat, NEW h, Placed(h, n), NEW i \in 0 .. n - 1,
         NEW v \in [0 .. n - 1 -> Int], \A s \in 0 .. n - 1 : v[s] = prio[h.arr[s]],
         NEW c, c = Smallest(prio, n, h, i)
  PROVE  /\ \A s \in 1 .. n - 1 : Parent(s) = i => v[c] <= v[s]
         /\ c # i => c \in 1 .. n - 1 /\ Parent(c) = i /\ v[c] < v[i]
<1> DEFINE l == 2 * i + 1
           r == 2 * i + 2
           d == Smaller(prio, n, h, l, i)
<1>1. i \in Nat /\ l \in Nat /\ r \in Nat /\ i < l /\ l < r /\ l # 0 /\ r # 0
  OBVIOUS
<1>2. Parent(l) = i /\ Parent(r) = i
  BY <1>1, ChildPlaces
<1>3. \A s \in 1 .. n - 1 : Parent(s) = i => s = l \/ s = r
  <2> SUFFICES ASSUME NEW s \in 1 .. n - 1, Parent(s) = i PROVE s = l \/ s = r
    OBVIOUS
  <2>1. s \in Nat \ {0}
    OBVIOUS
  <2> QED BY <2>1, ParentFacts
<1>4. c = Smaller(prio, n, h, r, d)
  BY DEF Smallest
<1> HIDE DEF l, r
<1>5. d = IF l < n /\ prio[h.arr[l]] < prio[h.arr[i]] THEN l ELSE i
  BY DEF Smaller
<1>6. c = IF r < n /\ prio[h.arr[r]] < prio[h.arr[d]] THEN r ELSE d
  BY <1>4 DEF Smaller
<1> HIDE DEF d
<1>7. \A s \in Nat : s < n => s \in 0 .. n - 1 /\ v[s] \in Int /\ v[s] = prio[h.arr[s]]
  OBVIOUS
<1>8. i < n
  OBVIOUS
<1>9. d \in {l, i} /\ d < n /\ v[d] <= v[i] /\ (d # i => v[d] < v[i]) /\ (l < n => v[d] <= v[l])
  <2>1. CASE l < n /\ prio[h.arr[l]] < prio[h.arr[i]]
    BY <1>1, <1>5, <1>7, <1>8, <2>1
  <2>2. CASE ~(l < n /\ prio[h.arr[l]] < prio[h.arr[i]])
    <3>1. d = i
      BY <1>5, <2>2
    <3>2. l < n => v[i] <= v[l]
      BY <1>1, <1>7, <1>8, <2>2
    <3> QED BY <1>1, <1>7, <1>8, <3>1, <3>2
  <2> QED BY <2>1, <2>2
<1>10. d \in Nat
  BY <1>1, <1>9
<1>11. /\ c \in {d, r} /\ c < n /\ v[c] <= v[d] /\ (c # d => c = r /\ v[c] < v[d])
       /\ (r < n => v[c] <= v[r])
  BY <1>1, <1>6, <1>7, <1>9, <1>10
<1>12. \A s \in 1 .. n - 1 : Parent(s) = i => v[c] <= v[s]
  <2> SUFFICES ASSUME NEW s \in 1 .. n - 1, Parent(s) = i PROVE v[c] <= v[s]
    OBVIOUS
  <2>1. CASE s = l
    <3>1. v[c] \in Int /\ v[d] \in Int /\ v[l] \in Int /\ l < n
      BY <1>1, <1>7, <1>9, <1>10, <1>11, <2>1
    <3> QED BY <1>9, <1>11, <2>1, <3>1
  <2>2. CASE s = r
    BY <1>11, <2>2
  <2> QED BY <1>3, <2>1, <2>2
<1>13. ASSUME c # i PROVE c \in 1 .. n - 1 /\ Parent(c) = i /\ v[c] < v[i]
  <2>1. c \in {l, r}
    BY <1>9, <1>11, <1>13
  <2>2. c \in 1 .. n - 1 /\ Parent(c) = i
    BY <1>1, <1>2, <1>11, <2>1
  <2>3. v[c] \in Int /\ v[d] \in Int /\ v[i] \in Int
    BY <1>1, <1>7, <1>8, <1>9, <1>10, <1>11, <2>2
  <2> QED BY <1>9, <1>11, <1>13, <2>2, <2>3
<1> QED BY <1>12, <1>13

\* bubble_down repairs a value that is too large for its place.
LEMMA BubbleDownCorrect ==
  ASSUME NEW prio \in [Entries -> Int], NEW n \in Nat, n <= Cardinality(Entries)
  PROVE  \A h \in Heaps, i \in 0 .. n - 1 :
           Placed(h, n) /\ DownReady(Values(prio, h, n), n, i)
             => Restored(prio, h, Down(prio, n)[<<h, i>>], n)
<1> DEFINE Ready(h, i) == Placed(h, n) /\ DownReady(Values(prio, h, n), n, i)
           Done(h, i) == Restored(prio, h, Down(prio, n)[<<h, i>>], n)
           Wrong(i) == \E h \in Heaps : Ready(h, i) /\ ~Done(h, i)
           Bad == {k \in Nat : \E i \in 0 .. n - 1 : k = n - i /\ Wrong(i)}
<1>1. Bad = {}
  <2> SUFFICES ASSUME Bad # {} PROVE FALSE
    OBVIOUS
  <2>1. PICK m \in Bad : \A k \in Bad : m <= k
    <3>1. Bad \in SUBSET Nat
      OBVIOUS
    <3> HIDE DEF Bad
    <3> QED BY <3>1, Least
  <2>2. PICK i \in 0 .. n - 1 : m = n - i /\ Wrong(i)
    <3> HIDE DEF Wrong
    <3> QED BY DEF Bad
  <2>i. i \in Slots
    BY SlotFacts
  <2>3. PICK h \in Heaps : Ready(h, i) /\ ~Done(h, i)
    <3> HIDE DEF Ready, Done
    <3> QED BY <2>2
  <2> DEFINE v == Values(prio, h, n)
             c == Smallest(prio, n, h, i)
  <2>4. Placed(h, n) /\ DownReady(v, n, i)
    BY <2>3
  <2>5. v \in [0 .. n - 1 -> Int] /\ \A s \in 0 .. n - 1 : v[s] = prio[h.arr[s]]
    <3> HIDE DEF Ready, Done, Wrong, Bad
    <3> QED BY <2>4, ValuesType
  <2>6. Down(prio, n)[<<h, i>>] = DownBody(prio, n, Down(prio, n), h, i)
    BY <2>i, DownIs
  <2>s. /\ \A s \in 1 .. n - 1 : Parent(s) = i => v[c] <= v[s]
        /\ c # i => c \in 1 .. n - 1 /\ Parent(c) = i /\ v[c] < v[i]
    <3> HIDE DEF v
    <3> QED BY <2>4, <2>5, SmallestValue
  <2>7. CASE c # i
    <3> DEFINE g == Swap(h, i, c)
    <3>1. c \in 0 .. n - 1 /\ i < c
      <4>1. c \in 1 .. n - 1 /\ Parent(c) = i
        BY <2>7, <2>s
      <4>2. Parent(c) < c
        BY <4>1, ParentAbove
      <4> HIDE DEF c
      <4> QED BY <4>1, <4>2
    <3>3. Rearranged(h, g, n)
      BY <2>4, <2>7, <3>1, SwapFacts
    <3>4. Swapped(v, Values(prio, g, n), n, i, c)
      BY <2>4, <2>7, <3>1, SwapValues
    <3>9. Down(prio, n)[<<h, i>>] = Down(prio, n)[<<g, c>>]
      BY <2>6, <2>7 DEF DownBody
    <3> HIDE DEF v, g, c
    <3>5. g \in Heaps /\ Placed(g, n)
      BY <3>3 DEF Rearranged
    <3>6. Values(prio, g, n) \in [0 .. n - 1 -> Int]
      BY <3>5, ValuesType
    <3>7. DownReady(Values(prio, g, n), n, c)
      BY <2>4, <2>5, <2>7, <2>s, <3>4, <3>6, DownSwap
    <3>8. Done(g, c)
      <4>1. n - c \in Nat /\ n - c < m
        BY <2>2, <3>1
      <4>2. n - c \notin Bad
        <5> HIDE DEF Bad
        <5> QED BY <2>1, <2>2, <4>1
      <4>3. ~Wrong(c)
        <5> HIDE DEF Wrong
        <5> QED BY <3>1, <4>1, <4>2 DEF Bad
      <4>4. Ready(g, c)
        BY <3>5, <3>7
      <4> HIDE DEF Done, Ready
      <4> QED BY <3>5, <4>3, <4>4
    <3>10. Restored(prio, h, Down(prio, n)[<<h, i>>], n)
      BY <3>3, <3>8, <3>9, RearrangedTwice DEF Restored
    <3> QED BY <2>3, <3>10
  <2>8. CASE c = i
    <3>1. Down(prio, n)[<<h, i>>] = h
      BY <2>6, <2>8 DEF DownBody
    <3>2. Sorted(v, n)
      <4> HIDE DEF v, c
      <4> QED BY <2>4, <2>8, <2>s DEF DownReady, Sorted
    <3>3. Rearranged(h, h, n)
      BY <2>4, RearrangedSelf
    <3> QED BY <2>3, <3>1, <3>2, <3>3 DEF Restored
  <2> QED BY <2>7, <2>8
<1>2. \A i \in 0 .. n - 1 : ~Wrong(i)
  <2> HIDE DEF Wrong
  <2>1. \A i \in 0 .. n - 1 : n - i \in Nat
    OBVIOUS
  <2> QED BY <1>1, <2>1 DEF Bad
<1> HIDE DEF Ready, Done
<1>3. \A h \in Heaps, i \in 0 .. n - 1 : Ready(h, i) => Done(h, i)
  BY <1>2
<1> QED BY <1>3 DEF Ready, Done
------------------------------------------------------------------------------
(***************************************************************************)
(* The operations.                                                         *)
(***************************************************************************)
\* The inductive invariant.  Every entry in the heap knows its slot, the caller
\* holds every entry of the heap, the values are sorted, and an entry that was
\* extracted still says it is at the root: that is why an update through it
\* disturbs nothing.
HeapState(h, n, prio, l) ==
  /\ h \in Heaps
  /\ n \in Nat /\ n <= Cardinality(Entries)
  /\ prio \in [Entries -> Priorities]
  /\ l \subseteq Entries
  /\ Placed(h, n)
  /\ Content(h, n) \subseteq l
  /\ \A e \in l \ Content(h, n) : h.index[e] = 0
  /\ Sorted(Values(prio, h, n), n)

HeapInv == HeapState(heap, size, priority, live)

\* Priorities are numbers.
LEMMA PrioritiesInt ==
  ASSUME NEW prio \in [Entries -> Priorities]
  PROVE  prio \in [Entries -> Int]
BY MaxPriorityAssumption DEF Priorities

\* As many entries as slots.
LEMMA ContentSize ==
  ASSUME NEW h, NEW n \in Nat, Placed(h, n)
  PROVE  IsFiniteSet(Content(h, n)) /\ Cardinality(Content(h, n)) = n
<1> DEFINE f == [s \in 0 .. n - 1 |-> h.arr[s]]
<1>1. f \in Bijection(0 .. n - 1, Content(h, n))
  <2>1. f \in [0 .. n - 1 -> Content(h, n)]
    BY DEF Content
  <2>2. \A s, u \in 0 .. n - 1 : f[s] = f[u] => s = u
    BY DEF Placed
  <2>3. \A e \in Content(h, n) : \E s \in 0 .. n - 1 : f[s] = e
    BY DEF Content
  <2> HIDE DEF f
  <2> QED BY <2>1, <2>2, <2>3 DEF Bijection, Injection, IsInjective, Surjection
<1>2. ExistsBijection(0 .. n - 1, Content(h, n))
  <2> HIDE DEF f
  <2> QED BY <1>1 DEF ExistsBijection
<1>3. IsFiniteSet(0 .. n - 1) /\ Cardinality(0 .. n - 1) = n
  <2>1. 0 \in Int /\ n - 1 \in Int
    OBVIOUS
  <2>2. IsFiniteSet(0 .. n - 1) /\ Cardinality(0 .. n - 1) = IF 0 > n - 1 THEN 0 ELSE (n - 1) - 0 + 1
    BY <2>1, FS_Interval
  <2> QED BY <2>2
<1> QED BY <1>2, <1>3, FS_Bijection

\* An entry that is not in the heap has a slot to go to.
LEMMA RoomToInsert ==
  ASSUME NEW h, NEW n \in Nat, Placed(h, n), Content(h, n) \subseteq Entries,
         NEW e \in Entries \ Content(h, n)
  PROVE  n < Cardinality(Entries)
<1>1. Content(h, n) \subseteq Entries \ {e}
  OBVIOUS
<1>2. IsFiniteSet(Entries \ {e}) /\ Cardinality(Entries \ {e}) = Cardinality(Entries) - 1
  BY EntriesAssumption, FS_RemoveElement
<1>3. n <= Cardinality(Entries) - 1
  BY <1>1, <1>2, ContentSize, FS_Subset
<1> QED BY <1>3, SlotFacts

\* The priorities after entry e was given priority p.
Repriced(prio, e, p) == [prio EXCEPT ![e] = p]

\* The new entry in the slot behind the last.
Appended(h, n, e) == [arr |-> [h.arr EXCEPT ![n] = e], index |-> [h.index EXCEPT ![e] = n]]

\* An insertion adds one entry and keeps the invariant.
LEMMA InsertGood ==
  ASSUME NEW h, NEW n, NEW prio, NEW l, HeapState(h, n, prio, l),
         NEW e \in Entries \ l, NEW p \in Priorities,
         NEW q, q = Repriced(prio, e, p), NEW g, g = Appended(h, n, e)
  PROVE  /\ HeapState(bubble_up(q, g, n), n + 1, q, l \cup {e})
         /\ Content(bubble_up(q, g, n), n + 1) = Content(h, n) \cup {e}
<1> USE DEF Repriced, Appended
<1> DEFINE m == n + 1
           r == Up(q)[<<g, n>>]
<1>1. /\ h \in Heaps /\ n \in Nat /\ m \in Nat /\ n \in 0 .. m - 1
      /\ Placed(h, n) /\ Content(h, n) \subseteq l /\ l \subseteq Entries
      /\ Sorted(Values(prio, h, n), n)
      /\ \A x \in l \ Content(h, n) : h.index[x] = 0
      /\ prio \in [Entries -> Priorities]
  BY DEF HeapState
<1>2. n < Cardinality(Entries) /\ n \in Slots /\ m <= Cardinality(Entries)
  BY <1>1, RoomToInsert, SlotFacts
<1>3. q \in [Entries -> Priorities] /\ q \in [Entries -> Int] /\ prio \in [Entries -> Int]
  <2>1. q \in [Entries -> Priorities]
    BY <1>1
  <2> QED BY <1>1, <2>1, PrioritiesInt
<1>4. h.arr \in [Slots -> Entries \cup {Nil}] /\ h.index \in [Entries -> Slots]
  BY <1>1 DEF Heaps
<1>5. g \in Heaps
  <2>1. [h.arr EXCEPT ![n] = e] \in [Slots -> Entries \cup {Nil}]
    BY <1>4
  <2>2. [h.index EXCEPT ![e] = n] \in [Entries -> Slots]
    BY <1>2, <1>4
  <2> QED BY <2>1, <2>2 DEF Heaps
<1>6. /\ \A s \in 0 .. m - 1 : s \in Slots /\ (s # n => s \in 0 .. n - 1)
      /\ \A s \in 0 .. n - 1 : s \in 0 .. m - 1 /\ s # n
  BY <1>1, <1>2, SlotFacts
<1>7. \A s \in 0 .. m - 1 : g.arr[s] = IF s = n THEN e ELSE h.arr[s]
  BY <1>4, <1>6
<1>8. \A x \in Entries : g.index[x] = IF x = e THEN n ELSE h.index[x]
  BY <1>4
<1>9. \A s \in 0 .. n - 1 : h.arr[s] \in Entries /\ h.arr[s] # e /\ h.index[h.arr[s]] = s /\ q[h.arr[s]] = prio[h.arr[s]]
  BY <1>1, <1>3 DEF Placed, Content
<1> HIDE DEF m
<1>10. Placed(g, m)
  BY <1>6, <1>7, <1>8, <1>9 DEF Placed
<1>11. Content(g, m) = Content(h, n) \cup {e}
  <2>1. Content(g, m) \subseteq Content(h, n) \cup {e}
    BY <1>6, <1>7 DEF Content
  <2>2. e \in Content(g, m)
    BY <1>1, <1>7 DEF Content
  <2>3. \A s \in 0 .. n - 1 : h.arr[s] \in Content(g, m)
    <3> SUFFICES ASSUME NEW s \in 0 .. n - 1 PROVE h.arr[s] \in Content(g, m)
      OBVIOUS
    <3>1. s \in 0 .. m - 1 /\ g.arr[s] = h.arr[s]
      BY <1>6, <1>7
    <3> QED BY <3>1 DEF Content
  <2> QED BY <2>1, <2>2, <2>3 DEF Content
<1>12. UpReady(Values(q, g, m), m, n)
  <2> DEFINE v == Values(prio, h, n)
             w == Values(q, g, m)
  <2>1. \A s \in 0 .. n - 1 : v[s] = prio[h.arr[s]]
    BY DEF Values
  <2>2. \A s \in 0 .. m - 1 : w[s] = q[g.arr[s]]
    BY DEF Values
  <2> HIDE DEF v, w
  <2>3. \A s \in 0 .. n - 1 : w[s] = v[s]
    BY <1>6, <1>7, <1>9, <2>1, <2>2
  <2>4. ASSUME NEW s \in 1 .. m - 1 PROVE Parent(s) < n /\ (s # n => s \in 1 .. n - 1)
    <3>1. s <= n /\ s \in Nat \ {0}
      BY <1>1 DEF m
    <3> QED BY <1>1, <3>1, ParentFacts
  <2>5. ASSUME NEW s \in 1 .. m - 1, s # n PROVE w[Parent(s)] <= w[s]
    <3>1. s \in 1 .. n - 1 /\ s \in 0 .. n - 1
      BY <2>4, <2>5
    <3>2. Parent(s) \in 0 .. n - 1
      BY <1>1, <3>1, ParentAbove
    <3>3. v[Parent(s)] <= v[s]
      BY <1>1, <3>1 DEF Sorted, v
    <3> QED BY <2>3, <3>1, <3>2, <3>3
  <2>6. \A s \in 1 .. m - 1 : Parent(s) # n
    BY <1>1, <2>4
  <2> QED BY <2>5, <2>6 DEF UpReady, w
<1>13. Restored(q, g, r, m)
  BY <1>1, <1>2, <1>3, <1>5, <1>10, <1>12, BubbleUpCorrect DEF m
<1>14. bubble_up(q, g, n) = r
  BY BubbleUp
<1> HIDE DEF r
<1>15. r \in Heaps /\ Placed(r, m) /\ Content(r, m) = Content(h, n) \cup {e} /\ Sorted(Values(q, r, m), m)
       /\ \A x \in Entries \ Content(g, m) : r.index[x] = g.index[x]
  BY <1>11, <1>13 DEF Restored, Rearranged
<1>16. \A x \in (l \cup {e}) \ Content(r, m) : r.index[x] = 0
  BY <1>1, <1>8, <1>11, <1>15
<1>17. HeapState(r, m, q, l \cup {e})
  BY <1>1, <1>2, <1>3, <1>15, <1>16 DEF HeapState
<1> QED BY <1>14, <1>15, <1>17 DEF m
\* The root holds the least value.
LEMMA RootLeast ==
  ASSUME NEW n \in Nat, NEW v \in [0 .. n - 1 -> Int], Sorted(v, n)
  PROVE  \A s \in 0 .. n - 1 : v[0] <= v[s]
<1> DEFINE Bad == {s \in 0 .. n - 1 : ~(v[0] <= v[s])}
<1>1. Bad = {}
  <2> SUFFICES ASSUME Bad # {} PROVE FALSE
    OBVIOUS
  <2>1. PICK s \in Bad : \A k \in Bad : s <= k
    <3>1. Bad \in SUBSET Nat
      OBVIOUS
    <3> HIDE DEF Bad
    <3> QED BY <3>1, Least
  <2>2. s \in 0 .. n - 1 /\ ~(v[0] <= v[s])
    OBVIOUS
  <2> HIDE DEF Bad
  <2>3. s \in 1 .. n - 1 /\ v[s] \in Int /\ v[0] \in Int
    BY <2>2
  <2>4. Parent(s) \in 0 .. n - 1 /\ Parent(s) < s
    BY <2>3, ParentAbove
  <2>5. Parent(s) \notin Bad
    BY <2>1, <2>2, <2>4
  <2>6. v[0] <= v[Parent(s)] /\ v[Parent(s)] \in Int
    BY <2>4, <2>5 DEF Bad
  <2>7. v[Parent(s)] <= v[s]
    BY <2>3 DEF Sorted
  <2> QED BY <2>2, <2>3, <2>6, <2>7
<1> QED BY <1>1

\* The last of the n + 1 entries in the place of the root.
RootReplaced(h, n) ==
  [arr |-> [[h.arr EXCEPT ![n] = Nil] EXCEPT ![0] = h.arr[n]],
   index |-> [h.index EXCEPT ![h.arr[n]] = 0]]

\* The heap an extraction leaves.
Extracted(h, n, prio) ==
  IF n = 0 THEN [h EXCEPT !.arr = [h.arr EXCEPT ![n] = Nil]]
  ELSE bubble_down(prio, n, RootReplaced(h, n), 0)

\* An extraction removes an entry of least priority and keeps the invariant.
LEMMA ExtractGood ==
  ASSUME NEW h, NEW n \in Nat, NEW prio, NEW l, HeapState(h, n + 1, prio, l),
         NEW g, g = RootReplaced(h, n), NEW r, r = Extracted(h, n, prio)
  PROVE  /\ HeapState(r, n, prio, l)
         /\ h.arr[0] \in Content(h, n + 1)
         /\ Content(r, n) = Content(h, n + 1) \ {h.arr[0]}
         /\ \A x \in Content(h, n + 1) : prio[h.arr[0]] <= prio[x]
<1> USE DEF RootReplaced, Extracted
<1> DEFINE m == n + 1
<1>1. /\ h \in Heaps /\ m \in Nat /\ n \in 0 .. m - 1 /\ 0 \in 0 .. m - 1 /\ m <= Cardinality(Entries)
      /\ Placed(h, m) /\ Content(h, m) \subseteq l /\ l \subseteq Entries
      /\ Sorted(Values(prio, h, m), m)
      /\ \A x \in l \ Content(h, m) : h.index[x] = 0
      /\ prio \in [Entries -> Priorities]
  BY DEF HeapState
<1>2. prio \in [Entries -> Int]
  BY <1>1, PrioritiesInt
<1>3. h.arr \in [Slots -> Entries \cup {Nil}] /\ h.index \in [Entries -> Slots]
  BY <1>1 DEF Heaps
<1>4. /\ \A s \in 0 .. m - 1 : s \in Slots /\ (s # n => s \in 0 .. n - 1)
      /\ \A s \in 0 .. n - 1 : s \in 0 .. m - 1 /\ s # n
      /\ n <= Cardinality(Entries)
  BY <1>1, SlotFacts
<1> HIDE DEF m
<1>5. \A s \in 0 .. m - 1 : h.arr[s] \in Entries /\ h.index[h.arr[s]] = s
  BY <1>1 DEF Placed
<1>6. h.arr[0] \in Content(h, m)
  BY <1>1 DEF Content
<1>7. \A x \in Content(h, m) : prio[h.arr[0]] <= prio[x]
  <2> DEFINE v == Values(prio, h, m)
  <2>1. v \in [0 .. m - 1 -> Int] /\ \A s \in 0 .. m - 1 : v[s] = prio[h.arr[s]]
    BY <1>1, <1>2, ValuesType
  <2> HIDE DEF v
  <2>2. \A s \in 0 .. m - 1 : v[0] <= v[s]
    BY <1>1, <2>1, RootLeast DEF v
  <2> QED BY <1>1, <2>1, <2>2 DEF Content
<1>8. CASE n = 0
  <2>1. r = [h EXCEPT !.arr = [h.arr EXCEPT ![n] = Nil]]
    BY <1>8
  <2>2. [h.arr EXCEPT ![n] = Nil] \in [Slots -> Entries \cup {Nil}]
    BY <1>3
  <2>3. r \in Heaps /\ r.index = h.index
    BY <1>1, <2>1, <2>2 DEF Heaps
  <2>4. Placed(r, n) /\ Content(r, n) = {} /\ Sorted(Values(prio, r, n), n)
    <3>1. 0 .. n - 1 = {} /\ 1 .. n - 1 = {}
      BY <1>8
    <3> QED BY <3>1 DEF Placed, Content, Sorted
  <2>5. Content(h, m) = {h.arr[0]} /\ h.index[h.arr[0]] = 0
    <3>1. 0 .. m - 1 = {0}
      BY <1>8 DEF m
    <3> QED BY <1>1, <1>5, <3>1 DEF Content
  <2>6. HeapState(r, n, prio, l)
    BY <1>1, <1>4, <2>3, <2>4, <2>5 DEF HeapState
  <2> QED BY <1>6, <1>7, <2>4, <2>5, <2>6 DEF m
<1>9. CASE n # 0
  <2>0. r = Down(prio, n)[<<g, 0>>]
    BY <1>9, BubbleDown
  <2>1. h.arr[n] \in Entries /\ h.arr[n] # h.arr[0] /\ 0 \in Slots /\ 0 \in 0 .. n - 1
    BY <1>1, <1>4, <1>5, <1>9
  <2>2. g \in Heaps
    <3>1. [[h.arr EXCEPT ![n] = Nil] EXCEPT ![0] = h.arr[n]] \in [Slots -> Entries \cup {Nil}]
      BY <1>3, <2>1
    <3>2. [h.index EXCEPT ![h.arr[n]] = 0] \in [Entries -> Slots]
      BY <1>3, <2>1
    <3> QED BY <3>1, <3>2 DEF Heaps
  <2>3. \A s \in 0 .. n - 1 : g.arr[s] = IF s = 0 THEN h.arr[n] ELSE h.arr[s]
    BY <1>3, <1>4
  <2>4. \A x \in Entries : g.index[x] = IF x = h.arr[n] THEN 0 ELSE h.index[x]
    BY <1>3
  <2>5. Placed(g, n)
    BY <1>1, <1>4, <1>5, <2>3, <2>4 DEF Placed
  <2>6. Content(g, n) = Content(h, m) \ {h.arr[0]}
    <3>1. ASSUME NEW s \in 0 .. n - 1 PROVE g.arr[s] \in Content(h, m) \ {h.arr[0]}
      <4>1. CASE s = 0
        BY <1>1, <2>1, <2>3, <4>1 DEF Content
      <4>2. CASE s # 0
        <5>1. g.arr[s] = h.arr[s] /\ s \in 0 .. m - 1
          BY <1>4, <2>3, <4>2
        <5>2. h.arr[s] # h.arr[0]
          BY <1>1, <1>5, <4>2, <5>1
        <5> QED BY <5>1, <5>2 DEF Content
      <4> QED BY <4>1, <4>2
    <3>2. ASSUME NEW s \in 0 .. m - 1, h.arr[s] # h.arr[0] PROVE h.arr[s] \in Content(g, n)
      <4>1. CASE s = n
        BY <2>1, <2>3, <4>1 DEF Content
      <4>2. CASE s # n
        <5>1. s \in 0 .. n - 1 /\ s # 0
          BY <1>4, <3>2, <4>2
        <5> QED BY <2>3, <5>1 DEF Content
      <4> QED BY <4>1, <4>2
    <3> QED BY <3>1, <3>2 DEF Content
  <2>7. DownReady(Values(prio, g, n), n, 0)
    <3> DEFINE v == Values(prio, h, m)
               w == Values(prio, g, n)
    <3>1. \A s \in 0 .. m - 1 : v[s] = prio[h.arr[s]]
      BY DEF Values
    <3>2. \A s \in 0 .. n - 1 : w[s] = prio[g.arr[s]]
      BY DEF Values
    <3> HIDE DEF v, w
    <3>3. \A s \in 0 .. n - 1 : s # 0 => w[s] = v[s]
      BY <1>4, <2>3, <3>1, <3>2
    <3>4. ASSUME NEW s \in 1 .. n - 1, Parent(s) # 0 PROVE w[Parent(s)] <= w[s]
      <4>1. Parent(s) \in 0 .. n - 1 /\ s \in 0 .. n - 1 /\ s # 0
        BY ParentAbove
      <4>2. s \in 1 .. m - 1
        BY <1>4, <4>1
      <4>3. v[Parent(s)] <= v[s]
        BY <1>1, <4>2 DEF Sorted, v
      <4> QED BY <3>3, <3>4, <4>1, <4>3
    <3> QED BY <3>4 DEF DownReady, w
  <2>8. Restored(prio, g, r, n)
    BY <1>2, <1>4, <2>0, <2>1, <2>2, <2>5, <2>7, BubbleDownCorrect
  <2>9. /\ r \in Heaps /\ Placed(r, n) /\ Content(r, n) = Content(h, m) \ {h.arr[0]}
        /\ Sorted(Values(prio, r, n), n)
        /\ \A x \in Entries \ Content(g, n) : r.index[x] = g.index[x]
    BY ONLY <2>6, <2>8 DEF Restored, Rearranged
  <2>10. ASSUME NEW x \in l \ Content(r, n) PROVE r.index[x] = 0
    <3>1. x \in Entries \ Content(g, n)
      BY <1>1, <2>6, <2>9
    <3>2. h.index[x] = 0
      BY <1>1, <1>5, <2>9
    <3> QED BY <2>4, <2>9, <3>1, <3>2
  <2>11. HeapState(r, n, prio, l)
    BY ONLY <1>1, <1>4, <2>9, <2>10, n \in Nat DEF HeapState
  <2> QED BY <1>6, <1>7, <2>9, <2>11 DEF m
<1> QED BY <1>8, <1>9
\* A value made smaller is the only one that may be too small.
LEMMA LessReady ==
  ASSUME NEW n \in Nat, NEW v \in [0 .. n - 1 -> Int], NEW w \in [0 .. n - 1 -> Int], Sorted(v, n),
         NEW i \in 0 .. n - 1, w[i] <= v[i], \A s \in 0 .. n - 1 : s # i => w[s] = v[s]
  PROVE  UpReady(w, n, i)
<1>0. \A s \in 1 .. n - 1 : s \in 0 .. n - 1 /\ Parent(s) \in 0 .. n - 1 /\ Parent(s) < s
  BY ParentAbove
<1>1. \A s \in 0 .. n - 1 : v[s] \in Int /\ w[s] \in Int
  OBVIOUS
<1>2. \A s \in 1 .. n - 1 : v[Parent(s)] <= v[s]
  BY DEF Sorted
<1>3. ASSUME NEW s \in 1 .. n - 1, s # i PROVE w[Parent(s)] <= w[s]
  <2>1. w[s] = v[s] /\ v[Parent(s)] <= v[s]
    BY <1>0, <1>2, <1>3
  <2>2. w[Parent(s)] <= v[Parent(s)]
    <3>1. CASE Parent(s) = i
      BY <3>1
    <3>2. CASE Parent(s) # i
      <4>1. w[Parent(s)] = v[Parent(s)] /\ v[Parent(s)] \in Int
        BY <1>0, <1>1, <3>2
      <4> QED BY <4>1
    <3> QED BY <3>1, <3>2
  <2> QED BY <1>0, <1>1, <2>1, <2>2
<1>4. ASSUME NEW s \in 1 .. n - 1, i > 0, Parent(s) = i PROVE w[Parent(i)] <= w[s]
  <2>1. i \in 1 .. n - 1 /\ Parent(i) # i /\ s # i
    BY <1>0, <1>4
  <2>2. w[s] = v[s] /\ w[Parent(i)] = v[Parent(i)] /\ v[i] <= v[s] /\ v[Parent(i)] <= v[i]
    BY <1>0, <1>2, <1>4, <2>1
  <2> QED BY <1>0, <1>1, <2>1, <2>2
<1> QED BY <1>3, <1>4 DEF UpReady

\* A value made larger is the only one that may be too large.
LEMMA MoreReady ==
  ASSUME NEW n \in Nat, NEW v \in [0 .. n - 1 -> Int], NEW w \in [0 .. n - 1 -> Int], Sorted(v, n),
         NEW i \in 0 .. n - 1, v[i] <= w[i], \A s \in 0 .. n - 1 : s # i => w[s] = v[s]
  PROVE  DownReady(w, n, i)
<1>0. \A s \in 1 .. n - 1 : s \in 0 .. n - 1 /\ Parent(s) \in 0 .. n - 1 /\ Parent(s) < s
  BY ParentAbove
<1>1. \A s \in 0 .. n - 1 : v[s] \in Int /\ w[s] \in Int
  OBVIOUS
<1>2. \A s \in 1 .. n - 1 : v[Parent(s)] <= v[s]
  BY DEF Sorted
<1>3. ASSUME NEW s \in 1 .. n - 1, Parent(s) # i PROVE w[Parent(s)] <= w[s]
  <2>1. w[Parent(s)] = v[Parent(s)] /\ v[Parent(s)] <= v[s]
    BY <1>0, <1>2, <1>3
  <2>2. v[s] <= w[s]
    <3>1. CASE s = i
      BY <3>1
    <3>2. CASE s # i
      <4>1. w[s] = v[s] /\ v[s] \in Int
        BY <1>0, <1>1, <3>2
      <4> QED BY <4>1
    <3> QED BY <3>1, <3>2
  <2> QED BY <1>0, <1>1, <2>1, <2>2
<1>4. ASSUME NEW s \in 1 .. n - 1, i > 0, Parent(s) = i PROVE w[Parent(i)] <= w[s]
  <2>1. i \in 1 .. n - 1 /\ Parent(i) # i /\ s # i
    BY <1>0, <1>4
  <2>2. w[s] = v[s] /\ w[Parent(i)] = v[Parent(i)] /\ v[i] <= v[s] /\ v[Parent(i)] <= v[i]
    BY <1>0, <1>2, <1>4, <2>1
  <2> QED BY <1>0, <1>1, <2>1, <2>2
<1> QED BY <1>3, <1>4 DEF DownReady

\* The heap an update leaves.
Updated(h, n, prio, q, e, p) ==
  IF p < prio[e] THEN bubble_up(q, h, h.index[e])
  ELSE IF p > prio[e] THEN bubble_down(q, n, h, h.index[e])
  ELSE h

\* An update keeps the entries and the invariant, also through an entry that was
\* extracted: its stale index is the root's, where nothing moves.
LEMMA UpdateGood ==
  ASSUME NEW h, NEW n, NEW prio, NEW l, HeapState(h, n, prio, l),
         NEW e \in l, NEW p \in Priorities, h.index[e] < n,
         NEW q, q = Repriced(prio, e, p), NEW r, r = Updated(h, n, prio, q, e, p)
  PROVE  HeapState(r, n, q, l) /\ Content(r, n) = Content(h, n)
<1> USE DEF Repriced, Updated
<1> DEFINE i == h.index[e]
           v == Values(prio, h, n)
           w == Values(q, h, n)
<1>1. /\ h \in Heaps /\ n \in Nat /\ n <= Cardinality(Entries)
      /\ Placed(h, n) /\ Content(h, n) \subseteq l /\ l \subseteq Entries
      /\ Sorted(v, n)
      /\ \A x \in l \ Content(h, n) : h.index[x] = 0
      /\ prio \in [Entries -> Priorities]
  BY DEF HeapState
<1>2. h.index \in [Entries -> Slots] /\ e \in Entries
  BY <1>1 DEF Heaps
<1>3. i \in 0 .. n - 1
  BY <1>1, <1>2, SlotFacts
<1>4. q \in [Entries -> Priorities] /\ q \in [Entries -> Int] /\ prio \in [Entries -> Int]
  <2>1. q \in [Entries -> Priorities]
    BY <1>1
  <2> QED BY <1>1, <2>1, PrioritiesInt
<1>5. \A x \in Entries : q[x] = IF x = e THEN p ELSE prio[x]
  BY <1>1
<1>p. p \in Int /\ prio[e] \in Int /\ q[e] = p
  BY <1>2, <1>4, <1>5
<1>6. /\ v \in [0 .. n - 1 -> Int] /\ \A s \in 0 .. n - 1 : v[s] = prio[h.arr[s]]
      /\ w \in [0 .. n - 1 -> Int] /\ \A s \in 0 .. n - 1 : w[s] = q[h.arr[s]]
  <2>1. v \in [0 .. n - 1 -> Int] /\ \A s \in 0 .. n - 1 : v[s] = prio[h.arr[s]]
    <3>1. n \in Nat /\ Placed(h, n) /\ prio \in [Entries -> Int]
      BY <1>1, <1>4
    <3> QED BY ONLY <3>1, ValuesType
  <2>2. w \in [0 .. n - 1 -> Int] /\ \A s \in 0 .. n - 1 : w[s] = q[h.arr[s]]
    <3>1. n \in Nat /\ Placed(h, n) /\ q \in [Entries -> Int]
      BY <1>1, <1>4
    <3> QED BY ONLY <3>1, ValuesType
  <2> QED BY <2>1, <2>2
<1>7. \A s \in 0 .. n - 1 : h.arr[s] \in Entries /\ h.index[h.arr[s]] = s
  BY <1>1 DEF Placed
<1> HIDE DEF v, w
<1>8. \A s \in 0 .. n - 1 : s # i => w[s] = v[s]
  <2> SUFFICES ASSUME NEW s \in 0 .. n - 1, s # i PROVE w[s] = v[s]
    OBVIOUS
  <2>1. h.arr[s] # e
    BY <1>7
  <2> QED BY <1>5, <1>6, <1>7, <2>1
<1>9. w[i] = v[i] \/ (w[i] = p /\ v[i] = prio[e])
  <2>1. CASE h.arr[i] = e
    BY <1>3, <1>6, <1>p, <2>1
  <2>2. CASE h.arr[i] # e
    BY <1>3, <1>5, <1>6, <1>7, <2>2
  <2> QED BY <2>1, <2>2
<1>v. v[i] \in Int
  BY <1>3, <1>6
<1> HIDE DEF i
<1>10. Restored(q, h, r, n)
  <2>1. CASE p < prio[e]
    <3>1. r = Up(q)[<<h, i>>]
      BY <2>1, BubbleUp DEF i
    <3>2. w[i] <= v[i]
      BY <1>9, <1>p, <1>v, <2>1
    <3>3. UpReady(w, n, i)
      BY <1>1, <1>3, <1>6, <1>8, <3>2, LessReady
    <3>4. Placed(h, n) /\ UpReady(Values(q, h, n), n, i) => Restored(q, h, Up(q)[<<h, i>>], n)
      BY ONLY <1>1, <1>3, <1>4, BubbleUpCorrect
    <3> QED BY <1>1, <3>1, <3>3, <3>4 DEF w
  <2>2. CASE p > prio[e]
    <3>1. r = Down(q, n)[<<h, i>>]
      BY <1>p, <2>2, BubbleDown DEF i
    <3>2. v[i] <= w[i]
      BY <1>9, <1>p, <1>v, <2>2
    <3>3. DownReady(w, n, i)
      BY <1>1, <1>3, <1>6, <1>8, <3>2, MoreReady
    <3>4. Placed(h, n) /\ DownReady(Values(q, h, n), n, i) => Restored(q, h, Down(q, n)[<<h, i>>], n)
      BY ONLY <1>1, <1>3, <1>4, BubbleDownCorrect
    <3> QED BY <1>1, <3>1, <3>3, <3>4 DEF w
  <2>3. CASE p = prio[e]
    <3>1. r = h
      BY <1>p, <2>3
    <3>2. q = prio
      BY <1>1, <2>3
    <3>3. Rearranged(h, h, n)
      BY <1>1, RearrangedSelf
    <3> QED BY <1>1, <3>1, <3>2, <3>3 DEF Restored, v
  <2> QED BY <1>p, <2>1, <2>2, <2>3
<1>11. /\ r \in Heaps /\ Placed(r, n) /\ Content(r, n) = Content(h, n)
       /\ Sorted(Values(q, r, n), n)
       /\ \A x \in Entries \ Content(h, n) : r.index[x] = h.index[x]
  BY ONLY <1>10 DEF Restored, Rearranged
<1>12. \A x \in l \ Content(r, n) : r.index[x] = 0
  BY <1>1, <1>11
<1> QED BY ONLY <1>1, <1>4, <1>11, <1>12 DEF HeapState

\* The heap zn_minheap_init makes is empty.
LEMMA HeapInit == zn_minheap_init => HeapInv /\ Content(heap, size) = {}
<1> SUFFICES ASSUME zn_minheap_init PROVE HeapInv /\ Content(heap, size) = {}
  OBVIOUS
<1>1. heap \in Heaps
  <2>1. [s \in Slots |-> Nil] \in [Slots -> Entries \cup {Nil}]
    OBVIOUS
  <2>2. \A e \in Entries : 0 \in Slots
    <3> SUFFICES ASSUME NEW e \in Entries PROVE 0 \in Slots
      OBVIOUS
    <3>1. Cardinality(Entries) # 0
      BY EntriesAssumption, FS_EmptySet
    <3> QED BY <3>1, SlotFacts
  <2>3. [e \in Entries |-> 0] \in [Entries -> Slots]
    BY <2>2
  <2> QED BY <2>1, <2>3 DEF zn_minheap_init, Heaps
<1>2. size = 0 /\ 0 .. size - 1 = {} /\ 1 .. size - 1 = {} /\ live = {}
  BY DEF zn_minheap_init
<1>3. Placed(heap, size) /\ Content(heap, size) = {} /\ Sorted(Values(priority, heap, size), size)
  BY <1>2 DEF Placed, Content, Sorted
<1>4. priority \in [Entries -> Priorities]
  BY MaxPriorityAssumption DEF zn_minheap_init, Priorities
<1> QED BY <1>1, <1>2, <1>3, <1>4, SlotFacts DEF HeapInv, HeapState
------------------------------------------------------------------------------
(***************************************************************************)
(* The theorems.                                                           *)
(***************************************************************************)
\* An insertion, seen by the callers.
LEMMA InsertStep ==
  ASSUME HeapInv, NEW e \in Entries, NEW p \in Priorities, zn_minheap_insert(e, p)
  PROVE  /\ HeapInv' /\ e \notin InHeap /\ InHeap' = InHeap \cup {e}
         /\ priority' = [priority EXCEPT ![e] = p]
<1>1. /\ priority' = Repriced(priority, e, p) /\ size' = size + 1
      /\ live' = live \cup {e} /\ heap' = bubble_up(priority', Appended(heap, size, e), size)
  BY DEF zn_minheap_insert, Repriced, Appended
<1>2. e \in Entries \ live /\ InHeap \subseteq live
  BY DEF zn_minheap_insert, HeapInv, HeapState, InHeap, Content
<1>3. HeapState(heap', size', priority', live') /\ Content(heap', size') = Content(heap, size) \cup {e}
  BY <1>1, <1>2, InsertGood DEF HeapInv
<1> QED BY <1>1, <1>2, <1>3 DEF HeapInv, InHeap, Content, Repriced

\* An extraction, seen by the callers.
LEMMA ExtractStep ==
  ASSUME HeapInv, zn_minheap_extract_min
  PROVE  /\ HeapInv' /\ priority' = priority
         /\ \E e \in InHeap : /\ InHeap' = InHeap \ {e}
                              /\ \A x \in InHeap : priority[e] <= priority[x]
<1> DEFINE n == size - 1
<1>1. /\ size > 0 /\ size' = n /\ priority' = priority /\ live' = live
      /\ heap' = Extracted(heap, n, priority)
  BY DEF zn_minheap_extract_min, Extracted, RootReplaced
<1>2. n \in Nat /\ size = n + 1
  BY <1>1 DEF HeapInv, HeapState
<1>3. HeapState(heap, n + 1, priority, live)
  BY <1>2 DEF HeapInv
<1> HIDE DEF n
<1>4. /\ HeapState(heap', n, priority, live)
      /\ heap.arr[0] \in Content(heap, n + 1)
      /\ Content(heap', n) = Content(heap, n + 1) \ {heap.arr[0]}
      /\ \A x \in Content(heap, n + 1) : priority[heap.arr[0]] <= priority[x]
  BY <1>1, <1>2, <1>3, ExtractGood
<1>5. InHeap = Content(heap, n + 1) /\ InHeap' = Content(heap', n)
  BY <1>1, <1>2 DEF InHeap, Content
<1> QED BY <1>1, <1>4, <1>5 DEF HeapInv

\* An update, seen by the callers.
LEMMA UpdateStep ==
  ASSUME HeapInv, NEW e \in Entries, NEW p \in Priorities, zn_minheap_update_by_entry(e, p)
  PROVE  HeapInv' /\ InHeap' = InHeap /\ priority' = [priority EXCEPT ![e] = p]
<1>1. /\ e \in live /\ heap.index[e] < size
      /\ priority' = Repriced(priority, e, p) /\ size' = size /\ live' = live
      /\ heap' = Updated(heap, size, priority, priority', e, p)
  BY DEF zn_minheap_update_by_entry, Repriced, Updated
<1>2. HeapState(heap', size', priority', live') /\ Content(heap', size') = Content(heap, size)
  BY <1>1, UpdateGood DEF HeapInv
<1> QED BY <1>1, <1>2 DEF HeapInv, InHeap, Content, Repriced

\* The caller frees only what is not in the heap.
LEMMA FreeStep ==
  ASSUME HeapInv, NEW e \in Entries, FreeExtracted(e)
  PROVE  HeapInv' /\ InHeap' = InHeap /\ priority' = priority
<1>1. /\ e \notin Content(heap, size) /\ live' = live \ {e}
      /\ heap' = heap /\ size' = size /\ priority' = priority
  BY DEF FreeExtracted, InHeap, Content
<1>2. HeapState(heap, size, priority, live \ {e})
  BY <1>1 DEF HeapInv, HeapState
<1> QED BY <1>1, <1>2 DEF HeapInv, InHeap

\* A step that changes nothing.
LEMMA HeapStutter ==
  ASSUME HeapInv, UNCHANGED heapVars
  PROVE  HeapInv' /\ InHeap' = InHeap /\ priority' = priority
BY DEF heapVars, HeapInv, InHeap

\* The invariant is inductive.
LEMMA HeapStep == HeapInv /\ [HeapNext]_heapVars => HeapInv'
BY InsertStep, ExtractStep, UpdateStep, FreeStep, HeapStutter DEF HeapNext

\* No child has a smaller priority than its parent, whatever is inserted,
\* extracted and updated, also through an entry extracted before (minheap.c:
\* every operation ends in bubble_up or bubble_down).
THEOREM HeapIsOrdered == HeapSpec => []HeapOrdered
<1>1. HeapInv => HeapOrdered
  <2> SUFFICES ASSUME HeapInv, NEW s \in 1 .. size - 1
               PROVE  priority[heap.arr[Parent(s)]] <= priority[heap.arr[s]]
    BY DEF HeapOrdered, Parent
  <2>1. size \in Nat /\ Sorted(Values(priority, heap, size), size)
    BY DEF HeapInv, HeapState
  <2>2. s \in 0 .. size - 1 /\ Parent(s) \in 0 .. size - 1
    BY <2>1, ParentAbove
  <2>3. Values(priority, heap, size)[Parent(s)] <= Values(priority, heap, size)[s]
    BY <2>1 DEF Sorted
  <2> QED BY <2>2, <2>3 DEF Values
<1>2. zn_minheap_init => HeapInv
  BY HeapInit
<1> QED BY HeapStep, <1>1, <1>2, PTL DEF HeapSpec

\* The priorities of the entries in the heap: what PriorityQueue's callers see.
Queue == [e \in InHeap |-> priority[e]]

\* Every step of the heap is one of the priority queue, or changes nothing there.
LEMMA QueueStep == HeapInv /\ [HeapNext]_heapVars => [Abstract!Next]_Queue
<1> SUFFICES ASSUME HeapInv, [HeapNext]_heapVars PROVE Abstract!Next \/ Queue' = Queue
  OBVIOUS
<1>0. InHeap \subseteq Entries /\ priority \in [Entries -> Priorities]
  BY DEF HeapInv, HeapState, InHeap, Content
<1>1. ASSUME NEW e \in Entries, NEW p \in Priorities, zn_minheap_insert(e, p) PROVE Abstract!Next
  <2>1. e \notin InHeap /\ InHeap' = InHeap \cup {e} /\ priority' = [priority EXCEPT ![e] = p]
    BY <1>1, InsertStep
  <2>2. \A x \in InHeap' : priority'[x] = IF x = e THEN p ELSE priority[x]
    BY <1>0, <2>1
  <2>3. Queue' = [x \in InHeap \cup {e} |-> IF x = e THEN p ELSE Queue[x]]
    BY <2>1, <2>2 DEF Queue
  <2>4. Abstract!Insert(e, p)
    BY <2>1, <2>3 DEF Abstract!Insert, Abstract!Queued, Queue
  <2> QED BY <2>4 DEF Abstract!Next
<1>2. CASE zn_minheap_extract_min
  <2>1. PICK e \in InHeap : /\ InHeap' = InHeap \ {e} /\ priority' = priority
                            /\ \A x \in InHeap : priority[e] <= priority[x]
    BY <1>2, ExtractStep
  <2>2. Queue' = [x \in InHeap \ {e} |-> Queue[x]]
    BY <2>1 DEF Queue
  <2>3. Abstract!ExtractMin(e)
    BY <2>1, <2>2 DEF Abstract!ExtractMin, Abstract!Queued, Queue
  <2>4. e \in Entries
    BY <1>0
  <2> QED BY <2>3, <2>4 DEF Abstract!Next
<1>3. ASSUME NEW e \in Entries, NEW p \in Priorities, zn_minheap_update_by_entry(e, p)
      PROVE  Abstract!Next \/ Queue' = Queue
  <2>1. InHeap' = InHeap /\ priority' = [priority EXCEPT ![e] = p]
    BY <1>3, UpdateStep
  <2>2. \A x \in InHeap : priority'[x] = IF x = e THEN p ELSE priority[x]
    BY <1>0, <2>1
  <2>3. CASE e \in InHeap
    <3>1. Queue' = [Queue EXCEPT ![e] = p]
      BY <2>1, <2>2, <2>3 DEF Queue
    <3>2. Abstract!Update(e, p)
      BY <2>3, <3>1 DEF Abstract!Update, Abstract!Queued, Queue
    <3> QED BY <3>2 DEF Abstract!Next
  <2>4. CASE e \notin InHeap
    BY <2>1, <2>2, <2>4 DEF Queue
  <2> QED BY <2>3, <2>4
<1>4. ASSUME NEW e \in Entries, FreeExtracted(e) PROVE Queue' = Queue
  BY <1>4, FreeStep DEF Queue
<1>5. CASE UNCHANGED heapVars
  BY <1>5, HeapStutter DEF Queue
<1> QED BY <1>1, <1>2, <1>3, <1>4, <1>5 DEF HeapNext

\* The heap is a priority queue: an extraction returns an entry of least
\* priority, bubbling neither loses nor duplicates an entry, and an update
\* through an entry that was extracted before changes nothing.
THEOREM HeapIsPriorityQueue == HeapSpec => RefinesPriorityQueue
<1>1. zn_minheap_init => Abstract!Init
  <2> SUFFICES ASSUME zn_minheap_init PROVE Queue = [e \in {} |-> 0]
    BY DEF Abstract!Init, Queue
  <2>1. InHeap = {}
    BY HeapInit DEF InHeap, Content
  <2> QED BY <2>1 DEF Queue
<1>2. HeapInv /\ [HeapNext]_heapVars => [Abstract!Next]_Queue
  BY QueueStep
<1>3. zn_minheap_init => HeapInv
  BY HeapInit
<1> QED BY HeapStep, <1>1, <1>2, <1>3, PTL DEF HeapSpec, RefinesPriorityQueue, Abstract!Spec, Queue
==============================================================================
