# ZNCache in TLA+

ZNCache is a cache that keeps fixed-size chunks of data on a zoned SSD (ZNS) or
on a block device that is divided into zones. Worker threads serve a workload of
data ids: an id that is stored is read back, an id that is not is fetched from a
(simulated) remote source and written to the next chunk of an active zone. When
zones run out, an eviction policy chooses zones, or chunks, to give up.

This directory holds TLA+ modules translated from the source, the TLC
configurations that check them on small instances, and proofs for TLAPS.
`PROJECT.json` lists the components, runs, mutants, findings, hazards and
theorems, and maps every definition to the lines it models.

The default build defines `NDEBUG`, so a failing `assert` does not stop the
program. The models do what the code does then; what an assert claims is stated
as a property.

## Inventory

| Part | State | Operations | What makes it correct |
|---|---|---|---|
| Zone state manager, `src/zone_state_manager.c` | state and chunk pointer of every zone, queues of active and free zones, number of writers, invalid chunks; one mutex | get active zone, return it, undo a failed write, evict, mark a chunk invalid, counts | a zone has one writer, chunks are written in order, the device's active-zone limit holds, no zone is lost |
| Cache map, `src/cachemap.c` | id to entry (location, being written, empty), zone and chunk to id, readers per zone; one mutex, one condition per entry | find, insert, fail, clear zone, clear chunk | one fetch per id, no lost wakeup, the maps are inverse to each other, reader counts are exact |
| Cache front end, `src/cache.c` | hit ratio; locals of each call | `zn_cache_get`, `zn_fg_evict`, transfers | every hit returns the data of its id, every get returns, failures are undone |
| Promotional policy, `src/eviction/promotional.c` | LRU queue of full zones, zone to node | update on read and write, choose a victim (try-lock) | full zones are queued exactly once, open ones never |
| Chunk policy, `src/eviction/chunk.c` | LRU queue of chunks, chunks in use per zone, heap of full zones | update, evict, garbage collection | a relocated chunk keeps its id, zones taken are returned, readers are waited for |
| Minimum heap, `src/minheap.c` | array of pointers, index in each entry; one mutex | insert, extract minimum, update by entry | order, exact indexes, no write past the array |
| Workers and eviction thread, `src/zncache.c` | workload index, number of finished workers, `done` | `task_function`, `evict_task` | the workload is served once, the program stops |
| Driver, `main` and `read_workload` in `src/zncache.c` | workload buffer, thread pool, main loop, timer | load, start, run, join, destroy | the workload is the file's, nothing is given up while it is used, the process ends |
| Profiler, `src/znprofiler.c` | a value and a count per metric; one mutex | update, set, write all and reset | no sample is lost or counted twice |
| Utilities, `src/znutil.c`; evaluation, scripts, docs, tests | none of the cache | formatting, plotting, workload generation | not modelled |

Components interact by direct calls under separate mutexes: no operation holds
two of the locks (the chunk policy, which calls the others under its own, is the
exception). What is hard about the program is therefore what happens between two
critical sections of `zn_cache_get` or `zn_fg_evict`: a zone is returned, then
announced to the policy, then its mapping is inserted; an entry is looked up,
unlocked and then copied; the number of free zones is read, then used. Device
commands and transfers fail, and each failure has to be undone through three
components. The full list is under "hazards" in `PROJECT.json`.

## Modules

| Module | Models | Uses |
|---|---|---|
| `ZNBackend` | zones, chunks, threads, `zn_pair` | |
| `ZoneStateManager` | the manager, one action per operation | `ZNBackend` |
| `ZoneLifecycle` | abstract specification of the manager: zones, write pointers, writers | |
| `ZoneRefinement` | refinement mapping from the manager to `ZoneLifecycle` | `ZoneStateManager` |
| `ZoneStateManagerProofs` | theorems about the manager | `ZoneStateManager` |
| `ZoneRefinementProofs` | the manager implements `ZoneLifecycle` | `ZoneRefinement`, `ZoneStateManagerProofs` |
| `CacheMap` | the cache map | `ZNBackend` |
| `Cache` | `zn_cache_get`, `task_function`, `evict_task`; the properties both policies share | `ZoneStateManager`, `CacheMap` |
| `PromotionalPolicy` | the LRU queue of full zones | `ZNBackend` |
| `PromotionalCache` | the program with the promotional policy | `Cache`, `PromotionalPolicy` |
| `CacheProofs` | lemmas about the front end, for either policy | `Cache`, `ZoneStateManagerProofs` |
| `CacheDataProofs` | lemmas about the maps, the disk and the readers | `CacheProofs` |
| `PromotionalCacheProofs` | theorems about the program with the promotional policy | `PromotionalCache`, `CacheDataProofs` |
| `PriorityQueue` | abstract specification of the heap | |
| `MinHeap` | the heap; implements `PriorityQueue` | `PriorityQueue` (refinement) |
| `MinHeapProofs` | the heap stays within its array, is ordered, and implements `PriorityQueue` | `MinHeap` |
| `ChunkPolicy` | the chunk policy and its garbage collector | `Cache`, `PriorityQueue` |
| `ChunkCache` | the program with the chunk policy | `ChunkPolicy` |
| `ChunkCacheProofs` | theorems about the program with the chunk policy | `ChunkCache`, `CacheDataProofs` |
| `Profiler` | metrics and the periodic report | |
| `Driver` | `main`, `read_workload`, the main loop, start and shutdown of the threads | `Profiler` |
| `DriverProofs` | theorems about the process | `Driver` |
| `MC*` | instances for TLC, symmetry sets | |

### Zone state manager

`zone_state`, `chunk_offset` and `invalid` are the fields of `struct zn_zone`;
`active`, `free` and `writes_occurring` those of `struct zone_state_manager`.
`grant` is a specification variable: the pair a thread was given and has not
given back (in the code, the local `location`). Every function of the manager
takes `state_mutex` once, so each is one action.

* `zsm_get_active_zone` has four results. SUCCESS (`TakeActiveZone` or
  `OpenFreeZone`) and ERROR change the state. EVICT (`EvictNeeded`) and RETRY
  (`RetryNeeded`) do not: they are predicates the callers use. The second test of
  the limit, in `open_zone`, repeats `CanOpen` under the same lock.
* A device command fails only if `Faults` names it and the backend is `"ZNS"`. A
  failed open drops the zone from the free queue and leaves it in no queue; a
  failed finish leaves it in `WRITE_OCCURING` past its last chunk.
* `zsm_evict` returns early when the reset *succeeded*; `ResetDone` and
  `ResetFailed` are those two branches as they are.
* `ZsmSpec` lets threads do what the manager's callers may do: ask while holding
  nothing, give back what they hold, evict a zone whose last chunk was written.
  `CallsRespectZsm` checks that the whole program stays within that.

`ZoneLifecycle` says the same without queues and counters: a zone is free, open,
full or lost; its chunks are written one at a time and in order by at most one
writer; no more zones are open than the limit.

### Cache map, front end, workers and eviction thread

`zone_map[id]` is the hash table with `"NONE"` for an absent key; `waiting[t]`
is the id whose condition variable `t` sleeps on. The functions that take
`cache_map_mutex` are atomic, except where the code gives the mutex up:
`g_cond_wait` (`FindWait`, then `Broadcast` or `SpuriousWakeup`), and
`return *lookup`, which runs after the unlock. That copy is two steps,
`FindReturnLocation` and `FindReturnType`, in the order of the fields: the entry
may change before, between and after them. An entry keeps its old location when
its type changes, and starts with a zero one (`g_new0`).

`pc[t]` names the point a thread has reached in `zn_cache_get`:
`find`, `copy_location`, `copy_type`, then `read`, `update_read`, `release`
(hit) or `get_zone`, `write`, `return_zone`, `update_write`, `insert` (miss), with
`undo_zone` and `undo_map` for the failures. One action is one critical section
or one transfer. The increments of the hit ratio are merged into the neighbouring
step, with which they commute. RETRY is modelled as waiting: the loop at
`cache.c:100` does nothing else. The data of an id is the id itself in `disk` and
`data` (`zn_gen_write_buffer` puts the id at the head of the chunk, and
`zn_validate_read` compares it); `Blank` is what an erased chunk holds. A failed transfer stands for all retries of `zn_read_from_disk` and
`zn_write_out` having failed; a write that is given up may have transferred
nothing, or a part of the chunk, which then holds `Torn`, and on a zoned device a
chunk below the write pointer cannot be written again. The workload is any
sequence of `WorkloadMax` ids.

`PromotionalCache` adds the policy's two updates at their place in
`zn_cache_get` and the loop of `zn_fg_evict` (`evict`, `ev_pick`, `ev_clear`,
`ev_wait`, `ev_reset`). `evict_task` (`bg_done`, `bg_free`) is in `Cache`. `nr_evict[t]` is
the number of iterations left, computed once with unsigned arithmetic modulo
`UintMod`; `raced` is a history variable, set when a zone is cleared with a thread in
flight to it. `g_mutex_trylock` may fail only while another thread is about to run a
policy operation. A reset of a zoned device erases the zone.

### Chunk policy and garbage collector

`zone_pool[z]` is `struct eviction_policy_chunk_zone`, `lru_queue` the queue of
chunks, `invalid_pqueue` the heap of full zones. A node of the LRU queue points to
a slot of the pool; `linked` says whether `chunk_to_lru_map` leads back to it,
which it does not for a node the collector made. `zn_policy_chunk_evict` holds
`policy_mutex` all along, the workers' updates wait for it, other evictors give
up; what it calls of the manager, the map and the device is seen by the other
threads, so every such call is a step: `evict`, `ch_evict` (one chunk per step),
then `gc_next`, `gc_chunk`, `gc_read`, `gc_write`, `gc_insert`, `gc_reset`.

The collector is modelled as it is written: the result of `zsm_get_active_zone` is
not looked at, and `new_location` is any pair when it was not assigned
(`NoActiveZone`: opening failed, or EVICT, or RETRY; then `RelocateTo` takes any pair or
`RelocateNowhere` ends the program at a wild address); the chunk is inserted under the
id of the slot,
which is always 0 (`ZeroId`); the zone it wrote to is not returned; readers are not
waited for. `gc.moved` records that a relocation has begun, and `crashed` a
dereference of a pointer that is NULL or was never assigned. The properties of
this policy say what holds until a chunk is relocated; from then on the policy's
own data is wrong, as the run `chunkgc` shows.

The heap is used through `PriorityQueue`: a function from queued items to
priorities with insertion, extraction of a least item and update. The run
`minheap` and the theorem `HeapIsPriorityQueue` show that `MinHeap`, the array with
its index fields, implements it, stale entries included.

### Minimum heap

`heap` holds the array of pointers and the index every entry keeps of itself. An
extracted entry stays `live` until its owner frees it, because the chunk policy
keeps a pointer to it (`pqueue_entry`) and may pass it to
`zn_minheap_update_by_entry` again.

### Driver and profiler

`main_pc` walks through `main`; every early return leads to `error`, which ends the
process and the threads that already run. `read_workload` reads in pieces, each
written at the place the pointer arithmetic yields (the byte count is added to a
`uint32_t` pointer). Of the workers `Driver` keeps what `main` and the profiler see
of them: the shared index, the samples they report, their counting out; a get ends well,
fails, or never comes back (`GetHangs`), and neither need the eviction thread
(`EvictHangs`), as `chunkstall` and `emptyresult` show of the cache. `is_running`
is the flag of the GLib main loop (external): `g_main_loop_quit` clears it,
`g_main_loop_run` sets it, so a quit that comes first is lost. `realtime` is never
assigned, so the timer is set up or not.

A sum of the profiler is the set of the samples it adds up. One metric of each type
is kept. `zn_profiler_write_all_and_reset` reads a metric under the lock, writes the
line, and resets under the lock again; `late` is a history variable that records the
samples taken in between.

## Runs

Runs that must pass:

| Run | Instance | Checks |
|---|---|---|
| `zsm` | 3 zones of 3 chunks, 3 threads, limit 2, open, finish and reset may fail | type, queues against states, exclusive grants, budget, no leak, a retry always has a writer to wait for, offsets only advance, refinement of `ZoneLifecycle` |
| `races` | 2 workers and the eviction thread, 2 zones of 2 chunks, 3 ids, 5 requests, all faults but reset | type, LRU queue holds full zones once, every full zone is tracked, every sleeper has a filler, committed chunks hold the whole data of an id, answers, inverse maps, reader counts, the program uses the manager as `ZsmSpec` allows |
| `stampede` | 3 workers, 2 ids, limit 1, writes may fail | answers, reader counts, single fetch, every get returns |
| `minheap` | 6 entries, 3 priorities, initial capacity 1 | order, capacity, refinement of `PriorityQueue` |
| `chunk` | chunk policy, 1 worker, 3 zones of 2 chunks, 7 ids, 9 requests, transfers may fail | type, the policy's views agree with each other and with the map, full zones queued under their exact priority, cheapest zone first, answers |
| `chunkraces` | chunk policy, 2 workers and the eviction thread, 2 zones of 1 chunk, 3 ids, 3 requests | no full zone lost, an eviction never runs out of chunks, the manager is used as `ZsmSpec` allows, the workload completes |
| `driver` | 2 workers, eviction thread, 2 requests, 2 reports | type, samples accounted for, nothing used after it was given up, main returns |

Several of these carry a stated exception, because without it the code violates
them; TLC reaches every one of the exceptions:

* the properties of the chunk policy: *until a chunk is relocated*;
* `WorkloadCompletesUnlessMoved`: also *unless the process crashes* (a chunk is
  evicted between the update of the policy and the insertion of its mapping,
  `chunk.c:201`) or *threads take `policy_mutex` away from each other for ever*
  (`chunk.c:156`: both give up, both try again);
* answers, maps and reader counts in `races`: *until an evictor clears a zone with a
  thread in flight to it*, a thread that is about to copy an entry that leads there or
  about to insert one; the history variable `raced` of `PromotionalCache` records it;
* `MainReturns`: *unless a get failed* (its worker is not counted out,
  `zncache.c:141-144`), *the quit came before `g_main_loop_run`*, *or a get or the
  eviction thread never comes back from an eviction* (`cache.c:37`, `cache.c:100-114`);
* `SamplesAccounted`: *unless the sample was taken between the two locks of a
  report* (`znprofiler.c:106-112`);
* `NoZoneLeaked`: *unless opening the zone failed* (`zone_state_manager.c:199`).

Runs that must find a violation, one for each disagreement between the code and
what the repository says of it:

| Run | Property | What happens |
|---|---|---|
| `emptyresult` | `ResultNotEmpty` | an eviction between unlock and copy makes `zn_cachemap_find` return an empty entry, against the assert at `cache.c:65` |
| `lateinsert` | `NoEntryIntoEvictedZone` | a mapping is inserted into a zone evicted since the policy was told it is full, against the comment at `cache.c:41`; later hits read what is there by then |
| `chunkgc` | `RelocationKeepsMapping` | a relocated chunk is mapped to the id 0, against "Update mappings" in `architecture.md:41` |
| `chunkstall` | `GetReturns` | `zn_cache_get` evicts for ever without effect: enough chunks are free, all of them in full zones, and the collector is not reached |
| `shortread` | `WorkloadLoaded` | after a read that returns a part of the file the next part goes to the wrong place (`zncache.c:230`), and `read_workload` reports success, against "Read an exact workload amount" at `zncache.c:217` |

`ReadValid`, `MapsAgree` and `ReadersBalanced` fail when a zone is evicted under
a thread that is between two steps of `zn_cache_get`. `races` shows that they hold up
to that step, with evictions and several threads; `stampede` checks the answers and the
reader counts without exception where nothing is evicted. The other properties of
`races` hold in spite of it. The theorems `DataIntegrity`, `NoLateInsert` and
`NoEmptyResult` say that this is the only way any of them fails (see Proofs).

Further observations, part of the models but not a run of their own:

* with the eviction thread, the unsigned difference at `cache.c:27` wraps around
  when the number of free zones has passed the mark since `evict_task` read it;
  `EvictBudget` says that it does not. The smallest instance we found in which it does has four
  ids and six requests beside the eviction thread, too many states for a run; the
  theorem `BudgetHolds` proves the property whenever no zone is freed between an
  evictor's check and its second count;
* after a failed `zbd_finish_zones` the zone is written out and stays in
  `WRITE_OCCURING`. It is queued for eviction like a full one, so the assert of `FULL`
  in `zsm_evict` (`zone_state_manager.c:278`) does not hold then; `LruHoldsFullZones`
  therefore speaks of zones whose last chunk was written. The manager counts such a zone
  neither as active nor as being written, though it may still be active on the device:
  `ActiveZoneBudget` is about what the manager counts;
* the inverted test at `zone_state_manager.c:281` reports a failed reset as success
  and keeps the invalid chunks of a zone that was reset;
* `pqueue_entry` of a zone that was never full is not initialised
  (`eviction_policy.c:93`) and followed at `chunk.c:195`;
* garbage collection resets a zone without waiting for its readers (`chunk.c:147`);
* with 0 worker threads `thread_data` is NULL at `zncache.c:460`; `Driver` assumes
  at least one.

### Bounds

* Two zones of two chunks and three ids are enough for a zone to fill, be evicted
  and be filled again while another thread still works with its old contents;
  five requests let each worker do that twice. There is one eviction thread, as in
  the program.
* `zsm` uses more zones than the limit and more threads than the limit, so that
  RETRY, EVICT and both queues with several zones occur.
* `chunk` has more ids than chunks and thresholds that make an eviction invalidate
  several chunks and collect two zones; with two chunks per zone the heap holds
  zones of different priority, and chunks are relocated. `chunkraces` needs three
  threads, so its zones hold one chunk: every writer fills a zone, and updates,
  evictions and collections of the same zone meet. `chunkstall` keeps the order of
  the default thresholds (6, 12 and 4 in `meson_options.txt`) at a smaller scale.
* `driver`: two requests and two reports let a sample fall before, into and after
  each gap of a report. Its ids are one byte long, because what the buffer holds is the
  question of `shortread`, where an id has the four bytes of a `uint32_t`.
* `chunk`, `chunkgc` and `chunkstall` have one worker that evicts in the foreground and
  leave out the eviction thread `main` always starts (`zncache.c:458`): their behaviours
  are those in which that thread is not scheduled. Interleavings with it are the
  subject of `races` and `chunkraces`, and of the theorems.
* `MaxInvalid` bounds the length to which an invalid queue is explored when the
  manager is checked alone; nothing in the manager depends on it.
* `UintMod` stands for 2^32. It is larger than every number that occurs before
  the subtraction, so a difference wraps around exactly when it does in the code.
* `WorkloadMax`, `MaxPriority` and `MaxReports` bound requests, priorities and
  reports.
* Symmetry is used for threads, workers, ids and entries in runs that check no
  liveness; `ZeroId` is kept out of it.
* `races`, `chunk`, `chunkraces` and `zsm` do not check for deadlock: an evictor that
  waits for a reader count which was never given back (see `emptyresult`) really
  does wait for ever, a collector that took all zones stops everybody, and a manager
  whose zones were all lost has no step left. `driver` does not either: the process
  ends, or hangs after a lost quit.

### Fairness

`FairSpec` assumes weak fairness of `RunStep(t)` for every thread: the operating
system runs every thread that can go on. The spinning loops (RETRY and
`active_readers > 0`) are modelled by their exit condition; this asks of the
scheduler only that a spinning thread looks again while the condition holds.
Spurious wakeups are possible but never assumed. `GetReturns` and
`WorkloadCompletesUnlessMoved` are checked under it. The
`FairSpec` of `Driver` assumes the same of main, each task and the eviction thread;
the timer need not ever fire, and whether a get or an eviction hangs is left open. No
mutex is assumed to be handed over fairly: a try-lock
may fail again and again, and the property that is exposed to it says so.

### Mutants

Each property of a passing run has a mutant of a mapped definition, next to it in
its module, that a plausible slip would produce (`PROJECT.json`, "mutants"); TLC
finds the property violated under the same configuration.

## Proofs

Every theorem holds for all values of the constants that satisfy the assumptions of
the modules that declare them: positive numbers of zones, chunks and active zones,
finite sets of threads and workers, thresholds that are natural numbers and a modulus
`UintMod` they stay below; `NULL` is not a thread (`MutexAssumption`: it is the owner of
a mutex nobody holds). Backend and set of faults are arbitrary, unless a theorem says
otherwise. Each component has
one inductive invariant, a lemma for each action that preserves it, and short theorems
that derive the properties from it.

### Zone state manager

`ZoneStateManagerProofs` proves that `ZsmSpec` implies `[]ZsmTypeOK`,
`[]QueuesMatchStates`, `[]GrantsExclusive`, `[]ActiveZoneBudget`, `[]RetryHasWriter`,
`[]ZoneHasRoom`, `[]NoZoneLeaked` and `OffsetsAdvance`.

The inductive invariant is `ZsmInv /\ ActiveZoneBudget`, where `ZsmInv` joins
the types, the agreement of queues and states, exclusive grants and room in
active zones. None of these is inductive alone. That a popped zone is not held by
somebody else needs that queued zones are ACTIVE and granted ones WRITE_OCCURING;
that a returned zone may be queued again needs that it is in neither queue; that
the counter stays natural needs that it equals the number of writers, which needs
that a thread giving a pair back holds one. Lemmas about popping and pushing a
sequence without duplicates (`PopQueue`, `PushQueue`) carry the queue part, a
lemma about the cardinality of the writers (`WriterChanges`) the counter.
`ZsmRetry` follows from the invariant: if no thread writes, the counter is 0, so
either a zone can be opened, an active one exists, or EVICT is returned. `ZsmNoLeak`
strengthens its property to `Accounted`, which is inductive relative to the invariant.
`ZoneHasRoom` is proved and not part of a run.

`ZoneRefinementProofs` proves `ZsmRefines`: `ZsmSpec => RefinesLifecycle`, step by
step, from the same invariant. The abstract writer of a zone is the thread that holds
it, which is well defined because grants are exclusive. The limit on open zones of
`ZoneLifecycle` follows from the counters: open zones are the active ones and those
with a writer, at most the length of the active queue plus `writes_occurring`.

### The program with the promotional policy

`CacheInductive` proves the invariant `CacheInv`, which is
`FrontInv(EvictPcs) /\ PolicyInv`.

* `FrontInv` (`CacheProofs`) holds the manager's invariant and relates the point each
  thread has reached to what it holds: the pair it was granted is its `location` exactly
  between `get_zone` and `return_zone`; an id that is being fetched, or on which a
  thread sleeps, has a thread on the way to inserting it or giving it up; a chunk the
  manager counts as written, and one about to be returned, holds the whole data of an
  id; the finished workers are counted. It does not speak of the policy.
* `PolicyInv` says who may evict a full zone. A zone written to its end has one
  *holder*: the LRU queue, the evictor whose `victim` it is, or the worker that has
  returned its last chunk and not told the policy yet. Holders exclude each other,
  so no zone is evicted twice; they hold only full zones, so none is evicted while it
  is written; and there is always one unless a reset failed, so none is forgotten.

From it follow `CacheTypeCorrect`, `LruIsFull`, `FullZonesFound`, `NoLostWakeup`,
`ChunksWhole` and `ProgramRespectsZsm`. The last is `Spec => CallsRespectZsm`: the
program implements `ZsmSpec`, so everything proved of the manager holds of the program
(`ProgramKeepsZsm`). All of these are without a hypothesis on the interleaving.

What is false of the code in general is proved under a hypothesis that names the step
at fault, as an action property of the behaviour:

* `ClearsSettled`: no evictor clears a zone while a thread is *in flight* to it, that
  is, about to copy an entry that leads into it, or about to insert one. Under it,
  `DataIntegrity` proves `[]ReadValid`, `[]MapsAgree` and `[]ReadersBalanced` (the last
  also as a theorem of its own, `ReadersCounted`),
  `NoLateInsert` proves `NoEntryIntoEvictedZone`, and `NoEmptyResult` proves
  `[]ResultNotEmpty`. The runs `lateinsert` and `emptyresult` show behaviours with
  each kind of thread in flight; the theorems show that there is no third kind. The
  hypothesis holds of every behaviour that evicts nothing. `DataUnlessRaced` needs no
  hypothesis: it says the same of every behaviour up to the step at fault, which the
  history variable `raced` records.
* `CountsFresh`: no zone is reset while a thread stands between its check of the free
  zones and its second count of them. Under it, and with the high-water mark
  not above the low-water mark (2 and 4 in `meson_options.txt`), `BudgetHolds` proves
  `[]EvictBudget`.
* `NothingCleared`: nothing is evicted. Under it `SingleFlight` proves `[]FetchedOnce`;
  after an eviction an id is rightly fetched again.

The invariant behind `DataIntegrity` is `DataInv` (`CacheDataProofs`): the two maps are
inverse to each other; a mapped chunk is committed and holds the data of its id; an id
has one filler, and its entry says so; a reader that has copied a location has that
of the entry and finds the data there; a chunk that is written and not mapped belongs
to one thread; reader counts equal the readers. `VictimsSettled` carries it through an
eviction: nothing leads into a zone that was cleared, and when it is reset nobody reads
it. `FetchInv`, for `SingleFlight`, ties the number of misses to the set of stored ids.

### Driver, profiler, workload reader

`DriverProofs` proves `DriverInductive` and from it `DriverTypeCorrect`,
`SamplesAreAccounted` and `ClosedOnlyAfterUse`, for any number of
workers, requests, bytes and reports. The invariant relates the point `main` has reached
to the tasks: nothing runs before the push; each request in progress belongs to one
task; a sample read by a report is what the metric held, or came in the gap; the
number of finished tasks is that of the tasks past their count, all of which found the
workload finished; and the main loop ends only when every task is counted, which is why
nothing is used after it was given up.

### The program with the chunk policy

`CacheProofs` and `CacheDataProofs` are stated for any policy, but under the manager's
invariant, and the collector breaks that: it never returns the zones it is granted
(`chunk.c:108`), so after a relocation `writes_occurring` counts zones that nobody will
give back. `ChunkCacheProofs` therefore instantiates the front end's lemmas a second time
(`W`) with the zones *the workers* hold in the place of `grant` and their number in the
place of `writes_occurring`. The invariant of that view holds whatever the collector
does, and until a chunk is relocated the view is the manager's own state (`LentOK`).

`ChunkInductive` proves `ChunkInv`, which is `FrontOK /\ WholeOK /\ PolicyInv`: the view
`W`, the control state, the data of committed chunks, the types of the policy, mutual
exclusion through `policy_mutex` together with what its owner is doing (`MutexOK`,
`CollectorOK`), and the holders of a full zone: the priority queue, the collector, or the
worker that filled it (`ZonesHeld`, `ZonesFound`). It has no hypothesis on the
interleaving and goes on after relocations. From it follow

* `ChunkTypeCorrect`, `ChunkNoLostWakeup`, and `ChunkKeepsZsm` (the limit on active zones,
  and exclusive zones for the workers);
* `ChunkChunksWhole`, for a zoned device: the collector may write to a place it was never
  given, and only the device refuses that. On a block device it may overwrite any chunk,
  and the property is false: with one active zone TLC finds a committed chunk torn;
* `FullZonesOnce`, if resets succeed: the holders of a zone number one if its last chunk
  was written and none otherwise;
* `EvictBudgetKept`, with the high-water mark not above the low-water mark and that not
  above the number of chunks (6 and 12 in `meson_options.txt`). The invariant `RoomOK`
  counts the nodes of the LRU queue: relocations leave a second node for a chunk, never
  fewer, and the number of chunks to evict is bounded by the number of nodes even when the
  unsigned number of free chunks has wrapped around.

What needs more is proved under a hypothesis that names the step at fault. Each of these
steps is one the code can take, and each hypothesis is discharged where it cannot:

* `UpdatesInOrder`: a chunk is reported to the policy before its zone is queued. A
  worker that is late for an earlier chunk of a zone counts it after another worker has
  filled and queued the zone (`chunk.c:42-53`), and the priority is stale. Under it the
  priorities are exact (`PrioritiesOK`): `FullZonesKept` and `CheapestZoneTaken`. It holds
  with one chunk per zone and any number of threads (`OneChunkInOrder`), and with one
  worker beside any number of evicting threads (`OneWorkerInOrder`): a worker reports a
  chunk right after it has returned it, so only another worker can overtake it.
* `CollectsSettled`: no zone is reset while a worker is about to report a chunk of it. The
  collector does not look for such workers. Under it the LRU queue, its index and the pool
  agree (`ViewsAgree`): `PoolKept`. With `MarksOK`, which bounds the marks of a zone by the
  requests served, the manager is called as `ZsmSpec` allows: `ChunkRespectsZsm`, where
  `MaxInvalid`, the bound of the manager's own model, has to be at least `WorkloadMax`.
  `CollectsInOrder` discharges the hypothesis for one chunk per zone. With one
  worker and any number of evicting threads it is not
  needed for the views: `OneWorkerViews` proves `[]PoolMatchesLru` outright.
* `EvictsSettled`: moreover no chunk is evicted while a thread is about to copy or insert
  its entry, and no zone is reset with a reader in it (the collector does not look at
  `active_readers`, `chunk.c:145-147`). Under it `DataInv`, the invariant of the
  promotional policy, holds together with `KnownOK`: the chunks in use are those that are
  mapped or about to be. `EvictableKept` and `ChunkDataKept` follow: the policy evicts only
  mapped chunks, hits return the right data, the maps are inverse, reader counts exact.

`PoolMatchesLru`, `FullZonesQueued`, `CheapestZoneFirst`, `EvictableIsMapped`,
`ChunkReadValid` and `ChunkCallsRespectZsm` speak of the time until a chunk is relocated;
`chunkgc` shows why. `gc.moved` never becomes false again (`MovedStays`), so their
invariants have the form `~gc.moved => ...`.

### Minimum heap

`HeapFits` proves that the array is never written beyond its end. A full array is
doubled, which makes room only because the capacity is never 0: `CapacityInv` has both.

`HeapIsOrdered` and `HeapIsPriorityQueue` prove `[]HeapOrdered` and
`RefinesPriorityQueue` for any finite set of entries. `bubble_up` and `bubble_down` are
recursive functions. The library's induction theorems cannot be used with the installed
provers, because they take a predicate as a parameter; the argument is by the
least-number principle for *sets* instead (`Least`): the set of slots from which the
recursion goes wrong would have a first element, for `bubble_down` counted from the end.
In that way `UpExists` and `DownExists` show that the functions are what their definitions
say, and `BubbleUpCorrect` and `BubbleDownCorrect` that they turn an array with one value
too small (`UpReady`) or too large (`DownReady`) for its slot into an ordered one with the
same entries. The inductive invariant `HeapInv` says that every entry in the heap knows
its slot, that the caller holds every entry of the heap, and that an extracted entry keeps
the index 0: an update through it starts at the root, where nothing is out of order, and
changes nothing. That the root is least (`RootLeast`) is the same argument once more.

### Only model-checked

All liveness (`GetReturns`, `WorkloadCompletesUnlessMoved`,
`MainReturns`): liveness under fairness and `ENABLED` are out of the prover's reach. Every
other property of a passing run is stated by a theorem, under the hypotheses named above.

## Not modelled

* `src/znutil.c` and `src/include/znutil.h`: formatting and device queries; they
  change no state of the cache.
* The zone policy: an empty file, its branch is `assert(!"NYI")`.
* `zn_evict_policy_get_cache_size`: the length of the LRU queue, read for a metric.
* `zsm_get_active_zone_batch`: compiled out.
* The lines `ZN_PROFILER_PRINT_EVERY` adds to the metrics file, a debugging option.
* The single attempts within a transfer: `Cache` has their joint outcome.
* Memory exhaustion: allocations that fail end the program.
* Tests, evaluation, scripts.

## Plan

1. Done: `ZoneStateManager`, its abstract specification and proofs; `CacheMap`,
   `PromotionalPolicy`, `Cache`, `PromotionalCache`; `MinHeap`.
2. Done: `PriorityQueue`, `ChunkPolicy`, `ChunkCache`; `Profiler`, `Driver`; writes
   that are given up half-way.
3. Done: proofs about the manager and its refinement, the program with the
   promotional policy, `Driver` and the array of `MinHeap`.
4. Done: `ChunkCacheProofs`; `MinHeap` implements `PriorityQueue`.
5. Left: the liveness properties, should the provers come to support fairness.
