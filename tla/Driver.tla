--------------------------------- MODULE Driver ---------------------------------
(***************************************************************************)
(* The life of the process (main, src/zncache.c): loading the workload,    *)
(* starting the workers and the eviction thread, the main loop that the    *)
(* profiler's timer runs in, and the shutdown.  Of a worker this module    *)
(* keeps what main and the profiler see: requests taken, samples reported, *)
(* the counting out; what zn_cache_get does is the subject of module       *)
(* Cache, here it returns data or NULL, or it never returns.               *)
(***************************************************************************)
EXTENDS Profiler

CONSTANTS
  Workers,     \* the tasks pushed to the thread pool
  WorkloadMax, \* workload_max
  SizeofId,    \* sizeof(uint32_t), scaled down
  MaxReports   \* bound on the number of reports

ASSUME DriverAssumption ==
  /\ IsFiniteSet(Workers) /\ Workers # {}
  /\ WorkloadMax \in Nat \ {0}
  /\ SizeofId \in Nat \ {0}
  /\ MaxReports \in Nat

VARIABLES
  main_pc,              \* the point main has reached
  total_bytes_read,     \* locals of read_workload
  workload_buffer,      \* workload_buffer[b]: the byte of the file at b, or -1
  pc,                   \* where each task is
  wi,                   \* wi[w]: the request task w is serving, -1 before the first
  workload_index,       \* reader.workload_index
  nr_threads_completed,
  done,
  is_running,           \* the state of the GLib main loop
  timer,                \* whether profiling_task was registered
  nr_reports,           \* reports so far, counted for the bound
  evict_pc              \* where the eviction thread is

readVars == <<total_bytes_read, workload_buffer>>
taskVars == <<pc, wi, workload_index, nr_threads_completed, done>>
loopVars == <<is_running, timer, nr_reports>>
vars == <<profVars, main_pc, readVars, taskVars, loopVars, evict_pc>>

size == WorkloadMax * SizeofId

Init ==
  /\ ProfilerNull
  /\ main_pc = "options"
  /\ total_bytes_read = 0
  /\ workload_buffer = [b \in 0 .. size - 1 |-> -1]
  /\ pc = [w \in Workers |-> "none"]
  /\ wi = [w \in Workers |-> -1]
  /\ workload_index = 0 /\ nr_threads_completed = 0 /\ done = FALSE
  /\ is_running = FALSE /\ timer = FALSE /\ nr_reports = 0
  /\ evict_pc = "none"
------------------------------------------------------------------------------
(***************************************************************************)
(* main, up to the start of the threads.                                   *)
(***************************************************************************)
MainAt(from, to) == main_pc = from /\ main_pc' = to

\* An option, the workload file, the device, the thread pool or a push is refused:
\* main returns, and takes with it the tasks that already run.
MainFails ==
  /\ main_pc \in {"options", "device", "init", "push"}
  /\ main_pc' = "error"
  /\ UNCHANGED <<profVars, readVars, taskVars, loopVars, evict_pc>>

\* With -w the workload is read from a file, else it is simple_workload.
ParseOptions ==
  /\ main_pc = "options" /\ main_pc' \in {"read_workload", "device"}
  /\ UNCHANGED <<profVars, readVars, taskVars, loopVars, evict_pc>>

\* One read() of n bytes, at a uint32_t pointer that is advanced by bytes; what
\* lands outside of the buffer is left out.
ReadPiece(n) ==
  LET at == SizeofId * total_bytes_read IN
  /\ main_pc = "read_workload" /\ total_bytes_read < size
  /\ workload_buffer' = [b \in DOMAIN workload_buffer |->
       IF b \in at .. at + n - 1 THEN total_bytes_read + b - at ELSE workload_buffer[b]]
  /\ total_bytes_read' = total_bytes_read + n
  /\ UNCHANGED <<profVars, main_pc, taskVars, loopVars, evict_pc>>

ReadWorkloadDone ==
  /\ total_bytes_read = size
  /\ MainAt("read_workload", "device")
  /\ UNCHANGED <<profVars, readVars, taskVars, loopVars, evict_pc>>

\* read() fails, or the file ends too early.  EINTR changes nothing.
ReadWorkloadFails ==
  /\ total_bytes_read < size
  /\ MainAt("read_workload", "error")
  /\ UNCHANGED <<profVars, readVars, taskVars, loopVars, evict_pc>>

read_workload ==
  \/ \E n \in 1 .. size - total_bytes_read : ReadPiece(n)
  \/ ReadWorkloadDone \/ ReadWorkloadFails

OpenDevice ==
  /\ MainAt("device", "init")
  /\ UNCHANGED <<profVars, readVars, taskVars, loopVars, evict_pc>>

\* zn_init_cache, with or without a metrics file, and the timer, which is set up
\* unless profiler->realtime, a field nobody initialises, happens to be true.
InitCache ==
  /\ MainAt("init", "push")
  /\ zn_profiler_init
  /\ timer' \in IF profiler' = "open" THEN BOOLEAN ELSE {FALSE}
  /\ UNCHANGED <<readVars, taskVars, is_running, nr_reports, evict_pc>>

\* The task may run at once.
PushTask(w) ==
  /\ main_pc = "push" /\ pc[w] = "none"
  /\ pc' = [pc EXCEPT ![w] = "next"]
  /\ UNCHANGED <<profVars, main_pc, readVars, wi, workload_index, nr_threads_completed, done,
                 loopVars, evict_pc>>

StartEviction ==
  /\ \A w \in Workers : pc[w] # "none"
  /\ MainAt("push", "run")
  /\ evict_pc' = "running"
  /\ UNCHANGED <<profVars, readVars, taskVars, loopVars>>
------------------------------------------------------------------------------
(***************************************************************************)
(* The main loop and the shutdown.                                         *)
(***************************************************************************)
\* g_main_loop_run says that the loop runs, also when it was told to quit before.
g_main_loop_run ==
  /\ MainAt("run", "loop")
  /\ is_running' = TRUE
  /\ UNCHANGED <<profVars, readVars, taskVars, timer, nr_reports, evict_pc>>

\* The timer fires.
profiling_task ==
  /\ main_pc = "loop" /\ timer /\ is_running /\ nr_reports < MaxReports
  /\ StartReport
  /\ nr_reports' = nr_reports + 1
  /\ UNCHANGED <<main_pc, readVars, taskVars, is_running, timer, evict_pc>>

ReportStep ==
  /\ main_pc = "loop"
  /\ zn_profiler_write_all_and_reset
  /\ UNCHANGED <<main_pc, readVars, taskVars, loopVars, evict_pc>>

\* g_main_loop_run returns after the callback that is running, if any.
LeaveLoop ==
  /\ ~is_running /\ report.at = "idle"
  /\ MainAt("loop", "free_pool")
  /\ UNCHANGED <<profVars, readVars, taskVars, loopVars, evict_pc>>

\* Mutant: the pool is freed without waiting for its tasks.
FreePool_Immediately ==
  /\ MainAt("free_pool", "join")
  /\ UNCHANGED <<profVars, readVars, taskVars, loopVars, evict_pc>>

\* g_thread_pool_free with wait_ set.
FreePool ==
  /\ \A w \in Workers : pc[w] \in {"exited", "failed"}
  /\ MainAt("free_pool", "join")
  /\ UNCHANGED <<profVars, readVars, taskVars, loopVars, evict_pc>>

JoinEviction ==
  /\ evict_pc = "exited"
  /\ MainAt("join", "destroy")
  /\ UNCHANGED <<profVars, readVars, taskVars, loopVars, evict_pc>>

zn_destroy_cache ==
  /\ MainAt("destroy", "returned")
  /\ zn_profiler_close
  /\ UNCHANGED <<readVars, taskVars, loopVars, evict_pc>>
------------------------------------------------------------------------------
(***************************************************************************)
(* The tasks (task_function) and the eviction thread (evict_task), as far  *)
(* as main and the profiler see them.                                      *)
(***************************************************************************)
Alive == main_pc \notin {"error", "returned"}

TaskAt(w, from, to) == Alive /\ pc[w] = from /\ pc' = [pc EXCEPT ![w] = to]

\* Mutant: the end of the workload is missed by one.
TakeRequest_OffByOne(w) ==
  /\ workload_index <= WorkloadMax
  /\ TaskAt(w, "next", "get")
  /\ wi' = [wi EXCEPT ![w] = workload_index]
  /\ workload_index' = workload_index + 1
  /\ UNCHANGED <<profVars, main_pc, readVars, nr_threads_completed, done, loopVars, evict_pc>>

TakeRequest(w) ==
  /\ workload_index < WorkloadMax
  /\ TaskAt(w, "next", "get")
  /\ wi' = [wi EXCEPT ![w] = workload_index]
  /\ workload_index' = workload_index + 1
  /\ UNCHANGED <<profVars, main_pc, readVars, nr_threads_completed, done, loopVars, evict_pc>>

\* zn_cache_get returns data, or NULL.
Get(w) ==
  /\ TaskAt(w, "get", "latency") \/ TaskAt(w, "get", "failed")
  /\ UNCHANGED <<profVars, main_pc, readVars, wi, workload_index, nr_threads_completed, done,
                 loopVars, evict_pc>>

\* zn_cache_get does not return: it evicts again and again without effect, as in the
\* run chunkstall, spins on a reader that is never released, or sleeps in
\* zn_cachemap_find behind a thread that does.
GetHangs(w) ==
  /\ TaskAt(w, "get", "stuck")
  /\ UNCHANGED <<profVars, main_pc, readVars, wi, workload_index, nr_threads_completed, done,
                 loopVars, evict_pc>>

\* The samples of a request: latency, throughput, and the state of the cache.
UpdateLatency(w) ==
  /\ TaskAt(w, "latency", "throughput")
  /\ zn_profiler_update_metric(1, wi[w])
  /\ UNCHANGED <<main_pc, readVars, wi, workload_index, nr_threads_completed, done, loopVars, evict_pc>>

UpdateThroughput(w) ==
  /\ TaskAt(w, "throughput", "gauges")
  /\ zn_profiler_update_metric(3, wi[w])
  /\ UNCHANGED <<main_pc, readVars, wi, workload_index, nr_threads_completed, done, loopVars, evict_pc>>

SetGauges(w) ==
  /\ TaskAt(w, "gauges", "next")
  /\ zn_profiler_set_metric(2, wi[w])
  /\ UNCHANGED <<main_pc, readVars, wi, workload_index, nr_threads_completed, done, loopVars, evict_pc>>

\* The task counts itself out; the last one makes the main loop quit.
FinishTask(w) ==
  /\ workload_index >= WorkloadMax
  /\ nr_threads_completed' = nr_threads_completed + 1
  /\ IF nr_threads_completed' = Cardinality(Workers)
     THEN TaskAt(w, "next", "set_done") /\ is_running' = FALSE
     ELSE TaskAt(w, "next", "exited") /\ UNCHANGED is_running
  /\ UNCHANGED <<profVars, main_pc, readVars, wi, workload_index, done, timer, nr_reports, evict_pc>>

\* Mutant: done is not set.
SetDone_Forgets(w) ==
  /\ TaskAt(w, "set_done", "exited")
  /\ UNCHANGED <<profVars, main_pc, readVars, wi, workload_index, nr_threads_completed, done,
                 loopVars, evict_pc>>

SetDone(w) ==
  /\ TaskAt(w, "set_done", "exited")
  /\ done' = TRUE
  /\ UNCHANGED <<profVars, main_pc, readVars, wi, workload_index, nr_threads_completed,
                 loopVars, evict_pc>>

\* evict_task leaves its loop when it comes to look at done.
EvictExits ==
  /\ Alive /\ evict_pc = "running" /\ done
  /\ evict_pc' = "exited"
  /\ UNCHANGED <<profVars, main_pc, readVars, taskVars, loopVars>>

\* evict_task is in zn_fg_evict and spins for ever on the readers of its victim.
EvictHangs ==
  /\ Alive /\ evict_pc = "running"
  /\ evict_pc' = "stuck"
  /\ UNCHANGED <<profVars, main_pc, readVars, taskVars, loopVars>>
------------------------------------------------------------------------------
MainStep ==
  \/ MainFails \/ ParseOptions \/ read_workload \/ OpenDevice \/ InitCache
  \/ (\E w \in Workers : PushTask(w)) \/ StartEviction
  \/ g_main_loop_run \/ ReportStep \/ LeaveLoop
  \/ FreePool \/ JoinEviction \/ zn_destroy_cache

TaskStep(w) ==
  \/ TakeRequest(w) \/ Get(w) \/ GetHangs(w)
  \/ UpdateLatency(w) \/ UpdateThroughput(w) \/ SetGauges(w)
  \/ FinishTask(w) \/ SetDone(w)

Next ==
  \/ MainStep
  \/ profiling_task
  \/ \E w \in Workers : TaskStep(w)
  \/ EvictExits \/ EvictHangs

Spec == Init /\ [][Next]_vars

\* Main, the tasks and the eviction thread are scheduled as long as they can go on;
\* the timer need not fire, and whether a get or an eviction hangs is left open.
FairSpec ==
  Spec /\ WF_vars(MainStep) /\ WF_vars(EvictExits) /\ \A w \in Workers : WF_vars(TaskStep(w))
------------------------------------------------------------------------------
Samples == 0 .. WorkloadMax - 1

\* Every variable of the driver and the profiler keeps its type.
DriverTypeOK ==
  /\ profiler \in {"none", "open", "closed"}
  /\ metrics \in [Tags -> [value : SUBSET Samples, count : 0 .. WorkloadMax]]
  /\ report \in [at : {"idle", "read", "write"}, tag : Tags \cup {0}, val : SUBSET Samples]
  /\ file \in [Tags -> SUBSET Samples] /\ late \in [Tags -> SUBSET Samples]
  /\ main_pc \in {"options", "read_workload", "device", "init", "push", "run", "loop",
                  "free_pool", "join", "destroy", "returned", "error"}
  /\ total_bytes_read \in 0 .. size
  /\ workload_buffer \in [0 .. size - 1 -> -1 .. size - 1]
  /\ pc \in [Workers -> {"none", "next", "get", "latency", "throughput", "gauges",
                         "set_done", "exited", "failed", "stuck"}]
  /\ wi \in [Workers -> Samples \cup {-1}]
  /\ workload_index \in 0 .. WorkloadMax
  /\ nr_threads_completed \in 0 .. Cardinality(Workers)
  /\ done \in BOOLEAN /\ is_running \in BOOLEAN /\ timer \in BOOLEAN
  /\ nr_reports \in 0 .. MaxReports
  /\ evict_pc \in {"none", "running", "exited", "stuck"}

\* "Read an exact workload amount" (zncache.c:217): a workload that comes from a file
\* is in the buffer, byte for byte, when read_workload has succeeded.
WorkloadLoaded ==
  main_pc \notin {"options", "read_workload", "error"} /\ total_bytes_read > 0 =>
    \A b \in 0 .. size - 1 : workload_buffer[b] = b

\* The samples of metric i that were taken: those of every request but the ones a
\* task has not come to yet.
Taken(i) ==
  (0 .. workload_index - 1) \
    {wi[w] : w \in {u \in Workers : pc[u] \in
       {"get", "failed", "stuck", "latency"} \cup (IF i = 3 THEN {"throughput"} ELSE {})}}

\* "Write all metrics out and reset counters" (znprofiler.h:80): every sample is in
\* the report or still in its sum, in one of them only, unless it was taken between the two locks
\* of a report (znprofiler.c:106-112), and the average divides the sum by the number
\* of its samples.
SamplesAccounted ==
  profiler # "none" =>
    \A i \in {1, 3} :
      /\ Taken(i) = metrics[i].value \cup file[i] \cup late[i]
      /\ metrics[i].value \cap file[i] = {}
      /\ metrics[i].count = Cardinality(metrics[i].value)

\* What main gives up after the main loop (the profiler, its stack frame with done
\* and the counter) is used by nobody any more, and the shutdown is reached only when
\* every request was served (zncache.c:462-475).
ClosedAfterUse ==
  /\ main_pc \in {"join", "destroy", "returned"} =>
       /\ \A w \in Workers : pc[w] = "exited"
       /\ workload_index = WorkloadMax
  /\ main_pc \in {"destroy", "returned"} => evict_pc = "exited"

\* The last task told the main loop to quit before it ran.
QuitLost == main_pc = "loop" /\ is_running /\ done

\* A get or an eviction that never ends.
Hangs == evict_pc = "stuck" \/ \E w \in Workers : pc[w] = "stuck"

\* The process comes to an end, unless a get fails (its task is never counted out,
\* zncache.c:141-144), the quit is lost (zncache.c:187, 460), or a get or the eviction
\* thread never comes back from zn_fg_evict (cache.c:37, 100-114).  In particular the
\* last task's quit and its setting of done afterwards bring down the main loop, the
\* pool and the eviction thread, in whatever order they take notice.
MainReturns ==
  <>(~Alive \/ QuitLost \/ Hangs \/ \E w \in Workers : pc[w] = "failed")
==============================================================================
