------------------------------ MODULE DriverProofs ------------------------------
(***************************************************************************)
(* Theorems about Driver: the life of the process, for every number of     *)
(* workers, every length of the workload and every number of reports.      *)
(***************************************************************************)
EXTENDS Driver, FiniteSetTheorems, TLAPS

(***************************************************************************)
(* The inductive invariant.                                                *)
(***************************************************************************)
\* DriverTypeOK without the bounds on the counters, which need what follows.
Types ==
  /\ profiler \in {"none", "open", "closed"}
  /\ metrics \in [Tags -> [value : SUBSET Samples, count : Nat]]
  /\ report \in [at : {"idle", "read", "write"}, tag : Tags \cup {0}, val : SUBSET Samples]
  /\ file \in [Tags -> SUBSET Samples] /\ late \in [Tags -> SUBSET Samples]
  /\ main_pc \in {"options", "read_workload", "device", "init", "push", "run", "loop",
                  "free_pool", "join", "destroy", "returned", "error"}
  /\ pc \in [Workers -> {"none", "next", "get", "latency", "throughput", "gauges",
                         "set_done", "exited", "failed", "stuck"}]
  /\ wi \in [Workers -> Samples \cup {-1}]
  /\ workload_index \in 0 .. WorkloadMax
  /\ done \in BOOLEAN /\ is_running \in BOOLEAN /\ timer \in BOOLEAN
  /\ nr_reports \in 0 .. MaxReports
  /\ evict_pc \in {"none", "running", "exited", "stuck"}

\* read_workload never reads more than the buffer holds.
Reading ==
  /\ total_bytes_read \in 0 .. size
  /\ workload_buffer \in [0 .. size - 1 -> -1 .. size - 1]

\* Nothing runs before the tasks are pushed.
BeforePush ==
  main_pc \in {"options", "read_workload", "device", "init"} =>
    /\ profiler = "none" /\ ~timer
    /\ workload_index = 0 /\ \A w \in Workers : pc[w] = "none"

\* A request is served by one task.
Serving ==
  /\ \A w \in Workers :
       /\ wi[w] < workload_index
       /\ pc[w] \in {"get", "latency", "throughput", "gauges", "failed", "stuck"} => wi[w] # -1
  /\ \A u, w \in Workers : wi[u] = wi[w] /\ wi[u] # -1 => u = w

\* A report runs in the main loop; what it holds is what the sum had when it was
\* read, and what came to the sum since then is late.
Reporting ==
  /\ timer => profiler # "none"
  /\ report.at # "idle" => main_pc = "loop" /\ profiler # "none" /\ report.tag \in Tags
  /\ report.at = "write" /\ report.tag # 2 =>
       /\ report.val \subseteq metrics[report.tag].value
       /\ metrics[report.tag].value \subseteq report.val \cup late[report.tag]

\* A metric is empty without a profiler, and counts its samples.
Counting ==
  /\ profiler = "none" =>
       \A i \in Tags : metrics[i].value = {} /\ file[i] = {} /\ late[i] = {}
  /\ \A i \in Tags : metrics[i].count = IF i = 2 THEN 0 ELSE Cardinality(metrics[i].value)

Counted == {w \in Workers : pc[w] \in {"set_done", "exited"}}

\* The tasks that count themselves out are those that found the workload finished.
Completing ==
  /\ nr_threads_completed = Cardinality(Counted)
  /\ \A w \in Counted : workload_index = WorkloadMax

\* The main loop ends when every task was counted out.
Shutdown ==
  /\ main_pc = "loop" /\ ~is_running => nr_threads_completed = Cardinality(Workers)
  /\ main_pc \in {"free_pool", "join", "destroy", "returned"} =>
       nr_threads_completed = Cardinality(Workers)
  /\ main_pc \in {"join", "destroy", "returned"} => \A w \in Workers : pc[w] = "exited"
  /\ main_pc \in {"destroy", "returned"} => evict_pc = "exited"

DriverInv ==
  /\ Types
  /\ Reading
  /\ BeforePush
  /\ Serving
  /\ Reporting
  /\ Counting
  /\ SamplesAccounted
  /\ Completing
  /\ Shutdown
------------------------------------------------------------------------------
(***************************************************************************)
(* The operations of the profiler.                                         *)
(***************************************************************************)
Metric == [value : SUBSET Samples, count : Nat]

\* The value of a metric can be set.
LEMMA ValueSet ==
  ASSUME NEW m \in Metric, NEW v \in SUBSET Samples
  PROVE  /\ [m EXCEPT !.value = v] \in Metric
         /\ [m EXCEPT !.value = v].value = v /\ [m EXCEPT !.value = v].count = m.count
BY DEF Metric

\* There are three metrics.
LEMMA TagsAre == Tags = {1, 2, 3} /\ Len(zn_profiler_metric_types) = 3
BY DEF Tags, zn_profiler_metric_types

\* ZN_PROFILER_UPDATE adds one sample to one sum.
LEMMA MetricUpdated ==
  ASSUME Types, NEW i \in Tags, NEW s \in Samples, profiler # "none",
         zn_profiler_update_metric(i, s)
  PROVE  /\ metrics' \in [Tags -> Metric] /\ late' \in [Tags -> SUBSET Samples]
         /\ metrics'[i].value = metrics[i].value \cup {s}
         /\ metrics'[i].count = metrics[i].count + 1
         /\ late'[i] = IF report.at = "write" /\ report.tag = i THEN late[i] \cup {s} ELSE late[i]
         /\ \A j \in Tags \ {i} : metrics'[j] = metrics[j] /\ late'[j] = late[j]
         /\ UNCHANGED <<profiler, report, file>>
<1>1. metrics \in [Tags -> Metric] /\ late \in [Tags -> SUBSET Samples]
  BY DEF Types, Metric
<1>2. /\ metrics' = [metrics EXCEPT ![i].value = @ \cup {s}, ![i].count = @ + 1]
      /\ late' = IF report.at = "write" /\ report.tag = i
                 THEN [late EXCEPT ![i] = @ \cup {s}] ELSE late
      /\ UNCHANGED <<profiler, report, file>>
  BY DEF zn_profiler_update_metric, Late
<1>3. /\ late' \in [Tags -> SUBSET Samples]
      /\ late'[i] = IF report.at = "write" /\ report.tag = i THEN late[i] \cup {s} ELSE late[i]
      /\ \A j \in Tags \ {i} : late'[j] = late[j]
  BY <1>1, <1>2
<1>4. metrics[i] \in Metric
  BY <1>1
<1> DEFINE v == metrics[i].value \cup {s}
<1> DEFINE c == metrics[i].count + 1
<1> DEFINE r == [metrics[i] EXCEPT !.value = v, !.count = c]
<1>5. metrics' = [metrics EXCEPT ![i] = r]
  BY <1>1, <1>2
<1>6. r \in Metric /\ r.value = v /\ r.count = c
  <2>1. v \in SUBSET Samples /\ c \in Nat
    BY <1>4 DEF Metric
  <2> HIDE DEF v, c
  <2> QED BY <1>4, <2>1 DEF Metric
<1> HIDE DEF r
<1>7. metrics' \in [Tags -> Metric] /\ metrics'[i] = r /\ \A j \in Tags \ {i} : metrics'[j] = metrics[j]
  BY <1>1, <1>5, <1>6
<1> QED BY <1>2, <1>3, <1>6, <1>7

\* ZN_PROFILER_SET replaces the value of one metric.
LEMMA MetricSet ==
  ASSUME Types, NEW i \in Tags, NEW s \in Samples, profiler # "none",
         zn_profiler_set_metric(i, s)
  PROVE  /\ metrics' \in [Tags -> Metric]
         /\ metrics'[i].value = {s} /\ metrics'[i].count = metrics[i].count
         /\ \A j \in Tags \ {i} : metrics'[j] = metrics[j]
         /\ UNCHANGED <<profiler, report, file, late>>
<1>1. metrics \in [Tags -> Metric] /\ metrics[i] \in Metric
  BY DEF Types, Metric
<1>2. /\ metrics' = [metrics EXCEPT ![i].value = {s}]
      /\ UNCHANGED <<profiler, report, file, late>>
  BY DEF zn_profiler_set_metric
<1> DEFINE r == [metrics[i] EXCEPT !.value = {s}]
<1>3. metrics' = [metrics EXCEPT ![i] = r]
  BY <1>1, <1>2
<1>4. r \in Metric /\ r.value = {s} /\ r.count = metrics[i].count
  BY <1>1, ValueSet
<1> HIDE DEF r
<1>5. metrics' \in [Tags -> Metric] /\ metrics'[i] = r /\ \A j \in Tags \ {i} : metrics'[j] = metrics[j]
  BY <1>1, <1>3, <1>4
<1> QED BY <1>2, <1>4, <1>5

\* The second critical section of a report moves val to the file and resets the sum.
LEMMA MetricReported ==
  ASSUME Types, report.tag \in Tags, WriteAndResetMetric
  PROVE  LET i == report.tag IN
         /\ report.at = "write"
         /\ metrics' \in [Tags -> Metric] /\ file' \in [Tags -> SUBSET Samples]
         /\ metrics'[i].value = {} /\ metrics'[i].count = 0
         /\ file'[i] = file[i] \cup report.val
         /\ \A j \in Tags \ {i} : metrics'[j] = metrics[j] /\ file'[j] = file[j]
         /\ report' \in [at : {"idle", "read", "write"}, tag : Tags \cup {0}, val : SUBSET Samples]
         /\ report'.at \in {"idle", "read"} /\ (report'.at = "read" => report'.tag \in Tags)
         /\ UNCHANGED <<profiler, late>>
<1>1. /\ metrics \in [Tags -> Metric] /\ file \in [Tags -> SUBSET Samples]
      /\ report.val \subseteq Samples
  BY DEF Types, Metric
<1>2. [value |-> {}, count |-> 0] \in Metric
  BY DEF Metric
<1>3. /\ metrics' = [metrics EXCEPT ![report.tag] = [value |-> {}, count |-> 0]]
      /\ file' = [file EXCEPT ![report.tag] = @ \cup report.val]
      /\ report.at = "write" /\ UNCHANGED <<profiler, late>>
  BY DEF WriteAndResetMetric, zn_profiler_reset_metric
<1>4. /\ metrics' \in [Tags -> Metric] /\ file' \in [Tags -> SUBSET Samples]
      /\ metrics'[report.tag] = [value |-> {}, count |-> 0]
      /\ file'[report.tag] = file[report.tag] \cup report.val
      /\ \A j \in Tags \ {report.tag} : metrics'[j] = metrics[j] /\ file'[j] = file[j]
  BY <1>1, <1>2, <1>3
<1>5. /\ report' \in [at : {"idle", "read", "write"}, tag : Tags \cup {0}, val : SUBSET Samples]
      /\ report'.at \in {"idle", "read"} /\ (report'.at = "read" => report'.tag \in Tags)
  <2>1. CASE report.tag = 3
    BY <2>1, TagsAre DEF WriteAndResetMetric, Idle
  <2>2. CASE report.tag # 3
    <3>1. report.tag + 1 \in Tags
      BY <2>2, TagsAre
    <3>2. report' = [at |-> "read", tag |-> report.tag + 1, val |-> {}]
      BY <2>2, TagsAre DEF WriteAndResetMetric
    <3> QED BY <3>1, <3>2
  <2> QED BY <2>1, <2>2
<1> QED BY <1>3, <1>4, <1>5

\* The first critical section of a report reads the sum.
LEMMA MetricRead ==
  ASSUME Types, report.tag \in Tags, ReadMetric
  PROVE  /\ report.at = "read" /\ report'.at = "write" /\ report'.tag = report.tag
         /\ report'.val = metrics[report.tag].value
         /\ report' \in [at : {"idle", "read", "write"}, tag : Tags \cup {0}, val : SUBSET Samples]
         /\ UNCHANGED <<profiler, metrics, file, late>>
<1>1. metrics[report.tag].value \subseteq Samples
  BY DEF Types
<1>2. report \in [at : {"idle", "read", "write"}, tag : Tags \cup {0}, val : SUBSET Samples]
  BY DEF Types
<1> QED BY <1>1, <1>2 DEF ReadMetric
------------------------------------------------------------------------------
(***************************************************************************)
(* The invariant holds at the start.                                       *)
(***************************************************************************)
\* The size of the workload in bytes.
LEMMA SizeNat == size \in Nat
BY DriverAssumption DEF size

\* Init establishes the invariant.
LEMMA DriverInvInit == Init => DriverInv
<1> SUFFICES ASSUME Init PROVE DriverInv
  OBVIOUS
<1> USE DriverAssumption DEF Init, ProfilerNull
<1>1. Types
  <2>1. [value |-> {}, count |-> 0] \in [value : SUBSET Samples, count : Nat]
    OBVIOUS
  <2>2. Idle \in [at : {"idle", "read", "write"}, tag : Tags \cup {0}, val : SUBSET Samples]
    BY DEF Idle
  <2>3. metrics \in [Tags -> [value : SUBSET Samples, count : Nat]]
    BY <2>1
  <2>4. workload_index \in 0 .. WorkloadMax /\ nr_reports \in 0 .. MaxReports
    OBVIOUS
  <2>5. wi \in [Workers -> Samples \cup {-1}]
    OBVIOUS
  <2>6. pc \in [Workers -> {"none", "next", "get", "latency", "throughput", "gauges",
                            "set_done", "exited", "failed", "stuck"}]
    OBVIOUS
  <2> QED BY <2>2, <2>3, <2>4, <2>5, <2>6 DEF Types
<1>2. Reading
  BY SizeNat DEF Reading
<1>3. BeforePush /\ Serving
  BY DEF BeforePush, Serving
<1>4. Reporting
  BY DEF Reporting, Idle
<1>5. \A i \in Tags : metrics[i].value = {} /\ metrics[i].count = 0 /\ file[i] = {} /\ late[i] = {}
  OBVIOUS
<1>6. Cardinality({}) = 0
  BY FS_EmptySet
<1>7. Counting
  BY <1>5, <1>6 DEF Counting
<1>8. SamplesAccounted
  BY DEF SamplesAccounted
<1>9. Counted = {}
  BY DEF Counted
<1>10. Completing /\ Shutdown
  BY <1>6, <1>9 DEF Completing, Shutdown
<1> QED BY <1>1, <1>2, <1>3, <1>4, <1>7, <1>8, <1>10 DEF DriverInv
------------------------------------------------------------------------------
(***************************************************************************)
(* Every step keeps it: first the parts that say where main and the tasks  *)
(* are.                                                                    *)
(***************************************************************************)
\* The steps of main that leave the profiler, the buffer and the tasks alone.
MainMoves ==
  \/ MainFails \/ ParseOptions \/ ReadWorkloadDone \/ ReadWorkloadFails \/ OpenDevice
  \/ StartEviction \/ g_main_loop_run \/ LeaveLoop \/ FreePool \/ JoinEviction
  \/ EvictExits \/ EvictHangs

\* The steps of a task that take no sample.
TaskMoves(w) == TakeRequest(w) \/ Get(w) \/ GetHangs(w) \/ FinishTask(w) \/ SetDone(w) \/ PushTask(w)

TaskSamples(w) == UpdateLatency(w) \/ UpdateThroughput(w) \/ SetGauges(w)

\* The steps of the process, in these groups.
LEMMA NextIs ==
  Next => \/ MainMoves \/ InitCache \/ zn_destroy_cache \/ profiling_task \/ ReportStep
          \/ \E n \in 1 .. size - total_bytes_read : ReadPiece(n)
          \/ \E w \in Workers : TaskMoves(w) \/ TaskSamples(w)
BY DEF Next, MainStep, read_workload, TaskStep, MainMoves, TaskMoves, TaskSamples

\* What a task does to the profiler.
LEMMA SampleTaken ==
  ASSUME DriverInv, NEW w \in Workers, TaskSamples(w)
  PROVE  /\ wi[w] \in Samples
         /\ \/ /\ pc[w] = "latency" /\ pc' = [pc EXCEPT ![w] = "throughput"]
               /\ zn_profiler_update_metric(1, wi[w])
            \/ /\ pc[w] = "throughput" /\ pc' = [pc EXCEPT ![w] = "gauges"]
               /\ zn_profiler_update_metric(3, wi[w])
            \/ /\ pc[w] = "gauges" /\ pc' = [pc EXCEPT ![w] = "next"]
               /\ zn_profiler_set_metric(2, wi[w])
         /\ profiler = "none" => UNCHANGED profVars
         /\ UNCHANGED <<main_pc, readVars, wi, workload_index, nr_threads_completed, done, loopVars,
                        evict_pc>>
<1>1. pc[w] \in {"latency", "throughput", "gauges"}
  BY DEF TaskSamples, UpdateLatency, UpdateThroughput, SetGauges, TaskAt
<1>2. wi[w] \in Samples
  BY <1>1 DEF DriverInv, Types, Serving
<1> QED
  BY <1>2 DEF TaskSamples, UpdateLatency, UpdateThroughput, SetGauges, TaskAt,
              zn_profiler_update_metric, zn_profiler_set_metric

\* What a task does to the other variables.
LEMMA TaskMoved ==
  ASSUME DriverInv, NEW w \in Workers, TaskMoves(w)
  PROVE  /\ UNCHANGED <<profVars, main_pc, readVars, timer, nr_reports, evict_pc>>
         /\ \/ /\ pc[w] = "next" /\ pc' = [pc EXCEPT ![w] = "get"] /\ workload_index < WorkloadMax
               /\ wi' = [wi EXCEPT ![w] = workload_index] /\ workload_index' = workload_index + 1
               /\ main_pc \notin {"error", "returned"}
               /\ UNCHANGED <<nr_threads_completed, done, is_running>>
            \/ /\ pc[w] = "get" /\ \E to \in {"latency", "failed", "stuck"} : pc' = [pc EXCEPT ![w] = to]
               /\ UNCHANGED <<wi, workload_index, nr_threads_completed, done, is_running>>
            \/ /\ pc[w] = "next" /\ workload_index >= WorkloadMax
               /\ nr_threads_completed' = nr_threads_completed + 1
               /\ \/ /\ pc' = [pc EXCEPT ![w] = "set_done"] /\ is_running' = FALSE
                     /\ nr_threads_completed' = Cardinality(Workers)
                  \/ pc' = [pc EXCEPT ![w] = "exited"] /\ UNCHANGED is_running
               /\ UNCHANGED <<wi, workload_index, done>>
            \/ /\ pc[w] = "set_done" /\ pc' = [pc EXCEPT ![w] = "exited"] /\ done' = TRUE
               /\ UNCHANGED <<wi, workload_index, nr_threads_completed, is_running>>
            \/ /\ main_pc = "push" /\ pc[w] = "none" /\ pc' = [pc EXCEPT ![w] = "next"]
               /\ UNCHANGED <<wi, workload_index, nr_threads_completed, done, is_running>>
<1>1. CASE TakeRequest(w)
  BY <1>1 DEF TakeRequest, TaskAt, Alive, loopVars
<1>2. CASE Get(w) \/ GetHangs(w)
  BY <1>2 DEF Get, GetHangs, TaskAt, loopVars
<1>3. CASE FinishTask(w)
  BY <1>3 DEF FinishTask, TaskAt
<1>4. CASE SetDone(w)
  BY <1>4 DEF SetDone, TaskAt, loopVars
<1>5. CASE PushTask(w)
  BY <1>5 DEF PushTask, loopVars
<1> QED BY <1>1, <1>2, <1>3, <1>4, <1>5 DEF TaskMoves

\* What main does.
LEMMA MainMoved ==
  ASSUME DriverInv, MainMoves
  PROVE  /\ UNCHANGED <<profVars, readVars, taskVars, timer, nr_reports>>
         /\ \/ main_pc \in {"options", "device", "init", "push"} /\ main_pc' = "error"
            \/ main_pc = "options" /\ main_pc' \in {"read_workload", "device"}
            \/ main_pc = "read_workload" /\ main_pc' = "device" /\ total_bytes_read = size
            \/ main_pc = "read_workload" /\ main_pc' = "error"
            \/ main_pc = "device" /\ main_pc' = "init"
            \/ main_pc = "push" /\ main_pc' = "run"
            \/ main_pc = "run" /\ main_pc' = "loop" /\ is_running'
            \/ main_pc = "loop" /\ main_pc' = "free_pool" /\ ~is_running /\ report.at = "idle"
            \/ /\ main_pc = "free_pool" /\ main_pc' = "join"
               /\ \A w \in Workers : pc[w] \in {"exited", "failed"}
            \/ main_pc = "join" /\ main_pc' = "destroy" /\ evict_pc = "exited"
            \/ main_pc' = main_pc /\ evict_pc = "running" /\ evict_pc' \in {"exited", "stuck"}
         /\ main_pc # "run" => UNCHANGED is_running
         /\ main_pc = "run" => is_running' \in BOOLEAN
         /\ main_pc' # main_pc => \/ UNCHANGED evict_pc
                                  \/ main_pc = "push" /\ evict_pc' = "running"
BY DEF MainMoves, MainFails, ParseOptions, ReadWorkloadDone, ReadWorkloadFails, OpenDevice,
       StartEviction, g_main_loop_run, LeaveLoop, FreePool, JoinEviction, EvictExits, EvictHangs, MainAt,
       loopVars, DriverInv, Types

\* Where a report is, it has a metric.
LEMMA ReportStepped ==
  ASSUME DriverInv, ReportStep
  PROVE  /\ ReadMetric \/ WriteAndResetMetric
         /\ report.tag \in Tags /\ report.at # "idle" /\ main_pc = "loop" /\ profiler # "none"
         /\ UNCHANGED <<main_pc, readVars, taskVars, loopVars, evict_pc>>
<1>1. ReadMetric \/ WriteAndResetMetric
  BY DEF ReportStep, zn_profiler_write_all_and_reset
<1>2. report.at # "idle"
  BY <1>1 DEF ReadMetric, WriteAndResetMetric
<1> QED BY <1>1, <1>2 DEF ReportStep, DriverInv, Reporting

\* A report begins with the first metric.
LEMMA ReportStarted ==
  ASSUME DriverInv, profiling_task
  PROVE  /\ main_pc = "loop" /\ timer /\ profiler # "none"
         /\ report' = [at |-> "read", tag |-> 1, val |-> {}]
         /\ nr_reports' \in 0 .. MaxReports
         /\ UNCHANGED <<profiler, metrics, file, late, main_pc, readVars, taskVars, is_running, timer,
                        evict_pc>>
<1>1. nr_reports' \in 0 .. MaxReports
  BY DriverAssumption DEF profiling_task, DriverInv, Types
<1> QED BY <1>1 DEF profiling_task, StartReport, DriverInv, Reporting

\* The types are kept.
LEMMA TypesStep == ASSUME DriverInv, Next PROVE Types'
<1>0. Types
  BY DEF DriverInv
<1>1. CASE MainMoves
  BY <1>0, <1>1, MainMoved DEF Types, profVars, taskVars
<1>2. CASE InitCache \/ zn_destroy_cache
  BY <1>0, <1>2 DEF Types, InitCache, zn_destroy_cache, zn_profiler_init, zn_profiler_close, MainAt,
                    taskVars, loopVars
<1>3. CASE profiling_task
  <2>1. report' \in [at : {"idle", "read", "write"}, tag : Tags \cup {0}, val : SUBSET Samples]
    BY <1>3, ReportStarted, TagsAre
  <2> QED BY <1>0, <1>3, <2>1, ReportStarted DEF Types, taskVars
<1>4. CASE ReportStep
  <2>1. CASE ReadMetric
    BY <1>0, <1>4, <2>1, ReportStepped, MetricRead DEF Types, taskVars, loopVars
  <2>2. CASE WriteAndResetMetric
    BY <1>0, <1>4, <2>2, ReportStepped, MetricReported DEF Types, Metric, taskVars, loopVars
  <2> QED BY <1>4, <2>1, <2>2, ReportStepped
<1>5. ASSUME NEW n \in 1 .. size - total_bytes_read, ReadPiece(n) PROVE Types'
  BY <1>0, <1>5 DEF Types, ReadPiece, profVars, taskVars, loopVars
<1>6. ASSUME NEW w \in Workers, TaskMoves(w) PROVE Types'
  <2>1. /\ UNCHANGED <<profVars, main_pc, timer, nr_reports, evict_pc>>
        /\ \E to \in {"next", "get", "latency", "failed", "stuck", "set_done", "exited"} : pc' = [pc EXCEPT ![w] = to]
        /\ is_running' \in BOOLEAN /\ done' \in BOOLEAN
    BY <1>0, <1>6, TaskMoved DEF Types
  <2>2. wi' \in [Workers -> Samples \cup {-1}] /\ workload_index' \in 0 .. WorkloadMax
    <3>1. CASE wi' = wi /\ workload_index' = workload_index
      BY <1>0, <3>1 DEF Types
    <3>2. CASE /\ workload_index < WorkloadMax
               /\ wi' = [wi EXCEPT ![w] = workload_index] /\ workload_index' = workload_index + 1
      <4>1. workload_index \in Samples
        BY <1>0, <3>2, DriverAssumption DEF Types, Samples
      <4> QED BY <1>0, <3>2, <4>1, DriverAssumption DEF Types
    <3> QED BY <1>6, <3>1, <3>2, TaskMoved
  <2>3. pc' \in [Workers -> {"none", "next", "get", "latency", "throughput", "gauges",
                             "set_done", "exited", "failed", "stuck"}]
    BY <1>0, <2>1 DEF Types
  <2> QED BY <1>0, <2>1, <2>2, <2>3 DEF Types, profVars
<1>7. ASSUME NEW w \in Workers, TaskSamples(w) PROVE Types'
  <2>0. /\ UNCHANGED <<main_pc, wi, workload_index, nr_threads_completed, done, loopVars, evict_pc>>
        /\ pc' \in [Workers -> {"none", "next", "get", "latency", "throughput", "gauges",
                                "set_done", "exited", "failed", "stuck"}]
    BY <1>0, <1>7, SampleTaken DEF Types
  <2>1. CASE profiler = "none"
    BY <1>0, <1>7, <2>0, <2>1, SampleTaken DEF Types, profVars, loopVars
  <2>2. CASE profiler # "none"
    <3>1. 1 \in Tags /\ 2 \in Tags /\ 3 \in Tags
      BY TagsAre
    <3>2. /\ metrics' \in [Tags -> [value : SUBSET Samples, count : Nat]]
          /\ late' \in [Tags -> SUBSET Samples] /\ UNCHANGED <<profiler, report, file>>
      BY <1>0, <1>7, <2>2, <3>1, SampleTaken, MetricUpdated, MetricSet DEF Types, Metric
    <3> QED BY <1>0, <2>0, <3>2 DEF Types, loopVars
  <2> QED BY <2>1, <2>2
<1> QED BY <1>1, <1>2, <1>3, <1>4, <1>5, <1>6, <1>7, NextIs

\* Wherever a piece of the workload lands, it brings bytes of the file.
LEMMA ReadingStep == ASSUME DriverInv, Next PROVE Reading'
<1>0. Reading /\ size \in Nat
  BY SizeNat DEF DriverInv
<1>1. CASE UNCHANGED readVars
  BY <1>0, <1>1 DEF Reading, readVars
<1>2. CASE MainMoves \/ InitCache \/ zn_destroy_cache \/ profiling_task \/ ReportStep
           \/ \E w \in Workers : TaskMoves(w) \/ TaskSamples(w)
  BY <1>1, <1>2, MainMoved, ReportStarted, ReportStepped, TaskMoved, SampleTaken
  DEF InitCache, zn_destroy_cache
<1>3. ASSUME NEW n \in 1 .. size - total_bytes_read, ReadPiece(n) PROVE Reading'
  <2> DEFINE at == SizeofId * total_bytes_read
  <2>1. /\ total_bytes_read' = total_bytes_read + n
        /\ workload_buffer' = [b \in DOMAIN workload_buffer |->
             IF b \in at .. at + n - 1 THEN total_bytes_read + b - at ELSE workload_buffer[b]]
    BY <1>3 DEF ReadPiece
  <2>2. total_bytes_read \in 0 .. size /\ at \in Nat
    BY <1>0, DriverAssumption DEF Reading
  <2> HIDE DEF at
  <2>3. DOMAIN workload_buffer = 0 .. size - 1
    BY <1>0 DEF Reading
  <2>4. workload_buffer' \in [0 .. size - 1 -> -1 .. size - 1]
    <3>1. \A b \in 0 .. size - 1 : b \in at .. at + n - 1 => total_bytes_read + b - at \in -1 .. size - 1
      BY <1>0, <2>2
    <3>2. \A b \in 0 .. size - 1 : workload_buffer[b] \in -1 .. size - 1
      BY <1>0 DEF Reading
    <3> QED BY <2>1, <2>3, <3>1, <3>2
  <2>5. total_bytes_read' \in 0 .. size
    BY <1>0, <2>1, <2>2
  <2> QED BY <2>4, <2>5 DEF Reading
<1> QED BY <1>2, <1>3, NextIs

\* The threads start with the pushes.
LEMMA BeforePushStep == ASSUME DriverInv, Next PROVE BeforePush'
<1>0. BeforePush
  BY DEF DriverInv
<1>1. CASE MainMoves
  BY <1>0, <1>1, MainMoved DEF BeforePush, profVars, taskVars
<1>2. CASE InitCache \/ zn_destroy_cache
  BY <1>2 DEF BeforePush, InitCache, zn_destroy_cache, MainAt
<1>3. CASE profiling_task
  BY <1>3, ReportStarted DEF BeforePush
<1>4. CASE ReportStep
  BY <1>4, ReportStepped DEF BeforePush
<1>5. ASSUME NEW n \in 1 .. size - total_bytes_read, ReadPiece(n) PROVE BeforePush'
  BY <1>0, <1>5 DEF BeforePush, ReadPiece, profVars, taskVars, loopVars
<1>6. ASSUME NEW w \in Workers, TaskMoves(w) PROVE BeforePush'
  BY <1>0, <1>6, TaskMoved DEF BeforePush
<1>7. ASSUME NEW w \in Workers, TaskSamples(w) PROVE BeforePush'
  BY <1>0, <1>7, SampleTaken DEF BeforePush
<1> QED BY <1>1, <1>2, <1>3, <1>4, <1>5, <1>6, <1>7, NextIs

\* A request goes to one task, which keeps it until the next.
LEMMA ServingStep == ASSUME DriverInv, Next PROVE Serving'
<1>0. Serving /\ Types
  BY DEF DriverInv
<1>1. CASE UNCHANGED taskVars
  BY <1>0, <1>1 DEF Serving, taskVars
<1>2. ASSUME NEW w \in Workers, TaskMoves(w) PROVE Serving'
  <2>1. CASE /\ pc' = [pc EXCEPT ![w] = "get"] /\ workload_index < WorkloadMax
             /\ wi' = [wi EXCEPT ![w] = workload_index] /\ workload_index' = workload_index + 1
    <3>1. workload_index \in Nat /\ \A u \in Workers : wi[u] \in Int /\ wi[u] < workload_index
      BY <1>0, DriverAssumption DEF Serving, Types, Samples
    <3>2. /\ wi'[w] = workload_index /\ \A u \in Workers \ {w} : wi'[u] = wi[u]
          /\ \A u \in Workers \ {w} : pc'[u] = pc[u]
      BY <1>0, <2>1 DEF Types
    <3>3. \A u \in Workers : wi'[u] < workload_index'
      BY <2>1, <3>1, <3>2
    <3>4. wi'[w] # -1
      BY <3>1, <3>2
    <3>5. \A u, v \in Workers : wi'[u] = wi'[v] /\ wi'[u] # -1 => u = v
      BY <1>0, <3>1, <3>2 DEF Serving
    <3> QED BY <1>0, <3>2, <3>3, <3>4, <3>5 DEF Serving
  <2>2. CASE /\ UNCHANGED <<wi, workload_index>>
             /\ \E to : /\ pc' = [pc EXCEPT ![w] = to]
                        /\ to \in {"next", "set_done", "exited"} \/ pc[w] = "get"
    BY <1>0, <2>2 DEF Serving, Types
  <2> QED BY <1>2, <2>1, <2>2, TaskMoved
<1>3. ASSUME NEW w \in Workers, TaskSamples(w) PROVE Serving'
  <2>1. /\ UNCHANGED <<wi, workload_index>> /\ pc[w] \in {"latency", "throughput", "gauges"}
        /\ \E to : pc' = [pc EXCEPT ![w] = to]
    BY <1>3, SampleTaken
  <2> QED BY <1>0, <2>1 DEF Serving, Types
<1>4. CASE MainMoves \/ InitCache \/ zn_destroy_cache \/ profiling_task \/ ReportStep
           \/ \E n \in 1 .. size - total_bytes_read : ReadPiece(n)
  <2>1. UNCHANGED taskVars
    BY <1>4, MainMoved, ReportStarted, ReportStepped DEF InitCache, zn_destroy_cache, ReadPiece
  <2> QED BY <1>1, <2>1
<1> QED BY <1>2, <1>3, <1>4, NextIs

\* The tasks that were counted out, and whether the workload was finished then.
LEMMA CompletingStep == ASSUME DriverInv, Next PROVE Completing'
<1>0. Completing /\ Types /\ IsFiniteSet(Counted)
  BY DriverAssumption, FS_Subset DEF DriverInv, Counted
<1>1. ASSUME Counted' = Counted, UNCHANGED <<workload_index, nr_threads_completed>> PROVE Completing'
  BY <1>0, <1>1 DEF Completing
<1>2. ASSUME NEW w \in Workers, TaskMoves(w) PROVE Completing'
  <2>1. CASE /\ pc[w] \in {"none", "next", "get", "set_done"} /\ UNCHANGED nr_threads_completed
             /\ \E to : pc' = [pc EXCEPT ![w] = to] /\ (to \in {"set_done", "exited"} <=> pc[w] = "set_done")
             /\ \/ workload_index' = workload_index
                \/ workload_index < WorkloadMax /\ workload_index' = workload_index + 1
    <3>1. Counted' = Counted
      BY <1>0, <2>1 DEF Types, Counted
    <3>2. \A u \in Counted : workload_index' = WorkloadMax
      BY <1>0, <2>1, DriverAssumption DEF Types, Completing
    <3> QED BY <1>0, <2>1, <3>1, <3>2 DEF Completing
  <2>2. CASE /\ pc[w] = "next" /\ workload_index >= WorkloadMax
             /\ nr_threads_completed' = nr_threads_completed + 1 /\ UNCHANGED workload_index
             /\ \E to \in {"set_done", "exited"} : pc' = [pc EXCEPT ![w] = to]
    <3>1. Counted' = Counted \cup {w} /\ w \notin Counted
      BY <1>0, <2>2 DEF Types, Counted
    <3>2. Cardinality(Counted') = Cardinality(Counted) + 1
      BY <1>0, <3>1, FS_AddElement
    <3>3. workload_index' = WorkloadMax
      BY <1>0, <2>2, DriverAssumption DEF Types
    <3> QED BY <1>0, <2>2, <3>2, <3>3 DEF Completing
  <2> QED BY <1>2, <2>1, <2>2, TaskMoved
<1>3. ASSUME NEW w \in Workers, TaskSamples(w) PROVE Completing'
  <2>1. /\ UNCHANGED <<workload_index, nr_threads_completed>> /\ pc[w] \in {"latency", "throughput", "gauges"}
        /\ \E to \in {"throughput", "gauges", "next"} : pc' = [pc EXCEPT ![w] = to]
    BY <1>3, SampleTaken
  <2>2. Counted' = Counted
    BY <1>0, <2>1 DEF Types, Counted
  <2> QED BY <1>1, <2>1, <2>2
<1>4. CASE MainMoves \/ InitCache \/ zn_destroy_cache \/ profiling_task \/ ReportStep
           \/ \E n \in 1 .. size - total_bytes_read : ReadPiece(n)
  <2>1. UNCHANGED taskVars
    BY <1>4, MainMoved, ReportStarted, ReportStepped DEF InitCache, zn_destroy_cache, ReadPiece
  <2>2. Counted' = Counted
    BY <2>1 DEF taskVars, Counted
  <2> QED BY <1>1, <2>1, <2>2 DEF taskVars
<1> QED BY <1>2, <1>3, <1>4, NextIs

\* No more tasks are counted out than there are, and when all are, none is left.
LEMMA AllCounted ==
  ASSUME Completing
  PROVE  /\ nr_threads_completed \in 0 .. Cardinality(Workers)
         /\ nr_threads_completed = Cardinality(Workers) => Counted = Workers
<1>1. IsFiniteSet(Workers) /\ Counted \subseteq Workers
  BY DriverAssumption DEF Counted
<1>2. /\ Cardinality(Counted) <= Cardinality(Workers)
      /\ Cardinality(Workers) = Cardinality(Counted) => Workers = Counted
      /\ IsFiniteSet(Counted)
  BY <1>1, FS_Subset
<1>3. Cardinality(Counted) \in Nat /\ Cardinality(Workers) \in Nat
  BY <1>1, <1>2, FS_CardinalityType
<1> QED BY <1>2, <1>3 DEF Completing

\* Main goes down only after every task was counted out.
LEMMA ShutdownStep == ASSUME DriverInv, Next PROVE Shutdown'
<1>0. Shutdown /\ Types /\ Completing
  BY DEF DriverInv
<1> DEFINE down == {"free_pool", "join", "destroy", "returned"}
<1>1. nr_threads_completed = Cardinality(Workers) => \A w \in Workers : pc[w] \in {"set_done", "exited"}
  BY <1>0, AllCounted DEF Counted
<1>2. ASSUME NEW w \in Workers, TaskMoves(w) PROVE Shutdown'
  <2>0. main_pc' = main_pc /\ evict_pc' = evict_pc
    BY <1>2, TaskMoved
  <2>1. CASE pc[w] = "set_done" /\ pc' = [pc EXCEPT ![w] = "exited"]
    <3>1. UNCHANGED <<nr_threads_completed, is_running>>
      BY <1>2, <2>1, TaskMoved
    <3> QED BY <1>0, <2>0, <2>1, <3>1 DEF Shutdown, Types
  <2>2. CASE pc[w] \in {"none", "next", "get"}
    <3>1. nr_threads_completed # Cardinality(Workers)
      BY <1>1, <2>2
    <3>2. main_pc \notin down /\ (main_pc = "loop" => is_running)
      BY <1>0, <3>1 DEF Shutdown, Types
    <3>3. ~is_running' => \/ is_running' = is_running
                          \/ nr_threads_completed' = Cardinality(Workers)
      BY <1>2, TaskMoved
    <3> QED BY <2>0, <3>2, <3>3 DEF Shutdown
  <2> QED BY <1>2, <2>1, <2>2, TaskMoved
<1>3. ASSUME NEW w \in Workers, TaskSamples(w) PROVE Shutdown'
  <2>1. /\ UNCHANGED <<main_pc, nr_threads_completed, is_running, evict_pc>>
        /\ pc[w] \in {"latency", "throughput", "gauges"}
    BY <1>3, SampleTaken DEF loopVars
  <2>2. nr_threads_completed # Cardinality(Workers)
    BY <1>1, <2>1
  <2>3. main_pc \notin down /\ (main_pc = "loop" => is_running)
    BY <1>0, <2>2 DEF Shutdown, Types
  <2> QED BY <2>1, <2>3 DEF Shutdown
<1>4. CASE MainMoves
  <2>1. UNCHANGED <<pc, nr_threads_completed>>
    BY <1>4, MainMoved DEF taskVars
  <2> QED BY <1>0, <1>1, <1>4, <2>1, MainMoved DEF Shutdown
<1>5. CASE InitCache \/ zn_destroy_cache
  BY <1>0, <1>5 DEF Shutdown, InitCache, zn_destroy_cache, MainAt, taskVars, loopVars
<1>6. CASE profiling_task \/ ReportStep \/ \E n \in 1 .. size - total_bytes_read : ReadPiece(n)
  <2>1. UNCHANGED <<main_pc, taskVars, is_running, evict_pc>>
    BY <1>6, ReportStarted, ReportStepped DEF ReadPiece, loopVars
  <2> QED BY <1>0, <2>1 DEF Shutdown, taskVars
<1> QED BY <1>2, <1>3, <1>4, <1>5, <1>6, NextIs
------------------------------------------------------------------------------
(***************************************************************************)
(* The samples.                                                            *)
(***************************************************************************)
\* Where a task still owes the sample of its request.
Owing(i) == {"get", "failed", "stuck", "latency"} \cup (IF i = 3 THEN {"throughput"} ELSE {})

\* A request is taken into account when its task no longer owes the sample.
LEMMA TakenIs ==
  ASSUME NEW i
  PROVE  /\ Taken(i) = {x \in 0 .. workload_index - 1 :
                          \A u \in Workers : pc[u] \in Owing(i) => wi[u] # x}
         /\ Taken(i)' = {x \in 0 .. workload_index' - 1 :
                           \A u \in Workers : pc'[u] \in Owing(i) => wi'[u] # x}
BY DEF Taken, Owing

\* Nothing is taken while the tasks that owe a sample stay the same.
LEMMA TakenSame ==
  ASSUME NEW i, NEW w \in Workers, Types, UNCHANGED <<wi, workload_index>>, NEW to,
         pc' = [pc EXCEPT ![w] = to], pc[w] \in Owing(i) <=> to \in Owing(i)
  PROVE  Taken(i)' = Taken(i)
<1>1. \A u \in Workers : pc'[u] \in Owing(i) <=> pc[u] \in Owing(i)
  BY DEF Types
<1>2. \A x : x \in Taken(i)' <=> x \in Taken(i)
  BY <1>1, TakenIs
<1> QED BY <1>2

\* A task that pays its sample adds its request.
LEMMA TakenOne ==
  ASSUME NEW i, NEW w \in Workers, Types, Serving, UNCHANGED <<wi, workload_index>>, NEW to,
         pc' = [pc EXCEPT ![w] = to], pc[w] \in Owing(i), to \notin Owing(i), wi[w] # -1
  PROVE  Taken(i)' = Taken(i) \cup {wi[w]} /\ wi[w] \notin Taken(i)
<1>1. pc'[w] = to /\ \A u \in Workers \ {w} : pc'[u] = pc[u]
  BY DEF Types
<1>2. wi[w] \in 0 .. workload_index - 1 /\ \A u \in Workers \ {w} : wi[u] # wi[w]
  BY DriverAssumption DEF Types, Serving, Samples
<1>3. \A x : x \in Taken(i)' <=> x \in Taken(i) \/ x = wi[w]
  BY <1>1, <1>2, TakenIs
<1>4. wi[w] \notin Taken(i)
  BY TakenIs
<1> QED BY <1>3, <1>4

\* A request that is handed to a task is owed.
LEMMA TakenNew ==
  ASSUME NEW i, NEW w \in Workers, Types, Serving, pc[w] = "next", pc' = [pc EXCEPT ![w] = "get"],
         wi' = [wi EXCEPT ![w] = workload_index], workload_index' = workload_index + 1
  PROVE  Taken(i)' = Taken(i)
<1>1. /\ pc'[w] \in Owing(i) /\ pc[w] \notin Owing(i) /\ wi'[w] = workload_index
      /\ \A u \in Workers \ {w} : pc'[u] = pc[u] /\ wi'[u] = wi[u]
  BY DEF Types, Owing
<1>2. workload_index \in Nat /\ \A u \in Workers : wi[u] # workload_index
  BY DriverAssumption DEF Types, Serving, Samples
<1>3. \A x \in Int : x \in 0 .. workload_index' - 1 <=> x \in 0 .. workload_index - 1 \/ x = workload_index
  BY <1>2
<1>4. \A x : x \in Taken(i)' <=> x \in Taken(i)
  BY <1>1, <1>2, <1>3, TakenIs
<1> QED BY <1>4

\* A sum has finitely many samples.
LEMMA SumsFinite == Types => \A i \in Tags : IsFiniteSet(metrics[i].value)
<1>1. IsFiniteSet(Samples)
  BY DriverAssumption, FS_Interval DEF Samples
<1> QED BY <1>1, FS_Subset DEF Types

\* The sample of a task is new to the sum it goes to.
LEMMA SampleIsNew ==
  ASSUME DriverInv, NEW w \in Workers, NEW i \in {1, 3}, profiler # "none", pc[w] \in Owing(i)
  PROVE  wi[w] \notin metrics[i].value \cup file[i]
<1>1. metrics[i].value \cup file[i] \subseteq Taken(i)
  BY DEF DriverInv, SamplesAccounted
<1> QED BY <1>1, TakenIs

\* What a report holds, and what comes late.
LEMMA ReportingStep == ASSUME DriverInv, Next PROVE Reporting'
<1>0. Reporting /\ Types
  BY DEF DriverInv
<1>1. CASE MainMoves
  BY <1>0, <1>1, MainMoved DEF Reporting, profVars
<1>2. CASE InitCache \/ zn_destroy_cache
  <2>1. main_pc # "loop" /\ report' = report /\ report.at = "idle"
    BY <1>0, <1>2 DEF Reporting, InitCache, zn_destroy_cache, zn_profiler_init, zn_profiler_close, MainAt
  <2>2. timer' => profiler' # "none"
    <3>1. CASE InitCache
      BY <3>1 DEF InitCache, zn_profiler_init
    <3>2. CASE zn_destroy_cache
      BY <1>0, <3>2 DEF Reporting, zn_destroy_cache, zn_profiler_close, loopVars
    <3> QED BY <1>2, <3>1, <3>2
  <2> QED BY <2>1, <2>2 DEF Reporting
<1>3. CASE profiling_task
  <2>1. report'.at = "read" /\ report'.tag \in Tags /\ main_pc' = "loop" /\ profiler' # "none"
    BY <1>3, ReportStarted, TagsAre
  <2> QED BY <2>1 DEF Reporting
<1>4. CASE ReportStep
  <2>0. report.tag \in Tags /\ main_pc' = "loop" /\ profiler # "none"
    BY <1>4, ReportStepped
  <2>1. CASE ReadMetric
    <3>1. /\ report'.at = "write" /\ report'.tag = report.tag
          /\ report'.val = metrics[report.tag].value /\ UNCHANGED <<profiler, metrics, late>>
      BY <1>0, <2>0, <2>1, MetricRead
    <3> QED BY <2>0, <3>1 DEF Reporting
  <2>2. CASE WriteAndResetMetric
    <3>1. report'.at \in {"idle", "read"} /\ (report'.at = "read" => report'.tag \in Tags) /\ profiler' = profiler
      BY <1>0, <2>0, <2>2, MetricReported
    <3> QED BY <2>0, <3>1 DEF Reporting
  <2> QED BY <1>4, <2>1, <2>2, ReportStepped
<1>5. ASSUME NEW n \in 1 .. size - total_bytes_read, ReadPiece(n) PROVE Reporting'
  BY <1>0, <1>5 DEF Reporting, ReadPiece, profVars, loopVars
<1>6. ASSUME NEW w \in Workers, TaskMoves(w) PROVE Reporting'
  <2>1. UNCHANGED <<profVars, main_pc, timer>>
    BY <1>6, TaskMoved
  <2> QED BY <1>0, <2>1 DEF Reporting, profVars
<1>7. ASSUME NEW w \in Workers, TaskSamples(w) PROVE Reporting'
  <2>0. UNCHANGED <<main_pc, timer>> /\ wi[w] \in Samples
    BY <1>7, SampleTaken DEF loopVars
  <2>1. CASE profiler = "none"
    BY <1>0, <1>7, <2>0, <2>1, SampleTaken DEF Reporting, profVars
  <2>2. ASSUME NEW i \in Tags, profiler # "none", zn_profiler_update_metric(i, wi[w]) PROVE Reporting'
    <3>1. /\ metrics'[i].value = metrics[i].value \cup {wi[w]}
          /\ late'[i] = IF report.at = "write" /\ report.tag = i THEN late[i] \cup {wi[w]} ELSE late[i]
          /\ \A j \in Tags \ {i} : metrics'[j] = metrics[j] /\ late'[j] = late[j]
          /\ UNCHANGED <<profiler, report>>
      BY <1>0, <2>0, <2>2, MetricUpdated
    <3> QED BY <1>0, <2>0, <3>1 DEF Reporting
  <2>3. ASSUME profiler # "none", zn_profiler_set_metric(2, wi[w]) PROVE Reporting'
    <3>1. (\A j \in Tags \ {2} : metrics'[j] = metrics[j]) /\ UNCHANGED <<profiler, report, late>>
      BY <1>0, <2>0, <2>3, TagsAre, MetricSet
    <3> QED BY <1>0, <2>0, <3>1 DEF Reporting
  <2>4. 1 \in Tags /\ 3 \in Tags
    BY TagsAre
  <2> QED BY <1>7, <2>1, <2>2, <2>3, <2>4, SampleTaken
<1> QED BY <1>1, <1>2, <1>3, <1>4, <1>5, <1>6, <1>7, NextIs

\* A sum counts its samples.
LEMMA CountingStep == ASSUME DriverInv, Next PROVE Counting'
<1>0. Counting /\ Types
  BY DEF DriverInv
<1>1. ASSUME UNCHANGED <<metrics, file, late>>, profiler' = "none" => profiler = "none" PROVE Counting'
  BY <1>0, <1>1 DEF Counting
<1>2. CASE MainMoves \/ \E w \in Workers : TaskMoves(w)
  <2>1. UNCHANGED profVars
    BY <1>2, MainMoved, TaskMoved
  <2> QED BY <1>1, <2>1 DEF profVars
<1>3. CASE InitCache
  <2>1. profiler = "none" /\ UNCHANGED <<metrics, file, late>>
    BY <1>3 DEF InitCache, MainAt, zn_profiler_init, DriverInv, BeforePush
  <2> QED BY <1>1, <2>1
<1>4. CASE zn_destroy_cache \/ \E n \in 1 .. size - total_bytes_read : ReadPiece(n)
  BY <1>1, <1>4 DEF zn_destroy_cache, zn_profiler_close, ReadPiece, profVars
<1>5. CASE profiling_task
  BY <1>1, <1>5, ReportStarted
<1>6. CASE ReportStep
  <2>0. report.tag \in Tags /\ profiler # "none"
    BY <1>6, ReportStepped
  <2>1. CASE ReadMetric
    BY <1>0, <1>1, <2>0, <2>1, MetricRead
  <2>2. CASE WriteAndResetMetric
    <3>1. /\ metrics'[report.tag].value = {} /\ metrics'[report.tag].count = 0 /\ profiler' = profiler
          /\ \A j \in Tags \ {report.tag} : metrics'[j] = metrics[j]
      BY <1>0, <2>0, <2>2, MetricReported
    <3>2. Cardinality({}) = 0
      BY FS_EmptySet
    <3>3. \A j \in Tags : metrics'[j].count = IF j = 2 THEN 0 ELSE Cardinality(metrics'[j].value)
      BY <1>0, <3>1, <3>2 DEF Counting
    <3> QED BY <2>0, <3>1, <3>3 DEF Counting
  <2> QED BY <1>6, <2>1, <2>2, ReportStepped
<1>7. ASSUME NEW w \in Workers, TaskSamples(w) PROVE Counting'
  <2>0. wi[w] \in Samples /\ 1 \in Tags /\ 2 \in Tags /\ 3 \in Tags
    BY <1>7, SampleTaken, TagsAre
  <2>1. CASE profiler = "none"
    BY <1>1, <1>7, <2>1, SampleTaken DEF profVars
  <2>2. ASSUME NEW i \in {1, 3}, profiler # "none", pc[w] \in Owing(i), zn_profiler_update_metric(i, wi[w])
        PROVE  Counting'
    <3>1. /\ metrics'[i].value = metrics[i].value \cup {wi[w]}
          /\ metrics'[i].count = metrics[i].count + 1
          /\ \A j \in Tags \ {i} : metrics'[j] = metrics[j]
          /\ profiler' = profiler
      BY <1>0, <2>0, <2>2, MetricUpdated
    <3>2. IsFiniteSet(metrics[i].value) /\ wi[w] \notin metrics[i].value
      BY <1>0, <2>0, <2>2, SumsFinite, SampleIsNew
    <3>3. Cardinality(metrics'[i].value) = Cardinality(metrics[i].value) + 1
      BY <3>1, <3>2, FS_AddElement
    <3>4. i \in Tags /\ i # 2 /\ metrics[i].count = Cardinality(metrics[i].value)
      BY <1>0, <2>0, <2>2 DEF Counting
    <3>5. metrics'[i].count = Cardinality(metrics'[i].value)
      BY <3>1, <3>3, <3>4
    <3>6. \A j \in Tags \ {i} : metrics'[j].count = IF j = 2 THEN 0 ELSE Cardinality(metrics'[j].value)
      BY <1>0, <3>1 DEF Counting
    <3>7. \A j \in Tags : metrics'[j].count = IF j = 2 THEN 0 ELSE Cardinality(metrics'[j].value)
      BY <3>4, <3>5, <3>6
    <3> QED BY <2>2, <3>1, <3>7 DEF Counting
  <2>3. ASSUME profiler # "none", zn_profiler_set_metric(2, wi[w]) PROVE Counting'
    <3>1. /\ metrics'[2].count = metrics[2].count /\ profiler' = profiler
          /\ \A j \in Tags \ {2} : metrics'[j] = metrics[j]
      BY <1>0, <2>0, <2>3, MetricSet
    <3>2. \A j \in Tags : metrics'[j].count = IF j = 2 THEN 0 ELSE Cardinality(metrics'[j].value)
      BY <1>0, <2>0, <3>1 DEF Counting
    <3> QED BY <2>3, <3>1, <3>2 DEF Counting
  <2>4. "latency" \in Owing(1) /\ "throughput" \in Owing(3)
    BY DEF Owing
  <2> QED BY <1>7, <2>1, <2>2, <2>3, <2>4, SampleTaken
<1> QED BY <1>2, <1>3, <1>4, <1>5, <1>6, <1>7, NextIs

\* Where the samples of a metric are.
Placed(i) == metrics[i].value \cup file[i] \cup late[i]

\* No sample is lost or reported twice.
LEMMA AccountedStep == ASSUME DriverInv, Counting', Next PROVE SamplesAccounted'
<1>0. SamplesAccounted /\ Types /\ Counting /\ Serving /\ Reporting
  BY DEF DriverInv
<1>c. \A i \in {1, 3} : i \in Tags /\ metrics'[i].count = Cardinality(metrics'[i].value)
  BY TagsAre DEF Counting
<1>1. ASSUME profiler' # "none" => profiler # "none",
             profiler # "none" =>
               \A i \in {1, 3} :
                 \/ /\ Taken(i)' = Taken(i)
                    /\ metrics'[i] = metrics[i] /\ file'[i] = file[i] /\ late'[i] = late[i]
                 \/ /\ Taken(i)' = Placed(i)' /\ metrics'[i].value \cap file'[i] = {}
      PROVE  SamplesAccounted'
  BY <1>0, <1>1, <1>c DEF SamplesAccounted, Placed
<1>2. ASSUME UNCHANGED <<metrics, file, late>>, profiler' # "none" => profiler # "none", UNCHANGED taskVars
      PROVE  SamplesAccounted'
  <2>1. \A i \in {1, 3} : Taken(i)' = Taken(i)
    BY <1>2 DEF Taken, taskVars
  <2> QED BY <1>1, <1>2, <2>1
<1>3. CASE MainMoves \/ zn_destroy_cache \/ profiling_task \/ \E n \in 1 .. size - total_bytes_read : ReadPiece(n)
  <2>1. UNCHANGED <<metrics, file, late, taskVars>> /\ (profiler' # "none" => profiler # "none")
    BY <1>3, MainMoved, ReportStarted DEF profVars, zn_destroy_cache, zn_profiler_close, ReadPiece
  <2> QED BY <1>2, <2>1
<1>4. CASE InitCache
  <2>1. /\ profiler = "none" /\ workload_index' = 0 /\ UNCHANGED <<metrics, file, late>>
    BY <1>4 DEF InitCache, MainAt, zn_profiler_init, DriverInv, BeforePush, taskVars
  <2>2. \A i \in {1, 3} : Taken(i)' = {}
    BY <2>1 DEF Taken
  <2>3. \A i \in {1, 3} : metrics'[i].value = {} /\ file'[i] = {} /\ late'[i] = {}
    BY <1>0, <1>c, <2>1 DEF Counting
  <2> QED BY <1>c, <2>2, <2>3 DEF SamplesAccounted
<1>5. CASE ReportStep
  <2>0. report.tag \in Tags /\ profiler # "none" /\ UNCHANGED taskVars
    BY <1>5, ReportStepped
  <2>1. CASE ReadMetric
    BY <1>0, <1>2, <2>0, <2>1, MetricRead
  <2>2. CASE WriteAndResetMetric
    <3>1. /\ metrics'[report.tag].value = {} /\ file'[report.tag] = file[report.tag] \cup report.val
          /\ \A j \in Tags \ {report.tag} : metrics'[j] = metrics[j] /\ file'[j] = file[j]
          /\ UNCHANGED <<profiler, late>> /\ report.at = "write"
      BY <1>0, <2>0, <2>2, MetricReported
    <3>2. \A i \in {1, 3} : Taken(i)' = Taken(i)
      BY <2>0 DEF Taken, taskVars
    <3>3. ASSUME NEW i \in {1, 3}, i = report.tag
          PROVE  Taken(i)' = Placed(i)' /\ metrics'[i].value \cap file'[i] = {}
      <4>1. report.val \subseteq metrics[i].value /\ metrics[i].value \subseteq report.val \cup late[i]
        BY <1>0, <3>1, <3>3 DEF Reporting
      <4>2. Taken(i) = metrics[i].value \cup file[i] \cup late[i]
        BY <1>0, <2>0 DEF SamplesAccounted
      <4> QED BY <3>1, <3>2, <3>3, <4>1, <4>2 DEF Placed
    <3>4. \A i \in {1, 3} : i # report.tag =>
            Taken(i)' = Taken(i) /\ metrics'[i] = metrics[i] /\ file'[i] = file[i] /\ late'[i] = late[i]
      BY <1>c, <3>1, <3>2
    <3> QED BY <1>1, <2>0, <3>1, <3>3, <3>4
  <2> QED BY <1>5, <2>1, <2>2, ReportStepped
<1>6. ASSUME NEW w \in Workers, TaskMoves(w) PROVE SamplesAccounted'
  <2>0. UNCHANGED profVars
    BY <1>6, TaskMoved
  <2>1. \A i \in {1, 3} : Taken(i)' = Taken(i)
    <3> TAKE i \in {1, 3}
    <3>1. CASE /\ pc[w] = "next" /\ pc' = [pc EXCEPT ![w] = "get"]
               /\ wi' = [wi EXCEPT ![w] = workload_index] /\ workload_index' = workload_index + 1
      BY <1>0, <3>1, TakenNew
    <3>2. ASSUME NEW to, UNCHANGED <<wi, workload_index>>, pc' = [pc EXCEPT ![w] = to],
                 \/ pc[w] = "get" /\ to \in {"latency", "failed", "stuck"}
                 \/ pc[w] \in {"none", "next", "set_done"} /\ to \in {"next", "set_done", "exited"}
          PROVE  Taken(i)' = Taken(i)
      <4>1. pc[w] \in Owing(i) <=> to \in Owing(i)
        BY <3>2 DEF Owing
      <4> QED BY <1>0, <3>2, <4>1, TakenSame
    <3> QED BY <1>6, <3>1, <3>2, TaskMoved
  <2> QED BY <1>1, <2>0, <2>1 DEF profVars
<1>7. ASSUME NEW w \in Workers, TaskSamples(w) PROVE SamplesAccounted'
  <2>0. wi[w] \in Samples /\ wi[w] # -1 /\ 2 \in Tags /\ UNCHANGED <<wi, workload_index>>
    BY <1>7, SampleTaken, TagsAre, DriverAssumption DEF Samples
  <2>1. CASE profiler = "none"
    BY <1>1, <1>7, <2>1, SampleTaken DEF profVars
  <2>2. ASSUME NEW i \in {1, 3}, NEW to, profiler # "none", pc' = [pc EXCEPT ![w] = to],
               pc[w] \in Owing(i), to \notin Owing(i),
               \A j \in {1, 3} \ {i} : pc[w] \in Owing(j) <=> to \in Owing(j),
               zn_profiler_update_metric(i, wi[w])
        PROVE  SamplesAccounted'
    <3>1. /\ metrics'[i].value = metrics[i].value \cup {wi[w]}
          /\ late'[i] \in {late[i], late[i] \cup {wi[w]}}
          /\ \A j \in Tags \ {i} : metrics'[j] = metrics[j] /\ late'[j] = late[j]
          /\ UNCHANGED <<profiler, file>>
      BY <1>0, <1>c, <2>0, <2>2, MetricUpdated
    <3>2. Taken(i)' = Taken(i) \cup {wi[w]} /\ \A j \in {1, 3} \ {i} : Taken(j)' = Taken(j)
      BY <1>0, <2>0, <2>2, TakenOne, TakenSame
    <3>3. Taken(i) = metrics[i].value \cup file[i] \cup late[i] /\ metrics[i].value \cap file[i] = {}
      BY <1>0, <2>2 DEF SamplesAccounted
    <3>4. wi[w] \notin metrics[i].value \cup file[i]
      BY <2>2, SampleIsNew
    <3>5. Taken(i)' = Placed(i)' /\ metrics'[i].value \cap file'[i] = {}
      BY <3>1, <3>2, <3>3, <3>4 DEF Placed
    <3>6. \A j \in {1, 3} \ {i} :
            Taken(j)' = Taken(j) /\ metrics'[j] = metrics[j] /\ file'[j] = file[j] /\ late'[j] = late[j]
      BY <1>c, <3>1, <3>2
    <3> QED BY <1>1, <2>2, <3>1, <3>5, <3>6
  <2>3. ASSUME profiler # "none", zn_profiler_set_metric(2, wi[w]), pc[w] = "gauges",
               pc' = [pc EXCEPT ![w] = "next"]
        PROVE  SamplesAccounted'
    <3>1. (\A j \in Tags \ {2} : metrics'[j] = metrics[j]) /\ UNCHANGED <<profiler, file, late>>
      BY <1>0, <2>0, <2>3, MetricSet
    <3>2. \A i \in {1, 3} : pc[w] \in Owing(i) <=> "next" \in Owing(i)
      BY <2>3 DEF Owing
    <3>3. \A i \in {1, 3} : Taken(i)' = Taken(i)
      BY <1>0, <2>0, <2>3, <3>2, TakenSame
    <3> QED BY <1>1, <1>c, <2>3, <3>1, <3>3
  <2>4. /\ "latency" \in Owing(1) /\ "throughput" \notin Owing(1) /\ "gauges" \notin Owing(1)
        /\ "latency" \in Owing(3) /\ "throughput" \in Owing(3) /\ "gauges" \notin Owing(3)
    BY DEF Owing
  <2>5. CASE /\ pc[w] = "latency" /\ pc' = [pc EXCEPT ![w] = "throughput"]
             /\ zn_profiler_update_metric(1, wi[w]) /\ profiler # "none"
    <3>1. \A j \in {1, 3} \ {1} : pc[w] \in Owing(j) <=> "throughput" \in Owing(j)
      BY <2>4, <2>5
    <3> QED BY <2>2, <2>4, <2>5, <3>1
  <2>6. CASE /\ pc[w] = "throughput" /\ pc' = [pc EXCEPT ![w] = "gauges"]
             /\ zn_profiler_update_metric(3, wi[w]) /\ profiler # "none"
    <3>1. \A j \in {1, 3} \ {3} : pc[w] \in Owing(j) <=> "gauges" \in Owing(j)
      BY <2>4, <2>6
    <3> QED BY <2>2, <2>4, <2>6, <3>1
  <2> QED BY <1>7, <2>1, <2>3, <2>5, <2>6, SampleTaken
<1> QED BY <1>3, <1>4, <1>5, <1>6, <1>7, NextIs
------------------------------------------------------------------------------
\* Every step keeps the invariant.
LEMMA DriverInvStep == DriverInv /\ [Next]_vars => DriverInv'
<1>1. ASSUME DriverInv, Next PROVE DriverInv'
  BY <1>1, TypesStep, ReadingStep, BeforePushStep, ServingStep, ReportingStep, CountingStep,
     AccountedStep, CompletingStep, ShutdownStep DEF DriverInv
<1>2. ASSUME DriverInv, UNCHANGED vars PROVE DriverInv'
  <2> USE <1>2 DEF vars, profVars, readVars, taskVars, loopVars
  <2>1. Types' /\ Reading' /\ BeforePush' /\ Serving'
    BY DEF DriverInv, Types, Reading, BeforePush, Serving
  <2>2. Reporting' /\ Counting' /\ SamplesAccounted'
    BY DEF DriverInv, Reporting, Counting, SamplesAccounted, Taken
  <2>3. Completing' /\ Shutdown'
    BY DEF DriverInv, Completing, Counted, Shutdown
  <2> QED BY <2>1, <2>2, <2>3 DEF DriverInv
<1> QED BY <1>1, <1>2

\* The inductive invariant holds in every reachable state.
THEOREM DriverInductive == Spec => []DriverInv
BY DriverInvInit, DriverInvStep, PTL DEF Spec

\* Every variable of main, of the tasks and of the profiler keeps its type: no
\* request is taken past the end of the workload (zncache.c:121-126), no metric
\* counts more samples than there are requests, and no task counts itself out twice.
THEOREM DriverTypeCorrect == Spec => []DriverTypeOK
<1>1. DriverInv => DriverTypeOK
  <2> SUFFICES ASSUME DriverInv PROVE DriverTypeOK
    OBVIOUS
  <2>1. Types /\ Reading /\ Counting /\ size \in Nat
    BY SizeNat DEF DriverInv
  <2>2. nr_threads_completed \in 0 .. Cardinality(Workers)
    BY AllCounted DEF DriverInv
  <2>3. \A i \in Tags : metrics[i].count \in 0 .. WorkloadMax
    <3> SUFFICES ASSUME NEW i \in Tags PROVE metrics[i].count \in 0 .. WorkloadMax
      OBVIOUS
    <3>1. IsFiniteSet(Samples) /\ Cardinality(Samples) = WorkloadMax
      BY DriverAssumption, FS_Interval DEF Samples
    <3>2. metrics[i].value \subseteq Samples
      BY <2>1 DEF Types
    <3>3. Cardinality(metrics[i].value) \in Nat /\ Cardinality(metrics[i].value) <= WorkloadMax
      BY <3>1, <3>2, FS_Subset, FS_CardinalityType
    <3> QED BY <2>1, <3>3, DriverAssumption DEF Counting
  <2>4. metrics \in [Tags -> [value : SUBSET Samples, count : 0 .. WorkloadMax]]
    <3>1. \A i \in Tags : metrics[i] \in [value : SUBSET Samples, count : 0 .. WorkloadMax]
      BY <2>1, <2>3 DEF Types
    <3> QED BY <2>1, <3>1 DEF Types
  <2> QED BY <2>1, <2>2, <2>4 DEF Types, Reading, DriverTypeOK
<1> QED BY <1>1, DriverInductive, PTL

\* However the tasks interleave with the reports, every sample is in one line of the
\* file or in the current sum, unless it was taken between the two locks of a report
\* (znprofiler.c:106-112), and the count of a metric is the number of its samples.
THEOREM SamplesAreAccounted == Spec => []SamplesAccounted
<1>1. DriverInv => SamplesAccounted
  BY DEF DriverInv
<1> QED BY <1>1, DriverInductive, PTL

\* Main joins the eviction thread and destroys the cache only after every request
\* was served and every task has left (zncache.c:462-475).
THEOREM ClosedOnlyAfterUse == Spec => []ClosedAfterUse
<1>1. DriverInv => ClosedAfterUse
  <2> SUFFICES ASSUME DriverInv PROVE ClosedAfterUse
    OBVIOUS
  <2>1. ASSUME main_pc \in {"join", "destroy", "returned"} PROVE workload_index = WorkloadMax
    <3>1. Counted = Workers
      BY <2>1, AllCounted DEF DriverInv, Shutdown
    <3> QED BY <3>1, DriverAssumption DEF DriverInv, Completing
  <2> QED BY <2>1 DEF DriverInv, Shutdown, ClosedAfterUse
<1> QED BY <1>1, DriverInductive, PTL
==============================================================================
