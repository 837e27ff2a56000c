-------------------------------- MODULE Profiler --------------------------------
(***************************************************************************)
(* The profiler (src/znprofiler.c): sums and counters that the workers     *)
(* update under a lock, and a periodic report that writes them to a file   *)
(* and resets them.  A sum is modelled by the set of samples it adds up,   *)
(* each named by the request it was taken for.                             *)
(***************************************************************************)
EXTENDS Integers, Sequences, FiniteSets

VARIABLES
  profiler, \* cache.profiler: "none" (NULL), "open", or "closed" once it is freed
  metrics,  \* metrics[i]: the sum, and the number of updates, since the last reset
  report,   \* where zn_profiler_write_all_and_reset is, and the val it holds
  file,     \* file[i]: the samples that went into the lines of metric i
  late      \* late[i]: history, the samples taken between val and the reset

profVars == <<profiler, metrics, report, file, late>>

\* One metric of each type.
zn_profiler_metric_types == <<"AVG", "SET", "OVER_TIME">>

Tags == DOMAIN zn_profiler_metric_types

Idle == [at |-> "idle", tag |-> 0, val |-> {}]

ProfilerNull ==
  /\ profiler = "none"
  /\ metrics = [i \in Tags |-> [value |-> {}, count |-> 0]]
  /\ report = Idle
  /\ file = [i \in Tags |-> {}]
  /\ late = [i \in Tags |-> {}]

\* Every metric starts from 0; the file may fail to open.
zn_profiler_init ==
  /\ profiler' \in {"none", "open"}
  /\ UNCHANGED <<metrics, report, file, late>>

Late(i, sample) ==
  late' = IF report.at = "write" /\ report.tag = i
          THEN [late EXCEPT ![i] = @ \cup {sample}] ELSE late

\* ZN_PROFILER_UPDATE: nothing without a profiler.
zn_profiler_update_metric(i, sample) ==
  IF profiler = "none" THEN UNCHANGED profVars
  ELSE /\ metrics' = [metrics EXCEPT ![i].value = @ \cup {sample}, ![i].count = @ + 1]
       /\ Late(i, sample)
       /\ UNCHANGED <<profiler, report, file>>

\* ZN_PROFILER_SET.
zn_profiler_set_metric(i, sample) ==
  IF profiler = "none" THEN UNCHANGED profVars
  ELSE /\ metrics' = [metrics EXCEPT ![i].value = {sample}]
       /\ UNCHANGED <<profiler, report, file, late>>

\* Mutant: the metric after the one that was written is reset.
zn_profiler_reset_metric_Next(i) ==
  metrics' = [metrics EXCEPT ![IF i = Len(zn_profiler_metric_types) THEN 1 ELSE i + 1] =
                [value |-> {}, count |-> 0]]

zn_profiler_reset_metric(i) == metrics' = [metrics EXCEPT ![i] = [value |-> {}, count |-> 0]]
------------------------------------------------------------------------------
(***************************************************************************)
(* zn_profiler_write_all_and_reset, called by the timer of the main loop:  *)
(* for every metric, one critical section that reads it and, after the     *)
(* line is written, another one that resets it.                            *)
(***************************************************************************)
StartReport ==
  /\ report.at = "idle"
  /\ report' = [at |-> "read", tag |-> 1, val |-> {}]
  /\ UNCHANGED <<profiler, metrics, file, late>>

\* The average of no samples is 0: nothing is divided by count then.
ReadMetric ==
  /\ report.at = "read"
  /\ report' = [report EXCEPT !.at = "write", !.val = metrics[report.tag].value]
  /\ UNCHANGED <<profiler, metrics, file, late>>

WriteAndResetMetric ==
  /\ report.at = "write"
  /\ file' = [file EXCEPT ![report.tag] = @ \cup report.val]
  /\ zn_profiler_reset_metric(report.tag)
  /\ report' = IF report.tag = Len(zn_profiler_metric_types) THEN Idle
               ELSE [at |-> "read", tag |-> report.tag + 1, val |-> {}]
  /\ UNCHANGED <<profiler, late>>

zn_profiler_write_all_and_reset == ReadMetric \/ WriteAndResetMetric

zn_profiler_close ==
  /\ profiler' = IF profiler = "none" THEN "none" ELSE "closed"
  /\ UNCHANGED <<metrics, report, file, late>>
==============================================================================
