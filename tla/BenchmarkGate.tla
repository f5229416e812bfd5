---------------------------- MODULE BenchmarkGate ----------------------------
(***************************************************************************)
(* How a release is judged: scripts/readiness_preflight.py and             *)
(* scripts/benchmark_t4.py leave files, scripts/readiness_gate.py reads    *)
(* them, possibly while they are being written, and PromotionGate compares *)
(* the measurements with the thresholds.                                   *)
(*                                                                         *)
(* A measurement is "good", "bad" or "absent" (its key is not in the       *)
(* report).  Reports are named by the second in which they were made, so   *)
(* the newest is the last of the sequence; two runs never end in the same  *)
(* second here.  The operator is external: benchmark_t4.py leaves it to    *)
(* them to enter the accuracy of a labelled run into its report.           *)
(***************************************************************************)
EXTENDS Integers, Sequences

CONSTANTS
    MaxBenchmarks,  \* bound on the benchmark runs started
    MaxGateFaults   \* bound on benchmark runs killed

ASSUME BenchmarkAssumption == {MaxBenchmarks, MaxGateFaults} \subseteq Nat

VARIABLES
    environ,      \* the deployment would pass the preflight checks
    preflight,    \* the preflight file: "missing", "torn", "ok" or "failed"
    checking,     \* the preflight is between truncating its file and writing it
    requireReal,  \* gate.require_real_metrics
    bench,        \* the benchmark in progress: where it is and its report
    started,      \* benchmarks started
    reports,      \* benchmark_*.json, oldest first
    finished,     \* runs whose report was complete on disk
    gate,         \* the gate's run: where it is and what it has read
    gateFaults

gateVars == <<environ, preflight, checking, requireReal, bench, started, reports, finished,
              gate, gateFaults>>

Verdicts == <<"NOT_READY", "STRUCTURALLY_READY", "SHADOW", "LIMITED">>

BlankReport == [mode |-> "none", cameras |-> FALSE, fps |-> "absent",
                accuracy |-> "absent", whole |-> TRUE]
NoBench == [at |-> "idle", report |-> BlankReport]
NoGate == [at |-> "idle", preflight |-> "missing", report |-> BlankReport,
           due |-> FALSE, verdict |-> "none"]

BenchInit ==
    /\ environ \in BOOLEAN /\ requireReal \in BOOLEAN
    /\ preflight = "missing" /\ checking = FALSE
    /\ bench = NoBench /\ started = 0
    /\ reports = <<>> /\ finished = 0
    /\ gate = NoGate
    /\ gateFaults = 0

-----------------------------------------------------------------------------
(* readiness_preflight.main: write_text truncates the file, then writes it. *)
PreflightOpens ==
    /\ ~checking
    /\ checking' = TRUE /\ preflight' = "torn"
    /\ UNCHANGED <<environ, requireReal, bench, started, reports, finished, gate, gateFaults>>

PreflightWrites ==
    /\ checking
    /\ checking' = FALSE
    /\ preflight' = IF environ THEN "ok" ELSE "failed"
    /\ UNCHANGED <<environ, requireReal, bench, started, reports, finished, gate, gateFaults>>

-----------------------------------------------------------------------------
(* run_scenario.  A manifest without a runnable camera goes straight to an
   empty report.  detector.load() may raise: the run ends without a report. *)
StartBenchmark(mode) ==
    /\ bench.at = "idle" /\ started < MaxBenchmarks
    /\ started' = started + 1
    /\ LET report == [BlankReport EXCEPT !.mode = mode]
       IN  \/ bench' = [at |-> "made", report |-> report]
           \/ bench' = [at |-> "running", report |-> [report EXCEPT !.cameras = TRUE]]
           \/ mode = "production" /\ bench' = NoBench
    /\ UNCHANGED <<environ, preflight, checking, requireReal, reports, finished, gate,
                   gateFaults>>

(* The stream ends.  The rates count the frames read, detections or not: no
   frame is a rate of 0.  No accuracy is computed, with labels or without.
   Crashed cameras change the exit status and two fields of the report, and
   the gate looks at none of them, so they are left out. *)
BenchmarkEnds ==
    /\ bench.at = "running"
    /\ \E rate \in {"good", "bad"} :
          bench' = [at |-> "made", report |-> [bench.report EXCEPT !.fps = rate]]
    /\ UNCHANGED <<environ, preflight, checking, requireReal, started, reports, finished,
                   gate, gateFaults>>

(* Mutant: the report is written in place. *)
WriteReport_InPlace ==
    /\ bench.at = "made"
    /\ bench' = [bench EXCEPT !.at = "written"]
    /\ reports' = Append(reports, [bench.report EXCEPT !.whole = FALSE])
    /\ UNCHANGED <<environ, preflight, checking, requireReal, started, finished, gate,
                   gateFaults>>

(* _write_reports: first to a *.tmp file, which the gate's pattern skips ... *)
WriteReport ==
    /\ bench.at = "made"
    /\ bench' = [bench EXCEPT !.at = "written"]
    /\ UNCHANGED <<environ, preflight, checking, requireReal, started, reports, finished,
                   gate, gateFaults>>

(* ... then os.replace. *)
ReplaceReport ==
    /\ bench.at = "written"
    /\ reports' = Append(reports, bench.report)
    /\ finished' = finished + 1
    /\ bench' = NoBench
    /\ UNCHANGED <<environ, preflight, checking, requireReal, started, gate, gateFaults>>

BenchmarkKilled ==
    /\ bench.at # "idle"
    /\ gateFaults < MaxGateFaults /\ gateFaults' = gateFaults + 1
    /\ bench' = NoBench
    /\ UNCHANGED <<environ, preflight, checking, requireReal, started, reports, finished,
                   gate>>

(* The operator enters the accuracy of a labelled run. *)
OperatorScores ==
    \E i \in DOMAIN reports, accuracy \in {"good", "bad"} :
        /\ reports[i].mode = "production" /\ reports[i].cameras
        /\ reports[i].accuracy = "absent"
        /\ reports' = [reports EXCEPT ![i].accuracy = accuracy]
        /\ UNCHANGED <<environ, preflight, checking, requireReal, bench, started, finished,
                       gate, gateFaults>>

-----------------------------------------------------------------------------
(* readiness_gate.main: the preflight file first, then the newest report; an
   unreadable file counts as a failed preflight, or as no report. *)
GateReadsPreflight ==
    /\ gate.at = "idle"
    /\ gate' = [NoGate EXCEPT !.at = "report", !.preflight = preflight]
    /\ UNCHANGED <<environ, preflight, checking, requireReal, bench, started, reports,
                   finished, gateFaults>>

GateReadsReport ==
    /\ gate.at = "report"
    /\ gate' = [gate EXCEPT
                  !.at = "decide",
                  !.due = finished > 0,
                  !.report = IF reports # <<>> /\ reports[Len(reports)].whole
                             THEN reports[Len(reports)] ELSE BlankReport]
    /\ UNCHANGED <<environ, preflight, checking, requireReal, bench, started, reports,
                   finished, gateFaults>>

(* PromotionGate.check on a report.  The GPU and latency keys it looks for are
   in no report of benchmark_t4.py, so those thresholds never apply. *)
OutOfBounds(r) == r.fps = "bad" \/ r.accuracy = "bad"
Unlabelled(r) == requireReal /\ r.accuracy = "absent"

(* compute_verdict's step 3: missing accuracy alone caps the verdict, any
   measurement out of bounds refuses. *)
ProductionVerdict(r) ==
    IF OutOfBounds(r) THEN "NOT_READY"
    ELSE IF Unlabelled(r) THEN "SHADOW"
    ELSE "LIMITED"

(* compute_verdict; without a JUnit file the tests are taken for passed. *)
Verdict(check, tests, r) ==
    IF check # "ok" \/ tests = "failed" THEN "NOT_READY"
    ELSE IF r.mode = "production" THEN ProductionVerdict(r)
    ELSE IF r.mode = "smoke" /\ r.cameras THEN "SHADOW"
    ELSE "STRUCTURALLY_READY"

GateDecides ==
    /\ gate.at = "decide"
    /\ \E tests \in {"absent", "passed", "failed"} :
          gate' = [gate EXCEPT !.at = "idle", !.preflight = "missing",
                               !.verdict = Verdict(gate.preflight, tests, gate.report)]
    /\ UNCHANGED <<environ, preflight, checking, requireReal, bench, started, reports,
                   finished, gateFaults>>

BenchNext ==
    \/ PreflightOpens \/ PreflightWrites
    \/ \E mode \in {"smoke", "production"} : StartBenchmark(mode)
    \/ BenchmarkEnds \/ WriteReport \/ ReplaceReport \/ BenchmarkKilled
    \/ OperatorScores \/ GateReadsPreflight \/ GateReadsReport \/ GateDecides

BenchSpec == BenchInit /\ [][BenchNext]_gateVars

-----------------------------------------------------------------------------
(* A benchmark killed while it writes hides no earlier report: once a run has
   completed one, the gate always has a report to judge. *)
ReportsStay == gate.due => gate.report.mode # "none"

(* The gate neither promotes nor shadows a measured run that missed a bound,
   whatever was killed or rewritten meanwhile; and LIMITED, under the default
   configuration, takes a production run whose accuracy was entered. *)
BadRunsAreRefused ==
    /\ gate.verdict \in {"SHADOW", "LIMITED"} =>
          ~(gate.report.mode = "production" /\ OutOfBounds(gate.report))
    /\ gate.verdict = "LIMITED" =>
          gate.report.mode = "production" /\ (requireReal => gate.report.accuracy = "good")

(* The release gate is sound against killed benchmarks, files read while they
   are written and reports the operator rewrites. *)
GateIsSound == ReportsStay /\ BadRunsAreRefused
=============================================================================
