---------------------------- MODULE ScanPipeline ----------------------------
(***************************************************************************)
(* The scans of an agent process over the database of its host: the cycle  *)
(* of the monitoring loop and POST /scan/trigger, each in a worker thread, *)
(* both assessing against the same behavioral baseline and then writing    *)
(* three rows in three transactions; the loop's reset of the baseline after*)
(* a gap; full scans; a stop that closes the storage under a scan that was *)
(* abandoned, and a process killed anywhere.                               *)
(*                                                                         *)
(* A thread gives way to another only at a call, so the check of the       *)
(* warm-up, the score and the learning of one observation are separate     *)
(* steps and the arithmetic inside each is one. The baseline is that of one*)
(* metric: each of the seven is assessed on its own in the same way.       *)
(***************************************************************************)
EXTENDS HostDatabase

CONSTANTS Threads,     \* worker threads that scan in one process
          Monitor,     \* the one that runs the monitoring loop's scans
          Warmup,      \* warmup_samples
          MaxScans     \* bound: scans started

ASSUME ThreadsAssumption == Monitor \in Threads /\ IsFiniteSet(Threads)
ASSUME WarmupAssumption == Warmup \in Nat \ {0}

VARIABLES started,     \* scans started so far, in all processes
          step,        \* process and thread -> the step its scan is at
          scan,        \* process and thread -> the number of its scan
          connection,  \* process and thread -> its SQLite connection
          count,       \* process -> observations the baseline has learned
          unscored,    \* process -> those it learned without scoring them
          raced,       \* scans whose assessment a reset fell into
          cold         \* scans that raised an alarm when the baseline was not warmed up

threadVars == <<step, scan, connection>>
baselineVars == <<count, unscored, raced, cold>>
vars == <<schemaVars, rowVars, started, threadVars, baselineVars>>

Workers == Processes \X Threads

Steps == {"idle", "collecting", "warming", "scoring", "learning",
          "telemetry", "event", "run"}

TypeOK ==
    /\ tables \subseteq AllTables /\ versions \subseteq Versions
    /\ pc \in [Processes -> {"down", "migrating", "open", "serving", "stopping"}]
    /\ applied \in [Processes -> SUBSET Versions]
    /\ version \in [Processes -> 1 .. Len(Migrations) + 1]
    /\ created \in [Processes -> Nat]
    /\ started \in 0 .. MaxScans
    /\ telemetry \cup events \cup runs \cup raced \cup cold \subseteq 1 .. started
    /\ pruned \in [events : 0 .. started, telemetry : 0 .. started]
    /\ step \in [Workers -> Steps]
    /\ scan \in [Workers -> 0 .. started]
    /\ connection \in [Workers -> {"none", "open", "closed"}]
    /\ count \in [Processes -> Nat] /\ unscored \in [Processes -> Nat]

ScanInit ==
    /\ Init
    /\ started = 0
    /\ step = [w \in Workers |-> "idle"]
    /\ scan = [w \in Workers |-> 0]
    /\ connection = [w \in Workers |-> "none"]
    /\ count = [p \in Processes |-> 0] /\ unscored = [p \in Processes |-> 0]
    /\ raced = {} /\ cold = {}

(***************************************************************************)
(* The process around its scans.                                           *)
(***************************************************************************)
\* AuraAgentDaemon.start: the lock is free, and migrate() finds nothing to do.
Serves(p) ==
    /\ pc[p] = "open" /\ \A q \in Processes : pc[q] # "serving"
    /\ pc' = [pc EXCEPT ![p] = "serving"]
    /\ UNCHANGED <<tables, versions, applied, version, created, rowVars, started,
                   threadVars, baselineVars>>

\* AuraAgentDaemon.stop: the connections are closed and the lock given up;
\* the threads of abandoned scans go on.
Stops(p) ==
    /\ pc[p] = "serving"
    /\ pc' = [pc EXCEPT ![p] = "stopping"]
    /\ connection' = [w \in Workers |->
                        IF w[1] = p /\ connection[w] = "open" THEN "closed" ELSE connection[w]]
    /\ UNCHANGED <<tables, versions, applied, version, created, rowVars, started,
                   step, scan, baselineVars>>

\* The process is killed; or it has stopped and its worker threads are done.
Ends(p) ==
    /\ pc[p] \in {"serving", "stopping"}
    /\ pc' = [pc EXCEPT ![p] = "down"]
    /\ step' = [w \in Workers |-> IF w[1] = p THEN "idle" ELSE step[w]]
    /\ scan' = [w \in Workers |-> IF w[1] = p THEN 0 ELSE scan[w]]
    /\ connection' = [w \in Workers |-> IF w[1] = p THEN "none" ELSE connection[w]]
    /\ count' = [count EXCEPT ![p] = 0] /\ unscored' = [unscored EXCEPT ![p] = 0]
    /\ UNCHANGED <<tables, versions, applied, version, created, rowVars, started, raced, cold>>

\* The monitoring loop finds a gap, between two cycles of its own.
ResetBaselines(p) ==
    /\ pc[p] = "serving" /\ step[<<p, Monitor>>] = "idle"
    /\ count' = [count EXCEPT ![p] = 0] /\ unscored' = [unscored EXCEPT ![p] = 0]
    /\ raced' = raced \cup {scan[w] : w \in {v \in Workers : v[1] = p /\ step[v] = "scoring"}}
    /\ UNCHANGED <<schemaVars, rowVars, started, threadVars, cold>>

(***************************************************************************)
(* scan_once. A demo scan neither learns nor writes, and is left out.      *)
(***************************************************************************)
ScanStarts(w) ==
    /\ pc[w[1]] = "serving" /\ step[w] = "idle"
    /\ started < MaxScans
    /\ started' = started + 1
    /\ step' = [step EXCEPT ![w] = "collecting"]
    /\ scan' = [scan EXCEPT ![w] = started + 1]
    /\ UNCHANGED <<schemaVars, rowVars, connection, baselineVars>>

\* A faulty variant of the next definition: one observation fewer than the warm-up.
AfterShortWarmup(w) == IF count[w[1]] < Warmup - 1 THEN "warming" ELSE "scoring"

\* assess: is the baseline still warming up?
AfterWarmupCheck(w) == IF count[w[1]] < Warmup THEN "warming" ELSE "scoring"

ChecksWarmup(w) ==
    /\ step[w] = "collecting"
    /\ step' = [step EXCEPT ![w] = AfterWarmupCheck(w)]
    /\ UNCHANGED <<schemaVars, rowVars, started, scan, connection, baselineVars>>

\* An observation of the warm-up is learned whatever its value, and never alarms.
WarmsUp(w) ==
    /\ step[w] = "warming"
    /\ count' = [count EXCEPT ![w[1]] = @ + 1]
    /\ unscored' = [unscored EXCEPT ![w[1]] = @ + 1]
    /\ step' = [step EXCEPT ![w] = "telemetry"]
    /\ UNCHANGED <<schemaVars, rowVars, started, scan, connection, raced, cold>>

\* A z-score below the threshold is learned; from the threshold it alarms;
\* from 4 it alarms and is not learned. The values decide, and after a reset
\* they are compared with a mean of zero.
Scores(w) ==
    /\ step[w] = "scoring"
    /\ \E alarm \in BOOLEAN, learned \in BOOLEAN :
          /\ alarm \/ learned
          /\ cold' = IF alarm /\ count[w[1]] < Warmup THEN cold \cup {scan[w]} ELSE cold
          /\ step' = [step EXCEPT ![w] = IF learned THEN "learning" ELSE "telemetry"]
    /\ UNCHANGED <<schemaVars, rowVars, started, scan, connection, count, unscored, raced>>

Learns(w) ==
    /\ step[w] = "learning"
    /\ count' = [count EXCEPT ![w[1]] = @ + 1]
    /\ step' = [step EXCEPT ![w] = "telemetry"]
    /\ UNCHANGED <<schemaVars, rowVars, started, scan, connection, unscored, raced, cold>>

\* The three writes in the order of scan_once, each on the thread's connection,
\* which is opened when there is none and is of no use once it was closed.
Writes(w, now, next) ==
    /\ step[w] = now /\ connection[w] # "closed"
    /\ connection' = [connection EXCEPT ![w] = "open"]
    /\ step' = [step EXCEPT ![w] = next]
    /\ scan' = IF next = "idle" THEN [scan EXCEPT ![w] = 0] ELSE scan
    /\ UNCHANGED <<schemaVars, started, baselineVars>>

WritesTelemetry(w) == Writes(w, "telemetry", "event") /\ record_telemetry(scan[w])
WritesEvent(w)     == Writes(w, "event", "run") /\ record_security_event(scan[w])
WritesRun(w)       == Writes(w, "run", "idle") /\ record_scan_run(scan[w])

\* A faulty variant of the next definition: a write that raises is logged and the next one is tried.
WriteFailureIsLogged(w) ==
    /\ step[w] \in {"telemetry", "event"}
    /\ step' = [step EXCEPT ![w] = IF @ = "telemetry" THEN "event" ELSE "run"]
    /\ UNCHANGED <<schemaVars, rowVars, started, scan, connection, baselineVars>>

\* A write raises: the database is locked or full, or the connection closed.
\* It is rolled back and the scan is over, with the rows it wrote before.
WriteFails(w) ==
    /\ step[w] \in {"telemetry", "event", "run"}
    /\ step' = [step EXCEPT ![w] = "idle"]
    /\ scan' = [scan EXCEPT ![w] = 0]
    /\ UNCHANGED <<schemaVars, rowVars, started, connection, baselineVars>>

ScanStep(w) ==
    \/ ScanStarts(w) \/ ChecksWarmup(w) \/ WarmsUp(w) \/ Scores(w) \/ Learns(w)
    \/ WritesTelemetry(w) \/ WritesEvent(w) \/ WritesRun(w) \/ WriteFails(w)

\* Called with a StorageEngine that was opened, for rows of finished scans.
Prunes(p) ==
    /\ pc[p] \in {"open", "serving"}
    /\ \E oldMetric \in 1 .. started : \E oldEvent \in 0 .. oldMetric :
          /\ \A w \in Workers : step[w] # "idle" => scan[w] > oldMetric
          /\ prune_retention(oldEvent, oldMetric)
    /\ UNCHANGED <<schemaVars, started, threadVars, baselineVars>>

MigrateStep(p) == Migrate(p) /\ UNCHANGED <<started, threadVars, baselineVars>>

Next == \/ \E p \in Processes : \/ MigrateStep(p) \/ Serves(p) \/ Stops(p) \/ Ends(p)
                                \/ ResetBaselines(p) \/ Prunes(p)
        \/ \E w \in Workers : ScanStep(w)

Spec == ScanInit /\ [][Next]_vars

(***************************************************************************)
(* Properties.                                                             *)
(***************************************************************************)
\* A scan that has its row in scan_runs also has its event and its telemetry,
\* unless they were pruned by age: processes are killed between two of the
\* three transactions, writes fail, connections are closed under a scan and
\* two processes write at once (service.py:235-248).
ScansAreWhole ==
    \A i \in runs : /\ i \in events \/ i <= pruned.events
                    /\ i \in telemetry \/ i <= pruned.telemetry

\* Insufficient data is not flagged as anomalous (baseline.py:121): an alarm
\* is raised by a baseline that has learned its warm-up, unless a reset fell
\* between the check and the score. And two scans that pass the check together
\* learn at most one observation each past the warm-up without scoring it.
AlarmsAreWarm ==
    /\ cold \subseteq raced
    /\ \A p \in Processes : unscored[p] <= Warmup + Cardinality(Threads) - 1

\* What the docstring says without that exception: it does not hold.
NoFalseAlarm == cold = {}
=============================================================================
