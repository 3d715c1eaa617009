---------------------------- MODULE Investigation ----------------------------
(***************************************************************************)
(* The investigation endpoints on a host that goes on living: processes    *)
(* start, use a sensor, end, and their numbers are given to others. The    *)
(* event loop serves one request at a time to its end (the handlers do not *)
(* await); the scans of the monitoring cycle run beside it in a worker     *)
(* thread. Both take snapshots of the capture sensors, whose last status   *)
(* and last transition are kept in the class.                              *)
(***************************************************************************)
EXTENDS HostAnalysis, Sequences

CONSTANTS
    Pids, Apps,            \* process numbers and applications
    KernelPids,            \* {0, 4}
    Protected,             \* critical_names
    Monitored,             \* the sensors of this host
    Settings,              \* the postures and startup lists the host may have
    Sockets,               \* per application, the sockets its processes may hold
    FailedQueries,         \* the queries that may fail in one scan
    Loads,                 \* the other telemetry a scan may read
    TimelineCap,           \* 1000
    MaxStarts, MaxCaptures, MaxRequests   \* bounds: processes, uses of a sensor, requests

Loop == "loop"
Worker == "worker"
Threads == {Loop, Worker}

ASSUME InvestigationAssumption == TimelineCap \in Nat
\* The image of a process has a name.
ASSUME NameAssumption == \A app \in Apps : app.name # ""

VARIABLES
    procs,                 \* the running processes
    usage,                 \* the consent store: per sensor and application
    posture, startup,      \* the rest of the host
    lastStatus, transition,\* _last_status and _last_transition of each sensor
    thread,                \* per thread, the work in progress
    timeline, audit,       \* _events; the audit log
    report,                \* the last full scan that was stored
    starts, uses, requests,   \* how much of the bounds is used
    throughout,            \* history: who used the sensor all along a thread's snapshot
    ended                  \* history: whom the two endpoints ended

hostVars == <<procs, usage, posture, startup>>
sensorVars == <<lastStatus, transition>>
recordVars == <<timeline, audit, report>>
bounds == <<starts, uses, requests>>
ghosts == <<throughout, ended>>
vars == <<hostVars, sensorVars, thread, recordVars, bounds, ghosts>>

None == "None"
Never == [start |-> 0, stop |-> 0]
InUseNow == [start |-> 1, stop |-> 0]
Stopped == [start |-> 1, stop |-> 2]

NoCaptures == [d \in Devices |-> [Idle EXCEPT !.status = "NOT_DETECTED"]]

Resting == [at |-> "idle", job |-> None, device |-> None, running |-> <<>>, capture |-> Idle,
            captures |-> NoCaptures, seen |-> NoCaptures, pid |-> None, born |-> 0]

Init ==
    /\ procs = <<>> /\ usage = [d \in Monitored |-> [a \in Apps |-> Never]]
    /\ \E setting \in Settings : posture = setting.posture /\ startup = setting.startup
    /\ lastStatus = [d \in Monitored |-> None] /\ transition = [d \in Monitored |-> <<>>]
    /\ thread = [t \in Threads |-> Resting]
    /\ timeline = <<>> /\ audit = {} /\ report = None
    /\ starts = 0 /\ uses = 0 /\ requests = 0
    /\ throughout = [t \in Threads |-> {}] /\ ended = {}

----------------------------------------------------------------------------
(* The host. Windows writes the consent store; a process that dies with a   *)
(* device in use may leave its key flagged.                                 *)

With(f, x, y) == [z \in DOMAIN f \cup {x} |-> IF z = x THEN y ELSE f[z]]
Without(f, x) == [z \in DOMAIN f \ {x} |-> f[z]]

ProcessStarts(pid, app, sockets) ==
    /\ pid \notin DOMAIN procs /\ starts < MaxStarts /\ starts' = starts + 1
    /\ procs' = With(procs, pid, [app |-> app, born |-> starts', uses |-> {},
                                  listens |-> sockets.listens, remote |-> sockets.remote])
    /\ UNCHANGED <<usage, posture, startup, sensorVars, thread, recordVars, uses, requests, ghosts>>

BeginsCapture(pid, d) ==
    /\ pid \in DOMAIN procs /\ d \notin procs[pid].uses
    /\ uses < MaxCaptures /\ uses' = uses + 1
    /\ procs' = [procs EXCEPT ![pid].uses = @ \cup {d}]
    /\ usage' = [usage EXCEPT ![d][procs[pid].app] = InUseNow]
    /\ UNCHANGED <<posture, startup, sensorVars, thread, recordVars, starts, requests, ghosts>>

SoleUser(pid, d) ==
    \A p \in DOMAIN procs \ {pid} : d \in procs[p].uses => procs[p].app # procs[pid].app

StopsCapture(pid, d) ==
    /\ pid \in DOMAIN procs /\ d \in procs[pid].uses
    /\ procs' = [procs EXCEPT ![pid].uses = @ \ {d}]
    /\ usage' = [usage EXCEPT ![d][procs[pid].app] = IF SoleUser(pid, d) THEN Stopped ELSE @]
    /\ throughout' = [t \in Threads |-> IF thread[t].device = d THEN throughout[t] \ {pid}
                                        ELSE throughout[t]]
    /\ UNCHANGED <<posture, startup, sensorVars, thread, recordVars, bounds, ended>>

ProcessEnds(pid) ==
    /\ pid \in DOMAIN procs
    /\ procs' = Without(procs, pid)
    /\ \E stale \in SUBSET procs[pid].uses :
          usage' = [d \in Monitored |->
             IF d \in procs[pid].uses \ stale /\ SoleUser(pid, d)
             THEN [usage[d] EXCEPT ![procs[pid].app] = Stopped] ELSE usage[d]]
    /\ throughout' = [t \in Threads |-> throughout[t] \ {pid}]
    /\ UNCHANGED <<posture, startup, sensorVars, thread, recordVars, bounds, ended>>

----------------------------------------------------------------------------
(* collect_snapshot() of one sensor, by any thread *)

At(t, step) == thread[t].at = step

Captured(t) ==
    /\ thread' = [thread EXCEPT ![t].at = "next", ![t].capture = Idle, ![t].running = <<>>,
                                ![t].captures[thread[t].device] = thread[t].capture]
    /\ throughout' = [throughout EXCEPT ![t] = {}]

ListsProcesses(t, d) ==
    /\ At(t, "next") /\ d \in Monitored /\ thread[t].captures[d].status = "NOT_DETECTED"
    /\ thread' = [thread EXCEPT ![t].at = "read", ![t].device = d,
                                ![t].running = [p \in DOMAIN procs |-> procs[p].app.name]]
    /\ throughout' = [throughout EXCEPT ![t] = {p \in DOMAIN procs : d \in procs[p].uses}]
    /\ UNCHANGED <<hostVars, sensorVars, recordVars, bounds, ended>>

ReadsConsent(t) ==
    /\ At(t, "read")
    /\ \E capture \in Captures(usage[thread[t].device], thread[t].running) :
          thread' = [thread EXCEPT ![t].at = "compare", ![t].capture = capture,
                                   ![t].running = <<>>]
    /\ UNCHANGED <<hostVars, sensorVars, recordVars, bounds, ghosts>>

\* if cls._last_status is not None and cls._last_status != status
ComparesStatus(t) ==
    /\ At(t, "compare")
    /\ LET last == lastStatus[thread[t].device]
       IN  thread' = [thread EXCEPT ![t].at =
              IF last # None /\ last # thread[t].capture.status THEN "record" ELSE "store"]
    /\ UNCHANGED <<hostVars, sensorVars, recordVars, bounds, ghosts>>

\* the transition is built from _last_status as it is now
RecordsTransition(t) ==
    /\ At(t, "record")
    /\ transition' = [transition EXCEPT ![thread[t].device] =
                        <<lastStatus[thread[t].device], thread[t].capture.status>>]
    /\ thread' = [thread EXCEPT ![t].at = "store"]
    /\ UNCHANGED <<hostVars, lastStatus, recordVars, bounds, ghosts>>

StoresStatus(t) ==
    /\ At(t, "store")
    /\ lastStatus' = [lastStatus EXCEPT ![thread[t].device] = thread[t].capture.status]
    /\ Captured(t)
    /\ UNCHANGED <<hostVars, transition, recordVars, bounds, ended>>

SnapshotStep(t) ==
    \/ \E d \in Devices : ListsProcesses(t, d)
    \/ ReadsConsent(t) \/ ComparesStatus(t) \/ RecordsTransition(t) \/ StoresStatus(t)

----------------------------------------------------------------------------
(* What a thread does with its snapshots *)

Begins(t, job, pid, step) ==
    /\ At(t, "idle") /\ requests < MaxRequests /\ requests' = requests + 1
    /\ thread' = [thread EXCEPT ![t] = [Resting EXCEPT !.at = step, !.job = job, !.pid = pid]]
    /\ UNCHANGED <<hostVars, sensorVars, recordVars, starts, uses, ghosts>>

CycleBegins == Begins(Worker, "cycle", None, "next")
AnalysisBegins == \E job \in {"analysis", "full_scan"} : Begins(Loop, job, None, "next")

AllCaptured(t) ==
    At(t, "next") /\ \A d \in Monitored : thread[t].captures[d].status # "NOT_DETECTED"

Rests(t) == thread' = [thread EXCEPT ![t] = Resting]

\* The telemetry of the cycle, the hunts, Process DNA and the privacy page only answer.
Answers(t) ==
    /\ AllCaptured(t) /\ thread[t].job \in {"cycle", "analysis"} /\ Rests(t)
    /\ UNCHANGED <<hostVars, sensorVars, recordVars, bounds, ghosts>>

\* A full scan reads the sensors for its telemetry, and again as its thirteenth category.
SecondLook(t) ==
    /\ AllCaptured(t) /\ thread[t].job = "full_scan"
    /\ thread' = [thread EXCEPT ![t].job = "second_look", ![t].captures = NoCaptures,
                                ![t].seen = thread[t].captures]
    /\ UNCHANGED <<hostVars, sensorVars, recordVars, bounds, ghosts>>

Telemetry(captures, load) ==
    [camera |-> captures["camera"].status, microphone |-> captures["microphone"].status,
     upload |-> load.upload, saturated |-> load.saturated, crowded |-> load.crowded]

\* execute_full_scan() and insert_full_scan(). hashlib is not imported: the first rule
\* that fires ends the request with a NameError, and only the detectors are reported.
FullScanReports(t, load, failed) ==
    LET telemetry == Telemetry(thread[t].seen, load)
        read == CollectPosture(posture, failed)
        items == CollectStartup(startup, failed)
    IN  /\ AllCaptured(t) /\ thread[t].job = "second_look" /\ Rests(t)
        /\ RuleFindings(telemetry, read, items) = {}
        /\ \E mlAnomaly \in BOOLEAN :
              report' = [security |-> PostureScore(read), privacy |-> FullScanPrivacy(telemetry),
                         severity |-> FullScanSeverity(FullScanRisk({}, mlAnomaly)),
                         anomaly |-> mlAnomaly]
        /\ UNCHANGED <<hostVars, sensorVars, timeline, audit, bounds, ghosts>>

\* The NameError, or a database that refuses the report.
FullScanFails(t) ==
    /\ AllCaptured(t) /\ thread[t].job = "second_look" /\ Rests(t)
    /\ UNCHANGED <<hostVars, sensorVars, recordVars, bounds, ghosts>>

----------------------------------------------------------------------------
(* The two endpoints that end a process: SafeResponseEngine ("respond"),     *)
(* which protects some and records on the timeline, and the older one of the *)
(* router ("terminate"), which protects nobody and records in the audit log. *)
(* psutil.Process keeps who had the number when it was made, and refuses to  *)
(* act on a successor. A process may end any time after it was asked to.     *)

TerminationBegins ==
    \E job \in {"respond", "terminate"}, pid \in Pids : Begins(Loop, job, pid, "open")

Responding(step) == At(Loop, step) /\ thread[Loop].job \in {"respond", "terminate"}
Target == thread[Loop].pid
StillThere == Target \in DOMAIN procs /\ procs[Target].born = thread[Loop].born

IsProtected(app) == thread[Loop].job = "respond" /\ (app.name \in Protected \/ Target \in KernelPids)

OpensProcess ==
    /\ Responding("open") /\ Target \in DOMAIN procs /\ ~ IsProtected(procs[Target].app)
    /\ thread' = [thread EXCEPT ![Loop].at = "terminate", ![Loop].born = procs[Target].born]
    /\ UNCHANGED <<hostVars, sensorVars, recordVars, bounds, ghosts>>

\* Protected, or no such process
RefusesProcess ==
    /\ Responding("open") /\ (Target \in DOMAIN procs => IsProtected(procs[Target].app))
    /\ Rests(Loop)
    /\ UNCHANGED <<hostVars, sensorVars, recordVars, bounds, ghosts>>

Ended(pid) == [by |-> thread[Loop].job, pid |-> pid, name |-> procs[pid].app.name]

\* A faulty variant of the next definition: the number alone names the process.
TerminatesNumber ==
    /\ Responding("terminate") /\ Target \in DOMAIN procs
    /\ ended' = ended \cup {Ended(Target)}
    /\ thread' = [thread EXCEPT ![Loop].at = "wait"]
    /\ UNCHANGED <<hostVars, sensorVars, recordVars, bounds, throughout>>

Terminates ==
    /\ Responding("terminate") /\ StillThere
    /\ ended' = ended \cup {Ended(Target)}
    /\ thread' = [thread EXCEPT ![Loop].at = "wait"]
    /\ UNCHANGED <<hostVars, sensorVars, recordVars, bounds, throughout>>

\* AccessDenied, which the older endpoint records
TerminationDenied ==
    /\ Responding("terminate") /\ StillThere /\ Rests(Loop)
    /\ audit' = audit \cup When(thread[Loop].job = "terminate", [pid |-> Target, result |-> "ACCESS_DENIED"])
    /\ UNCHANGED <<hostVars, sensorVars, timeline, report, bounds, ghosts>>

Kept(items) == IF Len(items) > TimelineCap
               THEN SubSeq(items, Len(items) - TimelineCap + 1, Len(items)) ELSE items

RecordsTermination ==
    /\ Rests(Loop)
    /\ IF thread[Loop].job = "respond"
       THEN timeline' = Kept(Append(timeline, Target)) /\ UNCHANGED audit
       ELSE audit' = audit \cup {[pid |-> Target, result |-> "SUCCESS"]} /\ UNCHANGED timeline
    /\ UNCHANGED <<hostVars, sensorVars, report, bounds, ghosts>>

\* wait(timeout=2.0)
SeesItEnd == Responding("wait") /\ ~ StillThere /\ RecordsTermination
WaitTimesOut ==
    /\ Responding("wait") /\ StillThere
    /\ thread' = [thread EXCEPT ![Loop].at = "kill"]
    /\ UNCHANGED <<hostVars, sensorVars, recordVars, bounds, ghosts>>
Kills == Responding("kill") /\ StillThere /\ RecordsTermination

\* NoSuchProcess, at terminate() or at kill(): nothing is recorded
TargetIsGone ==
    /\ (Responding("terminate") \/ Responding("kill")) /\ ~ StillThere /\ Rests(Loop)
    /\ UNCHANGED <<hostVars, sensorVars, recordVars, bounds, ghosts>>

TerminationStep ==
    \/ OpensProcess \/ RefusesProcess \/ Terminates \/ TerminationDenied
    \/ SeesItEnd \/ WaitTimesOut \/ Kills \/ TargetIsGone

----------------------------------------------------------------------------

Next ==
    \/ \E pid \in Pids, app \in Apps : \E sockets \in Sockets[app] : ProcessStarts(pid, app, sockets)
    \/ \E pid \in Pids, d \in Monitored : BeginsCapture(pid, d) \/ StopsCapture(pid, d)
    \/ \E pid \in Pids : ProcessEnds(pid)
    \/ CycleBegins \/ AnalysisBegins \/ TerminationBegins
    \/ \E t \in Threads : SnapshotStep(t) \/ Answers(t)
    \/ SecondLook(Loop) \/ FullScanFails(Loop)
    \/ \E load \in Loads, failed \in FailedQueries : FullScanReports(Loop, load, failed)
    \/ TerminationStep

Spec == Init /\ [][Next]_vars

----------------------------------------------------------------------------
(* Properties *)

\* Whoever uses a sensor all along a snapshot is seen: neither the keys that dead
\* processes left flagged nor the other applications hide it, whatever starts and ends
\* meanwhile. Packaged apps are excepted: the code never sees them (camera.py:259).
InUseIsSeen ==
    \A t \in Threads :
        (At(t, "compare") /\ \E pid \in throughout[t] : ~ procs[pid].app.packaged)
            => thread[t].capture.status = "ACTIVE"

\* Whatever process has the number by the time it is ended, the safe endpoint ends no
\* protected one (response.py:47), and what the records call ended was asked to end.
ResponsesAreSafe ==
    /\ \A e \in ended : e.by = "respond" => e.name \notin Protected /\ e.pid \notin KernelPids
    /\ \A i \in DOMAIN timeline : \E e \in ended : e.by = "respond" /\ e.pid = timeline[i]
    /\ \A row \in audit : row.result = "SUCCESS" =>
          \E e \in ended : e.by = "terminate" /\ e.pid = row.pid

\* What one analysis concludes from a host and a snapshot of it fixes what the others do,
\* although each brings its own copy of the tests: the three scores of privacy differ by
\* what only the privacy page charges for denied permissions and only the full scan for
\* crowded connections (router.py:1133, scan_engine.py:209), and the persistence page is
\* HIGH where the hunts and the rules fire, unless the target is gone: then it is LOW
\* (persistence_intel.py:80).
AnalysesCorrespond ==
    \A denied \in SUBSET Devices, crowded, onDisk \in BOOLEAN :
    LET captures == thread[Loop].captures
        telemetry == Telemetry(captures, [upload |-> 0, saturated |-> FALSE, crowded |-> crowded])
        rules == RuleFindings(telemetry, posture, startup)
        exposed == {exposure[1] : exposure \in Exposures(procs, posture)}
        shown == IF StatusPrintsValue THEN ReportPrivacy(captures) ELSE 100
    IN  AllCaptured(Loop) =>
          /\ PrivacySummary(captures, denied) = ReportPrivacy(captures) - 10 * Cardinality(denied)
          /\ FullScanPrivacy(telemetry) = shown - Less(crowded, 15)
          /\ \A hunted \in Hunts(procs, captures, posture, startup) :
                /\ \A pid \in DOMAIN procs :
                      LET dna == DnaRules(pid, procs[pid], captures)
                      IN  /\ <<"HNT-001", pid>> \in hunted <=> "RUL-SUSPICIOUS-EXEC-PATH" \in dna
                          /\ <<"HNT-002", pid>> \in hunted => "RUL-PRIVACY-NETWORK-CONCURRENCY" \in dna
                          /\ <<"HNT-001", pid>> \in hunted \/ <<"HNT-002", pid>> \in hunted \/ pid \in exposed
                                => DnaLevel(DnaRisk(dna, procs[pid])) # "NORMAL"
                /\ <<"HNT-005", Host>> \in hunted <=> <<"RUL-003", Host>> \in rules
                /\ <<"HNT-003", Host>> \in hunted <=> <<"RUL-004", Host>> \in rules
                /\ \A app \in startup :
                      /\ <<"HNT-004", app>> \in hunted <=> <<"RUL-005", app>> \in rules
                      /\ PersistenceSeverity(app, onDisk) =
                            IF ~ onDisk THEN "LOW"
                            ELSE IF <<"HNT-004", app>> \in hunted THEN "HIGH" ELSE "NORMAL"

\* The code does not keep the next five; README.md, section 3, tells how each goes wrong.

\* One host has one score of privacy: the report, the privacy page and the full scan name
\* the same number (reports.py:94, router.py:1128, scan_engine.py:204).
OnePrivacyScore ==
    AllCaptured(Loop) =>
        \A denied \in SUBSET Devices, load \in Loads :
            LET captures == thread[Loop].captures
            IN  /\ PrivacySummary(captures, denied) = ReportPrivacy(captures)
                /\ FullScanPrivacy(Telemetry(captures, load)) = ReportPrivacy(captures)

\* A startup entry that the rules and the hunts call HIGH is nowhere called LOW
\* (rules.py:126, threat_hunter.py:213, persistence_intel.py:80).
SuspectsStayHigh ==
    \A app \in startup, onDisk \in BOOLEAN :
        HuntStartupPath(app.place) => PersistenceSeverity(app, onDisk) = "HIGH"

\* A recorded transition is a change (camera.py:307-315, between two threads).
TransitionsAreChanges ==
    \A d \in Monitored : transition[d] # <<>> => transition[d][1] # transition[d][2]

\* "protected Windows kernel/system process": no endpoint ends one (response.py:54).
ProtectedSurvive == \A e \in ended : e.name \notin Protected

\* "with audit logging" (router.py:1285): who was ended is in the audit log.
TerminationsAreAudited ==
    At(Loop, "idle") => \A e \in ended : [pid |-> e.pid, result |-> "SUCCESS"] \in audit
=============================================================================
