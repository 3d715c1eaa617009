--------------------------- MODULE LegacyDashboard ---------------------------
(***************************************************************************)
(* The Streamlit prototype: browser sessions that share one server process *)
(* and its caches (app.py, aura_ui), and terminal monitors, processes of   *)
(* their own (aura_core.py), all scanning into one event log (LegacyLog).  *)
(* Nothing locks that log: a scan reads it, and later writes it back whole.*)
(* A demonstration scan saves the log first and writes it back afterwards. *)
(***************************************************************************)
EXTENDS LegacyLog, LegacySensors

CONSTANTS
    Sessions, Terminals,   \* who scans
    Nothing,               \* None
    Readings,              \* what the sensors of one scan may return
    Fallible,              \* the probes that may start or stop failing
    CameraProbe,           \* the "include camera availability check" box
    OldLogs,               \* rows an earlier version may have left in the log
    MaxScans, MaxClicks, MaxFaults  \* bounds: scans, clicks, failures and faults

\* What a scan reads are numbers, and a probe that can fail is one the sensors have. An
\* earlier version named its events, and gave each a label: append_log() has a default.
ASSUME ProcessAssumption == Sessions \cap Terminals = {} /\ "server" \notin Terminals
ASSUME ReadingAssumption ==
    Readings \subseteq [ifScore : Int, lofScore : Int, net : Nat, procs : Nat, remote : Nat]
ASSUME FallibleAssumption == Fallible \subseteq Probes
ASSUME OldLogAssumption ==
    \A rows \in OldLogs : /\ rows \in Seq({rows[i] : i \in DOMAIN rows})
                         /\ \A i \in DOMAIN rows : /\ "event" \in DOMAIN rows[i]
                                                  /\ NormalizeRow(rows[i]).risk # ""
ASSUME BoundAssumption == MaxScans \in Nat /\ MaxClicks \in Nat /\ MaxFaults \in Nat

Actors == Sessions \cup Terminals
Server == "server"
Process(a) == IF a \in Sessions THEN Server ELSE a
Programs == {Server} \cup Terminals

VARIABLES
    log, baseline,         \* the two files
    model,                 \* per program: "none", "sampling", "saving", "trained"
    work,                  \* per actor: the scan or the page in progress
    result, banner,        \* session_state: the last result, the error flags
    token, live,           \* refresh token per session; the live-telemetry cache
    pages,                 \* _read_logs: the signatures, with what was read under each; and,
                           \* which the code does not keep, whether it could be read
    page,                  \* per session: what the screen shows
    failing,               \* the probes that fail now
    scans, clicks, faults, \* how much of the bounds is used
    before, recorded, intact   \* what the log should hold; no scan overlapped another, was
                               \* killed or met an error between its capture and its writes

files == <<log, baseline>>
screens == <<result, banner, token, live, pages, page>>
ghosts == <<before, recorded, intact>>
vars == <<files, model, work, screens, failing, scans, clicks, faults, ghosts>>

\* A failure, a kill, a probe that starts or stops failing
Fault == faults < MaxFaults /\ faults' = faults + 1

Resting == [at |-> "idle", demo |-> FALSE, ok |-> TRUE, original |-> Absent, row |-> Nothing,
            out |-> <<>>, handle |-> 0, signature |-> <<0, 0>>]
Blank == [rows |-> Nothing, failed |-> {}, rollup |-> "UNAVAILABLE", stale |-> FALSE]

Scanning == {"append", "open", "write", "restore", "rewrite"}
InScan(a) == work[a].at \in Scanning
Goes(a, at) == work' = [work EXCEPT ![a].at = at]

Init ==
    /\ \E rows \in OldLogs \cup {Nothing} :
          /\ log = IF rows = Nothing THEN Absent ELSE [there |-> TRUE, rows |-> rows, stamp |-> 1, born |-> 1]
          /\ before = IF rows = Nothing THEN <<>> ELSE rows
    /\ baseline = 0 /\ model = [p \in Programs |-> "none"]
    /\ work = [a \in Actors |-> Resting]
    /\ result = [s \in Sessions |-> Nothing] /\ banner = [s \in Sessions |-> {}]
    /\ token = [s \in Sessions |-> 0] /\ live = <<>> /\ pages = {}
    /\ page = [s \in Sessions |-> Blank]
    /\ failing = {} /\ scans = 0 /\ clicks = 0 /\ faults = 0
    /\ recorded = <<>> /\ intact = TRUE

----------------------------------------------------------------------------
(* The detection model: once per program, from the stored baseline or from  *)
(* a new one that is collected and saved first.                             *)

BecomesModel(p, state) == model' = [model EXCEPT ![p] = state]

TrainsModel(p) ==
    /\ model[p] = "none"
    /\ BecomesModel(p, IF UsableBaseline(baseline) THEN "trained" ELSE "sampling")
    /\ UNCHANGED <<files, work, screens, failing, scans, clicks, faults, ghosts>>

EmptiesBaseline(p) ==
    /\ model[p] = "sampling" /\ BecomesModel(p, "saving")
    /\ baseline' = 0
    /\ UNCHANGED <<log, work, screens, failing, scans, clicks, faults, ghosts>>

SavesBaseline(p) ==
    /\ model[p] = "saving" /\ BecomesModel(p, "trained")
    /\ baseline' = BaselineSamples
    /\ UNCHANGED <<log, work, screens, failing, scans, clicks, faults, ghosts>>

----------------------------------------------------------------------------
(* One scan (aura_core.scan_once) *)

Counts(rows) == Dropna([i \in DOMAIN rows |-> rows[i].procs], Int \ Nat)

\* _flatten_sensor_snapshot() and the two snapshots of privacy_monitor: a probe that
\* raises contributes zero.
Flattened(reading, snapshot, processes, sockets) ==
    [reading EXCEPT !.net = @ * snapshot.network.kbps, !.procs = @ * processes.process_count,
                    !.remote = @ * sockets.remote_connection_count]

Sensed(reading) ==
    Flattened(reading, FullSnapshot(failing, CameraProbe), ProcessSnapshot(failing),
              ConnectionSnapshot(failing))

\* The demonstration overrides the two rates, never the processes or the sockets.
Override(reading, demo) == IF demo THEN [reading EXCEPT !.net = 5000] ELSE reading

Verdict(reading) ==
    PrivacyRisk(reading, Detect(reading.ifScore, reading.lofScore).anomaly,
                ProcessBaseline(Counts(LoadLogs(log))))

Event(a, demo) == [by |-> a, n |-> scans + 1, demo |-> demo]

ScanRow(a, demo, reading) ==
    LET verdict == Verdict(reading)
    IN  [event |-> Event(a, demo), risk |-> verdict.risk, severity |-> Severity(verdict.risk),
         score |-> verdict.score, procs |-> reading.procs, health |-> ModelHealth(baseline),
         privacy_event |-> verdict.privacy_event, exfiltration |-> verdict.exfiltration]

\* run_scan() and scan_once() up to the logging: a demonstration captures the log first
StartsScan(a, demo) ==
    /\ work[a].at = "idle" /\ model[Process(a)] = "trained"
    /\ demo => a \in Sessions
    /\ scans < MaxScans /\ scans' = scans + 1
    /\ \E reading \in Readings :
          work' = [work EXCEPT ![a] =
             [Resting EXCEPT !.at = "append", !.demo = demo,
                             !.original = IF demo THEN log ELSE Absent,
                             !.row = ScanRow(a, demo, Override(Sensed(reading), demo))]]
    /\ intact' = (intact /\ \A b \in Actors : ~ InScan(b))
    /\ UNCHANGED <<files, model, screens, failing, clicks, faults, before, recorded>>

\* read_bytes() raises: the finally block runs with original_bytes still None.
CaptureFails(s) ==
    /\ work[s].at = "idle" /\ model[Process(s)] = "trained"
    /\ s \in Sessions /\ log.there /\ Fault
    /\ work' = [work EXCEPT ![s] = [Resting EXCEPT !.at = "restore", !.demo = TRUE, !.ok = FALSE]]
    /\ intact' = FALSE
    /\ UNCHANGED <<files, model, screens, failing, scans, clicks, before, recorded>>

\* append_log(): the existing rows; an error while reading them counts as none
ReadsLog(a, failed) ==
    /\ work[a].at = "append" /\ (failed => log.there)
    /\ work' = [work EXCEPT ![a].at = "open",
                            ![a].out = Appended(IF failed THEN Absent ELSE log, work[a].row)]
    /\ intact' = (intact /\ ~ failed)
    /\ IF failed THEN Fault ELSE UNCHANGED faults
    /\ UNCHANGED <<files, model, screens, failing, scans, clicks, before, recorded>>

Opens(a, rows, at) ==
    /\ log' \in OpenedForWriting(log, rows)
    /\ work' = [work EXCEPT ![a].at = at, ![a].handle = log'.born]

OpensLog(a) ==
    /\ work[a].at = "open" /\ Opens(a, work[a].out, "write")
    /\ UNCHANGED <<baseline, model, screens, failing, scans, clicks, faults, ghosts>>

\* A faulty variant of the next definition: the readings are kept after a scan.
KeepsReadings(s) == UNCHANGED token /\ live' = [t \in DOMAIN live |-> [live[t] EXCEPT !.stale = @ \cup {s}]]

\* store_result() and bump_refresh(); a terminal goes on, or ends with the exception
Refresh(s) ==
    /\ token' = [token EXCEPT ![s] = @ + 1]
    /\ live' = [t \in {u \in DOMAIN live : \E b \in Sessions : u >= token'[b]}
                   |-> [live[t] EXCEPT !.stale = @ \cup {s}]]

SessionEnds(s, ok, errors) ==
    /\ work' = [work EXCEPT ![s] = [Resting EXCEPT !.at = "page"]]
    /\ result' = [result EXCEPT ![s] = IF ok THEN work[s].row ELSE @]
    /\ banner' = [banner EXCEPT ![s] = IF ok THEN (@ \ {"scan_error"}) \cup errors
                                       ELSE @ \cup errors \cup {"scan_error"}]
    /\ Refresh(s)
    /\ UNCHANGED <<model, pages, page>>

TerminalEnds(t, ok) ==
    /\ work' = [work EXCEPT ![t] = Resting]
    /\ BecomesModel(t, IF ok THEN "trained" ELSE "none")
    /\ UNCHANGED screens

ScanEnds(a, ok, errors) ==
    IF a \in Sessions THEN SessionEnds(a, ok, errors) ELSE TerminalEnds(a, ok)

\* A demonstration goes on to the finally block, whether the scan failed or not.
AfterAppend(a, ok) ==
    IF work[a].demo
    THEN /\ work' = [work EXCEPT ![a].at = "restore", ![a].ok = ok]
         /\ UNCHANGED <<model, screens>>
    ELSE ScanEnds(a, ok, {})

WritesLog(a) ==
    /\ work[a].at = "write"
    /\ log' = Written(log, work[a].handle, work[a].out)
    /\ recorded' = IF work[a].demo THEN recorded ELSE Append(recorded, work[a].row.event)
    /\ AfterAppend(a, TRUE)
    /\ UNCHANGED <<baseline, failing, scans, clicks, faults, before, intact>>

\* The log cannot be opened for writing.
AppendFails(a) ==
    /\ work[a].at = "open" /\ Fault
    /\ AfterAppend(a, FALSE)
    /\ UNCHANGED <<files, failing, scans, clicks, ghosts>>

\* to_csv() raises when it has emptied the log: a live scan leaves it so.
AppendBreaks(a) ==
    /\ work[a].at = "write" /\ Fault
    /\ AfterAppend(a, FALSE)
    /\ intact' = (intact /\ work[a].demo)
    /\ UNCHANGED <<files, failing, scans, clicks, before, recorded>>

\* The finally block of run_scan()
RestoreOpens(s) ==
    /\ work[s].at = "restore" /\ work[s].original.there
    /\ Opens(s, work[s].original.rows, "rewrite")
    /\ UNCHANGED <<baseline, model, screens, failing, scans, clicks, faults, ghosts>>

RestoreWrites(s) ==
    /\ work[s].at = "rewrite"
    /\ log' = Written(log, work[s].handle, work[s].original.rows)
    /\ ScanEnds(s, work[s].ok, {})
    /\ UNCHANGED <<baseline, failing, scans, clicks, faults, ghosts>>

\* A faulty variant of the next definition: a log that did not exist is left behind.
RestoreKeeps(s) ==
    /\ work[s].at = "restore" /\ ~ work[s].original.there
    /\ ScanEnds(s, work[s].ok, {})
    /\ UNCHANGED <<files, failing, scans, clicks, faults, ghosts>>

RestoreUnlinks(s) ==
    /\ work[s].at = "restore" /\ ~ work[s].original.there
    /\ log' = IF log.there THEN Unlinked(log) ELSE log
    /\ ScanEnds(s, work[s].ok, {})
    /\ UNCHANGED <<baseline, failing, scans, clicks, faults, ghosts>>

\* unlink(), open() or write() raises an OSError.
RestoreFails(s) ==
    /\ \/ work[s].at = "restore" /\ (log.there \/ work[s].original.there)
       \/ work[s].at = "rewrite"
    /\ Fault
    /\ ScanEnds(s, work[s].ok, {"restore_failed"})
    /\ intact' = FALSE
    /\ UNCHANGED <<files, failing, scans, clicks, before, recorded>>

ScanStep(a) ==
    \/ \E demo \in BOOLEAN : StartsScan(a, demo)
    \/ CaptureFails(a)
    \/ \E failed \in BOOLEAN : ReadsLog(a, failed)
    \/ OpensLog(a) \/ WritesLog(a) \/ AppendFails(a) \/ AppendBreaks(a)
    \/ RestoreOpens(a) \/ RestoreWrites(a) \/ RestoreUnlinks(a) \/ RestoreFails(a)

----------------------------------------------------------------------------
(* One run of the page script (app.py) *)

\* The buttons of the session: another page, clear the result, refresh, retrain.
Clicks(s) ==
    /\ work[s].at = "idle" /\ Goes(s, "page")
    /\ clicks < MaxClicks /\ clicks' = clicks + 1
    /\ UNCHANGED <<files, pages, page, failing, scans, faults, ghosts>>

Browses(s) == Clicks(s) /\ UNCHANGED <<model, result, banner, token, live>>

ClearsResult(s) ==
    /\ Clicks(s) /\ Refresh(s)
    /\ result' = [result EXCEPT ![s] = Nothing] /\ banner' = [banner EXCEPT ![s] = {}]
    /\ UNCHANGED model

Refreshes(s) == Clicks(s) /\ Refresh(s) /\ UNCHANGED <<model, result, banner>>

Retrains(s) ==
    /\ Clicks(s) /\ model[Server] = "trained" /\ BecomesModel(Server, "none")
    /\ UNCHANGED <<result, banner, token, live>>

\* _snapshot() and _connections(), cached under the token alone for five seconds
Snapshot(t) == IF t \in DOMAIN live THEN live[t] ELSE [failed |-> failing, stale |-> {}]

Rollup(failed) ==
    HealthRollup(SensorHealth(FullSnapshot(failed, CameraProbe), ConnectionSnapshot(failed),
                              CameraProbe))

Cached(signature) == {entry \in pages : entry.signature = signature}

\* _build_context(): the sensors, then the log through _read_logs(_log_signature())
BuildsContext(s) ==
    /\ work[s].at = "page" /\ model[Server] = "trained"
    /\ LET snapshot == Snapshot(token[s])
           known == Cached(Signature(log))
           shown == [page[s] EXCEPT !.failed = snapshot.failed, !.stale = s \in snapshot.stale,
                                    !.rollup = Rollup(snapshot.failed)]
       IN  /\ live' = [t \in DOMAIN live \cup {token[s]} |-> Snapshot(t)]
           /\ IF known = {}
              THEN /\ work' = [work EXCEPT ![s].at = "load", ![s].signature = Signature(log)]
                   /\ page' = [page EXCEPT ![s] = shown]
              ELSE /\ Goes(s, "idle")
                   /\ \E entry \in known :
                         page' = [page EXCEPT ![s] = [shown EXCEPT !.rows = entry.rows]]
    /\ UNCHANGED <<files, model, result, banner, token, pages, failing, scans, clicks, faults, ghosts>>

\* The body of _read_logs(), and what st.cache_data keeps of it: an error while reading
\* counts as an empty log and is kept like any other answer.
LoadsLog(s, failed) ==
    /\ work[s].at = "load" /\ (failed => log.there)
    /\ LET rows == LoadLogs(IF failed THEN Absent ELSE log)
       IN  /\ pages' = pages \cup {[signature |-> work[s].signature, rows |-> rows, read |-> ~ failed]}
           /\ page' = [page EXCEPT ![s].rows = rows]
    /\ work' = [work EXCEPT ![s] = Resting]
    /\ IF failed THEN Fault ELSE UNCHANGED faults
    /\ UNCHANGED <<files, model, result, banner, token, live, failing, scans, clicks, ghosts>>

SnapshotExpires(t) ==
    /\ t \in DOMAIN live
    /\ live' = [u \in DOMAIN live \ {t} |-> live[u]]
    /\ UNCHANGED <<files, model, work, result, banner, token, pages, page, failing, scans,
                   clicks, faults, ghosts>>

PageStep(s) ==
    \/ Browses(s) \/ ClearsResult(s) \/ Refreshes(s) \/ Retrains(s) \/ BuildsContext(s)
    \/ \E failed \in BOOLEAN : LoadsLog(s, failed)

----------------------------------------------------------------------------

HostChanges(probes) ==
    /\ failing' = probes /\ failing' # failing /\ Fault
    /\ UNCHANGED <<files, model, work, screens, scans, clicks, ghosts>>

\* The program ends where it is (Ctrl+C, kill, power) and may be started again.
Dies(p) ==
    /\ Fault /\ BecomesModel(p, "none")
    /\ work' = [a \in Actors |-> IF Process(a) = p THEN Resting ELSE work[a]]
    /\ intact' = (intact /\ \A a \in Actors : Process(a) = p => ~ InScan(a))
    /\ IF p = Server
       THEN /\ result' = [s \in Sessions |-> Nothing] /\ banner' = [s \in Sessions |-> {}]
            /\ token' = [s \in Sessions |-> 0] /\ live' = <<>> /\ pages' = {}
            /\ page' = [s \in Sessions |-> Blank]
       ELSE UNCHANGED screens
    /\ UNCHANGED <<files, failing, scans, clicks, before, recorded>>

Next ==
    \/ \E p \in Programs : TrainsModel(p) \/ EmptiesBaseline(p) \/ SavesBaseline(p) \/ Dies(p)
    \/ \E a \in Actors : ScanStep(a)
    \/ \E s \in Sessions : PageStep(s)
    \/ \E t \in DOMAIN live : SnapshotExpires(t)
    \/ \E probes \in SUBSET Fallible : HostChanges(probes)

Spec == Init /\ [][Next]_vars

----------------------------------------------------------------------------
(* Properties *)

Rows(file) == {file.rows[i] : i \in DOMAIN file.rows}
Events(rows) == [i \in DOMAIN rows |-> rows[i].event]
AtRest == \A a \in Actors : ~ InScan(a)

\* Every variable keeps the kind of value the code keeps there.
TypeOK ==
    /\ log.there \in BOOLEAN /\ log.stamp \in Nat
    /\ baseline \in {0, BaselineSamples}
    /\ model \in [Programs -> {"none", "sampling", "saving", "trained"}]
    /\ \A a \in Actors : work[a].at \in Scanning \cup {"idle", "page", "load"}
    /\ \A s \in Sessions : banner[s] \subseteq {"scan_error", "restore_failed"}
    /\ scans \in 0 .. MaxScans /\ clicks \in 0 .. MaxClicks /\ faults \in 0 .. MaxFaults

\* The log holds what it held first and then every live scan that was written, in their
\* order, and no demonstration (logger.py:719, scan.py:56), also when a scan cannot open
\* it or a demonstration breaks off while it writes its rows. Not after two scans that
\* overlapped, a scan that was killed, and the four errors that do lose rows in the code:
\* the log cannot be captured (HistoryIsNotDeleted) or read, a live scan breaks off while
\* it writes, or the log cannot be restored.
HistoryIsWhole ==
    (intact /\ AtRest) => Events(log.rows) = Events(before) \o recorded

\* What the page cache holds for the log as it is now is what the log holds, or comes of
\* a read that failed: no interaction shows the state of before a scan (aura_ui/core.py:12,
\* 600). That the log is there is needed: see AbsentLogIsEmpty. What comes of a read that
\* failed is no rows, however many the log has: see CacheIsTheLog.
CacheIsCurrent ==
    log.there => \A entry \in Cached(Signature(log)) :
        entry.rows = IF entry.read THEN LoadLogs(log) ELSE <<>>

\* The events an earlier version labelled otherwise than these thresholds do
LabelledOtherwise(rows) ==
    {rows[i].event : i \in {j \in DOMAIN rows :
        LET row == NormalizeRow(rows[j]) IN row.risk # Rung(RiskLadder, row.score).label}}

\* A scan has one verdict, although its thresholds are written down three times: the
\* severity, the status line and the display band of a result agree, what looks like an
\* exfiltration is a privacy event, and the chart tells of every scan what the engine said
\* of it, also of a row an earlier version stored without a severity
\* (aura_ui/core.py:103, 173; privacy_monitor.py:1216, 1279). A row that it labelled
\* otherwise keeps that label.
OneVerdict ==
    \A s \in Sessions :
        /\ result[s] # Nothing =>
              /\ result[s].exfiltration => result[s].privacy_event
              /\ SeverityOf(result[s]) = Severity(BandForScore(result[s].score))
              /\ ScanStatus(result[s].risk) = HealthSummary(result[s].score)
        /\ page[s].rows # Nothing =>
              LET rows == page[s].rows
                  chart == ChartSeverities(rows)
              IN  /\ DOMAIN chart = DOMAIN rows
                  /\ \A i \in DOMAIN rows : rows[i].event \notin LabelledOtherwise(before) =>
                         chart[i] = Severity(Rung(RiskLadder, rows[i].score).label)

\* No scan is CRITICAL before the machine has a history to compare its processes with:
\* the score reaches 80 only with the detectors, the upload and the processes together.
CriticalNeedsHistory ==
    \A row \in Rows(log) : row.event \notin {before[i].event : i \in DOMAIN before} =>
        (row.risk = "CRITICAL" => row.event.n + Len(before) > MinHistory)

\* The sensors are called healthy only if they were measured. What the rollup cannot
\* tell apart: an idle disk, a missing battery or camera, and a failed CPU usage.
HealthyMeansMeasured ==
    \A s \in Sessions : page[s].rollup = "HEALTHY" =>
        page[s].failed \subseteq {"usage", "disk_io", "battery", "camera"}

\* The page that follows a refresh or a scan shows readings taken after it
\* (aura_ui/core.py:371: "changing the token is a cache miss"), unless the counter of
\* another tab, which shares the cache and not the counter, has come as far.
RefreshShowsNewReadings ==
    \A s \in Sessions : page[s].stale /\ work[s].at # "page" =>
        \E other \in Sessions \ {s} : token[other] >= token[s]

\* A page never shows events of a log that does not exist. (0, 0) is the signature of
\* every missing log: rows read while a demonstration had created the log are cached
\* under it, and shown after the demonstration has removed the log again.
AbsentLogIsEmpty ==
    ~ log.there => \A entry \in Cached(Signature(log)) : entry.rows = <<>>

\* "Read the log exactly once per distinct file state": what is cached for the state the
\* log has is the log. The code does not keep it: one failed read is cached as an empty log
\* and shown until the next scan changes the file, the rows being there and readable.
CacheIsTheLog ==
    log.there => \A entry \in Cached(Signature(log)) : entry.rows = LoadLogs(log)

\* "The log is restored afterwards": a log that had rows is never removed. The code does
\* not keep it: a demonstration that cannot read the log takes it for its own and unlinks
\* it (aura_ui/scan.py:77, 91).
HistoryIsNotDeleted == before # <<>> => log.there

\* A demonstration leaves nothing in the log (app.py:225: "Never written to logs.").
NoSyntheticHistory == AtRest => \A row \in Rows(log) : ~ row.event.demo
=============================================================================
