---------------------------- MODULE HostAnalysis ----------------------------
(***************************************************************************)
(* What the analyses of AURA conclude from a host: the capture sensors     *)
(* (aura/sensors/camera.py, microphone.py), the security posture, the      *)
(* deterministic rules (aura/engine/rules.py), the threat hunts, Process   *)
(* DNA, the persistence and network analyses and the full-scan report. The *)
(* code tests for an untrusted path in five files; each test is kept here  *)
(* as its own definition. Reading a host has no effect on it.              *)
(***************************************************************************)
EXTENDS Integers, FiniteSets, FiniteSetsExt

CONSTANT StatusPrintsValue   \* whether str() of a sensor status is its value (aura.models)

Devices == {"camera", "microphone"}

\* The directories the path tests tell apart.
Places == {"system", "temp", "downloads", "public"}

\* An application: its image name, where its image lies, whether it is a packaged
\* (store) app, whose consent key is the package name and not the name of a process.
Application == [name : STRING, place : Places, packaged : BOOLEAN]

----------------------------------------------------------------------------
(* The capture sensors. The consent store keeps for each application when it *)
(* last began and stopped using a device; zero is never, or not yet.         *)

Flagged(usage) == usage.start > 0 /\ (usage.start > usage.stop \/ usage.stop = 0)

\* running_procs_map, asked by the last part of the consent key
MatchingProcesses(running, app) ==
    IF app.packaged THEN {} ELSE {pid \in DOMAIN running : running[pid] = app.name}

GenuinelyActive(usage, running) ==
    {app \in DOMAIN usage : Flagged(usage[app]) /\ MatchingProcesses(running, app) # {}}

Idle == [status |-> "AVAILABLE", app |-> "", pids |-> {}]
ActiveIn(app, running) ==
    [status |-> "ACTIVE", app |-> app.name, pids |-> MatchingProcesses(running, app)]

\* A faulty variant of the next definition: the first key that is flagged decides.
CapturesOfFirstFlagged(usage, running) ==
    LET flagged == {app \in DOMAIN usage : Flagged(usage[app])}
    IN  IF flagged = {} THEN {Idle}
        ELSE {IF app \in GenuinelyActive(usage, running) THEN ActiveIn(app, running) ELSE Idle
                : app \in flagged}

\* The verdict names the first active application, in the order of the registry.
Captures(usage, running) ==
    IF GenuinelyActive(usage, running) = {} THEN {Idle}
    ELSE {ActiveIn(app, running) : app \in GenuinelyActive(usage, running)}

InUse(capture) == capture.app # "" /\ capture.pids # {}

----------------------------------------------------------------------------
(* collect_posture(): a query that fails leaves its default, which is secure *)

SecurePosture == [realtime |-> TRUE, antivirus |-> TRUE, firewall |-> TRUE, uac |-> TRUE,
                  secureBoot |-> TRUE, rebootPending |-> FALSE]

CollectPosture(host, failed) ==
    [check \in DOMAIN SecurePosture |->
        IF check \in failed THEN SecurePosture[check] ELSE host[check]]

\* A startup key or folder that cannot be read is skipped.
CollectStartup(startup, failed) == IF "startup" \in failed THEN {} ELSE startup

Less(fault, points) == IF fault THEN points ELSE 0
Bounded(score) == IF score < 0 THEN 0 ELSE IF score > 100 THEN 100 ELSE score

PostureScore(p) ==
    Bounded(100 - Less(~ p.realtime, 35) - Less(~ p.antivirus, 25) - Less(~ p.firewall, 20)
                - Less(~ p.uac, 15) - Less(~ p.secureBoot, 10) - Less(p.rebootPending, 5))

----------------------------------------------------------------------------
(* evaluate_rules(): the rules that fire, with what they fire on. Rates in KB/s. *)

When(condition, finding) == IF condition THEN {finding} ELSE {}
Host == "host"

\* A faulty variant of the next definition: the public folder is forgotten.
RulePathWithoutPublic(place) == place \in {"temp", "downloads"}
RulePath(place) == place \in {"temp", "downloads", "public"}

RuleFindings(telemetry, posture, startup) ==
    When(telemetry.camera = "ACTIVE" /\ telemetry.upload > 2500, <<"RUL-001", Host>>)
    \cup When(telemetry.microphone = "ACTIVE" /\ telemetry.upload > 1500, <<"RUL-002", Host>>)
    \cup When(~ posture.realtime, <<"RUL-003", Host>>)
    \cup When(~ posture.firewall, <<"RUL-004", Host>>)
    \cup {<<"RUL-005", app>> : app \in {a \in startup : RulePath(a.place)}}
    \cup When(telemetry.saturated, <<"RUL-006", Host>>)

\* execute_full_scan() charges a finding by its severity.
SeverityPoints(rule) ==
    CASE rule \in {"RUL-001", "RUL-003"} -> 35      \* CRITICAL
      [] rule = "RUL-006" -> 15                     \* MEDIUM
      [] OTHER -> 25                                \* HIGH
RulePoints(findings) == MapThenSumSet(LAMBDA f : SeverityPoints(f[1]), findings)

----------------------------------------------------------------------------
(* execute_hunts(), on the processes, their sockets and the two captures. A  *)
(* process has an application, and may listen on all interfaces or have      *)
(* established connections.                                                  *)

HuntPath(place) == place \in {"temp", "downloads", "public"}
HuntStartupPath(place) == place \in {"temp", "downloads", "public"}

\* HNT-002 ends with the first matching socket.
MediaFlows(procs, captures) ==
    LET streaming == {pid \in DOMAIN procs : /\ procs[pid].remote
                        /\ \E d \in Devices : InUse(captures[d]) /\ pid \in captures[d].pids}
    IN  IF streaming = {} THEN {{}} ELSE {{<<"HNT-002", pid>>} : pid \in streaming}

StaticHunts(procs, posture, startup) ==
    {<<"HNT-001", pid>> : pid \in {p \in DOMAIN procs : HuntPath(procs[p].app.place)}}
    \cup When(~ posture.realtime, <<"HNT-005", Host>>)
    \cup When(~ posture.firewall, <<"HNT-003", Host>>)
    \cup {<<"HNT-004", app>> : app \in {a \in startup : HuntStartupPath(a.place)}}

Hunts(procs, captures, posture, startup) ==
    {flow \cup StaticHunts(procs, posture, startup) : flow \in MediaFlows(procs, captures)}

----------------------------------------------------------------------------
(* get_process_dna(): the security part, from the parts before it *)

DnaPath(place) == place \in {"temp", "downloads", "public"}

\* By its number, or by the name of the process the sensor names.
CaptureDetected(pid, name, capture) == pid \in capture.pids \/ capture.app = name

DnaRules(pid, process, captures) ==
    When(DnaPath(process.app.place), "RUL-SUSPICIOUS-EXEC-PATH")
    \cup When(/\ \E d \in Devices : CaptureDetected(pid, process.app.name, captures[d])
              /\ process.remote, "RUL-PRIVACY-NETWORK-CONCURRENCY")

DnaRisk(rules, process) ==
    Less("RUL-SUSPICIOUS-EXEC-PATH" \in rules, 25)
    + Less("RUL-PRIVACY-NETWORK-CONCURRENCY" \in rules, 35) + Less(process.listens, 10)

DnaLevel(risk) == IF risk >= 75 THEN "CRITICAL" ELSE IF risk >= 50 THEN "HIGH"
                  ELSE IF risk >= 25 THEN "MEDIUM" ELSE IF risk > 0 THEN "LOW" ELSE "NORMAL"

----------------------------------------------------------------------------
(* analyze() of persistence and investigate() of the network *)

PersistencePath(place) == place \in {"temp", "downloads", "public"}

\* Startup applications and services, which are taken to be on the disk. A target that is
\* missing is LOW, wherever it was.
PersistenceSeverity(app, onDisk) ==
    IF ~ onDisk THEN "LOW" ELSE IF PersistencePath(app.place) THEN "HIGH" ELSE "NORMAL"

Exposures(procs, posture) ==
    {<<pid, IF posture.firewall THEN "LOW" ELSE "MEDIUM">>
        : pid \in {p \in DOMAIN procs : procs[p].listens}}

----------------------------------------------------------------------------
(* The scores of the full scan, of the privacy page and of the audit report *)

FullScanPrivacy(telemetry) ==
    LET active(status) == StatusPrintsValue /\ status = "ACTIVE"
    IN  Bounded(100 - Less(active(telemetry.camera), 30) - Less(active(telemetry.microphone), 25)
                    - Less(telemetry.crowded, 15))

\* The privacy page also charges a device that the system permission denies.
PrivacySummary(captures, denied) ==
    Bounded(100 - Less(InUse(captures["camera"]), 30) - Less(InUse(captures["microphone"]), 25)
                - 10 * Cardinality(denied))

\* The privacy score of the audit report
ReportPrivacy(captures) ==
    Bounded(100 - Less(InUse(captures["camera"]), 30) - Less(InUse(captures["microphone"]), 25))

FullScanRisk(findings, mlAnomaly) == Bounded(10 + RulePoints(findings) + Less(mlAnomaly, 15))

FullScanSeverity(risk) ==
    IF risk >= 80 THEN "CRITICAL" ELSE IF risk >= 60 THEN "HIGH"
    ELSE IF risk >= 40 THEN "MEDIUM" ELSE IF risk >= 20 THEN "LOW" ELSE "NORMAL"
=============================================================================
