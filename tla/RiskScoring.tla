----------------------------- MODULE RiskScoring -----------------------------
(***************************************************************************)
(* What one scan concludes from one telemetry reading: the correlation     *)
(* rules (aura/engine/correlation.py), the risk score and its bands        *)
(* (aura/engine/risk_hardened.py) and the identity of the security event   *)
(* (aura/engine/service.py). A reading keeps of the telemetry only what    *)
(* these branch on: the two sensors, the band of the upload rate, which    *)
(* baselines flag an anomaly, and the points of the ML verdict.            *)
(***************************************************************************)
EXTENDS Naturals

CONSTANT MlPoints   \* int(min(30, 15 + intensity * 20)) of the ML verdicts that fire

ASSUME MlPointsAssumption == MlPoints \subseteq 15 .. 30

\* "OFF" stands for NOT_PROBED, NOT_DETECTED, UNAVAILABLE and every other status.
SensorStatus == {"OFF", "AVAILABLE", "ACTIVE"}

\* The upload rate, cut at the two thresholds the code compares it with: at most
\* 500 KB/s, at most 800 KB/s, more.
Steady == 0
Elevated == 1
Burst == 2

Reading == [camera : SensorStatus, mic : SensorStatus, upload : {Steady, Elevated, Burst},
            cpu : BOOLEAN, net : BOOLEAN, processes : BOOLEAN,   \* anomalies
            ml : {0} \cup MlPoints]                              \* 0: no ML anomaly

QuietHost == [camera |-> "OFF", mic |-> "OFF", upload |-> Steady, cpu |-> FALSE,
              net |-> FALSE, processes |-> FALSE, ml |-> 0]

Sensors(r) == {r.camera, r.mic}

\* correlate(): cam_active, mic_active of the code are true for AVAILABLE.
SensorReady(r) == "AVAILABLE" \in Sensors(r)

PrivacyAnomaly(r) == SensorReady(r) /\ (r.net \/ r.upload = Burst)
ComputeNetwork(r) == ~ PrivacyAnomaly(r) /\ r.cpu /\ r.net /\ ~ SensorReady(r)
NetworkSurge(r) == ~ PrivacyAnomaly(r) /\ ~ ComputeNetwork(r) /\ r.net /\ ~ SensorReady(r)
ProcessExpansion(r) == r.processes

\* evaluate(): the compound contributor
ExfiltrationBand(r) == Sensors(r) \cap {"AVAILABLE", "ACTIVE"} # {} /\ r.upload = Elevated
SensorOrUpload(r) == Sensors(r) \cap {"AVAILABLE", "ACTIVE"} # {} \/ r.upload > Steady
Exfiltration(r) == Sensors(r) \cap {"AVAILABLE", "ACTIVE"} # {} /\ r.upload > Steady

Worth(fires, points) == IF fires THEN points ELSE 0

TotalPoints(r) ==
    Worth(PrivacyAnomaly(r), 35) + Worth(ComputeNetwork(r), 25)
    + Worth(NetworkSurge(r), 18) + Worth(ProcessExpansion(r), 12)
    + Worth(r.camera = "ACTIVE", 35) + Worth(r.mic = "ACTIVE", 30)
    + r.ml + Worth(Exfiltration(r), 25)

RiskScore(r) == IF TotalPoints(r) > 100 THEN 100 ELSE TotalPoints(r)

\* SEVERITY_LEVELS of the bands NORMAL, LOW, MEDIUM, HIGH, CRITICAL
Normal == 0
Low == 1
Medium == 2
High == 3
Critical == 4
Level == Normal .. Critical

SeverityOf(score) ==
    IF score >= 90 THEN Critical
    ELSE IF score >= 70 THEN High
    ELSE IF score >= 45 THEN Medium
    ELSE IF score >= 15 THEN Low
    ELSE Normal

Severity(r) == SeverityOf(RiskScore(r))

NoContributors(r) ==
    /\ ~ PrivacyAnomaly(r) /\ ~ ComputeNetwork(r) /\ ~ NetworkSurge(r)
    /\ ~ ProcessExpansion(r) /\ ~ Exfiltration(r)
    /\ "ACTIVE" \notin Sensors(r)
    /\ r.ml = 0

\* incident_id: the compound flag, else the contributor appended first. The branch
\* for an ML anomaly without contributors is dead: the anomaly is a contributor.
Nominal == "inc_baseline_nominal"

IncidentId(r) ==
    IF PrivacyAnomaly(r) \/ Exfiltration(r) THEN "inc_privacy_compound_exfiltration"
    ELSE IF ComputeNetwork(r) THEN "inc_correlated_compute_&_network_anomaly"
    ELSE IF NetworkSurge(r) THEN "inc_elevated_outbound_network_activity"
    ELSE IF ProcessExpansion(r) THEN "inc_process_count_expansion"
    ELSE IF r.camera = "ACTIVE" THEN "inc_active_camera_capture"
    ELSE IF r.mic = "ACTIVE" THEN "inc_active_microphone_recording"
    ELSE IF r.ml > 0 THEN "inc_unsupervised_statistical_anomaly"
    ELSE Nominal

Incidents == {Nominal, "inc_privacy_compound_exfiltration",
              "inc_correlated_compute_&_network_anomaly",
              "inc_elevated_outbound_network_activity", "inc_process_count_expansion",
              "inc_active_camera_capture", "inc_active_microphone_recording",
              "inc_unsupervised_statistical_anomaly"}

\* is_resolved
IsResolved(r) == Severity(r) \in {Normal, Low} /\ NoContributors(r)

SecurityEvent(r) == [incident |-> IncidentId(r), level |-> Severity(r),
                     resolved |-> IsResolved(r)]

Event == [incident : Incidents, level : Level, resolved : BOOLEAN]
=============================================================================
