----------------------------- MODULE RiskEngine -----------------------------
(***************************************************************************)
(* The risk engine on a host whose telemetry moves: between two scans one  *)
(* of the signals changes. The properties compare the conclusion of a scan *)
(* with its reading and with the conclusion of the scan before.            *)
(***************************************************************************)
EXTENDS RiskScoring

VARIABLE reading   \* the telemetry of the last scan

EngineInit == reading = QuietHost

SensorChanges == \E s \in SensorStatus : \/ reading' = [reading EXCEPT !.camera = s]
                                         \/ reading' = [reading EXCEPT !.mic = s]
UploadChanges == \E u \in {Steady, Elevated, Burst} : reading' = [reading EXCEPT !.upload = u]
AnomalyChanges == \E b \in BOOLEAN : \/ reading' = [reading EXCEPT !.cpu = b]
                                     \/ reading' = [reading EXCEPT !.net = b]
                                     \/ reading' = [reading EXCEPT !.processes = b]
VerdictChanges == \E p \in {0} \cup MlPoints : reading' = [reading EXCEPT !.ml = p]

EngineNext == SensorChanges \/ UploadChanges \/ AnomalyChanges \/ VerdictChanges

EngineSpec == EngineInit /\ [][EngineNext]_reading

-----------------------------------------------------------------------------
(* Properties *)

Use(s) == CASE s = "OFF" -> 0 [] s = "AVAILABLE" -> 1 [] s = "ACTIVE" -> 2

\* r raises every signal that q raises, at least as far.
IsWorse(r, q) ==
    /\ Use(r.camera) >= Use(q.camera) /\ Use(r.mic) >= Use(q.mic)
    /\ r.upload >= q.upload /\ r.ml >= q.ml
    /\ (q.cpu => r.cpu) /\ (q.net => r.net) /\ (q.processes => r.processes)

\* The idle microphone begins to record.
RecordingBegins(r, q) == q.mic = "AVAILABLE" /\ r.mic = "ACTIVE"

\* The rules exclude each other and one silences the next, yet a further signal never
\* makes the host look safer: whatever is raised on top, the score does not fall. It may
\* where an idle microphone begins to record, see WorseHostsNeverScoreLower.
RisingSignalsNeverLowerTheScore ==
    [][IsWorse(reading', reading) /\ ~ RecordingBegins(reading', reading)
       => RiskScore(reading') >= RiskScore(reading)]_reading

\* The same without the exception. The code does not keep it: beside a burst of upload
\* the idle microphone is charged 35 by a rule that does not look at one in use
\* (correlation.py:97, :158), and the one in use 30.
WorseHostsNeverScoreLower ==
    [][IsWorse(reading', reading) => RiskScore(reading') >= RiskScore(reading)]_reading

\* How many of the signals a reading raises.
Raised(r) ==
    Worth(r.camera # "OFF", 1) + Worth(r.mic # "OFF", 1) + Worth(r.upload # Steady, 1)
    + Worth(r.cpu, 1) + Worth(r.net, 1) + Worth(r.processes, 1) + Worth(r.ml # 0, 1)

\* One signal alone, whichever it is, stays below the band that alarms the user.
OneSignalNeverAlarms == Raised(reading) <= 1 => Severity(reading) < Medium

\* "Windows endpoint probe verified active ... state": a privacy anomaly is reported
\* of a sensor that is in use.
PrivacyAnomalyMeansInUse == PrivacyAnomaly(reading) => "ACTIVE" \in Sensors(reading)

\* "anti-double-counting": a sensor and the upload beside it are charged once.
PairCountedOnce == ~ (PrivacyAnomaly(reading) /\ Exfiltration(reading))
=============================================================================
