---------------------------- MODULE LegacyScoring ----------------------------
(***************************************************************************)
(* The verdict of the Streamlit and terminal prototype: the two detectors  *)
(* (model.py), the additive score (privacy_monitor.py), the label, the     *)
(* severity and the status of a scan (aura_core.py), and the same label    *)
(* derived a second and a third time for display (privacy_monitor.py and   *)
(* aura_ui/core.py). Detector scores are in hundredths, rates in KB/s.     *)
(***************************************************************************)
EXTENDS Integers, Sequences, TLC

CONSTANTS
    MinHistory,   \* observations the process baseline asks for (5)
    RecentRows    \* how many of the last rows it looks at (50)

ASSUME HistoryAssumption == MinHistory \in Nat \ {0} /\ RecentRows \in Nat \ {0}

Unknown == -1   \* None

Clip(x) == IF x < 0 THEN 0 ELSE IF x > 100 THEN 100 ELSE x

\* A chain of "if value >= threshold" tests, the highest threshold first; the last
\* step is the else branch.
Rung(ladder, value) ==
    LET reached == {i \in DOMAIN ladder : value >= ladder[i].from} \cup {Len(ladder)}
    IN  ladder[CHOOSE i \in reached : \A j \in reached : i <= j]

Step(from, label, points) == [from |-> from, label |-> label, points |-> points]
Label(from, label) == Step(from, label, 0)

\* dropna(): the values that are not missing, in their order
Dropna(values, missing) ==
    LET kept[i \in 0 .. Len(values)] ==
            IF i = 0 THEN <<>>
            ELSE IF values[i] \in missing THEN kept[i - 1]
            ELSE Append(kept[i - 1], values[i])
    IN  kept[Len(values)]

----------------------------------------------------------------------------
(* model.py: what the ensemble says of one observation. A detector flags it *)
(* exactly when its decision function is negative.                          *)

Intensity(score) == Clip(100 - score)

EnsembleConfidence(ifFires, lofFires, ifScore, lofScore) ==
    LET agreement == IF ifFires /\ lofFires THEN 60 ELSE IF ifFires \/ lofFires THEN 33 ELSE 0
    IN  Clip(agreement + (20 * (Intensity(ifScore) + Intensity(lofScore))) \div 100)

EnsembleRisk(ifFires, lofFires, confidence) ==
    IF ifFires /\ lofFires /\ confidence >= 70 THEN "HIGH"
    ELSE IF ifFires \/ lofFires THEN "MEDIUM" ELSE "NORMAL"

Detect(ifScore, lofScore) ==
    LET ifFires == ifScore < 0
        lofFires == lofScore < 0
        confidence == EnsembleConfidence(ifFires, lofFires, ifScore, lofScore)
    IN  [ifFires |-> ifFires, lofFires |-> lofFires, anomaly |-> ifFires \/ lofFires,
         confidence |-> confidence, risk |-> EnsembleRisk(ifFires, lofFires, confidence)]

\* ensemble_agreement(): the vote as the page words it
Agreement(ml) ==
    IF ml.ifFires /\ ml.lofFires THEN "BOTH" ELSE IF ml.anomaly THEN "ONE" ELSE "NONE"

----------------------------------------------------------------------------
(* privacy_monitor.py *)

NetworkLadder == <<Step(5000, "VERY_HIGH", 30), Step(1000, "HIGH", 22),
                   Step(100, "ELEVATED", 10), Step(0, "NORMAL", 0)>>
ConnectionLadder == <<Step(150, "VERY_HIGH", 8), Step(75, "HIGH", 5),
                      Step(30, "WATCH", 2), Step(0, "NORMAL", 0)>>
ProcessLadder == <<Step(200, "VERY_HIGH", 20), Step(175, "ELEVATED", 15),   \* percent
                   Step(135, "WATCH", 7), Step(0, "NORMAL", 0)>>
RiskLadder == <<Label(80, "CRITICAL"), Label(55, "HIGH"), Label(25, "MEDIUM"),
                Label(10, "LOW"), Label(0, "NORMAL")>>

ClassifyNetwork(kbps) == Rung(NetworkLadder, kbps)
ClassifyConnections(count) == Rung(ConnectionLadder, count)

\* "If no valid baseline exists, AURA does not invent an anomaly." The baseline is
\* twice the median, so that it stays an integer.
ClassifyProcesses(count, baseline) ==
    IF baseline <= 0 THEN Rung(ProcessLadder, 0)
    ELSE Rung(ProcessLadder, (200 * count) \div baseline)

Score(anomaly, network, process, connection) ==
    Clip((IF anomaly THEN 30 ELSE 0) + network.points + process.points + connection.points)

\* privacy_risk(): reading is what the sensors of one scan returned
PrivacyRisk(reading, anomaly, baseline) ==
    LET network == ClassifyNetwork(reading.net)
        process == ClassifyProcesses(reading.procs, baseline)
        connection == ClassifyConnections(reading.remote)
        score == Score(anomaly, network, process, connection)
        loud == network.label \in {"HIGH", "VERY_HIGH"}
        behaviour == \/ anomaly
                     \/ process.label \in {"WATCH", "ELEVATED", "VERY_HIGH"}
                     \/ connection.label \in {"HIGH", "VERY_HIGH"}
    IN  [score |-> score,
         risk |-> Rung(RiskLadder, score).label,
         privacy_event |-> score >= 25 /\ (loud \/ behaviour),
         exfiltration |-> loud /\ behaviour]

\* get_privacy_health_summary(): the status line, from the score alone
HealthSummary(score) ==
    Rung(<<Label(80, "CRITICAL"), Label(55, "HIGH RISK"), Label(25, "ATTENTION"),
           Label(10, "MONITORING"), Label(0, "PROTECTED")>>, score).label

----------------------------------------------------------------------------
(* aura_core.py *)

\* A faulty variant of the next definition: one observation is a history.
EagerProcessBaseline(counts) == IF counts = <<>> THEN Unknown ELSE 2 * counts[1]

\* _get_process_baseline(): twice the median of the last rows' process counts
ProcessBaseline(counts) ==
    LET recent == SubSeq(counts, IF Len(counts) > RecentRows THEN Len(counts) - RecentRows + 1
                                 ELSE 1, Len(counts))
        sorted == SortSeq(recent, LAMBDA x, y : x < y)
        n == Len(recent)
    IN  IF Len(counts) < MinHistory THEN Unknown
        ELSE sorted[(n + 1) \div 2] + sorted[(n + 2) \div 2]

\* The label of the risk engine is kept, never recomputed from the score.
Severity(risk) == IF risk = "NORMAL" THEN "INFO" ELSE risk

ScanStatus(risk) ==
    CASE risk = "CRITICAL" -> "CRITICAL" [] risk = "HIGH" -> "HIGH RISK"
      [] risk = "MEDIUM" -> "ATTENTION" [] risk = "LOW" -> "MONITORING"
      [] OTHER -> "PROTECTED"

\* _calculate_anomaly_metrics(): a second confidence, by votes alone
VoteConfidence(ml) == IF ml.ifFires /\ ml.lofFires THEN 100 ELSE IF ml.anomaly THEN 60 ELSE 0

ModelHealth(samples) ==
    Rung(<<Label(30, "HEALTHY"), Label(10, "LIMITED"), Label(0, "INSUFFICIENT")>>, samples).label

----------------------------------------------------------------------------
(* aura_ui/core.py: labels for display *)

RiskBands == <<Label(80, "CRITICAL"), Label(55, "HIGH"), Label(25, "MEDIUM"),
               Label(10, "LOW"), Label(0, "NORMAL")>>

BandForScore(score) == Rung(RiskBands, score).label

\* severity_of(): the stored severity, then the risk, then the band of the score
SeverityOf(row) ==
    IF row.severity # "" THEN Severity(row.severity)
    ELSE IF row.risk # "" THEN Severity(row.risk)
    ELSE Severity(BandForScore(row.score))

\* A faulty variant of the next definition: the severity column is preferred.
ChartStoredSeverities(rows) == [i \in DOMAIN rows |-> Severity(rows[i].severity)]

\* log_severity_series(): one column for the whole chart, the risk when any row has one
ChartSeverities(rows) ==
    LET risks == Dropna([i \in DOMAIN rows |-> Severity(rows[i].risk)], {""})
        severities == Dropna([i \in DOMAIN rows |-> Severity(rows[i].severity)], {""})
    IN  IF risks # <<>> THEN risks
        ELSE IF severities # <<>> THEN severities
        ELSE [i \in DOMAIN rows |-> Severity(BandForScore(rows[i].score))]
=============================================================================
