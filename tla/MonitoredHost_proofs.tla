------------------------ MODULE MonitoredHost_proofs ------------------------
(***************************************************************************)
(* The risk engine for every ML verdict the ensemble can give, the tracker *)
(* for any telemetry and any minimum severity, and both in one cycle. Of   *)
(* the engine nothing but the type of the reading is needed as invariant:  *)
(* the rest is what the rules add up to, reading by reading. Of the        *)
(* tracker: an incident is open exactly when the user was told of it, and  *)
(* notified_severity is the last thing the user was told.                  *)
(***************************************************************************)
EXTENDS MonitoredHost, TLAPS

-----------------------------------------------------------------------------
(* The risk engine *)

ReadingTypeOK == reading \in Reading

LEMMA QuietHostIsReading == QuietHost \in Reading
BY DEF QuietHost, Reading, SensorStatus, Steady

\* The telemetry stays telemetry.
THEOREM TypeCorrect == EngineSpec => []ReadingTypeOK
<1>1. EngineInit => ReadingTypeOK
  BY QuietHostIsReading DEF EngineInit, ReadingTypeOK
<1>2. ReadingTypeOK /\ [EngineNext]_reading => ReadingTypeOK'
  <2> SUFFICES ASSUME ReadingTypeOK, [EngineNext]_reading PROVE ReadingTypeOK'
    OBVIOUS
  <2>1. CASE SensorChanges  BY <2>1 DEF SensorChanges, ReadingTypeOK, Reading
  <2>2. CASE UploadChanges  BY <2>2 DEF UploadChanges, ReadingTypeOK, Reading
  <2>3. CASE AnomalyChanges BY <2>3 DEF AnomalyChanges, ReadingTypeOK, Reading
  <2>4. CASE VerdictChanges BY <2>4 DEF VerdictChanges, ReadingTypeOK, Reading
  <2>5. CASE UNCHANGED reading BY <2>5 DEF ReadingTypeOK
  <2> QED BY <2>1, <2>2, <2>3, <2>4, <2>5 DEF EngineNext
<1> QED BY <1>1, <1>2, PTL DEF EngineSpec

\* The points of the fields that evaluate() adds up are numbers.
LEMMA FieldsAreNumbers ==
    ASSUME NEW r \in Reading
    PROVE  /\ r.upload \in 0 .. 2 /\ r.ml \in Nat
           /\ r.ml = 0 \/ r.ml \in 15 .. 30
           /\ r.camera \in SensorStatus /\ r.mic \in SensorStatus
           /\ r.cpu \in BOOLEAN /\ r.net \in BOOLEAN /\ r.processes \in BOOLEAN
<1>1. /\ r.upload \in {Steady, Elevated, Burst} /\ r.ml \in {0} \cup MlPoints
      /\ r.camera \in SensorStatus /\ r.mic \in SensorStatus
      /\ r.cpu \in BOOLEAN /\ r.net \in BOOLEAN /\ r.processes \in BOOLEAN
  BY DEF Reading
<1>2. r.upload \in 0 .. 2
  BY <1>1 DEF Steady, Elevated, Burst
<1>3. r.ml = 0 \/ r.ml \in 15 .. 30
  BY <1>1, MlPointsAssumption
<1>4. r.ml \in Nat
  BY <1>3
<1> QED BY <1>1, <1>2, <1>3, <1>4

\* The score is a number between 0 and 100.
THEOREM ScoreIsBounded == ASSUME NEW r \in Reading
                          PROVE  TotalPoints(r) \in Nat /\ RiskScore(r) \in 0 .. 100
<1>1. r.ml \in Nat
  BY FieldsAreNumbers
<1>2. TotalPoints(r) \in Nat
  BY <1>1 DEF TotalPoints, Worth
<1> QED BY <1>2 DEF RiskScore

\* No signal alone reaches the band that alarms, however sure the ensemble is.
THEOREM AloneIsQuiet == EngineSpec => []OneSignalNeverAlarms
<1>1. ReadingTypeOK => OneSignalNeverAlarms
  <2> SUFFICES ASSUME ReadingTypeOK, Raised(reading) <= 1
               PROVE  Severity(reading) < Medium
    BY DEF OneSignalNeverAlarms
  <2>1. /\ reading \in Reading /\ reading.ml \in Nat /\ reading.ml <= 30
        /\ reading.camera \in SensorStatus /\ reading.mic \in SensorStatus
        /\ reading.upload \in 0 .. 2
    BY FieldsAreNumbers DEF ReadingTypeOK
  <2>2. TotalPoints(reading) < 45
    BY <2>1 DEF Raised, Worth, TotalPoints, PrivacyAnomaly, ComputeNetwork, NetworkSurge,
               ProcessExpansion, Exfiltration, SensorReady, Sensors, SensorStatus,
               Steady, Burst
  <2>3. TotalPoints(reading) \in Nat
    BY <2>1, ScoreIsBounded
  <2> QED BY <2>2, <2>3 DEF Severity, SeverityOf, RiskScore, Normal, Low, Medium, High, Critical
<1> QED BY <1>1, TypeCorrect, PTL

\* A further signal does not lower the score, an idle microphone that begins to record
\* excepted: what the elif chain takes away is made up for by the rule that silenced it,
\* and for a camera in use by its own points.
THEOREM ScoreIsMonotone == EngineSpec => RisingSignalsNeverLowerTheScore
<1>1. ASSUME NEW r \in Reading, NEW q \in Reading, IsWorse(r, q), ~ RecordingBegins(r, q)
      PROVE  RiskScore(r) >= RiskScore(q)
  <2>1. /\ r.ml \in Nat /\ q.ml \in Nat /\ r.ml >= q.ml
        /\ r.camera \in SensorStatus /\ r.mic \in SensorStatus
        /\ q.camera \in SensorStatus /\ q.mic \in SensorStatus
        /\ r.upload \in 0 .. 2 /\ q.upload \in 0 .. 2 /\ r.upload >= q.upload
    BY <1>1, FieldsAreNumbers DEF IsWorse
  <2>2. /\ q.camera = "OFF" \/ r.camera = q.camera \/ r.camera = "ACTIVE"
        /\ q.mic = "OFF" \/ r.mic = q.mic
    BY <1>1, <2>1 DEF IsWorse, RecordingBegins, Use, SensorStatus
  <2>3. (q.cpu => r.cpu) /\ (q.net => r.net) /\ (q.processes => r.processes)
    BY <1>1 DEF IsWorse
  <2> DEFINE Rules(x) == Worth(PrivacyAnomaly(x), 35) + Worth(ComputeNetwork(x), 25)
                         + Worth(NetworkSurge(x), 18)
                         + Worth(x.camera = "ACTIVE", 35) + Worth(x.mic = "ACTIVE", 30)
             Expansion(x) == Worth(ProcessExpansion(x), 12)
             Compound(x) == Worth(Exfiltration(x), 25)
  <2>4. Rules(r) >= Rules(q)
    BY <2>1, <2>2, <2>3 DEF Worth, PrivacyAnomaly, ComputeNetwork, NetworkSurge,
                            SensorReady, Sensors, SensorStatus, Burst
  <2>5. Expansion(r) >= Expansion(q)
    BY <2>3 DEF Worth, ProcessExpansion
  <2>6. Compound(r) >= Compound(q)
    BY <2>1, <2>2 DEF Worth, Exfiltration, Sensors, SensorStatus, Steady
  <2>7. /\ Rules(r) \in Nat /\ Rules(q) \in Nat
        /\ Expansion(r) \in Nat /\ Expansion(q) \in Nat
        /\ Compound(r) \in Nat /\ Compound(q) \in Nat
    BY DEF Worth
  <2>8. /\ TotalPoints(r) = Rules(r) + Expansion(r) + r.ml + Compound(r)
        /\ TotalPoints(q) = Rules(q) + Expansion(q) + q.ml + Compound(q)
    BY <2>1 DEF TotalPoints, Worth
  <2>9. TotalPoints(r) >= TotalPoints(q)
    <3> HIDE DEF Rules, Expansion, Compound
    <3> QED BY <2>1, <2>4, <2>5, <2>6, <2>7, <2>8
  <2>10. TotalPoints(r) \in Nat /\ TotalPoints(q) \in Nat
    BY ScoreIsBounded
  <2> QED BY <2>9, <2>10 DEF RiskScore
<1>2. ReadingTypeOK /\ ReadingTypeOK' /\ [EngineNext]_reading
      => [IsWorse(reading', reading) /\ ~ RecordingBegins(reading', reading)
          => RiskScore(reading') >= RiskScore(reading)]_reading
  BY <1>1 DEF ReadingTypeOK
<1> QED BY <1>2, TypeCorrect, PTL DEF EngineSpec, RisingSignalsNeverLowerTheScore

-----------------------------------------------------------------------------
(* The incident tracker *)

\* Every scan makes an event: one of the incidents, at one of the levels.
LEMMA ScansMakeEvents == ASSUME NEW r \in Reading PROVE SecurityEvent(r) \in Event
<1>1. IncidentId(r) \in Incidents
  BY DEF IncidentId, Incidents
<1>2. Severity(r) \in Level
  BY DEF Severity, SeverityOf, Level, Normal, Low, Medium, High, Critical
<1>3. IsResolved(r) \in BOOLEAN
  BY DEF IsResolved
<1> QED BY <1>1, <1>2, <1>3 DEF SecurityEvent, Event

LEMMA NothingSeenIsNominal ==
    /\ NothingSeen.event \in Event /\ NothingSeen.notify \in BOOLEAN
    /\ Resolves(NothingSeen.event)
<1>1. SecurityEvent(QuietHost) \in Event
  BY QuietHostIsReading, ScansMakeEvents
<1>2. TotalPoints(QuietHost) = 0
  BY DEF TotalPoints, Worth, PrivacyAnomaly, ComputeNetwork, NetworkSurge, SensorReady,
         ProcessExpansion, Exfiltration, Sensors, QuietHost, Steady, Burst
<1>3. SecurityEvent(QuietHost).level = 0
  BY <1>2 DEF SecurityEvent, Severity, SeverityOf, RiskScore, Normal
<1> QED BY <1>1, <1>3 DEF NothingSeen, Resolves

\* What is told on top of an ascending history, and worse than its last entry, leaves it
\* ascending.
LEMMA AppendWorse ==
    ASSUME NEW s \in Seq(Level), s # <<>>, NEW l \in Level, l > s[Len(s)],
           \A a, b \in 1 .. Len(s) : a < b => s[a] < s[b]
    PROVE  /\ Append(s, l) \in Seq(Level) /\ Len(Append(s, l)) = Len(s) + 1
           /\ Append(s, l)[Len(s) + 1] = l /\ Append(s, l) # <<>>
           /\ \A a, b \in 1 .. Len(Append(s, l)) : a < b => Append(s, l)[a] < Append(s, l)[b]
<1>1. /\ Append(s, l) \in Seq(Level) /\ Len(Append(s, l)) = Len(s) + 1
      /\ Append(s, l)[Len(s) + 1] = l /\ Append(s, l) # <<>>
      /\ \A k \in 1 .. Len(s) : Append(s, l)[k] = s[k]
  OBVIOUS
<1>2. Len(s) \in Nat /\ Len(s) >= 1
  OBVIOUS
<1>3. \A k \in 1 .. Len(s) : s[k] \in Level /\ s[k] <= s[Len(s)]
  BY <1>2 DEF Level, Normal, Critical
<1>4. ASSUME NEW a \in 1 .. Len(s) + 1, NEW b \in 1 .. Len(s) + 1, a < b
      PROVE  Append(s, l)[a] < Append(s, l)[b]
  <2>1. a \in 1 .. Len(s)
    BY <1>2, <1>4
  <2>2. CASE b \in 1 .. Len(s)
    BY <1>1, <1>4, <2>1, <2>2
  <2>3. CASE b = Len(s) + 1
    BY <1>1, <1>2, <1>3, <2>1, <2>3 DEF Level, Normal, Critical
  <2> QED BY <1>2, <2>2, <2>3
<1> QED BY <1>1, <1>4

LEMMA InitTrackerInv == Init => TrackerInv
<1> SUFFICES ASSUME Init PROVE TrackerInv
  OBVIOUS
<1>1. TypeOK
  BY NothingSeenIsNominal DEF Init, TypeOK, Level, Normal, Critical
<1>2. Agreement /\ NotifiedOnlyWhenWorse
  BY DEF Init, Agreement, NotifiedOnlyWhenWorse
<1>3. NothingSevereUntold
  BY NothingSeenIsNominal DEF Init, NothingSevereUntold
<1> QED BY <1>1, <1>2, <1>3 DEF TrackerInv

LEMMA RestartKeeps == TrackerInv /\ Restart => TrackerInv'
<1> SUFFICES ASSUME TrackerInv, Restart PROVE TrackerInv'
  OBVIOUS
<1>1. TypeOK'
  BY NothingSeenIsNominal DEF Restart, TypeOK, Level, Normal, Critical
<1>2. Agreement' /\ NotifiedOnlyWhenWorse'
  BY DEF Restart, Agreement, NotifiedOnlyWhenWorse
<1>3. NothingSevereUntold'
  BY NothingSeenIsNominal DEF Restart, NothingSevereUntold, Resolves
<1> QED BY <1>1, <1>2, <1>3 DEF TrackerInv

\* What every branch of evaluate_event does to what the user knows.
LEMMA EvaluateKeeps ==
    ASSUME TrackerInv, NEW e \in Event, evaluate_event(e)
    PROVE  TrackerInv'
<1>1. /\ e.incident \in Incidents /\ e.level \in Level /\ e.level \in Nat
      /\ last'.event = e /\ last'.notify \in BOOLEAN
  <2>1. e.incident \in Incidents /\ e.level \in Level
    BY DEF Event
  <2>2. PICK b \in BOOLEAN : last' = [event |-> e, notify |-> b]
    BY DEF evaluate_event
  <2>3. e.level \in Nat
    BY <2>1 DEF Level, Normal, Critical
  <2>4. last'.event = e /\ last'.notify = b
    BY <2>2
  <2> QED BY <2>1, <2>3, <2>4
<1> DEFINE i == e.incident
<1>2. /\ open \in SUBSET Incidents /\ notified \in [Incidents -> Level]
      /\ told \in [Incidents -> Seq(Level)]
  BY DEF TrackerInv, TypeOK
<1>3. CASE resolve(e)
  <2>1. TypeOK'
    BY <1>1, <1>2, <1>3 DEF resolve, TypeOK, Level, Normal, Critical
  <2>2. Agreement'
    BY <1>1, <1>2, <1>3 DEF resolve, TrackerInv, Agreement
  <2>3. NotifiedOnlyWhenWorse'
    BY <1>1, <1>2, <1>3 DEF resolve, TrackerInv, NotifiedOnlyWhenWorse
  <2>4. NothingSevereUntold'
    BY <1>1, <1>3 DEF resolve, NothingSevereUntold, Resolves
  <2> QED BY <2>1, <2>2, <2>3, <2>4 DEF TrackerInv
<1>4. CASE below_minimum(e)
  <2>1. TypeOK' /\ Agreement' /\ NotifiedOnlyWhenWorse'
    BY <1>1, <1>2, <1>4
       DEF below_minimum, TrackerInv, TypeOK, Agreement, NotifiedOnlyWhenWorse
  <2>2. NothingSevereUntold'
    BY <1>1, <1>4, MinLevelAssumption
       DEF below_minimum, NothingSevereUntold, Level, Normal, Critical
  <2> QED BY <2>1, <2>2 DEF TrackerInv
<1>5. CASE new_incident(e)
  <2>1. /\ <<e.level>> \in Seq(Level) /\ Len(<<e.level>>) = 1 /\ <<e.level>>[1] = e.level
        /\ <<e.level>> # <<>>
    BY <1>1
  <2>2. /\ told' = [told EXCEPT ![i] = <<e.level>>] /\ open' = open \cup {i}
        /\ notified' = [notified EXCEPT ![i] = e.level]
    BY <1>5 DEF new_incident
  <2>3. TypeOK'
    BY <1>1, <1>2, <2>1, <2>2 DEF TypeOK
  <2>4. told'[i] = <<e.level>> /\ \A j \in Incidents \ {i} : told'[j] = told[j]
    BY <1>1, <1>2, <2>2
  <2>5. Agreement'
    BY <1>1, <1>2, <2>1, <2>2 DEF TrackerInv, Agreement
  <2>6. NotifiedOnlyWhenWorse'
    BY <1>1, <2>1, <2>4 DEF TrackerInv, NotifiedOnlyWhenWorse
  <2>7. NothingSevereUntold'
    BY <1>1, <2>1, <2>4 DEF NothingSevereUntold
  <2> QED BY <2>3, <2>5, <2>6, <2>7 DEF TrackerInv
<1>6. CASE severity_escalation(e)
  <2> DEFINE s == told[i]
  <2>1. /\ i \in open /\ e.level > notified[i] /\ open' = open
        /\ told' = [told EXCEPT ![i] = Append(s, e.level)]
        /\ notified' = [notified EXCEPT ![i] = e.level]
    BY <1>6 DEF severity_escalation, Escalates
  <2>2. /\ s \in Seq(Level) /\ s # <<>> /\ e.level > s[Len(s)]
        /\ \A a, b \in 1 .. Len(s) : a < b => s[a] < s[b]
    BY <1>1, <1>2, <2>1 DEF TrackerInv, Agreement, NotifiedOnlyWhenWorse
  <2> DEFINE n == Append(s, e.level)
  <2>3. /\ n \in Seq(Level) /\ Len(n) = Len(s) + 1 /\ n[Len(s) + 1] = e.level
        /\ n # <<>> /\ \A a, b \in 1 .. Len(n) : a < b => n[a] < n[b]
    BY <1>1, <2>2, AppendWorse
  <2>4. Len(n) \in 1 .. Len(n) /\ n[Len(n)] = e.level
    BY <2>2, <2>3
  <2> HIDE DEF n
  <2>5. told' = [told EXCEPT ![i] = n]
    BY <2>1 DEF n
  <2>6. told'[i] = n /\ \A j \in Incidents \ {i} : told'[j] = told[j]
    BY <1>1, <1>2, <2>5
  <2>7. TypeOK'
    BY <1>1, <1>2, <2>1, <2>3, <2>5 DEF TypeOK
  <2>8. Agreement'
    BY <1>1, <1>2, <2>1, <2>3, <2>4, <2>6 DEF TrackerInv, Agreement
  <2>9. NotifiedOnlyWhenWorse'
    BY <1>1, <2>3, <2>6 DEF TrackerInv, NotifiedOnlyWhenWorse
  <2>10. NothingSevereUntold'
    BY <1>1, <2>4, <2>6 DEF NothingSevereUntold, Level, Normal, Critical
  <2> QED BY <2>7, <2>8, <2>9, <2>10 DEF TrackerInv
<1>7. CASE deduplicate(e)
  <2>1. TypeOK' /\ Agreement' /\ NotifiedOnlyWhenWorse'
    BY <1>1, <1>2, <1>7
       DEF deduplicate, TrackerInv, TypeOK, Agreement, NotifiedOnlyWhenWorse
  <2>2. i \in open /\ ~ (e.level > notified[i]) /\ told' = told
    BY <1>7 DEF deduplicate, Escalates
  <2>3. told[i] \in Seq(Level) /\ told[i] # <<>> /\ notified[i] = told[i][Len(told[i])]
    BY <1>1, <1>2, <2>2 DEF TrackerInv, Agreement
  <2>4. Len(told[i]) \in 1 .. Len(told[i]) /\ notified[i] \in Level
    BY <1>1, <1>2, <2>3
  <2>5. told[i][Len(told[i])] >= e.level
    BY <1>1, <2>2, <2>3, <2>4 DEF Level, Normal, Critical
  <2>6. NothingSevereUntold'
    BY <1>1, <2>2, <2>4, <2>5 DEF NothingSevereUntold
  <2> QED BY <2>1, <2>6 DEF TrackerInv
<1> QED BY <1>3, <1>4, <1>5, <1>6, <1>7 DEF evaluate_event

\* The inductive invariant holds of every behaviour.
THEOREM TrackerInvariance == Spec => []TrackerInv
<1>1. ASSUME TrackerInv, [Next]_vars PROVE TrackerInv'
  <2>1. ASSUME NEW e \in ScanEvents, Cycle(e) PROVE TrackerInv'
    <3>1. e \in Event
      BY ReadingsAssumption, ScansMakeEvents DEF ScanEvents
    <3> QED BY <1>1, <2>1, <3>1, EvaluateKeeps DEF Cycle
  <2>2. CASE Restart
    BY <1>1, <2>2, RestartKeeps
  <2>3. CASE UNCHANGED vars
    BY <1>1, <2>3 DEF vars, TrackerInv, TypeOK, Agreement, NotifiedOnlyWhenWorse,
                      NothingSevereUntold
  <2> QED BY <1>1, <2>1, <2>2, <2>3 DEF Next
<1> QED BY InitTrackerInv, <1>1, PTL DEF Spec

\* What the user is told of an open incident only gets worse.
THEOREM AtMostOncePerSeverity == Spec => []NotifiedOnlyWhenWorse
<1>1. TrackerInv => NotifiedOnlyWhenWorse
  BY DEF TrackerInv
<1> QED BY <1>1, TrackerInvariance, PTL

\* Deduplication swallows no escalation.
THEOREM EscalationsAreTold == Spec => []NothingSevereUntold
<1>1. TrackerInv => NothingSevereUntold
  BY DEF TrackerInv
<1> QED BY <1>1, TrackerInvariance, PTL

-----------------------------------------------------------------------------
(* Both in one cycle *)

\* The composition does not change its parts: what the theorems say of the engine alone
\* and of the tracker alone holds of both in one cycle of the daemon.
THEOREM HostFollowsItsParts == HostSpec => EngineSpec /\ Spec
<1>1. HostInit => EngineInit /\ Init
  BY DEF HostInit
<1>2. [HostNext]_hostVars => [EngineNext]_reading /\ [Next]_vars
  <2> SUFFICES ASSUME [HostNext]_hostVars PROVE [EngineNext]_reading /\ [Next]_vars
    OBVIOUS
  <2>1. ScansReading => Next
    BY DEF ScansReading, Next, ScanEvents
  <2>2. CASE SensorCycle  BY <2>1, <2>2 DEF SensorCycle, EngineNext
  <2>3. CASE UploadCycle  BY <2>1, <2>3 DEF UploadCycle, EngineNext
  <2>4. CASE AnomalyCycle BY <2>1, <2>4 DEF AnomalyCycle, EngineNext
  <2>5. CASE VerdictCycle BY <2>1, <2>5 DEF VerdictCycle, EngineNext
  <2>6. CASE AgentRestarts BY <2>6 DEF AgentRestarts, Next
  <2>7. CASE UNCHANGED hostVars BY <2>7 DEF hostVars, vars
  <2> QED BY <2>2, <2>3, <2>4, <2>5, <2>6, <2>7 DEF HostNext
<1> QED BY <1>1, <1>2, PTL DEF HostSpec, EngineSpec, Spec

\* What the run checks on a small instance holds for every set of readings, of verdicts and
\* every minimum severity: the conclusions of the engine, and what the user is told of them.
THEOREM HostIsSafe == HostSpec => /\ []OneSignalNeverAlarms
                                  /\ [](NotifiedOnlyWhenWorse /\ NothingSevereUntold)
                                  /\ RisingSignalsNeverLowerTheScore
BY HostFollowsItsParts, AloneIsQuiet, AtMostOncePerSeverity,
   EscalationsAreTold, ScoreIsMonotone, PTL
=============================================================================
