------------------------ MODULE LegacyDashboard_proofs ------------------------
(***************************************************************************)
(* The prototype, for any number of tabs and terminals, any readings, any  *)
(* log an earlier version left and any number of scans.                    *)
(***************************************************************************)
EXTENDS LegacyDashboard, FiniteSetTheorems, WellFoundedInduction, TLAPS

----------------------------------------------------------------------------
(* Induction over what a definition computes from a sequence: a set of      *)
(* natural numbers that is not empty has a least element.                   *)

Less == {pair \in Nat \X Nat : pair[1] < pair[2]}

LEMMA LeastNatural ==
    ASSUME NEW S, S \subseteq Nat, S # {}
    PROVE  \E n \in S : \A m \in S : n <= m
<1>1. IsWellFoundedOn(Less, Nat)
  BY NatLessThanWellFounded DEF OpToRel, Less
<1>2. PICK n \in S : \A m \in S : ~ (<<m, n>> \in Less)
  BY <1>1, WFMin
<1>3. ASSUME NEW m \in S PROVE n <= m
  <2>1. ~ (<<m, n>> \in Less)
    BY <1>2
  <2> QED BY <2>1 DEF Less
<1> QED BY <1>3

\* kept is the recursive function of Dropna, for the first n values.
Keeps(kept, values, missing, n) ==
    kept = [i \in 0 .. n |->
              IF i = 0 THEN <<>>
              ELSE IF values[i] \in missing THEN kept[i - 1]
              ELSE Append(kept[i - 1], values[i])]

LEMMA KeepsExists ==
    ASSUME NEW values, NEW missing, NEW n \in Nat
    PROVE  \E kept : Keeps(kept, values, missing, n)
<1> DEFINE Without == {m \in Nat : ~ \E kept : Keeps(kept, values, missing, m)}
<1>1. SUFFICES ASSUME Without # {} PROVE FALSE
  OBVIOUS
<1>2. PICK m \in Without : \A k \in Without : m <= k
  <2> HIDE DEF Without
  <2>1. Without \subseteq Nat
    BY DEF Without
  <2> QED BY <1>1, <2>1, LeastNatural
<1>3. CASE m = 0
  <2>1. Keeps([i \in 0 .. 0 |-> <<>>], values, missing, 0)
    BY DEF Keeps
  <2> QED BY <1>2, <1>3, <2>1
<1>4. CASE m # 0
  <2>1. m - 1 \in Nat /\ m - 1 \notin Without
    BY <1>2, <1>4
  <2>2. PICK kept : Keeps(kept, values, missing, m - 1)
    BY <2>1
  <2> DEFINE more == [i \in 0 .. m |->
                        IF i < m THEN kept[i]
                        ELSE IF values[m] \in missing THEN kept[m - 1]
                        ELSE Append(kept[m - 1], values[m])]
  <2>3. ASSUME NEW i \in 0 .. m
        PROVE  more[i] = IF i = 0 THEN <<>>
                         ELSE IF values[i] \in missing THEN more[i - 1]
                         ELSE Append(more[i - 1], values[i])
    <3>1. CASE i = m
      BY <1>4, <3>1
    <3>2. CASE i # m
      <4>1. i \in 0 .. m - 1 /\ (i # 0 => i - 1 \in 0 .. m - 1)
        BY <2>3, <3>2
      <4>2. kept[i] = IF i = 0 THEN <<>>
                      ELSE IF values[i] \in missing THEN kept[i - 1]
                      ELSE Append(kept[i - 1], values[i])
        BY <2>2, <4>1 DEF Keeps
      <4> QED BY <4>1, <4>2
    <3> QED BY <3>1, <3>2
  <2>4. Keeps(more, values, missing, m)
    BY <2>3 DEF Keeps
  <2> QED BY <1>2, <2>4
<1> QED BY <1>3, <1>4

\* dropna() drops nothing when nothing is missing, and never makes a column longer.
LEMMA DropnaOf ==
    ASSUME NEW values, NEW missing, NEW S, values \in Seq(S)
    PROVE  /\ Len(Dropna(values, missing)) \in Nat
           /\ Len(Dropna(values, missing)) <= Len(values)
           /\ (\A i \in DOMAIN values : values[i] \notin missing) => Dropna(values, missing) = values
<1> DEFINE N == Len(values)
           kept == CHOOSE f : Keeps(f, values, missing, N)
<1>1. N \in Nat /\ DOMAIN values = 1 .. N
  OBVIOUS
<1>2. Keeps(kept, values, missing, N)
  BY <1>1, KeepsExists
<1>3. Dropna(values, missing) = kept[N]
  BY DEF Dropna, Keeps
<1> HIDE DEF kept
<1>4. /\ kept[0] = <<>>
      /\ \A i \in 1 .. N : kept[i] = IF values[i] \in missing THEN kept[i - 1]
                                    ELSE Append(kept[i - 1], values[i])
  <2>1. \A i \in 0 .. N : kept[i] = IF i = 0 THEN <<>>
                                   ELSE IF values[i] \in missing THEN kept[i - 1]
                                   ELSE Append(kept[i - 1], values[i])
    BY <1>2 DEF Keeps
  <2>2. 0 \in 0 .. N /\ \A i \in 1 .. N : i \in 0 .. N /\ i # 0
    BY <1>1
  <2> QED BY <2>1, <2>2
<1> DEFINE Long == {n \in 0 .. N : ~ (kept[n] \in Seq(S) /\ Len(kept[n]) <= n)}
           Drops == {n \in 0 .. N : kept[n] # SubSeq(values, 1, n)}
<1>5. Long = {}
  <2>1. SUFFICES ASSUME NEW n \in Long, \A m \in Long : n <= m PROVE FALSE
    <3>1. Long \subseteq Nat
      BY <1>1
    <3> HIDE DEF Long
    <3> QED BY <3>1, LeastNatural
  <2>2. n \in 0 .. N /\ (n # 0 => n - 1 \in 0 .. N /\ n - 1 \notin Long /\ n \in 1 .. N)
    BY <1>1, <2>1
  <2>3. n # 0
    <3>1. kept[0] \in Seq(S) /\ Len(kept[0]) <= 0
      BY <1>4
    <3> QED BY <2>1, <3>1
  <2>4. kept[n - 1] \in Seq(S) /\ Len(kept[n - 1]) <= n - 1
    BY <2>2, <2>3
  <2>5. values[n] \in S /\ n \in 1 .. N
    BY <1>1, <2>2, <2>3
  <2>6. kept[n] = kept[n - 1] \/ kept[n] = Append(kept[n - 1], values[n])
    BY <1>4, <2>5
  <2>7. n \in Nat
    BY <1>1, <2>2
  <2>8. kept[n] \in Seq(S) /\ Len(kept[n]) <= n
    <3>1. ASSUME NEW q \in Seq(S), NEW v \in S, Len(q) <= n - 1
          PROVE  /\ q \in Seq(S) /\ Len(q) <= n
                 /\ Append(q, v) \in Seq(S) /\ Len(Append(q, v)) <= n
      BY <2>7, <3>1
    <3>2. /\ Append(kept[n - 1], values[n]) \in Seq(S)
          /\ Len(Append(kept[n - 1], values[n])) <= n
          /\ Len(kept[n - 1]) <= n
      BY <2>4, <2>5, <3>1
    <3> QED BY <2>4, <2>6, <3>2
  <2> QED BY <2>1, <2>8
<1>6. ASSUME \A i \in DOMAIN values : values[i] \notin missing
      PROVE  Drops = {}
  <2>1. SUFFICES ASSUME NEW n \in Drops, \A m \in Drops : n <= m PROVE FALSE
    <3>1. Drops \subseteq Nat
      BY <1>1
    <3> HIDE DEF Drops
    <3> QED BY <3>1, LeastNatural
  <2>2. n \in 0 .. N /\ (n # 0 => n - 1 \in 0 .. N /\ n - 1 \notin Drops /\ n \in 1 .. N)
    BY <1>1, <2>1
  <2>3. n # 0
    <3>1. kept[0] = SubSeq(values, 1, 0)
      BY <1>4
    <3> QED BY <2>1, <3>1
  <2>4. kept[n - 1] = SubSeq(values, 1, n - 1)
    BY <2>2, <2>3
  <2>5. kept[n] = Append(SubSeq(values, 1, n - 1), values[n])
    <3>1. n \in 1 .. N /\ values[n] \notin missing
      BY <1>1, <1>6, <2>2, <2>3
    <3> QED BY <1>4, <2>4, <3>1
  <2>6. Append(SubSeq(values, 1, n - 1), values[n]) = SubSeq(values, 1, n)
    BY <1>1, <2>2, <2>3
  <2> QED BY <2>1, <2>5, <2>6
<1>7. N \in 0 .. N
  BY <1>1
<1>8. SubSeq(values, 1, N) = values
  BY <1>1
<1> QED BY <1>3, <1>5, <1>6, <1>7, <1>8

----------------------------------------------------------------------------
(* The ladders *)

Reached(ladder, value) ==
    {j \in DOMAIN ladder : value >= ladder[j].from} \cup {Len(ladder)}

\* The first step that the value reaches is the one that counts.
LEMMA RungIs ==
    ASSUME NEW ladder, NEW value, Reached(ladder, value) \subseteq Nat,
           NEW i \in Reached(ladder, value), \A j \in Reached(ladder, value) : i <= j
    PROVE  Rung(ladder, value) = ladder[i]
<1> DEFINE reached == Reached(ladder, value)
<1>1. i \in reached /\ reached \subseteq Nat /\ \A j \in reached : i <= j
  OBVIOUS
<1> HIDE DEF reached
<1>2. \A k \in reached : (\A j \in reached : k <= j) => k = i
  BY <1>1
<1>3. (CHOOSE k \in reached : \A j \in reached : k <= j) = i
  BY <1>1, <1>2
<1> QED BY <1>3 DEF Rung, Reached, reached

LEMMA FourSteps ==
    ASSUME NEW a, NEW b, NEW c, NEW d, NEW value
    PROVE  Rung(<<a, b, c, d>>, value) =
               IF value >= a.from THEN a ELSE IF value >= b.from THEN b ELSE
               IF value >= c.from THEN c ELSE d
<1> DEFINE ladder == <<a, b, c, d>>
           reached == Reached(ladder, value)
<1>1. /\ reached \subseteq 1 .. 4 /\ 4 \in reached
      /\ 1 \in reached <=> value >= a.from
      /\ 2 \in reached <=> value >= b.from
      /\ 3 \in reached <=> value >= c.from
  BY DEF Reached
<1>2. ladder[1] = a /\ ladder[2] = b /\ ladder[3] = c /\ ladder[4] = d
  OBVIOUS
<1>3. \A i \in reached : (\A j \in reached : i <= j) => Rung(ladder, value) = ladder[i]
  <2> HIDE DEF ladder, reached
  <2> QED BY <1>1, RungIs DEF reached
<1> HIDE DEF ladder, reached
<1>4. CASE 1 \in reached
  <2>1. \A j \in reached : 1 <= j
    BY <1>1, <1>4
  <2>2. Rung(ladder, value) = a
    BY <1>2, <1>3, <1>4, <2>1
  <2> QED BY <1>1, <1>4, <2>2 DEF ladder
<1>5. CASE 1 \notin reached /\ 2 \in reached
  <2>1. \A j \in reached : 2 <= j
    BY <1>1, <1>5
  <2>2. Rung(ladder, value) = b
    BY <1>2, <1>3, <1>5, <2>1
  <2> QED BY <1>1, <1>5, <2>2 DEF ladder
<1>6. CASE 1 \notin reached /\ 2 \notin reached /\ 3 \in reached
  <2>1. \A j \in reached : 3 <= j
    BY <1>1, <1>6
  <2>2. Rung(ladder, value) = c
    BY <1>2, <1>3, <1>6, <2>1
  <2> QED BY <1>1, <1>6, <2>2 DEF ladder
<1>7. CASE 1 \notin reached /\ 2 \notin reached /\ 3 \notin reached /\ 4 \in reached
  <2>1. \A j \in reached : 4 <= j
    BY <1>1, <1>7
  <2>2. Rung(ladder, value) = d
    BY <1>2, <1>3, <1>7, <2>1
  <2> QED BY <1>1, <1>7, <2>2 DEF ladder
<1> QED BY <1>1, <1>4, <1>5, <1>6, <1>7

LEMMA FiveSteps ==
    ASSUME NEW a, NEW b, NEW c, NEW d, NEW e, NEW value
    PROVE  Rung(<<a, b, c, d, e>>, value) =
               IF value >= a.from THEN a ELSE IF value >= b.from THEN b ELSE
               IF value >= c.from THEN c ELSE IF value >= d.from THEN d ELSE e
<1> DEFINE ladder == <<a, b, c, d, e>>
           reached == Reached(ladder, value)
<1>1. /\ reached \subseteq 1 .. 5 /\ 5 \in reached
      /\ 1 \in reached <=> value >= a.from
      /\ 2 \in reached <=> value >= b.from
      /\ 3 \in reached <=> value >= c.from
      /\ 4 \in reached <=> value >= d.from
  BY DEF Reached
<1>2. ladder[1] = a /\ ladder[2] = b /\ ladder[3] = c /\ ladder[4] = d /\ ladder[5] = e
  OBVIOUS
<1>3. \A i \in reached : (\A j \in reached : i <= j) => Rung(ladder, value) = ladder[i]
  <2> HIDE DEF ladder, reached
  <2> QED BY <1>1, RungIs DEF reached
<1> HIDE DEF ladder, reached
<1>4. CASE 1 \in reached
  <2>1. \A j \in reached : 1 <= j
    BY <1>1, <1>4
  <2>2. Rung(ladder, value) = a
    BY <1>2, <1>3, <1>4, <2>1
  <2> QED BY <1>1, <1>4, <2>2 DEF ladder
<1>5. CASE 1 \notin reached /\ 2 \in reached
  <2>1. \A j \in reached : 2 <= j
    BY <1>1, <1>5
  <2>2. Rung(ladder, value) = b
    BY <1>2, <1>3, <1>5, <2>1
  <2> QED BY <1>1, <1>5, <2>2 DEF ladder
<1>6. CASE 1 \notin reached /\ 2 \notin reached /\ 3 \in reached
  <2>1. \A j \in reached : 3 <= j
    BY <1>1, <1>6
  <2>2. Rung(ladder, value) = c
    BY <1>2, <1>3, <1>6, <2>1
  <2> QED BY <1>1, <1>6, <2>2 DEF ladder
<1>7. CASE 1 \notin reached /\ 2 \notin reached /\ 3 \notin reached /\ 4 \in reached
  <2>1. \A j \in reached : 4 <= j
    BY <1>1, <1>7
  <2>2. Rung(ladder, value) = d
    BY <1>2, <1>3, <1>7, <2>1
  <2> QED BY <1>1, <1>7, <2>2 DEF ladder
<1>8. CASE 1 \notin reached /\ 2 \notin reached /\ 3 \notin reached /\ 4 \notin reached /\ 5 \in reached
  <2>1. \A j \in reached : 5 <= j
    BY <1>1, <1>8
  <2>2. Rung(ladder, value) = e
    BY <1>2, <1>3, <1>8, <2>1
  <2> QED BY <1>1, <1>8, <2>2 DEF ladder
<1> QED BY <1>1, <1>4, <1>5, <1>6, <1>7, <1>8

\* The engine's ladder, that of the display and that of the status line have the same
\* thresholds: one score has one verdict.
LEMMA Bands ==
    ASSUME NEW score
    PROVE  /\ Rung(RiskLadder, score).label = BandForScore(score)
           /\ ScanStatus(BandForScore(score)) = HealthSummary(score)
           /\ BandForScore(score) \in {"CRITICAL", "HIGH", "MEDIUM", "LOW", "NORMAL"}
           /\ BandForScore(score) = "CRITICAL" => score >= 80
<1> DEFINE Five(a, b, c, d, e) ==
        IF score >= 80 THEN a ELSE IF score >= 55 THEN b
        ELSE IF score >= 25 THEN c ELSE IF score >= 10 THEN d ELSE e
<1>1. ASSUME NEW a, NEW b, NEW c, NEW d, NEW e
      PROVE  Rung(<<Label(80, a), Label(55, b), Label(25, c), Label(10, d), Label(0, e)>>,
                  score).label = Five(a, b, c, d, e)
  BY FiveSteps DEF Label, Step
<1>2. /\ Rung(RiskLadder, score).label = Five("CRITICAL", "HIGH", "MEDIUM", "LOW", "NORMAL")
      /\ BandForScore(score) = Five("CRITICAL", "HIGH", "MEDIUM", "LOW", "NORMAL")
      /\ HealthSummary(score) =
             Five("CRITICAL", "HIGH RISK", "ATTENTION", "MONITORING", "PROTECTED")
  <2> HIDE DEF Five
  <2>1. Rung(<<Label(80, "CRITICAL"), Label(55, "HIGH"), Label(25, "MEDIUM"), Label(10, "LOW"),
               Label(0, "NORMAL")>>, score).label =
            Five("CRITICAL", "HIGH", "MEDIUM", "LOW", "NORMAL")
    BY <1>1
  <2>2. Rung(<<Label(80, "CRITICAL"), Label(55, "HIGH RISK"), Label(25, "ATTENTION"),
               Label(10, "MONITORING"), Label(0, "PROTECTED")>>, score).label =
            Five("CRITICAL", "HIGH RISK", "ATTENTION", "MONITORING", "PROTECTED")
    BY <1>1
  <2> QED BY <2>1, <2>2, Zenon DEF RiskLadder, RiskBands, BandForScore, HealthSummary
<1> QED BY <1>2 DEF ScanStatus

\* What looks like an exfiltration scores at least 25, and without a history to compare
\* the processes with, a score stays below 80.
LEMMA VerdictOfReading ==
    ASSUME NEW reading, NEW anomaly \in BOOLEAN, NEW history
    PROVE  LET verdict == PrivacyRisk(reading, anomaly, history)
           IN  /\ verdict.risk = BandForScore(verdict.score)
               /\ verdict.exfiltration => verdict.privacy_event
               /\ history <= 0 => verdict.risk # "CRITICAL"
<1> DEFINE network == ClassifyNetwork(reading.net)
           process == ClassifyProcesses(reading.procs, history)
           connection == ClassifyConnections(reading.remote)
           score == Score(anomaly, network, process, connection)
<1>1. /\ network.points \in {0, 10, 22, 30}
      /\ network.label \in {"HIGH", "VERY_HIGH"} => network.points \in {22, 30}
  BY FourSteps DEF ClassifyNetwork, NetworkLadder, Step
<1>2. /\ connection.points \in {0, 2, 5, 8}
      /\ connection.label \in {"HIGH", "VERY_HIGH"} => connection.points \in {5, 8}
  BY FourSteps DEF ClassifyConnections, ConnectionLadder, Step
<1>3. /\ process.points \in {0, 7, 15, 20}
      /\ process.label \in {"WATCH", "ELEVATED", "VERY_HIGH"} => process.points \in {7, 15, 20}
      /\ history <= 0 => process.points = 0
  <2>1. ASSUME NEW value
        PROVE  LET step == Rung(ProcessLadder, value)
               IN  /\ step.points \in {0, 7, 15, 20}
                   /\ step.label \in {"WATCH", "ELEVATED", "VERY_HIGH"} =>
                          step.points \in {7, 15, 20}
    BY FourSteps DEF ProcessLadder, Step
  <2>2. Rung(ProcessLadder, 0).points = 0
    BY FourSteps DEF ProcessLadder, Step
  <2> QED BY <2>1, <2>2 DEF ClassifyProcesses
<1>4. PrivacyRisk(reading, anomaly, history).score = score
  BY DEF PrivacyRisk
<1>5. PrivacyRisk(reading, anomaly, history).risk = Rung(RiskLadder, score).label
  BY DEF PrivacyRisk
<1>6. /\ PrivacyRisk(reading, anomaly, history).exfiltration =>
             /\ network.label \in {"HIGH", "VERY_HIGH"}
             /\ \/ anomaly
                \/ process.label \in {"WATCH", "ELEVATED", "VERY_HIGH"}
                \/ connection.label \in {"HIGH", "VERY_HIGH"}
      /\ PrivacyRisk(reading, anomaly, history).exfiltration /\ score >= 25 =>
             PrivacyRisk(reading, anomaly, history).privacy_event
  BY DEF PrivacyRisk
<1>7. score = Clip((IF anomaly THEN 30 ELSE 0) + network.points + process.points
                     + connection.points)
  BY DEF Score
<1> HIDE DEF network, process, connection, score
<1>8. history <= 0 => ~ (score >= 80)
  BY <1>1, <1>2, <1>3, <1>7 DEF Clip
<1>9. PrivacyRisk(reading, anomaly, history).exfiltration => score >= 25
  BY <1>1, <1>2, <1>3, <1>6, <1>7 DEF Clip
<1> QED BY <1>4, <1>5, <1>6, <1>8, <1>9, Bands

----------------------------------------------------------------------------
(* Sequences of rows, of which nothing else is known *)

IsSeq(s) == s \in Seq({s[i] : i \in DOMAIN s})

LEMMA SeqIs ==
    ASSUME NEW s, IsSeq(s)
    PROVE  Len(s) \in Nat /\ DOMAIN s = 1 .. Len(s) /\ s = [i \in 1 .. Len(s) |-> s[i]]
BY DEF IsSeq

LEMMA SeqOf ==
    ASSUME NEW s, NEW n \in Nat, s = [i \in 1 .. n |-> s[i]]
    PROVE  IsSeq(s) /\ Len(s) = n /\ DOMAIN s = 1 .. n
<1>1. DOMAIN s = 1 .. n
  OBVIOUS
<1> DEFINE S == {s[i] : i \in DOMAIN s}
<1>2. \A i \in 1 .. n : s[i] \in S
  BY <1>1
<1> HIDE DEF S
<1>3. [i \in 1 .. n |-> s[i]] \in Seq(S) /\ Len([i \in 1 .. n |-> s[i]]) = n
  BY <1>2
<1> QED BY <1>1, <1>3 DEF IsSeq, S

LEMMA SeqIn == ASSUME NEW S, NEW s \in Seq(S) PROVE IsSeq(s)
<1>1. Len(s) \in Nat /\ s = [i \in 1 .. Len(s) |-> s[i]]
  OBVIOUS
<1> QED BY <1>1, SeqOf

LEMMA Concat ==
    ASSUME NEW s, NEW t, IsSeq(s), IsSeq(t)
    PROVE  /\ IsSeq(s \o t) /\ Len(s \o t) = Len(s) + Len(t)
           /\ \A i \in 1 .. Len(s) + Len(t) :
                 (s \o t)[i] = IF i <= Len(s) THEN s[i] ELSE t[i - Len(s)]
<1> DEFINE S == {s[i] : i \in DOMAIN s} \cup {t[i] : i \in DOMAIN t}
<1>1. s \in Seq(S) /\ t \in Seq(S)
  <2>1. /\ \A i \in 1 .. Len(s) : s[i] \in S
        /\ \A i \in 1 .. Len(t) : t[i] \in S
    BY SeqIs
  <2> HIDE DEF S
  <2>2. /\ [i \in 1 .. Len(s) |-> s[i]] \in Seq(S)
        /\ [i \in 1 .. Len(t) |-> t[i]] \in Seq(S)
    BY <2>1, SeqIs
  <2> QED BY <2>2, SeqIs
<1> HIDE DEF S
<1>2. /\ s \o t \in Seq(S) /\ Len(s \o t) = Len(s) + Len(t)
      /\ \A i \in 1 .. Len(s) + Len(t) :
            (s \o t)[i] = IF i <= Len(s) THEN s[i] ELSE t[i - Len(s)]
  BY <1>1
<1> QED BY <1>2, SeqIn

LEMMA Part ==
    ASSUME NEW s, IsSeq(s), NEW m \in Nat \ {0}, NEW n \in 0 .. Len(s)
    PROVE  LET part == SubSeq(s, m, n)
           IN  /\ IsSeq(part)
               /\ Len(part) = IF m <= n THEN n - m + 1 ELSE 0
               /\ \A i \in 1 .. Len(part) : part[i] = s[m + i - 1] /\ m + i - 1 \in 1 .. Len(s)
<1>1. Len(s) \in Nat /\ n \in Nat
  BY SeqIs
<1> DEFINE k == IF m <= n THEN n - m + 1 ELSE 0
<1>2. k \in Nat /\ \A i \in 1 .. k : m + i - 1 \in 1 .. Len(s)
  BY <1>1
<1>3. SubSeq(s, m, n) = [i \in 1 .. k |-> s[m + i - 1]]
  BY <1>1
<1> HIDE DEF k
<1>4. \A i \in 1 .. k : SubSeq(s, m, n)[i] = s[m + i - 1]
  BY <1>3
<1>5. SubSeq(s, m, n) = [i \in 1 .. k |-> SubSeq(s, m, n)[i]]
  BY <1>3, <1>4
<1>6. IsSeq(SubSeq(s, m, n)) /\ Len(SubSeq(s, m, n)) = k
  BY <1>2, <1>5, SeqOf
<1> QED BY <1>2, <1>4, <1>6 DEF k

----------------------------------------------------------------------------
(* The log file *)

\* A row names its event and has a label; that is the label of its score, and CRITICAL only
\* with a history: the rows of before the first scan of this version are not judged.
GoodRow(old, row) ==
    /\ "event" \in DOMAIN row
    /\ NormalizeRow(row).risk # ""
    /\ row.event \notin LabelledOtherwise(old) =>
           NormalizeRow(row).risk = BandForScore(NormalizeRow(row).score)
    /\ \/ row.event \in {old[i].event : i \in DOMAIN old}
       \/ /\ "risk" \in DOMAIN row
          /\ row.risk = "CRITICAL" => row.event.n + Len(old) > MinHistory

RowsOK(old, rows) == IsSeq(rows) /\ \A i \in DOMAIN rows : GoodRow(old, rows[i])

FileOK(old, file) ==
    /\ DOMAIN file = {"there", "rows", "stamp", "born"}
    /\ file.there \in BOOLEAN /\ file.stamp \in Nat
    /\ RowsOK(old, file.rows)
    /\ IF file.there THEN file.stamp > 0 ELSE file.rows = <<>>

LEMMA EmptyIsSeq == IsSeq(<<>>) /\ Len(<<>>) = 0 /\ DOMAIN <<>> = 1 .. 0
<1>1. <<>> \in Seq({})
  OBVIOUS
<1>2. IsSeq(<<>>)
  BY <1>1, SeqIn
<1> QED BY <1>2, SeqIs

LEMMA AbsentFile == ASSUME NEW old PROVE FileOK(old, Absent)
BY EmptyIsSeq DEF FileOK, RowsOK, Absent

LEMMA Migrated ==
    ASSUME NEW old, NEW row, GoodRow(old, row)
    PROVE  /\ GoodRow(old, MigrateRow(row)) /\ MigrateRow(row).event = row.event
           /\ GoodRow(old, NormalizeRow(row)) /\ NormalizeRow(row).event = row.event
           /\ MigrateRow(row).risk # ""
           /\ row.event \notin LabelledOtherwise(old) =>
                  MigrateRow(row).risk = BandForScore(MigrateRow(row).score)
<1> DEFINE full == NormalizeRow(row)
           part == MigrateRow(row)
<1>1. DOMAIN Defaults = {"risk", "severity", "score", "procs", "health", "privacy_event",
                         "exfiltration"}
  BY DEF Defaults
<1>2. /\ Columns = DOMAIN Defaults \cup {"event"} /\ "risk" \in DOMAIN Defaults
      /\ "score" \in DOMAIN Defaults
  BY <1>1 DEF Columns
<1>3. /\ full = [column \in DOMAIN Defaults \cup DOMAIN row |->
                    IF column \in DOMAIN row THEN row[column] ELSE Defaults[column]]
      /\ part = [column \in Columns |-> full[column]]
  BY DEF NormalizeRow, MigrateRow
<1>4. "event" \in DOMAIN row
  BY DEF GoodRow
<1>5. /\ DOMAIN full = DOMAIN Defaults \cup DOMAIN row /\ DOMAIN part = Columns
      /\ full.event = row.event /\ part.event = row.event
      /\ part.risk = full.risk /\ part.score = full.score
      /\ "risk" \in DOMAIN row => full.risk = row.risk
  BY <1>2, <1>3, <1>4
<1>6. ASSUME NEW values, DOMAIN Defaults \subseteq DOMAIN values
      PROVE  NormalizeRow(values).risk = values.risk /\ NormalizeRow(values).score = values.score
  BY <1>2, <1>6 DEF NormalizeRow
<1>7. /\ NormalizeRow(full).risk = full.risk /\ NormalizeRow(full).score = full.score
      /\ NormalizeRow(part).risk = full.risk /\ NormalizeRow(part).score = full.score
  BY <1>2, <1>5, <1>6
<1> HIDE DEF full, part
<1>8. /\ full.risk # ""
      /\ row.event \notin LabelledOtherwise(old) => full.risk = BandForScore(full.score)
  BY DEF GoodRow, full
<1>9. GoodRow(old, full) /\ GoodRow(old, part)
  BY <1>2, <1>5, <1>7, <1>8 DEF GoodRow
<1> QED BY <1>5, <1>8, <1>9 DEF full, part

LEMMA Loaded ==
    ASSUME NEW old, NEW file, FileOK(old, file)
    PROVE  /\ RowsOK(old, LoadLogs(file)) /\ Len(LoadLogs(file)) = Len(file.rows)
           /\ Events(LoadLogs(file)) = Events(file.rows)
<1>1. /\ IsSeq(file.rows) /\ Len(file.rows) \in Nat /\ DOMAIN file.rows = 1 .. Len(file.rows)
      /\ \A i \in DOMAIN file.rows : GoodRow(old, file.rows[i])
  BY SeqIs DEF FileOK, RowsOK
<1>2. CASE file.there
  <2>1. LoadLogs(file) = [i \in 1 .. Len(file.rows) |-> MigrateRow(file.rows[i])]
    BY <1>1, <1>2 DEF LoadLogs, MigrateLogs
  <2>2. LoadLogs(file) = [i \in 1 .. Len(file.rows) |-> LoadLogs(file)[i]]
    BY <2>1
  <2>3. IsSeq(LoadLogs(file)) /\ Len(LoadLogs(file)) = Len(file.rows)
    BY <1>1, <2>2, SeqOf
  <2>4. \A i \in 1 .. Len(file.rows) :
            /\ GoodRow(old, LoadLogs(file)[i])
            /\ LoadLogs(file)[i].event = file.rows[i].event
    BY <1>1, <2>1, Migrated
  <2> QED BY <1>1, <2>1, <2>3, <2>4 DEF RowsOK, Events
<1>3. CASE ~ file.there
  <2>1. LoadLogs(file) = <<>> /\ file.rows = <<>>
    BY <1>3 DEF LoadLogs, FileOK
  <2> QED BY <1>1, <2>1 DEF RowsOK
<1>4. file.there \in BOOLEAN
  BY DEF FileOK
<1> QED BY <1>2, <1>3, <1>4

LEMMA AppendedRows ==
    ASSUME NEW old, NEW file, FileOK(old, file), NEW row, GoodRow(old, row)
    PROVE  /\ RowsOK(old, Appended(file, row)) /\ Len(Appended(file, row)) = Len(file.rows) + 1
           /\ Events(Appended(file, row)) = Events(file.rows) \o <<row.event>>
<1> DEFINE rows == LoadLogs(file)
           out == Appended(file, row)
           last == <<NormalizeRow(row)>>
           n == Len(rows)
<1>1. /\ RowsOK(old, rows) /\ n = Len(file.rows) /\ Events(rows) = Events(file.rows)
      /\ out = rows \o last
  BY Loaded DEF Appended
<1>2. /\ GoodRow(old, NormalizeRow(row)) /\ NormalizeRow(row).event = row.event
  BY Migrated
<1>3. IsSeq(last) /\ Len(last) = 1 /\ last[1] = NormalizeRow(row)
  <2>1. last = [i \in 1 .. 1 |-> last[i]]
    OBVIOUS
  <2> QED BY <2>1, SeqOf
<1> HIDE DEF rows, out, last, n
<1>4. /\ IsSeq(rows) /\ n \in Nat /\ DOMAIN rows = 1 .. n /\ n = Len(rows)
      /\ \A i \in 1 .. n : GoodRow(old, rows[i])
  BY <1>1, SeqIs DEF RowsOK, n
<1>5. /\ IsSeq(out) /\ Len(out) = n + 1 /\ DOMAIN out = 1 .. n + 1
      /\ \A i \in 1 .. n + 1 : out[i] = IF i <= n THEN rows[i] ELSE NormalizeRow(row)
  <2>1. /\ IsSeq(out) /\ Len(out) = n + 1
        /\ \A i \in 1 .. n + 1 : out[i] = IF i <= n THEN rows[i] ELSE last[i - n]
    <3>1. /\ IsSeq(rows \o last) /\ Len(rows \o last) = Len(rows) + Len(last)
          /\ \A i \in 1 .. Len(rows) + Len(last) :
                (rows \o last)[i] = IF i <= Len(rows) THEN rows[i] ELSE last[i - Len(rows)]
      BY <1>3, <1>4, Concat
    <3> QED BY <1>1, <1>3, <1>4, <3>1
  <2>2. \A i \in 1 .. n + 1 : ~ (i <= n) => i - n = 1
    BY <1>4
  <2> QED BY <1>3, <2>1, <2>2, SeqIs
<1>6. \A i \in 1 .. n + 1 : GoodRow(old, out[i])
  BY <1>2, <1>4, <1>5
<1>7. Events(out) = Events(rows) \o <<row.event>>
  <2>1. Events(rows) = [i \in 1 .. n |-> rows[i].event]
    BY <1>4 DEF Events
  <2>2. IsSeq(Events(rows)) /\ Len(Events(rows)) = n
    <3>1. Events(rows) = [i \in 1 .. n |-> Events(rows)[i]]
      BY <2>1
    <3> QED BY <1>4, <3>1, SeqOf
  <2>3. IsSeq(<<row.event>>) /\ Len(<<row.event>>) = 1 /\ <<row.event>>[1] = row.event
    <3>1. <<row.event>> = [i \in 1 .. 1 |-> <<row.event>>[i]]
      OBVIOUS
    <3> QED BY <3>1, SeqOf
  <2> DEFINE both == Events(rows) \o <<row.event>>
  <2>4. /\ IsSeq(both) /\ Len(both) = n + 1
        /\ \A i \in 1 .. n + 1 : both[i] = IF i <= n THEN Events(rows)[i]
                                           ELSE <<row.event>>[i - n]
    BY <2>2, <2>3, Concat
  <2>5. \A i \in 1 .. n + 1 : both[i] = out[i].event
    <3>1. ASSUME NEW i \in 1 .. n + 1, i <= n PROVE both[i] = out[i].event
      BY <1>4, <1>5, <2>1, <2>4, <3>1
    <3>2. ASSUME NEW i \in 1 .. n + 1, ~ (i <= n) PROVE both[i] = out[i].event
      <4>1. i - n = 1
        BY <1>4, <3>2
      <4> QED BY <1>2, <1>5, <2>3, <2>4, <3>2, <4>1
    <3> QED BY <3>1, <3>2
  <2>6. both = [i \in 1 .. n + 1 |-> both[i]]
    BY <2>4, SeqIs
  <2> HIDE DEF both
  <2>7. Events(out) = [i \in 1 .. n + 1 |-> out[i].event]
    BY <1>5 DEF Events
  <2>8. both = Events(out)
    BY <2>5, <2>6, <2>7
  <2> QED BY <2>8 DEF both
<1> QED BY <1>1, <1>5, <1>6, <1>7 DEF RowsOK, n, out

LEMMA OpenedFile ==
    ASSUME NEW old, NEW file, FileOK(old, file), NEW rows, RowsOK(old, rows),
           NEW after \in OpenedForWriting(file, rows)
    PROVE  /\ FileOK(old, after) /\ after.there /\ after.stamp > file.stamp
           /\ Len(after.rows) \in Nat /\ Len(after.rows) <= Len(rows)
<1>1. PICK k \in {i \in {0, Len(rows) - 1} : i >= 0} :
          after = [there |-> TRUE, rows |-> SubSeq(rows, 1, k), stamp |-> file.stamp + 1,
                   born |-> IF file.there THEN file.born ELSE file.stamp + 1]
  BY DEF OpenedForWriting
<1>2. /\ IsSeq(rows) /\ Len(rows) \in Nat /\ DOMAIN rows = 1 .. Len(rows)
      /\ \A i \in 1 .. Len(rows) : GoodRow(old, rows[i])
  BY SeqIs DEF RowsOK
<1>3. k \in 0 .. Len(rows) /\ k \in Nat
  <2>1. (k = 0 \/ k = Len(rows) - 1) /\ k >= 0
    OBVIOUS
  <2>2. ASSUME NEW n \in Nat PROVE /\ 0 \in 0 .. n /\ 0 \in Nat
                                   /\ n - 1 >= 0 => n - 1 \in 0 .. n /\ n - 1 \in Nat
    OBVIOUS
  <2> QED BY <1>2, <2>1, <2>2, Zenon
<1> DEFINE part == SubSeq(rows, 1, k)
<1>4. /\ IsSeq(part) /\ Len(part) = IF 1 <= k THEN k - 1 + 1 ELSE 0
      /\ \A i \in 1 .. Len(part) : part[i] = rows[1 + i - 1] /\ 1 + i - 1 \in 1 .. Len(rows)
  <2>1. 1 \in Nat \ {0}
    OBVIOUS
  <2> QED BY <1>2, <1>3, <2>1, Part
<1> HIDE DEF part
<1>5. RowsOK(old, part)
  <2>1. DOMAIN part = 1 .. Len(part)
    BY <1>4, SeqIs
  <2> QED BY <1>2, <1>4, <2>1 DEF RowsOK
<1>6. Len(part) \in Nat /\ Len(part) <= Len(rows)
  <2>1. ASSUME NEW n \in Nat, NEW j \in 0 .. n
        PROVE  LET length == IF 1 <= j THEN j - 1 + 1 ELSE 0 IN length \in Nat /\ length <= n
    OBVIOUS
  <2> QED BY <1>2, <1>3, <1>4, <2>1
<1>7. /\ DOMAIN after = {"there", "rows", "stamp", "born"}
      /\ after.there = TRUE /\ after.rows = part /\ after.stamp = file.stamp + 1
  BY <1>1 DEF part
<1>8. file.stamp \in Nat
  BY DEF FileOK
<1>9. after.stamp \in Nat /\ after.stamp > file.stamp /\ after.stamp > 0
  BY <1>7, <1>8
<1>10. FileOK(old, after)
  BY <1>5, <1>7, <1>9, Zenon DEF FileOK
<1> QED BY <1>6, <1>7, <1>9, <1>10, Zenon

\* Writing a file that is still the one that was opened, and holds no more rows than are
\* written, makes it hold these rows.
LEMMA WrittenFile ==
    ASSUME NEW old, NEW file, FileOK(old, file), NEW rows, RowsOK(old, rows), NEW handle
    PROVE  LET after == Written(file, handle, rows)
           IN  /\ FileOK(old, after) /\ Len(after.rows) \in Nat
               /\ Len(after.rows) <= Len(file.rows) \/ Len(after.rows) <= Len(rows)
               /\ after = file \/ after.stamp > file.stamp
               /\ /\ file.there /\ file.born = handle /\ Len(file.rows) <= Len(rows)
                  => after.there /\ after.rows = rows
<1>1. /\ IsSeq(rows) /\ Len(rows) \in Nat /\ DOMAIN rows = 1 .. Len(rows)
      /\ \A i \in 1 .. Len(rows) : GoodRow(old, rows[i])
  BY SeqIs DEF RowsOK
<1>2. /\ IsSeq(file.rows) /\ Len(file.rows) \in Nat /\ DOMAIN file.rows = 1 .. Len(file.rows)
      /\ \A i \in 1 .. Len(file.rows) : GoodRow(old, file.rows[i])
      /\ DOMAIN file = {"there", "rows", "stamp", "born"} /\ file.stamp \in Nat
      /\ file.there \in BOOLEAN
  BY SeqIs DEF RowsOK, FileOK
<1>3. CASE ~ (file.there /\ file.born = handle)
  BY <1>2, <1>3 DEF Written
<1>4. CASE file.there /\ file.born = handle
  <2> DEFINE m == Len(rows)
             rest == SubSeq(file.rows, m + 1, Len(file.rows))
             all == rows \o rest
  <2>1. /\ IsSeq(rest)
        /\ Len(rest) = IF m + 1 <= Len(file.rows) THEN Len(file.rows) - (m + 1) + 1 ELSE 0
        /\ \A i \in 1 .. Len(rest) : /\ rest[i] = file.rows[m + 1 + i - 1]
                                     /\ m + 1 + i - 1 \in 1 .. Len(file.rows)
    <3>1. m + 1 \in Nat \ {0} /\ Len(file.rows) \in 0 .. Len(file.rows)
      BY <1>1, <1>2
    <3> QED BY <1>2, <3>1, Part
  <2> HIDE DEF rest
  <2>2. /\ IsSeq(all) /\ Len(all) = m + Len(rest)
        /\ \A i \in 1 .. m + Len(rest) : all[i] = IF i <= m THEN rows[i] ELSE rest[i - m]
    BY <1>1, <2>1, Concat
  <2>3. /\ Written(file, handle, rows).rows = all
        /\ Written(file, handle, rows).stamp = file.stamp + 1
        /\ Written(file, handle, rows).there = file.there
        /\ DOMAIN Written(file, handle, rows) = {"there", "rows", "stamp", "born"}
    BY <1>2, <1>4 DEF Written, rest
  <2> HIDE DEF all
  <2>4. Len(rest) \in Nat /\ DOMAIN all = 1 .. m + Len(rest)
    BY <2>1, <2>2, SeqIs
  <2>5. ASSUME NEW i \in 1 .. m + Len(rest) PROVE GoodRow(old, all[i])
    <3>1. CASE i <= m
      BY <1>1, <2>2, <3>1
    <3>2. CASE ~ (i <= m)
      <4>1. i - m \in 1 .. Len(rest)
        BY <1>1, <2>4, <3>2
      <4> QED BY <1>2, <2>1, <2>2, <3>2, <4>1
    <3> QED BY <3>1, <3>2
  <2>6. RowsOK(old, all)
    BY <2>2, <2>4, <2>5 DEF RowsOK
  <2>7. /\ Len(all) \in Nat
        /\ Len(all) <= Len(file.rows) \/ Len(all) <= Len(rows)
    BY <1>1, <1>2, <2>1, <2>2, <2>4
  <2>8. Len(file.rows) <= Len(rows) => all = rows
    <3>1. SUFFICES ASSUME Len(file.rows) <= Len(rows) PROVE all = rows
      OBVIOUS
    <3>2. Len(rest) = 0
      BY <1>1, <1>2, <2>1, <3>1
    <3>3. all = [i \in 1 .. m |-> all[i]] /\ \A i \in 1 .. m : all[i] = rows[i]
      BY <1>1, <2>2, <3>2, SeqIs
    <3>4. rows = [i \in 1 .. m |-> rows[i]]
      BY <1>1, SeqIs
    <3> QED BY <3>3, <3>4
  <2> QED BY <1>2, <1>4, <2>3, <2>6, <2>7, <2>8 DEF FileOK
<1> QED BY <1>3, <1>4

LEMMA UnlinkedFile ==
    ASSUME NEW old, NEW file, FileOK(old, file)
    PROVE  /\ FileOK(old, Unlinked(file)) /\ Unlinked(file).stamp > file.stamp
           /\ Unlinked(file).rows = <<>>
BY EmptyIsSeq DEF FileOK, RowsOK, Unlinked, Absent

----------------------------------------------------------------------------
(* Files and scans: what every step leaves of them *)

Fields == {"at", "demo", "ok", "original", "row", "out", "handle", "signature"}
NotScanning == {"idle", "page", "load"}
Logging == {"append", "open", "write"}

\* The three wordings of the verdict of a scan agree.
Agrees(row) ==
    /\ row.exfiltration => row.privacy_event
    /\ SeverityOf(row) = Severity(BandForScore(row.score))
    /\ ScanStatus(row.risk) = HealthSummary(row.score)

WorkOK(old, w) ==
    /\ DOMAIN w = Fields /\ w.at \in Scanning \cup NotScanning /\ w.demo \in BOOLEAN
    /\ FileOK(old, w.original) /\ RowsOK(old, w.out)
    /\ w.at \in Logging => w.ok
    /\ w.at \in Scanning /\ w.ok => GoodRow(old, w.row) /\ Agrees(w.row)

FilesOK ==
    /\ FileOK(before, log) /\ IsSeq(before) /\ scans \in Nat
    /\ DOMAIN work = Actors /\ \A a \in Actors : WorkOK(before, work[a])

OnlyMoves(a) == DOMAIN work' = Actors /\ \A b \in Actors \ {a} : work'[b] = work[b]

\* a goes on with its scan, or has ended it.
Continues(a, at, out, handle) ==
    /\ OnlyMoves(a) /\ DOMAIN work'[a] = Fields
    /\ work'[a].at = at /\ work'[a].out = out /\ work'[a].handle = handle
    /\ work'[a].demo = work[a].demo /\ work'[a].original = work[a].original
    /\ work'[a].row = work[a].row
    /\ work'[a].ok = work[a].ok \/ (work[a].at \in Logging /\ at = "restore")

Ended(a) ==
    /\ OnlyMoves(a) /\ DOMAIN work'[a] = Fields
    /\ work'[a].at \in {"page", "idle"} /\ work'[a].demo = FALSE
    /\ work'[a].out = <<>> /\ work'[a].original = Absent

\* a ended its scan or, after a demonstration, goes on to write the log back.
Appends(a) ==
    \/ work[a].demo /\ Continues(a, "restore", work[a].out, work[a].handle)
    \/ ~ work[a].demo /\ Ended(a)

LEMMA RestingWork ==
    ASSUME NEW at
    PROVE  LET w == [Resting EXCEPT !.at = at]
           IN  /\ DOMAIN w = Fields /\ w.at = at /\ w.out = <<>> /\ w.original = Absent
               /\ w.row = Nothing /\ w.demo = FALSE /\ w.handle = 0
BY DEF Resting, Fields

LEMMA EndsEffect ==
    ASSUME FilesOK, NEW a \in Actors, NEW ok, NEW errors, ScanEnds(a, ok, errors)
    PROVE  Ended(a)
<1>1. DOMAIN work = Actors
  BY DEF FilesOK
<1>2. CASE a \in Sessions
  <2>1. work' = [work EXCEPT ![a] = [Resting EXCEPT !.at = "page"]]
    BY <1>2 DEF ScanEnds, SessionEnds
  <2> QED BY <1>1, <2>1, RestingWork DEF Ended, OnlyMoves
<1>3. CASE a \notin Sessions
  <2>1. work' = [work EXCEPT ![a] = Resting]
    BY <1>3 DEF ScanEnds, TerminalEnds
  <2>2. /\ DOMAIN Resting = Fields /\ Resting.at = "idle" /\ Resting.out = <<>>
        /\ Resting.demo = FALSE /\ Resting.original = Absent
    BY DEF Resting, Fields
  <2> QED BY <1>1, <2>1, <2>2 DEF Ended, OnlyMoves
<1> QED BY <1>2, <1>3

LEMMA AppendsEffect ==
    ASSUME FilesOK, NEW a \in Actors, NEW ok, AfterAppend(a, ok), work[a].at \in Logging
    PROVE  Appends(a)
<1>1. DOMAIN work = Actors /\ DOMAIN work[a] = Fields /\ work[a].demo \in BOOLEAN
  BY DEF FilesOK, WorkOK
<1>2. CASE work[a].demo
  <2>1. work' = [work EXCEPT ![a].at = "restore", ![a].ok = ok]
    BY <1>2 DEF AfterAppend
  <2>2. work'[a] = [work[a] EXCEPT !.at = "restore", !.ok = ok] /\ OnlyMoves(a)
    BY <1>1, <2>1 DEF OnlyMoves
  <2>3. Continues(a, "restore", work[a].out, work[a].handle)
    BY <1>1, <2>2 DEF Continues, Fields
  <2> QED BY <1>2, <2>3 DEF Appends
<1>3. CASE ~ work[a].demo
  BY <1>3, EndsEffect DEF AfterAppend, Appends
<1> QED BY <1>1, <1>2, <1>3

Starts(a, demo, row) ==
    /\ work[a].at = "idle"
    /\ OnlyMoves(a) /\ DOMAIN work'[a] = Fields
    /\ work'[a].at = "append" /\ work'[a].demo = demo
    /\ work'[a].original = IF demo THEN log ELSE Absent
    /\ work'[a].out = <<>> /\ work'[a].row = row /\ work'[a].ok

LEMMA StartEffect ==
    ASSUME FilesOK, NEW a \in Actors, NEW demo \in BOOLEAN, StartsScan(a, demo)
    PROVE  \E reading \in Readings : Starts(a, demo, ScanRow(a, demo, Override(Sensed(reading), demo)))
<1>1. PICK reading \in Readings :
          work' = [work EXCEPT ![a] =
                     [Resting EXCEPT !.at = "append", !.demo = demo,
                                     !.original = IF demo THEN log ELSE Absent,
                                     !.row = ScanRow(a, demo, Override(Sensed(reading), demo))]]
  BY DEF StartsScan
<1>2. DOMAIN work = Actors /\ work[a].at = "idle"
  BY DEF FilesOK, StartsScan
<1>3. ASSUME NEW original, NEW row,
             work' = [work EXCEPT ![a] = [Resting EXCEPT !.at = "append", !.demo = demo,
                                                         !.original = original, !.row = row]]
      PROVE  /\ OnlyMoves(a) /\ DOMAIN work'[a] = Fields
             /\ work'[a].at = "append" /\ work'[a].demo = demo
             /\ work'[a].original = original /\ work'[a].out = <<>> /\ work'[a].row = row
             /\ work'[a].ok
  <2> DEFINE w == [Resting EXCEPT !.at = "append", !.demo = demo, !.original = original,
                                  !.row = row]
  <2>1. /\ DOMAIN w = Fields /\ w.at = "append" /\ w.demo = demo /\ w.original = original
        /\ w.out = <<>> /\ w.row = row /\ w.ok
    BY DEF Resting, Fields
  <2> HIDE DEF w
  <2>2. work' = [work EXCEPT ![a] = w]
    BY <1>3 DEF w
  <2> QED BY <1>2, <2>1, <2>2 DEF OnlyMoves
<1>4. /\ OnlyMoves(a) /\ DOMAIN work'[a] = Fields
      /\ work'[a].at = "append" /\ work'[a].demo = demo
      /\ work'[a].original = (IF demo THEN log ELSE Absent) /\ work'[a].out = <<>>
      /\ work'[a].row = ScanRow(a, demo, Override(Sensed(reading), demo)) /\ work'[a].ok
  BY <1>1, <1>3
<1> QED BY <1>2, <1>4 DEF Starts

LEMMA ReadEffect ==
    ASSUME FilesOK, NEW a \in Actors, NEW failed \in BOOLEAN, ReadsLog(a, failed)
    PROVE  Continues(a, "open", Appended(IF failed THEN Absent ELSE log, work[a].row),
                     work[a].handle)
<1>1. DOMAIN work = Actors /\ DOMAIN work[a] = Fields
  BY DEF FilesOK, WorkOK
<1>2. ASSUME NEW out, work' = [work EXCEPT ![a].at = "open", ![a].out = out]
      PROVE  Continues(a, "open", out, work[a].handle)
  <2>1. work'[a] = [work[a] EXCEPT !.at = "open", !.out = out] /\ OnlyMoves(a)
    BY <1>1, <1>2 DEF OnlyMoves
  <2>2. "ok" \in Fields /\ work'[a].ok = work[a].ok
    BY <1>1, <2>1 DEF Fields
  <2> QED BY <1>1, <2>1, <2>2 DEF Continues, Fields
<1> QED BY <1>2 DEF ReadsLog

LEMMA OpenEffect ==
    ASSUME FilesOK, NEW a \in Actors, NEW rows, NEW at, Opens(a, rows, at)
    PROVE  /\ log' \in OpenedForWriting(log, rows)
           /\ Continues(a, at, work[a].out, log'.born)
<1>1. DOMAIN work = Actors /\ DOMAIN work[a] = Fields
  BY DEF FilesOK, WorkOK
<1>2. ASSUME NEW handle, work' = [work EXCEPT ![a].at = at, ![a].handle = handle]
      PROVE  Continues(a, at, work[a].out, handle)
  <2>1. work'[a] = [work[a] EXCEPT !.at = at, !.handle = handle] /\ OnlyMoves(a)
    BY <1>1, <1>2 DEF OnlyMoves
  <2>2. "ok" \in Fields /\ work'[a].ok = work[a].ok
    BY <1>1, <2>1 DEF Fields
  <2> QED BY <1>1, <2>1, <2>2 DEF Continues, Fields
<1>3. work' = [work EXCEPT ![a].at = at, ![a].handle = log'.born] /\ log' \in OpenedForWriting(log, rows)
  BY DEF Opens
<1> QED BY <1>2, <1>3

\* Steps that are not of a scan: the files stay, and whoever is in a scan stays in it or
\* is stopped with its program.
Calm ==
    /\ log' = log /\ before' = before /\ recorded' = recorded /\ scans' = scans
    /\ DOMAIN work' = Actors
    /\ \A a \in Actors :
          \/ work'[a] = work[a]
          \/ /\ DOMAIN work'[a] = Fields /\ work'[a].at \in NotScanning /\ work'[a].demo \in BOOLEAN
             /\ work'[a].out = work[a].out \/ work'[a].out = <<>>
             /\ work'[a].original = work[a].original \/ work'[a].original = Absent
    /\ intact' => intact /\ \A a \in Actors : InScan(a) => work'[a] = work[a]

CalmStep ==
    \/ \E p \in Programs : TrainsModel(p) \/ EmptiesBaseline(p) \/ SavesBaseline(p) \/ Dies(p)
    \/ \E s \in Sessions : PageStep(s)
    \/ \E t \in DOMAIN live : SnapshotExpires(t)
    \/ \E probes \in SUBSET Fallible : HostChanges(probes)
    \/ UNCHANGED vars

LEMMA SessionsAreActors == Sessions \subseteq Actors
BY DEF Actors

LEMMA GoesEffect ==
    ASSUME FilesOK, NEW a \in Actors, NEW at \in NotScanning, Goes(a, at)
    PROVE  /\ DOMAIN work' = Actors /\ \A b \in Actors \ {a} : work'[b] = work[b]
           /\ DOMAIN work'[a] = Fields /\ work'[a].at = at /\ work'[a].demo = work[a].demo
           /\ work'[a].out = work[a].out /\ work'[a].original = work[a].original
<1>1. DOMAIN work = Actors /\ DOMAIN work[a] = Fields
  BY DEF FilesOK, WorkOK
<1>2. work'[a] = [work[a] EXCEPT !.at = at] /\ OnlyMoves(a)
  BY <1>1 DEF Goes, OnlyMoves
<1> QED BY <1>1, <1>2 DEF OnlyMoves, Fields

LEMMA CalmEffect == ASSUME FilesOK, CalmStep PROVE Calm
<1>1. /\ DOMAIN work = Actors
      /\ \A a \in Actors : DOMAIN work[a] = Fields /\ work[a].demo \in BOOLEAN
  BY DEF FilesOK, WorkOK
<1>2. ASSUME log' = log, before' = before, recorded' = recorded, scans' = scans, work' = work,
             intact' = intact
      PROVE  Calm
  BY <1>1, <1>2 DEF Calm
<1>3. ASSUME NEW s \in Sessions, NEW at \in NotScanning, ~ InScan(s), Goes(s, at),
             log' = log, before' = before, recorded' = recorded, scans' = scans, intact' = intact
      PROVE  Calm
  <2>1. s \in Actors
    BY SessionsAreActors
  <2>2. \A a \in Actors : a # s => work'[a] = work[a]
    BY <1>3, <2>1, GoesEffect
  <2>3. /\ DOMAIN work' = Actors /\ DOMAIN work'[s] = Fields /\ work'[s].at = at
        /\ work'[s].demo \in BOOLEAN /\ work'[s].out = work[s].out
        /\ work'[s].original = work[s].original
    BY <1>1, <1>3, <2>1, GoesEffect
  <2> QED BY <1>3, <2>1, <2>2, <2>3 DEF Calm
<1>4. ASSUME NEW s \in Sessions, NEW at \in NotScanning, NEW signature, ~ InScan(s),
             work' = [work EXCEPT ![s] = [Resting EXCEPT !.at = at]]
                \/ work' = [work EXCEPT ![s] = Resting]
                \/ work' = [work EXCEPT ![s].at = at, ![s].signature = signature],
             log' = log, before' = before, recorded' = recorded, scans' = scans, intact' = intact
      PROVE  Calm
  <2>1. s \in Actors /\ DOMAIN work[s] = Fields /\ work[s].demo \in BOOLEAN
    BY <1>1, SessionsAreActors
  <2>2. /\ DOMAIN work' = Actors /\ \A a \in Actors : a # s => work'[a] = work[a]
        /\ \/ work'[s] = [Resting EXCEPT !.at = at] \/ work'[s] = Resting
           \/ work'[s] = [work[s] EXCEPT !.at = at, !.signature = signature]
    BY <1>1, <1>4, <2>1
  <2>3. /\ DOMAIN work'[s] = Fields /\ work'[s].at \in NotScanning
        /\ work'[s].demo \in BOOLEAN /\ work'[s].out \in {work[s].out, <<>>}
        /\ work'[s].original \in {work[s].original, Absent}
    <3>1. CASE work'[s] = [Resting EXCEPT !.at = at]
      <4>1. /\ DOMAIN work'[s] = Fields /\ work'[s].at = at /\ work'[s].demo = FALSE
            /\ work'[s].out = <<>> /\ work'[s].original = Absent
        BY <3>1, RestingWork
      <4> QED BY <4>1
    <3>2. CASE work'[s] = Resting
      BY <3>2 DEF Resting, Fields, NotScanning
    <3>3. CASE work'[s] = [work[s] EXCEPT !.at = at, !.signature = signature]
      BY <1>4, <2>1, <3>3 DEF Fields
    <3> QED BY <2>2, <3>1, <3>2, <3>3
  <2> QED BY <1>4, <2>1, <2>2, <2>3 DEF Calm
<1>5. ASSUME NEW s \in Sessions, PageStep(s) PROVE Calm
  <2>1. CASE Browses(s) \/ ClearsResult(s) \/ Refreshes(s) \/ Retrains(s)
    <3>1. Clicks(s)
      BY <2>1 DEF Browses, ClearsResult, Refreshes, Retrains
    <3> QED BY <1>3, <3>1 DEF Clicks, files, ghosts, InScan, Scanning, NotScanning
  <2>2. CASE BuildsContext(s)
    <3>1. /\ \/ work' = [work EXCEPT ![s].at = "load", ![s].signature = Signature(log)]
             \/ Goes(s, "idle")
          /\ log' = log /\ before' = before /\ recorded' = recorded /\ scans' = scans
          /\ intact' = intact /\ ~ InScan(s)
      BY <2>2 DEF BuildsContext, files, ghosts, InScan, Scanning
    <3> QED BY <1>3, <1>4, <3>1 DEF NotScanning
  <2>3. CASE \E failed \in BOOLEAN : LoadsLog(s, failed)
    BY <1>4, <2>3 DEF LoadsLog, files, ghosts, InScan, Scanning, NotScanning
  <2> QED BY <1>5, <2>1, <2>2, <2>3 DEF PageStep
<1>6. ASSUME NEW p \in Programs, Dies(p) PROVE Calm
  <2>1. /\ work' = [a \in Actors |-> IF Process(a) = p THEN Resting ELSE work[a]]
        /\ log' = log /\ before' = before /\ recorded' = recorded /\ scans' = scans
        /\ intact' = (intact /\ \A a \in Actors : Process(a) = p => ~ InScan(a))
    BY <1>6 DEF Dies, files
  <2>2. /\ DOMAIN Resting = Fields /\ Resting.at \in NotScanning /\ Resting.demo \in BOOLEAN
        /\ Resting.out = <<>> /\ Resting.original = Absent
    BY DEF Resting, Fields, NotScanning
  <2>3. ASSUME NEW a \in Actors
        PROVE  /\ \/ work'[a] = work[a]
                  \/ /\ DOMAIN work'[a] = Fields /\ work'[a].at \in NotScanning
                     /\ work'[a].demo \in BOOLEAN
                     /\ work'[a].out = work[a].out \/ work'[a].out = <<>>
                     /\ work'[a].original = work[a].original \/ work'[a].original = Absent
               /\ intact' => (InScan(a) => work'[a] = work[a])
    BY <2>1, <2>2
  <2> QED BY <2>1, <2>3 DEF Calm
<1>7. ASSUME NEW p \in Programs, TrainsModel(p) \/ EmptiesBaseline(p) \/ SavesBaseline(p)
      PROVE  Calm
  BY <1>2, <1>7 DEF TrainsModel, EmptiesBaseline, SavesBaseline, files, ghosts
<1>8. ASSUME NEW t \in DOMAIN live, SnapshotExpires(t) PROVE Calm
  BY <1>2, <1>8 DEF SnapshotExpires, files, ghosts
<1>9. ASSUME NEW probes \in SUBSET Fallible, HostChanges(probes) PROVE Calm
  BY <1>2, <1>9 DEF HostChanges, files, ghosts
<1>10. CASE UNCHANGED vars
  BY <1>2, <1>10 DEF vars, files, ghosts
<1> QED BY <1>5, <1>6, <1>7, <1>8, <1>9, <1>10 DEF CalmStep

----------------------------------------------------------------------------
(* The steps of a scan *)

ScanStarts(a) ==
    /\ \E demo \in BOOLEAN : \E reading \in Readings :
          Starts(a, demo, ScanRow(a, demo, Override(Sensed(reading), demo)))
    /\ scans' = scans + 1 /\ log' = log /\ recorded' = recorded
    /\ intact' => intact /\ AtRest

\* A demonstration that cannot capture the log is over before it scans.
ScanMisses(a) ==
    /\ work[a].at = "idle" /\ OnlyMoves(a) /\ DOMAIN work'[a] = Fields
    /\ work'[a].at = "restore" /\ work'[a].demo = TRUE /\ ~ work'[a].ok
    /\ work'[a].original = Absent /\ work'[a].out = <<>>
    /\ scans' = scans /\ log' = log /\ recorded' = recorded /\ ~ intact'

ScanReads(a) ==
    /\ work[a].at = "append"
    /\ \E file \in {log, Absent} :
          /\ Continues(a, "open", Appended(file, work[a].row), work[a].handle)
          /\ intact' => intact /\ file = log
    /\ scans' = scans /\ log' = log /\ recorded' = recorded

ScanOpens(a, from, rows, at) ==
    /\ work[a].at = from
    /\ log' \in OpenedForWriting(log, rows) /\ Continues(a, at, work[a].out, log'.born)
    /\ scans' = scans /\ recorded' = recorded /\ intact' = intact

ScanWrites(a) ==
    /\ work[a].at = "write"
    /\ log' = Written(log, work[a].handle, work[a].out) /\ Appends(a)
    /\ recorded' = IF work[a].demo THEN recorded ELSE Append(recorded, work[a].row.event)
    /\ scans' = scans /\ intact' = intact

ScanFails(a) ==
    /\ work[a].at \in {"open", "write"} /\ Appends(a)
    /\ log' = log /\ scans' = scans /\ recorded' = recorded
    /\ intact' => intact /\ (work[a].at = "open" \/ work[a].demo)

ScanRestores(a) ==
    /\ \/ work[a].at = "rewrite" /\ log' = Written(log, work[a].handle, work[a].original.rows)
       \/ /\ work[a].at = "restore" /\ ~ work[a].original.there
          /\ log' = IF log.there THEN Unlinked(log) ELSE log
       \/ work[a].at \in {"restore", "rewrite"} /\ log' = log /\ ~ intact'
    /\ Ended(a)
    /\ scans' = scans /\ recorded' = recorded
    /\ intact' => intact

Scans(a) ==
    /\ before' = before
    /\ \/ ScanStarts(a) \/ ScanMisses(a) \/ ScanReads(a)
       \/ ScanOpens(a, "open", work[a].out, "write")
       \/ ScanWrites(a) \/ ScanFails(a)
       \/ ScanOpens(a, "restore", work[a].original.rows, "rewrite")
       \/ ScanRestores(a)

LEMMA ScanEffect == ASSUME FilesOK, NEW a \in Actors, ScanStep(a) PROVE Scans(a)
<1>1. CASE \E demo \in BOOLEAN : StartsScan(a, demo)
  <2>1. PICK demo \in BOOLEAN : StartsScan(a, demo)
    BY <1>1
  <2>2. \E reading \in Readings :
            Starts(a, demo, ScanRow(a, demo, Override(Sensed(reading), demo)))
    BY <2>1, StartEffect
  <2>3. /\ scans' = scans + 1 /\ log' = log /\ recorded' = recorded /\ before' = before
        /\ intact' => intact /\ AtRest
    BY <2>1 DEF StartsScan, files, AtRest
  <2> QED BY <2>2, <2>3 DEF Scans, ScanStarts
<1>2. CASE \E failed \in BOOLEAN : ReadsLog(a, failed)
  <2>1. PICK failed \in BOOLEAN : ReadsLog(a, failed)
    BY <1>2
  <2> DEFINE file == IF failed THEN Absent ELSE log
  <2>2. Continues(a, "open", Appended(file, work[a].row), work[a].handle)
    BY <2>1, ReadEffect
  <2>3. /\ work[a].at = "append" /\ scans' = scans /\ log' = log /\ recorded' = recorded
        /\ before' = before /\ intact' = (intact /\ ~ failed)
    BY <2>1 DEF ReadsLog, files
  <2>4. file \in {log, Absent} /\ (~ failed => file = log)
    OBVIOUS
  <2> HIDE DEF file
  <2> QED BY <2>2, <2>3, <2>4 DEF Scans, ScanReads
<1>3. CASE OpensLog(a)
  BY <1>3, OpenEffect DEF OpensLog, Scans, ScanOpens, ghosts
<1>4. CASE WritesLog(a)
  BY <1>4, AppendsEffect DEF WritesLog, Scans, ScanWrites, Logging
<1>5. CASE AppendFails(a) \/ AppendBreaks(a)
  <2>1. work[a].at \in {"open", "write"} /\ AfterAppend(a, FALSE)
    BY <1>5 DEF AppendFails, AppendBreaks
  <2>2. Appends(a)
    BY <2>1, AppendsEffect DEF Logging
  <2>3. /\ before' = before /\ log' = log /\ scans' = scans /\ recorded' = recorded
        /\ intact' => intact /\ (work[a].at = "open" \/ work[a].demo)
    <3>1. CASE AppendFails(a)
      BY <3>1 DEF AppendFails, files, ghosts
    <3>2. CASE AppendBreaks(a)
      BY <3>2 DEF AppendBreaks, files
    <3> QED BY <1>5, <3>1, <3>2
  <2> QED BY <2>1, <2>2, <2>3 DEF Scans, ScanFails
<1>6. CASE RestoreOpens(a)
  BY <1>6, OpenEffect DEF RestoreOpens, Scans, ScanOpens, ghosts
<1>7. CASE RestoreWrites(a)
  BY <1>7, EndsEffect DEF RestoreWrites, Scans, ScanRestores, ghosts
<1>8. CASE RestoreUnlinks(a)
  BY <1>8, EndsEffect DEF RestoreUnlinks, Scans, ScanRestores, ghosts
<1>9. CASE RestoreFails(a)
  BY <1>9, EndsEffect DEF RestoreFails, Scans, ScanRestores, files
<1>10. CASE CaptureFails(a)
  <2>1. work' = [work EXCEPT ![a] = [Resting EXCEPT !.at = "restore", !.demo = TRUE, !.ok = FALSE]]
    BY <1>10 DEF CaptureFails
  <2> DEFINE w == [Resting EXCEPT !.at = "restore", !.demo = TRUE, !.ok = FALSE]
  <2>2. /\ DOMAIN w = Fields /\ w.at = "restore" /\ w.demo = TRUE /\ ~ w.ok
        /\ w.original = Absent /\ w.out = <<>>
    BY DEF Resting, Fields
  <2> HIDE DEF w
  <2>3. OnlyMoves(a) /\ work'[a] = w
    BY <2>1 DEF FilesOK, OnlyMoves, w
  <2> QED BY <1>10, <2>2, <2>3 DEF CaptureFails, Scans, ScanMisses, files
<1> QED BY <1>1, <1>2, <1>3, <1>4, <1>5, <1>6, <1>7, <1>8, <1>9, <1>10 DEF ScanStep

\* A step of the program is one of a scan or a calm one.
LEMMA Steps ==
    ASSUME FilesOK, [Next]_vars
    PROVE  Calm \/ \E a \in Actors : Scans(a)
BY CalmEffect, ScanEffect DEF Next, CalmStep

\* No more rows than there were and scans that came past their reading of the log.
Short == /\ Len(before) \in Nat /\ Len(log.rows) \in Nat
         /\ Len(log.rows) <= Len(before) + scans

LEMMA CountsOf ==
    ASSUME NEW rows, IsSeq(rows)
    PROVE  Len(Counts(rows)) \in Nat /\ Len(Counts(rows)) <= Len(rows)
<1> DEFINE values == [i \in DOMAIN rows |-> rows[i].procs]
           S == {values[i] : i \in DOMAIN rows}
<1>1. Len(rows) \in Nat /\ DOMAIN rows = 1 .. Len(rows)
  BY SeqIs
<1>2. \A i \in 1 .. Len(rows) : values[i] \in S
  BY <1>1
<1> HIDE DEF S
<1>3. values \in Seq(S) /\ Len(values) = Len(rows)
  BY <1>1, <1>2
<1> HIDE DEF values
<1>4. /\ Len(Dropna(values, Int \ Nat)) \in Nat
      /\ Len(Dropna(values, Int \ Nat)) <= Len(values)
  BY <1>3, DropnaOf
<1> QED BY <1>3, <1>4 DEF Counts, values

\* The row of a scan: one verdict, and CRITICAL only with a history.
LEMMA RowOfScan ==
    ASSUME FilesOK, Short, NEW a, NEW demo, NEW reading
    PROVE  LET row == ScanRow(a, demo, reading) IN GoodRow(before, row) /\ Agrees(row)
<1> DEFINE row == ScanRow(a, demo, reading)
           verdict == Verdict(reading)
           history == ProcessBaseline(Counts(LoadLogs(log)))
<1>1. /\ verdict.risk = BandForScore(verdict.score)
      /\ verdict.exfiltration => verdict.privacy_event
      /\ history <= 0 => verdict.risk # "CRITICAL"
  <2>1. Detect(reading.ifScore, reading.lofScore).anomaly \in BOOLEAN
    BY DEF Detect
  <2> QED BY <2>1, VerdictOfReading DEF Verdict
<1>2. verdict.risk = "CRITICAL" => scans + 1 + Len(before) > MinHistory
  <2>1. IsSeq(LoadLogs(log)) /\ Len(LoadLogs(log)) = Len(log.rows)
    BY Loaded DEF FilesOK, RowsOK
  <2>2. /\ Len(Counts(LoadLogs(log))) \in Nat
        /\ Len(Counts(LoadLogs(log))) <= Len(log.rows)
    BY <2>1, CountsOf
  <2>3. Len(Counts(LoadLogs(log))) < MinHistory => history = -1
    BY DEF ProcessBaseline, Unknown
  <2>4. MinHistory \in Nat /\ scans \in Nat
    BY HistoryAssumption DEF FilesOK
  <2> HIDE DEF history, verdict
  <2>5. verdict.risk = "CRITICAL" => Len(Counts(LoadLogs(log))) >= MinHistory
    BY <1>1, <2>2, <2>3, <2>4
  <2> QED BY <2>2, <2>4, <2>5 DEF Short
<1> HIDE DEF verdict, history
<1>3. /\ row.event = Event(a, demo) /\ row.risk = verdict.risk
      /\ row.severity = Severity(verdict.risk) /\ row.score = verdict.score
      /\ row.privacy_event = verdict.privacy_event /\ row.exfiltration = verdict.exfiltration
      /\ {"event", "risk", "score"} \subseteq DOMAIN row
  BY DEF ScanRow, verdict
<1> HIDE DEF row
<1>4. NormalizeRow(row).risk = row.risk /\ NormalizeRow(row).score = row.score
  BY <1>3 DEF NormalizeRow
<1>5. GoodRow(before, row)
  <2>1. /\ NormalizeRow(row).risk # ""
        /\ NormalizeRow(row).risk = BandForScore(NormalizeRow(row).score)
    BY <1>1, <1>3, <1>4, Bands
  <2>2. /\ "event" \in DOMAIN row /\ "risk" \in DOMAIN row
        /\ row.risk = "CRITICAL" => row.event.n + Len(before) > MinHistory
    BY <1>2, <1>3 DEF Event
  <2> QED BY <2>1, <2>2 DEF GoodRow
<1>6. /\ ScanStatus(BandForScore(verdict.score)) = HealthSummary(verdict.score)
      /\ BandForScore(verdict.score) \in {"CRITICAL", "HIGH", "MEDIUM", "LOW", "NORMAL"}
  BY Bands
<1>7. SeverityOf(row) = Severity(BandForScore(row.score))
  BY <1>1, <1>3, <1>6 DEF SeverityOf, Severity
<1>8. Agrees(row)
  BY <1>1, <1>3, <1>6, <1>7 DEF Agrees
<1> QED BY <1>5, <1>8 DEF row

LEMMA FilesInit == ASSUME Init PROVE FilesOK
<1>1. PICK rows \in OldLogs \cup {Nothing} :
          /\ log = IF rows = Nothing THEN Absent ELSE [there |-> TRUE, rows |-> rows, stamp |-> 1, born |-> 1]
          /\ before = IF rows = Nothing THEN <<>> ELSE rows
  BY DEF Init
<1>2. FileOK(before, log) /\ IsSeq(before)
  <2>1. CASE rows = Nothing
    BY <1>1, <2>1, AbsentFile, EmptyIsSeq
  <2>2. CASE rows # Nothing
    <3>1. rows \in OldLogs /\ IsSeq(rows)
      BY <2>2, OldLogAssumption DEF IsSeq
    <3>2. ASSUME NEW i \in DOMAIN rows PROVE GoodRow(rows, rows[i])
      <4>1. "event" \in DOMAIN rows[i] /\ rows[i].event \in {rows[j].event : j \in DOMAIN rows}
        BY <3>1, OldLogAssumption
      <4>2. NormalizeRow(rows[i]).risk # ""
        BY <3>1, OldLogAssumption
      <4>3. ASSUME rows[i].event \notin LabelledOtherwise(rows)
            PROVE  NormalizeRow(rows[i]).risk = Rung(RiskLadder, NormalizeRow(rows[i]).score).label
        BY <4>3 DEF LabelledOtherwise
      <4> QED BY <4>1, <4>2, <4>3, Bands DEF GoodRow
    <3> DEFINE file == [there |-> TRUE, rows |-> rows, stamp |-> 1, born |-> 1]
    <3>3. FileOK(rows, file)
      <4>1. /\ DOMAIN file = {"there", "rows", "stamp", "born"} /\ file.there = TRUE
            /\ file.stamp = 1 /\ file.rows = rows
        OBVIOUS
      <4> HIDE DEF file
      <4>2. RowsOK(rows, rows)
        BY <3>1, <3>2 DEF RowsOK
      <4>3. file.stamp \in Nat /\ file.stamp > 0
        BY <4>1
      <4> QED BY <4>1, <4>2, <4>3, Zenon DEF FileOK
    <3> QED BY <1>1, <2>2, <3>1, <3>3
  <2> QED BY <2>1, <2>2
<1>3. /\ DOMAIN Resting = Fields /\ Resting.at = "idle" /\ Resting.demo = FALSE
      /\ Resting.out = <<>> /\ Resting.original = Absent
  BY DEF Resting, Fields
<1>4. WorkOK(before, Resting)
  <2>1. FileOK(before, Resting.original) /\ RowsOK(before, Resting.out)
    BY <1>3, AbsentFile, EmptyIsSeq DEF RowsOK
  <2>2. Resting.at \in NotScanning /\ Resting.at \notin Scanning /\ Resting.at \notin Logging
    BY <1>3 DEF Scanning, NotScanning, Logging
  <2> QED BY <1>3, <2>1, <2>2, Zenon DEF WorkOK
<1>5. work = [a \in Actors |-> Resting] /\ scans = 0
  BY DEF Init
<1> QED BY <1>2, <1>4, <1>5 DEF FilesOK

LEMMA FilesStep == ASSUME FilesOK, Short, [Next]_vars PROVE FilesOK' /\ before' = before
<1>1. /\ FileOK(before, log) /\ IsSeq(before) /\ scans \in Nat /\ DOMAIN work = Actors
      /\ \A a \in Actors : WorkOK(before, work[a])
  BY DEF FilesOK
<1>2. SUFFICES /\ before' = before /\ FileOK(before, log') /\ scans' \in Nat
               /\ DOMAIN work' = Actors /\ \A a \in Actors : WorkOK(before, work'[a])
  BY DEF FilesOK
<1>3. CASE Calm
  <2>1. ASSUME NEW a \in Actors PROVE WorkOK(before, work'[a])
    <3>1. CASE work'[a] = work[a]
      BY <1>1, <3>1
    <3>2. CASE /\ DOMAIN work'[a] = Fields /\ work'[a].at \in NotScanning
               /\ work'[a].demo \in BOOLEAN
               /\ work'[a].out = work[a].out \/ work'[a].out = <<>>
               /\ work'[a].original = work[a].original \/ work'[a].original = Absent
      <4>1. FileOK(before, work'[a].original)
        BY <1>1, <3>2, AbsentFile DEF WorkOK
      <4>2. RowsOK(before, work'[a].out)
        BY <1>1, <3>2, EmptyIsSeq DEF WorkOK, RowsOK
      <4> QED BY <3>2, <4>1, <4>2 DEF WorkOK, Scanning, NotScanning, Logging
    <3> QED BY <1>3, <3>1, <3>2 DEF Calm
  <2> QED BY <1>1, <1>3, <2>1 DEF Calm
<1>4. ASSUME NEW a \in Actors, Scans(a)
      PROVE  /\ before' = before /\ FileOK(before, log') /\ scans' \in Nat
             /\ DOMAIN work' = Actors /\ \A b \in Actors : WorkOK(before, work'[b])
  <2>1. /\ WorkOK(before, work[a]) /\ FileOK(before, work[a].original)
        /\ RowsOK(before, work[a].out) /\ RowsOK(before, work[a].original.rows)
        /\ work[a].at \in Logging => work[a].ok
        /\ work[a].at \in Scanning /\ work[a].ok =>
               GoodRow(before, work[a].row) /\ Agrees(work[a].row)
        /\ work[a].demo \in BOOLEAN
    BY <1>1 DEF WorkOK, FileOK
  <2>2. ASSUME OnlyMoves(a), WorkOK(before, work'[a])
        PROVE  DOMAIN work' = Actors /\ \A b \in Actors : WorkOK(before, work'[b])
    BY <1>1, <2>2 DEF OnlyMoves
  <2>3. ASSUME NEW at \in Scanning, NEW out, NEW handle, Continues(a, at, out, handle),
               RowsOK(before, out), work[a].at \in Scanning,
               at \in Logging => work[a].at \in Logging
        PROVE  DOMAIN work' = Actors /\ \A b \in Actors : WorkOK(before, work'[b])
    <3>1. /\ DOMAIN work'[a] = Fields /\ work'[a].at = at /\ work'[a].out = out
          /\ work'[a].demo = work[a].demo /\ work'[a].original = work[a].original
          /\ work'[a].row = work[a].row
          /\ work'[a].ok = work[a].ok \/ (work[a].at \in Logging /\ at = "restore")
      BY <2>3 DEF Continues
    <3>2. /\ at \in Logging => work'[a].ok
          /\ work'[a].ok => GoodRow(before, work'[a].row) /\ Agrees(work'[a].row)
      BY <2>1, <2>3, <3>1 DEF Logging
    <3>3. WorkOK(before, work'[a])
      BY <2>1, <2>3, <3>1, <3>2, Zenon DEF WorkOK
    <3> QED BY <2>2, <2>3, <3>3 DEF Continues
  <2>4. ASSUME Ended(a) PROVE DOMAIN work' = Actors /\ \A b \in Actors : WorkOK(before, work'[b])
    <3>1. FileOK(before, work'[a].original) /\ RowsOK(before, work'[a].out)
      BY <2>4, AbsentFile, EmptyIsSeq DEF Ended, RowsOK
    <3>2. WorkOK(before, work'[a])
      BY <2>4, <3>1 DEF Ended, WorkOK, Scanning, NotScanning, Logging
    <3> QED BY <2>2, <2>4, <3>2 DEF Ended
  <2>5. ASSUME Appends(a), work[a].at \in Scanning
        PROVE  DOMAIN work' = Actors /\ \A b \in Actors : WorkOK(before, work'[b])
    BY <2>1, <2>3, <2>4, <2>5 DEF Appends, Scanning, Logging
  <2>6. CASE ScanStarts(a)
    <3>1. PICK demo \in BOOLEAN, reading \in Readings :
              Starts(a, demo, ScanRow(a, demo, Override(Sensed(reading), demo)))
      BY <2>6 DEF ScanStarts
    <3> DEFINE row == ScanRow(a, demo, Override(Sensed(reading), demo))
    <3>2. GoodRow(before, row) /\ Agrees(row)
      BY RowOfScan
    <3> HIDE DEF row
    <3>3. Starts(a, demo, row)
      BY <3>1 DEF row
    <3>4. FileOK(before, work'[a].original) /\ RowsOK(before, work'[a].out)
      BY <1>1, <3>3, AbsentFile, EmptyIsSeq DEF Starts, RowsOK
    <3>5. WorkOK(before, work'[a])
      BY <3>2, <3>3, <3>4 DEF WorkOK, Starts, Scanning
    <3> QED BY <1>1, <1>4, <2>2, <2>6, <3>3, <3>5 DEF Starts, ScanStarts, Scans
  <2>7. CASE ScanReads(a)
    <3>1. PICK file \in {log, Absent} : Continues(a, "open", Appended(file, work[a].row), work[a].handle)
      BY <2>7 DEF ScanReads
    <3>2. FileOK(before, file) /\ work[a].at \in Scanning /\ work[a].at \in Logging
      BY <1>1, <2>7, AbsentFile DEF ScanReads, Scanning, Logging
    <3>3. RowsOK(before, Appended(file, work[a].row))
      BY <2>1, <3>2, AppendedRows
    <3>4. "open" \in Scanning
      BY DEF Scanning
    <3> QED BY <1>1, <1>4, <2>3, <2>7, <3>1, <3>2, <3>3, <3>4 DEF ScanReads, Scans
  <2>8. CASE \/ ScanOpens(a, "open", work[a].out, "write")
             \/ ScanOpens(a, "restore", work[a].original.rows, "rewrite")
    <3>1. PICK from \in {"open", "restore"}, rows \in {work[a].out, work[a].original.rows},
                at \in {"write", "rewrite"} : ScanOpens(a, from, rows, at)
      BY <2>8
    <3>2. FileOK(before, log')
      BY <1>1, <2>1, <3>1, OpenedFile DEF ScanOpens
    <3>3. DOMAIN work' = Actors /\ \A b \in Actors : WorkOK(before, work'[b])
      BY <2>1, <2>3, <2>8 DEF ScanOpens, Scanning, Logging
    <3> QED BY <1>1, <1>4, <3>1, <3>2, <3>3 DEF ScanOpens, Scans
  <2>9. CASE ScanWrites(a)
    <3>1. FileOK(before, log')
      BY <1>1, <2>1, <2>9, WrittenFile DEF ScanWrites
    <3> QED BY <1>1, <1>4, <2>5, <2>9, <3>1 DEF ScanWrites, Scans, Scanning
  <2>10. CASE ScanFails(a)
    BY <1>1, <1>4, <2>5, <2>10 DEF ScanFails, Scans, Scanning
  <2>11. CASE ScanRestores(a)
    <3>1. FileOK(before, log')
      BY <1>1, <2>1, <2>11, WrittenFile, UnlinkedFile DEF ScanRestores
    <3> QED BY <1>1, <1>4, <2>4, <2>11, <3>1 DEF ScanRestores, Scans
  <2>12. CASE ScanMisses(a)
    <3>1. FileOK(before, work'[a].original) /\ RowsOK(before, work'[a].out)
      BY <2>12, AbsentFile, EmptyIsSeq DEF ScanMisses, RowsOK
    <3>2. WorkOK(before, work'[a])
      BY <2>12, <3>1 DEF ScanMisses, WorkOK, Scanning, Logging
    <3> QED BY <1>1, <1>4, <2>2, <2>12, <3>2 DEF ScanMisses, Scans
  <2> QED BY <1>4, <2>6, <2>7, <2>8, <2>9, <2>10, <2>11, <2>12 DEF Scans
<1> QED BY <1>3, <1>4, Steps

----------------------------------------------------------------------------
(* How long the log can be: a scan adds one row to what it read, and whoever *)
(* still waits to read has not.                                             *)

Waiting == {a \in Actors : work[a].at = "append"}
Room == Len(before) + scans - Cardinality(Waiting)

LengthInv ==
    /\ IsFiniteSet(Waiting) /\ Len(before) \in Nat
    /\ Len(log.rows) <= Room
    /\ \A a \in Actors : Len(work[a].out) <= Room /\ Len(work[a].original.rows) <= Room

LEMMA Lengths ==
    ASSUME FilesOK
    PROVE  /\ Len(log.rows) \in Nat /\ Len(before) \in Nat
           /\ \A a \in Actors : Len(work[a].out) \in Nat /\ Len(work[a].original.rows) \in Nat
BY SeqIs DEF FilesOK, WorkOK, FileOK, RowsOK

LEMMA LengthsAreShort == ASSUME FilesOK, LengthInv PROVE Short
<1>1. Cardinality(Waiting) \in Nat
  BY FS_CardinalityType DEF LengthInv
<1>2. scans \in Nat
  BY DEF FilesOK
<1> HIDE DEF Waiting
<1> QED BY <1>1, <1>2, Lengths DEF LengthInv, Room, Short

LEMMA LengthInit == ASSUME Init PROVE LengthInv
<1>1. FilesOK
  BY FilesInit
<1>2. work = [a \in Actors |-> Resting] /\ Resting.at = "idle" /\ scans = 0
  BY DEF Init, Resting
<1>3. Waiting = {}
  BY <1>2 DEF Waiting
<1>4. IsFiniteSet(Waiting) /\ Cardinality(Waiting) = 0
  BY <1>3, FS_EmptySet
<1> HIDE DEF Waiting
<1>5. Room = Len(before)
  BY <1>1, <1>2, <1>4, Lengths DEF Room
<1>6. Len(log.rows) <= Len(before)
  <2>1. log.rows = <<>> \/ log.rows = before
    BY DEF Init, Absent
  <2> QED BY <1>1, <2>1, Lengths, EmptyIsSeq
<1>7. ASSUME NEW a \in Actors PROVE work[a].out = <<>> /\ work[a].original.rows = <<>>
  BY <1>2 DEF Resting, Absent
<1> QED BY <1>1, <1>4, <1>5, <1>6, <1>7, Lengths, EmptyIsSeq DEF LengthInv

LEMMA LengthStep == ASSUME FilesOK, LengthInv, [Next]_vars PROVE LengthInv'
<1>1. /\ IsFiniteSet(Waiting) /\ Cardinality(Waiting) \in Nat /\ Len(before) \in Nat
      /\ scans \in Nat /\ Room \in Int
  BY FS_CardinalityType DEF LengthInv, FilesOK, Room
<1>2. /\ FilesOK' /\ before' = before
  BY LengthsAreShort, FilesStep
<1>3. /\ Len(log'.rows) \in Nat
      /\ \A a \in Actors : Len(work'[a].out) \in Nat /\ Len(work'[a].original.rows) \in Nat
  BY <1>2, SeqIs DEF FilesOK, WorkOK, FileOK, RowsOK
<1>4. /\ Len(log.rows) \in Nat /\ Len(log.rows) <= Room
      /\ \A a \in Actors : /\ Len(work[a].out) \in Nat /\ Len(work[a].out) <= Room
                           /\ Len(work[a].original.rows) \in Nat
                           /\ Len(work[a].original.rows) <= Room
  BY Lengths DEF LengthInv
<1>5. 0 <= Room
  BY <1>1, <1>4
<1>6. CASE Calm
  <2>1. Waiting' \subseteq Waiting
    BY <1>6 DEF Waiting, Calm, NotScanning
  <2>2. IsFiniteSet(Waiting') /\ Cardinality(Waiting') \in Nat
        /\ Cardinality(Waiting') <= Cardinality(Waiting)
    BY <1>1, <2>1, FS_Subset, FS_CardinalityType
  <2>3. log' = log /\ scans' = scans
    BY <1>6 DEF Calm
  <2>4. Room' \in Int /\ Room <= Room'
    <3> HIDE DEF Waiting
    <3> QED BY <1>1, <1>2, <2>2, <2>3 DEF Room
  <2>5. ASSUME NEW a \in Actors
        PROVE  Len(work'[a].out) <= Room /\ Len(work'[a].original.rows) <= Room
    <3>1. /\ work'[a].out = work[a].out \/ work'[a].out = <<>>
          /\ work'[a].original = work[a].original \/ work'[a].original.rows = <<>>
      BY <1>6 DEF Calm, Absent
    <3> QED BY <1>4, <1>5, <3>1, EmptyIsSeq
  <2> HIDE DEF Waiting, Room
  <2> QED BY <1>1, <1>2, <1>3, <1>4, <2>2, <2>3, <2>4, <2>5 DEF LengthInv
<1>7. ASSUME NEW a \in Actors, Scans(a) PROVE LengthInv'
  <2>1. before' = before /\ OnlyMoves(a)
    BY <1>7 DEF Scans, ScanStarts, ScanMisses, ScanReads, ScanOpens, ScanWrites, ScanFails, ScanRestores,
                Starts, Continues, Appends, Ended
  <2>2. ASSUME IsFiniteSet(Waiting'), Room' \in Int, Room <= Room', Len(log'.rows) <= Room',
               Len(work'[a].out) <= Room', Len(work'[a].original.rows) <= Room'
        PROVE  LengthInv'
    <3>1. ASSUME NEW b \in Actors
          PROVE  Len(work'[b].out) <= Room' /\ Len(work'[b].original.rows) <= Room'
      <4>1. b = a \/ work'[b] = work[b]
        BY <2>1 DEF OnlyMoves
      <4> HIDE DEF Room
      <4> QED BY <1>1, <1>4, <2>2, <4>1
    <3> HIDE DEF Waiting, Room
    <3> QED BY <1>1, <1>2, <2>2, <3>1 DEF LengthInv
  <2>3. ASSUME work[a].at # "append", work'[a].at # "append", scans' = scans
        PROVE  IsFiniteSet(Waiting') /\ Room' = Room
    <3>1. Waiting' = Waiting
      BY <2>1, <2>3 DEF Waiting, OnlyMoves
    <3> QED BY <1>1, <2>1, <2>3, <3>1 DEF Room
  <2>4. CASE ScanStarts(a)
    <3>1. /\ work[a].at = "idle" /\ work'[a].at = "append" /\ work'[a].out = <<>>
          /\ work'[a].original = log \/ work'[a].original.rows = <<>>
          /\ scans' = scans + 1 /\ log' = log
      BY <2>4 DEF ScanStarts, Starts, Absent
    <3>2. Waiting' = Waiting \cup {a} /\ a \notin Waiting
      BY <2>1, <3>1 DEF Waiting, OnlyMoves
    <3>3. IsFiniteSet(Waiting') /\ Cardinality(Waiting') = Cardinality(Waiting) + 1
      BY <1>1, <3>2, FS_AddElement
    <3>4. Room' = Room
      <4> HIDE DEF Waiting
      <4> QED BY <1>1, <2>1, <3>1, <3>3 DEF Room
    <3> QED BY <1>1, <1>4, <1>5, <2>2, <3>1, <3>3, <3>4, EmptyIsSeq
  <2>5. CASE ScanReads(a)
    <3>1. PICK file \in {log, Absent} : Continues(a, "open", Appended(file, work[a].row), work[a].handle)
      BY <2>5 DEF ScanReads
    <3>2. /\ work[a].at = "append" /\ work'[a].at = "open"
          /\ work'[a].out = Appended(file, work[a].row) /\ work'[a].original = work[a].original
          /\ scans' = scans /\ log' = log
      BY <2>5, <3>1 DEF ScanReads, Continues
    <3>3. /\ FileOK(before, file) /\ GoodRow(before, work[a].row)
          /\ Len(file.rows) \in Nat /\ Len(file.rows) <= Room
      <4>1. FileOK(before, file) /\ GoodRow(before, work[a].row)
        BY <3>2, AbsentFile DEF FilesOK, WorkOK, Scanning, Logging
      <4>2. Len(file.rows) \in Nat /\ Len(file.rows) <= Room
        BY <1>1, <1>4, <1>5, EmptyIsSeq DEF Absent
      <4> QED BY <4>1, <4>2
    <3>4. Len(work'[a].out) = Len(file.rows) + 1
      BY <3>2, <3>3, AppendedRows
    <3>5. Waiting' = Waiting \ {a} /\ a \in Waiting
      BY <2>1, <3>2 DEF Waiting, OnlyMoves
    <3>6. IsFiniteSet(Waiting') /\ Cardinality(Waiting') = Cardinality(Waiting) - 1
      BY <1>1, <3>5, FS_RemoveElement
    <3>7. Room' = Room + 1
      <4> HIDE DEF Waiting
      <4> QED BY <1>1, <2>1, <3>2, <3>6 DEF Room
    <3>8. /\ Len(log'.rows) <= Room' /\ Len(work'[a].out) <= Room'
          /\ Len(work'[a].original.rows) <= Room' /\ Room <= Room' /\ Room' \in Int
      <4> HIDE DEF Waiting, Room
      <4> QED BY <1>1, <1>4, <3>2, <3>3, <3>4, <3>7
    <3> QED BY <2>2, <3>6, <3>8
  <2>6. ASSUME work[a].at # "append", work'[a].at # "append", scans' = scans,
               Len(log'.rows) <= Room, Len(work'[a].out) <= Room,
               Len(work'[a].original.rows) <= Room
        PROVE  LengthInv'
    BY <1>1, <2>2, <2>3, <2>6
  <2>7. /\ Ended(a) => /\ work'[a].at # "append" /\ Len(work'[a].out) <= Room
                       /\ Len(work'[a].original.rows) <= Room
        /\ \A at, handle : Continues(a, at, work[a].out, handle) =>
               Len(work'[a].out) <= Room /\ Len(work'[a].original.rows) <= Room
        /\ Appends(a) => /\ work'[a].at # "append" /\ Len(work'[a].out) <= Room
                         /\ Len(work'[a].original.rows) <= Room
    BY <1>4, <1>5, EmptyIsSeq DEF Ended, Continues, Appends, Absent
  <2>8. FileOK(before, log) /\ RowsOK(before, work[a].out) /\ RowsOK(before, work[a].original.rows)
    BY DEF FilesOK, WorkOK, FileOK
  <2>9. CASE \/ ScanOpens(a, "open", work[a].out, "write")
             \/ ScanOpens(a, "restore", work[a].original.rows, "rewrite")
    <3>1. PICK from \in {"open", "restore"}, rows \in {work[a].out, work[a].original.rows},
                at \in {"write", "rewrite"} : ScanOpens(a, from, rows, at)
      BY <2>9
    <3>2. /\ work[a].at # "append" /\ work'[a].at # "append" /\ scans' = scans
          /\ Continues(a, at, work[a].out, log'.born)
      BY <3>1 DEF ScanOpens, Continues
    <3>3. Len(log'.rows) <= Len(rows)
      BY <2>8, <3>1, OpenedFile DEF ScanOpens
    <3>4. Len(log'.rows) <= Room
      BY <1>1, <1>3, <1>4, <3>3
    <3> QED BY <2>6, <2>7, <3>2, <3>4
  <2>10. CASE ScanWrites(a)
    <3>1. Len(log'.rows) <= Len(log.rows) \/ Len(log'.rows) <= Len(work[a].out)
      BY <2>8, <2>10, WrittenFile DEF ScanWrites
    <3>2. Len(log'.rows) <= Room
      BY <1>1, <1>3, <1>4, <3>1
    <3> QED BY <2>6, <2>7, <2>10, <3>2 DEF ScanWrites
  <2>11. CASE ScanFails(a)
    BY <1>4, <2>6, <2>7, <2>11 DEF ScanFails
  <2>12. CASE ScanRestores(a)
    <3>1. \/ Len(log'.rows) <= Len(log.rows) \/ Len(log'.rows) <= Len(work[a].original.rows)
          \/ log'.rows = <<>>
      <4>1. CASE work[a].at = "rewrite" /\ log' = Written(log, work[a].handle, work[a].original.rows)
        BY <2>8, <4>1, WrittenFile
      <4>2. CASE log' = Unlinked(log) \/ log' = log
        BY <1>4, <4>2 DEF Unlinked, Absent
      <4> QED BY <2>12, <4>1, <4>2 DEF ScanRestores
    <3>2. Len(log'.rows) <= Room
      BY <1>1, <1>3, <1>4, <1>5, <3>1, EmptyIsSeq
    <3> QED BY <2>6, <2>7, <2>12, <3>2 DEF ScanRestores
  <2>13. CASE ScanMisses(a)
    <3>1. work'[a].out = <<>> /\ work'[a].original.rows = <<>>
      BY <2>13 DEF ScanMisses, Absent
    <3> QED BY <1>4, <1>5, <2>6, <2>13, <3>1, EmptyIsSeq DEF ScanMisses
  <2> QED BY <1>7, <2>4, <2>5, <2>9, <2>10, <2>11, <2>12, <2>13 DEF Scans
<1> QED BY <1>6, <1>7, Steps

----------------------------------------------------------------------------
(* The log holds what it should *)

Told == Events(before) \o recorded

Full(file, handle, rows) == file.there /\ file.born = handle /\ Len(file.rows) <= Len(rows)

\* What the scan of a has in hand, by how far it is: nobody else has come between.
Tells(a) ==
    /\ work[a].at \in {"append", "open"} => Events(log.rows) = Told
    /\ work[a].at \in {"open", "write"} => Events(work[a].out) = Told \o <<work[a].row.event>>
    /\ work[a].at = "write" => Full(log, work[a].handle, work[a].out)
    /\ work[a].at = "rewrite" => Full(log, work[a].handle, work[a].original.rows)
    /\ work[a].at \in {"restore", "rewrite"} => work[a].demo
    /\ InScan(a) /\ work[a].demo => Events(work[a].original.rows) = Told

HistoryInv ==
    /\ IsSeq(recorded)
    /\ intact => /\ \A a, b \in Actors : InScan(a) /\ InScan(b) => a = b
                 /\ AtRest => Events(log.rows) = Told
                 /\ \A a \in Actors : Tells(a)

LEMMA EventsOf ==
    ASSUME NEW rows, IsSeq(rows)
    PROVE  IsSeq(Events(rows)) /\ Len(Events(rows)) = Len(rows)
<1>1. Len(rows) \in Nat /\ DOMAIN rows = 1 .. Len(rows)
  BY SeqIs
<1>2. Events(rows) = [i \in 1 .. Len(rows) |-> rows[i].event]
  BY <1>1 DEF Events
<1>3. Events(rows) = [i \in 1 .. Len(rows) |-> Events(rows)[i]]
  BY <1>2
<1> QED BY <1>1, <1>3, SeqOf

LEMMA ToldGrows ==
    ASSUME NEW s, NEW t, NEW e, IsSeq(s), IsSeq(t)
    PROVE  IsSeq(Append(t, e)) /\ s \o Append(t, e) = (s \o t) \o <<e>>
<1> DEFINE S == {s[i] : i \in DOMAIN s} \cup {t[i] : i \in DOMAIN t} \cup {e}
<1>1. s \in Seq(S) /\ t \in Seq(S) /\ e \in S
  <2>1. /\ \A i \in 1 .. Len(s) : s[i] \in S
        /\ \A i \in 1 .. Len(t) : t[i] \in S
        /\ e \in S
    BY SeqIs
  <2> HIDE DEF S
  <2>2. /\ [i \in 1 .. Len(s) |-> s[i]] \in Seq(S)
        /\ [i \in 1 .. Len(t) |-> t[i]] \in Seq(S)
    BY <2>1, SeqIs
  <2> QED BY <2>1, <2>2, SeqIs
<1> HIDE DEF S
<1>2. Append(t, e) \in Seq(S) /\ s \o Append(t, e) = (s \o t) \o <<e>>
  BY <1>1
<1> QED BY <1>2, SeqIn

LEMMA HistoryInit == ASSUME Init PROVE HistoryInv
<1>1. FilesOK
  BY FilesInit
<1>2. /\ \A a \in Actors : work[a] = Resting /\ ~ InScan(a)
      /\ recorded = <<>> /\ ((log.rows = <<>> /\ before = <<>>) \/ log.rows = before)
  BY DEF Init, Resting, InScan, Scanning, Absent
<1>3. Told = Events(before) /\ Events(log.rows) = Events(before)
  <2>1. IsSeq(Events(before)) /\ IsSeq(recorded) /\ Len(recorded) = 0
    BY <1>1, <1>2, EventsOf, EmptyIsSeq DEF FilesOK
  <2> DEFINE all == Events(before) \o recorded
             n == Len(Events(before))
  <2>2. n \in Nat /\ IsSeq(all) /\ Len(all) = n + 0
        /\ \A i \in 1 .. n + 0 : all[i] = IF i <= n THEN Events(before)[i] ELSE recorded[i - n]
    BY <2>1, Concat, SeqIs
  <2>3. all = [i \in 1 .. n |-> all[i]] /\ Events(before) = [i \in 1 .. n |-> Events(before)[i]]
    BY <2>1, <2>2, SeqIs
  <2>4. \A i \in 1 .. n : all[i] = Events(before)[i]
    BY <2>2
  <2> HIDE DEF all
  <2>5. all = Events(before)
    BY <2>3, <2>4
  <2> QED BY <1>2, <2>5 DEF Told, all
<1>4. \A a \in Actors : Tells(a)
  BY <1>2 DEF Tells, Resting
<1> QED BY <1>2, <1>3, <1>4, EmptyIsSeq DEF HistoryInv

LEMMA HistoryStep == ASSUME FilesOK, Short, HistoryInv, [Next]_vars PROVE HistoryInv'
<1>1. /\ FilesOK' /\ before' = before /\ DOMAIN work = Actors /\ DOMAIN work' = Actors
  BY FilesStep DEF FilesOK
<1>2. IsSeq(recorded) /\ IsSeq(Events(before))
  BY EventsOf DEF HistoryInv, FilesOK
<1>3. CASE Calm
  <2>1. log' = log /\ recorded' = recorded /\ Told' = Told
    BY <1>1, <1>3 DEF Calm, Told
  <2>2. ASSUME intact'
        PROVE  /\ \A a, b \in Actors : InScan(a)' /\ InScan(b)' => a = b
               /\ AtRest' => Events(log'.rows) = Told'
               /\ \A a \in Actors : Tells(a)'
    <3>1. /\ \A a, b \in Actors : InScan(a) /\ InScan(b) => a = b
          /\ AtRest => Events(log.rows) = Told
          /\ \A a \in Actors : Tells(a)
          /\ \A a \in Actors : InScan(a) => work'[a] = work[a]
      BY <1>3, <2>2 DEF Calm, HistoryInv
    <3>2. ASSUME NEW a \in Actors
          PROVE  work'[a] = work[a] \/ (~ InScan(a) /\ work'[a].at \in NotScanning)
      BY <1>3, <3>1 DEF Calm
    <3>3. \A a \in Actors : InScan(a)' <=> InScan(a)
      BY <3>1, <3>2 DEF InScan, Scanning, NotScanning
    <3>4. ASSUME NEW a \in Actors PROVE Tells(a)'
      <4>1. CASE work'[a] = work[a]
        BY <2>1, <3>1, <4>1 DEF Tells, InScan
      <4>2. CASE work'[a].at \in NotScanning
        BY <4>2 DEF Tells, InScan, Scanning, NotScanning
      <4> QED BY <3>2, <4>1, <4>2
    <3> QED BY <2>1, <3>1, <3>3, <3>4 DEF AtRest
  <2> QED BY <1>2, <2>1, <2>2 DEF HistoryInv
<1>4. ASSUME NEW a \in Actors, Scans(a) PROVE HistoryInv'
  <2>1. OnlyMoves(a) /\ (intact' => intact)
    BY <1>4 DEF Scans, ScanStarts, ScanMisses, ScanReads, ScanOpens, ScanWrites, ScanFails, ScanRestores,
                Starts, Continues, Appends, Ended
  <2>2. /\ WorkOK(before, work[a]) /\ FileOK(before, log) /\ FileOK(before, work[a].original)
        /\ RowsOK(before, work[a].out) /\ RowsOK(before, work[a].original.rows)
        /\ work[a].demo \in BOOLEAN
    BY DEF FilesOK, WorkOK, FileOK
  <2>3. IsSeq(recorded')
    <3>1. recorded' = recorded \/ recorded' = Append(recorded, work[a].row.event)
      BY <1>4 DEF Scans, ScanStarts, ScanMisses, ScanReads, ScanOpens, ScanWrites, ScanFails, ScanRestores
    <3> QED BY <1>2, <3>1, ToldGrows
  \* Only a is in a scan, and it is enough to look at a and at the log.
  <2>4. ASSUME intact => /\ \A b \in Actors \ {a} : ~ InScan(b)
                         /\ intact' => Tells(a)' /\ (~ InScan(a)' => Events(log'.rows) = Told')
        PROVE  HistoryInv'
    <3>1. ASSUME intact'
          PROVE  /\ \A b, c \in Actors : InScan(b)' /\ InScan(c)' => b = c
                 /\ AtRest' => Events(log'.rows) = Told'
                 /\ \A b \in Actors : Tells(b)'
      <4>1. ASSUME NEW b \in Actors, b # a PROVE ~ InScan(b)' /\ Tells(b)'
        <5>1. ~ InScan(b) /\ work'[b] = work[b]
          BY <2>1, <2>4, <3>1, <4>1 DEF OnlyMoves
        <5> QED BY <5>1 DEF Tells, InScan, Scanning
      <4> QED BY <2>1, <2>4, <3>1, <4>1 DEF AtRest
    <3> QED BY <2>3, <3>1 DEF HistoryInv
  <2>5. ASSUME intact, InScan(a)
        PROVE  Tells(a) /\ \A b \in Actors \ {a} : ~ InScan(b)
    BY <2>5 DEF HistoryInv
  <2>6. ASSUME work[a].demo, Continues(a, "restore", work[a].out, work[a].handle), InScan(a),
               Tells(a), Told' = Told
        PROVE  Tells(a)' /\ InScan(a)'
    BY <2>6 DEF Continues, Tells, InScan, Scanning
  <2>7. ASSUME Ended(a) PROVE Tells(a)' /\ ~ InScan(a)'
    BY <2>7 DEF Ended, Tells, InScan, Scanning
  <2>8. CASE ScanStarts(a)
    <3>1. PICK demo \in BOOLEAN :
              /\ work'[a].at = "append" /\ work'[a].demo = demo
              /\ work'[a].original = IF demo THEN log ELSE Absent
      BY <2>8 DEF ScanStarts, Starts
    <3>2. log' = log /\ Told' = Told
      BY <1>1, <2>8 DEF ScanStarts, Told
    <3>3. ASSUME intact' PROVE intact /\ AtRest /\ Events(log.rows) = Told
      BY <2>8, <3>3 DEF ScanStarts, HistoryInv
    <3>4. ASSUME intact' PROVE Tells(a)' /\ InScan(a)'
      BY <3>1, <3>2, <3>3, <3>4 DEF Tells, InScan, Scanning
    <3>5. ASSUME intact'
          PROVE  /\ \A b, c \in Actors : InScan(b)' /\ InScan(c)' => b = c
                 /\ AtRest' => Events(log'.rows) = Told'
                 /\ \A b \in Actors : Tells(b)'
      <4>1. ASSUME NEW b \in Actors, b # a PROVE ~ InScan(b)' /\ Tells(b)'
        <5>1. ~ InScan(b) /\ work'[b] = work[b]
          BY <2>1, <3>3, <3>5, <4>1 DEF OnlyMoves, AtRest
        <5> QED BY <5>1 DEF Tells, InScan, Scanning
      <4> QED BY <3>4, <3>5, <4>1 DEF AtRest
    <3> QED BY <2>3, <3>5 DEF HistoryInv
  <2>9. CASE ScanReads(a)
    <3>1. PICK file \in {log, Absent} :
              /\ Continues(a, "open", Appended(file, work[a].row), work[a].handle)
              /\ intact' => intact /\ file = log
      BY <2>9 DEF ScanReads
    <3>2. work[a].at = "append" /\ log' = log /\ Told' = Told /\ GoodRow(before, work[a].row)
      BY <1>1, <2>2, <2>9 DEF ScanReads, Told, WorkOK, Scanning, Logging
    <3>3. ASSUME intact' PROVE Tells(a)' /\ InScan(a)'
      <4>1. Tells(a) /\ InScan(a) /\ Events(log.rows) = Told
        BY <2>5, <3>1, <3>2, <3>3 DEF InScan, Scanning, Tells
      <4>2. Events(Appended(log, work[a].row)) = Told \o <<work[a].row.event>>
        BY <2>2, <3>2, <4>1, AppendedRows
      <4> QED BY <3>1, <3>2, <3>3, <4>1, <4>2 DEF Tells, InScan, Scanning, Continues
    <3> QED BY <2>1, <2>4, <2>5, <3>2, <3>3 DEF InScan, Scanning
  <2>10. CASE ScanOpens(a, "open", work[a].out, "write")
    <3>1. /\ work[a].at = "open" /\ Continues(a, "write", work[a].out, log'.born) /\ Told' = Told
          /\ log' \in OpenedForWriting(log, work[a].out) /\ intact' = intact
      BY <1>1, <2>10 DEF ScanOpens, Told
    <3>2. log'.there /\ Len(log'.rows) <= Len(work[a].out)
      BY <2>2, <3>1, OpenedFile
    <3>3. ASSUME intact PROVE Tells(a)' /\ InScan(a)'
      <4>1. Tells(a)
        BY <2>5, <3>1, <3>3 DEF InScan, Scanning
      <4> QED BY <3>1, <3>2, <4>1 DEF Tells, InScan, Scanning, Continues, Full
    <3> QED BY <2>4, <2>5, <3>1, <3>3 DEF InScan, Scanning
  <2>11. CASE ScanOpens(a, "restore", work[a].original.rows, "rewrite")
    <3>1. /\ work[a].at = "restore" /\ Continues(a, "rewrite", work[a].out, log'.born)
          /\ log' \in OpenedForWriting(log, work[a].original.rows) /\ intact' = intact /\ Told' = Told
      BY <1>1, <2>11 DEF ScanOpens, Told
    <3>2. log'.there /\ Len(log'.rows) <= Len(work[a].original.rows)
      BY <2>2, <3>1, OpenedFile
    <3>3. ASSUME intact PROVE Tells(a)' /\ InScan(a)'
      <4>1. Tells(a)
        BY <2>5, <3>1, <3>3 DEF InScan, Scanning
      <4> QED BY <3>1, <3>2, <4>1 DEF Tells, InScan, Scanning, Continues, Full
    <3> QED BY <2>4, <2>5, <3>1, <3>3 DEF InScan, Scanning
  <2>12. CASE ScanWrites(a)
    <3>1. /\ work[a].at = "write" /\ log' = Written(log, work[a].handle, work[a].out)
          /\ Appends(a) /\ intact' = intact /\ InScan(a)
          /\ recorded' = IF work[a].demo THEN recorded ELSE Append(recorded, work[a].row.event)
      BY <2>12 DEF ScanWrites, InScan, Scanning
    <3>2. ASSUME intact PROVE log'.rows = work[a].out /\ Tells(a)
      BY <2>2, <2>5, <3>1, <3>2, WrittenFile DEF Tells, Full
    <3>3. CASE work[a].demo
      <4>1. Told' = Told /\ Continues(a, "restore", work[a].out, work[a].handle)
        BY <1>1, <3>1, <3>3 DEF Told, Appends
      <4> QED BY <2>4, <2>5, <2>6, <3>1, <3>2, <3>3, <4>1
    <3>4. CASE ~ work[a].demo
      <4>1. Ended(a) /\ Told' = Events(before) \o Append(recorded, work[a].row.event)
        BY <1>1, <3>1, <3>4 DEF Told, Appends
      <4>2. Told' = Told \o <<work[a].row.event>>
        BY <1>2, <4>1, ToldGrows DEF Told
      <4>3. ASSUME intact PROVE Events(log'.rows) = Told'
        BY <3>1, <3>2, <4>2, <4>3 DEF Tells
      <4> QED BY <2>4, <2>5, <2>7, <3>1, <4>1, <4>3
    <3> QED BY <2>2, <3>3, <3>4
  <2>13. CASE ScanFails(a)
    <3>1. /\ work[a].at \in {"open", "write"} /\ log' = log /\ Appends(a) /\ InScan(a)
          /\ intact' => intact /\ (work[a].at = "open" \/ work[a].demo)
          /\ Told' = Told
      BY <1>1, <2>13 DEF ScanFails, InScan, Scanning, Told
    <3>2. ASSUME intact
          PROVE  Tells(a) /\ (work[a].at = "open" => Events(log'.rows) = Told')
      BY <2>5, <3>1, <3>2 DEF Tells
    <3>3. CASE work[a].demo /\ Continues(a, "restore", work[a].out, work[a].handle)
      BY <2>4, <2>5, <2>6, <3>1, <3>2, <3>3
    <3>4. CASE ~ work[a].demo /\ Ended(a)
      BY <2>4, <2>5, <2>7, <3>1, <3>2, <3>4
    <3> QED BY <3>1, <3>3, <3>4 DEF Appends
  <2>14. CASE ScanRestores(a)
    <3>1. Ended(a) /\ InScan(a) /\ Told' = Told /\ work[a].at \in {"restore", "rewrite"}
      BY <1>1, <2>14 DEF ScanRestores, InScan, Scanning, Told
    <3>2. ASSUME intact, intact' PROVE Events(log'.rows) = Told
      <4>1. Tells(a) /\ Events(work[a].original.rows) = Told
        BY <2>5, <3>1, <3>2 DEF Tells
      <4>2. log'.rows = work[a].original.rows
        <5>1. CASE /\ work[a].at = "rewrite"
                   /\ log' = Written(log, work[a].handle, work[a].original.rows)
          BY <2>2, <4>1, <5>1, WrittenFile DEF Tells, Full
        <5>2. CASE ~ work[a].original.there /\ log' = IF log.there THEN Unlinked(log) ELSE log
          BY <2>2, <5>2, UnlinkedFile DEF FileOK
        <5> QED BY <2>14, <3>2, <5>1, <5>2 DEF ScanRestores
      <4> QED BY <4>1, <4>2
    <3> QED BY <2>4, <2>5, <2>7, <3>1, <3>2
  <2>15. CASE ScanMisses(a)
    BY <2>3, <2>15 DEF ScanMisses, HistoryInv
  <2> QED BY <1>4, <2>8, <2>9, <2>10, <2>11, <2>12, <2>13, <2>14, <2>15 DEF Scans
<1> QED BY <1>3, <1>4, Steps

----------------------------------------------------------------------------
(* The page cache *)

\* What an entry holds, read from this file or not
IsTrue(entry, file) == entry.rows = IF entry.read THEN LoadLogs(file) ELSE <<>>

\* What was read under the signature of now was read after the log last changed.
CacheInv ==
    /\ \A entry \in pages :
          /\ entry.signature[1] \in Nat /\ entry.signature[1] <= log.stamp
          /\ log.there /\ entry.signature = Signature(log) => IsTrue(entry, log)
    /\ \A a \in Actors : work[a].at = "load" =>
          work[a].signature[1] \in Nat /\ work[a].signature[1] <= log.stamp

\* Every change of the log raises its modification time.
LEMMA StampStep ==
    ASSUME FilesOK, NEW a \in Actors, Scans(a)
    PROVE  log' = log \/ log'.stamp > log.stamp
<1>1. /\ FileOK(before, log) /\ RowsOK(before, work[a].out)
      /\ RowsOK(before, work[a].original.rows)
  BY DEF FilesOK, WorkOK, FileOK
<1>2. CASE ScanStarts(a) \/ ScanMisses(a) \/ ScanReads(a) \/ ScanFails(a)
  BY <1>2 DEF ScanStarts, ScanMisses, ScanReads, ScanFails
<1>3. CASE ScanOpens(a, "open", work[a].out, "write")
  BY <1>1, <1>3, OpenedFile DEF ScanOpens
<1>4. CASE ScanOpens(a, "restore", work[a].original.rows, "rewrite")
  BY <1>1, <1>4, OpenedFile DEF ScanOpens
<1>5. CASE ScanWrites(a)
  BY <1>1, <1>5, WrittenFile DEF ScanWrites
<1>6. CASE ScanRestores(a)
  <2>1. CASE log' = Written(log, work[a].handle, work[a].original.rows)
    BY <1>1, <2>1, WrittenFile
  <2>2. CASE log' = Unlinked(log)
    BY <1>1, <2>2, UnlinkedFile
  <2> QED BY <1>6, <2>1, <2>2 DEF ScanRestores
<1> QED BY <1>2, <1>3, <1>4, <1>5, <1>6 DEF Scans

LEMMA ScansKeepPages ==
    ASSUME NEW a \in Actors, ScanStep(a)
    PROVE  pages' = pages
BY DEF ScanStep, StartsScan, CaptureFails, ReadsLog, OpensLog, WritesLog, AppendFails,
       AppendBreaks, RestoreOpens, RestoreWrites, RestoreUnlinks, RestoreFails, AfterAppend, ScanEnds, SessionEnds,
       TerminalEnds, screens

\* The rows of one answer of _read_logs(), and what the cache keeps of it
Read(failed) == LoadLogs(IF failed THEN Absent ELSE log)
Entry(s, failed) ==
    [signature |-> work[s].signature, rows |-> Read(failed), read |-> ~ failed]

LEMMA AbsentIsEmpty == LoadLogs(Absent) = <<>>
BY DEF LoadLogs, Absent

LEMMA SignatureOf ==
    ASSUME FilesOK PROVE Signature(log)[1] \in Nat /\ Signature(log)[1] <= log.stamp
BY DEF FilesOK, FileOK, Signature

LEMMA CacheInit == ASSUME Init PROVE CacheInv
BY DEF Init, CacheInv, Resting

LEMMA CacheStep == ASSUME FilesOK, Short, CacheInv, [Next]_vars PROVE CacheInv'
<1>1. /\ FilesOK' /\ log.stamp \in Nat /\ log'.stamp \in Nat
      /\ DOMAIN work = Actors /\ \A a \in Actors : DOMAIN work[a] = Fields
  BY FilesStep DEF FilesOK, FileOK, WorkOK
<1>2. ASSUME pages' \subseteq pages, log' = log \/ log'.stamp > log.stamp,
             \A a \in Actors : work'[a].at = "load" => work'[a] = work[a]
      PROVE  CacheInv'
  <2>1. ASSUME NEW entry \in pages'
        PROVE  /\ entry.signature[1] \in Nat /\ entry.signature[1] <= log'.stamp
               /\ log'.there /\ entry.signature = Signature(log') => IsTrue(entry, log')
    <3>1. /\ entry.signature[1] \in Nat /\ entry.signature[1] <= log.stamp
          /\ log.there /\ entry.signature = Signature(log) => IsTrue(entry, log)
      BY <1>2, <2>1 DEF CacheInv
    <3>2. CASE log' = log
      BY <3>1, <3>2
    <3>3. CASE log'.stamp > log.stamp
      <4>1. log'.there => Signature(log')[1] = log'.stamp
        BY DEF Signature
      <4> QED BY <1>1, <3>1, <3>3, <4>1
    <3> QED BY <1>2, <3>2, <3>3
  <2>2. ASSUME NEW a \in Actors, work'[a].at = "load"
        PROVE  work'[a].signature[1] \in Nat /\ work'[a].signature[1] <= log'.stamp
    <3>1. work[a].signature[1] \in Nat /\ work[a].signature[1] <= log.stamp /\ work'[a] = work[a]
      BY <1>2, <2>2 DEF CacheInv
    <3> QED BY <1>1, <1>2, <3>1
  <2> QED BY <2>1, <2>2 DEF CacheInv
<1>3. ASSUME NEW a \in Actors, ScanStep(a) PROVE CacheInv'
  <2>1. Scans(a) /\ pages' = pages
    BY <1>3, ScanEffect, ScansKeepPages
  <2>2. OnlyMoves(a) /\ work'[a].at # "load"
    BY <2>1 DEF Scans, ScanStarts, ScanMisses, ScanReads, ScanOpens, ScanWrites, ScanFails, ScanRestores,
                Starts, Continues, Appends, Ended
  <2> QED BY <1>2, <2>1, <2>2, StampStep DEF OnlyMoves
<1>4. ASSUME NEW s \in Sessions, NEW failed \in BOOLEAN, LoadsLog(s, failed) PROVE CacheInv'
  <2> DEFINE entry == Entry(s, failed)
  <2>1. /\ work[s].at = "load" /\ work' = [work EXCEPT ![s] = Resting] /\ log' = log
        /\ pages' = pages \cup {entry}
    BY <1>4 DEF LoadsLog, files, Entry, Read
  <2>2. work[s].signature[1] \in Nat /\ work[s].signature[1] <= log.stamp
    BY <2>1, SessionsAreActors DEF CacheInv
  <2>3. \A a \in Actors : work'[a].at = "load" => work'[a] = work[a]
    BY <1>1, <2>1 DEF Resting
  <2>4. entry.signature = work[s].signature /\ IsTrue(entry, log)
    BY AbsentIsEmpty DEF Entry, Read, IsTrue
  <2> HIDE DEF entry
  <2> QED BY <2>1, <2>2, <2>3, <2>4 DEF CacheInv
<1>5. ASSUME NEW s \in Sessions, BuildsContext(s) PROVE CacheInv'
  <2>1. /\ log' = log /\ pages' = pages
        /\ \/ Goes(s, "idle")
           \/ work' = [work EXCEPT ![s].at = "load", ![s].signature = Signature(log)]
    BY <1>5 DEF BuildsContext, files
  <2>2. CASE Goes(s, "idle")
    <3>1. \A a \in Actors : a # s => work'[a] = work[a]
      BY <1>1, <2>2, SessionsAreActors DEF Goes
    <3>2. work'[s].at = "idle"
      BY <2>2, GoesEffect, SessionsAreActors DEF NotScanning
    <3> QED BY <1>2, <2>1, <3>1, <3>2
  <2>3. CASE work' = [work EXCEPT ![s].at = "load", ![s].signature = Signature(log)]
    <3>1. s \in Actors
      BY SessionsAreActors
    <3>2. /\ \A a \in Actors \ {s} : work'[a] = work[a]
          /\ work'[s] = [work[s] EXCEPT !.at = "load", !.signature = Signature(log)]
      BY <1>1, <2>3, <3>1
    <3>3. work'[s].signature = Signature(log)
      BY <1>1, <3>1, <3>2 DEF Fields
    <3> QED BY <2>1, <3>2, <3>3, SignatureOf DEF CacheInv
  <2> QED BY <2>1, <2>2, <2>3
<1>6. ASSUME NEW s \in Sessions, Browses(s) \/ ClearsResult(s) \/ Refreshes(s) \/ Retrains(s)
      PROVE  CacheInv'
  <2>1. Clicks(s) /\ log' = log /\ pages' = pages
    BY <1>6 DEF Browses, ClearsResult, Refreshes, Retrains, Clicks, files
  <2>2. \A a \in Actors : a # s => work'[a] = work[a]
    BY <1>1, <2>1, SessionsAreActors DEF Clicks, Goes
  <2>3. work'[s].at = "page"
    BY <2>1, GoesEffect, SessionsAreActors DEF Clicks, NotScanning
  <2> QED BY <1>2, <2>1, <2>2, <2>3
<1>7. ASSUME NEW p \in Programs, Dies(p) PROVE CacheInv'
  <2>1. /\ log' = log /\ work' = [a \in Actors |-> IF Process(a) = p THEN Resting ELSE work[a]]
        /\ pages' = {} \/ pages' = pages
    BY <1>7 DEF Dies, files, screens
  <2>2. \A a \in Actors : work'[a].at = "load" => work'[a] = work[a]
    BY <2>1 DEF Resting
  <2> QED BY <1>2, <2>1, <2>2
<1>8. ASSUME pages' = pages, log' = log, work' = work PROVE CacheInv'
  BY <1>2, <1>8
<1>9. ASSUME NEW p \in Programs, TrainsModel(p) \/ EmptiesBaseline(p) \/ SavesBaseline(p)
      PROVE  CacheInv'
  BY <1>8, <1>9 DEF TrainsModel, EmptiesBaseline, SavesBaseline, files, screens
<1>10. ASSUME NEW t \in DOMAIN live, SnapshotExpires(t) PROVE CacheInv'
  BY <1>8, <1>10 DEF SnapshotExpires, files
<1>11. ASSUME NEW probes \in SUBSET Fallible, HostChanges(probes) PROVE CacheInv'
  BY <1>8, <1>11 DEF HostChanges, files, screens
<1>12. CASE UNCHANGED vars
  BY <1>8, <1>12 DEF vars, files, screens
<1> QED BY <1>3, <1>4, <1>5, <1>6, <1>7, <1>9, <1>10, <1>11, <1>12 DEF Next, PageStep

----------------------------------------------------------------------------
(* What the tabs show *)

Live == [failed : SUBSET Probes, stale : SUBSET Sessions]

ScreensOK ==
    /\ token \in [Sessions -> Nat] /\ failing \subseteq Probes
    /\ result = [s \in Sessions |-> result[s]] /\ DOMAIN page = Sessions
    /\ \A t \in DOMAIN live : live[t] \in Live
    /\ \A s \in Sessions : /\ DOMAIN page[s] = {"rows", "failed", "rollup", "stale"}
                           /\ page[s].failed \subseteq Probes /\ page[s].stale \in BOOLEAN

\* The end of the scan of a tab; every other step of a scan leaves the screens alone.
ScanShows(a) ==
    /\ page' = page /\ pages' = pages /\ failing' = failing
    /\ \/ token' = token /\ live' = live /\ result' = result
       \/ /\ a \in Sessions /\ Refresh(a) /\ work'[a].at = "page"
          /\ \/ result' = result
             \/ work[a].ok /\ result' = [result EXCEPT ![a] = work[a].row]

LEMMA ScanScreens ==
    ASSUME FilesOK, ScreensOK, NEW a \in Actors, ScanStep(a)
    PROVE  ScanShows(a) /\ Scans(a)
<1> SUFFICES ScanShows(a)
  BY ScanEffect
<1>1. DOMAIN work = Actors /\ result = [s \in Sessions |-> result[s]]
  BY DEF FilesOK, ScreensOK
<1>2. ASSUME NEW ok, NEW errors, ScanEnds(a, ok, errors), failing' = failing, ok => work[a].ok
      PROVE  ScanShows(a)
  <2>1. CASE a \in Sessions
    <3>1. /\ page' = page /\ pages' = pages /\ Refresh(a)
          /\ result' = [result EXCEPT ![a] = IF ok THEN work[a].row ELSE @]
          /\ work' = [work EXCEPT ![a] = [Resting EXCEPT !.at = "page"]]
      BY <1>2, <2>1 DEF ScanEnds, SessionEnds
    <3>2. work'[a].at = "page"
      BY <1>1, <3>1, RestingWork
    <3>3. [result EXCEPT ![a] = @] = result
      <4>1. ASSUME NEW f, f = [s \in Sessions |-> f[s]] PROVE [f EXCEPT ![a] = @] = f
        BY <2>1, <4>1
      <4> QED BY <1>1, <4>1
    <3>4. result' = result \/ (work[a].ok /\ result' = [result EXCEPT ![a] = work[a].row])
      BY <1>2, <3>1, <3>3
    <3> QED BY <1>2, <2>1, <3>1, <3>2, <3>4 DEF ScanShows
  <2>2. CASE a \notin Sessions
    BY <1>2, <2>2 DEF ScanEnds, TerminalEnds, ScanShows, screens
  <2> QED BY <2>1, <2>2
<1>3. ASSUME NEW ok, AfterAppend(a, ok), failing' = failing, ok => work[a].ok PROVE ScanShows(a)
  BY <1>2, <1>3 DEF AfterAppend, ScanShows, screens
<1>4. CASE \/ \E demo \in BOOLEAN : StartsScan(a, demo)
           \/ CaptureFails(a)
           \/ \E failed \in BOOLEAN : ReadsLog(a, failed)
           \/ OpensLog(a) \/ RestoreOpens(a)
  BY <1>4 DEF StartsScan, CaptureFails, ReadsLog, OpensLog, RestoreOpens, ScanShows, screens
<1>5. CASE WritesLog(a) \/ AppendFails(a) \/ AppendBreaks(a)
  <2>1. work[a].at = "write" => work[a].ok
    BY DEF FilesOK, WorkOK, Logging
  <2> QED BY <1>3, <1>5, <2>1 DEF WritesLog, AppendFails, AppendBreaks
<1>6. CASE RestoreWrites(a) \/ RestoreUnlinks(a) \/ RestoreFails(a)
  BY <1>2, <1>6 DEF RestoreWrites, RestoreUnlinks, RestoreFails
<1> QED BY <1>4, <1>5, <1>6 DEF ScanStep

LEMMA RefreshLive ==
    ASSUME ScreensOK, NEW s \in Sessions, Refresh(s)
    PROVE  /\ token' \in [Sessions -> Nat] /\ token'[s] = token[s] + 1
           /\ \A a \in Sessions : a # s => token'[a] = token[a]
           /\ \A t \in DOMAIN live' :
                 /\ t \in DOMAIN live /\ live'[t] \in Live
                 /\ live'[t].stale = live[t].stale \cup {s}
<1>1. /\ token \in [Sessions -> Nat] /\ token' = [token EXCEPT ![s] = @ + 1]
      /\ live' = [t \in {u \in DOMAIN live : \E b \in Sessions : u >= token'[b]}
                      |-> [live[t] EXCEPT !.stale = @ \cup {s}]]
  BY DEF ScreensOK, Refresh
<1>2. /\ token' \in [Sessions -> Nat] /\ token'[s] = token[s] + 1
      /\ \A a \in Sessions : a # s => token'[a] = token[a]
  BY <1>1
<1>3. ASSUME NEW t \in DOMAIN live'
      PROVE  /\ t \in DOMAIN live /\ live'[t] \in Live
             /\ live'[t].stale = live[t].stale \cup {s}
  <2>1. t \in DOMAIN live /\ live'[t] = [live[t] EXCEPT !.stale = @ \cup {s}]
    BY <1>1, <1>3
  <2>2. live[t] \in Live
    BY <2>1 DEF ScreensOK
  <2> QED BY <2>1, <2>2 DEF Live
<1> QED BY <1>2, <1>3

\* _build_context(), as it concerns the screens
LEMMA ContextShows ==
    ASSUME FilesOK, ScreensOK, NEW s \in Sessions, BuildsContext(s)
    PROVE  LET snapshot == Snapshot(token[s])
           IN  /\ snapshot \in Live
               /\ token' = token /\ result' = result /\ pages' = pages /\ failing' = failing
               /\ live' = [t \in DOMAIN live \cup {token[s]} |-> Snapshot(t)]
               /\ \A a \in Actors \ {s} : work'[a] = work[a]
               /\ DOMAIN page' = Sessions /\ \A a \in Sessions \ {s} : page'[a] = page[a]
               /\ DOMAIN page'[s] = {"rows", "failed", "rollup", "stale"}
               /\ page'[s].failed = snapshot.failed /\ page'[s].rollup = Rollup(snapshot.failed)
               /\ page'[s].stale = (s \in snapshot.stale)
               /\ \/ page'[s].rows = page[s].rows
                  \/ \E entry \in Cached(Signature(log)) : page'[s].rows = entry.rows
<1> DEFINE snapshot == Snapshot(token[s])
           known == Cached(Signature(log))
           shown == [page[s] EXCEPT !.failed = snapshot.failed, !.stale = s \in snapshot.stale,
                                    !.rollup = Rollup(snapshot.failed)]
<1>1. /\ token' = token /\ result' = result /\ pages' = pages /\ failing' = failing
      /\ live' = [t \in DOMAIN live \cup {token[s]} |-> Snapshot(t)]
      /\ \/ /\ work' = [work EXCEPT ![s].at = "load", ![s].signature = Signature(log)]
            /\ page' = [page EXCEPT ![s] = shown]
         \/ /\ Goes(s, "idle")
            /\ \E entry \in known : page' = [page EXCEPT ![s] = [shown EXCEPT !.rows = entry.rows]]
  BY DEF BuildsContext
<1>2. DOMAIN work = Actors /\ s \in Actors
  BY SessionsAreActors DEF FilesOK
<1>3. \A a \in Actors \ {s} : work'[a] = work[a]
  BY <1>1, <1>2 DEF Goes
<1>4. snapshot \in Live
  BY DEF Snapshot, Live, ScreensOK
<1> HIDE DEF snapshot, known
<1>5. /\ DOMAIN page = Sessions
      /\ DOMAIN page[s] = {"rows", "failed", "rollup", "stale"}
  BY DEF ScreensOK
<1>6. /\ DOMAIN shown = {"rows", "failed", "rollup", "stale"} /\ shown.rows = page[s].rows
      /\ shown.failed = snapshot.failed /\ shown.rollup = Rollup(snapshot.failed)
      /\ shown.stale = (s \in snapshot.stale)
  BY <1>5
<1> HIDE DEF shown
<1>7. CASE page' = [page EXCEPT ![s] = shown]
  BY <1>1, <1>3, <1>4, <1>5, <1>6, <1>7 DEF snapshot, known
<1>8. ASSUME NEW entry \in known, page' = [page EXCEPT ![s] = [shown EXCEPT !.rows = entry.rows]]
      PROVE  /\ DOMAIN page' = Sessions /\ \A a \in Sessions \ {s} : page'[a] = page[a]
             /\ DOMAIN page'[s] = {"rows", "failed", "rollup", "stale"}
             /\ page'[s].failed = snapshot.failed /\ page'[s].rollup = Rollup(snapshot.failed)
             /\ page'[s].stale = (s \in snapshot.stale) /\ page'[s].rows = entry.rows
  BY <1>5, <1>6, <1>8
<1> QED BY <1>1, <1>3, <1>4, <1>7, <1>8 DEF snapshot, known

\* The log as the page cache knows it, for a tab.
LEMMA LoadShows ==
    ASSUME FilesOK, ScreensOK, NEW s \in Sessions, NEW failed \in BOOLEAN, LoadsLog(s, failed)
    PROVE  /\ token' = token /\ result' = result /\ failing' = failing /\ live' = live
           /\ work[s].at = "load" /\ \A a \in Actors \ {s} : work'[a] = work[a]
           /\ pages' = pages \cup {Entry(s, failed)}
           /\ DOMAIN page' = Sessions /\ \A a \in Sessions \ {s} : page'[a] = page[a]
           /\ DOMAIN page'[s] = {"rows", "failed", "rollup", "stale"}
           /\ page'[s].failed = page[s].failed /\ page'[s].rollup = page[s].rollup
           /\ page'[s].stale = page[s].stale /\ page'[s].rows = Read(failed)
<1>1. DOMAIN work = Actors /\ s \in Actors /\ DOMAIN page = Sessions
      /\ DOMAIN page[s] = {"rows", "failed", "rollup", "stale"}
  BY SessionsAreActors DEF FilesOK, ScreensOK
<1>2. /\ page' = [page EXCEPT ![s].rows = Read(failed)] /\ work' = [work EXCEPT ![s] = Resting]
      /\ token' = token /\ result' = result /\ failing' = failing /\ live' = live
      /\ pages' = pages \cup {Entry(s, failed)}
      /\ work[s].at = "load"
  BY DEF LoadsLog, Read, Entry
<1>3. page'[s] = [page[s] EXCEPT !.rows = Read(failed)]
  BY <1>1, <1>2
<1> QED BY <1>1, <1>2, <1>3

\* The steps, as they concern the screens.
Quiet ==
    /\ token' = token /\ result' = result /\ pages' = pages /\ page' = page
    /\ failing' \subseteq Probes
    /\ \A t \in DOMAIN live' : t \in DOMAIN live /\ live'[t] = live[t]
    /\ \A s \in Sessions : work'[s].at # "page" => work[s].at # "page"

Renews(s) ==
    /\ Refresh(s) /\ page' = page /\ pages' = pages /\ failing' = failing
    /\ work'[s].at = "page" /\ \A a \in Sessions \ {s} : work'[a] = work[a]
    /\ result' = [a \in Sessions |-> result'[a]]
    /\ \A a \in Sessions : \/ result'[a] = result[a] \/ result'[a] = Nothing
                           \/ /\ a = s /\ InScan(s) /\ work[s].ok
                              /\ result'[s] = work[s].row

Restarts ==
    /\ result' = [s \in Sessions |-> Nothing] /\ token' = [s \in Sessions |-> 0]
    /\ DOMAIN live' = {} /\ pages' = {} /\ page' = [s \in Sessions |-> Blank]
    /\ failing' = failing

Loads(s) == \E failed \in BOOLEAN : LoadsLog(s, failed)

LEMMA ScreenSteps ==
    ASSUME FilesOK, ScreensOK, [Next]_vars
    PROVE  \/ Quiet \/ Restarts
           \/ \E s \in Sessions : Renews(s) \/ BuildsContext(s) \/ Loads(s)
<1>1. /\ DOMAIN work = Actors /\ failing \subseteq Probes
      /\ result = [s \in Sessions |-> result[s]]
  BY DEF FilesOK, ScreensOK
<1>2. ASSUME NEW a \in Actors, ScanStep(a)
      PROVE  Quiet \/ \E s \in Sessions : Renews(s)
  <2>1. ScanShows(a) /\ Scans(a)
    BY <1>2, ScanScreens
  <2>2. /\ OnlyMoves(a) /\ work[a].at # "page"
        /\ ~ InScan(a) => work'[a].at \in {"append", "restore"}
    BY <2>1 DEF Scans, ScanStarts, ScanMisses, ScanReads, ScanOpens, ScanWrites, ScanFails, ScanRestores,
                Starts, Continues, Appends, Ended, InScan, Scanning
  <2>3. CASE token' = token /\ live' = live /\ result' = result
    <3>1. \A s \in Sessions : work'[s].at # "page" => work[s].at # "page"
      BY <2>2, SessionsAreActors DEF OnlyMoves
    <3> QED BY <1>1, <2>1, <2>3, <3>1 DEF ScanShows, Quiet
  <2>4. CASE /\ a \in Sessions /\ Refresh(a) /\ work'[a].at = "page"
             /\ \/ result' = result
                \/ work[a].ok /\ result' = [result EXCEPT ![a] = work[a].row]
    <3>1. InScan(a) /\ \A s \in Sessions \ {a} : work'[s] = work[s]
      BY <2>2, <2>4, SessionsAreActors DEF OnlyMoves
    <3>2. /\ result' = [s \in Sessions |-> result'[s]]
          /\ \A s \in Sessions : \/ result'[s] = result[s]
                                 \/ s = a /\ work[a].ok /\ result'[a] = work[a].row
      BY <1>1, <2>4
    <3>3. Renews(a)
      BY <2>1, <2>4, <3>1, <3>2 DEF Renews, ScanShows
    <3> QED BY <2>4, <3>3
  <2> QED BY <2>1, <2>3, <2>4 DEF ScanShows
<1>3. ASSUME NEW s \in Sessions, Browses(s) \/ ClearsResult(s) \/ Refreshes(s) \/ Retrains(s)
      PROVE  Quiet \/ Renews(s)
  <2>1. /\ Clicks(s) /\ page' = page /\ pages' = pages /\ failing' = failing
    BY <1>3 DEF Browses, ClearsResult, Refreshes, Retrains, Clicks
  <2>2. work'[s].at = "page" /\ \A a \in Sessions \ {s} : work'[a] = work[a]
    BY <2>1, GoesEffect, SessionsAreActors DEF Clicks, NotScanning
  <2>3. CASE Browses(s) \/ Retrains(s)
    BY <1>1, <2>1, <2>2, <2>3 DEF Quiet, Browses, Retrains
  <2>4. CASE ClearsResult(s) \/ Refreshes(s)
    <3>1. /\ Refresh(s)
          /\ result' = result \/ result' = [result EXCEPT ![s] = Nothing]
      BY <2>4 DEF ClearsResult, Refreshes
    <3>2. /\ result' = [a \in Sessions |-> result'[a]]
          /\ \A a \in Sessions : result'[a] = result[a] \/ result'[a] = Nothing
      BY <1>1, <3>1
    <3>3. Refresh(s)
      BY <2>4 DEF ClearsResult, Refreshes
    <3> QED BY <2>1, <2>2, <3>2, <3>3 DEF Renews
  <2> QED BY <1>3, <2>3, <2>4
<1>4. ASSUME NEW p \in Programs, Dies(p) PROVE Quiet \/ Restarts
  <2>1. /\ work' = [a \in Actors |-> IF Process(a) = p THEN Resting ELSE work[a]]
        /\ failing' = failing
        /\ IF p = Server
           THEN /\ result' = [s \in Sessions |-> Nothing] /\ banner' = [s \in Sessions |-> {}]
                /\ token' = [s \in Sessions |-> 0] /\ live' = <<>> /\ pages' = {}
                /\ page' = [s \in Sessions |-> Blank]
           ELSE UNCHANGED screens
    BY <1>4 DEF Dies
  <2>2. CASE p = Server
    <3>1. DOMAIN live' = {}
      BY <2>1, <2>2
    <3> QED BY <2>1, <2>2, <3>1 DEF Restarts
  <2>3. CASE p # Server
    <3>1. \A s \in Sessions : work'[s] = work[s]
      BY <2>1, <2>3, SessionsAreActors DEF Process
    <3> QED BY <1>1, <2>1, <2>3, <3>1 DEF Quiet, screens
  <2> QED BY <2>2, <2>3
<1>5. ASSUME NEW t \in DOMAIN live, SnapshotExpires(t) PROVE Quiet
  BY <1>1, <1>5 DEF SnapshotExpires, Quiet
<1>6. ASSUME NEW probes \in SUBSET Fallible, HostChanges(probes) PROVE Quiet
  BY <1>6, FallibleAssumption DEF HostChanges, Quiet, screens
<1>7. ASSUME NEW p \in Programs, TrainsModel(p) \/ EmptiesBaseline(p) \/ SavesBaseline(p)
      PROVE  Quiet
  BY <1>1, <1>7 DEF TrainsModel, EmptiesBaseline, SavesBaseline, Quiet, screens
<1>8. CASE UNCHANGED vars
  BY <1>1, <1>8 DEF vars, screens, Quiet
<1> QED BY <1>2, <1>3, <1>4, <1>5, <1>6, <1>7, <1>8 DEF Next, PageStep, Loads

LEMMA ScreensInit == ASSUME Init PROVE ScreensOK
<1>1. /\ DOMAIN Blank = {"rows", "failed", "rollup", "stale"} /\ Blank.failed = {}
      /\ Blank.stale = FALSE
  BY DEF Blank
<1>2. /\ token = [s \in Sessions |-> 0] /\ DOMAIN live = {} /\ failing = {}
      /\ page = [s \in Sessions |-> Blank] /\ result = [s \in Sessions |-> Nothing]
  BY DEF Init
<1> QED BY <1>1, <1>2 DEF ScreensOK

LEMMA ScreensStep == ASSUME FilesOK, ScreensOK, [Next]_vars PROVE ScreensOK'
<1>1. /\ token \in [Sessions -> Nat] /\ failing \subseteq Probes
      /\ result = [s \in Sessions |-> result[s]] /\ DOMAIN page = Sessions
      /\ \A t \in DOMAIN live : live[t] \in Live
      /\ \A s \in Sessions : /\ DOMAIN page[s] = {"rows", "failed", "rollup", "stale"}
                             /\ page[s].failed \subseteq Probes /\ page[s].stale \in BOOLEAN
  BY DEF ScreensOK
<1>2. CASE Quiet
  BY <1>1, <1>2 DEF Quiet, ScreensOK
<1>3. CASE Restarts
  <2>1. /\ DOMAIN Blank = {"rows", "failed", "rollup", "stale"} /\ Blank.failed = {}
        /\ Blank.stale = FALSE
    BY DEF Blank
  <2> QED BY <1>1, <1>3, <2>1 DEF Restarts, ScreensOK
<1>4. ASSUME NEW s \in Sessions, Renews(s) PROVE ScreensOK'
  BY <1>1, <1>4, RefreshLive DEF Renews, ScreensOK
<1>5. ASSUME NEW s \in Sessions, BuildsContext(s) PROVE ScreensOK'
  <2> DEFINE snapshot == Snapshot(token[s])
  <2>1. /\ snapshot \in Live
        /\ token' = token /\ result' = result /\ failing' = failing
        /\ live' = [t \in DOMAIN live \cup {token[s]} |-> Snapshot(t)]
        /\ DOMAIN page' = Sessions /\ \A a \in Sessions \ {s} : page'[a] = page[a]
        /\ DOMAIN page'[s] = {"rows", "failed", "rollup", "stale"}
        /\ page'[s].failed = snapshot.failed /\ page'[s].stale = (s \in snapshot.stale)
    BY <1>5, ContextShows
  <2>2. \A t \in DOMAIN live' : live'[t] \in Live
    <3>1. ASSUME NEW t \in DOMAIN live PROVE Snapshot(t) = live[t]
      BY <3>1 DEF Snapshot
    <3> HIDE DEF snapshot
    <3>2. \A t \in DOMAIN live' : live'[t] = Snapshot(t) /\ (t = token[s] \/ t \in DOMAIN live)
      BY <2>1
    <3> QED BY <1>1, <2>1, <3>1, <3>2 DEF snapshot
  <2>3. snapshot.failed \subseteq Probes /\ (s \in snapshot.stale) \in BOOLEAN
    <3> HIDE DEF snapshot
    <3> QED BY <2>1 DEF Live
  <2> HIDE DEF snapshot
  <2>4. ASSUME NEW a \in Sessions
        PROVE  /\ DOMAIN page'[a] = {"rows", "failed", "rollup", "stale"}
               /\ page'[a].failed \subseteq Probes /\ page'[a].stale \in BOOLEAN
    <3>1. CASE a = s
      BY <2>1, <2>3, <3>1
    <3>2. CASE a # s
      BY <1>1, <2>1, <3>2
    <3> QED BY <3>1, <3>2
  <2> QED BY <1>1, <2>1, <2>2, <2>4 DEF ScreensOK
<1>6. ASSUME NEW s \in Sessions, NEW failed \in BOOLEAN, LoadsLog(s, failed) PROVE ScreensOK'
  BY <1>1, <1>6, LoadShows DEF ScreensOK
<1> QED BY <1>2, <1>3, <1>4, <1>5, <1>6, ScreenSteps DEF Loads

----------------------------------------------------------------------------
(* The refresh token, and the readings cached under it *)

FreshInv ==
    /\ \A t \in DOMAIN live :
          /\ t \in Nat /\ \E b \in Sessions : token[b] >= t
          /\ \A s \in Sessions : s \in live[t].stale /\ token[s] <= t =>
                \E other \in Sessions \ {s} : token[other] >= t
    /\ RefreshShowsNewReadings

LEMMA FreshInit == ASSUME Init PROVE FreshInv
<1>1. /\ DOMAIN live = {} /\ page = [s \in Sessions |-> Blank] /\ Blank.stale = FALSE
  BY DEF Init, Blank
<1> QED BY <1>1 DEF FreshInv, RefreshShowsNewReadings

LEMMA FreshStep == ASSUME FilesOK, ScreensOK, FreshInv, [Next]_vars PROVE FreshInv'
<1>1. /\ token \in [Sessions -> Nat]
      /\ \A s \in Sessions : page[s].stale /\ work[s].at # "page" =>
            \E other \in Sessions \ {s} : token[other] >= token[s]
  BY DEF ScreensOK, FreshInv, RefreshShowsNewReadings
<1>2. \A t \in DOMAIN live :
          /\ t \in Nat /\ \E b \in Sessions : token[b] >= t
          /\ \A s \in Sessions : s \in live[t].stale /\ token[s] <= t =>
                \E other \in Sessions \ {s} : token[other] >= t
  BY DEF FreshInv
<1>3. CASE Quiet
  BY <1>1, <1>2, <1>3 DEF Quiet, FreshInv, RefreshShowsNewReadings
<1>4. CASE Restarts
  <2>1. Blank.stale = FALSE
    BY DEF Blank
  <2> QED BY <1>4, <2>1 DEF Restarts, FreshInv, RefreshShowsNewReadings
\* s throws its token away: what was read before is out of its reach, unless another
\* counter has come as far.
<1>5. ASSUME NEW s \in Sessions, Renews(s) PROVE FreshInv'
  <2>1. /\ token' \in [Sessions -> Nat] /\ token'[s] = token[s] + 1
        /\ \A a \in Sessions : a # s => token'[a] = token[a]
        /\ \A t \in DOMAIN live' : t \in DOMAIN live /\ live'[t].stale = live[t].stale \cup {s}
    BY <1>5, RefreshLive DEF Renews
  <2>2. \A a \in Sessions : token'[a] >= token[a] /\ token[a] \in Nat /\ token'[a] \in Nat
    BY <1>1, <2>1
  <2>3. ASSUME NEW t \in DOMAIN live'
        PROVE  /\ t \in Nat /\ \E b \in Sessions : token'[b] >= t
               /\ \A a \in Sessions : a \in live'[t].stale /\ token'[a] <= t =>
                     \E other \in Sessions \ {a} : token'[other] >= t
    <3>1. /\ t \in Nat
          /\ \A a \in Sessions : a \in live[t].stale /\ token[a] <= t =>
                \E other \in Sessions \ {a} : token[other] >= t
      BY <1>2, <2>1
    <3>2. PICK b \in Sessions : token[b] >= t
      BY <1>2, <2>1
    <3>3. token'[b] >= t
      BY <2>2, <3>1, <3>2
    <3>4. ASSUME NEW a \in Sessions, a \in live'[t].stale, token'[a] <= t
          PROVE  \E other \in Sessions \ {a} : token'[other] >= t
      <4>1. CASE a = s
        <5>1. b # s
          BY <2>1, <2>2, <3>1, <3>2, <3>4, <4>1
        <5> QED BY <3>3, <4>1, <5>1
      <4>2. CASE a # s
        <5>1. token[a] <= t /\ a \in live[t].stale
          BY <2>1, <3>4, <4>2
        <5>2. PICK other \in Sessions \ {a} : token[other] >= t
          BY <3>1, <5>1
        <5> QED BY <2>2, <3>1, <5>2
      <4> QED BY <4>1, <4>2
    <3> QED BY <3>1, <3>3, <3>4
  <2>4. ASSUME NEW a \in Sessions, page'[a].stale, work'[a].at # "page"
        PROVE  \E other \in Sessions \ {a} : token'[other] >= token'[a]
    <3>1. a # s /\ work[a].at # "page" /\ page[a].stale
      BY <1>5, <2>4 DEF Renews
    <3>2. PICK other \in Sessions \ {a} : token[other] >= token[a]
      BY <1>1, <3>1
    <3> QED BY <2>1, <2>2, <3>1, <3>2
  <2> QED BY <2>3, <2>4 DEF FreshInv, RefreshShowsNewReadings
<1>6. ASSUME NEW s \in Sessions, BuildsContext(s) PROVE FreshInv'
  <2> DEFINE snapshot == Snapshot(token[s])
  <2>1. /\ token' = token
        /\ live' = [t \in DOMAIN live \cup {token[s]} |-> Snapshot(t)]
        /\ \A a \in Actors \ {s} : work'[a] = work[a]
        /\ \A a \in Sessions \ {s} : page'[a] = page[a]
        /\ page'[s].stale = (s \in snapshot.stale)
    BY <1>6, ContextShows
  <2>2. ASSUME NEW t
        PROVE  /\ t \in DOMAIN live => Snapshot(t) = live[t]
               /\ t \notin DOMAIN live => Snapshot(t).stale = {}
    BY DEF Snapshot
  <2> HIDE DEF snapshot
  <2>3. ASSUME NEW t \in DOMAIN live'
        PROVE  /\ t \in Nat /\ \E b \in Sessions : token[b] >= t
               /\ \A a \in Sessions : a \in live'[t].stale /\ token[a] <= t =>
                     \E other \in Sessions \ {a} : token[other] >= t
    <3>1. live'[t] = Snapshot(t) /\ (t = token[s] \/ t \in DOMAIN live)
      BY <2>1
    <3>2. CASE t \in DOMAIN live
      BY <1>2, <2>2, <3>1, <3>2
    <3>3. CASE t = token[s] /\ t \notin DOMAIN live
      <4>1. live'[t].stale = {} /\ t \in Nat /\ token[s] >= t
        BY <1>1, <2>2, <3>1, <3>3
      <4> QED BY <4>1
    <3> QED BY <3>1, <3>2, <3>3
  <2>4. ASSUME NEW a \in Sessions, page'[a].stale, work'[a].at # "page"
        PROVE  \E other \in Sessions \ {a} : token[other] >= token[a]
    <3>1. CASE a = s
      <4>1. s \in snapshot.stale
        BY <2>1, <2>4, <3>1
      <4>2. token[s] \in DOMAIN live /\ s \in live[token[s]].stale
        BY <2>2, <4>1 DEF snapshot
      <4>3. token[s] <= token[s]
        BY <1>1
      <4> QED BY <1>2, <3>1, <4>2, <4>3
    <3>2. CASE a # s
      BY <1>1, <2>1, <2>4, <3>2, SessionsAreActors
    <3> QED BY <3>1, <3>2
  <2> QED BY <2>1, <2>3, <2>4 DEF FreshInv, RefreshShowsNewReadings
<1>7. ASSUME NEW s \in Sessions, NEW failed \in BOOLEAN, LoadsLog(s, failed) PROVE FreshInv'
  <2>1. /\ token' = token /\ live' = live /\ work[s].at = "load"
        /\ \A a \in Actors \ {s} : work'[a] = work[a]
        /\ \A a \in Sessions \ {s} : page'[a] = page[a]
        /\ page'[s].stale = page[s].stale
    BY <1>7, LoadShows
  <2>2. ASSUME NEW a \in Sessions, page'[a].stale, work'[a].at # "page"
        PROVE  \E other \in Sessions \ {a} : token[other] >= token[a]
    <3>1. page[a].stale /\ work[a].at # "page"
      BY <2>1, <2>2, SessionsAreActors
    <3> QED BY <1>1, <3>1
  <2> QED BY <1>2, <2>1, <2>2 DEF FreshInv, RefreshShowsNewReadings
<1> QED BY <1>3, <1>4, <1>5, <1>6, <1>7, ScreenSteps DEF Loads

----------------------------------------------------------------------------
(* The health of the sensors *)

\* Of all probes, only four can fail without anything the page assesses showing it.
LEMMA HealthyRollup ==
    ASSUME NEW failed, failed \subseteq Probes, Rollup(failed) = "HEALTHY"
    PROVE  failed \subseteq {"usage", "disk_io", "battery", "camera"}
<1> DEFINE snapshot == FullSnapshot(failed, CameraProbe)
           connections == ConnectionSnapshot(failed)
           health == SensorHealth(snapshot, connections, CameraProbe)
           broken == WithStatus(health, {"UNAVAILABLE", "DEGRADED"})
           limited == WithStatus(health, {"PERMISSION_LIMITED"})
<1>1. broken = {} /\ limited = {}
  <2>1. Rollup(failed) = HealthRollup(health)
    BY DEF Rollup
  <2> HIDE DEF health
  <2>2. \A x : Or(x, "UNAVAILABLE", "DEGRADED") # "HEALTHY"
    BY DEF Or
  <2> QED BY <2>1, <2>2 DEF HealthRollup, Or
<1>2. /\ health = <<HostHealth(snapshot), TrafficHealth(snapshot, connections),
                   DeviceHealth(snapshot, CameraProbe)>>
      /\ DOMAIN health = {1, 2, 3}
  BY DEF SensorHealth
<1>3. /\ \A name \in DOMAIN HostHealth(snapshot) : HostHealth(snapshot)[name] # "UNAVAILABLE"
      /\ \A name \in DOMAIN TrafficHealth(snapshot, connections) :
            TrafficHealth(snapshot, connections)[name] \notin
                {"UNAVAILABLE", "DEGRADED", "PERMISSION_LIMITED"}
      /\ \A name \in DOMAIN DeviceHealth(snapshot, CameraProbe) :
            DeviceHealth(snapshot, CameraProbe)[name] # "UNAVAILABLE"
  <2> HIDE DEF snapshot, connections
  <2> QED BY <1>1, <1>2 DEF WithStatus
<1>4. /\ snapshot.cpu.logical_cores = Measured(failed, "cores")
      /\ snapshot.memory.total_gb = Measured(failed, "memory")
      /\ snapshot.disk.total_gb = Measured(failed, "disk")
      /\ snapshot.network.bytes = Measured(failed, "network")
      /\ snapshot.network.active_interfaces = Measured(failed, "interfaces")
      /\ snapshot.process_count = Measured(failed, "processes")
      /\ snapshot.uptime.uptime_seconds = Measured(failed, "boot")
      /\ connections.connection_count = Measured(failed, "sockets")
  BY DEF FullSnapshot, CpuInfo, MemoryInfo, DiskInfo, NetworkInfo, SampleNetwork, ProcessCount,
         SystemUptime, ConnectionSnapshot
<1> HIDE DEF snapshot, connections, health
<1>5. /\ Measured(failed, "cores") # 0 /\ Measured(failed, "memory") # 0
      /\ Measured(failed, "disk") # 0
  <2>1. /\ {"cpu", "memory", "disk"} \subseteq DOMAIN HostHealth(snapshot)
        /\ HostHealth(snapshot).cpu = Or(snapshot.cpu.logical_cores = 0, "UNAVAILABLE", "HEALTHY")
        /\ HostHealth(snapshot).memory = Or(snapshot.memory.total_gb = 0, "UNAVAILABLE", "HEALTHY")
        /\ HostHealth(snapshot).disk = Or(snapshot.disk.total_gb = 0, "UNAVAILABLE", "HEALTHY")
    BY DEF HostHealth
  <2> QED BY <1>3, <1>4, <2>1 DEF Or
<1>6. /\ Measured(failed, "network") # 0 /\ Measured(failed, "interfaces") # 0
      /\ Measured(failed, "processes") # 0 /\ Measured(failed, "sockets") # 0
  <2> DEFINE traffic == TrafficHealth(snapshot, connections)
  <2>1. /\ {"network", "processes", "sockets"} \subseteq DOMAIN traffic
        /\ traffic.network = Or(snapshot.network.bytes = 0, "UNAVAILABLE",
               Or(snapshot.network.active_interfaces = 0, "DEGRADED", "HEALTHY"))
        /\ traffic.processes = Or(snapshot.process_count = 0, "UNAVAILABLE", "HEALTHY")
        /\ traffic.sockets = Or(connections.connection_count = 0, "PERMISSION_LIMITED", "HEALTHY")
    BY DEF TrafficHealth
  <2> QED BY <1>3, <1>4, <2>1 DEF Or
<1>7. Measured(failed, "boot") # 0
  <2>1. /\ "uptime" \in DOMAIN DeviceHealth(snapshot, CameraProbe)
        /\ DeviceHealth(snapshot, CameraProbe).uptime =
               Or(snapshot.uptime.uptime_seconds = 0, "UNAVAILABLE", "HEALTHY")
    BY DEF DeviceHealth
  <2> QED BY <1>3, <1>4, <2>1 DEF Or
<1>8. \A probe : Measured(failed, probe) # 0 => probe \notin failed
  BY DEF Measured
<1> QED BY <1>5, <1>6, <1>7, <1>8 DEF Probes

HealthInv == \A s \in Sessions : page[s].rollup \in {"UNAVAILABLE", Rollup(page[s].failed)}

LEMMA HealthInit == ASSUME Init PROVE HealthInv
BY DEF Init, Blank, HealthInv

LEMMA HealthStep == ASSUME FilesOK, ScreensOK, HealthInv, [Next]_vars PROVE HealthInv'
<1>1. CASE Quiet
  BY <1>1 DEF Quiet, HealthInv, Rollup
<1>2. CASE Restarts
  BY <1>2 DEF Restarts, HealthInv, Blank
<1>3. ASSUME NEW s \in Sessions, Renews(s) PROVE HealthInv'
  BY <1>3 DEF Renews, HealthInv, Rollup
<1>4. ASSUME NEW s \in Sessions, BuildsContext(s) PROVE HealthInv'
  <2>1. /\ \A a \in Sessions \ {s} : page'[a] = page[a]
        /\ page'[s].rollup = Rollup(page'[s].failed)
    BY <1>4, ContextShows
  <2> QED BY <2>1 DEF HealthInv
<1>5. ASSUME NEW s \in Sessions, NEW failed \in BOOLEAN, LoadsLog(s, failed) PROVE HealthInv'
  <2>1. /\ \A a \in Sessions \ {s} : page'[a] = page[a]
        /\ page'[s].rollup = page[s].rollup /\ page'[s].failed = page[s].failed
    BY <1>5, LoadShows
  <2> QED BY <2>1 DEF HealthInv
<1> QED BY <1>1, <1>2, <1>3, <1>4, <1>5, ScreenSteps DEF Loads

LEMMA HealthIsMeasured == ASSUME ScreensOK, HealthInv PROVE HealthyMeansMeasured
BY HealthyRollup DEF ScreensOK, HealthInv, HealthyMeansMeasured

----------------------------------------------------------------------------
(* One verdict *)

Charted(old, rows) ==
    /\ IsSeq(rows)
    /\ \A i \in DOMAIN rows :
           /\ rows[i].risk # ""
           /\ rows[i].event \notin LabelledOtherwise(old) =>
                  rows[i].risk = BandForScore(rows[i].score)

VerdictInv ==
    /\ \A s \in Sessions : result[s] = Nothing \/ Agrees(result[s])
    /\ \A entry \in pages : Charted(before, entry.rows)
    /\ \A s \in Sessions : page[s].rows = Nothing \/ Charted(before, page[s].rows)

LEMMA LoadedIsCharted == ASSUME FilesOK PROVE Charted(before, LoadLogs(log))
<1>1. /\ FileOK(before, log) /\ IsSeq(LoadLogs(log)) /\ log.there \in BOOLEAN
      /\ \A i \in DOMAIN log.rows : GoodRow(before, log.rows[i])
  BY Loaded DEF FilesOK, FileOK, RowsOK
<1>2. CASE log.there
  <2>1. LoadLogs(log) = [i \in DOMAIN log.rows |-> MigrateRow(log.rows[i])]
    BY <1>2 DEF LoadLogs, MigrateLogs
  <2>2. \A i \in DOMAIN log.rows :
            /\ MigrateRow(log.rows[i]).risk # ""
            /\ MigrateRow(log.rows[i]).event \notin LabelledOtherwise(before) =>
                   MigrateRow(log.rows[i]).risk = BandForScore(MigrateRow(log.rows[i]).score)
    BY <1>1, Migrated
  <2> HIDE DEF LabelledOtherwise
  <2> QED BY <1>1, <2>1, <2>2 DEF Charted
<1>3. CASE ~ log.there
  <2>1. LoadLogs(log) = <<>>
    BY <1>3 DEF LoadLogs
  <2> QED BY <2>1, EmptyIsSeq DEF Charted
<1> QED BY <1>1, <1>2, <1>3

\* The chart takes the column of the risks, which has a label in every row.
LEMMA ChartOf ==
    ASSUME NEW rows, Charted(before, rows)
    PROVE  LET chart == ChartSeverities(rows)
           IN  /\ DOMAIN chart = DOMAIN rows
               /\ \A i \in DOMAIN rows : rows[i].event \notin LabelledOtherwise(before) =>
                      chart[i] = Severity(Rung(RiskLadder, rows[i].score).label)
<1> DEFINE n == Len(rows)
           chart == [i \in 1 .. n |-> Severity(rows[i].risk)]
           labels == {chart[i] : i \in 1 .. n}
           severities == [i \in DOMAIN rows |-> Severity(rows[i].severity)]
<1>1. /\ n \in Nat /\ DOMAIN rows = 1 .. n
      /\ \A i \in 1 .. n :
            /\ rows[i].risk # ""
            /\ rows[i].event \notin LabelledOtherwise(before) =>
                   rows[i].risk = BandForScore(rows[i].score)
  BY SeqIs DEF Charted
<1>2. \A i \in 1 .. n : chart[i] \in labels /\ chart[i] # ""
  BY <1>1 DEF Severity
<1>3. [i \in DOMAIN rows |-> Severity(rows[i].risk)] = chart
  BY <1>1
<1>4. Dropna(chart, {""}) = chart
  <2> HIDE DEF chart
  <2>1. chart \in Seq(labels) /\ \A i \in DOMAIN chart : chart[i] \notin {""}
    <3>1. chart = [i \in 1 .. n |-> chart[i]]
      BY DEF chart
    <3> HIDE DEF labels
    <3>2. [i \in 1 .. n |-> chart[i]] \in Seq(labels)
      <4>1. ASSUME NEW m \in Nat, NEW S, \A i \in 1 .. m : chart[i] \in S
            PROVE  [i \in 1 .. m |-> chart[i]] \in Seq(S)
        BY <4>1
      <4> QED BY <1>1, <1>2, <4>1
    <3>3. DOMAIN chart = 1 .. n
      BY DEF chart
    <3> QED BY <1>2, <3>1, <3>2, <3>3
  <2> QED BY <2>1, DropnaOf
<1>5. n = 0 => severities = <<>>
  BY <1>1
<1>6. n = 0 => Dropna(severities, {""}) = <<>>
  <2>1. <<>> \in Seq({}) /\ \A i \in DOMAIN <<>> : <<>>[i] \notin {""}
    OBVIOUS
  <2>2. Dropna(<<>>, {""}) = <<>>
    BY <2>1, DropnaOf
  <2> HIDE DEF severities
  <2> QED BY <1>5, <2>2
<1>7. /\ chart = <<>> => n = 0
      /\ DOMAIN chart = DOMAIN rows
      /\ \A i \in DOMAIN rows : rows[i].event \notin LabelledOtherwise(before) =>
             chart[i] = Severity(Rung(RiskLadder, rows[i].score).label)
  <2>1. DOMAIN chart = DOMAIN rows
    BY <1>1
  <2>2. ASSUME chart = <<>> PROVE n = 0
    <3>1. DOMAIN chart = 1 .. n /\ DOMAIN <<>> = 1 .. 0
      BY EmptyIsSeq
    <3>2. \A m \in Nat : 1 \notin 1 .. m => m = 0
      OBVIOUS
    <3> HIDE DEF chart, n
    <3>3. 1 \notin 1 .. n
      BY <2>2, <3>1
    <3> QED BY <1>1, <3>2, <3>3, Zenon
  <2>3. ASSUME NEW i \in DOMAIN rows, rows[i].event \notin LabelledOtherwise(before)
        PROVE  chart[i] = Severity(Rung(RiskLadder, rows[i].score).label)
    <3>1. chart[i] = Severity(rows[i].risk) /\ rows[i].risk = BandForScore(rows[i].score)
      BY <1>1, <2>3
    <3>2. BandForScore(rows[i].score) = Rung(RiskLadder, rows[i].score).label
      BY Bands
    <3> QED BY <3>1, <3>2
  <2> QED BY <2>1, <2>2, <2>3
<1>8. n = 0 => [i \in DOMAIN rows |-> Severity(BandForScore(rows[i].score))] = chart
  BY <1>1
<1> HIDE DEF chart, severities
<1>9. CASE n = 0
  <2>1. ChartSeverities(rows) = chart
    BY <1>3, <1>4, <1>6, <1>8, <1>9 DEF ChartSeverities, severities
  <2> QED BY <1>7, <2>1
<1>10. CASE n # 0
  <2>1. ChartSeverities(rows) = chart
    BY <1>3, <1>4, <1>7, <1>10 DEF ChartSeverities
  <2> QED BY <1>7, <2>1
<1> QED BY <1>9, <1>10

LEMMA VerdictInit == ASSUME Init PROVE VerdictInv
BY DEF Init, Blank, VerdictInv

LEMMA VerdictStep == ASSUME FilesOK, Short, ScreensOK, VerdictInv, [Next]_vars PROVE VerdictInv'
<1>0. before' = before
  BY FilesStep
<1>1. /\ \A s \in Sessions : result[s] = Nothing \/ Agrees(result[s])
      /\ \A entry \in pages : Charted(before, entry.rows)
      /\ \A s \in Sessions : page[s].rows = Nothing \/ Charted(before, page[s].rows)
  BY DEF VerdictInv
<1>2. CASE Quiet
  BY <1>0, <1>1, <1>2 DEF Quiet, VerdictInv
<1>3. CASE Restarts
  BY <1>0, <1>3 DEF Restarts, VerdictInv, Blank
<1>4. ASSUME NEW s \in Sessions, Renews(s) PROVE VerdictInv'
  <2>1. InScan(s) /\ work[s].ok => Agrees(work[s].row)
    BY SessionsAreActors DEF FilesOK, WorkOK, InScan
  <2> QED BY <1>0, <1>1, <1>4, <2>1 DEF Renews, VerdictInv
<1>5. ASSUME NEW s \in Sessions, BuildsContext(s) PROVE VerdictInv'
  <2>1. /\ result' = result /\ pages' = pages
        /\ \A a \in Sessions \ {s} : page'[a] = page[a]
        /\ \/ page'[s].rows = page[s].rows
           \/ \E entry \in Cached(Signature(log)) : page'[s].rows = entry.rows
    BY <1>5, ContextShows
  <2>2. page'[s].rows = Nothing \/ Charted(before, page'[s].rows)
    BY <1>1, <2>1 DEF Cached
  <2> QED BY <1>0, <1>1, <2>1, <2>2 DEF VerdictInv
<1>6. ASSUME NEW s \in Sessions, NEW failed \in BOOLEAN, LoadsLog(s, failed) PROVE VerdictInv'
  <2>1. /\ result' = result
        /\ pages' = pages \cup {Entry(s, failed)}
        /\ \A a \in Sessions \ {s} : page'[a] = page[a]
        /\ page'[s].rows = Read(failed) /\ Entry(s, failed).rows = Read(failed)
    BY <1>6, LoadShows DEF Entry
  <2>2. Charted(before, Read(failed))
    <3>1. CASE failed
      <4>1. Read(failed) = <<>>
        BY <3>1, AbsentIsEmpty DEF Read
      <4> QED BY <4>1, EmptyIsSeq DEF Charted
    <3>2. CASE ~ failed
      BY <3>2, LoadedIsCharted DEF Read
    <3> QED BY <3>1, <3>2
  <2> QED BY <1>0, <1>1, <2>1, <2>2 DEF VerdictInv
<1> QED BY <1>2, <1>3, <1>4, <1>5, <1>6, ScreenSteps DEF Loads

LEMMA VerdictIsOne == ASSUME VerdictInv PROVE OneVerdict
BY ChartOf DEF VerdictInv, Agrees, OneVerdict

----------------------------------------------------------------------------
(* Theorems *)

IInv == FilesOK /\ LengthInv /\ HistoryInv /\ CacheInv /\ ScreensOK /\ FreshInv /\ HealthInv /\ VerdictInv

\* The inductive invariant: what the files, the scans in progress and the screens hold.
THEOREM DashboardInvariance == Spec => []IInv
<1>1. Init => IInv
  BY FilesInit, LengthInit, HistoryInit, CacheInit, ScreensInit, FreshInit, HealthInit,
     VerdictInit DEF IInv
<1>2. IInv /\ [Next]_vars => IInv'
  BY LengthsAreShort, FilesStep, LengthStep, HistoryStep, CacheStep, ScreensStep, FreshStep,
     HealthStep, VerdictStep DEF IInv
<1> QED BY <1>1, <1>2, PTL DEF Spec

\* Rewriting the log whole loses, repeats and reorders nothing, and a demonstration
\* leaves nothing behind, also when a scan cannot open the log or a demonstration breaks
\* off while it writes, for any number of tabs and terminals and any old log. Excepted
\* are two scans that overlap, a scan that is killed, and the four errors of
\* HistoryIsWhole.
THEOREM TheLogIsWhole == Spec => []HistoryIsWhole
<1>1. IInv => HistoryIsWhole
  BY DEF IInv, HistoryInv, HistoryIsWhole, Told
<1> QED BY <1>1, DashboardInvariance, PTL

\* What the page cache holds under the signature of the log is what the log holds, or
\* no rows, when the read it comes of failed: however scans, demonstrations, kills,
\* reads and their failures are interleaved.
THEOREM CachedPagesAreTrue == Spec => []CacheIsCurrent
<1>1. IInv => CacheIsCurrent
  BY DEF IInv, CacheInv, CacheIsCurrent, Cached, IsTrue
<1> QED BY <1>1, DashboardInvariance, PTL

\* The severity, the status line, the band and the chart tell the same of every score.
THEOREM VerdictsAgree == Spec => []OneVerdict
<1>1. IInv => OneVerdict
  BY VerdictIsOne DEF IInv
<1> QED BY <1>1, DashboardInvariance, PTL

\* No scan is called CRITICAL before there is a history of MinHistory rows, for any
\* readings and any interleaving of scans.
THEOREM CriticalComesLate == Spec => []CriticalNeedsHistory
<1>1. IInv => CriticalNeedsHistory
  <2>1. SUFFICES ASSUME FilesOK, NEW row \in Rows(log),
                        row.event \notin {before[i].event : i \in DOMAIN before},
                        row.risk = "CRITICAL"
                 PROVE  row.event.n + Len(before) > MinHistory
    BY DEF IInv, CriticalNeedsHistory
  <2>2. GoodRow(before, row)
    BY <2>1 DEF FilesOK, FileOK, RowsOK, Rows
  <2> QED BY <2>1, <2>2 DEF GoodRow
<1> QED BY <1>1, DashboardInvariance, PTL

\* Sensors called healthy were measured, whichever probes failed and were cached.
THEOREM HealthIsEarned == Spec => []HealthyMeansMeasured
<1>1. IInv => HealthyMeansMeasured
  BY HealthIsMeasured DEF IInv
<1> QED BY <1>1, DashboardInvariance, PTL

\* After a refresh or a scan a page shows readings taken since, unless the counter of
\* another tab has come as far.
THEOREM RefreshesAreShown == Spec => []RefreshShowsNewReadings
<1>1. IInv => RefreshShowsNewReadings
  BY DEF IInv, FreshInv
<1> QED BY <1>1, DashboardInvariance, PTL
=============================================================================
