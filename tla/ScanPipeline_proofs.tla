------------------------ MODULE ScanPipeline_proofs ------------------------
(***************************************************************************)
(* The schema, the rows and the baseline, for any number of processes and  *)
(* worker threads.  Three inductive invariants, one per property: what a   *)
(* migration has done when its loop is at a given statement; what a scan   *)
(* has written when it is at a given step; and what a scan that passed the *)
(* warm-up check may still do to the baseline.                             *)
(***************************************************************************)
EXTENDS ScanPipeline, FiniteSetTheorems, TLAPS

(***************************************************************************)
(* The schema.                                                             *)
(***************************************************************************)
\* What holds of a process whose loop is at version[p], created[p] statements
\* into its script.
LoopInv(p) ==
    /\ applied[p] \subseteq versions
    /\ version[p] \in 1 .. Len(Migrations) + 1
    /\ created[p] \in Nat
    /\ 1 .. version[p] - 1 \subseteq versions
    /\ version[p] \in Versions \ applied[p] =>
          /\ created[p] <= Len(Migrations[version[p]])
          /\ \A j \in 1 .. created[p] : Migrations[version[p]][j] \in tables
    /\ version[p] \in applied[p] => created[p] = 0

SchemaInv ==
    /\ pc \in [Processes -> {"down", "migrating", "open", "serving", "stopping"}]
    /\ applied \in [Processes -> SUBSET Versions]
    /\ version \in [Processes -> 1 .. Len(Migrations) + 1]
    /\ created \in [Processes -> Nat]
    /\ tables \subseteq AllTables
    /\ versions \subseteq Versions
    /\ RecordedIsCreated
    /\ \A p \in Processes : pc[p] = "migrating" => LoopInv(p)
    /\ \A p \in Processes : pc[p] # "migrating" =>
          applied[p] = {} /\ version[p] = 1 /\ created[p] = 0
    /\ \A p \in Processes : pc[p] \notin {"down", "migrating"} => versions = Versions

\* The list of migrations is a sequence of sequences.
LEMMA MigrationsType ==
    /\ Len(Migrations) \in Nat
    /\ \A v \in Versions : /\ Len(Migrations[v]) \in Nat
                           /\ ToSet(Migrations[v]) = {Migrations[v][j] : j \in 1 .. Len(Migrations[v])}
<1>1. Len(Migrations) = 3
  BY DEF Migrations
<1>2. \A v \in 1 .. 3 : /\ Len(Migrations[v]) \in Nat
                        /\ DOMAIN Migrations[v] = 1 .. Len(Migrations[v])
  <2>1. Migrations[1] = <<"telemetry", "security_events", "baseline_profiles", "scan_runs">>
    BY DEF Migrations
  <2>2. Migrations[2] = <<"audit_logs">>
    BY DEF Migrations
  <2>3. Migrations[3] = <<"security_findings", "full_scans">>
    BY DEF Migrations
  <2>4. Len(Migrations[1]) = 4 /\ DOMAIN Migrations[1] = 1 .. 4
    BY <2>1
  <2>5. Len(Migrations[2]) = 1 /\ DOMAIN Migrations[2] = 1 .. 1
    BY <2>2
  <2>6. Len(Migrations[3]) = 2 /\ DOMAIN Migrations[3] = 1 .. 2
    BY <2>3
  <2>7. \A v \in 1 .. 3 : v = 1 \/ v = 2 \/ v = 3
    OBVIOUS
  <2> QED BY <2>4, <2>5, <2>6, <2>7
<1>3. Versions = 1 .. 3
  BY <1>1 DEF Versions
<1> QED BY <1>1, <1>2, <1>3 DEF ToSet

LEMMA AllTablesOf == \A v \in Versions : ToSet(Migrations[v]) \subseteq AllTables
BY DEF AllTables

\* Every version recorded means every table created.
LEMMA MigratedIsComplete ==
    ASSUME SchemaInv, versions = Versions
    PROVE  tables = AllTables
BY DEF SchemaInv, RecordedIsCreated, AllTables

LEMMA SchemaInit == ScanInit => SchemaInv
<1> SUFFICES ASSUME ScanInit PROVE SchemaInv
  OBVIOUS
<1>1. PICK v \in 0 .. Len(Migrations) :
          /\ versions = 1 .. v
          /\ tables = UNION {ToSet(Migrations[w]) : w \in 1 .. v}
  BY DEF ScanInit, Init
<1>2. versions \subseteq Versions
  BY <1>1, MigrationsType DEF Versions
<1>3. tables \subseteq AllTables /\ RecordedIsCreated
  BY <1>1, <1>2 DEF AllTables, RecordedIsCreated
<1> QED BY <1>2, <1>3, MigrationsType DEF ScanInit, Init, SchemaInv

\* A step that grows the tables and versions and leaves the other processes'
\* loops alone keeps what holds of them.
LEMMA LoopsStay ==
    ASSUME SchemaInv, NEW q \in Processes, pc[q] = "migrating",
           tables \subseteq tables', versions \subseteq versions',
           applied'[q] = applied[q], version'[q] = version[q], created'[q] = created[q]
    PROVE  LoopInv(q)'
<1>1. LoopInv(q)
  BY DEF SchemaInv
<1> QED BY <1>1 DEF LoopInv

\* Each step of a migration.
LEMMA MigrateKeepsSchema ==
    ASSUME SchemaInv, NEW p \in Processes, Migrate(p)
    PROVE  SchemaInv'
<1>1. CASE ReadVersions(p)
  <2>1. LoopInv(p)'
    BY <1>1, MigrationsType DEF ReadVersions, SchemaInv, LoopInv, Versions
  <2>2. \A q \in Processes : q # p /\ pc'[q] = "migrating" => LoopInv(q)'
    BY <1>1, LoopsStay DEF ReadVersions, SchemaInv
  <2> QED BY <1>1, <2>1, <2>2 DEF ReadVersions, SchemaInv, RecordedIsCreated
<1>2. CASE Skips(p)
  <2>1. LoopInv(p)'
    BY <1>2, MigrationsType DEF Skips, AtMigration, SchemaInv, LoopInv, Versions
  <2>2. \A q \in Processes : q # p /\ pc'[q] = "migrating" => LoopInv(q)'
    BY <1>2, LoopsStay DEF Skips, AtMigration, SchemaInv
  <2>3. version[p] + 1 \in 1 .. Len(Migrations) + 1
    BY <1>2, MigrationsType DEF Skips, AtMigration, SchemaInv, LoopInv, Versions
  <2> QED BY <1>2, <2>1, <2>2, <2>3 DEF Skips, AtMigration, SchemaInv, RecordedIsCreated
<1>3. CASE CreateTable(p)
  <2>1. LoopInv(p)'
    BY <1>3, MigrationsType DEF CreateTable, AtMigration, SchemaInv, LoopInv, Versions
  <2>2. \A q \in Processes : q # p /\ pc'[q] = "migrating" => LoopInv(q)'
    BY <1>3, LoopsStay DEF CreateTable, AtMigration, SchemaInv
  <2>3. tables' \subseteq AllTables
    <3>1. version[p] \in Versions /\ created[p] + 1 \in 1 .. Len(Migrations[version[p]])
      BY <1>3, MigrationsType DEF CreateTable, AtMigration, SchemaInv
    <3>2. Migrations[version[p]][created[p] + 1] \in AllTables
      BY <3>1, MigrationsType, AllTablesOf
    <3> QED BY <1>3, <3>2 DEF CreateTable, SchemaInv
  <2> QED BY <1>3, <2>1, <2>2, <2>3 DEF CreateTable, AtMigration, SchemaInv, RecordedIsCreated
<1>4. CASE RecordVersion(p)
  <2>1. ToSet(Migrations[version[p]]) \subseteq tables
    <3>1. /\ version[p] \in Versions
          /\ \A j \in 1 .. Len(Migrations[version[p]]) : Migrations[version[p]][j] \in tables
      BY <1>4 DEF RecordVersion, AtInsert, AtMigration, SchemaInv, LoopInv
    <3>2. ToSet(Migrations[version[p]])
             = {Migrations[version[p]][j] : j \in 1 .. Len(Migrations[version[p]])}
      BY <3>1, MigrationsType
    <3> QED BY <3>1, <3>2
  <2>2. LoopInv(p)'
    BY <1>4, MigrationsType DEF RecordVersion, AtInsert, AtMigration, SchemaInv, LoopInv, Versions
  <2>3. \A q \in Processes : q # p /\ pc'[q] = "migrating" => LoopInv(q)'
    BY <1>4, LoopsStay DEF RecordVersion, AtInsert, AtMigration, SchemaInv
  <2>4. version[p] + 1 \in 1 .. Len(Migrations) + 1 /\ version[p] \in Versions
    BY <1>4, MigrationsType DEF RecordVersion, AtInsert, AtMigration, SchemaInv, LoopInv, Versions
  <2> QED BY <1>4, <2>1, <2>2, <2>3, <2>4
          DEF RecordVersion, AtInsert, AtMigration, SchemaInv, RecordedIsCreated
<1>5. CASE VersionExists(p) \/ MigrationStops(p)
  <2>1. \A q \in Processes : q # p /\ pc'[q] = "migrating" => LoopInv(q)'
    BY <1>5, LoopsStay
       DEF VersionExists, MigrationStops, AtInsert, AtMigration, Returns, SchemaInv
  <2>2. 1 \in 1 .. Len(Migrations) + 1
    BY MigrationsType
  <2>3. /\ pc' = [pc EXCEPT ![p] = "down"]
        /\ applied' = [applied EXCEPT ![p] = {}]
        /\ version' = [version EXCEPT ![p] = 1]
        /\ created' = [created EXCEPT ![p] = 0]
        /\ tables' = tables /\ versions' = versions
    BY <1>5 DEF VersionExists, MigrationStops, Returns
  <2> QED BY <2>1, <2>2, <2>3 DEF SchemaInv, RecordedIsCreated
<1>6. CASE Opened(p)
  <2>1. versions = Versions
    <3>1. LoopInv(p) /\ version[p] \notin Versions /\ versions \subseteq Versions
      BY <1>6 DEF Opened, SchemaInv
    <3>2. version[p] = Len(Migrations) + 1
      BY <3>1, MigrationsType DEF LoopInv, Versions
    <3>3. 1 .. version[p] - 1 \subseteq versions
      BY <3>1 DEF LoopInv
    <3>4. version[p] - 1 = Len(Migrations)
      BY <3>2, MigrationsType
    <3> QED BY <3>1, <3>3, <3>4 DEF Versions
  <2>2. \A q \in Processes : q # p /\ pc'[q] = "migrating" => LoopInv(q)'
    BY <1>6, LoopsStay DEF Opened, Returns, SchemaInv
  <2>3. 1 \in 1 .. Len(Migrations) + 1
    BY MigrationsType
  <2> QED BY <1>6, <2>1, <2>2, <2>3 DEF Opened, Returns, SchemaInv, RecordedIsCreated
<1> QED BY <1>1, <1>2, <1>3, <1>4, <1>5, <1>6 DEF Migrate

\* The other steps move a process among the states in which it was opened, or down.
LEMMA ProcessKeepsSchema ==
    ASSUME SchemaInv, NEW p \in Processes, Serves(p) \/ Stops(p) \/ Ends(p)
    PROVE  SchemaInv'
<1>1. \A q \in Processes : pc'[q] = "migrating" => pc[q] = "migrating" /\ LoopInv(q)'
  BY LoopsStay DEF Serves, Stops, Ends, SchemaInv
<1> QED BY <1>1 DEF Serves, Stops, Ends, SchemaInv, RecordedIsCreated

LEMMA UnchangedKeepsSchema ==
    ASSUME SchemaInv, UNCHANGED schemaVars
    PROVE  SchemaInv'
BY DEF SchemaInv, schemaVars, LoopInv, RecordedIsCreated

LEMMA SchemaStep == SchemaInv /\ [Next]_vars => SchemaInv'
<1> SUFFICES ASSUME SchemaInv, [Next]_vars PROVE SchemaInv'
  OBVIOUS
<1>1. CASE UNCHANGED vars
  BY <1>1, UnchangedKeepsSchema DEF vars
<1>2. ASSUME NEW p \in Processes,
             \/ MigrateStep(p) \/ Serves(p) \/ Stops(p) \/ Ends(p)
             \/ ResetBaselines(p) \/ Prunes(p)
      PROVE  SchemaInv'
  <2>1. CASE MigrateStep(p)
    BY <2>1, MigrateKeepsSchema DEF MigrateStep
  <2>2. CASE Serves(p) \/ Stops(p) \/ Ends(p)
    BY <2>2, ProcessKeepsSchema
  <2>3. CASE ResetBaselines(p) \/ Prunes(p)
    BY <2>3, UnchangedKeepsSchema DEF ResetBaselines, Prunes
  <2> QED BY <1>2, <2>1, <2>2, <2>3
<1>3. ASSUME NEW w \in Workers, ScanStep(w) PROVE SchemaInv'
  BY <1>3, UnchangedKeepsSchema
     DEF ScanStep, ScanStarts, ChecksWarmup, WarmsUp, Scores, Learns, Writes,
         WritesTelemetry, WritesEvent, WritesRun, WriteFails
<1> QED BY <1>1, <1>2, <1>3 DEF Next

\* A storage engine that was constructed finds the whole schema, however many
\* processes migrate the file at once and wherever they are killed.
THEOREM OpenedIsMigratedHolds == Spec => []OpenedIsMigrated
<1>1. SchemaInv => OpenedIsMigrated
  BY MigratedIsComplete DEF SchemaInv, OpenedIsMigrated
<1> QED BY <1>1, SchemaInit, SchemaStep, PTL DEF Spec

(***************************************************************************)
(* The rows.                                                               *)
(***************************************************************************)
HasTelemetry(i) == i \in telemetry \/ i <= pruned.telemetry
HasEvent(i)     == i \in events \/ i <= pruned.events

\* A scan that is about to write its event has its telemetry, and one that is
\* about to write its run has both.
RowsInv ==
    /\ scan \in [Workers -> Nat]
    /\ step \in [Workers -> Steps]
    /\ started \in Nat
    /\ pruned \in [events : Nat, telemetry : Nat]
    /\ telemetry \subseteq Nat /\ events \subseteq Nat /\ runs \subseteq Nat
    /\ \A w \in Workers :
          /\ step[w] = "event" => HasTelemetry(scan[w])
          /\ step[w] = "run" => HasTelemetry(scan[w]) /\ HasEvent(scan[w])
    /\ \A i \in runs : HasTelemetry(i) /\ HasEvent(i)

LEMMA MaxOfTwo ==
    ASSUME NEW a \in Nat, NEW b \in Nat
    PROVE  Max({a, b}) \in Nat /\ a <= Max({a, b}) /\ b <= Max({a, b})
<1>1. \E x \in {a, b} : \A y \in {a, b} : x >= y
  OBVIOUS
<1> QED BY <1>1 DEF Max

\* Pruning takes rows away and moves the marks past them.
LEMMA PrunesKeepsRows ==
    ASSUME RowsInv, NEW p \in Processes, Prunes(p)
    PROVE  RowsInv'
<1>1. PICK m \in 1 .. started : \E e \in 0 .. m : prune_retention(e, m)
  BY DEF Prunes
<1>10. PICK e \in 0 .. m : prune_retention(e, m)
  BY <1>1
<1>2. /\ m \in Nat /\ e \in Nat /\ pruned.events \in Nat /\ pruned.telemetry \in Nat
  BY DEF RowsInv
<1>3. /\ pruned'.events = Max({e, pruned.events})
      /\ pruned'.telemetry = Max({m, pruned.telemetry})
      /\ pruned' \in [events : Nat, telemetry : Nat]
  BY <1>10, <1>2, MaxOfTwo DEF prune_retention
<1>4. /\ e <= pruned'.events /\ pruned.events <= pruned'.events
      /\ m <= pruned'.telemetry /\ pruned.telemetry <= pruned'.telemetry
  BY <1>2, <1>3, MaxOfTwo
<1>5. /\ events' = {i \in events : i > e} /\ telemetry' = {i \in telemetry : i > m}
      /\ runs' = runs /\ step' = step /\ scan' = scan /\ started' = started
  BY <1>10 DEF prune_retention, Prunes, threadVars
<1>6. \A i \in Nat : HasTelemetry(i) => HasTelemetry(i)'
  BY <1>2, <1>3, <1>4, <1>5 DEF HasTelemetry
<1>7. \A i \in Nat : HasEvent(i) => HasEvent(i)'
  BY <1>2, <1>3, <1>4, <1>5 DEF HasEvent
<1>8. ASSUME NEW w \in Workers
      PROVE  /\ (step[w] = "event" => HasTelemetry(scan[w]))'
             /\ (step[w] = "run" => HasTelemetry(scan[w]) /\ HasEvent(scan[w]))'
  <2>1. scan[w] \in Nat /\ scan'[w] = scan[w] /\ step'[w] = step[w]
    BY <1>5 DEF RowsInv
  <2>2. HasTelemetry(scan[w]) => HasTelemetry(scan[w])'
    BY <1>4, <1>2, <1>3, <1>5, <2>1 DEF HasTelemetry
  <2>3. HasEvent(scan[w]) => HasEvent(scan[w])'
    BY <1>4, <1>2, <1>3, <1>5, <2>1 DEF HasEvent
  <2> QED BY <2>1, <2>2, <2>3 DEF RowsInv
<1>9. \A i \in runs' : HasTelemetry(i)' /\ HasEvent(i)'
  BY <1>5, <1>6, <1>7 DEF RowsInv
<1> QED BY <1>3, <1>5, <1>8, <1>9 DEF RowsInv

\* One scan moves; the three writes come in their order.
LEMMA ScanKeepsRows ==
    ASSUME RowsInv, NEW w \in Workers, ScanStep(w)
    PROVE  RowsInv'
<1>2. CASE ScanStarts(w)
  BY <1>2 DEF ScanStarts, RowsInv, rowVars, Steps, HasTelemetry, HasEvent
<1>3. CASE ChecksWarmup(w) \/ WarmsUp(w) \/ Scores(w) \/ Learns(w)
  BY <1>3
     DEF ChecksWarmup, WarmsUp, Scores, Learns, AfterWarmupCheck, RowsInv, rowVars, Steps,
         HasTelemetry, HasEvent
<1>4. CASE WritesTelemetry(w)
  BY <1>4
     DEF WritesTelemetry, Writes, record_telemetry, RowsInv, Steps, HasTelemetry, HasEvent
<1>5. CASE WritesEvent(w)
  BY <1>5
     DEF WritesEvent, Writes, record_security_event, RowsInv, Steps, HasTelemetry, HasEvent
<1>6. CASE WritesRun(w)
  BY <1>6
     DEF WritesRun, Writes, record_scan_run, RowsInv, Steps, HasTelemetry, HasEvent
<1>7. CASE WriteFails(w)
  BY <1>7 DEF WriteFails, RowsInv, rowVars, Steps, HasTelemetry, HasEvent
<1> QED BY <1>2, <1>3, <1>4, <1>5, <1>6, <1>7 DEF ScanStep

LEMMA RowsStep == RowsInv /\ [Next]_vars => RowsInv'
<1> SUFFICES ASSUME RowsInv, [Next]_vars PROVE RowsInv'
  OBVIOUS
<1>1. ASSUME UNCHANGED <<rowVars, started, step, scan>> PROVE RowsInv'
  BY <1>1 DEF RowsInv, rowVars, HasTelemetry, HasEvent
<1>2. CASE UNCHANGED vars
  BY <1>1, <1>2 DEF vars, threadVars
<1>3. ASSUME NEW p \in Processes,
             \/ MigrateStep(p) \/ Serves(p) \/ Stops(p) \/ Ends(p)
             \/ ResetBaselines(p) \/ Prunes(p)
      PROVE  RowsInv'
  <2>1. CASE MigrateStep(p) \/ Serves(p) \/ Stops(p) \/ ResetBaselines(p)
    BY <1>1, <2>1 DEF MigrateStep, Migrate, Serves, Stops, ResetBaselines, threadVars
  <2>2. CASE Ends(p)
    BY <2>2 DEF Ends, RowsInv, rowVars, Steps, HasTelemetry, HasEvent
  <2>3. CASE Prunes(p)
    BY <2>3, PrunesKeepsRows
  <2> QED BY <1>3, <2>1, <2>2, <2>3
<1>4. ASSUME NEW w \in Workers, ScanStep(w) PROVE RowsInv'
  BY <1>4, ScanKeepsRows
<1> QED BY <1>2, <1>3, <1>4 DEF Next

\* A stored scan run has its event and its telemetry, however the scans of
\* however many threads and processes interleave, fail and are killed.
THEOREM ScansAreWholeHolds == Spec => []ScansAreWhole
<1>1. ScanInit => RowsInv
  BY DEF ScanInit, Init, RowsInv, Steps
<1>2. RowsInv => ScansAreWhole
  BY DEF RowsInv, ScansAreWhole, HasTelemetry, HasEvent
<1> QED BY <1>1, <1>2, RowsStep, PTL DEF Spec

(***************************************************************************)
(* The baseline.                                                           *)
(***************************************************************************)
\* The threads of p that passed the check of the warm-up and have not learned yet.
Warming(p) == {t \in Threads : step[<<p, t>>] = "warming"}

WarmingBound == Warmup + Cardinality(Threads) - 1

BaselineInv ==
    /\ step \in [Workers -> Steps] /\ DOMAIN scan = Workers
    /\ count \in [Processes -> Nat] /\ unscored \in [Processes -> Nat]
    /\ \A p \in Processes : unscored[p] <= count[p]
    /\ \A p \in Processes : unscored[p] + Cardinality(Warming(p)) <= WarmingBound
    /\ \A w \in Workers : step[w] = "scoring" /\ count[w[1]] < Warmup => scan[w] \in raced
    /\ cold \subseteq raced

LEMMA WarmingFinite ==
    ASSUME NEW p \in Processes
    PROVE  /\ IsFiniteSet(Warming(p)) /\ Cardinality(Warming(p)) \in Nat
           /\ Cardinality(Threads) \in Nat \ {0}
           /\ Cardinality(Warming(p)) <= Cardinality(Threads)
           /\ WarmingBound \in Nat
<1>1. Warming(p) \in SUBSET Threads /\ IsFiniteSet(Threads) /\ Threads # {}
  BY ThreadsAssumption DEF Warming
<1>2. IsFiniteSet(Warming(p)) /\ Cardinality(Warming(p)) <= Cardinality(Threads)
  BY <1>1, FS_Subset
<1>3. Cardinality(Threads) \in Nat /\ Cardinality(Warming(p)) \in Nat
  BY <1>1, <1>2, FS_CardinalityType
<1>4. Cardinality(Threads) # 0
  BY <1>1, FS_EmptySet
<1> QED BY <1>2, <1>3, <1>4, WarmupAssumption DEF WarmingBound

\* A thread enters or leaves the warming ones, or no thread does.
LEMMA WarmingStays ==
    ASSUME NEW p \in Processes, \A t \in Threads :
               step'[<<p, t>>] = "warming" <=> step[<<p, t>>] = "warming"
    PROVE  Cardinality(Warming(p)') = Cardinality(Warming(p))
BY DEF Warming

LEMMA BaselineInit == ScanInit => BaselineInv
<1> SUFFICES ASSUME ScanInit PROVE BaselineInv
  OBVIOUS
<1>1. ASSUME NEW p \in Processes PROVE unscored[p] + Cardinality(Warming(p)) <= WarmingBound
  <2>1. Warming(p) = {} /\ unscored[p] = 0
    BY DEF ScanInit, Warming, Workers
  <2> QED BY <2>1, FS_EmptySet, WarmingFinite
<1> QED BY <1>1 DEF ScanInit, BaselineInv, Steps, Workers

LEMMA ResetKeepsBaseline ==
    ASSUME BaselineInv, NEW p \in Processes, ResetBaselines(p)
    PROVE  BaselineInv'
<1>1. /\ step' = step /\ scan' = scan /\ cold' = cold
      /\ count' = [count EXCEPT ![p] = 0] /\ unscored' = [unscored EXCEPT ![p] = 0]
      /\ raced' = raced \cup {scan[w] : w \in {v \in Workers : v[1] = p /\ step[v] = "scoring"}}
  BY DEF ResetBaselines, threadVars
<1>2. ASSUME NEW q \in Processes
      PROVE  (unscored[q] + Cardinality(Warming(q)) <= WarmingBound)'
  <2>1. Cardinality(Warming(q)') = Cardinality(Warming(q)) /\ WarmingBound' = WarmingBound
    BY <1>1, WarmingStays DEF WarmingBound
  <2>2. unscored'[q] <= unscored[q] /\ unscored'[q] \in Nat /\ unscored[q] \in Nat
    BY <1>1 DEF BaselineInv
  <2> QED BY <2>1, <2>2, WarmingFinite DEF BaselineInv
<1>3. ASSUME NEW w \in Workers
      PROVE  (step[w] = "scoring" /\ count[w[1]] < Warmup => scan[w] \in raced)'
  BY <1>1, <1>3 DEF BaselineInv, Workers
<1> QED BY <1>1, <1>2, <1>3 DEF BaselineInv

\* A process that ends forgets its baseline, and its threads are gone.
LEMMA EndsKeepsBaseline ==
    ASSUME BaselineInv, NEW p \in Processes, Ends(p)
    PROVE  BaselineInv'
<1>1. /\ step' = [w \in Workers |-> IF w[1] = p THEN "idle" ELSE step[w]]
      /\ scan' = [w \in Workers |-> IF w[1] = p THEN 0 ELSE scan[w]]
      /\ count' = [count EXCEPT ![p] = 0] /\ unscored' = [unscored EXCEPT ![p] = 0]
      /\ raced' = raced /\ cold' = cold
  BY DEF Ends
<1>2. ASSUME NEW q \in Processes
      PROVE  (unscored[q] + Cardinality(Warming(q)) <= WarmingBound)'
  <2>1. CASE q = p
    <3>1. Warming(q)' = {} /\ unscored'[q] = 0
      BY <1>1, <2>1 DEF Warming, Workers, BaselineInv
    <3>2. WarmingBound' = WarmingBound
      BY DEF WarmingBound
    <3> QED BY <3>1, <3>2, FS_EmptySet, WarmingFinite
  <2>2. CASE q # p
    <3>1. Cardinality(Warming(q)') = Cardinality(Warming(q)) /\ WarmingBound' = WarmingBound
      BY <1>1, <2>2, WarmingStays DEF WarmingBound, Workers
    <3> QED BY <1>1, <2>2, <3>1 DEF BaselineInv
  <2> QED BY <2>1, <2>2
<1>3. ASSUME NEW w \in Workers
      PROVE  (step[w] = "scoring" /\ count[w[1]] < Warmup => scan[w] \in raced)'
  BY <1>1, <1>3 DEF BaselineInv, Workers
<1> QED BY <1>1, <1>2, <1>3 DEF BaselineInv, Steps, Workers

\* The check: with the thread that passes it, all that warm up learn at most
\* one observation each on top of fewer than Warmup.
LEMMA CheckKeepsBaseline ==
    ASSUME BaselineInv, NEW w \in Workers, ChecksWarmup(w)
    PROVE  BaselineInv'
<1>1. /\ step' = [step EXCEPT ![w] = AfterWarmupCheck(w)]
      /\ scan' = scan /\ count' = count /\ unscored' = unscored /\ raced' = raced /\ cold' = cold
      /\ w[1] \in Processes /\ AfterWarmupCheck(w) \in Steps
  BY DEF ChecksWarmup, baselineVars, Workers, AfterWarmupCheck, Steps
<1>2. ASSUME NEW q \in Processes
      PROVE  (unscored[q] + Cardinality(Warming(q)) <= WarmingBound)'
  <2>0. unscored[q] \in Nat /\ count[q] \in Nat /\ WarmingBound' = WarmingBound
    BY DEF BaselineInv, WarmingBound
  <2>1. CASE q = w[1] /\ count[q] < Warmup
    <3>1. unscored[q] <= Warmup - 1
      BY <2>0, <2>1, WarmupAssumption DEF BaselineInv
    <3>2. Warming(q)' \in SUBSET Threads
      BY DEF Warming
    <3>3. /\ Cardinality(Warming(q)') <= Cardinality(Threads)
          /\ Cardinality(Warming(q)') \in Nat /\ Cardinality(Threads) \in Nat
      BY <3>2, FS_Subset, FS_CardinalityType, ThreadsAssumption
    <3> QED BY <1>1, <2>0, <3>1, <3>3, WarmupAssumption DEF WarmingBound
  <2>2. CASE ~(q = w[1] /\ count[q] < Warmup)
    <3>1. \A t \in Threads : step'[<<q, t>>] = "warming" <=> step[<<q, t>>] = "warming"
      BY <1>1, <2>2 DEF ChecksWarmup, AfterWarmupCheck, Workers, BaselineInv
    <3>2. Cardinality(Warming(q)') = Cardinality(Warming(q))
      BY <3>1, WarmingStays
    <3> QED BY <1>1, <2>0, <3>2 DEF BaselineInv
  <2> QED BY <2>1, <2>2
<1>3. ASSUME NEW v \in Workers
      PROVE  (step[v] = "scoring" /\ count[v[1]] < Warmup => scan[v] \in raced)'
  BY <1>1, <1>3 DEF BaselineInv, AfterWarmupCheck, Workers
<1> QED BY <1>1, <1>2, <1>3 DEF BaselineInv

\* A warm-up learned: one more in the count, one thread fewer to come.
LEMMA WarmsUpKeepsBaseline ==
    ASSUME BaselineInv, NEW w \in Workers, WarmsUp(w)
    PROVE  BaselineInv'
<1>1. /\ step[w] = "warming" /\ step' = [step EXCEPT ![w] = "telemetry"]
      /\ count' = [count EXCEPT ![w[1]] = @ + 1]
      /\ unscored' = [unscored EXCEPT ![w[1]] = @ + 1]
      /\ scan' = scan /\ raced' = raced /\ cold' = cold
      /\ w = <<w[1], w[2]>> /\ w[1] \in Processes /\ w[2] \in Threads
  BY DEF WarmsUp, Workers
<1>2. ASSUME NEW q \in Processes
      PROVE  (unscored[q] + Cardinality(Warming(q)) <= WarmingBound)'
  <2>0. unscored[q] \in Nat /\ WarmingBound' = WarmingBound
    BY DEF BaselineInv, WarmingBound
  <2>1. CASE q = w[1]
    <3>5. \A t \in Threads : /\ <<q, t>> \in Workers
                            /\ t # w[2] => <<q, t>> # w
      BY <1>1 DEF Workers
    <3>6. w = <<q, w[2]>> /\ step'[w] = "telemetry"
      BY <1>1, <2>1 DEF BaselineInv
    <3>7. \A t \in Threads : t # w[2] => step'[<<q, t>>] = step[<<q, t>>]
      BY <1>1, <3>5 DEF BaselineInv
    <3>8. w[2] \in Warming(q) /\ w[2] \notin Warming(q)'
      BY <1>1, <3>6 DEF Warming
    <3>1. Warming(q)' = Warming(q) \ {w[2]}
      BY <3>7, <3>8 DEF Warming
    <3>2. Cardinality(Warming(q)') = Cardinality(Warming(q)) - 1
      <4>1. IsFiniteSet(Warming(q))
        BY WarmingFinite
      <4>2. Cardinality(Warming(q) \ {w[2]}) = Cardinality(Warming(q)) - 1
        BY <4>1, <3>8, FS_RemoveElement
      <4> QED BY <4>2, <3>1
    <3>3. unscored'[q] = unscored[q] + 1
      BY <1>1, <2>1 DEF BaselineInv
    <3> QED BY <2>0, <3>2, <3>3, WarmingFinite DEF BaselineInv
  <2>2. CASE q # w[1]
    <3>1. \A t \in Threads : step'[<<q, t>>] = "warming" <=> step[<<q, t>>] = "warming"
      BY <1>1, <2>2 DEF Workers, BaselineInv
    <3>2. Cardinality(Warming(q)') = Cardinality(Warming(q)) /\ unscored'[q] = unscored[q]
      BY <1>1, <2>2, <3>1, WarmingStays DEF BaselineInv
    <3> QED BY <2>0, <3>2 DEF BaselineInv
  <2> QED BY <2>1, <2>2
<1>3. ASSUME NEW v \in Workers
      PROVE  (step[v] = "scoring" /\ count[v[1]] < Warmup => scan[v] \in raced)'
  <2>1. count[v[1]] \in Nat /\ count'[v[1]] >= count[v[1]]
    BY <1>1, <1>3 DEF BaselineInv, Workers
  <2> QED BY <1>1, <1>3, <2>1, WarmupAssumption DEF BaselineInv
<1> QED BY <1>1, <1>2, <1>3 DEF BaselineInv, Steps

\* The steps in which no thread enters, leaves or learns from the warm-up.
LEMMA OtherKeepsBaseline ==
    ASSUME BaselineInv, NEW w \in Workers,
           \/ ScanStarts(w) \/ Scores(w) \/ Learns(w) \/ WritesTelemetry(w)
           \/ WritesEvent(w) \/ WritesRun(w) \/ WriteFails(w)
    PROVE  BaselineInv'
<1>1. PICK s \in Steps \ {"warming", "scoring"} : step' = [step EXCEPT ![w] = s]
  BY DEF ScanStarts, Scores, Learns, WritesTelemetry, WritesEvent, WritesRun, Writes,
         WriteFails, Steps
<1>2. /\ step[w] # "warming" /\ w[1] \in Processes
      /\ unscored' = unscored /\ raced' = raced
      /\ count' = count \/ count' = [count EXCEPT ![w[1]] = @ + 1]
      /\ DOMAIN scan' = Workers /\ \A v \in Workers : v # w => scan'[v] = scan[v]
  <2>1. DOMAIN scan = Workers /\ w[1] \in Processes
    BY DEF BaselineInv, Workers
  <2>2. CASE ScanStarts(w) \/ Scores(w) \/ Learns(w) \/ WriteFails(w)
    BY <2>1, <2>2 DEF ScanStarts, Scores, Learns, WriteFails, baselineVars
  <2>3. CASE WritesTelemetry(w) \/ WritesEvent(w) \/ WritesRun(w)
    BY <2>1, <2>3 DEF WritesTelemetry, WritesEvent, WritesRun, Writes, baselineVars
  <2> QED BY <2>2, <2>3
<1>3. cold' \subseteq raced
  BY DEF ScanStarts, Scores, Learns, WritesTelemetry, WritesEvent, WritesRun, Writes,
         WriteFails, Workers, baselineVars, BaselineInv
<1>4. ASSUME NEW q \in Processes
      PROVE  (unscored[q] + Cardinality(Warming(q)) <= WarmingBound)'
  <2>1. \A t \in Threads : step'[<<q, t>>] = "warming" <=> step[<<q, t>>] = "warming"
    BY <1>1, <1>2 DEF Workers, BaselineInv
  <2>2. Cardinality(Warming(q)') = Cardinality(Warming(q)) /\ WarmingBound' = WarmingBound
    BY <2>1, WarmingStays DEF WarmingBound
  <2> QED BY <1>2, <2>2 DEF BaselineInv
<1>5. \A q \in Processes : count'[q] \in Nat /\ count[q] \in Nat /\ count'[q] >= count[q]
  BY <1>2 DEF BaselineInv
<1>6. ASSUME NEW v \in Workers
      PROVE  (step[v] = "scoring" /\ count[v[1]] < Warmup => scan[v] \in raced)'
  <2>1. v[1] \in Processes
    BY DEF Workers
  <2>2. CASE v = w
    BY <1>1, <2>2 DEF BaselineInv
  <2>3. CASE v # w
    BY <1>1, <1>2, <1>5, <2>1, <2>3, WarmupAssumption DEF BaselineInv
  <2> QED BY <2>2, <2>3
<1>7. /\ step' \in [Workers -> Steps] /\ count' \in [Processes -> Nat]
      /\ \A q \in Processes : unscored'[q] <= count'[q]
  BY <1>1, <1>2, <1>5 DEF BaselineInv
<1> QED BY <1>2, <1>3, <1>4, <1>6, <1>7 DEF BaselineInv

LEMMA BaselineStep == BaselineInv /\ [Next]_vars => BaselineInv'
<1> SUFFICES ASSUME BaselineInv, [Next]_vars PROVE BaselineInv'
  OBVIOUS
<1>1. ASSUME UNCHANGED <<baselineVars, step, scan>> PROVE BaselineInv'
  BY <1>1 DEF BaselineInv, baselineVars, Warming, WarmingBound
<1>2. CASE UNCHANGED vars
  BY <1>1, <1>2 DEF vars, threadVars
<1>3. ASSUME NEW p \in Processes,
             \/ MigrateStep(p) \/ Serves(p) \/ Stops(p) \/ Ends(p)
             \/ ResetBaselines(p) \/ Prunes(p)
      PROVE  BaselineInv'
  <2>1. CASE MigrateStep(p) \/ Serves(p) \/ Stops(p) \/ Prunes(p)
    BY <1>1, <2>1 DEF MigrateStep, Serves, Stops, Prunes, threadVars
  <2>2. CASE Ends(p)
    BY <2>2, EndsKeepsBaseline
  <2>3. CASE ResetBaselines(p)
    BY <2>3, ResetKeepsBaseline
  <2> QED BY <1>3, <2>1, <2>2, <2>3
<1>4. ASSUME NEW w \in Workers, ScanStep(w) PROVE BaselineInv'
  BY <1>4, CheckKeepsBaseline, WarmsUpKeepsBaseline, OtherKeepsBaseline DEF ScanStep
<1> QED BY <1>2, <1>3, <1>4 DEF Next

\* An alarm comes from a warmed-up baseline unless a reset fell into its
\* assessment, and any number of concurrent scans learns at most one
\* observation each past the warm-up without scoring it.
THEOREM AlarmsAreWarmHolds == Spec => []AlarmsAreWarm
<1>1. BaselineInv => AlarmsAreWarm
  BY WarmingFinite DEF BaselineInv, AlarmsAreWarm, WarmingBound
<1> QED BY <1>1, BaselineInit, BaselineStep, PTL DEF Spec
=============================================================================
