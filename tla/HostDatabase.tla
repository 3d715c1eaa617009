--------------------------- MODULE HostDatabase ---------------------------
(***************************************************************************)
(* The SQLite file of one host and the processes that open it: the schema  *)
(* migrations every StorageEngine runs in its constructor, statement by    *)
(* statement and each statement committed on its own, and the rows behind  *)
(* them.  A process constructs its storage before it asks for the          *)
(* single-instance lock, so two of them may migrate the same file at once. *)
(*                                                                         *)
(* The rows of the i-th scan are the number i; event and telemetry rows of *)
(* the same scan carry the same time, and scans are numbered in that order.*)
(***************************************************************************)
EXTENDS Integers, Sequences, FiniteSets, SequencesExt, FiniteSetsExt

CONSTANT Processes        \* processes that open the database

VARIABLES tables,         \* tables that exist
          versions,       \* rows of schema_migrations
          pc,             \* process -> where it stands
          applied,        \* process -> versions its migrate() read
          version,        \* process -> the migration its loop is at
          created,        \* process -> statements of that script it has run
          telemetry, events, runs,  \* rows of these tables, by scan
          pruned          \* newest scan pruned from events and from telemetry

schemaVars == <<tables, versions, pc, applied, version, created>>
rowVars    == <<telemetry, events, runs, pruned>>

(***************************************************************************)
(* The migrations: the tables of each version, then its row.               *)
(***************************************************************************)
Migrations == << <<"telemetry", "security_events", "baseline_profiles", "scan_runs">>,
                 <<"audit_logs">>,
                 <<"security_findings", "full_scans">> >>

Versions  == 1 .. Len(Migrations)
AllTables == UNION {ToSet(Migrations[v]) : v \in Versions}

\* The database file before the first process: new, or left by an older release.
Init == /\ \E v \in 0 .. Len(Migrations) :
              /\ versions = 1 .. v
              /\ tables = UNION {ToSet(Migrations[w]) : w \in 1 .. v}
        /\ pc = [p \in Processes |-> "down"]
        /\ applied = [p \in Processes |-> {}]
        /\ version = [p \in Processes |-> 1]
        /\ created = [p \in Processes |-> 0]
        /\ telemetry = {} /\ events = {} /\ runs = {}
        /\ pruned = [events |-> 0, telemetry |-> 0]

(***************************************************************************)
(* StorageEngine.__init__ and migrate().                                   *)
(***************************************************************************)
\* migrate() returns or raises: its locals are gone.
Returns(p) == /\ applied' = [applied EXCEPT ![p] = {}]
              /\ version' = [version EXCEPT ![p] = 1]
              /\ created' = [created EXCEPT ![p] = 0]

\* CREATE TABLE IF NOT EXISTS schema_migrations, then SELECT version.
ReadVersions(p) ==
    /\ pc[p] = "down"
    /\ pc' = [pc EXCEPT ![p] = "migrating"]
    /\ applied' = [applied EXCEPT ![p] = versions]
    /\ UNCHANGED <<tables, versions, version, created>>

\* The loop is at a migration of the list.
AtMigration(p) == pc[p] = "migrating" /\ version[p] \in Versions

\* A faulty variant of the next definition: the loop's index moves twice.
SkipsTwo(p) ==
    /\ AtMigration(p) /\ version[p] \in applied[p]
    /\ version' = [version EXCEPT ![p] = @ + 2]
    /\ UNCHANGED <<tables, versions, pc, applied, created>>

\* A migration that was applied already.
Skips(p) ==
    /\ AtMigration(p) /\ version[p] \in applied[p]
    /\ version' = [version EXCEPT ![p] = @ + 1]
    /\ UNCHANGED <<tables, versions, pc, applied, created>>

\* executescript: CREATE TABLE IF NOT EXISTS, committed at once.
CreateTable(p) ==
    /\ AtMigration(p) /\ version[p] \notin applied[p]
    /\ created[p] < Len(Migrations[version[p]])
    /\ tables' = tables \cup {Migrations[version[p]][created[p] + 1]}
    /\ created' = [created EXCEPT ![p] = @ + 1]
    /\ UNCHANGED <<versions, pc, applied, version>>

\* A faulty variant of the next definition: the version is recorded before its script runs.
AtInsertFirst(p) == AtMigration(p) /\ version[p] \notin applied[p] /\ created[p] = 0

\* The script has run: INSERT INTO schema_migrations is next.
AtInsert(p) == /\ AtMigration(p) /\ version[p] \notin applied[p]
               /\ created[p] = Len(Migrations[version[p]])

RecordVersion(p) ==
    /\ AtInsert(p) /\ version[p] \notin versions
    /\ versions' = versions \cup {version[p]}
    /\ version' = [version EXCEPT ![p] = @ + 1]
    /\ created' = [created EXCEPT ![p] = 0]
    /\ UNCHANGED <<tables, pc, applied>>

\* The primary key refuses a version that another process recorded since, and
\* the constructor raises.
VersionExists(p) ==
    /\ AtInsert(p) /\ version[p] \in versions
    /\ pc' = [pc EXCEPT ![p] = "down"]
    /\ Returns(p)
    /\ UNCHANGED <<tables, versions>>

Opened(p) ==
    /\ pc[p] = "migrating" /\ version[p] \notin Versions
    /\ pc' = [pc EXCEPT ![p] = "open"]
    /\ Returns(p)
    /\ UNCHANGED <<tables, versions>>

\* The process is killed, or a statement meets a locked database for longer
\* than the busy timeout and the constructor raises.
MigrationStops(p) ==
    /\ pc[p] \in {"migrating", "open"}
    /\ pc' = [pc EXCEPT ![p] = "down"]
    /\ Returns(p)
    /\ UNCHANGED <<tables, versions>>

Migrate(p) == /\ \/ ReadVersions(p) \/ Skips(p) \/ CreateTable(p) \/ RecordVersion(p)
                 \/ VersionExists(p) \/ Opened(p) \/ MigrationStops(p)
              /\ UNCHANGED rowVars

(***************************************************************************)
(* The writes, each one transaction.                                       *)
(***************************************************************************)
record_telemetry(i) ==
    /\ telemetry' = telemetry \cup {i}
    /\ UNCHANGED <<events, runs, pruned>>

record_security_event(i) ==
    /\ events' = events \cup {i}
    /\ UNCHANGED <<telemetry, runs, pruned>>

record_scan_run(i) ==
    /\ runs' = runs \cup {i}
    /\ UNCHANGED <<telemetry, events, pruned>>

\* Events older than one cutoff and telemetry older than a later one; the
\* rows of scan_runs stay.
prune_retention(oldEvent, oldMetric) ==
    /\ events' = {i \in events : i > oldEvent}
    /\ telemetry' = {i \in telemetry : i > oldMetric}
    /\ pruned' = [events    |-> Max({oldEvent, pruned.events}),
                  telemetry |-> Max({oldMetric, pruned.telemetry})]
    /\ UNCHANGED runs

(***************************************************************************)
(* Properties of the schema.                                               *)
(***************************************************************************)
\* A recorded version has all its tables, whoever created them and wherever
\* a process was killed (migrate, storage/sqlite.py:75).
RecordedIsCreated == \A v \in versions : ToSet(Migrations[v]) \subseteq tables

\* A storage engine that was constructed finds every table of the schema
\* (StorageEngine.__init__, storage/sqlite.py:24).
OpenedIsMigrated ==
    /\ RecordedIsCreated
    /\ \A p \in Processes : pc[p] \notin {"down", "migrating"} =>
          /\ versions = Versions
          /\ tables = AllTables
=============================================================================
