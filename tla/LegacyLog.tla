------------------------------ MODULE LegacyLog ------------------------------
(***************************************************************************)
(* The two CSV files of the prototype (logger.py): the event log, read     *)
(* whole and written whole for every scan, and the baseline of the         *)
(* detectors. A file is opened for writing (which empties it) and filled   *)
(* by a later step; other threads and processes read and write in between. *)
(* A row keeps the columns the verdicts and the charts use; the event,     *)
(* which scan of whom it records, stands for Event_ID and Timestamp.       *)
(***************************************************************************)
EXTENDS Integers, Sequences, LegacyScoring

Absent == [there |-> FALSE, rows |-> <<>>, stamp |-> 0, born |-> 0]

\* COLUMNS and DEFAULTS
Columns == {"event", "risk", "severity", "score", "procs", "health", "privacy_event",
            "exfiltration"}
Defaults == [risk |-> "NORMAL", severity |-> "INFO", score |-> 0, procs |-> 0,
             health |-> "UNKNOWN", privacy_event |-> FALSE, exfiltration |-> FALSE]

\* _normalize_log_row(): the columns that have no value get their default
NormalizeRow(values) ==
    [column \in DOMAIN Defaults \cup DOMAIN values |->
        IF column \in DOMAIN values THEN values[column] ELSE Defaults[column]]

\* _migrate_logs(): missing columns are added, unknown ones dropped. A file that is
\* missing, empty or unreadable reads as no rows at all.
MigrateRow(row) == LET full == NormalizeRow(row) IN [column \in Columns |-> full[column]]
MigrateLogs(file) == [i \in DOMAIN file.rows |-> MigrateRow(file.rows[i])]

LoadLogs(file) == IF file.there THEN MigrateLogs(file) ELSE <<>>

\* append_log() up to the write: the rows it is going to store
Appended(file, row) == LoadLogs(file) \o <<NormalizeRow(row)>>

----------------------------------------------------------------------------
(* Writing a file: open(path, "w"), then the buffers. Each leaves a new      *)
(* modification time. How many whole rows the first buffers held is left     *)
(* open; rows of another writer that lie beyond the written ones stay. What  *)
(* is written to a file that was unlinked meanwhile is gone with it.         *)

OpenedForWriting(file, out) ==
    {[there |-> TRUE, rows |-> SubSeq(out, 1, k), stamp |-> file.stamp + 1,
      born |-> IF file.there THEN file.born ELSE file.stamp + 1]
        : k \in {i \in {0, Len(out) - 1} : i >= 0}}

Written(file, handle, out) ==
    IF file.there /\ file.born = handle
    THEN [file EXCEPT !.stamp = @ + 1, !.rows = out \o SubSeq(@, Len(out) + 1, Len(@))]
    ELSE file

Unlinked(file) == [Absent EXCEPT !.stamp = file.stamp + 1]

\* A faulty variant of the next definition: the size alone.
SizeSignature(file) == <<0, Len(file.rows)>>

\* _log_signature(): (mtime, size) of the file, (0, 0) when there is none
Signature(file) == IF file.there THEN <<file.stamp, Len(file.rows)>> ELSE <<0, 0>>

----------------------------------------------------------------------------
(* The baseline file, as the number of its valid samples: 0 when it is       *)
(* absent or was just emptied by its writer.                                 *)

BaselineSamples == 30   \* DEFAULT_SAMPLES
MinBaseline == 10       \* MIN_BASELINE_SAMPLES

\* load_baseline() and get_or_create_baseline()
UsableBaseline(samples) == samples >= MinBaseline
=============================================================================
