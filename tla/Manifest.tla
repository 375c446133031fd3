------------------------------ MODULE Manifest ------------------------------
(***************************************************************************)
(* The statements ndex-store runs against manifest.db, as operators on its *)
(* tables.  Each statement autocommits, so each is atomic and durable once *)
(* it returned.                                                            *)
(*                                                                         *)
(* files is a function from paths to rows: path is UNIQUE and no statement *)
(* deletes a row, so a file_id and its path name the same row for good.  A *)
(* row keeps the two columns that decide what happens next: the recorded   *)
(* (size, mtime_ns), as one number, and the status.                        *)
(***************************************************************************)
EXTENDS Naturals, FiniteSets

\* FileStatus; Skipped (5) is declared in the code and set by none of it.
FileStatus ==
    {"Pending", "Indexed", "FailedTransient", "Deleted", "FailedPermanent"}

Rows(stats) == [stat : stats, status : FileStatus \cup {"Absent"}]

NoRow == [stat |-> 0, status |-> "Absent"]

HasRow(files, p) == files[p].status # "Absent"

\* Mutant of UpsertWalked: the intent is written with the final status.
UpsertAsIndexed(files, p, stat) ==
    [files EXCEPT ![p] = [stat |-> stat, status |-> "Indexed"]]

\* INSERT ... ON CONFLICT(path) DO UPDATE SET ..., status = 0.
UpsertWalked(files, p, stat) ==
    [files EXCEPT ![p] = [stat |-> stat, status |-> "Pending"]]

\* Mutant of SetStatus: a deleted file loses its row.
SetStatusOrDelete(files, p, status) ==
    [files EXCEPT ![p] = IF status = "Deleted" THEN NoRow
                                               ELSE [@ EXCEPT !.status = status]]

\* UPDATE files SET status ... WHERE file_id = ?.
SetStatus(files, p, status) == [files EXCEPT ![p].status = status]

\* Mutant of Classify: a file that has a row counts as unchanged.
ClassifyByPresence(files, p, stat) ==
    IF HasRow(files, p) THEN "Unchanged" ELSE "New"

\* Phase 2: compare what the walk saw of p with the recorded row.  The
\* status column takes no part.
Classify(files, p, stat) ==
    CASE ~HasRow(files, p)                              -> "New"
      [] HasRow(files, p) /\ files[p].stat = stat       -> "Unchanged"
      [] HasRow(files, p) /\ files[p].stat # stat       -> "Modified"

\* Mutant of LiveFiles: no WHERE clause.
AllRows(files) == {p \in DOMAIN files : HasRow(files, p)}

\* SELECT file_id, path FROM files WHERE status != 3.
LiveFiles(files) ==
    {p \in DOMAIN files : HasRow(files, p) /\ files[p].status # "Deleted"}

\* Mutant of NewestRuns: ORDER BY run_id without DESC.
OldestRuns(runs, keep) ==
    {r \in runs : Cardinality({q \in runs : q < r}) < keep}

\* DELETE FROM reconciliation_runs WHERE run_id NOT IN (the keep newest).
NewestRuns(runs, keep) ==
    {r \in runs : Cardinality({q \in runs : q > r}) < keep}

=============================================================================
