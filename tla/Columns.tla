------------------------------ MODULE Columns ------------------------------
(***************************************************************************)
(* What a row of manifest.db or meta.db keeps of a record of the program.  *)
(*                                                                         *)
(* SQLite's integers are i64.  Unsigned fields are written and read back   *)
(* with `as`, which keeps the bits and not the number, so a size above     *)
(* 2^63 lies in the table as a negative one.                               *)
(***************************************************************************)
EXTENDS Widths

CONSTANTS
    Nano,             \* nanoseconds of a second, 10^9
    PathHash(_),      \* xxh3_64 of a path
    Null              \* SQL's NULL, Rust's None

ASSUME NanoAssumption == Nano \in Nat \ {0}

\* NULL is none of the values of a column.
ASSUME NullAssumption == Null \notin Int

\* A hash is a u64.
ASSUME HashAssumption == PathHash(1) \in U64

\* Two tables in one; f's entries win.
Both(f, g) == [c \in DOMAIN f \cup DOMAIN g |-> IF c \in DOMAIN f THEN f[c] ELSE g[c]]

-----------------------------------------------------------------------------
\* The tables: their columns, and the type of the field a column holds.
Files ==
    [file_id |-> "i64", path |-> "blob", path_hash |-> "u64", inode |-> "u64",
     dev |-> "u64", size |-> "u64", mtime_ns |-> "i64", ctime_ns |-> "i64",
     mode |-> "u32", uid |-> "u32", gid |-> "u32", blake3 |-> "hash",
     mime_type |-> "text", status |-> "status", fail_count |-> "u32",
     first_seen_ns |-> "i64", last_verified_ns |-> "i64", error_msg |-> "text",
     hard_link_of |-> "i64", parent_archive_id |-> "i64"]

DocMeta ==
    [title |-> "text", author |-> "text", subject |-> "text", creator |-> "text",
     producer |-> "text", created_at |-> "text", modified_at |-> "text",
     page_count |-> "u32", word_count |-> "u32", lang |-> "text"]

MediaMeta ==
    [width |-> "u32", height |-> "u32", duration_ms |-> "u64", codec |-> "text",
     bitrate |-> "u32", fps |-> "real", camera_make |-> "text",
     camera_model |-> "text", lens |-> "text", iso |-> "u32",
     focal_length |-> "real", aperture |-> "real", shutter_speed |-> "text",
     gps_lat |-> "real", gps_lon |-> "real", gps_alt |-> "real", taken_at |-> "text"]

ArchiveMeta ==
    [member_count |-> "u32", total_size |-> "u64", format |-> "text",
     extraction_status |-> "text"]

\* A field's value in its column: 32 bits are widened, f32 to REAL without loss.
ToColumn(type, v) ==
    IF v # Null /\ type = "u64" THEN AsI64(v) ELSE v

\* Unknown statuses are taken for Pending.
ReadStatus(n) == IF AsU8(n) \in 0 .. 5 THEN AsU8(n) ELSE 0

\* A column's value in its field.
FromColumn(type, c) ==
    CASE c # Null /\ type = "u64"    -> AsU64(c)
      [] c # Null /\ type = "u32"    -> AsU32(c)
      [] c # Null /\ type = "status" -> ReadStatus(c)
      [] OTHER                       -> c

ToRow(table, record) == [c \in DOMAIN record |-> ToColumn(table[c], record[c])]
FromRow(table, row) == [c \in DOMAIN row |-> FromColumn(table[c], row[c])]

-----------------------------------------------------------------------------
(***************************************************************************)
(* The statements on one file's row.                                       *)
(***************************************************************************)
\* std::fs::Metadata to WalkEntry: seconds and nanoseconds, in one i64.
MtimeNs(secs, nsec) == AsI64(AsI64(secs * Nano) + nsec)

\* What lstat tells of a file.
WalkEntry(stat) ==
    [size |-> stat.size, mtime_ns |-> MtimeNs(stat.secs, stat.nsec),
     ctime_ns |-> MtimeNs(stat.secs, stat.nsec), inode |-> stat.inode,
     dev |-> stat.dev, mode |-> stat.mode]

\* The row that INSERT makes before the walked columns are filled in.
NewRow(id, path, now) ==
    Both([file_id |-> id, path |-> path, fail_count |-> 0, first_seen_ns |-> now],
         [c \in DOMAIN Files |-> Null])

\* What an upsert sets whether or not the path had a row.
Intent(path, entry, now) ==
    Both(ToRow(Files, Both(entry, [path_hash |-> PathHash(path)])),
         [status |-> 0, last_verified_ns |-> now])

\* Mutant of UpsertWalked: a known file's row is made anew.
UpsertAnew(old, id, path, entry, now) ==
    Both(Intent(path, entry, now), NewRow(id, path, now))

\* INSERT ... ON CONFLICT(path) DO UPDATE: the walked columns, the status and
\* the time of verification are set, all others stay.
UpsertWalked(old, id, path, entry, now) ==
    Both(Intent(path, entry, now), IF old = Null THEN NewRow(id, path, now) ELSE old)

\* set_status counts failures of both kinds.
SetStatus(row, status, error, now) ==
    [row EXCEPT !.status = status, !.error_msg = error, !.last_verified_ns = now,
                !.fail_count = @ + (IF status \in {2, 4} THEN 1 ELSE 0)]

\* get_by_path: row_to_record, if there is a row.
Record(row) == FromRow(Files, row)

\* Mutant of Classify: sizes are compared in 32 bits.
ClassifyNarrow(row, entry) ==
    IF row = Null THEN "New"
    ELSE IF /\ AsU32(Record(row).size) = AsU32(entry.size)
            /\ Record(row).mtime_ns = entry.mtime_ns
         THEN "Unchanged" ELSE "Modified"

\* classify, on what get_by_path returns.
Classify(row, entry) ==
    IF row = Null THEN "New"
    ELSE IF /\ Record(row).size = entry.size
            /\ Record(row).mtime_ns = entry.mtime_ns
         THEN "Unchanged" ELSE "Modified"

-----------------------------------------------------------------------------
(***************************************************************************)
(* meta.db, of one file: a row of each table, or none.                     *)
(***************************************************************************)
MetaTables == [doc_meta |-> DocMeta, media_meta |-> MediaMeta, archive_meta |-> ArchiveMeta]

NoMeta == [t \in DOMAIN MetaTables |-> Null]

\* Mutant of UpsertMeta: columns without a new value keep the old one.
UpsertMetaCoalesced(meta, t, record) ==
    LET new == ToRow(MetaTables[t], record)
    IN  [meta EXCEPT ![t] =
            [c \in DOMAIN new |-> IF new[c] = Null /\ @ # Null THEN @[c] ELSE new[c]]]

\* INSERT OR REPLACE: the old row goes with all its columns.
UpsertMeta(meta, t, record) == [meta EXCEPT ![t] = ToRow(MetaTables[t], record)]

\* delete_file, in one transaction.
DeleteMeta(meta) == NoMeta

\* doc_meta and media_meta; nothing reads archive_meta back.
ReadMeta(meta, t) == IF meta[t] = Null THEN Null ELSE FromRow(MetaTables[t], meta[t])

=============================================================================
