----------------------------- MODULE Durability -----------------------------
(***************************************************************************)
(* Index runs, power losses and the clock: what the two stores of one      *)
(* index still say of each other after a power loss, and how old the index *)
(* says it is.                                                             *)
(*                                                                         *)
(* manifest.db is in WAL mode with synchronous = NORMAL: a commit appends  *)
(* to the log without an fsync.  A killed process loses nothing of it, a   *)
(* power loss any suffix, back to the last checkpoint.  tantivy syncs what *)
(* it commits.  So the manifest may fall behind the documents, and hand    *)
(* the file_ids of lost rows to other files: rows are never deleted, and a *)
(* new one is numbered after the last.                                     *)
(*                                                                         *)
(* Reconciler has the whole of a run, with one file_id for each path; here *)
(* a run is cut down to what reaches rows, documents and the clock.        *)
(***************************************************************************)
EXTENDS Integers, Sequences, FiniteSets

CONSTANTS
    Paths,            \* where files may be
    Threshold, Warn,  \* auto_refresh.threshold and .warn_threshold
    MaxVersion,       \* bounds: of the states of a file,
    MaxChanges,       \* changes of the tree,
    MaxRuns,          \* runs,
    MaxLosses,        \* power losses,
    MaxKills,         \* killed processes,
    MaxNow            \* and the clock

ASSUME DurabilityAssumption ==
    /\ Threshold \in Nat /\ Warn \in Nat
    /\ MaxVersion \in Nat /\ MaxChanges \in Nat /\ MaxRuns \in Nat
    /\ MaxLosses \in Nat /\ MaxKills \in Nat /\ MaxNow \in Nat

VARIABLES
    tree,             \* path -> size and mtime of the file, 0 if there is none
    rows,             \* manifest: file_id -> [path, version, status]
    last,             \* schema_info: last_reconciliation_ns, -1 if there is none
    wal,              \* manifests a power loss may bring back: <<rows, last>>
    docs,             \* documents committed: [id, path, version]
    writer,           \* documents as the index's writer has them
    pc,               \* where the run is
    todo, gone,       \* its diff: paths and file_ids
    hand,             \* file_id of the file in process_one, or 0
    now,              \* the clock
    known,            \* ghost: [id, path, version] this run read and indexed
    ends,             \* ghost: when runs ended
    setBack,          \* ghost: the clock was set back once
    changes, runs, losses, kills

manifest == <<rows, last, wal>>
runVars == <<todo, gone, hand, known>>
clock == <<now, ends, setBack>>
counters == <<changes, runs, losses, kills>>
vars == <<tree, manifest, docs, writer, pc, runVars, clock, counters>>

Statuses == {"Pending", "Indexed", "FailedTransient", "Deleted", "FailedPermanent"}

Row == [path : Paths, version : 1 .. MaxVersion, status : Statuses]
Doc == [id : Nat, path : Paths, version : 1 .. MaxVersion]

TypeOK ==
    /\ tree \in [Paths -> 0 .. MaxVersion]
    /\ rows \in Seq(Row) /\ last \in Int /\ wal \subseteq Seq(Row) \X Int
    /\ docs \subseteq Doc /\ writer \subseteq Doc /\ known \subseteq Doc
    /\ pc \in {"idle", "process", "read", "finish", "close"}
    /\ todo \subseteq Paths /\ gone \subseteq DOMAIN rows
    /\ hand \in Nat /\ (pc = "read" => hand \in DOMAIN rows)
    /\ now \in Nat /\ ends \subseteq Nat /\ setBack \in BOOLEAN
    /\ changes \in Nat /\ runs \in Nat /\ losses \in Nat /\ kills \in Nat

Init ==
    /\ tree \in [Paths -> 0 .. MaxVersion]
    /\ rows = <<>> /\ last = -1 /\ wal = {<<rows, last>>}
    /\ docs = {} /\ writer = {}
    /\ pc = "idle" /\ todo = {} /\ gone = {} /\ hand = 0
    /\ now = 0 /\ known = {} /\ ends = {} /\ setBack = FALSE
    /\ changes = 0 /\ runs = 0 /\ losses = 0 /\ kills = 0

-----------------------------------------------------------------------------
\* The file_ids a path has: one, or none.
IdsOf(path) == {id \in DOMAIN rows : rows[id].path = path}

\* A statement on the manifest, committed by itself.  Checkpoints that SQLite
\* makes meanwhile only take manifests out of wal, and are left out.
Commits(r, l) ==
    /\ rows' = r /\ last' = l
    /\ wal' = wal \cup {<<r, l>>}

DocsOf(set, id) == {d \in set : d.id = id}

-----------------------------------------------------------------------------
\* begin_run, walk and diff.  The number of files is the work ahead.
StartRun ==
    /\ pc = "idle" /\ runs < MaxRuns
    /\ todo' = {p \in Paths : tree[p] # 0 /\
                   \A id \in IdsOf(p) : rows[id].version # tree[p]}
    /\ gone' = {id \in DOMAIN rows : rows[id].status # "Deleted" /\ tree[rows[id].path] = 0}
    /\ pc' = "process"
    /\ runs' = runs + 1
    /\ UNCHANGED <<tree, manifest, docs, writer, hand, known, clock, changes, losses, kills>>

\* New paths come before modified ones.
Turn == LET new == {p \in todo : IdsOf(p) = {}} IN IF new # {} THEN new ELSE todo

\* process_one up to upsert_walked: lstat, and the row of what it saw.
TakePath ==
    /\ pc = "process"
    /\ \E path \in Turn :
          LET row == [path |-> path, version |-> tree[path], status |-> "Pending"]
          IN  /\ todo' = todo \ {path}
              /\ \/ UNCHANGED <<manifest, pc, hand>>      \* lstat fails
                 \/ /\ tree[path] # 0
                    /\ pc' = "read"
                    /\ \/ /\ IdsOf(path) = {}
                          /\ hand' = Len(rows) + 1
                          /\ Commits(Append(rows, row), last)
                       \/ \E id \in IdsOf(path) :
                          /\ hand' = id
                          /\ Commits([rows EXCEPT ![id] = row], last)
    /\ UNCHANGED <<tree, docs, writer, gone, known, clock, counters>>

\* The file is gone, cannot be read, or cannot be extracted: its row says so,
\* and its documents stay.
Fail ==
    /\ pc = "read"
    /\ \E status \in IF tree[rows[hand].path] = 0 THEN {"Deleted"}
                     ELSE {"FailedTransient", "FailedPermanent"} :
          Commits([rows EXCEPT ![hand].status = status], last)
    /\ pc' = "process" /\ hand' = 0
    /\ UNCHANGED <<tree, docs, writer, todo, gone, known, clock, counters>>

\* Mutant of Replaced: delete_file comes after add_chunk.
ReplacedLate(doc) == writer \ DocsOf(writer, doc.id)

\* Mutant of Replaced: a file without a document of its own is only added to.
ReplacedIfOwn(doc) ==
    IF \E d \in writer : d.id = doc.id /\ d.path = doc.path
    THEN (writer \ DocsOf(writer, doc.id)) \cup {doc}
    ELSE writer \cup {doc}

\* delete_file, then add_chunk.
Replaced(doc) == (writer \ DocsOf(writer, doc.id)) \cup {doc}

\* Read, extracted and handed to the writer, and its row is Indexed.
Index ==
    /\ pc = "read" /\ tree[rows[hand].path] # 0
    /\ LET path == rows[hand].path
           doc == [id |-> hand, path |-> path, version |-> tree[path]]
       IN  /\ writer' = Replaced(doc)
           /\ known' = known \cup {doc}
    /\ Commits([rows EXCEPT ![hand].status = "Indexed"], last)
    /\ pc' = "process" /\ hand' = 0
    /\ UNCHANGED <<tree, docs, todo, gone, clock, counters>>

\* Deletions, when all files are done.
Drop ==
    /\ pc = "process" /\ todo = {}
    /\ \E id \in gone :
          /\ writer' = writer \ DocsOf(writer, id)
          /\ Commits([rows EXCEPT ![id].status = "Deleted"], last)
          /\ gone' = gone \ {id}
    /\ UNCHANGED <<tree, docs, pc, todo, hand, known, clock, counters>>

\* FtsIndex::commit.
Commit ==
    /\ pc = "process" /\ todo = {} /\ gone = {}
    /\ docs' = writer
    /\ pc' = "finish"
    /\ UNCHANGED <<tree, manifest, writer, runVars, clock, counters>>

\* finish_run and touch_last_reconciliation.
Touch ==
    /\ pc = "finish"
    /\ Commits(rows, now)
    /\ ends' = ends \cup {now}
    /\ pc' = "close" /\ known' = {}
    /\ UNCHANGED <<tree, docs, writer, todo, gone, hand, now, setBack, counters>>

\* The connection closes: SQLite checkpoints and syncs.
Close ==
    /\ pc = "close"
    /\ wal' = {<<rows, last>>}
    /\ pc' = "idle"
    /\ UNCHANGED <<tree, rows, last, docs, writer, runVars, clock, counters>>

Run == StartRun \/ TakePath \/ Fail \/ Index \/ Drop \/ Commit \/ Touch \/ Close

-----------------------------------------------------------------------------
\* A run ends where it is.  What its writer had not committed is gone.
Stop ==
    /\ pc' = "idle" /\ writer' = docs
    /\ todo' = {} /\ gone' = {} /\ hand' = 0 /\ known' = {}

\* The process is killed, or a statement fails and the run returns its error;
\* the next process finds all of its manifest.
Kill ==
    /\ pc # "idle" /\ kills < MaxKills
    /\ Stop
    /\ kills' = kills + 1
    /\ UNCHANGED <<tree, manifest, docs, clock, changes, runs, losses>>

PowerLoss ==
    /\ losses < MaxLosses
    /\ Stop
    /\ \E m \in wal : rows' = m[1] /\ last' = m[2] /\ wal' = {m}
    /\ losses' = losses + 1
    /\ UNCHANGED <<tree, docs, clock, changes, runs, kills>>

\* Other programs write, remove and put back files.
TreeChanges ==
    /\ changes < MaxChanges /\ changes' = changes + 1
    /\ \E path \in Paths, version \in 0 .. MaxVersion :
          version # tree[path] /\ tree' = [tree EXCEPT ![path] = version]
    /\ UNCHANGED <<manifest, docs, writer, pc, runVars, clock, runs, losses, kills>>

Tick ==
    /\ now < MaxNow
    /\ now' = now + 1
    /\ UNCHANGED <<tree, manifest, docs, writer, pc, runVars, ends, setBack, counters>>

\* Someone, or ntpd, sets the clock back.
SetBack ==
    /\ ~setBack
    /\ now' \in 0 .. now - 1 /\ setBack' = TRUE
    /\ UNCHANGED <<tree, manifest, docs, writer, pc, runVars, ends, counters>>

Next == Run \/ Kill \/ PowerLoss \/ TreeChanges \/ Tick \/ SetBack

Spec == Init /\ [][Next]_vars

-----------------------------------------------------------------------------
\* Mutant of Staleness: an index that was never reconciled has no age.
StalenessOfNone(l, n) ==
    LET age == IF l = -1 \/ n < l THEN 0 ELSE n - l
    IN  CASE age < Threshold -> "Fresh" [] Threshold <= age /\ age < Warn -> "Stale"
          [] OTHER -> "Warn"

\* staleness.
Staleness(l, n) ==
    LET age == IF n < l THEN 0 ELSE n - l
    IN  CASE l = -1 -> "Warn"
          [] l # -1 /\ age < Threshold -> "Fresh"
          [] l # -1 /\ Threshold <= age /\ age < Warn -> "Stale"
          [] OTHER -> "Warn"

(***************************************************************************)
(* What holds.                                                             *)
(***************************************************************************)

\* When a run has committed, a search finds under the file_ids it indexed what
\* it read and nothing else, whatever files had these ids before a power loss.
RunIsExact ==
    pc = "finish" => \A doc \in known : DocsOf(docs, doc.id) = {doc}

\* Documents whose hits are shown under the name of another file.
Strangers ==
    {d \in docs : d.id \in DOMAIN rows /\ rows[d.id].path # d.path}

\* Without a power loss there are none.  After one, there may be under files
\* that a run could not read, but never under one it indexed, unless the run
\* was cut short too.
StrangersAreContained ==
    /\ losses = 0 => Strangers = {}
    /\ losses = 1 /\ kills = 0 /\ pc = "finish" =>
          \A d \in Strangers : rows[d.id].status # "Indexed"

\* While nobody sets the clock back, an index that says it is fresh had a run
\* end within the threshold, also if power losses took that run's rows away.
FreshMeansRecentRun ==
    ~setBack /\ Staleness(last, now) = "Fresh" =>
        \E t \in ends : now - t < Threshold

=============================================================================
