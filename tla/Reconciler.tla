----------------------------- MODULE Reconciler -----------------------------
(***************************************************************************)
(* `ndex index`: the three-phase reconciliation (walk, diff, process) that *)
(* brings the manifest and the full-text index of one .ndex/ directory up  *)
(* to date with the tree, while the tree keeps changing and the process    *)
(* may die between any two durable writes.                                 *)
(*                                                                         *)
(* One process runs at a time: the store holds the exclusive lock from     *)
(* open to drop (module StoreLock).  A step of this specification ends at  *)
(* each durable write and at each look at the tree; steps that touch only  *)
(* the process's memory are merged with the step before them.              *)
(*                                                                         *)
(* meta.db is left out: its rows come from doc_meta and media_meta of an   *)
(* extraction, which the only working extractor always leaves empty.       *)
(***************************************************************************)
EXTENDS FileSystem, Manifest, FtsIndex

CONSTANTS
    Links,        \* paths that are symbolic links to files
    Opaque,       \* versions no extractor handles (it fails or panics)
    NoPath,       \* "no file in hand"
    RunHistory,   \* RUN_HISTORY, how many run rows are retained
    MaxRuns,      \* bound: runs started
    MaxAborts     \* bound: runs that die or return an error

ASSUME LinksAssumption == Links \subseteq Paths
ASSUME OpaqueAssumption == Opaque \subseteq Versions
ASSUME NoPathAssumption == NoPath \notin Paths
ASSUME RunHistoryAssumption == RunHistory \in Nat \ {0}
ASSUME BoundsAssumption == MaxRuns \in Nat /\ MaxAborts \in Nat

VARIABLES
    \* manifest.db, durable
    files,        \* table files: path -> row
    progress,     \* table index_progress: the paths with an "fts" row
    runs,         \* table reconciliation_runs: retained run ids
    finished,     \* the run ids whose completed_ns is set
    lastRun,      \* the newest run id
    reconciled,   \* the run that last set last_reconciliation_ns, or 0
    \* tantivy
    writer,       \* documents once the buffered operations are applied
    searcher,     \* committed documents, durable: what a search sees
    \* the process
    pc,           \* the next step of Reconciler::run, "idle" when none runs
    dry,          \* options.dry_run
    unwalked,     \* paths the directory walk has not come to
    walk,         \* WalkOutcome.files: the version seen, 0 if not in it
    new, modified, deleted,   \* DiffOutcome: what is left to process
    hand,         \* the path process_one works on
    bytes,        \* the version it has read
    \* bookkeeping
    aborts,       \* how many runs died
    calm,         \* history: how long the tree has been still, see Calm
    lost          \* history: paths whose buffered documents died with a run

storeVars == <<files, progress, runs, finished, lastRun, reconciled>>
ftsVars == <<writer, searcher>>
planVars == <<new, modified, deleted>>
walkVars == <<unwalked, walk>>
handVars == <<hand, bytes>>
processVars == <<pc, dry, walkVars, planVars, handVars>>
historyVars == <<aborts, calm, lost>>
vars == <<fsVars, storeVars, ftsVars, processVars, historyVars>>

Steps == {"idle", "walk", "diff", "process", "read", "extract", "indexed",
          "progress", "deleted", "finish", "touch", "prune"}

\* The steps within one file's processing or deletion.
HandSteps == {"read", "extract", "indexed", "progress", "deleted"}
BytesSteps == {"extract", "indexed", "progress"}

(***************************************************************************)
(* calm is "settled" when a whole run went by with no change to the tree   *)
(* and none came since, "run" while such a run is under way, "no" else.    *)
(***************************************************************************)
Calm == {"no", "run", "settled"}

StoreTypeOK ==
    /\ files \in [Paths -> Rows(0 .. MaxVersion)]
    /\ progress \subseteq Paths
    /\ lastRun \in 0 .. MaxRuns
    /\ runs \subseteq 1 .. lastRun
    /\ finished \subseteq 1 .. lastRun
    /\ reconciled \in 0 .. lastRun

FtsTypeOK ==
    /\ writer \in [Paths -> SUBSET Versions]
    /\ searcher \in [Paths -> SUBSET Versions]

ProcessTypeOK ==
    /\ pc \in Steps
    /\ dry \in BOOLEAN
    /\ unwalked \subseteq Paths
    /\ walk \in [Paths -> 0 .. MaxVersion]
    /\ new \subseteq Paths /\ modified \subseteq Paths /\ deleted \subseteq Paths
    /\ hand \in IF pc \in HandSteps THEN Paths ELSE {NoPath}
    /\ bytes \in IF pc \in BytesSteps THEN Versions ELSE {0}
    /\ pc # "idle" => lastRun # 0

HistoryTypeOK == aborts \in 0 .. MaxAborts /\ calm \in Calm /\ lost \subseteq Paths

TypeOK == FsTypeOK /\ StoreTypeOK /\ FtsTypeOK /\ ProcessTypeOK /\ HistoryTypeOK

Nowhere == [p \in Paths |-> 0]

\* A store fresh from `ndex init`, and an arbitrary process not yet started.
Init ==
    /\ FsInit
    /\ files = [p \in Paths |-> NoRow]
    /\ progress = {}
    /\ runs = {} /\ finished = {} /\ lastRun = 0 /\ reconciled = 0
    /\ writer = NoDocs(Paths) /\ searcher = NoDocs(Paths)
    /\ pc = "idle" /\ dry = FALSE
    /\ unwalked = {} /\ walk = Nowhere
    /\ new = {} /\ modified = {} /\ deleted = {}
    /\ hand = NoPath /\ bytes = 0
    /\ aborts = 0 /\ calm = "no" /\ lost = {}

-----------------------------------------------------------------------------
(***************************************************************************)
(* Reconciler::run, up to the plan of what to process.                     *)
(***************************************************************************)

\* Open the store and insert the run's row.
BeginRun(dryRun) ==
    /\ pc = "idle"
    /\ lastRun < MaxRuns
    /\ lastRun' = lastRun + 1
    /\ runs' = runs \cup {lastRun + 1}
    /\ dry' = dryRun
    /\ pc' = "walk"
    /\ unwalked' = Paths
    /\ calm' = IF calm = "no" /\ ~dryRun THEN "run" ELSE calm
    /\ UNCHANGED <<fsVars, files, progress, finished, reconciled, ftsVars,
                   walk, planVars, handVars, aborts, lost>>

\* The walk comes to p: a path that is not there is skipped.  Links are
\* followed, so a link shows its target.
WalkEntry(p) ==
    /\ pc = "walk"
    /\ p \in unwalked
    /\ unwalked' = unwalked \ {p}
    /\ walk' = [walk EXCEPT ![p] = content[p]]
    /\ pc' = IF unwalked = {p} THEN "diff" ELSE "walk"
    /\ UNCHANGED <<fsVars, storeVars, ftsVars, dry, planVars, handVars,
                   historyVars>>

Seen == {p \in Paths : walk[p] # 0}

ClassifiedAs(change) == {p \in Seen : Classify(files, p, walk[p]) = change}

\* Mutant of Diff: the dry_run option is not looked at.
DiffUnlessDry ==
    /\ pc = "diff"
    /\ pc' = "process"
    /\ new' = ClassifiedAs("New")
    /\ modified' = ClassifiedAs("Modified")
    /\ deleted' = LiveFiles(files) \ Seen
    /\ walk' = Nowhere
    /\ UNCHANGED <<fsVars, storeVars, ftsVars, dry, unwalked, handVars,
                   historyVars>>

\* Phase 2.  A dry run reports the plan and returns.
Diff ==
    /\ pc = "diff"
    /\ IF dry
          THEN pc' = "idle" /\ UNCHANGED planVars
          ELSE /\ pc' = "process"
               /\ new' = ClassifiedAs("New")
               /\ modified' = ClassifiedAs("Modified")
               /\ deleted' = LiveFiles(files) \ Seen
    /\ walk' = Nowhere
    /\ UNCHANGED <<fsVars, storeVars, ftsVars, dry, unwalked, handVars,
                   historyVars>>

-----------------------------------------------------------------------------
(***************************************************************************)
(* process_one: new files first, then modified ones.                       *)
(***************************************************************************)

Turn(p) == p \in new \/ (new = {} /\ p \in modified)

\* Mutant of TakePath: the file stays in the plan.
PeekPath(p) == pc = "process" /\ Turn(p) /\ UNCHANGED planVars

TakePath(p) ==
    /\ pc = "process"
    /\ Turn(p)
    /\ new' = new \ {p}
    /\ modified' = modified \ {p}
    /\ UNCHANGED deleted

\* lstat fails: the file counts as failed and nothing is written.
StatFails(p) ==
    /\ TakePath(p)
    /\ content[p] = 0
    /\ UNCHANGED <<fsVars, storeVars, ftsVars, pc, dry, walkVars, handVars,
                   historyVars>>

\* Mutant of LStat: mtime() without mtime_nsec(), a stat no walk records.
LStatInSeconds(p) == 0

\* lstat does not follow a link: it reports the link's own size and mtime,
\* here 0, which is no target's.
LStat(p) == IF p \in Links THEN 0 ELSE content[p]

\* A link is still there when its target is gone.
MayLStat(p) == content[p] # 0 \/ p \in Links

\* lstat, then the intent write.
UpsertIntent(p) ==
    /\ TakePath(p)
    /\ MayLStat(p)
    /\ files' = UpsertWalked(files, p, LStat(p))
    /\ hand' = p
    /\ pc' = "read"
    /\ UNCHANGED <<fsVars, progress, runs, finished, lastRun, reconciled,
                   ftsVars, dry, walkVars, bytes, historyVars>>

\* Leave process_one, with nothing more to write.
LetGo == pc' = "process" /\ hand' = NoPath /\ bytes' = 0

\* classify_io_error: ENOENT means deleted, anything else is transient.
ReadFails ==
    /\ pc = "read"
    /\ \/ /\ content[hand] = 0
          /\ files' = SetStatus(files, hand, "Deleted")
       \/ /\ content[hand] # 0 /\ ~readable[hand]
          /\ files' = SetStatus(files, hand, "FailedTransient")
    /\ LetGo
    /\ UNCHANGED <<fsVars, progress, runs, finished, lastRun, reconciled,
                   ftsVars, dry, walkVars, planVars, historyVars>>

ReadFile ==
    /\ pc = "read"
    /\ content[hand] # 0 /\ readable[hand]
    /\ bytes' = content[hand]
    /\ pc' = "extract"
    /\ UNCHANGED <<fsVars, storeVars, ftsVars, dry, walkVars, planVars, hand,
                   historyVars>>

\* An extraction error and a caught panic end alike.
ExtractFails ==
    /\ pc = "extract"
    /\ bytes \in Opaque
    /\ files' = SetStatus(files, hand, "FailedPermanent")
    /\ LetGo
    /\ UNCHANGED <<fsVars, progress, runs, finished, lastRun, reconciled,
                   ftsVars, dry, walkVars, planVars, historyVars>>

\* Drop the old chunks and buffer the new ones.
IndexChunks ==
    /\ pc = "extract"
    /\ bytes \notin Opaque
    /\ writer' = AddChunks(DeleteDocs(writer, hand), hand, bytes)
    /\ lost' = lost \ {hand}
    /\ pc' = "indexed"
    /\ UNCHANGED <<fsVars, storeVars, searcher, dry, walkVars, planVars,
                   handVars, aborts, calm>>

\* Mutant of MarkIndexed: the row is given the stat the file has by now.
MarkIndexedRestat ==
    /\ pc = "indexed"
    /\ files' = SetStatus(UpsertWalked(files, hand, content[hand]), hand, "Indexed")
    /\ pc' = "progress"
    /\ UNCHANGED <<fsVars, progress, runs, finished, lastRun, reconciled,
                   ftsVars, dry, walkVars, planVars, handVars, historyVars>>

MarkIndexed ==
    /\ pc = "indexed"
    /\ files' = SetStatus(files, hand, "Indexed")
    /\ pc' = "progress"
    /\ UNCHANGED <<fsVars, progress, runs, finished, lastRun, reconciled,
                   ftsVars, dry, walkVars, planVars, handVars, historyVars>>

RecordProgress ==
    /\ pc = "progress"
    /\ progress' = progress \cup {hand}
    /\ LetGo
    /\ UNCHANGED <<fsVars, files, runs, finished, lastRun, reconciled,
                   ftsVars, dry, walkVars, planVars, historyVars>>

-----------------------------------------------------------------------------
(***************************************************************************)
(* Deletions, the one commit, and the end of the run.                      *)
(***************************************************************************)

DropDocs(p) ==
    /\ pc = "process"
    /\ new = {} /\ modified = {} /\ p \in deleted
    /\ deleted' = deleted \ {p}
    /\ writer' = DeleteDocs(writer, p)
    /\ hand' = p
    /\ pc' = "deleted"
    /\ UNCHANGED <<fsVars, storeVars, searcher, dry, walkVars, new, modified,
                   bytes, historyVars>>

MarkDeleted ==
    /\ pc = "deleted"
    /\ files' = SetStatus(files, hand, "Deleted")
    /\ lost' = lost \ {hand}
    /\ LetGo
    /\ UNCHANGED <<fsVars, progress, runs, finished, lastRun, reconciled,
                   ftsVars, dry, walkVars, planVars, aborts, calm>>

Commit ==
    /\ pc = "process"
    /\ new = {} /\ modified = {} /\ deleted = {}
    /\ searcher' = writer
    /\ pc' = "finish"
    /\ UNCHANGED <<fsVars, storeVars, writer, dry, walkVars, planVars,
                   handVars, historyVars>>

FinishRun ==
    /\ pc = "finish"
    /\ finished' = finished \cup {lastRun}
    /\ pc' = "touch"
    /\ UNCHANGED <<fsVars, files, progress, runs, lastRun, reconciled,
                   ftsVars, dry, walkVars, planVars, handVars, historyVars>>

TouchLastReconciliation ==
    /\ pc = "touch"
    /\ reconciled' = lastRun
    /\ pc' = "prune"
    /\ UNCHANGED <<fsVars, files, progress, runs, finished, lastRun, ftsVars,
                   dry, walkVars, planVars, handVars, historyVars>>

PruneRuns ==
    /\ pc = "prune"
    /\ runs' = NewestRuns(runs, RunHistory)
    /\ finished' = finished \cap runs'
    /\ pc' = "idle"
    /\ calm' = IF calm = "run" THEN "settled" ELSE calm
    /\ UNCHANGED <<fsVars, files, progress, lastRun, reconciled, ftsVars,
                   dry, walkVars, planVars, handVars, aborts, lost>>

-----------------------------------------------------------------------------
(***************************************************************************)
(* The process is killed, or a statement fails and `?` returns from run:   *)
(* either way the writer is dropped with its buffered operations, and what *)
(* the manifest already holds stays.                                       *)
(***************************************************************************)

\* Mutant of Abort: the writer outlives a run that failed, buffer and all.
AbortKeepsBuffer ==
    /\ pc # "idle"
    /\ aborts < MaxAborts
    /\ aborts' = aborts + 1
    /\ pc' = "idle"
    /\ unwalked' = {} /\ walk' = Nowhere
    /\ new' = {} /\ modified' = {} /\ deleted' = {}
    /\ hand' = NoPath /\ bytes' = 0
    /\ calm' = IF calm = "run" THEN "no" ELSE calm
    /\ UNCHANGED <<fsVars, storeVars, ftsVars, dry, lost>>

Abort ==
    /\ pc # "idle"
    /\ aborts < MaxAborts
    /\ aborts' = aborts + 1
    /\ writer' = searcher
    /\ lost' = lost \cup {p \in Paths : writer[p] # searcher[p]}
    /\ pc' = "idle"
    /\ unwalked' = {} /\ walk' = Nowhere
    /\ new' = {} /\ modified' = {} /\ deleted' = {}
    /\ hand' = NoPath /\ bytes' = 0
    /\ calm' = IF calm = "run" THEN "no" ELSE calm
    /\ UNCHANGED <<fsVars, storeVars, searcher, dry>>

\* Someone else changes the tree.
TreeChanges(p) ==
    /\ FsNext(p)
    /\ calm' = "no"
    /\ UNCHANGED <<storeVars, ftsVars, processVars, aborts, lost>>

RunStep ==
    \/ \E p \in Paths : WalkEntry(p)
    \/ Diff
    \/ \E p \in Paths : StatFails(p) \/ UpsertIntent(p)
    \/ ReadFails \/ ReadFile
    \/ ExtractFails \/ IndexChunks
    \/ MarkIndexed \/ RecordProgress
    \/ \E p \in Paths : DropDocs(p)
    \/ MarkDeleted
    \/ Commit \/ FinishRun \/ TouchLastReconciliation \/ PruneRuns

Next ==
    \/ \E d \in BOOLEAN : BeginRun(d)
    \/ RunStep
    \/ Abort
    \/ \E p \in Paths : TreeChanges(p)

Spec == Init /\ [][Next]_vars

\* Nothing in a run waits for anyone: once begun, the process keeps running
\* unless it dies.
FairSpec == Spec /\ WF_vars(RunStep)

-----------------------------------------------------------------------------
(***************************************************************************)
(* What holds.                                                             *)
(***************************************************************************)

\* p is in hand with its row or its documents half way through a change.
InHand(p) == hand = p

\* An Indexed file has in the index the chunks of exactly one version, and
\* that version is at least as new as the stat recorded for it.  So a write
\* that races with process_one (between lstat and read) can only make the
\* row too old, and the next diff sees the file as modified.  The one way
\* out are buffered documents that died with a run.
IndexedIsFresh ==
    \A p \in Paths :
        files[p].status = "Indexed" /\ p \notin lost /\ ~InHand(p)
            => \E v \in Versions : writer[p] = {v} /\ files[p].stat <= v

\* Re-indexing replaces: a search never finds chunks of two versions of one
\* file, whatever runs died in between.
OneVersionSearchable ==
    \A p \in Paths : \A v, w \in searcher[p] : v = w

\* Every hit resolves to a path: a document is searchable only if its file
\* has a row in the manifest (search looks the path up by file_id).
HitsHaveRows == \A p \in Paths : searcher[p] # {} => HasRow(files, p)

\* A run over a tree that holds still leaves the manifest exact: a row per
\* file present with the stat it has now, no live row for a file that is
\* not there, and for each Indexed file the chunks of what is on disk now,
\* except where an earlier run died with them.
SettledIsExact ==
    calm = "settled" /\ pc = "idle" =>
        \A p \in Paths \ Links :
            IF content[p] = 0
               THEN files[p].status \in {"Absent", "Deleted"}
               ELSE /\ HasRow(files, p)
                    /\ files[p].stat = content[p]
                    /\ files[p].status = "Indexed" /\ p \notin lost
                           => searcher[p] = {content[p]}

\* After a whole run over a tree that holds still, a further run finds
\* nothing to do for the files the first one was through with: those it
\* indexed, found gone or failed for good on.  Of a row that failed for the
\* time being, or is Pending since a run died, nothing is said here; nor of
\* symbolic links, whose stat the walk and process_one take differently.
RerunIsIdle ==
    calm = "settled" /\ pc = "process" =>
        \A p \in (new \cup modified \cup deleted) \ Links :
            files[p].status \in {"FailedTransient", "Pending"}

\* last_reconciliation_ns, which the staleness check trusts, names a run
\* that is on record as completed, also after pruning and after crashes.
ReconciledRunOnRecord == reconciled # 0 => reconciled \in finished

\* What the searcher shows between runs is all the writer had: nothing is
\* left buffered behind a run, and nothing of a dead run comes out later.
NothingBufferedBetweenRuns == pc = "idle" => writer = searcher

\* Write order of one file: a row turns Indexed only from the Pending of its
\* own intent write, and only after its chunks are in the writer's buffer.
IndexedAfterChunks ==
    [][\A p \in Paths :
          files[p].status # "Indexed" /\ files'[p].status = "Indexed"
              => files[p].status = "Pending" /\ writer[p] # {}]_vars

\* The code commits once a run: documents appear and vanish only when the run
\* has worked off its whole plan.  (PRD 10.2 wants commits on the way.)
CommitIsLast ==
    [][searcher' # searcher
          => /\ new = {} /\ modified = {} /\ deleted = {} /\ hand = NoPath
             /\ lastRun \notin finished]_vars

\* A dry run reports and leaves files and documents alone.
DryRunWritesNothing ==
    [][dry /\ pc # "idle"
          => UNCHANGED <<files, progress, finished, reconciled, ftsVars>>]_vars

\* A run that has begun ends, however the tree changes meanwhile.
RunEnds == pc # "idle" ~> pc = "idle"

-----------------------------------------------------------------------------
(***************************************************************************)
(* What the documentation says and the code does not do.                   *)
(***************************************************************************)

\* manifest.rs: "Presence of a row means 'successfully completed for this
\* index', not 'attempted'": a file with an "fts" progress row is in the
\* committed index.
ProgressMeansCompleted ==
    pc = "idle" =>
        \A p \in Paths :
            p \in progress /\ files[p].status = "Indexed" => searcher[p] # {}

\* A file that a run over a still tree should have indexed: there, readable,
\* and of a kind some extractor handles.
Indexable(p) == content[p] # 0 /\ readable[p] /\ content[p] \notin Opaque

Settled(status) ==
    {p \in Paths : /\ calm = "settled" /\ pc = "idle"
                   /\ Indexable(p) /\ files[p].status = status}

\* PRD 11.5: "Files with status = 2 (failed_transient) are retried on the
\* next reconciliation run".
TransientIsRetried == Settled("FailedTransient") = {}

\* process.rs: "Apply deletions: drop FTS docs + metadata, mark the manifest
\* row deleted": a file marked deleted is not searchable.
DeletedIsNotSearchable ==
    pc = "idle" =>
        \A p \in Paths \ lost : files[p].status = "Deleted" => searcher[p] = {}

=============================================================================
