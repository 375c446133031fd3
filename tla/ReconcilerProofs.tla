-------------------------- MODULE ReconcilerProofs --------------------------
(***************************************************************************)
(* Proofs about the reconciliation, for any set of paths and any bounds.   *)
(***************************************************************************)
EXTENDS ReconcilerInvariant, FiniteSetTheorems, TLAPS

-----------------------------------------------------------------------------
(***************************************************************************)
(* Which actions change which group of variables.                          *)
(***************************************************************************)

\* Only the environment changes the tree.
LEMMA FsFrame ==
    ASSUME Next
    PROVE  UNCHANGED fsVars \/ \E p \in Paths : TreeChanges(p)
  BY DEF Next, RunStep, BeginRun, WalkEntry, Diff, StatFails, UpsertIntent,
         ReadFails, ReadFile, ExtractFails, IndexChunks, MarkIndexed,
         RecordProgress, DropDocs, MarkDeleted, Commit, FinishRun,
         TouchLastReconciliation, PruneRuns, Abort

\* The rows of the files table change in the four places that set a status.
LEMMA FilesFrame ==
    ASSUME Next
    PROVE  \/ UNCHANGED files
           \/ \E p \in Paths : UpsertIntent(p)
           \/ ReadFails \/ ExtractFails \/ MarkIndexed \/ MarkDeleted
  BY DEF Next, RunStep, BeginRun, WalkEntry, Diff, StatFails, ReadFile,
         IndexChunks, RecordProgress, DropDocs, Commit, FinishRun,
         TouchLastReconciliation, PruneRuns, Abort, TreeChanges, storeVars

\* The other tables change when a run begins, at a file's progress row, and
\* in the three writes that end a run.
LEMMA RunTableFrame ==
    ASSUME Next
    PROVE  \/ UNCHANGED <<progress, runs, finished, lastRun, reconciled>>
           \/ \E d \in BOOLEAN : BeginRun(d)
           \/ RecordProgress
           \/ FinishRun \/ TouchLastReconciliation \/ PruneRuns
  BY DEF Next, RunStep, WalkEntry, Diff, StatFails, UpsertIntent, ReadFails,
         ReadFile, ExtractFails, IndexChunks, MarkIndexed, DropDocs,
         MarkDeleted, Commit, Abort, TreeChanges, storeVars

\* The documents change when a file is indexed or dropped, at the commit, and
\* when the writer is lost.
LEMMA FtsFrame ==
    ASSUME Next
    PROVE  \/ UNCHANGED ftsVars
           \/ IndexChunks \/ Commit \/ Abort
           \/ \E p \in Paths : DropDocs(p)
  BY DEF Next, RunStep, BeginRun, WalkEntry, Diff, StatFails, UpsertIntent,
         ReadFails, ReadFile, ExtractFails, MarkIndexed, RecordProgress,
         MarkDeleted, FinishRun, TouchLastReconciliation, PruneRuns,
         TreeChanges

\* The history variables follow the actions they record.
LEMMA HistoryFrame ==
    ASSUME Next
    PROVE  \/ UNCHANGED historyVars
           \/ \E d \in BOOLEAN : BeginRun(d)
           \/ IndexChunks \/ MarkDeleted \/ PruneRuns \/ Abort
           \/ \E p \in Paths : TreeChanges(p)
  BY DEF Next, RunStep, WalkEntry, Diff, StatFails, UpsertIntent, ReadFails,
         ReadFile, ExtractFails, MarkIndexed, RecordProgress, DropDocs,
         Commit, FinishRun, TouchLastReconciliation

-----------------------------------------------------------------------------
(***************************************************************************)
(* Type correctness, one group of variables at a time.                     *)
(***************************************************************************)

\* Both statements that write a row of the files table keep its type.
LEMMA UpsertType ==
    ASSUME NEW S, NEW f \in [Paths -> Rows(S)], NEW p \in Paths, NEW s \in S
    PROVE  UpsertWalked(f, p, s) \in [Paths -> Rows(S)]
  BY DEF UpsertWalked, Rows, FileStatus

\* UPDATE ... SET status keeps the type of the files table.
LEMMA SetStatusType ==
    ASSUME NEW S, NEW f \in [Paths -> Rows(S)], NEW p, NEW t \in FileStatus
    PROVE  SetStatus(f, p, t) \in [Paths -> Rows(S)]
  BY DEF SetStatus, Rows

\* The tree stays a map from paths to versions.
LEMMA FsTypeNext ==
    ASSUME FsTypeOK, Next
    PROVE  FsTypeOK'
<1>1. CASE UNCHANGED fsVars
  BY <1>1 DEF FsTypeOK, fsVars
<1>2. ASSUME NEW p \in Paths, TreeChanges(p)
      PROVE  FsTypeOK'
  <2>1. CASE Write(p)
    <3>1. latest[p] + 1 \in 0 .. MaxVersion
      BY <2>1, MaxVersionAssumption DEF Write, FsTypeOK
    <3>2. QED
      BY <2>1, <3>1 DEF Write, FsTypeOK
  <2>2. CASE Remove(p)
    BY <2>2, MaxVersionAssumption DEF Remove, FsTypeOK
  <2>3. CASE Restore(p)
    BY <2>3 DEF Restore, FsTypeOK
  <2>4. CASE Chmod(p)
    BY <2>4 DEF Chmod, FsTypeOK
  <2>5. QED
    BY <1>2, <2>1, <2>2, <2>3, <2>4 DEF TreeChanges, FsNext
<1>3. QED
  BY <1>1, <1>2, FsFrame

\* The files table stays a table of rows.
LEMMA FilesTypeNext ==
    ASSUME TypeOK, Next
    PROVE  files' \in [Paths -> Rows(0 .. MaxVersion)]
<1>1. files \in [Paths -> Rows(0 .. MaxVersion)]
  BY DEF TypeOK, StoreTypeOK
<1>2. ASSUME NEW p \in Paths, UpsertIntent(p)
      PROVE  files' \in [Paths -> Rows(0 .. MaxVersion)]
  <2>1. LStat(p) \in 0 .. MaxVersion
    BY MaxVersionAssumption DEF LStat, TypeOK, FsTypeOK
  <2>2. QED
    BY <1>1, <1>2, <2>1, UpsertType DEF UpsertIntent
<1>3. ASSUME NEW t \in FileStatus, files' = SetStatus(files, hand, t)
      PROVE  files' \in [Paths -> Rows(0 .. MaxVersion)]
  BY <1>1, <1>3, SetStatusType
<1>4. QED
  BY <1>1, <1>2, <1>3, FilesFrame
     DEF FileStatus, ReadFails, ExtractFails, MarkIndexed, MarkDeleted

\* The run table stays within the runs begun so far.
LEMMA StoreTypeNext ==
    ASSUME TypeOK, Next
    PROVE  StoreTypeOK'
<1> USE FilesTypeNext DEF TypeOK, StoreTypeOK
<1>1. CASE UNCHANGED <<progress, runs, finished, lastRun, reconciled>>
  BY <1>1
<1>2. ASSUME NEW d \in BOOLEAN, BeginRun(d)
      PROVE  StoreTypeOK'
  BY <1>2, BoundsAssumption DEF BeginRun
<1>3. CASE RecordProgress
  BY <1>3 DEF RecordProgress, ProcessTypeOK, HandSteps
<1>4. CASE FinishRun
  <2>1. lastRun \in 1 .. lastRun
    BY <1>4, BoundsAssumption DEF FinishRun, ProcessTypeOK
  <2>2. QED
    BY <1>4, <2>1 DEF FinishRun
<1>5. CASE TouchLastReconciliation
  BY <1>5 DEF TouchLastReconciliation
<1>6. CASE PruneRuns
  BY <1>6 DEF PruneRuns, NewestRuns
<1>7. QED
  BY <1>1, <1>2, <1>3, <1>4, <1>5, <1>6, RunTableFrame

\* The documents stay sets of versions.
LEMMA FtsTypeNext ==
    ASSUME TypeOK, Next
    PROVE  FtsTypeOK'
<1> USE DEF TypeOK, FtsTypeOK
<1>1. CASE UNCHANGED ftsVars
  BY <1>1 DEF ftsVars
<1>2. CASE IndexChunks
  <2>1. bytes \in Versions
    BY <1>2 DEF IndexChunks, ProcessTypeOK, BytesSteps
  <2>2. QED
    BY <1>2, <2>1 DEF IndexChunks, AddChunks, DeleteDocs
<1>3. ASSUME NEW p \in Paths, DropDocs(p)
      PROVE  FtsTypeOK'
  BY <1>3 DEF DropDocs, DeleteDocs
<1>4. CASE Commit
  BY <1>4 DEF Commit
<1>5. CASE Abort
  BY <1>5 DEF Abort
<1>6. QED
  BY <1>1, <1>2, <1>3, <1>4, <1>5, FtsFrame

\* The history variables stay in their domains.
LEMMA HistoryTypeNext ==
    ASSUME TypeOK, Next
    PROVE  HistoryTypeOK'
<1> USE DEF TypeOK, HistoryTypeOK, Calm
<1>1. CASE UNCHANGED historyVars
  BY <1>1 DEF historyVars
<1>2. ASSUME NEW d \in BOOLEAN, BeginRun(d)
      PROVE  HistoryTypeOK'
  BY <1>2 DEF BeginRun
<1>3. CASE IndexChunks
  BY <1>3 DEF IndexChunks
<1>4. CASE PruneRuns
  BY <1>4 DEF PruneRuns
<1>5. CASE Abort
  BY <1>5, BoundsAssumption DEF Abort
<1>6. CASE MarkDeleted
  BY <1>6 DEF MarkDeleted
<1>7. ASSUME NEW p \in Paths, TreeChanges(p)
      PROVE  HistoryTypeOK'
  BY <1>7 DEF TreeChanges
<1>8. QED
  BY <1>1, <1>2, <1>3, <1>4, <1>5, <1>6, <1>7, HistoryFrame

\* A file is in hand, and its bytes read, exactly at the steps that use them.
LEMMA ProcessTypeNext ==
    ASSUME TypeOK, Next
    PROVE  ProcessTypeOK'
<1> USE DEF TypeOK, ProcessTypeOK, Steps, HandSteps, BytesSteps
<1>1. ASSUME NEW d \in BOOLEAN, BeginRun(d)
      PROVE  ProcessTypeOK'
  BY <1>1 DEF BeginRun, StoreTypeOK, planVars, handVars
<1>2. ASSUME NEW p \in Paths, WalkEntry(p)
      PROVE  ProcessTypeOK'
  BY <1>2 DEF WalkEntry, FsTypeOK, storeVars, planVars, handVars
<1>3. CASE Diff
  <2>1. /\ ClassifiedAs("New") \subseteq Paths
        /\ ClassifiedAs("Modified") \subseteq Paths
        /\ LiveFiles(files) \ Seen \subseteq Paths
    BY DEF ClassifiedAs, Seen, LiveFiles, StoreTypeOK
  <2>2. new' \subseteq Paths /\ modified' \subseteq Paths /\ deleted' \subseteq Paths
    BY <1>3, <2>1 DEF Diff, planVars
  <2>3. walk' \in [Paths -> 0 .. MaxVersion]
    BY <1>3, MaxVersionAssumption DEF Diff, Nowhere
  <2>4. QED
    BY <1>3, <2>2, <2>3 DEF Diff, storeVars, handVars
<1>4. ASSUME NEW p \in Paths, StatFails(p)
      PROVE  ProcessTypeOK'
  BY <1>4 DEF StatFails, TakePath, storeVars, walkVars, handVars
<1>5. ASSUME NEW p \in Paths, UpsertIntent(p)
      PROVE  ProcessTypeOK'
  BY <1>5 DEF UpsertIntent, TakePath, walkVars
<1>6. CASE ReadFile
  <2>1. content[hand] \in Versions
    BY <1>6, MaxVersionAssumption DEF ReadFile, FsTypeOK, Versions
  <2>2. QED
    BY <1>6, <2>1 DEF ReadFile, storeVars, walkVars, planVars
<1>7. ASSUME LetGo, UNCHANGED <<lastRun, dry, walkVars, planVars>>, lastRun # 0
      PROVE  ProcessTypeOK'
  BY <1>7 DEF LetGo, walkVars, planVars
<1>8. CASE IndexChunks
  BY <1>8 DEF IndexChunks, storeVars, walkVars, planVars, handVars
<1>9. CASE MarkIndexed
  BY <1>9 DEF MarkIndexed, walkVars, planVars, handVars
<1>10. ASSUME NEW p \in Paths, DropDocs(p)
       PROVE  ProcessTypeOK'
  BY <1>10 DEF DropDocs, storeVars, walkVars
<1>11. ASSUME pc' \in Steps \ HandSteps, pc \in Steps \ HandSteps,
              pc # "idle", UNCHANGED <<lastRun, dry, walkVars, planVars, handVars>>
       PROVE  ProcessTypeOK'
  BY <1>11 DEF walkVars, planVars, handVars
<1>12. CASE Abort
  BY <1>12, MaxVersionAssumption DEF Abort, Nowhere, storeVars
<1>13. ASSUME UNCHANGED <<processVars, lastRun>>
       PROVE  ProcessTypeOK'
  BY <1>13 DEF processVars, walkVars, planVars, handVars
<1>14. ReadFails \/ ExtractFails \/ RecordProgress \/ MarkDeleted => ProcessTypeOK'
  BY <1>7 DEF ReadFails, ExtractFails, RecordProgress, MarkDeleted
<1>15. Commit \/ FinishRun \/ TouchLastReconciliation \/ PruneRuns => ProcessTypeOK'
  BY <1>11 DEF Commit, FinishRun, TouchLastReconciliation, PruneRuns, storeVars
<1>16. ASSUME NEW p \in Paths, TreeChanges(p)
       PROVE  ProcessTypeOK'
  BY <1>13, <1>16 DEF TreeChanges, storeVars
<1>17. QED
  BY <1>1, <1>2, <1>3, <1>4, <1>5, <1>6, <1>8, <1>9, <1>10, <1>12, <1>14,
     <1>15, <1>16
     DEF Next, RunStep

\* The variables stay in their domains: the tree's, the two databases', the
\* index's and the process's; and process_one has a path in hand exactly
\* between its intent write and its last write.
THEOREM TypeCorrect == Spec => []TypeOK
<1>1. Init => TypeOK
  <2> SUFFICES ASSUME Init
               PROVE  TypeOK
    OBVIOUS
  <2> USE MaxVersionAssumption, BoundsAssumption DEF Init
  <2>1. FsTypeOK
    BY DEF FsInit, FsTypeOK
  <2>2. StoreTypeOK
    BY DEF StoreTypeOK, Rows, NoRow, FileStatus
  <2>3. FtsTypeOK
    BY DEF FtsTypeOK, NoDocs
  <2>4. ProcessTypeOK
    <3>1. pc \in Steps /\ pc \notin HandSteps /\ pc \notin BytesSteps
      BY DEF Steps, HandSteps, BytesSteps
    <3>2. walk \in [Paths -> 0 .. MaxVersion]
      BY DEF Nowhere
    <3>3. QED
      BY <3>1, <3>2 DEF ProcessTypeOK
  <2>5. HistoryTypeOK
    BY DEF HistoryTypeOK, Calm
  <2>6. QED
    BY <2>1, <2>2, <2>3, <2>4, <2>5 DEF TypeOK
<1>2. TypeOK /\ [Next]_vars => TypeOK'
  <2> SUFFICES ASSUME TypeOK, [Next]_vars
               PROVE  TypeOK'
    OBVIOUS
  <2>1. CASE Next
    BY <2>1, FsTypeNext, StoreTypeNext, FtsTypeNext, ProcessTypeNext,
       HistoryTypeNext
       DEF TypeOK
  <2>2. CASE UNCHANGED vars
    BY <2>2 DEF vars, fsVars, storeVars, ftsVars, processVars, walkVars,
                planVars, handVars, historyVars, TypeOK, FsTypeOK,
                StoreTypeOK, FtsTypeOK, ProcessTypeOK, HistoryTypeOK
  <2>3. QED
    BY <2>1, <2>2
<1>3. QED
  BY <1>1, <1>2, PTL DEF Spec

-----------------------------------------------------------------------------
(***************************************************************************)
(* The index invariant.  First, what one step does to one file's row and   *)
(* documents.                                                              *)
(***************************************************************************)

\* UPDATE ... SET status touches one row and keeps its stat.
LEMMA SetStatusFields ==
    ASSUME NEW S, NEW f \in [Paths -> Rows(S)], NEW p \in Paths, NEW t,
           NEW q \in Paths
    PROVE  /\ SetStatus(f, p, t)[q].stat = f[q].stat
           /\ SetStatus(f, p, t)[q].status = IF q = p THEN t ELSE f[q].status
  BY DEF SetStatus, Rows

\* The intent write sets both columns of one row.
LEMMA UpsertFields ==
    ASSUME NEW S, NEW f \in [Paths -> Rows(S)], NEW p \in Paths, NEW s,
           NEW q \in Paths
    PROVE  /\ UpsertWalked(f, p, s)[q].stat = IF q = p THEN s ELSE f[q].stat
           /\ UpsertWalked(f, p, s)[q].status
                 = IF q = p THEN "Pending" ELSE f[q].status
  BY DEF UpsertWalked

\* Everything a step can do to the row of one file.
LEMMA RowStep ==
    ASSUME TypeOK, Next, NEW q \in Paths
    PROVE  \/ files'[q].stat = files[q].stat /\ files'[q].status = files[q].status
           \/ /\ UpsertIntent(q)
              /\ files'[q].stat = LStat(q) /\ files'[q].status = "Pending"
           \/ /\ q = hand /\ files'[q].stat = files[q].stat
              /\ \/ ReadFails /\ files'[q].status \in {"Deleted", "FailedTransient"}
                 \/ ExtractFails /\ files'[q].status = "FailedPermanent"
                 \/ MarkIndexed /\ files'[q].status = "Indexed"
                 \/ MarkDeleted /\ files'[q].status = "Deleted"
<1>1. files \in [Paths -> Rows(0 .. MaxVersion)]
  BY DEF TypeOK, StoreTypeOK
<1>2. CASE UNCHANGED files
  BY <1>2
<1>3. ASSUME NEW p \in Paths, UpsertIntent(p)
      PROVE  \/ files'[q].stat = files[q].stat /\ files'[q].status = files[q].status
             \/ /\ UpsertIntent(q)
                /\ files'[q].stat = LStat(q) /\ files'[q].status = "Pending"
  BY <1>1, <1>3, UpsertFields DEF UpsertIntent
<1>4. ASSUME pc \in HandSteps
      PROVE  hand \in Paths
  BY <1>4 DEF TypeOK, ProcessTypeOK
<1>5. ASSUME NEW t, hand \in Paths, files' = SetStatus(files, hand, t)
      PROVE  /\ files'[q].stat = files[q].stat
             /\ files'[q].status = IF q = hand THEN t ELSE files[q].status
  BY <1>1, <1>5, SetStatusFields
<1>6. CASE ReadFails
  BY <1>4, <1>5, <1>6 DEF ReadFails, HandSteps
<1>7. CASE ExtractFails
  BY <1>4, <1>5, <1>7 DEF ExtractFails, HandSteps
<1>8. CASE MarkIndexed
  BY <1>4, <1>5, <1>8 DEF MarkIndexed, HandSteps
<1>9. CASE MarkDeleted
  BY <1>4, <1>5, <1>9 DEF MarkDeleted, HandSteps
<1>10. QED
  BY <1>2, <1>3, <1>6, <1>7, <1>8, <1>9, FilesFrame

\* Everything a step can do to the documents of one file.
LEMMA DocsStep ==
    ASSUME TypeOK, Next, NEW q \in Paths
    PROVE  /\ searcher'[q] = searcher[q] \/ (Commit /\ searcher'[q] = writer[q])
           /\ \/ writer'[q] = writer[q]
              \/ IndexChunks /\ q = hand /\ writer'[q] = {bytes}
              \/ DropDocs(q) /\ writer'[q] = {}
              \/ Abort /\ writer'[q] = searcher[q]
<1> USE DEF TypeOK, FtsTypeOK
<1>1. CASE UNCHANGED ftsVars
  BY <1>1 DEF ftsVars
<1>2. CASE IndexChunks
  BY <1>2 DEF IndexChunks, AddChunks, DeleteDocs
<1>3. ASSUME NEW p \in Paths, DropDocs(p)
      PROVE  /\ searcher' = searcher
             /\ writer'[q] = writer[q] \/ (DropDocs(q) /\ writer'[q] = {})
  BY <1>3 DEF DropDocs, DeleteDocs
<1>4. CASE Commit
  BY <1>4 DEF Commit
<1>5. CASE Abort
  BY <1>5 DEF Abort
<1>6. QED
  BY <1>1, <1>2, <1>3, <1>4, <1>5, FtsFrame

\* content and latest in one step.
LEMMA TreeStep ==
    ASSUME TypeOK, NothingFromTheFuture, Next, NEW q \in Paths
    PROVE  /\ content'[q] \in {0, latest'[q]}
           /\ latest[q] <= latest'[q]
           /\ latest[q] \in Nat /\ latest'[q] \in Nat
<1>1. content \in [Paths -> Nat] /\ latest \in [Paths -> Nat]
  BY MaxVersionAssumption DEF TypeOK, FsTypeOK
<1>2. content[q] \in {0, latest[q]}
  BY DEF NothingFromTheFuture
<1>3. CASE UNCHANGED fsVars
  BY <1>1, <1>2, <1>3 DEF fsVars
<1>4. ASSUME NEW p \in Paths, TreeChanges(p)
      PROVE  /\ content'[q] \in {0, latest'[q]}
             /\ latest[q] <= latest'[q]
             /\ latest'[q] \in Nat
  BY <1>1, <1>2, <1>4
     DEF TreeChanges, FsNext, Write, Remove, Restore, Chmod
<1>5. QED
  BY <1>1, <1>3, <1>4, FsFrame

\* Stats and bytes are copied from the tree, whose versions only grow.
LEMMA FutureNext ==
    ASSUME TypeOK, IndexInv, Next
    PROVE  NothingFromTheFuture'
<1> SUFFICES ASSUME NEW q \in Paths
             PROVE  /\ content'[q] \in {0, latest'[q]}
                    /\ files'[q].stat <= latest'[q]
                    /\ \A v \in writer'[q] \cup searcher'[q] : v <= latest'[q]
  BY DEF NothingFromTheFuture
<1> USE DEF IndexInv
<1>1. /\ content'[q] \in {0, latest'[q]}
      /\ latest[q] <= latest'[q]
      /\ latest[q] \in Nat /\ latest'[q] \in Nat
  BY TreeStep
<1>2. /\ content[q] \in {0, latest[q]} /\ files[q].stat <= latest[q]
      /\ \A v \in writer[q] \cup searcher[q] : v <= latest[q]
  BY DEF NothingFromTheFuture
<1>3. /\ files[q].stat \in Nat /\ content[q] \in Nat
      /\ writer[q] \subseteq Nat /\ searcher[q] \subseteq Nat
  BY MaxVersionAssumption
     DEF TypeOK, FsTypeOK, StoreTypeOK, FtsTypeOK, Rows, Versions
<1>4. files'[q].stat <= latest'[q]
  <2>1. LStat(q) \in {0, content[q]}
    BY DEF LStat
  <2>2. files'[q].stat \in {files[q].stat, LStat(q)}
    BY RowStep
  <2>3. QED
    BY <1>1, <1>2, <1>3, <2>1, <2>2
<1>5. CASE IndexChunks /\ q = hand /\ writer'[q] = {bytes}
  <2>1. bytes <= latest[q] /\ bytes \in Nat
    BY <1>5, MaxVersionAssumption
       DEF HandInStep, IndexChunks, BytesSteps, TypeOK, ProcessTypeOK, Versions
  <2>2. searcher'[q] = searcher[q]
    BY <1>5 DEF IndexChunks
  <2>3. QED
    BY <1>1, <1>2, <1>3, <1>4, <1>5, <2>1, <2>2
<1>6. CASE writer'[q] \subseteq writer[q] \cup searcher[q]
  <2>1. searcher'[q] \subseteq writer[q] \cup searcher[q]
    BY DocsStep
  <2>2. QED
    BY <1>1, <1>2, <1>3, <1>4, <1>6, <2>1
<1>7. QED
  BY <1>5, <1>6, DocsStep

\* A file that has a row keeps it.
LEMMA RowsStay ==
    ASSUME TypeOK, Next, NEW q \in Paths, HasRow(files, q)
    PROVE  HasRow(files, q)'
  BY RowStep DEF HasRow

\* Each step of process_one leaves the file in hand as the next one finds it.
LEMMA HandNext ==
    ASSUME TypeOK, IndexInv, Next
    PROVE  HandInStep'
<1> USE DEF IndexInv, BytesSteps
<1>1. CASE pc' \notin HandSteps
  BY <1>1 DEF HandInStep, HandSteps
<1>2. ASSUME NEW p \in Paths, UpsertIntent(p)
      PROVE  HandInStep'
  <2>1. files'[p].status = "Pending"
    BY <1>2, UpsertFields DEF UpsertIntent, TypeOK, StoreTypeOK
  <2>2. QED
    BY <1>2, <2>1 DEF UpsertIntent, HandInStep
<1>3. CASE ReadFile
  <2>1. hand \in Paths
    BY <1>3 DEF ReadFile, TypeOK, ProcessTypeOK, HandSteps
  <2>2. content[hand] = latest[hand] /\ files[hand].stat <= latest[hand]
    BY <1>3, <2>1 DEF ReadFile, NothingFromTheFuture
  <2>3. latest[hand] \in Nat
    BY <2>1, MaxVersionAssumption DEF TypeOK, FsTypeOK
  <2>4. QED
    BY <1>3, <2>2, <2>3 DEF ReadFile, HandInStep, storeVars, fsVars
<1>4. CASE IndexChunks
  <2>1. hand \in Paths
    BY <1>4 DEF IndexChunks, TypeOK, ProcessTypeOK, HandSteps
  <2>2. writer'[hand] = {bytes}
    BY <1>4, <2>1 DEF IndexChunks, AddChunks, DeleteDocs, TypeOK, FtsTypeOK
  <2>3. QED
    BY <1>4, <2>2 DEF IndexChunks, HandInStep, storeVars, fsVars, handVars
<1>5. CASE MarkIndexed
  <2>1. hand \in Paths
    BY <1>5 DEF MarkIndexed, TypeOK, ProcessTypeOK, HandSteps
  <2>2. files'[hand].status = "Indexed" /\ files'[hand].stat = files[hand].stat
    BY <1>5, <2>1, SetStatusFields DEF MarkIndexed, TypeOK, StoreTypeOK
  <2>3. QED
    BY <1>5, <2>2 DEF MarkIndexed, HandInStep, ftsVars, fsVars, handVars
<1>6. ASSUME NEW p \in Paths, DropDocs(p)
      PROVE  HandInStep'
  <2>1. HasRow(files, p)'
    BY <1>6, RowsStay DEF DropDocs, DocsHaveRows
  <2>2. writer'[p] = {}
    BY <1>6 DEF DropDocs, DeleteDocs, TypeOK, FtsTypeOK
  <2>3. QED
    BY <1>6, <2>1, <2>2 DEF DropDocs, HandInStep, HasRow
<1>7. ASSUME NEW p \in Paths, TreeChanges(p), pc \in HandSteps
      PROVE  HandInStep'
  <2>1. hand \in Paths
    BY <1>7 DEF TypeOK, ProcessTypeOK
  <2>2. latest[hand] <= latest'[hand] /\ latest[hand] \in Nat /\ latest'[hand] \in Nat
    BY <2>1, TreeStep
  <2>3. pc \in BytesSteps => bytes \in Nat
    BY MaxVersionAssumption DEF TypeOK, ProcessTypeOK, Versions
  <2>4. pc \in BytesSteps => bytes <= latest'[hand]
    BY <2>2, <2>3 DEF HandInStep
  <2>5. QED
    BY <1>7, <2>4
       DEF TreeChanges, HandInStep, HasRow, storeVars, ftsVars, processVars, handVars
<1>8. QED
  BY <1>1, <1>2, <1>3, <1>4, <1>5, <1>6, <1>7
     DEF Next, RunStep, BeginRun, WalkEntry, Diff, StatFails, TakePath,
         ReadFails, ExtractFails, RecordProgress, MarkDeleted, LetGo, Commit,
         FinishRun, TouchLastReconciliation, PruneRuns, Abort, TreeChanges,
         processVars, HandSteps

\* A run buffers only while it processes; its end publishes or discards.
LEMMA BufferNext ==
    ASSUME TypeOK, IndexInv, Next
    PROVE  BufferOnlyInProcess'
<1> DEFINE Outside == {"idle", "walk", "diff", "finish", "touch", "prune"}
<1>1. CASE Commit \/ Abort
  BY <1>1 DEF Commit, Abort, BufferOnlyInProcess
<1>2. CASE UNCHANGED ftsVars /\ (pc \in Outside \/ pc' \notin Outside)
  BY <1>2 DEF IndexInv, BufferOnlyInProcess, ftsVars
<1>3. CASE pc' \notin Outside
  BY <1>3 DEF BufferOnlyInProcess
<1>4. QED
  BY <1>1, <1>2, <1>3
     DEF Next, RunStep, BeginRun, WalkEntry, Diff, StatFails, TakePath,
         UpsertIntent, ReadFails, ReadFile, ExtractFails, IndexChunks,
         MarkIndexed, RecordProgress, DropDocs, MarkDeleted, LetGo,
         FinishRun, TouchLastReconciliation, PruneRuns, TreeChanges,
         processVars

\* process_one deletes a file's documents before it adds the new ones.
LEMMA OneVersionNext ==
    ASSUME TypeOK, IndexInv, Next
    PROVE  OneVersionEach'
  BY DocsStep DEF IndexInv, OneVersionEach

\* The plan for deletions: made by Diff, worked off by DropDocs.
LEMMA DeletedStep ==
    ASSUME TypeOK, Next
    PROVE  \/ Diff /\ deleted' \subseteq LiveFiles(files) \ Seen
           \/ deleted' \subseteq deleted
  BY DEF Next, RunStep, BeginRun, WalkEntry, Diff, StatFails, TakePath,
         UpsertIntent, ReadFails, ReadFile, ExtractFails, IndexChunks,
         MarkIndexed, RecordProgress, DropDocs, MarkDeleted, Commit,
         FinishRun, TouchLastReconciliation, PruneRuns, Abort, TreeChanges,
         processVars, planVars

\* The intent write comes before the documents, and no statement deletes a row.
LEMMA DocsHaveRowsNext ==
    ASSUME TypeOK, IndexInv, Next
    PROVE  DocsHaveRows'
<1> USE DEF IndexInv
<1>1. ASSUME NEW q \in Paths, writer'[q] \cup searcher'[q] # {}
      PROVE  HasRow(files, q)'
  <2>1. CASE writer[q] \cup searcher[q] # {}
    BY <2>1, RowsStay DEF DocsHaveRows
  <2>2. CASE IndexChunks /\ q = hand
    <3>1. HasRow(files, q)
      BY <2>2 DEF IndexChunks, HandInStep, HasRow
    <3>2. QED
      BY <3>1, RowsStay
  <2>3. QED
    BY <1>1, <2>1, <2>2, DocsStep
<1>2. ASSUME NEW q \in deleted'
      PROVE  HasRow(files, q)'
  <2>1. q \in Paths /\ HasRow(files, q)
    BY <1>2, DeletedStep
       DEF DocsHaveRows, LiveFiles, TypeOK, StoreTypeOK, ProcessTypeOK
  <2>2. QED
    BY <2>1, RowsStay
<1>3. QED
  BY <1>1, <1>2 DEF DocsHaveRows

\* A file whose deletion is planned is left alone until its turn comes.
LEMMA DeletionsNext ==
    ASSUME TypeOK, IndexInv, Next
    PROVE  DeletionsUntouched'
<1> USE DEF IndexInv
<1>1. ASSUME NEW p \in deleted'
      PROVE  p \notin new' \cup modified' /\ p # hand' /\ writer'[p] = searcher'[p]
  <2>1. p \in Paths
    BY <1>1, DeletedStep DEF LiveFiles, TypeOK, StoreTypeOK, ProcessTypeOK
  <2>2. CASE Diff
    <3>1. hand = NoPath /\ writer = searcher
      BY <2>2 DEF Diff, BufferOnlyInProcess, TypeOK, ProcessTypeOK, HandSteps
    <3>2. CASE dry
      BY <1>1, <2>2, <3>2 DEF Diff, DeletionsUntouched, planVars, handVars, ftsVars
    <3>3. CASE ~dry
      BY <1>1, <2>1, <2>2, <3>1, <3>3, NoPathAssumption
         DEF Diff, ClassifiedAs, handVars, ftsVars
    <3>4. QED
      BY <3>2, <3>3
  <2>3. CASE ~Diff
    <3>1. /\ p \in deleted /\ p # hand /\ p \notin new \cup modified
          /\ writer[p] = searcher[p]
      BY <1>1, <2>3, DeletedStep DEF DeletionsUntouched
    <3>2. new' \subseteq new /\ modified' \subseteq modified
      BY <2>3
         DEF Next, RunStep, BeginRun, WalkEntry, StatFails, TakePath,
             UpsertIntent, ReadFails, ReadFile, ExtractFails, IndexChunks,
             MarkIndexed, RecordProgress, DropDocs, MarkDeleted, Commit,
             FinishRun, TouchLastReconciliation, PruneRuns, Abort,
             TreeChanges, processVars, planVars
    <3>3. hand' \in new \cup modified \cup {hand, NoPath} \/ hand' \notin deleted'
      BY <2>3
         DEF Next, RunStep, BeginRun, WalkEntry, StatFails, TakePath, Turn,
             UpsertIntent, ReadFails, ReadFile, ExtractFails, IndexChunks,
             MarkIndexed, RecordProgress, DropDocs, MarkDeleted, LetGo,
             Commit, FinishRun, TouchLastReconciliation, PruneRuns, Abort,
             TreeChanges, processVars, handVars
    <3>4. ~DropDocs(p)
      BY <1>1 DEF DropDocs
    <3>5. QED
      BY <1>1, <2>1, <3>1, <3>2, <3>3, <3>4, DocsStep, NoPathAssumption
  <2>4. QED
    BY <2>2, <2>3
<1>2. ASSUME pc' = "deleted", files'[hand'].status = "Indexed", hand' \notin lost'
      PROVE  \E v \in Versions : searcher'[hand'] = {v} /\ files'[hand'].stat <= v
  <2>1. ASSUME NEW p \in Paths, DropDocs(p)
        PROVE  \E v \in Versions : searcher'[hand'] = {v} /\ files'[hand'].stat <= v
    <3>1. /\ hand' = p /\ p \in deleted /\ UNCHANGED <<files, lost, searcher>>
      BY <2>1 DEF DropDocs, storeVars, historyVars
    <3>2. writer[p] = searcher[p] /\ p # hand
      BY <3>1 DEF DeletionsUntouched
    <3>3. QED
      BY <1>2, <3>1, <3>2 DEF IndexedIsFresh, InHand
  <2>2. CASE pc = "deleted" /\ UNCHANGED <<files, hand, lost, searcher>>
    BY <1>2, <2>2 DEF DeletionsUntouched
  <2>3. QED
    BY <1>2, <2>1, <2>2
       DEF Next, RunStep, BeginRun, WalkEntry, Diff, StatFails, TakePath,
           UpsertIntent, ReadFails, ReadFile, ExtractFails, IndexChunks,
           MarkIndexed, RecordProgress, MarkDeleted, LetGo, Commit, FinishRun,
           TouchLastReconciliation, PruneRuns, Abort, TreeChanges,
           processVars, handVars, storeVars, ftsVars
<1>3. QED
  BY <1>1, <1>2 DEF DeletionsUntouched

\* Only the steps after the intent write touch an Indexed file, and each
\* leaves it in hand, gives it up complete, or loses it for good.
LEMMA FreshNext ==
    ASSUME TypeOK, IndexInv, Next
    PROVE  IndexedIsFresh'
<1> SUFFICES ASSUME NEW q \in Paths, files'[q].status = "Indexed",
                    q \notin lost', hand' # q
             PROVE  \E v \in Versions : writer'[q] = {v} /\ files'[q].stat <= v
  BY DEF IndexedIsFresh, InHand
<1> USE DEF IndexInv
<1>1. ~MarkIndexed \/ q # hand
  BY DEF MarkIndexed, handVars
<1>2. files'[q].stat = files[q].stat /\ files[q].status = "Indexed"
  BY <1>1, RowStep
<1>3. CASE Abort
  <2>1. q \notin lost /\ writer[q] = searcher[q] /\ writer'[q] = searcher[q]
    BY <1>3 DEF Abort
  <2>2. CASE q # hand
    BY <1>2, <2>1, <2>2 DEF IndexedIsFresh, InHand
  <2>3. CASE q = hand
    <3>1. pc \in {"progress", "deleted"}
      BY <1>2, <2>3, NoPathAssumption
         DEF HandInStep, TypeOK, ProcessTypeOK, HandSteps
    <3>2. CASE pc = "progress"
      BY <1>2, <2>1, <2>3, <3>2
         DEF HandInStep, BytesSteps, TypeOK, ProcessTypeOK
    <3>3. CASE pc = "deleted"
      BY <1>2, <2>1, <2>3, <3>3 DEF DeletionsUntouched
    <3>4. QED
      BY <3>1, <3>2, <3>3
  <2>4. QED
    BY <2>2, <2>3
<1>4. CASE ~Abort /\ q # hand
  <2>1. q \notin lost
    BY <1>4, HistoryFrame
       DEF historyVars, BeginRun, IndexChunks, MarkDeleted, PruneRuns,
           TreeChanges
  <2>2. ~DropDocs(q)
    BY DEF DropDocs
  <2>3. writer'[q] = writer[q]
    BY <1>4, <2>2, DocsStep
  <2>4. QED
    BY <1>2, <1>4, <2>1, <2>3 DEF IndexedIsFresh, InHand
<1>5. CASE ~Abort /\ q = hand
  <2>1. pc \in {"progress", "deleted"}
    BY <1>2, <1>5, NoPathAssumption
       DEF HandInStep, TypeOK, ProcessTypeOK, HandSteps
  <2>2. ~MarkDeleted
    BY <1>2, <1>5, SetStatusFields DEF MarkDeleted, TypeOK, StoreTypeOK
  <2>3. RecordProgress
    BY <1>5, <2>1, <2>2
       DEF Next, RunStep, BeginRun, WalkEntry, Diff, StatFails, TakePath,
           UpsertIntent, ReadFails, ReadFile, ExtractFails, IndexChunks,
           MarkIndexed, DropDocs, Commit, FinishRun,
           TouchLastReconciliation, PruneRuns, TreeChanges, processVars,
           handVars
  <2>4. /\ writer[q] = {bytes} /\ bytes \in Versions /\ files[q].stat <= bytes
    BY <1>5, <2>3
       DEF RecordProgress, HandInStep, BytesSteps, TypeOK, ProcessTypeOK
  <2>5. QED
    BY <1>2, <2>3, <2>4 DEF RecordProgress, ftsVars
<1>6. QED
  BY <1>3, <1>4, <1>5

\* A stuttering step keeps IndexInv.
LEMMA IndexInvStuttered ==
    ASSUME IndexInv, UNCHANGED vars
    PROVE  IndexInv'
  BY DEF IndexInv, NothingFromTheFuture, HandInStep, DeletionsUntouched,
         BufferOnlyInProcess, OneVersionEach, DocsHaveRows, IndexedIsFresh,
         HasRow, InHand, vars, fsVars, storeVars, ftsVars, processVars,
         planVars, handVars, historyVars

\* The index invariant holds throughout.
THEOREM IndexInvariant == Spec => []IndexInv
<1>1. Init => IndexInv
  <2> SUFFICES ASSUME Init
               PROVE  IndexInv
    OBVIOUS
  <2> USE DEF Init, FsInit, NoDocs, NoRow
  <2>1. NothingFromTheFuture
    <3>1. ASSUME NEW p \in Paths
          PROVE  /\ content[p] = 0 /\ latest[p] = 0 /\ files[p].stat = 0
                 /\ writer[p] = {} /\ searcher[p] = {}
      OBVIOUS
    <3>2. ASSUME NEW p \in Paths
          PROVE  /\ content[p] \in {0, latest[p]}
                 /\ files[p].stat <= latest[p]
                 /\ \A v \in writer[p] \cup searcher[p] : v <= latest[p]
      BY ONLY <3>1, <3>2
    <3>3. QED
      BY <3>2 DEF NothingFromTheFuture
  <2>2. HandInStep /\ DeletionsUntouched /\ BufferOnlyInProcess /\ OneVersionEach
    BY DEF HandInStep, DeletionsUntouched, BufferOnlyInProcess, OneVersionEach,
           BytesSteps
  <2>3. DocsHaveRows /\ IndexedIsFresh
    BY DEF DocsHaveRows, IndexedIsFresh
  <2>4. QED
    BY <2>1, <2>2, <2>3 DEF IndexInv
<1>2. TypeOK /\ IndexInv /\ [Next]_vars => IndexInv'
  BY FutureNext, HandNext, DeletionsNext, BufferNext, OneVersionNext,
     DocsHaveRowsNext, FreshNext, IndexInvStuttered
     DEF IndexInv
<1>3. QED
  BY <1>1, <1>2, TypeCorrect, PTL DEF Spec

\* Freshness: whatever writes race with process_one, an Indexed row has in
\* the index exactly one version of its file, no older than its stat.
THEOREM Freshness == Spec => []IndexedIsFresh
<1>1. IndexInv => IndexedIsFresh
  BY DEF IndexInv
<1>2. QED
  BY <1>1, IndexInvariant, PTL

\* Re-indexing replaces, also across runs that died.
THEOREM OneVersion == Spec => []OneVersionSearchable
<1>1. IndexInv => OneVersionSearchable
  BY DEF IndexInv, OneVersionEach, OneVersionSearchable
<1>2. QED
  BY <1>1, IndexInvariant, PTL

\* Every searchable document resolves to a row of the manifest.
THEOREM HitsResolve == Spec => []HitsHaveRows
<1>1. IndexInv => HitsHaveRows
  BY DEF IndexInv, DocsHaveRows, HitsHaveRows
<1>2. QED
  BY <1>1, IndexInvariant, PTL

\* Nothing stays in the writer's buffer behind a run, however it ended.
THEOREM NothingBuffered == Spec => []NothingBufferedBetweenRuns
<1>1. IndexInv => NothingBufferedBetweenRuns
  BY DEF IndexInv, BufferOnlyInProcess, NothingBufferedBetweenRuns
<1>2. QED
  BY <1>1, IndexInvariant, PTL

-----------------------------------------------------------------------------
(***************************************************************************)
(* The table of runs.                                                      *)
(***************************************************************************)

\* Pruning keeps the newest run.
LEMMA NewestStays ==
    ASSUME NEW R \in SUBSET Nat, NEW r \in R, \A q \in R : q <= r
    PROVE  r \in NewestRuns(R, RunHistory)
<1>1. {q \in R : q > r} = {}
  <2>1. ASSUME NEW q \in R
        PROVE  ~(q > r)
    <3>1. q \in Nat /\ r \in Nat /\ q <= r
      OBVIOUS
    <3>2. QED
      BY ONLY <3>1
  <2>2. QED
    BY <2>1
<1>2. Cardinality({q \in R : q > r}) = 0
  BY <1>1, FS_EmptySet
<1>3. QED
  BY <1>2, RunHistoryAssumption DEF NewestRuns

\* LedgerInv is kept: a run is entered before it is finished, finished before
\* it is named the last one, and pruning keeps the newest.
LEMMA LedgerNext ==
    ASSUME TypeOK, LedgerInv, Next
    PROVE  LedgerInv'
<1> USE DEF LedgerInv, ReconciledRunOnRecord
<1>1. /\ lastRun \in Nat /\ runs \subseteq 1 .. lastRun
      /\ reconciled \in 0 .. lastRun
  BY BoundsAssumption DEF TypeOK, StoreTypeOK
<1>2. pc # "idle" => lastRun # 0
  BY DEF TypeOK, ProcessTypeOK
<1>3. ASSUME NEW d \in BOOLEAN, BeginRun(d)
      PROVE  LedgerInv'
  <2>1. finished \subseteq 1 .. lastRun
    BY DEF TypeOK, StoreTypeOK
  <2>2. lastRun + 1 \notin finished
    BY <1>1, <2>1
  <2>3. QED
    BY <1>1, <1>3, <2>2 DEF BeginRun
<1>4. CASE FinishRun
  BY <1>2, <1>4 DEF FinishRun
<1>5. CASE TouchLastReconciliation
  BY <1>5 DEF TouchLastReconciliation
<1>6. CASE PruneRuns
  <2>1. lastRun \in finished /\ finished \subseteq runs /\ reconciled = lastRun
    BY <1>6 DEF PruneRuns
  <2>2. runs \subseteq Nat /\ \A q \in runs : q <= lastRun
    BY <1>1
  <2>3. lastRun \in NewestRuns(runs, RunHistory)
    BY <2>1, <2>2, NewestStays
  <2>4. QED
    BY <1>6, <2>1, <2>3 DEF PruneRuns, NewestRuns
<1>7. CASE /\ UNCHANGED <<runs, finished, lastRun, reconciled>>
           /\ \/ pc' = "idle"
              \/ /\ pc \notin {"idle", "touch", "prune"} /\ pc' \notin {"touch", "prune"}
                 /\ dry' => pc' \in {"walk", "diff"}
  BY <1>7
<1>8. ASSUME NEW p \in Paths, TreeChanges(p)
      PROVE  LedgerInv'
  BY <1>8 DEF TreeChanges, storeVars, processVars
<1>9. QED
  BY <1>3, <1>4, <1>5, <1>6, <1>7, <1>8
     DEF Next, RunStep, WalkEntry, Diff, StatFails, TakePath, UpsertIntent,
         ReadFails, ReadFile, ExtractFails, IndexChunks, MarkIndexed,
         RecordProgress, DropDocs, MarkDeleted, LetGo, Commit, Abort,
         storeVars

\* The invariant of the run table.
THEOREM LedgerInvariant == Spec => []LedgerInv
<1>1. Init => LedgerInv
  BY DEF Init, LedgerInv, ReconciledRunOnRecord
<1>2. TypeOK /\ LedgerInv /\ [Next]_vars => LedgerInv'
  <2>1. LedgerInv /\ UNCHANGED vars => LedgerInv'
    BY DEF vars, storeVars, processVars, LedgerInv, ReconciledRunOnRecord
  <2>2. QED
    BY <2>1, LedgerNext
<1>3. QED
  BY <1>1, <1>2, TypeCorrect, PTL DEF Spec

\* Reconciled: what last_reconciliation_ns vouches for is a run on record
\* as completed, through crashes and pruning.
THEOREM Reconciled == Spec => []ReconciledRunOnRecord
<1>1. LedgerInv => ReconciledRunOnRecord
  BY DEF LedgerInv
<1>2. QED
  BY <1>1, LedgerInvariant, PTL

-----------------------------------------------------------------------------
(***************************************************************************)
(* A run over a tree that holds still.                                     *)
(***************************************************************************)

\* The plan is empty whenever processing ends.
LEMMA PlanNext ==
    ASSUME TypeOK, CalmInv, Next
    PROVE  PlanOnlyInProcess'
<1> USE DEF CalmInv, PlanOnlyInProcess, PlanSteps, HandSteps, Planned
<1>1. CASE pc' \in PlanSteps
  BY <1>1
<1>2. CASE UNCHANGED planVars /\ pc \notin PlanSteps
  BY <1>2 DEF planVars
<1>3. CASE Commit \/ Abort
  BY <1>3 DEF Commit, Abort, planVars
<1>4. CASE pc = "idle"
  BY <1>1, <1>2, <1>4
     DEF Next, RunStep, BeginRun, WalkEntry, Diff, StatFails, TakePath,
         UpsertIntent, ReadFails, ReadFile, ExtractFails, IndexChunks,
         MarkIndexed, RecordProgress, DropDocs, MarkDeleted, Commit,
         FinishRun, TouchLastReconciliation, PruneRuns, TreeChanges,
         processVars, Abort
<1>5. QED
  BY <1>1, <1>2, <1>3, <1>4
     DEF Next, RunStep, BeginRun, WalkEntry, Diff, StatFails, TakePath,
         UpsertIntent, ReadFails, ReadFile, ExtractFails, IndexChunks,
         MarkIndexed, RecordProgress, DropDocs, MarkDeleted, LetGo,
         FinishRun, TouchLastReconciliation, PruneRuns, TreeChanges,
         processVars

\* In a step that leaves history at "run" or "settled" the tree was still.
LEMMA CalmStep ==
    ASSUME TypeOK, Next, calm' # "no"
    PROVE  /\ UNCHANGED fsVars
           /\ \/ calm = calm'
              \/ calm = "no" /\ calm' = "run" /\ \E d \in BOOLEAN : BeginRun(d)
              \/ calm = "run" /\ calm' = "settled" /\ PruneRuns
<1>1. UNCHANGED fsVars
  BY FsFrame DEF TreeChanges
<1>2. QED
  BY <1>1, HistoryFrame
     DEF historyVars, BeginRun, IndexChunks, MarkDeleted, PruneRuns, Abort,
         TreeChanges

\* The first run over a tree that has just gone still is a real one.
LEMMA CalmRunNext ==
    ASSUME TypeOK, CalmInv, Next
    PROVE  CalmIsARun'
<1> SUFFICES ASSUME calm' = "run"
             PROVE  pc' # "idle" /\ ~dry'
  BY DEF CalmIsARun
<1>1. ASSUME NEW d \in BOOLEAN, BeginRun(d)
      PROVE  pc' # "idle" /\ ~dry'
  BY <1>1 DEF BeginRun, CalmInv, CalmIsARun
<1>2. CASE calm = "run"
  BY <1>1, <1>2
     DEF CalmInv, CalmIsARun, Next, RunStep, WalkEntry, Diff, StatFails,
         TakePath, UpsertIntent, ReadFails, ReadFile, ExtractFails,
         IndexChunks, MarkIndexed, RecordProgress, DropDocs, MarkDeleted,
         LetGo, Commit, FinishRun, TouchLastReconciliation, PruneRuns, Abort,
         TreeChanges, processVars
<1>3. QED
  BY <1>1, <1>2, CalmStep

\* While nothing changes the tree, walk and plan agree with it.
LEMMA StillSeenNext ==
    ASSUME TypeOK, CalmInv, Next
    PROVE  StillSeen'
<1> SUFFICES ASSUME calm' # "no"
             PROVE  /\ pc' = "walk" => \A p \in Paths \ unwalked' : walk'[p] = content'[p]
                    /\ pc' = "diff" => \A p \in Paths : walk'[p] = content'[p]
                    /\ \A p \in new' \cup modified' : content'[p] # 0
                    /\ \A p \in deleted' : content'[p] = 0
  BY DEF StillSeen
<1>1. content' = content
  BY CalmStep DEF fsVars
<1>2. /\ \A p \in new \cup modified : content[p] # 0
      /\ \A p \in deleted : content[p] = 0
  <2>1. CASE calm # "no"
    BY <2>1 DEF CalmInv, StillSeen
  <2>2. CASE calm = "no"
    <3>1. PICK d \in BOOLEAN : BeginRun(d)
      BY <2>2, CalmStep
    <3>2. Planned = {}
      BY <3>1 DEF BeginRun, CalmInv, PlanOnlyInProcess, PlanSteps, HandSteps
    <3>3. QED
      BY <3>2 DEF Planned
  <2>3. QED
    BY <2>1, <2>2
<1>3. ASSUME NEW d \in BOOLEAN, BeginRun(d)
      PROVE  /\ pc' = "walk" => \A p \in Paths \ unwalked' : walk'[p] = content'[p]
             /\ pc' # "diff" /\ UNCHANGED planVars
  BY <1>3 DEF BeginRun
<1>4. ASSUME NEW q \in Paths, WalkEntry(q)
      PROVE  /\ pc' = "walk" => \A p \in Paths \ unwalked' : walk'[p] = content'[p]
             /\ pc' = "diff" => \A p \in Paths : walk'[p] = content'[p]
             /\ UNCHANGED planVars
  <2>1. calm = calm' /\ pc = "walk"
    BY <1>4 DEF WalkEntry, historyVars
  <2>2. \A p \in Paths \ unwalked : walk[p] = content[p]
    BY <2>1 DEF CalmInv, StillSeen
  <2>3. \A p \in Paths \ unwalked' : walk'[p] = content'[p]
    BY <1>1, <1>4, <2>2 DEF WalkEntry, TypeOK, ProcessTypeOK
  <2>4. pc' = "diff" => unwalked' = {}
    BY <1>4 DEF WalkEntry
  <2>5. QED
    BY <1>4, <2>3, <2>4 DEF WalkEntry
<1>5. CASE Diff
  <2>1. CASE dry
    BY <1>1, <1>2, <1>5, <2>1 DEF Diff, planVars
  <2>2. CASE ~dry
    <3>1. \A p \in Paths : walk[p] = content[p]
      BY <1>5 DEF Diff, historyVars, CalmInv, StillSeen
    <3>2. \A p \in new' \cup modified' : p \in Seen
      BY <1>5, <2>2 DEF Diff, ClassifiedAs
    <3>3. \A p \in deleted' : p \in Paths /\ p \notin Seen
      BY <1>5, <2>2 DEF Diff, LiveFiles, TypeOK, StoreTypeOK
    <3>4. pc' = "process"
      BY <1>5, <2>2 DEF Diff
    <3>5. QED
      BY <1>1, <3>1, <3>2, <3>3, <3>4 DEF Seen
  <2>3. QED
    BY <2>1, <2>2
<1>6. CASE pc' \notin {"walk", "diff"} /\ new' \cup modified' \subseteq new \cup modified
           /\ deleted' \subseteq deleted
  BY <1>1, <1>2, <1>6
<1>7. CASE \E p \in Paths : TreeChanges(p)
  BY <1>7 DEF TreeChanges
<1>8. QED
  BY <1>1, <1>2, <1>3, <1>4, <1>5, <1>6, <1>7
     DEF Next, RunStep, StatFails, TakePath,
         UpsertIntent, ReadFails, ReadFile, ExtractFails, IndexChunks,
         MarkIndexed, RecordProgress, DropDocs, MarkDeleted, LetGo, Commit,
         FinishRun, TouchLastReconciliation, PruneRuns, Abort, planVars

\* While nothing changes the tree, lstat and read see the same version.
LEMMA StillInHandNext ==
    ASSUME TypeOK, CalmInv, Next
    PROVE  StillInHand'
<1> USE DEF HandSteps, BytesSteps
<1>1. CASE calm' = "no" \/ pc' \notin HandSteps
  BY <1>1 DEF StillInHand
<1>2. ASSUME NEW p \in Paths, UpsertIntent(p), calm' # "no"
      PROVE  StillInHand'
  <2>1. content' = content /\ calm # "no" /\ hand' = p /\ pc' = "read"
    BY <1>2 DEF UpsertIntent, fsVars, historyVars
  <2>2. content[p] # 0
    BY <1>2, <2>1 DEF UpsertIntent, TakePath, Turn, CalmInv, StillSeen
  <2>3. files'[p].stat = LStat(p)
    BY <1>2, UpsertFields DEF UpsertIntent, TypeOK, StoreTypeOK
  <2>4. QED
    BY <2>1, <2>2, <2>3 DEF StillInHand, LStat
<1>3. CASE ReadFile
  BY <1>3 DEF ReadFile, StillInHand, CalmInv, fsVars, storeVars, historyVars
<1>4. CASE IndexChunks
  BY <1>4 DEF IndexChunks, StillInHand, CalmInv, fsVars, storeVars, handVars
<1>5. CASE MarkIndexed
  <2>1. files'[hand].stat = files[hand].stat
    BY <1>5, SetStatusFields DEF MarkIndexed, TypeOK, StoreTypeOK, ProcessTypeOK
  <2>2. QED
    BY <1>5, <2>1 DEF MarkIndexed, StillInHand, CalmInv, fsVars, handVars, historyVars
<1>6. ASSUME NEW p \in Paths, DropDocs(p), calm' # "no"
      PROVE  StillInHand'
  BY <1>6 DEF DropDocs, StillInHand, StillSeen, CalmInv, fsVars, historyVars
<1>7. CASE \E p \in Paths : TreeChanges(p)
  BY <1>1, <1>7 DEF TreeChanges
<1>8. QED
  BY <1>1, <1>2, <1>3, <1>4, <1>5, <1>6, <1>7
     DEF Next, RunStep, BeginRun, WalkEntry, Diff, StatFails, TakePath,
         ReadFails, ExtractFails, RecordProgress, MarkDeleted, LetGo, Commit,
         FinishRun, TouchLastReconciliation, PruneRuns, Abort

\* A step leaves an exact file exact unless it takes it in hand.
LEMMA ExactStays ==
    ASSUME TypeOK, Next, content' = content,
           NEW p \in Paths, p # hand, ~UpsertIntent(p), ~DropDocs(p), Exact(p)
    PROVE  Exact(p)'
<1>1. files'[p].stat = files[p].stat /\ files'[p].status = files[p].status
  BY RowStep
<1>2. p \notin lost' => p \notin lost /\ writer'[p] = writer[p]
  <2>1. CASE Abort
    BY <2>1 DEF Abort
  <2>2. CASE ~Abort
    <3>1. writer'[p] = writer[p]
      BY <2>2, DocsStep
    <3>2. p \notin lost' => p \notin lost
      BY <2>2, HistoryFrame
         DEF historyVars, BeginRun, IndexChunks, MarkDeleted, PruneRuns,
             TreeChanges
    <3>3. QED
      BY <3>1, <3>2
  <2>3. QED
    BY <2>1, <2>2
<1>3. QED
  BY <1>1, <1>2 DEF Exact, HasRow

\* A file the plan leaves out is exact, if the walk saw the tree as it is.
LEMMA UnplannedIsExact ==
    ASSUME TypeOK, IndexInv, \A q \in Paths : walk[q] = content[q],
           NEW p \in Paths, hand # p,
           p \notin ClassifiedAs("New"), p \notin ClassifiedAs("Modified"),
           p \notin LiveFiles(files) \ Seen
    PROVE  Exact(p)
<1>1. CASE content[p] = 0
  <2>1. p \notin Seen /\ p \in DOMAIN files
    BY <1>1 DEF Seen, TypeOK, StoreTypeOK
  <2>2. QED
    BY <1>1, <2>1 DEF LiveFiles, HasRow, Exact
<1>2. CASE content[p] # 0
  <2>1. p \in Seen
    BY <1>2 DEF Seen
  <2>2. HasRow(files, p) /\ files[p].stat = content[p]
    <3>1. Classify(files, p, walk[p]) \notin {"New", "Modified"}
      BY <2>1 DEF ClassifiedAs
    <3>2. CASE ~HasRow(files, p)
      BY <3>1, <3>2 DEF Classify
    <3>3. CASE HasRow(files, p) /\ files[p].stat # walk[p]
      BY <3>1, <3>3 DEF Classify
    <3>4. QED
      BY <3>2, <3>3
  <2>3. ASSUME files[p].status = "Indexed", p \notin lost
        PROVE  writer[p] = {content[p]}
    <3>1. PICK v \in Versions : writer[p] = {v} /\ files[p].stat <= v
      BY <2>3 DEF IndexInv, IndexedIsFresh, InHand
    <3>2. v <= latest[p] /\ content[p] = latest[p]
      BY <1>2, <3>1 DEF IndexInv, NothingFromTheFuture
    <3>3. v \in Nat /\ content[p] \in Nat
      BY MaxVersionAssumption DEF Versions, TypeOK, FsTypeOK
    <3>4. QED
      BY <2>2, <3>1, <3>2, <3>3
  <2>4. QED
    BY <1>2, <2>2, <2>3 DEF Exact
<1>3. QED
  BY <1>1, <1>2

\* The file in hand is exact when process_one lets go of it.
LEMMA LetGoIsExact ==
    ASSUME TypeOK, IndexInv, CalmInv, calm # "no", content' = content,
           ReadFails \/ ExtractFails \/ RecordProgress \/ MarkDeleted,
           hand \notin Links, NEW p \in Paths, p = hand
    PROVE  Exact(p)'
<1> USE DEF CalmInv, StillInHand, HandSteps, BytesSteps
<1>1. ASSUME NEW t, files' = SetStatus(files, hand, t)
      PROVE  files'[p].stat = files[p].stat /\ files'[p].status = t
  BY <1>1, SetStatusFields DEF TypeOK, StoreTypeOK
<1>2. CASE ReadFails
  <2>1. content[p] # 0 /\ files[p].stat = content[p]
    BY <1>2 DEF ReadFails
  <2>2. files'[p].stat = files[p].stat /\ files'[p].status = "FailedTransient"
    BY <1>1, <1>2, <2>1 DEF ReadFails
  <2>3. QED
    BY <2>1, <2>2 DEF Exact, HasRow
<1>3. CASE ExtractFails
  <2>1. content[p] # 0 /\ files[p].stat = content[p]
    BY <1>3 DEF ExtractFails
  <2>2. files'[p].stat = files[p].stat /\ files'[p].status = "FailedPermanent"
    BY <1>1, <1>3 DEF ExtractFails
  <2>3. QED
    BY <2>1, <2>2 DEF Exact, HasRow
<1>4. CASE RecordProgress
  <2>1. content[p] # 0 /\ files[p].stat = content[p] /\ bytes = content[p]
    BY <1>4 DEF RecordProgress
  <2>2. files[p].status = "Indexed" /\ writer[p] = {bytes}
    BY <1>4 DEF RecordProgress, IndexInv, HandInStep
  <2>3. QED
    BY <1>4, <2>1, <2>2 DEF RecordProgress, ftsVars, Exact, HasRow
<1>5. CASE MarkDeleted
  <2>1. content[p] = 0
    BY <1>5 DEF MarkDeleted
  <2>2. files'[p].status = "Deleted"
    BY <1>1, <1>5 DEF MarkDeleted
  <2>3. QED
    BY <2>1, <2>2 DEF Exact
<1>6. QED
  BY <1>2, <1>3, <1>4, <1>5

\* A file leaves the plan, or the process's hand, only once it is exact.
LEMMA StillExactNext ==
    ASSUME TypeOK, IndexInv, CalmInv, Next
    PROVE  StillExact'
<1> DEFINE After == PlanSteps \cup {"finish", "touch", "prune"}
<1> SUFFICES ASSUME calm' # "no", pc' \in After,
                    NEW p \in Paths, p \notin Links, p \notin Planned',
                    p # hand'
             PROVE  Exact(p)'
  BY DEF StillExact
<1> USE DEF PlanSteps, HandSteps, Planned
<1>1. content' = content
  BY CalmStep DEF fsVars
<1>2. calm # "no"
  BY CalmStep DEF BeginRun
<1>3. CASE Diff
  <2>1. hand # p /\ \A q \in Paths : walk[q] = content[q]
    BY <1>2, <1>3 DEF Diff, CalmInv, StillSeen, handVars
  <2>2. /\ p \notin ClassifiedAs("New") /\ p \notin ClassifiedAs("Modified")
        /\ p \notin LiveFiles(files) \ Seen
    BY <1>3 DEF Diff
  <2>3. Exact(p)
    BY <2>1, <2>2, UnplannedIsExact
  <2>4. QED
    BY <1>1, <1>3, <2>1, <2>3, ExactStays DEF Diff, UpsertIntent, TakePath, DropDocs
<1>4. CASE ~Diff /\ p # hand
  <2>1. pc \in After
    BY <1>4
       DEF Next, RunStep, BeginRun, WalkEntry, StatFails, TakePath,
           UpsertIntent, ReadFails, ReadFile, ExtractFails, IndexChunks,
           MarkIndexed, RecordProgress, DropDocs, MarkDeleted, LetGo, Commit,
           FinishRun, TouchLastReconciliation, PruneRuns, Abort, TreeChanges,
           processVars
  <2>2. ~UpsertIntent(p) /\ ~DropDocs(p)
    BY DEF UpsertIntent, DropDocs
  <2>3. p \notin Planned
    <3>1. ~StatFails(p)
      BY <1>2, TreeStep DEF StatFails, TakePath, Turn, CalmInv, StillSeen
    <3>2. QED
      BY <1>4, <2>2, <3>1
         DEF Next, RunStep, BeginRun, WalkEntry, StatFails, TakePath,
             UpsertIntent, ReadFails, ReadFile, ExtractFails, IndexChunks,
             MarkIndexed, RecordProgress, DropDocs, MarkDeleted, Commit,
             FinishRun, TouchLastReconciliation, PruneRuns, Abort,
             TreeChanges, processVars, planVars
  <2>4. Exact(p)
    BY <1>2, <1>4, <2>1, <2>3 DEF CalmInv, StillExact
  <2>5. QED
    BY <1>1, <1>4, <2>2, <2>4, ExactStays
<1>5. CASE ~Diff /\ p = hand
  <2>1. ReadFails \/ ExtractFails \/ RecordProgress \/ MarkDeleted
    <3>1. pc \in HandSteps
      BY <1>5, NoPathAssumption DEF TypeOK, ProcessTypeOK
    <3>2. QED
      BY <1>5, <3>1
         DEF Next, RunStep, BeginRun, WalkEntry, StatFails, TakePath,
             UpsertIntent, ReadFile, IndexChunks, MarkIndexed, DropDocs,
             Commit, FinishRun, TouchLastReconciliation, PruneRuns, Abort,
             TreeChanges, processVars, handVars
  <2>2. QED
    BY <1>1, <1>2, <1>5, <2>1, LetGoIsExact
<1>6. QED
  BY <1>3, <1>4, <1>5

\* An exact file gives the next diff nothing to plan.
LEMMA ExactIsUnplanned ==
    ASSUME TypeOK, NEW p \in Paths, Exact(p), walk[p] = content[p]
    PROVE  /\ p \notin ClassifiedAs("New") /\ p \notin ClassifiedAs("Modified")
           /\ p \notin LiveFiles(files) \ Seen
<1>1. CASE content[p] = 0
  BY <1>1 DEF Exact, Seen, ClassifiedAs, LiveFiles, HasRow
<1>2. CASE content[p] # 0
  <2>1. HasRow(files, p) /\ files[p].stat = walk[p]
    BY <1>2 DEF Exact
  <2>2. Classify(files, p, walk[p]) = "Unchanged"
    BY <2>1 DEF Classify
  <2>3. QED
    BY <1>2, <2>2 DEF Seen, ClassifiedAs
<1>3. QED
  BY <1>1, <1>2

\* Later runs over the same tree find every file exact and keep it so.
LEMMA AllExactNext ==
    ASSUME TypeOK, IndexInv, CalmInv, Next
    PROVE  AllExact'
<1> SUFFICES ASSUME calm' = "settled"
             PROVE  /\ \A p \in Paths \ Links : Exact(p)'
                    /\ Planned' \subseteq Links
                    /\ hand' \in Links \cup {NoPath}
  BY DEF AllExact
<1>1. content' = content
  BY CalmStep DEF fsVars
<1>2. CASE calm = "run" /\ PruneRuns
  <2>1. Planned = {} /\ hand = NoPath
    BY <1>2 DEF PruneRuns, CalmInv, PlanOnlyInProcess, PlanSteps, HandSteps,
                TypeOK, ProcessTypeOK
  <2>2. ASSUME NEW p \in Paths \ Links
        PROVE  Exact(p) /\ p # hand
    BY <1>2, <2>1, NoPathAssumption DEF PruneRuns, CalmInv, StillExact
  <2>3. \A p \in Paths \ Links : Exact(p)'
    BY <1>1, <1>2, <2>2, ExactStays
       DEF PruneRuns, UpsertIntent, TakePath, DropDocs
  <2>4. QED
    BY <1>2, <2>1, <2>3 DEF PruneRuns, planVars, handVars, Planned
<1>3. CASE calm = "settled"
  <2>1. /\ \A p \in Paths \ Links : Exact(p)
        /\ Planned \subseteq Links
        /\ hand \in Links \cup {NoPath}
    BY <1>3 DEF CalmInv, AllExact
  <2>2. \A p \in Paths \ Links : Exact(p)'
    <3>1. ASSUME NEW p \in Paths \ Links
          PROVE  ~UpsertIntent(p) /\ ~DropDocs(p) /\ p # hand
      BY <2>1, NoPathAssumption DEF UpsertIntent, TakePath, Turn, DropDocs, Planned
    <3>2. QED
      BY <1>1, <2>1, <3>1, ExactStays
  <2>3. CASE Diff
    <3>1. \A p \in Paths : walk[p] = content[p]
      BY <1>3, <2>3 DEF Diff, CalmInv, StillSeen
    <3>2. ASSUME NEW p \in Paths \ Links
          PROVE  p \notin Planned'
      <4>1. p \notin Planned
        BY <2>1
      <4>2. /\ p \notin ClassifiedAs("New") /\ p \notin ClassifiedAs("Modified")
            /\ p \notin LiveFiles(files) \ Seen
        BY <2>1, <3>1, ExactIsUnplanned
      <4>3. QED
        BY <2>3, <4>1, <4>2 DEF Diff, Planned, planVars
    <3>3. Planned' \subseteq Paths
      BY <2>3, ProcessTypeNext DEF ProcessTypeOK, Planned
    <3>4. QED
      BY <2>1, <2>2, <2>3, <3>2, <3>3 DEF Diff, handVars
  <2>4. CASE ~Diff
    <3>1. Planned' \subseteq Planned
      BY <2>4
         DEF Next, RunStep, BeginRun, WalkEntry, StatFails, TakePath,
             UpsertIntent, ReadFails, ReadFile, ExtractFails, IndexChunks,
             MarkIndexed, RecordProgress, DropDocs, MarkDeleted, Commit,
             FinishRun, TouchLastReconciliation, PruneRuns, Abort,
             TreeChanges, processVars, planVars, Planned
    <3>2. hand' \in Planned \cup {hand, NoPath}
      BY <2>4
         DEF Next, RunStep, BeginRun, WalkEntry, StatFails, TakePath, Turn,
             UpsertIntent, ReadFails, ReadFile, ExtractFails, IndexChunks,
             MarkIndexed, RecordProgress, DropDocs, MarkDeleted, LetGo,
             Commit, FinishRun, TouchLastReconciliation, PruneRuns, Abort,
             TreeChanges, processVars, handVars, Planned
    <3>3. QED
      BY <2>1, <2>2, <3>1, <3>2
  <2>5. QED
    BY <2>3, <2>4
<1>4. QED
  BY <1>2, <1>3, CalmStep

\* A stuttering step keeps CalmInv.
LEMMA CalmInvStuttered ==
    ASSUME CalmInv, UNCHANGED vars
    PROVE  CalmInv'
  BY DEF CalmInv, PlanOnlyInProcess, CalmIsARun, StillSeen, StillInHand,
         StillExact, AllExact, Exact, Planned, HasRow, vars, fsVars,
         storeVars, ftsVars, processVars, walkVars, planVars, handVars,
         historyVars

\* The invariant of a run over a tree that holds still.
THEOREM CalmInvariant == Spec => []CalmInv
<1>1. Init => CalmInv
  <2> SUFFICES ASSUME Init
               PROVE  CalmInv
    OBVIOUS
  <2>1. Planned = {} /\ calm = "no" /\ pc = "idle"
    BY DEF Init, Planned
  <2>2. QED
    BY <2>1 DEF CalmInv, PlanOnlyInProcess, CalmIsARun, StillSeen,
                StillInHand, StillExact, AllExact
<1>2. TypeOK /\ IndexInv /\ CalmInv /\ [Next]_vars => CalmInv'
  <2>1. TypeOK /\ IndexInv /\ CalmInv /\ Next => CalmInv'
    BY PlanNext, CalmRunNext, StillSeenNext, StillInHandNext,
       StillExactNext, AllExactNext
       DEF CalmInv
  <2>2. QED
    BY <2>1, CalmInvStuttered
<1>3. QED
  BY <1>1, <1>2, TypeCorrect, IndexInvariant, PTL DEF Spec

\* A whole run over a tree that holds still leaves the manifest and the
\* index exact, for any number of files and whatever happened before.
THEOREM Convergence == Spec => []SettledIsExact
<1>1. IndexInv /\ CalmInv => SettledIsExact
  BY DEF IndexInv, BufferOnlyInProcess, CalmInv, AllExact, Exact, SettledIsExact
<1>2. QED
  BY <1>1, IndexInvariant, CalmInvariant, PTL

\* A second run over the same tree finds work only with symbolic links, with
\* files that failed for the time being and with rows a dead run left Pending.
THEOREM Idempotence == Spec => []RerunIsIdle
<1>1. CalmInv => RerunIsIdle
  <2> SUFFICES ASSUME CalmInv, calm = "settled"
               PROVE  (new \cup modified \cup deleted) \ Links = {}
    BY DEF RerunIsIdle
  <2>1. QED
    BY DEF CalmInv, AllExact, Planned
<1>2. QED
  BY <1>1, CalmInvariant, PTL

-----------------------------------------------------------------------------
(***************************************************************************)
(* What a step may never do.                                               *)
(***************************************************************************)

\* The write order of one file, in every interleaving and crash.
THEOREM WriteOrder == Spec => IndexedAfterChunks
<1>1. TypeOK /\ IndexInv /\ [Next]_vars =>
        [\A p \in Paths :
            files[p].status # "Indexed" /\ files'[p].status = "Indexed"
                => files[p].status = "Pending" /\ writer[p] # {}]_vars
  <2> SUFFICES ASSUME TypeOK, IndexInv, Next, NEW p \in Paths,
                      files[p].status # "Indexed", files'[p].status = "Indexed"
               PROVE  files[p].status = "Pending" /\ writer[p] # {}
    OBVIOUS
  <2>1. MarkIndexed /\ p = hand
    BY RowStep
  <2>2. QED
    BY <2>1 DEF MarkIndexed, IndexInv, HandInStep
<1>2. QED
  BY <1>1, TypeCorrect, IndexInvariant, PTL DEF Spec, IndexedAfterChunks

\* The code commits once a run, when the plan is worked off (PRD.md:1021 asks
\* for a commit every 10,000 documents or 30 seconds).
THEOREM AtomicPublish == Spec => CommitIsLast
<1>1. TypeOK /\ LedgerInv /\ [Next]_vars =>
        [searcher' # searcher
            => /\ new = {} /\ modified = {} /\ deleted = {} /\ hand = NoPath
               /\ lastRun \notin finished]_vars
  <2> SUFFICES ASSUME TypeOK, LedgerInv, Next, searcher' # searcher
               PROVE  /\ new = {} /\ modified = {} /\ deleted = {} /\ hand = NoPath
                      /\ lastRun \notin finished
    OBVIOUS
  <2>1. Commit
    BY FtsFrame DEF ftsVars, IndexChunks, Abort, DropDocs
  <2>2. QED
    BY <2>1 DEF Commit, TypeOK, ProcessTypeOK, HandSteps, LedgerInv
<1>2. QED
  BY <1>1, TypeCorrect, LedgerInvariant, PTL DEF Spec, CommitIsLast

\* A dry run leaves files, documents and the freshness mark as they are,
\* also when it dies.
THEOREM DryRun == Spec => DryRunWritesNothing
<1>1. TypeOK /\ IndexInv /\ LedgerInv /\ [Next]_vars =>
        [dry /\ pc # "idle"
            => UNCHANGED <<files, progress, finished, reconciled, ftsVars>>]_vars
  <2> SUFFICES ASSUME TypeOK, IndexInv, LedgerInv, Next, dry, pc # "idle"
               PROVE  UNCHANGED <<files, progress, finished, reconciled, ftsVars>>
    OBVIOUS
  <2>1. pc \in {"walk", "diff"}
    BY DEF LedgerInv
  <2>2. writer = searcher
    BY <2>1 DEF IndexInv, BufferOnlyInProcess
  <2>3. UNCHANGED files
    BY <2>1, FilesFrame
       DEF UpsertIntent, TakePath, ReadFails, ExtractFails, MarkIndexed,
           MarkDeleted
  <2>4. UNCHANGED <<progress, finished, reconciled>>
    BY <2>1, RunTableFrame
       DEF BeginRun, RecordProgress, FinishRun, TouchLastReconciliation,
           PruneRuns
  <2>5. UNCHANGED ftsVars
    BY <2>1, <2>2, FtsFrame DEF ftsVars, IndexChunks, Commit, Abort, DropDocs
  <2>6. QED
    BY <2>3, <2>4, <2>5
<1>2. QED
  BY <1>1, TypeCorrect, IndexInvariant, LedgerInvariant, PTL
     DEF Spec, DryRunWritesNothing
=============================================================================
