------------------------ MODULE ReconcilerViewProofs ------------------------
(***************************************************************************)
(* Reconciler implements SearchView, for any set of paths and any bounds.  *)
(***************************************************************************)
EXTENDS ReconcilerView, ReconcilerProofs

\* The history variable takes nothing away from Reconciler's invariants.
LEMMA BaseInvariants == ViewSpec => [](TypeOK /\ IndexInv /\ CalmInv /\ LedgerInv)
<1>1. ViewInit => Init
  BY DEF ViewInit
<1>2. [ViewNext]_viewVars => [Next]_vars
  BY DEF ViewNext, viewVars
<1>3. ViewSpec => Spec
  BY <1>1, <1>2, PTL DEF ViewSpec, Spec
<1>4. QED
  BY <1>3, TypeCorrect, IndexInvariant, CalmInvariant, LedgerInvariant, PTL

\* A run becomes busy in BeginRun and ceases to be in Commit, in Abort, or
\* after the diff of a dry run; in these steps the tree stands still.
LEMMA BusyStep ==
    ASSUME TypeOK, Next
    PROVE  \/ ~Busy /\ Busy' /\ \E d \in BOOLEAN : BeginRun(d)
           \/ Busy /\ ~Busy' /\ (Commit \/ Abort \/ Diff)
           \/ Busy' = Busy
  BY DEF Busy, Next, RunStep, BeginRun, WalkEntry, Diff, StatFails, TakePath,
         UpsertIntent, ReadFails, ReadFile, ExtractFails, IndexChunks,
         MarkIndexed, RecordProgress, DropDocs, MarkDeleted, LetGo, Commit,
         FinishRun, TouchLastReconciliation, PruneRuns, Abort, TreeChanges,
         processVars

\* What offered becomes, and that it only grows while a run is busy.
LEMMA OfferedNext ==
    ASSUME TypeOK, OfferedTypeOK, Next, Offer
    PROVE  /\ OfferedTypeOK'
           /\ Busy /\ Busy' => \A p \in Paths : offered[p] \subseteq offered'[p]
<1>1. content \in [Paths -> 0 .. MaxVersion] /\ content' \in [Paths -> 0 .. MaxVersion]
  BY FsTypeNext DEF TypeOK, FsTypeOK
<1>2. ~Busy /\ Busy' => content' = content
  BY BusyStep DEF BeginRun, fsVars
<1>3. ASSUME NEW p \in Paths
      PROVE  offered'[p] = CASE ~Busy'         -> {}
                             [] Busy' /\ ~Busy -> {content[p]}
                             [] Busy' /\ Busy  -> offered[p] \cup {content'[p]}
  BY DEF Offer
<1>4. ASSUME NEW p \in Paths
      PROVE  offered'[p] \subseteq 0 .. MaxVersion
  <2>1. /\ content[p] \in 0 .. MaxVersion /\ content'[p] \in 0 .. MaxVersion
        /\ offered[p] \subseteq 0 .. MaxVersion
    BY <1>1 DEF OfferedTypeOK
  <2>2. offered'[p] \subseteq {content[p], content'[p]} \cup offered[p]
    BY <1>3
  <2>3. QED
    BY <2>1, <2>2
<1>5. offered' = [p \in Paths |-> offered'[p]]
  BY DEF Offer
<1>6. ~Busy' => offered' = [p \in Paths |-> {}]
  BY <1>3, <1>5
<1>7. Busy' => \A p \in Paths : content'[p] \in offered'[p]
  BY <1>2, <1>3
<1>8. Busy /\ Busy' => \A p \in Paths : offered[p] \subseteq offered'[p]
  BY <1>3
<1>9. offered' \in [Paths -> SUBSET (0 .. MaxVersion)]
  BY <1>4, <1>5
<1>10. QED
  BY <1>6, <1>7, <1>8, <1>9 DEF OfferedTypeOK

\* What the walk, the plan and the read take over, they take from the tree.
LEMMA SeenNext ==
    ASSUME TypeOK, IndexInv, CalmInv, OfferedTypeOK, SeenInRun, Next, Offer
    PROVE  SeenInRun'
<1> USE DEF BytesSteps
<1>1. Busy /\ Busy' => \A p \in Paths : offered[p] \subseteq offered'[p]
  BY OfferedNext
<1>2. Busy' => \A p \in Paths : content'[p] \in offered'[p]
  BY OfferedNext DEF OfferedTypeOK
<1>3. /\ pc' = "walk" => \A p \in Paths \ unwalked' : walk'[p] \in offered'[p]
      /\ pc' = "diff" => \A p \in Paths : walk'[p] \in offered'[p]
  <2>1. ASSUME NEW d \in BOOLEAN, BeginRun(d)
        PROVE  pc' = "walk" /\ unwalked' = Paths
    BY <2>1 DEF BeginRun
  <2>2. ASSUME NEW q \in Paths, WalkEntry(q), NEW p \in Paths \ unwalked'
        PROVE  walk'[p] \in offered'[p]
    <3>1. Busy /\ Busy' /\ pc = "walk" /\ content' = content
      BY <2>2 DEF WalkEntry, Busy, fsVars
    <3>2. walk'[p] = IF p = q THEN content[p] ELSE walk[p]
      BY <2>2 DEF WalkEntry, TypeOK, ProcessTypeOK
    <3>3. p # q => walk[p] \in offered[p]
      BY <2>2, <3>1 DEF WalkEntry, SeenInRun
    <3>4. QED
      BY <1>1, <1>2, <3>1, <3>2, <3>3
  <2>3. ASSUME NEW q \in Paths, WalkEntry(q), pc' = "diff"
        PROVE  unwalked' = {}
    BY <2>3 DEF WalkEntry
  <2>4. ASSUME NEW q \in Paths, TreeChanges(q), pc' \in {"walk", "diff"}
        PROVE  /\ pc' = "walk" => \A p \in Paths \ unwalked' : walk'[p] \in offered'[p]
               /\ pc' = "diff" => \A p \in Paths : walk'[p] \in offered'[p]
    <3>1. /\ Busy /\ Busy' /\ pc' = pc /\ unwalked' = unwalked /\ walk' = walk
      BY <2>4 DEF TreeChanges, processVars, walkVars, Busy
    <3>2. QED
      BY <1>1, <3>1 DEF SeenInRun
  <2>5. QED
    BY <2>1, <2>2, <2>3, <2>4
       DEF Next, RunStep, Diff, StatFails, TakePath, UpsertIntent, ReadFails,
           ReadFile, ExtractFails, IndexChunks, MarkIndexed, RecordProgress,
           DropDocs, MarkDeleted, LetGo, Commit, FinishRun,
           TouchLastReconciliation, PruneRuns, Abort
<1>4. ASSUME NEW p \in deleted'
      PROVE  0 \in offered'[p]
  <2>1. p \in Paths
    BY <1>4, ProcessTypeNext DEF ProcessTypeOK
  <2>2. Busy /\ Busy'
    <3>1. pc' \in PlanSteps
      BY <1>4, PlanNext DEF PlanOnlyInProcess, Planned
    <3>2. pc # "idle"
      BY <3>1
         DEF PlanSteps, HandSteps, Next, RunStep, BeginRun, WalkEntry, Diff,
             StatFails, TakePath, UpsertIntent, ReadFails, ReadFile,
             ExtractFails, IndexChunks, MarkIndexed, RecordProgress, DropDocs,
             MarkDeleted, Commit, FinishRun, TouchLastReconciliation,
             PruneRuns, Abort, TreeChanges, processVars
    <3>3. QED
      BY <3>1, <3>2, BusyStep DEF PlanSteps, HandSteps, Busy, BeginRun
  <2>3. CASE p \in deleted
    BY <1>1, <2>1, <2>2, <2>3 DEF SeenInRun
  <2>4. CASE p \notin deleted
    <3>1. Diff /\ p \notin Seen
      BY <1>4, <2>4, DeletedStep
    <3>2. walk[p] \in offered[p] /\ walk[p] = 0
      BY <2>1, <3>1 DEF Diff, SeenInRun, Seen
    <3>3. QED
      BY <1>1, <2>1, <2>2, <3>2
  <2>5. QED
    BY <2>3, <2>4
<1>5. pc' \in BytesSteps => bytes' \in offered'[hand']
  <2>1. CASE ReadFile
    <3>1. /\ Busy' /\ hand' = hand /\ hand \in Paths /\ bytes' = content[hand]
          /\ content' = content
      BY <2>1 DEF ReadFile, Busy, TypeOK, ProcessTypeOK, HandSteps, fsVars
    <3>2. QED
      BY <1>2, <3>1
  <2>2. CASE /\ pc \in BytesSteps /\ pc' \in BytesSteps
             /\ UNCHANGED <<hand, bytes>>
    <3>1. Busy /\ Busy' /\ hand \in Paths
      BY <2>2 DEF Busy, TypeOK, ProcessTypeOK, HandSteps
    <3>2. QED
      BY <1>1, <2>2, <3>1 DEF SeenInRun
  <2>3. QED
    BY <2>1, <2>2
       DEF Next, RunStep, BeginRun, WalkEntry, Diff, StatFails, TakePath,
           UpsertIntent, ReadFails, ExtractFails, IndexChunks, MarkIndexed,
           RecordProgress, DropDocs, MarkDeleted, LetGo, Commit, FinishRun,
           TouchLastReconciliation, PruneRuns, Abort, TreeChanges,
           processVars, handVars
<1>6. QED
  BY <1>3, <1>4, <1>5 DEF SeenInRun

\* What is buffered was read, or found missing, within this run.
LEMMA BufferedNext ==
    ASSUME TypeOK, IndexInv, OfferedTypeOK, SeenInRun, BufferedInRun,
           Next, Offer
    PROVE  BufferedInRun'
<1> SUFFICES ASSUME Busy', NEW p \in Paths
             PROVE  \/ writer'[p] = searcher'[p]
                    \/ \E v \in offered'[p] : writer'[p] = View!Copy(v)
  BY DEF BufferedInRun, View!Copy
<1>1. CASE ~Busy
  <2>1. UNCHANGED ftsVars
    BY <1>1, BusyStep DEF BeginRun
  <2>2. writer = searcher
    BY <1>1 DEF IndexInv, BufferOnlyInProcess, Busy
  <2>3. QED
    BY <2>1, <2>2 DEF ftsVars
<1>2. CASE Busy
  <2>1. offered[p] \subseteq offered'[p]
    BY <1>2, OfferedNext
  <2>2. writer[p] = searcher[p] \/ \E v \in offered[p] : writer[p] = View!Copy(v)
    BY <1>2 DEF BufferedInRun
  <2>3. searcher'[p] = searcher[p]
    BY DocsStep DEF Commit, Busy
  <2>4. CASE writer'[p] = writer[p]
    BY <2>1, <2>2, <2>3, <2>4
  <2>5. CASE IndexChunks /\ p = hand /\ writer'[p] = {bytes}
    <3>1. bytes \in offered[p] /\ bytes # 0
      BY <2>5 DEF IndexChunks, SeenInRun, BytesSteps, TypeOK, ProcessTypeOK, Versions
    <3>2. View!Copy(bytes) = {bytes}
      BY <3>1 DEF View!Copy
    <3>3. QED
      BY <2>1, <2>5, <3>1, <3>2
  <2>6. CASE DropDocs(p) /\ writer'[p] = {}
    <3>1. 0 \in offered[p]
      BY <2>6 DEF DropDocs, SeenInRun
    <3>2. View!Copy(0) = {}
      BY DEF View!Copy
    <3>3. QED
      BY <2>1, <2>6, <3>1, <3>2
  <2>7. CASE Abort
    BY <2>7 DEF Abort, Busy
  <2>8. QED
    BY <2>4, <2>5, <2>6, <2>7, DocsStep
<1>3. QED
  BY <1>1, <1>2

\* All a run carries it saw in the tree since it began.
THEOREM CarriedIsSeen == ViewSpec => []ViewInv
<1>1. ViewInit => ViewInv
  <2> SUFFICES ASSUME ViewInit
               PROVE  ViewInv
    OBVIOUS
  <2>1. pc = "idle" /\ deleted = {} /\ offered = [p \in Paths |-> {}]
    BY DEF ViewInit, Init
  <2>2. QED
    BY <2>1 DEF ViewInv, OfferedTypeOK, SeenInRun, BufferedInRun, Busy, BytesSteps
<1>2. TypeOK /\ IndexInv /\ CalmInv /\ ViewInv /\ [ViewNext]_viewVars => ViewInv'
  <2> SUFFICES ASSUME TypeOK, IndexInv, CalmInv, ViewInv, [ViewNext]_viewVars
               PROVE  ViewInv'
    OBVIOUS
  <2>1. CASE ViewNext
    BY <2>1, OfferedNext, SeenNext, BufferedNext DEF ViewNext, ViewInv
  <2>2. CASE UNCHANGED viewVars
    BY <2>2
       DEF viewVars, vars, fsVars, ftsVars, processVars, walkVars, planVars,
           handVars, ViewInv, OfferedTypeOK, SeenInRun, BufferedInRun, Busy
  <2>3. QED
    BY <2>1, <2>2
<1>3. QED
  BY <1>1, <1>2, BaseInvariants, PTL DEF ViewSpec

\* The invariants the proofs rest on, together, for any paths, versions, links
\* and crashes.
THEOREM ProofInvariant == ViewSpec => []ProofInv
<1>1. IndexInv /\ CalmInv /\ LedgerInv /\ ViewInv => ProofInv
  BY DEF ProofInv
<1>2. QED
  BY <1>1, BaseInvariants, CarriedIsSeen, PTL

-----------------------------------------------------------------------------
(***************************************************************************)
(* The refinement, step by step.                                           *)
(***************************************************************************)

\* A step that leaves content alone and Busy as it was leaves offered alone.
LEMMA OfferedStays ==
    ASSUME OfferedTypeOK, Offer, content' = content, Busy' = Busy
    PROVE  offered' = offered
<1>1. CASE ~Busy
  BY <1>1 DEF Offer, OfferedTypeOK
<1>2. CASE Busy
  <2>1. ASSUME NEW p \in Paths
        PROVE  offered'[p] = offered[p]
    BY <1>2 DEF Offer, OfferedTypeOK
  <2>2. QED
    BY <2>1 DEF Offer, OfferedTypeOK
<1>3. QED
  BY <1>1, <1>2

\* A change of the tree is one of SearchView's changes.
LEMMA TreeImplements ==
    ASSUME TypeOK, OfferedTypeOK, Offer, NEW p \in Paths, TreeChanges(p)
    PROVE  \E v \in 0 .. MaxVersion : View!Change(p, v)
<1>1. Busy' = Busy /\ UNCHANGED searcher
  BY DEF TreeChanges, Busy, processVars, ftsVars
<1>2. /\ content' = [content EXCEPT ![p] = content'[p]]
      /\ content'[p] \in 0 .. MaxVersion
  <2>1. Next
    BY DEF Next
  <2>2. content \in [Paths -> 0 .. MaxVersion] /\ content' \in [Paths -> 0 .. MaxVersion]
    BY <2>1, FsTypeNext DEF TypeOK, FsTypeOK
  <2>3. \A q \in Paths : q # p => content'[q] = content[q]
    BY <2>2 DEF TreeChanges, FsNext, Write, Remove, Restore, Chmod
  <2>4. QED
    BY <2>2, <2>3
<1>3. offered' = IF Busy THEN [offered EXCEPT ![p] = @ \cup {content'[p]}] ELSE offered
  <2>1. CASE ~Busy
    BY <1>1, <2>1 DEF Offer, OfferedTypeOK
  <2>2. CASE Busy
    <3>1. ASSUME NEW q \in Paths
          PROVE  offered'[q] = IF q = p THEN offered[q] \cup {content'[q]} ELSE offered[q]
      <4>1. offered'[q] = offered[q] \cup {content'[q]}
        BY <1>1, <2>2 DEF Offer
      <4>2. q # p => content'[q] = content[q]
        BY <1>2 DEF TypeOK, FsTypeOK
      <4>3. content[q] \in offered[q]
        BY <2>2 DEF OfferedTypeOK
      <4>4. QED
        BY <4>1, <4>2, <4>3
    <3>2. QED
      BY <2>2, <3>1 DEF Offer, OfferedTypeOK
  <2>3. QED
    BY <2>1, <2>2
<1>4. QED
  BY <1>1, <1>2, <1>3 DEF View!Change

\* The commit is SearchView's publication.
LEMMA CommitImplements ==
    ASSUME TypeOK, IndexInv, ViewInv, Offer, Commit
    PROVE  View!Publish
<1>1. Busy /\ Busy' = FALSE /\ content' = content /\ searcher' = writer
  BY DEF Commit, Busy, fsVars
<1>2. offered' = [p \in Paths |-> {}]
  BY <1>1 DEF Offer
<1>3. searcher' = [p \in Paths |-> searcher'[p]]
  BY <1>1 DEF TypeOK, FtsTypeOK
<1>4. \A p \in Paths : View!Renewed(p)
  BY <1>1 DEF View!Renewed, ViewInv, BufferedInRun
<1>5. QED
  BY <1>1, <1>2, <1>3, <1>4 DEF View!Publish, View!Nothing

\* Every step of a run is a step of SearchView or none of its business.
LEMMA StepImplements ==
    ASSUME TypeOK, IndexInv, ViewInv, Next, Offer
    PROVE  View!Next \/ UNCHANGED View!vars
<1> USE DEF View!Next, View!vars, ViewInv
<1>1. CASE \E p \in Paths : TreeChanges(p)
  BY <1>1, TreeImplements
<1>2. CASE Commit
  BY <1>2, CommitImplements
<1>3. CASE UNCHANGED fsVars /\ UNCHANGED searcher /\ ~Busy /\ Busy'
  <2>1. Busy' = TRUE /\ content' = content
    BY <1>3 DEF Busy, fsVars
  <2>2. offered' = [p \in Paths |-> {content[p]}]
    BY <1>3 DEF Offer
  <2>3. QED
    BY <1>3, <2>1, <2>2 DEF View!Begin
<1>4. CASE UNCHANGED fsVars /\ UNCHANGED searcher /\ Busy /\ ~Busy'
  <2>1. Busy' = FALSE /\ content' = content
    BY <1>4 DEF Busy, fsVars
  <2>2. offered' = [p \in Paths |-> {}]
    BY <1>4 DEF Offer
  <2>3. QED
    BY <1>4, <2>1, <2>2 DEF View!GiveUp, View!Nothing
<1>5. CASE UNCHANGED fsVars /\ UNCHANGED searcher /\ Busy' = Busy
  <2>1. content' = content
    BY <1>5 DEF fsVars
  <2>2. offered' = offered
    BY <1>5, <2>1, OfferedStays
  <2>3. QED
    BY <1>5, <2>1, <2>2
<1>6. UNCHANGED fsVars \/ \E p \in Paths : TreeChanges(p)
  BY FsFrame
<1>7. UNCHANGED searcher \/ Commit
  BY FtsFrame DEF ftsVars, IndexChunks, Abort, DropDocs
<1>8. QED
  BY <1>1, <1>2, <1>3, <1>4, <1>5, <1>6, <1>7, BusyStep

\* Reconciler implements SearchView: what it puts up of a file is one version
\* of it, which was on disk during the run that publishes it.
THEOREM Refinement == ViewSpec => ImplementsSearchView
<1>1. ViewInit => View!Init
  BY DEF ViewInit, Init, FsInit, NoDocs, Busy, View!Init, View!Nothing
<1>2. TypeOK /\ IndexInv /\ ViewInv /\ [ViewNext]_viewVars => [View!Next]_(View!vars)
  <2>1. UNCHANGED viewVars => UNCHANGED View!vars
    BY DEF viewVars, vars, fsVars, ftsVars, processVars, Busy, View!vars
  <2>2. QED
    BY <2>1, StepImplements DEF ViewNext
<1>3. QED
  BY <1>1, <1>2, BaseInvariants, CarriedIsSeen, PTL
     DEF ViewSpec, ImplementsSearchView, View!Spec
=============================================================================
