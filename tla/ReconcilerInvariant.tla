------------------------ MODULE ReconcilerInvariant ------------------------
(***************************************************************************)
(* The inductive invariant behind the properties of Reconciler: what is    *)
(* true at every step inside a run, in named parts.                        *)
(***************************************************************************)
EXTENDS Reconciler

\* A file that is there is there in its newest version, and neither a
\* recorded stat nor an indexed chunk is newer than that.
NothingFromTheFuture ==
    \A p \in Paths :
        /\ content[p] \in {0, latest[p]}
        /\ files[p].stat <= latest[p]
        /\ \A v \in writer[p] \cup searcher[p] : v <= latest[p]

\* The file in hand: its row, its bytes and its documents step by step.
HandInStep ==
    /\ pc \in {"read", "extract", "indexed"} => files[hand].status = "Pending"
    /\ pc = "progress" => files[hand].status = "Indexed"
    /\ pc = "deleted" => HasRow(files, hand) /\ writer[hand] = {}
    /\ pc \in BytesSteps => files[hand].stat <= bytes /\ bytes <= latest[hand]
    /\ pc \in {"indexed", "progress"} => writer[hand] = {bytes}

\* The searcher still has the documents that a deletion dropped, and has
\* those of the files whose turn to be deleted has not come.
DeletionsUntouched ==
    /\ \A p \in deleted :
          p \notin new \cup modified /\ p # hand /\ writer[p] = searcher[p]
    /\ pc = "deleted" /\ files[hand].status = "Indexed" /\ hand \notin lost
          => \E v \in Versions : searcher[hand] = {v} /\ files[hand].stat <= v

\* Outside the processing of the plan nothing is buffered.
BufferOnlyInProcess ==
    pc \in {"idle", "walk", "diff", "finish", "touch", "prune"} => writer = searcher

OneVersionEach ==
    \A p \in Paths : /\ \A v, w \in writer[p] : v = w
                     /\ \A v, w \in searcher[p] : v = w

DocsHaveRows ==
    /\ \A p \in Paths : writer[p] \cup searcher[p] # {} => HasRow(files, p)
    /\ \A p \in deleted : HasRow(files, p)

IndexInv ==
    /\ NothingFromTheFuture
    /\ HandInStep
    /\ DeletionsUntouched
    /\ BufferOnlyInProcess
    /\ OneVersionEach
    /\ DocsHaveRows
    /\ IndexedIsFresh

\* The plan is worked off only in between these steps.
PlanSteps == HandSteps \cup {"process"}

\* What one file looks like once a run is through with it.
Exact(p) ==
    IF content[p] = 0
       THEN files[p].status \in {"Absent", "Deleted"}
       ELSE /\ HasRow(files, p)
            /\ files[p].stat = content[p]
            /\ files[p].status = "Indexed" /\ p \notin lost
                   => writer[p] = {content[p]}

Planned == new \cup modified \cup deleted

PlanOnlyInProcess == pc \notin PlanSteps => Planned = {}

CalmIsARun == calm = "run" => pc # "idle" /\ ~dry

\* While the tree holds still the walk sees what is there, and so do the
\* plan and the process at work on it.
StillSeen ==
    calm # "no" =>
        /\ pc = "walk" => \A p \in Paths \ unwalked : walk[p] = content[p]
        /\ pc = "diff" => \A p \in Paths : walk[p] = content[p]
        /\ \A p \in new \cup modified : content[p] # 0
        /\ \A p \in deleted : content[p] = 0

StillInHand ==
    calm # "no" =>
        /\ pc \in HandSteps \ {"deleted"} =>
              /\ content[hand] # 0
              /\ hand \notin Links => files[hand].stat = content[hand]
        /\ pc \in BytesSteps => bytes = content[hand]
        /\ pc = "deleted" => content[hand] = 0

\* Every file that is not planned, or no longer, is exact.
StillExact ==
    calm # "no" /\ pc \in PlanSteps \cup {"finish", "touch", "prune"} =>
        \A p \in Paths \ (Links \cup Planned \cup {hand}) : Exact(p)

AllExact ==
    calm = "settled" =>
        /\ \A p \in Paths \ Links : Exact(p)
        /\ Planned \subseteq Links
        /\ hand \in Links \cup {NoPath}

CalmInv ==
    /\ PlanOnlyInProcess
    /\ CalmIsARun
    /\ StillSeen
    /\ StillInHand
    /\ StillExact
    /\ AllExact

\* The run table: a completed run is entered, touched and pruned in order,
\* and a dry run stops short of completing.
LedgerInv ==
    /\ dry => pc \in {"idle", "walk", "diff"}
    /\ pc # "idle" /\ reconciled # lastRun => lastRun \in runs
    /\ pc \in {"touch", "prune"} => lastRun \in finished
    /\ lastRun \in finished => pc \in {"idle", "touch", "prune"}
    /\ pc = "prune" => reconciled = lastRun
    /\ finished \subseteq runs
    /\ ReconciledRunOnRecord

=============================================================================
