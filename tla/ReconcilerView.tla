--------------------------- MODULE ReconcilerView ---------------------------
(***************************************************************************)
(* Reconciler with one history variable more, so that it can be shown to   *)
(* implement SearchView: which versions each file had since the run began. *)
(***************************************************************************)
EXTENDS ReconcilerInvariant

VARIABLE offered

\* A run is under way and its commit has not come.
Busy == pc \notin {"idle", "finish", "touch", "prune"}

\* offered starts with what the tree holds when the run begins, collects
\* what it holds later, and is forgotten at the commit or the abort.
Offer ==
    offered' = [p \in Paths |->
        CASE ~Busy'         -> {}
          [] Busy' /\ ~Busy -> {content[p]}
          [] Busy' /\ Busy  -> offered[p] \cup {content'[p]}]

viewVars == <<vars, offered>>

ViewInit == Init /\ offered = [p \in Paths |-> {}]

ViewNext == Next /\ Offer

ViewSpec == ViewInit /\ [][ViewNext]_viewVars

View == INSTANCE SearchView WITH tree <- content, shown <- searcher, busy <- Busy

\* Reconciler implements SearchView: what a commit makes searchable of a file
\* is what it was before, or one version that the file had on disk since this
\* run began (or nothing, if it was gone at some moment of the run).  Nothing
\* that an earlier run buffered before it died comes up with it.
ImplementsSearchView == View!Spec

-----------------------------------------------------------------------------
(***************************************************************************)
(* Why: everything a run carries, from the walk to the buffered documents, *)
(* it saw in the tree since it began.                                      *)
(***************************************************************************)

OfferedTypeOK ==
    /\ offered \in [Paths -> SUBSET (0 .. MaxVersion)]
    /\ ~Busy => offered = [p \in Paths |-> {}]
    /\ Busy => \A p \in Paths : content[p] \in offered[p]

SeenInRun ==
    /\ pc = "walk" => \A p \in Paths \ unwalked : walk[p] \in offered[p]
    /\ pc = "diff" => \A p \in Paths : walk[p] \in offered[p]
    /\ \A p \in deleted : 0 \in offered[p]
    /\ pc \in BytesSteps => bytes \in offered[hand]

BufferedInRun ==
    Busy => \A p \in Paths :
        writer[p] = searcher[p] \/ \E v \in offered[p] : writer[p] = View!Copy(v)

ViewInv == OfferedTypeOK /\ SeenInRun /\ BufferedInRun

\* All that the proofs rest on holds in every reachable state: what the
\* documents, rows and plans say of each other, what a run knows while the
\* tree holds still, how the run table is kept, and ViewInv.
ProofInv == IndexInv /\ CalmInv /\ LedgerInv /\ ViewInv

=============================================================================
