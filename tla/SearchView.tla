----------------------------- MODULE SearchView -----------------------------
(***************************************************************************)
(* What `ndex index` promises to whoever searches after it, without its    *)
(* databases, its phases or its plan: the index is a set of copies of      *)
(* files, each of one version.  A run replaces copies, and each copy it    *)
(* puts up is the file as it was at some moment of that very run, never    *)
(* something an earlier run left behind.                                   *)
(*                                                                         *)
(* It does not promise how often a run publishes, that the copies are of   *)
(* one moment, or that a copy is replaced when its file changed: a run may *)
(* fail on any file.                                                       *)
(***************************************************************************)
EXTENDS Naturals

CONSTANTS Paths, MaxVersion

VARIABLES
    tree,      \* the version of each file on disk, 0 when it is not there
    shown,     \* the versions of each file a search finds
    offered,   \* the versions each file had since the run began
    busy       \* whether a run is under way that may (still) publish

vars == <<tree, shown, offered, busy>>

\* The copy of a file in version v; of no file there is none.
Copy(v) == IF v = 0 THEN {} ELSE {v}

Nothing == [p \in Paths |-> {}]

Init ==
    /\ tree = [p \in Paths |-> 0]
    /\ shown = Nothing
    /\ offered = Nothing
    /\ busy = FALSE

Change(p, v) ==
    /\ tree' = [tree EXCEPT ![p] = v]
    /\ offered' = IF busy THEN [offered EXCEPT ![p] = @ \cup {v}] ELSE offered
    /\ UNCHANGED <<shown, busy>>

Begin ==
    /\ ~busy
    /\ busy' = TRUE
    /\ offered' = [p \in Paths |-> {tree[p]}]
    /\ UNCHANGED <<tree, shown>>

Renewed(p) == shown'[p] = shown[p] \/ \E v \in offered[p] : shown'[p] = Copy(v)

\* The run puts up copies of some files, and may go on and put up more.
Publish ==
    /\ busy
    /\ busy' \in BOOLEAN
    /\ shown' = [p \in Paths |-> shown'[p]]
    /\ \A p \in Paths : Renewed(p)
    /\ offered' = IF busy' THEN offered ELSE Nothing
    /\ UNCHANGED tree

\* The run dies, fails, or was a dry run.
GiveUp ==
    /\ busy
    /\ busy' = FALSE
    /\ offered' = Nothing
    /\ UNCHANGED <<tree, shown>>

Next ==
    \/ \E p \in Paths, v \in 0 .. MaxVersion : Change(p, v)
    \/ Begin \/ Publish \/ GiveUp

Spec == Init /\ [][Next]_vars

=============================================================================
