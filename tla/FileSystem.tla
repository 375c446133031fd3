----------------------------- MODULE FileSystem -----------------------------
(***************************************************************************)
(* The indexed directory tree, as the indexer sees it: other programs      *)
(* write, remove, restore and chmod files at any moment, also while a run  *)
(* is under way.  It is the environment of the indexer and is not part of  *)
(* the repository.                                                         *)
(*                                                                         *)
(* A version stands both for what a file holds and for the (size,          *)
(* mtime_ns) pair the file system reports for it: every write gives a      *)
(* pair the file never had before.  A file that is moved away and back, or *)
(* whose directory is unmounted and mounted again, keeps its version.      *)
(***************************************************************************)
EXTENDS Naturals

CONSTANTS
    Paths,       \* the file names of the tree
    MaxVersion   \* bound: how often one file may be written

ASSUME MaxVersionAssumption == MaxVersion \in Nat \ {0}

VARIABLES
    content,     \* content[p]: the version on disk, 0 when p is not there
    latest,      \* latest[p]: the newest version p ever had
    readable     \* readable[p]: whether open(2) for reading succeeds

fsVars == <<content, latest, readable>>

Versions == 1 .. MaxVersion

FsTypeOK ==
    /\ content \in [Paths -> 0 .. MaxVersion]
    /\ latest \in [Paths -> 0 .. MaxVersion]
    /\ readable \in [Paths -> BOOLEAN]

FsInit ==
    /\ content = [p \in Paths |-> 0]
    /\ latest = [p \in Paths |-> 0]
    /\ readable = [p \in Paths |-> TRUE]

\* Create p or overwrite it.
Write(p) ==
    /\ latest[p] < MaxVersion
    /\ latest' = [latest EXCEPT ![p] = @ + 1]
    /\ content' = [content EXCEPT ![p] = latest[p] + 1]
    /\ UNCHANGED readable

\* Delete p, move it away, or unmount its directory.
Remove(p) ==
    /\ content[p] # 0
    /\ content' = [content EXCEPT ![p] = 0]
    /\ UNCHANGED <<latest, readable>>

\* Move p back, or mount its directory again: size and mtime are kept.
Restore(p) ==
    /\ content[p] = 0
    /\ latest[p] # 0
    /\ content' = [content EXCEPT ![p] = latest[p]]
    /\ UNCHANGED <<latest, readable>>

\* chmod: neither size nor mtime changes.
Chmod(p) ==
    /\ content[p] # 0
    /\ readable' = [readable EXCEPT ![p] = ~@]
    /\ UNCHANGED <<content, latest>>

FsNext(p) == Write(p) \/ Remove(p) \/ Restore(p) \/ Chmod(p)

=============================================================================
