------------------------------ MODULE StoreLock ------------------------------
(***************************************************************************)
(* Store::create and Store::open: several ndex-remote processes meet at    *)
(* one .ndex/ directory.  What keeps them apart is an exclusive flock on   *)
(* .ndex/lock, held from inside create or open until the Store is dropped, *)
(* and, underneath, the lock tantivy takes for its single IndexWriter.     *)
(*                                                                         *)
(* A process runs one command and ends; it may be killed at any step.  The *)
(* user may remove .ndex/ to start over, as the reindex command advises:   *)
(* a file opened in the old directory then stays open, and a path leads to *)
(* the new one.  Directories are numbered in the order they are made.      *)
(*                                                                         *)
(* Left out: the check for NFS, which refuses before any lock is taken;    *)
(* config.toml, which init always writes with the defaults and whose empty *)
(* or missing form reads as the defaults too; and the tables of the        *)
(* databases, created only where missing.                                  *)
(***************************************************************************)
EXTENDS Naturals

CONSTANTS
    Procs,         \* the processes
    NoProc,        \* "nobody"
    MaxCrashes,    \* bound: processes killed
    MaxRemovals    \* bound: times the user removes .ndex/

ASSUME ProcsAssumption == Procs \cap {NoProc, "absent", "torn"} = {}
ASSUME LimitsAssumption == MaxCrashes \in Nat /\ MaxRemovals \in Nat

VARIABLES
    \* the file system
    dir,        \* the .ndex/ directory the path leads to, 0 if none
    made,       \* how many directories were made so far
    identity,   \* index.toml: who wrote it, or "absent", or "torn"
    \* kernel and tantivy
    holder,     \* holder[d]: who holds the flock on the lock file of d
    indexer,    \* indexer[d]: who has the IndexWriter of d
    \* the processes
    cmd,        \* the command a process runs
    pc,         \* its next step
    why,        \* why its command failed
    lockDir,    \* the directory whose lock file it has open
    storeDir,   \* the directory whose index.toml or engines it has open
    mine,       \* Store.identity
    \* bookkeeping
    crashes, removals

diskVars == <<dir, made, identity>>
lockVars == <<holder, indexer>>
procVars == <<cmd, pc, why, lockDir, storeDir, mine>>
boundVars == <<crashes, removals>>
vars == <<diskVars, lockVars, procVars, boundVars>>

Commands == {"init", "index", "search"}
Locked == {"truncate", "fill", "identity", "engines", "open", "unlock"}
Ended == {"done", "failed", "killed"}
Steps == {"idle", "check", "mkdir", "lockfile", "flock"} \cup Locked \cup Ended
Reasons == {"none", "exists", "not found", "torn", "gone", "busy"}
Dirs == 0 .. MaxRemovals + 1

TypeOK ==
    /\ dir \in {0, made} /\ made = IF dir = 0 THEN removals ELSE removals + 1
    /\ identity \in Procs \cup {"absent", "torn"}
    /\ holder \in [Dirs -> Procs \cup {NoProc}]
    /\ indexer \in [Dirs -> Procs \cup {NoProc}]
    /\ cmd \in [Procs -> Commands]
    /\ pc \in [Procs -> Steps]
    /\ why \in [Procs -> Reasons]
    /\ lockDir \in [Procs -> 0 .. made] /\ storeDir \in [Procs -> 0 .. made]
    /\ mine \in [Procs -> Procs \cup {NoProc}]
    /\ crashes \in 0 .. MaxCrashes /\ removals \in 0 .. MaxRemovals

Init ==
    /\ dir = 0 /\ made = 0 /\ identity = "absent"
    /\ holder = [d \in Dirs |-> NoProc]
    /\ indexer = [d \in Dirs |-> NoProc]
    /\ cmd = [p \in Procs |-> "init"]
    /\ pc = [p \in Procs |-> "idle"]
    /\ why = [p \in Procs |-> "none"]
    /\ lockDir = [p \in Procs |-> 0] /\ storeDir = [p \in Procs |-> 0]
    /\ mine = [p \in Procs |-> NoProc]
    /\ crashes = 0 /\ removals = 0

-----------------------------------------------------------------------------
Goto(p, step) == pc' = [pc EXCEPT ![p] = step]

Without(locks, p) == [d \in DOMAIN locks |-> IF locks[d] = p THEN NoProc ELSE locks[d]]

\* Mutant of Fail: the lock outlives the error.
FailLocked(p, reason) ==
    /\ Goto(p, "failed")
    /\ why' = [why EXCEPT ![p] = reason]
    /\ UNCHANGED <<diskVars, lockVars, cmd, lockDir, storeDir, mine, boundVars>>

\* An error returns from create or open and drops the locks taken so far.
Fail(p, reason) ==
    /\ Goto(p, "failed")
    /\ why' = [why EXCEPT ![p] = reason]
    /\ holder' = Without(holder, p)
    /\ UNCHANGED <<diskVars, indexer, cmd, lockDir, storeDir, mine, boundVars>>

Start(p, c) ==
    /\ pc[p] = "idle"
    /\ cmd' = [cmd EXCEPT ![p] = c]
    /\ Goto(p, "check")
    /\ UNCHANGED <<diskVars, lockVars, why, lockDir, storeDir, mine, boundVars>>

\* create wants no index.toml, open wants one; neither holds the lock yet,
\* and a torn file counts as one.
Check(p) ==
    /\ pc[p] = "check"
    /\ \/ /\ cmd[p] = "init" /\ identity # "absent"
          /\ Fail(p, "exists")
       \/ /\ cmd[p] # "init" /\ identity = "absent"
          /\ Fail(p, "not found")
       \/ /\ (cmd[p] = "init") <=> (identity = "absent")
          /\ Goto(p, IF cmd[p] = "init" THEN "mkdir" ELSE "lockfile")
          /\ UNCHANGED <<diskVars, lockVars, cmd, why, lockDir, storeDir, mine,
                         boundVars>>

MakeDir(p) ==
    /\ pc[p] = "mkdir"
    /\ IF dir = 0
          THEN made' = made + 1 /\ dir' = made + 1
          ELSE UNCHANGED <<made, dir>>
    /\ Goto(p, "lockfile")
    /\ UNCHANGED <<identity, lockVars, cmd, why, lockDir, storeDir, mine,
                   boundVars>>

OpenLockFile(p) ==
    /\ pc[p] = "lockfile"
    /\ \/ dir = 0 /\ Fail(p, "gone")
       \/ /\ dir # 0
          /\ lockDir' = [lockDir EXCEPT ![p] = dir]
          /\ Goto(p, "flock")
          /\ UNCHANGED <<diskVars, lockVars, cmd, why, storeDir, mine, boundVars>>

\* Mutant of Flock: the guard is dropped at once (`let _ = lock::acquire(..)`).
FlockDropped(p) ==
    /\ pc[p] = "flock"
    /\ holder[lockDir[p]] = NoProc
    /\ Goto(p, IF cmd[p] = "init" THEN "truncate" ELSE "identity")
    /\ UNCHANGED <<diskVars, lockVars, cmd, why, lockDir, storeDir, mine, boundVars>>

\* flock(LOCK_EX) waits until nobody else holds it.
Flock(p) ==
    /\ pc[p] = "flock"
    /\ holder[lockDir[p]] = NoProc
    /\ holder' = [holder EXCEPT ![lockDir[p]] = p]
    /\ Goto(p, IF cmd[p] = "init" THEN "truncate" ELSE "identity")
    /\ UNCHANGED <<diskVars, indexer, cmd, why, lockDir, storeDir, mine, boundVars>>

\* write_identity, first half: fs::write opens index.toml with O_TRUNC,
\* whether or not someone else has written one since the check.
Truncate(p) ==
    /\ pc[p] = "truncate"
    /\ \/ dir = 0 /\ Fail(p, "gone")
       \/ /\ dir # 0
          /\ identity' = "torn"
          /\ storeDir' = [storeDir EXCEPT ![p] = dir]
          /\ Goto(p, "fill")
          /\ UNCHANGED <<dir, made, lockVars, cmd, why, lockDir, mine, boundVars>>

\* Second half: the bytes go to the file it opened, wherever that is now.
Fill(p) ==
    /\ pc[p] = "fill"
    /\ identity' = IF storeDir[p] = dir THEN p ELSE identity
    /\ mine' = [mine EXCEPT ![p] = p]
    /\ Goto(p, "engines")
    /\ UNCHANGED <<dir, made, lockVars, cmd, why, lockDir, storeDir, boundVars>>

\* open_identity
LoadIdentity(p) ==
    /\ pc[p] = "identity"
    /\ \/ identity = "absent" /\ Fail(p, "gone")
       \/ identity = "torn" /\ Fail(p, "torn")
       \/ /\ identity \in Procs
          /\ mine' = [mine EXCEPT ![p] = identity]
          /\ storeDir' = [storeDir EXCEPT ![p] = dir]
          /\ Goto(p, "engines")
          /\ UNCHANGED <<diskVars, lockVars, cmd, why, lockDir, boundVars>>

\* Mutant of OpenEngines: the IndexWriter is not made until it is needed.
OpenEnginesLazily(p) ==
    /\ pc[p] = "engines"
    /\ dir # 0
    /\ storeDir' = [storeDir EXCEPT ![p] = dir]
    /\ Goto(p, "open")
    /\ UNCHANGED <<diskVars, lockVars, cmd, why, lockDir, mine, boundVars>>

\* Open or create the databases and the index by path.  tantivy refuses a
\* second IndexWriter at once.
OpenEngines(p) ==
    /\ pc[p] = "engines"
    /\ \/ dir = 0 /\ Fail(p, "gone")
       \/ dir # 0 /\ indexer[dir] # NoProc /\ Fail(p, "busy")
       \/ /\ dir # 0 /\ indexer[dir] = NoProc
          /\ indexer' = [indexer EXCEPT ![dir] = p]
          /\ storeDir' = [storeDir EXCEPT ![p] = dir]
          /\ Goto(p, "open")
          /\ UNCHANGED <<diskVars, holder, cmd, why, lockDir, mine, boundVars>>

\* Mutant of DropEngines: the lock is the first field of Store.
DropLockFirst(p) ==
    /\ pc[p] = "open"
    /\ holder' = Without(holder, p)
    /\ Goto(p, "unlock")
    /\ UNCHANGED <<diskVars, indexer, cmd, why, lockDir, storeDir, mine, boundVars>>

\* The command is through and drops its Store.  Fields drop in the order
\* they are declared: the engines first, the lock last.
DropEngines(p) ==
    /\ pc[p] = "open"
    /\ indexer' = Without(indexer, p)
    /\ Goto(p, "unlock")
    /\ UNCHANGED <<diskVars, holder, cmd, why, lockDir, storeDir, mine, boundVars>>

DropLock(p) ==
    /\ pc[p] = "unlock"
    /\ holder' = Without(holder, p)
    /\ Goto(p, "done")
    /\ UNCHANGED <<diskVars, indexer, cmd, why, lockDir, storeDir, mine, boundVars>>

\* The kernel closes a killed process's files, which frees its locks.
Kill(p) ==
    /\ pc[p] \notin Ended \cup {"idle"}
    /\ crashes < MaxCrashes
    /\ crashes' = crashes + 1
    /\ holder' = Without(holder, p)
    /\ indexer' = Without(indexer, p)
    /\ Goto(p, "killed")
    /\ UNCHANGED <<diskVars, cmd, why, lockDir, storeDir, mine, removals>>

\* rm -r .ndex
RemoveIndex ==
    /\ dir # 0
    /\ removals < MaxRemovals
    /\ removals' = removals + 1
    /\ dir' = 0
    /\ identity' = "absent"
    /\ UNCHANGED <<made, lockVars, procVars, crashes>>

Step(p) ==
    \/ Check(p) \/ MakeDir(p) \/ OpenLockFile(p) \/ Flock(p)
    \/ Truncate(p) \/ Fill(p) \/ LoadIdentity(p) \/ OpenEngines(p)
    \/ DropEngines(p) \/ DropLock(p)

AllEnded == \A p \in Procs : pc[p] \in Ended

Next ==
    \/ \E p \in Procs : (\E c \in Commands : Start(p, c)) \/ Step(p) \/ Kill(p)
    \/ RemoveIndex
    \/ AllEnded /\ UNCHANGED vars

Spec == Init /\ [][Next]_vars

\* The operating system runs every process, and gives a free lock to one
\* that waits for it.  Each runs one command, so weak fairness is enough:
\* the lock is not taken from under a waiter for ever.
FairSpec == Spec /\ \A p \in Procs : WF_vars(Step(p))

-----------------------------------------------------------------------------
(***************************************************************************)
(* What holds.                                                             *)
(***************************************************************************)

\* No two Stores are open on one directory, even when the user removed the
\* directory under a process that waits for its lock: the second lock, of
\* the IndexWriter, catches what the first lets through.
OneStoreOpen ==
    \A p, q \in Procs :
        pc[p] = "open" /\ pc[q] = "open" /\ storeDir[p] = storeDir[q] => p = q

\* The IndexWriter is never found busy while the directory stays: whoever
\* gets the flock comes after the last owner dropped its engines.
BusyOnlyAfterRemoval == \A p \in Procs : why[p] = "busy" => removals > 0

\* No command stumbles over a half-written index.toml, though open looks for
\* the file without the lock, unless some init was killed half way or the
\* user removed the directory meanwhile.
TornOnlyByAccident == \A p \in Procs : why[p] = "torn" => crashes + removals > 0

\* An open Store goes by the identity that is on disk: nobody replaces
\* index.toml under it.
OpenStoreHasIdentity ==
    \A p \in Procs : pc[p] = "open" /\ removals = 0 => mine[p] = identity

\* Every command ends, whoever else is killed, holding or waiting.
EveryCommandEnds == \A p \in Procs : pc[p] = "check" ~> pc[p] \in Ended

-----------------------------------------------------------------------------
(***************************************************************************)
(* Why: what the two locks mean at every step.                             *)
(***************************************************************************)

FlockMeans ==
    /\ \A p \in Procs : pc[p] \in Locked => holder[lockDir[p]] = p
    /\ \A d \in Dirs : holder[d] # NoProc =>
          pc[holder[d]] \in Locked /\ lockDir[holder[d]] = d

IndexerMeans ==
    /\ \A p \in Procs : pc[p] = "open" => indexer[storeDir[p]] = p
    /\ \A d \in Dirs : indexer[d] # NoProc =>
          pc[indexer[d]] = "open" /\ storeDir[indexer[d]] = d

\* As long as the user does not remove it, there is one directory, one
\* process past its lock, and that process leaves index.toml whole.
NeverRemoved ==
    /\ dir = made
    /\ \A p \in Procs : pc[p] \in Locked \cup {"flock"} => lockDir[p] = 1
    /\ \A p \in Procs : pc[p] \in {"fill", "open"} => storeDir[p] = dir
    /\ \A p \in Procs : pc[p] = "fill" => identity = "torn"
    /\ identity = "torn" => crashes > 0 \/ \E p \in Procs : pc[p] = "fill"
    /\ \A p \in Procs : pc[p] \in {"engines", "open"} => mine[p] = identity

LockInv ==
    /\ FlockMeans
    /\ IndexerMeans
    /\ removals = 0 => NeverRemoved
    /\ BusyOnlyAfterRemoval
    /\ TornOnlyByAccident

=============================================================================
