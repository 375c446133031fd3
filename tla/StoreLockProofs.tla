-------------------------- MODULE StoreLockProofs --------------------------
(***************************************************************************)
(* Proofs about the locks of a store, for any number of processes, kills   *)
(* and removals.                                                           *)
(***************************************************************************)
EXTENDS StoreLock, TLAPS

\* A step by one process, or the user's.
LEMMA Actors ==
    ASSUME [Next]_vars
    PROVE  \/ UNCHANGED vars
           \/ RemoveIndex
           \/ \E p \in Procs :
                 \/ \E c \in Commands : Start(p, c)
                 \/ Check(p) \/ MakeDir(p) \/ OpenLockFile(p) \/ Flock(p)
                 \/ Truncate(p) \/ Fill(p) \/ LoadIdentity(p)
                 \/ OpenEngines(p) \/ DropEngines(p) \/ DropLock(p) \/ Kill(p)
  BY DEF Next, Step

\* Releasing a process's locks leaves a table of locks.
LEMMA WithoutType ==
    ASSUME NEW locks \in [Dirs -> Procs \cup {NoProc}], NEW p \in Procs
    PROVE  /\ Without(locks, p) \in [Dirs -> Procs \cup {NoProc}]
           /\ \A d \in Dirs :
                 Without(locks, p)[d] = IF locks[d] = p THEN NoProc ELSE locks[d]
  BY DEF Without

\* An error step keeps the types.
LEMMA FailType ==
    ASSUME TypeOK, NEW p \in Procs, NEW r \in Reasons, Fail(p, r)
    PROVE  TypeOK'
<1>1. holder' \in [Dirs -> Procs \cup {NoProc}]
  BY WithoutType DEF Fail, TypeOK
<1>2. pc' \in [Procs -> Steps] /\ why' \in [Procs -> Reasons]
  BY DEF Fail, Goto, TypeOK, Steps, Ended
<1>3. QED
  BY <1>1, <1>2 DEF Fail, TypeOK, diskVars, boundVars

\* TypeOK is kept by every step.
LEMMA TypeNext ==
    ASSUME TypeOK, [Next]_vars
    PROVE  TypeOK'
<1> USE DEF TypeOK
<1>1. CASE UNCHANGED vars
  BY <1>1 DEF vars, diskVars, lockVars, procVars, boundVars
<1>2. CASE RemoveIndex
  BY <1>2, LimitsAssumption DEF RemoveIndex, lockVars, procVars
<1>3. ASSUME NEW p \in Procs, NEW s \in Steps, Goto(p, s)
      PROVE  pc' \in [Procs -> Steps]
  BY <1>3 DEF Goto
<1>4. ASSUME NEW p \in Procs, NEW c \in Commands, Start(p, c)
      PROVE  TypeOK'
  <2>1. pc' \in [Procs -> Steps]
    BY <1>3, <1>4 DEF Start, Steps
  <2>2. QED
    BY <1>4, <2>1 DEF Start, diskVars, lockVars, boundVars
<1>5. ASSUME NEW p \in Procs, Check(p)
      PROVE  TypeOK'
  <2>1. CASE Fail(p, "exists") \/ Fail(p, "not found")
    BY <2>1, FailType DEF Reasons
  <2>2. CASE /\ Goto(p, IF cmd[p] = "init" THEN "mkdir" ELSE "lockfile")
             /\ UNCHANGED <<diskVars, lockVars, cmd, why, lockDir, storeDir, mine,
                            boundVars>>
    <3>1. pc' \in [Procs -> Steps]
      BY <1>3, <2>2 DEF Steps
    <3>2. QED
      BY <2>2, <3>1 DEF diskVars, lockVars, boundVars
  <2>3. QED
    BY <1>5, <2>1, <2>2 DEF Check
<1>6. ASSUME NEW p \in Procs, MakeDir(p)
      PROVE  TypeOK'
  <2>1. pc' \in [Procs -> Steps]
    BY <1>3, <1>6 DEF MakeDir, Steps
  <2>2. /\ dir' \in {0, made'} /\ removals \in Nat /\ made \in Nat /\ made <= made'
        /\ made' = IF dir' = 0 THEN removals ELSE removals + 1
    BY <1>6, LimitsAssumption DEF MakeDir
  <2>3. QED
    BY <1>6, <2>1, <2>2 DEF MakeDir, lockVars, boundVars
<1>7. ASSUME NEW p \in Procs, OpenLockFile(p)
      PROVE  TypeOK'
  <2>1. CASE Fail(p, "gone")
    BY <2>1, FailType DEF Reasons
  <2>2. CASE ~Fail(p, "gone")
    <3>1. pc' \in [Procs -> Steps]
      BY <1>3, <1>7, <2>2 DEF OpenLockFile, Steps
    <3>2. QED
      BY <1>7, <2>2, <3>1 DEF OpenLockFile, diskVars, lockVars, boundVars
  <2>3. QED
    BY <2>1, <2>2
<1>8. ASSUME NEW p \in Procs, Flock(p)
      PROVE  TypeOK'
  <2>1. pc' \in [Procs -> Steps]
    BY <1>3, <1>8 DEF Flock, Steps, Locked
  <2>2. QED
    BY <1>8, <2>1 DEF Flock, diskVars, boundVars
<1>9. ASSUME NEW p \in Procs, Truncate(p)
      PROVE  TypeOK'
  <2>1. CASE Fail(p, "gone")
    BY <2>1, FailType DEF Reasons
  <2>2. CASE ~Fail(p, "gone")
    <3>1. pc' \in [Procs -> Steps]
      BY <1>3, <1>9, <2>2 DEF Truncate, Steps, Locked
    <3>2. QED
      BY <1>9, <2>2, <3>1 DEF Truncate, lockVars, boundVars
  <2>3. QED
    BY <2>1, <2>2
<1>10. ASSUME NEW p \in Procs, Fill(p)
       PROVE  TypeOK'
  <2>1. pc' \in [Procs -> Steps]
    BY <1>3, <1>10 DEF Fill, Steps, Locked
  <2>2. QED
    BY <1>10, <2>1 DEF Fill, lockVars, boundVars
<1>11. ASSUME NEW p \in Procs, LoadIdentity(p)
       PROVE  TypeOK'
  <2>1. CASE Fail(p, "gone") \/ Fail(p, "torn")
    BY <2>1, FailType DEF Reasons
  <2>2. CASE ~(Fail(p, "gone") \/ Fail(p, "torn"))
    <3>1. pc' \in [Procs -> Steps]
      BY <1>3, <1>11, <2>2 DEF LoadIdentity, Steps, Locked
    <3>2. QED
      BY <1>11, <2>2, <3>1 DEF LoadIdentity, diskVars, lockVars, boundVars
  <2>3. QED
    BY <2>1, <2>2
<1>12. ASSUME NEW p \in Procs, OpenEngines(p)
       PROVE  TypeOK'
  <2>1. CASE Fail(p, "gone") \/ Fail(p, "busy")
    BY <2>1, FailType DEF Reasons
  <2>2. CASE ~(Fail(p, "gone") \/ Fail(p, "busy"))
    <3>1. pc' \in [Procs -> Steps]
      BY <1>3, <1>12, <2>2 DEF OpenEngines, Steps, Locked
    <3>2. QED
      BY <1>12, <2>2, <3>1 DEF OpenEngines, diskVars, boundVars
  <2>3. QED
    BY <2>1, <2>2
<1>13. ASSUME NEW p \in Procs, DropEngines(p) \/ DropLock(p) \/ Kill(p)
       PROVE  TypeOK'
  <2>1. pc' \in [Procs -> Steps]
    BY <1>3, <1>13 DEF DropEngines, DropLock, Kill, Steps, Locked, Ended
  <2>2. /\ holder' \in [Dirs -> Procs \cup {NoProc}]
        /\ indexer' \in [Dirs -> Procs \cup {NoProc}]
    <3>1. /\ Without(holder, p) \in [Dirs -> Procs \cup {NoProc}]
          /\ Without(indexer, p) \in [Dirs -> Procs \cup {NoProc}]
      BY WithoutType
    <3>2. holder' \in {holder, Without(holder, p)} /\ indexer' \in {indexer, Without(indexer, p)}
      BY <1>13 DEF DropEngines, DropLock, Kill
    <3>3. QED
      BY <3>1, <3>2
  <2>3. crashes' \in 0 .. MaxCrashes /\ removals' = removals
    BY <1>13, LimitsAssumption DEF DropEngines, DropLock, Kill, boundVars
  <2>4. QED
    BY <1>13, <2>1, <2>2, <2>3 DEF DropEngines, DropLock, Kill, diskVars
<1>14. QED
  BY <1>1, <1>2, <1>4, <1>5, <1>6, <1>7, <1>8, <1>9, <1>10, <1>11, <1>12,
     <1>13, Actors

\* The variables stay in their domains; in particular no more directories
\* are made than were removed, and one.
THEOREM LockTypeCorrect == Spec => []TypeOK
<1>1. Init => TypeOK
  BY LimitsAssumption
     DEF Init, TypeOK, Commands, Steps, Reasons, Dirs
<1>2. TypeOK /\ [Next]_vars => TypeOK'
  BY TypeNext
<1>3. QED
  BY <1>1, <1>2, PTL DEF Spec

-----------------------------------------------------------------------------
(***************************************************************************)
(* What the locks mean.                                                    *)
(***************************************************************************)

\* How a step touches the flocks: not at all; a process lets go of its own;
\* a process opens a lock file; a process gets the lock.
LEMMA FlockStep ==
    ASSUME TypeOK, [Next]_vars
    PROVE  \/ /\ UNCHANGED <<holder, lockDir>>
              /\ \A q \in Procs : pc'[q] \in Locked <=> pc[q] \in Locked
           \/ \E p \in Procs : /\ holder' = Without(holder, p)
                               /\ UNCHANGED lockDir
                               /\ pc'[p] \notin Locked
                               /\ \A q \in Procs \ {p} : pc'[q] = pc[q]
           \/ \E p \in Procs : OpenLockFile(p) /\ dir # 0
           \/ \E p \in Procs : Flock(p)
<1> USE DEF TypeOK, Locked, Goto
<1>1. CASE UNCHANGED vars \/ RemoveIndex
  BY <1>1 DEF vars, RemoveIndex, procVars, lockVars
<1>2. ASSUME NEW p \in Procs, NEW r, Fail(p, r)
      PROVE  /\ holder' = Without(holder, p)
             /\ UNCHANGED lockDir
             /\ pc'[p] \notin Locked
             /\ \A q \in Procs \ {p} : pc'[q] = pc[q]
  BY <1>2 DEF Fail
<1>3. ASSUME NEW p \in Procs, DropLock(p) \/ Kill(p)
      PROVE  /\ holder' = Without(holder, p)
             /\ UNCHANGED lockDir
             /\ pc'[p] \notin Locked
             /\ \A q \in Procs \ {p} : pc'[q] = pc[q]
  BY <1>3 DEF DropLock, Kill
<1>4. ASSUME NEW p \in Procs,
             (\E c \in Commands : Start(p, c)) \/ MakeDir(p) \/ Fill(p) \/ DropEngines(p)
      PROVE  /\ UNCHANGED <<holder, lockDir>>
             /\ \A q \in Procs : pc'[q] \in Locked <=> pc[q] \in Locked
  BY <1>4 DEF Start, MakeDir, Fill, DropEngines, lockVars
<1>5. ASSUME NEW p \in Procs,
             Check(p) \/ Truncate(p) \/ LoadIdentity(p) \/ OpenEngines(p)
      PROVE  \/ \E r : Fail(p, r)
             \/ /\ UNCHANGED <<holder, lockDir>>
                /\ \A q \in Procs : pc'[q] \in Locked <=> pc[q] \in Locked
  BY <1>5 DEF Check, Truncate, LoadIdentity, OpenEngines, lockVars
<1>6. ASSUME NEW p \in Procs, OpenLockFile(p)
      PROVE  dir # 0 \/ Fail(p, "gone")
  BY <1>6 DEF OpenLockFile
<1>7. QED
  BY <1>1, <1>2, <1>3, <1>4, <1>5, <1>6, Actors

\* A process past the flock holds it, and nobody else does.
LEMMA FlockMeansNext ==
    ASSUME TypeOK, FlockMeans, [Next]_vars
    PROVE  FlockMeans'
<1> USE DEF TypeOK, FlockMeans
<1>1. CASE /\ UNCHANGED <<holder, lockDir>>
           /\ \A q \in Procs : pc'[q] \in Locked <=> pc[q] \in Locked
  BY <1>1
<1>2. ASSUME NEW p \in Procs, holder' = Without(holder, p), UNCHANGED lockDir,
             pc'[p] \notin Locked, \A q \in Procs \ {p} : pc'[q] = pc[q]
      PROVE  FlockMeans'
  <2>1. \A d \in Dirs : holder'[d] = IF holder[d] = p THEN NoProc ELSE holder[d]
    BY <1>2, WithoutType
  <2>2. \A q \in Procs : lockDir[q] \in Dirs
    BY LimitsAssumption DEF Dirs
  <2>3. QED
    BY <1>2, <2>1, <2>2, ProcsAssumption
<1>3. ASSUME NEW p \in Procs, OpenLockFile(p), dir # 0
      PROVE  FlockMeans'
  BY <1>3 DEF OpenLockFile, Fail, Goto, Locked, lockVars
<1>4. ASSUME NEW p \in Procs, Flock(p)
      PROVE  FlockMeans'
  <2>1. lockDir[p] \in Dirs
    BY LimitsAssumption DEF Dirs
  <2>2. pc[p] \notin Locked /\ pc'[p] \in Locked /\ UNCHANGED lockDir
    BY <1>4 DEF Flock, Goto, Locked
  <2>3. \A d \in Dirs : holder'[d] = IF d = lockDir[p] THEN p ELSE holder[d]
    BY <1>4 DEF Flock
  <2>4. \A q \in Procs \ {p} : pc'[q] = pc[q]
    BY <1>4 DEF Flock, Goto
  <2>5. \A q \in Procs : lockDir[q] \in Dirs
    BY LimitsAssumption DEF Dirs
  <2>6. holder[lockDir[p]] = NoProc
    BY <1>4 DEF Flock
  <2>7. QED
    BY <2>1, <2>2, <2>3, <2>4, <2>5, <2>6, ProcsAssumption
<1>5. QED
  BY <1>1, <1>2, <1>3, <1>4, FlockStep

\* How a step touches the IndexWriters, and who has a Store open where.
LEMMA IndexerStep ==
    ASSUME TypeOK, [Next]_vars
    PROVE  \/ /\ UNCHANGED indexer
              /\ \A q \in Procs :
                    /\ pc'[q] = "open" <=> pc[q] = "open"
                    /\ pc[q] = "open" => storeDir'[q] = storeDir[q]
           \/ \E p \in Procs : /\ indexer' = Without(indexer, p)
                               /\ UNCHANGED storeDir
                               /\ pc'[p] # "open"
                               /\ \A q \in Procs \ {p} : pc'[q] = pc[q]
           \/ \E p \in Procs : /\ dir # 0 /\ indexer[dir] = NoProc
                               /\ indexer' = [indexer EXCEPT ![dir] = p]
                               /\ storeDir' = [storeDir EXCEPT ![p] = dir]
                               /\ pc[p] # "open"
                               /\ pc' = [pc EXCEPT ![p] = "open"]
<1> USE DEF TypeOK, Goto
<1>1. CASE UNCHANGED vars \/ RemoveIndex
  BY <1>1 DEF vars, RemoveIndex, procVars, lockVars
<1>2. ASSUME NEW p \in Procs, NEW r, Fail(p, r), pc[p] # "open"
      PROVE  /\ UNCHANGED indexer
             /\ \A q \in Procs :
                    /\ pc'[q] = "open" <=> pc[q] = "open"
                    /\ pc[q] = "open" => storeDir'[q] = storeDir[q]
  BY <1>2 DEF Fail
<1>3. ASSUME NEW p \in Procs, DropEngines(p) \/ Kill(p)
      PROVE  /\ indexer' = Without(indexer, p)
             /\ UNCHANGED storeDir
             /\ pc'[p] # "open"
             /\ \A q \in Procs \ {p} : pc'[q] = pc[q]
  BY <1>3 DEF DropEngines, Kill
<1>4. ASSUME NEW p \in Procs,
             (\E c \in Commands : Start(p, c)) \/ MakeDir(p) \/ Fill(p)
                \/ Flock(p) \/ DropLock(p)
      PROVE  /\ UNCHANGED indexer
             /\ \A q \in Procs :
                    /\ pc'[q] = "open" <=> pc[q] = "open"
                    /\ pc[q] = "open" => storeDir'[q] = storeDir[q]
  BY <1>4 DEF Start, MakeDir, Fill, Flock, DropLock, lockVars
<1>5. ASSUME NEW p \in Procs,
             Check(p) \/ OpenLockFile(p) \/ Truncate(p) \/ LoadIdentity(p)
      PROVE  \/ pc[p] # "open" /\ \E r : Fail(p, r)
             \/ /\ UNCHANGED indexer
                /\ \A q \in Procs :
                      /\ pc'[q] = "open" <=> pc[q] = "open"
                      /\ pc[q] = "open" => storeDir'[q] = storeDir[q]
  BY <1>5 DEF Check, OpenLockFile, Truncate, LoadIdentity, lockVars
<1>6. ASSUME NEW p \in Procs, OpenEngines(p)
      PROVE  \/ pc[p] # "open" /\ \E r : Fail(p, r)
             \/ /\ dir # 0 /\ indexer[dir] = NoProc
                /\ indexer' = [indexer EXCEPT ![dir] = p]
                /\ storeDir' = [storeDir EXCEPT ![p] = dir]
                /\ pc[p] # "open"
                /\ pc' = [pc EXCEPT ![p] = "open"]
  BY <1>6 DEF OpenEngines
<1>7. QED
  BY <1>1, <1>2, <1>3, <1>4, <1>5, <1>6, Actors

\* Whoever has a Store open has the IndexWriter of its directory.
LEMMA IndexerMeansNext ==
    ASSUME TypeOK, IndexerMeans, [Next]_vars
    PROVE  IndexerMeans'
<1> USE DEF TypeOK, IndexerMeans
<1>1. dir \in Dirs /\ \A q \in Procs : storeDir[q] \in Dirs
  BY LimitsAssumption DEF Dirs
<1>2. CASE /\ UNCHANGED indexer
           /\ \A q \in Procs :
                 /\ pc'[q] = "open" <=> pc[q] = "open"
                 /\ pc[q] = "open" => storeDir'[q] = storeDir[q]
  BY <1>2
<1>3. ASSUME NEW p \in Procs, indexer' = Without(indexer, p), UNCHANGED storeDir,
             pc'[p] # "open", \A q \in Procs \ {p} : pc'[q] = pc[q]
      PROVE  IndexerMeans'
  <2>1. \A d \in Dirs : indexer'[d] = IF indexer[d] = p THEN NoProc ELSE indexer[d]
    BY <1>3, WithoutType
  <2>2. QED
    BY <1>1, <1>3, <2>1, ProcsAssumption
<1>4. ASSUME NEW p \in Procs, indexer[dir] = NoProc,
             indexer' = [indexer EXCEPT ![dir] = p],
             storeDir' = [storeDir EXCEPT ![p] = dir],
             pc[p] # "open", pc' = [pc EXCEPT ![p] = "open"]
      PROVE  IndexerMeans'
  <2>1. /\ \A d \in Dirs : indexer'[d] = IF d = dir THEN p ELSE indexer[d]
        /\ \A q \in Procs : storeDir'[q] = IF q = p THEN dir ELSE storeDir[q]
        /\ \A q \in Procs : pc'[q] = IF q = p THEN "open" ELSE pc[q]
    BY <1>4
  <2>2. QED
    BY <1>1, <1>4, <2>1, ProcsAssumption
<1>5. QED
  BY <1>2, <1>3, <1>4, IndexerStep

-----------------------------------------------------------------------------
(***************************************************************************)
(* While the user leaves .ndex/ where it is.                               *)
(***************************************************************************)

\* One directory, so one lock, so one process past it.
LEMMA Alone ==
    ASSUME TypeOK, FlockMeans, NeverRemoved, removals = 0,
           NEW p \in Procs, pc[p] \in Locked
    PROVE  /\ dir = 1
           /\ \A q \in Procs : pc[q] \in Locked => q = p
<1>1. lockDir[p] = 1 /\ holder[1] = p
  BY DEF FlockMeans, NeverRemoved
<1>2. dir = 1
  <2>1. lockDir[p] \in 0 .. made /\ made = dir /\ dir \in {0, 1}
    BY DEF TypeOK, NeverRemoved
  <2>2. QED
    BY <1>1, <2>1
<1>3. \A q \in Procs : pc[q] \in Locked => q = p
  BY <1>1 DEF FlockMeans, NeverRemoved
<1>4. QED
  BY <1>2, <1>3

\* An error leaves the rest as it was.
LEMMA NeverRemovedFail ==
    ASSUME TypeOK, NeverRemoved, NEW p \in Procs, NEW r, Fail(p, r), pc[p] # "fill"
    PROVE  NeverRemoved'
  BY DEF TypeOK, NeverRemoved, Fail, Goto, Locked, diskVars, boundVars

\* NeverRemoved is kept by every step but a removal.
LEMMA NeverRemovedNext ==
    ASSUME TypeOK, FlockMeans, NeverRemoved, removals = 0, removals' = 0,
           [Next]_vars
    PROVE  NeverRemoved'
<1>0. dir = made /\ dir \in {0, 1}
  BY DEF TypeOK, NeverRemoved
<1>1. CASE UNCHANGED vars
  BY <1>1 DEF NeverRemoved, vars, diskVars, procVars, boundVars
<1>2. CASE RemoveIndex
  BY <1>2 DEF RemoveIndex
<1>3. ASSUME NEW p \in Procs,
             (\E c \in Commands : Start(p, c)) \/ DropEngines(p) \/ DropLock(p)
      PROVE  NeverRemoved'
  BY <1>3 DEF TypeOK, NeverRemoved, Start, DropEngines, DropLock, Goto, Locked,
              diskVars, boundVars
<1>4. ASSUME NEW p \in Procs, Check(p)
      PROVE  NeverRemoved'
  <2>1. CASE Fail(p, "exists") \/ Fail(p, "not found")
    BY <1>4, <2>1, NeverRemovedFail DEF Check
  <2>2. CASE ~(Fail(p, "exists") \/ Fail(p, "not found"))
    BY <1>4, <2>2 DEF TypeOK, NeverRemoved, Check, Goto, Locked, diskVars, boundVars
  <2>3. QED
    BY <2>1, <2>2
<1>5. ASSUME NEW p \in Procs, MakeDir(p)
      PROVE  NeverRemoved'
  <2>1. CASE dir # 0
    BY <1>5, <2>1 DEF TypeOK, NeverRemoved, MakeDir, Goto, Locked, boundVars
  <2>2. CASE dir = 0
    <3>1. \A q \in Procs : pc[q] \notin Locked \cup {"flock"}
      <4>1. \A q \in Procs : lockDir[q] \in 0 .. 0
        BY <1>0, <2>2 DEF TypeOK
      <4>2. \A q \in Procs : lockDir[q] # 1
        BY <4>1
      <4>3. QED
        BY <4>2 DEF NeverRemoved
    <3>2. \A q \in Procs : pc'[q] \notin Locked \cup {"flock"}
      BY <1>5, <3>1 DEF MakeDir, Goto, Locked, TypeOK
    <3>3. dir' = made' /\ identity' = identity /\ crashes' = crashes
      BY <1>5, <2>2 DEF MakeDir, boundVars
    <3>4. identity = "torn" => crashes > 0
      BY <3>1 DEF NeverRemoved, Locked
    <3>5. QED
      BY <3>2, <3>3, <3>4 DEF NeverRemoved, Locked
  <2>3. QED
    BY <2>1, <2>2
<1>6. ASSUME NEW p \in Procs, OpenLockFile(p)
      PROVE  NeverRemoved'
  <2>1. CASE Fail(p, "gone")
    BY <1>6, <2>1, NeverRemovedFail DEF OpenLockFile
  <2>2. CASE ~Fail(p, "gone")
    <3>1. dir = 1
      BY <1>0, <1>6, <2>2 DEF OpenLockFile
    <3>2. QED
      BY <1>6, <2>2, <3>1
         DEF TypeOK, NeverRemoved, OpenLockFile, Goto, Locked, diskVars, boundVars
  <2>3. QED
    BY <2>1, <2>2
<1>7. ASSUME NEW p \in Procs, Flock(p)
      PROVE  NeverRemoved'
  BY <1>7 DEF TypeOK, NeverRemoved, Flock, Goto, Locked, diskVars, boundVars
<1>8. ASSUME NEW p \in Procs, Truncate(p)
      PROVE  NeverRemoved'
  <2>1. pc[p] = "truncate" /\ pc[p] \in Locked
    BY <1>8 DEF Truncate, Locked
  <2>2. dir = 1 /\ \A q \in Procs : pc[q] \in Locked => q = p
    BY <2>1, Alone
  <2>3. QED
    BY <1>8, <2>1, <2>2
       DEF TypeOK, NeverRemoved, Truncate, Goto, Locked, lockVars, boundVars
<1>9. ASSUME NEW p \in Procs, Fill(p)
      PROVE  NeverRemoved'
  <2>1. pc[p] = "fill" /\ pc[p] \in Locked
    BY <1>9 DEF Fill, Locked
  <2>2. dir = 1 /\ \A q \in Procs : pc[q] \in Locked => q = p
    BY <2>1, Alone
  <2>3. identity' = p /\ p # "torn"
    BY <1>9, <2>1, ProcsAssumption DEF Fill, NeverRemoved
  <2>4. QED
    BY <1>9, <2>1, <2>2, <2>3
       DEF TypeOK, NeverRemoved, Fill, Goto, Locked, lockVars, boundVars
<1>10. ASSUME NEW p \in Procs, LoadIdentity(p)
       PROVE  NeverRemoved'
  <2>1. CASE Fail(p, "gone") \/ Fail(p, "torn")
    BY <1>10, <2>1, NeverRemovedFail DEF LoadIdentity
  <2>2. CASE ~(Fail(p, "gone") \/ Fail(p, "torn"))
    BY <1>10, <2>2
       DEF TypeOK, NeverRemoved, LoadIdentity, Goto, Locked, diskVars, boundVars
  <2>3. QED
    BY <2>1, <2>2
<1>11. ASSUME NEW p \in Procs, OpenEngines(p)
       PROVE  NeverRemoved'
  <2>1. CASE Fail(p, "gone") \/ Fail(p, "busy")
    BY <1>11, <2>1, NeverRemovedFail DEF OpenEngines
  <2>2. CASE ~(Fail(p, "gone") \/ Fail(p, "busy"))
    BY <1>11, <2>2
       DEF TypeOK, NeverRemoved, OpenEngines, Goto, Locked, diskVars, boundVars
  <2>3. QED
    BY <2>1, <2>2
<1>12. ASSUME NEW p \in Procs, Kill(p)
       PROVE  NeverRemoved'
  <2>1. crashes' > 0
    BY <1>12, LimitsAssumption DEF Kill, TypeOK
  <2>2. QED
    BY <1>12, <2>1 DEF TypeOK, NeverRemoved, Kill, Goto, Locked, diskVars
<1>13. QED
  BY <1>1, <1>2, <1>3, <1>4, <1>5, <1>6, <1>7, <1>8, <1>9, <1>10, <1>11,
     <1>12, Actors

\* A command fails for an IndexWriter it finds busy, or an index.toml it
\* finds torn, in no other way.
LEMMA Failures ==
    ASSUME TypeOK, [Next]_vars
    PROVE  /\ removals' \in {removals, removals + 1}
           /\ crashes' \in {crashes, crashes + 1}
           /\ \A p \in Procs :
                 \/ why'[p] = why[p]
                 \/ why'[p] \notin {"busy", "torn"}
                 \/ /\ why'[p] = "busy"
                    /\ pc[p] = "engines" /\ dir # 0 /\ indexer[dir] # NoProc
                 \/ why'[p] = "torn" /\ pc[p] = "identity" /\ identity = "torn"
<1> USE DEF TypeOK
<1>1. CASE UNCHANGED vars \/ RemoveIndex
  BY <1>1 DEF vars, procVars, boundVars, RemoveIndex
<1>2. ASSUME NEW p \in Procs,
             (\E c \in Commands : Start(p, c)) \/ MakeDir(p) \/ Flock(p) \/ Fill(p)
                \/ DropEngines(p) \/ DropLock(p) \/ Kill(p)
      PROVE  /\ UNCHANGED why
             /\ removals' \in {removals, removals + 1}
             /\ crashes' \in {crashes, crashes + 1}
  BY <1>2 DEF Start, MakeDir, Flock, Fill, DropEngines, DropLock, Kill, boundVars
<1>3. ASSUME NEW p \in Procs,
             Check(p) \/ OpenLockFile(p) \/ Truncate(p) \/ LoadIdentity(p)
                \/ OpenEngines(p)
      PROVE  /\ UNCHANGED boundVars
             /\ \A q \in Procs \ {p} : why'[q] = why[q]
             /\ \/ why'[p] = why[p]
                \/ why'[p] \notin {"busy", "torn"}
                \/ /\ why'[p] = "busy"
                   /\ pc[p] = "engines" /\ dir # 0 /\ indexer[dir] # NoProc
                \/ why'[p] = "torn" /\ pc[p] = "identity" /\ identity = "torn"
  BY <1>3 DEF Check, OpenLockFile, Truncate, LoadIdentity, OpenEngines, Fail,
              boundVars
<1>4. QED
  BY <1>1, <1>2, <1>3, Actors DEF boundVars

\* Nobody but the process itself is past the flock when it opens its
\* engines, so the IndexWriter is free.
LEMMA BusyNext ==
    ASSUME TypeOK, LockInv, [Next]_vars
    PROVE  BusyOnlyAfterRemoval'
<1> SUFFICES ASSUME NEW p \in Procs, why'[p] = "busy", removals' = 0
             PROVE  FALSE
  BY Failures DEF BusyOnlyAfterRemoval, TypeOK
<1>1. removals = 0
  BY Failures DEF TypeOK
<1>2. NeverRemoved /\ why[p] # "busy"
  BY <1>1 DEF LockInv, BusyOnlyAfterRemoval
<1>3. pc[p] = "engines" /\ dir # 0 /\ indexer[dir] # NoProc
  BY <1>2, Failures
<1>4. \A q \in Procs : pc[q] \in Locked => q = p
  BY <1>1, <1>2, <1>3, Alone DEF LockInv, Locked
<1>5. dir \in Dirs /\ indexer[dir] \in Procs
  BY <1>3, LimitsAssumption DEF TypeOK, Dirs
<1>6. pc[indexer[dir]] = "open"
  BY <1>3, <1>5 DEF LockInv, IndexerMeans
<1>7. QED
  BY <1>3, <1>4, <1>5, <1>6 DEF Locked

\* Nobody but the process itself is past the flock when it reads
\* index.toml, so no init is writing it.
LEMMA TornNext ==
    ASSUME TypeOK, LockInv, [Next]_vars
    PROVE  TornOnlyByAccident'
<1> SUFFICES ASSUME NEW p \in Procs, why'[p] = "torn",
                    ~(crashes' + removals' > 0)
             PROVE  FALSE
  BY DEF TornOnlyByAccident
<1>1. crashes = 0 /\ removals = 0
  <2>1. crashes \in Nat /\ removals \in Nat
    BY LimitsAssumption DEF TypeOK
  <2>2. QED
    BY <2>1, Failures
<1>2. NeverRemoved /\ why[p] # "torn"
  BY <1>1 DEF LockInv, TornOnlyByAccident
<1>3. pc[p] = "identity" /\ identity = "torn"
  BY <1>2, Failures
<1>4. \A q \in Procs : pc[q] \in Locked => q = p
  BY <1>1, <1>2, <1>3, Alone DEF LockInv, Locked
<1>5. PICK q \in Procs : pc[q] = "fill"
  BY <1>1, <1>2, <1>3 DEF NeverRemoved
<1>6. QED
  BY <1>3, <1>4, <1>5 DEF Locked

\* The two locks mean what they are for, whatever processes run, are
\* killed, or lose their directory.
THEOREM LockInvariant == Spec => []LockInv
<1>1. Init => LockInv
  BY ProcsAssumption, LimitsAssumption
     DEF Init, LockInv, FlockMeans, IndexerMeans, NeverRemoved, Locked,
         BusyOnlyAfterRemoval, TornOnlyByAccident
<1>2. ASSUME TypeOK, LockInv, [Next]_vars
      PROVE  LockInv'
  <2>1. FlockMeans' /\ IndexerMeans'
    BY <1>2, FlockMeansNext, IndexerMeansNext DEF LockInv
  <2>2. ASSUME removals' = 0
        PROVE  NeverRemoved'
    <3>1. removals = 0
      BY <1>2, <2>2, Failures DEF TypeOK
    <3>2. QED
      BY <1>2, <2>2, <3>1, NeverRemovedNext DEF LockInv
  <2>3. QED
    BY <1>2, <2>1, <2>2, BusyNext, TornNext DEF LockInv
<1>3. QED
  BY <1>1, <1>2, LockTypeCorrect, PTL DEF Spec

\* No two Stores are ever open on one .ndex/ directory.
THEOREM Exclusion == Spec => []OneStoreOpen
<1>1. IndexerMeans => OneStoreOpen
  BY DEF IndexerMeans, OneStoreOpen
<1>2. QED
  BY <1>1, LockInvariant, PTL DEF LockInv

\* An IndexWriter is found busy only after .ndex/ was removed.
THEOREM NotBusy == Spec => []BusyOnlyAfterRemoval
  BY LockInvariant, PTL DEF LockInv

\* An index.toml is found half-written only after a kill or a removal.
THEOREM NotTorn == Spec => []TornOnlyByAccident
  BY LockInvariant, PTL DEF LockInv

\* An open Store goes by the identity on disk.
THEOREM Identity == Spec => []OpenStoreHasIdentity
<1>1. LockInv => OpenStoreHasIdentity
  BY DEF LockInv, NeverRemoved, OpenStoreHasIdentity
<1>2. QED
  BY <1>1, LockInvariant, PTL
=============================================================================
