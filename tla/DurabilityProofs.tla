-------------------------- MODULE DurabilityProofs --------------------------
(***************************************************************************)
(* What Durability's runs check, for any number of files, versions, runs,  *)
(* power losses and killed processes.                                      *)
(***************************************************************************)
EXTENDS Durability, TLAPS

\* What each step needs to know of the run it belongs to: its file_ids are
\* apart, and each that it indexed has one document.
RunInv ==
    /\ \A doc \in known :
          /\ doc.id \in DOMAIN rows /\ rows[doc.id].path \notin todo
          /\ doc.id \notin gone /\ DocsOf(writer, doc.id) = {doc}
          /\ pc = "read" => doc.id # hand
    /\ \A id \in gone : rows[id].path \notin todo /\ (pc = "read" => id # hand)
    /\ pc = "read" => rows[hand].path \notin todo
    /\ pc = "finish" => docs = writer
    /\ pc \in {"idle", "close"} => known = {}

\* A path has the same file_id in two manifests.
Agree(r, s) == \A id \in DOMAIN r : id \in DOMAIN s /\ r[id].path = s[id].path

\* No document of set lies under the row of another path.
Own(set, r) == \A d \in set : d.id \in DOMAIN r /\ r[d.id].path = d.path

\* Before the first power loss every manifest that could come back is a part
\* of the current one, and all documents are their files' own.  After it, as
\* long as no process is killed, the writer never has another file's document
\* under an Indexed row.
OwnInv ==
    /\ losses = 0 =>
        /\ \A m \in wal : Agree(m[1], rows)
        /\ Own(docs, rows) /\ Own(writer, rows)
    /\ losses = 1 /\ kills = 0 =>
        \A d \in writer : d.id \in DOMAIN rows /\ rows[d.id].path # d.path =>
                             rows[d.id].status # "Indexed"

\* All times a power loss can bring back are times when runs ended.
EndInv ==
    /\ last = -1 \/ last \in ends
    /\ \A m \in wal : m[2] = -1 \/ m[2] \in ends
    /\ ~setBack => \A t \in ends : t <= now

IInv == TypeOK /\ RunInv /\ OwnInv /\ EndInv

-----------------------------------------------------------------------------
(***************************************************************************)
(* Types.                                                                  *)
(***************************************************************************)
LEMMA InitTypeOK == Init => TypeOK
  <1> SUFFICES ASSUME Init PROVE TypeOK
    OBVIOUS
  <1>1. rows = <<>> /\ rows \in Seq(Row) /\ last \in Int
    BY DEF Init
  <1>2. <<rows, last>> \in Seq(Row) \X Int /\ wal = {<<rows, last>>}
    BY <1>1 DEF Init
  <1> QED
    BY <1>1, <1>2 DEF Init, TypeOK

LEMMA Version ==
  ASSUME NEW n \in 0 .. MaxVersion, n # 0
  PROVE  n \in 1 .. MaxVersion
  BY DurabilityAssumption

\* A row written under the file_id it has, or under the next one.
LEMMA RowsWritten ==
  ASSUME NEW r \in Seq(Row), NEW row \in Row
  PROVE  /\ Append(r, row) \in Seq(Row) /\ DOMAIN r \subseteq DOMAIN Append(r, row)
         /\ Len(r) + 1 \in DOMAIN Append(r, row) /\ Len(r) + 1 \notin DOMAIN r
         /\ Append(r, row)[Len(r) + 1] = row
         /\ \A id \in DOMAIN r : Append(r, row)[id] = r[id]
         /\ \A id \in DOMAIN r :
               [r EXCEPT ![id] = row] \in Seq(Row) /\ DOMAIN [r EXCEPT ![id] = row] = DOMAIN r
  OBVIOUS

LEMMA StatusWritten ==
  ASSUME NEW r \in Seq(Row), NEW id \in DOMAIN r, NEW status \in Statuses
  PROVE  /\ [r EXCEPT ![id].status = status] \in Seq(Row)
         /\ DOMAIN [r EXCEPT ![id].status = status] = DOMAIN r
         /\ \A j \in DOMAIN r : [r EXCEPT ![id].status = status][j].path = r[j].path
         /\ [r EXCEPT ![id].status = status][id].status = status
  <1>1. r[id] \in Row
    OBVIOUS
  <1>2. [r[id] EXCEPT !.status = status] \in Row
    BY <1>1 DEF Row
  <1> QED
    BY <1>1, <1>2 DEF Row

LEMMA TypeStep == TypeOK /\ [Next]_vars => TypeOK'
  <1> SUFFICES ASSUME TypeOK, [Next]_vars PROVE TypeOK'
    OBVIOUS
  <1> USE DEF TypeOK
  <1>0. ASSUME NEW r \in Seq(Row), NEW l \in Int, Commits(r, l)
        PROVE  /\ rows' = r /\ rows' \in Seq(Row) /\ last' = l /\ last' \in Int
               /\ wal' \subseteq Seq(Row) \X Int
    <2>1. <<r, l>> \in Seq(Row) \X Int
      OBVIOUS
    <2> QED
      BY <1>0, <2>1 DEF Commits
  <1>1. CASE StartRun
    BY <1>1, DurabilityAssumption, SMTT(30) DEF StartRun, manifest, clock
  <1>2. CASE TakePath
    <2>1. PICK path \in Turn :
            /\ todo' = todo \ {path}
            /\ \/ UNCHANGED <<manifest, pc, hand>>
               \/ /\ tree[path] # 0
                  /\ pc' = "read"
                  /\ LET row == [path |-> path, version |-> tree[path], status |-> "Pending"]
                     IN  \/ /\ IdsOf(path) = {}
                            /\ hand' = Len(rows) + 1
                            /\ Commits(Append(rows, row), last)
                         \/ \E id \in IdsOf(path) :
                            /\ hand' = id
                            /\ Commits([rows EXCEPT ![id] = row], last)
      BY <1>2 DEF TakePath
    <2>2. path \in Paths
      BY <2>1 DEF Turn
    <2>3. CASE UNCHANGED <<manifest, pc, hand>>
      BY <1>2, <2>1, <2>3 DEF TakePath, manifest, clock, counters
    <2>4. CASE ~UNCHANGED <<manifest, pc, hand>>
      <3> DEFINE row == [path |-> path, version |-> tree[path], status |-> "Pending"]
      <3>1. row \in Row
        BY <2>1, <2>2, <2>4, DurabilityAssumption DEF Statuses, Row
      <3>2. \E r \in Seq(Row) : Commits(r, last) /\ DOMAIN rows \subseteq DOMAIN r
                                  /\ hand' \in DOMAIN r
        <4>1. CASE hand' = Len(rows) + 1 /\ Commits(Append(rows, row), last)
          BY <3>1, <4>1, RowsWritten
        <4>2. ASSUME NEW id \in IdsOf(path), hand' = id,
                     Commits([rows EXCEPT ![id] = row], last)
              PROVE  \E r \in Seq(Row) : Commits(r, last) /\ DOMAIN rows \subseteq DOMAIN r
                                  /\ hand' \in DOMAIN r
          <5>1. id \in DOMAIN rows
            BY DEF IdsOf
          <5> QED
            BY <3>1, <4>2, <5>1, RowsWritten, SMTT(30)
        <4> QED
          BY <2>1, <2>4, <4>1, <4>2
      <3>3. hand' \in Nat
        <4>1. Len(rows) + 1 \in Nat /\ DOMAIN rows \subseteq Nat
          OBVIOUS
        <4>2. IdsOf(path) \subseteq DOMAIN rows
          BY DEF IdsOf
        <4>3. hand' = Len(rows) + 1 \/ hand' \in IdsOf(path)
          BY <2>1, <2>4
        <4> QED
          BY <4>1, <4>2, <4>3
      <3>4. /\ rows' \in Seq(Row) /\ last' \in Int /\ wal' \subseteq Seq(Row) \X Int
            /\ DOMAIN rows \subseteq DOMAIN rows' /\ hand' \in DOMAIN rows'
        BY <1>0, <3>2
      <3> QED
        BY <1>2, <2>1, <2>4, <3>3, <3>4 DEF TakePath, clock, counters
    <2> QED
      BY <2>3, <2>4
  <1>0a. ASSUME NEW id \in DOMAIN rows, NEW status \in Statuses,
                Commits([rows EXCEPT ![id].status = status], last)
         PROVE  /\ rows' \in Seq(Row) /\ last' \in Int /\ wal' \subseteq Seq(Row) \X Int
                /\ DOMAIN rows' = DOMAIN rows
    BY <1>0, <1>0a, StatusWritten, ZenonT(60)
  <1>3. CASE Fail
    <2>1. PICK status \in Statuses : Commits([rows EXCEPT ![hand].status = status], last)
      BY <1>3 DEF Fail, Statuses
    <2> QED
      BY <1>0a, <1>3, <2>1 DEF Fail, clock, counters
  <1>4. CASE Index
    <2> DEFINE path == rows[hand].path
               doc == [id |-> hand, path |-> path, version |-> tree[path]]
    <2>1. doc \in Doc
      <3>1. hand \in DOMAIN rows
        BY <1>4 DEF Index
      <3>1a. rows[hand] \in Row
        BY <3>1
      <3>2. path \in Paths
        BY <3>1a DEF Row
      <3>3. tree[path] \in 0 .. MaxVersion
        BY <3>2
      <3>3a. tree[path] # 0
        BY <1>4 DEF Index
      <3>4. tree[path] \in 1 .. MaxVersion
        BY <3>3, <3>3a, Version
      <3> QED
        BY <3>2, <3>4 DEF Doc
    <2>2. writer' \subseteq Doc /\ known' \subseteq Doc
      BY <1>4, <2>1 DEF Index, Replaced
    <2>3. Commits([rows EXCEPT ![hand].status = "Indexed"], last) /\ "Indexed" \in Statuses
      BY <1>4 DEF Index, Statuses
    <2> QED
      BY <1>0a, <1>4, <2>2, <2>3 DEF Index, clock, counters
  <1>5. CASE Drop
    <2>1. PICK id \in gone : /\ writer' = writer \ DocsOf(writer, id)
                              /\ Commits([rows EXCEPT ![id].status = "Deleted"], last)
                              /\ gone' = gone \ {id}
      BY <1>5 DEF Drop
    <2>2. id \in DOMAIN rows /\ "Deleted" \in Statuses
      BY DEF Statuses
    <2> QED
      BY <1>0a, <1>5, <2>1, <2>2 DEF Drop, clock, counters
  <1>6. CASE Commit
    BY <1>6 DEF Commit, manifest, runVars, clock, counters
  <1>7. CASE Touch
    BY <1>7 DEF Touch, Commits, counters
  <1>8. CASE Close
    BY <1>8 DEF Close, runVars, clock, counters
  <1>9. CASE Kill
    BY <1>9 DEF Kill, Stop, manifest, clock
  <1>10. CASE PowerLoss
    BY <1>10 DEF PowerLoss, Stop, clock
  <1>11. CASE TreeChanges
    BY <1>11 DEF TreeChanges, manifest, runVars, clock
  <1>12. CASE Tick
    BY <1>12 DEF Tick, manifest, runVars, counters
  <1>13. CASE SetBack
    BY <1>13 DEF SetBack, manifest, runVars, counters
  <1>14. CASE UNCHANGED vars
    BY <1>14 DEF vars, manifest, runVars, clock, counters
  <1> QED
    BY <1>1, <1>2, <1>3, <1>4, <1>5, <1>6, <1>7, <1>8, <1>9, <1>10, <1>11, <1>12,
       <1>13, <1>14 DEF Next, Run

-----------------------------------------------------------------------------
(***************************************************************************)
(* The clock.                                                              *)
(***************************************************************************)
LEMMA EndStep == TypeOK /\ EndInv /\ [Next]_vars => EndInv'
  <1> SUFFICES ASSUME TypeOK, EndInv, [Next]_vars PROVE EndInv'
    OBVIOUS
  <1> USE DEF EndInv
  <1>1. ASSUME ends' = ends, now' = now \/ now' = now + 1, setBack' = setBack,
               \/ UNCHANGED <<last, wal>>
               \/ wal' = {<<rows', last'>>} /\ last' = last
               \/ \E m \in wal : last' = m[2] /\ wal' = {m}
               \/ \E r : Commits(r, last)
        PROVE  EndInv'
    <2>1. last' = -1 \/ last' \in ends'
      BY <1>1 DEF Commits
    <2>2. \A m \in wal' : m[2] = -1 \/ m[2] \in ends'
      BY <1>1, <2>1 DEF Commits
    <2>3. \A t \in ends : t \in Nat
      BY DEF TypeOK
    <2>4. now \in Nat
      BY DEF TypeOK
    <2>5. ~setBack' => \A t \in ends' : t <= now'
      BY <1>1, <2>3, <2>4
    <2> QED
      BY <2>1, <2>2, <2>5
  <1>2. CASE TakePath
    BY <1>1, <1>2 DEF TakePath, manifest, clock
  <1>3. CASE Fail \/ Index \/ Drop
    BY <1>1, <1>3 DEF Fail, Index, Drop, clock
  <1>4. CASE StartRun \/ Commit \/ Kill \/ TreeChanges \/ Tick
    BY <1>1, <1>4 DEF StartRun, Commit, Kill, TreeChanges, Tick, manifest, clock
  <1>5. CASE Close
    BY <1>1, <1>5 DEF Close, clock
  <1>6. CASE PowerLoss
    BY <1>1, <1>6 DEF PowerLoss, clock
  <1>7. CASE Touch
    <2>1. last' = now /\ ends' = ends \cup {now} /\ wal' = wal \cup {<<rows, now>>}
          /\ now' = now /\ setBack' = setBack /\ now \in Nat
      BY <1>7 DEF Touch, Commits, TypeOK
    <2>2. \A m \in wal' : m[2] = -1 \/ m[2] \in ends'
      BY <2>1
    <2> QED
      BY <2>1, <2>2
  <1>8. CASE SetBack
    BY <1>8 DEF SetBack, manifest
  <1>9. CASE UNCHANGED vars
    BY <1>1, <1>9 DEF vars, manifest, clock
  <1> QED
    BY <1>2, <1>3, <1>4, <1>5, <1>6, <1>7, <1>8, <1>9 DEF Next, Run

LEMMA EndImplies == TypeOK /\ EndInv => FreshMeansRecentRun
  <1> SUFFICES ASSUME TypeOK, EndInv, ~setBack, Staleness(last, now) = "Fresh"
               PROVE  \E t \in ends : now - t < Threshold
    BY DEF FreshMeansRecentRun
  <1>1. last # -1 /\ (IF now < last THEN 0 ELSE now - last) < Threshold
    BY DEF Staleness
  <1>2. last \in ends /\ last <= now
    BY <1>1 DEF EndInv
  <1>3. last \in Int /\ now \in Int
    BY DEF TypeOK
  <1>4. now - last < Threshold
    BY <1>1, <1>2, <1>3
  <1> QED
    BY <1>2, <1>4

-----------------------------------------------------------------------------
(***************************************************************************)
(* What each action makes of the rows.                                     *)
(***************************************************************************)
\* TakePath leaves all as it was, or writes the row of a path that had its
\* turn, its own or a new one.
LEMMA Taken ==
  ASSUME TypeOK, TakePath
  PROVE  \E path \in todo :
           /\ todo' = todo \ {path}
           /\ \/ UNCHANGED <<manifest, pc, hand>>
              \/ /\ pc' = "read" /\ wal' = wal \cup {<<rows', last>>} /\ last' = last
                 /\ Agree(rows, rows')
                 /\ hand' \in DOMAIN rows' /\ rows'[hand'].path = path
                 /\ rows'[hand'].status = "Pending"
                 /\ \A id \in DOMAIN rows' : id # hand' => id \in DOMAIN rows /\ rows'[id] = rows[id]
                 /\ hand' \in DOMAIN rows => rows[hand'].path = path
  <1>1. PICK path \in Turn :
          /\ todo' = todo \ {path}
          /\ \/ UNCHANGED <<manifest, pc, hand>>
             \/ /\ tree[path] # 0
                /\ pc' = "read"
                /\ LET row == [path |-> path, version |-> tree[path], status |-> "Pending"]
                   IN  \/ /\ IdsOf(path) = {}
                          /\ hand' = Len(rows) + 1
                          /\ Commits(Append(rows, row), last)
                       \/ \E id \in IdsOf(path) :
                          /\ hand' = id
                          /\ Commits([rows EXCEPT ![id] = row], last)
    BY DEF TakePath
  <1>2. path \in todo
    BY DEF Turn
  <1> DEFINE row == [path |-> path, version |-> tree[path], status |-> "Pending"]
  <1>3. rows \in Seq(Row)
    BY DEF TypeOK
  <1>4. ASSUME pc' = "read", hand' = Len(rows) + 1, Commits(Append(rows, row), last)
        PROVE  /\ pc' = "read" /\ wal' = wal \cup {<<rows', last>>} /\ last' = last
               /\ Agree(rows, rows')
               /\ hand' \in DOMAIN rows' /\ rows'[hand'].path = path
               /\ rows'[hand'].status = "Pending"
               /\ \A id \in DOMAIN rows' : id # hand' => id \in DOMAIN rows /\ rows'[id] = rows[id]
               /\ hand' \in DOMAIN rows => rows[hand'].path = path
    <2>1. /\ DOMAIN rows' = DOMAIN rows \cup {hand'} /\ hand' \notin DOMAIN rows
          /\ rows'[hand'] = row /\ \A id \in DOMAIN rows : rows'[id] = rows[id]
      BY <1>3, <1>4 DEF Commits
    <2> QED
      BY <1>4, <2>1 DEF Commits, Agree
  <1>5. ASSUME pc' = "read", NEW id \in IdsOf(path), hand' = id,
               Commits([rows EXCEPT ![id] = row], last)
        PROVE  /\ pc' = "read" /\ wal' = wal \cup {<<rows', last>>} /\ last' = last
               /\ Agree(rows, rows')
               /\ hand' \in DOMAIN rows' /\ rows'[hand'].path = path
               /\ rows'[hand'].status = "Pending"
               /\ \A j \in DOMAIN rows' : j # hand' => j \in DOMAIN rows /\ rows'[j] = rows[j]
               /\ hand' \in DOMAIN rows => rows[hand'].path = path
    <2>1. id \in DOMAIN rows /\ rows[id].path = path
      BY DEF IdsOf
    <2>2. /\ DOMAIN rows' = DOMAIN rows /\ rows'[id] = row
          /\ \A j \in DOMAIN rows : j # id => rows'[j] = rows[j]
      BY <1>3, <1>5, <2>1 DEF Commits
    <2> QED
      BY <1>5, <2>1, <2>2 DEF Commits, Agree
  <1> QED
    BY <1>1, <1>2, <1>4, <1>5

\* A statement that sets a status keeps the paths and all other rows.
LEMMA StatusSet ==
  ASSUME TypeOK, NEW id \in DOMAIN rows, NEW status \in Statuses,
         Commits([rows EXCEPT ![id].status = status], last)
  PROVE  /\ wal' = wal \cup {<<rows', last>>} /\ last' = last
         /\ DOMAIN rows' = DOMAIN rows /\ Agree(rows, rows')
         /\ rows'[id].status = status
         /\ \A j \in DOMAIN rows : j # id => rows'[j] = rows[j]
  <1>1. rows \in Seq(Row) /\ rows[id] \in Row
    BY DEF TypeOK
  <1>2. /\ DOMAIN rows' = DOMAIN rows
        /\ rows'[id] = [rows[id] EXCEPT !.status = status]
        /\ \A j \in DOMAIN rows : j # id => rows'[j] = rows[j]
    BY <1>1 DEF Commits
  <1>3. rows'[id].path = rows[id].path /\ rows'[id].status = status
    BY <1>1, <1>2 DEF Row
  <1> QED
    BY <1>2, <1>3 DEF Commits, Agree

-----------------------------------------------------------------------------
(***************************************************************************)
(* A run is exact.                                                         *)
(***************************************************************************)
LEMMA RunStep == TypeOK /\ RunInv /\ [Next]_vars => RunInv'
  <1> SUFFICES ASSUME TypeOK, RunInv, [Next]_vars PROVE RunInv'
    OBVIOUS
  <1>1. CASE StartRun
    <2>1. /\ known' = {} /\ pc' = "process" /\ rows' = rows
          /\ \A id \in gone' : rows[id].path \notin todo'
      BY <1>1 DEF StartRun, RunInv, manifest
    <2> QED
      BY <2>1 DEF RunInv
  <1>2. CASE TakePath
    <2>1. known' = known /\ gone' = gone /\ writer' = writer /\ pc = "process"
      BY <1>2 DEF TakePath
    <2>2. PICK path \in todo :
             /\ todo' = todo \ {path}
             /\ \/ UNCHANGED <<manifest, pc, hand>>
                \/ /\ pc' = "read"
                   /\ Agree(rows, rows')
                   /\ hand' \in DOMAIN rows' /\ rows'[hand'].path = path
                   /\ hand' \in DOMAIN rows => rows[hand'].path = path
      BY <1>2, Taken
    <2>3. gone \subseteq DOMAIN rows
      BY DEF TypeOK
    <2>4. CASE UNCHANGED <<manifest, pc, hand>>
      BY <2>1, <2>2, <2>4 DEF RunInv, DocsOf, manifest
    <2>5. CASE ~UNCHANGED <<manifest, pc, hand>>
      BY <2>1, <2>2, <2>3, <2>5 DEF RunInv, DocsOf, Agree
    <2> QED
      BY <2>4, <2>5
  <1>3. ASSUME NEW id \in DOMAIN rows, NEW status \in Statuses,
               Commits([rows EXCEPT ![id].status = status], last)
        PROVE  DOMAIN rows' = DOMAIN rows /\ \A j \in DOMAIN rows : rows'[j].path = rows[j].path
    BY <1>3, StatusSet DEF Agree
  <1>4. CASE Fail
    <2>1. DOMAIN rows' = DOMAIN rows /\ \A j \in DOMAIN rows : rows'[j].path = rows[j].path
      BY <1>3, <1>4 DEF Fail, Statuses, TypeOK
    <2>2. gone \subseteq DOMAIN rows
      BY DEF TypeOK
    <2> QED
      BY <1>4, <2>1, <2>2 DEF Fail, RunInv, DocsOf
  <1>5. CASE Index
    <2> DEFINE doc == [id |-> hand, path |-> rows[hand].path,
                       version |-> tree[rows[hand].path]]
    <2>1. DOMAIN rows' = DOMAIN rows /\ \A j \in DOMAIN rows : rows'[j].path = rows[j].path
      BY <1>3, <1>5 DEF Index, Statuses, TypeOK
    <2>2. /\ pc = "read" /\ pc' = "process" /\ todo' = todo /\ gone' = gone
          /\ writer' = (writer \ DocsOf(writer, hand)) \cup {doc} /\ known' = known \cup {doc}
      BY <1>5 DEF Index, Replaced
    <2>3. gone \subseteq DOMAIN rows /\ hand \in DOMAIN rows
      BY <2>2 DEF TypeOK
    <2>4. DocsOf(writer', doc.id) = {doc}
      BY <2>2 DEF DocsOf
    <2>5. ASSUME NEW k \in known PROVE DocsOf(writer', k.id) = {k}
      <3>1. k.id # hand /\ DocsOf(writer, k.id) = {k}
        BY <2>2 DEF RunInv
      <3> QED
        BY <2>2, <3>1 DEF DocsOf
    <2>6. ASSUME NEW k \in known'
          PROVE  /\ k.id \in DOMAIN rows' /\ rows'[k.id].path \notin todo'
                 /\ k.id \notin gone' /\ DocsOf(writer', k.id) = {k}
      <3>1. CASE k \in known
        BY <2>1, <2>2, <2>5, <3>1 DEF RunInv
      <3>2. CASE k = doc
        <4>1. k.id = hand
          BY <3>2
        <4>2. hand \notin gone /\ rows[hand].path \notin todo
          BY <2>2 DEF RunInv
        <4> QED
          BY <2>1, <2>2, <2>3, <2>4, <3>2, <4>1, <4>2
      <3> QED
        BY <2>2, <3>1, <3>2
    <2>7. \A id \in gone' : rows'[id].path \notin todo'
      BY <2>1, <2>2, <2>3 DEF RunInv
    <2> QED
      BY <2>2, <2>6, <2>7 DEF RunInv
  <1>6. CASE Drop
    <2>1. PICK id \in gone : /\ writer' = writer \ DocsOf(writer, id)
                              /\ Commits([rows EXCEPT ![id].status = "Deleted"], last)
                              /\ gone' = gone \ {id}
      BY <1>6 DEF Drop
    <2>2. DOMAIN rows' = DOMAIN rows /\ \A j \in DOMAIN rows : rows'[j].path = rows[j].path
      BY <1>3, <2>1 DEF Statuses, TypeOK
    <2>3. /\ pc = "process" /\ pc' = "process" /\ todo' = todo /\ known' = known
          /\ gone \subseteq DOMAIN rows
      BY <1>6 DEF Drop, TypeOK
    <2>4. ASSUME NEW k \in known PROVE DocsOf(writer', k.id) = {k}
      <3>1. k.id # id /\ DocsOf(writer, k.id) = {k}
        BY DEF RunInv
      <3> QED
        BY <2>1, <3>1 DEF DocsOf
    <2> QED
      BY <2>1, <2>2, <2>3, <2>4 DEF RunInv
  <1>7. CASE Commit
    BY <1>7 DEF Commit, RunInv, DocsOf, manifest, runVars
  <1>8. CASE Touch
    BY <1>8 DEF Touch, RunInv, Commits
  <1>9. CASE Close
    BY <1>9 DEF Close, RunInv, DocsOf, runVars
  <1>10. CASE Kill \/ PowerLoss
    BY <1>10 DEF Kill, PowerLoss, Stop, RunInv
  <1>11. CASE TreeChanges \/ Tick \/ SetBack \/ UNCHANGED vars
    <2>1. UNCHANGED <<rows, docs, writer, pc, todo, gone, hand, known>>
      BY <1>11 DEF TreeChanges, Tick, SetBack, vars, manifest, runVars
    <2> QED
      BY <2>1 DEF RunInv, DocsOf
  <1> QED
    BY <1>1, <1>2, <1>4, <1>5, <1>6, <1>7, <1>8, <1>9, <1>10, <1>11 DEF Next, Run

-----------------------------------------------------------------------------
(***************************************************************************)
(* Documents stay with their files.                                        *)
(***************************************************************************)
\* The part of OwnInv about the time before the first power loss, for a step
\* that only adds to the rows.
LEMMA OwnKept ==
  ASSUME OwnInv, losses = 0, Agree(rows, rows'), Own(docs', rows'), Own(writer', rows'),
         \A m \in wal' : m \in wal \/ m[1] = rows'
  PROVE  /\ \A m \in wal' : Agree(m[1], rows')
         /\ Own(docs', rows') /\ Own(writer', rows')
  BY DEF OwnInv, Agree

LEMMA OwnStep == TypeOK /\ RunInv /\ OwnInv /\ [Next]_vars => OwnInv'
  <1> SUFFICES ASSUME TypeOK, RunInv, OwnInv, [Next]_vars PROVE OwnInv'
    OBVIOUS
  <1> DEFINE Safe(set, r) ==
               \A d \in set : d.id \in DOMAIN r /\ r[d.id].path # d.path =>
                                r[d.id].status # "Indexed"
  <1>1. ASSUME UNCHANGED <<docs, writer, losses, kills, rows>>, wal' = wal \/ wal' = {<<rows', last'>>}
                  \/ wal' = wal \cup {<<rows', last'>>}
        PROVE  OwnInv'
    <2>1. \A m \in wal' : m \in wal \/ m[1] = rows'
      BY <1>1
    <2>2. Agree(rows, rows')
      BY <1>1 DEF Agree
    <2> QED
      BY <1>1, <2>1, <2>2 DEF OwnInv, Own, Agree
  <1>2. CASE TakePath
    <2>1. UNCHANGED <<docs, writer, losses, kills>>
      BY <1>2 DEF TakePath, counters
    <2>2. PICK path \in todo :
             \/ UNCHANGED <<manifest, pc, hand>>
             \/ /\ wal' = wal \cup {<<rows', last>>}
                /\ Agree(rows, rows')
                /\ rows'[hand'].status = "Pending"
                /\ \A id \in DOMAIN rows' : id # hand' => id \in DOMAIN rows /\ rows'[id] = rows[id]
      BY <1>2, Taken
    <2>3. CASE UNCHANGED <<manifest, pc, hand>>
      BY <1>1, <2>1, <2>3 DEF manifest
    <2>4. CASE ~UNCHANGED <<manifest, pc, hand>>
      <3>1. losses = 0 => Own(docs', rows') /\ Own(writer', rows')
        BY <2>1, <2>2, <2>4 DEF OwnInv, Own, Agree
      <3>2. \A m \in wal' : m \in wal \/ m[1] = rows'
        BY <2>2, <2>4
      <3>3. losses = 1 /\ kills = 0 => Safe(writer', rows')
        BY <2>1, <2>2, <2>4 DEF OwnInv
      <3> QED
        BY <2>1, <2>2, <2>4, <3>1, <3>2, <3>3, OwnKept DEF OwnInv
    <2> QED
      BY <2>3, <2>4
  <1>3. ASSUME UNCHANGED <<docs, losses, kills>>, NEW id \in DOMAIN rows, NEW status \in Statuses,
               Commits([rows EXCEPT ![id].status = status], last),
               \A d \in writer' :
                  \/ d \in writer /\ (d.id # id \/ status # "Indexed")
                  \/ d.id = id /\ d.path = rows[id].path
        PROVE  OwnInv'
    <2>1. /\ wal' = wal \cup {<<rows', last>>}
          /\ DOMAIN rows' = DOMAIN rows /\ Agree(rows, rows')
          /\ rows'[id].status = status
          /\ \A j \in DOMAIN rows : j # id => rows'[j] = rows[j]
      BY <1>3, StatusSet
    <2>2. losses = 0 => Own(docs', rows') /\ Own(writer', rows')
      BY <1>3, <2>1 DEF OwnInv, Own, Agree
    <2>3. \A m \in wal' : m \in wal \/ m[1] = rows'
      BY <2>1
    <2>4. losses = 1 /\ kills = 0 => Safe(writer', rows')
      BY <1>3, <2>1 DEF OwnInv, Agree
    <2> QED
      BY <1>3, <2>1, <2>2, <2>3, <2>4, OwnKept DEF OwnInv
  <1>4. CASE Fail
    <2>1. PICK status \in Statuses : /\ Commits([rows EXCEPT ![hand].status = status], last)
                                     /\ status # "Indexed"
      BY <1>4 DEF Fail, Statuses
    <2> QED
      BY <1>3, <1>4, <2>1 DEF Fail, TypeOK, counters
  <1>5. CASE Index
    <2>1. hand \in DOMAIN rows /\ "Indexed" \in Statuses
      BY <1>5 DEF Index, TypeOK, Statuses
    <2> DEFINE doc == [id |-> hand, path |-> rows[hand].path,
                       version |-> tree[rows[hand].path]]
    <2>1a. writer' = (writer \ DocsOf(writer, hand)) \cup {doc}
      BY <1>5 DEF Index, Replaced
    <2>1b. doc.id = hand /\ doc.path = rows[hand].path
      OBVIOUS
    <2>2. \A d \in writer' :
             \/ d \in writer /\ d.id # hand
             \/ d.id = hand /\ d.path = rows[hand].path
      <3> HIDE DEF doc
      <3> QED
        BY <2>1a, <2>1b DEF DocsOf
    <2> QED
      BY <1>3, <1>5, <2>1, <2>2 DEF Index, counters
  <1>6. CASE Drop
    <2>1. PICK id \in gone : /\ writer' = writer \ DocsOf(writer, id)
                              /\ Commits([rows EXCEPT ![id].status = "Deleted"], last)
      BY <1>6 DEF Drop
    <2>2. id \in DOMAIN rows /\ "Deleted" \in Statuses
      BY DEF TypeOK, Statuses
    <2>3. \A d \in writer' : d \in writer /\ d.id # id
      BY <2>1 DEF DocsOf
    <2> QED
      BY <1>3, <1>6, <2>1, <2>2, <2>3 DEF Drop, counters
  <1>7. CASE StartRun
    BY <1>1, <1>7 DEF StartRun, manifest
  <1>8. CASE Commit
    BY <1>8 DEF Commit, OwnInv, manifest, counters
  <1>9. CASE Touch
    BY <1>1, <1>9 DEF Touch, Commits, counters
  <1>10. CASE Close
    BY <1>1, <1>10 DEF Close, counters
  <1>11. CASE Kill
    <2>1. kills' # 0
      BY <1>11 DEF Kill, TypeOK
    <2> QED
      BY <1>11, <2>1 DEF Kill, Stop, OwnInv, manifest
  <1>12. CASE PowerLoss
    <2>1. PICK m \in wal : rows' = m[1]
      BY <1>12 DEF PowerLoss
    <2>2. losses' = losses + 1 /\ writer' = docs /\ kills' = kills /\ losses \in Nat
      BY <1>12 DEF PowerLoss, Stop, TypeOK
    <2>3. losses = 0 => \A d \in docs : d.id \in DOMAIN rows' => rows'[d.id].path = d.path
      BY <2>1 DEF OwnInv, Own, Agree
    <2> QED
      BY <2>2, <2>3 DEF OwnInv
  <1>13. CASE TreeChanges \/ Tick \/ SetBack \/ UNCHANGED vars
    <2>1. UNCHANGED <<manifest, docs, writer, losses, kills>>
      BY <1>13 DEF TreeChanges, Tick, SetBack, vars, counters
    <2> QED
      BY <1>1, <2>1 DEF manifest
  <1> QED
    BY <1>2, <1>4, <1>5, <1>6, <1>7, <1>8, <1>9, <1>10, <1>11, <1>12, <1>13 DEF Next, Run

-----------------------------------------------------------------------------
(***************************************************************************)
(* The theorems.                                                           *)
(***************************************************************************)
LEMMA InitIInv == Init => IInv
  <1> SUFFICES ASSUME Init PROVE IInv
    OBVIOUS
  <1>1. TypeOK
    BY InitTypeOK
  <1>2. RunInv /\ EndInv
    BY DEF Init, RunInv, EndInv
  <1>3. OwnInv
    BY DEF Init, OwnInv, Own, Agree
  <1> QED
    BY <1>1, <1>2, <1>3 DEF IInv

\* The invariant behind all of them: upsert_walked, set_status, delete_file,
\* add_chunk and commit, in the order of process, keep a run's file_ids apart.
THEOREM Invariance == Spec => []IInv
  <1>1. IInv /\ [Next]_vars => IInv'
    BY TypeStep, RunStep, OwnStep, EndStep DEF IInv
  <1> QED
    BY InitIInv, <1>1, PTL DEF Spec

\* What a run committed is what it read, under every file_id it indexed,
\* whatever power losses handed that file_id to other files before.
THEOREM Exactness == Spec => []RunIsExact
  <1>1. IInv => RunIsExact
    BY DEF IInv, RunInv, RunIsExact
  <1> QED
    BY Invariance, <1>1, PTL

\* Hits are shown under the name of another file only after a power loss, and
\* after one only under a file whose own text a run could not index.
THEOREM Containment == Spec => []StrangersAreContained
  <1>1. IInv => StrangersAreContained
    BY DEF IInv, RunInv, OwnInv, Own, StrangersAreContained, Strangers
  <1> QED
    BY Invariance, <1>1, PTL

\* An index that says it is fresh was brought up to date within the threshold,
\* for all thresholds, as long as the clock is not set back.
THEOREM Freshness == Spec => []FreshMeansRecentRun
  <1>1. IInv => FreshMeansRecentRun
    BY EndImplies DEF IInv
  <1> QED
    BY Invariance, <1>1, PTL

=============================================================================
