-------------------------- MODULE EncodingsProofs --------------------------
(***************************************************************************)
(* Proofs about Encodings.  Builds understand each other, whatever field,  *)
(* message or variant one has more than the other.  Rows, metadata and     *)
(* settings are read back as they were written, and the diff sees every    *)
(* change, at any width.  Names are told apart, at any length.             *)
(*                                                                         *)
(* A behaviour exercises one encoding, so each has an invariant of its     *)
(* own.                                                                    *)
(***************************************************************************)
EXTENDS Encodings, WellFoundedInduction, TLAPS

\* What is on the wire is what was given, and what came out was made of it.
MessageInv ==
    kind = "message" =>
        /\ held = Null => got = Null
        /\ held # Null =>
              /\ given.struct \in DOMAIN Structs
              /\ <<given.from, given.to>> \in Pairs(given.struct)
              /\ DOMAIN given.body = Fields(given.from, given.struct)
              /\ held = ToVecNamed(given.from, given.tag, given.struct, given.body)
              /\ got # Null => got = FromSlice(given.to, given.enum, held)

HelloInv ==
    kind = "hello" =>
        /\ \A side \in {"clientMin", "clientMax", "serverMin", "serverMax"} :
              given[side] \in Nat
        /\ got # Null => got = Negotiate(given.clientMin, given.clientMax,
                                         given.serverMin, given.serverMax)

IdentityInv ==
    kind = "identity" /\ given # Null => got = OpenIdentity(given, held)

PeerInv == MessageInv /\ HelloInv /\ IdentityInv

-----------------------------------------------------------------------------
(***************************************************************************)
(* Casts between signed and unsigned integers.                             *)
(***************************************************************************)
LEMMA ModSmall ==
    ASSUME NEW b \in Nat \ {0}, NEW a \in 0 .. b - 1
    PROVE  a % b = a
  OBVIOUS

LEMMA ModOnce ==
    ASSUME NEW b \in Nat \ {0}, NEW a \in b .. 2 * b - 1
    PROVE  a % b = a - b
  OBVIOUS

LEMMA ModBelow ==
    ASSUME NEW b \in Nat \ {0}, NEW a \in (-b) .. -1
    PROVE  a % b = a + b
  OBVIOUS

LEMMA Signed ==
    ASSUME NEW n \in U64
    PROVE  AsI64(n) = IF n < Half THEN n ELSE n - 2 * Half
<1> DEFINE b == 2 * Half
<1>1. Half \in Nat \ {0} /\ n \in 0 .. 2 * Half - 1 /\ b \in Nat \ {0} /\ b = 2 * Half
  BY WidthAssumption DEF U64
<1> HIDE DEF b
<1>2. AsI64(n) = ((n + Half) % b) - Half
  BY DEF AsI64, b
<1>3. CASE n < Half
  <2>1. n + Half \in 0 .. b - 1
    BY <1>1, <1>3
  <2>2. (n + Half) % b = n + Half
    BY <1>1, <2>1, ModSmall
  <2>3. QED
    BY <1>1, <1>2, <1>3, <2>2
<1>4. CASE ~(n < Half)
  <2>1. n + Half \in b .. 2 * b - 1
    BY <1>1, <1>4
  <2>2. (n + Half) % b = (n + Half) - b
    <3> DEFINE a == n + Half
    <3>1. a \in b .. 2 * b - 1
      BY <2>1
    <3> HIDE DEF a
    <3>2. a % b = a - b
      BY <1>1, <3>1, ModOnce
    <3>3. QED
      BY <3>2 DEF a
  <2>3. QED
    BY <1>1, <1>2, <1>4, <2>2
<1>5. QED
  BY <1>3, <1>4

\* A column of SQLite's signed integers keeps every u64: sizes, inodes and path
\* hashes are in range, are read back as they were, and are equal in the table
\* only if they are equal.
THEOREM UnsignedColumns ==
    \A n \in U64 :
        /\ ToColumn("u64", n) # Null =>
              ToColumn("u64", n) \in I64 /\ FromColumn("u64", ToColumn("u64", n)) = n
        /\ \A m \in U64 : AsI64(m) = AsI64(n) => m = n
<1> SUFFICES ASSUME NEW n \in U64
             PROVE  /\ ToColumn("u64", n) # Null =>
                          /\ ToColumn("u64", n) \in I64
                          /\ FromColumn("u64", ToColumn("u64", n)) = n
                    /\ \A m \in U64 : AsI64(m) = AsI64(n) => m = n
  OBVIOUS
<1>1. Half \in Nat \ {0} /\ n \in 0 .. 2 * Half - 1
  BY WidthAssumption DEF U64
<1>2. AsI64(n) = IF n < Half THEN n ELSE n - 2 * Half
  BY Signed
<1>3. AsI64(n) \in I64
  BY <1>1, <1>2 DEF I64
<1>4. AsU64(AsI64(n)) = n
  <2> DEFINE b == 2 * Half
  <2>1. b \in Nat \ {0} /\ b = 2 * Half
    BY <1>1
  <2> HIDE DEF b
  <2>2. CASE n < Half
    <3>1. n \in 0 .. b - 1 /\ AsI64(n) = n
      BY <1>1, <1>2, <2>1, <2>2
    <3>2. n % b = n
      BY <2>1, <3>1, ModSmall
    <3>3. QED
      BY <3>1, <3>2 DEF AsU64, b
  <2>3. CASE ~(n < Half)
    <3> DEFINE a == n - b
    <3>1. a \in (-b) .. -1 /\ a + b = n /\ AsI64(n) = a
      BY <1>1, <1>2, <2>1, <2>3
    <3> HIDE DEF a
    <3>2. a % b = a + b
      BY <2>1, <3>1, ModBelow
    <3>3. QED
      BY <3>1, <3>2 DEF AsU64, b
  <2>4. QED
    BY <2>2, <2>3
<1>5. ASSUME ToColumn("u64", n) # Null
      PROVE  ToColumn("u64", n) \in I64 /\ FromColumn("u64", ToColumn("u64", n)) = n
  <2>1. ToColumn("u64", n) = AsI64(n)
    BY <1>5 DEF ToColumn
  <2>2. FromColumn("u64", ToColumn("u64", n)) = AsU64(ToColumn("u64", n))
    BY <1>5 DEF FromColumn
  <2>3. QED
    BY <1>3, <1>4, <2>1, <2>2
<1>6. ASSUME NEW m \in U64, AsI64(m) = AsI64(n) PROVE m = n
  <2>1. m \in 0 .. 2 * Half - 1 /\ AsI64(m) = IF m < Half THEN m ELSE m - 2 * Half
    BY Signed DEF U64
  <2>2. QED
    BY <1>1, <1>2, <1>6, <2>1
<1>7. QED
  BY <1>5, <1>6

-----------------------------------------------------------------------------
(***************************************************************************)
(* Rows of the manifest.                                                   *)
(***************************************************************************)
Column == DOMAIN Files
Walk == {"size", "mtime_ns", "ctime_ns", "inode", "dev", "mode"}
Rows == [Column -> Int \cup {Null}]

\* The row is made of the stat, the status and the failures that went in.
RowInv ==
    kind = "file" =>
        /\ given.writes \in 0 .. MaxWrites /\ given.failures \in 0 .. given.writes
        /\ held = Null => given.failures = 0
        /\ held # Null =>
              /\ held \in Rows
              /\ given = [writes |-> given.writes, stat |-> given.stat, status |-> given.status,
                          failures |-> given.failures, since |-> given.since]
              /\ given.stat \in Stats /\ given.status \in 0 .. 5 /\ given.since \in Int
              /\ \A c \in Walk : held[c] = ToColumn(Files[c], WalkEntry(given.stat)[c])
              /\ held.path = 1 /\ held.path_hash = ToColumn("u64", PathHash(1))
              /\ held.status = given.status /\ held.fail_count = given.failures
              /\ held.first_seen_ns = given.since

LEMMA Columns ==
    /\ Column = {"file_id", "path", "path_hash", "inode", "dev", "size", "mtime_ns", "ctime_ns",
                 "mode", "uid", "gid", "blake3", "mime_type", "status", "fail_count",
                 "first_seen_ns", "last_verified_ns", "error_msg", "hard_link_of",
                 "parent_archive_id"}
    /\ Walk \subseteq Column
    /\ Files.path_hash = "u64" /\ Files.size = "u64" /\ Files.inode = "u64" /\ Files.dev = "u64"
    /\ Files.mtime_ns = "i64" /\ Files.ctime_ns = "i64" /\ Files.mode = "u32"
    /\ Files.path = "blob" /\ Files.status = "status" /\ Files.fail_count = "u32"
    /\ Files.first_seen_ns = "i64"
  BY DEF Column, Walk, Files

LEMMA Cast == \A n \in Int : AsI64(n) \in Int
<1> SUFFICES ASSUME NEW n \in Int PROVE AsI64(n) \in Int
  OBVIOUS
<1> DEFINE b == 2 * Half
<1>1. Half \in Nat \ {0} /\ b \in Nat \ {0}
  BY WidthAssumption
<1> HIDE DEF b
<1>2. (n + Half) % b \in Int
  BY <1>1
<1>3. QED
  BY <1>1, <1>2 DEF AsI64, b

\* What lstat tells has the types of the columns.
LEMMA EntryIs ==
    ASSUME NEW stat \in Stats
    PROVE  /\ DOMAIN WalkEntry(stat) = Walk
           /\ stat.secs \in Int /\ stat.nsec \in 0 .. Nano - 1
           /\ \A c \in {"size", "inode", "dev"} : WalkEntry(stat)[c] \in U64
           /\ WalkEntry(stat).mode \in U32
           /\ \A c \in {"mtime_ns", "ctime_ns"} :
                 /\ WalkEntry(stat)[c] = MtimeNs(stat.secs, stat.nsec)
                 /\ WalkEntry(stat)[c] \in Int
           /\ WalkEntry(stat).size = stat.size
<1>1. /\ stat.secs \in Int /\ stat.nsec \in 0 .. Nano - 1
      /\ stat.size \in U64 /\ stat.inode \in U64 /\ stat.dev \in U64 /\ stat.mode \in U32
  BY InputsAssumption
<1>2. MtimeNs(stat.secs, stat.nsec) \in Int
  <2>1. Nano \in Nat /\ stat.secs * Nano \in Int /\ stat.nsec \in Int
    BY <1>1, NanoAssumption
  <2>2. AsI64(stat.secs * Nano) + stat.nsec \in Int
    BY <2>1, Cast
  <2>3. QED
    BY <2>2, Cast DEF MtimeNs
<1>3. QED
  BY <1>1, <1>2 DEF WalkEntry, Walk

\* A column of a u64 or of an integer is an integer.
LEMMA ColumnIs ==
    /\ \A type : \A v \in Int : ToColumn(type, v) \in Int /\ ToColumn(type, v) # Null
    /\ \A v \in U64 : v \in Int /\ FromColumn("u64", ToColumn("u64", v)) = v
    /\ \A v \in U32 : v \in Int /\ FromColumn("u32", ToColumn("u32", v)) = v
    /\ \A v : FromColumn("i64", ToColumn("i64", v)) = v
    /\ \A type : ToColumn(type, Null) = Null /\ FromColumn(type, Null) = Null
    /\ U32 \subseteq U64
<1>1. ASSUME NEW type, NEW v \in Int PROVE ToColumn(type, v) \in Int /\ ToColumn(type, v) # Null
  BY Cast, NullAssumption DEF ToColumn
<1>2. ASSUME NEW v \in U64 PROVE v \in Int /\ FromColumn("u64", ToColumn("u64", v)) = v
  <2>1. v \in Int
    BY WidthAssumption DEF U64
  <2>2. QED
    BY <1>1, <2>1, UnsignedColumns
<1>3. ASSUME NEW v \in U32 PROVE v \in Int /\ FromColumn("u32", ToColumn("u32", v)) = v
  <2>1. Word \in Nat \ {0} /\ v \in 0 .. Word - 1
    BY WidthAssumption DEF U32
  <2>2. ToColumn("u32", v) = v /\ v # Null
    BY <2>1, NullAssumption DEF ToColumn
  <2>3. v % Word = v
    BY <2>1, ModSmall
  <2>4. QED
    BY <2>1, <2>2, <2>3 DEF FromColumn, AsU32
<1>4. U32 \subseteq U64
  BY WidthAssumption DEF U32, U64
<1>5. QED
  BY <1>1, <1>2, <1>3, <1>4 DEF ToColumn, FromColumn

\* What an upsert makes of a row: the walked columns and the status are new, the
\* others are those of the row there was, or of a new one.
Upserted(row, old, stat, now) ==
    /\ row \in Rows
    /\ \A c \in Walk : row[c] = ToColumn(Files[c], WalkEntry(stat)[c])
    /\ row.path_hash = ToColumn("u64", PathHash(1)) /\ row.status = 0
    /\ row.path = IF old = Null THEN 1 ELSE old.path
    /\ row.fail_count = IF old = Null THEN 0 ELSE old.fail_count
    /\ row.first_seen_ns = IF old = Null THEN now ELSE old.first_seen_ns

LEMMA UpsertIs ==
    ASSUME NEW stat \in Stats, NEW old, old = Null \/ old \in Rows, NEW now \in Int,
           NEW row, row = UpsertWalked(old, 1, 1, WalkEntry(stat), now)
    PROVE  Upserted(row, old, stat, now)
<1> DEFINE entry == WalkEntry(stat)
           hashed == Both(entry, [path_hash |-> PathHash(1)])
           intent == Intent(1, entry, now)
           base == IF old = Null THEN NewRow(1, 1, now) ELSE old
<1>1. DOMAIN entry = Walk /\ \A c \in Walk : entry[c] \in Int
  BY EntryIs, ColumnIs DEF Walk
<1> HIDE DEF entry
<1>2. /\ DOMAIN hashed = Walk \cup {"path_hash"} /\ hashed.path_hash = PathHash(1)
      /\ \A c \in Walk : hashed[c] = entry[c]
  BY <1>1 DEF Both, Walk
<1> HIDE DEF hashed
<1>3. /\ DOMAIN intent = Walk \cup {"path_hash", "status", "last_verified_ns"}
      /\ \A c \in Walk : intent[c] = ToColumn(Files[c], entry[c])
      /\ intent.path_hash = ToColumn("u64", PathHash(1))
      /\ intent.status = 0 /\ intent.last_verified_ns = now
  BY <1>2, Columns DEF Intent, Both, ToRow, Walk, hashed
<1>4. PathHash(1) \in Int
  BY HashAssumption, ColumnIs
<1> HIDE DEF intent
<1>5. DOMAIN intent \subseteq Column /\ \A c \in DOMAIN intent : intent[c] \in Int
  <2>1. \A type : \A v \in Int : ToColumn(type, v) \in Int
    BY ColumnIs
  <2>2. \A c \in Walk : intent[c] \in Int
    BY <1>1, <1>3, <2>1
  <2>3. intent.path_hash \in Int
    BY <1>3, <1>4, <2>1
  <2>4. DOMAIN intent \subseteq Column
    BY <1>3, Columns
  <2>5. QED
    BY <1>3, <2>2, <2>3, <2>4
<1>6. /\ DOMAIN base = Column /\ \A c \in Column : base[c] \in Int \cup {Null}
      /\ base.path = IF old = Null THEN 1 ELSE old.path
      /\ base.fail_count = IF old = Null THEN 0 ELSE old.fail_count
      /\ base.first_seen_ns = IF old = Null THEN now ELSE old.first_seen_ns
  <2>1. CASE old = Null
    <3> DEFINE new == NewRow(1, 1, now)
               named == [file_id |-> 1, path |-> 1, fail_count |-> 0, first_seen_ns |-> now]
    <3>1. new = [c \in DOMAIN named \cup Column |-> IF c \in DOMAIN named THEN named[c] ELSE Null]
      BY DEF NewRow, Both, Column
    <3>2. /\ DOMAIN named = {"file_id", "path", "fail_count", "first_seen_ns"}
          /\ named.path = 1 /\ named.fail_count = 0 /\ named.first_seen_ns = now
          /\ \A c \in DOMAIN named : named[c] \in Int
      OBVIOUS
    <3> HIDE DEF named
    <3>3. DOMAIN named \cup Column = Column
      BY <3>2, Columns
    <3> HIDE DEF new
    <3>4. /\ DOMAIN new = Column /\ \A c \in Column : new[c] \in Int \cup {Null}
          /\ new.path = 1 /\ new.fail_count = 0 /\ new.first_seen_ns = now
      BY <3>1, <3>2, <3>3, Columns
    <3>5. QED
      BY <2>1, <3>4 DEF new
  <2>2. CASE old # Null
    BY <2>2 DEF Rows
  <2>3. QED
    BY <2>1, <2>2
<1> HIDE DEF base
<1>7. row = [c \in Column |-> IF c \in DOMAIN intent THEN intent[c] ELSE base[c]]
  <2>1. row = [c \in DOMAIN intent \cup DOMAIN base |->
                  IF c \in DOMAIN intent THEN intent[c] ELSE base[c]]
    BY DEF UpsertWalked, Both, intent, base, entry
  <2>2. DOMAIN intent \cup DOMAIN base = Column
    BY <1>5, <1>6
  <2>3. QED
    BY <2>1, <2>2
<1>8. row \in Rows
  BY <1>5, <1>6, <1>7 DEF Rows
<1>9. \A c \in Walk \cup {"path_hash", "status"} : row[c] = intent[c]
  BY <1>3, <1>5, <1>7
<1>10. \A c \in {"path", "fail_count", "first_seen_ns"} : row[c] = base[c]
  BY <1>3, <1>7, Columns DEF Walk
<1>11. QED
  BY <1>3, <1>6, <1>8, <1>9, <1>10 DEF entry, Upserted

\* A new status is counted if it is a failure; nothing else of the row changes
\* but the message and the time.
LEMMA StatusIs ==
    ASSUME NEW old \in Rows, NEW status \in 1 .. 5, NEW now \in Int, old.fail_count \in Int,
           NEW row, row = SetStatus(old, status, Null, now)
    PROVE  /\ row \in Rows
           /\ \A c \in Walk \cup {"path", "path_hash", "first_seen_ns"} : row[c] = old[c]
           /\ row.status = status
           /\ row.fail_count = old.fail_count + (IF status \in {2, 4} THEN 1 ELSE 0)
<1> DEFINE count == old.fail_count + (IF status \in {2, 4} THEN 1 ELSE 0)
<1>1. count \in Int
  OBVIOUS
<1>2. row = [old EXCEPT !.status = status, !.error_msg = Null, !.last_verified_ns = now,
                        !.fail_count = count]
  BY DEF SetStatus
<1> HIDE DEF count
<1>3. DOMAIN old = Column /\ \A c \in Column : old[c] \in Int \cup {Null}
  BY DEF Rows
<1>4. /\ DOMAIN row = Column /\ row.status = status /\ row.fail_count = count
      /\ row.error_msg = Null /\ row.last_verified_ns = now
      /\ \A c \in Column \ {"status", "error_msg", "last_verified_ns", "fail_count"} :
            row[c] = old[c]
  <2>1. /\ {"status", "error_msg", "last_verified_ns", "fail_count"} \subseteq Column
        /\ "status" # "error_msg" /\ "status" # "last_verified_ns" /\ "status" # "fail_count"
        /\ "error_msg" # "last_verified_ns" /\ "error_msg" # "fail_count"
        /\ "last_verified_ns" # "fail_count"
    BY Columns
  <2>2. /\ DOMAIN row = Column
        /\ \A c \in Column \ {"status", "error_msg", "last_verified_ns", "fail_count"} :
              row[c] = old[c]
    BY <1>2, <1>3
  <2>3. /\ row.status = status /\ row.fail_count = count
        /\ row.error_msg = Null /\ row.last_verified_ns = now
    BY <1>2, <1>3, <2>1
  <2>4. QED
    BY <2>2, <2>3
<1>5. \A c \in Column : row[c] \in Int \cup {Null}
  BY <1>1, <1>3, <1>4
<1>6. row \in Rows
  <2>1. row = [c \in Column |-> row[c]]
    BY <1>2, <1>3
  <2>2. QED
    BY <1>5, <2>1 DEF Rows
<1>7. QED
  BY <1>4, <1>6, Columns DEF count, Walk

LEMMA InitRow == Init => RowInv
<1> SUFFICES ASSUME Init PROVE RowInv
  OBVIOUS
<1>1. kind = "file" => held = Null /\ given = Empty
  BY DEF Init
<1>2. MaxWrites \in Nat
  BY WidthAssumption, InputsAssumption
<1>3. QED
  BY <1>1, <1>2 DEF RowInv, Empty

LEMMA RowStep == RowInv /\ [Next]_vars => RowInv'
<1> SUFFICES ASSUME RowInv, [Next]_vars PROVE RowInv'
  OBVIOUS
<1>1. kind' = kind
  BY DEF Next, Walked, StatusSet, MetaWritten, MetaDeleted, Hello, Send, Receive,
         OpenIndex, Load, Save, Show, vars
<1>2. SUFFICES ASSUME kind = "file" PROVE RowInv'
  BY <1>1 DEF RowInv
<1>3. MaxWrites \in Nat
  BY WidthAssumption, InputsAssumption
<1>4. /\ given.writes \in 0 .. MaxWrites /\ given.failures \in 0 .. given.writes
      /\ held = Null => given.failures = 0
      /\ held # Null =>
            /\ held \in Rows
            /\ given = [writes |-> given.writes, stat |-> given.stat, status |-> given.status,
                        failures |-> given.failures, since |-> given.since]
            /\ given.stat \in Stats /\ given.status \in 0 .. 5 /\ given.since \in Int
            /\ \A c \in Walk : held[c] = ToColumn(Files[c], WalkEntry(given.stat)[c])
            /\ held.path = 1 /\ held.path_hash = ToColumn("u64", PathHash(1))
            /\ held.status = given.status /\ held.fail_count = given.failures
            /\ held.first_seen_ns = given.since
  BY <1>2 DEF RowInv
<1>5. Walked \/ StatusSet \/ UNCHANGED vars
  BY <1>2 DEF Next, MetaWritten, MetaDeleted, Hello, Send, Receive, OpenIndex, Load, Save, Show
<1>6. CASE Walked
  <2>1. PICK stat \in Stats :
            /\ held' = UpsertWalked(held, 1, 1, WalkEntry(stat), given.writes)
            /\ given' = [writes |-> given.writes + 1, stat |-> stat, status |-> 0,
                         failures |-> given.failures,
                         since |-> IF held = Null THEN given.writes ELSE given.since]
    BY <1>6 DEF Walked
  <2>2. given.writes < MaxWrites
    BY <1>6 DEF Walked
  <2> DEFINE row == held'
  <2>3. /\ row \in Rows
        /\ \A c \in Walk : row[c] = ToColumn(Files[c], WalkEntry(stat)[c])
        /\ row.path_hash = ToColumn("u64", PathHash(1)) /\ row.status = 0
        /\ row.path = IF held = Null THEN 1 ELSE held.path
        /\ row.fail_count = IF held = Null THEN 0 ELSE held.fail_count
        /\ row.first_seen_ns = IF held = Null THEN given.writes ELSE held.first_seen_ns
    <3>1. row = UpsertWalked(held, 1, 1, WalkEntry(stat), given.writes)
      BY <2>1
    <3> DEFINE old == held
               now == given.writes
    <3>2. now \in Int /\ (old = Null \/ old \in Rows)
      BY <1>4
    <3>3. row = UpsertWalked(old, 1, 1, WalkEntry(stat), now)
      BY <3>1
    <3> HIDE DEF row, old, now
    <3>4. Upserted(row, old, stat, now)
      BY <3>2, <3>3, UpsertIs
    <3>5. QED
      BY <3>4 DEF old, now, Upserted
  <2>4. row # Null
    BY <2>3, RowsAssumption DEF Rows, Column
  <2>5. /\ given'.writes = given.writes + 1 /\ given'.stat = stat /\ given'.status = 0
        /\ given'.failures = given.failures
        /\ given'.since = IF held = Null THEN given.writes ELSE given.since
        /\ given' = [writes |-> given'.writes, stat |-> given'.stat, status |-> given'.status,
                     failures |-> given'.failures, since |-> given'.since]
    BY <2>1
  <2>6. /\ given'.writes \in 0 .. MaxWrites /\ given'.failures \in 0 .. given'.writes
        /\ given'.since \in Int
    BY <1>3, <1>4, <2>2, <2>5
  <2>7. row.path = 1 /\ row.fail_count = given'.failures /\ row.first_seen_ns = given'.since
    BY <1>4, <2>3, <2>5
  <2>8. QED
    BY <2>3, <2>4, <2>5, <2>6, <2>7 DEF RowInv
<1>7. CASE StatusSet
  <2>1. PICK status \in 1 .. 5 :
            /\ held' = SetStatus(held, status, Null, given.writes)
            /\ given' = [given EXCEPT !.writes = @ + 1, !.status = status,
                            !.failures = @ + (IF status \in {2, 4} THEN 1 ELSE 0)]
    BY <1>7 DEF StatusSet
  <2>2. given.writes < MaxWrites /\ held # Null
    BY <1>7 DEF StatusSet
  <2>3. /\ given'.writes = given.writes + 1 /\ given'.stat = given.stat
        /\ given'.status = status /\ given'.since = given.since
        /\ given'.failures = given.failures + (IF status \in {2, 4} THEN 1 ELSE 0)
        /\ given' = [writes |-> given'.writes, stat |-> given'.stat, status |-> given'.status,
                     failures |-> given'.failures, since |-> given'.since]
    <3> DEFINE g == given
               h == given'
    <3>1. g = [writes |-> g.writes, stat |-> g.stat, status |-> g.status,
               failures |-> g.failures, since |-> g.since]
      BY <1>4, <2>2
    <3>2. h = [g EXCEPT !.writes = @ + 1, !.status = status,
                  !.failures = @ + (IF status \in {2, 4} THEN 1 ELSE 0)]
      BY <2>1
    <3> HIDE DEF g, h
    <3>3. /\ h.writes = g.writes + 1 /\ h.stat = g.stat /\ h.status = status
          /\ h.since = g.since
          /\ h.failures = g.failures + (IF status \in {2, 4} THEN 1 ELSE 0)
          /\ h = [writes |-> h.writes, stat |-> h.stat, status |-> h.status,
                  failures |-> h.failures, since |-> h.since]
      BY <3>1, <3>2
    <3>4. QED
      BY <3>3 DEF g, h
  <2>4. /\ held' \in Rows
        /\ \A c \in Walk \cup {"path", "path_hash", "first_seen_ns"} : held'[c] = held[c]
        /\ held'.status = status
        /\ held'.fail_count = held.fail_count + (IF status \in {2, 4} THEN 1 ELSE 0)
    <3> DEFINE old == held
               row == held'
               now == given.writes
    <3>1. old \in Rows /\ now \in Int /\ old.fail_count \in Int
          /\ row = SetStatus(old, status, Null, now)
      BY <1>4, <2>1, <2>2
    <3> HIDE DEF old, row, now
    <3>2. /\ row \in Rows
          /\ \A c \in Walk \cup {"path", "path_hash", "first_seen_ns"} : row[c] = old[c]
          /\ row.status = status
          /\ row.fail_count = old.fail_count + (IF status \in {2, 4} THEN 1 ELSE 0)
      BY <3>1, StatusIs, SMTT(30)
    <3>3. QED
      BY <3>2 DEF old, row
  <2>5. /\ given'.writes \in 0 .. MaxWrites /\ given'.failures \in 0 .. given'.writes
        /\ held'.fail_count = given'.failures
    BY <1>3, <1>4, <2>2, <2>3, <2>4
  <2>6. held' # Null
    BY <2>4, RowsAssumption DEF Rows, Column
  <2>7. QED
    BY <1>4, <2>2, <2>3, <2>4, <2>5, <2>6 DEF RowInv
<1>8. CASE UNCHANGED vars
  BY <1>4, <1>8 DEF RowInv, vars
<1>9. QED
  BY <1>5, <1>6, <1>7, <1>8

-----------------------------------------------------------------------------
(***************************************************************************)
(* Times.                                                                  *)
(***************************************************************************)
\* Whole turns make no difference to what is left.
LEMMA ModTurns ==
    ASSUME NEW b \in Nat \ {0}, NEW r \in 0 .. b - 1, NEW q \in Int
    PROVE  (r - b * q) % b = r
<1> DEFINE z == r - b * q
           d == z \div b
           m == z % b
<1>1. z \in Int /\ d \in Int /\ m \in 0 .. b - 1 /\ z = b * d + m
  OBVIOUS
<1>2. r - m = b * (q + d)
  <2> HIDE DEF d, m
  <2>1. r - b * q = b * d + m
    BY <1>1
  <2>2. b * (q + d) = b * q + b * d
    BY <1>1
  <2>3. QED
    BY <1>1, <2>1, <2>2
<1> HIDE DEF d, m, z
<1>3. q + d = 0
  <2> DEFINE k == q + d
  <2>1. k \in Int /\ r - m = b * k /\ r - m < b /\ -b < r - m
    BY <1>1, <1>2
  <2> HIDE DEF k
  <2>2. k >= 1 => b * k >= b
    BY <2>1
  <2>3. k <= -1 => b * k <= -b
    BY <2>1
  <2>4. QED
    BY <2>1, <2>2, <2>3 DEF k
<1>4. r = m
  BY <1>1, <1>2, <1>3
<1>5. QED
  BY <1>4 DEF m, z

LEMMA Divides ==
    ASSUME NEW n \in Int, NEW d \in Nat \ {0}
    PROVE  n \div d \in Int /\ n % d \in 0 .. d - 1 /\ n = d * (n \div d) + (n % d)
  OBVIOUS

\* Remainders of numbers that are whole turns apart.
LEMMA TurnsLost ==
    ASSUME NEW b \in Nat \ {0}, NEW z \in Int, NEW q \in Int
    PROVE  (z - b * q) % b = z % b
<1> DEFINE d == z \div b
           r == z % b
<1>1. d \in Int /\ r \in 0 .. b - 1 /\ z = b * d + r
  BY Divides
<1> HIDE DEF d, r
<1>2. z - b * q = r - b * (q - d)
  <2>1. b * (q - d) = b * q - b * d
    BY <1>1
  <2> DEFINE x == b * q
             y == b * d
  <2>2. x \in Int /\ y \in Int /\ b * (q - d) = x - y /\ z = y + r
    BY <1>1, <2>1
  <2> HIDE DEF x, y
  <2>3. z - x = r - (x - y)
    BY <1>1, <2>2
  <2>4. QED
    BY <2>2, <2>3 DEF x
<1>3. (r - b * (q - d)) % b = r
  <2> DEFINE k == q - d
  <2>1. k \in Int
    BY <1>1
  <2> HIDE DEF k
  <2>2. (r - b * k) % b = r
    BY <1>1, <2>1, ModTurns
  <2>3. QED
    BY <2>2 DEF k
<1>4. QED
  BY <1>2, <1>3 DEF r

LEMMA SameRemainder ==
    ASSUME NEW b \in Nat \ {0}, NEW x \in Int, NEW y \in Int
    PROVE  x % b = y % b <=> (x - y) % b = 0
<1>1. ASSUME x % b = y % b PROVE (x - y) % b = 0
  <2> DEFINE d == x \div b
             e == y \div b
             r == x % b
             k == e - d
  <2>1. d \in Int /\ e \in Int /\ r \in Int /\ x = b * d + r /\ y = b * e + r
    BY <1>1, Divides
  <2> HIDE DEF d, e, r
  <2>2. k \in Int /\ b * k = b * e - b * d
    BY <2>1
  <2> HIDE DEF k
  <2>3. x - y = 0 - b * k
    <3> DEFINE p == b * d
               q == b * e
    <3>1. p \in Int /\ q \in Int /\ x = p + r /\ y = q + r /\ b * k = q - p
      BY <2>1, <2>2
    <3> HIDE DEF p, q
    <3>2. QED
      BY <2>1, <3>1
  <2>4. 0 \in 0 .. b - 1
    OBVIOUS
  <2>5. (0 - b * k) % b = 0
    BY <2>2, <2>4, ModTurns
  <2>6. QED
    BY <2>3, <2>5
<1>2. ASSUME (x - y) % b = 0 PROVE x % b = y % b
  <2> DEFINE z == x - y
             d == z \div b
             k == -d
  <2>1. z \in Int /\ d \in Int /\ z = b * d
    <3>1. z \in Int /\ z % b = 0
      BY <1>2
    <3> HIDE DEF z
    <3>2. z \div b \in Int /\ z = b * (z \div b) + (z % b)
      BY <3>1, Divides
    <3> DEFINE m == b * (z \div b)
    <3>3. m \in Int
      BY <3>2
    <3> HIDE DEF m
    <3>4. z = m
      BY <3>1, <3>2, <3>3 DEF m
    <3>5. QED
      BY <3>1, <3>2, <3>4 DEF m
  <2> HIDE DEF d
  <2>2. k \in Int /\ b * k = -(b * d)
    BY <2>1
  <2> HIDE DEF k
  <2>3. x = y - b * k
    <3> DEFINE m == b * d
    <3>1. m \in Int /\ x - y = m /\ b * k = -m
      BY <2>1, <2>2
    <3> HIDE DEF m
    <3>2. QED
      BY <3>1
  <2>4. (y - b * k) % b = y % b
    BY <2>2, TurnsLost
  <2>5. QED
    BY <2>3, <2>4
<1>3. QED
  BY <1>1, <1>2

\* Two casts are the same if they are whole turns apart, and only then.
LEMMA SameCast ==
    ASSUME NEW x \in Int, NEW y \in Int
    PROVE  AsI64(x) = AsI64(y) <=> (x - y) % (2 * Half) = 0
<1> DEFINE b == 2 * Half
           p == x + Half
           q == y + Half
<1>1. Half \in Nat \ {0} /\ b \in Nat \ {0}
  BY WidthAssumption
<1>2. p \in Int /\ q \in Int /\ p - q = x - y
  BY <1>1
<1>3. AsI64(x) = (p % b) - Half /\ AsI64(y) = (q % b) - Half
  BY DEF AsI64
<1> HIDE DEF b, p, q
<1>4. p % b \in Int /\ q % b \in Int
  BY <1>1, <1>2
<1>5. AsI64(x) = AsI64(y) <=> p % b = q % b
  BY <1>1, <1>3, <1>4
<1>6. p % b = q % b <=> (p - q) % b = 0
  BY <1>1, <1>2, SameRemainder
<1>7. QED
  BY <1>2, <1>5, <1>6 DEF b

\* What is lost of a sum on the way makes no difference to its cast.
LEMMA SumsWrap ==
    ASSUME NEW a \in Int, NEW n \in Int
    PROVE  AsI64(AsI64(a) + n) = AsI64(a + n)
<1> DEFINE b == 2 * Half
           h == AsI64(a)
<1>1. h \in Int /\ AsI64(h) = AsI64(a)
  <2>1. h \in Int
    BY Cast
  <2>2. (h + Half) % b = (a + Half) % b
    <3> DEFINE p == a + Half
    <3>1. Half \in Nat \ {0} /\ b \in Nat \ {0} /\ p \in Int
      BY WidthAssumption
    <3>2. h = (p % b) - Half
      BY DEF AsI64
    <3> HIDE DEF b, p, h
    <3>3. p % b \in 0 .. b - 1
      BY <3>1
    <3>4. h + Half = p % b
      BY <3>1, <3>2, <3>3
    <3> DEFINE r == p % b
    <3>5. r \in 0 .. b - 1
      BY <3>3
    <3> HIDE DEF r
    <3>6. r % b = r
      BY <3>1, <3>5, ModSmall
    <3>7. QED
      BY <3>4, <3>6 DEF r, p
  <2>3. QED
    BY <2>1, <2>2 DEF AsI64, b
<1> HIDE DEF h
<1>2. (h - a) % (2 * Half) = 0
  BY <1>1, SameCast
<1>3. (h + n) - (a + n) = h - a
  BY <1>1
<1>4. h + n \in Int /\ a + n \in Int
  BY <1>1
<1>5. AsI64(h + n) = AsI64(a + n) <=> ((h + n) - (a + n)) % (2 * Half) = 0
  BY <1>4, SameCast
<1>6. QED
  BY <1>2, <1>3, <1>5 DEF h

\* A sum that fits is right even if what it is made of did not fit.
LEMMA SumsFit ==
    ASSUME NEW a \in Int, NEW n \in Int, a + n \in I64
    PROVE  AsI64(AsI64(a) + n) = a + n
<1> DEFINE b == 2 * Half
           x == (a + Half) % b
           q == (a + Half) \div b
           s == a + n
<1>1. Half \in Nat \ {0} /\ b \in Nat \ {0} /\ b = 2 * Half
  BY WidthAssumption
<1>2. s \in Int /\ s + Half \in 0 .. b - 1
  BY <1>1 DEF I64
<1> HIDE DEF b
<1>3. x \in Int /\ q \in Int /\ a + Half = b * q + x
  <2> DEFINE z == a + Half
  <2>1. z \in Int
    BY <1>1
  <2> HIDE DEF z
  <2>2. z \div b \in Int /\ z % b \in 0 .. b - 1 /\ z = b * (z \div b) + (z % b)
    BY <1>1, <2>1, Divides
  <2>3. z % b \in Int
    BY <1>1, <2>2
  <2>4. QED
    BY <2>2, <2>3 DEF z
<1> HIDE DEF x, q
<1>4. AsI64(a) = x - Half
  BY DEF AsI64, x, b
<1>5. (AsI64(a) + n) + Half = (s + Half) - b * q
  <2> DEFINE y == b * q
  <2>1. y \in Int /\ a + Half = y + x
    BY <1>1, <1>3
  <2> HIDE DEF y
  <2>2. (AsI64(a) + n) + Half = (s + Half) - y
    BY <1>1, <1>3, <1>4, <2>1
  <2>3. QED
    BY <2>2 DEF y
<1>6. ((s + Half) - b * q) % b = s + Half
  <2> DEFINE r == s + Half
  <2>1. r \in 0 .. b - 1
    BY <1>2
  <2> HIDE DEF r
  <2>2. (r - b * q) % b = r
    BY <1>1, <1>3, <2>1, ModTurns
  <2>3. QED
    BY <2>2 DEF r
<1>7. AsI64(AsI64(a) + n) = (((AsI64(a) + n) + Half) % b) - Half
  BY DEF AsI64, b
<1>8. QED
  BY <1>1, <1>2, <1>5, <1>6, <1>7

\* A time that fits is kept, and tells its seconds and nanoseconds.
LEMMA TimeIs ==
    ASSUME NEW stat \in Stats, Fits(stat)
    PROVE  MtimeNs(stat.secs, stat.nsec) = stat.secs * Nano + stat.nsec
<1>1. stat.secs \in Int /\ stat.nsec \in Int /\ Nano \in Nat
  BY EntryIs, NanoAssumption
<1> DEFINE a == stat.secs * Nano
           n == stat.nsec
<1>2. a \in Int /\ n \in Int /\ a + n \in I64
  BY <1>1 DEF Fits, Time
<1> HIDE DEF a, n
<1>3. AsI64(AsI64(a) + n) = a + n
  BY <1>2, SumsFit
<1>4. QED
  BY <1>3 DEF MtimeNs, a, n

LEMMA TimeWraps ==
    ASSUME NEW stat \in Stats
    PROVE  Time(stat) \in Int /\ MtimeNs(stat.secs, stat.nsec) = AsI64(Time(stat))
<1>1. stat.secs \in Int /\ stat.nsec \in Int /\ Nano \in Nat
  BY EntryIs, NanoAssumption
<1> DEFINE a == stat.secs * Nano
           n == stat.nsec
<1>2. a \in Int /\ n \in Int /\ a + n \in Int
  BY <1>1
<1> HIDE DEF a, n
<1>3. AsI64(AsI64(a) + n) = AsI64(a + n)
  BY <1>2, SumsWrap
<1>4. QED
  BY <1>2, <1>3 DEF MtimeNs, Time, a, n

LEMMA TimesTold ==
    ASSUME NEW d \in Nat \ {0}, NEW a \in Int, NEW b \in Int,
           NEW m \in 0 .. d - 1, NEW n \in 0 .. d - 1, a * d + m = b * d + n
    PROVE  a = b /\ m = n
<1> DEFINE k == a - b
<1>1. k \in Int /\ d * k = n - m /\ n - m < d /\ -d < n - m
  <2>1. d * (a - b) = a * d - b * d
    OBVIOUS
  <2> DEFINE x == a * d
             y == b * d
  <2>2. x \in Int /\ y \in Int /\ x + m = y + n
    OBVIOUS
  <2> HIDE DEF x, y
  <2>3. x - y = n - m
    BY <2>2
  <2>4. QED
    BY <2>1, <2>3 DEF x, y
<1> HIDE DEF k
<1>2. k >= 1 => d * k >= d
  BY <1>1
<1>3. k <= -1 => d * k <= -d
  BY <1>1
<1>4. k = 0
  BY <1>1, <1>2, <1>3
<1>5. QED
  BY <1>1, <1>4 DEF k

\* What get_by_path returns of a row.
LEMMA RecordIs ==
    ASSUME RowInv, kind = "file", held # Null
    PROVE  /\ \A c \in Walk : Record(held)[c] = WalkEntry(given.stat)[c]
           /\ Record(held).path = 1 /\ Record(held).path_hash = PathHash(1)
           /\ Record(held).status = given.status /\ Record(held).fail_count = given.failures
           /\ Record(held).first_seen_ns = given.since
           /\ given.stat \in Stats
<1>1. /\ held \in Rows
      /\ given.stat \in Stats /\ given.status \in 0 .. 5 /\ given.since \in Int
      /\ \A c \in Walk : held[c] = ToColumn(Files[c], WalkEntry(given.stat)[c])
      /\ held.path = 1 /\ held.path_hash = ToColumn("u64", PathHash(1))
      /\ held.status = given.status /\ held.fail_count = given.failures
      /\ held.first_seen_ns = given.since
      /\ given.writes \in 0 .. MaxWrites /\ given.failures \in 0 .. given.writes
  BY DEF RowInv
<1>2. \A c \in Column : Record(held)[c] = FromColumn(Files[c], held[c])
  BY <1>1 DEF Record, FromRow, Rows
<1>3. ASSUME NEW c \in Walk PROVE Record(held)[c] = WalkEntry(given.stat)[c]
  <2> DEFINE v == WalkEntry(given.stat)[c]
  <2>1. Record(held)[c] = FromColumn(Files[c], ToColumn(Files[c], v))
    BY <1>1, <1>2, Columns
  <2>2. \/ Files[c] = "u64" /\ v \in U64
        \/ Files[c] = "u32" /\ v \in U32
        \/ Files[c] = "i64"
    BY <1>1, EntryIs, Columns DEF Walk
  <2> HIDE DEF v
  <2>3. FromColumn(Files[c], ToColumn(Files[c], v)) = v
    BY <2>2, ColumnIs
  <2>4. QED
    BY <2>1, <2>3 DEF v
<1>4. Record(held).path = 1 /\ Record(held).first_seen_ns = given.since
  BY <1>1, <1>2, Columns DEF FromColumn
<1>5. Record(held).path_hash = PathHash(1)
  BY <1>1, <1>2, Columns, ColumnIs, HashAssumption
<1>6. Record(held).status = given.status
  <2>1. Byte \in Nat \ {0} /\ given.status \in 0 .. Byte - 1
    BY <1>1, WidthAssumption
  <2>2. given.status % Byte = given.status
    <3> DEFINE s == given.status
    <3>1. s \in 0 .. Byte - 1
      BY <2>1
    <3> HIDE DEF s
    <3>2. s % Byte = s
      BY <2>1, <3>1, ModSmall
    <3>3. QED
      BY <3>2 DEF s
  <2>3. given.status # Null
    BY <1>1, NullAssumption
  <2>4. Record(held).status = ReadStatus(given.status)
    BY <1>1, <1>2, <2>3, Columns DEF FromColumn
  <2>5. QED
    BY <1>1, <2>2, <2>4 DEF ReadStatus, AsU8
<1>7. Record(held).fail_count = given.failures
  <2>1. given.failures \in U32
    BY <1>1, WidthAssumption, InputsAssumption DEF U32
  <2> DEFINE n == given.failures
  <2>2. n \in U32 /\ ToColumn("u32", n) = n
    BY <2>1 DEF ToColumn
  <2> HIDE DEF n
  <2>3. FromColumn("u32", n) = n
    BY <2>2, ColumnIs
  <2>4. QED
    BY <1>1, <1>2, <2>3, Columns DEF n
<1>8. QED
  BY <1>1, <1>3, <1>4, <1>5, <1>6, <1>7

-----------------------------------------------------------------------------
(***************************************************************************)
(* Rows of the metadata.                                                   *)
(***************************************************************************)
Tables == DOMAIN MetaTables

MetaInv ==
    kind = "meta" =>
        /\ DOMAIN held = Tables /\ held = [t \in Tables |-> held[t]]
        /\ DOMAIN given = Tables \cup {"writes"} /\ given = [t \in DOMAIN given |-> given[t]]
        /\ \A t \in Tables : ReadMeta(held, t) = given[t]

LEMMA MetaColumns ==
    /\ Tables = {"doc_meta", "media_meta", "archive_meta"}
    /\ \A t \in Tables : \A c \in {"page_count", "duration_ms", "total_size"} :
          c \in DOMAIN MetaTables[t] => MetaTables[t][c] \in {"u32", "u64"}
  BY DEF Tables, MetaTables, DocMeta, MediaMeta, ArchiveMeta

\* A value its column holds, and a record of which it is the one field set.
InColumn(type, v) == v = Null \/ (type = "u64" /\ v \in U64) \/ (type = "u32" /\ v \in U32)

OneField(table, c, v) == [f \in DOMAIN table |-> IF f = c THEN v ELSE Null]

\* A record whose one value fits its column is read back from its row.
LEMMA MetaReadBack ==
    ASSUME NEW t \in Tables, NEW c \in DOMAIN MetaTables[t], NEW v,
           InColumn(MetaTables[t][c], v)
    PROVE  LET record == OneField(MetaTables[t], c, v)
           IN  /\ ToRow(MetaTables[t], record) # Null
               /\ FromRow(MetaTables[t], ToRow(MetaTables[t], record)) = record
<1> DEFINE table == MetaTables[t]
           record == OneField(table, c, v)
           row == ToRow(table, record)
<1>1. Null \notin [DOMAIN table -> Int \cup {Null}]
  BY RowsAssumption DEF Tables
<1> HIDE DEF table
<1>2. DOMAIN record = DOMAIN table /\ record = [f \in DOMAIN table |-> IF f = c THEN v ELSE Null]
  BY DEF OneField
<1> HIDE DEF record
<1>3. row = [f \in DOMAIN table |-> ToColumn(table[f], record[f])]
  BY <1>2 DEF ToRow
<1>4. ASSUME NEW f \in DOMAIN table
      PROVE  /\ ToColumn(table[f], record[f]) \in Int \cup {Null}
             /\ FromColumn(table[f], ToColumn(table[f], record[f])) = record[f]
  <2>1. CASE record[f] = Null
    BY <2>1, ColumnIs
  <2>2. CASE record[f] # Null
    <3>1. f = c /\ record[f] = v
      BY <1>2, <2>2
    <3>2. \/ table[f] = "u64" /\ v \in U64
          \/ table[f] = "u32" /\ v \in U32
      BY <2>2, <3>1 DEF table, InColumn
    <3>3. v \in Int /\ FromColumn(table[f], ToColumn(table[f], v)) = v
      BY <3>2, ColumnIs
    <3>4. ToColumn(table[f], v) \in Int
      BY <3>3, ColumnIs
    <3>5. QED
      BY <3>1, <3>3, <3>4
  <2>3. QED
    BY <2>1, <2>2
<1>5. row \in [DOMAIN table -> Int \cup {Null}]
  BY <1>3, <1>4
<1>6. FromRow(table, row) = [f \in DOMAIN table |-> record[f]]
  BY <1>3, <1>4 DEF FromRow
<1>7. record = [f \in DOMAIN table |-> record[f]]
  BY <1>2
<1>8. QED
  BY <1>1, <1>5, <1>6, <1>7 DEF table, record

LEMMA InitMeta == Init => MetaInv
<1> SUFFICES ASSUME Init, kind = "meta" PROVE MetaInv
  BY DEF MetaInv
<1>1. held = NoMeta /\ given = Both(NoMeta, [writes |-> 0])
  BY DEF Init
<1>2. NoMeta = [t \in Tables |-> Null] /\ "writes" \notin Tables
  BY MetaColumns DEF NoMeta, Tables
<1>3. /\ DOMAIN given = Tables \cup {"writes"} /\ given = [t \in DOMAIN given |-> given[t]]
      /\ \A t \in Tables : given[t] = Null
  BY <1>1, <1>2 DEF Both
<1>4. QED
  BY <1>1, <1>2, <1>3 DEF MetaInv, ReadMeta

LEMMA MetaStep == MetaInv /\ [Next]_vars => MetaInv'
<1> SUFFICES ASSUME MetaInv, [Next]_vars PROVE MetaInv'
  OBVIOUS
<1>1. kind' = kind
  BY DEF Next, Walked, StatusSet, MetaWritten, MetaDeleted, Hello, Send, Receive,
         OpenIndex, Load, Save, Show, vars
<1>2. SUFFICES ASSUME kind = "meta" PROVE MetaInv'
  BY <1>1 DEF MetaInv
<1>3. /\ DOMAIN held = Tables /\ held = [t \in Tables |-> held[t]]
      /\ DOMAIN given = Tables \cup {"writes"} /\ given = [t \in DOMAIN given |-> given[t]]
      /\ \A t \in Tables : ReadMeta(held, t) = given[t]
  BY <1>2 DEF MetaInv
<1>4. MetaWritten \/ MetaDeleted \/ UNCHANGED vars
  BY <1>2 DEF Next, Walked, StatusSet, Hello, Send, Receive, OpenIndex, Load, Save, Show
<1>5. CASE MetaWritten
  <2>1. PICK t \in Tables, v \in MetaValues, c \in {"page_count", "duration_ms", "total_size"} :
            /\ c \in DOMAIN MetaTables[t]
            /\ MetaTables[t][c] = "u32" => v = Null \/ v \in U32
            /\ held' = UpsertMeta(held, t,
                          [f \in DOMAIN MetaTables[t] |-> IF f = c THEN v ELSE Null])
            /\ given' = [given EXCEPT
                          ![t] = [f \in DOMAIN MetaTables[t] |-> IF f = c THEN v ELSE Null],
                          !.writes = @ + 1]
    BY <1>5 DEF MetaWritten, Tables
  <2> DEFINE record == OneField(MetaTables[t], c, v)
             row == ToRow(MetaTables[t], record)
  <2>2. row # Null /\ FromRow(MetaTables[t], row) = record
    <3>1. InColumn(MetaTables[t][c], v)
      BY <2>1, MetaColumns, InputsAssumption DEF InColumn
    <3>2. QED
      BY <2>1, <3>1, MetaReadBack
  <2>3. held' = [held EXCEPT ![t] = row]
    BY <2>1 DEF UpsertMeta, OneField
  <2>4. given' = [given EXCEPT ![t] = record, !.writes = @ + 1]
    BY <2>1 DEF OneField
  <2> HIDE DEF record, row
  <2>5. /\ DOMAIN held' = Tables /\ held' = [u \in Tables |-> held'[u]]
        /\ held'[t] = row /\ \A u \in Tables \ {t} : held'[u] = held[u]
    BY <1>3, <2>3
  <2>6. /\ DOMAIN given' = Tables \cup {"writes"} /\ given' = [u \in DOMAIN given' |-> given'[u]]
        /\ given'[t] = record /\ \A u \in Tables \ {t} : given'[u] = given[u]
    BY <1>3, <2>4, MetaColumns
  <2>7. \A u \in Tables : ReadMeta(held', u) = given'[u]
    BY <1>3, <2>2, <2>5, <2>6 DEF ReadMeta
  <2>8. QED
    BY <2>5, <2>6, <2>7 DEF MetaInv, ReadMeta
<1>6. CASE MetaDeleted
  <2>1. held' = NoMeta /\ given' = Both(NoMeta, [writes |-> given.writes + 1])
    BY <1>6 DEF MetaDeleted, DeleteMeta
  <2>2. NoMeta = [t \in Tables |-> Null] /\ "writes" \notin Tables
    BY MetaColumns DEF NoMeta, Tables
  <2>3. /\ DOMAIN given' = Tables \cup {"writes"} /\ given' = [t \in DOMAIN given' |-> given'[t]]
        /\ \A t \in Tables : given'[t] = Null
    BY <2>1, <2>2 DEF Both
  <2>4. QED
    BY <2>1, <2>2, <2>3 DEF MetaInv, ReadMeta
<1>7. CASE UNCHANGED vars
  BY <1>3, <1>7 DEF MetaInv, ReadMeta, vars
<1>8. QED
  BY <1>4, <1>5, <1>6, <1>7

-----------------------------------------------------------------------------
(***************************************************************************)
(* Messages.                                                               *)
(***************************************************************************)
\* A message carries structs that are declared.
LEMMA Declared ==
    ASSUME NEW enum \in Enums, NEW t \in DOMAIN enum
    PROVE  Inside(enum[t]) \subseteq DOMAIN Structs
<1>1. DOMAIN Structs = DOMAIN CoreStructs \cup DOMAIN MessageStructs
  BY DEF Structs, Both
<1>2. DOMAIN MessageStructs =
          DOMAIN HandshakeStructs \cup DOMAIN RequestStructs \cup
          DOMAIN ReplyStructs \cup DOMAIN ProgressStructs
  BY DEF MessageStructs, Both
<1>3. /\ DOMAIN CoreStructs = {"SearchFilters", "DocMeta", "MediaMeta"}
      /\ DOMAIN HandshakeStructs = {"TerminalCaps", "HandshakeReq", "HandshakeResp"}
      /\ DOMAIN RequestStructs =
            {"Unit", "SearchRequestData", "IndexOptions", "InfoRequestData",
             "VerifyRequestData", "ReindexRequestData", "DeleteRequestData"}
      /\ DOMAIN ReplyStructs =
            {"SearchHit", "SearchResultData", "IndexStats", "IndexCompleteData", "FileInfo",
             "InfoResultData", "IndexSummary", "StatsResultData", "CorruptedFile",
             "VerifyResultData", "DeleteResultData"}
      /\ DOMAIN ProgressStructs = {"ProgressChild", "ProgressEvent", "ErrorData"}
  BY DEF CoreStructs, HandshakeStructs, RequestStructs, ReplyStructs, ProgressStructs
<1>4. enum[t] \in
          {"HandshakeReq", "SearchRequestData", "IndexOptions", "InfoRequestData", "Unit",
           "VerifyRequestData", "ReindexRequestData", "DeleteRequestData",
           "HandshakeResp", "SearchResultData", "IndexCompleteData", "InfoResultData",
           "StatsResultData", "VerifyResultData", "DeleteResultData", "ProgressEvent",
           "ErrorData"}
  BY DEF Enums, ClientMessage, ServerMessage
<1>5. Inside(enum[t]) \subseteq
          {enum[t], "TerminalCaps", "SearchFilters", "SearchHit", "IndexStats", "FileInfo",
           "DocMeta", "MediaMeta", "IndexSummary", "CorruptedFile", "ProgressChild"}
  BY DEF Inside
<1>6. QED
  BY <1>1, <1>2, <1>3, <1>4, <1>5

\* Every field this build declares has something to stand in for it.
LEMMA AllMayBeMissing ==
    ASSUME NEW struct \in DOMAIN Structs, NEW f
    PROVE  MayBeMissing(struct, f)
<1>1. CASE struct \in DOMAIN MessageStructs
  BY <1>1 DEF MayBeMissing, WithDefault
<1>2. CASE struct \notin DOMAIN MessageStructs
  <2>1. struct \in DOMAIN CoreStructs /\ Structs[struct] = CoreStructs[struct]
    BY <1>2 DEF Structs, Both
  <2>2. struct \in {"SearchFilters", "DocMeta", "MediaMeta"}
    BY <2>1 DEF CoreStructs
  <2>3. CASE struct = "SearchFilters"
    <3>1. OptionFields[struct] = Structs[struct] \ {"tags"}
      BY <2>1, <2>3 DEF OptionFields, CoreStructs
    <3>2. QED
      BY <2>3, <3>1 DEF MayBeMissing, OwnDefault
  <2>4. CASE struct \in {"DocMeta", "MediaMeta"}
    <3>1. OptionFields[struct] = Structs[struct]
      BY <2>1, <2>4 DEF OptionFields, CoreStructs
    <3>2. QED
      BY <3>1 DEF MayBeMissing
  <2>5. QED
    BY <2>2, <2>3, <2>4
<1>3. QED
  BY <1>1, <1>2

\* What a build makes of a message.
LEMMA MessageUnderstood ==
    ASSUME MessageInv, kind = "message", got # Null
    PROVE  PeersUnderstand
<1> DEFINE known == Fields(given.to, given.struct)
           said == DOMAIN given.body
<1>1. /\ held # Null /\ given.struct \in DOMAIN Structs
      /\ said = Fields(given.from, given.struct)
      /\ held = ToVecNamed(given.from, given.tag, given.struct, given.body)
      /\ got = FromSlice(given.to, given.enum, held)
  BY DEF MessageInv
<1>2. /\ held.tag = given.tag /\ held.struct = given.struct /\ DOMAIN held.map = said
      /\ \A f \in said : held.map[f] = given.body[f]
  BY <1>1 DEF ToVecNamed
<1>3. ~\E f \in known \ said : ~MayBeMissing(held.struct, f)
  BY <1>1, <1>2, AllMayBeMissing
<1>4. Refused = [code |-> 1]
  BY DEF Refused, ExitCode
<1> HIDE DEF known, said
<1>5. got = IF \/ given.tag \notin Tags(given.to, given.enum)
               \/ \E f \in known \cap said : given.body[f] \notin Values(given.to, f)
            THEN [code |-> 1]
            ELSE [body |-> [f \in known |-> IF f \in said THEN given.body[f] ELSE "zero"]]
  <2>1. got = IF \/ given.tag \notin Tags(given.to, given.enum)
                 \/ \E f \in known \cap said : held.map[f] \notin Values(given.to, f)
                 \/ \E f \in known \ said : ~MayBeMissing(held.struct, f)
              THEN Refused
              ELSE [body |-> [f \in known |-> IF f \in said THEN held.map[f] ELSE "zero"]]
    BY <1>1, <1>2 DEF FromSlice, known
  <2>2. [f \in known |-> IF f \in said THEN held.map[f] ELSE "zero"] =
        [f \in known |-> IF f \in said THEN given.body[f] ELSE "zero"]
    BY <1>2
  <2>3. (\E f \in known \cap said : held.map[f] \notin Values(given.to, f)) <=>
        (\E f \in known \cap said : given.body[f] \notin Values(given.to, f))
    BY <1>2
  <2>4. QED
    BY <1>3, <1>4, <2>1, <2>2, <2>3
<1>6. QED
  BY <1>5 DEF PeersUnderstand, known, said

\* Two ranges of versions.
LEMMA HelloUnderstood ==
    ASSUME HelloInv, kind = "hello", got # Null
    PROVE  PeersUnderstand
<1> DEFINE a == given.clientMin
           b == given.clientMax
           c == given.serverMin
           d == given.serverMax
           common == (a .. b) \cap (c .. d)
           hi == IF b < d THEN b ELSE d
           lo == IF a > c THEN a ELSE c
<1>1. a \in Nat /\ b \in Nat /\ c \in Nat /\ d \in Nat
  BY DEF HelloInv
<1>2. got = IF lo > hi THEN [code |-> 5] ELSE [version |-> hi]
  BY DEF HelloInv, Negotiate, ExitCode
<1> HIDE DEF a, b, c, d
<1>3. lo > hi => common = {}
  BY <1>1
<1>4. ~(lo > hi) => hi \in common /\ \A v \in common : v <= hi
  BY <1>1
<1>5. CASE lo > hi
  BY <1>2, <1>3, <1>5 DEF PeersUnderstand, a, b, c, d
<1>6. CASE ~(lo > hi)
  <2>1. got = [version |-> hi] /\ common # {}
    BY <1>2, <1>4, <1>6
  <2>2. "version" \in DOMAIN got /\ got.version = hi
    BY <2>1
  <2>3. QED
    BY <1>4, <1>6, <2>1, <2>2 DEF PeersUnderstand, a, b, c, d
<1>7. QED
  BY <1>5, <1>6

\* An index.toml.
LEMMA IdentityUnderstood ==
    ASSUME IdentityInv, kind = "identity"
    PROVE  PeersUnderstand
<1>1. CASE given = Null
  BY <1>1 DEF PeersUnderstand
<1>2. CASE given # Null
  <2>1. got = OpenIdentity(given, held)
    BY <1>2 DEF IdentityInv
  <2>2. OpenIdentity(given, held) =
            IF ~ IndexIdentity \subseteq held.keys THEN [code |-> 78]
            ELSE IF held.version # given THEN [code |-> 6] ELSE [version |-> given]
    BY DEF OpenIdentity, LoadIdentity, CheckCompatible, ExitCode
  <2>3. /\ "code" \in DOMAIN [code |-> 78] /\ "code" \in DOMAIN [code |-> 6]
    OBVIOUS
  <2>4. QED
    BY <2>1, <2>2, <2>3 DEF PeersUnderstand
<1>3. QED
  BY <1>1, <1>2

-----------------------------------------------------------------------------
(***************************************************************************)
(* The steps.                                                              *)
(***************************************************************************)
LEMMA InitPeerInv == Init => PeerInv
<1> SUFFICES ASSUME Init PROVE PeerInv
  OBVIOUS
<1>1. MessageInv
  BY DEF Init, MessageInv
<1>2. HelloInv
  BY VersionsAssumption DEF Init, HelloInv
<1>3. IdentityInv
  BY DEF Init, IdentityInv
<1>4. QED
  BY <1>1, <1>2, <1>3 DEF PeerInv

LEMMA SendStep ==
    ASSUME MessageInv, Send
    PROVE  MessageInv'
<1>1. PICK enum \in Enums : \E t \in DOMAIN enum \cup {"NewMessage"} :
          \E struct \in IF t \in DOMAIN enum THEN Inside(enum[t]) ELSE {"Unit"} :
             \E pair \in Pairs(struct) : \E body \in Bodies(pair[1], struct) :
                /\ held' = ToVecNamed(pair[1], t, struct, body)
                /\ given' = [enum |-> enum, tag |-> t, struct |-> struct, body |-> body,
                             from |-> pair[1], to |-> pair[2]]
  BY ZenonT(60) DEF Send
<1>2. PICK t \in DOMAIN enum \cup {"NewMessage"} :
          \E struct \in IF t \in DOMAIN enum THEN Inside(enum[t]) ELSE {"Unit"} :
             \E pair \in Pairs(struct) : \E body \in Bodies(pair[1], struct) :
                /\ held' = ToVecNamed(pair[1], t, struct, body)
                /\ given' = [enum |-> enum, tag |-> t, struct |-> struct, body |-> body,
                             from |-> pair[1], to |-> pair[2]]
  BY <1>1
<1>3. PICK struct \in IF t \in DOMAIN enum THEN Inside(enum[t]) ELSE {"Unit"} :
          \E pair \in Pairs(struct) : \E body \in Bodies(pair[1], struct) :
                /\ held' = ToVecNamed(pair[1], t, struct, body)
                /\ given' = [enum |-> enum, tag |-> t, struct |-> struct, body |-> body,
                             from |-> pair[1], to |-> pair[2]]
  BY <1>2
<1>4. PICK pair \in Pairs(struct) : \E body \in Bodies(pair[1], struct) :
                /\ held' = ToVecNamed(pair[1], t, struct, body)
                /\ given' = [enum |-> enum, tag |-> t, struct |-> struct, body |-> body,
                             from |-> pair[1], to |-> pair[2]]
  BY <1>3
<1>5. PICK body \in Bodies(pair[1], struct) :
                /\ held' = ToVecNamed(pair[1], t, struct, body)
                /\ given' = [enum |-> enum, tag |-> t, struct |-> struct, body |-> body,
                             from |-> pair[1], to |-> pair[2]]
  BY <1>4
<1>6. got' = Null /\ kind = "message"
  BY DEF Send, MessageInv
<1>7. struct \in DOMAIN Structs
  <2>1. CASE t \in DOMAIN enum
    BY <1>1, <1>3, <2>1, Declared
  <2>2. CASE t \notin DOMAIN enum
    <3>1. struct = "Unit"
      BY <1>3, <2>2
    <3>2. "Unit" \in DOMAIN Structs
      BY DEF Structs, MessageStructs, RequestStructs, Both
    <3>3. QED
      BY <3>1, <3>2
  <2>3. QED
    BY <2>1, <2>2
<1>8. pair = <<pair[1], pair[2]>>
  BY <1>4 DEF Pairs
<1>9. DOMAIN body = Fields(pair[1], struct)
  BY <1>5 DEF Bodies
<1>10. QED
  BY <1>4, <1>5, <1>6, <1>7, <1>8, <1>9 DEF MessageInv

LEMMA PeerStep == PeerInv /\ [Next]_vars => PeerInv'
<1> SUFFICES ASSUME PeerInv, [Next]_vars PROVE PeerInv'
  OBVIOUS
<1>1. MessageInv /\ HelloInv /\ IdentityInv
  BY DEF PeerInv
<1>2. CASE kind \in {"file", "meta", "settings", "name"}
  <2>1. kind' = kind
    BY <1>2 DEF Next, Walked, StatusSet, MetaWritten, MetaDeleted, Hello, Send, Receive,
                OpenIndex, Load, Save, Show, vars
  <2>2. QED
    BY <1>2, <2>1 DEF PeerInv, MessageInv, HelloInv, IdentityInv
<1>3. CASE kind = "message"
  <2>1. Send \/ Receive \/ UNCHANGED vars
    BY <1>3 DEF Next, Walked, StatusSet, MetaWritten, MetaDeleted, Hello,
                OpenIndex, Load, Save, Show
  <2>2. kind' = "message"
    BY <1>3, <2>1 DEF Send, Receive, vars
  <2>3. MessageInv'
    <3>1. CASE Send
      BY <1>1, <3>1, SendStep
    <3>2. CASE Receive
      BY <1>1, <1>3, <3>2 DEF Receive, MessageInv
    <3>3. CASE UNCHANGED vars
      BY <1>1, <1>3, <3>3 DEF vars, MessageInv
    <3>4. QED
      BY <2>1, <3>1, <3>2, <3>3
  <2>4. QED
    BY <2>2, <2>3 DEF PeerInv, HelloInv, IdentityInv
<1>4. CASE kind = "hello"
  <2>1. Hello \/ UNCHANGED vars
    BY <1>4 DEF Next, Walked, StatusSet, MetaWritten, MetaDeleted, Send, Receive,
                OpenIndex, Load, Save, Show
  <2>2. kind' = "hello" /\ given' = given
    BY <1>4, <2>1 DEF Hello, vars
  <2>3. HelloInv'
    BY <1>1, <1>4, <2>1, <2>2 DEF Hello, vars, HelloInv
  <2>4. QED
    BY <2>2, <2>3 DEF PeerInv, MessageInv, IdentityInv
<1>5. CASE kind = "identity"
  <2>1. OpenIndex \/ UNCHANGED vars
    BY <1>5 DEF Next, Walked, StatusSet, MetaWritten, MetaDeleted, Hello, Send, Receive,
                Load, Save, Show
  <2>2. kind' = "identity"
    BY <1>5, <2>1 DEF OpenIndex, vars
  <2>3. IdentityInv'
    <3>1. CASE OpenIndex
      <4>1. got' = OpenIdentity(given', held')
        BY <3>1 DEF OpenIndex
      <4>2. QED
        BY <4>1 DEF IdentityInv
    <3>2. CASE UNCHANGED vars
      BY <1>1, <3>2 DEF vars, IdentityInv
    <3>3. QED
      BY <2>1, <3>1, <3>2
  <2>4. QED
    BY <2>2, <2>3 DEF PeerInv, MessageInv, HelloInv
<1>6. CASE kind \notin {"file", "meta", "settings", "name", "message", "hello", "identity"}
  <2>1. kind' = kind
    BY <1>6 DEF Next, Walked, StatusSet, MetaWritten, MetaDeleted, Hello, Send, Receive,
                OpenIndex, Load, Save, Show, vars
  <2>2. QED
    BY <1>6, <2>1 DEF PeerInv, MessageInv, HelloInv, IdentityInv
<1>7. QED
  BY <1>2, <1>3, <1>4, <1>5, <1>6

-----------------------------------------------------------------------------
(***************************************************************************)
(* Induction.                                                              *)
(***************************************************************************)
\* A set of numbers has a least one.
LEMMA LeastNumber ==
    ASSUME NEW T, T \subseteq Nat, T # {}
    PROVE  \E m \in T : \A n \in T : m <= n
<1> DEFINE R == OpToRel(<, Nat)
<1>1. IsWellFoundedOn(R, Nat)
  BY NatLessThanWellFounded
<1>2. \A x, y \in Nat : x < y => <<x, y>> \in R
  BY DEF OpToRel
<1> HIDE DEF R
<1>3. PICK m \in T : \A n \in T : ~ (<<n, m>> \in R)
  BY <1>1, WFMin
<1>4. ASSUME NEW n \in T PROVE m <= n
  <2>1. m \in Nat /\ n \in Nat /\ ~ (n < m)
    BY <1>2, <1>3
  <2>2. QED
    BY <2>1
<1>5. QED
  BY <1>4

\* Induction, over the numbers for which something holds.
LEMMA Induction ==
    ASSUME NEW S, 0 \in S, \A n \in Nat : n \in S => n + 1 \in S
    PROVE  \A n \in Nat : n \in S
<1> DEFINE T == {n \in Nat : n \notin S}
<1>1. SUFFICES ASSUME T # {} PROVE FALSE
  OBVIOUS
<1>2. PICK m \in T : \A n \in T : m <= n
  BY <1>1, LeastNumber
<1>3. m - 1 \in Nat /\ m - 1 \in S
  BY <1>2
<1>4. QED
  BY <1>2, <1>3

-----------------------------------------------------------------------------
(***************************************************************************)
(* Names.                                                                  *)
(***************************************************************************)
\* f joins the first n sequences of s, one after the other.
Joins(f, s, n) ==
    f = [i \in 1 .. n |-> IF i = 1 THEN s[i] ELSE f[i - 1] \o s[i]]

LEMMA JoinsExist ==
    ASSUME NEW s, NEW n \in Nat
    PROVE  \E f : Joins(f, s, n)
<1> DEFINE H == {m \in Nat : \E f : Joins(f, s, m)}
<1>1. 0 \in H
  <2>1. Joins([i \in 1 .. 0 |-> 0], s, 0)
    BY DEF Joins
  <2>2. QED
    BY <2>1
<1>2. ASSUME NEW m \in Nat, m \in H PROVE m + 1 \in H
  <2>1. PICK f : Joins(f, s, m)
    BY <1>2
  <2> DEFINE g == [i \in 1 .. m + 1 |->
                      IF i = m + 1 THEN IF m = 0 THEN s[1] ELSE f[m] \o s[m + 1] ELSE f[i]]
  <2>2. ASSUME NEW i \in 1 .. m + 1
        PROVE  g[i] = IF i = 1 THEN s[i] ELSE g[i - 1] \o s[i]
    <3>1. CASE i = m + 1 /\ m = 0
      BY <3>1
    <3>2. CASE i = m + 1 /\ m # 0
      <4>1. i - 1 = m /\ i # 1 /\ m \in 1 .. m + 1
        BY <3>2
      <4>2. g[m] = f[m]
        BY <3>2, <4>1
      <4>3. g[i] = f[m] \o s[m + 1]
        BY <3>2
      <4>4. QED
        BY <3>2, <4>1, <4>2, <4>3
    <3>3. CASE i # m + 1
      <4>1. i \in 1 .. m /\ (i # 1 => i - 1 \in 1 .. m)
        BY <3>3
      <4>2. g[i] = f[i] /\ (i # 1 => g[i - 1] = f[i - 1])
        BY <4>1
      <4>3. f[i] = IF i = 1 THEN s[i] ELSE f[i - 1] \o s[i]
        BY <2>1, <4>1 DEF Joins
      <4>4. QED
        BY <4>2, <4>3
    <3>4. QED
      BY <3>1, <3>2, <3>3
  <2>3. g = [i \in 1 .. m + 1 |-> g[i]]
    OBVIOUS
  <2> HIDE DEF g
  <2>4. Joins(g, s, m + 1)
    BY <2>2, <2>3 DEF Joins
  <2>5. QED
    BY <2>4
<1>3. QED
  <2> HIDE DEF H
  <2>1. n \in H
    BY <1>1, <1>2, Induction
  <2>2. QED
    BY <2>1 DEF H

\* Where each unit of a name has its code: code k begins after o[k - 1] units of w.
Placed(o, w, name, n) ==
    /\ o \in [0 .. n -> Nat] /\ o[0] = 0 /\ Len(w) = o[n]
    /\ \A k \in 1 .. n :
          /\ o[k] = o[k - 1] + Len(Escaped(name[k])) /\ o[k] <= o[n]
          /\ \A i \in 1 .. Len(Escaped(name[k])) : w[o[k - 1] + i] = Escaped(name[k])[i]

Letters == Units \cup {"001f"}

LEMMA Shorts ==
    ASSUME NEW S, NEW a \in S, NEW b \in S, NEW c \in S
    PROVE  /\ <<a>> \in Seq(S) /\ Len(<<a>>) = 1
           /\ <<a, b>> \in Seq(S) /\ Len(<<a, b>>) = 2
           /\ <<a, b, c>> \in Seq(S) /\ Len(<<a, b, c>>) = 3
  OBVIOUS

LEMMA Codes ==
    ASSUME NEW unit \in Units
    PROVE  Escaped(unit) \in Seq(Letters) /\ Len(Escaped(unit)) \in Nat \ {0}
<1>1. {"backslash", "n", "u", "001f", "00ff", unit} \subseteq Letters
  BY DEF Letters, Units, Characters
<1>2. /\ <<unit>> \in Seq(Letters) /\ Len(<<unit>>) = 1
      /\ <<"backslash", unit>> \in Seq(Letters) /\ Len(<<"backslash", unit>>) = 2
      /\ <<"backslash", "n">> \in Seq(Letters) /\ Len(<<"backslash", "n">>) = 2
      /\ <<"backslash", "u", "001f">> \in Seq(Letters) /\ Len(<<"backslash", "u", "001f">>) = 3
      /\ <<"backslash", "u", "00ff">> \in Seq(Letters) /\ Len(<<"backslash", "u", "00ff">>) = 3
  BY <1>1, Shorts
<1>3. Escaped(unit) \in {<<unit>>, <<"backslash", unit>>, <<"backslash", "n">>,
                         <<"backslash", "u", "001f">>, <<"backslash", "u", "00ff">>}
  BY DEF Escaped
<1> DEFINE code == Escaped(unit)
<1>4. code \in {<<unit>>, <<"backslash", unit>>, <<"backslash", "n">>,
               <<"backslash", "u", "001f">>, <<"backslash", "u", "00ff">>}
  BY <1>3
<1> HIDE DEF code
<1>5. code \in Seq(Letters) /\ (Len(code) = 1 \/ Len(code) = 2 \/ Len(code) = 3)
  BY <1>2, <1>4, Zenon
<1>6. QED
  BY <1>5 DEF code

\* A code is no beginning of another.
LEMMA CodesToldApart ==
    ASSUME NEW u \in Units, NEW v \in Units,
           \A i \in Nat : i \in 1 .. Len(Escaped(u)) /\ i \in 1 .. Len(Escaped(v))
                             => Escaped(u)[i] = Escaped(v)[i]
    PROVE  u = v
<1>1. 1 \in 1 .. Len(Escaped(u)) /\ 1 \in 1 .. Len(Escaped(v))
  BY Codes
<1>2. Escaped(u)[1] = Escaped(v)[1]
  BY <1>1
<1>3. CASE Escaped(u)[1] # "backslash"
  BY <1>2, <1>3 DEF Escaped, Units, Characters
<1>4. CASE Escaped(u)[1] = "backslash"
  <2>1. /\ u \in {"quote", "backslash", "newline", "control", "raw"}
        /\ v \in {"quote", "backslash", "newline", "control", "raw"}
    BY <1>2, <1>4 DEF Escaped, Units, Characters
  <2>2. 2 \in 1 .. Len(Escaped(u)) /\ 2 \in 1 .. Len(Escaped(v))
    BY <2>1 DEF Escaped
  <2>3. Escaped(u)[2] = Escaped(v)[2]
    BY <2>2
  <2>4. CASE u \in {"control", "raw"} /\ v \in {"control", "raw"}
    <3>1. 3 \in 1 .. Len(Escaped(u)) /\ 3 \in 1 .. Len(Escaped(v))
      BY <2>4 DEF Escaped
    <3>2. Escaped(u)[3] = Escaped(v)[3]
      BY <3>1
    <3>3. QED
      BY <2>4, <3>2 DEF Escaped
  <2>5. CASE ~(u \in {"control", "raw"} /\ v \in {"control", "raw"})
    BY <2>1, <2>3, <2>5 DEF Escaped
  <2>6. QED
    BY <2>4, <2>5
<1>5. QED
  BY <1>3, <1>4

LEMMA JoinedPlaced ==
    ASSUME NEW N \in Nat, NEW name \in [1 .. N -> Units], NEW f,
           Joins(f, [k \in DOMAIN name |-> Escaped(name[k])], N)
    PROVE  \A n \in 1 .. N : f[n] \in Seq(Letters) /\ \E o : Placed(o, f[n], name, n)
<1> DEFINE s == [k \in DOMAIN name |-> Escaped(name[k])]
<1>1. \A k \in 1 .. N : s[k] = Escaped(name[k]) /\ s[k] \in Seq(Letters) /\ name[k] \in Units
  BY Codes
<1>2. \A i \in 1 .. N : f[i] = IF i = 1 THEN s[i] ELSE f[i - 1] \o s[i]
  BY DEF Joins
<1> HIDE DEF s
<1> DEFINE Good(n) == f[n] \in Seq(Letters) /\ \E o : Placed(o, f[n], name, n)
           H == {n \in Nat : n \in 1 .. N => Good(n)}
<1>3. 0 \in H
  OBVIOUS
<1>4. ASSUME NEW n \in Nat, n \in H PROVE n + 1 \in H
  <2>1. SUFFICES ASSUME n + 1 \in 1 .. N PROVE Good(n + 1)
    OBVIOUS
  <2> DEFINE m == n + 1
             code == Escaped(name[m])
  <2>2. code \in Seq(Letters) /\ s[m] = code /\ Len(code) \in Nat
    BY <1>1, <2>1
  <2>3. CASE n = 0
    <3>1. f[m] = code
      BY <1>2, <2>1, <2>2, <2>3
    <3> DEFINE o == [k \in 0 .. 1 |-> IF k = 0 THEN 0 ELSE Len(code)]
    <3>2. Placed(o, f[m], name, m)
      BY <2>2, <2>3, <3>1 DEF Placed
    <3>3. QED
      BY <2>2, <3>1, <3>2
  <2>4. CASE n # 0
    <3>1. Good(n)
      BY <1>4, <2>1, <2>4
    <3>2. PICK o : Placed(o, f[n], name, n)
      BY <3>1
    <3> DEFINE w == f[n]
               p == [k \in 0 .. m |-> IF k = m THEN o[n] + Len(code) ELSE o[k]]
    <3>3. w \in Seq(Letters) /\ f[m] = w \o code
      <4>1. m # 1 /\ m - 1 = n /\ m \in 1 .. N
        BY <2>1, <2>4
      <4>2. f[m] = f[m - 1] \o s[m]
        BY <1>2, <4>1
      <4>3. QED
        BY <2>2, <3>1, <4>1, <4>2
    <3>4. /\ o \in [0 .. n -> Nat] /\ o[0] = 0 /\ Len(w) = o[n]
          /\ \A k \in 1 .. n :
                /\ o[k] = o[k - 1] + Len(Escaped(name[k])) /\ o[k] <= o[n]
                /\ \A i \in 1 .. Len(Escaped(name[k])) : w[o[k - 1] + i] = Escaped(name[k])[i]
      BY <3>2 DEF Placed
    <3> HIDE DEF w
    <3> DEFINE v == w \o code
    <3>5. /\ v \in Seq(Letters) /\ Len(v) = Len(w) + Len(code)
          /\ \A i \in 1 .. Len(w) : v[i] = w[i]
          /\ \A i \in 1 .. Len(code) : v[Len(w) + i] = code[i]
      BY <2>2, <3>3
    <3> HIDE DEF v
    <3>6. o[n] \in Nat /\ p \in [0 .. m -> Nat] /\ p[0] = 0 /\ p[m] = o[n] + Len(code)
          /\ \A k \in 0 .. n : p[k] = o[k]
      BY <2>2, <3>4
    <3> HIDE DEF p
    <3>7. ASSUME NEW k \in 1 .. m
          PROVE  /\ p[k] = p[k - 1] + Len(Escaped(name[k])) /\ p[k] <= p[m]
                 /\ \A i \in 1 .. Len(Escaped(name[k])) : v[p[k - 1] + i] = Escaped(name[k])[i]
      <4>1. CASE k = m
        <5>1. p[k - 1] = o[n] /\ Escaped(name[k]) = code
          BY <3>6, <4>1
        <5>2. QED
          BY <3>4, <3>5, <3>6, <4>1, <5>1
      <4>2. CASE k # m
        <5>1. k \in 1 .. n /\ k - 1 \in 0 .. n /\ k \in 0 .. n
          BY <4>2
        <5>2. p[k] = o[k] /\ p[k - 1] = o[k - 1] /\ o[k] = o[k - 1] + Len(Escaped(name[k]))
          BY <3>4, <3>6, <5>1
        <5>3. o[k] <= Len(w) /\ Len(w) = o[n] /\ p[k] <= p[m]
          BY <2>2, <3>4, <3>6, <5>1, <5>2, SMTT(30)
        <5>4. o[k] \in Nat /\ o[k - 1] \in Nat /\ Len(Escaped(name[k])) \in Nat
          <6>1. o[k] \in Nat /\ o[k - 1] \in Nat
            BY <3>4, <5>1
          <6>2. k \in 1 .. N
            BY <2>1, <5>1
          <6>3. name[k] \in Units
            BY <6>2
          <6>4. QED
            BY <6>1, <6>3, Codes
        <5>5. ASSUME NEW i \in 1 .. Len(Escaped(name[k]))
              PROVE  v[p[k - 1] + i] = Escaped(name[k])[i]
          <6>1. o[k - 1] + i \in 1 .. Len(w)
            BY <5>2, <5>3, <5>4, SMTT(30)
          <6>2. QED
            BY <3>4, <3>5, <5>1, <5>2, <6>1
        <5>6. QED
          BY <5>2, <5>3, <5>5
      <4>3. QED
        BY <4>1, <4>2
    <3>8. Placed(p, v, name, m)
      BY <3>4, <3>5, <3>6, <3>7 DEF Placed
    <3>9. QED
      BY <3>3, <3>5, <3>8 DEF v
  <2>5. QED
    BY <2>3, <2>4
<1>5. \A n \in Nat : n \in H
  <2> HIDE DEF H
  <2>1. QED
    BY <1>3, <1>4, Induction
<1>6. QED
  BY <1>5

\* Where a name is in its rendering.
LEMMA RenderingIs ==
    ASSUME NEW N \in Nat \ {0}, NEW name \in [1 .. N -> Units]
    PROVE  \E o : Placed(o, ToJsonEscaped(name), name, N)
<1> DEFINE s == [k \in DOMAIN name |-> Escaped(name[k])]
           J(f) == f = [i \in 1 .. Len(s) |-> IF i = 1 THEN s[i] ELSE f[i - 1] \o s[i]]
           join == CHOOSE f : J(f)
<1>1. s \in Seq(Seq(Letters)) /\ Len(s) = N
  <2>1. s \in [1 .. N -> Seq(Letters)]
    BY Codes
  <2>2. QED
    BY <2>1
<1>2. ToJsonEscaped(name) = join[N]
  BY <1>1 DEF ToJsonEscaped, FlattenSeq
<1> HIDE DEF s
<1>3. \E f : Joins(f, s, N)
  BY JoinsExist
<1>4. \E f : J(f)
  BY <1>1, <1>3 DEF Joins
<1>5. J(join)
  BY <1>4
<1> HIDE DEF join
<1>6. Joins(join, s, N)
  BY <1>1, <1>5 DEF Joins
<1>7. Joins(join, [k \in DOMAIN name |-> Escaped(name[k])], N)
  BY <1>6 DEF s
<1>8. N \in 1 .. N
  OBVIOUS
<1>9. QED
  BY <1>2, <1>7, <1>8, JoinedPlaced

\* What is shown alike is alike.
LEMMA RenderingsToldApart ==
    ASSUME NEW M \in Nat \ {0}, NEW a \in [1 .. M -> Units],
           NEW N \in Nat \ {0}, NEW b \in [1 .. N -> Units], M <= N,
           ToJsonEscaped(a) = ToJsonEscaped(b)
    PROVE  a = b
<1> DEFINE w == ToJsonEscaped(a)
<1>1. PICK o : Placed(o, w, a, M)
  BY RenderingIs
<1>2. PICK p : Placed(p, w, b, N)
  BY RenderingIs
<1> HIDE DEF w
<1>3. /\ \A k \in 1 .. M : a[k] \in Units /\ Len(Escaped(a[k])) \in Nat \ {0}
      /\ \A k \in 1 .. N : b[k] \in Units /\ Len(Escaped(b[k])) \in Nat \ {0}
  <2>1. (\A k \in 1 .. M : a[k] \in Units) /\ (\A k \in 1 .. N : b[k] \in Units)
    OBVIOUS
  <2>2. \A u \in Units : Len(Escaped(u)) \in Nat \ {0}
    BY Codes
  <2>3. QED
    BY <2>1, <2>2
<1> DEFINE H == {n \in Nat : n <= M => o[n] = p[n] /\ \A k \in 1 .. n : a[k] = b[k]}
<1>4. 0 \in H
  BY <1>1, <1>2 DEF Placed
<1>5. ASSUME NEW n \in Nat, n \in H PROVE n + 1 \in H
  <2>1. SUFFICES ASSUME n + 1 <= M
                 PROVE  o[n + 1] = p[n + 1] /\ \A k \in 1 .. n + 1 : a[k] = b[k]
    OBVIOUS
  <2> DEFINE m == n + 1
  <2>2. /\ m \in 1 .. M /\ m \in 1 .. N /\ m - 1 = n /\ n \in 0 .. M /\ n \in 0 .. N
        /\ o[n] = p[n] /\ \A k \in 1 .. n : a[k] = b[k]
    BY <1>5, <2>1
  <2> HIDE DEF m
  <2>3. /\ o[m] = o[n] + Len(Escaped(a[m]))
        /\ \A i \in 1 .. Len(Escaped(a[m])) : w[o[n] + i] = Escaped(a[m])[i]
    BY <1>1, <2>2 DEF Placed
  <2>4. /\ p[m] = p[n] + Len(Escaped(b[m]))
        /\ \A i \in 1 .. Len(Escaped(b[m])) : w[p[n] + i] = Escaped(b[m])[i]
    BY <1>2, <2>2 DEF Placed
  <2>5. \A i \in Nat : i \in 1 .. Len(Escaped(a[m])) /\ i \in 1 .. Len(Escaped(b[m]))
                          => Escaped(a[m])[i] = Escaped(b[m])[i]
    BY <2>2, <2>3, <2>4
  <2>6. a[m] = b[m]
    BY <1>3, <2>2, <2>5, CodesToldApart
  <2>7. o[m] = p[m]
    BY <2>2, <2>3, <2>4, <2>6
  <2>8. QED
    BY <2>2, <2>6, <2>7 DEF m
<1>6. M \in H
  <2> HIDE DEF H
  <2>1. QED
    BY <1>4, <1>5, Induction
<1>7. M = N
  <2>1. o[M] = p[M] /\ o[M] = Len(w) /\ p[N] = Len(w)
    <3>1. o[M] = p[M]
      BY <1>6
    <3> HIDE DEF H
    <3>2. QED
      BY <1>1, <1>2, <3>1 DEF Placed
  <2> HIDE DEF H
  <2>2. SUFFICES ASSUME M < N PROVE FALSE
    OBVIOUS
  <2> DEFINE l == M + 1
  <2>3. l \in 1 .. N /\ l - 1 = M /\ M \in 0 .. N /\ l \in 0 .. N
    BY <2>2
  <2> HIDE DEF l
  <2>4. p[l] = p[M] + Len(Escaped(b[l])) /\ p[l] <= p[N]
    BY <1>2, <2>3 DEF Placed
  <2>5. p[M] \in Nat /\ p[l] \in Nat
    BY <1>2, <2>3 DEF Placed
  <2>6. Len(Escaped(b[l])) \in Nat \ {0}
    BY <1>3, <2>3
  <2>7. p[N] = p[M]
    BY <2>1
  <2>8. QED
    BY <2>4, <2>5, <2>6, <2>7
<1>8. QED
  BY <1>6, <1>7

\* A character by number is shown like the byte of that number, so what is read
\* of a text name is the name, whichever of its characters were so taken.
LEMMA ReadsBack ==
    ASSUME NEW mine \in TextNames, NEW name \in TextNames
    PROVE  ReadAs(ToJsonEscaped(mine), name) <=> name = mine
<1>1. PICK m \in 1 .. NameLength : name \in [1 .. m -> Characters]
  BY DEF TextNames
<1>2. PICK n \in 1 .. NameLength : mine \in [1 .. n -> Characters]
  BY DEF TextNames
<1>3. m \in Nat \ {0} /\ n \in Nat \ {0} /\ (m <= n \/ n <= m)
  BY <1>1, <1>2, LengthAssumption
<1>4. \A c \in Characters : Escaped(c) = Spelling(c) /\ c \in Units /\ c # "raw"
  BY DEF Characters, Units, Escaped, Spelling
<1>5. ASSUME ReadAs(ToJsonEscaped(mine), name) PROVE name = mine
  <2>1. PICK numbered \in SUBSET {k \in DOMAIN name : name[k] = "latin"} :
            ToJsonEscaped(mine) = FlattenSeq([k \in DOMAIN name |->
                IF k \in numbered THEN <<"backslash", "u", "00ff">> ELSE Spelling(name[k])])
    BY <1>5 DEF ReadAs
  <2> DEFINE alike == [k \in 1 .. m |-> IF k \in numbered THEN "raw" ELSE name[k]]
  <2>2. alike \in [1 .. m -> Units] /\ mine \in [1 .. n -> Units]
    BY <1>1, <1>2, <1>4 DEF Units
  <2>3. ToJsonEscaped(alike) = ToJsonEscaped(mine)
    <3>1. DOMAIN alike = DOMAIN name
      BY <1>1
    <3>2. ASSUME NEW k \in DOMAIN name
          PROVE  Escaped(alike[k]) =
                     IF k \in numbered THEN <<"backslash", "u", "00ff">> ELSE Spelling(name[k])
      <4>1. k \in 1 .. m /\ name[k] \in Characters
        BY <1>1
      <4>2. CASE k \in numbered
        BY <4>1, <4>2 DEF Escaped
      <4>3. CASE k \notin numbered
        BY <1>4, <4>1, <4>3
      <4>4. QED
        BY <4>2, <4>3
    <3> HIDE DEF alike
    <3>3. [k \in DOMAIN alike |-> Escaped(alike[k])] =
              [k \in DOMAIN name |->
                  IF k \in numbered THEN <<"backslash", "u", "00ff">> ELSE Spelling(name[k])]
      BY <3>1, <3>2
    <3>4. QED
      BY <2>1, <3>3 DEF ToJsonEscaped
  <2>4. alike = mine
    <3> HIDE DEF alike
    <3>1. CASE m <= n
      BY <1>3, <2>2, <2>3, <3>1, RenderingsToldApart
    <3>2. CASE n <= m
      BY <1>3, <2>2, <2>3, <3>2, RenderingsToldApart
    <3>3. QED
      BY <1>3, <3>1, <3>2
  <2>5. \A k \in 1 .. m : alike[k] \in Characters
    <3>1. 1 .. m = 1 .. n
      <4>1. DOMAIN alike = 1 .. m /\ DOMAIN mine = 1 .. n
        BY <1>2
      <4>2. QED
        BY <2>4, <4>1
    <3>2. QED
      BY <1>2, <2>4, <3>1
  <2>6. \A k \in 1 .. m : alike[k] = name[k]
    BY <1>4, <2>5
  <2>7. alike = name
    BY <1>1, <2>6
  <2>8. QED
    BY <2>4, <2>7
<1>6. ASSUME name = mine PROVE ReadAs(ToJsonEscaped(mine), name)
  <2>1. [k \in DOMAIN mine |-> Escaped(mine[k])] =
            [k \in DOMAIN name |->
                IF k \in {} THEN <<"backslash", "u", "00ff">> ELSE Spelling(name[k])]
    BY <1>2, <1>4, <1>6
  <2>2. {} \in SUBSET {k \in DOMAIN name : name[k] = "latin"}
    OBVIOUS
  <2>3. QED
    BY <2>1, <2>2 DEF ReadAs, ToJsonEscaped
<1>7. QED
  BY <1>5, <1>6

NameInv ==
    kind = "name" /\ given # Null => given \in Names /\ got = ToJsonEscaped(given)

LEMMA NameStep == NameInv /\ [Next]_vars => NameInv'
<1> SUFFICES ASSUME NameInv, [Next]_vars, kind' = "name", given' # Null
             PROVE  given' \in Names /\ got' = ToJsonEscaped(given')
  BY DEF NameInv
<1>1. kind' = kind
  BY DEF Next, Walked, StatusSet, MetaWritten, MetaDeleted, Hello, Send, Receive,
         OpenIndex, Load, Save, Show, vars
<1>2. Show \/ UNCHANGED vars
  BY <1>1 DEF Next, Walked, StatusSet, MetaWritten, MetaDeleted, Hello, Send, Receive,
              OpenIndex, Load, Save
<1>3. CASE Show
  BY <1>3 DEF Show
<1>4. CASE UNCHANGED vars
  BY <1>1, <1>4 DEF NameInv, vars
<1>5. QED
  BY <1>2, <1>3, <1>4

-----------------------------------------------------------------------------
(***************************************************************************)
(* Floats.                                                                 *)
(***************************************************************************)
\* Induction from all smaller numbers.
LEMMA StrongInduction ==
    ASSUME NEW S, \A n \in Nat : (\A i \in Nat : i < n => i \in S) => n \in S
    PROVE  \A n \in Nat : n \in S
<1> DEFINE T == {n \in Nat : n \notin S}
<1>1. SUFFICES ASSUME T # {} PROVE FALSE
  OBVIOUS
<1>2. PICK m \in T : \A n \in T : m <= n
  BY <1>1, LeastNumber
<1>3. \A i \in Nat : i < m => i \in S
  BY <1>2
<1>4. QED
  BY <1>2, <1>3

LEMMA Halved ==
    ASSUME NEW n \in Nat
    PROVE  /\ n \div 2 \in Nat /\ n \div 2 <= n /\ (n # 0 => n \div 2 < n)
           /\ 2 * (n \div 2) <= n /\ n < 2 * (n \div 2) + 2
  OBVIOUS

\* The gaps up to a number.
Gaps(f, m, n) == f = [i \in 0 .. n |-> IF i < m THEN 1 ELSE 2 * f[i \div 2]]

LEMMA GapsExist ==
    ASSUME NEW m \in Nat \ {0}, NEW n \in Nat
    PROVE  \E f : Gaps(f, m, n)
<1> DEFINE H == {k \in Nat : \E f : Gaps(f, m, k)}
<1>1. 0 \in H
  <2>1. Gaps([i \in 0 .. 0 |-> 1], m, 0)
    BY DEF Gaps
  <2>2. QED
    BY <2>1
<1>2. ASSUME NEW k \in Nat, k \in H PROVE k + 1 \in H
  <2>1. PICK f : Gaps(f, m, k)
    BY <1>2
  <2> DEFINE l == k + 1
             g == [i \in 0 .. l |-> IF i = l THEN IF l < m THEN 1 ELSE 2 * f[l \div 2] ELSE f[i]]
  <2>2. ASSUME NEW i \in 0 .. l
        PROVE  g[i] = IF i < m THEN 1 ELSE 2 * g[i \div 2]
    <3>1. i \in Nat /\ i \div 2 \in Nat /\ i \div 2 <= i /\ (i # 0 => i \div 2 < i)
      BY Halved
    <3>2. CASE i < m
      <4>1. i # l => f[i] = 1
        BY <2>1, <3>1, <3>2 DEF Gaps
      <4>2. QED
        BY <3>2, <4>1
    <3>3. CASE ~(i < m)
      <4>1. i # 0 /\ i \div 2 \in 0 .. k
        BY <3>1, <3>3
      <4>2. g[i \div 2] = f[i \div 2]
        BY <4>1
      <4>3. i # l => f[i] = 2 * f[i \div 2]
        BY <2>1, <3>1, <3>3 DEF Gaps
      <4>4. QED
        BY <3>3, <4>2, <4>3
    <3>4. QED
      BY <3>2, <3>3
  <2>3. g = [i \in 0 .. l |-> g[i]]
    OBVIOUS
  <2> HIDE DEF g
  <2>4. Gaps(g, m, l)
    BY <2>2, <2>3 DEF Gaps
  <2>5. QED
    BY <2>4
<1>3. QED
  <2> HIDE DEF H
  <2>1. n \in H
    BY <1>1, <1>2, Induction
  <2>2. QED
    BY <2>1 DEF H

LEMMA GapIn ==
    ASSUME NEW m \in Nat \ {0}, NEW n \in Nat
    PROVE  \E f : Gaps(f, m, n) /\ Gap(m, n) = f[n]
<1> DEFINE J(f) == f = [i \in 0 .. n |-> IF i < m THEN 1 ELSE 2 * f[i \div 2]]
           f == CHOOSE f : J(f)
<1>1. Gap(m, n) = f[n]
  BY DEF Gap
<1>2. \E g : J(g)
  BY GapsExist DEF Gaps
<1>3. J(f)
  BY <1>2
<1> HIDE DEF f
<1>4. QED
  BY <1>1, <1>3 DEF Gaps

\* However far they go, gaps are the same.
LEMMA SameGaps ==
    ASSUME NEW m \in Nat \ {0}, NEW k \in Nat, NEW n \in Nat,
           NEW f, Gaps(f, m, k), NEW g, Gaps(g, m, n)
    PROVE  \A i \in Nat : i <= k /\ i <= n => f[i] = g[i]
<1> DEFINE S == {i \in Nat : i <= k /\ i <= n => f[i] = g[i]}
<1>1. ASSUME NEW i \in Nat, \A j \in Nat : j < i => j \in S PROVE i \in S
  <2>1. SUFFICES ASSUME i <= k, i <= n PROVE f[i] = g[i]
    OBVIOUS
  <2>2. /\ i \in 0 .. k /\ i \in 0 .. n
        /\ f[i] = IF i < m THEN 1 ELSE 2 * f[i \div 2]
        /\ g[i] = IF i < m THEN 1 ELSE 2 * g[i \div 2]
    BY <2>1 DEF Gaps
  <2>3. CASE i < m
    BY <2>2, <2>3
  <2>4. CASE ~(i < m)
    <3>1. i \div 2 \in Nat /\ i \div 2 < i
      BY <2>4, Halved
    <3>2. f[i \div 2] = g[i \div 2]
      BY <1>1, <2>1, <3>1
    <3>3. QED
      BY <2>2, <2>4, <3>2
  <2>5. QED
    BY <2>3, <2>4
<1>2. QED
  <2> HIDE DEF S
  <2>1. \A i \in Nat : i \in S
    BY <1>1, StrongInduction
  <2>2. QED
    BY <2>1 DEF S

\* Gap is the recursive function it is written as.
LEMMA GapIs ==
    ASSUME NEW m \in Nat \ {0}, NEW n \in Nat
    PROVE  Gap(m, n) = IF n < m THEN 1 ELSE 2 * Gap(m, n \div 2)
<1>1. PICK f : Gaps(f, m, n) /\ Gap(m, n) = f[n]
  BY GapIn
<1>2. f[n] = IF n < m THEN 1 ELSE 2 * f[n \div 2]
  BY <1>1 DEF Gaps
<1> DEFINE k == n \div 2
<1>3. k \in Nat /\ k <= n
  BY Halved
<1> HIDE DEF k
<1>4. PICK g : Gaps(g, m, k) /\ Gap(m, k) = g[k]
  BY <1>3, GapIn
<1>5. f[k] = g[k]
  BY <1>1, <1>3, <1>4, SameGaps
<1>6. QED
  BY <1>1, <1>2, <1>4, <1>5 DEF k

\* Numbers of which each is 1 or the double of another.
Doubles(S) == S \subseteq Nat \ {0} /\ \A g \in S : g = 1 \/ \E h \in S : g = 2 * h

Multiple(n, d) == \E k \in Int : n = k * d

LEMMA Times2 ==
    ASSUME NEW m \in Int, NEW h \in Int
    PROVE  m * (2 * h) = 2 * (m * h) /\ m * h \in Int
  OBVIOUS

LEMMA GapType ==
    ASSUME NEW m \in Nat \ {0}
    PROVE  Doubles({Gap(m, n) : n \in Nat})
<1> DEFINE S == {n \in Nat : Gap(m, n) \in Nat \ {0}}
<1>1. ASSUME NEW n \in Nat, \A i \in Nat : i < n => i \in S PROVE n \in S
  <2>1. CASE n < m
    BY <2>1, GapIs
  <2>2. CASE ~(n < m)
    <3> DEFINE k == n \div 2
    <3>1. k \in Nat /\ k < n
      BY <2>2, Halved
    <3>2. Gap(m, n) = 2 * Gap(m, k)
      BY <2>2, GapIs
    <3> HIDE DEF k
    <3>3. Gap(m, k) \in Nat \ {0}
      BY <1>1, <3>1
    <3>4. QED
      BY <3>2, <3>3
  <2>3. QED
    BY <2>1, <2>2
<1>2. \A n \in Nat : Gap(m, n) \in Nat \ {0}
  <2> HIDE DEF S
  <2>1. \A n \in Nat : n \in S
    BY <1>1, StrongInduction
  <2>2. QED
    BY <2>1 DEF S
<1>3. ASSUME NEW n \in Nat PROVE Gap(m, n) = 1 \/ \E i \in Nat : Gap(m, n) = 2 * Gap(m, i)
  <2>1. n \div 2 \in Nat
    BY Halved
  <2>2. QED
    BY <2>1, GapIs
<1>4. QED
  BY <1>2, <1>3 DEF Doubles

\* Where a gap begins and ends.
LEMMA GapBounds ==
    ASSUME NEW m \in Nat \ {0}
    PROVE  \A n \in Nat : n < m * Gap(m, n) /\ (Gap(m, n) = 1 \/ m * Gap(m, n) <= 2 * n)
<1> DEFINE S == {n \in Nat : n < m * Gap(m, n) /\ (Gap(m, n) = 1 \/ m * Gap(m, n) <= 2 * n)}
<1>0. \A n \in Nat : Gap(m, n) \in Nat \ {0}
  BY GapType DEF Doubles
<1>1. ASSUME NEW n \in Nat, \A i \in Nat : i < n => i \in S PROVE n \in S
  <2>1. CASE n < m
    <3>1. Gap(m, n) = 1
      BY <2>1, GapIs
    <3>2. QED
      BY <2>1, <3>1
  <2>2. CASE ~(n < m)
    <3> DEFINE k == n \div 2
               g == Gap(m, k)
    <3>1. k \in Nat /\ k < n /\ 2 * k <= n /\ n < 2 * k + 2
      BY <2>2, Halved
    <3>2. Gap(m, n) = 2 * g
      BY <2>2, GapIs
    <3>3. k < m * g /\ (g = 1 \/ m * g <= 2 * k) /\ g \in Nat \ {0}
      BY <1>0, <1>1, <3>1
    <3> HIDE DEF k, g
    <3>4. m * (2 * g) = 2 * (m * g) /\ m * g \in Int
      BY <3>3, Times2
    <3>5. n < m * (2 * g)
      BY <3>1, <3>3, <3>4
    <3>6. m * (2 * g) <= 2 * n
      <4>1. m * g <= n
        BY <2>2, <3>1, <3>3
      <4>2. QED
        BY <3>4, <4>1
    <3>7. QED
      BY <3>2, <3>5, <3>6
  <2>3. QED
    BY <2>1, <2>2
<1>2. QED
  <2> HIDE DEF S
  <2>1. \A n \in Nat : n \in S
    BY <1>1, StrongInduction
  <2>2. QED
    BY <2>1 DEF S

\* The gap of a smaller number divides that of a larger, and the gap of a wider
\* float that of a narrower.
LEMMA GapDivides ==
    ASSUME NEW m \in Nat \ {0}, NEW S, Doubles(S)
    PROVE  \A n \in Nat : \A g \in S : n < m * g => Multiple(g, Gap(m, n))
<1> DEFINE T == {n \in Nat : \A g \in S : n < m * g => Multiple(g, Gap(m, n))}
<1>0. S \subseteq Nat \ {0} /\ \A g \in S : g = 1 \/ \E h \in S : g = 2 * h
  BY DEF Doubles
<1>1. ASSUME NEW n \in Nat, \A i \in Nat : i < n => i \in T PROVE n \in T
  <2>1. SUFFICES ASSUME NEW g \in S, n < m * g PROVE Multiple(g, Gap(m, n))
    OBVIOUS
  <2>2. CASE n < m
    <3>1. Gap(m, n) = 1 /\ g = g * 1 /\ g \in Int
      BY <1>0, <2>2, GapIs
    <3>2. QED
      BY <3>1 DEF Multiple
  <2>3. CASE ~(n < m)
    <3> DEFINE k == n \div 2
               d == Gap(m, k)
    <3>1. k \in Nat /\ k < n /\ 2 * k <= n
      BY <2>3, Halved
    <3>2. Gap(m, n) = 2 * d
      BY <2>3, GapIs
    <3>3. g # 1
      BY <2>1, <2>3
    <3>4. PICK h \in S : g = 2 * h
      BY <1>0, <3>3
    <3>5. h \in Int /\ m * g = 2 * (m * h) /\ m * h \in Int
      BY <1>0, <3>4, Times2
    <3>6. k < m * h
      BY <2>1, <3>1, <3>5
    <3>7. Multiple(h, d)
      BY <1>1, <3>1, <3>6
    <3>8. PICK j \in Int : h = j * d
      BY <3>7 DEF Multiple
    <3>9. d \in Int
      BY <3>1, GapType DEF Doubles
    <3> HIDE DEF k, d
    <3>10. g = j * (2 * d)
      BY <3>4, <3>8, <3>9, Times2
    <3>11. QED
      BY <3>2, <3>10 DEF Multiple
  <2>4. QED
    BY <2>2, <2>3
<1>2. QED
  <2> HIDE DEF T
  <2>1. \A n \in Nat : n \in T
    BY <1>1, StrongInduction
  <2>2. QED
    BY <2>1 DEF T

\* The nearest multiple of g, ties to the even one.
Up(g, q, r) == 2 * r > g \/ (2 * r = g /\ q % 2 = 1)

Nearest(g, n) == (IF Up(g, n \div g, n % g) THEN n \div g + 1 ELSE n \div g) * g

LEMMA RoundedIs ==
    ASSUME NEW m, NEW n
    PROVE  Rounded(m, n) = Nearest(Gap(m, IF n < 0 THEN -n ELSE n), n)
  BY DEF Rounded, Nearest, Up

LEMMA Products ==
    ASSUME NEW g \in Nat, NEW i \in Int, NEW j \in Int
    PROVE  /\ i * g \in Int /\ g * i = i * g /\ (i + 1) * g = i * g + g
           /\ (i <= j => i * g <= j * g)
  OBVIOUS

LEMMA NearestMonotone ==
    ASSUME NEW g \in Nat \ {0}, NEW a \in Int, NEW b \in Int, a <= b
    PROVE  Nearest(g, a) <= Nearest(g, b)
<1> DEFINE q == a \div g
           r == a % g
           s == b \div g
           t == b % g
           x == IF Up(g, q, r) THEN q + 1 ELSE q
           y == IF Up(g, s, t) THEN s + 1 ELSE s
<1>1. /\ q \in Int /\ r \in 0 .. g - 1 /\ a = g * q + r
      /\ s \in Int /\ t \in 0 .. g - 1 /\ b = g * s + t
  BY Divides
<1>2. Nearest(g, a) = x * g /\ Nearest(g, b) = y * g
  BY DEF Nearest
<1> HIDE DEF q, r, s, t
<1>3. /\ x \in Int /\ y \in Int /\ q <= x /\ x <= q + 1 /\ s <= y /\ y <= s + 1
  BY <1>1
<1>4. q <= s
  <2>1. SUFFICES ASSUME s + 1 <= q PROVE FALSE
    BY <1>1
  <2>2. (s + 1) * g <= q * g /\ (s + 1) * g = s * g + g /\ g * q = q * g /\ g * s = s * g
    BY <1>1, <2>1, Products
  <2>3. q * g \in Int /\ s * g \in Int
    BY <1>1, Products
  <2>4. QED
    BY <1>1, <2>2, <2>3
<1>5. x <= y
  <2>1. CASE q = s
    <3>1. r <= t
      <4>1. g * q \in Int
        BY <1>1
      <4> HIDE DEF x, y
      <4>2. QED
        BY <1>1, <2>1, <4>1
    <3>2. Up(g, q, r) => Up(g, s, t)
      BY <1>1, <2>1, <3>1 DEF Up
    <3>3. QED
      BY <1>1, <2>1, <3>2
  <2>2. CASE q # s
    BY <1>1, <1>3, <1>4, <2>2
  <2>3. QED
    BY <2>1, <2>2
<1> HIDE DEF x, y
<1>6. QED
  BY <1>2, <1>3, <1>5, Products

LEMMA NearestOfMultiple ==
    ASSUME NEW g \in Nat \ {0}, NEW n \in Int, Multiple(n, g)
    PROVE  Nearest(g, n) = n
<1>1. PICK k \in Int : n = k * g
  BY DEF Multiple
<1> DEFINE q == n \div g
           r == n % g
<1>2. q \in Int /\ r \in 0 .. g - 1 /\ n = g * q + r
  BY Divides
<1> HIDE DEF q, r
<1>3. q = k
  <2>1. g * q = q * g /\ q * g \in Int /\ k * g \in Int
    BY <1>1, <1>2, Products
  <2>2. ~(q + 1 <= k)
    <3>1. SUFFICES ASSUME q + 1 <= k PROVE FALSE
      OBVIOUS
    <3>2. (q + 1) * g <= k * g /\ (q + 1) * g = q * g + g
      BY <1>2, <3>1, Products
    <3>3. QED
      BY <1>1, <1>2, <2>1, <3>2
  <2>3. ~(k + 1 <= q)
    <3>1. SUFFICES ASSUME k + 1 <= q PROVE FALSE
      OBVIOUS
    <3>2. (k + 1) * g <= q * g /\ (k + 1) * g = k * g + g
      BY <1>2, <3>1, Products
    <3>3. QED
      BY <1>1, <1>2, <2>1, <3>2
  <2>4. QED
    BY <1>2, <2>2, <2>3
<1>4. r = 0
  BY <1>1, <1>2, <1>3, Products
<1>5. ~Up(g, q, r)
  BY <1>4 DEF Up
<1>6. Nearest(g, n) = q * g
  BY <1>5 DEF Nearest, q, r
<1>7. QED
  BY <1>1, <1>3, <1>6

LEMMA NearestType ==
    ASSUME NEW g \in Nat \ {0}, NEW n \in Int
    PROVE  Nearest(g, n) \in Int /\ Multiple(Nearest(g, n), g)
<1>1. n \div g \in Int
  BY Divides
<1> DEFINE x == IF Up(g, n \div g, n % g) THEN n \div g + 1 ELSE n \div g
<1>2. x \in Int /\ Nearest(g, n) = x * g
  BY <1>1 DEF Nearest
<1> HIDE DEF x
<1>3. QED
  BY <1>2, Products DEF Multiple

LEMMA MultipleOfMultiple ==
    ASSUME NEW n, NEW g, NEW d \in Int, Multiple(n, g), Multiple(g, d)
    PROVE  Multiple(n, d)
<1>1. PICK i \in Int : n = i * g
  BY DEF Multiple
<1>2. PICK j \in Int : g = j * d
  BY DEF Multiple
<1>3. n = (i * j) * d /\ i * j \in Int
  BY <1>1, <1>2
<1>4. QED
  BY <1>3 DEF Multiple

Even(m) == \E e \in Int : m = 2 * e

\* m of the larger gap are a whole number of the next.
LEMMA EvenMantissa ==
    ASSUME NEW m \in Int, Even(m), NEW h \in Int
    PROVE  Multiple(m * h, 2 * h) /\ Multiple(-(m * h), 2 * h)
<1>1. PICK e \in Int : m = 2 * e
  BY DEF Even
<1>2. m * h = e * (2 * h) /\ -(m * h) = (-e) * (2 * h) /\ -e \in Int
  BY <1>1
<1>3. QED
  BY <1>2 DEF Multiple

\* Larger numbers are not rounded to smaller ones.
LEMMA RoundedMonotone ==
    ASSUME NEW m \in Nat \ {0}, Even(m), NEW a \in Nat, NEW b \in Nat, a <= b
    PROVE  Rounded(m, a) <= Rounded(m, b)
<1> DEFINE S == {Gap(m, n) : n \in Nat}
           g == Gap(m, a)
           k == Gap(m, b)
<1>1. Doubles(S) /\ g \in S /\ k \in S
  BY GapType
<1>2. g \in Nat \ {0} /\ k \in Nat \ {0}
  BY <1>1 DEF Doubles
<1>3. Rounded(m, a) = Nearest(g, a) /\ Rounded(m, b) = Nearest(k, b)
  <2>1. (IF a < 0 THEN -a ELSE a) = a /\ (IF b < 0 THEN -b ELSE b) = b
    OBVIOUS
  <2>2. QED
    BY <2>1, RoundedIs
<1>4. a < m * g /\ b < m * k /\ (k = 1 \/ m * k <= 2 * b)
  BY GapBounds
<1>5. m * k \in Int /\ m * g \in Int
  BY <1>2
<1>6. Multiple(k, g)
  <2>1. a < m * k
    BY <1>4, <1>5
  <2> HIDE DEF S, k
  <2>2. QED
    BY <1>1, <2>1, GapDivides
<1>7. CASE k = g
  BY <1>2, <1>3, <1>7, NearestMonotone
<1>8. CASE k # g
  <2>1. PICK j \in Int : k = j * g
    BY <1>6 DEF Multiple
  <2> HIDE DEF g, k
  <2>2. j >= 2
    <3>1. j # 1
      BY <1>2, <1>8, <2>1
    <3>2. j >= 1
      <4>1. SUFFICES ASSUME j <= 0 PROVE FALSE
        OBVIOUS
      <4>2. j * g <= 0 * g
        BY <1>2, <4>1, Products
      <4>3. QED
        BY <1>2, <2>1, <4>2
    <3>3. QED
      BY <3>1, <3>2
  <2>3. k # 1
    <3>1. 2 * g <= j * g
      BY <1>2, <2>2, Products
    <3>2. QED
      BY <1>2, <2>1, <3>1
  <2>4. PICK h \in S : k = 2 * h
    BY <1>1, <2>3 DEF Doubles
  <2>5. h \in Nat \ {0} /\ m * h \in Int /\ m * k = 2 * (m * h)
    <3>1. h \in Nat \ {0}
      BY <1>1, <2>4 DEF Doubles
    <3>2. QED
      BY <2>4, <3>1, Times2
  <2>6. m * h <= b
    BY <1>4, <2>3, <2>5
  <2>7. a < m * h
    <3>1. 2 * (m * g) <= m * k
      <4>1. 2 * g <= j * g
        BY <1>2, <2>2, Products
      <4>2. 2 * g <= k /\ 2 * g \in Int
        BY <1>2, <2>1, <4>1
      <4>3. (2 * g) * m <= k * m
        BY <1>2, <4>2, Products
      <4>4. QED
        BY <1>2, <4>3
    <3>2. QED
      BY <1>4, <1>5, <2>5, <3>1
  <2>8. Multiple(h, g)
    <3> HIDE DEF S
    <3>1. Multiple(h, Gap(m, a))
      BY <1>1, <2>7, GapDivides
    <3>2. QED
      BY <3>1 DEF g
  <2>9. Nearest(g, a) <= m * h
    <3>1. Multiple(m * h, h)
      BY <2>5 DEF Multiple
    <3>2. Multiple(m * h, g)
      BY <1>2, <2>8, <3>1, MultipleOfMultiple
    <3>3. Nearest(g, m * h) = m * h
      BY <1>2, <2>5, <3>2, NearestOfMultiple
    <3>4. Nearest(g, a) <= Nearest(g, m * h)
      BY <1>2, <2>5, <2>7, NearestMonotone
    <3>5. QED
      BY <3>3, <3>4
  <2>10. m * h <= Nearest(k, b)
    <3>1. Multiple(m * h, k)
      BY <2>4, <2>5, EvenMantissa
    <3>2. Nearest(k, m * h) = m * h
      BY <1>2, <2>5, <3>1, NearestOfMultiple
    <3>3. Nearest(k, m * h) <= Nearest(k, b)
      BY <1>2, <2>5, <2>6, NearestMonotone
    <3>4. QED
      BY <3>2, <3>3
  <2>11. Nearest(g, a) \in Int /\ Nearest(k, b) \in Int
    BY <1>2, NearestType
  <2>12. QED
    BY <1>3, <2>5, <2>9, <2>10, <2>11
<1>9. QED
  BY <1>7, <1>8

\* A number that few gaps make is a float.
LEMMA RoundedFixed ==
    ASSUME NEW m \in Nat \ {0}, Even(m), NEW S, Doubles(S), NEW g \in S,
           NEW n \in Int, Multiple(n, g), n <= m * g, -(m * g) <= n
    PROVE  Rounded(m, n) = n
<1> DEFINE size == IF n < 0 THEN -n ELSE n
           d == Gap(m, size)
<1>1. g \in Nat \ {0} /\ m * g \in Int /\ size \in Nat /\ size <= m * g
  <2>1. g \in Nat \ {0}
    BY DEF Doubles
  <2>2. m * g \in Int
    BY <2>1
  <2>3. QED
    BY <2>1, <2>2
<1>2. d \in Nat \ {0}
  BY <1>1, GapType DEF Doubles
<1>3. Rounded(m, n) = Nearest(d, n)
  BY RoundedIs
<1>4. Multiple(n, d)
  <2>1. CASE size < m * g
    <3> HIDE DEF size
    <3>1. Multiple(g, d)
      BY <1>1, <2>1, GapDivides
    <3> HIDE DEF d
    <3>2. QED
      BY <1>2, <3>1, MultipleOfMultiple
  <2>2. CASE size = m * g
    <3> DEFINE T == S \cup {2 * h : h \in S}
    <3>1. Doubles(T)
      <4>1. S \subseteq Nat \ {0} /\ \A h \in S : h = 1 \/ \E j \in S : h = 2 * j
        BY DEF Doubles
      <4>2. \A h \in S : 2 * h \in Nat \ {0}
        BY <4>1
      <4>3. T \subseteq Nat \ {0}
        BY <4>1, <4>2
      <4>4. QED
        BY <4>1, <4>3 DEF Doubles
    <3>2. 2 * g \in T /\ m * (2 * g) = 2 * (m * g)
      BY <1>1, Times2
    <3>3. 0 < m * g
      BY <1>1
    <3>4. size < m * (2 * g)
      BY <1>1, <2>2, <3>2, <3>3
    <3> HIDE DEF T
    <3>5. Multiple(2 * g, d)
      <4> HIDE DEF size
      <4>1. QED
        BY <1>1, <3>1, <3>2, <3>4, GapDivides
    <3>6. n = m * g \/ n = -(m * g)
      BY <2>2
    <3>7. Multiple(n, 2 * g)
      BY <1>1, <3>6, EvenMantissa
    <3> HIDE DEF d
    <3>8. QED
      BY <1>2, <3>5, <3>7, MultipleOfMultiple
  <2>3. QED
    BY <1>1, <2>1, <2>2
<1> HIDE DEF d
<1>5. QED
  BY <1>2, <1>3, <1>4, NearestOfMultiple

\* What was rounded once is not rounded again, nor by a wider float.
LEMMA RoundedOnce ==
    ASSUME NEW m \in Nat \ {0}, Even(m), NEW w \in Nat, Even(w), m <= w, NEW n \in Int
    PROVE  Rounded(m, n) \in Int /\ Rounded(w, Rounded(m, n)) = Rounded(m, n)
<1> DEFINE S == {Gap(m, i) : i \in Nat}
           size == IF n < 0 THEN -n ELSE n
           g == Gap(m, size)
           x == Rounded(m, n)
<1>1. Doubles(S) /\ size \in Nat /\ g \in S
  BY GapType
<1>2. g \in Nat \ {0}
  BY <1>1 DEF Doubles
<1>3. x = Nearest(g, n)
  BY RoundedIs
<1>4. size < m * g
  BY <1>1, GapBounds
<1> HIDE DEF S, g, x
<1>5. x \in Int /\ Multiple(x, g)
  BY <1>2, <1>3, NearestType
<1> DEFINE l == m * g
<1>6. l \in Int /\ -l \in Int /\ Multiple(l, g) /\ Multiple(-l, g)
  <2>1. -l = (-m) * g /\ -m \in Int
    BY <1>2
  <2>2. QED
    BY <1>2, <2>1 DEF Multiple
<1>7. -l <= n /\ n <= l
  BY <1>4, <1>6
<1> HIDE DEF l
<1>8. -l <= x /\ x <= l
  <2>1. Nearest(g, l) = l /\ Nearest(g, -l) = -l
    BY <1>2, <1>6, NearestOfMultiple
  <2>2. Nearest(g, n) <= Nearest(g, l) /\ Nearest(g, -l) <= Nearest(g, n)
    BY <1>2, <1>6, <1>7, NearestMonotone
  <2>3. QED
    BY <1>3, <2>1, <2>2
<1>9. w \in Nat \ {0} /\ l <= w * g /\ -(w * g) <= -l
  <2>1. m * g <= w * g /\ w * g \in Int
    BY <1>2, Products
  <2>2. QED
    BY <1>6, <2>1 DEF l
<1>10. x <= w * g /\ -(w * g) <= x
  <2>1. w * g \in Int
    BY <1>2
  <2>2. QED
    BY <1>5, <1>6, <1>8, <1>9, <2>1
<1>11. Rounded(w, x) = x
  BY <1>1, <1>5, <1>9, <1>10, RoundedFixed
<1>12. QED
  BY <1>5, <1>11 DEF x

\* Small integers are floats.
LEMMA RoundedSmall ==
    ASSUME NEW m \in Nat \ {0}, Even(m), NEW n \in 0 .. m
    PROVE  Rounded(m, n) = n
<1>1. Doubles({1}) /\ 1 \in {1} /\ n \in Int /\ n = n * 1 /\ n <= m * 1 /\ -(m * 1) <= n
  BY DEF Doubles
<1>2. Multiple(n, 1)
  BY <1>1 DEF Multiple
<1>3. QED
  BY <1>1, <1>2, RoundedFixed

-----------------------------------------------------------------------------
(***************************************************************************)
(* Settings.                                                               *)
(***************************************************************************)
\* What a key can hold.
Held(f) ==
    CASE f \in ByteSizes \cup Durations \cup Wide -> U64
      [] f \in Switches                           -> {0, 1}
      [] f \in Floats -> {n \in Int : Rounded(Mantissa, n) = n /\ Rounded(Mantissa32, n) = n}
      [] f = "max_archive_depth"                  -> U8
      [] OTHER                                    -> U32

LEMMA MantissaType ==
    /\ Mantissa \in Nat \ {0} /\ Mantissa32 \in Nat \ {0} /\ Mantissa32 <= Mantissa
    /\ Even(Mantissa) /\ Even(Mantissa32) /\ 4 <= Mantissa32 /\ 4 <= Mantissa
<1>1. Half \in Nat
  BY WidthAssumption
<1>2. Mantissa \in Nat \ {0} /\ 4 <= Mantissa
  BY <1>1, SettingsAssumption
<1>3. Mantissa32 \in Nat \ {0} /\ 4 <= Mantissa32 /\ Mantissa32 <= Mantissa
  BY <1>2, SettingsAssumption
<1>4. ASSUME NEW m \in Nat, m % 2 = 0 PROVE Even(m)
  <2>1. m \div 2 \in Int /\ m = 2 * (m \div 2)
    BY <1>4
  <2>2. QED
    BY <2>1 DEF Even
<1>5. QED
  BY <1>2, <1>3, <1>4, SettingsAssumption

LEMMA UnitType ==
    /\ \A u \in DOMAIN SizeUnits : SizeUnits[u] \in Nat \ {0}
    /\ \A u \in DOMAIN TimeUnits : TimeUnits[u] \in Nat \ {0}
  BY SettingsAssumption

LEMMA KeysApart ==
    /\ ByteSizes \cap (Durations \cup Wide \cup Switches \cup Floats \cup {"max_archive_depth"}) = {}
    /\ Durations \cap (Wide \cup Switches \cup Floats \cup {"max_archive_depth"}) = {}
    /\ Switches \cap (Wide \cup Floats \cup {"max_archive_depth"}) = {}
    /\ Floats \cap (Wide \cup {"max_archive_depth"}) = {}
    /\ "max_archive_depth" \notin Wide
  BY DEF ByteSizes, Durations, Wide, Switches, Floats

LEMMA SaturatedType ==
    ASSUME NEW n \in Int
    PROVE  Saturated(n) \in U64
<1>1. Half \in Nat \ {0}
  BY WidthAssumption
<1>2. QED
  BY <1>1 DEF Saturated, MaxU64, U64

LEMMA HalfIs ==
    ASSUME NEW a \in Int
    PROVE  a \div 2 \in Int
  OBVIOUS

LEMMA SizeIs ==
    ASSUME NEW text, text.halves \in Int
    PROVE  ByteSize(text) \subseteq U64
<1>1. SUFFICES ASSUME NEW u \in DOMAIN SizeUnits
               PROVE  (IF text.halves < 0 THEN Saturated(text.halves)
                       ELSE Saturated(Rounded(Mantissa, Rounded(Mantissa, text.halves) * SizeUnits[u]) \div 2))
                      \in U64
  BY DEF ByteSize
<1> DEFINE x == Rounded(Mantissa, text.halves)
           y == Rounded(Mantissa, x * SizeUnits[u])
<1>2. x \in Int
  BY MantissaType, RoundedOnce
<1> HIDE DEF x
<1>3. x * SizeUnits[u] \in Int
  BY <1>2, UnitType
<1>4. y \in Int
  BY <1>3, MantissaType, RoundedOnce
<1> HIDE DEF y
<1>5. y \div 2 \in Int
  BY <1>4, HalfIs
<1>6. Saturated(text.halves) \in U64 /\ Saturated(y \div 2) \in U64
  BY <1>5, SaturatedType
<1>7. QED
  BY <1>6 DEF x, y

LEMMA DurationIs ==
    ASSUME NEW text, text.halves \in Int
    PROVE  DurationSetting(text) \subseteq U64
<1>1. SUFFICES ASSUME NEW u \in DOMAIN TimeUnits
               PROVE  ((text.halves \div 2) * TimeUnits[u]) % (2 * Half) \in U64
  BY DEF DurationSetting
<1> DEFINE x == text.halves \div 2
           y == x * TimeUnits[u]
           b == 2 * Half
<1>2. x \in Int
  BY HalfIs
<1> HIDE DEF x
<1>3. y \in Int /\ b \in Nat \ {0}
  BY <1>2, UnitType, WidthAssumption
<1> HIDE DEF y
<1>4. y % b \in 0 .. b - 1
  BY <1>3, Divides
<1>5. QED
  BY <1>4 DEF U64, x, y, b

\* A value of a key, as TOML types it.
Value == [halves : Int, unit : STRING] \cup [int : Int] \cup [float : Int] \cup [flag : {0, 1}]

LEMMA FloatIs ==
    ASSUME NEW value \in Value
    PROVE  \A x \in FloatValue(value) : x \in Held("title_boost")
<1> DEFINE read == IF "float" \in DOMAIN value THEN {Rounded(Mantissa, value.float)}
                   ELSE IntIn(I64, value)
<1>1. read \subseteq Int
  <2>1. IntIn(I64, value) \subseteq Int
    BY DEF IntIn, I64
  <2>2. ASSUME "float" \in DOMAIN value PROVE Rounded(Mantissa, value.float) \in Int
    <3>1. value.float \in Int
      BY <2>2 DEF Value
    <3>2. QED
      BY <3>1, MantissaType, RoundedOnce
  <2>3. QED
    BY <2>1, <2>2
<1>2. FloatValue(value) = {Rounded(Mantissa32, n) : n \in read}
  BY DEF FloatValue
<1> HIDE DEF read
<1>3. ASSUME NEW n \in read PROVE Rounded(Mantissa32, n) \in Held("title_boost")
  <2>1. n \in Int
    BY <1>1
  <2>2. /\ Rounded(Mantissa32, n) \in Int
        /\ Rounded(Mantissa, Rounded(Mantissa32, n)) = Rounded(Mantissa32, n)
        /\ Rounded(Mantissa32, Rounded(Mantissa32, n)) = Rounded(Mantissa32, n)
    BY <2>1, MantissaType, RoundedOnce
  <2>3. "title_boost" \in Floats /\ "title_boost" \notin ByteSizes \cup Durations \cup Wide \cup Switches
    BY DEF Floats, ByteSizes, Durations, Wide, Switches
  <2>4. QED
    BY <2>2, <2>3 DEF Held
<1>4. QED
  BY <1>2, <1>3

LEMMA HeldFloat ==
    ASSUME NEW f \in Floats
    PROVE  Held(f) = {n \in Int : Rounded(Mantissa, n) = n /\ Rounded(Mantissa32, n) = n}
  BY KeysApart DEF Held

\* What is read for a key is one thing, and fits it.
LEMMA ReadHeld ==
    ASSUME NEW f, NEW value \in Value
    PROVE  FromValue(f, value) \subseteq Held(f)
<1>1. "halves" \in DOMAIN value => value.halves \in Int
  BY DEF Value
<1>2. CASE f \in ByteSizes
  <2>1. FromValue(f, value) = SizeValue(value) /\ Held(f) = U64
    BY <1>2, KeysApart DEF FromValue, Held
  <2>2. QED
    BY <1>1, <2>1, SizeIs DEF SizeValue, IntIn
<1>3. CASE f \in Durations
  <2>1. FromValue(f, value) = DurationValue(value) /\ Held(f) = U64
    BY <1>3, KeysApart DEF FromValue, Held
  <2>2. QED
    BY <1>1, <2>1, DurationIs DEF DurationValue, IntIn
<1>4. CASE f \in Switches
  BY <1>4, KeysApart DEF FromValue, Held
<1>5. CASE f \in Floats
  <2>1. FromValue(f, value) = FloatValue(value)
    BY <1>5, KeysApart DEF FromValue
  <2>2. Held(f) = Held("title_boost")
    BY <1>5, HeldFloat DEF Floats
  <2>3. QED
    BY <2>1, <2>2, FloatIs
<1>6. CASE f \in Wide
  BY <1>6, KeysApart DEF FromValue, Held, IntIn
<1>7. CASE f = "max_archive_depth"
  BY <1>7, KeysApart DEF FromValue, Held, IntIn
<1>8. CASE f \notin ByteSizes \cup Durations \cup Switches \cup Floats \cup Wide \cup {"max_archive_depth"}
  BY <1>8 DEF FromValue, Held, IntIn
<1>9. QED
  BY <1>2, <1>3, <1>4, <1>5, <1>6, <1>7, <1>8

\* What a key holds is read back from what is written for it.
LEMMA HeldRead ==
    ASSUME NEW f, NEW n \in Held(f)
    PROVE  FromValue(f, ToValue(f, n)) = {n}
<1>1. CASE f \in Switches
  <2>1. ToValue(f, n) = [flag |-> n] /\ n \in {0, 1}
    BY <1>1, KeysApart DEF ToValue, Held
  <2>2. FromValue(f, [flag |-> n]) = {k \in {0, 1} : k = n}
    BY <1>1, KeysApart DEF FromValue
  <2>3. QED
    BY <2>1, <2>2
<1>2. CASE f \in Floats
  <2> DEFINE value == [float |-> n]
  <2>1. ToValue(f, n) = value
    BY <1>2, KeysApart DEF ToValue
  <2>2. FromValue(f, value) = FloatValue(value)
    BY <1>2, KeysApart DEF FromValue
  <2>3. FloatValue(value) = {Rounded(Mantissa32, Rounded(Mantissa, n))}
    BY DEF FloatValue
  <2>4. Rounded(Mantissa, n) = n /\ Rounded(Mantissa32, n) = n
    BY <1>2, HeldFloat
  <2>5. QED
    BY <2>1, <2>2, <2>3, <2>4
<1>3. CASE f \notin Switches \cup Floats
  <2> DEFINE value == [int |-> n]
  <2>1. ToValue(f, n) = value /\ "halves" \notin DOMAIN value /\ "int" \in DOMAIN value /\ value.int = n
    BY <1>3 DEF ToValue
  <2>2. \A set : n \in set => IntIn(set, value) = {n}
    BY <2>1 DEF IntIn
  <2> HIDE DEF value
  <2>3. FromValue(f, value) = IntIn(Held(f), value)
    <3>1. CASE f \in ByteSizes
      BY <2>1, <3>1, KeysApart DEF FromValue, Held, SizeValue
    <3>2. CASE f \in Durations
      BY <2>1, <3>2, KeysApart DEF FromValue, Held, DurationValue
    <3>3. CASE f \in Wide
      BY <2>1, <3>3, KeysApart DEF FromValue, Held
    <3>4. CASE f = "max_archive_depth"
      BY <2>1, <3>4, KeysApart DEF FromValue, Held
    <3>5. CASE f \notin ByteSizes \cup Durations \cup Wide \cup {"max_archive_depth"}
      BY <1>3, <2>1, <3>5 DEF FromValue, Held
    <3>6. QED
      BY <3>1, <3>2, <3>3, <3>4, <3>5
  <2>4. QED
    BY <2>1, <2>2, <2>3
<1>4. QED
  BY <1>1, <1>2, <1>3

\* The defaults are what their keys can hold.
LEMMA DefaultsHeld ==
    \A s \in DOMAIN Defaults : \A f \in DOMAIN Defaults[s] : Defaults[s][f] \in Held(f)
<1>1. Half \in Nat /\ Word \in Nat /\ Byte \in Nat /\ 100000 < Word /\ Word <= Half /\ 6 <= Byte
  BY WidthAssumption, DefaultsAssumption
<1>2. {0, 1, 3, 20, 30, 32, 60, 64, 128, 200, 512, 100000} \subseteq U64 \cap U32
  BY <1>1 DEF U64, U32
<1>3. 3 \in U8
  BY <1>1 DEF U8
<1>4. /\ 2 * SizeUnits["gib"] \in U64 /\ 8 * SizeUnits["gib"] \in U64
      /\ TimeUnits["h"] \in U64 /\ TimeUnits["w"] \in U64
  <2>1. SizeUnits["gib"] \in Nat
    BY SettingsAssumption
  <2>2. QED
    BY <1>1, <2>1, DefaultsAssumption DEF U64, MaxU64
<1>5. 1 \in Held("fts_weight") /\ 2 \in Held("title_boost")
  <2>1. \A n \in {1, 2} : Rounded(Mantissa, n) = n /\ Rounded(Mantissa32, n) = n
    BY MantissaType, RoundedSmall
  <2>2. QED
    BY <2>1, HeldFloat DEF Floats
<1>6. /\ Held("target_tokens") = U64 /\ Held("overlap_tokens") = U64 /\ Held("min_tokens") = U64
      /\ Held("timeout_secs") = U64 /\ Held("max_file_size") = U64
      /\ Held("max_archive_total_size") = U64
      /\ Held("threshold") = U64 /\ Held("warn_threshold") = U64
      /\ Held("heading_prefix") = {0, 1} /\ Held("enabled") = {0, 1}
      /\ Held("index_new_only") = {0, 1} /\ Held("respect_gitignore") = {0, 1}
      /\ Held("respect_ndexignore") = {0, 1} /\ Held("follow_symlinks") = {0, 1}
      /\ Held("hidden") = {0, 1} /\ Held("max_archive_depth") = U8
      /\ \A f \in {"max_retries", "batch_size", "threads", "intra_op_threads", "inter_op_threads",
                   "default_limit", "rrf_k", "ef_search", "max_archive_members",
                   "compression_ratio_limit"} : Held(f) = U32
  <2>1. \A f \in {"max_retries", "batch_size", "threads", "intra_op_threads", "inter_op_threads",
                   "default_limit", "rrf_k", "ef_search", "max_archive_members",
                   "compression_ratio_limit"} :
            f \notin ByteSizes \cup Durations \cup Wide \cup Switches \cup Floats \cup {"max_archive_depth"}
    BY DEF ByteSizes, Durations, Wide, Switches, Floats
  <2>2. /\ Held("target_tokens") = U64 /\ Held("overlap_tokens") = U64 /\ Held("min_tokens") = U64
        /\ Held("timeout_secs") = U64 /\ Held("max_file_size") = U64
        /\ Held("max_archive_total_size") = U64
        /\ Held("threshold") = U64 /\ Held("warn_threshold") = U64
    <3>1. {"target_tokens", "overlap_tokens", "min_tokens", "timeout_secs", "max_file_size",
           "max_archive_total_size", "threshold", "warn_threshold"}
              \subseteq ByteSizes \cup Durations \cup Wide
      BY DEF ByteSizes, Durations, Wide
    <3>2. \A f \in ByteSizes \cup Durations \cup Wide : Held(f) = U64
      BY KeysApart DEF Held
    <3>3. QED
      BY <3>1, <3>2
  <2>3. /\ Held("heading_prefix") = {0, 1} /\ Held("enabled") = {0, 1}
        /\ Held("index_new_only") = {0, 1} /\ Held("respect_gitignore") = {0, 1}
        /\ Held("respect_ndexignore") = {0, 1} /\ Held("follow_symlinks") = {0, 1}
        /\ Held("hidden") = {0, 1}
    BY KeysApart DEF Held, Switches
  <2>4. QED
    BY <2>1, <2>2, <2>3, KeysApart DEF Held
<1>7. /\ DOMAIN Defaults = {"chunking", "extraction", "embedding", "auto_refresh", "ignore", "walk",
                            "search", "archive"}
      /\ Defaults["chunking"] = [target_tokens |-> 512, overlap_tokens |-> 128, min_tokens |-> 32,
                                 heading_prefix |-> 1]
      /\ Defaults["extraction"] = [max_file_size |-> 2 * SizeUnits["gib"], max_retries |-> 3]
      /\ Defaults["embedding"] = [batch_size |-> 64, threads |-> 0, intra_op_threads |-> 0,
                                  inter_op_threads |-> 1]
      /\ Defaults["auto_refresh"] = [enabled |-> 1, threshold |-> TimeUnits["h"],
                                     warn_threshold |-> TimeUnits["w"], timeout_secs |-> 30,
                                     index_new_only |-> 1]
      /\ Defaults["ignore"] = [respect_gitignore |-> 1, respect_ndexignore |-> 1]
      /\ Defaults["walk"] = [follow_symlinks |-> 1, hidden |-> 1]
      /\ Defaults["search"] = [default_limit |-> 20, rrf_k |-> 60, title_boost |-> 2, fts_weight |-> 1,
                               ef_search |-> 128]
      /\ Defaults["archive"] = [max_archive_total_size |-> 8 * SizeUnits["gib"],
                                max_archive_members |-> 100000, max_archive_depth |-> 3,
                                compression_ratio_limit |-> 200]
  BY DEF Defaults
<1> DEFINE Fit(record) == \A f \in DOMAIN record : record[f] \in Held(f)
<1>8. Fit(Defaults["chunking"])
  BY <1>2, <1>6, <1>7
<1>9. Fit(Defaults["extraction"])
  BY <1>2, <1>4, <1>6, <1>7
<1>10. Fit(Defaults["embedding"])
  BY <1>2, <1>6, <1>7
<1>11. Fit(Defaults["auto_refresh"])
  BY <1>2, <1>4, <1>6, <1>7
<1>12. Fit(Defaults["ignore"]) /\ Fit(Defaults["walk"])
  BY <1>6, <1>7
<1>13. Fit(Defaults["search"])
  BY <1>2, <1>5, <1>6, <1>7
<1>14. Fit(Defaults["archive"])
  BY <1>2, <1>3, <1>4, <1>6, <1>7
<1>15. QED
  BY <1>7, <1>8, <1>9, <1>10, <1>11, <1>12, <1>13, <1>14

\* A configuration holds in every key what the key can hold.
Config(config) ==
    /\ config = [s \in DOMAIN Defaults |-> [f \in DOMAIN Defaults[s] |-> config[s][f]]]
    /\ \A s \in DOMAIN Defaults : \A f \in DOMAIN Defaults[s] : config[s][f] \in Held(f)

LEMMA Loaded ==
    ASSUME NEW toml \in Tomls
    PROVE  \A config \in FromToml(toml) : FromToml(toml) = {config} /\ Config(config)
<1>1. SUFFICES ASSUME NEW config \in FromToml(toml) PROVE FromToml(toml) = {config} /\ Config(config)
  OBVIOUS
<1>2. \A k \in Given(toml) : FromValue(k[2], toml[k[1]][k[2]]) # {}
  BY DEF FromToml
<1> DEFINE all == [s \in DOMAIN Defaults |-> [f \in DOMAIN Defaults[s] |->
                      IF <<s, f>> \in Given(toml)
                      THEN CHOOSE n \in FromValue(f, toml[s][f]) : TRUE
                      ELSE Defaults[s][f]]]
<1>3. FromToml(toml) = {all} /\ config = all
  BY <1>2 DEF FromToml
<1>4. ASSUME NEW s \in DOMAIN Defaults, NEW f \in DOMAIN Defaults[s] PROVE all[s][f] \in Held(f)
  <2>1. all[s][f] = IF <<s, f>> \in Given(toml)
                    THEN CHOOSE n \in FromValue(f, toml[s][f]) : TRUE
                    ELSE Defaults[s][f]
    OBVIOUS
  <2> HIDE DEF all
  <2>2. CASE <<s, f>> \in Given(toml)
    <3>1. s \in DOMAIN toml /\ f \in DOMAIN toml[s]
      BY <2>2 DEF Given
    <3>2. toml[s][f] \in Value
      BY <3>1, TomlsAssumption DEF Value
    <3>3. FromValue(f, toml[s][f]) # {}
      BY <1>2, <2>2
    <3>4. all[s][f] \in FromValue(f, toml[s][f])
      BY <2>1, <2>2, <3>3
    <3>5. QED
      BY <3>2, <3>4, ReadHeld
  <2>3. CASE <<s, f>> \notin Given(toml)
    BY <2>1, <2>3, DefaultsHeld
  <2>4. QED
    BY <2>2, <2>3
<1>5. all = [s \in DOMAIN Defaults |-> [f \in DOMAIN Defaults[s] |-> all[s][f]]]
  OBVIOUS
<1> HIDE DEF all
<1>6. QED
  BY <1>3, <1>4, <1>5 DEF Config

LEMMA Reloaded ==
    ASSUME NEW config, Config(config)
    PROVE  FromToml(ToToml(config)) = {config}
<1> DEFINE toml == ToToml(config)
<1>1. /\ config = [s \in DOMAIN Defaults |-> [f \in DOMAIN Defaults[s] |-> config[s][f]]]
      /\ \A s \in DOMAIN Defaults : \A f \in DOMAIN Defaults[s] : config[s][f] \in Held(f)
  BY DEF Config
<1>2. DOMAIN config = DOMAIN Defaults /\ \A s \in DOMAIN Defaults : DOMAIN config[s] = DOMAIN Defaults[s]
  <2> DEFINE c(s) == [f \in DOMAIN Defaults[s] |-> config[s][f]]
  <2>1. config = [s \in DOMAIN Defaults |-> c(s)] /\ \A s : DOMAIN c(s) = DOMAIN Defaults[s]
    BY <1>1
  <2> HIDE DEF c
  <2>2. QED
    BY <2>1
<1>3. /\ DOMAIN toml = DOMAIN Defaults
      /\ \A s \in DOMAIN Defaults :
            /\ DOMAIN toml[s] = DOMAIN Defaults[s]
            /\ \A f \in DOMAIN Defaults[s] : toml[s][f] = ToValue(f, config[s][f])
  BY <1>2 DEF ToToml
<1> HIDE DEF toml
<1>4. \A s \in DOMAIN Defaults : \A f \in DOMAIN Defaults[s] :
          <<s, f>> \in Given(toml) /\ FromValue(f, toml[s][f]) = {config[s][f]}
  BY <1>1, <1>3, HeldRead DEF Given
<1>5. \A k \in Given(toml) : FromValue(k[2], toml[k[1]][k[2]]) # {}
  <2>1. SUFFICES ASSUME NEW s \in DOMAIN toml \cap DOMAIN Defaults,
                        NEW f \in DOMAIN toml[s] \cap DOMAIN Defaults[s]
                 PROVE  FromValue(f, toml[s][f]) # {}
    BY DEF Given
  <2>2. QED
    BY <1>4
<1> DEFINE all == [s \in DOMAIN Defaults |-> [f \in DOMAIN Defaults[s] |->
                      IF <<s, f>> \in Given(toml)
                      THEN CHOOSE n \in FromValue(f, toml[s][f]) : TRUE
                      ELSE Defaults[s][f]]]
<1>6. FromToml(toml) = {all}
  BY <1>5 DEF FromToml
<1>7. all = [s \in DOMAIN Defaults |-> [f \in DOMAIN Defaults[s] |-> config[s][f]]]
  <2>1. \A s \in DOMAIN Defaults : \A f \in DOMAIN Defaults[s] :
           (IF <<s, f>> \in Given(toml)
            THEN CHOOSE n \in FromValue(f, toml[s][f]) : TRUE
            ELSE Defaults[s][f]) = config[s][f]
    BY <1>4
  <2>2. QED
    BY <2>1
<1>8. QED
  BY <1>1, <1>6, <1>7 DEF toml

SettingsInv ==
    kind = "settings" =>
        /\ given # Null => given \in Tomls /\ got = FromToml(given)
        /\ held # Null => given # Null /\ \E config \in got : held = ToToml(config)

LEMMA SettingsStep == SettingsInv /\ [Next]_vars => SettingsInv'
<1> SUFFICES ASSUME SettingsInv, [Next]_vars PROVE SettingsInv'
  OBVIOUS
<1>1. kind' = kind
  BY DEF Next, Walked, StatusSet, MetaWritten, MetaDeleted, Hello, Send, Receive,
         OpenIndex, Load, Save, Show, vars
<1>2. SUFFICES ASSUME kind = "settings" PROVE SettingsInv'
  BY <1>1 DEF SettingsInv
<1>3. Load \/ Save \/ UNCHANGED vars
  BY <1>2 DEF Next, Walked, StatusSet, MetaWritten, MetaDeleted, Hello, Send, Receive,
              OpenIndex, Show
<1>4. CASE Load
  BY <1>1, <1>2, <1>4 DEF Load, SettingsInv
<1>5. CASE Save
  BY <1>1, <1>2, <1>5 DEF Save, SettingsInv
<1>6. CASE UNCHANGED vars
  BY <1>1, <1>2, <1>6 DEF SettingsInv, vars
<1>7. QED
  BY <1>3, <1>4, <1>5, <1>6

LEMMA AlwaysSettings == Spec => []SettingsInv
<1>1. Init => SettingsInv
  BY DEF Init, SettingsInv
<1>2. QED
  BY <1>1, SettingsStep, PTL DEF Spec

\* Half of more is no less.
LEMMA HalvesMonotone ==
    ASSUME NEW a \in Int, NEW b \in Int, a <= b
    PROVE  a \div 2 <= b \div 2
  OBVIOUS

LEMMA SaturatedMonotone ==
    ASSUME NEW a \in Int, NEW b \in Int, a <= b
    PROVE  Saturated(a) <= Saturated(b)
<1>1. Half \in Nat \ {0}
  BY WidthAssumption
<1>2. QED
  BY <1>1 DEF Saturated, MaxU64

\* What a size of so many halves of a unit is.
SizeOf(halves, unit) ==
    Saturated(Rounded(Mantissa, Rounded(Mantissa, halves) * SizeUnits[unit]) \div 2)

LEMMA LargerSize ==
    ASSUME NEW a \in Int, NEW u \in DOMAIN SizeUnits, NEW b \in Int, NEW v \in DOMAIN SizeUnits,
           a * SizeUnits[u] <= b * SizeUnits[v],
           u = v \/ (a < Mantissa /\ b < Mantissa), 0 <= a
    PROVE  0 <= b /\ SizeOf(a, u) <= SizeOf(b, v)
<1> DEFINE x == SizeUnits[u]
           y == SizeUnits[v]
           c == Rounded(Mantissa, a)
           d == Rounded(Mantissa, b)
           e == c * x
           f == d * y
<1>1. x \in Nat \ {0} /\ y \in Nat \ {0} /\ a * x <= b * y /\ (u = v => x = y)
  BY UnitType
<1> HIDE DEF x, y
<1>2. 0 <= a * x /\ a * x \in Int /\ b * y \in Int
  BY <1>1
<1>3. b >= 0
  <2>1. SUFFICES ASSUME b + 1 <= 0 PROVE FALSE
    OBVIOUS
  <2>2. (b + 1) * y <= 0 * y /\ (b + 1) * y = b * y + y
    BY <1>1, <2>1, Products
  <2>3. QED
    BY <1>1, <1>2, <2>2
<1>4. c \in Int /\ d \in Int /\ 0 <= c /\ 0 <= d
  <2>1. Rounded(Mantissa, 0) = 0
    BY MantissaType, RoundedSmall
  <2>2. Rounded(Mantissa, 0) <= c /\ Rounded(Mantissa, 0) <= d
    BY <1>3, MantissaType, RoundedMonotone
  <2>3. c \in Int /\ d \in Int
    BY MantissaType, RoundedOnce
  <2> HIDE DEF c, d
  <2>4. QED
    BY <2>1, <2>2, <2>3
<1>5. c * x <= d * y
  <2>1. CASE u = v
    <3>1. a <= b
      <4>1. SUFFICES ASSUME b + 1 <= a PROVE FALSE
        OBVIOUS
      <4>2. (b + 1) * y <= a * y /\ (b + 1) * y = b * y + y
        BY <1>1, <4>1, Products
      <4>3. QED
        BY <1>1, <1>2, <2>1, <4>2
    <3>2. c <= d
      BY <1>3, <3>1, MantissaType, RoundedMonotone
    <3> HIDE DEF c, d
    <3>3. QED
      BY <1>1, <1>4, <2>1, <3>2, Products
  <2>2. CASE a < Mantissa /\ b < Mantissa
    <3>1. c = a /\ d = b
      BY <1>3, <2>2, MantissaType, RoundedSmall
    <3>2. QED
      BY <1>1, <3>1
  <2>3. QED
    BY <2>1, <2>2
<1> HIDE DEF c, d
<1>6. e \in Nat /\ f \in Nat /\ e <= f
  BY <1>1, <1>4, <1>5
<1> HIDE DEF e, f
<1> DEFINE g == Rounded(Mantissa, e)
           h == Rounded(Mantissa, f)
<1>7. g \in Int /\ h \in Int /\ g <= h
  BY <1>6, MantissaType, RoundedMonotone, RoundedOnce
<1> HIDE DEF g, h
<1>8. Saturated(g \div 2) <= Saturated(h \div 2)
  BY <1>7, HalvesMonotone, HalfIs, SaturatedMonotone
<1>9. QED
  BY <1>3, <1>8 DEF SizeOf, g, h, e, f, c, d, x, y

LEMMA LargerDuration ==
    ASSUME NEW a \in Int, NEW u \in DOMAIN TimeUnits, NEW b \in Int, NEW v \in DOMAIN TimeUnits,
           a * TimeUnits[u] <= b * TimeUnits[v], b * TimeUnits[v] <= 2 * MaxU64,
           a % 2 # 1, b % 2 # 1, 0 <= a, 0 <= b
    PROVE  ((a \div 2) * TimeUnits[u]) % (2 * Half) <= ((b \div 2) * TimeUnits[v]) % (2 * Half)
<1> DEFINE x == TimeUnits[u]
           y == TimeUnits[v]
           i == a \div 2
           j == b \div 2
           w == 2 * Half
<1>1. x \in Nat \ {0} /\ y \in Nat \ {0} /\ a * x <= b * y
  BY UnitType
<1>2. i \in Nat /\ a = 2 * i /\ j \in Nat /\ b = 2 * j
  OBVIOUS
<1>3. w \in Nat \ {0} /\ b * y <= 2 * (w - 1)
  BY WidthAssumption DEF MaxU64
<1> HIDE DEF x, y, i, j, w
<1>4. a * x = 2 * (i * x) /\ b * y = 2 * (j * y) /\ i * x \in Nat /\ j * y \in Nat
  BY <1>1, <1>2
<1>5. i * x <= j * y /\ j * y <= w - 1
  BY <1>1, <1>3, <1>4
<1>6. (i * x) % w = i * x /\ (j * y) % w = j * y
  <2> DEFINE s == i * x
             t == j * y
  <2>1. s \in 0 .. w - 1 /\ t \in 0 .. w - 1
    BY <1>3, <1>4, <1>5
  <2> HIDE DEF s, t
  <2>2. s % w = s /\ t % w = t
    BY <1>3, <2>1, ModSmall
  <2>3. QED
    BY <2>2 DEF s, t
<1>7. QED
  BY <1>5, <1>6 DEF x, y, i, j, w

-----------------------------------------------------------------------------
\* Builds of any versions, one field, message or variant apart, refuse a message
\* if they do not know its name or a variant in it, and no other.  An index is
\* opened by the builds of its schema, if complete, and by no other; which
\* error an incomplete one gives is left open.
THEOREM Peers == Spec => []PeersUnderstand
<1>1. Spec => []PeerInv
  BY InitPeerInv, PeerStep, PTL DEF Spec
<1>2. PeerInv => PeersUnderstand
  <2> SUFFICES ASSUME PeerInv PROVE PeersUnderstand
    OBVIOUS
  <2>1. CASE kind = "message" /\ got # Null
    BY <2>1, MessageUnderstood DEF PeerInv
  <2>2. CASE kind = "hello" /\ got # Null
    BY <2>2, HelloUnderstood DEF PeerInv
  <2>3. CASE kind = "identity"
    BY <2>3, IdentityUnderstood DEF PeerInv
  <2>4. CASE ~(kind = "identity") /\ ~(kind \in {"message", "hello"} /\ got # Null)
    BY <2>4 DEF PeersUnderstand
  <2>5. QED
    BY <2>1, <2>2, <2>3, <2>4
<1>3. QED
  BY <1>1, <1>2, PTL

\* Rows are read back as they were written, whatever the sizes, inodes, times
\* and hashes, and metadata as it was written last.
THEOREM RowsKept == Spec => []RowsReadBack
<1> DEFINE Inv == RowInv /\ MetaInv
<1>1. Spec => []Inv
  BY InitRow, RowStep, InitMeta, MetaStep, PTL DEF Spec
<1>2. Inv => RowsReadBack
  <2> SUFFICES ASSUME Inv PROVE RowsReadBack
    OBVIOUS
  <2>1. ASSUME kind = "file", held # Null
        PROVE  LET record == Record(held)
               IN  /\ \A c \in DOMAIN WalkEntry(given.stat) : record[c] = WalkEntry(given.stat)[c]
                   /\ record.path_hash = PathHash(record.path)
                   /\ record.status = given.status /\ record.fail_count = given.failures
                   /\ record.first_seen_ns = given.since
    BY <2>1, RecordIs, EntryIs
  <2>2. ASSUME kind = "meta"
        PROVE  \A t \in {"doc_meta", "media_meta"} : ReadMeta(held, t) = given[t]
    BY <2>2, MetaColumns DEF MetaInv
  <2>3. QED
    BY <2>1, <2>2 DEF RowsReadBack
<1>3. QED
  BY <1>1, <1>2, PTL

\* The diff tells a file from what it was by size and time alone, at any width,
\* and fails to only for times that lie whole turns of an i64 apart, of which
\* two that both fit never do.  (Inode and mode are not compared.)
THEOREM Changes == Spec => []ChangesAreSeen
<1>1. Spec => []RowInv
  BY InitRow, RowStep, PTL DEF Spec
<1>2. RowInv => ChangesAreSeen
  <2> DEFINE old == given.stat
             unchanged(stat) == Classify(held, WalkEntry(stat)) = "Unchanged"
  <2> SUFFICES ASSUME RowInv, kind = "file", held # Null, NEW stat \in Stats
               PROVE  /\ unchanged(stat) <=> /\ stat.size = old.size
                                             /\ (Time(stat) - Time(old)) % (2 * Half) = 0
                      /\ Fits(stat) /\ Fits(old) =>
                            (unchanged(stat) <=> <<stat.size, stat.secs, stat.nsec>> =
                                                 <<old.size, old.secs, old.nsec>>)
    BY DEF ChangesAreSeen
  <2>1. /\ old \in Stats /\ Record(held).size = old.size
        /\ Record(held).mtime_ns = MtimeNs(old.secs, old.nsec)
    BY RecordIs, EntryIs DEF Walk
  <2>2. WalkEntry(stat).size = stat.size /\ WalkEntry(stat).mtime_ns = MtimeNs(stat.secs, stat.nsec)
    BY EntryIs
  <2>3. unchanged(stat) <=>
            /\ old.size = stat.size
            /\ MtimeNs(old.secs, old.nsec) = MtimeNs(stat.secs, stat.nsec)
    BY <2>1, <2>2 DEF Classify
  <2> HIDE DEF old, unchanged
  <2>4. MtimeNs(stat.secs, stat.nsec) = MtimeNs(old.secs, old.nsec)
            <=> (Time(stat) - Time(old)) % (2 * Half) = 0
    <3>1. /\ Time(stat) \in Int /\ Time(old) \in Int
          /\ MtimeNs(old.secs, old.nsec) = AsI64(Time(old))
          /\ MtimeNs(stat.secs, stat.nsec) = AsI64(Time(stat))
      BY <2>1, TimeWraps
    <3>2. AsI64(Time(stat)) = AsI64(Time(old)) <=> (Time(stat) - Time(old)) % (2 * Half) = 0
      BY <3>1, SameCast
    <3>3. QED
      BY <3>1, <3>2
  <2>5. ASSUME Fits(stat), Fits(old)
        PROVE  MtimeNs(old.secs, old.nsec) = MtimeNs(stat.secs, stat.nsec)
                   <=> old.secs = stat.secs /\ old.nsec = stat.nsec
    <3>1. /\ MtimeNs(old.secs, old.nsec) = old.secs * Nano + old.nsec
          /\ MtimeNs(stat.secs, stat.nsec) = stat.secs * Nano + stat.nsec
      BY <2>1, <2>5, TimeIs
    <3>2. /\ old.secs \in Int /\ old.nsec \in 0 .. Nano - 1 /\ Nano \in Nat \ {0}
          /\ stat.secs \in Int /\ stat.nsec \in 0 .. Nano - 1
      BY <2>1, EntryIs, NanoAssumption
    <3>3. old.secs * Nano + old.nsec = stat.secs * Nano + stat.nsec
              <=> old.secs = stat.secs /\ old.nsec = stat.nsec
      BY <3>2, TimesTold
    <3>4. QED
      BY <3>1, <3>3
  <2>6. QED
    BY <2>3, <2>4, <2>5
<1>3. QED
  BY <1>1, <1>2, PTL

\* A JSON reader gets a name of any length that is UTF-8 back as it is, and can
\* take what it reads for no other such name.
THEOREM Shown == Spec => []TextNamesReadBack
<1>1. Init => NameInv
  BY NullAssumption DEF Init, NameInv, NoMeta
<1>2. Spec => []NameInv
  BY <1>1, NameStep, PTL DEF Spec
<1>3. NameInv => TextNamesReadBack
  <2> SUFFICES ASSUME NameInv, kind = "name", given # Null, given \in TextNames,
                      NEW name \in TextNames
               PROVE  ReadAs(got, name) <=> name = given
    BY DEF TextNamesReadBack
  <2>1. ToJsonEscaped(given) = got
    BY DEF NameInv
  <2>2. ReadAs(ToJsonEscaped(given), name) <=> name = given
    BY ReadsBack
  <2>3. QED
    BY <2>1, <2>2
<1>4. QED
  BY <1>2, <1>3, PTL

\* A configuration that was saved is loaded as it was, whatever its numbers.
THEOREM Reload == Spec => []SettingsReload
<1>1. SettingsInv => SettingsReload
  <2> SUFFICES ASSUME SettingsInv, kind = "settings", held # Null PROVE FromToml(held) = got
    BY DEF SettingsReload
  <2>1. given \in Tomls /\ got = FromToml(given)
    BY DEF SettingsInv
  <2>2. PICK config \in got : held = ToToml(config)
    BY DEF SettingsInv
  <2>3. got = {config} /\ Config(config)
    BY <2>1, <2>2, Loaded
  <2>4. QED
    BY <2>2, <2>3, Reloaded
<1>2. QED
  BY <1>1, AlwaysSettings, PTL

\* More of a unit, or of a larger one, is never a smaller setting.
THEOREM Larger == Spec => []LargerTextLargerSetting
<1>1. ASSUME NEW k \in Given(given), NEW text \in Texts, given \in Tomls
      PROVE  LET mine == given[k[1]][k[2]]
                 units == IF k[2] \in ByteSizes THEN SizeUnits ELSE TimeUnits
                 Amount(t) == t.halves * units[t.unit]
             IN  /\ k[2] \in ByteSizes \cup Durations
                 /\ mine \in Texts /\ {mine.unit, text.unit} \subseteq DOMAIN units
                 /\ Amount(mine) <= Amount(text)
                 /\ k[2] \in Durations => Amount(text) <= 2 * MaxU64
                 /\ k[2] \in ByteSizes /\ mine.unit # text.unit =>
                       mine.halves < Mantissa /\ text.halves < Mantissa
                 => \A m \in FromValue(k[2], mine), n \in FromValue(k[2], text) : m <= n
  <2> DEFINE mine == given[k[1]][k[2]]
             f == k[2]
             a == mine.halves
             u == mine.unit
             b == text.halves
             v == text.unit
  <2>1. SUFFICES ASSUME mine \in Texts, f \in ByteSizes \cup Durations,
                        LET units == IF f \in ByteSizes THEN SizeUnits ELSE TimeUnits
                        IN  /\ u \in DOMAIN units /\ v \in DOMAIN units
                            /\ a * units[u] <= b * units[v]
                            /\ f \in Durations => b * units[v] <= 2 * MaxU64
                            /\ f \in ByteSizes /\ u # v => a < Mantissa /\ b < Mantissa,
                        NEW m \in FromValue(f, mine), NEW n \in FromValue(f, text)
                 PROVE  m <= n
    OBVIOUS
  <2>2. /\ a \in Int /\ "halves" \in DOMAIN mine
        /\ b \in Int /\ "halves" \in DOMAIN text
    BY <2>1, TomlsAssumption
  <2> HIDE DEF mine, f
  <2>3. CASE f \in ByteSizes
    <3>1. /\ u \in DOMAIN SizeUnits /\ v \in DOMAIN SizeUnits
          /\ a * SizeUnits[u] <= b * SizeUnits[v]
          /\ u = v \/ (a < Mantissa /\ b < Mantissa)
      BY <2>1, <2>3
    <3>2. m \in ByteSize(mine) /\ n \in ByteSize(text)
      BY <2>1, <2>2, <2>3, KeysApart DEF FromValue, SizeValue
    <3>3. /\ m = IF a < 0 THEN Saturated(a) ELSE SizeOf(a, u)
          /\ n = IF b < 0 THEN Saturated(b) ELSE SizeOf(b, v)
      BY <3>2 DEF ByteSize, SizeOf
    <3>4. CASE 0 <= a
      <4>1. 0 <= b /\ SizeOf(a, u) <= SizeOf(b, v)
        BY <2>2, <3>1, <3>4, LargerSize
      <4>2. QED
        BY <2>2, <3>3, <3>4, <4>1
    <3>5. CASE a < 0
      <4>1. m = 0
        <5>1. ~(a > MaxU64)
          BY <2>2, <3>5, WidthAssumption DEF MaxU64
        <5>2. QED
          BY <2>2, <3>3, <3>5, <5>1 DEF Saturated
      <4>2. n \in U64
        BY <2>2, <3>2, SizeIs
      <4>3. QED
        BY <4>1, <4>2, WidthAssumption DEF U64
    <3>6. QED
      BY <2>2, <3>4, <3>5
  <2>4. CASE f \in Durations
    <3>1. /\ u \in DOMAIN TimeUnits /\ v \in DOMAIN TimeUnits
          /\ a * TimeUnits[u] <= b * TimeUnits[v] /\ b * TimeUnits[v] <= 2 * MaxU64
      BY <2>1, <2>4, KeysApart
    <3>2. m \in DurationSetting(mine) /\ n \in DurationSetting(text)
      BY <2>1, <2>2, <2>4, KeysApart DEF FromValue, DurationValue
    <3>3. /\ a % 2 # 1 /\ a \in 0 .. 2 * MaxU64 /\ m = ((a \div 2) * TimeUnits[u]) % (2 * Half)
          /\ b % 2 # 1 /\ b \in 0 .. 2 * MaxU64 /\ n = ((b \div 2) * TimeUnits[v]) % (2 * Half)
      BY <3>2 DEF DurationSetting
    <3>4. 0 <= a /\ 0 <= b
      BY <3>3
    <3>5. QED
      BY <2>2, <3>1, <3>3, <3>4, LargerDuration
  <2>5. QED
    BY <2>1, <2>3, <2>4
<1>2. SettingsInv => LargerTextLargerSetting
  BY <1>1 DEF SettingsInv, LargerTextLargerSetting
<1>3. QED
  BY <1>2, AlwaysSettings, PTL

=============================================================================
