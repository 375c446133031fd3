----------------------------- MODULE Encodings -----------------------------
(***************************************************************************)
(* What the program writes in one place and reads in another: rows of its  *)
(* databases, messages between builds, index.toml, config.toml, names of   *)
(* files in JSON.                                                          *)
(*                                                                         *)
(* A behaviour exercises one of them, chosen at the start.  held is what   *)
(* lies on the disk or the wire, given remembers what went in, and got is  *)
(* what came out.                                                          *)
(***************************************************************************)
EXTENDS Columns, Messages, Settings, Identity, Names, FiniteSets

CONSTANTS
    Stats,            \* results of lstat: [secs, nsec, size, inode, dev, mode]
    MetaValues,       \* values of a metadata field, Null among them
    Texts,            \* numbers with units in config.toml
    Tomls,            \* contents of config.toml: sections of keys
    Versions,         \* versions of the protocol, and of the index
    MaxWrites,        \* writes of one row, to bound the model
    NameLength        \* longest name

ASSUME VersionsAssumption == Versions \subseteq Nat

ASSUME LengthAssumption == NameLength \in Nat

\* What TOML can hold for a key.
ASSUME TomlsAssumption ==
    /\ Texts \subseteq [halves : Int, unit : STRING]
    /\ \A toml \in Tomls : \A s \in DOMAIN toml : \A f \in DOMAIN toml[s] :
          toml[s][f] \in [halves : Int, unit : STRING] \cup [int : Int] \cup
                         [float : Int] \cup [flag : {0, 1}]

\* What lstat and the extractors return has the types of their fields, and no
\* file fails more often than a u32 counts.
ASSUME InputsAssumption ==
    /\ Stats \subseteq [secs : Int, nsec : 0 .. Nano - 1, size : U64, inode : U64,
                       dev : U64, mode : U32]
    /\ \A v \in MetaValues : v = Null \/ v \in U64
    /\ MaxWrites \in 0 .. Word - 1

\* NULL is no row.
ASSUME RowsAssumption ==
    /\ Null \notin [DOMAIN Files -> Int \cup {Null}]
    /\ \A t \in DOMAIN MetaTables : Null \notin [DOMAIN MetaTables[t] -> Int \cup {Null}]

VARIABLES
    kind,             \* "file", "meta", "hello", "message", "identity", "settings" or "name"
    held, given, got

vars == <<kind, held, given, got>>

Empty == [writes |-> 0, failures |-> 0]

\* The builds a message goes between: this one, and one that differs.
OtherBuilds(struct) ==
    [extra : {{}, {"extra"}}, gone : {{}} \cup {{f} : f \in Structs[struct]},
     tags : BOOLEAN, values : BOOLEAN]

Pairs(struct) ==
    {<<ThisBuild, b>> : b \in OtherBuilds(struct)} \cup
    {<<b, ThisBuild>> : b \in OtherBuilds(struct)}

Enums == {ClientMessage, ServerMessage}

\* Bodies: all fields at their default, or all filled in, one of them perhaps
\* with an enum's newest variant.
Bodies(build, struct) ==
    LET fields == Fields(build, struct)
    IN  {[f \in fields |-> "zero"], [f \in fields |-> "some"]} \cup
        {[f \in fields |-> IF f = e THEN "new" ELSE "some"] :
            e \in {g \in fields : "new" \in Values(build, g)}}

Names == UNION {[1 .. n -> Units] : n \in 1 .. NameLength}

\* Names that are UTF-8.
TextNames == UNION {[1 .. n -> Characters] : n \in 1 .. NameLength}

Init ==
    /\ got = Null
    /\ \/ kind = "file" /\ held = Null /\ given = Empty
       \/ kind = "meta" /\ held = NoMeta /\ given = Both(NoMeta, [writes |-> 0])
       \/ /\ kind = "hello" /\ held = Null
          /\ given \in {v \in [clientMin : Versions, clientMax : Versions,
                               serverMin : Versions, serverMax : Versions] :
                           v.clientMin <= v.clientMax /\ v.serverMin <= v.serverMax}
       \/ kind \in {"message", "identity", "settings", "name"} /\ held = Null /\ given = Null

-----------------------------------------------------------------------------
\* The manifest.  Time is counted in writes.
Walked ==
    /\ kind = "file" /\ given.writes < MaxWrites
    /\ \E stat \in Stats :
          /\ held' = UpsertWalked(held, 1, 1, WalkEntry(stat), given.writes)
          /\ given' = [writes |-> given.writes + 1, stat |-> stat, status |-> 0,
                       failures |-> given.failures,
                       since |-> IF held = Null THEN given.writes ELSE given.since]
    /\ UNCHANGED <<kind, got>>

StatusSet ==
    /\ kind = "file" /\ held # Null /\ given.writes < MaxWrites
    /\ \E status \in 1 .. 5 :
          /\ held' = SetStatus(held, status, Null, given.writes)
          /\ given' = [given EXCEPT !.writes = @ + 1, !.status = status,
                          !.failures = @ + (IF status \in {2, 4} THEN 1 ELSE 0)]
    /\ UNCHANGED <<kind, got>>

\* meta.db.
MetaWritten ==
    /\ kind = "meta" /\ given.writes < MaxWrites
    /\ \E t \in DOMAIN MetaTables, v \in MetaValues, c \in {"page_count", "duration_ms", "total_size"} :
          LET record == [f \in DOMAIN MetaTables[t] |-> IF f = c THEN v ELSE Null]
          IN  /\ c \in DOMAIN MetaTables[t]
              /\ MetaTables[t][c] = "u32" => v = Null \/ v \in U32
              /\ held' = UpsertMeta(held, t, record)
              /\ given' = [given EXCEPT ![t] = record, !.writes = @ + 1]
    /\ UNCHANGED <<kind, got>>

MetaDeleted ==
    /\ kind = "meta" /\ 0 < given.writes /\ given.writes < MaxWrites
    /\ held' = DeleteMeta(held)
    /\ given' = Both(NoMeta, [writes |-> given.writes + 1])
    /\ UNCHANGED <<kind, got>>

\* The wire.
Hello ==
    /\ kind = "hello" /\ got = Null
    /\ got' = Negotiate(given.clientMin, given.clientMax, given.serverMin, given.serverMax)
    /\ UNCHANGED <<kind, held, given>>

Send ==
    /\ kind = "message" /\ held = Null
    /\ \E enum \in Enums : \E t \in DOMAIN enum \cup {"NewMessage"} :
          \E struct \in IF t \in DOMAIN enum THEN Inside(enum[t]) ELSE {"Unit"} :
             \E pair \in Pairs(struct) : \E body \in Bodies(pair[1], struct) :
                /\ t \in Tags(pair[1], enum)
                /\ held' = ToVecNamed(pair[1], t, struct, body)
                /\ given' = [enum |-> enum, tag |-> t, struct |-> struct, body |-> body,
                             from |-> pair[1], to |-> pair[2]]
    /\ UNCHANGED <<kind, got>>

Receive ==
    /\ kind = "message" /\ held # Null /\ got = Null
    /\ got' = FromSlice(given.to, given.enum, held)
    /\ UNCHANGED <<kind, held, given>>

\* index.toml: one build opens what another wrote, which may have had a key more
\* or less, at a schema of its own.
OpenIndex ==
    /\ kind = "identity" /\ given = Null
    /\ \E schema, version \in Versions, extra \in BOOLEAN,
          gone \in {{}} \cup {{key} : key \in IndexIdentity} :
          /\ held' = [keys |-> (IndexIdentity \ gone) \cup
                              (IF extra THEN {"extra"} ELSE {}),
                      version |-> version]
          /\ given' = schema
          /\ got' = OpenIdentity(schema, held')
    /\ UNCHANGED kind

\* config.toml: what its user wrote is loaded, saved and loaded again.
Load ==
    /\ kind = "settings" /\ given = Null
    /\ \E toml \in Tomls : given' = toml /\ got' = FromToml(toml)
    /\ UNCHANGED <<kind, held>>

Save ==
    /\ kind = "settings" /\ given # Null /\ held = Null
    /\ \E config \in got : held' = ToToml(config)
    /\ UNCHANGED <<kind, given, got>>

\* A name as JSON.
Show ==
    /\ kind = "name" /\ given = Null
    /\ \E name \in Names :
          given' = name /\ held' = DisplayLossy(name) /\ got' = ToJsonEscaped(name)
    /\ UNCHANGED kind

Next ==
    \/ Walked \/ StatusSet
    \/ MetaWritten \/ MetaDeleted
    \/ Hello \/ Send \/ Receive
    \/ OpenIndex
    \/ Load \/ Save
    \/ Show

Spec == Init /\ [][Next]_vars

-----------------------------------------------------------------------------
(***************************************************************************)
(* What holds.                                                             *)
(***************************************************************************)

\* A row is read back as it was written, at every width, and a file walked
\* again keeps its history: when it was first seen, and how often it failed.
\* Metadata read back is that of the last write, no field of an older one.
RowsReadBack ==
    /\ kind = "file" /\ held # Null =>
        LET record == Record(held)
        IN  /\ \A c \in DOMAIN WalkEntry(given.stat) : record[c] = WalkEntry(given.stat)[c]
            /\ record.path_hash = PathHash(record.path)
            /\ record.status = given.status /\ record.fail_count = given.failures
            /\ record.first_seen_ns = given.since
    /\ kind = "meta" =>
        \A t \in {"doc_meta", "media_meta"} : ReadMeta(held, t) = given[t]

\* Times that fit nanoseconds in an i64: from 1677 to 2262.
Time(stat) == stat.secs * Nano + stat.nsec
Fits(stat) == Time(stat) \in I64

\* The diff calls a file unchanged if and only if its size and time are those
\* of the last upsert, whatever their signs and widths.  Of times that do not
\* fit it takes for the same what lies 2^64 nanoseconds apart, some 584 years,
\* or a multiple of that, and nothing else.
ChangesAreSeen ==
    kind = "file" /\ held # Null =>
        \A stat \in Stats :
            LET unchanged == Classify(held, WalkEntry(stat)) = "Unchanged"
                old == given.stat
            IN  /\ unchanged <=> /\ stat.size = old.size
                                 /\ (Time(stat) - Time(old)) % (2 * Half) = 0
                /\ Fits(stat) /\ Fits(old) =>
                      (unchanged <=> <<stat.size, stat.secs, stat.nsec>> =
                                     <<old.size, old.secs, old.nsec>>)

\* Builds of which one has a field, a message or a variant more than the other
\* agree on the highest version both speak.  Then only an unknown message or
\* variant is refused; a field one side lacks is not, and costs no other field.
\* An index is opened by the builds of its schema that find all keys they know,
\* and the others refuse it, naming the schema if they find all keys.
PeersUnderstand ==
    /\ kind = "hello" /\ got # Null =>
        LET common == (given.clientMin .. given.clientMax) \cap
                      (given.serverMin .. given.serverMax)
        IN  IF common = {} THEN got = [code |-> 5]
            ELSE "version" \in DOMAIN got /\ got.version \in common /\
                 \A v \in common : v <= got.version
    /\ kind = "message" /\ got # Null =>
        LET known == Fields(given.to, given.struct)
            said == DOMAIN given.body
        IN  IF \/ given.tag \notin Tags(given.to, given.enum)
               \/ \E f \in said \cap known : given.body[f] \notin Values(given.to, f)
            THEN got = [code |-> 1]
            ELSE got = [body |-> [f \in known |->
                            IF f \in said THEN given.body[f] ELSE "zero"]]
    /\ kind = "identity" /\ given # Null =>
        LET complete == IndexIdentity \subseteq held.keys
        IN  IF complete /\ held.version = given THEN got = [version |-> given]
            ELSE "code" \in DOMAIN got /\ (complete => got = [code |-> 6])

\* A configuration that could be saved is loaded again as it was.
SettingsReload ==
    kind = "settings" /\ held # Null => FromToml(held) = got

\* A number and a unit that stand for more never make a smaller setting, as
\* long as the seconds of a duration fit, and sizes of different units have
\* numbers that a float counts exactly.
LargerTextLargerSetting ==
    kind = "settings" /\ given # Null =>
        \A k \in Given(given) : \A text \in Texts :
            LET mine == given[k[1]][k[2]]
                units == IF k[2] \in ByteSizes THEN SizeUnits ELSE TimeUnits
                Amount(t) == t.halves * units[t.unit]
            IN  /\ k[2] \in ByteSizes \cup Durations
                /\ mine \in Texts /\ {mine.unit, text.unit} \subseteq DOMAIN units
                /\ Amount(mine) <= Amount(text)
                /\ k[2] \in Durations => Amount(text) <= 2 * MaxU64
                /\ k[2] \in ByteSizes /\ mine.unit # text.unit =>
                      mine.halves < Mantissa /\ text.halves < Mantissa
                => \A m \in FromValue(k[2], mine), n \in FromValue(k[2], text) : m <= n

\* A name that is UTF-8, shown in JSON's escapes, is read back from the JSON as
\* itself and as nothing else.  (Any other is not: a byte that is not UTF-8 is
\* shown like the character of its number.)
TextNamesReadBack ==
    kind = "name" /\ given # Null /\ given \in TextNames =>
        \A name \in TextNames : ReadAs(got, name) <=> name = given

=============================================================================
