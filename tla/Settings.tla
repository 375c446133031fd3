------------------------------ MODULE Settings ------------------------------
(***************************************************************************)
(* config.toml: sections of keys, each of which may be missing, and the    *)
(* numbers with units that some of them hold.                              *)
(*                                                                         *)
(* A value in the file is an integer, a float (a whole one), a switch, or  *)
(* a text with a number and a unit.                                        *)
(* Numbers in texts are counted in halves, so that "1.5GiB" has 3 of them. *)
(* Floats have gaps above Mantissa.  A reader that may refuse returns the  *)
(* set of what it reads: none, or one.                                     *)
(***************************************************************************)
EXTENDS Widths

CONSTANTS
    Mantissa,         \* 2^53: up to here an f64 has every integer,
    Mantissa32,       \* 2^24: and an f32
    SizeUnits,        \* unit -> bytes
    TimeUnits         \* unit -> seconds

\* A mantissa is a power of two, of which it only matters that it is even.
ASSUME SettingsAssumption ==
    /\ Mantissa \in 4 .. Half /\ Mantissa % 2 = 0
    /\ Mantissa32 \in 4 .. Mantissa /\ Mantissa32 % 2 = 0
    /\ SizeUnits \in [DOMAIN SizeUnits -> Nat \ {0}] /\ "gib" \in DOMAIN SizeUnits
    /\ TimeUnits \in [DOMAIN TimeUnits -> Nat \ {0}] /\ {"h", "w"} \subseteq DOMAIN TimeUnits

MaxU64 == 2 * Half - 1

\* The defaults have the types of their keys.
ASSUME DefaultsAssumption ==
    100000 < Word /\ 8 * SizeUnits["gib"] <= MaxU64 /\ {TimeUnits["h"], TimeUnits["w"]} \subseteq U64

\* Every key with its default; switches are 0 and 1.
Defaults ==
    [chunking |-> [target_tokens |-> 512, overlap_tokens |-> 128, min_tokens |-> 32,
                   heading_prefix |-> 1],
     extraction |-> [max_file_size |-> 2 * SizeUnits["gib"], max_retries |-> 3],
     embedding |-> [batch_size |-> 64, threads |-> 0, intra_op_threads |-> 0,
                    inter_op_threads |-> 1],
     auto_refresh |-> [enabled |-> 1, threshold |-> TimeUnits["h"],
                       warn_threshold |-> TimeUnits["w"], timeout_secs |-> 30,
                       index_new_only |-> 1],
     ignore |-> [respect_gitignore |-> 1, respect_ndexignore |-> 1],
     walk |-> [follow_symlinks |-> 1, hidden |-> 1],
     search |-> [default_limit |-> 20, rrf_k |-> 60, title_boost |-> 2, fts_weight |-> 1,
                 ef_search |-> 128],
     archive |-> [max_archive_total_size |-> 8 * SizeUnits["gib"],
                  max_archive_members |-> 100000, max_archive_depth |-> 3,
                  compression_ratio_limit |-> 200]]

ByteSizes == {"max_file_size", "max_archive_total_size"}
Durations == {"threshold", "warn_threshold"}
Floats == {"title_boost", "fts_weight"}
Switches ==
    {"heading_prefix", "enabled", "index_new_only", "respect_gitignore",
     "respect_ndexignore", "follow_symlinks", "hidden"}
Wide == {"target_tokens", "overlap_tokens", "min_tokens", "timeout_secs"}

-----------------------------------------------------------------------------
\* The gap between floats, which doubles with the number.
Gap(m, size) ==
    LET gap[n \in 0 .. size] == IF n < m THEN 1 ELSE 2 * gap[n \div 2]
    IN  gap[size]

\* A float: the nearest number that has one, ties to the even mantissa.
Rounded(m, n) ==
    LET gap == Gap(m, IF n < 0 THEN -n ELSE n)
        below == n \div gap
        rest == n % gap
        up == 2 * rest > gap \/ (2 * rest = gap /\ below % 2 = 1)
    IN  (IF up THEN below + 1 ELSE below) * gap

\* `as u64` of an f64: what is too small or too large becomes the nearest end.
Saturated(n) == CASE n < 0 -> 0 [] n > MaxU64 -> MaxU64 [] OTHER -> n

\* Mutant of ByteSize: the product is a u64's, like that of a duration.
ByteSizeWrapping(text) ==
    {((text.halves * SizeUnits[u]) \div 2) % (2 * Half) :
        u \in {text.unit} \cap DOMAIN SizeUnits}

\* ByteSize::from_str.
ByteSize(text) ==
    {IF text.halves < 0 THEN Saturated(text.halves)
     ELSE Saturated(Rounded(Mantissa, Rounded(Mantissa, text.halves) * SizeUnits[u]) \div 2) :
        u \in {text.unit} \cap DOMAIN SizeUnits}

\* DurationSetting::from_str: a u64 times a u64, which release builds reduce.
DurationSetting(text) ==
    IF text.halves % 2 = 1 \/ text.halves \notin 0 .. 2 * MaxU64 THEN {}
    ELSE {((text.halves \div 2) * TimeUnits[u]) % (2 * Half) :
             u \in {text.unit} \cap DOMAIN TimeUnits}

\* A value with an integer in it, if it is one of the set.
IntIn(set, value) ==
    IF "int" \in DOMAIN value THEN {n \in {value.int} : n \in set} ELSE {}

\* ByteSize::deserialize and DurationSetting::deserialize: an integer that is
\* not negative, or a text.
SizeValue(value) ==
    IF "halves" \in DOMAIN value THEN ByteSize(value) ELSE IntIn(U64, value)
DurationValue(value) ==
    IF "halves" \in DOMAIN value THEN DurationSetting(value) ELSE IntIn(U64, value)

\* An f32: what is read is an i64 or an f64.
FloatValue(value) ==
    LET read == IF "float" \in DOMAIN value THEN {Rounded(Mantissa, value.float)}
                ELSE IntIn(I64, value)
    IN  {Rounded(Mantissa32, n) : n \in read}

\* The value of a key: what its type can hold.
FromValue(f, value) ==
    CASE f \in ByteSizes          -> SizeValue(value)
      [] f \in Durations          -> DurationValue(value)
      [] f \in Switches           -> {n \in {0, 1} : "flag" \in DOMAIN value /\ n = value.flag}
      [] f \in Floats             -> FloatValue(value)
      [] f \in Wide               -> IntIn(U64, value)
      [] f = "max_archive_depth"  -> IntIn(U8, value)
      [] OTHER                    -> IntIn(U32, value)

\* The keys of a file that mean something; all others are passed over.
Given(toml) ==
    UNION {{<<s, f>> : f \in DOMAIN toml[s] \cap DOMAIN Defaults[s]} :
              s \in DOMAIN toml \cap DOMAIN Defaults}

\* from_toml: keys that are missing have their defaults, in whatever section.
\* One bad value makes the whole file unreadable.
FromToml(toml) ==
    IF \E k \in Given(toml) : FromValue(k[2], toml[k[1]][k[2]]) = {} THEN {}
    ELSE {[s \in DOMAIN Defaults |-> [f \in DOMAIN Defaults[s] |->
            IF <<s, f>> \in Given(toml)
            THEN CHOOSE n \in FromValue(f, toml[s][f]) : TRUE
            ELSE Defaults[s][f]]]}

\* Mutant of ToValue: numbers go out as signed integers.
ToValueSigned(f, n) ==
    CASE f \in Switches -> [flag |-> n]
      [] f \in Floats   -> [float |-> n]
      [] OTHER          -> [int |-> AsI64(n)]

\* A key's value in the file: sizes and durations are plain integers there.
ToValue(f, n) ==
    CASE f \in Switches -> [flag |-> n]
      [] f \in Floats   -> [float |-> n]
      [] OTHER          -> [int |-> n]

\* to_toml writes every key.  Whether the library writes numbers beyond an
\* i64, which TOML's integers are, is left open by the one who saves.
ToToml(config) ==
    [s \in DOMAIN config |-> [f \in DOMAIN config[s] |-> ToValue(f, config[s][f])]]

=============================================================================
