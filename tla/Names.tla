------------------------------- MODULE Names -------------------------------
(***************************************************************************)
(* NdexPath: names of files are bytes, not text.                           *)
(*                                                                         *)
(* A path is a sequence of units: a byte that is not UTF-8 ("raw"), or a   *)
(* character.  The characters told apart are those the renderings treat    *)
(* differently, those a rendering may be mistaken for ("u", "00ff"), and   *)
(* "latin", the character whose number is the byte of "raw".  A name with  *)
(* no raw byte is text.                                                    *)
(***************************************************************************)
EXTENDS Sequences, SequencesExt

Characters == {"quote", "backslash", "newline", "control", "latin", "u", "00ff", "n"}
Units == Characters \cup {"raw"}

\* String::from_utf8_lossy.
DisplayLossy(path) ==
    [k \in DOMAIN path |-> IF path[k] = "raw" THEN "replacement" ELSE path[k]]

\* Mutant of Escaped: backslashes go out as they are.
EscapedButBackslash(unit) ==
    CASE unit = "quote"   -> <<"backslash", "quote">>
      [] unit = "newline" -> <<"backslash", "n">>
      [] unit = "control" -> <<"backslash", "u", "001f">>
      [] unit = "raw"     -> <<"backslash", "u", "00ff">>
      [] OTHER            -> <<unit>>

Escaped(unit) ==
    CASE unit \in {"quote", "backslash"} -> <<"backslash", unit>>
      [] unit = "newline"                -> <<"backslash", "n">>
      [] unit = "control"                -> <<"backslash", "u", "001f">>
      [] unit = "raw"                    -> <<"backslash", "u", "00ff">>
      [] OTHER                           -> <<unit>>

\* to_json_escaped.
ToJsonEscaped(path) == FlattenSeq([k \in DOMAIN path |-> Escaped(path[k])])

-----------------------------------------------------------------------------
(***************************************************************************)
(* How a program that reads JSON (RFC 8259) takes what stands between the  *)
(* quotes of a string.                                                     *)
(***************************************************************************)
\* What must be escaped, and how; all else may stand as it is.
Spelling(char) ==
    CASE char \in {"quote", "backslash"} -> <<"backslash", char>>
      [] char = "newline"                -> <<"backslash", "n">>
      [] char = "control"                -> <<"backslash", "u", "001f">>
      [] OTHER                           -> <<char>>

\* text is read as value, of which some characters may be given by number.
ReadAs(text, value) ==
    \E numbered \in SUBSET {k \in DOMAIN value : value[k] = "latin"} :
        text = FlattenSeq([k \in DOMAIN value |->
                   IF k \in numbered THEN <<"backslash", "u", "00ff">>
                                     ELSE Spelling(value[k])])

=============================================================================
