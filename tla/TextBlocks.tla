----------------------------- MODULE TextBlocks -----------------------------
(***************************************************************************)
(* How the text family of extractors cuts a file: decode, split into       *)
(* paragraphs at blank lines, find the words of each.                      *)
(*                                                                         *)
(* Bytes are symbols: "n" is a newline, "s" a byte of any other white      *)
(* space, "0" a NUL, "f" a byte of the UTF-8 byte-order mark, "x" a byte   *)
(* of anything else.  All bytes of one character are of one kind, so the   *)
(* cuts fall between characters as they do in the code.  Files are UTF-8   *)
(* in normal form C; of the decoding that leaves the byte-order mark.      *)
(***************************************************************************)
EXTENDS Integers, Sequences, SequencesExt

Bytes == {"n", "s", "0", "f", "x"}

Bom == <<"f", "f", "f">>

\* decode_to_utf8 and nfc_normalize.
DecodeToUtf8(file) == IF IsPrefix(Bom, file) THEN SubSeq(file, 4, Len(file)) ELSE file

IsWhite(byte) == byte \in {"n", "s"}

\* text[from..upto], counted from 0.
Slice(text, from, upto) == SubSeq(text, from + 1, upto)

Least(S) == CHOOSE p \in S : \A q \in S : p <= q
Greatest(S) == CHOOSE p \in S : \A q \in S : q <= p

\* text.split("\n\n"): delimiters are found from the left and do not share a
\* newline.  parts[s] is what the text from s on splits into.
Parts(text) ==
    LET n == Len(text)
        parts[s \in 0 .. n] ==
            LET delimiters ==
                    {d \in s .. n - 2 : text[d + 1] = "n" /\ text[d + 2] = "n"}
            IN  IF delimiters = {}
                   THEN <<Slice(text, s, n)>>
                   ELSE <<Slice(text, s, Least(delimiters))>>
                            \o parts[Least(delimiters) + 2]
    IN  parts[0]

\* Where the bytes are that are not white space.
Ink(text) == {p \in 0 .. Len(text) - 1 : ~IsWhite(text[p + 1])}

\* word_spans: a word ends where ink does, and began with its run of ink.  The
\* injected token counter finds a token per byte in it.
WordSpans(text) ==
    LET ink == Ink(text)
        start(q) == Least({p \in 0 .. q - 1 : p .. q - 1 \subseteq ink})
        word(q) == [from |-> start(q), upto |-> q, tokens |-> q - start(q)]
        spans[q \in 0 .. Len(text)] ==
            IF q = 0 THEN <<>>
            ELSE IF q - 1 \in ink /\ q \notin ink THEN Append(spans[q - 1], word(q))
            ELSE spans[q - 1]
    IN  spans[Len(text)]

\* Mutant of AddPart: the offset forgets the delimiter that split dropped.
AddPartOnly(cut, part) ==
    LET ink == Ink(part)
        content == Slice(part, Least(ink), Greatest(ink) + 1)
    IN  [offset |-> cut.offset + Len(part),
         blocks |-> IF ink = {}
                       THEN cut.blocks
                       ELSE Append(cut.blocks, [start |-> cut.offset + Least(ink),
                                                text |-> content])]

\* One turn of the loop of paragraph_blocks: a part is trimmed, kept unless
\* nothing is left of it, and counted with the delimiter behind it.
AddPart(cut, part) ==
    LET ink == Ink(part)
        content == Slice(part, Least(ink), Greatest(ink) + 1)
    IN  [offset |-> cut.offset + Len(part) + 2,
         blocks |-> IF ink = {}
                       THEN cut.blocks
                       ELSE Append(cut.blocks, [start |-> cut.offset + Least(ink),
                                                text |-> content])]

ParagraphBlocks(text) ==
    LET parts == Parts(text)
        cut[m \in 0 .. Len(parts)] ==
            IF m = 0 THEN [offset |-> 0, blocks |-> <<>>] ELSE AddPart(cut[m - 1], parts[m])
    IN  cut[Len(parts)].blocks

=============================================================================
