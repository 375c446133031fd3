----------------------------- MODULE TextChunks -----------------------------
(***************************************************************************)
(* What process_one makes of a file's bytes: Extraction says whether they  *)
(* are read as text, TextBlocks cuts them into paragraphs and words, and   *)
(* Chunker packs those into chunks.                                        *)
(***************************************************************************)
EXTENDS Chunker, TextBlocks, Extraction

CONSTANTS
    Files,            \* the files: bytes, and what is known of their type
    TargetTokens,     \* values of chunking.target_tokens
    OverlapTokens     \* values of chunking.overlap_tokens

ASSUME FilesAssumption ==
    /\ Files \subseteq [bytes : Seq(Bytes), magic : Signatures \cup {"none"},
                       guess : Extensions \cup {"none"}, known : BOOLEAN]
    /\ TargetTokens \subseteq Nat /\ OverlapTokens \subseteq Nat

VARIABLE file

textVars == <<vars, file>>

Text == DecodeToUtf8(file.bytes)

\* A file that fails to extract never comes to the chunker.
Paragraphs == IF Extracts(file) THEN ParagraphBlocks(Text) ELSE <<>>

TextInit ==
    /\ file \in Files
    /\ blocks = [n \in DOMAIN Paragraphs |->
                    [start |-> Paragraphs[n].start,
                     words |-> WordSpans(Paragraphs[n].text)]]
    /\ \E t \in TargetTokens, o \in OverlapTokens : Configured(t, o)
    /\ Start

TextNext == Next /\ UNCHANGED file

TextSpec == TextInit /\ [][TextNext]_textVars

\* The text of a chunk: what lies in the block between its first word and
\* the end of its last.
ChunkText(c) ==
    Slice(Paragraphs[c.block].text, Words(c.block)[c.first].from,
          Words(c.block)[c.last].upto)

-----------------------------------------------------------------------------
\* The text is the bytes of the file as they are.
Verbatim == ~IsPrefix(Bom, file.bytes)

\* byte_start and byte_end of a chunk are source byte offsets: the file has the
\* chunk's text there.  The two offsets, of the part in the text and of the
\* word in the block, add up.  (With a BOM they lie in the decoded text, three
\* bytes before the place in the source.)
OffsetsLocateText ==
    Verbatim =>
        \A c \in DOMAIN chunks :
            Slice(file.bytes, chunks[c].byteStart, chunks[c].byteEnd) = ChunkText(chunks[c])

\* Text by its own signs: no signature of another format, and a name that
\* says text or, if it says nothing, bytes that do.
IsTextFile ==
    /\ file.magic = "none"
    /\ \/ file.guess \in {"plain", "code", "json", "csv", "sql"}
       \/ file.guess = "none" /\ (file.known \/ IsText(file.bytes))

\* Every byte of a text file that is not white space is in some chunk.
EveryByteChunked ==
    pc = "done" /\ IsTextFile =>
        \A p \in Ink(Text) : \E c \in DOMAIN chunks :
            chunks[c].byteStart <= p /\ p < chunks[c].byteEnd

=============================================================================
