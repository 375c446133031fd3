---------------------------- MODULE MCTextChunks ----------------------------
EXTENDS TextChunks
CONSTANTS
    MaxLength,   \* bound: bytes of a text file of any bytes
    MaxTyped,    \* bound: bytes of a file of any type
    MaxWords,    \* bound: words of a file that is one line
    WordSizes    \* bound: the bytes, and tokens, of each of them
Typed(bytes, magic, guess, known) ==
    [bytes |-> bytes, magic |-> magic, guess |-> guess, known |-> known]
Plain(bytes) == Typed(bytes, "none", "plain", FALSE)
WordOf(size) == [p \in 1 .. size |-> "x"]
LineOf(sizes) == FoldLeft(LAMBDA line, size : line \o WordOf(size) \o <<"s">>, <<>>, sizes)
\* A signature shows in the bytes, here as one that is neither space nor NUL;
\* the names of the table have no extension, or ".txt".
IsFile(f) ==
    /\ f.magic # "none" => f.bytes # <<>> /\ f.bytes[1] = "x"
    /\ f.known => f.guess \in {"none", "plain"}
MCFiles ==
    LET texts == BoundedSeq({"n", "s", "x"}, MaxLength)
        lines == {LineOf(sizes) : sizes \in BoundedSeq(WordSizes, MaxWords)}
        typed == {Typed(bytes, magic, guess, known) :
                      bytes \in BoundedSeq({"n", "x", "0"}, MaxTyped),
                      magic \in Signatures \cup {"none"},
                      guess \in Extensions \cup {"none"},
                      known \in BOOLEAN}
    IN  {Plain(t) : t \in texts \cup {Bom \o t : t \in texts} \cup lines}
            \cup {f \in typed : IsFile(f)}
=============================================================================
