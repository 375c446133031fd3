------------------------------ MODULE Chunker ------------------------------
(***************************************************************************)
(* Chunker::chunk: each block's words are packed into windows of at most   *)
(* target tokens, and each window begins some overlap tokens before the    *)
(* end of the one before it.  One step per turn of a loop.                 *)
(*                                                                         *)
(* A block comes with its words: where each begins and ends in the block's *)
(* text, and how many tokens the injected TokenCounter finds in it.  The   *)
(* window under construction holds the words i .. j - 1.                   *)
(***************************************************************************)
EXTENDS Naturals, Sequences

VARIABLES
    \* the input
    blocks,       \* the blocks of one file, in order
    target,       \* the window size in force
    overlap,      \* the overlap in force
    \* the locals of chunk
    b,            \* the block at work
    i, j,         \* the window's first word, and the word after its last
    count,        \* the window's tokens
    k, back,      \* where the next window may begin, and the tokens between
    pc,           \* which loop runs
    \* the result
    chunks

inputVars == <<blocks, target, overlap>>
windowVars == <<b, i, j, count>>
backVars == <<k, back>>
vars == <<inputVars, windowVars, backVars, pc, chunks>>

Larger(m, n) == IF m >= n THEN m ELSE n
Smaller(m, n) == IF m <= n THEN m ELSE n

Word == [from : Nat, upto : Nat, tokens : Nat]
Block == [start : Nat, words : Seq(Word)]

Chunk == [ord : Nat, block : Nat, first : Nat, last : Nat,
          byteStart : Nat, byteEnd : Nat]

TypeOK ==
    /\ blocks \in Seq(Block)
    /\ target \in Nat \ {0} /\ overlap \in 0 .. target - 1
    /\ b \in Nat /\ i \in Nat /\ j \in Nat /\ count \in Nat
    /\ k \in Nat /\ back \in Nat
    /\ pc \in {"block", "grow", "back", "done"}
    /\ chunks \in Seq(Chunk)

\* The configuration as chunk reads it: no window of nothing, and an overlap
\* that leaves room for progress.
Configured(targetTokens, overlapTokens) ==
    /\ target = Larger(targetTokens, 1)
    /\ overlap = Smaller(overlapTokens, target - 1)

Start ==
    /\ b = 1 /\ i = 1 /\ j = 1 /\ count = 0
    /\ k = 1 /\ back = 0
    /\ pc = "block"
    /\ chunks = <<>>

Init ==
    /\ blocks \in Seq(Block)
    /\ \E t, o \in Nat : Configured(t, o)
    /\ Start

Words(n) == blocks[n].words

\* A word counts for one token at least.
Tokens(n, w) == Larger(Words(n)[w].tokens, 1)

-----------------------------------------------------------------------------
\* The next block that has words, or the end.
EnterBlock ==
    /\ pc = "block"
    /\ b <= Len(blocks)
    /\ IF Words(b) = <<>>
          THEN b' = b + 1 /\ UNCHANGED <<i, j, count, pc>>
          ELSE i' = 1 /\ j' = 1 /\ count' = 0 /\ pc' = "grow" /\ UNCHANGED b
    /\ UNCHANGED <<inputVars, backVars, chunks>>

Finish ==
    /\ pc = "block"
    /\ b > Len(blocks)
    /\ pc' = "done"
    /\ UNCHANGED <<inputVars, windowVars, backVars, chunks>>

\* Mutant of Fits: the next word's tokens are not counted in.
FitsLate == j <= Len(Words(b)) /\ (j = i \/ count < target)

\* A first word is taken whatever its size.
Fits == j <= Len(Words(b)) /\ (j = i \/ count + Tokens(b, j) <= target)

Grow ==
    /\ pc = "grow"
    /\ Fits
    /\ count' = count + Tokens(b, j)
    /\ j' = j + 1
    /\ UNCHANGED <<inputVars, b, i, backVars, pc, chunks>>

\* Mutant of Window: the range ends where the last word begins.
WindowCut ==
    [ord |-> Len(chunks), block |-> b, first |-> i, last |-> j - 1,
     byteStart |-> blocks[b].start + Words(b)[i].from,
     byteEnd |-> blocks[b].start + Words(b)[j - 1].from]

\* Mutant of Window: every block is numbered from 0.
WindowInBlock ==
    [ord |-> i - 1, block |-> b, first |-> i, last |-> j - 1,
     byteStart |-> blocks[b].start + Words(b)[i].from,
     byteEnd |-> blocks[b].start + Words(b)[j - 1].upto]

Window ==
    [ord |-> Len(chunks), block |-> b, first |-> i, last |-> j - 1,
     byteStart |-> blocks[b].start + Words(b)[i].from,
     byteEnd |-> blocks[b].start + Words(b)[j - 1].upto]

\* Mutant of Emit: the loop ends one word early.
EmitTooSoon ==
    /\ pc = "grow"
    /\ ~Fits
    /\ chunks' = Append(chunks, Window)
    /\ IF j >= Len(Words(b))
          THEN b' = b + 1 /\ pc' = "block" /\ UNCHANGED backVars
          ELSE k' = j /\ back' = 0 /\ pc' = "back" /\ UNCHANGED b
    /\ UNCHANGED <<inputVars, i, j, count>>

Emit ==
    /\ pc = "grow"
    /\ ~Fits
    /\ chunks' = Append(chunks, Window)
    /\ IF j > Len(Words(b))
          THEN b' = b + 1 /\ pc' = "block" /\ UNCHANGED backVars
          ELSE k' = j /\ back' = 0 /\ pc' = "back" /\ UNCHANGED b
    /\ UNCHANGED <<inputVars, i, j, count>>

CanStepBack == k > i + 1 /\ back < overlap

StepBack ==
    /\ pc = "back"
    /\ CanStepBack
    /\ k' = k - 1
    /\ back' = back + Tokens(b, k - 1)
    /\ UNCHANGED <<inputVars, windowVars, pc, chunks>>

\* Mutant of Advance: the overlap is left out.
AdvancePast ==
    /\ pc = "back"
    /\ ~CanStepBack
    /\ i' = j /\ j' = i' /\ count' = 0
    /\ pc' = "grow"
    /\ UNCHANGED <<inputVars, b, backVars, chunks>>

\* Mutant of Advance: the tokens of the last window stay counted.
AdvanceCounted ==
    /\ pc = "back"
    /\ ~CanStepBack
    /\ i' = Larger(k, i + 1) /\ j' = i'
    /\ pc' = "grow"
    /\ UNCHANGED <<inputVars, b, count, backVars, chunks>>

Advance ==
    /\ pc = "back"
    /\ ~CanStepBack
    /\ i' = Larger(k, i + 1) /\ j' = i' /\ count' = 0
    /\ pc' = "grow"
    /\ UNCHANGED <<inputVars, b, backVars, chunks>>

Next == EnterBlock \/ Finish \/ Grow \/ Emit \/ StepBack \/ Advance

Spec == Init /\ [][Next]_vars

-----------------------------------------------------------------------------
(***************************************************************************)
(* What holds.                                                             *)
(***************************************************************************)

Holds(c, n, w) == c.block = n /\ c.first <= w /\ w <= c.last

InSomeChunk(n, w) == \E c \in DOMAIN chunks : Holds(chunks[c], n, w)

InOneChunk(n, w) ==
    \E c \in DOMAIN chunks : Holds(chunks[c], n, w) /\ Holds(chunks[c], n, w + 1)

\* Nothing of a file is lost between windows: in the end every word of every
\* block is in some chunk.
EveryWordChunked ==
    pc = "done" =>
        \A n \in DOMAIN blocks : \A w \in DOMAIN Words(n) : InSomeChunk(n, w)

\* What the overlap is for: with one, two neighbouring words that fit a window
\* are together in some chunk, wherever the windows happen to end.
NeighboursTogether ==
    pc = "done" /\ overlap > 0 =>
        \A n \in DOMAIN blocks : \A w \in 1 .. Len(Words(n)) - 1 :
            Tokens(n, w) + Tokens(n, w + 1) <= target => InOneChunk(n, w)

\* Every window begins after the one before it and ends no earlier, whatever
\* the sizes of the words it steps back over.
WindowsMoveOn ==
    \A c, d \in DOMAIN chunks :
        c < d /\ chunks[c].block = chunks[d].block
            => /\ chunks[c].first < chunks[d].first
               /\ chunks[c].last <= chunks[d].last

\* Running(n)[w]: the tokens of the first w words of block n.
Running(n) ==
    LET total[w \in 0 .. Len(Words(n))] ==
            IF w = 0 THEN 0 ELSE total[w - 1] + Tokens(n, w)
    IN  total

\* A chunk has no more tokens than the target, unless it is one word.
ChunksFitTarget ==
    \A c \in DOMAIN chunks :
        LET total == Running(chunks[c].block)
        IN  \/ total[chunks[c].last] - total[chunks[c].first - 1] <= target
            \/ chunks[c].first = chunks[c].last

\* The chunks of a file are numbered without a gap, in the order of its text.
ChunksInOrder ==
    \A c \in DOMAIN chunks :
        /\ chunks[c].ord = c - 1
        /\ c > 1 => chunks[c - 1].block <= chunks[c].block

=============================================================================
