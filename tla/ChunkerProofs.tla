--------------------------- MODULE ChunkerProofs ---------------------------
(***************************************************************************)
(* Proofs about Chunker, for any blocks, token counts and configuration,   *)
(* and about TextChunks, for any files.                                    *)
(*                                                                         *)
(* The argument: the words before the window are in chunks already, and a  *)
(* window begins no later than the one before it ended; with an overlap it *)
(* begins earlier, but for a window of one word, which then was too big to *)
(* take its neighbour in.                                                  *)
(*                                                                         *)
(* Of a text: its parts lie one behind the other with the delimiter that   *)
(* split dropped between them, a block lies in its part where the part's   *)
(* ink begins, a word in its block; so offsets add up, and no ink is lost. *)
(***************************************************************************)
EXTENDS TextChunks, SequenceTheorems, WellFoundedInduction, TLAPS

\* Where the locals are in each loop.
InBounds ==
    /\ b \in Nat \ {0}
    /\ pc \in {"grow", "back"} =>
          /\ b \in DOMAIN blocks
          /\ i \in DOMAIN Words(b)
          /\ i <= j /\ j <= Len(Words(b)) + 1
    /\ pc = "grow" => (j = i => count = 0) /\ (j = i + 1 => count = Tokens(b, i))
    /\ pc = "back" => i < j /\ j <= Len(Words(b)) /\ i + 1 <= k /\ k <= j
    /\ pc = "done" => b > Len(blocks)

\* The chunks so far are numbered, and of blocks up to the one at work.
Numbered ==
    /\ \A c \in DOMAIN chunks : chunks[c].block <= b
    /\ ChunksInOrder

\* The words behind the window are chunked.
Chunked ==
    /\ \A n \in DOMAIN blocks : n < b => \A w \in DOMAIN Words(n) : InSomeChunk(n, w)
    /\ pc = "grow" => \A w \in DOMAIN Words(b) : w < i => InSomeChunk(b, w)
    /\ pc = "back" => \A w \in DOMAIN Words(b) : w < j => InSomeChunk(b, w)

\* Words w and w + 1 of block n are together if they can be.
Together(n, w) == Tokens(n, w) + Tokens(n, w + 1) <= target => InOneChunk(n, w)

NeighboursSoFar ==
    overlap > 0 =>
        /\ \A n \in DOMAIN blocks :
              n < b => \A w \in 1 .. Len(Words(n)) - 1 : Together(n, w)
        /\ pc = "grow" => \A w \in 1 .. Len(Words(b)) - 1 : w < i => Together(b, w)
        /\ pc = "back" =>
              /\ \A w \in 1 .. Len(Words(b)) - 1 : w < j - 1 => Together(b, w)
              /\ j = i + 1 => Together(b, i)
              /\ k = j => back = 0

\* The tokens of the words from .. upto of block n.
Size(n, from, upto) == Running(n)[upto] - Running(n)[from - 1]

\* The window's tokens are counted, and no more than fit.
Sized ==
    /\ pc = "grow" => count = Size(b, i, j - 1)
    /\ pc \in {"grow", "back"} => Size(b, i, j - 1) <= target \/ j = i + 1
    /\ ChunksFitTarget

\* No chunk of the block ends behind what the window holds, or can take in.
Moving ==
    /\ pc = "block" => \A c \in DOMAIN chunks : chunks[c].block < b
    /\ pc \in {"grow", "back"} =>
          \A c \in DOMAIN chunks : chunks[c].block = b =>
              /\ chunks[c].first <= i /\ (pc = "grow" => chunks[c].first # i)
              /\ chunks[c].last <= Len(Words(b))
              /\ \/ chunks[c].last <= j - 1
                 \/ pc = "grow" /\ Size(b, i, chunks[c].last) <= target
    /\ WindowsMoveOn

ChunkInv ==
    /\ TypeOK /\ InBounds /\ Numbered /\ Chunked /\ NeighboursSoFar
    /\ Sized /\ Moving

-----------------------------------------------------------------------------
\* The words of a block, and their tokens, are what the type says.
LEMMA WordsType ==
    ASSUME blocks \in Seq(Block), NEW n \in DOMAIN blocks
    PROVE  /\ blocks[n].start \in Nat
           /\ Words(n) \in Seq(Word)
           /\ \A w \in DOMAIN Words(n) :
                 /\ Words(n)[w].from \in Nat /\ Words(n)[w].upto \in Nat
                 /\ Tokens(n, w) \in Nat \ {0}
<1>1. blocks[n] \in Block
  OBVIOUS
<1>2. blocks[n].start \in Nat /\ Words(n) \in Seq(Word)
  BY <1>1 DEF Block, Words
<1>3. ASSUME NEW w \in DOMAIN Words(n)
      PROVE  /\ Words(n)[w].from \in Nat /\ Words(n)[w].upto \in Nat
             /\ Tokens(n, w) \in Nat \ {0}
  <2>1. Words(n)[w] \in Word
    BY <1>2
  <2>2. QED
    BY <2>1 DEF Word, Tokens, Larger
<1>4. QED
  BY <1>2, <1>3

\* A window that closes is not empty.
LEMMA WindowNotEmpty ==
    ASSUME TypeOK, InBounds, pc = "grow", ~Fits
    PROVE  i < j /\ j - 1 \in DOMAIN Words(b)
<1>1. b \in DOMAIN blocks /\ Words(b) \in Seq(Word)
  BY WordsType DEF TypeOK, InBounds
<1>2. QED
  BY <1>1 DEF TypeOK, InBounds, Fits

\* What a closing window adds.
LEMMA EmitType ==
    ASSUME TypeOK, InBounds, Emit
    PROVE  /\ Window \in Chunk
           /\ chunks' \in Seq(Chunk)
           /\ Len(chunks') = Len(chunks) + 1
           /\ chunks'[Len(chunks) + 1] = Window
           /\ \A c \in DOMAIN chunks : chunks'[c] = chunks[c]
           /\ DOMAIN chunks' = DOMAIN chunks \cup {Len(chunks) + 1}
<1>1. b \in DOMAIN blocks /\ i \in DOMAIN Words(b) /\ j - 1 \in DOMAIN Words(b)
  BY WindowNotEmpty DEF Emit, InBounds
<1>2. blocks[b].start \in Nat /\ Words(b)[i].from \in Nat /\ Words(b)[j - 1].upto \in Nat
  BY <1>1, WordsType DEF TypeOK
<1>3. Words(b) \in Seq(Word)
  BY <1>1, WordsType DEF TypeOK
<1>4. i \in Nat /\ j - 1 \in Nat
  BY <1>1, <1>3
<1>5. blocks[b].start + Words(b)[i].from \in Nat
      /\ blocks[b].start + Words(b)[j - 1].upto \in Nat
  BY <1>2
<1>6. Window \in Chunk
  BY <1>4, <1>5 DEF Window, Chunk, TypeOK
<1>7. chunks \in Seq(Chunk) /\ chunks' = Append(chunks, Window)
  BY DEF TypeOK, Emit
<1>8. QED
  BY <1>6, <1>7

-----------------------------------------------------------------------------
\* A set of numbers has a least one.
LEMMA LeastNumber ==
    ASSUME NEW T, T \subseteq Nat, T # {}
    PROVE  \E m \in T : \A n \in T : m <= n
<1> DEFINE R == OpToRel(<, Nat)
<1>1. IsWellFoundedOn(R, Nat)
  BY NatLessThanWellFounded
<1>2. \A x, y \in Nat : x < y => <<x, y>> \in R
  BY DEF OpToRel
<1> HIDE DEF R
<1>3. PICK m \in T : \A n \in T : ~ (<<n, m>> \in R)
  BY <1>1, WFMin
<1>4. ASSUME NEW n \in T PROVE m <= n
  <2>1. m \in Nat /\ n \in Nat /\ ~ (n < m)
    BY <1>2, <1>3
  <2>2. QED
    BY <2>1
<1>5. QED
  BY <1>4

\* Induction, over the numbers for which something holds.
LEMMA Induction ==
    ASSUME NEW S, 0 \in S, \A n \in Nat : n \in S => n + 1 \in S
    PROVE  \A n \in Nat : n \in S
<1> DEFINE T == {n \in Nat : n \notin S}
<1>1. SUFFICES ASSUME T # {} PROVE FALSE
  OBVIOUS
<1>2. PICK m \in T : \A n \in T : m <= n
  BY <1>1, LeastNumber
<1>3. m - 1 \in Nat /\ m - 1 \in S
  BY <1>2
<1>4. QED
  BY <1>2, <1>3

\* Induction from all smaller numbers.
LEMMA StrongInduction ==
    ASSUME NEW S, \A n \in Nat : (\A u \in Nat : u < n => u \in S) => n \in S
    PROVE  \A n \in Nat : n \in S
<1> DEFINE T == {n \in Nat : n \notin S}
<1>1. SUFFICES ASSUME T # {} PROVE FALSE
  OBVIOUS
<1>2. PICK m \in T : \A n \in T : m <= n
  BY <1>1, LeastNumber
<1>3. \A u \in Nat : u < m => u \in S
  BY <1>2
<1>4. QED
  BY <1>2, <1>3

\* Sums over the beginnings of a list.
LEMMA SumsExist ==
    ASSUME NEW N \in Nat, NEW t, \A w \in 1 .. N : t[w] \in Nat
    PROVE  \E f \in [0 .. N -> Nat] :
               f = [w \in 0 .. N |-> IF w = 0 THEN 0 ELSE f[w - 1] + t[w]]
<1> DEFINE Sums(n, f) ==
               /\ f \in [0 .. n -> Nat] /\ f[0] = 0
               /\ \A w \in 1 .. n : f[w] = f[w - 1] + t[w]
           S == {n \in Nat : n <= N => \E f : Sums(n, f)}
<1>1. 0 \in S
  <2>1. Sums(0, [w \in 0 .. 0 |-> 0])
    OBVIOUS
  <2>2. QED
    BY <2>1
<1>2. ASSUME NEW n \in Nat, n \in S PROVE n + 1 \in S
  <2>1. SUFFICES ASSUME n + 1 <= N PROVE \E f : Sums(n + 1, f)
    OBVIOUS
  <2>2. PICK f : Sums(n, f)
    BY <1>2, <2>1
  <2> DEFINE g == [w \in 0 .. n + 1 |-> IF w = n + 1 THEN f[n] + t[n + 1] ELSE f[w]]
  <2>3. t[n + 1] \in Nat /\ f[n] \in Nat
    BY <2>1, <2>2
  <2>4. g \in [0 .. n + 1 -> Nat] /\ g[0] = 0
    BY <2>2, <2>3
  <2>5. ASSUME NEW w \in 1 .. n + 1 PROVE g[w] = g[w - 1] + t[w]
    BY <2>2
  <2>6. QED
    BY <2>4, <2>5
<1> HIDE DEF S
<1>3. N \in S
  BY <1>1, <1>2, Induction
<1>4. PICK f : Sums(N, f)
  <2>1. N <= N => \E f : Sums(N, f)
    BY <1>3 DEF S
  <2> HIDE DEF Sums
  <2>2. QED
    BY <2>1
<1>5. f = [w \in 0 .. N |-> IF w = 0 THEN 0 ELSE f[w - 1] + t[w]]
  BY <1>4
<1>6. QED
  BY <1>4, <1>5

\* Running is the recursive function it is written as.
LEMMA RunningSums ==
    ASSUME blocks \in Seq(Block), NEW n \in DOMAIN blocks
    PROVE  /\ Len(Words(n)) \in Nat
           /\ Running(n)[0] = 0
           /\ \A w \in 0 .. Len(Words(n)) : Running(n)[w] \in Nat
           /\ \A w \in DOMAIN Words(n) : Running(n)[w] = Running(n)[w - 1] + Tokens(n, w)
<1> DEFINE N == Len(Words(n))
           t == [w \in 1 .. N |-> Tokens(n, w)]
           F(f) == [w \in 0 .. N |-> IF w = 0 THEN 0 ELSE f[w - 1] + Tokens(n, w)]
           total == Running(n)
<1>1. N \in Nat /\ DOMAIN Words(n) = 1 .. N /\ \A w \in 1 .. N : Tokens(n, w) \in Nat
  BY WordsType
<1>2. PICK f \in [0 .. N -> Nat] : f = [w \in 0 .. N |-> IF w = 0 THEN 0 ELSE f[w - 1] + t[w]]
  <2> HIDE DEF N
  <2>1. \A w \in 1 .. N : t[w] \in Nat
    BY <1>1
  <2> HIDE DEF t
  <2>2. QED
    BY <1>1, <2>1, SumsExist
<1>3. f = F(f)
  <2>1. \A w \in 0 .. N : w # 0 => t[w] = Tokens(n, w)
    BY <1>1
  <2> HIDE DEF t, N
  <2>2. QED
    BY <1>2, <2>1
<1>4. total = F(total)
  BY <1>3 DEF Running
<1> HIDE DEF total, t
<1>5. total[0] = 0 /\ \A w \in 1 .. N : total[w] = total[w - 1] + Tokens(n, w)
  <2> HIDE DEF N
  <2>1. QED
    BY <1>1, <1>4, SMTT(30)
<1> DEFINE S == {w \in Nat : w <= N => total[w] \in Nat}
<1>6. \A w \in Nat : w \in S
  <2> HIDE DEF N
  <2>1. 0 \in S
    BY <1>5
  <2>2. ASSUME NEW w \in Nat, w \in S PROVE w + 1 \in S
    <3>1. SUFFICES ASSUME w + 1 <= N PROVE total[w + 1] \in Nat
      OBVIOUS
    <3>2. w <= N /\ w + 1 \in 1 .. N /\ (w + 1) - 1 = w
      BY <1>1, <3>1
    <3>3. total[w + 1] = total[w] + Tokens(n, w + 1) /\ Tokens(n, w + 1) \in Nat
      BY <1>1, <1>5, <3>2
    <3>4. total[w] \in Nat
      BY <2>2, <3>2
    <3>5. QED
      BY <3>3, <3>4
  <2> HIDE DEF S
  <2>3. QED
    BY <2>1, <2>2, Induction
<1>7. QED
  BY <1>1, <1>5, <1>6 DEF total

\* A longer beginning has no fewer tokens.
LEMMA RunningGrows ==
    ASSUME blocks \in Seq(Block), NEW n \in DOMAIN blocks,
           NEW v \in 0 .. Len(Words(n)), NEW w \in v .. Len(Words(n))
    PROVE  Running(n)[v] <= Running(n)[w]
<1> DEFINE total == Running(n)
           N == Len(Words(n))
           S == {u \in Nat : v <= u /\ u <= N => total[v] <= total[u]}
<1>1. /\ N \in Nat /\ \A u \in 0 .. N : total[u] \in Nat
      /\ \A u \in 1 .. N : total[u] = total[u - 1] + Tokens(n, u) /\ Tokens(n, u) \in Nat
  <2>1. /\ Words(n) \in Seq(Word)
        /\ \A u \in DOMAIN Words(n) : Tokens(n, u) \in Nat
    BY WordsType
  <2>2. DOMAIN Words(n) = 1 .. N
    BY <2>1
  <2>3. /\ N \in Nat /\ \A u \in 0 .. N : total[u] \in Nat
        /\ \A u \in DOMAIN Words(n) : total[u] = total[u - 1] + Tokens(n, u)
    BY RunningSums
  <2>4. QED
    BY <2>1, <2>2, <2>3
<1> HIDE DEF total, N
<1>2. v \in 0 .. N /\ w \in v .. N
  BY DEF N
<1>3. 0 \in S
  BY <1>1, <1>2
<1>4. ASSUME NEW u \in Nat, u \in S PROVE u + 1 \in S
  <2>1. SUFFICES ASSUME v <= u + 1, u + 1 <= N PROVE total[v] <= total[u + 1]
    OBVIOUS
  <2>2. CASE v = u + 1
    BY <1>1, <1>2, <2>2
  <2>3. CASE v <= u
    <3>1. total[v] <= total[u]
      BY <1>1, <1>4, <2>1, <2>3
    <3>2. u + 1 \in 1 .. N /\ (u + 1) - 1 = u
      BY <1>1, <2>1
    <3>3. total[u + 1] = total[u] + Tokens(n, u + 1) /\ Tokens(n, u + 1) \in Nat
      BY <1>1, <3>2
    <3>4. u \in 0 .. N
      BY <1>1, <2>1
    <3>5. total[v] \in Nat /\ total[u] \in Nat
      BY <1>1, <1>2, <3>4
    <3>6. QED
      BY <3>1, <3>3, <3>5
  <2>4. QED
    BY <1>2, <2>1, <2>2, <2>3
<1> HIDE DEF S
<1>5. w \in S
  <2>1. \A u \in Nat : u \in S
    BY <1>3, <1>4, Induction
  <2>2. w \in Nat
    BY <1>1, <1>2
  <2>3. QED
    BY <2>1, <2>2
<1>6. QED
  BY <1>1, <1>2, <1>5 DEF S, total

-----------------------------------------------------------------------------
THEOREM TypeInit == Init => TypeOK
<1>1. SUFFICES ASSUME Init PROVE TypeOK
  OBVIOUS
<1>2. PICK t \in Nat, o \in Nat : Configured(t, o)
  BY <1>1 DEF Init
<1>3. target \in Nat \ {0} /\ overlap \in 0 .. target - 1
  BY <1>2 DEF Configured, Larger, Smaller
<1>4. QED
  BY <1>1, <1>3 DEF Init, Start, TypeOK

\* Only the chunks and the locals change.
LEMMA InputStays ==
    ASSUME [Next]_vars
    PROVE  /\ blocks' = blocks /\ target' = target /\ overlap' = overlap
           /\ \A n : Words(n)' = Words(n)
           /\ \A n, w : Tokens(n, w)' = Tokens(n, w)
<1>1. UNCHANGED inputVars
  BY DEF Next, EnterBlock, Finish, Grow, Emit, StepBack, Advance, vars
<1>2. QED
  BY <1>1 DEF inputVars, Words, Tokens

\* A chunk stays.
LEMMA ChunksStay ==
    ASSUME TypeOK, InBounds, [Next]_vars
    PROVE  DOMAIN chunks \subseteq DOMAIN chunks'
           /\ \A c \in DOMAIN chunks : chunks'[c] = chunks[c]
<1>1. CASE Emit
  BY <1>1, EmitType
<1>2. CASE ~Emit
  <2>1. chunks' = chunks
    BY <1>2 DEF Next, EnterBlock, Finish, Grow, StepBack, Advance, vars
  <2>2. QED
    BY <2>1
<1>3. QED
  BY <1>1, <1>2

\* A word stays in its chunk, and two words stay together.
LEMMA HoldsStays ==
    ASSUME TypeOK, InBounds, [Next]_vars, NEW n, NEW w
    PROVE  /\ InSomeChunk(n, w) => InSomeChunk(n, w)'
           /\ Together(n, w) => Together(n, w)'
<1>1. InSomeChunk(n, w) => InSomeChunk(n, w)'
  BY ChunksStay DEF InSomeChunk, Holds
<1>2. InOneChunk(n, w) => InOneChunk(n, w)'
  BY ChunksStay DEF InOneChunk, Holds
<1>3. QED
  BY <1>1, <1>2, InputStays DEF Together

\* The window that closes holds its words, and its neighbours.
LEMMA WindowHolds ==
    ASSUME TypeOK, InBounds, Emit, NEW n, n = b, NEW w
    PROVE  /\ w \in i .. j - 1 => InSomeChunk(n, w)'
           /\ w \in i .. j - 2 => InOneChunk(n, w)'
<1>1. /\ Len(chunks) + 1 \in DOMAIN chunks'
      /\ chunks'[Len(chunks) + 1] = Window
  BY EmitType
<1>2. b \in Nat /\ i \in Nat /\ j \in Nat
  BY DEF TypeOK
<1>3. ASSUME NEW v \in i .. j - 1 PROVE Holds(Window, n, v)
  BY <1>2 DEF Holds, Window
<1>4. ASSUME w \in i .. j - 1 PROVE InSomeChunk(n, w)'
  <2>1. Holds(Window, n, w)
    BY <1>3, <1>4
  <2>2. QED
    BY <1>1, <2>1 DEF InSomeChunk, Holds
<1>5. ASSUME w \in i .. j - 2 PROVE InOneChunk(n, w)'
  <2>1. w \in i .. j - 1 /\ w + 1 \in i .. j - 1
    BY <1>2, <1>5
  <2>2. Holds(Window, n, w) /\ Holds(Window, n, w + 1)
    BY <2>1, <1>3
  <2>3. QED
    BY <1>1, <2>2 DEF InOneChunk, Holds
<1>6. QED
  BY <1>4, <1>5

-----------------------------------------------------------------------------
LEMMA TypeStep == TypeOK /\ InBounds /\ [Next]_vars => TypeOK'
<1>1. SUFFICES ASSUME TypeOK, InBounds, [Next]_vars PROVE TypeOK'
  OBVIOUS
<1>2. blocks' \in Seq(Block) /\ target' \in Nat \ {0} /\ overlap' \in 0 .. target' - 1
  BY <1>1, InputStays DEF TypeOK
<1>3. CASE EnterBlock
  <2>1. UNCHANGED <<k, back, chunks>>
    BY <1>3 DEF EnterBlock, backVars
  <2>2. /\ b' \in Nat /\ i' \in Nat /\ j' \in Nat /\ count' \in Nat
        /\ pc' \in {"block", "grow", "back", "done"}
    BY <1>1, <1>3 DEF TypeOK, EnterBlock
  <2>3. QED
    BY <1>1, <1>2, <2>1, <2>2 DEF TypeOK
<1>4. CASE Finish
  BY <1>1, <1>2, <1>4 DEF TypeOK, Finish, windowVars, backVars
<1>5. CASE Grow
  <2>1. b \in DOMAIN blocks /\ j \in DOMAIN Words(b)
    <3>1. b \in DOMAIN blocks
      BY <1>1, <1>5 DEF Grow, InBounds
    <3>2. Words(b) \in Seq(Word)
      BY <1>1, <3>1, WordsType DEF TypeOK
    <3>3. j \in Nat /\ j <= Len(Words(b)) /\ i \in DOMAIN Words(b) /\ i <= j
      BY <1>1, <1>5 DEF Grow, Fits, InBounds, TypeOK
    <3>4. QED
      BY <3>1, <3>2, <3>3
  <2>2. Tokens(b, j) \in Nat
    BY <1>1, <2>1, WordsType DEF TypeOK
  <2>3. count' \in Nat /\ j' \in Nat
    BY <1>1, <1>5, <2>2 DEF TypeOK, Grow
  <2>4. QED
    BY <1>1, <1>2, <1>5, <2>3 DEF TypeOK, Grow, backVars
<1>6. CASE Emit
  <2>1. chunks' \in Seq(Chunk)
    BY <1>1, <1>6, EmitType
  <2>2. /\ b' \in Nat /\ i' \in Nat /\ j' \in Nat /\ count' \in Nat
        /\ k' \in Nat /\ back' \in Nat /\ pc' \in {"block", "grow", "back", "done"}
    BY <1>1, <1>6 DEF TypeOK, Emit, backVars
  <2>3. QED
    BY <1>2, <2>1, <2>2 DEF TypeOK
<1>7. CASE StepBack
  <2>1. /\ b \in DOMAIN blocks /\ i \in DOMAIN Words(b)
        /\ k > i + 1 /\ k <= j /\ j <= Len(Words(b))
    BY <1>1, <1>7 DEF StepBack, CanStepBack, InBounds
  <2>2. Words(b) \in Seq(Word)
    BY <1>1, <2>1, WordsType DEF TypeOK
  <2>3. k - 1 \in DOMAIN Words(b) /\ k - 1 \in Nat
    BY <1>1, <2>1, <2>2 DEF TypeOK
  <2>4. Tokens(b, k - 1) \in Nat
    BY <1>1, <2>1, <2>3, WordsType DEF TypeOK
  <2>5. k' \in Nat /\ back' \in Nat
    BY <1>1, <1>7, <2>3, <2>4 DEF TypeOK, StepBack
  <2>6. QED
    BY <1>1, <1>2, <1>7, <2>5 DEF TypeOK, StepBack, windowVars
<1>8. CASE Advance
  <2>1. i' \in Nat /\ j' \in Nat /\ count' \in Nat
    BY <1>1, <1>8 DEF TypeOK, Advance, Larger
  <2>2. QED
    BY <1>1, <1>2, <1>8, <2>1 DEF TypeOK, Advance, backVars
<1>9. CASE UNCHANGED vars
  BY <1>1, <1>9 DEF TypeOK, vars, inputVars, windowVars, backVars
<1>10. QED
  BY <1>1, <1>3, <1>4, <1>5, <1>6, <1>7, <1>8, <1>9 DEF Next

LEMMA BoundsStep == TypeOK /\ InBounds /\ [Next]_vars => InBounds'
<1>1. SUFFICES ASSUME TypeOK, InBounds, [Next]_vars PROVE InBounds'
  OBVIOUS
<1>2. \A n : Words(n)' = Words(n)
  BY <1>1, InputStays
<1>3. \A n, w : Tokens(n, w)' = Tokens(n, w)
  BY <1>1, InputStays
<1>4. blocks' = blocks
  BY <1>1, InputStays
<1>5. ASSUME b \in DOMAIN blocks
      PROVE  Len(Words(b)) \in Nat /\ DOMAIN Words(b) = 1 .. Len(Words(b))
             /\ (Words(b) # <<>> => 1 \in DOMAIN Words(b))
  <2>1. Words(b) \in Seq(Word)
    BY <1>1, <1>5, WordsType DEF TypeOK
  <2>2. QED
    BY <2>1
<1>6. CASE EnterBlock
  <2>1. b \in DOMAIN blocks
    BY <1>1, <1>6 DEF EnterBlock, InBounds, TypeOK
  <2>2. CASE Words(b) = <<>>
    BY <1>1, <1>6, <2>2 DEF EnterBlock, InBounds, TypeOK
  <2>3. CASE Words(b) # <<>>
    <3>1. b' = b /\ i' = 1 /\ j' = 1 /\ count' = 0 /\ pc' = "grow"
      BY <1>6, <2>3 DEF EnterBlock
    <3>2. 1 \in DOMAIN Words(b) /\ 1 <= Len(Words(b)) + 1
      BY <1>5, <2>1, <2>3
    <3>3. QED
      BY <1>1, <1>2, <1>4, <2>1, <3>1, <3>2 DEF InBounds
  <2>4. QED
    BY <2>2, <2>3
<1>7. CASE Finish
  BY <1>1, <1>4, <1>7 DEF Finish, InBounds, windowVars
<1>8. CASE Grow
  <2>1. /\ b' = b /\ i' = i /\ j' = j + 1 /\ count' = count + Tokens(b, j) /\ pc' = "grow"
        /\ j <= Len(Words(b))
    BY <1>8 DEF Grow, Fits
  <2>2. b \in DOMAIN blocks /\ i \in DOMAIN Words(b) /\ i <= j
    BY <1>1, <1>8 DEF Grow, InBounds
  <2>3. i \in Nat /\ j \in Nat /\ Len(Words(b)) \in Nat
    BY <1>1, <1>5, <2>2 DEF TypeOK
  <2>4. i' <= j' /\ j' <= Len(Words(b)) + 1 /\ j' # i'
    BY <2>1, <2>2, <2>3
  <2>5. j' = i' + 1 => count' = Tokens(b, i)
    <3>1. ASSUME j' = i' + 1 PROVE count' = Tokens(b, i)
      <4>1. j = i
        BY <3>1, <2>1, <2>3
      <4>2. count = 0
        BY <1>1, <1>8, <4>1 DEF InBounds, Grow
      <4>3. j \in DOMAIN Words(b)
        BY <4>1, <2>2
      <4>4. Tokens(b, j) \in Nat
        BY <1>1, <2>2, <4>3, WordsType DEF TypeOK
      <4>5. QED
        BY <2>1, <4>1, <4>2, <4>4
    <3>2. QED
      BY <3>1
  <2>6. QED
    BY <1>1, <1>2, <1>3, <1>4, <2>1, <2>2, <2>4, <2>5 DEF InBounds
<1>9. CASE Emit
  <2>1. b \in DOMAIN blocks /\ i \in DOMAIN Words(b) /\ i < j
    BY <1>1, <1>9, WindowNotEmpty DEF Emit, InBounds
  <2>2. i \in Nat /\ j \in Nat /\ Len(Words(b)) \in Nat /\ b \in Nat \ {0}
    BY <1>1, <1>5, <2>1 DEF TypeOK, InBounds
  <2>3. i' = i /\ j' = j
    BY <1>9 DEF Emit
  <2>4. CASE j > Len(Words(b))
    <3>1. b' = b + 1 /\ pc' = "block"
      BY <1>9, <2>4 DEF Emit
    <3>2. QED
      BY <3>1, <2>2 DEF InBounds
  <2>5. CASE ~(j > Len(Words(b)))
    <3>1. b' = b /\ pc' = "back" /\ k' = j
      BY <1>9, <2>5 DEF Emit
    <3>2. j <= Len(Words(b)) /\ i + 1 <= j /\ i <= j /\ j <= Len(Words(b)) + 1
      BY <2>1, <2>2, <2>5
    <3>3. QED
      BY <1>2, <1>4, <2>1, <2>2, <2>3, <3>1, <3>2 DEF InBounds
  <2>6. QED
    BY <2>4, <2>5
<1>10. CASE StepBack
  <2>1. /\ b' = b /\ i' = i /\ j' = j /\ count' = count /\ k' = k - 1 /\ pc' = "back" /\ pc = "back"
        /\ k > i + 1
    BY <1>10 DEF StepBack, CanStepBack, windowVars
  <2>2. i + 1 <= k - 1 /\ k - 1 <= j
    BY <1>1, <2>1 DEF InBounds, TypeOK
  <2>3. QED
    BY <1>1, <1>2, <1>4, <2>1, <2>2 DEF InBounds
<1>11. CASE Advance
  <2>1. b' = b /\ i' = k /\ j' = k /\ count' = 0 /\ pc' = "grow" /\ pc = "back"
    BY <1>1, <1>11 DEF Advance, InBounds, TypeOK, Larger
  <2>2. /\ b \in DOMAIN blocks /\ i \in DOMAIN Words(b)
        /\ i + 1 <= k /\ k <= j /\ j <= Len(Words(b))
    BY <1>1, <2>1 DEF InBounds
  <2>3. k \in DOMAIN Words(b) /\ k <= Len(Words(b)) + 1 /\ k # k + 1
    BY <1>1, <1>5, <2>2 DEF TypeOK
  <2>4. QED
    BY <1>1, <1>2, <1>4, <2>1, <2>2, <2>3 DEF InBounds, TypeOK
<1>12. CASE UNCHANGED vars
  BY <1>1, <1>2, <1>3, <1>4, <1>12 DEF InBounds, vars, windowVars, backVars
<1>13. QED
  BY <1>1, <1>6, <1>7, <1>8, <1>9, <1>10, <1>11, <1>12 DEF Next

\* Where a closing window leaves the locals.
LEMMA EmitLocals ==
    ASSUME TypeOK, InBounds, Emit
    PROVE  /\ b \in DOMAIN blocks /\ b \in Nat /\ i \in Nat /\ j \in Nat
           /\ Len(Words(b)) \in Nat /\ DOMAIN Words(b) = 1 .. Len(Words(b))
           /\ i < j /\ j <= Len(Words(b)) + 1
           /\ \/ j = Len(Words(b)) + 1 /\ b' = b + 1 /\ pc' = "block"
              \/ /\ j <= Len(Words(b)) /\ b' = b /\ i' = i /\ j' = j
                 /\ k' = j /\ back' = 0 /\ pc' = "back"
<1>1. b \in DOMAIN blocks /\ i < j /\ j <= Len(Words(b)) + 1
  BY WindowNotEmpty DEF Emit, InBounds
<1>2. Words(b) \in Seq(Word)
  BY <1>1, WordsType DEF TypeOK
<1>3. Len(Words(b)) \in Nat /\ DOMAIN Words(b) = 1 .. Len(Words(b))
  BY <1>2
<1>4. b \in Nat /\ i \in Nat /\ j \in Nat
  BY DEF TypeOK
<1>5. CASE j > Len(Words(b))
  <2>1. b' = b + 1 /\ pc' = "block"
    BY <1>5 DEF Emit
  <2>2. j = Len(Words(b)) + 1
    BY <1>1, <1>3, <1>4, <1>5
  <2>3. QED
    BY <1>1, <1>3, <1>4, <2>1, <2>2
<1>6. CASE ~(j > Len(Words(b)))
  <2>1. b' = b /\ i' = i /\ j' = j /\ k' = j /\ back' = 0 /\ pc' = "back"
    BY <1>6 DEF Emit
  <2>2. j <= Len(Words(b))
    BY <1>3, <1>4, <1>6
  <2>3. QED
    BY <1>1, <1>3, <1>4, <2>1, <2>2
<1>7. QED
  BY <1>5, <1>6

\* The block at work never goes back.
LEMMA BlocksInTurn ==
    ASSUME TypeOK, InBounds, [Next]_vars
    PROVE  b \in Nat /\ b' \in Nat /\ b <= b'
<1>1. b \in Nat
  BY DEF TypeOK
<1>2. b' = b \/ b' = b + 1
  BY DEF Next, EnterBlock, Finish, Grow, Emit, StepBack, Advance, windowVars, vars
<1>3. QED
  BY <1>1, <1>2

LEMMA NumberedStep == TypeOK /\ InBounds /\ Numbered /\ [Next]_vars => Numbered'
<1>1. SUFFICES ASSUME TypeOK, InBounds, Numbered, [Next]_vars PROVE Numbered'
  OBVIOUS
<1>2. b \in Nat /\ b' \in Nat /\ b <= b'
  BY <1>1, BlocksInTurn
<1>3. chunks \in Seq(Chunk)
  BY <1>1 DEF TypeOK
<1>4. ASSUME NEW c \in DOMAIN chunks PROVE chunks[c].block \in Nat
  <2>1. chunks[c] \in Chunk
    BY <1>3
  <2>2. QED
    BY <2>1 DEF Chunk
<1>5. CASE Emit
  <2>1. /\ Len(chunks) \in Nat /\ DOMAIN chunks = 1 .. Len(chunks)
        /\ DOMAIN chunks' = DOMAIN chunks \cup {Len(chunks) + 1}
        /\ \A c \in DOMAIN chunks : chunks'[c] = chunks[c]
    BY <1>1, <1>3, <1>5, EmitType
  <2>2. /\ chunks'[Len(chunks) + 1].block = b
        /\ chunks'[Len(chunks) + 1].ord = Len(chunks)
    BY <1>1, <1>5, EmitType DEF Window
  <2>3. ASSUME NEW c \in DOMAIN chunks'
        PROVE  /\ chunks'[c].block <= b'
               /\ chunks'[c].ord = c - 1
               /\ c > 1 => chunks'[c - 1].block <= chunks'[c].block
    <3>1. CASE c \in DOMAIN chunks
      <4>1. c > 1 => c - 1 \in DOMAIN chunks
        BY <2>1, <3>1
      <4>2. chunks[c].block <= b'
        BY <1>1, <1>2, <1>4, <3>1 DEF Numbered
      <4>3. QED
        BY <1>1, <2>1, <3>1, <4>1, <4>2 DEF Numbered, ChunksInOrder
    <3>2. CASE c = Len(chunks) + 1
      <4>1. c > 1 => c - 1 \in DOMAIN chunks
        BY <2>1, <3>2
      <4>2. c > 1 => chunks'[c - 1].block <= b
        BY <1>1, <2>1, <4>1 DEF Numbered
      <4>3. chunks'[c].block = b /\ chunks'[c].ord = c - 1
        BY <2>1, <2>2, <3>2
      <4>4. QED
        BY <1>2, <4>2, <4>3
    <3>3. QED
      BY <2>1, <3>1, <3>2
  <2>4. QED
    BY <2>3 DEF Numbered, ChunksInOrder
<1>6. CASE ~Emit
  <2>1. chunks' = chunks
    BY <1>1, <1>6 DEF Next, EnterBlock, Finish, Grow, StepBack, Advance, vars
  <2>2. \A c \in DOMAIN chunks : chunks[c].block <= b'
    BY <1>1, <1>2, <1>4 DEF Numbered
  <2>3. QED
    BY <1>1, <2>1, <2>2 DEF Numbered, ChunksInOrder
<1>7. QED
  BY <1>5, <1>6

LEMMA ChunkedStep == TypeOK /\ InBounds /\ Chunked /\ [Next]_vars => Chunked'
<1>1. SUFFICES ASSUME TypeOK, InBounds, Chunked, [Next]_vars PROVE Chunked'
  OBVIOUS
<1>2. blocks' = blocks /\ \A n : Words(n)' = Words(n)
  BY <1>1, InputStays
<1>3. \A n, w : InSomeChunk(n, w) => InSomeChunk(n, w)'
  BY <1>1, HoldsStays
<1>4. b \in Nat /\ i \in Nat /\ j \in Nat /\ k \in Nat /\ DOMAIN blocks \subseteq Nat
  BY <1>1 DEF TypeOK
<1>5. ASSUME NEW n \in DOMAIN blocks PROVE Words(n) \in Seq(Word)
  BY <1>1, WordsType DEF TypeOK
<1>6. ASSUME NEW n \in DOMAIN blocks, n < b', NEW w \in DOMAIN Words(n)
      PROVE  InSomeChunk(n, w)'
  <2>1. CASE n < b
    BY <1>1, <1>3, <1>6, <2>1 DEF Chunked
  <2>2. CASE ~(n < b)
    <3>1. b' = b + 1 /\ n = b
      BY <1>1, <1>4, <1>6, <2>2
      DEF Next, EnterBlock, Finish, Grow, Emit, StepBack, Advance, windowVars, vars
    <3>2. CASE EnterBlock
      BY <1>4, <1>6, <3>1, <3>2 DEF EnterBlock
    <3>3. CASE Emit
      <4>1. b' # b
        BY <1>4, <3>1
      <4>2. /\ j = Len(Words(n)) + 1 /\ Len(Words(n)) \in Nat
            /\ DOMAIN Words(n) = 1 .. Len(Words(n))
        BY <1>1, <3>1, <3>3, <4>1, EmitLocals
      <4>3. w < i \/ w \in i .. j - 1
        BY <1>4, <4>2
      <4>4. CASE w < i
        BY <1>1, <1>3, <3>1, <3>3, <4>4 DEF Chunked, Emit
      <4>5. CASE w \in i .. j - 1
        BY <1>1, <3>1, <3>3, <4>5, WindowHolds
      <4>6. QED
        BY <4>3, <4>4, <4>5
    <3>4. QED
      BY <1>1, <1>4, <3>1, <3>2, <3>3
      DEF Next, Finish, Grow, StepBack, Advance, windowVars, vars
  <2>3. QED
    BY <2>1, <2>2
<1>7. ASSUME pc' = "grow", NEW n, n = b', NEW w \in DOMAIN Words(n), w < i'
      PROVE  InSomeChunk(n, w)'
  <2>1. CASE EnterBlock
    <3>1. n \in DOMAIN blocks /\ i' = 1
      BY <1>1, <1>4, <1>7, <2>1 DEF EnterBlock, InBounds, TypeOK
    <3>2. w \in Nat /\ w >= 1
      BY <1>5, <3>1
    <3>3. QED
      BY <1>7, <3>1, <3>2
  <2>2. CASE Grow \/ UNCHANGED vars
    BY <1>1, <1>3, <1>7, <2>2 DEF Chunked, Grow, vars, windowVars
  <2>3. CASE Advance
    <3>1. pc = "back" /\ n = b /\ i' = k /\ k <= j /\ b \in DOMAIN blocks
      BY <1>1, <1>4, <1>7, <2>3 DEF Advance, InBounds, Larger
    <3>2. w \in Nat
      BY <1>5, <3>1
    <3>3. w < j
      BY <1>4, <1>7, <3>1, <3>2
    <3>4. QED
      BY <1>1, <1>3, <3>1, <3>3 DEF Chunked
  <2>4. QED
    BY <1>1, <1>7, <2>1, <2>2, <2>3 DEF Next, Finish, Emit, StepBack
<1>8. ASSUME pc' = "back", NEW n, n = b', NEW w \in DOMAIN Words(n), w < j'
      PROVE  InSomeChunk(n, w)'
  <2>1. CASE StepBack \/ UNCHANGED vars
    BY <1>1, <1>3, <1>8, <2>1 DEF Chunked, StepBack, vars, windowVars
  <2>2. CASE Emit
    <3>1. n = b /\ j' = j /\ DOMAIN Words(n) = 1 .. Len(Words(n)) /\ Len(Words(n)) \in Nat
      BY <1>1, <1>8, <2>2, EmitLocals
    <3>2. w < i \/ w \in i .. j - 1
      BY <1>4, <1>8, <3>1
    <3>3. CASE w < i
      BY <1>1, <1>3, <2>2, <3>1, <3>3 DEF Chunked, Emit
    <3>4. CASE w \in i .. j - 1
      BY <1>1, <2>2, <3>1, <3>4, WindowHolds
    <3>5. QED
      BY <3>2, <3>3, <3>4
  <2>3. QED
    BY <1>1, <1>8, <2>1, <2>2 DEF Next, EnterBlock, Finish, Grow, Advance
<1>9. QED
  BY <1>2, <1>6, <1>7, <1>8 DEF Chunked, InSomeChunk, Holds

\* A window of one word that closes before the end of its block was too full
\* for the next word.
LEMMA TooBigToPair ==
    ASSUME TypeOK, InBounds, Emit, j <= Len(Words(b)), j = i + 1, NEW n, n = b
    PROVE  Together(n, i)
<1>1. /\ b \in DOMAIN blocks /\ i \in Nat /\ j \in Nat /\ i < j
      /\ Len(Words(b)) \in Nat /\ DOMAIN Words(b) = 1 .. Len(Words(b))
  BY EmitLocals
<1>2. i \in DOMAIN Words(b)
  BY DEF Emit, InBounds
<1>3. j \in DOMAIN Words(b)
  BY <1>1, <1>2
<1>4. Tokens(b, i) \in Nat /\ Tokens(b, j) \in Nat /\ target \in Nat
  BY <1>1, <1>2, <1>3, WordsType DEF TypeOK
<1>5. count = Tokens(b, i) /\ ~(count + Tokens(b, j) <= target)
  BY <1>1 DEF Emit, InBounds, Fits
<1>6. ~(Tokens(n, i) + Tokens(n, i + 1) <= target)
  BY <1>4, <1>5
<1>7. QED
  BY <1>6 DEF Together

LEMMA NeighboursStep ==
    TypeOK /\ InBounds /\ NeighboursSoFar /\ [Next]_vars => NeighboursSoFar'
<1>1. SUFFICES ASSUME TypeOK, InBounds, NeighboursSoFar, [Next]_vars, overlap > 0
               PROVE  NeighboursSoFar'
  BY InputStays DEF NeighboursSoFar
<1>2. blocks' = blocks /\ \A n : Words(n)' = Words(n)
  BY <1>1, InputStays
<1>3. \A n, w : Together(n, w) => Together(n, w)'
  BY <1>1, HoldsStays
<1>4. /\ b \in Nat /\ i \in Nat /\ j \in Nat /\ k \in Nat /\ back \in Nat
      /\ overlap \in Nat /\ DOMAIN blocks \subseteq Nat
  BY <1>1 DEF TypeOK
<1>5. ASSUME NEW n \in DOMAIN blocks
      PROVE  Len(Words(n)) \in Nat /\ (Words(n) = <<>> => Len(Words(n)) = 0)
  <2>1. Words(n) \in Seq(Word)
    BY <1>1, WordsType DEF TypeOK
  <2>2. QED
    BY <2>1
<1>6. ASSUME NEW n, n = b, NEW w, w \in i .. j - 2, Emit PROVE Together(n, w)'
  BY <1>1, <1>6, WindowHolds DEF Together
<1>7. ASSUME NEW n \in DOMAIN blocks, n < b', NEW w \in 1 .. Len(Words(n)) - 1
      PROVE  Together(n, w)'
  <2>1. CASE n < b
    BY <1>1, <1>3, <1>7, <2>1 DEF NeighboursSoFar
  <2>2. CASE ~(n < b)
    <3>1. b' = b + 1 /\ n = b
      BY <1>1, <1>4, <1>7, <2>2
      DEF Next, EnterBlock, Finish, Grow, Emit, StepBack, Advance, windowVars, vars
    <3>2. CASE EnterBlock
      <4>1. Words(n) = <<>>
        BY <1>4, <3>1, <3>2 DEF EnterBlock
      <4>2. QED
        BY <1>5, <1>7, <4>1
    <3>3. CASE Emit
      <4>1. b' # b
        BY <1>4, <3>1
      <4>2. j = Len(Words(n)) + 1 /\ Len(Words(n)) \in Nat
        BY <1>1, <3>1, <3>3, <4>1, EmitLocals
      <4>3. w < i \/ w \in i .. j - 2
        BY <1>4, <4>2
      <4>4. CASE w < i
        BY <1>1, <1>3, <3>1, <3>3, <4>4 DEF NeighboursSoFar, Emit
      <4>5. CASE w \in i .. j - 2
        BY <1>6, <3>1, <3>3, <4>5
      <4>6. QED
        BY <4>3, <4>4, <4>5
    <3>4. QED
      BY <1>1, <1>4, <3>1, <3>2, <3>3
      DEF Next, Finish, Grow, StepBack, Advance, windowVars, vars
  <2>3. QED
    BY <2>1, <2>2
<1>8. ASSUME pc' = "grow", NEW n, n = b', NEW w \in 1 .. Len(Words(n)) - 1, w < i'
      PROVE  Together(n, w)'
  <2>1. CASE EnterBlock
    <3>1. n \in DOMAIN blocks /\ i' = 1
      BY <1>1, <1>4, <1>8, <2>1 DEF EnterBlock, InBounds, TypeOK
    <3>2. w \in Nat /\ w >= 1
      BY <1>5, <3>1
    <3>3. QED
      BY <1>8, <3>1, <3>2
  <2>2. CASE Grow \/ UNCHANGED vars
    BY <1>1, <1>3, <1>8, <2>2 DEF NeighboursSoFar, Grow, vars, windowVars
  <2>3. CASE Advance
    <3>1. /\ pc = "back" /\ n = b /\ i' = k /\ k <= j /\ i + 1 <= k
          /\ b \in DOMAIN blocks /\ ~CanStepBack
      BY <1>1, <1>4, <1>8, <2>3 DEF Advance, InBounds, Larger
    <3>2. w \in Nat /\ w < k
      BY <1>5, <1>8, <3>1
    <3>3. CASE k < j
      <4>1. w < j - 1
        BY <1>4, <3>1, <3>2, <3>3
      <4>2. QED
        BY <1>1, <1>3, <3>1, <4>1 DEF NeighboursSoFar
    <3>4. CASE k = j
      <4>1. back = 0
        BY <1>1, <3>1, <3>4 DEF NeighboursSoFar
      <4>2. j = i + 1
        BY <1>1, <1>4, <3>1, <3>4, <4>1 DEF CanStepBack
      <4>3. w < j - 1 \/ w = i
        BY <1>4, <3>2, <3>4, <4>2
      <4>4. QED
        BY <1>1, <1>3, <3>1, <4>2, <4>3 DEF NeighboursSoFar
    <3>5. QED
      BY <1>4, <3>1, <3>3, <3>4
  <2>4. QED
    BY <1>1, <1>8, <2>1, <2>2, <2>3 DEF Next, Finish, Emit, StepBack
<1>9. ASSUME pc' = "back", NEW n, n = b'
      PROVE  /\ \A w \in 1 .. Len(Words(n)) - 1 : w < j' - 1 => Together(n, w)'
             /\ \A w : j' = w + 1 /\ w = i' => Together(n, w)'
             /\ k' = j' => back' = 0
  <2>1. CASE UNCHANGED vars
    BY <1>1, <1>3, <1>9, <2>1 DEF NeighboursSoFar, vars, windowVars, backVars
  <2>2. CASE StepBack
    <3>1. n = b /\ i' = i /\ j' = j /\ pc = "back"
      BY <1>9, <2>2 DEF StepBack, windowVars
    <3>2. k' # j'
      BY <1>1, <1>4, <2>2, <3>1 DEF StepBack, InBounds
    <3>3. QED
      BY <1>1, <1>3, <3>1, <3>2 DEF NeighboursSoFar
  <2>3. CASE Emit
    <3>1. n = b /\ i' = i /\ j' = j /\ k' = j /\ back' = 0 /\ j <= Len(Words(b))
      BY <1>1, <1>9, <2>3, EmitLocals
    <3>2. ASSUME NEW w \in 1 .. Len(Words(n)) - 1, w < j - 1 PROVE Together(n, w)'
      <4>1. b \in DOMAIN blocks
        BY <1>1, <2>3, EmitLocals
      <4>2. w \in Nat
        BY <1>5, <3>1, <4>1
      <4>3. w < i \/ w \in i .. j - 2
        BY <1>4, <3>2, <4>2
      <4>4. CASE w < i
        BY <1>1, <1>3, <2>3, <3>1, <4>4 DEF NeighboursSoFar, Emit
      <4>5. CASE w \in i .. j - 2
        BY <1>6, <2>3, <3>1, <4>5
      <4>6. QED
        BY <4>3, <4>4, <4>5
    <3>3. ASSUME j = i + 1 PROVE Together(n, i)
      BY <1>1, <2>3, <3>1, <3>3, TooBigToPair
    <3>4. QED
      BY <1>3, <3>1, <3>2, <3>3
  <2>4. QED
    BY <1>1, <1>9, <2>1, <2>2, <2>3 DEF Next, EnterBlock, Finish, Grow, Advance
<1>10. QED
  BY <1>2, <1>7, <1>8, <1>9 DEF NeighboursSoFar, Together, InOneChunk, Holds, Tokens

\* Sums are of the input, which stays.
LEMMA SizeStays ==
    ASSUME [Next]_vars
    PROVE  /\ \A n : Running(n)' = Running(n)
           /\ \A n, from, upto : Size(n, from, upto)' = Size(n, from, upto)
<1>1. \A n : Running(n)' = Running(n)
  BY InputStays DEF Running
<1>2. QED
  BY <1>1 DEF Size

\* A window takes in a word.
LEMMA SizeGrows ==
    ASSUME TypeOK, InBounds, NEW n \in DOMAIN blocks,
           NEW from \in DOMAIN Words(n), NEW upto \in from .. Len(Words(n))
    PROVE  /\ Size(n, from, from - 1) = 0
           /\ Size(n, from, upto) \in Nat
           /\ Size(n, from, upto) = Size(n, from, upto - 1) + Tokens(n, upto)
<1> DEFINE total == Running(n)
           N == Len(Words(n))
<1>1. /\ N \in Nat /\ DOMAIN Words(n) = 1 .. N /\ \A u \in 0 .. N : total[u] \in Nat
      /\ \A u \in 1 .. N : total[u] = total[u - 1] + Tokens(n, u) /\ Tokens(n, u) \in Nat
  <2>1. /\ Words(n) \in Seq(Word)
        /\ \A w \in DOMAIN Words(n) : Tokens(n, w) \in Nat
    BY WordsType DEF TypeOK
  <2>2. DOMAIN Words(n) = 1 .. N
    BY <2>1
  <2>3. /\ N \in Nat /\ \A u \in 0 .. N : total[u] \in Nat
        /\ \A u \in DOMAIN Words(n) : total[u] = total[u - 1] + Tokens(n, u)
    BY RunningSums DEF TypeOK
  <2>4. QED
    BY <2>1, <2>2, <2>3
<1>2. from - 1 \in 0 .. N /\ upto \in from - 1 .. N /\ upto \in 1 .. N /\ upto \in 0 .. N
      /\ upto - 1 \in 0 .. N
  BY <1>1
<1>3. total[from - 1] <= total[upto]
  BY <1>2, RunningGrows DEF TypeOK
<1> HIDE DEF total, N
<1>4. total[from - 1] \in Nat /\ total[upto] \in Nat /\ total[upto - 1] \in Nat
  BY <1>1, <1>2
<1>5. total[upto] = total[upto - 1] + Tokens(n, upto) /\ Tokens(n, upto) \in Nat
  BY <1>1, <1>2
<1>6. QED
  BY <1>3, <1>4, <1>5, SMTT(30) DEF Size, total

\* A window that begins later or ends sooner has no more tokens.
LEMMA SizeShrinks ==
    ASSUME TypeOK, InBounds, NEW n \in DOMAIN blocks,
           NEW from \in DOMAIN Words(n), NEW upto \in from .. Len(Words(n)),
           NEW later \in from .. upto, NEW sooner \in from .. upto
    PROVE  /\ Size(n, later, upto) <= Size(n, from, upto)
           /\ Size(n, from, sooner) <= Size(n, from, upto)
<1> DEFINE total == Running(n)
           N == Len(Words(n))
<1>1. N \in Nat /\ DOMAIN Words(n) = 1 .. N /\ \A u \in 0 .. N : total[u] \in Nat
  <2>1. N \in Nat /\ \A u \in 0 .. N : total[u] \in Nat
    BY RunningSums DEF TypeOK
  <2>2. Words(n) \in Seq(Word)
    BY WordsType DEF TypeOK
  <2>3. DOMAIN Words(n) = 1 .. N
    BY <2>2
  <2>4. QED
    BY <2>1, <2>3
<1>2. /\ from - 1 \in 0 .. N /\ later - 1 \in from - 1 .. N /\ later - 1 \in 0 .. N
      /\ upto \in sooner .. N /\ sooner \in 0 .. N /\ upto \in 0 .. N
  BY <1>1
<1>3. total[from - 1] <= total[later - 1] /\ total[sooner] <= total[upto]
  BY <1>2, RunningGrows DEF TypeOK
<1> HIDE DEF total, N
<1>4. /\ total[from - 1] \in Nat /\ total[later - 1] \in Nat
      /\ total[upto] \in Nat /\ total[sooner] \in Nat
  BY <1>1, <1>2
<1>5. QED
  BY <1>3, <1>4, SMTT(30) DEF Size, total

\* A chunk holds words of its block.
LEMMA ChunkNumbers ==
    ASSUME TypeOK, NEW c \in DOMAIN chunks
    PROVE  chunks[c].block \in Nat /\ chunks[c].first \in Nat /\ chunks[c].last \in Nat
<1>1. chunks[c] \in Chunk
  BY DEF TypeOK
<1>2. QED
  BY <1>1 DEF Chunk

LEMMA SizedStep == TypeOK /\ InBounds /\ Sized /\ [Next]_vars => Sized'
<1> SUFFICES ASSUME TypeOK, InBounds, Sized, [Next]_vars PROVE Sized'
  OBVIOUS
<1>1. /\ target' = target /\ \A n : Running(n)' = Running(n)
      /\ \A n, from, upto : Size(n, from, upto)' = Size(n, from, upto)
  BY InputStays, SizeStays
<1>2. /\ target \in Nat /\ b \in Nat /\ i \in Nat /\ j \in Nat /\ count \in Nat
      /\ pc \in {"grow", "back"} =>
            /\ b \in DOMAIN blocks /\ i \in DOMAIN Words(b) /\ i <= j
            /\ Len(Words(b)) \in Nat /\ DOMAIN Words(b) = 1 .. Len(Words(b))
  BY WordsType DEF TypeOK, InBounds
<1>3. ChunksFitTarget'
  <2>1. CASE Emit
    <3>1. /\ DOMAIN chunks' = DOMAIN chunks \cup {Len(chunks) + 1}
          /\ \A c \in DOMAIN chunks : chunks'[c] = chunks[c]
          /\ chunks'[Len(chunks) + 1] = Window
      BY <2>1, EmitType
    <3>2. Size(b, i, j - 1) <= target \/ i = j - 1
      BY <1>2, <2>1 DEF Emit, Sized
    <3>3. QED
      BY <1>1, <3>1, <3>2 DEF ChunksFitTarget, Size, Window, Sized
  <2>2. CASE ~Emit
    <3>1. chunks' = chunks
      BY <2>2 DEF Next, EnterBlock, Finish, Grow, StepBack, Advance, vars
    <3>2. QED
      BY <1>1, <3>1 DEF ChunksFitTarget, Sized
  <2>3. QED
    BY <2>1, <2>2
<1>4. CASE EnterBlock
  <2>1. pc' \in {"block", "grow"} /\ (pc' = "grow" => b' = b /\ i' = 1 /\ j' = 1 /\ count' = 0)
    BY <1>4 DEF EnterBlock
  <2>2. CASE pc' = "grow"
    <3>1. b \in DOMAIN blocks /\ Words(b) # <<>>
      BY <1>4, <2>2 DEF EnterBlock, InBounds, TypeOK
    <3>2. Words(b) \in Seq(Word)
      BY <3>1, WordsType DEF TypeOK
    <3>3. 1 \in DOMAIN Words(b) /\ 1 \in 1 .. Len(Words(b))
      BY <3>1, <3>2
    <3>4. Size(b, 1, 1 - 1) = 0
      BY <3>1, <3>3, SizeGrows
    <3>5. QED
      BY <1>1, <1>2, <1>3, <2>1, <2>2, <3>4 DEF Sized
  <2>3. QED
    BY <1>3, <2>1, <2>2 DEF Sized
<1>5. CASE Grow
  <2>1. /\ pc = "grow" /\ pc' = "grow" /\ b' = b /\ i' = i /\ j' = j + 1
        /\ count' = count + Tokens(b, j)
        /\ j <= Len(Words(b)) /\ (j = i \/ count + Tokens(b, j) <= target)
    BY <1>5 DEF Grow, Fits
  <2>2. j \in i .. Len(Words(b))
    BY <1>2, <2>1
  <2>3. Size(b, i, j) = Size(b, i, j - 1) + Tokens(b, j)
    BY <1>2, <2>1, <2>2, SizeGrows
  <2>4. count = Size(b, i, j - 1)
    BY <2>1 DEF Sized
  <2>5. j' - 1 = j /\ count' = Size(b, i, j) /\ (Size(b, i, j) <= target \/ j' = i + 1)
    BY <1>2, <2>1, <2>3, <2>4
  <2>6. QED
    BY <1>1, <1>3, <2>1, <2>5 DEF Sized
<1>6. CASE Emit
  <2>1. pc = "grow" /\ i' = i /\ j' = j /\ (pc' = "back" => b' = b) /\ pc' \in {"block", "back"}
    BY <1>6 DEF Emit
  <2>2. QED
    BY <1>1, <1>3, <2>1 DEF Sized
<1>7. CASE StepBack
  <2>1. pc = "back" /\ pc' = "back" /\ b' = b /\ i' = i /\ j' = j
    BY <1>7 DEF StepBack, windowVars
  <2>2. QED
    BY <1>1, <1>3, <2>1 DEF Sized
<1>8. CASE Advance
  <2>1. pc = "back" /\ pc' = "grow" /\ b' = b /\ i' = k /\ j' = k /\ count' = 0
    BY <1>8 DEF Advance, InBounds, TypeOK, Larger
  <2>2. k \in DOMAIN Words(b) /\ k \in k .. Len(Words(b))
    BY <1>2, <2>1 DEF InBounds, TypeOK
  <2>3. Size(b, k, k - 1) = 0
    BY <1>2, <2>1, <2>2, SizeGrows
  <2>4. QED
    BY <1>1, <1>2, <1>3, <2>1, <2>3 DEF Sized
<1>9. CASE Finish
  BY <1>3, <1>9 DEF Finish, Sized
<1>10. CASE UNCHANGED vars
  BY <1>1, <1>3, <1>10 DEF vars, windowVars, Sized
<1>11. QED
  BY <1>4, <1>5, <1>6, <1>7, <1>8, <1>9, <1>10 DEF Next

\* A window that closes ends no sooner than any before it.
LEMMA EndsBehind ==
    ASSUME TypeOK, InBounds, Sized, Moving, Emit,
           NEW c \in DOMAIN chunks, chunks[c].block = b
    PROVE  chunks[c].first < i /\ chunks[c].last <= j - 1
<1>1. pc = "grow" /\ ~Fits /\ count = Size(b, i, j - 1)
  BY DEF Emit, Sized
<1>2. /\ i < j /\ b \in DOMAIN blocks /\ i \in DOMAIN Words(b)
      /\ i \in Nat /\ j \in Nat /\ count \in Nat /\ target \in Nat
      /\ Len(Words(b)) \in Nat /\ DOMAIN Words(b) = 1 .. Len(Words(b))
  BY <1>1, EmitLocals DEF InBounds, TypeOK
<1> DEFINE last == chunks[c].last
<1>3. /\ chunks[c].first <= i /\ chunks[c].first # i /\ last <= Len(Words(b))
      /\ last <= j - 1 \/ Size(b, i, last) <= target
  BY <1>1 DEF Moving
<1>4. chunks[c].first \in Nat /\ last \in Nat
  BY ChunkNumbers
<1> HIDE DEF last
<1>5. ASSUME last > j - 1 PROVE FALSE
  <2>1. j <= last /\ j <= Len(Words(b)) /\ Size(b, i, last) <= target
    BY <1>2, <1>3, <1>4, <1>5
  <2>2. j \in i .. Len(Words(b)) /\ last \in i .. Len(Words(b)) /\ j \in i .. last
    BY <1>2, <1>3, <1>4, <2>1
  <2>3. /\ Size(b, i, j) = Size(b, i, j - 1) + Tokens(b, j)
        /\ Size(b, i, j) <= Size(b, i, last)
        /\ Size(b, i, j) \in Nat /\ Size(b, i, last) \in Nat
    BY <1>2, <2>2, SizeGrows, SizeShrinks
  <2>4. ~(count + Tokens(b, j) <= target)
    BY <1>1, <1>2, <2>1 DEF Fits
  <2>5. QED
    BY <1>1, <1>2, <2>1, <2>3, <2>4
<1>6. QED
  BY <1>2, <1>3, <1>4, <1>5 DEF last

LEMMA MovingStep ==
    TypeOK /\ InBounds /\ Numbered /\ Sized /\ Moving /\ [Next]_vars => Moving'
<1> SUFFICES ASSUME TypeOK, InBounds, Numbered, Sized, Moving, [Next]_vars PROVE Moving'
  OBVIOUS
<1>1. /\ target' = target /\ blocks' = blocks /\ \A n : Words(n)' = Words(n)
      /\ \A n, from, upto : Size(n, from, upto)' = Size(n, from, upto)
  BY InputStays, SizeStays
<1>2. /\ target \in Nat /\ b \in Nat /\ i \in Nat /\ j \in Nat
      /\ pc \in {"grow", "back"} =>
            /\ b \in DOMAIN blocks /\ i \in DOMAIN Words(b) /\ i <= j
            /\ Len(Words(b)) \in Nat /\ DOMAIN Words(b) = 1 .. Len(Words(b))
  BY WordsType DEF TypeOK, InBounds
<1>3. \A c \in DOMAIN chunks :
          /\ chunks[c].block \in Nat /\ chunks[c].first \in Nat /\ chunks[c].last \in Nat
          /\ chunks[c].block <= b
  BY ChunkNumbers DEF Numbered
<1>4. CASE Emit
  <2>1. /\ DOMAIN chunks' = DOMAIN chunks \cup {Len(chunks) + 1}
        /\ \A c \in DOMAIN chunks : chunks'[c] = chunks[c]
        /\ chunks'[Len(chunks) + 1] = Window
        /\ DOMAIN chunks = 1 .. Len(chunks) /\ Len(chunks) \in Nat
    BY <1>4, EmitType DEF TypeOK
  <2>2. Window.block = b /\ Window.first = i /\ Window.last = j - 1
    BY DEF Window
  <2>3. i < j /\ j <= Len(Words(b)) + 1 /\ i' = i /\ j' = j
    BY <1>4, EmitLocals DEF Emit
  <2>4. \/ b' = b + 1 /\ pc' = "block"
        \/ b' = b /\ pc' = "back"
    BY <1>4, EmitLocals
  <2>5. \A c \in DOMAIN chunks : chunks[c].block = b => chunks[c].first < i /\ chunks[c].last <= j - 1
    BY <1>4, EndsBehind
  <2>6. WindowsMoveOn'
    <3>1. SUFFICES ASSUME NEW c \in DOMAIN chunks', NEW d \in DOMAIN chunks', c < d,
                          chunks'[c].block = chunks'[d].block
                   PROVE  chunks'[c].first < chunks'[d].first /\ chunks'[c].last <= chunks'[d].last
      BY DEF WindowsMoveOn
    <3>2. c \in DOMAIN chunks
      BY <2>1, <3>1
    <3>3. CASE d \in DOMAIN chunks
      BY <2>1, <3>1, <3>2, <3>3 DEF Moving, WindowsMoveOn
    <3>4. CASE d = Len(chunks) + 1
      BY <2>1, <2>2, <2>5, <3>1, <3>2, <3>4
    <3>5. QED
      BY <2>1, <3>3, <3>4
  <2>7. pc' = "block" => \A c \in DOMAIN chunks' : chunks'[c].block < b'
    BY <1>2, <1>3, <2>1, <2>2, <2>4
  <2>8. ASSUME pc' = "back", NEW c \in DOMAIN chunks', chunks'[c].block = b
        PROVE  chunks'[c].first <= i /\ chunks'[c].last <= Len(Words(b)) /\ chunks'[c].last <= j - 1
    <3>1. pc = "grow"
      BY <1>4 DEF Emit
    <3>2. CASE c \in DOMAIN chunks
      <4>1. chunks[c].first < i /\ chunks[c].last <= j - 1 /\ chunks'[c] = chunks[c]
        BY <2>1, <2>5, <2>8, <3>2
      <4>2. chunks[c].first \in Nat /\ chunks[c].last \in Nat /\ Len(Words(b)) \in Nat
        BY <1>2, <1>3, <3>1, <3>2
      <4>3. QED
        BY <1>2, <2>3, <4>1, <4>2
    <3>3. CASE c = Len(chunks) + 1
      BY <1>2, <2>1, <2>2, <2>3, <3>1, <3>3
    <3>4. QED
      BY <2>1, <3>2, <3>3
  <2>9. QED
    BY <1>1, <2>3, <2>4, <2>6, <2>7, <2>8 DEF Moving
<1>5. CASE ~Emit
  <2>1. chunks' = chunks
    BY <1>5 DEF Next, EnterBlock, Finish, Grow, StepBack, Advance, vars
  <2>2. WindowsMoveOn'
    BY <2>1 DEF Moving, WindowsMoveOn
  <2>3. CASE EnterBlock
    <3>1. pc = "block" /\ \A c \in DOMAIN chunks : chunks[c].block < b
      BY <2>3 DEF EnterBlock, Moving
    <3>2. b' \in {b, b + 1} /\ pc' \in {"block", "grow"} /\ (pc' = "grow" => b' = b)
      BY <2>3 DEF EnterBlock
    <3>3. \A c \in DOMAIN chunks : chunks[c].block < b' /\ (pc' = "grow" => chunks[c].block # b')
      BY <1>2, <1>3, <3>1, <3>2
    <3>4. QED
      BY <2>1, <2>2, <3>2, <3>3 DEF Moving
  <2>4. CASE Grow
    <3>1. pc = "grow" /\ pc' = "grow" /\ b' = b /\ i' = i /\ j' = j + 1
      BY <2>4 DEF Grow
    <3>2. \A c \in DOMAIN chunks : chunks[c].last <= j - 1 => chunks[c].last <= j' - 1
      BY <1>2, <1>3, <3>1
    <3>3. QED
      BY <1>1, <2>1, <2>2, <3>1, <3>2 DEF Moving
  <2>5. CASE StepBack
    <3>1. pc = "back" /\ pc' = "back" /\ b' = b /\ i' = i /\ j' = j
      BY <2>5 DEF StepBack, windowVars
    <3>2. QED
      BY <1>1, <2>1, <2>2, <3>1 DEF Moving
  <2>6. CASE Advance
    <3>1. pc = "back" /\ pc' = "grow" /\ b' = b /\ i' = k /\ j' = k
      BY <2>6 DEF Advance, InBounds, TypeOK, Larger
    <3>2. /\ b \in DOMAIN blocks /\ i \in DOMAIN Words(b) /\ k \in Nat
          /\ i < j /\ j <= Len(Words(b)) /\ i + 1 <= k /\ k <= j
      BY <3>1 DEF InBounds, TypeOK
    <3>3. ASSUME NEW c \in DOMAIN chunks, chunks[c].block = b
          PROVE  /\ chunks[c].first <= k /\ chunks[c].first # k
                 /\ chunks[c].last <= Len(Words(b))
                 /\ chunks[c].last <= k - 1 \/ Size(b, k, chunks[c].last) <= target
      <4>1. chunks[c].first <= i /\ chunks[c].last <= Len(Words(b)) /\ chunks[c].last <= j - 1
        BY <3>1, <3>3 DEF Moving
      <4>2. chunks[c].first \in Nat /\ chunks[c].last \in Nat
        BY <1>3
      <4>3. ASSUME ~(chunks[c].last <= k - 1) PROVE Size(b, k, chunks[c].last) <= target
        <5>1. j # i + 1 /\ Size(b, i, j - 1) <= target
          BY <1>2, <3>1, <3>2, <4>1, <4>2, <4>3 DEF Sized
        <5>2. /\ j - 1 \in i .. Len(Words(b)) /\ k \in i .. j - 1 /\ chunks[c].last \in i .. j - 1
              /\ k \in DOMAIN Words(b) /\ j - 1 \in k .. Len(Words(b))
              /\ chunks[c].last \in k .. Len(Words(b)) /\ chunks[c].last \in k .. j - 1
              /\ k \in k .. j - 1
          BY <1>2, <3>1, <3>2, <4>1, <4>2, <4>3
        <5>3. Size(b, k, j - 1) <= Size(b, i, j - 1) /\ Size(b, i, j - 1) \in Nat
          BY <3>2, <5>2, SizeShrinks, SizeGrows
        <5>4. /\ Size(b, k, chunks[c].last) <= Size(b, k, j - 1)
              /\ Size(b, k, chunks[c].last) \in Nat /\ Size(b, k, j - 1) \in Nat
          BY <3>2, <5>2, SizeShrinks, SizeGrows
        <5>5. QED
          BY <1>2, <5>1, <5>3, <5>4
      <4>4. QED
        BY <1>2, <3>2, <4>1, <4>2, <4>3
    <3>4. QED
      BY <1>1, <2>1, <2>2, <3>1, <3>3 DEF Moving
  <2>7. CASE Finish
    BY <2>1, <2>2, <2>7 DEF Finish, Moving
  <2>8. CASE UNCHANGED vars
    BY <1>1, <2>1, <2>2, <2>8 DEF vars, windowVars, Moving
  <2>9. QED
    BY <1>5, <2>3, <2>4, <2>5, <2>6, <2>7, <2>8 DEF Next
<1>6. QED
  BY <1>4, <1>5

-----------------------------------------------------------------------------
LEMMA ChunkInvInit == Init => ChunkInv
<1>1. SUFFICES ASSUME Init PROVE ChunkInv
  OBVIOUS
<1>2. TypeOK
  BY <1>1, TypeInit
<1>3. b = 1 /\ pc = "block" /\ chunks = <<>>
  BY <1>1 DEF Init, Start
<1>4. ~\E n \in DOMAIN blocks : n < b
  BY <1>2, <1>3 DEF TypeOK
<1>5. InBounds /\ Numbered
  BY <1>3 DEF InBounds, Numbered, ChunksInOrder
<1>6. Chunked /\ NeighboursSoFar
  BY <1>3, <1>4 DEF Chunked, NeighboursSoFar
<1>7. Sized /\ Moving
  BY <1>3 DEF Sized, Moving, ChunksFitTarget, WindowsMoveOn
<1>8. QED
  BY <1>2, <1>5, <1>6, <1>7 DEF ChunkInv

LEMMA ChunkInvStep == ChunkInv /\ [Next]_vars => ChunkInv'
BY TypeStep, BoundsStep, NumberedStep, ChunkedStep, NeighboursStep, SizedStep, MovingStep
DEF ChunkInv

LEMMA ChunkInvAlways == Spec => []ChunkInv
BY ChunkInvInit, ChunkInvStep, PTL DEF Spec

\* The locals stay what their types say: no window begins past the end of its
\* block, and no word is read that is not there.
THEOREM ChunkTypeCorrect == Spec => []TypeOK
<1>1. ChunkInv => TypeOK
  BY DEF ChunkInv
<1>2. QED
  BY <1>1, ChunkInvAlways, PTL

\* Once every block is done, every word is in a chunk.
LEMMA DoneAllBlocks == ChunkInv /\ pc = "done" => \A n \in DOMAIN blocks : n < b
<1>1. ASSUME ChunkInv, pc = "done", NEW n \in DOMAIN blocks PROVE n < b
  <2>1. b > Len(blocks) /\ b \in Nat
    BY <1>1 DEF ChunkInv, InBounds, TypeOK
  <2>2. n \in 1 .. Len(blocks) /\ Len(blocks) \in Nat
    BY <1>1 DEF ChunkInv, TypeOK
  <2>3. QED
    BY <2>1, <2>2
<1>2. QED
  BY <1>1

\* Windows cover the words: whatever the overlap and the token counts, chunk
\* returns with every word of every block in some chunk.
THEOREM EveryWord == Spec => []EveryWordChunked
<1>1. ChunkInv => EveryWordChunked
  BY DoneAllBlocks DEF ChunkInv, Chunked, EveryWordChunked
<1>2. QED
  BY <1>1, ChunkInvAlways, PTL

\* The overlap does what it is for: with one, two neighbouring words that fit
\* the target together are together in some chunk.
THEOREM Neighbours == Spec => []NeighboursTogether
<1>1. ChunkInv => NeighboursTogether
  BY DoneAllBlocks DEF ChunkInv, NeighboursSoFar, NeighboursTogether, Together
<1>2. QED
  BY <1>1, ChunkInvAlways, PTL

\* chunk_ord numbers the chunks of a file without a gap, block after block.
THEOREM InOrder == Spec => []ChunksInOrder
<1>1. ChunkInv => ChunksInOrder
  BY DEF ChunkInv, Numbered
<1>2. QED
  BY <1>1, ChunkInvAlways, PTL

\* Each window begins after the one before it and ends no earlier, whatever the
\* sizes of the words that the overlap steps back over.
THEOREM MovesOn == Spec => []WindowsMoveOn
<1>1. ChunkInv => WindowsMoveOn
  BY DEF ChunkInv, Moving
<1>2. QED
  BY <1>1, ChunkInvAlways, PTL

\* A chunk is within the target, or one word that is not.
THEOREM FitsTarget == Spec => []ChunksFitTarget
<1>1. ChunkInv => ChunksFitTarget
  BY DEF ChunkInv, Sized
<1>2. QED
  BY <1>1, ChunkInvAlways, PTL

-----------------------------------------------------------------------------
(***************************************************************************)
(* Words of a text.                                                        *)
(***************************************************************************)
LEMMA LeastIs ==
    ASSUME NEW T, T \subseteq Nat, T # {}
    PROVE  Least(T) \in T /\ \A n \in T : Least(T) <= n
  BY LeastNumber DEF Least

LEMMA InkIs ==
    ASSUME NEW text \in Seq(Bytes)
    PROVE  /\ Len(text) \in Nat /\ Ink(text) \subseteq 0 .. Len(text) - 1 /\ Ink(text) \subseteq Nat
           /\ \A p \in 0 .. Len(text) - 1 : p \in Ink(text) <=> text[p + 1] \notin {"n", "s"}
<1>1. Len(text) \in Nat
  OBVIOUS
<1>2. QED
  BY <1>1 DEF Ink, IsWhite

\* The word that ends at q.
WordTo(text, q) ==
    LET start == Least({p \in 0 .. q - 1 : p .. q - 1 \subseteq Ink(text)})
    IN  [from |-> start, upto |-> q, tokens |-> q - start]

Spanned(f, text, n) ==
    f = [q \in 0 .. n |->
            IF q = 0 THEN <<>>
            ELSE IF q - 1 \in Ink(text) /\ q \notin Ink(text) THEN Append(f[q - 1], WordTo(text, q))
            ELSE f[q - 1]]

LEMMA SpansExist ==
    ASSUME NEW text, NEW n \in Nat
    PROVE  \E f : Spanned(f, text, n)
<1> DEFINE H == {m \in Nat : \E f : Spanned(f, text, m)}
           Turn(f, q) == IF q = 0 THEN <<>>
                         ELSE IF q - 1 \in Ink(text) /\ q \notin Ink(text)
                              THEN Append(f[q - 1], WordTo(text, q))
                         ELSE f[q - 1]
<1>1. 0 \in H
  <2>1. Spanned([q \in 0 .. 0 |-> <<>>], text, 0)
    BY DEF Spanned
  <2>2. QED
    BY <2>1
<1>2. ASSUME NEW m \in Nat, m \in H PROVE m + 1 \in H
  <2>1. PICK f : Spanned(f, text, m)
    BY <1>2
  <2> DEFINE l == m + 1
             g == [q \in 0 .. l |-> IF q = l THEN Turn(f, l) ELSE f[q]]
  <2>2. ASSUME NEW q \in 0 .. l PROVE g[q] = Turn(g, q)
    <3>1. q # 0 => q - 1 \in 0 .. m /\ q - 1 \in 0 .. l /\ q - 1 # l
      OBVIOUS
    <3>2. q # 0 => g[q - 1] = f[q - 1]
      BY <3>1
    <3> HIDE DEF g
    <3>3. Turn(g, q) = Turn(f, q)
      BY <3>2
    <3>4. g[q] = IF q = l THEN Turn(f, l) ELSE f[q]
      BY DEF g
    <3>5. q # l => f[q] = Turn(f, q)
      <4>1. q # l => q \in 0 .. m
        OBVIOUS
      <4>2. f = [r \in 0 .. m |-> Turn(f, r)]
        BY <2>1 DEF Spanned
      <4> HIDE DEF Turn
      <4>3. QED
        BY <4>1, <4>2
    <3> HIDE DEF Turn
    <3>6. QED
      BY <3>3, <3>4, <3>5
  <2>3. g = [q \in 0 .. l |-> g[q]]
    OBVIOUS
  <2> HIDE DEF g
  <2>4. Spanned(g, text, l)
    BY <2>2, <2>3 DEF Spanned
  <2>5. QED
    BY <2>4
<1>3. QED
  <2> HIDE DEF H
  <2>1. n \in H
    BY <1>1, <1>2, Induction
  <2>2. QED
    BY <2>1 DEF H

LEMMA WordTypes ==
    ASSUME NEW ws \in Seq(Word)
    PROVE  /\ Len(ws) \in Nat
           /\ \A w \in 1 .. Len(ws) : ws[w].from \in Nat /\ ws[w].upto \in Nat
<1>1. ASSUME NEW w \in 1 .. Len(ws) PROVE ws[w].from \in Nat /\ ws[w].upto \in Nat
  <2>1. ws[w] \in Word
    OBVIOUS
  <2>2. QED
    BY <2>1 DEF Word
<1>2. QED
  BY <1>1

InWord(w, p) == w.from <= p /\ p < w.upto

\* The words that end by q: in order, within the text, and all ink before q is
\* in them or in the run that goes on at q.
Found(ws, ink, q) ==
    /\ ws \in Seq(Word)
    /\ \A w \in 1 .. Len(ws) :
          ws[w].from < ws[w].upto /\ ws[w].upto <= q /\ ws[w].upto \notin ink
    /\ \A w, v \in 1 .. Len(ws) :
          w <= v => ws[w].from <= ws[v].from /\ ws[w].upto <= ws[v].upto
    /\ \A p \in ink : p < q => (\E w \in 1 .. Len(ws) : InWord(ws[w], p)) \/ p .. q \subseteq ink

\* A word more, that begins where its run does.
LEMMA FindsWord ==
    ASSUME NEW ink, ink \subseteq Nat, NEW q \in Nat, NEW ws, Found(ws, ink, q),
           NEW word \in Word, word.upto = q + 1, word.from <= q,
           word.from .. q \subseteq ink, q + 1 \notin ink,
           \A p \in Nat : p <= q /\ p .. q \subseteq ink => word.from <= p
    PROVE  Found(Append(ws, word), ink, q + 1)
<1> DEFINE n == Len(ws)
           vs == Append(ws, word)
<1>1. /\ ws \in Seq(Word) /\ n \in Nat
      /\ \A w \in 1 .. n : ws[w].from < ws[w].upto /\ ws[w].upto <= q /\ ws[w].upto \notin ink
      /\ \A w, v \in 1 .. n : w <= v => ws[w].from <= ws[v].from /\ ws[w].upto <= ws[v].upto
      /\ \A p \in ink : p < q => (\E w \in 1 .. n : InWord(ws[w], p)) \/ p .. q \subseteq ink
  BY DEF Found
<1>2. /\ vs \in Seq(Word) /\ Len(vs) = n + 1 /\ vs[n + 1] = word
      /\ \A w \in 1 .. n : vs[w] = ws[w]
  BY <1>1
<1>3. \A w \in 1 .. n : ws[w].from \in Nat /\ ws[w].upto \in Nat
  BY <1>1, WordTypes
<1>4. word.from \in Nat /\ word.upto = q + 1
  BY DEF Word
<1>5. \A w \in 1 .. n : ws[w].upto <= word.from
  <2>1. SUFFICES ASSUME NEW w \in 1 .. n, word.from < ws[w].upto PROVE FALSE
    BY <1>3, <1>4
  <2>2. ws[w].upto \in word.from .. q
    <3>1. ws[w].upto \in Nat /\ ws[w].upto <= q
      BY <1>1, <1>3
    <3>2. QED
      BY <1>4, <2>1, <3>1
  <2>3. QED
    BY <1>1, <2>2
<1> HIDE DEF n, vs
<1>6. ASSUME NEW w \in 1 .. n + 1
      PROVE  vs[w].from < vs[w].upto /\ vs[w].upto <= q + 1 /\ vs[w].upto \notin ink
  <2>1. CASE w = n + 1
    BY <1>2, <1>4, <2>1
  <2>2. CASE w # n + 1
    <3>1. w \in 1 .. n
      BY <1>1, <2>2
    <3>2. /\ vs[w] = ws[w] /\ ws[w].upto \in Nat
          /\ ws[w].from < ws[w].upto /\ ws[w].upto <= q /\ ws[w].upto \notin ink
      BY <1>1, <1>2, <1>3, <3>1
    <3>3. QED
      BY <3>2
  <2>3. QED
    BY <2>1, <2>2
<1>7. ASSUME NEW w \in 1 .. n + 1, NEW v \in 1 .. n + 1, w <= v
      PROVE  vs[w].from <= vs[v].from /\ vs[w].upto <= vs[v].upto
  <2>1. CASE v = n + 1 /\ w # n + 1
    <3>1. w \in 1 .. n
      BY <1>1, <2>1
    <3>2. /\ vs[w] = ws[w] /\ vs[v] = word /\ ws[w].from \in Nat /\ ws[w].upto \in Nat
          /\ ws[w].from < ws[w].upto /\ ws[w].upto <= q /\ ws[w].upto <= word.from
      BY <1>1, <1>2, <1>3, <1>5, <2>1, <3>1
    <3>3. QED
      BY <1>4, <3>2
  <2>2. CASE w = n + 1
    <3>1. v = n + 1
      BY <1>1, <1>7, <2>2
    <3>2. QED
      BY <1>2, <1>4, <2>2, <3>1
  <2>3. CASE v # n + 1
    <3>1. w \in 1 .. n /\ v \in 1 .. n
      BY <1>1, <1>7, <2>3
    <3>2. QED
      BY <1>1, <1>2, <1>7, <3>1
  <2>4. QED
    BY <2>1, <2>2, <2>3
<1>8. ASSUME NEW p \in ink, p < q + 1 PROVE \E w \in 1 .. n + 1 : InWord(vs[w], p)
  <2>1. p \in Nat
    OBVIOUS
  <2>2. CASE \E w \in 1 .. n : InWord(ws[w], p)
    <3>1. PICK w \in 1 .. n : InWord(ws[w], p)
      BY <2>2
    <3>2. w \in 1 .. n + 1 /\ vs[w] = ws[w]
      BY <1>1, <1>2
    <3>3. QED
      BY <3>1, <3>2
  <2>3. CASE p .. q \subseteq ink
    <3>1. word.from <= p
      BY <1>8, <2>1, <2>3
    <3>2. InWord(vs[n + 1], p) /\ n + 1 \in 1 .. n + 1
      BY <1>1, <1>2, <1>4, <1>8, <2>1, <3>1 DEF InWord
    <3>3. QED
      BY <3>2
  <2>4. p < q \/ p .. q \subseteq ink
    BY <1>8, <2>1
  <2>5. QED
    BY <1>1, <2>2, <2>3, <2>4
<1>9. QED
  BY <1>2, <1>6, <1>7, <1>8 DEF Found, vs

LEMMA FindsNone ==
    ASSUME NEW ink, ink \subseteq Nat, NEW q \in Nat, NEW ws, Found(ws, ink, q),
           ~(q \in ink /\ q + 1 \notin ink)
    PROVE  Found(ws, ink, q + 1)
<1>1. /\ ws \in Seq(Word)
      /\ \A w \in 1 .. Len(ws) : ws[w].from < ws[w].upto /\ ws[w].upto <= q /\ ws[w].upto \notin ink
      /\ \A p \in ink : p < q => (\E w \in 1 .. Len(ws) : InWord(ws[w], p)) \/ p .. q \subseteq ink
  BY DEF Found
<1>2. \A w \in 1 .. Len(ws) : ws[w].upto \in Nat
  BY <1>1, WordTypes
<1>3. ASSUME NEW p \in ink, p < q + 1
      PROVE  (\E w \in 1 .. Len(ws) : InWord(ws[w], p)) \/ p .. q + 1 \subseteq ink
  <2>1. p \in Nat
    OBVIOUS
  <2>2. (\E w \in 1 .. Len(ws) : InWord(ws[w], p)) \/ p .. q \subseteq ink
    <3>1. CASE p < q
      BY <1>1, <3>1
    <3>2. CASE p = q
      BY <3>2
    <3>3. QED
      BY <1>3, <2>1, <3>1, <3>2
  <2>3. CASE p .. q \subseteq ink
    <3>1. q \in p .. q
      BY <1>3, <2>1
    <3>2. q + 1 \in ink
      BY <2>3, <3>1
    <3>3. p .. q + 1 \subseteq (p .. q) \cup {q + 1}
      BY <2>1
    <3>4. QED
      BY <2>3, <3>2, <3>3
  <2>4. QED
    BY <2>2, <2>3
<1>4. \A w \in 1 .. Len(ws) : ws[w].upto <= q + 1
  BY <1>1, <1>2
<1>5. QED
  BY <1>1, <1>3, <1>4 DEF Found

\* WordSpans finds all words there are.
LEMMA WordsFound ==
    ASSUME NEW text \in Seq(Bytes)
    PROVE  Found(WordSpans(text), Ink(text), Len(text))
<1> DEFINE ink == Ink(text)
           n == Len(text)
           J(f) == f = [q \in 0 .. n |->
                      IF q = 0 THEN <<>>
                      ELSE IF q - 1 \in ink /\ q \notin ink THEN Append(f[q - 1], WordTo(text, q))
                      ELSE f[q - 1]]
           f == CHOOSE f : J(f)
<1>1. ink \subseteq Nat /\ n \in Nat
  BY InkIs
<1>2. WordSpans(text) = f[n]
  BY DEF WordSpans, WordTo
<1>3. \E g : J(g)
  BY <1>1, SpansExist DEF Spanned
<1>4. J(f)
  BY <1>3
<1> HIDE DEF f
<1> DEFINE H == {q \in Nat : q <= n => Found(f[q], ink, q)}
<1>5. 0 \in H
  <2>1. f[0] = <<>>
    BY <1>1, <1>4
  <2>2. Found(<<>>, ink, 0)
    BY <1>1 DEF Found
  <2>3. QED
    BY <2>1, <2>2
<1>6. ASSUME NEW q \in Nat, q \in H PROVE q + 1 \in H
  <2>1. SUFFICES ASSUME q + 1 <= n PROVE Found(f[q + 1], ink, q + 1)
    OBVIOUS
  <2>2. Found(f[q], ink, q)
    BY <1>1, <1>6, <2>1
  <2> DEFINE r == q + 1
  <2>3. r \in 0 .. n /\ r # 0 /\ r - 1 = q
    BY <1>1, <2>1
  <2>4. f[r] = IF q \in ink /\ r \notin ink THEN Append(f[q], WordTo(text, r)) ELSE f[q]
    <3> HIDE DEF r
    <3>1. QED
      BY <1>4, <2>3
  <2>5. CASE q \in ink /\ r \notin ink
    <3> DEFINE T == {p \in 0 .. r - 1 : p .. r - 1 \subseteq ink}
               word == WordTo(text, r)
    <3>1. q \in T /\ T \subseteq Nat
      BY <2>5
    <3>2. Least(T) \in T /\ \A p \in T : Least(T) <= p
      BY <3>1, LeastIs
    <3>3. word = [from |-> Least(T), upto |-> r, tokens |-> r - Least(T)]
      BY DEF WordTo
    <3> HIDE DEF word
    <3>4. Least(T) \in 0 .. q /\ Least(T) .. q \subseteq ink
      BY <3>2
    <3>5. \A p \in Nat : p <= q /\ p .. q \subseteq ink => Least(T) <= p
      BY <3>2
    <3> HIDE DEF T
    <3>6. word \in Word /\ word.upto = q + 1 /\ word.from = Least(T) /\ Least(T) <= q
      BY <3>3, <3>4 DEF Word
    <3>7. Found(Append(f[q], word), ink, q + 1)
      <4> HIDE DEF ink
      <4>1. QED
        BY <1>1, <2>2, <2>5, <3>4, <3>5, <3>6, FindsWord
    <3>8. QED
      BY <2>4, <2>5, <3>7 DEF word
  <2>6. CASE ~(q \in ink /\ r \notin ink)
    <3>1. Found(f[q], ink, q + 1)
      <4> HIDE DEF ink
      <4>1. QED
        BY <1>1, <2>2, <2>6, FindsNone
    <3>2. QED
      BY <2>4, <2>6, <3>1
  <2>7. QED
    BY <2>5, <2>6
<1>7. n \in H
  <2> HIDE DEF H
  <2>1. QED
    BY <1>1, <1>5, <1>6, Induction
<1>8. QED
  BY <1>1, <1>2, <1>7

-----------------------------------------------------------------------------
(***************************************************************************)
(* Paragraphs of a text.                                                   *)
(***************************************************************************)
LEMMA GreatestIs ==
    ASSUME NEW n \in Nat, NEW T, T \subseteq 0 .. n, T # {}
    PROVE  Greatest(T) \in T /\ \A q \in T : q <= Greatest(T)
<1> DEFINE R == {n - t : t \in T}
<1>1. R \subseteq Nat /\ R # {}
  <2>1. PICK e : e \in T
    OBVIOUS
  <2>2. n - e \in R
    BY <2>1
  <2>3. ASSUME NEW t \in T PROVE n - t \in Nat
    OBVIOUS
  <2>4. QED
    BY <2>2, <2>3
<1>2. PICK m \in R : \A r \in R : m <= r
  BY <1>1, LeastNumber
<1>3. PICK t \in T : m = n - t
  BY <1>2
<1>4. \A q \in T : q <= t
  BY <1>2, <1>3, SMTT(30)
<1>5. QED
  BY <1>4 DEF Greatest

LEMMA SliceIs ==
    ASSUME NEW S, NEW text \in Seq(S), NEW a \in Nat, NEW c \in Nat, a <= c, c <= Len(text)
    PROVE  /\ Slice(text, a, c) \in Seq(S) /\ Len(Slice(text, a, c)) = c - a
           /\ \A u \in 1 .. c - a : Slice(text, a, c)[u] = text[a + u]
<1> DEFINE m == a + 1
           part == SubSeq(text, m, c)
<1>1. m \in Int /\ c \in Int /\ \A u \in m .. c : text[u] \in S
  OBVIOUS
<1>2. (IF m <= c THEN c - m + 1 ELSE 0) = c - a /\ c - m + 1 = c - a /\ \A u \in Int : m + u - 1 = a + u
  OBVIOUS
<1>3. Slice(text, a, c) = part
  BY DEF Slice
<1> HIDE DEF m
<1>4. /\ part \in Seq(S)
      /\ Len(part) = IF m <= c THEN c - m + 1 ELSE 0
      /\ \A u \in 1 .. c - m + 1 : part[u] = text[m + u - 1]
  BY <1>1, SubSeqProperties
<1> HIDE DEF part
<1>5. ASSUME NEW u \in 1 .. c - a PROVE part[u] = text[a + u]
  <2>1. u \in 1 .. c - m + 1
    BY <1>2
  <2>2. part[u] = text[m + u - 1]
    BY <1>4, <2>1
  <2>3. QED
    BY <1>2, <2>2
<1>6. Len(part) = c - a
  BY <1>2, <1>4
<1>7. QED
  BY <1>3, <1>4, <1>5, <1>6

LEMMA SliceOfSlice ==
    ASSUME NEW S, NEW text \in Seq(S), NEW a \in Nat, NEW c \in Nat, a <= c, c <= Len(text),
           NEW x \in Nat, NEW y \in Nat, x <= y, y <= c - a
    PROVE  Slice(Slice(text, a, c), x, y) = Slice(text, a + x, a + y)
<1> DEFINE part == Slice(text, a, c)
           d == a + x
           e == a + y
<1>1. Len(text) \in Nat
  OBVIOUS
<1>2. /\ part \in Seq(S) /\ Len(part) = c - a
      /\ \A u \in 1 .. c - a : part[u] = text[a + u]
  BY SliceIs
<1>3. d \in Nat /\ e \in Nat /\ d <= e /\ e <= Len(text) /\ e - d = y - x
  BY <1>1
<1> HIDE DEF part, d, e
<1>4. /\ Slice(part, x, y) \in Seq(S) /\ Len(Slice(part, x, y)) = y - x
      /\ \A u \in 1 .. y - x : Slice(part, x, y)[u] = part[x + u]
  <2>1. part \in Seq(S) /\ y <= Len(part)
    BY <1>2
  <2>2. QED
    BY <2>1, SliceIs
<1>5. /\ Slice(text, d, e) \in Seq(S) /\ Len(Slice(text, d, e)) = e - d
      /\ \A u \in 1 .. e - d : Slice(text, d, e)[u] = text[d + u]
  BY <1>3, SliceIs, ZenonT(60)
<1>6. ASSUME NEW u \in 1 .. y - x PROVE Slice(part, x, y)[u] = Slice(text, d, e)[u]
  <2>1. x + u \in 1 .. c - a /\ a + (x + u) = d + u
    BY DEF d
  <2>2. part[x + u] = text[a + (x + u)]
    BY <1>2, <2>1
  <2>3. QED
    BY <1>3, <1>4, <1>5, <2>1, <2>2
<1>7. Slice(part, x, y) = Slice(text, d, e)
  BY <1>3, <1>4, <1>5, <1>6, SeqEqual
<1>8. QED
  BY <1>7 DEF part, d, e

\* Where the text is split from s on.
Delimiters(text, s) == {d \in s .. Len(text) - 2 : text[d + 1] = "n" /\ text[d + 2] = "n"}

SplitAt(f, text, s) ==
    IF Delimiters(text, s) = {} THEN <<Slice(text, s, Len(text))>>
    ELSE <<Slice(text, s, Least(Delimiters(text, s)))>> \o f[Least(Delimiters(text, s)) + 2]

LEMMA LeastDelimiter ==
    ASSUME NEW text \in Seq(Bytes), NEW s \in Nat, Delimiters(text, s) # {}
    PROVE  LET d == Least(Delimiters(text, s))
           IN  d \in Nat /\ s <= d /\ d + 2 <= Len(text) /\ text[d + 1] = "n" /\ text[d + 2] = "n"
<1> DEFINE D == Delimiters(text, s)
<1>1. D \subseteq Nat
  BY DEF Delimiters
<1>2. Least(D) \in D
  BY <1>1, LeastIs
<1> DEFINE d == Least(D)
<1> HIDE DEF d
<1>3. d \in s .. Len(text) - 2 /\ text[d + 1] = "n" /\ text[d + 2] = "n"
  BY <1>2 DEF Delimiters, d
<1>4. Len(text) \in Nat
  OBVIOUS
<1>5. QED
  BY <1>3, <1>4 DEF d

LEMMA PartsExist ==
    ASSUME NEW text \in Seq(Bytes)
    PROVE  \A m \in Nat : m <= Len(text) =>
               \E f : f = [s \in Len(text) - m .. Len(text) |-> SplitAt(f, text, s)]
<1> DEFINE n == Len(text)
           Good(f, m) == f = [s \in n - m .. n |-> SplitAt(f, text, s)]
           H == {m \in Nat : m <= n => \E f : Good(f, m)}
<1>1. n \in Nat
  OBVIOUS
<1> HIDE DEF n
<1>2. 0 \in H
  <2> DEFINE f == [s \in n .. n |-> <<Slice(text, s, n)>>]
  <2>1. Delimiters(text, n) = {}
    BY <1>1 DEF Delimiters, n
  <2>2. ASSUME NEW s \in n .. n PROVE <<Slice(text, s, n)>> = SplitAt(f, text, s)
    <3>1. s = n
      BY <1>1
    <3>2. QED
      BY <2>1, <3>1 DEF SplitAt, n
  <2>3. f = [s \in n .. n |-> SplitAt(f, text, s)]
    BY <2>2
  <2> HIDE DEF f
  <2>4. n - 0 = n
    BY <1>1
  <2>5. QED
    BY <2>3, <2>4
<1>3. ASSUME NEW m \in Nat, m \in H PROVE m + 1 \in H
  <2>1. SUFFICES ASSUME m + 1 <= n PROVE \E f : Good(f, m + 1)
    OBVIOUS
  <2>2. PICK f : Good(f, m)
    BY <1>1, <1>3, <2>1
  <2> DEFINE l == n - (m + 1)
             g == [s \in l .. n |-> IF s = l THEN SplitAt(f, text, l) ELSE f[s]]
  <2>3. l \in Nat /\ n - m = l + 1
    BY <1>1, <2>1
  <2>4. ASSUME NEW s \in l .. n PROVE g[s] = SplitAt(g, text, s)
    <3>1. s \in Nat
      BY <2>3
    <3>2. SplitAt(g, text, s) = SplitAt(f, text, s)
      <4>1. CASE Delimiters(text, s) = {}
        BY <4>1 DEF SplitAt
      <4>2. CASE Delimiters(text, s) # {}
        <5> DEFINE e == Least(Delimiters(text, s)) + 2
        <5>1. e \in l .. n /\ e # l
          BY <1>1, <2>3, <3>1, <4>2, LeastDelimiter DEF n
        <5> HIDE DEF e
        <5>2. g[e] = f[e]
          BY <5>1
        <5>3. QED
          BY <4>2, <5>2 DEF SplitAt, e
      <4>3. QED
        BY <4>1, <4>2
    <3>3. CASE s = l
      BY <3>2, <3>3
    <3>4. CASE s # l
      <4>1. s \in n - m .. n
        BY <2>3, <3>1, <3>4
      <4>2. f[s] = SplitAt(f, text, s)
        BY <2>2, <4>1
      <4>3. QED
        BY <3>2, <3>4, <4>2
    <3>5. QED
      BY <3>3, <3>4
  <2>5. g = [s \in l .. n |-> g[s]]
    OBVIOUS
  <2> HIDE DEF g
  <2>6. g = [s \in l .. n |-> SplitAt(g, text, s)]
    BY <2>4, <2>5
  <2>7. QED
    BY <2>6
<1>4. \A m \in Nat : m \in H
  <2> HIDE DEF H
  <2>1. QED
    BY <1>2, <1>3, Induction
<1>5. QED
  BY <1>4 DEF n

\* The parts of the text from s on lie where o says, two bytes apart, and have
\* all its ink.
Laid(ps, o, text, s) ==
    /\ ps \in Seq(Seq(Bytes)) /\ Len(ps) \in Nat \ {0}
    /\ o \in [1 .. Len(ps) -> Nat] /\ o[1] = s
    /\ \A m \in 1 .. Len(ps) :
          o[m] + Len(ps[m]) <= Len(text) /\ ps[m] = Slice(text, o[m], o[m] + Len(ps[m]))
    /\ \A m \in 2 .. Len(ps) : o[m] = o[m - 1] + Len(ps[m - 1]) + 2
    /\ \A p \in Ink(text) : s <= p =>
          \E m \in 1 .. Len(ps) : o[m] <= p /\ p < o[m] + Len(ps[m])

LEMMA LaidLast ==
    ASSUME NEW text \in Seq(Bytes), NEW s \in 0 .. Len(text)
    PROVE  \E o : Laid(<<Slice(text, s, Len(text))>>, o, text, s)
<1> DEFINE n == Len(text)
           part == Slice(text, s, n)
           ps == <<part>>
           o == [m \in 1 .. 1 |-> s]
<1>1. n \in Nat /\ s \in Nat /\ s <= n /\ n <= Len(text)
  OBVIOUS
<1>2. part \in Seq(Bytes) /\ Len(part) = n - s
  <2> HIDE DEF n
  <2>1. QED
    BY <1>1, SliceIs
<1>3. part = Slice(text, s, s + Len(part)) /\ s + Len(part) = n
  BY <1>1, <1>2
<1>4. \A p \in Ink(text) : s <= p => s <= p /\ p < n
  BY InkIs
<1> HIDE DEF part
<1>5. ps \in Seq(Seq(Bytes)) /\ Len(ps) = 1 /\ ps[1] = part
  BY <1>2
<1> HIDE DEF ps
<1>6. o \in [1 .. 1 -> Nat] /\ o[1] = s /\ 2 .. 1 = {} /\ 1 .. 1 = {1}
  BY <1>1
<1> HIDE DEF o, n
<1>7. \A m \in 1 .. Len(ps) :
          o[m] + Len(ps[m]) <= n /\ ps[m] = Slice(text, o[m], o[m] + Len(ps[m]))
  BY <1>1, <1>3, <1>5, <1>6
<1>8. \A p \in Ink(text) : s <= p =>
          \E m \in 1 .. Len(ps) : o[m] <= p /\ p < o[m] + Len(ps[m])
  BY <1>3, <1>4, <1>5, <1>6
<1>9. \A m \in 2 .. Len(ps) : FALSE
  BY <1>5, <1>6
<1>10. Laid(ps, o, text, s)
  BY <1>5, <1>6, <1>7, <1>8, <1>9 DEF Laid, n
<1>11. QED
  BY <1>10 DEF ps, part, n

LEMMA LaidBefore ==
    ASSUME NEW text \in Seq(Bytes), NEW s \in Nat, NEW d \in Nat, s <= d, d + 2 <= Len(text),
           text[d + 1] = "n", text[d + 2] = "n", NEW qs, NEW q, Laid(qs, q, text, d + 2)
    PROVE  \E o : Laid(<<Slice(text, s, d)>> \o qs, o, text, s)
<1> DEFINE part == Slice(text, s, d)
           y == Len(qs)
           ps == <<part>> \o qs
           o == [m \in 1 .. y + 1 |-> IF m = 1 THEN s ELSE q[m - 1]]
<1>1. Len(text) \in Nat /\ d <= Len(text)
  OBVIOUS
<1>2. part \in Seq(Bytes) /\ Len(part) = d - s
  BY <1>1, SliceIs
<1>3. part = Slice(text, s, s + Len(part)) /\ s + Len(part) = d
  BY <1>2
<1> HIDE DEF part
<1>4. /\ qs \in Seq(Seq(Bytes)) /\ y \in Nat \ {0}
      /\ q \in [1 .. y -> Nat] /\ q[1] = d + 2
      /\ \A m \in 1 .. y :
            q[m] + Len(qs[m]) <= Len(text) /\ qs[m] = Slice(text, q[m], q[m] + Len(qs[m]))
      /\ \A m \in 2 .. y : q[m] = q[m - 1] + Len(qs[m - 1]) + 2
      /\ \A p \in Ink(text) : d + 2 <= p =>
            \E m \in 1 .. y : q[m] <= p /\ p < q[m] + Len(qs[m])
  BY DEF Laid
<1> HIDE DEF y
<1>5. /\ ps \in Seq(Seq(Bytes)) /\ Len(ps) = y + 1 /\ ps[1] = part
      /\ \A m \in 1 .. y : ps[m + 1] = qs[m]
  <2>1. <<part>> \in Seq(Seq(Bytes)) /\ Len(<<part>>) = 1 /\ <<part>>[1] = part
    BY <1>2
  <2>2. y = Len(qs)
    BY DEF y
  <2> HIDE DEF ps
  <2>3. /\ ps \in Seq(Seq(Bytes)) /\ Len(ps) = 1 + y
        /\ \A m \in 1 .. 1 + y : ps[m] = IF m <= 1 THEN <<part>>[m] ELSE qs[m - 1]
    BY <1>4, <2>1, <2>2, ConcatProperties DEF ps
  <2>4. ASSUME NEW m \in 1 .. y PROVE ps[m + 1] = qs[m]
    <3>1. m + 1 \in 1 .. 1 + y /\ ~(m + 1 <= 1) /\ (m + 1) - 1 = m
      BY <1>4
    <3>2. QED
      BY <2>3, <3>1
  <2>5. QED
    BY <1>4, <2>1, <2>3, <2>4
<1> HIDE DEF ps
<1>6. /\ o \in [1 .. y + 1 -> Nat] /\ o[1] = s
      /\ \A m \in 1 .. y : o[m + 1] = q[m]
  <2>1. \A m \in 1 .. y + 1 : m = 1 \/ m - 1 \in 1 .. y
    BY <1>4
  <2>2. \A m \in 1 .. y : m + 1 \in 1 .. y + 1 /\ m + 1 # 1 /\ (m + 1) - 1 = m
    BY <1>4
  <2>3. 1 \in 1 .. y + 1
    BY <1>4
  <2>4. QED
    BY <1>4, <2>1, <2>2, <2>3
<1> HIDE DEF o
<1>7. \A m \in 1 .. y + 1 : m = 1 \/ \E l \in 1 .. y : m = l + 1
  <2>1. ASSUME NEW m \in 1 .. y + 1, m # 1 PROVE \E l \in 1 .. y : m = l + 1
    <3>1. m - 1 \in 1 .. y /\ m = (m - 1) + 1
      BY <1>4, <2>1
    <3>2. QED
      BY <3>1
  <2>2. QED
    BY <2>1
<1>8. \A m \in 1 .. y + 1 :
          o[m] + Len(ps[m]) <= Len(text) /\ ps[m] = Slice(text, o[m], o[m] + Len(ps[m]))
  <2>1. ASSUME NEW m \in 1 .. y + 1
        PROVE  o[m] + Len(ps[m]) <= Len(text) /\ ps[m] = Slice(text, o[m], o[m] + Len(ps[m]))
    <3>1. CASE m = 1
      BY <1>1, <1>3, <1>5, <1>6, <3>1
    <3>2. CASE m # 1
      <4>1. PICK l \in 1 .. y : m = l + 1
        BY <1>7, <3>2
      <4>2. o[m] = q[l] /\ ps[m] = qs[l]
        BY <1>5, <1>6, <4>1
      <4>3. q[l] + Len(qs[l]) <= Len(text) /\ qs[l] = Slice(text, q[l], q[l] + Len(qs[l]))
        BY <1>4
      <4>4. QED
        BY <4>2, <4>3
    <3>3. QED
      BY <3>1, <3>2
  <2>2. QED
    BY <2>1
<1>9. ASSUME NEW m \in 2 .. y + 1 PROVE o[m] = o[m - 1] + Len(ps[m - 1]) + 2
  <2>1. CASE m = 2
    <3>1. o[2] = d + 2 /\ o[1] = s /\ ps[1] = part
      <4>1. 1 \in 1 .. y /\ 1 + 1 = 2
        BY <1>4
      <4>2. o[1 + 1] = q[1]
        BY <1>6, <4>1
      <4>3. QED
        BY <1>4, <1>5, <1>6, <4>1, <4>2
    <3>2. QED
      BY <1>3, <2>1, <3>1
  <2>2. CASE m # 2
    <3> DEFINE u == m - 1
               h == u - 1
    <3>1. u \in 2 .. y /\ u \in 1 .. y /\ h \in 1 .. y /\ u = h + 1 /\ m = u + 1
      BY <1>4, <2>2
    <3>2. u - 1 = h /\ m - 1 = u
      OBVIOUS
    <3> HIDE DEF u, h
    <3>3. o[u + 1] = q[u] /\ o[h + 1] = q[h] /\ ps[h + 1] = qs[h] /\ q[u] = q[u - 1] + Len(qs[u - 1]) + 2
      BY <1>4, <1>5, <1>6, <3>1
    <3>4. QED
      BY <3>1, <3>2, <3>3
  <2>3. QED
    BY <2>1, <2>2
<1>10. ASSUME NEW p \in Ink(text), s <= p
       PROVE  \E m \in 1 .. y + 1 : o[m] <= p /\ p < o[m] + Len(ps[m])
  <2>1. p \in Nat /\ p \in 0 .. Len(text) - 1 /\ text[p + 1] # "n"
    BY InkIs
  <2>2. p # d /\ p # d + 1
    <3>1. d + 2 = (d + 1) + 1
      OBVIOUS
    <3>2. QED
      BY <2>1, <3>1
  <2>3. CASE p < d
    <3>1. 1 \in 1 .. y + 1 /\ o[1] <= p /\ p < o[1] + Len(ps[1])
      BY <1>3, <1>4, <1>5, <1>6, <1>10, <2>3
    <3>2. QED
      BY <3>1
  <2>4. CASE d + 2 <= p
    <3>1. PICK m \in 1 .. y : q[m] <= p /\ p < q[m] + Len(qs[m])
      BY <1>4, <2>4
    <3>2. o[m + 1] = q[m] /\ ps[m + 1] = qs[m]
      BY <1>5, <1>6
    <3>3. m + 1 \in 1 .. y + 1
      BY <1>4
    <3>4. QED
      BY <3>1, <3>2, <3>3
  <2>5. QED
    BY <2>1, <2>2, <2>3, <2>4
<1>11. Laid(ps, o, text, s)
  <2> DEFINE z == y + 1
  <2>1. z \in Nat \ {0} /\ Len(ps) = z
    BY <1>4, <1>5
  <2> HIDE DEF z
  <2>2. /\ o \in [1 .. z -> Nat]
        /\ \A m \in 1 .. z :
              o[m] + Len(ps[m]) <= Len(text) /\ ps[m] = Slice(text, o[m], o[m] + Len(ps[m]))
        /\ \A m \in 2 .. z : o[m] = o[m - 1] + Len(ps[m - 1]) + 2
        /\ \A p \in Ink(text) : s <= p =>
              \E m \in 1 .. z : o[m] <= p /\ p < o[m] + Len(ps[m])
    BY <1>6, <1>8, <1>9, <1>10 DEF z
  <2>3. QED
    BY <1>5, <1>6, <2>1, <2>2 DEF Laid
<1>12. QED
  BY <1>11 DEF ps, part

\* Parts splits at the blank lines, and nowhere else.
LEMMA PartsLaid ==
    ASSUME NEW text \in Seq(Bytes)
    PROVE  \E o : Laid(Parts(text), o, text, 0)
<1> DEFINE n == Len(text)
           J(f) == f = [s \in 0 .. n |-> SplitAt(f, text, s)]
           f == CHOOSE f : J(f)
<1>1. n \in Nat
  OBVIOUS
<1>2. Parts(text) = f[0]
  BY DEF Parts, SplitAt, Delimiters
<1>3. \E g : J(g)
  <2>1. n - n = 0 /\ n <= n
    BY <1>1
  <2>2. \E g : g = [s \in n - n .. n |-> SplitAt(g, text, s)]
    BY <1>1, <2>1, PartsExist
  <2>3. QED
    BY <2>1, <2>2
<1>4. J(f)
  BY <1>3
<1> HIDE DEF f
<1> DEFINE H == {m \in Nat : m <= n => \E o : Laid(f[n - m], o, text, n - m)}
<1>5. ASSUME NEW m \in Nat, \A l \in Nat : l < m => l \in H PROVE m \in H
  <2>1. SUFFICES ASSUME m <= n PROVE \E o : Laid(f[n - m], o, text, n - m)
    OBVIOUS
  <2> DEFINE s == n - m
  <2>2. s \in 0 .. n /\ s \in Nat
    BY <1>1, <2>1
  <2> HIDE DEF s
  <2>3. f[s] = SplitAt(f, text, s)
    BY <1>4, <2>2
  <2>4. CASE Delimiters(text, s) = {}
    <3>1. \E o : Laid(<<Slice(text, s, n)>>, o, text, s)
      BY <2>2, LaidLast
    <3>2. QED
      BY <2>3, <2>4, <3>1 DEF SplitAt, s
  <2>5. CASE Delimiters(text, s) # {}
    <3> DEFINE d == Least(Delimiters(text, s))
    <3>1. d \in Nat /\ s <= d /\ d + 2 <= n /\ text[d + 1] = "n" /\ text[d + 2] = "n"
      BY <2>2, <2>5, LeastDelimiter
    <3>2. f[s] = <<Slice(text, s, d)>> \o f[d + 2]
      BY <2>3, <2>5 DEF SplitAt
    <3> HIDE DEF d
    <3> DEFINE l == n - (d + 2)
    <3>3. l \in Nat /\ l < m /\ l <= n /\ n - l = d + 2
      BY <1>1, <2>1, <3>1 DEF s
    <3> HIDE DEF l
    <3>4. \E q : Laid(f[n - l], q, text, n - l)
      BY <1>5, <3>3
    <3>5. PICK q : Laid(f[d + 2], q, text, d + 2)
      BY <3>3, <3>4
    <3>6. \E o : Laid(<<Slice(text, s, d)>> \o f[d + 2], o, text, s)
      <4> DEFINE qs == f[d + 2]
      <4> HIDE DEF qs
      <4>1. Laid(qs, q, text, d + 2)
        BY <3>5 DEF qs
      <4>2. \E o : Laid(<<Slice(text, s, d)>> \o qs, o, text, s)
        BY <2>2, <3>1, <4>1, LaidBefore
      <4>3. QED
        BY <4>2 DEF qs
    <3>7. QED
      BY <3>2, <3>6 DEF s
  <2>6. QED
    BY <2>4, <2>5
<1>6. n \in H
  <2> HIDE DEF H
  <2>1. \A m \in Nat : m \in H
    BY <1>5, StrongInduction
  <2>2. QED
    BY <1>1, <2>1
<1>7. n - n = 0 /\ n <= n
  BY <1>1
<1>8. QED
  BY <1>2, <1>6, <1>7

\* Where a block lies in the text, and whether it has the byte at p.
InBlock(block, p) == block.start <= p /\ p < block.start + Len(block.text)

Covers(bs, p) == \E r \in 1 .. Len(bs) : InBlock(bs[r], p)

LiesAt(block, text) ==
    /\ block \in [start : Nat, text : Seq(Bytes)]
    /\ block.start + Len(block.text) <= Len(text)
    /\ block.text = Slice(text, block.start, block.start + Len(block.text))

Placed(bs, text) ==
    /\ Len(bs) \in Nat /\ bs = [r \in 1 .. Len(bs) |-> bs[r]]
    /\ \A r \in 1 .. Len(bs) : LiesAt(bs[r], text)

\* The loop of paragraph_blocks over the parts, up to n of them.
CutUp(f, ps, n) ==
    f = [m \in 0 .. n |->
            IF m = 0 THEN [offset |-> 0, blocks |-> <<>>] ELSE AddPart(f[m - 1], ps[m])]

LEMMA CutsExist ==
    ASSUME NEW ps, NEW n \in Nat
    PROVE  \E f : CutUp(f, ps, n)
<1> DEFINE H == {m \in Nat : \E f : CutUp(f, ps, m)}
           Turn(f, m) == IF m = 0 THEN [offset |-> 0, blocks |-> <<>>] ELSE AddPart(f[m - 1], ps[m])
<1>1. 0 \in H
  <2>1. CutUp([m \in 0 .. 0 |-> [offset |-> 0, blocks |-> <<>>]], ps, 0)
    BY DEF CutUp
  <2>2. QED
    BY <2>1
<1>2. ASSUME NEW m \in Nat, m \in H PROVE m + 1 \in H
  <2>1. PICK f : CutUp(f, ps, m)
    BY <1>2
  <2> DEFINE l == m + 1
             g == [q \in 0 .. l |-> IF q = l THEN Turn(f, l) ELSE f[q]]
  <2>2. ASSUME NEW q \in 0 .. l PROVE g[q] = Turn(g, q)
    <3>1. q # 0 => q - 1 \in 0 .. m /\ q - 1 \in 0 .. l /\ q - 1 # l
      OBVIOUS
    <3>2. q # 0 => g[q - 1] = f[q - 1]
      BY <3>1
    <3> HIDE DEF g
    <3>3. Turn(g, q) = Turn(f, q)
      BY <3>2
    <3>4. g[q] = IF q = l THEN Turn(f, l) ELSE f[q]
      BY DEF g
    <3>5. q # l => f[q] = Turn(f, q)
      <4>1. q # l => q \in 0 .. m
        OBVIOUS
      <4>2. f = [r \in 0 .. m |-> Turn(f, r)]
        BY <2>1 DEF CutUp
      <4> HIDE DEF Turn
      <4>3. QED
        BY <4>1, <4>2
    <3> HIDE DEF Turn
    <3>6. QED
      BY <3>3, <3>4, <3>5
  <2>3. g = [q \in 0 .. l |-> g[q]]
    OBVIOUS
  <2> HIDE DEF g
  <2>4. CutUp(g, ps, l)
    BY <2>2, <2>3 DEF CutUp
  <2>5. QED
    BY <2>4
<1>3. QED
  <2> HIDE DEF H
  <2>1. n \in H
    BY <1>1, <1>2, Induction
  <2>2. QED
    BY <2>1 DEF H

\* A part's ink is the text's, as far to the left as the part begins.
LEMMA InkOfSlice ==
    ASSUME NEW text \in Seq(Bytes), NEW a \in Nat, NEW c \in Nat, a <= c, c <= Len(text),
           NEW p \in Ink(text), a <= p, p < c
    PROVE  p - a \in Ink(Slice(text, a, c))
<1> DEFINE part == Slice(text, a, c)
           u == p - a + 1
<1>1. p \in Nat /\ p \in 0 .. Len(text) - 1 /\ text[p + 1] \notin {"n", "s"}
  BY InkIs
<1>2. /\ part \in Seq(Bytes) /\ Len(part) = c - a
      /\ \A l \in 1 .. c - a : part[l] = text[a + l]
  BY SliceIs
<1>3. u \in 1 .. c - a /\ a + u = p + 1
  BY <1>1
<1> HIDE DEF part, u
<1>4. part[u] = text[p + 1]
  BY <1>2, <1>3
<1>5. p - a \in 0 .. Len(part) - 1 /\ (p - a) + 1 = u
  BY <1>1, <1>2 DEF u
<1>6. QED
  <2> DEFINE x == p - a
  <2>1. x \in 0 .. Len(part) - 1 /\ x + 1 = u
    BY <1>5
  <2> HIDE DEF x
  <2>2. part[x + 1] \notin {"n", "s"}
    BY <1>1, <1>4, <2>1
  <2>3. x \in Ink(part)
    BY <1>2, <2>1, <2>2, InkIs
  <2>4. QED
    BY <2>3 DEF x, part

\* The block a part becomes: it lies where the offset says and has its ink.
LEMMA BlockOfPart ==
    ASSUME NEW text \in Seq(Bytes), NEW offset \in Nat, NEW part \in Seq(Bytes),
           offset + Len(part) <= Len(text), part = Slice(text, offset, offset + Len(part)),
           Ink(part) # {}, NEW block,
           block = [start |-> offset + Least(Ink(part)),
                    text |-> Slice(part, Least(Ink(part)), Greatest(Ink(part)) + 1)]
    PROVE  /\ LiesAt(block, text)
           /\ \A p \in Nat : p - offset \in Ink(part) => InBlock(block, p)
<1> DEFINE l == Least(Ink(part))
           g == Greatest(Ink(part))
           z == Len(part)
<1>1. z \in Nat /\ Ink(part) \subseteq 0 .. z - 1 /\ Ink(part) \subseteq Nat
  BY InkIs
<1>2. l \in Ink(part) /\ \A q \in Ink(part) : l <= q
  <2> HIDE DEF z
  <2>1. QED
    BY <1>1, LeastIs
<1>3. g \in Ink(part) /\ \A q \in Ink(part) : q <= g
  <2>1. z \in Nat /\ Ink(part) \subseteq 0 .. z
    BY <1>1
  <2> HIDE DEF z
  <2>2. QED
    BY <2>1, GreatestIs
<1> DEFINE e == g + 1
<1>4. l \in Nat /\ g \in Nat /\ l <= g /\ e \in Nat /\ l <= e /\ e <= z /\ e = g + 1
  BY <1>1, <1>2, <1>3
<1>5. block = [start |-> offset + l, text |-> Slice(part, l, e)]
  OBVIOUS
<1>5a. l \in Nat /\ e \in Nat /\ l <= e /\ e <= Len(part)
  BY <1>4
<1> HIDE DEF l, g, e
<1>6. Slice(part, l, e) \in Seq(Bytes) /\ Len(Slice(part, l, e)) = e - l
  BY <1>5a, SliceIs
<1>7. Slice(part, l, e) = Slice(text, offset + l, offset + e)
  <2> DEFINE y == offset + z
  <2>1. y \in Nat /\ offset <= y /\ y <= Len(text) /\ e <= y - offset /\ part = Slice(text, offset, y)
    BY <1>1, <1>4
  <2> HIDE DEF y, z
  <2>2. Slice(Slice(text, offset, y), l, e) = Slice(text, offset + l, offset + e)
    <3>1. l \in Nat /\ e \in Nat /\ l <= e /\ e <= y - offset
      BY <1>4, <2>1
    <3>2. offset \in Nat /\ y \in Nat /\ offset <= y /\ y <= Len(text)
      BY <2>1
    <3> HIDE <1>4, <2>1
    <3>3. QED
      BY <3>1, <3>2, SliceOfSlice
  <2>3. QED
    BY <2>1, <2>2
<1>8. block.start = offset + l /\ block.text = Slice(part, l, e) /\ Len(block.text) = e - l
  BY <1>5, <1>6
<1>9. block \in [start : Nat, text : Seq(Bytes)]
  BY <1>4, <1>5, <1>6
<1>10. block.start + Len(block.text) = offset + e
  BY <1>4, <1>8
<1>11. offset + e <= Len(text)
  BY <1>1, <1>4
<1>12. LiesAt(block, text)
  BY <1>7, <1>8, <1>9, <1>10, <1>11 DEF LiesAt
<1>13. ASSUME NEW p \in Nat, p - offset \in Ink(part) PROVE InBlock(block, p)
  <2>1. l <= p - offset /\ p - offset <= g
    BY <1>2, <1>3, <1>13
  <2>2. block.start <= p /\ p < offset + e
    BY <1>4, <1>8, <2>1
  <2>3. QED
    BY <1>10, <2>2 DEF InBlock
<1>14. QED
  BY <1>12, <1>13

LEMMA BlockMore ==
    ASSUME NEW text, NEW bs, Placed(bs, text), NEW block, LiesAt(block, text)
    PROVE  /\ Placed(Append(bs, block), text)
           /\ \A p : Covers(bs, p) \/ InBlock(block, p) => Covers(Append(bs, block), p)
<1> DEFINE n == Len(bs)
           cs == Append(bs, block)
<1>1. n \in Nat /\ bs = [r \in 1 .. n |-> bs[r]] /\ \A r \in 1 .. n : LiesAt(bs[r], text)
  BY DEF Placed
<1>2. bs \in Seq({bs[r] : r \in 1 .. n})
  BY <1>1
<1>3. bs \in Seq({bs[r] : r \in 1 .. n} \cup {block})
  BY <1>1
<1> DEFINE m == n + 1
<1>4. /\ Len(cs) = m /\ cs[m] = block /\ m \in 1 .. m /\ m \in Nat
      /\ cs = [r \in 1 .. m |-> cs[r]]
      /\ \A r \in 1 .. n : r \in 1 .. m /\ cs[r] = bs[r]
  <2> DEFINE T == {bs[r] : r \in 1 .. n} \cup {block}
  <2>1. bs \in Seq(T) /\ block \in T
    BY <1>3
  <2> HIDE DEF T
  <2>2. /\ cs \in Seq(T) /\ Len(cs) = m /\ cs[m] = block
        /\ \A r \in 1 .. n : cs[r] = bs[r]
    BY <2>1, AppendProperties
  <2>3. cs = [r \in 1 .. m |-> cs[r]]
    <3> HIDE DEF cs, m
    <3>1. QED
      BY <2>2
  <2>4. m \in 1 .. m /\ m \in Nat /\ \A r \in 1 .. n : r \in 1 .. m
    BY <1>1
  <2>5. QED
    BY <2>2, <2>3, <2>4
<1>5. \A r \in 1 .. m : r = m \/ r \in 1 .. n
  BY <1>1
<1> HIDE DEF m, cs, n
<1>6. \A r \in 1 .. m : LiesAt(cs[r], text)
  BY <1>1, <1>4, <1>5
<1>7. Placed(cs, text)
  BY <1>4, <1>6 DEF Placed
<1>8. ASSUME NEW p, Covers(bs, p) PROVE Covers(cs, p)
  <2>1. PICK r \in 1 .. n : InBlock(bs[r], p)
    BY <1>8 DEF Covers, n
  <2>2. r \in 1 .. m /\ InBlock(cs[r], p)
    BY <1>4, <2>1
  <2>3. QED
    BY <1>4, <2>2 DEF Covers
<1>9. ASSUME NEW p, InBlock(block, p) PROVE Covers(cs, p)
  BY <1>4, <1>9 DEF Covers
<1>10. QED
  BY <1>7, <1>8, <1>9 DEF cs

\* A turn of the loop.
LEMMA AddsPart ==
    ASSUME NEW text \in Seq(Bytes), NEW part \in Seq(Bytes), NEW cut, cut.offset \in Nat,
           cut.offset + Len(part) <= Len(text),
           part = Slice(text, cut.offset, cut.offset + Len(part)), Placed(cut.blocks, text)
    PROVE  /\ AddPart(cut, part).offset = cut.offset + Len(part) + 2
           /\ Placed(AddPart(cut, part).blocks, text)
           /\ \A p : Covers(cut.blocks, p) => Covers(AddPart(cut, part).blocks, p)
           /\ \A p \in Ink(text) :
                 cut.offset <= p /\ p < cut.offset + Len(part) => Covers(AddPart(cut, part).blocks, p)
<1> DEFINE ink == Ink(part)
           block == [start |-> cut.offset + Least(ink),
                     text |-> Slice(part, Least(ink), Greatest(ink) + 1)]
           offset == cut.offset
           z == offset + Len(part)
<1>1. /\ AddPart(cut, part).offset = offset + Len(part) + 2
      /\ AddPart(cut, part).blocks = IF ink = {} THEN cut.blocks ELSE Append(cut.blocks, block)
  BY DEF AddPart
<1>2. offset \in Nat /\ z \in Nat /\ offset <= z /\ z <= Len(text) /\ part = Slice(text, offset, z)
  OBVIOUS
<1>3. ASSUME NEW p \in Ink(text), offset <= p, p < z PROVE p \in Nat /\ p - offset \in ink
  <2>1. p \in Nat
    BY InkIs
  <2> HIDE DEF offset, z
  <2>2. p - offset \in Ink(Slice(text, offset, z))
    BY <1>2, <1>3, InkOfSlice
  <2>3. QED
    BY <1>2, <2>1, <2>2
<1>4. CASE ink = {}
  <2> HIDE DEF offset, z, ink
  <2>1. QED
    BY <1>1, <1>3, <1>4 DEF offset, z
<1>5. CASE ink # {}
  <2>1. LiesAt(block, text) /\ \A p \in Nat : p - offset \in ink => InBlock(block, p)
    BY <1>2, <1>5, BlockOfPart
  <2> HIDE DEF offset, z, ink, block
  <2>2. /\ Placed(Append(cut.blocks, block), text)
        /\ \A p : Covers(cut.blocks, p) \/ InBlock(block, p) => Covers(Append(cut.blocks, block), p)
    BY <2>1, BlockMore
  <2>3. AddPart(cut, part).blocks = Append(cut.blocks, block)
    BY <1>1, <1>5
  <2>4. \A p \in Ink(text) : offset <= p /\ p < z => InBlock(block, p)
    BY <1>3, <2>1
  <2>5. QED
    BY <1>1, <2>2, <2>3, <2>4 DEF offset, z
<1>6. QED
  BY <1>4, <1>5

\* paragraph_blocks gives blocks that lie where they say and have all the ink.
LEMMA ParagraphsCut ==
    ASSUME NEW text \in Seq(Bytes)
    PROVE  /\ Placed(ParagraphBlocks(text), text)
           /\ \A p \in Ink(text) : Covers(ParagraphBlocks(text), p)
<1> DEFINE ps == Parts(text)
           n == Len(ps)
           J(f) == f = [m \in 0 .. n |->
                      IF m = 0 THEN [offset |-> 0, blocks |-> <<>>] ELSE AddPart(f[m - 1], ps[m])]
           f == CHOOSE f : J(f)
<1>1. PICK o : Laid(ps, o, text, 0)
  BY PartsLaid
<1> HIDE DEF ps
<1>2. /\ ps \in Seq(Seq(Bytes)) /\ n \in Nat \ {0} /\ n \in Nat
      /\ o \in [1 .. n -> Nat] /\ o[1] = 0
      /\ \A m \in 1 .. n :
            o[m] + Len(ps[m]) <= Len(text) /\ ps[m] = Slice(text, o[m], o[m] + Len(ps[m]))
      /\ \A m \in 2 .. n : o[m] = o[m - 1] + Len(ps[m - 1]) + 2
      /\ \A p \in Ink(text) : 0 <= p =>
            \E m \in 1 .. n : o[m] <= p /\ p < o[m] + Len(ps[m])
  BY <1>1 DEF Laid
<1>3. ParagraphBlocks(text) = f[n].blocks
  BY DEF ParagraphBlocks, ps
<1>4. \E g : J(g)
  <2> HIDE DEF n
  <2>1. QED
    BY <1>2, CutsExist DEF CutUp
<1>5. J(f)
  BY <1>4
<1> HIDE DEF f
<1> DEFINE Has(c, m) == \A p \in Ink(text), l \in 1 .. m :
                           o[l] <= p /\ p < o[l] + Len(ps[l]) => Covers(c.blocks, p)
           Good(c, m) == /\ m < n => c.offset = o[m + 1]
                         /\ Placed(c.blocks, text)
                         /\ Has(c, m)
           H == {m \in Nat : m <= n => Good(f[m], m)}
<1>6. 0 \in H
  <2>1. f[0] = [offset |-> 0, blocks |-> <<>>]
    BY <1>2, <1>5
  <2>2. Placed(<<>>, text)
    BY DEF Placed
  <2>3. Has(f[0], 0)
    OBVIOUS
  <2> HIDE DEF Has
  <2>4. QED
    BY <1>2, <2>1, <2>2, <2>3
<1>7. ASSUME NEW m \in Nat, m \in H PROVE m + 1 \in H
  <2> DEFINE l == m + 1
             c == f[m]
             part == ps[l]
  <2>1. SUFFICES ASSUME l <= n PROVE Good(f[l], l)
    OBVIOUS
  <2>2. l \in 1 .. n /\ l \in 0 .. n /\ l # 0 /\ l - 1 = m /\ m < n /\ m <= n
    BY <1>2, <2>1
  <2>3. f[l] = AddPart(c, part)
    <3> HIDE DEF l
    <3>1. f[l] = AddPart(f[l - 1], ps[l])
      BY <1>5, <2>2
    <3>2. QED
      BY <2>2, <3>1 DEF l
  <2>4. Good(c, m)
    BY <1>7, <2>2
  <2>5. c.offset = o[l] /\ Placed(c.blocks, text) /\ Has(c, m)
    BY <2>2, <2>4
  <2>6. part \in Seq(Bytes) /\ o[l] \in Nat /\ o[l] + Len(part) <= Len(text)
        /\ part = Slice(text, o[l], o[l] + Len(part))
    <3> HIDE DEF l
    <3>1. ps[l] \in Seq(Bytes)
      BY <1>2, <2>2
    <3> HIDE DEF n
    <3>2. o[l] \in Nat
      BY <1>2, <2>2
    <3>3. o[l] + Len(ps[l]) <= Len(text) /\ ps[l] = Slice(text, o[l], o[l] + Len(ps[l]))
      BY <1>2, <2>2
    <3>4. QED
      BY <3>1, <3>2, <3>3
  <2> DEFINE d == AddPart(c, part)
  <2> HIDE DEF c, part, Has, d
  <2>7. /\ d.offset = c.offset + Len(part) + 2
        /\ Placed(d.blocks, text)
        /\ \A p : Covers(c.blocks, p) => Covers(d.blocks, p)
        /\ \A p \in Ink(text) :
                 c.offset <= p /\ p < c.offset + Len(part) => Covers(d.blocks, p)
    BY <2>5, <2>6, AddsPart DEF d
  <2>8. l < n => d.offset = o[l + 1]
    <3>1. SUFFICES ASSUME l < n PROVE d.offset = o[l + 1]
      OBVIOUS
    <3> DEFINE y == l + 1
    <3>2. y \in 2 .. n /\ y - 1 = l
      BY <1>2, <2>2, <3>1
    <3> HIDE DEF y
    <3>3. o[y] = o[y - 1] + Len(ps[y - 1]) + 2
      BY <1>2, <3>2
    <3>4. o[y] = o[l] + Len(part) + 2
      BY <3>2, <3>3 DEF part
    <3>5. QED
      BY <2>5, <2>7, <3>4 DEF y
  <2>9. Has(d, l)
    <3>1. SUFFICES ASSUME NEW p \in Ink(text), NEW u \in 1 .. l, o[u] <= p, p < o[u] + Len(ps[u])
                   PROVE  Covers(d.blocks, p)
      BY DEF Has
    <3>2. CASE u = l
      BY <2>5, <2>7, <3>1, <3>2 DEF part
    <3>3. CASE u # l
      <4>1. u \in 1 .. m
        BY <3>3
      <4>2. Covers(c.blocks, p)
        BY <2>5, <3>1, <4>1 DEF Has
      <4>3. QED
        BY <2>7, <4>2
    <3>4. QED
      BY <3>2, <3>3
  <2>10. f[l] = d
    BY <2>3 DEF d
  <2> HIDE DEF l
  <2>11. QED
    BY <2>7, <2>8, <2>9, <2>10
<1>8. n \in H
  <2> HIDE DEF H, n
  <2>1. QED
    BY <1>2, <1>6, <1>7, Induction
<1>9. Good(f[n], n)
  BY <1>2, <1>8
<1>10. \A p \in Ink(text) : p \in Nat
  BY InkIs
<1>11. ASSUME NEW p \in Ink(text) PROVE Covers(f[n].blocks, p)
  <2>1. PICK m \in 1 .. n : o[m] <= p /\ p < o[m] + Len(ps[m])
    BY <1>2, <1>10
  <2>2. QED
    BY <1>9, <2>1
<1>12. QED
  BY <1>3, <1>9, <1>11

-----------------------------------------------------------------------------
(***************************************************************************)
(* The chunks of a file.                                                   *)
(***************************************************************************)

\* A chunk is a stretch of words of a block, from the start of its first to
\* the end of its last.
Located ==
    \A c \in DOMAIN chunks :
        /\ chunks[c].block \in DOMAIN blocks
        /\ chunks[c].first \in DOMAIN Words(chunks[c].block)
        /\ chunks[c].last \in DOMAIN Words(chunks[c].block)
        /\ chunks[c].first <= chunks[c].last
        /\ chunks[c].byteStart =
              blocks[chunks[c].block].start + Words(chunks[c].block)[chunks[c].first].from
        /\ chunks[c].byteEnd =
              blocks[chunks[c].block].start + Words(chunks[c].block)[chunks[c].last].upto

LEMMA LocatedStep == TypeOK /\ InBounds /\ Located /\ [Next]_vars => Located'
<1>1. SUFFICES ASSUME TypeOK, InBounds, Located, [Next]_vars PROVE Located'
  OBVIOUS
<1>2. blocks' = blocks /\ \A n : Words(n)' = Words(n)
  BY <1>1, InputStays
<1>3. \A n : blocks'[n].words = Words(n)
  BY <1>2 DEF Words
<1>4. CASE Emit
  <2>1. /\ DOMAIN chunks' = DOMAIN chunks \cup {Len(chunks) + 1}
        /\ \A c \in DOMAIN chunks : chunks'[c] = chunks[c]
        /\ chunks'[Len(chunks) + 1] = Window
    BY <1>1, <1>4, EmitType
  <2>2. b \in DOMAIN blocks /\ i < j /\ i \in DOMAIN Words(b) /\ j - 1 \in DOMAIN Words(b)
    BY <1>1, <1>4, WindowNotEmpty DEF Emit, InBounds
  <2>3. i <= j - 1
    BY <1>1, <2>2 DEF TypeOK
  <2>4. ASSUME NEW c \in DOMAIN chunks'
        PROVE  /\ chunks'[c].block \in DOMAIN blocks
               /\ chunks'[c].first \in DOMAIN Words(chunks'[c].block)
               /\ chunks'[c].last \in DOMAIN Words(chunks'[c].block)
               /\ chunks'[c].first <= chunks'[c].last
               /\ chunks'[c].byteStart =
                     blocks[chunks'[c].block].start
                         + Words(chunks'[c].block)[chunks'[c].first].from
               /\ chunks'[c].byteEnd =
                     blocks[chunks'[c].block].start
                         + Words(chunks'[c].block)[chunks'[c].last].upto
    <3>1. CASE c \in DOMAIN chunks
      BY <1>1, <2>1, <3>1 DEF Located
    <3>2. CASE c = Len(chunks) + 1
      <4>1. chunks'[c] = Window
        BY <2>1, <3>2
      <4>2. /\ Window.block = b /\ Window.first = i /\ Window.last = j - 1
            /\ Window.byteStart = blocks[b].start + Words(b)[i].from
            /\ Window.byteEnd = blocks[b].start + Words(b)[j - 1].upto
        BY DEF Window
      <4>3. QED
        BY <2>2, <2>3, <4>1, <4>2
    <3>3. QED
      BY <2>1, <3>1, <3>2
  <2>5. QED
    BY <1>2, <1>3, <2>4 DEF Located, Words
<1>5. CASE ~Emit
  <2>1. chunks' = chunks
    BY <1>1, <1>5 DEF Next, EnterBlock, Finish, Grow, StepBack, Advance, vars
  <2>2. QED
    BY <1>1, <1>2, <2>1 DEF Located, Words
<1>6. QED
  BY <1>4, <1>5

\* The decoded text is bytes, and its paragraphs lie in it.
LEMMA TextTypes ==
    ASSUME file \in Files
    PROVE  /\ Text \in Seq(Bytes)
           /\ Placed(Paragraphs, Text)
           /\ Extracts(file) => \A p \in Ink(Text) : Covers(Paragraphs, p)
<1>1. file.bytes \in Seq(Bytes)
  BY FilesAssumption
<1>2. Text \in Seq(Bytes)
  <2> DEFINE bytes == file.bytes
             n == Len(bytes)
  <2>1. 4 \in Int /\ n \in Int /\ \A p \in 4 .. n : bytes[p] \in Bytes
    BY <1>1
  <2> HIDE DEF n, bytes
  <2>2. SubSeq(bytes, 4, n) \in Seq(Bytes)
    BY <1>1, <2>1, SubSeqProperties DEF bytes
  <2>3. QED
    BY <1>1, <2>2 DEF Text, DecodeToUtf8, n, bytes
<1>3. Placed(<<>>, Text)
  BY DEF Placed
<1>4. QED
  BY <1>2, <1>3, ParagraphsCut DEF Paragraphs

\* The blocks of the file at work, as TextInit gives them to the chunker.
FileBlocks ==
    /\ file \in Files
    /\ blocks = [n \in DOMAIN Paragraphs |->
                    [start |-> Paragraphs[n].start,
                     words |-> WordSpans(Paragraphs[n].text)]]

\* A block with its words.
LEMMA BlockIs ==
    ASSUME FileBlocks, NEW n \in DOMAIN blocks
    PROVE  /\ n \in 1 .. Len(Paragraphs) /\ n \in DOMAIN Paragraphs
           /\ LiesAt(Paragraphs[n], Text)
           /\ Paragraphs[n].text \in Seq(Bytes) /\ Paragraphs[n].start \in Nat
           /\ blocks[n].start = Paragraphs[n].start
           /\ Words(n) = WordSpans(Paragraphs[n].text)
           /\ Found(Words(n), Ink(Paragraphs[n].text), Len(Paragraphs[n].text))
<1>1. Placed(Paragraphs, Text)
  BY TextTypes DEF FileBlocks
<1>2. n \in DOMAIN Paragraphs /\ DOMAIN Paragraphs = 1 .. Len(Paragraphs)
  BY <1>1 DEF FileBlocks, Placed
<1>3. LiesAt(Paragraphs[n], Text)
  BY <1>1, <1>2 DEF Placed
<1>4. Paragraphs[n].text \in Seq(Bytes) /\ Paragraphs[n].start \in Nat
  BY <1>3 DEF LiesAt
<1>5. blocks[n].start = Paragraphs[n].start /\ Words(n) = WordSpans(Paragraphs[n].text)
  BY <1>2 DEF FileBlocks, Words
<1>6. Found(WordSpans(Paragraphs[n].text), Ink(Paragraphs[n].text), Len(Paragraphs[n].text))
  BY <1>4, WordsFound
<1>7. QED
  BY <1>2, <1>3, <1>4, <1>5, <1>6

\* What a file is cut into is what the chunker takes.
LEMMA BlocksFit ==
    ASSUME FileBlocks
    PROVE  blocks \in Seq(Block)
<1>1. Len(Paragraphs) \in Nat /\ DOMAIN blocks = 1 .. Len(Paragraphs)
  <2>1. Placed(Paragraphs, Text)
    BY TextTypes DEF FileBlocks
  <2>2. QED
    BY <2>1 DEF FileBlocks, Placed
<1>2. ASSUME NEW n \in DOMAIN blocks PROVE blocks[n] \in Block
  <2>1. /\ Paragraphs[n].start \in Nat /\ n \in DOMAIN Paragraphs
        /\ WordSpans(Paragraphs[n].text) \in Seq(Word)
    <3>1. Found(Words(n), Ink(Paragraphs[n].text), Len(Paragraphs[n].text))
      BY <1>2, BlockIs
    <3>2. Words(n) \in Seq(Word)
      BY <3>1 DEF Found
    <3>3. QED
      BY <1>2, <3>2, BlockIs
  <2>2. blocks[n] = [start |-> Paragraphs[n].start, words |-> WordSpans(Paragraphs[n].text)]
    BY <2>1 DEF FileBlocks
  <2>3. QED
    BY <2>1, <2>2 DEF Block
<1>3. blocks = [n \in 1 .. Len(Paragraphs) |-> blocks[n]]
  BY <1>1 DEF FileBlocks
<1>4. QED
  BY <1>1, <1>2, <1>3

TextInv == ChunkInv /\ Located /\ FileBlocks

LEMMA TextInvInit == TextInit => TextInv
<1>1. SUFFICES ASSUME TextInit PROVE TextInv
  OBVIOUS
<1>2. FileBlocks
  BY <1>1 DEF TextInit, FileBlocks
<1>3. Init
  BY <1>1, <1>2, BlocksFit, FilesAssumption DEF TextInit, Init
<1>4. chunks = <<>>
  BY <1>1 DEF TextInit, Start
<1>5. Located
  BY <1>4 DEF Located
<1>6. QED
  BY <1>2, <1>3, <1>5, ChunkInvInit DEF TextInv

LEMMA TextInvStep == TextInv /\ [TextNext]_textVars => TextInv'
<1>1. SUFFICES ASSUME TextInv, [TextNext]_textVars PROVE TextInv'
  OBVIOUS
<1>2. [Next]_vars /\ file' = file
  BY <1>1 DEF TextNext, textVars
<1>3. blocks' = blocks
  BY <1>2, InputStays
<1>4. FileBlocks'
  BY <1>1, <1>2, <1>3 DEF TextInv, FileBlocks, Paragraphs, Text
<1>5. ChunkInv'
  BY <1>1, <1>2, ChunkInvStep DEF TextInv
<1>6. Located'
  BY <1>1, <1>2, LocatedStep DEF TextInv, ChunkInv
<1>7. QED
  BY <1>4, <1>5, <1>6 DEF TextInv

LEMMA TextInvAlways == TextSpec => []TextInv
BY TextInvInit, TextInvStep, PTL DEF TextSpec

\* Where words lie in their block, and in what order.
LEMMA WordsInBlock ==
    ASSUME FileBlocks, NEW n \in DOMAIN blocks, NEW w \in DOMAIN Words(n), NEW v \in DOMAIN Words(n),
           w <= v
    PROVE  /\ Words(n)[w].from \in Nat /\ Words(n)[v].upto \in Nat
           /\ Words(n)[w].from <= Words(n)[v].from /\ Words(n)[w].upto <= Words(n)[v].upto
           /\ Words(n)[w].from <= Words(n)[v].upto
           /\ Words(n)[v].upto <= Len(Paragraphs[n].text)
<1> DEFINE ws == Words(n)
           text == Paragraphs[n].text
<1>1. Found(ws, Ink(text), Len(text))
  BY BlockIs
<1> HIDE DEF ws
<1>2. /\ ws \in Seq(Word)
      /\ \A u \in 1 .. Len(ws) : ws[u].from < ws[u].upto /\ ws[u].upto <= Len(text)
      /\ \A u, x \in 1 .. Len(ws) :
            u <= x => ws[u].from <= ws[x].from /\ ws[u].upto <= ws[x].upto
  BY <1>1 DEF Found
<1>3. w \in 1 .. Len(ws) /\ v \in 1 .. Len(ws)
  BY <1>2 DEF ws
<1>4. /\ ws[w].from \in Nat /\ ws[w].upto \in Nat
      /\ ws[v].from \in Nat /\ ws[v].upto \in Nat
  BY <1>2, <1>3, WordTypes
<1>5. /\ ws[w].from < ws[w].upto /\ ws[v].upto <= Len(text)
      /\ ws[w].from <= ws[v].from /\ ws[w].upto <= ws[v].upto
  BY <1>2, <1>3
<1>6. ws[w].from <= ws[v].upto
  BY <1>4, <1>5
<1>7. QED
  BY <1>4, <1>5, <1>6 DEF ws

\* The byte range of a chunk locates its text in the file, if the file is
\* indexed as it is, and else in the decoded text.
THEOREM Offsets == TextSpec => []OffsetsLocateText
<1>1. TextInv => OffsetsLocateText
  <2>1. SUFFICES ASSUME TextInv, NEW c \in DOMAIN chunks
                 PROVE  Slice(Text, chunks[c].byteStart, chunks[c].byteEnd) = ChunkText(chunks[c])
    BY DEF OffsetsLocateText, Verbatim, Text, DecodeToUtf8
  <2> DEFINE n == chunks[c].block
             block == Paragraphs[n]
             from == Words(n)[chunks[c].first].from
             upto == Words(n)[chunks[c].last].upto
             start == block.start
             end == start + Len(block.text)
  <2>2. /\ n \in DOMAIN blocks
        /\ chunks[c].first \in DOMAIN Words(n) /\ chunks[c].last \in DOMAIN Words(n)
        /\ chunks[c].first <= chunks[c].last
        /\ chunks[c].byteStart = blocks[n].start + from
        /\ chunks[c].byteEnd = blocks[n].start + upto
    BY <2>1 DEF TextInv, Located
  <2>3. ChunkText(chunks[c]) = Slice(block.text, from, upto)
    BY DEF ChunkText
  <2>4. FileBlocks /\ Text \in Seq(Bytes)
    BY <2>1, TextTypes DEF TextInv, FileBlocks
  <2> HIDE DEF n
  <2>5. /\ block.text \in Seq(Bytes) /\ start \in Nat /\ blocks[n].start = start
        /\ LiesAt(block, Text)
    BY <2>2, <2>4, BlockIs
  <2>6. from \in Nat /\ upto \in Nat /\ from <= upto /\ upto <= Len(block.text)
    BY <2>2, <2>4, WordsInBlock
  <2> HIDE DEF from, upto, block
  <2>7. end <= Len(Text) /\ block.text = Slice(Text, start, end)
    BY <2>5 DEF LiesAt
  <2>8. end \in Nat /\ start <= end /\ upto <= end - start
    BY <2>5, <2>6
  <2> HIDE DEF start, end
  <2>9. Slice(Slice(Text, start, end), from, upto) = Slice(Text, start + from, start + upto)
    BY <2>4, <2>5, <2>6, <2>7, <2>8, SliceOfSlice DEF start
  <2>10. QED
    BY <2>2, <2>3, <2>5, <2>7, <2>9
<1>2. QED
  BY <1>1, TextInvAlways, PTL

\* A file that shows itself to be text goes to an extractor of text.
LEMMA TextExtracts ==
    ASSUME IsTextFile
    PROVE  Extracts(file)
<1> DEFINE hints == <<file.magic, file.guess, KnownFilename(file)>>
           First(h) == hints[h] # "none" /\ \A g \in 1 .. h - 1 : hints[g] = "none"
<1>1. DOMAIN hints = {1, 2, 3} /\ hints[1] = "none" /\ hints[2] = file.guess
      /\ hints[3] = KnownFilename(file)
  BY DEF IsTextFile
<1> HIDE DEF hints
<1>2. Detect(file) = IF \E h \in {1, 2, 3} : hints[h] # "none"
                        THEN hints[CHOOSE h \in {1, 2, 3} : First(h)]
                        ELSE IF IsText(file.bytes) THEN "plain" ELSE "binary"
  BY <1>1 DEF Detect, hints
<1>3. Detect(file) \in {"plain", "code", "json", "csv", "sql"}
  <2>1. CASE file.guess \in {"plain", "code", "json", "csv", "sql"}
    <3>1. First(2)
      BY <1>1, <2>1
    <3>2. \A h \in {1, 2, 3} : First(h) => h = 2
      <4>1. ~First(1)
        BY <1>1
      <4>2. 2 \in 1 .. 3 - 1
        OBVIOUS
      <4>3. ~First(3)
        BY <1>1, <2>1, <4>2
      <4>4. QED
        BY <4>1, <4>3
    <3> HIDE DEF First
    <3>3. (CHOOSE h \in {1, 2, 3} : First(h)) = 2
      BY <3>1, <3>2
    <3>4. QED
      BY <1>1, <1>2, <2>1, <3>3
  <2>2. CASE file.guess = "none" /\ file.known
    <3>1. hints[3] = "plain"
      BY <1>1, <2>2 DEF KnownFilename
    <3>2. First(3)
      <4>1. \A g \in 1 .. 3 - 1 : g = 1 \/ g = 2
        OBVIOUS
      <4>2. QED
        BY <1>1, <2>2, <3>1, <4>1
    <3>3. ~First(1) /\ ~First(2)
      BY <1>1, <2>2
    <3> HIDE DEF First
    <3>4. (CHOOSE h \in {1, 2, 3} : First(h)) = 3
      BY <3>2, <3>3
    <3>5. QED
      BY <1>2, <3>1, <3>4
  <2>3. CASE file.guess = "none" /\ ~file.known /\ IsText(file.bytes)
    <3>1. \A h \in {1, 2, 3} : hints[h] = "none"
      BY <1>1, <2>3 DEF KnownFilename
    <3>2. QED
      BY <1>2, <2>3, <3>1
  <2>4. QED
    BY <2>1, <2>2, <2>3 DEF IsTextFile
<1>4. QED
  <2> DEFINE mime == Detect(file)
  <2> HIDE DEF mime
  <2>1. mime \in {"plain", "code", "json", "csv", "sql"}
    BY <1>3 DEF mime
  <2>2. Router(mime) \in {"Plaintext", "Csv", "Json", "Sql"}
    BY <2>1 DEF Router, Routes
  <2>3. QED
    BY <2>2 DEF Extracts, TextFamily, mime

\* All ink of a text file is in some chunk, when its chunking is done.
THEOREM EveryByte == TextSpec => []EveryByteChunked
<1>1. TextInv => EveryByteChunked
  <2>1. SUFFICES ASSUME TextInv, pc = "done", IsTextFile, NEW p \in Ink(Text)
                 PROVE  \E c \in DOMAIN chunks :
                           chunks[c].byteStart <= p /\ p < chunks[c].byteEnd
    BY DEF EveryByteChunked
  <2>2. FileBlocks /\ Text \in Seq(Bytes) /\ Covers(Paragraphs, p)
    BY <2>1, TextTypes, TextExtracts DEF TextInv, FileBlocks
  <2>3. PICK n \in 1 .. Len(Paragraphs) : InBlock(Paragraphs[n], p)
    BY <2>2 DEF Covers
  <2>4. n \in DOMAIN blocks
    <3>1. Placed(Paragraphs, Text)
      BY <2>2, TextTypes DEF FileBlocks
    <3>2. QED
      BY <2>2, <3>1 DEF FileBlocks, Placed
  <2> DEFINE block == Paragraphs[n]
             start == block.start
             end == start + Len(block.text)
             q == p - start
             ink == Ink(block.text)
             ws == Words(n)
  <2>5. /\ block.text \in Seq(Bytes) /\ start \in Nat /\ blocks[n].start = start
        /\ LiesAt(block, Text) /\ Found(ws, ink, Len(block.text))
    BY <2>2, <2>4, BlockIs
  <2>6. end <= Len(Text) /\ block.text = Slice(Text, start, end)
    BY <2>5 DEF LiesAt
  <2>7. p \in Nat /\ start <= p /\ p < end
    BY <2>2, <2>3, InkIs DEF InBlock
  <2>8. end \in Nat /\ start <= end /\ q \in Nat /\ q < Len(block.text) /\ Len(block.text) \in Nat
    BY <2>5, <2>7
  <2> HIDE DEF block
  <2>9. q \in ink
    <3> HIDE DEF start, end
    <3>1. p - start \in Ink(Slice(Text, start, end))
      BY <2>1, <2>2, <2>5, <2>6, <2>7, <2>8, InkOfSlice DEF start
    <3>2. QED
      BY <2>6, <3>1
  <2>10. PICK w \in 1 .. Len(ws) : InWord(ws[w], q)
    <3> DEFINE z == Len(block.text)
    <3>1. z \notin ink
      <4>1. ink \subseteq 0 .. z - 1
        BY <2>5, InkIs
      <4>2. QED
        BY <2>8, <4>1
    <3>2. z \in q .. z
      BY <2>8
    <3>3. \A x \in ink : x < z => (\E w \in 1 .. Len(ws) : InWord(ws[w], x)) \/ x .. z \subseteq ink
      BY <2>5 DEF Found
    <3> HIDE DEF z, ink, q, ws
    <3>4. q < z
      BY <2>8 DEF z
    <3>5. QED
      BY <2>9, <3>1, <3>2, <3>3, <3>4
  <2>11. ws \in Seq(Word) /\ DOMAIN ws = 1 .. Len(ws) /\ w \in DOMAIN ws
    <3>1. ws \in Seq(Word)
      BY <2>5 DEF Found
    <3> HIDE DEF ws
    <3>2. QED
      BY <3>1
  <2>12. PICK c \in DOMAIN chunks : Holds(chunks[c], n, w)
    <3>1. InSomeChunk(n, w)
      BY <2>1, <2>4, <2>11, DoneAllBlocks DEF TextInv, ChunkInv, Chunked
    <3>2. QED
      BY <3>1 DEF InSomeChunk
  <2> DEFINE first == chunks[c].first
             last == chunks[c].last
  <2>13. chunks[c].block = n /\ first <= w /\ w <= last
    BY <2>12 DEF Holds
  <2>14. /\ first \in DOMAIN ws /\ last \in DOMAIN ws
         /\ chunks[c].byteStart = start + ws[first].from
         /\ chunks[c].byteEnd = start + ws[last].upto
    BY <2>1, <2>5, <2>13 DEF TextInv, Located
  <2> HIDE DEF first, last, ws, start
  <2>15. ws[first].from <= ws[w].from /\ ws[first].from \in Nat
    BY <2>2, <2>4, <2>11, <2>13, <2>14, WordsInBlock DEF ws
  <2>16. ws[w].upto <= ws[last].upto /\ ws[last].upto \in Nat
    BY <2>2, <2>4, <2>11, <2>13, <2>14, WordsInBlock DEF ws
  <2>17. ws[w].from \in Nat /\ ws[w].upto \in Nat
    BY <2>10, <2>11, WordTypes
  <2>18. ws[w].from <= p - start /\ p - start < ws[w].upto
    BY <2>10 DEF InWord
  <2>19. chunks[c].byteStart <= p /\ p < chunks[c].byteEnd
    <3> DEFINE from == ws[first].from
               upto == ws[last].upto
    <3>1. start \in Nat /\ from \in Nat /\ upto \in Nat
      BY <2>5, <2>15, <2>16 DEF start
    <3>2. chunks[c].byteStart = start + from /\ chunks[c].byteEnd = start + upto
      BY <2>14
    <3>3. /\ from <= ws[w].from /\ ws[w].upto <= upto
          /\ ws[w].from \in Nat /\ ws[w].upto \in Nat /\ p \in Nat
      BY <2>7, <2>15, <2>16, <2>17
    <3> HIDE DEF from, upto, end, ink
    <3>4. from <= p - start /\ p - start < upto
      BY <2>18, <3>1, <3>3
    <3>5. QED
      BY <3>1, <3>2, <3>3, <3>4
  <2>20. QED
    BY <2>19
<1>2. QED
  BY <1>1, TextInvAlways, PTL

=============================================================================
