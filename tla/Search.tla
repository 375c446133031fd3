------------------------------- MODULE Search -------------------------------
(***************************************************************************)
(* ndex-remote search: ndex_search::run over what the index holds for one  *)
(* query, and a user who turns the pages with --offset while other         *)
(* commands commit to the index.                                           *)
(*                                                                         *)
(* A command has the index to itself (StoreLock), so it is one step.       *)
(* Store::open has no vector index, and every mode comes down to a search  *)
(* of the full-text index.  The ranking is tantivy's, with ties broken by  *)
(* the place of a document in the index.  No document has a title (it is    *)
(* never set by add_chunk), so the second search of a snippet, which is of *)
(* bodies only, ranks as the first does.                                   *)
(*                                                                         *)
(* An f32 is a natural: a BM25 score counts some small unit, a score on    *)
(* display, from 0.0 to 1.0, is one of 0 .. One.                           *)
(***************************************************************************)
EXTENDS Naturals, FiniteSets, Sequences, SequencesExt

CONSTANTS
    Chunks,           \* the chunks of the indexed files, each <<file, ord>>
    Scores,           \* BM25 scores
    Epsilon,          \* f32::EPSILON, in the unit of Scores
    One,              \* 1.0 on display, in steps of what an f32 tells apart
    Limits,           \* values of --limit
    SnippetDepth,     \* how much of the ranking snippet looks at
    MaxOffset         \* bound: the last --offset that is tried

ASSUME SearchAssumption ==
    /\ IsFiniteSet(Chunks) /\ Scores \subseteq Nat /\ Limits \subseteq Nat
    /\ Epsilon \in Nat /\ One \in Nat \ {0}
    /\ SnippetDepth \in Nat \ {0} /\ MaxOffset \in Nat

VARIABLES
    matches,          \* what the committed index finds, best first
    still,            \* nothing was committed since the first page
    first,            \* the offset of the first page
    offset,           \* the offset of the next
    outcome,          \* what the last run returned, and its limit
    lines,            \* what the last search printed
    read              \* the chunks of all pages since the first

vars == <<matches, still, first, offset, outcome, lines, read>>

NoOutcome == [hits |-> <<>>, total |-> 0, truncated |-> FALSE, limit |-> 0]
NoSnippet == <<>>

Smaller(m, n) == IF m <= n THEN m ELSE n
Larger(m, n) == IF m >= n THEN m ELSE n

\* Iterator::skip and Iterator::take.
Skip(s, n) == SubSeq(s, n + 1, Len(s))
Take(s, n) == SubSeq(s, 1, Smaller(n, Len(s)))

\* What a query may find.
Rankings ==
    {m \in BoundedSeq([chunk : Chunks, score : Scores], Cardinality(Chunks)) :
        \A r, s \in DOMAIN m :
            r < s => m[r].chunk # m[s].chunk /\ m[r].score >= m[s].score}

TypeOK ==
    /\ matches \in Rankings
    /\ still \in BOOLEAN
    /\ first \in Nat /\ offset \in Nat /\ first <= offset
    /\ \A n \in DOMAIN lines :
          /\ lines[n].number \in Nat \ {0} /\ lines[n].chunk \in Chunks
          /\ lines[n].score \in 0 .. One
    /\ Len(lines) <= outcome.limit
    /\ read \in Seq(Chunks)

Init ==
    /\ matches \in Rankings
    /\ still = TRUE
    /\ first = 0 /\ offset = 0
    /\ outcome = NoOutcome
    /\ lines = <<>> /\ read = <<>>

-----------------------------------------------------------------------------
\* n / d in f32, for n <= d: rounded to what there is.
Quotient(n, d) == (2 * One * n + d) \div (2 * d)

\* Mutant of Normalized: only equal scores are ties.
NormalizedExact(scores) ==
    LET best == scores[1]
        worst == scores[Len(scores)]
    IN  [r \in DOMAIN scores |->
            IF best = worst THEN One ELSE Quotient(scores[r] - worst, best - worst)]

\* min_max_normalize: 0 for the worst of the scores it is given and One for the
\* best, or One for all when they hardly differ.
Normalized(scores) ==
    LET best == scores[1]
        worst == scores[Len(scores)]
    IN  [r \in DOMAIN scores |->
            IF best - worst <= Epsilon THEN One
                                       ELSE Quotient(scores[r] - worst, best - worst)]

\* Mutant of Fetch: a page of hits is asked for.
FetchPage(limit) == Larger(limit, 1)

\* How many hits run asks the index for.
Fetch(limit) == Larger(limit + offset, 1)

\* FtsIndex::search.
Found(n) == Take(matches, n)

\* run, at the user's offset: scores are normalized over all that was fetched.
Run(limit) ==
    LET found == Found(Fetch(limit))
        display == Normalized([r \in DOMAIN found |-> found[r].score])
        all == [r \in DOMAIN found |-> [chunk |-> found[r].chunk, score |-> display[r]]]
        hits == Take(Skip(all, offset), limit)
    IN  [hits |-> hits, total |-> Len(all), limit |-> limit,
         truncated |-> Len(all) > offset + Len(hits)]

\* Mutant of Snippet: any chunk of the file will do.
SnippetOfFile(chunk) ==
    LET top == Found(SnippetDepth)
        r == SelectInSeq(top, LAMBDA m : m.chunk[1] = chunk[1])
    IN  IF r = 0 THEN NoSnippet ELSE top[r].chunk

\* snippet searches again for the hit: the chunk it takes its text from.
Snippet(chunk) ==
    LET top == Found(SnippetDepth)
        r == SelectInSeq(top, LAMBDA m : m.chunk = chunk)
    IN  IF r = 0 THEN NoSnippet ELSE top[r].chunk

Printed(hits) ==
    [n \in DOMAIN hits |->
        [number |-> offset + n, chunk |-> hits[n].chunk, score |-> hits[n].score,
         snippet |-> Snippet(hits[n].chunk)]]

\* The search command, after which the user goes on where the page ended.
SearchPage(limit) ==
    /\ offset <= MaxOffset
    /\ outcome' = Run(limit)
    /\ lines' = Printed(outcome'.hits)
    /\ read' = read \o [n \in DOMAIN lines' |-> lines'[n].chunk]
    /\ offset' = offset + limit
    /\ UNCHANGED <<matches, still, first>>

\* The user begins anew, at any offset.
StartAt(o) ==
    /\ first' = o /\ offset' = o
    /\ still' = TRUE
    /\ outcome' = NoOutcome /\ lines' = <<>> /\ read' = <<>>
    /\ UNCHANGED matches

\* Another command commits to the index.
CommitByOthers ==
    /\ still
    /\ matches' \in Rankings \ {matches}
    /\ still' = FALSE
    /\ UNCHANGED <<first, offset, outcome, lines, read>>

Next ==
    \/ \E limit \in Limits : SearchPage(limit)
    \/ \E o \in 0 .. MaxOffset : StartAt(o)
    \/ CommitByOthers

Spec == Init /\ [][Next]_vars

-----------------------------------------------------------------------------
(***************************************************************************)
(* What holds.                                                             *)
(***************************************************************************)

MatchedChunks == [r \in DOMAIN matches |-> matches[r].chunk]

\* Pages of any sizes are one ranking, cut: while the index holds still,
\* whoever turns them reads every match from the first page on, once, in order.
PagesTile == still => read = Take(Skip(MatchedChunks, first), offset - first)

\* Scores on display never turn two hits of a page round, though they may
\* show as equal what hardly differs.  A first page has all of the scale: its
\* best hit shows 1, its last one 0, or 1 when they hardly differ.
DisplayKeepsOrder ==
    still =>
        /\ \A m, n \in DOMAIN lines :
              matches[lines[m].number].score >= matches[lines[n].number].score
                  => lines[m].score >= lines[n].score
        /\ 1 \in DOMAIN lines /\ lines[1].number = 1 =>
              /\ lines[1].score = One
              /\ lines[Len(lines)].score =
                    IF matches[1].score - matches[Len(lines)].score <= Epsilon THEN One ELSE 0

\* Each line tells of one match: its number is the place of the match in the
\* whole ranking, and a snippet, which a second search looks for, is from the
\* same chunk.  Hits near the top have one.
LineIsOfItsMatch ==
    still => \A n \in DOMAIN lines :
        LET line == lines[n]
        IN  /\ line.number \in DOMAIN matches
            /\ matches[line.number].chunk = line.chunk
            /\ line.snippet = IF line.number <= SnippetDepth THEN line.chunk ELSE NoSnippet

=============================================================================
