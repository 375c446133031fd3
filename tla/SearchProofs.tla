---------------------------- MODULE SearchProofs ----------------------------
(***************************************************************************)
(* Proofs about Search, for any number of chunks and any pages.            *)
(*                                                                         *)
(* The argument: what Run returns is a piece of the ranking, whatever it   *)
(* fetched, as it always fetches to the end of the page; a page that       *)
(* begins where the last one ended extends what was read.                  *)
(***************************************************************************)
EXTENDS Search, FiniteSetTheorems, SequenceTheorems, TLAPS

Match == [chunk : Chunks, score : Scores]
Hit == [chunk : Chunks, score : Int]

\* What is fetched, and the scores on display for all of it.
Fetched(limit) == Found(Fetch(limit))
Display(limit) ==
    Normalized([r \in DOMAIN Fetched(limit) |-> Fetched(limit)[r].score])

\* Where the user is.
PlaceInv ==
    /\ matches \in Rankings
    /\ still \in BOOLEAN
    /\ first \in Nat /\ offset \in Nat /\ first <= offset

IInv == PlaceInv /\ PagesTile /\ DisplayKeepsOrder /\ LineIsOfItsMatch

-----------------------------------------------------------------------------
(***************************************************************************)
(* Pieces of sequences.                                                    *)
(***************************************************************************)
LEMMA TakeType ==
    ASSUME NEW S, NEW s \in Seq(S), NEW n \in Nat
    PROVE  /\ Take(s, n) \in Seq(S)
           /\ Len(Take(s, n)) = Smaller(n, Len(s))
           /\ \A r \in 1 .. Smaller(n, Len(s)) : Take(s, n)[r] = s[r]
<1> DEFINE m == Smaller(n, Len(s))
<1>1. Len(s) \in Nat /\ \A r \in 1 .. Len(s) : s[r] \in S
  BY ElementOfSeq, LenProperties
<1>2. m \in Nat /\ m <= Len(s)
  BY <1>1 DEF Smaller
<1>3. \A r \in 1 .. m : s[r] \in S
  BY <1>1, <1>2
<1> HIDE DEF m
<1>4. /\ SubSeq(s, 1, m) \in Seq(S)
      /\ Len(SubSeq(s, 1, m)) = IF 1 <= m THEN m - 1 + 1 ELSE 0
      /\ \A r \in 1 .. m - 1 + 1 : SubSeq(s, 1, m)[r] = s[1 + r - 1]
  BY <1>2, <1>3, SubSeqProperties
<1>5. QED
  <2>1. Len(SubSeq(s, 1, m)) = m /\ \A r \in 1 .. m : SubSeq(s, 1, m)[r] = s[r]
    BY <1>2, <1>4
  <2>2. QED
    BY <1>4, <2>1 DEF Take, m

LEMMA SkipType ==
    ASSUME NEW S, NEW s \in Seq(S), NEW n \in Nat
    PROVE  /\ Skip(s, n) \in Seq(S)
           /\ Len(Skip(s, n)) = IF n <= Len(s) THEN Len(s) - n ELSE 0
           /\ \A r \in 1 .. Len(s) - n : Skip(s, n)[r] = s[n + r]
<1>1. Len(s) \in Nat /\ \A r \in 1 .. Len(s) : s[r] \in S
  BY ElementOfSeq, LenProperties
<1>2. \A r \in n + 1 .. Len(s) : s[r] \in S
  BY <1>1
<1>3. /\ SubSeq(s, n + 1, Len(s)) \in Seq(S)
      /\ Len(SubSeq(s, n + 1, Len(s))) =
            IF n + 1 <= Len(s) THEN Len(s) - (n + 1) + 1 ELSE 0
      /\ \A r \in 1 .. Len(s) - (n + 1) + 1 :
            SubSeq(s, n + 1, Len(s))[r] = s[n + 1 + r - 1]
  BY <1>1, <1>2, SubSeqProperties
<1>4. Len(Skip(s, n)) = IF n <= Len(s) THEN Len(s) - n ELSE 0
  BY <1>1, <1>3 DEF Skip
<1>5. \A r \in 1 .. Len(s) - n : Skip(s, n)[r] = s[n + r]
  BY <1>1, <1>3 DEF Skip
<1>6. QED
  BY <1>3, <1>4, <1>5 DEF Skip

\* A page of a sequence.
LEMMA PageType ==
    ASSUME NEW S, NEW s \in Seq(S), NEW n \in Nat, NEW k \in Nat
    PROVE  LET page == Take(Skip(s, n), k)
           IN  /\ page \in Seq(S)
               /\ Len(page) = IF n <= Len(s) THEN Smaller(k, Len(s) - n) ELSE 0
               /\ \A r \in 1 .. Len(page) : page[r] = s[n + r]
<1> DEFINE rest == Skip(s, n)
           page == Take(rest, k)
<1>1. /\ rest \in Seq(S)
      /\ Len(rest) = IF n <= Len(s) THEN Len(s) - n ELSE 0
      /\ \A r \in 1 .. Len(s) - n : rest[r] = s[n + r]
  BY SkipType
<1>2. Len(s) \in Nat /\ Len(rest) \in Nat
  BY <1>1, LenProperties
<1> HIDE DEF rest
<1>3. /\ page \in Seq(S)
      /\ Len(page) = Smaller(k, Len(rest))
      /\ \A r \in 1 .. Smaller(k, Len(rest)) : page[r] = rest[r]
  BY <1>1, TakeType
<1> HIDE DEF page
<1>4. Len(page) = IF n <= Len(s) THEN Smaller(k, Len(s) - n) ELSE 0
  BY <1>1, <1>2, <1>3 DEF Smaller
<1>5. \A r \in 1 .. Len(page) : page[r] = s[n + r]
  <2> SUFFICES ASSUME NEW r \in 1 .. Len(page) PROVE page[r] = s[n + r]
    OBVIOUS
  <2>1. r \in 1 .. Smaller(k, Len(rest)) /\ r \in 1 .. Len(s) - n
    BY <1>1, <1>2, <1>3 DEF Smaller
  <2>2. QED
    BY <1>1, <1>3, <2>1
<1>6. QED
  BY <1>3, <1>4, <1>5 DEF page, rest

\* How long a page is, of a sequence of length n.
PageLen(n, start, k) == IF start <= n THEN Smaller(k, n - start) ELSE 0

LEMMA PageLengths ==
    ASSUME NEW n \in Nat, NEW f \in Nat, NEW o \in Nat, NEW k \in Nat, f <= o
    PROVE  /\ PageLen(n, f, (o + k) - f) = PageLen(n, f, o - f) + PageLen(n, o, k)
           /\ PageLen(n, o, k) > 0 => PageLen(n, f, o - f) = o - f
  BY DEF PageLen, Smaller

\* The next page continues the one before.
LEMMA NextPage ==
    ASSUME NEW S, NEW s \in Seq(S), NEW f \in Nat, NEW o \in Nat, NEW k \in Nat, f <= o
    PROVE  Take(Skip(s, f), o - f) \o Take(Skip(s, o), k) = Take(Skip(s, f), (o + k) - f)
<1> DEFINE before == Take(Skip(s, f), o - f)
           page == Take(Skip(s, o), k)
           both == Take(Skip(s, f), (o + k) - f)
           joined == before \o page
           n == Len(s)
<1>1. n \in Nat /\ o - f \in Nat /\ (o + k) - f \in Nat
  BY LenProperties
<1>2. /\ before \in Seq(S) /\ Len(before) = PageLen(n, f, o - f)
      /\ \A r \in 1 .. Len(before) : before[r] = s[f + r]
  BY <1>1, PageType, ZenonT(60) DEF PageLen
<1>3. /\ page \in Seq(S) /\ Len(page) = PageLen(n, o, k)
      /\ \A r \in 1 .. Len(page) : page[r] = s[o + r]
  BY <1>1, PageType, ZenonT(60) DEF PageLen
<1>4. /\ both \in Seq(S) /\ Len(both) = PageLen(n, f, (o + k) - f)
      /\ \A r \in 1 .. Len(both) : both[r] = s[f + r]
  BY <1>1, PageType, ZenonT(60) DEF PageLen
<1> HIDE DEF before, page, both, n
<1>5. /\ joined \in Seq(S)
      /\ Len(joined) = Len(before) + Len(page)
      /\ \A r \in 1 .. Len(before) + Len(page) :
            joined[r] = IF r <= Len(before) THEN before[r] ELSE page[r - Len(before)]
  BY <1>2, <1>3, ConcatProperties
<1> HIDE DEF joined
<1>6. /\ Len(before) \in Nat /\ Len(page) \in Nat
      /\ Len(both) = Len(before) + Len(page)
      /\ Len(page) > 0 => Len(before) = o - f
  BY <1>1, <1>2, <1>3, <1>4, LenProperties, PageLengths, SMTT(30)
<1>7. \A r \in 1 .. Len(both) : both[r] = joined[r]
  <2> SUFFICES ASSUME NEW r \in 1 .. Len(both) PROVE both[r] = joined[r]
    OBVIOUS
  <2>1. CASE r <= Len(before)
    <3>1. r \in 1 .. Len(before) /\ r \in 1 .. Len(before) + Len(page)
      BY <1>6, <2>1
    <3>2. QED
      BY <1>2, <1>4, <1>5, <2>1, <3>1
  <2>2. CASE ~(r <= Len(before))
    <3>1. /\ Len(before) = o - f /\ r - Len(before) \in 1 .. Len(page)
          /\ r \in 1 .. Len(before) + Len(page)
      BY <1>6, <2>2
    <3>2. o + (r - Len(before)) = f + r
      BY <1>1, <3>1
    <3>3. joined[r] = page[r - Len(before)]
      BY <1>5, <2>2, <3>1
    <3>4. QED
      BY <1>3, <1>4, <3>1, <3>2, <3>3
  <2>3. QED
    BY <2>1, <2>2
<1>8. Len(both) = Len(joined)
  BY <1>5, <1>6
<1>9. both = joined
  BY <1>4, <1>5, <1>7, <1>8, SeqEqual
<1>10. QED
  BY <1>9 DEF both, joined, before, page

-----------------------------------------------------------------------------
(***************************************************************************)
(* What a run returns.                                                     *)
(***************************************************************************)
LEMMA RankingType ==
    ASSUME NEW m \in Rankings
    PROVE  /\ m \in Seq(Match)
           /\ \A r, s \in 1 .. Len(m) :
                 r < s => m[r].chunk # m[s].chunk /\ m[r].score >= m[s].score
           /\ \A r \in 1 .. Len(m) : m[r].chunk \in Chunks /\ m[r].score \in Nat
<1>1. Cardinality(Chunks) \in Nat
  BY SearchAssumption, FS_CardinalityType
<1>2. \A n \in Nat : [1 .. n -> Match] \subseteq Seq(Match)
  OBVIOUS
<1>3. m \in Seq(Match)
  <2>1. m \in BoundedSeq(Match, Cardinality(Chunks))
    BY DEF Rankings, Match
  <2>2. PICK n \in 0 .. Cardinality(Chunks) : m \in [1 .. n -> Match]
    BY <2>1 DEF BoundedSeq, SeqOf
  <2>3. QED
    BY <1>1, <1>2, <2>2
<1>4. DOMAIN m = 1 .. Len(m) /\ \A r \in 1 .. Len(m) : m[r] \in Match
  BY <1>3, LenProperties, ElementOfSeq
<1>5. \A r \in 1 .. Len(m) : m[r].chunk \in Chunks /\ m[r].score \in Nat
  BY <1>4, SearchAssumption DEF Match
<1>6. QED
  BY <1>3, <1>4, <1>5 DEF Rankings

LEMMA FetchedType ==
    ASSUME PlaceInv, NEW limit \in Nat
    PROVE  /\ Fetched(limit) \in Seq(Match)
           /\ Len(Fetched(limit)) = Smaller(Fetch(limit), Len(matches))
           /\ \A r \in 1 .. Len(Fetched(limit)) : Fetched(limit)[r] = matches[r]
<1>1. matches \in Seq(Match)
  BY RankingType DEF PlaceInv
<1>2. Fetch(limit) \in Nat
  BY DEF PlaceInv, Fetch, Larger
<1>3. QED
  BY <1>1, <1>2, TakeType DEF Fetched, Found

\* The scores on display: all are the best, or each is what it is above the
\* worst, as a share of what the best is.
LEMMA DisplayType ==
    ASSUME PlaceInv, NEW limit \in Nat
    PROVE  LET F == Fetched(limit)
               worst == F[Len(F)].score
           IN  /\ DOMAIN Display(limit) = 1 .. Len(F)
               /\ \A r \in 1 .. Len(F) :
                     Display(limit)[r] =
                         IF F[1].score - worst <= Epsilon THEN One
                         ELSE Quotient(F[r].score - worst, F[1].score - worst)
<1> DEFINE F == Fetched(limit)
           scores == [r \in DOMAIN F |-> F[r].score]
<1>1. DOMAIN F = 1 .. Len(F) /\ Len(F) \in Nat
  BY FetchedType, LenProperties
<1>2. DOMAIN scores = 1 .. Len(F) /\ Len(scores) = Len(F)
  BY <1>1
<1>3. \A r \in 1 .. Len(F) : scores[r] = F[r].score
  BY <1>1
<1>4. Display(limit) = Normalized(scores)
  BY DEF Display
<1> HIDE DEF scores, F
<1>5. DOMAIN Normalized(scores) = 1 .. Len(F)
  BY <1>2 DEF Normalized
<1>6. ASSUME NEW r \in 1 .. Len(F)
      PROVE  Normalized(scores)[r] =
                 IF F[1].score - F[Len(F)].score <= Epsilon THEN One
                 ELSE Quotient(F[r].score - F[Len(F)].score,
                               F[1].score - F[Len(F)].score)
  <2>1. 1 \in 1 .. Len(F) /\ Len(F) \in 1 .. Len(F)
    BY <1>1
  <2>2. QED
    BY <1>2, <1>3, <2>1 DEF Normalized
<1>7. QED
  BY <1>4, <1>5, <1>6 DEF F

LEMMA FetchedScores ==
    ASSUME PlaceInv, NEW limit \in Nat
    PROVE  /\ Len(matches) \in Nat /\ Len(Fetched(limit)) \in Nat
           /\ Len(Fetched(limit)) <= Len(matches)
           /\ \A r \in 1 .. Len(Fetched(limit)) :
                 /\ Fetched(limit)[r].score = matches[r].score
                 /\ Fetched(limit)[r].chunk = matches[r].chunk
                 /\ Fetched(limit)[r].score \in Nat
<1> DEFINE F == Fetched(limit)
<1>1. Len(matches) \in Nat /\ Fetch(limit) \in Nat
  BY RankingType, LenProperties DEF PlaceInv, Fetch, Larger
<1>2. Len(F) = Smaller(Fetch(limit), Len(matches)) /\ \A r \in 1 .. Len(F) : F[r] = matches[r]
  BY FetchedType
<1>3. \A r \in 1 .. Len(matches) : matches[r].score \in Nat
  BY RankingType DEF PlaceInv
<1> HIDE DEF F
<1>4. Len(F) \in Nat /\ Len(F) <= Len(matches)
  BY <1>1, <1>2 DEF Smaller
<1>5. ASSUME NEW r \in 1 .. Len(F)
      PROVE  F[r].score = matches[r].score /\ F[r].chunk = matches[r].chunk /\ F[r].score \in Nat
  BY <1>1, <1>2, <1>3, <1>4
<1>6. QED
  BY <1>1, <1>4, <1>5 DEF F

\* What is fetched stands in order, so the scores are between the ends.
LEMMA FetchedOrder ==
    ASSUME PlaceInv, NEW limit \in Nat,
           NEW r \in 1 .. Len(Fetched(limit)), NEW t \in 1 .. Len(Fetched(limit)),
           r <= t
    PROVE  Fetched(limit)[r].score >= Fetched(limit)[t].score
<1> DEFINE F == Fetched(limit)
<1>1. /\ Len(F) \in Nat /\ Len(matches) \in Nat /\ Len(F) <= Len(matches)
      /\ \A n \in 1 .. Len(F) : F[n].score = matches[n].score /\ F[n].score \in Nat
  BY FetchedScores
<1>2. \A m, n \in 1 .. Len(matches) : m < n => matches[m].score >= matches[n].score
  BY RankingType DEF PlaceInv
<1>3. r \in 1 .. Len(F) /\ t \in 1 .. Len(F)
  OBVIOUS
<1> HIDE DEF F
<1>4. CASE r = t
  BY <1>1, <1>3, <1>4 DEF F
<1>5. CASE r < t
  <2>1. r \in 1 .. Len(matches) /\ t \in 1 .. Len(matches)
    BY <1>1, <1>3
  <2>2. F[r].score = matches[r].score /\ F[t].score = matches[t].score
    BY <1>1, <1>3
  <2>3. QED
    BY <1>2, <1>5, <2>1, <2>2 DEF F
<1>6. QED
  BY <1>1, <1>3, <1>4, <1>5

LEMMA FetchedEnds ==
    ASSUME PlaceInv, NEW limit \in Nat, NEW r \in 1 .. Len(Fetched(limit))
    PROVE  LET F == Fetched(limit)
               worst == F[Len(F)].score
               best == F[1].score
           IN  /\ 1 \in 1 .. Len(F) /\ Len(F) \in 1 .. Len(F)
               /\ worst \in Nat /\ best \in Nat /\ F[r].score \in Nat
               /\ worst <= F[r].score /\ F[r].score <= best
<1> DEFINE F == Fetched(limit)
<1>1. Len(F) \in Nat /\ \A n \in 1 .. Len(F) : F[n].score \in Nat
  BY FetchedScores
<1>2. \A m, n \in 1 .. Len(F) : m <= n => F[m].score >= F[n].score
  BY FetchedOrder
<1>3. r \in 1 .. Len(F)
  OBVIOUS
<1> HIDE DEF F
<1>4. 1 \in 1 .. Len(F) /\ Len(F) \in 1 .. Len(F) /\ 1 <= r /\ r <= Len(F)
  BY <1>1, <1>3
<1>5. F[1].score \in Nat /\ F[Len(F)].score \in Nat /\ F[r].score \in Nat
  BY <1>1, <1>3, <1>4
<1>6. F[1].score >= F[r].score /\ F[r].score >= F[Len(F)].score
  BY <1>2, <1>3, <1>4
<1>7. QED
  BY <1>4, <1>5, <1>6 DEF F

-----------------------------------------------------------------------------
(***************************************************************************)
(* f32 division keeps the order.                                           *)
(***************************************************************************)
LEMMA DivisionIs ==
    ASSUME NEW x \in Nat, NEW d \in Nat \ {0}
    PROVE  x \div d \in Int /\ d * (x \div d) <= x /\ x < d * (x \div d) + d
  OBVIOUS

LEMMA DivisionOrder ==
    ASSUME NEW x \in Nat, NEW y \in Nat, NEW d \in Nat \ {0}, x <= y
    PROVE  x \div d <= y \div d
<1> DEFINE p == x \div d
           q == y \div d
<1>1. p \in Int /\ q \in Int /\ d * p <= x /\ y < d * q + d
  BY DivisionIs
<1> HIDE DEF p, q
<1>2. SUFFICES ASSUME q + 1 <= p PROVE FALSE
  BY <1>1 DEF p, q
<1>3. d * (q + 1) <= d * p
  <2>1. PICK k \in Nat : p = (q + 1) + k
    BY <1>1, <1>2
  <2>2. d * p = d * (q + 1) + d * k /\ d * k \in Nat
    BY <1>1, <2>1
  <2>3. QED
    BY <1>1, <2>2
<1>4. d * (q + 1) = d * q + d
  BY <1>1
<1>5. d * q \in Int /\ d * p \in Int
  BY <1>1
<1>6. QED
  BY <1>1, <1>3, <1>4, <1>5

LEMMA DivisionExact ==
    ASSUME NEW q \in Nat, NEW r \in Nat, NEW d \in Nat \ {0}, r < d
    PROVE  (d * q + r) \div d = q
<1> DEFINE x == d * q + r
           p == x \div d
<1>1. d * q \in Nat /\ x \in Nat
  OBVIOUS
<1>2. p \in Int /\ d * p <= x /\ x < d * p + d
  BY <1>1, DivisionIs
<1>3. d * p \in Int /\ d * p < d * q + d /\ d * q < d * p + d
  <2>1. d * p \in Int
    BY <1>2
  <2>2. QED
    BY <1>1, <1>2, <2>1
<1> HIDE DEF p, x
<1>4. ~(p < q)
  <2> SUFFICES ASSUME p < q PROVE FALSE
    OBVIOUS
  <2>1. PICK k \in Nat : q = p + 1 + k
    BY <1>2
  <2>2. d * q = d * p + d + d * k /\ d * k \in Nat
    BY <1>2, <2>1
  <2>3. QED
    BY <1>3, <2>2
<1>5. ~(q < p)
  <2> SUFFICES ASSUME q < p PROVE FALSE
    OBVIOUS
  <2>1. PICK k \in Nat : p = q + 1 + k
    BY <1>2
  <2>2. d * p = d * q + d + d * k /\ d * k \in Nat
    BY <1>2, <2>1
  <2>3. QED
    BY <1>3, <2>2
<1>6. QED
  BY <1>2, <1>4, <1>5 DEF p, x

LEMMA QuotientIs ==
    ASSUME NEW d \in Nat \ {0}, NEW m \in Nat, NEW n \in Nat, m <= n
    PROVE  /\ Quotient(n, d) \in Int
           /\ Quotient(m, d) <= Quotient(n, d)
           /\ Quotient(0, d) = 0 /\ Quotient(d, d) = One
<1>1. One \in Nat /\ 2 * d \in Nat \ {0} /\ d < 2 * d
  BY SearchAssumption
<1>2. 2 * One * m + d \in Nat /\ 2 * One * n + d \in Nat
  BY <1>1
<1>3. 2 * One * m + d <= 2 * One * n + d
  <2>1. PICK k \in Nat : n = m + k
    OBVIOUS
  <2>2. 2 * One * n = 2 * One * m + 2 * One * k /\ 2 * One * k \in Nat
    BY <1>1, <2>1
  <2>3. QED
    BY <1>1, <2>2
<1>4. Quotient(n, d) \in Int
  BY <1>1, <1>2, DivisionIs DEF Quotient
<1>5. Quotient(m, d) <= Quotient(n, d)
  BY <1>1, <1>2, <1>3, DivisionOrder DEF Quotient
<1>6. Quotient(0, d) = 0
  <2>1. 2 * One * 0 + d = (2 * d) * 0 + d
    BY <1>1
  <2>2. ((2 * d) * 0 + d) \div (2 * d) = 0
    BY <1>1, DivisionExact
  <2>3. QED
    BY <2>1, <2>2 DEF Quotient
<1>7. Quotient(d, d) = One
  <2>1. 2 * One * d + d = (2 * d) * One + d
    BY <1>1
  <2>2. ((2 * d) * One + d) \div (2 * d) = One
    BY <1>1, DivisionExact
  <2>3. QED
    BY <2>1, <2>2 DEF Quotient
<1>8. QED
  BY <1>4, <1>5, <1>6, <1>7

\* The scores on display, two at a time, and those of the ends.
LEMMA DisplayOrder ==
    ASSUME PlaceInv, NEW limit \in Nat,
           NEW r \in 1 .. Len(Fetched(limit)), NEW t \in 1 .. Len(Fetched(limit))
    PROVE  LET F == Fetched(limit)
               D == Display(limit)
           IN  /\ D[r] \in Int
               /\ matches[r].score >= matches[t].score => D[r] >= D[t]
               /\ D[1] = One
               /\ D[Len(F)] = IF matches[1].score - matches[Len(F)].score <= Epsilon
                                 THEN One ELSE 0
<1> DEFINE F == Fetched(limit)
           D == Display(limit)
           worst == F[Len(F)].score
           best == F[1].score
           a == F[r].score
           b == F[t].score
<1>1. \A n \in 1 .. Len(F) :
          D[n] = IF best - worst <= Epsilon THEN One
                 ELSE Quotient(F[n].score - worst, best - worst)
  BY DisplayType
<1>2. /\ 1 \in 1 .. Len(F) /\ Len(F) \in 1 .. Len(F)
      /\ worst \in Nat /\ best \in Nat /\ a \in Nat /\ b \in Nat
      /\ worst <= a /\ a <= best /\ worst <= b /\ b <= best
  BY FetchedEnds
<1>3. a = matches[r].score /\ b = matches[t].score
  BY FetchedScores
<1>4. best = matches[1].score /\ worst = matches[Len(F)].score
  BY <1>2, FetchedScores
<1>5. /\ D[r] = IF best - worst <= Epsilon THEN One ELSE Quotient(a - worst, best - worst)
      /\ D[t] = IF best - worst <= Epsilon THEN One ELSE Quotient(b - worst, best - worst)
      /\ D[1] = IF best - worst <= Epsilon THEN One ELSE Quotient(best - worst, best - worst)
      /\ D[Len(F)] =
            IF best - worst <= Epsilon THEN One ELSE Quotient(worst - worst, best - worst)
  BY <1>1, <1>2
<1>6. One \in Nat /\ Epsilon \in Nat
  BY SearchAssumption
<1> HIDE DEF F, D, worst, best, a, b
<1>7. CASE best - worst <= Epsilon
  BY <1>3, <1>4, <1>5, <1>6, <1>7 DEF F, D
<1>8. CASE ~(best - worst <= Epsilon)
  <2> DEFINE d == best - worst
             m == a - worst
             n == b - worst
  <2>1. d \in Nat \ {0} /\ m \in Nat /\ n \in Nat /\ worst - worst = 0
    BY <1>2, <1>6, <1>8
  <2>2. a >= b => n <= m
    BY <1>2
  <2>3. D[r] = Quotient(m, d) /\ D[t] = Quotient(n, d) /\ D[1] = Quotient(d, d)
        /\ D[Len(F)] = Quotient(0, d)
    BY <1>5, <1>8, <2>1
  <2> HIDE DEF d, m, n
  <2>4. Quotient(m, d) \in Int /\ Quotient(d, d) = One /\ Quotient(0, d) = 0
    BY <2>1, QuotientIs
  <2>5. ASSUME n <= m PROVE Quotient(n, d) <= Quotient(m, d) /\ Quotient(n, d) \in Int
    <3>1. m \in Nat /\ n \in Nat /\ d \in Nat \ {0}
      BY <2>1
    <3>2. \A i, j \in Nat : i <= j =>
              Quotient(i, d) <= Quotient(j, d) /\ Quotient(i, d) \in Int
      <4> TAKE i, j \in Nat
      <4> HAVE i <= j
      <4>1. /\ Quotient(i, d) <= Quotient(j, d)
        BY <3>1, QuotientIs
      <4>2. Quotient(i, d) \in Int
        BY <3>1, QuotientIs
      <4>3. QED
        BY <4>1, <4>2
    <3>3. QED
      BY <2>5, <3>1, <3>2
  <2>6. a >= b => D[r] >= D[t]
    BY <2>2, <2>3, <2>4, <2>5
  <2>7. QED
    BY <1>3, <1>4, <1>8, <2>3, <2>4, <2>6 DEF F, D
<1>9. QED
  BY <1>7, <1>8

LEMMA ScoreType ==
    ASSUME PlaceInv, NEW limit \in Nat, NEW r \in 1 .. Len(Fetched(limit))
    PROVE  Display(limit)[r] \in Int
  BY DisplayOrder

\* All hits a run had before it cut the page out.
All(limit) ==
    [r \in DOMAIN Fetched(limit) |->
        [chunk |-> Fetched(limit)[r].chunk, score |-> Display(limit)[r]]]

LEMMA AllType ==
    ASSUME PlaceInv, NEW limit \in Nat
    PROVE  /\ All(limit) \in Seq(Hit)
           /\ Len(All(limit)) = Len(Fetched(limit))
           /\ \A r \in 1 .. Len(Fetched(limit)) :
                 /\ All(limit)[r].chunk = matches[r].chunk
                 /\ All(limit)[r].score = Display(limit)[r]
<1> DEFINE F == Fetched(limit)
           hit(r) == [chunk |-> F[r].chunk, score |-> Display(limit)[r]]
<1>1. DOMAIN F = 1 .. Len(F) /\ Len(F) \in Nat
  BY FetchedType, LenProperties
<1>2. \A r \in 1 .. Len(F) : hit(r) \in Hit
  <2> SUFFICES ASSUME NEW r \in 1 .. Len(F) PROVE hit(r) \in Hit
    OBVIOUS
  <2>1. matches \in Rankings /\ r \in 1 .. Len(matches)
    <3>1. Len(matches) \in Nat /\ Len(F) \in Nat /\ Len(F) <= Len(matches)
      BY FetchedScores
    <3> HIDE DEF F
    <3>2. r \in 1 .. Len(matches)
      BY <3>1
    <3>3. QED
      BY <3>2 DEF PlaceInv
  <2>2. F[r].chunk \in Chunks
    BY <2>1, RankingType, FetchedScores
  <2>3. QED
    BY <2>2, ScoreType DEF Hit
<1>3. All(limit) = [r \in 1 .. Len(F) |-> hit(r)]
  BY <1>1 DEF All
<1>4. All(limit) \in [1 .. Len(F) -> Hit]
  BY <1>2, <1>3
<1>5. All(limit) \in Seq(Hit) /\ Len(All(limit)) = Len(F)
  BY <1>1, <1>4
<1>6. ASSUME NEW r \in 1 .. Len(F)
      PROVE  /\ All(limit)[r].chunk = matches[r].chunk
             /\ All(limit)[r].score = Display(limit)[r]
  <2>1. All(limit)[r] = hit(r)
    BY <1>3
  <2>2. F[r].chunk = matches[r].chunk
    BY FetchedScores
  <2>3. QED
    BY <2>1, <2>2
<1>7. QED
  BY <1>5, <1>6

\* Run fetches enough for its page.
LEMMA FetchEnough ==
    ASSUME NEW n \in Nat, NEW limit \in Nat, offset \in Nat
    PROVE  PageLen(Smaller(Fetch(limit), n), offset, limit) = PageLen(n, offset, limit)
  BY DEF PageLen, Smaller, Fetch, Larger

\* What a page holds: the matches at its place, as the whole fetch shows them.
LEMMA RunType ==
    ASSUME PlaceInv, NEW limit \in Nat
    PROVE  LET hits == Run(limit).hits
           IN  /\ DOMAIN hits = 1 .. PageLen(Len(matches), offset, limit)
               /\ \A n \in DOMAIN hits :
                     /\ offset + n \in 1 .. Len(Fetched(limit))
                     /\ hits[n].chunk = matches[offset + n].chunk
                     /\ hits[n].score = Display(limit)[offset + n]
<1> DEFINE hits == Run(limit).hits
           k == PageLen(Len(matches), offset, limit)
<1>1. hits = Take(Skip(All(limit), offset), limit)
  BY DEF Run, All, Display, Fetched
<1>2. All(limit) \in Seq(Hit) /\ Len(All(limit)) = Len(Fetched(limit)) /\ offset \in Nat
  BY AllType DEF PlaceInv
<1>3. /\ hits \in Seq(Hit)
      /\ Len(hits) = PageLen(Len(Fetched(limit)), offset, limit)
      /\ \A n \in 1 .. Len(hits) : hits[n] = All(limit)[offset + n]
  <2> DEFINE all == All(limit)
             page == Take(Skip(all, offset), limit)
  <2>1. all \in Seq(Hit) /\ offset \in Nat
    BY <1>2
  <2> HIDE DEF all
  <2>2. /\ page \in Seq(Hit)
        /\ Len(page) = PageLen(Len(all), offset, limit)
        /\ \A n \in 1 .. Len(page) : page[n] = all[offset + n]
    BY <2>1, PageType DEF PageLen
  <2>3. hits = page
    BY <1>1 DEF all
  <2> HIDE DEF page
  <2>4. QED
    BY <1>2, <2>2, <2>3 DEF all
<1>4. Len(hits) = k /\ Len(matches) \in Nat
  <2>1. Len(matches) \in Nat
    BY FetchedScores
  <2>2. PageLen(Len(Fetched(limit)), offset, limit) = k
    <3>1. Len(Fetched(limit)) = Smaller(Fetch(limit), Len(matches))
      BY FetchedType
    <3>2. PageLen(Smaller(Fetch(limit), Len(matches)), offset, limit) = k
      BY <1>2, <2>1, FetchEnough
    <3>3. QED
      BY <3>1, <3>2
  <2>3. QED
    BY <1>3, <2>1, <2>2
<1> HIDE DEF hits
<1>5. DOMAIN hits = 1 .. Len(hits)
  BY <1>3, LenProperties
<1>6. ASSUME NEW n \in 1 .. Len(hits)
      PROVE  offset + n \in 1 .. Len(Fetched(limit))
  <2> DEFINE z == Len(Fetched(limit))
  <2>1. z \in Nat
    BY FetchedScores
  <2>2. Len(hits) = PageLen(z, offset, limit) /\ offset \in Nat
    BY <1>2, <1>3
  <2> HIDE DEF z
  <2>3. n \in 1 .. PageLen(z, offset, limit)
    BY <2>2
  <2>4. offset + n \in 1 .. z
    BY <2>1, <2>2, <2>3 DEF PageLen, Smaller
  <2>5. QED
    BY <2>4 DEF z
<1>7. QED
  BY <1>3, <1>4, <1>5, <1>6, AllType, ZenonT(60) DEF hits

-----------------------------------------------------------------------------
(***************************************************************************)
(* What the search command prints.                                         *)
(***************************************************************************)
LEMMA LinesType ==
    ASSUME PlaceInv, NEW limit \in Nat, SearchPage(limit)
    PROVE  /\ DOMAIN lines' = 1 .. PageLen(Len(matches), offset, limit)
           /\ \A n \in DOMAIN lines' :
                 /\ offset + n \in 1 .. Len(Fetched(limit))
                 /\ lines'[n].number = offset + n
                 /\ lines'[n].chunk = matches[offset + n].chunk
                 /\ lines'[n].score = Display(limit)[offset + n]
                 /\ lines'[n].snippet = Snippet(matches[offset + n].chunk)
<1> DEFINE hits == Run(limit).hits
<1>1. lines' = Printed(hits)
  BY DEF SearchPage
<1>2. /\ DOMAIN hits = 1 .. PageLen(Len(matches), offset, limit)
      /\ \A n \in DOMAIN hits :
            /\ offset + n \in 1 .. Len(Fetched(limit))
            /\ hits[n].chunk = matches[offset + n].chunk
            /\ hits[n].score = Display(limit)[offset + n]
  BY RunType
<1> HIDE DEF hits
<1>3. DOMAIN lines' = DOMAIN hits
  BY <1>1 DEF Printed
<1>4. ASSUME NEW n \in DOMAIN hits
      PROVE  lines'[n] = [number |-> offset + n, chunk |-> hits[n].chunk,
                          score |-> hits[n].score, snippet |-> Snippet(hits[n].chunk)]
  BY <1>1 DEF Printed
<1>5. QED
  BY <1>2, <1>3, <1>4

\* A snippet is from the chunk it was made for, if the match is near the top.
LEMMA SnippetOfMatch ==
    ASSUME matches \in Rankings, NEW p \in 1 .. Len(matches)
    PROVE  Snippet(matches[p].chunk) =
               IF p <= SnippetDepth THEN matches[p].chunk ELSE NoSnippet
<1> DEFINE top == Found(SnippetDepth)
           chunk == matches[p].chunk
           I == {n \in 1 .. Len(top) : top[n].chunk = chunk}
<1>1. matches \in Seq(Match) /\ Len(matches) \in Nat /\ SnippetDepth \in Nat
  BY RankingType, LenProperties, SearchAssumption
<1>2. /\ Len(top) = Smaller(SnippetDepth, Len(matches))
      /\ \A n \in 1 .. Len(top) : top[n] = matches[n]
  BY <1>1, TakeType DEF Found
<1>3. SelectInSeq(top, LAMBDA m : m.chunk = chunk) = IF I # {} THEN Min(I) ELSE 0
  BY DEF SelectInSeq
<1>4. \A n \in 1 .. Len(matches) : matches[n].chunk = chunk => n = p
  <2> SUFFICES ASSUME NEW n \in 1 .. Len(matches), matches[n].chunk = chunk, n # p
               PROVE  FALSE
    OBVIOUS
  <2>1. n < p \/ p < n
    BY <1>1
  <2>2. QED
    BY <2>1, RankingType
<1> HIDE DEF top
<1>5. CASE p <= SnippetDepth
  <2>1. p \in 1 .. Len(top)
    BY <1>1, <1>2, <1>5 DEF Smaller
  <2>2. I = {p}
    BY <1>1, <1>2, <1>4, <2>1 DEF Smaller
  <2>3. Min(I) = p
    BY <2>2 DEF Min
  <2>4. top[p].chunk = chunk /\ p # 0
    BY <1>2, <2>1
  <2>5. QED
    BY <1>3, <1>5, <2>2, <2>3, <2>4 DEF Snippet, top
<1>6. CASE ~(p <= SnippetDepth)
  <2>1. I = {}
    BY <1>1, <1>2, <1>4, <1>6 DEF Smaller
  <2>2. QED
    BY <1>3, <1>6, <2>1 DEF Snippet, top
<1>7. QED
  BY <1>5, <1>6

-----------------------------------------------------------------------------
(***************************************************************************)
(* The steps.                                                              *)
(***************************************************************************)
LEMMA PlaceStep == PlaceInv /\ [Next]_vars => PlaceInv'
<1> SUFFICES ASSUME PlaceInv, [Next]_vars PROVE PlaceInv'
  OBVIOUS
<1>1. ASSUME NEW limit \in Limits, SearchPage(limit) PROVE PlaceInv'
  <2>1. limit \in Nat
    BY SearchAssumption
  <2>2. QED
    BY <1>1, <2>1 DEF PlaceInv, SearchPage
<1>2. ASSUME NEW o \in 0 .. MaxOffset, StartAt(o) PROVE PlaceInv'
  <2>1. o \in Nat
    BY SearchAssumption
  <2>2. QED
    BY <1>2, <2>1 DEF PlaceInv, StartAt
<1>3. CASE CommitByOthers
  BY <1>3 DEF PlaceInv, CommitByOthers
<1>4. CASE UNCHANGED vars
  BY <1>4 DEF PlaceInv, vars
<1>5. QED
  BY <1>1, <1>2, <1>3, <1>4 DEF Next

\* What a page adds to what was read.
LEMMA PageRead ==
    ASSUME PlaceInv, NEW limit \in Nat, SearchPage(limit)
    PROVE  [n \in DOMAIN lines' |-> lines'[n].chunk] =
               Take(Skip(MatchedChunks, offset), limit)
<1> DEFINE added == [n \in DOMAIN lines' |-> lines'[n].chunk]
           page == Take(Skip(MatchedChunks, offset), limit)
<1>1. MatchedChunks \in Seq(Chunks) /\ Len(MatchedChunks) = Len(matches)
      /\ \A r \in 1 .. Len(matches) : MatchedChunks[r] = matches[r].chunk
  <2>1. /\ DOMAIN matches = 1 .. Len(matches) /\ Len(matches) \in Nat
        /\ \A r \in 1 .. Len(matches) : matches[r].chunk \in Chunks
    BY RankingType, LenProperties DEF PlaceInv
  <2>2. MatchedChunks \in [1 .. Len(matches) -> Chunks]
    BY <2>1 DEF MatchedChunks
  <2>3. QED
    BY <2>1, <2>2 DEF MatchedChunks
<1>2. offset \in Nat
  BY DEF PlaceInv
<1>3. /\ page \in Seq(Chunks)
      /\ Len(page) = PageLen(Len(matches), offset, limit)
      /\ \A n \in 1 .. Len(page) : page[n] = MatchedChunks[offset + n]
  <2> DEFINE all == MatchedChunks
  <2>1. all \in Seq(Chunks) /\ Len(all) = Len(matches)
    BY <1>1
  <2> HIDE DEF all
  <2>2. /\ Take(Skip(all, offset), limit) \in Seq(Chunks)
        /\ Len(Take(Skip(all, offset), limit)) = PageLen(Len(all), offset, limit)
        /\ \A n \in 1 .. Len(Take(Skip(all, offset), limit)) :
              Take(Skip(all, offset), limit)[n] = all[offset + n]
    BY <1>2, <2>1, PageType DEF PageLen
  <2>3. QED
    BY <2>1, <2>2 DEF all
<1> HIDE DEF page
<1>4. DOMAIN page = 1 .. Len(page)
  BY <1>3, LenProperties
<1>5. DOMAIN added = DOMAIN page
  BY <1>3, <1>4, LinesType
<1>6. ASSUME NEW n \in DOMAIN page PROVE added[n] = page[n]
  <2>1. n \in DOMAIN lines'
    BY <1>5, <1>6
  <2>2. lines'[n].chunk = matches[offset + n].chunk /\ offset + n \in 1 .. Len(matches)
    BY <2>1, LinesType, FetchedScores
  <2>3. QED
    BY <1>1, <1>3, <1>4, <2>1, <2>2
<1>7. added = page
  <2>1. page \in [DOMAIN page -> Chunks]
    BY <1>3, <1>4
  <2>2. added = [n \in DOMAIN page |-> added[n]]
    BY <1>5
  <2>3. page = [n \in DOMAIN page |-> page[n]]
    BY <2>1
  <2>4. QED
    BY <1>6, <2>2, <2>3
<1>8. QED
  BY <1>7 DEF page

LEMMA MatchedChunksType ==
    ASSUME matches \in Rankings
    PROVE  MatchedChunks \in Seq(Chunks)
<1>1. /\ DOMAIN matches = 1 .. Len(matches) /\ Len(matches) \in Nat
      /\ \A r \in 1 .. Len(matches) : matches[r].chunk \in Chunks
  BY RankingType, LenProperties
<1>2. MatchedChunks \in [1 .. Len(matches) -> Chunks]
  BY <1>1 DEF MatchedChunks
<1>3. QED
  BY <1>1, <1>2

\* Nothing is read of an empty page.
LEMMA NothingRead ==
    ASSUME matches \in Rankings, NEW o \in Nat
    PROVE  Take(Skip(MatchedChunks, o), o - o) = <<>>
<1> DEFINE all == MatchedChunks
<1>1. all \in Seq(Chunks)
  BY MatchedChunksType
<1> HIDE DEF all
<1>2. Skip(all, o) \in Seq(Chunks) /\ o - o = 0
  BY <1>1, SkipType
<1>3. Take(Skip(all, o), 0) \in Seq(Chunks) /\ Len(Take(Skip(all, o), 0)) = 0
  <2>1. Len(Skip(all, o)) \in Nat
    BY <1>2, LenProperties
  <2>2. QED
    BY <1>2, <2>1, TakeType DEF Smaller
<1>4. QED
  BY <1>2, <1>3, EmptySeq DEF all

LEMMA PagesStep == PlaceInv /\ PagesTile /\ [Next]_vars => PagesTile'
<1> SUFFICES ASSUME PlaceInv, PagesTile, [Next]_vars PROVE PagesTile'
  OBVIOUS
<1>1. ASSUME NEW limit \in Limits, SearchPage(limit) PROVE PagesTile'
  <2>1. /\ limit \in Nat
        /\ offset' = offset + limit
        /\ read' = read \o [n \in DOMAIN lines' |-> lines'[n].chunk]
        /\ MatchedChunks' = MatchedChunks /\ still' = still /\ first' = first
    BY <1>1, SearchAssumption DEF SearchPage, MatchedChunks
  <2>2. CASE still
    <3>1. read = Take(Skip(MatchedChunks, first), offset - first)
      BY <2>2 DEF PagesTile
    <3>2. [n \in DOMAIN lines' |-> lines'[n].chunk] = Take(Skip(MatchedChunks, offset), limit)
      BY <1>1, <2>1, PageRead
    <3>3. MatchedChunks \in Seq(Chunks)
      BY MatchedChunksType DEF PlaceInv
    <3>4. read' = Take(Skip(MatchedChunks, first), (offset + limit) - first)
      <4> DEFINE all == MatchedChunks
      <4>1. all \in Seq(Chunks) /\ first \in Nat /\ offset \in Nat /\ first <= offset
        BY <3>3 DEF PlaceInv
      <4> HIDE DEF all
      <4>2. Take(Skip(all, first), offset - first) \o Take(Skip(all, offset), limit) =
                Take(Skip(all, first), (offset + limit) - first)
        BY <2>1, <4>1, NextPage
      <4>3. QED
        BY <2>1, <3>1, <3>2, <4>2 DEF all
    <3>5. QED
      BY <2>1, <3>4 DEF PagesTile
  <2>3. CASE ~still
    BY <2>1, <2>3 DEF PagesTile
  <2>4. QED
    BY <2>2, <2>3 DEF PlaceInv
<1>2. ASSUME NEW o \in 0 .. MaxOffset, StartAt(o) PROVE PagesTile'
  <2>1. o \in Nat /\ matches \in Rankings
    BY SearchAssumption DEF PlaceInv
  <2>2. /\ MatchedChunks' = MatchedChunks /\ first' = o /\ offset' = o /\ read' = <<>>
    BY <1>2 DEF StartAt, MatchedChunks
  <2>3. QED
    BY <2>1, <2>2, NothingRead DEF PagesTile
<1>3. CASE CommitByOthers
  BY <1>3 DEF CommitByOthers, PagesTile
<1>4. CASE UNCHANGED vars
  BY <1>4 DEF vars, PagesTile, MatchedChunks
<1>5. QED
  BY <1>1, <1>2, <1>3, <1>4 DEF Next

LEMMA LineStep == PlaceInv /\ LineIsOfItsMatch /\ [Next]_vars => LineIsOfItsMatch'
<1> SUFFICES ASSUME PlaceInv, LineIsOfItsMatch, [Next]_vars PROVE LineIsOfItsMatch'
  OBVIOUS
<1>1. ASSUME NEW limit \in Limits, SearchPage(limit) PROVE LineIsOfItsMatch'
  <2>1. limit \in Nat /\ matches' = matches /\ matches \in Rankings
    BY <1>1, SearchAssumption DEF SearchPage, PlaceInv
  <2>2. DOMAIN matches = 1 .. Len(matches)
    BY <2>1, RankingType, LenProperties
  <2>3. ASSUME NEW n \in DOMAIN lines'
        PROVE  /\ lines'[n].number \in DOMAIN matches
               /\ matches[lines'[n].number].chunk = lines'[n].chunk
               /\ lines'[n].snippet = IF lines'[n].number <= SnippetDepth
                                         THEN lines'[n].chunk ELSE NoSnippet
    <3>1. /\ offset + n \in 1 .. Len(Fetched(limit))
          /\ lines'[n].number = offset + n
          /\ lines'[n].chunk = matches[offset + n].chunk
          /\ lines'[n].snippet = Snippet(matches[offset + n].chunk)
      BY <1>1, <2>1, LinesType
    <3>2. offset + n \in 1 .. Len(matches)
      BY <2>1, <3>1, FetchedScores
    <3>3. QED
      BY <2>1, <2>2, <3>1, <3>2, SnippetOfMatch
  <2>4. QED
    BY <2>1, <2>3 DEF LineIsOfItsMatch, NoSnippet
<1>2. ASSUME NEW o \in 0 .. MaxOffset, StartAt(o) PROVE LineIsOfItsMatch'
  BY <1>2 DEF StartAt, LineIsOfItsMatch
<1>3. CASE CommitByOthers
  BY <1>3 DEF CommitByOthers, LineIsOfItsMatch
<1>4. CASE UNCHANGED vars
  BY <1>4 DEF vars, LineIsOfItsMatch
<1>5. QED
  BY <1>1, <1>2, <1>3, <1>4 DEF Next

LEMMA DisplayStep == PlaceInv /\ DisplayKeepsOrder /\ [Next]_vars => DisplayKeepsOrder'
<1> SUFFICES ASSUME PlaceInv, DisplayKeepsOrder, [Next]_vars PROVE DisplayKeepsOrder'
  OBVIOUS
<1>1. ASSUME NEW limit \in Limits, SearchPage(limit) PROVE DisplayKeepsOrder'
  <2> DEFINE k == PageLen(Len(matches), offset, limit)
             z == Len(Fetched(limit))
  <2>1. limit \in Nat /\ matches' = matches /\ offset \in Nat
    BY <1>1, SearchAssumption DEF SearchPage, PlaceInv
  <2>2. k \in Nat /\ DOMAIN lines' = 1 .. k /\ Len(matches) \in Nat
    <3>1. DOMAIN lines' = 1 .. k
      BY <1>1, <2>1, LinesType
    <3>2. Len(matches) \in Nat
      BY <2>1, FetchedScores
    <3>3. k \in Nat
      BY <2>1, <3>2 DEF PageLen, Smaller
    <3>4. QED
      BY <3>1, <3>2, <3>3
  <2>3. \A n \in DOMAIN lines' :
            /\ offset + n \in 1 .. z
            /\ lines'[n].number = offset + n
            /\ lines'[n].score = Display(limit)[offset + n]
    BY <1>1, <2>1, LinesType
  <2>4. ASSUME NEW m \in DOMAIN lines', NEW n \in DOMAIN lines',
               matches[lines'[m].number].score >= matches[lines'[n].number].score
        PROVE  lines'[m].score >= lines'[n].score
    <3>1. /\ offset + m \in 1 .. z /\ offset + n \in 1 .. z
          /\ matches[offset + m].score >= matches[offset + n].score
      BY <2>3, <2>4
    <3>2. Display(limit)[offset + m] >= Display(limit)[offset + n]
      BY <2>1, <3>1, DisplayOrder
    <3>3. QED
      BY <2>3, <3>2
  <2>5. ASSUME 1 \in DOMAIN lines', lines'[1].number = 1
        PROVE  /\ lines'[1].score = One
               /\ lines'[Len(lines')].score =
                     IF matches[1].score - matches[Len(lines')].score <= Epsilon
                        THEN One ELSE 0
    <3>1. offset = 0 /\ k >= 1
      BY <2>1, <2>2, <2>3, <2>5
    <3>2. z = k /\ Len(lines') = k
      <4>1. Len(lines') = k
        <5>1. lines' = [n \in 1 .. k |-> lines'[n]]
          BY <1>1, <2>2 DEF SearchPage, Printed
        <5> HIDE DEF k
        <5>2. QED
          BY <2>2, <5>1
      <4>2. z = Smaller(Fetch(limit), Len(matches))
        BY <2>1, FetchedType
      <4>3. QED
        BY <2>1, <2>2, <3>1, <4>1, <4>2 DEF PageLen, Smaller, Fetch, Larger
    <3>3. 1 \in 1 .. z /\ k \in 1 .. z /\ k \in DOMAIN lines'
      BY <2>2, <3>1, <3>2
    <3>4. /\ Display(limit)[1] = One
          /\ Display(limit)[z] = IF matches[1].score - matches[z].score <= Epsilon
                                    THEN One ELSE 0
      BY <2>1, <3>3, DisplayOrder
    <3>5. lines'[1].score = Display(limit)[1] /\ lines'[k].score = Display(limit)[k]
      BY <2>2, <2>3, <2>5, <3>1, <3>3
    <3>6. QED
      BY <3>2, <3>4, <3>5
  <2>6. QED
    BY <2>1, <2>4, <2>5 DEF DisplayKeepsOrder
<1>2. ASSUME NEW o \in 0 .. MaxOffset, StartAt(o) PROVE DisplayKeepsOrder'
  BY <1>2 DEF StartAt, DisplayKeepsOrder
<1>3. CASE CommitByOthers
  BY <1>3 DEF CommitByOthers, DisplayKeepsOrder
<1>4. CASE UNCHANGED vars
  BY <1>4 DEF vars, DisplayKeepsOrder
<1>5. QED
  BY <1>1, <1>2, <1>3, <1>4 DEF Next

LEMMA InitIInv == Init => IInv
<1> SUFFICES ASSUME Init PROVE IInv
  OBVIOUS
<1>1. matches \in Rankings /\ first = 0 /\ offset = 0 /\ read = <<>> /\ lines = <<>>
      /\ still = TRUE
  BY DEF Init
<1>2. PlaceInv
  BY <1>1 DEF PlaceInv
<1>3. PagesTile
  BY <1>1, NothingRead DEF PagesTile
<1>4. QED
  BY <1>1, <1>2, <1>3 DEF IInv, DisplayKeepsOrder, LineIsOfItsMatch

LEMMA SearchInv == Spec => []IInv
<1>1. IInv /\ [Next]_vars => IInv'
  BY PlaceStep, PagesStep, LineStep, DisplayStep DEF IInv
<1>2. QED
  BY <1>1, InitIInv, PTL DEF Spec

-----------------------------------------------------------------------------
\* Whatever pages a user turns, and in whatever steps, while nobody commits
\* they make up one ranking: run always fetches to the end of its page.
THEOREM Pages == Spec => []PagesTile
<1>1. IInv => PagesTile
  BY DEF IInv
<1>2. QED
  BY <1>1, SearchInv, PTL

\* min_max_normalize never turns two hits of a page round, and stretches a
\* first page from 0 to 1 unless its scores are within f32::EPSILON of each
\* other, for any scores and however coarse the f32.
THEOREM DisplayedScores == Spec => []DisplayKeepsOrder
<1>1. IInv => DisplayKeepsOrder
  BY DEF IInv
<1>2. QED
  BY <1>1, SearchInv, PTL

\* Numbers, chunks and snippets of a line belong together, whichever match the
\* second search of snippet comes across first.
THEOREM Lines == Spec => []LineIsOfItsMatch
<1>1. IInv => LineIsOfItsMatch
  BY DEF IInv
<1>2. QED
  BY <1>1, SearchInv, PTL

=============================================================================
