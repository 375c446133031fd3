----------------------------- MODULE WireProofs -----------------------------
(***************************************************************************)
(* Proofs about Wire, for any preamble, noise, payloads and sizes.         *)
(*                                                                         *)
(* The argument: as the first byte of the preamble is nowhere else in it,  *)
(* the byte after the noise begins a match whatever the scan took the      *)
(* noise for, and each byte after that lengthens the match; so the scan    *)
(* is done with the last byte of the preamble, and, as the noise has no    *)
(* preamble in it, not before.  From there on what is on its way is the    *)
(* frames sent and not yet read: they end where their lengths say, and the *)
(* client is at such an end, or behind the length that follows it.         *)
(***************************************************************************)
EXTENDS Wire, SequenceTheorems, WellFoundedInduction, TLAPS

\* What the client has yet to read, and what it reads first.
Rest == pipe \o outbox
Opening == noise \o Magic

StreamTypeOK ==
    /\ noise \in Noises
    /\ server \in {"shell", "serving", "closed", "dead"}
    /\ outbox \in Seq(Byte) /\ pipe \in Seq(Byte)

\* While the client scans: where it is, what it took for the beginning of the
\* preamble, and what lies before it.
Scanning ==
    /\ consumed \in Nat /\ consumed < Len(Opening)
    /\ matched \in 0 .. Len(Magic) - 1 /\ matched <= consumed
    /\ \A k \in 1 .. matched : Opening[consumed - matched + k] = Magic[k]
    /\ consumed > Len(noise) => matched = consumed - Len(noise)
    /\ server = "shell" => consumed + Len(Rest) = Len(noise)
    /\ server \in {"serving", "closed"} => consumed + Len(Rest) >= Len(Opening)
    /\ \A k \in 1 .. Len(Rest) :
          consumed + k <= Len(Opening) => Rest[k] = Opening[consumed + k]

IInv ==
    /\ StreamTypeOK
    /\ client = "scan" => Scanning
    /\ ContaminatedBeyondBudget

\* What a frame is on the way, and all there is of the stream.
Frame(payload) == BigEndian(Len(payload)) \o payload
Unread == buf \o Rest

\* at[f] is where frame f ends among the bytes of the frames.
EndsAt(at, frames) ==
    /\ at \in [0 .. Len(frames) -> Nat] /\ at[0] = 0
    /\ \A f \in 1 .. Len(frames) : at[f] = at[f - 1] + LenBytes + Len(frames[f])
    /\ \A f \in 0 .. Len(frames) : at[f] <= at[Len(frames)]

\* The bytes behind start are those of the frames.
Reads(bytes, start, at, frames) ==
    /\ start + Len(bytes) <= at[Len(frames)]
    /\ \A f \in 1 .. Len(frames) : \A p \in 1 .. LenBytes + Len(frames[f]) :
       \A k \in 1 .. Len(bytes) :
          start + k = at[f - 1] + p => bytes[k] = Frame(frames[f])[p]

\* Where the client is: before the frames, at the end of one, or behind the
\* length that follows it.
Start(at) ==
    CASE client = "scan"    -> consumed - Len(Opening)
      [] client = "length"  -> at[Len(got)]
      [] client = "payload" -> at[Len(got)] + LenBytes

Aligned(at) ==
    /\ EndsAt(at, sent)
    /\ Reads(Unread, Start(at), at, sent)
    /\ server \in {"serving", "closed"} => Start(at) + Len(Unread) = at[Len(sent)]

Reading == client \in {"scan", "length", "payload"}
Framed == Reading => \E at : Aligned(at)

\* What has been read, and what the length read last is the length of.
Delivered ==
    /\ sent \in Seq(Payloads) /\ \A f \in 1 .. Len(sent) : Len(sent[f]) <= MaxFrame
    /\ got \in Seq(Seq(Byte)) /\ buf \in Seq(Byte)
    /\ Len(got) <= Len(sent) /\ \A f \in 1 .. Len(got) : got[f] = sent[f]
    /\ client = "payload" => Len(got) < Len(sent) /\ want = Len(sent[Len(got) + 1])
    /\ client = "scan" => buf = <<>> /\ got = <<>>
    /\ server = "shell" => sent = <<>> /\ client \in {"scan", "contaminated"}
    /\ NeverRefused

FramesInv == IInv /\ Delivered /\ Framed

-----------------------------------------------------------------------------
(***************************************************************************)
(* Numbers and their bytes.                                                *)
(***************************************************************************)
\* A set of numbers has a least one.
LEMMA LeastNumber ==
    ASSUME NEW T, T \subseteq Nat, T # {}
    PROVE  \E m \in T : \A n \in T : m <= n
<1> DEFINE R == OpToRel(<, Nat)
<1>1. IsWellFoundedOn(R, Nat)
  BY NatLessThanWellFounded
<1>2. \A x, y \in Nat : x < y => <<x, y>> \in R
  BY DEF OpToRel
<1> HIDE DEF R
<1>3. PICK m \in T : \A n \in T : ~ (<<n, m>> \in R)
  BY <1>1, WFMin
<1>4. ASSUME NEW n \in T PROVE m <= n
  <2>1. m \in Nat /\ n \in Nat /\ ~ (n < m)
    BY <1>2, <1>3
  <2>2. QED
    BY <2>1
<1>5. QED
  BY <1>4

\* Induction, over the numbers for which something holds.
LEMMA Induction ==
    ASSUME NEW S, 0 \in S, \A n \in Nat : n \in S => n + 1 \in S
    PROVE  \A n \in Nat : n \in S
<1> DEFINE T == {n \in Nat : n \notin S}
<1>1. SUFFICES ASSUME T # {} PROVE FALSE
  OBVIOUS
<1>2. PICK m \in T : \A n \in T : m <= n
  BY <1>1, LeastNumber
<1>3. m - 1 \in Nat /\ m - 1 \in S
  BY <1>2
<1>4. QED
  BY <1>2, <1>3

\* f is made of a first value and of what makes each next one.
Steps(f, n, base, step) ==
    f = [k \in 0 .. n |-> IF k = 0 THEN base ELSE step[k][f[k - 1]]]

\* There is such a function, and it has values of the type of its steps.
LEMMA RecursiveFunction ==
    ASSUME NEW N \in Nat, NEW S, NEW base \in S, NEW step \in [1 .. N -> [S -> S]]
    PROVE  /\ \E f : Steps(f, N, base, step)
           /\ \A f : Steps(f, N, base, step) => f \in [0 .. N -> S]
<1> DEFINE Begins(n, f) ==
               /\ f \in [0 .. n -> S] /\ f[0] = base
               /\ \A k \in 1 .. n : f[k] = step[k][f[k - 1]]
           H == {n \in Nat : n <= N => \E f : Begins(n, f)}
<1>1. 0 \in H
  <2>1. Begins(0, [k \in 0 .. 0 |-> base])
    OBVIOUS
  <2>2. QED
    BY <2>1
<1>2. ASSUME NEW n \in Nat, n \in H PROVE n + 1 \in H
  <2>1. SUFFICES ASSUME n + 1 <= N PROVE \E f : Begins(n + 1, f)
    OBVIOUS
  <2>2. PICK f : Begins(n, f)
    BY <1>2, <2>1
  <2> DEFINE g == [k \in 0 .. n + 1 |-> IF k = n + 1 THEN step[n + 1][f[n]] ELSE f[k]]
  <2>3. step[n + 1][f[n]] \in S
    BY <2>1, <2>2
  <2>4. g \in [0 .. n + 1 -> S] /\ g[0] = base
    BY <2>2, <2>3
  <2>5. ASSUME NEW k \in 1 .. n + 1 PROVE g[k] = step[k][g[k - 1]]
    <3>1. k \in 0 .. n + 1 /\ k - 1 \in 0 .. n
      OBVIOUS
    <3>2. CASE k = n + 1
      <4>1. g[k] = step[n + 1][f[n]] /\ g[k - 1] = f[n]
        BY <3>1, <3>2
      <4>2. QED
        BY <3>2, <4>1
    <3>3. CASE k # n + 1
      <4>1. k \in 1 .. n
        BY <3>1, <3>3
      <4>2. g[k] = f[k] /\ g[k - 1] = f[k - 1] /\ f[k] = step[k][f[k - 1]]
        BY <2>2, <3>1, <3>3, <4>1
      <4>3. QED
        BY <4>2
    <3>4. QED
      BY <3>2, <3>3
  <2>6. QED
    BY <2>4, <2>5
<1>3. N \in H
  <2> HIDE DEF H
  <2>1. QED
    BY <1>1, <1>2, Induction
<1>4. PICK f : Begins(N, f)
  <2>1. N <= N => \E f : Begins(N, f)
    BY <1>3
  <2> HIDE DEF Begins
  <2>2. QED
    BY <2>1
<1>5. Steps(f, N, base, step)
  BY <1>4 DEF Steps
<1>6. ASSUME NEW g, Steps(g, N, base, step)
      PROVE  g \in [0 .. N -> S]
  <2>0. g = [k \in 0 .. N |-> IF k = 0 THEN base ELSE step[k][g[k - 1]]]
    BY <1>6 DEF Steps
  <2> DEFINE G == {n \in Nat : n <= N => g[n] \in S}
  <2>1. 0 \in G
    BY <2>0
  <2>2. ASSUME NEW n \in Nat, n \in G PROVE n + 1 \in G
    <3>1. SUFFICES ASSUME n + 1 <= N PROVE g[n + 1] \in S
      OBVIOUS
    <3>2. g[n] \in S /\ n + 1 \in 1 .. N /\ (n + 1) - 1 = n
      BY <2>2, <3>1
    <3>3. g[n + 1] = step[n + 1][g[n]]
      BY <2>0, <3>2
    <3>4. QED
      BY <3>2, <3>3
  <2>3. \A n \in Nat : n \in G
    <3> HIDE DEF G
    <3>1. QED
      BY <2>1, <2>2, Induction
  <2>4. \A n \in 0 .. N : g[n] \in S
    BY <2>3
  <2>5. QED
    BY <2>0, <2>4
<1>7. QED
  BY <1>5, <1>6

\* Power is the recursive function it is written as.
LEMMA PowerIs ==
    /\ Power[0] = 1
    /\ \A k \in 0 .. LenBytes : Power[k] \in Nat \ {0}
    /\ \A k \in 1 .. LenBytes : Power[k] = Base * Power[k - 1]
<1> DEFINE S == Nat \ {0}
           step == [k \in 1 .. LenBytes |-> [x \in S |-> Base * x]]
           F(f) == [k \in 0 .. LenBytes |-> IF k = 0 THEN 1 ELSE Base * f[k - 1]]
<1>1. Base \in Nat \ {0} /\ LenBytes \in Nat
  BY SizesAssumption
<1>2. step \in [1 .. LenBytes -> [S -> S]] /\ 1 \in S
  BY <1>1
<1>3. PICK f : f \in [0 .. LenBytes -> S] /\ Steps(f, LenBytes, 1, step)
  <2> HIDE DEF step, S
  <2>1. QED
    BY <1>1, <1>2, RecursiveFunction
<1>4. \A k \in 1 .. LenBytes : step[k][f[k - 1]] = Base * f[k - 1]
  <2>1. \A k \in 1 .. LenBytes : f[k - 1] \in S
    BY <1>1, <1>3
  <2> HIDE DEF S
  <2>2. QED
    BY <2>1
<1>5. f = F(f)
  <2> HIDE DEF step, S
  <2>1. QED
    BY <1>1, <1>3, <1>4 DEF Steps
<1>6. Power = F(Power)
  BY <1>5 DEF Power
<1>7. Power[0] = 1 /\ \A k \in 1 .. LenBytes : Power[k] = Base * Power[k - 1]
  <2> DEFINE p == Power
  <2>1. p = F(p)
    BY <1>6
  <2> HIDE DEF p
  <2>2. p[0] = 1 /\ \A k \in 1 .. LenBytes : p[k] = Base * p[k - 1]
    BY <1>1, <2>1
  <2>3. QED
    BY <2>2 DEF p
<1> DEFINE H == {n \in Nat : n <= LenBytes => Power[n] \in Nat \ {0}}
<1>8. \A n \in Nat : n \in H
  <2>1. 0 \in H
    BY <1>7
  <2>2. ASSUME NEW n \in Nat, n \in H PROVE n + 1 \in H
    <3>1. SUFFICES ASSUME n + 1 <= LenBytes PROVE Power[n + 1] \in Nat \ {0}
      OBVIOUS
    <3>2. n + 1 \in 1 .. LenBytes /\ (n + 1) - 1 = n /\ Power[n] \in Nat \ {0}
      BY <1>1, <2>2, <3>1
    <3>3. Power[n + 1] = Base * Power[n]
      BY <1>7, <3>2
    <3>4. QED
      BY <1>1, <3>2, <3>3
  <2> HIDE DEF H
  <2>3. QED
    BY <2>1, <2>2, Induction
<1>9. QED
  BY <1>1, <1>7, <1>8

\* What division returns.
LEMMA Division ==
    ASSUME NEW n \in Nat, NEW d \in Nat \ {0}
    PROVE  /\ n \div d \in Nat /\ n % d \in 0 .. d - 1
           /\ n = (d * (n \div d)) + (n % d)
  OBVIOUS

LEMMA Quotient ==
    ASSUME NEW n \in Nat, NEW d \in Nat \ {0}, NEW q \in Nat, NEW r \in 0 .. d - 1,
           n = d * q + r
    PROVE  n \div d = q
  OBVIOUS

\* To divide twice is to divide by the product.
LEMMA QuotientOfQuotient ==
    ASSUME NEW n \in Nat, NEW d \in Nat \ {0}, NEW e \in Nat \ {0}
    PROVE  (n \div d) \div e = n \div (e * d)
<1> DEFINE q == n \div d
           r == n % d
           p == q \div e
           s == q % e
<1>1. q \in Nat /\ r \in 0 .. d - 1 /\ n = (d * q) + r
  BY Division
<1>2. p \in Nat /\ s \in 0 .. e - 1 /\ q = (e * p) + s
  BY <1>1, Division
<1> HIDE DEF q, r, p, s
<1>3. d * q = d * (e * p) + d * s
  BY <1>2
<1>4. d * (e * p) = (e * d) * p
  BY <1>2
<1>5. s + 1 <= e /\ s + 1 \in Nat /\ d * (s + 1) = d * s + d
  BY <1>2
<1>6. d * (s + 1) <= d * e
  BY <1>5
<1>7. d * s + r \in 0 .. (e * d) - 1 /\ e * d \in Nat \ {0}
  <2>1. d * e = e * d /\ d * e \in Nat /\ d * s \in Nat
    BY <1>2
  <2>2. d * s + r <= (e * d) - 1
    BY <1>1, <1>5, <1>6, <2>1
  <2>3. QED
    BY <1>1, <2>1, <2>2
<1>8. n = (e * d) * p + (d * s + r)
  <2> DEFINE x == (e * d) * p
             y == d * s
             z == d * q
  <2>1. x \in Nat /\ y \in Nat /\ z = x + y /\ n = z + r /\ r \in Nat
    BY <1>1, <1>2, <1>3, <1>4
  <2> HIDE DEF x, y, z
  <2>2. n = x + (y + r)
    BY <2>1
  <2>3. QED
    BY <2>2 DEF x, y
<1>9. n \div (e * d) = p
  BY <1>2, <1>7, <1>8, Quotient
<1>10. QED
  BY <1>9 DEF p, q

\* Bytes are digits, the largest first.
LEMMA BigEndianDigits ==
    ASSUME NEW n \in Nat
    PROVE  /\ BigEndian(n) \in [1 .. LenBytes -> Byte] /\ BigEndian(n) \in Seq(Byte)
           /\ Len(BigEndian(n)) = LenBytes
           /\ n < Power[LenBytes] => n \div Power[LenBytes] = 0
           /\ n \div Power[LenBytes - LenBytes] = n
           /\ \A p \in 1 .. LenBytes :
                 /\ n \div Power[LenBytes - (p - 1)] \in Nat
                 /\ n \div Power[LenBytes - p] =
                       (Base * (n \div Power[LenBytes - (p - 1)])) + BigEndian(n)[p]
<1>1. LenBytes \in Nat \ {0} /\ Base \in Nat \ {0}
  BY SizesAssumption
<1>2. ASSUME NEW p \in 1 .. LenBytes
      PROVE  /\ BigEndian(n)[p] \in Byte
             /\ n \div Power[LenBytes - (p - 1)] \in Nat
             /\ n \div Power[LenBytes - p] =
                   (Base * (n \div Power[LenBytes - (p - 1)])) + BigEndian(n)[p]
  <2>1. /\ LenBytes - p \in 0 .. LenBytes
        /\ LenBytes - (p - 1) \in 1 .. LenBytes /\ LenBytes - (p - 1) \in 0 .. LenBytes
        /\ (LenBytes - (p - 1)) - 1 = LenBytes - p
    BY <1>1
  <2> DEFINE d == Power[LenBytes - p]
             q == n \div d
  <2>2. d \in Nat \ {0} /\ Power[LenBytes - (p - 1)] = Base * d
    BY <2>1, PowerIs
  <2>3. q \in Nat
    BY <2>2, Division
  <2>4. q \div Base = n \div (Base * d)
    BY <1>1, <2>2, QuotientOfQuotient
  <2>5. BigEndian(n)[p] = q % Base
    BY DEF BigEndian
  <2> HIDE DEF q, d
  <2>6. q \div Base \in Nat /\ q % Base \in 0 .. Base - 1 /\ q = (Base * (q \div Base)) + (q % Base)
    BY <1>1, <2>3, Division
  <2>7. QED
    BY <2>2, <2>4, <2>5, <2>6 DEF q, d, Byte
<1>3. BigEndian(n) \in [1 .. LenBytes -> Byte]
  <2> DEFINE bytes == BigEndian(n)
  <2>1. bytes = [p \in 1 .. LenBytes |-> bytes[p]]
    BY DEF BigEndian
  <2>2. \A p \in 1 .. LenBytes : bytes[p] \in Byte
    BY <1>2
  <2> HIDE DEF bytes
  <2>3. bytes \in [1 .. LenBytes -> Byte]
    BY <2>1, <2>2
  <2>4. QED
    BY <2>3 DEF bytes
<1>4. BigEndian(n) \in Seq(Byte) /\ Len(BigEndian(n)) = LenBytes
  BY <1>1, <1>3
<1>5. n < Power[LenBytes] => n \div Power[LenBytes] = 0
  <2>1. Power[LenBytes] \in Nat \ {0}
    BY <1>1, PowerIs
  <2>2. ASSUME n < Power[LenBytes] PROVE n \div Power[LenBytes] = 0
    <3>1. n \in 0 .. Power[LenBytes] - 1 /\ n = Power[LenBytes] * 0 + n
      BY <2>1, <2>2
    <3>2. QED
      BY <2>1, <3>1, Quotient
  <2>3. QED
    BY <2>2
<1>6. n \div Power[LenBytes - LenBytes] = n
  <2>1. LenBytes - LenBytes = 0 /\ Power[0] = 1
    BY <1>1, PowerIs
  <2>2. QED
    BY <2>1, Quotient
<1>7. QED
  BY <1>2, <1>3, <1>4, <1>5, <1>6

\* A length that can be written is read as it was written.
LEMMA LengthsReadBack ==
    ASSUME NEW n \in Nat, n < Power[LenBytes]
    PROVE  FromBigEndian(BigEndian(n)) = n
<1> DEFINE bytes == BigEndian(n)
           step == [p \in 1 .. LenBytes |-> [x \in Nat |-> Base * x + bytes[p]]]
           F(f) == [p \in 0 .. LenBytes |-> IF p = 0 THEN 0 ELSE Base * f[p - 1] + bytes[p]]
           value == CHOOSE f : f = F(f)
           H == {p \in Nat : p <= LenBytes => value[p] = n \div Power[LenBytes - p]}
<1>1. LenBytes \in Nat \ {0} /\ Base \in Nat \ {0}
  BY SizesAssumption
<1>2. /\ bytes \in [1 .. LenBytes -> Byte] /\ n \div Power[LenBytes] = 0
      /\ n \div Power[LenBytes - LenBytes] = n
      /\ \A p \in 1 .. LenBytes :
            n \div Power[LenBytes - p] = (Base * (n \div Power[LenBytes - (p - 1)])) + bytes[p]
  BY BigEndianDigits
<1> HIDE DEF bytes
<1>3. \A p \in 1 .. LenBytes : bytes[p] \in Nat
  BY <1>1, <1>2 DEF Byte
<1>4. step \in [1 .. LenBytes -> [Nat -> Nat]]
  BY <1>1, <1>3
<1>5. PICK f : f \in [0 .. LenBytes -> Nat] /\ Steps(f, LenBytes, 0, step)
  <2> HIDE DEF step
  <2>1. QED
    BY <1>1, <1>4, RecursiveFunction
<1>6. \A p \in 1 .. LenBytes : step[p][f[p - 1]] = Base * f[p - 1] + bytes[p]
  <2>1. \A p \in 1 .. LenBytes : f[p - 1] \in Nat
    <3> HIDE DEF step
    <3>1. QED
      BY <1>1, <1>5
  <2>2. QED
    BY <2>1
<1>7. f = F(f)
  <2> HIDE DEF step
  <2>1. QED
    BY <1>1, <1>5, <1>6 DEF Steps
<1>8. value = F(value)
  <2> HIDE DEF F
  <2>1. QED
    BY <1>7
<1> HIDE DEF value
<1>9. value[0] = 0 /\ \A p \in 1 .. LenBytes : value[p] = Base * value[p - 1] + bytes[p]
  BY <1>1, <1>8
<1>10. \A p \in Nat : p \in H
  <2>1. 0 \in H
    BY <1>1, <1>2, <1>9
  <2>2. ASSUME NEW p \in Nat, p \in H PROVE p + 1 \in H
    <3>1. SUFFICES ASSUME p + 1 <= LenBytes
                   PROVE  value[p + 1] = n \div Power[LenBytes - (p + 1)]
      OBVIOUS
    <3>2. p + 1 \in 1 .. LenBytes /\ (p + 1) - 1 = p /\ value[p] = n \div Power[LenBytes - p]
      BY <1>1, <2>2, <3>1
    <3>3. value[p + 1] = Base * value[p] + bytes[p + 1]
      BY <1>9, <3>2
    <3>4. n \div Power[LenBytes - (p + 1)] = (Base * (n \div Power[LenBytes - p])) + bytes[p + 1]
      BY <1>2, <3>2
    <3>5. QED
      BY <3>2, <3>3, <3>4
  <2> HIDE DEF H
  <2>3. QED
    BY <2>1, <2>2, Induction
<1>11. value[LenBytes] = n
  BY <1>1, <1>2, <1>10
<1>12. QED
  BY <1>11 DEF FromBigEndian, value, bytes

-----------------------------------------------------------------------------
\* Moving a byte from the outbox to the pipe leaves the stream as it is.
LEMMA Moved ==
    ASSUME NEW S, NEW p \in Seq(S), NEW o \in Seq(S), o # <<>>
    PROVE  /\ Append(p, Head(o)) \in Seq(S) /\ Tail(o) \in Seq(S)
           /\ Append(p, Head(o)) \o Tail(o) = p \o o
<1>1. Head(o) \in S /\ Tail(o) \in Seq(S) /\ o = <<Head(o)>> \o Tail(o)
  OBVIOUS
<1>2. Append(p, Head(o)) = p \o <<Head(o)>> /\ <<Head(o)>> \in Seq(S)
  BY <1>1
<1>3. (p \o <<Head(o)>>) \o Tail(o) = p \o (<<Head(o)>> \o Tail(o))
  BY <1>1, <1>2, ConcatAssociative
<1>4. QED
  BY <1>1, <1>2, <1>3

\* Taking the first byte of the pipe takes the first of the stream.
LEMMA Taken ==
    ASSUME NEW S, NEW p \in Seq(S), NEW o \in Seq(S), p # <<>>
    PROVE  /\ Tail(p) \in Seq(S) /\ Len(p \o o) \in Nat \ {0}
           /\ Head(p) = (p \o o)[1]
           /\ Len(Tail(p) \o o) = Len(p \o o) - 1
           /\ \A k \in 1 .. Len(p \o o) - 1 : (Tail(p) \o o)[k] = (p \o o)[k + 1]
<1>1. /\ Tail(p) \in Seq(S) /\ Len(Tail(p)) = Len(p) - 1
      /\ \A k \in 1 .. Len(Tail(p)) : Tail(p)[k] = p[k + 1]
  BY HeadTailProperties
<1>2. Len(p) \in Nat \ {0} /\ Len(o) \in Nat /\ Head(p) = p[1]
  BY EmptySeq, LenProperties
<1>3. /\ Len(p \o o) = Len(p) + Len(o)
      /\ \A k \in 1 .. Len(p) + Len(o) : (p \o o)[k] = IF k <= Len(p) THEN p[k] ELSE o[k - Len(p)]
  BY ConcatProperties
<1>4. /\ Len(Tail(p) \o o) = Len(Tail(p)) + Len(o)
      /\ \A k \in 1 .. Len(Tail(p)) + Len(o) :
            (Tail(p) \o o)[k] =
                IF k <= Len(Tail(p)) THEN Tail(p)[k] ELSE o[k - Len(Tail(p))]
  BY <1>1, ConcatProperties
<1>5. ASSUME NEW k \in 1 .. Len(p \o o) - 1
      PROVE  (Tail(p) \o o)[k] = (p \o o)[k + 1]
  <2>1. k \in 1 .. Len(Tail(p)) + Len(o) /\ k + 1 \in 1 .. Len(p) + Len(o)
    BY <1>1, <1>2, <1>3
  <2>2. CASE k <= Len(Tail(p))
    <3>1. k + 1 <= Len(p) /\ k \in 1 .. Len(Tail(p))
      BY <1>1, <1>2, <2>1, <2>2
    <3>2. QED
      BY <1>1, <1>3, <1>4, <2>1, <2>2, <3>1
  <2>3. CASE ~(k <= Len(Tail(p)))
    <3>1. ~(k + 1 <= Len(p)) /\ k - Len(Tail(p)) = (k + 1) - Len(p)
      BY <1>1, <1>2, <2>1, <2>3
    <3>2. (Tail(p) \o o)[k] = o[k - Len(Tail(p))]
      BY <1>4, <2>1, <2>3
    <3>3. (p \o o)[k + 1] = o[(k + 1) - Len(p)]
      BY <1>3, <2>1, <3>1
    <3>4. QED
      BY <3>1, <3>2, <3>3
  <2>4. QED
    BY <2>2, <2>3
<1>6. QED
  BY <1>1, <1>2, <1>3, <1>4, <1>5

\* What is written goes behind what is in the pipe.
LEMMA Written ==
    ASSUME NEW S, NEW p \in Seq(S), NEW o \in Seq(S)
    PROVE  /\ p \o <<>> = p
           /\ Len(p) \in Nat /\ Len(o) \in Nat /\ Len(p \o o) = Len(p) + Len(o)
           /\ \A k \in 1 .. Len(p) : (p \o o)[k] = p[k]
           /\ \A k \in Len(p) + 1 .. Len(p) + Len(o) : (p \o o)[k] = o[k - Len(p)]
<1>1. Len(p) \in Nat /\ Len(o) \in Nat /\ p \o <<>> = p
  BY LenProperties, ConcatEmptySeq
<1>2. /\ Len(p \o o) = Len(p) + Len(o)
      /\ \A k \in 1 .. Len(p) + Len(o) : (p \o o)[k] = IF k <= Len(p) THEN p[k] ELSE o[k - Len(p)]
  BY ConcatProperties
<1>3. \A k \in 1 .. Len(p) : (p \o o)[k] = p[k]
  BY <1>1, <1>2
<1>4. \A k \in Len(p) + 1 .. Len(p) + Len(o) : (p \o o)[k] = o[k - Len(p)]
  BY <1>1, <1>2
<1>5. QED
  BY <1>1, <1>2, <1>3, <1>4

\* The preamble and the noise are of bytes; how long they are, and where the
\* preamble is in the opening.
LEMMA OpeningType ==
    ASSUME noise \in Noises
    PROVE  /\ Len(noise) \in Nat /\ Len(Magic) \in Nat \ {0}
           /\ noise \in Seq(Byte) /\ Magic \in Seq(Byte)
           /\ Len(Opening) = Len(noise) + Len(Magic)
           /\ \A k \in 1 .. Len(noise) : Opening[k] = noise[k]
           /\ \A k \in 1 .. Len(Magic) : Opening[Len(noise) + k] = Magic[k]
<1>1. noise \in Seq(Byte) /\ Magic \in Seq(Byte) /\ Len(Magic) > 0
  BY SizesAssumption, MagicAssumption
<1>2. /\ Len(noise) \in Nat /\ Len(Magic) \in Nat
      /\ Len(Opening) = Len(noise) + Len(Magic)
      /\ \A k \in 1 .. Len(noise) : Opening[k] = noise[k]
      /\ \A k \in Len(noise) + 1 .. Len(noise) + Len(Magic) :
            Opening[k] = Magic[k - Len(noise)]
  BY <1>1, Written DEF Opening
<1>3. ASSUME NEW k \in 1 .. Len(Magic) PROVE Opening[Len(noise) + k] = Magic[k]
  <2>1. Len(noise) + k \in Len(noise) + 1 .. Len(noise) + Len(Magic)
        /\ (Len(noise) + k) - Len(noise) = k
    BY <1>2
  <2>2. QED
    BY <1>2, <2>1
<1>4. QED
  BY <1>1, <1>2, <1>3

\* A frame is of bytes.
LEMMA FrameType ==
    ASSUME NEW payload \in Payloads
    PROVE  BigEndian(Len(payload)) \o payload \in Seq(Byte)
<1>1. payload \in Seq(Byte)
  BY SizesAssumption
<1>2. BigEndian(Len(payload)) \in Seq(Byte)
  BY <1>1, LenProperties, BigEndianDigits
<1>3. QED
  BY <1>1, <1>2, ConcatProperties

-----------------------------------------------------------------------------
(***************************************************************************)
(* The frames.                                                             *)
(***************************************************************************)
\* The frame of a payload: a length, then the payload.
LEMMA FrameIs ==
    ASSUME NEW payload \in Payloads
    PROVE  /\ payload \in Seq(Byte) /\ Len(payload) \in Nat /\ LenBytes \in Nat \ {0}
           /\ Frame(payload) \in Seq(Byte)
           /\ Len(Frame(payload)) = LenBytes + Len(payload)
           /\ \A p \in 1 .. LenBytes : Frame(payload)[p] = BigEndian(Len(payload))[p]
           /\ \A p \in 1 .. Len(payload) : Frame(payload)[LenBytes + p] = payload[p]
<1>1. payload \in Seq(Byte) /\ Len(payload) \in Nat /\ LenBytes \in Nat \ {0}
  BY SizesAssumption, LenProperties
<1> DEFINE digits == BigEndian(Len(payload))
<1>2. digits \in Seq(Byte) /\ Len(digits) = LenBytes
  BY <1>1, BigEndianDigits
<1> HIDE DEF digits
<1>3. /\ Len(digits \o payload) = LenBytes + Len(payload)
      /\ \A p \in 1 .. LenBytes : (digits \o payload)[p] = digits[p]
      /\ \A p \in LenBytes + 1 .. LenBytes + Len(payload) :
            (digits \o payload)[p] = payload[p - LenBytes]
  BY <1>1, <1>2, Written, ZenonT(60)
<1>4. Frame(payload) = digits \o payload
  BY DEF Frame, digits
<1>5. ASSUME NEW p \in 1 .. Len(payload) PROVE Frame(payload)[LenBytes + p] = payload[p]
  <2>1. LenBytes + p \in LenBytes + 1 .. LenBytes + Len(payload) /\ (LenBytes + p) - LenBytes = p
    BY <1>1
  <2>2. QED
    BY <1>3, <1>4, <2>1
<1>6. digits \o payload \in Seq(Byte)
  BY <1>1, <1>2, ConcatProperties
<1>7. QED
  BY <1>1, <1>3, <1>4, <1>5, <1>6 DEF digits

\* d bytes further on, what is left reads as before.
LEMMA ReadsOn ==
    ASSUME NEW frames \in Seq(Payloads), NEW at, EndsAt(at, frames),
           NEW start \in Int, NEW d \in Nat,
           NEW s \in Seq(Byte), NEW t \in Seq(Byte), Len(t) = Len(s) - d,
           \A k \in 1 .. Len(t) : t[k] = s[k + d],
           Reads(s, start, at, frames)
    PROVE  Reads(t, start + d, at, frames)
<1>1. Len(s) \in Nat /\ Len(t) \in Nat
  BY LenProperties
<1>2. (start + d) + Len(t) <= at[Len(frames)]
  <2>1. (start + d) + Len(t) = start + Len(s)
    BY <1>1
  <2>2. QED
    BY <2>1 DEF Reads
<1>3. ASSUME NEW f \in 1 .. Len(frames), NEW p \in 1 .. LenBytes + Len(frames[f]),
             NEW k \in 1 .. Len(t), (start + d) + k = at[f - 1] + p
      PROVE  t[k] = Frame(frames[f])[p]
  <2>1. k + d \in 1 .. Len(s) /\ start + (k + d) = (start + d) + k
    BY <1>1
  <2>2. s[k + d] = Frame(frames[f])[p]
    BY <1>3, <2>1 DEF Reads
  <2>3. QED
    BY <2>2
<1>4. QED
  BY <1>2, <1>3 DEF Reads

\* So does what is left when the end is cut off.
LEMMA ReadsCut ==
    ASSUME NEW frames, NEW at, NEW start \in Int, at[Len(frames)] \in Int,
           NEW s \in Seq(Byte), NEW t \in Seq(Byte), Len(t) <= Len(s),
           \A k \in 1 .. Len(t) : t[k] = s[k],
           Reads(s, start, at, frames)
    PROVE  Reads(t, start, at, frames)
<1>1. Len(s) \in Nat /\ Len(t) \in Nat
  BY LenProperties
<1>2. start + Len(t) <= at[Len(frames)]
  BY <1>1 DEF Reads
<1>3. \A k \in 1 .. Len(t) : k \in 1 .. Len(s)
  BY <1>1
<1>4. QED
  BY <1>2, <1>3 DEF Reads

\* more and ends are frames and at, with a payload behind.
OneMore(more, ends, frames, at, payload) ==
    /\ Len(more) = Len(frames) + 1 /\ more[Len(frames) + 1] = payload
    /\ \A f \in 1 .. Len(frames) : more[f] = frames[f]
    /\ ends \in [0 .. Len(frames) + 1 -> Nat]
    /\ ends[Len(frames) + 1] = at[Len(frames)] + LenBytes + Len(payload)
    /\ \A f \in 0 .. Len(frames) : ends[f] = at[f]

\* One more frame, at the end of the stream.
LEMMA ReadsMore ==
    ASSUME NEW frames \in Seq(Payloads), NEW payload \in Payloads,
           NEW at, EndsAt(at, frames), NEW start \in Int, NEW s \in Seq(Byte),
           Reads(s, start, at, frames), start + Len(s) = at[Len(frames)],
           NEW more, NEW ends, OneMore(more, ends, frames, at, payload)
    PROVE  /\ EndsAt(ends, more)
           /\ Reads(s \o Frame(payload), start, ends, more)
           /\ start + Len(s \o Frame(payload)) = ends[Len(more)]
<1> DEFINE size == Len(frames)
           new == Frame(payload)
           t == s \o new
<1>1. /\ size \in Nat /\ Len(more) = size + 1 /\ Len(s) \in Nat
      /\ more[size + 1] = payload /\ \A f \in 1 .. size : more[f] = frames[f]
  BY LenProperties DEF OneMore
<1>2. /\ Len(payload) \in Nat /\ LenBytes \in Nat /\ new \in Seq(Byte)
      /\ Len(new) = LenBytes + Len(payload)
  BY FrameIs
<1>3. \A f \in 1 .. size : frames[f] \in Payloads /\ Len(frames[f]) \in Nat
  BY <1>1, ElementOfSeq, FrameIs
<1>4. /\ at \in [0 .. size -> Nat] /\ at[0] = 0 /\ at[size] \in Nat
      /\ \A f \in 1 .. size : at[f] = at[f - 1] + LenBytes + Len(frames[f])
      /\ \A f \in 0 .. size : at[f] <= at[size] /\ at[f] \in Nat
  <2>1. /\ at \in [0 .. size -> Nat] /\ at[0] = 0
        /\ \A f \in 1 .. size : at[f] = at[f - 1] + LenBytes + Len(frames[f])
        /\ \A f \in 0 .. size : at[f] <= at[size]
    BY DEF EndsAt
  <2> HIDE DEF size
  <2>2. \A f \in 0 .. size : at[f] \in Nat
    BY <2>1
  <2>3. at[size] \in Nat
    BY <1>1, <2>2
  <2>4. QED
    BY <2>1, <2>2, <2>3
<1>5. /\ Len(t) = Len(s) + Len(new) /\ Len(t) \in Nat
      /\ \A k \in 1 .. Len(s) : t[k] = s[k]
      /\ \A k \in Len(s) + 1 .. Len(s) + Len(new) : t[k] = new[k - Len(s)]
  <2> HIDE DEF new
  <2>1. /\ Len(t) = Len(s) + Len(new)
        /\ \A k \in 1 .. Len(s) : t[k] = s[k]
        /\ \A k \in Len(s) + 1 .. Len(s) + Len(new) : t[k] = new[k - Len(s)]
    BY <1>2, Written
  <2> HIDE DEF size, t
  <2>2. QED
    BY <1>1, <1>2, <2>1, LenProperties
<1>6. /\ ends[size + 1] = at[size] + LenBytes + Len(payload)
      /\ \A f \in 0 .. size : ends[f] = at[f]
      /\ ends \in [0 .. size + 1 -> Nat]
  BY DEF OneMore
<1> HIDE DEF new, t, size
<1>7. EndsAt(ends, more)
  <2>1. ASSUME NEW f \in 1 .. size + 1
        PROVE  ends[f] = ends[f - 1] + LenBytes + Len(more[f])
    <3>1. CASE f = size + 1
      <4>1. f - 1 = size /\ size \in 0 .. size
        BY <1>1, <3>1
      <4>2. QED
        BY <1>1, <1>6, <3>1, <4>1
    <3>2. CASE f # size + 1
      <4>1. f \in 1 .. size /\ f \in 0 .. size /\ f - 1 \in 0 .. size
        BY <1>1, <3>2
      <4>2. QED
        BY <1>1, <1>4, <1>6, <4>1
    <3>3. QED
      BY <3>1, <3>2
  <2>2. ASSUME NEW f \in 0 .. size + 1 PROVE ends[f] <= ends[size + 1]
    <3>1. at[size] <= ends[size + 1] /\ ends[size + 1] \in Nat
      BY <1>2, <1>4, <1>6, SMTT(30)
    <3>2. f = size + 1 \/ f \in 0 .. size
      BY <1>1
    <3>3. f \in 0 .. size => ends[f] <= at[size] /\ ends[f] \in Nat
      BY <1>4, <1>6
    <3>4. QED
      BY <1>4, <3>1, <3>2, <3>3
  <2>3. ends[0] = 0
    BY <1>1, <1>4, <1>6
  <2>4. QED
    BY <1>1, <1>6, <2>1, <2>2, <2>3 DEF EndsAt
<1>8. start + Len(t) = ends[size + 1]
  BY <1>1, <1>2, <1>4, <1>5, <1>6 DEF size
<1>9. ASSUME NEW f \in 1 .. size + 1, NEW p \in 1 .. LenBytes + Len(more[f]),
             NEW k \in 1 .. Len(t), start + k = ends[f - 1] + p
      PROVE  t[k] = Frame(more[f])[p]
  <2>0. Len(more[f]) \in Nat /\ p \in Nat /\ p <= LenBytes + Len(more[f]) /\ k \in Nat \ {0}
    <3>1. Len(more[f]) \in Nat
      BY <1>1, <1>2, <1>3
    <3>2. QED
      BY <1>2, <1>5, <3>1
  <2>1. CASE f = size + 1
    <3>1. f - 1 = size /\ ends[f - 1] = at[size] /\ more[f] = payload
      BY <1>1, <1>6, <2>1
    <3>2. start + k = (start + Len(s)) + p /\ p \in 1 .. Len(new)
      BY <1>2, <1>9, <3>1 DEF size
    <3>3. k = Len(s) + p
      <4>1. \A i, l \in Int : start + i = (start + l) + p => i = l + p
        BY <2>0
      <4>2. k \in Int /\ Len(s) \in Int
        BY <1>1, <2>0
      <4>3. QED
        BY <3>2, <4>1, <4>2
    <3>4. k \in Len(s) + 1 .. Len(s) + Len(new) /\ k - Len(s) = p
      BY <1>1, <1>2, <3>2, <3>3
    <3>5. QED
      BY <1>5, <3>1, <3>4 DEF new
  <2>2. CASE f # size + 1
    <3>1. f \in 1 .. size /\ f - 1 \in 0 .. size /\ f \in 0 .. size
      BY <1>1, <2>2
    <3>2. more[f] = frames[f] /\ ends[f - 1] = at[f - 1] /\ at[f - 1] \in Nat
          /\ Len(frames[f]) \in Nat
      BY <1>1, <1>3, <1>4, <1>6, <3>1
    <3>3. p \in 1 .. LenBytes + Len(frames[f]) /\ start + k = at[f - 1] + p
      BY <1>9, <3>2
    <3>4. at[f - 1] + p <= at[f] /\ at[f] <= at[size] /\ at[f] \in Nat
      <4>1. at[f] = at[f - 1] + LenBytes + Len(frames[f]) /\ at[f] <= at[size] /\ at[f] \in Nat
        BY <1>4, <3>1
      <4>2. QED
        <5>1. \A i, l \in Nat : p <= LenBytes + l => i + p <= i + LenBytes + l
          BY <1>2, <2>0
        <5>2. at[f - 1] + p <= at[f - 1] + LenBytes + Len(frames[f])
          BY <2>0, <3>2, <5>1
        <5>3. QED
          BY <4>1, <5>2
    <3>5. start + k <= start + Len(s)
      BY <1>4, <2>0, <3>2, <3>3, <3>4, SMTT(30) DEF size
    <3>6. k \in 1 .. Len(s)
      BY <1>1, <2>0, <3>5
    <3>7. s[k] = Frame(frames[f])[p]
      BY <3>1, <3>3, <3>6 DEF Reads, size
    <3>8. QED
      BY <1>5, <3>2, <3>6, <3>7
  <2>3. QED
    BY <2>1, <2>2
<1>10. Reads(t, start, ends, more)
  BY <1>1, <1>4, <1>5, <1>8, <1>9 DEF Reads
<1>11. QED
  BY <1>1, <1>7, <1>8, <1>10 DEF t, new

-----------------------------------------------------------------------------
(***************************************************************************)
(* The steps.                                                              *)
(***************************************************************************)
LEMMA InitIInv == Init => IInv
<1> SUFFICES ASSUME Init PROVE IInv
  OBVIOUS
<1>1. /\ noise \in Noises /\ server = "shell" /\ outbox = noise /\ pipe = <<>>
      /\ client = "scan" /\ matched = 0 /\ consumed = 0
  BY DEF Init
<1>2. /\ Len(noise) \in Nat /\ Len(Magic) \in Nat \ {0} /\ noise \in Seq(Byte)
      /\ Len(Opening) = Len(noise) + Len(Magic)
      /\ \A k \in 1 .. Len(noise) : Opening[k] = noise[k]
  BY <1>1, OpeningType
<1>3. StreamTypeOK
  BY <1>1, <1>2 DEF StreamTypeOK
<1>4. Rest = noise
  BY <1>1, <1>2, ConcatEmptySeq DEF Rest
<1>5. Scanning
  BY <1>1, <1>2, <1>4 DEF Scanning
<1>6. QED
  BY <1>1, <1>3, <1>5 DEF IInv, ContaminatedBeyondBudget

LEMMA StreamTypeStep == StreamTypeOK /\ [Next]_vars => StreamTypeOK'
<1> SUFFICES ASSUME StreamTypeOK, [Next]_vars PROVE StreamTypeOK'
  OBVIOUS
<1> USE DEF StreamTypeOK
<1>1. CASE WritePreamble
  BY <1>1, OpeningType DEF WritePreamble
<1>2. ASSUME NEW payload \in Payloads, WriteFrame(payload) PROVE StreamTypeOK'
  BY <1>2, FrameType DEF WriteFrame
<1>3. CASE Flow
  <2>1. pipe' \in Seq(Byte) /\ outbox' \in Seq(Byte)
    BY <1>3, Moved DEF Flow
  <2>2. QED
    BY <1>3, <2>1 DEF Flow, serverVars
<1>4. CASE Close \/ Die
  <2>1. /\ pipe' = pipe /\ noise' = noise /\ outbox' \in {outbox, <<>>}
        /\ server' \in {"closed", "dead"}
    BY <1>4 DEF Close, Die
  <2>2. QED
    BY <2>1, EmptySeq
<1>5. CASE ScanByte \/ ReadByte
  <2>1. /\ pipe # <<>> /\ pipe' = Tail(pipe)
        /\ outbox' = outbox /\ noise' = noise /\ server' = server
    BY <1>5 DEF ScanByte, ReadByte, serverVars
  <2>2. QED
    BY <2>1, HeadTailProperties
<1>6. CASE HaveLength \/ HavePayload \/ Eof \/ UNCHANGED vars
  BY <1>6 DEF HaveLength, HavePayload, Eof, vars, serverVars
<1>7. QED
  BY <1>1, <1>2, <1>3, <1>4, <1>5, <1>6 DEF Next, Client

\* The byte after the noise begins a match, and the next ones lengthen it.
LEMMA MatchingGrows ==
    ASSUME NEW n \in Nat, consumed \in Nat, matched \in 0 .. Len(Magic) - 1,
           consumed > n => matched = consumed - n,
           consumed >= n, Len(Magic) \in Nat,
           NEW byte, byte = Magic[consumed + 1 - n]
    PROVE  Matching(byte) = consumed + 1 - n
<1>1. CASE consumed > n
  <2>1. matched + 1 = consumed + 1 - n
    BY <1>1
  <2>2. QED
    BY <2>1 DEF Matching
<1>2. CASE consumed = n
  <2>1. consumed + 1 - n = 1 /\ byte = Magic[1]
    BY <1>2
  <2>2. matched = 0 \/ matched + 1 \in 2 .. Len(Magic)
    OBVIOUS
  <2>3. CASE matched = 0
    BY <2>1, <2>3 DEF Matching
  <2>4. CASE matched + 1 \in 2 .. Len(Magic)
    <3>1. Magic[matched + 1] # Magic[1]
      BY <2>4, MagicAssumption
    <3>2. QED
      BY <2>1, <3>1 DEF Matching
  <2>5. QED
    BY <2>2, <2>3, <2>4
<1>3. QED
  BY <1>1, <1>2

LEMMA MatchingType ==
    ASSUME NEW byte, matched \in 0 .. Len(Magic) - 1, Len(Magic) \in Nat \ {0}
    PROVE  Matching(byte) \in 0 .. Len(Magic)
  BY DEF Matching

\* What the scan takes for the beginning of the preamble is one.
LEMMA MatchingReads ==
    ASSUME Scanning, noise \in Noises, NEW byte, byte = Opening[consumed + 1],
           NEW m, m = Matching(byte)
    PROVE  /\ m \in Nat /\ m <= consumed + 1
           /\ \A k \in 1 .. m : Opening[consumed + 1 - m + k] = Magic[k]
<1>1. /\ consumed \in Nat /\ matched \in 0 .. Len(Magic) - 1 /\ matched <= consumed
      /\ \A k \in 1 .. matched : Opening[consumed - matched + k] = Magic[k]
      /\ Len(Magic) \in Nat \ {0}
  BY OpeningType DEF Scanning
<1>2. CASE byte = Magic[matched + 1]
  <2>1. m = matched + 1 /\ consumed + 1 - m = consumed - matched
    BY <1>1, <1>2 DEF Matching
  <2>2. ASSUME NEW k \in 1 .. m PROVE Opening[consumed + 1 - m + k] = Magic[k]
    <3>1. CASE k = matched + 1
      <4>1. consumed + 1 - m + k = consumed + 1
        BY <1>1, <2>1, <3>1
      <4>2. QED
        BY <1>2, <3>1, <4>1
    <3>2. CASE k # matched + 1
      <4>1. k \in 1 .. matched /\ consumed + 1 - m + k = consumed - matched + k
        BY <1>1, <2>1, <3>2
      <4>2. QED
        BY <1>1, <4>1
    <3>3. QED
      BY <3>1, <3>2
  <2>3. QED
    BY <1>1, <2>1, <2>2
<1>3. CASE byte # Magic[matched + 1] /\ byte = Magic[1]
  <2>1. m = 1
    BY <1>3 DEF Matching
  <2>2. ASSUME NEW k \in 1 .. m PROVE Opening[consumed + 1 - m + k] = Magic[k]
    <3>1. k = 1 /\ consumed + 1 - m + k = consumed + 1
      BY <1>1, <2>1
    <3>2. QED
      BY <1>3, <3>1
  <2>3. QED
    BY <1>1, <2>1, <2>2
<1>4. CASE byte # Magic[matched + 1] /\ byte # Magic[1]
  <2>1. m = 0
    BY <1>4 DEF Matching
  <2>2. QED
    BY <1>1, <2>1
<1>5. QED
  BY <1>2, <1>3, <1>4

\* The preamble is nowhere in the opening but at its end.
LEMMA OneMatch ==
    ASSUME noise \in Noises, NEW c \in Nat, Len(Magic) <= c, c <= Len(Opening),
           \A k \in 1 .. Len(Magic) : Opening[c - Len(Magic) + k] = Magic[k]
    PROVE  c = Len(Opening)
<1> DEFINE n == Len(noise)
           size == Len(Magic)
<1>1. /\ n \in Nat /\ size \in Nat \ {0} /\ Len(Opening) = n + size
      /\ noise \in Seq(Byte) /\ Magic \in Seq(Byte)
      /\ \A k \in 1 .. n : Opening[k] = noise[k]
      /\ \A k \in 1 .. size : Opening[n + k] = Magic[k]
  BY OpeningType
<1>2. CASE c <= n
  <2>1. c - size \in 0 .. n - size /\ (c - size) + size = c /\ c - size + 1 \in 1 .. n
    BY <1>1, <1>2
  <2>2. \A k \in c - size + 1 .. c : noise[k] \in Byte
    BY <1>1, <1>2
  <2>3. /\ SubSeq(noise, c - size + 1, c) \in Seq(Byte)
        /\ Len(SubSeq(noise, c - size + 1, c)) = size
        /\ \A k \in 1 .. size : SubSeq(noise, c - size + 1, c)[k] = noise[c - size + k]
    <3>1. c - size + 1 \in Int /\ c \in Int /\ c - size + 1 <= c /\ c - (c - size + 1) + 1 = size
      BY <1>1
    <3>2. \A k \in 1 .. size : (c - size + 1) + k - 1 = c - size + k
      BY <1>1
    <3>3. QED
      BY <2>2, <3>1, <3>2, SubSeqProperties
  <2>4. ASSUME NEW k \in 1 .. size PROVE SubSeq(noise, c - size + 1, c)[k] = Magic[k]
    <3>1. c - size + k \in 1 .. n
      BY <1>1, <1>2
    <3>2. QED
      BY <1>1, <2>3, <3>1
  <2>5. SubSeq(noise, c - size + 1, c) = Magic
    BY <1>1, <2>3, <2>4, SeqEqual
  <2>6. QED
    BY <2>1, <2>5, SizesAssumption
<1>3. CASE n < c /\ c < n + size
  <2> DEFINE k == n + 1 - (c - size)
  <2>1. k \in 2 .. size /\ k \in 1 .. size /\ c - size + k = n + 1 /\ 1 \in 1 .. size
    BY <1>1, <1>3
  <2>2. Magic[k] = Magic[1]
    BY <1>1, <2>1
  <2>3. QED
    BY <2>1, <2>2, MagicAssumption
<1> HIDE DEF n, size
<1>4. c <= n \/ (n < c /\ c < n + size) \/ c = n + size
  BY <1>1
<1>5. QED
  BY <1>1, <1>2, <1>3, <1>4

\* A turn of the scan: it goes on as it should, or ends where the preamble does.
LEMMA ScanStep ==
    ASSUME StreamTypeOK, Scanning, ContaminatedBeyondBudget, ScanByte
    PROVE  /\ client' = "scan" => Scanning'
           /\ client' = "length" => consumed' = Len(Opening)
           /\ ContaminatedBeyondBudget'
<1> DEFINE n == Len(noise)
           byte == Head(pipe)
           m == Matching(byte)
<1>1. /\ n \in Nat /\ Len(Magic) \in Nat \ {0} /\ Len(Opening) = n + Len(Magic)
      /\ \A k \in 1 .. Len(Magic) : Opening[n + k] = Magic[k]
  BY OpeningType DEF StreamTypeOK
<1>2. /\ consumed \in Nat /\ consumed < Len(Opening) /\ matched \in 0 .. Len(Magic) - 1
      /\ consumed > n => matched = consumed - n
      /\ server = "shell" => consumed + Len(Rest) = n
      /\ server \in {"serving", "closed"} => consumed + Len(Rest) >= Len(Opening)
      /\ \A k \in 1 .. Len(Rest) :
            consumed + k <= Len(Opening) => Rest[k] = Opening[consumed + k]
  BY DEF Scanning
<1>3. /\ pipe # <<>> /\ pipe' = Tail(pipe) /\ outbox' = outbox /\ consumed' = consumed + 1
      /\ server' = server /\ noise' = noise /\ Opening' = Opening
      /\ \/ m = Len(Magic) /\ client' = "length"
         \/ /\ m # Len(Magic) /\ matched' = m
            /\ client' = IF consumed' > MaxScan + Len(Magic) THEN "contaminated" ELSE "scan"
  BY DEF ScanByte, serverVars, Opening
<1>4. /\ Len(Rest) \in Nat \ {0} /\ byte = Rest[1] /\ Len(Rest') = Len(Rest) - 1
      /\ \A k \in 1 .. Len(Rest) - 1 : Rest'[k] = Rest[k + 1]
  BY <1>3, Taken DEF StreamTypeOK, Rest
<1> HIDE DEF n, byte, m
<1>5. byte = Opening[consumed + 1]
  BY <1>1, <1>2, <1>4
<1>6. m \in 0 .. Len(Magic)
  BY <1>1, <1>2, MatchingType DEF m
<1>7. consumed >= n => m = consumed + 1 - n
  <2> SUFFICES ASSUME consumed >= n PROVE m = consumed + 1 - n
    OBVIOUS
  <2>1. consumed + 1 - n \in 1 .. Len(Magic) /\ n + (consumed + 1 - n) = consumed + 1
    BY <1>1, <1>2
  <2>2. byte = Magic[consumed + 1 - n]
    BY <1>1, <1>5, <2>1
  <2>3. QED
    BY <1>1, <1>2, <2>2, MatchingGrows DEF m
<1>8. m # Len(Magic) => consumed' < Len(Opening)
  BY <1>1, <1>2, <1>3, <1>7
<1>9. m <= consumed' /\ \A k \in 1 .. m : Opening[consumed' - m + k] = Magic[k]
  <2>1. m <= consumed + 1 /\ \A k \in 1 .. m : Opening[consumed + 1 - m + k] = Magic[k]
    BY <1>5, MatchingReads DEF m, StreamTypeOK
  <2>2. consumed' = consumed + 1
    BY <1>3
  <2>3. ASSUME NEW k \in 1 .. m PROVE Opening[consumed' - m + k] = Magic[k]
    <3>1. consumed' - m + k = consumed + 1 - m + k
      BY <1>1, <1>2, <1>6, <2>2
    <3>2. QED
      BY <2>1, <3>1
  <2>4. QED
    BY <2>1, <2>2, <2>3
<1>10. ASSUME client' = "scan" PROVE Scanning'
  <2>1. m # Len(Magic) /\ matched' = m /\ consumed' < Len(Opening)
    BY <1>3, <1>8, <1>10
  <2>2. consumed' > n => matched' = consumed' - n
    BY <1>1, <1>2, <1>3, <1>7, <2>1
  <2>3. /\ server' = "shell" => consumed' + Len(Rest') = n
        /\ server' \in {"serving", "closed"} => consumed' + Len(Rest') >= Len(Opening)
    <3>1. consumed' + Len(Rest') = consumed + Len(Rest)
      BY <1>2, <1>3, <1>4
    <3>2. QED
      BY <1>2, <1>3, <3>1
  <2>4. ASSUME NEW k \in 1 .. Len(Rest'), consumed' + k <= Len(Opening)
        PROVE  Rest'[k] = Opening[consumed' + k]
    <3>1. /\ k + 1 \in 1 .. Len(Rest) /\ k \in 1 .. Len(Rest) - 1
          /\ consumed + (k + 1) = consumed' + k
      BY <1>2, <1>3, <1>4
    <3>2. QED
      BY <1>2, <1>4, <2>4, <3>1
  <2>5. /\ consumed' \in Nat /\ matched' \in 0 .. Len(Magic) - 1
        /\ n = Len(noise') /\ Opening' = Opening
    BY <1>1, <1>2, <1>3, <1>6, <2>1 DEF n
  <2>6. matched' <= consumed' /\ \A k \in 1 .. matched' : Opening[consumed' - matched' + k] = Magic[k]
    BY <1>3, <1>9, <2>1
  <2>7. QED
    BY <2>1, <2>2, <2>3, <2>4, <2>5, <2>6 DEF Scanning
<1>11. ASSUME client' = "length" PROVE consumed' = Len(Opening)
  <2>1. m = Len(Magic) /\ consumed' \in Nat /\ consumed' <= Len(Opening) /\ Len(Magic) <= consumed'
    BY <1>1, <1>2, <1>3, <1>9, <1>11
  <2>2. \A k \in 1 .. Len(Magic) : Opening[consumed' - Len(Magic) + k] = Magic[k]
    BY <1>9, <2>1
  <2>3. QED
    BY <2>1, <2>2, OneMatch DEF StreamTypeOK
<1>12. ContaminatedBeyondBudget'
  <2> SUFFICES ASSUME client' = "contaminated" PROVE Len(noise') > MaxScan
    BY DEF ContaminatedBeyondBudget
  <2>1. consumed' > MaxScan + Len(Magic) /\ consumed' < n + Len(Magic)
    BY <1>1, <1>3, <1>8
  <2>2. MaxScan \in Nat /\ consumed' \in Nat
    BY <1>2, <1>3, SizesAssumption
  <2>3. n > MaxScan
    BY <1>1, <2>1, <2>2
  <2>4. QED
    BY <1>3, <2>3 DEF n
<1>13. QED
  BY <1>10, <1>11, <1>12

\* The server's steps lengthen the stream behind the preamble, or cut it.
LEMMA ServerStep ==
    ASSUME StreamTypeOK, Scanning,
           WritePreamble \/ (\E payload \in Payloads : WriteFrame(payload)) \/ Close \/ Die
    PROVE  Scanning'
<1> DEFINE n == Len(noise)
<1>1. /\ n \in Nat /\ Len(Magic) \in Nat \ {0} /\ Len(Opening) = n + Len(Magic)
      /\ Magic \in Seq(Byte)
      /\ \A k \in 1 .. Len(Magic) : Opening[n + k] = Magic[k]
  BY OpeningType DEF StreamTypeOK
<1>2. /\ consumed \in Nat /\ consumed < Len(Opening) /\ matched \in 0 .. Len(Magic) - 1
      /\ consumed > n => matched = consumed - n
      /\ server = "shell" => consumed + Len(Rest) = n
      /\ server \in {"serving", "closed"} => consumed + Len(Rest) >= Len(Opening)
      /\ \A k \in 1 .. Len(Rest) :
            consumed + k <= Len(Opening) => Rest[k] = Opening[consumed + k]
  BY DEF Scanning
<1>3. /\ consumed' = consumed /\ matched' = matched /\ pipe' = pipe /\ noise' = noise
      /\ Len(noise') = n /\ Opening' = Opening
  BY DEF WritePreamble, WriteFrame, Close, Die, scanVars, Opening
<1> HIDE DEF n
\* What is left to show is about the bytes.
<1>4. ASSUME server' = "shell" => consumed + Len(Rest') = n,
             server' \in {"serving", "closed"} => consumed + Len(Rest') >= Len(Opening),
             \A k \in 1 .. Len(Rest') :
                 consumed + k <= Len(Opening) => Rest'[k] = Opening[consumed + k]
      PROVE  Scanning'
  BY <1>2, <1>3, <1>4 DEF Scanning
<1>5. CASE WritePreamble
  <2>1. /\ server = "shell" /\ server' = "serving" /\ Rest = pipe \o <<>>
        /\ Rest' = pipe \o Magic
    BY <1>5 DEF WritePreamble, Rest
  <2>2. /\ Rest = pipe /\ Len(pipe) \in Nat /\ Len(Rest') = Len(pipe) + Len(Magic)
        /\ \A k \in 1 .. Len(pipe) : Rest'[k] = pipe[k]
        /\ \A k \in Len(pipe) + 1 .. Len(pipe) + Len(Magic) : Rest'[k] = Magic[k - Len(pipe)]
    BY <1>1, <2>1, Written DEF StreamTypeOK
  <2>3. consumed + Len(pipe) = n
    BY <1>2, <2>1, <2>2
  <2>4. ASSUME NEW k \in 1 .. Len(Rest'), consumed + k <= Len(Opening)
        PROVE  Rest'[k] = Opening[consumed + k]
    <3>1. CASE k <= Len(pipe)
      <4>1. k \in 1 .. Len(pipe)
        BY <2>2, <3>1
      <4>2. QED
        BY <1>2, <2>2, <2>4, <4>1
    <3>2. CASE ~(k <= Len(pipe))
      <4>1. k \in 1 .. Len(pipe) + Len(Magic)
        BY <2>2
      <4>2. /\ k \in Len(pipe) + 1 .. Len(pipe) + Len(Magic)
            /\ k - Len(pipe) \in 1 .. Len(Magic)
        BY <1>1, <2>2, <3>2, <4>1
      <4>3. n + (k - Len(pipe)) = consumed + k
        <5>1. n = consumed + Len(pipe) /\ consumed \in Nat /\ Len(pipe) \in Nat /\ k \in Int
          BY <1>2, <2>2, <2>3
        <5>2. QED
          BY <5>1
      <4>4. QED
        BY <1>1, <2>2, <4>2, <4>3
    <3>3. QED
      BY <3>1, <3>2
  <2>5. consumed + Len(Rest') >= Len(Opening)
    BY <1>1, <1>2, <2>2, <2>3
  <2>6. QED
    BY <1>4, <2>1, <2>4, <2>5
<1>6. ASSUME NEW payload \in Payloads, WriteFrame(payload) PROVE Scanning'
  <2> DEFINE frame == BigEndian(Len(payload)) \o payload
  <2>1. /\ server = "serving" /\ server' = "serving" /\ Rest = pipe \o <<>>
        /\ Rest' = pipe \o frame
    BY <1>6 DEF WriteFrame, Rest
  <2>2. frame \in Seq(Byte)
    BY FrameType
  <2> HIDE DEF frame
  <2>3. /\ Rest = pipe /\ Len(pipe) \in Nat /\ Len(frame) \in Nat
        /\ Len(Rest') = Len(pipe) + Len(frame)
        /\ \A k \in 1 .. Len(pipe) : Rest'[k] = pipe[k]
    BY <2>1, <2>2, Written DEF StreamTypeOK
  <2>4. consumed + Len(pipe) >= Len(Opening)
    BY <1>2, <2>1, <2>3
  <2>5. ASSUME NEW k \in 1 .. Len(Rest'), consumed + k <= Len(Opening)
        PROVE  Rest'[k] = Opening[consumed + k]
    <3>1. k \in 1 .. Len(pipe)
      BY <1>1, <1>2, <2>3, <2>4, <2>5
    <3>2. QED
      BY <1>2, <2>3, <2>5, <3>1
  <2>6. consumed + Len(Rest') >= Len(Opening)
    BY <1>1, <1>2, <2>3, <2>4
  <2>7. QED
    BY <1>4, <2>1, <2>5, <2>6
<1>7. CASE Close
  <2>1. server = "serving" /\ server' = "closed" /\ Rest' = Rest
    BY <1>7 DEF Close, Rest
  <2>2. QED
    BY <1>2, <1>4, <2>1
<1>8. CASE Die
  <2>1. server' = "dead" /\ Rest' = pipe \o <<>> /\ Rest = pipe \o outbox
    BY <1>8 DEF Die, Rest
  <2>2. /\ Rest' = pipe /\ Len(pipe) \in Nat /\ Len(Rest) = Len(pipe) + Len(outbox)
        /\ Len(outbox) \in Nat /\ \A k \in 1 .. Len(pipe) : Rest[k] = pipe[k]
    BY <2>1, Written DEF StreamTypeOK
  <2>3. ASSUME NEW k \in 1 .. Len(Rest'), consumed + k <= Len(Opening)
        PROVE  Rest'[k] = Opening[consumed + k]
    BY <1>2, <2>2, <2>3
  <2>4. QED
    BY <1>4, <2>1, <2>3
<1>9. QED
  BY <1>5, <1>6, <1>7, <1>8

LEMMA InvStep == IInv /\ [Next]_vars => IInv'
<1> SUFFICES ASSUME IInv, [Next]_vars PROVE IInv'
  OBVIOUS
<1>1. StreamTypeOK /\ (client = "scan" => Scanning) /\ ContaminatedBeyondBudget
  BY DEF IInv
<1>2. StreamTypeOK'
  BY <1>1, StreamTypeStep
<1>3. CASE ScanByte
  <2>1. client = "scan"
    BY <1>3 DEF ScanByte
  <2>2. QED
    BY <1>1, <1>2, <1>3, <2>1, ScanStep DEF IInv
<1>4. CASE WritePreamble \/ (\E payload \in Payloads : WriteFrame(payload)) \/ Close \/ Die
  <2>1. client' = client /\ noise' = noise
    BY <1>4 DEF WritePreamble, WriteFrame, Close, Die
  <2>2. client = "scan" => Scanning'
    BY <1>1, <1>4, ServerStep
  <2>3. QED
    BY <1>1, <1>2, <2>1, <2>2 DEF IInv, ContaminatedBeyondBudget
<1>5. CASE Flow
  <2>1. client' = client /\ noise' = noise /\ server' = server
        /\ consumed' = consumed /\ matched' = matched
    BY <1>5 DEF Flow, serverVars, scanVars
  <2>2. Rest' = Rest
    BY <1>1, <1>5, Moved DEF Flow, Rest, StreamTypeOK
  <2>3. QED
    BY <1>1, <1>2, <2>1, <2>2 DEF IInv, Scanning, Opening, ContaminatedBeyondBudget
<1>6. CASE ReadByte \/ HaveLength \/ HavePayload \/ Eof
  <2>1. client' \notin {"scan", "contaminated"}
    BY <1>6 DEF ReadByte, HaveLength, HavePayload, Eof
  <2>2. QED
    BY <1>2, <2>1 DEF IInv, ContaminatedBeyondBudget
<1>7. CASE UNCHANGED vars
  BY <1>1, <1>2, <1>7
  DEF vars, serverVars, scanVars, IInv, Scanning, Rest, Opening, ContaminatedBeyondBudget
<1>8. QED
  BY <1>3, <1>4, <1>5, <1>6, <1>7 DEF Next, Client

-----------------------------------------------------------------------------
(***************************************************************************)
(* The steps, for the frames.                                              *)
(***************************************************************************)
LEMMA InitFrames == Init => Delivered /\ Framed
<1> SUFFICES ASSUME Init PROVE Delivered /\ Framed
  OBVIOUS
<1>1. /\ noise \in Noises /\ server = "shell" /\ outbox = noise /\ pipe = <<>> /\ sent = <<>>
      /\ client = "scan" /\ consumed = 0 /\ buf = <<>> /\ got = <<>>
  BY DEF Init
<1>2. /\ Len(noise) \in Nat /\ Len(Magic) \in Nat \ {0} /\ noise \in Seq(Byte)
      /\ Len(Opening) = Len(noise) + Len(Magic)
  BY <1>1, OpeningType
<1>3. Delivered
  <2>1. Len(got) = 0 /\ Len(sent) = 0
    BY <1>1
  <2>2. QED
    BY <1>1, <2>1, EmptySeq DEF Delivered, NeverRefused
<1>4. Unread = noise
  BY <1>1, <1>2, ConcatEmptySeq DEF Unread, Rest
<1> DEFINE at == [f \in 0 .. 0 |-> 0]
<1>5. EndsAt(at, sent)
  <2>1. Len(sent) = 0
    BY <1>1
  <2>2. QED
    BY <2>1 DEF EndsAt
<1>6. Reads(Unread, Start(at), at, sent)
  <2>1. Start(at) = 0 - Len(Opening) /\ Len(sent) = 0 /\ at[0] = 0
    BY <1>1 DEF Start
  <2>2. Start(at) + Len(Unread) <= at[0]
    BY <1>2, <1>4, <2>1
  <2>3. QED
    BY <2>1, <2>2 DEF Reads
<1>7. Aligned(at)
  BY <1>1, <1>5, <1>6 DEF Aligned
<1>8. QED
  BY <1>3, <1>7 DEF Framed

\* The types of what the frames are in.
LEMMA StreamIs ==
    ASSUME StreamTypeOK, Delivered
    PROVE  /\ Rest \in Seq(Byte) /\ Unread \in Seq(Byte)
           /\ Len(sent) \in Nat /\ Len(got) \in Nat /\ Len(buf) \in Nat
           /\ Len(Rest) \in Nat /\ Len(Unread) = Len(buf) + Len(Rest)
           /\ \A k \in 1 .. Len(buf) : Unread[k] = buf[k]
           /\ \A k \in 1 .. Len(Rest) : Unread[Len(buf) + k] = Rest[k]
<1>1. Rest \in Seq(Byte) /\ buf \in Seq(Byte)
  BY ConcatProperties DEF Rest, StreamTypeOK, Delivered
<1>2. sent \in Seq(Payloads) /\ got \in Seq(Seq(Byte))
  BY DEF Delivered
<1>3. Unread \in Seq(Byte)
  BY <1>1, ConcatProperties DEF Unread
<1> DEFINE rest == Rest
<1>4. rest \in Seq(Byte) /\ Unread = buf \o rest
  BY <1>1 DEF Unread
<1> HIDE DEF rest
<1>5. /\ Len(rest) \in Nat /\ Len(buf) \in Nat /\ Len(Unread) = Len(buf) + Len(rest)
      /\ \A k \in 1 .. Len(buf) : Unread[k] = buf[k]
      /\ \A k \in Len(buf) + 1 .. Len(buf) + Len(rest) : Unread[k] = rest[k - Len(buf)]
  BY <1>1, <1>4, Written
<1>6. ASSUME NEW k \in 1 .. Len(rest) PROVE Unread[Len(buf) + k] = rest[k]
  <2>1. Len(buf) + k \in Len(buf) + 1 .. Len(buf) + Len(rest) /\ (Len(buf) + k) - Len(buf) = k
    BY <1>5
  <2>2. QED
    BY <1>5, <2>1
<1>7. QED
  BY <1>1, <1>2, <1>3, <1>5, <1>6, LenProperties DEF rest

\* Where the client is, is a number.
LEMMA StartIs ==
    ASSUME StreamTypeOK, Delivered, Reading, client = "scan" => Scanning,
           NEW at, EndsAt(at, sent)
    PROVE  /\ Start(at) \in Int
           /\ Len(got) \in 0 .. Len(sent) /\ at[Len(got)] \in Nat /\ at[Len(sent)] \in Nat
           /\ at[0] = 0
<1>1. Len(sent) \in Nat /\ Len(got) \in Nat /\ Len(got) <= Len(sent) /\ LenBytes \in Nat
  BY StreamIs, SizesAssumption DEF Delivered
<1>2. at \in [0 .. Len(sent) -> Nat] /\ at[0] = 0
  BY DEF EndsAt
<1>3. Len(got) \in 0 .. Len(sent) /\ Len(sent) \in 0 .. Len(sent)
  BY <1>1
<1>4. at[Len(got)] \in Nat /\ at[Len(sent)] \in Nat
  BY <1>2, <1>3
<1>5. CASE client = "scan"
  <2>1. consumed \in Nat /\ Len(Opening) \in Nat
    BY <1>5, OpeningType DEF Scanning, StreamTypeOK
  <2>2. Start(at) = consumed - Len(Opening)
    BY <1>5 DEF Start
  <2>3. QED
    BY <1>2, <1>3, <1>4, <2>1, <2>2
<1>6. CASE client = "length"
  BY <1>2, <1>3, <1>4, <1>6 DEF Start
<1>7. CASE client = "payload"
  BY <1>1, <1>2, <1>3, <1>4, <1>7 DEF Start
<1>8. QED
  BY <1>5, <1>6, <1>7 DEF Reading

\* The server begins, or stops: there are no frames yet, or no more.
LEMMA BeginFrames ==
    ASSUME FramesInv, WritePreamble
    PROVE  Delivered' /\ Framed'
<1>1. /\ server = "shell" /\ outbox = <<>> /\ outbox' = Magic /\ server' = "serving"
      /\ noise' = noise /\ sent' = sent /\ pipe' = pipe /\ client' = client
      /\ consumed' = consumed /\ buf' = buf /\ want' = want /\ got' = got
  BY DEF WritePreamble, scanVars, frameVars
<1>2. StreamTypeOK /\ Delivered /\ (client = "scan" => Scanning) /\ Framed
  BY DEF FramesInv, IInv
<1>3. sent = <<>> /\ client \in {"scan", "contaminated"}
  BY <1>1, <1>2 DEF Delivered
<1>4. Delivered'
  BY <1>1, <1>2, <1>3 DEF Delivered, NeverRefused
<1>5. ASSUME Reading' PROVE \E at : Aligned(at)'
  <2>1. client = "scan" /\ client' = "scan" /\ Scanning /\ buf = <<>> /\ buf' = <<>>
    BY <1>1, <1>2, <1>3, <1>5 DEF Reading, Delivered
  <2>2. Magic \in Seq(Byte) /\ pipe \in Seq(Byte) /\ noise \in Noises
    BY <1>2, MagicAssumption DEF StreamTypeOK
  <2>3. Rest = pipe \o <<>> /\ Rest' = pipe \o Magic /\ pipe \o <<>> = pipe
    BY <1>1, <2>2, ConcatEmptySeq DEF Rest
  <2>4. /\ Len(pipe) \in Nat /\ Len(Magic) \in Nat
        /\ Len(Rest') = Len(pipe) + Len(Magic) /\ Len(Rest) = Len(pipe)
    BY <2>2, <2>3, Written
  <2>5. consumed + Len(Rest) = Len(noise) /\ consumed \in Nat
    BY <1>1, <2>1 DEF Scanning
  <2>6. Len(Opening) = Len(noise) + Len(Magic) /\ Len(noise) \in Nat
    BY <2>2, OpeningType
  <2>7. consumed + Len(Rest') = Len(Opening)
    BY <2>4, <2>5, <2>6
  <2>8. Unread' = Rest'
    <3>1. Rest' \in Seq(Byte)
      BY <2>2, <2>3, ConcatProperties
    <3>2. Unread' = <<>> \o Rest'
      BY <2>1 DEF Unread
    <3>3. QED
      BY <3>1, <3>2, ConcatEmptySeq
  <2> DEFINE at == [f \in 0 .. 0 |-> 0]
  <2>9. Len(sent') = 0 /\ at[0] = 0
    BY <1>1, <1>3
  <2>10. EndsAt(at, sent')
    BY <2>9 DEF EndsAt
  <2>11. Start(at)' = consumed - Len(Opening)
    BY <1>1, <2>1 DEF Start, Opening
  <2>12. Start(at)' + Len(Unread') = at[0]
    BY <2>4, <2>5, <2>6, <2>7, <2>8, <2>9, <2>11, SMTT(30)
  <2>13. Start(at)' + Len(Unread') <= at[0]
    BY <2>9, <2>12
  <2>14. Reads(Unread', Start(at)', at, sent')
    BY <2>9, <2>13 DEF Reads
  <2>15. Aligned(at)'
    BY <2>9, <2>10, <2>12, <2>14 DEF Aligned
  <2>16. QED
    BY <2>15
<1>6. QED
  BY <1>4, <1>5 DEF Framed

\* A frame more, behind the others.
LEMMA WriteFrames ==
    ASSUME FramesInv, NEW payload \in Payloads, WriteFrame(payload)
    PROVE  Delivered' /\ Framed'
<1>1. /\ server = "serving" /\ server' = server /\ outbox = <<>> /\ outbox' = Frame(payload)
      /\ Accepts(payload) /\ sent' = Append(sent, payload)
      /\ noise' = noise /\ pipe' = pipe /\ client' = client
      /\ consumed' = consumed /\ buf' = buf /\ want' = want /\ got' = got
  BY DEF WriteFrame, Frame, scanVars, frameVars
<1>2. StreamTypeOK /\ Delivered /\ (client = "scan" => Scanning) /\ Framed
  BY DEF FramesInv, IInv
<1>3. /\ sent \in Seq(Payloads) /\ Len(sent) \in Nat /\ Len(got) \in Nat
      /\ Len(got) <= Len(sent)
  BY <1>2, StreamIs DEF Delivered
<1>4. /\ sent' \in Seq(Payloads) /\ Len(sent') = Len(sent) + 1
      /\ sent'[Len(sent) + 1] = payload
      /\ \A f \in 1 .. Len(sent) : sent'[f] = sent[f]
  BY <1>1, <1>3, AppendProperties
<1>5. Delivered'
  <2>1. \A f \in 1 .. Len(sent') : Len(sent'[f]) <= MaxFrame
    <3>1. \A f \in 1 .. Len(sent') : f \in 1 .. Len(sent) \/ f = Len(sent) + 1
      BY <1>3, <1>4
    <3>2. \A f \in 1 .. Len(sent) : Len(sent[f]) <= MaxFrame
      BY <1>2 DEF Delivered
    <3>3. Len(payload) <= MaxFrame
      BY <1>1 DEF Accepts
    <3>4. QED
      BY <1>4, <3>1, <3>2, <3>3
  <2>2. Len(got') <= Len(sent') /\ \A f \in 1 .. Len(got') : got'[f] = sent'[f]
    <3>1. \A f \in 1 .. Len(got) : f \in 1 .. Len(sent) /\ got[f] = sent[f]
      BY <1>2, <1>3 DEF Delivered
    <3>2. QED
      BY <1>1, <1>3, <1>4, <3>1
  <2>3. client' = "payload" => Len(got') < Len(sent') /\ want' = Len(sent'[Len(got') + 1])
    <3>1. SUFFICES ASSUME client = "payload"
                   PROVE  Len(got) < Len(sent') /\ want = Len(sent'[Len(got) + 1])
      BY <1>1
    <3>2. Len(got) < Len(sent) /\ want = Len(sent[Len(got) + 1])
      BY <1>2, <3>1 DEF Delivered
    <3>3. Len(got) + 1 \in 1 .. Len(sent)
      BY <1>3, <3>2
    <3>4. QED
      BY <1>3, <1>4, <3>2, <3>3
  <2>4. /\ got' \in Seq(Seq(Byte)) /\ buf' \in Seq(Byte)
        /\ client' = "scan" => buf' = <<>> /\ got' = <<>>
        /\ server' # "shell" /\ NeverRefused'
    BY <1>1, <1>2 DEF Delivered, NeverRefused
  <2>5. QED
    BY <1>4, <2>1, <2>2, <2>3, <2>4 DEF Delivered
<1>6. ASSUME Reading' PROVE \E at : Aligned(at)'
  <2>1. Reading
    BY <1>1, <1>6 DEF Reading
  <2>2. PICK at : Aligned(at)
    BY <1>2, <2>1 DEF Framed
  <2>3. /\ EndsAt(at, sent) /\ Reads(Unread, Start(at), at, sent)
        /\ Start(at) + Len(Unread) = at[Len(sent)]
    BY <1>1, <2>2 DEF Aligned
  <2>4. Start(at) \in Int /\ Len(got) \in 0 .. Len(sent) /\ at[Len(sent)] \in Nat
    BY <1>2, <2>1, <2>3, StartIs
  <2>5. Unread' = Unread \o Frame(payload)
    <3>1. buf \in Seq(Byte) /\ pipe \in Seq(Byte) /\ Frame(payload) \in Seq(Byte)
      BY <1>2, FrameIs DEF Delivered, StreamTypeOK
    <3>2. Unread = buf \o pipe /\ Unread' = buf \o (pipe \o Frame(payload))
      BY <1>1, <3>1, ConcatEmptySeq DEF Unread, Rest
    <3>3. QED
      BY <3>1, <3>2, ConcatAssociative, SMTT(30)
  <2>0. PICK ends : ends = [f \in 0 .. Len(sent) + 1 |->
                               IF f = Len(sent) + 1
                               THEN at[Len(sent)] + LenBytes + Len(payload) ELSE at[f]]
    OBVIOUS
  <2>6. OneMore(sent', ends, sent, at, payload)
    <3>1. at \in [0 .. Len(sent) -> Nat] /\ Len(payload) \in Nat /\ LenBytes \in Nat
      BY <2>3, FrameIs DEF EndsAt
    <3>2. at[Len(sent)] + LenBytes + Len(payload) \in Nat
      BY <2>4, <3>1
    <3>3. \A f \in 0 .. Len(sent) + 1 : f = Len(sent) + 1 \/ at[f] \in Nat
      BY <1>3, <3>1
    <3>4. ends \in [0 .. Len(sent) + 1 -> Nat]
      BY <2>0, <3>2, <3>3
    <3>5. \A f \in 0 .. Len(sent) : ends[f] = at[f]
      BY <1>3, <2>0
    <3>6. ends[Len(sent) + 1] = at[Len(sent)] + LenBytes + Len(payload)
      BY <1>3, <2>0
    <3>7. QED
      BY <1>4, <3>4, <3>5, <3>6 DEF OneMore
  <2>7. /\ EndsAt(ends, sent')
        /\ Reads(Unread \o Frame(payload), Start(at), ends, sent')
        /\ Start(at) + Len(Unread \o Frame(payload)) = ends[Len(sent')]
    <3>1. Unread \in Seq(Byte)
      BY <1>2, StreamIs
    <3>2. QED
      BY <1>3, <2>3, <2>4, <2>6, <3>1, ReadsMore
  <2>8. Start(ends)' = Start(at)
    <3>1. ends[Len(got)] = at[Len(got)]
      BY <2>4, <2>6 DEF OneMore
    <3>2. QED
      BY <1>1, <2>1, <3>1 DEF Start, Opening, Reading
  <2>9. Aligned(ends)'
    BY <2>5, <2>7, <2>8 DEF Aligned
  <2>10. QED
    BY <2>9
<1>7. QED
  BY <1>5, <1>6 DEF Framed

\* What was on its way to the pipe is lost: the stream is cut.
LEMMA StopFrames ==
    ASSUME FramesInv, Close \/ Die
    PROVE  Delivered' /\ Framed'
<1>1. /\ noise' = noise /\ sent' = sent /\ pipe' = pipe /\ client' = client
      /\ consumed' = consumed /\ buf' = buf /\ want' = want /\ got' = got
      /\ \/ server = "serving" /\ outbox' = outbox
         \/ server' = "dead" /\ outbox' = <<>>
      /\ server' # "shell"
  BY DEF Close, Die, scanVars, frameVars
<1>2. StreamTypeOK /\ Delivered /\ (client = "scan" => Scanning) /\ Framed
  BY DEF FramesInv, IInv
<1>3. Delivered'
  BY <1>1, <1>2 DEF Delivered, NeverRefused
<1>4. ASSUME Reading' PROVE \E at : Aligned(at)'
  <2>1. Reading
    BY <1>1, <1>4 DEF Reading
  <2>2. PICK at : Aligned(at)
    BY <1>2, <2>1 DEF Framed
  <2>3. /\ EndsAt(at, sent) /\ Reads(Unread, Start(at), at, sent)
        /\ server \in {"serving", "closed"} => Start(at) + Len(Unread) = at[Len(sent)]
    BY <2>2 DEF Aligned
  <2>4. Start(at) \in Int /\ at[Len(sent)] \in Nat
    BY <1>2, <2>1, <2>3, StartIs
  <2>5. Start(at)' = Start(at)
    BY <1>1, <2>1 DEF Start, Opening, Reading
  <2>6. CASE server = "serving" /\ outbox' = outbox
    <3>1. Unread' = Unread
      BY <1>1, <2>6 DEF Unread, Rest
    <3>2. QED
      BY <1>1, <2>3, <2>5, <2>6, <3>1 DEF Aligned
  <2>7. CASE server' = "dead" /\ outbox' = <<>>
    <3>1. buf \in Seq(Byte) /\ pipe \in Seq(Byte) /\ outbox \in Seq(Byte)
      BY <1>2 DEF Delivered, StreamTypeOK
    <3>2. Unread = (buf \o pipe) \o outbox /\ Unread' = buf \o pipe
          /\ buf \o pipe \in Seq(Byte)
      BY <1>1, <2>7, <3>1, ConcatEmptySeq, ConcatAssociative, ConcatProperties, SMTT(30)
      DEF Unread, Rest
    <3> DEFINE cut == buf \o pipe
    <3>3. cut \in Seq(Byte) /\ Unread = cut \o outbox /\ Unread' = cut
      BY <3>2
    <3> HIDE DEF cut
    <3>4. /\ Len(cut) <= Len(Unread) /\ \A k \in 1 .. Len(cut) : cut[k] = Unread[k]
          /\ Unread \in Seq(Byte)
      BY <3>1, <3>3, Written, ConcatProperties
    <3>5. Reads(cut, Start(at), at, sent)
      <4>1. Reads(Unread, Start(at), at, sent)
        BY <2>3
      <4>2. at[Len(sent)] \in Int
        BY <2>4
      <4> DEFINE start == Start(at)
      <4>3. start \in Int
        BY <2>4
      <4> HIDE DEF start
      <4>4. QED
        BY <3>3, <3>4, <4>1, <4>2, <4>3, ReadsCut DEF start
    <3>6. Aligned(at)'
      BY <1>1, <2>3, <2>5, <2>7, <3>3, <3>5 DEF Aligned
    <3>7. QED
      BY <3>6
  <2>8. QED
    BY <1>1, <2>6, <2>7
<1>5. QED
  BY <1>3, <1>4 DEF Framed

\* Bytes that move on are still to be read.
LEMMA MoveFrames ==
    ASSUME FramesInv, Flow \/ ReadByte
    PROVE  Delivered' /\ Framed'
<1>1. /\ noise' = noise /\ server' = server /\ sent' = sent /\ client' = client
      /\ consumed' = consumed /\ want' = want /\ got' = got
      /\ \/ buf' = buf /\ outbox # <<>> /\ pipe' = Append(pipe, Head(outbox)) /\ outbox' = Tail(outbox)
         \/ client # "scan" /\ pipe # <<>> /\ buf' = Append(buf, Head(pipe)) /\ pipe' = Tail(pipe)
            /\ outbox' = outbox
  BY DEF Flow, ReadByte, serverVars, scanVars, frameVars
<1>2. StreamTypeOK /\ Delivered /\ Framed
  BY DEF FramesInv, IInv
<1>3. buf \in Seq(Byte) /\ pipe \in Seq(Byte) /\ outbox \in Seq(Byte)
  BY <1>2 DEF Delivered, StreamTypeOK
<1>4. Unread' = Unread /\ buf' \in Seq(Byte)
  <2>1. CASE buf' = buf /\ outbox # <<>> /\ pipe' = Append(pipe, Head(outbox)) /\ outbox' = Tail(outbox)
    <3>1. Rest' = Rest
      BY <1>3, <2>1, Moved, SMTT(30) DEF Rest
    <3>2. QED
      BY <1>3, <2>1, <3>1 DEF Unread
  <2>2. CASE /\ pipe # <<>> /\ buf' = Append(buf, Head(pipe)) /\ pipe' = Tail(pipe)
             /\ outbox' = outbox
    <3>1. /\ buf' \in Seq(Byte) /\ pipe' \in Seq(Byte) /\ outbox' \in Seq(Byte)
          /\ buf' \o pipe' = buf \o pipe
      BY <1>3, <2>2, Moved
    <3>2. \A b, p, o \in Seq(Byte) : b \o (p \o o) = (b \o p) \o o
      BY ConcatAssociative, SMTT(30)
    <3>3. buf' \o (pipe' \o outbox') = (buf' \o pipe') \o outbox'
      BY <3>1, <3>2
    <3>4. buf \o (pipe \o outbox) = (buf \o pipe) \o outbox
      BY <1>3, <3>2
    <3>5. QED
      BY <2>2, <3>1, <3>3, <3>4 DEF Unread, Rest
  <2>3. QED
    BY <1>1, <2>1, <2>2
<1>5. Delivered'
  BY <1>1, <1>2, <1>4 DEF Delivered, NeverRefused
<1>6. Framed'
  <2>1. \A at : Aligned(at) => Aligned(at)'
    BY <1>1, <1>4 DEF Aligned, Start, Opening
  <2>2. Reading' = Reading
    BY <1>1 DEF Reading
  <2>3. QED
    BY <1>2, <2>1, <2>2 DEF Framed
<1>7. QED
  BY <1>5, <1>6

\* A byte before the frames is read, the last of them the last of the preamble.
LEMMA ScanFrames ==
    ASSUME FramesInv, ScanByte
    PROVE  Delivered' /\ Framed'
<1>1. /\ client = "scan" /\ pipe # <<>> /\ pipe' = Tail(pipe) /\ consumed' = consumed + 1
      /\ noise' = noise /\ server' = server /\ sent' = sent /\ outbox' = outbox
      /\ buf' = buf /\ want' = want /\ got' = got
      /\ client' \in {"length", "contaminated", "scan"}
  BY DEF ScanByte, serverVars, frameVars
<1>2. /\ StreamTypeOK /\ StreamTypeOK' /\ Delivered /\ Scanning /\ Framed
      /\ ContaminatedBeyondBudget
  <2>1. StreamTypeOK'
    BY StreamTypeStep DEF FramesInv, IInv, Next, Client
  <2>2. QED
    BY <1>1, <2>1 DEF FramesInv, IInv
<1>3. client' = "length" => consumed' = Len(Opening)
  BY <1>2, ScanStep
<1>4. /\ Unread = Rest /\ Unread' = Rest' /\ Rest' \in Seq(Byte) /\ Rest \in Seq(Byte)
      /\ got = <<>> /\ Len(got) = 0 /\ buf = <<>>
  <2>1. buf = <<>> /\ got = <<>> /\ buf' = <<>>
    BY <1>1, <1>2 DEF Delivered
  <2>2. Rest \in Seq(Byte) /\ Rest' \in Seq(Byte)
    BY <1>2, ConcatProperties DEF StreamTypeOK, Rest
  <2>3. Unread = <<>> \o Rest /\ Unread' = <<>> \o Rest'
    BY <2>1 DEF Unread
  <2>4. QED
    BY <2>1, <2>2, <2>3, ConcatEmptySeq
<1>5. /\ Len(Rest) \in Nat \ {0} /\ Len(Rest') = Len(Rest) - 1
      /\ \A k \in 1 .. Len(Rest) - 1 : Rest'[k] = Rest[k + 1]
  BY <1>1, <1>2, Taken DEF StreamTypeOK, Rest
<1>6. consumed \in Nat /\ Len(noise) \in Nat /\ Len(Magic) \in Nat \ {0}
      /\ Len(Opening) = Len(noise) + Len(Magic) /\ Opening' = Opening
  BY <1>1, <1>2, OpeningType DEF StreamTypeOK, Scanning, Opening
<1>7. server = "shell" => client' \in {"scan", "contaminated"}
  <2>1. ASSUME server = "shell", client' = "length" PROVE FALSE
    <3>1. consumed + Len(Rest) = Len(noise)
      BY <1>2, <2>1 DEF Scanning
    <3>2. consumed + 1 = Len(noise) + Len(Magic)
      BY <1>1, <1>3, <1>6, <2>1
    <3>3. QED
      BY <1>5, <1>6, <3>1, <3>2
  <2>2. QED
    BY <1>1, <2>1
<1>8. Delivered'
  BY <1>1, <1>2, <1>4, <1>7 DEF Delivered, NeverRefused
<1>9. ASSUME Reading' PROVE \E at : Aligned(at)'
  <2>1. Reading
    BY <1>1 DEF Reading
  <2>2. PICK at : Aligned(at)
    BY <1>2, <2>1 DEF Framed
  <2>3. /\ EndsAt(at, sent) /\ Reads(Unread, Start(at), at, sent)
        /\ server \in {"serving", "closed"} => Start(at) + Len(Unread) = at[Len(sent)]
    BY <2>2 DEF Aligned
  <2>4. Start(at) \in Int /\ at[0] = 0 /\ at[Len(sent)] \in Nat
    BY <1>2, <2>1, <2>3, StartIs
  <2>5. Start(at)' = Start(at) + 1
    <3>1. Start(at) = consumed - Len(Opening)
      BY <1>1 DEF Start
    <3>2. CASE client' = "scan"
      <4>1. Start(at)' = consumed' - Len(Opening)
        BY <1>6, <3>2 DEF Start
      <4>2. QED
        BY <1>1, <1>6, <3>1, <4>1
    <3>3. CASE client' = "length"
      <4>1. Start(at)' = at[0]
        BY <1>1, <1>4, <3>3 DEF Start
      <4>2. QED
        BY <1>1, <1>3, <1>6, <2>4, <3>1, <3>3, <4>1
    <3>4. QED
      BY <1>1, <1>9, <3>2, <3>3 DEF Reading
  <2>6. Reads(Rest', Start(at) + 1, at, sent)
    <3>1. sent \in Seq(Payloads)
      BY <1>2 DEF Delivered
    <3>2. \A k \in 1 .. Len(Rest') : Rest'[k] = Rest[k + 1]
      BY <1>5
    <3>3. Reads(Rest, Start(at), at, sent)
      BY <1>4, <2>3
    <3> DEFINE t == Rest'
    <3>4. t \in Seq(Byte) /\ Len(t) = Len(Rest) - 1 /\ \A k \in 1 .. Len(t) : t[k] = Rest[k + 1]
      BY <1>4, <1>5, <3>2
    <3> HIDE DEF t
    <3>5. Reads(t, Start(at) + 1, at, sent)
      BY <1>4, <2>3, <2>4, <3>1, <3>3, <3>4, ReadsOn
    <3>6. QED
      BY <3>5 DEF t
  <2>7. server \in {"serving", "closed"} => (Start(at) + 1) + Len(Rest') = at[Len(sent)]
    BY <1>4, <1>5, <2>3, <2>4
  <2>8. Aligned(at)'
    BY <1>1, <1>4, <2>3, <2>5, <2>6, <2>7 DEF Aligned
  <2>9. QED
    BY <2>8
<1>10. QED
  BY <1>8, <1>9 DEF Framed

\* A length is read: there is a frame it is the length of.
LEMMA LengthFrames ==
    ASSUME FramesInv, HaveLength
    PROVE  Delivered' /\ Framed'
<1>1. /\ client = "length" /\ Len(buf) = LenBytes /\ want' = FromBigEndian(buf) /\ buf' = <<>>
      /\ client' = IF want' > MaxFrame THEN "refused" ELSE "payload"
      /\ noise' = noise /\ server' = server /\ sent' = sent /\ outbox' = outbox
      /\ pipe' = pipe /\ consumed' = consumed /\ got' = got
  BY DEF HaveLength, serverVars, scanVars
<1>2. StreamTypeOK /\ Delivered /\ Framed /\ (client = "scan" => Scanning) /\ Reading
  BY <1>1 DEF FramesInv, IInv, Reading
<1>3. PICK at : Aligned(at)
  BY <1>2 DEF Framed
<1>4. /\ EndsAt(at, sent) /\ Reads(Unread, Start(at), at, sent)
      /\ server \in {"serving", "closed"} => Start(at) + Len(Unread) = at[Len(sent)]
  BY <1>3 DEF Aligned
<1>5. /\ Start(at) = at[Len(got)] /\ Start(at) \in Int /\ at[Len(got)] \in Nat
      /\ at[Len(sent)] \in Nat
  BY <1>1, <1>2, <1>4, StartIs DEF Start
<1>6. /\ Rest \in Seq(Byte) /\ Unread \in Seq(Byte)
      /\ Len(sent) \in Nat /\ Len(got) \in Nat /\ Len(Rest) \in Nat
      /\ Len(Unread) = LenBytes + Len(Rest)
      /\ \A k \in 1 .. LenBytes : Unread[k] = buf[k]
      /\ \A k \in 1 .. Len(Rest) : Unread[LenBytes + k] = Rest[k]
      /\ LenBytes \in Nat \ {0}
  BY <1>1, <1>2, StreamIs, SizesAssumption
<1> DEFINE g == Len(got) + 1
<1>7. g \in 1 .. Len(sent) /\ g - 1 = Len(got)
  <2>1. Len(got) <= Len(sent)
    BY <1>2 DEF Delivered
  <2>2. Start(at) + Len(Unread) <= at[Len(sent)]
    BY <1>4 DEF Reads
  <2>3. Len(got) # Len(sent)
    <3>1. SUFFICES ASSUME Len(got) = Len(sent) PROVE FALSE
      OBVIOUS
    <3>2. at[Len(got)] + (LenBytes + Len(Rest)) <= at[Len(got)]
      BY <1>5, <1>6, <2>2, <3>1
    <3>3. QED
      BY <1>5, <1>6, <3>2
  <2>4. QED
    BY <1>6, <2>1, <2>3
<1>8. PICK payload \in Payloads : payload = sent[g] /\ Len(payload) <= MaxFrame
  BY <1>2, <1>7, ElementOfSeq DEF Delivered
<1> HIDE DEF g
<1>9. /\ Len(payload) \in Nat /\ Len(payload) < Power[LenBytes]
      /\ \A p \in 1 .. LenBytes : Frame(payload)[p] = BigEndian(Len(payload))[p]
  <2>1. Len(payload) \in Nat
    BY FrameIs
  <2>2. MaxFrame \in Nat /\ MaxFrame < Power[LenBytes] /\ Power[LenBytes] \in Nat
    BY <1>6, SizesAssumption, PowerIs
  <2>3. QED
    BY <1>8, <2>1, <2>2, FrameIs
<1>10. ASSUME NEW k \in 1 .. LenBytes PROVE buf[k] = BigEndian(Len(payload))[k]
  <2>1. /\ k \in 1 .. Len(Unread) /\ k \in 1 .. LenBytes + Len(sent[g])
        /\ Start(at) + k = at[g - 1] + k
    BY <1>5, <1>6, <1>7, <1>8, <1>9
  <2>2. Unread[k] = Frame(sent[g])[k]
    BY <1>4, <1>7, <2>1 DEF Reads
  <2>3. QED
    BY <1>6, <1>8, <1>9, <2>2
<1>11. buf = BigEndian(Len(payload))
  <2> DEFINE digits == BigEndian(Len(payload))
  <2>1. digits \in Seq(Byte) /\ Len(digits) = LenBytes
    BY <1>9, BigEndianDigits
  <2>2. buf \in Seq(Byte)
    BY <1>2 DEF Delivered
  <2>3. \A k \in 1 .. LenBytes : buf[k] = digits[k]
    BY <1>10
  <2> HIDE DEF digits
  <2>4. buf = digits
    BY <1>1, <2>1, <2>2, <2>3, SeqEqual
  <2>5. QED
    BY <2>4 DEF digits
<1>12. want' = Len(payload) /\ client' = "payload"
  <2>1. want' = Len(payload)
    BY <1>1, <1>9, <1>11, LengthsReadBack
  <2>2. MaxFrame \in Nat
    BY SizesAssumption
  <2>3. QED
    BY <1>1, <1>8, <1>9, <2>1, <2>2
<1>13. Delivered'
  <2>1. Len(got) < Len(sent) /\ want' = Len(sent[Len(got) + 1])
    BY <1>6, <1>7, <1>8, <1>12 DEF g
  <2>2. QED
    BY <1>1, <1>2, <1>12, <2>1, EmptySeq DEF Delivered, NeverRefused
<1>14. Aligned(at)'
  <2>1. Start(at)' = Start(at) + LenBytes
    BY <1>1, <1>5, <1>12 DEF Start
  <2>2. Unread' = Rest
    BY <1>1, <1>6, ConcatEmptySeq DEF Unread, Rest
  <2>3. sent \in Seq(Payloads)
    BY <1>2 DEF Delivered
  <2>4. /\ Len(Rest) = Len(Unread) - LenBytes
        /\ \A k \in 1 .. Len(Rest) : Rest[k] = Unread[k + LenBytes]
    BY <1>6
  <2>5. Reads(Rest, Start(at) + LenBytes, at, sent)
    BY <1>4, <1>5, <1>6, <2>3, <2>4, ReadsOn
  <2>6. server \in {"serving", "closed"} => (Start(at) + LenBytes) + Len(Rest) = at[Len(sent)]
    BY <1>4, <1>5, <1>6
  <2>7. QED
    BY <1>1, <1>4, <2>1, <2>2, <2>5, <2>6 DEF Aligned
<1>15. QED
  BY <1>13, <1>14 DEF Framed

\* A payload is read: it is that of the next frame.
LEMMA PayloadFrames ==
    ASSUME FramesInv, HavePayload
    PROVE  Delivered' /\ Framed'
<1>1. /\ client = "payload" /\ Len(buf) = want /\ got' = Append(got, buf) /\ buf' = <<>>
      /\ client' = "length"
      /\ noise' = noise /\ server' = server /\ sent' = sent /\ outbox' = outbox
      /\ pipe' = pipe /\ consumed' = consumed /\ want' = want
  BY DEF HavePayload, serverVars, scanVars
<1>2. StreamTypeOK /\ Delivered /\ Framed /\ (client = "scan" => Scanning) /\ Reading
  BY <1>1 DEF FramesInv, IInv, Reading
<1>3. PICK at : Aligned(at)
  BY <1>2 DEF Framed
<1>4. /\ EndsAt(at, sent) /\ Reads(Unread, Start(at), at, sent)
      /\ server \in {"serving", "closed"} => Start(at) + Len(Unread) = at[Len(sent)]
  BY <1>3 DEF Aligned
<1>5. /\ Start(at) = at[Len(got)] + LenBytes /\ Start(at) \in Int /\ at[Len(got)] \in Nat
      /\ at[Len(sent)] \in Nat
  BY <1>1, <1>2, <1>4, StartIs DEF Start
<1> DEFINE g == Len(got) + 1
<1>6. /\ Len(sent) \in Nat /\ Len(got) \in Nat /\ sent \in Seq(Payloads)
      /\ g \in 1 .. Len(sent) /\ g - 1 = Len(got) /\ want = Len(sent[g])
      /\ got \in Seq(Seq(Byte)) /\ buf \in Seq(Byte)
  BY <1>1, <1>2, StreamIs DEF Delivered
<1>7. PICK payload \in Payloads : payload = sent[g]
  BY <1>6, ElementOfSeq
<1> HIDE DEF g
<1>8. /\ payload \in Seq(Byte) /\ Len(payload) \in Nat /\ LenBytes \in Nat \ {0} /\ want = Len(payload)
      /\ \A p \in 1 .. Len(payload) : Frame(payload)[LenBytes + p] = payload[p]
  BY <1>6, <1>7, FrameIs
<1>9. /\ Rest \in Seq(Byte) /\ Unread \in Seq(Byte) /\ Len(Rest) \in Nat
      /\ Len(Unread) = want + Len(Rest)
      /\ \A k \in 1 .. want : Unread[k] = buf[k]
      /\ \A k \in 1 .. Len(Rest) : Unread[want + k] = Rest[k]
  BY <1>1, <1>2, StreamIs
<1>10. ASSUME NEW k \in 1 .. want PROVE buf[k] = payload[k]
  <2>1. /\ k \in 1 .. Len(Unread) /\ LenBytes + k \in 1 .. LenBytes + Len(sent[g])
        /\ Start(at) + k = at[g - 1] + (LenBytes + k)
    <3>1. want \in Nat /\ k \in Nat /\ 1 <= k /\ k <= want
      BY <1>8
    <3>2. k <= Len(Unread) /\ Len(Unread) \in Nat
      BY <1>9, <3>1
    <3>3. LenBytes + k \in 1 .. LenBytes + want /\ want = Len(sent[g])
      BY <1>6, <1>8, <3>1
    <3>4. Start(at) + k = at[Len(got)] + (LenBytes + k) /\ g - 1 = Len(got)
      BY <1>5, <1>6, <1>8, <3>1, SMTT(30)
    <3>5. QED
      BY <3>1, <3>2, <3>3, <3>4
  <2>2. Unread[k] = Frame(sent[g])[LenBytes + k]
    BY <1>4, <1>6, <2>1 DEF Reads
  <2>3. QED
    BY <1>7, <1>8, <1>9, <2>2
<1>11. buf = payload
  BY <1>1, <1>6, <1>8, <1>10, SeqEqual
<1>12. Delivered'
  <2>1. /\ got' \in Seq(Seq(Byte)) /\ Len(got') = g /\ got'[g] = buf
        /\ \A f \in 1 .. Len(got) : got'[f] = got[f]
    BY <1>1, <1>6, AppendProperties DEF g
  <2>2. ASSUME NEW f \in 1 .. Len(got') PROVE got'[f] = sent'[f]
    <3>1. f = g \/ f \in 1 .. Len(got)
      BY <1>6, <2>1
    <3>2. f \in 1 .. Len(got) => got[f] = sent[f]
      BY <1>2 DEF Delivered
    <3>3. QED
      BY <1>1, <1>7, <1>11, <2>1, <3>1, <3>2
  <2>3. Len(got') <= Len(sent')
    BY <1>1, <1>6, <2>1
  <2>4. QED
    BY <1>1, <1>2, <2>1, <2>2, <2>3, EmptySeq DEF Delivered, NeverRefused
<1>13. Aligned(at)'
  <2>1. at[g] = at[g - 1] + LenBytes + Len(payload)
    BY <1>4, <1>6, <1>7 DEF EndsAt
  <2>2. Start(at)' = Start(at) + want
    <3>1. Len(got') = g
      BY <1>1, <1>6, AppendProperties DEF g
    <3>2. Start(at)' = at[g]
      BY <1>1, <3>1 DEF Start
    <3>3. QED
      BY <1>5, <1>6, <1>8, <2>1, <3>2
  <2>3. Unread' = Rest
    BY <1>1, <1>9, ConcatEmptySeq DEF Unread, Rest
  <2>4. want \in Nat /\ Len(Rest) = Len(Unread) - want
        /\ \A k \in 1 .. Len(Rest) : Rest[k] = Unread[k + want]
    BY <1>8, <1>9
  <2>5. Reads(Rest, Start(at) + want, at, sent)
    BY <1>4, <1>5, <1>6, <1>9, <2>4, ReadsOn
  <2>6. server \in {"serving", "closed"} => (Start(at) + want) + Len(Rest) = at[Len(sent)]
    <3>1. \A i \in Int : (i + want) + Len(Rest) = i + (want + Len(Rest))
      BY <1>8, <1>9
    <3>2. (Start(at) + want) + Len(Rest) = Start(at) + Len(Unread)
      BY <1>5, <1>9, <3>1
    <3>3. QED
      BY <1>4, <3>2
  <2>7. QED
    BY <1>1, <1>4, <2>2, <2>3, <2>5, <2>6 DEF Aligned
<1>14. QED
  BY <1>12, <1>13 DEF Framed

LEMMA FramesStep == FramesInv /\ [Next]_vars => FramesInv'
<1> SUFFICES ASSUME FramesInv, [Next]_vars PROVE FramesInv'
  OBVIOUS
<1>1. IInv'
  BY InvStep DEF FramesInv
<1>2. CASE WritePreamble
  BY <1>1, <1>2, BeginFrames DEF FramesInv
<1>3. ASSUME NEW payload \in Payloads, WriteFrame(payload) PROVE FramesInv'
  BY <1>1, <1>3, WriteFrames DEF FramesInv
<1>4. CASE Close \/ Die
  BY <1>1, <1>4, StopFrames DEF FramesInv
<1>5. CASE Flow \/ ReadByte
  BY <1>1, <1>5, MoveFrames DEF FramesInv
<1>6. CASE ScanByte
  BY <1>1, <1>6, ScanFrames DEF FramesInv
<1>7. CASE HaveLength
  BY <1>1, <1>7, LengthFrames DEF FramesInv
<1>8. CASE HavePayload
  BY <1>1, <1>8, PayloadFrames DEF FramesInv
<1>9. CASE Eof
  <2>1. /\ client' = "eof" /\ server \in {"closed", "dead"} /\ server' = server
        /\ sent' = sent /\ buf' = buf /\ got' = got
    BY <1>9 DEF Eof, serverVars, frameVars
  <2>2. Delivered'
    BY <2>1 DEF FramesInv, Delivered, NeverRefused
  <2>3. Framed'
    BY <2>1 DEF Framed, Reading
  <2>4. QED
    BY <1>1, <2>2, <2>3 DEF FramesInv
<1>10. CASE UNCHANGED vars
  <2>1. Delivered' /\ (\A at : Aligned(at) => Aligned(at)') /\ Reading' = Reading
    BY <1>10 DEF FramesInv, vars, serverVars, scanVars, frameVars, Delivered, NeverRefused,
                 Aligned, Start, Unread, Rest, Opening, Reading
  <2>2. QED
    BY <1>1, <2>1 DEF FramesInv, Framed
<1>11. QED
  BY <1>2, <1>3, <1>4, <1>5, <1>6, <1>7, <1>8, <1>9, <1>10 DEF Next, Client

-----------------------------------------------------------------------------
\* Noise within the budget never makes the client give up, whatever the noise
\* looks like and wherever the preamble is cut.
THEOREM NoiseTolerated == Spec => []ContaminatedBeyondBudget
<1>1. Spec => []IInv
  BY InitIInv, InvStep, PTL DEF Spec
<1>2. IInv => ContaminatedBeyondBudget
  BY DEF IInv
<1>3. QED
  BY <1>1, <1>2, PTL

\* What the client reads is what was sent, from the first frame on: for any
\* noise, and wherever the stream is cut, no frame is torn, made up, dropped
\* from the middle, or out of order.
THEOREM Frames == Spec => []FramesArePrefix
<1>1. Spec => []FramesInv
  <2>1. Init => FramesInv
    BY InitIInv, InitFrames DEF FramesInv
  <2>2. QED
    BY <2>1, FramesStep, PTL DEF Spec
<1>2. FramesInv => FramesArePrefix
  <2> SUFFICES ASSUME FramesInv PROVE FramesArePrefix
    OBVIOUS
  <2>1. /\ sent \in Seq(Payloads) /\ got \in Seq(Seq(Byte)) /\ Len(got) <= Len(sent)
        /\ \A f \in 1 .. Len(got) : got[f] = sent[f]
    BY DEF FramesInv, Delivered
  <2>2. Len(got) \in Nat /\ Len(sent) \in Nat
    BY <2>1, LenProperties
  <2>3. SubSeq(got, 1, Len(got)) = SubSeq(sent, 1, Len(got))
    BY <2>1, <2>2 DEF SubSeq
  <2>4. QED
    BY <2>1, <2>3 DEF FramesArePrefix, IsPrefix
<1>3. QED
  BY <1>1, <1>2, PTL

\* A length is read as it was written, so what write_frame accepts read_frame
\* does not refuse.
THEOREM Accepted == Spec => []NeverRefused
<1>1. Spec => []FramesInv
  <2>1. Init => FramesInv
    BY InitIInv, InitFrames DEF FramesInv
  <2>2. QED
    BY <2>1, FramesStep, PTL DEF Spec
<1>2. FramesInv => NeverRefused
  BY DEF FramesInv, Delivered
<1>3. QED
  BY <1>1, <1>2, PTL

=============================================================================
