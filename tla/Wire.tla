-------------------------------- MODULE Wire --------------------------------
(***************************************************************************)
(* ndex-protocol's framing over the standard output of a remote process:   *)
(* what the login shell prints first, the preamble, then frames, each a    *)
(* big-endian length and a payload.  The pipe hands over bytes as it       *)
(* likes, and the server may die between any two of them.                  *)
(*                                                                         *)
(* Bytes are digits below Base, so that lengths stay small.                *)
(***************************************************************************)
EXTENDS Naturals, Sequences, SequencesExt

CONSTANTS
    Base,             \* values of a byte, 256
    Magic,            \* MAGIC_PREAMBLE, "NDEX\0\1"
    LenBytes,         \* bytes of a length, 4
    MaxFrame,         \* MAX_FRAME_BYTES, 16 MiB
    MaxScan,          \* MAX_PREAMBLE_SCAN_BYTES, 4096
    Noises,           \* what a shell may print
    Payloads,         \* what a server may want to send
    Capacity,         \* bound: bytes in the pipe
    MaxFrames         \* bound: frames sent

Byte == 0 .. Base - 1

\* How many numbers k bytes can hold: Base ^ k.
Power[k \in 0 .. LenBytes] == IF k = 0 THEN 1 ELSE Base * Power[k - 1]

\* The scan restarts at one byte only, which is right as long as the first
\* byte of the preamble is nowhere else in it.
ASSUME MagicAssumption ==
    /\ Magic \in Seq(Byte) /\ Len(Magic) > 0
    /\ \A n \in 2 .. Len(Magic) : Magic[n] # Magic[1]

\* A length that is allowed can be written.  The shell does not print the
\* preamble.
ASSUME SizesAssumption ==
    /\ Base \in Nat \ {0} /\ LenBytes \in Nat \ {0}
    /\ MaxFrame \in Nat /\ MaxFrame < Power[LenBytes]
    /\ MaxScan \in Nat /\ Capacity \in Nat \ {0} /\ MaxFrames \in Nat
    /\ Noises \subseteq Seq(Byte) /\ Payloads \subseteq Seq(Byte)
    /\ \A noise \in Noises : ~\E n \in 0 .. Len(noise) - Len(Magic) :
           SubSeq(noise, n + 1, n + Len(Magic)) = Magic

VARIABLES
    server,           \* "shell", "serving", "closed", "dead"
    noise,            \* what the shell printed
    outbox,           \* bytes the server has yet to write
    pipe,             \* bytes on the way
    sent,             \* the frames write_frame accepted
    client,           \* "scan", "length", "payload",
                      \* "contaminated", "refused", "eof"
    matched,          \* preamble bytes recognised
    consumed,         \* bytes read by scan_preamble
    buf,              \* what read_exact has so far
    want,             \* the length of the frame under way
    got               \* the frames read

serverVars == <<server, noise, sent>>
scanVars == <<matched, consumed>>
frameVars == <<buf, want, got>>
vars == <<serverVars, outbox, pipe, client, scanVars, frameVars>>

Init ==
    /\ noise \in Noises
    /\ server = "shell" /\ outbox = noise /\ pipe = <<>> /\ sent = <<>>
    /\ client = "scan" /\ matched = 0 /\ consumed = 0
    /\ buf = <<>> /\ want = 0 /\ got = <<>>

\* What read_exact is waiting for in each read_frame.
Need == CASE client = "length" -> LenBytes [] client = "payload" -> want

TypeOK ==
    /\ server \in {"shell", "serving", "closed", "dead"}
    /\ client \in {"scan", "length", "payload", "contaminated", "refused", "eof"}
    /\ noise \in Noises
    /\ outbox \in Seq(Byte) /\ pipe \in Seq(Byte) /\ Len(pipe) <= Capacity
    /\ matched \in 0 .. Len(Magic) - 1 /\ consumed \in 0 .. MaxScan + Len(Magic) + 1
    /\ buf \in Seq(Byte) /\ want \in 0 .. Power[LenBytes] - 1
    /\ client \in {"length", "payload"} => Len(buf) <= Need
    /\ sent \in Seq(Payloads) /\ got \in Seq(Seq(Byte))

-----------------------------------------------------------------------------
\* u32::to_be_bytes, and back.
\* Mutant of BigEndian: the bytes are in the order of the machine.
LittleEndian(n) == [p \in 1 .. LenBytes |-> (n \div Power[p - 1]) % Base]
BigEndian(n) == [p \in 1 .. LenBytes |-> (n \div Power[LenBytes - p]) % Base]
FromBigEndian(bytes) ==
    LET value[p \in 0 .. LenBytes] ==
            IF p = 0 THEN 0 ELSE Base * value[p - 1] + bytes[p]
    IN  value[LenBytes]

WritePreamble ==
    /\ server = "shell" /\ outbox = <<>>
    /\ outbox' = Magic
    /\ server' = "serving"
    /\ UNCHANGED <<noise, sent, pipe, client, scanVars, frameVars>>

\* Mutant of Accepts: any payload whose length can be written.
AcceptsWritable(payload) == Len(payload) < Power[LenBytes]

\* write_frame refuses an oversize payload before it writes anything.
Accepts(payload) == Len(payload) <= MaxFrame

WriteFrame(payload) ==
    /\ server = "serving" /\ outbox = <<>>
    /\ Len(sent) < MaxFrames
    /\ Accepts(payload)
    /\ outbox' = BigEndian(Len(payload)) \o payload
    /\ sent' = Append(sent, payload)
    /\ UNCHANGED <<server, noise, pipe, client, scanVars, frameVars>>

\* write_all, as far as the pipe goes.
Flow ==
    /\ outbox # <<>> /\ Len(pipe) < Capacity
    /\ pipe' = Append(pipe, Head(outbox))
    /\ outbox' = Tail(outbox)
    /\ UNCHANGED <<serverVars, client, scanVars, frameVars>>

Close ==
    /\ server = "serving" /\ outbox = <<>>
    /\ server' = "closed"
    /\ UNCHANGED <<noise, sent, outbox, pipe, client, scanVars, frameVars>>

\* A crash, or a connection lost: what was not handed over is gone.
Die ==
    /\ server \in {"shell", "serving"}
    /\ server' = "dead" /\ outbox' = <<>>
    /\ UNCHANGED <<noise, sent, pipe, client, scanVars, frameVars>>

-----------------------------------------------------------------------------
\* Mutant of Matching: a wrong byte ends a match for good.
MatchingAnew(byte) == IF byte = Magic[matched + 1] THEN matched + 1 ELSE 0

\* Mutant of Matching: a wrong byte is passed over.
MatchingOn(byte) == IF byte = Magic[matched + 1] THEN matched + 1 ELSE matched

\* How much of the preamble is there after one more byte.
Matching(byte) ==
    IF byte = Magic[matched + 1] THEN matched + 1
    ELSE IF byte = Magic[1] THEN 1 ELSE 0

\* A turn of scan_preamble.  The whole preamble is found before the budget is
\* looked at.
ScanByte ==
    /\ client = "scan" /\ pipe # <<>>
    /\ pipe' = Tail(pipe)
    /\ consumed' = consumed + 1
    /\ LET m == Matching(Head(pipe))
       IN  IF m = Len(Magic)
              THEN client' = "length" /\ matched' = 0
              ELSE /\ matched' = m
                   /\ client' = IF consumed' > MaxScan + Len(Magic)
                                   THEN "contaminated" ELSE "scan"
    /\ UNCHANGED <<serverVars, outbox, frameVars>>

\* read_exact takes what there is.
ReadByte ==
    /\ client \in {"length", "payload"} /\ Len(buf) < Need
    /\ pipe # <<>>
    /\ buf' = Append(buf, Head(pipe)) /\ pipe' = Tail(pipe)
    /\ UNCHANGED <<serverVars, outbox, client, scanVars, want, got>>

HaveLength ==
    /\ client = "length" /\ Len(buf) = LenBytes
    /\ want' = FromBigEndian(buf)
    /\ buf' = <<>>
    /\ client' = IF want' > MaxFrame THEN "refused" ELSE "payload"
    /\ UNCHANGED <<serverVars, outbox, pipe, scanVars, got>>

\* read_frame returns a frame, and is called again.
HavePayload ==
    /\ client = "payload" /\ Len(buf) = want
    /\ got' = Append(got, buf)
    /\ buf' = <<>>
    /\ client' = "length"
    /\ UNCHANGED <<serverVars, outbox, pipe, scanVars, want>>

\* The stream ends while a read waits: between two frames, it is the same
\* error as within one.
Eof ==
    /\ \/ client = "scan"
       \/ client \in {"length", "payload"} /\ Len(buf) < Need
    /\ server \in {"closed", "dead"} /\ outbox = <<>> /\ pipe = <<>>
    /\ client' = "eof"
    /\ UNCHANGED <<serverVars, outbox, pipe, scanVars, frameVars>>

Client == ScanByte \/ ReadByte \/ HaveLength \/ HavePayload \/ Eof

Next ==
    \/ WritePreamble \/ \E payload \in Payloads : WriteFrame(payload)
    \/ Flow \/ Close \/ Die
    \/ Client

Spec == Init /\ [][Next]_vars

\* The pipe moves what is written, and the client reads.
FairSpec == Spec /\ WF_vars(Flow) /\ WF_vars(Client)

-----------------------------------------------------------------------------
(***************************************************************************)
(* What holds.                                                             *)
(***************************************************************************)

\* The client reads what was sent: whatever the shell printed and wherever
\* the stream is cut, no frame is torn, made up, or out of order.
FramesArePrefix == IsPrefix(got, sent)

\* The client never gives up on a server because of noise within the budget,
\* even noise that looks like the beginning of a preamble.
ContaminatedBeyondBudget == client = "contaminated" => Len(noise) > MaxScan

\* No frame that write_frame accepts is refused by read_frame.
NeverRefused == client # "refused"

\* All frames of a server that closes in order arrive, unless the noise was
\* too much.
EveryFrameArrives == server = "closed" ~> got = sent \/ client = "contaminated"

=============================================================================
