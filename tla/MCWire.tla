------------------------------- MODULE MCWire -------------------------------
EXTENDS Wire
CONSTANT MaxNoise   \* bound: bytes the shell prints
MCMagic == <<2, 0, 1>>
MCNoises ==
    {bytes \in BoundedSeq(Byte, MaxNoise) :
        \A n \in 0 .. Len(bytes) - 3 : SubSeq(bytes, n + 1, n + 3) # MCMagic}
MCPayloads == {<<>>, <<2>>, <<0, 1>>, <<1, 1, 1>>}
=============================================================================
