\* Every noise up to two bytes over the budget, two frames, a pipe of two bytes.
SPECIFICATION FairSpec
CONSTANTS
    Base = 3
    Magic <- MCMagic
    LenBytes = 2
    MaxFrame = 2
    MaxScan = 3
    MaxNoise = 5
    Noises <- MCNoises
    Payloads <- MCPayloads
    Capacity = 2
    MaxFrames = 2
CHECK_DEADLOCK FALSE
INVARIANTS
    FramesArePrefix
    ContaminatedBeyondBudget
    NeverRefused
PROPERTIES
    EveryFrameArrives
