SPECIFICATION LocalSpec
CONSTANTS
    MaxPeers = 5
    MaxBlocks = 3
    Calls <- SmallCalls
    Poly <- ConfigPoly
    Lengths = {2, 4}
    Messages <- SomeMessages
    Full = 3
    MaxKeySize = 3
    ByteBits = 2
    HashBytes = 2
    Difficulties = {1, 2, 3}
    BatchSize = 2
    TraceLines = 4
    Traces <- SmallTraces
    AmountLength = 3
    Buffers = {b1, b2, b3}
    NoBuffer = NULL
    Garbage = garbage
    MaxQueued = 2
INVARIANTS
    MajorityIsFinal
    Accepts
    Detects
    LeadingZeroes
    KeysTriedOnce
    BatchesFilled
    OwnedUnlessSkipped
CHECK_DEADLOCK FALSE
