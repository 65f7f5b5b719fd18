SPECIFICATION Spec
CONSTANTS
    A = A
    B = B
    Peers = {A, B}
    Data = {1, 2}
    Trace <- PairTrace
    Initialized = {}
    HashLeq <- LexLeq
    Netinfos <- PairNetinfos
    MaxInbox = 2
    Limit <- PairLimit
PROPERTIES
    SetAsideQueued
CHECK_DEADLOCK FALSE
