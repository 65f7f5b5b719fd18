SPECIFICATION Spec
CONSTANTS
    Source = A
    A = A
    B = B
    C = C
    D = D
    Peers = {A, B, C, D}
    Data = {1, 2}
    Trace <- JoinTrace
    Initialized = {A, C, D}
    HashLeq <- LexLeq
    Netinfos <- JoinNetinfos
    MaxInbox = 1
    Limit <- JoinLimit
PROPERTIES
    FullyUpdated
CHECK_DEADLOCK FALSE
