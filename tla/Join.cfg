SPECIFICATION FairSpec
CONSTANTS
    Source = A
    A = A
    B = B
    C = C
    D = D
    Peers = {A, B, C}
    Data = {1, 2}
    Trace <- JoinTrace
    Initialized = {A, C}
    HashLeq <- LexLeq
    Netinfos <- JoinNetinfos
    MaxInbox = 1
    Limit <- JoinLimit
INVARIANTS
    RepliesCounted
    Agreement
PROPERTIES
    CatchesUp
CHECK_DEADLOCK FALSE
