SPECIFICATION HistorySpec
CONSTANTS
    A = A
    B = B
    C = C
    First = A
    Second = B
    Peers = {A, B, C}
    Data = {1, 2}
    Trace <- ThreeTrace
    Initialized = {}
    HashLeq <- LexLeq
    Netinfos <- ThreeNetinfos
    MaxInbox = 1
    Limit <- ThreeLimit
INVARIANTS
    TypeOK
    VotesCounted
    Endorsed
    ForksNeedTimeouts
PROPERTIES
    NoTransactionLost
CHECK_DEADLOCK FALSE
