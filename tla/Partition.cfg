SPECIFICATION Spec
CONSTANTS
    Source = A
    A = A
    B = B
    C = C
    D = D
    Peers = {A, B}
    Data = {1, 2}
    Trace <- PartitionTrace
    Initialized = {}
    HashLeq <- LexLeq
    Netinfos <- PartitionNetinfos
    MaxInbox = 1
    Limit <- PartitionLimit
INVARIANTS
    CandidatesAreNext
    Agreement
PROPERTIES
    ImplementsLedger
CHECK_DEADLOCK FALSE
