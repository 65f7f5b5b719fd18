SPECIFICATION FairSpec
CONSTANTS
    Peers = {A, B}
    MaxRequests = 1
    MaxAnswers = 1
    Lossy = FALSE
    MaxSize = 2
    NoRequest = none
    Threads = {S, T}
    MinRoom = 3
    MaxExpiries = 1
    Timely = {A, B}
INVARIANTS
    TypeOK
    InsertsNewPeers
PROPERTIES
    StaysOnline
CHECK_DEADLOCK FALSE
