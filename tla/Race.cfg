SPECIFICATION Spec
CONSTANTS
    Peers = {A}
    MaxRequests = 2
    MaxAnswers = 1
    Lossy = FALSE
    MaxSize = 2
    NoRequest = none
    Threads = {S, T}
    MinRoom = 3
    MaxExpiries = 0
    Timely = {}
INVARIANTS
    InsertsNewPeers
CHECK_DEADLOCK FALSE
