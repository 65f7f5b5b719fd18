SPECIFICATION Spec
CONSTANTS
    Peers = {A}
    MaxRequests = 2
    MaxAnswers = 1
    Lossy = TRUE
    MaxSize = 2
    NoRequest = none
    Threads = {S, T}
    MinRoom = 3
    MaxExpiries = 0
    Timely = {}
INVARIANTS
    OneHeartbeatQueued
PROPERTIES
    ImplementsFifo
CHECK_DEADLOCK FALSE
