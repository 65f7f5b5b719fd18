SPECIFICATION Spec
CONSTANTS
    Peers = {A, B}
    MaxRequests = 1
    MaxAnswers = 1
    Lossy = FALSE
    MaxSize = 2
    NoRequest = none
    Threads = {S}
    MinRoom = 3
    MaxExpiries = 0
    Timely = {}
PROPERTIES
    AcknowledgementsPushed
CHECK_DEADLOCK FALSE
