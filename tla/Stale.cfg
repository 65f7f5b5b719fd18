SPECIFICATION InboxSpec
CONSTANTS
    Buffers = {b1, b2, b3}
    NoBuffer = NULL
    Garbage = garbage
    MaxQueued = 2
INVARIANTS
    OwnedAlways
CHECK_DEADLOCK FALSE
