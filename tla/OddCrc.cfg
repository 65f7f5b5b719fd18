SPECIFICATION CrcSpec
CONSTANTS
    Poly <- ConfigPoly
    Lengths = {1, 3}
    Messages <- SomeMessages
INVARIANTS
    Accepts
CHECK_DEADLOCK FALSE
