SPECIFICATION Spec

CONSTANTS
    Events = {e1, e2, e3}
    Poison = {e3}
    Runs = {r1, r2}
    MaxBlock = 2
    MaxFaults = 2

INVARIANTS
    TypeOK
    NothingSkipped
    HandledAgainForCause

PROPERTIES
    ImplementsQueue
