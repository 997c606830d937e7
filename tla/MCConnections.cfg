SPECIFICATION Spec
CONSTANTS
    x1 = x1
    Conns = {x1}
    Template = Template
INVARIANTS
    EstablishedOnce
    EstablishedIsTold
    FailedIsAbandoned
PROPERTIES
    EndedStays
    HandshakeArrives
CHECK_DEADLOCK FALSE
