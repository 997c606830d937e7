SPECIFICATION Spec
CONSTANTS
    c1 = c1
    q1 = q1
    q2 = q2
    Clients = {c1}
    Requests = {q1, q2}
    MAX_CHANGES = 2
INVARIANT ReactivationRestores
CHECK_DEADLOCK FALSE
