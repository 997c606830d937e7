SPECIFICATION Spec
CONSTANTS
    Callers = {r1}
    Workers = {w1}
    Readers = {}
    TtlConfig <- MCTtlConfig
    TtlDefaults <- MCTtlDefaults
    CreatedTtl = 1
    MaxOps = 1
    Watched = {}
    MaxCreate = 0
    MaxNow = 1
PROPERTIES
    ExpiredArePurged
CHECK_DEADLOCK FALSE
