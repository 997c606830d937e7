SPECIFICATION Spec
CONSTANTS
    Callers = {r1, r2}
    Workers = {w1}
    Readers = {c1}
    TtlConfig <- MCTtlConfig
    TtlDefaults <- MCTtlDefaults
    CreatedTtl = 1
    MaxOps = 2
    Watched = {1}
    MaxCreate = 0
    MaxNow = 1
INVARIANTS
    HandsAgree
    CompletedMeansRevoked
    EveryEndTold
    ExpiryFollowsState
    ShownEndStands
PROPERTIES
    InFlightEnds
    RepeatedReportRevokes
    RevocationArrives
CHECK_DEADLOCK FALSE
