SPECIFICATION Spec
CONSTANTS
    d1 = d1
    d2 = d2
    Defs = {d1, d2}
    MAX_WAIT_CHECKS = 1
    Disturbed = {d1}
INVARIANTS
    RowAndOperationAgree
    ReadyIsPublished
    PendingHasJob
PROPERTIES
    RegistrationEnds
    PublishedOnce
CHECK_DEADLOCK FALSE
