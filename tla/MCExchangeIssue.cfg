SPECIFICATION Spec
CONSTANTS
    Offerer = offer
    Workers = {w1}
    Reconcilers = {r1}
    IssueCalls = {i1, i2}
    AcceptCalls = {}
    RejectCalls = {}
    NoOne = NoOne
    EarlyWebhooks = FALSE
SYMMETRY Symmetry
INVARIANTS
    TypeOK
    SettlementToldOnce
    IssuedAtMostOnce
    CredentialAgreesWithOffer
    SettledWhenDrained
    OutcomeNotContradicted
    RequestAnnouncedOnce
PROPERTY OperationsMoveForward
CHECK_DEADLOCK FALSE
