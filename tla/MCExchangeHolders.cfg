SPECIFICATION Spec
CONSTANTS
    Offerer = offer
    Workers = {w1}
    Reconcilers = {}
    IssueCalls = {}
    AcceptCalls = {a1, a2}
    RejectCalls = {b1}
    NoOne = NoOne
    EarlyWebhooks = FALSE
SYMMETRY Symmetry
CONSTRAINT TwoHolders
INVARIANTS
    SettlementToldOnce
    CredentialAgreesWithOffer
PROPERTY OperationsMoveForward
CHECK_DEADLOCK FALSE
