SPECIFICATION Spec
CONSTANTS
    Offerer = offer
    Workers = {w1}
    Reconcilers = {}
    IssueCalls = {}
    AcceptCalls = {}
    RejectCalls = {}
    NoOne = NoOne
    EarlyWebhooks = TRUE
SYMMETRY Symmetry
INVARIANT CredentialAgreesWithOffer
CHECK_DEADLOCK FALSE
