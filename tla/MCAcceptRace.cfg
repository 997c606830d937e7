SPECIFICATION Spec
CONSTANTS
    Offerer = offer
    Workers = {w1}
    Reconcilers = {}
    IssueCalls = {}
    AcceptCalls = {a1}
    RejectCalls = {}
    NoOne = NoOne
    EarlyWebhooks = FALSE
SYMMETRY Symmetry
INVARIANT OfferSettledWhenDrained
CHECK_DEADLOCK FALSE
