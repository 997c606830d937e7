SPECIFICATION Spec
CONSTANTS
    Users = {u1, u2}
    Identities = {k1, k2}
    Requests = {q1, q2}
    Flaggers = {f1}
    None = None
SYMMETRY Symmetry
CONSTRAINTS FlagNotLost OneField
INVARIANT OwnerRemains
PROPERTIES
    AccessStays
    IdentityStands
CHECK_DEADLOCK FALSE
