SPECIFICATION Spec
CONSTANTS
    Children = {c1, c2, c3}
    Actions = {}
    Runs = {r1, r2, r3}
    NoOne = NoOne
SYMMETRY Symmetry
INVARIANTS
    DecisionHolds
    ParentFollowsChildren
PROPERTY Implements
CHECK_DEADLOCK FALSE
