SPECIFICATION Spec
CONSTANTS
    Children = {c1, c2}
    Actions = {c2}
    Runs = {r1, r2}
    NoOne = NoOne
SYMMETRY Symmetry
INVARIANT ParentFollowsChildren
CHECK_DEADLOCK FALSE
