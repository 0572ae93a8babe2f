CONSTANTS
    RotateBytes = 6
    Sizes = {1, 3}
    MaxLines = 5
SPECIFICATION Spec
INVARIANTS RecentLinesKept FilesBounded
