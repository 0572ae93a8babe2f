CONSTANTS
    Writers = {w1, w2}
    Inputs = {0, 10, 60000, 60001}
SPECIFICATION Spec
SYMMETRY Symmetry
INVARIANT EnabledTimerRuns
