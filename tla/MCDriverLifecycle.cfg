CONSTANTS
    Writers = {w1, w2}
    Inputs = {10}
SPECIFICATION LifeSpec
SYMMETRY Symmetry
INVARIANTS FreedIsUnused LoadedAgrees
