SPECIFICATION Spec
CONSTANTS
    Requests = {r1, r2}
    Ffmpegs = {f1, f2, f3}
    Inodes = {i1, i2, i3, i4}
    Blocks = 2
    None = None
SYMMETRY MCSymmetry
CHECK_DEADLOCK FALSE
INVARIANTS
    SettledWhole
