SPECIFICATION Spec
CONSTANTS
    Tab = {t1, t2}
    Call = {c1}
    MaxIssued = 3
    MaxLost = 0
SYMMETRY Symmetry
INVARIANTS RefusalsTrue
