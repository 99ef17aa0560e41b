SPECIFICATION Spec
CONSTANTS
    Alert = {a1}
    Job = {j1, j2}
    Session = {u1}
    MaxActive = 1
    MaxTarget = 1
    MaxLives = 1
    MaxStarts = 2
    MaxEnds = 0
SYMMETRY Sym
INVARIANTS NotifiedOnce
CHECK_DEADLOCK FALSE
