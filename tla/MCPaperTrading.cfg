SPECIFICATION Spec
CONSTANTS
    Trade = {t1}
    Job = {j1, j2}
    Session = {u1}
    MaxActive = 1
    MaxPositions = 2
    MaxLost = 1
    MaxAdded = 1
SYMMETRY Sym
INVARIANTS TypeOK OpenedApart BreakerLeavesNone ChainsCounted ChainAlive
PROPERTIES ClosedStaysClosed
