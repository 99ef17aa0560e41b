SPECIFICATION Spec
CONSTANTS
    Portfolio = {a, b}
    PosId = {x, y}
    Slot = {s1, s2}
    None = None
    MaxQty = 2
    MaxEvents = 3
SYMMETRY Sym
INVARIANTS TypeOK NeverInDebt CashReconciles SharesReconcile PageCurrent
