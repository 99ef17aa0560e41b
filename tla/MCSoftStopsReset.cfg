SPECIFICATION Spec
CONSTANTS
    Position = {p1}
    Job = {j1}
    Session = {u1}
    Channel = {telegram}
    Configured = {telegram}
    MaxLevel = 2
    MaxDay = 1
    MaxFaults = 0
SYMMETRY Sym
INVARIANTS  RecordsForLevel
CHECK_DEADLOCK FALSE
