SPECIFICATION Spec
CONSTANTS
    Position = {p1}
    Job = {j1}
    Session = {u1}
    Channel = {telegram, ntfy}
    Configured = {telegram, ntfy}
    MaxLevel = 1
    MaxDay = 2
    MaxFaults = 1
SYMMETRY Sym
INVARIANTS TypeOK RecordsTruthful RepeatsHaveACause
PROPERTIES StopIsTheUsers
CHECK_DEADLOCK FALSE
