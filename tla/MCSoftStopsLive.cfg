SPECIFICATION FairSpec
CONSTANTS
    Position = {p1}
    Job = {j1}
    Session = {u1}
    Channel = {telegram, ntfy}
    Configured = {telegram}
    MaxLevel = 2
    MaxDay = 1
    MaxFaults = 1
PROPERTIES Warned
CHECK_DEADLOCK FALSE
