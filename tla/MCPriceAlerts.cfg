SPECIFICATION FairSpec
CONSTANTS
    Alert = {a1}
    Job = {j1, j2}
    Session = {u1}
    MaxActive = 1
    MaxTarget = 2
    MaxLives = 2
    MaxStarts = 2
    MaxEnds = 1
INVARIANTS TypeOK ChainsKept OneChainNotifiesOnce
PROPERTIES Triggers
CHECK_DEADLOCK FALSE
