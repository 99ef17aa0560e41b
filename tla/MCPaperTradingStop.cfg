SPECIFICATION Spec
CONSTANTS
    Trade = {t1}
    Job = {j1}
    Session = {u1}
    MaxActive = 1
    MaxPositions = 1
    MaxLost = 0
    MaxAdded = 0
PROPERTIES StopIsPermanent
