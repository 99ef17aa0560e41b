SPECIFICATION FairSpec
CONSTANTS
    Tab = {t1}
    Call = {c1, c2}
    MaxIssued = 3
    MaxLost = 1
INVARIANTS TypeOK RefusalsTrue ChainsSingle
PROPERTIES CallsSettle
