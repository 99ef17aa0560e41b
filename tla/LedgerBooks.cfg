SPECIFICATION FairSpec
CONSTANTS
    Proc = {p1, p2}
    Account = {a1}
    Security = {s1}
    OrderId = {o1, o2}
    Ref = {r1, r2}
    Qty = {1}
    Price = {1}
    Amount = {2}
    Scale = 2
    NoProc = NoProc
    NoOrder = NoOrder
    NoTxn = NoTxn
    NoRequest = NoRequest
INVARIANTS TypeOK CopiesFresh CashReconciles SharesReconcile
PROPERTIES OrdersFinal Linearizable Answered
