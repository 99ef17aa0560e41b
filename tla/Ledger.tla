------------------------------- MODULE Ledger -------------------------------
(***************************************************************************)
(* What the brokerage promises a client: every request is one indivisible  *)
(* change of the database, or no change at all.  OrderEngine is shown to   *)
(* implement this specification.                                           *)
(***************************************************************************)
EXTENDS LedgerData

VARIABLES
    balance,    \* accounts.balance, in cents
    holding,    \* holdings.quantity of an account and a security, 0 = no row
    orders,     \* the table of orders
    txns        \* the table of transactions, by reference number

vars == <<balance, holding, orders, txns>>

Init ==
    /\ balance = [a \in Account |-> 0]
    /\ holding = [a \in Account |-> [s \in Security |-> 0]]
    /\ orders  = [o \in OrderId |-> NoOrder]
    /\ txns    = [r \in Ref |-> NoTxn]

\* A deposit or a withdrawal is posted once per reference number.
Post(r, t) ==
    /\ txns[r] = NoTxn
    /\ t.kind = "withdrawal" => balance[t.acct] >= t.amount
    /\ txns' = [txns EXCEPT ![r] = t]
    /\ balance' = [balance EXCEPT ![t.acct] =
                      IF t.kind = "deposit" THEN @ + t.amount ELSE @ - t.amount]
    /\ UNCHANGED <<holding, orders>>

\* Cash, shares and the order row change together.
Fill(o, t) ==
    /\ CanFill(balance[t.acct], holding[t.acct][t.sec], t)
    /\ balance' = [balance EXCEPT ![t.acct] = BalanceAfter(@, t)]
    /\ holding' = [holding EXCEPT ![t.acct][t.sec] = HeldAfter(@, t)]
    /\ orders'  = [orders EXCEPT ![o] = Row(t, "filled")]
    /\ UNCHANGED txns

FillMarket(o, t) ==
    /\ orders[o] = NoOrder
    /\ Fill(o, t)

PlaceLimit(o, t) ==
    /\ orders[o] = NoOrder
    /\ orders' = [orders EXCEPT ![o] = Row(t, "pending")]
    /\ UNCHANGED <<balance, holding, txns>>

FillLimit(o) ==
    /\ orders[o] # NoOrder
    /\ orders[o].status = "pending"
    /\ Fill(o, orders[o])

Cancel(o) ==
    /\ orders[o] # NoOrder
    /\ orders[o].status = "pending"
    /\ orders' = [orders EXCEPT ![o].status = "cancelled"]
    /\ UNCHANGED <<balance, holding, txns>>

Next ==
    \/ \E r \in Ref, t \in TxnRow : Post(r, t)
    \/ \E o \in OrderId, t \in Terms : FillMarket(o, t) \/ PlaceLimit(o, t)
    \/ \E o \in OrderId : FillLimit(o) \/ Cancel(o)

Spec == Init /\ [][Next]_vars
=============================================================================
