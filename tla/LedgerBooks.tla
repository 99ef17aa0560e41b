---------------------------- MODULE LedgerBooks ----------------------------
(***************************************************************************)
(* The books of the brokerage, added up from the committed rows: what the  *)
(* tables of transactions and filled orders say an account should hold,    *)
(* beside what its rows in accounts and holdings say it holds.  Nothing in *)
(* the program compares the two.                                           *)
(***************************************************************************)
EXTENDS OrderEngine, FiniteSets, Functions

\* The filled orders of one side of an account, and of one security.
Rows(a, sd) == {o \in OrderId : /\ orders[o] # NoOrder
                                /\ orders[o].status = "filled"
                                /\ orders[o].acct = a
                                /\ orders[o].side = sd}

RowsIn(a, s, sd) == {o \in Rows(a, sd) : orders[o].sec = s}

\* The deposits or the withdrawals of an account.
Posted(a, k) == {r \in Ref : txns[r] # NoTxn /\ txns[r].acct = a /\ txns[r].kind = k}

\* What each row is worth, and what the rows add up to.
Value    == [o \in OrderId |-> Notional(orders[o])]
Quantity == [o \in OrderId |-> orders[o].qty]
Moved    == [r \in Ref |-> txns[r].amount]

Cash(a, sd)    == SumFunctionOnSet(Value, Rows(a, sd))
Lots(a, s, sd) == SumFunctionOnSet(Quantity, RowsIn(a, s, sd))
Money(a, k)    == SumFunctionOnSet(Moved, Posted(a, k))

\* What the tables of transactions and filled orders say an account should
\* hold, in 1/Scale of a cent.
BookValue(a) == Scale * (Money(a, "deposit") - Money(a, "withdrawal"))
                + Cash(a, "sell") - Cash(a, "buy")

Drift(a) == Scale * balance[a] - BookValue(a)
Fills(a) == Cardinality(Rows(a, "buy") \cup Rows(a, "sell"))

\* The balance is what the transactions and the filled orders add up to, but
\* for half a cent of rounding per fill (Numeric(18,2) against eight decimals
\* of quantity times price): no update is lost, none is applied twice.
CashReconciles ==
    \A a \in Account : LET d == Drift(a) IN
        2 * (IF d < 0 THEN -d ELSE d) <= Scale * Fills(a)

\* A holding is exactly what was bought less what was sold.
SharesReconcile ==
    \A a \in Account, s \in Security :
        holding[a][s] = Lots(a, s, "buy") - Lots(a, s, "sell")
=============================================================================
