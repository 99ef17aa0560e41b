----------------------------- MODULE LedgerData -----------------------------
(***************************************************************************)
(* The rows and the arithmetic of the brokerage ledger (accounts,          *)
(* transactions, holdings and orders): what the detailed module            *)
(* OrderEngine and its abstract specification Ledger have in common.       *)
(*                                                                         *)
(* Money in a row is a whole number of cents (Numeric(18,2)).  A quantity  *)
(* is a whole number of lots of 1/Scale of a share (Numeric(18,6), so      *)
(* Scale is 10^6 in production); a notional, quantity times price, is      *)
(* therefore a whole number of 1/Scale of a cent and has to be rounded     *)
(* when the balance is stored.                                             *)
(***************************************************************************)
EXTENDS Integers

CONSTANTS
    Account,    \* the rows of accounts
    Security,   \* the rows of securities
    OrderId,    \* the order ids that may be given out
    Ref,        \* the reference numbers clients put on transactions
    Qty,        \* quantities a client may ask for, in lots
    Price,      \* prices a client may ask for, in cents
    Amount,     \* amounts a client may deposit or withdraw, in cents
    Scale,      \* lots per share
    NoOrder,    \* the value of an order id that has no row
    NoTxn       \* the value of a reference that has no row

Side == {"buy", "sell"}

\* schemas.py: quantity, price and amount carry gt=0.
Terms == [acct : Account, sec : Security, side : Side, qty : Qty, price : Price]

OrderRow == [acct : Account, sec : Security, side : Side, qty : Qty,
             price : Price, status : {"pending", "filled", "cancelled"}]

TxnRow == [acct : Account, kind : {"deposit", "withdrawal"}, amount : Amount]

ASSUME LedgerAssumption ==
    /\ Scale \in Nat \ {0}
    /\ Qty \subseteq Nat \ {0}
    /\ Price \subseteq Nat \ {0}
    /\ Amount \subseteq Nat \ {0}
    /\ NoOrder \notin OrderRow
    /\ NoTxn \notin TxnRow

\* x / Scale cents, stored in a Numeric(18,2) column: rounded half up.
Cents(x) == (2 * x + Scale) \div (2 * Scale)

Notional(t) == t.qty * t.price

\* Variant: the sell branch trusts the client to have the shares.
CanFillUncovered(bal, held, t) == t.side = "buy" => bal * Scale >= Notional(t)

\* The checks of the buy and of the sell branch.  A missing holding row is
\* a quantity of zero, so the second one covers "no position to sell".
CanFill(bal, held, t) ==
    \/ t.side = "buy"  /\ bal * Scale >= Notional(t)
    \/ t.side = "sell" /\ held >= t.qty

BalanceAfter(bal, t) ==
    IF t.side = "buy" THEN Cents(bal * Scale - Notional(t))
                      ELSE Cents(bal * Scale + Notional(t))

\* Reaching zero deletes the holding row.
HeldAfter(held, t) ==
    IF t.side = "buy" THEN held + t.qty ELSE held - t.qty

Row(t, st) == [acct |-> t.acct, sec |-> t.sec, side |-> t.side, qty |-> t.qty,
               price |-> t.price, status |-> st]
=============================================================================
