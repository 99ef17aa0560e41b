---------------------------- MODULE OrderEngine ----------------------------
(***************************************************************************)
(* The request handlers of routes/orders.py and routes/transactions.py as  *)
(* concurrent database transactions.  A handler first takes its row locks  *)
(* (SELECT ... FOR UPDATE), keeps what it read in its session, reads the   *)
(* holding without a lock, and writes everything at COMMIT from the copies *)
(* it holds.  Any handler may be cut off before its COMMIT.                *)
(***************************************************************************)
EXTENDS LedgerData

CONSTANTS
    Proc,       \* the request handlers that may run at once
    NoProc,     \* the holder of a row that is not locked
    NoRequest   \* what a handler that is not running serves

VARIABLES
    balance, holding, orders, txns,     \* the committed rows, as in Ledger
    accHolder,  \* the transaction that has an accounts row FOR UPDATE
    ordHolder,  \* the transaction that has an orders row FOR UPDATE
    pc,         \* where each handler is
    req,        \* the request each handler serves
    seenBal,    \* the balance in the handler's copy of the account
    seenHeld,   \* the quantity in its copy of the holding
    seenOrder   \* its copy of the order row

db == <<balance, holding, orders, txns>>
session == <<req, seenBal, seenHeld, seenOrder>>
vars == <<db, accHolder, ordHolder, pc, session>>

CashRequest  == [op : {"deposit", "withdrawal"}, acct : Account, ref : Ref,
                 amount : Amount]
TradeRequest == [op : {"market"}, terms : Terms, order : OrderId]
OrderRequest == [op : {"cancel", "execute"}, order : OrderId]
Request == CashRequest \cup TradeRequest \cup OrderRequest

ASSUME ProcAssumption == NoProc \notin Proc /\ NoRequest \notin Request

Init ==
    /\ balance = [a \in Account |-> 0]
    /\ holding = [a \in Account |-> [s \in Security |-> 0]]
    /\ orders  = [o \in OrderId |-> NoOrder]
    /\ txns    = [r \in Ref |-> NoTxn]
    /\ accHolder = [a \in Account |-> NoProc]
    /\ ordHolder = [o \in OrderId |-> NoProc]
    /\ pc = [p \in Proc |-> "idle"]
    /\ req = [p \in Proc |-> NoRequest]
    /\ seenBal  = [p \in Proc |-> 0]
    /\ seenHeld = [p \in Proc |-> 0]
    /\ seenOrder = [p \in Proc |-> NoOrder]

IsCash(r)  == r.op \in {"deposit", "withdrawal"}
OnOrder(r) == r.op \in {"cancel", "execute"}

\* The terms the handler trades on: the payload's for a market order, those
\* of its copy of the row for a limit order.
TermsOf(p) == IF req[p].op = "market" THEN req[p].terms ELSE seenOrder[p]

AccountOf(p) == IF IsCash(req[p]) THEN req[p].acct ELSE TermsOf(p).acct

-----------------------------------------------------------------------------
(* The steps of a handler.                                                 *)

\* A new order row gets an id no other row has, nor any row being inserted.
Fresh(o) ==
    /\ orders[o] = NoOrder
    /\ \A p \in Proc : pc[p] # "idle" => ~(req[p].op = "market" /\ req[p].order = o)

Submit(p, r) ==
    /\ pc[p] = "idle"
    /\ r.op = "market" => Fresh(r.order)
    /\ pc' = [pc EXCEPT ![p] = IF OnOrder(r) THEN "lockOrder" ELSE "lockAccount"]
    /\ req' = [req EXCEPT ![p] = r]
    /\ UNCHANGED <<db, accHolder, ordHolder, seenBal, seenHeld, seenOrder>>

\* Variant: the session goes back to the pool with its transaction open.
EndTransactionLeaky(p) ==
    /\ pc' = [pc EXCEPT ![p] = "idle"]
    /\ req' = [req EXCEPT ![p] = NoRequest]
    /\ seenBal' = [seenBal EXCEPT ![p] = 0]
    /\ seenHeld' = [seenHeld EXCEPT ![p] = 0]
    /\ seenOrder' = [seenOrder EXCEPT ![p] = NoOrder]
    /\ UNCHANGED <<accHolder, ordHolder>>

\* COMMIT, ROLLBACK or a lost connection: the locks go, the session is over.
EndTransaction(p) ==
    /\ pc' = [pc EXCEPT ![p] = "idle"]
    /\ accHolder' = [a \in Account |-> IF accHolder[a] = p THEN NoProc ELSE accHolder[a]]
    /\ ordHolder' = [o \in OrderId |-> IF ordHolder[o] = p THEN NoProc ELSE ordHolder[o]]
    /\ req' = [req EXCEPT ![p] = NoRequest]
    /\ seenBal' = [seenBal EXCEPT ![p] = 0]
    /\ seenHeld' = [seenHeld EXCEPT ![p] = 0]
    /\ seenOrder' = [seenOrder EXCEPT ![p] = NoOrder]

Rollback(p) == EndTransaction(p) /\ UNCHANGED db

\* Variant: the join without with_for_update().
LockOrderPlain(p) ==
    /\ pc[p] = "lockOrder"
    /\ orders[req[p].order] # NoOrder
    /\ seenOrder' = [seenOrder EXCEPT ![p] = orders[req[p].order]]
    /\ pc' = [pc EXCEPT ![p] = "lockAccount"]
    /\ UNCHANGED <<db, accHolder, ordHolder, req, seenBal, seenHeld>>

\* The query of cancel and execute joins orders with accounts and locks the
\* rows of both, in this order.  After a wait the row is read again.
LockOrder(p) ==
    /\ pc[p] = "lockOrder"
    /\ orders[req[p].order] # NoOrder
    /\ ordHolder[req[p].order] = NoProc
    /\ ordHolder' = [ordHolder EXCEPT ![req[p].order] = p]
    /\ seenOrder' = [seenOrder EXCEPT ![p] = orders[req[p].order]]
    /\ pc' = [pc EXCEPT ![p] = "lockAccount"]
    /\ UNCHANGED <<db, accHolder, req, seenBal, seenHeld>>

OrderNotFound(p) ==
    /\ pc[p] = "lockOrder"
    /\ orders[req[p].order] = NoOrder
    /\ Rollback(p)

\* What the handler does once it has the account.
AfterAccount(p) == IF IsCash(req[p]) THEN "post"
                   ELSE IF req[p].op = "cancel" THEN "cancel"
                   ELSE "readHolding"

\* Variant: the account is read without with_for_update().
LockAccountPlain(p) ==
    /\ pc[p] = "lockAccount"
    /\ seenBal' = [seenBal EXCEPT ![p] = balance[AccountOf(p)]]
    /\ pc' = [pc EXCEPT ![p] = AfterAccount(p)]
    /\ UNCHANGED <<db, accHolder, ordHolder, req, seenHeld, seenOrder>>

LockAccount(p) ==
    /\ pc[p] = "lockAccount"
    /\ accHolder[AccountOf(p)] = NoProc
    /\ accHolder' = [accHolder EXCEPT ![AccountOf(p)] = p]
    /\ seenBal' = [seenBal EXCEPT ![p] = balance[AccountOf(p)]]
    /\ pc' = [pc EXCEPT ![p] = AfterAccount(p)]
    /\ UNCHANGED <<db, ordHolder, req, seenHeld, seenOrder>>

\* "Fetch current holding (no lock needed - account lock is sufficient)."
\* execute_order looks at the status first.
ReadHolding(p) ==
    /\ pc[p] = "readHolding"
    /\ req[p].op = "execute" => seenOrder[p].status = "pending"
    /\ seenHeld' = [seenHeld EXCEPT ![p] = holding[TermsOf(p).acct][TermsOf(p).sec]]
    /\ pc' = [pc EXCEPT ![p] = "fill"]
    /\ UNCHANGED <<db, accHolder, ordHolder, req, seenBal, seenOrder>>

NotPending(p) ==
    /\ \/ pc[p] = "readHolding" /\ req[p].op = "execute"
       \/ pc[p] = "cancel"
    /\ seenOrder[p].status # "pending"
    /\ Rollback(p)

CanPost(p) == req[p].op = "withdrawal" => seenBal[p] >= req[p].amount

PostRow(p) == [acct |-> req[p].acct, kind |-> req[p].op, amount |-> req[p].amount]

PostedBalance(p) == IF req[p].op = "deposit" THEN seenBal[p] + req[p].amount
                                             ELSE seenBal[p] - req[p].amount

\* Variant: no unique index on the reference.
PostTwice(p) ==
    /\ pc[p] = "post"
    /\ CanPost(p)
    /\ balance' = [balance EXCEPT ![req[p].acct] = PostedBalance(p)]
    /\ txns' = [txns EXCEPT ![req[p].ref] = PostRow(p)]
    /\ EndTransaction(p)
    /\ UNCHANGED <<holding, orders>>

\* reference_number is unique: a second insert fails at the flush, and the
\* balance that was already written in this transaction is rolled back.
Post(p) ==
    /\ pc[p] = "post"
    /\ CanPost(p)
    /\ txns[req[p].ref] = NoTxn
    /\ balance' = [balance EXCEPT ![req[p].acct] = PostedBalance(p)]
    /\ txns' = [txns EXCEPT ![req[p].ref] = PostRow(p)]
    /\ EndTransaction(p)
    /\ UNCHANGED <<holding, orders>>

PostRejected(p) ==
    /\ pc[p] = "post"
    /\ ~CanPost(p) \/ txns[req[p].ref] # NoTxn
    /\ Rollback(p)

Fill(p) ==
    /\ pc[p] = "fill"
    /\ CanFill(seenBal[p], seenHeld[p], TermsOf(p))
    /\ LET t == TermsOf(p) IN
         /\ balance' = [balance EXCEPT ![t.acct] = BalanceAfter(seenBal[p], t)]
         /\ holding' = [holding EXCEPT ![t.acct][t.sec] = HeldAfter(seenHeld[p], t)]
         /\ orders' = [orders EXCEPT ![req[p].order] = Row(t, "filled")]
    /\ EndTransaction(p)
    /\ UNCHANGED txns

FillRejected(p) ==
    /\ pc[p] = "fill"
    /\ ~CanFill(seenBal[p], seenHeld[p], TermsOf(p))
    /\ Rollback(p)

Cancel(p) ==
    /\ pc[p] = "cancel"
    /\ seenOrder[p].status = "pending"
    /\ orders' = [orders EXCEPT ![req[p].order].status = "cancelled"]
    /\ EndTransaction(p)
    /\ UNCHANGED <<balance, holding, txns>>

\* The process dies or loses its connection: the server rolls back.
Abort(p) == pc[p] # "idle" /\ Rollback(p)

\* A limit order takes no FOR UPDATE lock, but its foreign key does wait for
\* the account row while another transaction holds it.
PlaceLimit(o, t) ==
    /\ Fresh(o)
    /\ accHolder[t.acct] = NoProc
    /\ orders' = [orders EXCEPT ![o] = Row(t, "pending")]
    /\ UNCHANGED <<balance, holding, txns, accHolder, ordHolder, pc, session>>

-----------------------------------------------------------------------------
Handler(p) ==
    \/ LockOrder(p) \/ OrderNotFound(p) \/ LockAccount(p)
    \/ ReadHolding(p) \/ NotPending(p)
    \/ Post(p) \/ PostRejected(p)
    \/ Fill(p) \/ FillRejected(p)
    \/ Cancel(p)

Next ==
    \/ \E p \in Proc : Handler(p) \/ Abort(p) \/ \E r \in Request : Submit(p, r)
    \/ \E o \in OrderId, t \in Terms : PlaceLimit(o, t)

Spec == Init /\ [][Next]_vars

\* A running handler goes on until it answers, and the row locks of the
\* database are granted in the order they are asked for.
Fairness ==
    \A p \in Proc : /\ WF_vars(Handler(p))
                    /\ SF_vars(LockOrder(p))
                    /\ SF_vars(LockAccount(p))

FairSpec == Spec /\ Fairness

-----------------------------------------------------------------------------
TypeOK ==
    /\ balance \in [Account -> Nat]
    /\ holding \in [Account -> [Security -> Nat]]
    /\ orders \in [OrderId -> OrderRow \cup {NoOrder}]
    /\ txns \in [Ref -> TxnRow \cup {NoTxn}]
    /\ accHolder \in [Account -> Proc \cup {NoProc}]
    /\ ordHolder \in [OrderId -> Proc \cup {NoProc}]
    /\ pc \in [Proc -> {"idle", "lockOrder", "lockAccount", "readHolding",
                        "fill", "cancel", "post"}]
    /\ req \in [Proc -> Request \cup {NoRequest}]
    /\ seenBal \in [Proc -> Nat]
    /\ seenHeld \in [Proc -> Nat]
    /\ seenOrder \in [Proc -> OrderRow \cup {NoOrder}]

\* What a handler is about to write is computed from the rows as they are
\* committed now: nobody changed the balance, the holding or the order since
\* the handler read them (orders.py:7-15; the holding is read unlocked).
CopiesFresh ==
    \A p \in Proc :
        /\ pc[p] \in {"readHolding", "fill", "cancel", "post"} =>
               seenBal[p] = balance[AccountOf(p)]
        /\ pc[p] = "fill" =>
               seenHeld[p] = holding[TermsOf(p).acct][TermsOf(p).sec]
        /\ pc[p] # "idle" /\ seenOrder[p] # NoOrder =>
               seenOrder[p] = orders[req[p].order]

\* A filled or cancelled order is final, and a pending one keeps its terms:
\* of a cancel and an execute that race for one order only one wins.
OrdersFinal ==
    [][\A o \in OrderId : orders[o] # NoOrder =>
          /\ orders'[o] # NoOrder
          /\ orders[o].status # "pending" => orders'[o] = orders[o]
          /\ orders'[o] = [orders[o] EXCEPT !.status = orders'[o].status]]_vars

\* Each handler is one indivisible request of the abstract ledger.
AbstractLedger == INSTANCE Ledger WITH
    balance <- balance,
    holding <- holding,
    orders  <- orders,
    txns    <- txns
Linearizable == AbstractLedger!Spec

\* Every request is answered: no handler waits for ever for a row.
Answered == \A p \in Proc : pc[p] # "idle" ~> pc[p] = "idle"
=============================================================================
