------------------------- MODULE OrderEngineProofs -------------------------
(***************************************************************************)
(* Proofs about OrderEngine for every set of handlers, accounts, orders    *)
(* and requests, every price, quantity and scale.                          *)
(***************************************************************************)
EXTENDS LedgerBooks, SetSums, TLAPS

(***************************************************************************)
(* Arithmetic of a fill.                                                   *)
(***************************************************************************)
LEMMA DivNat ==
  ASSUME NEW a \in Nat, NEW b \in Nat \ {0}
  PROVE  a \div b \in Nat
  OBVIOUS

LEMMA CentsType ==
  ASSUME NEW x \in Nat
  PROVE  Cents(x) \in Nat
  <1>1. 2 * x + Scale \in Nat /\ 2 * Scale \in Nat \ {0}
    BY LedgerAssumption
  <1>2. QED
    BY <1>1, DivNat DEF Cents

\* A fill that passed its check leaves the balance and the holding at or
\* above zero.
LEMMA FillType ==
  ASSUME NEW bal \in Nat, NEW held \in Nat,
         NEW t, t.side \in Side, t.qty \in Qty, t.price \in Price,
         CanFill(bal, held, t)
  PROVE  BalanceAfter(bal, t) \in Nat /\ HeldAfter(held, t) \in Nat
  <1>1. t.qty \in Nat /\ t.price \in Nat /\ Scale \in Nat
    BY LedgerAssumption
  <1>2. bal * Scale \in Nat /\ Notional(t) \in Nat
    BY <1>1 DEF Notional
  <1>3. CASE t.side = "buy"
    <2>1. bal * Scale - Notional(t) \in Nat
      BY <1>2, <1>3 DEF CanFill
    <2>2. QED
      BY <2>1, <1>1, <1>3, CentsType DEF BalanceAfter, HeldAfter
  <1>4. CASE t.side = "sell"
    <2>1. bal * Scale + Notional(t) \in Nat
      BY <1>2
    <2>2. QED
      BY <2>1, <1>1, <1>4, CentsType DEF BalanceAfter, HeldAfter, CanFill
  <1>5. QED
    BY <1>3, <1>4 DEF Side
(***************************************************************************)
(* The inductive invariant.                                                *)
(***************************************************************************)
\* Which requests can be at which step, and which hold a copy of an order.
Shape ==
    \A p \in Proc :
        /\ pc[p] = "idle" <=> req[p] = NoRequest
        /\ pc[p] = "lockOrder" => req[p] \in OrderRequest
        /\ pc[p] = "post" => req[p] \in CashRequest
        /\ pc[p] = "cancel" => req[p] \in OrderRequest /\ req[p].op = "cancel"
        /\ pc[p] \in {"readHolding", "fill"} =>
               \/ req[p] \in TradeRequest
               \/ req[p] \in OrderRequest /\ req[p].op = "execute"
        /\ IF pc[p] \notin {"idle", "lockOrder"} /\ req[p] \in OrderRequest
           THEN seenOrder[p] \in OrderRow
           ELSE seenOrder[p] = NoOrder
        /\ pc[p] = "fill" /\ req[p] \in OrderRequest => seenOrder[p].status = "pending"

\* A handler holds the rows it is working on.
LocksHeld ==
    \A p \in Proc :
        /\ pc[p] \in {"readHolding", "fill", "cancel", "post"} =>
               accHolder[AccountOf(p)] = p
        /\ pc[p] \notin {"idle", "lockOrder"} /\ req[p] \in OrderRequest =>
               ordHolder[req[p].order] = p

\* The id of a row about to be inserted belongs to one handler alone.
Reserved ==
    \A p \in Proc : req[p] \in TradeRequest =>
        /\ orders[req[p].order] = NoOrder
        /\ \A q \in Proc \ {p} : req[q] \in TradeRequest =>
               req[q].order # req[p].order

IInv == TypeOK /\ Shape /\ LocksHeld /\ Reserved /\ CopiesFresh

LEMMA RequestKinds ==
  ASSUME NEW r \in Request \cup {NoRequest}
  PROVE  /\ r = NoRequest <=> r \notin Request
         /\ r \in Request => (OnOrder(r) <=> r \in OrderRequest)
         /\ r \in Request => (IsCash(r) <=> r \in CashRequest)
         /\ r \in Request => (r.op = "market" <=> r \in TradeRequest)
         /\ r \in OrderRequest => r.order \in OrderId
         /\ r \in TradeRequest => r.order \in OrderId /\ r.terms \in Terms
         /\ r \in CashRequest => r.acct \in Account /\ r.amount \in Amount /\ r.ref \in Ref
         /\ ~(r \in OrderRequest /\ r \in CashRequest)
         /\ ~(r \in OrderRequest /\ r \in TradeRequest)
         /\ ~(r \in CashRequest /\ r \in TradeRequest)
  BY ProcAssumption DEF Request, CashRequest, TradeRequest, OrderRequest, OnOrder, IsCash

\* Past its order lock a handler knows its account, and once it trades, its terms.
LEMMA AccountKnown ==
  ASSUME IInv, NEW p \in Proc, pc[p] \notin {"idle", "lockOrder"}
  PROVE  /\ AccountOf(p) \in Account
         /\ req[p] \in CashRequest => AccountOf(p) = req[p].acct
         /\ req[p] \in OrderRequest => AccountOf(p) = seenOrder[p].acct
         /\ req[p] \notin CashRequest =>
               /\ TermsOf(p).acct = AccountOf(p)
               /\ TermsOf(p).sec \in Security
               /\ TermsOf(p).side \in Side
               /\ TermsOf(p).qty \in Qty
               /\ TermsOf(p).price \in Price
  <1>1. req[p] \in Request
    BY DEF IInv, TypeOK, Shape
  <1>2. CASE req[p] \in CashRequest
    BY <1>1, <1>2, RequestKinds DEF AccountOf, TermsOf
  <1>3. CASE req[p] \in OrderRequest
    <2>1. seenOrder[p] \in OrderRow
      BY <1>3 DEF IInv, Shape
    <2>2. AccountOf(p) = seenOrder[p].acct /\ TermsOf(p) = seenOrder[p]
      BY <1>1, <1>3, RequestKinds DEF AccountOf, TermsOf
    <2>3. QED
      BY <1>1, <1>3, <2>1, <2>2, RequestKinds DEF OrderRow
  <1>4. CASE req[p] \in TradeRequest
    <2>1. AccountOf(p) = req[p].terms.acct /\ TermsOf(p) = req[p].terms
      BY <1>1, <1>4, RequestKinds DEF AccountOf, TermsOf
    <2>2. QED
      BY <1>1, <1>4, <2>1, RequestKinds DEF Terms
  <1>5. QED
    BY <1>1, <1>2, <1>3, <1>4 DEF Request

LEMMA SameSession ==
  ASSUME NEW q \in Proc, req'[q] = req[q], seenOrder'[q] = seenOrder[q]
  PROVE  AccountOf(q)' = AccountOf(q) /\ TermsOf(q)' = TermsOf(q)
  BY DEF AccountOf, TermsOf

LEMMA InitInv == Init => IInv
  BY ProcAssumption, LedgerAssumption
  DEF Init, IInv, TypeOK, Shape, LocksHeld, Reserved, CopiesFresh, TradeRequest, Request

(***************************************************************************)
(* The steps.                                                              *)
(***************************************************************************)
\* What the end of p's transaction does to the invariant, whatever it wrote:
\* the other handlers keep their session and their locks.
LEMMA EndStep ==
  ASSUME IInv, NEW p \in Proc, EndTransaction(p)
  PROVE  /\ accHolder' \in [Account -> Proc \cup {NoProc}]
         /\ ordHolder' \in [OrderId -> Proc \cup {NoProc}]
         /\ pc' \in [Proc -> {"idle", "lockOrder", "lockAccount", "readHolding",
                             "fill", "cancel", "post"}]
         /\ req' \in [Proc -> Request \cup {NoRequest}]
         /\ seenBal' \in [Proc -> Nat]
         /\ seenHeld' \in [Proc -> Nat]
         /\ seenOrder' \in [Proc -> OrderRow \cup {NoOrder}]
         /\ pc'[p] = "idle" /\ req'[p] = NoRequest /\ seenOrder'[p] = NoOrder
         /\ \A q \in Proc \ {p} :
               /\ pc'[q] = pc[q] /\ req'[q] = req[q]
               /\ seenBal'[q] = seenBal[q]
               /\ seenHeld'[q] = seenHeld[q]
               /\ seenOrder'[q] = seenOrder[q]
               /\ AccountOf(q)' = AccountOf(q) /\ TermsOf(q)' = TermsOf(q)
         /\ Shape'
         /\ LocksHeld'
  <1>1. /\ accHolder' \in [Account -> Proc \cup {NoProc}]
        /\ ordHolder' \in [OrderId -> Proc \cup {NoProc}]
        /\ pc' \in [Proc -> {"idle", "lockOrder", "lockAccount", "readHolding",
                            "fill", "cancel", "post"}]
        /\ req' \in [Proc -> Request \cup {NoRequest}]
        /\ seenBal' \in [Proc -> Nat]
        /\ seenHeld' \in [Proc -> Nat]
        /\ seenOrder' \in [Proc -> OrderRow \cup {NoOrder}]
        /\ pc'[p] = "idle" /\ req'[p] = NoRequest /\ seenOrder'[p] = NoOrder
    BY DEF IInv, TypeOK, EndTransaction
  <1>2. \A q \in Proc \ {p} :
               /\ pc'[q] = pc[q] /\ req'[q] = req[q]
               /\ seenBal'[q] = seenBal[q]
               /\ seenHeld'[q] = seenHeld[q]
               /\ seenOrder'[q] = seenOrder[q]
    BY DEF IInv, TypeOK, EndTransaction
  <1>3. \A q \in Proc \ {p} : AccountOf(q)' = AccountOf(q) /\ TermsOf(q)' = TermsOf(q)
    BY <1>2, SameSession
  <1>4. Shape'
    BY <1>1, <1>2, RequestKinds, ProcAssumption DEF IInv, Shape, Request
  <1>5. LocksHeld'
    <2> SUFFICES ASSUME NEW q \in Proc, pc'[q] # "idle"
                 PROVE  /\ pc'[q] \in {"readHolding", "fill", "cancel", "post"} =>
                              accHolder'[AccountOf(q)'] = q
                        /\ pc'[q] \notin {"idle", "lockOrder"} /\ req'[q] \in OrderRequest =>
                              ordHolder'[req'[q].order] = q
      BY DEF LocksHeld
    <2>1. q # p
      BY <1>1
    <2>2. pc'[q] = pc[q] /\ req'[q] = req[q] /\ AccountOf(q)' = AccountOf(q)
      BY <1>2, <1>3, <2>1
    <2>3. ASSUME pc[q] \in {"readHolding", "fill", "cancel", "post"}
          PROVE  accHolder'[AccountOf(q)] = q
      <3>1. AccountOf(q) \in Account /\ accHolder[AccountOf(q)] = q
        BY <2>3, AccountKnown DEF IInv, LocksHeld
      <3>2. QED
        BY <3>1, <2>1 DEF EndTransaction
    <2>4. ASSUME pc[q] \notin {"idle", "lockOrder"}, req[q] \in OrderRequest
          PROVE  ordHolder'[req[q].order] = q
      <3>1. req[q].order \in OrderId /\ ordHolder[req[q].order] = q
        BY <2>4 DEF IInv, LocksHeld, OrderRequest
      <3>2. QED
        BY <3>1, <2>1 DEF EndTransaction
    <2>5. QED
      BY <2>2, <2>3, <2>4
  <1>6. QED
    BY <1>1, <1>2, <1>3, <1>4, <1>5

LEMMA RollbackStep ==
  ASSUME IInv, NEW p \in Proc, Rollback(p)
  PROVE  IInv'
  <1>1. EndTransaction(p) /\ UNCHANGED db
    BY DEF Rollback
  <1>2. TypeOK'
    BY <1>1, EndStep DEF IInv, TypeOK, db
  <1>3. Reserved'
    BY <1>1, EndStep, ProcAssumption DEF IInv, Reserved, db, Request
  <1>4. CopiesFresh'
    BY <1>1, EndStep DEF IInv, CopiesFresh, db
  <1>5. QED
    BY <1>1, <1>2, <1>3, <1>4, EndStep DEF IInv

LEMMA SubmitStep ==
  ASSUME IInv, NEW p \in Proc, NEW r \in Request, Submit(p, r)
  PROVE  IInv'
  <1> USE DEF IInv
  <1>1. TypeOK'
    BY DEF TypeOK, Submit, db
  <1>2. \A q \in Proc : q # p =>
           /\ pc'[q] = pc[q] /\ req'[q] = req[q]
           /\ AccountOf(q)' = AccountOf(q) /\ TermsOf(q)' = TermsOf(q)
    BY SameSession DEF TypeOK, Submit
  <1>3. /\ pc'[p] = IF OnOrder(r) THEN "lockOrder" ELSE "lockAccount"
        /\ req'[p] = r /\ req[p] = NoRequest
        /\ seenOrder' = seenOrder /\ seenOrder[p] = NoOrder
    BY DEF TypeOK, Shape, Submit
  <1>4. Shape'
    BY <1>2, <1>3, RequestKinds DEF Shape
  <1>5. LocksHeld'
    BY <1>2, <1>3, RequestKinds DEF LocksHeld, Submit
  <1>6. Reserved'
    <2>1. ASSUME r \in TradeRequest
          PROVE  /\ orders[r.order] = NoOrder
                 /\ \A q \in Proc : req[q] \in TradeRequest => req[q].order # r.order
      <3>1. Fresh(r.order)
        BY <2>1, RequestKinds DEF Submit
      <3>2. \A q \in Proc : req[q] \in TradeRequest => pc[q] # "idle" /\ req[q].op = "market"
        BY RequestKinds, ProcAssumption DEF Shape, TypeOK, Request
      <3>3. QED
        BY <3>1, <3>2 DEF Fresh
    <2>2. QED
      BY <1>2, <1>3, <2>1 DEF Reserved, Submit, db
  <1>7. CopiesFresh'
    BY <1>2, <1>3 DEF CopiesFresh, Submit, db
  <1>8. QED
    BY <1>1, <1>4, <1>5, <1>6, <1>7

LEMMA LockOrderStep ==
  ASSUME IInv, NEW p \in Proc, LockOrder(p)
  PROVE  IInv'
  <1> USE DEF IInv
  <1>1. req[p] \in OrderRequest /\ req[p].order \in OrderId /\ req[p] \in Request
    BY RequestKinds DEF LockOrder, Shape, Request
  <1>2. orders[req[p].order] \in OrderRow
    BY <1>1 DEF TypeOK, LockOrder
  <1>3. TypeOK'
    BY <1>1, <1>2 DEF TypeOK, LockOrder, db
  <1>4. \A q \in Proc : q # p =>
           /\ pc'[q] = pc[q] /\ seenOrder'[q] = seenOrder[q]
           /\ AccountOf(q)' = AccountOf(q) /\ TermsOf(q)' = TermsOf(q)
    BY SameSession DEF TypeOK, LockOrder
  <1>5. /\ pc'[p] = "lockAccount" /\ req' = req
        /\ seenOrder'[p] = orders[req[p].order]
        /\ ordHolder' = [ordHolder EXCEPT ![req[p].order] = p]
    BY DEF TypeOK, LockOrder
  <1>6. Shape'
    BY <1>1, <1>2, <1>4, <1>5, RequestKinds DEF Shape
  <1>7. LocksHeld'
    BY <1>1, <1>4, <1>5, ProcAssumption DEF LocksHeld, LockOrder, TypeOK, OrderRequest
  <1>8. Reserved'
    BY <1>5 DEF Reserved, LockOrder, db
  <1>9. CopiesFresh'
    BY <1>4, <1>5 DEF CopiesFresh, LockOrder, db
  <1>10. QED
    BY <1>3, <1>6, <1>7, <1>8, <1>9

LEMMA LockAccountStep ==
  ASSUME IInv, NEW p \in Proc, LockAccount(p)
  PROVE  IInv'
  <1> USE DEF IInv, AfterAccount
  <1>1. AccountOf(p) \in Account
    BY AccountKnown DEF LockAccount
  <1>2. TypeOK'
    BY <1>1 DEF TypeOK, LockAccount, db
  <1>3. /\ req' = req /\ seenOrder' = seenOrder
        /\ \A q \in Proc : AccountOf(q)' = AccountOf(q) /\ TermsOf(q)' = TermsOf(q)
        /\ \A q \in Proc : q # p => pc'[q] = pc[q] /\ seenBal'[q] = seenBal[q]
    BY SameSession DEF TypeOK, LockAccount
  <1>4. /\ pc[p] = "lockAccount" /\ req[p] \in Request
        /\ seenBal'[p] = balance[AccountOf(p)]
        /\ accHolder' = [accHolder EXCEPT ![AccountOf(p)] = p]
        /\ pc'[p] = IF IsCash(req[p]) THEN "post"
                    ELSE IF req[p].op = "cancel" THEN "cancel" ELSE "readHolding"
    BY DEF TypeOK, LockAccount, Shape
  <1>5. Shape'
    <2>1. /\ req[p] \in OrderRequest => req[p].op \in {"cancel", "execute"}
          /\ req[p] \in TradeRequest => req[p].op = "market"
          /\ req[p] \in CashRequest \/ req[p] \in OrderRequest \/ req[p] \in TradeRequest
      BY <1>4 DEF OrderRequest, TradeRequest, Request
    <2>2. QED
      BY <1>3, <1>4, <2>1, RequestKinds DEF Shape
  <1>6. LocksHeld'
    <2>1. \A q \in Proc : q # p /\ pc[q] \in {"readHolding", "fill", "cancel", "post"} =>
             AccountOf(q) \in Account /\ accHolder[AccountOf(q)] = q /\ q # NoProc
      BY AccountKnown, ProcAssumption DEF LocksHeld
    <2>2. accHolder[AccountOf(p)] = NoProc /\ ordHolder' = ordHolder
      BY DEF LockAccount
    <2>3. QED
      BY <1>1, <1>3, <1>4, <2>1, <2>2 DEF LocksHeld, TypeOK
  <1>7. Reserved'
    BY <1>3 DEF Reserved, LockAccount, db
  <1>8. CopiesFresh'
    BY <1>3, <1>4 DEF CopiesFresh, LockAccount, db
  <1>9. QED
    BY <1>2, <1>5, <1>6, <1>7, <1>8

LEMMA ReadHoldingStep ==
  ASSUME IInv, NEW p \in Proc, ReadHolding(p)
  PROVE  IInv'
  <1> USE DEF IInv
  <1>1. /\ pc[p] = "readHolding" /\ req[p] \notin CashRequest
        /\ req[p] \in OrderRequest => seenOrder[p].status = "pending"
    BY RequestKinds DEF ReadHolding, Shape, TypeOK, OrderRequest, TradeRequest, CashRequest
  <1>2. TermsOf(p).acct \in Account /\ TermsOf(p).sec \in Security
    BY <1>1, AccountKnown
  <1>3. TypeOK'
    BY <1>2 DEF TypeOK, ReadHolding, db
  <1>4. /\ req' = req /\ seenOrder' = seenOrder /\ seenBal' = seenBal
        /\ \A q \in Proc : AccountOf(q)' = AccountOf(q) /\ TermsOf(q)' = TermsOf(q)
        /\ \A q \in Proc : q # p => pc'[q] = pc[q] /\ seenHeld'[q] = seenHeld[q]
        /\ pc'[p] = "fill"
        /\ seenHeld'[p] = holding[TermsOf(p).acct][TermsOf(p).sec]
    BY SameSession DEF TypeOK, ReadHolding
  <1>5. Shape'
    BY <1>1, <1>4 DEF Shape
  <1>6. LocksHeld' /\ Reserved'
    BY <1>1, <1>4 DEF LocksHeld, Reserved, ReadHolding, db
  <1>7. CopiesFresh'
    BY <1>1, <1>4 DEF CopiesFresh, ReadHolding, db
  <1>8. QED
    BY <1>3, <1>5, <1>6, <1>7

\* A handler that holds its account keeps every other holder off the rows of
\* that account.
LEMMA OthersElsewhere ==
  ASSUME IInv, NEW p \in Proc, NEW q \in Proc, p # q,
         pc[p] \in {"readHolding", "fill", "cancel", "post"},
         pc[q] \in {"readHolding", "fill", "cancel", "post"}
  PROVE  AccountOf(p) # AccountOf(q)
  BY DEF IInv, LocksHeld

LEMMA PostStep ==
  ASSUME IInv, NEW p \in Proc, Post(p)
  PROVE  /\ IInv'
         /\ req[p].ref \in Ref
         /\ PostRow(p) \in TxnRow
         /\ seenBal[p] = balance[req[p].acct]
  <1> USE DEF IInv
  <1>1. pc[p] = "post" /\ EndTransaction(p) /\ UNCHANGED <<holding, orders>>
    BY DEF Post
  <1>2. /\ req[p] \in CashRequest /\ req[p].acct \in Account /\ req[p].ref \in Ref
        /\ req[p].amount \in Nat /\ req[p].amount \in Amount
        /\ req[p].op \in {"deposit", "withdrawal"}
        /\ AccountOf(p) = req[p].acct
    BY <1>1, AccountKnown, LedgerAssumption DEF Shape, CashRequest
  <1>3. seenBal[p] = balance[req[p].acct] /\ seenBal[p] \in Nat
    BY <1>1, <1>2 DEF CopiesFresh, TypeOK
  <1>4. PostRow(p) \in TxnRow
    BY <1>2 DEF TxnRow, PostRow
  <1>5. balance' \in [Account -> Nat] /\ txns' \in [Ref -> TxnRow \cup {NoTxn}]
    BY <1>2, <1>3, <1>4 DEF Post, CanPost, PostedBalance, TypeOK
  <1>6. TypeOK'
    BY <1>1, <1>5, EndStep DEF TypeOK
  <1>7. Reserved'
    BY <1>1, EndStep, ProcAssumption DEF Reserved, Request
  <1>8. \A a \in Account : a # req[p].acct => balance'[a] = balance[a]
    BY DEF Post, TypeOK
  <1>9. CopiesFresh'
    <2> SUFFICES ASSUME NEW q \in Proc, q # p
                 PROVE  /\ pc[q] \in {"readHolding", "fill", "cancel", "post"} =>
                              balance'[AccountOf(q)] = balance[AccountOf(q)]
      BY <1>1, EndStep DEF CopiesFresh
    <2>1. QED
      BY <1>1, <1>2, <1>8, OthersElsewhere, AccountKnown
  <1>10. QED
    BY <1>1, <1>2, <1>3, <1>4, <1>6, <1>7, <1>9, EndStep

LEMMA FillStep ==
  ASSUME IInv, NEW p \in Proc, Fill(p)
  PROVE  /\ IInv'
         /\ req[p].order \in OrderId
         /\ TermsOf(p).acct \in Account /\ TermsOf(p).sec \in Security
         /\ seenBal[p] = balance[TermsOf(p).acct]
         /\ seenHeld[p] = holding[TermsOf(p).acct][TermsOf(p).sec]
  <1> USE DEF IInv
  <1> DEFINE t == TermsOf(p)
  <1>1. /\ pc[p] = "fill" /\ EndTransaction(p) /\ UNCHANGED txns
        /\ CanFill(seenBal[p], seenHeld[p], t)
    BY DEF Fill
  <1>2. /\ req[p] \notin CashRequest /\ req[p] \in Request
        /\ req[p].order \in OrderId
        /\ req[p] \in OrderRequest \/ req[p] \in TradeRequest
    BY <1>1, RequestKinds DEF Shape, TypeOK, OrderRequest, TradeRequest, CashRequest, Request
  <1>3. /\ t.acct \in Account /\ t.acct = AccountOf(p) /\ t.sec \in Security
        /\ t.side \in Side /\ t.qty \in Qty /\ t.price \in Price
    BY <1>1, <1>2, AccountKnown
  <1>4. /\ seenBal[p] = balance[t.acct] /\ seenHeld[p] = holding[t.acct][t.sec]
        /\ seenBal[p] \in Nat /\ seenHeld[p] \in Nat
    BY <1>1, <1>3 DEF CopiesFresh, TypeOK
  <1>5. BalanceAfter(seenBal[p], t) \in Nat /\ HeldAfter(seenHeld[p], t) \in Nat
    BY <1>1, <1>3, <1>4, FillType
  <1>6. Row(t, "filled") \in OrderRow
    BY <1>3 DEF Row, OrderRow
  <1>7. /\ balance' = [balance EXCEPT ![t.acct] = BalanceAfter(seenBal[p], t)]
        /\ holding' = [holding EXCEPT ![t.acct][t.sec] = HeldAfter(seenHeld[p], t)]
        /\ orders' = [orders EXCEPT ![req[p].order] = Row(t, "filled")]
    BY DEF Fill
  <1> HIDE DEF t
  <1>8. TypeOK'
    BY <1>1, <1>2, <1>3, <1>5, <1>6, <1>7, EndStep DEF TypeOK
  <1>9. \A q \in Proc : q # p /\ req[q] \in TradeRequest => req[q].order # req[p].order
    <2>1. CASE req[p] \in TradeRequest
      BY <2>1 DEF Reserved
    <2>2. CASE req[p] \in OrderRequest
      <3>1. seenOrder[p] \in OrderRow /\ seenOrder[p] # NoOrder
        BY <1>1, <2>2, LedgerAssumption DEF Shape
      <3>2. orders[req[p].order] # NoOrder
        BY <1>1, <3>1 DEF CopiesFresh
      <3>3. QED
        BY <3>2 DEF Reserved
    <2>3. QED
      BY <1>2, <2>1, <2>2
  <1>10. Reserved'
    <2>1. \A q \in Proc : req'[q] \in TradeRequest => q # p /\ req'[q] = req[q]
      BY <1>1, EndStep, ProcAssumption DEF Request
    <2>2. QED
      BY <1>2, <1>7, <1>9, <2>1, RequestKinds DEF Reserved, TypeOK, TradeRequest
  <1>11. \A q \in Proc : q # p /\ pc[q] # "idle" /\ seenOrder[q] # NoOrder =>
            orders'[req[q].order] = orders[req[q].order]
    <2> SUFFICES ASSUME NEW q \in Proc, q # p, pc[q] # "idle", seenOrder[q] # NoOrder
                 PROVE  orders'[req[q].order] = orders[req[q].order]
      OBVIOUS
    <2>1. /\ req[q] \in OrderRequest /\ ordHolder[req[q].order] = q
          /\ req[q].order \in OrderId /\ orders[req[q].order] # NoOrder
      BY RequestKinds DEF Shape, LocksHeld, CopiesFresh, OrderRequest
    <2>2. req[q].order # req[p].order
      <3>1. CASE req[p] \in TradeRequest
        BY <2>1, <3>1 DEF Reserved
      <3>2. CASE req[p] \in OrderRequest
        BY <1>1, <2>1, <3>2 DEF LocksHeld
      <3>3. QED
        BY <1>2, <3>1, <3>2
    <2>3. QED
      BY <1>2, <1>7, <2>1, <2>2 DEF TypeOK
  <1>12. CopiesFresh'
    <2> SUFFICES ASSUME NEW q \in Proc, q # p
                 PROVE  /\ pc[q] \in {"readHolding", "fill", "cancel", "post"} =>
                              balance'[AccountOf(q)] = balance[AccountOf(q)]
                        /\ pc[q] = "fill" =>
                              holding'[TermsOf(q).acct][TermsOf(q).sec] =
                              holding[TermsOf(q).acct][TermsOf(q).sec]
      BY <1>1, <1>11, EndStep DEF CopiesFresh
    <2>1. ASSUME pc[q] \in {"readHolding", "fill", "cancel", "post"}
          PROVE  AccountOf(q) \in Account /\ AccountOf(q) # t.acct
      BY <1>1, <1>3, <2>1, OthersElsewhere, AccountKnown
    <2>2. ASSUME pc[q] = "fill"
          PROVE  TermsOf(q).acct = AccountOf(q)
      <3>1. req[q] \notin CashRequest
        BY <2>2, RequestKinds DEF Shape, TypeOK
      <3>2. QED
        BY <2>2, <3>1, AccountKnown
    <2>3. QED
      BY <1>3, <1>7, <2>1, <2>2 DEF TypeOK
  <1>13. QED
    BY <1>1, <1>2, <1>3, <1>4, <1>8, <1>10, <1>12, EndStep DEF t

LEMMA CancelStep ==
  ASSUME IInv, NEW p \in Proc, Cancel(p)
  PROVE  /\ IInv'
         /\ req[p].order \in OrderId
         /\ orders[req[p].order] = seenOrder[p]
         /\ seenOrder[p] # NoOrder
  <1> USE DEF IInv
  <1>1. /\ pc[p] = "cancel" /\ EndTransaction(p) /\ UNCHANGED <<balance, holding, txns>>
        /\ orders' = [orders EXCEPT ![req[p].order].status = "cancelled"]
    BY DEF Cancel
  <1>2. req[p] \in OrderRequest /\ req[p].order \in OrderId /\ seenOrder[p] \in OrderRow
    BY <1>1 DEF Shape, OrderRequest
  <1>3. seenOrder[p] # NoOrder /\ orders[req[p].order] = seenOrder[p]
    BY <1>1, <1>2, LedgerAssumption DEF CopiesFresh
  <1>4. [orders[req[p].order] EXCEPT !.status = "cancelled"] \in OrderRow
    BY <1>2, <1>3 DEF OrderRow
  <1>5. TypeOK'
    BY <1>1, <1>2, <1>4, EndStep DEF TypeOK
  <1>6. Reserved'
    <2>1. \A q \in Proc : req'[q] \in TradeRequest => q # p /\ req'[q] = req[q]
      BY <1>1, EndStep, ProcAssumption DEF Request
    <2>2. \A q \in Proc : req[q] \in TradeRequest => req[q].order # req[p].order
      BY <1>3 DEF Reserved
    <2>3. QED
      BY <1>1, <1>2, <2>1, <2>2, RequestKinds DEF Reserved, TypeOK, TradeRequest
  <1>7. \A q \in Proc : q # p /\ pc[q] # "idle" /\ seenOrder[q] # NoOrder =>
            orders'[req[q].order] = orders[req[q].order]
    <2> SUFFICES ASSUME NEW q \in Proc, q # p, pc[q] # "idle", seenOrder[q] # NoOrder
                 PROVE  orders'[req[q].order] = orders[req[q].order]
      OBVIOUS
    <2>1. ordHolder[req[q].order] = q /\ req[q].order \in OrderId
      BY RequestKinds DEF Shape, LocksHeld, OrderRequest
    <2>2. ordHolder[req[p].order] = p
      BY <1>1, <1>2 DEF LocksHeld
    <2>3. QED
      BY <1>1, <1>2, <2>1, <2>2 DEF TypeOK
  <1>8. CopiesFresh'
    BY <1>1, <1>7, EndStep DEF CopiesFresh
  <1>9. QED
    BY <1>1, <1>2, <1>3, <1>5, <1>6, <1>8, EndStep

LEMMA PlaceLimitStep ==
  ASSUME IInv, NEW o \in OrderId, NEW t \in Terms, PlaceLimit(o, t)
  PROVE  IInv'
  <1> USE DEF IInv
  <1>1. /\ Fresh(o) /\ orders[o] = NoOrder
        /\ orders' = [orders EXCEPT ![o] = Row(t, "pending")]
        /\ UNCHANGED <<balance, holding, txns, accHolder, ordHolder, pc, session>>
    BY DEF PlaceLimit, Fresh
  <1>2. Row(t, "pending") \in OrderRow
    BY DEF Row, OrderRow, Terms
  <1>3. TypeOK'
    BY <1>1, <1>2 DEF TypeOK, session
  <1>4. \A q \in Proc : AccountOf(q)' = AccountOf(q) /\ TermsOf(q)' = TermsOf(q)
    BY <1>1, SameSession DEF session
  <1>5. Shape' /\ LocksHeld'
    BY <1>1, <1>4 DEF Shape, LocksHeld, session
  <1>6. Reserved'
    <2>1. \A q \in Proc : req[q] \in TradeRequest => req[q].order # o
      BY <1>1, ProcAssumption, RequestKinds DEF Fresh, Shape, TypeOK, Request
    <2>2. QED
      BY <1>1, <2>1 DEF Reserved, session, TypeOK, TradeRequest
  <1>7. CopiesFresh'
    <2>1. \A q \in Proc : pc[q] # "idle" /\ seenOrder[q] # NoOrder => req[q].order # o
      BY <1>1 DEF CopiesFresh
    <2>2. \A q \in Proc : pc[q] # "idle" /\ seenOrder[q] # NoOrder =>
             req[q].order \in OrderId
      BY DEF Shape, OrderRequest
    <2>3. QED
      BY <1>1, <1>4, <2>1, <2>2 DEF CopiesFresh, session, TypeOK
  <1>8. QED
    BY <1>3, <1>5, <1>6, <1>7

LEMMA StutterStep ==
  ASSUME IInv, UNCHANGED vars
  PROVE  IInv'
  <1>1. /\ UNCHANGED <<balance, holding, orders, txns>>
        /\ UNCHANGED <<accHolder, ordHolder, pc, req, seenBal, seenHeld, seenOrder>>
    BY DEF vars, db, session
  <1>2. \A q \in Proc : AccountOf(q)' = AccountOf(q) /\ TermsOf(q)' = TermsOf(q)
    BY <1>1, SameSession
  <1>3. TypeOK'
    BY <1>1 DEF IInv, TypeOK
  <1>4. Shape' /\ LocksHeld'
    BY <1>1, <1>2 DEF IInv, Shape, LocksHeld
  <1>5. Reserved' /\ CopiesFresh'
    BY <1>1, <1>2 DEF IInv, Reserved, CopiesFresh
  <1> QED
    BY <1>3, <1>4, <1>5 DEF IInv

(***************************************************************************)
(* The invariant is preserved by every step, so it holds for ever.         *)
(***************************************************************************)
LEMMA NextInv == IInv /\ [Next]_vars => IInv'
  <1> SUFFICES ASSUME IInv, [Next]_vars
               PROVE  IInv'
    OBVIOUS
  <1>1. ASSUME NEW p \in Proc, Handler(p)
        PROVE  IInv'
    <2>1. CASE Rollback(p)
      BY <2>1, RollbackStep
    <2>2. CASE LockOrder(p)
      BY <2>2, LockOrderStep
    <2>3. CASE LockAccount(p)
      BY <2>3, LockAccountStep
    <2>4. CASE ReadHolding(p)
      BY <2>4, ReadHoldingStep
    <2>5. CASE Post(p)
      BY <2>5, PostStep
    <2>6. CASE Fill(p)
      BY <2>6, FillStep
    <2>7. CASE Cancel(p)
      BY <2>7, CancelStep
    <2>8. QED
      BY <1>1, <2>1, <2>2, <2>3, <2>4, <2>5, <2>6, <2>7
      DEF Handler, OrderNotFound, NotPending, PostRejected, FillRejected
  <1>2. ASSUME NEW p \in Proc, Abort(p)
        PROVE  IInv'
    BY <1>2, RollbackStep DEF Abort
  <1>3. ASSUME NEW p \in Proc, NEW r \in Request, Submit(p, r)
        PROVE  IInv'
    BY <1>3, SubmitStep
  <1>4. ASSUME NEW o \in OrderId, NEW t \in Terms, PlaceLimit(o, t)
        PROVE  IInv'
    BY <1>4, PlaceLimitStep
  <1>5. QED
    BY <1>1, <1>2, <1>3, <1>4, StutterStep DEF Next

LEMMA Invariance == Spec => []IInv
  <1>1. QED
    BY InitInv, NextInv, PTL DEF Spec

\* The rows and the sessions keep their types: no balance and no holding is
\* ever negative.
THEOREM TypeCorrect == Spec => []TypeOK
  <1>1. IInv => TypeOK
    BY DEF IInv
  <1>2. QED
    BY <1>1, Invariance, PTL

\* With the account row locked, and the order row for cancel and execute, a
\* handler never writes from a stale copy; the unlocked read of the holding
\* is safe.
THEOREM CopiesStayFresh == Spec => []CopiesFresh
  <1>1. IInv => CopiesFresh
    BY DEF IInv
  <1>2. QED
    BY <1>1, Invariance, PTL

(***************************************************************************)
(* Refinement: the commit of a handler is one step of the abstract ledger. *)
(***************************************************************************)
\* The instance computes with the same operators.
LEMMA SameOperators ==
  ASSUME NEW bal, NEW held, NEW t, NEW st
  PROVE  /\ AbstractLedger!CanFill(bal, held, t) <=> CanFill(bal, held, t)
         /\ AbstractLedger!BalanceAfter(bal, t) = BalanceAfter(bal, t)
         /\ AbstractLedger!HeldAfter(held, t) = HeldAfter(held, t)
         /\ AbstractLedger!Row(t, st) = Row(t, st)
         /\ AbstractLedger!Terms = Terms
         /\ AbstractLedger!TxnRow = TxnRow
  BY DEF AbstractLedger!CanFill, AbstractLedger!BalanceAfter, AbstractLedger!HeldAfter,
         AbstractLedger!Row, AbstractLedger!Notional, AbstractLedger!Cents,
         AbstractLedger!Terms, AbstractLedger!TxnRow, AbstractLedger!Side,
         CanFill, BalanceAfter, HeldAfter, Row, Notional, Cents, Terms, TxnRow, Side

LEMMA PostRefines ==
  ASSUME IInv, NEW p \in Proc, Post(p)
  PROVE  AbstractLedger!Next
  <1> DEFINE t == PostRow(p)
  <1>1. t \in TxnRow /\ req[p].ref \in Ref /\ seenBal[p] = balance[req[p].acct]
    BY PostStep
  <1>2. AbstractLedger!Post(req[p].ref, t)
    BY <1>1 DEF AbstractLedger!Post, Post, CanPost, PostedBalance, PostRow
  <1>3. QED
    BY <1>1, <1>2, SameOperators DEF AbstractLedger!Next

LEMMA FillRefines ==
  ASSUME IInv, NEW p \in Proc, Fill(p)
  PROVE  AbstractLedger!Next
  <1> DEFINE o == req[p].order
  <1>1. /\ o \in OrderId
        /\ TermsOf(p).acct \in Account /\ TermsOf(p).sec \in Security
        /\ seenBal[p] = balance[TermsOf(p).acct]
        /\ seenHeld[p] = holding[TermsOf(p).acct][TermsOf(p).sec]
    BY FillStep
  <1>2. balance \in [Account -> Nat] /\ holding \in [Account -> [Security -> Nat]]
    BY DEF IInv, TypeOK
  <1>3. AbstractLedger!Fill(o, TermsOf(p))
    BY <1>1, <1>2, SameOperators DEF AbstractLedger!Fill, Fill
  <1>4. pc[p] = "fill" /\ req[p] \in Request
        /\ (req[p] \in TradeRequest \/ req[p] \in OrderRequest)
    BY DEF Fill, IInv, Shape, Request
  <1>5. CASE req[p] \in TradeRequest
    <2>1. TermsOf(p) = req[p].terms /\ req[p].terms \in Terms
      BY <1>5 DEF TermsOf, TradeRequest
    <2>2. orders[o] = NoOrder
      BY <1>5 DEF IInv, Reserved
    <2>3. AbstractLedger!FillMarket(o, TermsOf(p))
      BY <1>3, <2>2 DEF AbstractLedger!FillMarket
    <2>4. QED
      BY <1>1, <2>1, <2>3, SameOperators DEF AbstractLedger!Next
  <1>6. CASE req[p] \in OrderRequest
    <2>1. seenOrder[p] \in OrderRow /\ seenOrder[p].status = "pending"
      BY <1>4, <1>6 DEF IInv, Shape
    <2>2. orders[o] = seenOrder[p] /\ orders[o] # NoOrder /\ TermsOf(p) = seenOrder[p]
      BY <1>4, <1>6, <2>1, LedgerAssumption DEF IInv, CopiesFresh, TermsOf, OrderRequest
    <2>3. AbstractLedger!FillLimit(o)
      BY <1>3, <2>1, <2>2 DEF AbstractLedger!FillLimit
    <2>4. QED
      BY <1>1, <2>3, SameOperators DEF AbstractLedger!Next
  <1>7. QED
    BY <1>4, <1>5, <1>6

LEMMA CancelRefines ==
  ASSUME IInv, NEW p \in Proc, Cancel(p)
  PROVE  AbstractLedger!Next
  <1>1. /\ req[p].order \in OrderId
        /\ orders[req[p].order] = seenOrder[p] /\ seenOrder[p] # NoOrder
    BY CancelStep
  <1>2. AbstractLedger!Cancel(req[p].order)
    BY <1>1 DEF AbstractLedger!Cancel, Cancel
  <1>3. QED
    BY <1>1, <1>2, SameOperators DEF AbstractLedger!Next

LEMMA StepRefines == IInv /\ [Next]_vars => [AbstractLedger!Next]_(AbstractLedger!vars)
  <1> SUFFICES ASSUME IInv, [Next]_vars
               PROVE  AbstractLedger!Next \/ UNCHANGED AbstractLedger!vars
    OBVIOUS
  <1>1. ASSUME NEW p \in Proc, Handler(p)
        PROVE  AbstractLedger!Next \/ UNCHANGED AbstractLedger!vars
    <2>1. CASE UNCHANGED db
      BY <2>1 DEF db, AbstractLedger!vars
    <2>2. CASE Post(p)
      BY <2>2, PostRefines
    <2>3. CASE Fill(p)
      BY <2>3, FillRefines
    <2>4. CASE Cancel(p)
      BY <2>4, CancelRefines
    <2>5. QED
      BY <1>1, <2>1, <2>2, <2>3, <2>4
      DEF Handler, LockOrder, OrderNotFound, LockAccount, ReadHolding, NotPending,
          PostRejected, FillRejected, Rollback
  <1>2. ASSUME NEW p \in Proc, Abort(p) \/ \E r \in Request : Submit(p, r)
        PROVE  UNCHANGED AbstractLedger!vars
    BY <1>2 DEF Abort, Rollback, Submit, db, AbstractLedger!vars
  <1>3. ASSUME NEW o \in OrderId, NEW t \in Terms, PlaceLimit(o, t)
        PROVE  AbstractLedger!Next
    <2>1. AbstractLedger!PlaceLimit(o, t)
      BY <1>3, SameOperators DEF AbstractLedger!PlaceLimit, PlaceLimit, Fresh
    <2>2. QED
      BY <2>1, SameOperators DEF AbstractLedger!Next
  <1>4. CASE UNCHANGED vars
    BY <1>4 DEF vars, db, AbstractLedger!vars
  <1>5. QED
    BY <1>1, <1>2, <1>3, <1>4 DEF Next

\* Concurrent handlers with row locks behave as if every request were served
\* alone: the handlers implement the abstract ledger.
THEOREM Refinement == Spec => Linearizable
  <1>1. Init => AbstractLedger!Init
    BY DEF Init, AbstractLedger!Init
  <1>2. QED
    BY <1>1, StepRefines, Invariance, PTL DEF Spec, Linearizable, AbstractLedger!Spec

(***************************************************************************)
(* A filled or cancelled order is final.                                   *)
(***************************************************************************)
LEMMA FinalStep ==
  IInv /\ [Next]_vars =>
    \A o \in OrderId : orders[o] # NoOrder =>
          /\ orders'[o] # NoOrder
          /\ orders[o].status # "pending" => orders'[o] = orders[o]
          /\ orders'[o] = [orders[o] EXCEPT !.status = orders'[o].status]
  <1> SUFFICES ASSUME IInv, [Next]_vars, NEW o \in OrderId, orders[o] # NoOrder
               PROVE  /\ orders'[o] # NoOrder
                      /\ orders[o].status # "pending" => orders'[o] = orders[o]
                      /\ orders'[o] = [orders[o] EXCEPT !.status = orders'[o].status]
    OBVIOUS
  <1>1. orders \in [OrderId -> OrderRow \cup {NoOrder}] /\ orders[o] \in OrderRow
        /\ orders' \in [OrderId -> OrderRow \cup {NoOrder}]
    BY NextInv DEF IInv, TypeOK
  <1>2. CASE orders'[o] = orders[o]
    BY <1>1, <1>2 DEF OrderRow
  <1>3. ASSUME orders'[o] # orders[o]
        PROVE  \E r \in OrderRow, st \in {"filled", "cancelled"} :
                  /\ orders[o] = r /\ r.status = "pending"
                  /\ orders'[o] = Row(r, st)
    <2>1. AbstractLedger!Next
      BY <1>3, StepRefines DEF AbstractLedger!vars
    <2>2. CASE AbstractLedger!FillLimit(o)
      BY <1>1, <2>2, SameOperators DEF AbstractLedger!FillLimit, AbstractLedger!Fill
    <2>3. CASE AbstractLedger!Cancel(o)
      BY <1>1, <2>3, SameOperators DEF AbstractLedger!Cancel, Row, OrderRow
    <2>4. QED
      BY <1>1, <1>3, <2>1, <2>2, <2>3
      DEF AbstractLedger!Next, AbstractLedger!Post, AbstractLedger!FillMarket,
          AbstractLedger!PlaceLimit, AbstractLedger!Fill, AbstractLedger!FillLimit,
          AbstractLedger!Cancel
  <1>4. QED
    BY <1>1, <1>2, <1>3, LedgerAssumption DEF Row, OrderRow

THEOREM OrdersStayFinal == Spec => OrdersFinal
  <1>1. QED
    BY FinalStep, Invariance, PTL DEF Spec, OrdersFinal

(***************************************************************************)
(* The books add up.  Each step of the ledger adds one row to one sum, or  *)
(* none, and writes the balance or the holding that goes with it.          *)
(***************************************************************************)
\* Storing a balance rounds it by half a cent at most.
LEMMA CentsClose ==
  ASSUME NEW x \in Nat
  PROVE  /\ 2 * (Scale * Cents(x) - x) <= Scale
         /\ -Scale <= 2 * (Scale * Cents(x) - x)
  <1>1. Scale \in Nat /\ Scale > 0 /\ Cents(x) \in Nat
    BY LedgerAssumption, CentsType
  <1> DEFINE n == 2 * x + Scale
             m == 2 * Scale
  <1>2. n \in Nat /\ m \in Nat /\ m > 0
    BY <1>1
  <1>3. Cents(x) = n \div m
    BY DEF Cents
  <1>4. m * (n \div m) <= n /\ n < m * (n \div m) + m
    <2> HIDE DEF n, m
    <2>1. n = m * (n \div m) + (n % m) /\ 0 <= n % m /\ n % m < m /\ n % m \in Int /\ n \div m \in Int
      BY <1>2
    <2> QED
      BY <1>2, <2>1
  <1>5. m * Cents(x) = 2 * (Scale * Cents(x))
    BY <1>1
  <1>6. PICK c \in Nat : c = Scale * Cents(x)
    BY <1>1
  <1>7. 2 * c <= 2 * x + Scale /\ 2 * x + Scale < 2 * c + 2 * Scale
    BY <1>3, <1>4, <1>5, <1>6
  <1> QED
    BY <1>1, <1>6, <1>7

\* The books, with what their sums need: there are finitely many rows.
Books ==
    /\ \A a \in Account, sd \in Side : IsFiniteSet(Rows(a, sd))
    /\ \A a \in Account, k \in {"deposit", "withdrawal"} : IsFiniteSet(Posted(a, k))
    /\ CashReconciles
    /\ SharesReconcile

LEMMA RowTypes ==
  ASSUME TypeOK
  PROVE  /\ \A a \in Account, sd \in Side : \A o \in Rows(a, sd) :
               o \in OrderId /\ Value[o] \in Nat /\ Quantity[o] \in Nat
         /\ \A a \in Account, k \in {"deposit", "withdrawal"} : \A r \in Posted(a, k) :
               r \in Ref /\ Moved[r] \in Nat
  <1>1. ASSUME NEW a \in Account, NEW sd \in Side, NEW o \in Rows(a, sd)
        PROVE  o \in OrderId /\ Value[o] \in Nat /\ Quantity[o] \in Nat
    <2>1. o \in OrderId /\ orders[o] \in OrderRow
      BY <1>1 DEF Rows, TypeOK
    <2>2. orders[o].qty \in Nat /\ orders[o].price \in Nat
      BY <2>1, LedgerAssumption DEF OrderRow
    <2>3. orders[o].qty * orders[o].price \in Nat
      BY <2>2
    <2> QED
      BY <2>1, <2>2, <2>3 DEF Value, Quantity, Notional
  <1>2. ASSUME NEW a \in Account, NEW k \in {"deposit", "withdrawal"}, NEW r \in Posted(a, k)
        PROVE  r \in Ref /\ Moved[r] \in Nat
    <2>1. r \in Ref /\ txns[r] \in TxnRow
      BY <1>2 DEF Posted, TypeOK
    <2> QED
      BY <2>1, LedgerAssumption DEF TxnRow, Moved
  <1> QED
    BY <1>1, <1>2

\* The sums are numbers.
LEMMA SumTypes ==
  ASSUME TypeOK, Books, NEW a \in Account
  PROVE  /\ \A sd \in Side : Cash(a, sd) \in Int
         /\ \A sd \in Side, s \in Security : IsFiniteSet(RowsIn(a, s, sd)) /\ Lots(a, s, sd) \in Int
         /\ \A k \in {"deposit", "withdrawal"} : Money(a, k) \in Int
         /\ Fills(a) \in Nat
         /\ BookValue(a) \in Int
  <1>1. ASSUME NEW sd \in Side PROVE Cash(a, sd) \in Int
    <2>1. IsFiniteSet(Rows(a, sd)) /\ \A o \in Rows(a, sd) : Value[o] \in Int
      BY RowTypes DEF Books
    <2> QED
      BY <2>1, SumType DEF Cash
  <1>2. ASSUME NEW sd \in Side, NEW s \in Security
        PROVE  IsFiniteSet(RowsIn(a, s, sd)) /\ Lots(a, s, sd) \in Int
    <2>1. RowsIn(a, s, sd) \subseteq Rows(a, sd)
      BY DEF RowsIn
    <2>2. IsFiniteSet(Rows(a, sd)) /\ \A o \in Rows(a, sd) : Quantity[o] \in Int
      BY RowTypes DEF Books
    <2>3. IsFiniteSet(RowsIn(a, s, sd))
      BY <2>1, <2>2, FS_Subset
    <2>4. \A o \in RowsIn(a, s, sd) : Quantity[o] \in Int
      BY <2>1, <2>2
    <2> QED
      BY <2>3, <2>4, SumType DEF Lots
  <1>3. ASSUME NEW k \in {"deposit", "withdrawal"} PROVE Money(a, k) \in Int
    <2>1. IsFiniteSet(Posted(a, k)) /\ \A r \in Posted(a, k) : Moved[r] \in Int
      BY RowTypes DEF Books
    <2> QED
      BY <2>1, SumType DEF Money
  <1>4. Fills(a) \in Nat
    <2>1. IsFiniteSet(Rows(a, "buy")) /\ IsFiniteSet(Rows(a, "sell"))
      BY DEF Books, Side
    <2> QED
      BY <2>1, FS_Union, FS_CardinalityType DEF Fills
  <1>5. BookValue(a) \in Int
    <2>1. /\ Cash(a, "buy") \in Int /\ Cash(a, "sell") \in Int
          /\ Money(a, "deposit") \in Int /\ Money(a, "withdrawal") \in Int
          /\ Scale \in Int
      BY <1>1, <1>3, LedgerAssumption DEF Side
    <2> QED
      BY <2>1 DEF BookValue
  <1> QED
    BY <1>1, <1>2, <1>3, <1>4, <1>5

\* The rows of orders and what they add up to stay as they are.
SameFills ==
    \A a \in Account, sd \in Side :
        /\ Rows(a, sd)' = Rows(a, sd)
        /\ Cash(a, sd)' = Cash(a, sd)
        /\ \A s \in Security : Lots(a, s, sd)' = Lots(a, s, sd)

\* Neither does a step that touches no filled row change anything.
LEMMA NoFill ==
  ASSUME TypeOK, Books,
         \A o \in OrderId :
            (orders[o] # NoOrder /\ orders[o].status = "filled")
            \/ (orders'[o] # NoOrder /\ orders'[o].status = "filled")
            => orders'[o] = orders[o]
  PROVE  SameFills
  <1> SUFFICES ASSUME NEW a \in Account, NEW sd \in Side
               PROVE  /\ Rows(a, sd)' = Rows(a, sd)
                      /\ Cash(a, sd)' = Cash(a, sd)
                      /\ \A s \in Security : Lots(a, s, sd)' = Lots(a, s, sd)
    BY DEF SameFills
  <1>1. Rows(a, sd)' = Rows(a, sd)
    BY DEF Rows
  <1>2. \A o \in Rows(a, sd) : Value'[o] = Value[o] /\ Quantity'[o] = Quantity[o]
                               /\ orders'[o] = orders[o]
    BY DEF Rows, Value, Quantity
  <1>3. IsFiniteSet(Rows(a, sd))
    BY DEF Books
  <1>4. Cash(a, sd)' = Cash(a, sd)
    <2>1. SumFunctionOnSet(Value', Rows(a, sd)) = SumFunctionOnSet(Value, Rows(a, sd))
      BY <1>2, <1>3, SumSame
    <2> QED
      BY <1>1, <2>1 DEF Cash
  <1>5. ASSUME NEW s \in Security PROVE Lots(a, s, sd)' = Lots(a, s, sd)
    <2>1. RowsIn(a, s, sd)' = RowsIn(a, s, sd) /\ RowsIn(a, s, sd) \subseteq Rows(a, sd)
      BY <1>1, <1>2 DEF RowsIn
    <2>2. IsFiniteSet(RowsIn(a, s, sd))
      BY SumTypes
    <2>3. \A o \in RowsIn(a, s, sd) : Quantity'[o] = Quantity[o]
      BY <1>2, <2>1
    <2>4. SumFunctionOnSet(Quantity', RowsIn(a, s, sd)) = SumFunctionOnSet(Quantity, RowsIn(a, s, sd))
      BY <2>2, <2>3, SumSame
    <2> QED
      BY <2>1, <2>4 DEF Lots
  <1> QED
    BY <1>1, <1>4, <1>5

\* The order o is a new filled row with the terms t; the others keep their value.
RowAdded(o, t) ==
    /\ \A a \in Account, sd \in Side :
          /\ o \notin Rows(a, sd)
          /\ Rows(a, sd)' = IF a = t.acct /\ sd = t.side
                            THEN Rows(a, sd) \cup {o} ELSE Rows(a, sd)
          /\ IsFiniteSet(Rows(a, sd)')
          /\ \A x \in Rows(a, sd) : /\ Value'[x] = Value[x] /\ Quantity'[x] = Quantity[x]
                                    /\ Value[x] \in Int /\ Quantity[x] \in Int
                                    /\ orders'[x] = orders[x]
    /\ Value'[o] = Notional(t) /\ Quantity'[o] = t.qty /\ orders'[o].sec = t.sec
    /\ Notional(t) \in Int /\ t.qty \in Int

LEMMA FillRows ==
  ASSUME TypeOK, Books, NEW o \in OrderId, NEW t, Row(t, "filled") \in OrderRow,
         orders[o] # NoOrder => orders[o].status # "filled",
         orders' = [orders EXCEPT ![o] = Row(t, "filled")]
  PROVE  RowAdded(o, t)
  <1>1. /\ orders'[o] = Row(t, "filled") /\ orders'[o] # NoOrder
        /\ \A x \in OrderId : x # o => orders'[x] = orders[x]
    BY LedgerAssumption DEF TypeOK
  <1>2. /\ Row(t, "filled").status = "filled" /\ Row(t, "filled").acct = t.acct
        /\ Row(t, "filled").side = t.side /\ Row(t, "filled").sec = t.sec
        /\ Row(t, "filled").qty = t.qty /\ Row(t, "filled").price = t.price
    BY DEF Row
  <1>3. \A x \in OrderId : /\ Value[x] = Notional(orders[x]) /\ Value'[x] = Notional(orders'[x])
                            /\ Quantity[x] = orders[x].qty /\ Quantity'[x] = orders'[x].qty
    BY DEF Value, Quantity, Notional
  <1>4. Notional(Row(t, "filled")) = Notional(t)
    BY <1>2 DEF Notional
  <1>5. Notional(t) \in Int /\ t.qty \in Int
    <2>1. t.qty \in Nat /\ t.price \in Nat
      BY <1>2, LedgerAssumption DEF OrderRow
    <2> QED
      BY <2>1 DEF Notional
  <1>6. ASSUME NEW a \in Account, NEW sd \in Side
        PROVE  /\ o \notin Rows(a, sd)
               /\ Rows(a, sd)' = IF a = t.acct /\ sd = t.side
                                 THEN Rows(a, sd) \cup {o} ELSE Rows(a, sd)
               /\ IsFiniteSet(Rows(a, sd)')
               /\ \A x \in Rows(a, sd) : /\ Value'[x] = Value[x] /\ Quantity'[x] = Quantity[x]
                                         /\ Value[x] \in Int /\ Quantity[x] \in Int
                                         /\ orders'[x] = orders[x]
    <2>1. /\ o \notin Rows(a, sd)
          /\ Rows(a, sd)' = IF a = t.acct /\ sd = t.side
                            THEN Rows(a, sd) \cup {o} ELSE Rows(a, sd)
      BY <1>1, <1>2 DEF Rows
    <2>2. \A x \in Rows(a, sd) : x \in OrderId /\ x # o /\ Value[x] \in Nat /\ Quantity[x] \in Nat
      BY <2>1, RowTypes
    <2>3. IsFiniteSet(Rows(a, sd)')
      BY <2>1, FS_AddElement DEF Books
    <2> QED
      BY <1>1, <1>3, <2>1, <2>2, <2>3
  <1> QED
    BY <1>1, <1>2, <1>3, <1>4, <1>5, <1>6 DEF RowAdded

LEMMA FillCash ==
  ASSUME TypeOK, Books, NEW o \in OrderId, NEW t, RowAdded(o, t),
         NEW a \in Account, NEW sd \in Side
  PROVE  Cash(a, sd)' = IF a = t.acct /\ sd = t.side THEN Cash(a, sd) + Notional(t) ELSE Cash(a, sd)
  <1>1. IsFiniteSet(Rows(a, sd))
    BY DEF Books
  <1>2. CASE a = t.acct /\ sd = t.side
    <2>1. SumFunctionOnSet(Value', Rows(a, sd) \cup {o}) =
          SumFunctionOnSet(Value, Rows(a, sd)) + Value'[o]
      BY <1>1, <1>2, SumGrows DEF RowAdded
    <2> QED
      BY <1>2, <2>1 DEF Cash, RowAdded
  <1>3. CASE ~(a = t.acct /\ sd = t.side)
    <2>1. SumFunctionOnSet(Value', Rows(a, sd)) = SumFunctionOnSet(Value, Rows(a, sd))
      BY <1>1, SumSame DEF RowAdded
    <2> QED
      BY <1>3, <2>1 DEF Cash, RowAdded
  <1> QED
    BY <1>2, <1>3

LEMMA FillLots ==
  ASSUME TypeOK, Books, NEW o \in OrderId, NEW t, RowAdded(o, t),
         NEW a \in Account, NEW sd \in Side, NEW s \in Security
  PROVE  Lots(a, s, sd)' = IF a = t.acct /\ sd = t.side /\ s = t.sec
                           THEN Lots(a, s, sd) + t.qty ELSE Lots(a, s, sd)
  <1>1. IsFiniteSet(RowsIn(a, s, sd))
    BY SumTypes
  <1>2. /\ o \notin RowsIn(a, s, sd)
        /\ RowsIn(a, s, sd)' = IF a = t.acct /\ sd = t.side /\ s = t.sec
                               THEN RowsIn(a, s, sd) \cup {o} ELSE RowsIn(a, s, sd)
    BY DEF RowAdded, RowsIn
  <1>3. /\ \A x \in RowsIn(a, s, sd) : Quantity'[x] = Quantity[x] /\ Quantity[x] \in Int
        /\ Quantity'[o] = t.qty /\ t.qty \in Int
    BY DEF RowAdded, RowsIn
  <1>4. CASE a = t.acct /\ sd = t.side /\ s = t.sec
    <2>1. SumFunctionOnSet(Quantity', RowsIn(a, s, sd) \cup {o}) =
          SumFunctionOnSet(Quantity, RowsIn(a, s, sd)) + Quantity'[o]
      BY <1>1, <1>2, <1>3, SumGrows
    <2> QED
      BY <1>2, <1>3, <1>4, <2>1 DEF Lots
  <1>5. CASE ~(a = t.acct /\ sd = t.side /\ s = t.sec)
    <2>1. SumFunctionOnSet(Quantity', RowsIn(a, s, sd)) = SumFunctionOnSet(Quantity, RowsIn(a, s, sd))
      BY <1>1, <1>3, SumSame
    <2> QED
      BY <1>2, <1>5, <2>1 DEF Lots
  <1> QED
    BY <1>4, <1>5

\* A posting adds its row to the sum of its account and kind alone.
LEMMA PostSums ==
  ASSUME TypeOK, Books, NEW r \in Ref, NEW t \in TxnRow, txns[r] = NoTxn,
         txns' = [txns EXCEPT ![r] = t],
         NEW a \in Account, NEW k \in {"deposit", "withdrawal"}
  PROVE  /\ Money(a, k)' = Money(a, k) + (IF a = t.acct /\ k = t.kind THEN t.amount ELSE 0)
         /\ IsFiniteSet(Posted(a, k)')
  <1>1. /\ txns'[r] = t /\ t # NoTxn
        /\ \A x \in Ref : x # r => txns'[x] = txns[x]
    BY LedgerAssumption DEF TypeOK
  <1>2. /\ r \notin Posted(a, k)
        /\ Posted(a, k)' = IF a = t.acct /\ k = t.kind THEN Posted(a, k) \cup {r} ELSE Posted(a, k)
    BY <1>1 DEF Posted
  <1>3. /\ \A x \in Posted(a, k) : Moved'[x] = Moved[x] /\ Moved[x] \in Int
        /\ Moved'[r] = t.amount /\ t.amount \in Int
    <2>1. \A x \in Posted(a, k) : x \in Ref /\ x # r /\ Moved[x] \in Nat
      BY <1>2, RowTypes
    <2>2. \A x \in Ref : Moved[x] = txns[x].amount /\ Moved'[x] = txns'[x].amount
      BY DEF Moved
    <2>3. t.amount \in Nat
      BY LedgerAssumption DEF TxnRow
    <2> QED
      BY <1>1, <2>1, <2>2, <2>3
  <1>4. IsFiniteSet(Posted(a, k)) /\ Money(a, k) \in Int
    BY SumTypes DEF Books
  <1>5. CASE a = t.acct /\ k = t.kind
    <2>1. SumFunctionOnSet(Moved', Posted(a, k) \cup {r}) =
          SumFunctionOnSet(Moved, Posted(a, k)) + Moved'[r]
      BY <1>2, <1>3, <1>4, SumGrows
    <2> QED
      BY <1>2, <1>3, <1>4, <1>5, <2>1, FS_AddElement DEF Money
  <1>6. CASE ~(a = t.acct /\ k = t.kind)
    <2>1. SumFunctionOnSet(Moved', Posted(a, k)) = SumFunctionOnSet(Moved, Posted(a, k))
      BY <1>3, <1>4, SumSame
    <2>2. Money(a, k)' = Money(a, k)
      BY <1>2, <1>6, <2>1 DEF Money
    <2> QED
      BY <1>2, <1>4, <1>6, <2>2
  <1> QED
    BY <1>5, <1>6

\* Half a cent of drift per fill: what a fill does to the inequality.
LEMMA DriftGrows ==
  ASSUME NEW d \in Int, NEW e \in Int, NEW n \in Nat,
         2 * (IF d < 0 THEN -d ELSE d) <= Scale * n,
         2 * (e - d) <= Scale, -Scale <= 2 * (e - d)
  PROVE  2 * (IF e < 0 THEN -e ELSE e) <= Scale * (n + 1)
  <1>1. PICK m \in Nat : m = Scale * n
    BY LedgerAssumption
  <1>2. Scale \in Nat /\ Scale * (n + 1) = m + Scale
    BY <1>1, LedgerAssumption
  <1>3. 2 * d <= m /\ -m <= 2 * d
    BY <1>1
  <1>4. 2 * e <= m + Scale /\ -(m + Scale) <= 2 * e
    BY <1>1, <1>2, <1>3
  <1> QED
    BY <1>2, <1>4

LEMMA FillBooks ==
  ASSUME TypeOK, Books, NEW o \in OrderId, NEW t, Row(t, "filled") \in OrderRow,
         orders[o] # NoOrder => orders[o].status # "filled",
         AbstractLedger!Fill(o, t)
  PROVE  Books'
  <1>1. /\ CanFill(balance[t.acct], holding[t.acct][t.sec], t)
        /\ balance' = [balance EXCEPT ![t.acct] = BalanceAfter(balance[t.acct], t)]
        /\ holding' = [holding EXCEPT ![t.acct][t.sec] = HeldAfter(holding[t.acct][t.sec], t)]
        /\ orders' = [orders EXCEPT ![o] = Row(t, "filled")]
        /\ txns' = txns
    BY SameOperators DEF AbstractLedger!Fill, TypeOK
  <1>2. RowAdded(o, t)
    BY <1>1, FillRows
  <1>3. /\ t.acct \in Account /\ t.sec \in Security /\ t.side \in Side
        /\ t.qty \in Nat /\ t.price \in Nat /\ Notional(t) \in Nat
    <2>1. /\ t.acct \in Account /\ t.sec \in Security /\ t.side \in Side
          /\ t.qty \in Nat /\ t.price \in Nat
      BY LedgerAssumption DEF Row, OrderRow
    <2> QED
      BY <2>1 DEF Notional
  <1>4. \A a \in Account, sd \in Side : IsFiniteSet(Rows(a, sd)')
    BY <1>2 DEF RowAdded
  <1>5. \A a \in Account, k \in {"deposit", "withdrawal"} :
           Posted(a, k)' = Posted(a, k) /\ Money(a, k)' = Money(a, k)
    BY <1>1 DEF Posted, Money, Moved
  <1>6. ASSUME NEW a \in Account, NEW s \in Security
        PROVE  holding'[a][s] = Lots(a, s, "buy")' - Lots(a, s, "sell")'
    <2>1. /\ Lots(a, s, "buy") \in Int /\ Lots(a, s, "sell") \in Int
          /\ holding[a][s] = Lots(a, s, "buy") - Lots(a, s, "sell")
      BY SumTypes DEF Books, SharesReconcile, Side
    <2>2. \A sd \in Side : Lots(a, s, sd)' = IF a = t.acct /\ sd = t.side /\ s = t.sec
                                              THEN Lots(a, s, sd) + t.qty ELSE Lots(a, s, sd)
      BY <1>2, FillLots
    <2>3. holding'[a][s] = IF a = t.acct /\ s = t.sec
                           THEN HeldAfter(holding[a][s], t) ELSE holding[a][s]
      BY <1>1, <1>3 DEF TypeOK
    <2> QED
      BY <1>3, <2>1, <2>2, <2>3 DEF HeldAfter, Side
  <1>7. ASSUME NEW a \in Account, a # t.acct
        PROVE  Drift(a)' = Drift(a) /\ Fills(a)' = Fills(a)
    <2>1. \A sd \in Side : Rows(a, sd)' = Rows(a, sd) /\ Cash(a, sd)' = Cash(a, sd)
      BY <1>7, <1>2, FillCash DEF RowAdded
    <2>2. balance'[a] = balance[a]
      BY <1>1, <1>7 DEF TypeOK
    <2> QED
      BY <1>5, <2>1, <2>2 DEF Drift, BookValue, Fills, Side
  <1>8. ASSUME NEW a \in Account, a = t.acct
        PROVE  /\ Drift(a) \in Int /\ Drift(a)' \in Int
               /\ 2 * (Drift(a)' - Drift(a)) <= Scale
               /\ -Scale <= 2 * (Drift(a)' - Drift(a))
    <2> DEFINE x == IF t.side = "buy" THEN balance[a] * Scale - Notional(t)
                                      ELSE balance[a] * Scale + Notional(t)
    <2>1. /\ balance[a] \in Nat /\ Scale \in Nat /\ Scale * balance[a] \in Nat
          /\ balance[a] * Scale = Scale * balance[a]
      BY LedgerAssumption DEF TypeOK
    <2>2. x \in Nat /\ balance'[a] = Cents(x)
      <3>1. x \in Nat
        BY <1>1, <1>3, <1>8, <2>1 DEF CanFill
      <3>2. balance'[a] = BalanceAfter(balance[a], t)
        BY <1>1, <1>8 DEF TypeOK
      <3> QED
        BY <3>1, <3>2 DEF BalanceAfter
    <2>3. /\ Cash(a, "buy") \in Int /\ Cash(a, "sell") \in Int
          /\ Money(a, "deposit") \in Int /\ Money(a, "withdrawal") \in Int
          /\ BookValue(a) \in Int
      BY SumTypes DEF Side
    <2>4. /\ Cash(a, "buy")' = IF t.side = "buy" THEN Cash(a, "buy") + Notional(t)
                                                  ELSE Cash(a, "buy")
          /\ Cash(a, "sell")' = IF t.side = "sell" THEN Cash(a, "sell") + Notional(t)
                                                    ELSE Cash(a, "sell")
      BY <1>8, <1>2, FillCash DEF Side
    <2>5. BookValue(a)' = BookValue(a) + (IF t.side = "buy" THEN -Notional(t) ELSE Notional(t))
      <3>1. PICK m \in Int : m = Scale * (Money(a, "deposit") - Money(a, "withdrawal"))
        BY <2>1, <2>3
      <3>2. BookValue(a) = m + Cash(a, "sell") - Cash(a, "buy")
        BY <3>1 DEF BookValue
      <3>3. BookValue(a)' = m + Cash(a, "sell")' - Cash(a, "buy")'
        BY <1>5, <3>1 DEF BookValue
      <3> QED
        BY <1>3, <2>3, <2>4, <3>2, <3>3 DEF Side
    <2>6. Scale * Cents(x) \in Int
      BY <2>1, <2>2, CentsType
    <2>7. Drift(a) = Scale * balance[a] - BookValue(a) /\ Drift(a)' = Scale * Cents(x) - BookValue(a)'
      BY <2>2 DEF Drift
    <2>8. Drift(a)' - Drift(a) = Scale * Cents(x) - x /\ Drift(a) \in Int /\ Drift(a)' \in Int
      BY <1>3, <2>1, <2>2, <2>3, <2>5, <2>6, <2>7
    <2> HIDE DEF x
    <2>9. 2 * (Scale * Cents(x) - x) <= Scale /\ -Scale <= 2 * (Scale * Cents(x) - x)
      BY <2>2, CentsClose
    <2> QED
      BY <2>8, <2>9
  <1>9. ASSUME NEW a \in Account, a = t.acct PROVE Fills(a)' = Fills(a) + 1
    <2> DEFINE B == Rows(a, "buy")
               S == Rows(a, "sell")
    <2>1. IsFiniteSet(B) /\ IsFiniteSet(S) /\ IsFiniteSet(B \cup S)
      BY FS_Union DEF Books, Side
    <2>2. o \notin B \cup S
      BY DEF Rows
    <2>3. Rows(a, "buy")' \cup Rows(a, "sell")' = (B \cup S) \cup {o}
      <3>1. \A sd \in Side : Rows(a, sd)' = IF sd = t.side THEN Rows(a, sd) \cup {o} ELSE Rows(a, sd)
        BY <1>9, <1>2 DEF RowAdded
      <3> QED
        BY <1>3, <3>1 DEF Side
    <2> HIDE DEF B, S
    <2>4. Cardinality((B \cup S) \cup {o}) = Cardinality(B \cup S) + 1
      BY <2>1, <2>2, FS_AddElement
    <2> QED
      BY <2>3, <2>4 DEF Fills, B, S
  <1>10. CashReconciles'
    <2> SUFFICES ASSUME NEW a \in Account
                 PROVE  2 * (IF Drift(a)' < 0 THEN -Drift(a)' ELSE Drift(a)') <= Scale * Fills(a)'
      BY DEF CashReconciles
    <2>1. 2 * (IF Drift(a) < 0 THEN -Drift(a) ELSE Drift(a)) <= Scale * Fills(a)
      BY DEF Books, CashReconciles
    <2>2. CASE a # t.acct
      BY <1>7, <2>1, <2>2
    <2>3. CASE a = t.acct
      BY <1>8, <1>9, <2>1, <2>3, SumTypes, DriftGrows
    <2> QED
      BY <2>2, <2>3
  <1>11. SharesReconcile'
    BY <1>6 DEF SharesReconcile
  <1> QED
    BY <1>4, <1>5, <1>10, <1>11 DEF Books

LEMMA PostBooks ==
  ASSUME TypeOK, Books, NEW r \in Ref, NEW t \in TxnRow, AbstractLedger!Post(r, t)
  PROVE  Books'
  <1>1. /\ txns[r] = NoTxn /\ txns' = [txns EXCEPT ![r] = t]
        /\ balance' = [balance EXCEPT ![t.acct] = IF t.kind = "deposit"
                                                 THEN balance[t.acct] + t.amount
                                                 ELSE balance[t.acct] - t.amount]
        /\ holding' = holding /\ orders' = orders
    BY DEF AbstractLedger!Post, TypeOK
  <1>2. t.acct \in Account /\ t.kind \in {"deposit", "withdrawal"} /\ t.amount \in Nat
    BY LedgerAssumption DEF TxnRow
  <1>3. SameFills
    BY <1>1, NoFill
  <1>4. \A a \in Account, k \in {"deposit", "withdrawal"} :
           /\ Money(a, k)' = Money(a, k) + (IF a = t.acct /\ k = t.kind THEN t.amount ELSE 0)
           /\ IsFiniteSet(Posted(a, k)')
    BY <1>1, PostSums
  <1>5. ASSUME NEW a \in Account
        PROVE  Drift(a)' = Drift(a) /\ Fills(a)' = Fills(a)
    <2>1. /\ Cash(a, "buy") \in Int /\ Cash(a, "sell") \in Int
          /\ Money(a, "deposit") \in Int /\ Money(a, "withdrawal") \in Int
          /\ Scale \in Int /\ balance[a] \in Int
      BY SumTypes, LedgerAssumption DEF Side, TypeOK
    <2>2. /\ Cash(a, "buy")' = Cash(a, "buy") /\ Cash(a, "sell")' = Cash(a, "sell")
          /\ Rows(a, "buy")' = Rows(a, "buy") /\ Rows(a, "sell")' = Rows(a, "sell")
      BY <1>3 DEF SameFills, Side
    <2> DEFINE m == Money(a, "deposit") - Money(a, "withdrawal")
               n == Money(a, "deposit")' - Money(a, "withdrawal")'
               x == IF a # t.acct THEN 0 ELSE IF t.kind = "deposit" THEN t.amount ELSE -t.amount
    <2>3. m \in Int /\ n \in Int /\ x \in Int /\ n = m + x
      BY <1>2, <1>4, <2>1
    <2>4. balance'[a] = balance[a] + x
      BY <1>1, <1>2, <2>1 DEF TypeOK
    <2>5. Drift(a) = Scale * balance[a] - (Scale * m + Cash(a, "sell") - Cash(a, "buy"))
      BY DEF Drift, BookValue
    <2>6. Drift(a)' = Scale * balance'[a] - (Scale * n + Cash(a, "sell") - Cash(a, "buy"))
      BY <2>2 DEF Drift, BookValue
    <2> HIDE DEF m, n, x
    <2>7. /\ Scale * balance'[a] = Scale * balance[a] + Scale * x /\ Scale * n = Scale * m + Scale * x
          /\ Scale * balance[a] \in Int /\ Scale * x \in Int /\ Scale * m \in Int
      BY <2>1, <2>3, <2>4
    <2>8. PICK b, c, d \in Int : b = Scale * balance[a] /\ c = Scale * x /\ d = Scale * m
      BY <2>7
    <2>9. Drift(a)' = Drift(a)
      BY <2>1, <2>5, <2>6, <2>7, <2>8
    <2>10. Fills(a)' = Fills(a)
      BY <2>2 DEF Fills
    <2> QED
      BY <2>9, <2>10
  <1>6. CashReconciles'
    BY <1>5 DEF Books, CashReconciles
  <1>7. SharesReconcile'
    BY <1>1, <1>3 DEF Books, SharesReconcile, SameFills, Side
  <1>8. \A a \in Account, sd \in Side : IsFiniteSet(Rows(a, sd)')
    BY <1>3 DEF SameFills, Books
  <1> QED
    BY <1>4, <1>6, <1>7, <1>8 DEF Books

\* A step that writes no balance and no holding, fills no order and posts
\* nothing leaves the books as they are.
LEMMA QuietBooks ==
  ASSUME TypeOK, Books, SameFills, UNCHANGED <<balance, holding, txns>>
  PROVE  Books'
  <1>1. \A a \in Account, k \in {"deposit", "withdrawal"} :
           Posted(a, k)' = Posted(a, k) /\ Money(a, k)' = Money(a, k)
    BY DEF Posted, Money, Moved
  <1>2. \A a \in Account : Drift(a)' = Drift(a) /\ Fills(a)' = Fills(a)
    BY <1>1 DEF SameFills, Drift, BookValue, Fills, Side
  <1>3. CashReconciles'
    BY <1>2 DEF Books, CashReconciles
  <1>4. SharesReconcile'
    BY DEF Books, SharesReconcile, SameFills, Side
  <1> QED
    BY <1>1, <1>3, <1>4 DEF Books, SameFills

LEMMA BooksStep ==
  ASSUME IInv, Books, [Next]_vars
  PROVE  Books'
  <1>1. TypeOK
    BY DEF IInv
  <1>2. AbstractLedger!Next \/ UNCHANGED db
    BY StepRefines DEF AbstractLedger!vars, db
  <1>3. ASSUME NEW r \in Ref, NEW t \in TxnRow, AbstractLedger!Post(r, t)
        PROVE  Books'
    BY <1>1, <1>3, PostBooks
  <1>4. ASSUME NEW o \in OrderId, NEW t \in Terms, AbstractLedger!FillMarket(o, t)
        PROVE  Books'
    <2>1. Row(t, "filled") \in OrderRow
      BY DEF Terms, Row, OrderRow
    <2> QED
      BY <1>1, <1>4, <2>1, FillBooks DEF AbstractLedger!FillMarket
  <1>5. ASSUME NEW o \in OrderId, AbstractLedger!FillLimit(o)
        PROVE  Books'
    <2>1. orders[o] \in OrderRow /\ orders[o].status = "pending"
      BY <1>1, <1>5 DEF TypeOK, AbstractLedger!FillLimit
    <2>2. Row(orders[o], "filled") \in OrderRow
      BY <2>1 DEF Row, OrderRow
    <2> QED
      BY <1>1, <1>5, <2>1, <2>2, FillBooks DEF AbstractLedger!FillLimit
  <1>6. ASSUME NEW o \in OrderId, NEW t \in Terms, AbstractLedger!PlaceLimit(o, t)
        PROVE  Books'
    <2>1. /\ orders[o] = NoOrder /\ orders' = [orders EXCEPT ![o] = Row(t, "pending")]
          /\ UNCHANGED <<balance, holding, txns>>
      BY <1>6, SameOperators DEF AbstractLedger!PlaceLimit
    <2>2. Row(t, "pending").status # "filled"
      BY DEF Row
    <2>3. SameFills
      BY <1>1, <2>1, <2>2, NoFill DEF TypeOK
    <2> QED
      BY <1>1, <2>1, <2>3, QuietBooks
  <1>7. ASSUME NEW o \in OrderId, AbstractLedger!Cancel(o)
        PROVE  Books'
    <2>1. /\ orders[o] \in OrderRow /\ orders[o].status = "pending"
          /\ orders' = [orders EXCEPT ![o].status = "cancelled"]
          /\ UNCHANGED <<balance, holding, txns>>
      BY <1>1, <1>7 DEF TypeOK, AbstractLedger!Cancel
    <2>2. orders'[o].status = "cancelled" /\ \A x \in OrderId : x # o => orders'[x] = orders[x]
      BY <1>1, <2>1 DEF TypeOK, OrderRow
    <2>3. SameFills
      BY <1>1, <2>1, <2>2, NoFill
    <2> QED
      BY <1>1, <2>1, <2>3, QuietBooks
  <1>8. CASE UNCHANGED db
    <2>1. SameFills
      BY <1>1, <1>8, NoFill DEF db
    <2> QED
      BY <1>1, <1>8, <2>1, QuietBooks DEF db
  <1> QED
    BY <1>2, <1>3, <1>4, <1>5, <1>6, <1>7, <1>8, SameOperators DEF AbstractLedger!Next

LEMMA InitBooks == Init => Books
  <1> SUFFICES ASSUME Init PROVE Books
    OBVIOUS
  <1>1. /\ \A a \in Account, sd \in Side : Rows(a, sd) = {}
        /\ \A a \in Account, k \in {"deposit", "withdrawal"} : Posted(a, k) = {}
        /\ \A a \in Account, s \in Security, sd \in Side : RowsIn(a, s, sd) = {}
    BY DEF Init, Rows, RowsIn, Posted
  <1>2. \A a \in Account : /\ Cash(a, "buy") = 0 /\ Cash(a, "sell") = 0
                           /\ Money(a, "deposit") = 0 /\ Money(a, "withdrawal") = 0
    BY <1>1, SumEmpty DEF Cash, Money, Side
  <1>3. \A a \in Account, s \in Security : Lots(a, s, "buy") = 0 /\ Lots(a, s, "sell") = 0
    BY <1>1, SumEmpty DEF Lots, Side
  <1>4. SharesReconcile
    BY <1>3 DEF Init, SharesReconcile
  <1>5. ASSUME NEW a \in Account PROVE Drift(a) = 0 /\ Fills(a) = 0
    <2>1. Rows(a, "buy") \cup Rows(a, "sell") = {}
      BY <1>1 DEF Side
    <2>2. Fills(a) = 0
      BY <2>1, FS_EmptySet DEF Fills
    <2>3. balance[a] = 0 /\ Scale * 0 = 0 /\ Scale \in Int
      BY LedgerAssumption DEF Init
    <2> QED
      BY <1>2, <2>2, <2>3 DEF Drift, BookValue
  <1>6. CashReconciles
    <2> SUFFICES ASSUME NEW a \in Account
                 PROVE  2 * (IF Drift(a) < 0 THEN -Drift(a) ELSE Drift(a)) <= Scale * Fills(a)
      BY DEF CashReconciles
    <2>1. Drift(a) = 0 /\ Scale * Fills(a) = 0
      BY <1>5, LedgerAssumption
    <2> QED
      BY <2>1
  <1> QED
    BY <1>1, <1>4, <1>6, FS_EmptySet DEF Books

LEMMA BooksHold == Spec => []Books
  <1>1. QED
    BY InitBooks, BooksStep, Invariance, PTL DEF Spec

\* The balance of an account is what its transactions and filled orders add
\* up to, but for half a cent per fill: whatever the interleaving of the
\* handlers and wherever one is cut off (routes/orders.py, transactions.py).
THEOREM CashAddsUp == Spec => []CashReconciles
  <1>1. Books => CashReconciles
    BY DEF Books
  <1>2. QED
    BY <1>1, BooksHold, PTL

\* A holding is what was bought less what was sold: the unlocked read of its
\* quantity loses nothing.
THEOREM SharesAddUp == Spec => []SharesReconcile
  <1>1. Books => SharesReconcile
    BY DEF Books
  <1>2. QED
    BY <1>1, BooksHold, PTL
=============================================================================
