-------------------------- MODULE PortfolioManager --------------------------
(***************************************************************************)
(* The portfolio manager: the page (frontend/src/pages/                    *)
(* PortfolioManagerPage.jsx) and the endpoints it calls (backend/app/      *)
(* routes/portfolio_manager.py).  The page keeps a copy of the positions   *)
(* of the active portfolio and of the cash balances.  It never waits: a    *)
(* dialog can be closed and another opened, or the portfolio switched,     *)
(* while a request is under way.  When the answer comes the page patches   *)
(* its copy instead of loading it again.                                   *)
(*                                                                         *)
(* An endpoint loads its rows without a lock at READ COMMITTED, computes   *)
(* new values from them and writes those values at COMMIT.                 *)
(* Every price is 1, so that a value of shares is their number.            *)
(***************************************************************************)
EXTENDS Integers

CONSTANTS
    Portfolio,  \* ids of the user's portfolios
    PosId,      \* ids that positions can get
    Slot,       \* requests the page has under way at once
    None,       \* no portfolio, no position, no slot
    MaxQty,     \* bound: shares the user enters at once
    MaxEvents   \* bound: requests the user causes and the network loses

ASSUME BoundsAssumption == MaxQty \in Nat /\ MaxEvents \in Nat
ASSUME NoneAssumption == None \notin Portfolio \cup PosId \cup Slot

VARIABLES
    \* the database:
    home,       \* the portfolio of a position, None while the id is unused
    held,       \* portfolio_positions.quantity, 0 = no row
    sold,       \* shares of a position in the SELL rows of portfolio_trades
    cash,       \* portfolios.cash_balance
    \* the page:
    active,     \* activePortfolioId
    shown,      \* positions, its copy of the rows; 0 = not in the list
    funds,      \* portfolios, its copy of the balances
    dialog,     \* the dialog that is open, with the row it was opened on
    req,        \* the requests under way
    events,     \* how much of the bound is used up
    \* history:
    entered,    \* shares the requests have put into a position or taken out
    books,      \* what the committed requests add up to in cash
    contended,  \* rows that two requests have held copies of at once
    calm        \* so far the page has waited for every answer and got it

db == <<home, held, sold, cash>>
page == <<active, shown, funds, dialog>>
history == <<entered, books, contended, calm>>
vars == <<db, page, req, events, history>>

NoDialog == [kind |-> "none", pos |-> None, qty |-> 0, slot |-> None]

\* pid, pos, qty and money (deduct_cash, credit_cash) are what is asked for;
\* seen, balance the copies of the rows that the endpoint works on and the
\* quantity it answers; list the positions of the page when it asked, or
\* those of the answer; balances the balances of the answer.
NoRequest == [kind |-> "none", at |-> "idle", pid |-> None, pos |-> None, qty |-> 0,
              money |-> FALSE, seen |-> 0, balance |-> 0,
              list |-> [x \in PosId |-> 0], balances |-> [p \in Portfolio |-> 0]]

Ask(kind, p) == [NoRequest EXCEPT !.kind = kind, !.at = "sent", !.pid = p]

\* What becomes of the request in slot s.
Put(s, r) == req' = [req EXCEPT ![s] = r]

\* The rows of portfolio p.
Rows(p) == [x \in PosId |-> IF home[x] = p THEN held[x] ELSE 0]

Quiet == \A s \in Slot : req[s] = NoRequest

\* A page that has loaded, on what the user has entered before.
Init ==
    /\ home \in [PosId -> Portfolio \cup {None}]
    /\ held = [x \in PosId |-> IF home[x] = None THEN 0 ELSE MaxQty]
    /\ cash = [p \in Portfolio |-> MaxQty]
    /\ sold = [x \in PosId |-> 0]
    /\ active \in Portfolio
    /\ shown = Rows(active)
    /\ funds = cash
    /\ dialog = NoDialog
    /\ req = [s \in Slot |-> NoRequest]
    /\ events = 0
    /\ entered = held /\ books = cash /\ contended = {} /\ calm = TRUE

-----------------------------------------------------------------------------
(* The user.                                                               *)

Send(s, r) ==
    /\ req[s] = NoRequest
    /\ events < MaxEvents
    /\ events' = events + 1
    /\ Put(s, r)
    /\ calm' = (calm /\ Quiet)
    /\ UNCHANGED <<db, entered, books, contended>>

\* A dialog is opened on a copy of the row; the page below may move on.
Open(d) ==
    /\ dialog = NoDialog
    /\ d.pos \in PosId => shown[d.pos] > 0 /\ d.qty = shown[d.pos]
    /\ dialog' = d
    /\ calm' = (calm /\ Quiet)
    /\ UNCHANGED <<db, active, shown, funds, req, events, entered, books, contended>>

OpenOn(kind, x) == Open([NoDialog EXCEPT !.kind = kind, !.pos = x, !.qty = shown[x]])
OpenNew(kind) == Open([NoDialog EXCEPT !.kind = kind])

\* CANCEL is not disabled while the request is under way.
Close ==
    /\ dialog # NoDialog
    /\ dialog' = NoDialog
    /\ UNCHANGED <<db, active, shown, funds, req, events, history>>

\* The button is disabled until the answer comes.
Submit(s, r) ==
    /\ dialog.slot = None
    /\ Send(s, r)
    /\ dialog' = [dialog EXCEPT !.slot = s]
    /\ UNCHANGED <<active, shown, funds>>

SubmitAdd(s, n, deduct) ==
    /\ dialog.kind = "add"
    /\ Submit(s, [Ask("add", active) EXCEPT !.qty = n, !.money = deduct, !.list = shown])

SubmitSell(s, n, credit) ==
    /\ dialog.kind = "sell"
    /\ n <= dialog.qty
    /\ Submit(s, [Ask("sell", home[dialog.pos]) EXCEPT !.pos = dialog.pos, !.qty = n, !.money = credit])

\* The form sends the quantity back even if the user changed something else.
SubmitModify(s, n) ==
    /\ dialog.kind = "modify"
    /\ Submit(s, [Ask("modify", home[dialog.pos]) EXCEPT !.pos = dialog.pos, !.qty = n])

\* cashLoading belongs to the page: closing the dialog does not end it.
SubmitCash(s, n) ==
    /\ dialog.kind = "cash"
    /\ \A i \in Slot : req[i].kind # "cash"
    /\ Submit(s, [Ask("cash", active) EXCEPT !.qty = n, !.money = TRUE])

ClickDelete(s, x) ==
    /\ dialog = NoDialog
    /\ shown[x] > 0
    /\ Send(s, [Ask("delete", home[x]) EXCEPT !.pos = x, !.list = shown])
    /\ UNCHANGED page

\* The exclude box, the stops and the target are patched in place.
Patch(s, x) ==
    /\ dialog = NoDialog
    /\ shown[x] > 0
    /\ Send(s, [Ask("patch", home[x]) EXCEPT !.pos = x])
    /\ UNCHANGED page

Select(s, p) ==
    /\ dialog = NoDialog
    /\ p # active
    /\ active' = p
    /\ shown' = [x \in PosId |-> 0]
    /\ Send(s, Ask("positions", p))
    /\ UNCHANGED <<funds, dialog>>

-----------------------------------------------------------------------------
(* The endpoints.                                                          *)

Loads == {"positions", "balances"}
OnRow == {"sell", "modify", "patch", "delete"}

\* The rows whose copies a request works on.
Touches(r) ==
    (IF r.kind \in OnRow THEN {r.pos} ELSE {}) \cup (IF r.money THEN {r.pid} ELSE {})

Working(i) == req[i].at \in {"found", "ready"}

Contention(s) ==
    contended \cup (Touches(req[s]) \cap UNION {Touches(req[i]) : i \in {i \in Slot \ {s} : Working(i)}})

\* A list is read and answered at once.
Serve(s) ==
    /\ req[s].at = "sent"
    /\ req[s].kind \in Loads
    /\ Put(s, [req[s] EXCEPT !.at = "answered",
                              !.list = IF req[s].kind = "positions" THEN Rows(req[s].pid) ELSE @,
                              !.balances = IF req[s].kind = "balances" THEN cash ELSE @])
    /\ UNCHANGED <<db, page, events, history>>

\* _get_position_or_404.  A sale goes on to load the portfolio.
LoadPosition(s) ==
    LET r == req[s]  q == held[r.pos] IN
    /\ r.at = "sent"
    /\ r.kind \in OnRow
    /\ contended' = Contention(s)
    /\ Put(s, [r EXCEPT !.seen = q,
                        !.at = IF q = 0 THEN "failed"
                               ELSE IF r.kind = "sell" THEN "found" ELSE "ready"])
    /\ UNCHANGED <<db, page, events, entered, books, calm>>

\* Variant: the balance is the one that the page shows.
LoadPortfolioOfPage(s) ==
    LET r == req[s]  b == funds[r.pid] IN
    /\ \/ r.at = "sent" /\ r.kind \in {"add", "cash"}
       \/ r.at = "found"
    /\ contended' = Contention(s)
    /\ Put(s, [r EXCEPT !.balance = b,
                        !.at = IF \/ r.kind = "add" /\ r.money /\ b < r.qty
                                  \/ r.kind = "cash" /\ b + r.qty < 0
                               THEN "failed" ELSE "ready"])
    /\ UNCHANGED <<db, page, events, entered, books, calm>>

\* A purchase or a withdrawal that the balance does not cover is refused.
LoadPortfolio(s) ==
    LET r == req[s]  b == cash[r.pid] IN
    /\ \/ r.at = "sent" /\ r.kind \in {"add", "cash"}
       \/ r.at = "found"
    /\ contended' = Contention(s)
    /\ Put(s, [r EXCEPT !.balance = b,
                        !.at = IF \/ r.kind = "add" /\ r.money /\ b < r.qty
                                  \/ r.kind = "cash" /\ b + r.qty < 0
                               THEN "failed" ELSE "ready"])
    /\ UNCHANGED <<db, page, events, entered, books, calm>>

\* Variant: UPDATE ... SET cash_balance = cash_balance + amount, after a check
\* of the copy.
PayRelative(s, amount) ==
    IF req[s].money
    THEN /\ cash' = [cash EXCEPT ![req[s].pid] = @ + amount]
         /\ books' = [books EXCEPT ![req[s].pid] = @ + amount]
    ELSE UNCHANGED <<cash, books>>

\* COMMIT of what request s has computed: the balance grows by the given
\* amount over the copy, not over the row.
Pay(s, amount) ==
    IF req[s].money
    THEN /\ cash' = [cash EXCEPT ![req[s].pid] = req[s].balance + amount]
         /\ books' = [books EXCEPT ![req[s].pid] = @ + amount]
    ELSE UNCHANGED <<cash, books>>

\* The error keeps nothing of the request but what it was.
Fail(s) == Put(s, [NoRequest EXCEPT !.kind = req[s].kind, !.at = "failed"])

Enter(x, n) == entered' = [entered EXCEPT ![x] = @ + n]
Then(s, at) == Put(s, [req[s] EXCEPT !.at = at])

CommitAdd(s, x) ==
    /\ req[s].at = "ready" /\ req[s].kind = "add"
    /\ home[x] = None
    /\ home' = [home EXCEPT ![x] = req[s].pid]
    /\ held' = [held EXCEPT ![x] = req[s].qty]
    /\ Pay(s, -req[s].qty)
    /\ Enter(x, req[s].qty)
    /\ Put(s, [req[s] EXCEPT !.at = "committed", !.pos = x])
    /\ UNCHANGED <<sold, page, events, contended, calm>>

CommitCash(s) ==
    /\ req[s].at = "ready" /\ req[s].kind = "cash"
    /\ Pay(s, req[s].qty)
    /\ Then(s, "answered")
    /\ UNCHANGED <<home, held, sold, page, events, entered, contended, calm>>

\* Variant: the sale of more than there is leaves the difference.
CommitFullSaleUnclamped(s) ==
    LET r == req[s] IN
    /\ r.at = "ready" /\ r.kind = "sell"
    /\ r.qty >= r.seen
    /\ held' = [held EXCEPT ![r.pos] = r.seen - r.qty]
    /\ sold' = [sold EXCEPT ![r.pos] = @ + r.seen]
    /\ Pay(s, r.seen)
    /\ Put(s, [r EXCEPT !.at = "answered", !.seen = 0])
    /\ UNCHANGED <<home, page, events, entered, contended, calm>>

\* Variant: the trade records what was asked for, not what was there.
CommitFullSaleAsked(s) ==
    LET r == req[s] IN
    /\ r.at = "ready" /\ r.kind = "sell"
    /\ r.qty >= r.seen
    /\ held' = [held EXCEPT ![r.pos] = 0]
    /\ sold' = [sold EXCEPT ![r.pos] = @ + r.qty]
    /\ Pay(s, r.qty)
    /\ Put(s, [r EXCEPT !.at = "answered", !.seen = 0])
    /\ UNCHANGED <<home, page, events, entered, contended, calm>>

\* Deleting a row that is gone is only a warning; the trade is recorded.
CommitFullSale(s) ==
    LET r == req[s] IN
    /\ r.at = "ready" /\ r.kind = "sell"
    /\ r.qty >= r.seen
    /\ held' = [held EXCEPT ![r.pos] = 0]
    /\ sold' = [sold EXCEPT ![r.pos] = @ + r.seen]
    /\ Pay(s, r.seen)
    /\ Put(s, [r EXCEPT !.at = "answered", !.seen = 0])
    /\ UNCHANGED <<home, page, events, entered, contended, calm>>

CommitPartialSale(s) ==
    LET r == req[s] IN
    /\ r.at = "ready" /\ r.kind = "sell"
    /\ r.qty < r.seen
    /\ held[r.pos] > 0
    /\ held' = [held EXCEPT ![r.pos] = r.seen - r.qty]
    /\ sold' = [sold EXCEPT ![r.pos] = @ + r.qty]
    /\ Pay(s, r.qty)
    /\ Then(s, "committed")
    /\ UNCHANGED <<home, page, events, entered, contended, calm>>

\* A quantity that is the one of the copy is not written.
CommitModify(s) ==
    LET r == req[s]  other == r.kind = "modify" /\ r.qty # r.seen IN
    /\ r.at = "ready" /\ r.kind \in {"modify", "patch"}
    /\ held[r.pos] > 0
    /\ held' = IF other THEN [held EXCEPT ![r.pos] = r.qty] ELSE held
    /\ Enter(r.pos, IF other THEN r.qty - r.seen ELSE 0)
    /\ Then(s, "committed")
    /\ UNCHANGED <<home, sold, cash, page, events, books, contended, calm>>

CommitDelete(s) ==
    LET r == req[s] IN
    /\ r.at = "ready" /\ r.kind = "delete"
    /\ held' = [held EXCEPT ![r.pos] = 0]
    /\ Enter(r.pos, -r.seen)
    /\ Then(s, "answered")
    /\ UNCHANGED <<home, sold, cash, page, events, books, contended, calm>>

\* The UPDATE of a row that is gone fails and everything is rolled back ...
RollBack(s) ==
    LET r == req[s] IN
    /\ r.at = "ready"
    /\ \/ r.kind = "sell" /\ r.qty < r.seen
       \/ r.kind \in {"modify", "patch"}
    /\ held[r.pos] = 0
    /\ Fail(s)
    /\ UNCHANGED <<db, page, events, history>>

\* ... and so does db.refresh, but after the COMMIT.
Refresh(s) ==
    LET now == held[req[s].pos] IN
    /\ req[s].at = "committed"
    /\ Put(s, [req[s] EXCEPT !.seen = now, !.at = IF now = 0 THEN "failed" ELSE "answered"])
    /\ UNCHANGED <<db, page, events, history>>

\* A request or an answer is lost on the way.
Lose(s) ==
    /\ req[s].at \in {"sent", "answered"}
    /\ events < MaxEvents
    /\ events' = events + 1
    /\ Fail(s)
    /\ calm' = FALSE
    /\ UNCHANGED <<db, page, entered, books, contended>>

-----------------------------------------------------------------------------
(* The answers.                                                            *)

\* The dialog of a kind is closed, whichever request it waits for.
Closes(kind) == dialog' = IF dialog.kind = kind THEN NoDialog ELSE dialog

Done(s) == Put(s, NoRequest)

\* loadPortfolios follows.
Reload(s) == Put(s, Ask("balances", None))

\* A row is patched where it is in the list.
Patched(r) == [shown EXCEPT ![r.pos] = IF @ = 0 THEN 0 ELSE r.seen]

Answered(s, kind) ==
    /\ req[s].at = "answered" /\ req[s].kind = kind
    /\ UNCHANGED <<db, active, events, history>>

\* The lists, whatever is selected by now.
ReceivePositions(s) ==
    /\ Answered(s, "positions")
    /\ shown' = req[s].list
    /\ Done(s)
    /\ UNCHANGED <<funds, dialog>>

ReceiveBalances(s) ==
    /\ Answered(s, "balances")
    /\ funds' = req[s].balances
    /\ Done(s)
    /\ UNCHANGED <<shown, dialog>>

\* handlePositionAdded appends to the list of the render it was made in.
ReceiveAdd(s) ==
    /\ Answered(s, "add")
    /\ shown' = [req[s].list EXCEPT ![req[s].pos] = req[s].seen]
    /\ Closes("add")
    /\ Reload(s)
    /\ UNCHANGED funds

\* Variant: the balances are not loaded again.
ReceiveSellAlone(s) ==
    /\ Answered(s, "sell")
    /\ shown' = Patched(req[s])
    /\ Closes("sell")
    /\ Done(s)
    /\ UNCHANGED funds

ReceiveSell(s) ==
    /\ Answered(s, "sell")
    /\ shown' = Patched(req[s])
    /\ Closes("sell")
    /\ Reload(s)
    /\ UNCHANGED funds

ReceiveModify(s) ==
    /\ Answered(s, "modify")
    /\ shown' = Patched(req[s])
    /\ Closes("modify")
    /\ Done(s)
    /\ UNCHANGED funds

ReceivePatch(s) ==
    /\ Answered(s, "patch")
    /\ shown' = Patched(req[s])
    /\ Done(s)
    /\ UNCHANGED <<funds, dialog>>

\* handleDeletePosition filters the list of the render it was made in.
ReceiveDelete(s) ==
    /\ Answered(s, "delete")
    /\ shown' = [req[s].list EXCEPT ![req[s].pos] = 0]
    /\ Done(s)
    /\ UNCHANGED <<funds, dialog>>

ReceiveCash(s) ==
    /\ Answered(s, "cash")
    /\ Closes("cash")
    /\ Reload(s)
    /\ UNCHANGED <<shown, funds>>

\* The error is shown; the button of the dialog works again.
ReceiveError(s) ==
    /\ req[s].at = "failed"
    /\ dialog' = IF dialog.slot = s THEN [dialog EXCEPT !.slot = None] ELSE dialog
    /\ Done(s)
    /\ UNCHANGED <<db, active, shown, funds, events, history>>

-----------------------------------------------------------------------------
Qty == 1 .. MaxQty

User ==
    \/ \E x \in PosId : OpenOn("sell", x) \/ OpenOn("modify", x)
    \/ OpenNew("add") \/ OpenNew("cash") \/ Close
    \/ \E s \in Slot, n \in Qty, b \in BOOLEAN : SubmitAdd(s, n, b) \/ SubmitSell(s, n, b)
    \/ \E s \in Slot, n \in Qty : SubmitModify(s, n) \/ SubmitCash(s, n) \/ SubmitCash(s, -n)
    \/ \E s \in Slot, x \in PosId : ClickDelete(s, x) \/ Patch(s, x)
    \/ \E s \in Slot, p \in Portfolio : Select(s, p)

Server(s) ==
    \/ Serve(s) \/ LoadPosition(s) \/ LoadPortfolio(s)
    \/ \E x \in PosId : CommitAdd(s, x)
    \/ CommitCash(s) \/ CommitFullSale(s) \/ CommitPartialSale(s)
    \/ CommitModify(s) \/ CommitDelete(s) \/ RollBack(s) \/ Refresh(s)

Receive(s) ==
    \/ ReceivePositions(s) \/ ReceiveBalances(s) \/ ReceiveAdd(s) \/ ReceiveSell(s)
    \/ ReceiveModify(s) \/ ReceivePatch(s) \/ ReceiveDelete(s) \/ ReceiveCash(s)
    \/ ReceiveError(s)

Next == User \/ \E s \in Slot : Server(s) \/ Lose(s) \/ Receive(s)

Spec == Init /\ [][Next]_vars

-----------------------------------------------------------------------------
(* Properties.                                                             *)

Kind == {"none", "add", "cash", "sell", "modify", "patch", "delete"} \cup Loads
At == {"idle", "sent", "found", "ready", "committed", "answered", "failed"}
Request == [kind : Kind, at : At, pid : Portfolio \cup {None}, pos : PosId \cup {None},
            qty : Int, money : BOOLEAN, seen : Nat, balance : Int,
            list : [PosId -> Nat], balances : [Portfolio -> Int]]

\* Every variable has its type, and no quantity or copy of one is negative.
TypeOK ==
    /\ home \in [PosId -> Portfolio \cup {None}]
    /\ held \in [PosId -> Nat] /\ sold \in [PosId -> Nat]
    /\ cash \in [Portfolio -> Int]
    /\ active \in Portfolio
    /\ shown \in [PosId -> Nat]
    /\ funds \in [Portfolio -> Int]
    /\ dialog \in [kind : Kind, pos : PosId \cup {None}, qty : Nat, slot : Slot \cup {None}]
    /\ req \in [Slot -> Request]
    /\ events \in Nat
    /\ entered \in [PosId -> Int] /\ books \in [Portfolio -> Int]
    /\ contended \subseteq PosId \cup Portfolio
    /\ calm \in BOOLEAN

\* No portfolio is ever in debt, whatever overlaps: a request writes the value
\* it has checked, not a change of the row (add_position, adjust_cash).
NeverInDebt == \A p \in Portfolio : cash[p] >= 0

\* The balance of a portfolio is what its sales, purchases and adjustments add
\* up to, unless two of them held copies of the balance at once
\* (sell_position, add_position, adjust_cash).
CashReconciles == \A p \in Portfolio \ contended : cash[p] = books[p]

\* A position has the shares that were entered and not sold, and no share is
\* sold twice, unless two requests held copies of its row at once
\* (sell_position, modify_position, delete_position).
SharesReconcile == \A x \in PosId \ contended : held[x] + sold[x] = entered[x]

\* As long as the user waits for the answers and all arrive, a page at rest
\* shows the rows of the active portfolio and the balances as they are, and so
\* does the dialog that is open: patching the list is as good as loading it.
PageCurrent ==
    calm /\ Quiet =>
        /\ shown = Rows(active)
        /\ funds = cash
        /\ dialog.pos \in PosId => dialog.qty = held[dialog.pos]
=============================================================================
