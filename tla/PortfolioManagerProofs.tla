----------------------- MODULE PortfolioManagerProofs -----------------------
(***************************************************************************)
(* Theorems about the portfolio manager, for any number of portfolios,     *)
(* positions and requests under way: types, no debt, the books of cash and *)
(* shares, and the page that is current when its user has waited.          *)
(***************************************************************************)
EXTENDS PortfolioManager, TLAPS

-----------------------------------------------------------------------------
(* The inductive invariant.                                                *)

TypeDb ==
    /\ home \in [PosId -> Portfolio \cup {None}]
    /\ held \in [PosId -> Nat] /\ sold \in [PosId -> Nat]
    /\ cash \in [Portfolio -> Int]
    /\ entered \in [PosId -> Int] /\ books \in [Portfolio -> Int]
    /\ contended \subseteq PosId \cup Portfolio

TypePage ==
    /\ active \in Portfolio
    /\ shown \in [PosId -> Nat]
    /\ funds \in [Portfolio -> Int]
    /\ dialog \in [kind : Kind, pos : PosId \cup {None}, qty : Nat, slot : Slot \cup {None}]
    /\ events \in Nat
    /\ calm \in BOOLEAN

\* An id that has a row, or that a list or a dialog names, belongs to a portfolio.
Housed(x) == x \in PosId /\ home[x] # None
HousedList(l) == \A x \in PosId : l[x] > 0 => home[x] # None

DialogGood == dialog.kind \in {"sell", "modify"} => Housed(dialog.pos)

Live(r) == r.at \in {"sent", "found", "ready", "committed", "answered"}
Paying == {"add", "cash", "sell"}

\* What the place of a request in its handler says of it.
Shaped(r) ==
    /\ HousedList(r.list)
    /\ Live(r) /\ r.kind \in OnRow => Housed(r.pos)
    /\ r.kind = "add" /\ r.at \in {"committed", "answered"} => Housed(r.pos)
    /\ Live(r) /\ r.kind \in Paying => r.pid \in Portfolio
    /\ r.kind \in {"add", "sell", "modify"} => r.qty >= 0
    /\ r.money => r.kind \in Paying
    /\ r.at = "found" => r.kind = "sell"
    /\ r.at = "committed" => r.kind \in OnRow \cup {"add"}

\* What a handler has checked of its copy of the balance.
Covered(r) ==
    r.at = "ready" /\ r.kind \in Paying =>
        /\ r.balance >= 0
        /\ r.kind = "add" /\ r.money => r.balance >= r.qty
        /\ r.kind = "cash" => r.balance + r.qty >= 0

Good(r) == r \in Request /\ Shaped(r) /\ Covered(r)

PageInv == TypePage /\ HousedList(shown) /\ DialogGood
ServerInv ==
    /\ TypeDb /\ HousedList(held)
    /\ req \in [Slot -> Request]
    /\ \A s \in Slot : Good(req[s])
    /\ NeverInDebt

\* Two requests at work on one row: the row is contended.
Apart ==
    \A i, j \in Slot : i # j /\ Working(i) /\ Working(j) =>
        Touches(req[i]) \cap Touches(req[j]) \subseteq contended

\* The copies of what is not contended are the rows.
CashCopies ==
    \A s \in Slot : req[s].at = "ready" /\ req[s].money /\ req[s].pid \notin contended =>
        req[s].balance = cash[req[s].pid]
RowCopies ==
    \A s \in Slot : Working(s) /\ req[s].kind \in OnRow /\ req[s].pos \notin contended =>
        req[s].seen = held[req[s].pos]

CopiesInv == Apart /\ CashCopies /\ RowCopies /\ CashReconciles /\ SharesReconcile

IInv == ServerInv /\ PageInv

-----------------------------------------------------------------------------
(* The steps, by what they do to the server.                               *)

\* Only a request changes, and neither before nor after does it hold copies.
Idle(r) == r.at \notin {"found", "ready"}
Still == UNCHANGED <<db, entered, books, contended>>
Passive(s, r) == Still /\ Put(s, r) /\ Good(r) /\ Idle(r)

LEMMA BlankGood == NoRequest \in Request /\ Good(NoRequest) /\ Idle(NoRequest)
  BY NoneAssumption DEF NoRequest, Good, Request, Kind, At, Shaped, Covered, HousedList, Live, Idle,
     Loads, OnRow, Paying

LEMMA AskFields ==
  ASSUME NEW kind \in Kind, NEW p \in Portfolio \cup {None}
  PROVE  LET r == Ask(kind, p) IN
         /\ r \in Request
         /\ r.kind = kind /\ r.at = "sent" /\ r.pid = p /\ r.pos = None /\ r.qty = 0
         /\ ~r.money /\ r.seen = 0 /\ r.balance = 0
         /\ r.list = [x \in PosId |-> 0]
  BY BlankGood DEF NoRequest, Ask, Request, At

\* A request that has just been sent.
LEMMA SentGood ==
  ASSUME NEW r \in Request, r.at = "sent", HousedList(r.list),
         r.kind \in OnRow => Housed(r.pos),
         r.kind \in Paying => r.pid \in Portfolio,
         r.kind \in {"add", "sell", "modify"} => r.qty >= 0,
         r.money => r.kind \in Paying
  PROVE  Good(r) /\ Idle(r)
  BY DEF Good, Shaped, Covered, Live, Idle

LEMMA AskGood ==
  ASSUME NEW kind \in Kind, NEW p \in Portfolio \cup {None}, kind \in Paying => p \in Portfolio,
         kind \notin OnRow
  PROVE  Good(Ask(kind, p)) /\ Idle(Ask(kind, p))
<1> DEFINE r == Ask(kind, p)
<1>1. /\ r \in Request /\ r.kind = kind /\ r.at = "sent" /\ r.pid = p /\ r.qty = 0
      /\ ~r.money /\ r.list = [x \in PosId |-> 0]
  BY AskFields
<1>2. HousedList(r.list)
  BY <1>1 DEF HousedList
<1> HIDE DEF r
<1>3. Good(r) /\ Idle(r)
  BY <1>1, <1>2, SentGood
<1> QED BY <1>3 DEF r

LEMMA PutGood ==
  ASSUME NEW s \in Slot, NEW r, r \in Request, Put(s, r), req \in [Slot -> Request]
  PROVE  /\ req' \in [Slot -> Request]
         /\ req'[s] = r
         /\ \A i \in Slot \ {s} : req'[i] = req[i]
  BY DEF Put

\* As PassiveStep, of a request that may take copies.
LEMMA WriteNothing ==
  ASSUME ServerInv, NEW s \in Slot, NEW r, Put(s, r), Good(r),
         UNCHANGED <<home, held, sold, cash, entered, books>>,
         contended' \subseteq PosId \cup Portfolio
  PROVE  ServerInv'
<1>2. /\ req' \in [Slot -> Request] /\ req'[s] = r
      /\ \A i \in Slot \ {s} : req'[i] = req[i]
  BY PutGood DEF Good, ServerInv
<1>3. TypeDb' /\ HousedList(held)' /\ NeverInDebt'
  BY DEF ServerInv, TypeDb, HousedList, NeverInDebt
<1>4. \A q : Good(q) <=> Good(q)'
  BY DEF Good, Shaped, HousedList, Housed, Covered, Live
<1>5. \A i \in Slot : Good(req[i])'
  BY <1>2, <1>4 DEF ServerInv
<1> QED BY <1>2, <1>3, <1>5 DEF ServerInv

LEMMA PassiveStep ==
  ASSUME ServerInv, NEW s \in Slot, NEW r, Passive(s, r)
  PROVE  ServerInv'
  BY WriteNothing DEF Passive, Still, db, ServerInv, TypeDb

LEMMA ServerAtRest ==
  ASSUME ServerInv, UNCHANGED <<db, req, entered, books, contended>>
  PROVE  ServerInv'
<1>1. UNCHANGED <<home, held, sold, cash, entered, books, contended, req>>
  BY DEF db
<1>2. \A q : Good(q) <=> Good(q)'
  BY <1>1 DEF Good, Shaped, HousedList, Housed, Covered, Live
<1> QED BY <1>1, <1>2 DEF ServerInv, TypeDb, HousedList, NeverInDebt

-----------------------------------------------------------------------------
(* The user.                                                               *)

\* What the user can open.
Opened(d) ==
    /\ d \in [kind : Kind, pos : PosId \cup {None}, qty : Nat, slot : Slot \cup {None}]
    /\ d.kind \in {"sell", "modify"} => d.pos \in PosId

LEMMA OpenStep ==
  ASSUME IInv, NEW d, Opened(d), Open(d)
  PROVE  IInv'
<1>1. ServerInv'
  BY ServerAtRest DEF IInv, Open
<1>2. UNCHANGED <<home, active, shown, funds, events>> /\ dialog' = d /\ calm' \in BOOLEAN
  BY DEF Open, db, IInv, PageInv, TypePage, Quiet
<1>3. HousedList(shown)' /\ DialogGood'
  BY <1>2 DEF Open, IInv, PageInv, HousedList, DialogGood, Housed, Opened
<1> QED BY <1>1, <1>2, <1>3 DEF IInv, PageInv, TypePage, Opened

LEMMA OpenOnStep ==
  ASSUME IInv, NEW kind \in {"sell", "modify"}, NEW x \in PosId, OpenOn(kind, x)
  PROVE  IInv'
<1> DEFINE d == [NoDialog EXCEPT !.kind = kind, !.pos = x, !.qty = shown[x]]
<1>1. Opened(d)
  BY DEF NoDialog, Opened, Kind, IInv, PageInv, TypePage
<1>2. Open(d)
  BY DEF OpenOn
<1> QED BY <1>1, <1>2, OpenStep

LEMMA OpenNewStep ==
  ASSUME IInv, NEW kind \in {"add", "cash"}, OpenNew(kind)
  PROVE  IInv'
<1> DEFINE d == [NoDialog EXCEPT !.kind = kind]
<1>1. Opened(d)
  BY DEF NoDialog, Opened, Kind
<1>2. Open(d)
  BY DEF OpenNew
<1> QED BY <1>1, <1>2, OpenStep

LEMMA CloseStep ==
  ASSUME IInv, Close
  PROVE  IInv'
<1>1. ServerInv'
  BY ServerAtRest DEF IInv, Close, history
<1>2. UNCHANGED <<home, active, shown, funds, events, calm>> /\ dialog' = NoDialog
  BY DEF Close, db, history
<1>3. HousedList(shown)' /\ DialogGood'
  BY <1>2 DEF IInv, PageInv, HousedList, DialogGood, NoDialog
<1> QED BY <1>1, <1>2, <1>3 DEF IInv, PageInv, TypePage, NoDialog, Kind

\* A good request is sent; the dialog keeps its row.
LEMMA SendStep ==
  ASSUME IInv, NEW s \in Slot, NEW r, Good(r), Idle(r), Send(s, r),
         active' \in Portfolio, shown' \in [PosId -> Nat], HousedList(shown'), UNCHANGED funds,
         dialog' \in [kind : Kind, pos : PosId \cup {None}, qty : Nat, slot : Slot \cup {None}],
         dialog'.kind = dialog.kind, dialog'.pos = dialog.pos
  PROVE  IInv'
<1>1. Passive(s, r) /\ ServerInv
  BY DEF Send, Passive, Still, IInv
<1>2. ServerInv'
  BY <1>1, PassiveStep
<1>3. home' = home /\ events' \in Nat /\ calm' \in BOOLEAN
  BY DEF Send, db, IInv, PageInv, TypePage, Quiet
<1>4. HousedList(shown)' /\ DialogGood'
  BY <1>3 DEF IInv, PageInv, HousedList, DialogGood, Housed
<1> QED BY <1>2, <1>3, <1>4 DEF IInv, PageInv, TypePage

LEMMA SubmitStep ==
  ASSUME IInv, NEW s \in Slot, NEW r, Good(r), Idle(r), Submit(s, r)
  PROVE  IInv'
<1>1. /\ Send(s, r) /\ UNCHANGED <<active, shown, funds>>
      /\ dialog' = [dialog EXCEPT !.slot = s]
  BY DEF Submit
<1>2. /\ dialog' \in [kind : Kind, pos : PosId \cup {None}, qty : Nat, slot : Slot \cup {None}]
      /\ dialog'.kind = dialog.kind /\ dialog'.pos = dialog.pos
  BY <1>1 DEF IInv, PageInv, TypePage
<1>3. active' \in Portfolio /\ shown' \in [PosId -> Nat] /\ HousedList(shown')
  BY <1>1 DEF IInv, PageInv, TypePage, HousedList
<1> QED BY <1>1, <1>2, <1>3, SendStep

LEMMA SubmitAddStep ==
  ASSUME IInv, NEW s \in Slot, NEW n \in Nat, NEW b \in BOOLEAN, SubmitAdd(s, n, b)
  PROVE  IInv'
<1> DEFINE a == Ask("add", active)
           r == [a EXCEPT !.qty = n, !.money = b, !.list = shown]
<1>k. "add" \in Kind
  BY DEF Kind
<1>0. active \in Portfolio /\ shown \in [PosId -> Nat]
  BY DEF IInv, PageInv, TypePage
<1>n. n \in Int
  OBVIOUS
<1>1. a \in Request /\ a.kind = "add" /\ a.at = "sent" /\ a.pid = active
  BY <1>k, <1>0, AskFields
<1>2. Submit(s, r)
  BY DEF SubmitAdd
<1> HIDE DEF a
<1>3. /\ r \in Request /\ r.kind = "add" /\ r.at = "sent" /\ r.pid = active
      /\ r.qty = n /\ r.list = shown
  BY <1>n, <1>0, <1>1 DEF Request
<1> HIDE DEF r
<1>4. Good(r) /\ Idle(r)
  BY <1>3, SentGood DEF IInv, PageInv, TypePage, OnRow, Paying
<1> QED BY <1>2, <1>4, SubmitStep

LEMMA SubmitSellStep ==
  ASSUME IInv, NEW s \in Slot, NEW n \in Nat, NEW b \in BOOLEAN, SubmitSell(s, n, b)
  PROVE  IInv'
<1> DEFINE a == Ask("sell", home[dialog.pos])
           r == [a EXCEPT !.pos = dialog.pos, !.qty = n, !.money = b]
<1>0. Housed(dialog.pos) /\ home[dialog.pos] \in Portfolio
  BY DEF SubmitSell, IInv, PageInv, DialogGood, Housed, ServerInv, TypeDb
<1>k. "sell" \in Kind
  BY DEF Kind
<1>n. n \in Int
  OBVIOUS
<1>1. /\ a \in Request /\ a.kind = "sell" /\ a.at = "sent" /\ a.pid = home[dialog.pos]
      /\ a.list = [x \in PosId |-> 0]
  BY <1>k, <1>0, AskFields
<1>2. Submit(s, r)
  BY DEF SubmitSell
<1> HIDE DEF a
<1>3. /\ r \in Request /\ r.kind = "sell" /\ r.at = "sent" /\ r.pid \in Portfolio
      /\ r.qty = n /\ r.pos = dialog.pos /\ r.list = a.list
  BY <1>n, <1>0, <1>1 DEF Request, Housed
<1>h. HousedList(a.list)
  BY <1>1 DEF HousedList
<1> HIDE DEF r
<1>4. Good(r) /\ Idle(r)
  BY <1>0, <1>h, <1>3, SentGood DEF OnRow, Paying
<1> QED BY <1>2, <1>4, SubmitStep

LEMMA SubmitModifyStep ==
  ASSUME IInv, NEW s \in Slot, NEW n \in Nat, SubmitModify(s, n)
  PROVE  IInv'
<1> DEFINE a == Ask("modify", home[dialog.pos])
           r == [a EXCEPT !.pos = dialog.pos, !.qty = n]
<1>0. Housed(dialog.pos) /\ home[dialog.pos] \in Portfolio
  BY DEF SubmitModify, IInv, PageInv, DialogGood, Housed, ServerInv, TypeDb
<1>k. "modify" \in Kind
  BY DEF Kind
<1>n. n \in Int
  OBVIOUS
<1>1. /\ a \in Request /\ a.kind = "modify" /\ a.at = "sent" /\ ~a.money
      /\ a.list = [x \in PosId |-> 0]
  BY <1>k, <1>0, AskFields
<1>2. Submit(s, r)
  BY DEF SubmitModify
<1> HIDE DEF a
<1>3. /\ r \in Request /\ r.kind = "modify" /\ r.at = "sent" /\ ~r.money
      /\ r.qty = n /\ r.pos = dialog.pos /\ r.list = a.list
  BY <1>n, <1>0, <1>1 DEF Request, Housed
<1>h. HousedList(a.list)
  BY <1>1 DEF HousedList
<1> HIDE DEF r
<1>4. Good(r) /\ Idle(r)
  BY <1>0, <1>h, <1>3, SentGood DEF OnRow, Paying
<1> QED BY <1>2, <1>4, SubmitStep

LEMMA SubmitCashStep ==
  ASSUME IInv, NEW s \in Slot, NEW n \in Int, SubmitCash(s, n)
  PROVE  IInv'
<1> DEFINE a == Ask("cash", active)
           r == [a EXCEPT !.qty = n, !.money = TRUE]
<1>k. "cash" \in Kind
  BY DEF Kind
<1>0. active \in Portfolio
  BY DEF IInv, PageInv, TypePage
<1>1. /\ a \in Request /\ a.kind = "cash" /\ a.at = "sent" /\ a.pid = active
      /\ a.list = [x \in PosId |-> 0]
  BY <1>k, <1>0, AskFields
<1>2. Submit(s, r)
  BY DEF SubmitCash
<1> HIDE DEF a
<1>3. /\ r \in Request /\ r.kind = "cash" /\ r.at = "sent" /\ r.pid = active
      /\ r.list = a.list
  BY <1>1 DEF Request
<1>h. HousedList(a.list)
  BY <1>1 DEF HousedList
<1> HIDE DEF r
<1>4. Good(r) /\ Idle(r)
  BY <1>0, <1>h, <1>3, SentGood DEF OnRow, Paying
<1> QED BY <1>2, <1>4, SubmitStep

\* Requests made without a dialog.
LEMMA PageRequestStep ==
  ASSUME IInv, NEW s \in Slot, NEW r, Good(r), Idle(r), Send(s, r), UNCHANGED page
  PROVE  IInv'
<1>1. /\ active' \in Portfolio /\ shown' \in [PosId -> Nat] /\ HousedList(shown')
      /\ UNCHANGED <<funds, dialog>>
  BY DEF page, IInv, PageInv, TypePage, HousedList
<1> QED BY <1>1, SendStep DEF IInv, PageInv, TypePage

LEMMA ClickDeleteStep ==
  ASSUME IInv, NEW s \in Slot, NEW x \in PosId, ClickDelete(s, x)
  PROVE  IInv'
<1> DEFINE a == Ask("delete", home[x])
           r == [a EXCEPT !.pos = x, !.list = shown]
<1>0. Housed(x) /\ home[x] \in Portfolio /\ shown \in [PosId -> Nat]
  BY DEF ClickDelete, IInv, PageInv, HousedList, Housed, ServerInv, TypeDb, TypePage
<1>k. "delete" \in Kind
  BY DEF Kind
<1>1. a \in Request /\ a.kind = "delete" /\ a.at = "sent" /\ ~a.money
  BY <1>k, <1>0, AskFields
<1>2. Send(s, r) /\ UNCHANGED page
  BY DEF ClickDelete
<1> HIDE DEF a
<1>3. /\ r \in Request /\ r.kind = "delete" /\ r.at = "sent" /\ ~r.money
      /\ r.pos = x /\ r.list = shown
  BY <1>0, <1>1 DEF Request
<1> HIDE DEF r
<1>4. Good(r) /\ Idle(r)
  BY <1>0, <1>3, SentGood DEF OnRow, Paying, IInv, PageInv
<1> QED BY <1>2, <1>4, PageRequestStep

LEMMA PatchStep ==
  ASSUME IInv, NEW s \in Slot, NEW x \in PosId, Patch(s, x)
  PROVE  IInv'
<1> DEFINE a == Ask("patch", home[x])
           r == [a EXCEPT !.pos = x]
<1>0. Housed(x) /\ home[x] \in Portfolio
  BY DEF Patch, IInv, PageInv, HousedList, Housed, ServerInv, TypeDb
<1>k. "patch" \in Kind
  BY DEF Kind
<1>1. /\ a \in Request /\ a.kind = "patch" /\ a.at = "sent" /\ ~a.money
      /\ a.list = [y \in PosId |-> 0]
  BY <1>k, <1>0, AskFields
<1>2. Send(s, r) /\ UNCHANGED page
  BY DEF Patch
<1> HIDE DEF a
<1>3. /\ r \in Request /\ r.kind = "patch" /\ r.at = "sent" /\ ~r.money
      /\ r.pos = x /\ r.list = a.list
  BY <1>0, <1>1 DEF Request, Housed
<1>h. HousedList(a.list)
  BY <1>1 DEF HousedList
<1> HIDE DEF r
<1>4. Good(r) /\ Idle(r)
  BY <1>0, <1>h, <1>3, SentGood DEF OnRow, Paying
<1> QED BY <1>2, <1>4, PageRequestStep

LEMMA SelectStep ==
  ASSUME IInv, NEW s \in Slot, NEW p \in Portfolio, Select(s, p)
  PROVE  IInv'
<1> DEFINE r == Ask("positions", p)
<1>1. Good(r) /\ Idle(r)
  BY AskGood DEF Kind, Loads, OnRow, Paying
<1>2. /\ Send(s, r) /\ UNCHANGED <<funds, dialog>> /\ active' = p
      /\ shown' = [x \in PosId |-> 0]
  BY DEF Select
<1> HIDE DEF r
<1>3. shown' \in [PosId -> Nat] /\ HousedList(shown')
  BY <1>2 DEF HousedList
<1> QED BY <1>1, <1>2, <1>3, SendStep DEF IInv, PageInv, TypePage

LEMMA UserStep ==
  ASSUME IInv, User
  PROVE  IInv'
<1>1. Qty \subseteq Nat
  BY BoundsAssumption DEF Qty
<1>2. CASE \E x \in PosId : OpenOn("sell", x) \/ OpenOn("modify", x)
  BY <1>2, OpenOnStep
<1>3. CASE OpenNew("add") \/ OpenNew("cash") \/ Close
  BY <1>3, OpenNewStep, CloseStep
<1>4. CASE \E s \in Slot, n \in Qty, b \in BOOLEAN : SubmitAdd(s, n, b) \/ SubmitSell(s, n, b)
  BY <1>1, <1>4, SubmitAddStep, SubmitSellStep
<1>5. CASE \E s \in Slot, n \in Qty : SubmitModify(s, n) \/ SubmitCash(s, n) \/ SubmitCash(s, -n)
  BY <1>1, <1>5, SubmitModifyStep, SubmitCashStep
<1>6. CASE \E s \in Slot, x \in PosId : ClickDelete(s, x) \/ Patch(s, x)
  BY <1>6, ClickDeleteStep, PatchStep
<1>7. CASE \E s \in Slot, p \in Portfolio : Select(s, p)
  BY <1>7, SelectStep
<1> QED BY <1>2, <1>3, <1>4, <1>5, <1>6, <1>7 DEF User

-----------------------------------------------------------------------------
(* Steps of the endpoints and of the network that write nothing.           *)

LEMMA PageAtRest ==
  ASSUME PageInv, UNCHANGED page, events' \in Nat, calm' \in BOOLEAN,
         \A x \in PosId : home[x] # None => home'[x] # None
  PROVE  PageInv'
<1>1. UNCHANGED <<active, shown, funds, dialog>>
  BY DEF page
<1>2. HousedList(shown)' /\ DialogGood'
  BY <1>1 DEF PageInv, HousedList, DialogGood, Housed
<1> QED BY <1>1, <1>2 DEF PageInv, TypePage

LEMMA QuietStep ==
  ASSUME IInv, NEW s \in Slot, NEW r, Passive(s, r), UNCHANGED page,
         events' \in Nat, calm' \in BOOLEAN
  PROVE  IInv'
<1>1. ServerInv'
  BY PassiveStep DEF IInv
<1>2. home' = home
  BY DEF Passive, Still, db
<1> QED BY <1>1, <1>2, PageAtRest DEF IInv

LEMMA FailGood ==
  ASSUME ServerInv, NEW s \in Slot
  PROVE  LET r == [NoRequest EXCEPT !.kind = req[s].kind, !.at = "failed"] IN Good(r) /\ Idle(r)
<1> DEFINE r == [NoRequest EXCEPT !.kind = req[s].kind, !.at = "failed"]
<1>1. req[s].kind \in Kind
  BY DEF ServerInv, Request
<1>2. /\ r \in Request /\ r.at = "failed" /\ r.list = [x \in PosId |-> 0]
      /\ r.qty = 0 /\ ~r.money
  BY <1>1, BlankGood DEF NoRequest, Request, At
<1>3. HousedList(r.list)
  BY <1>2 DEF HousedList
<1> HIDE DEF r
<1>4. Good(r) /\ Idle(r)
  BY <1>2, <1>3 DEF Good, Shaped, Covered, Live, Idle
<1> QED BY <1>4 DEF r

LEMMA ServeStep ==
  ASSUME IInv, NEW s \in Slot, Serve(s)
  PROVE  IInv'
<1> DEFINE q == req[s]
           l == IF q.kind = "positions" THEN Rows(q.pid) ELSE q.list
           b == IF q.kind = "balances" THEN cash ELSE q.balances
           r == [q EXCEPT !.at = "answered", !.list = l, !.balances = b]
<1>1. q \in Request /\ Good(q) /\ q.kind \in Loads
  BY DEF IInv, ServerInv, Serve
<1>2. Rows(q.pid) \in [PosId -> Nat] /\ HousedList(Rows(q.pid)) /\ cash \in [Portfolio -> Int]
  BY DEF Rows, HousedList, IInv, ServerInv, TypeDb
<1>3. Put(s, r) /\ UNCHANGED <<db, page, events, history>>
  BY DEF Serve
<1> HIDE DEF q
<1>4. l \in [PosId -> Nat] /\ HousedList(l) /\ b \in [Portfolio -> Int]
  BY <1>1, <1>2 DEF Request, Good, Shaped
<1> HIDE DEF l, b
<1>5. /\ r \in Request /\ r.at = "answered" /\ r.list = l
      /\ r.kind = q.kind /\ r.money = q.money
  BY <1>1, <1>4 DEF Request, At
<1> HIDE DEF r
<1>6. Good(r) /\ Idle(r)
  BY <1>1, <1>4, <1>5 DEF Good, Shaped, Covered, Idle, Live, Loads, OnRow, Paying
<1>7. Passive(s, r) /\ UNCHANGED page /\ events' \in Nat /\ calm' \in BOOLEAN
  BY <1>3, <1>6 DEF Passive, Still, history, IInv, PageInv, TypePage
<1> QED BY <1>7, QuietStep

LEMMA FailStep ==
  ASSUME IInv, NEW s \in Slot, Fail(s), UNCHANGED <<db, page, entered, books, contended>>,
         events' \in Nat, calm' \in BOOLEAN
  PROVE  IInv'
<1> DEFINE r == [NoRequest EXCEPT !.kind = req[s].kind, !.at = "failed"]
<1>1. Good(r) /\ Idle(r)
  BY FailGood DEF IInv
<1>2. Put(s, r)
  BY DEF Fail
<1> HIDE DEF r
<1>3. Passive(s, r)
  BY <1>1, <1>2 DEF Passive, Still
<1> QED BY <1>3, QuietStep

LEMMA RollBackStep ==
  ASSUME IInv, NEW s \in Slot, RollBack(s)
  PROVE  IInv'
<1>1. Fail(s) /\ UNCHANGED <<db, page, events, entered, books, contended, calm>>
  BY DEF RollBack, history
<1> QED BY <1>1, FailStep DEF IInv, PageInv, TypePage

LEMMA LoseStep ==
  ASSUME IInv, NEW s \in Slot, Lose(s)
  PROVE  IInv'
<1>1. Fail(s) /\ UNCHANGED <<db, page, entered, books, contended>>
  BY DEF Lose
<1>2. events' \in Nat
  BY DEF Lose, IInv, PageInv, TypePage
<1>3. calm' \in BOOLEAN
  BY DEF Lose
<1> QED BY <1>1, <1>2, <1>3, FailStep

LEMMA RefreshStep ==
  ASSUME IInv, NEW s \in Slot, Refresh(s)
  PROVE  IInv'
<1> DEFINE q == req[s]
           now == held[q.pos]
           a == IF now = 0 THEN "failed" ELSE "answered"
           r == [q EXCEPT !.seen = now, !.at = a]
<1>1. q \in Request /\ Good(q) /\ q.at = "committed" /\ held \in [PosId -> Nat]
  BY DEF IInv, ServerInv, TypeDb, Refresh
<1>3. Put(s, r) /\ UNCHANGED <<db, page, events, history>>
  BY DEF Refresh
<1> HIDE DEF q
<1>4. Housed(q.pos) /\ now \in Nat /\ a \in {"failed", "answered"}
  BY <1>1 DEF Good, Shaped, Live, Housed
<1> HIDE DEF now, a
<1>5. /\ r \in Request /\ r.at = a /\ r.list = q.list /\ r.pos = q.pos /\ r.pid = q.pid
      /\ r.qty = q.qty /\ r.kind = q.kind /\ r.money = q.money
  BY <1>1, <1>4 DEF Request, At
<1> HIDE DEF r
<1>6. Good(r) /\ Idle(r)
  BY <1>1, <1>4, <1>5 DEF Good, Shaped, Covered, Idle, Live
<1>7. Passive(s, r) /\ UNCHANGED page /\ events' \in Nat /\ calm' \in BOOLEAN
  BY <1>3, <1>6 DEF Passive, Still, history, IInv, PageInv, TypePage
<1> QED BY <1>7, QuietStep

-----------------------------------------------------------------------------
(* The answers.                                                            *)

\* What an answer may do to the page.
PageStays ==
    /\ UNCHANGED <<active, events, calm>>
    /\ shown' \in [PosId -> Nat] /\ HousedList(shown')
    /\ funds' \in [Portfolio -> Int]
    /\ dialog' = dialog \/ dialog' = NoDialog \/ dialog' = [dialog EXCEPT !.slot = None]

LEMMA AnswerStep ==
  ASSUME IInv, NEW s \in Slot, Done(s) \/ Reload(s), Still, PageStays
  PROVE  IInv'
<1>1. \E r : Passive(s, r)
  <2>1. CASE Done(s)
    BY <2>1, BlankGood DEF Done, Passive
  <2>2. CASE Reload(s)
    <3>1. "balances" \in Kind /\ "balances" \notin Paying \cup OnRow
      BY DEF Kind, Loads, OnRow, Paying
    <3>2. Good(Ask("balances", None)) /\ Idle(Ask("balances", None))
      BY <3>1, AskGood
    <3> QED BY <2>2, <3>2 DEF Reload, Passive
  <2> QED BY <2>1, <2>2
<1>2. ServerInv'
  BY <1>1, PassiveStep DEF IInv
<1>3. home' = home
  BY DEF Still, db
<1>4. /\ dialog' \in [kind : Kind, pos : PosId \cup {None}, qty : Nat, slot : Slot \cup {None}]
      /\ DialogGood'
  BY <1>3 DEF PageStays, IInv, PageInv, TypePage, DialogGood, Housed, NoDialog, Kind
<1>5. TypePage' /\ HousedList(shown)'
  BY <1>3, <1>4 DEF PageStays, IInv, PageInv, TypePage, HousedList
<1> QED BY <1>2, <1>4, <1>5 DEF IInv, PageInv

LEMMA AnsweredFacts ==
  ASSUME IInv, NEW s \in Slot, NEW kind, Answered(s, kind)
  PROVE  /\ Still /\ UNCHANGED <<active, events, calm>>
         /\ req[s] \in Request /\ Good(req[s]) /\ req[s].kind = kind /\ req[s].at = "answered"
         /\ shown \in [PosId -> Nat] /\ HousedList(shown) /\ funds \in [Portfolio -> Int]
  BY DEF Answered, Still, history, IInv, ServerInv, PageInv, TypePage

LEMMA PatchedGood ==
  ASSUME NEW r \in Request, shown \in [PosId -> Nat], HousedList(shown)
  PROVE  Patched(r) \in [PosId -> Nat] /\ HousedList(Patched(r))
<1>1. r.seen \in Nat
  BY DEF Request
<1>2. \A x \in PosId : Patched(r)[x] = IF x = r.pos /\ shown[x] # 0 THEN r.seen ELSE shown[x]
  BY DEF Patched
<1>3. Patched(r) \in [PosId -> Nat]
  BY <1>1 DEF Patched
<1>4. HousedList(Patched(r))
  BY <1>1, <1>2 DEF HousedList
<1> QED BY <1>3, <1>4

LEMMA ClosesGood ==
  ASSUME NEW kind, Closes(kind)
  PROVE  dialog' = dialog \/ dialog' = NoDialog
  BY DEF Closes

LEMMA ReceiveStep ==
  ASSUME IInv, NEW s \in Slot, Receive(s)
  PROVE  IInv'
<1>1. CASE ReceivePositions(s)
  <2>1. /\ Answered(s, "positions") /\ Done(s)
        /\ shown' = req[s].list /\ UNCHANGED <<funds, dialog>>
    BY <1>1 DEF ReceivePositions
  <2>2. PageStays /\ Still
    BY <2>1, AnsweredFacts DEF PageStays, Good, Shaped, Request
  <2> QED BY <2>1, <2>2, AnswerStep
<1>2. CASE ReceiveBalances(s)
  <2>1. /\ Answered(s, "balances") /\ Done(s)
        /\ funds' = req[s].balances /\ UNCHANGED <<shown, dialog>>
    BY <1>2 DEF ReceiveBalances
  <2>2. PageStays /\ Still
    BY <2>1, AnsweredFacts DEF PageStays, Request
  <2> QED BY <2>1, <2>2, AnswerStep
<1>3. CASE ReceiveAdd(s)
  <2>1. /\ Answered(s, "add") /\ Reload(s) /\ Closes("add") /\ UNCHANGED funds
        /\ shown' = [req[s].list EXCEPT ![req[s].pos] = req[s].seen]
    BY <1>3 DEF ReceiveAdd
  <2>2. shown' \in [PosId -> Nat] /\ HousedList(shown')
    BY <2>1, AnsweredFacts DEF Good, Shaped, Request, HousedList, Housed
  <2>3. PageStays /\ Still
    BY <2>1, <2>2, AnsweredFacts, ClosesGood DEF PageStays
  <2> QED BY <2>1, <2>3, AnswerStep
<1>4. CASE ReceiveSell(s)
  <2>1. Answered(s, "sell") /\ Reload(s) /\ Closes("sell") /\ UNCHANGED funds /\ shown' = Patched(req[s])
    BY <1>4 DEF ReceiveSell
  <2>2. PageStays /\ Still
    BY <2>1, AnsweredFacts, PatchedGood, ClosesGood DEF PageStays
  <2> QED BY <2>1, <2>2, AnswerStep
<1>5. CASE ReceiveModify(s)
  <2>1. Answered(s, "modify") /\ Done(s) /\ Closes("modify") /\ UNCHANGED funds /\ shown' = Patched(req[s])
    BY <1>5 DEF ReceiveModify
  <2>2. PageStays /\ Still
    BY <2>1, AnsweredFacts, PatchedGood, ClosesGood DEF PageStays
  <2> QED BY <2>1, <2>2, AnswerStep
<1>6. CASE ReceivePatch(s)
  <2>1. Answered(s, "patch") /\ Done(s) /\ UNCHANGED <<funds, dialog>> /\ shown' = Patched(req[s])
    BY <1>6 DEF ReceivePatch
  <2>2. PageStays /\ Still
    BY <2>1, AnsweredFacts, PatchedGood DEF PageStays
  <2> QED BY <2>1, <2>2, AnswerStep
<1>7. CASE ReceiveDelete(s)
  <2>1. /\ Answered(s, "delete") /\ Done(s) /\ UNCHANGED <<funds, dialog>>
        /\ shown' = [req[s].list EXCEPT ![req[s].pos] = 0]
    BY <1>7 DEF ReceiveDelete
  <2>l. req[s].list \in [PosId -> Nat] /\ HousedList(req[s].list)
    BY <2>1, AnsweredFacts DEF Good, Shaped, Request
  <2>m. shown' \in [PosId -> Nat] /\ \A x \in PosId : shown'[x] \in {0, req[s].list[x]}
    BY <2>1, <2>l
  <2>2. shown' \in [PosId -> Nat] /\ HousedList(shown')
    BY <2>m, <2>l DEF HousedList
  <2>3. PageStays /\ Still
    BY <2>1, <2>2, AnsweredFacts DEF PageStays
  <2> QED BY <2>1, <2>3, AnswerStep
<1>8. CASE ReceiveCash(s)
  <2>1. Answered(s, "cash") /\ Reload(s) /\ Closes("cash") /\ UNCHANGED <<shown, funds>>
    BY <1>8 DEF ReceiveCash
  <2>2. PageStays /\ Still
    BY <2>1, AnsweredFacts, ClosesGood DEF PageStays
  <2> QED BY <2>1, <2>2, AnswerStep
<1>9. CASE ReceiveError(s)
  <2>1. /\ Done(s) /\ UNCHANGED <<db, active, shown, funds, events, entered, books, contended, calm>>
        /\ dialog' = dialog \/ dialog' = [dialog EXCEPT !.slot = None]
    BY <1>9 DEF ReceiveError, history
  <2>2. PageStays /\ Still
    BY <2>1 DEF PageStays, Still, IInv, PageInv, TypePage, HousedList
  <2> QED BY <2>1, <2>2, AnswerStep
<1> QED BY <1>1, <1>2, <1>3, <1>4, <1>5, <1>6, <1>7, <1>8, <1>9 DEF Receive

-----------------------------------------------------------------------------
(* Steps that load or write rows.                                          *)

LEMMA LoadPositionStep ==
  ASSUME IInv, NEW s \in Slot, LoadPosition(s)
  PROVE  IInv'
<1> DEFINE q == req[s]
           n == held[q.pos]
           a == IF n = 0 THEN "failed" ELSE IF q.kind = "sell" THEN "found" ELSE "ready"
           r == [q EXCEPT !.seen = n, !.at = a]
<1>1. /\ q \in Request /\ Good(q) /\ q.at = "sent" /\ q.kind \in OnRow
      /\ held \in [PosId -> Nat]
  BY DEF IInv, ServerInv, TypeDb, LoadPosition
<1>2. /\ Put(s, r) /\ UNCHANGED <<home, held, sold, cash, entered, books, page, events, calm>>
      /\ contended' = Contention(s)
  BY DEF LoadPosition, db
<1>3. contended' \subseteq PosId \cup Portfolio
  <2>1. Touches(q) \subseteq PosId \cup Portfolio
    BY <1>1 DEF Touches, Good, Shaped, Live, Housed, OnRow
  <2> QED BY <1>2, <2>1 DEF Contention, IInv, ServerInv, TypeDb
<1> HIDE DEF q
<1>4. Housed(q.pos) /\ n \in Nat /\ (q.kind = "sell" => a \in {"failed", "found"})
      /\ a \in {"failed", "found", "ready"} /\ (a = "found" => q.kind = "sell")
  BY <1>1 DEF Good, Shaped, Live, Housed
<1> HIDE DEF n, a
<1>5. /\ r \in Request /\ r.at = a /\ r.list = q.list /\ r.pos = q.pos /\ r.pid = q.pid
      /\ r.qty = q.qty /\ r.kind = q.kind /\ r.money = q.money
  BY <1>1, <1>4 DEF Request, At
<1> HIDE DEF r
<1>6. Good(r)
  BY <1>1, <1>4, <1>5 DEF Good, Shaped, Covered, Live, OnRow, Paying
<1>7. ServerInv'
  BY <1>2, <1>3, <1>6, WriteNothing DEF IInv
<1>8. PageInv'
  BY <1>2, PageAtRest DEF IInv, PageInv, TypePage
<1> QED BY <1>7, <1>8 DEF IInv

LEMMA LoadPortfolioStep ==
  ASSUME IInv, NEW s \in Slot, LoadPortfolio(s)
  PROVE  IInv'
<1> DEFINE q == req[s]
           b == cash[q.pid]
           refused == \/ q.kind = "add" /\ q.money /\ b < q.qty
                      \/ q.kind = "cash" /\ b + q.qty < 0
           a == IF refused THEN "failed" ELSE "ready"
           r == [q EXCEPT !.balance = b, !.at = a]
<1>1. /\ q \in Request /\ Good(q) /\ q.kind \in Paying /\ q.at \in {"sent", "found"}
      /\ cash \in [Portfolio -> Int] /\ NeverInDebt
  BY DEF IInv, ServerInv, TypeDb, LoadPortfolio, Good, Shaped, Paying
<1>2. /\ Put(s, r) /\ UNCHANGED <<home, held, sold, cash, entered, books, page, events, calm>>
      /\ contended' = Contention(s)
  BY DEF LoadPortfolio, db
<1>3. contended' \subseteq PosId \cup Portfolio
  <2>1. Touches(q) \subseteq PosId \cup Portfolio
    BY <1>1 DEF Touches, Good, Shaped, Live, Housed, OnRow
  <2> QED BY <1>2, <2>1 DEF Contention, IInv, ServerInv, TypeDb
<1> HIDE DEF q
<1>4. q.pid \in Portfolio /\ b \in Int /\ b >= 0 /\ a \in {"failed", "ready"}
  BY <1>1 DEF Good, Shaped, Live, NeverInDebt
<1>c. a = "ready" => /\ q.kind = "add" /\ q.money => b >= q.qty
                     /\ q.kind = "cash" => b + q.qty >= 0
  BY <1>1, <1>4 DEF Request
<1> HIDE DEF b, a, refused
<1>5. /\ r \in Request /\ r.at = a /\ r.list = q.list /\ r.pos = q.pos /\ r.pid = q.pid
      /\ r.qty = q.qty /\ r.kind = q.kind /\ r.money = q.money /\ r.balance = b
  BY <1>1, <1>4 DEF Request, At
<1> HIDE DEF r
<1>6. Good(r)
  BY <1>1, <1>4, <1>5, <1>c DEF Good, Shaped, Covered, Live
<1>7. ServerInv'
  BY <1>2, <1>3, <1>6, WriteNothing DEF IInv
<1>8. PageInv'
  BY <1>2, PageAtRest DEF IInv, PageInv, TypePage
<1> QED BY <1>7, <1>8 DEF IInv

LEMMA PayKeeps ==
  ASSUME ServerInv, NEW s \in Slot, NEW amount \in Int, Pay(s, amount),
         req[s].money => req[s].pid \in Portfolio /\ req[s].balance + amount >= 0
  PROVE  cash' \in [Portfolio -> Int] /\ books' \in [Portfolio -> Int] /\ NeverInDebt'
<1>1. /\ cash \in [Portfolio -> Int] /\ books \in [Portfolio -> Int]
      /\ \A p \in Portfolio : cash[p] >= 0
      /\ req[s].balance \in Int
  BY DEF ServerInv, TypeDb, NeverInDebt, Request
<1>2. CASE ~req[s].money
  BY <1>1, <1>2 DEF Pay, NeverInDebt
<1>3. CASE req[s].money
  <2>1. /\ cash' = [cash EXCEPT ![req[s].pid] = req[s].balance + amount]
        /\ books' = [books EXCEPT ![req[s].pid] = books[req[s].pid] + amount]
    BY <1>3 DEF Pay
  <2> QED BY <1>1, <1>3, <2>1 DEF NeverInDebt
<1> QED BY <1>2, <1>3

\* A commit leaves the request good and the tables typed.
LEMMA CommitStep ==
  ASSUME IInv, NEW s \in Slot, NEW r, Put(s, r), Good(r), UNCHANGED home,
         TypeDb', HousedList(held'), NeverInDebt', UNCHANGED <<page, events, calm>>
  PROVE  IInv'
<1>2. /\ req' \in [Slot -> Request] /\ req'[s] = r
      /\ \A i \in Slot \ {s} : req'[i] = req[i]
  BY PutGood DEF Good, IInv, ServerInv
<1>4. \A q : Good(q) <=> Good(q)'
  BY DEF Good, Shaped, HousedList, Housed, Covered, Live
<1>5. \A i \in Slot : Good(req[i])'
  BY <1>2, <1>4 DEF IInv, ServerInv
<1>6. HousedList(held)'
  BY DEF HousedList
<1>7. PageInv'
  BY PageAtRest DEF IInv, PageInv, TypePage
<1> QED BY <1>2, <1>5, <1>6, <1>7 DEF IInv, ServerInv

\* What is known of a request that is ready, and of one that is answered next.
LEMMA ReadyFacts ==
  ASSUME IInv, NEW s \in Slot, req[s].at = "ready"
  PROVE  /\ req[s] \in Request /\ Good(req[s])
         /\ req[s].seen \in Nat /\ req[s].qty \in Int /\ req[s].balance \in Int
         /\ req[s].kind \in OnRow => Housed(req[s].pos)
         /\ req[s].kind \in Paying => req[s].pid \in Portfolio
         /\ req[s].money => req[s].kind \in Paying
         /\ req[s].kind \in {"add", "sell", "modify"} => req[s].qty >= 0
         /\ req[s].kind \in Paying => req[s].balance >= 0
         /\ req[s].kind = "add" /\ req[s].money => req[s].balance >= req[s].qty
         /\ req[s].kind = "cash" => req[s].balance + req[s].qty >= 0
<1>1. req[s] \in Request /\ Good(req[s])
  BY DEF IInv, ServerInv
<1>2. req[s].seen \in Nat /\ req[s].qty \in Int /\ req[s].balance \in Int
  BY <1>1 DEF Request
<1>3. Shaped(req[s]) /\ Covered(req[s])
  BY <1>1 DEF Good
<1>4. /\ req[s].kind \in OnRow => Housed(req[s].pos)
      /\ req[s].kind \in Paying => req[s].pid \in Portfolio
      /\ req[s].money => req[s].kind \in Paying
      /\ req[s].kind \in {"add", "sell", "modify"} => req[s].qty >= 0
  BY <1>3 DEF Shaped, Live
<1>5. "add" \in Paying /\ "cash" \in Paying
  BY DEF Paying
<1>6. /\ req[s].kind \in Paying => req[s].balance >= 0
      /\ req[s].kind = "add" /\ req[s].money => req[s].balance >= req[s].qty
      /\ req[s].kind = "cash" => req[s].balance + req[s].qty >= 0
  BY <1>3, <1>5 DEF Covered
<1> QED BY <1>1, <1>2, <1>4, <1>6

LEMMA NextGood ==
  ASSUME NEW q \in Request, Good(q), q.at = "ready",
         NEW at \in {"committed", "answered"},
         q.kind # "add", at = "committed" => q.kind \in OnRow
  PROVE  Good([q EXCEPT !.at = at]) /\ Good([q EXCEPT !.at = at, !.seen = 0])
<1>1. ASSUME NEW r \in Request, r.at = at, r.list = q.list, r.pos = q.pos, r.pid = q.pid,
             r.qty = q.qty, r.kind = q.kind, r.money <=> q.money
      PROVE  Good(r)
  BY <1>1 DEF Good, Shaped, Covered, Live
<1> DEFINE r1 == [q EXCEPT !.at = at]
           r2 == [q EXCEPT !.at = at, !.seen = 0]
<1>2. /\ r1 \in Request /\ r1.at = at /\ r1.list = q.list /\ r1.pos = q.pos /\ r1.pid = q.pid
      /\ r1.qty = q.qty /\ r1.kind = q.kind /\ (r1.money <=> q.money)
  BY DEF Request, At
<1>3. /\ r2 \in Request /\ r2.at = at /\ r2.list = q.list /\ r2.pos = q.pos /\ r2.pid = q.pid
      /\ r2.qty = q.qty /\ r2.kind = q.kind /\ (r2.money <=> q.money)
  BY DEF Request, At
<1> HIDE DEF r1, r2
<1>4. Good(r1) /\ Good(r2)
  BY <1>1, <1>2, <1>3
<1> QED BY <1>4 DEF r1, r2

LEMMA CommitCashStep ==
  ASSUME IInv, NEW s \in Slot, CommitCash(s)
  PROVE  IInv'
<1> DEFINE r == [req[s] EXCEPT !.at = "answered"]
<1>1. /\ req[s].at = "ready" /\ req[s].kind = "cash" /\ Pay(s, req[s].qty) /\ Put(s, r)
      /\ UNCHANGED <<home, held, sold, page, events, entered, contended, calm>>
  BY DEF CommitCash, Then
<1>2. Good(r)
  BY <1>1, ReadyFacts, NextGood
<1> HIDE DEF r
<1>3. cash' \in [Portfolio -> Int] /\ books' \in [Portfolio -> Int] /\ NeverInDebt'
  BY <1>1, ReadyFacts, PayKeeps DEF IInv, Paying
<1>4. TypeDb' /\ HousedList(held')
  BY <1>1, <1>3 DEF IInv, ServerInv, TypeDb, HousedList
<1> QED BY <1>1, <1>2, <1>3, <1>4, CommitStep

LEMMA CommitFullSaleStep ==
  ASSUME IInv, NEW s \in Slot, CommitFullSale(s)
  PROVE  IInv'
<1> DEFINE r == [req[s] EXCEPT !.at = "answered", !.seen = 0]
<1>1. /\ req[s].at = "ready" /\ req[s].kind = "sell" /\ Pay(s, req[s].seen) /\ Put(s, r)
      /\ held' = [held EXCEPT ![req[s].pos] = 0]
      /\ sold' = [sold EXCEPT ![req[s].pos] = sold[req[s].pos] + req[s].seen]
      /\ UNCHANGED <<home, page, events, entered, contended, calm>>
  BY DEF CommitFullSale
<1>2. Good(r)
  BY <1>1, ReadyFacts, NextGood
<1> HIDE DEF r
<1>k. req[s].kind \in Paying \cap OnRow
  BY <1>1 DEF Paying, OnRow
<1>3. cash' \in [Portfolio -> Int] /\ books' \in [Portfolio -> Int] /\ NeverInDebt'
  BY <1>1, <1>k, ReadyFacts, PayKeeps DEF IInv
<1>t. held \in [PosId -> Nat] /\ sold \in [PosId -> Nat] /\ HousedList(held)
  BY DEF IInv, ServerInv, TypeDb
<1>r. req[s].pos \in PosId /\ req[s].seen \in Nat
  BY <1>1, <1>k, ReadyFacts DEF Housed
<1>4. /\ held' \in [PosId -> Nat] /\ sold' \in [PosId -> Nat]
      /\ \A x \in PosId : held'[x] \in {0, held[x]}
  BY <1>1, <1>t, <1>r
<1>5. TypeDb' /\ HousedList(held')
  BY <1>1, <1>3, <1>4, <1>t DEF IInv, ServerInv, TypeDb, HousedList
<1> QED BY <1>1, <1>2, <1>3, <1>5, CommitStep

LEMMA CommitPartialSaleStep ==
  ASSUME IInv, NEW s \in Slot, CommitPartialSale(s)
  PROVE  IInv'
<1> DEFINE r == [req[s] EXCEPT !.at = "committed"]
<1>1. /\ req[s].at = "ready" /\ req[s].kind = "sell" /\ Pay(s, req[s].qty) /\ Put(s, r)
      /\ req[s].qty < req[s].seen
      /\ held' = [held EXCEPT ![req[s].pos] = req[s].seen - req[s].qty]
      /\ sold' = [sold EXCEPT ![req[s].pos] = sold[req[s].pos] + req[s].qty]
      /\ UNCHANGED <<home, page, events, entered, contended, calm>>
  BY DEF CommitPartialSale, Then
<1>k. req[s].kind \in Paying \cap OnRow
  BY <1>1 DEF Paying, OnRow
<1>2. Good(r)
  BY <1>1, <1>k, ReadyFacts, NextGood
<1> HIDE DEF r
<1>r. Housed(req[s].pos) /\ req[s].seen \in Nat /\ req[s].qty \in Nat
  BY <1>1, <1>k, ReadyFacts
<1>3. cash' \in [Portfolio -> Int] /\ books' \in [Portfolio -> Int] /\ NeverInDebt'
  BY <1>1, <1>k, <1>r, ReadyFacts, PayKeeps DEF IInv
<1>t. held \in [PosId -> Nat] /\ sold \in [PosId -> Nat] /\ HousedList(held)
  BY DEF IInv, ServerInv, TypeDb
<1>4. held' \in [PosId -> Nat] /\ sold' \in [PosId -> Nat]
  BY <1>1, <1>t, <1>r DEF Housed
<1>5. HousedList(held')
  BY <1>1, <1>t, <1>r DEF HousedList, Housed
<1>6. TypeDb'
  BY <1>1, <1>3, <1>4 DEF IInv, ServerInv, TypeDb
<1> QED BY <1>1, <1>2, <1>3, <1>5, <1>6, CommitStep

LEMMA CommitModifyStep ==
  ASSUME IInv, NEW s \in Slot, CommitModify(s)
  PROVE  IInv'
<1> DEFINE r == [req[s] EXCEPT !.at = "committed"]
           other == req[s].kind = "modify" /\ req[s].qty # req[s].seen
           more == IF other THEN req[s].qty - req[s].seen ELSE 0
<1>1. /\ req[s].at = "ready" /\ req[s].kind \in {"modify", "patch"} /\ Put(s, r)
      /\ held' = IF other THEN [held EXCEPT ![req[s].pos] = req[s].qty] ELSE held
      /\ entered' = [entered EXCEPT ![req[s].pos] = entered[req[s].pos] + more]
      /\ UNCHANGED <<home, sold, cash, page, events, books, contended, calm>>
  BY DEF CommitModify, Then, Enter
<1>k. req[s].kind \in OnRow /\ req[s].kind # "add"
  BY <1>1 DEF OnRow
<1>2. Good(r)
  BY <1>1, <1>k, ReadyFacts, NextGood
<1> HIDE DEF r
<1>r. /\ Housed(req[s].pos) /\ req[s].seen \in Nat /\ req[s].qty \in Int
      /\ other => req[s].qty \in Nat
  BY <1>1, <1>k, ReadyFacts
<1>m. more \in Int
  BY <1>r
<1> HIDE DEF more, other
<1>t. /\ held \in [PosId -> Nat] /\ entered \in [PosId -> Int] /\ HousedList(held)
      /\ cash \in [Portfolio -> Int] /\ NeverInDebt
  BY DEF IInv, ServerInv, TypeDb
<1>4. held' \in [PosId -> Nat]
  BY <1>1, <1>t, <1>r DEF Housed
<1>n. req[s].pos \in PosId /\ entered[req[s].pos] + more \in Int
  BY <1>t, <1>m, <1>r DEF Housed
<1>e. entered' \in [PosId -> Int]
  BY <1>1, <1>t, <1>n
<1>5. HousedList(held')
  BY <1>1, <1>t, <1>r DEF HousedList, Housed
<1>6. TypeDb' /\ NeverInDebt'
  BY <1>1, <1>4, <1>e, <1>t DEF IInv, ServerInv, TypeDb, NeverInDebt
<1> QED BY <1>1, <1>2, <1>5, <1>6, CommitStep

LEMMA CommitDeleteStep ==
  ASSUME IInv, NEW s \in Slot, CommitDelete(s)
  PROVE  IInv'
<1> DEFINE r == [req[s] EXCEPT !.at = "answered"]
<1>1. /\ req[s].at = "ready" /\ req[s].kind = "delete" /\ Put(s, r)
      /\ held' = [held EXCEPT ![req[s].pos] = 0]
      /\ entered' = [entered EXCEPT ![req[s].pos] = entered[req[s].pos] + (-req[s].seen)]
      /\ UNCHANGED <<home, sold, cash, page, events, books, contended, calm>>
  BY DEF CommitDelete, Then, Enter
<1>2. Good(r)
  BY <1>1, ReadyFacts, NextGood
<1> HIDE DEF r
<1>t. /\ held \in [PosId -> Nat] /\ entered \in [PosId -> Int] /\ HousedList(held)
      /\ cash \in [Portfolio -> Int] /\ NeverInDebt /\ req[s].seen \in Nat
  BY <1>1, ReadyFacts DEF IInv, ServerInv, TypeDb
<1>n. req[s].pos \in PosId /\ entered[req[s].pos] + (-req[s].seen) \in Int
  BY <1>1, <1>t, ReadyFacts DEF Housed, OnRow
<1>4. /\ held' \in [PosId -> Nat] /\ entered' \in [PosId -> Int]
      /\ \A x \in PosId : held'[x] \in {0, held[x]}
  BY <1>1, <1>t, <1>n
<1>5. HousedList(held')
  BY <1>4, <1>t DEF HousedList
<1>6. TypeDb' /\ NeverInDebt'
  BY <1>1, <1>4, <1>t DEF IInv, ServerInv, TypeDb, NeverInDebt
<1> QED BY <1>1, <1>2, <1>5, <1>6, CommitStep

LEMMA CommitAddStep ==
  ASSUME IInv, NEW s \in Slot, NEW x \in PosId, CommitAdd(s, x)
  PROVE  IInv'
<1> PICK q : q = req[s]
  OBVIOUS
<1> PICK r : r = [q EXCEPT !.at = "committed", !.pos = x]
  OBVIOUS
<1>1. /\ q.at = "ready" /\ q.kind = "add" /\ home[x] = None
      /\ home' = [home EXCEPT ![x] = q.pid]
      /\ held' = [held EXCEPT ![x] = q.qty]
      /\ entered' = [entered EXCEPT ![x] = entered[x] + q.qty]
      /\ Pay(s, -q.qty) /\ Put(s, r)
      /\ UNCHANGED <<sold, page, events, contended, calm>>
  BY DEF CommitAdd, Enter
<1>2. /\ q \in Request /\ Good(q) /\ q.pid \in Portfolio /\ q.qty \in Nat
      /\ q.money => q.balance >= q.qty
      /\ q.balance \in Int
  BY <1>1, ReadyFacts DEF Paying
<1>3. /\ home \in [PosId -> Portfolio \cup {None}] /\ held \in [PosId -> Nat]
      /\ entered \in [PosId -> Int] /\ HousedList(held) /\ q.pid # None
  BY <1>2, NoneAssumption DEF IInv, ServerInv, TypeDb
<1>4. /\ home' \in [PosId -> Portfolio \cup {None}] /\ held' \in [PosId -> Nat]
      /\ home'[x] # None /\ \A y \in PosId \ {x} : home'[y] = home[y] /\ held'[y] = held[y]
  BY <1>1, <1>2, <1>3
<1>e. entered' \in [PosId -> Int]
  BY <1>1, <1>2, <1>3
<1>5. \A y \in PosId : home[y] # None => home'[y] # None
  BY <1>4
<1>6. HousedList(held)'
  BY <1>3, <1>4, <1>5 DEF HousedList
<1>7. cash' \in [Portfolio -> Int] /\ books' \in [Portfolio -> Int] /\ NeverInDebt'
  BY <1>1, <1>2, PayKeeps DEF IInv
<1>8. TypeDb'
  BY <1>1, <1>4, <1>e, <1>7 DEF IInv, ServerInv, TypeDb
<1>9. \A p : Good(p) => Good(p)'
  BY <1>5 DEF Good, Shaped, HousedList, Housed, Covered, Live
<1>10. Good(r)'
  <2>1. /\ r \in Request /\ r.at = "committed" /\ r.list = q.list /\ r.pos = x /\ r.pid = q.pid
        /\ r.qty = q.qty /\ r.kind = "add" /\ (r.money <=> q.money)
    BY <1>1, <1>2 DEF Request, At
  <2>2. HousedList(r.list)'
    BY <1>2, <1>5, <2>1 DEF Good, Shaped, HousedList
  <2>3. Housed(r.pos)'
    BY <1>4, <2>1 DEF Housed
  <2>4. "add" \in Paying
    BY DEF Paying
  <2> QED BY <1>2, <2>1, <2>2, <2>3, <2>4 DEF Good, Shaped, Covered, Live
<1>11. /\ req' \in [Slot -> Request] /\ req'[s] = r
       /\ \A i \in Slot \ {s} : req'[i] = req[i]
  <2>1. r \in Request
    BY <1>10 DEF Good
  <2> QED BY <1>1, <2>1, PutGood DEF IInv, ServerInv
<1>12. \A i \in Slot : Good(req[i])'
  BY <1>9, <1>10, <1>11 DEF IInv, ServerInv
<1>13. PageInv'
  BY <1>1, <1>5, PageAtRest DEF IInv, PageInv, TypePage
<1> QED BY <1>6, <1>7, <1>8, <1>11, <1>12, <1>13 DEF IInv, ServerInv

-----------------------------------------------------------------------------
(* The theorems on types and debt.                                         *)

LEMMA ServerStep ==
  ASSUME IInv, NEW s \in Slot, Server(s)
  PROVE  IInv'
  BY ServeStep, LoadPositionStep, LoadPortfolioStep, CommitAddStep, CommitCashStep,
     CommitFullSaleStep, CommitPartialSaleStep, CommitModifyStep, CommitDeleteStep,
     RollBackStep, RefreshStep DEF Server

LEMMA StutterStep ==
  ASSUME IInv, UNCHANGED vars
  PROVE  IInv'
<1>1. ServerInv'
  BY ServerAtRest DEF IInv, vars, history
<1>2. PageInv'
  BY PageAtRest DEF IInv, vars, db, history, PageInv, TypePage
<1> QED BY <1>1, <1>2 DEF IInv

LEMMA InitGood == Init => IInv
<1> SUFFICES ASSUME Init PROVE IInv
  OBVIOUS
<1>1. MaxQty \in Nat
  BY BoundsAssumption
<1>2. /\ home \in [PosId -> Portfolio \cup {None}]
      /\ held \in [PosId -> Nat] /\ sold \in [PosId -> Nat]
      /\ cash \in [Portfolio -> Int] /\ HousedList(held) /\ NeverInDebt
  BY <1>1 DEF Init, HousedList, NeverInDebt
<1>3. /\ Rows(active) \in [PosId -> Nat] /\ HousedList(Rows(active))
  BY <1>2, NoneAssumption DEF Init, Rows, HousedList
<1>4. TypePage /\ DialogGood /\ HousedList(shown)
  BY <1>2, <1>3 DEF Init, TypePage, DialogGood, NoDialog, Kind
<1>5. /\ req \in [Slot -> Request] /\ \A s \in Slot : req[s] = NoRequest
  BY BlankGood DEF Init
<1>6. \A s \in Slot : Good(req[s])
  BY <1>5, BlankGood
<1>7. TypeDb
  BY <1>2 DEF Init, TypeDb
<1> QED BY <1>2, <1>4, <1>5, <1>6, <1>7 DEF IInv, ServerInv, PageInv

LEMMA StepGood == IInv /\ [Next]_vars => IInv'
<1> SUFFICES ASSUME IInv, [Next]_vars PROVE IInv'
  OBVIOUS
<1>1. CASE UNCHANGED vars
  BY <1>1, StutterStep
<1>2. CASE User
  BY <1>2, UserStep
<1>3. ASSUME NEW s \in Slot, Server(s) \/ Lose(s) \/ Receive(s) PROVE IInv'
  BY <1>3, ServerStep, LoseStep, ReceiveStep
<1> QED BY <1>1, <1>2, <1>3 DEF Next

LEMMA Invariance == Spec => []IInv
  BY InitGood, StepGood, PTL DEF Spec

\* Every variable keeps its type, with any number of requests under way.
THEOREM TypeCorrect == Spec => []TypeOK
<1>1. IInv => TypeOK
  BY DEF IInv, ServerInv, PageInv, TypeDb, TypePage, TypeOK
<1> QED BY <1>1, Invariance, PTL

\* No interleaving of purchases, sales and adjustments takes a balance below 0.
THEOREM DebtNever == Spec => []NeverInDebt
<1>1. IInv => NeverInDebt
  BY DEF IInv, ServerInv
<1> QED BY <1>1, Invariance, PTL

-----------------------------------------------------------------------------
(* The books.  A step takes no copies, or takes them, or writes.           *)

\* Who works after the step has worked before, on the same copies.
TakesNone == Still /\ \A i \in Slot : Working(i)' => req'[i] = req[i]

LEMMA TakesNoneKeeps ==
  ASSUME IInv, CopiesInv, TakesNone
  PROVE  CopiesInv'
<1>1. UNCHANGED <<held, sold, cash, entered, books, contended>>
  BY DEF TakesNone, Still, db
<1>2. \A i \in Slot : Working(i)' => Working(i) /\ req'[i] = req[i]
  BY DEF TakesNone, Working
<1>3. \A q : Touches(q)' = Touches(q)
  BY DEF Touches
<1>4. Apart'
  BY <1>1, <1>2 DEF CopiesInv, Apart, Touches
<1>5. \A i \in Slot : req'[i].at = "ready" => Working(i)'
  BY DEF Working
<1>6. CashCopies' /\ RowCopies'
  BY <1>1, <1>2, <1>5 DEF CopiesInv, CashCopies, RowCopies
<1>7. CashReconciles' /\ SharesReconcile'
  BY <1>1 DEF CopiesInv, CashReconciles, SharesReconcile
<1> QED BY <1>4, <1>6, <1>7 DEF CopiesInv

LEMMA IdleTakesNone ==
  ASSUME IInv, NEW s \in Slot, NEW r, Put(s, r), Idle(r), Still
  PROVE  TakesNone
<1>1. req'[s] = r /\ \A i \in Slot \ {s} : req'[i] = req[i]
  BY DEF Put, IInv, ServerInv
<1> QED BY <1>1 DEF TakesNone, Idle, Working

LEMMA SentTakesNone ==
  ASSUME IInv, NEW s \in Slot, NEW r, Send(s, r), r.at = "sent"
  PROVE  TakesNone
  BY IdleTakesNone DEF Send, Still, Idle

LEMMA UserTakesNone ==
  ASSUME IInv, User
  PROVE  TakesNone
<1>1. ASSUME UNCHANGED <<db, req, entered, books, contended>>
      PROVE  TakesNone
  BY <1>1 DEF TakesNone, Still
<1>2. ASSUME NEW d, Open(d) PROVE TakesNone
  BY <1>1, <1>2 DEF Open
<1>3. ASSUME Close PROVE TakesNone
  BY <1>1, <1>3 DEF Close, history
<1>4. \A kind, p : Ask(kind, p).at = "sent"
  BY DEF Ask, NoRequest
<1>5. ASSUME NEW s \in Slot, NEW n, NEW b, SubmitAdd(s, n, b) PROVE TakesNone
  <2>1. Send(s, [Ask("add", active) EXCEPT !.qty = n, !.money = b, !.list = shown])
    BY <1>5 DEF SubmitAdd, Submit
  <2>2. [Ask("add", active) EXCEPT !.qty = n, !.money = b, !.list = shown].at = "sent"
    BY DEF Ask, NoRequest
  <2> QED BY <2>1, <2>2, SentTakesNone
<1>6. ASSUME NEW s \in Slot, NEW n, NEW b, SubmitSell(s, n, b) PROVE TakesNone
  <2>1. Send(s, [Ask("sell", home[dialog.pos]) EXCEPT !.pos = dialog.pos, !.qty = n, !.money = b])
    BY <1>6 DEF SubmitSell, Submit
  <2>2. [Ask("sell", home[dialog.pos]) EXCEPT !.pos = dialog.pos, !.qty = n, !.money = b].at = "sent"
    BY DEF Ask, NoRequest
  <2> QED BY <2>1, <2>2, SentTakesNone
<1>7. ASSUME NEW s \in Slot, NEW n, SubmitModify(s, n) PROVE TakesNone
  <2>1. Send(s, [Ask("modify", home[dialog.pos]) EXCEPT !.pos = dialog.pos, !.qty = n])
    BY <1>7 DEF SubmitModify, Submit
  <2>2. [Ask("modify", home[dialog.pos]) EXCEPT !.pos = dialog.pos, !.qty = n].at = "sent"
    BY DEF Ask, NoRequest
  <2> QED BY <2>1, <2>2, SentTakesNone
<1>8. ASSUME NEW s \in Slot, NEW n, SubmitCash(s, n) PROVE TakesNone
  <2>1. Send(s, [Ask("cash", active) EXCEPT !.qty = n, !.money = TRUE])
    BY <1>8 DEF SubmitCash, Submit
  <2>2. [Ask("cash", active) EXCEPT !.qty = n, !.money = TRUE].at = "sent"
    BY DEF Ask, NoRequest
  <2> QED BY <2>1, <2>2, SentTakesNone
<1>9. ASSUME NEW s \in Slot, NEW x, ClickDelete(s, x) PROVE TakesNone
  <2>1. Send(s, [Ask("delete", home[x]) EXCEPT !.pos = x, !.list = shown])
    BY <1>9 DEF ClickDelete
  <2>2. [Ask("delete", home[x]) EXCEPT !.pos = x, !.list = shown].at = "sent"
    BY DEF Ask, NoRequest
  <2> QED BY <2>1, <2>2, SentTakesNone
<1>10. ASSUME NEW s \in Slot, NEW x, Patch(s, x) PROVE TakesNone
  <2>1. Send(s, [Ask("patch", home[x]) EXCEPT !.pos = x])
    BY <1>10 DEF Patch
  <2>2. [Ask("patch", home[x]) EXCEPT !.pos = x].at = "sent"
    BY DEF Ask, NoRequest
  <2> QED BY <2>1, <2>2, SentTakesNone
<1>11. ASSUME NEW s \in Slot, NEW p, Select(s, p) PROVE TakesNone
  <2>1. Send(s, Ask("positions", p))
    BY <1>11 DEF Select
  <2> QED BY <1>4, <2>1, SentTakesNone
<1> QED BY <1>2, <1>3, <1>5, <1>6, <1>7, <1>8, <1>9, <1>10, <1>11
        DEF User, OpenOn, OpenNew

LEMMA AnswerTakesNone ==
  ASSUME IInv, NEW s \in Slot, Receive(s) \/ Lose(s) \/ RollBack(s) \/ Serve(s) \/ Refresh(s)
  PROVE  TakesNone
<1>1. ASSUME Done(s), Still PROVE TakesNone
  BY <1>1, BlankGood, IdleTakesNone DEF Done
<1>2. ASSUME Reload(s), Still PROVE TakesNone
  <2>1. Idle(Ask("balances", None))
    BY DEF Ask, NoRequest, Idle
  <2> QED BY <1>2, <2>1, IdleTakesNone DEF Reload
<1>3. ASSUME Fail(s), Still PROVE TakesNone
  <2>1. Idle([NoRequest EXCEPT !.kind = req[s].kind, !.at = "failed"])
    BY DEF NoRequest, Idle
  <2> QED BY <1>3, <2>1, IdleTakesNone DEF Fail
<1>4. CASE Receive(s)
  <2>1. (Done(s) \/ Reload(s)) /\ Still
    BY <1>4 DEF Receive, ReceivePositions, ReceiveBalances, ReceiveAdd, ReceiveSell,
       ReceiveModify, ReceivePatch, ReceiveDelete, ReceiveCash, ReceiveError, Answered,
       Still, history
  <2> QED BY <1>1, <1>2, <2>1
<1>5. CASE Lose(s)
  BY <1>3, <1>5 DEF Lose, Still
<1>6. CASE RollBack(s)
  BY <1>3, <1>6 DEF RollBack, Still, history
<1>7. CASE Serve(s)
  <2> DEFINE l == IF req[s].kind = "positions" THEN Rows(req[s].pid) ELSE req[s].list
             b == IF req[s].kind = "balances" THEN cash ELSE req[s].balances
             r == [req[s] EXCEPT !.at = "answered", !.list = l, !.balances = b]
  <2>1. Put(s, r) /\ Still
    BY <1>7 DEF Serve, Still, history
  <2> HIDE DEF l, b
  <2>2. Idle(r)
    BY DEF IInv, ServerInv, Request, Idle
  <2> QED BY <2>1, <2>2, IdleTakesNone
<1>8. CASE Refresh(s)
  <2> DEFINE now == held[req[s].pos]
             a == IF now = 0 THEN "failed" ELSE "answered"
             r == [req[s] EXCEPT !.seen = now, !.at = a]
  <2>1. Put(s, r) /\ Still
    BY <1>8 DEF Refresh, Still, history
  <2> HIDE DEF now
  <2>2. Idle(r)
    BY DEF IInv, ServerInv, Request, Idle
  <2> QED BY <2>1, <2>2, IdleTakesNone
<1> QED BY <1>4, <1>5, <1>6, <1>7, <1>8

\* A request takes a copy: the rows it works on become contended if another
\* works on them.
Takes(s) ==
    /\ UNCHANGED <<held, sold, cash, entered, books>>
    /\ contended' = Contention(s)
    /\ \A i \in Slot \ {s} : req'[i] = req[i]
    /\ Touches(req'[s]) = Touches(req[s])
    /\ req'[s].at = "ready" /\ req'[s].money => req'[s].balance = cash[req'[s].pid]
    /\ Working(s)' /\ req'[s].kind \in OnRow /\ req'[s].pos \notin contended =>
           req'[s].seen = held[req'[s].pos]

LEMMA TakesKeeps ==
  ASSUME CopiesInv, NEW s \in Slot, Takes(s)
  PROVE  CopiesInv'
<1>1. contended \subseteq contended'
  BY DEF Takes, Contention
<1>2. \A i \in Slot \ {s} : Working(i)' <=> Working(i)
  BY DEF Takes, Working
<1>3. \A i \in Slot \ {s} : Working(i) => Touches(req[i]) \cap Touches(req[s]) \subseteq contended'
  BY DEF Takes, Contention
<1>4. Apart'
  <2> SUFFICES ASSUME NEW i \in Slot, NEW j \in Slot, i # j, Working(i)', Working(j)'
               PROVE  (Touches(req[i]) \cap Touches(req[j]))' \subseteq contended'
    BY DEF Apart
  <2>1. Touches(req[i])' = Touches(req[i]) /\ Touches(req[j])' = Touches(req[j])
    BY DEF Takes, Touches
  <2>2. CASE i # s /\ j # s
    BY <1>1, <1>2, <2>1, <2>2 DEF CopiesInv, Apart
  <2>3. CASE i = s \/ j = s
    BY <1>2, <1>3, <2>1, <2>3
  <2> QED BY <2>2, <2>3
<1>5. CashCopies'
  BY <1>1 DEF Takes, CopiesInv, CashCopies
<1>6. RowCopies'
  BY <1>1, <1>2 DEF Takes, CopiesInv, RowCopies
<1>7. CashReconciles' /\ SharesReconcile'
  BY <1>1 DEF Takes, CopiesInv, CashReconciles, SharesReconcile
<1> QED BY <1>4, <1>5, <1>6, <1>7 DEF CopiesInv

LEMMA LoadTakes ==
  ASSUME IInv, CopiesInv, NEW s \in Slot, LoadPosition(s) \/ LoadPortfolio(s)
  PROVE  Takes(s)
<1>0. req[s] \in Request /\ Good(req[s]) /\ req \in [Slot -> Request]
  BY DEF IInv, ServerInv
<1>1. CASE LoadPosition(s)
  <2> DEFINE q == req[s]
             n == held[q.pos]
             a == IF n = 0 THEN "failed" ELSE IF q.kind = "sell" THEN "found" ELSE "ready"
             r == [q EXCEPT !.seen = n, !.at = a]
  <2>1. /\ Put(s, r) /\ contended' = Contention(s) /\ q.kind \in OnRow
        /\ UNCHANGED <<held, sold, cash, entered, books>>
    BY <1>1 DEF LoadPosition, db
  <2>2. a = "ready" => q.kind # "sell"
    OBVIOUS
  <2>3. req'[s] = r /\ \A i \in Slot \ {s} : req'[i] = req[i]
    BY <1>0, <2>1 DEF Put
  <2> HIDE DEF n, a
  <2>4. /\ r.kind = q.kind /\ r.pos = q.pos /\ r.pid = q.pid /\ (r.money <=> q.money)
        /\ r.seen = n /\ r.at = a
    BY <1>0 DEF Request
  <2>5. q.money => q.kind = "sell"
    BY <1>0, <2>1 DEF Good, Shaped, OnRow, Paying
  <2>6. Touches(r) = Touches(q)
    BY <2>4 DEF Touches
  <2> HIDE DEF r
  <2>7. r.seen = held[r.pos]
    BY <2>4 DEF n
  <2> QED BY <2>1, <2>2, <2>3, <2>4, <2>5, <2>6, <2>7 DEF Takes
<1>2. CASE LoadPortfolio(s)
  <2> DEFINE q == req[s]
             b == cash[q.pid]
             refused == \/ q.kind = "add" /\ q.money /\ b < q.qty
                        \/ q.kind = "cash" /\ b + q.qty < 0
             a == IF refused THEN "failed" ELSE "ready"
             r == [q EXCEPT !.balance = b, !.at = a]
  <2>1. /\ Put(s, r) /\ contended' = Contention(s)
        /\ UNCHANGED <<held, sold, cash, entered, books>>
        /\ q.kind \in OnRow => q.at = "found"
    BY <1>2 DEF LoadPortfolio, db, OnRow
  <2>3. req'[s] = r /\ \A i \in Slot \ {s} : req'[i] = req[i]
    BY <1>0, <2>1 DEF Put
  <2> HIDE DEF b, a
  <2>4. /\ r.kind = q.kind /\ r.pos = q.pos /\ r.pid = q.pid /\ (r.money <=> q.money)
        /\ r.seen = q.seen /\ r.balance = b
    BY <1>0 DEF Request
  <2>5. q.kind \in OnRow /\ q.pos \notin contended => q.seen = held[q.pos]
    BY <2>1 DEF CopiesInv, RowCopies, Working
  <2>6. Touches(r) = Touches(q)
    BY <2>4 DEF Touches
  <2> HIDE DEF r
  <2>7. r.balance = cash[r.pid]
    BY <2>4 DEF b
  <2> QED BY <2>1, <2>3, <2>4, <2>5, <2>6, <2>7 DEF Takes
<1> QED BY <1>1, <1>2

\* A request writes: only rows it holds copies of, or one that nobody knows.
Writes(s) ==
    /\ Working(s) /\ ~Working(s)' /\ contended' = contended
    /\ \A i \in Slot \ {s} : req'[i] = req[i]
    /\ \A p \in Portfolio : cash'[p] = cash[p] \/ p \in Touches(req[s])
    /\ \A x \in PosId : held'[x] = held[x] \/ x \in Touches(req[s]) \/ home[x] = None
    /\ CashReconciles' /\ SharesReconcile'

LEMMA WritesKeeps ==
  ASSUME IInv, CopiesInv, NEW s \in Slot, Writes(s)
  PROVE  CopiesInv'
<1>1. \A i \in Slot : Working(i)' => i # s /\ Working(i) /\ req'[i] = req[i]
  BY DEF Writes, Working
<1>2. Apart'
  BY <1>1 DEF CopiesInv, Apart, Writes, Touches
<1>3. CashCopies'
  <2> SUFFICES ASSUME NEW i \in Slot, req'[i].at = "ready", req'[i].money,
                      req'[i].pid \notin contended'
               PROVE  req'[i].balance = cash'[req'[i].pid]
    BY DEF CashCopies
  <2>1. i # s /\ Working(i) /\ req'[i] = req[i] /\ Working(s)
    BY <1>1 DEF Working, Writes
  <2>2. req[i].pid \in Touches(req[i]) /\ req[i].pid \notin contended
    BY <2>1 DEF Touches, Writes
  <2>3. req[i].pid \notin Touches(req[s])
    BY <2>1, <2>2 DEF CopiesInv, Apart
  <2>4. req[i].pid \in Portfolio
    BY <2>1, ReadyFacts
  <2>5. req[i].balance = cash[req[i].pid]
    BY <2>1, <2>2 DEF CopiesInv, CashCopies
  <2> QED BY <2>1, <2>3, <2>4, <2>5 DEF Writes
<1>4. RowCopies'
  <2> SUFFICES ASSUME NEW i \in Slot, Working(i)', req'[i].kind \in OnRow,
                      req'[i].pos \notin contended'
               PROVE  req'[i].seen = held'[req'[i].pos]
    BY DEF RowCopies
  <2>1. i # s /\ Working(i) /\ req'[i] = req[i] /\ Working(s)
    BY <1>1 DEF Writes
  <2>2. req[i].pos \in Touches(req[i]) /\ req[i].pos \notin contended
    BY <2>1 DEF Touches, Writes
  <2>3. req[i].pos \notin Touches(req[s])
    BY <2>1, <2>2 DEF CopiesInv, Apart
  <2>4. req[i].pos \in PosId /\ home[req[i].pos] # None
    BY <2>1 DEF IInv, ServerInv, Good, Shaped, Live, Housed, Working
  <2>5. req[i].seen = held[req[i].pos]
    BY <2>1, <2>2 DEF CopiesInv, RowCopies
  <2> QED BY <2>1, <2>3, <2>4, <2>5 DEF Writes
<1> QED BY <1>2, <1>3, <1>4 DEF CopiesInv, Writes

\* A payment keeps the books of what is not contended.
LEMMA PayReconciles ==
  ASSUME IInv, CopiesInv, NEW s \in Slot, req[s].at = "ready", NEW amount \in Int, Pay(s, amount),
         contended' = contended
  PROVE  /\ CashReconciles'
         /\ \A p \in Portfolio : cash'[p] = cash[p] \/ p \in Touches(req[s])
<1>1. /\ cash \in [Portfolio -> Int] /\ books \in [Portfolio -> Int]
      /\ \A p \in Portfolio \ contended : cash[p] = books[p]
      /\ req[s].balance \in Int
  BY DEF IInv, ServerInv, TypeDb, Request, CopiesInv, CashReconciles
<1>2. CASE ~req[s].money
  BY <1>1, <1>2 DEF Pay, CashReconciles
<1>3. CASE req[s].money
  <2>1. /\ cash' = [cash EXCEPT ![req[s].pid] = req[s].balance + amount]
        /\ books' = [books EXCEPT ![req[s].pid] = books[req[s].pid] + amount]
    BY <1>3 DEF Pay
  <2>2. req[s].pid \in Touches(req[s])
    BY <1>3 DEF Touches
  <2>3. req[s].pid \notin contended => req[s].balance = cash[req[s].pid]
    BY <1>3 DEF CopiesInv, CashCopies
  <2> QED BY <1>1, <2>1, <2>2, <2>3 DEF CashReconciles
<1> QED BY <1>2, <1>3

\* A commit leaves h shares in the row x, having sold n and entered e; if
\* nobody else has a copy of the row, they add up.
Moves(x, h, n, e) ==
    /\ h \in Int /\ n \in Int /\ e \in Int
    /\ held' = [held EXCEPT ![x] = h]
    /\ sold' = [sold EXCEPT ![x] = sold[x] + n]
    /\ entered' = [entered EXCEPT ![x] = entered[x] + e]
    /\ x \notin contended => h + n = held[x] + e

LEMMA Balanced ==
  ASSUME NEW a \in Int, NEW b \in Int, NEW c \in Int, a + b = c,
         NEW h \in Int, NEW n \in Int, NEW e \in Int, h + n = a + e
  PROVE  h + (b + n) = c + e
  OBVIOUS

LEMMA RowReconciles ==
  ASSUME IInv, CopiesInv, NEW s \in Slot, req[s].kind \in OnRow, contended' = contended,
         NEW h, NEW n, NEW e, Moves(req[s].pos, h, n, e)
  PROVE  /\ SharesReconcile'
         /\ \A x \in PosId : held'[x] = held[x] \/ x \in Touches(req[s])
<1>1. /\ held \in [PosId -> Nat] /\ sold \in [PosId -> Nat] /\ entered \in [PosId -> Int]
      /\ \A x \in PosId \ contended : held[x] + sold[x] = entered[x]
  BY DEF IInv, ServerInv, TypeDb, CopiesInv, SharesReconcile
<1>2. req[s].pos \in Touches(req[s])
  BY DEF Touches
<1>3. \A x \in PosId \ {req[s].pos} : held'[x] = held[x] /\ sold'[x] = sold[x] /\ entered'[x] = entered[x]
  BY <1>1 DEF Moves
<1>4. ASSUME NEW x \in PosId \ contended PROVE held'[x] + sold'[x] = entered'[x]
  <2>1. CASE x = req[s].pos
    <3>1. held'[x] = h /\ sold'[x] = sold[x] + n /\ entered'[x] = entered[x] + e
      BY <1>1, <2>1 DEF Moves
    <3>2. h \in Int /\ n \in Int /\ e \in Int /\ h + n = held[x] + e
      BY <2>1 DEF Moves
    <3>3. held[x] \in Int /\ sold[x] \in Int /\ entered[x] \in Int /\ held[x] + sold[x] = entered[x]
      BY <1>1
    <3> QED BY <3>1, <3>2, <3>3, Balanced
  <2>2. CASE x # req[s].pos
    BY <1>1, <1>3, <2>2
  <2> QED BY <2>1, <2>2
<1> QED BY <1>2, <1>3, <1>4 DEF SharesReconcile

\* After a commit the request works no more; the others have not moved.
LEMMA CommitFrame ==
  ASSUME IInv, NEW s \in Slot, NEW r, Put(s, r), r.at \in {"committed", "answered"},
         req[s].at = "ready"
  PROVE  /\ Working(s) /\ ~Working(s)'
         /\ \A i \in Slot \ {s} : req'[i] = req[i]
<1>1. req'[s] = r /\ \A i \in Slot \ {s} : req'[i] = req[i]
  BY DEF Put, IInv, ServerInv
<1> QED BY <1>1 DEF Working

LEMMA CopyFresh ==
  ASSUME IInv, CopiesInv, NEW s \in Slot, req[s].at = "ready", req[s].kind \in OnRow
  PROVE  /\ req[s].pos \notin contended => req[s].seen = held[req[s].pos]
         /\ req[s].pos \in PosId /\ req[s].seen \in Nat /\ req[s].qty \in Int
         /\ held[req[s].pos] \in Nat /\ sold[req[s].pos] \in Int /\ entered[req[s].pos] \in Int
         /\ req[s].kind \in {"sell", "modify"} => req[s].qty \in Nat
<1>1. req[s].pos \notin contended => req[s].seen = held[req[s].pos]
  BY DEF CopiesInv, RowCopies, Working
<1>2. req[s].pos \in PosId /\ req[s].seen \in Nat /\ req[s].qty \in Int
  BY ReadyFacts DEF Housed
<1>3. held \in [PosId -> Nat] /\ sold \in [PosId -> Nat] /\ entered \in [PosId -> Int]
  BY DEF IInv, ServerInv, TypeDb
<1>4. req[s].kind \in {"sell", "modify"} => req[s].qty \in Nat
  <2>1. req[s].kind \in {"sell", "modify"} => req[s].qty >= 0
    BY ReadyFacts
  <2> QED BY <1>2, <2>1
<1> QED BY <1>1, <1>2, <1>3, <1>4

\* The status of the next request.
LEMMA NextAt ==
  ASSUME NEW q \in Request, NEW at
  PROVE  [q EXCEPT !.at = at].at = at /\ [q EXCEPT !.at = at, !.seen = 0].at = at
  BY DEF Request

LEMMA CommitWrites ==
  ASSUME IInv, CopiesInv, NEW s \in Slot,
         \/ \E x \in PosId : CommitAdd(s, x)
         \/ CommitCash(s) \/ CommitFullSale(s) \/ CommitPartialSale(s)
         \/ CommitModify(s) \/ CommitDelete(s)
  PROVE  Writes(s)
<1>0. req[s] \in Request
  BY DEF IInv, ServerInv
<1>a. /\ held \in [PosId -> Nat] /\ sold \in [PosId -> Nat] /\ entered \in [PosId -> Int]
      /\ \A x \in PosId \ contended : held[x] + sold[x] = entered[x]
      /\ CashReconciles
  BY DEF IInv, ServerInv, TypeDb, CopiesInv, SharesReconcile
<1>1. ASSUME NEW x \in PosId, CommitAdd(s, x) PROVE Writes(s)
  <2>1. /\ req[s].at = "ready" /\ req[s].kind = "add" /\ home[x] = None
        /\ held' = [held EXCEPT ![x] = req[s].qty]
        /\ entered' = [entered EXCEPT ![x] = entered[x] + req[s].qty]
        /\ Pay(s, -req[s].qty)
        /\ Put(s, [req[s] EXCEPT !.at = "committed", !.pos = x])
        /\ UNCHANGED <<sold, contended>>
    BY <1>1 DEF CommitAdd, Enter
  <2>2. [req[s] EXCEPT !.at = "committed", !.pos = x].at = "committed"
    BY <1>0 DEF Request
  <2>3. req[s].qty \in Int
    BY <1>0 DEF Request
  <2>4. held[x] = 0
    BY <2>1, <1>a DEF IInv, ServerInv, HousedList
  <2>5. CashReconciles' /\ \A p \in Portfolio : cash'[p] = cash[p] \/ p \in Touches(req[s])
    BY <2>1, <2>3, PayReconciles
  <2>6. \A y \in PosId : held'[y] = held[y] \/ home[y] = None
    BY <1>a, <2>1
  <2>7. SharesReconcile'
    <3>1. /\ \A y \in PosId \ {x} : held'[y] = held[y] /\ entered'[y] = entered[y]
          /\ held'[x] = req[s].qty /\ entered'[x] = entered[x] + req[s].qty
      BY <1>a, <2>1
    <3>2. x \notin contended => held'[x] + sold[x] = entered'[x]
      BY <1>a, <2>3, <2>4, <3>1
    <3> QED BY <1>a, <2>1, <3>1, <3>2 DEF SharesReconcile
  <2> QED BY <2>1, <2>2, <2>5, <2>6, <2>7, CommitFrame DEF Writes
<1>2. CASE CommitCash(s)
  <2>1. /\ req[s].at = "ready" /\ Pay(s, req[s].qty)
        /\ Put(s, [req[s] EXCEPT !.at = "answered"])
        /\ UNCHANGED <<held, sold, entered, contended>>
    BY <1>2 DEF CommitCash, Then
  <2>2. req[s].qty \in Int
    BY <1>0 DEF Request
  <2>3. CashReconciles' /\ \A p \in Portfolio : cash'[p] = cash[p] \/ p \in Touches(req[s])
    BY <2>1, <2>2, PayReconciles
  <2>4. SharesReconcile'
    BY <1>a, <2>1 DEF SharesReconcile
  <2> QED BY <1>0, <2>1, <2>3, <2>4, CommitFrame, NextAt DEF Writes
<1>3. CASE CommitFullSale(s)
  <2>1. /\ req[s].at = "ready" /\ req[s].kind \in OnRow /\ Pay(s, req[s].seen)
        /\ Put(s, [req[s] EXCEPT !.at = "answered", !.seen = 0])
        /\ held' = [held EXCEPT ![req[s].pos] = 0]
        /\ sold' = [sold EXCEPT ![req[s].pos] = sold[req[s].pos] + req[s].seen]
        /\ entered' = entered /\ contended' = contended
    BY <1>3 DEF CommitFullSale, OnRow
  <2>c. /\ req[s].pos \notin contended => req[s].seen = held[req[s].pos]
        /\ req[s].pos \in PosId /\ req[s].seen \in Nat /\ req[s].qty \in Int
        /\ held[req[s].pos] \in Nat /\ entered[req[s].pos] \in Int
    BY <2>1, CopyFresh
  <2>2. entered' = [entered EXCEPT ![req[s].pos] = entered[req[s].pos] + 0]
    BY <1>a, <2>1, <2>c
  <2>t. /\ 0 \in Int /\ req[s].seen \in Int
        /\ req[s].pos \notin contended => 0 + req[s].seen = held[req[s].pos] + 0
    BY <2>c
  <2>m. Moves(req[s].pos, 0, req[s].seen, 0)
    BY <2>1, <2>2, <2>t, Zenon DEF Moves
  <2>3. /\ SharesReconcile'
        /\ \A x \in PosId : held'[x] = held[x] \/ x \in Touches(req[s])
    BY <2>1, <2>m, RowReconciles
  <2>4. CashReconciles' /\ \A p \in Portfolio : cash'[p] = cash[p] \/ p \in Touches(req[s])
    BY <2>1, CopyFresh, PayReconciles
  <2> QED BY <1>0, <2>1, <2>3, <2>4, CommitFrame, NextAt DEF Writes
<1>4. CASE CommitPartialSale(s)
  <2>1. /\ req[s].at = "ready" /\ req[s].kind \in OnRow /\ Pay(s, req[s].qty)
        /\ req[s].qty < req[s].seen
        /\ Put(s, [req[s] EXCEPT !.at = "committed"])
        /\ held' = [held EXCEPT ![req[s].pos] = req[s].seen - req[s].qty]
        /\ sold' = [sold EXCEPT ![req[s].pos] = sold[req[s].pos] + req[s].qty]
        /\ entered' = entered /\ contended' = contended
    BY <1>4 DEF CommitPartialSale, Then, OnRow
  <2>c. /\ req[s].pos \notin contended => req[s].seen = held[req[s].pos]
        /\ req[s].pos \in PosId /\ req[s].seen \in Nat /\ req[s].qty \in Int
        /\ held[req[s].pos] \in Nat /\ entered[req[s].pos] \in Int
    BY <2>1, CopyFresh
  <2>2. entered' = [entered EXCEPT ![req[s].pos] = entered[req[s].pos] + 0]
    BY <1>a, <2>1, <2>c
  <2>h. /\ 0 \in Int /\ req[s].qty \in Int /\ req[s].seen - req[s].qty \in Int
        /\ req[s].pos \notin contended =>
              (req[s].seen - req[s].qty) + req[s].qty = held[req[s].pos] + 0
    BY <2>c
  <2>m. Moves(req[s].pos, req[s].seen - req[s].qty, req[s].qty, 0)
    BY <2>1, <2>2, <2>h, Zenon DEF Moves
  <2>3. /\ SharesReconcile'
        /\ \A x \in PosId : held'[x] = held[x] \/ x \in Touches(req[s])
    BY <2>1, <2>m, RowReconciles
  <2>4. CashReconciles' /\ \A p \in Portfolio : cash'[p] = cash[p] \/ p \in Touches(req[s])
    BY <2>1, CopyFresh, PayReconciles
  <2> QED BY <1>0, <2>1, <2>3, <2>4, CommitFrame, NextAt DEF Writes
<1>5. CASE CommitModify(s)
  <2> DEFINE other == req[s].kind = "modify" /\ req[s].qty # req[s].seen
             more == IF other THEN req[s].qty - req[s].seen ELSE 0
             h == IF other THEN req[s].qty ELSE held[req[s].pos]
  <2>1. /\ req[s].at = "ready" /\ req[s].kind \in OnRow
        /\ Put(s, [req[s] EXCEPT !.at = "committed"])
        /\ held' = IF other THEN [held EXCEPT ![req[s].pos] = req[s].qty] ELSE held
        /\ entered' = [entered EXCEPT ![req[s].pos] = entered[req[s].pos] + more]
        /\ sold' = sold /\ contended' = contended /\ UNCHANGED <<cash, books>>
    BY <1>5 DEF CommitModify, Then, Enter, OnRow
  <2>c. /\ req[s].pos \notin contended => req[s].seen = held[req[s].pos]
        /\ req[s].pos \in PosId /\ req[s].seen \in Nat /\ req[s].qty \in Int
        /\ held[req[s].pos] \in Nat /\ sold[req[s].pos] \in Int
    BY <2>1, CopyFresh
  <2>t. /\ 0 \in Int /\ h \in Int /\ more \in Int
        /\ req[s].pos \notin contended => h + 0 = held[req[s].pos] + more
    <3> HIDE DEF other
    <3>1. CASE other
      BY <2>c, <3>1
    <3>2. CASE ~other
      BY <2>c, <3>2
    <3> QED BY <3>1, <3>2
  <2>2. held' = [held EXCEPT ![req[s].pos] = h]
    <3> HIDE DEF other
    <3>1. CASE other
      BY <2>1, <3>1
    <3>2. CASE ~other
      BY <1>a, <2>1, <3>2
    <3> QED BY <3>1, <3>2
  <2>5. sold' = [sold EXCEPT ![req[s].pos] = sold[req[s].pos] + 0]
    BY <1>a, <2>1, <2>c
  <2> HIDE DEF other, more, h
  <2>m. Moves(req[s].pos, h, 0, more)
    BY <2>1, <2>2, <2>5, <2>t, Zenon DEF Moves
  <2>3. /\ SharesReconcile'
        /\ \A x \in PosId : held'[x] = held[x] \/ x \in Touches(req[s])
    BY <2>1, <2>m, RowReconciles
  <2>4. CashReconciles' /\ \A p \in Portfolio : cash'[p] = cash[p] \/ p \in Touches(req[s])
    BY <1>a, <2>1 DEF CashReconciles
  <2> QED BY <1>0, <2>1, <2>3, <2>4, CommitFrame, NextAt DEF Writes
<1>6. CASE CommitDelete(s)
  <2>1. /\ req[s].at = "ready" /\ req[s].kind \in OnRow
        /\ Put(s, [req[s] EXCEPT !.at = "answered"])
        /\ held' = [held EXCEPT ![req[s].pos] = 0]
        /\ entered' = [entered EXCEPT ![req[s].pos] = entered[req[s].pos] + (-req[s].seen)]
        /\ sold' = sold /\ contended' = contended /\ UNCHANGED <<cash, books>>
    BY <1>6 DEF CommitDelete, Then, Enter, OnRow
  <2>c. /\ req[s].pos \notin contended => req[s].seen = held[req[s].pos]
        /\ req[s].pos \in PosId /\ req[s].seen \in Nat
        /\ held[req[s].pos] \in Nat /\ sold[req[s].pos] \in Int
    BY <2>1, CopyFresh
  <2>2. sold' = [sold EXCEPT ![req[s].pos] = sold[req[s].pos] + 0]
    BY <1>a, <2>1, <2>c
  <2>t. /\ 0 \in Int /\ -req[s].seen \in Int
        /\ req[s].pos \notin contended => 0 + 0 = held[req[s].pos] + (-req[s].seen)
    BY <2>c
  <2>m. Moves(req[s].pos, 0, 0, -req[s].seen)
    BY <2>1, <2>2, <2>t, Zenon DEF Moves
  <2>3. /\ SharesReconcile'
        /\ \A x \in PosId : held'[x] = held[x] \/ x \in Touches(req[s])
    BY <2>1, <2>m, RowReconciles
  <2>4. CashReconciles' /\ \A p \in Portfolio : cash'[p] = cash[p] \/ p \in Touches(req[s])
    BY <1>a, <2>1 DEF CashReconciles
  <2> QED BY <1>0, <2>1, <2>3, <2>4, CommitFrame, NextAt DEF Writes
<1> QED BY <1>1, <1>2, <1>3, <1>4, <1>5, <1>6

LEMMA InitCopies == Init => CopiesInv
<1> SUFFICES ASSUME Init PROVE CopiesInv
  OBVIOUS
<1>1. \A s \in Slot : req[s] = NoRequest
  BY DEF Init
<1>2. NoRequest.at = "idle"
  BY DEF NoRequest
<1>3. Apart /\ CashCopies /\ RowCopies
  BY <1>1, <1>2 DEF Apart, CashCopies, RowCopies, Working
<1>4. CashReconciles /\ SharesReconcile
  BY BoundsAssumption DEF Init, CashReconciles, SharesReconcile
<1> QED BY <1>3, <1>4 DEF CopiesInv

LEMMA StepCopies == IInv /\ CopiesInv /\ [Next]_vars => CopiesInv'
<1> SUFFICES ASSUME IInv, CopiesInv, [Next]_vars PROVE CopiesInv'
  OBVIOUS
<1>1. CASE UNCHANGED vars
  <2>1. TakesNone
    BY <1>1 DEF vars, history, TakesNone, Still
  <2> QED BY <2>1, TakesNoneKeeps
<1>2. CASE User
  BY <1>2, UserTakesNone, TakesNoneKeeps
<1>3. ASSUME NEW s \in Slot, Server(s) \/ Lose(s) \/ Receive(s) PROVE CopiesInv'
  <2>1. CASE Receive(s) \/ Lose(s) \/ RollBack(s) \/ Serve(s) \/ Refresh(s)
    BY <2>1, AnswerTakesNone, TakesNoneKeeps
  <2>2. CASE LoadPosition(s) \/ LoadPortfolio(s)
    BY <2>2, LoadTakes, TakesKeeps
  <2>3. CASE \/ \E x \in PosId : CommitAdd(s, x)
             \/ CommitCash(s) \/ CommitFullSale(s) \/ CommitPartialSale(s)
             \/ CommitModify(s) \/ CommitDelete(s)
    BY <2>3, CommitWrites, WritesKeeps
  <2> QED BY <1>3, <2>1, <2>2, <2>3 DEF Server
<1> QED BY <1>1, <1>2, <1>3 DEF Next

LEMMA CopiesInvariance == Spec => []CopiesInv
  BY InitCopies, StepCopies, Invariance, PTL DEF Spec

\* The balance of a portfolio that was never contended is what its requests
\* add up to.
THEOREM CashAddsUp == Spec => []CashReconciles
<1>1. CopiesInv => CashReconciles
  BY DEF CopiesInv
<1> QED BY <1>1, CopiesInvariance, PTL

\* A position that was never contended has what was entered and not sold.
THEOREM SharesAddUp == Spec => []SharesReconcile
<1>1. CopiesInv => SharesReconcile
  BY DEF CopiesInv
<1> QED BY <1>1, CopiesInvariance, PTL

-----------------------------------------------------------------------------
(* The page is current.  While the page is calm it has one request under   *)
(* way at most, and at each stage of it the copies of the page differ from *)
(* the tables only by what the answer will patch.                          *)

\* Only a sale and a change are dialogs on a row.
DialogShape == dialog.kind \notin {"sell", "modify"} => dialog.pos = None

Alone == \A i, j \in Slot : req[i] # NoRequest /\ req[j] # NoRequest => i = j

\* A dialog on a row is on one of the active portfolio, as it is.
DialogCurrent ==
    dialog.pos \in PosId =>
        home[dialog.pos] = active /\ dialog.qty = held[dialog.pos] /\ dialog.qty > 0

Synced == shown = Rows(active) /\ funds = cash /\ DialogCurrent

\* The request has not written yet, or never will.
Before(r) == r.at \in {"sent", "found", "ready", "failed"}

\* What was asked is about what the page shows.
Asked(r) ==
    /\ r.kind \in OnRow => home[r.pos] = active /\ held[r.pos] > 0
    /\ r.kind \in {"add", "modify"} => r.qty > 0
    /\ r.kind = "add" => r.pid = active
    /\ r.kind \in {"add", "delete"} => r.list = shown

\* What was written is what the answer will patch.
Settled(r) ==
    /\ r.kind \in {"sell", "modify", "patch"} =>
          /\ shown[r.pos] > 0
          /\ Rows(active) = [shown EXCEPT ![r.pos] = held[r.pos]]
    /\ r.kind = "add" => Rows(active) = [r.list EXCEPT ![r.pos] = held[r.pos]]
    /\ r.kind = "delete" => Rows(active) = [r.list EXCEPT ![r.pos] = 0]
    /\ r.kind = "cash" => shown = Rows(active)
    /\ r.kind \in {"modify", "patch", "delete"} => funds = cash
    /\ r.at = "committed" => held[r.pos] > 0
    /\ r.kind \in {"add", "sell", "modify", "patch"} /\ r.at = "answered" =>
          r.seen = held[r.pos]

InFlight(r) ==
    /\ dialog.kind \in {"none", r.kind}
    /\ r.kind = "positions" =>
          funds = cash /\ r.pid = active /\ (r.at = "answered" => r.list = Rows(active))
    /\ r.kind = "balances" =>
          shown = Rows(active) /\ (r.at = "answered" => r.balances = cash)
    /\ r.kind \in Loads => r.at # "failed"
    /\ r.kind \notin Loads => IF Before(r) THEN Synced /\ (r.at # "failed" => Asked(r))
                                          ELSE Settled(r)

PageSync ==
    /\ DialogShape
    /\ calm => /\ Alone
               /\ Quiet => Synced
               /\ \A s \in Slot : req[s] # NoRequest => InFlight(req[s])

LEMMA NoDialogFields == NoDialog.kind = "none" /\ NoDialog.pos = None /\ NoDialog.qty = 0
  BY DEF NoDialog

\* Nothing is open on a row that the request under way is not about.
LEMMA NothingOpen ==
  ASSUME DialogShape, dialog.kind \notin {"sell", "modify"}
  PROVE  DialogCurrent
  BY NoneAssumption DEF DialogShape, DialogCurrent

\* The request under way goes on.
LEMMA Advance ==
  ASSUME IInv, PageSync, NEW s \in Slot, req[s] # NoRequest, NEW r, Put(s, r), r # NoRequest,
         DialogShape', calm' => calm /\ InFlight(r)'
  PROVE  PageSync'
<1>1. req'[s] = r /\ \A i \in Slot \ {s} : req'[i] = req[i]
  BY DEF Put, IInv, ServerInv
<1>2. ASSUME calm' PROVE \A i \in Slot \ {s} : req'[i] = NoRequest
  BY <1>1, <1>2 DEF PageSync, Alone
<1>3. calm' => Alone'
  BY <1>1, <1>2 DEF Alone
<1>4. ~Quiet'
  BY <1>1 DEF Quiet
<1>5. ASSUME calm', NEW i \in Slot, req'[i] # NoRequest PROVE InFlight(req[i])'
  <2>1. i = s
    BY <1>2, <1>5
  <2>2. InFlight(r)'
    BY <1>5
  <2> QED BY <1>1, <2>1, <2>2 DEF InFlight, Before, Asked, Settled
<1> QED BY <1>3, <1>4, <1>5 DEF PageSync

\* It is over.
LEMMA Finish ==
  ASSUME IInv, PageSync, NEW s \in Slot, req[s] # NoRequest, Done(s),
         DialogShape', calm' => calm /\ Synced'
  PROVE  PageSync'
<1>1. req'[s] = NoRequest /\ \A i \in Slot \ {s} : req'[i] = req[i]
  BY DEF Done, Put, IInv, ServerInv
<1>2. ASSUME calm' PROVE \A i \in Slot : req'[i] = NoRequest
  BY <1>1, <1>2 DEF PageSync, Alone
<1> QED BY <1>2 DEF PageSync, Alone

LEMMA NotBlank ==
  ASSUME NEW r, r.at # "idle"
  PROVE  r # NoRequest
  BY DEF NoRequest

\* The request in slot s, when the page is calm.
LEMMA UnderWay ==
  ASSUME IInv, PageSync, calm, NEW s \in Slot, req[s].at # "idle"
  PROVE  /\ req[s] \in Request /\ Good(req[s]) /\ InFlight(req[s])
         /\ req[s] # NoRequest
  BY NotBlank DEF IInv, ServerInv, PageSync

-----------------------------------------------------------------------------
(* What the user does keeps the page current.                              *)

LEMMA SyncOpen ==
  ASSUME IInv, PageSync, NEW d, Open(d), DialogShape',
         Synced => DialogCurrent'
  PROVE  PageSync'
<1>1. UNCHANGED <<home, held, cash, active, shown, funds, req>> /\ (calm' => calm /\ Quiet)
  BY DEF Open, db
<1>2. ASSUME calm' PROVE Synced'
  BY <1>1, <1>2 DEF PageSync, Synced, Rows
<1>3. ASSUME calm' PROVE \A i \in Slot : req'[i] = NoRequest
  BY <1>1, <1>3 DEF Quiet
<1> QED BY <1>2, <1>3 DEF PageSync, Alone

LEMMA SyncOpenOn ==
  ASSUME IInv, PageSync, NEW kind \in {"sell", "modify"}, NEW x \in PosId, OpenOn(kind, x)
  PROVE  PageSync'
<1> DEFINE d == [NoDialog EXCEPT !.kind = kind, !.pos = x, !.qty = shown[x]]
<1>1. Open(d) /\ d.kind = kind /\ d.pos = x /\ d.qty = shown[x]
  BY DEF OpenOn, NoDialog
<1> HIDE DEF d
<1>2. dialog' = d /\ shown[x] > 0 /\ UNCHANGED <<home, held, active>>
  BY <1>1 DEF Open, db
<1>3. DialogShape'
  BY <1>1, <1>2 DEF DialogShape
<1>4. ASSUME Synced PROVE DialogCurrent'
  <2>1. shown[x] = IF home[x] = active THEN held[x] ELSE 0
    BY <1>4 DEF Synced, Rows
  <2> QED BY <1>1, <1>2, <2>1 DEF DialogCurrent
<1> QED BY <1>1, <1>3, <1>4, SyncOpen

LEMMA SyncOpenNew ==
  ASSUME IInv, PageSync, NEW kind \in {"add", "cash"}, OpenNew(kind)
  PROVE  PageSync'
<1> DEFINE d == [NoDialog EXCEPT !.kind = kind]
<1>1. Open(d) /\ d.kind = kind /\ d.pos = None
  BY DEF OpenNew, NoDialog
<1> HIDE DEF d
<1>2. dialog' = d
  BY <1>1 DEF Open
<1>3. DialogShape' /\ DialogCurrent'
  BY <1>1, <1>2, NoneAssumption DEF DialogShape, DialogCurrent
<1> QED BY <1>1, <1>3, SyncOpen

LEMMA SyncClose ==
  ASSUME IInv, PageSync, Close
  PROVE  PageSync'
<1>1. /\ dialog' = NoDialog
      /\ UNCHANGED <<home, held, cash, active, shown, funds, req, calm>>
  BY DEF Close, db, history
<1>2. DialogShape' /\ DialogCurrent'
  BY <1>1, NoDialogFields, NoneAssumption DEF DialogShape, DialogCurrent
<1>3. Synced => Synced'
  BY <1>1, <1>2 DEF Synced, Rows
<1>4. \A r : Asked(r) => Asked(r)'
  BY <1>1 DEF Asked
<1>5. \A r : Settled(r) => Settled(r)'
  BY <1>1 DEF Settled, Rows
<1>6. \A r : InFlight(r) => InFlight(r)'
  BY <1>1, <1>3, <1>4, <1>5, NoDialogFields DEF InFlight, Rows, Before
<1> QED BY <1>1, <1>2, <1>3, <1>6 DEF PageSync, Alone, Quiet

\* A request is sent, about what the page shows.
LEMMA SyncSend ==
  ASSUME IInv, PageSync, NEW s \in Slot, NEW r, Send(s, r), r.at = "sent", r.kind \notin Loads,
         UNCHANGED <<active, shown, funds>>,
         dialog'.kind = dialog.kind, dialog'.pos = dialog.pos, dialog'.qty = dialog.qty,
         dialog.kind \in {"none", r.kind},
         Synced => Asked(r)
  PROVE  PageSync'
<1>1. /\ UNCHANGED <<home, held, cash>> /\ Put(s, r)
      /\ calm' => calm /\ Quiet
  BY DEF Send, db
<1>2. req'[s] = r /\ (\A i \in Slot \ {s} : req'[i] = req[i]) /\ r # NoRequest
  BY <1>1, NotBlank DEF Put, IInv, ServerInv
<1>3. DialogShape'
  BY DEF PageSync, DialogShape
<1>4. ASSUME calm' PROVE Synced /\ Synced' /\ Asked(r)
  <2>1. Synced
    BY <1>1, <1>4 DEF PageSync
  <2> QED BY <1>1, <2>1 DEF Synced, DialogCurrent, Rows
<1>5. ASSUME calm' PROVE InFlight(r)'
  <2>1. Asked(r)'
    BY <1>1, <1>4, <1>5 DEF Asked
  <2> QED BY <1>4, <1>5, <2>1 DEF InFlight, Before, Loads
<1>6. ASSUME calm' PROVE \A i \in Slot \ {s} : req'[i] = NoRequest
  BY <1>1, <1>2, <1>6 DEF Quiet
<1>7. ASSUME calm', NEW i \in Slot, req'[i] # NoRequest PROVE InFlight(req[i])'
  <2>1. i = s
    BY <1>6, <1>7
  <2>2. InFlight(r)'
    BY <1>5, <1>7
  <2> QED BY <1>2, <2>1, <2>2 DEF InFlight, Before, Asked, Settled
<1>8. ~Quiet' /\ (calm' => Alone')
  BY <1>2, <1>6 DEF Quiet, Alone
<1> QED BY <1>3, <1>7, <1>8 DEF PageSync

LEMMA SyncSubmit ==
  ASSUME IInv, PageSync, NEW s \in Slot, NEW r, Submit(s, r), r.at = "sent", r.kind \notin Loads,
         dialog.kind = r.kind, Synced => Asked(r)
  PROVE  PageSync'
<1>1. /\ Send(s, r) /\ UNCHANGED <<active, shown, funds>>
      /\ dialog' = [dialog EXCEPT !.slot = s]
  BY DEF Submit
<1>2. dialog'.kind = dialog.kind /\ dialog'.pos = dialog.pos /\ dialog'.qty = dialog.qty
  BY <1>1 DEF IInv, PageInv, TypePage
<1> QED BY <1>1, <1>2, SyncSend

LEMMA SyncSubmitAdd ==
  ASSUME IInv, PageSync, NEW s \in Slot, NEW n \in Nat \ {0}, NEW b \in BOOLEAN,
         SubmitAdd(s, n, b)
  PROVE  PageSync'
<1> PICK a : a = Ask("add", active)
  OBVIOUS
<1> PICK r : r = [a EXCEPT !.qty = n, !.money = b, !.list = shown]
  OBVIOUS
<1>k. "add" \in Kind /\ active \in Portfolio
  BY DEF Kind, IInv, PageInv, TypePage
<1>1. a \in Request /\ a.kind = "add" /\ a.at = "sent" /\ a.pid = active
  BY <1>k, AskFields
<1>2. Submit(s, r) /\ dialog.kind = "add"
  BY DEF SubmitAdd
<1>3. /\ r.kind = "add" /\ r.at = "sent" /\ r.pid = active /\ r.qty = n /\ r.list = shown
  BY <1>1 DEF Request
<1>4. Asked(r)
  BY <1>3 DEF Asked, OnRow
<1> QED BY <1>2, <1>3, <1>4, SyncSubmit DEF Loads

\* The row of the dialog, while the page is current.
LEMMA DialogRow ==
  ASSUME IInv, dialog.kind \in {"sell", "modify"}
  PROVE  /\ dialog.pos \in PosId /\ home[dialog.pos] \in Portfolio
         /\ Synced => home[dialog.pos] = active /\ held[dialog.pos] > 0
  BY DEF IInv, PageInv, DialogGood, Housed, ServerInv, TypeDb, Synced, DialogCurrent

LEMMA SyncSubmitSell ==
  ASSUME IInv, PageSync, NEW s \in Slot, NEW n \in Nat \ {0}, NEW b \in BOOLEAN,
         SubmitSell(s, n, b)
  PROVE  PageSync'
<1>0. dialog.kind = "sell"
  BY DEF SubmitSell
<1> PICK a : a = Ask("sell", home[dialog.pos])
  OBVIOUS
<1> PICK r : r = [a EXCEPT !.pos = dialog.pos, !.qty = n, !.money = b]
  OBVIOUS
<1>1. a \in Request /\ a.kind = "sell" /\ a.at = "sent"
  BY <1>0, DialogRow, AskFields DEF Kind
<1>2. Submit(s, r)
  BY DEF SubmitSell
<1>3. r.kind = "sell" /\ r.at = "sent" /\ r.pos = dialog.pos
  BY <1>1 DEF Request
<1>4. Synced => Asked(r)
  BY <1>0, <1>3, DialogRow DEF Asked
<1> QED BY <1>0, <1>2, <1>3, <1>4, SyncSubmit DEF Loads

LEMMA SyncSubmitModify ==
  ASSUME IInv, PageSync, NEW s \in Slot, NEW n \in Nat \ {0}, SubmitModify(s, n)
  PROVE  PageSync'
<1>0. dialog.kind = "modify"
  BY DEF SubmitModify
<1> PICK a : a = Ask("modify", home[dialog.pos])
  OBVIOUS
<1> PICK r : r = [a EXCEPT !.pos = dialog.pos, !.qty = n]
  OBVIOUS
<1>k. "modify" \in Kind /\ home[dialog.pos] \in Portfolio
  BY <1>0, DialogRow DEF Kind
<1>1. a \in Request /\ a.kind = "modify" /\ a.at = "sent"
  BY <1>k, AskFields
<1>2. Submit(s, r)
  BY DEF SubmitModify
<1>3. r.kind = "modify" /\ r.at = "sent" /\ r.pos = dialog.pos /\ r.qty = n
  BY <1>1 DEF Request
<1>4. Synced => Asked(r)
  BY <1>0, <1>3, DialogRow DEF Asked
<1> QED BY <1>0, <1>2, <1>3, <1>4, SyncSubmit DEF Loads

LEMMA SyncSubmitCash ==
  ASSUME IInv, PageSync, NEW s \in Slot, NEW n \in Int, SubmitCash(s, n)
  PROVE  PageSync'
<1> PICK a : a = Ask("cash", active)
  OBVIOUS
<1> PICK r : r = [a EXCEPT !.qty = n, !.money = TRUE]
  OBVIOUS
<1>k. "cash" \in Kind /\ active \in Portfolio
  BY DEF Kind, IInv, PageInv, TypePage
<1>1. a \in Request /\ a.kind = "cash" /\ a.at = "sent"
  BY <1>k, AskFields
<1>2. Submit(s, r) /\ dialog.kind = "cash"
  BY DEF SubmitCash
<1>3. r.kind = "cash" /\ r.at = "sent"
  BY <1>1 DEF Request
<1>4. Asked(r)
  BY <1>3 DEF Asked, OnRow
<1> QED BY <1>2, <1>3, <1>4, SyncSubmit DEF Loads

\* A row that the page shows, while it is current.
LEMMA ShownRow ==
  ASSUME IInv, NEW x \in PosId, shown[x] > 0
  PROVE  /\ home[x] \in Portfolio
         /\ Synced => home[x] = active /\ held[x] > 0
<1>1. home[x] \in Portfolio
  BY DEF IInv, PageInv, HousedList, ServerInv, TypeDb
<1>2. ASSUME Synced PROVE home[x] = active /\ held[x] > 0
  <2>1. shown[x] = IF home[x] = active THEN held[x] ELSE 0
    BY <1>2 DEF Synced, Rows
  <2> QED BY <2>1
<1> QED BY <1>1, <1>2

LEMMA SyncClickDelete ==
  ASSUME IInv, PageSync, NEW s \in Slot, NEW x \in PosId, ClickDelete(s, x)
  PROVE  PageSync'
<1> PICK a : a = Ask("delete", home[x])
  OBVIOUS
<1> PICK r : r = [a EXCEPT !.pos = x, !.list = shown]
  OBVIOUS
<1>k. "delete" \in Kind /\ home[x] \in Portfolio
  BY ShownRow DEF ClickDelete, Kind
<1>1. a \in Request /\ a.kind = "delete" /\ a.at = "sent"
  BY <1>k, AskFields
<1>2. /\ Send(s, r) /\ dialog = NoDialog /\ shown[x] > 0
      /\ UNCHANGED <<active, shown, funds, dialog>>
  BY DEF ClickDelete, page
<1>3. r.kind = "delete" /\ r.at = "sent" /\ r.pos = x /\ r.list = shown
  BY <1>1 DEF Request
<1>4. Synced => Asked(r)
  BY <1>2, <1>3, ShownRow DEF Asked
<1> QED BY <1>2, <1>3, <1>4, NoDialogFields, SyncSend DEF Loads

LEMMA SyncPatch ==
  ASSUME IInv, PageSync, NEW s \in Slot, NEW x \in PosId, Patch(s, x)
  PROVE  PageSync'
<1> PICK a : a = Ask("patch", home[x])
  OBVIOUS
<1> PICK r : r = [a EXCEPT !.pos = x]
  OBVIOUS
<1>1. a \in Request /\ a.kind = "patch" /\ a.at = "sent"
  BY ShownRow, AskFields DEF Patch, Kind
<1>2. /\ Send(s, r) /\ dialog = NoDialog /\ shown[x] > 0
      /\ UNCHANGED <<active, shown, funds, dialog>>
  BY DEF Patch, page
<1>3. r.kind = "patch" /\ r.at = "sent" /\ r.pos = x
  BY <1>1 DEF Request
<1>4. Synced => Asked(r)
  BY <1>2, <1>3, ShownRow DEF Asked
<1> QED BY <1>2, <1>3, <1>4, NoDialogFields, SyncSend DEF Loads

\* The other portfolio is loaded; until then the page waits.
LEMMA SyncSelect ==
  ASSUME IInv, PageSync, NEW s \in Slot, NEW p \in Portfolio, Select(s, p)
  PROVE  PageSync'
<1> PICK r : r = Ask("positions", p)
  OBVIOUS
<1>1. r.kind = "positions" /\ r.at = "sent" /\ r.pid = p /\ r # NoRequest
  BY AskFields, NotBlank DEF Kind, Loads
<1>2. /\ dialog = NoDialog /\ active' = p /\ Put(s, r) /\ (calm' => calm /\ Quiet)
      /\ UNCHANGED <<funds, dialog, home, held, cash>>
  BY DEF Select, Send, db
<1>3. req'[s] = r /\ (\A i \in Slot \ {s} : req'[i] = req[i])
  BY <1>2 DEF Put, IInv, ServerInv
<1>4. DialogShape'
  BY <1>2 DEF PageSync, DialogShape
<1>5. ASSUME calm' PROVE InFlight(r)'
  <2>1. funds = cash
    BY <1>2, <1>5 DEF PageSync, Synced
  <2> QED BY <1>1, <1>2, <2>1, NoDialogFields DEF InFlight, Loads
<1>6. ASSUME calm' PROVE \A i \in Slot \ {s} : req'[i] = NoRequest
  BY <1>2, <1>3, <1>6 DEF Quiet
<1>7. ASSUME calm', NEW i \in Slot, req'[i] # NoRequest PROVE InFlight(req[i])'
  <2>1. i = s
    BY <1>6, <1>7
  <2>2. InFlight(r)'
    BY <1>5, <1>7
  <2> QED BY <1>3, <2>1, <2>2 DEF InFlight, Before, Asked, Settled
<1>8. ~Quiet' /\ (calm' => Alone')
  BY <1>1, <1>3, <1>6 DEF Quiet, Alone
<1> QED BY <1>4, <1>7, <1>8 DEF PageSync

LEMMA SyncUser ==
  ASSUME IInv, PageSync, User
  PROVE  PageSync'
<1>1. \A n \in Qty : n \in Nat \ {0} /\ n \in Int /\ -n \in Int
  BY BoundsAssumption DEF Qty
<1>2. CASE \E x \in PosId : OpenOn("sell", x) \/ OpenOn("modify", x)
  BY <1>2, SyncOpenOn
<1>3. CASE OpenNew("add") \/ OpenNew("cash") \/ Close
  BY <1>3, SyncOpenNew, SyncClose
<1>4. CASE \E s \in Slot, n \in Qty, b \in BOOLEAN : SubmitAdd(s, n, b) \/ SubmitSell(s, n, b)
  BY <1>1, <1>4, SyncSubmitAdd, SyncSubmitSell
<1>5. CASE \E s \in Slot, n \in Qty : SubmitModify(s, n) \/ SubmitCash(s, n) \/ SubmitCash(s, -n)
  BY <1>1, <1>5, SyncSubmitModify, SyncSubmitCash
<1>6. CASE \E s \in Slot, x \in PosId : ClickDelete(s, x) \/ Patch(s, x)
  BY <1>6, SyncClickDelete, SyncPatch
<1>7. CASE \E s \in Slot, p \in Portfolio : Select(s, p)
  BY <1>7, SyncSelect
<1> QED BY <1>2, <1>3, <1>4, <1>5, <1>6, <1>7 DEF User

-----------------------------------------------------------------------------
(* So does what the server does.                                           *)

\* What was asked, whatever the handler has loaded since.
SameAsk(q, r) ==
    r.pos = q.pos /\ r.qty = q.qty /\ r.pid = q.pid /\ r.list = q.list

\* A handler that has not written reads on or fails.
LEMMA SyncRead ==
  ASSUME IInv, PageSync, NEW s \in Slot, NEW r, Put(s, r), UNCHANGED <<db, page, calm>>,
         req[s].at \in {"sent", "found", "ready"}, req[s].kind \notin Loads,
         r.kind = req[s].kind, Before(r), r.at # "failed" => SameAsk(req[s], r)
  PROVE  PageSync'
<1>1. UNCHANGED <<home, held, cash, active, shown, funds, dialog>>
  BY DEF db, page
<1>2. DialogShape'
  BY <1>1 DEF PageSync, DialogShape
<1>3. ASSUME calm' PROVE InFlight(r)'
  <2>1. dialog.kind \in {"none", r.kind} /\ Synced /\ Asked(req[s])
    BY <1>3, UnderWay DEF InFlight, Before
  <2>2. Synced'
    BY <1>1, <2>1 DEF Synced, DialogCurrent, Rows
  <2>3. r.at # "failed" => Asked(r)'
    BY <1>1, <2>1 DEF Asked, SameAsk
  <2> QED BY <1>1, <2>1, <2>2, <2>3 DEF InFlight, Before, Loads
<1>4. r # NoRequest /\ req[s] # NoRequest
  BY NotBlank DEF Before
<1> QED BY <1>2, <1>3, <1>4, Advance

LEMMA SyncLoad ==
  ASSUME IInv, PageSync, NEW s \in Slot, LoadPosition(s) \/ LoadPortfolio(s)
  PROVE  PageSync'
<1>0. req[s] \in Request /\ Good(req[s])
  BY DEF IInv, ServerInv
<1>1. CASE LoadPosition(s)
  <2> PICK at : at = IF held[req[s].pos] = 0 THEN "failed"
                     ELSE IF req[s].kind = "sell" THEN "found" ELSE "ready"
    OBVIOUS
  <2> PICK r : r = [req[s] EXCEPT !.seen = held[req[s].pos], !.at = at]
    OBVIOUS
  <2>1. /\ Put(s, r) /\ UNCHANGED <<db, page, calm>> /\ req[s].at = "sent"
        /\ req[s].kind \notin Loads
    BY <1>1 DEF LoadPosition, OnRow, Loads
  <2>2. r.kind = req[s].kind /\ r.at = at /\ SameAsk(req[s], r)
    BY <1>0 DEF Request, SameAsk
  <2> QED BY <2>1, <2>2, SyncRead DEF Before
<1>2. CASE LoadPortfolio(s)
  <2> PICK at : at = IF \/ req[s].kind = "add" /\ req[s].money /\ cash[req[s].pid] < req[s].qty
                        \/ req[s].kind = "cash" /\ cash[req[s].pid] + req[s].qty < 0
                     THEN "failed" ELSE "ready"
    OBVIOUS
  <2> PICK r : r = [req[s] EXCEPT !.balance = cash[req[s].pid], !.at = at]
    OBVIOUS
  <2>1. /\ Put(s, r) /\ UNCHANGED <<db, page, calm>> /\ req[s].at \in {"sent", "found"}
        /\ req[s].kind \notin Loads
    BY <1>0, <1>2 DEF LoadPortfolio, Loads, Good, Shaped
  <2>2. r.kind = req[s].kind /\ r.at = at /\ SameAsk(req[s], r)
    BY <1>0 DEF Request, SameAsk
  <2> QED BY <2>1, <2>2, SyncRead DEF Before
<1> QED BY <1>1, <1>2

LEMMA SyncRollBack ==
  ASSUME IInv, PageSync, NEW s \in Slot, RollBack(s)
  PROVE  PageSync'
<1> PICK r : r = [NoRequest EXCEPT !.kind = req[s].kind, !.at = "failed"]
  OBVIOUS
<1>1. /\ Put(s, r) /\ UNCHANGED <<db, page, calm>> /\ req[s].at = "ready"
      /\ req[s].kind \notin Loads
  BY DEF RollBack, Fail, history, Loads
<1>2. r.kind = req[s].kind /\ r.at = "failed"
  BY DEF NoRequest
<1> QED BY <1>1, <1>2, SyncRead DEF Before

LEMMA SyncServe ==
  ASSUME IInv, PageSync, NEW s \in Slot, Serve(s)
  PROVE  PageSync'
<1>0. req[s] \in Request
  BY DEF IInv, ServerInv
<1> PICK l : l = IF req[s].kind = "positions" THEN Rows(req[s].pid) ELSE req[s].list
  OBVIOUS
<1> PICK b : b = IF req[s].kind = "balances" THEN cash ELSE req[s].balances
  OBVIOUS
<1> PICK r : r = [req[s] EXCEPT !.at = "answered", !.list = l, !.balances = b]
  OBVIOUS
<1>1. /\ Put(s, r) /\ req[s].at = "sent" /\ req[s].kind \in Loads
      /\ UNCHANGED <<home, held, cash, active, shown, funds, dialog, calm>>
  BY DEF Serve, db, page, history
<1>2. /\ r.kind = req[s].kind /\ r.at = "answered" /\ r.pid = req[s].pid
      /\ r.list = l /\ r.balances = b
  BY <1>0 DEF Request
<1>3. DialogShape' /\ r # NoRequest /\ req[s] # NoRequest
  BY <1>1, <1>2, NotBlank DEF PageSync, DialogShape
<1>4. ASSUME calm' PROVE InFlight(r)'
  <2>1. InFlight(req[s])
    BY <1>1, <1>4, UnderWay
  <2> QED BY <1>1, <1>2, <2>1 DEF InFlight, Loads, Rows
<1> QED BY <1>1, <1>3, <1>4, Advance

\* The request that writes, while the page is calm.
LEMMA Ready ==
  ASSUME IInv, PageSync, calm, NEW s \in Slot, req[s].at = "ready", req[s].kind \notin Loads
  PROVE  /\ dialog.kind \in {"none", req[s].kind} /\ Synced /\ Asked(req[s])
         /\ req[s].kind \in OnRow => req[s].pos \in PosId
  BY UnderWay DEF InFlight, Before, Good, Shaped, Live, Housed

\* A COMMIT: the answer, or db.refresh, finds what was written.
LEMMA SyncCommit ==
  ASSUME IInv, PageSync, NEW s \in Slot, NEW r, Put(s, r), UNCHANGED <<page, calm>>,
         req[s].at \in {"ready", "committed"}, req[s].kind \notin Loads, r.kind = req[s].kind,
         r.at \in {"committed", "answered"}, calm => Settled(r)'
  PROVE  PageSync'
<1>1. UNCHANGED <<active, shown, funds, dialog>>
  BY DEF page
<1>2. DialogShape' /\ r # NoRequest /\ req[s] # NoRequest
  BY <1>1, NotBlank DEF PageSync, DialogShape
<1>3. ASSUME calm' PROVE InFlight(r)'
  <2>1. dialog.kind \in {"none", r.kind}
    BY <1>3, UnderWay DEF InFlight
  <2> QED BY <1>1, <1>3, <2>1 DEF InFlight, Before, Loads
<1> QED BY <1>2, <1>3, Advance

\* A row of the page is written.
LEMMA RowWritten ==
  ASSUME IInv, Synced, NEW x \in PosId, home[x] = active, held[x] > 0,
         UNCHANGED <<home, active, shown>>, NEW h, held' = [held EXCEPT ![x] = h]
  PROVE  /\ held'[x] = h /\ shown'[x] > 0
         /\ Rows(active)' = [shown' EXCEPT ![x] = h]
<1>1. shown = [y \in PosId |-> IF home[y] = active THEN held[y] ELSE 0]
  BY DEF Synced, Rows
<1>2. held \in [PosId -> Nat]
  BY DEF IInv, ServerInv, TypeDb
<1>3. held'[x] = h /\ \A y \in PosId \ {x} : held'[y] = held[y]
  BY <1>2
<1>4. shown[x] > 0
  BY <1>1
<1>5. Rows(active)' = [y \in PosId |-> IF home[y] = active THEN held'[y] ELSE 0]
  BY DEF Rows
<1>6. [shown EXCEPT ![x] = h] = [y \in PosId |-> IF home[y] = active THEN held'[y] ELSE 0]
  BY <1>1, <1>3
<1> QED BY <1>3, <1>4, <1>5, <1>6

LEMMA SyncCommitAdd ==
  ASSUME IInv, PageSync, NEW s \in Slot, NEW x \in PosId, CommitAdd(s, x)
  PROVE  PageSync'
<1>0. req[s] \in Request /\ held \in [PosId -> Nat] /\ home \in [PosId -> Portfolio \cup {None}]
  BY DEF IInv, ServerInv, TypeDb
<1> PICK r : r = [req[s] EXCEPT !.at = "committed", !.pos = x]
  OBVIOUS
<1>1. /\ Put(s, r) /\ UNCHANGED <<page, calm>> /\ req[s].at = "ready" /\ req[s].kind = "add"
      /\ home[x] = None /\ home' = [home EXCEPT ![x] = req[s].pid]
      /\ held' = [held EXCEPT ![x] = req[s].qty]
      /\ UNCHANGED <<active, shown>>
  BY DEF CommitAdd, page
<1>2. /\ r.kind = "add" /\ r.at = "committed" /\ r.pos = x /\ r.list = req[s].list
      /\ req[s].kind \notin Loads
  BY <1>0, <1>1 DEF Request, Loads
<1>3. ASSUME calm PROVE Settled(r)'
  <2>1. Synced /\ Asked(req[s])
    BY <1>1, <1>2, <1>3, Ready
  <2>2. req[s].pid = active /\ req[s].list = Rows(active) /\ req[s].qty > 0 /\ active # None
    BY <1>1, <2>1, NoneAssumption DEF Asked, Synced, IInv, PageInv, TypePage
  <2>3. held'[x] = req[s].qty /\ home'[x] = active
        /\ \A y \in PosId \ {x} : held'[y] = held[y] /\ home'[y] = home[y]
    BY <1>0, <1>1, <2>2
  <2>4. Rows(active)' = [y \in PosId |-> IF home'[y] = active THEN held'[y] ELSE 0]
    BY <1>1 DEF Rows
  <2>5. [Rows(active) EXCEPT ![x] = req[s].qty]
            = [y \in PosId |-> IF home'[y] = active THEN held'[y] ELSE 0]
    BY <2>3 DEF Rows
  <2> QED BY <1>2, <2>2, <2>3, <2>4, <2>5 DEF Settled
<1> QED BY <1>1, <1>2, <1>3, SyncCommit

LEMMA SyncCommitCash ==
  ASSUME IInv, PageSync, NEW s \in Slot, CommitCash(s)
  PROVE  PageSync'
<1> PICK r : r = [req[s] EXCEPT !.at = "answered"]
  OBVIOUS
<1>1. /\ Put(s, r) /\ UNCHANGED <<page, calm>> /\ req[s].at = "ready" /\ req[s].kind = "cash"
      /\ UNCHANGED <<home, held, active, shown>>
  BY DEF CommitCash, Then, page
<1>2. r.kind = "cash" /\ r.at = "answered" /\ req[s].kind \notin Loads
  BY <1>1 DEF IInv, ServerInv, Request, Loads
<1>3. ASSUME calm PROVE Settled(r)'
  <2>1. shown = Rows(active)
    BY <1>1, <1>2, <1>3, Ready DEF Synced
  <2> QED BY <1>1, <1>2, <2>1 DEF Settled, Rows
<1> QED BY <1>1, <1>2, <1>3, SyncCommit

\* The row that a request on a row writes.
LEMMA RowSettled ==
  ASSUME IInv, PageSync, calm, NEW s \in Slot, req[s].at = "ready", req[s].kind \in OnRow,
         UNCHANGED <<home, active, shown>>, NEW h, held' = [held EXCEPT ![req[s].pos] = h]
  PROVE  /\ held'[req[s].pos] = h /\ shown'[req[s].pos] > 0
         /\ Rows(active)' = [shown' EXCEPT ![req[s].pos] = h]
<1>1. Synced /\ Asked(req[s]) /\ req[s].pos \in PosId
  BY Ready DEF OnRow, Loads
<1> PICK x \in PosId : x = req[s].pos
  BY <1>1
<1>2. home[x] = active /\ held[x] > 0
  BY <1>1 DEF Asked
<1>3. /\ held'[x] = h /\ shown'[x] > 0
      /\ Rows(active)' = [shown' EXCEPT ![x] = h]
  BY <1>1, <1>2, RowWritten
<1> QED BY <1>3

LEMMA SyncCommitSale ==
  ASSUME IInv, PageSync, NEW s \in Slot, CommitFullSale(s) \/ CommitPartialSale(s)
  PROVE  PageSync'
<1>0. req[s] \in Request /\ req[s].seen \in Nat /\ req[s].qty \in Int
  BY DEF IInv, ServerInv, Request
<1>1. CASE CommitFullSale(s)
  <2> PICK r : r = [req[s] EXCEPT !.at = "answered", !.seen = 0]
    OBVIOUS
  <2>1. /\ Put(s, r) /\ UNCHANGED <<page, calm>> /\ req[s].at = "ready" /\ req[s].kind = "sell"
        /\ held' = [held EXCEPT ![req[s].pos] = 0] /\ UNCHANGED <<home, active, shown>>
    BY <1>1 DEF CommitFullSale, page
  <2>2. /\ r.kind = "sell" /\ r.at = "answered" /\ r.pos = req[s].pos /\ r.seen = 0
        /\ req[s].kind \in OnRow /\ req[s].kind \notin Loads
    BY <1>0, <2>1 DEF Request, OnRow, Loads
  <2>3. ASSUME calm PROVE Settled(r)'
    <3>1. /\ held'[req[s].pos] = 0 /\ shown'[req[s].pos] > 0
          /\ Rows(active)' = [shown' EXCEPT ![req[s].pos] = 0]
      BY <2>1, <2>2, <2>3, RowSettled
    <3> QED BY <2>2, <3>1 DEF Settled
  <2> QED BY <2>1, <2>2, <2>3, SyncCommit
<1>2. CASE CommitPartialSale(s)
  <2> PICK r : r = [req[s] EXCEPT !.at = "committed"]
    OBVIOUS
  <2>1. /\ Put(s, r) /\ UNCHANGED <<page, calm>> /\ req[s].at = "ready" /\ req[s].kind = "sell"
        /\ req[s].qty < req[s].seen
        /\ held' = [held EXCEPT ![req[s].pos] = req[s].seen - req[s].qty]
        /\ UNCHANGED <<home, active, shown>>
    BY <1>2 DEF CommitPartialSale, Then, page
  <2>2. /\ r.kind = "sell" /\ r.at = "committed" /\ r.pos = req[s].pos
        /\ req[s].kind \in OnRow /\ req[s].kind \notin Loads
    BY <1>0, <2>1 DEF Request, OnRow, Loads
  <2> PICK h \in Int : h = req[s].seen - req[s].qty
    BY <1>0
  <2>h. h > 0 /\ held' = [held EXCEPT ![req[s].pos] = h]
    BY <1>0, <2>1
  <2>3. ASSUME calm PROVE Settled(r)'
    <3>1. /\ held'[req[s].pos] = h /\ shown'[req[s].pos] > 0
          /\ Rows(active)' = [shown' EXCEPT ![req[s].pos] = h]
      BY <2>1, <2>2, <2>h, <2>3, RowSettled
    <3> QED BY <2>2, <2>h, <3>1 DEF Settled
  <2> QED BY <2>1, <2>2, <2>3, SyncCommit
<1> QED BY <1>1, <1>2

LEMMA SyncCommitModify ==
  ASSUME IInv, PageSync, NEW s \in Slot, CommitModify(s)
  PROVE  PageSync'
<1>0. req[s] \in Request /\ held \in [PosId -> Nat]
  BY DEF IInv, ServerInv, TypeDb
<1> PICK r : r = [req[s] EXCEPT !.at = "committed"]
  OBVIOUS
<1>1. /\ Put(s, r) /\ UNCHANGED <<page, calm>> /\ req[s].at = "ready"
      /\ req[s].kind \in {"modify", "patch"} /\ held[req[s].pos] > 0
      /\ UNCHANGED <<home, cash, active, shown, funds>>
  BY DEF CommitModify, Then, page
<1>2. /\ r.kind = req[s].kind /\ r.at = "committed" /\ r.pos = req[s].pos
      /\ req[s].kind \in OnRow /\ req[s].kind \notin Loads
  BY <1>0, <1>1 DEF Request, OnRow, Loads
<1>3. PICK h : /\ held' = [held EXCEPT ![req[s].pos] = h]
               /\ h = held[req[s].pos] \/ (req[s].kind = "modify" /\ h = req[s].qty)
  <2>1. CASE req[s].kind = "modify" /\ req[s].qty # req[s].seen
    BY <2>1 DEF CommitModify
  <2>2. CASE ~(req[s].kind = "modify" /\ req[s].qty # req[s].seen)
    <3>1. held' = held
      BY <2>2 DEF CommitModify
    <3>2. held' = [held EXCEPT ![req[s].pos] = held[req[s].pos]]
      BY <1>0, <3>1
    <3> QED BY <3>2
  <2> QED BY <2>1, <2>2
<1>4. ASSUME calm PROVE Settled(r)'
  <2>1. /\ held'[req[s].pos] = h /\ shown'[req[s].pos] > 0
        /\ Rows(active)' = [shown' EXCEPT ![req[s].pos] = h]
    BY <1>1, <1>2, <1>3, <1>4, RowSettled
  <2>2. Synced /\ Asked(req[s])
    BY <1>1, <1>2, <1>4, Ready
  <2>3. h > 0 /\ funds' = cash'
    BY <1>1, <1>3, <2>2 DEF Asked, Synced
  <2> QED BY <1>1, <1>2, <2>1, <2>3 DEF Settled
<1> QED BY <1>1, <1>2, <1>4, SyncCommit

LEMMA SyncCommitDelete ==
  ASSUME IInv, PageSync, NEW s \in Slot, CommitDelete(s)
  PROVE  PageSync'
<1> PICK r : r = [req[s] EXCEPT !.at = "answered"]
  OBVIOUS
<1>1. /\ Put(s, r) /\ UNCHANGED <<page, calm>> /\ req[s].at = "ready" /\ req[s].kind = "delete"
      /\ held' = [held EXCEPT ![req[s].pos] = 0]
      /\ UNCHANGED <<home, cash, active, shown, funds>>
  BY DEF CommitDelete, Then, page
<1>2. /\ r.kind = "delete" /\ r.at = "answered" /\ r.pos = req[s].pos /\ r.list = req[s].list
      /\ req[s].kind \in OnRow /\ req[s].kind \notin Loads
  BY <1>1 DEF IInv, ServerInv, Request, OnRow, Loads
<1>3. ASSUME calm PROVE Settled(r)'
  <2>1. Rows(active)' = [shown' EXCEPT ![req[s].pos] = 0]
    BY <1>1, <1>2, <1>3, RowSettled
  <2>2. req[s].list = shown /\ funds = cash
    BY <1>1, <1>2, <1>3, Ready DEF Asked, Synced
  <2> QED BY <1>1, <1>2, <2>1, <2>2 DEF Settled
<1> QED BY <1>1, <1>2, <1>3, SyncCommit

LEMMA SyncRefresh ==
  ASSUME IInv, PageSync, NEW s \in Slot, Refresh(s)
  PROVE  PageSync'
<1>0. req[s] \in Request /\ Good(req[s])
  BY DEF IInv, ServerInv
<1> PICK now : now = held[req[s].pos]
  OBVIOUS
<1> PICK r : r = [req[s] EXCEPT !.seen = now, !.at = IF now = 0 THEN "failed" ELSE "answered"]
  OBVIOUS
<1>1. /\ Put(s, r) /\ UNCHANGED <<page, calm>> /\ req[s].at = "committed"
      /\ UNCHANGED <<home, held, cash, active, shown, funds, dialog>>
  BY DEF Refresh, page, db, history
<1>2. req[s].kind \in OnRow \cup {"add"} /\ req[s].kind \notin Loads
  BY <1>0, <1>1 DEF Good, Shaped, OnRow, Loads
<1>3. /\ r.kind = req[s].kind /\ r.pos = req[s].pos /\ r.list = req[s].list /\ r.seen = now
      /\ r.at = IF now = 0 THEN "failed" ELSE "answered"
  BY <1>0 DEF Request
<1>4. CASE calm
  <2>1. Settled(req[s])
    BY <1>1, <1>2, <1>4, UnderWay DEF InFlight, Before
  <2>2. now > 0 /\ r.at = "answered"
    BY <1>1, <1>3, <2>1 DEF Settled
  <2>3. Settled(r)'
    BY <1>1, <1>3, <2>1, <2>2 DEF Settled, Rows
  <2> QED BY <1>1, <1>2, <1>3, <2>2, <2>3, SyncCommit
<1>5. CASE ~calm
  <2>1. DialogShape'
    BY <1>1 DEF PageSync, DialogShape
  <2>2. r # NoRequest /\ req[s] # NoRequest
    <3>1. r.at # "idle" /\ req[s].at # "idle"
      BY <1>1, <1>3
    <3> QED BY <3>1, NotBlank
  <2> QED BY <1>1, <1>5, <2>1, <2>2, Advance
<1> QED BY <1>4, <1>5

LEMMA SyncLose ==
  ASSUME IInv, PageSync, NEW s \in Slot, Lose(s)
  PROVE  PageSync'
  BY DEF Lose, page, PageSync, DialogShape

LEMMA SyncServer ==
  ASSUME IInv, PageSync, NEW s \in Slot, Server(s)
  PROVE  PageSync'
  BY SyncServe, SyncLoad, SyncCommitAdd, SyncCommitCash, SyncCommitSale, SyncCommitModify,
     SyncCommitDelete, SyncRollBack, SyncRefresh DEF Server

-----------------------------------------------------------------------------
(* And so do the answers.                                                  *)

LEMMA Closing ==
  ASSUME PageSync, NEW kind, dialog.kind \in {"none", kind}, Closes(kind)
  PROVE  DialogShape' /\ DialogCurrent' /\ dialog'.kind = "none"
<1>1. dialog' = NoDialog \/ (dialog' = dialog /\ dialog.kind = "none")
  BY DEF Closes
<1>2. dialog'.kind = "none" /\ dialog'.pos = None
  BY <1>1, NoDialogFields DEF PageSync, DialogShape
<1> QED BY <1>2, NoneAssumption DEF DialogShape, DialogCurrent

\* A dialog that stays open is on no row when the request is on none of its kind.
LEMMA Staying ==
  ASSUME PageSync, dialog' = dialog
  PROVE  DialogShape' /\ (dialog.kind \notin {"sell", "modify"} => DialogCurrent')
  BY NoneAssumption DEF PageSync, DialogShape, DialogCurrent

\* What an answer finds while the page is calm.
LEMMA Answer ==
  ASSUME IInv, PageSync, NEW s \in Slot, NEW kind, Answered(s, kind)
  PROVE  /\ UNCHANGED <<home, held, cash, active, calm>>
         /\ req[s].kind = kind /\ req[s] # NoRequest
         /\ calm => InFlight(req[s]) /\ dialog.kind \in {"none", kind}
         /\ calm /\ kind \notin Loads => Settled(req[s])
<1>1. /\ UNCHANGED <<home, held, cash, active, calm>>
      /\ req[s].kind = kind /\ req[s].at = "answered"
  BY DEF Answered, db, history
<1>2. req[s] # NoRequest
  BY <1>1, NotBlank
<1>3. calm => InFlight(req[s])
  BY <1>1, UnderWay
<1> QED BY <1>1, <1>2, <1>3 DEF InFlight, Before

\* The answer to a request that wrote, while the page is calm.
LEMMA AnswerSettled ==
  ASSUME IInv, PageSync, calm, NEW s \in Slot,
         NEW kind \in {"add", "cash", "sell", "modify", "patch", "delete"}, Answered(s, kind)
  PROVE  /\ UNCHANGED <<home, held, cash, active>> /\ calm'
         /\ Settled(req[s]) /\ req[s].kind = kind /\ dialog.kind \in {"none", kind}
<1>1. kind \notin Loads
  BY DEF Loads
<1> QED BY <1>1, Answer

\* The copy of the row in the answer is the row.
LEMMA PatchedRow ==
  ASSUME IInv, PageSync, calm, NEW s \in Slot, NEW kind \in {"sell", "modify", "patch"},
         Answered(s, kind), shown' = Patched(req[s])
  PROVE  shown' = Rows(active)'
<1>1. /\ UNCHANGED <<home, held, active>> /\ Settled(req[s])
      /\ req[s].kind = kind /\ req[s].at = "answered"
  BY AnswerSettled DEF Answered
<1>2. /\ shown[req[s].pos] > 0 /\ req[s].seen = held[req[s].pos]
      /\ Rows(active) = [shown EXCEPT ![req[s].pos] = held[req[s].pos]]
  BY <1>1 DEF Settled
<1>3. shown \in [PosId -> Nat]
  BY DEF IInv, PageInv, TypePage
<1>4. Patched(req[s]) = [shown EXCEPT ![req[s].pos] = req[s].seen]
  <2> PICK x : x = req[s].pos
    OBVIOUS
  <2> PICK n : n = req[s].seen
    OBVIOUS
  <2>1. shown[x] # 0 /\ Patched(req[s]) = [shown EXCEPT ![x] = IF shown[x] = 0 THEN 0 ELSE n]
    BY <1>2 DEF Patched
  <2>2. [shown EXCEPT ![x] = IF shown[x] = 0 THEN 0 ELSE n] = [shown EXCEPT ![x] = n]
    BY <2>1
  <2> QED BY <2>1, <2>2
<1> QED BY <1>1, <1>2, <1>4 DEF Rows

LEMMA SyncReceiveLists ==
  ASSUME IInv, PageSync, NEW s \in Slot, ReceivePositions(s) \/ ReceiveBalances(s)
  PROVE  PageSync'
<1>1. CASE ReceivePositions(s)
  <2>1. /\ Answered(s, "positions") /\ shown' = req[s].list /\ Done(s)
        /\ UNCHANGED <<funds, dialog>>
    BY <1>1 DEF ReceivePositions
  <2>2. ASSUME calm' PROVE calm /\ Synced'
    <3>1. /\ calm /\ UNCHANGED <<home, held, cash, active>> /\ InFlight(req[s])
          /\ req[s].kind = "positions" /\ req[s].at = "answered"
          /\ dialog.kind \in {"none", "positions"}
      BY <2>1, <2>2, Answer DEF Answered
    <3>2. funds = cash /\ req[s].list = Rows(active)
      BY <3>1 DEF InFlight
    <3> QED BY <2>1, <3>1, <3>2, Staying DEF Synced, Rows
  <2> QED BY <2>1, <2>2, Answer, Staying, Finish
<1>2. CASE ReceiveBalances(s)
  <2>1. /\ Answered(s, "balances") /\ funds' = req[s].balances /\ Done(s)
        /\ UNCHANGED <<shown, dialog>>
    BY <1>2 DEF ReceiveBalances
  <2>2. ASSUME calm' PROVE calm /\ Synced'
    <3>1. /\ calm /\ UNCHANGED <<home, held, cash, active>> /\ InFlight(req[s])
          /\ req[s].kind = "balances" /\ req[s].at = "answered"
          /\ dialog.kind \in {"none", "balances"}
      BY <2>1, <2>2, Answer DEF Answered
    <3>2. shown = Rows(active) /\ req[s].balances = cash
      BY <3>1 DEF InFlight
    <3> QED BY <2>1, <3>1, <3>2, Staying DEF Synced, Rows
  <2> QED BY <2>1, <2>2, Answer, Staying, Finish
<1> QED BY <1>1, <1>2

LEMMA SyncReceiveModify ==
  ASSUME IInv, PageSync, NEW s \in Slot, ReceiveModify(s)
  PROVE  PageSync'
<1>1. /\ Answered(s, "modify") /\ shown' = Patched(req[s]) /\ Closes("modify") /\ Done(s)
      /\ funds' = funds
  BY DEF ReceiveModify
<1>2. DialogShape'
  <2>1. dialog' = NoDialog \/ dialog' = dialog
    BY <1>1 DEF Closes
  <2> QED BY <2>1, NoDialogFields DEF PageSync, DialogShape
<1>3. ASSUME calm' PROVE calm /\ Synced'
  <2>0. calm
    BY <1>1, <1>3, Answer
  <2>1. /\ calm /\ cash' = cash /\ Settled(req[s]) /\ req[s].kind = "modify"
        /\ dialog.kind \in {"none", "modify"}
    BY <1>1, <2>0, AnswerSettled
  <2>2. funds' = cash'
    BY <1>1, <2>1 DEF Settled
  <2>3. DialogCurrent'
    BY <1>1, <2>1, Closing
  <2> QED BY <1>1, <2>1, <2>2, <2>3, PatchedRow DEF Synced
<1> QED BY <1>1, <1>2, <1>3, Answer, Finish

LEMMA SyncReceivePatch ==
  ASSUME IInv, PageSync, NEW s \in Slot, ReceivePatch(s)
  PROVE  PageSync'
<1>1. /\ Answered(s, "patch") /\ shown' = Patched(req[s]) /\ Done(s)
      /\ funds' = funds /\ dialog' = dialog
  BY DEF ReceivePatch
<1>2. ASSUME calm' PROVE calm /\ Synced'
  <2>0. calm
    BY <1>1, <1>2, Answer
  <2>1. /\ calm /\ cash' = cash /\ Settled(req[s]) /\ req[s].kind = "patch"
        /\ dialog.kind \in {"none", "patch"}
    BY <1>1, <2>0, AnswerSettled
  <2>2. funds' = cash' /\ DialogCurrent'
    BY <1>1, <2>1, Staying DEF Settled
  <2> QED BY <1>1, <2>1, <2>2, PatchedRow DEF Synced
<1> QED BY <1>1, <1>2, Answer, Staying, Finish

LEMMA SyncReceiveDelete ==
  ASSUME IInv, PageSync, NEW s \in Slot, ReceiveDelete(s)
  PROVE  PageSync'
<1>1. /\ Answered(s, "delete") /\ shown' = [req[s].list EXCEPT ![req[s].pos] = 0] /\ Done(s)
      /\ funds' = funds /\ dialog' = dialog
  BY DEF ReceiveDelete
<1>2. ASSUME calm' PROVE calm /\ Synced'
  <2>0. calm
    BY <1>1, <1>2, Answer
  <2>1. /\ calm /\ UNCHANGED <<home, held, cash, active>> /\ Settled(req[s])
        /\ req[s].kind = "delete" /\ dialog.kind \in {"none", "delete"}
    BY <1>1, <2>0, AnswerSettled
  <2>2. funds' = cash' /\ DialogCurrent'
    BY <1>1, <2>1, Staying DEF Settled
  <2>3. shown' = Rows(active)'
    BY <1>1, <2>1 DEF Settled, Rows
  <2> QED BY <2>1, <2>2, <2>3 DEF Synced
<1> QED BY <1>1, <1>2, Answer, Staying, Finish

LEMMA SyncReceiveError ==
  ASSUME IInv, PageSync, NEW s \in Slot, ReceiveError(s)
  PROVE  PageSync'
<1>1. /\ req[s].at = "failed" /\ Done(s) /\ req[s] # NoRequest
      /\ UNCHANGED <<home, held, cash, active, shown, funds, calm>>
  BY NotBlank DEF ReceiveError, db, history
<1>2. dialog'.kind = dialog.kind /\ dialog'.pos = dialog.pos /\ dialog'.qty = dialog.qty
  BY DEF ReceiveError, IInv, PageInv, TypePage
<1>3. DialogShape'
  BY <1>2 DEF PageSync, DialogShape
<1>4. ASSUME calm' PROVE calm /\ Synced'
  <2>1. calm /\ Synced
    BY <1>1, <1>4, UnderWay DEF InFlight, Before
  <2> QED BY <1>1, <1>2, <2>1 DEF Synced, DialogCurrent, Rows
<1> QED BY <1>1, <1>3, <1>4, Finish

\* The balances are loaded again after a purchase, a sale or an adjustment.
LEMMA SyncReload ==
  ASSUME IInv, PageSync, NEW s \in Slot, NEW kind, Answered(s, kind), Closes(kind), Reload(s),
         DialogShape', calm => shown' = Rows(active)'
  PROVE  PageSync'
<1> PICK r : r = Ask("balances", None)
  OBVIOUS
<1>k. "balances" \in Kind
  BY DEF Kind, Loads
<1>1. r.kind = "balances" /\ r.at = "sent" /\ r # NoRequest
  BY <1>k, AskFields, NotBlank
<1>2. Put(s, r)
  BY DEF Reload
<1>3. ASSUME calm' PROVE calm /\ InFlight(r)'
  <2>1. calm /\ dialog.kind \in {"none", kind}
    BY <1>3, Answer
  <2>2. dialog'.kind = "none"
    BY <2>1, Closing
  <2> QED BY <1>1, <2>1, <2>2 DEF InFlight, Loads
<1> QED BY <1>1, <1>2, <1>3, Answer, Advance

LEMMA SyncReceivePaid ==
  ASSUME IInv, PageSync, NEW s \in Slot, ReceiveAdd(s) \/ ReceiveSell(s) \/ ReceiveCash(s)
  PROVE  PageSync'
<1>0. ASSUME NEW kind, Closes(kind) PROVE DialogShape'
  <2>1. dialog' = NoDialog \/ dialog' = dialog
    BY <1>0 DEF Closes
  <2> QED BY <2>1, NoDialogFields DEF PageSync, DialogShape
<1>1. CASE ReceiveAdd(s)
  <2>1. /\ Answered(s, "add") /\ Closes("add") /\ Reload(s)
        /\ shown' = [req[s].list EXCEPT ![req[s].pos] = req[s].seen]
    BY <1>1 DEF ReceiveAdd
  <2>2. ASSUME calm PROVE shown' = Rows(active)'
    <3>1. /\ UNCHANGED <<home, held, active>> /\ Settled(req[s])
          /\ req[s].kind = "add" /\ req[s].at = "answered"
      BY <2>1, <2>2, AnswerSettled DEF Answered
    <3> QED BY <2>1, <3>1 DEF Settled, Rows
  <2> QED BY <1>0, <2>1, <2>2, SyncReload
<1>2. CASE ReceiveSell(s)
  <2>1. /\ Answered(s, "sell") /\ Closes("sell") /\ Reload(s) /\ shown' = Patched(req[s])
    BY <1>2 DEF ReceiveSell
  <2>2. calm => shown' = Rows(active)'
    BY <2>1, PatchedRow
  <2> QED BY <1>0, <2>1, <2>2, SyncReload
<1>3. CASE ReceiveCash(s)
  <2>1. /\ Answered(s, "cash") /\ Closes("cash") /\ Reload(s) /\ shown' = shown
    BY <1>3 DEF ReceiveCash
  <2>2. ASSUME calm PROVE shown' = Rows(active)'
    <3>1. /\ UNCHANGED <<home, held, active>> /\ Settled(req[s]) /\ req[s].kind = "cash"
      BY <2>1, <2>2, AnswerSettled
    <3> QED BY <2>1, <3>1 DEF Settled, Rows
  <2> QED BY <1>0, <2>1, <2>2, SyncReload
<1> QED BY <1>1, <1>2, <1>3

LEMMA SyncReceive ==
  ASSUME IInv, PageSync, NEW s \in Slot, Receive(s)
  PROVE  PageSync'
  BY SyncReceiveLists, SyncReceiveModify, SyncReceivePatch, SyncReceiveDelete,
     SyncReceiveError, SyncReceivePaid DEF Receive

LEMMA InitSync == Init => PageSync
<1> SUFFICES ASSUME Init PROVE PageSync
  OBVIOUS
<1>1. /\ dialog = NoDialog /\ shown = Rows(active) /\ funds = cash
      /\ \A s \in Slot : req[s] = NoRequest
  BY DEF Init
<1>2. DialogShape /\ DialogCurrent
  BY <1>1, NoDialogFields, NothingOpen DEF DialogShape
<1> QED BY <1>1, <1>2 DEF PageSync, Synced, Alone

LEMMA StutterSync == PageSync /\ UNCHANGED vars => PageSync'
<1> SUFFICES ASSUME PageSync, UNCHANGED vars PROVE PageSync'
  OBVIOUS
<1>1. UNCHANGED <<home, held, cash, active, shown, funds, dialog, req, calm>>
  BY DEF vars, db, page, history
<1>2. DialogShape' /\ (DialogCurrent => DialogCurrent') /\ Rows(active)' = Rows(active)
  BY <1>1 DEF PageSync, DialogShape, DialogCurrent, Rows
<1>3. Synced => Synced'
  BY <1>1, <1>2 DEF Synced
<1>4. \A r : Asked(r) => Asked(r)'
  BY <1>1 DEF Asked
<1>5. \A r : Settled(r) => Settled(r)'
  BY <1>1, <1>2 DEF Settled
<1>6. \A r : InFlight(r) => InFlight(r)'
  BY <1>1, <1>2, <1>3, <1>4, <1>5 DEF InFlight, Before
<1> QED BY <1>1, <1>2, <1>3, <1>6 DEF PageSync, Alone, Quiet

LEMMA StepSync == IInv /\ PageSync /\ [Next]_vars => PageSync'
  BY StutterSync, SyncUser, SyncServer, SyncLose, SyncReceive DEF Next

LEMMA SyncInvariance == Spec => []PageSync
  BY InitSync, StepSync, Invariance, PTL DEF Spec

\* A page at rest, whose user has waited for every answer and got it, shows
\* the rows and the balances as they are, and so does the dialog it has open.
THEOREM PageStaysCurrent == Spec => []PageCurrent
<1>1. PageSync => PageCurrent
  BY DEF PageSync, Synced, DialogCurrent, PageCurrent
<1> QED BY <1>1, SyncInvariance, PTL

=============================================================================
