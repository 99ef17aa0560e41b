------------------------- MODULE PaperTradingProofs -------------------------
(***************************************************************************)
(* For any number of trades, worker slots and requests: PaperTrading has   *)
(* the types it claims, positions open at the same time in one trade come  *)
(* from different slots, a closed position stays closed, and the breaker   *)
(* leaves no position of the slot that trips it.  The chains of jobs are   *)
(* counted: none appears but by a start of the worker or of a trade, none  *)
(* disappears but one that is lost, so that the last one outlives as many  *)
(* losses as trades were started.                                          *)
(***************************************************************************)
EXTENDS PaperTrading, FiniteSetTheorems, TLAPS

\* The halves of TypeOK: the positions, what the evaluations keep, the rest.
RowsOK == position \in [PosId -> PosRows] /\ mine \in [Job -> [PosId -> PosRows]]

RoundsOK ==
    /\ pc \in [Job -> {"idle", "fetch", "act", "account", "finally"}]
    /\ seen \in [Job -> SUBSET Trade] /\ todo \in [Job -> SUBSET Trade]
    /\ at \in [Job -> SUBSET Trade] /\ signal \in [Job -> {-1, 0, 1}]
    /\ done \in [Job -> SUBSET Trade] /\ moved \in [Job -> SUBSET Trade]
    /\ stops \in [Job -> SUBSET Trade] /\ locked \in [Job -> SUBSET PosId]

RestOK ==
    /\ trade \in [Trade -> TradeStatus]
    /\ breaker \in [Trade -> SUBSET Job]
    /\ chains \in Nat /\ lost \in 0 .. MaxLost /\ added \in 0 .. MaxAdded
    /\ request \in [Session -> [kind : Kind \cup {"queue", "none"}, at : SUBSET Trade,
                                closes : SUBSET PosId, ready : BOOLEAN]]

LEMMA TypeParts == TypeOK <=> RowsOK /\ RoundsOK /\ RestOK
  BY DEF TypeOK, RowsOK, RoundsOK, RestOK

\* Closing an open row gives a closed row of the same trade.
LEMMA CloseRow ==
  ASSUME NEW r \in PosRow
  PROVE  /\ Close(r) \in PosRow /\ Close(r).status = "closed" /\ Close(r).trade = r.trade
         /\ r # NoPos /\ Close(r) # NoPos
  BY DEF Close, PosRow, NoPos

\* A row that is open or closed is not the missing row.
LEMMA OpenRow ==
  ASSUME NEW r \in PosRows, r.status \in {"open", "closed"} \/ r # NoPos
  PROVE  r \in PosRow /\ r # NoPos
  BY DEF PosRows, PosRow, NoPos

\* What closing the positions in ps does to the rows of job j.
LEMMA ClosingRows ==
  ASSUME RowsOK, NEW j \in Job, NEW ps \in SUBSET PosId,
         \A p \in ps : Visible(j)[p].status = "open"
  PROVE  /\ Closing(j, ps) \in [PosId -> PosRows]
         /\ \A p \in PosId \ ps : Closing(j, ps)[p] = mine[j][p]
         /\ \A p \in ps : /\ Closing(j, ps)[p] \in PosRow
                          /\ Closing(j, ps)[p].status = "closed"
                          /\ Closing(j, ps)[p].trade = Visible(j)[p].trade
  <1>1. \A p \in ps : Visible(j)[p] \in PosRow
    BY OpenRow DEF RowsOK, Visible
  <1>2. \A p \in ps : Closing(j, ps)[p] = Close(Visible(j)[p])
    BY DEF Closing
  <1>3. \A p \in ps : /\ Closing(j, ps)[p] \in PosRow
                      /\ Closing(j, ps)[p].status = "closed"
                      /\ Closing(j, ps)[p].trade = Visible(j)[p].trade
    BY <1>1, <1>2, CloseRow
  <1>4. \A p \in PosId \ ps : Closing(j, ps)[p] = mine[j][p]
    BY DEF Closing
  <1>5. Closing(j, ps) \in [PosId -> PosRows]
    <2>1. Closing(j, ps) = [p \in PosId |-> Closing(j, ps)[p]]
      BY DEF Closing
    <2>2. \A p \in PosId : Closing(j, ps)[p] \in PosRows
      BY <1>3, <1>4 DEF RowsOK, PosRows
    <2> QED
      BY <2>1, <2>2
  <1> QED
    BY <1>3, <1>4, <1>5

-----------------------------------------------------------------------------
(* What a step can do to the position rows, whatever else it does.         *)

Same == position' = position /\ mine' = mine

\* Job j closes visible open positions.
Closes(j) ==
    \E ps \in SUBSET PosId :
        /\ \A p \in ps : Visible(j)[p].status = "open"
        /\ mine' = [mine EXCEPT ![j] = Closing(j, ps)]
        /\ position' = position

\* Job j opens a position in a trade it is at, where it sees none open.
Opens(j) ==
    \E t \in at[j], n \in 1 .. MaxPositions :
        /\ Visible(j)[<<j, n>>] = NoPos
        /\ OpenIn(Visible(j), t) = {}
        /\ mine' = [mine EXCEPT ![j] =
             [mine[j] EXCEPT ![<<j, n>>] = [trade |-> t, status |-> "open"]]]
        /\ position' = position

\* The round of job j ends: it writes its rows, or forgets them.
Ends(j) == mine' = [mine EXCEPT ![j] = Untouched] /\ stops'[j] = {}
Writes(j) == Ends(j) /\ position' = Visible(j)
Forgets(j) == Ends(j) /\ position' = position

\* The rounds of all jobs end with the worker, and forget their rows.
Wipes ==
    /\ position' = position
    /\ mine' = [j \in Job |-> Untouched]
    /\ stops' = Nothing

\* A request closes or removes committed rows.
Edits ==
    /\ mine' = mine
    /\ position' \in [PosId -> PosRows]
    /\ \A p \in PosId :
         \/ position'[p] = position[p]
         \/ /\ position[p] # NoPos /\ position'[p] # NoPos
            /\ position'[p].trade = position[p].trade
            /\ position'[p].status \in {"closed", "gone"}

Effect ==
    \/ Same
    \/ Edits
    \/ Wipes
    \/ \E j \in Job : Closes(j) \/ Opens(j) \/ Writes(j) \/ Forgets(j)

\* A request closes only positions that exist.
ClosesExist ==
    \A u \in Session : \A p \in request[u].closes : p \in PosId /\ position[p] # NoPos

\* Changing the status of an existing row keeps its trade.
LEMMA Restatus ==
  ASSUME NEW r \in PosRows, r # NoPos, NEW s \in {"closed", "gone"}
  PROVE  /\ [trade |-> r.trade, status |-> s] \in PosRows
         /\ [trade |-> r.trade, status |-> s] # NoPos
         /\ [trade |-> r.trade, status |-> s].trade = r.trade
         /\ [trade |-> r.trade, status |-> s].status = s
  BY DEF PosRows, PosRow, NoPos

LEMMA StopEdits ==
  ASSUME RowsOK, ClosesExist, NEW u \in Session, NEW t \in Trade, Stop(u, t)
  PROVE  Edits
  <1>1. \A p \in PosId : \/ position'[p] = position[p]
                         \/ /\ position[p] # NoPos
                            /\ position'[p] = [trade |-> position[p].trade, status |-> "closed"]
    BY DEF Stop, Close, ClosesExist
  <1>2. \A p \in PosId : position[p] \in PosRows
    BY DEF RowsOK
  <1>3. \A p \in PosId : position'[p] \in PosRows
    BY <1>1, <1>2, Restatus
  <1>4. position' \in [PosId -> PosRows]
    BY <1>3 DEF Stop
  <1>5. \A p \in PosId :
          \/ position'[p] = position[p]
          \/ /\ position[p] # NoPos /\ position'[p] # NoPos
             /\ position'[p].trade = position[p].trade
             /\ position'[p].status \in {"closed", "gone"}
    <2> TAKE p \in PosId
    <2>1. CASE position'[p] = position[p]
      BY <2>1
    <2>2. CASE /\ position[p] # NoPos
               /\ position'[p] = [trade |-> position[p].trade, status |-> "closed"]
      <3> DEFINE r == position[p]
                 q == [trade |-> r.trade, status |-> "closed"]
      <3>1. r \in PosRows /\ r # NoPos
        BY <1>2, <2>2
      <3>2. q # NoPos /\ q.trade = r.trade /\ q.status = "closed"
        BY <3>1, Restatus
      <3>3. position'[p] = q
        BY <2>2
      <3> HIDE DEF r, q
      <3>4. /\ r # NoPos /\ position'[p] # NoPos
            /\ position'[p].trade = r.trade /\ position'[p].status = "closed"
        BY <3>1, <3>2, <3>3
      <3> QED
        BY <3>4 DEF r
    <2> QED
      BY <1>1, <2>1, <2>2
  <1> QED
    BY <1>4, <1>5 DEF Edits, Stop, Save, changes

LEMMA DeleteEdits ==
  ASSUME RowsOK, NEW u \in Session, NEW t \in Trade, Delete(u, t)
  PROVE  Edits
  <1>1. \A p \in PosId : \/ position'[p] = position[p]
                         \/ /\ position[p] # NoPos
                            /\ position'[p] = [trade |-> position[p].trade, status |-> "gone"]
    BY OpenRow DEF Delete, RowsOK
  <1>2. \A p \in PosId : position[p] \in PosRows
    BY DEF RowsOK
  <1>3. \A p \in PosId : position'[p] \in PosRows
    BY <1>1, <1>2, Restatus
  <1>4. position' \in [PosId -> PosRows]
    BY <1>3 DEF Delete
  <1>5. \A p \in PosId :
          \/ position'[p] = position[p]
          \/ /\ position[p] # NoPos /\ position'[p] # NoPos
             /\ position'[p].trade = position[p].trade
             /\ position'[p].status \in {"closed", "gone"}
    <2> TAKE p \in PosId
    <2>1. CASE position'[p] = position[p]
      BY <2>1
    <2>2. CASE /\ position[p] # NoPos
               /\ position'[p] = [trade |-> position[p].trade, status |-> "gone"]
      <3> DEFINE r == position[p]
                 q == [trade |-> r.trade, status |-> "gone"]
      <3>1. r \in PosRows /\ r # NoPos
        BY <1>2, <2>2
      <3>2. q # NoPos /\ q.trade = r.trade /\ q.status = "gone"
        BY <3>1, Restatus
      <3>3. position'[p] = q
        BY <2>2
      <3> HIDE DEF r, q
      <3>4. /\ r # NoPos /\ position'[p] # NoPos
            /\ position'[p].trade = r.trade /\ position'[p].status = "gone"
        BY <3>1, <3>2, <3>3
      <3> QED
        BY <3>4 DEF r
    <2> QED
      BY <1>1, <2>1, <2>2
  <1> QED
    BY <1>4, <1>5 DEF Edits, Delete, Save, changes

\* Every step of the system has one of these effects.
LEMMA StepEffect ==
  ASSUME RowsOK, RoundsOK, ClosesExist, [Next]_vars
  PROVE  Effect
  <1>1. ASSUME NEW j \in Job, TakeNone(j) \/ Take(j) \/ Requeue(j) \/ Unqueued(j) PROVE Effect
    BY <1>1 DEF TakeNone, Take, Requeue, Unqueued, rows, changes, Effect, Same
  <1>2. ASSUME NEW j \in Job, NEW t \in Trade, Skip(j, t) \/ StopMissing(j, t) \/ GiveUp(j, t)
        PROVE  Effect
    BY <1>2 DEF Skip, StopMissing, GiveUp, rows, changes, Effect, Same
  <1>3. ASSUME NEW j \in Job, NEW t \in Trade, NEW s \in {-1, 0, 1},
               NEW hit \in SUBSET OpenIn(Visible(j), t), Look(j, t, s, hit)
        PROVE  Effect
    BY <1>3 DEF Look, rows, Effect, Closes, OpenIn
  <1>4. ASSUME NEW j \in Job, NEW t \in Trade, Act(j, t) PROVE Effect
    <2>1. CASE Buys(j, t) /\ \E n \in 1 .. MaxPositions : Opening(j, t, n)
      <3>1. PICK n \in 1 .. MaxPositions : Opening(j, t, n)
        BY <2>1
      <3>2. t \in at[j] /\ OpenIn(Visible(j), t) = {} /\ position' = position
        BY <1>4, <2>1 DEF Act, rows, Buys
      <3>3. Opens(j)
        BY <3>1, <3>2 DEF Opens, Opening
      <3> QED
        BY <3>3 DEF Effect
    <2>2. CASE mine' = [mine EXCEPT ![j] = Closing(j, OpenIn(Visible(j), t))]
      <3>1. OpenIn(Visible(j), t) \in SUBSET PosId
            /\ \A p \in OpenIn(Visible(j), t) : Visible(j)[p].status = "open"
        BY DEF OpenIn
      <3>2. Closes(j)
        BY <1>4, <2>2, <3>1 DEF Closes, Act, rows
      <3> QED
        BY <3>2 DEF Effect
    <2>3. CASE mine' = mine
      BY <1>4, <2>3 DEF Act, rows, Effect, Same
    <2> QED
      BY <1>4, <2>1, <2>2, <2>3 DEF Act
  <1>5. ASSUME NEW j \in Job, NEW t \in Trade, NEW move \in BOOLEAN, NEW trip \in BOOLEAN,
               Account(j, t, move, trip)
        PROVE  Effect
    <2>1. CASE trip
      <3>1. LeftOpen(j, t) \in SUBSET PosId
            /\ \A p \in LeftOpen(j, t) : Visible(j)[p].status = "open"
        BY DEF LeftOpen, OpenIn
      <3>2. mine' = [mine EXCEPT ![j] = Closing(j, LeftOpen(j, t))] /\ position' = position
        BY <1>5, <2>1 DEF Account, rows
      <3>3. Closes(j)
        BY <3>1, <3>2 DEF Closes
      <3> QED
        BY <3>3 DEF Effect
    <2>2. CASE ~trip
      <3>1. mine' = mine /\ position' = position
        BY <1>5, <2>2 DEF Account, rows
      <3> QED
        BY <3>1 DEF Effect, Same
    <2> QED
      BY <2>1, <2>2
  <1>6. ASSUME NEW j \in Job, Commit(j) PROVE Effect
    BY <1>6 DEF Commit, Finish, RoundsOK, Effect, Writes, Ends
  <1>7. ASSUME NEW j \in Job, Fail(j) \/ Abort(j) PROVE Effect
    BY <1>7 DEF Fail, Abort, Finish, rows, RoundsOK, Effect, Forgets, Ends
  <1>8. ASSUME NEW u \in Session, NEW t \in Trade, NEW kind \in Kind, Load(u, kind, t)
        PROVE  Effect
    BY <1>8 DEF Load, rows, changes, Effect, Same
  <1>9. ASSUME NEW u \in Session, NEW t \in Trade,
               SelectOpen(u, t) \/ Start(u, t) \/ Pause(u, t) \/ Resume(u, t)
        PROVE  Effect
    BY <1>9 DEF SelectOpen, Start, Pause, Resume, Save, rows, changes, Effect, Same
  <1>10. ASSUME NEW u \in Session, NEW t \in Trade, Stop(u, t) \/ Delete(u, t) PROVE Effect
    BY <1>10, StopEdits, DeleteEdits DEF Effect
  <1>11. ASSUME NEW u \in Session, Queue(u) \/ QueueFails(u) \/ Drop(u) PROVE Effect
    BY <1>11 DEF Queue, QueueFails, Drop, rows, changes, Effect, Same
  <1>12. CASE Expire \/ UNCHANGED vars
    BY <1>12 DEF Expire, vars, rows, changes, Effect, Same
  <1>13. CASE Restart
    BY <1>13 DEF Restart, rows, Effect, Wipes
  <1> QED
    BY <1>1, <1>2, <1>3, <1>4, <1>5, <1>6, <1>7, <1>8, <1>9, <1>10, <1>11, <1>12, <1>13
    DEF Next, Evaluate, User

-----------------------------------------------------------------------------
(* The invariant of the position rows.                                     *)

\* A job adds rows only under its own ids, which nobody else writes, and of the
\* rows of others it changes the status, to closed.
CopiesOK ==
    \A j \in Job : \A p \in PosId :
        /\ mine[j][p].status \in {"none", "open", "closed"}
        /\ mine[j][p].status = "open" => p[1] = j /\ position[p] = NoPos
        /\ mine[j][p] # NoPos /\ p[1] # j => position[p] # NoPos
        /\ mine[j][p] # NoPos /\ position[p] # NoPos => mine[j][p].trade = position[p].trade

\* OpenedApart, of the rows as each job sees them.
SeenApart ==
    \A j \in Job : \A n, m \in 1 .. MaxPositions :
        LET p == Visible(j)[<<j, n>>]
            q == Visible(j)[<<j, m>>]
        IN p.status = "open" /\ q.status = "open" /\ p.trade = q.trade => n = m

RowInv == RowsOK /\ CopiesOK /\ SeenApart /\ OpenedApart

\* Of its own positions a job sees no other open ones than before, unless it is
\* at their trade or its round has ended; and what is committed as open either
\* was, or is what its job saw.
Narrows ==
    \A i \in Job : \A n \in 1 .. MaxPositions :
        /\ Visible(i)'[<<i, n>>].status = "open" =>
             \/ Visible(i)'[<<i, n>>] = Visible(i)[<<i, n>>]
             \/ Visible(i)'[<<i, n>>].trade \in at[i]
             \/ Visible(i)'[<<i, n>>] = position[<<i, n>>] /\ stops'[i] = {}
        /\ position'[<<i, n>>].status = "open" =>
             position'[<<i, n>>] \in {position[<<i, n>>], Visible(i)[<<i, n>>]}

LEMMA Ids == \A j \in Job : \A n \in 1 .. MaxPositions : <<j, n>> \in PosId /\ <<j, n>>[1] = j
  BY DEF PosId

LEMMA NoPosStatus == NoPos.status = "none" /\ NoPos \in PosRows
  BY DEF NoPos, PosRows

\* What a job sees of a row.
LEMMA Seen ==
  ASSUME NEW j \in Job, NEW p \in PosId
  PROVE  /\ mine[j][p] # NoPos => Visible(j)[p] = mine[j][p]
         /\ mine[j][p] = NoPos => Visible(j)[p] = position[p]
         /\ mine'[j][p] # NoPos => Visible(j)'[p] = mine'[j][p]
         /\ mine'[j][p] = NoPos => Visible(j)'[p] = position'[p]
  BY DEF Visible

LEMMA SameKeeps ==
  ASSUME RowInv, Same
  PROVE  RowInv' /\ Narrows
  BY DEF Same, RowInv, RowsOK, CopiesOK, SeenApart, OpenedApart, Visible, Narrows

LEMMA ClosesKeeps ==
  ASSUME RowInv, NEW j \in Job, Closes(j)
  PROVE  RowInv' /\ Narrows
  <1>1. PICK ps \in SUBSET PosId :
          /\ \A p \in ps : Visible(j)[p].status = "open"
          /\ mine' = [mine EXCEPT ![j] = Closing(j, ps)]
          /\ position' = position
    BY DEF Closes
  <1>2. /\ Closing(j, ps) \in [PosId -> PosRows]
        /\ \A p \in PosId \ ps : Closing(j, ps)[p] = mine[j][p]
        /\ \A p \in ps : /\ Closing(j, ps)[p] \in PosRow
                         /\ Closing(j, ps)[p].status = "closed"
                         /\ Closing(j, ps)[p].trade = Visible(j)[p].trade
    BY <1>1, ClosingRows DEF RowInv
  <1>3. RowsOK'
    BY <1>1, <1>2 DEF RowInv, RowsOK
  <1>4. /\ mine'[j] = Closing(j, ps)
        /\ \A i \in Job \ {j} : mine'[i] = mine[i]
    BY <1>1 DEF RowInv, RowsOK
  <1>5. CopiesOK'
    <2> SUFFICES ASSUME NEW i \in Job, NEW p \in PosId
                 PROVE  /\ mine'[i][p].status \in {"none", "open", "closed"}
                        /\ mine'[i][p].status = "open" => p[1] = i /\ position'[p] = NoPos
                        /\ mine'[i][p] # NoPos /\ p[1] # i => position'[p] # NoPos
                        /\ mine'[i][p] # NoPos /\ position'[p] # NoPos =>
                             mine'[i][p].trade = position'[p].trade
      BY DEF CopiesOK
    <2>1. CASE i # j \/ p \notin ps
      <3>1. mine'[i][p] = mine[i][p]
        BY <1>2, <1>4, <2>1
      <3> QED
        BY <1>1, <3>1 DEF RowInv, CopiesOK
    <2>2. CASE i = j /\ p \in ps
      <3>1. mine'[j][p].status = "closed" /\ mine'[j][p].trade = Visible(j)[p].trade
        BY <1>2, <1>4, <2>2
      <3>2. Visible(j)[p].status = "open"
        BY <1>1, <2>2
      <3>3. CASE mine[j][p] = NoPos
        BY <1>1, <2>2, <3>1, <3>2, <3>3, Seen, NoPosStatus DEF RowInv, CopiesOK
      <3>4. CASE mine[j][p] # NoPos
        BY <1>1, <2>2, <3>1, <3>2, <3>4, Seen DEF RowInv, CopiesOK
      <3> QED
        BY <3>3, <3>4
    <2> QED
      BY <2>1, <2>2
  <1>6. \A i \in Job : \A p \in PosId :
          Visible(i)'[p].status = "open" => Visible(i)'[p] = Visible(i)[p]
    <2> SUFFICES ASSUME NEW i \in Job, NEW p \in PosId, Visible(i)'[p].status = "open"
                 PROVE  Visible(i)'[p] = Visible(i)[p]
      OBVIOUS
    <2>1. CASE i = j /\ p \in ps
      <3>1. mine'[j][p].status = "closed"
        BY <1>2, <1>4, <2>1
      <3> QED
        BY <2>1, <3>1, Seen, NoPosStatus
    <2>2. CASE i # j \/ p \notin ps
      <3>1. mine'[i][p] = mine[i][p] /\ position'[p] = position[p]
        BY <1>1, <1>2, <1>4, <2>2
      <3> QED
        BY <3>1, Seen
    <2> QED
      BY <2>1, <2>2
  <1>7. SeenApart'
    BY <1>6, Ids DEF RowInv, SeenApart
  <1>8. OpenedApart'
    BY <1>1 DEF RowInv, OpenedApart
  <1>9. Narrows
    BY <1>1, <1>6, Ids DEF Narrows
  <1> QED
    BY <1>3, <1>5, <1>7, <1>8, <1>9 DEF RowInv

LEMMA OpensKeeps ==
  ASSUME RowInv, RoundsOK, NEW j \in Job, Opens(j)
  PROVE  RowInv' /\ Narrows
  <1>1. PICK t \in at[j], n \in 1 .. MaxPositions :
          /\ Visible(j)[<<j, n>>] = NoPos
          /\ OpenIn(Visible(j), t) = {}
          /\ mine' = [mine EXCEPT ![j] =
               [mine[j] EXCEPT ![<<j, n>>] = [trade |-> t, status |-> "open"]]]
          /\ position' = position
    BY DEF Opens
  <1> DEFINE new == [trade |-> t, status |-> "open"]
  <1>2. new \in PosRows /\ new # NoPos /\ new.status = "open" /\ new.trade = t
    BY DEF RoundsOK, PosRows, PosRow, NoPos
  <1> HIDE DEF new
  <1>3. <<j, n>> \in PosId /\ <<j, n>>[1] = j
    BY Ids
  <1>4. /\ mine'[j][<<j, n>>] = new
        /\ \A p \in PosId \ {<<j, n>>} : mine'[j][p] = mine[j][p]
        /\ \A i \in Job \ {j} : mine'[i] = mine[i]
    BY <1>1, <1>3 DEF RowInv, RowsOK, new
  <1>5. mine[j][<<j, n>>] = NoPos /\ position[<<j, n>>] = NoPos
    BY <1>1, <1>3, Seen
  <1>6. RowsOK'
    BY <1>1, <1>2 DEF RowInv, RowsOK, new
  <1>7. CopiesOK'
    <2> SUFFICES ASSUME NEW i \in Job, NEW p \in PosId
                 PROVE  /\ mine'[i][p].status \in {"none", "open", "closed"}
                        /\ mine'[i][p].status = "open" => p[1] = i /\ position'[p] = NoPos
                        /\ mine'[i][p] # NoPos /\ p[1] # i => position'[p] # NoPos
                        /\ mine'[i][p] # NoPos /\ position'[p] # NoPos =>
                             mine'[i][p].trade = position'[p].trade
      BY DEF CopiesOK
    <2>1. CASE i = j /\ p = <<j, n>>
      BY <1>1, <1>2, <1>3, <1>4, <1>5, <2>1
    <2>2. CASE i # j \/ p # <<j, n>>
      <3>1. mine'[i][p] = mine[i][p]
        BY <1>4, <2>2
      <3> QED
        BY <1>1, <3>1 DEF RowInv, CopiesOK
    <2> QED
      BY <2>1, <2>2
  <1>8. \A i \in Job : \A p \in PosId :
          i # j \/ p # <<j, n>> => Visible(i)'[p] = Visible(i)[p]
    <2> SUFFICES ASSUME NEW i \in Job, NEW p \in PosId, i # j \/ p # <<j, n>>
                 PROVE  Visible(i)'[p] = Visible(i)[p]
      OBVIOUS
    <2>1. mine'[i][p] = mine[i][p] /\ position'[p] = position[p]
      BY <1>1, <1>4
    <2> QED
      BY <2>1, Seen
  <1>9. SeenApart'
    <2> SUFFICES ASSUME NEW i \in Job, NEW k \in 1 .. MaxPositions, NEW m \in 1 .. MaxPositions,
                        Visible(i)'[<<i, k>>].status = "open",
                        Visible(i)'[<<i, m>>].status = "open",
                        Visible(i)'[<<i, k>>].trade = Visible(i)'[<<i, m>>].trade
                 PROVE  k = m
      BY DEF SeenApart
    <2>1. CASE i # j
      BY <1>8, <2>1, Ids DEF RowInv, SeenApart
    <2>2. ASSUME i = j, NEW l \in 1 .. MaxPositions, Visible(j)'[<<j, l>>].status = "open",
                 Visible(j)'[<<j, l>>].trade = t
          PROVE  l = n
      <3> SUFFICES ASSUME l # n PROVE FALSE
        OBVIOUS
      <3>1. <<j, l>> # <<j, n>> /\ <<j, l>> \in PosId
        BY Ids
      <3>2. Visible(j)'[<<j, l>>] = Visible(j)[<<j, l>>]
        BY <1>8, <3>1
      <3>3. <<j, l>> \in OpenIn(Visible(j), t)
        BY <2>2, <3>1, <3>2 DEF OpenIn
      <3> QED
        BY <1>1, <3>3
    <2>3. Visible(j)'[<<j, n>>].trade = t
      BY <1>2, <1>3, <1>4, Seen
    <2>4. CASE i = j /\ (k = n \/ m = n)
      BY <2>2, <2>3, <2>4
    <2>5. CASE i = j /\ k # n /\ m # n
      <3>1. <<j, k>> # <<j, n>> /\ <<j, m>> # <<j, n>>
        BY <2>5
      <3> QED
        BY <1>8, <2>5, <3>1, Ids DEF RowInv, SeenApart
    <2> QED
      BY <2>1, <2>4, <2>5
  <1>10. OpenedApart'
    BY <1>1 DEF RowInv, OpenedApart
  <1>11. Narrows
    <2>1. Visible(j)'[<<j, n>>].trade \in at[j]
      BY <1>2, <1>3, <1>4, Seen
    <2>2. \A i \in Job : \A m \in 1 .. MaxPositions :
            \/ i = j /\ <<i, m>> = <<j, n>>
            \/ Visible(i)'[<<i, m>>] = Visible(i)[<<i, m>>]
      BY <1>8, Ids
    <2> QED
      BY <1>1, <2>1, <2>2 DEF Narrows
  <1> QED
    BY <1>6, <1>7, <1>9, <1>10, <1>11 DEF RowInv

LEMMA WritesKeeps ==
  ASSUME RowInv, NEW j \in Job, Writes(j)
  PROVE  RowInv' /\ Narrows
  <1>1. /\ position' = Visible(j)
        /\ mine'[j] = Untouched
        /\ \A i \in Job \ {j} : mine'[i] = mine[i]
    BY DEF Writes, Ends, RowInv, RowsOK
  <1>2. \A p \in PosId : mine'[j][p] = NoPos
    BY <1>1 DEF Untouched
  <1>3. RowsOK'
    <2>1. Visible(j) \in [PosId -> PosRows]
      BY DEF RowInv, RowsOK, Visible
    <2>2. mine' \in [Job -> [PosId -> PosRows]]
      BY NoPosStatus DEF Writes, Ends, Untouched, RowInv, RowsOK
    <2> QED
      BY <1>1, <2>1, <2>2 DEF RowsOK
  \* What the write does to one row.
  <1>4. \A p \in PosId :
          /\ position'[p].status = "open" =>
               \/ p[1] = j
               \/ position[p] = position'[p]
          /\ position[p] # NoPos => position'[p] # NoPos /\ position'[p].trade = position[p].trade
          /\ position[p] = NoPos /\ position'[p] # NoPos => p[1] = j
    <2> TAKE p \in PosId
    <2>1. CASE mine[j][p] = NoPos
      <3>1. position'[p] = position[p]
        BY <1>1, <2>1, Seen
      <3> QED
        BY <3>1
    <2>2. CASE mine[j][p] # NoPos
      <3>1. position'[p] = mine[j][p]
        BY <1>1, <2>2, Seen
      <3> QED
        BY <2>2, <3>1 DEF RowInv, CopiesOK
    <2> QED
      BY <2>1, <2>2
  <1>5. CopiesOK'
    <2> SUFFICES ASSUME NEW i \in Job, NEW p \in PosId
                 PROVE  /\ mine'[i][p].status \in {"none", "open", "closed"}
                        /\ mine'[i][p].status = "open" => p[1] = i /\ position'[p] = NoPos
                        /\ mine'[i][p] # NoPos /\ p[1] # i => position'[p] # NoPos
                        /\ mine'[i][p] # NoPos /\ position'[p] # NoPos =>
                             mine'[i][p].trade = position'[p].trade
      BY DEF CopiesOK
    <2>1. CASE i = j
      BY <1>2, <2>1, NoPosStatus
    <2>2. CASE i # j
      <3>1. mine'[i][p] = mine[i][p]
        BY <1>1, <2>2
      <3>2. /\ mine[i][p].status \in {"none", "open", "closed"}
            /\ mine[i][p].status = "open" => p[1] = i /\ position[p] = NoPos
            /\ mine[i][p] # NoPos /\ p[1] # i => position[p] # NoPos
            /\ mine[i][p] # NoPos /\ position[p] # NoPos => mine[i][p].trade = position[p].trade
        BY DEF RowInv, CopiesOK
      <3> QED
        BY <1>4, <2>2, <3>1, <3>2
    <2> QED
      BY <2>1, <2>2
  <1>6. \A i \in Job : \A n \in 1 .. MaxPositions :
          Visible(i)'[<<i, n>>].status = "open" => Visible(i)'[<<i, n>>] = Visible(i)[<<i, n>>]
    <2> SUFFICES ASSUME NEW i \in Job, NEW n \in 1 .. MaxPositions,
                        Visible(i)'[<<i, n>>].status = "open"
                 PROVE  Visible(i)'[<<i, n>>] = Visible(i)[<<i, n>>]
      OBVIOUS
    <2>1. <<i, n>> \in PosId /\ <<i, n>>[1] = i
      BY Ids
    <2>2. CASE i = j
      BY <1>1, <1>2, <2>1, <2>2, Seen
    <2>3. CASE i # j /\ mine[i][<<i, n>>] # NoPos
      BY <1>1, <2>1, <2>3, Seen
    <2>4. CASE i # j /\ mine[i][<<i, n>>] = NoPos
      <3>1. mine'[i][<<i, n>>] = NoPos
        BY <1>1, <2>4
      <3>2. Visible(i)'[<<i, n>>] = position'[<<i, n>>]
        BY <2>1, <3>1, Seen
      <3>3. position[<<i, n>>] = position'[<<i, n>>]
        BY <1>4, <2>1, <2>4, <3>2
      <3> QED
        BY <2>1, <2>4, <3>2, <3>3, Seen
    <2> QED
      BY <2>2, <2>3, <2>4
  <1>7. SeenApart'
    BY <1>6 DEF RowInv, SeenApart
  <1>8. OpenedApart'
    <2> SUFFICES ASSUME NEW i \in Job, NEW n \in 1 .. MaxPositions, NEW m \in 1 .. MaxPositions,
                        position'[<<i, n>>].status = "open", position'[<<i, m>>].status = "open",
                        position'[<<i, n>>].trade = position'[<<i, m>>].trade
                 PROVE  n = m
      BY DEF OpenedApart
    <2>1. CASE i = j
      BY <1>1, <2>1 DEF RowInv, SeenApart
    <2>2. CASE i # j
      <3>1. position[<<i, n>>] = position'[<<i, n>>] /\ position[<<i, m>>] = position'[<<i, m>>]
        BY <1>4, <2>2, Ids
      <3> QED
        BY <3>1 DEF RowInv, OpenedApart
    <2> QED
      BY <2>1, <2>2
  <1>9. Narrows
    <2>1. \A i \in Job : \A n \in 1 .. MaxPositions :
            position'[<<i, n>>].status = "open" =>
              position'[<<i, n>>] \in {position[<<i, n>>], Visible(i)[<<i, n>>]}
      BY <1>1, <1>4, Ids
    <2> QED
      BY <1>6, <2>1 DEF Narrows
  <1> QED
    BY <1>3, <1>5, <1>7, <1>8, <1>9 DEF RowInv

LEMMA ForgetsKeeps ==
  ASSUME RowInv, NEW j \in Job, Forgets(j)
  PROVE  RowInv' /\ Narrows
  <1>1. /\ position' = position
        /\ mine'[j] = Untouched
        /\ \A i \in Job \ {j} : mine'[i] = mine[i]
    BY DEF Forgets, Ends, RowInv, RowsOK
  <1>2. \A p \in PosId : mine'[j][p] = NoPos
    BY <1>1 DEF Untouched
  <1>3. RowsOK'
    BY NoPosStatus DEF Forgets, Ends, Untouched, RowInv, RowsOK
  <1>4. CopiesOK'
    BY <1>1, <1>2, NoPosStatus DEF RowInv, CopiesOK
  <1>5. SeenApart'
    <2> SUFFICES ASSUME NEW i \in Job
                 PROVE  \A n, m \in 1 .. MaxPositions :
                          LET p == Visible(i)'[<<i, n>>]
                              q == Visible(i)'[<<i, m>>]
                          IN p.status = "open" /\ q.status = "open" /\ p.trade = q.trade => n = m
      BY DEF SeenApart
    <2>1. CASE i = j
      <3>1. \A n \in 1 .. MaxPositions : Visible(j)'[<<j, n>>] = position[<<j, n>>]
        BY <1>1, <1>2, Ids, Seen
      <3> QED
        BY <2>1, <3>1 DEF RowInv, OpenedApart
    <2>2. CASE i # j
      <3>1. \A n \in 1 .. MaxPositions : Visible(i)'[<<i, n>>] = Visible(i)[<<i, n>>]
        BY <1>1, <2>2, Ids, Seen
      <3> QED
        BY <3>1 DEF RowInv, SeenApart
    <2> QED
      BY <2>1, <2>2
  <1>6. OpenedApart'
    BY <1>1 DEF RowInv, OpenedApart
  <1>7. Narrows
    <2> SUFFICES ASSUME NEW i \in Job, NEW n \in 1 .. MaxPositions
                 PROVE  \/ Visible(i)'[<<i, n>>] = Visible(i)[<<i, n>>]
                        \/ Visible(i)'[<<i, n>>] = position[<<i, n>>] /\ stops'[i] = {}
      BY <1>1 DEF Narrows
    <2>1. CASE i = j
      BY <1>1, <1>2, <2>1, Ids, Seen DEF Forgets, Ends
    <2>2. CASE i # j
      BY <1>1, <2>2, Ids, Seen
    <2> QED
      BY <2>1, <2>2
  <1> QED
    BY <1>3, <1>4, <1>5, <1>6, <1>7 DEF RowInv

LEMMA WipesKeeps ==
  ASSUME RowInv, Wipes
  PROVE  RowInv' /\ Narrows
  <1>1. /\ position' = position
        /\ \A j \in Job : mine'[j] = Untouched /\ stops'[j] = {}
    BY DEF Wipes, Nothing
  <1>2. \A j \in Job : \A p \in PosId : mine'[j][p] = NoPos
    BY <1>1 DEF Untouched
  <1>3. RowsOK'
    BY NoPosStatus DEF Wipes, Untouched, RowInv, RowsOK
  <1>4. CopiesOK'
    BY <1>2, NoPosStatus DEF CopiesOK
  <1>5. \A j \in Job : \A n \in 1 .. MaxPositions : Visible(j)'[<<j, n>>] = position[<<j, n>>]
    BY <1>1, <1>2, Ids, Seen
  <1>6. SeenApart' /\ OpenedApart'
    BY <1>1, <1>5 DEF RowInv, SeenApart, OpenedApart
  <1>7. Narrows
    BY <1>1, <1>5 DEF Narrows
  <1> QED
    BY <1>3, <1>4, <1>6, <1>7 DEF RowInv

LEMMA EditsKeeps ==
  ASSUME RowInv, Edits
  PROVE  RowInv' /\ Narrows
  <1>1. mine' = mine /\ position' \in [PosId -> PosRows]
    BY DEF Edits
  <1>2. \A p \in PosId :
          \/ position'[p] = position[p]
          \/ /\ position[p] # NoPos /\ position'[p] # NoPos
             /\ position'[p].trade = position[p].trade
             /\ position'[p].status \in {"closed", "gone"}
    BY DEF Edits
  <1>3. RowsOK'
    BY <1>1 DEF RowInv, RowsOK
  <1>4. CopiesOK'
    <2> SUFFICES ASSUME NEW i \in Job, NEW p \in PosId
                 PROVE  /\ mine'[i][p].status \in {"none", "open", "closed"}
                        /\ mine'[i][p].status = "open" => p[1] = i /\ position'[p] = NoPos
                        /\ mine'[i][p] # NoPos /\ p[1] # i => position'[p] # NoPos
                        /\ mine'[i][p] # NoPos /\ position'[p] # NoPos =>
                             mine'[i][p].trade = position'[p].trade
      BY DEF CopiesOK
    <2> QED
      BY <1>1, <1>2 DEF RowInv, CopiesOK
  <1>5. \A i \in Job : \A p \in PosId :
          Visible(i)'[p].status = "open" => Visible(i)'[p] = Visible(i)[p]
    <2> TAKE i \in Job
    <2> TAKE p \in PosId
    <2>1. CASE mine[i][p] = NoPos
      BY <1>1, <1>2, <2>1, Seen
    <2>2. CASE mine[i][p] # NoPos
      BY <1>1, <2>2, Seen
    <2> QED
      BY <2>1, <2>2
  <1>6. SeenApart'
    BY <1>5, Ids DEF RowInv, SeenApart
  <1>7. OpenedApart'
    BY <1>2, Ids DEF RowInv, OpenedApart
  <1>8. Narrows
    <2> SUFFICES ASSUME NEW i \in Job, NEW n \in 1 .. MaxPositions
                 PROVE  /\ Visible(i)'[<<i, n>>].status = "open" =>
                             Visible(i)'[<<i, n>>] = Visible(i)[<<i, n>>]
                        /\ position'[<<i, n>>].status = "open" =>
                             position'[<<i, n>>] = position[<<i, n>>]
      BY DEF Narrows
    <2>1. <<i, n>> \in PosId
      BY Ids
    <2> QED
      BY <1>2, <1>5, <2>1
  <1> QED
    BY <1>3, <1>4, <1>6, <1>7, <1>8 DEF RowInv

LEMMA RowStep ==
  ASSUME RowInv, RoundsOK, Effect
  PROVE  RowInv' /\ Narrows
  BY SameKeeps, EditsKeeps, WipesKeeps, ClosesKeeps, OpensKeeps, WritesKeeps, ForgetsKeeps
  DEF Effect

-----------------------------------------------------------------------------
(* The invariant of the rounds.                                            *)

\* A trade is finished at most once in a round, and an idle slot keeps nothing.
RoundInv ==
    \A j \in Job :
        /\ at[j] \subseteq todo[j] /\ todo[j] \subseteq seen[j]
        /\ done[j] \subseteq seen[j] /\ stops[j] \subseteq seen[j]
        /\ (done[j] \cup stops[j]) \cap todo[j] = {}
        /\ pc[j] \in {"idle", "fetch", "finally"} => at[j] = {}
        /\ pc[j] \in {"idle", "finally"} => seen[j] = {} /\ mine[j] = Untouched

LEMMA FinishRound ==
  ASSUME RowsOK, RoundsOK, RoundInv, NEW j \in Job, Finish(j)
  PROVE  RoundsOK' /\ RoundInv'
  <1>1. RoundsOK'
    BY DEF RoundsOK, Finish
  <1>2. RoundInv'
    BY DEF RowsOK, RoundsOK, RoundInv, Finish
  <1> QED
    BY <1>1, <1>2

LEMMA RoundStep ==
  ASSUME RowsOK, RoundsOK, RoundInv, [Next]_vars
  PROVE  RoundsOK' /\ RoundInv'
  <1>1. ASSUME NEW j \in Job, TakeNone(j) \/ Requeue(j) \/ Unqueued(j)
        PROVE  RoundsOK' /\ RoundInv'
    <2>1. RoundsOK'
      BY <1>1 DEF TakeNone, Requeue, Unqueued, changes, RoundsOK
    <2>2. RoundInv'
      BY <1>1 DEF TakeNone, Requeue, Unqueued, changes, RoundsOK, RoundInv
    <2> QED
      BY <2>1, <2>2
  <1>2. ASSUME NEW j \in Job, Take(j) PROVE RoundsOK' /\ RoundInv'
    <2>1. Active \in SUBSET Trade
      BY DEF Active
    <2>2. RoundsOK'
      BY <1>2, <2>1 DEF Take, changes, RoundsOK
    <2>3. RoundInv'
      BY <1>2, <2>1 DEF Take, changes, RoundsOK, RoundInv
    <2> QED
      BY <2>2, <2>3
  <1>3. ASSUME NEW j \in Job, NEW t \in Trade, Skip(j, t) PROVE RoundsOK' /\ RoundInv'
    <2>1. RoundsOK'
      BY <1>3 DEF Skip, changes, RoundsOK
    <2>2. RoundInv'
      BY <1>3 DEF Skip, changes, RoundsOK, RoundInv
    <2> QED
      BY <2>1, <2>2
  <1>4. ASSUME NEW j \in Job, NEW t \in Trade, StopMissing(j, t) PROVE RoundsOK' /\ RoundInv'
    <2>1. RoundsOK'
      BY <1>4 DEF StopMissing, RoundsOK
    <2>2. RoundInv'
      BY <1>4 DEF StopMissing, RoundsOK, RoundInv
    <2> QED
      BY <2>1, <2>2
  <1>5. ASSUME NEW j \in Job, NEW t \in Trade, NEW s \in {-1, 0, 1},
               NEW hit \in SUBSET OpenIn(Visible(j), t), Look(j, t, s, hit)
        PROVE  RoundsOK' /\ RoundInv'
    <2>1. RoundsOK'
      BY <1>5 DEF Look, RoundsOK
    <2>2. RoundInv'
      BY <1>5 DEF Look, RowsOK, RoundsOK, RoundInv
    <2> QED
      BY <2>1, <2>2
  <1>6. ASSUME NEW j \in Job, NEW t \in Trade, Act(j, t) PROVE RoundsOK' /\ RoundInv'
    <2>1. Dirty(j) \in SUBSET PosId
      BY DEF Dirty
    <2>2. RoundsOK'
      BY <1>6, <2>1 DEF Act, RoundsOK
    <2>3. pc[j] = "act" /\ \A i \in Job \ {j} : mine'[i] = mine[i]
      BY <1>6 DEF Act, Opening, RowsOK
    <2>4. RoundInv'
      BY <1>6, <2>3 DEF Act, RoundsOK, RoundInv
    <2> QED
      BY <2>2, <2>4
  <1>7. ASSUME NEW j \in Job, NEW t \in Trade, NEW move \in BOOLEAN, NEW trip \in BOOLEAN,
               Account(j, t, move, trip)
        PROVE  RoundsOK' /\ RoundInv'
    <2>1. Dirty(j) \in SUBSET PosId
      BY DEF Dirty
    <2>2. RoundsOK'
      BY <1>7, <2>1 DEF Account, RoundsOK
    <2>3. /\ \A i \in Job \ {j} : mine'[i] = mine[i] /\ stops'[i] = stops[i]
          /\ stops'[j] \subseteq stops[j] \cup {t}
      BY <1>7 DEF Account, RowsOK, RoundsOK
    <2>4. RoundInv'
      BY <1>7, <2>3 DEF Account, RoundsOK, RoundInv
    <2> QED
      BY <2>2, <2>4
  <1>8. ASSUME NEW j \in Job, Commit(j) \/ Fail(j) \/ Abort(j) PROVE RoundsOK' /\ RoundInv'
    BY <1>8, FinishRound DEF Commit, Fail, Abort
  <1>9. ASSUME NEW j \in Job, NEW t \in Trade, GiveUp(j, t) PROVE RoundsOK' /\ RoundInv'
    <2>1. Dirty(j) \in SUBSET PosId
      BY DEF Dirty
    <2>2. RoundsOK'
      BY <1>9, <2>1 DEF GiveUp, RoundsOK
    <2>3. RoundInv'
      BY <1>9 DEF GiveUp, RoundsOK, RoundInv
    <2> QED
      BY <2>2, <2>3
  <1>10. ASSUME UNCHANGED <<round, changes>> PROVE RoundsOK' /\ RoundInv'
    BY <1>10 DEF round, changes, RoundsOK, RoundInv
  <1>11. ASSUME NEW u \in Session, User(u) PROVE UNCHANGED <<round, changes>>
    BY <1>11 DEF User, Load, SelectOpen, Start, Pause, Resume, Stop, Delete, Save, Queue,
                 QueueFails, Drop
  <1>12. CASE Restart
    BY <1>12 DEF Restart, Nothing, RoundsOK, RoundInv
  <1>13. CASE Expire \/ UNCHANGED vars
    BY <1>10, <1>13 DEF Expire, vars
  <1> QED
    BY <1>1, <1>2, <1>3, <1>4, <1>5, <1>6, <1>7, <1>8, <1>9, <1>10, <1>11, <1>12, <1>13
    DEF Next, Evaluate

-----------------------------------------------------------------------------
(* The rest of the types.                                                  *)

LEMMA Requeues ==
  ASSUME chains \in Nat, lost \in 0 .. MaxLost, added \in 0 .. MaxAdded, Goes \/ Breaks
  PROVE  chains' \in Nat /\ lost' \in 0 .. MaxLost /\ added' \in 0 .. MaxAdded
  BY BoundsAssumption DEF Goes, Breaks

Requests == [kind : Kind \cup {"queue", "none"}, at : SUBSET Trade, closes : SUBSET PosId,
             ready : BOOLEAN]

\* No position's row disappears.
LEMMA RowsRemain ==
  ASSUME RowInv, Effect
  PROVE  \A p \in PosId : position[p] # NoPos => position'[p] # NoPos
  <1>1. ASSUME NEW j \in Job, Writes(j)
        PROVE  \A p \in PosId : position[p] # NoPos => position'[p] # NoPos
    BY <1>1, Seen DEF Writes
  <1> QED
    BY <1>1 DEF Effect, Same, Edits, Wipes, Closes, Opens, Forgets

LEMMA SaveRest ==
  ASSUME RestOK, NEW u \in Session, NEW kind \in Kind, NEW t \in Trade,
         NEW status \in TradeStatus, Save(u, kind, t, status)
  PROVE  /\ trade' \in [Trade -> TradeStatus] /\ breaker' \in [Trade -> SUBSET Job]
         /\ UNCHANGED queue
  BY DEF Save, RestOK

\* The requests of the next state have their type, and close existing rows.
Known ==
    /\ request' \in [Session -> Requests]
    /\ \A u \in Session : \A p \in request'[u].closes : p \in PosId /\ position[p] # NoPos

\* Slots of the worker are finitely many.
LEMMA RunningFinite == IsFiniteSet(Running)
  <1>1. Running \subseteq Job
    BY DEF Running
  <1> QED
    BY <1>1, SlotsAssumption, FS_Subset

LEMMA RestStep ==
  ASSUME RowInv, RoundsOK, RestOK, ClosesExist, [Next]_vars
  PROVE  RestOK' /\ Known
  <1>0. /\ trade \in [Trade -> TradeStatus] /\ breaker \in [Trade -> SUBSET Job]
        /\ chains \in Nat /\ lost \in 0 .. MaxLost /\ added \in 0 .. MaxAdded
        /\ request \in [Session -> Requests]
    BY DEF RestOK, Requests
  <1> DEFINE Counts == chains' \in Nat /\ lost' \in 0 .. MaxLost /\ added' \in 0 .. MaxAdded
             Rest == trade' \in [Trade -> TradeStatus] /\ breaker' \in [Trade -> SUBSET Job]
  <1>a. ASSUME Rest, Counts, request' = request PROVE RestOK' /\ Known
    BY <1>0, <1>a DEF RestOK, Requests, Known, ClosesExist
  <1>b. ASSUME Rest, Counts, Known PROVE RestOK' /\ Known
    BY <1>b DEF RestOK, Requests, Known
  <1>c. ASSUME NEW u \in Session, NEW new \in Requests, request' = [request EXCEPT ![u] = new],
               \A p \in new.closes : p \in PosId /\ position[p] # NoPos
        PROVE  Known
    BY <1>0, <1>c DEF Known, ClosesExist
  <1>d. ASSUME NEW u \in Session, End(u) PROVE Known
    <2>1. NoRequest \in Requests /\ NoRequest.closes = {}
      BY DEF NoRequest, Requests
    <2> QED
      BY <1>c, <1>d, <2>1 DEF End
  <1>e. ASSUME UNCHANGED queue PROVE Counts
    BY <1>0, <1>e DEF queue
  <1>f. ASSUME UNCHANGED rows PROVE Rest
    BY <1>0, <1>f DEF rows
  <1>g. ASSUME Goes \/ Breaks PROVE Counts
    BY <1>0, <1>g, Requeues
  <1>1. ASSUME NEW j \in Job, TakeNone(j) \/ Take(j) PROVE RestOK' /\ Known
    <2>1. Counts
      BY <1>0, <1>1 DEF TakeNone, Take
    <2> QED
      BY <1>1, <1>a, <1>f, <2>1 DEF TakeNone, Take
  <1>2. ASSUME UNCHANGED <<rows, queue, request>> PROVE RestOK' /\ Known
    BY <1>2, <1>a, <1>e, <1>f
  <1>3. ASSUME NEW j \in Job, Commit(j) PROVE RestOK' /\ Known
    <2>1. trade' \in [Trade -> TradeStatus]
      BY <1>0, <1>3 DEF Commit, TradeStatus
    <2>2. breaker' \in [Trade -> SUBSET Job]
      BY <1>0, <1>3 DEF Commit
    <2> QED
      BY <1>3, <1>a, <1>e, <2>1, <2>2 DEF Commit, Finish
  <1>4. ASSUME NEW j \in Job, Fail(j) \/ Abort(j) PROVE RestOK' /\ Known
    BY <1>2, <1>4 DEF Fail, Abort, Finish
  <1>5. ASSUME NEW j \in Job, Requeue(j) \/ Unqueued(j) PROVE RestOK' /\ Known
    BY <1>5, <1>a, <1>f, <1>g DEF Requeue, Unqueued
  <1>6. ASSUME NEW j \in Job, Evaluate(j) PROVE RestOK' /\ Known
    <2>1. \/ UNCHANGED <<rows, queue, request>>
          \/ TakeNone(j) \/ Take(j) \/ Commit(j) \/ Fail(j) \/ Abort(j)
          \/ Requeue(j) \/ Unqueued(j)
      BY <1>6 DEF Evaluate, Skip, StopMissing, Look, Act, GiveUp, Account
    <2> QED
      BY <1>1, <1>2, <1>3, <1>4, <1>5, <2>1
  <1>7. ASSUME NEW u \in Session, NEW t \in Trade, NEW kind \in Kind, Load(u, kind, t)
        PROVE  RestOK' /\ Known
    <2> DEFINE new == [kind |-> kind, at |-> {t}, closes |-> {}, ready |-> kind # "stop"]
    <2>1. new \in Requests /\ new.closes = {}
      BY DEF Requests
    <2>2. request' = [request EXCEPT ![u] = new]
      BY <1>7 DEF Load
    <2> HIDE DEF new
    <2>3. Known
      BY <1>c, <2>1, <2>2
    <2> QED
      BY <1>7, <1>b, <1>e, <1>f, <2>3 DEF Load
  <1>8. ASSUME NEW u \in Session, NEW t \in Trade, SelectOpen(u, t) PROVE RestOK' /\ Known
    <2> DEFINE new == [kind |-> "stop", at |-> {t}, closes |-> OpenIn(position, t), ready |-> TRUE]
    <2>1. new \in Requests /\ new.closes = OpenIn(position, t)
      BY DEF Requests, Kind, Needs, OpenIn
    <2>2. request' = [request EXCEPT ![u] = new]
      BY <1>8 DEF SelectOpen
    <2> HIDE DEF new
    <2>3. \A p \in OpenIn(position, t) : p \in PosId /\ position[p] # NoPos
      BY NoPosStatus DEF OpenIn
    <2>4. Known
      BY <1>c, <2>1, <2>2, <2>3
    <2> QED
      BY <1>8, <1>b, <1>e, <1>f, <2>4 DEF SelectOpen
  <1>9. ASSUME NEW u \in Session, NEW t \in Trade, NEW kind \in Kind,
               NEW status \in TradeStatus, Save(u, kind, t, status), Known
        PROVE  RestOK' /\ Known
    BY <1>9, <1>b, <1>e, SaveRest
  <1>10. {"start", "pause", "resume", "stop", "delete"} \subseteq Kind
         /\ {"active", "paused", "stopped", "deleted"} \subseteq TradeStatus
    BY DEF Kind, Needs, TradeStatus
  <1>11. ASSUME NEW u \in Session, NEW t \in Trade, Start(u, t) PROVE RestOK' /\ Known
    <2> DEFINE new == [kind |-> "queue", at |-> {}, closes |-> {}, ready |-> TRUE]
    <2>1. new \in Requests /\ new.closes = {}
      BY DEF Requests
    <2>2. request' = [request EXCEPT ![u] = new]
      BY <1>11 DEF Start
    <2> HIDE DEF new
    <2>3. Known
      BY <1>c, <2>1, <2>2
    <2> QED
      BY <1>9, <1>10, <1>11, <2>3 DEF Start
  <1>12. ASSUME NEW u \in Session, NEW t \in Trade,
                Pause(u, t) \/ Resume(u, t) \/ Stop(u, t) \/ Delete(u, t)
         PROVE  RestOK' /\ Known
    <2>1. \/ Save(u, "pause", t, "paused") \/ Save(u, "resume", t, "active")
          \/ Save(u, "stop", t, "stopped") \/ Save(u, "delete", t, "deleted")
      BY <1>12 DEF Pause, Resume, Stop, Delete
    <2>2. End(u)
      BY <1>12 DEF Pause, Resume, Stop, Delete
    <2> QED
      BY <1>d, <1>9, <1>10, <2>1, <2>2
  <1>13. ASSUME NEW u \in Session, Queue(u) \/ QueueFails(u) PROVE RestOK' /\ Known
    BY <1>13, <1>b, <1>d, <1>f, <1>g DEF Queue, QueueFails
  <1>14. ASSUME NEW u \in Session, Drop(u) PROVE RestOK' /\ Known
    BY <1>14, <1>b, <1>d, <1>e, <1>f DEF Drop
  <1>15. CASE Expire
    <2>1. Counts
      BY <1>0, <1>15, BoundsAssumption DEF Expire
    <2> QED
      BY <1>15, <1>a, <1>f, <2>1 DEF Expire
  <1>16. CASE Restart
    <2>1. PICK requeued \in SUBSET Running, seeds \in {0, 1} :
            /\ chains' = chains + Cardinality(Running) + Cardinality(requeued) + seeds
            /\ added' = added + Cardinality(requeued) + seeds
      BY <1>16 DEF Restart
    <2>2. Cardinality(Running) \in Nat /\ Cardinality(requeued) \in Nat
      BY RunningFinite, FS_Subset, FS_CardinalityType
    <2>3. added' <= MaxAdded /\ lost' = lost
      BY <1>16 DEF Restart
    <2>4. Counts
      BY <1>0, <2>1, <2>2, <2>3, BoundsAssumption
    <2> QED
      BY <1>16, <1>a, <1>f, <2>4 DEF Restart
  <1>17. CASE UNCHANGED vars
    BY <1>2, <1>17 DEF vars
  <1> QED
    BY <1>6, <1>7, <1>8, <1>11, <1>12, <1>13, <1>14, <1>15, <1>16, <1>17 DEF Next, User

-----------------------------------------------------------------------------
(* The inductive invariant.                                                *)

IInv == RowInv /\ RoundsOK /\ RoundInv /\ RestOK /\ ClosesExist

LEMMA Initially == Init => IInv
  <1> SUFFICES ASSUME Init PROVE IInv
    OBVIOUS
  <1>1. \A p \in PosId : Untouched[p] = NoPos
    BY DEF Untouched
  <1>2. Untouched \in [PosId -> PosRows]
    BY NoPosStatus DEF Untouched
  <1>3. position = Untouched /\ \A j \in Job : mine[j] = Untouched
    BY DEF Init
  <1>4. RowsOK
    BY <1>2 DEF Init, RowsOK
  <1>5. CopiesOK
    BY <1>1, <1>3, NoPosStatus DEF CopiesOK
  <1>6. \A j \in Job : \A p \in PosId : Visible(j)[p] = NoPos
    BY <1>1, <1>3, Seen
  <1>7. SeenApart /\ OpenedApart
    BY <1>1, <1>3, <1>6, Ids, NoPosStatus DEF SeenApart, OpenedApart
  <1>8. RoundsOK
    BY DEF Init, Nothing, RoundsOK
  <1>9. RoundInv
    BY <1>3 DEF Init, Nothing, RoundInv
  <1>10. RestOK
    BY BoundsAssumption DEF Init, NoRequest, RestOK, TradeStatus
  <1>11. ClosesExist
    BY DEF Init, NoRequest, ClosesExist
  <1> QED
    BY <1>4, <1>5, <1>7, <1>8, <1>9, <1>10, <1>11 DEF IInv, RowInv

LEMMA Keeps == IInv /\ [Next]_vars => IInv' /\ Effect /\ Narrows
  <1> SUFFICES ASSUME IInv, [Next]_vars PROVE IInv' /\ Effect /\ Narrows
    OBVIOUS
  <1>1. RowsOK
    BY DEF IInv, RowInv
  <1>2. Effect
    BY <1>1, StepEffect DEF IInv
  <1>3. RowInv' /\ Narrows
    BY <1>2, RowStep DEF IInv
  <1>4. RoundsOK' /\ RoundInv'
    BY <1>1, RoundStep DEF IInv
  <1>5. RestOK' /\ Known
    BY RestStep DEF IInv
  <1>6. ClosesExist'
    BY <1>2, <1>5, RowsRemain DEF IInv, Known, ClosesExist
  <1> QED
    BY <1>2, <1>3, <1>4, <1>5, <1>6 DEF IInv

LEMMA Invariance == Spec => []IInv
  <1>1. IInv /\ [Next]_vars => IInv'
    BY Keeps
  <1> QED
    BY <1>1, Initially, PTL DEF Spec

\* The rows, the copies of the jobs and the requests keep the types that the
\* models of trading/paper_worker.py declare.
THEOREM TypeCorrect == Spec => []TypeOK
  <1>1. IInv => TypeOK
    BY TypeParts DEF IInv, RowInv
  <1> QED
    BY <1>1, Invariance, PTL

\* "BUY signal with no open position" holds of every worker slot: positions
\* of one trade that are open together come from evaluations that overlapped,
\* for any number of trades, slots and requests.
THEOREM OpenedStaysApart == Spec => []OpenedApart
  <1>1. IInv => OpenedApart
    BY DEF IInv, RowInv
  <1> QED
    BY <1>1, Invariance, PTL

\* No job and no request opens a closed position again, however old the copy
\* it writes from.
THEOREM ClosedPositionsStay == Spec => ClosedStaysClosed
  <1>1. ASSUME RowInv, Effect, NEW p \in PosId, position[p].status = "closed"
        PROVE  position'[p].status \in {"closed", "gone"}
    <2>1. ASSUME NEW j \in Job, Writes(j) PROVE position'[p].status \in {"closed", "gone"}
      <3>1. CASE mine[j][p] = NoPos
        BY <1>1, <2>1, <3>1, Seen DEF Writes
      <3>2. CASE mine[j][p] # NoPos
        <4>1. position'[p] = mine[j][p]
          BY <2>1, <3>2, Seen DEF Writes
        <4>2. mine[j][p].status # "open"
          BY <1>1, NoPosStatus DEF RowInv, CopiesOK
        <4>3. mine[j][p] \in PosRow
          BY <1>1, <3>2, OpenRow DEF RowInv, RowsOK
        <4>4. mine[j][p].status \in {"closed", "gone"}
          BY <4>2, <4>3 DEF PosRow
        <4> QED
          BY <4>1, <4>4
      <3> QED
        BY <3>1, <3>2
    <2> QED
      BY <1>1, <2>1 DEF Effect, Same, Edits, Wipes, Closes, Opens, Forgets
  <1>2. IInv /\ [Next]_vars =>
          [\A p \in PosId : position[p].status = "closed" =>
             position'[p].status \in {"closed", "gone"}]_vars
    BY <1>1, Keeps DEF IInv
  <1> QED
    BY <1>2, Invariance, PTL DEF Spec, ClosedStaysClosed


-----------------------------------------------------------------------------
(* What the circuit breaker leaves.                                        *)

\* No position of slot j is open in trade t.
Clear(positions, j, t) == \A n \in 1 .. MaxPositions : <<j, n>> \notin OpenIn(positions, t)

\* A trade the breaker stopped is one the job no longer works on.
BreakerInv ==
    \A t \in Trade : \A j \in breaker[t] :
        /\ Clear(position, j, t) /\ Clear(Visible(j), j, t)
        /\ t \notin seen[j] /\ trade[t] = "stopped"

\* In a round, the trades whose breaker tripped are those both finished and stopped.
TripsInv == \A j \in Job : \A t \in stops[j] \cap done[j] : Clear(Visible(j), j, t)

\* How a step carries Clear over.
LEMMA ClearStep ==
  ASSUME Narrows, NEW j \in Job, NEW t \in Trade, Clear(Visible(j), j, t), t \notin at[j]
  PROVE  /\ stops'[j] # {} => Clear(Visible(j)', j, t)
         /\ Clear(position, j, t) => Clear(position', j, t) /\ Clear(Visible(j)', j, t)
  BY Ids DEF Narrows, Clear, OpenIn

\* A step writes a breaker's stop, or keeps or clears what was written; and a
\* job starts with active trades only.
LEMMA BreakerMoves ==
  ASSUME RowsOK, RoundsOK, RestOK, [Next]_vars, NEW t \in Trade, NEW j \in breaker'[t]
  PROVE  \/ /\ j \in Job /\ Commit(j) /\ t \in stops[j] \cap done[j]
            /\ trade'[t] = "stopped" /\ seen'[j] = {}
         \/ /\ j \in breaker[t] /\ trade'[t] = trade[t]
            /\ seen'[j] \subseteq seen[j] \cup Active
  <1> DEFINE Trips == /\ j \in Job /\ Commit(j) /\ t \in stops[j] \cap done[j]
                      /\ trade'[t] = "stopped" /\ seen'[j] = {}
             Stays == /\ j \in breaker[t] /\ trade'[t] = trade[t]
                      /\ seen'[j] \subseteq seen[j] \cup Active
  <1>0. breaker \in [Trade -> SUBSET Job] /\ seen \in [Job -> SUBSET Trade]
        /\ trade \in [Trade -> TradeStatus]
    BY DEF RestOK, RoundsOK
  <1>a. ASSUME UNCHANGED rows, NEW i \in Job, NEW S \in SUBSET Active,
               seen' = [seen EXCEPT ![i] = S]
        PROVE  Stays
    <2>1. j \in breaker[t] /\ j \in Job /\ trade'[t] = trade[t]
      BY <1>0, <1>a DEF rows
    <2>2. seen'[j] \subseteq seen[j] \cup Active
      BY <1>0, <1>a, <2>1
    <2> QED
      BY <2>1, <2>2
  <1>b. ASSUME UNCHANGED rows, UNCHANGED seen PROVE Stays
    BY <1>0, <1>b DEF rows
  <1>1. ASSUME NEW i \in Job, Commit(i) PROVE Trips \/ Stays
    <2>1. CASE t \in stops[i]
      <3>1. t \in done[i] /\ j = i
        BY <1>1, <2>1 DEF Commit
      <3> QED
        BY <1>0, <1>1, <2>1, <3>1 DEF Commit, Finish
    <2>2. CASE t \notin stops[i]
      BY <1>0, <1>1, <2>2 DEF Commit, Finish
    <2> QED
      BY <2>1, <2>2
  <1>2. ASSUME NEW i \in Job, Fail(i) \/ Abort(i) PROVE Stays
    <2>1. UNCHANGED rows /\ seen' = [seen EXCEPT ![i] = {}]
      BY <1>2 DEF Fail, Abort, Finish
    <2> QED
      BY <1>a, <2>1
  <1>3. ASSUME NEW i \in Job, Take(i) PROVE Stays
    BY <1>3, <1>a DEF Take
  <1>4. ASSUME NEW i \in Job, Evaluate(i), ~Commit(i), ~Fail(i), ~Abort(i), ~Take(i)
        PROVE  UNCHANGED rows /\ UNCHANGED seen
    <2>1. ASSUME TakeNone(i) \/ Requeue(i) \/ Unqueued(i)
          PROVE  UNCHANGED rows /\ UNCHANGED seen
      BY <2>1 DEF TakeNone, Requeue, Unqueued
    <2>2. ASSUME NEW s \in Trade, Skip(i, s) \/ StopMissing(i, s) \/ GiveUp(i, s)
          PROVE  UNCHANGED rows /\ UNCHANGED seen
      BY <2>2 DEF Skip, StopMissing, GiveUp
    <2>3. ASSUME NEW s \in Trade, Act(i, s) PROVE UNCHANGED rows /\ UNCHANGED seen
      BY <2>3 DEF Act
    <2> QED
      BY <1>4, <2>1, <2>2, <2>3 DEF Evaluate, Look, Account
  <1>5. ASSUME NEW u \in Session, NEW s \in Trade, NEW kind \in Kind, NEW status \in TradeStatus,
               Save(u, kind, s, status)
        PROVE  Stays
    BY <1>0, <1>5 DEF Save, round
  <1>6. ASSUME NEW u \in Session, User(u) PROVE Stays
    <2>1. \/ UNCHANGED rows /\ UNCHANGED seen
          \/ \E s \in Trade, kind \in Kind, status \in TradeStatus : Save(u, kind, s, status)
      <3>1. {"start", "pause", "resume", "stop", "delete"} \subseteq Kind
            /\ {"active", "paused", "stopped", "deleted"} \subseteq TradeStatus
        BY DEF Kind, Needs, TradeStatus
      <3>2. ASSUME NEW s \in Trade,
                   Start(u, s) \/ Pause(u, s) \/ Resume(u, s) \/ Stop(u, s) \/ Delete(u, s)
            PROVE  \E kind \in Kind, status \in TradeStatus : Save(u, kind, s, status)
        <4>1. \/ Save(u, "start", s, "active") \/ Save(u, "pause", s, "paused")
              \/ Save(u, "resume", s, "active") \/ Save(u, "stop", s, "stopped")
              \/ Save(u, "delete", s, "deleted")
          BY <3>2 DEF Start, Pause, Resume, Stop, Delete
        <4> QED
          BY <3>1, <4>1
      <3> QED
        BY <1>6, <3>2 DEF User, Load, SelectOpen, Queue, QueueFails, Drop, round
    <2> QED
      BY <1>b, <1>5, <2>1
  <1>7. CASE Expire \/ UNCHANGED vars
    BY <1>7, <1>b DEF Expire, vars, round
  <1>8. CASE Restart
    BY <1>0, <1>8 DEF Restart, rows, Nothing
  <1> QED
    BY <1>1, <1>2, <1>3, <1>4, <1>6, <1>7, <1>8, <1>b DEF Next

\* A round adds to the trades that tripped only the one it is at, and leaves none
\* of its positions open.
LEMMA TripMoves ==
  ASSUME RowsOK, RoundsOK, RoundInv, [Next]_vars,
         NEW j \in Job, NEW t \in stops'[j] \cap done'[j]
  PROVE  t \in stops[j] \cap done[j] \/ Clear(Visible(j)', j, t)
  <1>0. done \in [Job -> SUBSET Trade] /\ stops \in [Job -> SUBSET Trade]
    BY DEF RoundsOK
  <1>1. ASSUME NEW i \in Job, NEW s \in Trade, StopMissing(i, s)
        PROVE  t \in stops[j] \cap done[j]
    BY <1>0, <1>1 DEF StopMissing, RoundInv
  <1>2. ASSUME NEW i \in Job, NEW s \in Trade, NEW move \in BOOLEAN, NEW trip \in BOOLEAN,
               Account(i, s, move, trip)
        PROVE  t \in stops[j] \cap done[j] \/ Clear(Visible(j)', j, t)
    <2>1. CASE i = j /\ t = s /\ trip
      <3>1. /\ LeftOpen(j, t) \in SUBSET PosId
            /\ \A p \in LeftOpen(j, t) : Visible(j)[p].status = "open"
        BY DEF LeftOpen, OpenIn
      <3>2. mine'[j] = Closing(j, LeftOpen(j, t)) /\ position' = position
        BY <1>2, <2>1 DEF Account, rows, RowsOK
      <3>3. \A p \in LeftOpen(j, t) : mine'[j][p].status = "closed" /\ mine'[j][p] # NoPos
        BY <3>1, <3>2, ClosingRows, NoPosStatus
      <3>4. \A p \in PosId \ LeftOpen(j, t) : mine'[j][p] = mine[j][p]
        BY <3>1, <3>2, ClosingRows
      <3>5. \A p \in PosId : p \notin OpenIn(Visible(j)', t)
        <4> SUFFICES ASSUME NEW p \in PosId PROVE p \notin OpenIn(Visible(j)', t)
          OBVIOUS
        <4>1. CASE p \in LeftOpen(j, t)
          BY <3>3, <4>1, Seen DEF OpenIn
        <4>2. CASE p \notin LeftOpen(j, t)
          <5>1. Visible(j)'[p] = Visible(j)[p]
            BY <3>2, <3>4, <4>2, Seen
          <5> QED
            BY <4>2, <5>1 DEF LeftOpen, OpenIn
        <4> QED
          BY <4>1, <4>2
      <3> QED
        BY <3>5, Ids DEF Clear
    <2>2. CASE ~(i = j /\ t = s /\ trip)
      BY <1>0, <1>2, <2>2 DEF Account, RoundInv
    <2> QED
      BY <2>1, <2>2
  <1>3. ASSUME NEW i \in Job, Commit(i) \/ Fail(i) \/ Abort(i) PROVE t \in stops[j] \cap done[j]
    BY <1>0, <1>3 DEF Commit, Fail, Abort, Finish
  <1>4. ASSUME UNCHANGED <<done, stops>> PROVE t \in stops[j] \cap done[j]
    BY <1>4
  <1>5. ASSUME NEW i \in Job, Evaluate(i)
        PROVE  \/ UNCHANGED <<done, stops>>
               \/ \E s \in Trade : StopMissing(i, s)
               \/ \E s \in Trade, move, trip \in BOOLEAN : Account(i, s, move, trip)
               \/ Commit(i) \/ Fail(i) \/ Abort(i)
    BY <1>5 DEF Evaluate, TakeNone, Take, Skip, Look, Act, GiveUp, Requeue, Unqueued, changes
  <1>6. ASSUME NEW u \in Session, User(u) PROVE UNCHANGED <<done, stops>>
    BY <1>6 DEF User, Load, SelectOpen, Start, Pause, Resume, Stop, Delete, Save, Queue,
                QueueFails, Drop, changes
  <1>7. CASE Expire \/ UNCHANGED vars
    BY <1>4, <1>7 DEF Expire, vars, changes
  <1>8. CASE Restart
    BY <1>8 DEF Restart, Nothing
  <1> QED
    BY <1>1, <1>2, <1>3, <1>4, <1>5, <1>6, <1>7, <1>8 DEF Next

LEMMA BreakerStep ==
  ASSUME IInv, BreakerInv, TripsInv, [Next]_vars
  PROVE  BreakerInv' /\ TripsInv'
  <1>0. RowsOK /\ RoundsOK /\ RoundInv /\ RestOK /\ Effect /\ Narrows
    BY Keeps DEF IInv, RowInv
  <1>1. TripsInv'
    <2> SUFFICES ASSUME NEW j \in Job, NEW t \in stops'[j] \cap done'[j]
                 PROVE  Clear(Visible(j)', j, t)
      BY DEF TripsInv
    <2>1. CASE t \in stops[j] \cap done[j]
      <3>1. t \in Trade /\ t \notin at[j] /\ Clear(Visible(j), j, t)
        BY <1>0, <2>1 DEF RoundsOK, RoundInv, TripsInv
      <3> QED
        BY <1>0, <3>1, ClearStep
    <2> QED
      BY <1>0, <2>1, TripMoves
  <1>2. BreakerInv'
    <2> SUFFICES ASSUME NEW t \in Trade, NEW j \in breaker'[t]
                 PROVE  /\ Clear(position', j, t) /\ Clear(Visible(j)', j, t)
                        /\ t \notin seen'[j] /\ trade'[t] = "stopped"
      BY DEF BreakerInv
    <2>1. CASE /\ j \in Job /\ Commit(j) /\ t \in stops[j] \cap done[j]
               /\ trade'[t] = "stopped" /\ seen'[j] = {}
      <3>1. position' = Visible(j) /\ mine'[j] = Untouched
        BY <1>0, <2>1 DEF Commit, Finish, RowsOK
      <3>2. Clear(Visible(j), j, t)
        BY <2>1 DEF TripsInv
      <3>3. \A p \in PosId : Visible(j)'[p] = position'[p]
        BY <2>1, <3>1, Seen DEF Untouched
      <3> QED
        BY <2>1, <3>1, <3>2, <3>3, Ids DEF Clear, OpenIn
    <2>2. CASE /\ j \in breaker[t] /\ trade'[t] = trade[t]
               /\ seen'[j] \subseteq seen[j] \cup Active
      <3>1. /\ Clear(position, j, t) /\ Clear(Visible(j), j, t)
            /\ t \notin seen[j] /\ trade[t] = "stopped" /\ j \in Job
        BY <1>0, <2>2 DEF BreakerInv, RestOK
      <3>2. t \notin at[j] /\ t \notin Active
        BY <1>0, <3>1 DEF RoundInv, Active
      <3>3. Clear(position', j, t) /\ Clear(Visible(j)', j, t)
        BY <1>0, <3>1, <3>2, ClearStep
      <3> QED
        BY <2>2, <3>1, <3>2, <3>3
    <2> QED
      BY <1>0, <2>1, <2>2, BreakerMoves
  <1> QED
    BY <1>1, <1>2

\* A trade that the breaker stopped has no open position left of the worker slot
\* that stopped it, until a request changes the trade: whatever other jobs and
\* requests write in between.
THEOREM BreakerClosesAll == Spec => []BreakerLeavesNone
  <1>1. Init => BreakerInv /\ TripsInv
    BY DEF Init, Nothing, BreakerInv, TripsInv
  <1>2. IInv /\ BreakerInv /\ TripsInv /\ [Next]_vars => BreakerInv' /\ TripsInv'
    BY BreakerStep
  <1>3. BreakerInv => BreakerLeavesNone
    BY DEF BreakerInv, BreakerLeavesNone, Clear
  <1> QED
    BY <1>1, <1>2, <1>3, Invariance, PTL DEF Spec

-----------------------------------------------------------------------------
(* The number of chains.                                                   *)

\* A request to start a trade is the only one at an id that is still free; every
\* other request is at a trade that exists, and so is every evaluation.
StartsOnce ==
    /\ \A u \in Session : \A t \in request[u].at :
         IF request[u].kind = "start"
         THEN /\ t \notin Started
              /\ \A v \in Session \ {u} : request[v].kind = "start" => t \notin request[v].at
         ELSE t \in Started
    /\ \A j \in Job : seen[j] \subseteq Started

\* ChainsCounted, of finite sets.
Counted ==
    /\ IsFiniteSet(Running) /\ IsFiniteSet(Started) /\ IsFiniteSet(Queueing)
    /\ chains + Cardinality(Running) + Cardinality(Queueing) + lost
         = 1 + Cardinality(Started) + added

\* What a step can do to the chains: nothing, run one, end a run, let a new
\* trade ask for one, answer that, give one up, or restart the worker.
Held == UNCHANGED <<Running, Started, Queueing>>
Rests == UNCHANGED queue /\ Held
Runs == /\ chains' = chains - 1 /\ UNCHANGED <<lost, added, Started, Queueing>>
        /\ \E j \in Job \ Running : Running' = Running \cup {j}
EndsRun == /\ Goes \/ Breaks
           /\ \E j \in Running : Running' = Running \ {j}
           /\ UNCHANGED <<Started, Queueing>>
Asks == /\ UNCHANGED queue /\ UNCHANGED Running
        /\ \E t \in Trade \ Started : Started' = Started \cup {t}
        /\ \E u \in Session \ Queueing : Queueing' = Queueing \cup {u}
Answers == /\ Goes \/ Breaks
           /\ \E u \in Queueing : Queueing' = Queueing \ {u}
           /\ UNCHANGED <<Running, Started>>
Expires == chains' = chains - 1 /\ lost' = lost + 1 /\ UNCHANGED added /\ Held
Restarts == /\ \E n \in Nat : /\ chains' = chains + Cardinality(Running) + n
                              /\ added' = added + n
            /\ Running' = {} /\ UNCHANGED <<lost, Started, Queueing>>

Moves == Rests \/ Runs \/ EndsRun \/ Asks \/ Answers \/ Expires \/ Restarts

LEMMA MovesCount ==
  ASSUME RestOK, Counted, Moves
  PROVE  Counted'
  <1>0. /\ chains \in Nat /\ lost \in Int /\ added \in Int
        /\ Cardinality(Running) \in Nat /\ Cardinality(Started) \in Nat
        /\ Cardinality(Queueing) \in Nat
    BY FS_CardinalityType DEF RestOK, Counted
  <1>1. ASSUME Goes \/ Breaks
        PROVE  chains' \in Int /\ lost' \in Int /\ chains' + lost' = chains + 1 + lost /\ added' = added
    BY <1>0, <1>1 DEF Goes, Breaks
  <1>2. CASE Rests
    BY <1>2 DEF Rests, Held, queue, Counted
  <1>3. CASE Runs
    <2>1. PICK j \in Job \ Running : Running' = Running \cup {j}
      BY <1>3 DEF Runs
    <2>2. IsFiniteSet(Running') /\ Cardinality(Running') = Cardinality(Running) + 1
      BY <2>1, FS_AddElement DEF Counted
    <2> QED
      BY <1>0, <1>3, <2>2 DEF Runs, Counted
  <1>4. CASE EndsRun
    <2>1. PICK j \in Running : Running' = Running \ {j}
      BY <1>4 DEF EndsRun
    <2>2. IsFiniteSet(Running') /\ Cardinality(Running') = Cardinality(Running) - 1
      BY <2>1, FS_RemoveElement DEF Counted
    <2> QED
      BY <1>0, <1>1, <1>4, <2>2 DEF EndsRun, Counted
  <1>5. CASE Asks
    <2>1. PICK t \in Trade \ Started : Started' = Started \cup {t}
      BY <1>5 DEF Asks
    <2>2. PICK u \in Session \ Queueing : Queueing' = Queueing \cup {u}
      BY <1>5 DEF Asks
    <2>3. IsFiniteSet(Started') /\ Cardinality(Started') = Cardinality(Started) + 1
      BY <2>1, FS_AddElement DEF Counted
    <2>4. IsFiniteSet(Queueing') /\ Cardinality(Queueing') = Cardinality(Queueing) + 1
      BY <2>2, FS_AddElement DEF Counted
    <2> QED
      BY <1>0, <1>5, <2>3, <2>4 DEF Asks, queue, Counted
  <1>6. CASE Answers
    <2>1. PICK u \in Queueing : Queueing' = Queueing \ {u}
      BY <1>6 DEF Answers
    <2>2. IsFiniteSet(Queueing') /\ Cardinality(Queueing') = Cardinality(Queueing) - 1
      BY <2>1, FS_RemoveElement DEF Counted
    <2>3. /\ Running' = Running /\ Started' = Started
          /\ Cardinality(Running') = Cardinality(Running)
          /\ Cardinality(Started') = Cardinality(Started)
      BY <1>6 DEF Answers
    <2>4. chains' + Cardinality(Running') + Cardinality(Queueing') + lost'
            = 1 + Cardinality(Started') + added'
      <3> DEFINE r == Cardinality(Running)
                 q == Cardinality(Queueing)
                 k == Cardinality(Started)
      <3>1. r \in Int /\ q \in Int /\ k \in Int /\ chains \in Int /\ lost \in Int /\ added \in Int
        BY <1>0
      <3>2. /\ chains + r + q + lost = 1 + k + added
            /\ chains' \in Int /\ lost' \in Int /\ added' = added
            /\ chains' + lost' = chains + 1 + lost
        BY <1>1, <1>6 DEF Answers, Counted
      <3>3. Cardinality(Running') = r /\ Cardinality(Queueing') = q - 1 /\ Cardinality(Started') = k
        BY <2>2, <2>3
      <3> HIDE DEF r, q, k
      <3>4. chains' + r + (q - 1) + lost' = (chains' + lost') + r + q - 1
        BY <3>1, <3>2
      <3>5. (chains + 1 + lost) + r + q - 1 = 1 + k + added
        BY <3>1, <3>2
      <3>6. chains' + r + (q - 1) + lost' = 1 + k + added'
        BY <3>2, <3>4, <3>5
      <3> QED
        BY <3>3, <3>6
    <2> QED
      BY <2>2, <2>3, <2>4 DEF Counted
  <1>7. CASE Expires
    BY <1>0, <1>7 DEF Expires, Held, Counted
  <1>8. CASE Restarts
    <2>1. IsFiniteSet(Running') /\ Cardinality(Running') = 0
      BY <1>8, FS_EmptySet DEF Restarts
    <2>2. PICK n \in Nat : chains' = chains + Cardinality(Running) + n /\ added' = added + n
      BY <1>8 DEF Restarts
    <2>3. /\ lost' = lost /\ Started' = Started /\ Queueing' = Queueing
          /\ Cardinality(Started') = Cardinality(Started)
          /\ Cardinality(Queueing') = Cardinality(Queueing)
      BY <1>8 DEF Restarts
    <2>4. chains + Cardinality(Running) + Cardinality(Queueing) + lost
            = 1 + Cardinality(Started) + added
      BY DEF Counted
    <2>5. chains' + Cardinality(Running') + Cardinality(Queueing') + lost'
            = 1 + Cardinality(Started') + added'
      <3> DEFINE r == Cardinality(Running)
                 q == Cardinality(Queueing)
                 k == Cardinality(Started)
      <3>1. r \in Int /\ q \in Int /\ k \in Int /\ chains \in Int /\ lost \in Int /\ added \in Int
        BY <1>0
      <3>2. chains + r + q + lost = 1 + k + added /\ chains' = chains + r + n /\ added' = added + n
        BY <2>2, <2>4
      <3>3. Cardinality(Running') = 0 /\ Cardinality(Queueing') = q /\ Cardinality(Started') = k
        BY <2>1, <2>3
      <3> HIDE DEF r, q, k
      <3>4. chains' + 0 + q + lost = 1 + k + added'
        BY <3>1, <3>2
      <3> QED
        BY <2>3, <3>3, <3>4
    <2> QED
      BY <2>1, <2>3, <2>5 DEF Counted
  <1> QED
    BY <1>2, <1>3, <1>4, <1>5, <1>6, <1>7, <1>8 DEF Moves

\* A request that is replaced leaves the others, and StartsOnce with them, as
\* long as the trade it is at exists.
LEMMA RequestStarts ==
  ASSUME request \in [Session -> Requests], StartsOnce,
         NEW u \in Session, NEW new \in Requests, request' = [request EXCEPT ![u] = new],
         new.kind # "start", new.at \subseteq Started',
         \/ Started' = Started
         \/ \E t \in request[u].at : request[u].kind = "start" /\ Started' = Started \cup {t},
         \A j \in Job : seen'[j] \subseteq Started'
  PROVE  StartsOnce'
  <1>1. request'[u] = new /\ \A v \in Session \ {u} : request'[v] = request[v]
    OBVIOUS
  <1>2. ASSUME NEW v \in Session, NEW s \in request'[v].at
        PROVE  IF request'[v].kind = "start"
               THEN /\ s \notin Started'
                    /\ \A w \in Session \ {v} : request'[w].kind = "start" => s \notin request'[w].at
               ELSE s \in Started'
    <2>1. CASE v = u
      BY <1>1, <1>2, <2>1
    <2>2. CASE v # u /\ request[v].kind = "start"
      <3>1. s \in request[v].at /\ request'[v] = request[v]
        BY <1>1, <1>2, <2>2
      <3>2. s \notin Started
            /\ \A w \in Session \ {v} : request[w].kind = "start" => s \notin request[w].at
        BY <2>2, <3>1 DEF StartsOnce
      <3>3. s \notin Started'
        BY <2>2, <3>2
      <3> QED
        BY <1>1, <2>2, <3>1, <3>2, <3>3
    <2>3. CASE v # u /\ request[v].kind # "start"
      <3>1. s \in request[v].at /\ request'[v] = request[v]
        BY <1>1, <1>2, <2>3
      <3>2. s \in Started
        BY <2>3, <3>1 DEF StartsOnce
      <3> QED
        BY <2>3, <3>1, <3>2
    <2> QED
      BY <2>1, <2>2, <2>3
  <1> QED
    BY <1>2 DEF StartsOnce

\* A request at work writes a status to a trade that exists.
LEMMA SaveMoves ==
  ASSUME RestOK, StartsOnce, NEW u \in Session, NEW kind \in Kind, NEW t \in Trade,
         NEW status \in TradeStatus \ {"none"}, Save(u, kind, t, status)
  PROVE  /\ UNCHANGED queue /\ UNCHANGED Running /\ u \notin Queueing
         /\ t \in request[u].at /\ request[u].kind = kind
         /\ Started' = Started \cup {t}
         /\ kind # "start" => t \in Started
         /\ kind = "start" => t \notin Started
         /\ \A j \in Job : seen'[j] \subseteq Started'
  <1>0. trade \in [Trade -> TradeStatus]
    BY DEF RestOK
  <1>1. /\ request[u].kind = kind /\ t \in request[u].at
        /\ trade' = [trade EXCEPT ![t] = status]
        /\ pc' = pc /\ seen' = seen /\ UNCHANGED queue
    BY DEF Save, round
  <1>2. UNCHANGED Running
    BY <1>1 DEF Running
  <1>3. Started' = Started \cup {t}
    BY <1>0, <1>1 DEF Started
  <1>4. /\ kind # "start" => t \in Started
        /\ kind = "start" => t \notin Started
    BY <1>1 DEF StartsOnce
  <1>5. u \notin Queueing
    BY <1>1 DEF Queueing, Kind, Needs
  <1>6. \A j \in Job : seen'[j] \subseteq Started'
    BY <1>1, <1>3 DEF StartsOnce
  <1> QED
    BY <1>1, <1>2, <1>3, <1>4, <1>5, <1>6

\* A request that ends is at nothing, and queues nothing.
LEMMA EndMoves ==
  ASSUME request \in [Session -> Requests], StartsOnce, NEW u \in Session, End(u),
         Started' = Started, \A j \in Job : seen'[j] \subseteq Started
  PROVE  StartsOnce' /\ Queueing' = Queueing \ {u}
  <1>1. NoRequest \in Requests /\ NoRequest.kind = "none" /\ NoRequest.at = {}
    BY DEF NoRequest, Requests
  <1>2. request' = [request EXCEPT ![u] = NoRequest]
    BY DEF End
  <1>3. StartsOnce'
    BY <1>1, <1>2, RequestStarts
  <1>4. Queueing' = Queueing \ {u}
    BY <1>1, <1>2 DEF Queueing
  <1> QED
    BY <1>3, <1>4

\* A step of an evaluation leaves the trades that exist, and the requests.
LEMMA JobStarts ==
  ASSUME StartsOnce, request' = request, Started' = Started,
         \A j \in Job : seen'[j] \subseteq Started
  PROVE  StartsOnce' /\ UNCHANGED Queueing
  BY DEF StartsOnce, Queueing

\* A transaction that ends is a run that goes on, to its finally clause.
LEMMA FinishMoves ==
  ASSUME RoundsOK, StartsOnce, NEW j \in Job, pc[j] # "idle", Finish(j), Started' = Started
  PROVE  Moves /\ StartsOnce'
  <1>1. UNCHANGED Running
    BY DEF Finish, RoundsOK, Running
  <1>2. \A i \in Job : seen'[i] \subseteq Started
    BY DEF Finish, RoundsOK, StartsOnce
  <1>3. StartsOnce' /\ UNCHANGED Queueing
    BY <1>2, JobStarts DEF Finish
  <1> QED
    BY <1>1, <1>3 DEF Moves, Rests, Held, Finish

LEMMA StepMoves ==
  ASSUME RoundsOK, RoundInv, RestOK, StartsOnce, [Next]_vars
  PROVE  Moves /\ StartsOnce'
  <1>0. /\ trade \in [Trade -> TradeStatus] /\ request \in [Session -> Requests]
        /\ pc \in [Job -> {"idle", "fetch", "act", "account", "finally"}]
        /\ seen \in [Job -> SUBSET Trade]
        /\ \A j \in Job : seen[j] \subseteq Started
    BY DEF RestOK, RoundsOK, Requests, StartsOnce
  <1>a. ASSUME UNCHANGED <<trade, queue, request, seen>>, UNCHANGED Running
        PROVE  Moves /\ StartsOnce'
    <2>1. UNCHANGED Started
      BY <1>a DEF Started
    <2>2. StartsOnce' /\ UNCHANGED Queueing
      BY <1>0, <1>a, <2>1, JobStarts
    <2> QED
      BY <1>a, <2>1, <2>2 DEF Held, Rests, Moves
  <1>1. ASSUME NEW j \in Job, TakeNone(j) \/ Take(j) PROVE Moves /\ StartsOnce'
    <2>1. Started' = Started /\ j \notin Running /\ Running' = Running \cup {j}
      BY <1>0, <1>1 DEF TakeNone, Take, rows, Running, Started
    <2>2. \A i \in Job : seen'[i] \subseteq Started
      BY <1>0, <1>1 DEF TakeNone, Take, Active, Started
    <2>3. StartsOnce' /\ UNCHANGED Queueing
      BY <1>1, <2>1, <2>2, JobStarts DEF TakeNone, Take
    <2>4. chains' = chains - 1 /\ UNCHANGED <<lost, added>>
      BY <1>1 DEF TakeNone, Take
    <2> QED
      BY <2>1, <2>3, <2>4 DEF Moves, Runs
  <1>2. ASSUME NEW j \in Job, Requeue(j) \/ Unqueued(j) PROVE Moves /\ StartsOnce'
    <2>1. Started' = Started /\ j \in Running /\ Running' = Running \ {j}
      BY <1>0, <1>2 DEF Requeue, Unqueued, rows, Running, Started
    <2>2. StartsOnce' /\ UNCHANGED Queueing
      BY <1>0, <1>2, <2>1, JobStarts DEF Requeue, Unqueued
    <2>3. Goes \/ Breaks
      BY <1>2 DEF Requeue, Unqueued
    <2> QED
      BY <2>1, <2>2, <2>3 DEF Moves, EndsRun
  <1>3. ASSUME NEW j \in Job, NEW t \in Trade,
               \/ Skip(j, t) \/ StopMissing(j, t) \/ Act(j, t) \/ GiveUp(j, t)
               \/ \E s \in {-1, 0, 1} : \E hit \in SUBSET OpenIn(Visible(j), t) : Look(j, t, s, hit)
               \/ \E move, trip \in BOOLEAN : Account(j, t, move, trip)
        PROVE  Moves /\ StartsOnce'
    <2>1. UNCHANGED <<trade, queue, request, seen>>
      BY <1>3 DEF Skip, StopMissing, Act, GiveUp, Look, Account, rows
    <2>2. Running' = Running
      BY <1>0, <1>3 DEF Skip, StopMissing, Act, GiveUp, Look, Account, Running
    <2> QED
      BY <1>a, <2>1, <2>2
  <1>4. ASSUME NEW j \in Job, Commit(j) PROVE Moves /\ StartsOnce'
    <2>1. stops[j] \subseteq Started
      BY <1>0 DEF RoundInv
    <2>2. Started' = Started
      BY <1>0, <1>4, <2>1 DEF Commit, Started
    <2> QED
      BY <1>4, <2>2, FinishMoves DEF Commit
  <1>5. ASSUME NEW j \in Job, Fail(j) \/ Abort(j) PROVE Moves /\ StartsOnce'
    <2>1. Started' = Started /\ pc[j] # "idle" /\ Finish(j)
      BY <1>5 DEF Fail, Abort, rows, Started
    <2> QED
      BY <2>1, FinishMoves
  <1>6. ASSUME NEW u \in Session, NEW kind \in Kind, NEW t \in Trade, Load(u, kind, t)
        PROVE  Moves /\ StartsOnce'
    <2> DEFINE new == [kind |-> kind, at |-> {t}, closes |-> {}, ready |-> kind # "stop"]
    <2>1. /\ request' = [request EXCEPT ![u] = new]
          /\ request[u] = NoRequest
          /\ trade[t] \in Needs[kind]
          /\ kind = "start" => \A v \in Session : ~(request[v].kind = "start" /\ t \in request[v].at)
          /\ UNCHANGED queue /\ UNCHANGED <<trade, pc, seen>>
      BY <1>6 DEF Load, rows, round
    <2>2. Running' = Running /\ Started' = Started
      BY <2>1 DEF Running, Started
    <2>3. new.kind = kind /\ new.at = {t} /\ kind # "queue" /\ NoRequest.kind # "queue"
      BY DEF Kind, Needs, NoRequest
    <2> HIDE DEF new
    <2>4. request'[u] = new /\ \A v \in Session \ {u} : request'[v] = request[v]
      BY <1>0, <2>1
    <2>5. IF kind = "start" THEN t \notin Started ELSE t \in Started
      BY <2>1 DEF Started, Needs, Kind
    <2>6. ASSUME NEW v \in Session, NEW s \in request'[v].at
          PROVE  IF request'[v].kind = "start"
                 THEN /\ s \notin Started
                      /\ \A w \in Session \ {v} : request'[w].kind = "start" => s \notin request'[w].at
                 ELSE s \in Started
      <3>1. CASE v = u
        <4>1. s = t /\ request'[v].kind = kind
          BY <2>3, <2>4, <2>6, <3>1
        <4>2. ASSUME kind = "start", NEW w \in Session \ {u}, request'[w].kind = "start"
              PROVE  t \notin request'[w].at
          BY <2>1, <2>4, <4>2
        <4> QED
          BY <2>5, <3>1, <4>1, <4>2
      <3>2. CASE v # u
        <4>1. request'[v] = request[v] /\ s \in request[v].at
          BY <2>4, <2>6, <3>2
        <4>2. CASE request[v].kind = "start"
          <5>1. s \notin Started
            BY <4>1, <4>2 DEF StartsOnce
          <5>2. ASSUME NEW w \in Session \ {v}, request'[w].kind = "start"
                PROVE  s \notin request'[w].at
            <6>1. CASE w = u
              BY <2>1, <2>3, <2>4, <4>1, <4>2, <5>2, <6>1
            <6>2. CASE w # u
              BY <2>4, <4>1, <4>2, <5>2, <6>2 DEF StartsOnce
            <6> QED
              BY <6>1, <6>2
          <5> QED
            BY <4>1, <4>2, <5>1, <5>2
        <4>3. CASE request[v].kind # "start"
          BY <4>1, <4>3 DEF StartsOnce
        <4> QED
          BY <4>2, <4>3
      <3> QED
        BY <3>1, <3>2
    <2>7. StartsOnce'
      BY <1>0, <2>1, <2>2, <2>6 DEF StartsOnce
    <2>8. Queueing' = Queueing
      BY <2>1, <2>3, <2>4 DEF Queueing
    <2> QED
      BY <2>1, <2>2, <2>7, <2>8 DEF Moves, Rests, Held
  <1>7. ASSUME NEW u \in Session, NEW t \in Trade, SelectOpen(u, t) PROVE Moves /\ StartsOnce'
    <2> DEFINE new == [kind |-> "stop", at |-> {t}, closes |-> OpenIn(position, t), ready |-> TRUE]
    <2>1. /\ request' = [request EXCEPT ![u] = new]
          /\ request[u].kind = "stop" /\ t \in request[u].at
          /\ UNCHANGED queue /\ UNCHANGED <<trade, pc, seen>>
      BY <1>7 DEF SelectOpen, rows, round
    <2>2. Running' = Running /\ Started' = Started
      BY <2>1 DEF Running, Started
    <2>3. new \in Requests /\ new.kind = "stop" /\ new.at = {t}
      BY DEF Requests, Kind, Needs, OpenIn
    <2> HIDE DEF new
    <2>4. t \in Started
      BY <2>1 DEF StartsOnce
    <2>5. StartsOnce'
      BY <1>0, <2>1, <2>2, <2>3, <2>4, RequestStarts
    <2>6. Queueing' = Queueing
      BY <1>0, <2>1, <2>3 DEF Queueing
    <2> QED
      BY <2>1, <2>2, <2>5, <2>6 DEF Moves, Rests, Held
  <1>8. {"start", "pause", "resume", "stop", "delete"} \subseteq Kind
        /\ {"active", "paused", "stopped", "deleted"} \subseteq TradeStatus \ {"none"}
    BY DEF Kind, Needs, TradeStatus
  <1>9. ASSUME NEW u \in Session, NEW t \in Trade, Start(u, t) PROVE Moves /\ StartsOnce'
    <2> DEFINE new == [kind |-> "queue", at |-> {}, closes |-> {}, ready |-> TRUE]
    <2>1. Save(u, "start", t, "active") /\ request' = [request EXCEPT ![u] = new]
      BY <1>9 DEF Start
    <2>2. new \in Requests /\ new.kind = "queue" /\ new.at = {}
      BY DEF Requests
    <2> HIDE DEF new
    <2>3. /\ UNCHANGED queue /\ UNCHANGED Running /\ u \notin Queueing
          /\ t \in request[u].at /\ request[u].kind = "start"
          /\ Started' = Started \cup {t} /\ t \notin Started
          /\ \A j \in Job : seen'[j] \subseteq Started'
      BY <1>8, <2>1, SaveMoves
    <2>4. StartsOnce'
      BY <1>0, <2>1, <2>2, <2>3, RequestStarts
    <2>5. Queueing' = Queueing \cup {u}
      BY <1>0, <2>1, <2>2 DEF Queueing
    <2> QED
      BY <2>3, <2>4, <2>5 DEF Moves, Asks
  <1>10. ASSUME NEW u \in Session, NEW t \in Trade,
                Pause(u, t) \/ Resume(u, t) \/ Stop(u, t) \/ Delete(u, t)
         PROVE  Moves /\ StartsOnce'
    <2>1. PICK kind \in Kind \ {"start"}, status \in TradeStatus \ {"none"} :
            Save(u, kind, t, status)
      <3>1. \/ Save(u, "pause", t, "paused") \/ Save(u, "resume", t, "active")
            \/ Save(u, "stop", t, "stopped") \/ Save(u, "delete", t, "deleted")
        BY <1>10 DEF Pause, Resume, Stop, Delete
      <3> QED
        BY <1>8, <3>1
    <2>2. /\ UNCHANGED queue /\ UNCHANGED Running /\ u \notin Queueing
          /\ Started' = Started
          /\ \A j \in Job : seen'[j] \subseteq Started
      BY <2>1, SaveMoves
    <2>3. End(u)
      BY <1>10 DEF Pause, Resume, Stop, Delete
    <2>4. StartsOnce' /\ Queueing' = Queueing
      BY <1>0, <2>2, <2>3, EndMoves
    <2> QED
      BY <2>2, <2>4 DEF Moves, Rests, Held
  <1>11. ASSUME NEW u \in Session, Queue(u) \/ QueueFails(u) PROVE Moves /\ StartsOnce'
    <2>1. /\ End(u) /\ u \in Queueing /\ UNCHANGED <<trade, pc, seen>>
          /\ Goes \/ Breaks
      BY <1>11 DEF Queue, QueueFails, Queueing, rows, round
    <2>2. UNCHANGED <<Running, Started>>
      BY <2>1 DEF Running, Started
    <2>3. StartsOnce' /\ Queueing' = Queueing \ {u}
      BY <1>0, <2>1, <2>2, EndMoves
    <2> QED
      BY <2>1, <2>2, <2>3 DEF Moves, Answers
  <1>12. ASSUME NEW u \in Session, Drop(u) PROVE Moves /\ StartsOnce'
    <2>1. /\ End(u) /\ u \notin Queueing /\ UNCHANGED queue /\ UNCHANGED <<trade, pc, seen>>
      BY <1>12 DEF Drop, Queueing, Kind, Needs, rows, round
    <2>2. UNCHANGED <<Running, Started>>
      BY <2>1 DEF Running, Started
    <2>3. StartsOnce' /\ Queueing' = Queueing
      BY <1>0, <2>1, <2>2, EndMoves
    <2> QED
      BY <2>1, <2>2, <2>3 DEF Moves, Rests, Held
  <1>13. CASE Expire
    <2>1. UNCHANGED <<Running, Started>>
      BY <1>13 DEF Expire, rows, round, Running, Started
    <2>2. StartsOnce' /\ UNCHANGED Queueing
      BY <1>0, <1>13, <2>1, JobStarts DEF Expire, round
    <2> QED
      BY <1>13, <2>1, <2>2 DEF Expire, Moves, Expires, Held
  <1>14. CASE Restart
    <2>1. Started' = Started /\ Running' = {}
      BY <1>14 DEF Restart, rows, Started, Running
    <2>2. \A j \in Job : seen'[j] \subseteq Started
      BY <1>14 DEF Restart, Nothing
    <2>3. StartsOnce' /\ UNCHANGED Queueing
      BY <1>14, <2>1, <2>2, JobStarts DEF Restart
    <2>4. PICK requeued \in SUBSET Running, seeds \in {0, 1} :
            /\ chains' = chains + Cardinality(Running) + Cardinality(requeued) + seeds
            /\ added' = added + Cardinality(requeued) + seeds
      BY <1>14 DEF Restart
    <2>5. Cardinality(requeued) \in Nat /\ Cardinality(Running) \in Nat
      BY RunningFinite, FS_Subset, FS_CardinalityType
    <2>6. \E n \in Nat : chains' = chains + Cardinality(Running) + n /\ added' = added + n
      <3>1. /\ chains' = chains + Cardinality(Running) + (Cardinality(requeued) + seeds)
            /\ added' = added + (Cardinality(requeued) + seeds)
        BY <2>4, <2>5 DEF RestOK
      <3>2. Cardinality(requeued) + seeds \in Nat
        BY <2>5
      <3> QED
        BY <3>1, <3>2
    <2> QED
      BY <1>14, <2>1, <2>3, <2>6 DEF Moves, Restarts, Restart
  <1>15. CASE UNCHANGED vars
    BY <1>15, <1>a DEF vars, rows, round, Running
  <1>16. ASSUME NEW j \in Job, Evaluate(j) PROVE Moves /\ StartsOnce'
    BY <1>1, <1>2, <1>3, <1>4, <1>5, <1>16 DEF Evaluate
  <1> QED
    BY <1>6, <1>7, <1>9, <1>10, <1>11, <1>12, <1>13, <1>14, <1>15, <1>16 DEF Next, User

LEMMA CountedInvariance == Spec => []Counted
  <1>1. Init => StartsOnce /\ Counted
    <2> SUFFICES ASSUME Init PROVE StartsOnce /\ Counted
      OBVIOUS
    <2>1. Running = {} /\ Started = {} /\ Queueing = {}
      BY DEF Init, NoRequest, Running, Started, Queueing
    <2>2. chains + lost = 1 /\ added = 0 /\ chains \in Int /\ lost \in Int
      BY BoundsAssumption DEF Init
    <2>3. StartsOnce
      BY DEF Init, NoRequest, Nothing, StartsOnce
    <2> QED
      BY <2>1, <2>2, <2>3, FS_EmptySet DEF Counted
  <1>2. IInv /\ StartsOnce /\ Counted /\ [Next]_vars => StartsOnce' /\ Counted'
    <2> SUFFICES ASSUME IInv, StartsOnce, Counted, [Next]_vars PROVE StartsOnce' /\ Counted'
      OBVIOUS
    <2>1. Moves /\ StartsOnce'
      BY StepMoves DEF IInv
    <2> QED
      BY <2>1, MovesCount DEF IInv
  <1> QED
    BY <1>1, <1>2, Invariance, PTL DEF Spec

\* Chains of evaluations are conserved: those queued, running, about to be
\* queued or lost are that of the first startup, one for each trade ever
\* started and those that restarts added, for any number of trades, slots and
\* requests, and wherever an evaluation, a request or the worker breaks off.
THEOREM ChainsStayCounted == Spec => []ChainsCounted
  <1>1. Counted => ChainsCounted
    BY DEF Counted, ChainsCounted
  <1> QED
    BY <1>1, CountedInvariance, PTL

\* Once there is a trade, an evaluation is queued, running or about to be
\* queued, as long as no more chains were lost than trades were started: no
\* early return, failure or rollback ends the last chain, for any number of
\* trades, slots and requests.
THEOREM ChainStaysAlive == Spec => []ChainAlive
  <1>1. ASSUME RestOK, Counted PROVE ChainAlive
    <2>1. /\ chains \in Nat /\ lost \in Int /\ added \in Nat
          /\ Cardinality(Running) \in Nat /\ Cardinality(Started) \in Nat
          /\ Cardinality(Queueing) \in Nat
      BY <1>1, FS_CardinalityType, BoundsAssumption DEF RestOK, Counted
    <2>2. /\ Running = {} => Cardinality(Running) = 0
          /\ Queueing = {} => Cardinality(Queueing) = 0
      BY FS_EmptySet
    <2>3. chains + Cardinality(Running) + Cardinality(Queueing) + lost
            = 1 + Cardinality(Started) + added
      BY <1>1 DEF Counted
    <2>4. lost <= Cardinality(Started) =>
            chains # 0 \/ Cardinality(Running) # 0 \/ Cardinality(Queueing) # 0
      BY <2>1, <2>3
    <2> QED
      BY <2>1, <2>2, <2>4 DEF ChainAlive
  <1>2. Counted /\ IInv => ChainAlive
    BY <1>1 DEF IInv
  <1> QED
    BY <1>2, CountedInvariance, Invariance, PTL

=============================================================================
