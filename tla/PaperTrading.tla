---------------------------- MODULE PaperTrading ----------------------------
(***************************************************************************)
(* Paper trading: trading/paper_worker.py and the /trading/paper endpoints *)
(* of routes/trading.py.  A paper trade follows a strategy's signals with  *)
(* virtual money.  A worker job, evaluate_paper_trades, walks over all     *)
(* active trades, opens and closes their positions, records the equity and *)
(* stops a trade whose drawdown is too deep, all in one transaction; it    *)
(* then queues itself again.  Worker startup seeds one such chain and every*)
(* new trade seeds another, so evaluations may overlap (max_jobs = 5).     *)
(*                                                                         *)
(* Jobs and requests work on copies of the rows, loaded without a lock at  *)
(* READ COMMITTED.  A flush locks the rows it updates until COMMIT.        *)
(***************************************************************************)
EXTENDS Integers, FiniteSets

CONSTANTS
    Trade,        \* ids of paper trades, all of one user
    Job,          \* worker slots (max_jobs)
    Session,      \* requests of the user that may run at once
    MaxActive,    \* limit of active trades per user
    MaxPositions, \* bound: positions one worker slot opens
    MaxLost,      \* bound: evaluations and requests that queue no successor
    MaxAdded      \* bound: chains that restarts of the worker add

ASSUME BoundsAssumption ==
    /\ MaxActive \in Nat /\ MaxPositions \in Nat /\ MaxLost \in Nat /\ MaxAdded \in Nat
ASSUME SlotsAssumption == IsFiniteSet(Job)

\* A position's id names the slot that opened it.
PosId == Job \X (1 .. MaxPositions)

TradeStatus == {"none", "active", "paused", "stopped", "deleted"}
\* Only longs are ever opened.
PosRow == [trade : Trade, status : {"open", "closed", "gone"}]
NoPos == [status |-> "none"]
PosRows == PosRow \cup {NoPos}

VARIABLES
    trade,      \* committed status of the rows of paper_trades
    position,   \* committed rows of paper_trade_positions
    breaker,    \* history: the job whose circuit breaker stopped the trade
    chains,     \* queued evaluate_paper_trades jobs
    lost,       \* how many chains of evaluations have ended so far
    added,      \* history: how many chains restarts of the worker have added
    request,    \* the running requests of the user
    \* of each worker slot's evaluation:
    pc,         \* where it is
    seen,       \* the active trades it loaded
    todo,       \* those it has not finished
    at,         \* the one it is evaluating
    signal,     \* the signal there: 1 buy, -1 sell, 0 hold
    done,       \* trades it wrote a snapshot for
    moved,      \* those whose equity it changed
    stops,      \* trades it stops
    mine,       \* position rows it changed or added
    locked      \* those of them that are flushed, and so locked

rows == <<trade, position, breaker>>
queue == <<chains, lost, added>>
round == <<pc, seen, todo, at, signal>>
changes == <<done, moved, stops, mine, locked>>
vars == <<rows, queue, request, round, changes>>

Untouched == [p \in PosId |-> NoPos]
NoRequest == [kind |-> "none", at |-> {}, closes |-> {}, ready |-> FALSE]
Nothing == [j \in Job |-> {}]

Init ==
    /\ trade = [t \in Trade |-> "none"]
    /\ position = Untouched
    /\ breaker = [t \in Trade |-> {}]
    \* The worker's startup seeds a chain, if Redis lets it.
    /\ lost \in {0, 1} \cap (0 .. MaxLost) /\ chains = 1 - lost /\ added = 0
    /\ request = [u \in Session |-> NoRequest]
    /\ pc = [j \in Job |-> "idle"]
    /\ seen = Nothing /\ todo = Nothing /\ at = Nothing
    /\ signal = [j \in Job |-> 0]
    /\ done = Nothing /\ moved = Nothing /\ stops = Nothing /\ locked = Nothing
    /\ mine = [j \in Job |-> Untouched]

-----------------------------------------------------------------------------
(* What an evaluation sees and holds.                                      *)

Dirty(j) == {p \in PosId : mine[j][p] # NoPos}

\* The rows as statements of job j see them: committed, below its own changes.
Visible(j) == [p \in PosId |-> IF mine[j][p] # NoPos THEN mine[j][p] ELSE position[p]]

OpenIn(positions, t) == {p \in PosId : positions[p].status = "open" /\ positions[p].trade = t}

\* The trades whose row job j updates.
Changed(j) == moved[j] \cup stops[j]

\* The rows that job j is about to write are locked by nobody else ...
NotLocked(j, ts) ==
    \A i \in Job \ {j} : Dirty(j) \cap locked[i] = {} /\ ts \cap moved[i] = {}

\* Job i has yet to flush a row that job k holds.
WaitsFor(i, k) ==
    /\ i # k
    /\ \/ Dirty(i) \cap locked[k] # {}
       \/ (Changed(i) \cup at[i]) \cap moved[k] # {}

\* ... and still there, with the trades of the rows it inserts.
StillThere(j, ts) ==
    /\ \A t \in ts : trade[t] # "deleted"
    /\ \A p \in Dirty(j) : position[p].status # "gone" /\ trade[mine[j][p].trade] # "deleted"

\* Variant: an unknown status is written.
CloseAsStopped(row) == [trade |-> row.trade, status |-> "stopped"]

\* _close_position
Close(row) == [trade |-> row.trade, status |-> "closed"]

\* Variant: the UPDATE covers every row the session has loaded.
ClosingAll(j, ps) == [p \in PosId |-> IF p \in ps THEN Close(Visible(j)[p]) ELSE Visible(j)[p]]

\* Rows of job j after it closed the positions in ps.
Closing(j, ps) == [p \in PosId |-> IF p \in ps THEN Close(Visible(j)[p]) ELSE mine[j][p]]

\* A chain goes on, or ends here.
Goes == chains' = chains + 1 /\ UNCHANGED <<lost, added>>
Breaks == lost < MaxLost /\ lost' = lost + 1 /\ UNCHANGED <<chains, added>>

-----------------------------------------------------------------------------
(* evaluate_paper_trades                                                   *)

Active == {t \in Trade : trade[t] = "active"}

\* Variant: the early return leaves without queueing the next evaluation.
ReturnEarly(j) ==
    /\ pc[j] = "idle" /\ chains > 0
    /\ Active = {}
    /\ chains' = chains - 1
    /\ UNCHANGED <<rows, lost, added, request, round, changes>>

\* No trade is active: the early return, through the finally clause.
TakeNone(j) ==
    /\ pc[j] = "idle" /\ chains > 0
    /\ Active = {}
    /\ chains' = chains - 1
    /\ pc' = [pc EXCEPT ![j] = "finally"]
    /\ UNCHANGED <<rows, lost, added, request, seen, todo, at, signal, changes>>

\* The active trades are loaded.
Take(j) ==
    /\ pc[j] = "idle" /\ chains > 0
    /\ Active # {}
    /\ chains' = chains - 1
    /\ pc' = [pc EXCEPT ![j] = "fetch"]
    /\ seen' = [seen EXCEPT ![j] = Active]
    /\ todo' = [todo EXCEPT ![j] = Active]
    /\ UNCHANGED <<rows, lost, added, request, at, signal, changes>>

\* No data, too few bars, no signal, or an unknown or failing strategy.
Skip(j, t) ==
    /\ pc[j] = "fetch" /\ t \in todo[j]
    /\ todo' = [todo EXCEPT ![j] = @ \ {t}]
    /\ UNCHANGED <<rows, queue, request, pc, seen, at, signal, changes>>

\* The strategy was deleted: the trade is stopped, its positions stay.
StopMissing(j, t) ==
    /\ pc[j] = "fetch" /\ t \in todo[j]
    /\ todo' = [todo EXCEPT ![j] = @ \ {t}]
    /\ stops' = [stops EXCEPT ![j] = @ \cup {t}]
    /\ UNCHANGED <<rows, queue, request, pc, seen, at, signal, done, moved, mine, locked>>

\* Bars give a price and a signal s; the open positions are loaded, and those
\* that hit the stop-loss are closed in the session.
Look(j, t, s, hit) ==
    /\ pc[j] = "fetch" /\ t \in todo[j]
    /\ s = 1 => \E n \in 1 .. MaxPositions : Visible(j)[<<j, n>>] = NoPos
    /\ mine' = [mine EXCEPT ![j] = Closing(j, hit)]
    /\ pc' = [pc EXCEPT ![j] = "act"]
    /\ at' = [at EXCEPT ![j] = {t}]
    /\ signal' = [signal EXCEPT ![j] = s]
    /\ UNCHANGED <<rows, queue, request, seen, todo, done, moved, stops, locked>>

\* A new position of trade t under the next free id.
Opening(j, t, n) ==
    /\ Visible(j)[<<j, n>>] = NoPos
    /\ \A m \in 1 .. n - 1 : Visible(j)[<<j, m>>] # NoPos
    /\ mine' = [mine EXCEPT ![j] = [mine[j] EXCEPT ![<<j, n>>] = [trade |-> t, status |-> "open"]]]

\* Variant: a BUY signal opens a position whatever is open.
BuysAlways(j, t) == signal[j] = 1

\* A BUY signal opens a position only where none is open.
Buys(j, t) == signal[j] = 1 /\ OpenIn(Visible(j), t) = {}

\* The open positions are selected again, after the flush of what the
\* stop-loss closed, and the signal is followed.
Act(j, t) ==
    /\ pc[j] = "act" /\ t \in at[j]
    /\ NotLocked(j, {}) /\ StillThere(j, {})
    /\ \/ Buys(j, t) /\ \E n \in 1 .. MaxPositions : Opening(j, t, n)
       \/ signal[j] = -1 /\ mine' = [mine EXCEPT ![j] = Closing(j, OpenIn(Visible(j), t))]
       \/ signal[j] # -1 /\ ~Buys(j, t) /\ mine' = mine
    /\ pc' = [pc EXCEPT ![j] = "account"]
    /\ signal' = [signal EXCEPT ![j] = 0]
    /\ locked' = [locked EXCEPT ![j] = Dirty(j)]
    /\ UNCHANGED <<rows, queue, request, seen, todo, at, done, moved, stops>>

\* An exception in one trade, before or after the flush: the loop goes on to
\* the next trade, and what the session has of this one will be committed.
GiveUp(j, t) ==
    /\ pc[j] \in {"act", "account"} /\ t \in at[j]
    /\ \/ UNCHANGED locked
       \/ NotLocked(j, {}) /\ StillThere(j, {}) /\ locked' = [locked EXCEPT ![j] = Dirty(j)]
    /\ todo' = [todo EXCEPT ![j] = @ \ {t}]
    /\ at' = [at EXCEPT ![j] = {}]
    /\ signal' = [signal EXCEPT ![j] = 0]
    /\ pc' = [pc EXCEPT ![j] = "fetch"]
    /\ UNCHANGED <<rows, queue, request, seen, done, moved, stops, mine>>

\* Variant: the positions that were open when the evaluation began.
LeftOpenBefore(j, t) == OpenIn(position, t)

\* What is open when the equity is computed, the position just opened included.
LeftOpen(j, t) == OpenIn(Visible(j), t)

\* Equity and snapshot are recorded; a circuit breaker that trips stops the
\* trade and closes what is open.  move: the equity is not the loaded one.
Account(j, t, move, trip) ==
    /\ pc[j] = "account" /\ t \in at[j]
    /\ NotLocked(j, IF move THEN {t} ELSE {}) /\ StillThere(j, {t})
    /\ mine' = IF trip THEN [mine EXCEPT ![j] = Closing(j, LeftOpen(j, t))] ELSE mine
    /\ stops' = IF trip THEN [stops EXCEPT ![j] = @ \cup {t}] ELSE stops
    /\ moved' = IF move THEN [moved EXCEPT ![j] = @ \cup {t}] ELSE moved
    /\ done' = [done EXCEPT ![j] = @ \cup {t}]
    /\ locked' = [locked EXCEPT ![j] = Dirty(j)]
    /\ todo' = [todo EXCEPT ![j] = @ \ {t}]
    /\ at' = [at EXCEPT ![j] = {}]
    /\ pc' = [pc EXCEPT ![j] = "fetch"]
    /\ UNCHANGED <<rows, queue, request, seen, signal>>

\* The transaction has ended, with COMMIT or without.
Finish(j) ==
    /\ pc' = [pc EXCEPT ![j] = "finally"]
    /\ seen' = [seen EXCEPT ![j] = {}]
    /\ todo' = [todo EXCEPT ![j] = {}]
    /\ at' = [at EXCEPT ![j] = {}]
    /\ signal' = [signal EXCEPT ![j] = 0]
    /\ done' = [done EXCEPT ![j] = {}]
    /\ moved' = [moved EXCEPT ![j] = {}]
    /\ stops' = [stops EXCEPT ![j] = {}]
    /\ locked' = [locked EXCEPT ![j] = {}]
    /\ mine' = [mine EXCEPT ![j] = Untouched]
    /\ UNCHANGED <<queue, request>>

\* One COMMIT for all trades; of a trade only the columns the job changed are
\* written, so a status it leaves alone is whatever it is by now.
Commit(j) ==
    /\ pc[j] = "fetch" /\ todo[j] = {}
    /\ NotLocked(j, Changed(j)) /\ StillThere(j, Changed(j))
    /\ trade' = [t \in Trade |-> IF t \in stops[j] THEN "stopped" ELSE trade[t]]
    /\ position' = Visible(j)
    /\ breaker' = [t \in Trade |-> IF t \notin stops[j] THEN breaker[t]
                                   ELSE IF t \in done[j] THEN {j} ELSE {}]
    /\ Finish(j)

\* A flush meets a row that was deleted, or Postgres picks the session to end
\* a deadlock: no later statement of the session succeeds, and the whole batch
\* is rolled back.
Fail(j) ==
    /\ pc[j] \notin {"idle", "finally"}
    /\ \/ ~StillThere(j, Changed(j) \cup done[j] \cup at[j])
       \/ \E circle \in SUBSET Job :
            j \in circle /\ \A i \in circle : \E k \in circle : WaitsFor(i, k)
    /\ Finish(j)
    /\ UNCHANGED rows

\* The job_timeout or a database error, before the COMMIT.
Abort(j) ==
    /\ pc[j] \notin {"idle", "finally"}
    /\ Finish(j)
    /\ UNCHANGED rows

\* The finally clause queues the next evaluation ...
Requeue(j) ==
    /\ pc[j] = "finally"
    /\ pc' = [pc EXCEPT ![j] = "idle"]
    /\ Goes
    /\ UNCHANGED <<rows, request, seen, todo, at, signal, changes>>

\* ... or not: Redis refuses it, closing the session fails, or the job_timeout
\* falls here.
Unqueued(j) ==
    /\ pc[j] = "finally"
    /\ pc' = [pc EXCEPT ![j] = "idle"]
    /\ Breaks
    /\ UNCHANGED <<rows, request, seen, todo, at, signal, changes>>

\* arq gives a queued evaluation up: it began too often, or waited too long.
Expire ==
    /\ chains > 0
    /\ lost < MaxLost
    /\ chains' = chains - 1 /\ lost' = lost + 1
    /\ UNCHANGED <<rows, added, request, round, changes>>

Running == {j \in Job : pc[j] # "idle"}

\* The worker crashes or is stopped, and is started again.  Evaluations that
\* ran are rolled back and arq runs them anew, also those (requeued) that had
\* queued the next one: in a finally clause that a SIGTERM lets run, or just
\* before a crash.  The startup seeds another chain, if Redis lets it.
Restart ==
    /\ \E requeued \in SUBSET Running, seeds \in {0, 1} :
         /\ chains' = chains + Cardinality(Running) + Cardinality(requeued) + seeds
         /\ added' = added + Cardinality(requeued) + seeds
    /\ added' <= MaxAdded
    /\ UNCHANGED lost
    /\ pc' = [j \in Job |-> "idle"]
    /\ seen' = Nothing /\ todo' = Nothing /\ at' = Nothing
    /\ signal' = [j \in Job |-> 0]
    /\ done' = Nothing /\ moved' = Nothing /\ stops' = Nothing /\ locked' = Nothing
    /\ mine' = [j \in Job |-> Untouched]
    /\ UNCHANGED <<rows, request>>

-----------------------------------------------------------------------------
(* The endpoints.  Each loads the trade, checks its status and saves.      *)

\* The status that each request insists on.
Needs == [start |-> {"none"}, pause |-> {"active"}, resume |-> {"paused"},
          stop |-> {"active", "paused"}, delete |-> {"stopped"}]

Kind == DOMAIN Needs

\* A new trade has a fresh id, and is refused beyond the limit of active ones.
Load(u, kind, t) ==
    /\ request[u] = NoRequest
    /\ trade[t] \in Needs[kind]
    /\ kind = "start" =>
         /\ Cardinality({s \in Trade : trade[s] = "active"}) < MaxActive
         /\ \A v \in Session : ~(request[v].kind = "start" /\ t \in request[v].at)
    /\ request' = [request EXCEPT ![u] =
         [kind |-> kind, at |-> {t}, closes |-> {}, ready |-> kind # "stop"]]
    /\ UNCHANGED <<rows, queue, round, changes>>

\* A stop selects the open positions of the trade.
SelectOpen(u, t) ==
    /\ request[u].kind = "stop" /\ ~request[u].ready
    /\ t \in request[u].at
    /\ request' = [request EXCEPT ![u] = 
         [kind |-> "stop", at |-> {t}, closes |-> OpenIn(position, t), ready |-> TRUE]]
    /\ UNCHANGED <<rows, queue, round, changes>>

\* The COMMIT of a request writes the new status, whatever the status is by
\* then; it waits for a job that holds the row.
Save(u, kind, t, status) ==
    /\ request[u].kind = kind /\ request[u].ready
    /\ t \in request[u].at
    /\ trade[t] # "deleted"
    /\ \A j \in Job : t \notin moved[j]
    /\ trade' = [trade EXCEPT ![t] = status]
    /\ breaker' = [breaker EXCEPT ![t] = {}]
    /\ UNCHANGED <<queue, round, changes>>

End(u) == request' = [request EXCEPT ![u] = NoRequest]

\* A new trade is committed; an evaluation has yet to be queued for it.
Start(u, t) ==
    /\ Save(u, "start", t, "active")
    /\ request' = [request EXCEPT ![u] = [kind |-> "queue", at |-> {}, closes |-> {}, ready |-> TRUE]]
    /\ UNCHANGED position

\* The evaluation starts a chain of its own ...
Queue(u) ==
    /\ request[u].kind = "queue"
    /\ Goes
    /\ End(u)
    /\ UNCHANGED <<rows, round, changes>>

\* ... or is not queued: Redis refuses it, or the request fails before.
QueueFails(u) ==
    /\ request[u].kind = "queue"
    /\ Breaks
    /\ End(u)
    /\ UNCHANGED <<rows, round, changes>>

Pause(u, t) == Save(u, "pause", t, "paused") /\ End(u) /\ UNCHANGED position

Resume(u, t) == Save(u, "resume", t, "active") /\ End(u) /\ UNCHANGED position

Stop(u, t) ==
    LET closes == request[u].closes IN
    /\ Save(u, "stop", t, "stopped") /\ End(u)
    /\ \A j \in Job : closes \cap locked[j] = {}
    /\ position' = [p \in PosId |-> IF p \in closes THEN Close(position[p]) ELSE position[p]]

\* The trade goes with its positions and snapshots, once no job holds rows of it.
Delete(u, t) ==
    /\ Save(u, "delete", t, "deleted") /\ End(u)
    /\ \A j \in Job : t \notin done[j] /\ \A p \in locked[j] : mine[j][p].trade # t
    /\ position' = [p \in PosId |->
         IF position[p].status \in {"open", "closed"} /\ position[p].trade = t
         THEN [trade |-> t, status |-> "gone"] ELSE position[p]]

\* The trade is gone, or the request fails.
Drop(u) ==
    /\ request[u].kind \in Kind
    /\ End(u)
    /\ UNCHANGED <<rows, queue, round, changes>>

-----------------------------------------------------------------------------
Evaluate(j) ==
    \/ TakeNone(j)
    \/ Take(j)
    \/ \E t \in Trade : Skip(j, t)
    \/ \E t \in Trade : StopMissing(j, t)
    \/ \E t \in Trade, s \in {-1, 0, 1} : \E hit \in SUBSET OpenIn(Visible(j), t) : Look(j, t, s, hit)
    \/ \E t \in Trade : Act(j, t) \/ GiveUp(j, t)
    \/ \E t \in Trade, move, trip \in BOOLEAN : Account(j, t, move, trip)
    \/ Commit(j)
    \/ Fail(j) \/ Abort(j)
    \/ Requeue(j) \/ Unqueued(j)

User(u) ==
    \/ \E kind \in Kind, t \in Trade : Load(u, kind, t)
    \/ \E t \in Trade :
         \/ SelectOpen(u, t)
         \/ Start(u, t)
         \/ Pause(u, t)
         \/ Resume(u, t)
         \/ Stop(u, t)
         \/ Delete(u, t)
    \/ Queue(u) \/ QueueFails(u)
    \/ Drop(u)

Next ==
    \/ \E j \in Job : Evaluate(j)
    \/ \E u \in Session : User(u)
    \/ Restart \/ Expire

Spec == Init /\ [][Next]_vars

-----------------------------------------------------------------------------
TypeOK ==
    /\ trade \in [Trade -> TradeStatus]
    /\ position \in [PosId -> PosRows]
    /\ breaker \in [Trade -> SUBSET Job]
    /\ chains \in Nat /\ lost \in 0 .. MaxLost
    /\ added \in 0 .. MaxAdded
    /\ request \in [Session -> [kind : Kind \cup {"queue", "none"}, at : SUBSET Trade,
                                closes : SUBSET PosId, ready : BOOLEAN]]
    /\ pc \in [Job -> {"idle", "fetch", "act", "account", "finally"}]
    /\ seen \in [Job -> SUBSET Trade] /\ todo \in [Job -> SUBSET Trade]
    /\ at \in [Job -> SUBSET Trade] /\ signal \in [Job -> {-1, 0, 1}]
    /\ done \in [Job -> SUBSET Trade] /\ moved \in [Job -> SUBSET Trade]
    /\ stops \in [Job -> SUBSET Trade]
    /\ mine \in [Job -> [PosId -> PosRows]] /\ locked \in [Job -> SUBSET PosId]

\* "BUY signal with no open position -> open long" (paper_worker.py:338)
\* is kept by each worker slot: two positions of a trade that are open at the
\* same time were opened by evaluations that overlapped, whatever the user does
\* meanwhile.  With one slot a trade has at most one open position.
OpenedApart ==
    \A j \in Job : \A n, m \in 1 .. MaxPositions :
        LET p == position[<<j, n>>]
            q == position[<<j, m>>]
        IN p.status = "open" /\ q.status = "open" /\ p.trade = q.trade => n = m

\* A trade that the circuit breaker stopped, and that nobody changed since, has
\* no open position left of the worker slot that stopped it
\* (paper_worker.py:435-436: "Close any remaining open positions before
\* stopping"), the one opened a moment before in the same run included.
BreakerLeavesNone ==
    \A t \in Trade : \A j \in breaker[t] : \A n \in 1 .. MaxPositions :
        <<j, n>> \notin OpenIn(position, t)

\* A closed position is never opened again, although jobs and requests write
\* from copies that may still show it open (paper_worker.py:500).
ClosedStaysClosed ==
    [][\A p \in PosId : position[p].status = "closed" => position'[p].status \in {"closed", "gone"}]_vars

\* Trades ever started, and those of them that have no chain yet.
Started == {t \in Trade : trade[t] # "none"}
Queueing == {u \in Session : request[u].kind = "queue"}

\* Chains of evaluations are conserved: the worker's first startup and each new
\* trade bring one, a restart may add some, and all of them are queued, running,
\* about to be queued or among the lost.  No early return, exception, rollback or
\* timeout before the finally clause loses one (paper_worker.py:144-154, 521;
\* routes/trading.py:2645-2656).
ChainsCounted ==
    chains + Cardinality(Running) + Cardinality(Queueing) + lost
        = 1 + Cardinality(Started) + added

\* Once there is a trade, an evaluation is queued, running or about to be
\* queued, as long as no more chains were lost than trades were started
\* (paper_worker.py:147-148: "MUST be inside finally so early returns /
\* exceptions don't break the chain").
ChainAlive ==
    Started # {} /\ lost <= Cardinality(Started) =>
        chains > 0 \/ Running # {} \/ Queueing # {}

\* "Stop a paper trade permanently and close all open positions"
\* (routes/trading.py:2746): no position appears in a stopped trade.
StopIsPermanent ==
    [][\A t \in Trade : trade[t] = "stopped" => OpenIn(position', t) \subseteq OpenIn(position, t)]_vars
=============================================================================
