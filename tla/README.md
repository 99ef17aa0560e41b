# TickerTap: a verification project in TLA+

TickerTap (repository `financebuy`) is a portfolio tracker and trading desk: a
FastAPI backend (`src/backend/app`), a React front end (`src/frontend`), arq
worker processes (alerts, back-tests and scans, paper trading) and two satellites
for news and machine learning (`server-b-worker`, `trading-ml`). This directory
holds TLA+ models of the parts of it in which things happen at the same time,
TLC configurations that check them on small instances, and proofs, checked by
TLAPS, that some of the results hold for every size.

Contents: [the system](#1-the-system) · [the models](#2-the-models) ·
[the runs](#3-the-runs) · [fairness](#4-fairness-and-deadlock) ·
[the proofs](#5-the-proofs) · [findings](#6-where-the-code-and-its-words-differ) ·
[not modelled](#7-what-is-not-modelled) · [plan](#8-plan)

## 1. The system

### How the parts interact

All lasting state is in PostgreSQL. A request handler or a worker job opens an
async SQLAlchemy session, loads rows into objects, changes the objects, and at
`commit` the session sends an UPDATE of *the columns that differ from what it
loaded*. The isolation level is READ COMMITTED, and except in the order engine
(`with_for_update()`) no read takes a lock. Between load and commit a handler
awaits other things: prices, Telegram, Redis. So everywhere a copy may be older
than the row it is written to; this one mechanism is behind most of the hazards,
and every model has the copies of its sessions as state.

Work is handed over through Redis: the queues `arq:alert`, `arq:paper` and
`arq:trading`. arq delivers at least once (a job whose worker died runs again),
cancels a job after `job_timeout` and then counts it as done, cancels jobs at a
SIGTERM to run them again, and several jobs run at once in a worker. Two jobs keep
themselves going by putting their successor on the queue in a `finally` clause.

The browser tabs share a refresh cookie and `localStorage`; each keeps its own
access token. A page holds copies of what the API answered in React state; an
`await` in a handler is where the user, another answer or another tab comes
between, and an effect that is superseded sets a flag that its answer looks at.

### Inventory

| Component | State | Operations | What is hard | Properties that make it correct |
|---|---|---|---|---|
| Brokerage ledger: `routes/orders.py`, `transactions.py` | accounts, holdings, orders, transactions | place, cancel, execute an order; deposit, withdraw | handlers of one account at once; row locks taken in two places; retried deposits; rounding | cash and shares add up to the books; an order is final once filled or cancelled; each request is atomic; no deadlock |
| Soft stops: `trading/alert_worker.py`, `routes/portfolio_manager.py` | level, delivery record and badge dates of a position | sweep, immediate check, edit, delete, sale | messages precede their record; two channels fail separately; the user edits while a job holds a copy; the day changes | records of configured channels tell the truth; repeats have a cause; the worker never moves a stop; a failed channel is retried |
| Price alerts: `routes/alerts.py`, `trading/alert_worker.py` | alerts, notifications, the chain of evaluations | create, change, delete; evaluate; worker start and stop | the chain must survive any end of a run; a restart seeds a second chain | a chain ends only in its `finally` clause or on the queue; an alert notifies once; it triggers in the end |
| Browser session: `api/client.js`, `AuthContext.jsx`, `routes/auth_routes.py` | cookie, tokens in sessionStorage and in React, `refresh_tokens` rows | login, refresh, call, logout, reload | calls that meet 401 at once; rotation; a lost answer; tabs | a session ends only for a reason; one usable refresh token per login; every call settles |
| Paper trading: `trading/paper_worker.py`, `routes/trading.py` | paper trades, their positions, snapshots | evaluate; start, pause, resume, stop, delete | one transaction over all trades with several flushes; overlapping chains; requests in between | at most one open position per slot; closed stays closed; the breaker leaves nothing open; chains are conserved |
| Portfolio manager: `PortfolioManagerPage.jsx`, `routes/portfolio_manager.py` | portfolios (cash), positions, trade records; the page's copies of them and its dialogs | add, change, sell, delete, adjust cash; patch, reload or switch the list | cash and quantities are read, changed and written without a lock; the page never waits and patches its copies | no debt; cash and shares add up unless two requests overlapped on a row; a page that waited is current |
| Stock chart: `ChartsPage.jsx`, `DrawingTools.jsx` | bars, markers, window, drawings; `localStorage`, shared by the tabs | choose symbol, interval, range; zoom, pan; draw, move, delete; save and load templates | late and failed answers; indices into bars that change; a save that is debounced and writes the whole list | no late answer shows; markers fit the bars; drawings are saved unless the write fails, and never wiped; a bar stays in sight |
| DeGiro sync: `services/degiro_sync.py`, CSV import | the same rows, DeGiro transactions | nightly and manual sync, import | two syncs at once insert an ISIN twice; a position bought back stays closed; an empty account returns early | one position per ISIN; what is held is open |
| News worker: `server-b-worker`, `routes/news.py` | seen URLs, SQLite retry queue, articles | fetch, score, post, flush, ingest | lost answers, retries, dead letters, marked as seen before scored | every scored article arrives once or is a dead letter |
| Trading worker and scanner: `trading/worker.py`, `scanner_worker.py` | back-tests, scans, rule alerts, analyses | queue, run, fail, finish | "running" is committed before the work; timeouts and repeated runs | every queued job ends as completed or failed |
| Back-test engine: `trading/engine` | none between runs | run, compose, walk forward, circuit breaker | numeric edges, order of checks in a bar | one position at a time; cash never negative |
| Portfolio rules: `trading/rules` | none | pure predicates | – | – |
| Accounts: `auth_routes.py`, `admin.py` | users, links, lockout | register, verify, reset, deactivate, purge | one-time links, counters, objects detached from their session | a link works once; the lockout counts every failure |
| Market data, PineScript, strategies, watchlists, reports, feedback, bot, ML service, deployment | caches or plain rows | calls to providers, CRUD | – | – |

`PROJECT.json` lists the components with their sources, and under `hazards` what
in this code is hard to test, each at its line, with the properties that watch it.

## 2. The models

The database is never modelled as such: a committed row is a value of a
function, a session's copy is a value in a record of the session, a flush or a
COMMIT is a step. An action is one stretch of code between two points where
another session can intervene. "Variant" definitions are plausible mistakes (a
dropped guard, a missing lock); no specification uses them. They are the
mutants listed in `PROJECT.json`: put in the place of the real definition, each
must make TLC find the property violated.

### Brokerage ledger: `LedgerData`, `Ledger`, `OrderEngine`, `LedgerBooks`, `OrderEngineProofs`, `SetSums`

`LedgerData` has the rows and the arithmetic: cents, lots of 1/`Scale` of a
share, and the rounding of a notional to a `Numeric(18,2)` balance. `Ledger` is
the promise: every request is one indivisible change or none. `OrderEngine` is
the code: `place_order` (market) takes the account row, reads the holding without
a lock and writes everything at COMMIT; `cancel_order` and `execute_order` lock
the order row and then the account row; `create_transaction` locks the account,
writes the balance and inserts under a unique reference. `PlaceLimit` only
inserts. A deposit or withdrawal without a reference (it is optional, and NULLs are
not unique) is simply another request with a reference of its own. Each handler may be cut off at any step (`Abort`), which rolls back.
`average_cost` and `current_price` of a holding are display data and left out.
`LedgerBooks` puts the committed rows (transactions, filled orders) beside the
balances and the holdings and says that they add up; it is the module of the run
`order_engine`. `SetSums` has the facts about sums over finite sets that its
theorems need.

### Soft stops: `SoftStops`, `SoftStopsProofs`, `MCSoftStops`

A sweep loads the armed positions, looks at the clock, waits for prices and then
for each position tries the pending channels (`Deliver`); one COMMIT writes all
records, unless a position was deleted meanwhile, which rolls the batch back
(`CommitStale`). A channel that is not `Configured` reports success and sends
nothing; one may also send and report a failure (`late`), of which nobody keeps a
record. `ChainEnds` and `Restart` are what the sweeps share with `PriceAlerts`, of
whose evaluation a sweep is a part: without a chain there is none. `CheckOne` is the immediate check that a new level asks for. A
PATCH is `OpenEdit` (the load) and `SaveEdit` (the commit). `Save` is the UPDATE
of the columns that differ. A level is a number that grows with each entered
level, so that a message can be attributed to the level it was about; the price
is "at or below it" or not, chosen by `Fetch`.

### Price alerts: `PriceAlerts`, `PriceAlertsProofs`, `MCPriceAlerts`

`Load`, `Fetch`, `Commit` or `Fail`, `Requeue` or `RequeueFails`, and `Done` are
the stations of `evaluate_price_alerts`; the pc of a job that has passed its
`finally` clause but is still on arq's queue is `"done"`. A chain ends in
`RequeueFails` (Redis refuses, `session.close()` raises, or the timeout falls into
the `finally` clause), in `StartUnseeded` (the seed of the startup fails), or in
`Expire` (arq gives a queued job up); `ends` counts these. `Crash` puts running
jobs back on the queue; `Stop` (SIGTERM) in addition lets some of their `finally`
clauses get as far as the enqueue. Creation counts the active alerts and inserts later; PATCH works on a
copy.

### Browser session: `Sessions`, `SessionsProofs`, `MCSessions`

Pair `n` of an access token for a tab and a refresh token for the cookie is one
number; `login[n]` is the login it descends from. The cookie is shared, the
`_refreshLock` belongs to one tab. The server side of `/auth/refresh` is `Find`
or `Refuse` (the SELECTs) and `Rotate` (DELETE, INSERT, COMMIT), so two refreshes
may overlap. `account` is the user's row as the endpoints see it: `active`; `paused`
(deactivated or marked for deletion: calls are refused, login and refresh are not);
`disabled` (all are refused, and `Bar` deletes the token); or `gone`, with its tokens
(`AccountDeleted`; a rotation then fails, `RotateFails`). A repeated call that is not
answered with success signs the user out (`RetryFails`). Answers get lost before or
after the rotation (`Lose`).

### Paper trading: `PaperTrading`, `PaperTradingProofs`, `MCPaperTrading`

One job slot evaluates all active trades in one session: `Look` loads the open
positions and applies the stop-loss, `Act` flushes, selects again and follows the
signal, `Account` records the equity and lets the breaker trip, `Commit` writes
everything. `mine` holds the rows a session has changed, `locked` those it has
flushed. A flush waits for a row that another session holds (`NotLocked`), fails
on a row that is gone, and PostgreSQL ends a deadlock by failing one session
(`Fail`). An exception in one trade leaves what was changed for it in the session,
and the loop goes on (`GiveUp`). Requests load, check the status, and save it later;
a new trade is committed first (`Start`) and its chain queued afterwards (`Queue`), or
not (`QueueFails`). The chains that end (`Unqueued`, `QueueFails`, `Expire`, a startup
that cannot seed) are counted in `lost`, and those that a `Restart` adds in `added`: it
seeds one, and runs again the evaluations that were cut off, some of which may have
queued their successor already. Money is reduced
to its outcomes: which positions hit the stop-loss, whether the equity moved,
whether the breaker tripped. The UPDATE of a trade whose strategy is missing is
treated as unlocked until COMMIT, although a later autoflush of the same batch
may send it earlier: this allows more interleavings than the code, not fewer.

### Portfolio manager: `PortfolioManager`, `PortfolioManagerProofs`, `MCPortfolioManager`

The page and the endpoints in one module, since what the page may show depends
on what the endpoints do with overlapping requests. A request is a record that
passes through `sent`, `found` (a sale that has its position and goes on to its
portfolio), `ready` (rows loaded, checks passed), `committed` and `answered`, or
`failed`. It carries the copies it works on; a COMMIT writes values computed from
them (`Pay`, `CommitFullSale`, ...), fails when it updates a row that is gone
(`RollBack`), and may fail afterwards in `db.refresh` (`Refresh`). On the page,
`dialog` is the modal with the copy of the row it was opened on; a modal can be
closed while its request is under way, and another opened. `ReceiveAdd` and
`ReceiveDelete` work on the list of the render in which the handler was made,
the others on the current one. `contended` (the rows that two requests held at
once) and `calm` (the user has waited for every answer, and none was lost) are history
that only the properties read. All prices are 1. The stops of a position are in
`SoftStops`.

### Stock chart: `Viewer`, `StockChart`, `StockChartProofs`, `MCStockChart`

`Viewer` is the promise of any view of remote data: it shows what is chosen now,
or the placeholder, or what it showed before the choice. `StockChart` is shown to
implement it with the symbol and the interval as what is chosen (`ShowsChosen`).
Bars are named by what they are for, or `MadeUp`, which stands for the output of
`generateOHLCV`; a flight is a request of an effect, and its `live` is `!cancelled`.
Choosing a symbol mounts a new instance because of `key={activeSymbol}`
(`Mount`, `Fresh`): its effects read the drawings, if they can be read (`Read`), and
arm the timer. `Save` and `SaveFails` are the two ends of its `setItem`. The histories
`foreign` and `refused` say that storage may differ from what this tab has read or
written, and that its last save failed. Drawing `d`
with value `n` is a drawing as its `n`-th change left it. The window is `zoom`, or
a preset at the end of the bars. `Click` stands for a hit on a drawing or on an
anchor of it, and `Release` for the button going up as well as for the pointer
leaving the chart, which is why the buttons beside the chart need `HandFree`. The
reset button is `ChoosePeriod` of the preset that is on. The rounding in `Wheel` and `Future` is that of
`Math.round`; positions of the pointer are the left edge, the middle and the right edge.

## 3. The runs

| Run | What it asks | Instance |
|---|---|---|
| `order_engine` | Do all interleavings of handlers implement the atomic ledger, do the books add up, is every request answered? | 2 handlers, 1 account, 1 security, 2 order ids, 2 references, lots of half a share; 82 thousand states |
| `soft_stops` | Are the records true, do repeats have a cause, is the stop the user's? | 1 position, 1 job, 1 edit, 2 channels, 1 level, 2 days, 1 fault; 3.8 million states |
| `soft_stops_live` | Is a failed channel retried until it delivers, at the level the stop has now? | the same with 1 day, 2 levels, and one of the channels not configured; 220 thousand states |
| `soft_stops_reset` | violation: can a new level inherit the record of the old one? | 1 channel, 2 levels |
| `price_alerts` | Does a chain survive all but an end in its `finally` clause or on the queue, does one chain notify once, does an alert trigger? | 1 alert, 2 jobs, 2 starts, 1 end; 163 thousand states |
| `price_alerts_restart` | violation: does an alert notify once after a restart? | 1 alert, 2 jobs, 2 starts |
| `sessions` | Are refusals justified, is rotation single, does every call settle? | 1 tab, 2 calls, 3 pairs, 1 lost answer, an account that changes; 476 thousand states |
| `sessions_tabs` | violation: the same with two tabs | 2 tabs, 1 call |
| `paper` | Do overlapping evaluations and requests keep positions apart and closed, are chains conserved? | 1 trade, 2 slots, 1 request, 2 positions per slot, 1 lost and 1 added chain; 1.6 million states |
| `paper_stop` | violation: is a stop permanent? | 1 trade, 1 slot, 1 request |
| `portfolio` | Is a portfolio ever in debt, do cash and shares add up unless requests overlap on a row, is a page that waits current? | 2 portfolios, 2 positions, 2 requests at once, 2 shares at most, 3 events; 4.2 million states |
| `stock_chart` | Does the chart implement `Viewer`, do markers fit, are drawings saved and never wiped, does a bar stay in sight? | 2 symbols, 3 intervals, 2 drawings, bars of 14, 11 and 0, 5 events; 833 thousand states |

### The bounds

The hazards are races for one row, so one account, position, alert or trade with
two actors has all of them; a second row would only add independent copies. What
the bounds have to allow is a repetition:

* two order ids and two references let a request meet the result of an earlier
  one (a cancel of what was just filled, a repeated reference), and `Scale = 2`
  is the smallest scale at which a notional is not a whole number of cents, so
  that rounding occurs;
* two days, so that records of yesterday are met today; two channels, so that
  one fails while the other delivers; one fault, so that a batch is lost and
  repeated, or an answer of a channel, or the chain ends. The liveness run has two
  levels, so that a level can be entered while a record of the earlier one is about
  to be committed; on one day, since `Warned` is about an uninterrupted session.
  `RepeatsHaveACause` is checked with one job at a time: two
  overlapping jobs repeat each other's messages, because each works on its own
  copy of the record;
* two starts of the worker give two chains, and one end may take either;
* three pairs are a login, a refresh and one more of either; at the bound a tab
  sends no more calls, so that waiting calls still settle;
* two positions per slot let a slot open one while an older one is closed or
  open; two slots are what overlapping chains need. One lost chain is what
  `ChainAlive` has to survive with one trade; one added chain is a seed of a restart,
  or the successor of an evaluation that is run again;
* two requests of the page overlap in every pair of kinds, and the third event
  is a loss of one, a switch of the portfolio or a third request that meets
  what they left. Answers, the closing of a dialog and the reloads that answers
  cause are not counted. Two shares are what a partial sale takes;
* five events of the user and the other tab are, for example: open, draw, have
  the other tab write, change, come back. Ten slots is the smallest
  window, so 14 and 11 bars are on both sides of what zooming and panning can
  reach, and an interval without bars is the empty answer. Answers,
  releasing the button, Escape, the save timer and the failures of storage are not
  counted.

Symmetry, where a cfg asks for it, is on values that no definition distinguishes
(jobs, requests, channels, tabs; portfolios, positions, slots; symbols, drawings), and only in runs
without a liveness property.

## 4. Fairness and deadlock

* `OrderEngine`: a running handler goes on (weak fairness), and the row locks
  of PostgreSQL are granted in the order in which they were asked for (strong
  fairness of the two locking steps).
* `SoftStops`: while the chain lives there is another sweep, and a running job goes
  on; a price
  again and again found below the level is taken as such, and a channel tried
  again and again delivers some time (strong fairness). Nothing is assumed of
  `Restart`, so `Warned` only speaks of a position that stays armed while the market
  stays open and the chain lives. It exempts a position whose record is inherited
  from an earlier level (`Inherited`, the finding of `soft_stops_reset`).
* `PriceAlerts`: the container is restarted (`restart: always` or
  `unless-stopped` in the `docker-compose` files), arq polls, jobs go on, and an evaluation is not cut off every time at the same
  point. The start it assumes may be one that seeds no chain.
  `Triggers` exempts the histories in which as many chains ended as were started.
* `Sessions`: browser and server go on with what is under way.
* `PaperTrading`, `PortfolioManager` and `StockChart` are checked for safety
  only. Nothing is owed in the last two that fairness of the code could promise:
  the user may leave, and an answer may never come.

Deadlock is checked in `order_engine`, `sessions`, `sessions_tabs`, `paper`,
`paper_stop` and `portfolio`. It is not in the runs of `SoftStops`, where the calendar ends at
`MaxDay`, nor of `PriceAlerts`, where starts, targets and lives are bounded, nor in
`stock_chart`, where all that the user does is: there the model may stop only
because a bound is reached.

## 5. The proofs

Assumed are only the named assumptions of the modules on their constants (types
of bounds, that channels and jobs are finitely many, and that the values for
"none" differ from the others, ids of positions included) and, in the statement
of the three theorems that need it, one of two restrictions:

* `OneTab` (two theorems on sessions): there is only one tab, without which they
  are false (`sessions_tabs`);
* `OneJob` (`RepeatsStayCaused`): jobs of the alert worker that touch a position
  run one after the other. Two that overlap repeat each other's messages.

* **`OrderEngineProofs`**: for any number of handlers, accounts, orders and any
  amounts: `TypeCorrect`, `CopiesStayFresh`, `OrdersStayFinal`, and `Refinement`
  (`Spec => Linearizable`: each step of the handlers is a step of `Ledger` or
  leaves its state alone). The inductive invariant adds to the types what each
  pc implies of the request and the copies (`Shape`), that a handler past a
  locking step has the lock (`LocksHeld`), and that the id of an order about to
  be inserted is taken by no other (`Reserved`). Freshness follows because every
  action that writes a row is done by the holder of its lock; the holding, read
  without one, is protected by the lock of its account. Without `Reserved` an
  insert could overwrite a row, and `Ledger` has no such step.
  `CashAddsUp` and `SharesAddUp` say that balances and holdings are what the
  committed rows add up to, shares exactly and cash up to half a cent for each fill, because the
  balance is rounded and the notional is not. Their invariant (`Books`) keeps the set of
  committed rows finite and accounts for the drift: each commit adds one term to a sum
  and the same to the row, or rounds by at most half a cent (`DriftGrows`).
  What a sum over a finite set does when an element is added or changed
  is proved in `SetSums`, not by induction over sets, whose library theorem the
  provers cannot instantiate, but from a counterexample of the least
  size (`Least`).
* **`SessionsProofs`**: `TypeCorrect` for any number of tabs; with one tab and any
  number of calls, `RefusalsStayTrue` and `ChainsStaySingle`. The invariant says
  that at most one refresh is under way (`OneRefresh`), that the token it
  presents or is granted is *usable*, that is live, expired, or of a login that
  lost an answer or was refused for its account (`barred`), and one that the server
  has found is live, unless the account is gone (`RefreshesGood`).
  The cookie is usable, or its successor is on the way, as the answer to the
  refresh of this very cookie (`CookieGood`). A refusal could only be false if
  some other refresh had rotated the token in between, with the account as it was.
* **`SoftStopsProofs`**: for any number of positions, jobs and requests, and any
  finite set of channels: `TypeCorrect`, `RecordsStayTruthful`,
  `StopStaysTheUsers`. The runs have one job; here jobs overlap. Truth of the
  rows alone is not inductive: the copy a job is about to write has to be true
  as well (`Truths`). It speaks of the configured channels, since the others are recorded
  without a message. The copy is true when the job records what it sent, stays so because
  no message is unsent, and an UPDATE takes each column from a true row. For the
  stop, `LevelsKept` says that a job's copies have the levels it has loaded, so
  that its UPDATE does not name that column.
  `RepeatsStayCaused`, for one job: no more messages are sent again than
  there were of which no record was kept, in a batch rolled back or because the answer
  of the channel was lost. `Due` is the set of messages that a row, or the copy of the
  job, would send although they were sent before; `Counted` says that repeats and
  what is still due are paid for by losses, `AtWork` that the row a
  job holds is as it was loaded, or at a level nothing was told of yet.
* **`PriceAlertsProofs`**: for any number of alerts and requests, and any finite
  set of jobs: `TypeCorrect`, `ChainsStayKept` (inductive as it stands; each step of a job
  moves at most one in or out of the unfinished ones, and a crash or stop puts all of them
  back on the queue) and
  `OneChainKeepsItsWord`. For the last, `OneChain` says that until a second start
  the queue and the jobs together have at most one evaluation while the worker
  is up, and `NoticesOwed` that an alert that is active, or was when a running
  evaluation loaded it, has notified less often than it became active. A
  commit spends what is owed, and with one chain no other evaluation still counts
  on it; `price_alerts_restart` shows what happens with two.
* **`PaperTradingProofs`**: for any number of trades, slots and requests:
  `TypeCorrect`, `OpenedStaysApart`, `ClosedPositionsStay`, `BreakerClosesAll`.
  Every step changes the position rows and the copies in one of a few ways, its
  *effect* (nothing, an edit of a copy, a closing, an opening, a write to the
  table, a forgotten copy), so the invariant on rows (`RowInv`) is proved once
  per effect instead of once per action. It says that a changed row
  keeps its trade, and that the only open rows in a session's copies are those
  it is about to insert itself, so that no write of an old copy opens anything.
  `RoundInv` says where in an evaluation which copies can exist, `ClosesExist` what
  a stop request has selected; `BreakerInv` and `TripsInv` extend this to the
  trade that a tripped breaker has closed. Chains are conserved
  (`ChainsStayCounted`): those queued, running or about to be queued by a request,
  with the lost ones, are always the one of the first startup, one for each trade
  ever started and those that restarts added; so there is a chain as long as no more
  were lost than trades started (`ChainStaysAlive`). What a step does to the chains is
  one of seven `Moves`, and `MovesCount` does the arithmetic once for each.
* **`PortfolioManagerProofs`**: for any number of portfolios, positions and
  requests and any amounts: `TypeCorrect`, `DebtNever`, `CashAddsUp`,
  `SharesAddUp`. `IInv` has a half for the page and one for the server, so that
  a step of one leaves the other half alone. The server half says of each request what its place in the
  handler implies (`Shaped`) and what it has checked of its copy of the balance
  (`Covered`): the balance is written as a value computed from that copy, so
  what was checked is what is written and no overlap leads into debt, at
  the price of lost updates. For the sums, `CopiesInv` says that rows that two working
  requests share are contended (`Apart`) and that every copy of a row that is
  not is equal to the row. `PageStaysCurrent`: a page whose user has waited shows
  what the server has. Such a page has at most one request (`Alone`), and the invariant
  (`PageSync`) follows it (`InFlight`): until it commits, the page agrees
  with the server and the request is about what is shown (`Asked`); from
  then on what it wrote is what its answer patches (`Settled`).
* **`StockChartProofs`**: every property of the run, for any symbols, intervals,
  drawings, presets and lengths: `Refinement` (`Spec => ShowsChosen`), `MarksOnBars`,
  `QuietIsSaved`, `SelectionExists`, `SavesTakeNothing`, `SomeBarInSight` and
  `TypeCorrect`. The state falls into three groups (data, window, drawings) that few actions
  share, and frame lemmas reduce each proof to the actions of its group.
  `DataInv` says that a live request for bars is for what is chosen and that the
  markers of other bars are awaited; `Accounted` that what storage has and the screen has not was
  erased, could not be read or came from another tab, whether a save is due or not; `WindowInv`
  that a window set on the present bars starts within the limit of `Clamp`.

Every safety invariant and action property of the passing runs is stated by a
theorem. Only model-checked are liveness (`Answered`, `Warned`, `Triggers`,
`CallsSettle`) and the absence of deadlock, both out of the prover's reach, and the
violations, which are counterexamples.

## 6. Where the code and its words differ

| Run | Code | What it says of itself |
|---|---|---|
| `soft_stops_reset` | A PATCH resets the delivery record on a copy. A job that commits between its load and its commit leaves the record of the old level beside the new one, which then stays silent for the day. | `models.py:339` "so a new soft-stop level can fire again" |
| `price_alerts_restart` | Each start of the alert worker seeds another chain although the old one is still in Redis: both load the active alert and both notify. | `alert_worker.py:418-420` "Triggered alerts get deactivated and a notification is created" |
| `sessions_tabs` | The refresh lock is per tab, the cookie is not: the second of two tabs that refresh at once is answered 401 and signs the user out. | `client.js:102` "session is truly expired" |
| `paper_stop` | An evaluation under way commits a position it opened into a trade stopped meanwhile; nothing ever closes it. | `routes/trading.py:2746` "Stop a paper trade permanently and close all open positions" |

Noticed while reading, and not the subject of a run: reactivating an alert with
PATCH is not counted against the limit of 50; `/auth/register` uses `user_id`
before the INSERT has set it; `current_user` is detached from its session, so
deactivation is never written (the model of the session allows it all the same, as `paused`); `evaluate_closed_trade` finds the fully sold
position gone and then formats a P&L of `None`, so the analysis stays open; two
syncs of DeGiro at once both insert an ISIN (`degiro_sync.py:392`); a purge of a
user locks accounts before orders, `execute_order` after (`auth_routes.py:1457`);
PATCH of a paper trade's capital leaves its old snapshots to the breaker
(`routes/trading.py:2844`).

On the portfolio page: the header says that "All mutations reload positions +
quotes" (`PortfolioManagerPage.jsx:15`), while most handlers patch the list; a
stop that is emptied in the Modify dialog is sent as `null`, which the backend
takes for "unchanged" (`portfolio_manager.py:276-287`).

A channel that is not configured counts as delivered (`notifications.py:200-201`,
220-222), so with none configured a stop is badged HIT and no message is sent. A chain of
alert or paper evaluations that times out within its `finally` clause, or whose
session cannot be closed there, ends until the next start of the worker: the
`except Exception` around the enqueue does not catch a `CancelledError`, and the close
comes first (`alert_worker.py:523-534`, `paper_worker.py:144-154`). A paper trade whose
`db.refresh` fails after its commit (`routes/trading.py:2646`) is answered 500, exists,
and has no chain of its own.

On the chart: a save that `localStorage` refuses is dropped without a word
(`ChartsPage.jsx:609`), and a list that cannot be parsed is taken for empty and
overwritten half a second later (602); leaving a chart within half a second of a change loses the change
(`ChartsPage.jsx:611`); opening one writes its list back half a second later, over
what another tab has written since; a template puts the drawings of one symbol
in the place of another's; bars that cannot be loaded are replaced by made-up ones
without a warning (314); markers of earlier bars stay after a request that
brings none; turning the wheel while "ALL" is chosen starts from 9999 bars, not from
those there are, so the window jumps although the comment at 861 says "Keep center
candle in place"; and at ten slots the limit of 690 lets the last bar leave the window.

## 7. What is not modelled

Amounts of money in paper trading (and with them the PATCH of capital and
parameters), prices and signals (they are inputs), the password check, lockout
and e-mail links, and every component with status `not_modelled` in
`PROJECT.json`, each with its reason there: plain CRUD, text processing,
floating-point numerics, monitoring, code that never runs (the archiver), and
the components the plan below still has. Of the portfolio manager: creating and
deleting a portfolio, importing, quotes, rules and scores. Of the chart: overlays,
indicators, coordinates and styles, the list of templates and the side panels.

## 8. Plan

Order, most important behaviour first. The modules done are marked.

1. `LedgerData`, `Ledger`, `OrderEngine` (done, proved)
2. `SoftStops` (done, proved), 3. `PriceAlerts` (done, proved), 4. `Sessions` (done, proved),
   5. `PaperTrading` (done, proved)
6. `PortfolioManager` (done, proved), `Viewer` and
   `StockChart` (done, proved). To come: the DeGiro sync on the rows of
   `PortfolioManager`, two syncs at once and a sync beside a sale.
7. `NewsDelivery`: worker, retry queue and ingestion as a network that loses
   answers. Abstract specification: a scored article is inserted at most once and
   leaves the worker only as delivered or as a dead letter. Instance: 2 URLs, 2
   retries, a crash.
8. `Jobs`: pending, running, completed, failed of back-tests and scans under
   timeouts and repeated runs; liveness "every queued job ends" as far as the
   code keeps it.
9. `PaperEquity`, `Backtest`: pure operators for equity, drawdown and the
   bookkeeping of a back-test, as recursive functions checked against a
   definition over bounded inputs.
10. `Accounts`: one-time links, lockout, deactivation and purge, composed with
    `OrderEngine` for the order in which a purge locks rows.

Theorems to come: the safety of `NewsDelivery` and `Jobs`.
