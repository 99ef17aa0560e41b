----------------------------- MODULE SoftStops -----------------------------
(***************************************************************************)
(* Soft-stop alerts of trading/alert_worker.py.  A position may carry a    *)
(* soft-stop level; while the price is at or below it the alert worker     *)
(* tells the user, once a day and per channel, in two stages: during the   *)
(* session ("intraday") and after the close ("eod").  What was delivered   *)
(* is recorded on the position's row, and a failed channel is retried by   *)
(* the next sweep.                                                         *)
(*                                                                         *)
(* Sweeps (_check_soft_stops), immediate checks (evaluate_one_soft_stop)   *)
(* and the user's requests each work on a copy of the row, loaded in their *)
(* own database session without a lock; COMMIT writes the columns that     *)
(* differ from what the session loaded, and only those.                    *)
(***************************************************************************)
EXTENDS Integers, FiniteSets

CONSTANTS
    Position,   \* the positions (rows of portfolio_positions)
    Job,        \* worker jobs that may run at once
    Session,    \* requests of the user that may run at once
    Channel,    \* the push channels: Telegram and ntfy
    Configured, \* those that have a token or an address in the environment
    MaxLevel,   \* bound: how often a new level is entered
    MaxDay,     \* bound: days of the calendar
    MaxFaults   \* bound: jobs and chains cut off, answers of a channel lost

ASSUME BoundsAssumption == MaxLevel \in Nat /\ MaxDay \in Nat \ {0} /\ MaxFaults \in Nat
ASSUME ChannelAssumption == IsFiniteSet(Channel) /\ Configured \subseteq Channel

Stage == {"intraday", "eod"}
Level == 0 .. MaxLevel      \* 0: no soft stop; every entered level is a new number
Day   == 0 .. MaxDay        \* 0: never

DayRecord == [day : Day, ok : SUBSET Channel]
Row == [level : Level,
        delivery : [Stage -> DayRecord],    \* soft_stop_delivery_json, one column
        pinged : [Stage -> Day]]            \* soft_stop_intraday_on, soft_stop_eod_on

VARIABLES
    open,       \* the positions that still have a row
    row,        \* the committed rows
    levels,     \* how many levels have been entered so far
    day, phase, \* New York time: before, during or after regular hours
    chain,      \* does a sweep still follow every sweep?
    asked,      \* positions with a queued evaluate_one_soft_stop
    job,        \* the running worker jobs
    edit,       \* the running PATCH requests
    told,       \* history: messages that reached the user
    repeats,    \* history: how many of them the user already had
    lost,       \* history: messages of which no record was kept
    faults      \* jobs and chains cut off, and answers lost, so far

world == <<day, phase, chain>>
history == <<told, repeats, lost, faults>>
vars == <<open, row, levels, world, asked, job, edit, history>>

Unrecorded == [s \in Stage |-> [day |-> 0, ok |-> {}]]
Unpinged   == [s \in Stage |-> 0]
Blank      == [level |-> 0, delivery |-> Unrecorded, pinged |-> Unpinged]

\* A job that does not run, and a request that does not run.
Idle == [kind |-> "idle", pc |-> "idle", stage |-> "intraday", day |-> 0, todo |-> {},
         loaded |-> [p \in Position |-> Blank], view |-> [p \in Position |-> Blank],
         sent |-> 0, for |-> {}]
NoEdit == [at |-> {}, loaded |-> Blank]

Init ==
    /\ open = Position
    /\ row = [p \in Position |-> Blank]
    /\ levels = 0
    /\ day = 1 /\ phase = "pre" /\ chain = TRUE
    /\ asked = {}
    /\ job = [j \in Job |-> Idle]
    /\ edit = [u \in Session |-> NoEdit]
    /\ told = {} /\ repeats = 0 /\ lost = 0 /\ faults = 0

-----------------------------------------------------------------------------
(* A session's UPDATE.                                                     *)

\* Variant: the UPDATE writes every column of the copy.
SaveWhole(r, loaded, view) == view

\* Only the columns changed since the load are in the UPDATE; the others keep
\* whatever was committed meanwhile.
Save(r, loaded, view) ==
    [level    |-> IF view.level # loaded.level THEN view.level ELSE r.level,
     delivery |-> IF view.delivery # loaded.delivery THEN view.delivery ELSE r.delivery,
     pinged   |-> [s \in Stage |-> IF view.pinged[s] # loaded.pinged[s]
                                   THEN view.pinged[s] ELSE r.pinged[s]]]

-----------------------------------------------------------------------------
(* The worker's jobs.                                                      *)

\* The sweep selects the positions with a level, then looks at the clock;
\* outside regular hours and before the close it is done.
Sweep(j) ==
    /\ chain
    /\ job[j].pc = "idle"
    /\ phase # "pre"
    /\ job' = [job EXCEPT ![j] =
         [kind |-> "sweep", pc |-> "fetch", day |-> day,
          stage |-> IF phase = "open" THEN "intraday" ELSE "eod",
          todo |-> {p \in open : row[p].level # 0},
          loaded |-> row, view |-> row, sent |-> 0, for |-> {}]]
    /\ UNCHANGED <<open, row, levels, world, asked, edit, history>>

\* The immediate check ignores the clock and always reports "intraday".
CheckOne(j, p) ==
    /\ job[j].pc = "idle"
    /\ p \in asked
    /\ asked' = asked \ {p}
    /\ job' = [job EXCEPT ![j] =
         [kind |-> "one", pc |-> "fetch", day |-> 0, stage |-> "intraday",
          todo |-> {p} \cap {q \in open : row[q].level # 0},
          loaded |-> row, view |-> row, sent |-> 0, for |-> {p}]]
    /\ UNCHANGED <<open, row, levels, world, edit, history>>

\* Variant: the date is taken in UTC, where it changes four hours early.
FetchUtc(j, hit) ==
    /\ job[j].pc = "fetch"
    /\ hit \subseteq job[j].todo
    /\ job' = [job EXCEPT ![j].pc = "send",
                          ![j].todo = hit,
                          ![j].day = IF job[j].kind = "one"
                                     THEN IF phase = "after" THEN day + 1 ELSE day ELSE @]
    /\ UNCHANGED <<open, row, levels, world, asked, edit, history>>

\* The prices arrive for some of the symbols, and those of the positions in
\* hit are at or below the level; the immediate check takes the date only now.
Fetch(j, hit) ==
    /\ job[j].pc = "fetch"
    /\ hit \subseteq job[j].todo
    /\ job' = [job EXCEPT ![j].pc = "send",
                          ![j].todo = hit,
                          ![j].day = IF job[j].kind = "one" THEN day ELSE @]
    /\ UNCHANGED <<open, row, levels, world, asked, edit, history>>

\* Variant: as long as one channel is missing every channel is tried again.
PendingAll(rec, today) ==
    IF rec.day # today \/ rec.ok # Channel THEN Channel ELSE {}

\* The first attempt of the day uses every channel, a retry those that failed.
Pending(rec, today) == IF rec.day # today THEN Channel ELSE Channel \ rec.ok

\* Variant: a channel counts as delivered once it was tried.
RecordTried(view, s, today, pend, ok) ==
    [view EXCEPT !.delivery[s] = [day |-> today, ok |-> Channel],
                 !.pinged[s] = today]

\* Variant: only the dates of the badge are kept.
RecordBadge(view, s, today, pend, ok) ==
    IF ok = {} THEN view ELSE [view EXCEPT !.pinged[s] = today]

\* What _apply_stage_result leaves on the copy of the position.
Record(view, s, today, pend, ok) ==
    LET done == (Channel \ pend) \cup ok IN
    [view EXCEPT !.delivery[s] = [day |-> today, ok |-> done],
                 !.pinged[s] = IF done # {} THEN today ELSE @]

\* One position: the pending channels are tried and those in ok report success.
\* A channel that is not configured reports success although nothing is sent;
\* one whose answer is late or lost reports a failure although the message went
\* out, and no record of that message is ever kept.
Deliver(j, p, ok, late) ==
    LET s == job[j].stage
        v == job[j].view[p]
        pend == Pending(v.delivery[s], job[j].day)
        sent == ok \cap Configured
        messages == {<<p, s, c, v.level, job[j].day>> : c \in sent \cup late}
    IN /\ job[j].pc = "send"
       /\ p \in job[j].todo
       /\ ok \subseteq pend /\ pend \ Configured \subseteq ok
       /\ late \subseteq pend \ ok
       /\ job' = [job EXCEPT
            ![j].todo = @ \ {p},
            ![j].view[p] = IF pend = {} THEN v ELSE Record(v, s, job[j].day, pend, ok),
            ![j].sent = @ + Cardinality(sent)]
       /\ told' = told \cup messages
       /\ repeats' = repeats + Cardinality(messages \cap told)
       /\ lost' = lost + Cardinality(late)
       /\ faults' = faults + Cardinality(late) /\ faults' <= MaxFaults
       /\ UNCHANGED <<open, row, levels, world, asked, edit>>

Dirty(j) == {p \in Position : job[j].view[p] # job[j].loaded[p]}

\* One COMMIT for everything the job did.
Commit(j) ==
    /\ job[j].pc = "send"
    /\ job[j].todo = {}
    /\ Dirty(j) \subseteq open
    /\ row' = [p \in Position |-> IF p \in Dirty(j)
                  THEN Save(row[p], job[j].loaded[p], job[j].view[p]) ELSE row[p]]
    /\ job' = [job EXCEPT ![j] = Idle]
    /\ UNCHANGED <<open, levels, world, asked, edit, history>>

\* The UPDATE of a position that was deleted meanwhile matches no row: the
\* whole batch is rolled back.
CommitStale(j) ==
    /\ job[j].pc = "send"
    /\ job[j].todo = {}
    /\ ~(Dirty(j) \subseteq open)
    /\ job' = [job EXCEPT ![j] = Idle]
    /\ lost' = lost + job[j].sent
    /\ UNCHANGED <<open, row, levels, world, asked, edit, told, repeats, faults>>

\* Crash, job_timeout, shutdown or an exception: the session is rolled back.
\* arq runs a job again whose worker went away.
Abort(j) ==
    /\ job[j].pc # "idle"
    /\ faults < MaxFaults
    /\ faults' = faults + 1
    /\ asked' \in {asked, asked \cup job[j].for}
    /\ job' = [job EXCEPT ![j] = Idle]
    /\ lost' = lost + job[j].sent
    /\ UNCHANGED <<open, row, levels, world, edit, told, repeats>>

-----------------------------------------------------------------------------
(* The user's requests.                                                    *)

\* PATCH /positions/{id}: the position is loaded ...
OpenEdit(u, p) ==
    /\ edit[u] = NoEdit
    /\ p \in open
    /\ edit' = [edit EXCEPT ![u] = [at |-> {p}, loaded |-> row[p]]]
    /\ UNCHANGED <<open, row, levels, world, asked, job, history>>

\* A changed level clears both stages in the copy.
Reset(loaded, l) == [level |-> l, delivery |-> Unrecorded, pinged |-> Unpinged]

\* ... and saved with the level l: a new one, or 0 to remove it.  A new level
\* asks for an immediate check, unless Redis is not there.
SaveEdit(u, p, l, queued) ==
    /\ edit[u].at = {p}
    /\ p \in open
    /\ l # edit[u].loaded.level
    /\ l \in {0, levels + 1} /\ l <= MaxLevel
    /\ levels' = IF l = 0 THEN levels ELSE l
    /\ row' = [row EXCEPT ![p] = Save(@, edit[u].loaded, Reset(edit[u].loaded, l))]
    /\ asked' = IF l # 0 /\ queued THEN asked \cup {p} ELSE asked
    /\ edit' = [edit EXCEPT ![u] = NoEdit]
    /\ UNCHANGED <<open, world, job, history>>

\* The position is gone, or the level is the one it had: nothing to save.
DropEdit(u) ==
    /\ edit[u] # NoEdit
    /\ edit' = [edit EXCEPT ![u] = NoEdit]
    /\ UNCHANGED <<open, row, levels, world, asked, job, history>>

\* DELETE /positions/{id}, or a sale of the whole position.
Delete(p) ==
    /\ p \in open
    /\ open' = open \ {p}
    /\ UNCHANGED <<row, levels, world, asked, job, edit, history>>

-----------------------------------------------------------------------------
(* The market.                                                             *)

Tick ==
    /\ \/ phase = "pre"  /\ phase' = "open"  /\ day' = day
       \/ phase = "open" /\ phase' = "after" /\ day' = day
       \/ day < MaxDay   /\ phase' = "pre"   /\ day' = day + 1
    /\ UNCHANGED <<open, row, levels, chain, asked, job, edit, history>>

\* A sweep is part of the evaluation of price alerts: one that ends without
\* its successor on the queue (module PriceAlerts) is the last.
ChainEnds ==
    /\ chain /\ chain' = FALSE
    /\ faults < MaxFaults
    /\ faults' = faults + 1
    /\ UNCHANGED <<open, row, levels, day, phase, asked, job, edit, told, repeats, lost>>

\* The next start of the worker seeds a new chain.
Restart ==
    /\ ~chain /\ chain' = TRUE
    /\ UNCHANGED <<open, row, levels, day, phase, asked, job, edit, history>>

-----------------------------------------------------------------------------
Step(j) ==
    \/ \E hit \in SUBSET job[j].todo : Fetch(j, hit)
    \/ \E p \in Position, ok, late \in SUBSET Channel : Deliver(j, p, ok, late)
    \/ Commit(j)
    \/ CommitStale(j)

Worker(j) == Sweep(j) \/ Step(j) \/ Abort(j) \/ \E p \in Position : CheckOne(j, p)

User(u) ==
    \/ \E p \in Position : OpenEdit(u, p)
    \/ \E p \in Position, l \in Level, queued \in BOOLEAN : SaveEdit(u, p, l, queued)
    \/ DropEdit(u)

Next ==
    \/ \E j \in Job : Worker(j)
    \/ \E u \in Session : User(u)
    \/ \E p \in Position : Delete(p)
    \/ Tick \/ ChainEnds \/ Restart

Spec == Init /\ [][Next]_vars

\* As long as the chain lives the worker polls the queue and a running job goes
\* on.  The price is again and again found at or below the level, and a channel that is
\* tried again and again delivers some time.
Fairness ==
    \A j \in Job :
        /\ WF_vars(Sweep(j))
        /\ WF_vars(Step(j))
        /\ SF_vars(Fetch(j, job[j].todo))
        /\ \A c \in Channel :
             SF_vars(\E p \in Position, ok, late \in SUBSET Channel :
                         c \in ok /\ Deliver(j, p, ok, late))

FairSpec == Spec /\ Fairness

-----------------------------------------------------------------------------
Edit == [at : SUBSET Position, loaded : Row]

JobState == [kind : {"idle", "sweep", "one"}, pc : {"idle", "fetch", "send"},
             stage : Stage, day : Day, todo : SUBSET Position,
             loaded : [Position -> Row], view : [Position -> Row], sent : Nat,
             for : SUBSET Position]

RowsOK ==
    /\ open \subseteq Position
    /\ row \in [Position -> Row]
    /\ levels \in Level
    /\ day \in 1 .. MaxDay /\ phase \in {"pre", "open", "after"}
    /\ chain \in BOOLEAN
    /\ asked \subseteq Position
    /\ edit \in [Session -> Edit]

JobsOK == job \in [Job -> JobState]

HistoryOK ==
    /\ told \subseteq Position \X Stage \X Channel \X Level \X Day
    /\ repeats \in Nat /\ lost \in Nat /\ faults \in 0 .. MaxFaults

TypeOK == RowsOK /\ JobsOK /\ HistoryOK

\* A row says of a configured channel that it delivered on a day only if a
\* message about this position really went out on it that day, and if all are
\* configured the HIT / EOD badge is dated only by such a day, whatever was
\* rolled back, overwritten or retried in between (alert_worker.py:178-199;
\* notifications.py:197: "True on 2xx or if Telegram is not configured").
RecordsTruthful ==
    \A p \in Position, s \in Stage :
        /\ LET rec == row[p].delivery[s] IN
             \A c \in rec.ok \cap Configured : \E l \in Level : <<p, s, c, l, rec.day>> \in told
        /\ row[p].pinged[s] # 0 /\ Configured = Channel =>
             \E c \in Channel, l \in Level : <<p, s, c, l, row[p].pinged[s]>> \in told

\* With one job at a time, the user hears a message a second time only when of
\* a first time no record was kept: it was rolled back, or the channel reported
\* a failure (alert_worker.py:157-161: a retry uses only the channels that failed).
RepeatsHaveACause == repeats <= lost

\* "Clear two-stage alert state so a new soft-stop level can fire again"
\* (models.py:339): a delivery recorded on an armed position today was a
\* message about the level it has now.
RecordsForLevel ==
    \A p \in open, s \in Stage :
        LET rec == row[p].delivery[s] IN
        row[p].level # 0 /\ rec.day = day =>
            \A c \in rec.ok \cap Configured : <<p, s, c, row[p].level, day>> \in told

\* The worker never moves or clears a stop (HANDOFF.md:7), not even with a copy
\* of the row that is older than the user's last change.
StopIsTheUsers ==
    [][\A p \in Position : row'[p].level # row[p].level =>
          \E u \in Session : edit[u].at = {p} /\ edit'[u] = NoEdit]_vars

\* The present record of a position is about a level it no longer has: what
\* RecordsForLevel denies, and the code allows.
Inherited(p, s, c) ==
    LET rec == row[p].delivery[s]
        About(l) == <<p, s, c, l, day>> \in told
    IN rec.day = day /\ c \in rec.ok /\ ~About(row[p].level)
       /\ \E l \in Level : About(l)

\* A position that stays armed, and is found below its level while the market
\* is open and the chain of sweeps lives, is in the end reported on every
\* channel, at whatever level and whatever was reported of an earlier one:
\* failed channels are retried.  Only a record inherited from an earlier level
\* keeps it silent.
Warned ==
    \A p \in Position, c \in Configured, l \in Level \ {0} :
        <>[](p \in open /\ row[p].level = l /\ phase = "open" /\ chain
              /\ ~Inherited(p, "intraday", c))
            => <>(<<p, "intraday", c, l, day>> \in told)
=============================================================================
