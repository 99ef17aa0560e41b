---------------------------- MODULE PriceAlerts ----------------------------
(***************************************************************************)
(* Price alerts (routes/alerts.py) and the worker job that evaluates them  *)
(* (trading/alert_worker.py).  evaluate_price_alerts keeps itself going:   *)
(* its finally clause puts the next evaluation on the queue, and the start *)
(* of the worker seeds the first one.  Each evaluation loads the active    *)
(* alerts, waits for prices, deactivates those whose condition is met and  *)
(* adds their notifications, all with one COMMIT.  Users create, change    *)
(* and delete alerts meanwhile, each from a copy loaded without a lock.    *)
(***************************************************************************)
EXTENDS Integers, FiniteSets

CONSTANTS
    Alert,      \* alert ids
    Job,        \* jobs the worker runs at once (max_jobs)
    Session,    \* requests of the user that may run at once
    MaxActive,  \* MAX_ALERTS_PER_USER
    MaxTarget,  \* bound: how often a target price is entered
    MaxLives,   \* bound: how often one alert becomes active
    MaxStarts,  \* bound: how often the worker process starts
    MaxEnds     \* bound: evaluations and starts that leave no successor

ASSUME BoundsAssumption ==
    /\ MaxActive \in Nat \ {0} /\ MaxTarget \in Nat
    /\ MaxLives \in Nat \ {0} /\ MaxStarts \in Nat /\ MaxEnds \in Nat
ASSUME JobAssumption == IsFiniteSet(Job)

Target == 0 .. MaxTarget    \* every entered target is a new number, 0: no row
AlertRow == {r \in [target : Target, active : BOOLEAN] : r.active => r.target # 0}
NoAlert == [target |-> 0, active |-> FALSE]

VARIABLES
    alert,      \* the rows of price_alerts
    targets,    \* how many targets have been entered so far
    up,         \* is the worker process running?
    queue,      \* evaluations on the queue arq:alert
    job,        \* the evaluations that run
    request,    \* the user's requests that run
    starts, ends,   \* of the worker; of chains of evaluations
    lives,      \* history: how often an alert has become active
    notices     \* history: how many notifications an alert has written

environment == <<starts, ends>>
history == <<lives, notices>>
vars == <<alert, targets, up, queue, job, request, environment, history>>

Exists(a) == alert[a].target # 0
Active == {a \in Alert : alert[a].active}

Idle == [pc |-> "idle", loaded |-> [a \in Alert |-> NoAlert], hit |-> {}]
NoRequest == [op |-> "none", at |-> {}, loaded |-> NoAlert]

Init ==
    /\ alert = [a \in Alert |-> NoAlert]
    /\ targets = 0
    /\ up = FALSE /\ queue = 0
    /\ job = [j \in Job |-> Idle]
    /\ request = [u \in Session |-> NoRequest]
    /\ starts = 0 /\ ends = 0
    /\ lives = [a \in Alert |-> 0]
    /\ notices = [a \in Alert |-> 0]

-----------------------------------------------------------------------------
(* The evaluation.                                                         *)

Load(j) ==
    /\ up /\ queue > 0
    /\ job[j].pc = "idle"
    /\ queue' = queue - 1
    /\ job' = [job EXCEPT ![j] = [pc |-> "fetch", hit |-> {},
                 loaded |-> [a \in Alert |-> IF a \in Active THEN alert[a] ELSE NoAlert]]]
    /\ UNCHANGED <<alert, targets, up, request, environment, history>>

\* Prices arrive; the condition of the alerts in hit is met.
Fetch(j, hit) ==
    /\ up
    /\ job[j].pc = "fetch"
    /\ hit \subseteq {a \in Alert : job[j].loaded[a].active}
    /\ job' = [job EXCEPT ![j].pc = "commit", ![j].hit = hit]
    /\ UNCHANGED <<alert, targets, up, queue, request, environment, history>>

\* Variant: the alert stays active.
CommitStillActive(j) ==
    /\ up
    /\ job[j].pc = "commit"
    /\ \A a \in job[j].hit : Exists(a)
    /\ notices' = [a \in Alert |-> IF a \in job[j].hit THEN notices[a] + 1 ELSE notices[a]]
    /\ job' = [job EXCEPT ![j].pc = "requeue"]
    /\ UNCHANGED <<alert, targets, up, queue, request, environment, lives>>

\* The UPDATE sets is_active of each triggered row, whatever it is by now.
Commit(j) ==
    /\ up
    /\ job[j].pc = "commit"
    /\ \A a \in job[j].hit : Exists(a)
    /\ alert' = [a \in Alert |-> IF a \in job[j].hit
                    THEN [alert[a] EXCEPT !.active = FALSE] ELSE alert[a]]
    /\ notices' = [a \in Alert |-> IF a \in job[j].hit THEN notices[a] + 1 ELSE notices[a]]
    /\ job' = [job EXCEPT ![j].pc = "requeue"]
    /\ UNCHANGED <<targets, up, queue, request, environment, lives>>

\* Variant: the job is queued again only by a run that came to its end.
FailLast(j) ==
    /\ up
    /\ job[j].pc \in {"fetch", "commit"}
    /\ job' = [job EXCEPT ![j].pc = "done"]
    /\ UNCHANGED <<alert, targets, up, queue, request, environment, history>>

\* An error (also that of a row deleted meanwhile) or the job's timeout: the
\* session is rolled back and the finally clause runs.
Fail(j) ==
    /\ up
    /\ job[j].pc \in {"fetch", "commit"}
    /\ job' = [job EXCEPT ![j].pc = "requeue"]
    /\ UNCHANGED <<alert, targets, up, queue, request, environment, history>>

Requeue(j) ==
    /\ up
    /\ job[j].pc = "requeue"
    /\ queue' = queue + 1
    /\ job' = [job EXCEPT ![j].pc = "done"]
    /\ UNCHANGED <<alert, targets, up, request, environment, history>>

\* Redis cannot be reached, which is logged and forgotten; or closing the
\* session fails, or the job's timeout falls into the finally clause itself.
RequeueFails(j) ==
    /\ up
    /\ job[j].pc = "requeue"
    /\ ends < MaxEnds
    /\ ends' = ends + 1
    /\ job' = [job EXCEPT ![j].pc = "done"]
    /\ UNCHANGED <<alert, targets, up, queue, request, starts, history>>

\* arq gives a queued evaluation up: it began too often, or waited too long.
Expire ==
    /\ up /\ queue > 0
    /\ ends < MaxEnds
    /\ ends' = ends + 1
    /\ queue' = queue - 1
    /\ UNCHANGED <<alert, targets, up, job, request, starts, history>>

\* arq takes a finished job from the queue.
Done(j) ==
    /\ up
    /\ job[j].pc = "done"
    /\ job' = [job EXCEPT ![j] = Idle]
    /\ UNCHANGED <<alert, targets, up, queue, request, environment, history>>

-----------------------------------------------------------------------------
(* The worker process.                                                     *)

\* The start of the worker seeds an evaluation, also when one is queued.
Start ==
    /\ ~up /\ starts < MaxStarts
    /\ up' = TRUE
    /\ starts' = starts + 1
    /\ queue' = queue + 1
    /\ UNCHANGED <<alert, targets, job, request, ends, history>>

\* The seed cannot be queued, which is logged: this start has no chain.
StartUnseeded ==
    /\ ~up /\ starts < MaxStarts
    /\ ends < MaxEnds
    /\ up' = TRUE
    /\ starts' = starts + 1 /\ ends' = ends + 1
    /\ UNCHANGED <<alert, targets, queue, job, request, history>>

Running == {j \in Job : job[j].pc # "idle"}

\* A job that was running is still on arq's queue and will run again.
Crash ==
    /\ up /\ starts < MaxStarts
    /\ up' = FALSE
    /\ queue' = queue + Cardinality(Running)
    /\ job' = [j \in Job |-> Idle]
    /\ UNCHANGED <<alert, targets, request, environment, history>>

\* On SIGTERM arq cancels the jobs, to run them again; the finally clauses of
\* those in requeued get as far as their enqueue first.
Stop ==
    /\ up /\ starts < MaxStarts
    /\ up' = FALSE
    /\ \E requeued \in SUBSET {j \in Running : job[j].pc # "done"} :
         queue' = queue + Cardinality(Running) + Cardinality(requeued)
    /\ job' = [j \in Job |-> Idle]
    /\ UNCHANGED <<alert, targets, request, environment, history>>

-----------------------------------------------------------------------------
(* The user's requests.                                                    *)

\* POST /alerts: the active alerts are counted ...
Count(u) ==
    /\ request[u] = NoRequest
    /\ Cardinality(Active) < MaxActive
    /\ request' = [request EXCEPT ![u] = [NoRequest EXCEPT !.op = "create"]]
    /\ UNCHANGED <<alert, targets, up, queue, job, environment, history>>

\* ... and the new one is inserted.
Create(u, a) ==
    /\ request[u].op = "create"
    /\ lives[a] = 0 /\ targets < MaxTarget
    /\ targets' = targets + 1
    /\ alert' = [alert EXCEPT ![a] = [target |-> targets', active |-> TRUE]]
    /\ lives' = [lives EXCEPT ![a] = 1]
    /\ request' = [request EXCEPT ![u] = NoRequest]
    /\ UNCHANGED <<up, queue, job, environment, notices>>

\* PATCH /alerts/{id}: the alert is loaded ...
OpenPatch(u, a) ==
    /\ request[u] = NoRequest
    /\ Exists(a)
    /\ request' = [request EXCEPT ![u] = [op |-> "patch", at |-> {a}, loaded |-> alert[a]]]
    /\ UNCHANGED <<alert, targets, up, queue, job, environment, history>>

\* Variant: a row deleted meanwhile is inserted again.
SavePatchMerge(u, a, moved, active) ==
    LET copy == request[u].loaded
        flag == IF active # copy.active THEN active ELSE alert[a].active
    IN /\ request[u].op = "patch" /\ request[u].at = {a}
       /\ moved => targets < MaxTarget
       /\ flag /\ ~alert[a].active => lives[a] < MaxLives
       /\ targets' = IF moved THEN targets + 1 ELSE targets
       /\ alert' = [alert EXCEPT ![a] = [target |-> IF moved THEN targets' ELSE @.target,
                                         active |-> flag]]
       /\ lives' = [lives EXCEPT ![a] = IF flag /\ ~alert[a].active THEN @ + 1 ELSE @]
       /\ request' = [request EXCEPT ![u] = NoRequest]
       /\ UNCHANGED <<up, queue, job, environment, notices>>

\* ... and the fields that differ from the copy are written: a new target,
\* the active flag, or both.
SavePatch(u, a, moved, active) ==
    LET copy == request[u].loaded
        flag == IF active # copy.active THEN active ELSE alert[a].active
    IN /\ request[u].op = "patch" /\ request[u].at = {a}
       /\ Exists(a)
       /\ moved => targets < MaxTarget
       /\ flag /\ ~alert[a].active => lives[a] < MaxLives
       /\ targets' = IF moved THEN targets + 1 ELSE targets
       /\ alert' = [alert EXCEPT ![a] = [target |-> IF moved THEN targets' ELSE @.target,
                                         active |-> flag]]
       /\ lives' = [lives EXCEPT ![a] = IF flag /\ ~alert[a].active THEN @ + 1 ELSE @]
       /\ request' = [request EXCEPT ![u] = NoRequest]
       /\ UNCHANGED <<up, queue, job, environment, notices>>

\* The row is gone, or the client gives up.
Drop(u) ==
    /\ request[u] # NoRequest
    /\ request' = [request EXCEPT ![u] = NoRequest]
    /\ UNCHANGED <<alert, targets, up, queue, job, environment, history>>

Delete(a) ==
    /\ Exists(a)
    /\ alert' = [alert EXCEPT ![a] = NoAlert]
    /\ UNCHANGED <<targets, up, queue, job, request, environment, history>>

-----------------------------------------------------------------------------
Worker(j) ==
    \/ Load(j)
    \/ \E hit \in SUBSET Alert : Fetch(j, hit)
    \/ Commit(j) \/ Fail(j)
    \/ Requeue(j) \/ RequeueFails(j) \/ Done(j)

User(u) ==
    \/ Count(u) \/ Drop(u)
    \/ \E a \in Alert : Create(u, a) \/ OpenPatch(u, a)
    \/ \E a \in Alert, moved, active \in BOOLEAN : SavePatch(u, a, moved, active)

Next ==
    \/ \E j \in Job : Worker(j)
    \/ \E u \in Session : User(u)
    \/ \E a \in Alert : Delete(a)
    \/ Start \/ StartUnseeded \/ Crash \/ Stop \/ Expire

Spec == Init /\ [][Next]_vars

\* The container starts the worker again, arq polls its queue, a running job
\* goes on.  An evaluation whose condition is met again and again is not cut
\* off every time.
Fairness ==
    /\ WF_vars(Start \/ StartUnseeded)
    /\ \A j \in Job :
         /\ WF_vars(Worker(j))
         /\ \A a \in Alert : /\ SF_vars(\E hit \in SUBSET Alert : a \in hit /\ Fetch(j, hit))
                            /\ SF_vars(a \in job[j].hit /\ Commit(j))

FairSpec == Spec /\ Fairness

-----------------------------------------------------------------------------
JobState == [pc : {"idle", "fetch", "commit", "requeue", "done"},
             loaded : [Alert -> AlertRow], hit : SUBSET Alert]

RequestState == [op : {"none", "create", "patch"}, at : SUBSET Alert, loaded : AlertRow]

WorkerOK ==
    /\ up \in BOOLEAN
    /\ queue \in Nat
    /\ job \in [Job -> JobState]
    /\ starts \in 0 .. MaxStarts /\ ends \in 0 .. MaxEnds

AlertsOK ==
    /\ alert \in [Alert -> AlertRow]
    /\ targets \in Target
    /\ request \in [Session -> RequestState]
    /\ lives \in [Alert -> 0 .. MaxLives] /\ notices \in [Alert -> Nat]

TypeOK == WorkerOK /\ AlertsOK

\* Evaluations that have not yet put their successor on the queue.
Unfinished == {j \in Job : job[j].pc \in {"fetch", "commit", "requeue"}}

\* Each start of the worker keeps a chain of evaluations, queued or running,
\* but for those that ended: in a finally clause cut short before its enqueue,
\* in a seed that failed, or given up by arq.  No exception or timeout of the
\* evaluation proper, no crash and no stop ends one (alert_worker.py:523-534).
ChainsKept ==
    queue + Cardinality(Unfinished) >= starts - ends

\* "Triggered alerts get deactivated and a notification is created for the
\* user" (alert_worker.py:418-420): one each time the alert has been active.
NotifiedOnce == \A a \in Alert : notices[a] <= lives[a]

\* As long as the worker has been started only once there is one chain of
\* evaluations, and then this is so.
OneChainNotifiesOnce == starts <= 1 => NotifiedOnce

\* An alert whose condition keeps being met does not stay active for ever,
\* unless as many chains have ended as the worker was started.
Triggers ==
    \A a \in Alert : alert[a].active ~> ~alert[a].active \/ ends >= starts
=============================================================================
