------------------------- MODULE PriceAlertsProofs -------------------------
(***************************************************************************)
(* With any number of alerts, requests and jobs of the worker: each chain  *)
(* of evaluations is there or among those that ended, and with a single    *)
(* chain an alert notifies once.                                           *)
(***************************************************************************)
EXTENDS PriceAlerts, FiniteSetTheorems, TLAPS

-----------------------------------------------------------------------------
(* Types.                                                                  *)

\* The values for "none" have their types.
LEMMA NoneTypes == /\ NoAlert \in AlertRow
                   /\ Idle \in JobState
                   /\ NoRequest \in RequestState
  BY BoundsAssumption DEF NoAlert, AlertRow, Target, Idle, JobState, NoRequest, RequestState

\* Sets of jobs are finite.
LEMMA JobsFinite ==
  ASSUME NEW S, S \subseteq Job
  PROVE  IsFiniteSet(S) /\ Cardinality(S) \in Nat
  BY JobAssumption, FS_Subset, FS_CardinalityType

LEMMA InitTypes == Init => TypeOK
  <1> USE BoundsAssumption, NoneTypes
  <1>1. Init => WorkerOK
    <2> SUFFICES ASSUME Init PROVE WorkerOK
      OBVIOUS
    <2>1. job \in [Job -> JobState]
      BY DEF Init
    <2>2. up \in BOOLEAN /\ queue \in Nat
      BY DEF Init
    <2>3. starts \in 0 .. MaxStarts /\ ends \in 0 .. MaxEnds
      BY DEF Init
    <2> QED
      BY <2>1, <2>2, <2>3 DEF WorkerOK
  <1>2. Init => AlertsOK
    BY DEF Init, AlertsOK, Target
  <1> QED
    BY <1>1, <1>2 DEF TypeOK

\* What the steps do to the worker: a step of one job, or of the process.
LEMMA WorkerStep == TypeOK /\ [Next]_vars => WorkerOK'
  <1> SUFFICES ASSUME TypeOK, [Next]_vars PROVE WorkerOK'
    OBVIOUS
  <1> WorkerOK /\ AlertsOK
    BY DEF TypeOK
  <1> USE BoundsAssumption
  <1>1. ASSUME NEW j \in Job, Load(j) PROVE WorkerOK'
    <2> DEFINE r == [pc |-> "fetch", hit |-> {},
                     loaded |-> [a \in Alert |-> IF a \in Active THEN alert[a] ELSE NoAlert]]
    <2>1. r \in JobState
      BY NoneTypes DEF JobState, AlertsOK
    <2>2. job' = [job EXCEPT ![j] = r] /\ queue > 0 /\ queue' = queue - 1
          /\ UNCHANGED <<up, environment>>
      BY <1>1 DEF Load
    <2> HIDE DEF r
    <2> QED
      BY <2>1, <2>2 DEF WorkerOK, environment
  <1>2. ASSUME NEW j \in Job, NEW hit \in SUBSET Alert, Fetch(j, hit) PROVE WorkerOK'
    <2>1. /\ job' = [job EXCEPT ![j].pc = "commit", ![j].hit = hit]
          /\ UNCHANGED <<up, queue, environment>>
      BY <1>2 DEF Fetch
    <2>2. [job[j] EXCEPT !.pc = "commit", !.hit = hit] \in JobState
      BY DEF WorkerOK, JobState
    <2>3. job' \in [Job -> JobState]
      BY <2>1, <2>2 DEF WorkerOK
    <2> QED
      BY <2>1, <2>3 DEF WorkerOK, environment
  <1>3. ASSUME NEW j \in Job, Commit(j) \/ Fail(j) PROVE WorkerOK'
    <2>1. job' = [job EXCEPT ![j].pc = "requeue"] /\ UNCHANGED <<up, queue, environment>>
      BY <1>3 DEF Commit, Fail
    <2> QED
      BY <2>1 DEF WorkerOK, JobState, environment
  <1>4. ASSUME NEW j \in Job, Requeue(j) \/ RequeueFails(j) PROVE WorkerOK'
    <2>1. job' = [job EXCEPT ![j].pc = "done"] /\ queue' \in {queue, queue + 1}
          /\ UNCHANGED <<up, starts>>
      BY <1>4 DEF Requeue, RequeueFails, environment
    <2>2. ends' \in 0 .. MaxEnds
      BY <1>4 DEF Requeue, RequeueFails, WorkerOK, environment
    <2> QED
      BY <2>1, <2>2 DEF WorkerOK, JobState
  <1>5. ASSUME NEW j \in Job, Done(j) PROVE WorkerOK'
    BY <1>5, NoneTypes DEF Done, WorkerOK, environment
  <1>6. CASE Start \/ StartUnseeded \/ Expire
    <2>1. /\ job' = job /\ up' \in BOOLEAN
          /\ queue' \in {queue, queue + 1} \/ (queue > 0 /\ queue' = queue - 1)
      BY <1>6 DEF Start, StartUnseeded, Expire, WorkerOK
    <2>3. /\ starts' = starts \/ (starts < MaxStarts /\ starts' = starts + 1)
          /\ ends' = ends \/ (ends < MaxEnds /\ ends' = ends + 1)
      BY <1>6 DEF Start, StartUnseeded, Expire
    <2>4. starts \in 0 .. MaxStarts /\ ends \in 0 .. MaxEnds /\ MaxStarts \in Nat /\ MaxEnds \in Nat
      BY DEF WorkerOK
    <2>2. starts' \in 0 .. MaxStarts /\ ends' \in 0 .. MaxEnds
      BY <2>3, <2>4
    <2> QED
      BY <2>1, <2>2 DEF WorkerOK
  <1>7. CASE Crash \/ Stop
    <2> DEFINE M == Cardinality(Running)
    <2>1. PICK S \in SUBSET Job : queue' \in {queue + M, queue + M + Cardinality(S)}
      BY <1>7 DEF Crash, Stop, Running
    <2>2. up' = FALSE /\ job' = [j \in Job |-> Idle] /\ UNCHANGED environment
      BY <1>7 DEF Crash, Stop
    <2>4. M \in Nat /\ Cardinality(S) \in Nat
      BY JobsFinite DEF Running
    <2> HIDE DEF M
    <2>3. queue' \in Nat
      BY <2>1, <2>4 DEF WorkerOK
    <2> QED
      BY <2>2, <2>3, NoneTypes DEF WorkerOK, environment
  <1>8. ASSUME UNCHANGED <<up, queue, job, environment>> PROVE WorkerOK'
    BY <1>8 DEF WorkerOK, environment
  <1>9. ASSUME NEW u \in Session, User(u) PROVE WorkerOK'
    BY <1>9, <1>8 DEF User, Count, Create, OpenPatch, SavePatch, Drop
  <1> QED
    BY <1>1, <1>2, <1>3, <1>4, <1>5, <1>6, <1>7, <1>8, <1>9 DEF Next, Worker, Delete, vars

\* And to the rows.
LEMMA AlertsStep == TypeOK /\ [Next]_vars => AlertsOK'
  <1> SUFFICES ASSUME TypeOK, [Next]_vars PROVE AlertsOK'
    OBVIOUS
  <1> WorkerOK /\ AlertsOK
    BY DEF TypeOK
  <1>1. ASSUME NEW j \in Job, Commit(j) PROVE AlertsOK'
    <2> DEFINE rows == [a \in Alert |-> IF a \in job[j].hit
                          THEN [alert[a] EXCEPT !.active = FALSE] ELSE alert[a]]
               counts == [a \in Alert |-> IF a \in job[j].hit THEN notices[a] + 1 ELSE notices[a]]
    <2>1. rows \in [Alert -> AlertRow]
      BY DEF AlertsOK, AlertRow
    <2>2. counts \in [Alert -> Nat]
      BY DEF AlertsOK
    <2>3. alert' = rows /\ notices' = counts /\ UNCHANGED <<targets, request, lives>>
      BY <1>1 DEF Commit
    <2> HIDE DEF rows, counts
    <2> QED
      BY <2>1, <2>2, <2>3 DEF AlertsOK
  <1>2. ASSUME UNCHANGED <<alert, targets, request, history>> PROVE AlertsOK'
    BY <1>2 DEF AlertsOK, history
  <1>3. ASSUME NEW j \in Job, Worker(j) PROVE AlertsOK'
    BY <1>3, <1>1, <1>2 DEF Worker, Load, Fetch, Fail, Requeue, RequeueFails, Done, history
  <1>4. ASSUME NEW u \in Session, Count(u) \/ Drop(u) PROVE AlertsOK'
    BY <1>4, NoneTypes DEF Count, Drop, AlertsOK, RequestState, history
  <1>5. ASSUME NEW u \in Session, NEW a \in Alert, OpenPatch(u, a) PROVE AlertsOK'
    BY <1>5 DEF OpenPatch, AlertsOK, RequestState, history
  <1>6. ASSUME NEW u \in Session, NEW a \in Alert, Create(u, a) PROVE AlertsOK'
    <2>1. [target |-> targets + 1, active |-> TRUE] \in AlertRow /\ targets + 1 \in Target
      BY <1>6, BoundsAssumption DEF Create, AlertsOK, AlertRow, Target
    <2> QED
      BY <1>6, <2>1, NoneTypes, BoundsAssumption DEF Create, AlertsOK
  <1>7. ASSUME NEW u \in Session, NEW a \in Alert, NEW moved \in BOOLEAN, NEW active \in BOOLEAN,
               SavePatch(u, a, moved, active)
        PROVE AlertsOK'
    <2> DEFINE flag == IF active # request[u].loaded.active THEN active ELSE alert[a].active
               r == [target |-> IF moved THEN targets' ELSE alert[a].target, active |-> flag]
    <2>1. targets' \in Target /\ (moved => targets' # 0)
      BY <1>7, BoundsAssumption DEF SavePatch, AlertsOK, Target
    <2>2. alert[a].target # 0 /\ alert[a] \in AlertRow /\ request[u].loaded \in AlertRow
      BY <1>7 DEF SavePatch, Exists, AlertsOK, RequestState
    <2>3. r \in AlertRow
      BY <2>1, <2>2 DEF AlertRow
    <2>4. lives' \in [Alert -> 0 .. MaxLives]
      BY <1>7, BoundsAssumption DEF SavePatch, AlertsOK
    <2>5. alert' = [alert EXCEPT ![a] = r] /\ request' = [request EXCEPT ![u] = NoRequest]
          /\ UNCHANGED notices
      BY <1>7 DEF SavePatch
    <2> HIDE DEF r
    <2> QED
      BY <2>1, <2>3, <2>4, <2>5, NoneTypes DEF AlertsOK
  <1>8. ASSUME NEW a \in Alert, Delete(a) PROVE AlertsOK'
    BY <1>8, NoneTypes DEF Delete, AlertsOK, history
  <1>9. CASE Start \/ StartUnseeded \/ Expire \/ Crash \/ Stop \/ UNCHANGED vars
    BY <1>9, <1>2 DEF Start, StartUnseeded, Expire, Crash, Stop, vars
  <1> QED
    BY <1>3, <1>4, <1>5, <1>6, <1>7, <1>8, <1>9 DEF Next, User

LEMMA TypeStep == TypeOK /\ [Next]_vars => TypeOK'
  BY WorkerStep, AlertsStep DEF TypeOK

\* Rows, requests and the worker keep their types, for any number of each.
THEOREM TypeCorrect == Spec => []TypeOK
  BY InitTypes, TypeStep, PTL DEF Spec

-----------------------------------------------------------------------------
(* The chains of evaluations.                                              *)

\* The set of unfinished jobs grows or shrinks by one.
LEMMA OneMore ==
  ASSUME NEW S, S \subseteq Job, NEW j \in Job, j \notin S
  PROVE  Cardinality(S \cup {j}) = Cardinality(S) + 1
  BY JobsFinite, FS_AddElement

LEMMA OneLess ==
  ASSUME NEW S, S \subseteq Job, NEW j \in S
  PROVE  Cardinality(S \ {j}) = Cardinality(S) - 1
  BY JobsFinite, FS_RemoveElement

LEMMA InitChains == Init => ChainsKept
  <1> SUFFICES ASSUME Init PROVE ChainsKept
    OBVIOUS
  <1>1. Unfinished = {}
    BY DEF Init, Unfinished, Idle
  <1>2. Cardinality(Unfinished) = 0
    BY <1>1, FS_EmptySet
  <1>3. queue = 0 /\ starts = 0 /\ ends = 0
    BY DEF Init
  <1> HIDE DEF Init
  <1> QED
    BY <1>2, <1>3 DEF ChainsKept

LEMMA ChainsStep == TypeOK /\ ChainsKept /\ [Next]_vars => ChainsKept'
  <1> SUFFICES ASSUME TypeOK, ChainsKept, [Next]_vars PROVE ChainsKept'
    OBVIOUS
  <1> WorkerOK
    BY DEF TypeOK
  <1>0. /\ Unfinished \subseteq Job /\ Cardinality(Unfinished) \in Nat
        /\ Unfinished' \subseteq Job /\ Cardinality(Unfinished') \in Nat
        /\ queue \in Nat /\ starts \in Nat /\ ends \in Nat
    <2>1. Unfinished \subseteq Job /\ Unfinished' \subseteq Job
      BY DEF Unfinished
    <2> QED
      BY <2>1, JobsFinite, BoundsAssumption DEF WorkerOK
  <1>1. ASSUME Unfinished' = Unfinished, UNCHANGED <<queue, environment>> PROVE ChainsKept'
    BY <1>0, <1>1 DEF ChainsKept, environment
  <1>2. ASSUME NEW j \in Job, Load(j) PROVE ChainsKept'
    <2>1. j \notin Unfinished /\ Unfinished' = Unfinished \cup {j}
      BY <1>2 DEF Load, Unfinished, WorkerOK
    <2>2. queue' = queue - 1 /\ UNCHANGED environment
      BY <1>2 DEF Load
    <2> QED
      BY <1>0, <2>1, <2>2, OneMore DEF ChainsKept, environment
  <1>3. ASSUME NEW j \in Job, (\E hit : Fetch(j, hit)) \/ Commit(j) \/ Fail(j) \/ Done(j)
        PROVE ChainsKept'
    <2>1. \/ job[j].pc \in {"fetch", "commit"} /\ job'[j].pc \in {"commit", "requeue"}
          \/ job[j].pc = "done" /\ job'[j].pc = "idle"
      BY <1>3 DEF Fetch, Commit, Fail, Done, WorkerOK, JobState, Idle
    <2>3. \A i \in Job \ {j} : job'[i] = job[i]
      BY <1>3 DEF Fetch, Commit, Fail, Done, WorkerOK, JobState
    <2>4. Unfinished' = Unfinished
      BY <2>1, <2>3 DEF Unfinished
    <2>2. UNCHANGED <<queue, environment>>
      BY <1>3 DEF Fetch, Commit, Fail, Done
    <2> QED
      BY <1>1, <2>2, <2>4
  <1>4. ASSUME NEW j \in Job, Requeue(j) \/ RequeueFails(j) PROVE ChainsKept'
    <2>1. j \in Unfinished /\ Unfinished' = Unfinished \ {j}
      BY <1>4 DEF Requeue, RequeueFails, Unfinished, WorkerOK, JobState
    <2>2. \/ queue' = queue + 1 /\ UNCHANGED environment
          \/ UNCHANGED <<queue, starts>> /\ ends' = ends + 1
      BY <1>4 DEF Requeue, RequeueFails
    <2> QED
      BY <1>0, <2>1, <2>2, OneLess DEF ChainsKept, environment
  <1>5. CASE Start \/ StartUnseeded \/ Expire
    <2>1. Unfinished' = Unfinished
      BY <1>5 DEF Start, StartUnseeded, Expire, Unfinished
    <2> QED
      BY <1>0, <1>5, <2>1 DEF Start, StartUnseeded, Expire, ChainsKept
  <1>6. CASE Crash \/ Stop
    <2> DEFINE M == Cardinality(Running)
    <2>1. Unfinished' = {} /\ UNCHANGED environment
      BY <1>6 DEF Crash, Stop, Unfinished, Idle
    <2>2. Unfinished \subseteq Running /\ Running \subseteq Job
      BY DEF Unfinished, Running
    <2>3. Cardinality(Unfinished) <= M
      BY <2>2, JobsFinite, FS_Subset
    <2>5. PICK S \in SUBSET Job : queue' \in {queue + M, queue + M + Cardinality(S)}
      BY <1>6 DEF Crash, Stop, Running
    <2>4. M \in Nat /\ Cardinality(S) \in Nat
      BY <2>2, JobsFinite
    <2> HIDE DEF M
    <2> QED
      BY <1>0, <2>1, <2>3, <2>4, <2>5, FS_EmptySet DEF ChainsKept, environment
  <1>7. ASSUME UNCHANGED <<queue, job, environment>> PROVE ChainsKept'
    BY <1>0, <1>7 DEF ChainsKept, Unfinished, environment
  <1>8. ASSUME NEW u \in Session, User(u) PROVE ChainsKept'
    BY <1>8, <1>7 DEF User, Count, Create, OpenPatch, SavePatch, Drop
  <1> QED
    BY <1>2, <1>3, <1>4, <1>5, <1>6, <1>7, <1>8 DEF Next, Worker, Delete, vars

\* The chains on the queue and running are at least the starts of the worker
\* less the chains that ended, for any number of jobs, starts and ends.
THEOREM ChainsStayKept == Spec => []ChainsKept
  BY InitTypes, TypeStep, InitChains, ChainsStep, PTL DEF Spec

-----------------------------------------------------------------------------
(* One chain.                                                              *)

\* Until a second start there is at most one evaluation, queued or running.
\* (A stopped worker may leave two on the queue, but only a start runs them.)
OneChain ==
    starts <= 1 =>
        /\ starts = 0 => queue = 0
        /\ ~up => Unfinished = {}
        /\ up => /\ starts = 1 /\ queue <= 1
                 /\ queue = 1 => Unfinished = {}
                 /\ \A i, j \in Unfinished : i = j

\* Only loaded alerts are hit, and those were active.
HitsLoaded ==
    \A j \in Job : job[j].pc = "commit" =>
        \A a \in job[j].hit : job[j].loaded[a].active

\* An active alert, and one that an evaluation has loaded as active, has
\* notified less often than it became active.
Owed(a) == notices[a] < lives[a]
NoticesOwed ==
    starts <= 1 =>
        \A a \in Alert :
            /\ notices[a] <= lives[a]
            /\ alert[a].active => Owed(a)
            /\ \A j \in Job : job[j].pc \in {"fetch", "commit"} /\ job[j].loaded[a].active => Owed(a)

IInv == TypeOK /\ OneChain /\ HitsLoaded /\ NoticesOwed

LEMMA InitOne == Init => OneChain /\ HitsLoaded /\ NoticesOwed
  BY DEF Init, OneChain, HitsLoaded, NoticesOwed, Unfinished, Idle, NoAlert

\* The worker is off or has taken up the only evaluation there is.
LEMMA OneChainStep == TypeOK /\ OneChain /\ [Next]_vars => OneChain'
  <1> SUFFICES ASSUME TypeOK, OneChain, [Next]_vars PROVE OneChain'
    OBVIOUS
  <1> WorkerOK
    BY DEF TypeOK
  <1>1. ASSUME NEW j \in Job, Load(j) PROVE OneChain'
    <2>1. Unfinished' = Unfinished \cup {j}
      BY <1>1 DEF Load, Unfinished, WorkerOK
    <2>2. up /\ queue > 0 /\ queue' = queue - 1 /\ UNCHANGED <<up, starts>>
      BY <1>1 DEF Load, environment
    <2> QED
      BY <2>1, <2>2 DEF OneChain, WorkerOK
  <1>2. ASSUME Unfinished' \subseteq Unfinished, UNCHANGED <<up, queue, starts>>
        PROVE OneChain'
    BY <1>2 DEF OneChain
  <1>3. ASSUME NEW j \in Job, (\E hit : Fetch(j, hit)) \/ Commit(j) \/ Fail(j) \/ Done(j) \/ RequeueFails(j)
        PROVE OneChain'
    <2>1. job[j].pc \in {"fetch", "commit"} \/ job'[j].pc \in {"done", "idle"}
      BY <1>3 DEF Fetch, Commit, Fail, Done, RequeueFails, WorkerOK, JobState, Idle
    <2>2. \A i \in Job \ {j} : job'[i] = job[i]
      BY <1>3 DEF Fetch, Commit, Fail, Done, RequeueFails, WorkerOK, JobState
    <2>3. Unfinished' \subseteq Unfinished
      BY <2>1, <2>2 DEF Unfinished
    <2>4. UNCHANGED <<up, queue, starts>>
      BY <1>3 DEF Fetch, Commit, Fail, Done, RequeueFails, environment
    <2> QED
      BY <1>2, <2>3, <2>4
  <1>4. ASSUME NEW j \in Job, Requeue(j) PROVE OneChain'
    <2>1. j \in Unfinished /\ Unfinished' = Unfinished \ {j}
      BY <1>4 DEF Requeue, Unfinished, WorkerOK, JobState
    <2>2. up /\ queue' = queue + 1 /\ UNCHANGED <<up, starts>>
      BY <1>4 DEF Requeue, environment
    <2> QED
      BY <2>1, <2>2 DEF OneChain, WorkerOK
  <1>5. CASE Start \/ StartUnseeded \/ Expire
    <2>1. Unfinished' = Unfinished
      BY <1>5 DEF Start, StartUnseeded, Expire, Unfinished
    <2>2. starts \in Nat
      BY BoundsAssumption DEF WorkerOK
    <2> QED
      BY <1>5, <2>1, <2>2 DEF Start, StartUnseeded, Expire, OneChain, WorkerOK
  <1>6. CASE Crash \/ Stop
    <2>1. Unfinished' = {} /\ up /\ ~up' /\ UNCHANGED starts
      BY <1>6 DEF Crash, Stop, Unfinished, Idle, environment
    <2> QED
      BY <2>1 DEF OneChain
  <1>7. ASSUME UNCHANGED <<up, queue, job, starts>> PROVE OneChain'
    BY <1>7, <1>2 DEF Unfinished
  <1>8. ASSUME NEW u \in Session, User(u) PROVE OneChain'
    BY <1>8, <1>7 DEF User, Count, Create, OpenPatch, SavePatch, Drop, environment
  <1> QED
    BY <1>1, <1>3, <1>4, <1>5, <1>6, <1>7, <1>8 DEF Next, Worker, Delete, vars, environment

LEMMA HitsStep == TypeOK /\ HitsLoaded /\ [Next]_vars => HitsLoaded'
  <1> SUFFICES ASSUME TypeOK, HitsLoaded, [Next]_vars PROVE HitsLoaded'
    OBVIOUS
  <1> WorkerOK
    BY DEF TypeOK
  <1>1. ASSUME NEW j \in Job, NEW hit \in SUBSET Alert, Fetch(j, hit) PROVE HitsLoaded'
    BY <1>1 DEF Fetch, HitsLoaded, WorkerOK, JobState
  <1>2. ASSUME NEW j \in Job, job' = [job EXCEPT ![j] = job'[j]], job'[j].pc # "commit"
        PROVE HitsLoaded'
    BY <1>2 DEF HitsLoaded, WorkerOK
  <1>3. ASSUME NEW j \in Job,
               Load(j) \/ Commit(j) \/ Fail(j) \/ Requeue(j) \/ RequeueFails(j) \/ Done(j)
        PROVE HitsLoaded'
    BY <1>2, <1>3 DEF Load, Commit, Fail, Requeue, RequeueFails, Done, Idle, WorkerOK, JobState
  <1>4. CASE Crash \/ Stop
    BY <1>4 DEF Crash, Stop, HitsLoaded, Idle
  <1>5. ASSUME UNCHANGED job PROVE HitsLoaded'
    BY <1>5 DEF HitsLoaded
  <1>6. ASSUME NEW u \in Session, User(u) PROVE HitsLoaded'
    BY <1>6, <1>5 DEF User, Count, Create, OpenPatch, SavePatch, Drop
  <1> QED
    BY <1>1, <1>3, <1>4, <1>5, <1>6 DEF Next, Worker, Start, StartUnseeded, Expire, Delete, vars

LEMMA NoticesStep == IInv /\ [Next]_vars => NoticesOwed'
  <1> SUFFICES ASSUME IInv, [Next]_vars PROVE NoticesOwed'
    OBVIOUS
  <1> TypeOK /\ OneChain /\ HitsLoaded /\ NoticesOwed /\ WorkerOK /\ AlertsOK
    BY DEF IInv, TypeOK
  <1> starts \in Nat
    BY BoundsAssumption DEF WorkerOK
  <1> DEFINE Holds(j, a) == job[j].pc \in {"fetch", "commit"} /\ job[j].loaded[a].active
  <1>1. ASSUME UNCHANGED <<alert, history>>, starts' \in {starts, starts + 1},
               \A j \in Job, a \in Alert : Holds(j, a)' => Holds(j, a)
        PROVE NoticesOwed'
    BY <1>1 DEF NoticesOwed, Owed, history
  <1>2. ASSUME NEW j \in Job, Load(j) PROVE NoticesOwed'
    <2>1. \A i \in Job, a \in Alert : Holds(i, a)' => Holds(i, a) \/ alert[a].active
      BY <1>2 DEF Load, Active, NoAlert, WorkerOK
    <2>2. UNCHANGED <<alert, starts, history>>
      BY <1>2 DEF Load, environment
    <2> QED
      BY <2>1, <2>2 DEF NoticesOwed, Owed, history
  <1>3. ASSUME NEW j \in Job, Commit(j) PROVE NoticesOwed'
    <2>1. \A a \in job[j].hit : Holds(j, a)
      BY <1>3 DEF Commit, HitsLoaded
    <2>2. job' = [job EXCEPT ![j].pc = "requeue"] /\ up /\ j \in Unfinished
          /\ UNCHANGED <<starts, lives>>
      BY <1>3 DEF Commit, Unfinished, environment
    <2>3. starts <= 1 => \A i \in Job : job'[i].pc \notin {"fetch", "commit"}
      BY <2>2 DEF OneChain, Unfinished, WorkerOK, JobState
    <2>4. \A a \in Alert : IF a \in job[j].hit
                           THEN ~alert'[a].active /\ notices'[a] = notices[a] + 1
                           ELSE alert'[a] = alert[a] /\ notices'[a] = notices[a]
      BY <1>3 DEF Commit, AlertsOK, AlertRow
    <2>5. \A a \in Alert : notices[a] \in Nat /\ lives[a] \in Nat
      BY BoundsAssumption DEF AlertsOK
    <2> QED
      BY <2>1, <2>2, <2>3, <2>4, <2>5 DEF NoticesOwed, Owed
  <1>4. ASSUME NEW j \in Job, (\E hit : Fetch(j, hit)) \/ Fail(j) \/ Requeue(j) \/ RequeueFails(j) \/ Done(j)
        PROVE NoticesOwed'
    <2>1. \A i \in Job, a \in Alert : Holds(i, a)' => Holds(i, a)
      BY <1>4 DEF Fetch, Fail, Requeue, RequeueFails, Done, Idle, WorkerOK, JobState
    <2>2. UNCHANGED <<alert, starts, history>>
      BY <1>4 DEF Fetch, Fail, Requeue, RequeueFails, Done, environment
    <2> QED
      BY <1>1, <2>1, <2>2
  <1>5. CASE Start \/ StartUnseeded \/ Expire
    BY <1>1, <1>5 DEF Start, StartUnseeded, Expire
  <1>6. CASE Crash \/ Stop
    <2>1. \A i \in Job, a \in Alert : ~Holds(i, a)'
      BY <1>6 DEF Crash, Stop, Idle
    <2>2. UNCHANGED <<alert, starts, history>>
      BY <1>6 DEF Crash, Stop, environment
    <2> QED
      BY <1>1, <2>1, <2>2
  <1>7. ASSUME UNCHANGED <<alert, job, environment, history>> PROVE NoticesOwed'
    BY <1>1, <1>7 DEF environment
  <1>8. ASSUME NEW a \in Alert, UNCHANGED <<job, environment, notices>>,
               \A b \in Alert \ {a} : alert'[b] = alert[b] /\ lives'[b] = lives[b],
               lives'[a] >= lives[a],
               alert'[a].active /\ ~alert[a].active => lives'[a] = lives[a] + 1
        PROVE NoticesOwed'
    <2>1. \A b \in Alert : notices[b] \in Nat /\ lives[b] \in Nat /\ lives'[b] \in Nat
      BY TypeStep, BoundsAssumption DEF AlertsOK, TypeOK
    <2>2. ASSUME NEW b \in Alert, Owed(b) PROVE Owed(b)'
      BY <1>8, <2>1, <2>2 DEF Owed
    <2>3. ASSUME NEW b \in Alert, notices[b] <= lives[b]
          PROVE  notices'[b] <= lives'[b] /\ (alert'[b].active /\ ~alert[b].active => Owed(b)')
      BY <1>8, <2>1, <2>3 DEF Owed
    <2>4. UNCHANGED <<job, starts>>
      BY <1>8 DEF environment
    <2> QED
      BY <2>2, <2>3, <2>4 DEF NoticesOwed
  <1>9. ASSUME NEW u \in Session, NEW a \in Alert, Create(u, a) PROVE NoticesOwed'
    BY <1>8, <1>9 DEF Create, AlertsOK
  <1>10. ASSUME NEW u \in Session, NEW a \in Alert, NEW moved \in BOOLEAN, NEW active \in BOOLEAN,
                SavePatch(u, a, moved, active)
         PROVE NoticesOwed'
    BY <1>8, <1>10, BoundsAssumption DEF SavePatch, AlertsOK
  <1>11. ASSUME NEW a \in Alert, Delete(a) PROVE NoticesOwed'
    BY <1>11 DEF Delete, NoticesOwed, Owed, NoAlert, AlertsOK, environment, history
  <1>12. ASSUME NEW u \in Session, User(u) PROVE NoticesOwed'
    BY <1>12, <1>7, <1>9, <1>10 DEF User, Count, OpenPatch, Drop
  <1> QED
    BY <1>2, <1>3, <1>4, <1>5, <1>6, <1>7, <1>11, <1>12 DEF Next, Worker, vars

\* As long as the worker was started once, an alert notifies at most once each
\* time it became active: for any number of jobs, requests and alerts.
THEOREM OneChainKeepsItsWord == Spec => []OneChainNotifiesOnce
  <1>1. Init => IInv
    BY InitTypes, InitOne DEF IInv
  <1>2. IInv /\ [Next]_vars => IInv'
    BY TypeStep, OneChainStep, HitsStep, NoticesStep DEF IInv
  <1>3. IInv => OneChainNotifiesOnce
    BY DEF IInv, NoticesOwed, OneChainNotifiesOnce, NotifiedOnce
  <1> QED
    BY <1>1, <1>2, <1>3, PTL DEF Spec
=============================================================================
