-------------------------- MODULE SoftStopsProofs --------------------------
(***************************************************************************)
(* With any number of positions, jobs, requests and channels: the records  *)
(* of delivery tell the truth, and no job ever moves a stop; of jobs that  *)
(* run one after the other, no message repeats without a lost record.      *)
(***************************************************************************)
EXTENDS SoftStops, FiniteSetTheorems, TLAPS

-----------------------------------------------------------------------------
(* Rows.                                                                   *)

\* An empty row.
LEMMA BlankRow == Blank \in Row
  BY BoundsAssumption DEF Blank, Row, Unrecorded, Unpinged, DayRecord, Day, Level, Stage

\* An UPDATE of some columns gives a row.
LEMMA SaveRow ==
  ASSUME NEW r \in Row, NEW loaded \in Row, NEW view \in Row
  PROVE  Save(r, loaded, view) \in Row
  BY DEF Save, Row

\* So does the reset of a request.
LEMMA ResetRow ==
  ASSUME NEW loaded \in Row, NEW l \in Level
  PROVE  Reset(loaded, l) \in Row
  BY BoundsAssumption DEF Reset, Row, Unrecorded, Unpinged, DayRecord, Day, Stage

\* And the record of an attempt, which leaves the level alone.
LEMMA RecordRow ==
  ASSUME NEW v \in Row, NEW s \in Stage, NEW d \in Day,
         NEW pend \in SUBSET Channel, NEW ok \in SUBSET Channel
  PROVE  /\ Record(v, s, d, pend, ok) \in Row
         /\ Record(v, s, d, pend, ok).level = v.level
  BY DEF Record, Row, DayRecord

\* Only channels are pending.
LEMMA PendingChannels ==
  ASSUME NEW rec, NEW d
  PROVE  Pending(rec, d) \subseteq Channel
  BY DEF Pending

\* The messages of one delivery are finitely many.
LEMMA MessagesFinite ==
  ASSUME NEW ok \in SUBSET Channel, NEW p, NEW s, NEW l, NEW d,
         NEW M, \A m \in M : \E c \in ok : m = <<p, s, c, l, d>>
  PROVE  Cardinality(M) \in Nat
  <1> DEFINE all == {<<p, s, c, l, d>> : c \in ok}
             f == [c \in ok |-> <<p, s, c, l, d>>]
  <1>1. IsFiniteSet(ok)
    BY ChannelAssumption, FS_Subset
  <1>2. f \in Surjection(ok, all)
    BY DEF Surjection
  <1>3. IsFiniteSet(all)
    BY <1>1, <1>2, FS_Surjection
  <1>4. M \in SUBSET all
    OBVIOUS
  <1> HIDE DEF all
  <1> QED
    BY <1>3, <1>4, FS_Subset, FS_CardinalityType

-----------------------------------------------------------------------------
(* Types.                                                                  *)

LEMMA InitTypes == Init => TypeOK
  <1> SUFFICES ASSUME Init PROVE TypeOK
    OBVIOUS
  <1> USE BoundsAssumption, BlankRow
  <1>1. RowsOK
    BY DEF Init, RowsOK, NoEdit, Edit, Level
  <1>2. JobsOK
    BY DEF Init, JobsOK, JobState, Idle, Stage, Day
  <1>3. HistoryOK
    BY DEF Init, HistoryOK
  <1> QED
    BY <1>1, <1>2, <1>3 DEF TypeOK

\* What a step of a job leaves in its place is a job.
LEMMA JobsStep == TypeOK /\ [Next]_vars => JobsOK'
  <1> SUFFICES ASSUME TypeOK, [Next]_vars PROVE JobsOK'
    OBVIOUS
  <1> JobsOK /\ RowsOK
    BY DEF TypeOK
  <1>1. ASSUME NEW j \in Job, Sweep(j) PROVE JobsOK'
    <2>1. day \in Day /\ {p \in open : row[p].level # 0} \subseteq Position
      BY BoundsAssumption DEF RowsOK, Day
    <2> QED
      BY <1>1, <2>1 DEF Sweep, JobsOK, JobState, RowsOK, Stage
  <1>2. ASSUME NEW j \in Job, NEW p \in Position, CheckOne(j, p) PROVE JobsOK'
    <2>1. 0 \in Day /\ {p} \cap {q \in open : row[q].level # 0} \subseteq Position
      BY BoundsAssumption DEF Day
    <2> QED
      BY <1>2, <2>1 DEF CheckOne, JobsOK, JobState, RowsOK, Stage
  <1>3. ASSUME NEW j \in Job, NEW hit \in SUBSET job[j].todo, Fetch(j, hit) PROVE JobsOK'
    <2>1. day \in Day /\ hit \subseteq Position
      BY BoundsAssumption DEF RowsOK, Day, JobsOK, JobState
    <2> DEFINE r == [job[j] EXCEPT !.pc = "send", !.todo = hit,
                                   !.day = IF job[j].kind = "one" THEN day ELSE @]
    <2>2. r \in JobState
      <3>1. job[j] \in JobState
        BY DEF JobsOK
      <3> DEFINE d == IF job[j].kind = "one" THEN day ELSE job[j].day
      <3>2. d \in Day
        BY <2>1, <3>1 DEF JobState
      <3>3. r = [job[j] EXCEPT !.pc = "send", !.todo = hit, !.day = d]
        OBVIOUS
      <3> HIDE DEF d, r
      <3> QED
        BY <2>1, <3>1, <3>2, <3>3 DEF JobState
    <2>3. job' = [job EXCEPT ![j] = r]
      BY <1>3 DEF Fetch, JobsOK
    <2> HIDE DEF r
    <2> QED
      BY <2>2, <2>3 DEF JobsOK
  <1>4. ASSUME NEW j \in Job, NEW p \in Position, NEW ok \in SUBSET Channel,
               NEW late \in SUBSET Channel, Deliver(j, p, ok, late)
        PROVE JobsOK'
    <2> DEFINE v == job[j].view[p]
               pend == Pending(v.delivery[job[j].stage], job[j].day)
               w == IF pend = {} THEN v ELSE Record(v, job[j].stage, job[j].day, pend, ok)
    <2>1. job[j] \in JobState /\ v \in Row
      BY DEF JobsOK, JobState
    <2>2. w \in Row
      BY <2>1, PendingChannels, RecordRow DEF JobState
    <2>3. Cardinality(ok \cap Configured) \in Nat
      BY ChannelAssumption, FS_Subset, FS_CardinalityType
    <2>4. job' = [job EXCEPT ![j].todo = @ \ {p}, ![j].view[p] = w, ![j].sent = @ + Cardinality(ok \cap Configured)]
      BY <1>4 DEF Deliver
    <2> DEFINE views == [job[j].view EXCEPT ![p] = w]
               r == [job[j] EXCEPT !.todo = @ \ {p}, !.view = views, !.sent = @ + Cardinality(ok \cap Configured)]
    <2> HIDE DEF w
    <2>5. r \in JobState
      <3>1. views \in [Position -> Row]
        BY <2>1, <2>2 DEF JobState
      <3>2. job[j].todo \ {p} \subseteq Position /\ job[j].sent + Cardinality(ok \cap Configured) \in Nat
        BY <2>1, <2>3 DEF JobState
      <3> HIDE DEF views
      <3> QED
        BY <2>1, <3>1, <3>2 DEF JobState
    <2>6. job' = [job EXCEPT ![j] = r]
      BY <2>1, <2>4 DEF JobsOK, JobState
    <2> HIDE DEF r
    <2> QED
      BY <2>5, <2>6 DEF JobsOK
  <1>5. ASSUME NEW j \in Job, job' = [job EXCEPT ![j] = Idle] PROVE JobsOK'
    BY <1>5, BlankRow, BoundsAssumption DEF JobsOK, JobState, Idle, Stage, Day
  <1>6. ASSUME UNCHANGED job PROVE JobsOK'
    BY <1>6 DEF JobsOK
  <1>7. ASSUME NEW j \in Job, Worker(j) PROVE JobsOK'
    BY <1>7, <1>1, <1>2, <1>3, <1>4, <1>5 DEF Worker, Step, Commit, CommitStale, Abort
  <1>8. ASSUME NEW u \in Session, User(u) PROVE JobsOK'
    BY <1>8, <1>6 DEF User, OpenEdit, SaveEdit, DropEdit
  <1>9. ASSUME NEW p \in Position, Delete(p) PROVE JobsOK'
    BY <1>9, <1>6 DEF Delete
  <1>10. CASE Tick \/ ChainEnds \/ Restart
    BY <1>10, <1>6 DEF Tick, ChainEnds, Restart
  <1> QED
    BY <1>6, <1>7, <1>8, <1>9, <1>10 DEF Next, vars

\* Rows are written only by UPDATEs.
LEMMA RowsStep == TypeOK /\ [Next]_vars => RowsOK'
  <1> SUFFICES ASSUME TypeOK, [Next]_vars PROVE RowsOK'
    OBVIOUS
  <1> RowsOK /\ JobsOK
    BY DEF TypeOK
  <1>1. ASSUME NEW j \in Job, Worker(j) PROVE RowsOK'
    <2>1. ASSUME UNCHANGED <<open, row, levels, world, edit>>, asked' \subseteq Position
          PROVE RowsOK'
      BY <2>1 DEF RowsOK, world
    <2>2. CASE Commit(j)
      <3> DEFINE saved == [p \in Position |-> IF p \in Dirty(j)
                             THEN Save(row[p], job[j].loaded[p], job[j].view[p]) ELSE row[p]]
      <3>1. job[j].loaded \in [Position -> Row] /\ job[j].view \in [Position -> Row]
        BY DEF JobsOK, JobState
      <3>2. \A p \in Position : saved[p] \in Row
        BY <3>1, SaveRow DEF RowsOK
      <3>3. saved \in [Position -> Row]
        BY <3>2
      <3>4. row' = saved /\ UNCHANGED <<open, levels, world, asked, edit>>
        BY <2>2 DEF Commit
      <3> HIDE DEF saved
      <3> QED
        BY <3>3, <3>4 DEF RowsOK, world
    <2>3. ASSUME NEW p \in Position, CheckOne(j, p) PROVE RowsOK'
      BY <2>3, <2>1 DEF CheckOne, RowsOK
    <2>4. CASE Abort(j)
      <3>1. job[j].for \subseteq Position
        BY DEF JobsOK, JobState
      <3> QED
        BY <3>1, <2>4, <2>1 DEF Abort, RowsOK
    <2>5. CASE Sweep(j)
      BY <2>5, <2>1 DEF Sweep, RowsOK
    <2>6. ASSUME NEW hit, Fetch(j, hit) PROVE RowsOK'
      BY <2>6, <2>1 DEF Fetch, RowsOK
    <2>7. ASSUME NEW p, NEW ok, NEW late, Deliver(j, p, ok, late) PROVE RowsOK'
      BY <2>7, <2>1 DEF Deliver, RowsOK
    <2>8. CASE CommitStale(j)
      BY <2>8, <2>1 DEF CommitStale, RowsOK
    <2> QED
      BY <1>1, <2>2, <2>3, <2>4, <2>5, <2>6, <2>7, <2>8 DEF Worker, Step
  <1>2. ASSUME NEW u \in Session, NEW p \in Position, OpenEdit(u, p) PROVE RowsOK'
    BY <1>2 DEF OpenEdit, RowsOK, Edit, world
  <1>3. ASSUME NEW u \in Session, NEW p \in Position, NEW l \in Level, NEW queued \in BOOLEAN,
               SaveEdit(u, p, l, queued)
        PROVE RowsOK'
    <2> DEFINE saved == Save(row[p], edit[u].loaded, Reset(edit[u].loaded, l))
    <2>1. edit[u].loaded \in Row /\ row[p] \in Row
      BY DEF RowsOK, Edit
    <2>2. saved \in Row
      BY <2>1, SaveRow, ResetRow
    <2>3. row' = [row EXCEPT ![p] = saved] /\ UNCHANGED <<open, world>>
      BY <1>3 DEF SaveEdit
    <2>4. levels' \in Level /\ asked' \subseteq Position
      BY <1>3 DEF SaveEdit, RowsOK
    <2>5. edit' \in [Session -> Edit]
      BY <1>3, BlankRow DEF SaveEdit, RowsOK, NoEdit, Edit
    <2> HIDE DEF saved
    <2> QED
      BY <2>2, <2>3, <2>4, <2>5 DEF RowsOK, world
  <1>4. ASSUME NEW u \in Session, DropEdit(u) PROVE RowsOK'
    BY <1>4, BlankRow DEF DropEdit, RowsOK, NoEdit, Edit, world
  <1>5. ASSUME NEW p \in Position, Delete(p) PROVE RowsOK'
    BY <1>5 DEF Delete, RowsOK, world
  <1>6. CASE Tick
    BY <1>6, BoundsAssumption DEF Tick, RowsOK
  <1>8. CASE ChainEnds \/ Restart
    BY <1>8 DEF ChainEnds, Restart, RowsOK
  <1>7. CASE UNCHANGED vars
    BY <1>7 DEF vars, RowsOK, world
  <1> QED
    BY <1>1, <1>2, <1>3, <1>4, <1>5, <1>6, <1>7, <1>8 DEF Next, User

\* Messages are about positions, on channels.
LEMMA HistoryStep == TypeOK /\ [Next]_vars => HistoryOK'
  <1> SUFFICES ASSUME TypeOK, [Next]_vars PROVE HistoryOK'
    OBVIOUS
  <1> HistoryOK /\ JobsOK
    BY DEF TypeOK
  <1>1. ASSUME NEW j \in Job, NEW p \in Position, NEW ok \in SUBSET Channel,
               NEW late \in SUBSET Channel, Deliver(j, p, ok, late)
        PROVE HistoryOK'
    <2> DEFINE s == job[j].stage
               l == job[j].view[p].level
               d == job[j].day
               gone == (ok \cap Configured) \cup late
               M == {<<p, s, c, l, d>> : c \in gone}
    <2>1. s \in Stage /\ d \in Day /\ l \in Level
      BY DEF JobsOK, JobState, Row
    <2>2. M \subseteq Position \X Stage \X Channel \X Level \X Day
      BY <2>1
    <2>3. Cardinality(M \cap told) \in Nat
      <3>1. gone \in SUBSET Channel /\ \A m \in M \cap told : \E c \in gone : m = <<p, s, c, l, d>>
        OBVIOUS
      <3>x. PICK X : X = M \cap told
        OBVIOUS
      <3> HIDE DEF M, s, l, d, gone
      <3>2. gone \in SUBSET Channel /\ \A m \in X : \E c \in gone : m = <<p, s, c, l, d>>
        BY <3>1, <3>x
      <3>3. Cardinality(X) \in Nat
        BY <3>2, MessagesFinite
      <3> QED
        BY <3>3, <3>x
    <2>4. told' = told \cup M /\ repeats' = repeats + Cardinality(M \cap told)
          /\ lost' = lost + Cardinality(late)
          /\ faults' = faults + Cardinality(late) /\ faults' <= MaxFaults
      BY <1>1 DEF Deliver
    <2>5. Cardinality(late) \in Nat
      BY ChannelAssumption, FS_Subset, FS_CardinalityType
    <2> HIDE DEF M
    <2> QED
      BY <2>2, <2>3, <2>4, <2>5, BoundsAssumption DEF HistoryOK
  <1>2. ASSUME NEW j \in Job, CommitStale(j) PROVE HistoryOK'
    BY <1>2 DEF CommitStale, HistoryOK, JobsOK, JobState
  <1>3. ASSUME NEW j \in Job, Abort(j) PROVE HistoryOK'
    BY <1>3, BoundsAssumption DEF Abort, HistoryOK, JobsOK, JobState
  <1>5. CASE ChainEnds
    BY <1>5, BoundsAssumption DEF ChainEnds, HistoryOK
  <1>4. ASSUME UNCHANGED history PROVE HistoryOK'
    BY <1>4 DEF history, HistoryOK
  <1> QED
    BY <1>1, <1>2, <1>3, <1>4, <1>5 DEF Next, Worker, Step, User, vars, Sweep, CheckOne, Fetch,
       Commit, OpenEdit, SaveEdit, DropEdit, Delete, Tick, Restart

LEMMA TypeStep == TypeOK /\ [Next]_vars => TypeOK'
  BY JobsStep, RowsStep, HistoryStep DEF TypeOK

\* Rows, copies, requests and the history keep their types, for any number of
\* jobs, requests and positions.
THEOREM TypeCorrect == Spec => []TypeOK
  BY InitTypes, TypeStep, PTL DEF Spec

-----------------------------------------------------------------------------
(* The truth of records.                                                   *)

\* What RecordsTruthful says of one row r of position p, given the messages ms.
Truthful(r, p, ms) ==
    \A s \in Stage :
        /\ \A c \in r.delivery[s].ok \cap Configured :
              \E l \in Level : <<p, s, c, l, r.delivery[s].day>> \in ms
        /\ r.pinged[s] # 0 /\ Configured = Channel =>
              \E c \in Channel, l \in Level : <<p, s, c, l, r.pinged[s]>> \in ms

\* The committed rows and the copies that jobs are about to write.
Truths ==
    \A p \in Position : /\ Truthful(row[p], p, told)
                        /\ \A j \in Job : Truthful(job[j].view[p], p, told)

IInv == TypeOK /\ Truths

\* No message is unsent, so what is true stays true.
LEMMA TruthLasts ==
  ASSUME NEW r, NEW p, NEW ms, NEW more, ms \subseteq more, Truthful(r, p, ms)
  PROVE  Truthful(r, p, more)
  BY DEF Truthful

\* A row without records claims nothing.
LEMMA ClearedTrue ==
  ASSUME NEW r, r.delivery = Unrecorded, r.pinged = Unpinged, NEW p, NEW ms
  PROVE  Truthful(r, p, ms)
  BY DEF Truthful, Unrecorded, Unpinged

\* An UPDATE takes each column from one of two true rows.
LEMMA SaveTrue ==
  ASSUME NEW r, NEW loaded, NEW view, NEW p, NEW ms, Truthful(r, p, ms), Truthful(view, p, ms)
  PROVE  Truthful(Save(r, loaded, view), p, ms)
  BY DEF Truthful, Save

\* A record is true once the messages it speaks of are sent: those of channels
\* that were not pending were, on this same day.
LEMMA RecordTrue ==
  ASSUME NEW v \in Row, NEW s \in Stage, NEW d \in Day, NEW p, NEW ms, NEW ok,
         ok \subseteq Pending(v.delivery[s], d),
         Truthful(v, p, ms),
         \A c \in ok \cap Configured : <<p, s, c, v.level, d>> \in ms
  PROVE  Truthful(Record(v, s, d, Pending(v.delivery[s], d), ok), p, ms)
  <1> DEFINE pend == Pending(v.delivery[s], d)
             kept == (Channel \ pend) \cup ok
             w == Record(v, s, d, pend, ok)
  <1>1. /\ kept \subseteq Channel
        /\ \A c \in kept \cap Configured : \E l \in Level : <<p, s, c, l, d>> \in ms
    <2>1. \A c \in Channel \ pend : c \in v.delivery[s].ok /\ v.delivery[s].day = d
      BY DEF Pending
    <2>2. v.level \in Level
      BY DEF Row
    <2> QED
      BY <2>1, <2>2, PendingChannels DEF Truthful
  <1>2. /\ w.delivery[s] = [day |-> d, ok |-> kept]
        /\ w.pinged[s] = IF kept # {} THEN d ELSE v.pinged[s]
        /\ \A t \in Stage \ {s} : w.delivery[t] = v.delivery[t] /\ w.pinged[t] = v.pinged[t]
    BY DEF Record, Row
  <1> HIDE DEF w, kept, pend
  <1>3. ASSUME NEW t \in Stage
        PROVE  /\ \A c \in w.delivery[t].ok \cap Configured :
                     \E l \in Level : <<p, t, c, l, w.delivery[t].day>> \in ms
               /\ w.pinged[t] # 0 /\ Configured = Channel =>
                     \E c \in Channel, l \in Level : <<p, t, c, l, w.pinged[t]>> \in ms
    <2>1. CASE t = s
      <3>1. w.delivery[t].ok = kept /\ w.delivery[t].day = d
        BY <1>2, <2>1
      <3>2. ASSUME w.pinged[t] # 0, Configured = Channel
            PROVE  \E c \in Channel, l \in Level : <<p, t, c, l, w.pinged[t]>> \in ms
        <4>1. CASE kept # {}
          <5>1. PICK c \in kept \cap Configured : TRUE
            BY <1>1, <3>2, <4>1
          <5>2. c \in Channel /\ \E l \in Level : <<p, s, c, l, d>> \in ms
            BY <1>1, <5>1
          <5> QED
            BY <1>2, <2>1, <4>1, <5>2
        <4>2. CASE kept = {}
          BY <1>2, <2>1, <3>2, <4>2 DEF Truthful
        <4> QED
          BY <4>1, <4>2
      <3> QED
        BY <1>1, <2>1, <3>1, <3>2
    <2>2. CASE t # s
      BY <1>2, <2>2 DEF Truthful
    <2> QED
      BY <2>1, <2>2
  <1> QED
    BY <1>3 DEF Truthful, w, pend

LEMMA InitTrue == Init => Truths
  BY ClearedTrue DEF Init, Truths, Idle, Blank

LEMMA StepTrue == IInv /\ [Next]_vars => Truths'
  <1> SUFFICES ASSUME IInv, [Next]_vars PROVE Truths'
    OBVIOUS
  <1> TypeOK /\ Truths
    BY DEF IInv
  <1>1. ASSUME NEW j \in Job, NEW p \in Position, NEW ok \in SUBSET Channel,
               NEW late \in SUBSET Channel, Deliver(j, p, ok, late)
        PROVE Truths'
    <2> DEFINE v == job[j].view[p]
               pend == Pending(v.delivery[job[j].stage], job[j].day)
               w == IF pend = {} THEN v ELSE Record(v, job[j].stage, job[j].day, pend, ok)
    <2>1. /\ v \in Row /\ job[j].stage \in Stage /\ job[j].day \in Day
          /\ job[j] \in JobState /\ job \in [Job -> JobState]
      BY DEF TypeOK, JobsOK, JobState
    <2>2. /\ told \subseteq told'
          /\ \A c \in ok \cap Configured :
                <<p, job[j].stage, c, v.level, job[j].day>> \in told'
      BY <1>1 DEF Deliver
    <2>3. Truthful(v, p, told')
      BY <2>2, TruthLasts DEF Truths
    <2>4. ok \subseteq pend
      BY <1>1 DEF Deliver
    <2>5. Truthful(w, p, told')
      BY <2>1, <2>2, <2>3, <2>4, RecordTrue
    <2>6. \A i \in Job, q \in Position :
             job'[i].view[q] = IF i = j /\ q = p THEN w ELSE job[i].view[q]
      <3>1. job' = [job EXCEPT ![j].todo = @ \ {p}, ![j].view[p] = w, ![j].sent = @ + Cardinality(ok \cap Configured)]
        BY <1>1 DEF Deliver
      <3> HIDE DEF w
      <3> QED
        BY <2>1, <3>1 DEF JobState
    <2>7. row' = row
      BY <1>1 DEF Deliver
    <2> HIDE DEF w, v
    <2> QED
      BY <2>2, <2>5, <2>6, <2>7, TruthLasts DEF Truths
  <1>2. ASSUME NEW j \in Job, Commit(j) PROVE Truths'
    <2>1. told' = told /\ job' = [job EXCEPT ![j] = Idle]
      BY <1>2 DEF Commit, history
    <2>2. ASSUME NEW p \in Position PROVE Truthful(row'[p], p, told')
      BY <1>2, <2>1, SaveTrue DEF Truths, Commit
    <2>3. ASSUME NEW p \in Position, NEW i \in Job PROVE Truthful(job'[i].view[p], p, told')
      <3>1. CASE i = j
        BY <2>1, <3>1, ClearedTrue DEF TypeOK, JobsOK, Idle, Blank
      <3>2. CASE i # j
        BY <2>1, <3>2 DEF Truths, TypeOK, JobsOK
      <3> QED
        BY <3>1, <3>2
    <2> QED
      BY <2>2, <2>3 DEF Truths
  <1>3. ASSUME NEW j \in Job, UNCHANGED <<row, told>>,
               job' = [job EXCEPT ![j] = Idle] \/ (job'[j].view = row /\ job' = [job EXCEPT ![j] = job'[j]])
        PROVE Truths'
    BY <1>3, ClearedTrue DEF Truths, TypeOK, JobsOK, Idle, Blank
  <1>4. ASSUME NEW j \in Job, NEW hit, Fetch(j, hit) PROVE Truths'
    <2>1. \A i \in Job : job'[i].view = job[i].view
      BY <1>4 DEF Fetch, TypeOK, JobsOK, JobState
    <2> QED
      BY <1>4, <2>1 DEF Fetch, Truths, history
  <1>5. ASSUME NEW j \in Job, Sweep(j) \/ (\E p \in Position : CheckOne(j, p)) \/ CommitStale(j) \/ Abort(j)
        PROVE Truths'
    BY <1>5, <1>3 DEF Sweep, CheckOne, CommitStale, Abort, history, TypeOK, JobsOK
  <1>6. ASSUME NEW u \in Session, NEW p \in Position, NEW l \in Level, NEW queued \in BOOLEAN,
               SaveEdit(u, p, l, queued)
        PROVE Truths'
    <2>1. Truthful(Reset(edit[u].loaded, l), p, told)
      BY ClearedTrue DEF Reset
    <2> QED
      BY <1>6, <2>1, SaveTrue DEF SaveEdit, Truths, history, TypeOK, RowsOK
  <1>7. ASSUME UNCHANGED <<row, job, told>> PROVE Truths'
    BY <1>7 DEF Truths
  <1> QED
    BY <1>1, <1>2, <1>4, <1>5, <1>6, <1>7 DEF Next, Worker, Step, User, vars, history,
       OpenEdit, DropEdit, Delete, Tick, ChainEnds, Restart

\* A record of delivery on a configured channel, and a badge if all are, are
\* about messages that went out: for any
\* number of jobs that overlap, edits, crashes and rolled back batches.
THEOREM RecordsStayTruthful == Spec => []RecordsTruthful
  <1>1. Init => IInv
    BY InitTypes, InitTrue DEF IInv
  <1>2. IInv /\ [Next]_vars => IInv'
    BY TypeStep, StepTrue DEF IInv
  <1>3. IInv => RecordsTruthful
    BY DEF IInv, Truths, Truthful, RecordsTruthful
  <1> QED
    BY <1>1, <1>2, <1>3, PTL DEF Spec

-----------------------------------------------------------------------------
(* The stop.                                                               *)

\* The copies of a job have the levels the job has loaded.
LevelsKept == \A j \in Job, p \in Position : job[j].view[p].level = job[j].loaded[p].level

\* The levels of the rows before and after a step that is not a user's edit.
LevelsStay == \A p \in Position : row'[p].level = row[p].level

LEMMA StepLevels == TypeOK /\ LevelsKept /\ [Next]_vars => LevelsKept'
  <1> SUFFICES ASSUME TypeOK, LevelsKept, [Next]_vars PROVE LevelsKept'
    OBVIOUS
  <1>0. job \in [Job -> JobState]
    BY DEF TypeOK, JobsOK
  <1>1. ASSUME NEW j \in Job, NEW p \in Position, NEW ok \in SUBSET Channel,
               NEW late \in SUBSET Channel, Deliver(j, p, ok, late)
        PROVE LevelsKept'
    <2> DEFINE v == job[j].view[p]
               pend == Pending(v.delivery[job[j].stage], job[j].day)
               w == IF pend = {} THEN v ELSE Record(v, job[j].stage, job[j].day, pend, ok)
    <2>1. v \in Row /\ job[j] \in JobState
      BY <1>0 DEF JobState
    <2>2. w.level = v.level
      BY <2>1, PendingChannels, RecordRow DEF JobState
    <2>3. job' = [job EXCEPT ![j].todo = @ \ {p}, ![j].view[p] = w, ![j].sent = @ + Cardinality(ok \cap Configured)]
      BY <1>1 DEF Deliver
    <2> HIDE DEF w
    <2>4. \A i \in Job, q \in Position :
             /\ job'[i].loaded = job[i].loaded
             /\ job'[i].view[q] = IF i = j /\ q = p THEN w ELSE job[i].view[q]
      BY <1>0, <2>1, <2>3 DEF JobState
    <2> QED
      BY <2>2, <2>4 DEF LevelsKept
  <1>2. ASSUME NEW j \in Job, NEW hit, Fetch(j, hit) PROVE LevelsKept'
    <2>1. \A i \in Job : job'[i].view = job[i].view /\ job'[i].loaded = job[i].loaded
      BY <1>0, <1>2 DEF Fetch, JobState
    <2> QED
      BY <2>1 DEF LevelsKept
  <1>3. ASSUME NEW j \in Job, job' = [job EXCEPT ![j] = job'[j]], job'[j].view = job'[j].loaded
        PROVE LevelsKept'
    BY <1>0, <1>3 DEF LevelsKept
  <1>4. ASSUME NEW j \in Job, Sweep(j) \/ \E p \in Position : CheckOne(j, p) PROVE LevelsKept'
    BY <1>0, <1>3, <1>4 DEF Sweep, CheckOne
  <1>5. ASSUME NEW j \in Job, Commit(j) \/ CommitStale(j) \/ Abort(j) PROVE LevelsKept'
    BY <1>0, <1>3, <1>5 DEF Commit, CommitStale, Abort, Idle
  <1>6. ASSUME UNCHANGED job PROVE LevelsKept'
    BY <1>6 DEF LevelsKept
  <1> QED
    BY <1>1, <1>2, <1>4, <1>5, <1>6 DEF Next, Worker, Step, User, vars,
       OpenEdit, SaveEdit, DropEdit, Delete, Tick, ChainEnds, Restart

\* A job writes a row, but never its level.
LEMMA CommitKeeps ==
  ASSUME TypeOK, LevelsKept, NEW j \in Job, Commit(j)
  PROVE  LevelsStay
  BY DEF LevelsKept, LevelsStay, Commit, Save

\* The commit of a PATCH writes the row of its own position, and ends it.
LEMMA EditsOwn ==
  ASSUME TypeOK, NEW u \in Session, NEW q \in Position, NEW l, NEW queued, SaveEdit(u, q, l, queued)
  PROVE  /\ edit[u].at = {q} /\ edit'[u] = NoEdit
         /\ \A p \in Position \ {q} : row'[p] = row[p]
  BY DEF TypeOK, RowsOK, SaveEdit

\* Only a PATCH of the user changes a level: for any number of jobs with copies
\* of any age.
THEOREM StopStaysTheUsers == Spec => StopIsTheUsers
  <1> DEFINE Users == \A p \in Position : row'[p].level # row[p].level =>
                        \E u \in Session : edit[u].at = {p} /\ edit'[u] = NoEdit
  <1>1. Init => LevelsKept
    BY DEF Init, LevelsKept, Idle
  <1>2. TypeOK /\ LevelsKept /\ [Next]_vars => [Users]_vars
    <2> SUFFICES ASSUME TypeOK, LevelsKept, [Next]_vars PROVE Users
      OBVIOUS
    <2>1. ASSUME LevelsStay PROVE Users
      BY <2>1 DEF LevelsStay
    <2>2. ASSUME UNCHANGED row PROVE Users
      BY <2>2
    <2>3. ASSUME NEW u \in Session, NEW q \in Position, NEW l \in Level, NEW queued \in BOOLEAN,
                 SaveEdit(u, q, l, queued)
          PROVE Users
      BY <2>3, EditsOwn
    <2>4. ASSUME NEW j \in Job, Commit(j) PROVE Users
      BY <2>1, <2>4, CommitKeeps
    <2>5. ASSUME NEW j \in Job, Worker(j) PROVE Commit(j) \/ UNCHANGED row
      BY <2>5 DEF Worker, Step, Sweep, CheckOne, Fetch, Deliver, CommitStale, Abort
    <2>6. ASSUME NEW u \in Session, User(u)
          PROVE  \/ UNCHANGED row
                 \/ \E q \in Position, l \in Level, queued \in BOOLEAN : SaveEdit(u, q, l, queued)
      BY <2>6 DEF User, OpenEdit, DropEdit
    <2>7. ASSUME NEW p \in Position, Delete(p) PROVE UNCHANGED row
      BY <2>7 DEF Delete
    <2>8. CASE Tick \/ ChainEnds \/ Restart \/ UNCHANGED vars
      BY <2>2, <2>8 DEF Tick, ChainEnds, Restart, vars
    <2> HIDE DEF Users
    <2> QED
      BY <2>2, <2>3, <2>4, <2>5, <2>6, <2>7, <2>8 DEF Next
  <1> QED
    BY <1>1, <1>2, InitTypes, TypeStep, StepLevels, PTL DEF Spec, StopIsTheUsers

-----------------------------------------------------------------------------
(* Messages that repeat.  A message is due as long as the row it is about  *)
(* neither records it nor has moved on to another level.  What is due by   *)
(* the copy of the job can repeat; what is due by the rows is what a job   *)
(* that is cut off, or a channel whose answer is lost, adds to what is     *)
(* lost.                                                                   *)

\* The record of delivery of row r has message m.
Has(r, m) == r.delivery[m[2]].day = m[5] /\ m[3] \in r.delivery[m[2]].ok

\* The messages among ms of day d that the given rows would send again.
Due(rows, ms, d) == {m \in ms : m[4] = rows[m[1]].level /\ m[5] = d /\ ~Has(rows[m[1]], m)}

\* The day that a job dates its messages with; the immediate check does not
\* know it before the prices are there.
DayOf(w) == IF w.kind = "one" /\ w.pc = "fetch" THEN day ELSE w.day

\* A message told is about a level that was entered, on a day that has come.
ToldShape ==
    /\ IsFiniteSet(told)
    /\ \A m \in told : m[4] \in 1 .. levels /\ m[5] \in 1 .. day

LevelsEntered == \A p \in Position : row[p].level <= levels

\* Nothing was told of position p at level l.
Unheard(p, l) == \A m \in told : m[1] = p => m[4] # l

\* A job at work: its day has come and nothing was told of a later one; a row
\* is as the job has loaded it, or has a level of which nothing is told.
AtWork(w) ==
    /\ DayOf(w) \in 1 .. day
    /\ \A m \in told : m[5] <= DayOf(w)
    /\ \A p \in Position :
         \/ row[p] = w.loaded[p]
         \/ /\ Unheard(p, row[p].level)
            /\ row[p].level = 0 \/ row[p].level # w.loaded[p].level

JobShape(w) ==
    /\ w.pc = "idle" => w = Idle
    /\ w.pc = "fetch" => w.view = w.loaded /\ w.sent = 0
    /\ w.pc # "idle" => AtWork(w)
    /\ \A p \in w.todo : w.view[p].level # 0
    /\ \A p \in Position : w.view[p].level = w.loaded[p].level /\ w.loaded[p].level <= levels

Counted(w) ==
    /\ repeats + Cardinality(Due(row, told, day)) <= lost + w.sent
    /\ repeats + Cardinality(Due(w.view, told, DayOf(w))) <= lost

RepeatsInv ==
    /\ ToldShape /\ LevelsEntered /\ RepeatsHaveACause
    /\ \A j \in Job : JobShape(job[j]) /\ Counted(job[j])

LEMMA FewerOf ==
  ASSUME NEW S, NEW T, IsFiniteSet(T), S \subseteq T
  PROVE  /\ IsFiniteSet(S) /\ Cardinality(S) \in Nat /\ Cardinality(T) \in Nat
         /\ Cardinality(S) <= Cardinality(T)
  <1>1. S \in SUBSET T
    OBVIOUS
  <1> QED
    BY <1>1, FS_Subset, FS_CardinalityType

\* Taking some away, and adding some.
LEMMA WithoutSome ==
  ASSUME NEW S, NEW T, NEW R, IsFiniteSet(T), R \subseteq T, S \subseteq T \ R
  PROVE  /\ Cardinality(S) \in Nat /\ Cardinality(R) \in Nat /\ Cardinality(T) \in Nat
         /\ Cardinality(S) + Cardinality(R) <= Cardinality(T)
  <1>1. IsFiniteSet(T \ R) /\ Cardinality(T \ R) = Cardinality(T) - Cardinality(T \cap R)
    BY FS_Difference
  <1>2. T \cap R = R
    OBVIOUS
  <1>3. Cardinality(R) \in Nat /\ Cardinality(T) \in Nat
    BY FewerOf
  <1>4. Cardinality(S) \in Nat /\ Cardinality(S) <= Cardinality(T \ R)
    BY <1>1, FewerOf
  <1> QED
    BY <1>1, <1>2, <1>3, <1>4

LEMMA WithSome ==
  ASSUME NEW S, NEW T, NEW R, IsFiniteSet(T), IsFiniteSet(R), S \subseteq T \cup R
  PROVE  /\ Cardinality(S) \in Nat /\ Cardinality(R) \in Nat /\ Cardinality(T) \in Nat
         /\ Cardinality(S) <= Cardinality(T) + Cardinality(R)
  <1>1. /\ IsFiniteSet(T \cup R)
        /\ Cardinality(T \cup R) = Cardinality(T) + Cardinality(R) - Cardinality(T \cap R)
    BY FS_Union
  <1>2. Cardinality(T) \in Nat /\ Cardinality(R) \in Nat /\ Cardinality(T \cap R) \in Nat
    BY FewerOf
  <1>3. Cardinality(S) \in Nat /\ Cardinality(S) <= Cardinality(T \cup R)
    BY <1>1, FewerOf
  <1> QED
    BY <1>1, <1>2, <1>3

LEMMA DueCounted ==
  ASSUME ToldShape, NEW rows, NEW d
  PROVE  /\ Due(rows, told, d) \subseteq told
         /\ IsFiniteSet(Due(rows, told, d)) /\ Cardinality(Due(rows, told, d)) \in Nat
  <1>1. Due(rows, told, d) \subseteq told
    BY DEF Due
  <1> QED
    BY <1>1, FewerOf DEF ToldShape

\* A message tells of a position, in a stage, on a channel.
LEMMA ToldFields ==
  ASSUME TypeOK, NEW m \in told
  PROVE  m[1] \in Position /\ m[2] \in Stage /\ m[3] \in Channel /\ m[4] \in Int /\ m[5] \in Int
  BY BoundsAssumption DEF TypeOK, HistoryOK, Level, Day

\* The counters.
LEMMA Counters ==
  ASSUME TypeOK
  PROVE  /\ repeats \in Nat /\ lost \in Nat /\ \A j \in Job : job[j].sent \in Nat
         /\ day \in Nat /\ levels \in Nat /\ \A p \in Position : row[p].level \in Nat
  BY BoundsAssumption DEF TypeOK, HistoryOK, JobsOK, JobState, RowsOK, Row, Level

\* A job that does not run sends nothing.
LEMMA IdleDue ==
  ASSUME TypeOK, ToldShape, NEW d
  PROVE  Cardinality(Due(Idle.view, told, d)) = 0
  <1>1. \A p \in Position : Idle.view[p].level = 0
    BY DEF Idle, Blank
  <1>2. Due(Idle.view, told, d) = {}
    <2>1. ASSUME NEW m \in Due(Idle.view, told, d) PROVE FALSE
      <3>1. m \in told /\ m[4] = Idle.view[m[1]].level
        BY <2>1 DEF Due
      <3>2. m[1] \in Position /\ m[4] \in 1 .. levels /\ levels \in Nat
        BY <3>1, ToldFields, Counters DEF ToldShape
      <3> QED
        BY <1>1, <3>1, <3>2
    <2> QED
      BY <2>1
  <1> QED
    BY <1>2, FS_EmptySet

LEMMA IdleShape ==
  ASSUME TypeOK
  PROVE  JobShape(Idle) /\ Idle.sent = 0 /\ Idle.pc = "idle"
  BY Counters DEF JobShape, Idle, Blank

\* A job that ends, whose messages are lost, or recorded in the rows.
LEMMA JobEnds ==
  ASSUME TypeOK, TypeOK', RepeatsInv, NEW j \in Job, \A i \in Job : i = j,
         job' = [job EXCEPT ![j] = Idle], UNCHANGED <<told, repeats, levels, day>>,
         LevelsEntered', lost <= lost',
         repeats + Cardinality(Due(row', told, day)) <= lost'
  PROVE  RepeatsInv'
  <1>1. job'[j] = Idle
    BY DEF TypeOK, JobsOK
  <1>2. JobShape(Idle)' /\ Idle.sent = 0
    BY IdleShape DEF JobShape, AtWork, Idle
  <1>3. ToldShape'
    BY DEF RepeatsInv, ToldShape
  <1>4. RepeatsHaveACause'
    BY Counters DEF RepeatsInv, RepeatsHaveACause, TypeOK, HistoryOK
  <1>5. Counted(Idle)'
    <2>1. Cardinality(Due(Idle.view, told, DayOf(Idle))) = 0
      BY IdleDue DEF RepeatsInv
    <2>2. DayOf(Idle)' = DayOf(Idle)
      BY DEF DayOf
    <2>3. repeats \in Nat /\ lost' \in Nat
      BY Counters DEF TypeOK, HistoryOK
    <2>4. repeats' + Cardinality(Due(Idle.view, told', DayOf(Idle)')) <= lost'
      BY <1>4, <2>1, <2>2, <2>3 DEF RepeatsHaveACause
    <2>5. repeats' + Cardinality(Due(row', told', day')) <= lost' + Idle.sent
      BY <1>2, <2>3
    <2> QED
      BY <2>4, <2>5 DEF Counted
  <1> QED
    BY <1>1, <1>2, <1>3, <1>4, <1>5 DEF RepeatsInv

LEMMA RepeatsStop ==
  ASSUME TypeOK, TypeOK', RepeatsInv, NEW j \in Job, \A i \in Job : i = j,
         CommitStale(j) \/ Abort(j)
  PROVE  RepeatsInv'
  <1>1. /\ job' = [job EXCEPT ![j] = Idle] /\ UNCHANGED <<told, repeats, levels, day, row>>
        /\ lost' = lost + job[j].sent
    BY DEF CommitStale, Abort, world
  <1>2. LevelsEntered' /\ lost <= lost'
    BY <1>1, Counters DEF RepeatsInv, LevelsEntered
  <1>3. repeats + Cardinality(Due(row', told, day)) <= lost'
    BY <1>1 DEF RepeatsInv, Counted
  <1> QED
    BY <1>1, <1>2, <1>3, JobEnds

\* A commit records what the copy records: of a row that has changed since it
\* was loaded nothing is told.
LEMMA RepeatsCommit ==
  ASSUME TypeOK, TypeOK', LevelsKept, RepeatsInv, NEW j \in Job, \A i \in Job : i = j, Commit(j)
  PROVE  RepeatsInv'
  <1> PICK w : w = job[j]
    OBVIOUS
  <1>1. /\ job' = [job EXCEPT ![j] = Idle] /\ UNCHANGED <<told, repeats, levels, day, lost>>
        /\ w.pc = "send" /\ JobShape(w) /\ Counted(w) /\ LevelsStay
    BY CommitKeeps DEF Commit, world, history, RepeatsInv
  <1>2. AtWork(w) /\ DayOf(w) = w.day
    BY <1>1 DEF JobShape, DayOf
  <1>3. ASSUME NEW p \in Position, row[p] = w.loaded[p]
        PROVE  row'[p].delivery = w.view[p].delivery
    <2>1. row'[p] = IF w.view[p] # w.loaded[p]
                    THEN Save(row[p], w.loaded[p], w.view[p]) ELSE row[p]
      BY DEF Commit, Dirty
    <2> QED
      BY <1>3, <2>1 DEF Save
  <1>4. Due(row', told, day) \subseteq Due(w.view, told, DayOf(w))
    <2> SUFFICES ASSUME NEW m \in Due(row', told, day)
                 PROVE  m \in Due(w.view, told, DayOf(w))
      OBVIOUS
    <2>1. m \in told /\ m[4] = row'[m[1]].level /\ m[5] = day /\ ~Has(row'[m[1]], m)
      BY DEF Due
    <2>2. m[1] \in Position /\ m[4] = row[m[1]].level
      BY <1>1, <2>1, ToldFields DEF LevelsStay
    <2>3. day = DayOf(w)
      BY <1>2, <2>1, Counters DEF AtWork
    <2>4. row[m[1]] = w.loaded[m[1]]
      BY <1>2, <2>1, <2>2 DEF AtWork, Unheard
    <2>5. m[4] = w.view[m[1]].level /\ ~Has(w.view[m[1]], m)
      BY <1>1, <1>3, <2>1, <2>2, <2>4 DEF JobShape, Has
    <2> QED
      BY <2>1, <2>3, <2>5 DEF Due
  <1>5. repeats + Cardinality(Due(row', told, day)) <= lost
    <2>1. /\ Cardinality(Due(row', told, day)) \in Nat
          /\ Cardinality(Due(w.view, told, DayOf(w))) \in Nat
          /\ Cardinality(Due(row', told, day)) <= Cardinality(Due(w.view, told, DayOf(w)))
      BY <1>4, DueCounted, FewerOf DEF RepeatsInv
    <2> QED
      BY <1>1, <2>1, Counters DEF Counted
  <1>6. LevelsEntered' /\ lost <= lost'
    BY <1>1, Counters DEF RepeatsInv, LevelsEntered, LevelsStay
  <1> QED
    BY <1>1, <1>5, <1>6, JobEnds

\* A job starts with a copy of the rows as they are.
LEMMA RepeatsStart ==
  ASSUME TypeOK, RepeatsInv, NEW j \in Job, \A i \in Job : i = j,
         Sweep(j) \/ \E p \in Position : CheckOne(j, p)
  PROVE  RepeatsInv'
  <1> PICK w : w = job'[j]
    OBVIOUS
  <1>1. /\ job[j].pc = "idle" /\ w.pc = "fetch" /\ w.loaded = row /\ w.view = row /\ w.sent = 0
        /\ w.kind = "one" \/ (w.kind = "sweep" /\ w.day = day)
        /\ \A p \in w.todo : row[p].level # 0
        /\ UNCHANGED <<row, levels, day, told, repeats, lost>>
    BY DEF Sweep, CheckOne, world, history, TypeOK, JobsOK
  <1>2. job[j] = Idle /\ Counted(Idle) /\ DayOf(w) = day /\ DayOf(w)' = day
    BY <1>1 DEF RepeatsInv, JobShape, DayOf
  <1>3. ToldShape' /\ LevelsEntered' /\ RepeatsHaveACause'
    BY <1>1 DEF RepeatsInv, ToldShape, LevelsEntered, RepeatsHaveACause
  <1>4. Counted(w)'
    <2>1. repeats + Cardinality(Due(row, told, day)) <= lost + 0
      BY <1>2, IdleShape DEF Counted
    <2>2. repeats + Cardinality(Due(row, told, day)) <= lost
      BY <2>1, Counters
    <2> QED
      BY <1>1, <1>2, <2>1, <2>2 DEF Counted
  <1>5. JobShape(w)'
    <2>1. AtWork(w)'
      <3>1. day \in 1 .. day /\ \A m \in told : m[5] <= day
        BY BoundsAssumption DEF RepeatsInv, ToldShape, TypeOK, RowsOK
      <3> QED
        BY <1>1, <1>2, <3>1 DEF AtWork
    <2> QED
      BY <1>1, <2>1 DEF JobShape, RepeatsInv, LevelsEntered
  <1> QED
    BY <1>3, <1>4, <1>5 DEF RepeatsInv

\* The immediate check takes the date now.
LEMMA RepeatsFetch ==
  ASSUME TypeOK, RepeatsInv, NEW j \in Job, \A i \in Job : i = j, NEW hit, Fetch(j, hit)
  PROVE  RepeatsInv'
  <1> PICK v : v = job[j]
    OBVIOUS
  <1> PICK w : w = job'[j]
    OBVIOUS
  <1>1. /\ v.pc = "fetch" /\ w.pc = "send" /\ w.kind = v.kind
        /\ w.loaded = v.loaded /\ w.view = v.view /\ w.sent = v.sent /\ w.todo \subseteq v.todo
        /\ w.day = IF v.kind = "one" THEN day ELSE v.day
        /\ UNCHANGED <<row, levels, day, told, repeats, lost>>
    <2>1. v \in JobState
      BY DEF TypeOK, JobsOK
    <2> QED
      BY <2>1 DEF Fetch, world, history, TypeOK, JobsOK, JobState
  <1>2. JobShape(v) /\ Counted(v) /\ DayOf(w)' = DayOf(v)
    BY <1>1 DEF RepeatsInv, DayOf
  <1>3. ToldShape' /\ LevelsEntered' /\ RepeatsHaveACause'
    BY <1>1 DEF RepeatsInv, ToldShape, LevelsEntered, RepeatsHaveACause
  <1>4. Counted(w)'
    BY <1>1, <1>2 DEF Counted
  <1>5. JobShape(w)'
    BY <1>1, <1>2 DEF JobShape, AtWork, Unheard
  <1> QED
    BY <1>3, <1>4, <1>5 DEF RepeatsInv

-----------------------------------------------------------------------------
(* The delivery of one position.                                           *)

\* What a delivery makes of the copy v of a row.
Attempt(v, s, d, ok) ==
    LET pend == Pending(v.delivery[s], d) IN IF pend = {} THEN v ELSE Record(v, s, d, pend, ok)

\* The record of an attempt: what is delivered is in it, and what was stays.
Recorded(v, u, s, d, ok) ==
    /\ u.level = v.level
    /\ \A c \in ok : u.delivery[s].day = d /\ c \in u.delivery[s].ok
    /\ \A t \in Stage, c \in Channel :
         v.delivery[t].day = d /\ c \in v.delivery[t].ok =>
            u.delivery[t].day = d /\ c \in u.delivery[t].ok

LEMMA AttemptRecords ==
  ASSUME NEW v \in Row, NEW s \in Stage, NEW d, NEW ok \in SUBSET Channel,
         ok \subseteq Pending(v.delivery[s], d)
  PROVE  Recorded(v, Attempt(v, s, d, ok), s, d, ok)
  <1>p. PICK pend : pend = Pending(v.delivery[s], d)
    OBVIOUS
  <1>u. PICK u : u = Attempt(v, s, d, ok)
    OBVIOUS
  <1>1. CASE pend = {}
    BY <1>p, <1>u, <1>1 DEF Attempt, Recorded
  <1>2. CASE pend # {}
    <2>1. u = Record(v, s, d, pend, ok)
      BY <1>p, <1>u, <1>2 DEF Attempt
    <2>2. /\ u.level = v.level
          /\ u.delivery = [v.delivery EXCEPT ![s] = [day |-> d, ok |-> (Channel \ pend) \cup ok]]
      BY <2>1 DEF Record, Row
    <2>3. /\ u.delivery[s].day = d /\ u.delivery[s].ok = (Channel \ pend) \cup ok
          /\ \A t \in Stage \ {s} : u.delivery[t] = v.delivery[t]
      BY <2>2 DEF Row
    <2>4. ASSUME NEW c \in Channel, v.delivery[s].day = d, c \in v.delivery[s].ok
          PROVE  c \in u.delivery[s].ok
      BY <1>p, <2>3, <2>4 DEF Pending
    <2> QED
      BY <1>u, <2>2, <2>3, <2>4 DEF Recorded
  <1> QED
    BY <1>1, <1>2

\* The messages of one delivery.
Messages(p, s, ok, l, d) == {<<p, s, c, l, d>> : c \in ok}

\* They are no more than the channels.
LEMMA AsManyMessages ==
  ASSUME NEW ok \in SUBSET Channel, NEW p, NEW s, NEW l, NEW d
  PROVE  /\ IsFiniteSet(Messages(p, s, ok, l, d)) /\ Cardinality(Messages(p, s, ok, l, d)) \in Nat
         /\ Cardinality(ok) \in Nat /\ Cardinality(Messages(p, s, ok, l, d)) <= Cardinality(ok)
  <1> DEFINE M == Messages(p, s, ok, l, d)
             f == [c \in ok |-> <<p, s, c, l, d>>]
  <1>1. IsFiniteSet(ok) /\ Cardinality(ok) \in Nat
    BY ChannelAssumption, FS_Subset, FS_CardinalityType
  <1>2. f \in Surjection(ok, M)
    BY DEF Surjection, Messages
  <1> HIDE DEF M, f
  <1>3. IsFiniteSet(M) /\ Cardinality(M) <= Cardinality(ok)
    BY <1>1, <1>2, FS_Surjection
  <1>4. Cardinality(M) \in Nat
    BY <1>3, FS_CardinalityType
  <1> QED
    BY <1>1, <1>3, <1>4 DEF M

LEMMA RepeatsDeliver ==
  ASSUME TypeOK, TypeOK', RepeatsInv, NEW j \in Job, \A i \in Job : i = j,
         NEW p \in Position, NEW ok \in SUBSET Channel, NEW late \in SUBSET Channel,
         Deliver(j, p, ok, late)
  PROVE  RepeatsInv'
  <1>w. PICK w, x : w = job[j] /\ x = job'[j]
    OBVIOUS
  <1>v. PICK v, s, d : v = w.view[p] /\ s = w.stage /\ d = w.day
    OBVIOUS
  <1>p. PICK pend : pend = Pending(v.delivery[s], d)
    OBVIOUS
  <1>u. PICK u : u = Attempt(v, s, d, ok)
    OBVIOUS
  <1>n. PICK sent \in SUBSET Channel : sent = ok \cap Configured
    OBVIOUS
  <1>a. PICK A, B : /\ A = Messages(p, s, sent, v.level, d)
                    /\ B = Messages(p, s, late, v.level, d)
    OBVIOUS
  <1>m. PICK M, rep : M = A \cup B /\ rep = M \cap told
    OBVIOUS
  <1>0. /\ w \in JobState /\ v \in Row /\ s \in Stage
    BY <1>w, <1>v DEF TypeOK, JobsOK, JobState
  <1>1. /\ w.pc = "send" /\ p \in w.todo /\ ok \subseteq pend /\ late \subseteq pend
        /\ told' = told \cup M /\ repeats' = repeats + Cardinality(rep)
        /\ lost' = lost + Cardinality(late)
        /\ UNCHANGED <<row, levels, day>>
    <2>1. {<<p, s, c, v.level, d>> : c \in sent \cup late} = M
      BY <1>a, <1>m DEF Messages
    <2> QED
      BY <1>w, <1>v, <1>p, <1>n, <1>m, <2>1 DEF Deliver, world
  <1>2. /\ x.pc = "send" /\ x.todo \subseteq w.todo /\ x.kind = w.kind /\ x.day = d
        /\ x.loaded = w.loaded /\ x.sent = w.sent + Cardinality(sent)
        /\ x.view[p] = u /\ \A q \in Position \ {p} : x.view[q] = w.view[q]
    <2>1. job' = [job EXCEPT ![j].todo = @ \ {p}, ![j].view[p] = u, ![j].sent = @ + Cardinality(sent)]
      BY <1>w, <1>v, <1>u, <1>n DEF Deliver, Attempt
    <2>v. PICK views : views = [w.view EXCEPT ![p] = u]
      OBVIOUS
    <2>2. x = [w EXCEPT !.todo = @ \ {p}, !.view = views, !.sent = @ + Cardinality(sent)]
      BY <1>w, <1>0, <2>v, <2>1 DEF TypeOK, JobsOK, JobState
    <2>3. views[p] = u /\ \A q \in Position \ {p} : views[q] = w.view[q]
      BY <1>0, <2>v DEF JobState
    <2>4. /\ x.pc = w.pc /\ x.todo = w.todo \ {p} /\ x.kind = w.kind /\ x.day = w.day
          /\ x.loaded = w.loaded /\ x.sent = w.sent + Cardinality(sent) /\ x.view = views
      BY <1>0, <2>2 DEF JobState
    <2> QED
      BY <1>v, <1>1, <2>3, <2>4
  <1>3. Recorded(v, u, s, d, ok)
    BY <1>p, <1>u, <1>0, <1>1, AttemptRecords
  <1>4. JobShape(w) /\ Counted(w) /\ AtWork(w) /\ ToldShape /\ DayOf(w) = d /\ DayOf(x)' = d
    BY <1>w, <1>v, <1>1, <1>2 DEF RepeatsInv, JobShape, DayOf
  <1>c. /\ IsFiniteSet(A) /\ Cardinality(A) \in Nat /\ Cardinality(sent) \in Nat
        /\ IsFiniteSet(B) /\ Cardinality(B) \in Nat /\ Cardinality(late) \in Nat
        /\ Cardinality(A) <= Cardinality(sent) /\ Cardinality(B) <= Cardinality(late)
    BY <1>a, AsManyMessages
  <1>5. /\ IsFiniteSet(M) /\ Cardinality(M) \in Nat
        /\ Cardinality(M) <= Cardinality(sent) + Cardinality(late)
    <2>1. IsFiniteSet(M) /\ Cardinality(M) \in Nat /\ Cardinality(M) <= Cardinality(A) + Cardinality(B)
      BY <1>m, <1>c, WithSome, FS_Union
    <2> QED
      BY <1>c, <2>1
  <1>d. \A m \in A : m[3] \in ok
    BY <1>a, <1>n DEF Messages
  <1>6. \A m \in M : /\ m[1] = p /\ m[2] = s /\ m[3] \in pend /\ m[4] = v.level /\ m[5] = d
    BY <1>a, <1>m, <1>n, <1>1 DEF Messages
  <1>7. v.level \in 1 .. levels /\ d \in 1 .. day
    BY <1>v, <1>0, <1>1, <1>4, Counters DEF JobShape, AtWork, Row, Level
  <1>8. ToldShape'
    <2>1. IsFiniteSet(told')
      BY <1>1, <1>4, <1>5, FS_Union DEF ToldShape
    <2>2. \A m \in told' : m[4] \in 1 .. levels' /\ m[5] \in 1 .. day'
      BY <1>1, <1>4, <1>6, <1>7 DEF ToldShape
    <2> QED
      BY <2>1, <2>2 DEF ToldShape
  <1>9. JobShape(x)'
    <2>1. ASSUME NEW q \in Position
          PROVE  \/ row'[q] = x.loaded[q]
                 \/ /\ Unheard(q, row[q].level)'
                    /\ row'[q].level = 0 \/ row'[q].level # x.loaded[q].level
      <3>1. CASE row[q] = w.loaded[q]
        BY <1>1, <1>2, <3>1
      <3>2. CASE row[q] # w.loaded[q]
        <4>1. Unheard(q, row[q].level) /\ (row[q].level = 0 \/ row[q].level # w.loaded[q].level)
          BY <1>4, <3>2 DEF AtWork
        <4>2. v.level = w.loaded[p].level /\ v.level # 0
          BY <1>v, <1>1, <1>4 DEF JobShape
        <4>3. \A m \in M : m[1] = q => m[4] # row[q].level
          BY <1>6, <4>1, <4>2
        <4> QED
          BY <1>1, <1>2, <4>1, <4>3 DEF Unheard
      <3> QED
        BY <3>1, <3>2
    <2>2. \A m \in told' : m[5] <= d
      BY <1>1, <1>4, <1>6, <1>7 DEF AtWork
    <2>3. AtWork(x)'
      BY <1>1, <1>4, <1>7, <2>1, <2>2 DEF AtWork
    <2>4. \A q \in Position : x.view[q].level = w.view[q].level
      BY <1>v, <1>2, <1>3 DEF Recorded
    <2>5. w.todo \subseteq Position
      BY <1>0 DEF JobState
    <2> QED
      BY <1>1, <1>2, <1>4, <2>3, <2>4, <2>5 DEF JobShape
  <1>10. repeats' + Cardinality(Due(row, told', day)) <= lost' + x.sent
    <2>n. PICK new : new = M \ told
      OBVIOUS
    <2>1. Due(row, told', day) \subseteq Due(row, told, day) \cup new
      BY <1>1, <2>n DEF Due
    <2>2. IsFiniteSet(Due(row, told, day)) /\ IsFiniteSet(new)
      BY <1>4, <1>5, <2>n, DueCounted, FewerOf
    <2>3. /\ Cardinality(Due(row, told', day)) \in Nat /\ Cardinality(new) \in Nat
          /\ Cardinality(Due(row, told, day)) \in Nat
          /\ Cardinality(Due(row, told', day)) <= Cardinality(Due(row, told, day)) + Cardinality(new)
      BY <2>1, <2>2, WithSome
    <2>4. Cardinality(rep) \in Nat /\ Cardinality(new) + Cardinality(rep) <= Cardinality(M)
      <3>1. rep \subseteq M /\ new \subseteq M \ rep
        BY <1>m, <2>n
      <3> QED
        BY <1>5, <3>1, WithoutSome
    <2>5. repeats + Cardinality(Due(row, told, day)) <= lost + w.sent
      BY <1>4 DEF Counted
    <2>6. repeats \in Nat /\ lost \in Nat /\ w.sent \in Nat
      BY <1>0, Counters DEF JobState
    <2> QED
      BY <1>1, <1>2, <1>c, <1>5, <2>3, <2>4, <2>5, <2>6
  <1>11. repeats' + Cardinality(Due(x.view, told', d)) <= lost'
    <2>n. PICK repA, repB, newB : repA = A \cap told /\ repB = B \cap told /\ newB = B \ told
      OBVIOUS
    <2>1. ASSUME NEW m \in rep PROVE m \in Due(w.view, told, d)
      <3>1. /\ m \in told /\ m[1] = p /\ m[2] = s /\ m[3] \in pend /\ m[4] = v.level /\ m[5] = d
        BY <1>m, <1>6, <2>1
      <3>2. ~Has(v, m)
        BY <1>p, <3>1 DEF Has, Pending
      <3> QED
        BY <1>v, <3>1, <3>2 DEF Due
    <2>2. Due(x.view, told', d) \subseteq (Due(w.view, told, d) \ repA) \cup newB
      <3> SUFFICES ASSUME NEW m \in Due(x.view, told', d), m \notin newB
                   PROVE  m \in Due(w.view, told, d) /\ m \notin repA
        OBVIOUS
      <3>1. /\ m \in told' /\ m[4] = x.view[m[1]].level /\ m[5] = d /\ ~Has(x.view[m[1]], m)
        BY DEF Due
      <3>2. m \notin A
        <4> SUFFICES ASSUME m \in A PROVE FALSE
          OBVIOUS
        <4>1. m[1] = p /\ m[2] = s /\ m[3] \in ok /\ m[5] = d
          BY <1>m, <1>d, <1>6
        <4> QED
          BY <1>2, <1>3, <3>1, <4>1 DEF Has, Recorded
      <3>3. m \in told /\ m \notin repA
        BY <1>m, <1>1, <2>n, <3>1, <3>2
      <3>4. CASE m \in B
        BY <1>m, <2>1, <3>3, <3>4
      <3>5. CASE m \notin B
        <4>1. m[1] \in Position /\ m[2] \in Stage /\ m[3] \in Channel
          BY <3>3, ToldFields
        <4>2. m[4] = w.view[m[1]].level /\ ~Has(w.view[m[1]], m)
          <5>1. CASE m[1] = p
            BY <1>v, <1>2, <1>3, <3>1, <4>1, <5>1 DEF Has, Recorded
          <5>2. CASE m[1] # p
            BY <1>2, <3>1, <4>1, <5>2
          <5> QED
            BY <5>1, <5>2
        <4> QED
          BY <3>1, <3>3, <4>2 DEF Due
      <3> QED
        BY <3>4, <3>5
    <2>v. PICK before, after, kept : /\ before = Due(w.view, told, d)
                                     /\ after = Due(x.view, told', d)
                                     /\ kept = before \ repA
      OBVIOUS
    <2>3. IsFiniteSet(before)
      BY <1>4, <2>v, DueCounted
    <2>4. /\ Cardinality(kept) \in Nat /\ Cardinality(repA) \in Nat /\ Cardinality(before) \in Nat
          /\ IsFiniteSet(kept) /\ Cardinality(kept) + Cardinality(repA) <= Cardinality(before)
      <3>1. repA \subseteq before /\ kept \subseteq before
        BY <1>m, <2>n, <2>v, <2>1
      <3> QED
        BY <2>3, <2>v, <3>1, WithoutSome, FewerOf
    <2>5. /\ Cardinality(repB) \in Nat /\ Cardinality(newB) \in Nat
          /\ IsFiniteSet(repB) /\ IsFiniteSet(newB)
          /\ Cardinality(newB) + Cardinality(repB) <= Cardinality(B)
      <3>1. repB \subseteq B /\ newB \subseteq B \ repB
        BY <2>n
      <3>2. /\ Cardinality(repB) \in Nat /\ Cardinality(newB) \in Nat
            /\ Cardinality(newB) + Cardinality(repB) <= Cardinality(B)
        BY <1>c, <3>1, WithoutSome
      <3>3. IsFiniteSet(repB) /\ IsFiniteSet(newB)
        BY <1>c, <3>1, FewerOf
      <3> QED
        BY <3>2, <3>3
    <2>6. Cardinality(after) \in Nat /\ Cardinality(after) <= Cardinality(kept) + Cardinality(newB)
      BY <2>2, <2>4, <2>5, <2>v, WithSome
    <2>7. Cardinality(rep) \in Nat /\ Cardinality(rep) <= Cardinality(repA) + Cardinality(repB)
      <3>1. rep \subseteq repA \cup repB /\ IsFiniteSet(repA)
        BY <1>m, <1>c, <2>n, FS_Intersection
      <3> QED
        BY <2>5, <3>1, WithSome
    <2>8. repeats + Cardinality(before) <= lost /\ repeats \in Nat /\ lost \in Nat
      BY <1>4, <2>v, Counters DEF Counted
    <2>9. repeats' + Cardinality(after) <= lost'
      BY <1>1, <1>c, <2>4, <2>5, <2>6, <2>7, <2>8
    <2> QED
      BY <2>v, <2>9
  <1>12. Counted(x)'
    BY <1>1, <1>4, <1>10, <1>11 DEF Counted
  <1>13. RepeatsHaveACause'
    <2>1. Cardinality(Due(x.view, told', d)) \in Nat
      BY <1>8, DueCounted, FewerOf DEF Due, ToldShape
    <2>2. repeats' \in Nat /\ lost' \in Nat
      BY DEF TypeOK, HistoryOK
    <2> QED
      BY <1>1, <1>11, <2>1, <2>2 DEF RepeatsHaveACause
  <1>14. LevelsEntered'
    BY <1>1 DEF RepeatsInv, LevelsEntered
  <1> QED
    BY <1>w, <1>8, <1>9, <1>12, <1>13, <1>14 DEF RepeatsInv

-----------------------------------------------------------------------------
(* The steps of others.                                                    *)

\* A new level is one of which nothing is told, and no level is none.
LEMMA RepeatsEdit ==
  ASSUME TypeOK, RepeatsInv, NEW u \in Session, NEW p \in Position, NEW l \in Level,
         NEW queued \in BOOLEAN, SaveEdit(u, p, l, queued)
  PROVE  RepeatsInv'
  <1>1. /\ l = 0 \/ l = levels + 1
        /\ levels' = IF l = 0 THEN levels ELSE l
        /\ UNCHANGED <<day, job, told, repeats, lost>>
    BY DEF SaveEdit, world, history
  <1>2. row'[p].level = l /\ \A q \in Position \ {p} : row'[q] = row[q]
    BY DEF SaveEdit, TypeOK, RowsOK, Save, Reset
  <1>3. levels \in Nat /\ levels' \in Nat /\ levels <= levels'
    BY <1>1, Counters, BoundsAssumption DEF Level
  <1>4. ToldShape'
    BY <1>1, <1>3 DEF RepeatsInv, ToldShape
  <1>5. LevelsEntered'
    BY <1>1, <1>2, <1>3, Counters DEF RepeatsInv, LevelsEntered
  <1>6. Unheard(p, l) /\ Unheard(p, l)'
    BY <1>1, <1>3 DEF RepeatsInv, ToldShape, Unheard
  <1>7. Due(row', told, day) \subseteq Due(row, told, day)
    <2> SUFFICES ASSUME NEW m \in Due(row', told, day) PROVE m \in Due(row, told, day)
      OBVIOUS
    <2>1. m \in told /\ m[4] = row'[m[1]].level /\ m[5] = day /\ ~Has(row'[m[1]], m)
      BY DEF Due
    <2>2. m[1] \in Position \ {p}
      BY <1>2, <1>6, <2>1, ToldFields DEF Unheard
    <2> QED
      BY <1>2, <2>1, <2>2 DEF Due
  <1>8. /\ Cardinality(Due(row', told, day)) \in Nat /\ Cardinality(Due(row, told, day)) \in Nat
        /\ Cardinality(Due(row', told, day)) <= Cardinality(Due(row, told, day))
    BY <1>7, DueCounted, FewerOf DEF RepeatsInv
  <1>9. ASSUME NEW j \in Job PROVE JobShape(job[j])' /\ Counted(job[j])'
    <2>w. PICK w : w = job[j]
      OBVIOUS
    <2>1. JobShape(w) /\ Counted(w) /\ w.sent \in Nat
      BY <2>w, Counters DEF RepeatsInv
    <2>2. \A q \in Position : w.loaded[q].level <= levels /\ w.loaded[q].level \in Nat
      BY <2>w, <2>1 DEF JobShape, TypeOK, JobsOK, JobState, Row, Level
    <2>3. \A q \in Position : w.loaded[q].level <= levels'
      BY <1>3, <2>2
    <2>4. l = 0 \/ l # w.loaded[p].level
      BY <1>1, <1>3, <2>2
    <2>5. AtWork(w) => AtWork(w)'
      BY <1>1, <1>2, <1>6, <2>4 DEF AtWork, DayOf, Unheard
    <2>6. JobShape(w)'
      BY <2>1, <2>3, <2>5 DEF JobShape
    <2>7. DayOf(w)' = DayOf(w)
      BY <1>1 DEF DayOf
    <2>8. Counted(w)'
      <3>1. repeats + Cardinality(Due(row', told, day)) <= lost + w.sent
        BY <1>8, <2>1, Counters DEF Counted
      <3> QED
        BY <1>1, <2>1, <2>7, <3>1 DEF Counted
    <2> QED
      BY <1>1, <2>w, <2>6, <2>8
  <1>10. RepeatsHaveACause'
    BY <1>1 DEF RepeatsInv, RepeatsHaveACause
  <1> QED
    BY <1>4, <1>5, <1>9, <1>10 DEF RepeatsInv

\* On a new day nothing has been told yet.
LEMMA RepeatsTick ==
  ASSUME TypeOK, RepeatsInv, Tick
  PROVE  RepeatsInv'
  <1>1. day' \in {day, day + 1} /\ UNCHANGED <<row, levels, job, told, repeats, lost>>
    BY DEF Tick, history
  <1>2. day \in Nat /\ repeats \in Nat /\ lost \in Nat
    BY Counters
  <1>3. CASE day' = day
    BY <1>1, <1>3 DEF RepeatsInv, ToldShape, LevelsEntered, RepeatsHaveACause, JobShape, Counted,
       AtWork, DayOf, Unheard
  <1>4. CASE day' = day + 1
    <2>1. ToldShape' /\ LevelsEntered' /\ RepeatsHaveACause'
      BY <1>1, <1>2, <1>4 DEF RepeatsInv, ToldShape, LevelsEntered, RepeatsHaveACause
    <2>2. ASSUME NEW rows PROVE Cardinality(Due(rows, told, day + 1)) = 0
      <3>1. Due(rows, told, day + 1) = {}
        BY <1>2 DEF Due, RepeatsInv, ToldShape
      <3> QED
        BY <3>1, FS_EmptySet
    <2>3. ASSUME NEW j \in Job PROVE JobShape(job[j])' /\ Counted(job[j])'
      <3>w. PICK w : w = job[j]
        OBVIOUS
      <3>1. JobShape(w) /\ Counted(w) /\ w.sent \in Nat /\ repeats <= lost
        BY <3>w, Counters DEF RepeatsInv, RepeatsHaveACause
      <3>2. DayOf(w)' = DayOf(w) \/ DayOf(w)' = day + 1
        BY <1>4 DEF DayOf
      <3>3. AtWork(w) => AtWork(w)'
        <4> SUFFICES ASSUME AtWork(w) PROVE AtWork(w)'
          OBVIOUS
        <4>1. DayOf(w)' \in 1 .. day' /\ \A m \in told : m[5] <= DayOf(w)'
          BY <1>2, <1>4, <3>2 DEF AtWork, RepeatsInv, ToldShape
        <4> QED
          BY <1>1, <4>1 DEF AtWork, Unheard
      <3>4. JobShape(w)'
        BY <1>1, <3>1, <3>3 DEF JobShape
      <3>5. repeats + Cardinality(Due(row, told, day + 1)) <= lost + w.sent
        BY <1>2, <2>2, <3>1
      <3>6. repeats + Cardinality(Due(w.view, told, DayOf(w)')) <= lost
        <4>1. CASE DayOf(w)' = DayOf(w)
          BY <3>1, <4>1 DEF Counted
        <4>2. CASE DayOf(w)' = day + 1
          BY <1>2, <2>2, <3>1, <4>2
        <4> QED
          BY <3>2, <4>1, <4>2
      <3>7. Counted(w)'
        BY <1>1, <1>4, <3>5, <3>6 DEF Counted
      <3> QED
        BY <1>1, <3>w, <3>4, <3>7
    <2> QED
      BY <2>1, <2>3 DEF RepeatsInv
  <1> QED
    BY <1>1, <1>3, <1>4

LEMMA RepeatsRest ==
  ASSUME RepeatsInv, UNCHANGED <<row, levels, day, job, told, repeats, lost>>
  PROVE  RepeatsInv'
  BY DEF RepeatsInv, ToldShape, LevelsEntered, RepeatsHaveACause, JobShape, Counted, AtWork, DayOf,
     Unheard

\* The jobs run one after the other.
OneJob == \A i, j \in Job : i = j

LEMMA RepeatsStep ==
  ASSUME OneJob
  PROVE  TypeOK /\ TypeOK' /\ LevelsKept /\ RepeatsInv /\ [Next]_vars => RepeatsInv'
  <1> SUFFICES ASSUME TypeOK, TypeOK', LevelsKept, RepeatsInv, [Next]_vars PROVE RepeatsInv'
    OBVIOUS
  <1>1. ASSUME NEW j \in Job, Worker(j) PROVE RepeatsInv'
    <2>1. \A i \in Job : i = j
      BY DEF OneJob
    <2> QED
      BY <1>1, <2>1, RepeatsStart, RepeatsFetch, RepeatsDeliver, RepeatsCommit, RepeatsStop
      DEF Worker, Step
  <1>2. ASSUME NEW u \in Session, User(u) PROVE RepeatsInv'
    <2>1. CASE \E p \in Position, l \in Level, queued \in BOOLEAN : SaveEdit(u, p, l, queued)
      BY <2>1, RepeatsEdit
    <2>2. CASE (\E p \in Position : OpenEdit(u, p)) \/ DropEdit(u)
      BY <2>2, RepeatsRest DEF OpenEdit, DropEdit, world, history
    <2> QED
      BY <1>2, <2>1, <2>2 DEF User
  <1>3. ASSUME NEW p \in Position, Delete(p) PROVE RepeatsInv'
    BY <1>3, RepeatsRest DEF Delete, world, history
  <1>4. CASE UNCHANGED vars
    BY <1>4, RepeatsRest DEF vars, world, history
  <1>5. CASE ChainEnds \/ Restart
    BY <1>5, RepeatsRest DEF ChainEnds, Restart, history
  <1> QED
    BY <1>1, <1>2, <1>3, <1>4, <1>5, RepeatsTick DEF Next

LEMMA InitRepeats == Init => RepeatsInv
  <1> SUFFICES ASSUME Init PROVE RepeatsInv
    OBVIOUS
  <1>1. /\ told = {} /\ repeats = 0 /\ lost = 0 /\ levels = 0
        /\ row = [p \in Position |-> Blank] /\ job = [j \in Job |-> Idle]
    BY DEF Init
  <1>2. ToldShape /\ LevelsEntered /\ RepeatsHaveACause
    BY <1>1, FS_EmptySet DEF ToldShape, LevelsEntered, Blank, RepeatsHaveACause
  <1>3. \A rows, d : Cardinality(Due(rows, told, d)) = 0
    BY <1>1, FS_EmptySet DEF Due
  <1>4. JobShape(Idle) /\ Counted(Idle)
    BY <1>1, <1>3, InitTypes, IdleShape DEF Counted
  <1> QED
    BY <1>1, <1>2, <1>4 DEF RepeatsInv

\* As long as jobs run one after the other, the user hears no more messages a
\* second time than there are of which no record was kept, because a batch was
\* rolled back or a channel reported a failure although it had delivered: for any
\* number of positions, channels and requests, whatever is edited in between.
THEOREM RepeatsStayCaused == ASSUME OneJob PROVE Spec => []RepeatsHaveACause
  <1>1. Init => LevelsKept
    BY DEF Init, LevelsKept, Idle
  <1>2. RepeatsInv => RepeatsHaveACause
    BY DEF RepeatsInv
  <1>3. TypeOK /\ TypeOK' /\ LevelsKept /\ RepeatsInv /\ [Next]_vars => RepeatsInv'
    BY RepeatsStep
  <1> QED
    BY <1>1, <1>2, <1>3, InitTypes, InitRepeats, TypeStep, StepLevels, PTL DEF Spec

=============================================================================
