-------------------------- MODULE GormContractProofs --------------------------
(***************************************************************************)
(* What the database back end promises its callers, for every deployment:  *)
(* retries are not delivered early within a life of a row, workers do not  *)
(* sleep past the rows of their own process, and the table implements the  *)
(* contract of workqueue.go, the strict one when no lease lapses and the   *)
(* one with leases otherwise.                                              *)
(***************************************************************************)
EXTENDS GormWorkQueueProofs

-----------------------------------------------------------------------------
(* The parts of the invariant. *)

(* A row that was not inserted yet has no attempts.                        *)
Blank == \A t \in Tasks : row[t].status = "absent" => row[t].attempts = 0

(* A claim reads each row once.                                            *)
CandOnce == \A w \in Workers : \A c, d \in cand[w] : c.task = d.task => c = d

(* A candidate read in this life of its row, and not claimed since, is     *)
(* still due; once claimed, its attempts are behind the row's.             *)
StillDue(c) ==
    LET r == row[c.task] IN
    c.life = r.life =>
      /\ r.status = "running" => c.attempts < r.attempts
      /\ r.status = "pending" /\ r.attempts = c.attempts => r.wait = 0

CandDue == \A w \in Workers : \A c \in cand[w] : StillDue(c)

(* Prompt workers finish within their leases.                              *)
LeaseRuns == Prompt => \A w \in Workers : pc[w] \in {"claim", "handle"} => lease[w] >= 0

(* A handler works on the row's current claim and knows its lease.         *)
Serves(w, t) == /\ pc[w] = "handle" /\ job[w].task = t /\ Owns(w)
                /\ lease[w] = row[t].lease

(* Workers are prompt and nothing has failed.                              *)
Calm == Prompt /\ crashes = 0 /\ faults = 0

(* Then running rows are served, and handlers work on current claims.      *)
Served == Calm => /\ \A t \in Tasks : row[t].status = "running"
                                        => \E w \in Workers : Serves(w, t)
                  /\ \A w \in Workers : pc[w] = "handle" => Serves(w, job[w].task)

(* The counters respect their bounds.                                      *)
Bounded == crashes <= MaxCrashes /\ faults <= MaxFaults

CInv == Blank /\ CandOnce /\ CandDue /\ LeaseRuns /\ Served /\ Bounded


-----------------------------------------------------------------------------
(* Every statement, as the row it writes. *)

(* The rows, in a step that assigns one of them.                           *)
LEMMA OneRowType ==
    ASSUME TypeOK, NEW t \in Tasks, NEW r \in Rows, row' = [row EXCEPT ![t] = r]
    PROVE  row'[t] = r /\ \A x \in Tasks : x # t => row'[x] = row[x]
BY DEF TypeOK

(* A row is written under an identifier, by a statement that keeps the     *)
(* budget, and the attempts and the life unless it says otherwise.         *)
Written(t, s) ==
    \E r \in Rows : /\ row' = [row EXCEPT ![t] = r] /\ r.status = s
                    /\ r.attempts = row[t].attempts /\ r.life = row[t].life
                    /\ r.maxRetries = row[t].maxRetries

Inserted(t, n) ==
    \E r \in Rows : /\ row' = [row EXCEPT ![t] = r] /\ r.status = "pending"
                    /\ r.attempts = 0 /\ r.maxRetries = n

Requeued(t) ==
    \E r \in Rows : /\ row' = [row EXCEPT ![t] = r] /\ r.status = "pending"
                    /\ r.attempts = 0 /\ r.life = row[t].life + 1
                    /\ r.maxRetries = row[t].maxRetries

Taken(w, t) ==
    \E r \in Rows : /\ row' = [row EXCEPT ![t] = r] /\ r.status = "running"
                    /\ r.attempts = row[t].attempts + 1 /\ r.life = row[t].life
                    /\ r.maxRetries = row[t].maxRetries /\ r.lease = lease[w]

Retried(t, by) ==
    \E r \in Rows : /\ row' = [row EXCEPT ![t] = r] /\ r.status = "pending"
                    /\ r.attempts = row[t].attempts /\ r.life = row[t].life
                    /\ r.maxRetries = row[t].maxRetries /\ r.by = by

(* Enqueue inserts a pending row with the resolved budget and no attempts. *)
LEMMA EnqueueRow ==
    ASSUME TypeOK, NEW p \in Procs, NEW t \in Tasks, NEW i \in EnqueueInputs, Enqueue(p, t, i)
    PROVE  Inserted(t, NewEnqueueOptions(i).maxRetries)
<1>1. PICK by \in {p, NoProc} : row' = [row EXCEPT ![t] = NewRow(t, NewEnqueueOptions(i), by)]
  BY DEF Enqueue
<1> DEFINE r == NewRow(t, NewEnqueueOptions(i), by)
<1>2. r \in Rows
  BY NewRowType
<1>3. /\ r.status = "pending" /\ r.attempts = 0
      /\ r.maxRetries = NewEnqueueOptions(i).maxRetries
  BY DEF NewRow
<1>4. row' = [row EXCEPT ![t] = r]
  BY <1>1
<1> HIDE DEF r
<1> QED BY <1>2, <1>3, <1>4 DEF Inserted

(* RequeueDeadTask returns a dead row to pending in its next life.         *)
LEMMA RequeueRow ==
    ASSUME TypeOK, NEW p \in Procs, NEW t \in Tasks, RequeueDeadTask(p, t)
    PROVE  Requeued(t) /\ row[t].status = "dead"
<1>1. PICK by \in {p, NoProc} : row' = [row EXCEPT ![t] = Revived(t, by)]
  BY DEF RequeueDeadTask
<1>2. row[t].status = "dead"
  BY DEF RequeueDeadTask
<1> QED BY <1>1, <1>2, RevivedFacts DEF Requeued

(* DeleteDeadTask deletes a dead row.                                      *)
LEMMA DeleteRow ==
    ASSUME TypeOK, NEW t \in Tasks, DeleteDeadTask(t)
    PROVE  Written(t, "deleted") /\ row[t].status = "dead"
<1> DEFINE r == [row[t] EXCEPT !.status = "deleted"]
<1>1. row' = [row EXCEPT ![t] = r] /\ row[t].status = "dead"
  BY DEF DeleteDeadTask
<1>2. /\ r \in Rows /\ r.life = row[t].life /\ r.attempts = row[t].attempts
      /\ r.status = "deleted" /\ r.maxRetries = row[t].maxRetries
  BY DeletedFacts
<1> HIDE DEF r
<1> QED BY <1>1, <1>2 DEF Written

(* The optimistic UPDATE of claim takes a pending row whose attempts are   *)
(* those of the candidate.                                                 *)
LEMMA ClaimRow ==
    ASSUME TypeOK, NEW w \in Workers, NEW c \in cand[w], Claimable(c),
           row' = [row EXCEPT ![c.task] = ClaimedRow(w, c.task)]
    PROVE  /\ c.task \in Tasks /\ Taken(w, c.task) /\ row[c.task].status = "pending"
           /\ row[c.task].attempts = c.attempts
<1>1. c.task \in Tasks
  BY DEF TypeOK, Records
<1>2. row[c.task].status = "pending" /\ row[c.task].attempts = c.attempts
  BY DEF Claimable
<1>3. Taken(w, c.task)
  BY <1>1, ClaimedFacts DEF Taken
<1> QED BY <1>1, <1>2, <1>3

(* A claim whose UPDATE took effect, whether it reports so or not.         *)
LEMMA ClaimRowCases ==
    ASSUME TypeOK, NEW w \in Workers, (\E c \in cand[w] : ClaimTask(w, c)) \/ ClaimFails(w)
    PROVE  \/ ClaimFails(w) /\ row' = row
           \/ \E c \in cand[w] : /\ c.task \in Tasks /\ Taken(w, c.task)
                                 /\ row[c.task].status = "pending"
                                 /\ ClaimTask(w, c) \/ ClaimFails(w)
<1>1. ASSUME NEW c \in cand[w], ClaimTask(w, c)
      PROVE  c.task \in Tasks /\ Taken(w, c.task) /\ row[c.task].status = "pending"
  BY <1>1, ClaimRow DEF ClaimTask
<1>2. ASSUME NEW c \in cand[w], Claimable(c),
             row' = [row EXCEPT ![c.task] = ClaimedRow(w, c.task)]
      PROVE  c.task \in Tasks /\ Taken(w, c.task) /\ row[c.task].status = "pending"
  BY <1>2, ClaimRow
<1>3. CASE ClaimFails(w)
  BY <1>2, <1>3 DEF ClaimFails
<1> QED BY <1>1, <1>3

(* complete's statements.                                                  *)
LEMMA ReturnRow ==
    ASSUME TypeOK, Lifecycle, NEW w \in Workers, HandlerReturns(w)
    PROVE  LET t == job[w].task IN
           /\ t \in Tasks /\ Release(w)
           /\ \/ HandlerSucceeds(w) /\ Written(t, "deleted")
              \/ Bury(w) /\ Exhausted(job[w]) /\ Guard(job[w]) /\ Written(t, "dead")
              \/ Reschedule(w) /\ ~ Exhausted(job[w]) /\ Guard(job[w]) /\ Retried(t, ProcOf[w])
              \/ CompleteFails(w) /\ ~ Exhausted(job[w]) /\ Guard(job[w]) /\ Retried(t, NoProc)
              \/ (Bury(w) \/ Reschedule(w)) /\ ~ Guard(job[w]) /\ row' = row
              \/ CompleteFails(w) /\ row' = row
<1> DEFINE t == job[w].task
<1>1. Release(w)
  BY DEF HandlerReturns, HandlerSucceeds, Bury, Reschedule, CompleteFails
<1>2. t \in Tasks /\ job[w] \in Records
  BY <1>1, Handling DEF Release
<1>3. ASSUME NEW by \in Procs \cup {NoProc}, row' = Rescheduled(job[w], by) PROVE Retried(t, by)
  BY <1>2, <1>3, RescheduledRow DEF Retried
<1>4. ASSUME NEW x \in {"dead", "deleted"}, row' = [row EXCEPT ![t] = Settled(t, x)]
      PROVE  Written(t, x)
  BY <1>2, <1>4, SettledFacts DEF Written
<1>5. CASE HandlerSucceeds(w)
  BY <1>1, <1>2, <1>4, <1>5 DEF HandlerSucceeds
<1>6. CASE Bury(w)
  BY <1>1, <1>2, <1>4, <1>6 DEF Bury
<1>7. CASE Reschedule(w)
  BY <1>1, <1>2, <1>3, <1>7, DeploymentAssumption DEF Reschedule
<1>8. CASE CompleteFails(w)
  BY <1>1, <1>2, <1>3, <1>8 DEF CompleteFails
<1> QED BY <1>5, <1>6, <1>7, <1>8 DEF HandlerReturns

(* The sweep, row by row.                                                  *)
SweptRow(t) == IF Expired(t) THEN Reaped(t) ELSE row[t]

(* The reaper's statement sweeps every row whose lease is over, or has no  *)
(* effect.                                                                 *)
LEMMA ReapRows ==
    ASSUME NEW w \in Workers, Reap(w)
    PROVE  row' = row \/ \A t \in Tasks : row'[t] = SweptRow(t)
BY DEF Reap, SweptRow

-----------------------------------------------------------------------------
(* What can become of a row in one step. *)

Stays(x) == /\ row'[x].status = row[x].status /\ row'[x].attempts = row[x].attempts
            /\ row'[x].life = row[x].life /\ row'[x].maxRetries = row[x].maxRetries
            /\ (row'[x].lease = row[x].lease /\ row'[x].wait = row[x].wait) \/ Tick

Scheduled(x) == /\ row[x].status # "running"
                /\ row'[x].status = "pending" /\ row'[x].attempts = 0
                /\ x \notin Remembered \/ row'[x].life = row[x].life + 1

Dropped(x) == row[x].status = "dead" /\ row'[x].status = "deleted"

Claimed(x) == /\ row[x].status = "pending" /\ row'[x].status = "running"
              /\ row'[x].attempts = row[x].attempts + 1 /\ row'[x].life = row[x].life
              /\ \E v \in Workers : \/ ClaimFails(v)
                                    \/ /\ \E c \in cand[v] : ClaimTask(v, c) /\ c.task = x
                                       /\ row'[x].lease = lease[v]

Swept(x) == /\ Expired(x) /\ row'[x].status = "pending"
            /\ row'[x].attempts = row[x].attempts /\ row'[x].life = row[x].life

Completed(x) == \E v \in Workers : /\ HandlerReturns(v) /\ job[v].task = x
                                   /\ row'[x].status \in {"deleted", "dead"}

PutBack(x) == /\ \E v \in Workers : HandlerReturns(v) /\ job[v].task = x
              /\ row[x].status = "running" /\ row'[x].status = "pending"
              /\ row'[x].attempts = row[x].attempts /\ row'[x].life = row[x].life

RowFate(x) == \/ Stays(x) \/ Scheduled(x) \/ Dropped(x) \/ Claimed(x) \/ Swept(x)
              \/ Completed(x) \/ PutBack(x)

(* A write to one row leaves the others as they are.                       *)
LEMMA OneFate ==
    ASSUME TypeOK, NEW t \in Tasks, NEW r \in Rows, row' = [row EXCEPT ![t] = r], RowFate(t)
    PROVE  \A x \in Tasks : RowFate(x)
<1>1. \A x \in Tasks : x # t => row'[x] = row[x]
  BY OneRowType
<1> QED BY <1>1 DEF RowFate, Stays

(* Steps that leave the table alone.                                       *)
LEMMA TableSteps ==
    ASSUME TypeOK, Lifecycle, [Next]_vars
    PROVE  \/ \E p \in Procs : \E t \in Tasks :
                 (\E i \in EnqueueInputs : Enqueue(p, t, i)) \/ RequeueDeadTask(p, t)
           \/ \E t \in Tasks : DeleteDeadTask(t)
           \/ \E w \in Workers : (\E c \in cand[w] : ClaimTask(w, c)) \/ ClaimFails(w)
           \/ \E w \in Workers : Reap(w)
           \/ \E w \in Workers : HandlerReturns(w)
           \/ Tick
           \/ row' = row
<1>1. ASSUME NEW p \in Procs, Consume(p) \/ Stop(p) \/ CloseDone(p) \/ Crash(p) PROVE row' = row
  BY <1>1 DEF Consume, Stop, CloseDone, Crash
<1>2. ASSUME NEW w \in Workers, Begin(w) \/ Wake(w) \/ (\E s \in SUBSET Due : Select(w, s))
      PROVE  row' = row
  BY <1>2 DEF Begin, Wake, Select
<1>3. ASSUME NEW w \in Workers, NEW c \in cand[w], LoseCandidate(w, c) PROVE row' = row
  BY <1>3 DEF LoseCandidate
<1>4. ASSUME NEW w \in Workers, NEW wait, QueryNext(w, wait) PROVE row' = row
  BY <1>4 DEF QueryNext
<1>5. CASE UNCHANGED vars
  BY <1>5 DEF vars
<1> QED BY <1>1, <1>2, <1>3, <1>4, <1>5, NextCases DEF WorkerStep


(* Every row has one of these fates in every step.                         *)
LEMMA Fates ==
    ASSUME IInv, [Next]_vars
    PROVE  \A x \in Tasks : RowFate(x)
<1>0. TypeOK /\ Lifecycle /\ NotAhead
  BY DEF IInv
<1>1. ASSUME row' = row PROVE \A x \in Tasks : RowFate(x)
  BY <1>1 DEF RowFate, Stays
<1>2. ASSUME NEW p \in Procs, NEW t \in Tasks, NEW i \in EnqueueInputs, Enqueue(p, t, i)
      PROVE  \A x \in Tasks : RowFate(x)
  <2>1. PICK r \in Rows : /\ row' = [row EXCEPT ![t] = r]
                          /\ r.status = "pending" /\ r.attempts = 0
    BY <1>0, <1>2, EnqueueRow DEF Inserted
  <2>2. row'[t] = r
    BY <1>0, <2>1, OneRowType
  <2>3. t \notin Remembered /\ row[t].status # "running"
    BY <1>0, <1>2 DEF Enqueue, Fresh, Remembered, Memory, NotAhead
  <2>4. Scheduled(t)
    BY <2>1, <2>2, <2>3 DEF Scheduled
  <2> QED BY <1>0, <2>1, <2>4, OneFate DEF RowFate
<1>3. ASSUME NEW p \in Procs, NEW t \in Tasks, RequeueDeadTask(p, t)
      PROVE  \A x \in Tasks : RowFate(x)
  <2>1. PICK r \in Rows : /\ row' = [row EXCEPT ![t] = r] /\ r.status = "pending"
                          /\ r.attempts = 0 /\ r.life = row[t].life + 1
    BY <1>0, <1>3, RequeueRow DEF Requeued
  <2>2. row'[t] = r /\ row[t].status = "dead"
    BY <1>0, <1>3, <2>1, OneRowType, RequeueRow
  <2>3. Scheduled(t)
    BY <2>1, <2>2 DEF Scheduled
  <2> QED BY <1>0, <2>1, <2>3, OneFate DEF RowFate
<1>4. ASSUME NEW t \in Tasks, DeleteDeadTask(t) PROVE \A x \in Tasks : RowFate(x)
  <2>1. PICK r \in Rows : row' = [row EXCEPT ![t] = r] /\ r.status = "deleted"
    BY <1>0, <1>4, DeleteRow DEF Written
  <2>2. row'[t] = r /\ row[t].status = "dead"
    BY <1>0, <1>4, <2>1, OneRowType, DeleteRow
  <2>3. Dropped(t)
    BY <2>1, <2>2 DEF Dropped
  <2> QED BY <1>0, <2>1, <2>3, OneFate DEF RowFate
<1>5. ASSUME NEW w \in Workers, (\E c \in cand[w] : ClaimTask(w, c)) \/ ClaimFails(w)
      PROVE  \A x \in Tasks : RowFate(x)
  <2>1. CASE row' = row
    BY <1>1, <2>1
  <2>2. ASSUME NEW c \in cand[w], c.task \in Tasks, Taken(w, c.task),
               row[c.task].status = "pending", ClaimTask(w, c) \/ ClaimFails(w)
        PROVE  \A x \in Tasks : RowFate(x)
    <3> DEFINE t == c.task
    <3>1. PICK r \in Rows : /\ row' = [row EXCEPT ![t] = r] /\ r.status = "running"
                            /\ r.attempts = row[t].attempts + 1 /\ r.life = row[t].life
                            /\ r.lease = lease[w]
      BY <2>2 DEF Taken
    <3>2. row'[t] = r
      BY <1>0, <2>2, <3>1, OneRowType
    <3>3. Claimed(t)
      BY <2>2, <3>1, <3>2 DEF Claimed
    <3> QED BY <1>0, <2>2, <3>1, <3>3, OneFate DEF RowFate
  <2> QED BY <1>0, <1>5, <2>1, <2>2, ClaimRowCases
<1>6. ASSUME NEW w \in Workers, Reap(w), NEW x \in Tasks PROVE RowFate(x)
  <2>1. row'[x] = row[x] \/ row'[x] = SweptRow(x)
    BY <1>6, ReapRows
  <2>2. CASE row'[x] = row[x] \/ ~ Expired(x)
    BY <2>1, <2>2 DEF SweptRow, RowFate, Stays
  <2>3. CASE row'[x] = SweptRow(x) /\ Expired(x)
    <3>1. Swept(x)
      BY <1>0, <2>3, ReapedFacts DEF SweptRow, Swept
    <3> QED BY <3>1 DEF RowFate
  <2> QED BY <2>1, <2>2, <2>3
<1>7. ASSUME NEW w \in Workers, HandlerReturns(w) PROVE \A x \in Tasks : RowFate(x)
  <2>t. PICK t \in Tasks : t = job[w].task
    BY <1>0, <1>7, ReturnRow
  <2>1. ASSUME NEW s \in {"dead", "deleted"}, Written(t, s) PROVE \A x \in Tasks : RowFate(x)
    <3>1. PICK r \in Rows : row' = [row EXCEPT ![t] = r] /\ r.status = s
      BY <2>1 DEF Written
    <3>2. row'[t] = r
      BY <1>0, <3>1, OneRowType
    <3>3. Completed(t)
      BY <1>7, <2>t, <3>1, <3>2 DEF Completed
    <3> QED BY <1>0, <3>1, <3>3, OneFate DEF RowFate
  <2>2. ASSUME NEW by, Retried(t, by), Guard(job[w]) PROVE \A x \in Tasks : RowFate(x)
    <3>1. PICK r \in Rows : /\ row' = [row EXCEPT ![t] = r] /\ r.status = "pending"
                            /\ r.attempts = row[t].attempts /\ r.life = row[t].life
      BY <2>2 DEF Retried
    <3>2. row'[t] = r /\ row[t].status = "running"
      BY <1>0, <2>t, <2>2, <3>1, OneRowType DEF Guard
    <3>3. PutBack(t)
      BY <1>7, <2>t, <3>1, <3>2 DEF PutBack
    <3> QED BY <1>0, <3>1, <3>3, OneFate DEF RowFate
  <2> QED BY <1>0, <1>1, <1>7, <2>t, <2>1, <2>2, ReturnRow
<1>8. CASE Tick
  <2>1. \A x \in Tasks : row'[x] = Aged(x)
    BY <1>8 DEF Tick
  <2> QED BY <1>0, <1>8, <2>1, AgedFacts DEF RowFate, Stays
<1> QED BY <1>0, <1>1, <1>2, <1>3, <1>4, <1>5, <1>6, <1>7, <1>8, TableSteps

-----------------------------------------------------------------------------
(* Candidates. *)

(* A candidate was one before, or a first query read it.                   *)
LEMMA CandOrigin ==
    ASSUME TypeOK, [Next]_vars, NEW w \in Workers
    PROVE  \/ cand'[w] \subseteq cand[w]
           \/ \E s \in SUBSET Due :
                /\ row' = row
                /\ cand'[w] = {[task |-> t, attempts |-> row[t].attempts, life |-> row[t].life]
                               : t \in s}
<1>1. ASSUME NEW v \in Workers, NEW c \in cand[v], ClaimTask(v, c) PROVE cand'[w] \subseteq cand[w]
  BY <1>1, ClaimLearns
<1>2. ASSUME NEW v \in Workers, NEW s \in SUBSET Due, Select(v, s)
      PROVE  \/ cand'[w] = cand[w]
             \/ /\ row' = row
                /\ cand'[w] = {[task |-> t, attempts |-> row[t].attempts, life |-> row[t].life]
                               : t \in s}
  <2>1. CASE v = w
    BY <1>2, <2>1 DEF Select, TypeOK
  <2>2. CASE v # w
    BY <1>2, <2>2 DEF Select, TypeOK
  <2> QED BY <2>1, <2>2
<1>3. CASE Oblivious
  BY <1>3 DEF Oblivious
<1>4. CASE UNCHANGED vars
  BY <1>4 DEF vars, workerVars
<1> QED BY <1>1, <1>2, <1>3, <1>4, OtherSteps

(* Candidates stay due until they are claimed.                             *)
LEMMA CandStep ==
    ASSUME IInv, IInv', CandOnce, CandDue, [Next]_vars
    PROVE  CandOnce' /\ CandDue'
<1>0. TypeOK /\ TypeOK' /\ Lifecycle /\ NotAhead
  BY DEF IInv
<1> SUFFICES ASSUME NEW w \in Workers
             PROVE  /\ \A c, d \in cand'[w] : c.task = d.task => c = d
                    /\ \A c \in cand'[w] : StillDue(c)'
  BY DEF CandOnce, CandDue
<1>1. CASE cand'[w] \subseteq cand[w]
  <2>1. \A c, d \in cand'[w] : c.task = d.task => c = d
    BY <1>1 DEF CandOnce
  <2>2. ASSUME NEW c \in cand'[w] PROVE StillDue(c)'
    <3> DEFINE x == c.task
    <3>1. c \in Records /\ c \in Memory(w) /\ StillDue(c)
      BY <1>0, <1>1, NoJobIsNoRecord DEF TypeOK, Memory, CandDue
    <3>2. x \in Tasks /\ x \in Remembered /\ c.attempts \in Nat /\ c.life \in Nat
      BY <3>1 DEF Records, Remembered
    <3>3. /\ c.life <= row[x].life
          /\ c.life = row[x].life => c.attempts <= row[x].attempts
      BY <1>0, <3>1 DEF NotAhead
    <3>4. /\ row[x].life \in Nat /\ row[x].attempts \in Nat /\ row[x].wait \in Nat
          /\ row'[x].life \in Nat /\ row'[x].attempts \in Nat /\ row'[x].wait \in Nat
      BY <1>0, <3>2, RowFacts DEF TypeOK
    <3>5. CASE Stays(x)
      <4>1. row'[x].wait = row[x].wait \/ row'[x].wait = CountDown(row[x].wait)
        <5>1. CASE Tick
          <6>1. row'[x] = Aged(x)
            BY <3>2, <5>1 DEF Tick
          <6> QED BY <1>0, <3>2, <6>1, AgedFacts
        <5> QED BY <3>5, <5>1 DEF Stays
      <4> QED BY <3>1, <3>4, <3>5, <4>1 DEF Stays, StillDue, CountDown
    <3>6. CASE Scheduled(x)
      BY <3>2, <3>3, <3>4, <3>6 DEF Scheduled, StillDue
    <3>7. CASE Dropped(x) \/ Completed(x)
      BY <3>7 DEF Dropped, Completed, StillDue
    <3>8. CASE Claimed(x)
      BY <3>2, <3>3, <3>4, <3>8 DEF Claimed, StillDue
    <3>9. CASE Swept(x) \/ PutBack(x)
      BY <3>1, <3>2, <3>4, <3>9 DEF Swept, Expired, PutBack, StillDue
    <3> QED BY <3>2, <3>5, <3>6, <3>7, <3>8, <3>9, Fates DEF RowFate
  <2> QED BY <2>1, <2>2
<1>2. ASSUME NEW s \in SUBSET Due, row' = row,
             cand'[w] = {[task |-> t, attempts |-> row[t].attempts, life |-> row[t].life] : t \in s}
      PROVE  /\ \A c, d \in cand'[w] : c.task = d.task => c = d
             /\ \A c \in cand'[w] : StillDue(c)'
  <2>1. \A c, d \in cand'[w] : c.task = d.task => c = d
    BY <1>2
  <2>2. \A t \in s : row[t].status = "pending" /\ row[t].wait = 0
    BY DEF Due
  <2>3. ASSUME NEW c \in cand'[w] PROVE StillDue(c)'
    <3>1. c.task \in s
      BY <1>2
    <3> QED BY <1>2, <2>2, <3>1 DEF StillDue
  <2> QED BY <2>1, <2>3
<1> QED BY <1>0, <1>1, <1>2, CandOrigin


-----------------------------------------------------------------------------
(* Leases. *)

(* The counters.                                                           *)
LEMMA CountStep ==
    ASSUME TypeOK, [Next]_vars
    PROVE  /\ crashes' = crashes \/ (crashes' = crashes + 1 /\ crashes < MaxCrashes)
           /\ faults' = faults \/ (faults' = faults + 1 /\ faults < MaxFaults)
<1>1. ASSUME NEW p \in Procs, NEW t \in Tasks,
             (\E i \in EnqueueInputs : Enqueue(p, t, i)) \/ RequeueDeadTask(p, t)
      PROVE  UNCHANGED crashes /\ (faults' = faults \/ (faults' = faults + 1 /\ faults < MaxFaults))
  BY <1>1 DEF Enqueue, RequeueDeadTask, Announce, Fault
<1>2. ASSUME NEW t \in Tasks, DeleteDeadTask(t) PROVE UNCHANGED <<crashes, faults>>
  BY <1>2 DEF DeleteDeadTask, counters
<1>3. ASSUME NEW p \in Procs, Consume(p) \/ Stop(p) \/ CloseDone(p)
      PROVE  UNCHANGED <<crashes, faults>>
  BY <1>3 DEF Consume, Stop, CloseDone, counters
<1>4. ASSUME NEW p \in Procs, Crash(p)
      PROVE  UNCHANGED faults /\ crashes' = crashes + 1 /\ crashes < MaxCrashes
  BY <1>4 DEF Crash
<1>5. ASSUME NEW w \in Workers, WorkerStep(w)
      PROVE  UNCHANGED crashes /\ (faults' = faults \/ (faults' = faults + 1 /\ faults < MaxFaults))
  BY <1>5 DEF WorkerStep, Begin, Select, ClaimTask, LoseCandidate, QueryNext, ClaimFails, GiveUp,
              Reap, Wake, Fault, counters
<1>6. ASSUME NEW w \in Workers, HandlerReturns(w)
      PROVE  UNCHANGED crashes /\ (faults' = faults \/ (faults' = faults + 1 /\ faults < MaxFaults))
  BY <1>6 DEF HandlerReturns, HandlerSucceeds, Bury, Reschedule, CompleteFails, Release, Fault
<1>7. CASE Tick
  BY <1>7 DEF Tick, counters
<1>8. CASE UNCHANGED vars
  BY <1>8 DEF vars, counters
<1> QED BY <1>1, <1>2, <1>3, <1>4, <1>5, <1>6, <1>7, <1>8, NextCases

(* A worker that claims or handles goes on with its record and its lease,  *)
(* which only a tick runs down, or has just begun to, or ended.            *)
GoesOn(w) == /\ pc'[w] = pc[w] /\ job'[w] = job[w]
             /\ lease'[w] = IF Tick THEN RunDown(lease[w]) ELSE lease[w]

Leasing == {"claim", "handle"}

(* How a worker comes to try candidates or to handle a row, and how a      *)
(* handler ends: by returning or with its process.                         *)
LEMMA WorkerFate ==
    ASSUME IInv, [Next]_vars, NEW w \in Workers
    PROVE  /\ pc'[w] = "handle" => \/ pc[w] = "handle" /\ GoesOn(w)
                                   \/ \E c \in cand[w] : ClaimTask(w, c)
           /\ pc'[w] = "claim" => \/ pc[w] = "claim" /\ GoesOn(w)
                                  \/ \E s \in SUBSET Due : Select(w, s)
           /\ pc[w] = "handle" => GoesOn(w) \/ HandlerReturns(w) \/ \E p \in Procs : Crash(p)
<1>0. TypeOK /\ Lifecycle
  BY DEF IInv
<1> DEFINE Fate ==
       /\ pc'[w] = "handle" => \/ pc[w] = "handle" /\ GoesOn(w)
                               \/ \E c \in cand[w] : ClaimTask(w, c)
       /\ pc'[w] = "claim" => \/ pc[w] = "claim" /\ GoesOn(w)
                              \/ \E s \in SUBSET Due : Select(w, s)
       /\ pc[w] = "handle" => GoesOn(w) \/ HandlerReturns(w) \/ \E p \in Procs : Crash(p)
<1>1. ASSUME Tick PROVE Fate
  <2>1. pc' = pc /\ job' = job
    BY <1>1 DEF Tick
  <2>2. pc[w] \in Leasing => lease'[w] = RunDown(lease[w])
    BY <1>1 DEF Tick, Leasing
  <2> QED BY <1>1, <2>1, <2>2 DEF GoesOn, Leasing
<1>2. ASSUME ~ Tick, pc'[w] = pc[w], job'[w] = job[w], lease'[w] = lease[w] PROVE Fate
  BY <1>2 DEF GoesOn
<1>3. ASSUME ~ Tick, pc[w] # "handle", pc'[w] \notin Leasing PROVE Fate
  BY <1>3 DEF Leasing
<1>4. ASSUME ~ Tick, NEW p \in Procs, NEW t \in Tasks,
             (\E i \in EnqueueInputs : Enqueue(p, t, i)) \/ RequeueDeadTask(p, t)
      PROVE  Fate
  BY <1>2, <1>4 DEF Enqueue, RequeueDeadTask
<1>5. ASSUME ~ Tick, NEW t \in Tasks, DeleteDeadTask(t) PROVE Fate
  BY <1>2, <1>5 DEF DeleteDeadTask, workerVars
<1>6. ASSUME ~ Tick, NEW p \in Procs, Consume(p) PROVE Fate
  <2>1. CASE w \in WorkersOf(p)
    <3>1. pc[w] = "off" /\ pc'[w] = "begin"
      BY <1>0, <1>6, <2>1 DEF Consume, Lifecycle, WorkersOf
    <3> QED BY <1>3, <1>6, <3>1 DEF Leasing
  <2>2. CASE w \notin WorkersOf(p)
    BY <1>2, <1>6, <2>2 DEF Consume
  <2> QED BY <2>1, <2>2
<1>7. ASSUME ~ Tick, NEW p \in Procs, Stop(p) \/ CloseDone(p) PROVE Fate
  BY <1>2, <1>7 DEF Stop, CloseDone, workerVars
<1>8. ASSUME ~ Tick, NEW p \in Procs, Crash(p) PROVE Fate
  <2>1. \/ pc'[w] = pc[w] /\ job'[w] = job[w] /\ lease'[w] = lease[w]
        \/ pc'[w] = "off"
    BY <1>8 DEF Crash
  <2> QED BY <1>2, <1>8, <2>1
<1>9. ASSUME ~ Tick, NEW v \in Workers, v # w, WorkerStep(v) \/ HandlerReturns(v) PROVE Fate
  <2>1. pc'[w] = pc[w] /\ job'[w] = job[w] /\ lease'[w] = lease[w]
    BY <1>0, <1>9 DEF WorkerStep, Begin, Select, ClaimTask, LoseCandidate, QueryNext, ClaimFails,
                      GiveUp, Reap, Wake, Go, HandlerReturns, HandlerSucceeds, Bury, Reschedule,
                      CompleteFails, Release, TypeOK
  <2> QED BY <1>2, <1>9, <2>1
<1>10. ASSUME ~ Tick, WorkerStep(w) PROVE Fate
  <2>1. ASSUME Begin(w) \/ Reap(w) \/ Wake(w) \/ ClaimFails(w) PROVE Fate
    <3>1. pc[w] # "handle" /\ pc'[w] \notin Leasing
      BY <1>0, <2>1 DEF Begin, Reap, Wake, ClaimFails, GiveUp, Go, TypeOK, Leasing
    <3> QED BY <1>3, <1>10, <3>1
  <2>2. ASSUME NEW s \in SUBSET Due, Select(w, s) PROVE Fate
    <3>1. pc[w] = "select" /\ pc'[w] = "claim"
      BY <1>0, <2>2 DEF Select, Go, TypeOK
    <3> QED BY <2>2, <3>1
  <2>3. ASSUME NEW c \in cand[w], ClaimTask(w, c) PROVE Fate
    <3>1. pc[w] = "claim" /\ pc'[w] = "handle"
      BY <1>0, <2>3 DEF ClaimTask, Go, TypeOK
    <3> QED BY <2>3, <3>1
  <2>4. ASSUME NEW c \in cand[w], LoseCandidate(w, c) PROVE Fate
    BY <1>2, <1>10, <2>4 DEF LoseCandidate
  <2>5. ASSUME NEW wait, QueryNext(w, wait) PROVE Fate
    <3>1. pc[w] # "handle" /\ pc'[w] \notin Leasing
      BY <1>0, <2>5 DEF QueryNext, GiveUp, Go, TypeOK, Leasing
    <3> QED BY <1>3, <1>10, <3>1
  <2> HIDE DEF Fate
  <2> QED BY <1>10, <2>1, <2>2, <2>3, <2>4, <2>5 DEF WorkerStep
<1>11. ASSUME HandlerReturns(w) PROVE Fate
  <2>1. pc'[w] = "begin"
    BY <1>0, <1>11 DEF HandlerReturns, HandlerSucceeds, Bury, Reschedule, CompleteFails, Release,
                       Go, TypeOK
  <2> QED BY <1>11, <2>1
<1>12. ASSUME ~ Tick, UNCHANGED vars PROVE Fate
  BY <1>2, <1>12 DEF vars, workerVars
<1> HIDE DEF Fate
<1>13. Fate
  BY <1>1, <1>4, <1>5, <1>6, <1>7, <1>8, <1>9, <1>10, <1>11, <1>12, NextCases
<1> QED BY <1>13 DEF Fate

(* Time does not pass beyond the lease of a prompt worker.                 *)
LEMMA LeaseRunsStep ==
    ASSUME IInv, LeaseRuns, [Next]_vars
    PROVE  LeaseRuns'
<1> SUFFICES ASSUME Prompt, NEW w \in Workers, pc'[w] \in {"claim", "handle"}
             PROVE  lease'[w] >= 0
  BY DEF LeaseRuns
<1>0. TypeOK /\ lease[w] \in Int
  BY DEF IInv, TypeOK
<1>1. CASE pc[w] \in {"claim", "handle"} /\ GoesOn(w)
  <2>1. lease[w] >= 0
    BY <1>1 DEF LeaseRuns
  <2>2. CASE Tick
    <3>1. lease[w] > 0
      BY <1>1, <2>2 DEF Tick
    <3> QED BY <1>0, <1>1, <2>2, <3>1 DEF GoesOn, RunDown
  <2> QED BY <1>1, <2>1, <2>2 DEF GoesOn
<1>2. ASSUME NEW c \in cand[w], ClaimTask(w, c) PROVE lease'[w] >= 0
  BY <1>2 DEF ClaimTask, LeaseRuns
<1>3. ASSUME NEW s \in SUBSET Due, Select(w, s) PROVE lease'[w] >= 0
  <2>1. lease'[w] = LeaseDuration
    BY <1>0, <1>3 DEF Select, TypeOK
  <2> QED BY <2>1, BoundAssumption
<1> QED BY <1>1, <1>2, <1>3, WorkerFate

(* The claim of a worker is current when it is made.                       *)
LEMMA ClaimServes ==
    ASSUME IInv, NEW w \in Workers, NEW c \in cand[w], ClaimTask(w, c)
    PROVE  c.task \in Tasks /\ Serves(w, c.task)' /\ job'[w].task = c.task
<1>0. TypeOK
  BY DEF IInv
<1>1. /\ c.task \in Tasks /\ job'[w].task = c.task /\ job'[w].life = row[c.task].life
      /\ job'[w].attempts = row[c.task].attempts + 1
  BY <1>0, ClaimLearns
<1>2. pc'[w] = "handle" /\ lease' = lease
  BY <1>0 DEF ClaimTask, Go, TypeOK
<1> DEFINE t == c.task
<1>3. Taken(w, t)
  BY <1>0, ClaimRow DEF ClaimTask
<1>4. PICK r \in Rows : /\ row' = [row EXCEPT ![t] = r] /\ r.status = "running"
                        /\ r.attempts = row[t].attempts + 1 /\ r.life = row[t].life
                        /\ r.lease = lease[w]
  BY <1>3 DEF Taken
<1>5. row'[t] = r
  BY <1>0, <1>1, <1>4, OneRowType
<1> QED BY <1>1, <1>2, <1>4, <1>5 DEF Serves, Owns


(* While nothing fails, every running row is served.                       *)
LEMMA ServedStep ==
    ASSUME IInv, IInv', LeaseRuns, Served, [Next]_vars
    PROVE  Served'
<1>0. TypeOK /\ TypeOK' /\ Lifecycle /\ AttemptOnce
  BY DEF IInv
<1> SUFFICES ASSUME Calm'
             PROVE  /\ \A t \in Tasks : row'[t].status = "running"
                                          => \E w \in Workers : Serves(w, t)'
                    /\ \A w \in Workers : pc'[w] = "handle" => Serves(w, job[w].task)'
  BY DEF Served
<1>1. Calm /\ crashes' = crashes /\ faults' = faults
  <2>1. crashes \in Nat /\ faults \in Nat
    BY <1>0 DEF TypeOK
  <2> QED BY <1>0, <2>1, CountStep DEF Calm
<1>2. /\ \A t \in Tasks : row[t].status = "running" => \E w \in Workers : Serves(w, t)
      /\ \A w \in Workers : pc[w] = "handle" => Serves(w, job[w].task)
  BY <1>1 DEF Served
<1>3. ASSUME NEW w \in Workers, CompleteFails(w) \/ ClaimFails(w) PROVE FALSE
  BY <1>0, <1>1, <1>3 DEF CompleteFails, ClaimFails, Fault, TypeOK
<1>4. ASSUME NEW p \in Procs, Crash(p) PROVE FALSE
  BY <1>0, <1>1, <1>4 DEF Crash, TypeOK
<1>5. ASSUME NEW w \in Workers, NEW t \in Tasks, Serves(w, t), GoesOn(w), Stays(t)
      PROVE  Serves(w, t)'
  <2>1. row[t].status = "running" /\ lease[w] = row[t].lease /\ pc[w] = "handle" /\ job[w].task = t
    BY <1>5 DEF Serves, Owns
  <2>2. row'[t].lease = IF Tick THEN RunDown(row[t].lease) ELSE row[t].lease
    <3>1. CASE Tick
      <4>1. row'[t] = Aged(t)
        BY <3>1 DEF Tick
      <4> QED BY <1>0, <2>1, <3>1, <4>1, AgedFacts
    <3> QED BY <1>5, <3>1 DEF Stays
  <2>3. lease'[w] = row'[t].lease
    BY <1>5, <2>1, <2>2 DEF GoesOn
  <2>4. Owns(w)'
    BY <1>5, <2>1 DEF Serves, Owns, GoesOn, Stays
  <2> QED BY <1>5, <2>1, <2>3, <2>4 DEF Serves, GoesOn
<1>6. ASSUME NEW t \in Tasks, row'[t].status = "running"
      PROVE  \E w \in Workers : Serves(w, t)'
  <2>1. CASE Claimed(t)
    BY <1>3, <2>1, ClaimServes DEF Claimed
  <2>2. CASE Stays(t)
    <3>1. PICK w \in Workers : Serves(w, t)
      BY <1>2, <1>6, <2>2 DEF Stays
    <3>2. pc[w] = "handle" /\ job[w].task = t /\ Guard(job[w])
      BY <3>1 DEF Serves, Owns, Guard
    <3>3. ~ HandlerReturns(w)
      <4> SUFFICES ASSUME HandlerReturns(w) PROVE FALSE
        OBVIOUS
      <4>1. Written(t, "deleted") \/ Written(t, "dead") \/ Retried(t, ProcOf[w])
        BY <1>0, <1>3, <3>2, ReturnRow
      <4>2. PICK r \in Rows : row' = [row EXCEPT ![t] = r] /\ r.status # "running"
        BY <4>1 DEF Written, Retried
      <4>3. row'[t] = r
        BY <1>0, <4>2, OneRowType
      <4> QED BY <1>6, <4>2, <4>3
    <3>4. GoesOn(w)
      BY <1>4, <3>2, <3>3, WorkerFate
    <3> QED BY <1>5, <2>2, <3>1, <3>4
  <2> QED BY <1>6, <2>1, <2>2, Fates DEF RowFate, Scheduled, Dropped, Swept, Completed, PutBack
<1>7. ASSUME NEW w \in Workers, pc'[w] = "handle" PROVE Serves(w, job[w].task)'
  <2>1. ASSUME NEW c \in cand[w], ClaimTask(w, c) PROVE Serves(w, job[w].task)'
    <3>1. Serves(w, c.task)'
      BY <2>1, ClaimServes
    <3> QED BY <3>1 DEF Serves
  <2>2. CASE pc[w] = "handle" /\ GoesOn(w)
    <3>t. PICK t \in Tasks : t = job[w].task
      BY <1>0, <2>2, Handling
    <3>1. Serves(w, t)
      BY <1>2, <2>2, <3>t
    <3>2. row[t].status = "running" /\ row[t].attempts = job[w].attempts /\ row[t].life = job[w].life
      BY <3>1, <3>t DEF Serves, Owns
    <3>3. ~ Swept(t)
      <4>1. lease[w] >= 0 /\ lease[w] = row[t].lease /\ lease[w] \in Int
        BY <1>0, <1>1, <2>2, <3>1 DEF Calm, LeaseRuns, Serves, TypeOK
      <4> QED BY <4>1 DEF Swept, Expired
    <3>4. ASSUME NEW v \in Workers, HandlerReturns(v), job[v].task = t PROVE FALSE
      <4>1. pc[v] = "handle" /\ pc'[v] = "begin"
        BY <1>0, <3>4 DEF HandlerReturns, HandlerSucceeds, Bury, Reschedule, CompleteFails,
                          Release, Go, TypeOK
      <4>2. /\ job[v] \in Records /\ job[w] \in Records
            /\ job[v].attempts = row[t].attempts /\ job[v].life = row[t].life
        BY <1>0, <1>2, <2>2, <3>4, <4>1, Handling DEF Serves, Owns
      <4>3. job[v] = job[w]
        BY <3>t, <3>2, <3>4, <4>2 DEF Records
      <4>4. v # w /\ job[w] # NoJob
        BY <1>0, <1>7, <2>2, <4>1 DEF Lifecycle
      <4> QED BY <1>0, <4>3, <4>4 DEF AttemptOnce
    <3>5. Stays(t)
      BY <3>2, <3>3, <3>4, Fates DEF RowFate, Scheduled, Dropped, Claimed, Completed, PutBack
    <3>6. Serves(w, t)' /\ job'[w].task = t
      BY <1>5, <2>2, <3>t, <3>1, <3>5 DEF GoesOn
    <3> QED BY <3>6 DEF Serves
  <2> QED BY <1>7, <2>1, <2>2, WorkerFate
<1> QED BY <1>6, <1>7

(* The second half of the invariant, in every deployment.                  *)
LEMMA CandidatesHold == Spec => []CInv
<1>1. Init => CInv
  <2> SUFFICES ASSUME Init PROVE CInv
    OBVIOUS
  <2>1. /\ \A t \in Tasks : row[t].status = "absent" /\ row[t].attempts = 0
        /\ \A w \in Workers : pc[w] = "off" /\ cand[w] = {}
        /\ crashes = 0 /\ faults = 0
    BY DEF Init
  <2>2. Blank /\ CandOnce /\ CandDue
    BY <2>1 DEF Blank, CandOnce, CandDue
  <2>3. LeaseRuns /\ Served
    BY <2>1 DEF LeaseRuns, Served
  <2>4. Bounded
    BY <2>1, BoundAssumption DEF Bounded
  <2> QED BY <2>2, <2>3, <2>4 DEF CInv
<1>2. IInv /\ IInv' /\ CInv /\ [Next]_vars => CInv'
  <2> SUFFICES ASSUME IInv, IInv', CInv, [Next]_vars PROVE CInv'
    OBVIOUS
  <2>1. TypeOK /\ Blank /\ CandOnce /\ CandDue /\ LeaseRuns /\ Served /\ Bounded
    BY DEF IInv, CInv
  <2>2. Blank'
    BY <2>1, Fates
       DEF Blank, RowFate, Stays, Scheduled, Dropped, Claimed, Swept, Completed, PutBack
  <2>3. Bounded'
    <3>1. crashes \in Nat /\ faults \in Nat
      BY <2>1 DEF TypeOK
    <3> QED BY <2>1, <3>1, CountStep, BoundAssumption DEF Bounded
  <2> QED BY <2>1, <2>2, <2>3, CandStep, LeaseRunsStep, ServedStep DEF CInv
<1> QED BY <1>1, <1>2, InvariantHolds, PTL DEF Spec

(* claim's attempts guard: a candidate read in the row's present life is   *)
(* claimed only if it is still due, however many other workers claimed,    *)
(* failed, lost and rescheduled the row between the two statements.        *)
THEOREM NeverEarlyInOneLife == Spec => NotEarlyInOneLife
<1>1. ASSUME IInv, CInv, [Next]_vars, NEW w \in Workers, Starts(w),
             NEW c \in cand[w], c.task = job'[w].task, c.life = job'[w].life
      PROVE  row[c.task].wait = 0
  <2>0. TypeOK /\ CandOnce /\ CandDue
    BY <1>1 DEF IInv, CInv
  <2>1. PICK d \in cand[w] : ClaimTask(w, d)
    BY <1>1, WorkerFate DEF Starts
  <2>2. job'[w].task = d.task /\ job'[w].life = row[d.task].life /\ Claimable(d)
    BY <2>0, <2>1, ClaimLearns DEF ClaimTask
  <2>3. c = d
    BY <1>1, <2>0, <2>2 DEF CandOnce
  <2>4. StillDue(c)
    BY <2>0 DEF CandDue
  <2> QED BY <1>1, <2>2, <2>3, <2>4 DEF StillDue, Claimable
<1>2. IInv /\ CInv /\ [Next]_vars
        => [\A w \in Workers : Starts(w) =>
              \A c \in cand[w] : (c.task = job'[w].task /\ c.life = job'[w].life)
                => row[c.task].wait = 0]_vars
  BY <1>1
<1> QED BY <1>2, InvariantHolds, CandidatesHold, PTL DEF Spec, NotEarlyInOneLife


-----------------------------------------------------------------------------
(* The contract: what it sees of the table. *)

Seen(s) == CASE s = "absent"  -> "none"
             [] s = "deleted" -> "gone"
             [] OTHER         -> s

statusBar   == [t \in Tasks |-> CASE row[t].status = "absent"  -> "none"
                                  [] row[t].status = "deleted" -> "gone"
                                  [] OTHER                     -> row[t].status]
attemptsBar == [t \in Tasks |-> row[t].attempts]
budgetBar   == [t \in Tasks |-> row[t].maxRetries]
Budgeted    == {NewEnqueueOptions(o).maxRetries : o \in EnqueueInputs}
Failing     == ~ Prompt \/ MaxCrashes + MaxFaults > 0

(* One row is written, and nothing else is seen to change.                 *)
Shown(t, r) ==
    /\ statusBar[t] = Seen(row[t].status)
    /\ statusBar' = [statusBar EXCEPT ![t] = Seen(r.status)]
    /\ attemptsBar' = [attemptsBar EXCEPT ![t] = r.attempts]
    /\ budgetBar' = [budgetBar EXCEPT ![t] = r.maxRetries]
    /\ r.attempts = row[t].attempts => attemptsBar' = attemptsBar
    /\ r.maxRetries = row[t].maxRetries => budgetBar' = budgetBar

(* A write to one row, as the contract sees it.                            *)
LEMMA OneMoves ==
    ASSUME TypeOK, NEW t \in Tasks, NEW r \in Rows, row' = [row EXCEPT ![t] = r]
    PROVE  Shown(t, r)
<1>1. row'[t] = r /\ \A x \in Tasks : x # t => row'[x] = row[x]
  BY OneRowType
<1>2. statusBar[t] = Seen(row[t].status)
  BY DEF statusBar, Seen
<1>3. \A x \in Tasks : statusBar'[x] = IF x = t THEN Seen(r.status) ELSE statusBar[x]
  BY <1>1 DEF statusBar, Seen
<1>4. statusBar' = [statusBar EXCEPT ![t] = Seen(r.status)]
  BY <1>3 DEF statusBar
<1>5. attemptsBar' = [attemptsBar EXCEPT ![t] = r.attempts]
  <2>1. \A x \in Tasks : attemptsBar'[x] = IF x = t THEN r.attempts ELSE attemptsBar[x]
    BY <1>1 DEF attemptsBar
  <2> QED BY <2>1 DEF attemptsBar
<1>6. budgetBar' = [budgetBar EXCEPT ![t] = r.maxRetries]
  <2>1. \A x \in Tasks : budgetBar'[x] = IF x = t THEN r.maxRetries ELSE budgetBar[x]
    BY <1>1 DEF budgetBar
  <2> QED BY <2>1 DEF budgetBar
<1>7. r.attempts = row[t].attempts => attemptsBar' = attemptsBar
  BY <1>1 DEF attemptsBar
<1>8. r.maxRetries = row[t].maxRetries => budgetBar' = budgetBar
  BY <1>1 DEF budgetBar
<1> QED BY <1>2, <1>4, <1>5, <1>6, <1>7, <1>8 DEF Shown

(* None is.                                                                *)
LEMMA NoneMoves ==
    ASSUME \A t \in Tasks : /\ row'[t].status = row[t].status
                            /\ row'[t].attempts = row[t].attempts
                            /\ row'[t].maxRetries = row[t].maxRetries
    PROVE  UNCHANGED Contract!vars
<1>1. statusBar' = statusBar /\ attemptsBar' = attemptsBar /\ budgetBar' = budgetBar
  BY DEF statusBar, attemptsBar, budgetBar
<1> QED BY <1>1 DEF Contract!vars, statusBar, attemptsBar, budgetBar

(* Enqueue, RequeueDeadTask and DeleteDeadTask are the contract's.         *)
LEMMA CallerRefines ==
    ASSUME Recycled = {}, IInv, Blank, NEW t \in Tasks,
           \/ \E p \in Procs : (\E i \in EnqueueInputs : Enqueue(p, t, i)) \/ RequeueDeadTask(p, t)
           \/ DeleteDeadTask(t)
    PROVE  Contract!Next
<1>0. TypeOK
  BY DEF IInv
<1>1. ASSUME NEW p \in Procs, NEW i \in EnqueueInputs, Enqueue(p, t, i) PROVE Contract!Next
  <2>1. PICK r \in Rows : /\ row' = [row EXCEPT ![t] = r] /\ r.status = "pending"
                          /\ r.attempts = 0 /\ r.maxRetries = NewEnqueueOptions(i).maxRetries
    BY <1>0, <1>1, EnqueueRow DEF Inserted
  <2>2. row[t].status = "absent" /\ row[t].attempts = 0
    BY <1>1 DEF Enqueue, Fresh, Blank
  <2>3. PICK n \in Budgeted : n = r.maxRetries
    BY <2>1 DEF Budgeted
  <2>m. Shown(t, r)
    BY <1>0, <2>1, OneMoves
  <2>4. /\ statusBar[t] = "none" /\ statusBar' = [statusBar EXCEPT ![t] = "pending"]
        /\ attemptsBar' = attemptsBar
    BY <2>1, <2>2, <2>m DEF Seen, Shown
  <2>6. budgetBar' = [budgetBar EXCEPT ![t] = n]
    BY <2>3, <2>m DEF Shown
  <2>5. Contract!Enqueue(t, n)
    BY <2>4, <2>6 DEF Contract!Enqueue, Contract!Move, statusBar, attemptsBar, budgetBar
  <2> QED BY <2>3, <2>5 DEF Contract!Next, Budgeted
<1>2. ASSUME NEW p \in Procs, RequeueDeadTask(p, t) PROVE Contract!Next
  <2>1. PICK r \in Rows : /\ row' = [row EXCEPT ![t] = r] /\ r.status = "pending"
                          /\ r.attempts = 0 /\ r.maxRetries = row[t].maxRetries
    BY <1>0, <1>2, RequeueRow DEF Requeued
  <2>2. row[t].status = "dead"
    BY <1>2 DEF RequeueDeadTask
  <2>m. Shown(t, r)
    BY <1>0, <2>1, OneMoves
  <2>3. /\ statusBar[t] = "dead" /\ statusBar' = [statusBar EXCEPT ![t] = "pending"]
        /\ budgetBar' = budgetBar
    BY <2>1, <2>2, <2>m DEF Seen, Shown
  <2>5. attemptsBar' = [attemptsBar EXCEPT ![t] = 0]
    BY <2>1, <2>m DEF Shown
  <2>4. Contract!RequeueDeadTask(t)
    BY <2>3, <2>5 DEF Contract!RequeueDeadTask, Contract!Move, statusBar, attemptsBar, budgetBar
  <2> QED BY <2>4 DEF Contract!Next
<1>3. CASE DeleteDeadTask(t)
  <2>1. PICK r \in Rows : /\ row' = [row EXCEPT ![t] = r] /\ r.status = "deleted"
                          /\ r.attempts = row[t].attempts /\ r.maxRetries = row[t].maxRetries
    BY <1>0, <1>3, DeleteRow DEF Written
  <2>2. row[t].status = "dead"
    BY <1>3 DEF DeleteDeadTask
  <2>m. Shown(t, r)
    BY <1>0, <2>1, OneMoves
  <2>3. /\ statusBar[t] = "dead" /\ statusBar' = [statusBar EXCEPT ![t] = "gone"]
        /\ attemptsBar' = attemptsBar /\ budgetBar' = budgetBar
    BY <2>1, <2>2, <2>m DEF Seen, Shown
  <2>4. Contract!DeleteDeadTask(t)
    BY <2>3 DEF Contract!DeleteDeadTask, Contract!Move, statusBar, attemptsBar, budgetBar
  <2> QED BY <2>4 DEF Contract!Next
<1> QED BY <1>1, <1>2, <1>3

(* A claim delivers its task when it takes effect, reported or not.        *)
LEMMA ClaimRefines ==
    ASSUME IInv, NEW w \in Workers, (\E c \in cand[w] : ClaimTask(w, c)) \/ ClaimFails(w)
    PROVE  [Contract!Next]_(Contract!vars)
<1>0. TypeOK
  BY DEF IInv
<1>1. CASE row' = row
  BY <1>1, NoneMoves
<1>2. ASSUME NEW t \in Tasks, Taken(w, t), row[t].status = "pending" PROVE Contract!Next
  <2>1. PICK r \in Rows :
           /\ row' = [row EXCEPT ![t] = r] /\ r.status = "running"
           /\ r.attempts = row[t].attempts + 1 /\ r.maxRetries = row[t].maxRetries
    BY <1>2 DEF Taken
  <2>2. Shown(t, r)
    BY <1>0, <2>1, OneMoves
  <2>3. /\ statusBar[t] = "pending" /\ statusBar' = [statusBar EXCEPT ![t] = "running"]
        /\ budgetBar' = budgetBar
    BY <1>2, <2>1, <2>2 DEF Seen, Shown
  <2>4. attemptsBar' = [attemptsBar EXCEPT ![t] = row[t].attempts + 1]
    BY <2>1, <2>2 DEF Shown
  <2>5. attemptsBar' = [attemptsBar EXCEPT ![t] = @ + 1]
    BY <2>4 DEF attemptsBar
  <2>6. Contract!Deliver(t)
    BY <2>3, <2>5 DEF Contract!Deliver, Contract!Move, statusBar, attemptsBar, budgetBar
  <2> QED BY <2>6 DEF Contract!Next
<1> QED BY <1>0, <1>1, <1>2, ClaimRowCases

(* Without failures, handlers work on current claims and nothing expires.  *)
LEMMA NothingFails ==
    ASSUME IInv, CInv, ~ Failing
    PROVE  /\ \A t \in Tasks : ~ Expired(t)
           /\ \A w \in Workers : pc[w] = "handle" => Owns(w)
<1>0. TypeOK /\ LeaseRuns /\ Served /\ Bounded
  BY DEF IInv, CInv
<1>1. Calm
  <2>1. crashes \in Nat /\ faults \in Nat
    BY <1>0 DEF TypeOK
  <2>2. Prompt
    BY DEF Failing
  <2>3. crashes = 0 /\ faults = 0
    BY <1>0, <2>1, BoundAssumption DEF Failing, Bounded
  <2> QED BY <2>2, <2>3 DEF Calm
<1>2. ASSUME NEW t \in Tasks, Expired(t) PROVE FALSE
  <2>1. PICK w \in Workers : Serves(w, t)
    BY <1>0, <1>1, <1>2 DEF Served, Expired
  <2>2. lease[w] >= 0 /\ lease[w] = row[t].lease /\ lease[w] \in Int
    BY <1>0, <1>1, <2>1 DEF Serves, Calm, LeaseRuns, TypeOK
  <2> QED BY <1>2, <2>2 DEF Expired
<1>3. \A w \in Workers : pc[w] = "handle" => Owns(w)
  BY <1>0, <1>1 DEF Served, Serves
<1> QED BY <1>2, <1>3

(* A sweep abandons the deliveries it takes back.                          *)
LEMMA SweepRefines ==
    ASSUME IInv, CInv, NEW w \in Workers, Reap(w)
    PROVE  [Contract!Next]_(Contract!vars)
<1>0. TypeOK /\ Lifecycle
  BY DEF IInv
<1>1. CASE row' = row
  BY <1>1, NoneMoves
<1>2. CASE \A t \in Tasks : row'[t] = SweptRow(t)
  <2>0. PICK ts \in SUBSET Tasks : \A t \in Tasks : t \in ts <=> Expired(t)
    <3> DEFINE xs == {t \in Tasks : Expired(t)}
    <3>1. xs \in SUBSET Tasks /\ \A t \in Tasks : t \in xs <=> Expired(t)
      OBVIOUS
    <3> QED BY <3>1
  <2>1. CASE Failing
    <3>1. \A t \in Tasks : /\ t \in ts => statusBar[t] = "running"
                           /\ statusBar'[t] = IF t \in ts THEN "pending" ELSE statusBar[t]
                           /\ attemptsBar'[t] = attemptsBar[t] /\ budgetBar'[t] = budgetBar[t]
      <4> SUFFICES ASSUME NEW t \in Tasks
                   PROVE  /\ t \in ts => statusBar[t] = "running"
                          /\ statusBar'[t] = IF t \in ts THEN "pending" ELSE statusBar[t]
                          /\ attemptsBar'[t] = attemptsBar[t] /\ budgetBar'[t] = budgetBar[t]
        OBVIOUS
      <4>1. CASE Expired(t)
        <5>1. /\ row'[t].status = "pending" /\ row'[t].attempts = row[t].attempts
              /\ row'[t].maxRetries = row[t].maxRetries /\ row[t].status = "running"
          <6>1. row'[t] = Reaped(t)
            BY <1>2, <4>1 DEF SweptRow
          <6> QED BY <1>0, <4>1, <6>1, ReapedFacts DEF Expired
        <5> QED BY <2>0, <4>1, <5>1 DEF statusBar, attemptsBar, budgetBar
      <4>2. CASE ~ Expired(t)
        <5>1. row'[t] = row[t]
          BY <1>2, <4>2 DEF SweptRow
        <5> QED BY <2>0, <4>2, <5>1 DEF statusBar, attemptsBar, budgetBar
      <4> QED BY <4>1, <4>2
    <3>2. statusBar' = [t \in Tasks |-> IF t \in ts THEN "pending" ELSE statusBar[t]]
      BY <3>1 DEF statusBar
    <3>3. attemptsBar' = attemptsBar /\ budgetBar' = budgetBar
      BY <3>1 DEF attemptsBar, budgetBar
    <3>4. Contract!Abandon(ts)
      BY <2>1, <3>1, <3>2, <3>3
         DEF Contract!Abandon, Failing, statusBar, attemptsBar, budgetBar
    <3> QED BY <3>4 DEF Contract!Next
  <2>2. CASE ~ Failing
    <3>1. \A t \in Tasks : row'[t] = row[t]
      BY <1>2, <2>2, NothingFails DEF SweptRow
    <3> QED BY <3>1, NoneMoves
  <2> QED BY <2>1, <2>2
<1> QED BY <1>0, <1>1, <1>2, ReapRows

(* A handler returns: its task is acknowledged, in time or late, retried   *)
(* within its budget or, the budget exhausted, dead.                       *)
LEMMA ReturnRefines ==
    ASSUME IInv, CInv, NEW w \in Workers, HandlerReturns(w)
    PROVE  [Contract!Next]_(Contract!vars)
<1>0. TypeOK /\ Lifecycle /\ NotAhead
  BY DEF IInv
<1>w. pc[w] = "handle" /\ job[w].attempts \in Nat
  <2>1. pc[w] = "handle"
    BY <1>0, ReturnRow DEF Release
  <2>2. job[w] \in Records
    BY <1>0, <2>1, Handling
  <2> QED BY <2>1, <2>2 DEF Records
<1>t. PICK t \in Tasks : t = job[w].task
  BY <1>0, ReturnRow
<1>1. row[t].status # "absent" /\ row[t].attempts \in Nat /\ row[t].maxRetries \in Nat
  <2>1. job[w] \in Memory(w)
    BY <1>0, <1>w DEF Lifecycle, Memory
  <2> QED BY <1>0, <1>t, <2>1, RowFacts DEF NotAhead, TypeOK
<1>2. CASE row' = row
  BY <1>2, NoneMoves
<1>3. CASE Written(t, "deleted")
  <2>1. PICK r \in Rows : /\ row' = [row EXCEPT ![t] = r] /\ r.status = "deleted"
                          /\ r.attempts = row[t].attempts /\ r.maxRetries = row[t].maxRetries
    BY <1>3 DEF Written
  <2>2. Shown(t, r)
    BY <1>0, <2>1, OneMoves
  <2>3. statusBar' = [statusBar EXCEPT ![t] = "gone"] /\ attemptsBar' = attemptsBar
        /\ budgetBar' = budgetBar
    BY <2>1, <2>2 DEF Shown, Seen
  <2>4. CASE row[t].status = "running"
    <3>1. statusBar[t] = "running"
      BY <2>2, <2>4 DEF Shown, Seen
    <3>2. Contract!Acknowledge(t)
      BY <2>3, <3>1 DEF Contract!Acknowledge, Contract!Move, statusBar, attemptsBar, budgetBar
    <3> QED BY <3>2 DEF Contract!Next
  <2>5. CASE row[t].status \in {"pending", "dead"}
    <3>1. statusBar[t] \in {"pending", "dead"}
      BY <2>2, <2>5 DEF Shown, Seen
    <3>2. Failing
      BY <1>w, <1>t, <2>5, NothingFails DEF Owns
    <3>3. Contract!AcknowledgeLate(t)
      BY <2>3, <3>1, <3>2
         DEF Contract!AcknowledgeLate, Contract!Move, Failing, statusBar, attemptsBar, budgetBar
    <3> QED BY <3>3 DEF Contract!Next
  <2>6. CASE row[t].status = "deleted"
    <3>1. row'[t] = r /\ \A x \in Tasks : x # t => row'[x] = row[x]
      BY <1>0, <2>1, OneRowType
    <3> QED BY <2>1, <2>6, <3>1, NoneMoves
  <2>7. row[t].status \in {"absent", "pending", "running", "dead", "deleted"}
    BY <1>0, RowFacts DEF TypeOK
  <2> QED BY <1>1, <2>4, <2>5, <2>6, <2>7
<1>4. CASE Bury(w) /\ Guard(job[w]) /\ Written(t, "dead")
  <2>1. PICK r \in Rows : /\ row' = [row EXCEPT ![t] = r] /\ r.status = "dead"
                          /\ r.attempts = row[t].attempts /\ r.maxRetries = row[t].maxRetries
    BY <1>4 DEF Written
  <2>2. Shown(t, r)
    BY <1>0, <2>1, OneMoves
  <2>3. row[t].status = "running" /\ row[t].attempts > row[t].maxRetries
    BY <1>4, <1>t DEF Bury, Guard, Exhausted
  <2>4. /\ statusBar[t] = "running" /\ statusBar' = [statusBar EXCEPT ![t] = "dead"]
        /\ attemptsBar' = attemptsBar /\ budgetBar' = budgetBar
    BY <2>1, <2>2, <2>3 DEF Shown, Seen
  <2>5. attemptsBar[t] > budgetBar[t]
    BY <2>3 DEF attemptsBar, budgetBar
  <2>6. Contract!Die(t)
    BY <2>4, <2>5 DEF Contract!Die, Contract!Move, statusBar, attemptsBar, budgetBar
  <2> QED BY <2>6 DEF Contract!Next
<1>5. ASSUME NEW by, Retried(t, by), Guard(job[w]), ~ Exhausted(job[w])
      PROVE  Contract!Next
  <2>1. PICK r \in Rows : /\ row' = [row EXCEPT ![t] = r] /\ r.status = "pending"
                          /\ r.attempts = row[t].attempts /\ r.maxRetries = row[t].maxRetries
    BY <1>5 DEF Retried
  <2>2. Shown(t, r)
    BY <1>0, <2>1, OneMoves
  <2>3. row[t].status = "running" /\ row[t].attempts <= row[t].maxRetries
    BY <1>1, <1>5, <1>t DEF Guard, Exhausted
  <2>4. /\ statusBar[t] = "running" /\ statusBar' = [statusBar EXCEPT ![t] = "pending"]
        /\ attemptsBar' = attemptsBar /\ budgetBar' = budgetBar
    BY <2>1, <2>2, <2>3 DEF Shown, Seen
  <2>5. attemptsBar[t] <= budgetBar[t]
    BY <2>3 DEF attemptsBar, budgetBar
  <2>6. Contract!Retry(t)
    BY <2>4, <2>5 DEF Contract!Retry, Contract!Move, statusBar, attemptsBar, budgetBar
  <2> QED BY <2>6 DEF Contract!Next
<1> QED BY <1>0, <1>t, <1>2, <1>3, <1>4, <1>5, ReturnRow DEF Reschedule

(* Every step is a step of the contract or invisible to it.                *)
LEMMA ContractStep ==
    ASSUME Recycled = {}, IInv, CInv, [Next]_vars
    PROVE  [Contract!Next]_(Contract!vars)
<1>0. TypeOK /\ Lifecycle /\ Blank
  BY DEF IInv, CInv
<1>1. ASSUME Tick PROVE UNCHANGED Contract!vars
  <2>1. \A x \in Tasks : row'[x] = Aged(x)
    BY <1>1 DEF Tick
  <2>2. \A x \in Tasks : /\ row'[x].status = row[x].status
                         /\ row'[x].attempts = row[x].attempts
                         /\ row'[x].maxRetries = row[x].maxRetries
    BY <1>0, <2>1, AgedFacts
  <2> QED BY <2>2, NoneMoves
<1>2. ASSUME row' = row PROVE UNCHANGED Contract!vars
  BY <1>2, NoneMoves
<1> QED BY <1>0, <1>1, <1>2, TableSteps, CallerRefines, ClaimRefines, SweepRefines, ReturnRefines

(* The database back end implements the contract of workqueue.go for every *)
(* number of processes, workers and tasks: the strict one, no delivery     *)
(* given up, when workers keep their leases, no process crashes and every  *)
(* statement answers; the one with leases otherwise, and then death still  *)
(* comes exactly when a failure exhausts the budget, although the failure  *)
(* guard does not tell the lives of a row apart.  An identifier names one  *)
(* task: none is recycled.                                                 *)
THEOREM ContractImplemented == ASSUME Recycled = {} PROVE Spec => ImplementsContract
<1>1. Init => Contract!Init
  BY DEF Init, Contract!Init
<1>2. IInv /\ CInv /\ [Next]_vars => [Contract!Next]_(Contract!vars)
  BY ContractStep
<1> QED BY <1>1, <1>2, InvariantHolds, CandidatesHold, PTL
        DEF Spec, ImplementsContract, Contract!Spec


-----------------------------------------------------------------------------
(* Wake-ups, until the database first returns an error: a claim that ends  *)
(* with an error makes its worker sleep a whole poll interval.             *)

Pending == {t \in Tasks : row[t].status = "pending"}

(* A tick counts a row's wait down, and nothing else does.                 *)
Passed(m, n) == n = IF Tick THEN CountDown(m) ELSE m

(* A tick counts the timer down, or, before its start, makes it late.      *)
SleptOn(w) == \/ ~ Tick /\ sleep'[w] = sleep[w] /\ late'[w] = late[w]
              \/ Tick /\ sleep'[w] = CountDown(sleep[w]) /\ late'[w] = late[w]
              \/ Tick /\ sleep'[w] = sleep[w] /\ late'[w] = late[w] + 1

(* A sleep that ends in time, but for what the reap takes, still does      *)
(* after time has passed for both the sleep and the row.                   *)
LEMMA UpStep ==
    ASSUME NEW w, sleep[w] \in Nat, late[w] \in Nat, NEW x \in Nat, NEW y \in Nat,
           SleptOn(w), Passed(x, y), sleep[w] <= Larger(x, 1) + late[w]
    PROVE  sleep'[w] <= Larger(y, 1) + late'[w]
BY DEF SleptOn, Passed, CountDown, Larger

(* The second query of a claim finds the row that is due first.            *)
LEMMA WaitFound ==
    ASSUME TypeOK, NEW wait, NextWait(wait), NEW t \in Pending
    PROVE  wait <= Larger(row[t].wait, 1)
<1> DEFINE waits == {row[y].wait : y \in {x \in Tasks : row[x].status = "pending"}}
<1>1. row[t].wait \in waits /\ waits \subseteq Nat
  BY RowFacts DEF Pending, TypeOK
<1>2. PICK m \in waits : /\ \A n \in waits : m <= n
                         /\ wait = IF m < PollInterval THEN Larger(m, 1) ELSE PollInterval
  BY <1>1 DEF NextWait
<1>3. m \in Nat /\ row[t].wait \in Nat /\ m <= row[t].wait
  BY <1>1, <1>2
<1> HIDE DEF waits
<1> QED BY <1>2, <1>3, BoundAssumption DEF Larger

(* A worker that dozes has just queried the table, or dozed before.        *)
LEMMA DozeStep ==
    ASSUME IInv, [Next]_vars, faults' = faults, NEW w \in Workers, Dozes(w)'
    PROVE  \/ \E wait \in 1 .. PollInterval : QueryNext(w, wait)
           \/ Dozes(w) /\ SleptOn(w)
<1>0. TypeOK
  BY DEF IInv
<1>1. pc'[w] \in {"reap", "wait"} /\ ~ woken'[w]
  BY DEF Dozes
<1> DEFINE Goal == \/ \E wait \in 1 .. PollInterval : QueryNext(w, wait)
                   \/ Dozes(w) /\ SleptOn(w)
<1>2. ASSUME Tick PROVE Goal
  <2>1. /\ pc' = pc /\ woken' = woken
        /\ sleep'[w] = IF pc[w] = "wait" THEN CountDown(sleep[w]) ELSE sleep[w]
        /\ late'[w] = IF pc[w] = "reap" THEN late[w] + 1 ELSE late[w]
    BY <1>2 DEF Tick
  <2> QED BY <1>1, <1>2, <2>1 DEF Dozes, SleptOn
<1>3. ASSUME ~ Tick, pc[w] \in {"reap", "wait"}, ~ woken[w], sleep'[w] = sleep[w],
             late'[w] = late[w]
      PROVE  Goal
  BY <1>3 DEF Dozes, SleptOn
<1> HIDE DEF Goal
<1>4. ASSUME NEW p \in Procs, BroadcastLocal(p) PROVE ~ woken[w]
  BY <1>1, <1>4 DEF BroadcastLocal
<1>5. ASSUME ~ Tick, NEW p \in Procs, NEW t \in Tasks,
             (\E i \in EnqueueInputs : Enqueue(p, t, i)) \/ RequeueDeadTask(p, t)
      PROVE  Goal
  BY <1>1, <1>3, <1>4, <1>5 DEF Enqueue, RequeueDeadTask, Announce
<1>6. ASSUME ~ Tick, NEW t \in Tasks, DeleteDeadTask(t) PROVE Goal
  BY <1>1, <1>3, <1>6 DEF DeleteDeadTask, workerVars
<1>7. ASSUME ~ Tick, NEW p \in Procs, Consume(p) \/ Stop(p) \/ CloseDone(p) PROVE Goal
  BY <1>0, <1>1, <1>3, <1>7 DEF Consume, Stop, CloseDone, workerVars
<1>8. ASSUME ~ Tick, NEW p \in Procs, Crash(p) PROVE Goal
  <2>1. w \notin WorkersOf(p)
    BY <1>1, <1>8 DEF Crash
  <2>2. pc'[w] = pc[w] /\ woken'[w] = woken[w] /\ sleep'[w] = sleep[w] /\ late'[w] = late[w]
    BY <1>8, <2>1 DEF Crash
  <2> QED BY <1>1, <1>3, <1>8, <2>2
<1>9. ASSUME ~ Tick, NEW v \in Workers, WorkerStep(v) PROVE Goal
  <2>1. CASE Begin(v) \/ Wake(v)
    BY <1>0, <1>1, <1>3, <1>9, <2>1 DEF Begin, Wake, Go, TypeOK
  <2>2. ASSUME NEW s \in SUBSET Due, Select(v, s) PROVE Goal
    BY <1>0, <1>1, <1>3, <1>9, <2>2 DEF Select, Go, TypeOK
  <2>3. ASSUME NEW c \in cand[v], ClaimTask(v, c) \/ LoseCandidate(v, c) PROVE Goal
    BY <1>0, <1>1, <1>3, <1>9, <2>3 DEF ClaimTask, LoseCandidate, Go, TypeOK
  <2>4. ASSUME NEW wait \in 1 .. PollInterval, QueryNext(v, wait) PROVE Goal
    <3>1. CASE v = w
      BY <2>4, <3>1 DEF Goal
    <3>2. CASE v # w
      BY <1>0, <1>1, <1>3, <1>9, <2>4, <3>2 DEF QueryNext, GiveUp, Go, TypeOK
    <3> QED BY <3>1, <3>2
  <2>5. CASE ClaimFails(v)
    BY <1>0, <2>5 DEF ClaimFails, Fault, TypeOK
  <2>6. CASE Reap(v)
    BY <1>0, <1>1, <1>3, <1>9, <2>6 DEF Reap, Go, TypeOK
  <2> QED BY <1>9, <2>1, <2>2, <2>3, <2>4, <2>5, <2>6 DEF WorkerStep
<1>10. ASSUME ~ Tick, NEW v \in Workers, HandlerReturns(v) PROVE Goal
  <2>1. Release(v)
    BY <1>10 DEF HandlerReturns, HandlerSucceeds, Bury, Reschedule, CompleteFails
  <2>2. pc[w] \in {"reap", "wait"} /\ sleep' = sleep /\ late' = late
    BY <1>0, <1>1, <2>1 DEF Release, Go, TypeOK
  <2>3. woken' = woken \/ BroadcastLocal(ProcOf[v])
    BY <1>10 DEF HandlerReturns, HandlerSucceeds, Bury, Reschedule, CompleteFails
  <2>4. ProcOf[v] \in Procs
    BY DeploymentAssumption
  <2> QED BY <1>1, <1>3, <1>4, <1>10, <2>2, <2>3, <2>4
<1>11. ASSUME ~ Tick, UNCHANGED vars PROVE Goal
  BY <1>1, <1>3, <1>11 DEF vars, workerVars
<1>12. Goal
  BY <1>2, <1>5, <1>6, <1>7, <1>8, <1>9, <1>10, <1>11, NextCases
<1> QED BY <1>12 DEF Goal

(* A pending row was pending before, or whoever scheduled it has told the  *)
(* workers of his process.                                                 *)
ToldHere(t) == \/ t \in Pending /\ row'[t].by = row[t].by /\ Passed(row[t].wait, row'[t].wait)
               \/ row'[t].by = NoProc
               \/ BroadcastLocal(row'[t].by)

(* A write to one row announces that row only.                             *)
LEMMA OneTold ==
    ASSUME TypeOK, ~ Tick, NEW t \in Tasks, NEW r \in Rows, row' = [row EXCEPT ![t] = r],
           r.status = "pending" => ToldHere(t)
    PROVE  \A x \in Pending' : ToldHere(x)
<1>1. row'[t] = r /\ \A x \in Tasks : x # t => row'[x] = row[x]
  BY OneRowType
<1> QED BY <1>1 DEF Pending, ToldHere, Passed

(* While the database answers, a row becomes pending, or due sooner, only  *)
(* together with a broadcast to the workers of the process it is marked    *)
(* with.                                                                   *)
LEMMA PendingStep ==
    ASSUME IInv, [Next]_vars, faults' = faults
    PROVE  \A x \in Pending' : ToldHere(x)
<1>0. TypeOK /\ Lifecycle
  BY DEF IInv
<1> DEFINE Goal == \A x \in Pending' : ToldHere(x)
<1>1. ASSUME ~ Tick, row' = row PROVE Goal
  BY <1>1 DEF Pending, ToldHere, Passed
<1>2. ASSUME Tick PROVE Goal
  <2> SUFFICES ASSUME NEW x \in Pending' PROVE ToldHere(x)
    OBVIOUS
  <2>1. x \in Tasks /\ row'[x].status = "pending" /\ row'[x] = Aged(x)
    BY <1>2 DEF Tick, Pending
  <2>2. /\ row[x].status = "pending" /\ row'[x].by = row[x].by
        /\ row'[x].wait = CountDown(row[x].wait)
    BY <1>0, <2>1, AgedFacts
  <2> QED BY <1>2, <2>1, <2>2 DEF Pending, ToldHere, Passed
<1> HIDE DEF Goal
<1>3. ASSUME ~ Tick, NEW p \in Procs, NEW t \in Tasks,
             (\E i \in EnqueueInputs : Enqueue(p, t, i)) \/ RequeueDeadTask(p, t)
      PROVE  Goal
  <2>1. PICK r \in Rows : row' = [row EXCEPT ![t] = r]
    BY <1>0, <1>3, EnqueueRow, RequeueRow DEF Inserted, Requeued
  <2>2. Announce(p, t)
    BY <1>3 DEF Enqueue, RequeueDeadTask
  <2>3. ToldHere(t)
    BY <2>2 DEF Announce, ToldHere
  <2> QED BY <1>0, <1>3, <2>1, <2>3, OneTold DEF Goal
<1>4. ASSUME ~ Tick, NEW t \in Tasks, NEW s \in {"dead", "deleted"}, Written(t, s) PROVE Goal
  <2>1. PICK r \in Rows : row' = [row EXCEPT ![t] = r] /\ r.status = s
    BY <1>4 DEF Written
  <2> QED BY <1>0, <1>4, <2>1, OneTold DEF Goal
<1>5. ASSUME ~ Tick, NEW w \in Workers, (\E c \in cand[w] : ClaimTask(w, c)) \/ ClaimFails(w)
      PROVE  Goal
  <2>1. ASSUME NEW t \in Tasks, Taken(w, t) PROVE Goal
    <3>1. PICK r \in Rows : row' = [row EXCEPT ![t] = r] /\ r.status = "running"
      BY <2>1 DEF Taken
    <3> QED BY <1>0, <1>5, <3>1, OneTold DEF Goal
  <2> QED BY <1>0, <1>1, <1>5, <2>1, ClaimRowCases
<1>6. ASSUME ~ Tick, NEW w \in Workers, Reap(w) PROVE Goal
  <2> SUFFICES ASSUME NEW x \in Pending' PROVE ToldHere(x)
    BY DEF Goal
  <2>1. x \in Tasks /\ row'[x].status = "pending" /\ (row'[x] = row[x] \/ row'[x] = SweptRow(x))
    BY <1>6, ReapRows DEF Pending
  <2>2. CASE row'[x] = row[x] \/ ~ Expired(x)
    BY <1>6, <2>1, <2>2 DEF SweptRow, Pending, ToldHere, Passed
  <2>3. CASE row'[x] = SweptRow(x) /\ Expired(x)
    <3>1. row'[x].by = NoProc
      BY <1>0, <2>1, <2>3, ReapedFacts DEF SweptRow
    <3> QED BY <3>1 DEF ToldHere
  <2> QED BY <2>1, <2>2, <2>3
<1>7. ASSUME ~ Tick, NEW w \in Workers, HandlerReturns(w) PROVE Goal
  <2>t. PICK t \in Tasks : t = job[w].task
    BY <1>0, <1>7, ReturnRow
  <2>1. CASE Reschedule(w) /\ Retried(t, ProcOf[w])
    <3>1. PICK r \in Rows : row' = [row EXCEPT ![t] = r] /\ r.by = ProcOf[w]
      BY <2>1 DEF Retried
    <3>2. row'[t] = r
      BY <1>0, <3>1, OneRowType
    <3>3. BroadcastLocal(ProcOf[w])
      BY <2>1 DEF Reschedule
    <3>4. ToldHere(t)
      BY <3>1, <3>2, <3>3 DEF ToldHere
    <3> QED BY <1>0, <1>7, <3>1, <3>4, OneTold DEF Goal
  <2>2. ~ CompleteFails(w)
    BY <1>0 DEF CompleteFails, Fault, TypeOK
  <2> QED BY <1>0, <1>1, <1>4, <1>7, <2>t, <2>1, <2>2, ReturnRow
<1>8. Goal
  BY <1>0, <1>1, <1>2, <1>3, <1>4, <1>5, <1>6, <1>7, DeleteRow, TableSteps
<1> QED BY <1>8 DEF Goal

(* Workers are up for the rows of their own process.                       *)
LEMMA LocalWakeStep ==
    ASSUME IInv, IInv', LocalWake, [Next]_vars, faults' = faults
    PROVE  LocalWake'
<1> SUFFICES ASSUME NEW w \in Workers, NEW t \in Pending', Dozes(w)', row'[t].by = ProcOf[w]
             PROVE  sleep'[w] <= Larger(row'[t].wait, 1) + late'[w]
  BY DEF LocalWake, Pending, Dozes
<1>0. TypeOK /\ TypeOK' /\ t \in Tasks /\ ProcOf[w] \in Procs /\ ProcOf[w] # NoProc
  BY DeploymentAssumption DEF IInv, Pending
<1>1. /\ row[t].wait \in Nat /\ row'[t].wait \in Nat
      /\ sleep[w] \in Nat /\ sleep'[w] \in Nat /\ late[w] \in Nat
  BY <1>0, RowFacts DEF TypeOK
<1>2. ASSUME NEW wait, QueryNext(w, wait)
      PROVE  sleep'[w] <= Larger(row'[t].wait, 1) + late'[w]
  <2>1. row' = row /\ sleep'[w] = wait /\ late'[w] = 0 /\ NextWait(wait) /\ t \in Pending
    BY <1>0, <1>2 DEF QueryNext, GiveUp, TypeOK, Pending
  <2>2. wait <= Larger(row[t].wait, 1)
    BY <1>0, <2>1, WaitFound
  <2>3. sleep'[w] <= Larger(row'[t].wait, 1)
    BY <2>1, <2>2
  <2> QED BY <1>1, <2>1, <2>3 DEF Larger
<1>3. CASE Dozes(w) /\ SleptOn(w)
  <2>1. ~ BroadcastLocal(ProcOf[w])
    BY <1>3 DEF BroadcastLocal, Dozes
  <2>2. t \in Pending /\ row[t].by = ProcOf[w] /\ Passed(row[t].wait, row'[t].wait)
    BY <1>0, <2>1, PendingStep DEF ToldHere
  <2>3. sleep[w] <= Larger(row[t].wait, 1) + late[w]
    BY <1>0, <1>3, <2>2 DEF LocalWake, Dozes, Pending
  <2> QED BY <1>1, <1>3, <2>2, <2>3, UpStep
<1> QED BY <1>2, <1>3, DozeStep

(* Until the database first returns an error, a worker is up for every row *)
(* its own process scheduled, later only by what the reap before its sleep *)
(* took, however long that is: the channel is captured before the queries, *)
(* so that a row enqueued or rescheduled between the last query and the    *)
(* sleep ends the sleep at once.                                           *)
THEOREM LocalWakeups == Spec => [](faults = 0 => LocalWake)
<1>1. Init => (faults = 0 => LocalWake)
  BY DEF Init, LocalWake
<1>2. IInv /\ IInv' /\ (faults = 0 => LocalWake) /\ [Next]_vars => (faults = 0 => LocalWake)'
  <2> SUFFICES ASSUME IInv, IInv', faults = 0 => LocalWake, [Next]_vars, faults' = 0
               PROVE  LocalWake'
    OBVIOUS
  <2>1. TypeOK /\ faults \in Nat
    BY DEF IInv, TypeOK
  <2>2. faults' = faults /\ faults = 0
    BY <2>1, CountStep
  <2> QED BY <2>2, LocalWakeStep
<1> QED BY <1>1, <1>2, InvariantHolds, PTL DEF Spec
=============================================================================
