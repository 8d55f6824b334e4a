------------------------ MODULE PostgresContractProofs ------------------------
(***************************************************************************)
(* What the PostgreSQL back end promises its callers, for every deployment *)
(* and every number of failures: deliveries beyond the budget are paid for *)
(* by failures, and the table implements the contract of workqueue.go, the *)
(* strict one when nothing fails and the one with leases otherwise.        *)
(***************************************************************************)
EXTENDS PostgresWorkQueueProofs

(* The failures so far: leases lapsed, processes crashed, statements that  *)
(* returned errors.                                                        *)
Payments == lapses + crashes + faults

(* A handler works on the row's current claim, and its lease runs.         *)
Serves(w, t) == pc[w] = "handle" /\ job[w].task = t /\ Owns(w) /\ lease[w] >= 0

(* A claim that no such handler works on: its row will be swept.           *)
Abandoned(t) == row[t].status = "running" /\ \A w \in Workers : ~ Serves(w, t)

(* A row that was not inserted yet has no attempts.                        *)
Blank == \A t \in Tasks : row[t].status = "absent" => row[t].attempts = 0

(* The handler of a row's current claim knows the lease in the row.        *)
LeaseShared ==
    \A w \in Workers : pc[w] = "handle" /\ Owns(w) => lease[w] = row[job[w].task].lease

(* While no lease has lapsed, the leases of claims and handlers run.       *)
LeaseKept == lapses = 0 => \A w \in Leasing : lease[w] >= 0

(* Attempts beyond the budget are paid for, and abandoned claims ahead of  *)
(* the sweep that hands them out again.                                    *)
PaidFor(t) ==
    LET r == row[t] IN
    /\ r.status = "pending" => r.attempts <= r.maxRetries + Payments
    /\ r.status = "running" => r.attempts <= r.maxRetries + 1 + Payments
    /\ Abandoned(t) => r.attempts <= r.maxRetries + Payments

Paid == \A t \in Tasks : PaidFor(t)

(* So is a claim whose lease lapses before it commits.                     *)
LatePaid ==
    \A w \in Workers : pc[w] = "commit" /\ lease[w] < 0 =>
        job[w].attempts <= row[job[w].task].maxRetries + Payments

(* While nothing has failed, running rows are served, and handlers work on *)
(* current claims.                                                         *)
Served == Payments = 0 => /\ \A t \in Tasks : ~ Abandoned(t)
                          /\ \A w \in Workers : pc[w] = "handle" => Owns(w)

(* The counters respect their bounds.                                      *)
Bounded == lapses <= MaxLapses /\ crashes <= MaxCrashes /\ faults <= MaxFaults

BInv == Blank /\ LeaseShared /\ LeaseKept /\ Paid /\ LatePaid /\ Served /\ Bounded /\ BudgetPaid

-----------------------------------------------------------------------------
(* Counting failures. *)

(* A step counts a crash, an error, some lapses, or nothing.               *)
LEMMA CountStep ==
    ASSUME TypeOK, Lifecycle, [Next]_vars
    PROVE  /\ crashes' = crashes \/ (crashes' = crashes + 1 /\ crashes < MaxCrashes)
           /\ faults' = faults \/ (faults' = faults + 1 /\ faults < MaxFaults)
           /\ lapses' = lapses \/ (lapses' \in Nat /\ lapses' > lapses /\ lapses' <= MaxLapses)
<1>1. ASSUME NEW p \in Procs, NEW t \in Tasks,
             (\E i \in EnqueueInputs : Enqueue(p, t, i)) \/ RequeueDeadTask(p, t)
      PROVE  /\ UNCHANGED <<crashes, lapses>>
             /\ faults' = faults \/ (faults' = faults + 1 /\ faults < MaxFaults)
  BY <1>1 DEF Enqueue, RequeueDeadTask, Announce, Fault
<1>2. ASSUME NEW t \in Tasks, DeleteDeadTask(t) PROVE UNCHANGED <<crashes, faults, lapses>>
  BY <1>2 DEF DeleteDeadTask, counters
<1>3. ASSUME NEW p \in Procs, Crash(p)
      PROVE  UNCHANGED <<faults, lapses>> /\ crashes' = crashes + 1 /\ crashes < MaxCrashes
  BY <1>3 DEF Crash
<1>4. ASSUME NEW w \in Workers, (\E t \in Tasks : LockRow(w, t)) \/ CommitClaim(w)
      PROVE  UNCHANGED <<crashes, faults, lapses>>
  BY <1>4 DEF LockRow, CommitClaim, counters
<1>5. ASSUME NEW w \in Workers,
             ClaimFails(w) \/ Reap(w) \/ NotifyReaped(w) \/ HandlerReturns(w)
      PROVE  /\ UNCHANGED <<crashes, lapses>>
             /\ faults' = faults \/ (faults' = faults + 1 /\ faults < MaxFaults)
  BY <1>5 DEF ClaimFails, GiveUp, Reap, NotifyReaped, HandlerReturns, HandlerSucceeds, Bury,
              Reschedule, CompleteFails, Release, Fault
<1>6. CASE Tick
  <2>1. UNCHANGED <<crashes, faults>>
    BY <1>6 DEF Tick
  <2>2. lapses' = lapses \/ (lapses' \in Nat /\ lapses' > lapses /\ lapses' <= MaxLapses)
    BY <1>6, LapseCount DEF Tick, TypeOK
  <2> QED BY <2>1, <2>2
<1>7. CASE Quiet
  BY <1>7 DEF Quiet
<1> QED BY <1>1, <1>2, <1>3, <1>4, <1>5, <1>6, <1>7, StepCases

(* Hence what was paid stays paid.                                         *)
LEMMA PaymentsGrow ==
    ASSUME TypeOK, Lifecycle, [Next]_vars
    PROVE  /\ Payments \in Nat /\ Payments' \in Nat /\ Payments' >= Payments
           /\ <<crashes, faults, lapses>>' # <<crashes, faults, lapses>>
                => Payments' >= Payments + 1
<1>0. lapses \in Nat /\ crashes \in Nat /\ faults \in Nat
  BY DEF TypeOK
<1> QED BY <1>0, CountStep DEF Payments

(* Bounds are respected: each counter is checked before it is increased.   *)
LEMMA BoundedStep ==
    ASSUME TypeOK, Lifecycle, Bounded, [Next]_vars
    PROVE  Bounded'
<1>0. lapses \in Nat /\ crashes \in Nat /\ faults \in Nat
  BY DEF TypeOK
<1> QED BY <1>0, CountStep, BoundAssumption DEF Bounded

-----------------------------------------------------------------------------
(* Rows keep their budget once they are inserted, and nothing changes a    *)
(* row that stays absent.                                                  *)
Lasting(x) ==
    /\ row[x].status # "absent"
         => row'[x].status # "absent" /\ row'[x].maxRetries = row[x].maxRetries
    /\ row'[x].status = "absent"
         => row[x].status = "absent" /\ row'[x].attempts = row[x].attempts

(* A write to one row that neither unmakes a task nor changes its budget.  *)
LEMMA LastingRow ==
    ASSUME TypeOK, NEW t \in Tasks, NEW r \in Rows, row' = [row EXCEPT ![t] = r],
           r.status # "absent",
           row[t].status # "absent" => r.maxRetries = row[t].maxRetries
    PROVE  \A x \in Tasks : Lasting(x)
<1>1. row'[t] = r /\ \A x \in Tasks : x # t => row'[x] = row[x]
  BY OneRowType
<1> QED BY <1>1 DEF Lasting

(* No statement unmakes a task or changes its budget once it was inserted. *)
LEMMA LastingStep ==
    ASSUME IInv, [Next]_vars
    PROVE  \A x \in Tasks : Lasting(x)
<1>0. TypeOK /\ Lifecycle /\ Claims
  BY DEF IInv
<1>1. ASSUME row' = row PROVE \A x \in Tasks : Lasting(x)
  BY <1>1 DEF Lasting
<1>2. ASSUME NEW p \in Procs, NEW t \in Tasks, NEW i \in EnqueueInputs, Enqueue(p, t, i)
      PROVE  \A x \in Tasks : Lasting(x)
  <2>1. PICK r \in Rows : row' = [row EXCEPT ![t] = r] /\ r.status = "pending"
    BY <1>0, <1>2, EnqueueColumns
  <2> QED BY <1>0, <1>2, <2>1, LastingRow DEF Enqueue
<1>3. ASSUME NEW p \in Procs, NEW t \in Tasks, RequeueDeadTask(p, t)
      PROVE  \A x \in Tasks : Lasting(x)
  <2>1. PICK r \in Rows : /\ row' = [row EXCEPT ![t] = r] /\ r.status = "pending"
                          /\ r.maxRetries = row[t].maxRetries
    BY <1>0, <1>3, RequeueColumns
  <2> QED BY <1>0, <2>1, LastingRow
<1>4. ASSUME NEW t \in Tasks, DeleteDeadTask(t) PROVE \A x \in Tasks : Lasting(x)
  <2>1. PICK r \in Rows : /\ row' = [row EXCEPT ![t] = r] /\ r.status = "deleted"
                          /\ r.maxRetries = row[t].maxRetries
    BY <1>0, <1>4, DeleteRow DEF MkRow
  <2> QED BY <1>0, <2>1, LastingRow
<1>5. ASSUME NEW w \in Workers, CommitClaim(w) \/ ClaimFails(w)
      PROVE  \A x \in Tasks : Lasting(x)
  <2>1. CASE row' = row
    BY <1>1, <2>1
  <2>2. CASE Taken(w)
    <3>1. PICK t \in Tasks, r \in Rows : /\ row' = [row EXCEPT ![t] = r] /\ r.status = "running"
                                         /\ r.maxRetries = row[t].maxRetries
      BY <2>2 DEF Taken, MkRow
    <3> QED BY <1>0, <3>1, LastingRow
  <2> QED BY <1>0, <1>5, <2>1, <2>2, CommitRow
<1>6. ASSUME NEW w \in Workers, Reap(w) PROVE \A x \in Tasks : Lasting(x)
  <2> SUFFICES ASSUME NEW x \in Tasks PROVE Lasting(x)
    OBVIOUS
  <2>1. row'[x] = row[x] \/ row'[x] = SweptRow(x)
    BY <1>0, <1>6, ReapRows
  <2>2. CASE Expired(x)
    BY <2>1, <2>2 DEF SweptRow, Expired, MkRow, Lasting
  <2>3. CASE ~ Expired(x)
    BY <2>1, <2>3 DEF SweptRow, Lasting
  <2> QED BY <2>2, <2>3
<1>7. ASSUME NEW w \in Workers, NotifyReaped(w) PROVE \A x \in Tasks : Lasting(x)
  BY <1>0, <1>7, NotifyRows DEF Lasting
<1>8. ASSUME NEW w \in Workers, HandlerReturns(w) PROVE \A x \in Tasks : Lasting(x)
  <2> DEFINE t == job[w].task
  <2>1. t \in Tasks
    BY <1>0, <1>8, ReturnRow
  <2>2. ASSUME NEW s \in {"dead", "deleted"}, Moved(t, s) PROVE \A x \in Tasks : Lasting(x)
    <3>1. PICK r \in Rows : /\ row' = [row EXCEPT ![t] = r] /\ r.status = s
                            /\ r.maxRetries = row[t].maxRetries
      BY <2>2 DEF Moved, MkRow
    <3> QED BY <1>0, <2>1, <3>1, LastingRow
  <2>3. ASSUME NEW by, Retried(t, by) PROVE \A x \in Tasks : Lasting(x)
    <3>1. PICK r \in Rows : /\ row' = [row EXCEPT ![t] = r] /\ r.status = "pending"
                            /\ r.maxRetries = row[t].maxRetries
      BY <2>3 DEF Retried, MkRow
    <3> QED BY <1>0, <2>1, <3>1, LastingRow
  <2> QED BY <1>0, <1>1, <1>8, <2>2, <2>3, ReturnRow
<1>9. CASE Tick
  <2>1. \A x \in Tasks : row'[x] = Aged(x)
    BY <1>9 DEF Tick
  <2> QED BY <1>0, <2>1, AgedFacts DEF MkRow, Lasting
<1>10. ASSUME NEW p \in Procs, Crash(p) PROVE row' = row
  BY <1>10 DEF Crash
<1>11. ASSUME NEW w \in Workers, NEW t \in Tasks, LockRow(w, t) PROVE row' = row
  BY <1>11 DEF LockRow
<1>12. CASE Quiet
  BY <1>1, <1>12 DEF Quiet
<1> QED BY <1>0, <1>1, <1>2, <1>3, <1>4, <1>5, <1>6, <1>7, <1>8, <1>9, <1>10, <1>11, <1>12, StepCases

-----------------------------------------------------------------------------
(* What can become of a row in one step, and of a worker. *)

Stays(x) == /\ row'[x].status = row[x].status /\ row'[x].attempts = row[x].attempts
            /\ row'[x].life = row[x].life
            /\ row'[x].lease = row[x].lease \/ Tick

Scheduled(x) == /\ row[x].status \in {"absent", "dead"}
                /\ row'[x].status = "pending" /\ row'[x].attempts = 0

Dropped(x) == row[x].status = "dead" /\ row'[x].status = "deleted"

Claimed(x) == \E v \in Workers : /\ job[v].task = x /\ pc[v] = "commit" /\ Taken(v)
                                 /\ CommitClaim(v) \/ ClaimFails(v)

Swept(x) == /\ Expired(x)
            /\ row'[x].status = "pending" /\ row'[x].attempts = row[x].attempts

Completed(x) == \E v \in Workers : /\ HandlerReturns(v) /\ job[v].task = x
                                   /\ row'[x].status \in {"deleted", "dead"}

PutBack(x) == \E v \in Workers :
                  /\ HandlerReturns(v) /\ job[v].task = x
                  /\ row[x].status = "running" /\ row'[x].status = "pending"
                  /\ row'[x].attempts = row[x].attempts
                  /\ row[x].attempts <= row[x].maxRetries

RowFate(x) == \/ Stays(x) \/ Scheduled(x) \/ Dropped(x) \/ Claimed(x) \/ Swept(x)
              \/ Completed(x) \/ PutBack(x)

(* A write to one row leaves the others as they are.                       *)
LEMMA OneFate ==
    ASSUME TypeOK, NEW t \in Tasks, NEW r \in Rows, row' = [row EXCEPT ![t] = r], RowFate(t)
    PROVE  \A x \in Tasks : RowFate(x)
<1>1. \A x \in Tasks : x # t => row'[x] = row[x]
  BY OneRowType
<1> QED BY <1>1 DEF RowFate, Stays

(* Every row has one of these fates in every step.                         *)
LEMMA Fates ==
    ASSUME IInv, [Next]_vars
    PROVE  \A x \in Tasks : RowFate(x)
<1>0. TypeOK /\ Lifecycle /\ Claims
  BY DEF IInv
<1>1. ASSUME row' = row PROVE \A x \in Tasks : RowFate(x)
  BY <1>1 DEF RowFate, Stays
<1>2. ASSUME NEW p \in Procs, NEW t \in Tasks, NEW i \in EnqueueInputs, Enqueue(p, t, i)
      PROVE  \A x \in Tasks : RowFate(x)
  <2>1. PICK r \in Rows : /\ row' = [row EXCEPT ![t] = r]
                          /\ r.status = "pending" /\ r.attempts = 0
    BY <1>0, <1>2, EnqueueColumns
  <2>2. row'[t] = r
    BY <1>0, <2>1, OneRowType
  <2>3. Scheduled(t)
    BY <1>2, <2>1, <2>2 DEF Scheduled, Enqueue
  <2> QED BY <1>0, <2>1, <2>3, OneFate DEF RowFate
<1>3. ASSUME NEW p \in Procs, NEW t \in Tasks, RequeueDeadTask(p, t)
      PROVE  \A x \in Tasks : RowFate(x)
  <2>1. PICK r \in Rows : /\ row' = [row EXCEPT ![t] = r]
                          /\ r.status = "pending" /\ r.attempts = 0
    BY <1>0, <1>3, RequeueColumns
  <2>2. row'[t] = r
    BY <1>0, <2>1, OneRowType
  <2>3. Scheduled(t)
    BY <1>3, <2>1, <2>2 DEF Scheduled, RequeueDeadTask
  <2> QED BY <1>0, <2>1, <2>3, OneFate DEF RowFate
<1>4. ASSUME NEW t \in Tasks, DeleteDeadTask(t) PROVE \A x \in Tasks : RowFate(x)
  <2>1. PICK r \in Rows : row' = [row EXCEPT ![t] = r] /\ r.status = "deleted"
    BY <1>0, <1>4, DeleteRow DEF MkRow
  <2>2. row'[t] = r
    BY <1>0, <2>1, OneRowType
  <2>3. Dropped(t)
    BY <1>4, <2>1, <2>2 DEF Dropped, DeleteDeadTask
  <2> QED BY <1>0, <2>1, <2>3, OneFate DEF RowFate
<1>5. ASSUME NEW w \in Workers, CommitClaim(w) \/ ClaimFails(w)
      PROVE  \A x \in Tasks : RowFate(x)
  <2>1. CASE row' = row
    BY <1>1, <2>1
  <2>2. CASE pc[w] = "commit" /\ Taken(w)
    <3>1. PICK r \in Rows : row' = [row EXCEPT ![job[w].task] = r] /\ job[w].task \in Tasks
      BY <2>2 DEF Taken
    <3>2. Claimed(job[w].task)
      BY <1>5, <2>2 DEF Claimed
    <3> QED BY <1>0, <3>1, <3>2, OneFate DEF RowFate
  <2> QED BY <1>0, <1>5, <2>1, <2>2, CommitRow
<1>6. ASSUME NEW w \in Workers, Reap(w), NEW x \in Tasks PROVE RowFate(x)
  <2>1. row'[x] = row[x] \/ row'[x] = SweptRow(x)
    BY <1>0, <1>6, ReapRows
  <2>2. CASE row'[x] = row[x] \/ ~ Expired(x)
    BY <2>1, <2>2 DEF SweptRow, RowFate, Stays
  <2>3. CASE row'[x] = SweptRow(x) /\ Expired(x)
    <3>1. Swept(x)
      BY <2>3 DEF SweptRow, Swept, MkRow
    <3> QED BY <3>1 DEF RowFate
  <2> QED BY <2>1, <2>2, <2>3
<1>7. ASSUME NEW w \in Workers, NotifyReaped(w) PROVE \A x \in Tasks : RowFate(x)
  BY <1>0, <1>7, NotifyRows DEF RowFate, Stays
<1>8. ASSUME NEW w \in Workers, HandlerReturns(w) PROVE \A x \in Tasks : RowFate(x)
  <2> DEFINE t == job[w].task
  <2>1. t \in Tasks
    BY <1>0, <1>8, ReturnRow
  <2>2. ASSUME NEW s \in {"dead", "deleted"}, Moved(t, s) PROVE \A x \in Tasks : RowFate(x)
    <3>1. PICK r \in Rows : row' = [row EXCEPT ![t] = r] /\ r.status = s
      BY <2>2 DEF Moved, MkRow
    <3>2. row'[t] = r
      BY <1>0, <2>1, <3>1, OneRowType
    <3>3. Completed(t)
      BY <1>8, <3>1, <3>2 DEF Completed
    <3> QED BY <1>0, <2>1, <3>1, <3>3, OneFate DEF RowFate
  <2>3. ASSUME NEW by, Retried(t, by), Guard(job[w]), ~ Exhausted(job[w])
        PROVE  \A x \in Tasks : RowFate(x)
    <3>1. PICK r \in Rows : /\ row' = [row EXCEPT ![t] = r] /\ r.status = "pending"
                            /\ r.attempts = row[t].attempts
      BY <2>3 DEF Retried, MkRow
    <3>2. row'[t] = r
      BY <1>0, <2>1, <3>1, OneRowType
    <3>3. row[t].attempts \in Nat /\ row[t].maxRetries \in Nat
      BY <1>0, <2>1, RowFacts DEF TypeOK
    <3>4. row[t].status = "running" /\ row[t].attempts <= row[t].maxRetries
      BY <2>3, <3>3 DEF Guard, Exhausted
    <3>5. PutBack(t)
      BY <1>8, <3>1, <3>2, <3>4 DEF PutBack
    <3> QED BY <1>0, <2>1, <3>1, <3>5, OneFate DEF RowFate
  <2> QED BY <1>0, <1>1, <1>8, <2>2, <2>3, ReturnRow DEF Reschedule
<1>9. CASE Tick
  <2>1. \A x \in Tasks : row'[x] = Aged(x)
    BY <1>9 DEF Tick
  <2> QED BY <1>0, <1>9, <2>1, AgedFacts DEF MkRow, RowFate, Stays
<1>10. ASSUME NEW p \in Procs, Crash(p) PROVE row' = row
  BY <1>10 DEF Crash
<1>11. ASSUME NEW w \in Workers, NEW t \in Tasks, LockRow(w, t) PROVE row' = row
  BY <1>11 DEF LockRow
<1>12. CASE Quiet
  BY <1>1, <1>12 DEF Quiet
<1> QED BY <1>0, <1>1, <1>2, <1>3, <1>4, <1>5, <1>6, <1>7, <1>8, <1>9, <1>10, <1>11, <1>12, StepCases

(* A worker that claims or handles goes on with its record and its lease,  *)
(* which only a tick runs down, or it has just begun to, or ended.         *)
GoesOn(w) == /\ pc'[w] = pc[w] /\ job'[w] = job[w]
             /\ lease'[w] = lease[w] \/ (Tick /\ lease'[w] = RunDown(lease[w]))

(* How a worker comes to hold a claim or to handle one, and how a handler  *)
(* ends: by returning or with its process.                                 *)
LEMMA WorkerFate ==
    ASSUME IInv, [Next]_vars, NEW w \in Workers
    PROVE  /\ pc'[w] = "handle" => (pc[w] = "handle" /\ GoesOn(w)) \/ CommitClaim(w)
           /\ pc'[w] = "commit" => (pc[w] = "commit" /\ GoesOn(w)) \/ \E t \in Tasks : LockRow(w, t)
           /\ pc[w] = "handle" => GoesOn(w) \/ HandlerReturns(w) \/ \E p \in Procs : Crash(p)
<1>0. TypeOK /\ Lifecycle
  BY DEF IInv
<1> DEFINE Fate == /\ pc'[w] = "handle" => (pc[w] = "handle" /\ GoesOn(w)) \/ CommitClaim(w)
                   /\ pc'[w] = "commit" => (pc[w] = "commit" /\ GoesOn(w))
                                             \/ \E t \in Tasks : LockRow(w, t)
                   /\ pc[w] = "handle" => GoesOn(w) \/ HandlerReturns(w) \/ \E p \in Procs : Crash(p)
<1>1. ASSUME NEW p \in Procs, NEW t \in Tasks,
             (\E i \in EnqueueInputs : Enqueue(p, t, i)) \/ RequeueDeadTask(p, t)
      PROVE  Fate
  BY <1>1 DEF Enqueue, RequeueDeadTask, GoesOn
<1>2. ASSUME NEW t \in Tasks, DeleteDeadTask(t) PROVE Fate
  BY <1>2 DEF DeleteDeadTask, workerVars, GoesOn
<1>3. ASSUME NEW p \in Procs, Crash(p) PROVE Fate
  <2>1. pc'[w] \in {"commit", "handle"} => pc'[w] = pc[w] /\ job'[w] = job[w] /\ lease'[w] = lease[w]
    BY <1>3 DEF Crash
  <2> QED BY <1>3, <2>1 DEF GoesOn
<1>4. ASSUME NEW v \in Workers, v # w,
             \/ \E t \in Tasks : LockRow(v, t)
             \/ CommitClaim(v) \/ ClaimFails(v) \/ Reap(v) \/ NotifyReaped(v) \/ HandlerReturns(v)
      PROVE  GoesOn(w)
  BY <1>0, <1>4 DEF LockRow, CommitClaim, ClaimFails, GiveUp, Reap, NotifyReaped, HandlerReturns,
                    HandlerSucceeds, Bury, Reschedule, CompleteFails, Release, Go, TypeOK, GoesOn
<1>5. ASSUME NEW t \in Tasks, LockRow(w, t) PROVE Fate
  BY <1>0, <1>5 DEF LockRow, Go, TypeOK
<1>6. ASSUME CommitClaim(w) PROVE Fate
  BY <1>0, <1>6 DEF CommitClaim, Go, TypeOK
<1>7. ASSUME ClaimFails(w) \/ Reap(w) \/ NotifyReaped(w) PROVE Fate
  BY <1>0, <1>7 DEF ClaimFails, GiveUp, Reap, NotifyReaped, Go, TypeOK
<1>8. ASSUME HandlerReturns(w) PROVE Fate
  <2>1. pc'[w] = "begin"
    BY <1>0, <1>8 DEF HandlerReturns, HandlerSucceeds, Bury, Reschedule, CompleteFails, Release,
                      Go, TypeOK
  <2> QED BY <1>8, <2>1
<1>9. ASSUME Tick PROVE Fate
  <2>1. pc' = pc /\ job' = job
    BY <1>9 DEF Tick
  <2>2. lease'[w] = lease[w] \/ lease'[w] = RunDown(lease[w])
    BY <1>9 DEF Tick
  <2> QED BY <1>9, <2>1, <2>2 DEF GoesOn
<1>10. ASSUME Quiet PROVE Fate
  BY <1>10 DEF Quiet, GoesOn
<1>11. GoesOn(w) => Fate
  BY DEF GoesOn
<1> HIDE DEF Fate
<1>12. ASSUME NEW v \in Workers,
              \/ \E t \in Tasks : LockRow(v, t)
              \/ CommitClaim(v) \/ ClaimFails(v) \/ Reap(v) \/ NotifyReaped(v) \/ HandlerReturns(v)
       PROVE  Fate
  <2>1. CASE v = w
    BY <1>5, <1>6, <1>7, <1>8, <1>12, <2>1
  <2>2. CASE v # w
    BY <1>4, <1>11, <1>12, <2>2
  <2> QED BY <2>1, <2>2
<1>13. Fate
  BY <1>0, <1>1, <1>2, <1>3, <1>9, <1>10, <1>12, StepCases
<1> QED BY <1>13 DEF Fate

-----------------------------------------------------------------------------
(* Leases and payments. *)

(* A tick under a lease that ends is counted.                              *)
LEMMA TickLapses ==
    ASSUME TypeOK, Tick, NEW w \in Workers, pc[w] \in {"commit", "handle"}, lease[w] = 0
    PROVE  lapses' # lapses
<1> DEFINE S == {v \in Leasing : lease[v] = 0}
<1>1. w \in S
  BY DEF Leasing
<1>2. Cardinality(S) \in Nat /\ (Cardinality(S) = 0 => S = {})
  BY LapseCount
<1>3. lapses' = lapses + Cardinality(S) /\ lapses \in Nat
  BY DEF Tick, TypeOK
<1> HIDE DEF S
<1> QED BY <1>1, <1>2, <1>3

(* The lease of a claim or handler that goes on.                           *)
LEMMA LeaseGoesOn ==
    ASSUME TypeOK, NEW w \in Workers, pc[w] \in {"commit", "handle"}, GoesOn(w),
           lease'[w] < 0, lease[w] >= 0
    PROVE  lapses' # lapses
<1>1. lease[w] \in Int
  BY DEF TypeOK
<1>2. Tick /\ lease[w] = 0
  BY <1>1 DEF GoesOn, RunDown
<1> QED BY <1>2, TickLapses

(* While no lease lapses, leases run.                                      *)
LEMMA LeaseKeptStep ==
    ASSUME IInv, IInv', LeaseKept, [Next]_vars
    PROVE  LeaseKept'
<1> SUFFICES ASSUME lapses' = 0, NEW w \in Leasing' PROVE lease'[w] >= 0
  BY DEF LeaseKept
<1>0. TypeOK /\ Lifecycle /\ w \in Workers /\ pc'[w] \in {"commit", "handle"}
  BY DEF IInv, Leasing
<1>1. lapses = 0 /\ lease'[w] \in Int
  <2>1. lapses \in Nat /\ lease'[w] \in Int
    BY <1>0 DEF IInv, TypeOK
  <2> QED BY <1>0, <2>1, CountStep
<1>2. CASE pc[w] \in {"commit", "handle"} /\ GoesOn(w)
  <2>1. lease[w] >= 0
    BY <1>0, <1>1, <1>2 DEF LeaseKept, Leasing
  <2> QED BY <1>0, <1>1, <1>2, <2>1, LeaseGoesOn
<1>3. CASE CommitClaim(w)
  <2>1. lease' = lease /\ w \in Leasing
    BY <1>0, <1>3 DEF CommitClaim, Leasing
  <2> QED BY <1>1, <2>1 DEF LeaseKept
<1>4. ASSUME NEW t \in Tasks, LockRow(w, t) PROVE lease'[w] >= 0
  <2>1. lease'[w] = LeaseDuration
    BY <1>0, <1>4 DEF LockRow, TypeOK
  <2> QED BY <2>1, BoundAssumption
<1> QED BY <1>0, <1>2, <1>3, <1>4, WorkerFate

(* The row a claim commits.                                                *)
LEMMA CommitOwns ==
    ASSUME IInv, NEW w \in Workers, CommitClaim(w)
    PROVE  /\ pc'[w] = "handle" /\ job' = job /\ lease' = lease
           /\ job[w].task \in Tasks /\ pc[w] = "commit" /\ Taken(w)
           /\ Owns(w)' /\ row'[job[w].task].lease = lease[w]
<1>0. TypeOK /\ Lifecycle /\ Claims
  BY DEF IInv
<1>1. pc[w] = "commit" /\ pc'[w] = "handle" /\ job' = job /\ lease' = lease
  BY <1>0 DEF CommitClaim, Go, TypeOK
<1>2. Taken(w)
  BY <1>0, <1>1, CommitRow DEF ClaimFails, GiveUp, Go, TypeOK
<1>3. LET t == job[w].task IN
      /\ t \in Tasks
      /\ row'[t].status = "running" /\ row'[t].attempts = row[t].attempts + 1
      /\ row'[t].life = row[t].life /\ row'[t].lease = lease[w]
  BY <1>0, <1>1, <1>2, TakenRow
<1>4. job[w].attempts = row[job[w].task].attempts + 1 /\ job[w].life = row[job[w].task].life
  BY <1>0, <1>1 DEF Claims, LockHolds
<1> QED BY <1>1, <1>2, <1>3, <1>4 DEF Owns

(* Nobody owns, after a step, a claim on a row that another claim took.    *)
LEMMA OwnedBefore ==
    ASSUME IInv, [Next]_vars, NEW w \in Workers, pc[w] = "handle", GoesOn(w), Owns(w)'
    PROVE  Owns(w) /\ Stays(job[w].task)
<1> DEFINE t == job[w].task
<1>0. TypeOK /\ Lifecycle /\ Claims
  BY DEF IInv
<1>1. /\ row'[t].status = "running" /\ row'[t].attempts = job[w].attempts
      /\ row'[t].life = job[w].life
  BY DEF Owns, GoesOn
<1>2. t \in Tasks
  BY <1>0, Claiming
<1>3. row[t].attempts \in Nat
  BY <1>0, <1>2, RowFacts DEF TypeOK
<1>4. RowFate(t)
  BY <1>2, Fates
<1>5. ~ Claimed(t)
  <2> SUFFICES ASSUME NEW v \in Workers, job[v].task = t, pc[v] = "commit", Taken(v) PROVE FALSE
    BY DEF Claimed
  <2>1. row'[t].attempts = row[t].attempts + 1 /\ row'[t].life = row[t].life
    BY <1>0, TakenRow
  <2>2. job[w].attempts <= row[t].attempts
    BY <1>0, <1>1, <2>1 DEF Claims, NotAhead
  <2> QED BY <1>1, <1>3, <2>1, <2>2
<1>6. Stays(t)
  BY <1>1, <1>4, <1>5 DEF RowFate, Scheduled, Dropped, Swept, Completed, PutBack
<1>7. Owns(w)
  BY <1>1, <1>6 DEF Stays, Owns
<1> QED BY <1>6, <1>7

(* The handler of the current claim keeps knowing the lease.               *)
LEMMA LeaseSharedStep ==
    ASSUME IInv, LeaseShared, [Next]_vars
    PROVE  LeaseShared'
<1> SUFFICES ASSUME NEW w \in Workers, pc'[w] = "handle", Owns(w)'
             PROVE  lease'[w] = row'[job'[w].task].lease
  BY DEF LeaseShared
<1>0. TypeOK /\ Lifecycle
  BY DEF IInv
<1>1. CASE CommitClaim(w)
  BY <1>1, CommitOwns
<1>2. CASE pc[w] = "handle" /\ GoesOn(w)
  <2> DEFINE t == job[w].task
  <2>1. Owns(w) /\ Stays(t) /\ t \in Tasks
    BY <1>0, <1>2, OwnedBefore, Claiming
  <2>2. lease[w] = row[t].lease /\ row[t].status = "running"
    BY <1>2, <2>1 DEF LeaseShared, Owns
  <2>3. CASE Tick
    <3>1. row'[t] = Aged(t) /\ lease'[w] = RunDown(lease[w])
      BY <1>2, <2>1, <2>3 DEF Tick, Leasing
    <3>2. Aged(t).lease = RunDown(row[t].lease)
      BY <1>0, <2>1, <2>2, AgedFacts DEF MkRow
    <3> QED BY <1>2, <2>2, <3>1, <3>2 DEF GoesOn
  <2>4. CASE ~ Tick
    BY <1>2, <2>1, <2>2, <2>4 DEF Stays, GoesOn
  <2> QED BY <2>3, <2>4
<1> QED BY <1>1, <1>2, WorkerFate

(* An expired row has no handler whose lease runs.                         *)
LEMMA ExpiredIsAbandoned ==
    ASSUME TypeOK, LeaseShared, NEW t \in Tasks, Expired(t)
    PROVE  Abandoned(t)
<1>1. row[t].lease \in Int
  BY RowFacts DEF TypeOK
<1> QED BY <1>1 DEF Expired, Abandoned, Serves, LeaseShared

(* The status complete's statements leave.                                 *)
LEMMA ReturnStatus ==
    ASSUME TypeOK, NEW t \in Tasks
    PROVE  /\ \A s \in {"dead", "deleted"} : Moved(t, s) => row'[t].status = s
           /\ \A by : Retried(t, by) => row'[t].status = "pending"
<1>1. ASSUME NEW s \in {"dead", "deleted"}, Moved(t, s) PROVE row'[t].status = s
  <2>1. PICK r \in Rows : row' = [row EXCEPT ![t] = r] /\ r.status = s
    BY <1>1 DEF Moved, MkRow
  <2> QED BY <2>1, OneRowType
<1>2. ASSUME NEW by, Retried(t, by) PROVE row'[t].status = "pending"
  <2>1. PICK r \in Rows : row' = [row EXCEPT ![t] = r] /\ r.status = "pending"
    BY <1>2 DEF Retried, MkRow
  <2> QED BY <2>1, OneRowType
<1> QED BY <1>1, <1>2

(* A claim is abandoned by a failure that this step counts, or it was      *)
(* abandoned before, or its lease had lapsed before it was committed.      *)
LEMMA AbandonedOrigin ==
    ASSUME IInv, [Next]_vars, NEW x \in Tasks, Abandoned(x)'
    PROVE  \/ Abandoned(x) /\ Stays(x)
           \/ /\ Stays(x) \/ Claimed(x)
              /\ <<crashes, faults, lapses>>' # <<crashes, faults, lapses>>
           \/ \E v \in Workers : CommitClaim(v) /\ job[v].task = x /\ lease[v] < 0
<1>0. TypeOK /\ Lifecycle /\ Claims
  BY DEF IInv
<1>1. row'[x].status = "running" /\ \A w \in Workers : ~ Serves(w, x)'
  BY DEF Abandoned
<1>2. CASE Claimed(x)
  <2>1. PICK v \in Workers : job[v].task = x /\ (CommitClaim(v) \/ ClaimFails(v))
    BY <1>2 DEF Claimed
  <2>2. CASE CommitClaim(v)
    <3>1. pc'[v] = "handle" /\ job' = job /\ lease' = lease /\ Owns(v)'
      BY <2>2, CommitOwns
    <3>2. ~ (lease[v] >= 0)
      BY <1>1, <2>1, <3>1 DEF Serves
    <3>3. lease[v] \in Int
      BY <1>0 DEF TypeOK
    <3> QED BY <2>1, <2>2, <3>2, <3>3
  <2>3. CASE ClaimFails(v)
    <3>1. faults' = faults + 1 /\ faults \in Nat
      BY <1>0, <2>3 DEF ClaimFails, Fault, TypeOK
    <3> QED BY <1>2, <3>1
  <2> QED BY <2>1, <2>2, <2>3
<1>3. CASE ~ Claimed(x)
  <2>1. Stays(x) /\ row[x].status = "running"
    BY <1>1, <1>3, Fates DEF RowFate, Scheduled, Dropped, Swept, Completed, PutBack, Stays
  <2>2. CASE Abandoned(x)
    BY <2>1, <2>2
  <2>3. CASE ~ Abandoned(x)
    <3>1. PICK w \in Workers : Serves(w, x)
      BY <2>1, <2>3 DEF Abandoned
    <3>2. pc[w] = "handle" /\ job[w].task = x /\ Owns(w) /\ lease[w] >= 0
      BY <3>1 DEF Serves
    <3>3. CASE GoesOn(w)
      <4>1. pc'[w] = "handle" /\ job'[w] = job[w] /\ Owns(w)'
        BY <2>1, <3>2, <3>3 DEF GoesOn, Owns, Stays
      <4>2. ~ (lease'[w] >= 0)
        BY <1>1, <3>2, <4>1 DEF Serves
      <4>3. lapses' # lapses
        <5>1. lease[w] \in Int /\ lease'[w] \in Int
          BY <1>0, <3>3 DEF TypeOK, GoesOn, RunDown
        <5> QED BY <1>0, <3>2, <3>3, <4>2, <5>1, LeaseGoesOn
      <4> QED BY <2>1, <4>3
    <3>4. CASE \E p \in Procs : Crash(p)
      <4>1. crashes' = crashes + 1 /\ crashes \in Nat
        BY <1>0, <3>4 DEF Crash, TypeOK
      <4> QED BY <2>1, <4>1
    <3>5. CASE HandlerReturns(w)
      <4>1. Guard(job[w])
        BY <3>2 DEF Owns, Guard
      <4>2. ~ Moved(x, "deleted") /\ ~ Moved(x, "dead") /\ \A by : ~ Retried(x, by)
        BY <1>0, <1>1, ReturnStatus
      <4>3. CompleteFails(w)
        BY <1>0, <3>2, <3>5, <4>1, <4>2, ReturnRow
      <4>4. faults' = faults + 1 /\ faults \in Nat
        BY <1>0, <4>3 DEF CompleteFails, Fault, TypeOK
      <4> QED BY <2>1, <4>4
    <3> QED BY <3>2, <3>3, <3>4, <3>5, WorkerFate
  <2> QED BY <2>2, <2>3
<1> QED BY <1>2, <1>3

(* Attempts beyond the budget are paid for.                                *)
LEMMA PaidStep ==
    ASSUME IInv, IInv', LeaseShared, Paid, LatePaid, [Next]_vars
    PROVE  Paid'
<1> SUFFICES ASSUME NEW x \in Tasks PROVE PaidFor(x)'
  BY DEF Paid
<1>0. TypeOK /\ TypeOK' /\ Lifecycle /\ Claims
  BY DEF IInv
<1>1. /\ row[x].attempts \in Nat /\ row[x].maxRetries \in Nat
      /\ row'[x].attempts \in Nat /\ row'[x].maxRetries \in Nat
  BY <1>0, RowFacts DEF TypeOK
<1>2. Payments \in Nat /\ Payments' \in Nat /\ Payments' >= Payments
  BY <1>0, PaymentsGrow
<1>3. row[x].status # "absent" => row'[x].maxRetries = row[x].maxRetries
  BY LastingStep DEF Lasting
<1>4. PaidFor(x)
  BY DEF Paid
<1>5. ASSUME Claimed(x)
      PROVE  /\ row[x].status = "pending" /\ row'[x].attempts = row[x].attempts + 1
             /\ row'[x].status = "running"
  <2>1. PICK v \in Workers : job[v].task = x /\ pc[v] = "commit" /\ Taken(v)
    BY <1>5 DEF Claimed
  <2> QED BY <1>0, <2>1, TakenRow DEF Claims, LockHolds
<1>6. ASSUME row'[x].status = "pending"
      PROVE  row'[x].attempts <= row'[x].maxRetries + Payments'
  <2>1. CASE Stays(x)
    BY <1>1, <1>2, <1>3, <1>4, <1>6, <2>1 DEF Stays, PaidFor
  <2>2. CASE Scheduled(x)
    BY <1>1, <1>2, <2>2 DEF Scheduled
  <2>3. CASE Swept(x)
    <3>1. Abandoned(x)
      BY <1>0, <2>3, ExpiredIsAbandoned DEF Swept
    <3>2. row[x].status = "running"
      BY <3>1 DEF Abandoned
    <3> QED BY <1>1, <1>2, <1>3, <1>4, <2>3, <3>1, <3>2 DEF Swept, PaidFor
  <2>4. CASE PutBack(x)
    BY <1>1, <1>2, <1>3, <2>4 DEF PutBack
  <2> QED BY <1>5, <1>6, <2>1, <2>2, <2>3, <2>4, Fates DEF RowFate, Dropped, Completed
<1>7. ASSUME row'[x].status = "running"
      PROVE  row'[x].attempts <= row'[x].maxRetries + 1 + Payments'
  <2>1. CASE Stays(x)
    BY <1>1, <1>2, <1>3, <1>4, <1>7, <2>1 DEF Stays, PaidFor
  <2>2. CASE Claimed(x)
    BY <1>1, <1>2, <1>3, <1>4, <1>5, <2>2 DEF PaidFor
  <2> QED BY <1>7, <2>1, <2>2, Fates DEF RowFate, Scheduled, Dropped, Swept, Completed, PutBack
<1>8. ASSUME Abandoned(x)'
      PROVE  row'[x].attempts <= row'[x].maxRetries + Payments'
  <2>0. row'[x].status = "running"
    BY <1>8 DEF Abandoned
  <2>1. CASE Abandoned(x) /\ Stays(x)
    <3>1. row[x].status = "running"
      BY <2>1 DEF Abandoned
    <3> QED BY <1>1, <1>2, <1>3, <1>4, <2>1, <3>1 DEF Stays, PaidFor
  <2>2. CASE /\ Stays(x) \/ Claimed(x)
             /\ <<crashes, faults, lapses>>' # <<crashes, faults, lapses>>
    <3>1. Payments' >= Payments + 1
      BY <1>0, <2>2, PaymentsGrow
    <3>2. CASE Stays(x)
      BY <1>1, <1>2, <1>3, <1>4, <2>0, <3>1, <3>2 DEF Stays, PaidFor
    <3>3. CASE Claimed(x)
      BY <1>1, <1>2, <1>3, <1>4, <1>5, <3>1, <3>3 DEF PaidFor
    <3> QED BY <2>2, <3>2, <3>3
  <2>3. ASSUME NEW v \in Workers, CommitClaim(v), job[v].task = x, lease[v] < 0
        PROVE  row'[x].attempts <= row'[x].maxRetries + Payments'
    <3>1. pc[v] = "commit" /\ Taken(v)
      BY <2>3, CommitOwns
    <3>2. row[x].status = "pending" /\ row'[x].attempts = job[v].attempts
      BY <1>0, <2>3, <3>1, TakenRow DEF Claims, LockHolds
    <3>3. job[v].attempts <= row[x].maxRetries + Payments
      BY <2>3, <3>1 DEF LatePaid
    <3> QED BY <1>1, <1>2, <1>3, <3>2, <3>3
  <2> QED BY <1>8, <2>1, <2>2, <2>3, AbandonedOrigin
<1> QED BY <1>6, <1>7, <1>8 DEF PaidFor

(* And so is a claim that commits late.                                    *)
LEMMA LatePaidStep ==
    ASSUME IInv, IInv', Paid, LatePaid, [Next]_vars
    PROVE  LatePaid'
<1> SUFFICES ASSUME NEW w \in Workers, pc'[w] = "commit", lease'[w] < 0
             PROVE  job'[w].attempts <= row'[job'[w].task].maxRetries + Payments'
  BY DEF LatePaid
<1>0. TypeOK /\ TypeOK' /\ Lifecycle /\ Claims
  BY DEF IInv
<1>1. Payments \in Nat /\ Payments' \in Nat /\ Payments' >= Payments
  BY <1>0, PaymentsGrow
<1>2. ASSUME NEW t \in Tasks, LockRow(w, t) PROVE FALSE
  <2>1. lease'[w] = LeaseDuration
    BY <1>0, <1>2 DEF LockRow, TypeOK
  <2> QED BY <2>1, BoundAssumption
<1>3. pc[w] = "commit" /\ GoesOn(w)
  BY <1>2, WorkerFate
<1> DEFINE t == job[w].task
<1>4. /\ t \in Tasks /\ job[w].attempts \in Nat /\ job'[w] = job[w]
      /\ row[t].status = "pending" /\ job[w].attempts = row[t].attempts + 1
  BY <1>0, <1>3, Claiming DEF GoesOn, Claims, LockHolds
<1>5. /\ row[t].attempts \in Nat /\ row[t].maxRetries \in Nat
      /\ row'[t].maxRetries = row[t].maxRetries
  BY <1>0, <1>4, RowFacts, LastingStep DEF TypeOK, Lasting
<1>6. CASE lease[w] < 0
  BY <1>1, <1>3, <1>4, <1>5, <1>6 DEF LatePaid
<1>7. CASE ~ (lease[w] < 0)
  <2>1. lease[w] >= 0
    BY <1>0, <1>7 DEF TypeOK
  <2>2. lapses' # lapses
    BY <1>0, <1>3, <2>1, LeaseGoesOn
  <2>3. Payments' >= Payments + 1
    BY <1>0, <2>2, PaymentsGrow
  <2>4. row[t].attempts <= row[t].maxRetries + Payments
    BY <1>4 DEF Paid, PaidFor
  <2> QED BY <1>1, <1>4, <1>5, <2>3, <2>4
<1> QED BY <1>6, <1>7

(* An invocation beyond the budget is paid for.                            *)
LEMMA BudgetStep ==
    ASSUME IInv, IInv', Paid, BudgetPaid, [Next]_vars
    PROVE  BudgetPaid'
<1> SUFFICES ASSUME NEW w \in Workers, pc'[w] = "handle"
             PROVE  job'[w].attempts
                      <= row'[job'[w].task].maxRetries + 1 + lapses' + crashes' + faults'
  BY DEF BudgetPaid
<1>0. TypeOK /\ TypeOK' /\ Lifecycle /\ Claims
  BY DEF IInv
<1> DEFINE t == job[w].task
<1>1. /\ lapses \in Nat /\ crashes \in Nat /\ faults \in Nat
      /\ lapses' \in Nat /\ crashes' \in Nat /\ faults' \in Nat
      /\ lapses' + crashes' + faults' >= lapses + crashes + faults
  BY <1>0, PaymentsGrow DEF TypeOK, Payments
<1>2. CASE pc[w] = "handle" /\ GoesOn(w)
  <2>1. t \in Tasks /\ job[w].attempts \in Nat /\ job'[w] = job[w] /\ row[t].status # "absent"
    BY <1>0, <1>2, Claiming DEF GoesOn, Claims, NotAhead
  <2>2. row[t].maxRetries \in Nat /\ row'[t].maxRetries = row[t].maxRetries
    BY <1>0, <2>1, RowFacts, LastingStep DEF TypeOK, Lasting
  <2>3. job[w].attempts <= row[t].maxRetries + 1 + lapses + crashes + faults
    BY <1>2 DEF BudgetPaid
  <2> QED BY <1>1, <2>1, <2>2, <2>3
<1>3. CASE CommitClaim(w)
  <2>1. pc[w] = "commit" /\ job' = job /\ t \in Tasks
    BY <1>3, CommitOwns
  <2>2. row[t].status = "pending" /\ job[w].attempts = row[t].attempts + 1
    BY <1>0, <2>1 DEF Claims, LockHolds
  <2>3. /\ row[t].attempts \in Nat /\ row[t].maxRetries \in Nat
        /\ row'[t].maxRetries = row[t].maxRetries
    BY <1>0, <2>1, <2>2, RowFacts, LastingStep DEF TypeOK, Lasting
  <2>4. row[t].attempts <= row[t].maxRetries + (lapses + crashes + faults)
    BY <2>1, <2>2 DEF Paid, PaidFor, Payments
  <2>5. job'[w].attempts = row[t].attempts + 1 /\ row'[job'[w].task].maxRetries = row[t].maxRetries
    BY <2>1, <2>2, <2>3
  <2> HIDE DEF t
  <2>6. row[t].attempts + 1 <= row[t].maxRetries + 1 + lapses' + crashes' + faults'
    BY <1>1, <2>3, <2>4
  <2> QED BY <2>5, <2>6
<1> QED BY <1>2, <1>3, WorkerFate

(* While nothing fails, every running row is served.                       *)
LEMMA ServedStep ==
    ASSUME IInv, IInv', LeaseShared, LeaseKept, Served, [Next]_vars
    PROVE  Served'
<1>0. TypeOK /\ TypeOK' /\ Lifecycle /\ Claims
  BY DEF IInv
<1> SUFFICES ASSUME Payments' = 0
             PROVE  /\ \A x \in Tasks : ~ Abandoned(x)'
                    /\ \A w \in Workers : pc'[w] = "handle" => Owns(w)'
  BY DEF Served
<1>1. Payments = 0 /\ <<crashes, faults, lapses>>' = <<crashes, faults, lapses>>
  BY <1>0, PaymentsGrow
<1>2. /\ \A x \in Tasks : ~ Abandoned(x)
      /\ \A w \in Workers : pc[w] = "handle" => Owns(w)
  BY <1>1 DEF Served
<1>3. lapses = 0 /\ \A w \in Workers : pc[w] \in {"commit", "handle"} => lease[w] >= 0
  <2>1. lapses = 0
    BY <1>0, <1>1 DEF TypeOK, Payments
  <2> QED BY <2>1 DEF LeaseKept, Leasing
<1>4. ASSUME NEW x \in Tasks, Abandoned(x)' PROVE FALSE
  <2>1. \E v \in Workers : CommitClaim(v) /\ job[v].task = x /\ lease[v] < 0
    BY <1>1, <1>2, <1>4, AbandonedOrigin
  <2>2. PICK v \in Workers : CommitClaim(v) /\ lease[v] < 0
    BY <2>1
  <2>3. lease[v] >= 0 /\ lease[v] \in Int
    BY <1>0, <1>3, <2>2 DEF CommitClaim, TypeOK
  <2> QED BY <2>2, <2>3
<1>5. ASSUME NEW w \in Workers, pc'[w] = "handle" PROVE Owns(w)'
  <2>1. CASE CommitClaim(w)
    BY <2>1, CommitOwns
  <2>2. CASE pc[w] = "handle" /\ GoesOn(w)
    <3> DEFINE t == job[w].task
    <3>1. Owns(w) /\ t \in Tasks /\ job[w] \in Records /\ job'[w] = job[w]
      BY <1>0, <1>2, <2>2, Claiming DEF GoesOn
    <3>2. row[t].status = "running" /\ row[t].attempts = job[w].attempts /\ row[t].life = job[w].life
      BY <3>1 DEF Owns
    <3>3. ~ Swept(t)
      BY <1>0, <1>2, <3>1, ExpiredIsAbandoned DEF Swept
    <3>4. ~ Claimed(t)
      BY <1>0, <3>2 DEF Claimed, Claims, LockHolds
    <3>5. ASSUME NEW v \in Workers, HandlerReturns(v), job[v].task = t PROVE FALSE
      <4>1. pc[v] = "handle" /\ pc'[v] = "begin"
        BY <1>0, <3>5 DEF HandlerReturns, HandlerSucceeds, Bury, Reschedule, CompleteFails,
                          Release, Go, TypeOK
      <4>2. job[v] \in Records /\ job[v].attempts = row[t].attempts /\ job[v].life = row[t].life
        BY <1>0, <1>2, <3>5, <4>1, Claiming DEF Owns
      <4>3. job[v] = job[w]
        BY <3>1, <3>2, <3>5, <4>2 DEF Records
      <4>4. v # w /\ job[w] # NoJob
        BY <1>0, <1>5, <2>2, <4>1 DEF Lifecycle
      <4> QED BY <1>0, <4>3, <4>4 DEF Claims, AttemptOnce
    <3>6. Stays(t)
      BY <3>1, <3>2, <3>3, <3>4, <3>5, Fates DEF RowFate, Scheduled, Dropped, Completed, PutBack
    <3> QED BY <3>1, <3>2, <3>6 DEF Stays, Owns
  <2> QED BY <1>5, <2>1, <2>2, WorkerFate
<1> QED BY <1>4, <1>5


-----------------------------------------------------------------------------
(* What is paid for and what is served stays so, in every deployment.      *)
LEMMA PaymentsHold == Spec => []BInv
<1>1. Init => BInv
  <2> SUFFICES ASSUME Init PROVE BInv
    OBVIOUS
  <2>1. /\ \A t \in Tasks : row[t].status = "absent" /\ row[t].attempts = 0
        /\ \A w \in Workers : pc[w] = "off"
        /\ lapses = 0 /\ crashes = 0 /\ faults = 0
    BY DEF Init
  <2>2. Blank /\ LeaseShared /\ LeaseKept /\ LatePaid /\ BudgetPaid
    BY <2>1 DEF Blank, LeaseShared, LeaseKept, LatePaid, BudgetPaid, Leasing
  <2>3. Paid /\ Served
    BY <2>1 DEF Paid, PaidFor, Abandoned, Served
  <2>4. Bounded
    BY <2>1, BoundAssumption DEF Bounded
  <2> QED BY <2>2, <2>3, <2>4 DEF BInv
<1>2. IInv /\ IInv' /\ BInv /\ [Next]_vars => BInv'
  <2> SUFFICES ASSUME IInv, IInv', BInv, [Next]_vars PROVE BInv'
    OBVIOUS
  <2>1. TypeOK /\ Lifecycle
    BY DEF IInv
  <2>2. /\ Blank /\ LeaseShared /\ LeaseKept /\ Paid /\ LatePaid /\ Served /\ Bounded
        /\ BudgetPaid
    BY DEF BInv
  <2>3. Blank'
    BY <2>2, LastingStep DEF Blank, Lasting
  <2>4. LeaseShared' /\ LeaseKept'
    BY <2>1, <2>2, LeaseSharedStep, LeaseKeptStep
  <2>5. Paid' /\ LatePaid' /\ BudgetPaid'
    BY <2>2, PaidStep, LatePaidStep, BudgetStep
  <2>6. Served' /\ Bounded'
    BY <2>1, <2>2, ServedStep, BoundedStep
  <2> QED BY <2>3, <2>4, <2>5, <2>6 DEF BInv
<1> QED BY <1>1, <1>2, InvariantHolds, PTL DEF Spec

(* Every invocation beyond the MaxRetries+1 of the budget is paid for by a *)
(* lapsed lease, a crash or an error of the database, however many of them *)
(* there are and in whatever order: claims that committed although they    *)
(* reported an error, sweeps and late commits never hand a row out twice   *)
(* for one failure.                                                        *)
THEOREM BudgetIsPaid == Spec => []BudgetPaid
<1>1. BInv => BudgetPaid
  BY DEF BInv
<1> QED BY <1>1, PaymentsHold, PTL


-----------------------------------------------------------------------------
(* The contract: what it sees of the table. *)

Seen(s) == CASE s = "absent"  -> "none"
             [] s = "deleted" -> "gone"
             [] OTHER         -> s

statusBar   == [t \in Tasks |-> CASE row[t].status = "absent"  -> "none"
                                  [] row[t].status = "deleted" -> "gone"
                                  [] OTHER                     -> row[t].status]
attemptsBar == [t \in Tasks |-> row[t].attempts]
budgetBar   == [t \in Tasks |-> row[t].maxRetries]
Budgeted    == {NewEnqueueOptions(o).maxRetries : o \in EnqueueInputs}
Failing     == MaxLapses + MaxCrashes + MaxFaults > 0

(* One row is written, and nothing else is seen to change.                 *)
Shown(t, r) ==
    /\ statusBar[t] = Seen(row[t].status)
    /\ statusBar' = [statusBar EXCEPT ![t] = Seen(r.status)]
    /\ attemptsBar' = [attemptsBar EXCEPT ![t] = r.attempts]
    /\ budgetBar' = [budgetBar EXCEPT ![t] = r.maxRetries]
    /\ r.attempts = row[t].attempts => attemptsBar' = attemptsBar
    /\ r.maxRetries = row[t].maxRetries => budgetBar' = budgetBar

(* A write to one row, as the contract sees it.                            *)
LEMMA OneMoves ==
    ASSUME TypeOK, NEW t \in Tasks, NEW r \in Rows, row' = [row EXCEPT ![t] = r]
    PROVE  Shown(t, r)
<1>1. row'[t] = r /\ \A x \in Tasks : x # t => row'[x] = row[x]
  BY OneRowType
<1>2. statusBar[t] = Seen(row[t].status)
  BY DEF statusBar, Seen
<1>3. \A x \in Tasks : statusBar'[x] = IF x = t THEN Seen(r.status) ELSE statusBar[x]
  BY <1>1 DEF statusBar, Seen
<1>4. statusBar' = [statusBar EXCEPT ![t] = Seen(r.status)]
  BY <1>3 DEF statusBar
<1>5. attemptsBar' = [attemptsBar EXCEPT ![t] = r.attempts]
  <2>1. \A x \in Tasks : attemptsBar'[x] = IF x = t THEN r.attempts ELSE attemptsBar[x]
    BY <1>1 DEF attemptsBar
  <2> QED BY <2>1 DEF attemptsBar
<1>6. budgetBar' = [budgetBar EXCEPT ![t] = r.maxRetries]
  <2>1. \A x \in Tasks : budgetBar'[x] = IF x = t THEN r.maxRetries ELSE budgetBar[x]
    BY <1>1 DEF budgetBar
  <2> QED BY <2>1 DEF budgetBar
<1>7. r.attempts = row[t].attempts => attemptsBar' = attemptsBar
  BY <1>1 DEF attemptsBar
<1>8. r.maxRetries = row[t].maxRetries => budgetBar' = budgetBar
  BY <1>1 DEF budgetBar
<1> QED BY <1>2, <1>4, <1>5, <1>6, <1>7, <1>8 DEF Shown

(* None is.                                                                *)
LEMMA NoneMoves ==
    ASSUME \A t \in Tasks : /\ row'[t].status = row[t].status
                            /\ row'[t].attempts = row[t].attempts
                            /\ row'[t].maxRetries = row[t].maxRetries
    PROVE  UNCHANGED Contract!vars
<1>1. statusBar' = statusBar /\ attemptsBar' = attemptsBar /\ budgetBar' = budgetBar
  BY DEF statusBar, attemptsBar, budgetBar
<1> QED BY <1>1 DEF Contract!vars, statusBar, attemptsBar, budgetBar

(* Enqueue, RequeueDeadTask and DeleteDeadTask are the contract's.         *)
LEMMA CallerRefines ==
    ASSUME IInv, Blank, NEW t \in Tasks,
           \/ \E p \in Procs : (\E i \in EnqueueInputs : Enqueue(p, t, i)) \/ RequeueDeadTask(p, t)
           \/ DeleteDeadTask(t)
    PROVE  Contract!Next
<1>0. TypeOK
  BY DEF IInv
<1>1. ASSUME NEW p \in Procs, NEW i \in EnqueueInputs, Enqueue(p, t, i) PROVE Contract!Next
  <2>1. PICK r \in Rows : /\ row' = [row EXCEPT ![t] = r] /\ r.status = "pending"
                          /\ r.attempts = 0 /\ r.maxRetries = NewEnqueueOptions(i).maxRetries
    BY <1>0, <1>1, EnqueueColumns
  <2>2. row[t].status = "absent" /\ row[t].attempts = 0
    BY <1>1 DEF Enqueue, Blank
  <2>3. PICK n \in Budgeted : n = r.maxRetries
    BY <2>1 DEF Budgeted
  <2>m. Shown(t, r)
    BY <1>0, <2>1, OneMoves
  <2>4. /\ statusBar[t] = "none" /\ statusBar' = [statusBar EXCEPT ![t] = "pending"]
        /\ attemptsBar' = attemptsBar
    BY <2>1, <2>2, <2>m DEF Seen, Shown
  <2>6. budgetBar' = [budgetBar EXCEPT ![t] = n]
    BY <2>3, <2>m DEF Shown
  <2>5. Contract!Enqueue(t, n)
    BY <2>4, <2>6 DEF Contract!Enqueue, Contract!Move, statusBar, attemptsBar, budgetBar
  <2> QED BY <2>3, <2>5 DEF Contract!Next, Budgeted
<1>2. ASSUME NEW p \in Procs, RequeueDeadTask(p, t) PROVE Contract!Next
  <2>1. PICK r \in Rows : /\ row' = [row EXCEPT ![t] = r] /\ r.status = "pending"
                          /\ r.attempts = 0 /\ r.maxRetries = row[t].maxRetries
    BY <1>0, <1>2, RequeueColumns
  <2>2. row[t].status = "dead"
    BY <1>2 DEF RequeueDeadTask
  <2>m. Shown(t, r)
    BY <1>0, <2>1, OneMoves
  <2>3. /\ statusBar[t] = "dead" /\ statusBar' = [statusBar EXCEPT ![t] = "pending"]
        /\ budgetBar' = budgetBar
    BY <2>1, <2>2, <2>m DEF Seen, Shown
  <2>5. attemptsBar' = [attemptsBar EXCEPT ![t] = 0]
    BY <2>1, <2>m DEF Shown
  <2>4. Contract!RequeueDeadTask(t)
    BY <2>3, <2>5 DEF Contract!RequeueDeadTask, Contract!Move, statusBar, attemptsBar, budgetBar
  <2> QED BY <2>4 DEF Contract!Next
<1>3. CASE DeleteDeadTask(t)
  <2>1. PICK r \in Rows : /\ row' = [row EXCEPT ![t] = r] /\ r.status = "deleted"
                          /\ r.attempts = row[t].attempts /\ r.maxRetries = row[t].maxRetries
    BY <1>0, <1>3, DeleteRow DEF MkRow
  <2>2. row[t].status = "dead"
    BY <1>3 DEF DeleteDeadTask
  <2>m. Shown(t, r)
    BY <1>0, <2>1, OneMoves
  <2>3. /\ statusBar[t] = "dead" /\ statusBar' = [statusBar EXCEPT ![t] = "gone"]
        /\ attemptsBar' = attemptsBar /\ budgetBar' = budgetBar
    BY <2>1, <2>2, <2>m DEF Seen, Shown
  <2>4. Contract!DeleteDeadTask(t)
    BY <2>3 DEF Contract!DeleteDeadTask, Contract!Move, statusBar, attemptsBar, budgetBar
  <2> QED BY <2>4 DEF Contract!Next
<1> QED BY <1>1, <1>2, <1>3

(* A claim delivers its task when it takes effect, reported or not.        *)
LEMMA ClaimRefines ==
    ASSUME IInv, NEW w \in Workers, CommitClaim(w) \/ ClaimFails(w)
    PROVE  [Contract!Next]_(Contract!vars)
<1>0. TypeOK /\ Lifecycle /\ Claims
  BY DEF IInv
<1>1. CASE row' = row
  BY <1>1, NoneMoves
<1>2. CASE pc[w] = "commit" /\ Taken(w)
  <2>1. PICK t \in Tasks, r \in Rows :
           /\ t = job[w].task /\ row' = [row EXCEPT ![t] = r] /\ r.status = "running"
           /\ r.attempts = row[t].attempts + 1 /\ r.maxRetries = row[t].maxRetries
    BY <1>2 DEF Taken, MkRow
  <2>2. row[t].status = "pending"
    BY <1>0, <1>2, <2>1 DEF Claims, LockHolds
  <2>m. Shown(t, r)
    BY <1>0, <2>1, OneMoves
  <2>3. /\ statusBar[t] = "pending" /\ statusBar' = [statusBar EXCEPT ![t] = "running"]
        /\ budgetBar' = budgetBar
    BY <2>1, <2>2, <2>m DEF Seen, Shown
  <2>6. attemptsBar' = [attemptsBar EXCEPT ![t] = row[t].attempts + 1]
    BY <2>1, <2>m DEF Shown
  <2>4. attemptsBar' = [attemptsBar EXCEPT ![t] = @ + 1]
    BY <2>6 DEF attemptsBar
  <2>5. Contract!Deliver(t)
    BY <2>3, <2>4 DEF Contract!Deliver, Contract!Move, statusBar, attemptsBar, budgetBar
  <2> QED BY <2>5 DEF Contract!Next
<1> QED BY <1>0, <1>1, <1>2, CommitRow


(* Without failures, handlers work on current claims and nothing expires.  *)
LEMMA NothingFails ==
    ASSUME IInv, BInv, ~ Failing
    PROVE  /\ \A t \in Tasks : ~ Expired(t)
           /\ \A w \in Workers : pc[w] = "handle" => Owns(w)
<1>0. TypeOK /\ LeaseShared /\ Served /\ Bounded
  BY DEF IInv, BInv
<1>1. lapses = 0 /\ crashes = 0 /\ faults = 0
  <2>1. lapses \in Nat /\ crashes \in Nat /\ faults \in Nat
    BY <1>0 DEF TypeOK
  <2> QED BY <1>0, <2>1, BoundAssumption DEF Failing, Bounded
<1>2. /\ \A t \in Tasks : ~ Abandoned(t)
      /\ \A w \in Workers : pc[w] = "handle" => Owns(w)
  BY <1>0, <1>1 DEF Served, Payments
<1> QED BY <1>0, <1>2, ExpiredIsAbandoned

(* A sweep abandons the deliveries it takes back.                          *)
LEMMA SweepRefines ==
    ASSUME IInv, BInv, NEW w \in Workers, Reap(w)
    PROVE  [Contract!Next]_(Contract!vars)
<1>0. TypeOK /\ Lifecycle
  BY DEF IInv
<1>1. CASE row' = row
  BY <1>1, NoneMoves
<1>2. CASE \A t \in Tasks : row'[t] = SweptRow(t)
  <2>0. PICK ts \in SUBSET Tasks : \A t \in Tasks : t \in ts <=> Expired(t)
    <3> DEFINE xs == {t \in Tasks : Expired(t)}
    <3>1. xs \in SUBSET Tasks /\ \A t \in Tasks : t \in xs <=> Expired(t)
      OBVIOUS
    <3> QED BY <3>1
  <2>1. CASE Failing
    <3>1. \A t \in Tasks : /\ t \in ts => statusBar[t] = "running"
                           /\ statusBar'[t] = IF t \in ts THEN "pending" ELSE statusBar[t]
                           /\ attemptsBar'[t] = attemptsBar[t] /\ budgetBar'[t] = budgetBar[t]
      <4> SUFFICES ASSUME NEW t \in Tasks
                   PROVE  /\ t \in ts => statusBar[t] = "running"
                          /\ statusBar'[t] = IF t \in ts THEN "pending" ELSE statusBar[t]
                          /\ attemptsBar'[t] = attemptsBar[t] /\ budgetBar'[t] = budgetBar[t]
        OBVIOUS
      <4>1. CASE Expired(t)
        <5>1. /\ row'[t].status = "pending" /\ row'[t].attempts = row[t].attempts
              /\ row'[t].maxRetries = row[t].maxRetries /\ row[t].status = "running"
          <6>1. row'[t] = MkRow("pending", row[t].attempts, row[t].maxRetries, row[t].wait, 0,
                                row[t].life, NoProc, FALSE)
            BY <1>2, <4>1 DEF SweptRow
          <6> QED BY <4>1, <6>1 DEF MkRow, Expired
        <5> QED BY <2>0, <4>1, <5>1 DEF statusBar, attemptsBar, budgetBar
      <4>2. CASE ~ Expired(t)
        <5>1. row'[t] = row[t]
          BY <1>2, <4>2 DEF SweptRow
        <5> QED BY <2>0, <4>2, <5>1 DEF statusBar, attemptsBar, budgetBar
      <4> QED BY <4>1, <4>2
    <3>2. statusBar' = [t \in Tasks |-> IF t \in ts THEN "pending" ELSE statusBar[t]]
      BY <3>1 DEF statusBar
    <3>3. attemptsBar' = attemptsBar /\ budgetBar' = budgetBar
      BY <3>1 DEF attemptsBar, budgetBar
    <3>4. Contract!Abandon(ts)
      BY <2>1, <3>1, <3>2, <3>3
         DEF Contract!Abandon, Failing, statusBar, attemptsBar, budgetBar
    <3> QED BY <3>4 DEF Contract!Next
  <2>2. CASE ~ Failing
    <3>1. \A t \in Tasks : row'[t] = row[t]
      BY <1>2, <2>2, NothingFails DEF SweptRow
    <3> QED BY <3>1, NoneMoves
  <2> QED BY <2>1, <2>2
<1> QED BY <1>0, <1>1, <1>2, ReapRows

(* A handler returns: its task is acknowledged, in time or late, retried   *)
(* within its budget or, the budget exhausted, dead.                       *)
LEMMA ReturnRefines ==
    ASSUME IInv, BInv, NEW w \in Workers, HandlerReturns(w)
    PROVE  [Contract!Next]_(Contract!vars)
<1>0. TypeOK /\ Lifecycle /\ Claims
  BY DEF IInv
<1>w. pc[w] = "handle" /\ job[w].attempts \in Nat
  BY <1>0, ReturnRow, Claiming DEF Release
<1>t. PICK t \in Tasks : t = job[w].task
  BY <1>0, ReturnRow
<1>1. row[t].status # "absent" /\ row[t].attempts \in Nat /\ row[t].maxRetries \in Nat
  BY <1>0, <1>w, <1>t, RowFacts DEF Claims, NotAhead, TypeOK
<1>2. CASE row' = row
  BY <1>2, NoneMoves
<1>3. CASE Moved(t, "deleted")
  <2>1. PICK r \in Rows : /\ row' = [row EXCEPT ![t] = r] /\ r.status = "deleted"
                          /\ r.attempts = row[t].attempts /\ r.maxRetries = row[t].maxRetries
    BY <1>3 DEF Moved, MkRow
  <2>2. Shown(t, r)
    BY <1>0, <2>1, OneMoves
  <2>3. statusBar' = [statusBar EXCEPT ![t] = "gone"] /\ attemptsBar' = attemptsBar
        /\ budgetBar' = budgetBar
    BY <2>1, <2>2 DEF Shown, Seen
  <2>4. CASE row[t].status = "running"
    <3>1. statusBar[t] = "running"
      BY <2>2, <2>4 DEF Shown, Seen
    <3>2. Contract!Acknowledge(t)
      BY <2>3, <3>1 DEF Contract!Acknowledge, Contract!Move, statusBar, attemptsBar, budgetBar
    <3> QED BY <3>2 DEF Contract!Next
  <2>5. CASE row[t].status \in {"pending", "dead"}
    <3>1. statusBar[t] \in {"pending", "dead"}
      BY <2>2, <2>5 DEF Shown, Seen
    <3>2. Failing
      BY <1>w, <1>t, <2>5, NothingFails DEF Owns
    <3>3. Contract!AcknowledgeLate(t)
      BY <2>3, <3>1, <3>2
         DEF Contract!AcknowledgeLate, Contract!Move, Failing, statusBar, attemptsBar, budgetBar
    <3> QED BY <3>3 DEF Contract!Next
  <2>6. CASE row[t].status = "deleted"
    <3>1. row'[t] = r /\ \A x \in Tasks : x # t => row'[x] = row[x]
      BY <1>0, <2>1, OneRowType
    <3> QED BY <2>1, <2>6, <3>1, NoneMoves
  <2>7. row[t].status \in {"absent", "pending", "running", "dead", "deleted"}
    BY <1>0, RowFacts DEF TypeOK, Statuses
  <2> QED BY <1>1, <2>4, <2>5, <2>6, <2>7
<1>4. CASE Bury(w) /\ Guard(job[w]) /\ Moved(t, "dead")
  <2>1. PICK r \in Rows : /\ row' = [row EXCEPT ![t] = r] /\ r.status = "dead"
                          /\ r.attempts = row[t].attempts /\ r.maxRetries = row[t].maxRetries
    BY <1>4 DEF Moved, MkRow
  <2>2. Shown(t, r)
    BY <1>0, <2>1, OneMoves
  <2>3. row[t].status = "running" /\ row[t].attempts > row[t].maxRetries
    BY <1>4, <1>t DEF Bury, Guard, Exhausted
  <2>4. /\ statusBar[t] = "running" /\ statusBar' = [statusBar EXCEPT ![t] = "dead"]
        /\ attemptsBar' = attemptsBar /\ budgetBar' = budgetBar
    BY <2>1, <2>2, <2>3 DEF Shown, Seen
  <2>5. attemptsBar[t] > budgetBar[t]
    BY <2>3 DEF attemptsBar, budgetBar
  <2>6. Contract!Die(t)
    BY <2>4, <2>5 DEF Contract!Die, Contract!Move, statusBar, attemptsBar, budgetBar
  <2> QED BY <2>6 DEF Contract!Next
<1>5. ASSUME NEW by, Retried(t, by), Guard(job[w]), ~ Exhausted(job[w])
      PROVE  Contract!Next
  <2>1. PICK r \in Rows : /\ row' = [row EXCEPT ![t] = r] /\ r.status = "pending"
                          /\ r.attempts = row[t].attempts /\ r.maxRetries = row[t].maxRetries
    BY <1>5 DEF Retried, MkRow
  <2>2. Shown(t, r)
    BY <1>0, <2>1, OneMoves
  <2>3. row[t].status = "running" /\ row[t].attempts <= row[t].maxRetries
    BY <1>1, <1>5, <1>t DEF Guard, Exhausted
  <2>4. /\ statusBar[t] = "running" /\ statusBar' = [statusBar EXCEPT ![t] = "pending"]
        /\ attemptsBar' = attemptsBar /\ budgetBar' = budgetBar
    BY <2>1, <2>2, <2>3 DEF Shown, Seen
  <2>5. attemptsBar[t] <= budgetBar[t]
    BY <2>3 DEF attemptsBar, budgetBar
  <2>6. Contract!Retry(t)
    BY <2>4, <2>5 DEF Contract!Retry, Contract!Move, statusBar, attemptsBar, budgetBar
  <2> QED BY <2>6 DEF Contract!Next
<1> QED BY <1>0, <1>t, <1>2, <1>3, <1>4, <1>5, ReturnRow DEF Reschedule

(* Every step is a step of the contract or invisible to it.                *)
LEMMA ContractStep == IInv /\ BInv /\ [Next]_vars => [Contract!Next]_(Contract!vars)
<1> SUFFICES ASSUME IInv, BInv, [Next]_vars PROVE [Contract!Next]_(Contract!vars)
  OBVIOUS
<1>0. TypeOK /\ Lifecycle /\ Blank
  BY DEF IInv, BInv
<1>1. ASSUME NEW p \in Procs, Crash(p) PROVE UNCHANGED Contract!vars
  BY <1>1, NoneMoves DEF Crash
<1>2. ASSUME NEW w \in Workers, NEW t \in Tasks, LockRow(w, t) PROVE UNCHANGED Contract!vars
  BY <1>2, NoneMoves DEF LockRow
<1>3. ASSUME NEW w \in Workers, NotifyReaped(w) PROVE UNCHANGED Contract!vars
  BY <1>0, <1>3, NotifyRows, NoneMoves
<1>4. ASSUME Tick PROVE UNCHANGED Contract!vars
  <2>1. \A x \in Tasks : row'[x] = Aged(x)
    BY <1>4 DEF Tick
  <2>2. \A x \in Tasks : /\ row'[x].status = row[x].status
                         /\ row'[x].attempts = row[x].attempts
                         /\ row'[x].maxRetries = row[x].maxRetries
    BY <1>0, <2>1, AgedFacts DEF MkRow
  <2> QED BY <2>2, NoneMoves
<1>5. ASSUME Quiet PROVE UNCHANGED Contract!vars
  BY <1>5, NoneMoves DEF Quiet
<1> QED BY <1>0, <1>1, <1>2, <1>3, <1>4, <1>5, StepCases, CallerRefines, ClaimRefines,
           SweepRefines, ReturnRefines

(* The PostgreSQL back end implements the contract of workqueue.go for     *)
(* every number of processes, workers and tasks: the strict one, one       *)
(* consumer at a time and no delivery given up, when no lease lapses, no   *)
(* process crashes and every statement answers; the one with leases        *)
(* otherwise, and then death still comes exactly when a failure exhausts   *)
(* the budget, and only the two calls and a late success take a row out of *)
(* the dead-letter queue.                                                  *)
THEOREM ContractImplemented == Spec => ImplementsContract
<1>1. Init => Contract!Init
  BY DEF Init, Contract!Init
<1> QED BY <1>1, ContractStep, InvariantHolds, PaymentsHold, PTL
        DEF Spec, ImplementsContract, Contract!Spec


-----------------------------------------------------------------------------
(* Wake-ups, until the database first returns an error: a claim that ends  *)
(* with an error makes its worker sleep a whole poll interval.             *)

(* A tick counts a row's wait down, and nothing else does.                 *)
Passed(m, n) == n = IF Tick THEN CountDown(m) ELSE m

(* A tick counts the timer down, or, before its start, makes it late.      *)
SleptOn(w) == \/ ~ Tick /\ sleep'[w] = sleep[w] /\ late'[w] = late[w]
              \/ Tick /\ sleep'[w] = CountDown(sleep[w]) /\ late'[w] = late[w]
              \/ Tick /\ sleep'[w] = sleep[w] /\ late'[w] = late[w] + 1

(* A sleep that ends in time, but for what the reap takes, still does      *)
(* after time has passed for both the sleep and the row.                   *)
LEMMA UpStep ==
    ASSUME NEW w, sleep[w] \in Nat, late[w] \in Nat, NEW t,
           row[t].wait \in Nat, row'[t].wait \in Nat,
           SleptOn(w), Passed(row[t].wait, row'[t].wait), UpFor(w, t)
    PROVE  UpFor(w, t)'
BY DEF SleptOn, Passed, CountDown, UpFor, Larger

(* The second query of a claim finds the row that is due first.            *)
LEMMA WaitFound ==
    ASSUME TypeOK, NEW wait, NextWait(wait), NEW t \in Pending
    PROVE  wait <= Larger(row[t].wait, 1)
<1> DEFINE waits == {row[x].wait : x \in Pending}
<1>1. row[t].wait \in waits /\ waits \subseteq Nat
  BY RowFacts DEF Pending, TypeOK
<1>2. PICK m \in waits : /\ \A n \in waits : m <= n
                         /\ wait = IF m < PollInterval THEN Larger(m, 1) ELSE PollInterval
  BY <1>1 DEF NextWait
<1>3. m \in Nat /\ row[t].wait \in Nat /\ m <= row[t].wait
  BY <1>1, <1>2
<1> HIDE DEF waits
<1> QED BY <1>2, <1>3, BoundAssumption DEF Larger

(* The worker that made it is up for every pending row.                    *)
LEMMA QueriedStep ==
    ASSUME TypeOK, NEW w \in Workers, NEW wait, QueryNext(w, wait), NEW t \in Pending'
    PROVE  UpFor(w, t)'
<1>1. /\ row' = row /\ sleep'[w] = wait /\ late'[w] = 0 /\ NextWait(wait)
      /\ t \in Pending /\ t \in Tasks
  BY DEF QueryNext, GiveUp, TypeOK, Pending
<1>2. wait <= Larger(row[t].wait, 1)
  BY <1>1, WaitFound
<1>3. row[t].wait \in Nat
  BY <1>1, RowFacts DEF TypeOK
<1>4. sleep'[w] <= Larger(row'[t].wait, 1) /\ row'[t].wait \in Nat
  BY <1>1, <1>2, <1>3
<1> QED BY <1>1, <1>4 DEF UpFor, Larger

(* A worker that dozes has just queried the table, or dozed before.        *)
LEMMA DozeStep ==
    ASSUME IInv, [Next]_vars, faults' = faults, NEW w \in Workers, Dozes(w)'
    PROVE  \/ \E wait \in 1 .. PollInterval : QueryNext(w, wait)
           \/ Dozes(w) /\ SleptOn(w)
<1>0. TypeOK
  BY DEF IInv
<1>1. pc'[w] \in {"reap", "notify", "wait"} /\ ~ woken'[w]
  BY DEF Dozes, Reaping
<1> DEFINE Goal == \/ \E wait \in 1 .. PollInterval : QueryNext(w, wait)
                   \/ Dozes(w) /\ SleptOn(w)
<1>2. ASSUME Tick PROVE Goal
  <2>1. /\ pc' = pc /\ woken' = woken
        /\ sleep'[w] = IF pc[w] = "wait" THEN CountDown(sleep[w]) ELSE sleep[w]
        /\ late'[w] = IF Reaping(w) THEN late[w] + 1 ELSE late[w]
    BY <1>2 DEF Tick
  <2> QED BY <1>1, <1>2, <2>1 DEF Dozes, Reaping, SleptOn
<1>3. ASSUME ~ Tick, pc[w] \in {"reap", "notify", "wait"}, ~ woken[w], sleep'[w] = sleep[w],
             late'[w] = late[w]
      PROVE  Goal
  BY <1>3 DEF Dozes, Reaping, SleptOn
<1> HIDE DEF Goal
<1>4. ASSUME NEW p \in Procs, BroadcastLocal(p) PROVE ~ woken[w]
  BY <1>1, <1>4 DEF BroadcastLocal
<1>5. ASSUME ~ Tick, NEW p \in Procs, NEW t \in Tasks,
             (\E i \in EnqueueInputs : Enqueue(p, t, i)) \/ RequeueDeadTask(p, t)
      PROVE  Goal
  BY <1>1, <1>3, <1>4, <1>5 DEF Enqueue, RequeueDeadTask, Announce
<1>6. ASSUME ~ Tick, NEW t \in Tasks, DeleteDeadTask(t) PROVE Goal
  BY <1>1, <1>3, <1>6 DEF DeleteDeadTask, workerVars
<1>7. ASSUME ~ Tick, NEW p \in Procs, Consume(p) \/ Stop(p) \/ CloseDone(p) \/ Close(p)
      PROVE  Goal
  BY <1>0, <1>1, <1>3, <1>7 DEF Consume, Stop, CloseDone, Close, workerVars
<1>8. ASSUME ~ Tick, NEW p \in Procs, Crash(p) PROVE Goal
  <2>1. w \notin WorkersOf(p)
    BY <1>1, <1>8 DEF Crash
  <2>2. pc'[w] = pc[w] /\ woken'[w] = woken[w] /\ sleep'[w] = sleep[w] /\ late'[w] = late[w]
    BY <1>8, <2>1 DEF Crash
  <2> QED BY <1>1, <1>3, <1>8, <2>2
<1>9. ASSUME ~ Tick, NEW p \in Procs, ListenerMoves(p) \/ ListenerWakes(p) \/ ConnectionDrops(p)
      PROVE  Goal
  BY <1>1, <1>3, <1>4, <1>9 DEF ListenerMoves, ListenerWakes, ConnectionDrops, workerVars
<1>10. ASSUME ~ Tick, NEW v \in Workers, WorkerStep(v) PROVE Goal
  <2>1. CASE Begin(v) \/ Wake(v)
    BY <1>0, <1>1, <1>3, <1>10, <2>1 DEF Begin, Wake, Go, TypeOK
  <2>2. ASSUME NEW t \in Tasks, LockRow(v, t) PROVE Goal
    BY <1>0, <1>1, <1>3, <1>10, <2>2 DEF LockRow, Go, TypeOK
  <2>3. CASE CommitClaim(v) \/ FindNothing(v)
    BY <1>0, <1>1, <1>3, <1>10, <2>3 DEF CommitClaim, FindNothing, Go, TypeOK
  <2>4. ASSUME NEW wait \in 1 .. PollInterval, QueryNext(v, wait) PROVE Goal
    <3>1. CASE v = w
      BY <2>4, <3>1 DEF Goal
    <3>2. CASE v # w
      BY <1>0, <1>1, <1>3, <1>10, <2>4, <3>2 DEF QueryNext, GiveUp, Go, TypeOK
    <3> QED BY <3>1, <3>2
  <2>5. CASE ClaimFails(v)
    BY <1>0, <2>5 DEF ClaimFails, Fault, TypeOK
  <2>6. CASE Reap(v) \/ NotifyReaped(v)
    BY <1>0, <1>1, <1>3, <1>10, <2>6 DEF Reap, NotifyReaped, Go, TypeOK
  <2> QED BY <1>10, <2>1, <2>2, <2>3, <2>4, <2>5, <2>6 DEF WorkerStep
<1>11. ASSUME ~ Tick, NEW v \in Workers, HandlerReturns(v) PROVE Goal
  <2>1. Release(v)
    BY <1>11 DEF HandlerReturns, HandlerSucceeds, Bury, Reschedule, CompleteFails
  <2>2. pc[w] \in {"reap", "notify", "wait"} /\ sleep' = sleep /\ late' = late
    BY <1>0, <1>1, <2>1 DEF Release, Go, TypeOK
  <2>3. woken' = woken \/ BroadcastLocal(ProcOf[v])
    BY <1>11 DEF HandlerReturns, HandlerSucceeds, Bury, Reschedule, CompleteFails
  <2>4. ProcOf[v] \in Procs
    BY DeploymentAssumption
  <2> QED BY <1>1, <1>3, <1>4, <1>11, <2>2, <2>3, <2>4
<1>12. ASSUME ~ Tick, UNCHANGED vars PROVE Goal
  BY <1>1, <1>3, <1>12 DEF vars, workerVars
<1>13. Goal
  BY <1>2, <1>5, <1>6, <1>7, <1>8, <1>9, <1>10, <1>11, <1>12, NextCases
<1> QED BY <1>13 DEF Goal


(* A pending row was pending before, or whoever scheduled it has told the  *)
(* workers of his process; an announced one was announced before, or the   *)
(* announcement is sent with this step.                                    *)
ToldHere(t) == \/ t \in Pending /\ row'[t].by = row[t].by /\ Passed(row[t].wait, row'[t].wait)
               \/ row'[t].by = NoProc
               \/ BroadcastLocal(row'[t].by)

ToldAll(t) == row'[t].heard =>
                 \/ t \in Pending /\ row[t].heard /\ Passed(row[t].wait, row'[t].wait)
                 \/ Notify

(* A write to one row announces that row only.                             *)
LEMMA OneTold ==
    ASSUME TypeOK, ~ Tick, NEW t \in Tasks, NEW r \in Rows, row' = [row EXCEPT ![t] = r],
           r.status = "pending" => ToldHere(t) /\ ToldAll(t)
    PROVE  \A x \in Pending' : ToldHere(x) /\ ToldAll(x)
<1>1. row'[t] = r /\ \A x \in Tasks : x # t => row'[x] = row[x]
  BY OneRowType
<1> QED BY <1>1 DEF Pending, ToldHere, ToldAll, Passed

(* While the database answers, a row becomes pending, or due sooner, only  *)
(* together with a broadcast to the workers that are to know of it.        *)
LEMMA PendingStep ==
    ASSUME IInv, [Next]_vars, faults' = faults
    PROVE  \A x \in Pending' : ToldHere(x) /\ ToldAll(x)
<1>0. TypeOK /\ Lifecycle
  BY DEF IInv
<1> DEFINE Goal == \A x \in Pending' : ToldHere(x) /\ ToldAll(x)
<1>1. ASSUME ~ Tick, row' = row PROVE Goal
  BY <1>1 DEF Pending, ToldHere, ToldAll, Passed
<1>2. ASSUME Tick PROVE Goal
  <2> SUFFICES ASSUME NEW x \in Pending' PROVE ToldHere(x) /\ ToldAll(x)
    OBVIOUS
  <2>1. x \in Tasks /\ row'[x].status = "pending" /\ row'[x] = Aged(x)
    BY <1>2 DEF Tick, Pending
  <2>2. /\ row[x].status = "pending" /\ row'[x].by = row[x].by
        /\ row'[x].wait = CountDown(row[x].wait) /\ row'[x].heard = row[x].heard
    BY <1>0, <2>1, AgedFacts DEF MkRow
  <2> QED BY <1>2, <2>1, <2>2 DEF Pending, ToldHere, ToldAll, Passed
<1> HIDE DEF Goal
<1>3. ASSUME ~ Tick, NEW t \in Tasks, NEW p \in Procs, Announce(p, t)
      PROVE  ToldHere(t) /\ ToldAll(t)
  BY <1>3 DEF Announce, ToldHere, ToldAll
<1>4. ASSUME ~ Tick, NEW p \in Procs, NEW t \in Tasks,
             (\E i \in EnqueueInputs : Enqueue(p, t, i)) \/ RequeueDeadTask(p, t)
      PROVE  Goal
  <2>1. PICK r \in Rows : row' = [row EXCEPT ![t] = r]
    BY <1>0, <1>4, EnqueueColumns, RequeueColumns
  <2>2. Announce(p, t)
    BY <1>4 DEF Enqueue, RequeueDeadTask
  <2> QED BY <1>0, <1>3, <1>4, <2>1, <2>2, OneTold DEF Goal
<1>5. ASSUME ~ Tick, NEW t \in Tasks, DeleteDeadTask(t) PROVE Goal
  <2>1. PICK r \in Rows : row' = [row EXCEPT ![t] = r] /\ r.status = "deleted"
    BY <1>0, <1>5, DeleteRow DEF MkRow
  <2> QED BY <1>0, <1>5, <2>1, OneTold DEF Goal
<1>6. ASSUME ~ Tick, NEW w \in Workers, CommitClaim(w) \/ ClaimFails(w) PROVE Goal
  <2>1. CASE Taken(w)
    <3>1. PICK t \in Tasks, r \in Rows : row' = [row EXCEPT ![t] = r] /\ r.status = "running"
      BY <2>1 DEF Taken, MkRow
    <3> QED BY <1>0, <1>6, <3>1, OneTold DEF Goal
  <2> QED BY <1>0, <1>1, <1>6, <2>1, CommitRow
<1>7. ASSUME ~ Tick, NEW w \in Workers, Reap(w) PROVE Goal
  <2> SUFFICES ASSUME NEW x \in Pending' PROVE ToldHere(x) /\ ToldAll(x)
    BY DEF Goal
  <2>1. x \in Tasks /\ row'[x].status = "pending" /\ (row'[x] = row[x] \/ row'[x] = SweptRow(x))
    BY <1>0, <1>7, ReapRows DEF Pending
  <2>2. CASE row'[x] = row[x] \/ ~ Expired(x)
    BY <1>7, <2>1, <2>2 DEF SweptRow, Pending, ToldHere, ToldAll, Passed
  <2>3. CASE row'[x] = SweptRow(x) /\ Expired(x)
    <3>1. row'[x].by = NoProc /\ ~ row'[x].heard
      BY <2>3 DEF SweptRow, MkRow
    <3> QED BY <3>1 DEF ToldHere, ToldAll
  <2> QED BY <2>1, <2>2, <2>3
<1>8. ASSUME ~ Tick, NEW w \in Workers, NotifyReaped(w) PROVE Goal
  <2>1. CASE row' = row
    BY <1>1, <1>8, <2>1
  <2>2. CASE Notify
    BY <1>0, <1>8, <2>2, NotifyRows DEF Goal, Pending, ToldHere, ToldAll, Passed
  <2> QED BY <1>8, <2>1, <2>2 DEF NotifyReaped
<1>9. ASSUME ~ Tick, NEW w \in Workers, HandlerReturns(w) PROVE Goal
  <2>t. PICK t \in Tasks : t = job[w].task
    BY <1>0, <1>9, ReturnRow
  <2>1. ASSUME NEW s \in {"dead", "deleted"}, Moved(t, s) PROVE Goal
    <3>1. PICK r \in Rows : row' = [row EXCEPT ![t] = r] /\ r.status = s
      BY <2>1 DEF Moved, MkRow
    <3> QED BY <1>0, <1>9, <3>1, OneTold DEF Goal
  <2>2. CASE Reschedule(w) /\ Retried(t, ProcOf[w])
    <3>1. PICK r \in Rows : row' = [row EXCEPT ![t] = r] /\ r.by = ProcOf[w] /\ ~ r.heard
      BY <2>2 DEF Retried, MkRow
    <3>2. row'[t] = r
      BY <1>0, <3>1, OneRowType
    <3>3. BroadcastLocal(ProcOf[w])
      BY <2>2 DEF Reschedule
    <3>4. ToldHere(t) /\ ToldAll(t)
      BY <3>1, <3>2, <3>3 DEF ToldHere, ToldAll
    <3> QED BY <1>0, <1>9, <3>1, <3>4, OneTold DEF Goal
  <2>3. ~ CompleteFails(w)
    BY <1>0 DEF CompleteFails, Fault, TypeOK
  <2> QED BY <1>0, <1>1, <1>9, <2>t, <2>1, <2>2, <2>3, ReturnRow
<1>10. ASSUME ~ Tick, NEW p \in Procs, Crash(p) PROVE Goal
  BY <1>1, <1>10 DEF Crash
<1>11. ASSUME ~ Tick, NEW w \in Workers, NEW t \in Tasks, LockRow(w, t) PROVE Goal
  BY <1>1, <1>11 DEF LockRow
<1>12. ASSUME ~ Tick, Quiet PROVE Goal
  BY <1>1, <1>12 DEF Quiet
<1>13. Goal
  BY <1>0, <1>2, <1>4, <1>5, <1>6, <1>7, <1>8, <1>9, <1>10, <1>11, <1>12, StepCases
<1> QED BY <1>13 DEF Goal

(* Workers are up for the rows of their own process,                       *)
LEMMA LocalWakeStep ==
    ASSUME IInv, IInv', LocalWake, [Next]_vars, faults' = faults
    PROVE  LocalWake'
<1> SUFFICES ASSUME NEW w \in Workers, NEW t \in Pending', Dozes(w)', row'[t].by = ProcOf[w]
             PROVE  UpFor(w, t)'
  BY DEF LocalWake
<1>0. TypeOK /\ TypeOK' /\ t \in Tasks /\ ProcOf[w] \in Procs /\ ProcOf[w] # NoProc
  BY DeploymentAssumption DEF IInv, Pending
<1>1. /\ row[t].wait \in Nat /\ row'[t].wait \in Nat
      /\ sleep[w] \in Nat /\ late[w] \in Nat
  BY <1>0, RowFacts DEF TypeOK
<1>2. ASSUME NEW wait, QueryNext(w, wait) PROVE UpFor(w, t)'
  BY <1>0, <1>2, QueriedStep
<1>3. CASE Dozes(w) /\ SleptOn(w)
  <2>1. ~ BroadcastLocal(ProcOf[w])
    BY <1>3 DEF BroadcastLocal, Dozes, Reaping
  <2>2. t \in Pending /\ row[t].by = ProcOf[w] /\ Passed(row[t].wait, row'[t].wait)
    BY <1>0, <2>1, PendingStep DEF ToldHere
  <2>3. UpFor(w, t)
    BY <1>3, <2>2 DEF LocalWake
  <2> QED BY <1>1, <1>3, <2>2, <2>3, UpStep
<1> QED BY <1>2, <1>3, DozeStep

(* A process that waits for notifications and has received all of them did *)
(* so before, or has just woken its workers.                               *)
LEMMA ConnStep ==
    ASSUME IInv, [Next]_vars, NEW p \in Procs, conn'[p] = "wait", inbox'[p] = 0
    PROVE  (conn[p] = "wait" /\ inbox[p] = 0 /\ ~ Notify) \/ BroadcastLocal(p)
<1>0. TypeOK /\ conn \in [Procs -> ConnStates] /\ inbox \in [Procs -> Nat]
  BY DEF IInv, TypeOK, ListenerTypeOK
<1>1. ~ Notify
  BY <1>0 DEF Notify, Hears
<1>2. ASSUME conn'[p] = conn[p], inbox'[p] = inbox[p]
      PROVE  conn[p] = "wait" /\ inbox[p] = 0
  BY <1>2
<1> DEFINE Goal == (conn[p] = "wait" /\ inbox[p] = 0) \/ BroadcastLocal(p)
<1>3. ASSUME NEW q \in Procs, NEW t \in Tasks,
             (\E i \in EnqueueInputs : Enqueue(q, t, i)) \/ RequeueDeadTask(q, t)
      PROVE  Goal
  BY <1>1, <1>3 DEF Enqueue, RequeueDeadTask, Announce
<1>4. ASSUME NEW t \in Tasks, DeleteDeadTask(t) PROVE Goal
  BY <1>4 DEF DeleteDeadTask, listenerVars
<1>5. ASSUME NEW q \in Procs, Consume(q) \/ Stop(q) \/ CloseDone(q) PROVE Goal
  BY <1>5 DEF Consume, Stop, CloseDone, listenerVars
<1>6. ASSUME NEW q \in Procs, Close(q) \/ ConnectionDrops(q) PROVE Goal
  BY <1>0, <1>6 DEF Close, CloseListener, ConnectionDrops, LoseConnection
<1>7. ASSUME NEW q \in Procs, Crash(q) PROVE Goal
  BY <1>0, <1>7 DEF Crash, RestartListener, Started
<1>8. ASSUME NEW q \in Procs, ListenerMoves(q) PROVE Goal
  BY <1>0, <1>8 DEF ListenerMoves, ListenerStep, Listen, Reconnect
<1>9. ASSUME NEW q \in Procs, ListenerWakes(q) PROVE Goal
  BY <1>0, <1>9 DEF ListenerWakes, WakeAll, Receive
<1>10. ASSUME NEW w \in Workers, WorkerStep(w) PROVE Goal
  BY <1>1, <1>10 DEF WorkerStep, Begin, LockRow, CommitClaim, FindNothing, QueryNext, ClaimFails,
                     GiveUp, Reap, NotifyReaped, Wake, listenerVars
<1>11. ASSUME NEW w \in Workers, HandlerReturns(w) PROVE Goal
  BY <1>11 DEF HandlerReturns, HandlerSucceeds, Bury, Reschedule, CompleteFails, Release,
               listenerVars
<1>12. ASSUME Tick PROVE Goal
  BY <1>12 DEF Tick
<1>13. ASSUME UNCHANGED vars PROVE Goal
  BY <1>13 DEF vars, listenerVars
<1> HIDE DEF Goal
<1>14. Goal
  BY <1>3, <1>4, <1>5, <1>6, <1>7, <1>8, <1>9, <1>10, <1>11, <1>12, <1>13, NextCases
<1> QED BY <1>1, <1>14 DEF Goal

(* and for the rows they were told of.                                     *)
LEMMA RemoteWakeStep ==
    ASSUME IInv, IInv', RemoteWake, [Next]_vars, faults' = faults
    PROVE  RemoteWake'
<1> DEFINE P(w) == ProcOf[w]
<1> SUFFICES ASSUME NEW w \in Workers, NEW t \in Pending', Dozes(w)', row'[t].heard,
                    conn'[P(w)] = "wait", inbox'[P(w)] = 0
             PROVE  UpFor(w, t)'
  BY DEF RemoteWake
<1>0. TypeOK /\ TypeOK' /\ t \in Tasks /\ P(w) \in Procs
  BY DeploymentAssumption DEF IInv, Pending
<1>1. /\ row[t].wait \in Nat /\ row'[t].wait \in Nat
      /\ sleep[w] \in Nat /\ late[w] \in Nat
  BY <1>0, RowFacts DEF TypeOK
<1>2. ASSUME NEW wait, QueryNext(w, wait) PROVE UpFor(w, t)'
  BY <1>0, <1>2, QueriedStep
<1>3. CASE Dozes(w) /\ SleptOn(w)
  <2>1. ~ BroadcastLocal(P(w))
    BY <1>3 DEF BroadcastLocal, Dozes, Reaping
  <2>2. conn[P(w)] = "wait" /\ inbox[P(w)] = 0 /\ ~ Notify
    BY <1>0, <2>1, ConnStep
  <2>3. t \in Pending /\ row[t].heard /\ Passed(row[t].wait, row'[t].wait)
    BY <1>0, <2>2, PendingStep DEF ToldAll
  <2>4. UpFor(w, t)
    BY <1>3, <2>2, <2>3 DEF RemoteWake
  <2> QED BY <1>1, <1>3, <2>3, <2>4, UpStep
<1> QED BY <1>2, <1>3, DozeStep

(* The inductive step of both, until the first error of the database.      *)
LEMMA WakeHolds == Spec => [](faults = 0 => LocalWake /\ RemoteWake)
<1>1. Init => (faults = 0 => LocalWake /\ RemoteWake)
  BY DEF Init, LocalWake, RemoteWake, Pending
<1>2. IInv /\ IInv' /\ (faults = 0 => LocalWake /\ RemoteWake) /\ [Next]_vars
        => (faults = 0 => LocalWake /\ RemoteWake)'
  <2> SUFFICES ASSUME IInv, IInv', faults = 0 => LocalWake /\ RemoteWake, [Next]_vars,
                      faults' = 0
               PROVE  LocalWake' /\ RemoteWake'
    OBVIOUS
  <2>1. TypeOK /\ Lifecycle /\ faults \in Nat
    BY DEF IInv, TypeOK
  <2>2. faults' = faults /\ faults = 0
    BY <2>1, CountStep
  <2> QED BY <2>2, LocalWakeStep, RemoteWakeStep
<1> QED BY <1>1, <1>2, InvariantHolds, PTL DEF Spec

(* Until the database first returns an error, a worker is up for every row *)
(* its own process scheduled, later only by what the reap and its NOTIFY   *)
(* took, however long that is: broadcastLocal reaches every worker that    *)
(* has captured the channel, even while its query is under way.            *)
THEOREM LocalWakeups == Spec => [](faults = 0 => LocalWake)
<1>1. (faults = 0 => LocalWake /\ RemoteWake) => (faults = 0 => LocalWake)
  OBVIOUS
<1> QED BY <1>1, WakeHolds, PTL

(* Until then, a worker of a process that listens and has received every   *)
(* notification is up, but for the same delay, for every row any process   *)
(* announced, however often the connection was lost: waking all queues     *)
(* once LISTEN is in force covers what was announced while nobody          *)
(* listened.                                                               *)
THEOREM RemoteWakeups == Spec => [](faults = 0 => RemoteWake)
<1>1. (faults = 0 => LocalWake /\ RemoteWake) => (faults = 0 => RemoteWake)
  OBVIOUS
<1> QED BY <1>1, WakeHolds, PTL
=============================================================================
