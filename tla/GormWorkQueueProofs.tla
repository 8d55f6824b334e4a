------------------------- MODULE GormWorkQueueProofs -------------------------
(***************************************************************************)
(* The database back end, for any number of tasks, processes and workers,  *)
(* any lease, and any number of lapses, crashes and database errors.       *)
(***************************************************************************)
EXTENDS GormWorkQueue, OptionsProofs

(* The types of the columns.  What each statement assigns follows; the     *)
(* columns it does not assign keep their values.                           *)
LEMMA RowFacts ==
    ASSUME NEW r \in Rows
    PROVE  /\ r.attempts \in Nat /\ r.life \in Nat /\ r.wait \in Nat /\ r.lease \in Int
           /\ r.maxRetries \in Nat /\ r.by \in Procs \cup {NoProc}
           /\ r.status \in {"absent", "pending", "running", "dead", "deleted"}
BY DEF Rows

(* RequeueDeadTask's UPDATE.                                               *)
LEMMA RevivedFacts ==
    ASSUME TypeOK, NEW t \in Tasks, NEW by \in Procs \cup {NoProc}
    PROVE  /\ Revived(t, by) \in Rows
           /\ Revived(t, by).life = row[t].life + 1
           /\ Revived(t, by).status = "pending"
           /\ Revived(t, by).by = by
           /\ Revived(t, by).attempts = 0
           /\ Revived(t, by).maxRetries = row[t].maxRetries
<1>0. row[t] \in Rows /\ row[t].life + 1 \in Nat
  BY RowFacts DEF TypeOK
<1> DEFINE r1 == [row[t] EXCEPT !.status = "pending"]
<1>1. r1 \in Rows
  BY <1>0 DEF Rows
<1> HIDE DEF r1
<1> DEFINE r2 == [r1 EXCEPT !.attempts = 0]
<1>2. r2 \in Rows
  BY <1>0, <1>1 DEF Rows
<1> HIDE DEF r2
<1> DEFINE r3 == [r2 EXCEPT !.wait = 0]
<1>3. r3 \in Rows
  BY <1>0, <1>2 DEF Rows
<1> HIDE DEF r3
<1> DEFINE r4 == [r3 EXCEPT !.life = row[t].life + 1]
<1>4. r4 \in Rows
  BY <1>0, <1>3 DEF Rows
<1> HIDE DEF r4
<1> DEFINE r5 == [r4 EXCEPT !.by = by]
<1>5. r5 \in Rows
  BY <1>0, <1>4 DEF Rows
<1> HIDE DEF r5
<1>6. /\ r5.life = row[t].life + 1 /\ r5.status = "pending" /\ r5.by = by
      /\ r5.attempts = 0 /\ r5.maxRetries = row[t].maxRetries
  BY <1>0 DEF Rows, r1, r2, r3, r4, r5
<1>7. Revived(t, by) = r5
  BY <1>0 DEF Revived, Rows, r1, r2, r3, r4, r5
<1> QED BY <1>5, <1>6, <1>7

(* claim's UPDATE.                                                         *)
LEMMA ClaimedFacts ==
    ASSUME TypeOK, NEW t \in Tasks, NEW w \in Workers
    PROVE  /\ ClaimedRow(w, t) \in Rows
           /\ ClaimedRow(w, t).life = row[t].life
           /\ ClaimedRow(w, t).attempts = row[t].attempts + 1
           /\ ClaimedRow(w, t).status = "running"
           /\ ClaimedRow(w, t).lease = lease[w]
           /\ ClaimedRow(w, t).maxRetries = row[t].maxRetries
<1>0. row[t] \in Rows /\ row[t].attempts + 1 \in Nat /\ lease[w] \in Int
  BY RowFacts DEF TypeOK
<1> DEFINE r1 == [row[t] EXCEPT !.status = "running"]
<1>1. r1 \in Rows
  BY <1>0 DEF Rows
<1> HIDE DEF r1
<1> DEFINE r2 == [r1 EXCEPT !.attempts = row[t].attempts + 1]
<1>2. r2 \in Rows
  BY <1>0, <1>1 DEF Rows
<1> HIDE DEF r2
<1> DEFINE r3 == [r2 EXCEPT !.lease = lease[w]]
<1>3. r3 \in Rows
  BY <1>0, <1>2 DEF Rows
<1> HIDE DEF r3
<1>4. /\ r3.life = row[t].life /\ r3.attempts = row[t].attempts + 1 /\ r3.status = "running"
      /\ r3.lease = lease[w] /\ r3.maxRetries = row[t].maxRetries
  BY <1>0 DEF Rows, r1, r2, r3
<1>5. ClaimedRow(w, t) = r3
  BY <1>0 DEF ClaimedRow, Rows, r1, r2, r3
<1> QED BY <1>3, <1>4, <1>5

(* reapExpiredLeases' UPDATE: attempts stay.                               *)
LEMMA ReapedFacts ==
    ASSUME TypeOK, NEW t \in Tasks
    PROVE  /\ Reaped(t) \in Rows
           /\ Reaped(t).life = row[t].life
           /\ Reaped(t).attempts = row[t].attempts
           /\ Reaped(t).status = "pending"
           /\ Reaped(t).by = NoProc
           /\ Reaped(t).maxRetries = row[t].maxRetries
<1>0. row[t] \in Rows
  BY DEF TypeOK
<1> DEFINE r1 == [row[t] EXCEPT !.status = "pending"]
<1>1. r1 \in Rows
  BY <1>0 DEF Rows
<1> HIDE DEF r1
<1> DEFINE r2 == [r1 EXCEPT !.lease = 0]
<1>2. r2 \in Rows
  BY <1>0, <1>1 DEF Rows
<1> HIDE DEF r2
<1> DEFINE r3 == [r2 EXCEPT !.by = NoProc]
<1>3. r3 \in Rows
  BY <1>0, <1>2 DEF Rows
<1> HIDE DEF r3
<1>4. /\ r3.life = row[t].life /\ r3.attempts = row[t].attempts /\ r3.status = "pending"
      /\ r3.by = NoProc /\ r3.maxRetries = row[t].maxRetries
  BY <1>0 DEF Rows, r1, r2, r3
<1>5. Reaped(t) = r3
  BY <1>0 DEF Reaped, Rows, r1, r2, r3
<1> QED BY <1>3, <1>4, <1>5

(* complete's DELETE and its move to the dead state.                       *)
LEMMA SettledFacts ==
    ASSUME TypeOK, NEW t \in Tasks, NEW s \in {"dead", "deleted"}
    PROVE  /\ Settled(t, s) \in Rows
           /\ Settled(t, s).life = row[t].life
           /\ Settled(t, s).attempts = row[t].attempts
           /\ Settled(t, s).status = s
           /\ Settled(t, s).maxRetries = row[t].maxRetries
<1>0. row[t] \in Rows
  BY DEF TypeOK
<1> DEFINE r1 == [row[t] EXCEPT !.status = s]
<1>1. r1 \in Rows
  BY <1>0 DEF Rows
<1> HIDE DEF r1
<1> DEFINE r2 == [r1 EXCEPT !.lease = 0]
<1>2. r2 \in Rows
  BY <1>0, <1>1 DEF Rows
<1> HIDE DEF r2
<1>3. /\ r2.life = row[t].life /\ r2.attempts = row[t].attempts /\ r2.status = s
      /\ r2.maxRetries = row[t].maxRetries
  BY <1>0 DEF Rows, r1, r2
<1>4. Settled(t, s) = r2
  BY <1>0 DEF Settled, Rows, r1, r2
<1> QED BY <1>2, <1>3, <1>4

(* DeleteDeadTask's DELETE.                                                *)
LEMMA DeletedFacts ==
    ASSUME TypeOK, NEW t \in Tasks
    PROVE  LET r == [row[t] EXCEPT !.status = "deleted"] IN
           /\ r \in Rows /\ r.life = row[t].life /\ r.attempts = row[t].attempts
           /\ r.status = "deleted" /\ r.maxRetries = row[t].maxRetries
<1>1. row[t] \in Rows
  BY DEF TypeOK
<1> QED BY <1>1 DEF Rows

(* A tick takes its share of waits and leases and nothing else.            *)
LEMMA AgedFacts ==
    ASSUME TypeOK, NEW t \in Tasks
    PROVE  /\ Aged(t) \in Rows
           /\ Aged(t).life = row[t].life
           /\ Aged(t).attempts = row[t].attempts
           /\ Aged(t).status = row[t].status
           /\ Aged(t).wait = CountDown(row[t].wait)
           /\ Aged(t).lease = IF row[t].status = "running" THEN RunDown(row[t].lease)
                                                         ELSE row[t].lease
           /\ Aged(t).by = row[t].by
           /\ Aged(t).maxRetries = row[t].maxRetries
<1> DEFINE n == CountDown(row[t].wait)
           l == IF row[t].status = "running" THEN RunDown(row[t].lease) ELSE row[t].lease
<1>0. row[t] \in Rows /\ n \in Nat /\ l \in Int
  BY RowFacts DEF TypeOK, CountDown, RunDown
<1>1. Aged(t) = [row[t] EXCEPT !.wait = n, !.lease = l]
  BY DEF Aged
<1> HIDE DEF n, l
<1> DEFINE r1 == [row[t] EXCEPT !.wait = n]
<1>2. r1 \in Rows
  BY <1>0 DEF Rows
<1> HIDE DEF r1
<1> DEFINE r2 == [r1 EXCEPT !.lease = l]
<1>3. r2 \in Rows
  BY <1>0, <1>2 DEF Rows
<1> HIDE DEF r2
<1>4. /\ r2.life = row[t].life /\ r2.attempts = row[t].attempts /\ r2.status = row[t].status
      /\ r2.wait = n /\ r2.lease = l /\ r2.by = row[t].by /\ r2.maxRetries = row[t].maxRetries
  BY <1>0 DEF Rows, r1, r2
<1>5. Aged(t) = r2
  BY <1>0, <1>1 DEF Rows, r1, r2
<1> QED BY <1>3, <1>4, <1>5 DEF n, l

(* Enqueue's INSERT, whatever the settings the caller gave.                *)
LEMMA NewRowType ==
    ASSUME TypeOK, NEW t \in Tasks, NEW i \in EnqueueInputs, NEW by \in Procs \cup {NoProc}
    PROVE  NewRow(t, NewEnqueueOptions(i), by) \in Rows
<1>1. row[t].life \in Nat
  BY DEF TypeOK, Rows
<1>2. NewEnqueueOptions(i).maxRetries \in Nat
  BY InputAssumption DEF NewEnqueueOptions, Larger
<1>3. ResolveRunAt(NewEnqueueOptions(i), 0) \in Nat
  BY InputAssumption DEF NewEnqueueOptions, ResolveRunAt, Larger, ZeroTime
<1> QED BY <1>1, <1>2, <1>3 DEF NewRow, Rows

(* complete's reschedule.                                                  *)
LEMMA RescheduledRow ==
    ASSUME TypeOK, NEW j \in Records, NEW by \in Procs \cup {NoProc}
    PROVE  \E r \in Rows : /\ Rescheduled(j, by) = [row EXCEPT ![j.task] = r]
                           /\ r.life = row[j.task].life /\ r.attempts = row[j.task].attempts
                           /\ r.status = "pending" /\ r.by = by
                           /\ r.maxRetries = row[j.task].maxRetries
<1> DEFINE d == RetryBackoff(BackoffBase, BackoffMax, j.attempts)
           r0 == row[j.task]
<1>1. j.task \in Tasks /\ j.attempts \in Int
  BY DEF Records
<1>2. d \in Nat
  BY <1>1, RetryBackoffBounded, DeploymentAssumption
<1>3. row \in [Tasks -> Rows] /\ r0 \in Rows
  BY <1>1 DEF TypeOK
<1>4. Rescheduled(j, by) = [row EXCEPT ![j.task] = [r0 EXCEPT
          !.status = "pending", !.lease = 0, !.by = by, !.wait = d]]
  BY DEF Rescheduled
<1> HIDE DEF d, r0
<1> DEFINE r1 == [r0 EXCEPT !.status = "pending"]
<1>5. r1 \in Rows
  BY <1>3 DEF Rows
<1> HIDE DEF r1
<1> DEFINE r2 == [r1 EXCEPT !.lease = 0]
<1>6. r2 \in Rows
  BY <1>5 DEF Rows
<1> HIDE DEF r2
<1> DEFINE r3 == [r2 EXCEPT !.by = by]
<1>7. r3 \in Rows
  BY <1>6 DEF Rows
<1> HIDE DEF r3
<1> DEFINE r4 == [r3 EXCEPT !.wait = d]
<1>8. r4 \in Rows
  BY <1>2, <1>7 DEF Rows
<1> HIDE DEF r4
<1>9. /\ r4.life = r0.life /\ r4.attempts = r0.attempts /\ r4.status = "pending"
      /\ r4.by = by /\ r4.maxRetries = r0.maxRetries
  BY <1>3 DEF Rows, r1, r2, r3, r4
<1>10. [r0 EXCEPT !.status = "pending", !.lease = 0, !.by = by, !.wait = d] = r4
  BY <1>3 DEF Rows, r1, r2, r3, r4
<1>11. Rescheduled(j, by) = [row EXCEPT ![j.task] = r4]
  BY <1>4, <1>10
<1> QED BY <1>8, <1>9, <1>11 DEF r0

(* The retry UPDATE of complete touches neither attempts nor lives, and    *)
(* leaves every row as it was or pending.                                  *)
LEMMA RescheduledFacts ==
    ASSUME TypeOK, NEW j \in Records, NEW by \in Procs \cup {NoProc}
    PROVE  /\ Rescheduled(j, by) \in [Tasks -> Rows]
           /\ \A t \in Tasks : /\ Rescheduled(j, by)[t].life = row[t].life
                               /\ Rescheduled(j, by)[t].attempts = row[t].attempts
                               /\ Rescheduled(j, by)[t].status \in {row[t].status, "pending"}
<1>1. PICK r \in Rows : /\ Rescheduled(j, by) = [row EXCEPT ![j.task] = r]
                        /\ r.life = row[j.task].life /\ r.attempts = row[j.task].attempts
                        /\ r.status = "pending"
  BY RescheduledRow
<1>2. j.task \in Tasks /\ row \in [Tasks -> Rows]
  BY DEF Records, TypeOK
<1> QED BY <1>1, <1>2

(* A record that is being worked on, or is a candidate, names a task.      *)
LEMMA NoJobIsNoRecord == NoJob \notin Records
BY DeploymentAssumption DEF NoJob, Records

-----------------------------------------------------------------------------
(* The table is empty and no subscription has started.                     *)
LEMMA TypeInit == Init => TypeOK /\ Lifecycle
<1> SUFFICES ASSUME Init PROVE TypeOK /\ Lifecycle
  OBVIOUS
<1> USE DEF Init
<1>1. row \in [Tasks -> Rows]
  BY DEF Rows
<1>2. TypeOK
  BY <1>1 DEF TypeOK, PCs
<1>3. Lifecycle
  BY DeploymentAssumption DEF Lifecycle
<1> QED BY <1>2, <1>3

-----------------------------------------------------------------------------
(* What a step may do to a row that some worker remembers: its life goes   *)
(* on, and within a life its attempts do not decrease.                     *)
Ahead(t, r) == /\ r.status # "absent"
               /\ row[t].life <= r.life
               /\ row[t].life = r.life => row[t].attempts <= r.attempts

Forward(t) == Ahead(t, row'[t])

Remembered == {t \in Tasks : \E w \in Workers : \E r \in Memory(w) : r.task = t}

(* A row that is assigned, and all the others.                             *)
LEMMA OneRow ==
    ASSUME TypeOK, NotAhead, NEW t \in Tasks, NEW r \in Rows, row' = [row EXCEPT ![t] = r],
           t \in Remembered => Ahead(t, r)
    PROVE  row' \in [Tasks -> Rows] /\ \A x \in Remembered : Forward(x)
<1>1. row' \in [Tasks -> Rows]
  BY DEF TypeOK
<1>2. ASSUME NEW x \in Remembered PROVE Forward(x)
  <2>1. x \in Tasks /\ row[x].status # "absent"
    BY DEF Remembered, NotAhead
  <2>2. row[x].life \in Nat /\ row[x].attempts \in Nat
    BY <2>1, RowFacts DEF TypeOK
  <2>3. CASE x = t
    BY <2>1, <2>3 DEF TypeOK, Forward, Ahead
  <2>4. CASE x # t
    BY <2>1, <2>2, <2>4 DEF TypeOK, Forward, Ahead
  <2> QED BY <2>3, <2>4
<1> QED BY <1>1, <1>2

(* The table is left alone.                                                *)
LEMMA SameRows ==
    ASSUME TypeOK, NotAhead, row' = row
    PROVE  row' \in [Tasks -> Rows] /\ \A x \in Remembered : Forward(x)
<1>1. ASSUME NEW x \in Remembered PROVE Forward(x)
  <2>1. x \in Tasks /\ row[x].status # "absent"
    BY DEF Remembered, NotAhead
  <2> QED BY <2>1, RowFacts DEF TypeOK, Forward, Ahead
<1> QED BY <1>1 DEF TypeOK

(* Every row is rewritten, none loses its life or its attempts.            *)
LEMMA AllRows ==
    ASSUME TypeOK, NotAhead, row' \in [Tasks -> Rows],
           \A t \in Tasks : /\ row'[t].life = row[t].life
                            /\ row'[t].attempts = row[t].attempts
                            /\ row'[t].status \in {row[t].status, "pending"}
    PROVE  \A x \in Remembered : Forward(x)
<1> SUFFICES ASSUME NEW x \in Remembered PROVE Forward(x)
  OBVIOUS
<1>1. x \in Tasks /\ row[x].status # "absent"
  BY DEF Remembered, NotAhead
<1>2. row[x].life \in Nat /\ row[x].attempts \in Nat
  BY <1>1, RowFacts DEF TypeOK
<1> QED BY <1>1, <1>2 DEF Forward, Ahead

(* A worker in its handler works on a record.                              *)
LEMMA Handling ==
    ASSUME TypeOK, Lifecycle, NEW w \in Workers, pc[w] = "handle"
    PROVE  job[w] \in Records /\ job[w].task \in Tasks
<1>1. job[w] \in Records
  BY DEF TypeOK, Lifecycle
<1> QED BY <1>1 DEF Records

(* The two callers' statements that schedule a row, and the delete.        *)
LEMMA CallerRows ==
    ASSUME TypeOK, NotAhead, NEW p \in Procs, NEW t \in Tasks,
           \/ \E i \in EnqueueInputs : Enqueue(p, t, i)
           \/ RequeueDeadTask(p, t)
           \/ DeleteDeadTask(t)
    PROVE  row' \in [Tasks -> Rows] /\ \A x \in Remembered : Forward(x)
<1>0. row[t].life \in Nat /\ row[t].attempts \in Nat
  BY RowFacts DEF TypeOK
<1>1. CASE \E i \in EnqueueInputs : Enqueue(p, t, i)
  <2>1. PICK i \in EnqueueInputs : Enqueue(p, t, i)
    BY <1>1
  <2>2. PICK by \in {p, NoProc} : row' = [row EXCEPT ![t] = NewRow(t, NewEnqueueOptions(i), by)]
    BY <2>1 DEF Enqueue
  <2>3. NewRow(t, NewEnqueueOptions(i), by) \in Rows
    BY NewRowType
  <2>4. t \notin Remembered
    BY <2>1 DEF Enqueue, Fresh, Remembered, Memory, NotAhead
  <2> QED BY <2>2, <2>3, <2>4, OneRow
<1>2. CASE RequeueDeadTask(p, t)
  <2>1. PICK by \in {p, NoProc} : row' = [row EXCEPT ![t] = Revived(t, by)]
    BY <1>2 DEF RequeueDeadTask
  <2> DEFINE r == Revived(t, by)
  <2>2. r \in Rows /\ r.life = row[t].life + 1 /\ r.status = "pending"
    BY RevivedFacts
  <2> HIDE DEF r
  <2>3. Ahead(t, r)
    BY <1>0, <2>2 DEF Ahead
  <2>4. row' = [row EXCEPT ![t] = r]
    BY <2>1 DEF r
  <2> QED BY <2>2, <2>3, <2>4, OneRow
<1>3. CASE DeleteDeadTask(t)
  <2> DEFINE r == [row[t] EXCEPT !.status = "deleted"]
  <2>1. row' = [row EXCEPT ![t] = r]
    BY <1>3 DEF DeleteDeadTask
  <2>2. r \in Rows /\ r.life = row[t].life /\ r.attempts = row[t].attempts /\ r.status = "deleted"
    BY DeletedFacts
  <2> HIDE DEF r
  <2>3. Ahead(t, r)
    BY <1>0, <2>2 DEF Ahead
  <2> QED BY <2>1, <2>2, <2>3, OneRow
<1> QED BY <1>1, <1>2, <1>3

(* The statements of a worker's claim and of its sweep.                    *)
LEMMA ClaimRows ==
    ASSUME TypeOK, NotAhead, NEW w \in Workers,
           (\E c \in cand[w] : ClaimTask(w, c)) \/ ClaimFails(w) \/ Reap(w)
    PROVE  row' \in [Tasks -> Rows] /\ \A x \in Remembered : Forward(x)
<1>1. ASSUME NEW c \in cand[w], row' = [row EXCEPT ![c.task] = ClaimedRow(w, c.task)]
      PROVE  row' \in [Tasks -> Rows] /\ \A x \in Remembered : Forward(x)
  <2>1. c.task \in Tasks
    BY DEF TypeOK, Records
  <2>2. row[c.task].life \in Nat /\ row[c.task].attempts \in Nat
    BY <2>1, RowFacts DEF TypeOK
  <2> DEFINE r == ClaimedRow(w, c.task)
  <2>3. /\ r \in Rows /\ r.life = row[c.task].life
        /\ r.attempts = row[c.task].attempts + 1 /\ r.status = "running"
    BY <2>1, ClaimedFacts
  <2>4. row' = [row EXCEPT ![c.task] = r]
    BY <1>1
  <2> HIDE DEF r
  <2>5. Ahead(c.task, r)
    BY <2>2, <2>3 DEF Ahead
  <2> QED BY <2>1, <2>3, <2>4, <2>5, OneRow
<1>2. CASE \E c \in cand[w] : ClaimTask(w, c)
  BY <1>1, <1>2 DEF ClaimTask
<1>3. CASE ClaimFails(w)
  BY <1>1, <1>3, SameRows DEF ClaimFails
<1>4. CASE Reap(w)
  <2>1. CASE row' = row
    BY <2>1, SameRows
  <2>2. CASE row' = [t \in Tasks |-> IF Expired(t) THEN Reaped(t) ELSE row[t]]
    <3>1. \A t \in Tasks : /\ row'[t] \in Rows /\ row'[t].life = row[t].life
                           /\ row'[t].attempts = row[t].attempts
                           /\ row'[t].status \in {row[t].status, "pending"}
      BY <2>2, ReapedFacts DEF TypeOK
    <3>2. row' \in [Tasks -> Rows]
      BY <2>2, <3>1
    <3> QED BY <3>1, <3>2, AllRows
  <2> QED BY <1>4, <2>1, <2>2 DEF Reap
<1> QED BY <1>2, <1>3, <1>4

(* The statements of complete.                                             *)
LEMMA CompleteRows ==
    ASSUME TypeOK, Lifecycle, NotAhead, NEW w \in Workers, HandlerReturns(w)
    PROVE  row' \in [Tasks -> Rows] /\ \A x \in Remembered : Forward(x)
<1> DEFINE t == job[w].task
<1>1. pc[w] = "handle"
  BY DEF HandlerReturns, HandlerSucceeds, Bury, Reschedule, CompleteFails, Release
<1>2. job[w] \in Records /\ t \in Tasks
  BY <1>1, Handling
<1>3. row[t].life \in Nat /\ row[t].attempts \in Nat
  BY <1>2, RowFacts DEF TypeOK
<1>4. ASSUME NEW s \in {"dead", "deleted"}, row' = [row EXCEPT ![t] = Settled(t, s)]
      PROVE  row' \in [Tasks -> Rows] /\ \A x \in Remembered : Forward(x)
  <2> DEFINE r == Settled(t, s)
  <2>1. r \in Rows /\ r.life = row[t].life /\ r.attempts = row[t].attempts /\ r.status = s
    BY <1>2, SettledFacts
  <2>2. row' = [row EXCEPT ![t] = r]
    BY <1>4
  <2> HIDE DEF r, t
  <2>3. Ahead(t, r)
    BY <1>3, <2>1 DEF Ahead
  <2> QED BY <1>2, <2>1, <2>2, <2>3, OneRow
<1>5. ASSUME NEW by \in Procs \cup {NoProc}, row' = Rescheduled(job[w], by)
      PROVE  row' \in [Tasks -> Rows] /\ \A x \in Remembered : Forward(x)
  BY <1>2, <1>5, RescheduledFacts, AllRows
<1>6. CASE HandlerSucceeds(w)
  BY <1>4, <1>6 DEF HandlerSucceeds
<1>7. CASE Bury(w)
  BY <1>4, <1>7, SameRows DEF Bury
<1>8. CASE Reschedule(w)
  BY <1>5, <1>8, SameRows, DeploymentAssumption DEF Reschedule
<1>9. CASE CompleteFails(w)
  BY <1>5, <1>9, SameRows DEF CompleteFails
<1> QED BY <1>6, <1>7, <1>8, <1>9 DEF HandlerReturns

-----------------------------------------------------------------------------
(* Waking the workers of a process keeps woken a Boolean per worker.       *)
LEMMA BroadcastType ==
    ASSUME TypeOK, NEW p \in Procs, BroadcastLocal(p)
    PROVE  woken' \in [Workers -> BOOLEAN]
BY DEF TypeOK, BroadcastLocal

(* Every step of Next, by what it does.                                    *)
LEMMA NextCases ==
    ASSUME Next
    PROVE  \/ \E p \in Procs : \E t \in Tasks :
                 (\E i \in EnqueueInputs : Enqueue(p, t, i)) \/ RequeueDeadTask(p, t)
           \/ \E t \in Tasks : DeleteDeadTask(t)
           \/ \E p \in Procs : Consume(p) \/ Stop(p) \/ CloseDone(p) \/ Crash(p)
           \/ \E w \in Workers : WorkerStep(w)
           \/ \E w \in Workers : HandlerReturns(w)
           \/ Tick
BY DEF Next, CallerStep

(* The table, in any step.                                                 *)
LEMMA RowsStep ==
    ASSUME TypeOK, Lifecycle, NotAhead, Next
    PROVE  row' \in [Tasks -> Rows] /\ \A x \in Remembered : Forward(x)
<1>1. ASSUME NEW p \in Procs, NEW t \in Tasks,
             (\E i \in EnqueueInputs : Enqueue(p, t, i)) \/ RequeueDeadTask(p, t)
      PROVE  row' \in [Tasks -> Rows] /\ \A x \in Remembered : Forward(x)
  BY <1>1, CallerRows
<1>2. ASSUME NEW t \in Tasks, DeleteDeadTask(t)
      PROVE  row' \in [Tasks -> Rows] /\ \A x \in Remembered : Forward(x)
  <2>1. CASE Procs = {}
    <3>1. Remembered = {}
      BY <2>1, DeploymentAssumption DEF Remembered
    <3>2. row' \in [Tasks -> Rows]
      BY <1>2, DeletedFacts DEF TypeOK, DeleteDeadTask
    <3> QED BY <3>1, <3>2
  <2>2. CASE Procs # {}
    <3>1. PICK p \in Procs : TRUE
      BY <2>2
    <3> QED BY <1>2, <3>1, CallerRows
  <2> QED BY <2>1, <2>2
<1>3. ASSUME NEW p \in Procs, Consume(p) \/ Stop(p) \/ CloseDone(p) \/ Crash(p)
      PROVE  row' \in [Tasks -> Rows] /\ \A x \in Remembered : Forward(x)
  BY <1>3, SameRows DEF Consume, Stop, CloseDone, Crash
<1>4. ASSUME NEW w \in Workers, WorkerStep(w)
      PROVE  row' \in [Tasks -> Rows] /\ \A x \in Remembered : Forward(x)
  <2>1. CASE (\E c \in cand[w] : ClaimTask(w, c)) \/ ClaimFails(w) \/ Reap(w)
    BY <2>1, ClaimRows
  <2>2. CASE \/ Begin(w) \/ (\E s \in SUBSET Due : Select(w, s)) \/ Wake(w)
             \/ (\E c \in cand[w] : LoseCandidate(w, c))
             \/ (\E wait \in 1 .. PollInterval : QueryNext(w, wait))
    BY <2>2, SameRows DEF Begin, Select, Wake, LoseCandidate, QueryNext
  <2> QED BY <1>4, <2>1, <2>2 DEF WorkerStep
<1>5. ASSUME NEW w \in Workers, HandlerReturns(w)
      PROVE  row' \in [Tasks -> Rows] /\ \A x \in Remembered : Forward(x)
  BY <1>5, CompleteRows
<1>6. CASE Tick
  <2>1. row' = [t \in Tasks |-> Aged(t)]
    BY <1>6 DEF Tick
  <2>2. \A t \in Tasks : /\ row'[t] \in Rows /\ row'[t].life = row[t].life
                         /\ row'[t].attempts = row[t].attempts
                         /\ row'[t].status \in {row[t].status, "pending"}
    BY <2>1, AgedFacts
  <2>3. row' \in [Tasks -> Rows]
    BY <2>1, <2>2
  <2> QED BY <2>2, <2>3, AllRows
<1> QED BY <1>1, <1>2, <1>3, <1>4, <1>5, <1>6, NextCases

(* The steps of callers keep what workers know well formed.                *)
LEMMA CallerType ==
    ASSUME TypeOK, Lifecycle, row' \in [Tasks -> Rows], NEW p \in Procs,
           \/ \E t \in Tasks : (\E i \in EnqueueInputs : Enqueue(p, t, i)) \/ RequeueDeadTask(p, t)
           \/ Consume(p) \/ Stop(p) \/ CloseDone(p) \/ Crash(p)
    PROVE  TypeOK' /\ Lifecycle'
<1>1. ASSUME NEW t \in Tasks, (\E i \in EnqueueInputs : Enqueue(p, t, i)) \/ RequeueDeadTask(p, t)
      PROVE  TypeOK' /\ Lifecycle'
  <2>1. /\ UNCHANGED <<pc, cand, job, lease, sleep, late, sub, stopCh, crashes>>
        /\ requeues' \in Nat /\ Announce(p, t)
    BY <1>1 DEF Enqueue, RequeueDeadTask, subVars, TypeOK
  <2>2. woken' \in [Workers -> BOOLEAN] /\ faults' \in Nat
    BY <2>1, BroadcastType DEF Announce, Fault, TypeOK
  <2> QED BY <2>1, <2>2 DEF TypeOK, Lifecycle
<1>2. CASE Consume(p)
  <2>1. TypeOK'
    BY <1>2 DEF Consume, TypeOK, PCs, WorkersOf, counters
  <2>2. Lifecycle'
    BY <1>2, DeploymentAssumption DEF Consume, TypeOK, Lifecycle, WorkersOf, counters
  <2> QED BY <2>1, <2>2
<1>3. CASE Stop(p)
  BY <1>3 DEF Stop, TypeOK, Lifecycle, workerVars, counters
<1>4. CASE CloseDone(p)
  <2>1. TypeOK'
    BY <1>4 DEF CloseDone, TypeOK, workerVars, counters
  <2>2. Lifecycle'
    BY <1>4, DeploymentAssumption DEF CloseDone, TypeOK, Lifecycle, workerVars, WorkersOf
  <2> QED BY <2>1, <2>2
<1>5. CASE Crash(p)
  <2>1. /\ pc' \in [Workers -> PCs] /\ lease' \in [Workers -> Int]
        /\ sleep' \in [Workers -> Nat]
    BY <1>5 DEF Crash, TypeOK, PCs
  <2>2. cand' \in [Workers -> SUBSET Records]
    BY <1>5 DEF Crash, TypeOK
  <2>3. job' \in [Workers -> Records \cup {NoJob}]
    BY <1>5 DEF Crash, TypeOK
  <2>4. woken' \in [Workers -> BOOLEAN] /\ stopCh' \in [Procs -> BOOLEAN]
    BY <1>5 DEF Crash, TypeOK
  <2>5. sub' \in [Procs -> {"idle", "running", "done"}] /\ crashes' \in Nat
    BY <1>5 DEF Crash, TypeOK
  <2>6. TypeOK'
    BY <1>5, <2>1, <2>2, <2>3, <2>4, <2>5 DEF Crash, TypeOK
  <2>7. Lifecycle'
    BY <1>5, DeploymentAssumption DEF Crash, TypeOK, Lifecycle, WorkersOf
  <2> QED BY <2>6, <2>7
<1> QED BY <1>1, <1>2, <1>3, <1>4, <1>5

(* So do the steps of a worker's loop.                                     *)
LEMMA WorkerType ==
    ASSUME TypeOK, Lifecycle, row' \in [Tasks -> Rows], NEW w \in Workers, WorkerStep(w)
    PROVE  TypeOK' /\ Lifecycle'
<1> USE DEF Go
<1>1. CASE Begin(w)
  <2>1. TypeOK'
    BY <1>1 DEF Begin, TypeOK, PCs, subVars, counters
  <2>2. Lifecycle'
    BY <1>1 DEF Begin, TypeOK, Lifecycle, subVars
  <2> QED BY <2>1, <2>2
<1>2. ASSUME NEW s \in SUBSET Due, Select(w, s) PROVE TypeOK' /\ Lifecycle'
  <2>1. \A t \in s : [task |-> t, attempts |-> row[t].attempts, life |-> row[t].life] \in Records
    BY RowFacts DEF Due, Records, TypeOK
  <2>2. cand' \in [Workers -> SUBSET Records]
    BY <1>2, <2>1 DEF Select, TypeOK
  <2>3. lease' \in [Workers -> Int]
    BY <1>2, BoundAssumption DEF Select, TypeOK
  <2>4. TypeOK'
    BY <1>2, <2>2, <2>3 DEF Select, TypeOK, PCs, subVars, counters
  <2>5. Lifecycle'
    BY <1>2 DEF Select, TypeOK, Lifecycle, subVars
  <2> QED BY <2>4, <2>5
<1>3. ASSUME NEW c \in cand[w], ClaimTask(w, c) PROVE TypeOK' /\ Lifecycle'
  <2> DEFINE j == [task |-> c.task, attempts |-> c.attempts + 1, life |-> row[c.task].life]
  <2>1. c \in Records
    BY DEF TypeOK
  <2>2. row[c.task].life \in Nat
    BY <2>1, RowFacts DEF TypeOK, Records
  <2>3. j \in Records /\ j # NoJob
    BY <2>1, <2>2, DeploymentAssumption DEF Records, NoJob
  <2>4. job' = [job EXCEPT ![w] = j]
    BY <1>3 DEF ClaimTask
  <2> HIDE DEF j
  <2>5. TypeOK'
    BY <1>3, <2>3, <2>4 DEF ClaimTask, TypeOK, PCs, subVars, counters
  <2>6. Lifecycle'
    BY <1>3, <2>3, <2>4 DEF ClaimTask, TypeOK, Lifecycle, subVars
  <2> QED BY <2>5, <2>6
<1>4. ASSUME NEW c \in cand[w], LoseCandidate(w, c) PROVE TypeOK' /\ Lifecycle'
  <2>1. TypeOK'
    BY <1>4 DEF LoseCandidate, TypeOK, subVars, counters
  <2>2. Lifecycle'
    BY <1>4 DEF LoseCandidate, TypeOK, Lifecycle, subVars
  <2> QED BY <2>1, <2>2
<1>5. ASSUME NEW wait \in Nat, pc[w] \in {"select", "claim"}, GiveUp(w, wait), faults' \in Nat
      PROVE  TypeOK' /\ Lifecycle'
  <2>1. TypeOK'
    BY <1>5 DEF GiveUp, TypeOK, PCs, subVars
  <2>2. Lifecycle'
    BY <1>5 DEF GiveUp, TypeOK, Lifecycle, subVars
  <2> QED BY <2>1, <2>2
<1>6. ASSUME NEW wait \in 1 .. PollInterval, QueryNext(w, wait) PROVE TypeOK' /\ Lifecycle'
  BY <1>5, <1>6, BoundAssumption DEF QueryNext, TypeOK
<1>7. CASE ClaimFails(w)
  BY <1>5, <1>7, BoundAssumption DEF ClaimFails, Fault, TypeOK
<1>8. CASE Reap(w)
  <2>1. TypeOK'
    BY <1>8 DEF Reap, Fault, TypeOK, PCs, subVars
  <2>2. Lifecycle'
    BY <1>8 DEF Reap, TypeOK, Lifecycle, subVars
  <2> QED BY <2>1, <2>2
<1>9. CASE Wake(w)
  <2>1. TypeOK'
    BY <1>9 DEF Wake, TypeOK, PCs, subVars, counters
  <2>2. Lifecycle'
    BY <1>9 DEF Wake, TypeOK, Lifecycle, subVars
  <2> QED BY <2>1, <2>2
<1> QED BY <1>1, <1>2, <1>3, <1>4, <1>6, <1>7, <1>8, <1>9 DEF WorkerStep

(* And the return of a handler.                                            *)
LEMMA HandlerType ==
    ASSUME TypeOK, Lifecycle, row' \in [Tasks -> Rows], NEW w \in Workers, HandlerReturns(w)
    PROVE  TypeOK' /\ Lifecycle'
<1>1. Release(w)
  BY DEF HandlerReturns, HandlerSucceeds, Bury, Reschedule, CompleteFails
<1>2. faults' \in Nat
  BY DEF HandlerReturns, HandlerSucceeds, Bury, Reschedule, CompleteFails, Fault, TypeOK
<1>3. woken' \in [Workers -> BOOLEAN]
  <2>1. woken' = woken \/ BroadcastLocal(ProcOf[w])
    BY DEF HandlerReturns, HandlerSucceeds, Bury, Reschedule, CompleteFails
  <2> QED BY <2>1, BroadcastType, DeploymentAssumption DEF TypeOK
<1>4. TypeOK'
  <2>1. job' \in [Workers -> Records \cup {NoJob}]
    BY <1>1 DEF Release, TypeOK
  <2>2. pc' \in [Workers -> PCs] /\ lease' \in [Workers -> Int]
    BY <1>1 DEF Release, Go, TypeOK, PCs
  <2> QED BY <1>1, <1>2, <1>3, <2>1, <2>2 DEF Release, TypeOK, subVars
<1>5. Lifecycle'
  BY <1>1 DEF Release, Go, TypeOK, Lifecycle, subVars
<1> QED BY <1>4, <1>5

(* TypeOK and Lifecycle are kept by every step.                            *)
LEMMA TypeStep ==
    ASSUME TypeOK, Lifecycle, NotAhead, [Next]_vars
    PROVE  TypeOK' /\ Lifecycle'
<1>1. CASE Next
  <2>1. row' \in [Tasks -> Rows]
    BY <1>1, RowsStep
  <2>2. CASE \E t \in Tasks : DeleteDeadTask(t)
    BY <2>1, <2>2 DEF DeleteDeadTask, TypeOK, Lifecycle, workerVars, subVars, counters
  <2>3. CASE Tick
    <3>1. lease' \in [Workers -> Int] /\ sleep' \in [Workers -> Nat]
      BY <2>3 DEF Tick, TypeOK, CountDown, RunDown
    <3> QED BY <2>1, <2>3, <3>1 DEF Tick, TypeOK, Lifecycle, subVars, counters
  <2> QED BY <1>1, <2>1, <2>2, <2>3, NextCases, CallerType, WorkerType, HandlerType
<1>2. CASE UNCHANGED vars
  BY <1>2 DEF vars, workerVars, subVars, counters, TypeOK, Lifecycle
<1> QED BY <1>1, <1>2

-----------------------------------------------------------------------------
(* What a worker remembers after a step it remembered before, or it is     *)
(* what the table says now.                                                *)
Current(r) == /\ r.task \in Tasks /\ row'[r.task].status # "absent"
              /\ r.life = row'[r.task].life /\ r.attempts = row'[r.task].attempts

(* Steps in which no worker reads a row.                                   *)
LEMMA NothingLearnt ==
    ASSUME NEW w \in Workers, job'[w] \in {job[w], NoJob}, cand'[w] \subseteq cand[w],
           NEW r \in Memory(w)'
    PROVE  r \in Memory(w)
BY DEF Memory

(* A claim that succeeds.                                                  *)
LEMMA ClaimLearns ==
    ASSUME TypeOK, NEW w \in Workers, NEW c \in cand[w], ClaimTask(w, c)
    PROVE  /\ c.task \in Tasks
           /\ job'[w].task = c.task /\ job'[w].life = row[c.task].life
           /\ job'[w].attempts = row[c.task].attempts + 1
           /\ Current(job'[w])
           /\ cand'[w] = {}
           /\ \A v \in Workers \ {w} : job'[v] = job[v] /\ cand'[v] = cand[v]
<1> DEFINE j == [task |-> c.task, attempts |-> c.attempts + 1, life |-> row[c.task].life]
           r == ClaimedRow(w, c.task)
<1>1. c.task \in Tasks
  BY DEF TypeOK, Records
<1>2. job'[w] = j /\ cand'[w] = {}
  BY DEF ClaimTask, TypeOK
<1>3. \A v \in Workers \ {w} : job'[v] = job[v] /\ cand'[v] = cand[v]
  BY DEF ClaimTask, TypeOK
<1>4. c.attempts = row[c.task].attempts
  BY DEF ClaimTask, Claimable
<1>5. row'[c.task] = r
  BY <1>1 DEF ClaimTask, TypeOK
<1>6. r.life = row[c.task].life /\ r.attempts = row[c.task].attempts + 1 /\ r.status = "running"
  BY <1>1, ClaimedFacts
<1> HIDE DEF r
<1> QED BY <1>1, <1>2, <1>3, <1>4, <1>5, <1>6 DEF Current

(* A claim's first query reads rows as they are.                           *)
LEMMA SelectLearns ==
    ASSUME TypeOK, NEW w \in Workers, NEW s \in SUBSET Due, Select(w, s)
    PROVE  /\ job' = job
           /\ \A r \in cand'[w] : Current(r)
           /\ \A v \in Workers \ {w} : cand'[v] = cand[v]
<1>1. cand'[w] = {[task |-> t, attempts |-> row[t].attempts, life |-> row[t].life] : t \in s}
  BY DEF Select, TypeOK
<1>2. row' = row /\ job' = job /\ \A v \in Workers \ {w} : cand'[v] = cand[v]
  BY DEF Select, TypeOK
<1>3. \A t \in s : t \in Tasks /\ row[t].status # "absent"
  BY DEF Due
<1> QED BY <1>1, <1>2, <1>3 DEF Current

(* No worker learns anything of a row.                                     *)
Oblivious == \A w \in Workers : job'[w] \in {job[w], NoJob} /\ cand'[w] \subseteq cand[w]

(* Only a claim that succeeds and a claim's first query teach a worker.    *)
LEMMA OtherSteps ==
    ASSUME TypeOK, Next
    PROVE  \/ \E w \in Workers : \E c \in cand[w] : ClaimTask(w, c)
           \/ \E w \in Workers : \E s \in SUBSET Due : Select(w, s)
           \/ Oblivious
<1>1. ASSUME NEW p \in Procs, NEW t \in Tasks,
             (\E i \in EnqueueInputs : Enqueue(p, t, i)) \/ RequeueDeadTask(p, t)
      PROVE  Oblivious
  BY <1>1 DEF Enqueue, RequeueDeadTask, Oblivious
<1>2. ASSUME NEW t \in Tasks, DeleteDeadTask(t) PROVE Oblivious
  BY <1>2 DEF DeleteDeadTask, workerVars, Oblivious
<1>3. ASSUME NEW p \in Procs, Consume(p) \/ Stop(p) \/ CloseDone(p) PROVE Oblivious
  BY <1>3 DEF Consume, Stop, CloseDone, workerVars, Oblivious
<1>4. ASSUME NEW p \in Procs, Crash(p) PROVE Oblivious
  BY <1>4 DEF Crash, TypeOK, Oblivious
<1>5. ASSUME NEW w \in Workers, Begin(w) \/ Reap(w) \/ Wake(w) PROVE Oblivious
  BY <1>5 DEF Begin, Reap, Wake, Oblivious
<1>6. ASSUME NEW w \in Workers, NEW c \in cand[w], LoseCandidate(w, c) PROVE Oblivious
  BY <1>6 DEF LoseCandidate, TypeOK, Oblivious
<1>7. ASSUME NEW w \in Workers, NEW wait, QueryNext(w, wait) PROVE Oblivious
  BY <1>7 DEF QueryNext, GiveUp, TypeOK, Oblivious
<1>8. ASSUME NEW w \in Workers, ClaimFails(w) PROVE Oblivious
  BY <1>8 DEF ClaimFails, GiveUp, TypeOK, Oblivious
<1>9. ASSUME NEW w \in Workers, HandlerReturns(w) PROVE Oblivious
  <2>1. Release(w)
    BY <1>9 DEF HandlerReturns, HandlerSucceeds, Bury, Reschedule, CompleteFails
  <2> QED BY <2>1 DEF Release, TypeOK, Oblivious
<1>10. CASE Tick
  BY <1>10 DEF Tick, Oblivious
<1> QED BY <1>1, <1>2, <1>3, <1>4, <1>5, <1>6, <1>7, <1>8, <1>9, <1>10, NextCases
        DEF WorkerStep

(* Whatever a worker remembers after a step is old or current.             *)
LEMMA MemoryStep ==
    ASSUME TypeOK, Next, NEW w \in Workers, NEW r \in Memory(w)'
    PROVE  r \in Memory(w) \/ Current(r)
<1>1. ASSUME NEW v \in Workers, NEW c \in cand[v], ClaimTask(v, c)
      PROVE  r \in Memory(w) \/ Current(r)
  BY <1>1, ClaimLearns DEF Memory
<1>2. ASSUME NEW v \in Workers, NEW s \in SUBSET Due, Select(v, s)
      PROVE  r \in Memory(w) \/ Current(r)
  BY <1>2, SelectLearns DEF Memory
<1>3. CASE Oblivious
  BY <1>3, NothingLearnt DEF Oblivious
<1> QED BY <1>1, <1>2, <1>3, OtherSteps

(* Rows only move forward under what is remembered.                        *)
LEMMA NotAheadStep ==
    ASSUME TypeOK, Lifecycle, NotAhead, Next
    PROVE  NotAhead'
<1> SUFFICES ASSUME NEW w \in Workers, NEW r \in Memory(w)'
             PROVE  /\ row'[r.task].status # "absent"
                    /\ r.life <= row'[r.task].life
                    /\ r.life = row'[r.task].life => r.attempts <= row'[r.task].attempts
  BY DEF NotAhead
<1>1. row' \in [Tasks -> Rows] /\ \A x \in Remembered : Forward(x)
  BY RowsStep
<1>2. CASE Current(r)
  <2>1. row'[r.task].life \in Nat /\ row'[r.task].attempts \in Nat
    BY <1>1, <1>2, RowFacts DEF Current
  <2> QED BY <1>2, <2>1 DEF Current
<1>3. CASE r \in Memory(w)
  <2>1. r \in Records
    BY <1>3 DEF Memory, TypeOK
  <2>2. r.task \in Tasks /\ r.life \in Nat /\ r.attempts \in Nat
    BY <2>1 DEF Records
  <2>3. Forward(r.task)
    BY <1>1, <1>3, <2>2 DEF Remembered
  <2>4. /\ row[r.task].life \in Nat /\ row[r.task].attempts \in Nat
        /\ row'[r.task].life \in Nat /\ row'[r.task].attempts \in Nat
    BY <1>1, <2>2, RowFacts DEF TypeOK
  <2>5. /\ r.life <= row[r.task].life
        /\ r.life = row[r.task].life => r.attempts <= row[r.task].attempts
    BY <1>3 DEF NotAhead
  <2> QED BY <2>2, <2>3, <2>4, <2>5 DEF Forward, Ahead
<1> QED BY <1>2, <1>3, MemoryStep

(* A claim numbers its attempt beyond every attempt of that life that any  *)
(* worker remembers, hence beyond the one any other handler runs.          *)
LEMMA AttemptOnceStep ==
    ASSUME TypeOK, NotAhead, AttemptOnce, Next
    PROVE  AttemptOnce'
<1> SUFFICES ASSUME NEW v \in Workers, NEW w \in Workers, v # w, job'[v] # NoJob,
                    job'[v] = job'[w]
             PROVE  FALSE
  BY DEF AttemptOnce
<1>1. ASSUME NEW x \in Workers, NEW c \in cand[x], ClaimTask(x, c),
             NEW y \in Workers, y # x, job'[y] = job'[x], job'[x] # NoJob
      PROVE  FALSE
  <2>1. /\ c.task \in Tasks /\ job'[x].task = c.task /\ job'[x].life = row[c.task].life
        /\ job'[x].attempts = row[c.task].attempts + 1 /\ job'[y] = job[y]
    BY <1>1, ClaimLearns
  <2>2. job[y] \in Memory(y)
    BY <1>1, <2>1 DEF Memory
  <2>3. job[y].attempts <= row[c.task].attempts
    BY <1>1, <2>1, <2>2 DEF NotAhead
  <2>4. row[c.task].attempts \in Nat
    BY <2>1, RowFacts DEF TypeOK
  <2> QED BY <1>1, <2>1, <2>3, <2>4
<1>2. ASSUME NEW x \in Workers, NEW c \in cand[x], ClaimTask(x, c) PROVE FALSE
  <2>1. \A y \in Workers \ {x} : job'[y] = job[y]
    BY <1>2, ClaimLearns
  <2>2. CASE v = x
    BY <1>1, <1>2, <2>2
  <2>3. CASE w = x
    BY <1>1, <1>2, <2>3
  <2>4. CASE v # x /\ w # x
    BY <2>1, <2>4 DEF AttemptOnce
  <2> QED BY <2>2, <2>3, <2>4
<1>3. ASSUME NEW x \in Workers, NEW s \in SUBSET Due, Select(x, s) PROVE FALSE
  BY <1>3, SelectLearns DEF AttemptOnce
<1>4. CASE Oblivious
  BY <1>4 DEF Oblivious, AttemptOnce
<1> QED BY <1>2, <1>3, <1>4, OtherSteps

(* The inductive invariant: AttemptOnce rests on NotAhead, NotAhead on the *)
(* types, and the types on workers having a record in their handler.       *)
IInv == TypeOK /\ Lifecycle /\ NotAhead /\ AttemptOnce

(* It holds initially.                                                     *)
LEMMA IInvInit == Init => IInv
<1> SUFFICES ASSUME Init PROVE IInv
  OBVIOUS
<1>1. TypeOK /\ Lifecycle
  BY TypeInit
<1>2. NotAhead /\ AttemptOnce
  BY DEF Init, NotAhead, Memory, AttemptOnce
<1> QED BY <1>1, <1>2 DEF IInv

(* Every step, stuttering included, keeps it.                              *)
LEMMA IInvStep == IInv /\ [Next]_vars => IInv'
<1> SUFFICES ASSUME IInv, [Next]_vars PROVE IInv'
  OBVIOUS
<1>1. TypeOK' /\ Lifecycle'
  BY TypeStep DEF IInv
<1>2. CASE Next
  BY <1>1, <1>2, NotAheadStep, AttemptOnceStep DEF IInv
<1>3. CASE UNCHANGED vars
  BY <1>1, <1>3 DEF IInv, NotAhead, Memory, AttemptOnce, vars, workerVars
<1> QED BY <1>2, <1>3

(* The inductive invariant holds in every reachable state of every         *)
(* deployment.                                                             *)
THEOREM InvariantHolds == Spec => []IInv
BY IInvInit, IInvStep, PTL DEF Spec

(* Type correctness: in particular retries never give a row a wait outside *)
(* the naturals, since RetryBackoff is bounded, and a budget is never      *)
(* negative, since NewEnqueueOptions clamps it.                            *)
THEOREM TypeCorrect == Spec => []TypeOK
<1>1. IInv => TypeOK
  BY DEF IInv
<1> QED BY <1>1, InvariantHolds, PTL

(* complete and claim may rely on attempts as a version of the row within  *)
(* a life: no worker ever remembers a later one than the table has.        *)
THEOREM NeverAhead == Spec => []NotAhead
<1>1. IInv => NotAhead
  BY DEF IInv
<1> QED BY <1>1, InvariantHolds, PTL

(* The optimistic UPDATE of claim never delivers an attempt twice, however *)
(* leases lapse, processes crash and statements fail or only seem to.      *)
THEOREM NoDoubleDelivery == Spec => []AttemptOnce
<1>1. IInv => AttemptOnce
  BY DEF IInv
<1> QED BY <1>1, InvariantHolds, PTL

(* Within a life of a row, complete's attempts guard keeps the failure of  *)
(* a worker that lost its lease away from the row.                         *)
THEOREM StaleFailuresAreHarmless == Spec => StaleFailureIsHarmless
<1> DEFINE Harmless(w) ==
      LET t == job[w].task IN
      (Finishes(w) /\ ~ Owns(w) /\ job[w].life = row[t].life)
        => row'[t] = row[t] \/ row'[t].status = "deleted"
<1>1. ASSUME IInv, Next, NEW w \in Workers, Finishes(w) PROVE HandlerReturns(w)
  <2> USE DEF Finishes
  <2>1. TypeOK /\ Lifecycle
    BY <1>1 DEF IInv
  <2>2. pc[w] = "handle" /\ pc'[w] = "begin"
    BY <1>1
  <2>3. ~ \E p \in Procs : \E t \in Tasks :
             (\E i \in EnqueueInputs : Enqueue(p, t, i)) \/ RequeueDeadTask(p, t)
    BY <2>2 DEF Enqueue, RequeueDeadTask
  <2>4. ~ \E t \in Tasks : DeleteDeadTask(t)
    BY <2>2 DEF DeleteDeadTask, workerVars
  <2>5. ~ \E p \in Procs : Consume(p)
    BY <2>1, <2>2 DEF Consume, WorkersOf, Lifecycle
  <2>6. ASSUME NEW p \in Procs, Stop(p) \/ CloseDone(p) \/ Crash(p) PROVE FALSE
    <3>1. CASE Stop(p) \/ CloseDone(p)
      BY <2>2, <3>1 DEF Stop, CloseDone, workerVars
    <3>2. CASE Crash(p)
      <4>1. pc' = [v \in Workers |-> IF v \in WorkersOf(p) THEN "off" ELSE pc[v]]
        BY <3>2 DEF Crash
      <4> QED BY <2>2, <4>1
    <3> QED BY <2>6, <3>1, <3>2
  <2>7. ASSUME NEW x \in Workers, WorkerStep(x) PROVE FALSE
    <3>1. pc[x] # "handle"
      BY <2>7 DEF WorkerStep, Begin, Select, ClaimTask, LoseCandidate, QueryNext, ClaimFails,
                  Reap, Wake
    <3>2. \E l \in PCs : pc' = [pc EXCEPT ![x] = l] \/ pc' = pc
      BY <2>7 DEF WorkerStep, Begin, Select, ClaimTask, LoseCandidate, QueryNext, ClaimFails,
                  GiveUp, Reap, Wake, Go, PCs
    <3> QED BY <2>1, <2>2, <3>1, <3>2 DEF TypeOK
  <2>8. ~ Tick
    BY <2>2 DEF Tick
  <2>9. ASSUME NEW x \in Workers, HandlerReturns(x), x # w PROVE FALSE
    <3>1. Release(x)
      BY <2>9 DEF HandlerReturns, HandlerSucceeds, Bury, Reschedule, CompleteFails
    <3> QED BY <2>1, <2>2, <2>9, <3>1 DEF Release, Go, TypeOK
  <2> QED BY <1>1, <2>3, <2>4, <2>5, <2>6, <2>7, <2>8, <2>9, NextCases
<1>2. ASSUME IInv, Next, NEW w \in Workers PROVE Harmless(w)
  <2> SUFFICES ASSUME Finishes(w), ~ Owns(w), job[w].life = row[job[w].task].life
               PROVE  row'[job[w].task] = row[job[w].task] \/ row'[job[w].task].status = "deleted"
    OBVIOUS
  <2>1. HandlerReturns(w)
    BY <1>1, <1>2
  <2>2. TypeOK /\ job[w].task \in Tasks
    BY <1>2, Handling DEF IInv, Finishes
  <2>3. ~ Guard(job[w])
    BY DEF Owns, Guard
  <2>4. CASE HandlerSucceeds(w)
    <3>1. row'[job[w].task] = Settled(job[w].task, "deleted")
      BY <2>2, <2>4 DEF HandlerSucceeds, TypeOK
    <3> QED BY <2>2, <3>1, SettledFacts
  <2>5. CASE Bury(w) \/ Reschedule(w) \/ CompleteFails(w)
    BY <2>3, <2>5 DEF Bury, Reschedule, CompleteFails
  <2> QED BY <2>1, <2>4, <2>5 DEF HandlerReturns
<1>3. IInv /\ [Next]_vars => [\A w \in Workers : Harmless(w)]_vars
  BY <1>2
<1> QED BY <1>3, InvariantHolds, PTL DEF Spec, StaleFailureIsHarmless
=============================================================================
