-------------------------- MODULE PostgresWorkQueue --------------------------
(***************************************************************************)
(* postgres_workqueue/workqueue.go: the back end on a PostgreSQL table,    *)
(* composed with the LISTEN connections of listener.go.  A claim locks one *)
(* due row that nobody else has locked and takes effect when it commits;   *)
(* every other statement is one step.  Between the steps of a worker       *)
(* anything may happen: statements of other processes, the lapse of a      *)
(* lease, a crash, a lost connection, an error from the database whose     *)
(* statement did or did not take effect.                                   *)
(*                                                                         *)
(* Times are relative: a row's run_at and lease_expires_at, and a worker's *)
(* timer, are the ticks still to go.  Due rows are therefore not ordered,  *)
(* and a claim takes any of them.  Three fields of a row are not columns:  *)
(* life counts its requeues, by is the process that scheduled it and has   *)
(* told its own workers, and heard says that a NOTIFY announced it.        *)
(***************************************************************************)
EXTENDS Options, FiniteSets, PgListener

CONSTANTS Tasks, Workers,
          NoTask, NoProc,
          ProcOf,          \* the process each worker goroutine lives in
          BackoffBase, BackoffMax,
          EnqueueInputs,   \* the settings callers give to Enqueue
          PollInterval, LeaseDuration,
          MaxRequeues, MaxCrashes, MaxFaults,
          MaxLapses,       \* bound: leases that lapse under a live worker
          MaxLate          \* bound: ticks that one reap takes

ASSUME DeploymentAssumption ==
    /\ NoTask \notin Tasks /\ NoProc \notin Procs
    /\ IsFiniteSet(Workers) /\ ProcOf \in [Workers -> Procs]
    /\ BackoffBase \in Int /\ BackoffMax \in Int
ASSUME InputAssumption ==
    EnqueueInputs \subseteq [runAt : {ZeroTime}, delay : Int, maxRetries : Int]
ASSUME BoundAssumption ==
    /\ PollInterval \in Nat \ {0} /\ LeaseDuration \in Nat \ {0}
    /\ MaxRequeues \in Nat /\ MaxCrashes \in Nat /\ MaxFaults \in Nat
    /\ MaxLapses \in Nat /\ MaxLate \in Nat

VARIABLES
    row,        \* the table, as committed
    pc,         \* where each worker goroutine is
    job,        \* the record it is claiming or has claimed
    lease,      \* what its claim writes, or wrote, as the lease
    sleep,      \* the wait claim returned, then its timer
    late,       \* the ticks between the two: not state of the code
    woken,      \* the notify channel it captured has been closed
    sub,        \* the process's subscription
    stopCh,     \* its stopCh has been closed
    requeues, crashes, faults, lapses       \* counted for the bounds

workerVars == <<pc, job, lease, sleep, late, woken>>
subVars    == <<sub, stopCh>>
counters   == <<requeues, crashes, faults, lapses>>
vars == <<row, workerVars, subVars, counters, listenerVars>>

WorkersOf(p) == {w \in Workers : ProcOf[w] = p}

Records == [task : Tasks, attempts : Nat, life : Nat]
NoJob == [task |-> NoTask, attempts |-> 0, life |-> 0]

Rows == [status : {"absent", "pending", "running", "dead", "deleted"},
         attempts : Nat, maxRetries : Nat, wait : Nat, lease : Int,
         life : Nat, by : Procs \cup {NoProc}, heard : BOOLEAN]

PCs == {"off", "begin", "claim", "commit", "next", "reap", "notify", "wait", "handle", "exited"}

TypeOK == /\ row \in [Tasks -> Rows]
          /\ pc \in [Workers -> PCs]
          /\ job \in [Workers -> Records \cup {NoJob}]
          /\ lease \in [Workers -> Int]
          /\ sleep \in [Workers -> Nat] /\ late \in [Workers -> Nat]
          /\ woken \in [Workers -> BOOLEAN]
          /\ sub \in [Procs -> {"idle", "running", "done"}]
          /\ stopCh \in [Procs -> BOOLEAN]
          /\ requeues \in Nat /\ crashes \in Nat /\ faults \in Nat /\ lapses \in Nat
          /\ ListenerTypeOK

Init == /\ row = [t \in Tasks |-> [status |-> "absent", attempts |-> 0, maxRetries |-> 0,
                                   wait |-> 0, lease |-> 0, life |-> 0, by |-> NoProc,
                                   heard |-> FALSE]]
        /\ pc = [w \in Workers |-> "off"]
        /\ job = [w \in Workers |-> NoJob]
        /\ lease = [w \in Workers |-> 0]
        /\ sleep = [w \in Workers |-> 0] /\ late = [w \in Workers |-> 0]
        /\ woken = [w \in Workers |-> FALSE]
        /\ sub = [p \in Procs |-> "idle"]
        /\ stopCh = [p \in Procs |-> FALSE]
        /\ requeues = 0 /\ crashes = 0 /\ faults = 0 /\ lapses = 0
        /\ ListenerInit

-----------------------------------------------------------------------------
Go(w, label) == pc' = [pc EXCEPT ![w] = label]

(* Mutant: only workers already in the select are woken. *)
BroadcastToSleepers(p) ==
    woken' = [w \in Workers |-> woken[w] \/ (ProcOf[w] = p /\ pc[w] = "wait")]

(* broadcastLocal, and broadcastAll for the one queue of the model: the    *)
(* workers of this process that captured the channel.                      *)
BroadcastLocal(p) ==
    woken' = [w \in Workers |-> woken[w] \/ (ProcOf[w] = p /\
                 pc[w] \in {"claim", "commit", "next", "reap", "notify", "wait"})]

(* The database returns an error. *)
Fault == faults < MaxFaults /\ faults' = faults + 1

(* Rows some claim has locked and not yet committed. *)
Locked == {job[w].task : w \in {v \in Workers : pc[v] = "commit"}}

Pending == {t \in Tasks : row[t].status = "pending"}
Due == {t \in Pending : row[t].wait = 0}

-----------------------------------------------------------------------------
(* The interface. *)

(* The NOTIFY rides in the transaction that schedules the row, so it is    *)
(* sent whether or not the caller learns of the commit; broadcastLocal     *)
(* runs only if the caller does.                                           *)
Announce(p, t) ==
    /\ row'[t].heard
    /\ Notify
    /\ \/ row'[t].by = p /\ BroadcastLocal(p) /\ UNCHANGED faults
       \/ row'[t].by = NoProc /\ Fault /\ UNCHANGED woken

NewRow(t, o, by) ==
    [status |-> "pending", attempts |-> 0, maxRetries |-> o.maxRetries,
     wait |-> ResolveRunAt(o, 0), lease |-> 0, life |-> row[t].life, by |-> by, heard |-> TRUE]

Enqueue(p, t, input) ==
    LET o == NewEnqueueOptions(input) IN
    /\ row[t].status = "absent"
    /\ \E by \in {p, NoProc} : row' = [row EXCEPT ![t] = NewRow(t, o, by)]
    /\ Announce(p, t)
    /\ UNCHANGED <<pc, job, lease, sleep, late, subVars, requeues, crashes, lapses>>

(* A process without workers is one that only calls the other operations. *)
Consume(p) ==
    /\ sub[p] = "idle" /\ WorkersOf(p) # {}
    /\ sub' = [sub EXCEPT ![p] = "running"]
    /\ pc' = [w \in Workers |-> IF w \in WorkersOf(p) THEN "begin" ELSE pc[w]]
    /\ UNCHANGED <<row, job, lease, sleep, late, woken, stopCh, counters, listenerVars>>

Stop(p) ==
    /\ sub[p] # "idle"
    /\ stopCh' = [stopCh EXCEPT ![p] = TRUE]
    /\ UNCHANGED <<row, workerVars, sub, counters, listenerVars>>

CloseDone(p) ==
    /\ sub[p] = "running"
    /\ \A w \in WorkersOf(p) : pc[w] = "exited"
    /\ sub' = [sub EXCEPT ![p] = "done"]
    /\ UNCHANGED <<row, workerVars, stopCh, counters, listenerVars>>

(* Close ends the listener; subscriptions go on polling. *)
Close(p) ==
    /\ CloseListener(p)
    /\ UNCHANGED <<row, workerVars, subVars, counters>>

Revived(t, by) ==
    [row[t] EXCEPT !.status = "pending", !.attempts = 0, !.wait = 0, !.life = @ + 1,
                   !.by = by, !.heard = TRUE]

(* Requeue and delete match on status = 'dead'; otherwise ErrTaskNotFound  *)
(* and nothing changes.                                                    *)
RequeueDeadTask(p, t) ==
    /\ requeues < MaxRequeues
    /\ row[t].status = "dead"
    /\ \E by \in {p, NoProc} : row' = [row EXCEPT ![t] = Revived(t, by)]
    /\ Announce(p, t)
    /\ requeues' = requeues + 1
    /\ UNCHANGED <<pc, job, lease, sleep, late, subVars, crashes, lapses>>

DeleteDeadTask(t) ==
    /\ row[t].status = "dead"
    /\ row' = [row EXCEPT ![t] = [@ EXCEPT !.status = "deleted"]]
    /\ UNCHANGED <<workerVars, subVars, counters, listenerVars>>

-----------------------------------------------------------------------------
(* A worker goroutine. *)

(* Mutant: stopCh is only looked at while sleeping. *)
BeginBlindly(w) ==
    /\ pc[w] = "begin"
    /\ Go(w, "claim")
    /\ woken' = [woken EXCEPT ![w] = FALSE]
    /\ UNCHANGED <<row, job, lease, sleep, late, subVars, counters, listenerVars>>

(* The check of stopCh, then the capture of the notify channel. *)
Begin(w) ==
    /\ pc[w] = "begin"
    /\ Go(w, IF stopCh[ProcOf[w]] THEN "exited" ELSE "claim")
    /\ woken' = [woken EXCEPT ![w] = FALSE]
    /\ UNCHANGED <<row, job, lease, sleep, late, subVars, counters, listenerVars>>

(* Mutants: a plain subquery, without FOR UPDATE SKIP LOCKED; one that     *)
(* does not ask for run_at.                                                *)
ReadableRows == Due
UnlockedRows == Pending \ Locked

(* The rows the claim's subquery can lock. *)
Claimable == Due \ Locked

(* The subquery locks a row; the claim is not committed yet. *)
LockRow(w, t) ==
    /\ pc[w] = "claim" /\ t \in Claimable
    /\ job' = [job EXCEPT ![w] = [task |-> t, attempts |-> row[t].attempts + 1,
                                  life |-> row[t].life]]
    /\ lease' = [lease EXCEPT ![w] = LeaseDuration]
    /\ Go(w, "commit")
    /\ UNCHANGED <<row, sleep, late, woken, subVars, counters, listenerVars>>

(* The SET clause of the claim. *)
ClaimedRow(w) ==
    LET t == job[w].task IN
    [row EXCEPT ![t] = [row[t] EXCEPT !.status = "running", !.attempts = @ + 1,
                                      !.lease = lease[w]]]

CommitClaim(w) ==
    /\ pc[w] = "commit"
    /\ row' = ClaimedRow(w)
    /\ Go(w, "handle")
    /\ UNCHANGED <<job, lease, sleep, late, woken, subVars, counters, listenerVars>>

(* Every due row is locked by another claim, or there is none. *)
FindNothing(w) ==
    /\ pc[w] = "claim" /\ Claimable = {}
    /\ Go(w, "next")
    /\ UNCHANGED <<row, job, lease, sleep, late, woken, subVars, counters, listenerVars>>

(* claim ends without a record, for the given wait. *)
GiveUp(w, wait) ==
    /\ sleep' = [sleep EXCEPT ![w] = wait]
    /\ late' = [late EXCEPT ![w] = 0]
    /\ job' = [job EXCEPT ![w] = NoJob]
    /\ lease' = [lease EXCEPT ![w] = 0]
    /\ Go(w, "reap")
    /\ UNCHANGED <<woken, subVars, requeues, crashes, lapses, listenerVars>>

(* The second query sees locked rows as pending: sleep until the earliest  *)
(* pending row is due, for at least a moment, at most the poll interval.   *)
NextWait(wait) ==
    LET waits == {row[t].wait : t \in Pending} IN
    \/ waits = {} /\ wait = PollInterval
    \/ \E m \in waits : /\ \A n \in waits : m <= n
                        /\ wait = IF m < PollInterval THEN Larger(m, 1) ELSE PollInterval

QueryNext(w, wait) ==
    /\ pc[w] = "next"
    /\ NextWait(wait)
    /\ GiveUp(w, wait)
    /\ UNCHANGED <<row, faults>>

(* An error in either statement of claim ends it; a claim that reports an  *)
(* error may have been committed all the same.                             *)
ClaimFails(w) ==
    /\ pc[w] \in {"claim", "commit", "next"}
    /\ Fault
    /\ UNCHANGED row \/ (pc[w] = "commit" /\ row' = ClaimedRow(w))
    /\ GiveUp(w, PollInterval)

(* Mutant: rows are looked for in the wrong state. *)
ExpiredPending(t) == row[t].status = "pending" /\ row[t].lease < 0

(* The WHERE clause of reapExpiredLeases. *)
Expired(t) == row[t].status = "running" /\ row[t].lease < 0

Reaped(t) == [row[t] EXCEPT !.status = "pending", !.lease = 0, !.by = NoProc, !.heard = FALSE]

(* The UPDATE of reapExpiredLeases; pg_notify follows if it changed rows   *)
(* and reported no error.                                                  *)
Reap(w) ==
    /\ pc[w] = "reap"
    /\ LET reaped == [t \in Tasks |-> IF Expired(t) THEN Reaped(t) ELSE row[t]] IN
       \/ row' = reaped /\ Go(w, IF reaped # row THEN "notify" ELSE "wait") /\ UNCHANGED faults
       \/ row' \in {row, reaped} /\ Fault /\ Go(w, "wait")
    /\ UNCHANGED <<job, lease, sleep, late, woken, subVars, requeues, crashes, lapses, listenerVars>>

(* pg_notify in a statement of its own, then the start of the timer.  It   *)
(* names the queue: from now on all its pending rows have been announced.  *)
NotifyReaped(w) ==
    /\ pc[w] = "notify"
    /\ \/ /\ Notify
          /\ row' = [t \in Tasks |-> IF t \in Pending THEN [row[t] EXCEPT !.heard = TRUE] ELSE row[t]]
          /\ UNCHANGED faults
       \/ Fault /\ UNCHANGED <<row, listenerVars>>
    /\ Go(w, "wait")
    /\ UNCHANGED <<job, lease, sleep, late, woken, subVars, requeues, crashes, lapses>>

Wake(w) ==
    /\ pc[w] = "wait"
    /\ \/ stopCh[ProcOf[w]] /\ Go(w, "exited")
       \/ (woken[w] \/ sleep[w] = 0) /\ Go(w, "begin")
    /\ sleep' = [sleep EXCEPT ![w] = 0]
    /\ late' = [late EXCEPT ![w] = 0]
    /\ woken' = [woken EXCEPT ![w] = FALSE]
    /\ UNCHANGED <<row, job, lease, subVars, counters, listenerVars>>

-----------------------------------------------------------------------------
(* complete, after the handler returned. *)

Release(w) ==
    /\ pc[w] = "handle"
    /\ Go(w, "begin")
    /\ job' = [job EXCEPT ![w] = NoJob]
    /\ lease' = [lease EXCEPT ![w] = 0]
    /\ UNCHANGED <<sleep, late, subVars, requeues, crashes, lapses, listenerVars>>

Settled(t, status) == [row[t] EXCEPT !.status = status, !.lease = 0]

(* Success deletes the row by its id alone, once no claim has it locked.   *)
HandlerSucceeds(w) ==
    /\ Release(w)
    /\ job[w].task \notin Locked
    /\ row' = [row EXCEPT ![job[w].task] = Settled(job[w].task, "deleted")]
    /\ UNCHANGED <<woken, faults>>

(* Mutant: no attempts guard. *)
GuardByStatus(j) == row[j.task].status = "running"

(* The guard of both failure statements. *)
Guard(j) == row[j.task].status = "running" /\ row[j.task].attempts = j.attempts

(* Mutants: the last retry is not given; one retry too many is. *)
ExhaustedEarly(j) == j.attempts >= row[j.task].maxRetries
ExhaustedLate(j) == j.attempts > row[j.task].maxRetries + 1

Exhausted(j) == j.attempts > row[j.task].maxRetries

(* A failure that exhausts the budget: the row, if the guard matches. *)
Bury(w) ==
    LET j == job[w] IN
    /\ Release(w)
    /\ Exhausted(j)
    /\ row' = IF Guard(j) THEN [row EXCEPT ![j.task] = Settled(j.task, "dead")] ELSE row
    /\ UNCHANGED <<woken, faults>>

Rescheduled(j, by) ==
    [row EXCEPT ![j.task] = [@ EXCEPT
        !.status = "pending", !.lease = 0, !.by = by, !.heard = FALSE,
        !.wait = RetryBackoff(BackoffBase, BackoffMax, j.attempts)]]

(* A failure with retries left (an undecodable record counts as one) is    *)
(* announced to this process only, whether or not a row matched.           *)
Reschedule(w) ==
    LET j == job[w] IN
    /\ Release(w)
    /\ ~ Exhausted(j)
    /\ row' = IF Guard(j) THEN Rescheduled(j, ProcOf[w]) ELSE row
    /\ BroadcastLocal(ProcOf[w])
    /\ UNCHANGED faults

(* The statement of complete fails: the row keeps its lease; or it took    *)
(* effect but no worker is woken.                                          *)
CompleteFails(w) ==
    LET j == job[w] IN
    /\ Release(w)
    /\ Fault
    /\ \/ UNCHANGED row
       \/ ~ Exhausted(j) /\ Guard(j) /\ row' = Rescheduled(j, NoProc)
    /\ UNCHANGED woken

-----------------------------------------------------------------------------
(* onWake closes the channel the process's workers captured. *)
ListenerWakes(p) ==
    /\ WakeAll(p) \/ Receive(p)
    /\ BroadcastLocal(p)
    /\ UNCHANGED <<row, pc, job, lease, sleep, late, subVars, counters>>

ListenerMoves(p) ==
    /\ ListenerStep(p)
    /\ UNCHANGED <<row, workerVars, subVars, counters>>

ConnectionDrops(p) ==
    /\ LoseConnection(p)
    /\ UNCHANGED <<row, workerVars, subVars, counters>>

(* A process dies with its workers, its locks and its listener, and starts *)
(* again; its subscription may, too.                                       *)
Crash(p) ==
    /\ sub[p] # "idle" /\ crashes < MaxCrashes
    /\ crashes' = crashes + 1
    /\ LET clear(f, v) == [w \in Workers |-> IF w \in WorkersOf(p) THEN v ELSE f[w]] IN
       /\ pc' = clear(pc, "off")
       /\ job' = clear(job, NoJob)
       /\ lease' = clear(lease, 0)
       /\ sleep' = clear(sleep, 0)
       /\ late' = clear(late, 0)
       /\ woken' = clear(woken, FALSE)
    /\ sub' = [sub EXCEPT ![p] = "idle"]
    /\ stopCh' = [stopCh EXCEPT ![p] = FALSE]
    /\ RestartListener(p)
    /\ UNCHANGED <<row, requeues, faults, lapses>>

(* What is left of a wait, a tick later; of a lease (negative: expired). *)
CountDown(n) == IF n > 0 THEN n - 1 ELSE 0
RunDown(n) == IF n >= 0 THEN n - 1 ELSE n

Aged(t) == [row[t] EXCEPT !.wait = CountDown(@),
                          !.lease = IF row[t].status = "running" THEN RunDown(@) ELSE @]

Leasing == {w \in Workers : pc[w] \in {"commit", "handle"}}

(* Between the wait that claim returns and the start of the timer. *)
Reaping(w) == pc[w] \in {"reap", "notify"}

(* Time passes, also while a worker reaps and notifies.  A lease that      *)
(* lapses under a live worker is counted.                                  *)
Tick ==
    /\ \A w \in Workers : Reaping(w) => late[w] < MaxLate
    /\ lapses' = lapses + Cardinality({w \in Leasing : lease[w] = 0})
    /\ lapses' <= MaxLapses
    /\ row' = [t \in Tasks |-> Aged(t)]
    /\ lease' = [w \in Workers |-> IF w \in Leasing THEN RunDown(lease[w]) ELSE lease[w]]
    /\ sleep' = [w \in Workers |-> IF pc[w] = "wait" THEN CountDown(sleep[w]) ELSE sleep[w]]
    /\ late' = [w \in Workers |-> IF Reaping(w) THEN late[w] + 1 ELSE late[w]]
    /\ pause' = [p \in Procs |-> CountDown(pause[p])]
    /\ <<row, lease, sleep, pause>>' # <<row, lease, sleep, pause>>
    /\ UNCHANGED <<pc, job, woken, subVars, requeues, crashes, faults>>
    /\ UNCHANGED <<conn, inbox, backoff, losses>>

WorkerStep(w) ==
    \/ Begin(w)
    \/ \E t \in Tasks : LockRow(w, t)
    \/ CommitClaim(w)
    \/ FindNothing(w)
    \/ \E wait \in 1 .. PollInterval : QueryNext(w, wait)
    \/ ClaimFails(w)
    \/ Reap(w)
    \/ NotifyReaped(w)
    \/ Wake(w)

HandlerReturns(w) == HandlerSucceeds(w) \/ Bury(w) \/ Reschedule(w) \/ CompleteFails(w)

CallerStep(p) ==
    \/ \E t \in Tasks, o \in EnqueueInputs : Enqueue(p, t, o)
    \/ \E t \in Tasks : RequeueDeadTask(p, t)
    \/ Consume(p) \/ Stop(p) \/ CloseDone(p) \/ Close(p) \/ Crash(p)

Next ==
    \/ \E p \in Procs : CallerStep(p) \/ ListenerMoves(p) \/ ListenerWakes(p) \/ ConnectionDrops(p)
    \/ \E t \in Tasks : DeleteDeadTask(t)
    \/ \E w \in Workers : WorkerStep(w) \/ HandlerReturns(w)
    \/ Tick

Spec == Init /\ [][Next]_vars

(* Goroutines are scheduled, timers fire, time passes, handlers return,    *)
(* connections that do not fail are established and deliver, and a drained *)
(* subscription closes done.                                               *)
Fairness == /\ \A w \in Workers : WF_vars(WorkerStep(w)) /\ WF_vars(HandlerReturns(w))
            /\ \A p \in Procs : /\ WF_vars(CloseDone(p))
                                 /\ WF_vars(ListenerMoves(p)) /\ WF_vars(ListenerWakes(p))
            /\ WF_vars(Tick)

FairSpec == Spec /\ Fairness

-----------------------------------------------------------------------------
(* Correctness. *)

(* The claim a worker works under is the row's current one. *)
Owns(w) == LET r == row[job[w].task] IN
           r.status = "running" /\ r.attempts = job[w].attempts /\ r.life = job[w].life

Finishes(w) == pc[w] = "handle" /\ pc'[w] = "begin"
Starts(w)   == pc[w] = "commit" /\ pc'[w] = "handle"

(* README: "SKIP LOCKED, no losers".  Claims that run at the same time     *)
(* take different rows, and no two handlers run the same attempt of the    *)
(* same life of a task, although leases lapse under running handlers,      *)
(* claims are cut off before or after their commit, and processes crash.   *)
AttemptOnce ==
    \A v, w \in Workers : v # w /\ job[v] # NoJob => job[v] # job[w]

(* Task.RunAt, "the earliest time the task may be delivered to a handler": *)
(* the row that was due when it was locked is still due when the claim     *)
(* commits, whatever failed or was requeued in between.  (The two-step     *)
(* claim of the gorm back end does not keep this across requeues.)         *)
NotEarly ==
    [][\A w \in Workers : Starts(w) => row[job[w].task].wait = 0]_vars

(* The attempts guard of complete: the failure of a worker whose lease     *)
(* lapsed, in the life of the row it claimed, never touches the row.       *)
StaleFailureIsHarmless ==
    [][\A w \in Workers :
        LET t == job[w].task IN
        (Finishes(w) /\ ~ Owns(w) /\ job[w].life = row[t].life)
          => row'[t] = row[t] \/ row'[t].status = "deleted"]_vars

(* Task.MaxRetries, "invoked at most MaxRetries+1 times", as far as the    *)
(* code keeps it: every invocation beyond the budget is paid for by a      *)
(* lapsed lease, a crash or an error of the database.                      *)
BudgetPaid ==
    \A w \in Workers : pc[w] = "handle" =>
        job[w].attempts <= row[job[w].task].maxRetries + 1 + lapses + crashes + faults

(* A worker about to sleep, or asleep, on a channel nobody closed. *)
Dozes(w) == (Reaping(w) \/ pc[w] = "wait") /\ ~ woken[w]

(* It will be up when the row is due, and later only by what the reap and  *)
(* its NOTIFY took, which come between the wait that claim computed and    *)
(* the timer.                                                              *)
UpFor(w, t) == sleep[w] <= Larger(row[t].wait, 1) + late[w]

(* "Workers capture the channel BEFORE querying the table so a             *)
(* notification arriving mid-query still wakes them": no worker sleeps     *)
(* past a row its own process scheduled, retries included.                 *)
LocalWake ==
    \A w \in Workers : \A t \in Pending :
        (Dozes(w) /\ row[t].by = ProcOf[w]) => UpFor(w, t)

(* README: "idle workers in every process wake the moment a task is        *)
(* committed" and "it reconnects with backoff and wakes all queues on      *)
(* reconnect".  While a process waits for notifications and has received   *)
(* all that were sent, none of its workers sleeps past a row that any      *)
(* process announced, however often the connection was lost before.        *)
RemoteWake ==
    \A w \in Workers : \A t \in Pending :
        (Dozes(w) /\ row[t].heard /\ conn[ProcOf[w]] = "wait" /\ inbox[ProcOf[w]] = 0)
          => UpFor(w, t)

(* While a process consumes, each task is acknowledged or dead-lettered in *)
(* the end, the ones a crashed process left running included, with or      *)
(* without a LISTEN connection.                                            *)
TasksSettle ==
    \A t \in Tasks : \A p \in Procs :
        (row[t].status \in {"pending", "running"} /\ sub[p] = "running" /\ ~ stopCh[p])
          ~> (row[t].status \in {"dead", "deleted"} \/ stopCh[p] \/ sub[p] # "running")

(* "The loop reconnects with backoff on any error": a lost connection is   *)
(* replaced by one that listens, unless the queue is closed.               *)
ListensAgain == \A p \in Procs : conn[p] = "backoff" ~> conn[p] \in {"wait", "off"}

(* Stop drains the workers of the process unless it crashes first.         *)
StopDrains == \A p \in Procs : stopCh[p] ~> (sub[p] = "done" \/ ~ stopCh[p])

Contract == INSTANCE WorkQueue WITH
    Budgets    <- {NewEnqueueOptions(o).maxRetries : o \in EnqueueInputs},
    Leased     <- MaxLapses + MaxCrashes + MaxFaults > 0,
    status     <- [t \in Tasks |-> CASE row[t].status = "absent"  -> "none"
                                     [] row[t].status = "deleted" -> "gone"
                                     [] OTHER                     -> row[t].status],
    attempts   <- [t \in Tasks |-> row[t].attempts],
    maxRetries <- [t \in Tasks |-> row[t].maxRetries]

(* The table implements the contract of workqueue.go: the strict one while *)
(* no lease lapses, no process crashes and the database answers, the one   *)
(* with leases otherwise.                                                  *)
ImplementsContract == Contract!Spec
=============================================================================
