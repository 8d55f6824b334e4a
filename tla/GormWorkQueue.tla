---------------------------- MODULE GormWorkQueue ----------------------------
(***************************************************************************)
(* gorm_workqueue/workqueue.go: the back end on a shared database table.   *)
(* Several processes poll one queue; each SQL statement is one step, and   *)
(* between two statements of a worker anything may happen: other workers'  *)
(* statements, the lapse of a lease, a crash of the process, an error from *)
(* the database whose statement did or did not take effect.                *)
(*                                                                         *)
(* Times are relative: a row's run_at and lease_expires_at, and a worker's *)
(* timer, are the ticks still to go, and Tick takes one off each.  Hence   *)
(* rows that are due are not ordered: the candidates of a claim are tried  *)
(* in any order, which includes run_at, enqueued_at.  Two fields of a row  *)
(* are not columns of the table: life counts its requeues, to tell its     *)
(* lives apart, and by is the process that scheduled it and has told its   *)
(* own workers.                                                            *)
(***************************************************************************)
EXTENDS Options, FiniteSets

CONSTANTS Tasks, Procs, Workers,
          NoTask, NoProc,
          ProcOf,          \* the process each worker goroutine lives in
          BackoffBase, BackoffMax,
          EnqueueInputs,   \* the settings callers give to Enqueue
          Window,          \* the candidate window of claim
          PollInterval, LeaseDuration,
          Prompt,          \* no live worker outlasts its lease
          Recycled,        \* identifiers that stand for ever new tasks
          MaxAttempts,     \* bound: a row claimed this often is claimed no more
          MaxLate,         \* bound: ticks that one reap takes
          MaxRequeues, MaxCrashes, MaxFaults

ASSUME DeploymentAssumption ==
    /\ NoTask \notin Tasks /\ NoProc \notin Procs /\ Recycled \subseteq Tasks
    /\ ProcOf \in [Workers -> Procs]
    /\ BackoffBase \in Int /\ BackoffMax \in Int
    /\ Prompt \in BOOLEAN
ASSUME InputAssumption ==
    EnqueueInputs \subseteq [runAt : {ZeroTime}, delay : Int, maxRetries : Int]
ASSUME BoundAssumption ==
    /\ Window \in Nat \ {0} /\ PollInterval \in Nat \ {0} /\ LeaseDuration \in Nat \ {0}
    /\ MaxAttempts \in Nat /\ MaxLate \in Nat
    /\ MaxRequeues \in Nat /\ MaxCrashes \in Nat /\ MaxFaults \in Nat

VARIABLES
    row,        \* the table
    pc,         \* where each worker goroutine is
    cand,       \* the candidates its claim read and has not tried yet
    job,        \* the record it has claimed
    lease,      \* what its claim writes, or wrote, as the lease
    sleep,      \* the wait claim returned, then its timer
    late,       \* the ticks between the two: not state of the code
    woken,      \* the notify channel it captured has been closed
    sub,        \* the process's subscription
    stopCh,     \* its stopCh has been closed
    requeues, crashes, faults       \* counted for the bounds only

workerVars == <<pc, cand, job, lease, sleep, late, woken>>
subVars    == <<sub, stopCh>>
counters   == <<requeues, crashes, faults>>
vars == <<row, workerVars, subVars, counters>>

WorkersOf(p) == {w \in Workers : ProcOf[w] = p}

(* A record as a worker knows it: read by claim, then claimed. *)
Records == [task : Tasks, attempts : Nat, life : Nat]
NoJob == [task |-> NoTask, attempts |-> 0, life |-> 0]

Rows == [status : {"absent", "pending", "running", "dead", "deleted"},
         attempts : Nat, maxRetries : Nat, wait : Nat, lease : Int,
         life : Nat, by : Procs \cup {NoProc}]

PCs == {"off", "begin", "select", "claim", "reap", "wait", "handle", "exited"}

TypeOK == /\ row \in [Tasks -> Rows]
          /\ pc \in [Workers -> PCs]
          /\ cand \in [Workers -> SUBSET Records]
          /\ job \in [Workers -> Records \cup {NoJob}]
          /\ lease \in [Workers -> Int]
          /\ sleep \in [Workers -> Nat] /\ late \in [Workers -> Nat]
          /\ woken \in [Workers -> BOOLEAN]
          /\ sub \in [Procs -> {"idle", "running", "done"}]
          /\ stopCh \in [Procs -> BOOLEAN]
          /\ requeues \in Nat /\ crashes \in Nat /\ faults \in Nat

Init == /\ row = [t \in Tasks |-> [status |-> "absent", attempts |-> 0, maxRetries |-> 0,
                                   wait |-> 0, lease |-> 0, life |-> 0, by |-> NoProc]]
        /\ pc = [w \in Workers |-> "off"]
        /\ cand = [w \in Workers |-> {}]
        /\ job = [w \in Workers |-> NoJob]
        /\ lease = [w \in Workers |-> 0]
        /\ sleep = [w \in Workers |-> 0] /\ late = [w \in Workers |-> 0]
        /\ woken = [w \in Workers |-> FALSE]
        /\ sub = [p \in Procs |-> "idle"]
        /\ stopCh = [p \in Procs |-> FALSE]
        /\ requeues = 0 /\ crashes = 0 /\ faults = 0

-----------------------------------------------------------------------------
Go(w, label) == pc' = [pc EXCEPT ![w] = label]

(* Mutant: only workers already in the select are woken. *)
BroadcastToSleepers(p) ==
    woken' = [w \in Workers |-> woken[w] \/ (ProcOf[w] = p /\ pc[w] = "wait")]

(* broadcastLocal: the workers of this process that captured the channel. *)
BroadcastLocal(p) ==
    woken' = [w \in Workers |->
                woken[w] \/ (ProcOf[w] = p /\ pc[w] \in {"select", "claim", "reap", "wait"})]

(* The database returns an error. *)
Fault == faults < MaxFaults /\ faults' = faults + 1

(* The rows a claim's first query finds. *)
Due == {t \in Tasks : /\ row[t].status = "pending" /\ row[t].wait = 0
                      /\ row[t].attempts < MaxAttempts}

-----------------------------------------------------------------------------
(* The interface. *)

(* An identifier is used once, except that a recycled one stands for the   *)
(* next of many tasks as soon as no worker remembers the last.             *)
Fresh(t) ==
    \/ row[t].status = "absent"
    \/ /\ t \in Recycled /\ row[t].status = "deleted"
       /\ \A w \in Workers : job[w].task # t /\ \A c \in cand[w] : c.task # t

(* A statement that schedules a row is followed by broadcastLocal; when it *)
(* took effect and yet reports an error, there is no broadcast.  The new   *)
(* row carries the process only in the first case.                         *)
Announce(p, t) ==
    \/ row'[t].by = p /\ BroadcastLocal(p) /\ UNCHANGED faults
    \/ row'[t].by = NoProc /\ Fault /\ UNCHANGED woken

NewRow(t, o, by) ==
    [status |-> "pending", attempts |-> 0, maxRetries |-> o.maxRetries,
     wait |-> ResolveRunAt(o, 0), lease |-> 0, life |-> row[t].life, by |-> by]

(* Enqueue inserts a row and wakes local workers. *)
Enqueue(p, t, input) ==
    LET o == NewEnqueueOptions(input) IN
    /\ Fresh(t)
    /\ \E by \in {p, NoProc} : row' = [row EXCEPT ![t] = NewRow(t, o, by)]
    /\ Announce(p, t)
    /\ UNCHANGED <<pc, cand, job, lease, sleep, late, subVars, requeues, crashes>>

Consume(p) ==
    /\ sub[p] = "idle"
    /\ sub' = [sub EXCEPT ![p] = "running"]
    /\ pc' = [w \in Workers |-> IF w \in WorkersOf(p) THEN "begin" ELSE pc[w]]
    /\ UNCHANGED <<row, cand, job, lease, sleep, late, woken, stopCh, counters>>

Stop(p) ==
    /\ sub[p] # "idle"
    /\ stopCh' = [stopCh EXCEPT ![p] = TRUE]
    /\ UNCHANGED <<row, workerVars, sub, counters>>

CloseDone(p) ==
    /\ sub[p] = "running"
    /\ \A w \in WorkersOf(p) : pc[w] = "exited"
    /\ sub' = [sub EXCEPT ![p] = "done"]
    /\ UNCHANGED <<row, workerVars, stopCh, counters>>

Revived(t, by) ==
    [row[t] EXCEPT !.status = "pending", !.attempts = 0, !.wait = 0, !.life = @ + 1, !.by = by]

(* Requeue and delete match on status = 'dead'; otherwise ErrTaskNotFound  *)
(* and nothing changes.                                                    *)
RequeueDeadTask(p, t) ==
    /\ requeues < MaxRequeues
    /\ row[t].status = "dead"
    /\ \E by \in {p, NoProc} : row' = [row EXCEPT ![t] = Revived(t, by)]
    /\ Announce(p, t)
    /\ requeues' = requeues + 1
    /\ UNCHANGED <<pc, cand, job, lease, sleep, late, subVars, crashes>>

DeleteDeadTask(t) ==
    /\ row[t].status = "dead"
    /\ row' = [row EXCEPT ![t] = [@ EXCEPT !.status = "deleted"]]
    /\ UNCHANGED <<workerVars, subVars, counters>>

-----------------------------------------------------------------------------
(* A worker goroutine. *)

(* Mutant: stopCh is only looked at while sleeping. *)
BeginBlindly(w) ==
    /\ pc[w] = "begin"
    /\ Go(w, "select")
    /\ woken' = [woken EXCEPT ![w] = FALSE]
    /\ UNCHANGED <<row, cand, job, lease, sleep, late, subVars, counters>>

(* The check of stopCh, then the capture of the notify channel. *)
Begin(w) ==
    /\ pc[w] = "begin"
    /\ Go(w, IF stopCh[ProcOf[w]] THEN "exited" ELSE "select")
    /\ woken' = [woken EXCEPT ![w] = FALSE]
    /\ UNCHANGED <<row, cand, job, lease, sleep, late, subVars, counters>>

(* claim's first query: at most Window rows that are due. *)
Select(w, rows) ==
    /\ pc[w] = "select"
    /\ rows \subseteq Due /\ Cardinality(rows) <= Window
    /\ rows = Due \/ Cardinality(rows) = Window
    /\ cand' = [cand EXCEPT ![w] = {[task |-> t, attempts |-> row[t].attempts,
                                     life |-> row[t].life] : t \in rows}]
    /\ lease' = [lease EXCEPT ![w] = LeaseDuration]
    /\ Go(w, "claim")
    /\ UNCHANGED <<row, job, sleep, late, woken, subVars, counters>>

(* Mutant: no attempts guard. *)
ClaimableByStatus(c) == row[c.task].status = "pending"

(* The WHERE clause of the optimistic UPDATE. *)
Claimable(c) == row[c.task].status = "pending" /\ row[c.task].attempts = c.attempts

(* Its SET clause. *)
ClaimedRow(w, t) == [row[t] EXCEPT !.status = "running", !.attempts = @ + 1, !.lease = lease[w]]

ClaimTask(w, c) ==
    /\ pc[w] = "claim" /\ Claimable(c)
    /\ row' = [row EXCEPT ![c.task] = ClaimedRow(w, c.task)]
    /\ job' = [job EXCEPT ![w] = [task |-> c.task, attempts |-> c.attempts + 1,
                                  life |-> row[c.task].life]]
    /\ cand' = [cand EXCEPT ![w] = {}]
    /\ Go(w, "handle")
    /\ UNCHANGED <<lease, sleep, late, woken, subVars, counters>>

(* No row matched: another worker was faster; on to the next candidate. *)
LoseCandidate(w, c) ==
    /\ pc[w] = "claim" /\ ~ Claimable(c)
    /\ cand' = [cand EXCEPT ![w] = @ \ {c}]
    /\ UNCHANGED <<row, pc, job, lease, sleep, late, woken, subVars, counters>>

(* claim ends without a record, for the given wait. *)
GiveUp(w, wait) ==
    /\ sleep' = [sleep EXCEPT ![w] = wait]
    /\ late' = [late EXCEPT ![w] = 0]
    /\ cand' = [cand EXCEPT ![w] = {}]
    /\ lease' = [lease EXCEPT ![w] = 0]
    /\ Go(w, "reap")
    /\ UNCHANGED <<job, woken, subVars, requeues, crashes>>

(* Nothing claimed: sleep until the earliest pending row is due, for at    *)
(* least a moment and at most the poll interval.                           *)
NextWait(wait) ==
    LET waits == {row[t].wait : t \in {x \in Tasks : row[x].status = "pending"}} IN
    \/ waits = {} /\ wait = PollInterval
    \/ \E m \in waits : /\ \A n \in waits : m <= n
                        /\ wait = IF m < PollInterval THEN Larger(m, 1) ELSE PollInterval

QueryNext(w, wait) ==
    /\ pc[w] = "claim" /\ cand[w] = {}
    /\ NextWait(wait)
    /\ GiveUp(w, wait)
    /\ UNCHANGED <<row, faults>>

(* An error in any statement of claim ends it; an UPDATE that reports an   *)
(* error may have claimed the row all the same.                            *)
ClaimFails(w) ==
    /\ pc[w] \in {"select", "claim"}
    /\ Fault
    /\ \/ UNCHANGED row
       \/ \E c \in cand[w] : Claimable(c) /\ row' = [row EXCEPT ![c.task] = ClaimedRow(w, c.task)]
    /\ GiveUp(w, PollInterval)

(* Mutant: rows are looked for in the wrong state. *)
ExpiredPending(t) == row[t].status = "pending" /\ row[t].lease < 0

(* The WHERE clause of reapExpiredLeases. *)
Expired(t) == row[t].status = "running" /\ row[t].lease < 0

(* Mutant: the abandoned attempt is not counted. *)
Refunded(t) == [row[t] EXCEPT !.status = "pending", !.lease = 0, !.by = NoProc,
                              !.attempts = @ - 1]

Reaped(t) == [row[t] EXCEPT !.status = "pending", !.lease = 0, !.by = NoProc]

(* reapExpiredLeases, then the start of the timer. *)
Reap(w) ==
    /\ pc[w] = "reap"
    /\ \/ /\ row' = [t \in Tasks |-> IF Expired(t) THEN Reaped(t) ELSE row[t]]
          /\ UNCHANGED faults
       \/ Fault /\ UNCHANGED row
    /\ Go(w, "wait")
    /\ UNCHANGED <<cand, job, lease, sleep, late, woken, subVars, requeues, crashes>>

Wake(w) ==
    /\ pc[w] = "wait"
    /\ \/ stopCh[ProcOf[w]] /\ Go(w, "exited")
       \/ (woken[w] \/ sleep[w] = 0) /\ Go(w, "begin")
    /\ sleep' = [sleep EXCEPT ![w] = 0]
    /\ late' = [late EXCEPT ![w] = 0]
    /\ woken' = [woken EXCEPT ![w] = FALSE]
    /\ UNCHANGED <<row, cand, job, lease, subVars, counters>>

-----------------------------------------------------------------------------
(* complete, after the handler returned. *)

Release(w) ==
    /\ pc[w] = "handle"
    /\ Go(w, "begin")
    /\ job' = [job EXCEPT ![w] = NoJob]
    /\ lease' = [lease EXCEPT ![w] = 0]
    /\ UNCHANGED <<cand, sleep, late, subVars, requeues, crashes>>

(* The row leaves the running state for good, or until it is requeued. *)
Settled(t, status) == [row[t] EXCEPT !.status = status, !.lease = 0]

(* Success deletes the row by its id alone. *)
HandlerSucceeds(w) ==
    /\ Release(w)
    /\ row' = [row EXCEPT ![job[w].task] = Settled(job[w].task, "deleted")]
    /\ UNCHANGED <<woken, faults>>

(* Mutant: no attempts guard. *)
GuardByStatus(j) == row[j.task].status = "running"

(* The guard of both failure statements. *)
Guard(j) == row[j.task].status = "running" /\ row[j.task].attempts = j.attempts

(* Mutant: the last retry is not given. *)
ExhaustedEarly(j) == j.attempts >= row[j.task].maxRetries

Exhausted(j) == j.attempts > row[j.task].maxRetries

(* A failure that exhausts the budget: the row, if the guard matches. *)
Bury(w) ==
    LET j == job[w] IN
    /\ Release(w)
    /\ Exhausted(j)
    /\ row' = IF Guard(j) THEN [row EXCEPT ![j.task] = Settled(j.task, "dead")] ELSE row
    /\ UNCHANGED <<woken, faults>>

(* A failure with retries left (an undecodable record counts as one). The  *)
(* workers are woken whether or not a row matched.                         *)
Rescheduled(j, by) ==
    [row EXCEPT ![j.task] = [@ EXCEPT
        !.status = "pending", !.lease = 0, !.by = by,
        !.wait = RetryBackoff(BackoffBase, BackoffMax, j.attempts)]]

Reschedule(w) ==
    LET j == job[w] IN
    /\ Release(w)
    /\ ~ Exhausted(j)
    /\ row' = IF Guard(j) THEN Rescheduled(j, ProcOf[w]) ELSE row
    /\ BroadcastLocal(ProcOf[w])
    /\ UNCHANGED faults

(* The statement of complete fails: the row keeps its lease; or it took    *)
(* effect but no worker is woken.                                          *)
CompleteFails(w) ==
    LET j == job[w] IN
    /\ Release(w)
    /\ Fault
    /\ \/ UNCHANGED row
       \/ ~ Exhausted(j) /\ Guard(j) /\ row' = Rescheduled(j, NoProc)
    /\ UNCHANGED woken

-----------------------------------------------------------------------------
(* A process dies with its workers; its subscription may start again. *)
Crash(p) ==
    /\ sub[p] # "idle" /\ crashes < MaxCrashes
    /\ crashes' = crashes + 1
    /\ LET clear(f, v) == [w \in Workers |-> IF w \in WorkersOf(p) THEN v ELSE f[w]] IN
       /\ pc' = clear(pc, "off")
       /\ cand' = clear(cand, {})
       /\ job' = clear(job, NoJob)
       /\ lease' = clear(lease, 0)
       /\ sleep' = clear(sleep, 0)
       /\ late' = clear(late, 0)
       /\ woken' = clear(woken, FALSE)
    /\ sub' = [sub EXCEPT ![p] = "idle"]
    /\ stopCh' = [stopCh EXCEPT ![p] = FALSE]
    /\ UNCHANGED <<row, requeues, faults>>

(* What is left of a wait, a tick later; of a lease (negative: expired). *)
CountDown(n) == IF n > 0 THEN n - 1 ELSE 0
RunDown(n) == IF n >= 0 THEN n - 1 ELSE n

Aged(t) == [row[t] EXCEPT !.wait = CountDown(@),
                          !.lease = IF row[t].status = "running" THEN RunDown(@) ELSE @]

(* Time passes, during the reap too, which comes between the wait that     *)
(* claim returns and the start of the timer; if Prompt, not beyond the     *)
(* lease of a live worker.                                                 *)
Tick ==
    /\ \A w \in Workers : pc[w] = "reap" => late[w] < MaxLate
    /\ Prompt => \A w \in Workers : pc[w] \in {"claim", "handle"} => lease[w] > 0
    /\ row' = [t \in Tasks |-> Aged(t)]
    /\ lease' = [w \in Workers |-> IF pc[w] \in {"claim", "handle"}
                                   THEN RunDown(lease[w]) ELSE lease[w]]
    /\ sleep' = [w \in Workers |-> IF pc[w] = "wait" THEN CountDown(sleep[w]) ELSE sleep[w]]
    /\ late' = [w \in Workers |-> IF pc[w] = "reap" THEN late[w] + 1 ELSE late[w]]
    /\ row' # row \/ lease' # lease \/ sleep' # sleep
    /\ UNCHANGED <<pc, cand, job, woken, subVars, counters>>

WorkerStep(w) ==
    \/ Begin(w)
    \/ \E rows \in SUBSET Due : Select(w, rows)
    \/ \E c \in cand[w] : ClaimTask(w, c) \/ LoseCandidate(w, c)
    \/ \E wait \in 1 .. PollInterval : QueryNext(w, wait)
    \/ ClaimFails(w)
    \/ Reap(w)
    \/ Wake(w)

HandlerReturns(w) == HandlerSucceeds(w) \/ Bury(w) \/ Reschedule(w) \/ CompleteFails(w)

CallerStep(p) ==
    \/ \E t \in Tasks, o \in EnqueueInputs : Enqueue(p, t, o)
    \/ \E t \in Tasks : RequeueDeadTask(p, t)
    \/ Consume(p) \/ Stop(p) \/ CloseDone(p) \/ Crash(p)

Next ==
    \/ \E p \in Procs : CallerStep(p)
    \/ \E t \in Tasks : DeleteDeadTask(t)
    \/ \E w \in Workers : WorkerStep(w) \/ HandlerReturns(w)
    \/ Tick

Spec == Init /\ [][Next]_vars

(* Goroutines are scheduled, timers fire, time passes, handlers return and *)
(* a drained subscription closes done.                                     *)
Fairness == /\ \A w \in Workers : WF_vars(WorkerStep(w)) /\ WF_vars(HandlerReturns(w))
            /\ \A p \in Procs : WF_vars(CloseDone(p))
            /\ WF_vars(Tick)

FairSpec == Spec /\ Fairness

-----------------------------------------------------------------------------
(* Correctness. *)

(* The claim a worker works under is the row's current one. *)
Owns(w) == LET r == row[job[w].task] IN
           r.status = "running" /\ r.attempts = job[w].attempts /\ r.life = job[w].life

(* In this step worker w finishes its delivery; it starts one. *)
Finishes(w) == pc[w] = "handle" /\ pc'[w] = "begin"
Starts(w)   == pc[w] = "claim" /\ pc'[w] = "handle"

(* A worker works on a record exactly while its handler runs; workers are  *)
(* off until their subscription starts and gone when it is done.           *)
Lifecycle ==
    \A w \in Workers : /\ job[w] # NoJob <=> pc[w] = "handle"
                       /\ cand[w] # {} => pc[w] = "claim"
                       /\ sub[ProcOf[w]] = "idle" => pc[w] = "off"
                       /\ sub[ProcOf[w]] = "done" => pc[w] = "exited"

(* What a worker remembers of rows: its job and its candidates. *)
Memory(w) == {r \in {job[w]} \cup cand[w] : r # NoJob}

(* Attempts only grow within a life of a row: whatever a worker remembers  *)
(* of a life, from before lapsed leases, requeues, crashes and lost        *)
(* answers, is never ahead of the table.                                   *)
NotAhead ==
    \A w \in Workers : \A r \in Memory(w) :
        /\ row[r.task].status # "absent"
        /\ r.life <= row[r.task].life
        /\ r.life = row[r.task].life => r.attempts <= row[r.task].attempts

(* "competing workers never double-deliver an attempt" (README): no two    *)
(* handlers run the same attempt of the same life of a task, although      *)
(* leases lapse under running handlers, processes crash between SELECT and *)
(* UPDATE, and statements take effect and report an error.                 *)
AttemptOnce ==
    \A v, w \in Workers : v # w /\ job[v] # NoJob => job[v] # job[w]

(* The attempts guard of complete: the failure of a worker whose lease     *)
(* lapsed, in the life of the row it claimed, never touches the row.       *)
StaleFailureIsHarmless ==
    [][\A w \in Workers :
        LET t == job[w].task IN
        (Finishes(w) /\ ~ Owns(w) /\ job[w].life = row[t].life)
          => row'[t] = row[t] \/ row'[t].status = "deleted"]_vars

(* The attempts guard of claim: a candidate read in the same life of the   *)
(* row is claimed only if it is still due, however long ago it was read.   *)
NotEarlyInOneLife ==
    [][\A w \in Workers : Starts(w) =>
        \A c \in cand[w] : (c.task = job'[w].task /\ c.life = job'[w].life)
          => row[c.task].wait = 0]_vars

(* A worker about to sleep, or asleep, on a channel nobody closed. *)
Dozes(w) == pc[w] \in {"reap", "wait"} /\ ~ woken[w]

(* A worker that sleeps, or is about to, on a channel nobody closed wakes  *)
(* when a row its own process scheduled is due, and later only by what the *)
(* reap took, which comes between the wait that claim computed and the     *)
(* timer.  The channel is captured before the queries, and a row may be    *)
(* scheduled at any moment between them and the sleep.  Config: "Local     *)
(* enqueues wake workers immediately and idle workers sleep exactly until  *)
(* the next scheduled task comes due".                                     *)
LocalWake ==
    \A w \in Workers : \A t \in Tasks :
        (Dozes(w) /\ row[t].status = "pending" /\ row[t].by = ProcOf[w])
          => sleep[w] <= Larger(row[t].wait, 1) + late[w]

(* While a process consumes, each task is acknowledged or dead-lettered in *)
(* the end, the ones a crashed process left running included.              *)
TasksSettle ==
    \A t \in Tasks : \A p \in Procs :
        (row[t].status \in {"pending", "running"} /\ sub[p] = "running" /\ ~ stopCh[p])
          ~> (row[t].status \in {"dead", "deleted"} \/ stopCh[p] \/ sub[p] # "running")

Contract == INSTANCE WorkQueue WITH
    Budgets    <- {NewEnqueueOptions(o).maxRetries : o \in EnqueueInputs},
    Leased     <- ~ Prompt \/ MaxCrashes + MaxFaults > 0,
    status     <- [t \in Tasks |-> CASE row[t].status = "absent"  -> "none"
                                     [] row[t].status = "deleted" -> "gone"
                                     [] OTHER                     -> row[t].status],
    attempts   <- [t \in Tasks |-> row[t].attempts],
    maxRetries <- [t \in Tasks |-> row[t].maxRetries]

(* The table implements the contract of workqueue.go: the strict one while *)
(* no lease lapses (prompt workers, no crash, no lost answer), the one     *)
(* with leases otherwise.  A task that is gone stays gone, dies only of a  *)
(* failure that exhausts its budget, and is delivered only while pending,  *)
(* whatever late answers arrive.                                           *)
ImplementsContract == Contract!Spec

(* Stop drains the workers of the process unless it crashes first.         *)
StopDrains == \A p \in Procs : stopCh[p] ~> (sub[p] = "done" \/ ~ stopCh[p])

-----------------------------------------------------------------------------
(* What the repository says and the code does not keep: TLC refutes each   *)
(* of these in a small instance.                                           *)

(* Every completion by a worker that does not own the row's claim leaves a *)
(* newer claim alone: complete's comment, "a worker whose lease expired    *)
(* mid-flight cannot clobber a newer claim".                               *)
NewerClaimIsSafe ==
    [][\A w \in Workers :
        LET t == job[w].task IN
        (Finishes(w) /\ ~ Owns(w) /\ row[t].status = "running") => row'[t] = row[t]]_vars

(* The same of failed handlers only, whose statements carry the guard.     *)
NewerClaimIsSafeFromFailure ==
    [][\A w \in Workers :
        LET t == job[w].task IN
        (Finishes(w) /\ ~ Owns(w) /\ row[t].status = "running")
          => row'[t] = row[t] \/ row'[t].status = "deleted"]_vars

(* No task is delivered before its run_at: Task.RunAt, "the earliest time  *)
(* the task may be delivered to a handler".                                *)
NotEarly ==
    [][\A w \in Workers : Starts(w) => row[job'[w].task].wait = 0]_vars

(* Task.MaxRetries: "it is invoked at most MaxRetries+1 times".            *)
BudgetKept ==
    \A w \in Workers : job[w] # NoJob => job[w].attempts <= row[job[w].task].maxRetries + 1

(* "idle workers sleep exactly until the next scheduled task comes due"    *)
(* (Config), also when the reap before the sleep takes time.               *)
SleepsExactly ==
    \A w \in Workers : \A t \in Tasks :
        (Dozes(w) /\ row[t].status = "pending" /\ row[t].by = ProcOf[w])
          => sleep[w] <= Larger(row[t].wait, 1)

(* README: "tasks abandoned by a crashed worker return to the pending      *)
(* state once their lease expires", while some process consumes.           *)
AbandonedReturn ==
    \A t \in Tasks : \A p \in Procs :
        (Expired(t) /\ sub[p] = "running" /\ ~ stopCh[p])
          ~> (~ Expired(t) \/ stopCh[p] \/ sub[p] # "running")
=============================================================================
