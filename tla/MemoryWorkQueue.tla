--------------------------- MODULE MemoryWorkQueue ---------------------------
(***************************************************************************)
(* memory_workqueue/workqueue.go: the in-process back end.  One mutex      *)
(* guards the queues, so each critical section is one step; between        *)
(* critical sections the workers of the subscriptions, the callers of the  *)
(* interface and the clock interleave.  Task identifiers are the elements  *)
(* of Tasks, each used by one Enqueue; payloads, metadata and error texts  *)
(* are left out (no branch reads them).                                    *)
(***************************************************************************)
EXTENDS Options, Sequences, SequencesExt

CONSTANTS Queues, Tasks, Subs, Workers,
          NoQueue, NoTask,
          SubOf,           \* the subscription each worker goroutine belongs to
          QueueOf,         \* the queue each subscription consumes
          BackoffOf,       \* its resolved backoff settings [base, max]
          EnqueueInputs,   \* the settings callers give to Enqueue
          IdleWait,        \* the wait on an empty queue
          ClockLag,        \* how old Enqueue's clock reading may be at the lock
          MaxTime,         \* bound: the clock stops here unless a task is scheduled
          MaxRequeues      \* bound: calls of RequeueDeadTask that succeed

ASSUME DeploymentAssumption ==
    /\ NoQueue \notin Queues /\ NoTask \notin Tasks
    /\ SubOf \in [Workers -> Subs]
    /\ QueueOf \in [Subs -> Queues]
    /\ BackoffOf \in [Subs -> [base : Int, max : Int]]
ASSUME InputAssumption ==
    EnqueueInputs \subseteq [runAt : Nat, delay : Int, maxRetries : Int]
ASSUME BoundAssumption ==
    IdleWait \in Nat /\ ClockLag \in Nat /\ MaxTime \in Nat /\ MaxRequeues \in Nat

VARIABLES
    now,        \* time.Now()
    task,       \* the stored Task of each identifier
    pending,    \* queueState.pending: the heap's items of each queue
    seq,        \* queueState.seq
    dead,       \* queueState.dead, oldest first
    pc,         \* where each worker goroutine is
    held,       \* the task the worker has claimed
    timer,      \* the wait returned by claim, then the instant its timer fires
    woken,      \* the notify channel the worker captured has been closed
    sub,        \* each subscription: not started, running, done closed
    stopCh,     \* stopCh has been closed
    caller,     \* of Stop: none (or its context expired), waiting, returned nil
    requeues    \* successful requeues so far (only for the bound)

queueVars  == <<task, pending, seq, dead>>
workerVars == <<pc, held, timer, woken>>
subVars    == <<sub, stopCh, caller>>
vars == <<now, queueVars, workerVars, subVars, requeues>>

WorkerQueue(w) == QueueOf[SubOf[w]]
WorkersOf(s) == {w \in Workers : SubOf[w] = s}

Items == [task : Tasks, seq : Nat]

TaskRecords == [queue : Queues \cup {NoQueue}, attempts : Nat, maxRetries : Nat,
                runAt : Nat, diedAt : Nat]

PCs == {"off", "top", "claim", "arm", "wait", "handle", "exited"}

TypeOK == /\ now \in Nat /\ requeues \in Nat
          /\ task \in [Tasks -> TaskRecords]
          /\ pending \in [Queues -> SUBSET Items]
          /\ seq \in [Queues -> Nat]
          /\ dead \in [Queues -> Seq(Tasks)]
          /\ pc \in [Workers -> PCs]
          /\ held \in [Workers -> Tasks \cup {NoTask}]
          /\ timer \in [Workers -> Nat]
          /\ woken \in [Workers -> BOOLEAN]
          /\ sub \in [Subs -> {"idle", "running", "done"}]
          /\ stopCh \in [Subs -> BOOLEAN]
          /\ caller \in [Subs -> {"none", "waiting", "nil"}]

Init == /\ now = 1 /\ requeues = 0
        /\ task = [t \in Tasks |-> [queue |-> NoQueue, attempts |-> 0, maxRetries |-> 0,
                                    runAt |-> ZeroTime, diedAt |-> ZeroTime]]
        /\ pending = [q \in Queues |-> {}]
        /\ seq = [q \in Queues |-> 0]
        /\ dead = [q \in Queues |-> <<>>]
        /\ pc = [w \in Workers |-> "off"]
        /\ held = [w \in Workers |-> NoTask]
        /\ timer = [w \in Workers |-> 0]
        /\ woken = [w \in Workers |-> FALSE]
        /\ sub = [s \in Subs |-> "idle"]
        /\ stopCh = [s \in Subs |-> FALSE]
        /\ caller = [s \in Subs |-> "none"]

-----------------------------------------------------------------------------
(* The pending heap and the broadcast. *)

(* pendingHeap.Less: by run time, then by insertion. *)
Less(i, j) ==
    \/ task[i.task].runAt < task[j.task].runAt
    \/ task[i.task].runAt = task[j.task].runAt /\ i.seq < j.seq

(* i is what heap.Pop of q returns. *)
IsFirst(q, i) == i \in pending[q] /\ \A j \in pending[q] : ~ Less(j, i)

(* q.seq++ and heap.Push of the task. *)
Push(q, t) == /\ seq' = [seq EXCEPT ![q] = @ + 1]
              /\ pending' = [pending EXCEPT ![q] = @ \cup {[task |-> t, seq |-> seq[q] + 1]}]

(* Mutant: only workers already in the select are woken. *)
BroadcastToSleepers(q) ==
    woken' = [w \in Workers |-> woken[w] \/ (WorkerQueue(w) = q /\ pc[w] = "wait")]

(* Closing notify wakes every worker that has captured it. *)
Broadcast(q) ==
    woken' = [w \in Workers |->
                woken[w] \/ (WorkerQueue(w) = q /\ pc[w] \in {"arm", "wait"})]

-----------------------------------------------------------------------------
(* The dead-letter list. *)

(* complete: a further failure moves the task to the dead-letter list. *)
Exhausted(t) == task[t].attempts > task[t].maxRetries

(* Mutant: the newest dead task goes first. *)
AddDeadFirst(q, t) == dead' = [dead EXCEPT ![q] = <<t>> \o @]

AddDead(q, t) == dead' = [dead EXCEPT ![q] = Append(@, t)]

(* Mutant: the oldest entry is dropped instead of the i-th. *)
TakeOldest(q, i) == dead' = [dead EXCEPT ![q] = Tail(@)]

TakeDead(q, i) == dead' = [dead EXCEPT ![q] = RemoveAt(@, i)]

(* Mutant: a requeued task keeps its attempts. *)
RevivedAsIs(t) == [task[t] EXCEPT !.diedAt = ZeroTime, !.runAt = now]

Revived(t) == [task[t] EXCEPT !.attempts = 0, !.diedAt = ZeroTime, !.runAt = now]

-----------------------------------------------------------------------------
(* The interface. *)

(* Enqueue reads the clock before it takes the lock. *)
Enqueue(q, t, input, at) ==
    LET o == NewEnqueueOptions(input) IN
    /\ task[t].queue = NoQueue
    /\ at <= now /\ now <= at + ClockLag
    /\ task' = [task EXCEPT ![t] = [queue |-> q, attempts |-> 0,
                                    maxRetries |-> o.maxRetries,
                                    runAt |-> ResolveRunAt(o, at),
                                    diedAt |-> ZeroTime]]
    /\ Push(q, t)
    /\ Broadcast(q)
    /\ UNCHANGED <<now, dead, pc, held, timer, subVars, requeues>>

Consume(s) ==
    /\ sub[s] = "idle"
    /\ sub' = [sub EXCEPT ![s] = "running"]
    /\ pc' = [w \in Workers |-> IF w \in WorkersOf(s) THEN "top" ELSE pc[w]]
    /\ UNCHANGED <<now, queueVars, held, timer, woken, stopCh, caller, requeues>>

(* A task that is not in the list gives ErrTaskNotFound and changes nothing. *)
RequeueDeadTask(q, i) ==
    LET t == dead[q][i] IN
    /\ requeues < MaxRequeues
    /\ TakeDead(q, i)
    /\ task' = [task EXCEPT ![t] = Revived(t)]
    /\ Push(q, t)
    /\ Broadcast(q)
    /\ requeues' = requeues + 1
    /\ UNCHANGED <<now, pc, held, timer, subVars>>

DeleteDeadTask(q, i) ==
    /\ TakeDead(q, i)
    /\ UNCHANGED <<now, task, pending, seq, workerVars, subVars, requeues>>

(* Stop closes stopCh once and waits for done or for its context. *)
Stop(s) ==
    /\ sub[s] # "idle" /\ caller[s] # "waiting"
    /\ stopCh' = [stopCh EXCEPT ![s] = TRUE]
    /\ caller' = [caller EXCEPT ![s] = "waiting"]
    /\ UNCHANGED <<now, queueVars, workerVars, sub, requeues>>

StopReturns(s) ==
    /\ caller[s] = "waiting"
    /\ \/ sub[s] = "done" /\ caller' = [caller EXCEPT ![s] = "nil"]
       \/ caller' = [caller EXCEPT ![s] = "none"]
    /\ UNCHANGED <<now, queueVars, workerVars, sub, stopCh, requeues>>

(* Mutants: done is closed by the first worker to leave; or waits for one  *)
(* worker more than there are.                                             *)
CloseDoneEarly(s) ==
    /\ sub[s] = "running"
    /\ \E w \in WorkersOf(s) : pc[w] = "exited"
    /\ sub' = [sub EXCEPT ![s] = "done"]
    /\ UNCHANGED <<now, queueVars, workerVars, stopCh, caller, requeues>>

CloseDoneMiscounted(s) ==
    /\ Cardinality({w \in WorkersOf(s) : pc[w] = "exited"}) > Cardinality(WorkersOf(s))
    /\ CloseDoneEarly(s)

(* The goroutine Consume leaves behind: wg.Wait, then close(done). *)
CloseDone(s) ==
    /\ sub[s] = "running"
    /\ \A w \in WorkersOf(s) : pc[w] = "exited"
    /\ sub' = [sub EXCEPT ![s] = "done"]
    /\ UNCHANGED <<now, queueVars, workerVars, stopCh, caller, requeues>>

-----------------------------------------------------------------------------
(* A worker goroutine. *)

CheckStop(w) ==
    /\ pc[w] = "top"
    /\ pc' = [pc EXCEPT ![w] = IF stopCh[SubOf[w]] THEN "exited" ELSE "claim"]
    /\ UNCHANGED <<now, queueVars, held, timer, woken, subVars, requeues>>

(* claim pops a task that is due. *)
ClaimTask(w, i) ==
    LET q == WorkerQueue(w) IN
    /\ pc[w] = "claim"
    /\ IsFirst(q, i) /\ task[i.task].runAt <= now
    /\ pending' = [pending EXCEPT ![q] = @ \ {i}]
    /\ task' = [task EXCEPT ![i.task].attempts = @ + 1]
    /\ held' = [held EXCEPT ![w] = i.task]
    /\ pc' = [pc EXCEPT ![w] = "handle"]
    /\ UNCHANGED <<now, seq, dead, timer, woken, subVars, requeues>>

(* claim finds nothing due: a wait, and the notify channel of this moment. *)
ClaimWait(w, wait) ==
    LET q == WorkerQueue(w) IN
    /\ pc[w] = "claim"
    /\ \/ pending[q] = {} /\ wait = IdleWait
       \/ \E i \in pending[q] : /\ IsFirst(q, i) /\ task[i.task].runAt > now
                                /\ wait = task[i.task].runAt - now
    /\ timer' = [timer EXCEPT ![w] = wait]
    /\ woken' = [woken EXCEPT ![w] = FALSE]
    /\ pc' = [pc EXCEPT ![w] = "arm"]
    /\ UNCHANGED <<now, queueVars, held, subVars, requeues>>

(* time.NewTimer(wait), outside the lock. *)
StartTimer(w) ==
    /\ pc[w] = "arm"
    /\ timer' = [timer EXCEPT ![w] = now + @]
    /\ pc' = [pc EXCEPT ![w] = "wait"]
    /\ UNCHANGED <<now, queueVars, held, woken, subVars, requeues>>

(* The select: any ready case may be taken. *)
Wake(w) ==
    /\ pc[w] = "wait"
    /\ \/ stopCh[SubOf[w]] /\ pc' = [pc EXCEPT ![w] = "exited"]
       \/ (woken[w] \/ timer[w] <= now) /\ pc' = [pc EXCEPT ![w] = "top"]
    /\ timer' = [timer EXCEPT ![w] = 0]
    /\ woken' = [woken EXCEPT ![w] = FALSE]
    /\ UNCHANGED <<now, queueVars, held, subVars, requeues>>

(* Mutant: the worker returns instead of going round its loop. *)
ReleaseAndReturn(w) ==
    /\ pc[w] = "handle"
    /\ pc' = [pc EXCEPT ![w] = "exited"]
    /\ held' = [held EXCEPT ![w] = NoTask]
    /\ UNCHANGED <<now, timer, subVars, requeues>>

(* The worker lets go of its task and goes round its loop. *)
Release(w) == /\ pc[w] = "handle"
              /\ pc' = [pc EXCEPT ![w] = "top"]
              /\ held' = [held EXCEPT ![w] = NoTask]
              /\ UNCHANGED <<now, timer, subVars, requeues>>

(* The handler returns nil: complete does nothing more with the task. *)
HandlerSucceeds(w) ==
    /\ Release(w)
    /\ UNCHANGED <<queueVars, woken>>

(* The handler returns an error or panics and complete reschedules. *)
Reschedule(w) ==
    LET t == held[w]
        b == BackoffOf[SubOf[w]]
    IN  /\ Release(w)
        /\ ~ Exhausted(t)
        /\ task' = [task EXCEPT ![t].runAt =
                                  now + RetryBackoff(b.base, b.max, task[t].attempts)]
        /\ Push(WorkerQueue(w), t)
        /\ Broadcast(WorkerQueue(w))
        /\ UNCHANGED dead

(* The handler fails and complete moves the task to the dead-letter list. *)
Bury(w) ==
    LET t == held[w] IN
    /\ Release(w)
    /\ Exhausted(t)
    /\ task' = [task EXCEPT ![t].diedAt = now]
    /\ AddDead(WorkerQueue(w), t)
    /\ UNCHANGED <<pending, seq, woken>>

-----------------------------------------------------------------------------
(* Time passes, except between claim's reading of the clock and the start  *)
(* of the timer: that moment is shorter than a tick.                       *)
Tick ==
    /\ \/ now < MaxTime
       \/ \E q \in Queues : \E i \in pending[q] : task[i.task].runAt > now
    /\ \A w \in Workers : pc[w] # "arm"
    /\ now' = now + 1
    /\ UNCHANGED <<queueVars, workerVars, subVars, requeues>>

WorkerStep(w) ==
    \/ CheckStop(w)
    \/ \E i \in pending[WorkerQueue(w)] : ClaimTask(w, i)
    \/ \E wait \in {IdleWait} \cup {task[t].runAt - now : t \in Tasks} : ClaimWait(w, wait)
    \/ StartTimer(w)
    \/ Wake(w)

HandlerReturns(w) == HandlerSucceeds(w) \/ Reschedule(w) \/ Bury(w)

CallerStep ==
    \/ \E q \in Queues, t \in Tasks, o \in EnqueueInputs, at \in 1 .. now : Enqueue(q, t, o, at)
    \/ \E q \in Queues : \E i \in DOMAIN dead[q] : RequeueDeadTask(q, i) \/ DeleteDeadTask(q, i)

Next ==
    \/ CallerStep
    \/ \E s \in Subs : Consume(s) \/ Stop(s) \/ StopReturns(s) \/ CloseDone(s)
    \/ \E w \in Workers : WorkerStep(w) \/ HandlerReturns(w)
    \/ Tick

Spec == Init /\ [][Next]_vars

(* Goroutines are scheduled, timers fire and time passes; handlers return. *)
Fairness == /\ \A w \in Workers : WF_vars(WorkerStep(w)) /\ WF_vars(HandlerReturns(w))
            /\ \A s \in Subs : WF_vars(CloseDone(s))
            /\ WF_vars(Tick)

FairSpec == Spec /\ Fairness

-----------------------------------------------------------------------------
(* Correctness. *)

IsPending(t) == \E q \in Queues : \E i \in pending[q] : i.task = t
IsHeld(t)    == \E w \in Workers : held[w] = t
IsDead(t)    == \E q \in Queues : \E k \in DOMAIN dead[q] : dead[q][k] = t

(* A worker holds a task exactly while its handler runs, is off until its  *)
(* subscription starts and gone once it is done; Stop returns nil only     *)
(* then.                                                                   *)
Lifecycle ==
    /\ \A w \in Workers : /\ held[w] # NoTask <=> pc[w] = "handle"
                          /\ sub[SubOf[w]] = "idle" => pc[w] = "off"
                          /\ sub[SubOf[w]] = "done" => pc[w] = "exited"
    /\ \A s \in Subs : caller[s] = "nil" => sub[s] = "done"

(* No task has two heap items, two dead-letter entries or two workers, nor *)
(* one of a queue it does not belong to.                                   *)
PendingOnce ==
    \A q \in Queues : \A i, j \in pending[q] :
        task[i.task].queue = q /\ (i.task = j.task => i = j)
DeadOnce ==
    \A q \in Queues : \A k, l \in DOMAIN dead[q] :
        task[dead[q][k]].queue = q /\ (dead[q][k] = dead[q][l] => k = l)
HeldOnce ==
    \A v, w \in Workers : held[w] # NoTask =>
        task[held[w]].queue = WorkerQueue(w) /\ (held[v] = held[w] => v = w)
Apart ==
    \A t \in Tasks : /\ ~ (IsPending(t) /\ IsHeld(t))
                     /\ ~ (IsPending(t) /\ IsDead(t))
                     /\ ~ (IsHeld(t) /\ IsDead(t))

(* A stored task is in one place at a time: one heap item, or one worker's *)
(* hands, or one dead-letter entry, always of the queue it was enqueued    *)
(* on.  The interface promises delivery to one consumer at a time; a task  *)
(* in two places takes a pop, a complete and a requeue that disagree.      *)
OnePlace == PendingOnce /\ DeadOnce /\ HeldOnce /\ Apart

(* No wakeup is lost: a worker that sleeps, or is about to, on a notify    *)
(* channel nobody has closed has a timer that fires no later than the run  *)
(* time of every task on its queue.  The channel is captured under the     *)
(* lock and waited on after it, so a task pushed in between must have      *)
(* closed that very channel.                                               *)
NoLostWakeup ==
    \A w \in Workers : \A i \in pending[WorkerQueue(w)] :
        ~ woken[w] =>
            /\ pc[w] = "wait" => timer[w] <= task[i.task].runAt
            /\ pc[w] = "arm"  => now + timer[w] <= task[i.task].runAt

(* ListDeadTasks returns the tasks "ordered by the time they died (oldest  *)
(* first)" (workqueue.go): the list is never sorted, so the order of the   *)
(* appends, through requeues and deletions in the middle and tasks that    *)
(* die twice, has to be the order of DiedAt.                               *)
DeadOldestFirst ==
    \A q \in Queues : \A k, l \in DOMAIN dead[q] :
        k < l => task[dead[q][k]].diedAt <= task[dead[q][l]].diedAt

(* When Stop has returned nil, or Done is closed, no handler of the        *)
(* subscription is running and none will start: its workers are gone and   *)
(* hold no task.                                                           *)
StoppedIsQuiet ==
    \A s \in Subs : sub[s] = "done" \/ caller[s] = "nil" =>
        \A w \in WorkersOf(s) : pc[w] = "exited" /\ held[w] = NoTask

(* Mutant: the limit is taken for the end. *)
PageEndIsLimit(q, limit, offset) ==
    IF limit > 0 /\ limit < Len(dead[q]) THEN limit ELSE Len(dead[q])

(* ListDeadTasks: the end of the window it slices, offset + limit in the   *)
(* machine's integers.  Slicing panics unless offset <= end <= len.        *)
PageEnd(q, limit, offset) ==
    LET end == Wrap(offset + limit) IN
    IF limit > 0 /\ end < Len(dead[q]) THEN end ELSE Len(dead[q])

ListDeadTasks(q, limit, offset) ==
    LET from == Larger(0, offset) IN
    IF from >= Len(dead[q]) THEN <<>>
    ELSE SubSeq(dead[q], from + 1, PageEnd(q, limit, from))

(* Reading the list page by page, offset advancing by the page size, gives *)
(* every dead task once and in order, for every page size and at every     *)
(* moment; a limit of zero or less gives the rest of the list.             *)
PagesTileTheList ==
    \A q \in Queues :
        /\ \A size \in 1 .. Len(dead[q]) + 1 :
             LET pages == [p \in 1 .. Len(dead[q]) |->
                             ListDeadTasks(q, size, (p - 1) * size)]
             IN  FlattenSeq(pages) = dead[q]
        /\ \A limit \in {-1, 0}, offset \in -1 .. Len(dead[q]) :
             ListDeadTasks(q, limit, offset)
               = SubSeq(dead[q], Larger(0, offset) + 1, Len(dead[q]))

(* No limit and offset a caller can pass make ListDeadTasks slice outside  *)
(* the list: the interface gives paging parameters of type int and no      *)
(* error for large ones.  (The code does not keep this: for limits near    *)
(* the largest int the sum wraps, and TLC refutes it.)                     *)
PagesInRange ==
    \A q \in Queues : \A limit \in 1 .. MaxDuration, offset \in 0 .. Len(dead[q]) - 1 :
        PageEnd(q, limit, offset) \in offset .. Len(dead[q])

(* The back end implements the contract of workqueue.go.                   *)
StatusOf(t) == CASE task[t].queue = NoQueue -> "none"
                 [] IsPending(t)            -> "pending"
                 [] IsHeld(t)               -> "running"
                 [] IsDead(t)               -> "dead"
                 [] OTHER                   -> "gone"

Contract == INSTANCE WorkQueue WITH
    Budgets    <- {NewEnqueueOptions(o).maxRetries : o \in EnqueueInputs},
    Leased     <- FALSE,
    status     <- [t \in Tasks |-> StatusOf(t)],
    attempts   <- [t \in Tasks |-> task[t].attempts],
    maxRetries <- [t \in Tasks |-> task[t].maxRetries]

(* Every step of the in-memory back end is a step of the contract, or      *)
(* changes nothing the contract speaks of.                                 *)
ImplementsContract == Contract!Spec

(* While some subscription consumes a queue, each of its tasks is settled: *)
(* acknowledged or moved to the dead-letter list, delays, retries and      *)
(* sleeping workers notwithstanding.                                       *)
TasksSettle ==
    \A t \in Tasks : \A s \in Subs :
        (task[t].queue = QueueOf[s] /\ sub[s] = "running" /\ ~ stopCh[s])
          ~> (StatusOf(t) \in {"dead", "gone"} \/ stopCh[s])

(* After Stop every worker drains and Done is closed, provided handlers    *)
(* return: no worker sleeps through the close of stopCh.                   *)
StopDrains == \A s \in Subs : stopCh[s] ~> sub[s] = "done"
=============================================================================
