---------------------------- MODULE NatsWorkQueue ----------------------------
(***************************************************************************)
(* nats_workqueue/workqueue.go: the back end on NATS JetStream, for one    *)
(* queue.  Deliveries wait in a process's inbox for the dispatch callback, *)
(* which gives each one a slot of the semaphore (a worker here) and a      *)
(* goroutine of its own.  A failed attempt is handed on by publishing the  *)
(* task again, or to the dead-letter stream, and then acknowledging the    *)
(* delivery; the operations on dead tasks scan, publish and delete.        *)
(* Between any two of these steps deliveries are made again, processes and *)
(* callers die, and publishes and acknowledgements get lost.               *)
(*                                                                         *)
(* Times are relative: what is left until RunAt, the next redelivery, the  *)
(* next heartbeat.  fate and tried are not state of the code: what became  *)
(* of a task, and the attempts of its last delivery.                       *)
(***************************************************************************)
EXTENDS Options, JetStream

CONSTANTS Procs, Workers, Callers,
          NoTask,
          ProcOf,           \* the process each slot of a semaphore belongs to
          Concurrency,      \* of every subscription
          BackoffBase, BackoffMax,
          EnqueueInputs,
          HeartbeatFloor,   \* time.Second
          Prompt,           \* every step but a handler takes less than a tick
          Patient,          \* tasks are requeued after the duplicate window
          MaxRequeues, MaxCrashes, MaxFaults,
          MaxLapses,        \* bound: redeliveries of what a live process holds
          MaxForgets        \* bound: duplicate windows that pass

ASSUME DeploymentAssumption ==
    /\ NoTask \notin Tasks
    /\ ProcOf \in [Workers -> Procs] /\ IsFiniteSet(Workers)
    /\ Concurrency \in Nat \ {0}
    /\ \A p \in Procs : LET n == Cardinality({w \in Workers : ProcOf[w] = p}) IN n \in {0, Concurrency}
    /\ BackoffBase \in Int /\ BackoffMax \in Int /\ HeartbeatFloor \in Nat \ {0}
    /\ Prompt \in BOOLEAN /\ Patient \in BOOLEAN
ASSUME InputAssumption ==
    EnqueueInputs \subseteq [runAt : {ZeroTime}, delay : Int, maxRetries : Int]
ASSUME BoundAssumption ==
    /\ MaxRequeues \in Nat /\ MaxCrashes \in Nat /\ MaxFaults \in Nat
    /\ MaxLapses \in Nat /\ MaxForgets \in Nat

VARIABLES
    inbox,      \* deliveries the dispatch callback has not seen yet
    pc,         \* where the goroutine of each slot is
    job,        \* its delivery, with the attempts it counts
    beat,       \* what is left until its next heartbeat
    sub,        \* the process's subscription
    stopCh,     \* its stopCh has been closed
    op,         \* what each caller of the dead-letter operations is doing
    maxRetries, \* the budget each task carries
    fate, tried,
    requeues, crashes, faults, lapses, forgets      \* counted for the bounds

slotVars == <<pc, job, beat>>
subVars  == <<inbox, sub, stopCh>>
taskVars == <<maxRetries, fate, tried>>
counters == <<requeues, crashes, faults, lapses, forgets>>
vars == <<serverVars, slotVars, subVars, op, taskVars, counters>>

WorkersOf(p) == {w \in Workers : ProcOf[w] = p}

Deliveries == [seq : Nat, task : Tasks, attempts : Nat, wait : Nat]
NoJob == [seq |-> 0, task |-> NoTask, attempts |-> 0, wait |-> 0]

Ops == [step : {"none", "publish", "finish", "delete"}, seq : Nat, task : Tasks \cup {NoTask}]
NoOp == [step |-> "none", seq |-> 0, task |-> NoTask]

TypeOK == /\ ServerTypeOK
          /\ inbox \in [Procs -> SUBSET Deliveries]
          /\ pc \in [Workers -> {"idle", "start", "handle", "ack"}]
          /\ job \in [Workers -> Deliveries \cup {NoJob}]
          /\ beat \in [Workers -> Nat]
          /\ sub \in [Procs -> {"idle", "running", "unsubscribed", "done"}]
          /\ stopCh \in [Procs -> BOOLEAN]
          /\ op \in [Callers -> Ops]
          /\ maxRetries \in [Tasks -> Nat] /\ tried \in [Tasks -> Nat]
          /\ fate \in [Tasks -> {"none", "open", "handled", "deleted"}]
          /\ requeues \in Nat /\ crashes \in Nat /\ faults \in Nat
          /\ lapses \in Nat /\ forgets \in Nat

Init == /\ ServerInit
        /\ inbox = [p \in Procs |-> {}]
        /\ pc = [w \in Workers |-> "idle"]
        /\ job = [w \in Workers |-> NoJob]
        /\ beat = [w \in Workers |-> 0]
        /\ sub = [p \in Procs |-> "idle"]
        /\ stopCh = [p \in Procs |-> FALSE]
        /\ op = [c \in Callers |-> NoOp]
        /\ maxRetries = [t \in Tasks |-> 0]
        /\ fate = [t \in Tasks |-> "none"]
        /\ tried = [t \in Tasks |-> 0]
        /\ requeues = 0 /\ crashes = 0 /\ faults = 0 /\ lapses = 0 /\ forgets = 0

-----------------------------------------------------------------------------
(* A publish, a heartbeat or an acknowledgement gets lost, or its          *)
(* confirmation does.                                                      *)
Fault == faults < MaxFaults /\ faults' = faults + 1

(* The deliveries a process or one of its goroutines holds. *)
Held(seq) == \/ \E p \in Procs : \E d \in inbox[p] : d.seq = seq
             \/ \E w \in Workers : pc[w] # "idle" /\ job[w].seq = seq

-----------------------------------------------------------------------------
(* Enqueue and Consume. *)

(* ensureQueue and publishTask.  A publish that fails without an effect    *)
(* changes nothing; one that fails after the message was stored differs    *)
(* only in what the caller is told.                                        *)
Enqueue(t, input) ==
    LET o == NewEnqueueOptions(input) IN
    /\ fate[t] = "none"
    /\ fate' = [fate EXCEPT ![t] = "open"]
    /\ maxRetries' = [maxRetries EXCEPT ![t] = o.maxRetries]
    /\ PublishOnce(t, 0, ResolveRunAt(o, 0), <<t, 0>>)
    /\ UNCHANGED <<slotVars, subVars, op, tried, counters>>

Consume(p) ==
    /\ sub[p] = "idle" /\ WorkersOf(p) # {}
    /\ sub' = [sub EXCEPT ![p] = "running"]
    /\ UNCHANGED <<serverVars, slotVars, inbox, stopCh, op, taskVars, counters>>

(* Mutant: the consumer's default, far above the size of any pool. *)
ManyAckPending == Concurrency + 1

(* ConsumerConfig.MaxAckPending. *)
MaxAckPending == Concurrency

(* The server sends a message to a process that subscribes. *)
Deliver(p, m) ==
    /\ sub[p] = "running"
    /\ Deliverable(m, MaxAckPending)
    /\ Redeliver(m.seq, AckWait)
    /\ lapses' = IF Held(m.seq) THEN lapses + 1 ELSE lapses
    /\ lapses' <= MaxLapses
    /\ inbox' = [inbox EXCEPT ![p] =
                    @ \cup {[seq |-> m.seq, task |-> m.task, attempts |-> m.attempts, wait |-> m.wait]}]
    /\ UNCHANGED <<slotVars, sub, stopCh, op, taskVars, requeues, crashes, faults, forgets>>

Take(p, d) == d \in inbox[p] /\ inbox' = [inbox EXCEPT ![p] = @ \ {d}]

(* The dispatch callback gets a slot ... *)
Dispatch(w, d) ==
    /\ pc[w] = "idle"
    /\ Take(ProcOf[w], d)
    /\ pc' = [pc EXCEPT ![w] = "start"]
    /\ job' = [job EXCEPT ![w] = d]
    /\ UNCHANGED <<serverVars, beat, sub, stopCh, op, taskVars, counters>>

(* ... or finds stopCh closed and hands the message back.  With a slot     *)
(* free, select may do either.                                             *)
HandBack(p, d) ==
    /\ stopCh[p]
    /\ Take(p, d)
    /\ \/ Redeliver(d.seq, 0) /\ UNCHANGED faults
       \/ Fault /\ UNCHANGED serverVars
    /\ UNCHANGED <<slotVars, sub, stopCh, op, taskVars, requeues, crashes, lapses, forgets>>

-----------------------------------------------------------------------------
(* handleMsg. *)

Finish(w) == /\ pc' = [pc EXCEPT ![w] = "idle"]
             /\ job' = [job EXCEPT ![w] = NoJob]
             /\ beat' = [beat EXCEPT ![w] = 0]

(* Mutant: this return releases neither the slot nor the wait group. *)
DelayKeepsSlot(w) ==
    /\ pc[w] = "start" /\ job[w].wait > 0
    /\ Redeliver(job[w].seq, job[w].wait)
    /\ pc' = [pc EXCEPT ![w] = "returned"]
    /\ UNCHANGED <<job, beat, subVars, op, taskVars, counters>>

(* Not due yet: NakWithDelay until RunAt. *)
Delay(w) ==
    /\ pc[w] = "start" /\ job[w].wait > 0
    /\ \/ Redeliver(job[w].seq, job[w].wait) /\ UNCHANGED faults
       \/ Fault /\ UNCHANGED serverVars
    /\ Finish(w)
    /\ UNCHANGED <<subVars, op, taskVars, requeues, crashes, lapses, forgets>>

(* interval in invokeWithHeartbeat. *)
Interval == Larger(AckWait \div 3, HeartbeatFloor)

(* Attempts is counted in the delivery; the heartbeat and the handler run. *)
Start(w) ==
    /\ pc[w] = "start" /\ job[w].wait = 0
    /\ pc' = [pc EXCEPT ![w] = "handle"]
    /\ job' = [job EXCEPT ![w].attempts = @ + 1]
    /\ beat' = [beat EXCEPT ![w] = Interval]
    /\ tried' = [tried EXCEPT ![job[w].task] = job[w].attempts + 1]
    /\ UNCHANGED <<serverVars, subVars, op, maxRetries, fate, counters>>

(* The ticker fires: InProgress, which may fail; the next one comes an     *)
(* interval later in any case.                                             *)
Heartbeat(w) ==
    /\ pc[w] = "handle" /\ beat[w] = 0
    /\ beat' = [beat EXCEPT ![w] = Interval]
    /\ \/ Redeliver(job[w].seq, AckWait) /\ UNCHANGED faults
       \/ Fault /\ UNCHANGED serverVars
    /\ UNCHANGED <<pc, job, subVars, op, taskVars, requeues, crashes, lapses, forgets>>

(* The handler is done with the delivery, which remains to be acknowledged. *)
ThenAck(w) == /\ pc' = [pc EXCEPT ![w] = "ack"]
              /\ beat' = [beat EXCEPT ![w] = 0]
              /\ UNCHANGED <<job, subVars, op, requeues, crashes, lapses, forgets>>

(* The handler returns nil. *)
HandlerSucceeds(w) ==
    LET t == job[w].task IN
    /\ pc[w] = "handle"
    /\ fate' = [fate EXCEPT ![t] = IF @ = "deleted" THEN @ ELSE "handled"]
    /\ ThenAck(w)
    /\ UNCHANGED <<serverVars, maxRetries, tried, faults>>

(* Mutant: one retry too many. *)
ExhaustedLate(j) == j.attempts > maxRetries[j.task] + 1

Exhausted(j) == j.attempts > maxRetries[j.task]

(* Mutant: the retry is published without a message ID. *)
HandOnAlways(j) ==
    \/ Exhausted(j) /\ PublishDead(j.task, j.attempts)
    \/ ~ Exhausted(j) /\ Publish(j.task, j.attempts, RetryBackoff(BackoffBase, BackoffMax, j.attempts))

(* A failed attempt goes to the dead-letter stream, or back to the queue   *)
(* under the ID attemptMsgID makes of task and attempts.                   *)
HandOn(j) ==
    \/ Exhausted(j) /\ PublishDead(j.task, j.attempts)
    \/ ~ Exhausted(j) /\ PublishOnce(j.task, j.attempts,
                                     RetryBackoff(BackoffBase, BackoffMax, j.attempts),
                                     <<j.task, j.attempts>>)

(* The handler returns an error or panics, and the task is published. *)
HandlerFails(w) ==
    /\ pc[w] = "handle"
    /\ HandOn(job[w])
    /\ ThenAck(w)
    /\ UNCHANGED <<taskVars, faults>>

(* The publish reports an error, with or without an effect: the delivery   *)
(* is left for redelivery.                                                 *)
PublishFails(w) ==
    /\ pc[w] = "handle"
    /\ Fault
    /\ HandOn(job[w]) \/ UNCHANGED serverVars
    /\ Finish(w)
    /\ UNCHANGED <<subVars, op, taskVars, requeues, crashes, lapses, forgets>>

Ack(w) ==
    /\ pc[w] = "ack"
    /\ \/ Acknowledge(job[w].seq) /\ UNCHANGED faults
       \/ Fault /\ UNCHANGED serverVars
    /\ Finish(w)
    /\ UNCHANGED <<subVars, op, taskVars, requeues, crashes, lapses, forgets>>

-----------------------------------------------------------------------------
(* Operations on dead tasks, one call per caller at a time.  Every call    *)
(* scans first; a scan that misses the task ends in ErrTaskNotFound.  The  *)
(* scan reads one message at a time, and what it finds is what its last    *)
(* read found.                                                             *)

Begin(c, e, step) ==
    /\ op[c] = NoOp /\ e \in dlq
    /\ op' = [op EXCEPT ![c] = [step |-> step, seq |-> e.seq, task |-> e.task]]

Call(c, step) == op' = [op EXCEPT ![c] = IF step = "none" THEN NoOp ELSE [@ EXCEPT !.step = step]]

FindToRequeue(c, e) ==
    /\ requeues < MaxRequeues
    /\ Patient => \A id \in ids : id[1] # e.task
    /\ requeues' = requeues + 1
    /\ Begin(c, e, "publish")
    /\ UNCHANGED <<serverVars, slotVars, subVars, taskVars, crashes, faults, lapses, forgets>>

(* Mutant: delete first. *)
DeleteFirst(c) ==
    /\ op[c].step = "publish"
    /\ DeleteMsg(op[c].seq)
    /\ Call(c, "finish")
    /\ UNCHANGED <<slotVars, subVars, taskVars, counters>>

(* RequeueDeadTask publishes the task, its attempts reset ... *)
PublishRequeued(c) ==
    /\ op[c].step = "publish"
    /\ Publish(op[c].task, 0, 0)
    /\ Call(c, "finish")
    /\ tried' = [tried EXCEPT ![op[c].task] = 0]
    /\ UNCHANGED <<slotVars, subVars, maxRetries, fate, counters>>

(* ... or fails to, without having published.                              *)
PublishRequeuedFails(c) ==
    /\ op[c].step = "publish"
    /\ Fault
    /\ Call(c, "none")
    /\ UNCHANGED <<serverVars, slotVars, subVars, taskVars, requeues, crashes, lapses, forgets>>

(* deleteDeadSeq, after the publish; an entry that is gone is reported as  *)
(* ErrTaskNotFound.  A delete that fails, or a publish that was stored but *)
(* reported an error, leaves the entry behind.                             *)
DeletePublished(c) ==
    /\ op[c].step = "finish"
    /\ \/ DeleteMsg(op[c].seq) /\ UNCHANGED faults
       \/ Fault /\ UNCHANGED serverVars
    /\ Call(c, "none")
    /\ UNCHANGED <<slotVars, subVars, taskVars, requeues, crashes, lapses, forgets>>

FindToDelete(c, e) ==
    /\ Begin(c, e, "delete")
    /\ UNCHANGED <<serverVars, slotVars, subVars, taskVars, counters>>

(* DeleteDeadTask returns nil, ErrTaskNotFound, or an error. *)
DeleteDead(c) ==
    /\ op[c].step = "delete"
    /\ \/ /\ \E e \in dlq : e.seq = op[c].seq
          /\ fate' = [fate EXCEPT ![op[c].task] = "deleted"]
          /\ DeleteMsg(op[c].seq) /\ UNCHANGED faults
       \/ /\ \A e \in dlq : e.seq # op[c].seq
          /\ UNCHANGED <<serverVars, fate, faults>>
       \/ Fault /\ UNCHANGED <<serverVars, fate>>
    /\ Call(c, "none")
    /\ UNCHANGED <<slotVars, subVars, maxRetries, tried, requeues, crashes, lapses, forgets>>

(* The caller dies, or gives up by its context, in the middle of a call.   *)
CallerDies(c) ==
    /\ op[c] # NoOp /\ crashes < MaxCrashes
    /\ crashes' = crashes + 1
    /\ Call(c, "none")
    /\ UNCHANGED <<serverVars, slotVars, subVars, taskVars, requeues, faults, lapses, forgets>>

-----------------------------------------------------------------------------
(* subscription.Stop closes stopCh and stops the consume context, ...      *)
Stop(p) ==
    /\ sub[p] # "idle"
    /\ stopCh' = [stopCh EXCEPT ![p] = TRUE]
    /\ UNCHANGED <<serverVars, slotVars, inbox, sub, op, taskVars, counters>>

(* ... which unsubscribes some time later: buffered deliveries are dropped *)
(* but for one that the callback may have in its hands.                    *)
Unsubscribe(p) ==
    /\ sub[p] = "running" /\ stopCh[p]
    /\ sub' = [sub EXCEPT ![p] = "unsubscribed"]
    /\ \E kept \in SUBSET inbox[p] : /\ Cardinality(kept) <= 1
                                     /\ inbox' = [inbox EXCEPT ![p] = kept]
    /\ UNCHANGED <<serverVars, slotVars, stopCh, op, taskVars, counters>>

(* Mutant: only the dispatch goroutine is waited for. *)
CloseDoneEarly(p) ==
    /\ sub[p] = "unsubscribed" /\ inbox[p] = {}
    /\ sub' = [sub EXCEPT ![p] = "done"]
    /\ UNCHANGED <<serverVars, slotVars, inbox, stopCh, op, taskVars, counters>>

(* Closed and wg.Wait, then done is closed. *)
CloseDone(p) ==
    /\ sub[p] = "unsubscribed" /\ inbox[p] = {}
    /\ \A w \in WorkersOf(p) : pc[w] = "idle"
    /\ sub' = [sub EXCEPT ![p] = "done"]
    /\ UNCHANGED <<serverVars, slotVars, inbox, stopCh, op, taskVars, counters>>

(* The process dies and may subscribe again. *)
Crash(p) ==
    /\ sub[p] # "idle" /\ crashes < MaxCrashes
    /\ crashes' = crashes + 1
    /\ LET clear(f, v) == [w \in Workers |-> IF w \in WorkersOf(p) THEN v ELSE f[w]] IN
       /\ pc' = clear(pc, "idle")
       /\ job' = clear(job, NoJob)
       /\ beat' = clear(beat, 0)
    /\ inbox' = [inbox EXCEPT ![p] = {}]
    /\ sub' = [sub EXCEPT ![p] = "idle"]
    /\ stopCh' = [stopCh EXCEPT ![p] = FALSE]
    /\ UNCHANGED <<serverVars, op, taskVars, requeues, faults, lapses, forgets>>

(* JetStream's duplicate window for a task's IDs passes. *)
Forget(t) ==
    /\ forgets < MaxForgets
    /\ forgets' = forgets + 1
    /\ ForgetIDs(t)
    /\ UNCHANGED <<slotVars, subVars, op, taskVars, requeues, crashes, faults, lapses>>

(* No step that takes less than a tick is waiting to be taken. *)
Quiet ==
    /\ \A w \in Workers : pc[w] = "idle" \/ (pc[w] = "handle" /\ beat[w] > 0)
    /\ \A p \in Procs : inbox[p] = {} \/ \A w \in WorkersOf(p) : pc[w] # "idle"

(* A delivery a tick later: its task is due, or nearer to it. *)
Sooner(d) == [d EXCEPT !.wait = CountDown(@)]

Tick ==
    /\ Prompt => Quiet
    /\ ServerTick
    /\ inbox' = [p \in Procs |-> {Sooner(d) : d \in inbox[p]}]
    /\ job' = [w \in Workers |-> Sooner(job[w])]
    /\ beat' = [w \in Workers |-> CountDown(beat[w])]
    /\ <<stream, inbox, job, beat>>' # <<stream, inbox, job, beat>>
    /\ UNCHANGED <<pc, sub, stopCh, op, taskVars, counters>>

-----------------------------------------------------------------------------
ServerStep(p) == \E m \in stream : Deliver(p, m)

DispatchStep(p) == \E d \in inbox[p] : HandBack(p, d) \/ \E w \in WorkersOf(p) : Dispatch(w, d)

SlotStep(w) == Delay(w) \/ Start(w) \/ Heartbeat(w) \/ Ack(w)

HandlerReturns(w) == HandlerSucceeds(w) \/ HandlerFails(w) \/ PublishFails(w)

CallStep(c) == PublishRequeued(c) \/ PublishRequeuedFails(c) \/ DeletePublished(c) \/ DeleteDead(c)

Next ==
    \/ \E t \in Tasks : (\E o \in EnqueueInputs : Enqueue(t, o)) \/ Forget(t)
    \/ \E p \in Procs : \/ Consume(p) \/ Stop(p) \/ Unsubscribe(p) \/ CloseDone(p) \/ Crash(p)
                        \/ ServerStep(p) \/ DispatchStep(p)
    \/ \E w \in Workers : SlotStep(w) \/ HandlerReturns(w)
    \/ \E c \in Callers : \/ \E e \in dlq : FindToRequeue(c, e) \/ FindToDelete(c, e)
                          \/ CallStep(c) \/ CallerDies(c)
    \/ Tick

Spec == Init /\ [][Next]_vars

(* The server delivers to subscribers, goroutines are scheduled, handlers  *)
(* return, time passes, calls go on.                                       *)
Fairness == /\ \A p \in Procs : /\ WF_vars(ServerStep(p)) /\ WF_vars(DispatchStep(p))
                                 /\ WF_vars(Unsubscribe(p)) /\ WF_vars(CloseDone(p))
            /\ \A w \in Workers : WF_vars(SlotStep(w)) /\ WF_vars(HandlerReturns(w))
            /\ \A c \in Callers : WF_vars(CallStep(c))
            /\ WF_vars(Tick)

FairSpec == Spec /\ Fairness

-----------------------------------------------------------------------------
(* Correctness. *)

CopiesOf(t) == {m \in stream : m.task = t}
DeadOf(t) == {e \in dlq : e.task = t}

(* README: "publish-before-ack, so a crash in between duplicates rather    *)
(* than loses", and the same of RequeueDeadTask.  A task that was accepted *)
(* and neither handled nor deleted is in one of the streams, whatever was  *)
(* lost, redelivered or cut off, as long as no task is requeued within the *)
(* duplicate window (Patient).                                             *)
TaskKept == \A t \in Tasks : fate[t] = "open" => CopiesOf(t) # {} \/ DeadOf(t) # {}

(* "A non-empty msgID enables JetStream dedup for the crash-between-       *)
(* publish-and-ack window": until a duplicate window has passed, each      *)
(* retry of a task is in the stream once, however often the attempt before *)
(* it was delivered again after a crash, a lapse or a lost answer.         *)
RetryStoredOnce ==
    forgets = 0 => \A m, n \in stream :
        (m.task = n.task /\ m.attempts = n.attempts /\ m.attempts > 0) => m = n

(* Done is closed only after the last handler has returned, and nothing is *)
(* dispatched afterwards.                                                  *)
StoppedIsQuiet ==
    \A p \in Procs : sub[p] = "done" => inbox[p] = {} /\ \A w \in WorkersOf(p) : pc[w] = "idle"

(* "Long-running handlers are kept alive with in-progress heartbeats" and  *)
(* "prefetched messages don't burn their AckWait in a local buffer": with  *)
(* prompt goroutines no message is ever in the hands of two consumers, as  *)
(* long as the deadline is longer than the intervals of the heartbeats     *)
(* that were lost and of the next one.                                     *)
OneConsumer ==
    /\ \A v, w \in Workers : (v # w /\ pc[v] # "idle" /\ pc[w] # "idle") => job[v].seq # job[w].seq
    /\ \A p \in Procs, w \in Workers : \A d \in inbox[p] : pc[w] # "idle" => job[w].seq # d.seq

(* While a process consumes, every copy of a task leaves the queue in the  *)
(* end: the task is acknowledged or a dead task.                           *)
TasksSettle ==
    \A t \in Tasks : \A p \in Procs :
        (CopiesOf(t) # {} /\ sub[p] = "running" /\ ~ stopCh[p])
          ~> (CopiesOf(t) = {} \/ stopCh[p] \/ sub[p] # "running")

(* Stop drains the dispatch goroutine and the handlers.                    *)
StopDrains == \A p \in Procs : stopCh[p] ~> (sub[p] = "done" \/ ~ stopCh[p])

(* "DeleteDeadTask permanently removes a dead task": no handler is invoked *)
(* for it any more.  (The code does not keep this: a requeue and a delete  *)
(* that overlap both find the entry, and the published task runs.)         *)
DeletedStaysDeleted ==
    [][\A w \in Workers : (pc[w] = "start" /\ pc'[w] = "handle")
                            => fate[job[w].task] # "deleted"]_vars

(* Copies that are not just waiting to be acknowledged; dead entries that  *)
(* no requeue is about to remove.                                          *)
LiveCopies(t) == {m \in CopiesOf(t) : \A w \in Workers : pc[w] = "ack" => job[w].seq # m.seq}
LiveDead(t) == {e \in DeadOf(t) : \A c \in Callers : op[c].step = "finish" => op[c].seq # e.seq}

Handling(t) == \E w \in Workers : pc[w] = "handle" /\ job[w].task = t

Status(t) == IF fate[t] = "none" THEN "none"
             ELSE IF Handling(t) THEN "running"
             ELSE IF LiveCopies(t) # {} THEN "pending"
             ELSE IF LiveDead(t) # {} THEN "dead" ELSE "gone"

Contract == INSTANCE WorkQueue WITH
    Budgets  <- {NewEnqueueOptions(o).maxRetries : o \in EnqueueInputs},
    Leased   <- FALSE,
    status   <- [t \in Tasks |-> Status(t)],
    attempts <- tried

(* With prompt goroutines, no crashes and no losses, and requeues that are *)
(* patient and one at a time, the streams implement the strict contract of *)
(* workqueue.go: delays, redeliveries of buffered messages after a Stop    *)
(* and the hand-overs between the streams are invisible to the callers.    *)
ImplementsContract == Contract!Spec
=============================================================================
