------------------------ MODULE MemoryWorkQueueProofs ------------------------
(***************************************************************************)
(* The in-memory back end, for any number of queues, tasks, subscriptions  *)
(* and workers and without the bounds of the model-checking runs: types,   *)
(* the places of a task, Stop, wakeups, the order and the pages of the     *)
(* dead-letter lists, and the refinement of the contract of workqueue.go.  *)
(***************************************************************************)
EXTENDS MemoryWorkQueue, OptionsProofs, FiniteSetTheorems

(* SequencesExt's RemoveAt, as the slice expression of RequeueDeadTask and *)
(* DeleteDeadTask uses it: one entry fewer, the later ones move up.        *)
LEMMA RemoveAtFacts ==
    ASSUME NEW S, NEW s \in Seq(S), NEW i \in 1 .. Len(s)
    PROVE  /\ RemoveAt(s, i) \in Seq(S)
           /\ Len(RemoveAt(s, i)) = Len(s) - 1
           /\ \A k \in 1 .. Len(s) - 1 :
                RemoveAt(s, i)[k] = IF k < i THEN s[k] ELSE s[k + 1]
<1> DEFINE a == SubSeq(s, 1, i - 1)
           b == SubSeq(s, i + 1, Len(s))
<1>1. a \in Seq(S) /\ b \in Seq(S)
  OBVIOUS
<1>2. Len(a) = i - 1 /\ \A k \in 1 .. i - 1 : a[k] = s[k]
  OBVIOUS
<1>3. Len(b) = Len(s) - i /\ \A k \in 1 .. Len(s) - i : b[k] = s[k + i]
  OBVIOUS
<1>4. RemoveAt(s, i) = a \o b
  BY DEF RemoveAt
<1> HIDE DEF a, b
<1>5. a \o b \in Seq(S)
  BY <1>1
<1>6. Len(a \o b) = Len(s) - 1
  <2>1. Len(a \o b) = Len(a) + Len(b)
    BY <1>1
  <2> QED BY <2>1, <1>2, <1>3
<1>7. ASSUME NEW k \in 1 .. Len(s) - 1
      PROVE  (a \o b)[k] = IF k < i THEN s[k] ELSE s[k + 1]
  <2>1. CASE k < i
    BY <1>1, <1>2, <1>3, <2>1
  <2>2. CASE ~ (k < i)
    <3>1. (a \o b)[k] = b[k - (i - 1)]
      BY <1>1, <1>2, <1>3, <2>2
    <3>2. b[k - (i - 1)] = s[k - (i - 1) + i]
      BY <1>3, <2>2
    <3> QED BY <2>2, <3>1, <3>2
  <2> QED BY <2>1, <2>2
<1> QED BY <1>4, <1>5, <1>6, <1>7

(* The settings Enqueue resolves are a retry budget and a time, whatever   *)
(* the caller gave: NewEnqueueOptions and ResolveRunAt.                    *)
LEMMA EnqueueSettings ==
    ASSUME NEW o \in EnqueueInputs, NEW at \in Nat
    PROVE  /\ NewEnqueueOptions(o).maxRetries \in Nat
           /\ ResolveRunAt(NewEnqueueOptions(o), at) \in Nat
BY InputAssumption DEF NewEnqueueOptions, ResolveRunAt, Larger

(* A worker's queue is a queue: its subscription was started on one.       *)
LEMMA WorkerQueueType == ASSUME NEW w \in Workers PROVE WorkerQueue(w) \in Queues
BY DeploymentAssumption DEF WorkerQueue

(* A push on a queue keeps the heaps and the insertion counters typed.     *)
LEMMA PushType ==
    ASSUME TypeOK, NEW q \in Queues, NEW t \in Tasks, Push(q, t)
    PROVE  pending' \in [Queues -> SUBSET Items] /\ seq' \in [Queues -> Nat]
BY DEF TypeOK, Push, Items

(* claim, complete and requeue assign one field of one task.               *)
LEMMA AssignTask ==
    ASSUME task \in [Tasks -> TaskRecords], NEW t \in Tasks, NEW n \in Nat
    PROVE  /\ [task EXCEPT ![t].attempts = n] \in [Tasks -> TaskRecords]
           /\ [task EXCEPT ![t].runAt = n] \in [Tasks -> TaskRecords]
           /\ [task EXCEPT ![t].diedAt = n] \in [Tasks -> TaskRecords]
<1>1. task[t] \in TaskRecords
  OBVIOUS
<1>2. /\ [task[t] EXCEPT !.attempts = n] \in TaskRecords
      /\ [task[t] EXCEPT !.runAt = n] \in TaskRecords
      /\ [task[t] EXCEPT !.diedAt = n] \in TaskRecords
  BY <1>1 DEF TaskRecords
<1> QED BY <1>2

-----------------------------------------------------------------------------
(* The type invariant holds in the initial state: nothing is stored and no *)
(* subscription has started.                                               *)
LEMMA TypeInit == Init => TypeOK /\ Lifecycle
BY DeploymentAssumption DEF Init, TypeOK, Lifecycle, TaskRecords, PCs, ZeroTime

(* Every step of a caller, a worker, a handler or the clock keeps the      *)
(* types; that a task is put back or buried only from a worker's hands     *)
(* needs Lifecycle.                                                          *)
LEMMA TypeStep == TypeOK /\ Lifecycle /\ [Next]_vars => TypeOK' /\ Lifecycle'
<1> SUFFICES ASSUME TypeOK, Lifecycle, [Next]_vars PROVE TypeOK' /\ Lifecycle'
  OBVIOUS
<1> USE DEF TypeOK, Lifecycle
<1>1. ASSUME NEW q \in Queues, NEW t \in Tasks, NEW o \in EnqueueInputs, NEW at \in 1 .. now,
             Enqueue(q, t, o, at)
      PROVE  TypeOK' /\ Lifecycle'
  <2>1. at \in Nat
    OBVIOUS
  <2>2. task' \in [Tasks -> TaskRecords]
    BY <1>1, <2>1, EnqueueSettings DEF Enqueue, TaskRecords, ZeroTime
  <2>3. pending' \in [Queues -> SUBSET Items] /\ seq' \in [Queues -> Nat]
    BY <1>1, PushType DEF Enqueue
  <2> QED BY <1>1, <2>2, <2>3 DEF Enqueue, Broadcast, subVars
<1>2. ASSUME NEW q \in Queues, NEW i \in DOMAIN dead[q], RequeueDeadTask(q, i)
      PROVE  TypeOK' /\ Lifecycle'
  <2>1. dead[q] \in Seq(Tasks) /\ i \in 1 .. Len(dead[q]) /\ dead[q][i] \in Tasks
    OBVIOUS
  <2>2. RemoveAt(dead[q], i) \in Seq(Tasks)
    BY <2>1, RemoveAtFacts
  <2>3. Revived(dead[q][i]) \in TaskRecords
    <3>1. task[dead[q][i]] \in TaskRecords /\ now \in Nat
      BY <2>1
    <3> QED BY <3>1 DEF Revived, TaskRecords, ZeroTime
  <2>4. pending' \in [Queues -> SUBSET Items] /\ seq' \in [Queues -> Nat]
    BY <1>2, <2>1, PushType DEF RequeueDeadTask
  <2>5. task' \in [Tasks -> TaskRecords] /\ dead' \in [Queues -> Seq(Tasks)]
    BY <1>2, <2>1, <2>2, <2>3 DEF RequeueDeadTask, TakeDead
  <2> QED BY <1>2, <2>4, <2>5 DEF RequeueDeadTask, Broadcast, subVars
<1>3. ASSUME NEW q \in Queues, NEW i \in DOMAIN dead[q], DeleteDeadTask(q, i)
      PROVE  TypeOK' /\ Lifecycle'
  <2>1. dead[q] \in Seq(Tasks) /\ i \in 1 .. Len(dead[q])
    OBVIOUS
  <2>2. RemoveAt(dead[q], i) \in Seq(Tasks)
    BY <2>1, RemoveAtFacts
  <2> QED BY <1>3, <2>2 DEF DeleteDeadTask, TakeDead, workerVars, subVars
<1>4. ASSUME NEW s \in Subs, Consume(s) \/ Stop(s) \/ StopReturns(s) \/ CloseDone(s)
      PROVE  TypeOK' /\ Lifecycle'
  <2>1. CASE Consume(s)
    BY <2>1, DeploymentAssumption DEF Consume, queueVars, PCs, WorkersOf
  <2>2. CASE Stop(s)
    BY <2>2 DEF Stop, queueVars, workerVars
  <2>3. CASE StopReturns(s)
    BY <2>3 DEF StopReturns, queueVars, workerVars
  <2>4. CASE CloseDone(s)
    BY <2>4, DeploymentAssumption DEF CloseDone, queueVars, workerVars, WorkersOf
  <2> QED BY <1>4, <2>1, <2>2, <2>3, <2>4
<1>5. ASSUME NEW w \in Workers, CheckStop(w) \/ StartTimer(w) \/ Wake(w)
      PROVE  TypeOK' /\ Lifecycle'
  <2>1. CASE CheckStop(w)
    BY <2>1 DEF CheckStop, queueVars, subVars, PCs
  <2>2. CASE StartTimer(w)
    BY <2>2 DEF StartTimer, queueVars, subVars, PCs
  <2>3. CASE Wake(w)
    <3>1. pc' = [pc EXCEPT ![w] = "exited"] \/ pc' = [pc EXCEPT ![w] = "top"]
      BY <2>3 DEF Wake
    <3>2. pc' \in [Workers -> PCs] /\ \A v \in Workers : v # w => pc'[v] = pc[v]
      BY <3>1 DEF PCs
    <3>3. TypeOK'
      BY <2>3, <3>2 DEF Wake, queueVars, subVars
    <3>4. pc[w] = "wait" /\ pc'[w] \in {"exited", "top"}
      BY <2>3, <3>1 DEF Wake
    <3>5. sub[SubOf[w]] # "idle" /\ (sub[SubOf[w]] = "done" => FALSE) /\ held[w] = NoTask
      BY <3>4
    <3>6. Lifecycle'
      BY <2>3, <3>2, <3>4, <3>5 DEF Wake, subVars
    <3> QED BY <3>3, <3>6
  <2> QED BY <1>5, <2>1, <2>2, <2>3
<1>6. ASSUME NEW w \in Workers, NEW i \in pending[WorkerQueue(w)], ClaimTask(w, i)
      PROVE  TypeOK' /\ Lifecycle'
  <2>1. WorkerQueue(w) \in Queues /\ i \in Items /\ i.task \in Tasks /\ i.task # NoTask
    BY WorkerQueueType, DeploymentAssumption DEF Items
  <2>2. task' \in [Tasks -> TaskRecords]
    <3>1. task[i.task].attempts + 1 \in Nat
      BY <2>1 DEF TaskRecords
    <3>2. task' = [task EXCEPT ![i.task].attempts = task[i.task].attempts + 1]
      BY <1>6 DEF ClaimTask
    <3> QED BY <2>1, <3>1, <3>2, AssignTask
  <2> QED BY <1>6, <2>1, <2>2, DeploymentAssumption DEF ClaimTask, subVars, PCs
<1>7. ASSUME NEW w \in Workers, NEW wait, ClaimWait(w, wait)
      PROVE  TypeOK' /\ Lifecycle'
  <2>1. wait \in Nat
    BY <1>7, WorkerQueueType, BoundAssumption DEF ClaimWait, Items, TaskRecords
  <2> QED BY <1>7, <2>1 DEF ClaimWait, queueVars, subVars, PCs
<1>8. ASSUME NEW w \in Workers, HandlerSucceeds(w)
      PROVE  TypeOK' /\ Lifecycle'
  BY <1>8 DEF HandlerSucceeds, Release, queueVars, subVars, PCs
<1>9. ASSUME NEW w \in Workers, Reschedule(w)
      PROVE  TypeOK' /\ Lifecycle'
  <2> DEFINE t == held[w]
             b == BackoffOf[SubOf[w]]
             at == now + RetryBackoff(b.base, b.max, task[t].attempts)
  <2>1. t \in Tasks /\ WorkerQueue(w) \in Queues
    BY <1>9, WorkerQueueType DEF Reschedule, Release
  <2>2. b.base \in Int /\ b.max \in Int /\ task[t].attempts \in Int
    BY <2>1, DeploymentAssumption DEF TaskRecords
  <2>3. at \in Nat
    BY <2>2, RetryBackoffBounded
  <2>4. task' = [task EXCEPT ![t].runAt = at]
    BY <1>9 DEF Reschedule
  <2> HIDE DEF at, b
  <2>5. task' \in [Tasks -> TaskRecords]
    BY <2>1, <2>3, <2>4, AssignTask
  <2> QED
    BY <1>9, <2>1, <2>5, PushType DEF Reschedule, Release, Broadcast, subVars, PCs
<1>10. ASSUME NEW w \in Workers, Bury(w)
       PROVE  TypeOK' /\ Lifecycle'
  <2>1. held[w] \in Tasks /\ WorkerQueue(w) \in Queues
    BY <1>10, WorkerQueueType DEF Bury, Release
  <2>2. task' \in [Tasks -> TaskRecords]
    BY <1>10, <2>1, AssignTask DEF Bury
  <2>3. dead' \in [Queues -> Seq(Tasks)]
    BY <1>10, <2>1 DEF Bury, AddDead
  <2> QED BY <1>10, <2>1, <2>2, <2>3 DEF Bury, Release, subVars, PCs
<1>11. CASE Tick
  BY <1>11 DEF Tick, queueVars, workerVars, subVars
<1>12. CASE UNCHANGED vars
  BY <1>12 DEF vars, queueVars, workerVars, subVars
<1> QED
  BY <1>1, <1>2, <1>3, <1>4, <1>5, <1>6, <1>7, <1>8, <1>9, <1>10, <1>11, <1>12
     DEF Next, CallerStep, WorkerStep, HandlerReturns

(* Every variable of the in-memory back end keeps its type, for every      *)
(* deployment.                                                             *)
THEOREM TypeCorrect == Spec => []TypeOK
BY TypeInit, TypeStep, PTL DEF Spec

(* When Stop has returned nil the subscription's workers are gone and no   *)
(* handler of it runs: the wait group is counted down by every worker      *)
(* before done is closed.                                                  *)
THEOREM StoppedStaysQuiet == Spec => []StoppedIsQuiet
<1>1. Lifecycle => StoppedIsQuiet
  BY DEF Lifecycle, StoppedIsQuiet, WorkersOf
<1> QED BY TypeInit, TypeStep, <1>1, PTL DEF Spec

-----------------------------------------------------------------------------
(* How the pieces the actions are built from change where tasks are.       *)

(* heap.Push adds one item for the task to one queue.                      *)
LEMMA PushPlaces ==
    ASSUME TypeOK, NEW q \in Queues, NEW t \in Tasks, Push(q, t)
    PROVE  /\ \A p \in Queues : \A i \in pending'[p] :
                i \in pending[p] \/ (p = q /\ i = [task |-> t, seq |-> seq[q] + 1])
           /\ \A x \in Tasks : IsPending(x)' <=> IsPending(x) \/ x = t
<1>1. pending' = [pending EXCEPT ![q] = @ \cup {[task |-> t, seq |-> seq[q] + 1]}]
  BY DEF Push
<1>2. \A p \in Queues : pending'[p] = IF p = q
         THEN pending[q] \cup {[task |-> t, seq |-> seq[q] + 1]} ELSE pending[p]
  BY <1>1 DEF TypeOK
<1>3. \A p \in Queues : \A i \in pending'[p] :
         i \in pending[p] \/ (p = q /\ i = [task |-> t, seq |-> seq[q] + 1])
  BY <1>2
<1>4. \A x \in Tasks : IsPending(x)' => IsPending(x) \/ x = t
  <2> SUFFICES ASSUME NEW x \in Tasks, IsPending(x)'
               PROVE  IsPending(x) \/ x = t
    OBVIOUS
  <2>0. PICK p \in Queues : \E i \in pending'[p] : i.task = x
    BY DEF IsPending
  <2>1. PICK i \in pending'[p] : i.task = x
    BY <2>0
  <2>2. CASE i \in pending[p]
    BY <2>1, <2>2 DEF IsPending
  <2>3. CASE i = [task |-> t, seq |-> seq[q] + 1]
    BY <2>1, <2>3
  <2> QED BY <1>3, <2>1, <2>2, <2>3
<1>5. ASSUME NEW x \in Tasks, IsPending(x)
      PROVE  IsPending(x)'
  <2>0. PICK p \in Queues : \E i \in pending[p] : i.task = x
    BY <1>5 DEF IsPending
  <2>1. PICK i \in pending[p] : i.task = x
    BY <2>0
  <2>2. i \in pending'[p]
    BY <1>2
  <2> QED BY <2>1, <2>2 DEF IsPending
<1>6. IsPending(t)'
  <2>1. [task |-> t, seq |-> seq[q] + 1] \in pending'[q]
    BY <1>2
  <2>2. [task |-> t, seq |-> seq[q] + 1].task = t
    OBVIOUS
  <2> QED BY <2>1, <2>2 DEF IsPending
<1> QED BY <1>3, <1>4, <1>5, <1>6

(* Taking an entry out of the dead-letter list: what is left was there     *)
(* before, in the same order, and the entry is not among it.               *)
LEMMA TakeDeadPlaces ==
    ASSUME TypeOK, DeadOnce, NEW q \in Queues, NEW i \in DOMAIN dead[q],
           TakeDead(q, i)
    PROVE  \A p \in Queues : \A k \in DOMAIN dead'[p] :
             \E m \in DOMAIN dead[p] :
                /\ dead'[p][k] = dead[p][m] /\ (p = q => m # i)
                /\ m = IF p = q /\ k >= i THEN k + 1 ELSE k
<1> SUFFICES ASSUME NEW p \in Queues, NEW k \in DOMAIN dead'[p]
             PROVE  \E m \in DOMAIN dead[p] :
                       /\ dead'[p][k] = dead[p][m] /\ (p = q => m # i)
                       /\ m = IF p = q /\ k >= i THEN k + 1 ELSE k
  OBVIOUS
<1>1. dead \in [Queues -> Seq(Tasks)]
  BY DEF TypeOK
<1>2. dead[q] \in Seq(Tasks) /\ i \in 1 .. Len(dead[q])
  BY <1>1
<1>3. CASE p # q
  BY <1>1, <1>3 DEF TakeDead
<1>4. CASE p = q
  <2>1. dead'[p] = RemoveAt(dead[q], i)
    BY <1>1, <1>4 DEF TakeDead
  <2>2. /\ RemoveAt(dead[q], i) \in Seq(Tasks) /\ Len(RemoveAt(dead[q], i)) = Len(dead[q]) - 1
        /\ \A n \in 1 .. Len(dead[q]) - 1 :
             RemoveAt(dead[q], i)[n] = IF n < i THEN dead[q][n] ELSE dead[q][n + 1]
    BY <1>2, RemoveAtFacts
  <2>3. k \in 1 .. Len(dead[q]) - 1
    BY <2>1, <2>2
  <2>4. dead'[p][k] = IF k < i THEN dead[q][k] ELSE dead[q][k + 1]
    BY <2>1, <2>2, <2>3
  <2>5. CASE k < i
    BY <1>2, <1>4, <2>3, <2>4, <2>5
  <2>6. CASE ~ (k < i)
    <3>1. k + 1 \in DOMAIN dead[p] /\ k + 1 # i
      BY <1>2, <1>4, <2>3, <2>6
    <3>2. dead'[p][k] = dead[p][k + 1]
      BY <1>4, <2>4, <2>6
    <3> QED BY <1>2, <1>4, <2>3, <2>6, <3>1, <3>2
  <2> QED BY <2>5, <2>6
<1> QED BY <1>3, <1>4

(* The same, as a statement about which tasks are dead: the requeued or    *)
(* deleted one no longer is, and no other becomes so.                      *)
LEMMA TakenIsNotDead ==
    ASSUME TypeOK, DeadOnce, NEW q \in Queues, NEW i \in DOMAIN dead[q],
           TakeDead(q, i),
           NEW x \in Tasks, IsDead(x)'
    PROVE  IsDead(x) /\ x # dead[q][i]
<1>0. PICK p \in Queues : \E k \in DOMAIN dead'[p] : dead'[p][k] = x
  BY DEF IsDead
<1>1. PICK k \in DOMAIN dead'[p] : dead'[p][k] = x
  BY <1>0
<1>2. PICK m \in DOMAIN dead[p] : dead[p][m] = x /\ (p = q => m # i)
  BY <1>1, TakeDeadPlaces
<1>3. CASE p = q
  BY <1>2, <1>3 DEF DeadOnce, IsDead
<1>4. CASE p # q
  BY <1>2, <1>4 DEF DeadOnce, IsDead
<1> QED BY <1>3, <1>4

(* Taking an entry out leaves no task listed twice.                        *)
LEMMA TakeDeadOnce ==
    ASSUME TypeOK, DeadOnce, NEW q \in Queues, NEW i \in DOMAIN dead[q], TakeDead(q, i),
           \A x \in Tasks : task'[x].queue = task[x].queue
    PROVE  DeadOnce'
<1> SUFFICES ASSUME NEW p \in Queues, NEW k \in DOMAIN dead'[p], NEW l \in DOMAIN dead'[p]
             PROVE  task'[dead'[p][k]].queue = p /\ (dead'[p][k] = dead'[p][l] => k = l)
  BY DEF DeadOnce
<1>1. PICK m \in DOMAIN dead[p] : /\ dead'[p][k] = dead[p][m] /\ (p = q => m # i)
                                  /\ m = IF p = q /\ k >= i THEN k + 1 ELSE k
  BY TakeDeadPlaces
<1>2. PICK n \in DOMAIN dead[p] : /\ dead'[p][l] = dead[p][n] /\ (p = q => n # i)
                                  /\ n = IF p = q /\ l >= i THEN l + 1 ELSE l
  BY TakeDeadPlaces
<1>3. /\ dead[p][m] \in Tasks /\ task[dead[p][m]].queue = p
      /\ dead[p][m] = dead[p][n] => m = n
  BY DEF DeadOnce, TypeOK
<1>4. k \in Int /\ l \in Int /\ i \in Int
  <2>1. dead'[p] \in Seq(Tasks)
    BY RemoveAtFacts DEF TakeDead, TypeOK
  <2> QED BY <2>1 DEF TypeOK
<1>5. m = n => k = l
  BY <1>1, <1>2, <1>4
<1> QED BY <1>1, <1>2, <1>3, <1>5

(* complete appends one task to one dead-letter list.                      *)
LEMMA AddDeadPlaces ==
    ASSUME TypeOK, NEW q \in Queues, NEW t \in Tasks,
           AddDead(q, t)
    PROVE  \A p \in Queues : \A k \in DOMAIN dead'[p] :
             \/ k \in DOMAIN dead[p] /\ dead'[p][k] = dead[p][k]
             \/ p = q /\ k = Len(dead[q]) + 1 /\ dead'[p][k] = t
<1> SUFFICES ASSUME NEW p \in Queues, NEW k \in DOMAIN dead'[p]
             PROVE  \/ k \in DOMAIN dead[p] /\ dead'[p][k] = dead[p][k]
                    \/ p = q /\ k = Len(dead[q]) + 1 /\ dead'[p][k] = t
  OBVIOUS
<1>1. dead \in [Queues -> Seq(Tasks)]
  BY DEF TypeOK
<1>2. CASE p # q
  BY <1>1, <1>2 DEF AddDead
<1>3. CASE p = q
  <2>1. dead'[p] = Append(dead[q], t) /\ dead[q] \in Seq(Tasks)
    BY <1>1, <1>3 DEF AddDead
  <2> QED BY <1>3, <2>1
<1> QED BY <1>2, <1>3

(* A claim takes one item off the heap, and with it the last trace of its  *)
(* task there.                                                             *)
LEMMA ClaimPlaces ==
    ASSUME TypeOK, PendingOnce, NEW q \in Queues, NEW i \in pending[q],
           pending' = [pending EXCEPT ![q] = @ \ {i}]
    PROVE  /\ \A p \in Queues : \A j \in pending'[p] : j \in pending[p] /\ j.task # i.task
           /\ \A x \in Tasks : IsPending(x)' => IsPending(x) /\ x # i.task
<1>1. \A p \in Queues : pending'[p] = IF p = q THEN pending[q] \ {i} ELSE pending[p]
  BY DEF TypeOK
<1>2. ASSUME NEW p \in Queues, NEW j \in pending'[p]
      PROVE  j \in pending[p] /\ j.task # i.task
  <2>1. j \in pending[p] /\ (p = q => j # i)
    BY <1>1
  <2>2. CASE p = q
    BY <2>1, <2>2 DEF PendingOnce
  <2>3. CASE p # q
    BY <2>1, <2>3 DEF PendingOnce
  <2> QED BY <2>1, <2>2, <2>3
<1> QED BY <1>2 DEF IsPending

(* Assigning attempts, runAt or diedAt leaves the task on its queue.       *)
LEMMA AssignKeepsQueue ==
    ASSUME task \in [Tasks -> TaskRecords], NEW t \in Tasks, NEW n,
           \/ task' = [task EXCEPT ![t].attempts = n]
           \/ task' = [task EXCEPT ![t].runAt = n]
           \/ task' = [task EXCEPT ![t].diedAt = n]
           \/ task' = [task EXCEPT ![t] = Revived(t)]
    PROVE  \A x \in Tasks : task'[x].queue = task[x].queue
<1>1. task[t] \in TaskRecords
  OBVIOUS
<1>2. /\ [task[t] EXCEPT !.attempts = n].queue = task[t].queue
      /\ [task[t] EXCEPT !.runAt = n].queue = task[t].queue
      /\ [task[t] EXCEPT !.diedAt = n].queue = task[t].queue
      /\ Revived(t).queue = task[t].queue
  BY <1>1 DEF TaskRecords, Revived
<1> QED BY <1>2

-----------------------------------------------------------------------------
(* The facts about where tasks are survive every step.                     *)
LEMMA OnePlaceStep ==
    TypeOK /\ Lifecycle /\ OnePlace /\ [Next]_vars => OnePlace'
<1> SUFFICES ASSUME TypeOK, Lifecycle, OnePlace, [Next]_vars PROVE OnePlace'
  OBVIOUS
<1>t. task \in [Tasks -> TaskRecords] /\ pending \in [Queues -> SUBSET Items]
      /\ dead \in [Queues -> Seq(Tasks)] /\ held \in [Workers -> Tasks \cup {NoTask}]
  BY DEF TypeOK
<1>i. \A q \in Queues : \A i \in pending[q] : i.task \in Tasks
  BY <1>t DEF Items
<1>d. \A q \in Queues : \A k \in DOMAIN dead[q] : dead[q][k] \in Tasks
  BY <1>t
<1>p. PendingOnce /\ DeadOnce /\ HeldOnce /\ Apart
  BY DEF OnePlace
<1>1. ASSUME UNCHANGED <<task, pending, dead, held>>
      PROVE  OnePlace'
  BY <1>1, <1>p DEF OnePlace, PendingOnce, DeadOnce, HeldOnce, Apart, IsPending, IsHeld, IsDead
<1>2. ASSUME NEW q \in Queues, NEW t \in Tasks, NEW o \in EnqueueInputs, NEW at \in 1 .. now,
             Enqueue(q, t, o, at)
      PROVE  OnePlace'
  <2>1. /\ task'[t].queue = q
        /\ \A x \in Tasks : x # t => task'[x] = task[x]
        /\ dead' = dead /\ held' = held /\ Push(q, t)
    BY <1>2, <1>t DEF Enqueue
  <2>2. /\ \A p \in Queues : \A i \in pending[p] : i.task # t
        /\ \A p \in Queues : \A k \in DOMAIN dead[p] : dead[p][k] # t
        /\ \A w \in Workers : held[w] # t
    <3>0. task[t].queue \notin Queues /\ t # NoTask
      BY <1>2, DeploymentAssumption DEF Enqueue
    <3>1. \A p \in Queues : \A i \in pending[p] : i.task # t
      BY <1>p, <3>0 DEF PendingOnce
    <3>2. \A p \in Queues : \A k \in DOMAIN dead[p] : dead[p][k] # t
      BY <1>p, <3>0 DEF DeadOnce
    <3>3. \A w \in Workers : held[w] # t
      BY <1>p, <3>0, WorkerQueueType DEF HeldOnce
    <3> QED BY <3>1, <3>2, <3>3
  <2>3. /\ \A p \in Queues : \A i \in pending'[p] :
             i \in pending[p] \/ (p = q /\ i = [task |-> t, seq |-> seq[q] + 1])
        /\ \A x \in Tasks : IsPending(x)' <=> IsPending(x) \/ x = t
    BY <2>1, PushPlaces
  <2>4. PendingOnce'
    BY <1>p, <1>i, <2>1, <2>2, <2>3 DEF PendingOnce
  <2>5. DeadOnce'
    BY <1>p, <1>d, <2>1, <2>2 DEF DeadOnce
  <2>6. HeldOnce'
    BY <1>p, <1>t, <2>1, <2>2 DEF HeldOnce
  <2>7. Apart'
    BY <1>p, <2>1, <2>2, <2>3 DEF Apart, IsHeld, IsDead
  <2> QED BY <2>4, <2>5, <2>6, <2>7 DEF OnePlace
<1>3. ASSUME NEW q \in Queues, NEW i \in DOMAIN dead[q], RequeueDeadTask(q, i)
      PROVE  OnePlace'
  <2> DEFINE t == dead[q][i]
  <2>0. t \in Tasks
    BY <1>d
  <2>1. /\ task' = [task EXCEPT ![t] = Revived(t)]
        /\ held' = held /\ Push(q, t) /\ TakeDead(q, i)
    BY <1>3 DEF RequeueDeadTask
  <2>2. /\ \A p \in Queues : \A j \in pending'[p] :
             j \in pending[p] \/ (p = q /\ j = [task |-> t, seq |-> seq[q] + 1])
        /\ \A x \in Tasks : IsPending(x)' <=> IsPending(x) \/ x = t
    BY <2>0, <2>1, PushPlaces
  <2>3. \A x \in Tasks : IsDead(x)' => IsDead(x) /\ x # t
    BY <1>p, <2>1, TakenIsNotDead
  <2>4. \A x \in Tasks : task'[x].queue = task[x].queue
    BY <1>t, <2>0, <2>1, AssignKeepsQueue
  <2>5. IsDead(t) /\ ~ IsPending(t) /\ ~ IsHeld(t) /\ task[t].queue = q
    BY <1>p, <2>0 DEF IsDead, Apart, DeadOnce
  <2>6. PendingOnce'
    <3>1. \A p \in Queues : \A j \in pending[p] : j.task # t
      BY <2>5 DEF IsPending
    <3> QED BY <1>p, <1>i, <2>0, <2>2, <2>4, <2>5, <3>1 DEF PendingOnce
  <2>7. DeadOnce'
    BY <1>p, <2>1, <2>4, TakeDeadOnce
  <2>8. HeldOnce'
    BY <1>p, <1>t, <2>1, <2>4 DEF HeldOnce
  <2>9. Apart'
    BY <1>p, <2>1, <2>2, <2>3, <2>5 DEF Apart, IsHeld
  <2> QED BY <2>6, <2>7, <2>8, <2>9 DEF OnePlace
<1>4. ASSUME NEW q \in Queues, NEW i \in DOMAIN dead[q], DeleteDeadTask(q, i)
      PROVE  OnePlace'
  <2>1. task' = task /\ pending' = pending /\ held' = held /\ TakeDead(q, i)
    BY <1>4 DEF DeleteDeadTask, workerVars
  <2>2. \A x \in Tasks : IsDead(x)' => IsDead(x)
    BY <1>p, <2>1, TakenIsNotDead
  <2>4. DeadOnce'
    BY <1>p, <2>1, TakeDeadOnce
  <2>5. PendingOnce' /\ HeldOnce'
    BY <1>p, <2>1 DEF PendingOnce, HeldOnce
  <2>6. Apart'
    BY <1>p, <2>1, <2>2 DEF Apart, IsHeld, IsPending
  <2> QED BY <2>4, <2>5, <2>6 DEF OnePlace
<1>5. ASSUME NEW w \in Workers, NEW i \in pending[WorkerQueue(w)], ClaimTask(w, i)
      PROVE  OnePlace'
  <2> DEFINE q == WorkerQueue(w)
             t == i.task
  <2>0. q \in Queues /\ t \in Tasks /\ t # NoTask /\ held[w] = NoTask
    BY <1>5, <1>i, WorkerQueueType, DeploymentAssumption DEF ClaimTask, Lifecycle
  <2>1. /\ task' = [task EXCEPT ![t].attempts = task[t].attempts + 1]
        /\ pending' = [pending EXCEPT ![q] = @ \ {i}]
        /\ held' = [held EXCEPT ![w] = t] /\ dead' = dead
    BY <1>5 DEF ClaimTask
  <2>2. \A x \in Tasks : task'[x].queue = task[x].queue
    BY <1>t, <2>0, <2>1, AssignKeepsQueue
  <2>3. /\ \A p \in Queues : \A j \in pending'[p] : j \in pending[p] /\ j.task # t
        /\ \A x \in Tasks : IsPending(x)' => IsPending(x) /\ x # t
    BY <1>p, <2>0, <2>1, ClaimPlaces
  <2>4. IsPending(t) /\ ~ IsHeld(t) /\ ~ IsDead(t) /\ task[t].queue = q
    BY <1>p, <2>0 DEF IsPending, Apart, PendingOnce
  <2>5. \A v \in Workers : held'[v] = IF v = w THEN t ELSE held[v]
    BY <1>t, <2>1
  <2>6. PendingOnce'
    BY <1>p, <1>i, <2>2, <2>3 DEF PendingOnce
  <2>7. DeadOnce'
    BY <1>p, <1>d, <2>1, <2>2 DEF DeadOnce
  <2>8. HeldOnce'
    BY <1>p, <1>t, <2>0, <2>2, <2>4, <2>5 DEF HeldOnce, IsHeld
  <2>9. Apart'
    BY <1>p, <2>1, <2>3, <2>4, <2>5 DEF Apart, IsHeld, IsDead
  <2> QED BY <2>6, <2>7, <2>8, <2>9 DEF OnePlace
<1>6. ASSUME NEW w \in Workers, HandlerSucceeds(w)
      PROVE  OnePlace'
  <2>1. task' = task /\ pending' = pending /\ dead' = dead
    BY <1>6 DEF HandlerSucceeds, queueVars
  <2>2. \A v \in Workers : held'[v] = IF v = w THEN NoTask ELSE held[v]
    BY <1>6, <1>t DEF HandlerSucceeds, Release
  <2>3. PendingOnce' /\ DeadOnce' /\ HeldOnce'
    BY <1>p, <2>1, <2>2 DEF PendingOnce, DeadOnce, HeldOnce
  <2>4. Apart'
    BY <1>p, <2>1, <2>2, DeploymentAssumption DEF Apart, IsHeld, IsDead, IsPending
  <2> QED BY <2>3, <2>4 DEF OnePlace
<1>7. ASSUME NEW w \in Workers, Reschedule(w)
      PROVE  OnePlace'
  <2> DEFINE q == WorkerQueue(w)
             t == held[w]
             b == BackoffOf[SubOf[w]]
             at == now + RetryBackoff(b.base, b.max, task[t].attempts)
  <2>0. q \in Queues /\ t \in Tasks /\ t # NoTask
    BY <1>7, <1>t, WorkerQueueType DEF Reschedule, Release, Lifecycle
  <2>1. task' = [task EXCEPT ![t].runAt = at] /\ Push(q, t) /\ dead' = dead
    BY <1>7 DEF Reschedule
  <2>2. \A v \in Workers : held'[v] = IF v = w THEN NoTask ELSE held[v]
    BY <1>7, <1>t DEF Reschedule, Release
  <2> HIDE DEF at, b
  <2>3. \A x \in Tasks : task'[x].queue = task[x].queue
    BY <1>t, <2>0, <2>1, AssignKeepsQueue
  <2>4. /\ \A p \in Queues : \A j \in pending'[p] :
             j \in pending[p] \/ (p = q /\ j = [task |-> t, seq |-> seq[q] + 1])
        /\ \A x \in Tasks : IsPending(x)' <=> IsPending(x) \/ x = t
    BY <2>0, <2>1, PushPlaces
  <2>5. IsHeld(t) /\ ~ IsPending(t) /\ ~ IsDead(t) /\ task[t].queue = q
    BY <1>p, <2>0 DEF IsHeld, Apart, HeldOnce
  <2>6. PendingOnce'
    <3>1. \A p \in Queues : \A j \in pending[p] : j.task # t
      BY <2>5 DEF IsPending
    <3> QED BY <1>p, <1>i, <2>0, <2>3, <2>4, <2>5, <3>1 DEF PendingOnce
  <2>7. DeadOnce'
    BY <1>p, <1>d, <2>1, <2>3 DEF DeadOnce
  <2>8. HeldOnce'
    BY <1>p, <1>t, <2>2, <2>3 DEF HeldOnce
  <2>9. \A x \in Tasks : IsHeld(x)' => IsHeld(x) /\ x # t
    BY <1>p, <2>0, <2>2, DeploymentAssumption DEF IsHeld, HeldOnce
  <2>10. Apart'
    BY <1>p, <2>1, <2>4, <2>5, <2>9 DEF Apart, IsDead
  <2> QED BY <2>6, <2>7, <2>8, <2>10 DEF OnePlace
<1>8. ASSUME NEW w \in Workers, Bury(w)
      PROVE  OnePlace'
  <2> DEFINE q == WorkerQueue(w)
             t == held[w]
  <2>0. q \in Queues /\ t \in Tasks /\ t # NoTask
    BY <1>8, <1>t, WorkerQueueType DEF Bury, Release, Lifecycle
  <2>1. task' = [task EXCEPT ![t].diedAt = now] /\ AddDead(q, t) /\ pending' = pending
    BY <1>8 DEF Bury
  <2>2. \A v \in Workers : held'[v] = IF v = w THEN NoTask ELSE held[v]
    BY <1>8, <1>t DEF Bury, Release
  <2>3. \A x \in Tasks : task'[x].queue = task[x].queue
    BY <1>t, <2>0, <2>1, AssignKeepsQueue
  <2>4. \A p \in Queues : \A k \in DOMAIN dead'[p] :
           \/ k \in DOMAIN dead[p] /\ dead'[p][k] = dead[p][k]
           \/ p = q /\ k = Len(dead[q]) + 1 /\ dead'[p][k] = t
    BY <2>0, <2>1, AddDeadPlaces
  <2>5. IsHeld(t) /\ ~ IsPending(t) /\ ~ IsDead(t) /\ task[t].queue = q
    BY <1>p, <2>0 DEF IsHeld, Apart, HeldOnce
  <2>6. PendingOnce'
    BY <1>p, <1>i, <2>1, <2>3 DEF PendingOnce
  <2>7. DeadOnce'
    <3>1. \A p \in Queues : \A k \in DOMAIN dead[p] : dead[p][k] # t
      BY <2>5 DEF IsDead
    <3> QED BY <1>p, <1>d, <2>0, <2>3, <2>4, <2>5, <3>1 DEF DeadOnce
  <2>8. HeldOnce'
    BY <1>p, <1>t, <2>2, <2>3 DEF HeldOnce
  <2>9. \A x \in Tasks : IsHeld(x)' => IsHeld(x) /\ x # t
    BY <1>p, <2>0, <2>2, DeploymentAssumption DEF IsHeld, HeldOnce
  <2>10. \A x \in Tasks : IsDead(x)' => IsDead(x) \/ x = t
    BY <2>4 DEF IsDead
  <2>11. \A x \in Tasks : IsPending(x)' => IsPending(x)
    BY <2>1 DEF IsPending
  <2>12. Apart'
    BY <1>p, <2>5, <2>9, <2>10, <2>11 DEF Apart
  <2> QED BY <2>6, <2>7, <2>8, <2>12 DEF OnePlace
<1>9. ASSUME NEW s \in Subs, Consume(s) \/ Stop(s) \/ StopReturns(s) \/ CloseDone(s)
      PROVE  OnePlace'
  BY <1>1, <1>9 DEF Consume, Stop, StopReturns, CloseDone, queueVars, workerVars
<1>10. ASSUME NEW w \in Workers, NEW wait,
              CheckStop(w) \/ ClaimWait(w, wait) \/ StartTimer(w) \/ Wake(w)
       PROVE  OnePlace'
  BY <1>1, <1>10 DEF CheckStop, ClaimWait, StartTimer, Wake, queueVars
<1>11. CASE Tick \/ UNCHANGED vars
  BY <1>1, <1>11 DEF Tick, vars, queueVars, workerVars
<1> QED
  BY <1>2, <1>3, <1>4, <1>5, <1>6, <1>7, <1>8, <1>9, <1>10, <1>11
     DEF Next, CallerStep, WorkerStep, HandlerReturns

(* A task is never in two places: no interleaving of enqueues, claims,     *)
(* retries, requeues and deletions duplicates it, hands it to two workers  *)
(* or moves it to another queue, for any number of each.                   *)
THEOREM OnePlaceAlways == Spec => []OnePlace
<1>1. Init => OnePlace
  BY DEF Init, OnePlace, PendingOnce, DeadOnce, HeldOnce, Apart, IsPending, IsHeld, IsDead
<1> QED BY <1>1, TypeInit, TypeStep, OnePlaceStep, PTL DEF Spec

-----------------------------------------------------------------------------
(* Wakeups, the order of the dead, and the contract. *)

(* An identifier nobody has enqueued yet has no attempts.                  *)
Blank == \A t \in Tasks : task[t].queue = NoQueue => task[t].attempts = 0

(* What died did so in the past.                                           *)
DiedBefore == \A q \in Queues : \A k \in DOMAIN dead[q] : task[dead[q][k]].diedAt <= now

(* The inductive invariant.                                                *)
IInv == /\ TypeOK /\ Lifecycle /\ OnePlace
        /\ Blank /\ NoLostWakeup /\ DiedBefore /\ DeadOldestFirst

(* Assigning a field of a task: that field of that task, nothing else.     *)
LEMMA AssignFacts ==
    ASSUME task \in [Tasks -> TaskRecords], NEW t \in Tasks, NEW n \in Nat
    PROVE  /\ task' = [task EXCEPT ![t].attempts = n] =>
                \A x \in Tasks : /\ x # t => task'[x] = task[x]
                                 /\ task'[x].queue = task[x].queue
                                 /\ task'[x].runAt = task[x].runAt
                                 /\ task'[x].diedAt = task[x].diedAt
                                 /\ task'[x].maxRetries = task[x].maxRetries
                                 /\ task'[x].attempts = IF x = t THEN n ELSE task[x].attempts
           /\ task' = [task EXCEPT ![t].runAt = n] =>
                \A x \in Tasks : /\ x # t => task'[x] = task[x]
                                 /\ task'[x].queue = task[x].queue
                                 /\ task'[x].diedAt = task[x].diedAt
                                 /\ task'[x].maxRetries = task[x].maxRetries
                                 /\ task'[x].attempts = task[x].attempts
           /\ task' = [task EXCEPT ![t].diedAt = n] =>
                \A x \in Tasks : /\ x # t => task'[x] = task[x]
                                 /\ task'[x].queue = task[x].queue
                                 /\ task'[x].runAt = task[x].runAt
                                 /\ task'[x].maxRetries = task[x].maxRetries
                                 /\ task'[x].attempts = task[x].attempts
                                 /\ x = t => task'[x].diedAt = n
           /\ task' = [task EXCEPT ![t] = Revived(t)] =>
                \A x \in Tasks : /\ x # t => task'[x] = task[x]
                                 /\ task'[x].queue = task[x].queue
                                 /\ task'[x].maxRetries = task[x].maxRetries
                                 /\ task'[x].attempts = IF x = t THEN 0 ELSE task[x].attempts
<1>1. task[t] \in TaskRecords
  OBVIOUS
<1> DEFINE a == [task[t] EXCEPT !.attempts = n]
           r == [task[t] EXCEPT !.runAt = n]
           d == [task[t] EXCEPT !.diedAt = n]
<1>2. /\ a.queue = task[t].queue /\ a.runAt = task[t].runAt /\ a.diedAt = task[t].diedAt
      /\ a.maxRetries = task[t].maxRetries /\ a.attempts = n
  BY <1>1 DEF TaskRecords
<1>3. /\ r.queue = task[t].queue /\ r.diedAt = task[t].diedAt
      /\ r.maxRetries = task[t].maxRetries /\ r.attempts = task[t].attempts
  BY <1>1 DEF TaskRecords
<1>4. /\ d.queue = task[t].queue /\ d.runAt = task[t].runAt /\ d.diedAt = n
      /\ d.maxRetries = task[t].maxRetries /\ d.attempts = task[t].attempts
  BY <1>1 DEF TaskRecords
<1>5. /\ Revived(t).queue = task[t].queue /\ Revived(t).maxRetries = task[t].maxRetries
      /\ Revived(t).attempts = 0
  BY <1>1 DEF TaskRecords, Revived
<1>6. /\ [task EXCEPT ![t].attempts = n] = [task EXCEPT ![t] = a]
      /\ [task EXCEPT ![t].runAt = n] = [task EXCEPT ![t] = r]
      /\ [task EXCEPT ![t].diedAt = n] = [task EXCEPT ![t] = d]
  OBVIOUS
<1> HIDE DEF a, r, d
<1> QED BY <1>2, <1>3, <1>4, <1>5, <1>6

(* Enqueue writes a task that is nowhere yet.                              *)
LEMMA EnqueueFacts ==
    ASSUME TypeOK, OnePlace, NEW q \in Queues, NEW t \in Tasks, NEW o \in EnqueueInputs,
           NEW at \in 1 .. now, Enqueue(q, t, o, at)
    PROVE  /\ \A x \in Tasks : x # t => task'[x] = task[x]
           /\ task'[t].queue = q /\ task'[t].attempts = 0
           /\ task'[t].maxRetries = NewEnqueueOptions(o).maxRetries
           /\ task[t].queue = NoQueue
           /\ ~ IsPending(t) /\ ~ IsHeld(t) /\ ~ IsDead(t)
           /\ held' = held /\ dead' = dead /\ Push(q, t) /\ Broadcast(q)
           /\ now' = now /\ pc' = pc /\ timer' = timer
<1>1. task[t].queue = NoQueue /\ NoQueue \notin Queues /\ t # NoTask
  BY DeploymentAssumption DEF Enqueue
<1>2. /\ \A x \in Tasks : x # t => task'[x] = task[x]
      /\ task'[t].queue = q /\ task'[t].attempts = 0
      /\ task'[t].maxRetries = NewEnqueueOptions(o).maxRetries
  BY DEF Enqueue, TypeOK
<1>3. ~ IsPending(t)
  BY <1>1 DEF IsPending, OnePlace, PendingOnce
<1>4. ~ IsDead(t)
  BY <1>1 DEF IsDead, OnePlace, DeadOnce
<1>5. ~ IsHeld(t)
  BY <1>1, WorkerQueueType DEF IsHeld, OnePlace, HeldOnce
<1> QED BY <1>1, <1>2, <1>3, <1>4, <1>5 DEF Enqueue

(* RequeueDeadTask moves a dead task, and only that one.                   *)
LEMMA RequeueFacts ==
    ASSUME TypeOK, OnePlace, NEW q \in Queues, NEW i \in DOMAIN dead[q], RequeueDeadTask(q, i)
    PROVE  LET t == dead[q][i] IN
           /\ t \in Tasks /\ task[t].queue = q
           /\ task' = [task EXCEPT ![t] = Revived(t)]
           /\ IsDead(t) /\ ~ IsPending(t) /\ ~ IsHeld(t)
           /\ held' = held /\ Push(q, t) /\ TakeDead(q, i) /\ Broadcast(q)
           /\ now' = now /\ pc' = pc /\ timer' = timer
<1> DEFINE t == dead[q][i]
<1>1. t \in Tasks
  BY DEF TypeOK
<1>2. IsDead(t)
  BY DEF IsDead
<1>3. ~ IsPending(t) /\ ~ IsHeld(t) /\ task[t].queue = q
  BY <1>1, <1>2 DEF OnePlace, Apart, DeadOnce
<1> QED BY <1>1, <1>2, <1>3 DEF RequeueDeadTask

(* A claim takes the first item of a heap, which is due.                   *)
LEMMA ClaimFacts ==
    ASSUME TypeOK, Lifecycle, OnePlace, NEW w \in Workers,
           NEW i \in pending[WorkerQueue(w)], ClaimTask(w, i)
    PROVE  /\ i.task \in Tasks /\ i.task # NoTask /\ held[w] = NoTask
           /\ task[i.task].queue = WorkerQueue(w)
           /\ task[i.task].attempts + 1 \in Nat
           /\ task' = [task EXCEPT ![i.task].attempts = task[i.task].attempts + 1]
           /\ pending' = [pending EXCEPT ![WorkerQueue(w)] = @ \ {i}]
           /\ IsPending(i.task) /\ ~ IsHeld(i.task) /\ ~ IsDead(i.task)
           /\ \A v \in Workers : held'[v] = IF v = w THEN i.task ELSE held[v]
           /\ \A v \in Workers : pc'[v] = IF v = w THEN "handle" ELSE pc[v]
           /\ now' = now /\ dead' = dead /\ timer' = timer /\ woken' = woken
<1>0. WorkerQueue(w) \in Queues
  BY WorkerQueueType
<1>1. i.task \in Tasks /\ i.task # NoTask
  BY <1>0, DeploymentAssumption DEF TypeOK, Items
<1>2. task[i.task].attempts + 1 \in Nat
  BY <1>1 DEF TypeOK, TaskRecords
<1>3. IsPending(i.task)
  BY <1>0 DEF IsPending
<1>4. ~ IsHeld(i.task) /\ ~ IsDead(i.task) /\ task[i.task].queue = WorkerQueue(w)
  BY <1>0, <1>1, <1>3 DEF OnePlace, Apart, PendingOnce
<1>5. held[w] = NoTask
  BY DEF ClaimTask, Lifecycle
<1> QED BY <1>1, <1>2, <1>3, <1>4, <1>5 DEF ClaimTask, TypeOK

(* A handler that returns lets go of a task nobody else has.               *)
LEMMA ReleaseFacts ==
    ASSUME TypeOK, Lifecycle, OnePlace, NEW w \in Workers, Release(w)
    PROVE  /\ held[w] \in Tasks /\ held[w] # NoTask
           /\ task[held[w]].queue = WorkerQueue(w) /\ WorkerQueue(w) \in Queues
           /\ IsHeld(held[w]) /\ ~ IsPending(held[w]) /\ ~ IsDead(held[w])
           /\ \A v \in Workers : held'[v] = IF v = w THEN NoTask ELSE held[v]
           /\ \A v \in Workers : pc'[v] = IF v = w THEN "top" ELSE pc[v]
           /\ \A x \in Tasks : IsHeld(x)' <=> IsHeld(x) /\ x # held[w]
           /\ now' = now /\ timer' = timer
<1> DEFINE t == held[w]
<1>1. t \in Tasks /\ t # NoTask /\ WorkerQueue(w) \in Queues
  BY WorkerQueueType DEF Release, Lifecycle, TypeOK
<1>2. IsHeld(t)
  BY DEF IsHeld
<1>3. ~ IsPending(t) /\ ~ IsDead(t) /\ task[t].queue = WorkerQueue(w)
  BY <1>1, <1>2 DEF OnePlace, Apart, HeldOnce
<1>4. \A v \in Workers : held'[v] = IF v = w THEN NoTask ELSE held[v]
  BY DEF Release, TypeOK
<1>5. \A v \in Workers : held[v] = t => v = w
  BY <1>1 DEF OnePlace, HeldOnce
<1>6. \A x \in Tasks : IsHeld(x)' <=> IsHeld(x) /\ x # t
  BY <1>4, <1>5, DeploymentAssumption DEF IsHeld
<1>7. \A v \in Workers : pc'[v] = IF v = w THEN "top" ELSE pc[v]
  BY DEF Release, TypeOK
<1> QED BY <1>1, <1>2, <1>3, <1>4, <1>6, <1>7 DEF Release

(* A retry is pushed for the time the backoff gives, a death is appended.  *)
LEMMA RescheduleFacts ==
    ASSUME TypeOK, Lifecycle, OnePlace, NEW w \in Workers, Reschedule(w)
    PROVE  \E at \in Nat : task' = [task EXCEPT ![held[w]].runAt = at]
<1> DEFINE t == held[w]
           b == BackoffOf[SubOf[w]]
           at == now + RetryBackoff(b.base, b.max, task[t].attempts)
<1>1. t \in Tasks
  BY ReleaseFacts DEF Reschedule
<1>2. b.base \in Int /\ b.max \in Int /\ task[t].attempts \in Int
  BY <1>1, DeploymentAssumption DEF TypeOK, TaskRecords
<1>3. at \in Nat
  BY <1>2, RetryBackoffBounded DEF TypeOK
<1>4. task' = [task EXCEPT ![t].runAt = at]
  BY DEF Reschedule
<1> HIDE DEF at
<1> QED BY <1>3, <1>4

-----------------------------------------------------------------------------
(* The steps that leave tasks, heaps, lists and hands alone.               *)
Elsewhere == UNCHANGED <<task, pending, dead, held, seq>>

(* Every step is one of the eight that move or write a task, or leaves     *)
(* them all alone.                                                         *)
LEMMA StepCases ==
    ASSUME [Next]_vars
    PROVE  \/ \E q \in Queues, t \in Tasks, o \in EnqueueInputs, at \in 1 .. now : Enqueue(q, t, o, at)
           \/ \E q \in Queues : \E i \in DOMAIN dead[q] : RequeueDeadTask(q, i)
           \/ \E q \in Queues : \E i \in DOMAIN dead[q] : DeleteDeadTask(q, i)
           \/ \E w \in Workers : \E i \in pending[WorkerQueue(w)] : ClaimTask(w, i)
           \/ \E w \in Workers : HandlerSucceeds(w)
           \/ \E w \in Workers : Reschedule(w)
           \/ \E w \in Workers : Bury(w)
           \/ /\ Elsewhere
              /\ \/ \E s \in Subs : Consume(s) \/ Stop(s) \/ StopReturns(s) \/ CloseDone(s)
                 \/ \E w \in Workers : CheckStop(w) \/ StartTimer(w) \/ Wake(w)
                 \/ \E w \in Workers : \E wait : ClaimWait(w, wait)
                 \/ Tick
                 \/ UNCHANGED vars
<1>1. ASSUME NEW s \in Subs, Consume(s) \/ Stop(s) \/ StopReturns(s) \/ CloseDone(s)
      PROVE  Elsewhere
  BY <1>1 DEF Elsewhere, Consume, Stop, StopReturns, CloseDone, queueVars, workerVars
<1>2. ASSUME NEW w \in Workers, CheckStop(w) \/ StartTimer(w) \/ Wake(w)
      PROVE  Elsewhere
  BY <1>2 DEF Elsewhere, CheckStop, StartTimer, Wake, queueVars
<1>3. ASSUME NEW w \in Workers, NEW wait, ClaimWait(w, wait)
      PROVE  Elsewhere
  BY <1>3 DEF Elsewhere, ClaimWait, queueVars
<1>4. ASSUME Tick \/ UNCHANGED vars
      PROVE  Elsewhere
  BY <1>4 DEF Elsewhere, Tick, vars, queueVars, workerVars
<1> QED BY <1>1, <1>2, <1>3, <1>4 DEF Next, CallerStep, WorkerStep, HandlerReturns

-----------------------------------------------------------------------------
(* Only Enqueue gives an identifier its queue, and only a claim of a       *)
(* pending task counts an attempt.                                         *)
LEMMA BlankStep ==
    ASSUME TypeOK, Lifecycle, OnePlace, Blank, [Next]_vars
    PROVE  Blank'
<1>t. task \in [Tasks -> TaskRecords] /\ now \in Nat
  BY DEF TypeOK
<1>1. ASSUME NEW q \in Queues, NEW t \in Tasks, NEW o \in EnqueueInputs, NEW at \in 1 .. now,
             Enqueue(q, t, o, at)
      PROVE  Blank'
  BY <1>1, EnqueueFacts DEF Blank
<1>2. ASSUME NEW q \in Queues, NEW i \in DOMAIN dead[q], RequeueDeadTask(q, i)
      PROVE  Blank'
  BY <1>2, <1>t, RequeueFacts, AssignFacts DEF Blank
<1>3. ASSUME NEW w \in Workers, NEW i \in pending[WorkerQueue(w)], ClaimTask(w, i)
      PROVE  Blank'
  <2>1. /\ i.task \in Tasks /\ task[i.task].attempts + 1 \in Nat
        /\ task[i.task].queue \in Queues
        /\ task' = [task EXCEPT ![i.task].attempts = task[i.task].attempts + 1]
    BY <1>3, ClaimFacts, WorkerQueueType
  <2> QED BY <1>t, <2>1, AssignFacts, DeploymentAssumption DEF Blank
<1>4. ASSUME NEW w \in Workers, Reschedule(w)
      PROVE  Blank'
  <2>1. PICK at \in Nat : task' = [task EXCEPT ![held[w]].runAt = at]
    BY <1>4, RescheduleFacts
  <2>2. held[w] \in Tasks
    BY <1>4, ReleaseFacts DEF Reschedule
  <2> QED BY <1>t, <2>1, <2>2, AssignFacts DEF Blank
<1>5. ASSUME NEW w \in Workers, Bury(w)
      PROVE  Blank'
  <2>1. held[w] \in Tasks
    BY <1>5, ReleaseFacts DEF Bury
  <2>2. task' = [task EXCEPT ![held[w]].diedAt = now]
    BY <1>5 DEF Bury
  <2> QED BY <1>t, <2>1, <2>2, AssignFacts DEF Blank
<1>6. ASSUME task' = task
      PROVE  Blank'
  BY <1>6 DEF Blank
<1> QED BY <1>1, <1>2, <1>3, <1>4, <1>5, <1>6, StepCases
        DEF DeleteDeadTask, HandlerSucceeds, queueVars, Elsewhere

-----------------------------------------------------------------------------
(* The instant by which worker w, asleep or about to be, is up: what       *)
(* NoLostWakeup says of one worker and one item.                           *)
UpInTime(w, i) ==
    ~ woken[w] => /\ pc[w] = "wait" => timer[w] <= task[i.task].runAt
                  /\ pc[w] = "arm"  => now + timer[w] <= task[i.task].runAt

(* A push with its broadcast: whoever sleeps on that queue is woken, and   *)
(* the items of the other queues are not the pushed task's.                *)
LEMMA PushWakes ==
    ASSUME TypeOK, NoLostWakeup, NEW q \in Queues, NEW t \in Tasks, ~ IsPending(t),
           Push(q, t), Broadcast(q), \A x \in Tasks : x # t => task'[x] = task[x],
           now' = now, timer' = timer,
           \A w \in Workers : pc'[w] = pc[w] \/ pc'[w] = "top"
    PROVE  NoLostWakeup'
<1> SUFFICES ASSUME NEW w \in Workers, NEW i \in pending'[WorkerQueue(w)]
             PROVE  UpInTime(w, i)'
  BY DEF NoLostWakeup, UpInTime
<1>1. WorkerQueue(w) \in Queues
  BY WorkerQueueType
<1>2. CASE WorkerQueue(w) = q
  <2>1. woken'[w] = (woken[w] \/ pc[w] \in {"arm", "wait"})
    BY <1>2 DEF Broadcast
  <2> QED BY <2>1 DEF UpInTime
<1>3. CASE WorkerQueue(w) # q
  <2>1. i \in pending[WorkerQueue(w)]
    BY <1>1, <1>3, PushPlaces
  <2>2. i.task \in Tasks /\ i.task # t
    BY <1>1, <2>1 DEF IsPending, TypeOK, Items
  <2>3. woken'[w] = woken[w]
    BY <1>3 DEF Broadcast, TypeOK
  <2>4. UpInTime(w, i)
    BY <2>1 DEF NoLostWakeup, UpInTime
  <2> QED BY <2>2, <2>3, <2>4 DEF UpInTime
<1> QED BY <1>2, <1>3

(* Steps that push nothing: the items left were there before and keep      *)
(* their run times, and no worker falls asleep.                            *)
LEMMA NoPushNoSleep ==
    ASSUME TypeOK, NoLostWakeup,
           \A p \in Queues : pending'[p] \subseteq pending[p],
           \A x \in Tasks : task'[x].runAt = task[x].runAt,
           woken' = woken, timer' = timer,
           now' = now \/ \A w \in Workers : pc[w] # "arm",
           \A w \in Workers : pc'[w] = pc[w] \/ pc'[w] \notin {"arm", "wait"}
    PROVE  NoLostWakeup'
<1> SUFFICES ASSUME NEW w \in Workers, NEW i \in pending'[WorkerQueue(w)]
             PROVE  UpInTime(w, i)'
  BY DEF NoLostWakeup, UpInTime
<1>1. WorkerQueue(w) \in Queues
  BY WorkerQueueType
<1>2. i \in pending[WorkerQueue(w)] /\ i.task \in Tasks
  BY <1>1 DEF TypeOK, Items
<1>3. UpInTime(w, i)
  BY <1>2 DEF NoLostWakeup, UpInTime
<1> QED BY <1>2, <1>3 DEF UpInTime

(* The capture of the notify channel under the lock that decides to wait,  *)
(* and the broadcast under the lock of every push, leave no gap.           *)
LEMMA WakeupStep ==
    ASSUME TypeOK, Lifecycle, OnePlace, NoLostWakeup, [Next]_vars
    PROVE  NoLostWakeup'
<1>t. /\ task \in [Tasks -> TaskRecords] /\ now \in Nat /\ pc \in [Workers -> PCs]
      /\ timer \in [Workers -> Nat] /\ woken \in [Workers -> BOOLEAN]
      /\ pending \in [Queues -> SUBSET Items]
  BY DEF TypeOK
<1>1. ASSUME NEW q \in Queues, NEW t \in Tasks, NEW o \in EnqueueInputs, NEW at \in 1 .. now,
             Enqueue(q, t, o, at)
      PROVE  NoLostWakeup'
  BY <1>1, EnqueueFacts, PushWakes
<1>2. ASSUME NEW q \in Queues, NEW i \in DOMAIN dead[q], RequeueDeadTask(q, i)
      PROVE  NoLostWakeup'
  <2>1. \A x \in Tasks : x # dead[q][i] => task'[x] = task[x]
    BY <1>2, <1>t, RequeueFacts, AssignFacts
  <2> QED BY <1>2, <2>1, RequeueFacts, PushWakes
<1>3. ASSUME NEW q \in Queues, NEW i \in DOMAIN dead[q], DeleteDeadTask(q, i)
      PROVE  NoLostWakeup'
  BY <1>3, NoPushNoSleep DEF DeleteDeadTask, workerVars
<1>4. ASSUME NEW w \in Workers, NEW i \in pending[WorkerQueue(w)], ClaimTask(w, i)
      PROVE  NoLostWakeup'
  <2>0. /\ i.task \in Tasks /\ task[i.task].attempts + 1 \in Nat
        /\ task' = [task EXCEPT ![i.task].attempts = task[i.task].attempts + 1]
        /\ pending' = [pending EXCEPT ![WorkerQueue(w)] = @ \ {i}]
        /\ now' = now /\ timer' = timer /\ woken' = woken
        /\ \A v \in Workers : pc'[v] = IF v = w THEN "handle" ELSE pc[v]
    BY <1>4, ClaimFacts
  <2>1. \A x \in Tasks : task'[x].runAt = task[x].runAt
    BY <1>t, <2>0, AssignFacts
  <2>2. \A p \in Queues : pending'[p] \subseteq pending[p]
    BY <1>t, <2>0
  <2> QED BY <2>0, <2>1, <2>2, NoPushNoSleep
<1>5. ASSUME NEW w \in Workers, HandlerSucceeds(w)
      PROVE  NoLostWakeup'
  <2>1. Release(w) /\ UNCHANGED <<task, pending, woken>>
    BY <1>5 DEF HandlerSucceeds, queueVars
  <2> QED BY <2>1, ReleaseFacts, NoPushNoSleep
<1>6. ASSUME NEW w \in Workers, Reschedule(w)
      PROVE  NoLostWakeup'
  <2>1. PICK at \in Nat : task' = [task EXCEPT ![held[w]].runAt = at]
    BY <1>6, RescheduleFacts
  <2>2. Release(w) /\ Push(WorkerQueue(w), held[w]) /\ Broadcast(WorkerQueue(w))
    BY <1>6 DEF Reschedule
  <2>3. \A x \in Tasks : x # held[w] => task'[x] = task[x]
    BY <1>t, <2>1, <2>2, ReleaseFacts, AssignFacts
  <2> QED BY <2>2, <2>3, ReleaseFacts, PushWakes
<1>7. ASSUME NEW w \in Workers, Bury(w)
      PROVE  NoLostWakeup'
  <2>1. Release(w) /\ UNCHANGED <<pending, woken>> /\ task' = [task EXCEPT ![held[w]].diedAt = now]
    BY <1>7 DEF Bury
  <2>2. \A x \in Tasks : task'[x].runAt = task[x].runAt
    BY <1>t, <2>1, ReleaseFacts, AssignFacts
  <2> QED BY <2>1, <2>2, ReleaseFacts, NoPushNoSleep
<1>8. ASSUME Elsewhere, NEW s \in Subs, Consume(s) \/ Stop(s) \/ StopReturns(s) \/ CloseDone(s)
      PROVE  NoLostWakeup'
  BY <1>8, <1>t, NoPushNoSleep DEF Elsewhere, Consume, Stop, StopReturns, CloseDone, workerVars
<1>9. ASSUME Elsewhere, NEW w \in Workers, CheckStop(w)
      PROVE  NoLostWakeup'
  BY <1>9, <1>t, NoPushNoSleep DEF Elsewhere, CheckStop
<1>10. ASSUME Elsewhere, NEW w \in Workers, NEW wait, ClaimWait(w, wait)
      PROVE  NoLostWakeup'
  <2> SUFFICES ASSUME NEW v \in Workers, NEW j \in pending'[WorkerQueue(v)]
               PROVE  UpInTime(v, j)'
    BY DEF NoLostWakeup, UpInTime
  <2>0. j \in pending[WorkerQueue(v)] /\ task' = task /\ now' = now
    BY <1>10 DEF ClaimWait, Elsewhere
  <2>1. CASE v = w
    <3>1. pc'[w] = "arm" /\ timer'[w] = wait
      BY <1>10, <1>t DEF ClaimWait
    <3>2. PICK i \in pending[WorkerQueue(w)] : /\ IsFirst(WorkerQueue(w), i)
                                               /\ wait = task[i.task].runAt - now
      BY <1>10, <2>0, <2>1 DEF ClaimWait
    <3>3. WorkerQueue(w) \in Queues
      BY WorkerQueueType
    <3>4. i.task \in Tasks /\ j.task \in Tasks
      BY <1>t, <2>0, <2>1, <3>3 DEF Items
    <3>5. task[i.task].runAt \in Nat /\ task[j.task].runAt \in Nat
      BY <1>t, <3>4 DEF TaskRecords
    <3>6. task[i.task].runAt <= task[j.task].runAt
      BY <2>0, <2>1, <3>2, <3>5 DEF IsFirst, Less
    <3> QED BY <1>t, <2>0, <2>1, <3>1, <3>2, <3>5, <3>6 DEF UpInTime
  <2>2. CASE v # w
    <3>1. UpInTime(v, j)
      BY <2>0 DEF NoLostWakeup, UpInTime
    <3> QED BY <1>10, <1>t, <2>0, <2>2, <3>1 DEF UpInTime, ClaimWait
  <2> QED BY <2>1, <2>2
<1>11. ASSUME Elsewhere, NEW w \in Workers, StartTimer(w) \/ Wake(w)
      PROVE  NoLostWakeup'
  <2> SUFFICES ASSUME NEW v \in Workers, NEW j \in pending'[WorkerQueue(v)]
               PROVE  UpInTime(v, j)'
    BY DEF NoLostWakeup, UpInTime
  <2>1. UpInTime(v, j) /\ task' = task /\ now' = now
    BY <1>11 DEF NoLostWakeup, UpInTime, Elsewhere, StartTimer, Wake
  <2>2. CASE StartTimer(w)
    BY <1>t, <2>1, <2>2 DEF UpInTime, StartTimer
  <2>3. CASE Wake(w)
    BY <1>t, <2>1, <2>3 DEF UpInTime, Wake
  <2> QED BY <1>11, <2>2, <2>3
<1>12. CASE Elsewhere /\ (Tick \/ UNCHANGED vars)
  BY <1>12, <1>t, NoPushNoSleep DEF Elsewhere, Tick, vars, workerVars
<1> QED BY <1>1, <1>2, <1>3, <1>4, <1>5, <1>6, <1>7, <1>8, <1>9, <1>10, <1>11, <1>12, StepCases

-----------------------------------------------------------------------------
(* Steps that leave the lists and the times in them alone.                 *)
LEMMA SameOrder ==
    ASSUME TypeOK, DiedBefore, DeadOldestFirst, dead' = dead, now' \in Nat, now <= now',
           \A x \in Tasks : IsDead(x) => task'[x].diedAt = task[x].diedAt
    PROVE  DiedBefore' /\ DeadOldestFirst'
<1>1. \A q \in Queues : \A k \in DOMAIN dead[q] :
         /\ dead[q][k] \in Tasks /\ task[dead[q][k]].diedAt \in Nat
         /\ task'[dead[q][k]].diedAt = task[dead[q][k]].diedAt
  BY DEF TypeOK, TaskRecords, IsDead
<1>2. now \in Nat
  BY DEF TypeOK
<1> QED BY <1>1, <1>2 DEF DiedBefore, DeadOldestFirst

(* Taking one entry out, wherever it is.                                   *)
LEMMA TakeOrder ==
    ASSUME TypeOK, DeadOnce, DiedBefore, DeadOldestFirst,
           NEW q \in Queues, NEW i \in DOMAIN dead[q], TakeDead(q, i), now' = now,
           \A x \in Tasks : x # dead[q][i] => task'[x].diedAt = task[x].diedAt
    PROVE  DiedBefore' /\ DeadOldestFirst'
<1>1. ASSUME NEW p \in Queues, NEW k \in DOMAIN dead'[p]
      PROVE  \E m \in DOMAIN dead[p] :
                /\ m = IF p = q /\ k >= i THEN k + 1 ELSE k
                /\ k \in Int /\ m \in Int /\ i \in Int
                /\ task'[dead'[p][k]].diedAt = task[dead[p][m]].diedAt
  <2>1. PICK m \in DOMAIN dead[p] : /\ dead'[p][k] = dead[p][m] /\ (p = q => m # i)
                                    /\ m = IF p = q /\ k >= i THEN k + 1 ELSE k
    BY TakeDeadPlaces
  <2>2. dead[p][m] \in Tasks
    BY DEF TypeOK
  <2>3. dead[p][m] # dead[q][i]
    BY <2>1 DEF DeadOnce
  <2>4. k \in Int /\ m \in Int /\ i \in Int
    <3>1. dead'[p] \in Seq(Tasks)
      BY RemoveAtFacts DEF TakeDead, TypeOK
    <3> QED BY <3>1 DEF TypeOK
  <2> QED BY <2>1, <2>2, <2>3, <2>4
<1>2. DiedBefore'
  BY <1>1 DEF DiedBefore
<1>3. ASSUME NEW p \in Queues, NEW k \in DOMAIN dead'[p], NEW l \in DOMAIN dead'[p], k < l
      PROVE  task'[dead'[p][k]].diedAt <= task'[dead'[p][l]].diedAt
  <2>1. PICK m \in DOMAIN dead[p] : /\ m = IF p = q /\ k >= i THEN k + 1 ELSE k
                                    /\ k \in Int /\ m \in Int /\ i \in Int
                                    /\ task'[dead'[p][k]].diedAt = task[dead[p][m]].diedAt
    BY <1>1
  <2>2. PICK n \in DOMAIN dead[p] : /\ n = IF p = q /\ l >= i THEN l + 1 ELSE l
                                    /\ l \in Int /\ n \in Int
                                    /\ task'[dead'[p][l]].diedAt = task[dead[p][n]].diedAt
    BY <1>1
  <2>3. m < n
    BY <1>3, <2>1, <2>2
  <2> QED BY <2>1, <2>2, <2>3 DEF DeadOldestFirst
<1> QED BY <1>2, <1>3 DEF DeadOldestFirst

(* A task dies now, later than all that died before, and goes to the end.  *)
LEMMA BuryOrder ==
    ASSUME TypeOK, Lifecycle, OnePlace, DiedBefore, DeadOldestFirst, NEW w \in Workers, Bury(w)
    PROVE  DiedBefore' /\ DeadOldestFirst'
<1> DEFINE q == WorkerQueue(w)
           t == held[w]
<1>1. /\ Release(w) /\ task' = [task EXCEPT ![t].diedAt = now] /\ AddDead(q, t)
  BY DEF Bury
<1>2. q \in Queues /\ t \in Tasks /\ ~ IsDead(t) /\ now' = now
  BY <1>1, ReleaseFacts
<1>3. now \in Nat /\ task \in [Tasks -> TaskRecords] /\ dead \in [Queues -> Seq(Tasks)]
  BY DEF TypeOK
<1>4. task'[t].diedAt = now /\ \A x \in Tasks : x # t => task'[x] = task[x]
  BY <1>1, <1>2, <1>3, AssignFacts
<1>5. \A p \in Queues : \A k \in DOMAIN dead'[p] :
         \/ k \in DOMAIN dead[p] /\ dead'[p][k] = dead[p][k]
         \/ p = q /\ k = Len(dead[q]) + 1 /\ dead'[p][k] = t
  BY <1>1, <1>2, AddDeadPlaces
<1>6. \A p \in Queues : \A k \in DOMAIN dead[p] :
         /\ dead[p][k] \in Tasks /\ dead[p][k] # t /\ task[dead[p][k]].diedAt \in Nat
         /\ task[dead[p][k]].diedAt <= now
         /\ k \in 1 .. Len(dead[p])
  <2>1. \A p \in Queues : \A k \in DOMAIN dead[p] : dead[p][k] \in Tasks /\ k \in 1 .. Len(dead[p])
    BY <1>3
  <2>2. \A x \in Tasks : task[x].diedAt \in Nat
    BY <1>3 DEF TaskRecords
  <2>3. \A p \in Queues : \A k \in DOMAIN dead[p] : dead[p][k] # t
    BY <1>2 DEF IsDead
  <2> QED BY <2>1, <2>2, <2>3 DEF DiedBefore
<1> HIDE DEF t, q
<1>7. DiedBefore'
  BY <1>2, <1>3, <1>4, <1>5, <1>6 DEF DiedBefore
<1>8. ASSUME NEW p \in Queues, NEW k \in DOMAIN dead'[p], NEW l \in DOMAIN dead'[p], k < l
      PROVE  task'[dead'[p][k]].diedAt <= task'[dead'[p][l]].diedAt
  <2>1. CASE l \in DOMAIN dead[p] /\ dead'[p][l] = dead[p][l]
    <3>1. Len(dead[p]) \in Nat
      BY <1>3
    <3>2. k \in DOMAIN dead[p] /\ dead'[p][k] = dead[p][k]
      BY <1>5, <1>6, <1>8, <2>1, <3>1
    <3> QED BY <1>4, <1>6, <1>8, <2>1, <3>2 DEF DeadOldestFirst
  <2>2. CASE p = q /\ l = Len(dead[q]) + 1 /\ dead'[p][l] = t
    <3>1. k \in DOMAIN dead[p] /\ dead'[p][k] = dead[p][k]
      BY <1>3, <1>5, <1>8, <2>2
    <3> QED BY <1>4, <1>6, <2>2, <3>1
  <2> QED BY <1>5, <2>1, <2>2
<1> QED BY <1>7, <1>8 DEF DeadOldestFirst

(* The lists stay in the order of DiedAt.                                  *)
LEMMA DeadOrderStep ==
    ASSUME TypeOK, Lifecycle, OnePlace, DiedBefore, DeadOldestFirst, [Next]_vars
    PROVE  DiedBefore' /\ DeadOldestFirst'
<1>t. task \in [Tasks -> TaskRecords] /\ now \in Nat /\ DeadOnce
  BY DEF TypeOK, OnePlace
<1>1. ASSUME NEW q \in Queues, NEW t \in Tasks, NEW o \in EnqueueInputs, NEW at \in 1 .. now,
             Enqueue(q, t, o, at)
      PROVE  DiedBefore' /\ DeadOldestFirst'
  <2>1. /\ \A x \in Tasks : IsDead(x) => task'[x] = task[x]
        /\ dead' = dead /\ now' = now
    BY <1>1, EnqueueFacts
  <2> QED BY <1>t, <2>1, SameOrder
<1>2. ASSUME NEW q \in Queues, NEW i \in DOMAIN dead[q], RequeueDeadTask(q, i)
      PROVE  DiedBefore' /\ DeadOldestFirst'
  <2>1. \A x \in Tasks : x # dead[q][i] => task'[x] = task[x]
    BY <1>2, <1>t, RequeueFacts, AssignFacts
  <2> QED BY <1>2, <1>t, <2>1, RequeueFacts, TakeOrder
<1>3. ASSUME NEW q \in Queues, NEW i \in DOMAIN dead[q], DeleteDeadTask(q, i)
      PROVE  DiedBefore' /\ DeadOldestFirst'
  BY <1>3, <1>t, TakeOrder DEF DeleteDeadTask
<1>4. ASSUME NEW w \in Workers, NEW i \in pending[WorkerQueue(w)], ClaimTask(w, i)
      PROVE  DiedBefore' /\ DeadOldestFirst'
  <2>0. /\ i.task \in Tasks /\ task[i.task].attempts + 1 \in Nat
        /\ task' = [task EXCEPT ![i.task].attempts = task[i.task].attempts + 1]
        /\ now' = now /\ dead' = dead
    BY <1>4, ClaimFacts
  <2>1. \A x \in Tasks : task'[x].diedAt = task[x].diedAt
    BY <1>t, <2>0, AssignFacts
  <2> QED BY <1>t, <2>0, <2>1, SameOrder
<1>5. ASSUME NEW w \in Workers, HandlerSucceeds(w)
      PROVE  DiedBefore' /\ DeadOldestFirst'
  BY <1>5, <1>t, SameOrder DEF HandlerSucceeds, Release, queueVars
<1>6. ASSUME NEW w \in Workers, Reschedule(w)
      PROVE  DiedBefore' /\ DeadOldestFirst'
  <2>1. PICK at \in Nat : task' = [task EXCEPT ![held[w]].runAt = at]
    BY <1>6, RescheduleFacts
  <2>2. Release(w) /\ dead' = dead
    BY <1>6 DEF Reschedule
  <2>3. \A x \in Tasks : task'[x].diedAt = task[x].diedAt
    BY <1>t, <2>1, <2>2, ReleaseFacts, AssignFacts
  <2> QED BY <1>t, <2>2, <2>3, ReleaseFacts, SameOrder
<1>7. ASSUME NEW w \in Workers, Bury(w)
      PROVE  DiedBefore' /\ DeadOldestFirst'
  BY <1>7, BuryOrder
<1>8. ASSUME Elsewhere, now' = now \/ now' = now + 1
      PROVE  DiedBefore' /\ DeadOldestFirst'
  BY <1>8, <1>t, SameOrder DEF Elsewhere
<1>9. ASSUME NEW s \in Subs, Consume(s) \/ Stop(s) \/ StopReturns(s) \/ CloseDone(s)
      PROVE  now' = now
  BY <1>9 DEF Consume, Stop, StopReturns, CloseDone
<1>10. ASSUME NEW w \in Workers,
              CheckStop(w) \/ StartTimer(w) \/ Wake(w) \/ \E wait : ClaimWait(w, wait)
      PROVE  now' = now
  BY <1>10 DEF CheckStop, StartTimer, Wake, ClaimWait
<1>11. ASSUME Tick \/ UNCHANGED vars
       PROVE  now' = now \/ now' = now + 1
  BY <1>11 DEF Tick, vars
<1> QED BY <1>1, <1>2, <1>3, <1>4, <1>5, <1>6, <1>7, <1>8, <1>9, <1>10, <1>11, StepCases

-----------------------------------------------------------------------------
(* The invariant holds in every reachable state: its parts for the places  *)
(* of tasks carry the ones for wakeups, for the order of deaths and for    *)
(* identifiers that are still free.                                        *)
THEOREM InvariantHolds == Spec => []IInv
<1>1. Init => IInv
  <2> SUFFICES ASSUME Init PROVE IInv
    OBVIOUS
  <2>1. TypeOK /\ Lifecycle
    BY TypeInit
  <2>2. OnePlace
    BY DEF Init, OnePlace, PendingOnce, DeadOnce, HeldOnce, Apart, IsPending, IsHeld, IsDead
  <2>3. Blank /\ DiedBefore /\ DeadOldestFirst
    BY DEF Init, Blank, DiedBefore, DeadOldestFirst
  <2>4. NoLostWakeup
    BY DEF Init, NoLostWakeup
  <2> QED BY <2>1, <2>2, <2>3, <2>4 DEF IInv
<1>2. IInv /\ [Next]_vars => IInv'
  <2> SUFFICES ASSUME IInv, [Next]_vars PROVE IInv'
    OBVIOUS
  <2>1. TypeOK' /\ Lifecycle'
    BY TypeStep DEF IInv
  <2>2. OnePlace'
    BY OnePlaceStep DEF IInv
  <2>3. Blank' /\ NoLostWakeup' /\ DiedBefore' /\ DeadOldestFirst'
    BY BlankStep, WakeupStep, DeadOrderStep DEF IInv
  <2> QED BY <2>1, <2>2, <2>3 DEF IInv
<1> QED BY <1>1, <1>2, PTL DEF Spec

(* No wakeup is lost between claim's unlock and the select: a worker on an *)
(* open channel is up before every task of its queue is due.               *)
THEOREM NoWakeupIsLost == Spec => []NoLostWakeup
<1>1. IInv => NoLostWakeup
  BY DEF IInv
<1> QED BY <1>1, InvariantHolds, PTL

(* ListDeadTasks finds the tasks in the order in which they died, although *)
(* nothing sorts them.                                                     *)
THEOREM DeadStayInOrder == Spec => []DeadOldestFirst
<1>1. IInv => DeadOldestFirst
  BY DEF IInv
<1> QED BY <1>1, InvariantHolds, PTL

-----------------------------------------------------------------------------
(* Where a task is decides its status, whatever CASE would choose: the     *)
(* cases exclude each other.                                               *)
PlaceDecides(t) ==
    /\ task[t].queue = NoQueue => /\ StatusOf(t) = "none"
                                  /\ ~ IsPending(t) /\ ~ IsHeld(t) /\ ~ IsDead(t)
    /\ IsPending(t) => StatusOf(t) = "pending"
    /\ IsHeld(t) => StatusOf(t) = "running"
    /\ IsDead(t) => StatusOf(t) = "dead"
    /\ (task[t].queue # NoQueue /\ ~ IsPending(t) /\ ~ IsHeld(t) /\ ~ IsDead(t))
         => StatusOf(t) = "gone"

PlacesDecide == \A t \in Tasks : PlaceDecides(t)

(* The places of OnePlace exclude each other.                              *)
LEMMA StatusFacts == TypeOK /\ OnePlace => PlacesDecide
<1> SUFFICES ASSUME TypeOK, OnePlace, NEW t \in Tasks PROVE PlaceDecides(t)
  BY DEF PlacesDecide
<1>0. NoQueue \notin Queues /\ NoTask \notin Tasks
  BY DeploymentAssumption
<1>1. IsPending(t) => task[t].queue # NoQueue /\ ~ IsHeld(t) /\ ~ IsDead(t)
  BY <1>0 DEF IsPending, OnePlace, PendingOnce, Apart
<1>2. IsDead(t) => task[t].queue # NoQueue /\ ~ IsHeld(t)
  BY <1>0 DEF IsDead, OnePlace, DeadOnce, Apart
<1>3. IsHeld(t) => task[t].queue # NoQueue
  BY <1>0, WorkerQueueType DEF IsHeld, OnePlace, HeldOnce
<1> QED BY <1>1, <1>2, <1>3 DEF StatusOf, PlaceDecides

(* The same after a step.                                                  *)
LEMMA StatusFactsNext == TypeOK' /\ OnePlace' => PlacesDecide'
BY StatusFacts, PTL

(* A task that stays where it is keeps its status.                         *)
Stays(x) == /\ task'[x].queue = task[x].queue
            /\ IsPending(x)' <=> IsPending(x)
            /\ IsHeld(x)' <=> IsHeld(x)
            /\ IsDead(x)' <=> IsDead(x)

(* So its status does not change.                                          *)
LEMMA StaysSame ==
    ASSUME TypeOK, OnePlace, TypeOK', OnePlace', NEW x \in Tasks, Stays(x)
    PROVE  StatusOf(x)' = StatusOf(x)
BY StatusFacts, StatusFactsNext DEF Stays, PlacesDecide, PlaceDecides

(* The three variables of the contract, as the mapping gives them.         *)
statusBar   == [t \in Tasks |-> StatusOf(t)]
attemptsBar == [t \in Tasks |-> task[t].attempts]
budgetBar   == [t \in Tasks |-> task[t].maxRetries]

(* One task moves, the others stay.                                        *)
LEMMA OneMoves ==
    ASSUME TypeOK, OnePlace, TypeOK', OnePlace', NEW t \in Tasks,
           \A x \in Tasks \ {t} : Stays(x)
    PROVE  statusBar' = [statusBar EXCEPT ![t] = StatusOf(t)']
<1>1. \A x \in Tasks \ {t} : StatusOf(x)' = StatusOf(x)
  BY StaysSame
<1> QED BY <1>1 DEF statusBar

(* All tasks stay.                                                         *)
LEMMA NoneMoves ==
    ASSUME TypeOK, OnePlace, TypeOK', OnePlace', \A x \in Tasks : Stays(x),
           \A x \in Tasks : /\ task'[x].attempts = task[x].attempts
                            /\ task'[x].maxRetries = task[x].maxRetries
    PROVE  UNCHANGED Contract!vars
<1>1. \A x \in Tasks : StatusOf(x)' = StatusOf(x)
  BY StaysSame
<1> QED BY <1>1 DEF Contract!vars

(* Push puts a task where it was not; the others stay.                     *)
LEMMA PushMoves ==
    ASSUME TypeOK, OnePlace, NEW q \in Queues, NEW t \in Tasks, Push(q, t)
    PROVE  /\ IsPending(t)'
           /\ \A x \in Tasks \ {t} : IsPending(x)' <=> IsPending(x)
BY PushPlaces

(* What is not taken out of a dead-letter list stays in it.                *)
LEMMA TakeMoves ==
    ASSUME TypeOK, OnePlace, NEW q \in Queues, NEW i \in DOMAIN dead[q], TakeDead(q, i),
           NEW t \in Tasks, t = dead[q][i]
    PROVE  /\ ~ IsDead(t)'
           /\ \A x \in Tasks \ {t} : IsDead(x)' <=> IsDead(x)
<1>0. dead \in [Queues -> Seq(Tasks)] /\ DeadOnce
  BY DEF TypeOK, OnePlace
<1>1. \A x \in Tasks : IsDead(x)' => IsDead(x) /\ x # t
  BY <1>0, TakenIsNotDead
<1>2. ASSUME NEW x \in Tasks \ {t}, IsDead(x)
      PROVE  IsDead(x)'
  <2>1. PICK p \in Queues : \E k \in DOMAIN dead[p] : dead[p][k] = x
    BY <1>2 DEF IsDead
  <2>2. PICK k \in DOMAIN dead[p] : dead[p][k] = x
    BY <2>1
  <2>3. CASE p # q
    BY <1>0, <2>2, <2>3 DEF TakeDead, IsDead
  <2>4. CASE p = q
    <3>1. dead[q] \in Seq(Tasks) /\ i \in 1 .. Len(dead[q]) /\ k \in 1 .. Len(dead[q]) /\ k # i
      BY <1>0, <1>2, <2>2, <2>4
    <3>2. dead'[q] = RemoveAt(dead[q], i)
      BY <1>0 DEF TakeDead
    <3>3. /\ RemoveAt(dead[q], i) \in Seq(Tasks) /\ Len(RemoveAt(dead[q], i)) = Len(dead[q]) - 1
          /\ \A n \in 1 .. Len(dead[q]) - 1 :
               RemoveAt(dead[q], i)[n] = IF n < i THEN dead[q][n] ELSE dead[q][n + 1]
      BY <3>1, RemoveAtFacts
    <3>4. CASE k < i
      <4>1. k \in 1 .. Len(dead[q]) - 1
        BY <3>1, <3>4
      <4>2. k \in DOMAIN dead'[q] /\ dead'[q][k] = x
        BY <2>2, <2>4, <3>2, <3>3, <3>4, <4>1
      <4> QED BY <4>2 DEF IsDead
    <3>5. CASE ~ (k < i)
      <4>1. k - 1 \in 1 .. Len(dead[q]) - 1 /\ ~ (k - 1 < i) /\ k - 1 + 1 = k
        BY <3>1, <3>5
      <4>2. k - 1 \in DOMAIN dead'[q] /\ dead'[q][k - 1] = x
        BY <2>2, <2>4, <3>2, <3>3, <4>1
      <4> QED BY <4>2 DEF IsDead
    <3> QED BY <3>4, <3>5
  <2> QED BY <2>3, <2>4
<1> QED BY <1>0, <1>1, <1>2

(* complete's append adds one task to the dead.                            *)
LEMMA AddMoves ==
    ASSUME TypeOK, NEW q \in Queues, NEW t \in Tasks, AddDead(q, t)
    PROVE  /\ IsDead(t)'
           /\ \A x \in Tasks \ {t} : IsDead(x)' <=> IsDead(x)
<1>0. dead \in [Queues -> Seq(Tasks)]
  BY DEF TypeOK
<1>1. \A x \in Tasks \ {t} : IsDead(x)' => IsDead(x)
  BY AddDeadPlaces DEF IsDead
<1>2. \A p \in Queues : \A k \in DOMAIN dead[p] : k \in DOMAIN dead'[p] /\ dead'[p][k] = dead[p][k]
  BY <1>0 DEF AddDead
<1>3. \A x \in Tasks : IsDead(x) => IsDead(x)'
  BY <1>2 DEF IsDead
<1>4. Len(dead[q]) + 1 \in DOMAIN dead'[q] /\ dead'[q][Len(dead[q]) + 1] = t
  BY <1>0 DEF AddDead
<1>5. IsDead(t)'
  BY <1>4 DEF IsDead
<1> QED BY <1>1, <1>3, <1>5

(* A claim moves one task from its heap to the worker's hands.             *)
LEMMA ClaimMoves ==
    ASSUME TypeOK, Lifecycle, OnePlace, NEW w \in Workers,
           NEW i \in pending[WorkerQueue(w)], ClaimTask(w, i)
    PROVE  /\ ~ IsPending(i.task)' /\ IsHeld(i.task)'
           /\ \A x \in Tasks \ {i.task} : /\ IsPending(x)' <=> IsPending(x)
                                          /\ IsHeld(x)' <=> IsHeld(x)
<1> DEFINE q == WorkerQueue(w)
           t == i.task
<1>0. /\ q \in Queues /\ t \in Tasks /\ held[w] = NoTask /\ PendingOnce
      /\ pending' = [pending EXCEPT ![q] = @ \ {i}]
      /\ \A v \in Workers : held'[v] = IF v = w THEN t ELSE held[v]
  BY WorkerQueueType, ClaimFacts DEF OnePlace
<1>1. \A x \in Tasks : IsPending(x)' => IsPending(x) /\ x # t
  BY <1>0, ClaimPlaces
<1>2. ASSUME NEW x \in Tasks \ {t}, IsPending(x)
      PROVE  IsPending(x)'
  <2>1. PICK p \in Queues : \E j \in pending[p] : j.task = x
    BY <1>2 DEF IsPending
  <2>2. PICK j \in pending[p] : j.task = x
    BY <2>1
  <2>3. j \in pending'[p]
    BY <1>0, <1>2, <2>2 DEF TypeOK
  <2> QED BY <2>2, <2>3 DEF IsPending
<1>3. IsHeld(t)'
  BY <1>0 DEF IsHeld
<1>4. \A x \in Tasks \ {t} : IsHeld(x)' <=> IsHeld(x)
  BY <1>0, DeploymentAssumption DEF IsHeld
<1> QED BY <1>0, <1>1, <1>2, <1>3, <1>4

-----------------------------------------------------------------------------
(* The steps that move a task are the steps of the contract.               *)

(* Enqueue stores a task under an identifier nobody had used.              *)
LEMMA EnqueueStep ==
    ASSUME IInv, IInv', NEW q \in Queues, NEW t \in Tasks, NEW o \in EnqueueInputs,
           NEW at \in 1 .. now, Enqueue(q, t, o, at)
    PROVE  Contract!Next
<1> DEFINE n == NewEnqueueOptions(o).maxRetries
<1>0. TypeOK /\ OnePlace /\ TypeOK' /\ OnePlace' /\ Blank
  BY DEF IInv
<1>1. /\ \A x \in Tasks : x # t => task'[x] = task[x]
      /\ task'[t].attempts = 0 /\ task'[t].maxRetries = n /\ task[t].queue = NoQueue
      /\ task'[t].queue = q /\ held' = held /\ dead' = dead /\ Push(q, t)
  BY <1>0, EnqueueFacts
<1>2. IsPending(t)' /\ \A x \in Tasks \ {t} : IsPending(x)' <=> IsPending(x)
  BY <1>0, <1>1, PushMoves
<1>3. \A x \in Tasks \ {t} : Stays(x)
  BY <1>1, <1>2 DEF Stays, IsHeld, IsDead
<1>4. StatusOf(t) = "none" /\ StatusOf(t)' = "pending"
  BY <1>0, <1>1, <1>2, StatusFacts, StatusFactsNext DEF PlacesDecide, PlaceDecides
<1>5. statusBar' = [statusBar EXCEPT ![t] = "pending"] /\ statusBar[t] = "none"
  BY <1>0, <1>3, <1>4, OneMoves DEF statusBar
<1>6. attemptsBar' = attemptsBar
  BY <1>0, <1>1 DEF attemptsBar, Blank
<1>7. budgetBar' = [budgetBar EXCEPT ![t] = n]
  BY <1>1 DEF budgetBar
<1>8. Contract!Enqueue(t, n)
  BY <1>5, <1>6, <1>7 DEF Contract!Enqueue, Contract!Move, statusBar, attemptsBar, budgetBar
<1> QED BY <1>8 DEF Contract!Next

(* RequeueDeadTask revives a dead task.                                    *)
LEMMA RequeueStep ==
    ASSUME IInv, IInv', NEW q \in Queues, NEW i \in DOMAIN dead[q], RequeueDeadTask(q, i)
    PROVE  Contract!Next
<1>0. TypeOK /\ OnePlace /\ TypeOK' /\ OnePlace' /\ task \in [Tasks -> TaskRecords]
  BY DEF IInv, TypeOK
<1>t. PICK t \in Tasks : t = dead[q][i]
  BY <1>0 DEF TypeOK
<1>1. /\ task' = [task EXCEPT ![t] = Revived(t)] /\ IsDead(t)
      /\ held' = held /\ Push(q, t) /\ TakeDead(q, i)
  BY <1>0, <1>t, RequeueFacts
<1>2. \A x \in Tasks : /\ task'[x].queue = task[x].queue
                       /\ task'[x].maxRetries = task[x].maxRetries
                       /\ task'[x].attempts = IF x = t THEN 0 ELSE task[x].attempts
  BY <1>0, <1>1, AssignFacts
<1>3. IsPending(t)' /\ \A x \in Tasks \ {t} : IsPending(x)' <=> IsPending(x)
  BY <1>0, <1>1, PushMoves
<1>4. \A x \in Tasks \ {t} : IsDead(x)' <=> IsDead(x)
  BY <1>0, <1>1, <1>t, TakeMoves
<1>5. \A x \in Tasks \ {t} : Stays(x)
  BY <1>1, <1>2, <1>3, <1>4 DEF Stays, IsHeld
<1>6. StatusOf(t) = "dead" /\ StatusOf(t)' = "pending"
  BY <1>0, <1>1, <1>3, StatusFacts, StatusFactsNext DEF PlacesDecide, PlaceDecides
<1>7. statusBar' = [statusBar EXCEPT ![t] = "pending"] /\ statusBar[t] = "dead"
  BY <1>0, <1>5, <1>6, OneMoves DEF statusBar
<1>8. attemptsBar' = [attemptsBar EXCEPT ![t] = 0] /\ budgetBar' = budgetBar
  BY <1>2 DEF attemptsBar, budgetBar
<1>9. Contract!RequeueDeadTask(t)
  BY <1>7, <1>8 DEF Contract!RequeueDeadTask, Contract!Move, statusBar, attemptsBar, budgetBar
<1> QED BY <1>9 DEF Contract!Next

(* DeleteDeadTask forgets one.                                             *)
LEMMA DeleteStep ==
    ASSUME IInv, IInv', NEW q \in Queues, NEW i \in DOMAIN dead[q], DeleteDeadTask(q, i)
    PROVE  Contract!Next
<1>0. TypeOK /\ OnePlace /\ TypeOK' /\ OnePlace'
  BY DEF IInv
<1>t. PICK t \in Tasks : t = dead[q][i]
  BY <1>0 DEF TypeOK
<1>1. task' = task /\ pending' = pending /\ held' = held /\ TakeDead(q, i) /\ IsDead(t)
  BY <1>t DEF DeleteDeadTask, workerVars, IsDead
<1>2. ~ IsDead(t)' /\ \A x \in Tasks \ {t} : IsDead(x)' <=> IsDead(x)
  BY <1>0, <1>1, <1>t, TakeMoves
<1>3. \A x \in Tasks \ {t} : Stays(x)
  BY <1>1, <1>2 DEF Stays, IsHeld, IsPending
<1>4. ~ IsPending(t) /\ ~ IsHeld(t) /\ task[t].queue # NoQueue
  BY <1>0, <1>1, StatusFacts DEF OnePlace, Apart, PlacesDecide, PlaceDecides
<1>5. ~ IsPending(t)' /\ ~ IsHeld(t)' /\ task'[t].queue # NoQueue
  BY <1>1, <1>4 DEF IsPending, IsHeld
<1>6. StatusOf(t) = "dead" /\ StatusOf(t)' = "gone"
  BY <1>0, <1>1, <1>2, <1>5, StatusFacts, StatusFactsNext DEF PlacesDecide, PlaceDecides
<1>7. statusBar' = [statusBar EXCEPT ![t] = "gone"] /\ statusBar[t] = "dead"
  BY <1>0, <1>3, <1>6, OneMoves DEF statusBar
<1>8. attemptsBar' = attemptsBar /\ budgetBar' = budgetBar
  BY <1>1 DEF attemptsBar, budgetBar
<1>9. Contract!DeleteDeadTask(t)
  BY <1>7, <1>8 DEF Contract!DeleteDeadTask, Contract!Move, statusBar, attemptsBar, budgetBar
<1> QED BY <1>9 DEF Contract!Next

(* A claim delivers a task and counts the attempt.                         *)
LEMMA ClaimStep ==
    ASSUME IInv, IInv', NEW w \in Workers, NEW i \in pending[WorkerQueue(w)], ClaimTask(w, i)
    PROVE  Contract!Next
<1> DEFINE t == i.task
<1>0. /\ TypeOK /\ Lifecycle /\ OnePlace /\ TypeOK' /\ OnePlace'
      /\ task \in [Tasks -> TaskRecords]
  BY DEF IInv, TypeOK
<1>1. /\ t \in Tasks /\ task[t].attempts + 1 \in Nat
      /\ task' = [task EXCEPT ![t].attempts = task[t].attempts + 1]
      /\ IsPending(t) /\ dead' = dead
  BY <1>0, ClaimFacts
<1>2. \A x \in Tasks : /\ task'[x].queue = task[x].queue
                       /\ task'[x].maxRetries = task[x].maxRetries
                       /\ task'[x].attempts = IF x = t THEN task[t].attempts + 1 ELSE task[x].attempts
  BY <1>0, <1>1, AssignFacts
<1>3. /\ IsHeld(t)'
      /\ \A x \in Tasks \ {t} : (IsPending(x)' <=> IsPending(x)) /\ (IsHeld(x)' <=> IsHeld(x))
  BY <1>0, ClaimMoves
<1> HIDE DEF t
<1>4. \A x \in Tasks \ {t} : Stays(x)
  BY <1>1, <1>2, <1>3 DEF Stays, IsDead
<1>5. StatusOf(t) = "pending" /\ StatusOf(t)' = "running"
  BY <1>0, <1>1, <1>3, StatusFacts, StatusFactsNext DEF PlacesDecide, PlaceDecides
<1>6. statusBar' = [statusBar EXCEPT ![t] = "running"] /\ statusBar[t] = "pending"
  BY <1>0, <1>1, <1>4, <1>5, OneMoves DEF statusBar
<1>7. attemptsBar' = [attemptsBar EXCEPT ![t] = @ + 1] /\ budgetBar' = budgetBar
  BY <1>1, <1>2 DEF attemptsBar, budgetBar
<1>8. Contract!Deliver(t)
  BY <1>6, <1>7 DEF Contract!Deliver, Contract!Move, statusBar, attemptsBar, budgetBar
<1> QED BY <1>1, <1>8 DEF Contract!Next

(* A handler returns: its task is acknowledged, retried within its budget  *)
(* or, the budget exhausted, dead.                                         *)
LEMMA ReturnStep ==
    ASSUME IInv, IInv', NEW w \in Workers, HandlerReturns(w)
    PROVE  Contract!Next
<1>0. /\ TypeOK /\ Lifecycle /\ OnePlace /\ TypeOK' /\ OnePlace' /\ now \in Nat
      /\ task \in [Tasks -> TaskRecords]
  BY DEF IInv, TypeOK
<1>1. Release(w)
  BY DEF HandlerReturns, HandlerSucceeds, Reschedule, Bury
<1>t. PICK t \in Tasks : t = held[w]
  BY <1>0, <1>1, ReleaseFacts
<1>2. /\ IsHeld(t) /\ ~ IsPending(t) /\ ~ IsDead(t) /\ WorkerQueue(w) \in Queues
      /\ \A x \in Tasks : IsHeld(x)' <=> IsHeld(x) /\ x # t
      /\ task[t].queue # NoQueue
  BY <1>0, <1>1, <1>t, ReleaseFacts, DeploymentAssumption
<1>3. StatusOf(t) = "running" /\ statusBar[t] = "running"
  BY <1>0, <1>2, StatusFacts DEF PlacesDecide, PlaceDecides, statusBar
<1>4. CASE HandlerSucceeds(w)
  <2>1. task' = task /\ pending' = pending /\ dead' = dead
    BY <1>4 DEF HandlerSucceeds, queueVars
  <2>2. \A x \in Tasks \ {t} : Stays(x)
    BY <1>2, <2>1 DEF Stays, IsPending, IsDead
  <2>3. ~ IsPending(t)' /\ ~ IsDead(t)' /\ ~ IsHeld(t)' /\ task'[t].queue # NoQueue
    BY <1>2, <2>1 DEF IsPending, IsDead
  <2>4. StatusOf(t)' = "gone"
    BY <1>0, <2>3, StatusFactsNext DEF PlacesDecide, PlaceDecides
  <2>5. statusBar' = [statusBar EXCEPT ![t] = "gone"]
    BY <1>0, <2>2, <2>4, OneMoves
  <2>6. attemptsBar' = attemptsBar /\ budgetBar' = budgetBar
    BY <2>1 DEF attemptsBar, budgetBar
  <2>7. Contract!Acknowledge(t)
    BY <1>3, <2>5, <2>6
       DEF Contract!Acknowledge, Contract!Move, statusBar, attemptsBar, budgetBar
  <2> QED BY <2>7 DEF Contract!Next
<1>5. CASE Reschedule(w)
  <2>1. PICK at \in Nat : task' = [task EXCEPT ![t].runAt = at]
    BY <1>0, <1>5, <1>t, RescheduleFacts
  <2>2. \A x \in Tasks : /\ task'[x].queue = task[x].queue
                         /\ task'[x].maxRetries = task[x].maxRetries
                         /\ task'[x].attempts = task[x].attempts
    BY <1>0, <2>1, AssignFacts
  <2>3. Push(WorkerQueue(w), t) /\ dead' = dead /\ ~ Exhausted(t)
    BY <1>5, <1>t DEF Reschedule
  <2>4. IsPending(t)' /\ \A x \in Tasks \ {t} : IsPending(x)' <=> IsPending(x)
    BY <1>0, <1>2, <2>3, PushMoves
  <2>5. \A x \in Tasks \ {t} : Stays(x)
    BY <1>2, <2>2, <2>3, <2>4 DEF Stays, IsDead
  <2>6. StatusOf(t)' = "pending"
    BY <1>0, <2>4, StatusFactsNext DEF PlacesDecide, PlaceDecides
  <2>7. statusBar' = [statusBar EXCEPT ![t] = "pending"]
    BY <1>0, <2>5, <2>6, OneMoves
  <2>8. attemptsBar' = attemptsBar /\ budgetBar' = budgetBar
    BY <2>2 DEF attemptsBar, budgetBar
  <2>9. attemptsBar[t] <= budgetBar[t]
    BY <1>0, <2>3 DEF attemptsBar, budgetBar, Exhausted, TaskRecords
  <2>10. Contract!Retry(t)
    BY <1>3, <2>7, <2>8, <2>9
       DEF Contract!Retry, Contract!Move, statusBar, attemptsBar, budgetBar
  <2> QED BY <2>10 DEF Contract!Next
<1>6. CASE Bury(w)
  <2>1. task' = [task EXCEPT ![t].diedAt = now]
    BY <1>6, <1>t DEF Bury
  <2>2. \A x \in Tasks : /\ task'[x].queue = task[x].queue
                         /\ task'[x].maxRetries = task[x].maxRetries
                         /\ task'[x].attempts = task[x].attempts
    BY <1>0, <2>1, AssignFacts
  <2>3. AddDead(WorkerQueue(w), t) /\ pending' = pending /\ Exhausted(t)
    BY <1>6, <1>t DEF Bury
  <2>4. IsDead(t)' /\ \A x \in Tasks \ {t} : IsDead(x)' <=> IsDead(x)
    BY <1>0, <1>2, <2>3, AddMoves
  <2>5. \A x \in Tasks \ {t} : Stays(x)
    BY <1>2, <2>2, <2>3, <2>4 DEF Stays, IsPending
  <2>6. StatusOf(t)' = "dead"
    BY <1>0, <2>4, StatusFactsNext DEF PlacesDecide, PlaceDecides
  <2>7. statusBar' = [statusBar EXCEPT ![t] = "dead"]
    BY <1>0, <2>5, <2>6, OneMoves
  <2>8. attemptsBar' = attemptsBar /\ budgetBar' = budgetBar
    BY <2>2 DEF attemptsBar, budgetBar
  <2>9. attemptsBar[t] > budgetBar[t]
    BY <2>3 DEF attemptsBar, budgetBar, Exhausted
  <2>10. Contract!Die(t)
    BY <1>3, <2>7, <2>8, <2>9
       DEF Contract!Die, Contract!Move, statusBar, attemptsBar, budgetBar
  <2> QED BY <2>10 DEF Contract!Next
<1> QED BY <1>4, <1>5, <1>6 DEF HandlerReturns

(* Every step is a step of the contract or invisible to it.                *)
LEMMA ContractStep == IInv /\ IInv' /\ [Next]_vars => [Contract!Next]_(Contract!vars)
<1> SUFFICES ASSUME IInv, IInv', [Next]_vars PROVE [Contract!Next]_(Contract!vars)
  OBVIOUS
<1>1. ASSUME Elsewhere PROVE UNCHANGED Contract!vars
  <2>1. \A x \in Tasks : Stays(x)
    BY <1>1 DEF Elsewhere, Stays, IsPending, IsHeld, IsDead
  <2> QED BY <1>1, <2>1, NoneMoves DEF Elsewhere, IInv
<1> QED BY <1>1, StepCases, EnqueueStep, RequeueStep, DeleteStep, ClaimStep, ReturnStep
        DEF HandlerReturns

(* The in-memory back end implements the contract of workqueue.go, for     *)
(* every number of queues, tasks, subscriptions and workers: one consumer  *)
(* at a time, at most maxRetries retries, death exactly when the budget is *)
(* exhausted, and no way out of the dead-letter queue but the two calls.   *)
THEOREM ContractImplemented == Spec => ImplementsContract
<1>1. Init => Contract!Init
  <2> SUFFICES ASSUME Init PROVE Contract!Init
    OBVIOUS
  <2>1. TypeOK
    BY TypeInit
  <2>2. OnePlace
    BY DEF Init, OnePlace, PendingOnce, DeadOnce, HeldOnce, Apart, IsPending, IsHeld, IsDead
  <2>3. \A t \in Tasks : task[t].queue = NoQueue
    BY DEF Init
  <2>4. \A t \in Tasks : StatusOf(t) = "none"
    BY <2>1, <2>2, <2>3, StatusFacts DEF PlacesDecide, PlaceDecides
  <2> QED BY <2>4 DEF Init, Contract!Init
<1> QED BY <1>1, ContractStep, InvariantHolds, PTL DEF Spec, ImplementsContract, Contract!Spec

-----------------------------------------------------------------------------
(* Pages of the dead-letter list. *)

(* A sum that a Duration (an int, in Go) can hold does not wrap.           *)
LEMMA WrapKeeps == ASSUME NEW x \in 0 .. MaxDuration PROVE Wrap(x) = x
<1>1. PICK m \in Nat : m = MaxDuration + 1 /\ x < m
  BY DurationAssumption
<1>2. (x + m) % (2 * m) = x + m
  BY <1>1
<1> QED BY <1>1, <1>2, DurationAssumption DEF Wrap

(* ListDeadTasks, unless offset+limit wraps: a page holds limit entries or *)
(* what is left of the list, and its entries are those that follow offset. *)
(* So pages that advance by their size neither overlap nor leave a gap,    *)
(* whatever the length of the list.                                        *)
THEOREM PagesAreSlices ==
    ASSUME TypeOK, NEW q \in Queues, NEW limit \in Nat \ {0}, NEW offset \in Nat,
           offset + limit <= MaxDuration
    PROVE  LET page == ListDeadTasks(q, limit, offset)
               rest == Larger(0, Len(dead[q]) - offset)
           IN  /\ Len(page) = IF limit < rest THEN limit ELSE rest
               /\ \A k \in DOMAIN page : page[k] = dead[q][offset + k]
<1>1. dead[q] \in Seq(Tasks) /\ Len(dead[q]) \in Nat
  BY DEF TypeOK
<1>2. Larger(0, offset) = offset /\ Wrap(offset + limit) = offset + limit
  BY WrapKeeps, DurationAssumption DEF Larger
<1>3. CASE offset >= Len(dead[q])
  <2>1. ListDeadTasks(q, limit, offset) = <<>>
    BY <1>2, <1>3 DEF ListDeadTasks
  <2> QED BY <1>1, <1>3, <2>1 DEF Larger
<1>4. CASE offset < Len(dead[q])
  <2>1. PICK e \in Nat : /\ e = PageEnd(q, limit, offset)
                         /\ e = IF offset + limit < Len(dead[q]) THEN offset + limit ELSE Len(dead[q])
    BY <1>1, <1>2 DEF PageEnd
  <2>2. ListDeadTasks(q, limit, offset) = SubSeq(dead[q], offset + 1, e)
    <3>1. ~ (offset >= Len(dead[q]))
      BY <1>1, <1>4
    <3>2. PageEnd(q, limit, Larger(0, offset)) = e
      BY <1>2, <2>1
    <3>3. ListDeadTasks(q, limit, offset)
            = IF Larger(0, offset) >= Len(dead[q]) THEN <<>>
              ELSE SubSeq(dead[q], Larger(0, offset) + 1, PageEnd(q, limit, Larger(0, offset)))
      BY Zenon DEF ListDeadTasks
    <3> QED BY <1>2, <3>1, <3>2, <3>3
  <2>3. offset + 1 \in 1 .. Len(dead[q]) /\ e \in offset + 1 .. Len(dead[q])
    BY <1>1, <1>4, <2>1
  <2>4. /\ Len(SubSeq(dead[q], offset + 1, e)) = e - offset
        /\ DOMAIN SubSeq(dead[q], offset + 1, e) = 1 .. e - offset
        /\ \A k \in 1 .. e - offset : SubSeq(dead[q], offset + 1, e)[k] = dead[q][offset + k]
    BY <1>1, <2>3
  <2> QED BY <1>1, <1>4, <2>1, <2>2, <2>4 DEF Larger
<1> QED BY <1>1, <1>3, <1>4

(* Two adjacent slices make one.                                           *)
LEMMA SlicesJoin ==
    ASSUME NEW S, NEW s \in Seq(S), NEW a \in 0 .. Len(s), NEW b \in a .. Len(s)
    PROVE  SubSeq(s, 1, a) \o SubSeq(s, a + 1, b) = SubSeq(s, 1, b)
<1> DEFINE u == SubSeq(s, 1, a)
           v == SubSeq(s, a + 1, b)
           w == SubSeq(s, 1, b)
<1>1. u \in Seq(S) /\ Len(u) = a /\ \A k \in 1 .. a : u[k] = s[k]
  OBVIOUS
<1>2. v \in Seq(S) /\ Len(v) = b - a /\ \A k \in 1 .. b - a : v[k] = s[a + k]
  OBVIOUS
<1>3. w \in Seq(S) /\ Len(w) = b /\ \A k \in 1 .. b : w[k] = s[k]
  OBVIOUS
<1> HIDE DEF u, v, w
<1>4. u \o v \in Seq(S) /\ Len(u \o v) = b
  <2>0. u \in Seq(S) /\ v \in Seq(S)
    BY <1>1, <1>2
  <2>1. u \o v \in Seq(S) /\ Len(u \o v) = Len(u) + Len(v)
    BY <2>0
  <2> QED BY <1>1, <1>2, <2>1
<1>5. ASSUME NEW k \in 1 .. b PROVE (u \o v)[k] = w[k]
  <2>1. k \in 1 .. Len(u) + Len(v)
    BY <1>1, <1>2
  <2>2. (u \o v)[k] = IF k <= Len(u) THEN u[k] ELSE v[k - Len(u)]
    BY <1>1, <1>2, <2>1
  <2>3. CASE k <= a
    BY <1>1, <1>3, <2>2, <2>3
  <2>4. CASE ~ (k <= a)
    <3>1. k - a \in 1 .. b - a /\ a + (k - a) = k
      BY <2>4
    <3> QED BY <1>1, <1>2, <1>3, <2>2, <2>4, <3>1
  <2> QED BY <2>3, <2>4
<1>6. u \o v = w
  BY <1>3, <1>4, <1>5
<1> QED BY <1>6 DEF u, v, w

(* SequencesExt's FlattenSeq, which a caller that appends page after page  *)
(* computes: whatever accumulates the pages in turn is its result.         *)
LEMMA FlattenAccumulates ==
    ASSUME NEW S, NEW n \in Nat \ {0}, NEW pages \in [1 .. n -> Seq(S)],
           NEW acc \in [1 .. n -> Seq(S)], acc[1] = pages[1],
           \A i \in 2 .. n : acc[i] = acc[i - 1] \o pages[i]
    PROVE  FlattenSeq(pages) = acc[n]
<1> DEFINE Eq(g) == g = [i \in 1 .. n |-> IF i = 1 THEN pages[i] ELSE g[i - 1] \o pages[i]]
           f     == CHOOSE g : Eq(g)
<1>1. pages \in Seq(Seq(S)) /\ Len(pages) = n
  OBVIOUS
<1>2. FlattenSeq(pages) = f[n]
  BY <1>1 DEF FlattenSeq
<1>3. Eq(acc)
  <2>1. ASSUME NEW i \in 1 .. n
        PROVE  acc[i] = IF i = 1 THEN pages[i] ELSE acc[i - 1] \o pages[i]
    <3>1. CASE i = 1
      BY <3>1
    <3>2. CASE i # 1
      <4>1. i \in 2 .. n
        BY <3>2
      <4> QED BY <3>2, <4>1
    <3> QED BY <3>1, <3>2
  <2> QED BY <2>1
<1>4. Eq(f)
  <2> HIDE DEF Eq
  <2> QED BY <1>3
<1> HIDE DEF f
<1>5. \A i \in Nat : i + 1 <= n => f[i + 1] = acc[i + 1]
  <2> DEFINE P == {i \in Nat : i + 1 <= n => f[i + 1] = acc[i + 1]}
  <2>1. 0 \in P
    <3>1. 1 \in 1 .. n
      OBVIOUS
    <3> QED BY <1>4, <3>1
  <2>2. ASSUME NEW i \in Nat, i \in P PROVE i + 1 \in P
    <3> SUFFICES ASSUME (i + 1) + 1 <= n PROVE f[(i + 1) + 1] = acc[(i + 1) + 1]
      OBVIOUS
    <3>1. PICK j \in 2 .. n : j = (i + 1) + 1 /\ j - 1 = i + 1
      OBVIOUS
    <3>2. f[j - 1] = acc[j - 1]
      BY <2>2, <3>1
    <3>3. f[j] = f[j - 1] \o pages[j]
      <4>1. j \in 1 .. n /\ j # 1
        BY <3>1
      <4>2. f[j] = IF j = 1 THEN pages[j] ELSE f[j - 1] \o pages[j]
        BY <1>4, <4>1
      <4> QED BY <4>1, <4>2
    <3> QED BY <3>1, <3>2, <3>3
  <2> HIDE DEF P
  <2>3. \A i \in Nat : i \in P
    BY <2>1, <2>2, SetInduction
  <2> QED BY <2>3 DEF P
<1>6. PICK m \in Nat : m + 1 = n /\ m + 1 <= n
  <2>1. n - 1 \in Nat /\ (n - 1) + 1 = n /\ (n - 1) + 1 <= n
    OBVIOUS
  <2> QED BY <2>1
<1>7. f[n] = acc[n]
  BY <1>5, <1>6
<1> QED BY <1>2, <1>7

(* A dead-letter list holds a task at most once, so no more entries than   *)
(* there are tasks.                                                        *)
LEMMA DeadFew ==
    ASSUME TypeOK, OnePlace, IsFiniteSet(Tasks), NEW q \in Queues
    PROVE  Len(dead[q]) <= Cardinality(Tasks)
<1>1. dead[q] \in Seq(Tasks) /\ Len(dead[q]) \in Nat /\ DOMAIN dead[q] = 1 .. Len(dead[q])
  BY DEF TypeOK
<1>2. \A k, l \in 1 .. Len(dead[q]) : dead[q][k] = dead[q][l] => k = l
  BY <1>1 DEF OnePlace, DeadOnce
<1>3. dead[q] \in Injection(1 .. Len(dead[q]), Tasks)
  BY <1>1, <1>2 DEF Injection, IsInjective
<1>4. Cardinality(1 .. Len(dead[q])) <= Cardinality(Tasks)
  BY <1>3, FS_Injection
<1>5. Cardinality(1 .. Len(dead[q])) = Len(dead[q])
  BY <1>1, FS_Interval
<1> QED BY <1>4, <1>5

(* A page is the slice after its offset, for offsets within the list and   *)
(* beyond it.                                                              *)
LEMMA PageIsSlice ==
    ASSUME TypeOK, NEW q \in Queues, 2 * Len(dead[q]) <= MaxDuration,
           NEW size \in 1 .. Len(dead[q]) + 1, NEW from \in Nat
    PROVE  ListDeadTasks(q, size, from)
             = SubSeq(dead[q], from + 1,
                      IF from + size < Len(dead[q]) THEN from + size ELSE Len(dead[q]))
<1>1. dead[q] \in Seq(Tasks) /\ Len(dead[q]) \in Nat
  BY DEF TypeOK
<1>2. Larger(0, from) = from
  BY DEF Larger
<1>3. ListDeadTasks(q, size, from)
        = IF Larger(0, from) >= Len(dead[q]) THEN <<>>
          ELSE SubSeq(dead[q], Larger(0, from) + 1, PageEnd(q, size, Larger(0, from)))
  BY Zenon DEF ListDeadTasks
<1>4. CASE from >= Len(dead[q])
  <2>1. SubSeq(dead[q], from + 1, Len(dead[q])) = <<>>
    BY <1>1, <1>4
  <2> QED BY <1>1, <1>2, <1>3, <1>4, <2>1
<1>5. CASE ~ (from >= Len(dead[q]))
  <2>1. Wrap(from + size) = from + size
    <3>1. from + size \in 0 .. MaxDuration
      BY <1>1, <1>5, DurationAssumption
    <3> QED BY <3>1, WrapKeeps
  <2>2. PageEnd(q, size, from) = IF from + size < Len(dead[q]) THEN from + size ELSE Len(dead[q])
    BY <1>1, <2>1 DEF PageEnd
  <2> QED BY <1>2, <1>3, <1>5, <2>2
<1> QED BY <1>4, <1>5

(* Reading a list page by page gives the list.                             *)
LEMMA PagesGiveList ==
    ASSUME TypeOK, NEW q \in Queues, 2 * Len(dead[q]) <= MaxDuration,
           NEW size \in 1 .. Len(dead[q]) + 1
    PROVE  FlattenSeq([p \in 1 .. Len(dead[q]) |-> ListDeadTasks(q, size, (p - 1) * size)]) = dead[q]
<1>1. PICK s \in Seq(Tasks), n \in Nat : s = dead[q] /\ n = Len(s)
  BY DEF TypeOK
<1> DEFINE pages  == [p \in 1 .. n |-> ListDeadTasks(q, size, (p - 1) * size)]
           End(x) == IF x < n THEN x ELSE n
           acc    == [p \in 1 .. n |-> SubSeq(s, 1, End(p * size))]
<1>2. CASE n = 0
  <2>1. pages = <<>> /\ s = <<>>
    <3>1. 1 .. n = {}
      BY <1>2
    <3>2. pages = <<>>
      BY <3>1
    <3>3. s = <<>>
      <4>1. Len(s) = 0
        BY <1>1, <1>2
      <4> QED BY <4>1
    <3> QED BY <3>2, <3>3
  <2>2. FlattenSeq(pages) = pages
    BY <2>1 DEF FlattenSeq
  <2> QED BY <1>1, <2>1, <2>2
<1>3. CASE n # 0
  <2>1. ASSUME NEW p \in 1 .. n
        PROVE  \E from \in Nat : /\ from = (p - 1) * size /\ p * size = from + size
                                 /\ (p = 1 => from = 0)
                                 /\ pages[p] = SubSeq(s, from + 1, End(from + size))
    <3>1. (p - 1) * size \in Nat /\ p * size = (p - 1) * size + size
      BY <1>1
    <3>2. (p = 1) => (p - 1) * size = 0
      BY <1>1
    <3>3. pages[p] = ListDeadTasks(q, size, (p - 1) * size)
      OBVIOUS
    <3> HIDE DEF pages
    <3>4. PICK from \in Nat : from = (p - 1) * size
      BY <3>1
    <3>5. pages[p] = SubSeq(s, from + 1, End(from + size))
      BY <1>1, <3>3, <3>4, PageIsSlice
    <3> QED BY <3>1, <3>2, <3>4, <3>5
  <2> HIDE DEF pages
  <2>2. pages \in [1 .. n -> Seq(Tasks)]
    <3>1. ASSUME NEW p \in 1 .. n PROVE pages[p] \in Seq(Tasks)
      <4>1. PICK from \in Nat : pages[p] = SubSeq(s, from + 1, End(from + size))
        BY <2>1
      <4>2. End(from + size) \in Nat /\ End(from + size) <= n
        BY <1>1
      <4> HIDE DEF End
      <4> QED BY <1>1, <4>1, <4>2
    <3> QED BY <3>1 DEF pages
  <2>3. acc \in [1 .. n -> Seq(Tasks)]
    <3>1. ASSUME NEW p \in 1 .. n PROVE SubSeq(s, 1, End(p * size)) \in Seq(Tasks)
      <4>1. PICK e \in Nat : e = End(p * size) /\ e <= n
        BY <1>1
      <4> HIDE DEF End
      <4> QED BY <1>1, <4>1
    <3> QED BY <3>1
  <2>4. acc[1] = pages[1]
    <3>1. 1 \in 1 .. n
      BY <1>1, <1>3
    <3>2. pages[1] = SubSeq(s, 1, End(size)) /\ 1 * size = size
      BY <1>1, <2>1, <3>1
    <3> QED BY <3>1, <3>2
  <2>5. ASSUME NEW p \in 2 .. n PROVE acc[p] = acc[p - 1] \o pages[p]
    <3>1. p \in 1 .. n /\ p - 1 \in 1 .. n
      BY <1>1
    <3>2. PICK from \in Nat : /\ from = (p - 1) * size /\ p * size = from + size
                              /\ pages[p] = SubSeq(s, from + 1, End(from + size))
      BY <2>1, <3>1
    <3>3. acc[p] = SubSeq(s, 1, End(from + size)) /\ acc[p - 1] = SubSeq(s, 1, End(from))
      BY <3>1, <3>2
    <3> HIDE DEF acc
    <3>4. CASE from <= n
      <4>1. from \in 0 .. Len(s) /\ End(from + size) \in from .. Len(s) /\ End(from) = from
        BY <1>1, <3>4
      <4> HIDE DEF End
      <4> QED BY <3>2, <3>3, <4>1, SlicesJoin
    <3>5. CASE from > n
      <4>1. End(from) = n /\ End(from + size) = n
        BY <1>1, <3>5
      <4>2. SubSeq(s, from + 1, n) = <<>> /\ SubSeq(s, 1, n) \in Seq(Tasks)
        BY <1>1, <3>5
      <4> QED BY <3>2, <3>3, <4>1, <4>2
    <3>6. from <= n \/ from > n
      OBVIOUS
    <3> QED BY <3>4, <3>5, <3>6
  <2>6. acc[n] = s
    <3>1. n \in 1 .. n /\ n * size >= n /\ n * size \in Nat
      BY <1>1, <1>3
    <3>2. End(n * size) = n
      BY <1>1, <3>1
    <3>3. SubSeq(s, 1, n) = s
      BY <1>1
    <3> QED BY <3>1, <3>2, <3>3
  <2> HIDE DEF acc
  <2>7. FlattenSeq(pages) = acc[n]
    <3>1. n \in Nat \ {0} /\ \A p \in 2 .. n : acc[p] = acc[p - 1] \o pages[p]
      BY <1>3, <2>5
    <3> QED BY <2>2, <2>3, <2>4, <3>1, FlattenAccumulates
  <2> QED BY <1>1, <2>6, <2>7 DEF pages
<1> QED BY <1>2, <1>3

(* ListDeadTasks: a caller that reads the dead-letter list page by page    *)
(* gets every dead task once and in order, for every page size, and a      *)
(* limit of zero or less gives the rest, however many tasks there are, as  *)
(* long as twice their number is an int.                                   *)
THEOREM PagesAlwaysTile ==
    ASSUME IsFiniteSet(Tasks), 2 * Cardinality(Tasks) <= MaxDuration
    PROVE  Spec => []PagesTileTheList
<1>1. ASSUME TypeOK, OnePlace PROVE PagesTileTheList
  <2> SUFFICES ASSUME NEW q \in Queues
               PROVE  /\ \A size \in 1 .. Len(dead[q]) + 1 :
                           FlattenSeq([p \in 1 .. Len(dead[q]) |->
                                         ListDeadTasks(q, size, (p - 1) * size)]) = dead[q]
                      /\ \A limit \in {-1, 0}, offset \in -1 .. Len(dead[q]) :
                           ListDeadTasks(q, limit, offset)
                             = SubSeq(dead[q], Larger(0, offset) + 1, Len(dead[q]))
    BY Zenon DEF PagesTileTheList
  <2>1. dead[q] \in Seq(Tasks) /\ Len(dead[q]) \in Nat
    BY <1>1 DEF TypeOK
  <2>2. 2 * Len(dead[q]) <= MaxDuration
    <3>1. Len(dead[q]) <= Cardinality(Tasks) /\ Cardinality(Tasks) \in Nat
      BY <1>1, DeadFew, FS_CardinalityType
    <3> QED BY <2>1, <3>1, DurationAssumption
  <2>3. ASSUME NEW limit \in {-1, 0}, NEW offset \in -1 .. Len(dead[q])
        PROVE  ListDeadTasks(q, limit, offset)
                 = SubSeq(dead[q], Larger(0, offset) + 1, Len(dead[q]))
    <3>1. PICK from \in Nat : from = Larger(0, offset)
      BY <2>1 DEF Larger
    <3>2. ListDeadTasks(q, limit, offset)
            = IF from >= Len(dead[q]) THEN <<>> ELSE SubSeq(dead[q], from + 1, PageEnd(q, limit, from))
      BY <3>1, Zenon DEF ListDeadTasks
    <3>3. PageEnd(q, limit, from) = Len(dead[q])
      BY DEF PageEnd
    <3>4. from >= Len(dead[q]) => SubSeq(dead[q], from + 1, Len(dead[q])) = <<>>
      BY <2>1
    <3> QED BY <3>1, <3>2, <3>3, <3>4
  <2> QED BY <1>1, <2>2, <2>3, PagesGiveList
<1> QED BY <1>1, InvariantHolds, PTL DEF IInv
=============================================================================
