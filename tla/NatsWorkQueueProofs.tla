------------------------- MODULE NatsWorkQueueProofs -------------------------
(***************************************************************************)
(* The JetStream back end, for any number of tasks, processes, slots and   *)
(* callers, any deadlines, and any number of redeliveries, crashes, lost   *)
(* publishes and acknowledgements and duplicate windows that pass.         *)
(***************************************************************************)
EXTENDS NatsWorkQueue, OptionsProofs, FiniteSetTheorems

-----------------------------------------------------------------------------
(* Messages and deliveries. *)

(* A message after a Redeliver, and after a tick.                          *)
Turned(m, seq, d) == IF m.seq = seq THEN [m EXCEPT !.sent = TRUE, !.left = d] ELSE m
Ticked(m) == [m EXCEPT !.wait = CountDown(@), !.left = CountDown(@)]

(* Two states of one message.                                              *)
Same(k, m) == m.seq = k.seq /\ m.task = k.task /\ m.attempts = k.attempts

(* The fields of a stored message.                                         *)
LEMMA MessageFacts ==
    ASSUME NEW m \in Messages
    PROVE  /\ m.seq \in Nat /\ m.task \in Tasks /\ m.attempts \in Nat /\ m.wait \in Nat
           /\ m.sent \in BOOLEAN /\ m.left \in Nat
BY DEF Messages

(* A redelivery changes the deadline of one message and nothing it         *)
(* carries.                                                                *)
LEMMA TurnedFacts ==
    ASSUME NEW m \in Messages, NEW seq, NEW d \in Nat
    PROVE  /\ Turned(m, seq, d) \in Messages /\ Same(m, Turned(m, seq, d))
           /\ Turned(m, seq, d).sent = (m.sent \/ m.seq = seq)
           /\ Turned(m, seq, d).left = IF m.seq = seq THEN d ELSE m.left
BY DEF Turned, Messages, Same

(* A tick changes the times of a message and nothing it carries.           *)
LEMMA TickedFacts ==
    ASSUME NEW m \in Messages
    PROVE  /\ Ticked(m) \in Messages /\ Same(m, Ticked(m))
           /\ Ticked(m).sent = m.sent /\ Ticked(m).left = CountDown(m.left)
<1>1. PICK a \in Nat, b \in Nat : a = CountDown(m.wait) /\ b = CountDown(m.left)
  BY MessageFacts DEF CountDown
<1>2. Ticked(m) = [m EXCEPT !.wait = a, !.left = b]
  BY <1>1 DEF Ticked
<1>3. Ticked(m) \in Messages /\ Same(m, Ticked(m)) /\ Ticked(m).sent = m.sent /\ Ticked(m).left = b
  BY <1>2 DEF Messages, Same
<1> QED BY <1>1, <1>3

(* The fields of a delivered copy, and the copy after a tick.              *)
LEMMA DeliveryFacts ==
    ASSUME NEW d \in Deliveries
    PROVE  /\ d.seq \in Nat /\ d.task \in Tasks /\ d.attempts \in Nat /\ d.wait \in Nat
           /\ Sooner(d) \in Deliveries
           /\ Sooner(d).seq = d.seq /\ Sooner(d).task = d.task /\ Sooner(d).attempts = d.attempts
BY DEF Deliveries, Sooner, CountDown

(* An empty slot holds no delivery, and time leaves it alone.              *)
LEMMA NoJobFacts == NoJob \notin Deliveries /\ Sooner(NoJob) = NoJob
BY DeploymentAssumption DEF NoJob, Deliveries, Sooner, CountDown

(* The delay of a retry is a natural number: RetryBackoff never goes       *)
(* negative.                                                               *)
LEMMA BackoffType ==
    ASSUME NEW n \in Nat
    PROVE  RetryBackoff(BackoffBase, BackoffMax, n) \in Nat
BY RetryBackoffBounded, DeploymentAssumption

(* What Enqueue resolves its options to.                                   *)
LEMMA InputType ==
    ASSUME NEW i \in EnqueueInputs
    PROVE  LET o == NewEnqueueOptions(i) IN o.maxRetries \in Nat /\ ResolveRunAt(o, 0) \in Nat
BY InputAssumption DEF NewEnqueueOptions, ResolveRunAt, Larger, ZeroTime

(* The heartbeats' interval is positive, since it has a floor.             *)
LEMMA IntervalType == Interval \in Nat \ {0}
BY DeploymentAssumption, ServerAssumption DEF Interval, Larger

(* Every step of Next, by the action it is.                                *)
LEMMA NextCases ==
    ASSUME Next
    PROVE  \/ \E t \in Tasks : (\E o \in EnqueueInputs : Enqueue(t, o)) \/ Forget(t)
           \/ \E p \in Procs : Consume(p) \/ Stop(p) \/ Unsubscribe(p) \/ CloseDone(p) \/ Crash(p)
           \/ \E p \in Procs : \E m \in stream : Deliver(p, m)
           \/ \E p \in Procs : \E d \in inbox[p] : HandBack(p, d)
           \/ \E w \in Workers : \E d \in inbox[ProcOf[w]] : Dispatch(w, d)
           \/ \E w \in Workers : Delay(w) \/ Start(w) \/ Heartbeat(w) \/ Ack(w)
           \/ \E w \in Workers : HandlerSucceeds(w) \/ HandlerFails(w) \/ PublishFails(w)
           \/ \E c \in Callers : \E e \in dlq : FindToRequeue(c, e) \/ FindToDelete(c, e)
           \/ \E c \in Callers : \/ PublishRequeued(c) \/ PublishRequeuedFails(c)
                                 \/ DeletePublished(c) \/ DeleteDead(c) \/ CallerDies(c)
           \/ Tick
BY DEF Next, ServerStep, DispatchStep, SlotStep, HandlerReturns, CallStep, WorkersOf

-----------------------------------------------------------------------------
(* What the server may do in one step. *)

(* Messages are redelivered, or age; their contents stay.                  *)
Mailed == \/ UNCHANGED serverVars
          \/ \E seq \in Nat, d \in Nat : Redeliver(seq, d)
          \/ ServerTick

(* A task is stored, a retry only under its ID.                            *)
Stored == \/ \E t \in Tasks, wait \in Nat : Publish(t, 0, wait)
          \/ \E t \in Tasks, n \in Nat, wait \in Nat : PublishOnce(t, n, wait, <<t, n>>)

DeadMoved == \/ \E t \in Tasks, n \in Nat : PublishDead(t, n)
             \/ \E seq \in Nat : DeleteMsg(seq)

Forgotten == (\E t \in Tasks : ForgetIDs(t)) /\ forgets' = forgets + 1

(* A failed delivery is published to the dead-letter stream when its       *)
(* budget is exhausted, else as a retry under its own ID.                  *)
LEMMA HandOnCases ==
    ASSUME NEW j \in Deliveries, HandOn(j)
    PROVE  \/ Exhausted(j) /\ PublishDead(j.task, j.attempts)
           \/ /\ ~ Exhausted(j)
              /\ \E wait \in Nat : PublishOnce(j.task, j.attempts, wait, <<j.task, j.attempts>>)
<1>1. RetryBackoff(BackoffBase, BackoffMax, j.attempts) \in Nat
  BY DeliveryFacts, BackoffType
<1> QED BY <1>1 DEF HandOn

(* A slot that is taken has a delivery, a caller that is busy a task.      *)
Lifecycle == /\ \A w \in Workers : pc[w] # "idle" => job[w] \in Deliveries
             /\ \A c \in Callers : op[c].step # "none" => op[c].task \in Tasks

(* What a step does at the server: it sends, stores, moves dead tasks,     *)
(* takes an acknowledgement, or forgets IDs.                               *)
LEMMA ServerCases ==
    ASSUME TypeOK, Lifecycle, [Next]_vars
    PROVE  \/ (Mailed \/ Stored \/ DeadMoved) /\ forgets' = forgets
           \/ (\E seq \in Nat : Acknowledge(seq)) /\ forgets' = forgets
           \/ Forgotten
<1> USE DEF Mailed
<1>1. ASSUME NEW t \in Tasks, NEW i \in EnqueueInputs, Enqueue(t, i)
      PROVE  Stored /\ forgets' = forgets
  <2>1. PICK wait \in Nat : PublishOnce(t, 0, wait, <<t, 0>>)
    BY <1>1, InputType DEF Enqueue
  <2> QED BY <1>1, <2>1 DEF Enqueue, Stored, counters
<1>2. ASSUME NEW t \in Tasks, Forget(t) PROVE Forgotten
  BY <1>2 DEF Forget, Forgotten
<1>3. ASSUME NEW p \in Procs,
             Consume(p) \/ Stop(p) \/ Unsubscribe(p) \/ CloseDone(p) \/ Crash(p)
      PROVE  Mailed /\ forgets' = forgets
  BY <1>3 DEF Consume, Stop, Unsubscribe, CloseDone, Crash, counters
<1>4. ASSUME NEW p \in Procs, NEW m \in stream, Deliver(p, m) PROVE Mailed /\ forgets' = forgets
  BY <1>4, MessageFacts, ServerAssumption DEF Deliver, TypeOK, ServerTypeOK
<1>5. ASSUME NEW p \in Procs, NEW d \in inbox[p], HandBack(p, d)
      PROVE  Mailed /\ forgets' = forgets
  <2>1. d.seq \in Nat
    BY <1>5, DeliveryFacts DEF TypeOK
  <2> QED BY <1>5, <2>1 DEF HandBack
<1>6. ASSUME NEW w \in Workers, NEW d, Dispatch(w, d) PROVE Mailed /\ forgets' = forgets
  BY <1>6 DEF Dispatch, counters
<1>7. ASSUME NEW w \in Workers, pc[w] # "idle"
      PROVE  job[w] \in Deliveries /\ job[w].seq \in Nat /\ job[w].wait \in Nat
             /\ job[w].task \in Tasks /\ job[w].attempts \in Nat
  BY <1>7, DeliveryFacts DEF Lifecycle
<1>8. ASSUME NEW w \in Workers, Delay(w) \/ Start(w) \/ Heartbeat(w) \/ HandlerSucceeds(w)
      PROVE  Mailed /\ forgets' = forgets
  BY <1>7, <1>8, ServerAssumption DEF Delay, Start, Heartbeat, HandlerSucceeds, ThenAck, counters
<1>9. ASSUME NEW w \in Workers, Ack(w)
      PROVE  (Mailed \/ \E seq \in Nat : Acknowledge(seq)) /\ forgets' = forgets
  BY <1>7, <1>9 DEF Ack
<1>10. ASSUME NEW w \in Workers, pc[w] # "idle", HandOn(job[w]) PROVE Stored \/ DeadMoved
  BY <1>7, <1>10, HandOnCases DEF Stored, DeadMoved
<1>11. ASSUME NEW w \in Workers, HandlerFails(w) \/ PublishFails(w)
       PROVE  (Mailed \/ Stored \/ DeadMoved) /\ forgets' = forgets
  BY <1>10, <1>11 DEF HandlerFails, PublishFails, ThenAck
<1>12. ASSUME NEW c \in Callers, NEW e \in dlq, FindToRequeue(c, e) \/ FindToDelete(c, e)
       PROVE  Mailed /\ forgets' = forgets
  BY <1>12 DEF FindToRequeue, FindToDelete, counters
<1>13. ASSUME NEW c \in Callers
       PROVE  op[c].seq \in Nat /\ (op[c].step # "none" => op[c].task \in Tasks)
  BY DEF TypeOK, Ops, Lifecycle
<1>14. ASSUME NEW c \in Callers, PublishRequeued(c) PROVE Stored /\ forgets' = forgets
  BY <1>13, <1>14 DEF PublishRequeued, Stored, counters
<1>15. ASSUME NEW c \in Callers,
              PublishRequeuedFails(c) \/ DeletePublished(c) \/ DeleteDead(c) \/ CallerDies(c)
       PROVE  (Mailed \/ DeadMoved) /\ forgets' = forgets
  BY <1>13, <1>15 DEF PublishRequeuedFails, DeletePublished, DeleteDead, CallerDies, DeadMoved,
                      serverVars
<1>16. ASSUME Tick PROVE Mailed /\ forgets' = forgets
  BY <1>16 DEF Tick, counters
<1>17. ASSUME UNCHANGED vars PROVE Mailed /\ forgets' = forgets
  BY <1>17 DEF vars, counters
<1> HIDE DEF Mailed
<1> QED BY <1>1, <1>2, <1>3, <1>4, <1>5, <1>6, <1>8, <1>9, <1>11, <1>12, <1>14, <1>15, <1>16,
           <1>17, NextCases


(* Sending, delaying and time leave the messages what they are: same       *)
(* numbers, tasks and attempts, one for one.                               *)
LEMMA MailedStream ==
    ASSUME TypeOK, Mailed
    PROVE  /\ stream' \subseteq Messages /\ UNCHANGED <<lastSeq, ids, dlq, lastDead>>
           /\ \A m \in stream' : \E k \in stream : Same(k, m)
           /\ \A k \in stream : \E m \in stream' : Same(k, m)
           /\ \A m, n \in stream' : \A k \in stream : Same(k, m) /\ Same(k, n) /\
                 (\A l \in stream : Same(k, l) => k = l) => m = n
<1>0. stream \subseteq Messages
  BY DEF TypeOK, ServerTypeOK
<1>1. CASE UNCHANGED serverVars
  BY <1>0, <1>1 DEF serverVars, Same
<1>2. ASSUME NEW seq \in Nat, NEW d \in Nat, Redeliver(seq, d)
      PROVE  /\ stream' = {Turned(m, seq, d) : m \in stream}
             /\ UNCHANGED <<lastSeq, ids, dlq, lastDead>>
  BY <1>2 DEF Redeliver, Turned
<1>3. ASSUME ServerTick
      PROVE  /\ stream' = {Ticked(m) : m \in stream} /\ UNCHANGED <<lastSeq, ids, dlq, lastDead>>
  BY <1>3 DEF ServerTick, Ticked
<1>4. ASSUME NEW seq \in Nat, NEW d \in Nat, NEW m \in stream
      PROVE  Turned(m, seq, d) \in Messages /\ Same(m, Turned(m, seq, d))
  BY <1>0, TurnedFacts
<1>5. ASSUME NEW m \in stream PROVE Ticked(m) \in Messages /\ Same(m, Ticked(m))
  BY <1>0, TickedFacts
<1>6. CASE \E seq \in Nat, d \in Nat : Redeliver(seq, d)
  <2>1. PICK seq \in Nat, d \in Nat : Redeliver(seq, d)
    BY <1>6
  <2> QED BY <1>2, <1>4, <2>1 DEF Same
<1>7. CASE ServerTick
  BY <1>3, <1>5, <1>7 DEF Same
<1> QED BY <1>1, <1>6, <1>7 DEF Mailed

(* What is stored, and what not.                                           *)
LEMMA StoredStream ==
    ASSUME TypeOK, NEW t \in Tasks, NEW n \in Nat, NEW wait \in Nat, Store(t, n, wait)
    PROVE  \E x \in Messages : /\ stream' = stream \cup {x} /\ x.seq = lastSeq + 1
                               /\ x.task = t /\ x.attempts = n /\ ~ x.sent
                               /\ lastSeq' = lastSeq + 1
<1> DEFINE x == [seq |-> lastSeq + 1, task |-> t, attempts |-> n, wait |-> wait,
                 sent |-> FALSE, left |-> 0]
<1>1. stream' = stream \cup {x} /\ lastSeq' = lastSeq + 1 /\ lastSeq \in Nat
  BY DEF Store, TypeOK, ServerTypeOK
<1>2. x \in Messages
  BY <1>1 DEF Messages
<1>3. x.seq = lastSeq + 1 /\ x.task = t /\ x.attempts = n /\ ~ x.sent
  OBVIOUS
<1> HIDE DEF x
<1> QED BY <1>1, <1>2, <1>3

(* A publish adds one message under the next number, or is suppressed      *)
(* because its ID is remembered.                                           *)
LEMMA PublishedStream ==
    ASSUME TypeOK, Stored
    PROVE  \/ UNCHANGED serverVars
           \/ \E t \in Tasks, n \in Nat, x \in Messages :
                /\ stream' = stream \cup {x} /\ x.seq = lastSeq + 1 /\ lastSeq' = lastSeq + 1
                /\ x.task = t /\ x.attempts = n /\ ~ x.sent
                /\ \/ n = 0 /\ ids' = ids
                   \/ <<t, n>> \notin ids /\ ids' = ids \cup {<<t, n>>}
                /\ UNCHANGED <<dlq, lastDead>>
<1>1. ASSUME NEW t \in Tasks, NEW wait \in Nat, Publish(t, 0, wait)
      PROVE  \E x \in Messages :
                /\ stream' = stream \cup {x} /\ x.seq = lastSeq + 1 /\ lastSeq' = lastSeq + 1
                /\ x.task = t /\ x.attempts = 0 /\ ~ x.sent
                /\ ids' = ids /\ UNCHANGED <<dlq, lastDead>>
  BY <1>1, StoredStream DEF Publish
<1>2. ASSUME NEW t \in Tasks, NEW n \in Nat, NEW wait \in Nat, PublishOnce(t, n, wait, <<t, n>>),
             ~ UNCHANGED serverVars
      PROVE  \E x \in Messages :
                /\ stream' = stream \cup {x} /\ x.seq = lastSeq + 1 /\ lastSeq' = lastSeq + 1
                /\ x.task = t /\ x.attempts = n /\ ~ x.sent
                /\ <<t, n>> \notin ids /\ ids' = ids \cup {<<t, n>>}
                /\ UNCHANGED <<dlq, lastDead>>
  BY <1>2, StoredStream DEF PublishOnce
<1> QED BY <1>1, <1>2 DEF Stored

(* The server keeps its types.                                             *)
LEMMA ServerType ==
    ASSUME TypeOK, Lifecycle, [Next]_vars
    PROVE  ServerTypeOK'
<1>0. ServerTypeOK
  BY DEF TypeOK
<1>1. CASE Mailed
  BY <1>0, <1>1, MailedStream DEF ServerTypeOK
<1>2. CASE UNCHANGED serverVars
  BY <1>0, <1>2 DEF ServerTypeOK, serverVars
<1>3. ASSUME NEW t \in Tasks, NEW n \in Nat, NEW x \in Messages,
             stream' = stream \cup {x}, lastSeq' = lastSeq + 1,
             ids' = ids \/ ids' = ids \cup {<<t, n>>}, UNCHANGED <<dlq, lastDead>>
      PROVE  ServerTypeOK'
  <2>1. <<t, n>> \in MsgIDs
    BY DEF MsgIDs
  <2> QED BY <1>0, <1>3, <2>1 DEF ServerTypeOK
<1>4. CASE Stored
  BY <1>2, <1>3, <1>4, PublishedStream
<1>5. CASE DeadMoved
  <2>1. ASSUME NEW t \in Tasks, NEW n \in Nat, PublishDead(t, n) PROVE ServerTypeOK'
    <3>1. [seq |-> lastDead + 1, task |-> t, attempts |-> n] \in DeadEntries
      BY <1>0 DEF ServerTypeOK, DeadEntries
    <3> QED BY <1>0, <2>1, <3>1 DEF ServerTypeOK, PublishDead
  <2>2. ASSUME NEW seq \in Nat, DeleteMsg(seq) PROVE ServerTypeOK'
    BY <1>0, <2>2 DEF ServerTypeOK, DeleteMsg
  <2> QED BY <1>5, <2>1, <2>2 DEF DeadMoved
<1>6. ASSUME NEW seq \in Nat, Acknowledge(seq) PROVE ServerTypeOK'
  BY <1>0, <1>6 DEF ServerTypeOK, Acknowledge
<1>7. CASE Forgotten
  BY <1>0, <1>7 DEF ServerTypeOK, Forgotten, ForgetIDs
<1> QED BY <1>1, <1>4, <1>5, <1>6, <1>7, ServerCases


-----------------------------------------------------------------------------
(* Types, and the drain of a subscription. *)

(* The slots.                                                              *)
SlotsOK == /\ pc \in [Workers -> {"idle", "start", "handle", "ack"}]
           /\ job \in [Workers -> Deliveries \cup {NoJob}]
           /\ beat \in [Workers -> Nat]
           /\ \A w \in Workers : pc[w] # "idle" => job[w] \in Deliveries

(* The subscriptions.                                                      *)
SubsOK == /\ inbox \in [Procs -> SUBSET Deliveries]
          /\ sub \in [Procs -> {"idle", "running", "unsubscribed", "done"}]
          /\ stopCh \in [Procs -> BOOLEAN]

(* The callers.                                                            *)
OpsOK == /\ op \in [Callers -> Ops]
         /\ \A c \in Callers : op[c].step # "none" => op[c].task \in Tasks

(* What is known of the tasks.                                             *)
TasksOK == /\ maxRetries \in [Tasks -> Nat] /\ tried \in [Tasks -> Nat]
           /\ fate \in [Tasks -> {"none", "open", "handled", "deleted"}]

CountsOK == /\ requeues \in Nat /\ crashes \in Nat /\ faults \in Nat
            /\ lapses \in Nat /\ forgets \in Nat

(* The type invariant, split by who owns the state.                        *)
LEMMA Typed ==
    TypeOK /\ Lifecycle <=> ServerTypeOK /\ SlotsOK /\ SubsOK /\ OpsOK /\ TasksOK /\ CountsOK
BY DEF TypeOK, Lifecycle, SlotsOK, SubsOK, OpsOK, TasksOK, CountsOK

(* The slots keep their types, and a busy slot holds a delivery.           *)
LEMMA SlotsStep ==
    ASSUME SlotsOK, SubsOK, [Next]_vars
    PROVE  SlotsOK'
<1>1. ASSUME UNCHANGED slotVars PROVE SlotsOK'
  BY <1>1 DEF SlotsOK, slotVars
<1>2. ASSUME NEW w \in Workers, Finish(w) PROVE SlotsOK'
  BY <1>2 DEF SlotsOK, Finish
<1>3. ASSUME NEW w \in Workers, ThenAck(w), pc[w] = "handle" PROVE SlotsOK'
  BY <1>3 DEF SlotsOK, ThenAck
<1>4. ASSUME NEW w \in Workers, NEW d \in inbox[ProcOf[w]], Dispatch(w, d) PROVE SlotsOK'
  <2>1. d \in Deliveries
    BY DeploymentAssumption DEF SubsOK
  <2> QED BY <1>4, <2>1 DEF SlotsOK, Dispatch
<1>5. ASSUME NEW w \in Workers, Start(w) PROVE SlotsOK'
  <2>1. job[w] \in Deliveries
    BY <1>5 DEF SlotsOK, Start
  <2> DEFINE j == [job[w] EXCEPT !.attempts = @ + 1]
  <2>2. j \in Deliveries
    BY <2>1 DEF Deliveries
  <2>3. job' = [job EXCEPT ![w] = j]
    BY <1>5 DEF Start
  <2>4. PICK n \in Nat : beat' = [beat EXCEPT ![w] = n]
    BY <1>5, IntervalType DEF Start
  <2> HIDE DEF j
  <2> QED BY <1>5, <2>2, <2>3, <2>4 DEF SlotsOK, Start
<1>6. ASSUME NEW w \in Workers, Heartbeat(w) PROVE SlotsOK'
  BY <1>6, IntervalType DEF SlotsOK, Heartbeat
<1>7. ASSUME NEW p \in Procs, Crash(p) PROVE SlotsOK'
  BY <1>7 DEF SlotsOK, Crash
<1>8. ASSUME Tick PROVE SlotsOK'
  <2>1. \A w \in Workers : job'[w] = Sooner(job[w]) /\ beat'[w] = CountDown(beat[w])
    BY <1>8 DEF Tick
  <2>2. \A w \in Workers : beat'[w] \in Nat
    BY <2>1 DEF SlotsOK, CountDown
  <2>3. \A w \in Workers : /\ job'[w] \in Deliveries \cup {NoJob}
                           /\ job[w] \in Deliveries => job'[w] \in Deliveries
    BY <2>1, DeliveryFacts, NoJobFacts DEF SlotsOK
  <2> QED BY <1>8, <2>2, <2>3 DEF SlotsOK, Tick
<1>9. ASSUME NEW t \in Tasks, (\E o \in EnqueueInputs : Enqueue(t, o)) \/ Forget(t)
      PROVE  SlotsOK'
  BY <1>1, <1>9 DEF Enqueue, Forget
<1>10. ASSUME NEW p \in Procs, Consume(p) \/ Stop(p) \/ Unsubscribe(p) \/ CloseDone(p)
       PROVE  SlotsOK'
  BY <1>1, <1>10 DEF Consume, Stop, Unsubscribe, CloseDone
<1>11. ASSUME NEW p \in Procs,
              (\E m \in stream : Deliver(p, m)) \/ (\E d \in inbox[p] : HandBack(p, d))
       PROVE  SlotsOK'
  BY <1>1, <1>11 DEF Deliver, HandBack
<1>12. ASSUME NEW w \in Workers, Delay(w) \/ Ack(w) \/ PublishFails(w) PROVE SlotsOK'
  BY <1>2, <1>12 DEF Delay, Ack, PublishFails
<1>13. ASSUME NEW w \in Workers, HandlerSucceeds(w) \/ HandlerFails(w) PROVE SlotsOK'
  BY <1>3, <1>13 DEF HandlerSucceeds, HandlerFails
<1>14. ASSUME NEW c \in Callers,
              \/ \E e \in dlq : FindToRequeue(c, e) \/ FindToDelete(c, e)
              \/ PublishRequeued(c) \/ PublishRequeuedFails(c)
              \/ DeletePublished(c) \/ DeleteDead(c) \/ CallerDies(c)
       PROVE  SlotsOK'
  BY <1>1, <1>14 DEF FindToRequeue, FindToDelete, PublishRequeued, PublishRequeuedFails,
                     DeletePublished, DeleteDead, CallerDies
<1>15. CASE UNCHANGED vars
  BY <1>1, <1>15 DEF vars
<1> QED BY <1>4, <1>5, <1>6, <1>7, <1>8, <1>9, <1>10, <1>11, <1>12, <1>13, <1>14, <1>15, NextCases

(* Deliveries are added to an inbox by the server only.                    *)
LEMMA SubsStep ==
    ASSUME ServerTypeOK, SubsOK, [Next]_vars
    PROVE  SubsOK'
<1>1. ASSUME UNCHANGED subVars PROVE SubsOK'
  BY <1>1 DEF SubsOK, subVars
<1>2. ASSUME NEW p \in Procs, NEW d, Take(p, d), UNCHANGED <<sub, stopCh>> PROVE SubsOK'
  BY <1>2 DEF SubsOK, Take
<1>3. ASSUME NEW p \in Procs, NEW m \in stream, Deliver(p, m) PROVE SubsOK'
  <2>1. [seq |-> m.seq, task |-> m.task, attempts |-> m.attempts, wait |-> m.wait] \in Deliveries
    BY MessageFacts DEF ServerTypeOK, Deliveries
  <2> QED BY <1>3, <2>1 DEF SubsOK, Deliver
<1>4. ASSUME NEW p \in Procs,
             Consume(p) \/ Stop(p) \/ Unsubscribe(p) \/ CloseDone(p) \/ Crash(p)
      PROVE  SubsOK'
  BY <1>4 DEF SubsOK, Consume, Stop, Unsubscribe, CloseDone, Crash
<1>5. ASSUME Tick PROVE SubsOK'
  <2>1. \A p \in Procs : \A d \in inbox[p] : Sooner(d) \in Deliveries
    BY DeliveryFacts DEF SubsOK
  <2> QED BY <1>5, <2>1 DEF SubsOK, Tick
<1>6. ASSUME NEW t \in Tasks, (\E o \in EnqueueInputs : Enqueue(t, o)) \/ Forget(t)
      PROVE  SubsOK'
  BY <1>1, <1>6 DEF Enqueue, Forget
<1>7. ASSUME NEW p \in Procs, NEW d \in inbox[p], HandBack(p, d) PROVE SubsOK'
  BY <1>2, <1>7 DEF HandBack
<1>8. ASSUME NEW w \in Workers, NEW d \in inbox[ProcOf[w]], Dispatch(w, d) PROVE SubsOK'
  BY <1>2, <1>8, DeploymentAssumption DEF Dispatch
<1>9. ASSUME NEW w \in Workers, \/ Delay(w) \/ Start(w) \/ Heartbeat(w) \/ Ack(w)
                                \/ HandlerSucceeds(w) \/ HandlerFails(w) \/ PublishFails(w)
      PROVE  SubsOK'
  BY <1>1, <1>9 DEF Delay, Start, Heartbeat, Ack, HandlerSucceeds, HandlerFails, PublishFails,
                    ThenAck
<1>10. ASSUME NEW c \in Callers,
              \/ \E e \in dlq : FindToRequeue(c, e) \/ FindToDelete(c, e)
              \/ PublishRequeued(c) \/ PublishRequeuedFails(c)
              \/ DeletePublished(c) \/ DeleteDead(c) \/ CallerDies(c)
       PROVE  SubsOK'
  BY <1>1, <1>10 DEF FindToRequeue, FindToDelete, PublishRequeued, PublishRequeuedFails,
                     DeletePublished, DeleteDead, CallerDies
<1>11. CASE UNCHANGED vars
  BY <1>1, <1>11 DEF vars
<1> QED BY <1>3, <1>4, <1>5, <1>6, <1>7, <1>8, <1>9, <1>10, <1>11, NextCases


(* So do the calls in progress.                                            *)
LEMMA OpsStep ==
    ASSUME ServerTypeOK, OpsOK, [Next]_vars
    PROVE  OpsOK'
<1>1. ASSUME UNCHANGED op PROVE OpsOK'
  BY <1>1 DEF OpsOK
<1>2. NoOp \in Ops /\ NoOp.step = "none"
  BY DEF NoOp, Ops
<1>3. ASSUME NEW c \in Callers, NEW e \in dlq, NEW step \in {"publish", "delete"}, Begin(c, e, step)
      PROVE  OpsOK'
  <2>1. e.seq \in Nat /\ e.task \in Tasks
    BY DEF ServerTypeOK, DeadEntries
  <2> DEFINE o == [step |-> step, seq |-> e.seq, task |-> e.task]
  <2>2. o \in Ops /\ o.task \in Tasks
    BY <2>1 DEF Ops
  <2>3. op' = [op EXCEPT ![c] = o]
    BY <1>3 DEF Begin
  <2> HIDE DEF o
  <2> QED BY <2>2, <2>3 DEF OpsOK
<1>4. ASSUME NEW c \in Callers, Call(c, "none") PROVE OpsOK'
  BY <1>2, <1>4 DEF OpsOK, Call
<1>5. ASSUME NEW c \in Callers, op[c].step = "publish", Call(c, "finish") PROVE OpsOK'
  <2> DEFINE o == [op[c] EXCEPT !.step = "finish"]
  <2>1. op[c] \in Ops /\ op[c].task \in Tasks
    BY <1>5 DEF OpsOK
  <2>2. o \in Ops /\ o.task = op[c].task
    BY <2>1 DEF Ops
  <2>3. op' = [op EXCEPT ![c] = o]
    BY <1>5 DEF Call
  <2> HIDE DEF o
  <2> QED BY <2>1, <2>2, <2>3 DEF OpsOK
<1>6. ASSUME NEW c \in Callers, NEW e \in dlq, FindToRequeue(c, e) \/ FindToDelete(c, e)
      PROVE  OpsOK'
  BY <1>3, <1>6 DEF FindToRequeue, FindToDelete
<1>7. ASSUME NEW c \in Callers,
             PublishRequeuedFails(c) \/ DeletePublished(c) \/ DeleteDead(c) \/ CallerDies(c)
      PROVE  OpsOK'
  BY <1>4, <1>7 DEF PublishRequeuedFails, DeletePublished, DeleteDead, CallerDies
<1>8. ASSUME NEW c \in Callers, PublishRequeued(c) PROVE OpsOK'
  BY <1>5, <1>8 DEF PublishRequeued
<1>9. ASSUME NEW t \in Tasks, (\E o \in EnqueueInputs : Enqueue(t, o)) \/ Forget(t)
      PROVE  OpsOK'
  BY <1>1, <1>9 DEF Enqueue, Forget
<1>10. ASSUME NEW p \in Procs,
              \/ Consume(p) \/ Stop(p) \/ Unsubscribe(p) \/ CloseDone(p) \/ Crash(p)
              \/ (\E m \in stream : Deliver(p, m)) \/ (\E d \in inbox[p] : HandBack(p, d))
       PROVE  OpsOK'
  BY <1>1, <1>10 DEF Consume, Stop, Unsubscribe, CloseDone, Crash, Deliver, HandBack
<1>11. ASSUME NEW w \in Workers, \/ \E d \in inbox[ProcOf[w]] : Dispatch(w, d)
                                 \/ Delay(w) \/ Start(w) \/ Heartbeat(w) \/ Ack(w)
                                 \/ HandlerSucceeds(w) \/ HandlerFails(w) \/ PublishFails(w)
       PROVE  OpsOK'
  BY <1>1, <1>11 DEF Dispatch, Delay, Start, Heartbeat, Ack, HandlerSucceeds, HandlerFails,
                     PublishFails, ThenAck
<1>12. CASE Tick \/ UNCHANGED vars
  BY <1>1, <1>12 DEF Tick, vars
<1> QED BY <1>6, <1>7, <1>8, <1>9, <1>10, <1>11, <1>12, NextCases

(* So does what is noted of the tasks.                                     *)
LEMMA TasksStep ==
    ASSUME SlotsOK, OpsOK, TasksOK, [Next]_vars
    PROVE  TasksOK'
<1>1. ASSUME UNCHANGED taskVars PROVE TasksOK'
  BY <1>1 DEF TasksOK, taskVars
<1>2. ASSUME NEW t \in Tasks, NEW i \in EnqueueInputs, Enqueue(t, i) PROVE TasksOK'
  <2>1. PICK n \in Nat : maxRetries' = [maxRetries EXCEPT ![t] = n]
    BY <1>2, InputType DEF Enqueue
  <2> QED BY <1>2, <2>1 DEF TasksOK, Enqueue
<1>3. ASSUME NEW w \in Workers, pc[w] # "idle" PROVE job[w].task \in Tasks /\ job[w].attempts \in Nat
  BY <1>3, DeliveryFacts DEF SlotsOK
<1>4. ASSUME NEW w \in Workers, Start(w) PROVE TasksOK'
  <2>1. job[w].task \in Tasks /\ job[w].attempts + 1 \in Nat
    BY <1>3, <1>4 DEF Start
  <2> QED BY <1>4, <2>1 DEF TasksOK, Start
<1>5. ASSUME NEW w \in Workers, HandlerSucceeds(w) PROVE TasksOK'
  BY <1>3, <1>5 DEF TasksOK, HandlerSucceeds
<1>6. ASSUME NEW c \in Callers, PublishRequeued(c) \/ DeleteDead(c) PROVE TasksOK'
  BY <1>6 DEF TasksOK, OpsOK, PublishRequeued, DeleteDead
<1>7. ASSUME NEW t \in Tasks, Forget(t) PROVE TasksOK'
  BY <1>1, <1>7 DEF Forget
<1>8. ASSUME NEW p \in Procs,
              \/ Consume(p) \/ Stop(p) \/ Unsubscribe(p) \/ CloseDone(p) \/ Crash(p)
              \/ (\E m \in stream : Deliver(p, m)) \/ (\E d \in inbox[p] : HandBack(p, d))
       PROVE  TasksOK'
  BY <1>1, <1>8 DEF Consume, Stop, Unsubscribe, CloseDone, Crash, Deliver, HandBack
<1>9. ASSUME NEW w \in Workers, \/ \E d \in inbox[ProcOf[w]] : Dispatch(w, d)
                                \/ Delay(w) \/ Heartbeat(w) \/ Ack(w)
                                \/ HandlerFails(w) \/ PublishFails(w)
       PROVE  TasksOK'
  BY <1>1, <1>9 DEF Dispatch, Delay, Heartbeat, Ack, HandlerFails, PublishFails
<1>10. ASSUME NEW c \in Callers,
              \/ \E e \in dlq : FindToRequeue(c, e) \/ FindToDelete(c, e)
              \/ PublishRequeuedFails(c) \/ DeletePublished(c) \/ CallerDies(c)
       PROVE  TasksOK'
  BY <1>1, <1>10 DEF FindToRequeue, FindToDelete, PublishRequeuedFails, DeletePublished, CallerDies
<1>11. CASE Tick \/ UNCHANGED vars
  BY <1>1, <1>11 DEF Tick, vars
<1> QED BY <1>2, <1>4, <1>5, <1>6, <1>7, <1>8, <1>9, <1>10, <1>11, NextCases

(* So do the counters.                                                     *)
LEMMA CountsStep ==
    ASSUME CountsOK, [Next]_vars
    PROVE  CountsOK'
<1>1. ASSUME NEW t \in Tasks, (\E o \in EnqueueInputs : Enqueue(t, o)) \/ Forget(t)
      PROVE  CountsOK'
  BY <1>1 DEF CountsOK, counters, Enqueue, Forget
<1>2. ASSUME NEW p \in Procs,
              \/ Consume(p) \/ Stop(p) \/ Unsubscribe(p) \/ CloseDone(p) \/ Crash(p)
              \/ (\E m \in stream : Deliver(p, m)) \/ (\E d \in inbox[p] : HandBack(p, d))
       PROVE  CountsOK'
  BY <1>2 DEF CountsOK, counters, Consume, Stop, Unsubscribe, CloseDone, Crash, Deliver, HandBack,
              Fault
<1>3. ASSUME NEW w \in Workers, \/ \E d \in inbox[ProcOf[w]] : Dispatch(w, d)
                                \/ Delay(w) \/ Start(w) \/ Heartbeat(w) \/ Ack(w)
                                \/ HandlerSucceeds(w) \/ HandlerFails(w) \/ PublishFails(w)
       PROVE  CountsOK'
  BY <1>3 DEF CountsOK, counters, Dispatch, Delay, Start, Heartbeat, Ack, HandlerSucceeds,
              HandlerFails, PublishFails, ThenAck, Fault
<1>4. ASSUME NEW c \in Callers,
              \/ \E e \in dlq : FindToRequeue(c, e) \/ FindToDelete(c, e)
              \/ PublishRequeued(c) \/ PublishRequeuedFails(c)
              \/ DeletePublished(c) \/ DeleteDead(c) \/ CallerDies(c)
       PROVE  CountsOK'
  BY <1>4 DEF CountsOK, counters, FindToRequeue, FindToDelete, PublishRequeued,
              PublishRequeuedFails, DeletePublished, DeleteDead, CallerDies, Fault
<1>5. CASE Tick \/ UNCHANGED vars
  BY <1>5 DEF CountsOK, counters, Tick, vars
<1> QED BY <1>1, <1>2, <1>3, <1>4, <1>5, NextCases

(* Every step keeps the types.                                             *)
LEMMA TypeStep ==
    ASSUME TypeOK, Lifecycle, [Next]_vars
    PROVE  TypeOK' /\ Lifecycle'
<1>1. ServerTypeOK /\ SlotsOK /\ SubsOK /\ OpsOK /\ TasksOK /\ CountsOK
  BY Typed
<1>2. ServerTypeOK' /\ SlotsOK' /\ SubsOK' /\ OpsOK' /\ TasksOK' /\ CountsOK'
  BY <1>1, ServerType, SlotsStep, SubsStep, OpsStep, TasksStep, CountsStep
<1> QED BY <1>2 DEF TypeOK, Lifecycle, SlotsOK, SubsOK, OpsOK, TasksOK, CountsOK

(* They hold initially.                                                    *)
LEMMA TypeInit == Init => TypeOK /\ Lifecycle
<1> SUFFICES ASSUME Init PROVE TypeOK /\ Lifecycle
  OBVIOUS
<1>1. NoOp \in Ops /\ NoOp.step = "none"
  BY DEF NoOp, Ops
<1>2. ServerTypeOK
  BY DEF Init, ServerInit, ServerTypeOK
<1>3. SlotsOK /\ SubsOK /\ OpsOK /\ TasksOK /\ CountsOK
  BY <1>1 DEF Init, SlotsOK, SubsOK, OpsOK, TasksOK, CountsOK
<1> QED BY <1>2, <1>3, Typed


(* A drained subscription stays drained.                                   *)
LEMMA QuietStep ==
    ASSUME TypeOK, StoppedIsQuiet, [Next]_vars
    PROVE  StoppedIsQuiet'
<1> SUFFICES ASSUME NEW p \in Procs, sub'[p] = "done"
             PROVE  inbox'[p] = {} /\ \A w \in WorkersOf(p) : pc'[w] = "idle"
  BY DEF StoppedIsQuiet, WorkersOf
<1> DEFINE Goal == inbox'[p] = {} /\ \A w \in WorkersOf(p) : pc'[w] = "idle"
<1>0. /\ p \in Procs
      /\ pc \in [Workers -> {"idle", "start", "handle", "ack"}]
      /\ inbox \in [Procs -> SUBSET Deliveries]
      /\ sub \in [Procs -> {"idle", "running", "unsubscribed", "done"}]
  BY DEF TypeOK
<1>1. ASSUME sub[p] = "done" PROVE inbox[p] = {} /\ \A w \in WorkersOf(p) : pc[w] = "idle"
  BY <1>1 DEF StoppedIsQuiet
<1>2. ASSUME sub[p] = "done", inbox'[p] = inbox[p], \A w \in WorkersOf(p) : pc'[w] = pc[w] PROVE Goal
  BY <1>1, <1>2
<1>3. ASSUME NEW q \in Procs, Consume(q) \/ Stop(q) \/ Unsubscribe(q) \/ CloseDone(q) PROVE Goal
  BY <1>0, <1>1, <1>3 DEF Consume, Stop, Unsubscribe, CloseDone, slotVars, WorkersOf
<1>4. ASSUME NEW q \in Procs, Crash(q) PROVE Goal
  BY <1>0, <1>1, <1>4 DEF Crash, WorkersOf
<1>5. ASSUME NEW q \in Procs, NEW m \in stream, Deliver(q, m) PROVE Goal
  BY <1>0, <1>2, <1>5 DEF Deliver, slotVars
<1>6. ASSUME NEW q \in Procs, NEW d \in inbox[q], HandBack(q, d) PROVE Goal
  BY <1>0, <1>1, <1>2, <1>6 DEF HandBack, Take, slotVars
<1>7. ASSUME NEW v \in Workers, NEW d \in inbox[ProcOf[v]], Dispatch(v, d) PROVE Goal
  <2>1. sub[p] = "done" /\ v \notin WorkersOf(p) /\ ProcOf[v] # p /\ ProcOf[v] \in Procs
    BY <1>1, <1>7, DeploymentAssumption DEF Dispatch, WorkersOf
  <2> QED BY <1>0, <1>2, <1>7, <2>1 DEF Dispatch, Take, WorkersOf
<1>8. ASSUME NEW v \in Workers, \/ Delay(v) \/ Start(v) \/ Heartbeat(v) \/ Ack(v)
                                \/ HandlerSucceeds(v) \/ HandlerFails(v) \/ PublishFails(v)
      PROVE  Goal
  <2>1. UNCHANGED subVars /\ pc[v] # "idle" /\ \A w \in Workers : w # v => pc'[w] = pc[w]
    BY <1>0, <1>8 DEF Delay, Start, Heartbeat, Ack, HandlerSucceeds, HandlerFails, PublishFails,
                      ThenAck, Finish
  <2>2. sub[p] = "done" /\ v \notin WorkersOf(p)
    BY <1>1, <2>1 DEF subVars
  <2> QED BY <1>2, <2>1, <2>2 DEF subVars, WorkersOf
<1>9. ASSUME NEW t \in Tasks, (\E o \in EnqueueInputs : Enqueue(t, o)) \/ Forget(t) PROVE Goal
  BY <1>2, <1>9 DEF Enqueue, Forget, slotVars, subVars
<1>10. ASSUME NEW c \in Callers,
              \/ \E e \in dlq : FindToRequeue(c, e) \/ FindToDelete(c, e)
              \/ PublishRequeued(c) \/ PublishRequeuedFails(c)
              \/ DeletePublished(c) \/ DeleteDead(c) \/ CallerDies(c)
       PROVE  Goal
  <2>1. UNCHANGED <<slotVars, subVars>>
    BY <1>10 DEF FindToRequeue, FindToDelete, PublishRequeued, PublishRequeuedFails,
                 DeletePublished, DeleteDead, CallerDies
  <2> QED BY <1>2, <2>1 DEF slotVars, subVars
<1>11. ASSUME Tick PROVE Goal
  <2>1. sub[p] = "done" /\ pc' = pc /\ inbox'[p] = {Sooner(d) : d \in inbox[p]}
    BY <1>11 DEF Tick
  <2> QED BY <1>1, <2>1
<1>12. ASSUME UNCHANGED vars PROVE Goal
  BY <1>2, <1>12 DEF vars, slotVars, subVars
<1> HIDE DEF Goal
<1>13. Goal
  BY <1>3, <1>4, <1>5, <1>6, <1>7, <1>8, <1>9, <1>10, <1>11, <1>12, NextCases
<1> QED BY <1>13 DEF Goal

-----------------------------------------------------------------------------
(* Duplicate suppression. *)

(* Until a duplicate window has passed, the ID of every retry in the       *)
(* stream is remembered.                                                   *)
RetryNamed == forgets = 0 => \A m \in stream : m.attempts > 0 => <<m.task, m.attempts>> \in ids

(* A step stores a retry only under an ID that is not remembered, so the   *)
(* stored retries stay apart.                                              *)
LEMMA RetryStep ==
    ASSUME TypeOK, Lifecycle, RetryNamed, RetryStoredOnce, [Next]_vars
    PROVE  RetryNamed' /\ RetryStoredOnce'
<1> SUFFICES ASSUME forgets' = 0
             PROVE  /\ \A m \in stream' : m.attempts > 0 => <<m.task, m.attempts>> \in ids'
                    /\ \A m, n \in stream' :
                         (m.task = n.task /\ m.attempts = n.attempts /\ m.attempts > 0) => m = n
  BY DEF RetryNamed, RetryStoredOnce
<1>0. stream \subseteq Messages /\ forgets \in Nat
  BY DEF TypeOK, ServerTypeOK
<1>1. ~ Forgotten /\ forgets = 0
  BY <1>0, ServerCases DEF Forgotten
<1>2. /\ \A m \in stream : m.attempts > 0 => <<m.task, m.attempts>> \in ids
      /\ \A m, n \in stream :
           (m.task = n.task /\ m.attempts = n.attempts /\ m.attempts > 0) => m = n
  BY <1>1 DEF RetryNamed, RetryStoredOnce
<1> DEFINE Goal == /\ \A m \in stream' : m.attempts > 0 => <<m.task, m.attempts>> \in ids'
                   /\ \A m, n \in stream' :
                        (m.task = n.task /\ m.attempts = n.attempts /\ m.attempts > 0) => m = n
<1>3. ASSUME Mailed PROVE Goal
  <2>1. ids' = ids /\ \A m \in stream' : \E k \in stream : Same(k, m)
    BY <1>3, MailedStream
  <2>2. \A m \in stream' : m.attempts > 0 => <<m.task, m.attempts>> \in ids'
    BY <1>2, <2>1 DEF Same
  <2>3. ASSUME NEW m \in stream', NEW n \in stream',
               m.task = n.task, m.attempts = n.attempts, m.attempts > 0
        PROVE  m = n
    <3>1. PICK k \in stream : Same(k, m)
      BY <2>1
    <3>2. PICK l \in stream : Same(l, n)
      BY <2>1
    <3>3. k = l
      BY <1>2, <2>3, <3>1, <3>2 DEF Same
    <3>4. \A x \in stream : Same(k, x) => k = x
      BY <1>2, <2>3, <3>1 DEF Same
    <3> QED BY <1>3, <3>1, <3>2, <3>3, <3>4, MailedStream
  <2> QED BY <2>2, <2>3
<1>4. ASSUME Stored PROVE Goal
  <2>1. CASE UNCHANGED serverVars
    BY <1>2, <2>1 DEF serverVars
  <2>2. ASSUME NEW t \in Tasks, NEW n \in Nat, NEW x \in Messages,
               stream' = stream \cup {x}, x.task = t, x.attempts = n,
               \/ n = 0 /\ ids' = ids
               \/ <<t, n>> \notin ids /\ ids' = ids \cup {<<t, n>>}
        PROVE  Goal
    BY <1>2, <2>2
  <2> HIDE DEF Goal
  <2> QED BY <1>4, <2>1, <2>2, PublishedStream
<1>5. ASSUME stream' \subseteq stream, ids' = ids PROVE Goal
  BY <1>2, <1>5
<1>6. ASSUME DeadMoved \/ \E seq \in Nat : Acknowledge(seq) PROVE stream' \subseteq stream /\ ids' = ids
  BY <1>6 DEF DeadMoved, PublishDead, DeleteMsg, Acknowledge
<1> HIDE DEF Goal
<1>7. Goal
  BY <1>1, <1>3, <1>4, <1>5, <1>6, ServerCases
<1> QED BY <1>7 DEF Goal

(* The first part of the invariant.                                        *)
IInv == TypeOK /\ Lifecycle /\ StoppedIsQuiet /\ RetryNamed /\ RetryStoredOnce

(* Every step keeps the first invariant.                                   *)
LEMMA IInvStep == IInv /\ [Next]_vars => IInv'
BY TypeStep, QuietStep, RetryStep DEF IInv

(* The inductive invariant of the types, of the drain and of the IDs.      *)
THEOREM InvariantHolds == Spec => []IInv
<1>1. Init => IInv
  <2> SUFFICES ASSUME Init PROVE IInv
    OBVIOUS
  <2>1. StoppedIsQuiet /\ RetryNamed /\ RetryStoredOnce
    BY DEF Init, ServerInit, StoppedIsQuiet, RetryNamed, RetryStoredOnce
  <2> QED BY <2>1, TypeInit DEF IInv
<1> QED BY <1>1, IInvStep, PTL DEF Spec

(* Messages, deliveries, slots, calls and counters keep their types in     *)
(* every step of handleMsg, of the dispatch callback, of the dead-letter   *)
(* operations and of the server: no wait is ever negative, no slot holds a *)
(* delivery it was not given.                                              *)
THEOREM TypeCorrect == Spec => []TypeOK
<1>1. IInv => TypeOK
  BY DEF IInv
<1> QED BY <1>1, InvariantHolds, PTL

(* Done is closed after the last handler of the subscription has returned, *)
(* and no message is dispatched afterwards, for any number of slots.       *)
THEOREM StoppedStaysQuiet == Spec => []StoppedIsQuiet
<1>1. IInv => StoppedIsQuiet
  BY DEF IInv
<1> QED BY <1>1, InvariantHolds, PTL

(* attemptMsgID: within the duplicate window a retry is in the stream      *)
(* once, however often its predecessor is redelivered and fails again.     *)
THEOREM RetriesAreStoredOnce == Spec => []RetryStoredOnce
<1>1. IInv => RetryStoredOnce
  BY DEF IInv
<1> QED BY <1>1, InvariantHolds, PTL


-----------------------------------------------------------------------------
(* No task is lost. *)

(* Messages are numbered, and the tasks they carry were enqueued.          *)
Numbered == /\ \A m \in stream : m.seq <= lastSeq /\ fate[m.task] # "none"
            /\ \A m, n \in stream : m.seq = n.seq => m = n

DeadNumbered == /\ \A e \in dlq : e.seq <= lastDead /\ fate[e.task] # "none"
                /\ \A e, f \in dlq : e.seq = f.seq => e = f

(* A delivery that has counted k attempts, and the message it is of.       *)
Matches(d, k) ==
    /\ d.seq <= lastSeq /\ fate[d.task] # "none"
    /\ \A m \in stream : m.seq = d.seq => m.task = d.task /\ d.attempts = m.attempts + k

Counted(w) == IF pc[w] \in {"handle", "ack"} THEN 1 ELSE 0

Traced == /\ \A p \in Procs : \A d \in inbox[p] : Matches(d, 0)
          /\ \A w \in Workers : pc[w] # "idle" => Matches(job[w], Counted(w))

(* A caller that is busy with an entry knows its task.                     *)
OpsTraced ==
    \A c \in Callers : op[c].step # "none" =>
        /\ op[c].seq <= lastDead /\ fate[op[c].task] # "none"
        /\ \A e \in dlq : e.seq = op[c].seq => e.task = op[c].task

IdsKnown == \A id \in ids : fate[id[1]] # "none"

(* No worker is about to acknowledge m; a caller is about to remove e.     *)
Standing(m) == \A w \in Workers : pc[w] = "ack" => job[w].seq # m.seq
Leaving(e, steps) == \E c \in Callers : op[c].step \in steps /\ op[c].seq = e.seq

(* The task is in a stream, and nobody is about to take it from there.     *)
KeptOn(t) == \/ \E m \in stream : m.task = t /\ Standing(m)
             \/ \E e \in dlq : e.task = t /\ ~ Leaving(e, {"finish"})

(* The task has come as far as its n-th retry and is kept since.           *)
CameTo(t, n) == \/ \E m \in stream : m.task = t /\ m.attempts >= n /\ Standing(m)
                \/ \E e \in dlq : e.task = t /\ ~ Leaving(e, {"publish", "finish"})

Kept == \A t \in Tasks : fate[t] = "open" => KeptOn(t)

(* A remembered ID, whose next publish will be dropped, is of a retry that *)
(* was stored: the task has come that far.                                 *)
Reached == \A id \in ids : fate[id[1]] = "open" => CameTo(id[1], id[2])

Places == Numbered /\ DeadNumbered /\ Traced /\ OpsTraced /\ IdsKnown

(* A failed attempt is handed on.                                          *)
Fails(w) == pc[w] = "handle" /\ HandOn(job[w]) /\ (HandlerFails(w) \/ PublishFails(w))

(* Every step, by what it does to the streams.                             *)
LEMMA StreamCases ==
    ASSUME TypeOK, Lifecycle, [Next]_vars
    PROVE  \/ Mailed
           \/ \E t \in Tasks, i \in EnqueueInputs : Enqueue(t, i)
           \/ \E w \in Workers : Fails(w)
           \/ \E w \in Workers : Ack(w) /\ Acknowledge(job[w].seq)
           \/ \E c \in Callers : PublishRequeued(c)
           \/ \E c \in Callers : (DeletePublished(c) \/ DeleteDead(c)) /\ DeleteMsg(op[c].seq)
           \/ \E t \in Tasks : Forget(t)
<1>1. ASSUME NEW p \in Procs,
             Consume(p) \/ Stop(p) \/ Unsubscribe(p) \/ CloseDone(p) \/ Crash(p)
      PROVE  Mailed
  BY <1>1 DEF Consume, Stop, Unsubscribe, CloseDone, Crash, Mailed
<1>2. ASSUME NEW p \in Procs, NEW m \in stream, Deliver(p, m) PROVE Mailed
  BY <1>2, MessageFacts, ServerAssumption DEF Deliver, TypeOK, ServerTypeOK, Mailed
<1>3. ASSUME NEW p \in Procs, NEW d \in inbox[p], HandBack(p, d) PROVE Mailed
  <2>1. d.seq \in Nat
    BY <1>3, DeliveryFacts DEF TypeOK
  <2> QED BY <1>3, <2>1 DEF HandBack, Mailed
<1>4. ASSUME NEW w \in Workers, NEW d, Dispatch(w, d) PROVE Mailed
  BY <1>4 DEF Dispatch, Mailed
<1>5. ASSUME NEW w \in Workers, pc[w] # "idle" PROVE job[w].seq \in Nat /\ job[w].wait \in Nat
  BY <1>5, DeliveryFacts DEF Lifecycle
<1>6. ASSUME NEW w \in Workers, Delay(w) \/ Start(w) \/ Heartbeat(w) \/ HandlerSucceeds(w)
      PROVE  Mailed
  BY <1>5, <1>6, ServerAssumption DEF Delay, Start, Heartbeat, HandlerSucceeds, Mailed
<1>7. ASSUME NEW w \in Workers, Ack(w) PROVE Mailed \/ Acknowledge(job[w].seq)
  BY <1>7 DEF Ack, Mailed
<1>8. ASSUME NEW w \in Workers, HandlerFails(w) \/ PublishFails(w) PROVE Mailed \/ Fails(w)
  BY <1>8 DEF HandlerFails, PublishFails, Fails, Mailed
<1>9. ASSUME NEW c \in Callers, NEW e \in dlq, FindToRequeue(c, e) \/ FindToDelete(c, e)
      PROVE  Mailed
  BY <1>9 DEF FindToRequeue, FindToDelete, Mailed
<1>10. ASSUME NEW c \in Callers, PublishRequeuedFails(c) \/ CallerDies(c) PROVE Mailed
  BY <1>10 DEF PublishRequeuedFails, CallerDies, Mailed
<1>11. ASSUME NEW c \in Callers, DeletePublished(c) \/ DeleteDead(c)
       PROVE  Mailed \/ DeleteMsg(op[c].seq)
  BY <1>11 DEF DeletePublished, DeleteDead, Mailed, serverVars
<1>12. CASE Tick \/ UNCHANGED vars
  BY <1>12 DEF Tick, Mailed, vars
<1> QED BY <1>1, <1>2, <1>3, <1>4, <1>6, <1>7, <1>8, <1>9, <1>10, <1>11, <1>12, NextCases

(* A task's fate: it opens with Enqueue, and closes for good.              *)
LEMMA FateStep ==
    ASSUME TypeOK, Lifecycle, [Next]_vars
    PROVE  \A t \in Tasks :
             /\ fate[t] # "none" => fate'[t] # "none"
             /\ fate'[t] = "open" => fate[t] = "open" \/ \E i \in EnqueueInputs : Enqueue(t, i)
<1> DEFINE Goal == \A t \in Tasks :
             /\ fate[t] # "none" => fate'[t] # "none"
             /\ fate'[t] = "open" => fate[t] = "open" \/ \E i \in EnqueueInputs : Enqueue(t, i)
<1>0. fate \in [Tasks -> {"none", "open", "handled", "deleted"}]
  BY DEF TypeOK
<1>1. ASSUME fate' = fate PROVE Goal
  BY <1>1
<1>2. ASSUME NEW t \in Tasks, NEW i \in EnqueueInputs, Enqueue(t, i) PROVE Goal
  <2>1. fate' = [fate EXCEPT ![t] = "open"]
    BY <1>2 DEF Enqueue
  <2> QED BY <1>0, <1>2, <2>1
<1>3. ASSUME NEW w \in Workers, HandlerSucceeds(w) PROVE Goal
  <2>1. fate' = [fate EXCEPT ![job[w].task] = IF @ = "deleted" THEN @ ELSE "handled"]
    BY <1>3 DEF HandlerSucceeds
  <2> QED BY <1>0, <2>1
<1>4. ASSUME NEW c \in Callers, DeleteDead(c) PROVE Goal
  <2>1. fate' = fate \/ fate' = [fate EXCEPT ![op[c].task] = "deleted"]
    BY <1>4 DEF DeleteDead
  <2> QED BY <1>0, <2>1
<1> HIDE DEF Goal
<1>5. ASSUME NEW t \in Tasks, Forget(t) PROVE Goal
  BY <1>1, <1>5 DEF Forget, taskVars
<1>6. ASSUME NEW p \in Procs,
              \/ Consume(p) \/ Stop(p) \/ Unsubscribe(p) \/ CloseDone(p) \/ Crash(p)
              \/ (\E m \in stream : Deliver(p, m)) \/ (\E d \in inbox[p] : HandBack(p, d))
       PROVE  Goal
  BY <1>1, <1>6 DEF Consume, Stop, Unsubscribe, CloseDone, Crash, Deliver, HandBack, taskVars
<1>7. ASSUME NEW w \in Workers, \/ \E d \in inbox[ProcOf[w]] : Dispatch(w, d)
                                \/ Delay(w) \/ Start(w) \/ Heartbeat(w) \/ Ack(w)
                                \/ HandlerFails(w) \/ PublishFails(w)
       PROVE  Goal
  BY <1>1, <1>7 DEF Dispatch, Delay, Start, Heartbeat, Ack, HandlerFails, PublishFails, taskVars
<1>8. ASSUME NEW c \in Callers,
              \/ \E e \in dlq : FindToRequeue(c, e) \/ FindToDelete(c, e)
              \/ PublishRequeued(c) \/ PublishRequeuedFails(c) \/ DeletePublished(c) \/ CallerDies(c)
       PROVE  Goal
  BY <1>1, <1>8 DEF FindToRequeue, FindToDelete, PublishRequeued, PublishRequeuedFails,
                    DeletePublished, CallerDies, taskVars
<1>9. ASSUME Tick \/ UNCHANGED vars PROVE Goal
  BY <1>1, <1>9 DEF Tick, vars, taskVars
<1>10. Goal
  BY <1>2, <1>3, <1>4, <1>5, <1>6, <1>7, <1>8, <1>9, NextCases
<1> QED BY <1>10 DEF Goal


(* A task is stored in one step.                                           *)
LEMMA OneMore ==
    ASSUME TypeOK, NEW t \in Tasks, NEW n \in Nat, NEW wait \in Nat,
           Publish(t, n, wait) \/ (<<t, n>> \notin ids /\ PublishOnce(t, n, wait, <<t, n>>))
    PROVE  \E x \in Messages :
             /\ stream' = stream \cup {x} /\ x.seq = lastSeq + 1 /\ lastSeq' = lastSeq + 1
             /\ x.task = t /\ x.attempts = n
             /\ ids' \subseteq ids \cup {<<t, n>>} /\ UNCHANGED <<dlq, lastDead>>
<1>1. Store(t, n, wait) /\ ids' \subseteq ids \cup {<<t, n>>} /\ UNCHANGED <<dlq, lastDead>>
  BY DEF Publish, PublishOnce
<1> QED BY <1>1, StoredStream

(* What is in a stream was there before, or is new and has a new number.   *)
Grown == /\ lastSeq' >= lastSeq /\ lastDead' >= lastDead
         /\ \A m \in stream' : m.seq <= lastSeq => \E k \in stream : Same(k, m)
         /\ \A e \in dlq' : e.seq <= lastDead => e \in dlq

(* Numbers only grow, so that messages and entries keep theirs to          *)
(* themselves, and IDs are of tasks that were enqueued.                    *)
LEMMA NumbersStep ==
    ASSUME TypeOK, Lifecycle, Places, [Next]_vars
    PROVE  Grown /\ (Numbered /\ DeadNumbered /\ IdsKnown)'
<1> DEFINE Goal == Grown /\ (Numbered /\ DeadNumbered /\ IdsKnown)'
<1>0. /\ stream \subseteq Messages /\ lastSeq \in Nat /\ dlq \subseteq DeadEntries
      /\ lastDead \in Nat /\ ids \subseteq MsgIDs
      /\ Numbered /\ DeadNumbered /\ IdsKnown
  BY DEF TypeOK, ServerTypeOK, Places
<1>1. ASSUME NEW m \in stream
      PROVE  m.seq \in Nat /\ m.task \in Tasks /\ m.seq <= lastSeq /\ fate'[m.task] # "none"
  BY <1>0, FateStep, MessageFacts DEF Numbered
<1>2. ASSUME NEW e \in dlq
      PROVE  e.seq \in Nat /\ e.task \in Tasks /\ e.seq <= lastDead /\ fate'[e.task] # "none"
  BY <1>0, FateStep DEF DeadNumbered, DeadEntries
<1>3. ASSUME NEW id \in ids PROVE id[1] \in Tasks /\ fate'[id[1]] # "none"
  BY <1>0, FateStep DEF IdsKnown, MsgIDs
<1>4. ASSUME Mailed PROVE Goal
  <2>1. /\ UNCHANGED <<lastSeq, ids, dlq, lastDead>>
        /\ \A m \in stream' : \E k \in stream : Same(k, m)
        /\ \A m, n \in stream' : \A k \in stream : Same(k, m) /\ Same(k, n) /\
              (\A l \in stream : Same(k, l) => k = l) => m = n
    BY <1>4, MailedStream
  <2>2. Grown
    BY <1>0, <2>1 DEF Grown
  <2>3. ASSUME NEW m \in stream', NEW n \in stream', m.seq = n.seq PROVE m = n
    <3>1. PICK k \in stream, l \in stream : Same(k, m) /\ Same(l, n)
      BY <2>1
    <3>2. k = l /\ \A i \in stream : Same(k, i) => k = i
      BY <1>0, <2>3, <3>1 DEF Numbered, Same
    <3> QED BY <2>1, <3>1, <3>2
  <2>4. ASSUME NEW m \in stream' PROVE m.seq <= lastSeq' /\ fate'[m.task] # "none"
    BY <1>1, <2>1 DEF Same
  <2>5. Numbered'
    BY <2>3, <2>4 DEF Numbered
  <2>6. (DeadNumbered /\ IdsKnown)'
    BY <1>0, <1>2, <1>3, <2>1 DEF DeadNumbered, IdsKnown
  <2> QED BY <2>2, <2>5, <2>6
<1>5. ASSUME NEW t \in Tasks, NEW n \in Nat, NEW wait \in Nat, fate'[t] # "none",
             \/ Publish(t, n, wait)
             \/ PublishOnce(t, n, wait, <<t, n>>) /\ ~ UNCHANGED serverVars
      PROVE  Goal
  <2>1. PICK x \in Messages :
             /\ stream' = stream \cup {x} /\ x.seq = lastSeq + 1 /\ lastSeq' = lastSeq + 1
             /\ x.task = t /\ x.attempts = n
             /\ ids' \subseteq ids \cup {<<t, n>>} /\ UNCHANGED <<dlq, lastDead>>
    BY <1>5, OneMore DEF PublishOnce
  <2>2. Grown
    BY <1>0, <2>1 DEF Grown, Same
  <2>3. Numbered'
    BY <1>0, <1>1, <1>5, <2>1 DEF Numbered
  <2>4. DeadNumbered'
    BY <1>0, <1>2, <2>1 DEF DeadNumbered
  <2>5. IdsKnown'
    BY <1>3, <1>5, <2>1 DEF IdsKnown
  <2> QED BY <2>2, <2>3, <2>4, <2>5
<1>6. ASSUME NEW t \in Tasks, NEW n \in Nat, fate'[t] # "none", PublishDead(t, n) PROVE Goal
  <2>1. PICK x \in DeadEntries : /\ dlq' = dlq \cup {x} /\ x.seq = lastDead + 1 /\ x.task = t
                                 /\ lastDead' = lastDead + 1 /\ UNCHANGED <<stream, lastSeq, ids>>
    <3> DEFINE x == [seq |-> lastDead + 1, task |-> t, attempts |-> n]
    <3>1. x \in DeadEntries /\ x.seq = lastDead + 1 /\ x.task = t
      BY <1>0 DEF DeadEntries
    <3>2. /\ dlq' = dlq \cup {x} /\ lastDead' = lastDead + 1 /\ UNCHANGED <<stream, lastSeq, ids>>
      BY <1>6 DEF PublishDead
    <3> HIDE DEF x
    <3> QED BY <3>1, <3>2
  <2>2. Grown
    BY <1>0, <2>1 DEF Grown, Same
  <2>3. DeadNumbered'
    BY <1>0, <1>2, <1>6, <2>1 DEF DeadNumbered
  <2>4. (Numbered /\ IdsKnown)'
    BY <1>0, <1>1, <1>3, <2>1 DEF Numbered, IdsKnown
  <2> QED BY <2>2, <2>3, <2>4
<1>7. ASSUME stream' \subseteq stream, dlq' \subseteq dlq, ids' \subseteq ids,
             UNCHANGED <<lastSeq, lastDead>>
      PROVE  Goal
  <2>1. Grown
    BY <1>0, <1>7 DEF Grown, Same
  <2>2. (Numbered /\ DeadNumbered /\ IdsKnown)'
    BY <1>0, <1>1, <1>2, <1>3, <1>7 DEF Numbered, DeadNumbered, IdsKnown
  <2> QED BY <2>1, <2>2
<1> HIDE DEF Goal
<1>8. ASSUME UNCHANGED serverVars PROVE Goal
  BY <1>7, <1>8 DEF serverVars
<1>9. ASSUME NEW t \in Tasks, NEW i \in EnqueueInputs, Enqueue(t, i) PROVE Goal
  <2>1. PICK wait \in Nat : PublishOnce(t, 0, wait, <<t, 0>>)
    BY <1>9, InputType DEF Enqueue
  <2>2. fate'[t] # "none"
    BY <1>9 DEF Enqueue, TypeOK
  <2> QED BY <1>5, <1>8, <2>1, <2>2
<1>10. ASSUME NEW w \in Workers, Fails(w) PROVE Goal
  <2>1. job[w] \in Deliveries /\ HandOn(job[w]) /\ fate[job[w].task] # "none"
    BY <1>10 DEF Fails, Lifecycle, Places, Traced, Matches
  <2>2. job[w].task \in Tasks /\ job[w].attempts \in Nat /\ fate'[job[w].task] # "none"
    BY <2>1, DeliveryFacts, FateStep
  <2> QED BY <1>5, <1>6, <1>8, <2>1, <2>2, HandOnCases
<1>11. ASSUME NEW w \in Workers, Acknowledge(job[w].seq) PROVE Goal
  BY <1>7, <1>11 DEF Acknowledge
<1>12. ASSUME NEW c \in Callers, PublishRequeued(c) PROVE Goal
  <2>1. op[c].task \in Tasks /\ fate[op[c].task] # "none" /\ Publish(op[c].task, 0, 0)
    BY <1>12 DEF PublishRequeued, Lifecycle, Places, OpsTraced
  <2> QED BY <1>5, <2>1, FateStep
<1>13. ASSUME NEW c \in Callers, DeleteMsg(op[c].seq) PROVE Goal
  BY <1>7, <1>13 DEF DeleteMsg
<1>14. ASSUME NEW t \in Tasks, Forget(t) PROVE Goal
  BY <1>7, <1>14 DEF Forget, ForgetIDs
<1>15. Goal
  BY <1>4, <1>9, <1>10, <1>11, <1>12, <1>13, <1>14, StreamCases
<1> QED BY <1>15 DEF Goal


(* What waits in an inbox was waiting there, or is of a message.           *)
LEMMA InboxOrigin ==
    ASSUME TypeOK, Lifecycle, [Next]_vars
    PROVE  \A p \in Procs : \A d \in inbox'[p] : \E k \in inbox[p] \cup stream : Same(k, d)
<1> DEFINE Goal == \A p \in Procs : \A d \in inbox'[p] : \E k \in inbox[p] \cup stream : Same(k, d)
<1>0. inbox \in [Procs -> SUBSET Deliveries]
  BY DEF TypeOK
<1>1. ASSUME \A p \in Procs : inbox'[p] \subseteq inbox[p] PROVE Goal
  BY <1>1 DEF Same
<1>2. ASSUME NEW p \in Procs, NEW m \in stream, Deliver(p, m) PROVE Goal
  <2> DEFINE x == [seq |-> m.seq, task |-> m.task, attempts |-> m.attempts, wait |-> m.wait]
  <2>1. inbox' = [inbox EXCEPT ![p] = @ \cup {x}]
    BY <1>2 DEF Deliver
  <2>2. Same(m, x)
    BY DEF Same
  <2> HIDE DEF x
  <2> QED BY <1>0, <2>1, <2>2 DEF Same
<1>3. ASSUME Tick PROVE Goal
  <2>1. \A p \in Procs : inbox'[p] = {Sooner(d) : d \in inbox[p]}
    BY <1>3 DEF Tick
  <2>2. \A p \in Procs : \A d \in inbox[p] : Same(d, Sooner(d))
    BY <1>0, DeliveryFacts DEF Same
  <2> QED BY <2>1, <2>2
<1> HIDE DEF Goal
<1>4. ASSUME inbox' = inbox PROVE Goal
  BY <1>1, <1>4
<1>5. ASSUME NEW t \in Tasks, \/ \E o \in EnqueueInputs : Enqueue(t, o)
                              \/ Forget(t)
      PROVE  Goal
  BY <1>4, <1>5 DEF Enqueue, Forget, subVars
<1>6. ASSUME NEW p \in Procs, Consume(p) \/ Stop(p) \/ CloseDone(p) PROVE Goal
  BY <1>4, <1>6 DEF Consume, Stop, CloseDone
<1>7. ASSUME NEW p \in Procs, Unsubscribe(p) \/ Crash(p) PROVE Goal
  BY <1>0, <1>1, <1>7 DEF Unsubscribe, Crash
<1>8. ASSUME NEW p \in Procs, NEW d \in inbox[p], HandBack(p, d) PROVE Goal
  BY <1>0, <1>1, <1>8 DEF HandBack, Take
<1>9. ASSUME NEW w \in Workers, NEW d, Dispatch(w, d) PROVE Goal
  BY <1>0, <1>1, <1>9, DeploymentAssumption DEF Dispatch, Take
<1>10. ASSUME NEW w \in Workers,
              \/ Delay(w) \/ Start(w) \/ Heartbeat(w) \/ Ack(w)
              \/ HandlerSucceeds(w) \/ HandlerFails(w) \/ PublishFails(w)
       PROVE  Goal
  BY <1>4, <1>10 DEF Delay, Start, Heartbeat, Ack, HandlerSucceeds, HandlerFails, PublishFails,
                     ThenAck, subVars
<1>11. ASSUME NEW c \in Callers,
              \/ \E e \in dlq : FindToRequeue(c, e) \/ FindToDelete(c, e)
              \/ PublishRequeued(c) \/ PublishRequeuedFails(c) \/ DeletePublished(c)
              \/ DeleteDead(c) \/ CallerDies(c)
       PROVE  Goal
  BY <1>4, <1>11 DEF FindToRequeue, FindToDelete, PublishRequeued, PublishRequeuedFails,
                     DeletePublished, DeleteDead, CallerDies, subVars
<1>12. ASSUME UNCHANGED vars PROVE Goal
  BY <1>4, <1>12 DEF vars, subVars
<1>13. Goal
  BY <1>2, <1>3, <1>5, <1>6, <1>7, <1>8, <1>9, <1>10, <1>11, <1>12, NextCases
<1> QED BY <1>13 DEF Goal

(* Where a slot's delivery comes from, and when its attempt is counted.    *)
Held1(w) == \/ pc[w] \in {"start", "handle", "ack"} /\ pc'[w] = pc[w] /\ Same(job[w], job'[w])
            \/ pc[w] = "handle" /\ pc'[w] = "ack" /\ Same(job[w], job'[w])
            \/ /\ pc[w] = "start" /\ pc'[w] = "handle"
               /\ job'[w].seq = job[w].seq /\ job'[w].task = job[w].task
               /\ job'[w].attempts = job[w].attempts + 1
            \/ pc'[w] = "start" /\ job'[w] \in inbox[ProcOf[w]]

(* What a slot holds it held before, or took from its process's inbox.     *)
LEMMA JobOrigin ==
    ASSUME TypeOK, Lifecycle, [Next]_vars
    PROVE  \A w \in Workers : pc'[w] # "idle" => Held1(w)
<1> DEFINE Goal == \A w \in Workers : pc'[w] # "idle" => Held1(w)
<1>0. /\ pc \in [Workers -> {"idle", "start", "handle", "ack"}]
      /\ job \in [Workers -> Deliveries \cup {NoJob}]
  BY DEF TypeOK
<1>1. ASSUME pc' = pc, job' = job PROVE Goal
  BY <1>0, <1>1 DEF Held1, Same
<1>2. ASSUME NEW w \in Workers, Finish(w) PROVE Goal
  BY <1>0, <1>2 DEF Held1, Same, Finish
<1>3. ASSUME NEW w \in Workers, pc[w] = "handle", ThenAck(w) PROVE Goal
  BY <1>0, <1>3 DEF Held1, Same, ThenAck
<1>4. ASSUME NEW w \in Workers, Start(w) PROVE Goal
  <2>1. job[w] \in Deliveries
    BY <1>4 DEF Start, Lifecycle
  <2> DEFINE j == [job[w] EXCEPT !.attempts = @ + 1]
  <2>2. j.seq = job[w].seq /\ j.task = job[w].task /\ j.attempts = job[w].attempts + 1
    BY <2>1 DEF Deliveries
  <2>3. job' = [job EXCEPT ![w] = j] /\ pc' = [pc EXCEPT ![w] = "handle"] /\ pc[w] = "start"
    BY <1>4, <2>1 DEF Start, Deliveries
  <2> HIDE DEF j
  <2> QED BY <1>0, <2>2, <2>3 DEF Held1, Same
<1>5. ASSUME NEW w \in Workers, NEW d \in inbox[ProcOf[w]], Dispatch(w, d) PROVE Goal
  BY <1>0, <1>5 DEF Held1, Same, Dispatch
<1>6. ASSUME NEW p \in Procs, Crash(p) PROVE Goal
  BY <1>0, <1>6 DEF Held1, Same, Crash, WorkersOf
<1>7. ASSUME Tick PROVE Goal
  <2>1. \A w \in Workers : job'[w] = Sooner(job[w]) /\ pc'[w] = pc[w]
    BY <1>7 DEF Tick
  <2>2. \A w \in Workers : pc[w] # "idle" => Same(job[w], Sooner(job[w]))
    BY DeliveryFacts DEF Same, Lifecycle
  <2> QED BY <1>0, <2>1, <2>2 DEF Held1
<1> HIDE DEF Goal
<1>8. ASSUME NEW t \in Tasks, \/ \E o \in EnqueueInputs : Enqueue(t, o)
                              \/ Forget(t)
      PROVE  Goal
  BY <1>1, <1>8 DEF Enqueue, Forget, slotVars
<1>9. ASSUME NEW p \in Procs, \/ Consume(p) \/ Stop(p) \/ Unsubscribe(p) \/ CloseDone(p)
                              \/ \E m \in stream : Deliver(p, m)
                              \/ \E d \in inbox[p] : HandBack(p, d)
      PROVE  Goal
  BY <1>1, <1>9 DEF Consume, Stop, Unsubscribe, CloseDone, Deliver, HandBack, slotVars
<1>10. ASSUME NEW w \in Workers, Delay(w) \/ Ack(w) \/ PublishFails(w) PROVE Goal
  BY <1>2, <1>10 DEF Delay, Ack, PublishFails
<1>11. ASSUME NEW w \in Workers, HandlerSucceeds(w) \/ HandlerFails(w) PROVE Goal
  BY <1>3, <1>11 DEF HandlerSucceeds, HandlerFails
<1>12. ASSUME NEW w \in Workers, Heartbeat(w) PROVE Goal
  BY <1>1, <1>12 DEF Heartbeat
<1>13. ASSUME NEW c \in Callers,
              \/ \E e \in dlq : FindToRequeue(c, e) \/ FindToDelete(c, e)
              \/ PublishRequeued(c) \/ PublishRequeuedFails(c) \/ DeletePublished(c)
              \/ DeleteDead(c) \/ CallerDies(c)
       PROVE  Goal
  BY <1>1, <1>13 DEF FindToRequeue, FindToDelete, PublishRequeued, PublishRequeuedFails,
                     DeletePublished, DeleteDead, CallerDies, slotVars
<1>14. ASSUME UNCHANGED vars PROVE Goal
  BY <1>1, <1>14 DEF vars, slotVars
<1>15. Goal
  BY <1>4, <1>5, <1>6, <1>7, <1>8, <1>9, <1>10, <1>11, <1>12, <1>13, <1>14, NextCases
<1> QED BY <1>15 DEF Goal

(* Which entry a caller is busy with, and how it comes to the next step.   *)
Busy1(c) == \/ op'[c] = op[c]
            \/ /\ PublishRequeued(c) /\ op[c].step = "publish" /\ op'[c].step = "finish"
               /\ op'[c].seq = op[c].seq /\ op'[c].task = op[c].task
            \/ \E e \in dlq : /\ op'[c].seq = e.seq /\ op'[c].task = e.task
                              /\ \/ op'[c].step = "publish" /\ FindToRequeue(c, e)
                                 \/ op'[c].step = "delete"

(* What a caller is busy with it was busy with before, or found in the     *)
(* dead-letter stream.                                                     *)
LEMMA OpOrigin ==
    ASSUME TypeOK, Lifecycle, [Next]_vars
    PROVE  \A c \in Callers : op'[c].step # "none" => Busy1(c)
<1> DEFINE Goal == \A c \in Callers : op'[c].step # "none" => Busy1(c)
<1>0. op \in [Callers -> Ops]
  BY DEF TypeOK
<1>1. ASSUME op' = op PROVE Goal
  BY <1>1 DEF Busy1
<1>2. ASSUME NEW c \in Callers, Call(c, "none") PROVE Goal
  BY <1>0, <1>2 DEF Busy1, Call, NoOp
<1>3. ASSUME NEW c \in Callers, PublishRequeued(c) PROVE Goal
  <2> DEFINE o == [op[c] EXCEPT !.step = "finish"]
  <2>1. op' = [op EXCEPT ![c] = o] /\ op[c].step = "publish"
    BY <1>3 DEF PublishRequeued, Call
  <2>2. o.seq = op[c].seq /\ o.task = op[c].task /\ o.step = "finish"
    BY <1>0 DEF Ops
  <2> HIDE DEF o
  <2> QED BY <1>0, <1>3, <2>1, <2>2 DEF Busy1
<1>4. ASSUME NEW c \in Callers, NEW e \in dlq, FindToRequeue(c, e) \/ FindToDelete(c, e)
      PROVE  Goal
  <2>1. PICK s \in {"publish", "delete"} :
           Begin(c, e, s) /\ (s = "publish" => FindToRequeue(c, e))
    BY <1>4 DEF FindToRequeue, FindToDelete
  <2> DEFINE o == [step |-> s, seq |-> e.seq, task |-> e.task]
  <2>2. op' = [op EXCEPT ![c] = o]
    BY <2>1 DEF Begin
  <2>3. o.seq = e.seq /\ o.task = e.task /\ o.step = s
    OBVIOUS
  <2> HIDE DEF o
  <2> QED BY <1>0, <2>1, <2>2, <2>3 DEF Busy1
<1> HIDE DEF Goal
<1>5. ASSUME NEW c \in Callers,
             PublishRequeuedFails(c) \/ DeletePublished(c) \/ DeleteDead(c) \/ CallerDies(c)
      PROVE  Goal
  BY <1>2, <1>5 DEF PublishRequeuedFails, DeletePublished, DeleteDead, CallerDies
<1>6. ASSUME NEW t \in Tasks, \/ \E o \in EnqueueInputs : Enqueue(t, o)
                              \/ Forget(t)
      PROVE  Goal
  BY <1>1, <1>6 DEF Enqueue, Forget
<1>7. ASSUME NEW p \in Procs, \/ Consume(p) \/ Stop(p) \/ Unsubscribe(p) \/ CloseDone(p) \/ Crash(p)
                              \/ \E m \in stream : Deliver(p, m)
                              \/ \E d \in inbox[p] : HandBack(p, d)
      PROVE  Goal
  BY <1>1, <1>7 DEF Consume, Stop, Unsubscribe, CloseDone, Crash, Deliver, HandBack
<1>8. ASSUME NEW w \in Workers,
             \/ \E d \in inbox[ProcOf[w]] : Dispatch(w, d)
             \/ Delay(w) \/ Start(w) \/ Heartbeat(w) \/ Ack(w)
             \/ HandlerSucceeds(w) \/ HandlerFails(w) \/ PublishFails(w)
      PROVE  Goal
  BY <1>1, <1>8 DEF Dispatch, Delay, Start, Heartbeat, Ack, HandlerSucceeds, HandlerFails,
                    PublishFails, ThenAck
<1>9. ASSUME Tick \/ UNCHANGED vars PROVE Goal
  BY <1>1, <1>9 DEF Tick, vars
<1>10. Goal
  BY <1>3, <1>4, <1>5, <1>6, <1>7, <1>8, <1>9, NextCases
<1> QED BY <1>10 DEF Goal

(* What processes and callers remember of a number stays what was stored   *)
(* under it.                                                               *)
LEMMA PlacesStep ==
    ASSUME TypeOK, Lifecycle, Places, [Next]_vars
    PROVE  Places'
<1>1. Grown /\ (Numbered /\ DeadNumbered /\ IdsKnown)'
  BY NumbersStep
<1>2. TypeOK' /\ Lifecycle'
  BY TypeStep
<1>3. /\ stream \subseteq Messages /\ lastSeq \in Nat /\ dlq \subseteq DeadEntries
      /\ lastDead \in Nat /\ lastSeq' \in Nat /\ lastDead' \in Nat
      /\ stream' \subseteq Messages
      /\ inbox \in [Procs -> SUBSET Deliveries]
  BY <1>2 DEF TypeOK, ServerTypeOK
<1>4. ASSUME NEW k, k.seq \in Nat, k.task \in Tasks, k.attempts \in Nat,
             NEW n \in {0, 1}, Matches(k, n)
      PROVE  /\ k.seq <= lastSeq' /\ fate'[k.task] # "none"
             /\ \A m \in stream' : m.seq = k.seq => m.task = k.task /\ k.attempts = m.attempts + n
  <2>1. k.seq <= lastSeq' /\ fate'[k.task] # "none"
    BY <1>1, <1>3, <1>4, FateStep DEF Grown, Matches
  <2>2. ASSUME NEW m \in stream', m.seq = k.seq PROVE m.task = k.task /\ k.attempts = m.attempts + n
    BY <1>1, <1>3, <1>4, <2>2 DEF Grown, Matches, Same
  <2> QED BY <2>1, <2>2
<1>5. ASSUME NEW p \in Procs, NEW d \in inbox'[p] PROVE Matches(d, 0)'
  <2>1. PICK k \in inbox[p] \cup stream : Same(k, d)
    BY InboxOrigin
  <2>2. k.seq \in Nat /\ k.task \in Tasks /\ k.attempts \in Nat
    BY <1>3, DeliveryFacts, MessageFacts
  <2>3. Matches(k, 0)
    BY <1>3, <2>2, MessageFacts DEF Places, Numbered, Traced, Matches
  <2> QED BY <1>4, <2>1, <2>2, <2>3 DEF Same, Matches
<1>6. ASSUME NEW w \in Workers, pc'[w] # "idle" PROVE Matches(job[w], Counted(w))'
  <2>1. Held1(w)
    BY <1>6, JobOrigin
  <2>2. CASE pc'[w] = "start" /\ job'[w] \in inbox[ProcOf[w]]
    <3>1. PICK k \in inbox[ProcOf[w]] : k = job'[w]
      BY <2>2
    <3>2. k \in Deliveries /\ Matches(k, 0)
      BY <1>3, DeploymentAssumption DEF Places, Traced
    <3>3. k.seq \in Nat /\ k.task \in Tasks /\ k.attempts \in Nat
      BY <3>2, DeliveryFacts
    <3>4. Counted(w)' = 0
      BY <2>2 DEF Counted
    <3> QED BY <1>4, <3>1, <3>2, <3>3, <3>4 DEF Matches
  <2>3. CASE pc[w] # "idle" /\ ~ (pc'[w] = "start" /\ job'[w] \in inbox[ProcOf[w]])
    <3>1. job[w] \in Deliveries /\ Matches(job[w], Counted(w))
      BY <2>3 DEF Lifecycle, Places, Traced
    <3>2. job[w].seq \in Nat /\ job[w].task \in Tasks /\ job[w].attempts \in Nat
      BY <3>1, DeliveryFacts
    <3>3. /\ job[w].seq <= lastSeq' /\ fate'[job[w].task] # "none"
          /\ \A m \in stream' : m.seq = job[w].seq =>
                m.task = job[w].task /\ job[w].attempts = m.attempts + Counted(w)
      BY <1>4, <3>1, <3>2 DEF Counted
    <3>4. /\ job'[w].seq = job[w].seq /\ job'[w].task = job[w].task
          /\ job'[w].attempts + Counted(w) = job[w].attempts + Counted(w)'
      BY <2>1, <2>3, <3>2 DEF Held1, Same, Counted
    <3>5. \A m \in stream' : m.attempts \in Nat
      BY <1>3, MessageFacts
    <3>6. Counted(w) \in {0, 1} /\ Counted(w)' \in {0, 1}
      BY DEF Counted
    <3>7. job'[w].attempts \in Nat
      BY <1>2, <1>6, DeliveryFacts DEF Lifecycle
    <3>8. \A m \in stream' : m.seq = job[w].seq => job'[w].attempts = m.attempts + Counted(w)'
      BY <3>2, <3>3, <3>4, <3>5, <3>6, <3>7
    <3> QED BY <3>3, <3>4, <3>8 DEF Matches
  <2> QED BY <2>1, <2>2, <2>3 DEF Held1
<1>7. ASSUME NEW c \in Callers, op'[c].step # "none"
      PROVE  /\ op'[c].seq <= lastDead' /\ fate'[op'[c].task] # "none"
             /\ \A e \in dlq' : e.seq = op'[c].seq => e.task = op'[c].task
  <2>1. PICK n \in Nat, t \in Tasks :
          /\ op'[c].seq = n /\ op'[c].task = t /\ n <= lastDead /\ fate[t] # "none"
          /\ \A e \in dlq : e.seq = n => e.task = t
    <3>1. CASE op[c].step # "none" /\ op'[c].seq = op[c].seq /\ op'[c].task = op[c].task
      BY <3>1 DEF TypeOK, Lifecycle, Ops, Places, OpsTraced
    <3>2. CASE \E e \in dlq : op'[c].seq = e.seq /\ op'[c].task = e.task
      BY <1>3, <3>2 DEF Places, DeadNumbered, DeadEntries
    <3> QED BY <1>7, <3>1, <3>2, OpOrigin DEF Busy1
  <2> QED BY <1>1, <1>3, <2>1, FateStep DEF Grown
<1>8. Traced'
  BY <1>5, <1>6 DEF Traced
<1>9. OpsTraced'
  BY <1>7 DEF OpsTraced
<1> QED BY <1>1, <1>8, <1>9 DEF Places


(* A delivery comes to be acknowledged when its handler returns.           *)
LEMMA AckOrigin ==
    ASSUME TypeOK, Lifecycle, [Next]_vars
    PROVE  \A w \in Workers : (pc[w] # "ack" /\ pc'[w] = "ack") => HandlerSucceeds(w) \/ HandlerFails(w)
<1> DEFINE Goal == \A w \in Workers :
                     (pc[w] # "ack" /\ pc'[w] = "ack") => HandlerSucceeds(w) \/ HandlerFails(w)
<1>0. pc \in [Workers -> {"idle", "start", "handle", "ack"}]
  BY DEF TypeOK
<1>1. ASSUME pc' = pc PROVE Goal
  BY <1>1
<1>2. ASSUME NEW w \in Workers, NEW s \in {"idle", "start", "handle"}, pc' = [pc EXCEPT ![w] = s]
      PROVE  Goal
  BY <1>0, <1>2
<1>3. ASSUME NEW w \in Workers, HandlerSucceeds(w) \/ HandlerFails(w) PROVE Goal
  <2>1. pc' = [pc EXCEPT ![w] = "ack"]
    BY <1>3 DEF HandlerSucceeds, HandlerFails, ThenAck
  <2> QED BY <1>0, <1>3, <2>1
<1>4. ASSUME NEW p \in Procs, Crash(p) PROVE Goal
  BY <1>4 DEF Crash
<1> HIDE DEF Goal
<1>5. ASSUME NEW t \in Tasks, \/ \E o \in EnqueueInputs : Enqueue(t, o)
                              \/ Forget(t)
      PROVE  Goal
  BY <1>1, <1>5 DEF Enqueue, Forget, slotVars
<1>6. ASSUME NEW p \in Procs, \/ Consume(p) \/ Stop(p) \/ Unsubscribe(p) \/ CloseDone(p)
                              \/ \E m \in stream : Deliver(p, m)
                              \/ \E d \in inbox[p] : HandBack(p, d)
      PROVE  Goal
  BY <1>1, <1>6 DEF Consume, Stop, Unsubscribe, CloseDone, Deliver, HandBack, slotVars
<1>7. ASSUME NEW w \in Workers, \/ Delay(w) \/ Ack(w) \/ PublishFails(w) \/ Start(w)
                                \/ \E d \in inbox[ProcOf[w]] : Dispatch(w, d)
      PROVE  Goal
  BY <1>2, <1>7 DEF Delay, Ack, PublishFails, Finish, Start, Dispatch
<1>8. ASSUME NEW w \in Workers, Heartbeat(w) PROVE Goal
  BY <1>1, <1>8 DEF Heartbeat
<1>9. ASSUME NEW c \in Callers,
              \/ \E e \in dlq : FindToRequeue(c, e) \/ FindToDelete(c, e)
              \/ PublishRequeued(c) \/ PublishRequeuedFails(c) \/ DeletePublished(c)
              \/ DeleteDead(c) \/ CallerDies(c)
      PROVE  Goal
  BY <1>1, <1>9 DEF FindToRequeue, FindToDelete, PublishRequeued, PublishRequeuedFails,
                     DeletePublished, DeleteDead, CallerDies, slotVars
<1>10. ASSUME Tick \/ UNCHANGED vars PROVE Goal
  BY <1>1, <1>10 DEF Tick, vars, slotVars
<1>11. Goal
  BY <1>3, <1>4, <1>5, <1>6, <1>7, <1>8, <1>9, <1>10, NextCases
<1> QED BY <1>11 DEF Goal

(* Nobody holds a message that has just been stored, ...                   *)
LEMMA NewStands ==
    ASSUME TypeOK, Lifecycle, Places, [Next]_vars, NEW x, x.seq = lastSeq + 1
    PROVE  Standing(x)'
<1> SUFFICES ASSUME NEW w \in Workers, pc'[w] = "ack" PROVE job'[w].seq # x.seq
  BY DEF Standing
<1>1. pc[w] # "idle" /\ job'[w].seq = job[w].seq
  BY JobOrigin DEF Held1, Same
<1>2. job[w].seq \in Nat /\ job[w].seq <= lastSeq /\ lastSeq \in Nat
  BY <1>1, DeliveryFacts DEF Lifecycle, Places, Traced, Matches, TypeOK, ServerTypeOK
<1> QED BY <1>1, <1>2

(* ... and nobody is busy with a new dead task.                            *)
LEMMA NewDeadStays ==
    ASSUME TypeOK, Lifecycle, Places, [Next]_vars, NEW x, x.seq = lastDead + 1
    PROVE  ~ Leaving(x, {"publish", "finish"})'
<1> SUFFICES ASSUME NEW c \in Callers, op'[c].step \in {"publish", "finish"} PROVE op'[c].seq # x.seq
  BY DEF Leaving
<1>1. lastDead \in Nat
  BY DEF TypeOK, ServerTypeOK
<1>2. CASE op[c].step # "none" /\ op'[c].seq = op[c].seq
  <2>1. op[c].seq \in Nat /\ op[c].seq <= lastDead
    BY <1>2 DEF TypeOK, Ops, Places, OpsTraced
  <2> QED BY <1>1, <1>2, <2>1
<1>3. CASE \E e \in dlq : op'[c].seq = e.seq
  <2>1. PICK e \in dlq : op'[c].seq = e.seq
    BY <1>3
  <2>2. e.seq \in Nat /\ e.seq <= lastDead
    BY DEF TypeOK, ServerTypeOK, DeadEntries, Places, DeadNumbered
  <2> QED BY <1>1, <2>1, <2>2
<1> QED BY <1>2, <1>3, OpOrigin DEF Busy1

(* A message nobody is about to acknowledge stays that way, unless its     *)
(* handler fails.                                                          *)
LEMMA CopyStays ==
    ASSUME TypeOK, Lifecycle, Places, [Next]_vars,
           NEW m \in stream, Standing(m), fate'[m.task] = "open"
    PROVE  \/ \E n \in stream' : Same(m, n) /\ Standing(n)'
           \/ \E w \in Workers : HandlerFails(w) /\ job[w].seq = m.seq
<1> SUFFICES ASSUME \A w \in Workers : HandlerFails(w) => job[w].seq # m.seq
             PROVE  \E n \in stream' : Same(m, n) /\ Standing(n)'
  OBVIOUS
<1>1. ASSUME NEW w \in Workers, HandlerSucceeds(w) PROVE job[w].seq # m.seq
  <2> SUFFICES ASSUME job[w].seq = m.seq PROVE FALSE
    OBVIOUS
  <2>1. m.task = job[w].task /\ pc[w] = "handle" /\ m.task \in Tasks
    BY <1>1, MessageFacts DEF HandlerSucceeds, Places, Traced, Matches, TypeOK, ServerTypeOK
  <2>2. fate' = [fate EXCEPT ![m.task] = IF @ = "deleted" THEN @ ELSE "handled"]
    BY <1>1, <2>1 DEF HandlerSucceeds
  <2> QED BY <2>1, <2>2 DEF TypeOK
<1>2. ASSUME NEW w \in Workers, pc'[w] = "ack" PROVE job'[w].seq # m.seq
  <2>1. pc[w] # "idle" /\ job'[w].seq = job[w].seq
    BY <1>2, JobOrigin DEF Held1, Same
  <2> QED BY <1>1, <1>2, <2>1, AckOrigin DEF Standing
<1>3. \A n : Same(m, n) => Standing(n)'
  BY <1>2 DEF Same, Standing
<1>4. Same(m, m)
  BY DEF Same
<1> HIDE DEF Standing
<1>5. ASSUME stream \subseteq stream' PROVE \E n \in stream' : Same(m, n) /\ Standing(n)'
  BY <1>3, <1>4, <1>5
<1>6. CASE Mailed
  BY <1>3, <1>6, MailedStream
<1>7. ASSUME NEW t, NEW n, NEW wait, NEW id,
             Publish(t, n, wait) \/ PublishOnce(t, n, wait, id) \/ PublishDead(t, n)
      PROVE  stream \subseteq stream'
  BY <1>7 DEF Publish, PublishOnce, PublishDead, Store, serverVars
<1>8. CASE \E t \in Tasks, i \in EnqueueInputs : Enqueue(t, i)
  BY <1>5, <1>7, <1>8 DEF Enqueue
<1>9. CASE \E w \in Workers : Fails(w)
  <2>1. PICK w \in Workers : Fails(w)
    BY <1>9
  <2> QED BY <1>5, <1>7, <2>1 DEF Fails, HandOn
<1>10. ASSUME NEW w \in Workers, Ack(w), Acknowledge(job[w].seq)
       PROVE  \E n \in stream' : Same(m, n) /\ Standing(n)'
  <2>1. m.seq # job[w].seq
    BY <1>10 DEF Ack, Standing
  <2>2. m \in stream'
    BY <1>10, <2>1 DEF Acknowledge
  <2> QED BY <1>3, <1>4, <2>2
<1>11. CASE \E c \in Callers : PublishRequeued(c)
  BY <1>5, <1>7, <1>11 DEF PublishRequeued
<1>12. CASE \/ \E c \in Callers : (DeletePublished(c) \/ DeleteDead(c)) /\ DeleteMsg(op[c].seq)
            \/ \E t \in Tasks : Forget(t)
  BY <1>5, <1>12 DEF DeleteMsg, Forget, ForgetIDs
<1> QED BY <1>6, <1>8, <1>9, <1>10, <1>11, <1>12, StreamCases

(* A dead task that is not about to be deleted stays.                      *)
LEMMA DeadStays ==
    ASSUME TypeOK, Lifecycle, Places, [Next]_vars,
           NEW e \in dlq, ~ Leaving(e, {"finish"}), fate'[e.task] = "open"
    PROVE  e \in dlq'
<1>1. ASSUME dlq \subseteq dlq' PROVE e \in dlq'
  BY <1>1
<1>2. ASSUME NEW t, NEW n, NEW wait, NEW id,
             Publish(t, n, wait) \/ PublishOnce(t, n, wait, id) \/ PublishDead(t, n)
      PROVE  dlq \subseteq dlq'
  BY <1>2 DEF Publish, PublishOnce, PublishDead, serverVars
<1>3. CASE Mailed
  BY <1>3, MailedStream
<1>4. CASE \E t \in Tasks, i \in EnqueueInputs : Enqueue(t, i)
  BY <1>1, <1>2, <1>4 DEF Enqueue
<1>5. CASE \E w \in Workers : Fails(w)
  <2>1. PICK w \in Workers : Fails(w)
    BY <1>5
  <2> QED BY <1>1, <1>2, <2>1 DEF Fails, HandOn
<1>6. CASE \E c \in Callers : PublishRequeued(c)
  BY <1>1, <1>2, <1>6 DEF PublishRequeued
<1>7. ASSUME NEW c \in Callers, DeletePublished(c), DeleteMsg(op[c].seq) PROVE e \in dlq'
  BY <1>7 DEF DeletePublished, DeleteMsg, Leaving
<1>8. ASSUME NEW c \in Callers, DeleteDead(c), DeleteMsg(op[c].seq) PROVE e \in dlq'
  <2>1. CASE e.seq # op[c].seq
    BY <1>8, <2>1 DEF DeleteMsg
  <2>2. CASE e.seq = op[c].seq
    <3>1. op[c].step = "delete" /\ e.task = op[c].task /\ e.task \in Tasks
      BY <1>8, <2>2 DEF DeleteDead, Places, OpsTraced, TypeOK, ServerTypeOK, DeadEntries
    <3>2. fate' # [fate EXCEPT ![op[c].task] = "deleted"]
      BY <3>1 DEF TypeOK
    <3>3. UNCHANGED serverVars
      BY <1>8, <3>2 DEF DeleteDead
    <3> QED BY <3>3 DEF serverVars
  <2> QED BY <2>1, <2>2
<1>9. CASE \/ \E w \in Workers : Ack(w) /\ Acknowledge(job[w].seq)
           \/ \E t \in Tasks : Forget(t)
  BY <1>1, <1>9 DEF Acknowledge, Forget, ForgetIDs
<1> QED BY <1>3, <1>4, <1>5, <1>6, <1>7, <1>8, <1>9, StreamCases


(* An attempt that fails takes the task one further: into the dead-letter  *)
(* stream, into a retry that is stored, or, if the retry is dropped as a   *)
(* duplicate, to where the first one is by now.                            *)
LEMMA FailedOn ==
    ASSUME TypeOK, Lifecycle, Places, Reached, [Next]_vars,
           NEW w \in Workers, HandlerFails(w),
           NEW m \in stream, job[w].seq = m.seq, fate[m.task] = "open", fate'[m.task] = "open"
    PROVE  CameTo(m.task, m.attempts + 1)'
<1>1. /\ pc[w] = "handle" /\ HandOn(job[w]) /\ ThenAck(w)
      /\ job[w] \in Deliveries /\ m \in Messages
  BY DEF HandlerFails, Lifecycle, TypeOK, ServerTypeOK
<1>2. job[w].task = m.task /\ job[w].attempts = m.attempts + 1
  BY <1>1 DEF Places, Traced, Matches, Counted
<1>3. PICK t \in Tasks, n \in Nat : t = m.task /\ n = m.attempts + 1 /\ n > m.attempts
  BY <1>1, MessageFacts
<1>4. CASE PublishDead(t, n)
  <2> DEFINE x == [seq |-> lastDead + 1, task |-> t, attempts |-> n]
  <2>1. x \in dlq' /\ x.seq = lastDead + 1 /\ x.task = t
    BY <1>4 DEF PublishDead
  <2> HIDE DEF x
  <2> QED BY <1>3, <2>1, NewDeadStays DEF CameTo
<1>5. ASSUME NEW wait \in Nat, PublishOnce(t, n, wait, <<t, n>>), <<t, n>> \notin ids
      PROVE  CameTo(t, n)'
  <2>1. PICK x \in Messages : stream' = stream \cup {x} /\ x.seq = lastSeq + 1 /\ x.task = t /\ x.attempts = n
    BY <1>5, OneMore
  <2> QED BY <2>1, NewStands DEF CameTo
<1>6. ASSUME <<t, n>> \in ids PROVE CameTo(t, n)'
  <2>1. CameTo(t, n)
    BY <1>3, <1>6 DEF Reached
  <2>2. ASSUME NEW k \in stream, k.task = t, k.attempts >= n, Standing(k) PROVE CameTo(t, n)'
    <3>1. k.seq # m.seq
      BY <1>1, <1>3, <2>2, MessageFacts DEF Places, Numbered
    <3>2. ASSUME NEW v \in Workers, HandlerFails(v) PROVE v = w
      <4>1. pc' = [pc EXCEPT ![w] = "ack"] /\ pc' = [pc EXCEPT ![v] = "ack"] /\ pc[v] = "handle"
        BY <1>1, <3>2 DEF HandlerFails, ThenAck
      <4> QED BY <4>1 DEF TypeOK
    <3>3. PICK l \in stream' : Same(k, l) /\ Standing(l)'
      BY <1>3, <2>2, <3>1, <3>2, CopyStays
    <3> QED BY <2>2, <3>3 DEF CameTo, Same
  <2>3. ASSUME NEW e \in dlq, e.task = t, ~ Leaving(e, {"publish", "finish"}) PROVE CameTo(t, n)'
    <3>1. e \in dlq'
      BY <1>3, <2>3, DeadStays DEF Leaving
    <3>2. ~ Leaving(e, {"publish", "finish"})'
      BY <1>1, <2>3 DEF ThenAck, Leaving
    <3> QED BY <2>3, <3>1, <3>2 DEF CameTo
  <2> QED BY <2>1, <2>2, <2>3 DEF CameTo
<1>7. \/ PublishDead(t, n)
      \/ \E wait \in Nat : PublishOnce(t, n, wait, <<t, n>>)
  BY <1>1, <1>2, <1>3, HandOnCases
<1> QED BY <1>3, <1>4, <1>5, <1>6, <1>7

(* As far as a task has come it stays, unless it is requeued.              *)
LEMMA CameStep ==
    ASSUME TypeOK, Lifecycle, Places, Reached, [Next]_vars,
           NEW t \in Tasks, NEW n \in Nat, CameTo(t, n), fate[t] = "open", fate'[t] = "open",
           \A c \in Callers, e \in dlq : FindToRequeue(c, e) => e.task # t
    PROVE  CameTo(t, n)'
<1>1. ASSUME NEW m \in stream, m.task = t, m.attempts >= n, Standing(m) PROVE CameTo(t, n)'
  <2>1. m.attempts \in Nat
    BY MessageFacts DEF TypeOK, ServerTypeOK
  <2>2. CASE \E k \in stream' : Same(m, k) /\ Standing(k)'
    BY <1>1, <2>2 DEF CameTo, Same
  <2>3. ASSUME NEW w \in Workers, HandlerFails(w), job[w].seq = m.seq PROVE CameTo(t, n)'
    <3>1. CameTo(t, m.attempts + 1)'
      BY <1>1, <2>3, FailedOn
    <3>2. \A k \in stream' : k.attempts >= m.attempts + 1 => k.attempts >= n
      <4>1. \A k \in stream' : k.attempts \in Nat
        BY TypeStep, MessageFacts DEF TypeOK, ServerTypeOK
      <4> QED BY <1>1, <2>1, <4>1
    <3> QED BY <3>1, <3>2 DEF CameTo
  <2> QED BY <1>1, <2>2, <2>3, CopyStays
<1>2. ASSUME NEW e \in dlq, e.task = t, ~ Leaving(e, {"publish", "finish"}) PROVE CameTo(t, n)'
  <2>1. e \in dlq'
    BY <1>2, DeadStays DEF Leaving
  <2>2. ASSUME NEW c \in Callers, op'[c].step \in {"publish", "finish"} PROVE op'[c].seq # e.seq
    <3>1. CASE op'[c] = op[c]
      BY <1>2, <2>2, <3>1 DEF Leaving
    <3>2. CASE op[c].step = "publish" /\ op'[c].seq = op[c].seq
      BY <1>2, <3>2 DEF Leaving
    <3>3. ASSUME NEW f \in dlq, op'[c].seq = f.seq, FindToRequeue(c, f) PROVE op'[c].seq # e.seq
      BY <1>2, <3>3 DEF Places, DeadNumbered
    <3> QED BY <2>2, <3>1, <3>2, <3>3, OpOrigin DEF Busy1
  <2> QED BY <1>2, <2>1, <2>2 DEF CameTo, Leaving
<1> QED BY <1>1, <1>2 DEF CameTo

(* A task that has come some way is still there.                           *)
LEMMA CameKept ==
    ASSUME NEW t \in Tasks, NEW n \in Nat, CameTo(t, n)'
    PROVE  KeptOn(t)'
BY DEF CameTo, KeptOn, Leaving

(* While an ID is remembered its task has come that far: a copy is         *)
(* acknowledged only once its retry or dead entry is stored, or was stored *)
(* before.                                                                 *)
LEMMA ReachedStep ==
    ASSUME Patient, TypeOK, Lifecycle, Places, Reached, [Next]_vars
    PROVE  Reached'
<1> SUFFICES ASSUME NEW id \in ids', fate'[id[1]] = "open" PROVE CameTo(id[1], id[2])'
  BY DEF Reached
<1>1. PICK t \in Tasks, n \in Nat : id = <<t, n>> /\ id[1] = t /\ id[2] = n
  BY TypeStep DEF TypeOK, ServerTypeOK, MsgIDs
<1>2. CASE id \in ids
  <2>1. fate[t] = "open"
    BY <1>1, <1>2, FateStep DEF Places, IdsKnown, Enqueue
  <2>2. CameTo(t, n)
    BY <1>1, <1>2, <2>1 DEF Reached
  <2>3. \A c \in Callers, e \in dlq : FindToRequeue(c, e) => e.task # t
    BY <1>1, <1>2 DEF FindToRequeue
  <2> QED BY <1>1, <2>1, <2>2, <2>3, CameStep
<1>3. CASE id \notin ids
  <2>1. ASSUME NEW s \in Tasks, NEW k \in Nat, NEW wait \in Nat, PublishOnce(s, k, wait, <<s, k>>)
        PROVE  CameTo(t, n)'
    <3>1. <<s, k>> \notin ids /\ <<s, k>> = id
      BY <1>3, <2>1 DEF PublishOnce, serverVars
    <3>2. s = t /\ k = n
      BY <1>1, <3>1
    <3>3. PICK x \in Messages : /\ stream' = stream \cup {x} /\ x.seq = lastSeq + 1
                                /\ x.task = t /\ x.attempts = n
      BY <2>1, <3>1, <3>2, OneMore
    <3> QED BY <3>3, NewStands DEF CameTo
  <2>2. ASSUME ids' \subseteq ids PROVE FALSE
    BY <1>3, <2>2
  <2>3. CASE Mailed
    BY <2>2, <2>3, MailedStream
  <2>4. ASSUME NEW s \in Tasks, NEW i \in EnqueueInputs, Enqueue(s, i) PROVE CameTo(t, n)'
    <3>1. PICK wait \in Nat : PublishOnce(s, 0, wait, <<s, 0>>)
      BY <2>4, InputType DEF Enqueue
    <3> QED BY <2>1, <3>1
  <2>5. ASSUME NEW w \in Workers, Fails(w) PROVE CameTo(t, n)'
    <3>1. job[w] \in Deliveries /\ HandOn(job[w])
      BY <2>5 DEF Fails, Lifecycle
    <3>2. job[w].task \in Tasks /\ job[w].attempts \in Nat
      BY <3>1, DeliveryFacts
    <3>3. ASSUME PublishDead(job[w].task, job[w].attempts) PROVE FALSE
      BY <2>2, <3>3 DEF PublishDead
    <3> QED BY <2>1, <3>1, <3>2, <3>3, HandOnCases
  <2>6. CASE \/ \E w \in Workers : Ack(w) /\ Acknowledge(job[w].seq)
             \/ \E c \in Callers : PublishRequeued(c)
             \/ \E c \in Callers : (DeletePublished(c) \/ DeleteDead(c)) /\ DeleteMsg(op[c].seq)
             \/ \E s \in Tasks : Forget(s)
    BY <2>2, <2>6 DEF Acknowledge, PublishRequeued, Publish, DeleteMsg, Forget, ForgetIDs
  <2> QED BY <1>1, <2>3, <2>4, <2>5, <2>6, StreamCases
<1> QED BY <1>2, <1>3

(* No step loses an open task: a suppressed retry is acknowledged only     *)
(* because the task has come that far already.                             *)
LEMMA KeptStep ==
    ASSUME TypeOK, Lifecycle, Places, Kept, Reached, [Next]_vars
    PROVE  Kept'
<1> SUFFICES ASSUME NEW t \in Tasks, fate'[t] = "open" PROVE KeptOn(t)'
  BY DEF Kept
<1>1. ASSUME NEW n \in Nat, NEW wait \in Nat,
             \/ Publish(t, n, wait)
             \/ <<t, n>> \notin ids /\ PublishOnce(t, n, wait, <<t, n>>)
      PROVE  KeptOn(t)'
  <2>1. PICK x \in Messages : stream' = stream \cup {x} /\ x.seq = lastSeq + 1 /\ x.task = t
    BY <1>1, OneMore
  <2> QED BY <2>1, NewStands DEF KeptOn
<1>2. ASSUME NEW i \in EnqueueInputs, Enqueue(t, i) PROVE KeptOn(t)'
  <2>1. PICK wait \in Nat : PublishOnce(t, 0, wait, <<t, 0>>)
    BY <1>2, InputType DEF Enqueue
  <2>2. <<t, 0>> \notin ids
    BY <1>2 DEF Enqueue, Places, IdsKnown
  <2> QED BY <1>1, <2>1, <2>2
<1>3. ASSUME fate[t] = "open", NEW m \in stream, m.task = t, Standing(m) PROVE KeptOn(t)'
  <2>1. CASE \E k \in stream' : Same(m, k) /\ Standing(k)'
    BY <1>3, <2>1 DEF KeptOn, Same
  <2>2. ASSUME NEW w \in Workers, HandlerFails(w), job[w].seq = m.seq PROVE KeptOn(t)'
    <3>1. PICK n \in Nat : n = m.attempts + 1
      BY MessageFacts DEF TypeOK, ServerTypeOK
    <3>2. CameTo(t, n)'
      BY <1>3, <2>2, <3>1, FailedOn
    <3> QED BY <3>2, CameKept
  <2> QED BY <1>3, <2>1, <2>2, CopyStays
<1>4. ASSUME fate[t] = "open", NEW e \in dlq, e.task = t, ~ Leaving(e, {"finish"}) PROVE KeptOn(t)'
  <2>1. e \in dlq'
    BY <1>4, DeadStays
  <2>2. ASSUME NEW c \in Callers, PublishRequeued(c), op[c].seq = e.seq PROVE KeptOn(t)'
    <3>1. op[c].task = t /\ Publish(t, 0, 0)
      BY <1>4, <2>2 DEF PublishRequeued, Places, OpsTraced
    <3> QED BY <1>1, <3>1
  <2>3. ASSUME \A c \in Callers : PublishRequeued(c) => op[c].seq # e.seq PROVE ~ Leaving(e, {"finish"})'
    <3>1. ASSUME NEW c \in Callers, op'[c].step = "finish" PROVE op'[c].seq # e.seq
      BY <1>4, <2>3, <3>1, OpOrigin DEF Busy1, Leaving
    <3> QED BY <3>1 DEF Leaving
  <2> QED BY <1>4, <2>1, <2>2, <2>3 DEF KeptOn
<1>5. fate[t] = "open" => KeptOn(t)
  BY DEF Kept
<1> QED BY <1>2, <1>3, <1>4, <1>5, FateStep DEF KeptOn

(* The streams keep every open task, and a dropped retry is there already. *)
KInv == TypeOK /\ Lifecycle /\ Places /\ Kept /\ Reached

(* "publish-before-ack, so a crash in between duplicates rather than       *)
(* loses": a task that was accepted and neither handled nor deleted is in  *)
(* the stream or a dead task, whatever crashes, lapses or gets lost, as    *)
(* long as tasks are requeued after the duplicate window (Patient).        *)
THEOREM NoTaskIsLost == ASSUME Patient PROVE Spec => []TaskKept
<1>1. Init => KInv
  <2> SUFFICES ASSUME Init PROVE KInv
    OBVIOUS
  <2>1. Places /\ Kept /\ Reached
    BY DEF Init, ServerInit, Places, Numbered, DeadNumbered, Traced, OpsTraced, IdsKnown, Kept,
           Reached, NoOp
  <2> QED BY <2>1, TypeInit DEF KInv
<1>2. KInv /\ [Next]_vars => KInv'
  BY TypeStep, PlacesStep, KeptStep, ReachedStep DEF KInv
<1>3. KInv => TaskKept
  BY DEF KInv, Kept, KeptOn, TaskKept, CopiesOf, DeadOf
<1> QED BY <1>1, <1>2, <1>3, PTL DEF Spec


-----------------------------------------------------------------------------
(* No message is in two hands. *)

(* The server waits at least so long before it delivers a message again.   *)
Out(seq, min) == \E m \in stream : m.seq = seq /\ m.sent /\ m.left >= min

(* What a process holds is not delivered again before the process lets go  *)
(* of it or says that it is in progress: the deadline outlasts the next    *)
(* heartbeat by spare ticks.                                               *)
InHand(spare) ==
    /\ \A p \in Procs : \A d \in inbox[p] : Out(d.seq, AckWait)
    /\ \A w \in Workers : /\ pc[w] = "start"  => Out(job[w].seq, AckWait)
                          /\ pc[w] = "handle" => Out(job[w].seq, beat[w] + spare)
                          /\ pc[w] = "ack"    => Out(job[w].seq, 1)

InboxOnce == \A p, q \in Procs : \A d \in inbox[p], e \in inbox[q] : d.seq = e.seq => p = q /\ d = e

(* No more deliveries await an acknowledgement than a process has slots.   *)
Few == IsFiniteSet(AckPending) /\ Cardinality(AckPending) <= Concurrency

(* Only processes with slots subscribe.                                    *)
Manned == \A p \in Procs : inbox[p] # {} \/ sub[p] = "running" => WorkersOf(p) # {}

Hands(spare) == InHand(spare) /\ InboxOnce /\ OneConsumer /\ Few /\ Manned

(* A process whose slots are all taken has nothing in its inbox: the       *)
(* deliveries would be more than MaxAckPending.                            *)
LEMMA NoneWaits ==
    ASSUME TypeOK, Lifecycle, NEW spare \in Nat \ {0}, Hands(spare),
           NEW p \in Procs, \A w \in WorkersOf(p) : pc[w] # "idle"
    PROVE  inbox[p] = {}
<1> SUFFICES ASSUME NEW d \in inbox[p] PROVE FALSE
  OBVIOUS
<1>1. IsFiniteSet(WorkersOf(p)) /\ WorkersOf(p) \subseteq Workers
  BY DeploymentAssumption, FS_Subset DEF WorkersOf
<1>2. Cardinality(WorkersOf(p)) = Concurrency
  <2>1. Cardinality(WorkersOf(p)) \in {0, Concurrency}
    BY DeploymentAssumption DEF WorkersOf
  <2>2. WorkersOf(p) # {}
    BY DEF Hands, Manned
  <2> QED BY <1>1, <2>1, <2>2, FS_EmptySet
<1>3. PICK x \in AckPending : x.seq = d.seq
  BY DEF Hands, InHand, Out, AckPending
<1>4. ASSUME NEW w \in WorkersOf(p) PROVE \E m \in AckPending \ {x} : m.seq = job[w].seq
  <2>1. w \in Workers /\ pc[w] \in {"start", "handle", "ack"}
    BY <1>1 DEF TypeOK
  <2>2. PICK m \in AckPending : m.seq = job[w].seq
    BY <2>1 DEF Hands, InHand, Out, AckPending
  <2>3. job[w].seq # d.seq
    BY <2>1 DEF Hands, OneConsumer
  <2> QED BY <1>3, <2>2, <2>3
<1> DEFINE f == [w \in WorkersOf(p) |-> CHOOSE m \in AckPending \ {x} : m.seq = job[w].seq]
<1>5. \A w \in WorkersOf(p) : f[w] \in AckPending \ {x} /\ f[w].seq = job[w].seq
  BY <1>4
<1>6. f \in [WorkersOf(p) -> AckPending \ {x}]
  BY <1>5
<1>7. \A v, w \in WorkersOf(p) : f[v] = f[w] => v = w
  BY <1>1, <1>5 DEF Hands, OneConsumer
<1>8. f \in Injection(WorkersOf(p), AckPending \ {x})
  <2> HIDE DEF f
  <2>1. DOMAIN f = WorkersOf(p)
    BY <1>6
  <2> QED BY <1>6, <1>7, <2>1 DEF Injection, IsInjective
<1>9. /\ IsFiniteSet(AckPending \ {x}) /\ Cardinality(AckPending \ {x}) = Cardinality(AckPending) - 1
  BY FS_RemoveElement DEF Hands, Few
<1> HIDE DEF f
<1>10. Concurrency <= Cardinality(AckPending \ {x})
  BY <1>2, <1>8, <1>9, FS_Injection
<1>11. Cardinality(AckPending) \in Nat /\ Cardinality(AckPending) <= Concurrency /\ Concurrency \in Nat
  BY DeploymentAssumption, FS_CardinalityType DEF Hands, Few
<1> QED BY <1>9, <1>10, <1>11

(* Redelivery and time do not add to the deliveries.                       *)
LEMMA TurnedFew ==
    ASSUME TypeOK, NEW seq, NEW d \in Nat, Redeliver(seq, d),
           NEW S \in SUBSET stream, {m \in stream : m.sent \/ m.seq = seq} \subseteq S,
           IsFiniteSet(S), Cardinality(S) <= Concurrency
    PROVE  Few'
<1>0. stream \subseteq Messages /\ Concurrency \in Nat
  BY DeploymentAssumption DEF TypeOK, ServerTypeOK
<1>1. stream' = {Turned(m, seq, d) : m \in stream}
  BY DEF Redeliver, Turned
<1> DEFINE T == {Turned(m, seq, d) : m \in S}
           f == [m \in S |-> Turned(m, seq, d)]
<1>2. AckPending' \subseteq T
  <2> SUFFICES ASSUME NEW m \in stream, Turned(m, seq, d).sent PROVE m \in S
    BY <1>1 DEF AckPending
  <2> QED BY <1>0, TurnedFacts
<1>3. f \in Surjection(S, T)
  BY DEF Surjection
<1> HIDE DEF f, T
<1>4. IsFiniteSet(T) /\ Cardinality(T) <= Cardinality(S)
  BY <1>3, FS_Surjection
<1>5. IsFiniteSet(AckPending') /\ Cardinality(AckPending') <= Cardinality(T)
  BY <1>2, <1>4, FS_Subset
<1>6. Cardinality(T) \in Nat /\ Cardinality(S) \in Nat /\ Cardinality(AckPending') \in Nat
  BY <1>4, <1>5, FS_CardinalityType
<1>7. Cardinality(AckPending') <= Concurrency
  BY <1>0, <1>4, <1>5, <1>6
<1> QED BY <1>5, <1>7 DEF Few

(* Time changes no message's being unacknowledged.                         *)
LEMMA TickedFew ==
    ASSUME TypeOK, Few, ServerTick
    PROVE  Few'
<1>0. stream \subseteq Messages /\ Concurrency \in Nat
  BY DeploymentAssumption DEF TypeOK, ServerTypeOK
<1>1. stream' = {Ticked(m) : m \in stream}
  BY DEF ServerTick, Ticked
<1> DEFINE T == {Ticked(m) : m \in AckPending}
           f == [m \in AckPending |-> Ticked(m)]
<1>2. AckPending' \subseteq T
  <2> SUFFICES ASSUME NEW m \in stream, Ticked(m).sent PROVE m \in AckPending
    BY <1>1 DEF AckPending
  <2> QED BY <1>0, TickedFacts DEF AckPending
<1>3. f \in Surjection(AckPending, T)
  BY DEF Surjection
<1> HIDE DEF f, T
<1>4. IsFiniteSet(T) /\ Cardinality(T) <= Cardinality(AckPending)
  BY <1>3, FS_Surjection DEF Few
<1>5. IsFiniteSet(AckPending') /\ Cardinality(AckPending') <= Cardinality(T)
  BY <1>2, <1>4, FS_Subset
<1>6. /\ Cardinality(T) \in Nat /\ Cardinality(AckPending) \in Nat /\ Cardinality(AckPending') \in Nat
      /\ Cardinality(AckPending) <= Concurrency
  BY <1>4, <1>5, FS_CardinalityType DEF Few
<1>7. Cardinality(AckPending') <= Concurrency
  BY <1>0, <1>4, <1>5, <1>6
<1> QED BY <1>5, <1>7 DEF Few

(* Fewer unacknowledged messages are still few.                            *)
LEMMA FewerFew ==
    ASSUME Few, AckPending' \subseteq AckPending
    PROVE  Few'
<1>1. IsFiniteSet(AckPending') /\ Cardinality(AckPending') <= Cardinality(AckPending)
  BY FS_Subset DEF Few
<1>2. Cardinality(AckPending) \in Nat /\ Cardinality(AckPending') \in Nat /\ Concurrency \in Nat
  BY <1>1, DeploymentAssumption, FS_CardinalityType DEF Few
<1>3. Cardinality(AckPending') <= Concurrency
  BY <1>1, <1>2 DEF Few
<1> QED BY <1>1, <1>3 DEF Few


(* Deliveries are let go of, and only the message let go of changes.       *)
LEMMA HandsDrop ==
    ASSUME TypeOK, NEW spare \in Nat \ {0}, Hands(spare), NEW seq,
           \A m \in stream : m.seq # seq => m \in stream', Few',
           \A p \in Procs : \A d \in inbox'[p] : d \in inbox[p] /\ d.seq # seq,
           \A w \in Workers : pc'[w] # "idle" => /\ pc'[w] = pc[w] /\ job'[w] = job[w]
                                                 /\ beat'[w] = beat[w] /\ job[w].seq # seq
    PROVE  (InHand(spare) /\ InboxOnce /\ OneConsumer /\ Few)'
<1>1. \A s, k : Out(s, k) /\ s # seq => Out(s, k)'
  BY DEF Out
<1>2. InHand(spare)'
  BY <1>1 DEF Hands, InHand
<1>3. InboxOnce'
  BY DEF Hands, InboxOnce
<1>4. OneConsumer'
  BY DEF Hands, OneConsumer
<1> QED BY <1>2, <1>3, <1>4

(* Nothing that is out changes.                                            *)
LEMMA HandsCalm ==
    ASSUME TypeOK, Lifecycle, NEW spare \in Nat \ {0}, Hands(spare),
           stream \subseteq stream', AckPending' \subseteq AckPending,
           \A p \in Procs : inbox'[p] \subseteq inbox[p],
           \A w \in Workers : pc'[w] # "idle" => /\ pc'[w] = pc[w] /\ job'[w] = job[w]
                                                 /\ beat'[w] = beat[w]
    PROVE  (InHand(spare) /\ InboxOnce /\ OneConsumer /\ Few)'
<1>1. Few'
  BY FewerFew DEF Hands
<1>2. \A p \in Procs : \A d \in inbox[p] : d.seq # -1
  BY DeliveryFacts DEF TypeOK
<1>3. \A w \in Workers : pc[w] # "idle" => job[w].seq # -1
  BY DeliveryFacts DEF Lifecycle
<1>4. \A m \in stream : m.seq # -1 => m \in stream'
  OBVIOUS
<1>5. \A p \in Procs : \A d \in inbox'[p] : d \in inbox[p] /\ d.seq # -1
  BY <1>2
<1>6. \A w \in Workers : pc'[w] # "idle" => /\ pc'[w] = pc[w] /\ job'[w] = job[w]
                                            /\ beat'[w] = beat[w] /\ job[w].seq # -1
  BY <1>3
<1> QED BY ONLY TypeOK, spare \in Nat \ {0}, Hands(spare), <1>1, <1>4, <1>5, <1>6, HandsDrop

(* A publish adds a message that is not out.                               *)
LEMMA PublishCalm ==
    ASSUME NEW t, NEW n, NEW wait, NEW id,
           Publish(t, n, wait) \/ PublishOnce(t, n, wait, id) \/ PublishDead(t, n)
    PROVE  stream \subseteq stream' /\ AckPending' \subseteq AckPending
<1>1. ASSUME Store(t, n, wait) PROVE stream \subseteq stream' /\ AckPending' \subseteq AckPending
  BY <1>1 DEF Store, AckPending
<1>2. ASSUME stream' = stream PROVE stream \subseteq stream' /\ AckPending' \subseteq AckPending
  BY <1>2 DEF AckPending
<1> QED BY <1>1, <1>2 DEF Publish, PublishOnce, PublishDead, serverVars

(* Publishing a retry or a dead task removes and sends no message.         *)
LEMMA HandOnCalm ==
    ASSUME NEW j, HandOn(j)
    PROVE  stream \subseteq stream' /\ AckPending' \subseteq AckPending
BY PublishCalm DEF HandOn

(* Redeliver, of a message that is out.                                    *)
LEMMA TurnedOut ==
    ASSUME TypeOK, NEW spare \in Nat \ {0}, Hands(spare), Numbered,
           NEW seq \in Nat, NEW d \in Nat, Redeliver(seq, d), Out(seq, 1)
    PROVE  /\ \A m \in stream : m.seq # seq => m \in stream'
           /\ Out(seq, d)' /\ Few'
<1>0. stream \subseteq Messages
  BY DEF TypeOK, ServerTypeOK
<1>1. stream' = {Turned(m, seq, d) : m \in stream}
  BY DEF Redeliver, Turned
<1>2. \A m \in stream : m.seq # seq => Turned(m, seq, d) = m
  BY DEF Turned
<1>3. PICK x \in stream : x.seq = seq /\ x.sent
  BY DEF Out
<1>4. {m \in stream : m.sent \/ m.seq = seq} \subseteq AckPending
  BY <1>3 DEF AckPending, Numbered
<1>5. Few'
  BY <1>4, TurnedFew DEF Hands, Few, AckPending
<1>6. Turned(x, seq, d).seq = seq /\ Turned(x, seq, d).sent /\ Turned(x, seq, d).left >= d
  <2>1. x \in Messages
    BY <1>0
  <2>2. /\ Same(x, Turned(x, seq, d)) /\ Turned(x, seq, d).sent = (x.sent \/ x.seq = seq)
        /\ Turned(x, seq, d).left = IF x.seq = seq THEN d ELSE x.left
    BY <2>1, TurnedFacts
  <2>3. Turned(x, seq, d).sent
    BY <1>3, <2>2, Zenon
  <2>4. Turned(x, seq, d).seq = seq /\ Turned(x, seq, d).left = d
    BY <1>3, <2>2 DEF Same
  <2> QED BY <2>3, <2>4
<1>7. Turned(x, seq, d) \in stream'
  BY <1>1
<1>8. Out(seq, d)'
  BY <1>6, <1>7 DEF Out
<1> QED BY <1>1, <1>2, <1>5, <1>8

(* What waits or is in a slot is out for at least a tick.                  *)
LEMMA HeldOut ==
    ASSUME TypeOK, NEW spare \in Nat \ {0}, Hands(spare), NEW seq, Held(seq)
    PROVE  Out(seq, 1)
<1>0. AckWait \in Nat /\ AckWait >= 1 /\ beat \in [Workers -> Nat] /\ stream \subseteq Messages
  BY ServerAssumption DEF TypeOK, ServerTypeOK
<1>1. \A s : \A k \in Nat : k >= 1 /\ Out(s, k) => Out(s, 1)
  BY <1>0, MessageFacts DEF Out
<1>2. CASE \E p \in Procs : \E d \in inbox[p] : d.seq = seq
  BY <1>0, <1>1, <1>2 DEF Hands, InHand
<1>3. ASSUME NEW w \in Workers, pc[w] # "idle", job[w].seq = seq PROVE Out(seq, 1)
  <2>1. beat[w] + spare \in Nat /\ beat[w] + spare >= 1 /\ pc[w] \in {"start", "handle", "ack"}
    BY <1>0, <1>3 DEF TypeOK
  <2> QED BY <1>0, <1>1, <1>3, <2>1 DEF Hands, InHand
<1> QED BY <1>2, <1>3 DEF Held

(* A message that is handed out is in no hands.                            *)
LEMMA NotHeld ==
    ASSUME TypeOK, NEW spare \in Nat \ {0}, Hands(spare), Numbered,
           NEW m \in stream, Deliverable(m, MaxAckPending)
    PROVE  ~ Held(m.seq)
<1> SUFFICES ASSUME Held(m.seq) PROVE FALSE
  OBVIOUS
<1>1. PICK x \in stream : x.seq = m.seq /\ x.sent /\ x.left >= 1
  BY HeldOut DEF Out
<1>2. x = m
  BY <1>1 DEF Numbered
<1> QED BY <1>1, <1>2 DEF Deliverable

(* A delivery keeps messages in one hand: the server sends only new        *)
(* messages, and ones whose deadline is over, which nobody holds.          *)
LEMMA HandsDeliver ==
    ASSUME TypeOK, Lifecycle, NEW spare \in Nat \ {0}, Hands(spare), Numbered,
           NEW p \in Procs, NEW m \in stream, Deliver(p, m)
    PROVE  (InHand(spare) /\ InboxOnce /\ OneConsumer /\ Few)'
<1>0. /\ inbox \in [Procs -> SUBSET Deliveries] /\ stream \subseteq Messages /\ m \in Messages
      /\ AckWait \in Nat /\ Concurrency \in Nat
  BY ServerAssumption, DeploymentAssumption DEF TypeOK, ServerTypeOK
<1>1. ~ Held(m.seq) /\ Redeliver(m.seq, AckWait) /\ UNCHANGED slotVars
  BY NotHeld DEF Deliver
<1> DEFINE x == [seq |-> m.seq, task |-> m.task, attempts |-> m.attempts, wait |-> m.wait]
<1>2. inbox' = [inbox EXCEPT ![p] = @ \cup {x}] /\ x.seq = m.seq
  BY DEF Deliver
<1> HIDE DEF x
<1>3. stream' = {Turned(n, m.seq, AckWait) : n \in stream}
  BY <1>1 DEF Redeliver, Turned
<1>4. \A n \in stream : n.seq # m.seq => n \in stream'
  BY <1>3 DEF Turned
<1>5. Out(m.seq, AckWait)'
  <2>1. Turned(m, m.seq, AckWait) \in stream'
    BY <1>3
  <2>2. /\ Turned(m, m.seq, AckWait).seq = m.seq /\ Turned(m, m.seq, AckWait).sent
        /\ Turned(m, m.seq, AckWait).left = AckWait
    BY <1>0, MessageFacts, TurnedFacts DEF Same
  <2>3. Turned(m, m.seq, AckWait).left >= AckWait
    BY <1>0, <2>2
  <2> QED BY <2>1, <2>2, <2>3 DEF Out
<1>6. \A s, k : Out(s, k) /\ s # m.seq => Out(s, k)'
  BY <1>4 DEF Out
<1>7. /\ \A q \in Procs : \A d \in inbox[q] : d.seq # m.seq
      /\ \A w \in Workers : pc[w] # "idle" => job[w].seq # m.seq
  BY <1>1 DEF Held
<1>8. \A q \in Procs : \A d \in inbox'[q] : d \in inbox[q] \/ (q = p /\ d = x)
  BY <1>0, <1>2
<1>9. InHand(spare)'
  <2>1. \A q \in Procs : \A d \in inbox'[q] : Out(d.seq, AckWait)'
    BY <1>2, <1>5, <1>6, <1>7, <1>8 DEF Hands, InHand
  <2>2. \A w \in Workers : /\ (pc[w] = "start"  => Out(job[w].seq, AckWait))'
                           /\ (pc[w] = "handle" => Out(job[w].seq, beat[w] + spare))'
                           /\ (pc[w] = "ack"    => Out(job[w].seq, 1))'
    BY <1>1, <1>6, <1>7 DEF Hands, InHand, slotVars
  <2> QED BY <2>1, <2>2 DEF InHand
<1>10. InboxOnce'
  BY <1>2, <1>7, <1>8 DEF Hands, InboxOnce
<1>11. OneConsumer'
  BY <1>1, <1>2, <1>7, <1>8 DEF Hands, OneConsumer, slotVars
<1>12. Few'
  <2> DEFINE S == AckPending \cup {m}
  <2>1. IsFiniteSet(S) /\ Cardinality(S) = IF m \in AckPending THEN Cardinality(AckPending)
                                                              ELSE Cardinality(AckPending) + 1
    BY FS_AddElement DEF Hands, Few
  <2>2. Cardinality(AckPending) \in Nat /\ Cardinality(AckPending) <= Concurrency
    BY FS_CardinalityType DEF Hands, Few
  <2>3. m \in AckPending \/ Cardinality(AckPending) < Concurrency
    BY DEF Deliver, Deliverable, MaxAckPending, AckPending
  <2>4. Cardinality(S) <= Concurrency
    <3> HIDE DEF S
    <3> QED BY <1>0, <2>1, <2>2, <2>3
  <2>5. {n \in stream : n.sent \/ n.seq = m.seq} \subseteq S /\ S \subseteq stream
    BY DEF AckPending, Numbered
  <2> HIDE DEF S
  <2> QED BY <1>0, <1>1, <2>1, <2>4, <2>5, TurnedFew
<1> QED BY <1>9, <1>10, <1>11, <1>12


(* A delivery goes from the inbox to a slot.                               *)
LEMMA HandsDispatch ==
    ASSUME TypeOK, NEW spare \in Nat \ {0}, Hands(spare),
           NEW w \in Workers, NEW d \in inbox[ProcOf[w]], Dispatch(w, d)
    PROVE  (InHand(spare) /\ InboxOnce /\ OneConsumer /\ Few)'
<1>0. /\ inbox \in [Procs -> SUBSET Deliveries] /\ ProcOf[w] \in Procs
      /\ pc \in [Workers -> {"idle", "start", "handle", "ack"}]
      /\ job \in [Workers -> Deliveries \cup {NoJob}]
  BY DeploymentAssumption DEF TypeOK
<1>1. /\ pc[w] = "idle" /\ pc' = [pc EXCEPT ![w] = "start"] /\ job' = [job EXCEPT ![w] = d]
      /\ inbox' = [inbox EXCEPT ![ProcOf[w]] = @ \ {d}] /\ beat' = beat /\ stream' = stream
  BY DEF Dispatch, Take, serverVars
<1>2. \A s, k : Out(s, k) => Out(s, k)'
  BY <1>1 DEF Out
<1>3. \A p \in Procs : \A e \in inbox'[p] : e \in inbox[p] /\ e.seq # d.seq
  BY <1>0, <1>1 DEF Hands, InboxOnce
<1>4. \A v \in Workers : pc[v] # "idle" => job[v].seq # d.seq
  BY <1>0 DEF Hands, OneConsumer
<1>5. \A v \in Workers : \/ v = w /\ pc'[v] = "start" /\ job'[v] = d
                         \/ v # w /\ pc'[v] = pc[v] /\ job'[v] = job[v]
  BY <1>0, <1>1
<1>6. InHand(spare)'
  <2>1. Out(d.seq, AckWait)
    BY <1>0 DEF Hands, InHand
  <2>2. \A v \in Workers : /\ (pc[v] = "start"  => Out(job[v].seq, AckWait))'
                           /\ (pc[v] = "handle" => Out(job[v].seq, beat[v] + spare))'
                           /\ (pc[v] = "ack"    => Out(job[v].seq, 1))'
    BY <1>1, <1>2, <1>5, <2>1 DEF Hands, InHand
  <2>3. \A p \in Procs : \A e \in inbox'[p] : Out(e.seq, AckWait)'
    BY <1>2, <1>3 DEF Hands, InHand
  <2> QED BY <2>2, <2>3 DEF InHand
<1>7. InboxOnce'
  BY <1>3 DEF Hands, InboxOnce
<1>8. OneConsumer'
  BY <1>3, <1>4, <1>5 DEF Hands, OneConsumer
<1>9. Few'
  BY <1>1, FewerFew DEF Hands, AckPending
<1> QED BY <1>6, <1>7, <1>8, <1>9

(* One slot goes on with its delivery.                                     *)
LEMMA HandsOn ==
    ASSUME TypeOK, Lifecycle, NEW spare \in Nat \ {0}, Hands(spare),
           NEW w \in Workers, pc[w] # "idle", Few', UNCHANGED inbox,
           \A m \in stream : m.seq # job[w].seq => m \in stream',
           \A v \in Workers : /\ job'[v].seq = job[v].seq
                              /\ v # w => pc'[v] = pc[v] /\ beat'[v] = beat[v],
           \/ pc'[w] = "handle" /\ Out(job[w].seq, beat[w] + spare)'
           \/ pc'[w] = "ack" /\ Out(job[w].seq, 1)'
    PROVE  (InHand(spare) /\ InboxOnce /\ OneConsumer /\ Few)'
<1>1. \A s, k : Out(s, k) /\ s # job[w].seq => Out(s, k)'
  BY DEF Out
<1>2. /\ \A p \in Procs : \A d \in inbox[p] : d.seq # job[w].seq
      /\ \A v \in Workers : v # w /\ pc[v] # "idle" => job[v].seq # job[w].seq
  BY DEF Hands, OneConsumer
<1>3. \A p \in Procs : \A d \in inbox'[p] : Out(d.seq, AckWait)'
  BY <1>1, <1>2 DEF Hands, InHand
<1>4. ASSUME NEW v \in Workers, v # w
      PROVE  /\ (pc[v] = "start"  => Out(job[v].seq, AckWait))'
             /\ (pc[v] = "handle" => Out(job[v].seq, beat[v] + spare))'
             /\ (pc[v] = "ack"    => Out(job[v].seq, 1))'
  BY <1>1, <1>2, <1>4 DEF Hands, InHand
<1>5. /\ (pc[w] = "start"  => Out(job[w].seq, AckWait))'
      /\ (pc[w] = "handle" => Out(job[w].seq, beat[w] + spare))'
      /\ (pc[w] = "ack"    => Out(job[w].seq, 1))'
  OBVIOUS
<1>6. InHand(spare)'
  BY <1>3, <1>4, <1>5 DEF InHand
<1>7. InboxOnce'
  BY DEF Hands, InboxOnce
<1>8. OneConsumer'
  BY DEF Hands, OneConsumer
<1> QED BY <1>6, <1>7, <1>8

(* A heartbeat got lost.                                                   *)
Missed == \E w \in Workers : Heartbeat(w) /\ faults' # faults

(* If the deadline outlasts the interval, a heartbeat comes in time, and   *)
(* if it outlasts one interval more, so does the one after a lost one.     *)
LEMMA HandsSlot ==
    ASSUME TypeOK, Lifecycle, NEW spare \in Nat \ {0}, Hands(spare), Numbered,
           spare + Interval <= AckWait, Missed => Hands(spare + Interval), NEW w \in Workers,
           Start(w) \/ Heartbeat(w) \/ HandlerSucceeds(w) \/ HandlerFails(w)
    PROVE  (InHand(spare) /\ InboxOnce /\ OneConsumer /\ Few)'
<1>0. /\ pc[w] # "idle" /\ job[w] \in Deliveries /\ job[w].seq \in Nat /\ AckWait \in Nat
      /\ pc \in [Workers -> {"idle", "start", "handle", "ack"}]
      /\ job \in [Workers -> Deliveries \cup {NoJob}] /\ beat \in [Workers -> Nat]
      /\ stream \subseteq Messages /\ Interval \in Nat /\ Few
  BY DeliveryFacts, ServerAssumption, IntervalType
     DEF Start, Heartbeat, HandlerSucceeds, HandlerFails, Lifecycle, TypeOK, ServerTypeOK, Hands
<1>1. ASSUME NEW s, NEW k \in Nat, NEW l \in Nat, l <= k, Out(s, k) PROVE Out(s, l)
  BY <1>0, <1>1, MessageFacts DEF Out
<1>2. ASSUME stream \subseteq stream', NEW s, NEW k, Out(s, k) PROVE Out(s, k)'
  BY <1>2 DEF Out
<1>3. CASE Start(w)
  <2>1. /\ pc[w] = "start" /\ pc' = [pc EXCEPT ![w] = "handle"] /\ stream' = stream
        /\ beat' = [beat EXCEPT ![w] = Interval] /\ inbox' = inbox
        /\ job' = [job EXCEPT ![w].attempts = @ + 1]
    BY <1>3 DEF Start, serverVars, subVars
  <2>2. \A v \in Workers : job'[v].seq = job[v].seq
    <3>1. \A v \in Workers : v # w => job'[v] = job[v]
      BY <1>0, <2>1
    <3>2. job'[w].seq = job[w].seq
      BY <1>0, <2>1 DEF Deliveries
    <3> QED BY <3>1, <3>2
  <2>3. beat'[w] = Interval /\ pc'[w] = "handle"
    BY <1>0, <2>1
  <2>4. Out(job[w].seq, Interval + spare)
    BY <1>0, <1>1, <2>1 DEF Hands, InHand
  <2>5. Out(job[w].seq, beat[w] + spare)'
    BY <2>1, <2>2, <2>3, <2>4 DEF Out
  <2>6. Few'
    BY <1>0, <2>1, FewerFew DEF AckPending
  <2> QED BY <1>0, <2>1, <2>2, <2>3, <2>5, <2>6, HandsOn
<1>4. CASE Heartbeat(w) /\ Redeliver(job[w].seq, AckWait)
  <2>1. /\ pc' = pc /\ pc[w] = "handle" /\ job' = job /\ inbox' = inbox
        /\ beat' = [beat EXCEPT ![w] = Interval] /\ Redeliver(job[w].seq, AckWait)
    BY <1>4 DEF Heartbeat, subVars
  <2>2. Out(job[w].seq, 1)
    BY <1>0, HeldOut DEF Held
  <2>3. /\ \A m \in stream : m.seq # job[w].seq => m \in stream'
        /\ Out(job[w].seq, AckWait)' /\ Few'
    <3>1. PICK s \in Nat : s = job[w].seq
      BY <1>0
    <3>2. (\A m \in stream : m.seq # s => m \in stream') /\ Out(s, AckWait)' /\ Few'
      BY <1>0, <2>1, <2>2, <3>1, TurnedOut
    <3> QED BY <2>1, <3>1, <3>2 DEF Out
  <2>4. stream' \subseteq Messages
    <3>1. stream' = {Turned(m, job[w].seq, AckWait) : m \in stream}
      BY <2>1 DEF Redeliver, Turned
    <3> QED BY <1>0, <3>1, TurnedFacts
  <2>5. Out(job[w].seq, beat[w] + spare)'
    BY <1>0, <2>1, <2>3, <2>4, MessageFacts DEF Out
  <2> QED BY <1>0, <2>1, <2>3, <2>5, HandsOn
<1>5. CASE Heartbeat(w) /\ Fault /\ UNCHANGED serverVars
  <2>1. /\ pc' = pc /\ pc[w] = "handle" /\ job' = job /\ inbox' = inbox /\ beat[w] = 0
        /\ beat' = [beat EXCEPT ![w] = Interval] /\ stream' = stream
    BY <1>5 DEF Heartbeat, subVars, serverVars
  <2>2. Missed
    BY <1>5 DEF Missed, Fault, TypeOK
  <2>3. Out(job[w].seq, 0 + (spare + Interval))
    BY <2>1, <2>2 DEF Hands, InHand
  <2>4. Out(job[w].seq, Interval + spare)
    BY <1>0, <1>1, <2>3
  <2>5. Out(job[w].seq, beat[w] + spare)'
    <3>1. beat'[w] = Interval
      BY <1>0, <2>1
    <3> QED BY <2>1, <2>4, <3>1 DEF Out
  <2>6. Few'
    BY <1>0, <2>1, FewerFew DEF AckPending
  <2> QED BY <1>0, <2>1, <2>5, <2>6, HandsOn
<1>6. CASE HandlerSucceeds(w) \/ HandlerFails(w)
  <2>1. /\ pc[w] = "handle" /\ pc' = [pc EXCEPT ![w] = "ack"] /\ job' = job /\ inbox' = inbox
        /\ beat' = [beat EXCEPT ![w] = 0]
    BY <1>6 DEF HandlerSucceeds, HandlerFails, ThenAck, subVars
  <2>2. stream \subseteq stream' /\ AckPending' \subseteq AckPending
    BY <1>6, HandOnCalm DEF HandlerSucceeds, HandlerFails, serverVars, AckPending
  <2>3. Out(job[w].seq, 1)
    BY <1>0, HeldOut DEF Held
  <2>4. Out(job[w].seq, 1)'
    BY <2>1, <2>2, <2>3 DEF Out
  <2>5. Few'
    BY <1>0, <2>2, FewerFew
  <2> QED BY <1>0, <2>1, <2>2, <2>4, <2>5, HandsOn
<1> QED BY <1>3, <1>4, <1>5, <1>6 DEF Heartbeat

(* With prompt goroutines, time passes only when nothing waits for a slot  *)
(* and every handler has a heartbeat ahead.                                *)
LEMMA HandsTick ==
    ASSUME Prompt, TypeOK, Lifecycle, NEW spare \in Nat \ {0}, Hands(spare), Tick
    PROVE  (InHand(spare) /\ InboxOnce /\ OneConsumer /\ Few)'
<1>0. /\ stream \subseteq Messages /\ beat \in [Workers -> Nat] /\ Few
      /\ \A w \in Workers : pc[w] # "idle" => pc[w] = "handle" /\ beat[w] > 0
      /\ ServerTick /\ pc' = pc
  BY DEF TypeOK, ServerTypeOK, Tick, Quiet, Hands
<1>1. \A p \in Procs : inbox[p] = {}
  BY NoneWaits DEF Tick, Quiet
<1>2. \A p \in Procs : inbox'[p] = {}
  BY <1>1 DEF Tick
<1>3. \A w \in Workers : pc[w] # "idle" => job'[w].seq = job[w].seq /\ beat'[w] = beat[w] - 1
  BY <1>0, DeliveryFacts DEF Tick, Lifecycle, CountDown
<1>4. stream' = {Ticked(m) : m \in stream}
  BY <1>0 DEF ServerTick, Ticked
<1>5. ASSUME NEW w \in Workers, pc[w] = "handle" PROVE Out(job[w].seq, beat[w] + spare)'
  <2>1. PICK m \in stream : m.seq = job[w].seq /\ m.sent /\ m.left >= beat[w] + spare
    BY <1>5 DEF Hands, InHand, Out
  <2>2. /\ m \in Messages /\ m.left \in Nat /\ Ticked(m).seq = m.seq /\ Ticked(m).sent = m.sent
        /\ Ticked(m).left = CountDown(m.left)
    BY <1>0, MessageFacts, TickedFacts DEF Same
  <2>3. beat[w] \in Nat /\ beat[w] > 0 /\ beat'[w] = beat[w] - 1 /\ job'[w].seq = job[w].seq
    BY <1>0, <1>3, <1>5
  <2>4. Ticked(m).left >= beat'[w] + spare
    BY <2>1, <2>2, <2>3 DEF CountDown
  <2>5. Ticked(m) \in stream' /\ Ticked(m).seq = job'[w].seq
    BY <1>4, <2>1, <2>2, <2>3
  <2>6. Ticked(m).sent
    BY <2>1, <2>2, Zenon
  <2> QED BY <2>4, <2>5, <2>6 DEF Out
<1>6. InHand(spare)'
  <2>1. ASSUME NEW w \in Workers
        PROVE  /\ (pc[w] = "start"  => Out(job[w].seq, AckWait))'
               /\ (pc[w] = "handle" => Out(job[w].seq, beat[w] + spare))'
               /\ (pc[w] = "ack"    => Out(job[w].seq, 1))'
    BY <1>0, <1>5
  <2> QED BY <1>2, <2>1 DEF InHand
<1>7. InboxOnce'
  BY <1>2 DEF InboxOnce
<1>8. OneConsumer'
  BY <1>0, <1>2, <1>3 DEF Hands, OneConsumer
<1>9. Few'
  BY <1>0, TickedFew
<1> QED BY <1>6, <1>7, <1>8, <1>9


(* Processes without slots never subscribe.                                *)
LEMMA MannedStep ==
    ASSUME TypeOK, Lifecycle, Manned, [Next]_vars
    PROVE  Manned'
<1> SUFFICES ASSUME NEW p \in Procs, inbox'[p] # {} \/ sub'[p] = "running" PROVE WorkersOf(p) # {}
  BY DEF Manned, WorkersOf
<1>0. /\ inbox[p] # {} \/ sub[p] = "running" => WorkersOf(p) # {}
      /\ inbox \in [Procs -> SUBSET Deliveries]
      /\ sub \in [Procs -> {"idle", "running", "unsubscribed", "done"}]
  BY DEF Manned, TypeOK
<1>1. CASE inbox'[p] = inbox[p] /\ sub'[p] = sub[p]
  BY <1>0, <1>1
<1>2. CASE inbox[p] # {} /\ sub'[p] = sub[p]
  BY <1>0, <1>2
<1>3. CASE \E t \in Tasks : (\E o \in EnqueueInputs : Enqueue(t, o)) \/ Forget(t)
  BY <1>1, <1>3 DEF Enqueue, Forget, subVars
<1>4. ASSUME NEW q \in Procs, Consume(q) PROVE WorkersOf(p) # {}
  BY <1>0, <1>4 DEF Consume
<1>5. ASSUME NEW q \in Procs, Stop(q) PROVE WorkersOf(p) # {}
  BY <1>1, <1>5 DEF Stop
<1>6. ASSUME NEW q \in Procs, Unsubscribe(q) \/ CloseDone(q) \/ Crash(q) PROVE WorkersOf(p) # {}
  BY <1>0, <1>6 DEF Unsubscribe, CloseDone, Crash
<1>7. ASSUME NEW q \in Procs, NEW m \in stream, Deliver(q, m) PROVE WorkersOf(p) # {}
  BY <1>0, <1>7 DEF Deliver
<1>8. ASSUME NEW q \in Procs, NEW d \in inbox[q], HandBack(q, d) PROVE WorkersOf(p) # {}
  BY <1>0, <1>8 DEF HandBack, Take
<1>9. ASSUME NEW w \in Workers, NEW d \in inbox[ProcOf[w]], Dispatch(w, d) PROVE WorkersOf(p) # {}
  BY <1>0, <1>9, DeploymentAssumption DEF Dispatch, Take
<1>10. CASE \E w \in Workers :
              \/ Delay(w) \/ Start(w) \/ Heartbeat(w) \/ Ack(w)
              \/ HandlerSucceeds(w) \/ HandlerFails(w) \/ PublishFails(w)
  BY <1>1, <1>10 DEF Delay, Start, Heartbeat, Ack, HandlerSucceeds, HandlerFails, PublishFails,
                     ThenAck, subVars
<1>11. CASE \E c \in Callers :
              \/ \E e \in dlq : FindToRequeue(c, e) \/ FindToDelete(c, e)
              \/ PublishRequeued(c) \/ PublishRequeuedFails(c) \/ DeletePublished(c)
              \/ DeleteDead(c) \/ CallerDies(c)
  BY <1>1, <1>11 DEF FindToRequeue, FindToDelete, PublishRequeued, PublishRequeuedFails,
                     DeletePublished, DeleteDead, CallerDies, subVars
<1>12. CASE Tick
  BY <1>0, <1>12 DEF Tick
<1>13. CASE UNCHANGED vars
  BY <1>1, <1>13 DEF vars, subVars
<1> QED BY <1>3, <1>4, <1>5, <1>6, <1>7, <1>8, <1>9, <1>10, <1>11, <1>12, <1>13, NextCases

(* Every step keeps messages in one hand.                                  *)
LEMMA HandsStep ==
    ASSUME Prompt, TypeOK, Lifecycle, Places, NEW spare \in Nat \ {0}, Hands(spare),
           spare + Interval <= AckWait, Missed => Hands(spare + Interval), [Next]_vars
    PROVE  Hands(spare)'
<1> DEFINE Goal == (InHand(spare) /\ InboxOnce /\ OneConsumer /\ Few)'
<1>0. /\ inbox \in [Procs -> SUBSET Deliveries] /\ stream \subseteq Messages
      /\ pc \in [Workers -> {"idle", "start", "handle", "ack"}]
      /\ job \in [Workers -> Deliveries \cup {NoJob}] /\ beat \in [Workers -> Nat]
      /\ Numbered /\ Few
  BY DEF TypeOK, ServerTypeOK, Places, Hands
<1>1. ASSUME stream' = stream PROVE stream \subseteq stream' /\ AckPending' \subseteq AckPending
  BY <1>1 DEF AckPending
<1>2. ASSUME UNCHANGED slotVars, inbox' = inbox, stream \subseteq stream', AckPending' \subseteq AckPending
      PROVE  Goal
  BY <1>2, HandsCalm DEF slotVars
<1>3. ASSUME NEW w \in Workers, Finish(w), inbox' = inbox,
             stream \subseteq stream', AckPending' \subseteq AckPending
      PROVE  Goal
  <2>1. \A v \in Workers : pc'[v] # "idle" => pc'[v] = pc[v] /\ job'[v] = job[v] /\ beat'[v] = beat[v]
    BY <1>0, <1>3 DEF Finish
  <2> QED BY <1>3, <2>1, HandsCalm
<1>4. ASSUME NEW w \in Workers, pc[w] # "idle", Finish(w), inbox' = inbox, Few',
             \A m \in stream : m.seq # job[w].seq => m \in stream'
      PROVE  Goal
  <2>1. PICK s : s = job[w].seq
    OBVIOUS
  <2>2. \A v \in Workers : pc'[v] # "idle" => /\ pc'[v] = pc[v] /\ job'[v] = job[v]
                                              /\ beat'[v] = beat[v] /\ job[v].seq # s
    BY <1>0, <1>4, <2>1 DEF Finish, Hands, OneConsumer
  <2>3. \A p \in Procs : \A d \in inbox'[p] : d \in inbox[p] /\ d.seq # s
    BY <1>4, <2>1 DEF Hands, OneConsumer
  <2> QED BY <1>4, <2>1, <2>2, <2>3, HandsDrop
<1>5. ASSUME NEW w \in Workers, pc[w] # "idle"
      PROVE  job[w].seq \in Nat /\ job[w].wait \in Nat /\ Out(job[w].seq, 1)
  BY <1>5, DeliveryFacts, HeldOut DEF Lifecycle, Held
<1> HIDE DEF Goal
<1>6. ASSUME NEW t \in Tasks, NEW i \in EnqueueInputs, Enqueue(t, i) PROVE Goal
  <2>1. PICK wait \in Nat : PublishOnce(t, 0, wait, <<t, 0>>)
    BY <1>6, InputType DEF Enqueue
  <2>2. stream \subseteq stream' /\ AckPending' \subseteq AckPending
    BY <2>1, PublishCalm
  <2> QED BY <1>2, <1>6, <2>2 DEF Enqueue, subVars
<1>7. ASSUME NEW t \in Tasks, Forget(t) PROVE Goal
  BY <1>1, <1>2, <1>7 DEF Forget, ForgetIDs, subVars
<1>8. ASSUME NEW p \in Procs, Consume(p) \/ Stop(p) \/ CloseDone(p) PROVE Goal
  BY <1>1, <1>2, <1>8 DEF Consume, Stop, CloseDone, serverVars
<1>9. ASSUME NEW p \in Procs, Unsubscribe(p) \/ Crash(p) PROVE Goal
  <2>1. stream \subseteq stream' /\ AckPending' \subseteq AckPending
    BY <1>1, <1>9 DEF Unsubscribe, Crash, serverVars
  <2>2. \A q \in Procs : inbox'[q] \subseteq inbox[q]
    BY <1>0, <1>9 DEF Unsubscribe, Crash
  <2>3. \A v \in Workers : pc'[v] # "idle" => pc'[v] = pc[v] /\ job'[v] = job[v] /\ beat'[v] = beat[v]
    BY <1>0, <1>9 DEF Unsubscribe, Crash, slotVars
  <2> QED BY <2>1, <2>2, <2>3, HandsCalm DEF Goal
<1>10. ASSUME NEW p \in Procs, NEW m \in stream, Deliver(p, m) PROVE Goal
  BY <1>0, <1>10, HandsDeliver DEF Goal
<1>11. ASSUME NEW p \in Procs, NEW d \in inbox[p], HandBack(p, d) PROVE Goal
  <2>1. /\ UNCHANGED slotVars /\ inbox' = [inbox EXCEPT ![p] = @ \ {d}]
        /\ Redeliver(d.seq, 0) \/ UNCHANGED serverVars
    BY <1>11 DEF HandBack, Take
  <2>2. CASE UNCHANGED serverVars
    <3>1. stream \subseteq stream' /\ AckPending' \subseteq AckPending
      BY <1>1, <2>2 DEF serverVars
    <3>2. \A q \in Procs : inbox'[q] \subseteq inbox[q]
      BY <1>0, <2>1
    <3> QED BY <2>1, <3>1, <3>2, HandsCalm DEF Goal, slotVars
  <2>3. CASE Redeliver(d.seq, 0)
    <3>1. PICK s \in Nat : s = d.seq
      BY <1>0, DeliveryFacts
    <3>2. Out(s, 1)
      BY <3>1, HeldOut DEF Held
    <3>3. (\A m \in stream : m.seq # s => m \in stream') /\ Few'
      BY <1>0, <2>3, <3>1, <3>2, TurnedOut
    <3>4. \A q \in Procs : \A e \in inbox'[q] : e \in inbox[q] /\ e.seq # s
      BY <1>0, <2>1, <3>1 DEF Hands, InboxOnce
    <3>5. \A v \in Workers : pc'[v] # "idle" => /\ pc'[v] = pc[v] /\ job'[v] = job[v]
                                                /\ beat'[v] = beat[v] /\ job[v].seq # s
      BY <2>1, <3>1 DEF slotVars, Hands, OneConsumer
    <3> QED BY <3>3, <3>4, <3>5, HandsDrop DEF Goal
  <2> QED BY <2>1, <2>2, <2>3
<1>12. ASSUME NEW w \in Workers, NEW d \in inbox[ProcOf[w]], Dispatch(w, d) PROVE Goal
  BY <1>12, HandsDispatch DEF Goal
<1>13. ASSUME NEW w \in Workers, Start(w) \/ Heartbeat(w) \/ HandlerSucceeds(w) \/ HandlerFails(w)
       PROVE  Goal
  BY <1>0, <1>13, HandsSlot DEF Goal
<1>14. ASSUME NEW w \in Workers, Delay(w) PROVE Goal
  <2>1. /\ pc[w] # "idle" /\ Finish(w) /\ inbox' = inbox
        /\ Redeliver(job[w].seq, job[w].wait) \/ UNCHANGED serverVars
    BY <1>14 DEF Delay, subVars
  <2>2. CASE UNCHANGED serverVars
    BY <1>1, <1>3, <2>1, <2>2 DEF serverVars
  <2>3. CASE Redeliver(job[w].seq, job[w].wait)
    <3>1. PICK s \in Nat, d \in Nat : s = job[w].seq /\ d = job[w].wait
      BY <1>5, <2>1
    <3>2. (\A m \in stream : m.seq # s => m \in stream') /\ Few'
      BY <1>0, <1>5, <2>1, <2>3, <3>1, TurnedOut
    <3> QED BY <1>4, <2>1, <3>1, <3>2
  <2> QED BY <2>1, <2>2, <2>3
<1>15. ASSUME NEW w \in Workers, Ack(w) PROVE Goal
  <2>1. /\ pc[w] # "idle" /\ Finish(w) /\ inbox' = inbox
        /\ Acknowledge(job[w].seq) \/ UNCHANGED serverVars
    BY <1>15 DEF Ack, subVars
  <2>2. CASE UNCHANGED serverVars
    BY <1>1, <1>3, <2>1, <2>2 DEF serverVars
  <2>3. CASE Acknowledge(job[w].seq)
    <3>1. \A m \in stream : m.seq # job[w].seq => m \in stream'
      BY <2>3 DEF Acknowledge
    <3>2. Few'
      BY <1>0, <2>3, FewerFew DEF Acknowledge, AckPending
    <3> QED BY <1>4, <2>1, <3>1, <3>2
  <2> QED BY <2>1, <2>2, <2>3
<1>16. ASSUME NEW w \in Workers, PublishFails(w) PROVE Goal
  <2>1. /\ Finish(w) /\ inbox' = inbox /\ stream \subseteq stream' /\ AckPending' \subseteq AckPending
    BY <1>1, <1>16, HandOnCalm DEF PublishFails, subVars, serverVars
  <2> QED BY <1>3, <2>1
<1>17. ASSUME NEW c \in Callers, PublishRequeued(c) PROVE Goal
  <2>1. stream \subseteq stream' /\ AckPending' \subseteq AckPending
    BY <1>17, PublishCalm DEF PublishRequeued
  <2> QED BY <1>2, <1>17, <2>1 DEF PublishRequeued, subVars
<1>18. ASSUME NEW c \in Callers,
              \/ \E e \in dlq : FindToRequeue(c, e) \/ FindToDelete(c, e)
              \/ PublishRequeuedFails(c) \/ DeletePublished(c) \/ DeleteDead(c) \/ CallerDies(c)
       PROVE  Goal
  <2>1. stream' = stream /\ UNCHANGED slotVars /\ inbox' = inbox
    BY <1>18 DEF FindToRequeue, FindToDelete, PublishRequeuedFails, DeletePublished, DeleteDead,
                 CallerDies, DeleteMsg, serverVars, subVars
  <2> QED BY <1>1, <1>2, <2>1
<1>19. ASSUME Tick PROVE Goal
  BY <1>19, HandsTick DEF Goal
<1>20. ASSUME UNCHANGED vars PROVE Goal
  BY <1>1, <1>2, <1>20 DEF vars, serverVars, subVars
<1>21. Goal
  BY <1>6, <1>7, <1>8, <1>9, <1>10, <1>11, <1>12, <1>13, <1>14, <1>15, <1>16, <1>17, <1>18,
     <1>19, <1>20, NextCases
<1>22. Manned'
  BY MannedStep DEF Hands
<1> QED BY <1>21, <1>22 DEF Goal, Hands

(* Messages get lost one at a time.                                        *)
LEMMA FaultsStep ==
    ASSUME [Next]_vars
    PROVE  faults' = faults \/ faults' = faults + 1
<1>1. CASE \E t \in Tasks : (\E o \in EnqueueInputs : Enqueue(t, o)) \/ Forget(t)
  BY <1>1 DEF counters, Enqueue, Forget
<1>2. ASSUME NEW p \in Procs,
              \/ Consume(p) \/ Stop(p) \/ Unsubscribe(p) \/ CloseDone(p) \/ Crash(p)
              \/ (\E m \in stream : Deliver(p, m)) \/ (\E d \in inbox[p] : HandBack(p, d))
       PROVE  faults' = faults \/ faults' = faults + 1
  BY <1>2 DEF counters, Consume, Stop, Unsubscribe, CloseDone, Crash, Deliver, HandBack, Fault
<1>3. ASSUME NEW w \in Workers, \/ \E d \in inbox[ProcOf[w]] : Dispatch(w, d)
                                \/ Delay(w) \/ Start(w) \/ Heartbeat(w) \/ Ack(w)
                                \/ HandlerSucceeds(w) \/ HandlerFails(w) \/ PublishFails(w)
       PROVE  faults' = faults \/ faults' = faults + 1
  BY <1>3 DEF counters, Dispatch, Delay, Start, Heartbeat, Ack, HandlerSucceeds, HandlerFails,
              PublishFails, ThenAck, Fault
<1>4. ASSUME NEW c \in Callers,
              \/ \E e \in dlq : FindToRequeue(c, e) \/ FindToDelete(c, e)
              \/ PublishRequeued(c) \/ PublishRequeuedFails(c)
              \/ DeletePublished(c) \/ DeleteDead(c) \/ CallerDies(c)
       PROVE  faults' = faults \/ faults' = faults + 1
  BY <1>4 DEF counters, FindToRequeue, FindToDelete, PublishRequeued, PublishRequeuedFails,
              DeletePublished, DeleteDead, CallerDies, Fault
<1>5. CASE Tick \/ UNCHANGED vars
  BY <1>5 DEF counters, Tick, vars
<1> QED BY <1>1, <1>2, <1>3, <1>4, <1>5, NextCases

(* What a number of losses costs, and one loss more.                       *)
LEMMA Distributed ==
    ASSUME NEW n \in Nat, NEW i \in Nat
    PROVE  (n + 1) * i \in Nat /\ (n + 1) * i >= i /\ ((n + 1) + 1) * i = (n + 1) * i + i
<1>1. (n + 1) * i = n * i + i /\ ((n + 1) + 1) * i = (n + 1) * i + i
  OBVIOUS
<1>2. n * i \in Nat
  OBVIOUS
<1> QED BY <1>1, <1>2

(* One loss more costs one interval.                                       *)
LEMMA OneLossMore ==
    ASSUME NEW n \in Nat
    PROVE  /\ (n + 1) * Interval \in Nat /\ (n + 1) * Interval >= Interval
           /\ ((n + 1) + 1) * Interval = (n + 1) * Interval + Interval
<1>1. PICK i \in Nat : i = Interval
  BY IntervalType
<1>2. (n + 1) * i \in Nat /\ (n + 1) * i >= i /\ ((n + 1) + 1) * i = (n + 1) * i + i
  BY Distributed
<1> QED BY <1>1, <1>2

(* While losses cost less than the deadline, handlers have to spare what   *)
(* is left of it.                                                          *)
Spared == \A spare \in Nat \ {0} : spare + (faults + 1) * Interval <= AckWait => Hands(spare)

(* Every step keeps this.                                                  *)
LEMMA SparedStep ==
    ASSUME Prompt, TypeOK, Lifecycle, Places, Spared, [Next]_vars
    PROVE  Spared'
<1> SUFFICES ASSUME NEW spare \in Nat \ {0}, spare + (faults' + 1) * Interval <= AckWait
             PROVE  Hands(spare)'
  BY DEF Spared, Interval
<1>1. faults \in Nat /\ Interval \in Nat /\ AckWait \in Nat
  BY IntervalType, ServerAssumption DEF TypeOK
<1>2. PICK cost \in Nat : cost = (faults + 1) * Interval
  BY <1>1, OneLossMore
<1>3. cost >= Interval
  BY <1>1, <1>2, OneLossMore
<1>4. CASE faults' = faults
  <2>1. spare + cost <= AckWait
    BY <1>2, <1>4
  <2>2. Hands(spare) /\ spare + Interval <= AckWait
    BY <1>1, <1>2, <1>3, <2>1 DEF Spared
  <2>3. ~ Missed
    BY <1>4 DEF Missed
  <2> QED BY <2>2, <2>3, HandsStep
<1>5. CASE faults' = faults + 1
  <2>1. (faults' + 1) * Interval = cost + Interval
    BY <1>1, <1>2, <1>5, OneLossMore
  <2>2. spare + (cost + Interval) <= AckWait
    BY <2>1
  <2>3. /\ spare + cost <= AckWait /\ (spare + Interval) + cost <= AckWait
        /\ spare + Interval <= AckWait /\ spare + Interval \in Nat \ {0}
    BY <1>1, <1>3, <2>2
  <2>4. Hands(spare) /\ Hands(spare + Interval)
    BY <1>2, <2>3 DEF Spared
  <2> QED BY <2>3, <2>4, HandsStep
<1> QED BY <1>4, <1>5, FaultsStep

(* "Long-running handlers are kept alive with in-progress heartbeats":     *)
(* with prompt goroutines no message is in the hands of two consumers,     *)
(* however long handlers run, with any number of processes and crashes, as *)
(* long as the deadline outlasts one interval more than messages,          *)
(* heartbeats among them, have been lost.  The defaults, a deadline of     *)
(* three intervals, forgive one loss.                                      *)
THEOREM OneConsumerHolds ==
    ASSUME Prompt
    PROVE  Spec => []((faults + 1) * Interval < AckWait => OneConsumer)
<1> DEFINE HInv == TypeOK /\ Lifecycle /\ Places /\ Spared
<1>1. Init => HInv
  <2> SUFFICES ASSUME Init PROVE HInv
    OBVIOUS
  <2>1. Places
    BY DEF Init, ServerInit, Places, Numbered, DeadNumbered, Traced, OpsTraced, IdsKnown, NoOp
  <2>2. \A spare : InHand(spare) /\ InboxOnce /\ OneConsumer /\ Manned
    BY DEF Init, InHand, InboxOnce, OneConsumer, Manned
  <2>3. Few
    <3>1. AckPending = {}
      BY DEF Init, ServerInit, AckPending
    <3> QED BY <3>1, FS_EmptySet, DeploymentAssumption DEF Few
  <2>4. Spared
    BY <2>2, <2>3 DEF Spared, Hands
  <2> QED BY <2>1, <2>4, TypeInit
<1>2. HInv /\ [Next]_vars => HInv'
  BY TypeStep, PlacesStep, SparedStep
<1>3. HInv => ((faults + 1) * Interval < AckWait => OneConsumer)
  <2> SUFFICES ASSUME TypeOK, Spared, (faults + 1) * Interval < AckWait PROVE OneConsumer
    OBVIOUS
  <2>1. PICK cost \in Nat : cost = (faults + 1) * Interval
    <3>1. faults \in Nat
      BY DEF TypeOK
    <3> QED BY <3>1, OneLossMore
  <2>2. 1 + cost <= AckWait
    BY <2>1, ServerAssumption
  <2>3. Hands(1)
    BY <2>1, <2>2 DEF Spared
  <2> QED BY <2>3 DEF Hands
<1> HIDE DEF HInv
<1> QED BY <1>1, <1>2, <1>3, PTL DEF Spec


-----------------------------------------------------------------------------
(* The strict contract. *)

(* What the strict contract is promised for: prompt goroutines, a deadline *)
(* longer than the heartbeats' interval, no crashes and no losses, and     *)
(* operations on dead tasks that are patient and one at a time.            *)
Undisturbed == /\ Prompt /\ Patient /\ Interval < AckWait
               /\ MaxCrashes = 0 /\ MaxFaults = 0
               /\ \A c, d \in Callers : c = d

(* Nothing crashes or gets lost where neither may.                         *)
LEMMA NoFaults ==
    ASSUME Undisturbed, TypeOK
    PROVE  ~ (crashes < MaxCrashes) /\ ~ Fault
BY DEF Undisturbed, TypeOK, Fault

(* Everything a slot may do.                                               *)
SlotMove(w) ==
    \/ pc'[w] = pc[w] /\ (pc[w] # "idle" => Same(job[w], job'[w]))
    \/ pc[w] = "idle" /\ pc'[w] = "start"
    \/ pc[w] = "start" /\ pc'[w] = "idle"
    \/ Start(w) \/ HandlerSucceeds(w) \/ HandlerFails(w)
    \/ pc[w] = "ack" /\ pc'[w] = "idle" /\ Acknowledge(job[w].seq)

(* How a slot moves in a step.                                             *)
LEMMA SlotMoves ==
    ASSUME Undisturbed, TypeOK, Lifecycle, [Next]_vars
    PROVE  \A w \in Workers : SlotMove(w)
<1> DEFINE Goal == \A w \in Workers : SlotMove(w)
<1>0. /\ pc \in [Workers -> {"idle", "start", "handle", "ack"}]
      /\ job \in [Workers -> Deliveries \cup {NoJob}]
  BY DEF TypeOK
<1>1. ASSUME pc' = pc, job' = job PROVE Goal
  BY <1>1 DEF SlotMove, Same
<1>2. ASSUME NEW w \in Workers, \A v \in Workers : v # w => pc'[v] = pc[v] /\ job'[v] = job[v],
             SlotMove(w)
      PROVE  Goal
  BY <1>2 DEF SlotMove, Same
<1>3. ASSUME Tick PROVE Goal
  <2>1. \A w \in Workers : job'[w] = Sooner(job[w]) /\ pc'[w] = pc[w]
    BY <1>3 DEF Tick
  <2>2. \A w \in Workers : pc[w] # "idle" => Same(job[w], Sooner(job[w]))
    BY DeliveryFacts DEF Same, Lifecycle
  <2> QED BY <2>1, <2>2 DEF SlotMove
<1> HIDE DEF Goal
<1>4. ASSUME NEW w \in Workers, NEW s, NEW j, pc' = [pc EXCEPT ![w] = s],
             job' = job \/ job' = [job EXCEPT ![w] = j], SlotMove(w)
      PROVE  Goal
  BY <1>0, <1>2, <1>4
<1>5. ASSUME NEW w \in Workers, NEW d \in inbox[ProcOf[w]], Dispatch(w, d) PROVE Goal
  BY <1>0, <1>4, <1>5 DEF Dispatch, SlotMove
<1>6. ASSUME NEW w \in Workers, Delay(w) PROVE Goal
  BY <1>0, <1>4, <1>6 DEF Delay, Finish, SlotMove
<1>7. ASSUME NEW w \in Workers, Ack(w) PROVE Goal
  BY <1>0, <1>4, <1>7, NoFaults DEF Ack, Finish, SlotMove
<1>8. ASSUME NEW w \in Workers, Start(w) PROVE Goal
  <2>1. \A v \in Workers : v # w => pc'[v] = pc[v] /\ job'[v] = job[v]
    BY <1>0, <1>8 DEF Start
  <2> QED BY <1>2, <1>8, <2>1 DEF SlotMove
<1>9. ASSUME NEW w \in Workers, HandlerSucceeds(w) \/ HandlerFails(w) PROVE Goal
  <2>1. \A v \in Workers : v # w => pc'[v] = pc[v] /\ job'[v] = job[v]
    BY <1>0, <1>9 DEF HandlerSucceeds, HandlerFails, ThenAck
  <2> QED BY <1>2, <1>9, <2>1 DEF SlotMove
<1>10. ASSUME NEW w \in Workers, Heartbeat(w) PROVE Goal
  BY <1>1, <1>10 DEF Heartbeat
<1>11. ASSUME NEW w \in Workers, PublishFails(w) PROVE FALSE
  BY <1>11, NoFaults DEF PublishFails
<1>12. ASSUME NEW t \in Tasks, \/ \E o \in EnqueueInputs : Enqueue(t, o)
                               \/ Forget(t)
       PROVE  Goal
  BY <1>1, <1>12 DEF Enqueue, Forget, slotVars
<1>13. ASSUME NEW p \in Procs, \/ Consume(p) \/ Stop(p) \/ Unsubscribe(p) \/ CloseDone(p)
                               \/ \E m \in stream : Deliver(p, m)
                               \/ \E d \in inbox[p] : HandBack(p, d)
       PROVE  Goal
  BY <1>1, <1>13 DEF Consume, Stop, Unsubscribe, CloseDone, Deliver, HandBack, slotVars
<1>14. ASSUME NEW p \in Procs, Crash(p) PROVE FALSE
  BY <1>14, NoFaults DEF Crash
<1>15. ASSUME NEW c \in Callers,
              \/ \E e \in dlq : FindToRequeue(c, e) \/ FindToDelete(c, e)
              \/ PublishRequeued(c) \/ PublishRequeuedFails(c) \/ DeletePublished(c)
              \/ DeleteDead(c) \/ CallerDies(c)
       PROVE  Goal
  BY <1>1, <1>15 DEF FindToRequeue, FindToDelete, PublishRequeued, PublishRequeuedFails,
                     DeletePublished, DeleteDead, CallerDies, slotVars
<1>16. ASSUME UNCHANGED vars PROVE Goal
  BY <1>1, <1>16 DEF vars, slotVars
<1>17. Goal
  BY <1>3, <1>5, <1>6, <1>7, <1>8, <1>9, <1>10, <1>11, <1>12, <1>13, <1>14, <1>15, <1>16, NextCases
<1> QED BY <1>17 DEF Goal

(* Everything a caller may do.                                             *)
CallMove(c) ==
    \/ op'[c] = op[c]
    \/ op[c].step = "publish" /\ PublishRequeued(c)
    \/ op[c].step = "delete" /\ DeleteDead(c) /\ op'[c] = NoOp
    \/ op[c].step = "finish" /\ DeleteMsg(op[c].seq) /\ op'[c] = NoOp
    \/ op[c] = NoOp /\ op'[c].step \in {"publish", "delete"} /\ \E e \in dlq : op'[c].seq = e.seq

(* How a call moves in a step.                                             *)
LEMMA CallMoves ==
    ASSUME Undisturbed, TypeOK, Lifecycle, [Next]_vars
    PROVE  \A c \in Callers : CallMove(c)
<1> DEFINE Goal == \A c \in Callers : CallMove(c)
<1>0. op \in [Callers -> Ops] /\ \A c, d \in Callers : c = d
  BY DEF TypeOK, Undisturbed
<1>1. ASSUME op' = op PROVE Goal
  BY <1>1 DEF CallMove
<1>2. ASSUME NEW c \in Callers, CallMove(c) PROVE Goal
  BY <1>0, <1>2, Zenon
<1> HIDE DEF Goal
<1>3. ASSUME NEW c \in Callers, NEW e \in dlq, FindToRequeue(c, e) \/ FindToDelete(c, e) PROVE Goal
  <2>1. PICK s \in {"publish", "delete"} : Begin(c, e, s)
    BY <1>3 DEF FindToRequeue, FindToDelete
  <2> DEFINE o == [step |-> s, seq |-> e.seq, task |-> e.task]
  <2>2. op' = [op EXCEPT ![c] = o] /\ op[c] = NoOp
    BY <2>1 DEF Begin
  <2>3. o.seq = e.seq /\ o.step = s
    OBVIOUS
  <2> HIDE DEF o
  <2> QED BY <1>0, <1>2, <2>1, <2>2, <2>3 DEF CallMove
<1>4. ASSUME NEW c \in Callers, PublishRequeued(c) PROVE Goal
  BY <1>2, <1>4 DEF CallMove, PublishRequeued
<1>5. ASSUME NEW c \in Callers, DeletePublished(c) PROVE Goal
  BY <1>0, <1>2, <1>5, NoFaults DEF CallMove, DeletePublished, Call
<1>6. ASSUME NEW c \in Callers, DeleteDead(c) PROVE Goal
  BY <1>0, <1>2, <1>6 DEF CallMove, DeleteDead, Call
<1>7. ASSUME NEW c \in Callers, PublishRequeuedFails(c) \/ CallerDies(c) PROVE FALSE
  BY <1>7, NoFaults DEF PublishRequeuedFails, CallerDies
<1>8. ASSUME NEW t \in Tasks, \/ \E o \in EnqueueInputs : Enqueue(t, o)
                              \/ Forget(t)
      PROVE  Goal
  BY <1>1, <1>8 DEF Enqueue, Forget
<1>9. ASSUME NEW p \in Procs, \/ Consume(p) \/ Stop(p) \/ Unsubscribe(p) \/ CloseDone(p) \/ Crash(p)
                              \/ \E m \in stream : Deliver(p, m)
                              \/ \E d \in inbox[p] : HandBack(p, d)
      PROVE  Goal
  BY <1>1, <1>9 DEF Consume, Stop, Unsubscribe, CloseDone, Crash, Deliver, HandBack
<1>10. ASSUME NEW w \in Workers,
             \/ \E d \in inbox[ProcOf[w]] : Dispatch(w, d)
             \/ Delay(w) \/ Start(w) \/ Heartbeat(w) \/ Ack(w)
             \/ HandlerSucceeds(w) \/ HandlerFails(w) \/ PublishFails(w)
       PROVE  Goal
  BY <1>1, <1>10 DEF Dispatch, Delay, Start, Heartbeat, Ack, HandlerSucceeds, HandlerFails,
                     PublishFails, ThenAck
<1>11. ASSUME Tick \/ UNCHANGED vars PROVE Goal
  BY <1>1, <1>11 DEF Tick, vars
<1>12. Goal
  BY <1>3, <1>4, <1>5, <1>6, <1>7, <1>8, <1>9, <1>10, <1>11, NextCases
<1> QED BY <1>12 DEF Goal

(* The steps the callers and the consumers of a task take notice of.       *)
Acts(t) == \/ \E i \in EnqueueInputs : Enqueue(t, i)
           \/ \E w \in Workers : /\ job[w].task = t
                                 /\ Start(w) \/ HandlerSucceeds(w) \/ HandlerFails(w)
           \/ \E c \in Callers : op[c].task = t /\ (PublishRequeued(c) \/ DeleteDead(c))

(* What is noted of a task changes only in these.                          *)
LEMMA NotesStay ==
    ASSUME TypeOK, Lifecycle, [Next]_vars
    PROVE  /\ \A t \in Tasks : (fate'[t] = fate[t] /\ tried'[t] = tried[t]) \/ Acts(t)
           /\ maxRetries' = maxRetries \/ \E t \in Tasks, i \in EnqueueInputs : Enqueue(t, i)
<1> DEFINE Goal == /\ \A t \in Tasks : (fate'[t] = fate[t] /\ tried'[t] = tried[t]) \/ Acts(t)
                   /\ maxRetries' = maxRetries \/ \E t \in Tasks, i \in EnqueueInputs : Enqueue(t, i)
<1>0. fate \in [Tasks -> {"none", "open", "handled", "deleted"}] /\ tried \in [Tasks -> Nat]
  BY DEF TypeOK
<1>1. ASSUME UNCHANGED taskVars PROVE Goal
  BY <1>1 DEF taskVars
<1>2. ASSUME NEW t \in Tasks, Acts(t), maxRetries' = maxRetries,
             \A s \in Tasks : s # t => fate'[s] = fate[s] /\ tried'[s] = tried[s]
      PROVE  Goal
  BY <1>2
<1>3. ASSUME NEW t \in Tasks, NEW i \in EnqueueInputs, Enqueue(t, i) PROVE Goal
  <2>1. Acts(t) /\ \A s \in Tasks : s # t => fate'[s] = fate[s] /\ tried'[s] = tried[s]
    BY <1>0, <1>3 DEF Acts, Enqueue
  <2> QED BY <1>3, <2>1
<1> HIDE DEF Goal
<1>4. ASSUME NEW w \in Workers, Start(w) \/ HandlerSucceeds(w) PROVE Goal
  <2>1. PICK t \in Tasks : t = job[w].task
    BY <1>4, DeliveryFacts DEF Start, HandlerSucceeds, Lifecycle
  <2>2. Acts(t)
    BY <1>4, <2>1 DEF Acts
  <2>3. maxRetries' = maxRetries /\ \A s \in Tasks : s # t => fate'[s] = fate[s] /\ tried'[s] = tried[s]
    BY <1>0, <1>4, <2>1 DEF Start, HandlerSucceeds
  <2> QED BY <1>2, <2>2, <2>3
<1>5. ASSUME NEW c \in Callers, PublishRequeued(c) \/ DeleteDead(c) PROVE Goal
  <2>1. PICK t \in Tasks : t = op[c].task
    BY <1>5 DEF PublishRequeued, DeleteDead, Lifecycle
  <2>2. Acts(t)
    BY <1>5, <2>1 DEF Acts
  <2>3. maxRetries' = maxRetries /\ \A s \in Tasks : s # t => fate'[s] = fate[s] /\ tried'[s] = tried[s]
    BY <1>0, <1>5, <2>1 DEF PublishRequeued, DeleteDead
  <2> QED BY <1>2, <2>2, <2>3
<1>6. ASSUME NEW t \in Tasks, Forget(t) PROVE Goal
  BY <1>1, <1>6 DEF Forget
<1>7. ASSUME NEW p \in Procs,
              \/ Consume(p) \/ Stop(p) \/ Unsubscribe(p) \/ CloseDone(p) \/ Crash(p)
              \/ (\E m \in stream : Deliver(p, m)) \/ (\E d \in inbox[p] : HandBack(p, d))
       PROVE  Goal
  BY <1>1, <1>7 DEF Consume, Stop, Unsubscribe, CloseDone, Crash, Deliver, HandBack
<1>8. ASSUME NEW w \in Workers, \/ \E d \in inbox[ProcOf[w]] : Dispatch(w, d)
                                \/ Delay(w) \/ Heartbeat(w) \/ Ack(w)
                                \/ HandlerFails(w) \/ PublishFails(w)
       PROVE  Goal
  BY <1>1, <1>8 DEF Dispatch, Delay, Heartbeat, Ack, HandlerFails, PublishFails
<1>9. ASSUME NEW c \in Callers,
              \/ \E e \in dlq : FindToRequeue(c, e) \/ FindToDelete(c, e)
              \/ PublishRequeuedFails(c) \/ DeletePublished(c) \/ CallerDies(c)
       PROVE  Goal
  BY <1>1, <1>9 DEF FindToRequeue, FindToDelete, PublishRequeuedFails, DeletePublished, CallerDies
<1>10. ASSUME Tick \/ UNCHANGED vars PROVE Goal
  BY <1>1, <1>10 DEF Tick, vars
<1>11. Goal
  BY <1>3, <1>4, <1>5, <1>6, <1>7, <1>8, <1>9, <1>10, NextCases
<1> QED BY <1>11 DEF Goal


(* A message nobody will acknowledge, or a dead task nobody will remove,   *)
(* was there before the step and was so then, or is new.                   *)
LEMMA LiveBack ==
    ASSUME Undisturbed, TypeOK, Lifecycle, Places, [Next]_vars,
           NEW n \in stream', Standing(n)', n.seq <= lastSeq
    PROVE  \E k \in stream : Same(k, n) /\ Standing(k)
<1>1. PICK k \in stream : Same(k, n)
  BY NumbersStep DEF Grown
<1>2. ASSUME NEW w \in Workers, pc[w] = "ack", job[w].seq = k.seq PROVE FALSE
  <2>1. CASE pc'[w] = "ack" /\ Same(job[w], job'[w])
    BY <1>1, <1>2, <2>1 DEF Standing, Same
  <2>2. CASE Acknowledge(job[w].seq)
    BY <1>1, <1>2, <2>2 DEF Acknowledge, Same
  <2> QED BY <1>2, <2>1, <2>2, SlotMoves DEF SlotMove, Start, HandlerSucceeds, HandlerFails
<1> QED BY <1>1, <1>2 DEF Standing

(* A dead entry with an old number was there before the step, and is no    *)
(* more on its way out than it was.                                        *)
LEMMA DeadBack ==
    ASSUME Undisturbed, TypeOK, Lifecycle, Places, [Next]_vars,
           NEW e \in dlq', ~ Leaving(e, {"finish"})', e.seq <= lastDead
    PROVE  e \in dlq /\ ~ Leaving(e, {"finish"})
<1>1. e \in dlq
  BY NumbersStep DEF Grown
<1>2. ASSUME NEW c \in Callers, op[c].step = "finish", op[c].seq = e.seq PROVE FALSE
  <2>1. CASE op'[c] = op[c]
    BY <1>2, <2>1 DEF Leaving
  <2>2. CASE DeleteMsg(op[c].seq)
    BY <1>2, <2>2 DEF DeleteMsg
  <2>3. op[c] # NoOp
    BY <1>2 DEF NoOp
  <2> QED BY <1>2, <2>1, <2>2, <2>3, CallMoves DEF CallMove
<1> QED BY <1>1, <1>2 DEF Leaving

(* New messages and entries come from actions on their task.               *)
LEMMA NewOf ==
    ASSUME Undisturbed, TypeOK, Lifecycle, Places, [Next]_vars
    PROVE  /\ \A n \in stream' : n.seq <= lastSeq \/ Acts(n.task)
           /\ \A e \in dlq' : e.seq <= lastDead \/ Acts(e.task)
<1> DEFINE Goal == /\ \A n \in stream' : n.seq <= lastSeq \/ Acts(n.task)
                   /\ \A e \in dlq' : e.seq <= lastDead \/ Acts(e.task)
<1>0. /\ \A m \in stream : m.seq <= lastSeq
      /\ \A e \in dlq : e.seq <= lastDead
  BY DEF Places, Numbered, DeadNumbered
<1>1. ASSUME \A n \in stream' : \E k \in stream : Same(k, n), dlq' \subseteq dlq PROVE Goal
  BY <1>0, <1>1 DEF Same
<1>2. ASSUME NEW t \in Tasks, NEW n \in Nat, NEW wait \in Nat, Acts(t),
             Publish(t, n, wait) \/ PublishOnce(t, n, wait, <<t, n>>)
      PROVE  Goal
  <2>1. CASE UNCHANGED serverVars
    BY <1>0, <2>1 DEF serverVars
  <2>2. CASE ~ UNCHANGED serverVars
    <3>1. PICK x \in Messages : stream' = stream \cup {x} /\ x.task = t /\ dlq' = dlq
      BY <1>2, <2>2, OneMore DEF PublishOnce
    <3> QED BY <1>0, <1>2, <3>1
  <2> QED BY <2>1, <2>2
<1>3. ASSUME NEW t \in Tasks, NEW n \in Nat, Acts(t), PublishDead(t, n) PROVE Goal
  BY <1>0, <1>3 DEF PublishDead
<1> HIDE DEF Goal
<1>4. ASSUME stream' \subseteq stream, dlq' \subseteq dlq PROVE Goal
  BY <1>1, <1>4 DEF Same
<1>5. ASSUME Mailed PROVE Goal
  BY <1>1, <1>5, MailedStream
<1>6. ASSUME NEW t \in Tasks, NEW i \in EnqueueInputs, Enqueue(t, i) PROVE Goal
  <2>1. PICK wait \in Nat : PublishOnce(t, 0, wait, <<t, 0>>)
    BY <1>6, InputType DEF Enqueue
  <2> QED BY <1>2, <1>6, <2>1 DEF Acts
<1>7. ASSUME NEW w \in Workers, Fails(w) PROVE Goal
  <2>1. HandlerFails(w) /\ job[w] \in Deliveries /\ HandOn(job[w])
    BY <1>7, NoFaults DEF Fails, PublishFails, Lifecycle
  <2>2. job[w].task \in Tasks /\ job[w].attempts \in Nat /\ Acts(job[w].task)
    BY <2>1, DeliveryFacts DEF Acts
  <2> QED BY <1>2, <1>3, <2>1, <2>2, HandOnCases
<1>8. ASSUME NEW c \in Callers, PublishRequeued(c) PROVE Goal
  <2>1. op[c].task \in Tasks /\ Publish(op[c].task, 0, 0) /\ Acts(op[c].task)
    BY <1>8 DEF PublishRequeued, Lifecycle, Acts
  <2> QED BY <1>2, <2>1
<1>9. ASSUME \/ \E w \in Workers : Acknowledge(job[w].seq)
             \/ \E c \in Callers : DeleteMsg(op[c].seq)
             \/ \E t \in Tasks : Forget(t)
      PROVE  Goal
  BY <1>4, <1>9 DEF Acknowledge, DeleteMsg, Forget, ForgetIDs
<1>10. Goal
  BY <1>5, <1>6, <1>7, <1>8, <1>9, StreamCases
<1> QED BY <1>10 DEF Goal

(* Where a task is: in a message or a dead task that stays.                *)
LEMMA LiveFacts ==
    \A t : /\ \A m : m \in LiveCopies(t) <=> m \in stream /\ m.task = t /\ Standing(m)
           /\ \A e : e \in LiveDead(t) <=> e \in dlq /\ e.task = t /\ ~ Leaving(e, {"finish"})
BY DEF LiveCopies, CopiesOf, LiveDead, DeadOf, Standing, Leaving

(* The same after a step.                                                  *)
LEMMA LiveFactsNext ==
    \A t : /\ \A m : m \in LiveCopies(t)' <=> m \in stream' /\ m.task = t /\ Standing(m)'
           /\ \A e : e \in LiveDead(t)' <=> e \in dlq' /\ e.task = t /\ ~ Leaving(e, {"finish"})'
BY DEF LiveCopies, CopiesOf, LiveDead, DeadOf, Standing, Leaving

(* An open task is in exactly one place, and its attempts are counted.     *)
SingleFor(t) ==
    /\ \A m, n \in LiveCopies(t) : m = n
    /\ \A e, f \in LiveDead(t) : e = f
    /\ LiveCopies(t) = {} \/ LiveDead(t) = {}
    /\ fate[t] = "open" <=> LiveCopies(t) # {} \/ LiveDead(t) # {}
    /\ fate[t] = "none" => tried[t] = 0
    /\ \A m \in LiveCopies(t) : tried[t] = m.attempts + (IF Handling(t) THEN 1 ELSE 0)

Single == \A t \in Tasks : SingleFor(t)

(* The entry a caller is busy with is there.                               *)
Pinned == \A c \in Callers : op[c].step # "none" => \E e \in dlq : e.seq = op[c].seq

(* A task stays where it is.                                               *)
StillFor(s) ==
    /\ \A m \in LiveCopies(s) : \E n \in LiveCopies(s)' : Same(m, n)
    /\ \A n \in LiveCopies(s)' : \E m \in LiveCopies(s) : Same(m, n)
    /\ LiveDead(s)' = LiveDead(s)
    /\ fate'[s] = fate[s] /\ tried'[s] = tried[s]
    /\ Handling(s)' <=> Handling(s)

(* A task that no action is about stays where it is.                       *)
LEMMA StillStep ==
    ASSUME Undisturbed, TypeOK, Lifecycle, Places, Single, [Next]_vars,
           NEW s \in Tasks, ~ Acts(s)
    PROVE  StillFor(s)
<1>1. fate'[s] = fate[s] /\ tried'[s] = tried[s]
  BY NotesStay
<1>2. SingleFor(s)
  BY DEF Single
<1>3. ASSUME NEW m \in LiveCopies(s) PROVE \E n \in LiveCopies(s)' : Same(m, n)
  <2>1. m \in stream /\ m.task = s /\ Standing(m)
    BY LiveFacts
  <2>2. fate'[m.task] = "open"
    BY <1>1, <1>2, <1>3, <2>1 DEF SingleFor
  <2>3. ASSUME NEW w \in Workers, HandlerFails(w), job[w].seq = m.seq PROVE FALSE
    <3>1. job[w].task = s
      BY <2>1, <2>3 DEF HandlerFails, Places, Traced, Matches
    <3> QED BY <2>3, <3>1 DEF Acts
  <2>4. PICK n \in stream' : Same(m, n) /\ Standing(n)'
    BY <2>1, <2>2, <2>3, CopyStays
  <2>5. n \in LiveCopies(s)'
    BY <2>1, <2>4, LiveFactsNext DEF Same
  <2> QED BY <2>4, <2>5
<1>4. ASSUME NEW n \in LiveCopies(s)' PROVE \E m \in LiveCopies(s) : Same(m, n)
  <2>1. n \in stream' /\ n.task = s /\ Standing(n)'
    BY LiveFactsNext
  <2>2. n.seq <= lastSeq
    BY <2>1, NewOf
  <2>3. PICK k \in stream : Same(k, n) /\ Standing(k)
    BY <2>1, <2>2, LiveBack
  <2>4. k \in LiveCopies(s)
    BY <2>1, <2>3, LiveFacts DEF Same
  <2> QED BY <2>3, <2>4
<1>5. ASSUME NEW e \in LiveDead(s) PROVE e \in LiveDead(s)'
  <2>1. e \in dlq /\ e.task = s /\ ~ Leaving(e, {"finish"})
    BY LiveFacts
  <2>2. fate'[e.task] = "open"
    BY <1>1, <1>2, <1>5, <2>1 DEF SingleFor
  <2>3. e \in dlq'
    BY <2>1, <2>2, DeadStays
  <2>4. ASSUME NEW c \in Callers, op'[c].step = "finish", op'[c].seq = e.seq PROVE FALSE
    <3>1. CASE op'[c] = op[c]
      BY <2>1, <2>4, <3>1 DEF Leaving
    <3>2. CASE PublishRequeued(c) /\ op[c].step = "publish" /\ op'[c].seq = op[c].seq
      <4>1. op[c].task = s
        BY <2>1, <2>4, <3>2 DEF Places, OpsTraced
      <4> QED BY <3>2, <4>1 DEF Acts
    <3> QED BY <2>4, <3>1, <3>2, OpOrigin DEF Busy1
  <2>5. ~ Leaving(e, {"finish"})'
    BY <2>4 DEF Leaving
  <2> QED BY <2>1, <2>3, <2>5, LiveFactsNext
<1>6. ASSUME NEW e \in LiveDead(s)' PROVE e \in LiveDead(s)
  <2>1. e \in dlq' /\ e.task = s /\ ~ Leaving(e, {"finish"})'
    BY LiveFactsNext
  <2>2. e.seq <= lastDead
    BY <2>1, NewOf
  <2> QED BY <2>1, <2>2, DeadBack, LiveFacts
<1>7. ASSUME NEW w \in Workers
      PROVE  (pc[w] = "handle" /\ job[w].task = s) <=> (pc'[w] = "handle" /\ job'[w].task = s)
  <2>1. CASE pc'[w] = pc[w] /\ (pc[w] # "idle" => Same(job[w], job'[w]))
    BY <2>1 DEF Same
  <2>2. CASE Start(w)
    <3>1. pc[w] = "start" /\ job[w].task # s /\ job[w] \in Deliveries
      BY <2>2 DEF Start, Acts, Lifecycle
    <3>2. job'[w].task = job[w].task
      BY <2>2, <3>1 DEF Start, TypeOK, Deliveries
    <3> QED BY <3>1, <3>2
  <2>3. CASE HandlerSucceeds(w) \/ HandlerFails(w)
    <3>1. job[w].task # s
      BY <2>3 DEF Acts
    <3>2. pc'[w] = "ack"
      BY <2>3 DEF HandlerSucceeds, HandlerFails, ThenAck, TypeOK
    <3> QED BY <3>1, <3>2
  <2> QED BY <2>1, <2>2, <2>3, SlotMoves DEF SlotMove
<1>8. Handling(s)' <=> Handling(s)
  BY <1>7 DEF Handling
<1> QED BY <1>1, <1>3, <1>4, <1>5, <1>6, <1>8 DEF StillFor

(* A task that stays where it is keeps its single place and its status.    *)
LEMMA StillKeeps ==
    ASSUME TypeOK, Numbered', NEW s \in Tasks, SingleFor(s), StillFor(s)
    PROVE  SingleFor(s)' /\ Status(s)' = Status(s)
<1>1. ASSUME NEW m \in LiveCopies(s)', NEW n \in LiveCopies(s)' PROVE m = n
  <2>1. PICK k \in LiveCopies(s), l \in LiveCopies(s) : Same(k, m) /\ Same(l, n)
    BY DEF StillFor
  <2>2. m.seq = n.seq
    BY <2>1 DEF SingleFor, Same
  <2> QED BY <2>2, LiveFactsNext DEF Numbered
<1>2. (LiveCopies(s)' = {}) <=> (LiveCopies(s) = {})
  BY DEF StillFor
<1>3. \A m \in LiveCopies(s)' : tried'[s] = m.attempts + (IF Handling(s)' THEN 1 ELSE 0)
  BY DEF StillFor, SingleFor, Same
<1>4. SingleFor(s)'
  BY <1>1, <1>2, <1>3 DEF SingleFor, StillFor
<1>5. Status(s)' = Status(s)
  <2>1. /\ (fate'[s] = "none") <=> (fate[s] = "none")
        /\ Handling(s)' <=> Handling(s)
        /\ (LiveDead(s)' # {}) <=> (LiveDead(s) # {})
    BY DEF StillFor
  <2> QED BY <1>2, <2>1 DEF Status
<1> QED BY <1>4, <1>5

(* No step is of two tasks.                                                *)
LEMMA ActsOnce ==
    ASSUME Undisturbed, TypeOK, NEW s \in Tasks, NEW t \in Tasks, Acts(s), Acts(t)
    PROVE  s = t
<1> DEFINE Slot(w) == Start(w) \/ HandlerSucceeds(w) \/ HandlerFails(w)
           Calls(c) == PublishRequeued(c) \/ DeleteDead(c)
<1>0. /\ fate \in [Tasks -> {"none", "open", "handled", "deleted"}]
      /\ pc \in [Workers -> {"idle", "start", "handle", "ack"}]
      /\ op \in [Callers -> Ops]
  BY DEF TypeOK
<1>1. ASSUME NEW u \in Tasks, NEW i \in EnqueueInputs, Enqueue(u, i)
      PROVE  fate' = [fate EXCEPT ![u] = "open"] /\ fate[u] = "none" /\ pc' = pc /\ op' = op
  BY <1>1 DEF Enqueue, slotVars
<1>2. ASSUME NEW w \in Workers, Slot(w)
      PROVE  pc'[w] # pc[w] /\ op' = op /\ \A v \in Workers : v # w => pc'[v] = pc[v]
  BY <1>0, <1>2 DEF Start, HandlerSucceeds, HandlerFails, ThenAck
<1>3. ASSUME NEW c \in Callers, Calls(c) PROVE op'[c] # op[c] /\ pc' = pc
  <2>1. op[c].step \in {"publish", "delete"} /\ (Call(c, "finish") \/ Call(c, "none")) /\ pc' = pc
    BY <1>3 DEF PublishRequeued, DeleteDead, slotVars
  <2>2. op'[c].step \in {"none", "finish"}
    BY <1>0, <2>1 DEF Call, NoOp, Ops
  <2> QED BY <2>1, <2>2
<1>4. ASSUME NEW u \in Tasks, NEW i \in EnqueueInputs, Enqueue(u, i),
             NEW v \in Tasks, NEW j \in EnqueueInputs, Enqueue(v, j)
      PROVE  u = v
  BY <1>0, <1>1, <1>4
<1> HIDE DEF Slot, Calls
<1>5. ASSUME NEW u \in Tasks, Acts(u)
      PROVE  \/ \E i \in EnqueueInputs : Enqueue(u, i)
             \/ \E w \in Workers : job[w].task = u /\ Slot(w)
             \/ \E c \in Callers : op[c].task = u /\ Calls(c)
  BY <1>5 DEF Acts, Slot, Calls
<1>6. \A c, d \in Callers : c = d
  BY DEF Undisturbed
<1>7. CASE \E i \in EnqueueInputs : Enqueue(s, i)
  BY <1>1, <1>2, <1>3, <1>4, <1>5, <1>7
<1>8. CASE \E w \in Workers : job[w].task = s /\ Slot(w)
  <2>1. PICK w \in Workers : job[w].task = s /\ Slot(w)
    BY <1>8
  <2>2. ~ \E i \in EnqueueInputs : Enqueue(t, i)
    BY <1>1, <1>2, <2>1
  <2>3. ~ \E c \in Callers : op[c].task = t /\ Calls(c)
    BY <1>2, <1>3, <2>1
  <2>4. PICK v \in Workers : job[v].task = t /\ Slot(v)
    BY <1>5, <2>2, <2>3
  <2>5. v = w
    BY <1>2, <2>1, <2>4
  <2> QED BY <2>1, <2>4, <2>5
<1>9. CASE \E c \in Callers : op[c].task = s /\ Calls(c)
  <2>1. PICK c \in Callers : op[c].task = s /\ Calls(c)
    BY <1>9
  <2>2. ~ \E i \in EnqueueInputs : Enqueue(t, i)
    BY <1>1, <1>3, <2>1
  <2>3. ~ \E w \in Workers : job[w].task = t /\ Slot(w)
    BY <1>2, <1>3, <2>1
  <2> QED BY <1>5, <1>6, <2>1, <2>2, <2>3
<1> QED BY <1>5, <1>7, <1>8, <1>9


(* The parts of the invariant, taken together.                             *)
RInv == TypeOK /\ Lifecycle /\ Places /\ Kept /\ Reached /\ Hands(1) /\ Single /\ Pinned

(* The status of a task, case by case.                                     *)
LEMMA StatusFacts ==
    \A t : /\ fate[t] = "none" => Status(t) = "none"
           /\ fate[t] # "none" /\ Handling(t) => Status(t) = "running"
           /\ fate[t] # "none" /\ ~ Handling(t) /\ LiveCopies(t) # {} => Status(t) = "pending"
           /\ fate[t] # "none" /\ ~ Handling(t) /\ LiveCopies(t) = {} /\ LiveDead(t) # {}
                => Status(t) = "dead"
           /\ fate[t] # "none" /\ ~ Handling(t) /\ LiveCopies(t) = {} /\ LiveDead(t) = {}
                => Status(t) = "gone"
BY DEF Status

(* The same after a step.                                                  *)
LEMMA StatusFactsNext ==
    \A t : /\ fate'[t] = "none" => Status(t)' = "none"
           /\ fate'[t] # "none" /\ Handling(t)' => Status(t)' = "running"
           /\ fate'[t] # "none" /\ ~ Handling(t)' /\ LiveCopies(t)' # {} => Status(t)' = "pending"
           /\ fate'[t] # "none" /\ ~ Handling(t)' /\ LiveCopies(t)' = {} /\ LiveDead(t)' # {}
                => Status(t)' = "dead"
           /\ fate'[t] # "none" /\ ~ Handling(t)' /\ LiveCopies(t)' = {} /\ LiveDead(t)' = {}
                => Status(t)' = "gone"
BY DEF Status

(* A delivery that is not yet done is of a message that stays, and no      *)
(* other slot works for its task.                                          *)
LEMMA InHandLive ==
    ASSUME RInv, NEW w \in Workers, pc[w] \in {"start", "handle"}
    PROVE  /\ job[w].task \in Tasks /\ job[w].attempts \in Nat
           /\ fate[job[w].task] = "open"
           /\ \E m \in LiveCopies(job[w].task) :
                /\ m.seq = job[w].seq /\ m.attempts \in Nat
                /\ job[w].attempts = m.attempts + Counted(w)
           /\ \A v \in Workers : pc[v] \in {"start", "handle"} /\ job[v].task = job[w].task => v = w
<1>0. TypeOK /\ Lifecycle /\ Places /\ Hands(1) /\ Single
  BY DEF RInv
<1>1. ASSUME NEW v \in Workers, pc[v] \in {"start", "handle"}
      PROVE  /\ job[v].task \in Tasks /\ job[v].attempts \in Nat
             /\ \E m \in LiveCopies(job[v].task) :
                  /\ m.seq = job[v].seq /\ m.attempts \in Nat
                  /\ job[v].attempts = m.attempts + Counted(v)
  <2>1. job[v].task \in Tasks /\ job[v].attempts \in Nat /\ Matches(job[v], Counted(v))
    BY <1>0, <1>1, DeliveryFacts DEF Lifecycle, Places, Traced
  <2>2. PICK m \in stream : m.seq = job[v].seq
    BY <1>0, <1>1 DEF Hands, InHand, Out
  <2>3. m.attempts \in Nat /\ m.task = job[v].task /\ job[v].attempts = m.attempts + Counted(v)
    BY <1>0, <2>1, <2>2, MessageFacts DEF TypeOK, ServerTypeOK, Matches
  <2>4. Standing(m)
    BY <1>0, <1>1, <2>2 DEF Standing, Hands, OneConsumer
  <2>5. m \in LiveCopies(job[v].task)
    BY <2>3, <2>4, LiveFacts
  <2> QED BY <2>1, <2>2, <2>3, <2>5
<1>2. fate[job[w].task] = "open"
  BY <1>0, <1>1 DEF Single, SingleFor
<1>3. ASSUME NEW v \in Workers, pc[v] \in {"start", "handle"}, job[v].task = job[w].task PROVE v = w
  <2>1. job[v].seq = job[w].seq
    BY <1>0, <1>1, <1>3 DEF Single, SingleFor
  <2> QED BY <1>0, <1>3, <2>1 DEF Hands, OneConsumer
<1> QED BY <1>1, <1>2, <1>3

(* What is live after a step was live before it, or is new.                *)
LEMMA LiveAfter ==
    ASSUME Undisturbed, RInv, [Next]_vars, NEW t \in Tasks
    PROVE  /\ \A n \in LiveCopies(t)' : \/ \E m \in LiveCopies(t) : Same(m, n)
                                        \/ n.seq = lastSeq + 1 /\ lastSeq' = lastSeq + 1 /\ n \in stream'
           /\ \A e \in LiveDead(t)' : \/ e \in LiveDead(t)
                                      \/ e.seq = lastDead + 1 /\ lastDead' = lastDead + 1 /\ e \in dlq'
<1>0. TypeOK /\ Lifecycle /\ Places /\ TypeOK' /\ Places'
  BY TypeStep, PlacesStep DEF RInv
<1>1. /\ lastSeq \in Nat /\ lastSeq' \in Nat /\ lastDead \in Nat /\ lastDead' \in Nat
      /\ \A n \in stream' : n.seq \in Nat /\ n.seq <= lastSeq'
      /\ \A e \in dlq' : e.seq \in Nat /\ e.seq <= lastDead'
  BY <1>0, MessageFacts DEF TypeOK, ServerTypeOK, Places, Numbered, DeadNumbered, DeadEntries
<1>2. lastSeq' <= lastSeq + 1 /\ lastDead' <= lastDead + 1
  <2>1. ASSUME NEW s, NEW n, NEW wait, NEW id,
               Publish(s, n, wait) \/ PublishOnce(s, n, wait, id) \/ PublishDead(s, n)
        PROVE  lastSeq' <= lastSeq + 1 /\ lastDead' <= lastDead + 1
    BY <1>1, <2>1 DEF Publish, PublishOnce, PublishDead, Store, serverVars
  <2>2. CASE Mailed
    BY <1>0, <1>1, <2>2, MailedStream
  <2>3. CASE \E s \in Tasks, i \in EnqueueInputs : Enqueue(s, i)
    BY <2>1, <2>3 DEF Enqueue
  <2>4. ASSUME NEW w \in Workers, Fails(w) PROVE lastSeq' <= lastSeq + 1 /\ lastDead' <= lastDead + 1
    BY <2>1, <2>4 DEF Fails, HandOn
  <2>5. CASE \E c \in Callers : PublishRequeued(c)
    BY <2>1, <2>5 DEF PublishRequeued
  <2>6. CASE \/ \E w \in Workers : Acknowledge(job[w].seq)
             \/ \E c \in Callers : DeleteMsg(op[c].seq)
             \/ \E s \in Tasks : Forget(s)
    BY <1>1, <2>6 DEF Acknowledge, DeleteMsg, Forget, ForgetIDs
  <2> QED BY <1>0, <2>2, <2>3, <2>4, <2>5, <2>6, StreamCases
<1>3. ASSUME NEW n \in LiveCopies(t)'
      PROVE  \/ \E m \in LiveCopies(t) : Same(m, n)
             \/ n.seq = lastSeq + 1 /\ lastSeq' = lastSeq + 1 /\ n \in stream'
  <2>1. n \in stream' /\ n.task = t /\ Standing(n)'
    BY LiveFactsNext
  <2>2. CASE n.seq <= lastSeq
    <3>1. PICK k \in stream : Same(k, n) /\ Standing(k)
      BY <1>0, <2>1, <2>2, LiveBack
    <3>2. k \in LiveCopies(t)
      BY <2>1, <3>1, LiveFacts DEF Same
    <3> QED BY <3>1, <3>2
  <2>3. CASE n.seq > lastSeq
    BY <1>1, <1>2, <2>1, <2>3
  <2> QED BY <1>1, <2>1, <2>2, <2>3
<1>4. ASSUME NEW e \in LiveDead(t)'
      PROVE  \/ e \in LiveDead(t)
             \/ e.seq = lastDead + 1 /\ lastDead' = lastDead + 1 /\ e \in dlq'
  <2>1. e \in dlq' /\ e.task = t /\ ~ Leaving(e, {"finish"})'
    BY LiveFactsNext
  <2>2. CASE e.seq <= lastDead
    BY <1>0, <2>1, <2>2, DeadBack, LiveFacts
  <2>3. CASE e.seq > lastDead
    BY <1>1, <1>2, <2>1, <2>3
  <2> QED BY <1>1, <2>1, <2>2, <2>3
<1> QED BY <1>3, <1>4

(* A copy that is stored becomes the one place of its task.                *)
LEMMA NewPlace ==
    ASSUME Undisturbed, RInv, [Next]_vars, NEW t \in Tasks, NEW n \in Nat, NEW wait \in Nat,
           \/ Publish(t, n, wait)
           \/ <<t, n>> \notin ids /\ PublishOnce(t, n, wait, <<t, n>>),
           \A m \in LiveCopies(t)' : m.seq = lastSeq + 1
    PROVE  \E x : LiveCopies(t)' = {x} /\ x.attempts = n
<1>0. TypeOK /\ Lifecycle /\ Places /\ Places'
  BY TypeStep, PlacesStep DEF RInv
<1>1. PICK x \in Messages : stream' = stream \cup {x} /\ x.seq = lastSeq + 1 /\ x.task = t /\ x.attempts = n
  BY <1>0, OneMore
<1>2. x \in LiveCopies(t)'
  BY <1>0, <1>1, NewStands, LiveFactsNext
<1>3. \A m \in LiveCopies(t)' : m = x
  BY <1>0, <1>1, LiveFactsNext DEF Places, Numbered
<1>4. LiveCopies(t)' = {x}
  BY <1>2, <1>3
<1> QED BY <1>1, <1>4


(* Enqueue makes a task pending, in one place.                             *)
LEMMA EnqueueMoves ==
    ASSUME Undisturbed, RInv, [Next]_vars, NEW t \in Tasks, NEW i \in EnqueueInputs, Enqueue(t, i)
    PROVE  SingleFor(t)' /\ Status(t) = "none" /\ Status(t)' = "pending"
<1>0. TypeOK /\ Lifecycle /\ Places /\ SingleFor(t)
  BY DEF RInv, Single
<1>1. /\ fate[t] = "none" /\ fate'[t] = "open" /\ tried' = tried /\ UNCHANGED slotVars
  BY <1>0 DEF Enqueue, TypeOK
<1>2. LiveCopies(t) = {} /\ LiveDead(t) = {} /\ tried[t] = 0
  BY <1>0, <1>1 DEF SingleFor
<1>3. ~ Handling(t)'
  BY <1>0, <1>1 DEF Handling, slotVars, Places, Traced, Matches
<1>4. PICK wait \in Nat : PublishOnce(t, 0, wait, <<t, 0>>)
  BY InputType DEF Enqueue
<1>5. <<t, 0>> \notin ids
  BY <1>0, <1>1 DEF Places, IdsKnown
<1>6. lastDead' = lastDead /\ lastDead \in Nat
  BY <1>0, <1>4 DEF PublishOnce, serverVars, TypeOK, ServerTypeOK
<1>7. LiveDead(t)' = {}
  BY <1>2, <1>6, LiveAfter
<1>8. PICK x : LiveCopies(t)' = {x} /\ x.attempts = 0
  BY <1>2, <1>4, <1>5, LiveAfter, NewPlace
<1>9. SingleFor(t)'
  BY <1>1, <1>2, <1>3, <1>7, <1>8 DEF SingleFor
<1> QED BY <1>1, <1>3, <1>8, <1>9, StatusFacts, StatusFactsNext

(* Start hands a pending task out and counts the attempt.                  *)
LEMMA StartMoves ==
    ASSUME Undisturbed, RInv, [Next]_vars, NEW w \in Workers, Start(w),
           NEW t \in Tasks, t = job[w].task
    PROVE  /\ SingleFor(t)' /\ Status(t) = "pending" /\ Status(t)' = "running"
           /\ tried' = [tried EXCEPT ![t] = @ + 1]
<1>0. TypeOK /\ Lifecycle /\ Places /\ SingleFor(t)
  BY DEF RInv, Single
<1>1. /\ pc[w] = "start" /\ pc' = [pc EXCEPT ![w] = "handle"] /\ fate' = fate
      /\ tried' = [tried EXCEPT ![t] = job[w].attempts + 1] /\ UNCHANGED serverVars /\ op' = op
  BY DEF Start
<1>2. PICK m \in LiveCopies(t) : m.attempts \in Nat /\ job[w].attempts = m.attempts
  BY <1>1, InHandLive DEF Counted
<1>3. ~ Handling(t)
  BY <1>1, InHandLive DEF Handling
<1>4. Handling(t)'
  <2>1. pc'[w] = "handle"
    BY <1>0, <1>1 DEF TypeOK
  <2>2. job'[w].task = job[w].task
    BY <1>1, <2>1, JobOrigin, <1>0 DEF Held1
  <2> QED BY <2>1, <2>2 DEF Handling
<1>5. \A v \in Workers : pc[v] = "ack" <=> pc'[v] = "ack"
  BY <1>0, <1>1 DEF TypeOK
<1>6. \A v \in Workers : pc[v] = "ack" => job'[v] = job[v]
  BY <1>0, <1>1 DEF TypeOK, Start
<1>7. LiveCopies(t)' = LiveCopies(t) /\ LiveDead(t)' = LiveDead(t)
  BY <1>1, <1>5, <1>6 DEF LiveCopies, CopiesOf, LiveDead, DeadOf, serverVars
<1>8. tried[t] = m.attempts /\ fate[t] = "open"
  BY <1>0, <1>2, <1>3 DEF SingleFor
<1>9. tried' = [tried EXCEPT ![t] = @ + 1]
  BY <1>1, <1>2, <1>8
<1>10. tried'[t] = m.attempts + 1
  BY <1>0, <1>1, <1>2 DEF TypeOK
<1>11. SingleFor(t)'
  BY <1>0, <1>1, <1>2, <1>4, <1>7, <1>8, <1>10 DEF SingleFor
<1> QED BY <1>1, <1>2, <1>3, <1>4, <1>8, <1>9, <1>11, StatusFacts, StatusFactsNext

(* A handler that has returned leaves its message to be acknowledged.      *)
LEMMA ReturnFacts ==
    ASSUME Undisturbed, RInv, [Next]_vars, NEW w \in Workers, HandlerSucceeds(w) \/ HandlerFails(w),
           NEW t \in Tasks, t = job[w].task
    PROVE  /\ fate[t] = "open" /\ LiveDead(t) = {} /\ tried[t] = job[w].attempts /\ tried' = tried
           /\ Status(t) = "running" /\ ~ Handling(t)'
           /\ \A n \in LiveCopies(t)' : n.seq = lastSeq + 1 /\ lastSeq' = lastSeq + 1
           /\ \E m \in stream : m.task = t /\ m.seq = job[w].seq /\ m.attempts \in Nat
                                /\ job[w].attempts = m.attempts + 1
           /\ \A n \in LiveCopies(t) : n.seq = job[w].seq
<1>0. TypeOK /\ Lifecycle /\ Places /\ SingleFor(t)
  BY DEF RInv, Single
<1>1. /\ pc[w] = "handle" /\ pc' = [pc EXCEPT ![w] = "ack"] /\ job' = job /\ tried' = tried
  BY DEF HandlerSucceeds, HandlerFails, ThenAck, taskVars
<1>2. PICK m \in LiveCopies(t) : /\ m.seq = job[w].seq /\ m.attempts \in Nat
                                 /\ job[w].attempts = m.attempts + 1
  BY <1>1, InHandLive DEF Counted
<1>3. Handling(t) /\ fate[t] = "open"
  BY <1>1, InHandLive DEF Handling
<1>4. tried[t] = job[w].attempts /\ LiveDead(t) = {} /\ \A n \in LiveCopies(t) : n = m
  BY <1>0, <1>2, <1>3 DEF SingleFor
<1>5. ~ Handling(t)'
  BY <1>0, <1>1, InHandLive DEF Handling, TypeOK
<1>6. ASSUME NEW n \in LiveCopies(t)' PROVE n.seq = lastSeq + 1 /\ lastSeq' = lastSeq + 1
  <2>1. Standing(n)'
    BY LiveFactsNext
  <2>2. n.seq # m.seq
    BY <1>0, <1>1, <1>2, <2>1 DEF Standing, TypeOK
  <2> QED BY <1>4, <2>2, LiveAfter DEF Same
<1>7. m \in stream /\ m.task = t
  BY LiveFacts
<1> QED BY <1>1, <1>2, <1>3, <1>4, <1>5, <1>6, <1>7, StatusFacts

(* A handler's success makes its task go.                                  *)
LEMMA SucceedMoves ==
    ASSUME Undisturbed, RInv, [Next]_vars, NEW w \in Workers, HandlerSucceeds(w),
           NEW t \in Tasks, t = job[w].task
    PROVE  /\ SingleFor(t)' /\ Status(t) = "running" /\ Status(t)' = "gone" /\ tried' = tried
<1>0. TypeOK
  BY DEF RInv
<1>1. /\ fate[t] = "open" /\ LiveDead(t) = {} /\ tried' = tried
      /\ Status(t) = "running" /\ ~ Handling(t)'
      /\ \A n \in LiveCopies(t)' : n.seq = lastSeq + 1 /\ lastSeq' = lastSeq + 1
  BY ReturnFacts
<1>2. lastSeq' = lastSeq /\ lastDead' = lastDead /\ lastSeq \in Nat /\ lastDead \in Nat
  BY <1>0 DEF HandlerSucceeds, serverVars, TypeOK, ServerTypeOK
<1>3. fate'[t] = "handled"
  BY <1>0, <1>1 DEF HandlerSucceeds, TypeOK
<1>4. LiveCopies(t)' = {} /\ LiveDead(t)' = {}
  BY <1>1, <1>2, LiveAfter
<1>5. SingleFor(t)'
  BY <1>3, <1>4 DEF SingleFor
<1> QED BY <1>1, <1>3, <1>4, <1>5, StatusFactsNext

(* A handler's failure returns its task to pending within the budget and   *)
(* buries it beyond.                                                       *)
LEMMA FailMoves ==
    ASSUME Undisturbed, RInv, [Next]_vars, NEW w \in Workers, HandlerFails(w),
           NEW t \in Tasks, t = job[w].task
    PROVE  /\ SingleFor(t)' /\ Status(t) = "running" /\ tried' = tried
           /\ \/ tried[t] > maxRetries[t] /\ Status(t)' = "dead"
              \/ tried[t] <= maxRetries[t] /\ Status(t)' = "pending"
<1>0. TypeOK /\ Lifecycle /\ Places /\ Reached /\ TypeOK' /\ Lifecycle' /\ Places'
  BY TypeStep, PlacesStep DEF RInv
<1>1. /\ fate[t] = "open" /\ LiveDead(t) = {} /\ tried[t] = job[w].attempts /\ tried' = tried
      /\ Status(t) = "running" /\ ~ Handling(t)'
      /\ \A n \in LiveCopies(t)' : n.seq = lastSeq + 1 /\ lastSeq' = lastSeq + 1
  BY ReturnFacts
<1>2. PICK m \in stream : /\ m.task = t /\ m.seq = job[w].seq /\ m.attempts \in Nat
                          /\ job[w].attempts = m.attempts + 1
  BY ReturnFacts
<1>3. /\ job[w] \in Deliveries /\ HandOn(job[w]) /\ fate' = fate /\ maxRetries[t] \in Nat
      /\ job[w].attempts \in Nat /\ op' = op
  BY <1>0, <1>2 DEF HandlerFails, ThenAck, Lifecycle, taskVars, TypeOK
<1>4. CASE Exhausted(job[w]) /\ PublishDead(t, job[w].attempts)
  <2>1. PICK x : dlq' = dlq \cup {x} /\ x.seq = lastDead + 1 /\ x.task = t /\ lastSeq' = lastSeq
    <3> DEFINE e == [seq |-> lastDead + 1, task |-> t, attempts |-> job[w].attempts]
    <3>1. dlq' = dlq \cup {e} /\ e.seq = lastDead + 1 /\ e.task = t /\ lastSeq' = lastSeq
      BY <1>4 DEF PublishDead
    <3> HIDE DEF e
    <3> QED BY <3>1
  <2>2. lastSeq \in Nat /\ lastDead \in Nat
    BY <1>0 DEF TypeOK, ServerTypeOK
  <2>3. LiveCopies(t)' = {}
    BY <1>1, <2>1, <2>2
  <2>4. ~ Leaving(x, {"finish"})'
    BY <1>0, <2>1, NewDeadStays DEF Leaving
  <2>5. x \in LiveDead(t)'
    BY <2>1, <2>4, LiveFactsNext
  <2>6. \A e \in LiveDead(t)' : e = x
    BY <1>0, <1>1, <2>1, <2>5, LiveAfter DEF Places, DeadNumbered
  <2>7. SingleFor(t)'
    BY <1>1, <1>3, <2>3, <2>5, <2>6 DEF SingleFor
  <2>8. tried[t] > maxRetries[t]
    BY <1>1, <1>4 DEF Exhausted
  <2> QED BY <1>1, <1>3, <2>3, <2>5, <2>7, <2>8, StatusFactsNext
<1>5. ASSUME NEW wait \in Nat, ~ Exhausted(job[w]),
             PublishOnce(t, job[w].attempts, wait, <<t, job[w].attempts>>)
      PROVE  /\ SingleFor(t)' /\ tried[t] <= maxRetries[t] /\ Status(t)' = "pending"
  <2>1. PICK n \in Nat : n = job[w].attempts
    BY <1>3
  <2>2. <<t, n>> \notin ids
    <3> SUFFICES ASSUME <<t, n>> \in ids PROVE FALSE
      OBVIOUS
    <3>1. CameTo(t, n)
      BY <1>0, <1>1 DEF Reached
    <3>2. ASSUME NEW k \in stream, k.task = t, k.attempts >= n, Standing(k) PROVE FALSE
      <4>1. k.seq = job[w].seq
        BY <3>2, LiveFacts, ReturnFacts
      <4>2. k = m
        BY <1>0, <1>2, <4>1 DEF Places, Numbered
      <4> QED BY <1>2, <2>1, <3>2, <4>2
    <3>3. ASSUME NEW e \in dlq, e.task = t, ~ Leaving(e, {"publish", "finish"}) PROVE FALSE
      BY <1>1, <3>3, LiveFacts DEF Leaving
    <3> QED BY <3>1, <3>2, <3>3 DEF CameTo
  <2>3. PICK x : LiveCopies(t)' = {x} /\ x.attempts = n
    BY <1>1, <1>5, <2>1, <2>2, NewPlace
  <2>4. lastDead' = lastDead /\ lastDead \in Nat
    BY <1>0, <1>5 DEF PublishOnce, serverVars, TypeOK, ServerTypeOK
  <2>5. LiveDead(t)' = {}
    BY <1>1, <2>4, LiveAfter
  <2>6. tried'[t] = n
    BY <1>1, <2>1
  <2>7. SingleFor(t)'
    BY <1>1, <1>3, <2>3, <2>5, <2>6 DEF SingleFor
  <2>8. tried[t] <= maxRetries[t]
    BY <1>1, <1>3, <1>5 DEF Exhausted
  <2> QED BY <1>1, <1>3, <2>3, <2>7, <2>8, StatusFactsNext
<1> QED BY <1>1, <1>3, <1>4, <1>5, HandOnCases

(* The dead task a caller is busy with.                                    *)
LEMMA DeadFacts ==
    ASSUME Undisturbed, RInv, NEW c \in Callers, op[c].step \in {"publish", "delete"},
           NEW t \in Tasks, t = op[c].task
    PROVE  /\ fate[t] = "open" /\ LiveCopies(t) = {} /\ ~ Handling(t) /\ Status(t) = "dead"
           /\ \E e \in LiveDead(t) : e.seq = op[c].seq /\ \A f \in LiveDead(t) : f = e
<1>0. TypeOK /\ Lifecycle /\ Places /\ SingleFor(t) /\ Pinned
  BY DEF RInv, Single
<1>1. PICK e \in dlq : e.seq = op[c].seq
  BY <1>0 DEF Pinned
<1>2. e.task = t
  BY <1>0, <1>1 DEF Places, OpsTraced
<1>3. ~ Leaving(e, {"finish"})
  BY DEF Leaving, Undisturbed
<1>4. e \in LiveDead(t)
  BY <1>2, <1>3, LiveFacts
<1>5. LiveCopies(t) = {} /\ fate[t] = "open" /\ \A f \in LiveDead(t) : f = e
  BY <1>0, <1>4 DEF SingleFor
<1>6. ~ Handling(t)
  BY <1>5, InHandLive DEF Handling
<1> QED BY <1>1, <1>4, <1>5, <1>6, StatusFacts

(* The publish of a requeue returns a dead task to pending with no         *)
(* attempts, although its entry is deleted only later.                     *)
LEMMA RequeueMoves ==
    ASSUME Undisturbed, RInv, [Next]_vars, NEW c \in Callers, PublishRequeued(c),
           NEW t \in Tasks, t = op[c].task
    PROVE  /\ SingleFor(t)' /\ Status(t) = "dead" /\ Status(t)' = "pending"
           /\ tried' = [tried EXCEPT ![t] = 0]
<1>0. TypeOK /\ Lifecycle /\ Places
  BY DEF RInv
<1>1. /\ op[c].step = "publish" /\ Publish(t, 0, 0) /\ Call(c, "finish")
      /\ tried' = [tried EXCEPT ![t] = 0] /\ fate' = fate /\ UNCHANGED slotVars
  BY DEF PublishRequeued
<1>2. fate[t] = "open" /\ LiveCopies(t) = {} /\ ~ Handling(t) /\ Status(t) = "dead"
  BY <1>1, DeadFacts
<1>3. PICK e \in LiveDead(t) : e.seq = op[c].seq /\ \A f \in LiveDead(t) : f = e
  BY <1>1, DeadFacts
<1>4. ~ Handling(t)'
  BY <1>1, <1>2 DEF Handling, slotVars
<1>5. lastDead' = lastDead /\ lastDead \in Nat
  BY <1>0, <1>1 DEF Publish, TypeOK, ServerTypeOK
<1>6. op'[c].step = "finish" /\ op'[c].seq = op[c].seq
  BY <1>0, <1>1 DEF Call, TypeOK, Ops
<1>7. LiveDead(t)' = {}
  <2> SUFFICES ASSUME NEW f \in LiveDead(t)' PROVE FALSE
    OBVIOUS
  <2>1. f = e
    BY <1>3, <1>5, LiveAfter
  <2>2. ~ Leaving(f, {"finish"})'
    BY LiveFactsNext
  <2> QED BY <1>3, <1>6, <2>1, <2>2 DEF Leaving
<1>8. PICK x : LiveCopies(t)' = {x} /\ x.attempts = 0
  BY <1>1, <1>2, LiveAfter, NewPlace
<1>9. tried'[t] = 0
  BY <1>0, <1>1 DEF TypeOK
<1>10. SingleFor(t)'
  BY <1>1, <1>2, <1>4, <1>7, <1>8, <1>9 DEF SingleFor
<1> QED BY <1>1, <1>2, <1>4, <1>8, <1>10, StatusFactsNext

(* DeleteDeadTask makes a dead task go.                                    *)
LEMMA DeleteMoves ==
    ASSUME Undisturbed, RInv, [Next]_vars, NEW c \in Callers, DeleteDead(c),
           NEW t \in Tasks, t = op[c].task
    PROVE  /\ SingleFor(t)' /\ Status(t) = "dead" /\ Status(t)' = "gone" /\ tried' = tried
<1>0. TypeOK /\ Lifecycle /\ Places
  BY DEF RInv
<1>1. op[c].step = "delete" /\ UNCHANGED slotVars /\ tried' = tried
  BY DEF DeleteDead
<1>2. fate[t] = "open" /\ LiveCopies(t) = {} /\ ~ Handling(t) /\ Status(t) = "dead"
  BY <1>1, DeadFacts
<1>3. PICK e \in LiveDead(t) : e.seq = op[c].seq /\ \A f \in LiveDead(t) : f = e
  BY <1>1, DeadFacts
<1>4. e \in dlq
  BY LiveFacts
<1>5. fate' = [fate EXCEPT ![t] = "deleted"] /\ DeleteMsg(op[c].seq)
  BY <1>0, <1>3, <1>4, NoFaults DEF DeleteDead
<1>6. fate'[t] = "deleted"
  BY <1>0, <1>5 DEF TypeOK
<1>7. lastDead' = lastDead /\ lastDead \in Nat /\ lastSeq' = lastSeq /\ lastSeq \in Nat
  BY <1>0, <1>5 DEF DeleteMsg, TypeOK, ServerTypeOK
<1>8. LiveDead(t)' = {}
  <2> SUFFICES ASSUME NEW f \in LiveDead(t)' PROVE FALSE
    OBVIOUS
  <2>1. f = e
    BY <1>3, <1>7, LiveAfter
  <2>2. f \in dlq'
    BY LiveFactsNext
  <2> QED BY <1>3, <1>5, <2>1, <2>2 DEF DeleteMsg
<1>9. LiveCopies(t)' = {}
  BY <1>2, <1>7, LiveAfter
<1>10. ~ Handling(t)'
  BY <1>1, <1>2 DEF Handling, slotVars
<1>11. SingleFor(t)'
  BY <1>6, <1>8, <1>9 DEF SingleFor
<1> QED BY <1>1, <1>2, <1>6, <1>8, <1>9, <1>10, <1>11, StatusFactsNext


(* One caller at a time: nobody removes the entry another is busy with.    *)
LEMMA PinnedStep ==
    ASSUME Undisturbed, TypeOK, Lifecycle, Places, Pinned, [Next]_vars
    PROVE  Pinned'
<1> SUFFICES ASSUME NEW c \in Callers, op'[c].step # "none" PROVE \E e \in dlq' : e.seq = op'[c].seq
  BY DEF Pinned
<1>0. op \in [Callers -> Ops]
  BY DEF TypeOK
<1>1. ASSUME NEW e \in dlq, e.seq = op'[c].seq, dlq \subseteq dlq'
      PROVE  \E f \in dlq' : f.seq = op'[c].seq
  BY <1>1
<1>2. op'[c] # NoOp
  BY DEF NoOp
<1>3. \E e \in dlq : e.seq = op'[c].seq
  <2>1. CASE op'[c] = op[c]
    BY <2>1 DEF Pinned
  <2>2. CASE op[c].step = "publish" /\ PublishRequeued(c)
    <3>1. op'[c].seq = op[c].seq
      BY <1>0, <2>2 DEF PublishRequeued, Call, Ops
    <3> QED BY <2>2, <3>1 DEF Pinned
  <2> QED BY <1>2, <2>1, <2>2, CallMoves DEF CallMove
<1>4. ASSUME NEW t, NEW n, NEW wait, NEW id,
             Publish(t, n, wait) \/ PublishOnce(t, n, wait, id) \/ PublishDead(t, n)
      PROVE  dlq \subseteq dlq'
  BY <1>4 DEF Publish, PublishOnce, PublishDead, serverVars
<1>5. dlq \subseteq dlq'
  <2>1. CASE Mailed
    BY <2>1, MailedStream
  <2>2. CASE \E t \in Tasks, i \in EnqueueInputs : Enqueue(t, i)
    BY <1>4, <2>2 DEF Enqueue
  <2>3. ASSUME NEW w \in Workers, Fails(w) PROVE dlq \subseteq dlq'
    BY <1>4, <2>3 DEF Fails, HandOn
  <2>4. CASE \E d \in Callers : PublishRequeued(d)
    BY <1>4, <2>4 DEF PublishRequeued
  <2>5. ASSUME NEW d \in Callers, DeletePublished(d) \/ DeleteDead(d) PROVE FALSE
    <3>1. d = c
      BY DEF Undisturbed
    <3>2. op'[c] = NoOp
      BY <1>0, <2>5, <3>1 DEF DeletePublished, DeleteDead, Call
    <3> QED BY <1>2, <3>2
  <2>6. CASE \/ \E w \in Workers : Ack(w) /\ Acknowledge(job[w].seq)
             \/ \E t \in Tasks : Forget(t)
    BY <2>6 DEF Acknowledge, Forget, ForgetIDs
  <2> QED BY <2>1, <2>2, <2>3, <2>4, <2>5, <2>6, StreamCases
<1> QED BY <1>1, <1>3, <1>5

(* The acting task is in one place again, the others stay where they are.  *)
LEMMA SingleStep ==
    ASSUME Undisturbed, RInv, [Next]_vars
    PROVE  /\ Single'
           /\ \A s \in Tasks : Acts(s) \/ Status(s)' = Status(s)
<1>0. TypeOK /\ Lifecycle /\ Places /\ Single /\ Numbered'
  BY PlacesStep DEF RInv, Places
<1>1. ASSUME NEW s \in Tasks, ~ Acts(s) PROVE SingleFor(s)' /\ Status(s)' = Status(s)
  BY <1>0, <1>1, StillStep, StillKeeps DEF Single
<1>2. ASSUME NEW s \in Tasks, Acts(s) PROVE SingleFor(s)'
  BY <1>2, EnqueueMoves, StartMoves, SucceedMoves, FailMoves, RequeueMoves, DeleteMoves DEF Acts
<1> QED BY <1>1, <1>2 DEF Single

(* Every step keeps the invariant of the refinement.                       *)
LEMMA RInvStep ==
    ASSUME Undisturbed, RInv, [Next]_vars
    PROVE  RInv'
<1>1. /\ TypeOK /\ Lifecycle /\ Places /\ Kept /\ Reached /\ Hands(1) /\ Pinned
      /\ Prompt /\ Patient /\ Interval < AckWait
  BY DEF RInv, Undisturbed
<1>2. 1 + Interval <= AckWait
  BY <1>1, IntervalType, ServerAssumption
<1>3. ~ Missed
  BY <1>1, NoFaults DEF Missed, Heartbeat
<1>4. Hands(1)'
  BY <1>1, <1>2, <1>3, HandsStep
<1> QED BY <1>1, <1>4, TypeStep, PlacesStep, KeptStep, ReachedStep, SingleStep, PinnedStep DEF RInv

(* The contract's variables.                                               *)
statusBar == [t \in Tasks |-> Status(t)]

(* One task moves.                                                         *)
LEMMA StatusBarMoves ==
    ASSUME Undisturbed, RInv, [Next]_vars, NEW t \in Tasks, Acts(t)
    PROVE  statusBar' = [statusBar EXCEPT ![t] = Status(t)'] /\ statusBar[t] = Status(t)
<1>1. \A s \in Tasks : s # t => Status(s)' = Status(s)
  BY SingleStep, ActsOnce DEF RInv
<1> QED BY <1>1 DEF statusBar

(* Every step is a step of the contract or changes nothing it speaks of.   *)
LEMMA ContractStep ==
    ASSUME Undisturbed, RInv, [Next]_vars
    PROVE  [Contract!Next]_(Contract!vars)
<1>0. TypeOK /\ Lifecycle
  BY DEF RInv
<1>1. CASE \A t \in Tasks : ~ Acts(t)
  <2>1. statusBar' = statusBar
    BY <1>1, SingleStep DEF statusBar
  <2>2. tried' = tried
    <3>1. tried \in [Tasks -> Nat] /\ tried' \in [Tasks -> Nat]
      BY <1>0, TypeStep DEF TypeOK
    <3>2. \A t \in Tasks : tried'[t] = tried[t]
      BY <1>0, <1>1, NotesStay
    <3> QED BY <3>1, <3>2
  <2>3. maxRetries' = maxRetries
    BY <1>0, <1>1, NotesStay DEF Acts
  <2> QED BY <2>1, <2>2, <2>3 DEF Contract!vars, statusBar
<1>2. ASSUME NEW t \in Tasks, NEW i \in EnqueueInputs, Enqueue(t, i) PROVE Contract!Next
  <2>1. statusBar' = [statusBar EXCEPT ![t] = "pending"] /\ statusBar[t] = "none"
    BY <1>2, EnqueueMoves, StatusBarMoves DEF Acts
  <2>2. PICK n \in {NewEnqueueOptions(o).maxRetries : o \in EnqueueInputs} :
           maxRetries' = [maxRetries EXCEPT ![t] = n]
    BY <1>2 DEF Enqueue
  <2>3. tried' = tried
    BY <1>2 DEF Enqueue
  <2>4. Contract!Enqueue(t, n)
    BY <2>1, <2>2, <2>3 DEF Contract!Enqueue, Contract!Move, statusBar
  <2> QED BY <2>2, <2>4 DEF Contract!Next
<1>3. ASSUME NEW w \in Workers, Start(w) \/ HandlerSucceeds(w) \/ HandlerFails(w) PROVE Contract!Next
  <2>1. PICK t \in Tasks : t = job[w].task
    BY <1>0, <1>3, DeliveryFacts DEF Start, HandlerSucceeds, HandlerFails, Lifecycle
  <2>2. statusBar' = [statusBar EXCEPT ![t] = Status(t)'] /\ statusBar[t] = Status(t)
    BY <1>3, <2>1, StatusBarMoves DEF Acts
  <2>3. maxRetries' = maxRetries
    BY <1>3 DEF Start, HandlerSucceeds, HandlerFails, taskVars
  <2>4. CASE Start(w)
    <3>1. /\ Status(t) = "pending" /\ Status(t)' = "running"
          /\ tried' = [tried EXCEPT ![t] = @ + 1]
      BY <2>1, <2>4, StartMoves
    <3>2. Contract!Deliver(t)
      BY <2>2, <2>3, <3>1 DEF Contract!Deliver, Contract!Move, statusBar
    <3> QED BY <3>2 DEF Contract!Next
  <2>5. CASE HandlerSucceeds(w)
    <3>1. Status(t) = "running" /\ Status(t)' = "gone" /\ tried' = tried
      BY <2>1, <2>5, SucceedMoves
    <3>2. Contract!Acknowledge(t)
      BY <2>2, <2>3, <3>1 DEF Contract!Acknowledge, Contract!Move, statusBar
    <3> QED BY <3>2 DEF Contract!Next
  <2>6. CASE HandlerFails(w)
    <3>1. /\ Status(t) = "running" /\ tried' = tried
          /\ \/ tried[t] > maxRetries[t] /\ Status(t)' = "dead"
             \/ tried[t] <= maxRetries[t] /\ Status(t)' = "pending"
      BY <2>1, <2>6, FailMoves
    <3>2. Contract!Die(t) \/ Contract!Retry(t)
      BY <2>2, <2>3, <3>1 DEF Contract!Die, Contract!Retry, Contract!Move, statusBar
    <3> QED BY <3>2 DEF Contract!Next
  <2> QED BY <1>3, <2>4, <2>5, <2>6
<1>4. ASSUME NEW c \in Callers, PublishRequeued(c) \/ DeleteDead(c) PROVE Contract!Next
  <2>1. PICK t \in Tasks : t = op[c].task
    BY <1>0, <1>4 DEF PublishRequeued, DeleteDead, Lifecycle
  <2>2. statusBar' = [statusBar EXCEPT ![t] = Status(t)'] /\ statusBar[t] = Status(t)
    BY <1>4, <2>1, StatusBarMoves DEF Acts
  <2>3. maxRetries' = maxRetries
    BY <1>4 DEF PublishRequeued, DeleteDead
  <2>4. CASE PublishRequeued(c)
    <3>1. Status(t) = "dead" /\ Status(t)' = "pending" /\ tried' = [tried EXCEPT ![t] = 0]
      BY <2>1, <2>4, RequeueMoves
    <3>2. Contract!RequeueDeadTask(t)
      BY <2>2, <2>3, <3>1 DEF Contract!RequeueDeadTask, Contract!Move, statusBar
    <3> QED BY <3>2 DEF Contract!Next
  <2>5. CASE DeleteDead(c)
    <3>1. Status(t) = "dead" /\ Status(t)' = "gone" /\ tried' = tried
      BY <2>1, <2>5, DeleteMoves
    <3>2. Contract!DeleteDeadTask(t)
      BY <2>2, <2>3, <3>1 DEF Contract!DeleteDeadTask, Contract!Move, statusBar
    <3> QED BY <3>2 DEF Contract!Next
  <2> QED BY <1>4, <2>4, <2>5
<1> QED BY <1>1, <1>2, <1>3, <1>4 DEF Acts

(* What workqueue.go promises of every back end: each task is delivered to *)
(* one handler at a time, retried within its budget, dead when the budget  *)
(* is used up, and leaves the dead tasks only by a requeue or a delete.    *)
(* Delays, heartbeats, hand-backs after a Stop, the publish-then-ack and   *)
(* publish-then-delete hand-overs between the streams and the dropping of  *)
(* duplicates are all invisible, if nothing crashes or gets lost.          *)
THEOREM ContractImplemented == ASSUME Undisturbed PROVE Spec => ImplementsContract
<1>1. Init => RInv /\ Contract!Init
  <2> SUFFICES ASSUME Init PROVE RInv /\ Contract!Init
    OBVIOUS
  <2>1. /\ stream = {} /\ dlq = {} /\ ids = {} /\ AckPending = {}
        /\ \A c \in Callers : op[c].step = "none"
        /\ \A t \in Tasks : fate[t] = "none" /\ tried[t] = 0
        /\ \A w \in Workers : pc[w] = "idle"
        /\ \A p \in Procs : inbox[p] = {} /\ sub[p] = "idle"
    BY DEF Init, ServerInit, NoOp, AckPending
  <2>2. Places /\ Kept /\ Reached /\ Pinned
    BY <2>1 DEF Places, Numbered, DeadNumbered, Traced, OpsTraced, IdsKnown, Kept, Reached, Pinned
  <2>3. Hands(1)
    BY <2>1, FS_EmptySet, DeploymentAssumption
       DEF Hands, InHand, InboxOnce, OneConsumer, Few, Manned
  <2>4. \A t : LiveCopies(t) = {} /\ LiveDead(t) = {}
    BY <2>1, LiveFacts
  <2>5. Single
    BY <2>1, <2>4 DEF Single, SingleFor
  <2>6. Contract!Init
    BY <2>1, StatusFacts DEF Init, Contract!Init
  <2> QED BY <2>2, <2>3, <2>5, <2>6, TypeInit DEF RInv
<1>2. RInv /\ [Next]_vars => RInv'
  BY RInvStep
<1>3. RInv /\ [Next]_vars => [Contract!Next]_(Contract!vars)
  BY ContractStep
<1> QED BY <1>1, <1>2, <1>3, PTL DEF Spec, ImplementsContract, Contract!Spec
=============================================================================
