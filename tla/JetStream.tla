------------------------------ MODULE JetStream ------------------------------
(***************************************************************************)
(* The NATS JetStream server as nats_workqueue uses it: for one queue, the *)
(* work-queue-retention stream of its tasks with the one durable consumer  *)
(* all subscribers share, and the dead-letter stream.                      *)
(*                                                                         *)
(* A stored message is handed out once, in order, as long as fewer than    *)
(* MaxAckPending messages await an acknowledgement, and again whenever its *)
(* time to redelivery is up; redeliveries do not count against that bound. *)
(* It leaves the stream when it is acknowledged, whichever of its          *)
(* deliveries that comes from.  A message published under an ID that the   *)
(* stream remembers is confirmed but not stored.                           *)
(***************************************************************************)
EXTENDS Integers, FiniteSets

CONSTANTS Tasks, AckWait

ASSUME ServerAssumption == AckWait \in Nat \ {0}

VARIABLES stream,      \* the tasks stream: the messages stored in it
          lastSeq,
          ids,         \* the message IDs in the duplicate window
          dlq,         \* the dead-letter stream
          lastDead

serverVars == <<stream, lastSeq, ids, dlq, lastDead>>

(* A message carries a task: its attempts and the ticks until its RunAt.   *)
(* Once sent it is redelivered when left has run down.                     *)
Messages == [seq : Nat, task : Tasks, attempts : Nat, wait : Nat, sent : BOOLEAN, left : Nat]
DeadEntries == [seq : Nat, task : Tasks, attempts : Nat]
MsgIDs == Tasks \X Nat

ServerTypeOK == /\ stream \subseteq Messages /\ lastSeq \in Nat
                /\ ids \subseteq MsgIDs
                /\ dlq \subseteq DeadEntries /\ lastDead \in Nat

ServerInit == stream = {} /\ lastSeq = 0 /\ ids = {} /\ dlq = {} /\ lastDead = 0

Store(t, n, wait) ==
    /\ lastSeq' = lastSeq + 1
    /\ stream' = stream \cup {[seq |-> lastSeq + 1, task |-> t, attempts |-> n,
                               wait |-> wait, sent |-> FALSE, left |-> 0]}

(* Publish to the tasks subject, without and with a message ID. *)
Publish(t, n, wait) == Store(t, n, wait) /\ UNCHANGED <<ids, dlq, lastDead>>

PublishOnce(t, n, wait, id) ==
    \/ id \in ids /\ UNCHANGED serverVars
    \/ id \notin ids /\ Store(t, n, wait) /\ ids' = ids \cup {id} /\ UNCHANGED <<dlq, lastDead>>

PublishDead(t, n) ==
    /\ lastDead' = lastDead + 1
    /\ dlq' = dlq \cup {[seq |-> lastDead + 1, task |-> t, attempts |-> n]}
    /\ UNCHANGED <<stream, lastSeq, ids>>

(* The duplicate window passes. *)
ForgetIDs(t) ==
    /\ ids' = {id \in ids : id[1] # t}
    /\ ids' # ids
    /\ UNCHANGED <<stream, lastSeq, dlq, lastDead>>

AckPending == {m \in stream : m.sent}

(* The consumer may hand out m. *)
Deliverable(m, maxAckPending) ==
    \/ m.sent /\ m.left = 0
    \/ /\ ~ m.sent /\ Cardinality(AckPending) < maxAckPending
       /\ \A n \in stream : n.sent \/ m.seq <= n.seq

(* The message with this number, if it is still there, will be redelivered *)
(* after d: a delivery, an InProgress, a Nak and a NakWithDelay.           *)
Redeliver(seq, d) ==
    /\ stream' = {IF m.seq = seq THEN [m EXCEPT !.sent = TRUE, !.left = d] ELSE m : m \in stream}
    /\ UNCHANGED <<lastSeq, ids, dlq, lastDead>>

Acknowledge(seq) ==
    /\ stream' = {m \in stream : m.seq # seq}
    /\ UNCHANGED <<lastSeq, ids, dlq, lastDead>>

DeleteMsg(seq) ==
    /\ dlq' = {e \in dlq : e.seq # seq}
    /\ UNCHANGED <<stream, lastSeq, ids, lastDead>>

CountDown(n) == IF n > 0 THEN n - 1 ELSE 0

ServerTick ==
    /\ stream' = {[m EXCEPT !.wait = CountDown(@), !.left = CountDown(@)] : m \in stream}
    /\ UNCHANGED <<lastSeq, ids, dlq, lastDead>>
=============================================================================
