------------------------------ MODULE WorkQueue ------------------------------
(***************************************************************************)
(* The contract of workqueue/workqueue.go, which every back end implements *)
(* behind the WorkQueue interface: the life of each task, without queues,  *)
(* clocks or workers.  A task is delivered to one consumer at a time, is   *)
(* retried at most maxRetries times after its first failure, moves to the  *)
(* dead-letter queue when a failure exhausts that budget, and leaves the   *)
(* dead-letter queue only by RequeueDeadTask or DeleteDeadTask.  The back  *)
(* ends that lease a task to its consumer document weaker promises: a      *)
(* delivery that outlives its lease is handed back and made again.         *)
(***************************************************************************)
EXTENDS Naturals

CONSTANTS Tasks,
          Budgets,      \* the retry budgets callers ask for
          Leased        \* a delivery may be taken for abandoned

VARIABLES status,       \* of each task: none, pending, running, dead or gone
          attempts,     \* handler invocations since it was last (re)queued
          maxRetries    \* its retry budget

vars == <<status, attempts, maxRetries>>

Init == /\ status = [t \in Tasks |-> "none"]
        /\ attempts = [t \in Tasks |-> 0]
        /\ maxRetries = [t \in Tasks |-> 0]

Move(t, from, to) == status[t] = from /\ status' = [status EXCEPT ![t] = to]

(* Enqueue accepts a task under a fresh ID. *)
Enqueue(t, n) == /\ Move(t, "none", "pending")
                 /\ maxRetries' = [maxRetries EXCEPT ![t] = n]
                 /\ UNCHANGED attempts

(* A consumer's handler is invoked; Attempts counts this invocation. *)
Deliver(t) == /\ Move(t, "pending", "running")
              /\ attempts' = [attempts EXCEPT ![t] = @ + 1]
              /\ UNCHANGED maxRetries

(* The handler returns nil. *)
Acknowledge(t) == /\ Move(t, "running", "gone")
                  /\ UNCHANGED <<attempts, maxRetries>>

(* The handler returns an error with retries left. *)
Retry(t) == /\ attempts[t] <= maxRetries[t]
            /\ Move(t, "running", "pending")
            /\ UNCHANGED <<attempts, maxRetries>>

(* The handler returns an error and the budget is exhausted. *)
Die(t) == /\ attempts[t] > maxRetries[t]
          /\ Move(t, "running", "dead")
          /\ UNCHANGED <<attempts, maxRetries>>

(* Deliveries are abandoned: their consumers crashed, or ran for longer    *)
(* than their leases and may still be running.                             *)
Abandon(ts) == /\ Leased
               /\ \A t \in ts : status[t] = "running"
               /\ status' = [t \in Tasks |-> IF t \in ts THEN "pending" ELSE status[t]]
               /\ UNCHANGED <<attempts, maxRetries>>

(* The consumer of an abandoned delivery succeeds after all. *)
AcknowledgeLate(t) == /\ Leased
                      /\ Move(t, "pending", "gone") \/ Move(t, "dead", "gone")
                      /\ UNCHANGED <<attempts, maxRetries>>

RequeueDeadTask(t) == /\ Move(t, "dead", "pending")
                      /\ attempts' = [attempts EXCEPT ![t] = 0]
                      /\ UNCHANGED maxRetries

DeleteDeadTask(t) == /\ Move(t, "dead", "gone")
                     /\ UNCHANGED <<attempts, maxRetries>>

Next == \/ \E t \in Tasks : \/ \E n \in Budgets : Enqueue(t, n)
                            \/ Deliver(t) \/ Acknowledge(t) \/ Retry(t) \/ Die(t)
                            \/ AcknowledgeLate(t)
                            \/ RequeueDeadTask(t) \/ DeleteDeadTask(t)
        \/ \E ts \in SUBSET Tasks : Abandon(ts)

Spec == Init /\ [][Next]_vars
=============================================================================
