------------------------------- MODULE MCMemory -------------------------------
(***************************************************************************)
(* Small deployments of the in-memory back end.                            *)
(***************************************************************************)
EXTENDS MemoryWorkQueue

CONSTANTS q1, q2, t1, t2, s1, w1, w2

(* One subscription, on the first queue; the second is only enqueued on. *)
PoolSubOf == [w \in Workers |-> s1]
PoolQueueOf == [s \in Subs |-> q1]
PoolBackoff == [s \in Subs |-> [base |-> 1, max |-> 2]]

(* Tasks are interchangeable, and so are the workers of a subscription. *)
PoolSymmetry == Permutations(Workers) \cup Permutations(Tasks)

Input(runAt, delay, maxRetries) ==
    [runAt |-> runAt, delay |-> delay, maxRetries |-> maxRetries]

(* A task due at once without retries (a negative budget is none), one     *)
(* delayed with a retry.                                                   *)
FewInputs == {Input(ZeroTime, 0, -1), Input(ZeroTime, 1, 1)}
=============================================================================
