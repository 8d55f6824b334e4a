------------------------------ MODULE MCOptions ------------------------------
(***************************************************************************)
(* A caller that applies options in any order and number, and a task whose *)
(* attempts count up: every combination of settings in a small range of    *)
(* durations, overflow of the doubling included.  The settings of Enqueue  *)
(* and of Consume are independent, so only one of the two leaves its       *)
(* defaults in a behaviour.                                                *)
(***************************************************************************)
EXTENDS Options, FiniteSetsExt

CONSTANTS MaxAttempt,     \* bound: attempts count up to this
          Now             \* the caller's clock

ASSUME CallerAssumption == MaxAttempt \in Nat /\ Now \in Nat \ {ZeroTime}

VARIABLES enqueue, consume, attempt

vars == <<enqueue, consume, attempt>>

Init == /\ enqueue = DefaultEnqueueOptions
        /\ consume = DefaultConsumeOptions
        /\ attempt = 0

SetEnqueueOption ==
    /\ \/ \E d \in {-1, 2, 3} : enqueue' = WithDelay(enqueue, d)
       \/ \E t \in {ZeroTime, Now - 1, Now + 1} : enqueue' = WithRunAt(enqueue, t)
       \/ \E n \in {-2, 0, 1} : enqueue' = WithMaxRetries(enqueue, n)
    /\ consume = DefaultConsumeOptions
    /\ UNCHANGED <<consume, attempt>>

SetConsumeOption ==
    /\ \/ \E n \in {-1, 0, 2} : consume' = WithConcurrency(consume, n)
       \/ \E b, m \in Durations : consume' = WithRetryBackoff(consume, b, m)
    /\ enqueue = DefaultEnqueueOptions
    /\ UNCHANGED <<enqueue, attempt>>

Fail == /\ attempt < MaxAttempt
        /\ attempt' = attempt + 1
        /\ UNCHANGED <<enqueue, consume>>

Requeue == attempt' = 0 /\ UNCHANGED <<enqueue, consume>>

Next == SetEnqueueOption \/ SetConsumeOption \/ Fail \/ Requeue

Spec == Init /\ [][Next]_vars

-----------------------------------------------------------------------------
Backoff == RetryBackoff(consume.base, consume.max, attempt)

TypeOK == /\ attempt \in 0 .. MaxAttempt
          /\ ResolveRunAt(enqueue, Now) \in Nat
          /\ NewEnqueueOptions(enqueue).maxRetries \in Nat
          /\ Backoff \in Durations

(* options.go RetryBackoff, against its own comment: the delay is          *)
(* min(base * 2^(attempt-1), max) in exact arithmetic, with a non-positive *)
(* base replaced by the default and max raised to base, although d *= 2    *)
(* wraps: the d < 0 guard catches every overflow.                          *)
BackoffIsCappedDoubling ==
    LET b == IF consume.base > 0 THEN consume.base ELSE DefaultBackoffBase
    IN  Backoff = Min({b * PowerOfTwo[Max({attempt, 1}) - 1], Max({b, consume.max})})

(* NewConsumeOptions: whatever the options, the resolved settings are      *)
(* usable (a worker, a positive base, a cap no smaller), and the clamping  *)
(* that RetryBackoff repeats on its arguments agrees with them, so a       *)
(* back end that resolves the settings and one that does not back off      *)
(* alike.                                                                  *)
ConsumeSettingsAgree ==
    LET o == NewConsumeOptions(consume)
    IN  /\ o.concurrency >= 1 /\ 0 < o.base /\ o.base <= o.max
        /\ RetryBackoff(o.base, o.max, attempt) = Backoff

(* WithRunAt takes precedence over WithDelay in either order: while a run  *)
(* time is set, no other option moves the resolved run time; while none    *)
(* is, the task never resolves to a time before now.                       *)
RunAtWins ==
    [][LET at(o) == ResolveRunAt(o, Now) IN
       /\ enqueue.runAt # ZeroTime /\ enqueue'.runAt = enqueue.runAt
            => at(enqueue') = at(enqueue)
       /\ enqueue'.runAt = ZeroTime => at(enqueue') >= Now]_vars
=============================================================================
