------------------------------- MODULE Options -------------------------------
(***************************************************************************)
(* workqueue/options.go: how the settings given to Enqueue and Consume are *)
(* resolved, and the retry backoff every back end shares.  Durations are   *)
(* signed integers that wrap when doubled past MaxDuration.                *)
(***************************************************************************)
EXTENDS Integers

CONSTANTS MaxDuration,          \* the largest time.Duration, 2^63 - 1 in Go
          DefaultBackoffBase,   \* used when the given base is not positive
          DefaultBackoffMax,
          DefaultConcurrency,
          DefaultMaxRetries

ASSUME DurationAssumption == MaxDuration \in Nat \ {0}
ASSUME DefaultsAssumption == /\ DefaultBackoffBase \in Nat \ {0}
                             /\ DefaultBackoffMax \in DefaultBackoffBase .. MaxDuration
                             /\ DefaultConcurrency \in Nat \ {0}
                             /\ DefaultMaxRetries \in Nat

(* The zero time.Time: "not set".  Clocks start after it. *)
ZeroTime == 0

Larger(a, b) == IF a < b THEN b ELSE a

(* The two's complement reading of an exact integer. *)
Wrap(x) == ((x + MaxDuration + 1) % (2 * (MaxDuration + 1))) - (MaxDuration + 1)

Durations == -(MaxDuration + 1) .. MaxDuration

(* Exact powers, for what the comments of options.go write as 2^(n-1).     *)
PowerOfTwo[n \in Nat] == IF n = 0 THEN 1 ELSE 2 * PowerOfTwo[n - 1]

-----------------------------------------------------------------------------
(* Settings of Enqueue: the defaults, what each EnqueueOption sets, and    *)
(* the resolution done once the options have been applied in turn.         *)

DefaultEnqueueOptions ==
    [runAt |-> ZeroTime, delay |-> 0, maxRetries |-> DefaultMaxRetries]

WithDelay(o, d)      == [o EXCEPT !.delay = d]
WithRunAt(o, t)      == [o EXCEPT !.runAt = t]
WithMaxRetries(o, n) == [o EXCEPT !.maxRetries = n]

(* Mutant: a negative retry budget is kept. *)
NewEnqueueOptionsUnclamped(o) == o

NewEnqueueOptions(o) == [o EXCEPT !.maxRetries = Larger(0, @)]

(* Mutant: the delay wins over the run time. *)
ResolveRunAtDelayFirst(o, now) ==
    IF o.delay > 0 \/ o.runAt = ZeroTime THEN now + Larger(0, o.delay) ELSE o.runAt

ResolveRunAt(o, now) ==
    IF o.runAt # ZeroTime THEN o.runAt ELSE now + Larger(0, o.delay)

-----------------------------------------------------------------------------
(* Settings of Consume, likewise. *)

DefaultConsumeOptions ==
    [concurrency |-> DefaultConcurrency,
     base        |-> DefaultBackoffBase,
     max         |-> DefaultBackoffMax]

WithConcurrency(o, n)     == [o EXCEPT !.concurrency = n]
WithRetryBackoff(o, b, m) == [o EXCEPT !.base = b, !.max = m]

PositiveBase(base) == IF base <= 0 THEN DefaultBackoffBase ELSE base

(* Mutant: max is not raised to base. *)
NewConsumeOptionsLowMax(o) ==
    [concurrency |-> Larger(1, o.concurrency), base |-> PositiveBase(o.base), max |-> o.max]

NewConsumeOptions(o) ==
    LET base == PositiveBase(o.base) IN
    [concurrency |-> Larger(1, o.concurrency),
     base        |-> base,
     max         |-> Larger(base, o.max)]

(* d after i rounds of RetryBackoff's loop, d *= 2 wrapping in each.       *)
Doublings(b) == LET d[i \in Nat] == IF i = 0 THEN b ELSE Wrap(2 * d[i - 1]) IN d

(* Mutant: no guard against overflow. *)
RetryBackoffWraps(base, max, attempt) ==
    LET b == PositiveBase(base)
        m == Larger(b, max)
        n == Larger(1, attempt)
        d == Doublings(b)
    IN  IF \E i \in 1 .. n - 1 : d[i] >= m THEN m ELSE d[n - 1]

(* The delay before the attempt-th retry: the loop returns max in the      *)
(* first round whose d reached max or came out negative.                   *)
RetryBackoff(base, max, attempt) ==
    LET b == PositiveBase(base)
        m == Larger(b, max)
        n == Larger(1, attempt)
        d == Doublings(b)
    IN  IF \E i \in 1 .. n - 1 : d[i] >= m \/ d[i] < 0 THEN m ELSE d[n - 1]
=============================================================================
