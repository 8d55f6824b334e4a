--------------------------- MODULE MCOptionsProofs ---------------------------
(***************************************************************************)
(* The properties of the options run without its bounds: every range of    *)
(* durations, every default, any number of attempts.                       *)
(***************************************************************************)
EXTENDS MCOptions, OptionsProofs

(* The settings are what the option closures take: numbers, durations, and *)
(* a run time that is a time or not set.                                   *)
Settings ==
    /\ enqueue \in [runAt : Nat, delay : Int, maxRetries : Int]
    /\ consume \in [concurrency : Int, base : Durations, max : Durations]
    /\ attempt \in 0 .. MaxAttempt

(* The smaller and the larger of two numbers, as FiniteSetsExt finds them. *)
LEMMA MinMaxOfTwo ==
    ASSUME NEW a \in Int, NEW b \in Int
    PROVE  /\ Max({a, b}) = IF a < b THEN b ELSE a
           /\ Min({a, b}) = IF a < b THEN a ELSE b
<1>1. PICK x \in {a, b} : \A y \in {a, b} : x >= y
  <2>1. CASE a < b
    BY <2>1
  <2>2. CASE ~ (a < b)
    BY <2>2
  <2> QED BY <2>1, <2>2
<1>2. PICK z \in {a, b} : \A y \in {a, b} : z <= y
  <2>1. CASE a < b
    BY <2>1
  <2>2. CASE ~ (a < b)
    BY <2>2
  <2> QED BY <2>1, <2>2
<1>3. Max({a, b}) \in {a, b} /\ \A y \in {a, b} : Max({a, b}) >= y
  BY <1>1 DEF Max
<1>4. Min({a, b}) \in {a, b} /\ \A y \in {a, b} : Min({a, b}) <= y
  BY <1>2 DEF Min
<1> QED BY <1>3, <1>4

(* The defaults are settings.                                              *)
LEMMA SettingsInit == Init => Settings
BY DefaultsAssumption, DurationAssumption, CallerAssumption
   DEF Init, Settings, DefaultEnqueueOptions, DefaultConsumeOptions, Durations, ZeroTime

(* Every option keeps them so.                                             *)
LEMMA SettingsStep == Settings /\ [Next]_vars => Settings'
<1> SUFFICES ASSUME Settings, [Next]_vars PROVE Settings'
  OBVIOUS
<1>1. CASE SetEnqueueOption
  BY <1>1, CallerAssumption DEF SetEnqueueOption, Settings, WithDelay, WithRunAt, WithMaxRetries, ZeroTime
<1>2. CASE SetConsumeOption
  <2>1. /\ consume \in [concurrency : Int, base : Durations, max : Durations]
        /\ UNCHANGED <<enqueue, attempt>>
    BY <1>2 DEF SetConsumeOption, Settings
  <2>2. CASE \E n \in {-1, 0, 2} : consume' = WithConcurrency(consume, n)
    BY <2>1, <2>2 DEF Settings, WithConcurrency
  <2>3. CASE \E b, m \in Durations : consume' = WithRetryBackoff(consume, b, m)
    <3>1. PICK b \in Durations, m \in Durations : consume' = [consume EXCEPT !.base = b, !.max = m]
      BY <2>3 DEF WithRetryBackoff
    <3>2. consume' \in [concurrency : Int, base : Durations, max : Durations]
      BY <2>1, <3>1
    <3> QED BY <2>1, <3>2 DEF Settings
  <2> QED BY <1>2, <2>2, <2>3 DEF SetConsumeOption
<1>3. CASE Fail
  BY <1>3, CallerAssumption DEF Fail, Settings
<1>4. CASE Requeue
  BY <1>4, CallerAssumption DEF Requeue, Settings
<1>5. CASE UNCHANGED vars
  BY <1>5 DEF vars, Settings
<1> QED BY <1>1, <1>2, <1>3, <1>4, <1>5 DEF Next

(* A delay is a duration.                                                  *)
LEMMA BackoffFacts ==
    ASSUME Settings
    PROVE  /\ Backoff \in Durations
           /\ consume.base \in Durations /\ consume.max \in Durations /\ attempt \in Nat
<1>1. consume.base \in Durations /\ consume.max \in Durations /\ attempt \in Nat
  BY CallerAssumption DEF Settings
<1>2. consume.base \in Int /\ consume.max \in Int /\ attempt \in Int
  BY <1>1, DurationAssumption DEF Durations
<1>3. Backoff \in Nat /\ Backoff <= Larger(PositiveBase(consume.base), consume.max)
  BY <1>2, RetryBackoffBounded DEF Backoff
<1>4. Larger(PositiveBase(consume.base), consume.max) \in 0 .. MaxDuration
  BY <1>1, DefaultsAssumption, DurationAssumption DEF Durations, Larger, PositiveBase
<1>5. Backoff \in Durations
  BY <1>3, <1>4, DurationAssumption DEF Durations
<1> QED BY <1>1, <1>5

(* Whatever options were given and however often a task failed, the        *)
(* resolved run time is a time, the budget a natural number and the delay  *)
(* a duration that did not overflow.                                       *)
THEOREM TypeCorrect == Spec => []TypeOK
<1>1. ASSUME Settings PROVE TypeOK
  <2>1. ResolveRunAt(enqueue, Now) \in Nat
    BY <1>1, CallerAssumption DEF Settings, ResolveRunAt, Larger
  <2>2. NewEnqueueOptions(enqueue).maxRetries \in Nat
    BY <1>1 DEF Settings, NewEnqueueOptions, Larger
  <2> QED BY <1>1, <2>1, <2>2, BackoffFacts DEF TypeOK, Settings
<1> QED BY <1>1, SettingsInit, SettingsStep, PTL DEF Spec

(* The delay is the one the comment of RetryBackoff promises, in exact     *)
(* arithmetic, for every width of time.Duration.                           *)
THEOREM BackoffDoubles == Spec => []BackoffIsCappedDoubling
<1>1. ASSUME Settings PROVE BackoffIsCappedDoubling
  <2>1. consume.base \in Durations /\ consume.max \in Durations /\ attempt \in Nat
    BY <1>1, BackoffFacts
  <2>2. consume.base \in Int /\ consume.max \in Int
    BY <2>1, DurationAssumption DEF Durations
  <2>3. PICK b \in Nat : /\ b = PositiveBase(consume.base)
                         /\ b = IF consume.base > 0 THEN consume.base ELSE DefaultBackoffBase
    BY <2>2, DefaultsAssumption DEF PositiveBase
  <2>4. PICK m \in Int : m = Larger(b, consume.max) /\ m = Max({b, consume.max})
    BY <2>2, MinMaxOfTwo DEF Larger
  <2>5. PICK k \in Nat : k = Larger(1, attempt) - 1 /\ k = Max({attempt, 1}) - 1
    BY <2>1, MinMaxOfTwo DEF Larger
  <2>6. PICK x \in Int : x = b * PowerOfTwo[k]
    BY PowerFacts
  <2>7. Backoff = IF x < m THEN x ELSE m
    <3>1. LET c     == PositiveBase(consume.base)
              n     == Larger(c, consume.max)
              exact == c * PowerOfTwo[Larger(1, attempt) - 1]
          IN  RetryBackoff(consume.base, consume.max, attempt) = IF exact < n THEN exact ELSE n
      <4>1. attempt \in Int
        BY <2>1
      <4> QED BY <2>1, <4>1, RetryBackoffIsExact
    <3> QED BY <2>3, <2>4, <2>5, <2>6, <3>1 DEF Backoff
  <2>8. Min({x, m}) = IF x < m THEN x ELSE m
    BY MinMaxOfTwo
  <2> QED BY <2>3, <2>4, <2>5, <2>6, <2>7, <2>8 DEF BackoffIsCappedDoubling
<1> QED BY <1>1, SettingsInit, SettingsStep, PTL DEF Spec

(* A back end that resolves its settings with NewConsumeOptions and one    *)
(* that passes them on as given back off alike.                            *)
THEOREM SettingsAgree == Spec => []ConsumeSettingsAgree
<1>1. ASSUME Settings PROVE ConsumeSettingsAgree
  <2>1. consume = [concurrency |-> consume.concurrency, base |-> consume.base, max |-> consume.max]
    BY <1>1 DEF Settings
  <2>2. /\ consume.concurrency \in Int /\ consume.base \in Int /\ consume.max \in Int
        /\ attempt \in Int
    BY <1>1, BackoffFacts, DurationAssumption DEF Settings, Durations
  <2> QED BY <2>1, <2>2, ResolvedSettingsAgree DEF ConsumeSettingsAgree, Backoff
<1> QED BY <1>1, SettingsInit, SettingsStep, PTL DEF Spec

(* WithRunAt wins over WithDelay in whatever order and number they are     *)
(* applied, and no delay resolves to a time before now.                    *)
THEOREM RunAtAlwaysWins == Spec => RunAtWins
<1>1. ASSUME Settings', [Next]_vars
      PROVE  LET at(o) == ResolveRunAt(o, Now) IN
             /\ enqueue.runAt # ZeroTime /\ enqueue'.runAt = enqueue.runAt
                  => at(enqueue') = at(enqueue)
             /\ enqueue'.runAt = ZeroTime => at(enqueue') >= Now
  BY <1>1, CallerAssumption DEF Settings, ResolveRunAt, Larger
<1> QED BY <1>1, SettingsInit, SettingsStep, PTL DEF Spec, RunAtWins
=============================================================================
