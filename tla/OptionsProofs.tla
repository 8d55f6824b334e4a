---------------------------- MODULE OptionsProofs ----------------------------
(***************************************************************************)
(* What the operators of options.go return, for every input.  RetryBackoff *)
(* is a loop, so its exact value is shown by induction over the rounds.    *)
(***************************************************************************)
EXTENDS Options, TLAPS, WellFoundedInduction

(* A non-empty set of natural numbers has a least element.                 *)
LEMMA LeastNatural ==
    ASSUME NEW T, T \subseteq Nat, T # {}
    PROVE  \E x \in T : \A y \in T : x <= y
<1>1. PICK x \in T : \A y \in T : ~ (<<y, x>> \in OpToRel(<, Nat))
  BY WFMin, NatLessThanWellFounded, Zenon
<1>2. ASSUME NEW y \in T PROVE x <= y
  <2>1. <<y, x>> \in Nat \X Nat
     OBVIOUS
  <2> QED BY <1>1, <2>1 DEF OpToRel
<1> QED BY <1>2

(* Induction over the natural numbers, for a set rather than a predicate.  *)
LEMMA SetInduction ==
    ASSUME NEW S, 0 \in S, \A n \in Nat : n \in S => n + 1 \in S
    PROVE  \A n \in Nat : n \in S
<1> SUFFICES ASSUME NEW k \in Nat, k \notin S PROVE FALSE
  OBVIOUS
<1> DEFINE T == Nat \ S
<1>1. T \subseteq Nat /\ T # {}
  OBVIOUS
<1> HIDE DEF T
<1>2. PICK x \in T : \A y \in T : x <= y
  BY <1>1, LeastNatural
<1> USE DEF T
<1>3. x \in Nat /\ x # 0 /\ x - 1 \in Nat
  BY <1>2
<1>4. x - 1 \in S
  BY <1>2, <1>3
<1> QED BY <1>2, <1>3, <1>4

(* Iterating a function from a starting point is well defined: n rounds of *)
(* a loop leave one value.                                                 *)
LEMMA IterationExists ==
    ASSUME NEW S, NEW b \in S, NEW step \in [S -> S]
    PROVE  \E g \in [Nat -> S] : g[0] = b /\ \A i \in Nat : i # 0 => g[i] = step[g[i - 1]]
<1> DEFINE Run(g, n) == /\ g \in [0 .. n -> S] /\ g[0] = b
                        /\ \A i \in 1 .. n : g[i] = step[g[i - 1]]
<1>1. \A n \in Nat : \E g \in [0 .. n -> S] : Run(g, n)
  <2> DEFINE P == {n \in Nat : \E g \in [0 .. n -> S] : Run(g, n)}
  <2>1. 0 \in P
    <3>1. Run([i \in 0 .. 0 |-> b], 0)
      OBVIOUS
    <3> QED BY <3>1
  <2>2. ASSUME NEW n \in Nat, n \in P PROVE n + 1 \in P
    <3>1. PICK g \in [0 .. n -> S] : Run(g, n)
      BY <2>2
    <3> DEFINE h == [i \in 0 .. n + 1 |-> IF i = n + 1 THEN step[g[n]] ELSE g[i]]
    <3>2. h \in [0 .. n + 1 -> S] /\ h[0] = b
      BY <3>1
    <3>3. ASSUME NEW i \in 1 .. n + 1 PROVE h[i] = step[h[i - 1]]
      <4>1. i - 1 \in 0 .. n + 1 /\ i - 1 # n + 1 /\ i \in 0 .. n + 1
        OBVIOUS
      <4>2. h[i - 1] = g[i - 1]
        BY <4>1
      <4>3. CASE i = n + 1
        BY <4>1, <4>2, <4>3
      <4>4. CASE i # n + 1
        <5>1. i \in 1 .. n /\ h[i] = g[i]
          BY <4>1, <4>4
        <5> QED BY <3>1, <4>2, <5>1
      <4> QED BY <4>3, <4>4
    <3> HIDE DEF h
    <3>4. Run(h, n + 1)
      BY <3>2, <3>3
    <3> QED BY <3>2, <3>4
  <2> HIDE DEF P
  <2>3. \A n \in Nat : n \in P
    BY <2>1, <2>2, SetInduction
  <2> QED BY <2>3 DEF P
<1>2. ASSUME NEW m \in Nat, NEW n \in Nat, NEW g, NEW h, Run(g, m), Run(h, n)
      PROVE  \A i \in Nat : i <= m /\ i <= n => g[i] = h[i]
  <2> DEFINE P == {i \in Nat : i <= m /\ i <= n => g[i] = h[i]}
  <2>1. 0 \in P
    BY <1>2
  <2>2. ASSUME NEW i \in Nat, i \in P PROVE i + 1 \in P
    <3> SUFFICES ASSUME i + 1 <= m, i + 1 <= n PROVE g[i + 1] = h[i + 1]
      OBVIOUS
    <3>1. i + 1 \in 1 .. m /\ i + 1 \in 1 .. n /\ (i + 1) - 1 = i
      OBVIOUS
    <3>2. g[i] = h[i]
      BY <2>2
    <3> QED BY <1>2, <3>1, <3>2
  <2> HIDE DEF P
  <2>3. \A i \in Nat : i \in P
    BY <2>1, <2>2, SetInduction
  <2> QED BY <2>3 DEF P
<1> DEFINE run(n) == CHOOSE g \in [0 .. n -> S] : Run(g, n)
           f == [n \in Nat |-> run(n)[n]]
<1>3. ASSUME NEW n \in Nat PROVE run(n) \in [0 .. n -> S] /\ Run(run(n), n)
  BY <1>1
<1> HIDE DEF run
<1>4. f \in [Nat -> S]
  <2>1. ASSUME NEW n \in Nat PROVE run(n)[n] \in S
    BY <1>3
  <2> QED BY <2>1
<1>5. ASSUME NEW i \in Nat PROVE f[i] = IF i = 0 THEN b ELSE step[f[i - 1]]
  <2>1. CASE i = 0
    BY <1>3, <2>1
  <2>2. CASE i # 0
    <3>1. i - 1 \in Nat /\ i \in 1 .. i
      BY <2>2
    <3>2. run(i)[i] = step[run(i)[i - 1]]
      BY <1>3, <3>1
    <3>3. run(i)[i - 1] = run(i - 1)[i - 1]
      <4>1. Run(run(i), i) /\ Run(run(i - 1), i - 1)
        BY <1>3, <3>1
      <4> HIDE DEF Run
      <4>2. \A j \in Nat : j <= i /\ j <= i - 1 => run(i)[j] = run(i - 1)[j]
        BY <1>2, <3>1, <4>1
      <4> QED BY <3>1, <4>2
    <3> QED BY <2>2, <3>1, <3>2, <3>3
  <2> QED BY <2>1, <2>2
<1> HIDE DEF f
<1>6. f[0] = b /\ \A i \in Nat : i # 0 => f[i] = step[f[i - 1]]
  BY <1>5
<1> QED BY <1>4, <1>6

-----------------------------------------------------------------------------
(* The loop of RetryBackoff. *)

(* Wrapping an exact integer gives an integer: what d *= 2 leaves in d.    *)
LEMMA WrapIsInt == ASSUME NEW x \in Int PROVE Wrap(x) \in Int
BY DurationAssumption DEF Wrap

(* A duration that is not negative doubles exactly, or comes out negative: *)
(* one doubling cannot overflow far enough to be positive again.           *)
LEMMA WrapOfDouble ==
    ASSUME NEW x \in 0 .. MaxDuration
    PROVE  Wrap(2 * x) = IF 2 * x <= MaxDuration THEN 2 * x ELSE 2 * x - 2 * (MaxDuration + 1)
<1>1. PICK m \in Nat : m = MaxDuration + 1 /\ x < m /\ m > 0
  BY DurationAssumption
<1>2. CASE 2 * x <= MaxDuration
  <2>1. 2 * x + m \in 0 .. 2 * m - 1
    BY <1>1, <1>2, DurationAssumption
  <2>2. (2 * x + m) % (2 * m) = 2 * x + m
    BY <1>1, <2>1
  <2> QED BY <1>1, <1>2, <2>2, DurationAssumption DEF Wrap
<1>3. CASE 2 * x > MaxDuration
  <2>1. PICK r \in 0 .. 2 * m - 1 : 2 * x + m = 2 * m + r
    BY <1>1, <1>3, DurationAssumption
  <2>2. (2 * m + r) % (2 * m) = r
    BY <1>1, <2>1
  <2> QED BY <1>1, <1>3, <2>1, <2>2, DurationAssumption DEF Wrap
<1> QED BY <1>2, <1>3, DurationAssumption

(* The rounds of the loop: d starts at b and is doubled in each.           *)
LEMMA DoublingsFacts ==
    ASSUME NEW b \in Int
    PROVE  /\ Doublings(b) \in [Nat -> Int]
           /\ Doublings(b)[0] = b
           /\ \A i \in Nat : Doublings(b)[i + 1] = Wrap(2 * Doublings(b)[i])
<1> DEFINE S == Int
           step == [x \in Int |-> Wrap(2 * x)]
           Eq(g) == g = [i \in Nat |-> IF i = 0 THEN b ELSE Wrap(2 * g[i - 1])]
<1>0. PICK c : c = b /\ c \in S
  OBVIOUS
<1>1. c \in S /\ step \in [S -> S]
  BY <1>0, WrapIsInt
<1> HIDE DEF S, step
<1>2. PICK f \in [Nat -> S] : f[0] = b /\ \A i \in Nat : i # 0 => f[i] = step[f[i - 1]]
  <2>1. \E f \in [Nat -> S] : f[0] = c /\ \A i \in Nat : i # 0 => f[i] = step[f[i - 1]]
    BY <1>1, IterationExists
  <2> QED BY <1>0, <2>1
<1> USE DEF S
<1>3. Eq(f)
  <2>1. ASSUME NEW i \in Nat PROVE f[i] = IF i = 0 THEN b ELSE Wrap(2 * f[i - 1])
    <3>1. f[i] = IF i = 0 THEN b ELSE step[f[i - 1]]
      BY <1>2
    <3>2. i # 0 => f[i - 1] \in Int
      BY <1>2
    <3> QED BY <3>1, <3>2 DEF step
  <2> QED BY <1>2, <2>1
<1>4. Doublings(b) = CHOOSE g : Eq(g)
  BY DEF Doublings
<1>5. Eq(Doublings(b))
  <2> HIDE DEF Eq
  <2> QED BY <1>3, <1>4
<1> DEFINE d == Doublings(b)
<1> HIDE DEF d
<1>6. d = [i \in Nat |-> IF i = 0 THEN b ELSE Wrap(2 * d[i - 1])]
  BY <1>5 DEF d
<1>7. d[0] = b /\ \A i \in Nat : d[i + 1] = Wrap(2 * d[i])
  <2>1. ASSUME NEW i \in Nat PROVE d[i + 1] = Wrap(2 * d[i])
    <3>1. i + 1 \in Nat /\ i + 1 # 0 /\ (i + 1) - 1 = i
      OBVIOUS
    <3> QED BY <1>6, <3>1
  <2> QED BY <1>6, <2>1
<1>8. \A i \in Nat : d[i] \in Int
  <2> DEFINE P == {i \in Nat : d[i] \in Int}
  <2>1. 0 \in P /\ \A i \in Nat : i \in P => i + 1 \in P
    BY <1>7, WrapIsInt
  <2> HIDE DEF P
  <2>2. \A i \in Nat : i \in P
    BY <2>1, SetInduction
  <2> QED BY <2>2 DEF P
<1>9. d \in [Nat -> Int]
  BY <1>6, <1>8
<1> QED BY <1>7, <1>9 DEF d

(* The powers of two satisfy their equation.                               *)
LEMMA PowerFacts ==
    /\ PowerOfTwo[0] = 1
    /\ \A n \in Nat : PowerOfTwo[n] \in Nat /\ PowerOfTwo[n + 1] = 2 * PowerOfTwo[n]
<1> DEFINE S == Nat
           step == [x \in Nat |-> 2 * x]
           Eq(g) == g = [n \in Nat |-> IF n = 0 THEN 1 ELSE 2 * g[n - 1]]
<1>1. 1 \in S /\ step \in [S -> S]
  OBVIOUS
<1> HIDE DEF S, step
<1>2. PICK f \in [Nat -> S] : f[0] = 1 /\ \A i \in Nat : i # 0 => f[i] = step[f[i - 1]]
  BY <1>1, IterationExists
<1> USE DEF S
<1>3. Eq(f)
  <2>1. ASSUME NEW i \in Nat PROVE f[i] = IF i = 0 THEN 1 ELSE 2 * f[i - 1]
    <3>1. f[i] = IF i = 0 THEN 1 ELSE step[f[i - 1]]
      BY <1>2
    <3>2. i # 0 => f[i - 1] \in Nat
      BY <1>2
    <3> QED BY <3>1, <3>2 DEF step
  <2> QED BY <1>2, <2>1
<1>4. PowerOfTwo = CHOOSE g : Eq(g)
  BY DEF PowerOfTwo
<1>5. Eq(PowerOfTwo)
  <2> HIDE DEF Eq
  <2> QED BY <1>3, <1>4
<1>6. PowerOfTwo[0] = 1 /\ \A i \in Nat : PowerOfTwo[i + 1] = 2 * PowerOfTwo[i]
  <2>1. ASSUME NEW i \in Nat PROVE PowerOfTwo[i + 1] = 2 * PowerOfTwo[i]
    <3>1. i + 1 \in Nat /\ i + 1 # 0 /\ (i + 1) - 1 = i
      OBVIOUS
    <3> QED BY <1>5, <3>1
  <2> QED BY <1>5, <2>1
<1>7. \A i \in Nat : PowerOfTwo[i] \in Nat
  <2> DEFINE P == {i \in Nat : PowerOfTwo[i] \in Nat}
  <2>1. 0 \in P /\ \A i \in Nat : i \in P => i + 1 \in P
    BY <1>6
  <2> HIDE DEF P
  <2>2. \A i \in Nat : i \in P
    BY <2>1, SetInduction
  <2> QED BY <2>2 DEF P
<1> QED BY <1>6, <1>7

(* options.go's RetryBackoff never returns a negative delay, whatever base *)
(* and max it is given and however far the doubling overflows, and never   *)
(* one beyond the cap it was asked for (or beyond base, when max < base).  *)
THEOREM RetryBackoffBounded ==
    ASSUME NEW base \in Int, NEW max \in Int, NEW attempt \in Int
    PROVE  /\ RetryBackoff(base, max, attempt) \in Nat
           /\ RetryBackoff(base, max, attempt) <= Larger(PositiveBase(base), max)
<1>1. PICK b \in Nat \ {0} : b = PositiveBase(base)
  BY DefaultsAssumption DEF PositiveBase
<1>2. PICK m \in Nat : m = Larger(b, max) /\ m >= b
  BY DEF Larger
<1>3. PICK n \in Nat : n = Larger(1, attempt) /\ n >= 1
  BY DEF Larger
<1> DEFINE d == Doublings(b)
<1>4. RetryBackoff(base, max, attempt)
        = IF \E i \in 1 .. n - 1 : d[i] >= m \/ d[i] < 0 THEN m ELSE d[n - 1]
  BY <1>1, <1>2, <1>3 DEF RetryBackoff
<1>5. d \in [Nat -> Int] /\ d[0] = b
  BY DoublingsFacts
<1> HIDE DEF d
<1>6. CASE n = 1
  BY <1>1, <1>2, <1>4, <1>5, <1>6
<1>7. CASE n # 1
  <2>1. n - 1 \in 1 .. n - 1 /\ d[n - 1] \in Int
    BY <1>3, <1>5, <1>7
  <2>2. CASE \E i \in 1 .. n - 1 : d[i] >= m \/ d[i] < 0
    BY <1>1, <1>2, <1>4, <2>2
  <2>3. CASE ~ \E i \in 1 .. n - 1 : d[i] >= m \/ d[i] < 0
    BY <1>1, <1>2, <1>4, <2>1, <2>3
  <2> QED BY <2>2, <2>3
<1> QED BY <1>6, <1>7

(* The comment of RetryBackoff, "min(base * 2^(attempt-1), max)", in exact *)
(* arithmetic for every base, max and attempt, with a base that is not     *)
(* positive replaced by the default and max raised to base: although d     *)
(* wraps, the guards of the loop catch every overflow in the round where   *)
(* it happens.                                                             *)
THEOREM RetryBackoffIsExact ==
    ASSUME NEW base \in Durations, NEW max \in Durations, NEW attempt \in Int
    PROVE  LET b     == PositiveBase(base)
               m     == Larger(b, max)
               exact == b * PowerOfTwo[Larger(1, attempt) - 1]
           IN  RetryBackoff(base, max, attempt) = IF exact < m THEN exact ELSE m
<1>1. PICK b \in 1 .. MaxDuration : b = PositiveBase(base)
  BY DefaultsAssumption, DurationAssumption DEF PositiveBase, Durations
<1>2. PICK m \in b .. MaxDuration : m = Larger(b, max)
  BY DurationAssumption DEF Larger, Durations
<1>3. PICK k \in Nat : k = Larger(1, attempt) - 1
  BY DEF Larger
<1> DEFINE d       == Doublings(b)
           x(i)    == b * PowerOfTwo[i]
           Good(i) == \A j \in 1 .. i : ~ (d[j] >= m \/ d[j] < 0)
           Inv(i)  == /\ Good(i) => d[i] = x(i) /\ (i = 0 \/ d[i] < m)
                      /\ ~ Good(i) => x(i) >= m
<1>4. RetryBackoff(base, max, attempt) = IF ~ Good(k) THEN m ELSE d[k]
  BY <1>1, <1>2, <1>3 DEF RetryBackoff
<1>5. d \in [Nat -> Int] /\ d[0] = b /\ \A i \in Nat : d[i + 1] = Wrap(2 * d[i])
  BY DoublingsFacts, DurationAssumption
<1> HIDE DEF d
<1>6. x(0) = b /\ \A i \in Nat : x(i) \in Nat /\ x(i) >= 0 /\ x(i + 1) = 2 * x(i)
  <2>1. ASSUME NEW p \in Nat PROVE b * (2 * p) = 2 * (b * p) /\ b * p \in Nat
    BY DurationAssumption
  <2> QED BY <2>1, PowerFacts, DurationAssumption
<1> HIDE DEF x
<1>7. \A i \in Nat : Inv(i)
  <2> DEFINE P == {i \in Nat : Inv(i)}
  <2>1. 0 \in P
    BY <1>5, <1>6
  <2>2. ASSUME NEW i \in Nat, i \in P PROVE i + 1 \in P
    <3>1. Inv(i) /\ d[i] \in Int /\ d[i + 1] \in Int /\ d[i + 1] = Wrap(2 * d[i])
      BY <1>5, <2>2
    <3>2. x(i) \in Nat /\ x(i + 1) = 2 * x(i)
      BY <1>6
    <3>3. Good(i + 1) <=> Good(i) /\ ~ (d[i + 1] >= m \/ d[i + 1] < 0)
      OBVIOUS
    <3>4. CASE ~ Good(i)
      BY <3>1, <3>2, <3>3, <3>4, DurationAssumption
    <3>5. CASE Good(i)
      <4>1. d[i] = x(i) /\ d[i] \in 0 .. MaxDuration
        BY <1>5, <3>1, <3>2, <3>5, DurationAssumption
      <4>2. d[i + 1] = IF 2 * d[i] <= MaxDuration THEN 2 * d[i] ELSE 2 * d[i] - 2 * (MaxDuration + 1)
        BY <3>1, <4>1, WrapOfDouble
      <4> HIDE DEF Good
      <4> QED BY <3>2, <3>3, <3>5, <4>1, <4>2, DurationAssumption
    <3> QED BY <3>4, <3>5
  <2> HIDE DEF P
  <2>3. \A i \in Nat : i \in P
    BY <2>1, <2>2, SetInduction
  <2> QED BY <2>3 DEF P
<1>8. RetryBackoff(base, max, attempt) = IF x(k) < m THEN x(k) ELSE m
  <2>1. Inv(k) /\ x(k) \in Nat /\ d[k] \in Int /\ (k = 0 => x(k) = b)
    BY <1>5, <1>6, <1>7
  <2> HIDE DEF Good
  <2> QED BY <1>2, <1>4, <2>1, DurationAssumption
<1> QED BY <1>1, <1>2, <1>3, <1>8 DEF x

(* options.go clamps the consume settings in NewConsumeOptions and clamps  *)
(* base and max once more in RetryBackoff.  Whatever was asked for, the    *)
(* resolved settings are usable (a worker, a positive base, a cap no       *)
(* smaller) and the second clamping changes nothing: a back end that       *)
(* resolves the settings first and one that passes them on as given back   *)
(* off alike, at every attempt.                                            *)
THEOREM ResolvedSettingsAgree ==
    ASSUME NEW base \in Int, NEW max \in Int, NEW n \in Int, NEW attempt \in Int
    PROVE  LET o == NewConsumeOptions([concurrency |-> n, base |-> base, max |-> max])
           IN  /\ o.concurrency >= 1 /\ 0 < o.base /\ o.base <= o.max
               /\ RetryBackoff(o.base, o.max, attempt) = RetryBackoff(base, max, attempt)
<1> DEFINE o == NewConsumeOptions([concurrency |-> n, base |-> base, max |-> max])
<1>1. /\ o.concurrency = Larger(1, n)
      /\ o.base = PositiveBase(base)
      /\ o.max = Larger(PositiveBase(base), max)
  BY DEF NewConsumeOptions
<1>2. PositiveBase(base) \in Nat \ {0}
  BY DefaultsAssumption DEF PositiveBase
<1>3. PositiveBase(PositiveBase(base)) = PositiveBase(base)
  BY <1>2 DEF PositiveBase
<1>4. Larger(PositiveBase(base), Larger(PositiveBase(base), max))
        = Larger(PositiveBase(base), max)
  BY <1>2 DEF Larger
<1>5. RetryBackoff(o.base, o.max, attempt) = RetryBackoff(base, max, attempt)
  <2> HIDE DEF o
  <2>1. PositiveBase(o.base) = PositiveBase(base)
    BY <1>1, <1>3
  <2>2. Larger(PositiveBase(o.base), o.max) = Larger(PositiveBase(base), max)
    BY <1>1, <1>4, <2>1
  <2> QED BY <2>1, <2>2, Zenon DEF RetryBackoff
<1>6. o.concurrency >= 1 /\ 0 < o.base /\ o.base <= o.max
  BY <1>1, <1>2 DEF Larger
<1> QED BY <1>5, <1>6

(* ResolveRunAt: options applied in either order resolve alike, a run time *)
(* that was set is not moved by a delay, and without one no delay, however *)
(* negative, resolves to a time before now.                                *)
THEOREM RunAtTakesPrecedence ==
    ASSUME NEW d \in Int, NEW t \in Int, NEW now \in Nat, NEW n \in Int, NEW r \in Int
    PROVE  LET o == [runAt |-> r, delay |-> 0, maxRetries |-> n]
           IN  /\ ResolveRunAt(WithDelay(WithRunAt(o, t), d), now)
                    = ResolveRunAt(WithRunAt(WithDelay(o, d), t), now)
               /\ t # ZeroTime => ResolveRunAt(WithDelay(WithRunAt(o, t), d), now) = t
               /\ r = ZeroTime => ResolveRunAt(WithDelay(o, d), now) >= now
BY DEF ResolveRunAt, WithDelay, WithRunAt, Larger
=============================================================================
