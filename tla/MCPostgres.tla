------------------------------ MODULE MCPostgres ------------------------------
(***************************************************************************)
(* Small deployments of the PostgreSQL back end.                           *)
(***************************************************************************)
EXTENDS PostgresWorkQueue, TLC

CONSTANTS t1, t2, p1, p2, w1, w2

(* Two processes with a worker each; one process with the workers, next to *)
(* one that only calls.                                                    *)
ApartProcOf == w1 :> p1 @@ w2 :> p2
TogetherProcOf == [w \in Workers |-> p1]

(* The two processes of the first are interchangeable, and so are the      *)
(* workers of the second.                                                  *)
ApartSymmetry ==
    {f \in Permutations(Procs \cup Workers) :
        \A w \in Workers : f[w] \in Workers /\ ProcOf[f[w]] = f[ProcOf[w]]}
PoolSymmetry == Permutations(Workers)

Input(delay, maxRetries) == [runAt |-> ZeroTime, delay |-> delay, maxRetries |-> maxRetries]

OneRetry == {Input(0, 1)}
Mixed    == {Input(0, 1), Input(2, -1)}
=============================================================================
