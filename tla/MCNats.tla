-------------------------------- MODULE MCNats --------------------------------
(***************************************************************************)
(* Small deployments of the JetStream back end.                            *)
(***************************************************************************)
EXTENDS NatsWorkQueue, TLC

CONSTANTS t1, t2, p1, p2, w1, w2, c1, c2

(* One process with all slots; two processes with a slot each. *)
TogetherProcOf == [w \in Workers |-> p1]
ApartProcOf == w1 :> p1 @@ w2 :> p2

(* The two processes of that deployment are interchangeable. *)
ApartSymmetry ==
    {f \in Permutations(Procs \cup Workers) :
        \A w \in Workers : f[w] \in Workers /\ ProcOf[f[w]] = f[ProcOf[w]]}

Input(delay, budget) == [runAt |-> ZeroTime, delay |-> delay, maxRetries |-> budget]

NoRetry  == {Input(0, -1)}
OneRetry == {Input(0, 1)}
UpToOne  == {Input(0, 1), Input(0, -1)}
Delayed  == {Input(1, 1)}
=============================================================================
