-------------------------------- MODULE MCGorm --------------------------------
(***************************************************************************)
(* Small deployments of the database back end.                             *)
(***************************************************************************)
EXTENDS GormWorkQueue, TLC

CONSTANTS t1, t2, p1, p2, w1, w2

(* Two processes with a worker each; one process with two workers. *)
ApartProcOf == w1 :> p1 @@ w2 :> p2
TogetherProcOf == [w \in Workers |-> p1]

(* Tasks are interchangeable, and so are two workers of one process. *)
PoolSymmetry == Permutations(Tasks) \cup Permutations(Workers)

Input(delay, maxRetries) == [runAt |-> ZeroTime, delay |-> delay, maxRetries |-> maxRetries]

NoRetry  == {Input(0, -1)}
OneRetry == {Input(0, 1)}
UpToOne  == {Input(0, 1), Input(0, -1)}
Mixed    == {Input(0, 1), Input(2, -1)}
=============================================================================
