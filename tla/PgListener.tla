------------------------------ MODULE PgListener ------------------------------
(***************************************************************************)
(* postgres_workqueue/listener.go: the dedicated LISTEN connection of each *)
(* process.  PostgreSQL hands a notification to the sessions that LISTEN   *)
(* when it is committed; a session that is lost loses what it had not      *)
(* received, and while a process has none nothing is kept for it.          *)
(*                                                                         *)
(* The queue in PostgresWorkQueue composes these actions with what onWake  *)
(* does to its workers.                                                    *)
(***************************************************************************)
EXTENDS Integers

CONSTANTS Procs,
          Listening,        \* processes that have a DSN to listen with
          ReconnectMin, ReconnectMax,
          MaxLosses         \* bound: how often connections fail

ASSUME ListenerAssumption ==
    /\ Listening \subseteq Procs
    /\ ReconnectMin \in Nat \ {0} /\ ReconnectMax \in Nat \ {0} /\ MaxLosses \in Nat

VARIABLES conn,      \* where the goroutine run is
          inbox,     \* notifications the session holds for WaitForNotification
          backoff,   \* how long the next failure waits
          pause,     \* what is left of time.After
          losses     \* counted for the bound only

listenerVars == <<conn, inbox, backoff, pause, losses>>

ConnStates == {"off",        \* poll-only: no DSN, or closed
               "connect",    \* in listenOnce, before LISTEN is in force
               "listen",     \* LISTEN is in force, onWake("") is still to come
               "wait",       \* in WaitForNotification
               "backoff"}    \* the connection was lost

ListenerTypeOK == /\ conn \in [Procs -> ConnStates]
                  /\ inbox \in [Procs -> Nat]
                  /\ backoff \in [Procs -> Nat]
                  /\ pause \in [Procs -> Nat]
                  /\ losses \in Nat

(* startListener: without a DSN the queue only polls. *)
Started(p) == IF p \in Listening THEN "connect" ELSE "off"

ListenerInit == /\ conn = [p \in Procs |-> Started(p)]
                /\ inbox = [p \in Procs |-> 0]
                /\ backoff = [p \in Procs |-> ReconnectMin]
                /\ pause = [p \in Procs |-> 0]
                /\ losses = 0

(* A session exists and LISTEN is in force. *)
Hears(p) == conn[p] \in {"listen", "wait"}

(* pg_notify takes effect with its transaction. *)
Notify == /\ inbox' = [p \in Procs |-> IF Hears(p) THEN inbox[p] + 1 ELSE inbox[p]]
          /\ UNCHANGED <<conn, backoff, pause, losses>>

(* Mutant: the loop goes straight on to wait for notifications. *)
ListenOnly(p) == /\ conn[p] = "connect"
                 /\ conn' = [conn EXCEPT ![p] = "wait"]
                 /\ UNCHANGED <<inbox, backoff, pause, losses>>

(* pgx.Connect and LISTEN. *)
Listen(p) == /\ conn[p] = "connect"
             /\ conn' = [conn EXCEPT ![p] = "listen"]
             /\ UNCHANGED <<inbox, backoff, pause, losses>>

(* onWake("") once LISTEN is in force. *)
WakeAll(p) == /\ conn[p] = "listen"
              /\ conn' = [conn EXCEPT ![p] = "wait"]
              /\ UNCHANGED <<inbox, backoff, pause, losses>>

(* WaitForNotification returns one, for onWake. *)
Receive(p) == /\ conn[p] = "wait" /\ inbox[p] > 0
              /\ inbox' = [inbox EXCEPT ![p] = @ - 1]
              /\ UNCHANGED <<conn, backoff, pause, losses>>

Doubled(d) == IF 2 * d < ReconnectMax THEN 2 * d ELSE ReconnectMax

(* listenOnce returns an error, from whichever call: wait, and wait longer *)
(* the next time.  No return of listenOnce ever resets the backoff, for it *)
(* only returns errors.                                                    *)
LoseConnection(p) ==
    /\ conn[p] \in {"connect", "listen", "wait"} /\ losses < MaxLosses
    /\ losses' = losses + 1
    /\ conn' = [conn EXCEPT ![p] = "backoff"]
    /\ inbox' = [inbox EXCEPT ![p] = 0]
    /\ pause' = [pause EXCEPT ![p] = backoff[p]]
    /\ backoff' = [backoff EXCEPT ![p] = Doubled(@)]

(* Mutant: the loop ends with the first error. *)
GiveUpOnLoss(p) ==
    /\ conn[p] = "backoff" /\ pause[p] = 0
    /\ conn' = [conn EXCEPT ![p] = "returned"]
    /\ UNCHANGED <<inbox, backoff, pause, losses>>

Reconnect(p) == /\ conn[p] = "backoff" /\ pause[p] = 0
                /\ conn' = [conn EXCEPT ![p] = "connect"]
                /\ UNCHANGED <<inbox, backoff, pause, losses>>

(* Close cancels the context, which ends every call of run, and waits for  *)
(* run to return.                                                          *)
CloseListener(p) ==
    /\ conn[p] # "off"
    /\ conn' = [conn EXCEPT ![p] = "off"]
    /\ inbox' = [inbox EXCEPT ![p] = 0]
    /\ pause' = [pause EXCEPT ![p] = 0]
    /\ UNCHANGED <<backoff, losses>>

(* The process dies and starts again with a new listener. *)
RestartListener(p) ==
    /\ conn' = [conn EXCEPT ![p] = Started(p)]
    /\ inbox' = [inbox EXCEPT ![p] = 0]
    /\ backoff' = [backoff EXCEPT ![p] = ReconnectMin]
    /\ pause' = [pause EXCEPT ![p] = 0]
    /\ UNCHANGED losses

(* The steps of run that do nothing to the workers. *)
ListenerStep(p) == Listen(p) \/ Reconnect(p)
=============================================================================
