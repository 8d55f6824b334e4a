----------------------- MODULE PostgresWorkQueueProofs -----------------------
(***************************************************************************)
(* The PostgreSQL back end, for any number of tasks, processes and         *)
(* workers, any lease, and any number of lapses, crashes, lost connections *)
(* and database errors.                                                    *)
(***************************************************************************)
EXTENDS PostgresWorkQueue, OptionsProofs, FiniteSetTheorems

-----------------------------------------------------------------------------
(* The parts of the inductive invariant. *)

(* A worker has a record while its claim is open and while it handles it;  *)
(* a process that does not consume has no worker running.                  *)
Lifecycle ==
    \A w \in Workers : /\ pc[w] \in {"commit", "handle"} <=> job[w] # NoJob
                       /\ sub[ProcOf[w]] = "idle" => pc[w] = "off"

(* An open claim has locked a due row, and the row is as it was read.      *)
LockHolds ==
    \A w \in Workers : pc[w] = "commit" =>
        LET r == row[job[w].task] IN
        /\ r.status = "pending" /\ r.wait = 0
        /\ job[w].attempts = r.attempts + 1 /\ job[w].life = r.life

(* SKIP LOCKED: no row is locked by two open claims.                       *)
LocksDiffer ==
    \A v, w \in Workers : v # w /\ pc[v] = "commit" /\ pc[w] = "commit"
                            => job[v].task # job[w].task

(* The table is never behind what a handler was given.                     *)
NotAhead ==
    \A w \in Workers : pc[w] = "handle" =>
        LET r == row[job[w].task] IN
        /\ r.status # "absent"
        /\ job[w].life <= r.life
        /\ job[w].life = r.life => job[w].attempts <= r.attempts


-----------------------------------------------------------------------------
(* The statements, column by column. *)

Statuses == {"absent", "pending", "running", "dead", "deleted"}

(* The types of the columns.                                               *)
LEMMA RowFacts ==
    ASSUME NEW r \in Rows
    PROVE  /\ r.attempts \in Nat /\ r.maxRetries \in Nat /\ r.life \in Nat /\ r.wait \in Nat
           /\ r.lease \in Int /\ r.by \in Procs \cup {NoProc} /\ r.heard \in BOOLEAN
           /\ r.status \in Statuses
BY DEF Rows, Statuses

(* A row by its columns.                                                   *)
MkRow(s, a, m, w, l, f, b, h) ==
    [status |-> s, attempts |-> a, maxRetries |-> m, wait |-> w, lease |-> l,
     life |-> f, by |-> b, heard |-> h]

(* A row is its columns.                                                   *)
LEMMA RowIsColumns ==
    ASSUME NEW r \in Rows
    PROVE  \E s \in Statuses, a \in Nat, m \in Nat, w \in Nat, l \in Int, f \in Nat,
              b \in Procs \cup {NoProc}, h \in BOOLEAN : r = MkRow(s, a, m, w, l, f, b, h)
<1>1. r = MkRow(r.status, r.attempts, r.maxRetries, r.wait, r.lease, r.life, r.by, r.heard)
  BY DEF Rows, MkRow
<1> QED BY <1>1, RowFacts, Zenon

(* Assigning a column.                                                     *)
LEMMA SetStatus ==
    ASSUME NEW s, NEW a, NEW m, NEW w, NEW l, NEW f, NEW b, NEW h, NEW x
    PROVE  [MkRow(s, a, m, w, l, f, b, h) EXCEPT !.status = x] = MkRow(x, a, m, w, l, f, b, h)
BY DEF MkRow

(* Assigning the attempts column of a row written out in full.             *)
LEMMA SetAttempts ==
    ASSUME NEW s, NEW a, NEW m, NEW w, NEW l, NEW f, NEW b, NEW h, NEW x
    PROVE  [MkRow(s, a, m, w, l, f, b, h) EXCEPT !.attempts = x] = MkRow(s, x, m, w, l, f, b, h)
BY DEF MkRow

(* Likewise the time until run_at.                                         *)
LEMMA SetWait ==
    ASSUME NEW s, NEW a, NEW m, NEW w, NEW l, NEW f, NEW b, NEW h, NEW x
    PROVE  [MkRow(s, a, m, w, l, f, b, h) EXCEPT !.wait = x] = MkRow(s, a, m, x, l, f, b, h)
BY DEF MkRow

(* Likewise the lease.                                                     *)
LEMMA SetLease ==
    ASSUME NEW s, NEW a, NEW m, NEW w, NEW l, NEW f, NEW b, NEW h, NEW x
    PROVE  [MkRow(s, a, m, w, l, f, b, h) EXCEPT !.lease = x] = MkRow(s, a, m, w, x, f, b, h)
BY DEF MkRow

(* Likewise the life, which is not a column.                               *)
LEMMA SetLife ==
    ASSUME NEW s, NEW a, NEW m, NEW w, NEW l, NEW f, NEW b, NEW h, NEW x
    PROVE  [MkRow(s, a, m, w, l, f, b, h) EXCEPT !.life = x] = MkRow(s, a, m, w, l, x, b, h)
BY DEF MkRow

(* Likewise the process that told its workers.                             *)
LEMMA SetBy ==
    ASSUME NEW s, NEW a, NEW m, NEW w, NEW l, NEW f, NEW b, NEW h, NEW x
    PROVE  [MkRow(s, a, m, w, l, f, b, h) EXCEPT !.by = x] = MkRow(s, a, m, w, l, f, x, h)
BY DEF MkRow

(* Likewise whether a NOTIFY announced the row.                            *)
LEMMA SetNotified ==
    ASSUME NEW s, NEW a, NEW m, NEW w, NEW l, NEW f, NEW b, NEW h, NEW x
    PROVE  [MkRow(s, a, m, w, l, f, b, h) EXCEPT !.heard = x] = MkRow(s, a, m, w, l, f, b, x)
BY DEF MkRow

(* The columns of a row, as a row.                                         *)
LEMMA MkRowFacts ==
    ASSUME NEW s \in Statuses, NEW a \in Nat, NEW m \in Nat, NEW w \in Nat, NEW l \in Int,
           NEW f \in Nat, NEW b \in Procs \cup {NoProc}, NEW h \in BOOLEAN
    PROVE  MkRow(s, a, m, w, l, f, b, h) \in Rows
BY DEF MkRow, Rows, Statuses

(* RequeueDeadTask's UPDATE.                                               *)
LEMMA RevivedFacts ==
    ASSUME TypeOK, NEW t \in Tasks, NEW by \in Procs \cup {NoProc}
    PROVE  /\ Revived(t, by) \in Rows
           /\ Revived(t, by)
                = MkRow("pending", 0, row[t].maxRetries, 0, row[t].lease, row[t].life + 1, by, TRUE)
<1>0. row[t] \in Rows
  BY DEF TypeOK
<1>1. PICK s \in Statuses, a \in Nat, m \in Nat, w \in Nat, l \in Int, f \in Nat,
           b \in Procs \cup {NoProc}, h \in BOOLEAN : row[t] = MkRow(s, a, m, w, l, f, b, h)
  BY <1>0, RowIsColumns
<1>y. PICK y \in BOOLEAN : y = TRUE
  OBVIOUS
<1>2. /\ row[t].attempts = a /\ row[t].life = f
      /\ MkRow("pending", 0, row[t].maxRetries, 0, row[t].lease, row[t].life + 1, by, TRUE) = MkRow("pending", 0, m, 0, l, f + 1, by, TRUE)
  BY <1>1 DEF MkRow
<1> DEFINE r1 == [row[t] EXCEPT !.status = "pending"]
<1>3. r1 = MkRow("pending", a, m, w, l, f, b, h)
  BY <1>1, SetStatus
<1> HIDE DEF r1
<1> DEFINE r2 == [r1 EXCEPT !.attempts = 0]
<1>4. r2 = MkRow("pending", 0, m, w, l, f, b, h)
  BY <1>3, SetAttempts
<1> HIDE DEF r2
<1> DEFINE r3 == [r2 EXCEPT !.wait = 0]
<1>5. r3 = MkRow("pending", 0, m, 0, l, f, b, h)
  BY <1>4, SetWait
<1> HIDE DEF r3
<1> DEFINE r4 == [r3 EXCEPT !.life = f + 1]
<1>6. r4 = MkRow("pending", 0, m, 0, l, f + 1, b, h)
  BY <1>5, SetLife
<1> HIDE DEF r4
<1> DEFINE r5 == [r4 EXCEPT !.by = by]
<1>7. r5 = MkRow("pending", 0, m, 0, l, f + 1, by, h)
  BY <1>6, SetBy
<1> HIDE DEF r5
<1> DEFINE r6 == [r5 EXCEPT !.heard = y]
<1>8. r6 = MkRow("pending", 0, m, 0, l, f + 1, by, y)
  BY <1>7, SetNotified
<1> HIDE DEF r6
<1>9. Revived(t, by) = r6
  BY <1>2, <1>y, Zenon DEF r1, r2, r3, r4, r5, r6, Revived
<1>10. MkRow("pending", 0, m, 0, l, f + 1, by, y) \in Rows
  BY DEF MkRow, Rows, Statuses
<1> QED BY <1>2, <1>8, <1>9, <1>10, <1>y, Zenon

(* DeleteDeadTask's DELETE.                                                *)
LEMMA DeletedFacts ==
    ASSUME TypeOK, NEW t \in Tasks
    PROVE  /\ [row[t] EXCEPT !.status = "deleted"] \in Rows
           /\ [row[t] EXCEPT !.status = "deleted"]
                = MkRow("deleted", row[t].attempts, row[t].maxRetries, row[t].wait, row[t].lease, row[t].life, row[t].by, row[t].heard)
<1>0. row[t] \in Rows
  BY DEF TypeOK
<1>1. PICK s \in Statuses, a \in Nat, m \in Nat, w \in Nat, l \in Int, f \in Nat,
           b \in Procs \cup {NoProc}, h \in BOOLEAN : row[t] = MkRow(s, a, m, w, l, f, b, h)
  BY <1>0, RowIsColumns
<1>2. /\ row[t].attempts = a /\ row[t].life = f
      /\ MkRow("deleted", row[t].attempts, row[t].maxRetries, row[t].wait, row[t].lease, row[t].life, row[t].by, row[t].heard) = MkRow("deleted", a, m, w, l, f, b, h)
  BY <1>1 DEF MkRow
<1> DEFINE r1 == [row[t] EXCEPT !.status = "deleted"]
<1>3. r1 = MkRow("deleted", a, m, w, l, f, b, h)
  BY <1>1, SetStatus
<1> HIDE DEF r1
<1>4. [row[t] EXCEPT !.status = "deleted"] = r1
  BY <1>2, Zenon DEF r1
<1>5. MkRow("deleted", a, m, w, l, f, b, h) \in Rows
  BY DEF MkRow, Rows, Statuses
<1> QED BY <1>2, <1>3, <1>4, <1>5

(* The SET clause of the claim.                                            *)
LEMMA ClaimedFacts ==
    ASSUME TypeOK, NEW t \in Tasks, NEW e \in Int
    PROVE  /\ [row[t] EXCEPT !.status = "running", !.attempts = @ + 1, !.lease = e] \in Rows
           /\ [row[t] EXCEPT !.status = "running", !.attempts = @ + 1, !.lease = e]
                = MkRow("running", row[t].attempts + 1, row[t].maxRetries, row[t].wait, e, row[t].life, row[t].by, row[t].heard)
<1>0. row[t] \in Rows
  BY DEF TypeOK
<1>1. PICK s \in Statuses, a \in Nat, m \in Nat, w \in Nat, l \in Int, f \in Nat,
           b \in Procs \cup {NoProc}, h \in BOOLEAN : row[t] = MkRow(s, a, m, w, l, f, b, h)
  BY <1>0, RowIsColumns
<1>2. /\ row[t].attempts = a /\ row[t].life = f
      /\ MkRow("running", row[t].attempts + 1, row[t].maxRetries, row[t].wait, e, row[t].life, row[t].by, row[t].heard) = MkRow("running", a + 1, m, w, e, f, b, h)
  BY <1>1 DEF MkRow
<1> DEFINE r1 == [row[t] EXCEPT !.status = "running"]
<1>3. r1 = MkRow("running", a, m, w, l, f, b, h)
  BY <1>1, SetStatus
<1> HIDE DEF r1
<1> DEFINE r2 == [r1 EXCEPT !.attempts = a + 1]
<1>4. r2 = MkRow("running", a + 1, m, w, l, f, b, h)
  BY <1>3, SetAttempts
<1> HIDE DEF r2
<1> DEFINE r3 == [r2 EXCEPT !.lease = e]
<1>5. r3 = MkRow("running", a + 1, m, w, e, f, b, h)
  BY <1>4, SetLease
<1> HIDE DEF r3
<1>6. [row[t] EXCEPT !.status = "running", !.attempts = @ + 1, !.lease = e] = r3
  BY <1>2, Zenon DEF r1, r2, r3
<1>7. MkRow("running", a + 1, m, w, e, f, b, h) \in Rows
  BY DEF MkRow, Rows, Statuses
<1> QED BY <1>2, <1>5, <1>6, <1>7

(* reapExpiredLeases' UPDATE: attempts stay.                               *)
LEMMA ReapedFacts ==
    ASSUME TypeOK, NEW t \in Tasks
    PROVE  /\ Reaped(t) \in Rows
           /\ Reaped(t)
                = MkRow("pending", row[t].attempts, row[t].maxRetries, row[t].wait, 0, row[t].life, NoProc, FALSE)
<1>0. row[t] \in Rows
  BY DEF TypeOK
<1>1. PICK s \in Statuses, a \in Nat, m \in Nat, w \in Nat, l \in Int, f \in Nat,
           b \in Procs \cup {NoProc}, h \in BOOLEAN : row[t] = MkRow(s, a, m, w, l, f, b, h)
  BY <1>0, RowIsColumns
<1>y. PICK y \in BOOLEAN : y = FALSE
  OBVIOUS
<1>2. /\ row[t].attempts = a /\ row[t].life = f
      /\ MkRow("pending", row[t].attempts, row[t].maxRetries, row[t].wait, 0, row[t].life, NoProc, FALSE) = MkRow("pending", a, m, w, 0, f, NoProc, FALSE)
  BY <1>1 DEF MkRow
<1> DEFINE r1 == [row[t] EXCEPT !.status = "pending"]
<1>3. r1 = MkRow("pending", a, m, w, l, f, b, h)
  BY <1>1, SetStatus
<1> HIDE DEF r1
<1> DEFINE r2 == [r1 EXCEPT !.lease = 0]
<1>4. r2 = MkRow("pending", a, m, w, 0, f, b, h)
  BY <1>3, SetLease
<1> HIDE DEF r2
<1> DEFINE r3 == [r2 EXCEPT !.by = NoProc]
<1>5. r3 = MkRow("pending", a, m, w, 0, f, NoProc, h)
  BY <1>4, SetBy
<1> HIDE DEF r3
<1> DEFINE r4 == [r3 EXCEPT !.heard = y]
<1>6. r4 = MkRow("pending", a, m, w, 0, f, NoProc, y)
  BY <1>5, SetNotified
<1> HIDE DEF r4
<1>7. Reaped(t) = r4
  BY <1>2, <1>y, Zenon DEF r1, r2, r3, r4, Reaped
<1>8. MkRow("pending", a, m, w, 0, f, NoProc, y) \in Rows
  BY DEF MkRow, Rows, Statuses
<1> QED BY <1>2, <1>6, <1>7, <1>8, <1>y, Zenon

(* The pg_notify that follows it.                                          *)
LEMMA HeardFacts ==
    ASSUME TypeOK, NEW t \in Tasks
    PROVE  /\ [row[t] EXCEPT !.heard = TRUE] \in Rows
           /\ [row[t] EXCEPT !.heard = TRUE]
                = MkRow(row[t].status, row[t].attempts, row[t].maxRetries, row[t].wait, row[t].lease, row[t].life, row[t].by, TRUE)
<1>0. row[t] \in Rows
  BY DEF TypeOK
<1>1. PICK s \in Statuses, a \in Nat, m \in Nat, w \in Nat, l \in Int, f \in Nat,
           b \in Procs \cup {NoProc}, h \in BOOLEAN : row[t] = MkRow(s, a, m, w, l, f, b, h)
  BY <1>0, RowIsColumns
<1>y. PICK y \in BOOLEAN : y = TRUE
  OBVIOUS
<1>2. /\ row[t].attempts = a /\ row[t].life = f
      /\ MkRow(row[t].status, row[t].attempts, row[t].maxRetries, row[t].wait, row[t].lease, row[t].life, row[t].by, TRUE) = MkRow(s, a, m, w, l, f, b, TRUE)
  BY <1>1 DEF MkRow
<1> DEFINE r1 == [row[t] EXCEPT !.heard = y]
<1>3. r1 = MkRow(s, a, m, w, l, f, b, y)
  BY <1>1, SetNotified
<1> HIDE DEF r1
<1>4. [row[t] EXCEPT !.heard = TRUE] = r1
  BY <1>2, <1>y, Zenon DEF r1
<1>5. MkRow(s, a, m, w, l, f, b, y) \in Rows
  BY DEF MkRow, Rows, Statuses
<1> QED BY <1>2, <1>3, <1>4, <1>5, <1>y, Zenon

(* complete's DELETE and its move to the dead state.                       *)
LEMMA SettledFacts ==
    ASSUME TypeOK, NEW t \in Tasks, NEW x \in {"dead", "deleted"}
    PROVE  /\ Settled(t, x) \in Rows
           /\ Settled(t, x)
                = MkRow(x, row[t].attempts, row[t].maxRetries, row[t].wait, 0, row[t].life, row[t].by, row[t].heard)
<1>0. row[t] \in Rows
  BY DEF TypeOK
<1>1. PICK s \in Statuses, a \in Nat, m \in Nat, w \in Nat, l \in Int, f \in Nat,
           b \in Procs \cup {NoProc}, h \in BOOLEAN : row[t] = MkRow(s, a, m, w, l, f, b, h)
  BY <1>0, RowIsColumns
<1>2. /\ row[t].attempts = a /\ row[t].life = f
      /\ MkRow(x, row[t].attempts, row[t].maxRetries, row[t].wait, 0, row[t].life, row[t].by, row[t].heard) = MkRow(x, a, m, w, 0, f, b, h)
  BY <1>1 DEF MkRow
<1> DEFINE r1 == [row[t] EXCEPT !.status = x]
<1>3. r1 = MkRow(x, a, m, w, l, f, b, h)
  BY <1>1, SetStatus
<1> HIDE DEF r1
<1> DEFINE r2 == [r1 EXCEPT !.lease = 0]
<1>4. r2 = MkRow(x, a, m, w, 0, f, b, h)
  BY <1>3, SetLease
<1> HIDE DEF r2
<1>5. Settled(t, x) = r2
  BY <1>2, Zenon DEF r1, r2, Settled
<1>6. MkRow(x, a, m, w, 0, f, b, h) \in Rows
  BY DEF MkRow, Rows, Statuses
<1> QED BY <1>2, <1>4, <1>5, <1>6

(* complete's reschedule.                                                  *)
LEMMA RetriedFacts ==
    ASSUME TypeOK, NEW t \in Tasks, NEW by \in Procs \cup {NoProc}, NEW d \in Nat
    PROVE  /\ [row[t] EXCEPT !.status = "pending", !.lease = 0, !.by = by, !.heard = FALSE, !.wait = d] \in Rows
           /\ [row[t] EXCEPT !.status = "pending", !.lease = 0, !.by = by, !.heard = FALSE, !.wait = d]
                = MkRow("pending", row[t].attempts, row[t].maxRetries, d, 0, row[t].life, by, FALSE)
<1>0. row[t] \in Rows
  BY DEF TypeOK
<1>1. PICK s \in Statuses, a \in Nat, m \in Nat, w \in Nat, l \in Int, f \in Nat,
           b \in Procs \cup {NoProc}, h \in BOOLEAN : row[t] = MkRow(s, a, m, w, l, f, b, h)
  BY <1>0, RowIsColumns
<1>y. PICK y \in BOOLEAN : y = FALSE
  OBVIOUS
<1>2. /\ row[t].attempts = a /\ row[t].life = f
      /\ MkRow("pending", row[t].attempts, row[t].maxRetries, d, 0, row[t].life, by, FALSE) = MkRow("pending", a, m, d, 0, f, by, FALSE)
  BY <1>1 DEF MkRow
<1> DEFINE r1 == [row[t] EXCEPT !.status = "pending"]
<1>3. r1 = MkRow("pending", a, m, w, l, f, b, h)
  BY <1>1, SetStatus
<1> HIDE DEF r1
<1> DEFINE r2 == [r1 EXCEPT !.lease = 0]
<1>4. r2 = MkRow("pending", a, m, w, 0, f, b, h)
  BY <1>3, SetLease
<1> HIDE DEF r2
<1> DEFINE r3 == [r2 EXCEPT !.by = by]
<1>5. r3 = MkRow("pending", a, m, w, 0, f, by, h)
  BY <1>4, SetBy
<1> HIDE DEF r3
<1> DEFINE r4 == [r3 EXCEPT !.heard = y]
<1>6. r4 = MkRow("pending", a, m, w, 0, f, by, y)
  BY <1>5, SetNotified
<1> HIDE DEF r4
<1> DEFINE r5 == [r4 EXCEPT !.wait = d]
<1>7. r5 = MkRow("pending", a, m, d, 0, f, by, y)
  BY <1>6, SetWait
<1> HIDE DEF r5
<1>8. [row[t] EXCEPT !.status = "pending", !.lease = 0, !.by = by, !.heard = FALSE, !.wait = d] = r5
  BY <1>2, <1>y, Zenon DEF r1, r2, r3, r4, r5
<1>9. MkRow("pending", a, m, d, 0, f, by, y) \in Rows
  BY DEF MkRow, Rows, Statuses
<1> QED BY <1>2, <1>7, <1>8, <1>9, <1>y, Zenon

(* A tick takes its share of waits and leases and nothing else.            *)
LEMMA AgedColumns ==
    ASSUME TypeOK, NEW t \in Tasks, NEW n \in Nat, NEW e \in Int
    PROVE  /\ [row[t] EXCEPT !.wait = n, !.lease = e] \in Rows
           /\ [row[t] EXCEPT !.wait = n, !.lease = e]
                = MkRow(row[t].status, row[t].attempts, row[t].maxRetries, n, e, row[t].life, row[t].by, row[t].heard)
<1>0. row[t] \in Rows
  BY DEF TypeOK
<1>1. PICK s \in Statuses, a \in Nat, m \in Nat, w \in Nat, l \in Int, f \in Nat,
           b \in Procs \cup {NoProc}, h \in BOOLEAN : row[t] = MkRow(s, a, m, w, l, f, b, h)
  BY <1>0, RowIsColumns
<1>2. /\ row[t].attempts = a /\ row[t].life = f
      /\ MkRow(row[t].status, row[t].attempts, row[t].maxRetries, n, e, row[t].life, row[t].by, row[t].heard) = MkRow(s, a, m, n, e, f, b, h)
  BY <1>1 DEF MkRow
<1> DEFINE r1 == [row[t] EXCEPT !.wait = n]
<1>3. r1 = MkRow(s, a, m, n, l, f, b, h)
  BY <1>1, SetWait
<1> HIDE DEF r1
<1> DEFINE r2 == [r1 EXCEPT !.lease = e]
<1>4. r2 = MkRow(s, a, m, n, e, f, b, h)
  BY <1>3, SetLease
<1> HIDE DEF r2
<1>5. [row[t] EXCEPT !.wait = n, !.lease = e] = r2
  BY <1>2, Zenon DEF r1, r2
<1>6. MkRow(s, a, m, n, e, f, b, h) \in Rows
  BY DEF MkRow, Rows, Statuses
<1> QED BY <1>2, <1>4, <1>5, <1>6

(* The same, for the wait and the lease a tick leaves.                     *)
LEMMA AgedFacts ==
    ASSUME TypeOK, NEW t \in Tasks
    PROVE  LET e == IF row[t].status = "running" THEN RunDown(row[t].lease) ELSE row[t].lease IN
           /\ Aged(t) \in Rows
           /\ Aged(t) = MkRow(row[t].status, row[t].attempts, row[t].maxRetries,
                CountDown(row[t].wait), e, row[t].life, row[t].by, row[t].heard)
<1> DEFINE n == CountDown(row[t].wait)
           e == IF row[t].status = "running" THEN RunDown(row[t].lease) ELSE row[t].lease
<1>0. n \in Nat /\ e \in Int
  <2>1. row[t].wait \in Nat /\ row[t].lease \in Int
    BY RowFacts DEF TypeOK
  <2> QED BY <2>1 DEF CountDown, RunDown
<1>1. Aged(t) = [row[t] EXCEPT !.wait = n, !.lease = e]
  BY DEF Aged
<1> HIDE DEF n, e
<1>2. /\ [row[t] EXCEPT !.wait = n, !.lease = e] \in Rows
      /\ [row[t] EXCEPT !.wait = n, !.lease = e] = MkRow(row[t].status, row[t].attempts,
           row[t].maxRetries, n, e, row[t].life, row[t].by, row[t].heard)
  BY <1>0, AgedColumns
<1> QED BY <1>1, <1>2 DEF n, e

(* Enqueue's INSERT, whatever the settings the caller gave.                *)
LEMMA NewRowFacts ==
    ASSUME TypeOK, NEW t \in Tasks, NEW i \in EnqueueInputs, NEW by \in Procs \cup {NoProc}
    PROVE  /\ NewRow(t, NewEnqueueOptions(i), by) \in Rows
           /\ NewRow(t, NewEnqueueOptions(i), by)
                = MkRow("pending", 0, NewEnqueueOptions(i).maxRetries,
                        ResolveRunAt(NewEnqueueOptions(i), 0), 0, row[t].life, by, TRUE)
<1>1. row[t].life \in Nat
  BY DEF TypeOK, Rows
<1>2. NewEnqueueOptions(i).maxRetries \in Nat
  BY InputAssumption DEF NewEnqueueOptions, Larger
<1>3. ResolveRunAt(NewEnqueueOptions(i), 0) \in Nat
  BY InputAssumption DEF NewEnqueueOptions, ResolveRunAt, Larger, ZeroTime
<1>4. NewRow(t, NewEnqueueOptions(i), by) \in Rows
  BY <1>1, <1>2, <1>3 DEF NewRow, Rows
<1> QED BY <1>4 DEF NewRow, MkRow

(* complete's reschedule, with the delay RetryBackoff computes.            *)
LEMMA RescheduledFacts ==
    ASSUME TypeOK, NEW j \in Records, NEW by \in Procs \cup {NoProc}
    PROVE  \E d \in Nat : LET r == MkRow("pending", row[j.task].attempts,
               row[j.task].maxRetries, d, 0, row[j.task].life, by, FALSE) IN
               r \in Rows /\ Rescheduled(j, by) = [row EXCEPT ![j.task] = r]
<1> DEFINE d == RetryBackoff(BackoffBase, BackoffMax, j.attempts)
           t == j.task
<1>1. t \in Tasks /\ j.attempts \in Int
  BY DEF Records
<1>2. d \in Nat
  BY <1>1, RetryBackoffBounded, DeploymentAssumption
<1>3. Rescheduled(j, by) = [row EXCEPT ![t] =
         [row[t] EXCEPT !.status = "pending", !.lease = 0, !.by = by, !.heard = FALSE, !.wait = d]]
  BY DEF Rescheduled
<1> HIDE DEF d, t
<1> DEFINE r == MkRow("pending", row[t].attempts, row[t].maxRetries, d, 0, row[t].life, by, FALSE)
<1>4. /\ [row[t] EXCEPT !.status = "pending", !.lease = 0, !.by = by, !.heard = FALSE, !.wait = d]
           \in Rows
      /\ [row[t] EXCEPT !.status = "pending", !.lease = 0, !.by = by, !.heard = FALSE, !.wait = d]
           = r
  BY <1>1, <1>2, RetriedFacts
<1> HIDE DEF r
<1>5. Rescheduled(j, by) = [row EXCEPT ![t] = r] /\ r \in Rows
  BY <1>3, <1>4, Zenon
<1> QED BY <1>2, <1>5 DEF r, t

(* The UPDATE of the claim, in the table.                                  *)
LEMMA ClaimedRowFacts ==
    ASSUME TypeOK, NEW w \in Workers, job[w].task \in Tasks
    PROVE  LET t == job[w].task
               r == MkRow("running", row[t].attempts + 1, row[t].maxRetries, row[t].wait,
                          lease[w], row[t].life, row[t].by, row[t].heard) IN
           r \in Rows /\ ClaimedRow(w) = [row EXCEPT ![t] = r]
<1> DEFINE t == job[w].task
           r == MkRow("running", row[t].attempts + 1, row[t].maxRetries, row[t].wait,
                      lease[w], row[t].life, row[t].by, row[t].heard)
           c == [row[t] EXCEPT !.status = "running", !.attempts = @ + 1, !.lease = lease[w]]
<1>1. lease[w] \in Int
  BY DEF TypeOK
<1>2. c \in Rows /\ c = r
  BY <1>1, ClaimedFacts
<1>3. ClaimedRow(w) = [row EXCEPT ![t] = c]
  BY Zenon DEF ClaimedRow
<1> HIDE DEF c, r, t
<1>4. r \in Rows /\ ClaimedRow(w) = [row EXCEPT ![t] = r]
  BY <1>2, <1>3
<1> QED BY <1>4 DEF r, t

-----------------------------------------------------------------------------
(* Types. *)

(* A worker that claims or handles has a record, which names a task.       *)
LEMMA Claiming ==
    ASSUME TypeOK, Lifecycle, NEW w \in Workers, pc[w] \in {"commit", "handle"}
    PROVE  /\ job[w] \in Records /\ job[w].task \in Tasks
           /\ job[w].attempts \in Nat /\ job[w].life \in Nat
<1>1. job[w] \in Records
  BY DEF TypeOK, Lifecycle
<1> QED BY <1>1 DEF Records

(* Every step of Next, by what it does.                                    *)
LEMMA NextCases ==
    ASSUME Next
    PROVE  \/ \E p \in Procs : \E t \in Tasks :
                 (\E i \in EnqueueInputs : Enqueue(p, t, i)) \/ RequeueDeadTask(p, t)
           \/ \E t \in Tasks : DeleteDeadTask(t)
           \/ \E p \in Procs : Consume(p) \/ Stop(p) \/ CloseDone(p) \/ Close(p)
           \/ \E p \in Procs : Crash(p)
           \/ \E p \in Procs : ListenerMoves(p) \/ ListenerWakes(p) \/ ConnectionDrops(p)
           \/ \E w \in Workers : WorkerStep(w)
           \/ \E w \in Workers : HandlerReturns(w)
           \/ Tick
BY DEF Next, CallerStep

(* The rows, in a step that assigns one of them.                           *)
LEMMA OneRowType ==
    ASSUME TypeOK, NEW t \in Tasks, NEW r \in Rows, row' = [row EXCEPT ![t] = r]
    PROVE  /\ row' \in [Tasks -> Rows]
           /\ row'[t] = r
           /\ \A x \in Tasks : x # t => row'[x] = row[x]
BY DEF TypeOK

(* Enqueue and RequeueDeadTask: the row they leave.                        *)
LEMMA EnqueueRow ==
    ASSUME TypeOK, NEW p \in Procs, NEW t \in Tasks, NEW i \in EnqueueInputs, Enqueue(p, t, i)
    PROVE  \E by \in {p, NoProc} :
             LET r == MkRow("pending", 0, NewEnqueueOptions(i).maxRetries,
                            ResolveRunAt(NewEnqueueOptions(i), 0), 0, row[t].life, by, TRUE) IN
             r \in Rows /\ row' = [row EXCEPT ![t] = r]
<1>1. PICK by \in {p, NoProc} : row' = [row EXCEPT ![t] = NewRow(t, NewEnqueueOptions(i), by)]
  BY DEF Enqueue
<1> QED BY <1>1, NewRowFacts

(* RequeueDeadTask writes a due row with no attempts, in its next life,    *)
(* announced by its NOTIFY; the caller's workers are told unless the       *)
(* answer was lost.                                                        *)
LEMMA RequeueRow ==
    ASSUME TypeOK, NEW p \in Procs, NEW t \in Tasks, RequeueDeadTask(p, t)
    PROVE  \E by \in {p, NoProc} :
             LET r == MkRow("pending", 0, row[t].maxRetries, 0, row[t].lease, row[t].life + 1,
                            by, TRUE) IN
             r \in Rows /\ row' = [row EXCEPT ![t] = r]
<1>1. PICK by \in {p, NoProc} : row' = [row EXCEPT ![t] = Revived(t, by)]
  BY DEF RequeueDeadTask
<1> QED BY <1>1, RevivedFacts

(* The same, column by column, as the later proofs use it.                 *)
LEMMA EnqueueColumns ==
    ASSUME TypeOK, NEW p \in Procs, NEW t \in Tasks, NEW i \in EnqueueInputs, Enqueue(p, t, i)
    PROVE  \E by \in {p, NoProc}, r \in Rows :
             /\ row' = [row EXCEPT ![t] = r]
             /\ r.status = "pending" /\ r.attempts = 0 /\ r.by = by /\ r.heard
             /\ r.maxRetries = NewEnqueueOptions(i).maxRetries
<1>1. PICK by \in {p, NoProc} : row' = [row EXCEPT ![t] = NewRow(t, NewEnqueueOptions(i), by)]
  BY DEF Enqueue
<1> DEFINE r == NewRow(t, NewEnqueueOptions(i), by)
<1>2. r \in Rows
  BY NewRowFacts
<1>3. /\ r.status = "pending" /\ r.attempts = 0 /\ r.by = by /\ r.heard
      /\ r.maxRetries = NewEnqueueOptions(i).maxRetries
  BY DEF NewRow
<1>4. row' = [row EXCEPT ![t] = r]
  BY <1>1
<1> HIDE DEF r
<1> QED BY <1>2, <1>3, <1>4

(* The columns of that row that the budget and the wake-ups depend on.     *)
LEMMA RequeueColumns ==
    ASSUME TypeOK, NEW p \in Procs, NEW t \in Tasks, RequeueDeadTask(p, t)
    PROVE  \E by \in {p, NoProc}, r \in Rows :
             /\ row' = [row EXCEPT ![t] = r]
             /\ r.status = "pending" /\ r.attempts = 0 /\ r.by = by /\ r.heard
             /\ r.maxRetries = row[t].maxRetries
<1>1. PICK by \in {p, NoProc} : row' = [row EXCEPT ![t] = Revived(t, by)]
  BY DEF RequeueDeadTask
<1> DEFINE r == Revived(t, by)
<1>2. r \in Rows /\ r = MkRow("pending", 0, row[t].maxRetries, 0, row[t].lease,
                              row[t].life + 1, by, TRUE)
  BY RevivedFacts
<1>3. row' = [row EXCEPT ![t] = r]
  BY <1>1
<1> HIDE DEF r
<1>4. /\ r.status = "pending" /\ r.attempts = 0 /\ r.by = by /\ r.heard
      /\ r.maxRetries = row[t].maxRetries
  BY <1>2 DEF MkRow
<1> QED BY <1>2, <1>3, <1>4

(* DeleteDeadTask's.                                                       *)
LEMMA DeleteRow ==
    ASSUME TypeOK, NEW t \in Tasks, DeleteDeadTask(t)
    PROVE  LET r == MkRow("deleted", row[t].attempts, row[t].maxRetries, row[t].wait,
                          row[t].lease, row[t].life, row[t].by, row[t].heard) IN
           r \in Rows /\ row' = [row EXCEPT ![t] = r]
<1> DEFINE x == [row[t] EXCEPT !.status = "deleted"]
<1>1. row' = [row EXCEPT ![t] = x]
  BY Zenon DEF DeleteDeadTask
<1> HIDE DEF x
<1> QED BY <1>1, DeletedFacts DEF x

(* Success's.                                                              *)
LEMMA SettleRow ==
    ASSUME TypeOK, NEW t \in Tasks, NEW x \in {"dead", "deleted"},
           row' = [row EXCEPT ![t] = Settled(t, x)]
    PROVE  LET r == MkRow(x, row[t].attempts, row[t].maxRetries, row[t].wait, 0, row[t].life,
                          row[t].by, row[t].heard) IN
           r \in Rows /\ row' = [row EXCEPT ![t] = r]
BY SettledFacts

(* Rows that a sweep takes back, row by row.                               *)
SweptRow(t) == IF Expired(t)
               THEN MkRow("pending", row[t].attempts, row[t].maxRetries, row[t].wait, 0,
                          row[t].life, NoProc, FALSE)
               ELSE row[t]

(* The reaper's statement sweeps every row whose lease is over, or has no  *)
(* effect.                                                                 *)
LEMMA ReapRows ==
    ASSUME TypeOK, NEW w \in Workers, Reap(w)
    PROVE  /\ row' \in [Tasks -> Rows]
           /\ row' = row \/ \A t \in Tasks : row'[t] = SweptRow(t)
<1> DEFINE reaped == [t \in Tasks |-> IF Expired(t) THEN Reaped(t) ELSE row[t]]
<1>1. row' = row \/ row' = reaped
  BY DEF Reap
<1>2. ASSUME NEW t \in Tasks PROVE reaped[t] \in Rows /\ reaped[t] = SweptRow(t)
  BY ReapedFacts DEF SweptRow, TypeOK
<1>3. reaped \in [Tasks -> Rows]
  BY <1>2
<1> HIDE DEF reaped
<1> QED BY <1>1, <1>2, <1>3 DEF TypeOK

(* The pg_notify after it changes no column of the table.                  *)
LEMMA NotifyRows ==
    ASSUME TypeOK, NEW w \in Workers, NotifyReaped(w)
    PROVE  /\ row' \in [Tasks -> Rows]
           /\ \A t \in Tasks : /\ row'[t].status = row[t].status
                               /\ row'[t].attempts = row[t].attempts
                               /\ row'[t].maxRetries = row[t].maxRetries
                               /\ row'[t].wait = row[t].wait
                               /\ row'[t].lease = row[t].lease
                               /\ row'[t].life = row[t].life
                               /\ row'[t].by = row[t].by
<1> DEFINE told == [t \in Tasks |-> IF t \in Pending THEN [row[t] EXCEPT !.heard = TRUE] ELSE row[t]]
<1>1. row' = row \/ row' = told
  BY DEF NotifyReaped
<1>2. CASE row' = row
  BY <1>2 DEF TypeOK
<1>3. CASE row' = told
  <2>1. ASSUME NEW t \in Tasks, t \in Pending
        PROVE  told[t] \in Rows /\ told[t] = MkRow(row[t].status, row[t].attempts,
                 row[t].maxRetries, row[t].wait, row[t].lease, row[t].life, row[t].by, TRUE)
    BY <2>1, HeardFacts
  <2>2. ASSUME NEW t \in Tasks, t \notin Pending PROVE told[t] \in Rows /\ told[t] = row[t]
    BY <2>2 DEF TypeOK
  <2>3. \A t \in Tasks : told[t] \in Rows
    BY <2>1, <2>2
  <2>4. told \in [Tasks -> Rows]
    BY <2>3
  <2> HIDE DEF told
  <2> QED BY <1>3, <2>1, <2>2, <2>4 DEF MkRow
<1> QED BY <1>1, <1>2, <1>3

(* complete's statements: the row, by what the handler's return does.      *)
Moved(t, x) ==
    LET r == MkRow(x, row[t].attempts, row[t].maxRetries, row[t].wait, 0, row[t].life,
                   row[t].by, row[t].heard) IN
    r \in Rows /\ row' = [row EXCEPT ![t] = r]

Retried(t, by) ==
    \E d \in Nat :
       LET r == MkRow("pending", row[t].attempts, row[t].maxRetries, d, 0, row[t].life, by,
                      FALSE) IN
       r \in Rows /\ row' = [row EXCEPT ![t] = r]

(* The statement of complete: success deletes by id, failure buries or     *)
(* reschedules under its guard, and an error may hide a retry that took    *)
(* effect.                                                                 *)
LEMMA ReturnRow ==
    ASSUME TypeOK, Lifecycle, NEW w \in Workers, HandlerReturns(w)
    PROVE  LET t == job[w].task IN
           /\ t \in Tasks /\ Release(w)
           /\ \/ HandlerSucceeds(w) /\ Moved(t, "deleted")
              \/ Bury(w) /\ Guard(job[w]) /\ Moved(t, "dead")
              \/ Reschedule(w) /\ Guard(job[w]) /\ Retried(t, ProcOf[w])
              \/ CompleteFails(w) /\ ~ Exhausted(job[w]) /\ Guard(job[w]) /\ Retried(t, NoProc)
              \/ (Bury(w) \/ Reschedule(w)) /\ ~ Guard(job[w]) /\ row' = row
              \/ CompleteFails(w) /\ row' = row
<1> DEFINE t == job[w].task
<1>1. Release(w)
  BY DEF HandlerReturns, HandlerSucceeds, Bury, Reschedule, CompleteFails
<1>2. t \in Tasks /\ job[w] \in Records
  BY <1>1, Claiming DEF Release
<1>3. ASSUME NEW by \in Procs \cup {NoProc}, row' = Rescheduled(job[w], by) PROVE Retried(t, by)
  BY <1>2, <1>3, RescheduledFacts DEF Retried
<1>4. ASSUME NEW x \in {"dead", "deleted"}, row' = [row EXCEPT ![t] = Settled(t, x)]
      PROVE  Moved(t, x)
  BY <1>2, <1>4, SettleRow DEF Moved
<1>5. CASE HandlerSucceeds(w)
  BY <1>1, <1>2, <1>4, <1>5 DEF HandlerSucceeds
<1>6. CASE Bury(w)
  BY <1>1, <1>2, <1>4, <1>6 DEF Bury
<1>7. CASE Reschedule(w)
  BY <1>1, <1>2, <1>3, <1>7, DeploymentAssumption DEF Reschedule
<1>8. CASE CompleteFails(w)
  BY <1>1, <1>2, <1>3, <1>8 DEF CompleteFails
<1> QED BY <1>5, <1>6, <1>7, <1>8 DEF HandlerReturns

(* The claim's, whether its commit is reported or not.                     *)
Taken(w) ==
    LET t == job[w].task
        r == MkRow("running", row[t].attempts + 1, row[t].maxRetries, row[t].wait, lease[w],
                   row[t].life, row[t].by, row[t].heard) IN
    t \in Tasks /\ r \in Rows /\ row' = [row EXCEPT ![t] = r]

(* A claim that commits, reported or not, takes the locked row; one that   *)
(* fails otherwise leaves the table alone.                                 *)
LEMMA CommitRow ==
    ASSUME TypeOK, Lifecycle, NEW w \in Workers, CommitClaim(w) \/ ClaimFails(w)
    PROVE  \/ pc[w] = "commit" /\ Taken(w)
           \/ ClaimFails(w) /\ row' = row
<1>1. ASSUME pc[w] = "commit", row' = ClaimedRow(w) PROVE Taken(w)
  <2>1. job[w].task \in Tasks
    BY <1>1, Claiming
  <2> QED BY <1>1, <2>1, ClaimedRowFacts DEF Taken
<1> QED BY <1>1 DEF CommitClaim, ClaimFails

(* The table holds rows after every step.                                  *)
LEMMA RowsType ==
    ASSUME TypeOK, Lifecycle, Next
    PROVE  row' \in [Tasks -> Rows]
<1> USE DEF TypeOK
<1>1. ASSUME NEW p \in Procs, NEW t \in Tasks, NEW i \in EnqueueInputs, Enqueue(p, t, i)
      PROVE  row' \in [Tasks -> Rows]
  BY <1>1, EnqueueRow, OneRowType
<1>2. ASSUME NEW p \in Procs, NEW t \in Tasks, RequeueDeadTask(p, t)
      PROVE  row' \in [Tasks -> Rows]
  BY <1>2, RequeueRow, OneRowType
<1>3. ASSUME NEW t \in Tasks, DeleteDeadTask(t) PROVE row' \in [Tasks -> Rows]
  BY <1>3, DeleteRow, OneRowType
<1>4. ASSUME NEW p \in Procs,
             \/ Consume(p) \/ Stop(p) \/ CloseDone(p) \/ Close(p) \/ Crash(p)
             \/ ListenerMoves(p) \/ ListenerWakes(p) \/ ConnectionDrops(p)
      PROVE  row' \in [Tasks -> Rows]
  BY <1>4 DEF Consume, Stop, CloseDone, Close, Crash, ListenerMoves, ListenerWakes, ConnectionDrops
<1>5. ASSUME NEW w \in Workers, WorkerStep(w) PROVE row' \in [Tasks -> Rows]
  <2>1. CASE CommitClaim(w) \/ ClaimFails(w)
    BY <2>1, CommitRow, OneRowType DEF Taken
  <2>2. CASE Reap(w)
    BY <2>2, ReapRows
  <2>3. CASE NotifyReaped(w)
    BY <2>3, NotifyRows
  <2>4. CASE \/ Begin(w) \/ (\E t \in Tasks : LockRow(w, t)) \/ FindNothing(w) \/ Wake(w)
             \/ \E wait \in 1 .. PollInterval : QueryNext(w, wait)
    BY <2>4 DEF Begin, LockRow, FindNothing, Wake, QueryNext
  <2> QED BY <1>5, <2>1, <2>2, <2>3, <2>4 DEF WorkerStep
<1>6. ASSUME NEW w \in Workers, HandlerReturns(w) PROVE row' \in [Tasks -> Rows]
  BY <1>6, ReturnRow, OneRowType DEF Moved, Retried
<1>7. CASE Tick
  <2>1. row' = [t \in Tasks |-> Aged(t)]
    BY <1>7 DEF Tick
  <2> QED BY <2>1, AgedFacts
<1> QED BY <1>1, <1>2, <1>3, <1>4, <1>5, <1>6, <1>7, NextCases

(* Waking the workers of a process keeps woken a Boolean per worker.       *)
LEMMA BroadcastType ==
    ASSUME TypeOK, NEW p \in Procs, BroadcastLocal(p)
    PROVE  woken' \in [Workers -> BOOLEAN]
BY DEF TypeOK, BroadcastLocal

(* The listener's own state, in each of its steps.                         *)
LEMMA ListenerType ==
    ASSUME ListenerTypeOK, NEW p \in Procs,
           \/ Notify \/ UNCHANGED listenerVars
           \/ WakeAll(p) \/ Receive(p) \/ ListenerStep(p)
           \/ LoseConnection(p) \/ CloseListener(p) \/ RestartListener(p)
    PROVE  ListenerTypeOK'
<1> USE ListenerAssumption DEF ListenerTypeOK, ConnStates
<1>1. CASE Notify \/ UNCHANGED listenerVars
  BY <1>1 DEF Notify, listenerVars
<1>2. CASE WakeAll(p) \/ Receive(p) \/ ListenerStep(p)
  BY <1>2 DEF WakeAll, Receive, ListenerStep, Listen, Reconnect
<1>3. CASE LoseConnection(p)
  <2>1. Doubled(backoff[p]) \in Nat
    BY DEF Doubled
  <2> QED BY <1>3, <2>1 DEF LoseConnection
<1>4. CASE CloseListener(p)
  BY <1>4 DEF CloseListener
<1>5. CASE RestartListener(p)
  BY <1>5 DEF RestartListener, Started
<1> QED BY <1>1, <1>2, <1>3, <1>4, <1>5

(* The steps of callers keep what workers know well formed.                *)
LEMMA CallerType ==
    ASSUME TypeOK, Lifecycle, row' \in [Tasks -> Rows], NEW p \in Procs,
           \/ \E t \in Tasks : (\E i \in EnqueueInputs : Enqueue(p, t, i)) \/ RequeueDeadTask(p, t)
           \/ Consume(p) \/ Stop(p) \/ CloseDone(p) \/ Close(p) \/ Crash(p)
    PROVE  TypeOK' /\ Lifecycle'
<1>0. ListenerTypeOK
  BY DEF TypeOK
<1>1. ASSUME NEW t \in Tasks, (\E i \in EnqueueInputs : Enqueue(p, t, i)) \/ RequeueDeadTask(p, t)
      PROVE  TypeOK' /\ Lifecycle'
  <2>1. /\ UNCHANGED <<pc, job, lease, sleep, late, sub, stopCh, crashes, lapses>>
        /\ requeues' \in Nat /\ Announce(p, t)
    BY <1>1 DEF Enqueue, RequeueDeadTask, subVars, TypeOK
  <2>2. woken' \in [Workers -> BOOLEAN] /\ faults' \in Nat
    BY <2>1, BroadcastType DEF Announce, Fault, TypeOK
  <2>3. ListenerTypeOK'
    BY <1>0, <2>1, ListenerType DEF Announce
  <2> QED BY <2>1, <2>2, <2>3 DEF TypeOK, Lifecycle
<1>2. CASE Consume(p)
  <2>1. ListenerTypeOK'
    BY <1>0, <1>2, ListenerType DEF Consume
  <2>2. TypeOK'
    BY <1>2, <2>1 DEF Consume, TypeOK, PCs, WorkersOf, counters
  <2>3. Lifecycle'
    BY <1>2, DeploymentAssumption DEF Consume, TypeOK, Lifecycle, WorkersOf, counters
  <2> QED BY <2>2, <2>3
<1>3. CASE Stop(p)
  <2>1. ListenerTypeOK'
    BY <1>0, <1>3, ListenerType DEF Stop
  <2> QED BY <1>3, <2>1 DEF Stop, TypeOK, Lifecycle, workerVars, counters
<1>4. CASE CloseDone(p)
  <2>1. ListenerTypeOK'
    BY <1>0, <1>4, ListenerType DEF CloseDone
  <2>2. TypeOK'
    BY <1>4, <2>1 DEF CloseDone, TypeOK, workerVars, counters
  <2>3. Lifecycle'
    BY <1>4, DeploymentAssumption DEF CloseDone, TypeOK, Lifecycle, workerVars, WorkersOf
  <2> QED BY <2>2, <2>3
<1>5. CASE Close(p)
  <2>1. ListenerTypeOK'
    BY <1>0, <1>5, ListenerType DEF Close
  <2> QED BY <1>5, <2>1 DEF Close, TypeOK, Lifecycle, workerVars, subVars, counters
<1>6. CASE Crash(p)
  <2>1. /\ pc' \in [Workers -> PCs] /\ lease' \in [Workers -> Int]
        /\ sleep' \in [Workers -> Nat]
    BY <1>6 DEF Crash, TypeOK, PCs
  <2>2. job' \in [Workers -> Records \cup {NoJob}]
    BY <1>6 DEF Crash, TypeOK
  <2>3. woken' \in [Workers -> BOOLEAN] /\ stopCh' \in [Procs -> BOOLEAN]
    BY <1>6 DEF Crash, TypeOK
  <2>4. sub' \in [Procs -> {"idle", "running", "done"}] /\ crashes' \in Nat
    BY <1>6 DEF Crash, TypeOK
  <2>5. ListenerTypeOK'
    BY <1>0, <1>6, ListenerType DEF Crash
  <2>6. TypeOK'
    BY <1>6, <2>1, <2>2, <2>3, <2>4, <2>5 DEF Crash, TypeOK
  <2>7. Lifecycle'
    BY <1>6, DeploymentAssumption DEF Crash, TypeOK, Lifecycle, WorkersOf
  <2> QED BY <2>6, <2>7
<1> QED BY <1>1, <1>2, <1>3, <1>4, <1>5, <1>6

(* So do the steps of a worker's loop.                                     *)
LEMMA WorkerType ==
    ASSUME TypeOK, Lifecycle, row' \in [Tasks -> Rows], NEW w \in Workers, WorkerStep(w)
    PROVE  TypeOK' /\ Lifecycle'
<1> USE DEF Go
<1>0. ListenerTypeOK /\ ProcOf[w] \in Procs
  BY DeploymentAssumption DEF TypeOK
<1>1. ListenerTypeOK'
  <2>1. Notify \/ UNCHANGED listenerVars
    BY DEF WorkerStep, Begin, LockRow, CommitClaim, FindNothing, QueryNext, ClaimFails, GiveUp,
           Reap, NotifyReaped, Wake
  <2> QED BY <1>0, <2>1, ListenerType
<1>2. CASE Begin(w) \/ FindNothing(w)
  <2>1. TypeOK'
    BY <1>1, <1>2 DEF Begin, FindNothing, TypeOK, PCs, subVars, counters
  <2>2. Lifecycle'
    BY <1>2 DEF Begin, FindNothing, TypeOK, Lifecycle, subVars
  <2> QED BY <2>1, <2>2
<1>3. ASSUME NEW t \in Tasks, LockRow(w, t) PROVE TypeOK' /\ Lifecycle'
  <2> DEFINE j == [task |-> t, attempts |-> row[t].attempts + 1, life |-> row[t].life]
  <2>1. row[t].attempts \in Nat /\ row[t].life \in Nat
    BY RowFacts DEF TypeOK
  <2>2. j \in Records /\ j # NoJob
    BY <2>1, DeploymentAssumption DEF Records, NoJob
  <2>3. job' = [job EXCEPT ![w] = j]
    BY <1>3 DEF LockRow
  <2> HIDE DEF j
  <2>4. TypeOK'
    BY <1>1, <1>3, <2>2, <2>3, BoundAssumption DEF LockRow, TypeOK, PCs, subVars, counters
  <2>5. Lifecycle'
    BY <1>3, <2>2, <2>3 DEF LockRow, TypeOK, Lifecycle, subVars
  <2> QED BY <2>4, <2>5
<1>4. CASE CommitClaim(w)
  <2>1. TypeOK'
    BY <1>1, <1>4 DEF CommitClaim, TypeOK, PCs, subVars, counters
  <2>2. Lifecycle'
    BY <1>4 DEF CommitClaim, TypeOK, Lifecycle, subVars
  <2> QED BY <2>1, <2>2
<1>5. ASSUME NEW wait \in Nat, pc[w] \in {"claim", "commit", "next"}, GiveUp(w, wait),
             faults' \in Nat
      PROVE  TypeOK' /\ Lifecycle'
  <2>1. TypeOK'
    BY <1>1, <1>5 DEF GiveUp, TypeOK, PCs, subVars
  <2>2. Lifecycle'
    BY <1>5 DEF GiveUp, TypeOK, Lifecycle, subVars
  <2> QED BY <2>1, <2>2
<1>6. ASSUME NEW wait \in 1 .. PollInterval, QueryNext(w, wait) PROVE TypeOK' /\ Lifecycle'
  BY <1>5, <1>6, BoundAssumption DEF QueryNext, TypeOK
<1>7. CASE ClaimFails(w)
  BY <1>5, <1>7, BoundAssumption DEF ClaimFails, Fault, TypeOK
<1>8. CASE Reap(w)
  <2>1. pc' \in [Workers -> PCs] /\ faults' \in Nat
    BY <1>8 DEF Reap, Fault, TypeOK, PCs
  <2>2. \E l \in {"notify", "wait"} : pc' = [pc EXCEPT ![w] = l]
    BY <1>8 DEF Reap
  <2>3. TypeOK'
    BY <1>1, <1>8, <2>1 DEF Reap, TypeOK, subVars
  <2>4. Lifecycle'
    BY <1>8, <2>2 DEF Reap, TypeOK, Lifecycle, subVars
  <2> QED BY <2>3, <2>4
<1>9. CASE NotifyReaped(w)
  <2>1. pc' \in [Workers -> PCs] /\ faults' \in Nat
    BY <1>9 DEF NotifyReaped, Fault, TypeOK, PCs
  <2>2. TypeOK'
    BY <1>1, <1>9, <2>1 DEF NotifyReaped, TypeOK, subVars
  <2>3. Lifecycle'
    BY <1>9 DEF NotifyReaped, TypeOK, Lifecycle, subVars
  <2> QED BY <2>2, <2>3
<1>10. CASE Wake(w)
  <2>1. TypeOK'
    BY <1>1, <1>10 DEF Wake, TypeOK, PCs, subVars, counters
  <2>2. Lifecycle'
    BY <1>10 DEF Wake, TypeOK, Lifecycle, subVars
  <2> QED BY <2>1, <2>2
<1> QED BY <1>2, <1>3, <1>4, <1>6, <1>7, <1>8, <1>9, <1>10 DEF WorkerStep

(* And the return of a handler.                                            *)
LEMMA HandlerType ==
    ASSUME TypeOK, Lifecycle, row' \in [Tasks -> Rows], NEW w \in Workers, HandlerReturns(w)
    PROVE  TypeOK' /\ Lifecycle'
<1>0. ListenerTypeOK /\ ProcOf[w] \in Procs
  BY DeploymentAssumption DEF TypeOK
<1>1. Release(w)
  BY DEF HandlerReturns, HandlerSucceeds, Bury, Reschedule, CompleteFails
<1>2. faults' \in Nat
  BY DEF HandlerReturns, HandlerSucceeds, Bury, Reschedule, CompleteFails, Fault, TypeOK
<1>3. woken' \in [Workers -> BOOLEAN]
  <2>1. woken' = woken \/ BroadcastLocal(ProcOf[w])
    BY DEF HandlerReturns, HandlerSucceeds, Bury, Reschedule, CompleteFails
  <2> QED BY <1>0, <2>1, BroadcastType DEF TypeOK
<1>4. TypeOK'
  <2>1. job' \in [Workers -> Records \cup {NoJob}]
    BY <1>1 DEF Release, TypeOK
  <2>2. pc' \in [Workers -> PCs] /\ lease' \in [Workers -> Int]
    BY <1>1 DEF Release, Go, TypeOK, PCs
  <2>3. ListenerTypeOK'
    BY <1>0, <1>1, ListenerType DEF Release
  <2> QED BY <1>1, <1>2, <1>3, <2>1, <2>2, <2>3 DEF Release, TypeOK, subVars
<1>5. Lifecycle'
  BY <1>1 DEF Release, Go, TypeOK, Lifecycle, subVars
<1> QED BY <1>4, <1>5

(* A tick counts the leases that lapse under workers, of which there are   *)
(* finitely many.                                                          *)
LEMMA LapseCount ==
    LET S == {w \in Leasing : lease[w] = 0} IN
    /\ Cardinality(S) \in Nat
    /\ Cardinality(S) = 0 => S = {}
<1> DEFINE S == {w \in Leasing : lease[w] = 0}
<1>1. IsFiniteSet(Workers) /\ S \subseteq Workers
  BY DeploymentAssumption DEF Leasing
<1> HIDE DEF S
<1>2. IsFiniteSet(S)
  BY <1>1, FS_Subset
<1>3. Cardinality(S) \in Nat /\ (Cardinality(S) = 0 => S = {})
  BY <1>2, FS_CardinalityType, FS_EmptySet
<1> QED BY <1>3 DEF S

(* Time passing keeps the types of leases and sleeps.                      *)
LEMMA TickType ==
    ASSUME TypeOK, Lifecycle, row' \in [Tasks -> Rows], Tick
    PROVE  TypeOK' /\ Lifecycle'
<1>1. lease' \in [Workers -> Int] /\ sleep' \in [Workers -> Nat]
  BY DEF Tick, TypeOK, CountDown, RunDown
<1>2. pause' \in [Procs -> Nat]
  BY DEF Tick, TypeOK, ListenerTypeOK, CountDown
<1>3. lapses' \in Nat
  BY LapseCount DEF Tick, TypeOK
<1>4. ListenerTypeOK'
  BY <1>2 DEF Tick, TypeOK, ListenerTypeOK
<1> QED BY <1>1, <1>3, <1>4 DEF Tick, TypeOK, Lifecycle, subVars

(* TypeOK and Lifecycle are kept by every step.                            *)
LEMMA TypeStep ==
    ASSUME TypeOK, Lifecycle, [Next]_vars
    PROVE  TypeOK' /\ Lifecycle'
<1>1. CASE Next
  <2>1. row' \in [Tasks -> Rows]
    BY <1>1, RowsType
  <2>2. CASE \E t \in Tasks : DeleteDeadTask(t)
    <3>1. ListenerTypeOK'
      BY <2>2 DEF DeleteDeadTask, TypeOK, ListenerTypeOK, listenerVars
    <3> QED BY <2>1, <2>2, <3>1 DEF DeleteDeadTask, TypeOK, Lifecycle, workerVars, subVars, counters
  <2>3. ASSUME NEW p \in Procs, ListenerMoves(p) \/ ListenerWakes(p) \/ ConnectionDrops(p)
        PROVE  TypeOK' /\ Lifecycle'
    <3>1. ListenerTypeOK'
      BY <2>3, ListenerType DEF ListenerMoves, ListenerWakes, ConnectionDrops, TypeOK
    <3>2. woken' \in [Workers -> BOOLEAN]
      BY <2>3, BroadcastType DEF ListenerMoves, ListenerWakes, ConnectionDrops, TypeOK, workerVars
    <3>3. UNCHANGED <<pc, job, lease, sleep, late, sub, stopCh, requeues, crashes, faults, lapses>>
      BY <2>3 DEF ListenerMoves, ListenerWakes, ConnectionDrops, workerVars, subVars, counters
    <3> QED BY <2>1, <3>1, <3>2, <3>3 DEF TypeOK, Lifecycle
  <2> QED BY <1>1, <2>1, <2>2, <2>3, NextCases, CallerType, WorkerType, HandlerType, TickType
<1>2. CASE UNCHANGED vars
  BY <1>2 DEF vars, workerVars, subVars, counters, listenerVars, TypeOK, ListenerTypeOK, Lifecycle
<1> QED BY <1>1, <1>2

(* The table is empty and no subscription has started.                     *)
LEMMA TypeInit == Init => TypeOK /\ Lifecycle
<1> SUFFICES ASSUME Init PROVE TypeOK /\ Lifecycle
  OBVIOUS
<1> USE DEF Init
<1>1. row \in [Tasks -> Rows]
  BY DEF Rows
<1>2. ListenerTypeOK
  BY ListenerAssumption DEF ListenerInit, ListenerTypeOK, Started, ConnStates
<1>3. /\ pc \in [Workers -> PCs] /\ job \in [Workers -> Records \cup {NoJob}]
      /\ lease \in [Workers -> Int] /\ sleep \in [Workers -> Nat]
  BY DEF PCs
<1>4. /\ woken \in [Workers -> BOOLEAN] /\ stopCh \in [Procs -> BOOLEAN]
      /\ sub \in [Procs -> {"idle", "running", "done"}]
  OBVIOUS
<1>5. requeues \in Nat /\ crashes \in Nat /\ faults \in Nat /\ lapses \in Nat
  OBVIOUS
<1>6. TypeOK
  BY <1>1, <1>2, <1>3, <1>4, <1>5 DEF TypeOK
<1>7. Lifecycle
  BY DeploymentAssumption DEF Lifecycle
<1> QED BY <1>6, <1>7

-----------------------------------------------------------------------------
(* Locks and claims. *)

(* Steps that leave the table, the records and the open claims alone.      *)
Quiet == /\ UNCHANGED <<row, job, crashes, faults, lapses>>
         /\ \A w \in Workers : \/ pc'[w] = pc[w] /\ lease'[w] = lease[w]
                               \/ {pc[w], pc'[w]} \cap {"commit", "handle"} = {}

(* Every step, by what it does to the table and to the claims.             *)
LEMMA StepCases ==
    ASSUME TypeOK, Lifecycle, [Next]_vars
    PROVE  \/ \E p \in Procs : \E t \in Tasks :
                 (\E i \in EnqueueInputs : Enqueue(p, t, i)) \/ RequeueDeadTask(p, t)
           \/ \E t \in Tasks : DeleteDeadTask(t)
           \/ \E p \in Procs : Crash(p)
           \/ \E w \in Workers : \E t \in Tasks : LockRow(w, t)
           \/ \E w \in Workers : CommitClaim(w) \/ ClaimFails(w)
           \/ \E w \in Workers : Reap(w) \/ NotifyReaped(w)
           \/ \E w \in Workers : HandlerReturns(w)
           \/ Tick
           \/ Quiet
<1>1. ASSUME NEW p \in Procs, Consume(p) PROVE Quiet
  <2>1. ASSUME NEW w \in WorkersOf(p) PROVE pc[w] = "off"
    BY <1>1, <2>1 DEF Consume, Lifecycle, WorkersOf
  <2> QED BY <1>1, <2>1 DEF Consume, Quiet, TypeOK, counters
<1>2. ASSUME NEW p \in Procs, Stop(p) \/ CloseDone(p) \/ Close(p) PROVE Quiet
  BY <1>2 DEF Stop, CloseDone, Close, Quiet, workerVars, counters
<1>3. ASSUME NEW p \in Procs, ListenerMoves(p) \/ ListenerWakes(p) \/ ConnectionDrops(p)
      PROVE  Quiet
  BY <1>3 DEF ListenerMoves, ListenerWakes, ConnectionDrops, Quiet, workerVars, counters
<1>4. ASSUME NEW w \in Workers, Begin(w) \/ FindNothing(w) PROVE Quiet
  BY <1>4 DEF Begin, FindNothing, Go, Quiet, TypeOK, counters
<1>5. ASSUME NEW w \in Workers, NEW wait, QueryNext(w, wait) PROVE Quiet
  <2>1. job[w] = NoJob /\ pc[w] = "next"
    BY <1>5 DEF QueryNext, Lifecycle
  <2>2. job' = job
    BY <1>5, <2>1 DEF QueryNext, GiveUp, TypeOK
  <2> QED BY <1>5, <2>1, <2>2 DEF QueryNext, GiveUp, Go, Quiet, TypeOK
<1>6. ASSUME NEW w \in Workers, Wake(w) PROVE Quiet
  BY <1>6 DEF Wake, Go, Quiet, TypeOK, counters
<1>7. CASE UNCHANGED vars
  BY <1>7 DEF vars, Quiet, workerVars, counters
<1> QED BY <1>1, <1>2, <1>3, <1>4, <1>5, <1>6, <1>7, NextCases DEF WorkerStep

(* What a step may do to a row that is locked, and to one that is handled. *)
Kept(t) == LET r == row'[t] IN
           /\ r.status = "pending" /\ r.wait = 0
           /\ r.attempts = row[t].attempts /\ r.life = row[t].life

Forward(t) == LET r == row'[t] IN
              /\ r.status # "absent"
              /\ row[t].life <= r.life
              /\ row[t].life = r.life => row[t].attempts <= r.attempts

(* The parts of the invariant that are about locks and claims.             *)
Claims == LockHolds /\ LocksDiffer /\ NotAhead /\ AttemptOnce

(* A step that opens no claim and gives no record to a handler.            *)
LEMMA NoNewClaim ==
    ASSUME TypeOK, Lifecycle, Claims, TypeOK', Lifecycle',
           \A w \in Workers : pc'[w] \in {"commit", "handle"} => pc'[w] = pc[w] /\ job'[w] = job[w],
           \A w \in Workers : pc[w] = "commit" /\ pc'[w] = "commit" => Kept(job[w].task),
           \A w \in Workers : pc[w] = "handle" /\ pc'[w] = "handle" => Forward(job[w].task)
    PROVE  Claims'
<1>1. LockHolds'
  BY DEF Claims, LockHolds, Kept
<1>2. LocksDiffer'
  BY DEF Claims, LocksDiffer
<1>3. NotAhead'
  <2> SUFFICES ASSUME NEW w \in Workers, pc'[w] = "handle"
               PROVE  LET r == row'[job'[w].task] IN
                      /\ r.status # "absent"
                      /\ job'[w].life <= r.life
                      /\ job'[w].life = r.life => job'[w].attempts <= r.attempts
    BY DEF NotAhead
  <2>1. pc[w] = "handle" /\ job'[w] = job[w] /\ Forward(job[w].task)
    OBVIOUS
  <2>2. job[w].task \in Tasks /\ job[w].attempts \in Nat /\ job[w].life \in Nat
    BY <2>1, Claiming
  <2>3. /\ row[job[w].task].life \in Nat /\ row[job[w].task].attempts \in Nat
        /\ row'[job[w].task].life \in Nat /\ row'[job[w].task].attempts \in Nat
    BY <2>2, RowFacts DEF TypeOK
  <2>4. /\ job[w].life <= row[job[w].task].life
        /\ job[w].life = row[job[w].task].life => job[w].attempts <= row[job[w].task].attempts
    BY <2>1 DEF Claims, NotAhead
  <2> QED BY <2>1, <2>2, <2>3, <2>4 DEF Forward
<1>4. AttemptOnce'
  <2>1. \A w \in Workers : job'[w] # NoJob => job'[w] = job[w]
    BY DEF Lifecycle
  <2> QED BY <2>1 DEF Claims, AttemptOnce
<1> QED BY <1>1, <1>2, <1>3, <1>4 DEF Claims

(* A row nobody assigned is kept and does not go back.                     *)
LEMMA SameRow ==
    ASSUME TypeOK, Lifecycle, Claims, NEW w \in Workers, row'[job[w].task] = row[job[w].task]
    PROVE  /\ pc[w] = "commit" => Kept(job[w].task)
           /\ pc[w] = "handle" => Forward(job[w].task)
<1>1. CASE pc[w] = "commit"
  BY <1>1 DEF Claims, LockHolds, Kept
<1>2. CASE pc[w] = "handle"
  <2>1. row[job[w].task].life \in Nat /\ row[job[w].task].attempts \in Nat
    BY <1>2, Claiming, RowFacts DEF TypeOK
  <2> QED BY <1>2, <2>1 DEF Claims, NotAhead, Forward
<1> QED BY <1>1, <1>2

(* One row is assigned: it is not a locked one, and it does not go back.   *)
LEMMA OneRowMoves ==
    ASSUME TypeOK, Lifecycle, Claims, NEW t \in Tasks, NEW r \in Rows,
           row' = [row EXCEPT ![t] = r],
           \A w \in Workers : pc[w] = "commit" /\ pc'[w] = "commit" => job[w].task # t,
           \A w \in Workers : pc[w] = "handle" /\ pc'[w] = "handle" /\ job[w].task = t => Forward(t)
    PROVE  /\ \A w \in Workers : pc[w] = "commit" /\ pc'[w] = "commit" => Kept(job[w].task)
           /\ \A w \in Workers : pc[w] = "handle" /\ pc'[w] = "handle" => Forward(job[w].task)
<1>1. ASSUME NEW w \in Workers, pc[w] \in {"commit", "handle"}, job[w].task # t
      PROVE  /\ pc[w] = "commit" => Kept(job[w].task)
             /\ pc[w] = "handle" => Forward(job[w].task)
  <2>1. job[w].task \in Tasks
    BY <1>1, Claiming
  <2>2. row'[job[w].task] = row[job[w].task]
    BY <1>1, <2>1, OneRowType
  <2> QED BY <2>2, SameRow
<1> QED BY <1>1

(* The step of a claim that locks a row nobody has locked.                 *)
LEMMA LockStep ==
    ASSUME TypeOK, Lifecycle, Claims, TypeOK', Lifecycle', NEW w \in Workers, NEW t \in Tasks,
           LockRow(w, t)
    PROVE  Claims'
<1> DEFINE j == [task |-> t, attempts |-> row[t].attempts + 1, life |-> row[t].life]
<1>1. /\ row' = row /\ pc'[w] = "commit" /\ job'[w] = j
      /\ \A v \in Workers : v # w => pc'[v] = pc[v] /\ job'[v] = job[v]
      /\ row[t].status = "pending" /\ row[t].wait = 0
  BY DEF LockRow, Go, TypeOK, Claimable, Due, Pending
<1>2. \A v \in Workers : pc[v] = "commit" => job[v].task # t
  BY DEF LockRow, Claimable, Locked
<1>3. row[t].attempts \in Nat
  BY RowFacts DEF TypeOK
<1>4. LockHolds'
  BY <1>1 DEF Claims, LockHolds
<1>5. LocksDiffer'
  BY <1>1, <1>2 DEF Claims, LocksDiffer
<1>6. NotAhead'
  BY <1>1 DEF Claims, NotAhead
<1>7. ASSUME NEW v \in Workers, v # w, job[v] # NoJob PROVE job[v] # j
  <2>1. CASE pc[v] = "commit"
    BY <1>2, <2>1
  <2>2. CASE pc[v] = "handle"
    <3>1. job[v] = j => job[v].attempts <= row[t].attempts
      BY <2>2 DEF Claims, NotAhead
    <3> QED BY <1>3, <3>1
  <2> QED BY <1>7, <2>1, <2>2 DEF Lifecycle
<1>8. AttemptOnce'
  <2> SUFFICES ASSUME NEW v \in Workers, NEW x \in Workers, v # x, job'[v] # NoJob,
                      job'[v] = job'[x]
               PROVE  FALSE
    BY DEF AttemptOnce
  <2> HIDE DEF j
  <2>1. CASE v = w \/ x = w
    BY <1>1, <1>7, <2>1
  <2>2. CASE v # w /\ x # w
    BY <1>1, <2>2 DEF Claims, AttemptOnce
  <2> QED BY <2>1, <2>2
<1> QED BY <1>4, <1>5, <1>6, <1>8 DEF Claims

(* The row of an open claim is taken: no other claim has it locked.        *)
LEMMA TakenRow ==
    ASSUME TypeOK, Lifecycle, Claims, NEW w \in Workers, pc[w] = "commit", Taken(w)
    PROVE  LET t == job[w].task IN
           /\ t \in Tasks /\ Forward(t)
           /\ row'[t].status = "running" /\ row'[t].attempts = row[t].attempts + 1
           /\ row'[t].life = row[t].life /\ row'[t].lease = lease[w]
           /\ row'[t].maxRetries = row[t].maxRetries
           /\ \A x \in Tasks : x # t => row'[x] = row[x]
           /\ \A v \in Workers : v # w /\ pc[v] = "commit" => job[v].task # t
<1> DEFINE t == job[w].task
           r == MkRow("running", row[t].attempts + 1, row[t].maxRetries, row[t].wait, lease[w],
                      row[t].life, row[t].by, row[t].heard)
<1>1. t \in Tasks /\ r \in Rows /\ row' = [row EXCEPT ![t] = r]
  BY DEF Taken
<1>2. row[t].life \in Nat /\ row[t].attempts \in Nat
  BY <1>1, RowFacts DEF TypeOK
<1>3. /\ r.status = "running" /\ r.attempts = row[t].attempts + 1 /\ r.life = row[t].life
      /\ r.lease = lease[w] /\ r.maxRetries = row[t].maxRetries
  BY DEF MkRow
<1> HIDE DEF r
<1>4. row'[t] = r /\ \A x \in Tasks : x # t => row'[x] = row[x]
  BY <1>1, OneRowType
<1>5. Forward(t)
  BY <1>2, <1>3, <1>4 DEF Forward
<1>6. \A v \in Workers : v # w /\ pc[v] = "commit" => job[v].task # t
  BY DEF Claims, LocksDiffer
<1> QED BY <1>1, <1>3, <1>4, <1>5, <1>6

(* The end of a claim, whatever it reports.                                *)
LEMMA CommitStep ==
    ASSUME TypeOK, Lifecycle, Claims, TypeOK', Lifecycle', NEW w \in Workers,
           CommitClaim(w) \/ ClaimFails(w)
    PROVE  Claims'
<1>1. \A v \in Workers : v # w => pc'[v] = pc[v] /\ job'[v] = job[v]
  BY DEF CommitClaim, ClaimFails, GiveUp, Go, TypeOK
<1>2. CASE CommitClaim(w)
  <2>1. pc[w] = "commit" /\ pc'[w] = "handle" /\ job' = job
    BY <1>2 DEF CommitClaim, Go, TypeOK
  <2>2. Taken(w)
    BY <1>2, <2>1, CommitRow DEF CommitClaim, ClaimFails, GiveUp, Go, TypeOK
  <2> DEFINE t == job[w].task
  <2>3. /\ t \in Tasks /\ Forward(t)
        /\ row'[t].status = "running" /\ row'[t].attempts = row[t].attempts + 1
        /\ row'[t].life = row[t].life
        /\ \A x \in Tasks : x # t => row'[x] = row[x]
        /\ \A v \in Workers : v # w /\ pc[v] = "commit" => job[v].task # t
    BY <2>1, <2>2, TakenRow
  <2>4. row'[t].life \in Nat /\ row'[t].attempts \in Nat
    BY <2>3, RowFacts DEF TypeOK
  <2>5. job[w].attempts = row'[t].attempts /\ job[w].life = row'[t].life
    BY <2>1, <2>3 DEF Claims, LockHolds
  <2>6. ASSUME NEW v \in Workers, v # w, pc[v] \in {"commit", "handle"}
        PROVE  /\ pc[v] = "commit" => Kept(job[v].task)
               /\ pc[v] = "handle" => Forward(job[v].task)
    <3>1. job[v].task \in Tasks
      BY <2>6, Claiming
    <3>2. CASE job[v].task = t
      BY <2>3, <2>6, <3>2
    <3>3. CASE job[v].task # t
      BY <2>3, <3>1, <3>3, SameRow
    <3> QED BY <3>2, <3>3
  <2>7. LockHolds'
    BY <1>1, <2>1, <2>6 DEF Claims, LockHolds, Kept
  <2>8. LocksDiffer'
    BY <1>1, <2>1 DEF Claims, LocksDiffer
  <2>9. NotAhead'
    <3> SUFFICES ASSUME NEW v \in Workers, pc'[v] = "handle"
                 PROVE  LET r == row'[job[v].task] IN
                        /\ r.status # "absent"
                        /\ job[v].life <= r.life
                        /\ job[v].life = r.life => job[v].attempts <= r.attempts
      BY <2>1 DEF NotAhead
    <3>1. CASE v = w
      BY <2>3, <2>4, <2>5, <3>1
    <3>2. CASE v # w
      <4>1. pc[v] = "handle" /\ Forward(job[v].task)
        BY <1>1, <2>6, <3>2
      <4>2. job[v].task \in Tasks /\ job[v].attempts \in Nat /\ job[v].life \in Nat
        BY <4>1, Claiming
      <4>3. /\ row[job[v].task].life \in Nat /\ row[job[v].task].attempts \in Nat
            /\ row'[job[v].task].life \in Nat /\ row'[job[v].task].attempts \in Nat
        BY <4>2, RowFacts DEF TypeOK
      <4>4. /\ job[v].life <= row[job[v].task].life
            /\ job[v].life = row[job[v].task].life => job[v].attempts <= row[job[v].task].attempts
        BY <4>1 DEF Claims, NotAhead
      <4> QED BY <4>1, <4>2, <4>3, <4>4 DEF Forward
    <3> QED BY <3>1, <3>2
  <2>10. AttemptOnce'
    BY <2>1 DEF Claims, AttemptOnce
  <2> QED BY <2>7, <2>8, <2>9, <2>10 DEF Claims
<1>3. CASE ClaimFails(w)
  <2>1. pc'[w] = "reap"
    BY <1>3 DEF ClaimFails, GiveUp, Go, TypeOK
  <2>2. CASE row' = row
    BY <1>1, <2>1, <2>2, SameRow, NoNewClaim
  <2>3. CASE pc[w] = "commit" /\ Taken(w)
    <3> DEFINE t == job[w].task
    <3>1. /\ t \in Tasks /\ Forward(t)
          /\ \A x \in Tasks : x # t => row'[x] = row[x]
          /\ \A v \in Workers : v # w /\ pc[v] = "commit" => job[v].task # t
      BY <2>3, TakenRow
    <3>2. ASSUME NEW v \in Workers, pc'[v] \in {"commit", "handle"}, pc[v] = pc'[v]
          PROVE  /\ pc[v] = "commit" => Kept(job[v].task)
                 /\ pc[v] = "handle" => Forward(job[v].task)
      <4>1. job[v].task \in Tasks /\ v # w
        BY <2>1, <3>2, Claiming
      <4>2. CASE job[v].task = t
        BY <3>1, <3>2, <4>1, <4>2
      <4>3. CASE job[v].task # t
        BY <3>1, <4>1, <4>3, SameRow
      <4> QED BY <4>2, <4>3
    <3> QED BY <1>1, <2>1, <3>2, NoNewClaim
  <2> QED BY <1>3, <2>2, <2>3, CommitRow
<1> QED BY <1>2, <1>3

(* Callers assign rows that are absent or dead: nobody has them locked.    *)
LEMMA CallerStepKeeps ==
    ASSUME TypeOK, Lifecycle, Claims, TypeOK', Lifecycle', NEW t \in Tasks,
           \/ \E p \in Procs : (\E i \in EnqueueInputs : Enqueue(p, t, i)) \/ RequeueDeadTask(p, t)
           \/ DeleteDeadTask(t)
    PROVE  Claims'
<1>0. pc' = pc /\ job' = job
  BY DEF Enqueue, RequeueDeadTask, DeleteDeadTask, workerVars
<1>1. row[t].status \in {"absent", "dead"}
  BY DEF Enqueue, RequeueDeadTask, DeleteDeadTask
<1>2. \A w \in Workers : pc[w] = "commit" => job[w].task # t
  BY <1>1 DEF Claims, LockHolds
<1>3. row[t].life \in Nat /\ row[t].attempts \in Nat
  BY RowFacts DEF TypeOK
<1>4. ASSUME NEW p \in Procs, NEW i \in EnqueueInputs, Enqueue(p, t, i) PROVE Claims'
  <2>1. PICK r \in Rows : row' = [row EXCEPT ![t] = r]
    BY <1>4, EnqueueRow
  <2>2. \A w \in Workers : pc[w] = "handle" => job[w].task # t
    BY <1>4 DEF Enqueue, Claims, NotAhead
  <2> QED BY <1>0, <1>2, <2>1, <2>2, OneRowMoves, NoNewClaim
<1>5. ASSUME NEW p \in Procs, RequeueDeadTask(p, t) PROVE Claims'
  <2>1. PICK by \in {p, NoProc} :
             LET r == MkRow("pending", 0, row[t].maxRetries, 0, row[t].lease, row[t].life + 1,
                            by, TRUE) IN
             r \in Rows /\ row' = [row EXCEPT ![t] = r]
    BY <1>5, RequeueRow
  <2> DEFINE r == MkRow("pending", 0, row[t].maxRetries, 0, row[t].lease, row[t].life + 1, by, TRUE)
  <2>2. r.life = row[t].life + 1 /\ r.status = "pending"
    BY DEF MkRow
  <2>3. r \in Rows /\ row' = [row EXCEPT ![t] = r]
    BY <2>1
  <2> HIDE DEF r
  <2>4. row'[t] = r
    BY <2>3, OneRowType
  <2>5. Forward(t)
    BY <1>3, <2>2, <2>4 DEF Forward
  <2> QED BY <1>0, <1>2, <2>3, <2>5, OneRowMoves, NoNewClaim
<1>6. CASE DeleteDeadTask(t)
  <2> DEFINE r == MkRow("deleted", row[t].attempts, row[t].maxRetries, row[t].wait,
                        row[t].lease, row[t].life, row[t].by, row[t].heard)
  <2>1. r \in Rows /\ row' = [row EXCEPT ![t] = r]
    BY <1>6, DeleteRow
  <2>2. r.life = row[t].life /\ r.attempts = row[t].attempts /\ r.status = "deleted"
    BY DEF MkRow
  <2> HIDE DEF r
  <2>3. row'[t] = r
    BY <2>1, OneRowType
  <2>4. Forward(t)
    BY <1>3, <2>2, <2>3 DEF Forward
  <2> QED BY <1>0, <1>2, <2>1, <2>4, OneRowMoves, NoNewClaim
<1> QED BY <1>4, <1>5, <1>6

(* complete assigns a row that no open claim has locked: success waits for *)
(* the lock, and a failure only matches a running row.                     *)
LEMMA ReturnStep ==
    ASSUME TypeOK, Lifecycle, Claims, TypeOK', Lifecycle', NEW w \in Workers, HandlerReturns(w)
    PROVE  Claims'
<1> DEFINE t == job[w].task
<1>1. t \in Tasks /\ Release(w)
  BY ReturnRow
<1>2. /\ pc'[w] = "begin"
      /\ \A v \in Workers : v # w => pc'[v] = pc[v] /\ job'[v] = job[v]
  BY <1>1 DEF Release, Go, TypeOK
<1>3. row[t].life \in Nat /\ row[t].attempts \in Nat
  BY <1>1, RowFacts DEF TypeOK
<1>4. ASSUME row[t].status = "running" \/ t \notin Locked, Moved(t, "deleted") \/ Moved(t, "dead")
      PROVE  Claims'
  <2>1. \A v \in Workers : pc[v] = "commit" => job[v].task # t
    BY <1>4 DEF Claims, LockHolds, Locked
  <2>2. PICK r \in Rows : /\ row' = [row EXCEPT ![t] = r]
                          /\ r.life = row[t].life /\ r.attempts = row[t].attempts
                          /\ r.status \in {"deleted", "dead"}
    BY <1>4 DEF Moved, MkRow
  <2>3. row'[t] = r
    BY <1>1, <2>2, OneRowType
  <2>4. Forward(t)
    BY <1>3, <2>2, <2>3 DEF Forward
  <2> QED BY <1>1, <1>2, <2>1, <2>2, <2>4, OneRowMoves, NoNewClaim
<1>5. ASSUME row[t].status = "running", NEW by, Retried(t, by) PROVE Claims'
  <2>1. \A v \in Workers : pc[v] = "commit" => job[v].task # t
    BY <1>5 DEF Claims, LockHolds
  <2>2. PICK r \in Rows : /\ row' = [row EXCEPT ![t] = r]
                          /\ r.life = row[t].life /\ r.attempts = row[t].attempts
                          /\ r.status = "pending"
    BY <1>5 DEF Retried, MkRow
  <2>3. row'[t] = r
    BY <1>1, <2>2, OneRowType
  <2>4. Forward(t)
    BY <1>3, <2>2, <2>3 DEF Forward
  <2> QED BY <1>1, <1>2, <2>1, <2>2, <2>4, OneRowMoves, NoNewClaim
<1>6. ASSUME row' = row PROVE Claims'
  BY <1>2, <1>6, SameRow, NoNewClaim
<1> QED BY <1>4, <1>5, <1>6, ReturnRow DEF HandlerSucceeds, Guard

(* The rows a sweep takes back, or a tick ages, keep life and attempts.    *)
LEMMA SweepStep ==
    ASSUME TypeOK, Lifecycle, Claims, TypeOK', Lifecycle',
           (\E w \in Workers : Reap(w) \/ NotifyReaped(w)) \/ Tick
    PROVE  Claims'
<1>1. \A w \in Workers : pc'[w] \in {"commit", "handle"} => pc'[w] = pc[w] /\ job'[w] = job[w]
  <2>1. CASE Tick
    BY <2>1 DEF Tick
  <2>2. ASSUME NEW v \in Workers, Reap(v) \/ NotifyReaped(v) PROVE <1>1
    BY <2>2 DEF Reap, NotifyReaped, Go, TypeOK
  <2> QED BY <2>1, <2>2
<1>2. ASSUME NEW t \in Tasks
      PROVE  /\ row'[t].life = row[t].life /\ row'[t].attempts = row[t].attempts
             /\ row'[t].status \in {row[t].status, "pending"}
             /\ row[t].status = "pending" /\ row[t].wait = 0
                  => row'[t].status = "pending" /\ row'[t].wait = 0
  <2>1. CASE Tick
    <3>1. row'[t] = Aged(t)
      BY <2>1 DEF Tick
    <3>2. CountDown(0) = 0
      BY DEF CountDown
    <3> QED BY <3>1, <3>2, AgedFacts DEF MkRow
  <2>2. ASSUME NEW v \in Workers, Reap(v) PROVE <1>2!2
    <3>1. row'[t] = row[t] \/ row'[t] = SweptRow(t)
      BY <2>2, ReapRows
    <3>2. CASE Expired(t)
      BY <3>1, <3>2 DEF SweptRow, Expired, MkRow
    <3>3. CASE ~ Expired(t)
      BY <3>1, <3>3 DEF SweptRow
    <3> QED BY <3>2, <3>3
  <2>3. ASSUME NEW v \in Workers, NotifyReaped(v) PROVE <1>2!2
    BY <2>3, NotifyRows
  <2> QED BY <2>1, <2>2, <2>3
<1>3. ASSUME NEW w \in Workers, pc[w] \in {"commit", "handle"}
      PROVE  /\ pc[w] = "commit" => Kept(job[w].task)
             /\ pc[w] = "handle" => Forward(job[w].task)
  <2>1. job[w].task \in Tasks
    BY <1>3, Claiming
  <2>2. row[job[w].task].life \in Nat /\ row[job[w].task].attempts \in Nat
    BY <2>1, RowFacts DEF TypeOK
  <2>3. CASE pc[w] = "commit"
    BY <1>2, <2>1, <2>3 DEF Claims, LockHolds, Kept
  <2>4. CASE pc[w] = "handle"
    BY <1>2, <2>1, <2>2, <2>4 DEF Claims, NotAhead, Forward
  <2> QED BY <1>3, <2>3, <2>4
<1> QED BY <1>1, <1>3, NoNewClaim

(* Every step keeps locks and claims.                                      *)
LEMMA ClaimsStep ==
    ASSUME TypeOK, Lifecycle, Claims, [Next]_vars
    PROVE  Claims'
<1>0. TypeOK' /\ Lifecycle'
  BY TypeStep
<1>1. ASSUME NEW p \in Procs, Crash(p) PROVE Claims'
  <2>1. row' = row
    BY <1>1 DEF Crash
  <2>2. \A w \in Workers : pc'[w] \in {"commit", "handle"} => pc'[w] = pc[w] /\ job'[w] = job[w]
    BY <1>1 DEF Crash
  <2> QED BY <1>0, <2>1, <2>2, SameRow, NoNewClaim
<1>2. CASE Quiet
  BY <1>0, <1>2, SameRow, NoNewClaim DEF Quiet
<1> QED BY <1>0, <1>1, <1>2, StepCases, LockStep, CommitStep, CallerStepKeeps, ReturnStep,
           SweepStep

-----------------------------------------------------------------------------
(* The inductive invariant: that attempts are delivered once rests on the  *)
(* table never being behind a handler and on locks that no step but their  *)
(* holder's lifts, and all of it on the types.                             *)
IInv == TypeOK /\ Lifecycle /\ Claims

(* The inductive invariant holds in every reachable state of every         *)
(* deployment.                                                             *)
THEOREM InvariantHolds == Spec => []IInv
<1>1. Init => IInv
  <2> SUFFICES ASSUME Init PROVE IInv
    OBVIOUS
  <2>1. TypeOK /\ Lifecycle
    BY TypeInit
  <2>2. Claims
    BY DEF Init, Claims, LockHolds, LocksDiffer, NotAhead, AttemptOnce
  <2> QED BY <2>1, <2>2 DEF IInv
<1>2. IInv /\ [Next]_vars => IInv'
  BY TypeStep, ClaimsStep DEF IInv
<1> QED BY <1>1, <1>2, PTL DEF Spec

(* Type correctness: in particular retries never give a row a wait outside *)
(* the naturals, a listener's backoff stays a natural number however often *)
(* it doubles, and a budget is never negative.                             *)
THEOREM TypeCorrect == Spec => []TypeOK
<1>1. IInv => TypeOK
  BY DEF IInv
<1> QED BY <1>1, InvariantHolds, PTL

(* FOR UPDATE SKIP LOCKED never delivers an attempt twice, however leases  *)
(* lapse, processes crash and statements fail or only seem to.             *)
THEOREM NoDoubleDelivery == Spec => []AttemptOnce
<1>1. IInv => AttemptOnce
  BY DEF IInv, Claims
<1> QED BY <1>1, InvariantHolds, PTL

(* A claim commits on the row it locked, so no handler starts before the   *)
(* run_at of the row, requeues and retries in between included.            *)
THEOREM NeverEarly == Spec => NotEarly
<1>1. IInv => \A w \in Workers : Starts(w) => row[job[w].task].wait = 0
  BY DEF IInv, Claims, LockHolds, Starts
<1> QED BY <1>1, InvariantHolds, PTL DEF NotEarly

(* Only complete ends a handler.                                           *)
LEMMA FinishingStep ==
    ASSUME IInv, [Next]_vars, NEW w \in Workers, Finishes(w)
    PROVE  HandlerReturns(w)
<1> USE DEF Finishes
<1>0. TypeOK /\ Lifecycle /\ pc[w] = "handle" /\ pc'[w] = "begin"
  BY DEF IInv
<1>1. ~ \E p \in Procs : \E t \in Tasks :
           (\E i \in EnqueueInputs : Enqueue(p, t, i)) \/ RequeueDeadTask(p, t)
  BY <1>0 DEF Enqueue, RequeueDeadTask
<1>2. ~ \E t \in Tasks : DeleteDeadTask(t)
  BY <1>0 DEF DeleteDeadTask, workerVars
<1>3. ~ \E p \in Procs : Crash(p)
  BY <1>0 DEF Crash
<1>4. ~ \E v \in Workers : \E t \in Tasks : LockRow(v, t)
  BY <1>0 DEF LockRow, Go, TypeOK
<1>5. ~ \E v \in Workers : CommitClaim(v) \/ ClaimFails(v)
  BY <1>0 DEF CommitClaim, ClaimFails, GiveUp, Go, TypeOK
<1>6. ~ \E v \in Workers : Reap(v) \/ NotifyReaped(v)
  BY <1>0 DEF Reap, NotifyReaped, Go, TypeOK
<1>7. ASSUME NEW v \in Workers, HandlerReturns(v), v # w PROVE FALSE
  <2>1. Release(v)
    BY <1>7 DEF HandlerReturns, HandlerSucceeds, Bury, Reschedule, CompleteFails
  <2> QED BY <1>0, <1>7, <2>1 DEF Release, Go, TypeOK
<1>8. ~ Tick
  BY <1>0 DEF Tick
<1>9. ~ Quiet
  BY <1>0 DEF Quiet
<1> QED BY <1>0, <1>1, <1>2, <1>3, <1>4, <1>5, <1>6, <1>7, <1>8, <1>9, StepCases

(* Within a life of a row, complete's attempts guard keeps the failure of  *)
(* a worker that lost its lease away from the row.                         *)
THEOREM StaleFailuresAreHarmless == Spec => StaleFailureIsHarmless
<1> DEFINE Harmless(w) ==
      LET t == job[w].task IN
      (Finishes(w) /\ ~ Owns(w) /\ job[w].life = row[t].life)
        => row'[t] = row[t] \/ row'[t].status = "deleted"
<1>1. ASSUME IInv, [Next]_vars, NEW w \in Workers PROVE Harmless(w)
  <2> SUFFICES ASSUME Finishes(w), ~ Owns(w), job[w].life = row[job[w].task].life
               PROVE  row'[job[w].task] = row[job[w].task] \/ row'[job[w].task].status = "deleted"
    OBVIOUS
  <2>1. TypeOK /\ Lifecycle /\ HandlerReturns(w)
    BY <1>1, FinishingStep DEF IInv
  <2>2. ~ Guard(job[w])
    BY DEF Owns, Guard
  <2>3. job[w].task \in Tasks /\ (row' = row \/ Moved(job[w].task, "deleted"))
    BY <2>1, <2>2, ReturnRow
  <2> QED BY <2>1, <2>3, OneRowType DEF Moved, MkRow
<1>2. IInv /\ [Next]_vars => [\A w \in Workers : Harmless(w)]_vars
  BY <1>1
<1> QED BY <1>2, InvariantHolds, PTL DEF Spec, StaleFailureIsHarmless
=============================================================================
