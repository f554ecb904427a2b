------------------------------ MODULE SqliteLib ------------------------------
(***************************************************************************)
(* The SQLite library as sqlite3_db.cpp uses it.  EXTERNAL: the library is *)
(* not in the repository; each operator is one library call, with the      *)
(* result code the driver branches on as its last parameter.               *)
(*                                                                         *)
(* All handles are open on one database file in rollback-journal mode, so  *)
(* they meet in its file lock: many readers (SHARED), one writer preparing *)
(* (RESERVED), one writer waiting for the readers to leave (PENDING).      *)
(* EXCLUSIVE is only held inside a single library call.  No busy handler   *)
(* is installed (the driver sets none): a lock that cannot be had is       *)
(* BUSY at once.                                                           *)
(***************************************************************************)
EXTENDS Naturals

CONSTANTS
  Handle,      \* sqlite3* values
  RS,          \* result sets, each owning one sqlite3_stmt
  NULL,
  MaxRows,     \* bound: rows of one query
  AutoReset,   \* sqlite3_step restarts a halted statement (3.6.23.2 and later)
  Faults       \* the library may fail: disk full, I/O error, interrupt

ASSUME LibAssumption ==
  /\ NULL \notin Handle
  /\ MaxRows \in Nat
  /\ AutoReset \in BOOLEAN
  /\ Faults \in BOOLEAN

VARIABLES
  native,     \* native[h]: "free", "open", or "broken" by a failed open
  lock,       \* lock[h]: the lock h holds on the file
  tx,         \* tx[h]: BEGIN was executed and neither COMMIT nor ROLLBACK
  dirty,      \* dirty[h]: writes of that transaction
  stmt,       \* stmt[r]: the prepared statement of result set r
  committed   \* writes in the database

libVars == <<native, lock, tx, dirty, stmt, committed>>

NONE     == 0
SHARED   == 1
RESERVED == 2
PENDING  == 3

StepCodes == {"ROW", "DONE", "BUSY", "ERROR", "MISUSE"}

\* runs counts the times a write took effect: 0, 1, or 2 for more than once.
Stmt ==
  [on : Handle \cup {NULL}, vm : {"ready", "row", "halted"}, at : Nat,
   rows : 0 .. MaxRows, write : BOOLEAN, runs : 0 .. 2]

NoStmt ==
  [on |-> NULL, vm |-> "ready", at |-> 0, rows |-> 0, write |-> FALSE,
   runs |-> 0]

LibTypeOK ==
  /\ native \in [Handle -> {"free", "open", "broken"}]
  /\ lock \in [Handle -> NONE .. PENDING]
  /\ tx \in [Handle -> BOOLEAN]
  /\ dirty \in [Handle -> Nat]
  /\ stmt \in [RS -> Stmt]
  /\ committed \in Nat

LibInit ==
  /\ native = [h \in Handle |-> "free"]
  /\ lock = [h \in Handle |-> NONE]
  /\ tx = [h \in Handle |-> FALSE]
  /\ dirty = [h \in Handle |-> 0]
  /\ stmt = [r \in RS |-> NoStmt]
  /\ committed = 0

-----------------------------------------------------------------------------
(* Locks. *)

\* Statements of h in the middle of their rows, r aside.
RunningBut(h, r) ==
  \E q \in RS \ {r} : stmt[q].on = h /\ stmt[q].vm = "row"

Running(h) == \E q \in RS : stmt[q].on = h /\ stmt[q].vm = "row"

CanRead(h) ==
  lock[h] >= SHARED \/ \A g \in Handle \ {h} : lock[g] < PENDING

CanReserve(h) ==
  lock[h] >= RESERVED \/ \A g \in Handle \ {h} : lock[g] < RESERVED

CanCommit(h) == \A g \in Handle \ {h} : lock[g] = NONE

\* Outside a transaction a write commits as it ends.
CanWrite(h) == CanReserve(h) /\ (tx[h] \/ CanCommit(h))

AtLeast(level, l) == IF l < level THEN level ELSE l

\* A transaction keeps what it took; otherwise only running statements hold.
SettledLock(h, r) ==
  IF tx[h] THEN AtLeast(SHARED, lock[h])
           ELSE IF RunningBut(h, r) THEN SHARED ELSE NONE

\* The transaction of h ends without effect.
Undo(h) ==
  /\ tx' = [tx EXCEPT ![h] = FALSE]
  /\ dirty' = [dirty EXCEPT ![h] = 0]
  /\ UNCHANGED committed

WriteTakesEffect(h) ==
  IF tx[h] THEN /\ dirty' = [dirty EXCEPT ![h] = @ + 1]
                /\ lock' = [lock EXCEPT ![h] = AtLeast(RESERVED, @)]
                /\ UNCHANGED committed
           ELSE /\ committed' = committed + 1
                /\ UNCHANGED <<dirty, lock>>

-----------------------------------------------------------------------------
(* Handles. *)

\* A failed open leaves a handle behind that wants a sqlite3_close.
sqlite3_open(h, ok) ==
  /\ native[h] = "free"
  /\ native' = [native EXCEPT ![h] = IF ok THEN "open" ELSE "broken"]
  /\ UNCHANGED <<lock, tx, dirty, stmt, committed>>

\* Refused while a statement is not finalized; rolls back a transaction.
sqlite3_close(h, ok) ==
  /\ ok = (\A r \in RS : stmt[r].on # h)
  /\ IF ok THEN /\ native' = [native EXCEPT ![h] = "free"]
                /\ lock' = [lock EXCEPT ![h] = NONE]
                /\ Undo(h)
                /\ UNCHANGED stmt
           ELSE UNCHANGED libVars

-----------------------------------------------------------------------------
(* sqlite3_exec, by what the SQL it is given does. *)

exec_read(h, ok) ==
  /\ IF ok THEN CanRead(h) ELSE ~CanRead(h) \/ Faults
  /\ lock' = IF ok /\ tx[h] THEN [lock EXCEPT ![h] = AtLeast(SHARED, @)]
                            ELSE lock
  /\ UNCHANGED <<native, tx, dirty, stmt, committed>>

\* A failure inside a transaction may roll the transaction back.
AutoRollback(h) ==
  /\ Faults /\ tx[h]
  /\ Undo(h)
  /\ lock' = [lock EXCEPT ![h] = IF Running(h) THEN SHARED ELSE NONE]
  /\ UNCHANGED native

exec_write(h, ok) ==
  \/ /\ ok /\ CanWrite(h)
     /\ WriteTakesEffect(h)
     /\ UNCHANGED <<native, tx, stmt>>
  \/ /\ ~ok /\ (~CanWrite(h) \/ Faults)
     /\ UNCHANGED libVars
  \/ ~ok /\ AutoRollback(h) /\ UNCHANGED stmt

\* BEGIN is deferred: it takes no lock.
exec_begin(h, ok) ==
  /\ ok = ~tx[h]
  /\ tx' = [tx EXCEPT ![h] = TRUE]
  /\ UNCHANGED <<native, lock, dirty, stmt, committed>>

\* A COMMIT the readers hold up keeps the transaction and shuts new ones out.
exec_commit(h, ok) ==
  \/ /\ ok /\ tx[h]
     /\ lock[h] < RESERVED \/ CanCommit(h)
     /\ committed' = committed + dirty[h]
     /\ dirty' = [dirty EXCEPT ![h] = 0]
     /\ tx' = [tx EXCEPT ![h] = FALSE]
     /\ lock' = [lock EXCEPT ![h] = IF Running(h) THEN SHARED ELSE NONE]
     /\ UNCHANGED <<native, stmt>>
  \/ /\ ~ok /\ tx[h] /\ lock[h] >= RESERVED /\ ~CanCommit(h)
     /\ lock' = [lock EXCEPT ![h] = PENDING]
     /\ UNCHANGED <<native, tx, dirty, stmt, committed>>
  \/ /\ ~ok /\ (~tx[h] \/ Faults)
     /\ UNCHANGED libVars
  \/ ~ok /\ AutoRollback(h) /\ UNCHANGED stmt

exec_rollback(h, ok) ==
  /\ ok = tx[h]
  /\ Undo(h)
  /\ lock' = IF ok THEN [lock EXCEPT ![h] = IF Running(h) THEN SHARED ELSE NONE]
                   ELSE lock
  /\ UNCHANGED <<native, stmt>>

exec_pragma(ok) == (ok \/ Faults) /\ UNCHANGED libVars

-----------------------------------------------------------------------------
(* Statements. *)

sqlite3_prepare(h, r, write, n) ==
  /\ stmt' = [stmt EXCEPT ![r] = [NoStmt EXCEPT !.on = h, !.rows = n,
                                                !.write = write]]
  /\ UNCHANGED <<native, lock, tx, dirty, committed>>

\* The statement would begin to run: it is new, or halted and restarts.
Startable(r) == stmt[r].vm = "ready" \/ (stmt[r].vm = "halted" /\ AutoReset)

StepRow(r) ==
  LET h == stmt[r].on IN
  /\ ~stmt[r].write
  /\ \/ stmt[r].vm = "row" /\ stmt[r].at < stmt[r].rows
     \/ Startable(r) /\ stmt[r].rows > 0 /\ CanRead(h)
  /\ stmt' = [stmt EXCEPT
       ![r].at = IF stmt[r].vm = "row" THEN stmt[r].at + 1 ELSE 1,
       ![r].vm = "row"]
  /\ lock' = [lock EXCEPT ![h] = AtLeast(SHARED, @)]
  /\ UNCHANGED <<native, tx, dirty, committed>>

StepReadDone(r) ==
  LET h == stmt[r].on IN
  /\ ~stmt[r].write
  /\ \/ stmt[r].vm = "row" /\ stmt[r].at = stmt[r].rows
     \/ Startable(r) /\ stmt[r].rows = 0 /\ CanRead(h)
  /\ stmt' = [stmt EXCEPT ![r].vm = "halted"]
  /\ lock' = [lock EXCEPT ![h] = SettledLock(h, r)]
  /\ UNCHANGED <<native, tx, dirty, committed>>

StepWriteDone(r) ==
  LET h == stmt[r].on IN
  /\ stmt[r].write /\ Startable(r) /\ CanWrite(h)
  /\ stmt' = [stmt EXCEPT ![r].vm = "halted",
                          ![r].runs = IF stmt[r].runs = 2 THEN 2
                                                        ELSE stmt[r].runs + 1]
  /\ WriteTakesEffect(h)
  /\ UNCHANGED <<native, tx>>

\* BUSY before the statement began: it can be stepped again as it is.
StepBlocked(r) ==
  /\ Startable(r)
  /\ IF stmt[r].write THEN ~CanReserve(stmt[r].on) ELSE ~CanRead(stmt[r].on)

StepBusy(r) == StepBlocked(r) /\ UNCHANGED libVars

\* BUSY as the write commits: it is undone, and the statement has halted.
StepCommitBlocked(r) ==
  LET h == stmt[r].on IN
  stmt[r].write /\ Startable(r) /\ ~tx[h] /\ CanReserve(h) /\ ~CanCommit(h)

StepCommitBusy(r) ==
  /\ StepCommitBlocked(r)
  /\ stmt' = [stmt EXCEPT ![r].vm = "halted"]
  /\ UNCHANGED <<native, lock, tx, dirty, committed>>

\* A statement that fails has halted; a failed write may take the whole
\* transaction with it.
StepError(r) ==
  LET h == stmt[r].on IN
  /\ Faults
  /\ stmt[r].vm = "row" \/ Startable(r)
  /\ stmt' = [stmt EXCEPT ![r].vm = "halted"]
  /\ \/ stmt[r].write /\ AutoRollback(h)
     \/ /\ lock' = IF stmt[r].vm = "row"
                     THEN [lock EXCEPT ![h] = SettledLock(h, r)] ELSE lock
        /\ UNCHANGED <<native, tx, dirty, committed>>

StepMisuse(r) == stmt[r].vm = "halted" /\ ~AutoReset /\ UNCHANGED libVars

sqlite3_step(r, rc) ==
  \/ rc = "ROW" /\ StepRow(r)
  \/ rc = "DONE" /\ (StepReadDone(r) \/ StepWriteDone(r))
  \/ rc = "BUSY" /\ (StepBusy(r) \/ StepCommitBusy(r))
  \/ rc = "ERROR" /\ StepError(r)
  \/ rc = "MISUSE" /\ StepMisuse(r)

\* A statement still in the middle of its rows lets go of them.
sqlite3_finalize(r) ==
  LET h == stmt[r].on IN
  /\ stmt' = [stmt EXCEPT ![r] = NoStmt]
  /\ lock' = IF stmt[r].vm = "row"
               THEN [lock EXCEPT ![h] = SettledLock(h, r)] ELSE lock
  /\ UNCHANGED <<native, tx, dirty, committed>>
=============================================================================
