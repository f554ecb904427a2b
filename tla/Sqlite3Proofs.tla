---------------------------- MODULE Sqlite3Proofs ----------------------------
(***************************************************************************)
(* Theorems of Sqlite3, for every number of connections, result sets,      *)
(* handles and rows, for clients that reopen or drop connections and for a *)
(* library that fails or restarts halted statements.                       *)
(***************************************************************************)
EXTENDS Sqlite3, ClientViewProofs

\* Lock levels stay within the four of the library.
LEMMA LockLevels ==
  ASSUME LibTypeOK, NEW h \in Handle, NEW r \in RS, NEW level \in {SHARED, RESERVED}
  PROVE  /\ AtLeast(level, lock[h]) \in NONE .. PENDING
         /\ SettledLock(h, r) \in NONE .. PENDING
  BY DEF LibTypeOK, AtLeast, SettledLock, NONE, SHARED, RESERVED, PENDING

LEMMA UndoType ==
  ASSUME LibTypeOK, NEW h \in Handle, Undo(h)
  PROVE  /\ tx' \in [Handle -> BOOLEAN]
         /\ dirty' \in [Handle -> Nat]
         /\ committed' \in Nat
  BY DEF LibTypeOK, Undo

LEMMA AutoRollbackType ==
  ASSUME LibTypeOK, NEW h \in Handle, AutoRollback(h), stmt' \in [RS -> Stmt]
  PROVE  LibTypeOK'
<1>1. lock' \in [Handle -> NONE .. PENDING]
  BY DEF LibTypeOK, AutoRollback, NONE, SHARED, PENDING
<1>2. QED
  BY <1>1, UndoType DEF LibTypeOK, AutoRollback

\* The record updates sqlite3_step makes.
LEMMA StmtUpdates ==
  ASSUME NEW s \in Stmt
  PROVE  /\ \A n \in Nat : [s EXCEPT !.at = n, !.vm = "row"] \in Stmt
         /\ [s EXCEPT !.vm = "halted"] \in Stmt
         /\ \A n \in 0 .. 2 : [s EXCEPT !.vm = "halted", !.runs = n] \in Stmt
         /\ s.at + 1 \in Nat
         /\ (IF s.runs = 2 THEN 2 ELSE s.runs + 1) \in 0 .. 2
<1>1. /\ s.at + 1 \in Nat
      /\ (IF s.runs = 2 THEN 2 ELSE s.runs + 1) \in 0 .. 2
  BY DEF Stmt
<1>2. \A n \in Nat : [s EXCEPT !.at = n, !.vm = "row"] \in Stmt
  BY DEF Stmt
<1>3. [s EXCEPT !.vm = "halted"] \in Stmt
  BY DEF Stmt
<1>4. \A n \in 0 .. 2 : [s EXCEPT !.vm = "halted", !.runs = n] \in Stmt
  BY DEF Stmt
<1>5. QED
  BY <1>1, <1>2, <1>3, <1>4

\* sqlite3_step keeps the types, whatever code it returns.
LEMMA StepType ==
  ASSUME LibTypeOK, NEW r \in RS, stmt[r].on \in Handle, NEW rc,
         sqlite3_step(r, rc)
  PROVE  LibTypeOK'
<1> DEFINE h == stmt[r].on
<1>0. /\ stmt[r] \in Stmt
      /\ AtLeast(SHARED, lock[h]) \in NONE .. PENDING
      /\ AtLeast(RESERVED, lock[h]) \in NONE .. PENDING
      /\ SettledLock(h, r) \in NONE .. PENDING
      /\ SHARED \in NONE .. PENDING /\ NONE \in NONE .. PENDING
      /\ committed + 1 \in Nat /\ dirty[h] + 1 \in Nat
  BY LockLevels DEF LibTypeOK, NONE, SHARED, PENDING
<1>1. CASE StepRow(r)
  <2>1. PICK n \in Nat : stmt' = [stmt EXCEPT ![r].at = n, ![r].vm = "row"]
    BY <1>0, <1>1, StmtUpdates DEF StepRow
  <2>2. stmt' \in [RS -> Stmt]
    BY <1>0, <2>1, StmtUpdates DEF LibTypeOK
  <2>3. QED
    BY <1>0, <1>1, <2>2 DEF StepRow, LibTypeOK
<1>2. CASE StepReadDone(r)
  BY <1>0, <1>2 DEF StepReadDone, LibTypeOK, Stmt
<1>3. CASE StepWriteDone(r)
  <2>1. stmt' \in [RS -> Stmt]
    BY <1>0, <1>3, StmtUpdates DEF StepWriteDone, LibTypeOK
  <2>2. QED
    BY <1>0, <1>3, <2>1 DEF StepWriteDone, WriteTakesEffect, LibTypeOK
<1>4. CASE StepBusy(r)
  BY <1>4 DEF StepBusy, LibTypeOK, libVars
<1>5. CASE StepCommitBusy(r)
  BY <1>0, <1>5 DEF StepCommitBusy, LibTypeOK, Stmt
<1>6. CASE StepError(r)
  <2>1. stmt' \in [RS -> Stmt]
    BY <1>0, <1>6, StmtUpdates DEF StepError, LibTypeOK
  <2>2. CASE AutoRollback(h)
    BY <1>0, <2>1, <2>2, AutoRollbackType
  <2>3. CASE ~AutoRollback(h)
    BY <1>0, <1>6, <2>1, <2>3 DEF StepError, LibTypeOK
  <2>4. QED
    BY <2>2, <2>3
<1>7. CASE StepMisuse(r)
  BY <1>7 DEF StepMisuse, LibTypeOK, libVars
<1>8. QED
  BY <1>1, <1>2, <1>3, <1>4, <1>5, <1>6, <1>7 DEF sqlite3_step

\* The calls of sqlite3_exec keep the types.
LEMMA ExecType ==
  ASSUME LibTypeOK, NEW h \in Handle, NEW ok \in BOOLEAN,
         \/ exec_read(h, ok) \/ exec_write(h, ok) \/ exec_begin(h, ok)
         \/ exec_commit(h, ok) \/ exec_rollback(h, ok) \/ exec_pragma(ok)
  PROVE  LibTypeOK'
<1>0. /\ AtLeast(SHARED, lock[h]) \in NONE .. PENDING
      /\ AtLeast(RESERVED, lock[h]) \in NONE .. PENDING
      /\ (IF Running(h) THEN SHARED ELSE NONE) \in NONE .. PENDING
      /\ PENDING \in NONE .. PENDING
      /\ committed + 1 \in Nat /\ dirty[h] + 1 \in Nat
      /\ committed + dirty[h] \in Nat
  <2>1. /\ dirty[h] \in Nat /\ committed \in Nat
        /\ lock[h] \in NONE .. PENDING
    BY DEF LibTypeOK
  <2>2. QED
    BY <2>1 DEF AtLeast, NONE, SHARED, RESERVED, PENDING
<1>1. CASE exec_read(h, ok)
  BY <1>0, <1>1 DEF exec_read, LibTypeOK
<1>2. CASE exec_write(h, ok)
  <2>1. CASE CanWrite(h) /\ WriteTakesEffect(h) /\ UNCHANGED <<native, tx, stmt>>
    BY <1>0, <2>1 DEF WriteTakesEffect, LibTypeOK
  <2>2. CASE UNCHANGED libVars
    BY <2>2 DEF LibTypeOK, libVars
  <2>3. CASE AutoRollback(h) /\ UNCHANGED stmt
    BY <2>3, AutoRollbackType DEF LibTypeOK
  <2>4. QED
    BY <1>2, <2>1, <2>2, <2>3 DEF exec_write
<1>3. CASE exec_begin(h, ok)
  BY <1>3 DEF exec_begin, LibTypeOK
<1>4. CASE exec_commit(h, ok)
  <2>1. CASE /\ committed' = committed + dirty[h]
             /\ dirty' = [dirty EXCEPT ![h] = 0]
             /\ tx' = [tx EXCEPT ![h] = FALSE]
             /\ lock' = [lock EXCEPT ![h] = IF Running(h) THEN SHARED ELSE NONE]
             /\ UNCHANGED <<native, stmt>>
    BY <1>0, <2>1 DEF LibTypeOK
  <2>2. CASE UNCHANGED libVars
    BY <2>2 DEF LibTypeOK, libVars
  <2>3. CASE AutoRollback(h) /\ UNCHANGED stmt
    BY <2>3, AutoRollbackType DEF LibTypeOK
  <2>4. CASE /\ lock' = [lock EXCEPT ![h] = PENDING]
             /\ UNCHANGED <<native, tx, dirty, stmt, committed>>
    BY <1>0, <2>4 DEF LibTypeOK
  <2>5. QED
    BY <1>4, <2>1, <2>2, <2>3, <2>4 DEF exec_commit
<1>5. CASE exec_rollback(h, ok)
  BY <1>0, <1>5, UndoType DEF exec_rollback, LibTypeOK
<1>6. CASE exec_pragma(ok)
  BY <1>6 DEF exec_pragma, libVars, LibTypeOK
<1>7. QED
  BY <1>1, <1>2, <1>3, <1>4, <1>5, <1>6

\* Opening, closing, preparing and finalizing keep the types.
LEMMA HandleType ==
  ASSUME LibTypeOK, NEW h \in Handle, NEW ok \in BOOLEAN,
         sqlite3_open(h, ok) \/ sqlite3_close(h, ok)
  PROVE  LibTypeOK'
<1>1. CASE sqlite3_open(h, ok)
  BY <1>1 DEF sqlite3_open, LibTypeOK
<1>2. CASE sqlite3_close(h, ok) /\ ok
  <2>1. /\ native' = [native EXCEPT ![h] = "free"]
        /\ lock' = [lock EXCEPT ![h] = NONE]
        /\ Undo(h)
        /\ UNCHANGED stmt
    BY <1>2 DEF sqlite3_close
  <2>2. NONE \in NONE .. PENDING
    BY DEF NONE, PENDING
  <2>3. QED
    BY <2>1, <2>2, UndoType DEF LibTypeOK
<1>3. CASE sqlite3_close(h, ok) /\ ~ok
  BY <1>3 DEF sqlite3_close, LibTypeOK, libVars
<1>4. QED
  BY <1>1, <1>2, <1>3

LEMMA StatementType ==
  ASSUME LibTypeOK, NEW r \in RS
  PROVE  /\ \A h \in Handle, write \in BOOLEAN, n \in 0 .. MaxRows :
              sqlite3_prepare(h, r, write, n) => LibTypeOK'
         /\ stmt[r].on \in Handle /\ sqlite3_finalize(r) => LibTypeOK'
<1>1. NoStmt \in Stmt
  BY LibAssumption DEF NoStmt, Stmt
<1>2. ASSUME NEW h \in Handle, NEW write \in BOOLEAN, NEW n \in 0 .. MaxRows,
             sqlite3_prepare(h, r, write, n)
      PROVE  LibTypeOK'
  <2>1. [NoStmt EXCEPT !.on = h, !.rows = n, !.write = write] \in Stmt
    BY <1>1 DEF Stmt
  <2>2. QED
    BY <1>2, <2>1 DEF sqlite3_prepare, LibTypeOK
<1>3. ASSUME stmt[r].on \in Handle, sqlite3_finalize(r)
      PROVE  LibTypeOK'
  <2>1. SettledLock(stmt[r].on, r) \in NONE .. PENDING
    BY <1>3, LockLevels
  <2>2. QED
    BY <1>1, <1>3, <2>1 DEF sqlite3_finalize, LibTypeOK
<1>4. QED
  BY <1>2, <1>3

-----------------------------------------------------------------------------
(* The inductive invariant.  A call runs only on a result set that exists, *)
(* which gives every library call a handle to work on.                     *)

CallOnExisting == \A r \in RS : call[r] # "idle" => Exists(r)

IInv == TypeOK /\ CallOnExisting /\ StmtHandleOpen /\ HandleUnshared

LEMMA InitIInv == Init => IInv
<1> SUFFICES ASSUME Init PROVE IInv
  OBVIOUS
<1>1. NoStmt \in Stmt
  BY LibAssumption DEF NoStmt, Stmt
<1>2. LibTypeOK
  BY <1>1 DEF Init, LibInit, LibTypeOK, NONE, PENDING
<1>3. RefTypeOK /\ ViewTypeOK
  BY DEF Init, RefInit, RefTypeOK, ViewInit, ViewTypeOK
<1>4. TypeOK
  BY <1>2, <1>3 DEF Init, TypeOK
<1>5. \A r \in RS : ~Exists(r)
  BY DEF Init, LibInit, Exists, NoStmt
<1>6. QED
  BY <1>4, <1>5 DEF Init, IInv, CallOnExisting, StmtHandleOpen, HandleUnshared

\* sqlite3_exec opens and closes nothing, and sqlite3_step moves no statement
\* to another handle.
LEMMA ExecFrame ==
  ASSUME NEW h \in Handle, NEW ok \in BOOLEAN,
         \/ exec_read(h, ok) \/ exec_write(h, ok) \/ exec_begin(h, ok)
         \/ exec_commit(h, ok) \/ exec_rollback(h, ok) \/ exec_pragma(ok)
  PROVE  UNCHANGED <<native, stmt>>
<1>1. CASE exec_write(h, ok) \/ exec_commit(h, ok)
  BY <1>1 DEF exec_write, exec_commit, AutoRollback, libVars
<1>2. CASE exec_read(h, ok) \/ exec_begin(h, ok)
  BY <1>2 DEF exec_read, exec_begin
<1>3. CASE exec_rollback(h, ok) \/ exec_pragma(ok)
  BY <1>3 DEF exec_rollback, exec_pragma, libVars
<1>4. QED
  BY <1>1, <1>2, <1>3

LEMMA StepFrame ==
  ASSUME LibTypeOK, NEW r \in RS, NEW rc, sqlite3_step(r, rc)
  PROVE  /\ UNCHANGED native
         /\ \A q \in RS : stmt'[q].on = stmt[q].on
<1>1. stmt[r] \in Stmt /\ DOMAIN stmt = RS
  BY DEF LibTypeOK
<1>2. CASE StepBusy(r) \/ StepMisuse(r)
  BY <1>2 DEF StepBusy, StepMisuse, libVars
<1>3. CASE StepRow(r)
  BY <1>1, <1>3 DEF StepRow, Stmt
<1>4. CASE StepReadDone(r)
  BY <1>1, <1>4 DEF StepReadDone, Stmt
<1>5. CASE StepWriteDone(r)
  BY <1>1, <1>5 DEF StepWriteDone, Stmt
<1>6. CASE StepCommitBusy(r)
  BY <1>1, <1>6 DEF StepCommitBusy, Stmt
<1>7. CASE StepError(r)
  BY <1>1, <1>7 DEF StepError, AutoRollback, Stmt
<1>8. QED
  BY <1>2, <1>3, <1>4, <1>5, <1>6, <1>7 DEF sqlite3_step

\* While handles and statements stay where they are, so do the two facts
\* about them.
LEMMA Frame ==
  ASSUME IInv, UNCHANGED <<native, db_>>,
         \A q \in RS : stmt'[q].on = stmt[q].on
  PROVE  StmtHandleOpen' /\ HandleUnshared' /\ \A q \in RS : Exists(q)' = Exists(q)
  BY DEF IInv, StmtHandleOpen, HandleUnshared, Exists

\* A query that cannot be prepared leaves all but what the client makes of it.
LEMMA NotPreparedLeaves ==
  ASSUME ViewTypeOK, NEW r \in RS, NotPrepared(r)
  PROVE  /\ ViewTypeOK'
         /\ UNCHANGED <<ref, native, lock, tx, dirty, stmt, committed, db_, call, over,
                         inTx, told, acked>>
<1>1. SawFailure(Thread[r], "result") /\ Thread[r] \in Conn
  BY DriverAssumption DEF NotPrepared
<1>2. QED
  BY <1>1, ViewType DEF NotPrepared, SawFailure, libVars, driverVars

LEMMA ResultStepIInv ==
  ASSUME IInv, NEW r \in RS, ResultStep(r)
  PROVE  IInv'
<1> USE DEF IInv
<1>0. /\ TypeOK /\ LibTypeOK /\ ViewTypeOK /\ RefTypeOK
      /\ Exists(r) => stmt[r].on \in Handle
      /\ Thread[r] \in Conn
  BY DriverAssumption DEF TypeOK, LibTypeOK, Stmt, Exists
<1>1. CASE Prepared(r)
  <2> DEFINE h == db_[Thread[r]]
  <2>a. PICK kind \in QueryKinds :
          \E n \in IF kind = "write" THEN {0} ELSE 0 .. MaxRows :
            sqlite3_prepare(h, r, kind = "write", n)
    BY <1>1 DEF Prepared
  <2>b. PICK n \in IF kind = "write" THEN {0} ELSE 0 .. MaxRows :
          sqlite3_prepare(h, r, kind = "write", n)
    BY <2>a
  <2> DEFINE write == kind = "write"
  <2>1. n \in 0 .. MaxRows /\ write \in BOOLEAN /\ sqlite3_prepare(h, r, write, n)
    BY <2>b, LibAssumption
  <2> HIDE DEF write
  <2>2. h \in Handle /\ native[h] = "open" /\ ~Exists(r)
    BY <1>0, <1>1 DEF Prepared, TypeOK, HandleUnshared
  <2>3. LibTypeOK'
    BY <1>0, <2>1, <2>2, StatementType
  <2>4. TypeOK'
    BY <1>0, <1>1, <2>3 DEF Prepared, TypeOK, SawNothing, viewVars, ViewTypeOK, RefTypeOK
  <2>5. /\ UNCHANGED native
        /\ \A q \in RS \ {r} : stmt'[q] = stmt[q]
        /\ stmt'[r].on = h
    BY <1>0, <2>1 DEF sqlite3_prepare, LibTypeOK, NoStmt
  <2>6. StmtHandleOpen' /\ HandleUnshared'
    BY <1>1, <2>2, <2>5 DEF Prepared, StmtHandleOpen, HandleUnshared, Exists
  <2>7. CallOnExisting'
    BY <1>0, <1>1, <2>2, <2>5, LibAssumption DEF Prepared, CallOnExisting, Exists
  <2>8. QED
    BY <2>4, <2>6, <2>7
<1>2. CASE CallNext(r) \/ CallClose(r)
  <2>1. PICK method \in {"next", "close"} : CallResult(r, method)
    BY <1>2 DEF CallNext, CallClose
  <2>2. TypeOK'
    BY <1>0, <2>1 DEF CallResult, TypeOK, viewVars, libVars, ViewTypeOK, RefTypeOK, LibTypeOK
  <2>3. UNCHANGED <<native, stmt, db_>>
    BY <2>1 DEF CallResult, libVars
  <2>4. CallOnExisting'
    BY <1>0, <2>1, <2>3 DEF CallResult, CallOnExisting, Exists, TypeOK
  <2>5. QED
    BY <2>2, <2>3, <2>4, Frame
<1>3. CASE NextStep(r) \/ CloseStep(r)
  <2>1. Exists(r) /\ call[r] \in {"next", "close"}
    BY <1>3 DEF NextStep, CloseStep, CallOnExisting
  <2>2. PICK rc \in StepCodes : sqlite3_step(r, rc)
    BY <1>3 DEF NextStep, CloseStep
  <2>3. LibTypeOK'
    BY <1>0, <2>1, <2>2, StepType
  <2>4. /\ call' \in [RS -> {"idle", "next", "close", "finalize"}]
        /\ over' \in [RS -> BOOLEAN]
        /\ \A q \in RS : q # r => call'[q] = call[q]
    BY <1>0, <1>3 DEF NextStep, CloseStep, TypeOK
  <2>5. UNCHANGED <<ref, viewVars, db_>>
    BY <1>3 DEF NextStep, CloseStep, SawNothing
  <2>6. TypeOK'
    BY <1>0, <2>3, <2>4, <2>5 DEF TypeOK, viewVars, ViewTypeOK, RefTypeOK
  <2>7. StmtHandleOpen' /\ HandleUnshared' /\ \A q \in RS : Exists(q)' = Exists(q)
    BY <1>0, <2>2, <2>5, StepFrame, Frame
  <2>8. CallOnExisting'
    BY <2>1, <2>4, <2>7 DEF CallOnExisting
  <2>9. QED
    BY <2>6, <2>7, <2>8
<1>4. CASE Finalize(r)
  <2>1. Exists(r) /\ sqlite3_finalize(r)
    BY <1>4 DEF Finalize, CallOnExisting
  <2>2. LibTypeOK'
    BY <1>0, <2>1, StatementType
  <2>3. TypeOK'
    BY <1>0, <1>4, <2>2 DEF Finalize, TypeOK, SawNothing, viewVars, ViewTypeOK, RefTypeOK
  <2>4. /\ UNCHANGED native
        /\ \A q \in RS \ {r} : stmt'[q] = stmt[q]
        /\ stmt'[r].on = NULL
    BY <1>0, <2>1 DEF sqlite3_finalize, LibTypeOK, NoStmt
  <2>5. StmtHandleOpen' /\ HandleUnshared'
    BY <1>4, <2>4 DEF Finalize, StmtHandleOpen, HandleUnshared, Exists
  <2>6. CallOnExisting'
    BY <1>0, <1>4, <2>4 DEF Finalize, CallOnExisting, Exists, TypeOK
  <2>7. QED
    BY <2>3, <2>5, <2>6
<1>5. CASE NotPrepared(r)
  BY <1>0, <1>5, NotPreparedLeaves DEF TypeOK, RefTypeOK, LibTypeOK, StmtHandleOpen,
     HandleUnshared, CallOnExisting, Exists
<1>6. QED
  BY <1>1, <1>2, <1>3, <1>4, <1>5 DEF ResultStep, ExecuteQuery

LEMMA ConnStepIInv ==
  ASSUME IInv, NEW c \in Conn, ConnStep(c)
  PROVE  IInv'
<1> USE DEF IInv
<1>0. /\ TypeOK /\ LibTypeOK /\ ViewTypeOK /\ RefTypeOK
      /\ ref[c] \in Nat
      /\ db_[c] # NULL => db_[c] \in Handle
      /\ \A r \in RS : Exists(r) => stmt[r].on \in Handle
  BY DEF TypeOK, RefTypeOK, LibTypeOK, Stmt, Exists
<1>1. CASE CreateConnection(c)
  <2>1. TypeOK'
    BY <1>0, <1>1 DEF CreateConnection, Construct, TypeOK, SawNothing, viewVars,
       ViewTypeOK, RefTypeOK, libVars, LibTypeOK
  <2>2. UNCHANGED <<native, stmt, call>> /\ db_' = [db_ EXCEPT ![c] = NULL]
    BY <1>1 DEF CreateConnection, libVars
  <2>3. StmtHandleOpen' /\ HandleUnshared' /\ CallOnExisting'
    BY <1>0, <2>2 DEF TypeOK, StmtHandleOpen, HandleUnshared, CallOnExisting, Exists
  <2>4. QED
    BY <2>1, <2>3
<1>2. CASE DuplicateConnection(c)
  <2>1. ref' \in [Conn -> Nat]
    BY <1>0, <1>2 DEF DuplicateConnection, Duplicate, RefTypeOK
  <2>2. UNCHANGED <<viewVars, libVars, driverVars>>
    BY <1>2 DEF DuplicateConnection
  <2>3. QED
    BY <1>0, <2>1, <2>2 DEF TypeOK, viewVars, libVars, driverVars, ViewTypeOK,
       RefTypeOK, LibTypeOK, StmtHandleOpen, HandleUnshared, CallOnExisting, Exists
<1>3. CASE Open(c)
  <2>1. PICK h \in Handle, ok \in BOOLEAN :
          /\ sqlite3_open(h, ok)
          /\ db_' = [db_ EXCEPT ![c] = IF ok THEN h ELSE NULL]
    BY <1>3 DEF Open
  <2>2. LibTypeOK'
    BY <1>0, <2>1, HandleType
  <2>3. ViewTypeOK'
    BY <1>0, <1>3, ViewType DEF Open
  <2>4. TypeOK'
    BY <1>0, <1>3, <2>1, <2>2, <2>3 DEF Open, TypeOK, RefTypeOK
  <2>5. /\ native[h] = "free" /\ UNCHANGED stmt
        /\ native' = [native EXCEPT ![h] = IF ok THEN "open" ELSE "broken"]
    BY <2>1 DEF sqlite3_open
  <2>6. \A g \in Handle : native[g] = "open" => native'[g] = "open"
    BY <1>0, <2>5 DEF LibTypeOK
  <2>7. StmtHandleOpen' /\ CallOnExisting'
    BY <1>0, <1>3, <2>5, <2>6 DEF Open, StmtHandleOpen, CallOnExisting, Exists
  <2>8. HandleUnshared'
    <3>1. \A d \in Conn : db_[d] # h
      BY <2>5, LibAssumption DEF HandleUnshared
    <3>2. \A d \in Conn \ {c} : db_'[d] = db_[d]
      BY <1>0, <2>1 DEF TypeOK
    <3>3. db_'[c] = IF ok THEN h ELSE NULL
      BY <1>0, <2>1 DEF TypeOK
    <3>4. ok => native'[h] = "open"
      BY <1>0, <2>5 DEF LibTypeOK
    <3>5. \A d \in Conn : db_[d] # NULL => db_[d] \in Handle
      BY <1>0 DEF TypeOK
    <3>6. QED
      BY <2>6, <3>1, <3>2, <3>3, <3>4, <3>5 DEF HandleUnshared
  <2>9. QED
    BY <2>4, <2>7, <2>8
<1>4. ASSUME NEW ok \in BOOLEAN, CloseHandle(c, ok), UNCHANGED call,
             db_' = [db_ EXCEPT ![c] = NULL] \/ (~ok /\ db_' = db_)
      PROVE  LibTypeOK' /\ StmtHandleOpen' /\ HandleUnshared' /\ CallOnExisting'
  <2>1. LibTypeOK'
    BY <1>0, <1>4, HandleType DEF CloseHandle, LibTypeOK, libVars
  <2>2. UNCHANGED stmt
    BY <1>4 DEF CloseHandle, sqlite3_close, libVars
  <2>3. \A g \in Handle : (g = db_[c] /\ ok) \/ native'[g] = native[g]
    BY <1>0, <1>4 DEF CloseHandle, sqlite3_close, libVars, LibTypeOK
  <2>4. ok => db_[c] # NULL /\ \A r \in RS : stmt[r].on # db_[c]
    BY <1>4 DEF CloseHandle, sqlite3_close
  <2>5. StmtHandleOpen' /\ CallOnExisting'
    BY <1>0, <1>4, <2>2, <2>3, <2>4 DEF StmtHandleOpen, CallOnExisting, Exists
  <2>6. \A d \in Conn : db_'[d] = db_[d] \/ (d = c /\ db_'[d] = NULL)
    BY <1>0, <1>4 DEF TypeOK
  <2>7. ok => db_'[c] = NULL
    BY <1>0, <1>4 DEF TypeOK
  <2>8. \A d \in Conn : db_[d] # NULL => db_[d] \in Handle
    BY <1>0 DEF TypeOK
  <2>9. HandleUnshared'
    BY <2>3, <2>6, <2>7, <2>8 DEF HandleUnshared
  <2>10. QED
    BY <2>1, <2>5, <2>9
<1>5. CASE Close(c)
  <2>1. PICK ok \in BOOLEAN :
          /\ CloseHandle(c, ok)
          /\ db_' = IF ok THEN [db_ EXCEPT ![c] = NULL] ELSE db_
          /\ IF ok THEN SawSession(c) ELSE SawNothing
    BY <1>5 DEF Close
  <2>2. ViewTypeOK'
    BY <1>0, <2>1, ViewType
  <2>3. LibTypeOK' /\ StmtHandleOpen' /\ HandleUnshared' /\ CallOnExisting'
    BY <1>4, <1>5, <2>1 DEF Close
  <2>4. TypeOK'
    BY <1>0, <1>5, <2>1, <2>2, <2>3 DEF Close, TypeOK, RefTypeOK
  <2>5. QED
    BY <2>3, <2>4
<1>6. CASE ReleaseConnection(c)
  <2>1. ref' \in [Conn -> Nat]
    BY <1>0, <1>6 DEF ReleaseConnection, Release, Alive, RefTypeOK
  <2>2. CASE LastRelease(c)
    <3>1. PICK ok \in BOOLEAN : CloseHandle(c, ok)
      BY <1>6, <2>2 DEF ReleaseConnection
    <3>2. /\ db_' = [db_ EXCEPT ![c] = NULL]
          /\ UNCHANGED <<call, over>>
          /\ SawSession(c)
      BY <1>6, <2>2 DEF ReleaseConnection
    <3>3. LibTypeOK' /\ StmtHandleOpen' /\ HandleUnshared' /\ CallOnExisting'
      BY <1>4, <3>1, <3>2
    <3>4. ViewTypeOK'
      BY <1>0, <3>2, ViewType
    <3>5. QED
      BY <1>0, <2>1, <3>2, <3>3, <3>4 DEF TypeOK, RefTypeOK
  <2>3. CASE ~LastRelease(c)
    <3>1. UNCHANGED <<viewVars, libVars, driverVars>>
      BY <1>6, <2>3 DEF ReleaseConnection, SawNothing, driverVars
    <3>2. QED
      BY <1>0, <2>1, <3>1 DEF TypeOK, viewVars, libVars, driverVars, ViewTypeOK,
         RefTypeOK, LibTypeOK, StmtHandleOpen, HandleUnshared, CallOnExisting, Exists
  <2>4. QED
    BY <2>2, <2>3
<1>7. ASSUME UNCHANGED <<ref, driverVars>>, db_[c] # NULL, ViewTypeOK',
             NEW ok \in BOOLEAN, NEW h, h = db_[c],
             \/ exec_read(h, ok) \/ exec_write(h, ok) \/ exec_begin(h, ok)
             \/ exec_commit(h, ok) \/ exec_rollback(h, ok) \/ exec_pragma(ok)
      PROVE  IInv'
  <2>1. h \in Handle
    BY <1>0, <1>7
  <2>2. LibTypeOK'
    BY <1>0, <1>7, <2>1, ExecType
  <2>3. UNCHANGED <<native, stmt>>
    BY <1>7, <2>1, ExecFrame
  <2>4. StmtHandleOpen' /\ HandleUnshared' /\ CallOnExisting'
    BY <1>7, <2>3, Frame DEF driverVars, CallOnExisting
  <2>5. QED
    BY <1>0, <1>7, <2>2, <2>4 DEF TypeOK, RefTypeOK, driverVars
<1>8. CASE ExecuteRead(c)
  BY <1>0, <1>7, <1>8, ViewType DEF ExecuteRead
<1>9. CASE ExecuteWrite(c)
  BY <1>0, <1>7, <1>9, ViewType DEF ExecuteWrite
<1>10. CASE BeginTrans(c)
  BY <1>0, <1>7, <1>10, ViewType DEF BeginTrans
<1>11. CASE CommitTrans(c)
  BY <1>0, <1>7, <1>11, ViewType DEF CommitTrans
<1>12. CASE RollbackTrans(c)
  BY <1>0, <1>7, <1>12, ViewType DEF RollbackTrans
<1>13. CASE SetTransactionMode(c)
  BY <1>0, <1>7, <1>13, ViewType DEF SetTransactionMode
<1>14. QED
  BY <1>1, <1>2, <1>3, <1>5, <1>6, <1>8, <1>9, <1>10, <1>11, <1>12, <1>13
  DEF ConnStep

LEMMA NextIInv == IInv /\ [Next]_vars => IInv'
<1> SUFFICES ASSUME IInv, [Next]_vars PROVE IInv'
  OBVIOUS
<1>1. CASE Next
  BY <1>1, ConnStepIInv, ResultStepIInv DEF Next
<1>2. CASE UNCHANGED vars
  BY <1>2 DEF vars, IInv, TypeOK, RefTypeOK, ViewTypeOK, LibTypeOK,
     CallOnExisting, StmtHandleOpen, HandleUnshared, Exists
<1>3. QED
  BY <1>1, <1>2

THEOREM Invariance == Spec => []IInv
  BY InitIInv, NextIInv, PTL DEF Spec

\* Types, for every instance.
THEOREM TypeCorrect == Spec => []TypeOK
<1>1. IInv => TypeOK
  BY DEF IInv
<1>2. QED
  BY <1>1, Invariance, PTL

\* sqlite3_close never frees a handle some result set would still step:
\* neither an early release nor a second open can bring that about.
THEOREM StatementsOnOpenHandles == Spec => []StmtHandleOpen
<1>1. IInv => StmtHandleOpen
  BY DEF IInv
<1>2. QED
  BY <1>1, Invariance, PTL

\* No two connection objects come to share a sqlite3 handle, and the handle
\* of a connection object is open as long as the object has it.
THEOREM HandlesUnshared == Spec => []HandleUnshared
<1>1. IInv => HandleUnshared
  BY DEF IInv
<1>2. QED
  BY <1>1, Invariance, PTL

-----------------------------------------------------------------------------
(* The result sets implement Cursor pass by pass, and a write given to       *)
(* executeQuery takes effect once.                                           *)

(* What is known of a statement between the calls on it. *)
StmtInv(r) ==
  /\ stmt[r].at <= stmt[r].rows
  /\ stmt[r].write => stmt[r].rows = 0
  /\ stmt[r].vm = "ready" => stmt[r].at = 0
  /\ ~stmt[r].write => stmt[r].runs = 0
  /\ ~over[r] => stmt[r].runs <= 1
  /\ ~over[r] /\ call[r] # "finalize" => stmt[r].runs = 0
  /\ over[r] /\ InUse(r) => stmt[r].vm = "halted"
  /\ stmt[r].vm = "halted" /\ InUse(r) => over[r] \/ stmt[r].write

CInv == IInv /\ \A r \in RS : StmtInv(r)

LEMMA InitCInv == Init => CInv
<1> SUFFICES ASSUME Init PROVE CInv
  OBVIOUS
<1>1. IInv
  BY InitIInv
<1>2. ASSUME NEW r \in RS PROVE StmtInv(r)
  BY DEF Init, LibInit, NoStmt, StmtInv
<1>3. QED
  BY <1>1, <1>2 DEF CInv

\* What sqlite3_step does to the statement it steps when it returns rc.
LEMMA StepEffect ==
  ASSUME CInv, NEW r \in RS, NEW rc, sqlite3_step(r, rc)
  PROVE  /\ \A q \in RS \ {r} : stmt'[q] = stmt[q]
         /\ stmt'[r].on = stmt[r].on
         /\ stmt'[r].rows = stmt[r].rows
         /\ stmt'[r].write = stmt[r].write
         /\ rc = "ROW" => /\ ~stmt[r].write
                          /\ stmt'[r].vm = "row"
                          /\ stmt'[r].runs = stmt[r].runs
                          /\ stmt[r].vm # "halted" =>
                               /\ stmt[r].at < stmt[r].rows
                               /\ stmt'[r].at = stmt[r].at + 1
                          /\ stmt[r].vm = "halted" =>
                               /\ AutoReset
                               /\ 0 < stmt[r].rows
                               /\ stmt'[r].at = 1
         /\ rc = "DONE" => /\ stmt'[r].vm = "halted"
                           /\ stmt'[r].at = stmt[r].at
                           /\ stmt[r].at = stmt[r].rows
                           /\ ~stmt[r].write => stmt'[r].runs = stmt[r].runs
                           /\ stmt[r].runs = 0 => stmt'[r].runs <= 1
         /\ rc = "BUSY" => \/ stmt' = stmt
                           \/ /\ stmt[r].write
                              /\ stmt'[r].vm = "halted"
                              /\ stmt'[r].at = stmt[r].at
                              /\ stmt'[r].runs = stmt[r].runs
         /\ rc = "ERROR" => /\ Faults
                            /\ stmt'[r].vm = "halted"
                            /\ stmt'[r].at = stmt[r].at
                            /\ stmt'[r].runs = stmt[r].runs
         /\ rc = "MISUSE" => stmt' = stmt /\ stmt[r].vm = "halted"
<1>1. /\ stmt[r] \in Stmt /\ DOMAIN stmt = RS /\ StmtInv(r)
      /\ \A q \in RS \ {r} : stmt[q] \in Stmt
  BY DEF CInv, IInv, TypeOK, LibTypeOK
<1>2. Startable(r) => stmt[r].vm = "ready" \/ (stmt[r].vm = "halted" /\ AutoReset)
  BY DEF Startable
<1>3. CASE rc = "ROW"
  <2>1. StepRow(r)
    BY <1>3 DEF sqlite3_step
  <2>2. /\ stmt'[r].vm = "row"
        /\ stmt'[r].at = IF stmt[r].vm = "row" THEN stmt[r].at + 1 ELSE 1
        /\ stmt'[r].on = stmt[r].on /\ stmt'[r].rows = stmt[r].rows
        /\ stmt'[r].write = stmt[r].write /\ stmt'[r].runs = stmt[r].runs
        /\ \A q \in RS \ {r} : stmt'[q] = stmt[q]
    BY <1>1, <2>1 DEF StepRow, Stmt
  <2>3. ~stmt[r].write /\ \/ stmt[r].vm = "row" /\ stmt[r].at < stmt[r].rows
                          \/ Startable(r) /\ stmt[r].rows > 0
    BY <2>1 DEF StepRow
  <2>4. /\ stmt[r].vm # "halted" =>
             stmt[r].at < stmt[r].rows /\ stmt'[r].at = stmt[r].at + 1
        /\ stmt[r].vm = "halted" =>
             AutoReset /\ 0 < stmt[r].rows /\ stmt'[r].at = 1
    <3>1. CASE stmt[r].vm = "row"
      BY <1>1, <1>2, <2>2, <2>3, <3>1
    <3>2. CASE stmt[r].vm # "row"
      <4>1. Startable(r) /\ stmt[r].rows > 0 /\ stmt'[r].at = 1
        BY <2>2, <2>3, <3>2
      <4>2. stmt[r].rows \in Nat
        BY <1>1, LibAssumption DEF Stmt
      <4>3. stmt[r].vm = "ready" => stmt[r].at = 0
        BY <1>1 DEF StmtInv
      <4>4. QED
        BY <1>2, <4>1, <4>2, <4>3
    <3>3. QED
      BY <3>1, <3>2
  <2>5. QED
    BY <1>3, <2>2, <2>3, <2>4
<1>4. CASE rc = "DONE"
  <2>1. StepReadDone(r) \/ StepWriteDone(r)
    BY <1>4 DEF sqlite3_step
  <2>2. CASE StepReadDone(r)
    BY <1>1, <1>2, <1>4, <2>2 DEF StepReadDone, Stmt, StmtInv
  <2>3. CASE StepWriteDone(r)
    <3> DEFINE k == IF stmt[r].runs = 2 THEN 2 ELSE stmt[r].runs + 1
    <3>0. stmt[r].runs = 0 => k <= 1
      OBVIOUS
    <3>1. /\ stmt' = [stmt EXCEPT ![r].vm = "halted", ![r].runs = k]
          /\ stmt[r].write
      BY <2>3 DEF StepWriteDone
    <3> HIDE DEF k
    <3>2. /\ \A q \in RS \ {r} : stmt'[q] = stmt[q]
          /\ stmt'[r].on = stmt[r].on /\ stmt'[r].rows = stmt[r].rows
          /\ stmt'[r].write = stmt[r].write /\ stmt'[r].at = stmt[r].at
          /\ stmt'[r].vm = "halted" /\ stmt'[r].runs = k
      BY <1>1, <3>1 DEF Stmt
    <3>3. stmt[r].at = stmt[r].rows
      <4>1. stmt[r].at \in Nat /\ stmt[r].at <= 0
        BY <1>1, <3>1 DEF Stmt, StmtInv
      <4>2. QED
        BY <1>1, <3>1, <4>1 DEF StmtInv
    <3>4. QED
      BY <1>4, <3>0, <3>1, <3>2, <3>3
  <2>4. QED
    BY <2>1, <2>2, <2>3
<1>5. CASE rc = "BUSY"
  <2>1. StepBusy(r) \/ StepCommitBusy(r)
    BY <1>5 DEF sqlite3_step
  <2>2. CASE StepBusy(r)
    BY <1>5, <2>2 DEF StepBusy, libVars
  <2>3. CASE StepCommitBusy(r)
    BY <1>1, <1>2, <1>5, <2>3 DEF StepCommitBusy, StepCommitBlocked, Stmt
  <2>4. QED
    BY <2>1, <2>2, <2>3
<1>6. CASE rc = "ERROR"
  <2>1. StepError(r)
    BY <1>6 DEF sqlite3_step
  <2>2. /\ Faults
        /\ stmt' = [stmt EXCEPT ![r].vm = "halted"]
    BY <2>1 DEF StepError
  <2>3. QED
    BY <1>1, <1>6, <2>2 DEF Stmt
<1>7. CASE rc = "MISUSE"
  BY <1>7 DEF sqlite3_step, StepMisuse, libVars
<1>8. QED
  BY <1>3, <1>4, <1>5, <1>6, <1>7 DEF sqlite3_step

\* The operations of the connection leave every result set as it is.
LEMMA ConnStepResults ==
  ASSUME IInv, NEW c \in Conn, ConnStep(c)
  PROVE  UNCHANGED <<stmt, call, over>>
<1>0. db_[c] # NULL => db_[c] \in Handle
  BY DEF IInv, TypeOK
<1>1. CASE CreateConnection(c) \/ DuplicateConnection(c)
  BY <1>1 DEF CreateConnection, DuplicateConnection, libVars, driverVars
<1>2. CASE Open(c)
  BY <1>2 DEF Open, sqlite3_open
<1>3. ASSUME NEW ok, CloseHandle(c, ok) PROVE UNCHANGED stmt
  BY <1>3 DEF CloseHandle, sqlite3_close, libVars
<1>4. CASE Close(c)
  BY <1>3, <1>4 DEF Close
<1>5. CASE ReleaseConnection(c)
  BY <1>3, <1>5 DEF ReleaseConnection, libVars
<1>6. CASE \/ ExecuteRead(c) \/ ExecuteWrite(c) \/ BeginTrans(c)
           \/ CommitTrans(c) \/ RollbackTrans(c)
  BY <1>0, <1>6, ExecFrame DEF ExecuteRead, ExecuteWrite, BeginTrans,
     CommitTrans, RollbackTrans, driverVars
<1>7. CASE SetTransactionMode(c)
  BY <1>7 DEF SetTransactionMode, exec_pragma, libVars, driverVars
<1>8. QED
  BY <1>1, <1>2, <1>4, <1>5, <1>6, <1>7 DEF ConnStep

-----------------------------------------------------------------------------
(* Every step of a result set r keeps StmtInv and is a step of Cursor, or   *)
(* one that Cursor does not see.                                         *)

\* A result set no call touches looks the same and is as it was.
LEMMA Untouched ==
  ASSUME NEW q \in RS, StmtInv(q), stmt'[q] = stmt[q], call'[q] = call[q],
         over'[q] = over[q]
  PROVE  /\ StmtInv(q)'
         /\ CursorPhase'[q] = CursorPhase[q]
         /\ CursorRow'[q] = CursorRow[q]
         /\ CursorSize'[q] = CursorSize[q]
  BY DEF StmtInv, InUse, Exists, Closing, CursorPhase, CursorRow, CursorSize

\* A step that touches r only changes what Cursor sees at r only.
LEMMA OneChanges ==
  ASSUME CInv, NEW r \in RS,
         \A q \in RS \ {r} : /\ stmt'[q] = stmt[q]
                             /\ call'[q] = call[q]
                             /\ over'[q] = over[q]
  PROVE  /\ \A q \in RS \ {r} : StmtInv(q)'
         /\ CursorPhase' = [CursorPhase EXCEPT ![r] = CursorPhase'[r]]
         /\ CursorRow' = [CursorRow EXCEPT ![r] = CursorRow'[r]]
         /\ CursorSize' = [CursorSize EXCEPT ![r] = CursorSize'[r]]
<1>1. \A q \in RS \ {r} : /\ StmtInv(q)'
                           /\ CursorPhase'[q] = CursorPhase[q]
                           /\ CursorRow'[q] = CursorRow[q]
                           /\ CursorSize'[q] = CursorSize[q]
  BY Untouched DEF CInv
<1>2. CursorPhase' = [CursorPhase EXCEPT ![r] = CursorPhase'[r]]
  BY <1>1 DEF CursorPhase
<1>3. CursorRow' = [CursorRow EXCEPT ![r] = CursorRow'[r]]
  BY <1>1 DEF CursorRow
<1>4. CursorSize' = [CursorSize EXCEPT ![r] = CursorSize'[r]]
  BY <1>1 DEF CursorSize
<1>5. QED
  BY <1>1, <1>2, <1>3, <1>4

LEMMA ResultStepContract ==
  ASSUME CInv, NEW r \in RS, ResultStep(r)
  PROVE  /\ StmtInv(r)'
         /\ \A q \in RS \ {r} : StmtInv(q)'
         /\ [Passes!Next]_(Passes!vars)
<1> DEFINE Sees(p, n, m) == /\ CursorPhase[r] = p
                           /\ CursorRow[r] = n
                           /\ CursorSize[r] = m
           SeesNext(p, n, m) == /\ CursorPhase' = [CursorPhase EXCEPT ![r] = p]
                               /\ CursorRow' = [CursorRow EXCEPT ![r] = n]
                               /\ CursorSize' = [CursorSize EXCEPT ![r] = m]
<1>0. /\ StmtInv(r) /\ IInv /\ TypeOK /\ stmt \in [RS -> Stmt] /\ stmt[r] \in Stmt
      /\ call \in [RS -> {"idle", "next", "close", "finalize"}]
      /\ over \in [RS -> BOOLEAN]
      /\ call[r] # "idle" => Exists(r)
      /\ Thread[r] \in Conn
  BY DriverAssumption DEF CInv, IInv, TypeOK, LibTypeOK, CallOnExisting
<1>1. ASSUME NEW p, NEW n, NEW m, Sees(p, n, m),
             \A q \in RS \ {r} : /\ stmt'[q] = stmt[q]
                                 /\ call'[q] = call[q]
                                 /\ over'[q] = over[q],
             CursorPhase'[r] = p, CursorRow'[r] = n, CursorSize'[r] = m
      PROVE  UNCHANGED Passes!vars
  <2>1. SeesNext(p, n, m)
    BY <1>1, OneChanges
  <2>2. CursorPhase' = CursorPhase /\ CursorRow' = CursorRow /\ CursorSize' = CursorSize
    BY <1>1, <2>1 DEF CursorPhase, CursorRow, CursorSize
  <2>3. QED
    BY <2>2 DEF Passes!vars
<1>2. CASE Prepared(r)
  <2>1. PICK kind \in QueryKinds :
          \E n \in IF kind = "write" THEN {0} ELSE 0 .. MaxRows :
            sqlite3_prepare(db_[Thread[r]], r, kind = "write", n)
    BY <1>2 DEF Prepared
  <2>2. PICK n \in IF kind = "write" THEN {0} ELSE 0 .. MaxRows :
          sqlite3_prepare(db_[Thread[r]], r, kind = "write", n)
    BY <2>1
  <2>3. /\ n \in 0 .. MaxRows
        /\ kind = "write" => n = 0
        /\ ~Exists(r) /\ call[r] = "idle" /\ call' = call
        /\ over' = [over EXCEPT ![r] = FALSE]
        /\ db_[Thread[r]] # NULL
    BY <1>2, <2>2, LibAssumption DEF Prepared, MayCall, Idle
  <2>4. /\ stmt'[r] = [NoStmt EXCEPT !.on = db_[Thread[r]], !.rows = n,
                                     !.write = (kind = "write")]
        /\ \A q \in RS \ {r} : stmt'[q] = stmt[q]
    BY <1>0, <2>2 DEF sqlite3_prepare
  <2>5. /\ stmt'[r].on = db_[Thread[r]] /\ stmt'[r].rows = n
        /\ stmt'[r].write => kind = "write"
        /\ stmt'[r].at = 0 /\ stmt'[r].vm = "ready" /\ stmt'[r].runs = 0
        /\ n \in Nat /\ 0 <= n
    <3> DEFINE w == kind = "write"
               now == stmt'[r]
    <3>1. now = [NoStmt EXCEPT !.on = db_[Thread[r]], !.rows = n, !.write = w]
      BY <2>4
    <3>2. n \in Nat /\ 0 <= n
      BY <2>3, LibAssumption
    <3> HIDE DEF w, now
    <3>3. /\ now.on = db_[Thread[r]] /\ now.rows = n /\ now.write = w
          /\ now.at = 0 /\ now.vm = "ready" /\ now.runs = 0
      BY <3>1 DEF NoStmt
    <3>4. QED
      BY <3>2, <3>3 DEF w, now
  <2>6. over'[r] = FALSE /\ \A q \in RS \ {r} : over'[q] = over[q]
    BY <1>0, <2>3
  <2>7. StmtInv(r)'
    BY <2>3, <2>5, <2>6 DEF StmtInv
  <2>8. Sees("none", 0, 0) /\ \A q \in RS \ {r} : StmtInv(q)'
    BY <2>3, <2>4, <2>6, OneChanges DEF CursorPhase, CursorRow, CursorSize, InUse
  <2>9. CursorPhase'[r] = "open" /\ CursorRow'[r] = 0 /\ CursorSize'[r] = n
    BY <2>3, <2>5, <2>6
    DEF CursorPhase, CursorRow, CursorSize, InUse, Exists, Closing
  <2>10. SeesNext("open", 0, n)
    BY <2>3, <2>4, <2>6, <2>9, OneChanges
  <2>11. CursorRow' = CursorRow
    BY <2>8, <2>10 DEF CursorRow
  <2>12. Passes!Execute(r)
    BY <2>3, <2>8, <2>10, <2>11 DEF Passes!Execute
  <2>13. QED
    BY <2>7, <2>8, <2>12 DEF Passes!Next
<1>3. CASE CallNext(r)
  <2>1. /\ UNCHANGED <<stmt, over>> /\ call' = [call EXCEPT ![r] = "next"]
        /\ call[r] = "idle"
    BY <1>3 DEF CallNext, CallResult, Idle, libVars
  <2>2. /\ call'[r] = "next" /\ \A q \in RS \ {r} : call'[q] = call[q]
    BY <1>0, <2>1
  <2>3. InUse(r)' = InUse(r)
    BY <2>1, <2>2 DEF InUse, Exists, Closing
  <2>4. StmtInv(r)' /\ \A q \in RS \ {r} : StmtInv(q)'
    BY <1>0, <2>1, <2>2, <2>3, OneChanges DEF StmtInv
  <2>5. /\ CursorPhase'[r] = CursorPhase[r] /\ CursorRow'[r] = CursorRow[r]
        /\ CursorSize'[r] = CursorSize[r]
    BY <2>1, <2>3 DEF CursorPhase, CursorRow, CursorSize
  <2>6. UNCHANGED Passes!vars
    BY <1>1, <2>1, <2>2, <2>5
  <2>7. QED
    BY <2>4, <2>6
<1>4. CASE CallClose(r)
  <2>1. /\ UNCHANGED <<stmt, over>> /\ call' = [call EXCEPT ![r] = "close"]
        /\ call[r] = "idle" /\ Exists(r)
    BY <1>4 DEF CallClose, CallResult, Idle, libVars
  <2>2. /\ call'[r] = "close" /\ \A q \in RS \ {r} : call'[q] = call[q]
    BY <1>0, <2>1
  <2>3. InUse(r) /\ ~InUse(r)'
    BY <2>1, <2>2 DEF InUse, Exists, Closing
  <2>4. StmtInv(r)' /\ \A q \in RS \ {r} : StmtInv(q)'
    BY <1>0, <2>1, <2>2, <2>3, OneChanges DEF StmtInv
  <2>5. CursorPhase[r] # "none" /\ CursorPhase'[r] = "none"
        /\ CursorRow'[r] = 0 /\ CursorSize'[r] = 0
    BY <2>3 DEF CursorPhase, CursorRow, CursorSize
  <2>6. SeesNext("none", 0, 0)
    BY <2>1, <2>2, <2>5, OneChanges
  <2>7. Passes!Close(r)
    BY <2>5, <2>6 DEF Passes!Close
  <2>8. QED
    BY <2>4, <2>7 DEF Passes!Next
<1>5. CASE NextStep(r)
  <2>1. PICK rc \in StepCodes :
          /\ sqlite3_step(r, rc)
          /\ call' = IF rc = "BUSY" THEN call ELSE [call EXCEPT ![r] = "idle"]
          /\ over' = IF rc = "BUSY" THEN over ELSE [over EXCEPT ![r] = rc # "ROW"]
    BY <1>5 DEF NextStep
  <2>2. call[r] = "next" /\ Exists(r) /\ InUse(r)
    BY <1>0, <1>5 DEF NextStep, InUse, Closing
  <2>3. \A q \in RS \ {r} : stmt'[q] = stmt[q] /\ call'[q] = call[q] /\ over'[q] = over[q]
    BY <1>0, <2>1, StepEffect
  <2>4. call'[r] \in {"idle", "next"} /\ stmt'[r].on = stmt[r].on
    BY <1>0, <2>1, <2>2, StepEffect
  <2>5. InUse(r)'
    BY <2>2, <2>4 DEF InUse, Exists, Closing
  <2>6. over'[r] = IF rc = "BUSY" THEN over[r] ELSE rc # "ROW"
    BY <1>0, <2>1
  <2>7. StmtInv(r)' /\ \A q \in RS \ {r} : StmtInv(q)'
    <3>1. StmtInv(r)'
      <4>1. /\ stmt[r].at \in Nat /\ stmt[r].rows \in Nat
            /\ stmt'[r].write = stmt[r].write /\ stmt'[r].rows = stmt[r].rows
            /\ call[r] = "next"
        BY <1>0, <2>1, <2>2, StepEffect, LibAssumption DEF Stmt
      <4>2. CASE rc = "ROW"
        <5>1. /\ ~over'[r] /\ ~stmt[r].write /\ stmt[r].runs = 0
              /\ stmt'[r].vm = "row" /\ stmt'[r].runs = 0
          BY <1>0, <2>1, <2>6, <4>2, StepEffect DEF StmtInv
        <5>2. stmt'[r].at <= stmt'[r].rows
          BY <2>1, <4>1, <4>2, StepEffect
        <5>3. QED
          BY <4>1, <5>1, <5>2 DEF StmtInv
      <4>3. CASE rc = "DONE"
        BY <1>0, <2>1, <2>6, <4>1, <4>3, StepEffect DEF StmtInv
      <4>4. CASE rc = "ERROR"
        BY <1>0, <2>1, <2>6, <4>1, <4>4, StepEffect DEF StmtInv
      <4>5. CASE rc = "BUSY"
        <5>1. CASE stmt' = stmt
          BY <1>0, <2>2, <2>6, <4>5, <5>1 DEF StmtInv
        <5>2. CASE stmt' # stmt
          BY <1>0, <2>1, <2>6, <4>1, <4>5, <5>2, StepEffect DEF StmtInv
        <5>3. QED
          BY <5>1, <5>2
      <4>6. CASE rc = "MISUSE"
        BY <1>0, <2>1, <2>6, <4>1, <4>6, StepEffect DEF StmtInv
      <4>7. QED
        BY <4>2, <4>3, <4>4, <4>5, <4>6 DEF StepCodes
    <3>2. QED
      BY <2>3, <3>1, OneChanges
  <2>8. Sees(IF over[r] THEN "over" ELSE "open", stmt[r].at, stmt[r].rows)
    BY <2>2 DEF CursorPhase, CursorRow, CursorSize
  <2>9. /\ CursorPhase'[r] = IF over'[r] THEN "over" ELSE "open"
        /\ CursorRow'[r] = stmt'[r].at
        /\ CursorSize'[r] = stmt[r].rows
    BY <2>1, <2>5, StepEffect DEF CursorPhase, CursorRow, CursorSize
  <2>10. SeesNext(IF over'[r] THEN "over" ELSE "open", stmt'[r].at, stmt[r].rows)
    BY <2>3, <2>9, OneChanges
  <2>11. CursorSize' = CursorSize
    BY <2>8, <2>10 DEF CursorSize
  <2>12. CASE rc = "ROW" /\ stmt[r].vm # "halted"
    <3>1. /\ ~over[r] /\ ~over'[r]
          /\ stmt[r].at < stmt[r].rows /\ stmt'[r].at = stmt[r].at + 1
      BY <1>0, <2>1, <2>2, <2>6, <2>12, StepEffect DEF StmtInv
    <3>2. CursorPhase' = CursorPhase
      BY <2>8, <2>10, <3>1 DEF CursorPhase
    <3>3. Passes!Advance(r)
      BY <2>8, <2>10, <2>11, <3>1, <3>2 DEF Passes!Advance
    <3>4. QED
      BY <2>7, <3>3 DEF Passes!Next
  <2>20. CASE rc = "ROW" /\ stmt[r].vm = "halted"
    <3>1. /\ over[r] /\ ~over'[r] /\ AutoReset
          /\ 0 < stmt[r].rows /\ stmt'[r].at = 1
      BY <1>0, <2>1, <2>2, <2>6, <2>20, StepEffect DEF StmtInv
    <3>2. Passes!Again(r)
      BY <2>8, <2>10, <2>11, <3>1 DEF Passes!Again
    <3>3. QED
      BY <2>7, <3>2 DEF Passes!Next
  <2>13. CASE /\ over'[r] /\ ~over[r] /\ stmt'[r].at = stmt[r].at
              /\ stmt[r].at = stmt[r].rows \/ Faults
    <3>1. CursorRow' = CursorRow
      BY <2>8, <2>10, <2>13 DEF CursorRow
    <3>2. Passes!Finish(r)
      BY <2>8, <2>10, <2>11, <2>13, <3>1 DEF Passes!Finish
    <3>3. QED
      BY <2>7, <3>2 DEF Passes!Next
  <2>14. CASE over'[r] = over[r] /\ stmt'[r].at = stmt[r].at
    <3>1. UNCHANGED Passes!vars
      BY <1>1, <2>3, <2>8, <2>9, <2>14
    <3>2. QED
      BY <2>7, <3>1
  <2>15. rc = "DONE" \/ rc = "ERROR" =>
           /\ over'[r] /\ stmt'[r].at = stmt[r].at
           /\ stmt[r].at = stmt[r].rows \/ Faults
    BY <1>0, <2>1, <2>6, StepEffect DEF StmtInv
  <2>16. rc = "BUSY" => over'[r] = over[r] /\ stmt'[r].at = stmt[r].at
    BY <1>0, <2>1, <2>6, StepEffect
  <2>17. rc = "MISUSE" /\ ~over[r] =>
           /\ over'[r] /\ stmt'[r].at = stmt[r].at /\ stmt[r].at = stmt[r].rows
    BY <1>0, <2>1, <2>2, <2>6, StepEffect DEF StmtInv, Stmt
  <2>18. rc = "MISUSE" /\ over[r] => over'[r] = over[r] /\ stmt'[r].at = stmt[r].at
    BY <1>0, <2>1, <2>6, StepEffect
  <2>19. QED
    BY <1>0, <2>12, <2>13, <2>14, <2>15, <2>16, <2>17, <2>18, <2>20 DEF StepCodes
<1>6. CASE CloseStep(r)
  <2>1. PICK rc \in StepCodes :
          /\ sqlite3_step(r, rc)
          /\ call' = IF rc \in LoopEnds THEN [call EXCEPT ![r] = "finalize"]
                                        ELSE call
    BY <1>6 DEF CloseStep
  <2>2. call[r] = "close" /\ ~InUse(r) /\ over' = over
    BY <1>6 DEF CloseStep, InUse, Closing
  <2>3. \A q \in RS \ {r} : stmt'[q] = stmt[q] /\ call'[q] = call[q] /\ over'[q] = over[q]
    BY <1>0, <2>1, <2>2, StepEffect
  <2>4. ~InUse(r)'
    BY <1>0, <2>1, <2>2 DEF InUse, Closing
  <2>5. StmtInv(r)' /\ \A q \in RS \ {r} : StmtInv(q)'
    <3>1. StmtInv(r)'
      <4>1. /\ stmt[r].at \in Nat /\ stmt[r].rows \in Nat
            /\ stmt'[r].write = stmt[r].write /\ stmt'[r].rows = stmt[r].rows
            /\ call'[r] = IF rc \in LoopEnds THEN "finalize" ELSE "close"
        BY <1>0, <2>1, <2>2, StepEffect, LibAssumption DEF Stmt
      <4>2. CASE rc = "ROW"
        BY <1>0, <2>1, <2>2, <2>4, <4>1, <4>2, StepEffect DEF StmtInv
      <4>3. CASE rc = "DONE"
        BY <1>0, <2>1, <2>2, <2>4, <4>1, <4>3, StepEffect DEF StmtInv, LoopEnds
      <4>4. CASE rc = "ERROR"
        BY <1>0, <2>1, <2>2, <2>4, <4>1, <4>4, StepEffect DEF StmtInv, LoopEnds
      <4>5. CASE rc = "BUSY"
        <5>1. CASE stmt' = stmt
          BY <1>0, <2>2, <2>4, <4>5, <5>1 DEF StmtInv
        <5>2. CASE stmt' # stmt
          BY <1>0, <2>1, <2>2, <2>4, <4>1, <4>5, <5>2, StepEffect DEF StmtInv
        <5>3. QED
          BY <5>1, <5>2
      <4>6. CASE rc = "MISUSE"
        BY <1>0, <2>1, <2>2, <2>4, <4>1, <4>6, StepEffect DEF StmtInv
      <4>7. QED
        BY <4>2, <4>3, <4>4, <4>5, <4>6 DEF StepCodes
    <3>2. QED
      BY <2>3, <3>1, OneChanges
  <2>6. Sees("none", 0, 0)
    BY <2>2 DEF CursorPhase, CursorRow, CursorSize
  <2>7. CursorPhase'[r] = "none" /\ CursorRow'[r] = 0 /\ CursorSize'[r] = 0
    BY <2>4 DEF CursorPhase, CursorRow, CursorSize
  <2>8. QED
    BY <1>1, <2>3, <2>5, <2>6, <2>7
<1>7. CASE Finalize(r)
  <2>1. /\ call[r] = "finalize" /\ ~InUse(r)
        /\ call' = [call EXCEPT ![r] = "idle"]
        /\ over' = [over EXCEPT ![r] = FALSE]
        /\ stmt' = [stmt EXCEPT ![r] = NoStmt]
    BY <1>7 DEF Finalize, sqlite3_finalize, InUse, Closing
  <2>2. /\ \A q \in RS \ {r} : stmt'[q] = stmt[q] /\ call'[q] = call[q] /\ over'[q] = over[q]
        /\ stmt'[r] = NoStmt /\ over'[r] = FALSE
    BY <1>0, <2>1
  <2>3. ~InUse(r)'
    BY <2>2 DEF InUse, Exists, NoStmt
  <2>4. StmtInv(r)' /\ \A q \in RS \ {r} : StmtInv(q)'
    BY <2>2, OneChanges DEF StmtInv, NoStmt
  <2>5. Sees("none", 0, 0)
    BY <2>1 DEF CursorPhase, CursorRow, CursorSize
  <2>6. CursorPhase'[r] = "none" /\ CursorRow'[r] = 0 /\ CursorSize'[r] = 0
    BY <2>3 DEF CursorPhase, CursorRow, CursorSize
  <2>7. QED
    BY <1>1, <2>2, <2>4, <2>5, <2>6
<1>8. CASE NotPrepared(r)
  <2>1. UNCHANGED <<stmt, call, over>>
    BY <1>8 DEF NotPrepared, libVars, driverVars
  <2>2. StmtInv(r)' /\ \A q \in RS \ {r} : StmtInv(q)'
    BY <2>1, Untouched DEF CInv
  <2>3. InUse(r)' = InUse(r)
    BY <2>1 DEF InUse, Exists, Closing
  <2>4. UNCHANGED Passes!vars
    BY <1>1, <2>1, <2>3 DEF CursorPhase, CursorRow, CursorSize
  <2>5. QED
    BY <2>2, <2>4
<1>9. QED
  BY <1>2, <1>3, <1>4, <1>5, <1>6, <1>7, <1>8 DEF ResultStep, ExecuteQuery

LEMMA NextContract ==
  ASSUME CInv, [Next]_vars
  PROVE  CInv' /\ [Passes!Next]_(Passes!vars)
<1>1. IInv'
  BY NextIInv DEF CInv
<1>2. ASSUME UNCHANGED <<stmt, call, over>>
      PROVE  (\A r \in RS : StmtInv(r)') /\ UNCHANGED Passes!vars
  <2>1. \A r \in RS : StmtInv(r)'
    BY <1>2, Untouched DEF CInv
  <2>2. \A r \in RS : InUse(r)' = InUse(r)
    BY <1>2 DEF InUse, Exists, Closing
  <2>3. QED
    BY <1>2, <2>1, <2>2 DEF Passes!vars, CursorPhase, CursorRow, CursorSize
<1>3. CASE \E c \in Conn : ConnStep(c)
  BY <1>1, <1>2, <1>3, ConnStepResults DEF CInv
<1>4. CASE \E r \in RS : ResultStep(r)
  <2>1. PICK r \in RS : ResultStep(r)
    BY <1>4
  <2>2. QED
    BY <1>1, <2>1, ResultStepContract DEF CInv
<1>5. CASE UNCHANGED vars
  BY <1>1, <1>2, <1>5 DEF CInv, vars
<1>6. QED
  BY <1>3, <1>4, <1>5 DEF Next

\* next() takes a client of sqlite3_db.cpp from the first row of the result to
\* the last, and is false there: with a library that restarts statements in
\* every pass, with one that does not in the only pass there is.
THEOREM PassesKept == Spec => CursorPasses
<1>1. Init => CInv /\ Passes!Init
  <2> SUFFICES ASSUME Init PROVE Passes!Init
    BY InitCInv
  <2>1. \A r \in RS : ~InUse(r)
    BY DEF Init, LibInit, NoStmt, InUse, Exists
  <2>2. QED
    BY <2>1 DEF Passes!Init, CursorPhase, CursorRow, CursorSize
<1>2. CInv /\ [Next]_vars => CInv' /\ [Passes!Next]_(Passes!vars)
  BY NextContract
<1>3. QED
  BY <1>1, <1>2, PTL DEF Spec, CursorPasses, Passes!Spec

\* A write given to executeQuery takes effect once at most before next() has
\* said that it is over, whoever runs it and however often it was busy.
THEOREM EffectsOnce == Spec => []EffectOnce
<1>1. CInv /\ [Next]_vars => CInv'
  BY NextContract
<1>2. CInv => EffectOnce
  BY DEF CInv, StmtInv, EffectOnce
<1>3. QED
  BY <1>1, <1>2, InitCInv, PTL DEF Spec

-----------------------------------------------------------------------------
(* What a library call does to the transaction and the lock of a handle.   *)

\* A transaction is one of an open handle, and holds whatever waits there.
Clean ==
  \A h \in Handle :
    /\ tx[h] => native[h] = "open"
    /\ ~tx[h] => dirty[h] = 0

\* Only a transaction or a statement in the middle of its rows holds a lock.
LocksHeld == \A h \in Handle : lock[h] # NONE => tx[h] \/ Running(h)

\* A statement that writes returns no rows.
NoRowOfWrite == \A r \in RS : stmt[r].write => stmt[r].vm # "row"

Settled == Clean /\ LocksHeld /\ NoRowOfWrite

\* Nothing but h is touched.
Spared(h) ==
  \A g \in Handle \ {h} :
    lock'[g] = lock[g] /\ tx'[g] = tx[g] /\ dirty'[g] = dirty[g]

LEMMA ExecSpares ==
  ASSUME LibTypeOK, NEW h \in Handle, NEW ok \in BOOLEAN,
         \/ exec_read(h, ok) \/ exec_write(h, ok) \/ exec_begin(h, ok)
         \/ exec_commit(h, ok) \/ exec_rollback(h, ok) \/ exec_pragma(ok)
  PROVE  Spared(h)
<1>1. CASE UNCHANGED libVars
  BY <1>1 DEF Spared, libVars
<1>2. CASE AutoRollback(h)
  BY <1>2 DEF AutoRollback, Undo, Spared, LibTypeOK
<1>3. CASE exec_write(h, ok)
  BY <1>1, <1>2, <1>3 DEF exec_write, WriteTakesEffect, Spared, LibTypeOK
<1>4. CASE exec_commit(h, ok)
  BY <1>1, <1>2, <1>4 DEF exec_commit, Spared, LibTypeOK
<1>5. CASE exec_read(h, ok) \/ exec_begin(h, ok)
  BY <1>5 DEF exec_read, exec_begin, Spared, LibTypeOK
<1>6. CASE exec_rollback(h, ok)
  BY <1>6 DEF exec_rollback, Undo, Spared, LibTypeOK
<1>7. QED
  BY <1>1, <1>3, <1>4, <1>5, <1>6 DEF exec_pragma

LEMMA StepSpares ==
  ASSUME LibTypeOK, NEW r \in RS, NEW rc, sqlite3_step(r, rc)
  PROVE  /\ Spared(stmt[r].on)
         /\ \A q \in RS \ {r} : stmt'[q] = stmt[q]
<1> DEFINE h == stmt[r].on
<1>1. CASE StepBusy(r) \/ StepMisuse(r)
  BY <1>1 DEF StepBusy, StepMisuse, libVars, Spared
<1>2. CASE StepRow(r) \/ StepReadDone(r)
  BY <1>2 DEF StepRow, StepReadDone, Spared, LibTypeOK
<1>3. CASE StepWriteDone(r)
  BY <1>3 DEF StepWriteDone, WriteTakesEffect, Spared, LibTypeOK
<1>4. CASE StepCommitBusy(r)
  BY <1>4 DEF StepCommitBusy, Spared, LibTypeOK
<1>5. CASE StepError(r)
  <2>1. \A q \in RS \ {r} : stmt'[q] = stmt[q]
    BY <1>5 DEF StepError, LibTypeOK
  <2>2. CASE AutoRollback(h)
    BY <2>1, <2>2 DEF AutoRollback, Undo, Spared, LibTypeOK
  <2>3. CASE ~AutoRollback(h)
    BY <1>5, <2>1, <2>3 DEF StepError, Spared, LibTypeOK
  <2>4. QED
    BY <2>2, <2>3
<1>6. QED
  BY <1>1, <1>2, <1>3, <1>4, <1>5 DEF sqlite3_step

\* What the lock of h is after a transaction ended is what its statements hold.
LEMMA ExecSettled ==
  ASSUME LibTypeOK, Settled, NEW h \in Handle, native[h] = "open",
         NEW ok \in BOOLEAN,
         \/ exec_read(h, ok) \/ exec_write(h, ok) \/ exec_begin(h, ok)
         \/ exec_commit(h, ok) \/ exec_rollback(h, ok) \/ exec_pragma(ok)
  PROVE  Settled'
<1>0. /\ Spared(h) /\ UNCHANGED <<native, stmt>>
      /\ LibTypeOK'
      /\ \A g \in Handle : Running(g)' = Running(g)
  BY ExecSpares, ExecFrame, ExecType DEF Running
<1> DEFINE Mine == /\ ~tx'[h] => dirty'[h] = 0
                   /\ lock'[h] # NONE => tx'[h] \/ Running(h)
<1>1. Mine
  <2>1. CASE UNCHANGED libVars
    BY <2>1 DEF libVars, Settled, Clean, LocksHeld
  <2>2. CASE AutoRollback(h)
    BY <2>2 DEF AutoRollback, Undo, LibTypeOK
  <2>3. CASE exec_write(h, ok)
    BY <2>1, <2>2, <2>3 DEF exec_write, WriteTakesEffect, LibTypeOK, Settled, Clean,
       LocksHeld
  <2>4. CASE exec_commit(h, ok)
    BY <2>1, <2>2, <2>4 DEF exec_commit, LibTypeOK, Settled, Clean, LocksHeld
  <2>5. CASE exec_read(h, ok) \/ exec_begin(h, ok)
    BY <2>5 DEF exec_read, exec_begin, LibTypeOK, Settled, Clean, LocksHeld
  <2>6. CASE exec_rollback(h, ok)
    BY <2>6 DEF exec_rollback, Undo, LibTypeOK, Settled, LocksHeld
  <2>7. QED
    BY <2>1, <2>3, <2>4, <2>5, <2>6 DEF exec_pragma
<1>2. Clean' /\ LocksHeld'
  BY <1>0, <1>1 DEF Spared, Settled, Clean, LocksHeld
<1>3. QED
  BY <1>0, <1>2 DEF Settled, NoRowOfWrite

\* Statements of h other than r run as before.
LEMMA RunningOthers ==
  ASSUME NEW r \in RS, NEW h,
         \A q \in RS \ {r} : stmt'[q] = stmt[q]
  PROVE  /\ RunningBut(h, r)' = RunningBut(h, r)
         /\ Running(h) <=> RunningBut(h, r) \/ (stmt[r].on = h /\ stmt[r].vm = "row")
         /\ Running(h)' <=> RunningBut(h, r) \/ (stmt'[r].on = h /\ stmt'[r].vm = "row")
  BY DEF RunningBut, Running

LEMMA StepSettled ==
  ASSUME LibTypeOK, Settled, NEW r \in RS, stmt[r].on \in Handle,
         native[stmt[r].on] = "open", NEW rc, sqlite3_step(r, rc)
  PROVE  Settled'
<1>h. PICK h \in Handle : h = stmt[r].on
  OBVIOUS
<1>0. /\ Spared(h) /\ UNCHANGED native
      /\ \A q \in RS \ {r} : stmt'[q] = stmt[q]
      /\ \A q \in RS : stmt'[q].on = stmt[q].on
      /\ stmt[r] \in Stmt
  BY <1>h, StepSpares, StepFrame DEF LibTypeOK
<1>a. /\ Running(h) <=> RunningBut(h, r) \/ stmt[r].vm = "row"
      /\ Running(h)' <=> RunningBut(h, r) \/ stmt'[r].vm = "row"
      /\ \A g \in Handle \ {h} : Running(g)' <=> Running(g)
  <2>1. \A g \in Handle :
          /\ Running(g) <=> RunningBut(g, r) \/ (h = g /\ stmt[r].vm = "row")
          /\ Running(g)' <=> RunningBut(g, r) \/ (h = g /\ stmt'[r].vm = "row")
    BY <1>0, <1>h, RunningOthers
  <2>2. QED
    BY <2>1
<1>b. SettledLock(h, r) # NONE => tx[h] \/ RunningBut(h, r)
  BY DEF SettledLock
<1> DEFINE Mine == /\ ~tx'[h] => dirty'[h] = 0
                   /\ lock'[h] # NONE => tx'[h] \/ RunningBut(h, r) \/ stmt'[r].vm = "row"
                   /\ stmt'[r].write => stmt'[r].vm # "row"
<1>1. Mine
  <2>1. CASE StepBusy(r) \/ StepMisuse(r)
    BY <1>h, <2>1, <1>a DEF StepBusy, StepMisuse, libVars, Settled, Clean, LocksHeld,
       NoRowOfWrite
  <2>2. CASE StepRow(r)
    <3>1. stmt'[r].vm = "row" /\ stmt'[r].write = stmt[r].write
      BY <1>h, <1>0, <2>2 DEF StepRow, LibTypeOK, Stmt
    <3>2. QED
      BY <1>h, <2>2, <3>1 DEF StepRow, Settled, Clean
  <2>3. CASE StepReadDone(r)
    <3>1. stmt'[r].vm = "halted"
      BY <1>h, <1>0, <2>3 DEF StepReadDone, LibTypeOK, Stmt
    <3>2. lock'[h] = SettledLock(h, r)
      BY <1>h, <2>3 DEF StepReadDone, LibTypeOK
    <3>3. QED
      BY <1>h, <2>3, <1>b, <3>1, <3>2 DEF StepReadDone, Settled, Clean
  <2>4. CASE StepWriteDone(r)
    <3>1. stmt'[r].vm = "halted"
      <4>1. PICK n \in 0 .. 2 : stmt' = [stmt EXCEPT ![r].vm = "halted", ![r].runs = n]
        BY <1>h, <1>0, <2>4, StmtUpdates DEF StepWriteDone
      <4>2. QED
        BY <1>0, <4>1 DEF LibTypeOK, Stmt
    <3>2. stmt[r].vm # "row"
      BY <1>h, <2>4 DEF StepWriteDone, Settled, NoRowOfWrite
    <3>3. QED
      BY <1>h, <2>4, <1>a, <3>1, <3>2 DEF StepWriteDone, WriteTakesEffect, LibTypeOK,
         Settled, Clean, LocksHeld
  <2>5. CASE StepCommitBusy(r)
    <3>1. stmt'[r].vm = "halted"
      BY <1>h, <1>0, <2>5 DEF StepCommitBusy, LibTypeOK, Stmt
    <3>2. stmt[r].vm # "row"
      BY <1>h, <2>5 DEF StepCommitBusy, StepCommitBlocked, Settled, NoRowOfWrite
    <3>3. QED
      BY <1>h, <2>5, <1>a, <3>1, <3>2 DEF StepCommitBusy, Settled, Clean, LocksHeld
  <2>6. CASE StepError(r)
    <3>1. stmt'[r].vm = "halted"
      BY <1>h, <1>0, <2>6 DEF StepError, LibTypeOK, Stmt
    <3>2. CASE stmt[r].write /\ AutoRollback(h)
      <4>1. Running(h) => RunningBut(h, r)
        BY <1>a, <3>2 DEF Settled, NoRowOfWrite
      <4>2. QED
        BY <1>h, <3>1, <3>2, <4>1 DEF AutoRollback, Undo, LibTypeOK
    <3>3. CASE ~(stmt[r].write /\ AutoRollback(h))
      <4>1. /\ lock' = IF stmt[r].vm = "row"
                         THEN [lock EXCEPT ![h] = SettledLock(h, r)] ELSE lock
            /\ UNCHANGED <<tx, dirty>>
        BY <1>h, <2>6, <3>3 DEF StepError
      <4>2. lock'[h] # NONE => tx[h] \/ RunningBut(h, r)
        BY <1>h, <1>a, <1>b, <4>1 DEF LibTypeOK, Settled, LocksHeld
      <4>3. QED
        BY <3>1, <4>1, <4>2 DEF Settled, Clean
    <3>4. QED
      BY <3>2, <3>3
  <2>7. QED
    BY <2>1, <2>2, <2>3, <2>4, <2>5, <2>6 DEF sqlite3_step
<1>2. Clean' /\ LocksHeld'
  BY <1>h, <1>0, <1>a, <1>1 DEF Spared, Settled, Clean, LocksHeld
<1>3. NoRowOfWrite'
  BY <1>0, <1>1 DEF Settled, NoRowOfWrite
<1>4. QED
  BY <1>2, <1>3 DEF Settled

\* A step that returns no row leaves no statement in the middle of its rows
\* that was not there; what a write does to h, a client may count on.
LEMMA StepLeaves ==
  ASSUME LibTypeOK, NEW r \in RS, stmt[r].on \in Handle, NEW rc,
         sqlite3_step(r, rc)
  PROVE  /\ rc # "ROW" => stmt'[r].vm \in {stmt[r].vm, "halted"}
         /\ stmt'[r].write = stmt[r].write
         /\ tx'[stmt[r].on] =>
              tx[stmt[r].on] /\ dirty[stmt[r].on] <= dirty'[stmt[r].on]
         /\ committed <= committed'
         /\ ~stmt[r].write => UNCHANGED <<tx, dirty, committed>>
<1>h. PICK h \in Handle : h = stmt[r].on
  OBVIOUS
<1>0. stmt[r] \in Stmt /\ dirty[h] \in Nat /\ committed \in Nat
  BY DEF LibTypeOK
<1>1. CASE StepBusy(r) \/ StepMisuse(r)
  BY <1>h, <1>0, <1>1 DEF StepBusy, StepMisuse, libVars
<1>2. CASE rc = "ROW" /\ StepRow(r)
  <2>1. stmt'[r].write = stmt[r].write
    BY <1>0, <1>2 DEF StepRow, LibTypeOK, Stmt
  <2>2. QED
    BY <1>h, <1>0, <1>2, <2>1 DEF StepRow
<1>3. CASE StepReadDone(r)
  BY <1>h, <1>0, <1>3 DEF StepReadDone, LibTypeOK, Stmt
<1>4. CASE StepWriteDone(r)
  <2>1. PICK n \in 0 .. 2 : stmt' = [stmt EXCEPT ![r].vm = "halted", ![r].runs = n]
    BY <1>0, <1>4, StmtUpdates DEF StepWriteDone
  <2>2. stmt'[r].vm = "halted" /\ stmt'[r].write = stmt[r].write
    BY <1>0, <2>1 DEF LibTypeOK, Stmt
  <2>3. WriteTakesEffect(h) /\ UNCHANGED tx /\ stmt[r].write
    BY <1>h, <1>4 DEF StepWriteDone
  <2>4. committed <= committed' /\ dirty[h] <= dirty'[h]
    BY <1>0, <2>3 DEF WriteTakesEffect, LibTypeOK
  <2>5. QED
    BY <1>h, <2>2, <2>3, <2>4
<1>5. CASE StepCommitBusy(r)
  BY <1>h, <1>0, <1>5 DEF StepCommitBusy, LibTypeOK, Stmt
<1>6. CASE StepError(r)
  <2>1. stmt'[r].vm = "halted" /\ stmt'[r].write = stmt[r].write
    BY <1>0, <1>6 DEF StepError, LibTypeOK, Stmt
  <2>2. CASE stmt[r].write /\ AutoRollback(h)
    BY <1>h, <1>0, <2>1, <2>2 DEF AutoRollback, Undo, LibTypeOK
  <2>3. CASE ~(stmt[r].write /\ AutoRollback(h))
    BY <1>h, <1>0, <1>6, <2>1, <2>3 DEF StepError
  <2>4. QED
    BY <2>2, <2>3
<1>7. QED
  BY <1>1, <1>2, <1>3, <1>4, <1>5, <1>6 DEF sqlite3_step

\* Where the loops of next() and close() end, the statement has halted.
LEMMA StepEnds ==
  ASSUME LibTypeOK, NEW r \in RS, NEW rc, rc \notin {"ROW", "BUSY"},
         sqlite3_step(r, rc)
  PROVE  stmt'[r].vm = "halted"
<1>0. stmt[r] \in Stmt
  BY DEF LibTypeOK
<1>1. CASE StepReadDone(r) \/ StepError(r)
  BY <1>0, <1>1 DEF StepReadDone, StepError, LibTypeOK, Stmt
<1>2. CASE StepWriteDone(r)
  <2>1. PICK n \in 0 .. 2 : stmt' = [stmt EXCEPT ![r].vm = "halted", ![r].runs = n]
    BY <1>0, <1>2, StmtUpdates DEF StepWriteDone
  <2>2. QED
    BY <1>0, <2>1 DEF LibTypeOK, Stmt
<1>3. CASE StepMisuse(r)
  BY <1>3 DEF StepMisuse, libVars
<1>4. QED
  BY <1>1, <1>2, <1>3 DEF sqlite3_step

-----------------------------------------------------------------------------
(* The calls on a connection, by what they do to its handle.               *)

\* db_ gets a new handle, or NULL where that failed.
Opens(c) ==
  /\ \E h \in Handle, ok \in BOOLEAN :
       /\ sqlite3_open(h, ok)
       /\ db_' = [db_ EXCEPT ![c] = IF ok THEN h ELSE NULL]
  /\ SawSession(c)

\* db_ is given back, or, by the destructor, lost.
Closes(c) ==
  /\ \E ok \in BOOLEAN : CloseHandle(c, ok)
  /\ db_' = [db_ EXCEPT ![c] = NULL]
  /\ SawSession(c)

\* Nothing happens to a handle.
Rests(c) == UNCHANGED <<viewVars, libVars, db_>>

\* An object that is deleted, or not constructed yet, has no handle.
DeadHoldNone == \A c \in Conn : ~Alive(c) => db_[c] = NULL

\* One sqlite3_exec, and what the client makes of its result.
Executes(c, ok) ==
  /\ db_[c] # NULL
  /\ UNCHANGED db_
  /\ \/ exec_read(db_[c], ok) /\ SawResult(c, ok)
     \/ exec_write(db_[c], ok) /\ SawWrite(c, ok)
     \/ exec_begin(db_[c], ok) /\ SawBegin(c, ok)
     \/ exec_commit(db_[c], ok) /\ SawCommit(c, ok)
     \/ exec_rollback(db_[c], ok) /\ SawRollback(c, ok)
     \/ exec_pragma(ok) /\ SawResult(c, ok)

\* The calls that come to one sqlite3_exec.
Executing(c) ==
  \/ ExecuteRead(c) \/ ExecuteWrite(c) \/ BeginTrans(c) \/ CommitTrans(c)
  \/ RollbackTrans(c) \/ SetTransactionMode(c)

LEMMA ExecutingExecutes ==
  ASSUME NEW c \in Conn, Executing(c)
  PROVE  UNCHANGED <<ref, call, over>> /\ \E ok \in BOOLEAN : Executes(c, ok)
<1>1. CASE ExecuteRead(c) \/ ExecuteWrite(c) \/ BeginTrans(c) \/ CommitTrans(c)
  BY <1>1 DEF ExecuteRead, ExecuteWrite, BeginTrans, CommitTrans, Executes, driverVars
<1>2. CASE RollbackTrans(c) \/ SetTransactionMode(c)
  BY <1>2 DEF RollbackTrans, SetTransactionMode, Executes, driverVars
<1>3. QED
  BY <1>1, <1>2 DEF Executing

LEMMA ConnStepKinds ==
  ASSUME TypeOK, DeadHoldNone, NEW c \in Conn, ConnStep(c)
  PROVE  /\ UNCHANGED <<call, over>>
         /\ DeadHoldNone'
         /\ \/ Opens(c) \/ Closes(c) \/ Rests(c)
            \/ \E ok \in BOOLEAN : Executes(c, ok)
<1>0. ref \in [Conn -> Nat] /\ db_ \in [Conn -> Handle \cup {NULL}]
  BY DEF TypeOK, RefTypeOK
<1>a. ASSUME UNCHANGED ref, Alive(c), \A d \in Conn \ {c} : db_'[d] = db_[d]
      PROVE  DeadHoldNone'
  BY <1>a DEF DeadHoldNone, Alive
<1>1. CASE CreateConnection(c) \/ DuplicateConnection(c)
  <2>1. UNCHANGED <<viewVars, libVars, call, over>>
    BY <1>1 DEF CreateConnection, DuplicateConnection, driverVars, SawNothing
  <2>2. UNCHANGED db_
    BY <1>0, <1>1 DEF CreateConnection, DuplicateConnection, driverVars, DeadHoldNone,
       Construct, Alive
  <2>3. \A d \in Conn : Alive(d) => Alive(d)'
    BY <1>0, <1>1 DEF CreateConnection, DuplicateConnection, Construct, Duplicate, Alive
  <2>4. QED
    BY <2>1, <2>2, <2>3 DEF Rests, DeadHoldNone
<1>2. CASE Open(c)
  BY <1>0, <1>2, <1>a DEF Open, Opens, MayCall
<1>3. CASE Close(c)
  <2>1. PICK ok \in BOOLEAN :
          /\ CloseHandle(c, ok)
          /\ db_' = IF ok THEN [db_ EXCEPT ![c] = NULL] ELSE db_
          /\ IF ok THEN SawSession(c) ELSE SawNothing
    BY <1>3 DEF Close
  <2>2. ~ok => UNCHANGED libVars
    BY <2>1 DEF CloseHandle, sqlite3_close
  <2>3. DeadHoldNone'
    BY <1>0, <1>3, <1>a, <2>1 DEF Close, MayCall
  <2>4. QED
    BY <1>3, <2>1, <2>2, <2>3 DEF Close, Closes, Rests, SawNothing
<1>4. CASE ReleaseConnection(c)
  <2>1. \A d \in Conn : (Alive(d) <=> Alive(d)') \/ (d = c /\ LastRelease(c))
    BY <1>0, <1>4 DEF ReleaseConnection, Release, LastRelease, Alive
  <2>2. IF LastRelease(c) THEN db_' = [db_ EXCEPT ![c] = NULL] ELSE UNCHANGED db_
    BY <1>4 DEF ReleaseConnection
  <2>3. DeadHoldNone'
    BY <1>0, <2>1, <2>2 DEF DeadHoldNone
  <2>4. QED
    BY <1>4, <2>3 DEF ReleaseConnection, Closes, Rests, SawNothing
<1>5. CASE Executing(c)
  <2>1. Alive(c)
    BY <1>5 DEF Executing, ExecuteRead, ExecuteWrite, BeginTrans, CommitTrans,
       RollbackTrans, SetTransactionMode, MayCall
  <2>2. QED
    BY <1>5, <1>a, <2>1, ExecutingExecutes DEF Executes
<1>6. QED
  BY <1>1, <1>2, <1>3, <1>4, <1>5 DEF ConnStep, Executing

\* What is true of the handles in use, for Opens and Closes.
LEMMA FreshHandle ==
  ASSUME IInv, Clean, NEW h \in Handle, native[h] = "free"
  PROVE  /\ ~tx[h]
         /\ \A r \in RS : stmt[r].on # h
         /\ \A c \in Conn : db_[c] # h
  BY LibAssumption DEF IInv, Clean, StmtHandleOpen, HandleUnshared, Exists

LEMMA CloseSpares ==
  ASSUME IInv, NEW c \in Conn, NEW ok \in BOOLEAN, CloseHandle(c, ok)
  PROVE  /\ UNCHANGED <<stmt, committed>>
         /\ \A g \in Handle \ {db_[c]} :
              /\ native'[g] = native[g] /\ lock'[g] = lock[g]
              /\ tx'[g] = tx[g] /\ dirty'[g] = dirty[g]
         /\ \/ UNCHANGED libVars
            \/ /\ ok /\ db_[c] # NULL
               /\ ~tx'[db_[c]] /\ dirty'[db_[c]] = 0 /\ lock'[db_[c]] = NONE
  BY DEF IInv, TypeOK, LibTypeOK, CloseHandle, sqlite3_close, Undo, libVars
-----------------------------------------------------------------------------
(* Whose statements and locks they are.                                    *)

\* A statement on the handle of a connection is one of that connection's thread.
StmtOfThread ==
  \A r \in RS, c \in Conn : Exists(r) /\ stmt[r].on = db_[c] => Thread[r] = c

\* What next() has reported as over reads no row, until close() steps it again.
OverHalted ==
  \A r \in RS : over[r] /\ call[r] \in {"idle", "next"} => stmt[r].vm # "row"

LInv == Settled /\ DeadHoldNone /\ StmtOfThread /\ OverHalted

LEMMA InitLInv == Init => LInv
  BY DEF Init, LibInit, LInv, Settled, Clean, LocksHeld, NoRowOfWrite, Running,
     DeadHoldNone, StmtOfThread, OverHalted, Exists, NoStmt

LEMMA ConnStepLInv ==
  ASSUME IInv, LInv, NEW c \in Conn, ConnStep(c)
  PROVE  LInv'
<1>0. /\ LibTypeOK /\ Settled /\ Clean /\ LocksHeld /\ NoRowOfWrite
      /\ db_ \in [Conn -> Handle \cup {NULL}]
      /\ db_[c] # NULL => db_[c] \in Handle /\ native[db_[c]] = "open"
      /\ UNCHANGED <<call, over>> /\ DeadHoldNone'
  BY ConnStepKinds DEF IInv, TypeOK, LInv, Settled, HandleUnshared
<1>1. CASE Opens(c)
  <2>1. PICK h \in Handle, ok \in BOOLEAN :
          /\ sqlite3_open(h, ok)
          /\ db_' = [db_ EXCEPT ![c] = IF ok THEN h ELSE NULL]
    BY <1>1 DEF Opens
  <2>2. /\ native[h] = "free" /\ UNCHANGED <<stmt, lock, tx, dirty>>
        /\ \A g \in Handle \ {h} : native'[g] = native[g]
    BY <1>0, <2>1 DEF sqlite3_open, LibTypeOK
  <2>3. ~tx[h] /\ \A r \in RS : stmt[r].on # h
    BY <1>0, <2>2, FreshHandle
  <2>4. Settled'
    BY <1>0, <2>2, <2>3 DEF Settled, Clean, LocksHeld, NoRowOfWrite, Running
  <2>5. \A d \in Conn : db_'[d] \in {db_[d], h, NULL}
    BY <1>0, <2>1
  <2>6. QED
    BY <1>0, <2>2, <2>3, <2>4, <2>5 DEF LInv, StmtOfThread, OverHalted, Exists
<1>2. CASE Closes(c)
  <2>1. PICK ok \in BOOLEAN : CloseHandle(c, ok)
    BY <1>2 DEF Closes
  <2>2. /\ UNCHANGED stmt
        /\ \A g \in Handle \ {db_[c]} :
             native'[g] = native[g] /\ lock'[g] = lock[g]
             /\ tx'[g] = tx[g] /\ dirty'[g] = dirty[g]
        /\ \/ UNCHANGED libVars
           \/ ~tx'[db_[c]] /\ dirty'[db_[c]] = 0 /\ lock'[db_[c]] = NONE
    BY <2>1, CloseSpares
  <2>3. Settled'
    BY <1>0, <2>2 DEF Settled, Clean, LocksHeld, NoRowOfWrite, Running, libVars
  <2>4. \A d \in Conn : db_'[d] \in {db_[d], NULL}
    BY <1>0, <1>2 DEF Closes
  <2>5. QED
    BY <1>0, <2>2, <2>3, <2>4 DEF LInv, StmtOfThread, OverHalted, Exists
<1>3. CASE Rests(c)
  <2>1. UNCHANGED <<libVars, db_>>
    BY <1>3 DEF Rests
  <2>2. QED
    BY <1>0, <2>1 DEF libVars, LInv, Settled, Clean, LocksHeld, NoRowOfWrite,
       Running, StmtOfThread, OverHalted, Exists
<1>4. ASSUME NEW ok \in BOOLEAN, Executes(c, ok)
      PROVE  LInv'
  <2>1. PICK h \in Handle : h = db_[c] /\ native[h] = "open"
    BY <1>0, <1>4 DEF Executes
  <2>2. Settled' /\ UNCHANGED <<stmt, db_>>
    BY <1>0, <1>4, <2>1, ExecSettled, ExecFrame DEF Executes
  <2>3. QED
    BY <1>0, <2>2 DEF LInv, StmtOfThread, OverHalted, Exists
<1>5. QED
  BY <1>1, <1>2, <1>3, <1>4, ConnStepKinds DEF IInv, LInv

LEMMA ResultStepLInv ==
  ASSUME IInv, LInv, NEW r \in RS, ResultStep(r)
  PROVE  LInv'
<1>0. /\ LibTypeOK /\ Settled /\ Clean /\ LocksHeld /\ NoRowOfWrite
      /\ Thread[r] \in Conn
      /\ call \in [RS -> {"idle", "next", "close", "finalize"}]
      /\ over \in [RS -> BOOLEAN]
      /\ Exists(r) => stmt[r].on \in Handle /\ native[stmt[r].on] = "open"
      /\ UNCHANGED db_ /\ DeadHoldNone'
  BY DriverAssumption DEF IInv, TypeOK, LInv, Settled, StmtHandleOpen, LibTypeOK, Stmt,
     DeadHoldNone, Alive, Exists, ResultStep, ExecuteQuery, Prepared, NotPrepared,
     libVars, driverVars, CallNext, CallClose, CallResult, NextStep, CloseStep, Finalize
<1>1. CASE Prepared(r)
  <2>1. PICK h \in Handle : h = db_[Thread[r]]
    BY <1>0, <1>1 DEF Prepared, IInv, TypeOK
  <2>2. /\ UNCHANGED <<native, lock, tx, dirty, call>>
        /\ \A q \in RS \ {r} : stmt'[q] = stmt[q] /\ over'[q] = over[q]
        /\ stmt'[r].on = h /\ stmt'[r].vm = "ready"
        /\ stmt[r].on = NULL
    BY <1>0, <1>1, <2>1 DEF Prepared, sqlite3_prepare, NoStmt, LibTypeOK, Exists
  <2>3. \A g \in Handle : Running(g) => Running(g)'
    BY <2>2, LibAssumption DEF Running
  <2>4. Settled'
    BY <1>0, <2>2, <2>3 DEF Settled, Clean, LocksHeld, NoRowOfWrite
  <2>5. StmtOfThread'
    BY <1>0, <2>1, <2>2, LibAssumption DEF LInv, StmtOfThread, Exists, IInv, HandleUnshared
  <2>6. QED
    BY <1>0, <2>2, <2>4, <2>5 DEF LInv, OverHalted
<1>2. CASE CallNext(r) \/ CallClose(r)
  <2>1. /\ UNCHANGED <<libVars, over>> /\ call[r] = "idle"
        /\ \A q \in RS \ {r} : call'[q] = call[q]
    BY <1>0, <1>2 DEF CallNext, CallClose, CallResult, Idle
  <2>2. QED
    BY <1>0, <2>1 DEF libVars, LInv, Settled, Clean, LocksHeld, NoRowOfWrite,
       Running, StmtOfThread, OverHalted, Exists
<1>3. CASE NextStep(r) \/ CloseStep(r)
  <2>1. Exists(r)
    BY <1>3 DEF NextStep, CloseStep, IInv, CallOnExisting
  <2>2. PICK rc \in StepCodes :
          /\ sqlite3_step(r, rc)
          /\ \A q \in RS \ {r} : call'[q] = call[q] /\ over'[q] = over[q]
          /\ \/ call'[r] \notin {"idle", "next"}
             \/ /\ call[r] = "next"
                /\ over'[r] => rc # "ROW" /\ (rc # "BUSY" \/ over[r])
    BY <1>0, <1>3 DEF NextStep, CloseStep
  <2>3. /\ Settled'
        /\ \A q \in RS \ {r} : stmt'[q] = stmt[q]
        /\ stmt'[r].on = stmt[r].on
        /\ rc # "ROW" => stmt'[r].vm \in {stmt[r].vm, "halted"}
    BY <1>0, <2>1, <2>2, StepSettled, StepSpares, StepFrame, StepLeaves
  <2>4. rc \notin {"ROW", "BUSY"} => stmt'[r].vm # "row"
    BY <1>0, <2>1, <2>2, StepEnds
  <2>5. OverHalted'
    BY <2>2, <2>3, <2>4 DEF LInv, OverHalted
  <2>6. QED
    BY <1>0, <2>3, <2>5 DEF LInv, StmtOfThread, Exists
<1>4. CASE Finalize(r)
  <2>1. PICK h \in Handle : h = stmt[r].on
    BY <1>0, <1>4 DEF Finalize, IInv, CallOnExisting
  <2>2. /\ UNCHANGED <<native, tx, dirty>>
        /\ lock' = IF stmt[r].vm = "row"
                     THEN [lock EXCEPT ![h] = SettledLock(h, r)] ELSE lock
        /\ \A q \in RS \ {r} :
             stmt'[q] = stmt[q] /\ over'[q] = over[q] /\ call'[q] = call[q]
        /\ stmt'[r].on = NULL /\ stmt'[r].vm = "ready"
    BY <1>0, <1>4, <2>1 DEF Finalize, sqlite3_finalize, NoStmt, LibTypeOK
  <2>3. \A g \in Handle :
          /\ Running(g) <=> RunningBut(g, r) \/ (h = g /\ stmt[r].vm = "row")
          /\ Running(g)' <=> RunningBut(g, r)
    BY <2>1, <2>2, RunningOthers
  <2>4. SettledLock(h, r) # NONE => tx[h] \/ RunningBut(h, r)
    BY DEF SettledLock
  <2>5. LocksHeld'
    BY <1>0, <2>2, <2>3, <2>4 DEF LocksHeld, LibTypeOK
  <2>6. Settled'
    BY <1>0, <2>2, <2>5 DEF Settled, Clean, NoRowOfWrite
  <2>7. QED
    BY <1>0, <2>2, <2>6 DEF LInv, StmtOfThread, OverHalted, Exists
<1>5. CASE NotPrepared(r)
  BY <1>0, <1>5 DEF NotPrepared, libVars, driverVars, LInv, Settled, Clean, LocksHeld,
     NoRowOfWrite, Running, StmtOfThread, OverHalted, Exists
<1>6. QED
  BY <1>1, <1>2, <1>3, <1>4, <1>5 DEF ResultStep, ExecuteQuery

LEMMA NextLInv == IInv /\ LInv /\ [Next]_vars => LInv'
<1> SUFFICES ASSUME IInv, LInv, [Next]_vars PROVE LInv'
  OBVIOUS
<1>1. CASE UNCHANGED vars
  BY <1>1 DEF vars, LInv, Settled, Clean, LocksHeld, NoRowOfWrite, Running,
     DeadHoldNone, Alive, StmtOfThread, OverHalted, Exists
<1>2. QED
  BY <1>1, ConnStepLInv, ResultStepLInv DEF Next

LEMMA LocksInvariant == Spec => [](IInv /\ LInv)
  BY InitLInv, NextLInv, InitIInv, NextIInv, PTL DEF Spec

-----------------------------------------------------------------------------
(* What clients are told.                                                  *)

\* A client in a transaction knows it, and counts on no write it does not have.
Known(c) ==
  /\ ~inTx[c] => told[c] = 0
  /\ db_[c] # NULL /\ tx[db_[c]] => inTx[c] /\ told[c] <= dirty[db_[c]]

LedgerTrue == AckedDurable /\ \A c \in Conn : Known(c)

\* A call of another thread leaves d its handle and its ledger.
Spares(d) ==
  /\ db_'[d] = db_[d] /\ inTx'[d] = inTx[d] /\ told'[d] = told[d]
  /\ db_[d] # NULL => tx'[db_[d]] = tx[db_[d]] /\ dirty'[db_[d]] = dirty[db_[d]]

LEMMA ConnStepSpares ==
  ASSUME IInv, LInv, NEW c \in Conn, ConnStep(c), NEW d \in Conn \ {c}
  PROVE  Spares(d)
<1>0. /\ LibTypeOK /\ ViewTypeOK /\ Clean
      /\ db_ \in [Conn -> Handle \cup {NULL}]
      /\ db_[d] # NULL => db_[d] \in Handle \ {db_[c]} /\ native[db_[d]] = "open"
  BY DEF IInv, TypeOK, LInv, Settled, HandleUnshared
<1>1. CASE Opens(c)
  <2>1. db_'[d] = db_[d] /\ UNCHANGED <<tx, dirty>>
    BY <1>0, <1>1 DEF Opens, sqlite3_open
  <2>2. inTx'[d] = inTx[d] /\ told'[d] = told[d]
    BY <1>0, <1>1, ViewElsewhere DEF Opens, Concluded
  <2>3. QED
    BY <2>1, <2>2 DEF Spares
<1>2. CASE Closes(c)
  <2>1. db_'[d] = db_[d]
    BY <1>0, <1>2 DEF Closes
  <2>2. inTx'[d] = inTx[d] /\ told'[d] = told[d]
    BY <1>0, <1>2, ViewElsewhere DEF Closes, Concluded
  <2>3. db_[d] # NULL => tx'[db_[d]] = tx[db_[d]] /\ dirty'[db_[d]] = dirty[db_[d]]
    BY <1>0, <1>2, CloseSpares DEF Closes
  <2>4. QED
    BY <2>1, <2>2, <2>3 DEF Spares
<1>3. CASE Rests(c)
  BY <1>0, <1>3 DEF Rests, viewVars, libVars, Spares
<1>4. ASSUME NEW ok \in BOOLEAN, Executes(c, ok)
      PROVE  Spares(d)
  <2>1. PICK h \in Handle : h = db_[c]
    BY <1>4 DEF Executes, IInv, TypeOK
  <2>2. Spared(h) /\ UNCHANGED db_
    BY <1>0, <1>4, <2>1, ExecSpares DEF Executes
  <2>3. inTx'[d] = inTx[d] /\ told'[d] = told[d]
    BY <1>0, <1>4, ViewElsewhere DEF Executes, Concluded
  <2>4. QED
    BY <1>0, <2>1, <2>2, <2>3 DEF Spares, Spared
<1>5. QED
  BY <1>1, <1>2, <1>3, <1>4, ConnStepKinds DEF IInv, LInv

\* A session that begins or ends leaves the client nothing to count on.
LEMMA SessionKnown ==
  ASSUME IInv, LInv, NEW c \in Conn, Opens(c) \/ Closes(c)
  PROVE  /\ ~inTx'[c] /\ told'[c] = 0 /\ UNCHANGED <<acked, committed>>
         /\ db_'[c] # NULL => ~tx'[db_'[c]] /\ dirty'[db_'[c]] = 0
<1>0. /\ LibTypeOK /\ ViewTypeOK /\ Clean
      /\ db_ \in [Conn -> Handle \cup {NULL}]
  BY DEF IInv, TypeOK, LInv, Settled
<1>1. ~inTx'[c] /\ told'[c] = 0 /\ UNCHANGED acked
  BY <1>0 DEF Opens, Closes, SawSession, SawEnd, ViewTypeOK
<1>2. CASE Opens(c)
  <2>1. PICK h \in Handle, ok \in BOOLEAN :
          /\ sqlite3_open(h, ok)
          /\ db_' = [db_ EXCEPT ![c] = IF ok THEN h ELSE NULL]
    BY <1>2 DEF Opens
  <2>2. ~tx[h] /\ dirty[h] = 0 /\ UNCHANGED <<tx, dirty, committed>>
    BY <1>0, <2>1, FreshHandle DEF sqlite3_open, Clean
  <2>3. QED
    BY <1>0, <1>1, <2>1, <2>2
<1>3. CASE Closes(c)
  BY <1>0, <1>1, <1>3, CloseSpares DEF Closes
<1>4. QED
  BY <1>2, <1>3

\* The results of sqlite3_exec are what a client may go by.
LEMMA ExecKnown ==
  ASSUME IInv, LInv, LedgerTrue, NEW c \in Conn, NEW ok \in BOOLEAN, Executes(c, ok)
  PROVE  Known(c)' /\ AckedDurable'
<1>1. PICK h \in Handle : h = db_[c] /\ native[h] = "open"
  BY DEF Executes, IInv, TypeOK, HandleUnshared
<1>0. /\ LibTypeOK /\ ViewTypeOK
      /\ ~tx[h] => dirty[h] = 0
      /\ ~inTx[c] => told[c] = 0
      /\ tx[h] => inTx[c] /\ told[c] <= dirty[h]
      /\ acked <= committed
      /\ inTx[c] \in BOOLEAN /\ told[c] \in Nat /\ acked \in Nat
      /\ committed \in Nat /\ dirty[h] \in Nat /\ tx[h] \in BOOLEAN
      /\ h # NULL /\ db_'[c] = h
  BY <1>1, LibAssumption DEF IInv, TypeOK, LInv, Settled, Clean, LedgerTrue, AckedDurable,
     Known, LibTypeOK, ViewTypeOK, Executes
<1> DEFINE Mine == /\ ~inTx'[c] => told'[c] = 0
                   /\ tx'[h] => inTx'[c] /\ told'[c] <= dirty'[h]
                   /\ acked' <= committed'
<1> SUFFICES Mine
  BY <1>0 DEF Known, AckedDurable
<1>2. ASSUME NEW sign, SawFailure(c, sign)
      PROVE  UNCHANGED <<inTx, told, acked>>
  BY <1>2 DEF SawFailure
<1>3. ASSUME SawResult(c, ok) PROVE UNCHANGED <<inTx, told, acked>>
  BY <1>2, <1>3 DEF SawResult, SawNothing, viewVars
<1>4. ASSUME AutoRollback(h) PROVE ~tx'[h] /\ UNCHANGED committed
  BY <1>4, <1>0 DEF AutoRollback, Undo, LibTypeOK
<1>5. CASE exec_read(h, ok) /\ SawResult(c, ok)
  BY <1>0, <1>3, <1>5 DEF exec_read
<1>6. CASE exec_pragma(ok) /\ SawResult(c, ok)
  BY <1>0, <1>3, <1>6 DEF exec_pragma, libVars
<1>7. CASE exec_write(h, ok) /\ SawWrite(c, ok)
  <2>1. CASE ok
    BY <1>0, <1>7, <2>1 DEF exec_write, WriteTakesEffect, SawWrite, LibTypeOK, ViewTypeOK
  <2>2. CASE ~ok
    BY <1>0, <1>2, <1>4, <1>7, <2>2 DEF exec_write, SawWrite, libVars
  <2>3. QED
    BY <2>1, <2>2
<1>8. CASE exec_begin(h, ok) /\ SawBegin(c, ok)
  <2>1. /\ ok <=> ~tx[h]
        /\ tx' = [tx EXCEPT ![h] = TRUE] /\ UNCHANGED <<dirty, committed>>
    BY <1>0, <1>8 DEF exec_begin
  <2>2. CASE ok
    <3>1. inTx'[c] = TRUE /\ told'[c] = 0 /\ acked' = acked
      BY <1>0, <1>8, <2>2 DEF SawBegin, ViewTypeOK
    <3>2. QED
      BY <1>0, <2>1, <3>1
  <2>3. CASE ~ok
    BY <1>0, <1>2, <1>8, <2>1, <2>3 DEF SawBegin
  <2>4. QED
    BY <2>2, <2>3
<1>9. CASE exec_commit(h, ok) /\ SawCommit(c, ok)
  <2>1. CASE ok
    BY <1>0, <1>9, <2>1 DEF exec_commit, SawCommit, SawEnd, LibTypeOK, ViewTypeOK
  <2>2. CASE ~ok
    BY <1>0, <1>2, <1>4, <1>9, <2>2 DEF exec_commit, SawCommit, libVars
  <2>3. QED
    BY <2>1, <2>2
<1>10. CASE exec_rollback(h, ok) /\ SawRollback(c, ok)
  BY <1>0, <1>2, <1>10 DEF exec_rollback, Undo, SawRollback, SawEnd, LibTypeOK, ViewTypeOK
<1>11. QED
  BY <1>1, <1>5, <1>6, <1>7, <1>8, <1>9, <1>10 DEF Executes

LEMMA NextLedger ==
  ASSUME IInv, LInv, LedgerTrue, [Next]_vars
  PROVE  LedgerTrue'
<1>0. /\ LibTypeOK /\ ViewTypeOK
      /\ db_ \in [Conn -> Handle \cup {NULL}]
  BY DEF IInv, TypeOK
<1>1. ASSUME NEW c \in Conn, ConnStep(c) PROVE LedgerTrue'
  <2>1. Known(c)' /\ AckedDurable'
    <3>1. CASE Opens(c) \/ Closes(c)
      BY <3>1, SessionKnown DEF Known, LedgerTrue, AckedDurable
    <3>2. CASE Rests(c)
      BY <1>0, <3>2 DEF Rests, viewVars, libVars, Known, LedgerTrue, AckedDurable
    <3>3. QED
      BY <1>1, <3>1, <3>2, ExecKnown, ConnStepKinds DEF IInv, LInv
  <2>2. \A d \in Conn \ {c} : Known(d)'
    BY <1>1, ConnStepSpares DEF Spares, Known, LedgerTrue
  <2>3. QED
    BY <2>1, <2>2 DEF LedgerTrue
<1>2. ASSUME NEW r \in RS, ResultStep(r) PROVE LedgerTrue'
  <2>1. UNCHANGED <<inTx, told, acked, db_>>
    BY <1>0, <1>2, NotPreparedLeaves DEF ResultStep, ExecuteQuery, Prepared, CallNext,
       CallClose, CallResult, NextStep, CloseStep, Finalize, SawNothing, viewVars
  <2>2. CASE UNCHANGED <<tx, dirty, committed>>
    BY <2>1, <2>2 DEF LedgerTrue, AckedDurable, Known
  <2>3. CASE NextStep(r) \/ CloseStep(r)
    <3>1. Exists(r)
      BY <2>3 DEF NextStep, CloseStep, IInv, CallOnExisting
    <3>2. PICK rc \in StepCodes : sqlite3_step(r, rc)
      BY <2>3 DEF NextStep, CloseStep
    <3>3. PICK h \in Handle : h = stmt[r].on
      BY <1>0, <3>1 DEF LibTypeOK, Stmt, Exists
    <3>4. /\ tx'[h] => tx[h] /\ dirty[h] <= dirty'[h]
          /\ committed <= committed'
          /\ Spared(h) /\ LibTypeOK'
      BY <1>0, <3>2, <3>3, StepLeaves, StepSpares, StepType
    <3>5. ASSUME NEW d \in Conn PROVE Known(d)'
      BY <1>0, <2>1, <3>4 DEF LedgerTrue, Known, Spared, LibTypeOK, ViewTypeOK
    <3>6. AckedDurable'
      BY <1>0, <2>1, <3>4 DEF LedgerTrue, AckedDurable, LibTypeOK, ViewTypeOK
    <3>7. QED
      BY <3>5, <3>6 DEF LedgerTrue
  <2>4. QED
    BY <1>0, <1>2, <2>2, <2>3, NotPreparedLeaves
    DEF ResultStep, ExecuteQuery, Prepared, sqlite3_prepare, CallNext, CallClose,
       CallResult, libVars, Finalize, sqlite3_finalize
<1>3. CASE UNCHANGED vars
  BY <1>3 DEF vars, LedgerTrue, AckedDurable, Known
<1>4. QED
  BY <1>1, <1>2, <1>3 DEF Next

LEMMA LedgerInvariant == Spec => [](IInv /\ LInv /\ LedgerTrue)
<1>1. Init => LedgerTrue
  BY DEF Init, ViewInit, LibInit, LedgerTrue, AckedDurable, Known
<1>2. IInv /\ LInv /\ LedgerTrue /\ [Next]_vars => LedgerTrue'
  BY NextLedger
<1>3. QED
  BY <1>1, <1>2, LocksInvariant, PTL DEF Spec

\* What execute() and commitTrans() of sqlite3_db.cpp reported as done is in the
\* database, to clients however careless, when the library fails and rolls a
\* transaction back, and when a connection is opened twice or dropped early:
\* COMMIT without a transaction is an error.
THEOREM AcknowledgedIsDurable == Spec => []AckedDurable
<1>1. LedgerTrue => AckedDurable
  BY DEF LedgerTrue
<1>2. QED
  BY <1>1, LedgerInvariant, PTL

\* A client of sqlite3_db.cpp that was told its transaction has ended, and whose
\* next() has returned false or which has closed its result sets, holds no lock,
\* so other threads are not kept waiting in their loops; whatever failed before.
THEOREM QuietConnectionsHoldNothing == Spec => []QuietHoldsNothing
<1>1. ASSUME IInv, LInv, LedgerTrue PROVE QuietHoldsNothing
  <2> SUFFICES ASSUME NEW c \in Conn, db_[c] # NULL, ~inTx[c],
                      \A r \in OpenResults(c) : over[r] /\ call[r] = "idle",
                      lock[db_[c]] # NONE
               PROVE  FALSE
    BY DEF QuietHoldsNothing
  <2>1. db_[c] \in Handle /\ ~tx[db_[c]]
    BY <1>1 DEF IInv, TypeOK, LedgerTrue, Known
  <2>2. PICK r \in RS : stmt[r].on = db_[c] /\ stmt[r].vm = "row"
    BY <1>1, <2>1 DEF LInv, Settled, LocksHeld, Running
  <2>3. r \in OpenResults(c)
    BY <1>1, <2>2 DEF LInv, StmtOfThread, Exists, OpenResults
  <2>4. QED
    BY <1>1, <2>2, <2>3 DEF LInv, OverHalted
<1>2. QED
  BY <1>1, LedgerInvariant, PTL

-----------------------------------------------------------------------------
(* A library that does not fail, and queries that do not write.            *)

ReadsOnly == \A r \in RS : ~stmt[r].write

LEMMA ExecTrue ==
  ASSUME IInv, LInv, ViewIsTrue, ~Faults,
         NEW c \in Conn, NEW ok \in BOOLEAN, Executes(c, ok)
  PROVE  /\ inTx'[c] = tx'[db_[c]] /\ told'[c] = dirty'[db_[c]]
         /\ acked' = committed'
<1>1. PICK h \in Handle : h = db_[c] /\ native[h] = "open"
  BY DEF Executes, IInv, TypeOK, HandleUnshared
<1>0. /\ LibTypeOK /\ ViewTypeOK
      /\ ~tx[h] => dirty[h] = 0
      /\ inTx[c] = tx[h] /\ told[c] = dirty[h] /\ acked = committed
      /\ inTx[c] \in BOOLEAN /\ told[c] \in Nat /\ committed \in Nat
  BY <1>1 DEF IInv, TypeOK, LInv, Settled, Clean, ViewIsTrue, LibTypeOK, ViewTypeOK,
     Executes
<1> DEFINE Mine == inTx'[c] = tx'[h] /\ told'[c] = dirty'[h] /\ acked' = committed'
<1> SUFFICES Mine
  BY <1>1
<1>2. ASSUME NEW sign, SawFailure(c, sign)
      PROVE  UNCHANGED <<inTx, told, acked>>
  BY <1>2 DEF SawFailure
<1>3. ASSUME SawResult(c, ok) PROVE UNCHANGED <<inTx, told, acked>>
  BY <1>2, <1>3 DEF SawResult, SawNothing, viewVars
<1>4. CASE exec_read(h, ok) /\ SawResult(c, ok)
  BY <1>0, <1>3, <1>4 DEF exec_read
<1>5. CASE exec_pragma(ok) /\ SawResult(c, ok)
  BY <1>0, <1>3, <1>5 DEF exec_pragma, libVars
<1>6. CASE exec_write(h, ok) /\ SawWrite(c, ok)
  <2>1. CASE ok
    <3>1. WriteTakesEffect(h) /\ UNCHANGED tx
      BY <1>6, <2>1 DEF exec_write
    <3>2. QED
      BY <1>0, <1>6, <2>1, <3>1 DEF WriteTakesEffect, SawWrite, LibTypeOK, ViewTypeOK
  <2>2. CASE ~ok
    BY <1>0, <1>2, <1>6, <2>2 DEF exec_write, AutoRollback, SawWrite, libVars
  <2>3. QED
    BY <2>1, <2>2
<1>7. CASE exec_begin(h, ok) /\ SawBegin(c, ok)
  <2>1. /\ ok <=> ~tx[h]
        /\ tx' = [tx EXCEPT ![h] = TRUE] /\ UNCHANGED <<dirty, committed>>
    BY <1>0, <1>7 DEF exec_begin, LibTypeOK
  <2>2. CASE ok
    <3>1. inTx'[c] = TRUE /\ told'[c] = 0 /\ acked' = acked
      BY <1>0, <1>7, <2>2 DEF SawBegin, ViewTypeOK
    <3>2. tx'[h] = TRUE
      BY <1>0, <2>1 DEF LibTypeOK
    <3>3. QED
      BY <1>0, <2>1, <2>2, <3>1, <3>2
  <2>3. CASE ~ok
    <3>1. UNCHANGED <<inTx, told, acked>>
      BY <1>2, <1>7, <2>3 DEF SawBegin
    <3>2. tx' = tx
      BY <1>0, <2>1, <2>3 DEF LibTypeOK
    <3>3. QED
      BY <1>0, <2>1, <3>1, <3>2
  <2>4. QED
    BY <2>2, <2>3
<1>8. CASE exec_commit(h, ok) /\ SawCommit(c, ok)
  <2>1. CASE ok
    BY <1>0, <1>8, <2>1 DEF exec_commit, SawCommit, SawEnd, LibTypeOK, ViewTypeOK
  <2>2. CASE ~ok
    BY <1>0, <1>2, <1>8, <2>2 DEF exec_commit, AutoRollback, SawCommit, libVars
  <2>3. QED
    BY <2>1, <2>2
<1>9. CASE exec_rollback(h, ok) /\ SawRollback(c, ok)
  <2>1. tx'[h] = FALSE /\ dirty'[h] = 0 /\ UNCHANGED committed
    BY <1>0, <1>9 DEF exec_rollback, Undo, LibTypeOK
  <2>2. CASE ok
    BY <1>0, <1>9, <2>1, <2>2 DEF SawRollback, SawEnd, ViewTypeOK
  <2>3. CASE ~ok
    <3>1. tx[h] = FALSE
      BY <1>0, <1>9, <2>3 DEF exec_rollback, LibTypeOK
    <3>2. QED
      BY <1>0, <1>2, <1>9, <2>1, <2>3, <3>1 DEF SawRollback
  <2>4. QED
    BY <2>2, <2>3
<1>10. QED
  BY <1>1, <1>4, <1>5, <1>6, <1>7, <1>8, <1>9 DEF Executes

LEMMA NextReads ==
  ASSUME IInv, LInv, ReadsOnly, QueryKinds \subseteq {"read"}, [Next]_vars
  PROVE  /\ ReadsOnly'
         /\ \A r \in RS : ResultStep(r) => UNCHANGED <<tx, dirty, committed>>
<1>0. LibTypeOK /\ db_ \in [Conn -> Handle \cup {NULL}]
  BY DEF IInv, TypeOK
<1>1. ASSUME NEW c \in Conn, ConnStep(c) PROVE ReadsOnly'
  <2>1. CASE Opens(c) \/ Closes(c)
    BY <2>1, CloseSpares DEF Opens, Closes, sqlite3_open, ReadsOnly
  <2>2. CASE Rests(c)
    BY <2>2 DEF Rests, libVars, ReadsOnly
  <2>3. ASSUME NEW ok \in BOOLEAN, Executes(c, ok) PROVE ReadsOnly'
    <3>1. db_[c] \in Handle
      BY <1>0, <2>3 DEF Executes
    <3>2. QED
      BY <2>3, <3>1, ExecFrame DEF Executes, ReadsOnly
  <2>4. QED
    BY <1>1, <2>1, <2>2, <2>3, ConnStepKinds DEF IInv, LInv
<1>2. ASSUME NEW r \in RS, ResultStep(r)
      PROVE  UNCHANGED <<tx, dirty, committed>> /\ ReadsOnly'
  <2>1. CASE NextStep(r) \/ CloseStep(r)
    <3>1. stmt[r].on \in Handle
      BY <1>0, <2>1 DEF NextStep, CloseStep, IInv, CallOnExisting, LibTypeOK, Stmt, Exists
    <3>2. PICK rc \in StepCodes : sqlite3_step(r, rc)
      BY <2>1 DEF NextStep, CloseStep
    <3>3. QED
      BY <1>0, <3>1, <3>2, StepLeaves, StepSpares DEF ReadsOnly
  <2>2. CASE Prepared(r)
    <3>1. UNCHANGED <<tx, dirty, committed>>
      BY <2>2 DEF Prepared, sqlite3_prepare
    <3>2. \E h, n : sqlite3_prepare(h, r, FALSE, n)
      BY <2>2 DEF Prepared
    <3>3. ~stmt'[r].write /\ \A q \in RS \ {r} : stmt'[q] = stmt[q]
      BY <1>0, <3>2 DEF sqlite3_prepare, NoStmt, LibTypeOK
    <3>4. QED
      BY <3>1, <3>3 DEF ReadsOnly
  <2>3. CASE CallNext(r) \/ CallClose(r)
    BY <2>3 DEF CallNext, CallClose, CallResult, libVars, ReadsOnly
  <2>4. CASE Finalize(r)
    BY <1>0, <2>4 DEF Finalize, sqlite3_finalize, NoStmt, LibTypeOK, ReadsOnly
  <2>5. CASE NotPrepared(r)
    BY <2>5 DEF NotPrepared, libVars, ReadsOnly
  <2>6. QED
    BY <1>2, <2>1, <2>2, <2>3, <2>4, <2>5 DEF ResultStep, ExecuteQuery
<1>3. CASE UNCHANGED vars
  BY <1>3 DEF vars, ReadsOnly
<1>4. QED
  BY <1>1, <1>2, <1>3 DEF Next

LEMMA NextTrue ==
  ASSUME IInv, LInv, ViewIsTrue, ReadsOnly, ~Faults, QueryKinds \subseteq {"read"},
         [Next]_vars
  PROVE  ViewIsTrue'
<1>0. LibTypeOK /\ ViewTypeOK /\ db_ \in [Conn -> Handle \cup {NULL}]
  BY DEF IInv, TypeOK
<1> DEFINE True(c) ==
      IF db_[c] = NULL THEN ~inTx[c]
      ELSE inTx[c] = tx[db_[c]] /\ told[c] = dirty[db_[c]]
<1>1. ASSUME NEW c \in Conn, ConnStep(c) PROVE ViewIsTrue'
  <2>1. True(c)' /\ acked' = committed'
    <3>1. CASE Opens(c) \/ Closes(c)
      <4>1. IInv'
        BY <1>1, ConnStepIInv
      <4>2. db_'[c] # NULL => tx'[db_'[c]] \in BOOLEAN
        BY <4>1 DEF IInv, TypeOK, LibTypeOK
      <4>3. inTx'[c] \in BOOLEAN
        BY <4>1 DEF IInv, TypeOK, ViewTypeOK
      <4>4. QED
        BY <3>1, <4>2, <4>3, SessionKnown DEF ViewIsTrue
    <3>2. CASE Rests(c)
      BY <3>2 DEF Rests, viewVars, libVars, ViewIsTrue
    <3>3. ASSUME NEW ok \in BOOLEAN, Executes(c, ok)
          PROVE  True(c)' /\ acked' = committed'
      BY <3>3, ExecTrue DEF Executes
    <3>4. QED
      BY <1>1, <3>1, <3>2, <3>3, ConnStepKinds DEF IInv, LInv
  <2>2. \A d \in Conn \ {c} : True(d)'
    BY <1>1, ConnStepSpares DEF Spares, ViewIsTrue
  <2>3. QED
    BY <2>1, <2>2 DEF ViewIsTrue
<1>2. ASSUME NEW r \in RS, ResultStep(r) PROVE ViewIsTrue'
  <2>1. UNCHANGED <<inTx, told, acked, db_>>
    BY <1>0, <1>2, NotPreparedLeaves DEF ResultStep, ExecuteQuery, Prepared, CallNext,
       CallClose, CallResult, NextStep, CloseStep, Finalize, SawNothing, viewVars
  <2>2. UNCHANGED <<tx, dirty, committed>>
    BY <1>2, NextReads
  <2>3. QED
    BY <2>1, <2>2 DEF ViewIsTrue
<1>3. CASE UNCHANGED vars
  BY <1>3 DEF vars, ViewIsTrue
<1>4. QED
  BY <1>1, <1>2, <1>3 DEF Next

\* While the library does not fail and writes go through execute(), what the
\* calls of sqlite3_db.cpp return is the state of the transaction and of the
\* database, exactly: no write is lost, and none that was refused is in there.
\* Clients may open connections twice and drop them early.
THEOREM ClientsSeeTheTruth ==
  ASSUME ~Faults, QueryKinds \subseteq {"read"}
  PROVE  Spec => []ViewIsTrue
<1>1. Init => ViewIsTrue /\ ReadsOnly
  BY DEF Init, ViewInit, LibInit, ViewIsTrue, ReadsOnly, NoStmt
<1>2. IInv /\ LInv /\ (ViewIsTrue /\ ReadsOnly) /\ [Next]_vars => (ViewIsTrue /\ ReadsOnly)'
  BY NextTrue, NextReads
<1>3. QED
  BY <1>1, <1>2, LocksInvariant, PTL DEF Spec

-----------------------------------------------------------------------------
(* Clients that do not open a connection twice, and close their result     *)
(* sets before they drop one.                                              *)

\* The connection that has prepared a statement still has its handle.
HandlesOwned ==
  /\ \A h \in Handle : native[h] = "open" => \E c \in Conn : db_[c] = h
  /\ \A r \in RS : Exists(r) => stmt[r].on = db_[Thread[r]]

LEMMA ConnStepOwned ==
  ASSUME IInv, LInv, HandlesOwned, ~Reopens, ~DropsEarly, NEW c \in Conn, ConnStep(c)
  PROVE  HandlesOwned'
<1>0. /\ LibTypeOK /\ db_ \in [Conn -> Handle \cup {NULL}]
      /\ \A r \in RS : Thread[r] \in Conn
  BY DriverAssumption DEF IInv, TypeOK
<1>1. CASE UNCHANGED <<native, stmt, db_>>
  BY <1>1 DEF HandlesOwned, Exists
<1>2. CASE Open(c)
  <2>1. PICK h \in Handle, ok \in BOOLEAN :
          /\ sqlite3_open(h, ok)
          /\ db_' = [db_ EXCEPT ![c] = IF ok THEN h ELSE NULL]
    BY <1>2 DEF Open
  <2>2. db_[c] = NULL
    BY <1>2 DEF Open
  <2>3. /\ UNCHANGED stmt
        /\ native' = [native EXCEPT ![h] = IF ok THEN "open" ELSE "broken"]
    BY <2>1 DEF sqlite3_open
  <2>4. \A g \in Handle : native'[g] = "open" => (g = h /\ ok) \/ native[g] = "open"
    BY <1>0, <2>3 DEF LibTypeOK
  <2>5. \A d \in Conn : db_[d] # NULL => db_'[d] = db_[d]
    BY <1>0, <2>1, <2>2
  <2>6. ok => db_'[c] = h
    BY <1>0, <2>1
  <2>7. \A g \in Handle : native'[g] = "open" => \E d \in Conn : db_'[d] = g
    BY <2>4, <2>5, <2>6, LibAssumption DEF HandlesOwned
  <2>8. QED
    BY <1>0, <2>3, <2>5, <2>7 DEF HandlesOwned, Exists
<1>3. ASSUME CloseHandle(c, TRUE), db_' = [db_ EXCEPT ![c] = NULL]
      PROVE  HandlesOwned'
  <2>1. /\ db_[c] # NULL /\ \A r \in RS : stmt[r].on # db_[c]
        /\ native' = [native EXCEPT ![db_[c]] = "free"] /\ UNCHANGED stmt
    BY <1>3 DEF CloseHandle, sqlite3_close
  <2>2. \A d \in Conn : db_'[d] = IF d = c THEN NULL ELSE db_[d]
    BY <1>0, <1>3
  <2>3. \A g \in Handle : native'[g] = "open" => g # db_[c] /\ native[g] = "open"
    BY <1>0, <2>1 DEF LibTypeOK
  <2>4. QED
    BY <1>0, <2>1, <2>2, <2>3 DEF HandlesOwned, Exists
<1>4. CASE Close(c)
  <2>1. PICK ok \in BOOLEAN :
          /\ CloseHandle(c, ok)
          /\ db_' = IF ok THEN [db_ EXCEPT ![c] = NULL] ELSE db_
    BY <1>4 DEF Close
  <2>2. CASE ok
    BY <1>3, <2>1, <2>2
  <2>3. CASE ~ok
    BY <1>1, <2>1, <2>3 DEF CloseHandle, sqlite3_close, libVars
  <2>4. QED
    BY <2>2, <2>3
<1>5. CASE ReleaseConnection(c)
  <2>1. CASE ~LastRelease(c)
    BY <1>1, <1>5, <2>1 DEF ReleaseConnection, libVars
  <2>2. CASE LastRelease(c)
    <3>1. PICK ok \in BOOLEAN : CloseHandle(c, ok)
      BY <1>5, <2>2 DEF ReleaseConnection
    <3>2. OpenResults(c) = {} /\ db_' = [db_ EXCEPT ![c] = NULL]
      BY <1>5, <2>2 DEF ReleaseConnection
    <3>3. CASE db_[c] = NULL
      BY <1>0, <1>1, <3>1, <3>2, <3>3 DEF CloseHandle, libVars
    <3>4. CASE db_[c] # NULL
      <4>1. \A r \in RS : stmt[r].on # db_[c]
        BY <3>2, <3>4 DEF OpenResults, LInv, StmtOfThread, Exists
      <4>2. ok = TRUE
        BY <3>1, <3>4, <4>1 DEF CloseHandle, sqlite3_close
      <4>3. QED
        BY <1>3, <3>1, <3>2, <4>2
    <3>5. QED
      BY <3>3, <3>4
  <2>3. QED
    BY <2>1, <2>2
<1>6. CASE CreateConnection(c)
  <2>1. db_[c] = NULL
    BY <1>6 DEF CreateConnection, Construct, LInv, DeadHoldNone, Alive
  <2>2. QED
    BY <1>0, <1>1, <1>6, <2>1 DEF CreateConnection, libVars
<1>7. CASE DuplicateConnection(c)
  BY <1>1, <1>7 DEF DuplicateConnection, libVars, driverVars
<1>8. CASE Executing(c)
  <2>1. PICK ok \in BOOLEAN : Executes(c, ok)
    BY <1>8, ExecutingExecutes
  <2>2. db_[c] \in Handle
    BY <1>0, <2>1 DEF Executes
  <2>3. QED
    BY <1>1, <2>1, <2>2, ExecFrame DEF Executes
<1>9. QED
  BY <1>2, <1>4, <1>5, <1>6, <1>7, <1>8 DEF ConnStep, Executing

LEMMA NextOwned ==
  ASSUME IInv, LInv, HandlesOwned, ~Reopens, ~DropsEarly, [Next]_vars
  PROVE  HandlesOwned'
<1>1. ASSUME NEW r \in RS, ResultStep(r) PROVE HandlesOwned'
  <2>0. /\ LibTypeOK /\ UNCHANGED <<native, db_>>
        /\ \A q \in RS : Thread[q] \in Conn
    BY <1>1, StepFrame, NotPreparedLeaves, DriverAssumption
    DEF IInv, TypeOK, ResultStep, ExecuteQuery, Prepared,
       sqlite3_prepare, CallNext, CallClose, CallResult, libVars, NextStep, CloseStep,
       Finalize, sqlite3_finalize
  <2>1. \A q \in RS : \/ stmt'[q].on = stmt[q].on
                      \/ stmt'[q].on = NULL
                      \/ q = r /\ stmt'[q].on = db_[Thread[r]]
    <3>1. CASE Prepared(r)
      <4>1. PICK kind, n : sqlite3_prepare(db_[Thread[r]], r, kind = "write", n)
        BY <3>1 DEF Prepared
      <4>2. QED
        BY <2>0, <4>1 DEF sqlite3_prepare, NoStmt, LibTypeOK
    <3>2. CASE Finalize(r)
      BY <2>0, <3>2 DEF Finalize, sqlite3_finalize, NoStmt, LibTypeOK
    <3>3. CASE CallNext(r) \/ CallClose(r)
      BY <3>3 DEF CallNext, CallClose, CallResult, libVars
    <3>4. CASE NextStep(r) \/ CloseStep(r)
      BY <2>0, <3>4, StepFrame DEF NextStep, CloseStep
    <3>5. CASE NotPrepared(r)
      BY <3>5 DEF NotPrepared, libVars
    <3>6. QED
      BY <1>1, <3>1, <3>2, <3>3, <3>4, <3>5 DEF ResultStep, ExecuteQuery
  <2>2. QED
    BY <2>0, <2>1 DEF HandlesOwned, Exists
<1>2. CASE UNCHANGED vars
  BY <1>2 DEF vars, HandlesOwned, Exists
<1>3. QED
  BY <1>1, <1>2, ConnStepOwned DEF Next

LEMMA OwnedInvariant ==
  ASSUME ~Reopens, ~DropsEarly
  PROVE  Spec => [](IInv /\ LInv /\ HandlesOwned)
<1>1. Init => HandlesOwned
  BY DEF Init, LibInit, HandlesOwned, Exists, NoStmt
<1>2. IInv /\ LInv /\ HandlesOwned /\ [Next]_vars => HandlesOwned'
  BY NextOwned
<1>3. QED
  BY <1>1, <1>2, LocksInvariant, PTL DEF Spec

\* Among such clients close() and the last release() of sqlite3_db.cpp leave no
\* handle open that no connection object has: sqlite3_close, which the driver
\* gives up on when it fails, has no statement left to refuse for.
THEOREM HandlesHaveOwners ==
  ASSUME ~Reopens, ~DropsEarly
  PROVE  Spec => []NoOrphan
<1>1. HandlesOwned => NoOrphan
  BY DEF HandlesOwned, NoOrphan
<1>2. QED
  BY <1>1, OwnedInvariant, PTL

\* Where each thread uses one result set, a thread that holds RESERVED or more is
\* not in a loop that polls for a lock, and one that holds SHARED alone polls only
\* while another holds more.
LEMMA HolderDoesNotPoll ==
  ASSUME IInv, LInv, HandlesOwned,
         \A q, r \in RS : Thread[q] = Thread[r] => q = r,
         NEW d \in Conn, db_[d] # NULL, lock[db_[d]] # NONE,
         \/ lock[db_[d]] >= RESERVED
         \/ \A g \in Handle : lock[g] < RESERVED
  PROVE  ~Polls(d)
<1> SUFFICES ASSUME NEW q \in RS, Thread[q] = d, Blocked(q)
             PROVE  FALSE
  BY DEF Polls
<1>1. PICK g \in Handle : g = db_[d]
  BY DEF IInv, TypeOK
<1>0. /\ lock \in [Handle -> NONE .. PENDING]
      /\ stmt[q].on = g
      /\ Startable(q)
  BY <1>1 DEF IInv, TypeOK, LibTypeOK, CallOnExisting, HandlesOwned, Blocked, StepBlocked,
     StepCommitBlocked
<1>2. tx[g]
  <2>1. SUFFICES ASSUME NEW p \in RS, stmt[p].on = g, stmt[p].vm = "row"
                 PROVE  FALSE
    BY <1>1 DEF LInv, Settled, LocksHeld, Running
  <2>2. Thread[p] = d
    BY <1>1, <2>1, LibAssumption DEF LInv, StmtOfThread, Exists
  <2>3. p = q
    BY <2>2
  <2>4. QED
    BY <1>0, <2>1, <2>3 DEF Startable
<1>3. StepBlocked(q)
  BY <1>0, <1>2 DEF Blocked, StepCommitBlocked
<1>4. lock[g] >= SHARED
  BY <1>0, <1>1 DEF NONE, SHARED, PENDING
<1>5. ~CanReserve(g)
  BY <1>0, <1>3, <1>4 DEF StepBlocked, CanRead
<1>6. QED
  BY <1>0, <1>1, <1>5 DEF CanReserve, NONE, RESERVED, PENDING

\* No standoff of the loops in next() and close() of sqlite3_db.cpp: while one of
\* them polls for a lock there is a thread outside of them that can let go, as
\* long as no thread uses two result sets at a time.
THEOREM NoStandoff ==
  ASSUME ~Reopens, ~DropsEarly, \A q, r \in RS : Thread[q] = Thread[r] => q = r
  PROVE  Spec => []HolderIsFree
<1>1. ASSUME IInv, LInv, HandlesOwned PROVE HolderIsFree
  <2> SUFFICES ASSUME NEW r \in RS, Blocked(r)
               PROVE  \E d \in Conn : ~Polls(d) /\ db_[d] # NULL /\ lock[db_[d]] # NONE
    BY DEF HolderIsFree, Polls
  <2>0. /\ lock \in [Handle -> NONE .. PENDING]
        /\ stmt[r].on \in Handle
    BY <1>1 DEF IInv, TypeOK, LibTypeOK, Stmt, CallOnExisting, Exists, Blocked
  <2>1. \A g \in Handle : lock[g] # NONE => \E d \in Conn : db_[d] = g
    BY <1>1, LibAssumption DEF IInv, StmtHandleOpen, Exists, LInv, Settled, Clean,
       LocksHeld, Running, HandlesOwned
  <2>2. PICK g \in Handle : lock[g] # NONE
    BY <2>0 DEF Blocked, StepBlocked, StepCommitBlocked, CanRead, CanReserve, CanCommit,
       NONE, SHARED, RESERVED, PENDING
  <2>3. PICK h \in Handle : /\ lock[h] # NONE
                            /\ \/ lock[h] >= RESERVED
                               \/ \A k \in Handle : lock[k] < RESERVED
    BY <2>0, <2>2 DEF NONE, RESERVED, PENDING
  <2>4. PICK d \in Conn : db_[d] = h
    BY <2>1, <2>3
  <2>5. db_[d] # NULL
    BY <2>4, LibAssumption
  <2>6. ~Polls(d)
    BY <1>1, <2>3, <2>4, <2>5, HolderDoesNotPoll
  <2>7. QED
    BY <2>3, <2>4, <2>5, <2>6
<1>2. QED
  BY <1>1, OwnedInvariant, PTL

\* With queries that only read it does not matter how many result sets a thread
\* uses: a loop in sqlite3_db.cpp polls only while the COMMIT of another thread has
\* been refused, and that thread is in no loop: it can commit again or roll back.
THEOREM ReadersNeverStandOff ==
  ASSUME ~Reopens, ~DropsEarly, QueryKinds \subseteq {"read"}
  PROVE  Spec => []HolderIsFree
<1>1. ASSUME IInv, LInv, HandlesOwned, ReadsOnly PROVE HolderIsFree
  <2> SUFFICES ASSUME NEW r \in RS, Blocked(r)
               PROVE  \E d \in Conn : ~Polls(d) /\ db_[d] # NULL /\ lock[db_[d]] # NONE
    BY DEF HolderIsFree, Polls
  <2>0. lock \in [Handle -> NONE .. PENDING]
    BY <1>1 DEF IInv, TypeOK, LibTypeOK
  <2>1. PICK h \in Handle : lock[h] >= PENDING
    BY <1>1, <2>0 DEF ReadsOnly, Blocked, StepBlocked, StepCommitBlocked, CanRead, NONE,
       PENDING
  <2>2. lock[h] # NONE /\ lock[h] >= SHARED
    BY <2>0, <2>1 DEF NONE, SHARED, PENDING
  <2>3. PICK d \in Conn : db_[d] = h
    BY <1>1, <2>2, LibAssumption DEF IInv, StmtHandleOpen, Exists, LInv, Settled, Clean,
       LocksHeld, Running, HandlesOwned
  <2>4. ASSUME NEW q \in RS, Thread[q] = d, Blocked(q) PROVE FALSE
    <3>1. stmt[q].on = h
      BY <1>1, <2>3, <2>4 DEF IInv, CallOnExisting, HandlesOwned, Blocked
    <3>2. QED
      BY <1>1, <2>2, <2>4, <3>1 DEF ReadsOnly, Blocked, StepBlocked, StepCommitBlocked,
         CanRead
  <2>5. ~Polls(d)
    BY <2>4 DEF Polls
  <2>6. QED
    BY <2>2, <2>3, <2>5, LibAssumption
<1>2. Init => ReadsOnly
  BY DEF Init, LibInit, ReadsOnly, NoStmt
<1>3. IInv /\ LInv /\ ReadsOnly /\ [Next]_vars => ReadsOnly'
  BY NextReads
<1>4. QED
  BY <1>1, <1>2, <1>3, OwnedInvariant, PTL DEF Spec
=============================================================================
