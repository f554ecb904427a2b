------------------------------- MODULE Sqlite3 -------------------------------
(***************************************************************************)
(* The SQLite driver (src/dbabstract/sqlite3/sqlite3_db.{cpp,h}): one      *)
(* action per operation of Sqlite3_Connection and Sqlite3_ResultSet, over  *)
(* the library of SqliteLib.  A connection is used by one thread, as db.h  *)
(* asks, so a call on it runs alone on its connection; calls of different  *)
(* connections interleave at every library call.  next() and close() of a  *)
(* result set loop around sqlite3_step, so they are a call to begin with   *)
(* and one action for every turn of the loop.                              *)
(***************************************************************************)
EXTENDS ClientView, SqliteLib

CONSTANTS
  Thread,      \* Thread[r]: the connection whose thread uses result set r
  MaxWrites,   \* bound: writes a client asks for
  QueryKinds,  \* what is given to executeQuery: {"read"}, {"read", "write"}
  Reopens,     \* TRUE: a client may open() a connection that is open
  DropsEarly   \* TRUE: a client may drop a connection before its result sets

ASSUME DriverAssumption ==
  /\ Thread \in [RS -> Conn]
  /\ MaxWrites \in Nat
  /\ QueryKinds \subseteq {"read", "write"}
  /\ Reopens \in BOOLEAN
  /\ DropsEarly \in BOOLEAN

VARIABLES
  db_,     \* db_[c]: the handle of Sqlite3_Connection c
  call,    \* call[r]: the call that is running on result set r
  over     \* over[r]: the last next() returned false

vars == <<ref, inTx, told, acked, spoiled, native, lock, tx, dirty, stmt,
          committed, db_, call, over>>

driverVars == <<db_, call, over>>

\* res_ of a result set that exists is never NULL.
Exists(r) == stmt[r].on # NULL

TypeOK ==
  /\ RefTypeOK
  /\ ViewTypeOK
  /\ LibTypeOK
  /\ db_ \in [Conn -> Handle \cup {NULL}]
  /\ call \in [RS -> {"idle", "next", "close", "finalize"}]
  /\ over \in [RS -> BOOLEAN]

Init ==
  /\ RefInit
  /\ ViewInit
  /\ LibInit
  /\ db_ = [c \in Conn |-> NULL]
  /\ call = [r \in RS |-> "idle"]
  /\ over = [r \in RS |-> FALSE]

\* No call is running in the thread of connection c.
Idle(c) == \A r \in RS : Thread[r] = c => call[r] = "idle"

\* The client holds a reference and may call.
MayCall(c) == Alive(c) /\ Idle(c)

\* Result sets the client of c has not closed.
OpenResults(c) == {r \in RS : Thread[r] = c /\ Exists(r)}

\* Bound: writes through c.
MayWrite(c) ==
  /\ committed < MaxWrites
  /\ db_[c] # NULL => dirty[db_[c]] < MaxWrites

-----------------------------------------------------------------------------
(* Life of a connection. *)

\* create_connection(): the constructor leaves db_ NULL.
CreateConnection(c) ==
  /\ Idle(c)
  /\ Construct(c)
  /\ db_' = [db_ EXCEPT ![c] = NULL]
  /\ SawNothing
  /\ UNCHANGED <<libVars, call, over>>

DuplicateConnection(c) ==
  /\ Idle(c)
  /\ Duplicate(c)
  /\ UNCHANGED <<viewVars, libVars, driverVars>>

\* Variant: db_ keeps the handle of a failed open.
OpenKeepsHandle(c) ==
  /\ MayCall(c)
  /\ db_[c] # NULL => Reopens
  /\ \E h \in Handle, ok \in BOOLEAN :
       /\ sqlite3_open(h, ok)
       /\ db_' = [db_ EXCEPT ![c] = h]
  /\ SawSession(c)
  /\ UNCHANGED <<ref, call, over>>

\* A handle db_ already holds is overwritten; a failure leaves NULL.
Open(c) ==
  /\ MayCall(c)
  /\ db_[c] # NULL => Reopens
  /\ \E h \in Handle, ok \in BOOLEAN :
       /\ sqlite3_open(h, ok)
       /\ db_' = [db_ EXCEPT ![c] = IF ok THEN h ELSE NULL]
  /\ SawSession(c)
  /\ UNCHANGED <<ref, call, over>>

\* Sqlite3_Connection::close up to its result ok.
CloseHandle(c, ok) ==
  IF db_[c] = NULL THEN ~ok /\ UNCHANGED libVars ELSE sqlite3_close(db_[c], ok)

\* Variant: db_ is cleared before the result of sqlite3_close is looked at.
CloseForgets(c) ==
  /\ MayCall(c)
  /\ \E ok \in BOOLEAN : CloseHandle(c, ok)
  /\ db_' = [db_ EXCEPT ![c] = NULL]
  /\ SawSession(c)
  /\ UNCHANGED <<ref, call, over>>

\* Variant: db_ is not cleared.
CloseDangles(c) ==
  /\ MayCall(c)
  /\ \E ok \in BOOLEAN :
       /\ CloseHandle(c, ok)
       /\ IF ok THEN SawSession(c) ELSE SawNothing
  /\ UNCHANGED <<ref, driverVars>>

Close(c) ==
  /\ MayCall(c)
  /\ \E ok \in BOOLEAN :
       /\ CloseHandle(c, ok)
       /\ db_' = IF ok THEN [db_ EXCEPT ![c] = NULL] ELSE db_
       /\ IF ok THEN SawSession(c) ELSE SawNothing
  /\ UNCHANGED <<ref, call, over>>

\* A last release runs the destructor, which closes, ignores whether that
\* worked, and takes db_ away with the object.
ReleaseConnection(c) ==
  /\ Idle(c)
  /\ Release(c)
  /\ IF LastRelease(c)
     THEN /\ OpenResults(c) # {} => DropsEarly
          /\ \E ok \in BOOLEAN : CloseHandle(c, ok)
          /\ db_' = [db_ EXCEPT ![c] = NULL]
          /\ SawSession(c)
     ELSE SawNothing /\ UNCHANGED <<libVars, db_>>
  /\ UNCHANGED <<call, over>>

-----------------------------------------------------------------------------
(* Statements and transactions: every one returns false at once on a NULL  *)
(* db_, and is otherwise one sqlite3_exec.                                 *)

ExecuteRead(c) ==
  /\ MayCall(c) /\ db_[c] # NULL
  /\ \E ok \in BOOLEAN : exec_read(db_[c], ok) /\ SawResult(c, ok)
  /\ UNCHANGED <<ref, driverVars>>

\* Variant: the result of sqlite3_exec is not looked at.
ExecuteWriteBlindly(c) ==
  /\ MayCall(c) /\ db_[c] # NULL
  /\ MayWrite(c)
  /\ \E ok \in BOOLEAN : exec_write(db_[c], ok) /\ SawWrite(c, TRUE)
  /\ UNCHANGED <<ref, driverVars>>

ExecuteWrite(c) ==
  /\ MayCall(c) /\ db_[c] # NULL
  /\ MayWrite(c)
  /\ \E ok \in BOOLEAN : exec_write(db_[c], ok) /\ SawWrite(c, ok)
  /\ UNCHANGED <<ref, driverVars>>

BeginTrans(c) ==
  /\ MayCall(c) /\ db_[c] # NULL
  /\ \E ok \in BOOLEAN : exec_begin(db_[c], ok) /\ SawBegin(c, ok)
  /\ UNCHANGED <<ref, driverVars>>

\* Variant: the result of COMMIT is not looked at.
CommitTransBlindly(c) ==
  /\ MayCall(c) /\ db_[c] # NULL
  /\ \E ok \in BOOLEAN : exec_commit(db_[c], ok) /\ SawCommit(c, TRUE)
  /\ UNCHANGED <<ref, driverVars>>

CommitTrans(c) ==
  /\ MayCall(c) /\ db_[c] # NULL
  /\ WouldCommit(c)
  /\ \E ok \in BOOLEAN : exec_commit(db_[c], ok) /\ SawCommit(c, ok)
  /\ UNCHANGED <<ref, driverVars>>

RollbackTrans(c) ==
  /\ MayCall(c) /\ db_[c] # NULL
  /\ \E ok \in BOOLEAN : exec_rollback(db_[c], ok) /\ SawRollback(c, ok)
  /\ UNCHANGED <<ref, driverVars>>

\* Whatever the mode, a PRAGMA that without a shared cache changes nothing.
SetTransactionMode(c) ==
  /\ MayCall(c) /\ db_[c] # NULL
  /\ \E ok \in BOOLEAN : exec_pragma(ok) /\ SawResult(c, ok)
  /\ UNCHANGED <<ref, driverVars>>

-----------------------------------------------------------------------------
(* Result sets. *)

\* Prepares only: the statement has not run when the result set is returned.
Prepared(r) ==
  LET c == Thread[r] IN
  /\ MayCall(c) /\ db_[c] # NULL
  /\ ~Exists(r)
  /\ \E kind \in QueryKinds :
       /\ kind = "write" => MayWrite(c)
       /\ \E n \in IF kind = "write" THEN {0} ELSE 0 .. MaxRows :
            sqlite3_prepare(db_[c], r, kind = "write", n)
  /\ over' = [over EXCEPT ![r] = FALSE]
  /\ SawNothing
  /\ UNCHANGED <<ref, db_, call>>

\* What cannot be prepared returns zero.
NotPrepared(r) ==
  /\ MayCall(Thread[r]) /\ db_[Thread[r]] # NULL
  /\ ~Exists(r)
  /\ SawFailure(Thread[r], "result")
  /\ UNCHANGED <<ref, libVars, driverVars>>

ExecuteQuery(r) == Prepared(r) \/ NotPrepared(r)

\* The client calls next() or close() on r.
CallResult(r, method) ==
  /\ Exists(r) /\ Idle(Thread[r])
  /\ call' = [call EXCEPT ![r] = method]
  /\ UNCHANGED <<ref, viewVars, libVars, db_, over>>

CallNext(r) ==
  /\ stmt[r].write =>                                      \* bound
       committed < MaxWrites /\ dirty[stmt[r].on] < MaxWrites
  /\ CallResult(r, "next")

\* Variant: close() forgets the statement without finalizing it.
CallCloseForgets(r) ==
  /\ Exists(r) /\ Idle(Thread[r])
  /\ stmt' = [stmt EXCEPT ![r] = NoStmt]
  /\ over' = [over EXCEPT ![r] = FALSE]
  /\ UNCHANGED <<ref, viewVars, native, lock, tx, dirty, committed, db_, call>>

CallClose(r) == CallResult(r, "close")

\* Variant: close() goes on when the statement is done.
LoopEndsOnFailure == {"ERROR", "MISUSE"}

LoopEnds == {"DONE", "ERROR", "MISUSE"}

\* Variant: next() takes BUSY for the end of the rows.
NextStepGivesUp(r) ==
  /\ call[r] = "next"
  /\ \E rc \in StepCodes :
       /\ sqlite3_step(r, rc)
       /\ call' = [call EXCEPT ![r] = "idle"]
       /\ over' = [over EXCEPT ![r] = rc # "ROW"]
  /\ SawNothing
  /\ UNCHANGED <<ref, db_>>

\* One turn of next(): on BUSY it sleeps and goes round again.
NextStep(r) ==
  /\ call[r] = "next"
  /\ \E rc \in StepCodes :
       /\ sqlite3_step(r, rc)
       /\ call' = IF rc = "BUSY" THEN call ELSE [call EXCEPT ![r] = "idle"]
       /\ over' = IF rc = "BUSY" THEN over ELSE [over EXCEPT ![r] = rc # "ROW"]
  /\ SawNothing
  /\ UNCHANGED <<ref, db_>>

\* One turn of close(), which eats rows and spins on BUSY.
CloseStep(r) ==
  /\ call[r] = "close"
  /\ \E rc \in StepCodes :
       /\ sqlite3_step(r, rc)
       /\ call' = IF rc \in LoopEnds THEN [call EXCEPT ![r] = "finalize"]
                                     ELSE call
  /\ SawNothing
  /\ UNCHANGED <<ref, db_, over>>

\* The end of close(): the statement is finalized and the object deleted.
Finalize(r) ==
  /\ call[r] = "finalize"
  /\ sqlite3_finalize(r)
  /\ call' = [call EXCEPT ![r] = "idle"]
  /\ over' = [over EXCEPT ![r] = FALSE]
  /\ SawNothing
  /\ UNCHANGED <<ref, db_>>

-----------------------------------------------------------------------------
ConnStep(c) ==
  \/ CreateConnection(c) \/ DuplicateConnection(c) \/ ReleaseConnection(c)
  \/ Open(c) \/ Close(c)
  \/ ExecuteRead(c) \/ ExecuteWrite(c)
  \/ BeginTrans(c) \/ CommitTrans(c) \/ RollbackTrans(c)
  \/ SetTransactionMode(c)

ResultStep(r) ==
  \/ ExecuteQuery(r) \/ CallNext(r) \/ CallClose(r)
  \/ NextStep(r) \/ CloseStep(r) \/ Finalize(r)

Next == (\E c \in Conn : ConnStep(c)) \/ (\E r \in RS : ResultStep(r))

Spec == Init /\ [][Next]_vars

\* A thread inside a call goes on running: nothing else is assumed fair.
Fairness ==
  \A r \in RS : WF_vars(NextStep(r)) /\ WF_vars(CloseStep(r))
                  /\ WF_vars(Finalize(r))

LiveSpec == Spec /\ Fairness

-----------------------------------------------------------------------------
(* Properties. *)

\* A statement is never used on a handle that was closed: sqlite3_close
\* refuses while close() of a result set has not finalized it.
StmtHandleOpen == \A r \in RS : Exists(r) => native[stmt[r].on] = "open"

\* A handle belongs to one connection object, which uses it only while open.
HandleUnshared ==
  /\ \A c \in Conn : db_[c] # NULL => native[db_[c]] = "open"
  /\ \A c, d \in Conn : db_[c] # NULL /\ db_[c] = db_[d] => c = d

\* The results of the calls tell a client the truth: whether it is in a
\* transaction, how many writes wait in it and how many are in the database.
ViewIsTrue ==
  /\ \A c \in Conn :
       IF db_[c] = NULL THEN ~inTx[c]
       ELSE inTx[c] = tx[db_[c]] /\ told[c] = dirty[db_[c]]
  /\ acked = committed

\* Even when the library fails, nothing a client was told is in the database
\* is missing from it.
AckedDurable == acked <= committed

\* A client that knows of no transaction and has read or closed every result
\* set holds no lock: it keeps no other thread from the database.
QuietHoldsNothing ==
  \A c \in Conn :
    /\ db_[c] # NULL /\ ~inTx[c]
    /\ \A r \in OpenResults(c) : over[r] /\ call[r] = "idle"
    => lock[db_[c]] = NONE

\* db.h: the object "handles closing the database connection".  Once its
\* result sets are closed, an open handle is one some connection still has.
NoOrphan ==
  \A h \in Handle :
    native[h] = "open" /\ (\A r \in RS : stmt[r].on # h)
      => \E c \in Conn : db_[c] = h

\* A write given to executeQuery takes effect at most once, whatever locks its
\* turns find and whether next() runs it or close() does.  That is so until
\* next() has returned false: from then on a library that restarts statements
\* does the write again in every next() and in close().
EffectOnce == \A r \in RS : ~over[r] => stmt[r].runs <= 1

\* The next turn of the loop will find the lock it needs taken.
Blocked(r) ==
  /\ call[r] \in {"next", "close"}
  /\ StepBlocked(r) \/ StepCommitBlocked(r)

\* The thread of c is inside such a call, which goes on asking.
Polls(c) == \E r \in RS : Thread[r] = c /\ Blocked(r)

\* No standoff: while a call polls for a lock, some thread that holds one is not
\* polling itself, so its client can still let go.
HolderIsFree ==
  (\E c \in Conn : Polls(c)) =>
    \E d \in Conn : ~Polls(d) /\ db_[d] # NULL /\ lock[db_[d]] # NONE

\* A next() or close() ends unless locks of others keep coming up against it.
PollEnds ==
  \A r \in RS :
    (<>[]~Blocked(r)) => (call[r] # "idle" ~> call[r] = "idle")

-----------------------------------------------------------------------------
(* The result sets implement Cursor.  To its client a result set is closed *)
(* from the moment it calls close(); the rows eaten in there show nowhere. *)

Closing(r) == call[r] \in {"close", "finalize"}

\* The client has executed r and not asked to close it.
InUse(r) == Exists(r) /\ ~Closing(r)

CursorPhase ==
  [r \in RS |-> IF ~InUse(r) THEN "none" ELSE IF over[r] THEN "over" ELSE "open"]
CursorRow == [r \in RS |-> IF InUse(r) THEN stmt[r].at ELSE 0]
CursorSize == [r \in RS |-> IF InUse(r) THEN stmt[r].rows ELSE 0]

Contract == INSTANCE Cursor
  WITH Restarts <- FALSE,
       phase <- CursorPhase, row <- CursorRow, size <- CursorSize

\* The promise of db.h.  It is kept by a library that does not restart a
\* statement, and broken by one that does.
CursorContract == Contract!Spec

Passes == INSTANCE Cursor
  WITH Restarts <- AutoReset,
       phase <- CursorPhase, row <- CursorRow, size <- CursorSize

\* What is left of it with either library: next() shows the rows from the
\* first to the last, and returns false at the end.  With a library that
\* restarts statements the rows may come again after that, from the first.
CursorPasses == Passes!Spec
=============================================================================
