--------------------------------- MODULE Pq ---------------------------------
(***************************************************************************)
(* The PostgreSQL driver (src/dbabstract/pq/pq_db.{cpp,h}): one action per *)
(* operation of PQ_Connection and PQ_ResultSet, over libpq and the server  *)
(* of PqLib.  Every call is a PQexec or touches client memory only; the    *)
(* one that can wait, a write, is sent and answered in two actions.        *)
(* Connections are used by one thread each and interleave freely.          *)
(***************************************************************************)
EXTENDS ClientView, PqLib, Integers

CONSTANTS
  RS,          \* result sets
  Thread,      \* Thread[r]: the connection whose thread uses result set r
  MaxRows,     \* bound: rows of one query
  MaxWrites,   \* bound: no write is asked for with this many in the database
  MaxWork,     \* bound: writes of one transaction
  Modes,       \* transaction modes clients ask for
  Reopens,     \* TRUE: a client may open() a connection that is open
  Nests        \* TRUE: a client may begin a transaction inside another

ASSUME PqAssumption ==
  /\ Thread \in [RS -> Conn]
  /\ MaxRows \in Nat
  /\ MaxWrites \in Nat
  /\ MaxWork \in Nat
  /\ Modes \subseteq TransMode
  /\ Reopens \in BOOLEAN
  /\ Nests \in BOOLEAN

VARIABLES
  pgconn_,   \* pgconn_[c]: the PGconn of PQ_Connection c
  res        \* res[r]: PQ_ResultSet r: what res_ points to, and row_

vars == <<ref, inTx, told, acked, spoiled, sess, txs, work, holds, wants, iso,
          serverUp, committed, pgconn_, res>>

driverVars == <<pgconn_, res>>

\* res_ is a result with n rows, one that reports an error, or NULL.
ResultSet ==
  [res_ : {"absent", "tuples", "error", "null"}, n : 0 .. MaxRows,
   row_ : Int]

NoResultSet == [res_ |-> "absent", n |-> 0, row_ |-> -1]

Exists(r) == res[r].res_ # "absent"

TypeOK ==
  /\ RefTypeOK
  /\ ViewTypeOK
  /\ PqLibTypeOK
  /\ pgconn_ \in [Conn -> Session \cup {NULL}]
  /\ res \in [RS -> ResultSet]

Init ==
  /\ RefInit
  /\ ViewInit
  /\ PqLibInit
  /\ pgconn_ = [c \in Conn |-> NULL]
  /\ res = [r \in RS |-> NoResultSet]

\* No PQexec is in progress in the thread of c.
Idle(c) == pgconn_[c] # NULL => wants[pgconn_[c]] = NULL

MayCall(c) == Alive(c) /\ Idle(c)

MayExec(c) == MayCall(c) /\ pgconn_[c] # NULL

\* Bounds: writes in the database, and in the transaction of c.
MayWrite(c) ==
  committed < MaxWrites /\ acked < MaxWrites /\ work[pgconn_[c]] < MaxWork

-----------------------------------------------------------------------------
(* Life of a connection. *)

CreateConnection(c) ==
  /\ Construct(c)
  /\ pgconn_' = [pgconn_ EXCEPT ![c] = NULL]
  /\ SawNothing
  /\ UNCHANGED <<pqVars, res>>

DuplicateConnection(c) ==
  /\ Idle(c)
  /\ Duplicate(c)
  /\ UNCHANGED <<viewVars, pqVars, driverVars>>

\* A PGconn pgconn_ already points to is overwritten, not finished.
Open(c) ==
  /\ MayCall(c)
  /\ pgconn_[c] # NULL => Reopens
  /\ \/ \E s \in Session :
          /\ PQconnectdb(s)
          /\ pgconn_' = [pgconn_ EXCEPT ![c] = s]
     \/ /\ Faults \/ ~serverUp
        /\ pgconn_' = [pgconn_ EXCEPT ![c] = NULL]
        /\ UNCHANGED pqVars
  /\ SawSession(c)
  /\ UNCHANGED <<ref, res>>

CloseSession(c) ==
  /\ IF pgconn_[c] = NULL THEN UNCHANGED pqVars ELSE PQfinish(pgconn_[c])
  /\ pgconn_' = [pgconn_ EXCEPT ![c] = NULL]

\* Variant: close() forgets the PGconn without PQfinish.
CloseForgets(c) ==
  /\ MayCall(c)
  /\ pgconn_' = [pgconn_ EXCEPT ![c] = NULL]
  /\ SawSession(c)
  /\ UNCHANGED <<ref, pqVars, res>>

Close(c) ==
  /\ MayCall(c)
  /\ CloseSession(c)
  /\ SawSession(c)
  /\ UNCHANGED <<ref, res>>

\* The last release closes the session; result sets live on.
ReleaseConnection(c) ==
  /\ Idle(c)
  /\ Release(c)
  /\ IF LastRelease(c)
     THEN CloseSession(c) /\ SawSession(c)
     ELSE UNCHANGED <<pqVars, pgconn_>> /\ SawNothing
  /\ UNCHANGED res

-----------------------------------------------------------------------------
(* Statements and transactions. *)

\* execute() of a write of row w: PQexec sends it and waits.
Execute(c) ==
  /\ MayExec(c)
  /\ MayWrite(c)
  /\ \E w \in Row : send_write(pgconn_[c], w)
  /\ SawNothing
  /\ UNCHANGED <<ref, driverVars>>

\* PQexec returns; execute() is true if the result is COMMAND_OK.
ExecuteReturns(c) ==
  /\ pgconn_[c] # NULL /\ ~Idle(c)
  /\ \E ok \in BOOLEAN : answer_write(pgconn_[c], ok) /\ SawWrite(c, ok)
  /\ UNCHANGED <<ref, driverVars>>

\* execute() of a SELECT: its TUPLES_OK is not COMMAND_OK, so the result is
\* dropped and false returned although the statement ran.
ExecuteSelect(c) ==
  /\ MayExec(c)
  /\ \E status \in {"TUPLES_OK", "ERROR", "NO_RESULT"} :
       exec_query(pgconn_[c], status)
  /\ SawFailure(c, "result")
  /\ UNCHANGED <<ref, driverVars>>

BeginTrans(c) ==
  /\ MayExec(c)
  /\ inTx[c] => Nests
  /\ \E ok \in BOOLEAN : exec_begin(pgconn_[c], ok) /\ SawBegin(c, ok)
  /\ UNCHANGED <<ref, driverVars>>

\* Variant: ROLLBACK where END is meant.
CommitTransRollsBack(c) ==
  /\ MayExec(c)
  /\ \E ok \in BOOLEAN : exec_rollback(pgconn_[c], ok) /\ SawCommit(c, ok)
  /\ UNCHANGED <<ref, driverVars>>

\* "END" commits, or ends an aborted transaction: both are COMMAND_OK.
CommitTrans(c) ==
  /\ MayExec(c) /\ WouldCommit(c)
  /\ \E ok \in BOOLEAN : exec_end(pgconn_[c], ok) /\ SawCommit(c, ok)
  /\ UNCHANGED <<ref, driverVars>>

\* Variant: rollbackTrans() returns true and sends nothing.
RollbackTransUnsent(c) ==
  /\ MayExec(c)
  /\ SawRollback(c, TRUE)
  /\ UNCHANGED <<ref, pqVars, driverVars>>

RollbackTrans(c) ==
  /\ MayExec(c)
  /\ \E ok \in BOOLEAN : exec_rollback(pgconn_[c], ok) /\ SawRollback(c, ok)
  /\ UNCHANGED <<ref, driverVars>>

SetTransactionMode(c) ==
  /\ MayExec(c)
  /\ \E mode \in Modes, ok \in BOOLEAN :
       exec_set(pgconn_[c], mode, ok) /\ SawResult(c, ok)
  /\ UNCHANGED <<ref, driverVars>>

-----------------------------------------------------------------------------
(* Result sets. *)

\* Rows, an error and a missing result all become a result set: a failure is
\* not a result of zero, only errormsg() tells of it.
ExecuteQuery(r) ==
  LET c == Thread[r]
      Becomes(kind, k) ==
        res' = [res EXCEPT ![r] = [res_ |-> kind, n |-> k, row_ |-> -1]]
  IN
  /\ MayExec(c) /\ ~Exists(r)
  /\ \/ \E k \in 0 .. MaxRows :
          exec_query(pgconn_[c], "TUPLES_OK") /\ Becomes("tuples", k) /\ SawNothing
     \/ /\ \/ exec_query(pgconn_[c], "ERROR") /\ Becomes("error", 0)
           \/ exec_query(pgconn_[c], "NO_RESULT") /\ Becomes("null", 0)
        /\ SawFailure(c, "error")
  /\ UNCHANGED <<ref, pgconn_>>

\* executeQuery() of a command: zero is returned and the PGresult is lost.
\* Commands that write are given to execute() here.
QueryCommand(c) ==
  /\ MayExec(c)
  /\ exec_query(pgconn_[c], "COMMAND_OK")
  /\ SawNothing
  /\ UNCHANGED <<ref, driverVars>>

\* Variant: next() looks before it advances.
NextLate(r) ==
  /\ Exists(r)
  /\ res[r].row_ <= res[r].n
  /\ res' = [res EXCEPT ![r].row_ = IF @ = -1 THEN 1 ELSE @ + 1]
  /\ SawNothing
  /\ UNCHANGED <<ref, pqVars, pgconn_>>

\* row_ goes on counting after the end; the client stops at one beyond.
ResultNext(r) ==
  /\ Exists(r)
  /\ res[r].row_ <= res[r].n                                  \* bound
  /\ res' = [res EXCEPT ![r].row_ = @ + 1]
  /\ SawNothing
  /\ UNCHANGED <<ref, pqVars, pgconn_>>

\* With res_ NULL, close() returns false and the object is never deleted; the
\* client is through with it all the same.
ResultClose(r) ==
  /\ Exists(r)
  /\ res' = [res EXCEPT ![r] = NoResultSet]
  /\ SawNothing
  /\ UNCHANGED <<ref, pqVars, pgconn_>>

-----------------------------------------------------------------------------
ConnStep(c) ==
  \/ CreateConnection(c) \/ DuplicateConnection(c) \/ ReleaseConnection(c)
  \/ Open(c) \/ Close(c)
  \/ Execute(c) \/ ExecuteReturns(c) \/ ExecuteSelect(c) \/ QueryCommand(c)
  \/ BeginTrans(c) \/ CommitTrans(c) \/ RollbackTrans(c)
  \/ SetTransactionMode(c)

ResultStep(r) == ExecuteQuery(r) \/ ResultNext(r) \/ ResultClose(r)

ServerStep ==
  /\ Crash \/ Restart
  /\ UNCHANGED <<ref, viewVars, driverVars>>

Next ==
  \/ \E c \in Conn : ConnStep(c)
  \/ \E r \in RS : ResultStep(r)
  \/ ServerStep

Spec == Init /\ [][Next]_vars

-----------------------------------------------------------------------------
(* Properties. *)

\* For a client that gives a transaction up when it sees a failure in there,
\* what it was told is in the database is in it: END also succeeds for a
\* transaction the server has aborted, and the server may be lost any time.
AckedDurable == acked <= committed

\* A client that knows of no transaction locks no row against the others,
\* whatever failed before.
QuietHoldsNothing ==
  \A c \in Conn : pgconn_[c] # NULL /\ ~inTx[c] => holds[pgconn_[c]] = {}

\* A transaction that holds locks or waits belongs to a connection object
\* that can still end it.
NoOrphan ==
  \A s \in Session :
    sess[s] # "free" => \E c \in Conn : Alive(c) /\ pgconn_[c] = s

-----------------------------------------------------------------------------
(* The result sets implement Cursor, and without its Faults: what a result  *)
(* set shows was complete before the client got it, so no failure of the    *)
(* server, close() or release() cuts it short.                              *)

InResult(r) == Exists(r) /\ res[r].row_ < res[r].n

CursorPhase ==
  [r \in RS |-> IF ~Exists(r) THEN "none"
                ELSE IF res[r].row_ < res[r].n THEN "open" ELSE "over"]

CursorRow ==
  [r \in RS |-> IF InResult(r) THEN res[r].row_ + 1 ELSE res[r].n]

CursorSize == [r \in RS |-> res[r].n]

Contract == INSTANCE Cursor
  WITH Faults <- FALSE, Restarts <- FALSE,
       phase <- CursorPhase, row <- CursorRow, size <- CursorSize

CursorContract == Contract!Spec
=============================================================================
