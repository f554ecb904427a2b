-------------------------------- MODULE Mysql --------------------------------
(***************************************************************************)
(* The MySQL driver (src/dbabstract/mysql/mysql_db.{cpp,h}): one action    *)
(* per operation of MySQL_Connection and MySQL_ResultSet, over MysqlLib.   *)
(* A MYSQL handle and the result fetched from it belong to one thread, so  *)
(* each call is one action; threads meet in the row locks of the server.   *)
(***************************************************************************)
EXTENDS ClientView, MysqlLib

CONSTANTS
  RS,          \* result sets
  Thread,      \* Thread[r]: the connection whose thread uses result set r
  MaxRows,     \* bound: rows of one query
  MaxWrites,   \* bound: no write is asked for with this many in the database
  MaxWork,     \* bound: writes that succeed in one transaction
  Reopens,     \* TRUE: a client may open() again without close()
  Mixes        \* TRUE: a client that uses transactions also writes outside

ASSUME MysqlAssumption ==
  /\ Thread \in [RS -> Conn]
  /\ MaxRows \in Nat
  /\ MaxWrites \in Nat
  /\ MaxWork \in Nat
  /\ Reopens \in BOOLEAN
  /\ Mixes \in BOOLEAN

VARIABLES
  mysql_,   \* mysql_[c]: the MYSQL of MySQL_Connection c
  res       \* res[r]: MySQL_ResultSet r: the MYSQL its rows come from,
            \* rows fetched, rows there are, and whether the end was met

vars == <<ref, inTx, told, acked, spoiled, link, autocommit, trx, work, holds,
          result, committed, mysql_, res>>

driverVars == <<mysql_, res>>

ResultSet ==
  [on : Mysql \cup {NULL}, at : 0 .. MaxRows, n : 0 .. MaxRows, eof : BOOLEAN]

NoResultSet == [on |-> NULL, at |-> 0, n |-> 0, eof |-> FALSE]

Exists(r) == res[r].on # NULL

TypeOK ==
  /\ RefTypeOK
  /\ ViewTypeOK
  /\ MysqlLibTypeOK
  /\ mysql_ \in [Conn -> Mysql \cup {NULL}]
  /\ res \in [RS -> ResultSet]

Init ==
  /\ RefInit
  /\ ViewInit
  /\ MysqlLibInit
  /\ mysql_ = [c \in Conn |-> NULL]
  /\ res = [r \in RS |-> NoResultSet]

MayQuery(c) == Alive(c) /\ mysql_[c] # NULL

\* The client has read the results of c to their end.  Rows fetched after
\* mysql_close() come from freed memory, so clients of this model wait.
Through(c) == \A r \in RS : Exists(r) /\ res[r].on = mysql_[c] => res[r].eof

-----------------------------------------------------------------------------
(* Life of a connection. *)

CreateConnection(c) ==
  /\ Construct(c)
  /\ mysql_' = [mysql_ EXCEPT ![c] = NULL]
  /\ SawNothing
  /\ UNCHANGED <<mysqlVars, res>>

DuplicateConnection(c) ==
  /\ Duplicate(c)
  /\ UNCHANGED <<viewVars, mysqlVars, driverVars>>

\* open() returns false after mysql_real_connect or mysql_select_db failed,
\* and keeps the MYSQL in both cases.
Open(c) ==
  /\ Alive(c) /\ Through(c)
  /\ mysql_[c] # NULL => Reopens
  /\ \E s \in Mysql, upTo \in {"init", "server", "database"} :
       /\ mysql_connect(s, upTo)
       /\ mysql_' = [mysql_ EXCEPT ![c] = s]
  /\ SawSession(c)
  /\ UNCHANGED <<ref, res>>

CloseHandle(c) ==
  /\ Through(c)
  /\ IF mysql_[c] = NULL THEN UNCHANGED mysqlVars ELSE mysql_close(mysql_[c])
  /\ mysql_' = [mysql_ EXCEPT ![c] = NULL]

\* Variant: close() does nothing for a connection the server has dropped.
CloseOnlyUp(c) ==
  /\ Alive(c) /\ Through(c)
  /\ IF mysql_[c] # NULL /\ link[mysql_[c]] = "up"
     THEN mysql_close(mysql_[c]) ELSE UNCHANGED mysqlVars
  /\ mysql_' = [mysql_ EXCEPT ![c] = NULL]
  /\ SawSession(c)
  /\ UNCHANGED <<ref, res>>

Close(c) ==
  /\ Alive(c)
  /\ CloseHandle(c)
  /\ SawSession(c)
  /\ UNCHANGED <<ref, res>>

ReleaseConnection(c) ==
  /\ Release(c)
  /\ IF LastRelease(c)
     THEN CloseHandle(c) /\ SawSession(c)
     ELSE UNCHANGED <<mysqlVars, mysql_>> /\ SawNothing
  /\ UNCHANGED res

-----------------------------------------------------------------------------
(* Statements and transactions. *)

\* execute() of a write.  Clients that do not mix leave autocommitted writes
\* alone once beginTrans() has turned autocommit off.
Execute(c) ==
  /\ MayQuery(c)
  /\ Mixes \/ inTx[c] \/ autocommit[mysql_[c]]
  /\ committed < MaxWrites /\ acked < MaxWrites
  /\ \E w \in Row, ok \in BOOLEAN :
       /\ ok => told[c] < MaxWork /\ work[mysql_[c]] < MaxWork
       /\ query_write(mysql_[c], w, ok)
       /\ SawWrite(c, ok)
  /\ UNCHANGED <<ref, driverVars>>

\* execute() of a SELECT: nobody takes the rows, until close() the connection
\* is out of sync.
ExecuteSelect(c) ==
  /\ MayQuery(c)
  /\ \E ok \in BOOLEAN : query_select(mysql_[c], "waiting", ok) /\ SawResult(c, ok)
  /\ UNCHANGED <<ref, driverVars>>

AutocommitOff(c) == autocommit' = [autocommit EXCEPT ![mysql_[c]] = FALSE]

\* SET AUTOCOMMIT = 0, then BEGIN, which commits what an open transaction has
\* done.  Nothing turns autocommit on again, not even here when BEGIN fails.
BeginTrans(c) ==
  /\ MayQuery(c)
  /\ \/ AutocommitOff(c) /\ query_begin(mysql_[c]) /\ SawBegin(c, TRUE)
     \/ /\ SawBegin(c, FALSE)
        /\ \/ Fails(mysql_[c]) /\ UNCHANGED autocommit
           \/ /\ InSync(mysql_[c]) /\ AutocommitOff(c)
              /\ Fails(mysql_[c]) \/ LostCommit(mysql_[c])
  /\ UNCHANGED <<ref, driverVars>>

\* Variant: the result of COMMIT is not looked at.
CommitTransBlindly(c) ==
  /\ MayQuery(c)
  /\ \E ok \in BOOLEAN : query_commit(mysql_[c], ok)
  /\ SawCommit(c, TRUE)
  /\ UNCHANGED <<ref, driverVars>>

CommitTrans(c) ==
  /\ MayQuery(c) /\ WouldCommit(c)
  /\ \E ok \in BOOLEAN : query_commit(mysql_[c], ok) /\ SawCommit(c, ok)
  /\ UNCHANGED <<ref, driverVars>>

RollbackTrans(c) ==
  /\ MayQuery(c)
  /\ \E ok \in BOOLEAN : query_rollback(mysql_[c], ok) /\ SawRollback(c, ok)
  /\ UNCHANGED <<ref, driverVars>>

\* setTransactionMode() is execute() of a SET: levels, which decide what
\* reads see, are not told apart, but the statement meets what others meet.
SetTransactionMode(c) ==
  /\ MayQuery(c)
  /\ \E ok \in BOOLEAN : query_set(mysql_[c], ok) /\ SawResult(c, ok)
  /\ UNCHANGED <<ref, driverVars>>

-----------------------------------------------------------------------------
(* Result sets. *)

\* A query that fails returns zero, and so does a command, which clients of
\* this model give to execute().
ExecuteQuery(r) ==
  LET s == mysql_[Thread[r]] IN
  /\ MayQuery(Thread[r]) /\ ~Exists(r)
  /\ \/ /\ query_select(s, "used", TRUE)
        /\ \E k \in 0 .. MaxRows :
             res' = [res EXCEPT ![r] = [NoResultSet EXCEPT !.on = s, !.n = k]]
        /\ SawNothing
     \/ /\ query_select(s, "used", FALSE) /\ UNCHANGED res
        /\ SawFailure(Thread[r], "result")
  /\ UNCHANGED <<ref, mysql_>>

\* next() that shows a row.
NextRow(r) ==
  /\ Exists(r) /\ ~res[r].eof /\ res[r].at < res[r].n
  /\ res' = [res EXCEPT ![r].at = @ + 1]
  /\ SawNothing
  /\ UNCHANGED <<ref, mysqlVars, mysql_>>

\* Variant: next() keeps on after an error.
NextEndForgets(r) ==
  /\ Exists(r) /\ ~res[r].eof
  /\ fetch_end(res[r].on)
  /\ res[r].at = res[r].n \/ link'[res[r].on] = "cut"
  /\ res' = [res EXCEPT ![r].at = 0]
  /\ SawNothing
  /\ UNCHANGED <<ref, mysql_>>

\* next() that meets the end of the rows or of the connection; further calls
\* change nothing.
NextEnd(r) ==
  /\ Exists(r) /\ ~res[r].eof
  /\ fetch_end(res[r].on)
  /\ res[r].at = res[r].n \/ link'[res[r].on] = "cut"
  /\ res' = [res EXCEPT ![r].eof = TRUE]
  /\ SawNothing
  /\ UNCHANGED <<ref, mysql_>>

\* Variant: close() drops the object without reading the rest.
CloseUneaten(r) ==
  /\ Exists(r)
  /\ res' = [res EXCEPT ![r] = NoResultSet]
  /\ SawNothing
  /\ UNCHANGED <<ref, mysqlVars, mysql_>>

\* close() reads the rows that are left and frees the result.
ResultClose(r) ==
  /\ Exists(r)
  /\ IF res[r].eof THEN UNCHANGED mysqlVars ELSE fetch_end(res[r].on)
  /\ res' = [res EXCEPT ![r] = NoResultSet]
  /\ SawNothing
  /\ UNCHANGED <<ref, mysql_>>

-----------------------------------------------------------------------------
ConnStep(c) ==
  \/ CreateConnection(c) \/ DuplicateConnection(c) \/ ReleaseConnection(c)
  \/ Open(c) \/ Close(c)
  \/ Execute(c) \/ ExecuteSelect(c)
  \/ BeginTrans(c) \/ CommitTrans(c) \/ RollbackTrans(c)
  \/ SetTransactionMode(c)

ResultStep(r) == ExecuteQuery(r) \/ NextRow(r) \/ NextEnd(r) \/ ResultClose(r)

Next == (\E c \in Conn : ConnStep(c)) \/ (\E r \in RS : ResultStep(r))

Spec == Init /\ [][Next]_vars

-----------------------------------------------------------------------------
(* Properties. *)

\* For a client that gives a transaction up when a call in it has failed, what
\* it was told is in the database is in it: COMMIT also succeeds after the
\* server has rolled the transaction back to break a deadlock.
AckedDurable == acked <= committed

\* A client that knows of no transaction locks no row against the others:
\* autocommit, off since the first beginTrans(), leaves no transaction open
\* behind the back of a client that writes inside its transactions only.
QuietHoldsNothing ==
  \A c \in Conn : mysql_[c] # NULL /\ ~inTx[c] => holds[mysql_[c]] = {}

\* A MYSQL, with the session and the transaction behind it, belongs to a
\* connection object that can still close it.
NoOrphan ==
  \A s \in Mysql :
    link[s] # "freed" => \E c \in Conn : Alive(c) /\ mysql_[c] = s

\* A connection kept out of sync by a result in use has a result set whose
\* next() or close() puts it in sync again.
InSyncAgain ==
  \A s \in Mysql :
    result[s] = "used" => \E r \in RS : res[r].on = s /\ ~res[r].eof

-----------------------------------------------------------------------------
(* The result sets implement Cursor, with failures if there are Faults.     *)

CursorPhase ==
  [r \in RS |-> IF ~Exists(r) THEN "none"
                ELSE IF res[r].eof THEN "over" ELSE "open"]

CursorRow == [r \in RS |-> res[r].at]

CursorSize == [r \in RS |-> res[r].n]

Contract == INSTANCE Cursor
  WITH Restarts <- FALSE,
       phase <- CursorPhase, row <- CursorRow, size <- CursorSize

CursorContract == Contract!Spec
=============================================================================
