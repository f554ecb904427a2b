-------------------------------- MODULE Odbc --------------------------------
(***************************************************************************)
(* The ODBC driver (src/dbabstract/odbc/odbc_db.{cpp,h}): one action per   *)
(* operation of ODBC_Connection and ODBC_ResultSet, over OdbcLib.  All     *)
(* statements and all result sets of a connection use its one statement    *)
(* handle.                                                                 *)
(***************************************************************************)
EXTENDS ClientView, OdbcLib

CONSTANTS
  Thread,      \* Thread[r]: the connection whose thread uses result set r
  MaxWrites,   \* bound: no write is asked for with this many in the database
  MaxWork,     \* bound: writes of one transaction
  Reopens,     \* TRUE: a client may open() again without close()
  Overlaps,    \* TRUE: a client may ask for a result with another not closed
  Columns      \* columns that clients read; the first is 1

ASSUME OdbcAssumption ==
  /\ Thread \in [RS -> Conn]
  /\ MaxWrites \in Nat
  /\ MaxWork \in Nat
  /\ Reopens \in BOOLEAN
  /\ Overlaps \in BOOLEAN
  /\ Columns \subseteq Nat \ {0}
  /\ NULL \notin RS \X Columns

VARIABLES
  henv, hdbc, hstmt,   \* of connection c, by the access they belong to
  connected,           \* connected[c]
  res,                 \* res[r]: ODBC_ResultSet r: hstmt, record, the row it
                       \* shows, rows of its query, next() returned false
  buffer,              \* index and fetchBuffer, static in getString(); col and
                       \* from: column and result set whose row is in there
  filling,             \* filling[c]: result set and column for which the thread
                       \* of c is in getString(), between index and fetchBuffer
  wrong                \* what the last value of getString() was not from: the
                       \* "row" or the "column" that was asked for

vars == <<ref, inTx, told, acked, spoiled, has, cursor, tx, work, committed,
          henv, hdbc, hstmt, connected, res, buffer, filling, wrong>>

connVars == <<henv, hdbc, hstmt, connected>>

bufferVars == <<buffer, filling, wrong>>

ResultSet ==
  [hstmt : Access \cup {NULL}, record : 0 .. 1,
   at : 0 .. MaxRows + 1, n : 0 .. MaxRows, over : BOOLEAN]

NoResultSet ==
  [hstmt |-> NULL, record |-> 0, at |-> 0, n |-> 0, over |-> FALSE]

Exists(r) == res[r].hstmt # NULL

TypeOK ==
  /\ RefTypeOK
  /\ ViewTypeOK
  /\ OdbcLibTypeOK
  /\ \A h \in {henv, hdbc, hstmt} : h \in [Conn -> Access \cup {NULL}]
  /\ connected \in [Conn -> BOOLEAN]
  /\ res \in [RS -> ResultSet]
  /\ buffer \in [index : {0} \cup Columns, col : {0} \cup Columns,
                 from : RS \cup {NULL}]
  /\ filling \in [Conn -> {NULL} \cup (RS \X Columns)]
  /\ wrong \subseteq {"row", "column"}

Init ==
  /\ RefInit
  /\ ViewInit
  /\ OdbcLibInit
  /\ henv = [c \in Conn |-> NULL]
  /\ hdbc = [c \in Conn |-> NULL]
  /\ hstmt = [c \in Conn |-> NULL]
  /\ connected = [c \in Conn |-> FALSE]
  /\ res = [r \in RS |-> NoResultSet]
  /\ buffer = [index |-> 0, col |-> 0, from |-> NULL]
  /\ filling = [c \in Conn |-> NULL]
  /\ wrong = {}

MayExecute(c) == Alive(c) /\ connected[c]

\* The client of c has closed its result sets: their calls after close() of
\* the connection use a freed statement handle, so clients of this model wait.
NoResults(c) == \A r \in RS : Thread[r] = c => ~Exists(r)

-----------------------------------------------------------------------------
(* Life of a connection. *)

CreateConnection(c) ==
  /\ Construct(c)
  /\ henv' = [henv EXCEPT ![c] = NULL]
  /\ hdbc' = [hdbc EXCEPT ![c] = NULL]
  /\ hstmt' = [hstmt EXCEPT ![c] = NULL]
  /\ connected' = [connected EXCEPT ![c] = FALSE]
  /\ SawNothing
  /\ UNCHANGED <<odbcVars, res, bufferVars>>

DuplicateConnection(c) ==
  /\ Duplicate(c)
  /\ UNCHANGED <<viewVars, odbcVars, connVars, res, bufferVars>>

\* What open() has obtained when it returns: all of it, or what came before
\* the call that failed.  A handle that could not be allocated becomes NULL,
\* the later ones keep their value.
Stages ==
  {{}, {"env"}, {"env", "dbc"}, {"env", "dbc", "link", "session"}}

Obtained ==
  {{"env", "dbc", "link", "session", "stmt"}}
    \cup (IF Faults THEN Stages ELSE {})

Open(c) ==
  /\ Alive(c) /\ NoResults(c)
  /\ henv[c] # NULL => Reopens
  /\ \E a \in Access, got \in Obtained :
       /\ has[a] = {}
       /\ HasBecomes([has EXCEPT ![a] = got])
       /\ henv' = [henv EXCEPT ![c] = IF "env" \in got THEN a ELSE NULL]
       /\ hdbc' = [hdbc EXCEPT ![c] =
                     IF "dbc" \in got THEN a
                     ELSE IF "env" \in got THEN NULL ELSE @]
       /\ hstmt' = [hstmt EXCEPT ![c] =
                      IF "stmt" \in got THEN a
                      ELSE IF "link" \in got THEN NULL ELSE @]
       /\ connected' = [connected EXCEPT ![c] = @ \/ "link" \in got]
  /\ SawSession(c)
  /\ UNCHANGED <<ref, committed, res, bufferVars>>

\* Variant: the handles are given back in the order they were obtained in.
LeftBackwards(c, a) ==
  LET bare == IF henv[c] = a THEN SQLFreeHandle(has[a], "env") ELSE has[a]
      cut == IF hdbc[c] = a THEN SQLFreeHandle(bare, "dbc") ELSE bare
      dropped == IF connected[c] /\ hdbc[c] = a THEN SQLDisconnect(cut) ELSE cut
  IN IF hstmt[c] = a THEN SQLFreeHandle(dropped, "stmt") ELSE dropped

\* What is left of access a after the calls of close(), in their order.
Left(c, a) ==
  LET dropped == IF hstmt[c] = a THEN SQLFreeHandle(has[a], "stmt") ELSE has[a]
      cut == IF connected[c] /\ hdbc[c] = a THEN SQLDisconnect(dropped)
             ELSE dropped
      bare == IF hdbc[c] = a THEN SQLFreeHandle(cut, "dbc") ELSE cut
  IN IF henv[c] = a THEN SQLFreeHandle(bare, "env") ELSE bare

CloseHandles(c) ==
  /\ NoResults(c)
  /\ HasBecomes([a \in Access |-> Left(c, a)])
  /\ henv' = [henv EXCEPT ![c] = NULL]
  /\ hdbc' = [hdbc EXCEPT ![c] = NULL]
  /\ hstmt' = [hstmt EXCEPT ![c] = NULL]
  /\ connected' = [connected EXCEPT ![c] = FALSE]
  /\ SawSession(c)
  /\ UNCHANGED committed

Close(c) == Alive(c) /\ CloseHandles(c) /\ UNCHANGED <<ref, res, bufferVars>>

ReleaseConnection(c) ==
  /\ Release(c)
  /\ IF LastRelease(c) THEN CloseHandles(c)
     ELSE SawNothing /\ UNCHANGED <<odbcVars, connVars>>
  /\ UNCHANGED <<res, bufferVars>>

-----------------------------------------------------------------------------
(* Statements and transactions. *)

MayWrite(c) ==
  /\ committed < MaxWrites /\ acked < MaxWrites
  /\ hstmt[c] # NULL => work[hstmt[c]] < MaxWork

\* Variant: the result of SQLExecute is not looked at.
ExecuteBlindly(c) ==
  /\ MayExecute(c) /\ MayWrite(c)
  /\ \E ok \in BOOLEAN : execute_write(hstmt[c], ok)
  /\ SawWrite(c, TRUE)
  /\ UNCHANGED <<ref, connVars, res, bufferVars>>

\* execute() of a write.
Execute(c) ==
  /\ MayExecute(c) /\ MayWrite(c)
  /\ \E ok \in BOOLEAN : execute_write(hstmt[c], ok) /\ SawWrite(c, ok)
  /\ UNCHANGED <<ref, connVars, res, bufferVars>>

\* execute() of a SELECT opens a cursor that only close() closes.
ExecuteSelect(c) ==
  /\ MayExecute(c)
  /\ \E ok \in BOOLEAN : execute_select(hstmt[c], NULL, 0, ok) /\ SawResult(c, ok)
  /\ UNCHANGED <<ref, connVars, res, bufferVars>>

BeginTrans(c) ==
  /\ MayExecute(c)
  /\ \E ok \in BOOLEAN : execute_begin(hstmt[c], ok) /\ SawBegin(c, ok)
  /\ UNCHANGED <<ref, connVars, res, bufferVars>>

CommitTrans(c) ==
  /\ MayExecute(c) /\ WouldCommit(c)
  /\ \E ok \in BOOLEAN : execute_end(hstmt[c], TRUE, ok) /\ SawCommit(c, ok)
  /\ UNCHANGED <<ref, connVars, res, bufferVars>>

\* Variant: nothing is sent.
RollbackTransUnsent(c) ==
  /\ MayExecute(c)
  /\ SawRollback(c, TRUE)
  /\ UNCHANGED <<ref, odbcVars, connVars, res, bufferVars>>

RollbackTrans(c) ==
  /\ MayExecute(c)
  /\ \E ok \in BOOLEAN : execute_end(hstmt[c], FALSE, ok) /\ SawRollback(c, ok)
  /\ UNCHANGED <<ref, connVars, res, bufferVars>>

\* setTransactionMode(): a SET changes nothing these properties tell apart.
SetTransactionMode(c) ==
  /\ MayExecute(c)
  /\ \/ Fails(hstmt[c]) /\ SawFailure(c, "result")
     \/ Accepts(hstmt[c]) /\ UNCHANGED odbcVars /\ SawNothing
  /\ UNCHANGED <<ref, connVars, res, bufferVars>>

-----------------------------------------------------------------------------
(* Result sets. *)

\* A query that succeeds with information counts as failed, and its cursor
\* stays open.
ExecuteQuery(r) ==
  LET a == hstmt[Thread[r]] IN
  /\ MayExecute(Thread[r]) /\ ~Exists(r)
  /\ Overlaps \/ NoResults(Thread[r])
  /\ \E k \in 0 .. MaxRows :
       \/ /\ execute_select(a, r, k, TRUE)
          /\ res' = [res EXCEPT ![r] =
                       [NoResultSet EXCEPT !.hstmt = a, !.n = k]]
          /\ SawNothing
       \/ /\ \/ Faults /\ execute_select(a, NULL, k, TRUE)
             \/ execute_select(a, r, k, FALSE)
          /\ UNCHANGED res
          /\ SawFailure(Thread[r], "result")
  /\ UNCHANGED <<ref, connVars, bufferVars>>

\* Not a row of the query.
Foreign == MaxRows + 1

\* The row the client sees: the next of the query of r, or of some other query.
RowShown(r) == IF cursor[res[r].hstmt].by = r THEN res[r].at + 1 ELSE Foreign

\* Variant: SQL_NO_DATA is taken for a row.
NextIgnoresEnd(r) ==
  /\ Exists(r) /\ res[r].record = 0
  /\ FetchRow(res[r].hstmt) \/ FetchNone(res[r].hstmt)
  /\ res' = [res EXCEPT ![r].record = 1, ![r].at = @ + 1]
  /\ SawNothing
  /\ UNCHANGED <<ref, connVars, bufferVars>>

\* The first next() fetches.
NextFirst(r) ==
  /\ Exists(r) /\ res[r].record = 0
  /\ \/ /\ FetchRow(res[r].hstmt)
        /\ res' = [res EXCEPT ![r].record = 1, ![r].at = RowShown(r)]
     \/ /\ FetchNone(res[r].hstmt)
        /\ res' = [res EXCEPT ![r].record = 1, ![r].over = TRUE]
  /\ SawNothing
  /\ UNCHANGED <<ref, connVars, bufferVars>>

\* Every other one asks SQLMoreResults for another result, and returns false
\* when there is none.
NextLater(r) ==
  /\ Exists(r) /\ res[r].record = 1
  /\ CursorCloses(res[r].hstmt)
  /\ res' = [res EXCEPT ![r].over = TRUE]
  /\ SawNothing
  /\ UNCHANGED <<ref, connVars, bufferVars>>

\* Variant: the object goes, the cursor stays.
CloseKeepsCursor(r) ==
  /\ Exists(r)
  /\ res' = [res EXCEPT ![r] = NoResultSet]
  /\ SawNothing
  /\ UNCHANGED <<ref, odbcVars, connVars, bufferVars>>

\* What the buffer has from r is now from a row of the past.
ResultClose(r) ==
  /\ Exists(r)
  /\ CursorCloses(res[r].hstmt)
  /\ res' = [res EXCEPT ![r] = NoResultSet]
  /\ buffer' = [buffer EXCEPT !.from = IF @ = r THEN NULL ELSE @]
  /\ SawNothing
  /\ UNCHANGED <<ref, connVars, filling, wrong>>

\* The client of r asks for a column of the row next() has shown it.
MayGet(r) == Exists(r) /\ res[r].record = 1 /\ ~res[r].over

\* getString() of column idx gives r what is in the buffer, which is no column
\* at all when it is empty.
Returns(r, idx) ==
  wrong' = (IF buffer'.from # r THEN {"row"} ELSE {})
             \cup (IF buffer'.col \notin {0, idx} THEN {"column"} ELSE {})

\* Variant: the buffer is filled once and never again.
GetStringCachesOnce(r, idx) ==
  /\ MayGet(r)
  /\ IF buffer.index # 0
     THEN UNCHANGED <<buffer, filling>> /\ Returns(r, idx)
     ELSE /\ buffer' = [buffer EXCEPT !.index = idx]
          /\ filling' = [filling EXCEPT ![Thread[r]] = <<r, idx>>]
          /\ UNCHANGED wrong
  /\ SawNothing
  /\ UNCHANGED <<ref, odbcVars, connVars, res>>

\* getString(), in which all other getters begin: the column asked for last
\* is in the buffer already; for another one index is set first ...
GetString(r, idx) ==
  /\ MayGet(r)
  /\ IF buffer.index = idx
     THEN UNCHANGED <<buffer, filling>> /\ Returns(r, idx)
     ELSE /\ buffer' = [buffer EXCEPT !.index = idx]
          /\ filling' = [filling EXCEPT ![Thread[r]] = <<r, idx>>]
          /\ UNCHANGED wrong
  /\ SawNothing
  /\ UNCHANGED <<ref, odbcVars, connVars, res>>

\* Variant: the buffer is not zeroed, so SQLGetData that fails leaves what was
\* in there.
GetStringFillsUnzeroed(c) ==
  /\ filling[c] # NULL
  /\ LET r == filling[c][1]
         idx == filling[c][2]
     IN /\ \/ buffer' = [buffer EXCEPT !.col = idx,
                                        !.from = cursor[res[r].hstmt].by]
           \/ Faults /\ UNCHANGED buffer
        /\ Returns(r, idx)
  /\ filling' = [filling EXCEPT ![c] = NULL]
  /\ SawNothing
  /\ UNCHANGED <<ref, odbcVars, connVars, res>>

\* ... and the buffer zeroed and filled, from the current row of the cursor.  The
\* column is the one of the call, whatever another thread makes of index
\* meanwhile.  SQLGetData that fails leaves the buffer empty, and index as it is:
\* the empty text is what the next call of that column gets, too.
GetStringFills(c) ==
  /\ filling[c] # NULL
  /\ LET r == filling[c][1]
         idx == filling[c][2]
     IN /\ \/ buffer' = [buffer EXCEPT !.col = idx,
                                        !.from = cursor[res[r].hstmt].by]
           \/ Faults /\ buffer' = [buffer EXCEPT !.col = 0, !.from = r]
        /\ Returns(r, idx)
  /\ filling' = [filling EXCEPT ![c] = NULL]
  /\ SawNothing
  /\ UNCHANGED <<ref, odbcVars, connVars, res>>

\* tables(): the loop of SQLFetch runs whether SQLTables succeeded or not, over
\* the rows of an open cursor, too.
Tables(c) ==
  /\ Alive(c) /\ hstmt[c] # NULL
  /\ Overlaps \/ NoResults(c)
  /\ \/ FetchAll(hstmt[c])
     \/ TablesFetched(hstmt[c])
     \/ ~cursor[hstmt[c]].open /\ Refused(hstmt[c])
  /\ SawNothing
  /\ UNCHANGED <<ref, connVars, res, bufferVars>>

-----------------------------------------------------------------------------
ConnStep(c) ==
  \/ CreateConnection(c) \/ DuplicateConnection(c) \/ ReleaseConnection(c)
  \/ Open(c) \/ Close(c)
  \/ Execute(c) \/ ExecuteSelect(c)
  \/ BeginTrans(c) \/ CommitTrans(c) \/ RollbackTrans(c)
  \/ SetTransactionMode(c) \/ Tables(c)

ResultStep(r) ==
  \/ ExecuteQuery(r) \/ NextFirst(r) \/ NextLater(r) \/ ResultClose(r)
  \/ \E idx \in Columns : GetString(r, idx)

\* A thread inside getString() does nothing else.
Next ==
  \/ \E c \in Conn : filling[c] = NULL /\ ConnStep(c)
  \/ \E r \in RS : filling[Thread[r]] = NULL /\ ResultStep(r)
  \/ \E c \in Conn : GetStringFills(c)

Spec == Init /\ [][Next]_vars

-----------------------------------------------------------------------------
(* Properties. *)

\* A client that knows of no transaction has none open, whatever failed: the
\* result of execute("BEGIN"), "COMMIT" or "ROLLBACK" is not misreported in
\* the direction that would leave one behind.
QuietHoldsNothing ==
  \A c \in Conn : hstmt[c] # NULL /\ ~inTx[c] => ~tx[hstmt[c]]

\* For a client that gives a transaction up when a call in it has failed, what it
\* was told is in the database is in it, also when a COMMIT met an open cursor or
\* a lost connection: COMMIT succeeds, too, after the data source has rolled the
\* transaction back.
AckedDurable == acked <= committed

\* Whatever stage open() failed at, and in whatever state close() or the last
\* release() finds the connection: all that was obtained and not given back
\* is known to a connection object, which will give it back.
NoOrphan ==
  \A a \in Access :
    /\ has[a] # {} => \E c \in Conn : Alive(c) /\ henv[c] = a
    /\ "dbc" \in has[a] => \E c \in Conn : hdbc[c] = a
    /\ "link" \in has[a] => \E c \in Conn : hdbc[c] = a /\ connected[c]
    /\ "stmt" \in has[a] => \E c \in Conn : hstmt[c] = a

\* A cursor that was opened for a result set, and keeps its connection from
\* every other statement, can be closed through that result set.
CursorOwned ==
  \A a \in Access :
    cursor[a].by # NULL => res[cursor[a].by].hstmt = a

\* db.h: the getters retrieve "column values from the current row": a value
\* returned for one result set is not left from another, or from its past.
ValueIsCurrent == "row" \notin wrong

\* The getters return the column they are asked for, whichever was asked for
\* before, or the empty text where SQLGetData has failed, and not the text of
\* another column: index runs ahead of an empty buffer, of no other.
ColumnIsAsked == "column" \notin wrong

-----------------------------------------------------------------------------
(* The result sets implement Cursor, with failures if there are Faults.     *)

CursorPhase ==
  [r \in RS |-> IF ~Exists(r) THEN "none"
                ELSE IF res[r].over THEN "over" ELSE "open"]

CursorRow == [r \in RS |-> res[r].at]

CursorSize == [r \in RS |-> res[r].n]

Contract == INSTANCE Cursor
  WITH Restarts <- FALSE,
       phase <- CursorPhase, row <- CursorRow, size <- CursorSize

CursorContract == Contract!Spec
=============================================================================
