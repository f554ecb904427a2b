------------------------------ MODULE OdbcLib ------------------------------
(***************************************************************************)
(* The ODBC driver manager and a data source as odbc_db.cpp uses them.     *)
(* EXTERNAL: neither is in the repository.  An access to the data source   *)
(* is the set of what was obtained for it: the environment, the connection *)
(* and the statement handle, the link of SQLDriverConnect and the session  *)
(* behind it.  A statement handle with an open cursor accepts no other     *)
(* statement.  That statements of different sessions wait for each other   *)
(* is left out: to this driver a wait is a slow statement.                 *)
(***************************************************************************)
EXTENDS Naturals

CONSTANTS
  Access,     \* accesses
  RS,         \* result sets
  NULL,
  MaxRows,    \* bound: rows of one query
  Faults      \* statements may fail and connections be lost

ASSUME OdbcLibAssumption ==
  /\ NULL \notin Access
  /\ NULL \notin RS
  /\ MaxRows \in Nat
  /\ Faults \in BOOLEAN

VARIABLES
  has,         \* has[a]: what was obtained for access a
  cursor,      \* cursor[a]: the open cursor of its statement: the result set
               \* it was opened for, rows shown and rows there are; or Closed
  tx,          \* tx[a]: the session is in a transaction
  work,        \* work[a]: writes of that transaction
  committed    \* writes in the database

odbcVars == <<has, cursor, tx, work, committed>>

Closed == [open |-> FALSE, by |-> NULL, at |-> 0, n |-> 0]

OdbcLibTypeOK ==
  /\ has \in [Access -> SUBSET {"env", "dbc", "link", "session", "stmt"}]
  /\ cursor \in [Access -> [open : BOOLEAN, by : RS \cup {NULL},
                            at : 0 .. MaxRows, n : 0 .. MaxRows]]
  /\ tx \in [Access -> BOOLEAN]
  /\ work \in [Access -> Nat]
  /\ committed \in Nat

OdbcLibInit ==
  /\ has = [a \in Access |-> {}]
  /\ cursor = [a \in Access |-> Closed]
  /\ tx = [a \in Access |-> FALSE]
  /\ work = [a \in Access |-> 0]
  /\ committed = 0

-----------------------------------------------------------------------------
(* Handles: what is left of the set h after a call. *)

\* A handle others were made from cannot be freed before them.
MadeFrom(kind) ==
  CASE kind = "env" -> {"dbc"} [] kind = "dbc" -> {"link"} [] OTHER -> {}

SQLFreeHandle(h, kind) ==
  IF MadeFrom(kind) \cap h = {} THEN h \ {kind} ELSE h

SQLDisconnect(h) == h \ {"link", "session", "stmt"}

\* Cursors and transactions do not outlive what they are part of.
HasBecomes(new) ==
  /\ has' = new
  /\ cursor' = [a \in Access |-> IF "stmt" \in new[a] THEN cursor[a] ELSE Closed]
  /\ tx' = [a \in Access |-> tx[a] /\ "session" \in new[a]]
  /\ work' = [a \in Access |-> IF "session" \in new[a] THEN work[a] ELSE 0]

-----------------------------------------------------------------------------
(* SQLPrepare and SQLExecute on the statement handle of an access, or on    *)
(* none.                                                                    *)

Accepts(a) ==
  /\ a # NULL
  /\ {"stmt", "session"} \subseteq has[a]
  /\ ~cursor[a].open

\* The session is lost, and its transaction with it.
Lost(a) ==
  /\ Faults /\ Accepts(a)
  /\ HasBecomes([has EXCEPT ![a] = @ \ {"session"}])

\* The answer is lost after the transaction was committed.
LostCommit(a) == Lost(a) /\ committed' = committed + work[a]

\* A statement that fails and leaves its transaction as it is, or fails because
\* the session is lost.
Refused(a) ==
  \/ (~Accepts(a) \/ Faults) /\ UNCHANGED odbcVars
  \/ Lost(a) /\ UNCHANGED committed

\* A failure that costs the transaction and not the session: a deadlock that is
\* broken, a COMMIT that is refused.  A data source that keeps refusing until the
\* aborted transaction is ended is one that refuses what follows.
RollsBack(a) ==
  /\ Faults /\ Accepts(a)
  /\ tx' = [tx EXCEPT ![a] = FALSE]
  /\ work' = [work EXCEPT ![a] = 0]
  /\ UNCHANGED <<has, cursor, committed>>

Fails(a) == Refused(a) \/ RollsBack(a)

\* BEGIN inside a transaction is a warning, or commits it first.
execute_begin(a, ok) ==
  \/ /\ ok /\ Accepts(a)
     /\ tx' = [tx EXCEPT ![a] = TRUE]
     /\ \/ UNCHANGED <<work, committed>>
        \/ /\ work' = [work EXCEPT ![a] = 0]
           /\ committed' = committed + work[a]
     /\ UNCHANGED <<has, cursor>>
  \/ ~ok /\ Fails(a)

\* COMMIT, or ROLLBACK.  The answer to a COMMIT may be lost on either side of it.
execute_end(a, durable, ok) ==
  \/ /\ ok /\ Accepts(a)
     /\ tx' = [tx EXCEPT ![a] = FALSE]
     /\ work' = [work EXCEPT ![a] = 0]
     /\ committed' = IF durable THEN committed + work[a] ELSE committed
     /\ UNCHANGED <<has, cursor>>
  \/ ~ok /\ (Fails(a) \/ (durable /\ LostCommit(a)))

\* A write that finds no row to change is no SQL_SUCCESS but SQL_NO_DATA.
execute_write(a, ok) ==
  \/ /\ ok /\ Accepts(a)
     /\ IF tx[a]
        THEN work' = [work EXCEPT ![a] = @ + 1] /\ UNCHANGED committed
        ELSE committed' = committed + 1 /\ UNCHANGED work
     /\ UNCHANGED <<has, cursor, tx>>
  \/ ~ok /\ (Fails(a) \/ UNCHANGED odbcVars)

\* A SELECT for r, or for nobody: with k rows.
execute_select(a, r, k, ok) ==
  \/ /\ ok /\ Accepts(a)
     /\ cursor' = [cursor EXCEPT ![a] =
                     [open |-> TRUE, by |-> r, at |-> 0, n |-> k]]
     /\ UNCHANGED <<has, tx, work, committed>>
  \/ ~ok /\ Fails(a)

-----------------------------------------------------------------------------
(* Cursors. *)

\* SQLCloseCursor, and SQLMoreResults when there are no more results: no
\* statement of this model has more than one.
CursorCloses(a) ==
  /\ cursor' = [cursor EXCEPT ![a] = Closed]
  /\ UNCHANGED <<has, tx, work, committed>>

\* SQLFetchScroll that shows a row, and one that does not.
FetchRow(a) ==
  /\ cursor[a].open /\ cursor[a].at < cursor[a].n
  /\ cursor' = [cursor EXCEPT ![a].at = @ + 1]
  /\ UNCHANGED <<has, tx, work, committed>>

FetchNone(a) ==
  /\ ~cursor[a].open \/ cursor[a].at = cursor[a].n \/ Faults
  /\ UNCHANGED odbcVars

\* SQLFetch until there are no more rows, and SQLTables before that: its cursor
\* is read to the end and stays open.
FetchAll(a) ==
  /\ cursor[a].open
  /\ cursor' = [cursor EXCEPT ![a].at = cursor[a].n]
  /\ UNCHANGED <<has, tx, work, committed>>

TablesFetched(a) ==
  /\ Accepts(a)
  /\ cursor' = [cursor EXCEPT ![a].open = TRUE]
  /\ UNCHANGED <<has, tx, work, committed>>
=============================================================================
