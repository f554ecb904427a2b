------------------------------ MODULE MysqlLib ------------------------------
(***************************************************************************)
(* The MySQL client library and an InnoDB server as mysql_db.cpp uses      *)
(* them.  EXTERNAL: neither is in the repository.  Results are fetched row *)
(* by row from the server (mysql_use_result): until the last row is read,  *)
(* mysql_query() fails with "commands out of sync".  A mysql_query() that  *)
(* would wait for a row lock is not enabled until it can end.              *)
(***************************************************************************)
EXTENDS Naturals

CONSTANTS
  Mysql,    \* MYSQL* values
  Row,      \* rows that statements write
  NULL,
  Faults    \* statements may fail and connections be lost

ASSUME MysqlLibAssumption ==
  /\ NULL \notin Mysql
  /\ Faults \in BOOLEAN

VARIABLES
  link,        \* link[s]: "freed", "cut" without a server, or "up"
  autocommit,  \* autocommit[s]
  trx,         \* trx[s]: a transaction is open
  work,        \* work[s]: writes of the transaction
  holds,       \* holds[s]: rows it has locked
  result,      \* result[s]: "none", "waiting" for someone to use it, "used"
  committed    \* writes in the database

mysqlVars == <<link, autocommit, trx, work, holds, result, committed>>

MysqlLibTypeOK ==
  /\ link \in [Mysql -> {"freed", "cut", "up"}]
  /\ autocommit \in [Mysql -> BOOLEAN]
  /\ trx \in [Mysql -> BOOLEAN]
  /\ work \in [Mysql -> Nat]
  /\ holds \in [Mysql -> SUBSET Row]
  /\ result \in [Mysql -> {"none", "waiting", "used"}]
  /\ committed \in Nat

MysqlLibInit ==
  /\ link = [s \in Mysql |-> "freed"]
  /\ autocommit = [s \in Mysql |-> TRUE]
  /\ trx = [s \in Mysql |-> FALSE]
  /\ work = [s \in Mysql |-> 0]
  /\ holds = [s \in Mysql |-> {}]
  /\ result = [s \in Mysql |-> "none"]
  /\ committed = 0

\* mysql_query() gets as far as the server.
InSync(s) == link[s] = "up" /\ result[s] = "none"

TrxBecomes(s, open) ==
  /\ trx' = [trx EXCEPT ![s] = open]
  /\ work' = [work EXCEPT ![s] = 0]
  /\ holds' = [holds EXCEPT ![s] = {}]

\* The connection is lost: the server rolls the transaction back.
Lost(s) ==
  /\ Faults
  /\ link' = [link EXCEPT ![s] = "cut"]
  /\ result' = [result EXCEPT ![s] = "none"]
  /\ TrxBecomes(s, FALSE)

Commits(s) == committed' = committed + work[s]

\* The answer is lost after the transaction was committed.
LostCommit(s) == InSync(s) /\ Lost(s) /\ Commits(s)

\* A mysql_query() that fails, and changes no more than a failure can.
Fails(s) ==
  \/ /\ ~InSync(s) \/ Faults
     /\ UNCHANGED <<link, trx, work, holds, result, committed>>
  \/ InSync(s) /\ Lost(s) /\ UNCHANGED committed

-----------------------------------------------------------------------------
(* Connections. *)

\* mysql_init, mysql_real_connect and mysql_select_db, as far as they get:
\* nowhere, to a server that knows the user, to the database.
mysql_connect(s, upTo) ==
  /\ link[s] = "freed"
  /\ link' = [link EXCEPT ![s] = IF upTo = "init" THEN "cut" ELSE "up"]
  /\ UNCHANGED <<autocommit, trx, work, holds, result, committed>>

mysql_close(s) ==
  /\ link' = [link EXCEPT ![s] = "freed"]
  /\ result' = [result EXCEPT ![s] = "none"]
  /\ TrxBecomes(s, FALSE)
  /\ autocommit' = [autocommit EXCEPT ![s] = TRUE]
  /\ UNCHANGED committed

-----------------------------------------------------------------------------
(* mysql_query() of each kind of statement. *)

\* BEGIN commits what an open transaction has done.
query_begin(s) == InSync(s) /\ Commits(s) /\ TrxBecomes(s, TRUE)
                  /\ UNCHANGED <<link, result>>

\* A COMMIT that is refused, by a cluster that has seen a conflict, rolls back.
query_commit(s, ok) ==
  /\ UNCHANGED autocommit
  /\ \/ /\ ok /\ InSync(s)
        /\ Commits(s) /\ TrxBecomes(s, FALSE)
        /\ UNCHANGED <<link, result>>
     \/ ~ok /\ (Fails(s) \/ LostCommit(s))
     \/ /\ ~ok /\ Faults /\ InSync(s)
        /\ TrxBecomes(s, FALSE)
        /\ UNCHANGED <<link, result, committed>>

query_rollback(s, ok) ==
  /\ UNCHANGED autocommit
  /\ \/ /\ ok /\ InSync(s)
        /\ TrxBecomes(s, FALSE)
        /\ UNCHANGED <<link, result, committed>>
     \/ ~ok /\ Fails(s)

Locked(s, w) == \E g \in Mysql \ {s} : w \in holds[g]

\* A write that waits too long fails alone; one that closes a circle of
\* waits costs the transaction.
query_write(s, w, ok) ==
  /\ UNCHANGED autocommit
  /\ \/ /\ ok /\ InSync(s) /\ ~Locked(s, w)
        /\ IF autocommit[s] /\ ~trx[s]
           THEN committed' = committed + 1 /\ UNCHANGED <<trx, work, holds>>
           ELSE /\ trx' = [trx EXCEPT ![s] = TRUE]
                /\ work' = [work EXCEPT ![s] = @ + 1]
                /\ holds' = [holds EXCEPT ![s] = @ \cup {w}]
                /\ UNCHANGED committed
        /\ UNCHANGED <<link, result>>
     \/ ~ok /\ Fails(s)
     \/ /\ ~ok /\ InSync(s) /\ Locked(s, w)
        /\ UNCHANGED <<link, trx, work, holds, result, committed>>
     \/ /\ ~ok /\ InSync(s) /\ Locked(s, w) /\ holds[s] # {}
        /\ TrxBecomes(s, FALSE)
        /\ UNCHANGED <<link, result, committed>>

\* The rows of a SELECT are waiting, or used at once by mysql_use_result.
query_select(s, state, ok) ==
  /\ UNCHANGED autocommit
  /\ \/ /\ ok /\ InSync(s)
        /\ result' = [result EXCEPT ![s] = state]
        /\ UNCHANGED <<link, trx, work, holds, committed>>
     \/ ~ok /\ Fails(s)

\* A SET of the session that no property looks at.
query_set(s, ok) ==
  /\ UNCHANGED autocommit
  /\ \/ ok /\ InSync(s) /\ UNCHANGED <<link, trx, work, holds, result, committed>>
     \/ ~ok /\ Fails(s)

-----------------------------------------------------------------------------
(* mysql_fetch_row() up to the end of the result, or of the connection.     *)

fetch_end(s) ==
  /\ UNCHANGED <<autocommit, committed>>
  /\ \/ /\ result' = [result EXCEPT ![s] = "none"]
        /\ UNCHANGED <<link, trx, work, holds>>
     \/ Lost(s)
=============================================================================
