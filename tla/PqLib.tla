-------------------------------- MODULE PqLib --------------------------------
(***************************************************************************)
(* libpq and the PostgreSQL server as pq_db.cpp uses them.  EXTERNAL:      *)
(* neither is in the repository.  A connected PGconn is a session of the   *)
(* server; PQexec of a statement is an operator here, with what its        *)
(* PGresult says as the last parameter.  Sessions meet in the row locks of *)
(* the transactions that wrote; readers wait for nobody.                   *)
(***************************************************************************)
EXTENDS Naturals

CONSTANTS
  Session,   \* PGconn* values, each with its server process
  Row,       \* rows that statements write
  NULL,
  Faults     \* statements may fail, answers be lost, the server go down

ASSUME PqLibAssumption ==
  /\ NULL \notin Session
  /\ NULL \notin Row
  /\ Faults \in BOOLEAN

VARIABLES
  sess,       \* sess[s]: "free", "up", or "lost" while libpq still has it
  txs,        \* txs[s]: transaction status; "begun" is before any statement
  work,       \* work[s]: writes of the transaction
  holds,      \* holds[s]: rows it has locked
  wants,      \* wants[s]: the row a PQexec in progress will write, or NULL
  iso,        \* iso[s]: isolation level of the transaction, if there is one
  serverUp,   \* what PQping answers
  committed   \* writes in the database

pqVars == <<sess, txs, work, holds, wants, iso, serverUp, committed>>

\* The levels a transaction of the server can run at.
Level == {"READ_UNCOMMITTED", "READ_COMMITTED", "REPEATABLE_READ", "SERIALIZABLE"}

DefaultLevel == "READ_COMMITTED"

PqLibTypeOK ==
  /\ sess \in [Session -> {"free", "up", "lost"}]
  /\ txs \in [Session -> {"idle", "begun", "intrans", "inerror"}]
  /\ work \in [Session -> Nat]
  /\ holds \in [Session -> SUBSET Row]
  /\ wants \in [Session -> Row \cup {NULL}]
  /\ iso \in [Session -> Level]
  /\ serverUp \in BOOLEAN
  /\ committed \in Nat

PqLibInit ==
  /\ sess = [s \in Session |-> "free"]
  /\ txs = [s \in Session |-> "idle"]
  /\ work = [s \in Session |-> 0]
  /\ holds = [s \in Session |-> {}]
  /\ wants = [s \in Session |-> NULL]
  /\ iso = [s \in Session |-> DefaultLevel]
  /\ serverUp = TRUE
  /\ committed = 0

InTransaction(s) == txs[s] \in {"begun", "intrans"}

-----------------------------------------------------------------------------
(* How the transaction of a session may move. *)

\* Everything the session did is dropped and it is in status st.
Drops(s, st) ==
  /\ txs' = [txs EXCEPT ![s] = st]
  /\ iso' = [iso EXCEPT ![s] = DefaultLevel]
  /\ work' = [work EXCEPT ![s] = 0]
  /\ holds' = [holds EXCEPT ![s] = {}]

\* A failing statement aborts the transaction it is in.
Aborts(s) ==
  /\ IF InTransaction(s) THEN Drops(s, "inerror")
                         ELSE UNCHANGED <<txs, work, holds, iso>>
  /\ UNCHANGED committed

\* The connection breaks: the server process rolls back and ends.
Breaks(s) ==
  /\ Faults
  /\ sess' = [sess EXCEPT ![s] = "lost"]
  /\ Drops(s, "idle")

\* Statements that fail without touching anything.
Refused(s) == sess[s] = "lost" \/ txs[s] = "inerror"

-----------------------------------------------------------------------------
(* Connections. *)

\* A failed PQconnectdb is followed by PQfinish in the driver: it leaves no
\* trace, so only a successful one is modelled.
PQconnectdb(s) ==
  /\ serverUp /\ sess[s] = "free"
  /\ sess' = [sess EXCEPT ![s] = "up"]
  /\ UNCHANGED <<txs, work, holds, wants, iso, serverUp, committed>>

PQfinish(s) ==
  /\ sess' = [sess EXCEPT ![s] = "free"]
  /\ Drops(s, "idle")
  /\ UNCHANGED <<wants, serverUp, committed>>

\* PQping asks whether the server answers, over a connection of its own.
PQping == serverUp

Crash ==
  /\ Faults /\ serverUp
  /\ serverUp' = FALSE
  /\ sess' = [s \in Session |-> IF sess[s] = "up" THEN "lost" ELSE sess[s]]
  /\ txs' = [s \in Session |-> "idle"]
  /\ work' = [s \in Session |-> 0]
  /\ holds' = [s \in Session |-> {}]
  /\ iso' = [s \in Session |-> DefaultLevel]
  /\ UNCHANGED <<wants, committed>>

Restart ==
  /\ ~serverUp
  /\ serverUp' = TRUE
  /\ UNCHANGED <<sess, txs, work, holds, wants, iso, committed>>

-----------------------------------------------------------------------------
(* PQexec of the statements that control transactions.  ok: the status of   *)
(* the result is PGRES_COMMAND_OK.                                          *)

\* A BEGIN inside a transaction is a warning, not an error.
exec_begin(s, ok) ==
  /\ ok = ~Refused(s)
  /\ txs' = IF ok /\ txs[s] = "idle" THEN [txs EXCEPT ![s] = "begun"] ELSE txs
  /\ UNCHANGED <<sess, work, holds, wants, iso, serverUp, committed>>

\* END of an aborted transaction rolls it back and succeeds; END without a
\* transaction is a warning.  The server may refuse to commit (a deferred
\* constraint, a conflict of serializable transactions): it rolls back, and the
\* session goes on outside of a transaction, where END would succeed.  The
\* answer may be lost on either side of the commit.
exec_end(s, ok) ==
  \/ /\ ok /\ sess[s] = "up"
     /\ committed' = IF InTransaction(s) THEN committed + work[s] ELSE committed
     /\ Drops(s, "idle")
     /\ UNCHANGED <<sess, wants, serverUp>>
  \/ /\ ~ok /\ sess[s] = "lost"
     /\ UNCHANGED pqVars
  \/ /\ ~ok /\ sess[s] = "up" /\ Faults /\ InTransaction(s)
     /\ Drops(s, "idle")
     /\ UNCHANGED <<sess, wants, serverUp, committed>>
  \/ /\ ~ok /\ sess[s] = "up"
     /\ Breaks(s)
     /\ \/ UNCHANGED committed
        \/ InTransaction(s) /\ committed' = committed + work[s]
     /\ UNCHANGED <<wants, serverUp>>

exec_rollback(s, ok) ==
  /\ ok = (sess[s] = "up")
  /\ IF ok THEN Drops(s, "idle") ELSE UNCHANGED <<txs, work, holds, iso>>
  /\ UNCHANGED <<sess, wants, serverUp, committed>>

\* SET SESSION TRANSACTION ISOLATION LEVEL: outside a transaction a warning
\* without effect, inside one an error once a statement has run.
exec_set(s, level, ok) ==
  \/ /\ ok /\ ~Refused(s)
     /\ txs[s] = "intrans" => iso[s] = level
     /\ iso' = IF txs[s] = "begun" THEN [iso EXCEPT ![s] = level] ELSE iso
     /\ UNCHANGED <<sess, txs, work, holds, wants, serverUp, committed>>
  \/ /\ ~ok /\ ~Refused(s) /\ txs[s] = "intrans" /\ iso[s] # level
     /\ Aborts(s)
     /\ UNCHANGED <<sess, wants, serverUp>>
  \/ ~ok /\ Refused(s) /\ UNCHANGED pqVars

-----------------------------------------------------------------------------
(* PQexec of statements that read and write. *)

\* A statement of a transaction has run in it.
Uses(s) == IF txs[s] = "begun" THEN [txs EXCEPT ![s] = "intrans"] ELSE txs

\* status: PGRES_TUPLES_OK, PGRES_COMMAND_OK, an error, or no result at all
\* when libpq already knows that the connection is gone.
exec_query(s, status) ==
  \/ /\ status \in {"TUPLES_OK", "COMMAND_OK"} /\ ~Refused(s)
     /\ txs' = Uses(s)
     /\ UNCHANGED <<sess, work, holds, wants, iso, serverUp, committed>>
  \/ /\ status = "ERROR" /\ Refused(s)
     /\ UNCHANGED pqVars
  \/ /\ status = "ERROR" /\ Faults /\ ~Refused(s)
     /\ Aborts(s)
     /\ UNCHANGED <<sess, wants, serverUp>>
  \/ /\ status = "NO_RESULT" /\ sess[s] = "lost"
     /\ UNCHANGED pqVars

\* PQexec sends a write and does not return before it is answered.
send_write(s, w) ==
  /\ wants' = [wants EXCEPT ![s] = w]
  /\ UNCHANGED <<sess, txs, work, holds, iso, serverUp, committed>>

Blocked(s) ==
  ~Refused(s) /\ \E g \in Session \ {s} : wants[s] \in holds[g]

\* Two sessions that wait for each other: the server aborts one of them.
Deadlocked(s) ==
  \E g \in Session \ {s} :
    wants[s] \in holds[g] /\ wants[g] # NULL /\ wants[g] \in holds[s]

WriteTakesEffect(s) ==
  IF txs[s] = "idle"
  THEN /\ committed' = committed + 1
       /\ UNCHANGED <<txs, work, holds>>
  ELSE /\ txs' = Uses(s)
       /\ work' = [work EXCEPT ![s] = @ + 1]
       /\ holds' = [holds EXCEPT ![s] = @ \cup {wants[s]}]
       /\ UNCHANGED committed

\* The answer to a write, or what libpq makes of its absence.
answer_write(s, ok) ==
  /\ wants' = [wants EXCEPT ![s] = NULL]
  /\ UNCHANGED serverUp
  /\ \/ /\ ok /\ ~Refused(s) /\ ~Blocked(s)
        /\ WriteTakesEffect(s)
        /\ UNCHANGED <<sess, iso>>
     \/ /\ ~ok /\ Refused(s)
        /\ UNCHANGED <<sess, txs, work, holds, iso, committed>>
     \/ /\ ~ok /\ ~Refused(s) /\ (Deadlocked(s) \/ Faults)
        /\ Aborts(s)
        /\ UNCHANGED sess
     \/ /\ ~ok /\ ~Refused(s)
        /\ Breaks(s)
        /\ \/ UNCHANGED committed
           \/ txs[s] = "idle" /\ ~Blocked(s) /\ committed' = committed + 1
=============================================================================
