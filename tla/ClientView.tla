----------------------------- MODULE ClientView -----------------------------
(***************************************************************************)
(* What a client may conclude from the values the Connection interface     *)
(* returns, and from nothing else (src/dbabstract/db.h).  A driver module  *)
(* extends this one and reports the result of each call through a Saw...   *)
(* operator; its properties compare the conclusions with the state of the  *)
(* database.  No driver looks at these variables; a client does, when it   *)
(* gives a transaction up because of a failure it has seen in there.       *)
(***************************************************************************)
EXTENDS Connection

CONSTANT Heeds   \* failures for which clients give a transaction up: a "result"
                 \* that is false or zero, what errormsg() says of an "error"

ASSUME HeedsAssumption == Heeds \subseteq {"result", "error"}

VARIABLES
  inTx,    \* inTx[c]: a transaction was begun and not known to have ended
  told,    \* told[c]: writes accepted inside that transaction
  acked,   \* writes the clients were told are in the database for good
  spoiled  \* spoiled[c]: a failure the client heeds was seen in there

viewVars == <<inTx, told, acked, spoiled>>

\* enum TRANS_MODE.
TransMode ==
  {"READ_UNCOMMITTED", "READ_COMMITTED", "REPEATABLE_READ", "SERIALIZABLE"}

ViewTypeOK ==
  /\ inTx \in [Conn -> BOOLEAN]
  /\ told \in [Conn -> Nat]
  /\ acked \in Nat
  /\ spoiled \in [Conn -> BOOLEAN]

ViewInit ==
  /\ inTx = [c \in Conn |-> FALSE]
  /\ told = [c \in Conn |-> 0]
  /\ acked = 0
  /\ spoiled = [c \in Conn |-> FALSE]

SawNothing == UNCHANGED viewVars

Spoils(c, sign) == spoiled' = [spoiled EXCEPT ![c] = @ \/ (inTx[c] /\ sign \in Heeds)]

\* A failure of a statement that shows in the given sign.
SawFailure(c, sign) == Spoils(c, sign) /\ UNCHANGED <<inTx, told, acked>>

\* A call with nothing to conclude from but whether it succeeded.
SawResult(c, ok) == IF ok THEN SawNothing ELSE SawFailure(c, "result")

\* A client that has seen its transaction fail does not commit it.
WouldCommit(c) == ~spoiled[c]

\* execute() of a statement that writes.
SawWrite(c, ok) ==
  IF ok THEN /\ told' = IF inTx[c] THEN [told EXCEPT ![c] = @ + 1] ELSE told
             /\ acked' = IF inTx[c] THEN acked ELSE acked + 1
             /\ UNCHANGED <<inTx, spoiled>>
        ELSE SawFailure(c, "result")

\* beginTrans(): "If for some reason it fails, false will be returned".  The
\* writes of a transaction that was open are promised to nobody any more.
SawBegin(c, ok) ==
  IF ok THEN /\ inTx' = [inTx EXCEPT ![c] = TRUE]
             /\ told' = [told EXCEPT ![c] = 0]
             /\ spoiled' = [spoiled EXCEPT ![c] = FALSE]
             /\ UNCHANGED acked
        ELSE SawFailure(c, "result")

\* The transaction is over for the client; durable says how its writes ended.
SawEnd(c, durable) ==
  /\ inTx' = [inTx EXCEPT ![c] = FALSE]
  /\ told' = [told EXCEPT ![c] = 0]
  /\ acked' = IF durable THEN acked + told[c] ELSE acked
  /\ spoiled' = [spoiled EXCEPT ![c] = FALSE]

\* A commitTrans() that returns false may have ended the transaction: who heeds
\* that does not ask again.
SawCommit(c, ok) == IF ok THEN SawEnd(c, TRUE) ELSE SawFailure(c, "result")

SawRollback(c, ok) == IF ok THEN SawEnd(c, FALSE) ELSE SawFailure(c, "result")

\* open() and close(), or the end of the object: the session is a new one.
SawSession(c) == SawEnd(c, FALSE)
=============================================================================
