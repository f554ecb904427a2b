------------------------------ MODULE PqProofs ------------------------------
(***************************************************************************)
(* Theorems of Pq, for every number of connections, sessions, result sets  *)
(* and rows, with a server that fails at any time: types, sessions that    *)
(* two connections never share and that have an owner, writes that careful *)
(* clients were told of, and result sets that implement Cursor.            *)
(***************************************************************************)
EXTENDS Pq, ClientViewProofs

LEMMA DropsType ==
  ASSUME PqLibTypeOK, NEW s \in Session,
         NEW st \in {"idle", "begun", "intrans", "inerror"}, Drops(s, st)
  PROVE  /\ txs' \in [Session -> {"idle", "begun", "intrans", "inerror"}]
         /\ work' \in [Session -> Nat]
         /\ holds' \in [Session -> SUBSET Row]
         /\ iso' \in [Session -> Level]
  BY DEF PqLibTypeOK, Drops, DefaultLevel, Level

LEMMA AbortsType ==
  ASSUME PqLibTypeOK, NEW s \in Session, Aborts(s)
  PROVE  /\ txs' \in [Session -> {"idle", "begun", "intrans", "inerror"}]
         /\ work' \in [Session -> Nat]
         /\ holds' \in [Session -> SUBSET Row]
         /\ iso' \in [Session -> Level]
         /\ committed' \in Nat
<1>1. CASE InTransaction(s)
  BY <1>1, DropsType DEF Aborts, PqLibTypeOK
<1>2. CASE ~InTransaction(s)
  BY <1>2 DEF Aborts, PqLibTypeOK
<1>3. QED
  BY <1>1, <1>2

LEMMA BreaksType ==
  ASSUME PqLibTypeOK, NEW s \in Session, Breaks(s)
  PROVE  /\ sess' \in [Session -> {"free", "up", "lost"}]
         /\ txs' \in [Session -> {"idle", "begun", "intrans", "inerror"}]
         /\ work' \in [Session -> Nat]
         /\ holds' \in [Session -> SUBSET Row]
         /\ iso' \in [Session -> Level]
<1>1. sess' \in [Session -> {"free", "up", "lost"}]
  BY DEF PqLibTypeOK, Breaks
<1>2. QED
  BY <1>1, DropsType DEF Breaks

LEMMA UsesType ==
  ASSUME PqLibTypeOK, NEW s \in Session
  PROVE  Uses(s) \in [Session -> {"idle", "begun", "intrans", "inerror"}]
  BY DEF PqLibTypeOK, Uses

\* PQconnectdb, PQfinish and the server itself keep the types.
LEMMA SessionType ==
  ASSUME PqLibTypeOK
  PROVE  /\ \A s \in Session : PQconnectdb(s) => PqLibTypeOK'
         /\ \A s \in Session : PQfinish(s) => PqLibTypeOK'
         /\ Crash => PqLibTypeOK'
         /\ Restart => PqLibTypeOK'
<1>1. ASSUME NEW s \in Session, PQconnectdb(s) PROVE PqLibTypeOK'
  BY <1>1 DEF PQconnectdb, PqLibTypeOK, DefaultLevel, Level
<1>2. ASSUME NEW s \in Session, PQfinish(s) PROVE PqLibTypeOK'
  <2>1. sess' \in [Session -> {"free", "up", "lost"}]
    BY <1>2 DEF PQfinish, PqLibTypeOK
  <2>2. QED
    BY <1>2, <2>1, DropsType DEF PQfinish, PqLibTypeOK
<1>3. ASSUME Crash PROVE PqLibTypeOK'
  <2>1. sess' \in [Session -> {"free", "up", "lost"}]
    BY <1>3 DEF Crash, PqLibTypeOK
  <2>2. QED
    BY <1>3, <2>1 DEF Crash, PqLibTypeOK, DefaultLevel, Level
<1>4. ASSUME Restart PROVE PqLibTypeOK'
  BY <1>4 DEF Restart, PqLibTypeOK
<1>5. QED
  BY <1>1, <1>2, <1>3, <1>4

\* So does every PQexec.
LEMMA ExecType ==
  ASSUME PqLibTypeOK, NEW s \in Session
  PROVE  /\ \A ok \in BOOLEAN :
              /\ exec_begin(s, ok) => PqLibTypeOK'
              /\ exec_end(s, ok) => PqLibTypeOK'
              /\ exec_rollback(s, ok) => PqLibTypeOK'
              /\ wants[s] # NULL /\ answer_write(s, ok) => PqLibTypeOK'
         /\ \A level \in Level, ok \in BOOLEAN :
              exec_set(s, level, ok) => PqLibTypeOK'
         /\ \A status : exec_query(s, status) => PqLibTypeOK'
         /\ \A w \in Row : send_write(s, w) => PqLibTypeOK'
<1>0. /\ work[s] \in Nat /\ committed \in Nat /\ committed + 1 \in Nat
      /\ work[s] + 1 \in Nat /\ committed + work[s] \in Nat
      /\ DefaultLevel \in Level
  BY DEF PqLibTypeOK, DefaultLevel, Level
<1>1. ASSUME NEW ok \in BOOLEAN, exec_begin(s, ok) PROVE  PqLibTypeOK'
  BY <1>0, <1>1 DEF exec_begin, PqLibTypeOK
<1>2. ASSUME NEW ok \in BOOLEAN, exec_end(s, ok) PROVE  PqLibTypeOK'
  <2>1. CASE ok
    BY <1>0, <1>2, <2>1, DropsType DEF exec_end, PqLibTypeOK
  <2>2. CASE UNCHANGED pqVars
    BY <2>2 DEF pqVars, PqLibTypeOK
  <2>3. CASE ~ok /\ Breaks(s) /\ UNCHANGED <<wants, serverUp>>
             /\ committed' \in {committed, committed + work[s]}
    BY <1>0, <2>3, BreaksType DEF PqLibTypeOK
  <2>4. CASE Drops(s, "idle") /\ UNCHANGED <<sess, wants, serverUp, committed>>
    BY <1>0, <2>4, DropsType DEF PqLibTypeOK
  <2>5. QED
    BY <1>2, <2>1, <2>2, <2>3, <2>4 DEF exec_end
<1>3. ASSUME NEW ok \in BOOLEAN, exec_rollback(s, ok) PROVE  PqLibTypeOK'
  <2>1. CASE ok
    BY <1>3, <2>1, DropsType DEF exec_rollback, PqLibTypeOK
  <2>2. CASE ~ok
    BY <1>3, <2>2 DEF exec_rollback, PqLibTypeOK
  <2>3. QED
    BY <2>1, <2>2
<1>4. ASSUME NEW level \in Level, NEW ok \in BOOLEAN, exec_set(s, level, ok)
      PROVE  PqLibTypeOK'
  <2>1. CASE ok
    BY <1>4, <2>1 DEF exec_set, PqLibTypeOK
  <2>2. CASE UNCHANGED pqVars
    BY <2>2 DEF pqVars, PqLibTypeOK
  <2>3. CASE Aborts(s) /\ UNCHANGED <<sess, wants, serverUp>>
    BY <2>3, AbortsType DEF PqLibTypeOK
  <2>4. QED
    BY <1>4, <2>1, <2>2, <2>3 DEF exec_set
<1>5. ASSUME NEW status, exec_query(s, status) PROVE  PqLibTypeOK'
  <2>1. CASE /\ txs' = Uses(s)
             /\ UNCHANGED <<sess, work, holds, wants, iso, serverUp, committed>>
    BY <2>1, UsesType DEF PqLibTypeOK
  <2>2. CASE UNCHANGED pqVars
    BY <2>2 DEF pqVars, PqLibTypeOK
  <2>3. CASE Aborts(s) /\ UNCHANGED <<sess, wants, serverUp>>
    BY <2>3, AbortsType DEF PqLibTypeOK
  <2>4. QED
    BY <1>5, <2>1, <2>2, <2>3 DEF exec_query
<1>6. ASSUME NEW w \in Row, send_write(s, w) PROVE  PqLibTypeOK'
  BY <1>6 DEF send_write, PqLibTypeOK
<1>7. ASSUME NEW ok \in BOOLEAN, wants[s] # NULL /\ answer_write(s, ok)
      PROVE  PqLibTypeOK'
  <2>1. /\ wants' \in [Session -> Row \cup {NULL}]
        /\ serverUp' \in BOOLEAN
    BY <1>7 DEF answer_write, PqLibTypeOK
  <2>2. CASE WriteTakesEffect(s) /\ ~Blocked(s) /\ ok /\ UNCHANGED <<sess, iso>>
    <3>1. CASE txs[s] = "idle"
      BY <1>0, <2>1, <2>2, <3>1 DEF WriteTakesEffect, PqLibTypeOK
    <3>2. CASE txs[s] # "idle"
      <4>1. wants[s] \in Row
        BY <1>7 DEF PqLibTypeOK
      <4>2. /\ txs' = Uses(s) /\ UNCHANGED <<sess, iso, committed>>
            /\ work' = [work EXCEPT ![s] = work[s] + 1]
            /\ holds' = [holds EXCEPT ![s] = holds[s] \cup {wants[s]}]
        BY <2>2, <3>2 DEF WriteTakesEffect
      <4>3. work' \in [Session -> Nat] /\ holds' \in [Session -> SUBSET Row]
        BY <1>0, <4>1, <4>2 DEF PqLibTypeOK
      <4>4. QED
        BY <2>1, <4>2, <4>3, UsesType DEF PqLibTypeOK
    <3>3. QED
      BY <3>1, <3>2
  <2>3. CASE UNCHANGED <<sess, txs, work, holds, iso, committed>>
    BY <2>1, <2>3 DEF PqLibTypeOK
  <2>4. CASE Aborts(s) /\ UNCHANGED sess
    BY <2>1, <2>4, AbortsType DEF PqLibTypeOK
  <2>5. CASE Breaks(s) /\ committed' \in {committed, committed + 1}
    BY <1>0, <2>1, <2>5, BreaksType DEF PqLibTypeOK
  <2>6. QED
    BY <1>7, <2>2, <2>3, <2>4, <2>5 DEF answer_write
<1>8. QED
  BY <1>1, <1>2, <1>3, <1>4, <1>5, <1>6, <1>7

-----------------------------------------------------------------------------
(* The inductive invariant.                                                *)

\* A session belongs to one connection object, and is not free meanwhile.
SessionUnshared ==
  /\ \A c \in Conn : pgconn_[c] # NULL => sess[pgconn_[c]] # "free"
  /\ \A c, d \in Conn : pgconn_[c] # NULL /\ pgconn_[c] = pgconn_[d] => c = d

\* Rows are locked only by a transaction that is alive and has run something.
LocksInTransaction ==
  \A s \in Session : /\ holds[s] # {} => txs[s] = "intrans"
                     /\ sess[s] = "free" => txs[s] = "idle"

\* The client knows of every transaction there is, dead or alive; it may
\* believe in more.
ViewCovers ==
  \A c \in Conn : pgconn_[c] # NULL /\ txs[pgconn_[c]] # "idle" => inTx[c]

IInv == TypeOK /\ SessionUnshared /\ LocksInTransaction /\ ViewCovers

LEMMA InitIInv == Init => IInv
<1> SUFFICES ASSUME Init PROVE IInv
  OBVIOUS
<1>1. PqLibTypeOK
  BY DEF Init, PqLibInit, PqLibTypeOK, DefaultLevel, Level
<1>2. RefTypeOK /\ ViewTypeOK
  BY DEF Init, RefInit, RefTypeOK, ViewInit, ViewTypeOK
<1>3. res \in [RS -> ResultSet]
  BY PqAssumption DEF Init, ResultSet, NoResultSet
<1>4. TypeOK
  BY <1>1, <1>2, <1>3 DEF Init, TypeOK
<1>5. QED
  BY <1>4 DEF Init, PqLibInit, IInv, SessionUnshared, LocksInTransaction, ViewCovers

\* What a PQexec of session s leaves alone, and what it does to s.
Local(s) ==
  /\ \A g \in Session \ {s} : /\ sess'[g] = sess[g]
                             /\ txs'[g] = txs[g]
                             /\ holds'[g] = holds[g]
  /\ sess'[s] = "free" => sess[s] = "free"
  /\ holds'[s] # {} => txs'[s] = "intrans"

LEMMA ExecLocal ==
  ASSUME IInv, NEW s \in Session, sess[s] # "free"
  PROVE  /\ \A ok \in BOOLEAN :
              /\ exec_begin(s, ok) =>
                   Local(s) /\ (~ok => txs'[s] = txs[s])
              /\ exec_end(s, ok) \/ exec_rollback(s, ok) =>
                   Local(s) /\ (txs'[s] = "idle" \/ (~ok /\ txs'[s] = txs[s]))
              /\ answer_write(s, ok) =>
                   Local(s) /\ (txs[s] = "idle" => txs'[s] = "idle")
         /\ \A level, ok : exec_set(s, level, ok) =>
              Local(s) /\ (txs[s] = "idle" => txs'[s] = "idle")
         /\ \A status : exec_query(s, status) =>
              Local(s) /\ (txs[s] = "idle" => txs'[s] = "idle")
         /\ \A w : send_write(s, w) =>
              Local(s) /\ (txs[s] = "idle" => txs'[s] = "idle")
<1>0. /\ PqLibTypeOK
      /\ holds[s] # {} => txs[s] = "intrans"
      /\ sess \in [Session -> {"free", "up", "lost"}]
      /\ txs \in [Session -> {"idle", "begun", "intrans", "inerror"}]
      /\ holds \in [Session -> SUBSET Row]
  BY DEF IInv, TypeOK, PqLibTypeOK, LocksInTransaction
<1>1. ASSUME NEW st, Drops(s, st)
      PROVE  /\ \A g \in Session \ {s} : txs'[g] = txs[g] /\ holds'[g] = holds[g]
             /\ holds'[s] = {} /\ txs'[s] = st
  BY <1>0, <1>1 DEF Drops
<1>2. ASSUME Aborts(s), UNCHANGED sess
      PROVE  Local(s) /\ (txs[s] = "idle" => txs'[s] = "idle")
  BY <1>0, <1>1, <1>2 DEF Aborts, Local, InTransaction
<1>3. ASSUME Breaks(s) PROVE Local(s) /\ txs'[s] = "idle"
  BY <1>0, <1>1, <1>3 DEF Breaks, Local
<1>4. ASSUME UNCHANGED <<sess, txs, holds>>
      PROVE  Local(s) /\ txs'[s] = txs[s]
  BY <1>0, <1>4 DEF Local
<1>5. ASSUME UNCHANGED <<sess, holds>>, txs' = Uses(s)
      PROVE  Local(s) /\ (txs[s] = "idle" => txs'[s] = "idle")
  BY <1>0, <1>5 DEF Local, Uses
<1>6. ASSUME NEW ok \in BOOLEAN, exec_begin(s, ok)
      PROVE  Local(s) /\ (~ok => txs'[s] = txs[s])
  BY <1>0, <1>4, <1>6 DEF exec_begin, Local
<1>7. ASSUME NEW ok \in BOOLEAN, exec_end(s, ok)
      PROVE  Local(s) /\ (txs'[s] = "idle" \/ (~ok /\ txs'[s] = txs[s]))
  <2>1. CASE Drops(s, "idle") /\ UNCHANGED sess
    BY <1>0, <1>1, <2>1 DEF Local
  <2>2. QED
    BY <1>3, <1>4, <1>7, <2>1 DEF exec_end, pqVars
<1>8. ASSUME NEW ok \in BOOLEAN, exec_rollback(s, ok)
      PROVE  Local(s) /\ (txs'[s] = "idle" \/ (~ok /\ txs'[s] = txs[s]))
  <2>1. CASE ok
    BY <1>0, <1>1, <1>8, <2>1 DEF exec_rollback, Local
  <2>2. QED
    BY <1>4, <1>8, <2>1 DEF exec_rollback
<1>9. ASSUME NEW level, NEW ok, exec_set(s, level, ok)
      PROVE  Local(s) /\ (txs[s] = "idle" => txs'[s] = "idle")
  BY <1>2, <1>4, <1>9 DEF exec_set, pqVars
<1>10. ASSUME NEW status, exec_query(s, status)
       PROVE  Local(s) /\ (txs[s] = "idle" => txs'[s] = "idle")
  BY <1>2, <1>4, <1>5, <1>10 DEF exec_query, pqVars
<1>11. ASSUME NEW w, send_write(s, w)
       PROVE  Local(s) /\ (txs[s] = "idle" => txs'[s] = "idle")
  BY <1>4, <1>11 DEF send_write
<1>12. ASSUME NEW ok \in BOOLEAN, answer_write(s, ok)
       PROVE  Local(s) /\ (txs[s] = "idle" => txs'[s] = "idle")
  <2>1. CASE WriteTakesEffect(s) /\ ~Refused(s) /\ UNCHANGED sess
    BY <1>0, <1>4, <2>1 DEF WriteTakesEffect, Refused, Uses, Local
  <2>2. CASE UNCHANGED <<sess, txs, work, holds, committed>>
    BY <1>4, <2>2
  <2>3. QED
    BY <1>2, <1>3, <1>12, <2>1, <2>2 DEF answer_write
<1>13. QED
  BY <1>6, <1>7, <1>8, <1>9, <1>10, <1>11, <1>12

\* A PQexec on the session of c keeps the invariant if the client of c hears
\* of the transaction it leaves behind.
LEMMA ExecIInv ==
  ASSUME IInv, NEW c \in Conn, pgconn_[c] # NULL,
         UNCHANGED <<ref, pgconn_>>, res' \in [RS -> ResultSet],
         PqLibTypeOK', ViewTypeOK', Local(pgconn_[c]),
         \A d \in Conn \ {c} : inTx'[d] = inTx[d],
         txs'[pgconn_[c]] # "idle" => inTx'[c]
  PROVE  IInv'
<1> DEFINE s == pgconn_[c]
<1>1. TypeOK'
  BY DEF IInv, TypeOK, RefTypeOK
<1>2. /\ \A d \in Conn : pgconn_[d] # NULL => pgconn_[d] \in Session
      /\ \A d \in Conn \ {c} : pgconn_[d] # NULL => pgconn_[d] # s
  BY DEF IInv, TypeOK, SessionUnshared
<1>3. SessionUnshared'
  <2>1. \A g \in Session : sess'[g] = "free" => sess[g] = "free"
    BY DEF Local
  <2>2. QED
    BY <1>2, <2>1 DEF IInv, SessionUnshared
<1>4. LocksInTransaction'
  BY <1>2 DEF IInv, SessionUnshared, LocksInTransaction, Local
<1>5. ViewCovers'
  BY <1>2 DEF IInv, ViewCovers, Local
<1>6. QED
  BY <1>1, <1>3, <1>4, <1>5 DEF IInv

\* A session ends with the connection object's hold on it.
LEMMA CloseSessionIInv ==
  ASSUME IInv, NEW c \in Conn, CloseSession(c), SawSession(c),
         ref' \in [Conn -> Nat], UNCHANGED res
  PROVE  IInv'
<1>0. /\ PqLibTypeOK /\ ViewTypeOK
      /\ pgconn_[c] # NULL => pgconn_[c] \in Session
      /\ pgconn_ \in [Conn -> Session \cup {NULL}]
  BY DEF IInv, TypeOK
<1>1. PqLibTypeOK'
  BY <1>0, SessionType DEF CloseSession, PqLibTypeOK, pqVars
<1>2. ViewTypeOK' /\ \A d \in Conn \ {c} : inTx'[d] = inTx[d]
  BY <1>0, ViewType
<1>3. /\ pgconn_'[c] = NULL
      /\ \A d \in Conn \ {c} : pgconn_'[d] = pgconn_[d]
      /\ pgconn_' \in [Conn -> Session \cup {NULL}]
  BY <1>0 DEF CloseSession
<1>4. TypeOK'
  BY <1>1, <1>2, <1>3 DEF IInv, TypeOK, RefTypeOK
<1>5. \A g \in Session :
        \/ /\ sess'[g] = sess[g] /\ txs'[g] = txs[g] /\ holds'[g] = holds[g]
        \/ g = pgconn_[c] /\ txs'[g] = "idle" /\ holds'[g] = {}
  BY <1>0 DEF CloseSession, PQfinish, Drops, pqVars, PqLibTypeOK
<1>6. \A d \in Conn \ {c} : pgconn_[d] # NULL =>
        pgconn_[d] \in Session /\ pgconn_[d] # pgconn_[c]
  BY <1>0 DEF IInv, SessionUnshared
<1>7. SessionUnshared'
  BY <1>3, <1>5, <1>6 DEF IInv, SessionUnshared
  \* the session that became free is no connection's any more
<1>8. LocksInTransaction'
  BY <1>5 DEF IInv, LocksInTransaction
<1>9. ViewCovers'
  BY <1>2, <1>3, <1>5, <1>6 DEF IInv, ViewCovers
<1>10. QED
  BY <1>4, <1>7, <1>8, <1>9 DEF IInv

LEMMA ConnStepIInv ==
  ASSUME IInv, NEW c \in Conn, ConnStep(c)
  PROVE  IInv'
<1>0. /\ TypeOK /\ PqLibTypeOK /\ ViewTypeOK /\ RefTypeOK
      /\ ref[c] \in Nat
      /\ pgconn_ \in [Conn -> Session \cup {NULL}]
      /\ pgconn_[c] # NULL => pgconn_[c] \in Session /\ sess[pgconn_[c]] # "free"
      /\ txs[pgconn_[c]] # "idle" /\ pgconn_[c] # NULL => inTx[c]
      /\ inTx \in [Conn -> BOOLEAN]
      /\ TransMode = Level
  BY DEF IInv, TypeOK, RefTypeOK, SessionUnshared,
     ViewCovers, ViewTypeOK, TransMode, Level
<1>1. CASE CreateConnection(c)
  <2>1. /\ ref' \in [Conn -> Nat] /\ pgconn_' = [pgconn_ EXCEPT ![c] = NULL]
        /\ UNCHANGED <<viewVars, pqVars, res>>
    BY <1>0, <1>1 DEF CreateConnection, Construct, RefTypeOK, SawNothing
  <2>2. /\ pgconn_'[c] = NULL
        /\ \A d \in Conn \ {c} : pgconn_'[d] = pgconn_[d]
        /\ pgconn_' \in [Conn -> Session \cup {NULL}]
    BY <1>0, <2>1
  <2>3. TypeOK'
    BY <2>1, <2>2 DEF IInv, TypeOK, RefTypeOK, viewVars, ViewTypeOK, pqVars, PqLibTypeOK
  <2>4. QED
    BY <2>1, <2>2, <2>3 DEF IInv, viewVars, pqVars, SessionUnshared,
       LocksInTransaction, ViewCovers
<1>2. CASE DuplicateConnection(c)
  <2>1. ref' \in [Conn -> Nat] /\ UNCHANGED <<viewVars, pqVars, driverVars>>
    BY <1>0, <1>2 DEF DuplicateConnection, Duplicate, RefTypeOK
  <2>2. QED
    BY <2>1 DEF IInv, TypeOK, RefTypeOK, viewVars, ViewTypeOK, pqVars, driverVars,
       PqLibTypeOK, SessionUnshared, LocksInTransaction, ViewCovers
<1>3. CASE Open(c)
  <2>1. ViewTypeOK' /\ \A d \in Conn \ {c} : inTx'[d] = inTx[d]
    BY <1>0, <1>3, ViewType DEF Open
  <2>2. UNCHANGED <<ref, res>>
    BY <1>3 DEF Open
  <2>3. CASE \E s \in Session :
               PQconnectdb(s) /\ pgconn_' = [pgconn_ EXCEPT ![c] = s]
    <3>1. PICK s \in Session :
            PQconnectdb(s) /\ pgconn_' = [pgconn_ EXCEPT ![c] = s]
      BY <2>3
    <3>2. /\ pgconn_'[c] = s
          /\ \A d \in Conn \ {c} : pgconn_'[d] = pgconn_[d]
          /\ pgconn_' \in [Conn -> Session \cup {NULL}]
      BY <1>0, <3>1
    <3>3. PqLibTypeOK'
      BY <1>0, <3>1, SessionType
    <3>4. TypeOK'
      BY <2>1, <2>2, <3>2, <3>3 DEF IInv, TypeOK, RefTypeOK
    <3>5. /\ sess[s] = "free" /\ sess' = [sess EXCEPT ![s] = "up"]
          /\ UNCHANGED <<txs, holds>>
      BY <3>1 DEF PQconnectdb
    <3>6. txs[s] = "idle" /\ s # NULL
      BY <3>5, PqLibAssumption DEF IInv, LocksInTransaction
    <3>7. \A d \in Conn : pgconn_[d] # s
      BY <3>5, <3>6 DEF IInv, SessionUnshared
    <3>8. \A g \in Session : sess'[g] = IF g = s THEN "up" ELSE sess[g]
      BY <1>0, <3>5 DEF PqLibTypeOK
    <3>9. SessionUnshared'
      BY <1>0, <3>2, <3>6, <3>7, <3>8 DEF IInv, SessionUnshared
    <3>10. LocksInTransaction' /\ ViewCovers'
      BY <2>1, <3>2, <3>5, <3>6, <3>8 DEF IInv, LocksInTransaction, ViewCovers
    <3>11. QED
      BY <3>4, <3>9, <3>10 DEF IInv
  <2>4. CASE UNCHANGED pqVars /\ pgconn_' = [pgconn_ EXCEPT ![c] = NULL]
    <3>1. /\ pgconn_'[c] = NULL
          /\ \A d \in Conn \ {c} : pgconn_'[d] = pgconn_[d]
          /\ pgconn_' \in [Conn -> Session \cup {NULL}]
      BY <1>0, <2>4
    <3>2. TypeOK'
      BY <2>1, <2>2, <2>4, <3>1 DEF IInv, TypeOK, RefTypeOK, pqVars, PqLibTypeOK
    <3>3. QED
      BY <2>1, <2>4, <3>1, <3>2 DEF IInv, pqVars, SessionUnshared,
         LocksInTransaction, ViewCovers
  <2>5. QED
    BY <1>3, <2>3, <2>4 DEF Open
<1>4. CASE Close(c)
  BY <1>0, <1>4, CloseSessionIInv DEF Close, RefTypeOK
<1>5. CASE ReleaseConnection(c)
  <2>1. ref' \in [Conn -> Nat] /\ UNCHANGED res
    BY <1>0, <1>5 DEF ReleaseConnection, Release, Alive, RefTypeOK
  <2>2. CASE LastRelease(c)
    BY <1>5, <2>1, <2>2, CloseSessionIInv DEF ReleaseConnection
  <2>3. CASE ~LastRelease(c)
    BY <1>5, <2>1, <2>3 DEF ReleaseConnection, SawNothing, IInv, TypeOK,
       RefTypeOK, viewVars, ViewTypeOK, pqVars, PqLibTypeOK, SessionUnshared,
       LocksInTransaction, ViewCovers
  <2>4. QED
    BY <2>2, <2>3
<1>6. ASSUME pgconn_[c] # NULL, UNCHANGED <<ref, driverVars>>, PqLibTypeOK',
             ViewTypeOK', Local(pgconn_[c]),
             \A d \in Conn \ {c} : inTx'[d] = inTx[d],
             txs'[pgconn_[c]] # "idle" => inTx'[c]
      PROVE  IInv'
  BY <1>6, ExecIInv DEF driverVars, IInv, TypeOK
<1>7. CASE Execute(c)
  <2>1. PICK w \in Row : send_write(pgconn_[c], w)
    BY <1>7 DEF Execute
  <2>2. pgconn_[c] # NULL /\ UNCHANGED <<ref, driverVars>> /\ SawNothing
    BY <1>7 DEF Execute, MayExec
  <2>3. UNCHANGED inTx /\ ViewTypeOK'
    BY <1>0, <2>2 DEF SawNothing, viewVars, ViewTypeOK
  <2>4. PqLibTypeOK'
    BY <1>0, <2>1, <2>2, ExecType
  <2>5. Local(pgconn_[c]) /\ txs' = txs
    BY <1>0, <2>1, <2>2, ExecLocal DEF send_write
  <2>6. QED
    BY <1>0, <1>6, <2>2, <2>3, <2>4, <2>5
<1>8. CASE ExecuteReturns(c)
  <2>1. PICK ok \in BOOLEAN : answer_write(pgconn_[c], ok) /\ SawWrite(c, ok)
    BY <1>8 DEF ExecuteReturns
  <2>2. /\ pgconn_[c] # NULL /\ UNCHANGED <<ref, driverVars>>
        /\ wants[pgconn_[c]] # NULL
    BY <1>8 DEF ExecuteReturns, Idle
  <2>3. UNCHANGED inTx /\ ViewTypeOK'
    BY <1>0, <2>1, ViewType DEF SawWrite, SawFailure
  <2>4. PqLibTypeOK'
    BY <1>0, <2>1, <2>2, ExecType
  <2>5. Local(pgconn_[c]) /\ (txs[pgconn_[c]] = "idle" => txs'[pgconn_[c]] = "idle")
    BY <1>0, <2>1, <2>2, ExecLocal
  <2>6. QED
    BY <1>0, <1>6, <2>2, <2>3, <2>4, <2>5
<1>9. CASE QueryCommand(c)
  <2>1. /\ exec_query(pgconn_[c], "COMMAND_OK") /\ pgconn_[c] # NULL
        /\ UNCHANGED <<ref, driverVars>> /\ SawNothing
    BY <1>9 DEF QueryCommand, MayExec
  <2>2. UNCHANGED inTx /\ ViewTypeOK'
    BY <1>0, <2>1 DEF SawNothing, viewVars, ViewTypeOK
  <2>3. PqLibTypeOK'
    BY <1>0, <2>1, ExecType
  <2>4. Local(pgconn_[c]) /\ (txs[pgconn_[c]] = "idle" => txs'[pgconn_[c]] = "idle")
    BY <1>0, <2>1, ExecLocal
  <2>5. QED
    BY <1>0, <1>6, <2>1, <2>2, <2>3, <2>4
<1>10. CASE BeginTrans(c)
  <2>1. PICK ok \in BOOLEAN : exec_begin(pgconn_[c], ok) /\ SawBegin(c, ok)
    BY <1>10 DEF BeginTrans
  <2>2. pgconn_[c] # NULL /\ UNCHANGED <<ref, driverVars>>
    BY <1>10 DEF BeginTrans, MayExec
  <2>3. ViewTypeOK' /\ \A d \in Conn \ {c} : inTx'[d] = inTx[d]
    BY <1>0, <2>1, ViewType
  <2>4. PqLibTypeOK'
    BY <1>0, <2>1, <2>2, ExecType
  <2>5. Local(pgconn_[c]) /\ (~ok => txs'[pgconn_[c]] = txs[pgconn_[c]])
    BY <1>0, <2>1, <2>2, ExecLocal
  <2>6. ok \/ inTx[c] => inTx'[c]
    BY <1>0, <2>1 DEF SawBegin, SawFailure
  <2>7. QED
    BY <1>0, <1>6, <2>2, <2>3, <2>4, <2>5, <2>6
<1>11. CASE CommitTrans(c)
  <2>1. PICK ok \in BOOLEAN : exec_end(pgconn_[c], ok) /\ SawCommit(c, ok)
    BY <1>11 DEF CommitTrans
  <2>2. pgconn_[c] # NULL /\ UNCHANGED <<ref, driverVars>>
    BY <1>11 DEF CommitTrans, MayExec
  <2>3. ViewTypeOK' /\ \A d \in Conn \ {c} : inTx'[d] = inTx[d]
    BY <1>0, <2>1, ViewType
  <2>4. PqLibTypeOK'
    BY <1>0, <2>1, <2>2, ExecType
  <2>5. /\ Local(pgconn_[c])
        /\ txs'[pgconn_[c]] = "idle" \/ (~ok /\ txs'[pgconn_[c]] = txs[pgconn_[c]])
    BY <1>0, <2>1, <2>2, ExecLocal
  <2>6. ~ok => inTx' = inTx
    BY <2>1 DEF SawCommit, SawFailure
  <2>7. QED
    BY <1>0, <1>6, <2>2, <2>3, <2>4, <2>5, <2>6
<1>12. CASE RollbackTrans(c)
  <2>1. PICK ok \in BOOLEAN : exec_rollback(pgconn_[c], ok) /\ SawRollback(c, ok)
    BY <1>12 DEF RollbackTrans
  <2>2. pgconn_[c] # NULL /\ UNCHANGED <<ref, driverVars>>
    BY <1>12 DEF RollbackTrans, MayExec
  <2>3. ViewTypeOK' /\ \A d \in Conn \ {c} : inTx'[d] = inTx[d]
    BY <1>0, <2>1, ViewType
  <2>4. PqLibTypeOK'
    BY <1>0, <2>1, <2>2, ExecType
  <2>5. /\ Local(pgconn_[c])
        /\ txs'[pgconn_[c]] = "idle" \/ (~ok /\ txs'[pgconn_[c]] = txs[pgconn_[c]])
    BY <1>0, <2>1, <2>2, ExecLocal
  <2>6. ~ok => inTx' = inTx
    BY <2>1 DEF SawRollback, SawFailure
  <2>7. QED
    BY <1>0, <1>6, <2>2, <2>3, <2>4, <2>5, <2>6
<1>13. CASE SetTransactionMode(c)
  <2>1. PICK mode \in Modes, ok \in BOOLEAN :
          exec_set(pgconn_[c], mode, ok) /\ SawResult(c, ok)
    BY <1>13 DEF SetTransactionMode
  <2>2. /\ pgconn_[c] # NULL /\ UNCHANGED <<ref, driverVars>>
        /\ mode \in TransMode
    BY <1>13, PqAssumption DEF SetTransactionMode, MayExec
  <2>3. ViewTypeOK' /\ UNCHANGED inTx
    BY <1>0, <2>1, <2>2, ViewType DEF SawResult, SawFailure, SawNothing, viewVars
  <2>4. PqLibTypeOK'
    BY <1>0, <2>1, <2>2, ExecType
  <2>5. Local(pgconn_[c]) /\ (txs[pgconn_[c]] = "idle" => txs'[pgconn_[c]] = "idle")
    BY <1>0, <2>1, <2>2, ExecLocal
  <2>6. QED
    BY <1>0, <1>6, <2>2, <2>3, <2>4, <2>5
<1>14. CASE ExecuteSelect(c)
  <2>1. PICK status : exec_query(pgconn_[c], status)
    BY <1>14 DEF ExecuteSelect
  <2>2. /\ pgconn_[c] # NULL /\ UNCHANGED <<ref, driverVars>>
        /\ SawFailure(c, "result")
    BY <1>14 DEF ExecuteSelect, MayExec
  <2>3. UNCHANGED inTx /\ ViewTypeOK'
    BY <1>0, <2>2, ViewType DEF SawFailure
  <2>4. PqLibTypeOK'
    BY <1>0, <2>1, <2>2, ExecType
  <2>5. Local(pgconn_[c]) /\ (txs[pgconn_[c]] = "idle" => txs'[pgconn_[c]] = "idle")
    BY <1>0, <2>1, <2>2, ExecLocal
  <2>6. QED
    BY <1>0, <1>6, <2>2, <2>3, <2>4, <2>5
<1>15. QED
  BY <1>1, <1>2, <1>3, <1>4, <1>5, <1>7, <1>8, <1>9, <1>10, <1>11, <1>12, <1>13,
     <1>14
  DEF ConnStep

LEMMA ResultStepIInv ==
  ASSUME IInv, NEW r \in RS, ResultStep(r)
  PROVE  IInv'
<1>0. /\ TypeOK /\ PqLibTypeOK /\ ViewTypeOK /\ Thread[r] \in Conn
      /\ \A k \in 0 .. MaxRows :
           \A kind \in {"absent", "tuples", "error", "null"} :
             \A i \in Int : [res_ |-> kind, n |-> k, row_ |-> i] \in ResultSet
      /\ 0 \in 0 .. MaxRows
  BY PqAssumption DEF IInv, TypeOK, ResultSet
<1>1. CASE ExecuteQuery(r)
  <2> DEFINE c == Thread[r]
  <2>1. /\ pgconn_[c] # NULL /\ UNCHANGED <<ref, pgconn_>>
        /\ SawNothing \/ SawFailure(c, "error")
    BY <1>1 DEF ExecuteQuery, MayExec
  <2>10. UNCHANGED inTx /\ ViewTypeOK'
    BY <1>0, <2>1, ViewType DEF SawNothing, SawFailure, viewVars
  <2>2. pgconn_[c] \in Session /\ sess[pgconn_[c]] # "free"
    BY <1>0, <2>1 DEF IInv, TypeOK, SessionUnshared
  <2>3. PICK status : exec_query(pgconn_[c], status)
    BY <1>1 DEF ExecuteQuery
  <2>4. PqLibTypeOK'
    BY <1>0, <2>2, <2>3, ExecType
  <2>5. /\ Local(pgconn_[c])
        /\ txs[pgconn_[c]] = "idle" => txs'[pgconn_[c]] = "idle"
    BY <2>2, <2>3, ExecLocal
  <2>6. \E kind \in {"tuples", "error", "null"}, k \in 0 .. MaxRows :
          res' = [res EXCEPT ![r] = [res_ |-> kind, n |-> k, row_ |-> -1]]
    BY <1>0, <1>1 DEF ExecuteQuery
  <2>7. res' \in [RS -> ResultSet]
    BY <1>0, <2>6 DEF TypeOK
  <2>8. txs'[pgconn_[c]] # "idle" => inTx'[c]
    BY <1>0, <2>1, <2>5, <2>10 DEF IInv, ViewCovers
  <2>9. QED
    BY <1>0, <2>1, <2>10, <2>4, <2>5, <2>7, <2>8, ExecIInv DEF TypeOK
<1>2. ASSUME UNCHANGED <<ref, viewVars, pqVars, pgconn_>>,
             res' \in [RS -> ResultSet]
      PROVE  IInv'
  <2>1. TypeOK'
    BY <1>0, <1>2 DEF TypeOK, IInv, RefTypeOK, viewVars, ViewTypeOK, pqVars, PqLibTypeOK
  <2>2. QED
    BY <1>2, <2>1 DEF IInv, viewVars, pqVars, SessionUnshared, LocksInTransaction,
       ViewCovers
<1>3. CASE ResultNext(r)
  <2>1. res[r] \in ResultSet
    BY <1>0 DEF TypeOK
  <2>2. [res[r] EXCEPT !.row_ = @ + 1] \in ResultSet
    BY <2>1 DEF ResultSet
  <2>3. res' \in [RS -> ResultSet] /\ UNCHANGED <<ref, viewVars, pqVars, pgconn_>>
    BY <1>0, <1>3, <2>2 DEF ResultNext, TypeOK, SawNothing
  <2>4. QED
    BY <1>0, <1>2, <2>3 DEF TypeOK
<1>4. CASE ResultClose(r)
  <2>1. NoResultSet \in ResultSet
    BY <1>0 DEF NoResultSet
  <2>2. /\ res' \in [RS -> ResultSet] /\ UNCHANGED <<ref, viewVars, pqVars, pgconn_>>
    BY <1>0, <1>4, <2>1 DEF ResultClose, TypeOK, SawNothing
  <2>3. QED
    BY <1>2, <2>2
<1>5. QED
  BY <1>1, <1>3, <1>4 DEF ResultStep

LEMMA ServerStepIInv ==
  ASSUME IInv, ServerStep
  PROVE  IInv'
<1>1. PqLibTypeOK' /\ UNCHANGED <<ref, viewVars, driverVars>>
  BY SessionType DEF ServerStep, IInv, TypeOK
<1>2. TypeOK'
  BY <1>1 DEF IInv, TypeOK, RefTypeOK, viewVars, ViewTypeOK, driverVars
<1>3. CASE Restart
  BY <1>1, <1>2, <1>3 DEF Restart, IInv, viewVars, driverVars, SessionUnshared,
     LocksInTransaction, ViewCovers
<1>4. CASE Crash
  <2>1. \A s \in Session : /\ txs'[s] = "idle" /\ holds'[s] = {}
                           /\ sess'[s] = "free" => sess[s] = "free"
    BY <1>4 DEF Crash
  <2>2. \A c \in Conn : pgconn_[c] # NULL => pgconn_[c] \in Session
    BY DEF IInv, TypeOK
  <2>3. SessionUnshared'
    BY <1>1, <2>1, <2>2 DEF IInv, driverVars, SessionUnshared
  <2>4. LocksInTransaction' /\ ViewCovers'
    BY <1>1, <2>1, <2>2 DEF driverVars, LocksInTransaction, ViewCovers
  <2>5. QED
    BY <1>2, <2>3, <2>4 DEF IInv
<1>5. QED
  BY <1>3, <1>4 DEF ServerStep

LEMMA NextIInv == IInv /\ [Next]_vars => IInv'
<1> SUFFICES ASSUME IInv, [Next]_vars PROVE IInv'
  OBVIOUS
<1>1. CASE UNCHANGED vars
  BY <1>1 DEF vars, IInv, TypeOK, RefTypeOK, ViewTypeOK, PqLibTypeOK,
     SessionUnshared, LocksInTransaction, ViewCovers
<1>2. QED
  BY <1>1, ConnStepIInv, ResultStepIInv, ServerStepIInv DEF Next

THEOREM Invariance == Spec => []IInv
<1>1. QED
  BY InitIInv, NextIInv, PTL DEF Spec

\* Every variable keeps to its type, with any number of connections, rows and
\* crashes of the server (pq_db.cpp, pq_db.h: the fields of the two classes).
THEOREM TypeCorrect == Spec => []TypeOK
<1>1. IInv => TypeOK
  BY DEF IInv
<1>2. QED
  BY <1>1, Invariance, PTL

\* After commitTrans() or rollbackTrans() of pq_db.cpp reported the end of a
\* transaction, or open() or close() came between, the connection locks no row
\* against the others, whatever failed, was lost or went down before.
THEOREM QuietConnectionsHoldNothing == Spec => []QuietHoldsNothing
<1>1. IInv => QuietHoldsNothing
  <2>1. SUFFICES ASSUME IInv, NEW c \in Conn, pgconn_[c] # NULL, ~inTx[c]
                 PROVE  holds[pgconn_[c]] = {}
    BY DEF QuietHoldsNothing
  <2>2. pgconn_[c] \in Session /\ txs[pgconn_[c]] = "idle"
    BY <2>1 DEF IInv, TypeOK, ViewCovers
  <2>3. QED
    BY <2>1, <2>2 DEF IInv, LocksInTransaction
<1>2. QED
  BY <1>1, Invariance, PTL

-----------------------------------------------------------------------------
(* What careful clients were told is in the database.                      *)

\* The client of c counts on the transaction that is open in its session.
Trusts(c) ==
  pgconn_[c] # NULL /\ sess[pgconn_[c]] = "up" /\ inTx[c] /\ ~spoiled[c]

Covered(c) ==
  /\ ~inTx[c] => told[c] = 0
  /\ Trusts(c) => InTransaction(pgconn_[c]) /\ told[c] <= work[pgconn_[c]]

\* AckedDurable made inductive: what clients count on is really under way.
LedgerTrue == acked <= committed /\ \A c \in Conn : Covered(c)

\* A call on c leaves what covers d as it is.
Spares(c, d) ==
  /\ pgconn_'[d] = pgconn_[d] /\ inTx'[d] = inTx[d]
  /\ told'[d] = told[d] /\ spoiled'[d] = spoiled[d]
  /\ pgconn_[d] # NULL =>
       /\ sess'[pgconn_[d]] = sess[pgconn_[d]]
       /\ txs'[pgconn_[d]] = txs[pgconn_[d]]
       /\ work'[pgconn_[d]] = work[pgconn_[d]]

LEMMA SparedCovered ==
  ASSUME NEW c \in Conn, NEW d \in Conn, Spares(c, d), Covered(d)
  PROVE  Covered(d)'
  BY DEF Spares, Covered, Trusts, InTransaction

\* A PQexec of s that returns.
Answered(s) ==
  \/ \E ok \in BOOLEAN : \/ exec_begin(s, ok) \/ exec_end(s, ok)
                        \/ exec_rollback(s, ok) \/ answer_write(s, ok)
                        \/ \E level \in Level : exec_set(s, level, ok)
  \/ \E status \in {"TUPLES_OK", "COMMAND_OK", "ERROR", "NO_RESULT"} :
       exec_query(s, status)

\* A PQexec is the work of one session, and takes nothing from the database.
LEMMA ExecWork ==
  ASSUME PqLibTypeOK, NEW s \in Session, Answered(s)
  PROVE  /\ \A g \in Session \ {s} :
              sess'[g] = sess[g] /\ txs'[g] = txs[g] /\ work'[g] = work[g]
         /\ committed <= committed'
<1>0. /\ sess \in [Session -> {"free", "up", "lost"}]
      /\ txs \in [Session -> {"idle", "begun", "intrans", "inerror"}]
      /\ work \in [Session -> Nat]
      /\ committed \in Nat /\ work[s] \in Nat
  BY DEF PqLibTypeOK
<1> DEFINE Others == \A g \in Session \ {s} :
             sess'[g] = sess[g] /\ txs'[g] = txs[g] /\ work'[g] = work[g]
<1>1. ASSUME NEW st, Drops(s, st), UNCHANGED sess PROVE Others
  BY <1>0, <1>1 DEF Drops
<1>2. ASSUME Breaks(s) PROVE Others
  BY <1>0, <1>2 DEF Breaks, Drops
<1>3. ASSUME Aborts(s), UNCHANGED sess PROVE Others /\ committed' = committed
  BY <1>0, <1>1, <1>3 DEF Aborts
<1>4. ASSUME UNCHANGED <<sess, txs, work, committed>>
      PROVE  Others /\ committed <= committed'
  BY <1>0, <1>4
<1>5. ASSUME NEW ok \in BOOLEAN, exec_begin(s, ok)
      PROVE  Others /\ committed <= committed'
  BY <1>0, <1>5 DEF exec_begin
<1>6. ASSUME NEW ok \in BOOLEAN, exec_end(s, ok)
      PROVE  Others /\ committed <= committed'
  <2>1. committed' \in {committed, committed + work[s]}
    BY <1>6 DEF exec_end, pqVars
  <2>2. Others
    BY <1>1, <1>2, <1>4, <1>6 DEF exec_end, pqVars
  <2>3. QED
    BY <1>0, <2>1, <2>2
<1>7. ASSUME NEW ok \in BOOLEAN, exec_rollback(s, ok)
      PROVE  Others /\ committed <= committed'
  BY <1>0, <1>1, <1>4, <1>7 DEF exec_rollback
<1>8. ASSUME NEW level, NEW ok \in BOOLEAN, exec_set(s, level, ok)
      PROVE  Others /\ committed <= committed'
  BY <1>0, <1>3, <1>4, <1>8 DEF exec_set, pqVars
<1>9. ASSUME NEW status, exec_query(s, status)
      PROVE  Others /\ committed <= committed'
  <2>1. CASE txs' = Uses(s) /\ UNCHANGED <<sess, work, committed>>
    BY <1>0, <2>1 DEF Uses
  <2>2. QED
    BY <1>0, <1>3, <1>4, <1>9, <2>1 DEF exec_query, pqVars
<1>10. ASSUME NEW ok \in BOOLEAN, answer_write(s, ok)
       PROVE  Others /\ committed <= committed'
  <2>1. CASE WriteTakesEffect(s) /\ UNCHANGED sess
    BY <1>0, <2>1 DEF WriteTakesEffect, Uses
  <2>2. CASE Breaks(s) /\ committed' \in {committed, committed + 1}
    BY <1>0, <1>2, <2>2
  <2>3. QED
    BY <1>0, <1>3, <1>4, <1>10, <2>1, <2>2 DEF answer_write
<1>11. QED
  BY <1>5, <1>6, <1>7, <1>8, <1>9, <1>10 DEF Answered

\* A PQexec on the session of c, with what its client makes of the answer.
LEMMA ExecLedger ==
  ASSUME IInv, LedgerTrue, NEW c \in Conn, pgconn_[c] # NULL, UNCHANGED pgconn_,
         Answered(pgconn_[c]), Concluded(c), Covered(c)', acked' <= committed'
  PROVE  LedgerTrue'
<1>1. /\ PqLibTypeOK /\ ViewTypeOK
      /\ \A d \in Conn : pgconn_[d] # NULL => pgconn_[d] \in Session
      /\ \A d \in Conn \ {c} : pgconn_[d] # NULL => pgconn_[d] # pgconn_[c]
  BY DEF IInv, TypeOK, SessionUnshared
<1>2. \A g \in Session \ {pgconn_[c]} :
        sess'[g] = sess[g] /\ txs'[g] = txs[g] /\ work'[g] = work[g]
  BY <1>1, ExecWork
<1>3. \A d \in Conn \ {c} :
        inTx'[d] = inTx[d] /\ told'[d] = told[d] /\ spoiled'[d] = spoiled[d]
  BY <1>1, ViewElsewhere
<1>4. \A d \in Conn \ {c} : Spares(c, d)
  BY <1>1, <1>2, <1>3 DEF Spares
<1>5. QED
  BY <1>4, SparedCovered DEF LedgerTrue

\* open(), close() and the last release: the client starts anew, and the
\* session of c before or after it is nobody else's.
LEMMA SessionLedger ==
  ASSUME IInv, LedgerTrue, NEW c \in Conn, SawSession(c), committed' = committed,
         \A d \in Conn \ {c} : pgconn_'[d] = pgconn_[d],
         \A d \in Conn \ {c} : pgconn_[d] # NULL =>
           /\ sess'[pgconn_[d]] = sess[pgconn_[d]]
           /\ txs'[pgconn_[d]] = txs[pgconn_[d]]
           /\ work'[pgconn_[d]] = work[pgconn_[d]]
  PROVE  LedgerTrue'
<1>1. ViewTypeOK
  BY DEF IInv, TypeOK
<1>2. acked' = acked /\ inTx'[c] = FALSE /\ told'[c] = 0
  BY <1>1 DEF SawSession, SawEnd, ViewTypeOK
<1>3. \A d \in Conn \ {c} :
        inTx'[d] = inTx[d] /\ told'[d] = told[d] /\ spoiled'[d] = spoiled[d]
  BY <1>1, ViewElsewhere DEF Concluded
<1>4. \A d \in Conn \ {c} : Spares(c, d)
  BY <1>3 DEF Spares
<1>5. Covered(c)'
  BY <1>2 DEF Covered, Trusts
<1>6. QED
  BY <1>2, <1>4, <1>5, SparedCovered DEF LedgerTrue

LEMMA CloseSessionLedger ==
  ASSUME IInv, LedgerTrue, NEW c \in Conn, CloseSession(c), SawSession(c)
  PROVE  LedgerTrue'
<1>1. /\ PqLibTypeOK /\ pgconn_ \in [Conn -> Session \cup {NULL}]
      /\ \A d \in Conn \ {c} : pgconn_[d] # NULL =>
           pgconn_[d] \in Session /\ pgconn_[d] # pgconn_[c]
  BY DEF IInv, TypeOK, SessionUnshared
<1>2. \A d \in Conn \ {c} : pgconn_'[d] = pgconn_[d]
  BY <1>1 DEF CloseSession
<1>3. committed' = committed
  BY DEF CloseSession, PQfinish, pqVars
<1>4. \A g \in Session : g # pgconn_[c] =>
        sess'[g] = sess[g] /\ txs'[g] = txs[g] /\ work'[g] = work[g]
  BY <1>1 DEF CloseSession, PQfinish, Drops, pqVars, PqLibTypeOK
<1>5. QED
  BY <1>1, <1>2, <1>3, <1>4, SessionLedger

\* A step that moves no variable the ledger is about.
LEMMA SameLedger ==
  ASSUME LedgerTrue, UNCHANGED <<viewVars, sess, txs, work, committed, pgconn_>>
  PROVE  LedgerTrue'
  BY DEF LedgerTrue, Covered, Trusts, InTransaction, viewVars

\* The clients the theorem is about: they heed whatever tells of a failure.
Careful == {"result", "error"} \subseteq Heeds

\* A statement failed: the client counts on its transaction no more.
LEMMA FailureCovers ==
  ASSUME Careful, ViewTypeOK, NEW c \in Conn, NEW sign \in {"result", "error"},
         Covered(c), SawFailure(c, sign)
  PROVE  Covered(c)' /\ acked' = acked
<1>1. inTx[c] => spoiled'[c]
  BY DEF Careful, SawFailure, Spoils, ViewTypeOK
<1>2. QED
  BY <1>1 DEF Covered, Trusts, SawFailure

\* The answers to each statement, taken by a careful client, cover it.
LEMMA BeginCovers ==
  ASSUME Careful, PqLibTypeOK, ViewTypeOK, NEW c \in Conn, pgconn_[c] \in Session,
         UNCHANGED pgconn_, Covered(c), NEW ok \in BOOLEAN,
         exec_begin(pgconn_[c], ok), SawBegin(c, ok)
  PROVE  Covered(c)' /\ acked' = acked
<1> DEFINE s == pgconn_[c]
<1>1. CASE ok
  <2>1. inTx'[c] /\ told'[c] = 0
    BY <1>1 DEF SawBegin, ViewTypeOK
  <2>2. /\ txs[s] \in {"idle", "begun", "intrans"} /\ work'[s] \in Nat
        /\ txs' = IF txs[s] = "idle" THEN [txs EXCEPT ![s] = "begun"] ELSE txs
    BY <1>1 DEF exec_begin, Refused, PqLibTypeOK
  <2>3. txs'[s] \in {"begun", "intrans"}
    BY <2>2 DEF PqLibTypeOK
  <2>4. acked' = acked /\ pgconn_'[c] = s
    BY <1>1 DEF SawBegin
  <2>5. told'[c] <= work'[s]
    BY <2>1, <2>2
  <2>6. Covered(c)'
    BY <2>1, <2>3, <2>4, <2>5 DEF Covered, InTransaction
  <2>7. QED
    BY <2>4, <2>6
<1>2. CASE ~ok
  BY <1>2, FailureCovers DEF SawBegin
<1>3. QED
  BY <1>1, <1>2

LEMMA EndCovers ==
  ASSUME Careful, PqLibTypeOK, ViewTypeOK, NEW c \in Conn, pgconn_[c] \in Session,
         pgconn_[c] # NULL, UNCHANGED pgconn_, Covered(c), WouldCommit(c),
         acked <= committed, NEW ok \in BOOLEAN,
         exec_end(pgconn_[c], ok), SawCommit(c, ok)
  PROVE  Covered(c)' /\ acked' <= committed'
<1> DEFINE s == pgconn_[c]
<1>0. /\ acked \in Nat /\ committed \in Nat /\ work[s] \in Nat /\ told[c] \in Nat
  BY DEF PqLibTypeOK, ViewTypeOK
<1>1. CASE ok
  <2>1. /\ sess[s] = "up"
        /\ committed' = IF InTransaction(s) THEN committed + work[s] ELSE committed
    BY <1>1 DEF exec_end
  <2>2. ~inTx'[c] /\ told'[c] = 0 /\ acked' = acked + told[c]
    BY <1>1 DEF SawCommit, SawEnd, ViewTypeOK
  <2>3. inTx[c] => InTransaction(s) /\ told[c] <= work[s]
    BY <2>1 DEF Covered, Trusts, WouldCommit
  <2>4. ~inTx[c] => told[c] = 0
    BY DEF Covered
  <2>5. acked' <= committed'
    BY <1>0, <2>1, <2>2, <2>3, <2>4
  <2>6. QED
    BY <2>2, <2>5 DEF Covered, Trusts
<1>2. CASE ~ok
  <2>1. Covered(c)' /\ acked' = acked
    BY <1>2, FailureCovers DEF SawCommit
  <2>2. committed' \in {committed, committed + work[s]}
    BY <1>2 DEF exec_end, pqVars
  <2>3. QED
    BY <1>0, <2>1, <2>2
<1>3. QED
  BY <1>1, <1>2

LEMMA RollbackCovers ==
  ASSUME Careful, PqLibTypeOK, ViewTypeOK, NEW c \in Conn, UNCHANGED pgconn_, Covered(c),
         NEW ok \in BOOLEAN, exec_rollback(pgconn_[c], ok), SawRollback(c, ok)
  PROVE  Covered(c)' /\ acked' = acked
<1>1. CASE ok
  BY <1>1 DEF SawRollback, SawEnd, ViewTypeOK, Covered, Trusts
<1>2. CASE ~ok
  BY <1>2, FailureCovers DEF SawRollback
<1>3. QED
  BY <1>1, <1>2

LEMMA WriteCovers ==
  ASSUME IInv, Careful, NEW c \in Conn, pgconn_[c] \in Session, pgconn_[c] # NULL,
         UNCHANGED pgconn_, Covered(c), acked <= committed, NEW ok \in BOOLEAN,
         answer_write(pgconn_[c], ok), SawWrite(c, ok)
  PROVE  Covered(c)' /\ acked' <= committed'
<1> DEFINE s == pgconn_[c]
<1>0. /\ PqLibTypeOK /\ ViewTypeOK
      /\ acked \in Nat /\ committed \in Nat /\ work[s] \in Nat /\ told[c] \in Nat
      /\ ~inTx[c] => txs[s] = "idle"
  BY DEF IInv, TypeOK, PqLibTypeOK, ViewTypeOK, ViewCovers
<1>1. CASE ok /\ inTx[c]
  <2>1. /\ told'[c] = told[c] + 1 /\ acked' = acked /\ UNCHANGED <<inTx, spoiled>>
    BY <1>0, <1>1 DEF SawWrite, ViewTypeOK
  <2>2. WriteTakesEffect(s) /\ UNCHANGED sess
    BY <1>1 DEF answer_write
  <2>3. acked' <= committed'
    BY <1>0, <2>1, <2>2 DEF WriteTakesEffect
  <2>4. CASE Trusts(c)
    <3>1. txs[s] \in {"begun", "intrans"} /\ told[c] <= work[s]
      BY <2>4 DEF Covered, InTransaction
    <3>2. txs' = Uses(s) /\ work' = [work EXCEPT ![s] = work[s] + 1]
      BY <2>2, <3>1 DEF WriteTakesEffect
    <3>3. txs'[s] \in {"begun", "intrans"} /\ work'[s] = work[s] + 1
      BY <1>0, <3>1, <3>2 DEF Uses, PqLibTypeOK
    <3>4. told'[c] <= work'[s]
      BY <1>0, <2>1, <3>1, <3>3
    <3>5. QED
      BY <1>0, <1>1, <2>1, <2>3, <3>3, <3>4 DEF Covered, InTransaction
  <2>5. CASE ~Trusts(c)
    BY <1>1, <2>1, <2>2, <2>3, <2>5 DEF Covered, Trusts
  <2>6. QED
    BY <2>4, <2>5
<1>2. CASE ok /\ ~inTx[c]
  <2>1. told' = told /\ inTx' = inTx /\ acked' = acked + 1
    BY <1>2 DEF SawWrite
  <2>2. committed' = committed + 1
    BY <1>0, <1>2 DEF answer_write, WriteTakesEffect
  <2>3. QED
    BY <1>0, <1>2, <2>1, <2>2 DEF Covered, Trusts
<1>3. CASE ~ok
  <2>1. SawFailure(c, "result")
    BY <1>3 DEF SawWrite
  <2>2. committed' \in {committed, committed + 1}
    BY <1>0, <1>3 DEF answer_write, Aborts
  <2>3. QED
    BY <1>0, <2>1, <2>2, FailureCovers
<1>4. QED
  BY <1>1, <1>2, <1>3

\* A statement that succeeds without a write leaves a transaction under way.
LEMMA SuccessCovers ==
  ASSUME PqLibTypeOK, NEW c \in Conn, pgconn_[c] \in Session, Covered(c),
         UNCHANGED <<viewVars, pgconn_, sess, work>>,
         txs' \in {txs, Uses(pgconn_[c])}
  PROVE  Covered(c)'
<1>1. InTransaction(pgconn_[c]) => txs'[pgconn_[c]] \in {"begun", "intrans"}
  BY DEF InTransaction, Uses, PqLibTypeOK
<1>2. QED
  BY <1>1 DEF Covered, Trusts, InTransaction, viewVars

\* A query, whether its failure is seen in a result or in an error.
LEMMA QueryLedger ==
  ASSUME IInv, LedgerTrue, Careful, NEW c \in Conn, pgconn_[c] # NULL,
         UNCHANGED pgconn_,
         NEW status \in {"TUPLES_OK", "COMMAND_OK", "ERROR", "NO_RESULT"},
         exec_query(pgconn_[c], status),
         \/ \E sign \in {"result", "error"} : SawFailure(c, sign)
         \/ status \in {"TUPLES_OK", "COMMAND_OK"} /\ SawNothing
  PROVE  LedgerTrue'
<1>1. /\ PqLibTypeOK /\ ViewTypeOK /\ pgconn_[c] \in Session /\ Covered(c)
      /\ acked <= committed
  BY DEF IInv, TypeOK, LedgerTrue
<1>2. committed' = committed
  BY DEF exec_query, Aborts, pqVars
<1>3. Covered(c)' /\ acked' = acked
  <2>1. CASE \E sign \in {"result", "error"} : SawFailure(c, sign)
    BY <1>1, <2>1, FailureCovers
  <2>2. CASE status \in {"TUPLES_OK", "COMMAND_OK"} /\ SawNothing
    <3>1. txs' = Uses(pgconn_[c]) /\ UNCHANGED <<viewVars, sess, work>>
      BY <2>2 DEF exec_query, SawNothing
    <3>2. QED
      BY <1>1, <3>1, SuccessCovers DEF viewVars
  <2>3. QED
    BY <2>1, <2>2
<1>4. QED
  BY <1>1, <1>2, <1>3, ExecLedger DEF Answered, Concluded

\* Each call of a connection keeps the ledger true.
LEMMA ConnStepLedger ==
  ASSUME IInv, LedgerTrue, Careful, NEW c \in Conn, ConnStep(c)
  PROVE  LedgerTrue'
<1>0. /\ PqLibTypeOK /\ ViewTypeOK
      /\ acked \in Nat /\ committed \in Nat /\ acked <= committed
      /\ Covered(c)
      /\ pgconn_ \in [Conn -> Session \cup {NULL}]
      /\ pgconn_[c] # NULL => pgconn_[c] \in Session
      /\ \A d \in Conn : pgconn_[d] # NULL =>
           pgconn_[d] \in Session /\ sess[pgconn_[d]] # "free"
  BY DEF IInv, TypeOK, PqLibTypeOK, ViewTypeOK, LedgerTrue, SessionUnshared
<1>1. CASE CreateConnection(c)
  <2>1. \A d \in Conn : pgconn_'[d] = pgconn_[d] \/ pgconn_'[d] = NULL
    BY <1>0, <1>1 DEF CreateConnection
  <2>2. QED
    BY <1>1, <2>1 DEF CreateConnection, SawNothing, viewVars, pqVars, LedgerTrue,
       Covered, Trusts, InTransaction
<1>2. CASE DuplicateConnection(c)
  BY <1>2, SameLedger DEF DuplicateConnection, pqVars, driverVars
<1>3. CASE Open(c)
  <2>1. SawSession(c) /\ \A d \in Conn \ {c} : pgconn_'[d] = pgconn_[d]
    BY <1>0, <1>3 DEF Open
  <2>2. \A d \in Conn : pgconn_[d] # NULL =>
          /\ sess'[pgconn_[d]] = sess[pgconn_[d]]
          /\ txs'[pgconn_[d]] = txs[pgconn_[d]]
          /\ work'[pgconn_[d]] = work[pgconn_[d]]
    <3>1. CASE \E s \in Session : PQconnectdb(s)
      BY <1>0, <3>1 DEF PQconnectdb, PqLibTypeOK
    <3>2. CASE UNCHANGED pqVars
      BY <3>2 DEF pqVars
    <3>3. QED
      BY <1>3, <3>1, <3>2 DEF Open
  <2>3. committed' = committed
    BY <1>3 DEF Open, PQconnectdb, pqVars
  <2>4. QED
    BY <2>1, <2>2, <2>3, SessionLedger
<1>4. CASE Close(c)
  BY <1>4, CloseSessionLedger DEF Close
<1>5. CASE ReleaseConnection(c)
  BY <1>5, CloseSessionLedger, SameLedger DEF ReleaseConnection, SawNothing, pqVars
<1>6. CASE Execute(c)
  BY <1>6, SameLedger DEF Execute, send_write, SawNothing, viewVars, driverVars
<1>7. CASE ExecuteReturns(c)
  <2>1. PICK ok \in BOOLEAN : answer_write(pgconn_[c], ok) /\ SawWrite(c, ok)
    BY <1>7 DEF ExecuteReturns
  <2>2. pgconn_[c] # NULL /\ UNCHANGED pgconn_ /\ wants[pgconn_[c]] \in Row
    BY <1>0, <1>7 DEF ExecuteReturns, Idle, driverVars, PqLibTypeOK
  <2>3. Covered(c)' /\ acked' <= committed'
    BY <1>0, <2>1, <2>2, WriteCovers
  <2>4. QED
    BY <2>1, <2>2, <2>3, ExecLedger DEF Answered, Concluded
<1>8. CASE BeginTrans(c)
  <2>1. PICK ok \in BOOLEAN : exec_begin(pgconn_[c], ok) /\ SawBegin(c, ok)
    BY <1>8 DEF BeginTrans
  <2>2. pgconn_[c] # NULL /\ UNCHANGED pgconn_
    BY <1>8 DEF BeginTrans, MayExec, driverVars
  <2>3. Covered(c)' /\ acked' = acked /\ committed' = committed
    BY <1>0, <2>1, <2>2, BeginCovers DEF exec_begin
  <2>4. QED
    BY <1>0, <2>1, <2>2, <2>3, ExecLedger DEF Answered, Concluded
<1>9. CASE CommitTrans(c)
  <2>1. PICK ok \in BOOLEAN : exec_end(pgconn_[c], ok) /\ SawCommit(c, ok)
    BY <1>9 DEF CommitTrans
  <2>2. pgconn_[c] # NULL /\ UNCHANGED pgconn_ /\ WouldCommit(c)
    BY <1>9 DEF CommitTrans, MayExec, driverVars
  <2>3. Covered(c)' /\ acked' <= committed'
    BY <1>0, <2>1, <2>2, EndCovers
  <2>4. QED
    BY <2>1, <2>2, <2>3, ExecLedger DEF Answered, Concluded
<1>10. CASE RollbackTrans(c)
  <2>1. PICK ok \in BOOLEAN : exec_rollback(pgconn_[c], ok) /\ SawRollback(c, ok)
    BY <1>10 DEF RollbackTrans
  <2>2. pgconn_[c] # NULL /\ UNCHANGED pgconn_
    BY <1>10 DEF RollbackTrans, MayExec, driverVars
  <2>3. Covered(c)' /\ acked' = acked /\ committed' = committed
    BY <1>0, <2>1, <2>2, RollbackCovers DEF exec_rollback
  <2>4. QED
    BY <1>0, <2>1, <2>2, <2>3, ExecLedger DEF Answered, Concluded
<1>11. CASE SetTransactionMode(c)
  <2>1. PICK mode \in Modes, ok \in BOOLEAN :
          exec_set(pgconn_[c], mode, ok) /\ SawResult(c, ok)
    BY <1>11 DEF SetTransactionMode
  <2>2. pgconn_[c] # NULL /\ UNCHANGED pgconn_ /\ mode \in Level
    BY <1>11, PqAssumption DEF SetTransactionMode, MayExec, driverVars, TransMode, Level
  <2>3. committed' = committed
    BY <2>1 DEF exec_set, Aborts, pqVars
  <2>4. Covered(c)' /\ acked' = acked
    <3>1. CASE ok
      BY <1>0, <2>1, <2>2, <3>1, SuccessCovers DEF exec_set, SawResult, SawNothing,
         viewVars
    <3>2. CASE ~ok
      BY <1>0, <2>1, <3>2, FailureCovers DEF SawResult
    <3>3. QED
      BY <3>1, <3>2
  <2>5. QED
    BY <1>0, <2>1, <2>2, <2>3, <2>4, ExecLedger DEF Answered, Concluded
<1>12. CASE ExecuteSelect(c)
  BY <1>12, QueryLedger DEF ExecuteSelect, MayExec, driverVars
<1>13. CASE QueryCommand(c)
  BY <1>13, QueryLedger DEF QueryCommand, MayExec, driverVars
<1>14. QED
  BY <1>1, <1>2, <1>3, <1>4, <1>5, <1>6, <1>7, <1>8, <1>9, <1>10, <1>11, <1>12,
     <1>13
  DEF ConnStep

LEMMA NextLedger == Careful /\ IInv /\ LedgerTrue /\ [Next]_vars => LedgerTrue'
<1> SUFFICES ASSUME Careful, IInv, LedgerTrue, [Next]_vars PROVE LedgerTrue'
  OBVIOUS
<1>1. CASE UNCHANGED vars
  BY <1>1, SameLedger DEF vars, viewVars
<1>2. ASSUME NEW r \in RS, ResultStep(r) PROVE LedgerTrue'
  <2>1. CASE ExecuteQuery(r)
    <3> DEFINE c == Thread[r]
    <3>1. c \in Conn /\ pgconn_[c] # NULL /\ UNCHANGED pgconn_
      BY <2>1, PqAssumption DEF ExecuteQuery, MayExec
    <3>2. \/ exec_query(pgconn_[c], "TUPLES_OK") /\ SawNothing
          \/ /\ exec_query(pgconn_[c], "ERROR") \/ exec_query(pgconn_[c], "NO_RESULT")
             /\ SawFailure(c, "error")
      BY <2>1 DEF ExecuteQuery
    <3>3. QED
      BY <3>1, <3>2, QueryLedger
  <2>2. CASE ResultNext(r) \/ ResultClose(r)
    BY <2>2, SameLedger DEF ResultNext, ResultClose, SawNothing, pqVars
  <2>3. QED
    BY <1>2, <2>1, <2>2 DEF ResultStep
<1>3. CASE ServerStep
  <2>1. UNCHANGED <<viewVars, pgconn_, committed>>
    BY <1>3 DEF ServerStep, driverVars, Crash, Restart
  <2>2. CASE Crash
    <3>1. \A c \in Conn : pgconn_[c] # NULL => sess'[pgconn_[c]] # "up"
      BY <2>2 DEF Crash, IInv, TypeOK
    <3>2. QED
      BY <2>1, <3>1 DEF LedgerTrue, Covered, Trusts, viewVars
  <2>3. CASE Restart
    BY <2>1, <2>3, SameLedger DEF Restart
  <2>4. QED
    BY <1>3, <2>2, <2>3 DEF ServerStep
<1>4. QED
  BY <1>1, <1>2, <1>3, ConnStepLedger DEF Next

\* To clients that give a transaction up whenever a result or errormsg() tells
\* of a failure in it, the true of execute() and of commitTrans() in pq_db.cpp
\* is a promise: what they were told is in the database is in it, whichever
\* statements fail, COMMITs are refused, answers are lost, deadlocks are broken
\* and servers go down.
THEOREM CarefulClientsKeepTheirWrites ==
  ASSUME {"result", "error"} \subseteq Heeds
  PROVE  Spec => []AckedDurable
<1>1. Careful
  BY DEF Careful
<1>2. Init => LedgerTrue
  BY DEF Init, ViewInit, PqLibInit, LedgerTrue, Covered, Trusts
<1>3. IInv /\ LedgerTrue /\ [Next]_vars => LedgerTrue'
  BY <1>1, NextLedger
<1>4. LedgerTrue => AckedDurable
  BY DEF LedgerTrue, AckedDurable
<1>5. QED
  BY <1>2, <1>3, <1>4, Invariance, PTL DEF Spec

-----------------------------------------------------------------------------
(* Sessions have an owner.                                                 *)

\* A step that opens no session and leaves the connection objects alone.
LEMMA SameOwners ==
  ASSUME NoOrphan, UNCHANGED <<ref, pgconn_>>,
         \A s \in Session : sess'[s] # "free" => sess[s] # "free"
  PROVE  NoOrphan'
  BY DEF NoOrphan, Alive

LEMMA AnsweredOwners ==
  ASSUME IInv, NoOrphan, NEW c \in Conn, pgconn_[c] # NULL,
         UNCHANGED <<ref, pgconn_>>, Answered(pgconn_[c])
  PROVE  NoOrphan'
<1>1. PqLibTypeOK /\ pgconn_[c] \in Session /\ sess[pgconn_[c]] # "free"
  BY DEF IInv, TypeOK, SessionUnshared
<1>2. \A g \in Session \ {pgconn_[c]} : sess'[g] = sess[g]
  BY <1>1, ExecWork
<1>3. QED
  BY <1>1, <1>2, SameOwners

LEMMA CloseSessionOwners ==
  ASSUME IInv, NoOrphan, NEW c \in Conn, CloseSession(c),
         \A d \in Conn \ {c} : ref'[d] = ref[d]
  PROVE  NoOrphan'
<1>1. /\ PqLibTypeOK /\ pgconn_ \in [Conn -> Session \cup {NULL}]
  BY DEF IInv, TypeOK
<1>2. \A d \in Conn \ {c} : pgconn_'[d] = pgconn_[d]
  BY <1>1 DEF CloseSession
<1>3. \A s \in Session : sess'[s] # "free" => sess[s] # "free" /\ s # pgconn_[c]
  <2>1. CASE pgconn_[c] = NULL
    BY <2>1, PqLibAssumption DEF CloseSession, pqVars
  <2>2. CASE pgconn_[c] # NULL
    BY <1>1, <2>2 DEF CloseSession, PQfinish, PqLibTypeOK
  <2>3. QED
    BY <2>1, <2>2
<1>4. SUFFICES ASSUME NEW s \in Session, sess'[s] # "free"
               PROVE  \E d \in Conn : Alive(d)' /\ pgconn_'[d] = s
  BY DEF NoOrphan
<1>5. PICK d \in Conn : Alive(d) /\ pgconn_[d] = s
  BY <1>3, <1>4 DEF NoOrphan
<1>6. QED
  BY <1>2, <1>3, <1>4, <1>5 DEF Alive

LEMMA NextOwners == ~Reopens /\ IInv /\ NoOrphan /\ [Next]_vars => NoOrphan'
<1> SUFFICES ASSUME ~Reopens, IInv, NoOrphan, [Next]_vars PROVE NoOrphan'
  OBVIOUS
<1>0. /\ RefTypeOK /\ PqLibTypeOK /\ TransMode = Level
      /\ pgconn_ \in [Conn -> Session \cup {NULL}]
  BY DEF IInv, TypeOK, TransMode, Level
<1>1. CASE UNCHANGED vars
  BY <1>1, SameOwners DEF vars
<1>2. ASSUME NEW c \in Conn, ConnStep(c) PROVE NoOrphan'
  <2>1. CASE CreateConnection(c)
    <3>1. /\ UNCHANGED sess /\ ref[c] = 0
          /\ \A d \in Conn \ {c} : ref'[d] = ref[d] /\ pgconn_'[d] = pgconn_[d]
      BY <1>0, <2>1 DEF CreateConnection, Construct, pqVars, RefTypeOK
    <3>2. QED
      BY <3>1 DEF NoOrphan, Alive
  <2>2. CASE DuplicateConnection(c)
    <3>1. /\ UNCHANGED <<sess, pgconn_>>
          /\ \A d \in Conn : ref'[d] = ref[d] \/ ref'[d] = ref[d] + 1
      BY <1>0, <2>2 DEF DuplicateConnection, Duplicate, pqVars, driverVars, RefTypeOK
    <3>2. QED
      BY <1>0, <3>1 DEF NoOrphan, Alive, RefTypeOK
  <2>3. CASE Open(c)
    <3>1. Alive(c) /\ pgconn_[c] = NULL /\ UNCHANGED ref
      BY <2>3 DEF Open, MayCall
    <3>2. \/ \E s \in Session : /\ sess' = [sess EXCEPT ![s] = "up"]
                                /\ pgconn_' = [pgconn_ EXCEPT ![c] = s]
          \/ UNCHANGED sess /\ pgconn_' = [pgconn_ EXCEPT ![c] = NULL]
      BY <2>3 DEF Open, PQconnectdb, pqVars
    <3>3. NULL \notin Session
      BY PqLibAssumption
    <3>4. QED
      BY <1>0, <3>1, <3>2, <3>3 DEF NoOrphan, Alive, PqLibTypeOK
  <2>4. CASE Close(c)
    BY <2>4, CloseSessionOwners DEF Close
  <2>5. CASE ReleaseConnection(c)
    <3>1. \A d \in Conn \ {c} : ref'[d] = ref[d]
      BY <1>0, <2>5 DEF ReleaseConnection, Release, RefTypeOK
    <3>2. CASE LastRelease(c)
      BY <2>5, <3>1, <3>2, CloseSessionOwners DEF ReleaseConnection
    <3>3. CASE ~LastRelease(c)
      <4>1. ref[c] > 0 /\ ref[c] # 1 /\ ref'[c] = ref[c] - 1 /\ ref[c] \in Nat
        BY <1>0, <2>5, <3>3 DEF ReleaseConnection, Release, LastRelease, Alive, RefTypeOK
      <4>2. \A d \in Conn : Alive(d) => Alive(d)'
        BY <3>1, <4>1 DEF Alive
      <4>3. UNCHANGED <<sess, pgconn_>>
        BY <2>5, <3>3 DEF ReleaseConnection, pqVars
      <4>4. QED
        BY <4>2, <4>3 DEF NoOrphan
    <3>4. QED
      BY <3>2, <3>3
  <2>6. CASE Execute(c)
    BY <2>6, SameOwners DEF Execute, send_write, driverVars
  <2>7. CASE ExecuteReturns(c) \/ BeginTrans(c) \/ CommitTrans(c) \/ RollbackTrans(c)
    <3>1. pgconn_[c] # NULL /\ UNCHANGED <<ref, pgconn_>> /\ Answered(pgconn_[c])
      BY <2>7 DEF ExecuteReturns, BeginTrans, CommitTrans, RollbackTrans, MayExec,
         driverVars, Answered
    <3>2. QED
      BY <3>1, AnsweredOwners
  <2>8. CASE SetTransactionMode(c) \/ ExecuteSelect(c) \/ QueryCommand(c)
    <3>1. pgconn_[c] # NULL /\ UNCHANGED <<ref, pgconn_>> /\ Answered(pgconn_[c])
      BY <1>0, <2>8, PqAssumption DEF SetTransactionMode, ExecuteSelect, QueryCommand,
         MayExec, driverVars, Answered
    <3>2. QED
      BY <3>1, AnsweredOwners
  <2>9. QED
    BY <1>2, <2>1, <2>2, <2>3, <2>4, <2>5, <2>6, <2>7, <2>8 DEF ConnStep
<1>3. ASSUME NEW r \in RS, ResultStep(r) PROVE NoOrphan'
  <2>1. CASE ExecuteQuery(r)
    <3> DEFINE c == Thread[r]
    <3>1. c \in Conn /\ pgconn_[c] # NULL /\ UNCHANGED <<ref, pgconn_>>
      BY <2>1, PqAssumption DEF ExecuteQuery, MayExec
    <3>2. Answered(pgconn_[c])
      BY <2>1 DEF ExecuteQuery, Answered
    <3>3. QED
      BY <3>1, <3>2, AnsweredOwners
  <2>2. CASE ResultNext(r) \/ ResultClose(r)
    BY <2>2, SameOwners DEF ResultNext, ResultClose, pqVars
  <2>3. QED
    BY <1>3, <2>1, <2>2 DEF ResultStep
<1>4. CASE ServerStep
  <2>1. \A s \in Session : sess'[s] # "free" => sess[s] # "free"
    BY <1>4 DEF ServerStep, Crash, Restart
  <2>2. QED
    BY <1>4, <2>1, SameOwners DEF ServerStep, driverVars
<1>5. QED
  BY <1>1, <1>2, <1>3, <1>4 DEF Next

\* While no client opens a connection that is open (open() in pq_db.cpp would
\* overwrite pgconn_), every session of the server belongs to a connection
\* object that is alive: close() and the last release() find it and end it.
THEOREM SessionsHaveOwners ==
  ASSUME ~Reopens
  PROVE  Spec => []NoOrphan
<1>1. Init => NoOrphan
  BY DEF Init, PqLibInit, NoOrphan
<1>2. IInv /\ NoOrphan /\ [Next]_vars => NoOrphan'
  BY NextOwners
<1>3. QED
  BY <1>1, <1>2, Invariance, PTL DEF Spec

-----------------------------------------------------------------------------
(* The result sets implement Cursor.                                       *)

\* What is known of a result set: row_ starts before the first row and grows.
ResInv ==
  /\ res \in [RS -> ResultSet]
  /\ \A r \in RS : res[r].row_ >= -1 /\ (~Exists(r) => res[r] = NoResultSet)

\* A step that gives r the value v and leaves the other result sets alone.
Becoming(r, v) == res' = [res EXCEPT ![r] = v]

LEMMA BecomingKeeps ==
  ASSUME ResInv, NEW r \in RS, NEW v \in ResultSet, Becoming(r, v),
         v.row_ >= -1, v.res_ = "absent" => v = NoResultSet
  PROVE  /\ ResInv'
         /\ CursorPhase' = [CursorPhase EXCEPT ![r] = CursorPhase'[r]]
         /\ CursorRow' = [CursorRow EXCEPT ![r] = CursorRow'[r]]
         /\ CursorSize' = [CursorSize EXCEPT ![r] = CursorSize'[r]]
<1>1. /\ res' \in [RS -> ResultSet] /\ res'[r] = v
      /\ \A q \in RS \ {r} : res'[q] = res[q]
  BY DEF Becoming, ResInv
<1>2. ResInv'
  BY <1>1 DEF ResInv, Exists
<1>3. \A q \in RS \ {r} : /\ CursorPhase'[q] = CursorPhase[q]
                           /\ CursorRow'[q] = CursorRow[q]
                           /\ CursorSize'[q] = CursorSize[q]
  BY <1>1 DEF CursorPhase, CursorRow, CursorSize, InResult, Exists
<1>4. CursorPhase' = [CursorPhase EXCEPT ![r] = CursorPhase'[r]]
  BY <1>3 DEF CursorPhase
<1>5. CursorRow' = [CursorRow EXCEPT ![r] = CursorRow'[r]]
  BY <1>3 DEF CursorRow
<1>6. CursorSize' = [CursorSize EXCEPT ![r] = CursorSize'[r]]
  BY <1>3 DEF CursorSize
<1>7. QED
  BY <1>2, <1>4, <1>5, <1>6

LEMMA SameResults ==
  ASSUME ResInv, UNCHANGED res
  PROVE  ResInv' /\ UNCHANGED Contract!vars
  BY DEF ResInv, Exists, Contract!vars, CursorPhase, CursorRow, CursorSize, InResult

LEMMA ResultStepContract ==
  ASSUME ResInv, NEW r \in RS, ResultStep(r)
  PROVE  ResInv' /\ [Contract!Next]_(Contract!vars)
<1>0. /\ res[r] \in ResultSet /\ res[r].row_ >= -1 /\ MaxRows \in Nat
      /\ res \in [RS -> ResultSet] /\ (~Exists(r) => res[r] = NoResultSet)
  BY PqAssumption DEF ResInv
<1>1. CASE ExecuteQuery(r)
  <2>1. PICK kind \in {"tuples", "error", "null"}, k \in 0 .. MaxRows :
          Becoming(r, [res_ |-> kind, n |-> k, row_ |-> -1])
    BY <1>0, <1>1 DEF ExecuteQuery, Becoming
  <2> DEFINE v == [res_ |-> kind, n |-> k, row_ |-> -1]
  <2>2. v \in ResultSet /\ v.res_ # "absent"
    BY DEF ResultSet
  <2>3. res'[r] = v
    BY <1>0, <2>1 DEF Becoming
  <2>4. ~Exists(r) /\ res[r].row_ = -1 /\ res[r].n = 0
    BY <1>0, <1>1 DEF ExecuteQuery, NoResultSet
  <2>5. /\ CursorPhase[r] = "none" /\ CursorRow[r] = 0 /\ CursorSize[r] = 0
    BY <2>4 DEF CursorPhase, CursorRow, CursorSize, InResult
  <2>6. /\ CursorPhase'[r] = "open" /\ CursorRow'[r] = 0 /\ CursorSize'[r] = k
    BY <2>2, <2>3 DEF CursorPhase, CursorRow, CursorSize, InResult, Exists
  <2>7. /\ ResInv'
        /\ CursorPhase' = [CursorPhase EXCEPT ![r] = "open"]
        /\ CursorRow' = [CursorRow EXCEPT ![r] = 0]
        /\ CursorSize' = [CursorSize EXCEPT ![r] = k]
    BY <2>1, <2>2, <2>6, BecomingKeeps
  <2>8. CursorRow' = CursorRow
    BY <2>5, <2>7 DEF CursorRow
  <2>9. Contract!Execute(r)
    BY <2>5, <2>7, <2>8 DEF Contract!Execute
  <2>10. QED
    BY <2>7, <2>9 DEF Contract!Next
<1>2. CASE ResultNext(r)
  <2> DEFINE v == [res[r] EXCEPT !.row_ = @ + 1]
  <2>1. Exists(r) /\ Becoming(r, v)
    BY <1>2 DEF ResultNext, Becoming
  <2>2. /\ v \in ResultSet /\ v.row_ = res[r].row_ + 1 /\ v.n = res[r].n
        /\ v.res_ = res[r].res_ /\ v.res_ # "absent" /\ v.row_ >= -1
        /\ v.row_ \in Int /\ res[r].row_ \in Int /\ v.n \in Nat
    BY <1>0, <2>1 DEF ResultSet, Exists
  <2>3. /\ Exists(r) /\ Exists(r)' /\ res[r].row_ \in Int /\ res[r].n \in Nat
        /\ res'[r].row_ = res[r].row_ + 1 /\ res'[r].n = res[r].n
    BY <1>0, <2>1, <2>2 DEF Becoming, Exists
  <2>4. /\ ResInv'
        /\ CursorPhase' = [CursorPhase EXCEPT ![r] = CursorPhase'[r]]
        /\ CursorRow' = [CursorRow EXCEPT ![r] = CursorRow'[r]]
        /\ CursorSize' = [CursorSize EXCEPT ![r] = CursorSize'[r]]
    BY <2>1, <2>2, BecomingKeeps
  <2>5. CursorSize' = CursorSize /\ CursorSize[r] = res[r].n
    BY <2>2, <2>3, <2>4 DEF CursorSize
  <2>6. CASE res[r].row_ + 1 < res[r].n
    <3>1. /\ CursorPhase[r] = "open" /\ CursorPhase'[r] = "open"
          /\ CursorRow[r] = res[r].row_ + 1 /\ CursorRow'[r] = res[r].row_ + 2
      BY <2>3, <2>6 DEF CursorPhase, CursorRow, InResult
    <3>2. CursorPhase' = CursorPhase
      BY <2>4, <3>1 DEF CursorPhase
    <3>3. CursorRow' = [CursorRow EXCEPT ![r] = CursorRow[r] + 1]
      BY <2>2, <2>4, <3>1
    <3>4. Contract!Advance(r)
      BY <2>5, <2>6, <3>1, <3>2, <3>3 DEF Contract!Advance
    <3>5. QED
      BY <2>4, <3>4 DEF Contract!Next
  <2>7. CASE res[r].row_ + 1 = res[r].n
    <3>1. /\ CursorPhase[r] = "open" /\ CursorPhase'[r] = "over"
          /\ CursorRow[r] = res[r].n /\ CursorRow'[r] = res[r].n
      BY <2>3, <2>7 DEF CursorPhase, CursorRow, InResult
    <3>2. CursorRow' = CursorRow
      BY <2>4, <3>1 DEF CursorRow
    <3>3. Contract!Finish(r)
      BY <2>4, <2>5, <3>1, <3>2 DEF Contract!Finish
    <3>4. QED
      BY <2>4, <3>3 DEF Contract!Next
  <2>8. CASE res[r].row_ + 1 > res[r].n
    <3>1. /\ CursorPhase[r] = "over" /\ CursorPhase'[r] = "over"
          /\ CursorRow[r] = res[r].n /\ CursorRow'[r] = res[r].n
      BY <2>3, <2>8 DEF CursorPhase, CursorRow, InResult
    <3>2. CursorPhase' = CursorPhase
      BY <2>4, <3>1 DEF CursorPhase
    <3>3. CursorRow' = CursorRow
      BY <2>4, <3>1 DEF CursorRow
    <3>4. QED
      BY <2>4, <2>5, <3>2, <3>3 DEF Contract!vars
  <2>9. QED
    BY <2>2, <2>6, <2>7, <2>8
<1>3. CASE ResultClose(r)
  <2>1. Exists(r) /\ Becoming(r, NoResultSet)
    BY <1>3 DEF ResultClose, Becoming
  <2>2. NoResultSet \in ResultSet /\ NoResultSet.row_ >= -1
    BY <1>0 DEF NoResultSet, ResultSet
  <2>3. res'[r] = NoResultSet
    BY <1>0, <2>1 DEF Becoming
  <2>4. CursorPhase[r] # "none"
    BY <2>1 DEF CursorPhase
  <2>5. CursorPhase'[r] = "none" /\ CursorRow'[r] = 0 /\ CursorSize'[r] = 0
    BY <2>3 DEF CursorPhase, CursorRow, CursorSize, InResult, Exists, NoResultSet
  <2>6. /\ ResInv'
        /\ CursorPhase' = [CursorPhase EXCEPT ![r] = "none"]
        /\ CursorRow' = [CursorRow EXCEPT ![r] = 0]
        /\ CursorSize' = [CursorSize EXCEPT ![r] = 0]
    BY <2>1, <2>2, <2>5, BecomingKeeps
  <2>7. Contract!Close(r)
    BY <2>4, <2>6 DEF Contract!Close
  <2>8. QED
    BY <2>6, <2>7 DEF Contract!Next
<1>4. QED
  BY <1>1, <1>2, <1>3 DEF ResultStep

LEMMA NextContract ==
  ASSUME ResInv, [Next]_vars
  PROVE  ResInv' /\ [Contract!Next]_(Contract!vars)
<1>1. ASSUME NEW c \in Conn, ConnStep(c) PROVE UNCHANGED res
  BY <1>1 DEF ConnStep, CreateConnection, DuplicateConnection, ReleaseConnection,
     Open, Close, Execute, ExecuteReturns, ExecuteSelect, QueryCommand, BeginTrans,
     CommitTrans,
     RollbackTrans, SetTransactionMode, driverVars
<1>2. UNCHANGED vars \/ ServerStep => UNCHANGED res
  BY DEF vars, ServerStep, driverVars
<1>3. QED
  BY <1>1, <1>2, SameResults, ResultStepContract DEF Next

\* A result set of pq_db.cpp shows every row of its result, in order and once,
\* whatever happens to its connection or to the server in the meantime.
THEOREM CursorKept == Spec => CursorContract
<1>1. Init => ResInv /\ Contract!Init
  <2> SUFFICES ASSUME Init PROVE ResInv /\ Contract!Init
    OBVIOUS
  <2>1. \A r \in RS : res[r] = NoResultSet /\ ~Exists(r)
    BY DEF Init, NoResultSet, Exists
  <2>2. NoResultSet \in ResultSet /\ NoResultSet.row_ >= -1
    BY PqAssumption DEF NoResultSet, ResultSet
  <2>3. ResInv
    BY <2>1, <2>2 DEF Init, ResInv
  <2>4. Contract!Init
    BY <2>1 DEF Contract!Init, CursorPhase, CursorRow, CursorSize, InResult, NoResultSet
  <2>5. QED
    BY <2>3, <2>4
<1>2. ResInv /\ [Next]_vars => ResInv' /\ [Contract!Next]_(Contract!vars)
  BY NextContract
<1>3. QED
  BY <1>1, <1>2, PTL DEF Spec, CursorContract, Contract!Spec
=============================================================================
