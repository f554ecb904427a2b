----------------------------- MODULE MysqlProofs -----------------------------
(***************************************************************************)
(* Theorems of Mysql, for every number of connections, MYSQL handles,      *)
(* result sets and rows, with statements that fail and connections that    *)
(* are lost at any time.                                                   *)
(***************************************************************************)
EXTENDS Mysql, ClientViewProofs

\* A mysql_query() or the end of a fetch, on s.
Called(s) ==
  \/ \E ok \in BOOLEAN :
       \/ query_commit(s, ok) \/ query_rollback(s, ok) \/ query_set(s, ok)
       \/ \E w \in Row : query_write(s, w, ok)
       \/ \E state \in {"waiting", "used"} : query_select(s, state, ok)
  \/ fetch_end(s)
  \/ /\ query_begin(s) \/ Fails(s) \/ LostCommit(s)
     /\ autocommit' \in {autocommit, [autocommit EXCEPT ![s] = FALSE]}

\* What such a call leaves alone.
Local(s) ==
  /\ \A g \in Mysql \ {s} :
       /\ link'[g] = link[g] /\ autocommit'[g] = autocommit[g] /\ trx'[g] = trx[g]
       /\ work'[g] = work[g] /\ holds'[g] = holds[g] /\ result'[g] = result[g]
  /\ link'[s] = link[s] \/ (Faults /\ link'[s] = "cut")
  /\ committed <= committed'

LEMMA TrxBecomesLocal ==
  ASSUME MysqlLibTypeOK, NEW s \in Mysql, NEW open \in BOOLEAN, TrxBecomes(s, open)
  PROVE  /\ trx' \in [Mysql -> BOOLEAN]
         /\ work' \in [Mysql -> Nat]
         /\ holds' \in [Mysql -> SUBSET Row]
         /\ trx'[s] = open /\ work'[s] = 0 /\ holds'[s] = {}
         /\ \A g \in Mysql \ {s} :
              trx'[g] = trx[g] /\ work'[g] = work[g] /\ holds'[g] = holds[g]
  BY DEF MysqlLibTypeOK, TrxBecomes

LEMMA AutocommitLocal ==
  ASSUME MysqlLibTypeOK, NEW s \in Mysql,
         autocommit' \in {autocommit, [autocommit EXCEPT ![s] = FALSE]}
  PROVE  /\ autocommit' \in [Mysql -> BOOLEAN]
         /\ \A g \in Mysql \ {s} : autocommit'[g] = autocommit[g]
<1>1. autocommit \in [Mysql -> BOOLEAN]
  BY DEF MysqlLibTypeOK
<1>2. CASE autocommit' = autocommit
  BY <1>1, <1>2
<1>3. CASE autocommit' = [autocommit EXCEPT ![s] = FALSE]
  BY <1>1, <1>3
<1>4. QED
  BY <1>2, <1>3

LEMMA LostLocal ==
  ASSUME MysqlLibTypeOK, NEW s \in Mysql, Lost(s),
         autocommit' \in {autocommit, [autocommit EXCEPT ![s] = FALSE]},
         committed' \in {committed, committed + work[s]}
  PROVE  /\ MysqlLibTypeOK' /\ Local(s)
         /\ link'[s] = "cut" /\ ~trx'[s] /\ holds'[s] = {} /\ result'[s] = "none"
<1>1. /\ link' \in [Mysql -> {"freed", "cut", "up"}]
      /\ result' \in [Mysql -> {"none", "waiting", "used"}]
      /\ link'[s] = "cut" /\ result'[s] = "none" /\ Faults
      /\ \A g \in Mysql \ {s} : link'[g] = link[g] /\ result'[g] = result[g]
  BY DEF Lost, MysqlLibTypeOK
<1>3. committed' \in Nat /\ committed <= committed'
  BY DEF MysqlLibTypeOK
<1>4. /\ autocommit' \in [Mysql -> BOOLEAN]
      /\ \A g \in Mysql \ {s} : autocommit'[g] = autocommit[g]
  BY AutocommitLocal
<1>2. TrxBecomes(s, FALSE)
  BY DEF Lost
<1>5. QED
  BY <1>1, <1>2, <1>3, <1>4, TrxBecomesLocal DEF MysqlLibTypeOK, Local

\* The transaction ends, the connection stays.
LEMMA EndsLocal ==
  ASSUME MysqlLibTypeOK, NEW s \in Mysql, TrxBecomes(s, FALSE),
         UNCHANGED <<link, autocommit, result>>,
         committed' \in {committed, committed + work[s]}
  PROVE  MysqlLibTypeOK' /\ Local(s)
<1>1. committed' \in Nat /\ committed <= committed'
  BY DEF MysqlLibTypeOK
<1>2. /\ trx' \in [Mysql -> BOOLEAN] /\ work' \in [Mysql -> Nat]
      /\ holds' \in [Mysql -> SUBSET Row]
      /\ \A g \in Mysql \ {s} :
           trx'[g] = trx[g] /\ work'[g] = work[g] /\ holds'[g] = holds[g]
  BY TrxBecomesLocal
<1>3. QED
  BY <1>1, <1>2 DEF MysqlLibTypeOK, Local

\* A call that moves nothing but autocommit, as a failed one may.
LEMMA StillLocal ==
  ASSUME MysqlLibTypeOK, NEW s \in Mysql,
         UNCHANGED <<link, trx, work, holds, result, committed>>,
         autocommit' \in {autocommit, [autocommit EXCEPT ![s] = FALSE]}
  PROVE  MysqlLibTypeOK' /\ Local(s)
<1>1. /\ autocommit' \in [Mysql -> BOOLEAN]
      /\ \A g \in Mysql \ {s} : autocommit'[g] = autocommit[g]
  BY AutocommitLocal
<1>2. committed \in Nat /\ committed <= committed
  BY DEF MysqlLibTypeOK
<1>3. QED
  BY <1>1, <1>2 DEF MysqlLibTypeOK, Local

LEMMA FailsLocal ==
  ASSUME MysqlLibTypeOK, NEW s \in Mysql, Fails(s),
         autocommit' \in {autocommit, [autocommit EXCEPT ![s] = FALSE]}
  PROVE  /\ MysqlLibTypeOK' /\ Local(s) /\ committed' = committed
         /\ \/ UNCHANGED <<link, trx, work, holds, result>>
            \/ /\ link'[s] = "cut" /\ ~trx'[s] /\ holds'[s] = {}
               /\ result'[s] = "none"
  BY LostLocal, StillLocal DEF Fails

\* Every call keeps the types and concerns one MYSQL.
LEMMA CallLocal ==
  ASSUME MysqlLibTypeOK, NEW s \in Mysql, Called(s)
  PROVE  MysqlLibTypeOK' /\ Local(s)
<1>0. /\ work[s] \in Nat /\ committed \in Nat /\ committed + work[s] \in Nat
      /\ work[s] + 1 \in Nat /\ committed + 1 \in Nat
      /\ committed <= committed + work[s]
  BY DEF MysqlLibTypeOK
<1>1. ASSUME NEW ok \in BOOLEAN, query_commit(s, ok)
      PROVE  MysqlLibTypeOK' /\ Local(s)
  <2>1. CASE ok
    BY <1>1, <2>1, EndsLocal DEF query_commit, Commits
  <2>2. CASE Fails(s)
    BY <1>1, <2>2, FailsLocal DEF query_commit
  <2>3. CASE LostCommit(s)
    BY <1>1, <2>3, LostLocal DEF query_commit, LostCommit, Commits
  <2>4. CASE TrxBecomes(s, FALSE) /\ UNCHANGED <<link, result, committed>>
    BY <1>1, <2>4, EndsLocal DEF query_commit
  <2>5. QED
    BY <1>1, <2>1, <2>2, <2>3, <2>4 DEF query_commit
<1>2. ASSUME NEW ok \in BOOLEAN, query_rollback(s, ok)
      PROVE  MysqlLibTypeOK' /\ Local(s)
  <2>1. CASE ok
    BY <1>2, <2>1, EndsLocal DEF query_rollback
  <2>2. CASE ~ok
    BY <1>2, <2>2, FailsLocal DEF query_rollback
  <2>3. QED
    BY <2>1, <2>2
<1>3. ASSUME NEW ok \in BOOLEAN, query_set(s, ok)
      PROVE  MysqlLibTypeOK' /\ Local(s)
  BY <1>3, StillLocal, FailsLocal DEF query_set
<1>4. ASSUME NEW ok \in BOOLEAN, NEW w \in Row, query_write(s, w, ok)
      PROVE  MysqlLibTypeOK' /\ Local(s)
  <2>1. CASE UNCHANGED <<link, trx, work, holds, result>> /\ committed' = committed + 1
    BY <1>0, <1>4, <2>1 DEF query_write, MysqlLibTypeOK, Local
  <2>2. CASE /\ trx' = [trx EXCEPT ![s] = TRUE]
             /\ work' = [work EXCEPT ![s] = @ + 1]
             /\ holds' = [holds EXCEPT ![s] = @ \cup {w}]
             /\ UNCHANGED <<link, result, committed>>
    <3>1. work' \in [Mysql -> Nat] /\ holds' \in [Mysql -> SUBSET Row]
      BY <1>0, <2>2 DEF MysqlLibTypeOK
    <3>2. QED
      BY <1>0, <1>4, <2>2, <3>1 DEF query_write, MysqlLibTypeOK, Local
  <2>3. CASE TrxBecomes(s, FALSE) /\ UNCHANGED <<link, result, committed>>
    BY <1>4, <2>3, EndsLocal DEF query_write
  <2>4. CASE UNCHANGED <<link, trx, work, holds, result, committed>>
    BY <1>4, <2>4, StillLocal DEF query_write
  <2>5. CASE Fails(s)
    BY <1>4, <2>5, FailsLocal DEF query_write
  <2>6. QED
    BY <1>4, <2>1, <2>2, <2>3, <2>4, <2>5 DEF query_write
<1>5. ASSUME NEW ok \in BOOLEAN, NEW state \in {"waiting", "used"},
             query_select(s, state, ok)
      PROVE  MysqlLibTypeOK' /\ Local(s)
  <2>1. CASE ok
    BY <1>0, <1>5, <2>1 DEF query_select, MysqlLibTypeOK, Local
  <2>2. CASE ~ok
    BY <1>5, <2>2, FailsLocal DEF query_select
  <2>3. QED
    BY <2>1, <2>2
<1>6. CASE fetch_end(s)
  <2>1. CASE result' = [result EXCEPT ![s] = "none"] /\ UNCHANGED <<link, trx, work, holds>>
    BY <1>0, <1>6, <2>1 DEF fetch_end, MysqlLibTypeOK, Local
  <2>2. QED
    BY <1>6, <2>1, LostLocal DEF fetch_end
<1>7. CASE /\ query_begin(s)
           /\ autocommit' \in {autocommit, [autocommit EXCEPT ![s] = FALSE]}
  BY <1>0, <1>7, TrxBecomesLocal DEF query_begin, Commits, MysqlLibTypeOK, Local
<1>8. CASE /\ Fails(s)
           /\ autocommit' \in {autocommit, [autocommit EXCEPT ![s] = FALSE]}
  BY <1>8, FailsLocal
<1>9. CASE /\ LostCommit(s)
           /\ autocommit' \in {autocommit, [autocommit EXCEPT ![s] = FALSE]}
  BY <1>9, LostLocal DEF LostCommit, Commits
<1>10. QED
  BY <1>1, <1>2, <1>3, <1>4, <1>5, <1>6, <1>7, <1>8, <1>9 DEF Called

-----------------------------------------------------------------------------
(* The invariant.                                                          *)

\* A connection object that has a MYSQL is alive, and alone with it.
HandleUnshared ==
  /\ \A c \in Conn : mysql_[c] # NULL => Alive(c) /\ link[mysql_[c]] # "freed"
  /\ \A c, d \in Conn : mysql_[c] # NULL /\ mysql_[c] = mysql_[d] => c = d

\* Rows are locked by open transactions only, and none outlives its MYSQL.
LocksInTransaction ==
  \A s \in Mysql : (holds[s] # {} => trx[s]) /\ (link[s] = "freed" => ~trx[s])

\* A result that is not read to its end comes from the connection of its
\* thread, as executeQuery() found it: only a failure cuts that off.
Fetching(r) == Exists(r) /\ ~res[r].eof

ResultsOnHandle ==
  \A r \in RS : Fetching(r) => /\ res[r].on = mysql_[Thread[r]]
                               /\ link[res[r].on] = "up" \/ Faults

IInv == TypeOK /\ HandleUnshared /\ LocksInTransaction /\ ResultsOnHandle

LEMMA InitIInv == Init => IInv
<1> SUFFICES ASSUME Init PROVE IInv
  OBVIOUS
<1>1. MysqlLibTypeOK
  BY DEF Init, MysqlLibInit, MysqlLibTypeOK
<1>2. RefTypeOK /\ ViewTypeOK
  BY DEF Init, RefInit, RefTypeOK, ViewInit, ViewTypeOK
<1>3. NoResultSet \in ResultSet
  BY MysqlAssumption DEF NoResultSet, ResultSet
<1>4. TypeOK
  BY <1>1, <1>2, <1>3 DEF Init, TypeOK
<1>5. \A r \in RS : ~Fetching(r)
  BY DEF Init, Fetching, Exists, NoResultSet
<1>6. QED
  BY <1>4, <1>5 DEF Init, MysqlLibInit, IInv, HandleUnshared, LocksInTransaction,
     ResultsOnHandle

\* A call that locks a row runs in a transaction or opens one.
LEMMA CallLocks ==
  ASSUME MysqlLibTypeOK, NEW s \in Mysql, Called(s), holds[s] # {} => trx[s]
  PROVE  holds'[s] # {} => trx'[s]
<1>1. ASSUME NEW open, TrxBecomes(s, open) PROVE holds'[s] = {}
  BY <1>1 DEF TrxBecomes, MysqlLibTypeOK
<1>2. CASE UNCHANGED <<trx, holds>>
  BY <1>2
<1>3. ASSUME NEW ok \in BOOLEAN, NEW w \in Row, query_write(s, w, ok)
      PROVE  holds'[s] # {} => trx'[s]
  <2>1. CASE trx' = [trx EXCEPT ![s] = TRUE]
    BY <2>1 DEF MysqlLibTypeOK
  <2>2. QED
    BY <1>1, <1>2, <1>3, <2>1 DEF query_write, Fails, Lost
<1>4. QED
  BY <1>1, <1>2, <1>3 DEF Called, query_commit, query_rollback, query_set,
     query_select, fetch_end, query_begin, Fails, LostCommit, Lost

\* A call on the MYSQL of c, with what becomes of the results, keeps the
\* invariant.
LEMMA CallIInv ==
  ASSUME IInv, NEW c \in Conn, mysql_[c] # NULL, UNCHANGED <<ref, mysql_>>,
         Called(mysql_[c]), ViewTypeOK', res' \in [RS -> ResultSet],
         \A r \in RS : Fetching(r)' =>
           \/ Fetching(r) /\ res'[r].on = res[r].on
           \/ res'[r].on = mysql_[Thread[r]] /\ link'[res'[r].on] = "up"
  PROVE  IInv'
<1> DEFINE s == mysql_[c]
<1>0. /\ MysqlLibTypeOK /\ s \in Mysql /\ link[s] # "freed"
      /\ \A d \in Conn : mysql_[d] # NULL => mysql_[d] \in Mysql
      /\ \A r \in RS : Thread[r] \in Conn /\ (Fetching(r) => res[r].on \in Mysql)
  BY MysqlAssumption DEF IInv, TypeOK, HandleUnshared, Fetching, Exists, ResultSet
<1>1. MysqlLibTypeOK' /\ Local(s)
  BY <1>0, CallLocal
<1>2. TypeOK'
  BY <1>1 DEF IInv, TypeOK, RefTypeOK
<1>3. \A g \in Mysql : link'[g] = link[g] \/ (g = s /\ Faults /\ link'[g] = "cut")
  BY <1>1 DEF Local
<1>4. HandleUnshared'
  BY <1>0, <1>3 DEF IInv, HandleUnshared, Alive
<1>5. holds'[s] # {} => trx'[s]
  BY <1>0, CallLocks DEF IInv, LocksInTransaction
<1>6. LocksInTransaction'
  BY <1>0, <1>1, <1>3, <1>5 DEF IInv, LocksInTransaction, Local
<1>7. ResultsOnHandle'
  BY <1>0, <1>3 DEF IInv, ResultsOnHandle
<1>8. QED
  BY <1>2, <1>4, <1>6, <1>7 DEF IInv

\* A call for a connection after which its results are as they were.
LEMMA StatementIInv ==
  ASSUME IInv, NEW c \in Conn, mysql_[c] # NULL, UNCHANGED <<ref, mysql_, res>>,
         Called(mysql_[c]), ViewTypeOK'
  PROVE  IInv'
<1>1. \A r \in RS : Fetching(r)' => Fetching(r) /\ res'[r].on = res[r].on
  BY DEF Fetching, Exists
<1>2. res' \in [RS -> ResultSet]
  BY DEF IInv, TypeOK
<1>3. QED
  BY <1>1, <1>2, CallIInv

\* open() keeps the new MYSQL even if it failed.
LEMMA OpenIInv ==
  ASSUME IInv, NEW c \in Conn, Open(c)
  PROVE  IInv'
<1>1. PICK s \in Mysql, upTo \in {"init", "server", "database"} :
        mysql_connect(s, upTo) /\ mysql_' = [mysql_ EXCEPT ![c] = s]
  BY DEF Open
<1>2. /\ MysqlLibTypeOK /\ ViewTypeOK /\ mysql_ \in [Conn -> Mysql \cup {NULL}]
      /\ Alive(c) /\ Through(c) /\ UNCHANGED <<ref, res>> /\ SawSession(c)
      /\ s # NULL /\ link[s] = "freed"
      /\ UNCHANGED <<autocommit, trx, work, holds, result, committed>>
  BY <1>1, MysqlLibAssumption DEF IInv, TypeOK, Open, mysql_connect
<1>3. /\ mysql_' \in [Conn -> Mysql \cup {NULL}] /\ mysql_'[c] = s
      /\ \A d \in Conn \ {c} : mysql_'[d] = mysql_[d]
  BY <1>1, <1>2
<1>4. /\ link' \in [Mysql -> {"freed", "cut", "up"}]
      /\ link'[s] \in {"cut", "up"}
      /\ \A g \in Mysql \ {s} : link'[g] = link[g]
  BY <1>1, <1>2 DEF mysql_connect, MysqlLibTypeOK
<1>5. ViewTypeOK'
  BY <1>2, ViewType
<1>6. TypeOK'
  BY <1>2, <1>3, <1>4, <1>5 DEF IInv, TypeOK, RefTypeOK, MysqlLibTypeOK
<1>7. \A d \in Conn : mysql_[d] # NULL => mysql_[d] \in Mysql /\ mysql_[d] # s
  BY <1>2 DEF IInv, HandleUnshared
<1>8. HandleUnshared'
  BY <1>2, <1>3, <1>4, <1>7 DEF IInv, HandleUnshared, Alive
<1>9. LocksInTransaction'
  BY <1>2, <1>4 DEF IInv, LocksInTransaction
<1>10. \A r \in RS : Thread[r] \in Conn
  BY MysqlAssumption
<1>11. ASSUME NEW r \in RS, Fetching(r)
       PROVE  /\ Thread[r] # c /\ res[r].on = mysql_[Thread[r]]
              /\ res[r].on \in Mysql \ {s}
  <2>1. res[r].on = mysql_[Thread[r]] /\ res[r].on # NULL
    BY <1>11 DEF IInv, ResultsOnHandle, Fetching, Exists
  <2>2. QED
    BY <1>2, <1>7, <1>10, <1>11, <2>1 DEF Through, Fetching
<1>12. ResultsOnHandle'
  BY <1>2, <1>3, <1>4, <1>10, <1>11 DEF IInv, ResultsOnHandle, Fetching, Exists
<1>13. QED
  BY <1>6, <1>8, <1>9, <1>12 DEF IInv

LEMMA CloseHandleIInv ==
  ASSUME IInv, NEW c \in Conn, CloseHandle(c), SawSession(c),
         ref' \in [Conn -> Nat], \A d \in Conn \ {c} : ref'[d] = ref[d],
         UNCHANGED res
  PROVE  IInv'
<1>1. /\ MysqlLibTypeOK /\ ViewTypeOK /\ mysql_ \in [Conn -> Mysql \cup {NULL}]
      /\ Through(c)
  BY DEF IInv, TypeOK, CloseHandle
<1>2. /\ mysql_' \in [Conn -> Mysql \cup {NULL}] /\ mysql_'[c] = NULL
      /\ \A d \in Conn \ {c} : mysql_'[d] = mysql_[d]
  BY <1>1 DEF CloseHandle
<1>3. CASE mysql_[c] = NULL
  <2>1. UNCHANGED mysqlVars /\ mysql_' = mysql_
    BY <1>1, <1>3 DEF CloseHandle
  <2>2. ViewTypeOK'
    BY <1>1, ViewType
  <2>3. TypeOK'
    BY <1>1, <1>2, <2>1, <2>2 DEF IInv, TypeOK, RefTypeOK, mysqlVars, MysqlLibTypeOK
  <2>4. HandleUnshared'
    BY <1>3, <2>1 DEF IInv, HandleUnshared, Alive, mysqlVars
  <2>5. LocksInTransaction' /\ ResultsOnHandle'
    BY <2>1 DEF IInv, LocksInTransaction, ResultsOnHandle, Fetching, Exists, mysqlVars
  <2>6. QED
    BY <2>3, <2>4, <2>5 DEF IInv
<1>4. CASE mysql_[c] # NULL
  <2> DEFINE s == mysql_[c]
  <2>1. s \in Mysql /\ mysql_close(s)
    BY <1>1, <1>4 DEF CloseHandle
  <2>2. /\ link' \in [Mysql -> {"freed", "cut", "up"}]
        /\ result' \in [Mysql -> {"none", "waiting", "used"}]
        /\ autocommit' \in [Mysql -> BOOLEAN]
        /\ committed' = committed
        /\ \A g \in Mysql \ {s} : link'[g] = link[g]
    BY <1>1, <2>1 DEF mysql_close, MysqlLibTypeOK
  <2>3. /\ trx' \in [Mysql -> BOOLEAN] /\ work' \in [Mysql -> Nat]
        /\ holds' \in [Mysql -> SUBSET Row]
        /\ ~trx'[s] /\ holds'[s] = {}
        /\ \A g \in Mysql \ {s} : trx'[g] = trx[g] /\ holds'[g] = holds[g]
    BY <1>1, <2>1, TrxBecomesLocal DEF mysql_close
  <2>4. ViewTypeOK'
    BY <1>1, ViewType
  <2>5. TypeOK'
    BY <1>1, <1>2, <2>2, <2>3, <2>4 DEF IInv, TypeOK, RefTypeOK, MysqlLibTypeOK
  <2>6. \A d \in Conn \ {c} : mysql_[d] # NULL => mysql_[d] \in Mysql \ {s}
    BY <1>1, <1>4 DEF IInv, HandleUnshared
  <2>7. HandleUnshared'
    BY <1>2, <2>2, <2>6 DEF IInv, HandleUnshared, Alive
  <2>8. LocksInTransaction'
    BY <2>2, <2>3 DEF IInv, LocksInTransaction
  <2>9. ASSUME NEW r \in RS, Fetching(r)
        PROVE  /\ res[r].on = mysql_'[Thread[r]]
               /\ res[r].on \in Mysql \ {s}
    <3>1. /\ res[r].on = mysql_[Thread[r]] /\ res[r].on # NULL
          /\ Thread[r] \in Conn
      BY <2>9, MysqlAssumption DEF IInv, ResultsOnHandle, Fetching, Exists
    <3>2. Thread[r] # c
      BY <1>1, <2>9, <3>1 DEF Through, Fetching
    <3>3. QED
      BY <1>2, <2>6, <3>1, <3>2
  <2>10. ResultsOnHandle'
    BY <2>2, <2>9 DEF IInv, ResultsOnHandle, Fetching, Exists
  <2>11. QED
    BY <2>5, <2>7, <2>8, <2>10 DEF IInv
<1>5. QED
  BY <1>3, <1>4

LEMMA ConnStepIInv ==
  ASSUME IInv, NEW c \in Conn, ConnStep(c)
  PROVE  IInv'
<1>0. /\ TypeOK /\ MysqlLibTypeOK /\ ViewTypeOK /\ ref \in [Conn -> Nat]
      /\ mysql_ \in [Conn -> Mysql \cup {NULL}]
  BY DEF IInv, TypeOK, RefTypeOK
<1>1. ASSUME ref' \in [Conn -> Nat], \A d \in Conn : Alive(d) => Alive(d)',
             UNCHANGED <<viewVars, mysqlVars, mysql_, res>>
      PROVE  IInv'
  <2>1. TypeOK'
    BY <1>0, <1>1 DEF TypeOK, RefTypeOK, viewVars, ViewTypeOK, mysqlVars, MysqlLibTypeOK
  <2>2. HandleUnshared'
    BY <1>1 DEF IInv, HandleUnshared, mysqlVars
  <2>3. LocksInTransaction' /\ ResultsOnHandle'
    BY <1>1 DEF IInv, LocksInTransaction, ResultsOnHandle, Fetching, Exists, mysqlVars
  <2>4. QED
    BY <2>1, <2>2, <2>3 DEF IInv
<1>2. CASE CreateConnection(c)
  <2>1. ref[c] = 0 /\ ref' = [ref EXCEPT ![c] = 1]
    BY <1>2 DEF CreateConnection, Construct
  <2>2. mysql_[c] = NULL
    BY <2>1 DEF IInv, HandleUnshared, Alive
  <2>3. mysql_' = mysql_ /\ UNCHANGED <<viewVars, mysqlVars, res>>
    BY <1>0, <1>2, <2>2 DEF CreateConnection, SawNothing
  <2>4. ref' \in [Conn -> Nat] /\ \A d \in Conn : Alive(d) => Alive(d)'
    BY <1>0, <2>1 DEF Alive
  <2>5. QED
    BY <1>1, <2>3, <2>4
<1>3. CASE DuplicateConnection(c)
  <2>1. ref[c] \in Nat /\ ref' = [ref EXCEPT ![c] = ref[c] + 1]
    BY <1>0, <1>3 DEF DuplicateConnection, Duplicate
  <2>2. ref' \in [Conn -> Nat] /\ \A d \in Conn : Alive(d) => Alive(d)'
    BY <1>0, <2>1 DEF Alive
  <2>3. QED
    BY <1>1, <1>3, <2>2 DEF DuplicateConnection, driverVars
<1>4. CASE ReleaseConnection(c)
  <2>1. /\ ref[c] > 0 /\ ref[c] \in Nat /\ ref' = [ref EXCEPT ![c] = ref[c] - 1]
        /\ UNCHANGED res
    BY <1>0, <1>4 DEF ReleaseConnection, Release, Alive
  <2>2. ref' \in [Conn -> Nat] /\ \A d \in Conn \ {c} : ref'[d] = ref[d]
    BY <1>0, <2>1
  <2>3. CASE LastRelease(c)
    BY <1>4, <2>1, <2>2, <2>3, CloseHandleIInv DEF ReleaseConnection
  <2>4. CASE ~LastRelease(c)
    <3>1. \A d \in Conn : Alive(d) => Alive(d)'
      BY <1>0, <2>1, <2>4 DEF Alive, LastRelease
    <3>2. QED
      BY <1>1, <1>4, <2>1, <2>2, <2>4, <3>1 DEF ReleaseConnection, SawNothing
  <2>5. QED
    BY <2>3, <2>4
<1>5. CASE Open(c)
  BY <1>5, OpenIInv
<1>6. CASE Close(c)
  BY <1>0, <1>6, CloseHandleIInv DEF Close
<1>7. CASE Execute(c)
  BY <1>0, <1>7, StatementIInv, ViewType DEF Execute, MayQuery, driverVars, Called
<1>8. CASE ExecuteSelect(c)
  BY <1>0, <1>8, StatementIInv, ViewType DEF ExecuteSelect, MayQuery, driverVars, Called
<1>9. CASE BeginTrans(c)
  BY <1>0, <1>9, StatementIInv, ViewType DEF BeginTrans, MayQuery, driverVars, Called,
     AutocommitOff
<1>10. CASE CommitTrans(c)
  BY <1>0, <1>10, StatementIInv, ViewType DEF CommitTrans, MayQuery, driverVars, Called
<1>11. CASE RollbackTrans(c)
  BY <1>0, <1>11, StatementIInv, ViewType DEF RollbackTrans, MayQuery, driverVars, Called
<1>12. CASE SetTransactionMode(c)
  BY <1>0, <1>12, StatementIInv, ViewType DEF SetTransactionMode, MayQuery, driverVars,
     Called
<1>13. QED
  BY <1>2, <1>3, <1>4, <1>5, <1>6, <1>7, <1>8, <1>9, <1>10, <1>11, <1>12 DEF ConnStep

LEMMA ResultStepIInv ==
  ASSUME IInv, NEW r \in RS, ResultStep(r)
  PROVE  IInv'
<1> DEFINE c == Thread[r]
<1>0. /\ MysqlLibTypeOK /\ ViewTypeOK /\ c \in Conn /\ MaxRows \in Nat
      /\ res \in [RS -> ResultSet] /\ res[r] \in ResultSet
      /\ mysql_ \in [Conn -> Mysql \cup {NULL}]
      /\ NoResultSet \in ResultSet
  BY MysqlAssumption DEF IInv, TypeOK, NoResultSet, ResultSet
<1>1. ASSUME UNCHANGED <<ref, viewVars, mysqlVars, mysql_>>,
             res' \in [RS -> ResultSet],
             \A q \in RS : Fetching(q)' => Fetching(q) /\ res'[q].on = res[q].on
      PROVE  IInv'
  <2>1. TypeOK'
    BY <1>1 DEF IInv, TypeOK, RefTypeOK, viewVars, ViewTypeOK, mysqlVars, MysqlLibTypeOK
  <2>2. ResultsOnHandle'
    BY <1>1 DEF IInv, ResultsOnHandle, mysqlVars
  <2>3. HandleUnshared' /\ LocksInTransaction'
    BY <1>1 DEF IInv, HandleUnshared, LocksInTransaction, mysqlVars, Alive
  <2>4. QED
    BY <2>1, <2>2, <2>3 DEF IInv
<1>2. ASSUME NEW v \in ResultSet, res' = [res EXCEPT ![r] = v],
             v.on # NULL /\ ~v.eof => Fetching(r) /\ v.on = res[r].on
      PROVE  /\ res' \in [RS -> ResultSet]
             /\ \A q \in RS : Fetching(q)' => Fetching(q) /\ res'[q].on = res[q].on
  BY <1>0, <1>2 DEF Fetching, Exists
<1>3. ASSUME Fetching(r) PROVE mysql_[c] # NULL /\ res[r].on = mysql_[c]
  BY <1>3 DEF IInv, ResultsOnHandle, Fetching, Exists
<1>4. CASE ExecuteQuery(r)
  <2>1. /\ mysql_[c] # NULL /\ mysql_[c] \in Mysql /\ UNCHANGED <<ref, mysql_>>
        /\ SawNothing \/ SawFailure(c, "result")
    BY <1>0, <1>4 DEF ExecuteQuery, MayQuery
  <2>2. Called(mysql_[c]) /\ ViewTypeOK'
    BY <1>0, <1>4, <2>1, ViewType DEF ExecuteQuery, Called
  <2>3. CASE query_select(mysql_[c], "used", TRUE)
             /\ \E k \in 0 .. MaxRows :
                  res' = [res EXCEPT ![r] =
                            [NoResultSet EXCEPT !.on = mysql_[c], !.n = k]]
    <3>1. PICK k \in 0 .. MaxRows :
            res' = [res EXCEPT ![r] = [NoResultSet EXCEPT !.on = mysql_[c], !.n = k]]
      BY <2>3
    <3> DEFINE v == [NoResultSet EXCEPT !.on = mysql_[c], !.n = k]
    <3>2. v \in ResultSet /\ v.on = mysql_[c]
      BY <1>0, <2>1, <3>1 DEF NoResultSet, ResultSet
    <3>3. res' \in [RS -> ResultSet] /\ res'[r] = v /\ \A q \in RS \ {r} : res'[q] = res[q]
      BY <1>0, <3>1, <3>2
    <3>4. link'[mysql_[c]] = "up"
      BY <2>3 DEF query_select, InSync
    <3>5. \A q \in RS : Fetching(q)' =>
            \/ Fetching(q) /\ res'[q].on = res[q].on
            \/ res'[q].on = mysql_[Thread[q]] /\ link'[res'[q].on] = "up"
      BY <3>2, <3>3, <3>4 DEF Fetching, Exists
    <3>6. QED
      BY <1>0, <2>1, <2>2, <3>3, <3>5, CallIInv
  <2>4. CASE UNCHANGED res
    BY <1>0, <2>1, <2>2, <2>4, StatementIInv
  <2>5. QED
    BY <1>4, <2>3, <2>4 DEF ExecuteQuery
<1>5. CASE NextRow(r)
  <2> DEFINE v == [res[r] EXCEPT !.at = @ + 1]
  <2>1. /\ v \in ResultSet /\ v.on = res[r].on /\ v.eof = res[r].eof
        /\ res' = [res EXCEPT ![r] = v] /\ Fetching(r)
    BY <1>0, <1>5 DEF NextRow, ResultSet, Fetching
  <2>2. QED
    BY <1>1, <1>2, <1>5, <2>1 DEF NextRow, SawNothing
<1>6. CASE NextEnd(r)
  <2> DEFINE v == [res[r] EXCEPT !.eof = TRUE]
  <2>1. v \in ResultSet /\ v.eof /\ res' = [res EXCEPT ![r] = v] /\ Fetching(r)
    BY <1>0, <1>6 DEF NextEnd, ResultSet, Fetching
  <2>2. /\ res' \in [RS -> ResultSet]
        /\ \A q \in RS : Fetching(q)' => Fetching(q) /\ res'[q].on = res[q].on
    BY <1>2, <2>1
  <2>3. Called(mysql_[c]) /\ mysql_[c] # NULL /\ UNCHANGED <<ref, mysql_, viewVars>>
    BY <1>3, <1>6, <2>1 DEF NextEnd, Called, SawNothing
  <2>4. ViewTypeOK'
    BY <1>0, <2>3 DEF viewVars, ViewTypeOK
  <2>5. QED
    BY <1>0, <2>2, <2>3, <2>4, CallIInv
<1>7. CASE ResultClose(r)
  <2>1. res' = [res EXCEPT ![r] = NoResultSet] /\ NoResultSet.on = NULL
    BY <1>7 DEF ResultClose, NoResultSet
  <2>2. /\ res' \in [RS -> ResultSet]
        /\ \A q \in RS : Fetching(q)' => Fetching(q) /\ res'[q].on = res[q].on
    BY <1>0, <1>2, <2>1
  <2>3. CASE res[r].eof
    BY <1>1, <1>7, <2>2, <2>3 DEF ResultClose, SawNothing
  <2>4. CASE ~res[r].eof
    <3>1. /\ Called(mysql_[c]) /\ mysql_[c] # NULL
          /\ UNCHANGED <<ref, mysql_, viewVars>>
      BY <1>3, <1>7, <2>4 DEF ResultClose, Called, SawNothing, Fetching
    <3>2. ViewTypeOK'
      BY <1>0, <3>1 DEF viewVars, ViewTypeOK
    <3>3. QED
      BY <1>0, <2>2, <3>1, <3>2, CallIInv
  <2>5. QED
    BY <2>3, <2>4
<1>8. QED
  BY <1>4, <1>5, <1>6, <1>7 DEF ResultStep

LEMMA NextIInv == IInv /\ [Next]_vars => IInv'
<1> SUFFICES ASSUME IInv, [Next]_vars PROVE IInv'
  OBVIOUS
<1>1. CASE UNCHANGED vars
  BY <1>1 DEF vars, IInv, TypeOK, RefTypeOK, ViewTypeOK, MysqlLibTypeOK, HandleUnshared,
     LocksInTransaction, ResultsOnHandle, Fetching, Exists, Alive
<1>2. QED
  BY <1>1, ConnStepIInv, ResultStepIInv DEF Next

THEOREM Invariance == Spec => []IInv
<1>1. QED
  BY InitIInv, NextIInv, PTL DEF Spec

\* Every variable keeps to its type, whatever fails or is lost (mysql_db.cpp,
\* mysql_db.h: the fields of the two classes).
THEOREM TypeCorrect == Spec => []TypeOK
<1>1. IInv => TypeOK
  BY DEF IInv
<1>2. QED
  BY <1>1, Invariance, PTL

-----------------------------------------------------------------------------
(* Clients that write inside their transactions only, once they use any.   *)

\* Whoever knows of no transaction has none.
Known(c) == mysql_[c] # NULL /\ trx[mysql_[c]] => inTx[c]

TransactionKnown == \A c \in Conn : Known(c)

\* A call on c leaves the session of d, and what its client thinks of it.
Spares(d) ==
  /\ mysql_'[d] = mysql_[d] /\ inTx'[d] = inTx[d]
  /\ told'[d] = told[d] /\ spoiled'[d] = spoiled[d]
  /\ mysql_[d] # NULL =>
       /\ link'[mysql_[d]] = link[mysql_[d]]
       /\ trx'[mysql_[d]] = trx[mysql_[d]]
       /\ work'[mysql_[d]] = work[mysql_[d]]

LEMMA CallSpares ==
  ASSUME IInv, NEW c \in Conn, mysql_[c] # NULL, UNCHANGED mysql_,
         Called(mysql_[c]), Concluded(c)
  PROVE  \A d \in Conn \ {c} : Spares(d)
<1>1. /\ MysqlLibTypeOK /\ ViewTypeOK /\ mysql_[c] \in Mysql
      /\ \A d \in Conn \ {c} : mysql_[d] # NULL => mysql_[d] \in Mysql \ {mysql_[c]}
  BY DEF IInv, TypeOK, HandleUnshared
<1>2. Local(mysql_[c])
  BY <1>1, CallLocal
<1>3. QED
  BY <1>1, <1>2, ViewElsewhere DEF Spares, Local

\* open(), close() and the last release give c a MYSQL without a transaction,
\* or none, and its client knows of none.
LEMMA SessionSpares ==
  ASSUME IInv, NEW c \in Conn, Open(c) \/ CloseHandle(c), SawSession(c)
  PROVE  /\ \A d \in Conn \ {c} : Spares(d)
         /\ ~inTx'[c] /\ told'[c] = 0 /\ acked' = acked /\ committed' = committed
         /\ mysql_'[c] = NULL \/ ~trx'[mysql_'[c]]
<1>1. /\ MysqlLibTypeOK /\ ViewTypeOK /\ mysql_ \in [Conn -> Mysql \cup {NULL}]
      /\ \A d \in Conn : mysql_[d] # NULL =>
           /\ mysql_[d] \in Mysql /\ link[mysql_[d]] # "freed"
           /\ d # c => mysql_[d] # mysql_[c]
  BY DEF IInv, TypeOK, HandleUnshared
<1>2. ~inTx'[c] /\ told'[c] = 0 /\ acked' = acked
  BY <1>1 DEF SawSession, SawEnd, ViewTypeOK
<1>3. \A d \in Conn \ {c} :
        inTx'[d] = inTx[d] /\ told'[d] = told[d] /\ spoiled'[d] = spoiled[d]
  BY <1>1, ViewElsewhere DEF Concluded
<1>4. CASE Open(c)
  <2>1. PICK s \in Mysql, upTo \in {"init", "server", "database"} :
          mysql_connect(s, upTo) /\ mysql_' = [mysql_ EXCEPT ![c] = s]
    BY <1>4 DEF Open
  <2>2. /\ link[s] = "freed" /\ UNCHANGED <<trx, work, committed>>
        /\ \A g \in Mysql \ {s} : link'[g] = link[g]
    BY <1>1, <2>1 DEF mysql_connect, MysqlLibTypeOK
  <2>3. mysql_'[c] = s /\ \A d \in Conn \ {c} : mysql_'[d] = mysql_[d]
    BY <1>1, <2>1
  <2>4. ~trx[s]
    BY <2>2 DEF IInv, LocksInTransaction
  <2>5. QED
    BY <1>1, <1>2, <1>3, <2>2, <2>3, <2>4 DEF Spares
<1>5. CASE CloseHandle(c)
  <2>1. mysql_'[c] = NULL /\ \A d \in Conn \ {c} : mysql_'[d] = mysql_[d]
    BY <1>1, <1>5 DEF CloseHandle
  <2>2. CASE mysql_[c] = NULL
    BY <1>2, <1>3, <1>5, <2>1, <2>2 DEF CloseHandle, mysqlVars, Spares
  <2>3. CASE mysql_[c] # NULL
    <3> DEFINE s == mysql_[c]
    <3>1. s \in Mysql /\ mysql_close(s)
      BY <1>1, <1>5, <2>3 DEF CloseHandle
    <3>2. committed' = committed /\ \A g \in Mysql \ {s} : link'[g] = link[g]
      BY <1>1, <3>1 DEF mysql_close, MysqlLibTypeOK
    <3>3. \A g \in Mysql \ {s} : trx'[g] = trx[g] /\ work'[g] = work[g]
      BY <1>1, <3>1, TrxBecomesLocal DEF mysql_close
    <3>4. QED
      BY <1>1, <1>2, <1>3, <2>1, <3>2, <3>3 DEF Spares
  <2>4. QED
    BY <2>2, <2>3
<1>6. QED
  BY <1>4, <1>5

\* What the calls make of the transaction on s.
LEMMA CallTransaction ==
  ASSUME MysqlLibTypeOK, NEW s \in Mysql
  PROVE  /\ \A ok \in BOOLEAN :
              /\ query_commit(s, ok) \/ query_rollback(s, ok) =>
                   ~trx'[s] \/ (~ok /\ trx' = trx)
              /\ query_set(s, ok) => (trx'[s] => trx[s])
              /\ \A w \in Row : query_write(s, w, ok) =>
                   (trx'[s] => trx[s] \/ ~autocommit[s])
              /\ \A state : query_select(s, state, ok) => (trx'[s] => trx[s])
         /\ Fails(s) \/ LostCommit(s) \/ fetch_end(s) => (trx'[s] => trx[s])
<1>1. TrxBecomes(s, FALSE) => ~trx'[s]
  BY DEF TrxBecomes, MysqlLibTypeOK
<1>2. Fails(s) => trx' = trx \/ ~trx'[s]
  BY <1>1 DEF Fails, Lost
<1>3. ASSUME NEW ok \in BOOLEAN, query_commit(s, ok) \/ query_rollback(s, ok)
      PROVE  ~trx'[s] \/ (~ok /\ trx' = trx)
  BY <1>1, <1>2, <1>3 DEF query_commit, query_rollback, LostCommit, Lost
<1>4. ASSUME NEW ok \in BOOLEAN, NEW w \in Row, query_write(s, w, ok), trx'[s]
      PROVE  trx[s] \/ ~autocommit[s]
  BY <1>1, <1>2, <1>4 DEF query_write
<1>5. ASSUME NEW ok \in BOOLEAN, query_set(s, ok), trx'[s] PROVE trx[s]
  BY <1>2, <1>5 DEF query_set
<1>6. ASSUME NEW ok \in BOOLEAN, NEW state, query_select(s, state, ok), trx'[s]
      PROVE  trx[s]
  BY <1>2, <1>6 DEF query_select
<1>7. ASSUME Fails(s) \/ LostCommit(s) \/ fetch_end(s), trx'[s] PROVE trx[s]
  BY <1>1, <1>2, <1>7 DEF fetch_end, LostCommit, Lost
<1>8. QED
  BY <1>3, <1>4, <1>5, <1>6, <1>7

\* The steps of the connections, as far as sessions and clients go.
LEMMA ConnStepKinds ==
  ASSUME IInv, NEW c \in Conn, ConnStep(c)
  PROVE  \/ UNCHANGED <<viewVars, mysqlVars, mysql_>>
         \/ (Open(c) \/ CloseHandle(c)) /\ SawSession(c)
         \/ /\ mysql_[c] # NULL /\ UNCHANGED mysql_
            /\ \/ Execute(c) \/ ExecuteSelect(c) \/ BeginTrans(c) \/ CommitTrans(c)
               \/ RollbackTrans(c) \/ SetTransactionMode(c)
<1>1. CASE CreateConnection(c)
  <2>1. mysql_[c] = NULL /\ mysql_ \in [Conn -> Mysql \cup {NULL}]
    BY <1>1 DEF CreateConnection, Construct, IInv, TypeOK, HandleUnshared, Alive
  <2>2. QED
    BY <1>1, <2>1 DEF CreateConnection, SawNothing
<1>2. CASE ~CreateConnection(c)
  BY <1>2 DEF ConnStep, DuplicateConnection, ReleaseConnection, Open, Close, Execute,
     ExecuteSelect, BeginTrans, CommitTrans, RollbackTrans, SetTransactionMode, MayQuery,
     driverVars, SawNothing
<1>3. QED
  BY <1>1, <1>2

\* The steps of the result sets, likewise.
Reads(c) ==
  \/ fetch_end(mysql_[c]) /\ SawNothing
  \/ query_select(mysql_[c], "used", TRUE) /\ SawNothing
  \/ query_select(mysql_[c], "used", FALSE) /\ SawFailure(c, "result")

LEMMA ResultStepKinds ==
  ASSUME IInv, NEW r \in RS, ResultStep(r)
  PROVE  \/ UNCHANGED <<viewVars, mysqlVars, mysql_>>
         \/ /\ Thread[r] \in Conn /\ mysql_[Thread[r]] # NULL /\ UNCHANGED mysql_
            /\ Reads(Thread[r])
<1>1. Fetching(r) => mysql_[Thread[r]] # NULL /\ res[r].on = mysql_[Thread[r]]
  BY DEF IInv, ResultsOnHandle, Fetching, Exists
<1>2. CASE ExecuteQuery(r)
  BY <1>2, MysqlAssumption DEF ExecuteQuery, MayQuery, Reads
<1>3. CASE NextRow(r)
  BY <1>3 DEF NextRow, SawNothing
<1>4. CASE NextEnd(r) \/ ResultClose(r)
  BY <1>1, <1>4, MysqlAssumption DEF NextEnd, ResultClose, Fetching, Reads, SawNothing
<1>5. QED
  BY <1>2, <1>3, <1>4 DEF ResultStep

LEMMA ReadsCalls ==
  ASSUME NEW c \in Conn, Reads(c)
  PROVE  Called(mysql_[c]) /\ Concluded(c)
  BY DEF Reads, Called, Concluded

\* Every statement is a call and a conclusion.
LEMMA StatementCalls ==
  ASSUME NEW c \in Conn,
         \/ Execute(c) \/ ExecuteSelect(c) \/ BeginTrans(c) \/ CommitTrans(c)
         \/ RollbackTrans(c) \/ SetTransactionMode(c)
  PROVE  Called(mysql_[c]) /\ Concluded(c)
<1>1. CASE Execute(c)
  BY <1>1 DEF Execute, Called, Concluded
<1>2. CASE ExecuteSelect(c) \/ SetTransactionMode(c)
  BY <1>2 DEF ExecuteSelect, SetTransactionMode, Called, Concluded
<1>3. CASE BeginTrans(c)
  BY <1>3 DEF BeginTrans, AutocommitOff, Called, Concluded
<1>4. CASE CommitTrans(c) \/ RollbackTrans(c)
  BY <1>4 DEF CommitTrans, RollbackTrans, Called, Concluded
<1>5. QED
  BY <1>1, <1>2, <1>3, <1>4

LEMMA StatementKnown ==
  ASSUME IInv, ~Mixes, NEW c \in Conn, mysql_[c] # NULL, Known(c), UNCHANGED mysql_,
         \/ Execute(c) \/ ExecuteSelect(c) \/ BeginTrans(c) \/ CommitTrans(c)
         \/ RollbackTrans(c) \/ SetTransactionMode(c)
  PROVE  Known(c)'
<1> DEFINE s == mysql_[c]
<1>0. MysqlLibTypeOK /\ ViewTypeOK /\ s \in Mysql /\ inTx \in [Conn -> BOOLEAN]
  BY DEF IInv, TypeOK, ViewTypeOK
<1>1. CASE Execute(c)
  <2>1. UNCHANGED inTx /\ (inTx[c] \/ autocommit[s])
    BY <1>1 DEF Execute, SawWrite, SawFailure
  <2>2. trx'[s] => trx[s] \/ ~autocommit[s]
    BY <1>0, <1>1, CallTransaction DEF Execute
  <2>3. QED
    BY <2>1, <2>2 DEF Known
<1>2. CASE ExecuteSelect(c) \/ SetTransactionMode(c)
  <2>1. UNCHANGED inTx
    BY <1>2 DEF ExecuteSelect, SetTransactionMode, SawResult, SawNothing, SawFailure,
       viewVars
  <2>2. trx'[s] => trx[s]
    BY <1>0, <1>2, CallTransaction DEF ExecuteSelect, SetTransactionMode
  <2>3. QED
    BY <2>1, <2>2 DEF Known
<1>3. CASE BeginTrans(c)
  <2>1. CASE SawBegin(c, TRUE)
    BY <1>0, <2>1 DEF SawBegin, Known
  <2>2. CASE (Fails(s) \/ LostCommit(s)) /\ SawBegin(c, FALSE)
    BY <1>0, <2>2, CallTransaction DEF SawBegin, SawFailure, Known
  <2>3. QED
    BY <1>3, <2>1, <2>2 DEF BeginTrans
<1>4. CASE CommitTrans(c) \/ RollbackTrans(c)
  <2>1. PICK ok \in BOOLEAN : /\ query_commit(s, ok) \/ query_rollback(s, ok)
                              /\ SawCommit(c, ok) \/ SawRollback(c, ok)
    BY <1>4 DEF CommitTrans, RollbackTrans
  <2>2. ~trx'[s] \/ (~ok /\ trx' = trx)
    BY <1>0, <2>1, CallTransaction
  <2>3. ~ok => UNCHANGED inTx
    BY <2>1 DEF SawCommit, SawRollback, SawFailure
  <2>4. ~ok \/ ~trx'[s]
    BY <2>2
  <2>5. QED
    BY <2>2, <2>3, <2>4 DEF Known
<1>5. QED
  BY <1>1, <1>2, <1>3, <1>4

LEMMA NextKnown == ~Mixes /\ IInv /\ TransactionKnown /\ [Next]_vars => TransactionKnown'
<1> SUFFICES ASSUME ~Mixes, IInv, TransactionKnown, [Next]_vars PROVE TransactionKnown'
  OBVIOUS
<1>1. CASE UNCHANGED <<viewVars, mysqlVars, mysql_>>
  BY <1>1 DEF TransactionKnown, Known, viewVars, mysqlVars
<1>2. ASSUME NEW c \in Conn, \A d \in Conn \ {c} : Spares(d), Known(c)'
      PROVE  TransactionKnown'
  BY <1>2 DEF TransactionKnown, Known, Spares
<1>3. ASSUME NEW c \in Conn, ConnStep(c) PROVE TransactionKnown'
  <2>1. CASE (Open(c) \/ CloseHandle(c)) /\ SawSession(c)
    BY <1>2, <2>1, SessionSpares DEF Known
  <2>2. CASE /\ mysql_[c] # NULL /\ UNCHANGED mysql_
             /\ \/ Execute(c) \/ ExecuteSelect(c) \/ BeginTrans(c) \/ CommitTrans(c)
                \/ RollbackTrans(c) \/ SetTransactionMode(c)
    <3>1. \A d \in Conn \ {c} : Spares(d)
      BY <2>2, StatementCalls, CallSpares
    <3>2. Known(c)'
      BY <2>2, StatementKnown DEF TransactionKnown
    <3>3. QED
      BY <1>2, <3>1, <3>2
  <2>3. QED
    BY <1>1, <1>3, <2>1, <2>2, ConnStepKinds
<1>4. ASSUME NEW c \in Conn, mysql_[c] # NULL, UNCHANGED mysql_, Reads(c)
      PROVE  TransactionKnown'
  <2>1. \A d \in Conn \ {c} : Spares(d)
    BY <1>4, ReadsCalls, CallSpares
  <2>2. UNCHANGED inTx
    BY <1>4 DEF Reads, SawNothing, SawFailure, viewVars
  <2>3. trx'[mysql_[c]] => trx[mysql_[c]]
    BY <1>4, CallTransaction DEF Reads, IInv, TypeOK
  <2>4. QED
    BY <1>2, <1>4, <2>1, <2>2, <2>3 DEF TransactionKnown, Known
<1>5. CASE UNCHANGED vars
  BY <1>1, <1>5 DEF vars, viewVars, mysqlVars
<1>6. QED
  BY <1>1, <1>3, <1>4, <1>5, ResultStepKinds DEF Next

LEMMA InitKnown == Init => TransactionKnown
  BY DEF Init, TransactionKnown, Known

\* Although beginTrans() of mysql_db.cpp turns autocommit off for good, a client
\* that from then on writes inside its transactions only locks no row once
\* commitTrans() or rollbackTrans() has reported the end of one.
THEOREM QuietConnectionsHoldNothing ==
  ASSUME ~Mixes
  PROVE  Spec => []QuietHoldsNothing
<1>1. IInv /\ TransactionKnown /\ [Next]_vars => TransactionKnown'
  BY NextKnown
<1>2. IInv /\ TransactionKnown => QuietHoldsNothing
  BY DEF IInv, TypeOK, LocksInTransaction, TransactionKnown, Known, QuietHoldsNothing
<1>3. QED
  BY <1>1, <1>2, InitKnown, Invariance, PTL DEF Spec

-----------------------------------------------------------------------------
(* What careful clients were told is in the database.                      *)

\* The client of c counts on the transaction that is open in its session.
Trusts(c) ==
  mysql_[c] # NULL /\ link[mysql_[c]] = "up" /\ inTx[c] /\ ~spoiled[c]

Covered(c) ==
  /\ ~inTx[c] => told[c] = 0
  /\ Trusts(c) => trx[mysql_[c]] /\ told[c] <= work[mysql_[c]]

\* AckedDurable made inductive: what clients count on is really under way.
LedgerTrue == acked <= committed /\ \A c \in Conn : Covered(c)

LEMMA SparedCovered ==
  ASSUME NEW d \in Conn, Spares(d), Covered(d)
  PROVE  Covered(d)'
  BY DEF Spares, Covered, Trusts

\* A statement failed: the client counts on its transaction no more.
LEMMA FailureCovers ==
  ASSUME "result" \in Heeds, ViewTypeOK, NEW c \in Conn, Covered(c),
         SawFailure(c, "result")
  PROVE  Covered(c)' /\ acked' = acked
<1>1. inTx[c] => spoiled'[c]
  BY DEF SawFailure, Spoils, ViewTypeOK
<1>2. QED
  BY <1>1 DEF Covered, Trusts, SawFailure

\* The transaction is as it was, or its connection is lost.
LEMMA StillCovers ==
  ASSUME NEW c \in Conn, Covered(c), UNCHANGED <<viewVars, mysql_>>,
         \/ UNCHANGED <<link, trx, work>>
         \/ link'[mysql_[c]] = "cut"
  PROVE  Covered(c)'
  BY DEF Covered, Trusts, viewVars

LEMMA WriteCovers ==
  ASSUME IInv, ~Mixes, "result" \in Heeds, NEW c \in Conn, mysql_[c] # NULL,
         UNCHANGED mysql_, Known(c), Covered(c), acked <= committed, Execute(c)
  PROVE  Covered(c)' /\ acked' <= committed'
<1> DEFINE s == mysql_[c]
<1>0. /\ MysqlLibTypeOK /\ ViewTypeOK /\ s \in Mysql
      /\ acked \in Nat /\ committed \in Nat /\ work[s] \in Nat /\ told[c] \in Nat
  BY DEF IInv, TypeOK, MysqlLibTypeOK, ViewTypeOK
<1>1. PICK w \in Row, ok \in BOOLEAN : query_write(s, w, ok) /\ SawWrite(c, ok)
  BY DEF Execute
<1>2. inTx[c] \/ autocommit[s]
  BY DEF Execute
<1>3. CASE ok /\ inTx[c]
  <2>1. told'[c] = told[c] + 1 /\ acked' = acked /\ UNCHANGED <<inTx, spoiled>>
    BY <1>0, <1>1, <1>3 DEF SawWrite, ViewTypeOK
  <2>2. /\ link[s] = "up" /\ UNCHANGED link
        /\ committed' \in {committed, committed + 1}
        /\ trx[s] => /\ trx' = [trx EXCEPT ![s] = TRUE]
                     /\ work' = [work EXCEPT ![s] = work[s] + 1]
    BY <1>1, <1>3 DEF query_write, InSync
  <2>3. CASE Trusts(c)
    <3>1. trx[s] /\ told[c] <= work[s]
      BY <2>3 DEF Covered
    <3>2. trx'[s] /\ work'[s] = work[s] + 1
      BY <1>0, <2>2, <3>1 DEF MysqlLibTypeOK
    <3>3. QED
      BY <1>0, <1>3, <2>1, <2>2, <3>1, <3>2 DEF Covered
  <2>4. CASE ~Trusts(c)
    BY <1>0, <1>3, <2>1, <2>2, <2>4 DEF Covered, Trusts
  <2>5. QED
    BY <2>3, <2>4
<1>4. CASE ok /\ ~inTx[c]
  <2>1. told' = told /\ inTx' = inTx /\ acked' = acked + 1
    BY <1>1, <1>4 DEF SawWrite
  <2>2. ~trx[s]
    BY <1>4 DEF Known
  <2>3. committed' = committed + 1
    BY <1>1, <1>2, <1>4, <2>2 DEF query_write
  <2>4. QED
    BY <1>0, <1>4, <2>1, <2>3 DEF Covered, Trusts
<1>5. CASE ~ok
  <2>1. SawFailure(c, "result") /\ committed' = committed
    BY <1>1, <1>5 DEF SawWrite, query_write, Fails
  <2>2. QED
    BY <1>0, <2>1, FailureCovers
<1>6. QED
  BY <1>3, <1>4, <1>5

LEMMA BeginCovers ==
  ASSUME IInv, "result" \in Heeds, NEW c \in Conn, mysql_[c] # NULL, UNCHANGED mysql_, Covered(c),
         acked <= committed, BeginTrans(c)
  PROVE  Covered(c)' /\ acked' <= committed'
<1> DEFINE s == mysql_[c]
<1>0. /\ MysqlLibTypeOK /\ ViewTypeOK /\ s \in Mysql
      /\ acked \in Nat /\ committed \in Nat /\ work[s] \in Nat
  BY DEF IInv, TypeOK, MysqlLibTypeOK, ViewTypeOK
<1>1. CASE query_begin(s) /\ SawBegin(c, TRUE)
  <2>1. inTx'[c] /\ told'[c] = 0 /\ acked' = acked
    BY <1>0, <1>1 DEF SawBegin, ViewTypeOK
  <2>2. TrxBecomes(s, TRUE) /\ committed' = committed + work[s]
    BY <1>1 DEF query_begin, Commits
  <2>3. trx'[s] /\ work'[s] = 0
    BY <1>0, <2>2, TrxBecomesLocal
  <2>4. acked' <= committed'
    BY <1>0, <2>1, <2>2
  <2>5. QED
    BY <2>1, <2>3, <2>4 DEF Covered
<1>2. CASE (Fails(s) \/ LostCommit(s)) /\ SawBegin(c, FALSE)
  <2>1. Covered(c)' /\ acked' = acked
    BY <1>0, <1>2, FailureCovers DEF SawBegin
  <2>2. committed' \in {committed, committed + work[s]}
    BY <1>2 DEF Fails, LostCommit, Commits
  <2>3. QED
    BY <1>0, <2>1, <2>2
<1>3. QED
  BY <1>1, <1>2 DEF BeginTrans

LEMMA CommitCovers ==
  ASSUME IInv, "result" \in Heeds, NEW c \in Conn, mysql_[c] # NULL, UNCHANGED mysql_, Covered(c),
         acked <= committed, CommitTrans(c)
  PROVE  Covered(c)' /\ acked' <= committed'
<1> DEFINE s == mysql_[c]
<1>0. /\ MysqlLibTypeOK /\ ViewTypeOK /\ s \in Mysql
      /\ acked \in Nat /\ committed \in Nat /\ work[s] \in Nat /\ told[c] \in Nat
  BY DEF IInv, TypeOK, MysqlLibTypeOK, ViewTypeOK
<1>1. PICK ok \in BOOLEAN : query_commit(s, ok) /\ SawCommit(c, ok)
  BY DEF CommitTrans
<1>2. CASE ok
  <2>1. link[s] = "up" /\ committed' = committed + work[s]
    BY <1>1, <1>2 DEF query_commit, InSync, Commits
  <2>2. ~inTx'[c] /\ told'[c] = 0 /\ acked' = acked + told[c]
    BY <1>0, <1>1, <1>2 DEF SawCommit, SawEnd, ViewTypeOK
  <2>3. told[c] <= work[s]
    <3>1. CASE inTx[c]
      BY <2>1, <3>1 DEF CommitTrans, WouldCommit, Covered, Trusts
    <3>2. CASE ~inTx[c]
      BY <1>0, <3>2 DEF Covered
    <3>3. QED
      BY <3>1, <3>2
  <2>4. acked' <= committed'
    BY <1>0, <2>1, <2>2, <2>3
  <2>5. QED
    BY <2>2, <2>4 DEF Covered, Trusts
<1>3. CASE ~ok
  <2>1. Covered(c)' /\ acked' = acked
    BY <1>0, <1>1, <1>3, FailureCovers DEF SawCommit
  <2>2. committed' \in {committed, committed + work[s]}
    BY <1>1, <1>3 DEF query_commit, Fails, LostCommit, Commits
  <2>3. QED
    BY <1>0, <2>1, <2>2
<1>4. QED
  BY <1>2, <1>3

LEMMA RollbackCovers ==
  ASSUME IInv, "result" \in Heeds, NEW c \in Conn, mysql_[c] # NULL, UNCHANGED mysql_, Covered(c),
         RollbackTrans(c)
  PROVE  Covered(c)' /\ acked' = acked /\ committed' = committed
<1>0. MysqlLibTypeOK /\ ViewTypeOK /\ mysql_[c] \in Mysql
  BY DEF IInv, TypeOK
<1>1. PICK ok \in BOOLEAN : query_rollback(mysql_[c], ok) /\ SawRollback(c, ok)
  BY DEF RollbackTrans
<1>2. CASE ok
  BY <1>0, <1>1, <1>2 DEF query_rollback, SawRollback, SawEnd, ViewTypeOK, Covered, Trusts
<1>3. CASE ~ok
  BY <1>0, <1>1, <1>3, FailureCovers DEF query_rollback, Fails, SawRollback
<1>4. QED
  BY <1>2, <1>3

\* A SELECT or a SET, whoever asks for it.
LEMMA SelectCovers ==
  ASSUME IInv, "result" \in Heeds, NEW c \in Conn, mysql_[c] # NULL,
         UNCHANGED mysql_, Covered(c), NEW ok \in BOOLEAN, NEW state,
         query_select(mysql_[c], state, ok) \/ query_set(mysql_[c], ok),
         SawResult(c, ok)
  PROVE  Covered(c)' /\ acked' = acked /\ committed' = committed
<1>0. ViewTypeOK
  BY DEF IInv, TypeOK
<1>1. CASE ok
  BY <1>1, StillCovers DEF query_select, query_set, SawResult, SawNothing, viewVars
<1>2. CASE ~ok
  <2>1. committed' = committed
    BY <1>2 DEF query_select, query_set, Fails
  <2>2. QED
    BY <1>0, <1>2, <2>1, FailureCovers DEF SawResult
<1>3. QED
  BY <1>1, <1>2

LEMMA FetchCovers ==
  ASSUME IInv, NEW c \in Conn, mysql_[c] # NULL, UNCHANGED mysql_, Covered(c),
         fetch_end(mysql_[c]), SawNothing
  PROVE  Covered(c)' /\ acked' = acked /\ committed' = committed
<1>1. UNCHANGED <<link, trx, work>> \/ link'[mysql_[c]] = "cut"
  BY DEF fetch_end, Lost, IInv, TypeOK, MysqlLibTypeOK
<1>2. QED
  BY <1>1, StillCovers DEF fetch_end, SawNothing, viewVars

LEMMA NextLedger ==
  /\ ~Mixes /\ "result" \in Heeds
  /\ IInv /\ TransactionKnown /\ LedgerTrue /\ [Next]_vars
  => LedgerTrue'
<1> SUFFICES ASSUME ~Mixes, "result" \in Heeds, IInv, TransactionKnown, LedgerTrue,
                    [Next]_vars
             PROVE  LedgerTrue'
  OBVIOUS
<1>1. CASE UNCHANGED <<viewVars, mysqlVars, mysql_>>
  BY <1>1 DEF LedgerTrue, Covered, Trusts, viewVars, mysqlVars
<1>2. ASSUME NEW c \in Conn, \A d \in Conn \ {c} : Spares(d), Covered(c)',
             acked' <= committed'
      PROVE  LedgerTrue'
  BY <1>2, SparedCovered DEF LedgerTrue
<1>3. ASSUME NEW c \in Conn, ConnStep(c) PROVE LedgerTrue'
  <2>1. CASE (Open(c) \/ CloseHandle(c)) /\ SawSession(c)
    <3>1. Covered(c)' /\ acked' <= committed'
      BY <2>1, SessionSpares DEF LedgerTrue, Covered, Trusts
    <3>2. QED
      BY <1>2, <2>1, <3>1, SessionSpares
  <2>2. CASE /\ mysql_[c] # NULL /\ UNCHANGED mysql_
             /\ \/ Execute(c) \/ ExecuteSelect(c) \/ BeginTrans(c) \/ CommitTrans(c)
                \/ RollbackTrans(c) \/ SetTransactionMode(c)
    <3>1. \A d \in Conn \ {c} : Spares(d)
      BY <2>2, StatementCalls, CallSpares
    <3>2. Covered(c) /\ Known(c) /\ acked <= committed
      BY DEF LedgerTrue, TransactionKnown
    <3>3. Covered(c)' /\ acked' <= committed'
      <4>1. CASE ExecuteSelect(c) \/ SetTransactionMode(c)
        BY <2>2, <3>2, <4>1, SelectCovers DEF ExecuteSelect, SetTransactionMode
      <4>2. QED
        BY <2>2, <3>2, <4>1, WriteCovers, BeginCovers, CommitCovers, RollbackCovers
    <3>4. QED
      BY <1>2, <3>1, <3>3
  <2>3. QED
    BY <1>1, <1>3, <2>1, <2>2, ConnStepKinds
<1>4. ASSUME NEW c \in Conn, mysql_[c] # NULL, UNCHANGED mysql_, Reads(c)
      PROVE  LedgerTrue'
  <2>1. \A d \in Conn \ {c} : Spares(d)
    BY <1>4, ReadsCalls, CallSpares
  <2>2. Covered(c) /\ acked <= committed
    BY DEF LedgerTrue
  <2>3. Covered(c)' /\ acked' = acked /\ committed' = committed
    BY <1>4, <2>2, FetchCovers, SelectCovers DEF Reads, SawResult
  <2>4. QED
    BY <1>2, <2>1, <2>2, <2>3
<1>5. CASE UNCHANGED vars
  BY <1>1, <1>5 DEF vars, viewVars, mysqlVars
<1>6. QED
  BY <1>1, <1>3, <1>4, <1>5, ResultStepKinds DEF Next

\* To clients that give a transaction up when a call in it has failed, and that
\* write inside their transactions only, the true of execute() and commitTrans()
\* in mysql_db.cpp is a promise: what they were told is in the database is in it,
\* whatever fails, waits too long, is rolled back to break a deadlock, or is lost.
THEOREM CarefulClientsKeepTheirWrites ==
  ASSUME ~Mixes, "result" \in Heeds
  PROVE  Spec => []AckedDurable
<1>1. Init => LedgerTrue
  BY DEF Init, ViewInit, MysqlLibInit, LedgerTrue, Covered, Trusts
<1>2. IInv /\ TransactionKnown /\ [Next]_vars => TransactionKnown'
  BY NextKnown
<1>3. IInv /\ TransactionKnown /\ LedgerTrue /\ [Next]_vars => LedgerTrue'
  BY NextLedger
<1>4. LedgerTrue => AckedDurable
  BY DEF LedgerTrue, AckedDurable
<1>5. QED
  BY <1>1, <1>2, <1>3, <1>4, InitKnown, Invariance, PTL DEF Spec

-----------------------------------------------------------------------------
(* Handles have an owner, and whatever is out of sync can be read.          *)

LEMMA SameOwners ==
  ASSUME NoOrphan, UNCHANGED mysql_, \A d \in Conn : Alive(d) => Alive(d)',
         \A s \in Mysql : link'[s] # "freed" => link[s] # "freed"
  PROVE  NoOrphan'
  BY DEF NoOrphan

\* A MYSQL that is in use stays in use, and no call makes a new one.
LEMMA CallOwners ==
  ASSUME IInv, NoOrphan, NEW c \in Conn, mysql_[c] # NULL,
         UNCHANGED <<ref, mysql_>>, Called(mysql_[c])
  PROVE  NoOrphan'
<1>1. MysqlLibTypeOK /\ mysql_[c] \in Mysql /\ link[mysql_[c]] # "freed"
  BY DEF IInv, TypeOK, HandleUnshared
<1>2. \A s \in Mysql : link'[s] # "freed" => link[s] # "freed"
  BY <1>1, CallLocal DEF Local
<1>3. QED
  BY <1>2, SameOwners DEF Alive

LEMMA CloseHandleOwners ==
  ASSUME IInv, NoOrphan, NEW c \in Conn, CloseHandle(c),
         \A d \in Conn \ {c} : ref'[d] = ref[d]
  PROVE  NoOrphan'
<1>1. MysqlLibTypeOK /\ mysql_ \in [Conn -> Mysql \cup {NULL}]
  BY DEF IInv, TypeOK
<1>2. \A d \in Conn \ {c} : mysql_'[d] = mysql_[d]
  BY <1>1 DEF CloseHandle
<1>3. \A s \in Mysql : link'[s] # "freed" => link[s] # "freed" /\ s # mysql_[c]
  <2>1. CASE mysql_[c] = NULL
    BY <2>1, MysqlLibAssumption DEF CloseHandle, mysqlVars
  <2>2. CASE mysql_[c] # NULL
    BY <1>1, <2>2 DEF CloseHandle, mysql_close, MysqlLibTypeOK
  <2>3. QED
    BY <2>1, <2>2
<1>4. SUFFICES ASSUME NEW s \in Mysql, link'[s] # "freed"
               PROVE  \E d \in Conn : Alive(d)' /\ mysql_'[d] = s
  BY DEF NoOrphan
<1>5. PICK d \in Conn : Alive(d) /\ mysql_[d] = s
  BY <1>3, <1>4 DEF NoOrphan
<1>6. QED
  BY <1>2, <1>3, <1>4, <1>5 DEF Alive

LEMMA NextOwners == ~Reopens /\ IInv /\ NoOrphan /\ [Next]_vars => NoOrphan'
<1> SUFFICES ASSUME ~Reopens, IInv, NoOrphan, [Next]_vars PROVE NoOrphan'
  OBVIOUS
<1>0. /\ ref \in [Conn -> Nat] /\ MysqlLibTypeOK
      /\ mysql_ \in [Conn -> Mysql \cup {NULL}]
  BY DEF IInv, TypeOK, RefTypeOK
<1>1. CASE UNCHANGED vars
  BY <1>1, SameOwners DEF vars, Alive
<1>2. ASSUME NEW c \in Conn, ConnStep(c) PROVE NoOrphan'
  <2>1. CASE CreateConnection(c) \/ DuplicateConnection(c)
    <3>1. CreateConnection(c) => mysql_[c] = NULL
      BY DEF CreateConnection, Construct, IInv, HandleUnshared, Alive
    <3>2. UNCHANGED <<link, mysql_>>
      BY <1>0, <2>1, <3>1 DEF CreateConnection, DuplicateConnection, mysqlVars, driverVars
    <3>3. ref' \in {[ref EXCEPT ![c] = 1], [ref EXCEPT ![c] = ref[c] + 1]}
      BY <2>1 DEF CreateConnection, DuplicateConnection, Construct, Duplicate
    <3>4. \A d \in Conn : Alive(d) => Alive(d)'
      BY <1>0, <3>3 DEF Alive
    <3>5. QED
      BY <3>2, <3>4, SameOwners
  <2>2. CASE ReleaseConnection(c)
    <3>1. /\ ref[c] > 0 /\ ref[c] \in Nat /\ ref' = [ref EXCEPT ![c] = ref[c] - 1]
      BY <1>0, <2>2 DEF ReleaseConnection, Release, Alive
    <3>2. \A d \in Conn \ {c} : ref'[d] = ref[d]
      BY <1>0, <3>1
    <3>3. CASE LastRelease(c)
      BY <2>2, <3>2, <3>3, CloseHandleOwners DEF ReleaseConnection
    <3>4. CASE ~LastRelease(c)
      <4>1. \A d \in Conn : Alive(d) => Alive(d)'
        BY <1>0, <3>1, <3>4 DEF Alive, LastRelease
      <4>2. QED
        BY <2>2, <3>4, <4>1, SameOwners DEF ReleaseConnection, mysqlVars
    <3>5. QED
      BY <3>3, <3>4
  <2>3. CASE Open(c)
    <3>1. PICK s \in Mysql, upTo \in {"init", "server", "database"} :
            mysql_connect(s, upTo) /\ mysql_' = [mysql_ EXCEPT ![c] = s]
      BY <2>3 DEF Open
    <3>2. Alive(c) /\ mysql_[c] = NULL /\ UNCHANGED ref
      BY <2>3 DEF Open
    <3>3. \A g \in Mysql \ {s} : link'[g] = link[g]
      BY <1>0, <3>1 DEF mysql_connect, MysqlLibTypeOK
    <3>4. mysql_'[c] = s /\ \A d \in Conn \ {c} : mysql_'[d] = mysql_[d]
      BY <1>0, <3>1
    <3>5. QED
      BY <3>2, <3>3, <3>4, MysqlLibAssumption DEF NoOrphan, Alive
  <2>4. CASE Close(c)
    BY <2>4, CloseHandleOwners DEF Close
  <2>5. CASE \/ Execute(c) \/ ExecuteSelect(c) \/ BeginTrans(c) \/ CommitTrans(c)
             \/ RollbackTrans(c) \/ SetTransactionMode(c)
    <3>1. mysql_[c] # NULL /\ UNCHANGED <<ref, mysql_>>
      BY <2>5 DEF Execute, ExecuteSelect, BeginTrans, CommitTrans, RollbackTrans,
         SetTransactionMode, MayQuery, driverVars
    <3>2. QED
      BY <2>5, <3>1, StatementCalls, CallOwners
  <2>6. QED
    BY <1>2, <2>1, <2>2, <2>3, <2>4, <2>5 DEF ConnStep
<1>3. ASSUME NEW r \in RS, ResultStep(r) PROVE NoOrphan'
  <2>1. UNCHANGED ref
    BY <1>3 DEF ResultStep, ExecuteQuery, NextRow, NextEnd, ResultClose
  <2>2. CASE UNCHANGED <<viewVars, mysqlVars, mysql_>>
    BY <2>1, <2>2, SameOwners DEF mysqlVars, Alive
  <2>3. CASE /\ Thread[r] \in Conn /\ mysql_[Thread[r]] # NULL /\ UNCHANGED mysql_
             /\ Reads(Thread[r])
    BY <2>1, <2>3, ReadsCalls, CallOwners
  <2>4. QED
    BY <1>3, <2>2, <2>3, ResultStepKinds
<1>4. QED
  BY <1>1, <1>2, <1>3 DEF Next

\* While no client opens a connection that has a MYSQL, left by an open() that
\* failed half way, say, every MYSQL of mysql_db.cpp belongs to a connection
\* object that is alive: close() and the last release() find it and free it.
THEOREM HandlesHaveOwners ==
  ASSUME ~Reopens
  PROVE  Spec => []NoOrphan
<1>1. Init => NoOrphan
  BY DEF Init, MysqlLibInit, NoOrphan
<1>2. IInv /\ NoOrphan /\ [Next]_vars => NoOrphan'
  BY NextOwners
<1>3. QED
  BY <1>1, <1>2, Invariance, PTL DEF Spec

\* Only executeQuery() puts a connection out of sync with a result in use.
LEMMA StatementResult ==
  ASSUME MysqlLibTypeOK, NEW c \in Conn, mysql_[c] \in Mysql,
         \/ Execute(c) \/ ExecuteSelect(c) \/ BeginTrans(c) \/ CommitTrans(c)
         \/ RollbackTrans(c) \/ SetTransactionMode(c)
  PROVE  \A s \in Mysql : result'[s] = "used" => result[s] = "used"
<1> DEFINE s == mysql_[c]
<1>1. Fails(s) \/ Lost(s) => result' \in {result, [result EXCEPT ![s] = "none"]}
  BY DEF Fails, Lost
<1>7. LostCommit(s) => Lost(s)
  BY DEF LostCommit
<1>2. CASE Execute(c)
  BY <1>1, <1>2 DEF Execute, query_write, MysqlLibTypeOK
<1>3. CASE ExecuteSelect(c)
  BY <1>1, <1>3 DEF ExecuteSelect, query_select, MysqlLibTypeOK
<1>4. CASE BeginTrans(c)
  BY <1>1, <1>4, <1>7 DEF BeginTrans, query_begin, MysqlLibTypeOK
<1>5. CASE CommitTrans(c) \/ RollbackTrans(c) \/ SetTransactionMode(c)
  BY <1>1, <1>5, <1>7 DEF CommitTrans, RollbackTrans, SetTransactionMode, query_commit,
     query_rollback, query_set, MysqlLibTypeOK
<1>6. QED
  BY <1>2, <1>3, <1>4, <1>5

LEMMA NextInSync == IInv /\ InSyncAgain /\ [Next]_vars => InSyncAgain'
<1> SUFFICES ASSUME IInv, InSyncAgain, [Next]_vars PROVE InSyncAgain'
  OBVIOUS
<1>0. /\ MysqlLibTypeOK /\ res \in [RS -> ResultSet]
      /\ mysql_ \in [Conn -> Mysql \cup {NULL}] /\ NULL \notin Mysql
  BY MysqlLibAssumption DEF IInv, TypeOK
<1>1. ASSUME UNCHANGED res, \A s \in Mysql : result'[s] = "used" => result[s] = "used"
      PROVE  InSyncAgain'
  BY <1>1 DEF InSyncAgain
<1>2. ASSUME NEW c \in Conn, ConnStep(c) PROVE InSyncAgain'
  <2>1. UNCHANGED res
    BY <1>2 DEF ConnStep, CreateConnection, DuplicateConnection, ReleaseConnection, Open,
       Close, Execute, ExecuteSelect, BeginTrans, CommitTrans, RollbackTrans,
       SetTransactionMode, driverVars
  <2>2. CASE Open(c)
    BY <1>1, <2>1, <2>2 DEF Open, mysql_connect
  <2>3. CASE CloseHandle(c)
    BY <1>0, <1>1, <2>1, <2>3 DEF CloseHandle, mysql_close, mysqlVars, MysqlLibTypeOK
  <2>4. CASE UNCHANGED mysqlVars
    BY <1>1, <2>1, <2>4 DEF mysqlVars
  <2>5. CASE /\ mysql_[c] # NULL
             /\ \/ Execute(c) \/ ExecuteSelect(c) \/ BeginTrans(c) \/ CommitTrans(c)
                \/ RollbackTrans(c) \/ SetTransactionMode(c)
    BY <1>0, <1>1, <2>1, <2>5, StatementResult
  <2>6. QED
    BY <1>2, <2>2, <2>3, <2>4, <2>5, ConnStepKinds
<1>3. ASSUME NEW r \in RS, ResultStep(r) PROVE InSyncAgain'
  <2> DEFINE s == mysql_[Thread[r]]
  <2>1. CASE ExecuteQuery(r) /\ UNCHANGED res
    <3>1. Fails(s) => result' \in {result, [result EXCEPT ![s] = "none"]}
      BY DEF Fails, Lost
    <3>2. CASE query_select(s, "used", FALSE)
      BY <1>0, <1>1, <2>1, <3>1, <3>2 DEF query_select, MysqlLibTypeOK
    <3>3. QED
      BY <1>0, <2>1, <3>2 DEF ExecuteQuery, MayQuery, Exists, NoResultSet
  <2>2. CASE /\ ExecuteQuery(r) /\ query_select(s, "used", TRUE)
             /\ \E k \in 0 .. MaxRows :
                  res' = [res EXCEPT ![r] = [NoResultSet EXCEPT !.on = s, !.n = k]]
    <3>1. /\ \A g \in Mysql \ {s} : result'[g] = result[g]
          /\ res[r].on = NULL
      BY <1>0, <2>2 DEF ExecuteQuery, Exists, query_select, MysqlLibTypeOK
    <3>2. /\ res'[r].on = s /\ ~res'[r].eof
          /\ \A q \in RS \ {r} : res'[q] = res[q]
      BY <1>0, <2>2 DEF NoResultSet
    <3>3. QED
      BY <1>0, <3>1, <3>2 DEF InSyncAgain
  <2>3. CASE NextRow(r)
    <3>1. /\ UNCHANGED result
          /\ \A q \in RS : res'[q].on = res[q].on /\ res'[q].eof = res[q].eof
      BY <1>0, <2>3 DEF NextRow, mysqlVars, ResultSet
    <3>2. QED
      BY <3>1 DEF InSyncAgain
  <2>4. CASE /\ Fetching(r) /\ fetch_end(res[r].on)
             /\ \A q \in RS \ {r} : res'[q] = res[q]
    <3>1. res[r].on \in Mysql
      BY <1>0, <2>4 DEF Fetching, Exists, ResultSet
    <3>2. \A g \in Mysql : result'[g] = IF g = res[r].on THEN "none" ELSE result[g]
      BY <1>0, <2>4, <3>1 DEF fetch_end, Lost, MysqlLibTypeOK
    <3>3. QED
      BY <2>4, <3>2 DEF InSyncAgain
  <2>5. CASE ResultClose(r) /\ res[r].eof
    <3>1. UNCHANGED result /\ \A q \in RS \ {r} : res'[q] = res[q]
      BY <1>0, <2>5 DEF ResultClose, mysqlVars
    <3>2. QED
      BY <2>5, <3>1 DEF InSyncAgain
  <2>6. NextEnd(r) \/ (ResultClose(r) /\ ~res[r].eof) =>
          /\ Fetching(r) /\ fetch_end(res[r].on)
          /\ \A q \in RS \ {r} : res'[q] = res[q]
    BY <1>0 DEF NextEnd, ResultClose, Fetching
  <2>7. QED
    BY <1>3, <2>1, <2>2, <2>3, <2>4, <2>5, <2>6 DEF ResultStep, ExecuteQuery
<1>4. CASE UNCHANGED vars
  BY <1>1, <1>4 DEF vars
<1>5. QED
  BY <1>2, <1>3, <1>4 DEF Next

\* A connection that executeQuery() of mysql_db.cpp has put out of sync can be
\* put in sync again: there is a result set whose next() or close() does it.
THEOREM OutOfSyncEnds == Spec => []InSyncAgain
<1>1. Init => InSyncAgain
  BY DEF Init, MysqlLibInit, InSyncAgain
<1>2. IInv /\ InSyncAgain /\ [Next]_vars => InSyncAgain'
  BY NextInSync
<1>3. QED
  BY <1>1, <1>2, Invariance, PTL DEF Spec

-----------------------------------------------------------------------------
(* The result sets implement Cursor.                                       *)

\* What a step that gives r the value v does to the refined variables.
LEMMA CursorOf ==
  ASSUME res \in [RS -> ResultSet], NEW r \in RS, NEW v \in ResultSet,
         res' = [res EXCEPT ![r] = v]
  PROVE  /\ CursorPhase' = [CursorPhase EXCEPT ![r] =
              IF v.on = NULL THEN "none" ELSE IF v.eof THEN "over" ELSE "open"]
         /\ CursorRow' = [CursorRow EXCEPT ![r] = v.at]
         /\ CursorSize' = [CursorSize EXCEPT ![r] = v.n]
<1>1. \A q \in RS : res'[q] = IF q = r THEN v ELSE res[q]
  OBVIOUS
<1>2. CursorPhase' = [CursorPhase EXCEPT ![r] =
        IF v.on = NULL THEN "none" ELSE IF v.eof THEN "over" ELSE "open"]
  BY <1>1 DEF CursorPhase, Exists
<1>3. CursorRow' = [CursorRow EXCEPT ![r] = v.at]
  BY <1>1 DEF CursorRow
<1>4. CursorSize' = [CursorSize EXCEPT ![r] = v.n]
  BY <1>1 DEF CursorSize
<1>5. QED
  BY <1>2, <1>3, <1>4

\* An object that does not exist is as a new one.
Blank == \A r \in RS : ~Exists(r) => res[r] = NoResultSet

LEMMA BlankKept ==
  ASSUME res \in [RS -> ResultSet], Blank, NEW r \in RS, NEW v \in ResultSet,
         res' = [res EXCEPT ![r] = v], v.on # NULL \/ v = NoResultSet
  PROVE  Blank'
  BY DEF Blank, Exists

LEMMA NextContract ==
  ASSUME IInv, Blank, [Next]_vars
  PROVE  Blank' /\ [Contract!Next]_(Contract!vars)
<1>0. /\ res \in [RS -> ResultSet] /\ NoResultSet \in ResultSet /\ MaxRows \in Nat
      /\ mysql_ \in [Conn -> Mysql \cup {NULL}] /\ NULL \notin Mysql
      /\ \A r \in RS : Thread[r] \in Conn
  BY MysqlAssumption, MysqlLibAssumption DEF IInv, TypeOK, NoResultSet, ResultSet
<1>1. CASE UNCHANGED res
  BY <1>1 DEF Blank, Exists, Contract!vars, CursorPhase, CursorRow, CursorSize
<1>2. ASSUME NEW c \in Conn, ConnStep(c) PROVE UNCHANGED res
  BY <1>2 DEF ConnStep, CreateConnection, DuplicateConnection, ReleaseConnection, Open,
     Close, Execute, ExecuteSelect, BeginTrans, CommitTrans, RollbackTrans,
     SetTransactionMode, driverVars
<1>3. ASSUME NEW r \in RS, ResultStep(r), ~UNCHANGED res
      PROVE  Blank' /\ [Contract!Next]_(Contract!vars)
  <2>1. CASE ExecuteQuery(r)
    <3> DEFINE s == mysql_[Thread[r]]
    <3>1. s \in Mysql /\ res[r] = NoResultSet
      BY <1>0, <2>1 DEF ExecuteQuery, MayQuery, Blank
    <3>2. PICK k \in 0 .. MaxRows :
            res' = [res EXCEPT ![r] = [NoResultSet EXCEPT !.on = s, !.n = k]]
      BY <1>3, <2>1 DEF ExecuteQuery
    <3> DEFINE v == [NoResultSet EXCEPT !.on = s, !.n = k]
    <3>3. v \in ResultSet /\ v.on # NULL /\ ~v.eof /\ v.at = 0 /\ v.n = k
      BY <1>0, <3>1 DEF NoResultSet, ResultSet
    <3>4. CursorPhase[r] = "none" /\ CursorRow[r] = 0
      BY <3>1 DEF CursorPhase, CursorRow, Exists, NoResultSet
    <3> HIDE DEF v
    <3>5. /\ CursorPhase' = [CursorPhase EXCEPT ![r] = "open"]
          /\ CursorRow' = [CursorRow EXCEPT ![r] = 0]
          /\ CursorSize' = [CursorSize EXCEPT ![r] = k]
      <4>1. res' = [res EXCEPT ![r] = v]
        BY <3>2 DEF v
      <4>2. QED
        BY <1>0, <3>3, <4>1, CursorOf
    <3>6. CursorRow' = CursorRow
      BY <3>4, <3>5 DEF CursorRow
    <3>7. Contract!Execute(r)
      BY <3>4, <3>5, <3>6 DEF Contract!Execute
    <3>8. QED
      BY <1>0, <3>2, <3>3, <3>7, BlankKept DEF Contract!Next, v
  <2>2. CASE NextRow(r)
    <3> DEFINE v == [res[r] EXCEPT !.at = @ + 1]
    <3>1. /\ v \in ResultSet /\ v.on = res[r].on /\ v.on # NULL /\ v.eof = res[r].eof
          /\ ~v.eof /\ v.at = res[r].at + 1 /\ v.n = res[r].n /\ res[r].at < res[r].n
          /\ res' = [res EXCEPT ![r] = v]
      BY <1>0, <2>2 DEF NextRow, Exists, ResultSet
    <3>2. /\ CursorPhase[r] = "open" /\ CursorRow[r] = res[r].at
          /\ CursorSize[r] = res[r].n
      BY <3>1 DEF CursorPhase, CursorRow, CursorSize, Exists
    <3> HIDE DEF v
    <3>3. /\ CursorPhase' = [CursorPhase EXCEPT ![r] = "open"]
          /\ CursorRow' = [CursorRow EXCEPT ![r] = res[r].at + 1]
          /\ CursorSize' = [CursorSize EXCEPT ![r] = res[r].n]
      <4>1. /\ CursorPhase' = [CursorPhase EXCEPT ![r] =
                 IF v.on = NULL THEN "none" ELSE IF v.eof THEN "over" ELSE "open"]
            /\ CursorRow' = [CursorRow EXCEPT ![r] = v.at]
            /\ CursorSize' = [CursorSize EXCEPT ![r] = v.n]
        BY <1>0, <3>1, CursorOf
      <4>2. QED
        BY <3>1, <4>1
    <3>4. CursorPhase' = CursorPhase /\ CursorSize' = CursorSize
      BY <3>2, <3>3 DEF CursorPhase, CursorSize
    <3>5. Contract!Advance(r)
      BY <3>1, <3>2, <3>3, <3>4 DEF Contract!Advance
    <3>6. QED
      BY <1>0, <3>1, <3>5, BlankKept DEF Contract!Next
  <2>3. CASE NextEnd(r)
    <3> DEFINE v == [res[r] EXCEPT !.eof = TRUE]
    <3>1. /\ v \in ResultSet /\ v.on = res[r].on /\ v.on # NULL /\ v.eof
          /\ v.at = res[r].at /\ v.n = res[r].n /\ ~res[r].eof
          /\ res' = [res EXCEPT ![r] = v]
      BY <1>0, <2>3 DEF NextEnd, Exists, ResultSet
    <3>2. /\ CursorPhase[r] = "open" /\ CursorRow[r] = res[r].at
          /\ CursorSize[r] = res[r].n
      BY <3>1 DEF CursorPhase, CursorRow, CursorSize, Exists
    <3>3. /\ CursorPhase' = [CursorPhase EXCEPT ![r] = "over"]
          /\ CursorRow' = [CursorRow EXCEPT ![r] = res[r].at]
          /\ CursorSize' = [CursorSize EXCEPT ![r] = res[r].n]
      BY <1>0, <3>1, CursorOf
    <3>4. CursorRow' = CursorRow /\ CursorSize' = CursorSize
      BY <3>2, <3>3 DEF CursorRow, CursorSize
    <3>5. link[res[r].on] = "up" \/ Faults
      BY <2>3 DEF NextEnd, IInv, ResultsOnHandle, Fetching
    <3>6. res[r].at = res[r].n \/ Faults
      BY <2>3, <3>5 DEF NextEnd, fetch_end, Lost
    <3>7. Contract!Finish(r)
      BY <3>2, <3>3, <3>4, <3>6 DEF Contract!Finish
    <3>8. QED
      BY <1>0, <3>1, <3>7, BlankKept DEF Contract!Next
  <2>4. CASE ResultClose(r)
    <3>1. res' = [res EXCEPT ![r] = NoResultSet] /\ res[r].on # NULL
      BY <2>4 DEF ResultClose, Exists
    <3>2. CursorPhase[r] # "none"
      BY <3>1 DEF CursorPhase, Exists
    <3>3. NoResultSet.on = NULL /\ NoResultSet.at = 0 /\ NoResultSet.n = 0
      BY DEF NoResultSet
    <3>4. /\ CursorPhase' = [CursorPhase EXCEPT ![r] = "none"]
          /\ CursorRow' = [CursorRow EXCEPT ![r] = 0]
          /\ CursorSize' = [CursorSize EXCEPT ![r] = 0]
      BY <1>0, <3>1, <3>3, CursorOf
    <3>5. Contract!Close(r)
      BY <3>2, <3>4 DEF Contract!Close
    <3>6. QED
      BY <1>0, <3>1, <3>5, BlankKept DEF Contract!Next
  <2>5. QED
    BY <1>3, <2>1, <2>2, <2>3, <2>4 DEF ResultStep
<1>4. QED
  BY <1>1, <1>2, <1>3 DEF Next, vars

\* A result set of mysql_db.cpp shows the rows of its result in order and once,
\* and stops short of the last only when its connection is lost.
THEOREM CursorKept == Spec => CursorContract
<1>1. Init => Blank /\ Contract!Init
  BY DEF Init, Blank, Exists, NoResultSet, Contract!Init, CursorPhase, CursorRow,
     CursorSize
<1>2. IInv /\ Blank /\ [Next]_vars => Blank' /\ [Contract!Next]_(Contract!vars)
  BY NextContract
<1>3. QED
  BY <1>1, <1>2, Invariance, PTL DEF Spec, CursorContract, Contract!Spec
=============================================================================
