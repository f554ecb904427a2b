----------------------------- MODULE OdbcProofs -----------------------------
(***************************************************************************)
(* Theorems of Odbc, for every number of connections, accesses, result     *)
(* sets, rows and columns, with statements that fail, an open() that stops *)
(* at any of its calls, and connections that are lost at any time.         *)
(***************************************************************************)
EXTENDS Odbc, ClientViewProofs

\* A call on the statement handle a, or on none.
Called(a) ==
  \/ \E ok \in BOOLEAN :
       \/ execute_begin(a, ok) \/ execute_write(a, ok)
       \/ \E durable \in BOOLEAN : execute_end(a, durable, ok)
       \/ \E r \in RS \cup {NULL}, k \in 0 .. MaxRows : execute_select(a, r, k, ok)
  \/ Fails(a) \/ UNCHANGED odbcVars
  \/ /\ a \in Access
     /\ CursorCloses(a) \/ FetchRow(a) \/ FetchNone(a) \/ FetchAll(a) \/ TablesFetched(a)

\* A cursor does not outlive its statement, nor a transaction its session.
NothingOutlives ==
  \A a \in Access :
    /\ "stmt" \notin has[a] => cursor[a] = Closed
    /\ "session" \notin has[a] => ~tx[a] /\ work[a] = 0

LibInv == OdbcLibTypeOK /\ NothingOutlives

\* What such a call leaves alone.
Local(a) ==
  /\ \A b \in Access \ {a} :
       /\ has'[b] = has[b] /\ cursor'[b] = cursor[b]
       /\ tx'[b] = tx[b] /\ work'[b] = work[b]
  /\ \A b \in Access : has'[b] \in {has[b], has[b] \ {"session"}}
  /\ committed <= committed'

LEMMA StillLocal ==
  ASSUME LibInv, NEW a, UNCHANGED odbcVars
  PROVE  LibInv' /\ Local(a)
<1>1. committed \in Nat
  BY DEF LibInv, OdbcLibTypeOK
<1>2. committed <= committed
  BY <1>1
<1>3. QED
  BY <1>2 DEF LibInv, OdbcLibTypeOK, NothingOutlives, Local, odbcVars

LEMMA HasBecomesType ==
  ASSUME LibInv, NEW new \in [Access -> SUBSET {"env", "dbc", "link", "session", "stmt"}],
         HasBecomes(new), committed' \in Nat
  PROVE  /\ LibInv' /\ has' = new
         /\ \A b \in Access : new[b] = has[b] =>
              cursor'[b] = cursor[b] /\ tx'[b] = tx[b] /\ work'[b] = work[b]
         /\ \A b \in Access : cursor'[b] \in {cursor[b], Closed}
         /\ \A b \in Access : "session" \notin new[b] => ~tx'[b]
<1>1. /\ has' = new
      /\ \A b \in Access :
           /\ cursor'[b] = IF "stmt" \in new[b] THEN cursor[b] ELSE Closed
           /\ tx'[b] = (tx[b] /\ "session" \in new[b])
           /\ work'[b] = IF "session" \in new[b] THEN work[b] ELSE 0
  BY DEF HasBecomes
<1>2. Closed \in [open : BOOLEAN, by : RS \cup {NULL}, at : 0 .. MaxRows, n : 0 .. MaxRows]
  BY OdbcLibAssumption DEF Closed
<1>3. OdbcLibTypeOK'
  BY <1>2 DEF LibInv, OdbcLibTypeOK, HasBecomes
<1>4. NothingOutlives'
  BY <1>1 DEF NothingOutlives
<1>5. ASSUME NEW b \in Access, new[b] = has[b]
      PROVE  cursor'[b] = cursor[b] /\ tx'[b] = tx[b] /\ work'[b] = work[b]
  BY <1>1, <1>5 DEF LibInv, OdbcLibTypeOK, NothingOutlives
<1>6. QED
  BY <1>1, <1>3, <1>4, <1>5 DEF LibInv

LEMMA LostLocal ==
  ASSUME LibInv, NEW a \in Access \cup {NULL}, Lost(a),
         committed' \in {committed, committed + work[a]}
  PROVE  /\ LibInv' /\ Local(a) /\ a \in Access /\ ~tx'[a]
         /\ \A b \in Access : cursor'[b] \in {cursor[b], Closed}
<1> DEFINE new == [has EXCEPT ![a] = @ \ {"session"}]
<1>1. a \in Access /\ committed \in Nat /\ work[a] \in Nat
  BY DEF Lost, Accepts, LibInv, OdbcLibTypeOK
<1>2. /\ new \in [Access -> SUBSET {"env", "dbc", "link", "session", "stmt"}]
      /\ new[a] = has[a] \ {"session"}
      /\ \A b \in Access \ {a} : new[b] = has[b]
  BY <1>1 DEF LibInv, OdbcLibTypeOK
<1>3. committed' \in Nat /\ committed <= committed'
  BY <1>1
<1> HIDE DEF new
<1>4. HasBecomes(new)
  BY DEF Lost, new
<1>5. QED
  BY <1>1, <1>2, <1>3, <1>4, HasBecomesType DEF Local

LEMMA FailsLocal ==
  ASSUME LibInv, NEW a \in Access \cup {NULL}, Fails(a)
  PROVE  /\ LibInv' /\ Local(a) /\ UNCHANGED committed
         /\ UNCHANGED odbcVars \/ (a \in Access /\ ~tx'[a])
         /\ \A b \in Access : cursor'[b] \in {cursor[b], Closed}
<1>1. CASE UNCHANGED odbcVars
  BY <1>1, StillLocal DEF odbcVars
<1>2. CASE Lost(a) /\ UNCHANGED committed
  BY <1>2, LostLocal
<1>3. CASE RollsBack(a)
  <2>1. a \in Access /\ committed \in Nat
    BY <1>3 DEF RollsBack, Accepts, LibInv, OdbcLibTypeOK
  <2>2. committed' = committed /\ committed <= committed'
    BY <1>3, <2>1 DEF RollsBack
  <2>3. /\ tx' \in [Access -> BOOLEAN] /\ ~tx'[a]
        /\ \A b \in Access \ {a} : tx'[b] = tx[b]
    BY <1>3, <2>1 DEF RollsBack, LibInv, OdbcLibTypeOK
  <2>4. /\ work' \in [Access -> Nat] /\ work'[a] = 0
        /\ \A b \in Access \ {a} : work'[b] = work[b]
    BY <1>3, <2>1 DEF RollsBack, LibInv, OdbcLibTypeOK
  <2>5. LibInv'
    BY <1>3, <2>1, <2>2, <2>3, <2>4
       DEF RollsBack, LibInv, OdbcLibTypeOK, NothingOutlives
  <2>6. QED
    BY <1>3, <2>1, <2>2, <2>3, <2>4, <2>5 DEF RollsBack, Local
<1>4. QED
  BY <1>1, <1>2, <1>3 DEF Fails, Refused

\* Every call keeps the types and concerns one statement handle.
LEMMA CallLocal ==
  ASSUME LibInv, NEW a \in Access \cup {NULL}, Called(a)
  PROVE  LibInv' /\ Local(a)
<1>1. /\ committed \in Nat /\ committed + 1 \in Nat /\ committed <= committed
      /\ committed <= committed + 1 /\ MaxRows \in Nat
  BY OdbcLibAssumption DEF LibInv, OdbcLibTypeOK
<1>2. ASSUME a \in Access, UNCHANGED has,
             cursor' \in [Access -> [open : BOOLEAN, by : RS \cup {NULL},
                                     at : 0 .. MaxRows, n : 0 .. MaxRows]],
             tx' \in [Access -> BOOLEAN], work' \in [Access -> Nat],
             committed' \in Nat, committed <= committed',
             \A b \in Access \ {a} :
               cursor'[b] = cursor[b] /\ tx'[b] = tx[b] /\ work'[b] = work[b],
             cursor'[a] # cursor[a] => "stmt" \in has[a] \/ cursor'[a] = Closed,
             tx'[a] # tx[a] \/ work'[a] # work[a] => "session" \in has[a]
      PROVE  LibInv' /\ Local(a)
  <2>1. OdbcLibTypeOK'
    BY <1>2 DEF LibInv, OdbcLibTypeOK
  <2>2. NothingOutlives'
    BY <1>2 DEF LibInv, NothingOutlives
  <2>3. QED
    BY <1>2, <2>1, <2>2 DEF LibInv, Local
<1>3. ASSUME Accepts(a)
      PROVE  /\ a \in Access /\ "stmt" \in has[a] /\ "session" \in has[a]
             /\ work[a] \in Nat /\ committed + work[a] \in Nat
             /\ committed <= committed + work[a]
  BY <1>3 DEF Accepts, LibInv, OdbcLibTypeOK
<1>4. ASSUME NEW ok \in BOOLEAN, execute_begin(a, ok) PROVE LibInv' /\ Local(a)
  <2>1. CASE ok
    <3>1. /\ a \in Access /\ "session" \in has[a]
          /\ tx' = [tx EXCEPT ![a] = TRUE]
          /\ work' \in {work, [work EXCEPT ![a] = 0]}
          /\ UNCHANGED <<has, cursor>>
          /\ committed' \in Nat /\ committed <= committed'
      BY <1>1, <1>3, <1>4, <2>1 DEF execute_begin
    <3>2. work' \in [Access -> Nat] /\ \A b \in Access \ {a} : work'[b] = work[b]
      BY <3>1 DEF LibInv, OdbcLibTypeOK
    <3>3. QED
      BY <1>2, <3>1, <3>2 DEF LibInv, OdbcLibTypeOK
  <2>2. QED
    BY <1>4, <2>1, FailsLocal DEF execute_begin
<1>5. ASSUME NEW ok \in BOOLEAN, execute_write(a, ok) PROVE LibInv' /\ Local(a)
  <2>1. CASE ok /\ tx[a]
    BY <1>1, <1>2, <1>3, <1>5, <2>1 DEF execute_write, LibInv, OdbcLibTypeOK
  <2>2. CASE ok /\ ~tx[a]
    BY <1>1, <1>2, <1>3, <1>5, <2>2 DEF execute_write, LibInv, OdbcLibTypeOK
  <2>3. QED
    BY <1>5, <2>1, <2>2, FailsLocal, StillLocal DEF execute_write
<1>6. ASSUME NEW durable \in BOOLEAN, NEW ok \in BOOLEAN, execute_end(a, durable, ok)
      PROVE  LibInv' /\ Local(a)
  <2>1. CASE ok
    <3>1. /\ a \in Access /\ "session" \in has[a]
          /\ tx' = [tx EXCEPT ![a] = FALSE] /\ work' = [work EXCEPT ![a] = 0]
          /\ UNCHANGED <<has, cursor>>
          /\ committed' \in Nat /\ committed <= committed'
      BY <1>1, <1>3, <1>6, <2>1 DEF execute_end
    <3>2. QED
      BY <1>2, <3>1 DEF LibInv, OdbcLibTypeOK
  <2>2. QED
    BY <1>6, <2>1, FailsLocal, LostLocal DEF execute_end, LostCommit
<1>7. ASSUME NEW r \in RS \cup {NULL}, NEW k \in 0 .. MaxRows, NEW ok \in BOOLEAN,
             execute_select(a, r, k, ok)
      PROVE  LibInv' /\ Local(a)
  <2>1. CASE ok
    <3>1. [open |-> TRUE, by |-> r, at |-> 0, n |-> k] \in
            [open : BOOLEAN, by : RS \cup {NULL}, at : 0 .. MaxRows, n : 0 .. MaxRows]
      BY <1>1
    <3>2. QED
      BY <1>1, <1>2, <1>3, <1>7, <2>1, <3>1 DEF execute_select, LibInv, OdbcLibTypeOK
  <2>2. QED
    BY <1>7, <2>1, FailsLocal DEF execute_select
<1>8. ASSUME a \in Access, NEW v \in [open : BOOLEAN, by : RS \cup {NULL},
                                     at : 0 .. MaxRows, n : 0 .. MaxRows],
             cursor' = [cursor EXCEPT ![a] = v],
             UNCHANGED <<has, tx, work, committed>>,
             "stmt" \in has[a] \/ v = Closed
      PROVE  LibInv' /\ Local(a)
  BY <1>1, <1>2, <1>8 DEF LibInv, OdbcLibTypeOK
<1>9. ASSUME a \in Access, CursorCloses(a) PROVE LibInv' /\ Local(a)
  <2>1. Closed \in [open : BOOLEAN, by : RS \cup {NULL}, at : 0 .. MaxRows,
                    n : 0 .. MaxRows]
    BY <1>1 DEF Closed
  <2>2. QED
    BY <1>8, <1>9, <2>1 DEF CursorCloses
<1>10. ASSUME a \in Access, cursor[a].open PROVE "stmt" \in has[a]
  BY <1>10 DEF LibInv, NothingOutlives, Closed
<1>11. ASSUME a \in Access, FetchRow(a) PROVE LibInv' /\ Local(a)
  <2> DEFINE v == [cursor[a] EXCEPT !.at = cursor[a].at + 1]
  <2>1. v \in [open : BOOLEAN, by : RS \cup {NULL}, at : 0 .. MaxRows, n : 0 .. MaxRows]
    BY <1>1, <1>11 DEF FetchRow, LibInv, OdbcLibTypeOK
  <2>2. cursor' = [cursor EXCEPT ![a] = v]
    BY <1>11 DEF FetchRow
  <2>3. QED
    BY <1>8, <1>10, <1>11, <2>1, <2>2 DEF FetchRow
<1>12. ASSUME a \in Access, FetchAll(a) PROVE LibInv' /\ Local(a)
  <2> DEFINE v == [cursor[a] EXCEPT !.at = cursor[a].n]
  <2>1. v \in [open : BOOLEAN, by : RS \cup {NULL}, at : 0 .. MaxRows, n : 0 .. MaxRows]
    BY <1>1, <1>12 DEF FetchAll, LibInv, OdbcLibTypeOK
  <2>2. cursor' = [cursor EXCEPT ![a] = v]
    BY <1>12 DEF FetchAll
  <2>3. QED
    BY <1>8, <1>10, <1>12, <2>1, <2>2 DEF FetchAll
<1>13. ASSUME a \in Access, TablesFetched(a) PROVE LibInv' /\ Local(a)
  <2> DEFINE v == [cursor[a] EXCEPT !.open = TRUE]
  <2>1. v \in [open : BOOLEAN, by : RS \cup {NULL}, at : 0 .. MaxRows, n : 0 .. MaxRows]
    BY <1>1, <1>13 DEF TablesFetched, LibInv, OdbcLibTypeOK
  <2>2. cursor' = [cursor EXCEPT ![a] = v]
    BY <1>13 DEF TablesFetched
  <2>3. QED
    BY <1>3, <1>8, <1>13, <2>1, <2>2 DEF TablesFetched
<1>14. QED
  BY <1>4, <1>5, <1>6, <1>7, <1>9, <1>11, <1>12, <1>13, StillLocal, FailsLocal
     DEF Called, FetchNone

-----------------------------------------------------------------------------
(* The invariant.                                                          *)

\* A result set that next() was not called of shows no row.
AtFirstRow == \A r \in RS : res[r].record = 0 => res[r].at = 0 /\ ~res[r].over

\* A thread is inside getString() of a result set of its own, which exists.
FillingReads ==
  \A c \in Conn : filling[c] # NULL =>
    Thread[filling[c][1]] = c /\ Exists(filling[c][1])

IInv == TypeOK /\ NothingOutlives /\ AtFirstRow /\ FillingReads

LEMMA InitIInv == Init => IInv
<1> SUFFICES ASSUME Init PROVE IInv
  OBVIOUS
<1>1. OdbcLibTypeOK /\ NothingOutlives
  BY OdbcLibAssumption DEF Init, OdbcLibInit, OdbcLibTypeOK, NothingOutlives, Closed
<1>2. RefTypeOK /\ ViewTypeOK
  BY DEF Init, RefInit, RefTypeOK, ViewInit, ViewTypeOK
<1>3. NoResultSet \in ResultSet
  BY OdbcLibAssumption DEF NoResultSet, ResultSet
<1>4. TypeOK
  BY <1>1, <1>2, <1>3 DEF Init, TypeOK
<1>5. AtFirstRow /\ FillingReads
  BY DEF Init, AtFirstRow, FillingReads, NoResultSet
<1>6. QED
  BY <1>1, <1>4, <1>5 DEF IInv

\* The statements a client sends, whatever becomes of them.
Statement(c) ==
  \/ Execute(c) \/ ExecuteSelect(c) \/ BeginTrans(c) \/ CommitTrans(c)
  \/ RollbackTrans(c) \/ SetTransactionMode(c) \/ Tables(c)

\* Every statement is a call and a conclusion.
LEMMA StatementCalls ==
  ASSUME NEW c \in Conn, Statement(c), hstmt[c] \in Access \cup {NULL}
  PROVE  /\ Called(hstmt[c]) /\ Concluded(c)
         /\ UNCHANGED <<ref, connVars, res, bufferVars>>
<1>1. CASE Execute(c)
  BY <1>1 DEF Execute, Called, Concluded
<1>2. CASE ExecuteSelect(c)
  <2>1. 0 \in 0 .. MaxRows
    BY OdbcLibAssumption
  <2>2. QED
    BY <1>2, <2>1 DEF ExecuteSelect, Called, Concluded
<1>3. CASE BeginTrans(c)
  BY <1>3 DEF BeginTrans, Called, Concluded
<1>4. CASE CommitTrans(c)
  BY <1>4 DEF CommitTrans, Called, Concluded
<1>5. CASE RollbackTrans(c)
  BY <1>5 DEF RollbackTrans, Called, Concluded
<1>6. CASE SetTransactionMode(c)
  BY <1>6 DEF SetTransactionMode, Called, Concluded
<1>7. CASE Tables(c)
  BY <1>7 DEF Tables, Called, Concluded, Fails
<1>8. QED
  BY <1>1, <1>2, <1>3, <1>4, <1>5, <1>6, <1>7 DEF Statement

\* The steps of the connections.
LEMMA ConnStepKinds ==
  ASSUME NEW c \in Conn, ConnStep(c)
  PROVE  /\ UNCHANGED <<res, bufferVars>>
         /\ \/ CreateConnection(c)
            \/ UNCHANGED <<viewVars, odbcVars, connVars>> /\ DuplicateConnection(c)
            \/ /\ UNCHANGED <<viewVars, odbcVars, connVars>>
               /\ Release(c) /\ ~LastRelease(c)
            \/ Open(c) /\ UNCHANGED ref
            \/ CloseHandles(c) /\ (UNCHANGED ref \/ (Release(c) /\ LastRelease(c)))
            \/ Statement(c)
<1>1. CASE DuplicateConnection(c)
  BY <1>1 DEF DuplicateConnection
<1>2. CASE ReleaseConnection(c)
  BY <1>2 DEF ReleaseConnection, SawNothing
<1>3. CASE CreateConnection(c) \/ Open(c) \/ Close(c)
  BY <1>3 DEF CreateConnection, Open, Close
<1>4. CASE Statement(c)
  BY <1>4 DEF Statement, Execute, ExecuteSelect, BeginTrans, CommitTrans, RollbackTrans,
     SetTransactionMode, Tables
<1>5. QED
  BY <1>1, <1>2, <1>3, <1>4 DEF ConnStep, Statement

\* open() and close() hand accesses over as sets of what is left of them.
LEMMA LeftType ==
  ASSUME NEW c \in Conn, NEW a \in Access,
         has[a] \in SUBSET {"env", "dbc", "link", "session", "stmt"}
  PROVE  Left(c, a) \subseteq has[a]
  BY DEF Left, SQLFreeHandle, SQLDisconnect

LEMMA SessionIInv ==
  ASSUME IInv, NEW c \in Conn, Open(c) \/ CloseHandles(c), ref' \in [Conn -> Nat],
         UNCHANGED <<res, bufferVars>>
  PROVE  IInv' /\ \A a \in Access : cursor'[a] \in {cursor[a], Closed}
<1>0. /\ LibInv /\ ViewTypeOK
      /\ has \in [Access -> SUBSET {"env", "dbc", "link", "session", "stmt"}]
      /\ henv \in [Conn -> Access \cup {NULL}] /\ hdbc \in [Conn -> Access \cup {NULL}]
      /\ hstmt \in [Conn -> Access \cup {NULL}] /\ connected \in [Conn -> BOOLEAN]
      /\ SawSession(c) /\ UNCHANGED committed /\ committed' \in Nat
  BY DEF IInv, TypeOK, LibInv, OdbcLibTypeOK, Open, CloseHandles
<1>1. ViewTypeOK'
  BY <1>0, ViewType
<1>2. ASSUME NEW new \in [Access -> SUBSET {"env", "dbc", "link", "session", "stmt"}],
             HasBecomes(new)
      PROVE  LibInv' /\ \A a \in Access : cursor'[a] \in {cursor[a], Closed}
  BY <1>0, <1>2, HasBecomesType
<1>3. CASE Open(c)
  <2>1. PICK a \in Access, got \in Obtained :
          /\ HasBecomes([has EXCEPT ![a] = got])
          /\ henv' = [henv EXCEPT ![c] = IF "env" \in got THEN a ELSE NULL]
          /\ hdbc' = [hdbc EXCEPT ![c] =
                        IF "dbc" \in got THEN a
                        ELSE IF "env" \in got THEN NULL ELSE @]
          /\ hstmt' = [hstmt EXCEPT ![c] =
                         IF "stmt" \in got THEN a
                         ELSE IF "link" \in got THEN NULL ELSE @]
          /\ connected' = [connected EXCEPT ![c] = @ \/ "link" \in got]
    BY <1>3 DEF Open
  <2>2. got \in SUBSET {"env", "dbc", "link", "session", "stmt"}
    BY DEF Obtained, Stages
  <2>3. [has EXCEPT ![a] = got] \in
          [Access -> SUBSET {"env", "dbc", "link", "session", "stmt"}]
    BY <1>0, <2>2
  <2>4. LibInv' /\ \A b \in Access : cursor'[b] \in {cursor[b], Closed}
    BY <1>2, <2>1, <2>3
  <2>5. /\ henv' \in [Conn -> Access \cup {NULL}]
        /\ hdbc' \in [Conn -> Access \cup {NULL}]
        /\ hstmt' \in [Conn -> Access \cup {NULL}]
        /\ connected' \in [Conn -> BOOLEAN]
    BY <1>0, <2>1
  <2>6. TypeOK'
    BY <1>0, <1>1, <2>4, <2>5 DEF IInv, TypeOK, RefTypeOK, LibInv, bufferVars
  <2>7. QED
    BY <2>4, <2>6 DEF IInv, LibInv, AtFirstRow, FillingReads, Exists, bufferVars
<1>4. CASE CloseHandles(c)
  <2>1. [a \in Access |-> Left(c, a)] \in
          [Access -> SUBSET {"env", "dbc", "link", "session", "stmt"}]
    BY <1>0, LeftType
  <2>2. LibInv' /\ \A b \in Access : cursor'[b] \in {cursor[b], Closed}
    BY <1>2, <1>4, <2>1 DEF CloseHandles
  <2>3. /\ henv' \in [Conn -> Access \cup {NULL}]
        /\ hdbc' \in [Conn -> Access \cup {NULL}]
        /\ hstmt' \in [Conn -> Access \cup {NULL}]
        /\ connected' \in [Conn -> BOOLEAN]
    BY <1>0, <1>4 DEF CloseHandles
  <2>4. TypeOK'
    BY <1>0, <1>1, <2>2, <2>3 DEF IInv, TypeOK, RefTypeOK, LibInv, bufferVars
  <2>5. QED
    BY <2>2, <2>4 DEF IInv, LibInv, AtFirstRow, FillingReads, Exists, bufferVars
<1>5. QED
  BY <1>3, <1>4

LEMMA ConnStepIInv ==
  ASSUME IInv, NEW c \in Conn, ConnStep(c)
  PROVE  IInv'
<1>0. /\ LibInv /\ ViewTypeOK /\ ref \in [Conn -> Nat]
      /\ henv \in [Conn -> Access \cup {NULL}] /\ hdbc \in [Conn -> Access \cup {NULL}]
      /\ hstmt \in [Conn -> Access \cup {NULL}] /\ connected \in [Conn -> BOOLEAN]
      /\ UNCHANGED <<res, bufferVars>>
  BY ConnStepKinds DEF IInv, TypeOK, RefTypeOK, LibInv
<1>1. ASSUME LibInv', ViewTypeOK', ref' \in [Conn -> Nat],
             henv' \in [Conn -> Access \cup {NULL}],
             hdbc' \in [Conn -> Access \cup {NULL}],
             hstmt' \in [Conn -> Access \cup {NULL}], connected' \in [Conn -> BOOLEAN]
      PROVE  IInv'
  <2>1. TypeOK'
    BY <1>0, <1>1 DEF IInv, TypeOK, RefTypeOK, LibInv, bufferVars
  <2>2. QED
    BY <1>0, <1>1, <2>1 DEF IInv, LibInv, AtFirstRow, FillingReads, Exists, bufferVars
<1>2. CASE UNCHANGED <<viewVars, odbcVars, connVars>> /\ ref' \in [Conn -> Nat]
  <2>1. LibInv' /\ ViewTypeOK'
    BY <1>0, <1>2, StillLocal DEF viewVars, ViewTypeOK
  <2>2. QED
    BY <1>0, <1>1, <1>2, <2>1 DEF connVars
<1>3. CASE CreateConnection(c)
  <2>1. /\ ref' \in [Conn -> Nat] /\ LibInv' /\ ViewTypeOK'
    BY <1>0, <1>3, StillLocal DEF CreateConnection, Construct, SawNothing, viewVars,
       ViewTypeOK
  <2>2. /\ henv' \in [Conn -> Access \cup {NULL}]
        /\ hdbc' \in [Conn -> Access \cup {NULL}]
        /\ hstmt' \in [Conn -> Access \cup {NULL}]
        /\ connected' \in [Conn -> BOOLEAN]
    BY <1>0, <1>3 DEF CreateConnection
  <2>3. QED
    BY <1>1, <2>1, <2>2
<1>4. DuplicateConnection(c) \/ Release(c) => ref' \in [Conn -> Nat]
  <2>1. /\ ref[c] \in Nat /\ (ref[c] > 0 => ref[c] - 1 \in Nat) /\ ref[c] + 1 \in Nat
    BY <1>0
  <2>2. QED
    BY <1>0, <2>1 DEF DuplicateConnection, Duplicate, Release, Alive
<1>5. CASE (Open(c) \/ CloseHandles(c)) /\ ref' \in [Conn -> Nat]
  BY <1>0, <1>5, SessionIInv
<1>6. CASE Statement(c)
  <2>1. Called(hstmt[c]) /\ Concluded(c) /\ UNCHANGED <<ref, connVars>>
    BY <1>0, <1>6, StatementCalls
  <2>2. LibInv'
    BY <1>0, <2>1, CallLocal
  <2>3. ViewTypeOK'
    BY <1>0, <2>1, ViewType DEF Concluded
  <2>4. QED
    BY <1>0, <1>1, <2>1, <2>2, <2>3 DEF connVars
<1>7. QED
  BY <1>0, <1>2, <1>3, <1>4, <1>5, <1>6, ConnStepKinds

\* The steps of the result sets.
LEMMA ResultStepCalls ==
  ASSUME IInv, NEW r \in RS, ResultStep(r)
  PROVE  /\ UNCHANGED <<ref, connVars>>
         /\ \E a \in Access \cup {NULL} :
              /\ Called(a)
              /\ a = hstmt[Thread[r]] \/ (Exists(r) /\ a = res[r].hstmt)
                   \/ UNCHANGED odbcVars
         /\ SawNothing \/ (ExecuteQuery(r) /\ SawFailure(Thread[r], "result"))
<1>0. /\ Thread[r] \in Conn /\ hstmt[Thread[r]] \in Access \cup {NULL}
      /\ Exists(r) => res[r].hstmt \in Access
  BY OdbcAssumption DEF IInv, TypeOK, ResultSet, Exists
<1>1. CASE ExecuteQuery(r)
  BY <1>0, <1>1 DEF ExecuteQuery, Called
<1>2. CASE NextFirst(r) \/ NextLater(r) \/ ResultClose(r)
  BY <1>0, <1>2 DEF NextFirst, NextLater, ResultClose, Called
<1>3. ASSUME NEW idx \in Columns, GetString(r, idx)
      PROVE  UNCHANGED <<ref, connVars, odbcVars>> /\ SawNothing
  BY <1>3 DEF GetString
<1>4. QED
  BY <1>0, <1>1, <1>2, <1>3 DEF ResultStep, Called

\* What a step that gives r the value v leaves of the rest.
LEMMA ResultBecomes ==
  ASSUME IInv, NEW r \in RS, NEW v \in ResultSet, res' = [res EXCEPT ![r] = v],
         v.record = 0 => v.at = 0 /\ ~v.over
  PROVE  /\ res' \in [RS -> ResultSet] /\ AtFirstRow'
         /\ res'[r] = v /\ \A q \in RS \ {r} : res'[q] = res[q]
<1>1. /\ res' \in [RS -> ResultSet]
      /\ res'[r] = v /\ \A q \in RS \ {r} : res'[q] = res[q]
  BY DEF IInv, TypeOK
<1>2. QED
  BY <1>1 DEF IInv, AtFirstRow

\* What each step of r makes of it.
LEMMA ResultStepKinds ==
  ASSUME IInv, NEW r \in RS, ResultStep(r)
  PROVE  \/ UNCHANGED res
         \/ \E v \in ResultSet :
              /\ res' = [res EXCEPT ![r] = v]
              /\ v.record = 0 => v.at = 0 /\ ~v.over
              /\ \/ v.hstmt = NULL
                 \/ v.hstmt = res[r].hstmt
                 \/ ~Exists(r)
<1>0. /\ res[r] \in ResultSet /\ MaxRows \in Nat
      /\ hstmt[Thread[r]] \in Access \cup {NULL}
      /\ res[r].record = 0 => res[r].at = 0
      /\ NoResultSet \in ResultSet
  BY OdbcAssumption, OdbcLibAssumption DEF IInv, TypeOK, AtFirstRow, NoResultSet, ResultSet
<1>1. CASE ExecuteQuery(r) /\ ~UNCHANGED res
  <2>1. PICK k \in 0 .. MaxRows :
          res' = [res EXCEPT ![r] =
                    [NoResultSet EXCEPT !.hstmt = hstmt[Thread[r]], !.n = k]]
    BY <1>1 DEF ExecuteQuery
  <2> DEFINE v == [NoResultSet EXCEPT !.hstmt = hstmt[Thread[r]], !.n = k]
  <2>2. v \in ResultSet /\ v.at = 0 /\ ~v.over
    BY <1>0, <2>1 DEF NoResultSet, ResultSet
  <2>3. QED
    BY <1>1, <2>1, <2>2 DEF ExecuteQuery
<1>2. ASSUME NEW w \in ResultSet, res' = [res EXCEPT ![r] = w],
             w.record = 1, w.hstmt = res[r].hstmt
      PROVE  \E v \in ResultSet :
               /\ res' = [res EXCEPT ![r] = v]
               /\ v.record = 0 => v.at = 0 /\ ~v.over
               /\ v.hstmt = res[r].hstmt
  <2>1. w.record # 0
    BY <1>2
  <2>2. QED
    BY <1>2, <2>1
<1> DEFINE u == [res[r] EXCEPT !.record = 1]
<1>3. u \in ResultSet /\ u.record = 1 /\ u.hstmt = res[r].hstmt
  BY <1>0 DEF ResultSet
<1>4. CASE NextFirst(r)
  <2>1. CASE res' = [res EXCEPT ![r].record = 1, ![r].at = RowShown(r)]
    <3> DEFINE v == [u EXCEPT !.at = RowShown(r)]
    <3>1. res[r].at = 0
      BY <1>0, <1>4 DEF NextFirst
    <3>2. RowShown(r) \in 0 .. MaxRows + 1
      BY <1>0, <3>1 DEF RowShown, Foreign
    <3>3. res' = [res EXCEPT ![r] = v]
      BY <2>1 DEF IInv, TypeOK
    <3> HIDE DEF u
    <3>4. v \in ResultSet /\ v.record = 1 /\ v.hstmt = res[r].hstmt
      BY <1>3, <3>2 DEF ResultSet
    <3> HIDE DEF v
    <3>5. QED
      BY <1>2, <3>3, <3>4
  <2>2. CASE res' = [res EXCEPT ![r].record = 1, ![r].over = TRUE]
    <3> DEFINE v == [u EXCEPT !.over = TRUE]
    <3>1. res' = [res EXCEPT ![r] = v]
      BY <2>2 DEF IInv, TypeOK
    <3> HIDE DEF u
    <3>2. v \in ResultSet /\ v.record = 1 /\ v.hstmt = res[r].hstmt
      BY <1>3 DEF ResultSet
    <3> HIDE DEF v
    <3>3. QED
      BY <1>2, <3>1, <3>2
  <2>3. QED
    BY <1>4, <2>1, <2>2 DEF NextFirst
<1>5. CASE NextLater(r)
  <2> DEFINE v == [res[r] EXCEPT !.over = TRUE]
  <2>1. v \in ResultSet /\ v.record = 1 /\ v.hstmt = res[r].hstmt
    BY <1>0, <1>5 DEF NextLater, ResultSet
  <2>2. res' = [res EXCEPT ![r] = v]
    BY <1>5 DEF NextLater
  <2> HIDE DEF v
  <2>3. QED
    BY <1>2, <2>1, <2>2
<1>6. CASE ResultClose(r)
  BY <1>0, <1>6 DEF ResultClose, NoResultSet
<1>7. ASSUME NEW idx \in Columns, GetString(r, idx) PROVE UNCHANGED res
  BY <1>7 DEF GetString
<1>8. QED
  BY <1>1, <1>4, <1>5, <1>6, <1>7 DEF ResultStep

LEMMA ResultStepBuffer ==
  ASSUME IInv, NEW r \in RS, filling[Thread[r]] = NULL, ResultStep(r)
  PROVE  /\ buffer' \in [index : {0} \cup Columns, col : {0} \cup Columns,
                         from : RS \cup {NULL}]
         /\ filling' \in [Conn -> {NULL} \cup (RS \X Columns)]
         /\ wrong' \subseteq {"row", "column"}
         /\ FillingReads'
<1>0. /\ buffer \in [index : {0} \cup Columns, col : {0} \cup Columns,
                     from : RS \cup {NULL}]
      /\ filling \in [Conn -> {NULL} \cup (RS \X Columns)]
      /\ wrong \subseteq {"row", "column"} /\ Thread[r] \in Conn
      /\ res \in [RS -> ResultSet]
  BY OdbcAssumption DEF IInv, TypeOK
<1>1. ASSUME NEW c \in Conn, filling[c] # NULL
      PROVE  filling[c][1] \in RS \ {r}
  BY <1>0, <1>1 DEF IInv, FillingReads
<1>2. \A q \in RS \ {r} : Exists(q) => Exists(q)'
  BY <1>0, ResultStepKinds DEF Exists
<1>3. CASE UNCHANGED filling
  <2>1. FillingReads'
    BY <1>1, <1>2, <1>3 DEF IInv, FillingReads
  <2>2. UNCHANGED bufferVars \/ ResultClose(r) \/ \E idx \in Columns : GetString(r, idx)
    BY DEF ResultStep, ExecuteQuery, NextFirst, NextLater
  <2>3. CASE UNCHANGED bufferVars
    BY <1>0, <2>1, <2>3 DEF bufferVars
  <2>4. CASE ResultClose(r)
    BY <1>0, <2>1, <2>4 DEF ResultClose
  <2>5. ASSUME NEW idx \in Columns, GetString(r, idx)
        PROVE  /\ buffer' \in [index : {0} \cup Columns, col : {0} \cup Columns,
                               from : RS \cup {NULL}]
               /\ wrong' \subseteq {"row", "column"}
    BY <1>0, <2>5 DEF GetString, Returns
  <2>6. QED
    BY <1>0, <1>3, <2>1, <2>2, <2>3, <2>4, <2>5
<1>4. ASSUME NEW idx \in Columns, GetString(r, idx), ~UNCHANGED filling
      PROVE  /\ buffer' \in [index : {0} \cup Columns, col : {0} \cup Columns,
                             from : RS \cup {NULL}]
             /\ filling' \in [Conn -> {NULL} \cup (RS \X Columns)]
             /\ UNCHANGED wrong /\ FillingReads'
  <2>1. /\ buffer' = [buffer EXCEPT !.index = idx]
        /\ filling' = [filling EXCEPT ![Thread[r]] = <<r, idx>>]
        /\ UNCHANGED <<wrong, res>> /\ Exists(r)
    BY <1>4 DEF GetString, MayGet
  <2>2. FillingReads'
    BY <1>0, <2>1 DEF IInv, FillingReads, Exists
  <2>3. QED
    BY <1>0, <2>1, <2>2
<1>5. ~UNCHANGED filling => \E idx \in Columns : GetString(r, idx)
  BY DEF ResultStep, ExecuteQuery, NextFirst, NextLater, ResultClose, bufferVars
<1>6. QED
  BY <1>0, <1>3, <1>4, <1>5

LEMMA ResultStepIInv ==
  ASSUME IInv, NEW r \in RS, filling[Thread[r]] = NULL, ResultStep(r)
  PROVE  IInv'
<1>0. LibInv /\ ViewTypeOK /\ Thread[r] \in Conn
  BY OdbcAssumption DEF IInv, TypeOK, LibInv
<1>1. res' \in [RS -> ResultSet] /\ AtFirstRow'
  BY ResultStepKinds, ResultBecomes DEF IInv, TypeOK, AtFirstRow
<1>2. LibInv' /\ UNCHANGED <<ref, connVars>>
  BY <1>0, ResultStepCalls, CallLocal
<1>3. ViewTypeOK'
  BY <1>0, ResultStepCalls, ViewType
<1>4. TypeOK'
  BY <1>1, <1>2, <1>3, ResultStepBuffer DEF IInv, TypeOK, RefTypeOK, LibInv, connVars
<1>5. QED
  BY <1>1, <1>2, <1>4, ResultStepBuffer DEF IInv, LibInv

LEMMA GetStringFillsIInv ==
  ASSUME IInv, NEW c \in Conn, GetStringFills(c)
  PROVE  IInv'
<1> DEFINE r == filling[c][1]
           idx == filling[c][2]
<1>0. /\ LibInv /\ ViewTypeOK /\ filling[c] # NULL
      /\ filling \in [Conn -> {NULL} \cup (RS \X Columns)]
      /\ buffer \in [index : {0} \cup Columns, col : {0} \cup Columns,
                     from : RS \cup {NULL}]
  BY DEF IInv, TypeOK, LibInv, GetStringFills
<1>1. r \in RS /\ idx \in Columns
  BY <1>0
<1>2. res[r].hstmt \in Access
  BY <1>0, <1>1 DEF IInv, TypeOK, FillingReads, Exists, ResultSet
<1>3. cursor[res[r].hstmt].by \in RS \cup {NULL}
  BY <1>2 DEF IInv, TypeOK, OdbcLibTypeOK
<1>4. /\ \/ buffer' = [buffer EXCEPT !.col = idx, !.from = cursor[res[r].hstmt].by]
         \/ buffer' = [buffer EXCEPT !.col = 0, !.from = r]
      /\ filling' = [filling EXCEPT ![c] = NULL]
      /\ wrong' \subseteq {"row", "column"}
      /\ UNCHANGED <<ref, viewVars, odbcVars, connVars, res>>
  BY DEF GetStringFills, Returns, SawNothing
<1>5. /\ buffer' \in [index : {0} \cup Columns, col : {0} \cup Columns,
                      from : RS \cup {NULL}]
      /\ filling' \in [Conn -> {NULL} \cup (RS \X Columns)]
  BY <1>0, <1>1, <1>3, <1>4
<1>6. LibInv' /\ ViewTypeOK'
  BY <1>0, <1>4, StillLocal DEF viewVars, ViewTypeOK
<1>7. TypeOK'
  BY <1>4, <1>5, <1>6 DEF IInv, TypeOK, RefTypeOK, LibInv, connVars
<1>8. FillingReads' /\ AtFirstRow'
  BY <1>0, <1>4 DEF IInv, FillingReads, AtFirstRow, Exists
<1>9. QED
  BY <1>6, <1>7, <1>8 DEF IInv, LibInv

LEMMA NextIInv == IInv /\ [Next]_vars => IInv'
<1> SUFFICES ASSUME IInv, [Next]_vars PROVE IInv'
  OBVIOUS
<1>1. CASE UNCHANGED vars
  BY <1>1 DEF vars, IInv, TypeOK, RefTypeOK, ViewTypeOK, OdbcLibTypeOK, NothingOutlives,
     AtFirstRow, FillingReads, Exists
<1>2. QED
  BY <1>1, ConnStepIInv, ResultStepIInv, GetStringFillsIInv DEF Next

THEOREM Invariance == Spec => []IInv
<1>1. QED
  BY InitIInv, NextIInv, PTL DEF Spec

\* Every variable keeps to its type, whatever fails or is lost: record of a
\* result set is 0 or 1, and getString() never reads through a result set that
\* was closed while it ran (odbc_db.cpp, odbc_db.h: the fields of both classes).
THEOREM TypeCorrect == Spec => []TypeOK
<1>1. IInv => TypeOK
  BY DEF IInv
<1>2. QED
  BY <1>1, Invariance, PTL

-----------------------------------------------------------------------------
(* Cursors have an owner.                                                  *)

\* No cursor of any access is another's but that of a new select.
SameCursors == \A a \in Access : cursor'[a].by \in {cursor[a].by, NULL}

LEMMA FailsCursors ==
  ASSUME LibInv, NEW a \in Access \cup {NULL}, Fails(a) \/ LostCommit(a)
  PROVE  SameCursors
  BY FailsLocal, LostLocal DEF SameCursors, Closed, LostCommit

LEMMA SelectCursors ==
  ASSUME LibInv, NEW a \in Access \cup {NULL}, NEW r \in RS \cup {NULL},
         NEW k \in 0 .. MaxRows, NEW ok \in BOOLEAN, execute_select(a, r, k, ok)
  PROVE  /\ r = NULL \/ ~ok => SameCursors
         /\ ok => /\ a \in Access /\ cursor'[a].by = r
                  /\ \A b \in Access \ {a} : cursor'[b] = cursor[b]
<1>1. CASE ok
  <2>1. a \in Access /\ cursor' = [cursor EXCEPT ![a] =
                                     [open |-> TRUE, by |-> r, at |-> 0, n |-> k]]
    BY <1>1 DEF execute_select, Accepts
  <2>2. QED
    BY <1>1, <2>1 DEF SameCursors, LibInv, OdbcLibTypeOK
<1>2. CASE ~ok
  BY <1>2, FailsCursors DEF execute_select
<1>3. QED
  BY <1>1, <1>2

LEMMA StatementCursors ==
  ASSUME IInv, NEW c \in Conn, Statement(c)
  PROVE  SameCursors
<1>0. /\ LibInv /\ hstmt[c] \in Access \cup {NULL} /\ 0 \in 0 .. MaxRows
      /\ UNCHANGED cursor => SameCursors
  BY OdbcLibAssumption DEF IInv, TypeOK, LibInv, SameCursors
<1>1. CASE Execute(c)
  BY <1>0, <1>1, FailsCursors DEF Execute, execute_write, odbcVars
<1>2. CASE ExecuteSelect(c)
  BY <1>0, <1>2, SelectCursors DEF ExecuteSelect
<1>3. CASE BeginTrans(c)
  BY <1>0, <1>3, FailsCursors DEF BeginTrans, execute_begin
<1>4. CASE CommitTrans(c) \/ RollbackTrans(c)
  BY <1>0, <1>4, FailsCursors DEF CommitTrans, RollbackTrans, execute_end
<1>5. CASE SetTransactionMode(c)
  BY <1>0, <1>5, FailsCursors DEF SetTransactionMode, odbcVars
<1>6. CASE Tables(c)
  <2>1. FetchAll(hstmt[c]) \/ TablesFetched(hstmt[c]) => SameCursors
    BY <1>0 DEF FetchAll, TablesFetched, SameCursors, LibInv, OdbcLibTypeOK
  <2>2. QED
    BY <1>0, <1>6, <2>1, FailsCursors DEF Tables, Fails
<1>7. QED
  BY <1>1, <1>2, <1>3, <1>4, <1>5, <1>6 DEF Statement

LEMMA NextCursors == IInv /\ CursorOwned /\ [Next]_vars => CursorOwned'
<1> SUFFICES ASSUME IInv, CursorOwned, [Next]_vars PROVE CursorOwned'
  OBVIOUS
<1>0. /\ LibInv /\ res \in [RS -> ResultSet] /\ NULL \notin RS /\ NULL \notin Access
      /\ \A a \in Access : cursor[a].by \in RS \cup {NULL}
  BY OdbcLibAssumption DEF IInv, TypeOK, LibInv, OdbcLibTypeOK
<1>1. ASSUME UNCHANGED res, SameCursors PROVE CursorOwned'
  BY <1>1 DEF CursorOwned, SameCursors
<1>2. UNCHANGED cursor => SameCursors
  BY DEF SameCursors
<1>3. ASSUME NEW c \in Conn, ConnStep(c) PROVE CursorOwned'
  <2>1. UNCHANGED <<res, bufferVars>>
    BY <1>3, ConnStepKinds
  <2>2. CASE CreateConnection(c) \/ UNCHANGED odbcVars
    BY <1>1, <1>2, <2>1, <2>2 DEF CreateConnection, odbcVars
  <2>3. CASE (Open(c) \/ CloseHandles(c)) /\ ref' \in [Conn -> Nat]
    BY <1>1, <2>1, <2>3, SessionIInv DEF SameCursors, Closed
  <2>4. CASE Statement(c)
    BY <1>1, <2>1, <2>4, StatementCursors
  <2>5. ref' \in [Conn -> Nat]
    BY <1>3, ConnStepIInv DEF IInv, TypeOK, RefTypeOK
  <2>6. QED
    BY <1>3, <2>2, <2>3, <2>4, <2>5, ConnStepKinds
<1>4. ASSUME NEW r \in RS, ResultStep(r) PROVE CursorOwned'
  <2> DEFINE a == hstmt[Thread[r]]
  <2>0. a \in Access \cup {NULL}
    BY OdbcAssumption DEF IInv, TypeOK
  <2>1. CASE ExecuteQuery(r) /\ UNCHANGED res /\ SameCursors
    BY <1>1, <2>1
  <2>2. ASSUME NEW k \in 0 .. MaxRows, execute_select(a, r, k, TRUE), ~Exists(r),
               res' = [res EXCEPT ![r] = [NoResultSet EXCEPT !.hstmt = a, !.n = k]]
        PROVE  CursorOwned'
    <3>1. /\ a \in Access /\ cursor'[a].by = r
          /\ \A b \in Access \ {a} : cursor'[b] = cursor[b]
      BY <1>0, <2>0, <2>2, SelectCursors
    <3>2. res'[r].hstmt = a /\ \A q \in RS \ {r} : res'[q] = res[q]
      BY <1>0, <2>2 DEF NoResultSet
    <3>3. \A b \in Access : cursor[b].by # r
      BY <1>0, <2>2 DEF CursorOwned, Exists
    <3>4. QED
      BY <1>0, <3>1, <3>2, <3>3 DEF CursorOwned
  <2>3. CASE ExecuteQuery(r)
    <3>1. ASSUME NEW k \in 0 .. MaxRows,
                 execute_select(a, NULL, k, TRUE) \/ execute_select(a, r, k, FALSE)
          PROVE  SameCursors
      BY <1>0, <2>0, <3>1, SelectCursors
    <3>2. QED
      BY <2>1, <2>2, <2>3, <3>1 DEF ExecuteQuery
  <2>4. CASE NextFirst(r)
    <3>1. res[r].hstmt \in Access
      BY <1>0, <2>4 DEF NextFirst, Exists, ResultSet
    <3>2. \A b \in Access : cursor'[b].by = cursor[b].by
      <4>1. CASE FetchRow(res[r].hstmt)
        BY <1>0, <3>1, <4>1 DEF FetchRow, LibInv, OdbcLibTypeOK
      <4>2. CASE UNCHANGED cursor
        BY <4>2
      <4>3. QED
        BY <2>4, <4>1, <4>2 DEF NextFirst, FetchNone, odbcVars
    <3>3. \A q \in RS : res'[q].hstmt = res[q].hstmt
      BY <1>0, <2>4 DEF NextFirst, ResultSet
    <3>4. QED
      BY <1>0, <3>2, <3>3 DEF CursorOwned
  <2>5. CASE NextLater(r)
    <3>1. res[r].hstmt \in Access
      BY <1>0, <2>5 DEF NextLater, Exists, ResultSet
    <3>2. \A b \in Access : cursor'[b].by \in {cursor[b].by, NULL}
      BY <1>0, <2>5, <3>1 DEF NextLater, CursorCloses, Closed, LibInv, OdbcLibTypeOK
    <3>3. \A q \in RS : res'[q].hstmt = res[q].hstmt
      BY <1>0, <2>5 DEF NextLater, ResultSet
    <3>4. QED
      BY <1>0, <3>2, <3>3 DEF CursorOwned
  <2>6. CASE ResultClose(r)
    <3>1. res[r].hstmt \in Access
      BY <1>0, <2>6 DEF ResultClose, Exists, ResultSet
    <3>2. \A b \in Access : cursor'[b] = IF b = res[r].hstmt THEN Closed ELSE cursor[b]
      BY <1>0, <2>6, <3>1 DEF ResultClose, CursorCloses, LibInv, OdbcLibTypeOK
    <3>3. \A q \in RS \ {r} : res'[q] = res[q]
      BY <1>0, <2>6 DEF ResultClose
    <3>4. QED
      BY <1>0, <3>2, <3>3 DEF CursorOwned, Closed
  <2>7. ASSUME NEW idx \in Columns, GetString(r, idx) PROVE CursorOwned'
    BY <1>1, <1>2, <2>7 DEF GetString, odbcVars
  <2>8. QED
    BY <1>4, <2>3, <2>4, <2>5, <2>6, <2>7 DEF ResultStep
<1>5. CASE UNCHANGED vars
  BY <1>1, <1>2, <1>5 DEF vars
<1>6. ASSUME NEW c \in Conn, GetStringFills(c) PROVE CursorOwned'
  BY <1>1, <1>2, <1>6 DEF GetStringFills, odbcVars
<1>7. QED
  BY <1>3, <1>4, <1>5, <1>6 DEF Next

\* A cursor that executeQuery() of odbc_db.cpp has opened for a result set stays
\* one the close() of that result set closes, also when several result sets of a
\* connection share its only statement handle and tables() runs in between.
THEOREM CursorsHaveOwners == Spec => []CursorOwned
<1>1. Init => CursorOwned
  BY DEF Init, OdbcLibInit, Closed, CursorOwned
<1>2. IInv /\ CursorOwned /\ [Next]_vars => CursorOwned'
  BY NextCursors
<1>3. QED
  BY <1>1, <1>2, Invariance, PTL DEF Spec

-----------------------------------------------------------------------------
(* Clients that do not open() a connection that has an environment handle.  *)

\* What a connection knows of its access is what is left of it: open() stops
\* after any of its calls with the handles of those before it set.
HandlesMatch(c) ==
  /\ {hdbc[c], hstmt[c]} \subseteq {NULL, henv[c]}
  /\ henv[c] = NULL => ~connected[c]
  /\ \A a \in Access : henv[c] = a =>
       /\ Alive(c)
       /\ "env" \in has[a]
       /\ "dbc" \in has[a] <=> hdbc[c] = a
       /\ "link" \in has[a] <=> connected[c]
       /\ "stmt" \in has[a] <=> hstmt[c] = a

HandlesAlone == \A c, d \in Conn : henv[c] # NULL /\ henv[c] = henv[d] => c = d

\* Nothing is obtained before what it is made from, or of nobody's access.
Nested ==
  \A a \in Access :
    /\ has[a] # {} => \E c \in Conn : henv[c] = a
    /\ "link" \in has[a] => "dbc" \in has[a]
    /\ has[a] \cap {"session", "stmt"} # {} => "link" \in has[a]

Owned == HandlesAlone /\ Nested /\ \A c \in Conn : HandlesMatch(c)

LEMMA SameOwned ==
  ASSUME IInv, Owned, UNCHANGED connVars, \A c \in Conn : Alive(c) => Alive(c)',
         \A a \in Access : has'[a] \in {has[a], has[a] \ {"session"}}
  PROVE  Owned'
<1>1. HandlesAlone'
  BY DEF Owned, HandlesAlone, connVars
<1>2. Nested'
  <2>1. SUFFICES ASSUME NEW a \in Access
                 PROVE  /\ has'[a] # {} => \E c \in Conn : henv'[c] = a
                        /\ "link" \in has'[a] => "dbc" \in has'[a]
                        /\ has'[a] \cap {"session", "stmt"} # {} => "link" \in has'[a]
    BY DEF Nested
  <2>2. CASE has'[a] = has[a]
    BY <2>2 DEF Owned, Nested, connVars
  <2>3. CASE has'[a] = has[a] \ {"session"}
    BY <2>3 DEF Owned, Nested, connVars
  <2>4. QED
    BY <2>2, <2>3
<1>3. \A a \in Access, kind \in {"env", "dbc", "link", "stmt"} :
        kind \in has'[a] <=> kind \in has[a]
  OBVIOUS
<1>4. ASSUME NEW c \in Conn PROVE HandlesMatch(c)'
  BY <1>3 DEF Owned, HandlesMatch, connVars
<1>5. QED
  BY <1>1, <1>2, <1>4 DEF Owned

LEMMA FreeHandle ==
  ASSUME NEW h
  PROVE  /\ SQLFreeHandle(h, "stmt") = h \ {"stmt"}
         /\ "link" \notin h => SQLFreeHandle(h, "dbc") = h \ {"dbc"}
         /\ "dbc" \notin h => SQLFreeHandle(h, "env") = h \ {"env"}
  BY DEF SQLFreeHandle, MadeFrom

\* close() gives its access back altogether, whatever stage open() came to.
LEMMA LeftNothing ==
  ASSUME IInv, Owned, NEW c \in Conn, NEW a \in Access, henv[c] = a
  PROVE  Left(c, a) = {}
<1> DEFINE dropped == IF hstmt[c] = a THEN SQLFreeHandle(has[a], "stmt") ELSE has[a]
           cut == IF connected[c] /\ hdbc[c] = a THEN SQLDisconnect(dropped) ELSE dropped
           bare == IF hdbc[c] = a THEN SQLFreeHandle(cut, "dbc") ELSE cut
<1>0. /\ has[a] \subseteq {"env", "dbc", "link", "session", "stmt"}
      /\ HandlesMatch(c)
      /\ "link" \in has[a] => "dbc" \in has[a]
      /\ "session" \in has[a] => "link" \in has[a]
      /\ NULL # a
  BY OdbcLibAssumption DEF IInv, TypeOK, OdbcLibTypeOK, Owned, Nested
<1>1. dropped \subseteq has[a] \ {"stmt"}
  BY <1>0, FreeHandle DEF HandlesMatch
<1>2. cut \subseteq {"env", "dbc"} /\ cut \subseteq has[a]
  <2>1. CASE connected[c] /\ hdbc[c] = a
    BY <1>0, <1>1, <2>1 DEF SQLDisconnect
  <2>2. CASE ~(connected[c] /\ hdbc[c] = a)
    <3>1. "link" \notin has[a] /\ "session" \notin has[a]
      BY <1>0, <2>2 DEF HandlesMatch
    <3>2. QED
      BY <1>0, <1>1, <2>2, <3>1
  <2>3. QED
    BY <2>1, <2>2
<1> HIDE DEF cut
<1>3. bare \subseteq {"env"}
  <2>1. CASE hdbc[c] = a
    <3>1. SQLFreeHandle(cut, "dbc") = cut \ {"dbc"}
      BY <1>2, FreeHandle
    <3>2. QED
      BY <1>2, <2>1, <3>1
  <2>2. CASE hdbc[c] # a
    BY <1>0, <1>2, <2>2 DEF HandlesMatch
  <2>3. QED
    BY <2>1, <2>2
<1> HIDE DEF bare
<1>4. SQLFreeHandle(bare, "env") = bare \ {"env"}
  BY <1>3, FreeHandle
<1>5. Left(c, a) = bare \ {"env"}
  BY <1>4 DEF Left, bare, cut
<1>6. QED
  BY <1>3, <1>5

LEMMA LeftAlone ==
  ASSUME Owned, NEW c \in Conn, NEW a \in Access, henv[c] # a
  PROVE  Left(c, a) = has[a]
<1>1. hdbc[c] # a /\ hstmt[c] # a
  BY OdbcLibAssumption DEF Owned, HandlesMatch
<1>2. QED
  BY <1>1 DEF Left

LEMMA CloseOwned ==
  ASSUME IInv, Owned, NEW c \in Conn, CloseHandles(c),
         \A d \in Conn \ {c} : ref'[d] = ref[d]
  PROVE  Owned'
<1>0. /\ henv \in [Conn -> Access \cup {NULL}] /\ hdbc \in [Conn -> Access \cup {NULL}]
      /\ hstmt \in [Conn -> Access \cup {NULL}] /\ connected \in [Conn -> BOOLEAN]
      /\ NULL \notin Access
  BY OdbcLibAssumption DEF IInv, TypeOK
<1>1. /\ henv'[c] = NULL /\ hdbc'[c] = NULL /\ hstmt'[c] = NULL /\ ~connected'[c]
      /\ \A d \in Conn \ {c} :
           /\ henv'[d] = henv[d] /\ hdbc'[d] = hdbc[d] /\ hstmt'[d] = hstmt[d]
           /\ connected'[d] = connected[d]
  BY <1>0 DEF CloseHandles
<1>2. \A a \in Access : has'[a] = IF henv[c] = a THEN {} ELSE has[a]
  BY LeftNothing, LeftAlone DEF CloseHandles, HasBecomes
<1>3. HandlesAlone'
  BY <1>1 DEF Owned, HandlesAlone
<1>4. Nested'
  BY <1>1, <1>2 DEF Owned, Nested
<1>5. ASSUME NEW d \in Conn \ {c} PROVE HandlesMatch(d)'
  <2>1. \A a \in Access : henv[d] = a => has'[a] = has[a]
    BY <1>0, <1>2 DEF Owned, HandlesAlone
  <2>2. HandlesMatch(d) /\ Alive(d)' = Alive(d)
    BY DEF Owned, Alive
  <2>3. QED
    BY <1>1, <2>1, <2>2 DEF HandlesMatch
<1>6. HandlesMatch(c)'
  BY <1>0, <1>1 DEF HandlesMatch
<1>7. QED
  BY <1>3, <1>4, <1>5, <1>6 DEF Owned

LEMMA OpenOwned ==
  ASSUME IInv, Owned, ~Reopens, NEW c \in Conn, Open(c), UNCHANGED ref
  PROVE  Owned'
<1>0. /\ henv \in [Conn -> Access \cup {NULL}] /\ hdbc \in [Conn -> Access \cup {NULL}]
      /\ hstmt \in [Conn -> Access \cup {NULL}] /\ connected \in [Conn -> BOOLEAN]
      /\ has \in [Access -> SUBSET {"env", "dbc", "link", "session", "stmt"}]
      /\ NULL \notin Access
      /\ henv[c] = NULL /\ hdbc[c] = NULL /\ hstmt[c] = NULL /\ ~connected[c]
      /\ Alive(c)
  BY OdbcLibAssumption DEF IInv, TypeOK, OdbcLibTypeOK, Open, Owned, HandlesMatch
<1>1. PICK a \in Access, got \in Obtained :
        /\ has[a] = {}
        /\ HasBecomes([has EXCEPT ![a] = got])
        /\ henv' = [henv EXCEPT ![c] = IF "env" \in got THEN a ELSE NULL]
        /\ hdbc' = [hdbc EXCEPT ![c] =
                      IF "dbc" \in got THEN a
                      ELSE IF "env" \in got THEN NULL ELSE @]
        /\ hstmt' = [hstmt EXCEPT ![c] =
                       IF "stmt" \in got THEN a
                       ELSE IF "link" \in got THEN NULL ELSE @]
        /\ connected' = [connected EXCEPT ![c] = @ \/ "link" \in got]
  BY DEF Open
<1>2. /\ got # {} => "env" \in got
      /\ "link" \in got => "dbc" \in got
      /\ got \cap {"session", "stmt"} # {} => "link" \in got
  BY DEF Obtained, Stages
<1>3. /\ henv'[c] = (IF "env" \in got THEN a ELSE NULL)
      /\ hdbc'[c] = (IF "dbc" \in got THEN a ELSE NULL)
      /\ hstmt'[c] = (IF "stmt" \in got THEN a ELSE NULL)
      /\ connected'[c] = ("link" \in got)
      /\ \A d \in Conn \ {c} :
           /\ henv'[d] = henv[d] /\ hdbc'[d] = hdbc[d] /\ hstmt'[d] = hstmt[d]
           /\ connected'[d] = connected[d]
  BY <1>0, <1>1
<1>4. \A b \in Access : has'[b] = IF b = a THEN got ELSE has[b]
  BY <1>0, <1>1 DEF HasBecomes
<1>5. \A d \in Conn : henv[d] # a
  BY <1>0, <1>1 DEF Owned, HandlesMatch
<1>6. HandlesAlone'
  BY <1>0, <1>3, <1>5 DEF Owned, HandlesAlone
<1>7. Nested'
  BY <1>1, <1>2, <1>3, <1>4, <1>0 DEF Owned, Nested
<1>8. ASSUME NEW d \in Conn \ {c} PROVE HandlesMatch(d)'
  <2>1. HandlesMatch(d) /\ Alive(d)' = Alive(d) /\ henv[d] # a
    BY <1>5 DEF Owned, Alive
  <2>2. QED
    BY <1>3, <1>4, <2>1 DEF HandlesMatch
<1>9. HandlesMatch(c)'
  <2>1. Alive(c)'
    BY <1>0 DEF Alive
  <2>2. CASE got = {}
    BY <1>0, <1>3, <2>2 DEF HandlesMatch
  <2>3. CASE got # {}
    BY <1>0, <1>2, <1>3, <1>4, <2>1, <2>3 DEF HandlesMatch
  <2>4. QED
    BY <2>2, <2>3
<1>10. QED
  BY <1>6, <1>7, <1>8, <1>9 DEF Owned

LEMMA NextOwned == ~Reopens /\ IInv /\ Owned /\ [Next]_vars => Owned'
<1> SUFFICES ASSUME ~Reopens, IInv, Owned, [Next]_vars PROVE Owned'
  OBVIOUS
<1>0. /\ ref \in [Conn -> Nat] /\ LibInv
      /\ henv \in [Conn -> Access \cup {NULL}] /\ hdbc \in [Conn -> Access \cup {NULL}]
      /\ hstmt \in [Conn -> Access \cup {NULL}] /\ connected \in [Conn -> BOOLEAN]
  BY DEF IInv, TypeOK, RefTypeOK, LibInv
<1>1. ASSUME UNCHANGED <<odbcVars, connVars>>, \A c \in Conn : Alive(c) => Alive(c)'
      PROVE  Owned'
  BY <1>1, SameOwned DEF odbcVars
<1>2. ASSUME NEW c \in Conn, ConnStep(c) PROVE Owned'
  <2>1. CASE CreateConnection(c)
    <3>1. ref[c] = 0 /\ ref' = [ref EXCEPT ![c] = 1]
      BY <2>1 DEF CreateConnection, Construct
    <3>2. henv[c] = NULL
      BY <1>0, <3>1 DEF Owned, HandlesMatch, Alive
    <3>3. hdbc[c] = NULL /\ hstmt[c] = NULL /\ ~connected[c]
      BY <3>2 DEF Owned, HandlesMatch
    <3>4. UNCHANGED <<odbcVars, connVars>>
      BY <1>0, <2>1, <3>2, <3>3 DEF CreateConnection, connVars
    <3>5. \A d \in Conn : Alive(d) => Alive(d)'
      BY <1>0, <3>1 DEF Alive
    <3>6. QED
      BY <1>1, <3>4, <3>5
  <2>2. CASE UNCHANGED <<odbcVars, connVars>> /\ DuplicateConnection(c)
    <3>1. ref[c] \in Nat /\ ref' = [ref EXCEPT ![c] = ref[c] + 1]
      BY <1>0, <2>2 DEF DuplicateConnection, Duplicate
    <3>2. \A d \in Conn : Alive(d) => Alive(d)'
      BY <1>0, <3>1 DEF Alive
    <3>3. QED
      BY <1>1, <2>2, <3>2
  <2>3. ASSUME Release(c)
        PROVE  /\ \A d \in Conn \ {c} : ref'[d] = ref[d]
               /\ ~LastRelease(c) => \A d \in Conn : Alive(d) => Alive(d)'
    <3>1. ref[c] > 0 /\ ref[c] \in Nat /\ ref' = [ref EXCEPT ![c] = ref[c] - 1]
      BY <1>0, <2>3 DEF Release, Alive
    <3>2. QED
      BY <1>0, <3>1 DEF Alive, LastRelease
  <2>4. CASE CloseHandles(c) /\ (UNCHANGED ref \/ Release(c))
    BY <2>3, <2>4, CloseOwned
  <2>5. CASE Statement(c)
    <3>1. Called(hstmt[c]) /\ UNCHANGED <<ref, connVars>>
      BY <1>0, <2>5, StatementCalls
    <3>2. QED
      BY <1>0, <3>1, CallLocal, SameOwned DEF Local, Alive
  <2>6. QED
    BY <1>1, <1>2, <2>1, <2>2, <2>3, <2>4, <2>5, ConnStepKinds, OpenOwned
<1>3. ASSUME NEW r \in RS, ResultStep(r) PROVE Owned'
  <2>1. PICK a \in Access \cup {NULL} : Called(a) /\ UNCHANGED <<ref, connVars>>
    BY <1>3, ResultStepCalls
  <2>2. QED
    BY <1>0, <2>1, CallLocal, SameOwned DEF Local, Alive
<1>4. CASE UNCHANGED vars
  BY <1>1, <1>4 DEF vars, odbcVars, connVars, Alive
<1>5. ASSUME NEW c \in Conn, GetStringFills(c) PROVE Owned'
  BY <1>1, <1>5 DEF GetStringFills, Alive
<1>6. QED
  BY <1>2, <1>3, <1>4, <1>5 DEF Next

LEMMA InitOwned == Init => Owned
  BY OdbcLibAssumption DEF Init, OdbcLibInit, Owned, HandlesAlone, Nested, HandlesMatch

\* While no client opens a connection that has an environment handle already, all
\* that open() of odbc_db.cpp obtains is given back: whichever of its calls failed,
\* the connection object knows what the calls before it returned.
THEOREM HandlesHaveOwners ==
  ASSUME ~Reopens
  PROVE  Spec => []NoOrphan
<1>1. IInv /\ Owned /\ [Next]_vars => Owned'
  BY NextOwned
<1>2. Owned => NoOrphan
  BY DEF Owned, Nested, HandlesMatch, NoOrphan
<1>3. QED
  BY <1>1, <1>2, InitOwned, Invariance, PTL DEF Spec

-----------------------------------------------------------------------------
(* Transactions and writes of those clients.                               *)

\* Whoever knows of no transaction has none.
Known(c) == hstmt[c] # NULL /\ tx[hstmt[c]] => inTx[c]

\* The client of c counts on the transaction that is open in its session.
Trusts(c) ==
  /\ "result" \in Heeds /\ inTx[c] /\ ~spoiled[c]
  /\ hstmt[c] # NULL /\ "session" \in has[hstmt[c]]

\* What it counts on is under way in its session, while it has one.
Covered(c) ==
  /\ ~inTx[c] => told[c] = 0
  /\ Trusts(c) => tx[hstmt[c]] /\ told[c] <= work[hstmt[c]]

Durable == "result" \in Heeds => acked <= committed

\* QuietHoldsNothing and AckedDurable made inductive.
LedgerTrue == Durable /\ \A c \in Conn : Known(c) /\ Covered(c)

\* A call on c leaves the session of d, and what its client thinks of it.
Spares(d) ==
  /\ hstmt'[d] = hstmt[d] /\ inTx'[d] = inTx[d] /\ told'[d] = told[d]
  /\ spoiled'[d] = spoiled[d]
  /\ hstmt[d] # NULL =>
       /\ has'[hstmt[d]] = has[hstmt[d]] /\ cursor'[hstmt[d]] = cursor[hstmt[d]]
       /\ tx'[hstmt[d]] = tx[hstmt[d]] /\ work'[hstmt[d]] = work[hstmt[d]]

LEMMA SparesLedger ==
  ASSUME LedgerTrue, NEW c \in Conn, \A d \in Conn \ {c} : Spares(d),
         Known(c)', Covered(c)', Durable'
  PROVE  LedgerTrue'
<1>1. ASSUME NEW d \in Conn \ {c} PROVE Known(d)' /\ Covered(d)'
  BY <1>1 DEF LedgerTrue, Known, Covered, Trusts, Spares
<1>2. QED
  BY <1>1 DEF LedgerTrue

LEMMA CallSpares ==
  ASSUME IInv, Owned, NEW c \in Conn, UNCHANGED connVars, Called(hstmt[c]), Concluded(c)
  PROVE  \A d \in Conn \ {c} : Spares(d)
<1>1. /\ LibInv /\ ViewTypeOK /\ hstmt[c] \in Access \cup {NULL}
      /\ \A d \in Conn : hstmt[d] # NULL => hstmt[d] \in Access
  BY DEF IInv, TypeOK, LibInv
<1>2. Local(hstmt[c])
  BY <1>1, CallLocal
<1>3. \A d \in Conn \ {c} : hstmt[d] # NULL => hstmt[d] # hstmt[c]
  <2>1. ASSUME NEW d \in Conn, hstmt[d] # NULL PROVE hstmt[d] = henv[d]
    BY <2>1 DEF Owned, HandlesMatch
  <2>2. QED
    BY <2>1 DEF Owned, HandlesAlone
<1>4. QED
  BY <1>1, <1>2, <1>3, ViewElsewhere DEF Spares, Local, connVars

\* A call that moves cursors only.
LEMMA StillCovers ==
  ASSUME ViewTypeOK, NEW c \in Conn, Known(c), Covered(c), Durable,
         UNCHANGED <<has, tx, work, committed, connVars>>,
         SawNothing \/ SawFailure(c, "result")
  PROVE  Known(c)' /\ Covered(c)' /\ Durable'
<1>1. UNCHANGED <<inTx, told, acked>>
  BY DEF SawNothing, SawFailure, viewVars
<1>2. spoiled[c] => spoiled'[c]
  BY DEF SawNothing, SawFailure, Spoils, viewVars, ViewTypeOK
<1>3. QED
  BY <1>1, <1>2 DEF Known, Covered, Trusts, Durable, connVars

\* A refused statement leaves the transaction, or takes the session with it.
LEMMA RefusedCovers ==
  ASSUME IInv, NEW c \in Conn, Refused(hstmt[c]), UNCHANGED connVars, SawNothing,
         Known(c), Covered(c), Durable
  PROVE  Known(c)' /\ Covered(c)' /\ Durable'
<1>1. CASE UNCHANGED odbcVars
  BY <1>1, StillCovers DEF odbcVars, IInv, TypeOK
<1>2. CASE Lost(hstmt[c]) /\ UNCHANGED committed
  <2>1. LibInv /\ hstmt[c] \in Access \cup {NULL}
    BY DEF IInv, TypeOK, LibInv
  <2>2. hstmt[c] \in Access /\ ~tx'[hstmt[c]]
    BY <1>2, <2>1, LostLocal
  <2>3. "session" \notin has'[hstmt[c]]
    BY <1>2, <2>1, <2>2 DEF Lost, HasBecomes, LibInv, OdbcLibTypeOK
  <2>4. QED
    BY <1>2, <2>2, <2>3 DEF Known, Covered, Trusts, Durable, connVars, SawNothing, viewVars
<1>3. QED
  BY <1>1, <1>2 DEF Refused

\* A statement failed and its client has seen it: whatever became of the
\* transaction, whoever heeds failures counts on it no more.
LEMMA FailureCovers ==
  ASSUME IInv, NEW c \in Conn, Fails(hstmt[c]) \/ LostCommit(hstmt[c]),
         UNCHANGED connVars, SawFailure(c, "result"), Known(c), Covered(c), Durable
  PROVE  Known(c)' /\ Covered(c)' /\ Durable'
<1> DEFINE s == hstmt[c]
<1>0. /\ LibInv /\ ViewTypeOK /\ s \in Access \cup {NULL}
      /\ acked \in Nat /\ committed \in Nat /\ (s \in Access => work[s] \in Nat)
  BY DEF IInv, TypeOK, LibInv, OdbcLibTypeOK, ViewTypeOK
<1>1. /\ UNCHANGED odbcVars \/ ~tx'[s]
      /\ committed' \in {committed, committed + work[s]}
      /\ committed' = committed \/ s \in Access
  BY <1>0, FailsLocal, LostLocal DEF LostCommit
<1>2. UNCHANGED <<inTx, told, acked>> /\ (inTx[c] /\ "result" \in Heeds => spoiled'[c])
  BY <1>0 DEF SawFailure, Spoils, ViewTypeOK
<1>3. Durable'
  BY <1>0, <1>1, <1>2 DEF Durable
<1>4. Known(c)'
  BY <1>1, <1>2 DEF Known, odbcVars, connVars
<1>5. Covered(c)'
  BY <1>2 DEF Covered, Trusts
<1>6. QED
  BY <1>3, <1>4, <1>5

LEMMA WriteCovers ==
  ASSUME IInv, NEW c \in Conn, Execute(c), Known(c), Covered(c), Durable
  PROVE  Known(c)' /\ Covered(c)' /\ Durable'
<1> DEFINE s == hstmt[c]
<1>0. /\ LibInv /\ ViewTypeOK /\ s \in Access \cup {NULL} /\ UNCHANGED connVars
      /\ acked \in Nat /\ committed \in Nat /\ told[c] \in Nat
      /\ s \in Access => work[s] \in Nat
  BY DEF IInv, TypeOK, LibInv, OdbcLibTypeOK, ViewTypeOK, Execute
<1>1. PICK ok \in BOOLEAN : execute_write(s, ok) /\ SawWrite(c, ok)
  BY DEF Execute
<1>2. hstmt'[c] = s
  BY <1>0 DEF connVars
<1>3. CASE ok /\ inTx[c]
  <2>1. told'[c] = told[c] + 1 /\ acked' = acked /\ UNCHANGED <<inTx, spoiled>>
    BY <1>0, <1>1, <1>3 DEF SawWrite, ViewTypeOK
  <2>2. /\ s \in Access /\ "session" \in has[s] /\ UNCHANGED <<has, tx>>
        /\ committed' \in {committed, committed + 1}
    BY <1>0, <1>1, <1>3 DEF execute_write, Accepts
  <2>3. Known(c)' /\ Durable'
    BY <1>0, <1>2, <1>3, <2>1, <2>2 DEF Known, Durable
  <2>4. CASE Trusts(c)
    <3>1. tx[s] /\ told[c] <= work[s]
      BY <2>4 DEF Covered
    <3>2. work' = [work EXCEPT ![s] = work[s] + 1]
      BY <1>1, <1>3, <3>1 DEF execute_write
    <3>3. work'[s] = work[s] + 1
      BY <1>0, <2>2, <3>2 DEF LibInv, OdbcLibTypeOK
    <3>4. told'[c] <= work'[s]
      BY <1>0, <2>1, <2>2, <3>1, <3>3
    <3>5. QED
      BY <1>2, <1>3, <2>1, <2>2, <2>3, <3>1, <3>4 DEF Covered
  <2>5. CASE ~Trusts(c)
    BY <1>2, <1>3, <2>1, <2>2, <2>3, <2>5 DEF Covered, Trusts
  <2>6. QED
    BY <2>4, <2>5
<1>4. CASE ok /\ ~inTx[c]
  <2>1. told' = told /\ inTx' = inTx /\ acked' = acked + 1
    BY <1>1, <1>4 DEF SawWrite
  <2>2. s # NULL /\ UNCHANGED tx
    BY <1>1, <1>4 DEF execute_write, Accepts
  <2>3. ~tx[s]
    BY <1>4, <2>2 DEF Known
  <2>4. committed' = committed + 1
    BY <1>1, <1>4, <2>3 DEF execute_write
  <2>5. Durable'
    BY <1>0, <2>1, <2>4 DEF Durable
  <2>6. QED
    BY <1>2, <1>4, <2>1, <2>2, <2>3, <2>5 DEF Known, Covered, Trusts
<1>5. CASE ~ok
  <2>1. SawFailure(c, "result") /\ (Fails(s) \/ UNCHANGED odbcVars)
    BY <1>1, <1>5 DEF SawWrite, execute_write
  <2>2. CASE Fails(s)
    BY <1>0, <2>1, <2>2, FailureCovers
  <2>3. CASE UNCHANGED odbcVars
    BY <1>0, <2>1, <2>3, StillCovers DEF odbcVars
  <2>4. QED
    BY <2>1, <2>2, <2>3
<1>6. QED
  BY <1>3, <1>4, <1>5

LEMMA BeginCovers ==
  ASSUME IInv, NEW c \in Conn, BeginTrans(c), Known(c), Covered(c), Durable
  PROVE  Known(c)' /\ Covered(c)' /\ Durable'
<1> DEFINE s == hstmt[c]
<1>0. /\ LibInv /\ ViewTypeOK /\ s \in Access \cup {NULL} /\ UNCHANGED connVars
      /\ acked \in Nat /\ committed \in Nat
  BY DEF IInv, TypeOK, LibInv, OdbcLibTypeOK, ViewTypeOK, BeginTrans
<1>1. PICK ok \in BOOLEAN : execute_begin(s, ok) /\ SawBegin(c, ok)
  BY DEF BeginTrans
<1>2. CASE ok
  <2>1. inTx'[c] /\ told'[c] = 0 /\ acked' = acked
    BY <1>0, <1>1, <1>2 DEF SawBegin, ViewTypeOK
  <2>2. /\ s \in Access /\ tx' = [tx EXCEPT ![s] = TRUE]
        /\ work' \in {work, [work EXCEPT ![s] = 0]}
        /\ committed' \in {committed, committed + work[s]}
    BY <1>0, <1>1, <1>2 DEF execute_begin, Accepts
  <2>3. work[s] \in Nat /\ tx'[s] /\ work'[s] \in {work[s], 0}
    BY <1>0, <2>2 DEF LibInv, OdbcLibTypeOK
  <2>4. hstmt'[c] = s
    BY <1>0 DEF connVars
  <2>5. Durable'
    BY <1>0, <2>1, <2>2, <2>3 DEF Durable
  <2>6. told'[c] <= work'[s]
    BY <2>1, <2>3
  <2>7. QED
    BY <2>1, <2>3, <2>4, <2>5, <2>6 DEF Known, Covered
<1>3. CASE ~ok
  BY <1>0, <1>1, <1>3, FailureCovers DEF SawBegin, execute_begin
<1>4. QED
  BY <1>2, <1>3

\* COMMIT or ROLLBACK.
LEMMA EndCovers ==
  ASSUME IInv, NEW c \in Conn, CommitTrans(c) \/ RollbackTrans(c),
         Known(c), Covered(c), Durable
  PROVE  Known(c)' /\ Covered(c)' /\ Durable'
<1> DEFINE s == hstmt[c]
<1>0. /\ LibInv /\ ViewTypeOK /\ s \in Access \cup {NULL} /\ UNCHANGED connVars
      /\ acked \in Nat /\ committed \in Nat /\ told[c] \in Nat
  BY DEF IInv, TypeOK, LibInv, OdbcLibTypeOK, ViewTypeOK, CommitTrans, RollbackTrans
<1>1. PICK durable \in BOOLEAN, ok \in BOOLEAN :
        /\ execute_end(s, durable, ok)
        /\ IF ok THEN SawEnd(c, durable) ELSE SawFailure(c, "result")
        /\ durable => WouldCommit(c)
  BY DEF CommitTrans, RollbackTrans, SawCommit, SawRollback
<1>2. CASE ok
  <2>1. /\ ~inTx'[c] /\ told'[c] = 0
        /\ acked' = IF durable THEN acked + told[c] ELSE acked
    BY <1>0, <1>1, <1>2 DEF SawEnd, ViewTypeOK
  <2>2. /\ s \in Access /\ "session" \in has[s] /\ tx' = [tx EXCEPT ![s] = FALSE]
        /\ committed' = IF durable THEN committed + work[s] ELSE committed
    BY <1>0, <1>1, <1>2 DEF execute_end, Accepts
  <2>3. ~tx'[s] /\ work[s] \in Nat
    BY <1>0, <2>2 DEF LibInv, OdbcLibTypeOK
  <2>4. ASSUME durable, "result" \in Heeds PROVE told[c] <= work[s]
    <3>1. CASE inTx[c]
      BY <1>1, <2>2, <2>4, <3>1, OdbcLibAssumption DEF WouldCommit, Covered, Trusts
    <3>2. CASE ~inTx[c]
      BY <2>3, <3>2 DEF Covered
    <3>3. QED
      BY <3>1, <3>2
  <2>5. Durable'
    BY <1>0, <2>1, <2>2, <2>3, <2>4 DEF Durable
  <2>6. hstmt'[c] = s
    BY <1>0 DEF connVars
  <2>7. QED
    BY <2>1, <2>3, <2>5, <2>6 DEF Known, Covered, Trusts
<1>3. CASE ~ok
  BY <1>0, <1>1, <1>3, FailureCovers DEF execute_end
<1>4. QED
  BY <1>2, <1>3

LEMMA StatementCovers ==
  ASSUME IInv, NEW c \in Conn, Statement(c), Known(c), Covered(c), Durable
  PROVE  Known(c)' /\ Covered(c)' /\ Durable'
<1>0. ViewTypeOK
  BY DEF IInv, TypeOK
<1>1. CASE ExecuteSelect(c)
  <2>1. UNCHANGED connVars
    BY <1>1 DEF ExecuteSelect
  <2>2. \/ Fails(hstmt[c]) /\ SawFailure(c, "result")
        \/ UNCHANGED <<has, tx, work, committed>> /\ SawNothing
    BY <1>1 DEF ExecuteSelect, execute_select, SawResult
  <2>3. QED
    BY <1>0, <2>1, <2>2, FailureCovers, StillCovers
<1>2. CASE SetTransactionMode(c)
  <2>1. UNCHANGED connVars
    BY <1>2 DEF SetTransactionMode
  <2>2. \/ Fails(hstmt[c]) /\ SawFailure(c, "result")
        \/ UNCHANGED <<has, tx, work, committed>> /\ SawNothing
    BY <1>2 DEF SetTransactionMode, odbcVars
  <2>3. QED
    BY <1>0, <2>1, <2>2, FailureCovers, StillCovers
<1>3. CASE Tables(c)
  <2>1. UNCHANGED connVars /\ SawNothing
    BY <1>3 DEF Tables
  <2>2. Refused(hstmt[c]) \/ UNCHANGED <<has, tx, work, committed>>
    BY <1>3 DEF Tables, FetchAll, TablesFetched
  <2>3. QED
    BY <1>0, <2>1, <2>2, RefusedCovers, StillCovers
<1>4. QED
  BY <1>1, <1>2, <1>3, WriteCovers, BeginCovers, EndCovers DEF Statement

\* open(), close() and the last release give c an access without a transaction,
\* or none, and its client knows of none.
LEMMA SessionCovers ==
  ASSUME IInv, Owned, NEW c \in Conn, Open(c) \/ CloseHandles(c)
  PROVE  /\ \A d \in Conn \ {c} : Spares(d)
         /\ (Open(c) /\ henv[c] # NULL) \/ (Known(c)' /\ Covered(c)')
         /\ acked' = acked /\ committed' = committed
<1>0. /\ LibInv /\ ViewTypeOK /\ SawSession(c) /\ UNCHANGED committed /\ committed' \in Nat
      /\ has \in [Access -> SUBSET {"env", "dbc", "link", "session", "stmt"}]
      /\ hstmt \in [Conn -> Access \cup {NULL}]
      /\ \A d \in Conn : hstmt[d] # NULL =>
           hstmt[d] = henv[d] /\ hstmt[d] \in Access /\ "stmt" \in has[hstmt[d]]
  BY DEF IInv, TypeOK, LibInv, OdbcLibTypeOK, Open, CloseHandles, Owned, HandlesMatch
<1>1. /\ ~inTx'[c] /\ told'[c] = 0 /\ acked' = acked
      /\ \A d \in Conn \ {c} :
           inTx'[d] = inTx[d] /\ told'[d] = told[d] /\ spoiled'[d] = spoiled[d]
  BY <1>0, ViewElsewhere DEF SawSession, SawEnd, ViewTypeOK, Concluded
<1>2. CASE Open(c)
  <2>1. PICK a \in Access, got \in Obtained :
          /\ has[a] = {}
          /\ HasBecomes([has EXCEPT ![a] = got])
          /\ hstmt' = [hstmt EXCEPT ![c] =
                         IF "stmt" \in got THEN a
                         ELSE IF "link" \in got THEN NULL ELSE @]
    BY <1>2 DEF Open
  <2> DEFINE new == [has EXCEPT ![a] = got]
  <2>2. got \in SUBSET {"env", "dbc", "link", "session", "stmt"}
    BY DEF Obtained, Stages
  <2>3. new \in [Access -> SUBSET {"env", "dbc", "link", "session", "stmt"}]
        /\ \A b \in Access \ {a} : new[b] = has[b]
    BY <1>0, <2>2
  <2>4. HasBecomes(new)
    BY <2>1
  <2> HIDE DEF new
  <2>5. \A b \in Access \ {a} :
          /\ has'[b] = has[b] /\ cursor'[b] = cursor[b]
          /\ tx'[b] = tx[b] /\ work'[b] = work[b]
    BY <1>0, <2>3, <2>4, HasBecomesType
  <2>6. ~tx'[a]
    BY <1>0, <2>1 DEF HasBecomes, LibInv, NothingOutlives
  <2>7. \A d \in Conn \ {c} : hstmt'[d] = hstmt[d] /\ hstmt[d] # a
    BY <1>0, <2>1, OdbcLibAssumption
  <2>8. ASSUME henv[c] = NULL PROVE hstmt'[c] \in {a, NULL}
    BY <1>0, <2>1, <2>8 DEF Owned, HandlesMatch
  <2>9. QED
    BY <1>0, <1>1, <1>2, <2>5, <2>6, <2>7, <2>8 DEF Spares, Known, Covered, Trusts
<1>3. CASE CloseHandles(c)
  <2> DEFINE new == [a \in Access |-> Left(c, a)]
  <2>1. new \in [Access -> SUBSET {"env", "dbc", "link", "session", "stmt"}]
    BY <1>0, LeftType
  <2>2. \A a \in Access : henv[c] # a => new[a] = has[a]
    BY LeftAlone
  <2>3. HasBecomes(new)
    BY <1>3 DEF CloseHandles
  <2> HIDE DEF new
  <2>4. \A a \in Access : henv[c] # a =>
          /\ has'[a] = has[a] /\ cursor'[a] = cursor[a]
          /\ tx'[a] = tx[a] /\ work'[a] = work[a]
    BY <1>0, <2>1, <2>2, <2>3, HasBecomesType
  <2>5. hstmt'[c] = NULL /\ \A d \in Conn \ {c} : hstmt'[d] = hstmt[d]
    BY <1>0, <1>3 DEF CloseHandles
  <2>6. \A d \in Conn \ {c} : hstmt[d] # NULL => henv[c] # hstmt[d]
    BY <1>0 DEF Owned, HandlesAlone
  <2>7. QED
    BY <1>0, <1>1, <2>4, <2>5, <2>6 DEF Spares, Known, Covered, Trusts
<1>4. QED
  BY <1>2, <1>3

LEMMA QueryCovers ==
  ASSUME IInv, Owned, LedgerTrue, NEW r \in RS, ResultStep(r)
  PROVE  LedgerTrue'
<1> DEFINE c == Thread[r]
<1>0. /\ c \in Conn /\ UNCHANGED connVars /\ Known(c) /\ Covered(c) /\ Durable
      /\ ViewTypeOK
  BY ResultStepCalls, OdbcAssumption DEF LedgerTrue, IInv, TypeOK
<1>1. CASE UNCHANGED <<has, tx, work, committed, viewVars>>
  BY <1>0, <1>1 DEF LedgerTrue, Durable, Known, Covered, Trusts, connVars, viewVars
<1>2. CASE ExecuteQuery(r)
  <2>1. /\ Called(hstmt[c]) /\ Concluded(c)
        /\ \/ /\ UNCHANGED <<has, tx, work, committed>>
              /\ SawNothing \/ SawFailure(c, "result")
           \/ Fails(hstmt[c]) /\ SawFailure(c, "result")
    BY <1>2 DEF ExecuteQuery, execute_select, Called, Concluded
  <2>2. \A d \in Conn \ {c} : Spares(d)
    BY <1>0, <2>1, CallSpares
  <2>3. Known(c)' /\ Covered(c)' /\ Durable'
    BY <1>0, <2>1, FailureCovers, StillCovers
  <2>4. QED
    BY <1>0, <2>2, <2>3, SparesLedger
<1>3. CASE NextFirst(r) \/ NextLater(r) \/ ResultClose(r)
  BY <1>1, <1>3 DEF NextFirst, NextLater, ResultClose, FetchRow, FetchNone, CursorCloses,
     odbcVars, SawNothing
<1>4. ASSUME NEW idx \in Columns, GetString(r, idx) PROVE LedgerTrue'
  BY <1>1, <1>4 DEF GetString, odbcVars, SawNothing
<1>5. QED
  BY <1>2, <1>3, <1>4 DEF ResultStep

LEMMA NextLedger == ~Reopens /\ IInv /\ Owned /\ LedgerTrue /\ [Next]_vars => LedgerTrue'
<1> SUFFICES ASSUME ~Reopens, IInv, Owned, LedgerTrue, [Next]_vars PROVE LedgerTrue'
  OBVIOUS
<1>0. hstmt \in [Conn -> Access \cup {NULL}]
  BY DEF IInv, TypeOK
<1>1. CASE UNCHANGED <<has, tx, work, committed, hstmt, viewVars>>
  BY <1>1 DEF LedgerTrue, Durable, Known, Covered, Trusts, viewVars
<1>2. ASSUME NEW c \in Conn, ConnStep(c) PROVE LedgerTrue'
  <2>1. CASE CreateConnection(c)
    <3>1. hstmt[c] = NULL
      BY <2>1 DEF CreateConnection, Construct, Owned, HandlesMatch, Alive, IInv, TypeOK
    <3>2. hstmt' = hstmt
      BY <1>0, <2>1, <3>1 DEF CreateConnection
    <3>3. QED
      BY <1>1, <2>1, <3>2 DEF CreateConnection, odbcVars, SawNothing
  <2>2. CASE UNCHANGED <<viewVars, odbcVars, connVars>>
    BY <1>1, <2>2 DEF odbcVars, connVars
  <2>3. CASE Open(c) \/ CloseHandles(c)
    <3>1. Open(c) => henv[c] = NULL
      BY DEF Open
    <3>2. Durable'
      BY <2>3, SessionCovers DEF LedgerTrue, Durable
    <3>3. CASE Open(c)
      BY <3>1, <3>2, <3>3, SessionCovers, SparesLedger
    <3>4. CASE CloseHandles(c) /\ ~Open(c)
      BY <3>2, <3>4, SessionCovers, SparesLedger
    <3>5. QED
      BY <2>3, <3>3, <3>4
  <2>4. CASE Statement(c)
    <3>1. \A d \in Conn \ {c} : Spares(d)
      BY <1>0, <2>4, StatementCalls, CallSpares
    <3>2. Known(c)' /\ Covered(c)' /\ Durable'
      BY <2>4, StatementCovers DEF LedgerTrue
    <3>3. QED
      BY <3>1, <3>2, SparesLedger
  <2>5. QED
    BY <1>2, <2>1, <2>2, <2>3, <2>4, ConnStepKinds
<1>3. CASE UNCHANGED vars
  BY <1>1, <1>3 DEF vars, viewVars
<1>4. ASSUME NEW c \in Conn, GetStringFills(c) PROVE LedgerTrue'
  BY <1>1, <1>4 DEF GetStringFills, odbcVars, connVars, SawNothing
<1>5. QED
  BY <1>2, <1>3, <1>4, QueryCovers DEF Next

LEMMA LedgerInvariant == ASSUME ~Reopens PROVE Spec => []LedgerTrue
<1>1. Init => LedgerTrue
  BY DEF Init, ViewInit, OdbcLibInit, LedgerTrue, Durable, Known, Covered, Trusts
<1>2. IInv /\ Owned /\ [Next]_vars => Owned'
  BY NextOwned
<1>3. IInv /\ Owned /\ LedgerTrue /\ [Next]_vars => LedgerTrue'
  BY NextLedger
<1>4. QED
  BY <1>1, <1>2, <1>3, InitOwned, Invariance, PTL DEF Spec

\* The values beginTrans(), commitTrans() and rollbackTrans() of odbc_db.cpp return
\* are enough to know that no transaction is open, also where a COMMIT met an open
\* cursor, a statement cost the transaction or the connection was lost, as nothing
\* connects a session again.
THEOREM QuietConnectionsHoldNothing ==
  ASSUME ~Reopens
  PROVE  Spec => []QuietHoldsNothing
<1>1. LedgerTrue => QuietHoldsNothing
  BY DEF LedgerTrue, Known, QuietHoldsNothing
<1>2. QED
  BY <1>1, LedgerInvariant, PTL

\* To clients that give a transaction up when a call in it has failed, what
\* execute() and commitTrans() of odbc_db.cpp reported as done is in the database:
\* also where the data source rolls a transaction back under a connection that stays
\* up, refuses a COMMIT, or loses its answer.
THEOREM CarefulClientsKeepTheirWrites ==
  ASSUME ~Reopens, "result" \in Heeds
  PROVE  Spec => []AckedDurable
<1>1. LedgerTrue => AckedDurable
  BY DEF LedgerTrue, Durable, AckedDurable
<1>2. QED
  BY <1>1, LedgerInvariant, PTL

-----------------------------------------------------------------------------
(* The getters of a program with one thread.                               *)

OneThread == \A q, r \in RS : Thread[q] = Thread[r]

\* The buffer has the column index names or, after a SQLGetData that failed, none,
\* unless getString() is filling it.
ColumnKnown ==
  /\ ColumnIsAsked
  /\ (\A c \in Conn : filling[c] = NULL) => buffer.col \in {0, buffer.index}
  /\ \A c \in Conn : filling[c] # NULL => buffer.index = filling[c][2]

LEMMA NextColumn == OneThread /\ IInv /\ ColumnKnown /\ [Next]_vars => ColumnKnown'
<1> SUFFICES ASSUME OneThread, IInv, ColumnKnown, [Next]_vars PROVE ColumnKnown'
  OBVIOUS
<1>0. /\ buffer \in [index : {0} \cup Columns, col : {0} \cup Columns,
                     from : RS \cup {NULL}]
      /\ filling \in [Conn -> {NULL} \cup (RS \X Columns)]
      /\ NULL \notin RS \X Columns
  BY OdbcAssumption DEF IInv, TypeOK
<1>1. CASE UNCHANGED bufferVars
  BY <1>1 DEF ColumnKnown, ColumnIsAsked, bufferVars
<1>2. ASSUME NEW c \in Conn, NEW d \in Conn, filling[c] # NULL, filling[d] # NULL
      PROVE  c = d
  <2>1. filling[c][1] \in RS /\ filling[d][1] \in RS
    BY <1>0, <1>2
  <2>2. QED
    BY <1>2, <2>1 DEF OneThread, IInv, FillingReads
<1>3. ASSUME NEW r \in RS, filling[Thread[r]] = NULL, NEW d \in Conn, filling[d] # NULL
      PROVE  FALSE
  <2>1. filling[d][1] \in RS
    BY <1>0, <1>3
  <2>2. Thread[filling[d][1]] = d
    BY <1>3 DEF IInv, FillingReads
  <2>3. QED
    BY <1>3, <2>1, <2>2 DEF OneThread
<1>4. ASSUME NEW r \in RS, filling[Thread[r]] = NULL, ResultStep(r) PROVE ColumnKnown'
  <2>1. CASE ResultClose(r)
    <3>1. buffer'.col = buffer.col /\ buffer'.index = buffer.index
      BY <1>0, <2>1 DEF ResultClose
    <3>2. QED
      BY <2>1, <3>1 DEF ResultClose, ColumnKnown, ColumnIsAsked
  <2>2. ASSUME NEW idx \in Columns, GetString(r, idx) PROVE ColumnKnown'
    <3>1. \A c \in Conn : filling[c] = NULL
      BY <1>3, <1>4
    <3>2. buffer.col \in {0, buffer.index} /\ Thread[r] \in Conn
      BY <3>1, OdbcAssumption DEF ColumnKnown
    <3>3. CASE buffer.index = idx
      BY <2>2, <3>1, <3>2, <3>3 DEF GetString, Returns, ColumnKnown, ColumnIsAsked
    <3>4. CASE buffer.index # idx
      <4>1. /\ buffer'.index = idx /\ UNCHANGED wrong
            /\ filling'[Thread[r]] = <<r, idx>> /\ <<r, idx>> # NULL
            /\ \A c \in Conn \ {Thread[r]} : filling'[c] = NULL
        BY <1>0, <2>2, <3>1, <3>2, <3>4 DEF GetString
      <4>2. QED
        BY <3>2, <4>1 DEF ColumnKnown, ColumnIsAsked
    <3>5. QED
      BY <3>3, <3>4
  <2>3. QED
    BY <1>1, <1>4, <2>1, <2>2 DEF ResultStep, ExecuteQuery, NextFirst, NextLater
<1>5. ASSUME NEW c \in Conn, GetStringFills(c) PROVE ColumnKnown'
  <2>1. /\ filling[c] # NULL /\ buffer.index = filling[c][2]
        /\ filling[c][2] \in Columns
    BY <1>0, <1>5 DEF GetStringFills, ColumnKnown
  <2>2. buffer'.index = buffer.index /\ buffer'.col \in {0, filling[c][2]}
    BY <1>0, <1>5 DEF GetStringFills
  <2>3. \A d \in Conn : filling'[d] = NULL
    BY <1>0, <1>2, <1>5, <2>1 DEF GetStringFills
  <2>4. "column" \notin wrong'
    BY <1>5, <2>2 DEF GetStringFills, Returns
  <2>5. QED
    BY <2>1, <2>2, <2>3, <2>4 DEF ColumnKnown, ColumnIsAsked
<1>6. QED
  BY <1>1, <1>4, <1>5, ConnStepKinds DEF Next, vars, bufferVars

\* In a program whose result sets belong to one thread, getString() of odbc_db.cpp
\* returns the column it is asked for, or the empty text where SQLGetData has failed
\* for it: index, which all result sets of the process share, is never ahead of a
\* fetchBuffer with the text of another column.
THEOREM OneThreadGetsItsColumn ==
  ASSUME OneThread
  PROVE  Spec => []ColumnIsAsked
<1>1. Init => ColumnKnown
  BY DEF Init, ColumnKnown, ColumnIsAsked
<1>2. IInv /\ ColumnKnown /\ [Next]_vars => ColumnKnown'
  BY NextColumn
<1>3. ColumnKnown => ColumnIsAsked
  BY DEF ColumnKnown
<1>4. QED
  BY <1>1, <1>2, <1>3, Invariance, PTL DEF Spec
=============================================================================
