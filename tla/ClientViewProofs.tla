-------------------------- MODULE ClientViewProofs --------------------------
(***************************************************************************)
(* Lemmas of ClientView that the proofs of every driver rest on.           *)
(***************************************************************************)
EXTENDS ClientView, TLAPS

\* What the client of c makes of any call.
Concluded(c) ==
  \/ SawNothing \/ SawSession(c)
  \/ \E sign \in {"result", "error"} : SawFailure(c, sign)
  \/ \E ok \in BOOLEAN : \/ SawResult(c, ok) \/ SawWrite(c, ok) \/ SawBegin(c, ok)
                        \/ SawCommit(c, ok) \/ SawRollback(c, ok)

\* The ledger of the client keeps its types, and a call on c concerns c.
LEMMA ViewType ==
  ASSUME ViewTypeOK, NEW c \in Conn, NEW ok \in BOOLEAN, NEW sign,
         \/ SawNothing \/ SawFailure(c, sign) \/ SawResult(c, ok)
         \/ SawWrite(c, ok) \/ SawBegin(c, ok)
         \/ SawCommit(c, ok) \/ SawRollback(c, ok) \/ SawSession(c)
  PROVE  ViewTypeOK' /\ \A d \in Conn \ {c} : inTx'[d] = inTx[d]
<1>0. acked + told[c] \in Nat /\ acked + 1 \in Nat /\ told[c] + 1 \in Nat
  BY DEF ViewTypeOK
<1>1. CASE SawNothing
  BY <1>1 DEF SawNothing, viewVars, ViewTypeOK
<1>6. ASSUME NEW mark, SawFailure(c, mark)
      PROVE  ViewTypeOK' /\ UNCHANGED inTx
  <2>1. (spoiled[c] \/ (inTx[c] /\ mark \in Heeds)) \in BOOLEAN
    BY DEF ViewTypeOK
  <2>2. QED
    BY <1>6, <2>1 DEF SawFailure, Spoils, ViewTypeOK
<1>2. CASE SawWrite(c, ok)
  BY <1>0, <1>2, <1>6 DEF SawWrite, ViewTypeOK
<1>3. CASE SawBegin(c, ok)
  <2>1. CASE ok
    <3>1. /\ inTx' = [inTx EXCEPT ![c] = TRUE] /\ told' = [told EXCEPT ![c] = 0]
          /\ spoiled' = [spoiled EXCEPT ![c] = FALSE] /\ UNCHANGED acked
      BY <1>3, <2>1 DEF SawBegin
    <3>2. spoiled' \in [Conn -> BOOLEAN] /\ inTx' \in [Conn -> BOOLEAN]
      BY <3>1 DEF ViewTypeOK
    <3>3. told' \in [Conn -> Nat] /\ acked' \in Nat
      BY <3>1 DEF ViewTypeOK
    <3>4. \A d \in Conn \ {c} : inTx'[d] = inTx[d]
      BY <3>1 DEF ViewTypeOK
    <3>5. QED
      BY <3>2, <3>3, <3>4 DEF ViewTypeOK
  <2>2. CASE ~ok
    BY <1>3, <1>6, <2>2 DEF SawBegin
  <2>3. QED
    BY <2>1, <2>2
<1>4. ASSUME NEW durable \in BOOLEAN, SawEnd(c, durable)
      PROVE  ViewTypeOK' /\ \A d \in Conn \ {c} : inTx'[d] = inTx[d]
  BY <1>0, <1>4 DEF SawEnd, ViewTypeOK
<1>5. CASE SawCommit(c, ok) \/ SawRollback(c, ok)
  BY <1>4, <1>5, <1>6 DEF SawCommit, SawRollback
<1>7. CASE SawResult(c, ok)
  BY <1>1, <1>6, <1>7 DEF SawResult
<1>8. CASE SawSession(c)
  BY <1>4, <1>8 DEF SawSession
<1>9. QED
  BY <1>1, <1>2, <1>3, <1>5, <1>6, <1>7, <1>8

\* What the client of another connection concluded stands.
LEMMA ViewElsewhere ==
  ASSUME ViewTypeOK, NEW c \in Conn, Concluded(c)
  PROVE  \A d \in Conn \ {c} :
           inTx'[d] = inTx[d] /\ told'[d] = told[d] /\ spoiled'[d] = spoiled[d]
<1> DEFINE Others == \A d \in Conn \ {c} :
             inTx'[d] = inTx[d] /\ told'[d] = told[d] /\ spoiled'[d] = spoiled[d]
<1>1. CASE SawNothing
  BY <1>1 DEF SawNothing, viewVars
<1>2. ASSUME NEW mark, SawFailure(c, mark) PROVE Others
  BY <1>2 DEF SawFailure, Spoils, ViewTypeOK
<1>3. ASSUME NEW durable, SawEnd(c, durable) PROVE Others
  BY <1>3 DEF SawEnd, ViewTypeOK
<1>4. ASSUME NEW ok \in BOOLEAN, SawResult(c, ok) PROVE Others
  BY <1>1, <1>2, <1>4 DEF SawResult
<1>5. ASSUME NEW ok \in BOOLEAN, SawWrite(c, ok) PROVE Others
  BY <1>2, <1>5 DEF SawWrite, ViewTypeOK
<1>6. ASSUME NEW ok \in BOOLEAN, SawBegin(c, ok) PROVE Others
  BY <1>2, <1>6 DEF SawBegin, ViewTypeOK
<1>7. ASSUME NEW ok \in BOOLEAN, SawCommit(c, ok) \/ SawRollback(c, ok)
      PROVE  Others
  BY <1>2, <1>3, <1>7 DEF SawCommit, SawRollback
<1>8. CASE SawSession(c)
  BY <1>3, <1>8 DEF SawSession
<1>9. QED
  BY <1>1, <1>2, <1>4, <1>5, <1>6, <1>7, <1>8 DEF Concluded
=============================================================================
