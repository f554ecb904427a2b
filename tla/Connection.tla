----------------------------- MODULE Connection -----------------------------
(***************************************************************************)
(* The reference count every driver's connection object inherits from      *)
(* dbabstract::Connection (src/dbabstract/db.h).  A connection object is   *)
(* born with one reference, duplicate() adds one and release() drops one;  *)
(* the release that reaches zero deletes the object, and the driver's      *)
(* destructor runs inside that same call.                                  *)
(***************************************************************************)
EXTENDS Naturals

CONSTANTS
  Conn,     \* connection objects; the slot of a deleted one is used again
  MaxRef    \* bound: references clients keep on each connection

ASSUME MaxRefAssumption == MaxRef \in [Conn -> Nat \ {0}]

VARIABLE ref    \* ref[c]: the count, 0 when the object does not exist

RefTypeOK == ref \in [Conn -> Nat]

Alive(c) == ref[c] > 0

RefInit == ref = [c \in Conn |-> 0]

Construct(c) == ref[c] = 0 /\ ref' = [ref EXCEPT ![c] = 1]

Duplicate(c) == ref[c] \in 1 .. MaxRef[c] - 1 /\ ref' = [ref EXCEPT ![c] = @ + 1]

\* `delete this` runs in the call of release() that takes the count to zero.
LastRelease(c) == ref[c] = 1

\* Variant: one release() more than there are references.
ReleaseTooOften(c) == ref' = [ref EXCEPT ![c] = @ - 1]

Release(c) == Alive(c) /\ ref' = [ref EXCEPT ![c] = @ - 1]
=============================================================================
