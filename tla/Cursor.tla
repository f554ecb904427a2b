------------------------------- MODULE Cursor -------------------------------
(***************************************************************************)
(* What dbabstract::ResultSet promises (src/dbabstract/db.h): "a cursor    *)
(* that moves forward only.  Thus, you can iterate through it only once    *)
(* and only from the first row to the last row."  Each driver is compared  *)
(* with this specification under a refinement mapping.                     *)
(***************************************************************************)
EXTENDS Naturals

CONSTANTS
  RS,        \* result sets
  MaxRows,   \* bound: rows of one result
  Faults,    \* TRUE if the database may fail in the middle of a result
  Restarts   \* TRUE if next() may begin again after it returned false, which
             \* is more than the promise: a driver compared with that is once
             \* through the rows in every pass, but not once only

VARIABLES
  phase,   \* phase[r]: "none", "open", or "over" once next() returned false
  row,     \* row[r]: rows next() has shown, the number of the current one
  size     \* size[r]: rows of the result

vars == <<phase, row, size>>

Init ==
  /\ phase = [r \in RS |-> "none"]
  /\ row = [r \in RS |-> 0]
  /\ size = [r \in RS |-> 0]

\* executeQuery() returned r.
Execute(r) ==
  /\ phase[r] = "none"
  /\ phase' = [phase EXCEPT ![r] = "open"]
  /\ \E n \in 0 .. MaxRows : size' = [size EXCEPT ![r] = n]
  /\ UNCHANGED row

\* next() returned true: the row after the current one, never another.
Advance(r) ==
  /\ phase[r] = "open"
  /\ row[r] < size[r]
  /\ row' = [row EXCEPT ![r] = @ + 1]
  /\ UNCHANGED <<phase, size>>

\* next() returned false: every row was shown, or the database failed.
Finish(r) ==
  /\ phase[r] = "open"
  /\ row[r] = size[r] \/ Faults
  /\ phase' = [phase EXCEPT ![r] = "over"]
  /\ UNCHANGED <<row, size>>

\* next() returned true all the same: the first row again.
Again(r) ==
  /\ Restarts
  /\ phase[r] = "over" /\ size[r] > 0
  /\ phase' = [phase EXCEPT ![r] = "open"]
  /\ row' = [row EXCEPT ![r] = 1]
  /\ UNCHANGED size

Close(r) ==
  /\ phase[r] # "none"
  /\ phase' = [phase EXCEPT ![r] = "none"]
  /\ row' = [row EXCEPT ![r] = 0]
  /\ size' = [size EXCEPT ![r] = 0]

Next ==
  \E r \in RS : Execute(r) \/ Advance(r) \/ Finish(r) \/ Again(r) \/ Close(r)

Spec == Init /\ [][Next]_vars
=============================================================================
