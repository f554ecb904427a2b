------------------------------- MODULE MCOdbc -------------------------------
(* Instances of Odbc for TLC. *)
EXTENDS Odbc, TLC

CONSTANTS c1, c2, r1, r2

\* Two result sets in the first thread.
BothInOne == r1 :> c1 @@ r2 :> c1

\* Two threads, each with a connection and a result set of its own.
OneEach == r1 :> c1 @@ r2 :> c2

\* A second reference to any connection.
TwoRefs == [c \in Conn |-> 2]

\* No access differs from another, and no result set of one thread.
Symmetric == Permutations(Access) \cup Permutations(RS)
=============================================================================
