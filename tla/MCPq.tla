-------------------------------- MODULE MCPq --------------------------------
(* Instances of Pq for TLC. *)
EXTENDS Pq, TLC

CONSTANTS c1, c2, r1

\* A result set for the first thread; the second only writes.
OnlyOne == r1 :> c1

\* One reference to every connection.
OneRef == [c \in Conn |-> 1]

\* A second reference to the connection that has the result sets.
TwoToFirst == c1 :> 2 @@ c2 :> 1

\* No session differs from another, and no row.
Symmetric == Permutations(Session) \cup Permutations(Row)
=============================================================================
