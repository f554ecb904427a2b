----------------------------- MODULE MCSqlite3 ------------------------------
(* Instances of Sqlite3 for TLC. *)
EXTENDS Sqlite3, TLC

CONSTANTS c1, c2, r1, r2

\* Two threads, each with a connection and a result set of its own.
OneEach == r1 :> c1 @@ r2 :> c2

\* One thread with two result sets.
TwoOfOne == r1 :> c1 @@ r2 :> c1

\* A thread with one result set, beside a thread that reads through none.
OnlyOne == r1 :> c1

\* One reference to every connection.
OneRef == [c \in Conn |-> 1]

\* A second reference to the connection that has the result sets.
TwoToFirst == c1 :> 2 @@ c2 :> 1

\* Which of the free handles sqlite3_open returns makes no difference.
HandleSymmetry == Permutations(Handle)
=============================================================================
