------------------------------ MODULE MCMysql ------------------------------
(* Instances of Mysql for TLC. *)
EXTENDS Mysql, TLC

CONSTANTS c1, c2, r1, r2

\* The first thread reads and writes, the second only writes.
OnlyOne == r1 :> c1

\* Two results in one thread: the first must be read to its end before the
\* second is asked for.
BothInOne == r1 :> c1 @@ r2 :> c1

\* A second reference to the connection that has the result sets.
TwoToFirst == c1 :> 2 @@ c2 :> 1

\* No MYSQL differs from another, no row, and no result set of one thread.
Symmetric == Permutations(Mysql) \cup Permutations(Row) \cup Permutations(RS)
=============================================================================
