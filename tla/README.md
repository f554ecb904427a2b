# A formal model of dbabstract

dbabstract is a C++ library that gives programs one interface to four databases:
`src/dbabstract/db.h` declares the abstract classes `Connection` and
`ResultSet`, and each of the directories `sqlite3`, `pq`, `mysql` and `odbc`
holds a driver that implements them over a C client library. This directory
holds TLA+ modules that model the drivers, TLC configurations that check them on
small instances, and TLAPS proofs about them.

The library has no threads of its own, no files and no protocol. What makes it
hard is what it promises over four libraries that differ: threads of the program
that meet in the database's locks, calls in an order nobody tested, failures
half way through an operation, and return values from which a client has to work
out what became of its transaction.

## Inventory

| Component | State | Operations | Talks to |
|---|---|---|---|
| `Connection` base (`db.h:97-310`) | `ref` | constructor, `duplicate`, `release`; the last `release` deletes the object inside the call | the driver's destructor |
| `ResultSet` contract (`db.h:39-82`) | none | `next`, `close`, getters | implemented four times |
| SQLite driver (`sqlite3/`) | `db_`; `res_` of each result set | open, close, execute, executeQuery, transactions, mode; `next` and `close` loop around `sqlite3_step` | one database file and its lock |
| PostgreSQL driver (`pq/`) | `pgconn_`; `res_`, `row_` | the same; a result is complete in the client before `executeQuery` returns | a server process per connection, row locks |
| MySQL driver (`mysql/`) | `mysql_`; `res_`, `row_` | the same; rows are read from the server one by one | a server, row locks, autocommit |
| ODBC driver (`odbc/`) | `henv`, `hdbc`, `hstmt`, `connected`; `hstmt`, `record`; static buffers | the same, all over one statement handle per connection | driver manager and data source |
| Field conversions, `escape`, `unixtimeToSql` | none of their own, but for the static buffers of `getString` (ODBC) and `version` | `findColumn`, the getters, and the functions that write a text or an instant as a literal | the clients |
| Factory (`db.h:253-293`) | the loader's | `factory`: dlopen, dlsym | the drivers |
| Stream manipulators (`db.h`) | none | `qstr`, `unixtime` | `escape`, `unixtimeToSql` |

How they interact: a client thread gets a connection from the factory, calls it,
and gets result sets from `executeQuery`. A result set keeps the statement or
the result of its connection, not a reference to the `Connection`; nothing in
the library relates their lifetimes. `db.h:90-95` allows a connection to be used
in one thread only and many connections in many threads. So calls on one
connection never overlap, and threads meet in the database.

What is hard, and what makes each component correct:

- *Lifetime.* Every native handle is owned by exactly one object that can still
  give it back; no statement outlives its handle. (`NoOrphan`, `HandleUnshared`,
  `StmtHandleOpen`, `CursorOwned`)
- *Transactions.* What the return values tell a client is what happened, even
  when a statement, an answer or the server is lost. (`ViewIsTrue`,
  `AckedDurable`, `QuietHoldsNothing`)
- *Cursors.* A result set goes forward only, once, from the first row to the
  last, and not on after its end. (`CursorContract`, `CursorPasses`, `EffectOnce`)
- *Blocking.* A call that polls for a lock ends when the lock is free; a
  connection that a result blocks can be unblocked; while calls poll, somebody
  who can let go holds a lock. (`PollEnds`, `InSyncAgain`, `HolderIsFree`)
- *Values.* A getter returns a value of the column it was asked for, in the
  current row (`ColumnIsAsked`, `ValueIsCurrent`). What a client writes through
  a literal is what the getters return later, with all four drivers
  (`LiteralsReadBack`, `LiteralFits`, `ReadsBack`).

## Modules

| Module | What it is |
|---|---|
| `Connection` | the reference count all drivers inherit |
| `ClientView` | EXTENDS `Connection`; bookkeeping of a client: what it may conclude from return values alone. It guards one thing clients do: they do not commit a transaction they have seen fail. `Heeds` says what they take for a failure: nothing, a "result" that is false or zero, an "error" that only `errormsg` tells of. The result of any call counts, a failed `commitTrans` included: who heeds it does not ask for the commit again |
| `Cursor` | abstract specification of a result set, from the comments of `db.h`. `Restarts` weakens it: a result set may be gone through again after `next` has returned false |
| `SqliteLib`, `Sqlite3` | the library (external) and the driver over it |
| `PqLib`, `Pq` | libpq and the server (external), and the driver |
| `MysqlLib`, `Mysql` | the client library and the server (external), and the driver |
| `OdbcLib`, `Odbc` | driver manager and data source (external), and the driver |
| `ClientViewProofs` | lemmas about the client's bookkeeping that the proofs of all drivers cite |
| `Sqlite3Proofs`, `PqProofs`, `MysqlProofs`, `OdbcProofs` | theorems and proofs about the drivers |
| `FoldLemmas` | what a fold computes for sequences of every length, for any turn of the loop; taken by INSTANCE |
| `FieldsProofs`, `ValuesProofs` | theorems and proofs about the conversions, and about the way of a row |
| `CLibrary`, `SqlReader` | external: `atoi`, `mktime`, `gmtime_r`, `strftime` over texts that are sequences of character codes; the scanner that reads the values of an INSERT, and the text form of what is stored |
| `Fields` | the conversions the four drivers write out alike: positions of a timestamp, truth, literals of instants, the search for a column |
| `Sqlite3Fields`, `PqFields`, `MysqlFields`, `OdbcFields` | `FindColumn`, the getters (`Get`, by name), `Escape`, its buffer (`Room`) and `UnixtimeToSql` of a driver |
| `Values` | composes these: a client writes a row through literals, the server stores it, the client finds the columns and reads them |
| `MCSqlite3`, `MCPq`, `MCMysql`, `MCOdbc`, `MCValues` | instances for TLC: which thread uses which result set, the values written, and the symmetries |

Every driver module EXTENDS `ClientView` and its library module and contains
`Contract == INSTANCE Cursor WITH Restarts <- FALSE, phase <- ..., row <- ..., size <- ...`. The
variables of a driver are the fields of its two classes, under their names in the
source where there is one (`db_`, `pgconn_`, `mysql_`, `henv`, `hdbc`, `hstmt`,
`connected`, `row_`); an action is one operation:

| Code | Action |
|---|---|
| constructor in `create_connection` | `CreateConnection` |
| `duplicate`, `release` and the destructor | `DuplicateConnection`, `ReleaseConnection` |
| `open`, `close` | `Open`, `Close` |
| `execute` of a write, of a SELECT | `Execute` (SQLite: `ExecuteWrite`), `ExecuteSelect` (SQLite: `ExecuteRead`) |
| `beginTrans`, `commitTrans`, `rollbackTrans`, `setTransactionMode` | actions of the same names |
| `executeQuery` | `ExecuteQuery` |
| `next`, `close` of a result set | SQLite: `CallNext`/`NextStep` and `CallClose`/`CloseStep`/`Finalize`, for these loop; PostgreSQL: `ResultNext`, `ResultClose`; MySQL: `NextRow`, `NextEnd`, `ResultClose`; ODBC: `NextFirst`, `NextLater`, `ResultClose` |
| `tables` | ODBC: `Tables`; in the other drivers the composition of `ExecuteQuery`, `next` and `close` |
| getters | ODBC: `GetString` and `GetStringFills`, in which all of them begin; in the other drivers they change no state. What they compute is `Get` of the `Fields` modules |
| `escape`, `unixtimeToSql`, through `qstr` and `unixtime` | `PutString` and `PutTime` of `Values` |

*Grain.* A call on a connection is one action if nothing of another thread can
come between its parts and be noticed. In SQLite the loops of `next` and `close`
release control between two calls of `sqlite3_step`, so each turn is an action.
In PostgreSQL a write that waits for a row lock is two (`Execute`, and
`ExecuteReturns` when the lock is had, a deadlock is detected or the answer is
lost), because who waits for whom decides who becomes the victim. In MySQL the
wait is not a state: a write is enabled when it can succeed, time out, or lose a
deadlock. In ODBC waits are left out.
`getString` of ODBC is two actions, for its buffer belongs to all threads: the
static index is set in the first and the buffer filled in the second. A thread
inside the call does nothing else.

*Data.* A row, a handle and a session are model values. What a statement writes
is counted, per transaction (`work`, `dirty`) and in the database (`committed`).
SQL text, column values and error messages are left out there; the `Values`
module has them, and none of the rest. Its texts are short sequences over the
characters that literals treat specially and one they do not; its instants go
through the calendar.

The operators named "Variant" are plausible mistakes in the code. No
specification uses them; they are there to show that the properties can fail.

## Runs

In all runs client threads call the operations in any order. The restrictions on
that are the constants `Reopens`, `DropsEarly`, `Nests`, `Mixes`, `Overlaps` and
`QueryKinds`, each FALSE (or "read" alone) where the run assumes a client that
keeps to the rule, and `Heeds`. In the MySQL and ODBC modules clients also finish with their
result sets before they close the connection, for what happens otherwise is a
use of freed memory and has no meaning to model.

| Run | Instance | Question and answer |
|---|---|---|
| `sqlite3_core` | 2 connections, 2 result sets of up to 2 rows in one thread, 3 handles, 2 writes, a library that restarts halted statements | with well-behaved clients, is what the calls return the true state of transactions and data (`ViewIsTrue`), has every open handle an owner (`NoOrphan`), do quiet clients block nobody? Does `next` go through the rows in order and end at the last (`CursorPasses`)? Yes, with every interleaving of polling calls |
| `sqlite3_wild` | 2 connections, 1 result set, 3 handles, faults, clients that open twice and drop connections early | do statements stay on open handles, handles unshared, acknowledged writes in the database? Yes |
| `sqlite3_live` | 2 threads with a result set each, reads and writes in `executeQuery`, a library that restarts halted statements | do `next` and `close` end? Yes, unless locks of others keep coming up against them; a standoff does not happen (`HolderIsFree`). Does a write take effect once at most until `next` has returned false? Yes (`EffectOnce`) |
| `sqlite3_again` | the same, reads only | violated: the `next` after the one that returned false shows the first row again, where `db.h:40-42` promises one iteration |
| `pq_faults` | 2 connections, 2 rows to lock, faults, a server that goes down and comes back, a COMMIT that is refused, clients that heed errors and results | nothing a client was told is committed is lost; a client that knows of no transaction locks nothing; every session has an owner; `Cursor` is implemented without failures of its own: holds |
| `pq_aborted` | the same, clients that heed results | violated: a failed query comes back as a result set, and after it `commitTrans` returns true for writes that were rolled back |
| `mysql_core` | 2 connections, 2 result sets in one thread, 2 rows to lock, faults, clients that heed results | nothing acknowledged is lost, quiet clients lock nothing, every MYSQL has an owner, a blocked connection can be unblocked, `Cursor` is implemented: holds |
| `odbc_core` | 1 connection with 2 result sets, 2 rows, 2 columns, faults at every stage of `open`, in statements and in `SQLGetData`, a client that heeds results | handles are owned and given back in a working order; transactions, acknowledged writes and cursors are as reported; one thread never gets the text of a column it did not ask for: holds |
| `odbc_rows` | 2 connections, without faults | violated: the second `next` returns false however many rows there are |
| `odbc_stale` | the same, two columns to read | violated: `getString` returns for a result set what it fetched for an earlier one |
| `odbc_threads` | 2 threads with a result set each, two columns | violated: a thread takes the buffer before the other has filled it, with the value of another column |
| `values_core` | rows of two columns: 21 texts, 7 instants, 7 numbers, truth values, nothing; all drivers, both layouts of timestamps, four headings, three contents of fresh memory, an ODBC data source that gives backslashes a meaning | statements of sound literals are read by the server as they were meant, literals fit their buffers, and getters return what was written: holds |

*Bounds.* `MaxRef` bounds the references of each connection, `MaxRows` the rows of a
query, `MaxWrites` the writes asked for, `MaxWork` those of one transaction.
Two connections are enough for every conflict the drivers can meet: a lock is
held by one and wanted by another, and no driver keeps state shared by more. A
deadlock takes two transactions and two rows. Two result sets are enough for one
to disturb another; two rows tell the first, the next and the last apart. One
reference more than the first shows a release that is not the last; `sqlite3_core`,
`pq_faults` and `mysql_core` give it to the connection that has the result sets. Handles
exceed connections by one where `open` may lose one. Three handles, two
connections and a lost one would show sharing. `sqlite3_live` has one row in a
query and one write, for the graph that temporal properties are checked on is
large; `PassesKept` and `EffectsOnce` are proved for all. One connection is enough
for `odbc_core`: locks of other sessions are left out of its library, the
deadlocks they lead to are failures that cost the transaction, and what two
threads do to each other in the static buffer is what `odbc_threads` is for. In `values_core` two
columns suffice, for a literal can only disturb the one behind it; texts of two
characters have every pair that a scanner looks at together, at the start, at
the end and alone. The instants are the epoch and its eve, a leap day, ends of
years, the instant of the tests and one near the end of 32 bits. The memory that
PostgreSQL literals are appended to is empty, has a character, or has more than the
buffer of an empty text; the premise of `LiteralsReadBack` then tells the first from
the others. Standard time is UTC in the run, for `ReadsBack` asks for instants only
there; the theorem `InstantsReadBack` is about all zones.

*Deadlock* is checked in all runs but `values_core`, where a statement that the
server refuses leaves no row to read and the client is done.

*Symmetry* is over handles, rows to lock, and result sets of one thread, which no
definition distinguishes; the liveness run uses none.

*Fairness* is assumed in one run. `LiveSpec` of `Sqlite3` has weak fairness of
`NextStep`, `CloseStep` and `Finalize`: a thread that is inside a call keeps
running, which is what an operating system gives it, and the loops have no other
exit. Nothing is assumed of clients: they may never call again. `PollEnds` says
that a call ends if from some time on its next turn no longer finds a lock in its
way. Without that premise it would be false: two threads that hold what the other
needs poll for ever.

## What is proved

TLAPS checks these for every value of the constants that meets the named
assumptions of the modules (distinct `NULL`, natural bounds, Boolean switches):
any number of connections, result sets, handles, rows.

*SQLite* (`Sqlite3Proofs`): `TypeCorrect`, `StatementsOnOpenHandles` and
`HandlesUnshared`, for all clients, also those that open twice or drop
connections early, and a library that may fail. The invariant is

    IInv == TypeOK /\ CallOnExisting /\ StmtHandleOpen /\ HandleUnshared

None of its parts is inductive alone. That `sqlite3_close` does not free a handle
with a statement on it is the reason for `StmtHandleOpen`; a reopened connection
must not get a handle some other connection has, which is `HandleUnshared`; and a
turn of a loop is only a step on a statement because a call runs on result sets
that exist, which is `CallOnExisting`. The lemmas give the type of each library
call (`StepType`, `ExecType`, `HandleType`, `StatementType`) and what it leaves
alone (`ExecFrame`, `StepFrame`); `ResultStepIInv` and `ConnStepIInv` have a step
per action.

*SQLite cursors*: `PassesKept`, the refinement of `Cursor`, and `EffectsOnce`, both
for libraries that restart a halted statement and for those that do not. In the
refinement `Restarts` is `AutoReset`: without automatic reset it is the promise of
`db.h`, with it the promise of each pass, and `sqlite3_again` shows that no more is
true. `EffectsOnce` says of a write given to `executeQuery` that it has run once at
most as long as `next` has not returned false. The invariant adds to `IInv` for each
result set how the state of its statement, the rows shown, and whether the last
`next` returned false go together.

*SQLite transactions and locks*. Two theorems have no
premise at all: `AcknowledgedIsDurable` and `QuietConnectionsHoldNothing` hold for
careless clients, a library that fails and rolls transactions back, connections
opened twice or dropped early, and writes given to `executeQuery`. (The runs check
`QuietHoldsNothing` under more than it needs.) COMMIT without a transaction is an
error in SQLite, so a client cannot be told true for a transaction that is gone.
The strengthening of `IInv` is

    LInv == Settled /\ DeadHoldNone /\ StmtOfThread /\ OverHalted

with `Settled` saying what a lock is held for: a transaction, or a statement in the
middle of its rows. `StmtOfThread` (a statement on the handle of a connection is
one of its own thread) and `OverHalted` (a result set whose `next` returned false is
not in the middle of its rows) lead from there to a quiet client. `LedgerTrue`
relates what clients were told to what the database has.

`ClientsSeeTheTruth` is `ViewIsTrue`, the exact state instead of a bound; it needs
a library that does not fail (a rollback it makes itself is one the client does
not learn of) and writes that go through `execute`. `HandlesHaveOwners` assumes
`~Reopens` and `~DropsEarly`. `NoStandoff` is `HolderIsFree` where a thread uses
one result set at a time, with reads and writes in `executeQuery`;
`HolderDoesNotPoll` has the reason: a thread that holds RESERVED finds nothing in
its way, and one that holds SHARED waits only while somebody holds more.
`ReadersNeverStandOff` is the same for any number of result sets per thread, with
queries that only read; the observations name the combination that is left, where
a standoff does happen.

*PostgreSQL* (`PqProofs`): `TypeCorrect`, `QuietConnectionsHoldNothing`,
`CarefulClientsKeepTheirWrites`, `SessionsHaveOwners` and `CursorKept`. The
invariant is

    IInv == TypeOK /\ SessionUnshared /\ LocksInTransaction /\ ViewCovers

`QuietHoldsNothing` follows from the last two: a session that holds a row lock is
in a transaction, and a client whose session is in a transaction knows it. The
latter survives lost answers because the driver reports an end only after it saw
the server's answer; sessions must be unshared, or the end one client knows of
would be the end of another's transaction.

`CarefulClientsKeepTheirWrites` is durability, `AckedDurable`, under the premise
that clients heed both signs of failure, `{"result", "error"} \subseteq Heeds`
(run `pq_aborted` shows that the result alone is not enough). `AckedDurable` is not
inductive: what commits now was counted before. The strengthening is `LedgerTrue`:
a client whose session is up, which believes in a transaction and has seen no
failure in it, has counted no more writes than the transaction has, and the
transaction is not aborted. A COMMIT that the server refuses while the session stays
up (a deferred constraint, a conflict of serializable transactions) is such a failure:
the transaction is gone, a second END would be a COMMAND_OK, and the client that heeds
the false of the first does not send it. Each kind of answer has a lemma (`BeginCovers`,
`EndCovers`, `RollbackCovers`, `WriteCovers`, `SuccessCovers`, `FailureCovers`),
and `SparedCovered` says that the calls of one client do not disturb what covers
another. A nested `beginTrans` is within the theorem: what was counted before it
is forgotten, which is safe. `SessionsHaveOwners` assumes `~Reopens`; `NoOrphan` is
inductive relative to `IInv`, since only an unshared session is ended by `close()`.

*MySQL* (`MysqlProofs`): `TypeCorrect`, `QuietConnectionsHoldNothing`,
`CarefulClientsKeepTheirWrites`, `HandlesHaveOwners`, `OutOfSyncEnds` and
`CursorKept`. The invariant is

    IInv == TypeOK /\ HandleUnshared /\ LocksInTransaction /\ ResultsOnHandle

`ResultsOnHandle` ties a result set that still reads to the MYSQL it blocks; it is
why `close` of the driver never frees a MYSQL somebody fetches from, and from it
`OutOfSyncEnds` follows. The two theorems about transactions assume `~Mixes`: with
autocommit off, a write outside a transaction is one nobody ends. Durability needs
`"result" \in Heeds` alone, where PostgreSQL needs both signs: a failed query of
MySQL does not come back as a result set. Their strengthenings are
`TransactionKnown` and `LedgerTrue`, laid out as in `PqProofs`; a nested `beginTrans`,
which commits what was open, is within both.

*ODBC* (`OdbcProofs`): `TypeCorrect`, `CursorsHaveOwners`, `HandlesHaveOwners`,
`QuietConnectionsHoldNothing`, `CarefulClientsKeepTheirWrites` and
`OneThreadGetsItsColumn`. The invariant is

    IInv == TypeOK /\ NothingOutlives /\ AtFirstRow /\ FillingReads

`HandlesHaveOwners` needs to know what each stage of `open` leaves (`Owned`): the
handles a connection knows are the handles there are, each allocated from the
one before it, and no two connections know the same; then `close` gives back all
of them, in an order that works (`LeftNothing`, `LeftAlone`). The theorems about
transactions assume `~Reopens`, for a session that is lost is never connected again
then. `CarefulClientsKeepTheirWrites` assumes `"result" \in Heeds` beside: a data
source that breaks a deadlock, or refuses a COMMIT, drops the transaction with the
session up, and the next COMMIT is true. `OneThreadGetsItsColumn` assumes one thread,
and `odbc_threads` shows that it must; what it gives is the column asked for or the
empty text of a `SQLGetData` that failed, never the text of another column.

*Values* (`FoldLemmas`, `FieldsProofs`, `ValuesProofs`): `LiteralsFit`,
`LiteralsAreReadBack` and `ValuesReadBack` are the three properties of the run, for
texts of every length over every character, numbers of up to five digits (the
assumption on `Numbers`, for which `Decimal` is defined), and instants of the years
1000 to 9999. What the escaping functions and the scanner of a server do is a fold
over a text. The induction theorems of the library take an operator as parameter,
which the provers cannot instantiate; `FoldLemmas` has induction in the form of sets
instead (`NaturalsBySuccessor`, `SequencesByAppend`, from the well-foundedness of <),
shows that a fold is what its turns iterate to, and has `FoldedEmpty` and
`FoldedAppend`: what a fold gives for the empty text, and for a text with one
character more. From there `StringWrites` is the heart: from every place in a
statement where a value may begin, the server reads what `escape` wrote as that text
and nothing else. `Begins`, `Ends` and `Writes` say where the scanner stands before
and behind a literal. The calendar is `GmTimeFields`; `InstantsReadBack` is what
`getUnixTime` makes of either layout of an instant: the instant less the offset of
local standard time. The invariant is

    ValuesInv == SearchInv /\ Statement /\ RowRight

in which `Statement` relates the statement written so far to the values in it, and
`RowRight` the row to both. The premises are inside the properties: `Sound` literals,
and the getters that fit a value.

`ClientViewProofs` holds what these share: which entries of the ledger a call
writes and that it leaves those of other clients alone (`ViewType`,
`ViewElsewhere`).

What is only model-checked: `PollEnds`, for liveness under fairness is out of the
prover's reach, and `CursorContract` of ODBC, which in `odbc_core` holds with failures
allowed, when a result of one row is a result cut short, and fails in `odbc_rows`
without them. All other properties of the passing runs are theorems.

## Observations

Beside the violated runs, TLC shows the following when the constant named
is changed in a configuration above; there is no run of their own for them.

- *SQLite and automatic reset.* Since 3.6.23.2 the library restarts a halted
  statement, and the library of the platform the repository is built on does.
  `sqlite3_again` shows what comes of it in `next`. In `close` a write given to
  `executeQuery` whose `next` has returned false takes effect once more, for `close`
  steps the statement to its end whatever happened before (`sqlite3_db.cpp:48`):
  `EffectOnce` without its `~over[r]` is violated. A client that does not call
  `next` for a write is safe.
- *SQLite, two threads with two result sets each*: one still reads a result in
  each thread, and steps a write through the other. Each write waits for the
  other thread's SHARED lock, and `next` polls for ever (`HolderIsFree`).
- *`Reopens = TRUE`*, all drivers: `open` on an open connection overwrites the
  handle, which keeps its session and its locks (`NoOrphan`). In MySQL a retry
  after a failed `open` is enough: `mysql_init` overwrites the MYSQL of the first
  try, whose session may be up (`mysql_db.cpp:197`, `213`), against `db.h:85-88`.
- *`Heeds = {}`*, PostgreSQL, MySQL and ODBC: a client that commits after a statement
  failed loses writes `commitTrans` said are in the database. The server of
  PostgreSQL answers END of an aborted transaction with a COMMAND_OK; that of
  MySQL has no transaction left to commit after a deadlock, also behind ODBC
  (`AckedDurable`). The same holds of a client that repeats a `commitTrans` that
  returned false: PostgreSQL has rolled a refused transaction back, and END outside
  of a transaction succeeds (`pq_db.cpp:305-311`).
- *Fresh memory.* `escape` of PostgreSQL appends to memory it has not terminated
  (`pq_db.cpp:260-262`). What it holds stands before the literal, the literal is cut
  behind its length, and the whole may run past the end of the buffer. `Clean` is the
  premise that the memory begins with a NUL; `LiteralsReadBack` without it is violated.
- *Backslashes in ODBC.* `escape` of ODBC doubles quotes only, whatever the
  data source. One that gives backslashes a meaning, like the MySQL server its
  tests use (`odbc_tests.cpp:35`), reads a text with a backslash otherwise. `Plain` is
  the premise that there is none; `LiteralsReadBack` without it is violated.
- *`Zone # 0`.* `unixtimeToSql` writes an instant in UTC and `getUnixTime` reads it as
  local time: it returns the instant less the offset of local standard time
  (`InstantsReadBack`), in all four drivers. `ReadsBack` without its `Zone = 0` is
  violated there.
- *Columns without a value.* `getInteger`, `getDouble`, `getFloat`, `getLong` and
  `getShort` of SQLite give the null pointer of such a column to `atoi`, `strtod`,
  `atof` or `atol` (`sqlite3_db.cpp:109`, `189`), and `getInteger` of MySQL does
  (`mysql_db.cpp:101`), where `db.h:57-58` says that they return ZERO; `getString` of
  PostgreSQL and ODBC returns an empty text where it says NULL. `ReadsBack` is about
  `getBool` and `getUnixTime` of such columns, which agree.
- *ODBC columns.* `findColumn` and the getters of ODBC count columns from one, the
  other drivers from zero, as `db.h:47` says: a client that writes an index down gets
  another column with another driver. `ReadsBack` uses the index that was found.
- *ODBC, a failing `SQLGetData`.* `getString` returns an empty text, and as `index` was
  set before, the next call of that column is served the empty text without another
  try (`odbc_db.cpp:145-164`).
- *MySQL, `Mixes = TRUE`*: `beginTrans` turns autocommit off and nothing turns it
  on again (`mysql_db.cpp:296`), so a later write outside a transaction is
  accepted, keeps its row locked, and is lost at `close` (`QuietHoldsNothing`).
  The same happens if BEGIN fails after the SET.
- *ODBC, `Overlaps = TRUE`*: all result sets share a statement handle. Closing an
  old one closes the cursor of a newer, and one that has not been read yet then
  shows the rows of the next query (`CursorContract`). `tables` eats the rows of a
  result set that is open.

From the code alone: `setTransactionMode` of the SQLite driver executes
`PRAGMA read_uncommitted = true` for READ_COMMITTED and REPEATABLE_READ too
(`sqlite3_db.cpp:325-334`), where `db.h:215` gives dirty reads to READ_UNCOMMITTED;
`executeQuery` of the PostgreSQL driver drops
the result of a command without `PQclear` (`pq_db.cpp:248`), and its `errorno`
is the status of the connection, which a failed query leaves at zero; `execute` of a
SELECT in MySQL and ODBC leaves a result that blocks the connection, against
`db.h:138-139`; `isConnected` is constantly true in ODBC, true in PostgreSQL
whenever the server answers anybody, and false in MySQL while a result is unread.

## Not modelled

- *`exit` in `ODBC_Errors`*: the program ends, every server rolls back.
- *The factory* (`db.h:253-293`): dlopen, dlsym and one call through a pointer.
  It has no state but the loader's, and each connection of the models is one it
  returned.
- *Parts of conversions*: fractions, exponents and overflow in the texts of
  numbers, years beyond the integers of TLC, and texts that have a hyphen and are
  shorter than a timestamp, for which `TimeOf` is UNDEFINED as the code reads
  behind them.
- *Ends that leave nothing to model*: `tables` of MySQL when
  `mysql_list_tables` fails (`mysql_db.cpp:375`, a null pointer), the handle that
  a failed `sqlite3_open` leaves (`sqlite3_db.cpp:208`; "broken" in the model,
  with nobody to close it).
- *Memory of the client* (`PGresult`, strings callers must free).
- *Isolation levels in MySQL and ODBC*; schema changes, shared cache and WAL in
  SQLite; what a statement computes.
- *Vendored gtest, the tests and the build files.* The tests were read for how
  clients use the interface.

In lines, most of the repository is the vendored gtest, which is none of the
program's own; of the four drivers and `db.h` what is left is what this list names.

## Plan

1. `Connection`, `ClientView`, `Cursor`: shared by all. Done.
2. `SqliteLib`, `Sqlite3`: the driver with loops that interleave. Runs, invariant
   proofs, cursor refinement proof. Done.
3. `PqLib`, `Pq`: server sessions, locks, deadlock victims, crashes. Runs and
   proofs. Done.
4. `MysqlLib`, `Mysql` and `OdbcLib`, `Odbc`. Runs and proofs. Done.
5. The static buffer of `getString` under two threads. Done.
6. `Fields`, the four modules over it and `Values`. Done.
7. Clients that give up a transaction when they have seen a failure. Runs and proofs.
   Done.
8. Theorems for `Mysql` and `Odbc`. Done.
9. `ViewIsTrue`, `AckedDurable`, `QuietHoldsNothing`, `NoOrphan` and `HolderIsFree` of
   `Sqlite3`, `NoOrphan` of `Pq`, as theorems. Done.
10. `LiteralsReadBack`, `LiteralFits` and `ReadsBack` of `Values`, as theorems for
    texts of every length. Done.
11. Not begun: `errorno` and `errormsg` as state that a later call overwrites, with
    a client that reads them late; `PollEnds` on larger instances.
