# Models of node-rusqlite

node-rusqlite gives JavaScript programs a SQLite connection: napi-rs classes
(`src/src/*.rs`) around a vendored rusqlite (`src/crates/rusqlite/src`), which
drives the SQLite amalgamation (`src/crates/rusqlite/libsqlite3-sys`).  This
directory holds TLA+ models of the parts where order, failure and object
lifetimes decide whether data is right, TLC instances that check them, and
proofs that TLAPS checks for every instance.

## The system

| Part | State | Operations | How it meets the others |
|---|---|---|---|
| Connection (`connection.rs`, rusqlite `lib.rs`) | the `sqlite3*`, the default transaction behavior | open, `execute`, `executeBatch`, `queryRow`, `queryOne`, `prepare`, `transaction`, `savepoint`, pragmas, metadata, close in the finalizer | everything below works on its `sqlite3*` |
| Transaction handle (`transaction.rs`) | `finished`, `drop_behavior`, and a reference to the connection | `commit`, `rollback`, `dispose`, `setDropBehavior`, `execute...`, finalizer | sends `BEGIN`, `COMMIT`, `ROLLBACK`; does not own the connection exclusively (`new_unchecked`) |
| Savepoint call (`connection.rs:1060`, rusqlite `transaction.rs`) | name, `committed` | `SAVEPOINT`, the callback, then `RELEASE` or `ROLLBACK TO` and `RELEASE` | the callback may call anything |
| Transaction engine (`sqlite3.c`) | `autoCommit`, the savepoint list, locks, deferred foreign keys, journal | `OP_AutoCommit`, `OP_Savepoint`, `OP_Transaction`, `sqlite3VdbeHalt` | locks are shared with other processes |
| Prepared statement (`statement.rs`, `row.rs`) | bound parameters, run state of the virtual machine | bind, step, reset, finalize behind `execute`, `insert`, `query`, `exists`, `queryRow`, `queryOne` | a halt commits in autocommit mode |
| Interrupt handle | `isInterrupted` of the connection | `interrupt` | read by running statements |
| Unlock notification (`unlock_notify.rs`, `notify.c`) | table locks of the shared cache, the list of blocked connections, a flag and a condition variable per blocked call | register, wait, tell the waiters | blocks a thread until another connection's transaction ends |
| Statement cache (`cache.rs`) | LRU of idle statements | get, put, flush | not used by the binding |

JavaScript has one thread: a call into the binding runs to its end.  A worker
has a thread of its own, and connections of several workers may share one cache
(`file:...?cache=shared`): the only place where native code of two threads
meets.  What is hard is everything that can come between two calls, and everything that can go
wrong inside one:

* finalizers: the garbage collector ends forgotten transactions later, in any
  order, and asks only whether the connection is in a transaction;
* callbacks: a savepoint call is cut in two by a callback that may commit, roll
  back or open savepoints itself, and all unnamed savepoints share one name;
* failure of the second half: a `COMMIT`, `RELEASE`, cursor reset or statement
  halt fails after the first part of the call worked, and some code drops the error;
* errors that roll the whole transaction back inside SQLite while the handle's
  `finished` flag knows nothing of it;
* busy files, which make every lock and commit fail and succeed later;
* process exit, after which only committed rows may be found;
* threads that wait for each other's table locks: between finding the lock
  taken, asking to be told, and going to sleep, the other side may finish, close
  or come to wait in turn.

What each part must guarantee: a handle ends its own transaction and no other;
rows become durable when their transaction commits, all of them, never before,
and never disappear afterwards; a statement in which SQLite fails has done
nothing, and when `execute()`, `insert()` or `queryOne()` of an `INSERT` returns,
its row is there; a savepoint call that fails has undone its callback; calls do
not leave statements, parameters, savepoints or interrupts behind that change
the next one; every call ends; a thread that sleeps will be woken, and no two
wait for each other.

That a call throws does not mean that it has done nothing, and the models do not
say so.  The binding throws after the fact when it does not like what a
statement that worked has returned: `execute()` of an `INSERT ... RETURNING`
(a row where none is expected), `queryRow()` and `queryOne()` of a plain
`INSERT`, and `queryRow()` of a `COMMIT` (no row where one is expected) all throw
although the row is committed, and so does `insert()` after an `INSERT OR IGNORE`
that changed nothing, which has done nothing.  Only an error of SQLite inside the
call undoes it (`FailedCallUndone`).

## Modules

| Module | Models |
|---|---|
| `SqliteTxn` | the transaction engine of one connection: each SQL statement is an operator from a connection to its possible results |
| `NodeTransaction` | the state machine of handles, savepoint calls, finalizers and restarts over `SqliteTxn` |
| `StatementCalls` | one call of the statement API, step by step, over `SqliteTxn` |
| `UnlockNotify` | connections of several threads on one shared cache: table locks, `sqlite3_unlock_notify`, the condition variable, finalizers that close connections |
| `AtomicStore` | what a connection promises: committed rows, a view, at most one transaction; both `NodeTransaction` and `StatementCalls` implement it |
| `LockManager` | what table locks and notification promise together: owners that lock, give up, tell and wait; `UnlockNotify` implements it |
| `SqliteTxnProofs`, `NodeTransactionProofs`, `DisciplineProofs`, `SavepointProofs`, `StatementCallsProofs`, `StatementEffectsProofs`, `UnlockNotifyProofs`, `AbstractProofs` | theorems |
| `MCNodeTransaction`, `MCStatementCalls`, `MCUnlockNotify` | sets for the TLC instances; each `.cfg` is one run |

**`SqliteTxn`.**  `Db` is `struct sqlite3`: `disk` is what another process
reads, `view` what this connection reads, `root` is `isTransactionSavepoint`.
A savepoint keeps the rows that `ROLLBACK TO` restores.  Statements may have
several results where the outside world decides: `Faults` says whether a file
may be busy, a commit may fail with an I/O error, and a statement may fail in a
way that rolls the transaction back (`"special"`).  A failing constraint, which
undoes its statement alone, is always possible.  Facts of the code that matter:
`BEGIN IMMEDIATE` takes its lock before it finds a transaction open; a `RELEASE`
of the transaction savepoint that fails with an I/O error leaves the savepoints
over a transaction that is already rolled back (`BrokenRelease`); names are
searched from the newest savepoint.  Locks are kept as far as they decide
whether a commit can be busy; shared locks and readers are not.

**`NodeTransaction`.**  One action per method of `Connection`, `Transaction`
and the savepoint call, named as in the Rust source.  `savepoint_with_name`
enters the callback and pushes a frame; `SavepointReturn` leaves it.  Every
action in between is the callback's.  `finalize` and `Restart` need an empty
frame stack or clear it: no finalizer runs while JavaScript is on the stack.
`finalize_panic` is a Rust panic in a finalizer, which ends the process.  The
history variables say what a user was told: `owner` is the handle whose `BEGIN`
opened the open transaction, `acked[t]` the rows whose insertion for handle `t`
was reported and not undone, `told[t]` how the API said the transaction ended.
A row sent through an open handle counts for it.  One sent through the
connection, or through a handle that is finished (`execute()` does not look at
`finished`), counts for the owner of the transaction it goes to, and for nobody
if there is none.  A transaction that its handle was told to ignore keeps its
owner: it is the one whose rows must not be found committed later.
`TclInCallback` and `RawSql` say what programs may do.

**`StatementCalls`.**  `prepare`, `clear_bindings`, `finalize` and `interrupt`
happen between calls; a call is `StatementCall` or `ConnectionCall` (binding),
then `Step`s, then `Finish` (reset, and the result).  `WantsStep` and `Returns`
are the six functions of the API.  The table has a `CHECK` constraint (rows
outside `Writes`), no duplicates, and a deferred foreign key (`BadWrites`).
SQL is a kind: a query, three kinds of `INSERT`, and transaction statements.

**`UnlockNotify`.**  Threads interleave between the sections that a mutex
protects, so these are the actions: `sqlite3_prepare`, and `sqlite3_step` of a
statement that uses a table, hold the mutex of the shared cache, the three
functions of `notify.c` hold the global one, and `wait_for_unlock_notify` the one
of its condition variable.  `cache` is `struct BtShared` (who has a transaction, which
table locks, the writer, `BTS_PENDING` and `BTS_EXCLUSIVE`); `blocking` and
`unlock` are `pBlockingConnection` and `pUnlockConnection`; `listed` is
`sqlite3BlockedList`; `fired` is the flag of the `UnlockNotification` on the
stack of the call.  A call that finds a lock taken goes `locked` (the statement
is halted), `wait` (registered), `asleep`, and then calls the same SQLite
function again, as `InnerConnection::prepare` and `RawStatement::step` do.
`Unlocked` is a step of its own: the locks are gone before the waiters are told.
What others may do in between depends on the statement.  One that uses a table
keeps the cache's mutex until its waiters are told (place `halting`), and nobody
else prepares, steps or ends a transaction.  `COMMIT` and `ROLLBACK` are compiled
to `OP_AutoCommit` alone, so `sqlite3VdbeEnter` takes no mutex for them: they take
it only to give up the locks (place `resetting`), and others may take the freed
locks, be blocked by the connection that is about to tell, and register with it,
before it tells.  The same holds for `sqlite3_reset` of a statement that rests at
a row, a `SELECT` or the `INSERT ... RETURNING` of a `queryRow()`, which ends its
transaction there.
The feature is on in the binding (`bundled-full` includes `unlock_notify`).
`finalize_connection` closes a connection, or loses it when a prepared statement
is alive (`kept`).

**How they fit.**  `NodeTransaction` takes `execute()` of an `INSERT` as one
step with the results of `SqlInsert`.  `StatementCalls` opens that step up, and
`ExecuteIsSqlInsert` shows that what comes out is one of those results;
`IdleBetweenCalls` shows that no statement is left running, which is why
`NodeTransaction` has no statements (`nVdbeWrite` is 0 whenever `COMMIT` or
`ROLLBACK` runs).  `ImplementsStore` maps `NodeTransaction` to `AtomicStore`
(`committed` is `disk`, `open` is `~ autocommit`), and `StatementCalls`, too,
step by step: there a row that is written but not committed outside a
transaction is not yet in the view (`Seen`).  `LockManager` is the same for
`UnlockNotify`: `access` is the table locks, an owner is `active` from its first
lock until it has told its waiters, and waits for the connection it is
registered with until its flag is set.  `UnlockNotify` abstracts
rows away and has what the other two leave out: several connections.  A call
that waits and is retried there is one that takes longer here, because a
statement that met a table lock has been undone before it waits.

## Runs

| Run | Question | Result |
|---|---|---|
| `txn_disciplined` | two handles that roll back, commit or ignore their transaction when dropped, nested savepoint callbacks that also begin and end transactions, busy file, finalizers, restarts; no transaction SQL as text, no error that rolls a transaction back. Does each handle commit and undo what is its own? (`OpenOwnsTransaction`, `NothingDurableBeforeCommit`, `CommitPersists`, `HandleEndsOwnTransaction`) When a savepoint call outside a transaction throws because its release timed out, is everything as it was? (`FailedSavepointUndone`) | holds |
| `txn_savepoints` | two names, two levels, statements in the callback that roll everything back, deferred foreign keys at the release: is a callback that threw undone exactly, and is no transaction left? (`ThrownSavepointRestores`, `SavepointLeavesNoTransaction`) | holds |
| `txn_any_program` | all faults, all drop behaviors, callbacks that end the transaction around them, and transaction statements as SQL text behind the handle (`EngineInv`, `NoOrphanTransaction`, `CommitsAreFinal`, `ImplementsStore`) | holds |
| `txn_stale_commit` | `CommitPersists` when a statement rolls the transaction back | violated |
| `txn_savepoint_busy` | `SavepointLeavesNoTransaction` on a busy file | violated |
| `stmt_calls` | all calls, parameters, faults and interrupts: are calls independent, is `execute()` atomic (`ExecuteIsSqlInsert`), is nothing left of a call in which SQLite failed (`FailedCallUndone`), is the row there when `execute()`, `insert()` or `queryOne()` of an `INSERT` returns (`ReturnMeansDone`), is each step atomic (`ImplementsStore`), does every call end (`StepsRunOut`, and `CallsEnd`, liveness)? | holds |
| `stmt_lost_row` | does returning mean done for `queryRow` of `INSERT ... RETURNING`? | violated |
| `stmt_query_rows` | does `query()` return every row? | violated |
| `unlock_threads` | three connections, each on a thread, that read, write and begin transactions: do table locks exclude, is every sleeper registered with somebody who has yet to end, is no callback called after its call returned, is there no circle? (`LocksOK`, `NoLostWakeup`, `CallbackArgument`, `NoWaitCycle`); do locks and waits together behave like `LockManager`? | holds |
| `unlock_ends` | two connections, one of which may be closed, lost and opened again: is a freed connection forgotten by all (`ListProperties`), does every wait end (`WaitsEnd`, liveness)? | holds |
| `unlock_same_thread` | does no thread wait for itself when it has two connections? (`ThreadsNotStuck`) | violated |
| `unlock_dropped` | does a connection whose object is gone keep nobody from anything? (`FinalizedHoldsNothing`) | violated |

### What the violated runs show

1. **A handle can act on another handle's transaction.**  `finished` is the
   handle's own idea.  When SQLite rolls a transaction back by itself (disk full,
   `INSERT OR ROLLBACK`), the handle still thinks it is open.  After a second
   `transaction()`, `commit()` on the first handle commits the second one's rows
   and reports success although its own rows are gone (`txn_stale_commit`).
   `rollback()`, `dispose()` and the finalizer act on the wrong transaction in
   the same way: `HandleEndsOwnTransaction` holds in `txn_disciplined` and fails
   with the fault `"special"`.
2. **A busy outermost savepoint stays open.**  `RELEASE` is busy, the savepoint
   is dropped with `ROLLBACK TO` and `RELEASE`, the second `RELEASE` is busy
   too and its error is discarded: the connection is in a transaction that
   nobody holds (`txn_savepoint_busy`).
3. **`queryRow` can return a row that was never committed** (`stmt_lost_row`):
   the reset in `Rows::drop` does the commit and drops its error.
4. **`query` hides errors** (`stmt_query_rows`): a failing step ends the rows.
5. **A thread can wait for itself** (`unlock_same_thread`).  Two connections of
   one JavaScript thread share a cache; one writes in a transaction, the other
   reads the table and sleeps until the first one commits, which only this thread
   could do.  SQLite looks for circles of connections and knows no threads, so it
   does not refuse.
6. **A lost connection keeps its locks** (`unlock_dropped`).  The finalizer's
   `close()` is refused while a prepared statement is alive, the error goes
   nowhere, and nobody can close the `sqlite3` or end its transaction any more.

Three related facts.  `transaction()` without a behavior begins deferred whatever
`setTransactionBehavior` was told (`src/src/connection.rs:1035`), although its
comment says "for future transactions" (line 1127).  `execute` of SQL that counts no changes (`BEGIN`) returns the
count of an earlier statement, which SQLite documents; `ExecuteIsSqlInsert`
checks the count for `INSERT` only.  And the model shows without a run of its own: since every call runs
to its end on the one JavaScript thread, `interrupt()` always comes between two
calls and the next one clears it.  `InterruptDoesNotLeak` holds, and with it no
call is ever interrupted by a handle of the same thread.

### Bounds

* Two handles (one in `txn_any_program`, where SQL text plays the other): all
  the trouble is between the handle that has a transaction and
  one that thinks it has.  Each is used once, which bounds `transaction()`.
* Three rows, one of them violating a deferred foreign key (two in the runs with
  all faults): one row before, one inside and one after a savepoint or commit.
  Every row is inserted by one call (`used`), which bounds `execute`.
* `MaxDepth` 2: a callback inside a callback, with equal and with different
  names, so a name can stand for the wrong savepoint.  `MaxSavepoints` bounds
  savepoints opened as SQL text.
* Symmetry: handles and well-behaved rows are interchangeable; no run with
  symmetry checks liveness.
* Statements: one kept statement and one of the connection, two parameters, two
  values and `NULL`, three good rows; parameter arrays that are empty, short,
  long, with a refused or a `NULL` value.  Statements meet only through the
  connection, and calls do not overlap.
* `UnlockNotify`: three connections, for a circle that is not just a pair and for
  a writer behind several readers, one table and the schema, all of them
  interchangeable.  Two connections for liveness (see below) with every way to
  begin, end and change the schema.  `Dropped` bounds whose finalizer may run: one
  of two, since what matters is what the other still knows of it.

### Fairness

`CallsEnd` assumes weak fairness of `Step` and of `Finish`.  Both are native code
that runs to completion once a call began; nothing can hold them up (a busy
handler gives up after its timeout).  Neither JavaScript's next call nor a
finalizer is assumed ever to come.

`WaitsEnd` assumes that the native part of a call goes on whenever it can again
and again (strong fairness: mutexes starve nobody), and that a program which has
begun a transaction sends `ROLLBACK` some day when its thread is free.  The
latter is about programs, not about this code: without it a waiter waits for a
transaction that its owner keeps open.  A spurious wakeup is never assumed.
`WaitsEnd` gives up when a connection was lost with its locks.  With three
connections it does not hold: `BTS_PENDING`, which keeps new readers out for a
waiting writer, is cleared when the last reader leaves, so readers may come back
before the woken writer retries, again and again.  Hence two.

## Proofs

`NodeTransactionProofs` proves for all handles, rows, names, depths, options and
faults, with raw SQL and callbacks of any kind:

* `TypeCorrect`: `Spec => []TypeOK`;
* `EngineCorrect`: `Spec => []EngineInv`;
* `CommitsFinal`: `Spec => CommitsAreFinal`, no step takes a row off the disk;
* `Released`: `Spec => []NoOrphanTransaction`.

The argument.  `EngineInv` is not a property one would test but what makes
`CommitsAreFinal` inductive.  A rollback restores some snapshot; for it to keep
the committed rows each snapshot must contain them, and for a commit to keep
that true the savepoints must be gone when it happens (`autocommit => d =
Idle(d.disk)`), or be over the same rows (`BrokenRelease`).  That snapshots grow
with their position and stay within `view` is what `ROLLBACK TO` followed by
`RELEASE` preserves.  `SqliteTxnProofs` has one lemma per SQL statement: from an
engine that is `EngineOK`, every result is a `Db`, is `EngineOK`, and has at
least the rows on disk.  `NodeTransactionProofs` lifts them to the compound
calls (`DropSavepoint`, `SavepointCommit`, `SavepointRollback`,
`CommitElseRollback`), then has one lemma per action, and puts them together
into `IInv == TypeOK /\ EngineInv`.  `Released` needs one more idea: a call that
succeeds in ending the transaction leaves no owner (`OkEnds`), so a handle can be
finished or collected and still be the owner only if it was told to ignore the
transaction; and no handle becomes an owner again, because `transaction` needs an
unborn one.

Its last part proves `Implements`: `Spec => ImplementsStore`, again for every
program and fault.  The store allows four steps: rows are taken back
(`TakesBack`), a transaction begins, rows are added, the view is committed.
Each SQL statement is one of them, by the lemmas at the end of
`SqliteTxnProofs`, which `StatementEffectsProofs` uses, too.  A compound call is
several statements and yet one step of the store, because two steps that take
back are one (`TakesBackTrans`), and because a `RELEASE` that commits after a
`ROLLBACK TO` has nothing to commit (`ReleaseAfterRollbackTo`).

`DisciplineProofs` and `SavepointProofs` prove what holds of restricted programs,
as theorems with an assumption on the constants:

* `Disciplined == ~ RawSql /\ Faults \subseteq {"busy"}` for `OpenOwns`,
  `NothingDurable`, `CommitsPersist`, `EndsOwn` and `FailedUndone`;
* `FileObeys == ~ RawSql /\ Faults \subseteq {"special"}` for `ThrownRestores`
  and, without callbacks that end the transaction around them,
  `LeavesNoTransaction`.

`txn_stale_commit` and `txn_savepoint_busy` show that the restrictions are
needed.  The key to both is `Aligned(db, frames)`: the savepoints of the engine
are those of the innermost running calls, in order.  All of them may be gone, if
a callback ended the transaction, but none is there that no call will release,
so `ROLLBACK TO` finds its own although all have the same name.
`DisciplineProofs` adds what the user of a handle may rely on (`HandleOK`): an
open handle owns the transaction, which `BEGIN` opened; the rows reported to it
are in the view and not on disk, on disk once it is told committed, and in
neither once it is told rolled back.  The owner of an ignored transaction has its
rows not on disk, and in the view only while it is the owner: no call can commit
that transaction any more, since only an open handle sends `COMMIT`.
`OuterOK` says that while a savepoint call made outside a transaction runs, its
transaction is open and has exactly the savepoints of this call and of those
inside it.  So when its `RELEASE` fails, `ROLLBACK TO` finds its own savepoint,
whose rows are those on disk (`EngineOK`), and whether the second `RELEASE` fails
or commits, nothing is left of the call (`LastFails`, `FailedUndone`).
`SavepointProofs` adds `Opened`: the transaction of an outermost call is one that
a savepoint opened, with no more savepoints than calls since.

`StatementCallsProofs` proves, for all statements, values, parameter arrays,
kinds of SQL, calls and faults:

* `CallTypeCorrect`: `Spec => []TypeOK`;
* `CallsLeaveNothing`: `Spec => []IdleBetweenCalls`;
* `NoStaleBinding`: `Spec => []BindingsAreParams`;
* `InterruptIsOver`: `Spec => []InterruptDoesNotLeak`;
* `FailureUndone`: `Spec => FailedCallUndone`.

The argument.  During a call the engine may be in a state that `EngineOK`
excludes: `INSERT ... RETURNING` in autocommit mode has written its row and waits
to be halted.  `Haltable` says what such a state is, the lemmas say that each
kind of SQL ends in a sound engine or in a haltable one, and `HaltEnds` that
halting makes it sound again, by a commit or by a rollback.  The invariant
`CallInv` ties the result of the last step to the state of the statement
(`Current`), so that `Finish` knows what is left to reset, and says that no other
statement runs (`Resting`).  That is also why interrupts are over: when a call
starts, nothing runs, and the first step takes the flag back.  `FailureUndone`
needs, in the same invariant (`Current`), that a call has committed nothing before
its last step, and what a failing step does (`Undone`): it leaves the file as it
found it, and the view too, or rolled back to what is in the file; a `SELECT` that has
yielded rows has changed neither.
`BoundParams` compares the parameters bound one by one with the array: they are
equal only because the count is checked after binding.

`StatementEffectsProofs` proves `InsertsRowid`, `ExecuteInserts` and
`ReturnIsDone`, what calls that return have done.  `InsertEffect` says what the
first step of an `INSERT` does; `Effects` carries it to the end of the call: the
row of a statement that yielded it or is done is in the view, a counted row is
new and the last one inserted, and `execute()` is a result of `SqlInsert`
(`AsSqlInsert`).  The reset then changes nothing, because the statement has
already been halted (`FinishHalted`); `queryRow`, where it has not, is the run
`stmt_lost_row`.

The same module proves `CallsImplement`: `Spec => ImplementsStore`, the refinement
at the level of `sqlite3_step` and `sqlite3_reset`.  A connection is looked at as
the program sees it (`Shown`), and each outcome of a step is one step of the store
or none (`Shows`).  What this needs beyond `CallInv` is `Pending`: outside a
transaction nothing but the row of the current call is written and not
committed.  Without it a halt could commit two rows at once, which is what the
mutant of `ImplementsStore` does: a failed commit that keeps its row leaves it to
be committed by the next call.

Under the liveness of calls lie two facts about safety, which are proved:
`CallsRunOut`, each step after the first leaves fewer rows or is the last one, and
`CallsGoOn`, each `sqlite3_step` and `sqlite3_reset` has an outcome, so that `Step`
or `Finish` can be taken.  `CallsEnd` adds the induction over the rows left and
weak fairness.

Two theorems say when the promises hold that the violated runs refute, with an
assumption on the faults.  `QueryIsComplete`: without busy files and failing
statements `query()` returns every row, by an invariant (`Yielded`) that the rows
read and the rows left are those that were there.  `QueryRowIsDone`: if the
commit in the reset cannot fail (no busy file, no failing write, no parameters that
violate a deferred foreign key), `queryRow()` returns only what is in the
database; `Pending` is what excludes that the reset meets a violation of another
row.  TLC shows that no fault can be taken out of the assumptions: `"busy"` and
`"special"` each break the first promise, `"busy"` and `"io"` the second.

`UnlockNotifyProofs` proves, for all connections, threads, tables, SQL and
finalizers:

* `TypeCorrect`: `Spec => []TypeOK`;
* `LocksExclude`: `Spec => []LocksOK`;
* `ListRefersToLive`: `Spec => []ListProperties`;
* `WakeupsAreNotLost`: `Spec => []NoLostWakeup`;
* `CallbackArgumentLives`: `Spec => []CallbackArgument`;
* `NoCircle`: `Spec => []NoWaitCycle`.

The argument.  Two kinds of steps matter: those that run SQL change the cache
(`Runs`), those that tell the waiters change the list (`Tells`).  In between,
somebody has given up his locks and still has waiters, so the invariant says
that whoever is waited for has a transaction or is about to tell (`TellOK`,
`WaitOK`), and nobody closes with a transaction (`CloseOK`).  Both together are
what makes a wakeup impossible to lose: registering and telling hold the same
mutex, and the flag outlives the time between registering and sleeping.
`Acyclic` says that each set of connections has one whose `pUnlockConnection`
leaves the set; registering `c` keeps it because `c` is not in the chain of its
blocker, which is what the loop of `sqlite3_unlock_notify` looks for.

From these follow:

* `ConnectionsManageLocks`: `Spec => ImplementsLockManager`;
* `EveryChainEnds`: whoever waits, waits in the end for a connection that does not
  wait and has yet to end its transaction or to tell its waiters;
* `SeparateThreadsNotStuck`: `Spec => []ThreadsNotStuck`, if every connection has a
  thread of its own;
* `FinalizedWithoutStatements`: `Spec => []FinalizedHoldsNothing`, if no program keeps
  a prepared statement.

The refinement maps the steps that run SQL to `Grow` or `Release` (`RunsRefines`),
those that tell the waiters to `Tell` (`TellsRefines`), and a registration to `Wait`
(`RegisterRefines`), whose guard, some closed set of connections with the blocker
and without the caller, is the chain that the loop followed.  All else leaves
locks and waits alone: a spurious wakeup, looking at the flag, going to sleep.
Two facts are needed for it that no run checks: a statement that runs never
lowers a lock (`Raises`, part of `Runs`), and whoever has yet to tell has no
transaction left (`CloseOK`), so that telling is never early.  The assumptions of
the last two are those that `unlock_same_thread` and `unlock_dropped` violate.
`EveryChainEnds` is the part of `WaitsEnd` that is not about fairness: there is always somebody whose next steps
are not held up by a wait.

`AbstractProofs` proves what the two abstract specifications promise, and so every
module that implements them, whatever its constants are:

* `StoreConsistent`: what can be read contains what is committed, is equal to it
  outside a transaction, and no committed row violates a foreign key;
* `StoreDurable`: a committed row stays, and what becomes committed is the whole view
  of an open transaction, or one row outside one;
* `LocksSafe`: locks exclude each other, and whoever holds one has yet to tell;
* `WaitsSensible`: whoever is waited for has yet to tell, and no set of owners waits
  for itself;
* `WaitsKept`: an owner that waits keeps its locks, and only the owner it waits for
  ends the wait, with no locks left.

`WaitsSensible` rests on the guard of `Wait` alone: a circle through a new wait
would have to leave the closed set that the guard asks for.  `StoreDurable` for
`StatementCalls` is `CommitsAreFinal` step by step, which no run states there.

Assumptions are the named `ASSUME`s of the modules, which only say what sets the
constants are; TLC evaluates them in every run.

Only model-checked: liveness (`CallsEnd`, `WaitsEnd`), which is out of the
prover's reach.  Every other property of a passing run is a theorem, and so is each
property of a violated run under the assumptions that the run shows to be needed.

## What is not modelled

* Readers: shared locks, read snapshots and WAL mode.  A reader can make
  `BEGIN` or a commit busy, which `"busy"` covers.
* `executeBatch` of several statements is several calls of one.
* Statements of other kinds (`UPDATE`, `DELETE`, DDL) differ from the ones
  modelled by the rows they touch, not by how they commit or fail.
* Savepoint names are compared exactly; SQLite ignores case.
* The conversion of values, column metadata, pragmas, configuration, opening
  with flags: one call with one effect.
* Backup, session, virtual tables, functions, hooks, blobs: vendored, not
  reachable from the binding.  The statement cache (`cache.rs`): the binding never
  calls `prepare_cached`.
* In `UnlockNotify`: several statements running at once on one connection (the
  binding keeps none running between calls), `PRAGMA read_uncommitted`, the
  re-preparation of a statement whose schema changed, and the grouping of
  callbacks that are the same function (there is one).
* The pager, WAL, journal, B-tree, parser and code generator of the SQLite
  amalgamation.  This is vendored C, and with its headers and a second copy
  (`sqlcipher/`) nearly all of the 470 000 C lines of the repository: what is
  modelled of it is the transaction control, the virtual machine's halt, the
  table locks and `notify.c`, as far as the binding's guarantees rest on them.  A
  model of the rest would be a model of SQLite, not of this program; the share of
  the repository's lines that the models stand for is small for that reason.

## Plan

1. `SqliteTxn`, `NodeTransaction`, `AtomicStore`, with type, engine and
   durability theorems: done.
2. `StatementCalls`, with its link to `NodeTransaction`, and its theorems: done.
3. `UnlockNotify`, with its theorems: done.
4. Closing connections with live statements, and opening them again: done in
   `UnlockNotify`.
5. Proofs of the refinement and of what disciplined programs rely on: done.
6. `LockManager`, the refinement of `AtomicStore` by single steps, and the theorems
   that complement the violated runs: done.  What the abstract specifications promise: done
   in `AbstractProofs`.

Left, in this order:

7. `Values`: the conversion between JSON and SQLite values (`utils.rs`, `row.rs`,
   `errors.rs`): which numbers, blobs and column names survive the way there and
   back, with the edges of 64-bit integers and doubles.
8. A journal below `SqliteTxn`: a crash between the steps of a commit, and hot
   journals found by the next `open`.  It would be a model of SQLite's pager.
