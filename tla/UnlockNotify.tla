---------------------------- MODULE UnlockNotify ----------------------------
(***************************************************************************)
(* Connections of several threads that share one page cache                 *)
(* ("file::memory:?cache=shared").  They exclude each other by table locks; *)
(* a statement that finds one taken sleeps in wait_for_unlock_notify until  *)
(* the connection in its way ends its transaction.                          *)
(*                                                                         *)
(* Threads interleave between the sections that a mutex protects: a call of *)
(* sqlite3_prepare, or sqlite3_step of a statement that uses a table, holds *)
(* the mutex of the shared cache to its end; COMMIT and ROLLBACK hold it    *)
(* while they give up the locks; notify.c holds SQLITE_MUTEX_STATIC_MAIN.   *)
(* A connection runs one statement at a time.                               *)
(***************************************************************************)
CONSTANTS
    Conns,    \* connections to the shared cache
    NoConn,   \* a null sqlite3*
    Thread,   \* the thread each connection is used by
    Schema,   \* sqlite_schema
    Tables,   \* the other tables
    Ops,      \* the SQL that programs run
    Dropped   \* connections whose objects programs may drop

AllTables == Tables \cup {Schema}
Sqls == {"read", "write", "begin", "begin immediate", "begin exclusive",
         "commit", "rollback", "prepare"}

ASSUME NoConnAssumption == NoConn \notin Conns
ASSUME OpsAssumption == Ops \subseteq [sql : Sqls, table : AllTables]

VARIABLES
    cache,       \* struct BtShared
    autocommit,  \* db->autoCommit
    calls,       \* where the call on each connection is
    handle,      \* open, closed, or no longer reachable and yet not closed
    kept,        \* connections with a prepared statement that is alive
    blocking,    \* db->pBlockingConnection
    unlock,      \* db->pUnlockConnection
    listed,      \* sqlite3BlockedList
    fired        \* the flag of the UnlockNotification of the call

notifyVars == <<blocking, unlock, listed, fired>>
vars == <<cache, autocommit, calls, handle, kept, notifyVars>>

LockKinds == {"none", "read", "write"}

Cache == [txn    : [Conns -> LockKinds],
          locks  : [Conns -> [AllTables -> LockKinds]],
          writer : Conns \cup {NoConn},
          flags  : SUBSET {"pending", "exclusive"}]

\* `api' is the SQLite function that is called, and called again after a wait;
\* `then' is where the call goes on after the locks are released.
NoOp == [sql |-> "prepare", table |-> Schema]
Call == [at   : {"idle", "prepare", "step", "row", "locked", "wait", "asleep",
                 "halting", "resetting", "closing"},
         api  : {"prepare", "step"},
         then : {"idle", "locked"},
         op   : [sql : Sqls, table : AllTables]]

TypeOK ==
    /\ cache \in Cache
    /\ autocommit \in [Conns -> BOOLEAN]
    /\ calls \in [Conns -> Call]
    /\ handle \in [Conns -> {"open", "closed", "leaked"}]
    /\ kept \in SUBSET Conns
    /\ blocking \in [Conns -> Conns \cup {NoConn}]
    /\ unlock \in [Conns -> Conns \cup {NoConn}]
    /\ listed \in SUBSET Conns
    /\ fired \in [Conns -> BOOLEAN]

NoCall == [at |-> "idle", api |-> "prepare", then |-> "idle", op |-> NoOp]

Init ==
    /\ cache = [txn |-> [c \in Conns |-> "none"],
                locks |-> [c \in Conns |-> [t \in AllTables |-> "none"]],
                writer |-> NoConn, flags |-> {}]
    /\ autocommit = [c \in Conns |-> TRUE]
    /\ calls = [c \in Conns |-> NoCall]
    /\ handle = [c \in Conns |-> "open"]
    /\ kept = {}
    /\ blocking = [c \in Conns |-> NoConn]
    /\ unlock = [c \in Conns |-> NoConn]
    /\ listed = {}
    /\ fired = [c \in Conns |-> FALSE]

----------------------------------------------------------------------------
(* Table locks, as operators on the cache b and a connection c.             *)
(* Operators named Seeded... are wrong on purpose, as in SqliteTxn.         *)

Open(b) == {c \in Conns : b.txn[c] # "none"}

\* querySharedCacheTableLock: who keeps c from the lock?  SQLite names the
\* first in its list, which may be any of them.
QueryLock(b, c, t, kind) ==
    IF "exclusive" \in b.flags /\ b.writer # c THEN {b.writer}
    ELSE {d \in Conns \ {c} : b.locks[d][t] \notin {"none", kind}}

\* sqlite3BtreeLockTable when nobody does: a lock is never lowered.
LockTable(b, c, t, kind) ==
    [b EXCEPT !.locks[c][t] = IF @ = "write" THEN @ ELSE kind]

\* The lock is refused.  A refused writer keeps new transactions out.
Refused(b, kind) ==
    [b EXCEPT !.flags = IF kind = "write" THEN @ \cup {"pending"} ELSE @]

\* A transaction that already allows the access `kind'.
Begun(b, c, kind) ==
    b.txn[c] = "write" \/ (b.txn[c] = "read" /\ kind = "read")

\* Others keep c from beginning, or from becoming the writer.
BeginBlockers(b, c, kind) ==
    LET holders == {d \in Conns \ {c} : \E t \in AllTables : b.locks[d][t] # "none"}
    IN  IF Begun(b, c, kind) THEN {}
        ELSE IF "pending" \in b.flags \/ (kind # "read" /\ b.writer # NoConn)
             THEN {b.writer}
        ELSE IF kind = "exclusive" /\ holders # {} THEN holders
        ELSE QueryLock(b, c, Schema, "read")

SeededBeginKind(b, c, kind) ==
    IF Begun(b, c, kind) THEN b
    ELSE [b EXCEPT !.txn[c] = kind,
                   !.locks[c][Schema] = IF @ = "none" THEN "read" ELSE @,
                   !.writer = IF kind = "read" THEN @ ELSE c,
                   !.flags = IF kind = "read" THEN @
                             ELSE {f \in {"exclusive"} : kind = "exclusive"}]

\* btreeBeginTrans when nobody does.  Every transaction reads the schema.
BeginTrans(b, c, kind) ==
    IF Begun(b, c, kind) THEN b
    ELSE [b EXCEPT !.txn[c] = IF kind = "read" THEN "read" ELSE "write",
                   !.locks[c][Schema] = IF @ = "none" THEN "read" ELSE @,
                   !.writer = IF kind = "read" THEN @ ELSE c,
                   !.flags = IF kind = "read" THEN @
                             ELSE {f \in {"exclusive"} : kind = "exclusive"}]

SeededEndKeepsPending(b, c) ==
    IF b.txn[c] = "none" THEN b
    ELSE [b EXCEPT !.txn[c] = "none",
                   !.locks[c] = [t \in AllTables |-> "none"],
                   !.writer = IF @ = c THEN NoConn ELSE @,
                   !.flags = IF b.writer = c THEN {} ELSE @]

\* btreeEndTransaction and clearAllSharedCacheTableLocks.  The last reader
\* that leaves the writer alone lets new transactions in again.
EndTransaction(b, c) ==
    IF b.txn[c] = "none" THEN b
    ELSE [b EXCEPT !.txn[c] = "none",
                   !.locks[c] = [t \in AllTables |-> "none"],
                   !.writer = IF @ = c THEN NoConn ELSE @,
                   !.flags = IF b.writer = c THEN {}
                             ELSE IF \E d \in Conns \ {c} : Open(b) = {c, d}
                             THEN @ \ {"pending"} ELSE @]

----------------------------------------------------------------------------
(* Calls.                                                                   *)

\* A thread makes one call at a time.
ThreadIdle(th) == \A c \in Conns : Thread[c] = th => calls[c].at = "idle"

\* The mutex of the shared cache is free: nobody is inside sqlite3_step of a
\* statement that uses a table.
CacheFree == \A c \in Conns : calls[c].at # "halting"

Goes(c, at) == [calls EXCEPT ![c].at = at]

\* Connection.execute(sql), prepare(sql, callback), statement.execute()
Begin(c, op) ==
    /\ handle[c] = "open" /\ ThreadIdle(Thread[c])
    /\ \E api \in {"prepare"} \cup {s \in {"step"} : c \in kept /\ op.sql # "prepare"} :
          calls' = [calls EXCEPT ![c] = [at |-> api, api |-> api,
                                         then |-> "idle", op |-> op]]
    /\ UNCHANGED <<cache, autocommit, handle, kept, notifyVars>>

\* sqlite3ConnectionBlocked
ConnectionBlocked(c, d) ==
    /\ blocking' = [blocking EXCEPT ![c] = d]
    /\ listed' = listed \cup {c}

\* sqlite3_prepare: nobody may be changing the schema.
Prepare(c) ==
    /\ calls[c].at = "prepare" /\ CacheFree
    /\ LET blockers == QueryLock(cache, c, Schema, "read") IN
       \/ /\ blockers = {}
          /\ IF calls[c].op.sql = "prepare"
             THEN kept' = kept \cup {c} /\ calls' = [calls EXCEPT ![c] = NoCall]
             ELSE kept' = kept /\ calls' = [calls EXCEPT ![c].at = "step",
                                                         ![c].api = "step"]
          /\ UNCHANGED <<blocking, listed>>
       \/ /\ \E d \in blockers : ConnectionBlocked(c, d)
          /\ calls' = Goes(c, "locked")
          /\ UNCHANGED kept
    /\ UNCHANGED <<cache, autocommit, handle, unlock, fired>>

\* sqlite3VdbeHalt: in autocommit mode the transaction ends, and the waiters
\* are told later.
Halt(c, b, auto, place, then) ==
    /\ autocommit' = [autocommit EXCEPT ![c] = auto]
    /\ cache' = IF auto THEN EndTransaction(b, c) ELSE b
    /\ calls' = IF auto THEN [calls EXCEPT ![c].at = place, ![c].then = then]
                ELSE IF then = "idle" THEN [calls EXCEPT ![c] = NoCall]
                ELSE Goes(c, then)

\* What OP_Transaction asks for.
Wanted(sql) ==
    CASE sql = "read" -> "read"
      [] sql = "begin exclusive" -> "exclusive"
      [] OTHER -> "write"

\* sqlite3_step of a statement that reads or writes, or BEGIN IMMEDIATE: it
\* opens a transaction, then locks its table.  A SELECT may yield a row, and so
\* may INSERT ... RETURNING once it has written.
Access(c) ==
    LET op       == calls[c].op
        kind     == Wanted(op.sql)
        blockers == BeginBlockers(cache, c, kind)
        begun    == BeginTrans(cache, c, kind)
        owners   == IF op.sql \in {"read", "write"}
                    THEN QueryLock(begun, c, op.table, kind) ELSE {}
    IN  \/ /\ \E d \in blockers : ConnectionBlocked(c, d)
           /\ Halt(c, cache, autocommit[c], "halting", "locked")
        \/ /\ blockers = {}
           /\ \E d \in owners : ConnectionBlocked(c, d)
           /\ Halt(c, Refused(begun, kind), autocommit[c], "halting", "locked")
        \/ /\ blockers = {} /\ owners = {}
           /\ UNCHANGED <<blocking, listed>>
           /\ IF op.sql \notin {"read", "write"}
              THEN Halt(c, begun, FALSE, "halting", "idle")
              ELSE LET b == LockTable(begun, c, op.table, kind) IN
                   \/ Halt(c, b, autocommit[c], "halting", "idle")
                   \/ /\ op.sql = "read" \/ op.table # Schema
                      /\ cache' = b
                      /\ calls' = Goes(c, "row")
                      /\ UNCHANGED autocommit

\* sqlite3_step of BEGIN, COMMIT and ROLLBACK.  They use no table: the mutex is
\* taken to end a transaction that holds locks, and is free again when the
\* waiters are told.  A deferred foreign key stops a COMMIT.
AutoCommit(c) ==
    LET sql   == calls[c].op.sql
        empty == ~ autocommit[c] /\ cache.txn[c] = "none"
    IN  /\ \/ sql = "begin" /\ Halt(c, cache, FALSE, "resetting", "idle")
           \/ /\ sql = "rollback" \/ sql = "commit"
              /\ CacheFree \/ (sql = "commit" /\ empty)
              /\ Halt(c, cache, TRUE, "resetting", "idle")
           \/ /\ sql = "commit" /\ ~ autocommit[c] /\ cache.txn[c] = "write"
              /\ Halt(c, cache, FALSE, "resetting", "idle")
        /\ UNCHANGED <<blocking, listed>>

Step(c) ==
    /\ calls[c].at = "step"
    /\ IF calls[c].op.sql \in {"begin", "commit", "rollback"}
       THEN AutoCommit(c) ELSE CacheFree /\ Access(c)
    /\ UNCHANGED <<handle, kept, unlock, fired>>

\* sqlite3_reset of a statement that has yielded a row; INSERT ... RETURNING
\* commits here.  The mutex is not held while the waiters are told.
Reset(c) ==
    /\ calls[c].at = "row" /\ CacheFree
    /\ Halt(c, cache, autocommit[c], "resetting", "idle")
    /\ UNCHANGED <<handle, kept, notifyVars>>

----------------------------------------------------------------------------
(* notify.c and unlock_notify.rs                                            *)

\* Who c keeps waiting is forgotten ...
StillBlocking(c) ==
    [d \in Conns |-> IF blocking[d] = c THEN NoConn ELSE blocking[d]]

SeededHitsSleepers(c) == {d \in Conns : unlock[d] = c /\ calls[d].at = "asleep"}

\* ... those who asked are told, and wake up if they sleep ...
Hits(c) == {d \in Conns : unlock[d] = c}
StillRegistered(c) ==
    [d \in Conns |-> IF unlock[d] = c THEN NoConn ELSE unlock[d]]

\* ... and leave the list when nothing else keeps them there.
StillListed(c) ==
    {d \in listed : StillBlocking(c)[d] # NoConn \/ StillRegistered(c)[d] # NoConn}

SeededToldNobody(c) == calls

Told(c) ==
    [d \in Conns |-> IF d \in Hits(c) /\ calls[d].at = "asleep"
                     THEN [calls[d] EXCEPT !.at = "wait"] ELSE calls[d]]

\* sqlite3ConnectionUnlocked, at the end of sqlite3VdbeHalt.
Unlocked(c) ==
    /\ calls[c].at \in {"halting", "resetting"}
    /\ blocking' = StillBlocking(c)
    /\ unlock' = StillRegistered(c)
    /\ listed' = StillListed(c)
    /\ fired' = [d \in Conns |-> fired[d] \/ d \in Hits(c)]
    /\ calls' = [Told(c) EXCEPT ![c] =
                    IF @.then = "idle" THEN NoCall ELSE [@ EXCEPT !.at = "locked", !.then = "idle"]]
    /\ UNCHANGED <<cache, autocommit, handle, kept>>

\* The connections that b waits for, directly or through others, and b itself:
\* those in every set with b in it that pUnlockConnection does not leave.
Chain(b) ==
    {d \in Conns : \A T \in SUBSET Conns :
        (b \in T /\ \A x \in T : unlock[x] \in Conns => unlock[x] \in T) => d \in T}

SeededDirectDeadlock(c) == unlock[blocking[c]] = c

\* sqlite3_unlock_notify follows pUnlockConnection back to c.
Deadlocked(c) == c \in Chain(blocking[c])

SeededRegisterFirst(c) ==
    /\ calls[c].at = "locked"
    /\ IF blocking[c] = NoConn
       THEN /\ fired' = [fired EXCEPT ![c] = TRUE]
            /\ calls' = Goes(c, "wait")
            /\ UNCHANGED <<unlock, listed>>
       ELSE /\ unlock' = [unlock EXCEPT ![c] = blocking[c]]
            /\ listed' = listed \cup {c}
            /\ calls' = IF Deadlocked(c) THEN [calls EXCEPT ![c] = NoCall]
                                         ELSE Goes(c, "wait")
            /\ UNCHANGED fired
    /\ UNCHANGED <<cache, autocommit, handle, kept, blocking>>

\* wait_for_unlock_notify registers: the callback is called at once if the
\* blocker is gone; if it waits for c the call fails; otherwise c waits.
Register(c) ==
    /\ calls[c].at = "locked"
    /\ \/ /\ blocking[c] = NoConn
          /\ fired' = [fired EXCEPT ![c] = TRUE]
          /\ calls' = Goes(c, "wait")
          /\ UNCHANGED <<unlock, listed>>
       \/ /\ blocking[c] # NoConn /\ Deadlocked(c)
          /\ calls' = [calls EXCEPT ![c] = NoCall]
          /\ UNCHANGED <<unlock, listed, fired>>
       \/ /\ blocking[c] # NoConn /\ ~ Deadlocked(c)
          /\ unlock' = [unlock EXCEPT ![c] = blocking[c]]
          /\ listed' = listed \cup {c}
          /\ calls' = Goes(c, "wait")
          /\ UNCHANGED fired
    /\ UNCHANGED <<cache, autocommit, handle, kept, blocking>>

SeededSleepUnseen(c) ==
    /\ calls[c].at = "wait"
    /\ calls' = Goes(c, "asleep")
    /\ fired' = [fired EXCEPT ![c] = FALSE]
    /\ UNCHANGED <<cache, autocommit, handle, kept, blocking, unlock, listed>>

\* UnlockNotification::wait looks at the flag, and sleeps unless it is set;
\* the SQLite function is called again afterwards.
Wait(c) ==
    /\ calls[c].at = "wait"
    /\ calls' = Goes(c, IF fired[c] THEN calls[c].api ELSE "asleep")
    /\ fired' = [fired EXCEPT ![c] = FALSE]
    /\ UNCHANGED <<cache, autocommit, handle, kept, blocking, unlock, listed>>

\* A condition variable may wake up for no reason.
SpuriousWake(c) ==
    /\ calls[c].at = "asleep"
    /\ calls' = Goes(c, "wait")
    /\ UNCHANGED <<cache, autocommit, handle, kept, notifyVars>>

----------------------------------------------------------------------------
(* Finalizers.                                                              *)

\* ObjectFinalize for ScopedStatement.
finalize_statement(c) ==
    /\ c \in kept /\ handle[c] = "open" /\ ThreadIdle(Thread[c])
    /\ kept' = kept \ {c}
    /\ UNCHANGED <<cache, autocommit, calls, handle, notifyVars>>

\* ObjectFinalize for Connection.  sqlite3_close refuses while a statement is
\* alive, the drop that follows tries again in vain, and the sqlite3* is lost.
finalize_connection(c) ==
    /\ c \in Dropped /\ handle[c] = "open" /\ ThreadIdle(Thread[c])
    /\ \/ /\ c \in kept
          /\ handle' = [handle EXCEPT ![c] = "leaked"]
          /\ UNCHANGED <<cache, autocommit, calls>>
       \/ /\ c \notin kept /\ CacheFree
          /\ cache' = EndTransaction(cache, c)
          /\ autocommit' = [autocommit EXCEPT ![c] = TRUE]
          /\ calls' = Goes(c, "closing")
          /\ UNCHANGED handle
    /\ UNCHANGED <<kept, notifyVars>>

SeededClosedStaysListed(c) ==
    /\ calls[c].at = "closing"
    /\ blocking' = StillBlocking(c)
    /\ unlock' = StillRegistered(c)
    /\ listed' = StillListed(c)
    /\ fired' = [d \in Conns |-> fired[d] \/ d \in Hits(c)]
    /\ calls' = [Told(c) EXCEPT ![c] = NoCall]
    /\ handle' = [handle EXCEPT ![c] = "closed"]
    /\ UNCHANGED <<cache, autocommit, kept>>

\* sqlite3ConnectionClosed, before the sqlite3 is freed.
ConnectionClosed(c) ==
    /\ calls[c].at = "closing"
    /\ blocking' = [StillBlocking(c) EXCEPT ![c] = NoConn]
    /\ unlock' = [StillRegistered(c) EXCEPT ![c] = NoConn]
    /\ listed' = StillListed(c) \ {c}
    /\ fired' = [d \in Conns |-> fired[d] \/ d \in Hits(c)]
    /\ calls' = [Told(c) EXCEPT ![c] = NoCall]
    /\ handle' = [handle EXCEPT ![c] = "closed"]
    /\ UNCHANGED <<cache, autocommit, kept>>

\* Connection.open(path); a freed sqlite3 may be given out again.
open(c) ==
    /\ handle[c] = "closed" /\ ThreadIdle(Thread[c])
    /\ handle' = [handle EXCEPT ![c] = "open"]
    /\ UNCHANGED <<cache, autocommit, calls, kept, notifyVars>>

----------------------------------------------------------------------------
\* The part of a call that runs natively, whatever JavaScript does.
Native(c) ==
    \/ Prepare(c) \/ Step(c) \/ Reset(c) \/ Unlocked(c) \/ Register(c) \/ Wait(c)
    \/ ConnectionClosed(c)

Next ==
    \E c \in Conns :
        \/ \E op \in Ops : Begin(c, op)
        \/ Native(c)
        \/ SpuriousWake(c)
        \/ finalize_statement(c) \/ finalize_connection(c) \/ open(c)

Spec == Init /\ [][Next]_vars

Rollback == [sql |-> "rollback", table |-> Schema]

\* Native code runs on, mutexes starve nobody, and a program that has begun a
\* transaction sends ROLLBACK some day when its thread is free.
Fairness ==
    \A c \in Conns :
        /\ SF_vars(Native(c))
        /\ SF_vars(~ autocommit[c] /\ Begin(c, Rollback))

FairSpec == Spec /\ Fairness

----------------------------------------------------------------------------
(* Properties.                                                              *)

Waiting(c) == calls[c].at \in {"wait", "asleep"} /\ ~ fired[c]

\* Connections whose locks are gone and that have yet to tell the waiters.
Telling(c) == calls[c].at \in {"halting", "resetting", "closing"}

\* What the table locks are for, and what btree.c asserts of them: a table is
\* written by one connection and then read by no other, there is one writer,
\* the exclusive one is alone, and new transactions are only kept out for a
\* writer that others hold up.
CacheOK(b) ==
    /\ \A c, d \in Conns, t \in AllTables :
          c # d /\ b.locks[c][t] = "write" => b.locks[d][t] = "none"
    /\ \A c \in Conns :
          /\ b.writer = c <=> b.txn[c] = "write"
          /\ b.txn[c] = "none" <=> b.locks[c][Schema] = "none"
          /\ \A t \in AllTables : b.locks[c][t] = "write" => b.writer = c
          /\ b.txn[c] = "none" => \A t \in AllTables : b.locks[c][t] = "none"
    /\ b.flags # {} => b.writer # NoConn
    /\ "exclusive" \in b.flags => Open(b) = {b.writer}
    /\ "pending" \in b.flags => Open(b) # {b.writer}
LocksOK == CacheOK(cache)

\* checkListProperties, and that a closed connection is not referred to: the
\* list holds exactly the connections that are blocked or registered.
ListProperties ==
    /\ listed = {c \in Conns : blocking[c] # NoConn \/ unlock[c] # NoConn}
    /\ \A c \in Conns : handle[c] = "closed" =>
          /\ c \notin listed
          /\ \A d \in Conns : blocking[d] # c /\ unlock[d] # c

\* A thread that sleeps, or is about to, will be told: it is registered with a
\* connection that still has to end its transaction or to tell its waiters,
\* however registering, waiting and unlocking interleave.
NoLostWakeup ==
    \A c \in Conns : Waiting(c) =>
        /\ unlock[c] # NoConn
        /\ cache.txn[unlock[c]] # "none" \/ Telling(unlock[c])

\* The callback gets the address of an UnlockNotification on the stack of the
\* call that waits: while it is registered, that call has not returned.
CallbackArgument ==
    \A c \in Conns : unlock[c] # NoConn => Waiting(c)

\* Connections never wait for each other in a circle.
NoWaitCycle ==
    \A S \in SUBSET Conns :
        (\A c \in S : Waiting(c) /\ unlock[c] \in S) => S = {}

\* No thread waits for itself, directly or through others: "if
\* `sqlite3_unlock_notify()` indicates that to block would deadlock the system,
\* then this function returns `SQLITE_LOCKED` immediately".
ThreadsNotStuck ==
    \A S \in SUBSET {Thread[c] : c \in Conns} :
        (\A th \in S : \E c \in Conns :
            Thread[c] = th /\ Waiting(c) /\ Thread[unlock[c]] \in S) => S = {}

\* "Closes the connection when the JavaScript object is finalized": afterwards
\* it keeps nobody from anything.
FinalizedHoldsNothing ==
    \A c \in Conns : handle[c] # "open" => cache.txn[c] = "none"

\* Together they are a lock manager: whatever the calls, what a step does to
\* the locks and to the waits is one of the things LockManager allows.  An
\* owner is active from its first lock until it has told its waiters.
Manager == INSTANCE LockManager
              WITH Owners <- Conns, Objects <- AllTables, access <- cache.locks,
                   active <- {c \in Conns : cache.txn[c] # "none" \/ Telling(c)},
                   waits <- [c \in Conns |-> IF Waiting(c) THEN {unlock[c]} ELSE {}]
ImplementsLockManager == Manager!LSpec

\* Every wait ends, unless a connection was lost with its locks.
WaitsEnd ==
    \A c \in Conns :
        Waiting(c) ~> (~ Waiting(c) \/ \E d \in Conns : handle[d] = "leaked")
=============================================================================
