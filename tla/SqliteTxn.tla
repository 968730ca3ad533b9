------------------------------ MODULE SqliteTxn ------------------------------
(***************************************************************************)
(* The transaction engine of one SQLite connection (`struct sqlite3'), as   *)
(* the VDBE opcodes Savepoint and AutoCommit and sqlite3VdbeHalt drive it.  *)
(*                                                                         *)
(* A database is the set of rows ("writes") it holds.  A SQL statement is   *)
(* an operator from a connection to the set of its possible results: the    *)
(* connection afterwards, and whether the statement succeeded.  A statement *)
(* has more than one result where another process or the file system has a  *)
(* say; Faults names which of those the instance allows:                    *)
(*   "busy"    a lock is held elsewhere until the busy timeout expires,     *)
(*   "io"      the commit itself fails (IOERR, FULL), after which SQLite    *)
(*             has rolled the transaction back,                             *)
(*   "special" a statement in a transaction fails with an error that makes  *)
(*             SQLite roll back the whole transaction (IOERR, INTERRUPT,    *)
(*             INSERT OR ROLLBACK ...).                                     *)
(***************************************************************************)
EXTENDS Naturals, Sequences

CONSTANTS
    Writes,      \* the rows a program may insert
    BadWrites,   \* those that leave a DEFERRED foreign key violated
    Names,       \* savepoint names
    Faults       \* the faults this instance allows

ASSUME BadWritesAssumption == BadWrites \subseteq Writes
ASSUME FaultsAssumption == Faults \subseteq {"busy", "io", "special"}

Behaviors == {"deferred", "immediate", "exclusive"}

\* What the connection holds on the database file.  "write" is a reserved
\* lock, "dirty" a reserved lock with modified pages (only then must a commit
\* get the exclusive lock), "exclusive" the exclusive lock from the start.
Locks == {"none", "write", "dirty", "exclusive"}

\* struct Savepoint: its name, and the contents ROLLBACK TO restores.
Savepoint == [name : Names, saved : SUBSET Writes]

\* struct sqlite3.  `disk' is what another process can read, `view' what this
\* connection reads, `root' is isTransactionSavepoint.
Db == [disk       : SUBSET Writes,
       view       : SUBSET Writes,
       autocommit : BOOLEAN,
       root       : BOOLEAN,
       lock       : Locks,
       savepoints : Seq(Savepoint)]

\* The connection outside any transaction, on a database holding `rows'.
Idle(rows) == [disk |-> rows, view |-> rows, autocommit |-> TRUE,
               root |-> FALSE, lock |-> "none", savepoints |-> <<>>]

Result == [db : Db, ok : BOOLEAN]
Ok(d)  == [db |-> d, ok |-> TRUE]
Err(d) == [db |-> d, ok |-> FALSE]

----------------------------------------------------------------------------
(* Operators named Seeded... are wrong on purpose: each is the definition    *)
(* that follows it with a plausible bug, and shows that a property can fail. *)

\* nDeferredCons + nDeferredImmCons is not zero.
DeferredViolation(rows) == rows \cap BadWrites # {}

SeededEndByCommitUnchecked(d, broken) == {Ok(Idle(d.view))}

\* The transaction ends by writing `view' to the file.  A violated deferred
\* foreign key or a busy file leaves it open; `broken' is what a failing
\* write leaves behind.
EndByCommit(d, broken) ==
    IF DeferredViolation(d.view)
    THEN {Err(d)}
    ELSE {Ok(Idle(d.view))}
         \cup {r \in {Err(d)} : "busy" \in Faults /\ d.lock = "dirty"}
         \cup {r \in {Err(broken)} :
                    "io" \in Faults /\ d.lock \in {"dirty", "exclusive"}}

\* The lock OP_Transaction takes; a lock already held is not upgraded.
LockFor(lock, behavior) ==
    CASE lock # "none" \/ behavior = "deferred" -> lock
      [] behavior = "immediate" /\ lock = "none" -> "write"
      [] OTHER -> "exclusive"

\* BEGIN takes its lock first and only then finds a transaction already open:
\* BEGIN IMMEDIATE inside a deferred transaction fails and keeps the lock.
SqlBegin(d, behavior) ==
    LET locked == [d EXCEPT !.lock = LockFor(d.lock, behavior)] IN
    (IF d.autocommit THEN {Ok([locked EXCEPT !.autocommit = FALSE])}
                     ELSE {Err(locked)})
    \cup {r \in {Err(d)} : "busy" \in Faults /\ locked.lock # d.lock}

SeededCommitKeepsSavepoints(d) ==
    IF d.autocommit THEN {Err(d)}
    ELSE {Ok([Idle(d.view) EXCEPT !.savepoints = d.savepoints])}

SqlCommit(d) ==
    IF d.autocommit THEN {Err(d)} ELSE EndByCommit(d, Idle(d.disk))

SqlRollback(d) ==
    IF d.autocommit THEN {Err(d)} ELSE {Ok(Idle(d.disk))}

SqlSavepoint(d, name) ==
    {Ok([d EXCEPT !.autocommit = FALSE,
                  !.root = d.root \/ d.autocommit,
                  !.savepoints = Append(@, [name |-> name, saved |-> d.view])])}

Matching(d, name) == {i \in 1..Len(d.savepoints) : d.savepoints[i].name = name}

SeededFindOldest(d, name) ==
    CHOOSE i \in Matching(d, name) : \A j \in Matching(d, name) : i <= j

\* The list is searched from the newest savepoint.
Find(d, name) ==
    CHOOSE i \in Matching(d, name) : \A j \in Matching(d, name) : j <= i

\* An I/O error while the transaction savepoint is released: SQLite has rolled
\* everything back but keeps the savepoints, with autocommit still off.
BrokenRelease(d) ==
    [d EXCEPT !.view = d.disk, !.lock = "none",
              !.savepoints = [i \in 1..Len(d.savepoints) |->
                                [d.savepoints[i] EXCEPT !.saved = d.disk]]]

SeededReleaseOldestCommits(d, name) ==
    IF Matching(d, name) = {} THEN {Err(d)}
    ELSE IF Find(d, name) = 1
    THEN EndByCommit(d, BrokenRelease(d))
    ELSE {Ok([d EXCEPT !.savepoints = SubSeq(@, 1, Find(d, name) - 1)])}

SqlRelease(d, name) ==
    IF Matching(d, name) = {} THEN {Err(d)}
    ELSE IF d.root /\ Find(d, name) = 1
    THEN EndByCommit(d, BrokenRelease(d))
    ELSE {Ok([d EXCEPT !.savepoints = SubSeq(@, 1, Find(d, name) - 1)])}

SqlRollbackTo(d, name) ==
    IF Matching(d, name) = {} THEN {Err(d)}
    ELSE {Ok([d EXCEPT !.view = d.savepoints[Find(d, name)].saved,
                       !.savepoints = SubSeq(@, 1, Find(d, name))])}

\* A reserved lock, with modified pages.
Dirtied(lock) == IF lock = "exclusive" THEN lock ELSE "dirty"

\* An INSERT.  In autocommit mode the statement is its own transaction.  A
\* constraint may fail, which undoes the statement alone.
SqlInsert(d, w) ==
    IF d.autocommit
    THEN {Err(d)} \cup {r \in {Ok(Idle(d.view \cup {w}))} :
                            ~ DeferredViolation(d.view \cup {w})}
    ELSE {Ok([d EXCEPT !.view = @ \cup {w}, !.lock = Dirtied(@)])}
         \cup {Err([d EXCEPT !.lock = l]) :
                   l \in {d.lock, LockFor(d.lock, "immediate"), Dirtied(d.lock)}}
         \cup {r \in {Err(Idle(d.disk))} : "special" \in Faults}

----------------------------------------------------------------------------
\* What the asserts of OP_Savepoint and the pager rely on: outside a
\* transaction nothing is pending; a transaction savepoint is the oldest one
\* and holds the committed rows; and what is committed is contained in every
\* snapshot, each snapshot in the newer ones, and all of them in the view, so
\* no rollback can undo a commit.
EngineOK(d) ==
    /\ d.autocommit => d = Idle(d.disk)
    /\ d.root => d.savepoints # <<>> /\ d.savepoints[1].saved = d.disk
    /\ d.disk \subseteq d.view
    /\ \A i \in 1..Len(d.savepoints) :
          /\ d.disk \subseteq d.savepoints[i].saved
          /\ d.savepoints[i].saved \subseteq d.view
          /\ \A j \in 1..i : d.savepoints[j].saved \subseteq d.savepoints[i].saved
    /\ ~ DeferredViolation(d.disk)
=============================================================================
