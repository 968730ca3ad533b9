--------------------------- MODULE NodeTransaction ---------------------------
(***************************************************************************)
(* The transaction API of node-rusqlite on one Connection: Transaction      *)
(* handles, savepoint callbacks and the garbage collector's finalizers,     *)
(* over the engine of SqliteTxn.                                            *)
(*                                                                         *)
(* JavaScript runs on one thread, so a step is one call into the binding,   *)
(* run to completion.  A savepoint call is two steps: it runs the callback  *)
(* in between, and the callback may make any call.  Finalizers run only     *)
(* when no JavaScript is on the stack.                                      *)
(***************************************************************************)
EXTENDS SqliteTxn, FiniteSets

CONSTANTS
    Handles,        \* Transaction objects; each is used once
    Nobody,         \* not a handle
    Conn,           \* "through the connection", not a handle
    Options,        \* the `behavior' options the program passes, "default"
                    \* for none
    Drops,          \* the drop behaviors the program asks for
    Defaults,       \* the behaviors it gives to setTransactionBehavior
    MaxDepth,       \* bound on nested savepoint callbacks
    MaxSavepoints,  \* bound on savepoints opened by SQL text
    RawSql,         \* may the program send BEGIN, COMMIT, ... as SQL text?
    TclInCallback   \* may a savepoint callback begin and end transactions?

ASSUME HandlesAssumption == Nobody \notin Handles /\ Conn \notin Handles
ASSUME ChoicesAssumption ==
    /\ Options \subseteq {"deferred", "immediate", "exclusive", "default"}
    /\ Drops \subseteq {"rollback", "commit", "ignore", "panic"}
    /\ Defaults \subseteq {"deferred", "immediate", "exclusive"}
ASSUME DepthAssumption == MaxDepth \in Nat /\ MaxSavepoints \in Nat
ASSUME DisciplineAssumption == RawSql \in BOOLEAN /\ TclInCallback \in BOOLEAN

VARIABLES
    db,         \* the engine
    handle,     \* the Transaction objects
    frames,     \* savepoint calls whose callback is running, oldest first
    behavior,   \* Connection::transaction_behavior
    result,     \* did the last call return or throw?
    used,       \* history: rows some call tried to insert
    owner,      \* history: the handle whose BEGIN opened the open transaction
    acked,      \* history: rows inserted for a handle, as its user knows
    told        \* history: how the API said a handle's transaction ended

history == <<used, owner, acked, told>>
vars == <<db, handle, frames, behavior, result, used, owner, acked, told>>

DropBehaviors == {"rollback", "commit", "ignore", "panic"}

\* struct Transaction, and whether the JavaScript object exists.
Handle == [state : {"unborn", "live", "freed"},
           finished : BOOLEAN,
           drop_behavior : DropBehaviors]

\* A running savepoint call: struct Savepoint of rusqlite, the rows the
\* connection read when it was called, and whether it opened the transaction.
Frame == [name : Names, entry : SUBSET Writes, outermost : BOOLEAN]

Fates == {"open", "committed", "rolledback", "ignored"}

TypeOK ==
    /\ db \in Db
    /\ handle \in [Handles -> Handle]
    /\ frames \in Seq(Frame)
    /\ behavior \in Behaviors
    /\ result \in {"return", "throw"}
    /\ used \subseteq Writes
    /\ owner \in Handles \cup {Nobody}
    /\ acked \in [Handles -> SUBSET Writes]
    /\ told \in [Handles -> Fates]

Init ==
    /\ db = Idle({})
    /\ handle = [t \in Handles |-> [state |-> "unborn", finished |-> FALSE,
                                    drop_behavior |-> "rollback"]]
    /\ frames = <<>>
    /\ behavior = "deferred"
    /\ result = "return"
    /\ used = {}
    /\ owner = Nobody
    /\ acked = [t \in Handles |-> {}]
    /\ told = [t \in Handles |-> "open"]

----------------------------------------------------------------------------
Live(t)     == handle[t].state = "live"
Open(t)     == Live(t) /\ ~ handle[t].finished
TclAllowed  == frames = <<>> \/ TclInCallback
Returned(r) == result' = IF r.ok THEN "return" ELSE "throw"

\* The transaction keeps its owner until it ends.
KeepOwner == owner' = IF db'.autocommit THEN Nobody ELSE owner

\* execute_batch of one statement, with what it returns to the program.
Run(results) == \E r \in results : db' = r.db /\ Returned(r)

SeededDropOfUnchecked(option) == option

\* The drop behavior is Rollback when the options name none.
DropOf(option) == IF option = "default" THEN "rollback" ELSE option

\* Connection.transaction(options).  The statement depends on the options
\* alone, DEFERRED when they name no behavior.
transaction(t, option, drop) ==
    /\ handle[t].state = "unborn"
    /\ TclAllowed
    /\ Run(SqlBegin(db, IF option = "default" THEN "deferred" ELSE option))
    /\ IF result' = "return"
       THEN /\ handle' = [handle EXCEPT ![t] = [state |-> "live",
                             finished |-> FALSE, drop_behavior |-> DropOf(drop)]]
            /\ owner' = t
       ELSE UNCHANGED <<handle, owner>>
    /\ UNCHANGED <<frames, behavior, used, acked, told>>

\* Connection.setTransactionBehavior
set_transaction_behavior(b) ==
    /\ behavior' = b
    /\ result' = "return"
    /\ UNCHANGED <<db, handle, frames, history>>

SeededFinishAlways(t, results, fate) ==
    /\ Run(results)
    /\ handle' = [handle EXCEPT ![t].finished = TRUE]
    /\ told' = [told EXCEPT ![t] = fate]
    /\ KeepOwner

SeededFinishForgets(t, results, fate) ==
    /\ Run(results)
    /\ UNCHANGED <<handle, told>>
    /\ KeepOwner

\* The handle is finished only once its statement has succeeded.
Finish(t, results, fate) ==
    /\ Run(results)
    /\ IF result' = "return"
       THEN /\ handle' = [handle EXCEPT ![t].finished = TRUE]
            /\ told' = [told EXCEPT ![t] = fate]
       ELSE UNCHANGED <<handle, told>>
    /\ KeepOwner

\* "Transaction already completed"
AlreadyFinished(t) ==
    /\ handle[t].finished
    /\ result' = "throw"
    /\ UNCHANGED <<db, handle, owner, told>>

commit(t) ==
    /\ Live(t) /\ TclAllowed
    /\ \/ AlreadyFinished(t)
       \/ ~ handle[t].finished /\ Finish(t, SqlCommit(db), "committed")
    /\ UNCHANGED <<frames, behavior, used, acked>>

rollback(t) ==
    /\ Live(t) /\ TclAllowed
    /\ \/ AlreadyFinished(t)
       \/ ~ handle[t].finished /\ Finish(t, SqlRollback(db), "rolledback")
    /\ UNCHANGED <<frames, behavior, used, acked>>

set_drop_behavior(t, drop) ==
    /\ Live(t)
    /\ handle' = [handle EXCEPT ![t].drop_behavior = drop]
    /\ result' = "return"
    /\ UNCHANGED <<db, frames, behavior, history>>

\* dispose() acts once; it does nothing for a finished handle.
dispose(t) ==
    /\ Live(t) /\ TclAllowed
    /\ \/ /\ handle[t].finished
          /\ result' = "return"
          /\ UNCHANGED <<db, handle, owner, told>>
       \/ /\ Open(t) /\ handle[t].drop_behavior = "rollback"
          /\ Finish(t, SqlRollback(db), "rolledback")
       \/ /\ Open(t) /\ handle[t].drop_behavior = "commit"
          /\ Finish(t, SqlCommit(db), "committed")
       \/ /\ Open(t) /\ handle[t].drop_behavior = "ignore"
          /\ Finish(t, {Ok(db)}, "ignored")
       \/ /\ Open(t) /\ handle[t].drop_behavior = "panic"
          /\ result' = "throw"
          /\ UNCHANGED <<db, handle, owner, told>>
    /\ UNCHANGED <<frames, behavior, used, acked>>

----------------------------------------------------------------------------
\* execute(sql): through the handle `via', or through the Connection or a
\* ScopedConnection (via = Conn).  A handle does not look at `finished' here.
\* The row counts for the open handle it came through; one that came through
\* the connection or a finished handle counts for the handle that began the
\* open transaction, if there is one.
execute(w, via) ==
    /\ w \notin used
    /\ via \in Handles => Live(via)
    /\ Run(SqlInsert(db, w))
    /\ used' = used \cup {w}
    /\ LET t == IF via \in Handles /\ Open(via) THEN via ELSE owner IN
       acked' = IF result' = "return" /\ t \in Handles
                THEN [acked EXCEPT ![t] = @ \cup {w}] ELSE acked
    /\ KeepOwner
    /\ UNCHANGED <<handle, frames, behavior, told>>

\* executeBatch(sql) with a transaction statement as SQL text.
execute_batch ==
    /\ RawSql /\ TclAllowed
    /\ \/ \E b \in Behaviors : Run(SqlBegin(db, b))
       \/ Run(SqlCommit(db))
       \/ Run(SqlRollback(db))
       \/ \E n \in Names : \/ /\ Len(db.savepoints) < MaxSavepoints
                              /\ Run(SqlSavepoint(db, n))
                           \/ Run(SqlRelease(db, n))
                           \/ Run(SqlRollbackTo(db, n))
    /\ KeepOwner
    /\ UNCHANGED <<handle, frames, behavior, used, acked, told>>

\* savepoint(callback), savepointWithName(name, callback): the call enters
\* the callback ...
savepoint_with_name(n) ==
    /\ Len(frames) < MaxDepth
    /\ Run(SqlSavepoint(db, n))
    /\ frames' = Append(frames, [name |-> n, entry |-> db.view,
                                 outermost |-> db.autocommit])
    /\ KeepOwner
    /\ UNCHANGED <<handle, behavior, used, acked, told>>

SeededDropReleasesOnly(d, n) == {r.db : r \in SqlRelease(d, n)}

SeededDropSavepointKeepsIt(d, n) == {r.db : r \in SqlRollbackTo(d, n)}

\* Savepoint::finish_ with DropBehavior::Rollback: what dropping a savepoint
\* that was not committed leaves behind.  Its errors go nowhere.
DropSavepoint(d, n) ==
    UNION {IF r.ok THEN {s.db : s \in SqlRelease(r.db, n)} ELSE {r.db} :
           r \in SqlRollbackTo(d, n)}

\* ... the callback returned, and the savepoint is released; if that fails the
\* savepoint is dropped, and the call throws;
SavepointCommit(d, n) ==
    UNION {IF r.ok THEN {r} ELSE {Err(e) : e \in DropSavepoint(r.db, n)} :
           r \in SqlRelease(d, n)}

SeededSavepointRollbackReleases(d, n) == SavepointCommit(d, n)

\* ... or it threw, and the savepoint is rolled back, then dropped.
SavepointRollback(d, n) ==
    UNION {{[db |-> e, ok |-> r.ok] : e \in DropSavepoint(r.db, n)} :
           r \in SqlRollbackTo(d, n)}

TopFrame == frames[Len(frames)]

\* The user counts the rows inserted since the call as undone when the
\* callback threw and the call returned, or when the release failed.
SavepointReturn(threw) ==
    /\ frames # <<>>
    /\ Run(IF threw THEN SavepointRollback(db, TopFrame.name)
                    ELSE SavepointCommit(db, TopFrame.name))
    /\ frames' = SubSeq(frames, 1, Len(frames) - 1)
    /\ acked' = IF threw = (result' = "return")
                THEN [t \in Handles |-> IF Open(t) \/ owner = t
                                        THEN acked[t] \cap TopFrame.entry
                                        ELSE acked[t]]
                ELSE acked
    /\ KeepOwner
    /\ UNCHANGED <<handle, behavior, used, told>>

----------------------------------------------------------------------------
\* The process ends and a new one opens the file: SQLite rolls the open
\* transaction back, and every JavaScript object is gone.
Restarted ==
    /\ db' = Idle(db.disk)
    /\ handle' = [t \in Handles |->
                    IF handle[t].state = "unborn" THEN handle[t]
                    ELSE [handle[t] EXCEPT !.state = "freed"]]
    /\ frames' = <<>>
    /\ behavior' = "deferred"
    /\ result' = "return"
    /\ owner' = Nobody
    /\ UNCHANGED <<used, acked, told>>

Restart == (\E t \in Handles : handle[t].state # "unborn") /\ Restarted

\* COMMIT, and ROLLBACK when it fails; the error is thrown away either way.
CommitElseRollback(d) ==
    UNION {IF r.ok THEN {r} ELSE {Err(s.db) : s \in SqlRollback(r.db)} :
           r \in SqlCommit(d)}

SeededFinalizeIgnoresFinished(t) ==
    /\ Live(t) /\ frames = <<>>
    /\ ~ db.autocommit
    /\ \E r \in SqlRollback(db) : db' = r.db
    /\ told' = [told EXCEPT ![t] = "rolledback"]
    /\ handle' = [handle EXCEPT ![t].state = "freed"]
    /\ KeepOwner
    /\ UNCHANGED <<frames, behavior, result, used, acked>>

\* ObjectFinalize for Transaction.  A panic there aborts the process.
finalize(t) ==
    /\ Live(t) /\ frames = <<>>
    /\ IF handle[t].finished \/ db.autocommit
       THEN db' = db /\ told' = told
       ELSE \/ /\ handle[t].drop_behavior = "commit"
               /\ \E r \in CommitElseRollback(db) :
                     /\ db' = r.db
                     /\ told' = [told EXCEPT ![t] =
                                   IF r.ok THEN "committed" ELSE "rolledback"]
            \/ /\ handle[t].drop_behavior = "rollback"
               /\ \E r \in SqlRollback(db) : db' = r.db
               /\ told' = [told EXCEPT ![t] = "rolledback"]
            \/ /\ handle[t].drop_behavior = "ignore"
               /\ db' = db
               /\ told' = [told EXCEPT ![t] = "ignored"]
    /\ handle' = [handle EXCEPT ![t].state = "freed"]
    /\ KeepOwner
    /\ UNCHANGED <<frames, behavior, result, used, acked>>

finalize_panic(t) ==
    /\ Live(t) /\ frames = <<>>
    /\ ~ handle[t].finished /\ ~ db.autocommit
    /\ handle[t].drop_behavior = "panic"
    /\ Restarted

----------------------------------------------------------------------------
Next ==
    \/ \E t \in Handles :
          \/ \E option \in Options, drop \in Drops \cup {"default"} :
                transaction(t, option, drop)
          \/ commit(t) \/ rollback(t) \/ dispose(t)
          \/ \E drop \in Drops : set_drop_behavior(t, drop)
          \/ finalize(t) \/ finalize_panic(t)
    \/ \E b \in Defaults : set_transaction_behavior(b)
    \/ \E w \in Writes, via \in Handles \cup {Conn} : execute(w, via)
    \/ execute_batch
    \/ \E n \in Names : savepoint_with_name(n)
    \/ \E threw \in BOOLEAN : SavepointReturn(threw)
    \/ Restart

Spec == Init /\ [][Next]_vars
----------------------------------------------------------------------------
(* Properties that hold of every program.                                  *)

\* The engine's asserts and snapshot order, in every reachable state.
EngineInv == EngineOK(db)

\* A transaction that a handle began has that handle, neither finished nor
\* collected, as long as it is open, whatever fails in commit(), rollback(),
\* dispose() and the finalizer; only a handle told to ignore it leaves it
\* behind.
NoOrphanTransaction ==
    owner # Nobody => Open(owner) \/ told[owner] = "ignored"

\* Rows another process can read are never taken back: no call, error path or
\* finalizer undoes a commit.
CommitsAreFinal == [][db.disk \subseteq db'.disk]_vars

\* The connection implements AtomicStore: every call, however it fails, is one
\* atomic step of the store or none.
Store == INSTANCE AtomicStore
            WITH Row <- Writes, BadRow <- BadWrites,
                 committed <- db.disk, view <- db.view,
                 open <- ~ db.autocommit
ImplementsStore == Store!ASpec

----------------------------------------------------------------------------
(* Properties that need a disciplined program, or fewer faults.             *)

\* The open handle is the one whose BEGIN opened the connection's
\* transaction, so its commit() and rollback() act on its own transaction.
OpenOwnsTransaction ==
    \A t \in Handles : Open(t) => owner = t /\ ~ db.autocommit /\ ~ db.root

\* Nothing inserted in a handle's transaction is durable before its commit,
\* through nested savepoint releases, failed commits, drops and process
\* restarts; nor after its rollback; nor when the handle ignored the
\* transaction, which nobody can then commit.
NothingDurableBeforeCommit ==
    \A t \in Handles : told[t] # "committed" => acked[t] \cap db.disk = {}

\* "Use `commit()` to persist changes": once a handle reports its commit,
\* every row its user was told is in is durable.
CommitPersists ==
    \A t \in Handles : told[t] = "committed" => acked[t] \subseteq db.disk

\* "Runs a savepoint and commits on success or rolls back on error": when the
\* callback threw and the call returned, the connection reads exactly what it
\* read when the call began.
ThrownSavepointRestores ==
    [][SavepointReturn(TRUE) /\ result' = "return"
          => db'.view = TopFrame.entry]_vars

\* When a savepoint call made outside a transaction throws, because its release
\* timed out on a busy file or met a violated foreign key, its rows are gone for
\* the connection and for everybody else, also if the file is free again when
\* the savepoint is dropped and the second RELEASE is a commit.
FailedSavepointUndone ==
    [][Len(frames') < Len(frames) /\ TopFrame.outermost /\ result' = "throw"
          => db'.view = TopFrame.entry /\ db'.disk = TopFrame.entry]_vars

\* A savepoint call made outside a transaction leaves no transaction open,
\* whether it commits, rolls back or throws.
SavepointLeavesNoTransaction ==
    [][Len(frames') < Len(frames) /\ frames # <<>> /\ TopFrame.outermost
          => db'.autocommit]_vars

\* A handle ends only the transaction it began.
HandleEndsOwnTransaction ==
    [][\A t \in Handles : commit(t) \/ rollback(t) \/ dispose(t) \/ finalize(t)
          => owner \in {t, Nobody} \/ owner' = owner]_vars
=============================================================================
