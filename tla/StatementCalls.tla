--------------------------- MODULE StatementCalls ---------------------------
(***************************************************************************)
(* One call of the statement API, sqlite3_step by sqlite3_step: parameters  *)
(* are bound, the virtual machine is stepped, reset, and its results become *)
(* what execute(), insert(), query(), exists(), queryRow() and queryOne()   *)
(* return or throw.  NodeTransaction takes such a call as one step; here    *)
(* the step is opened up.                                                   *)
(*                                                                         *)
(* The table has two columns, a CHECK that holds for the rows in Writes     *)
(* alone, and no row twice.  JavaScript has one thread, so one call runs at *)
(* a time, while other prepared statements wait with their parameters.      *)
(***************************************************************************)
EXTENDS SqliteTxn, FiniteSets

CONSTANTS
    Statements,    \* prepared statements a program holds at the same time
    Temporary,     \* the statement of a call made on the Connection
    NoStatement,   \* not a statement
    Values, Null,  \* what can be bound, NULL among them
    Huge,          \* a string longer than SQLite takes
    Parameters,    \* the arrays programs pass; <<>> also stands for one a
                   \* Connection cannot convert
    Kinds,         \* the SQL programs use
    Apis           \* the calls they make

ASSUME StatementsAssumption ==
    NoStatement # Temporary /\ {NoStatement, Temporary} \cap Statements = {}
ASSUME ValuesAssumption ==
    /\ Null \in Values /\ Huge \notin Values
    /\ Writes \subseteq Values \X Values
    /\ Parameters \subseteq Seq(Values \cup {Huge})
ASSUME KindsAssumption ==
    /\ Kinds \subseteq {"select", "insert", "insert or ignore",
                        "insert returning", "begin", "commit", "rollback"}
    /\ Apis \subseteq {"execute", "insert", "query", "exists", "query_row",
                       "query_one"}

VARIABLES
    db,           \* the engine
    stmts,        \* struct Vdbe, for each statement
    call,         \* the call that runs
    changes,      \* nChange of the connection
    rowid,        \* the row that lastRowid belongs to
    interrupted,  \* isInterrupted
    result        \* did the last call return or throw?

vars == <<db, stmts, call, changes, rowid, interrupted, result>>

AllStatements == Statements \cup {Temporary}
NoRow == <<>>
Rows == Values \X Values

\* struct Vdbe: `todo' are the rows a running statement has yet to yield.
Vdbe == [sql   : Kinds \cup {"none"},
         state : {"none", "ready", "run", "halt"},
         bound : Seq(Values),
         todo  : SUBSET Rows]

\* `last' is what the latest step gave, `got' the rows read so far, `before'
\* the connection when the call began.
Call == [stmt   : AllStatements \cup {NoStatement},
         api    : Apis \cup {"none"},
         params : Parameters \cup {<<>>},
         before : Db,
         got    : SUBSET Rows,
         last   : {"start", "row", "done", "error", "interrupt"}]

TypeOK ==
    /\ db \in Db
    /\ stmts \in [AllStatements -> Vdbe]
    /\ call \in Call
    /\ changes \in 0..1
    /\ rowid \in Rows \cup {NoRow}
    /\ interrupted \in BOOLEAN
    /\ result \in {"return", "throw"}

Unprepared == [sql |-> "none", state |-> "none", bound |-> <<>>, todo |-> {}]
NoCall(d) == [stmt |-> NoStatement, api |-> "none", params |-> <<>>,
              before |-> d, got |-> {}, last |-> "start"]

Init ==
    /\ db = Idle({})
    /\ stmts = [s \in AllStatements |-> Unprepared]
    /\ call = NoCall(db)
    /\ changes = 0
    /\ rowid = NoRow
    /\ interrupted = FALSE
    /\ result = "return"

----------------------------------------------------------------------------
\* Operators named Seeded... are wrong on purpose, as in SqliteTxn.

Calling == call.stmt # NoStatement
Running == {s \in AllStatements : stmts[s].state = "run"}
Inserting(sql) == sql \in {"insert", "insert or ignore", "insert returning"}

\* SQL without result columns, or that writes, may be execute()d.
Executable(sql) == sql # "select"

SeededClearNever == interrupted

\* isInterrupted once a statement starts: only a statement that already runs
\* keeps the flag up.
ClearInterrupt == interrupted /\ Running # {}

Prepared(sql) ==
    [sql |-> sql, state |-> "ready", todo |-> {},
     bound |-> IF Inserting(sql) THEN <<Null, Null>> ELSE <<>>]

\* Connection.prepare(sql, callback); the program keeps the statement.
prepare(s, sql) ==
    /\ ~ Calling
    /\ stmts[s].state = "none"
    /\ stmts' = [stmts EXCEPT ![s] = Prepared(sql)]
    /\ interrupted' = ClearInterrupt
    /\ UNCHANGED <<db, call, changes, rowid, result>>

clear_bindings(s) ==
    /\ ~ Calling
    /\ stmts[s].state # "none"
    /\ stmts' = [stmts EXCEPT ![s].bound = [i \in DOMAIN @ |-> Null]]
    /\ UNCHANGED <<db, call, changes, rowid, interrupted, result>>

\* ObjectFinalize for ScopedStatement.
finalize(s) ==
    /\ ~ Calling
    /\ stmts[s].state # "none"
    /\ stmts' = [stmts EXCEPT ![s] = Unprepared]
    /\ UNCHANGED <<db, call, changes, rowid, interrupted, result>>

\* InterruptHandle.interrupt()
interrupt ==
    /\ ~ Calling
    /\ interrupted' = TRUE
    /\ UNCHANGED <<db, stmts, call, changes, rowid, result>>

----------------------------------------------------------------------------
\* No parameter before the i-th is refused.
Reached(params, i) == \A j \in 1..i-1 : params[j] # Huge

SeededBoundUnchecked(params, bound) ==
    [i \in 1..Len(bound) |-> IF i <= Len(params) THEN params[i] ELSE bound[i]]

\* bind_parameters: what is bound afterwards.  A refused parameter becomes
\* NULL, those before it stay bound, those after it are not looked at.
Bound(params, bound) ==
    [i \in 1..Len(bound) |->
        IF i > Len(params) \/ ~ Reached(params, i) THEN bound[i]
        ELSE IF params[i] = Huge THEN Null ELSE params[i]]

SeededBindsFew(params, bound) ==
    /\ Len(params) <= Len(bound)
    /\ \A i \in 1..Len(params) : params[i] # Huge

\* The call goes on only if every parameter was bound and none is left over.
BindsAll(params, bound) ==
    /\ Len(params) = Len(bound)
    /\ \A i \in 1..Len(params) : params[i] # Huge

\* Does the call go on to step?  A statement in use cannot be bound.
Accepted(vdbe, api, params) ==
    /\ vdbe.state = "ready" \/ params = <<>>
    /\ BindsAll(params, vdbe.bound)
    /\ api \in {"execute", "insert"} => Executable(vdbe.sql)

\* A call on the statement s, which is `vdbe' at that moment: its parameters
\* are bound, and it either throws at once or goes on.
Begin(s, vdbe, api, params) ==
    LET bound == IF vdbe.state = "ready" THEN Bound(params, vdbe.bound)
                                         ELSE vdbe.bound IN
    IF Accepted(vdbe, api, params)
    THEN /\ stmts' = [stmts EXCEPT ![s] = [vdbe EXCEPT !.bound = bound]]
         /\ call' = [stmt |-> s, api |-> api, params |-> params,
                     before |-> db, got |-> {}, last |-> "start"]
         /\ UNCHANGED result
    ELSE /\ stmts' = [stmts EXCEPT ![s] = IF s = Temporary THEN Unprepared
                                   ELSE [vdbe EXCEPT !.bound = bound]]
         /\ UNCHANGED call
         /\ result' = "throw"

\* Statement.execute(params), insert(params), query(params), exists(params)
StatementCall(s, api, params) ==
    /\ ~ Calling
    /\ stmts[s].state # "none"
    /\ Begin(s, stmts[s], api, params)
    /\ UNCHANGED <<db, changes, rowid, interrupted>>

\* Connection.execute(sql, params), queryRow(sql, params), queryOne(sql,
\* params): a statement of its own, prepared for the call.
ConnectionCall(sql, api, params) ==
    /\ ~ Calling
    /\ Begin(Temporary, Prepared(sql), api, params)
    /\ interrupted' = ClearInterrupt
    /\ UNCHANGED <<db, changes, rowid>>

----------------------------------------------------------------------------
(* sqlite3_step.  An Outcome is the connection, the result code, the row    *)
(* yielded, and the rows still to come, nChange and lastRowid afterwards.   *)

Outcome(d, last, row, todo, n, id) ==
    [db |-> d, last |-> last, row |-> row, todo |-> todo,
     changes |-> n, rowid |-> id]

SeededCommitErrorIgnored(d, n, id) ==
    {Outcome(IF d.autocommit THEN Idle(r.db.disk) ELSE d,
             "done", NoRow, {}, n, id) : r \in EndByCommit(d, Idle(d.disk))}

SeededHaltKeepsRow(d, n, id) ==
    IF d.autocommit
    THEN {Outcome(r.db, IF r.ok THEN "done" ELSE "error", NoRow, {}, n, id) :
          r \in EndByCommit(d, Idle(d.disk))}
    ELSE {Outcome(d, "done", NoRow, {}, n, id)}

SeededHaltCommitsAnyway(d, n, id) ==
    IF d.autocommit
    THEN {Outcome(Idle(d.view), IF r.ok THEN "done" ELSE "error", NoRow, {}, n, id) :
          r \in EndByCommit(d, Idle(d.disk))}
    ELSE {Outcome(d, "done", NoRow, {}, n, id)}

\* sqlite3VdbeHalt after an INSERT that succeeded: in autocommit mode it
\* commits, and rolls back if that fails, even on a busy file.
Halt(d, n, id) ==
    IF d.autocommit
    THEN {IF r.ok THEN Outcome(r.db, "done", NoRow, {}, n, id)
                  ELSE Outcome(Idle(d.disk), "error", NoRow, {}, 0, id) :
          r \in EndByCommit(d, Idle(d.disk))}
    ELSE {Outcome(d, "done", NoRow, {}, n, id)}

\* sqlite3VdbeHalt after an INSERT that failed; `d' is without its row.
Fail(d, last, id) ==
    Outcome(IF d.autocommit THEN Idle(d.disk) ELSE d, last, NoRow, {}, 0, id)

\* INSERT: it takes the lock, checks its constraints, and writes the row; all
\* that comes before INSERT ... RETURNING yields its row.
Insert(vdbe, d) ==
    LET row     == vdbe.bound
        locked  == [d EXCEPT !.lock = LockFor(@, "immediate")]
        written == [d EXCEPT !.lock = Dirtied(@), !.view = @ \cup {row}]
    IN  IF row \notin Writes \/ row \in d.view
        THEN IF vdbe.sql = "insert or ignore" THEN Halt(locked, 0, rowid)
                                              ELSE {Fail(locked, "error", rowid)}
        ELSE (IF vdbe.sql = "insert returning"
              THEN {Outcome(written, "row", row, {}, changes, row)}
              ELSE Halt(written, 1, row))
             \cup {r \in {Fail(d, "error", rowid)} :
                        "busy" \in Faults /\ locked # d}
             \cup {r \in {Fail(Idle(d.disk), "error", row)} :
                        "special" \in Faults}

\* SELECT yields the rows it found when it started, in any order.  A busy file
\* stops it before the first one, an I/O error at any of them; the latter
\* rolls the transaction back.
Select(vdbe, d) ==
    LET todo == IF vdbe.state = "run" THEN vdbe.todo ELSE d.view IN
    (IF todo = {} THEN {Outcome(d, "done", NoRow, {}, changes, rowid)}
     ELSE {Outcome(d, "row", row, todo \ {row}, changes, rowid) : row \in todo})
    \cup {r \in {Outcome(d, "error", NoRow, {}, changes, rowid)} :
               "busy" \in Faults /\ vdbe.state # "run" /\ d.lock = "none"}
    \cup {r \in {Outcome(Idle(d.disk), "error", NoRow, {}, changes, rowid)} :
               "special" \in Faults}

Transact(sql, d) ==
    {Outcome(r.db, IF r.ok THEN "done" ELSE "error", NoRow, {}, changes, rowid) :
     r \in CASE sql = "begin"    -> SqlBegin(d, "deferred")
             [] sql = "commit"   -> SqlCommit(d)
             [] sql = "rollback" -> SqlRollback(d)}

\* An interrupted SELECT just stops; an INSERT rolls the transaction back.
Interrupt(vdbe, d) ==
    {IF Inserting(vdbe.sql) THEN Fail(Idle(d.disk), "interrupt", rowid)
     ELSE Outcome(d, "interrupt", NoRow, {}, changes, rowid)}

\* One step: the statement starts, or goes on if it runs.
StepOf(vdbe, d, stop) ==
    CASE stop -> Interrupt(vdbe, d)
      [] ~ stop /\ vdbe.sql = "select" -> Select(vdbe, d)
      [] ~ stop /\ Inserting(vdbe.sql) ->
            IF vdbe.state = "run" THEN Halt(d, 1, rowid) ELSE Insert(vdbe, d)
      [] OTHER -> Transact(vdbe.sql, d)

\* sqlite3_reset.  A statement that still runs is halted: INSERT ... RETURNING
\* commits here.
ResetOf(vdbe, d) ==
    IF vdbe.state = "run" /\ Inserting(vdbe.sql) THEN Halt(d, 1, rowid)
    ELSE {Outcome(d, "done", NoRow, {}, changes, rowid)}

----------------------------------------------------------------------------
SeededStepsAgainAfterError ==
    \/ call.last = "start"
    \/ call.api = "query" /\ call.last \in {"row", "error"}

\* query() steps until there is no row, query_one() looks for a second one,
\* the others step once.
WantsStep ==
    \/ call.last = "start"
    \/ call.api = "query" /\ call.last = "row"
    \/ call.api = "query_one" /\ call.last = "row" /\ Cardinality(call.got) = 1

Step ==
    /\ Calling /\ WantsStep
    /\ interrupted' = ClearInterrupt
    /\ \E o \in StepOf(stmts[call.stmt], db, interrupted') :
          /\ db' = o.db
          /\ changes' = o.changes
          /\ rowid' = o.rowid
          /\ stmts' = [stmts EXCEPT ![call.stmt].todo = o.todo,
                ![call.stmt].state = IF o.last = "row" THEN "run" ELSE "halt"]
          /\ call' = [call EXCEPT !.last = o.last,
                                  !.got = @ \cup ({o.row} \ {NoRow})]
    /\ UNCHANGED result

SeededInsertAnyCount(n) ==
    CASE call.api \in {"execute", "insert"} -> call.last = "done"
      [] call.api = "query" -> TRUE
      [] call.api = "exists" -> call.last \in {"row", "done"}
      [] call.api = "query_row" -> call.last = "row"
      [] call.api = "query_one" -> call.last = "done" /\ call.got # {}

\* Does the call return, or throw?  n is changes() after the reset.  query()
\* takes an error for the end of the rows.
Returns(n) ==
    CASE call.api = "execute" -> call.last = "done"
      [] call.api = "insert" -> call.last = "done" /\ n = 1
      [] call.api = "query" -> TRUE
      [] call.api = "exists" -> call.last \in {"row", "done"}
      [] call.api = "query_row" -> call.last = "row"
      [] call.api = "query_one" -> call.last = "done" /\ call.got # {}

SeededRowsNotReset(vdbe) == vdbe

\* The statement after sqlite3_reset.
Rewound(vdbe) == [vdbe EXCEPT !.state = "ready", !.todo = {}]

\* The call ends: the statement is reset, and what the reset says is dropped.
\* A statement made for the call is finalized.
Finish ==
    /\ Calling /\ ~ WantsStep
    /\ \E o \in ResetOf(stmts[call.stmt], db) :
          /\ db' = o.db
          /\ changes' = o.changes
    /\ stmts' = [stmts EXCEPT ![call.stmt] =
                    IF call.stmt = Temporary THEN Unprepared ELSE Rewound(@)]
    /\ result' = IF Returns(changes') THEN "return" ELSE "throw"
    /\ call' = NoCall(db')
    /\ UNCHANGED <<rowid, interrupted>>

----------------------------------------------------------------------------
StatementApis == Apis \cap {"execute", "insert", "query", "exists"}
ConnectionApis == Apis \cap {"execute", "query_row", "query_one"}

Next ==
    \/ \E s \in Statements :
          \/ \E sql \in Kinds : prepare(s, sql)
          \/ clear_bindings(s) \/ finalize(s)
          \/ \E api \in StatementApis, params \in Parameters :
                StatementCall(s, api, params)
    \/ \E sql \in Kinds, api \in ConnectionApis, params \in Parameters :
          ConnectionCall(sql, api, params)
    \/ interrupt
    \/ Step
    \/ Finish

Spec == Init /\ [][Next]_vars

\* A call runs natively until it is done: nothing can hold up its steps.
FairSpec == Spec /\ WF_vars(Step) /\ WF_vars(Finish)

----------------------------------------------------------------------------
(* Properties that hold of every program.                                  *)

\* Between two calls no statement runs, whatever the call before met, and the
\* engine is as NodeTransaction takes it to be: nothing is written outside a
\* transaction without being committed.
IdleBetweenCalls ==
    ~ Calling => /\ \A s \in AllStatements : stmts[s].state \in {"none", "ready"}
                 /\ stmts[Temporary] = Unprepared
                 /\ EngineOK(db)

\* A statement is stepped with the parameters of its call alone: nothing an
\* earlier call bound, or half bound before it threw, gets into the row.
BindingsAreParams == Calling => stmts[call.stmt].bound = call.params

\* "Connection should still be usable": an interrupt() that came before a call
\* does not interrupt it.
InterruptDoesNotLeak == call.last # "interrupt"

\* insert() returns the rowid of the row it inserted, never an older one.
InsertReturnsItsRowid ==
    [][Finish /\ call.api = "insert" /\ Inserting(stmts[call.stmt].sql)
              /\ result' = "return"
          => /\ rowid' = call.params
             /\ call.params \in db'.view \ call.before.view]_vars

\* execute() of an INSERT does what SqlInsert says in one step, and returns
\* the number of rows it added.
ExecuteIsSqlInsert ==
    [][Finish /\ call.api = "execute" /\ stmts[call.stmt].sql = "insert"
          => \E r \in SqlInsert(call.before, call.params) :
                /\ r.db = db' /\ r.ok = (result' = "return")
                /\ r.ok => changes' = Cardinality(db'.view \ call.before.view)]_vars

\* When SQLite fails in the middle of a call, nothing of the call is left:
\* it has committed nothing, and the connection reads what it read before, or,
\* if SQLite rolled a transaction back, what was committed before.
FailedCallUndone ==
    [][Finish /\ call.last = "error"
          => /\ db'.disk = call.before.disk
             /\ db'.view \in {call.before.view, call.before.disk}]_vars

\* What the program takes for the contents of the database: outside a
\* transaction a row counts once it is committed.
Seen(d) == IF d.autocommit THEN d.disk ELSE d.view

\* The row of an INSERT is in the database: to be read, and committed unless a
\* transaction is open.
RowIsThere ==
    stmts[call.stmt].sql \in {"insert", "insert returning"}
       => call.params \in Seen(db')

\* When execute(), insert() or queryOne() of an INSERT returns, its row is in
\* the database, whatever failed while the statement was halted.
ReturnMeansDone ==
    [][Finish /\ result' = "return"
              /\ call.api \in {"execute", "insert", "query_one"} => RowIsThere]_vars

\* However a call is cut into steps, and whatever fails at any of them, to the
\* database it is a few atomic steps: a row is committed whole at the end of
\* its statement, or was never there, and a transaction ends in one step.
Store == INSTANCE AtomicStore
            WITH Row <- Writes, BadRow <- BadWrites,
                 committed <- db.disk, view <- Seen(db), open <- ~ db.autocommit

ImplementsStore == Store!ASpec

\* A call cannot step for ever: after its first step each one is the last, or
\* leaves the statement fewer rows to yield.
StepsRunOut ==
    [][Step /\ call.last # "start"
          => \/ ~ WantsStep'
             \/ /\ stmts'[call.stmt].todo \subseteq stmts[call.stmt].todo
                /\ stmts'[call.stmt].todo # stmts[call.stmt].todo]_vars

\* Every call comes to an end: no error makes it step for ever.
CallsEnd == Calling ~> ~ Calling

----------------------------------------------------------------------------
(* Promises of the documentation that the code breaks.                      *)

\* Also queryRow() returns only when its row is in the database.  "Will return
\* `Err` if the underlying SQLite call fails."
QueryRowMeansDone ==
    [][Finish /\ result' = "return" /\ call.api = "query_row" => RowIsThere]_vars

\* "All rows returned by the query": query() of a SELECT returns every row
\* that was there when it was called, or throws.
QueryReturnsEveryRow ==
    [][Finish /\ call.api = "query" /\ stmts[call.stmt].sql = "select"
              /\ result' = "return"
          => call.got = call.before.view]_vars
=============================================================================
