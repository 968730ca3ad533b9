------------------------ MODULE StatementCallsProofs ------------------------
(***************************************************************************)
(* Theorems about StatementCalls for all statements, values, parameters,    *)
(* kinds of SQL, calls and faults.                                          *)
(***************************************************************************)
EXTENDS StatementCalls, SqliteTxnProofs

----------------------------------------------------------------------------
(* What a step leaves.                                                      *)

\* In autocommit mode a statement that wrote its row and has not been halted:
\* everything but the view and the lock is as outside a transaction.
Written(d) ==
    /\ d \in Db
    /\ d = [Idle(d.disk) EXCEPT !.view = d.view, !.lock = d.lock]
    /\ d.disk \subseteq d.view
    /\ ~ DeferredViolation(d.disk)

\* A connection a statement may be halted on.
Haltable(d) == IF d.autocommit THEN Written(d) ELSE Sound(d)

Counted(o) == o.changes \in 0..1 /\ o.rowid \in Rows \cup {NoRow}

\* The outcome of a step after which the statement is halted.
Ended(o) ==
    /\ Counted(o) /\ Sound(o.db)
    /\ o.row = NoRow /\ o.todo = {} /\ o.last \in {"done", "error"}

\* A failure that leaves nothing of the statement begun on d, neither committed
\* nor to be read.
Undone(d, o) ==
    o.last = "error" => o.db.disk = d.disk /\ o.db.view \in {d.view, d.disk}

\* A connection between two statements may be halted on.
LEMMA SoundIsHaltable ==
    ASSUME NEW d, Sound(d)
    PROVE  Haltable(d)
<1>1. CASE d.autocommit
  <2>1. d = Idle(d.disk) /\ d.disk \subseteq d.view /\ ~ DeferredViolation(d.disk)
    BY <1>1 DEF Sound, EngineOK
  <2>2. d = [Idle(d.disk) EXCEPT !.view = d.view, !.lock = d.lock]
    BY <2>1 DEF Idle
  <2>3. QED
    BY <1>1, <2>1, <2>2 DEF Haltable, Written, Sound
<1>2. QED
  BY <1>1 DEF Haltable

\* The fields of an Outcome.
LEMMA OutcomeFields ==
    ASSUME NEW d, NEW last, NEW row, NEW todo, NEW n, NEW id
    PROVE  LET o == Outcome(d, last, row, todo, n, id) IN
           /\ o.db = d /\ o.last = last /\ o.row = row /\ o.todo = todo
           /\ o.changes = n /\ o.rowid = id
BY DEF Outcome

\* The lock and the view may change while a statement runs.
LEMMA WriteIsHaltable ==
    ASSUME NEW d, Sound(d), NEW lock \in Locks, NEW view \in SUBSET Writes,
           d.view \subseteq view
    PROVE  Haltable([d EXCEPT !.view = view, !.lock = lock])
<1> DEFINE e == [d EXCEPT !.view = view, !.lock = lock]
<1>1. e \in Db /\ e.disk = d.disk /\ e.view = view /\ e.lock = lock
      /\ e.autocommit = d.autocommit
  BY DEF Sound, Db
<1>2. CASE d.autocommit
  <2>1. d = Idle(d.disk) /\ d.disk \subseteq view /\ ~ DeferredViolation(d.disk)
    BY <1>2 DEF Sound, EngineOK
  <2>2. e = [Idle(e.disk) EXCEPT !.view = e.view, !.lock = e.lock]
    BY <1>1, <2>1 DEF Idle
  <2>3. QED
    BY <1>1, <1>2, <2>1, <2>2 DEF Haltable, Written
<1>3. CASE ~ d.autocommit
  <2>1. Follows(d, [db |-> e, ok |-> TRUE])
    BY <1>3, DirtiedFollows
  <2>2. QED
    BY <1>1, <1>3, <2>1 DEF Follows, Haltable
<1>4. QED
  BY <1>2, <1>3

\* What a connection that may be halted on becomes when it is rolled back.
LEMMA HaltableIdle ==
    ASSUME NEW d, Haltable(d)
    PROVE  /\ d \in Db
           /\ Sound(Idle(d.disk))
           /\ Idle(d.disk).view = d.disk /\ Idle(d.disk).disk = d.disk
           /\ ~ d.autocommit => Sound(d)
<1>1. d \in Db /\ ~ DeferredViolation(d.disk) /\ (~ d.autocommit => Sound(d))
  BY DEF Haltable, Written, Sound, EngineOK
<1>2. d.disk \in SUBSET Writes
  BY <1>1 DEF Db
<1>3. QED
  BY <1>1, <1>2, IdleSound DEF Idle

\* sqlite3VdbeHalt after an INSERT that succeeded leaves the engine sound; if its
\* commit fails, only what was committed is left.
LEMMA HaltEnds ==
    ASSUME NEW d, Haltable(d), NEW n \in 0..1, NEW id \in Rows \cup {NoRow},
           NEW o \in Halt(d, n, id)
    PROVE  Ended(o) /\ (o.last = "error" => o.db.disk = d.disk /\ o.db.view = d.disk)
<1>1. CASE ~ d.autocommit /\ o = Outcome(d, "done", NoRow, {}, n, id)
  BY <1>1, HaltableIdle, OutcomeFields DEF Ended, Counted
<1>2. CASE o = Outcome(Idle(d.disk), "error", NoRow, {}, 0, id)
  BY <1>2, HaltableIdle, OutcomeFields DEF Ended, Counted
<1>3. CASE \E r \in EndByCommit(d, Idle(d.disk)) :
             r.ok /\ o = Outcome(r.db, "done", NoRow, {}, n, id)
  <2>1. PICK r \in EndByCommit(d, Idle(d.disk)) :
             r.ok /\ o = Outcome(r.db, "done", NoRow, {}, n, id)
    BY <1>3
  <2>2. r = Ok(Idle(d.view)) /\ ~ DeferredViolation(d.view)
    BY <2>1 DEF EndByCommit, Ok, Err
  <2>3. d.view \in SUBSET Writes
    BY HaltableIdle DEF Db
  <2>4. Sound(r.db)
    BY <2>2, <2>3, IdleSound DEF Ok
  <2>5. QED
    BY <2>1, <2>4, OutcomeFields DEF Ended, Counted
<1>4. QED
  BY <1>1, <1>2, <1>3 DEF Halt

\* sqlite3VdbeHalt after an INSERT that failed leaves the engine sound, and the
\* view as it was or rolled back.
LEMMA FailEnds ==
    ASSUME NEW d, Haltable(d), NEW id \in Rows \cup {NoRow}
    PROVE  LET o == Fail(d, "error", id) IN
           Ended(o) /\ o.last = "error" /\ Undone(d, o)
<1> DEFINE e == IF d.autocommit THEN Idle(d.disk) ELSE d
           o == Fail(d, "error", id)
<1>1. o = Outcome(e, "error", NoRow, {}, 0, id)
  BY DEF Fail
<1>2. Sound(e) /\ e.disk = d.disk /\ e.view \in {d.view, d.disk}
  BY HaltableIdle
<1>3. QED
  BY <1>1, <1>2, OutcomeFields DEF Ended, Counted, Undone

----------------------------------------------------------------------------
(* One lemma per kind of SQL.                                               *)

\* INSERT ends, or yields the row it has written.
LEMMA InsertOutcomes ==
    ASSUME NEW d, Sound(d), NEW vdbe \in Vdbe, changes \in 0..1,
           rowid \in Rows \cup {NoRow}, NEW o \in Insert(vdbe, d)
    PROVE  \/ Ended(o) /\ Undone(d, o)
           \/ /\ o.last = "row" /\ o.row \in Rows /\ o.todo = {}
              /\ Haltable(o.db) /\ Counted(o) /\ o.db.disk = d.disk
<1> DEFINE row     == vdbe.bound
           lock    == LockFor(d.lock, "immediate")
           locked  == [d EXCEPT !.lock = LockFor(@, "immediate")]
           written == [d EXCEPT !.lock = Dirtied(@), !.view = @ \cup {row}]
<1>1. /\ d \in Db /\ d.view \in SUBSET Writes /\ d.disk \in SUBSET Writes
      /\ lock \in Locks /\ Dirtied(d.lock) \in Locks
  BY DEF Sound, Db, Locks, LockFor, Dirtied
<1>2. Haltable(locked) /\ locked.view = d.view /\ locked.disk = d.disk
  <2>1. /\ locked = [d EXCEPT !.view = d.view, !.lock = lock]
        /\ locked.view = d.view /\ locked.disk = d.disk
    BY <1>1 DEF Db
  <2>2. QED
    BY <1>1, <2>1, WriteIsHaltable
<1>3. Haltable(d) /\ Haltable(Idle(d.disk)) /\ Idle(d.disk).view = d.disk
      /\ Idle(d.disk).disk = d.disk
  BY IdleDisk, SoundIsHaltable DEF Idle
<1>4. CASE o \in Halt(locked, 0, rowid)
  <2>1. PICK l : l = locked
    OBVIOUS
  <2>2. Haltable(l) /\ l.disk = d.disk /\ o \in Halt(l, 0, rowid)
    BY <1>2, <1>4, <2>1
  <2>3. Ended(o) /\ (o.last = "error" => o.db.disk = d.disk /\ o.db.view = d.disk)
    BY <2>2, HaltEnds
  <2>4. QED
    BY <2>3 DEF Undone
<1>5. CASE o = Fail(locked, "error", rowid)
  BY <1>2, <1>5, FailEnds DEF Undone
<1>6. CASE o = Fail(d, "error", rowid)
  BY <1>3, <1>6, FailEnds DEF Undone
<1>7. CASE row \in Writes /\ o = Fail(Idle(d.disk), "error", row)
  <2>1. row \in Rows \cup {NoRow}
    BY <1>7, ValuesAssumption DEF Rows
  <2>2. Ended(o) /\ Undone(Idle(d.disk), o)
    BY <1>3, <1>7, <2>1, FailEnds
  <2>3. QED
    BY <1>3, <2>2 DEF Undone
<1>8. ASSUME row \in Writes
      PROVE  Haltable(written) /\ row \in Rows /\ written.disk = d.disk
  <2>1. /\ written = [d EXCEPT !.view = d.view \cup {row}, !.lock = Dirtied(d.lock)]
        /\ written.disk = d.disk
    BY <1>1 DEF Db
  <2>2. d.view \cup {row} \in SUBSET Writes /\ d.view \subseteq d.view \cup {row}
    BY <1>1, <1>8
  <2>3. QED
    BY <1>1, <1>8, <2>1, <2>2, WriteIsHaltable, ValuesAssumption DEF Rows
<1>9. CASE row \in Writes /\ o \in Halt(written, 1, row)
  <2>1. PICK x : x = written
    OBVIOUS
  <2>2. Haltable(x) /\ x.disk = d.disk /\ o \in Halt(x, 1, row) /\ row \in Rows
    BY <1>8, <1>9, <2>1
  <2>3. Ended(o) /\ (o.last = "error" => o.db.disk = d.disk /\ o.db.view = d.disk)
    BY <2>2, HaltEnds
  <2>4. QED
    BY <2>3 DEF Undone
<1>10. CASE row \in Writes /\ o = Outcome(written, "row", row, {}, changes, row)
  <2>1. PICK x : x = written
    OBVIOUS
  <2>2. Haltable(x) /\ x.disk = d.disk /\ row \in Rows
    BY <1>8, <1>10, <2>1
  <2>3. o = Outcome(x, "row", row, {}, changes, row)
    BY <1>10, <2>1
  <2>4. QED
    BY <2>2, <2>3, OutcomeFields DEF Counted
<1>11. QED
  BY <1>4, <1>5, <1>6, <1>7, <1>9, <1>10 DEF Insert

\* SELECT ends, or yields a row and leaves the connection alone.
LEMMA SelectOutcomes ==
    ASSUME NEW d, Sound(d), NEW vdbe \in Vdbe, changes \in 0..1,
           rowid \in Rows \cup {NoRow}, NEW o \in Select(vdbe, d)
    PROVE  \/ Ended(o) /\ Undone(d, o)
           \/ /\ o.last = "row" /\ o.row \in Rows /\ o.todo \in SUBSET Rows
              /\ o.db = d /\ Counted(o)
<1> DEFINE todo == IF vdbe.state = "run" THEN vdbe.todo ELSE d.view
<1>1. todo \in SUBSET Rows
  BY ValuesAssumption DEF Sound, Db, Vdbe, Rows
<1>2. Sound(Idle(d.disk)) /\ Idle(d.disk).view = d.disk /\ Idle(d.disk).disk = d.disk
  BY IdleDisk DEF Idle
<1>3. CASE \/ o = Outcome(d, "done", NoRow, {}, changes, rowid)
           \/ o = Outcome(d, "error", NoRow, {}, changes, rowid)
           \/ o = Outcome(Idle(d.disk), "error", NoRow, {}, changes, rowid)
  BY <1>2, <1>3, OutcomeFields DEF Ended, Counted, Undone
<1>4. CASE \E row \in todo :
              o = Outcome(d, "row", row, todo \ {row}, changes, rowid)
  <2>1. PICK row \in todo : o = Outcome(d, "row", row, todo \ {row}, changes, rowid)
    BY <1>4
  <2>2. /\ o.last = "row" /\ o.row = row /\ o.todo = todo \ {row}
        /\ o.db = d /\ o.changes = changes /\ o.rowid = rowid
    BY <2>1, OutcomeFields
  <2>3. o.row \in Rows /\ o.todo \in SUBSET Rows
    BY <1>1, <2>2
  <2>4. Counted(o)
    BY <2>2 DEF Counted
  <2>5. QED
    BY <2>2, <2>3, <2>4
<1>5. QED
  BY <1>3, <1>4 DEF Select

\* A transaction statement always ends.
LEMMA TransactEnds ==
    ASSUME NEW d, Sound(d), NEW sql \in {"begin", "commit", "rollback"},
           changes \in 0..1, rowid \in Rows \cup {NoRow}, NEW o \in Transact(sql, d)
    PROVE  Ended(o) /\ Undone(d, o)
<1> DEFINE results == CASE sql = "begin"    -> SqlBegin(d, "deferred")
                        [] sql = "commit"   -> SqlCommit(d)
                        [] sql = "rollback" -> SqlRollback(d)
<1>1. PICK r \in results :
        o = Outcome(r.db, IF r.ok THEN "done" ELSE "error", NoRow, {}, changes, rowid)
  BY DEF Transact
<1>2. \/ r \in SqlBegin(d, "deferred")
      \/ r \in SqlCommit(d)
      \/ r \in SqlRollback(d)
  BY <1>1
<1>3. Sound(r.db) /\ r.ok \in BOOLEAN
  BY <1>2, BeginFollows, CommitFollows, RollbackFollows DEF Follows, Result, Behaviors
<1>4. ~ r.ok => r.db.disk = d.disk /\ r.db.view \in {d.view, d.disk}
  <2>1. ASSUME r \in SqlBegin(d, "deferred")
        PROVE  r.db.disk = d.disk /\ r.db.view = d.view
    <3> DEFINE locked == [d EXCEPT !.lock = LockFor(d.lock, "deferred")]
               begun  == [locked EXCEPT !.autocommit = FALSE]
    <3>1. /\ locked.view = d.view /\ begun.view = d.view
          /\ locked.disk = d.disk /\ begun.disk = d.disk
      BY DEF Sound, Db
    <3>2. r \in {Ok(begun), Err(locked), Err(d)}
      BY <2>1 DEF SqlBegin
    <3> HIDE DEF locked, begun
    <3>3. QED
      BY <3>1, <3>2 DEF Ok, Err
  <2>2. ASSUME r \in SqlCommit(d), ~ r.ok
        PROVE  r.db.disk = d.disk /\ r.db.view \in {d.view, d.disk}
    BY <2>2 DEF SqlCommit, EndByCommit, Ok, Err, Idle
  <2>3. ASSUME r \in SqlRollback(d), ~ r.ok PROVE r.db = d
    BY <2>3 DEF SqlRollback, Ok, Err
  <2>4. QED
    BY <1>2, <2>1, <2>2, <2>3
<1>5. QED
  BY <1>1, <1>3, <1>4, OutcomeFields DEF Ended, Counted, Undone

\* A running SELECT or INSERT may be stepped again; nothing else runs.
Stepped(v, d) ==
    /\ v \in Vdbe /\ v.sql \in Kinds /\ v.state \in {"ready", "run"}
    /\ v.state = "run" => v.sql = "select" \/ Inserting(v.sql)
    /\ IF v.state = "run" /\ Inserting(v.sql) THEN Haltable(d) ELSE Sound(d)

\* What a step gives that is not interrupted.
LEMMA StepOutcomes ==
    ASSUME NEW d, NEW v, Stepped(v, d), changes \in 0..1,
           rowid \in Rows \cup {NoRow}, NEW o \in StepOf(v, d, FALSE)
    PROVE  \/ /\ Ended(o) /\ Undone(d, o)
              /\ o.last = "error" /\ v.state = "run" /\ Inserting(v.sql)
                    => o.db.view = d.disk
           \/ /\ o.last = "row" /\ o.row \in Rows /\ o.todo \in SUBSET Rows
              /\ Counted(o) /\ o.db.disk = d.disk
              /\ \/ v.sql = "select" /\ o.db = d /\ Sound(d)
                 \/ Inserting(v.sql) /\ Haltable(o.db)
<1> USE DEF Stepped
<1>1. CASE v.sql = "select"
  <2>1. Sound(d) /\ o \in Select(v, d) /\ ~ Inserting(v.sql)
    BY <1>1 DEF StepOf, Inserting
  <2>2. QED
    BY <1>1, <2>1, SelectOutcomes
<1>2. CASE Inserting(v.sql) /\ v.state = "run"
  <2>1. Haltable(d) /\ o \in Halt(d, 1, rowid)
    BY <1>2 DEF StepOf, Inserting
  <2>2. QED
    BY <2>1, HaltEnds DEF Undone
<1>3. CASE Inserting(v.sql) /\ v.state # "run"
  <2>1. Sound(d) /\ o \in Insert(v, d)
    BY <1>3 DEF StepOf, Inserting
  <2>2. \/ Ended(o) /\ Undone(d, o)
        \/ /\ o.last = "row" /\ o.row \in Rows /\ o.todo = {}
           /\ Haltable(o.db) /\ Counted(o) /\ o.db.disk = d.disk
    BY <2>1, InsertOutcomes
  <2>3. QED
    BY <1>3, <2>2
<1>4. CASE v.sql # "select" /\ ~ Inserting(v.sql)
  <2>1. Sound(d) /\ o \in Transact(v.sql, d)
    BY <1>4 DEF StepOf
  <2>2. v.sql \in {"begin", "commit", "rollback"}
    BY <1>4, KindsAssumption DEF Inserting
  <2>3. QED
    BY <1>4, <2>1, <2>2, TransactEnds
<1>5. QED
  BY <1>1, <1>2, <1>3, <1>4

\* Binding: the parameters are values again, and, if the call goes on, they
\* are the parameters of the call and nothing else.
LEMMA BoundParams ==
    ASSUME NEW params \in Parameters \cup {<<>>}, NEW bound \in Seq(Values)
    PROVE  /\ Bound(params, bound) \in Seq(Values)
           /\ BindsAll(params, bound) => Bound(params, bound) = params
<1>1. params \in Seq(Values \cup {Huge}) /\ Len(bound) \in Nat
  <2>1. CASE params \in Parameters
    BY <2>1, ValuesAssumption
  <2>2. CASE params = <<>>
    BY <2>2
  <2>3. QED
    BY <2>1, <2>2
<1>2. ASSUME NEW i \in 1..Len(bound)
      PROVE  /\ bound[i] \in Values
             /\ i <= Len(params) /\ params[i] # Huge => params[i] \in Values
  <2>1. i <= Len(params) => params[i] \in Values \cup {Huge}
    BY <1>1
  <2>2. QED
    BY <2>1
<1>3. Bound(params, bound) \in [1..Len(bound) -> Values]
  BY <1>2, ValuesAssumption DEF Bound
<1>4. ASSUME BindsAll(params, bound) PROVE Bound(params, bound) = params
  <2>1. Len(params) = Len(bound) /\ \A i \in 1..Len(params) : params[i] # Huge
    BY <1>4 DEF BindsAll
  <2>2. params = [i \in 1..Len(params) |-> params[i]]
    BY <1>1
  <2>3. \A i \in 1..Len(bound) : ~ (i > Len(params) \/ ~ Reached(params, i))
    BY <1>1, <2>1 DEF Reached
  <2>4. Bound(params, bound) = [i \in 1..Len(bound) |-> params[i]]
    BY <2>1, <2>3 DEF Bound
  <2>5. QED
    BY <2>1, <2>2, <2>4
<1>5. QED
  BY <1>1, <1>3, <1>4

\* A prepared statement is ready, with every parameter NULL.
LEMMA PreparedIsVdbe ==
    ASSUME NEW sql \in Kinds
    PROVE  /\ Prepared(sql) \in Vdbe /\ Prepared(sql).sql = sql
           /\ Prepared(sql).state = "ready" /\ Prepared(sql).bound \in Seq(Values)
<1>1. <<Null, Null>> \in Seq(Values) /\ <<>> \in Seq(Values)
  BY ValuesAssumption
<1>2. QED
  BY <1>1 DEF Prepared, Vdbe

----------------------------------------------------------------------------
(* The inductive invariant.                                                 *)

\* Only the statement of the call may be in use.
Resting ==
    /\ \A s \in AllStatements :
          /\ s # call.stmt => stmts[s].state \in {"none", "ready"}
          /\ stmts[s].state # "none" => stmts[s].sql \in Kinds
    /\ Temporary # call.stmt => stmts[Temporary] = Unprepared

\* The statement of the call is in the state its last step left it in, and the
\* engine still reads what it read before the call, or has rolled back; until
\* the statement is done nothing is committed.
Current(v) ==
    /\ v.sql \in Kinds /\ v.bound = call.params
    /\ call.last # "interrupt"
    /\ call.last = "start" => v.state = "ready"
    /\ call.last = "row" => /\ v.state = "run" /\ ~ interrupted
                            /\ v.sql = "select" \/ Inserting(v.sql)
    /\ call.last \in {"done", "error"} => v.state = "halt"
    /\ call.last = "start" \/ (call.last = "row" /\ v.sql = "select")
          => db.view = call.before.view
    /\ call.last # "done" => db.disk = call.before.disk
    /\ call.last = "error" => db.view \in {call.before.view, call.before.disk}

\* Only INSERT ... RETURNING holds the engine between two steps.
Engine ==
    IF Calling /\ stmts[call.stmt].state = "run" /\ Inserting(stmts[call.stmt].sql)
    THEN Haltable(db) ELSE Sound(db)

CallInv ==
    /\ TypeOK /\ Resting /\ Engine
    /\ Calling => Current(stmts[call.stmt])
    /\ ~ Calling => call.last = "start"

\* The invariant holds when the connection is opened.
LEMMA InitInv == Init => CallInv
<1> SUFFICES ASSUME Init PROVE CallInv
  OBVIOUS
<1> USE DEF Init
<1>1. Sound(db)
  BY IdleSound DEF DeferredViolation
<1>2. Unprepared \in Vdbe /\ Unprepared.state = "none"
  BY DEF Unprepared, Vdbe
<1>3. call \in Call /\ call.stmt = NoStatement /\ call.last = "start"
  BY <1>1 DEF NoCall, Call, Sound
<1>4. TypeOK
  <2>1. stmts \in [AllStatements -> Vdbe]
    BY <1>2
  <2>2. db \in Db
    BY <1>1 DEF Sound
  <2>3. changes \in 0..1 /\ result \in {"return", "throw"}
    OBVIOUS
  <2>4. interrupted \in BOOLEAN
    BY Zenon
  <2>5. rowid \in Rows \cup {NoRow}
    BY Zenon
  <2>6. QED
    BY <1>3, <2>1, <2>2, <2>3, <2>4, <2>5 DEF TypeOK
<1>5. Resting
  BY <1>2 DEF Resting, AllStatements
<1>6. QED
  BY <1>1, <1>3, <1>4, <1>5 DEF CallInv, Engine, Calling

\* Between calls a statement may be replaced by one that does not run.
LEMMA IdleChange ==
    ASSUME CallInv, ~ Calling, NEW s \in Statements, NEW v \in Vdbe,
           v.state \in {"none", "ready"}, v.state # "none" => v.sql \in Kinds,
           stmts' = [stmts EXCEPT ![s] = v], interrupted' \in BOOLEAN,
           UNCHANGED <<db, call, changes, rowid, result>>
    PROVE  CallInv'
<1>1. s # Temporary /\ s \in AllStatements /\ Temporary \in AllStatements
  BY StatementsAssumption DEF AllStatements
<1>2. stmts'[s] = v /\ \A q \in AllStatements : q # s => stmts'[q] = stmts[q]
  BY <1>1 DEF CallInv, TypeOK
<1>3. TypeOK'
  BY <1>1 DEF CallInv, TypeOK
<1>4. Resting'
  BY <1>1, <1>2 DEF CallInv, Resting
<1>5. Engine' /\ ~ Calling' /\ call'.last = "start"
  BY DEF CallInv, Engine, Calling
<1>6. QED
  BY <1>3, <1>4, <1>5 DEF CallInv

\* Preparing a statement keeps the invariant.
LEMMA PrepareKeeps ==
    ASSUME CallInv, NEW s \in Statements, NEW sql \in Kinds, prepare(s, sql)
    PROVE  CallInv'
<1>1. interrupted' \in BOOLEAN
  BY DEF prepare, ClearInterrupt, CallInv, TypeOK
<1>2. QED
  BY <1>1, PreparedIsVdbe, IdleChange DEF prepare

\* Clearing the bindings of a statement keeps it.
LEMMA ClearBindingsKeeps ==
    ASSUME CallInv, NEW s \in Statements, clear_bindings(s)
    PROVE  CallInv'
<1> DEFINE bound == [i \in DOMAIN stmts[s].bound |-> Null]
           v == [stmts[s] EXCEPT !.bound = bound]
<1>1. s \in AllStatements /\ stmts[s] \in Vdbe
  BY DEF AllStatements, CallInv, TypeOK
<1>2. bound \in Seq(Values)
  <2>1. stmts[s].bound \in Seq(Values)
    BY <1>1 DEF Vdbe
  <2>2. DOMAIN stmts[s].bound = 1..Len(stmts[s].bound) /\ Len(stmts[s].bound) \in Nat
    BY <2>1
  <2>3. QED
    BY <2>2, ValuesAssumption
<1>3. v \in Vdbe /\ v.state = stmts[s].state /\ v.sql = stmts[s].sql
  BY <1>1, <1>2 DEF Vdbe
<1>4. v.state \in {"none", "ready"} /\ (v.state # "none" => v.sql \in Kinds)
  BY <1>1, <1>3, StatementsAssumption
  DEF clear_bindings, Calling, CallInv, Resting, AllStatements
<1>5. stmts' = [stmts EXCEPT ![s] = v]
  BY DEF clear_bindings
<1>6. interrupted' \in BOOLEAN
  BY DEF clear_bindings, CallInv, TypeOK
<1> HIDE DEF v
<1>7. QED
  BY <1>3, <1>4, <1>5, <1>6, IdleChange DEF clear_bindings

\* Finalizing a statement keeps it: none that runs is ever finalized.
LEMMA FinalizeKeeps ==
    ASSUME CallInv, NEW s \in Statements, finalize(s)
    PROVE  CallInv'
<1>1. Unprepared \in Vdbe /\ Unprepared.state = "none"
  BY DEF Unprepared, Vdbe
<1>2. interrupted' \in BOOLEAN
  BY DEF finalize, CallInv, TypeOK
<1>3. QED
  BY <1>1, <1>2, IdleChange DEF finalize

\* An interrupt between two calls keeps it.
LEMMA InterruptKeeps ==
    ASSUME CallInv, interrupt
    PROVE  CallInv'
<1>1. TypeOK'
  BY DEF interrupt, CallInv, TypeOK
<1>2. Resting' /\ Engine' /\ ~ Calling' /\ call'.last = "start"
  BY DEF interrupt, CallInv, Resting, Engine, Calling
<1>3. QED
  BY <1>1, <1>2 DEF CallInv

\* A call begins, or throws before its first step.
LEMMA BeginKeeps ==
    ASSUME CallInv, ~ Calling, NEW s \in AllStatements, NEW v \in Vdbe,
           v.state = "ready", v.sql \in Kinds,
           NEW api \in Apis, NEW params \in Parameters, Begin(s, v, api, params),
           interrupted' \in BOOLEAN, UNCHANGED <<db, changes, rowid>>
    PROVE  CallInv'
<1> DEFINE bound == Bound(params, v.bound)
           w == [v EXCEPT !.bound = bound]
<1>1. v.bound \in Seq(Values) /\ bound \in Seq(Values)
  BY BoundParams DEF Vdbe
<1>2. w \in Vdbe /\ w.state = "ready" /\ w.sql = v.sql /\ w.bound = bound
  BY <1>1 DEF Vdbe
<1>3. s # NoStatement /\ Temporary \in AllStatements
  BY StatementsAssumption DEF AllStatements
<1>4. Sound(db) /\ db \in Db /\ TypeOK /\ Resting /\ call.last = "start"
  BY DEF CallInv, Engine, TypeOK
<1>5. \A q \in AllStatements :
        /\ stmts[q].state \in {"none", "ready"}
        /\ stmts[q].state # "none" => stmts[q].sql \in Kinds
  BY <1>4, StatementsAssumption DEF Resting, Calling, AllStatements
<1>6. stmts[Temporary] = Unprepared
  BY <1>4, StatementsAssumption DEF Resting, Calling
<1>7. CASE Accepted(v, api, params)
  <2>1. /\ stmts' = [stmts EXCEPT ![s] = w]
        /\ call' = [stmt |-> s, api |-> api, params |-> params,
                    before |-> db, got |-> {}, last |-> "start"]
        /\ UNCHANGED result
    BY <1>7 DEF Begin
  <2>2. w.bound = params
    BY <1>1, <1>2, <1>7, BoundParams DEF Accepted
  <2> HIDE DEF w
  <2>3. /\ stmts'[s] = w
        /\ \A q \in AllStatements : q # s => stmts'[q] = stmts[q]
        /\ stmts' \in [AllStatements -> Vdbe]
    BY <1>2, <1>4, <2>1 DEF TypeOK
  <2>4. call' \in Call
    BY <1>4, <2>1 DEF Call
  <2>5. TypeOK'
    BY <1>4, <2>1, <2>3, <2>4 DEF TypeOK
  <2>6. Resting'
    BY <1>2, <1>3, <1>5, <1>6, <2>1, <2>3 DEF Resting
  <2>7. Engine'
    BY <1>2, <1>4, <2>1, <2>3 DEF Engine
  <2>8. Calling' /\ stmts'[call'.stmt] = w
    BY <1>3, <2>1, <2>3 DEF Calling
  <2>9. Current(stmts[call.stmt])'
    BY <1>2, <2>1, <2>2, <2>8 DEF Current
  <2>10. QED
    BY <2>5, <2>6, <2>7, <2>8, <2>9 DEF CallInv
<1>8. CASE ~ Accepted(v, api, params)
  <2> DEFINE u == IF s = Temporary THEN Unprepared ELSE w
  <2>1. stmts' = [stmts EXCEPT ![s] = u] /\ call' = call /\ result' = "throw"
    BY <1>8 DEF Begin
  <2>2. /\ u \in Vdbe /\ u.state \in {"none", "ready"}
        /\ u.state # "none" => u.sql \in Kinds
        /\ s = Temporary => u = Unprepared
    BY <1>2 DEF Unprepared, Vdbe
  <2> HIDE DEF u
  <2>3. /\ stmts'[s] = u
        /\ \A q \in AllStatements : q # s => stmts'[q] = stmts[q]
        /\ stmts' \in [AllStatements -> Vdbe]
    BY <1>4, <2>1, <2>2 DEF TypeOK
  <2>4. TypeOK'
    BY <1>4, <2>1, <2>3 DEF TypeOK
  <2>5. Resting'
    BY <1>3, <1>5, <1>6, <2>1, <2>2, <2>3 DEF Resting
  <2>6. Engine' /\ ~ Calling' /\ call'.last = "start"
    BY <1>4, <2>1 DEF Engine, Calling
  <2>7. QED
    BY <2>4, <2>5, <2>6 DEF CallInv
<1>9. QED
  BY <1>7, <1>8

\* A call on a kept statement keeps it, also if it throws while binding.
LEMMA StatementCallKeeps ==
    ASSUME CallInv, NEW s \in Statements, NEW api \in Apis,
           NEW params \in Parameters, StatementCall(s, api, params)
    PROVE  CallInv'
<1>1. s \in AllStatements /\ stmts[s] \in Vdbe
  BY DEF AllStatements, CallInv, TypeOK
<1>2. stmts[s].state = "ready" /\ stmts[s].sql \in Kinds
  BY <1>1, StatementsAssumption DEF StatementCall, Calling, CallInv, Resting
<1>3. QED
  BY <1>1, <1>2, BeginKeeps DEF StatementCall, CallInv, TypeOK

\* A call on the connection keeps it, also if it throws while binding.
LEMMA ConnectionCallKeeps ==
    ASSUME CallInv, NEW sql \in Kinds, NEW api \in Apis,
           NEW params \in Parameters, ConnectionCall(sql, api, params)
    PROVE  CallInv'
<1>1. Temporary \in AllStatements /\ interrupted' \in BOOLEAN
  BY DEF AllStatements, ConnectionCall, ClearInterrupt, CallInv, TypeOK
<1>2. QED
  BY <1>1, PreparedIsVdbe, BeginKeeps DEF ConnectionCall

\* When a statement is stepped nothing else runs, so a flag left by an earlier
\* interrupt() is gone, and no other can come during the call.
LEMMA NotInterrupted ==
    ASSUME CallInv, Calling, WantsStep
    PROVE  /\ ~ ClearInterrupt
           /\ call.stmt \in AllStatements
           /\ Stepped(stmts[call.stmt], db)
<1> DEFINE v == stmts[call.stmt]
<1>1. call.stmt \in AllStatements /\ v \in Vdbe
  BY DEF CallInv, TypeOK, Call, Calling
<1>2. call.last \in {"start", "row"}
  BY DEF WantsStep
<1>3. Current(v) /\ Resting /\ Engine
  BY DEF CallInv
<1>4. CASE call.last = "start"
  <2>1. v.state = "ready"
    BY <1>3, <1>4 DEF Current
  <2>2. \A s \in AllStatements : stmts[s].state # "run"
    BY <1>3, <2>1 DEF Resting
  <2>3. Running = {}
    BY <2>2 DEF Running
  <2>4. QED
    BY <1>1, <1>3, <2>1, <2>3 DEF ClearInterrupt, Stepped, Current, Engine
<1>5. CASE call.last = "row"
  <2>1. ~ ClearInterrupt
    BY <1>3, <1>5 DEF Current, ClearInterrupt
  <2>2. QED
    BY <1>1, <1>3, <1>5, <2>1 DEF Stepped, Current, Engine
<1>6. QED
  BY <1>2, <1>4, <1>5

\* One sqlite3_step of a call keeps it.
LEMMA StepKeeps ==
    ASSUME CallInv, Step
    PROVE  CallInv'
<1> DEFINE c == call.stmt
           v == stmts[c]
<1>1. Calling /\ WantsStep /\ TypeOK /\ Resting /\ Current(v)
  BY DEF Step, CallInv
<1>2. ~ ClearInterrupt /\ c \in AllStatements /\ Stepped(v, db)
  BY <1>1, NotInterrupted
<1>3. interrupted' = FALSE
  BY <1>2 DEF Step, ClearInterrupt
<1>4. PICK o \in StepOf(v, db, FALSE) :
          /\ db' = o.db
          /\ changes' = o.changes
          /\ rowid' = o.rowid
          /\ stmts' = [stmts EXCEPT ![c].todo = o.todo,
                ![c].state = IF o.last = "row" THEN "run" ELSE "halt"]
          /\ call' = [call EXCEPT !.last = o.last,
                                  !.got = @ \cup ({o.row} \ {NoRow})]
  BY <1>3 DEF Step
<1> DEFINE w == [v EXCEPT !.todo = o.todo,
                          !.state = IF o.last = "row" THEN "run" ELSE "halt"]
<1>5. \/ /\ Ended(o) /\ Undone(db, o)
         /\ o.last = "error" /\ v.state = "run" /\ Inserting(v.sql)
               => o.db.view = db.disk
      \/ /\ o.last = "row" /\ o.row \in Rows /\ o.todo \in SUBSET Rows
         /\ Counted(o) /\ o.db.disk = db.disk
         /\ \/ v.sql = "select" /\ o.db = db /\ Sound(db)
            \/ Inserting(v.sql) /\ Haltable(o.db)
  BY <1>1, <1>2, StepOutcomes DEF TypeOK
<1>6. /\ o.todo \in SUBSET Rows /\ o.row \in Rows \cup {NoRow} /\ Counted(o)
      /\ o.last \in {"row", "done", "error"} /\ o.db \in Db
  BY <1>5, HaltableIdle DEF Ended, Sound
<1>7. /\ w \in Vdbe /\ w.sql = v.sql /\ w.bound = v.bound /\ w.todo = o.todo
      /\ w.state = IF o.last = "row" THEN "run" ELSE "halt"
  BY <1>2, <1>6 DEF Stepped, Vdbe
<1>8. stmts' = [stmts EXCEPT ![c] = w]
  BY <1>1, <1>2, <1>4 DEF TypeOK
<1> HIDE DEF w
<1>9. /\ stmts'[c] = w
      /\ \A q \in AllStatements : q # c => stmts'[q] = stmts[q]
      /\ stmts' \in [AllStatements -> Vdbe]
  BY <1>1, <1>2, <1>7, <1>8 DEF TypeOK
<1>10. /\ call'.stmt = c /\ call'.params = call.params
       /\ call'.before = call.before /\ call'.last = o.last /\ call' \in Call
  BY <1>1, <1>4, <1>6 DEF TypeOK, Call
<1>11. TypeOK'
  <2>1. interrupted' \in BOOLEAN
    BY <1>3
  <2>2. result' = result
    BY DEF Step
  <2>3. QED
    BY <1>1, <1>4, <1>6, <1>9, <1>10, <2>1, <2>2 DEF TypeOK, Counted
<1>12. Resting'
  BY <1>1, <1>2, <1>7, <1>9, <1>10 DEF Resting, Stepped, AllStatements
<1>13. Calling' /\ stmts'[call'.stmt] = w
  BY <1>1, <1>9, <1>10 DEF Calling
<1>14. Engine'
  <2>1. CASE o.last = "row"
    BY <1>4, <1>5, <1>7, <1>13, <2>1, SoundIsHaltable
    DEF Engine, Ended, Inserting
  <2>2. CASE o.last # "row"
    BY <1>4, <1>5, <1>7, <1>13, <2>2 DEF Engine, Ended
  <2>3. QED
    BY <2>1, <2>2
<1>15. Current(stmts[call.stmt])'
  <2>0. call.last \in {"start", "row"}
    BY <1>1 DEF WantsStep
  <2>1. w.sql \in Kinds /\ w.bound = call'.params /\ call'.last # "interrupt"
    BY <1>1, <1>6, <1>7, <1>10 DEF Current
  <2>2. call'.last \in {"done", "error"} => w.state = "halt"
    BY <1>7, <1>10
  <2>3. call'.last = "row" => /\ w.state = "run" /\ ~ interrupted'
                              /\ w.sql = "select" \/ Inserting(w.sql)
    BY <1>3, <1>5, <1>7, <1>10 DEF Ended
  <2>4. call'.last = "row" /\ w.sql = "select" => db'.view = call'.before.view
    BY <1>1, <1>4, <1>5, <1>7, <1>10, <2>0 DEF Ended, Inserting, Current
  <2>5. db.disk = call.before.disk
    BY <1>1, <2>0 DEF Current
  <2>6. call'.last = "error" => db'.view \in {call'.before.view, call'.before.disk}
    <3>1. CASE v.state = "run" /\ Inserting(v.sql)
      BY <1>4, <1>5, <1>10, <2>5, <3>1
    <3>2. CASE ~ (v.state = "run" /\ Inserting(v.sql))
      <4>1. db.view = call.before.view
        BY <1>1, <2>0, <3>2 DEF Current
      <4>2. QED
        BY <1>4, <1>5, <1>10, <2>5, <4>1 DEF Undone
    <3>3. QED
      BY <3>1, <3>2
  <2>7. call'.last # "start"
    BY <1>6, <1>10
  <2>8. call'.last # "done" => db'.disk = call'.before.disk
    <3>1. o.last # "done" => o.db.disk = db.disk
      <4>1. Undone(db, o) => (o.last = "error" => o.db.disk = db.disk)
        BY DEF Undone
      <4>2. o.last \in {"row", "done", "error"}
        BY <1>6
      <4>3. \/ Ended(o) /\ Undone(db, o)
            \/ o.db.disk = db.disk
        BY <1>5
      <4>4. QED
        BY <4>1, <4>2, <4>3 DEF Ended
    <3>2. QED
      BY <1>4, <1>10, <2>5, <3>1
  <2>9. QED
    BY <1>13, <2>1, <2>2, <2>3, <2>4, <2>6, <2>7, <2>8 DEF Current
<1>16. QED
  BY <1>11, <1>12, <1>13, <1>14, <1>15 DEF CallInv

\* The reset at the end of a call keeps it, also if the commit it does fails.
LEMMA FinishKeeps ==
    ASSUME CallInv, Finish
    PROVE  CallInv'
<1> DEFINE c == call.stmt
           v == stmts[c]
           w == IF c = Temporary THEN Unprepared ELSE Rewound(v)
<1>1. Calling /\ TypeOK /\ Resting /\ Current(v) /\ Engine
  BY DEF Finish, CallInv
<1>2. c \in AllStatements /\ v \in Vdbe /\ c # NoStatement
      /\ NoStatement \notin AllStatements /\ Temporary \in AllStatements
  BY <1>1, StatementsAssumption DEF TypeOK, Call, Calling, AllStatements
<1>3. PICK o \in ResetOf(v, db) : db' = o.db /\ changes' = o.changes
  BY DEF Finish
<1>4. Sound(o.db) /\ o.changes \in 0..1
  <2>1. CASE v.state = "run" /\ Inserting(v.sql)
    <3>1. Haltable(db) /\ o \in Halt(db, 1, rowid)
      BY <1>1, <1>3, <2>1 DEF ResetOf, Engine
    <3>2. QED
      BY <1>1, <3>1, HaltEnds DEF Ended, Counted, TypeOK
  <2>2. CASE ~ (v.state = "run" /\ Inserting(v.sql))
    <3>1. Sound(db) /\ o = Outcome(db, "done", NoRow, {}, changes, rowid)
      BY <1>1, <1>3, <2>2 DEF ResetOf, Engine
    <3>2. QED
      BY <1>1, <3>1, OutcomeFields DEF TypeOK
  <2>3. QED
    BY <2>1, <2>2
<1>5. /\ w \in Vdbe /\ w.state \in {"none", "ready"}
      /\ w.state # "none" => w.sql \in Kinds
      /\ c = Temporary => w = Unprepared
  <2>1. CASE c = Temporary
    BY <2>1 DEF Unprepared, Vdbe
  <2>2. CASE c # Temporary
    BY <1>1, <1>2, <2>2 DEF Rewound, Vdbe, Current
  <2>3. QED
    BY <2>1, <2>2
<1>6. stmts' = [stmts EXCEPT ![c] = w]
  BY <1>1, <1>2 DEF Finish, TypeOK
<1> HIDE DEF w
<1>7. /\ stmts'[c] = w
      /\ \A q \in AllStatements : q # c => stmts'[q] = stmts[q]
      /\ stmts' \in [AllStatements -> Vdbe]
  BY <1>1, <1>2, <1>5, <1>6 DEF TypeOK
<1>8. call' = NoCall(db') /\ call'.stmt = NoStatement /\ call'.last = "start"
  BY DEF Finish, NoCall
<1>9. call' \in Call
  BY <1>3, <1>4, <1>8 DEF NoCall, Call, Sound
<1>10. TypeOK'
  <2>1. result' \in {"return", "throw"} /\ UNCHANGED <<rowid, interrupted>>
    BY DEF Finish
  <2>2. QED
    BY <1>1, <1>3, <1>4, <1>7, <1>9, <2>1 DEF TypeOK, Sound
<1>11. Resting'
  BY <1>1, <1>2, <1>5, <1>7, <1>8 DEF Resting
<1>12. Engine' /\ ~ Calling'
  BY <1>3, <1>4, <1>8 DEF Engine, Calling
<1>13. QED
  BY <1>8, <1>10, <1>11, <1>12 DEF CallInv

\* Every step keeps the invariant.
LEMMA NextKeeps ==
    ASSUME CallInv, [Next]_vars
    PROVE  CallInv'
<1>1. CASE UNCHANGED vars
  BY <1>1 DEF vars, CallInv, TypeOK, Resting, Engine, Calling, Current
<1>2. CASE \E s \in Statements, sql \in Kinds : prepare(s, sql)
  BY <1>2, PrepareKeeps
<1>3. CASE \E s \in Statements : clear_bindings(s)
  BY <1>3, ClearBindingsKeeps
<1>4. CASE \E s \in Statements : finalize(s)
  BY <1>4, FinalizeKeeps
<1>5. CASE \E s \in Statements, api \in StatementApis, params \in Parameters :
             StatementCall(s, api, params)
  BY <1>5, StatementCallKeeps DEF StatementApis
<1>6. CASE \E sql \in Kinds, api \in ConnectionApis, params \in Parameters :
             ConnectionCall(sql, api, params)
  BY <1>6, ConnectionCallKeeps DEF ConnectionApis
<1>7. CASE interrupt
  BY <1>7, InterruptKeeps
<1>8. CASE Step
  BY <1>8, StepKeeps
<1>9. CASE Finish
  BY <1>9, FinishKeeps
<1>10. QED
  BY <1>1, <1>2, <1>3, <1>4, <1>5, <1>6, <1>7, <1>8, <1>9 DEF Next

\* The invariant holds of every reachable state.
LEMMA Invariance == Spec => []CallInv
<1>1. Init => CallInv
  BY InitInv
<1>2. CallInv /\ [Next]_vars => CallInv'
  BY NextKeeps
<1>3. QED
  BY <1>1, <1>2, PTL DEF Spec

----------------------------------------------------------------------------
(* The theorems.                                                            *)

\* Every variable keeps its type.
THEOREM CallTypeCorrect == Spec => []TypeOK
<1>1. CallInv => TypeOK
  BY DEF CallInv
<1>2. QED
  BY <1>1, Invariance, PTL

\* Whatever fails during a call, when it is over its statement is reset, a
\* statement made for it is gone, and nothing is written but not committed
\* outside a transaction.
THEOREM CallsLeaveNothing == Spec => []IdleBetweenCalls
<1>1. CallInv => IdleBetweenCalls
  <2> SUFFICES ASSUME CallInv, ~ Calling PROVE IdleBetweenCalls
    BY DEF IdleBetweenCalls
  <2>1. Sound(db) /\ Resting /\ call.stmt = NoStatement
    BY DEF CallInv, Engine, Calling
  <2>2. QED
    BY <2>1, StatementsAssumption
    DEF IdleBetweenCalls, Resting, AllStatements, Sound
<1>2. QED
  BY <1>1, Invariance, PTL

\* No parameter of an earlier call, nor of one that threw while binding, is
\* still bound when a statement is stepped.
THEOREM NoStaleBinding == Spec => []BindingsAreParams
<1>1. CallInv => BindingsAreParams
  BY DEF CallInv, Current, BindingsAreParams
<1>2. QED
  BY <1>1, Invariance, PTL

\* An interrupt() before a call never interrupts it.
THEOREM InterruptIsOver == Spec => []InterruptDoesNotLeak
<1>1. CallInv => InterruptDoesNotLeak
  BY DEF CallInv, Current, InterruptDoesNotLeak
<1>2. QED
  BY <1>1, Invariance, PTL

\* A call in which SQLite fails has committed nothing, and leaves the
\* connection reading what it read before the call, or what was committed then.
THEOREM FailureUndone == Spec => FailedCallUndone
<1> DEFINE Nothing == /\ db'.disk = call.before.disk
                      /\ db'.view \in {call.before.view, call.before.disk}
           A == Finish /\ call.last = "error" => Nothing
<1>1. ASSUME CallInv, Finish, call.last = "error"
      PROVE  Nothing
  <2>1. stmts[call.stmt].state = "halt"
    BY <1>1 DEF CallInv, Current, Finish
  <2>2. db' = db
    BY <1>1, <2>1, OutcomeFields DEF Finish, ResetOf
  <2>3. QED
    BY <1>1, <2>2 DEF CallInv, Current, Finish
<1>2. CallInv /\ [Next]_vars => [A]_vars
  BY <1>1
<1>3. QED
  BY <1>2, Invariance, PTL DEF Spec, FailedCallUndone
=============================================================================
