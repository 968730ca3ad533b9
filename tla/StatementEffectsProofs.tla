----------------------- MODULE StatementEffectsProofs -----------------------
(***************************************************************************)
(* What a call that returns has done: theorems about StatementCalls for all *)
(* statements, values, parameters, kinds of SQL, calls and faults.          *)
(***************************************************************************)
EXTENDS StatementCallsProofs, FiniteSetTheorems

----------------------------------------------------------------------------
(* What one step of an INSERT does.                                         *)

\* Halting keeps the view and counts what it was told to, or it fails in
\* autocommit mode and rolls back.
LEMMA HaltEffect ==
    ASSUME NEW d, NEW n, NEW id, NEW o \in Halt(d, n, id)
    PROVE  \/ /\ o.last = "done" /\ o.db.view = d.view
              /\ o.changes = n /\ o.rowid = id
              /\ IF d.autocommit THEN o.db = Idle(d.view) /\ ~ DeferredViolation(d.view)
                                 ELSE o.db = d
           \/ /\ o.last = "error" /\ d.autocommit
              /\ o.db = Idle(d.disk) /\ o.changes = 0
<1>1. CASE ~ d.autocommit
  BY <1>1, OutcomeFields DEF Halt
<1>2. CASE d.autocommit
  <2>1. PICK r \in EndByCommit(d, Idle(d.disk)) :
          o = IF r.ok THEN Outcome(r.db, "done", NoRow, {}, n, id)
                      ELSE Outcome(Idle(d.disk), "error", NoRow, {}, 0, id)
    BY <1>2 DEF Halt
  <2>2. r.ok => r = Ok(Idle(d.view)) /\ ~ DeferredViolation(d.view)
    BY DEF EndByCommit, Ok, Err
  <2>3. CASE r.ok
    <3>1. r.db = Idle(d.view) /\ Idle(d.view).view = d.view
      BY <2>2, <2>3 DEF Ok, Idle
    <3>2. QED
      BY <1>2, <2>1, <2>2, <2>3, <3>1, OutcomeFields
  <2>4. CASE ~ r.ok
    BY <1>2, <2>1, <2>4, OutcomeFields
  <2>5. QED
    BY <2>3, <2>4
<1>3. QED
  BY <1>1, <1>2

\* What SqlInsert says of the row w inserted on the connection d, of a call
\* that ended with `last' on the connection e, counting n changes.
AsSqlInsert(d, w, e, last, n) ==
    \E r \in SqlInsert(d, w) :
        /\ r.db = e /\ r.ok = (last = "done")
        /\ r.ok => n = Cardinality(e.view \ d.view)

\* An INSERT that fails has done what a failing SqlInsert does.
LEMMA FailEffect ==
    ASSUME NEW d, Sound(d), NEW w, NEW e,
           \/ e = IF d.autocommit THEN Idle(d.disk) ELSE d
           \/ e = IF d.autocommit THEN Idle(d.disk)
                  ELSE [d EXCEPT !.lock = LockFor(@, "immediate")]
           \/ "special" \in Faults /\ e = Idle(d.disk),
           NEW n
    PROVE  AsSqlInsert(d, w, e, "error", n)
<1>1. CASE d.autocommit
  <2>1. e = d
    BY <1>1 DEF Sound, EngineOK
  <2>2. Err(d) \in SqlInsert(d, w)
    BY <1>1 DEF SqlInsert
  <2>3. QED
    BY <2>1, <2>2 DEF AsSqlInsert, Err
<1>2. CASE ~ d.autocommit
  <2>1. d = [d EXCEPT !.lock = d.lock]
    BY DEF Sound, Db
  <2>2. Err(e) \in SqlInsert(d, w)
    BY <1>2, <2>1 DEF SqlInsert
  <2>3. QED
    BY <2>2 DEF AsSqlInsert, Err
<1>3. QED
  BY <1>1, <1>2

\* One row is one change.
LEMMA OneRow ==
    ASSUME NEW S, NEW w, w \notin S
    PROVE  Cardinality((S \cup {w}) \ S) = 1
<1>1. (S \cup {w}) \ S = {w}
  OBVIOUS
<1>2. QED
  BY <1>1, FS_Singleton

\* The first step of an INSERT: a row that is reported is there, a row that is
\* counted is new and is the one lastRowid belongs to, and a plain INSERT does
\* what SqlInsert says.
LEMMA InsertEffect ==
    ASSUME NEW d, Sound(d), NEW v \in Vdbe, NEW o \in Insert(v, d)
    PROVE  /\ v.sql # "insert or ignore" /\ o.last \in {"row", "done"}
                => v.bound \in o.db.view
           /\ o.last = "done" /\ o.changes = 1
                => o.rowid = v.bound /\ v.bound \in o.db.view \ d.view
           /\ v.sql = "insert"
                => /\ o.last \in {"done", "error"}
                   /\ AsSqlInsert(d, v.bound, o.db, o.last, o.changes)
<1>1. PICK sql, row, locked, written :
        /\ sql = v.sql /\ row = v.bound
        /\ locked = [d EXCEPT !.lock = LockFor(@, "immediate")]
        /\ written = [d EXCEPT !.lock = Dirtied(@), !.view = @ \cup {row}]
  OBVIOUS
<1> DEFINE A == /\ sql # "insert or ignore" /\ o.last \in {"row", "done"}
                     => row \in o.db.view
                /\ o.last = "done" /\ o.changes = 1
                     => o.rowid = row /\ row \in o.db.view \ d.view
           B == sql = "insert"
                  => /\ o.last \in {"done", "error"}
                     /\ AsSqlInsert(d, row, o.db, o.last, o.changes)
<1>2. /\ d \in Db
      /\ locked.autocommit = d.autocommit /\ locked.disk = d.disk
      /\ written.autocommit = d.autocommit /\ written.disk = d.disk
      /\ written.view = d.view \cup {row}
  BY <1>1 DEF Sound, Db
<1>3. Idle(d.disk).autocommit /\ Idle(Idle(d.disk).disk) = Idle(d.disk)
  BY DEF Idle
<1>4. \/ o = Fail(locked, "error", rowid)
      \/ o = Fail(d, "error", rowid)
      \/ "special" \in Faults /\ o = Fail(Idle(d.disk), "error", row)
      \/ sql = "insert or ignore" /\ o \in Halt(locked, 0, rowid)
      \/ row \notin d.view /\ o \in Halt(written, 1, row)
      \/ sql = "insert returning" /\ o = Outcome(written, "row", row, {}, changes, row)
  BY <1>1 DEF Insert
<1> HIDE DEF A, B
<1>5. ASSUME NEW e, NEW id, o = Fail(e, "error", id),
             \/ e = locked \/ e = d
             \/ "special" \in Faults /\ e = Idle(d.disk)
      PROVE  A /\ B
  <2> DEFINE x == IF e.autocommit THEN Idle(e.disk) ELSE e
  <2>1. o = Outcome(x, "error", NoRow, {}, 0, id)
    BY <1>5 DEF Fail
  <2>2. o.last = "error" /\ o.db = x /\ o.changes = 0
    BY <2>1, OutcomeFields
  <2>3. \/ x = IF d.autocommit THEN Idle(d.disk) ELSE d
        \/ x = IF d.autocommit THEN Idle(d.disk) ELSE locked
        \/ "special" \in Faults /\ x = Idle(d.disk)
    BY <1>2, <1>3, <1>5
  <2> HIDE DEF x
  <2>4. AsSqlInsert(d, row, x, "error", 0)
    BY <1>1, <2>3, FailEffect
  <2>5. QED
    BY <2>2, <2>4 DEF A, B
<1>6. ASSUME sql = "insert or ignore", o \in Halt(locked, 0, rowid)
      PROVE  A /\ B
  <2>1. o.changes = 0
    BY <1>6, HaltEffect
  <2>2. A
    <3>1. ~ (sql # "insert or ignore") /\ ~ (o.changes = 1)
      <4>1. ~ (o.changes = 1)
        BY <2>1
      <4>2. QED
        BY <1>6, <4>1
    <3>2. QED
      BY <3>1 DEF A
  <2>3. sql # "insert"
    BY <1>6
  <2>4. QED
    BY <2>2, <2>3 DEF B
<1>7. ASSUME row \notin d.view, o \in Halt(written, 1, row)
      PROVE  A /\ B
  <2>1. CASE o.last = "error"
    <3>1. d.autocommit /\ o.db = Idle(d.disk)
      BY <1>2, <1>7, <2>1, HaltEffect
    <3>2. AsSqlInsert(d, row, o.db, o.last, o.changes)
      BY <2>1, <3>1, FailEffect
    <3>3. QED
      BY <2>1, <3>2 DEF A, B
  <2>2. CASE o.last = "done"
    <3>1. /\ o.db.view = d.view \cup {row} /\ o.changes = 1 /\ o.rowid = row
          /\ IF d.autocommit
             THEN o.db = Idle(d.view \cup {row}) /\ ~ DeferredViolation(d.view \cup {row})
             ELSE o.db = written
      <4>1. /\ o.db.view = written.view /\ o.changes = 1 /\ o.rowid = row
            /\ IF written.autocommit
               THEN o.db = Idle(written.view) /\ ~ DeferredViolation(written.view)
               ELSE o.db = written
        BY <1>7, <2>2, HaltEffect
      <4>2. QED
        BY <1>2, <4>1
    <3>2. Ok(o.db) \in SqlInsert(d, row)
      <4>1. CASE d.autocommit
        BY <3>1, <4>1 DEF SqlInsert
      <4>2. CASE ~ d.autocommit
        <5>1. written = [d EXCEPT !.view = @ \cup {row}, !.lock = Dirtied(@)]
          BY <1>1, <1>2 DEF Db
        <5>2. QED
          BY <3>1, <4>2, <5>1 DEF SqlInsert
      <4>3. QED
        BY <4>1, <4>2
    <3>3. o.changes = Cardinality(o.db.view \ d.view)
      BY <1>7, <3>1, OneRow
    <3>4. AsSqlInsert(d, row, o.db, o.last, o.changes)
      BY <2>2, <3>2, <3>3 DEF AsSqlInsert, Ok
    <3>5. QED
      BY <1>7, <2>2, <3>1, <3>4 DEF A, B
  <2>3. QED
    BY <1>7, <2>1, <2>2, HaltEffect
<1>8. ASSUME sql = "insert returning", o = Outcome(written, "row", row, {}, changes, row)
      PROVE  A /\ B
  <2>1. o.last = "row" /\ o.db = written
    <3>1. o = Outcome(written, "row", row, {}, changes, row)
      BY <1>8
    <3>2. QED
      BY <3>1, OutcomeFields
  <2>2. QED
    BY <1>2, <1>8, <2>1 DEF A, B
<1>9. A /\ B
  BY <1>5, <1>6, <1>7, <1>8, <1>4
<1>10. QED
  BY <1>1, <1>9 DEF A, B

----------------------------------------------------------------------------
(* The inductive invariant.                                                 *)

\* The row of an INSERT that has yielded it or is done is there ...
RowAdded(v) ==
    v.sql \in {"insert", "insert returning"} /\ call.last \in {"row", "done"}
        => call.params \in db.view

\* ... what insert() takes for its row is new, and the last one inserted ...
RowCounted(v) ==
    call.api = "insert" /\ Inserting(v.sql) /\ call.last = "done" /\ changes = 1
        => rowid = call.params /\ call.params \in db.view \ call.before.view

\* ... and execute() has done what SqlInsert says.
RowExecuted(v) ==
    call.api = "execute" /\ v.sql = "insert" /\ call.last # "start"
        => /\ call.last \in {"done", "error"}
           /\ AsSqlInsert(call.before, call.params, db, call.last, changes)

Effects ==
    Calling => LET v == stmts[call.stmt] IN
        /\ call.last = "start" => call.before = db
        /\ RowAdded(v) /\ RowCounted(v) /\ RowExecuted(v)

\* A call that begins has done nothing yet.
LEMMA BeginEffects ==
    ASSUME ~ Calling, NEW s, NEW v, NEW api, NEW params, Begin(s, v, api, params),
           UNCHANGED db
    PROVE  Effects'
<1>1. CASE call' = call
  BY <1>1 DEF Effects, Calling
<1>2. CASE call' = [stmt |-> s, api |-> api, params |-> params,
                    before |-> db, got |-> {}, last |-> "start"]
  <2>1. call'.last = "start" /\ call'.before = db'
    BY <1>2
  <2>2. QED
    BY <2>1 DEF Effects, RowAdded, RowCounted, RowExecuted
<1>3. QED
  BY <1>1, <1>2 DEF Begin

\* One sqlite3_step of a call does what InsertEffect and HaltEffect say.
LEMMA StepEffects ==
    ASSUME CallInv, Effects, Step
    PROVE  Effects'
<1> DEFINE c == call.stmt
           v == stmts[c]
<1>1. Calling /\ WantsStep /\ TypeOK /\ Current(v)
  BY DEF Step, CallInv
<1>2. ~ ClearInterrupt /\ c \in AllStatements /\ Stepped(v, db)
  BY <1>1, NotInterrupted
<1>3. PICK o \in StepOf(v, db, FALSE) :
          /\ db' = o.db
          /\ changes' = o.changes
          /\ rowid' = o.rowid
          /\ stmts' = [stmts EXCEPT ![c].todo = o.todo,
                ![c].state = IF o.last = "row" THEN "run" ELSE "halt"]
          /\ call' = [call EXCEPT !.last = o.last,
                                  !.got = @ \cup ({o.row} \ {NoRow})]
  BY <1>2 DEF Step, ClearInterrupt
<1>4. /\ call'.stmt = c /\ call'.params = call.params /\ call'.api = call.api
      /\ call'.before = call.before /\ call'.last = o.last
  BY <1>1, <1>3 DEF TypeOK, Call
<1>5. stmts'[c].sql = v.sql
  BY <1>1, <1>2, <1>3 DEF TypeOK, Vdbe
<1>6. o.last # "start"
  BY <1>1, <1>2, StepOutcomes DEF Ended, TypeOK
<1>7. v.bound = call.params
  BY <1>1 DEF Current
<1>8. CASE ~ Inserting(v.sql)
  BY <1>4, <1>5, <1>6, <1>8
  DEF Effects, RowAdded, RowCounted, RowExecuted, Inserting
<1>9. CASE Inserting(v.sql) /\ call.last = "start"
  <2>1. v.state = "ready" /\ v \in Vdbe /\ Sound(db) /\ call.before = db
    BY <1>1, <1>2, <1>9 DEF Current, Stepped, Effects
  <2>2. o \in Insert(v, db)
    BY <1>9, <2>1 DEF StepOf, Inserting
  <2>3. /\ v.sql # "insert or ignore" /\ o.last \in {"row", "done"}
             => call.params \in db'.view
        /\ o.last = "done" /\ changes' = 1
             => rowid' = call.params /\ call.params \in db'.view \ call.before.view
        /\ v.sql = "insert"
             => /\ o.last \in {"done", "error"}
                /\ AsSqlInsert(call.before, call.params, db', o.last, changes')
    <3>1. v \in Vdbe /\ Sound(db) /\ o \in Insert(v, db)
      BY <2>1, <2>2
    <3>2. /\ v.sql # "insert or ignore" /\ o.last \in {"row", "done"}
               => v.bound \in o.db.view
          /\ o.last = "done" /\ o.changes = 1
               => o.rowid = v.bound /\ v.bound \in o.db.view \ db.view
          /\ v.sql = "insert"
               => /\ o.last \in {"done", "error"}
                  /\ AsSqlInsert(db, v.bound, o.db, o.last, o.changes)
      BY <3>1, InsertEffect
    <3>3. call.before = db
      BY <2>1
    <3>4. db' = o.db /\ changes' = o.changes /\ rowid' = o.rowid
      BY <1>3
    <3>5. QED
      BY <1>7, <3>2, <3>3, <3>4, Zenon
  <2>4. QED
    BY <1>4, <1>5, <1>6, <2>3 DEF Effects, RowAdded, RowCounted, RowExecuted
<1>10. CASE Inserting(v.sql) /\ call.last # "start"
  <2>1. call.last = "row" /\ call.api \in {"query", "query_one"}
    BY <1>1, <1>10 DEF WantsStep
  <2>2. v.state = "run"
    BY <1>1, <2>1 DEF Current
  <2>3. o \in Halt(db, 1, rowid)
    BY <1>10, <2>2 DEF StepOf, Inserting
  <2>4. o.last \in {"done", "error"} /\ (o.last = "done" => db'.view = db.view)
    BY <1>3, <2>3, HaltEffect
  <2>5. v.sql # "insert or ignore" => call.params \in db.view
    BY <1>1, <1>10, <2>1 DEF Effects, RowAdded, Inserting
  <2>6. QED
    BY <1>4, <1>5, <1>6, <1>10, <2>1, <2>4, <2>5
    DEF Effects, RowAdded, RowCounted, RowExecuted
<1>11. QED
  BY <1>8, <1>9, <1>10

\* Every step keeps it.
LEMMA NextEffects ==
    ASSUME CallInv, Effects, [Next]_vars
    PROVE  Effects'
<1>1. CASE UNCHANGED vars
  BY <1>1 DEF vars, Effects, Calling, RowAdded, RowCounted, RowExecuted
<1>2. CASE \E s \in Statements : \/ \E sql \in Kinds : prepare(s, sql)
                                 \/ clear_bindings(s) \/ finalize(s)
  BY <1>2 DEF prepare, clear_bindings, finalize, Effects, Calling
<1>3. CASE \E s \in Statements, api \in StatementApis, params \in Parameters :
             StatementCall(s, api, params)
  BY <1>3, BeginEffects DEF StatementCall
<1>4. CASE \E sql \in Kinds, api \in ConnectionApis, params \in Parameters :
             ConnectionCall(sql, api, params)
  BY <1>4, BeginEffects DEF ConnectionCall
<1>5. CASE interrupt
  BY <1>5 DEF interrupt, Effects, Calling
<1>6. CASE Step
  BY <1>6, StepEffects
<1>7. CASE Finish
  BY <1>7 DEF Finish, NoCall, Effects, Calling
<1>8. QED
  BY <1>1, <1>2, <1>3, <1>4, <1>5, <1>6, <1>7 DEF Next

\* It holds of every reachable state.
LEMMA EffectsInvariance == Spec => []Effects
<1>1. Init => Effects
  BY DEF Init, NoCall, Effects, Calling
<1>2. CallInv /\ Effects /\ [Next]_vars => Effects'
  BY NextEffects
<1>3. QED
  BY <1>1, <1>2, Invariance, PTL DEF Spec

----------------------------------------------------------------------------
(* The theorems.                                                            *)

\* When a call whose last step is the end of its statement finishes, the reset
\* changes nothing.
LEMMA FinishHalted ==
    ASSUME CallInv, Finish, call.last \in {"done", "error"}
    PROVE  db' = db /\ changes' = changes /\ rowid' = rowid /\ Sound(db)
<1>1. stmts[call.stmt].state = "halt" /\ Sound(db)
  BY DEF CallInv, Current, Engine, Finish
<1>2. QED
  BY <1>1, OutcomeFields DEF Finish, ResetOf

\* insert() returns the rowid of the row it inserted, which was not there before.
THEOREM InsertsRowid == Spec => InsertReturnsItsRowid
<1> DEFINE A == Finish /\ call.api = "insert" /\ Inserting(stmts[call.stmt].sql)
                       /\ result' = "return"
                => /\ rowid' = call.params
                   /\ call.params \in db'.view \ call.before.view
<1>1. ASSUME CallInv, Effects, Finish, call.api = "insert",
             Inserting(stmts[call.stmt].sql), result' = "return"
      PROVE  rowid' = call.params /\ call.params \in db'.view \ call.before.view
  <2>1. call.last = "done" /\ changes' = 1
    BY <1>1 DEF Finish, Returns
  <2>2. db' = db /\ changes' = changes /\ rowid' = rowid
    BY <1>1, <2>1, FinishHalted
  <2>3. QED
    BY <1>1, <2>1, <2>2 DEF Effects, RowCounted, Finish
<1>2. CallInv /\ Effects /\ [Next]_vars => [A]_vars
  BY <1>1
<1>3. QED
  BY <1>2, Invariance, EffectsInvariance, PTL DEF Spec, InsertReturnsItsRowid

\* execute() of an INSERT, with its parameters, steps, halts and errors, is the
\* one step that NodeTransaction takes it to be, and counts its row.
THEOREM ExecuteInserts == Spec => ExecuteIsSqlInsert
<1> DEFINE A == Finish /\ call.api = "execute" /\ stmts[call.stmt].sql = "insert"
                => \E r \in SqlInsert(call.before, call.params) :
                      /\ r.db = db' /\ r.ok = (result' = "return")
                      /\ r.ok => changes' = Cardinality(db'.view \ call.before.view)
<1>1. ASSUME CallInv, Effects, Finish, call.api = "execute",
             stmts[call.stmt].sql = "insert"
      PROVE  \E r \in SqlInsert(call.before, call.params) :
                /\ r.db = db' /\ r.ok = (result' = "return")
                /\ r.ok => changes' = Cardinality(db'.view \ call.before.view)
  <2>1. call.last # "start" /\ Calling
    BY <1>1 DEF Finish, WantsStep
  <2>2. /\ call.last \in {"done", "error"}
        /\ AsSqlInsert(call.before, call.params, db, call.last, changes)
    BY <1>1, <2>1 DEF Effects, RowExecuted
  <2>3. db' = db /\ changes' = changes
    BY <1>1, <2>2, FinishHalted
  <2>4. (result' = "return") = (call.last = "done")
    BY <1>1 DEF Finish, Returns
  <2>5. QED
    BY <2>2, <2>3, <2>4 DEF AsSqlInsert
<1>2. CallInv /\ Effects /\ [Next]_vars => [A]_vars
  BY <1>1
<1>3. QED
  BY <1>2, Invariance, EffectsInvariance, PTL DEF Spec, ExecuteIsSqlInsert

\* When execute(), insert() or queryOne() of an INSERT returns, its row can be
\* read, and is committed unless a transaction is open.
THEOREM ReturnIsDone == Spec => ReturnMeansDone
<1> DEFINE A == Finish /\ result' = "return"
                       /\ call.api \in {"execute", "insert", "query_one"} => RowIsThere
<1>1. ASSUME CallInv, Effects, Finish, result' = "return",
             call.api \in {"execute", "insert", "query_one"}
      PROVE  RowIsThere
  <2>1. call.last = "done"
    BY <1>1 DEF Finish, Returns
  <2>2. db' = db /\ Sound(db)
    BY <1>1, <2>1, FinishHalted
  <2>3. db.autocommit => db.view = db.disk
    <3>1. db.autocommit => db = Idle(db.disk)
      BY <2>2 DEF Sound, EngineOK
    <3>2. Idle(db.disk).view = db.disk
      BY DEF Idle
    <3>3. QED
      BY <3>1, <3>2
  <2>4. stmts[call.stmt].sql \in {"insert", "insert returning"} => call.params \in db.view
    BY <1>1, <2>1 DEF Effects, RowAdded, Finish
  <2>5. QED
    BY <2>2, <2>3, <2>4 DEF RowIsThere, Seen
<1>2. CallInv /\ Effects /\ [Next]_vars => [A]_vars
  BY <1>1
<1>3. QED
  BY <1>2, Invariance, EffectsInvariance, PTL DEF Spec, ReturnMeansDone

----------------------------------------------------------------------------
(* The calls implement AtomicStore.                                         *)

\* What a statement has written outside a transaction and not yet committed is
\* the row of its call, and nothing else.
Pending == db.autocommit => db.view \subseteq db.disk \cup {call.params}

\* Only the written row of a running INSERT waits to be committed.
LEMMA SoundPending ==
    ASSUME NEW d, Sound(d), d.autocommit
    PROVE  d.view = d.disk
<1>1. d = Idle(d.disk)
  BY DEF Sound, EngineOK
<1>2. QED
  BY <1>1 DEF Idle

\* The row that an INSERT yields is the one it has written.
LEMMA YieldedRow ==
    ASSUME NEW d, Sound(d), NEW v, NEW o \in Insert(v, d), o.last = "row"
    PROVE  /\ o.db.disk = d.disk /\ o.db.view = d.view \cup {v.bound}
           /\ o.db.autocommit = d.autocommit /\ v.bound \in Writes
<1>1. PICK row, locked, written :
        /\ row = v.bound
        /\ locked = [d EXCEPT !.lock = LockFor(@, "immediate")]
        /\ written = [d EXCEPT !.lock = Dirtied(@), !.view = @ \cup {row}]
  OBVIOUS
<1>2. written.disk = d.disk /\ written.view = d.view \cup {row}
      /\ written.autocommit = d.autocommit
  BY <1>1 DEF Sound, Db
<1>3. ASSUME NEW e, NEW id PROVE Fail(e, "error", id).last = "error"
  BY OutcomeFields DEF Fail
<1>4. ASSUME NEW e, NEW n, NEW id, o \in Halt(e, n, id) PROVE FALSE
  BY <1>4, HaltEffect
<1>5. row \in Writes /\ o = Outcome(written, "row", row, {}, changes, row)
  BY <1>1, <1>3, <1>4 DEF Insert
<1>6. o.db = written
  BY <1>5, OutcomeFields
<1>7. QED
  BY <1>1, <1>2, <1>5, <1>6

\* Every step keeps it.
LEMMA NextPending ==
    ASSUME CallInv, CallInv', Pending, [Next]_vars
    PROVE  Pending'
<1>1. CASE Sound(db')
  BY <1>1, SoundPending DEF Pending
<1>2. CASE ~ Sound(db')
  <2>1. /\ Calling' /\ stmts'[call'.stmt].state = "run"
        /\ Inserting(stmts'[call'.stmt].sql)
    BY <1>2 DEF CallInv, Engine
  <2>2. CASE UNCHANGED <<db, call>>
    BY <2>2 DEF Pending
  <2>3. CASE db' = db /\ Sound(db)
    BY <1>2, <2>3
  <2>4. CASE Step
    <3> DEFINE c == call.stmt
               v == stmts[c]
    <3>1. Calling /\ WantsStep /\ TypeOK /\ Current(v)
      BY <2>4 DEF Step, CallInv
    <3>2. ~ ClearInterrupt /\ c \in AllStatements /\ Stepped(v, db)
      BY <3>1, NotInterrupted
    <3>3. PICK o \in StepOf(v, db, FALSE) :
            /\ db' = o.db
            /\ stmts' = [stmts EXCEPT ![c].todo = o.todo,
                  ![c].state = IF o.last = "row" THEN "run" ELSE "halt"]
            /\ call' = [call EXCEPT !.last = o.last,
                                    !.got = @ \cup ({o.row} \ {NoRow})]
      BY <2>4, <3>2 DEF Step, ClearInterrupt
    <3>4. call'.stmt = c /\ call'.params = call.params
      BY <3>1, <3>3 DEF TypeOK, Call
    <3>5. /\ stmts'[c].sql = v.sql
          /\ stmts'[c].state = IF o.last = "row" THEN "run" ELSE "halt"
      BY <3>1, <3>2, <3>3 DEF TypeOK, Vdbe
    <3>6. o.last = "row" /\ Inserting(v.sql)
      BY <2>1, <3>4, <3>5
    <3>7. v.state = "ready"
      <4>1. v.state = "run" => o \in Halt(db, 1, rowid)
        BY <3>6 DEF StepOf, Inserting
      <4>2. v.state # "run"
        BY <3>6, <4>1, HaltEffect
      <4>3. QED
        BY <3>2, <4>2 DEF Stepped
    <3>8. Sound(db) /\ o \in Insert(v, db)
      BY <3>2, <3>6, <3>7 DEF Stepped, StepOf, Inserting
    <3>9. /\ db'.disk = db.disk /\ db'.view = db.view \cup {call.params}
          /\ db'.autocommit = db.autocommit
      BY <3>1, <3>3, <3>6, <3>8, YieldedRow DEF Current
    <3>10. QED
      BY <3>4, <3>8, <3>9, SoundPending DEF Pending
  <2>5. CASE Finish
    BY <2>1, <2>5 DEF Finish, NoCall, Calling
  <2>6. ASSUME NEW s, NEW v, NEW api, NEW params, Begin(s, v, api, params),
               ~ Calling, db' = db
        PROVE  Pending'
    <3>1. Sound(db)
      BY <2>6 DEF CallInv, Engine
    <3>2. QED
      BY <2>3, <2>6, <3>1
  <2>7. QED
    BY <2>2, <2>4, <2>5, <2>6
    DEF Next, vars, prepare, clear_bindings, finalize, interrupt, StatementCall,
        ConnectionCall
<1>3. QED
  BY <1>1, <1>2

\* It holds of every reachable state.
LEMMA PendingInvariance == Spec => []Pending
<1>1. Init => Pending
  BY DEF Init, Idle, Pending
<1>2. CallInv /\ CallInv' /\ Pending /\ [Next]_vars => Pending'
  BY NextPending
<1>3. QED
  BY <1>1, <1>2, Invariance, PTL DEF Spec

\* The connection as the program sees it, and a step of it.
Shown(d) == [d EXCEPT !.view = Seen(d)]
Shows(d, e) == StoreStep(Shown(d), Shown(e))

\* What the program sees of a connection.
LEMMA ShownFields ==
    ASSUME NEW d \in Db
    PROVE  /\ Shown(d).disk = d.disk /\ Shown(d).autocommit = d.autocommit
           /\ Shown(d).view = IF d.autocommit THEN d.disk ELSE d.view
BY DEF Shown, Seen, Db

\* Between two statements that is the connection.
LEMMA SoundIsShown ==
    ASSUME NEW d, Sound(d)
    PROVE  d \in Db /\ Shown(d) = d /\ Haltable(d)
<1>1. d \in Db /\ d = [d EXCEPT !.view = d.view]
  BY DEF Sound, Db
<1>2. Seen(d) = d.view
  BY SoundPending DEF Seen
<1>3. QED
  BY <1>1, <1>2, SoundIsHaltable DEF Shown

\* What a program sees that stays the same.
LEMMA SameShown ==
    ASSUME NEW d \in Db, NEW e \in Db, e.disk = d.disk, e.autocommit = d.autocommit,
           ~ d.autocommit => e.view = d.view
    PROVE  Shows(d, e)
BY ShownFields DEF Shows, StoreStep, TakesBack, Alike

\* A connection rolled back by SQLite.
LEMMA IdleShows ==
    ASSUME NEW d, Haltable(d)
    PROVE  Shows(d, Idle(d.disk))
<1> DEFINE e == Idle(d.disk)
<1>1. d \in Db /\ e \in Db /\ e.disk = d.disk /\ e.view = d.disk /\ e.autocommit
  BY HaltableIdle DEF Sound, Idle
<1>2. CASE d.autocommit
  BY <1>1, <1>2, SameShown
<1>3. CASE ~ d.autocommit
  BY <1>1, <1>3, ShownFields DEF Shows, StoreStep, TakesBack, Aborts
<1>4. QED
  BY <1>2, <1>3

\* Halting commits the row that was waiting, or drops it.
LEMMA HaltShows ==
    ASSUME NEW d, Haltable(d), NEW w, d.autocommit => d.view \subseteq d.disk \cup {w},
           NEW n, NEW id, NEW o \in Halt(d, n, id)
    PROVE  Shows(d, o.db)
<1>1. d \in Db /\ d.view \in SUBSET Writes
  BY HaltableIdle DEF Db
<1>2. CASE o.db = d
  BY <1>1, <1>2, SameShown
<1>3. CASE o.db = Idle(d.disk)
  BY <1>3, IdleShows
<1>4. CASE d.autocommit /\ o.db = Idle(d.view) /\ ~ DeferredViolation(d.view)
  <2>1. /\ o.db \in Db /\ o.db.disk = d.view /\ o.db.view = d.view
        /\ o.db.autocommit = TRUE
    BY <1>1, <1>4, IdleSound DEF Sound, Idle
  <2>2. CASE d.view = d.disk
    BY <1>1, <1>4, <2>1, <2>2, SameShown
  <2>3. CASE d.view # d.disk
    <3>1. d.disk \subseteq d.view
      BY <1>4 DEF Haltable, Written
    <3>2. w \in d.view /\ d.view = d.disk \cup {w} /\ w \in Writes /\ w \notin BadWrites
      BY <1>1, <1>4, <2>3, <3>1 DEF DeferredViolation
    <3>3. /\ Shown(d).disk = d.disk /\ Shown(d).view = d.disk /\ Shown(d).autocommit
          /\ Shown(o.db).disk = d.view /\ Shown(o.db).view = d.view
          /\ Shown(o.db).autocommit = Shown(d).autocommit
      BY <1>1, <1>4, <2>1, ShownFields
    <3>4. Adds(Shown(d), Shown(o.db))
      BY <3>2, <3>3 DEF Adds
    <3>5. QED
      BY <3>4 DEF Shows, StoreStep
  <2>4. QED
    BY <2>2, <2>3
<1>5. QED
  BY <1>2, <1>3, <1>4, HaltEffect

\* A failing INSERT drops its row.
LEMMA FailShows ==
    ASSUME NEW d, Haltable(d), NEW last, NEW id
    PROVE  Shows(d, Fail(d, last, id).db)
<1>1. Fail(d, last, id).db = IF d.autocommit THEN Idle(d.disk) ELSE d
  BY OutcomeFields DEF Fail
<1>2. d \in Db
  BY HaltableIdle
<1>3. CASE d.autocommit
  BY <1>1, <1>3, IdleShows
<1>4. CASE ~ d.autocommit
  BY <1>1, <1>2, <1>4, SameShown
<1>5. QED
  BY <1>3, <1>4

\* Where a step leads does not depend on the lock, nor on what is not committed.
LEMMA ShowsFrom ==
    ASSUME NEW d \in Db, NEW e \in Db, e.disk = d.disk, e.autocommit = d.autocommit,
           ~ d.autocommit => e.view = d.view, NEW f, Shows(e, f)
    PROVE  Shows(d, f)
<1>1. /\ Shown(e).disk = Shown(d).disk /\ Shown(e).view = Shown(d).view
      /\ Shown(e).autocommit = Shown(d).autocommit
  BY ShownFields
<1>2. QED
  BY <1>1
  DEF Shows, StoreStep, TakesBack, Alike, Undoes, Aborts, Begins, Adds, Commits

\* A first step of INSERT adds a row, or drops it, or ends the transaction.
LEMMA InsertShows ==
    ASSUME NEW d, Sound(d), NEW v \in Vdbe, NEW o \in Insert(v, d)
    PROVE  Shows(d, o.db)
<1>1. PICK row, locked, written :
        /\ row = v.bound
        /\ locked = [d EXCEPT !.lock = LockFor(@, "immediate")]
        /\ written = [d EXCEPT !.lock = Dirtied(@), !.view = @ \cup {row}]
  OBVIOUS
<1>2. /\ d \in Db /\ d.view \in SUBSET Writes /\ Haltable(d)
      /\ LockFor(d.lock, "immediate") \in Locks /\ Dirtied(d.lock) \in Locks
      /\ d.autocommit => d.view = d.disk
  BY SoundIsHaltable, SoundPending DEF Sound, Db, Locks, LockFor, Dirtied
<1>3. /\ Haltable(locked) /\ locked.disk = d.disk /\ locked.view = d.view
      /\ locked.autocommit = d.autocommit /\ locked \in Db
  <2>1. locked = [d EXCEPT !.view = d.view, !.lock = LockFor(d.lock, "immediate")]
    BY <1>1, <1>2 DEF Db
  <2>2. Haltable(locked)
    BY <1>2, <2>1, WriteIsHaltable
  <2>3. QED
    BY <1>1, <1>2, <2>2, HaltableIdle DEF Db
<1>4. ASSUME row \in Writes
      PROVE  /\ Haltable(written) /\ written.disk = d.disk
             /\ written.view = d.view \cup {row}
             /\ written.autocommit = d.autocommit /\ written \in Db
  <2>1. written = [d EXCEPT !.view = d.view \cup {row}, !.lock = Dirtied(d.lock)]
    BY <1>1, <1>2 DEF Db
  <2>2. d.view \cup {row} \in SUBSET Writes /\ d.view \subseteq d.view \cup {row}
    BY <1>2, <1>4
  <2>3. Haltable(written)
    BY <1>2, <2>1, <2>2, WriteIsHaltable
  <2>4. QED
    BY <1>1, <1>2, <2>3, HaltableIdle DEF Db
<1>5. CASE \E id : o = Fail(locked, "error", id) \/ o = Fail(d, "error", id)
  <2>1. PICK id : o = Fail(locked, "error", id) \/ o = Fail(d, "error", id)
    BY <1>5
  <2>2. Shows(locked, Fail(locked, "error", id).db) /\ Shows(d, Fail(d, "error", id).db)
    BY <1>2, <1>3, FailShows
  <2>3. QED
    BY <1>2, <1>3, <2>1, <2>2, ShowsFrom
<1>6. CASE \E id : o = Fail(Idle(d.disk), "error", id)
  <2>1. o.db = Idle(d.disk)
    BY <1>6, OutcomeFields DEF Fail, Idle
  <2>2. QED
    BY <1>2, <2>1, IdleShows
<1>7. CASE o \in Halt(locked, 0, rowid)
  <2>1. Shows(locked, o.db)
    BY <1>2, <1>3, <1>7, HaltShows
  <2>2. QED
    BY <1>2, <1>3, <2>1, ShowsFrom
<1>8. CASE row \in Writes /\ o.db = written
  <2>1. CASE d.autocommit
    BY <1>2, <1>4, <1>8, <2>1, SameShown
  <2>2. CASE ~ d.autocommit
    <3>1. Adds(Shown(d), Shown(o.db))
      BY <1>2, <1>4, <1>8, <2>2, ShownFields DEF Adds
    <3>2. QED
      BY <3>1 DEF Shows, StoreStep
  <2>3. QED
    BY <2>1, <2>2
<1>9. CASE row \in Writes /\ o \in Halt(written, 1, row)
  <2>1. CASE d.autocommit
    <3>1. Shows(written, o.db)
      BY <1>2, <1>4, <1>9, <2>1, HaltShows
    <3>2. QED
      BY <1>2, <1>4, <1>9, <2>1, <3>1, ShowsFrom
  <2>2. CASE ~ d.autocommit
    <3>1. o.db = written
      BY <1>4, <1>9, <2>2, HaltEffect
    <3>2. QED
      BY <1>8, <1>9, <3>1
  <2>3. QED
    BY <2>1, <2>2
<1>10. ASSUME NEW n, NEW id, o = Outcome(written, "row", row, {}, n, id)
       PROVE  o.db = written
  BY <1>10, OutcomeFields
<1>11. QED
  BY <1>1, <1>5, <1>6, <1>7, <1>8, <1>9, <1>10 DEF Insert

\* A step of any statement is a step of the store or none.
LEMMA StepShows ==
    ASSUME NEW d, NEW v, Stepped(v, d), d.autocommit => d.view \subseteq d.disk \cup {v.bound},
           NEW o \in StepOf(v, d, FALSE)
    PROVE  Shows(d, o.db)
<1> USE DEF Stepped
<1>1. CASE v.sql = "select"
  <2>1. Sound(d) /\ o \in Select(v, d)
    BY <1>1 DEF StepOf, Inserting
  <2>2. PICK last, row, todo :
          \/ o = Outcome(d, last, row, todo, changes, rowid)
          \/ o = Outcome(Idle(d.disk), last, row, todo, changes, rowid)
    BY <2>1, Zenon DEF Select
  <2>3. o.db = d \/ o.db = Idle(d.disk)
    BY <2>2, OutcomeFields
  <2>4. QED
    BY <2>1, <2>2, <2>3, SoundIsShown, SameShown, IdleShows
<1>2. CASE Inserting(v.sql) /\ v.state = "run"
  <2>1. Haltable(d) /\ o \in Halt(d, 1, rowid)
    BY <1>2 DEF StepOf, Inserting
  <2>2. QED
    BY <2>1, HaltShows
<1>3. CASE Inserting(v.sql) /\ v.state # "run"
  <2>1. Sound(d) /\ o \in Insert(v, d)
    BY <1>3 DEF StepOf, Inserting
  <2>2. QED
    BY <2>1, InsertShows
<1>4. CASE v.sql # "select" /\ ~ Inserting(v.sql)
  <2>1. Sound(d) /\ o \in Transact(v.sql, d)
    BY <1>4 DEF StepOf
  <2>2. v.sql \in {"begin", "commit", "rollback"}
    BY <1>4, KindsAssumption DEF Inserting
  <2>3. PICK r \in SqlBegin(d, "deferred") \cup SqlCommit(d) \cup SqlRollback(d) :
          o = Outcome(r.db, IF r.ok THEN "done" ELSE "error", NoRow, {}, changes, rowid)
    BY <2>1, <2>2 DEF Transact
  <2>4. o.db = r.db
    BY <2>3, OutcomeFields
  <2>5. StoreStep(d, r.db) /\ Sound(r.db)
    BY <2>1, BeginSteps, CommitSteps, RollbackSteps, BeginFollows, CommitFollows,
       RollbackFollows DEF StoreStep, Follows, Behaviors
  <2>6. QED
    BY <2>1, <2>4, <2>5, SoundIsShown DEF Shows
<1>5. QED
  BY <1>1, <1>2, <1>3, <1>4

\* Every step of the program shows as a step of the store or none.
LEMMA EveryStepShows ==
    ASSUME CallInv, Pending, [Next]_vars
    PROVE  Shows(db, db')
<1>0. TypeOK /\ Engine
  BY DEF CallInv
<1>1. CASE db' = db
  BY <1>0, <1>1, SameShown DEF TypeOK
<1>2. CASE Step
  <2> DEFINE v == stmts[call.stmt]
  <2>1. Calling /\ WantsStep /\ Current(v)
    BY <1>2 DEF Step, CallInv
  <2>2. ~ ClearInterrupt /\ Stepped(v, db)
    BY <2>1, NotInterrupted
  <2>3. PICK o \in StepOf(v, db, FALSE) : db' = o.db
    BY <1>2, <2>2 DEF Step, ClearInterrupt
  <2>4. db.autocommit => db.view \subseteq db.disk \cup {v.bound}
    BY <2>1 DEF Pending, Current
  <2>5. QED
    BY <2>2, <2>3, <2>4, StepShows
<1>3. CASE Finish
  <2> DEFINE v == stmts[call.stmt]
  <2>1. PICK o \in ResetOf(v, db) : db' = o.db
    BY <1>3 DEF Finish
  <2>2. CASE v.state = "run" /\ Inserting(v.sql)
    <3>1. Haltable(db) /\ o \in Halt(db, 1, rowid)
      BY <1>0, <1>3, <2>1, <2>2 DEF Finish, Engine, ResetOf
    <3>2. QED
      BY <2>1, <3>1, HaltShows DEF Pending
  <2>3. CASE ~ (v.state = "run" /\ Inserting(v.sql))
    BY <1>1, <2>1, <2>3, OutcomeFields DEF ResetOf
  <2>4. QED
    BY <2>2, <2>3
<1>4. QED
  BY <1>1, <1>2, <1>3
  DEF Next, vars, prepare, clear_bindings, finalize, interrupt, StatementCall,
      ConnectionCall

\* The steps are those of AtomicStore.
LEMMA ShowsRefines ==
    ASSUME db \in Db, db' \in Db, Shows(db, db')
    PROVE  [Store!ANext]_(Store!avars)
<1>1. PICK d, e : d = Shown(db) /\ e = Shown(db')
  OBVIOUS
<1>2. /\ d.disk = db.disk /\ d.view = Seen(db) /\ d.autocommit = db.autocommit
      /\ e.disk = db'.disk /\ e.view = Seen(db)' /\ e.autocommit = db'.autocommit
      /\ db.autocommit \in BOOLEAN /\ db'.autocommit \in BOOLEAN
  BY <1>1, ShownFields DEF Seen, Db
<1>3. StoreStep(d, e)
  BY <1>1 DEF Shows
<1> HIDE DEF Seen
<1>4. CASE Alike(d, e)
  BY <1>2, <1>4 DEF Alike, Store!avars
<1>5. CASE Begins(d, e)
  <2>1. Store!Begin
    BY <1>2, <1>5 DEF Begins, Store!Begin
  <2>2. QED
    BY <2>1 DEF Store!ANext
<1>6. CASE Adds(d, e)
  <2>1. PICK w \in Writes :
          /\ e.view = d.view \cup {w} /\ e.autocommit = d.autocommit
          /\ \/ ~ d.autocommit /\ e.disk = d.disk
             \/ d.autocommit /\ w \notin BadWrites /\ e.disk = d.disk \cup {w}
    BY <1>6 DEF Adds
  <2>2. Store!Insert(w) \/ Store!InsertAndCommit(w)
    BY <1>2, <2>1 DEF Store!Insert, Store!InsertAndCommit
  <2>3. QED
    BY <2>2 DEF Store!ANext
<1>7. CASE Undoes(d, e)
  <2>1. Store!Undo(Seen(db)') /\ Seen(db)' \in SUBSET Seen(db)
    BY <1>2, <1>7 DEF Undoes, Store!Undo
  <2>2. QED
    BY <2>1 DEF Store!ANext
<1>8. CASE Commits(d, e)
  <2>1. Store!Commit
    BY <1>2, <1>8 DEF Commits, Store!Commit
  <2>2. QED
    BY <2>1 DEF Store!ANext
<1>9. CASE Aborts(d, e)
  <2>1. Store!Abort
    BY <1>2, <1>9 DEF Aborts, Store!Abort
  <2>2. QED
    BY <2>1 DEF Store!ANext
<1>10. QED
  BY <1>3, <1>4, <1>5, <1>6, <1>7, <1>8, <1>9 DEF StoreStep, TakesBack

\* Each sqlite3_step and each reset of a call is one atomic step of the database,
\* or none: for every fault at any of them, no row is half there, committed with
\* another one, or committed and taken back.
THEOREM CallsImplement == Spec => ImplementsStore
<1>1. Init => Store!AInit
  BY DEF Init, Idle, Seen, Store!AInit
<1>2. CallInv /\ CallInv' /\ Pending /\ [Next]_vars => [Store!ANext]_(Store!avars)
  BY EveryStepShows, ShowsRefines DEF CallInv, TypeOK
<1>3. QED
  BY <1>1, <1>2, Invariance, PendingInvariance, PTL
  DEF Spec, ImplementsStore, Store!ASpec

----------------------------------------------------------------------------
(* What lies under the liveness of calls.                                   *)

\* A running SELECT yields one of the rows it has left, or stops.
LEMMA SelectRunsOut ==
    ASSUME NEW d, NEW v, v.state = "run", NEW o \in Select(v, d)
    PROVE  \/ o.last \in {"done", "error"}
           \/ \E row \in v.todo : o.todo = v.todo \ {row}
<1>1. PICK e, last, row, todo :
        /\ o = Outcome(e, last, row, todo, changes, rowid)
        /\ \/ last \in {"done", "error"}
           \/ row \in v.todo /\ todo = v.todo \ {row}
  BY Zenon DEF Select
<1>2. o.last = last /\ o.todo = todo
  BY <1>1, OutcomeFields
<1>3. QED
  BY <1>1, <1>2

\* No error and no row makes a call step for ever: after the first step there are
\* fewer rows to come at each one, and an INSERT ends at its second.
THEOREM CallsRunOut == Spec => StepsRunOut
<1> DEFINE Fewer == /\ stmts'[call.stmt].todo \subseteq stmts[call.stmt].todo
                    /\ stmts'[call.stmt].todo # stmts[call.stmt].todo
           A == Step /\ call.last # "start" => ~ WantsStep' \/ Fewer
<1>1. ASSUME CallInv, Step, call.last # "start"
      PROVE  ~ WantsStep' \/ Fewer
  <2> DEFINE c == call.stmt
             v == stmts[c]
  <2>1. Calling /\ WantsStep /\ TypeOK /\ Current(v) /\ call.last = "row"
    BY <1>1 DEF Step, CallInv, WantsStep
  <2>2. ~ ClearInterrupt /\ c \in AllStatements /\ Stepped(v, db) /\ v.state = "run"
    BY <1>1, <2>1, NotInterrupted DEF Current
  <2>3. PICK o \in StepOf(v, db, FALSE) :
          /\ stmts' = [stmts EXCEPT ![c].todo = o.todo,
                ![c].state = IF o.last = "row" THEN "run" ELSE "halt"]
          /\ call' = [call EXCEPT !.last = o.last,
                                  !.got = @ \cup ({o.row} \ {NoRow})]
    BY <1>1, <2>2 DEF Step, ClearInterrupt
  <2>4. call'.last = o.last /\ stmts'[c].todo = o.todo
    BY <2>1, <2>2, <2>3 DEF TypeOK, Call, Vdbe
  <2>5. o.last \in {"done", "error"} => ~ WantsStep'
    BY <2>4 DEF WantsStep
  <2>6. CASE Inserting(v.sql)
    <3>1. o \in Halt(db, 1, rowid)
      BY <2>2, <2>6 DEF StepOf, Inserting
    <3>2. QED
      BY <2>5, <3>1, HaltEffect
  <2>7. CASE v.sql = "select"
    <3>1. o \in Select(v, db)
      BY <2>7 DEF StepOf, Inserting
    <3>2. \/ o.last \in {"done", "error"}
          \/ \E row \in v.todo : o.todo = v.todo \ {row}
      BY <2>2, <3>1, SelectRunsOut
    <3>3. (\E row \in v.todo : o.todo = v.todo \ {row}) => Fewer
      BY <2>4
    <3>4. QED
      BY <2>5, <3>2, <3>3
  <2>8. QED
    BY <2>2, <2>6, <2>7 DEF Stepped
<1>2. CallInv /\ [Next]_vars => [A]_vars
  BY <1>1
<1>3. QED
  BY <1>2, Invariance, PTL DEF Spec, StepsRunOut

\* Halting has an outcome.
LEMMA HaltHappens ==
    ASSUME NEW d, NEW n, NEW id
    PROVE  Halt(d, n, id) # {}
<1>1. CASE d.autocommit
  <2>1. PICK r : r \in EndByCommit(d, Idle(d.disk))
    BY DEF EndByCommit
  <2>2. QED
    BY <1>1, <2>1, Zenon DEF Halt
<1>2. CASE ~ d.autocommit
  BY <1>2 DEF Halt
<1>3. QED
  BY <1>1, <1>2

\* A step has an outcome.
LEMMA StepHappens ==
    ASSUME NEW d, NEW v, Stepped(v, d)
    PROVE  StepOf(v, d, FALSE) # {}
<1>1. CASE v.sql = "select"
  <2>1. Select(v, d) # {}
    BY Zenon DEF Select
  <2>2. QED
    BY <1>1, <2>1 DEF StepOf, Inserting
<1>2. CASE Inserting(v.sql)
  <2>1. PICK locked, written :
          /\ locked = [d EXCEPT !.lock = LockFor(@, "immediate")]
          /\ written = [d EXCEPT !.lock = Dirtied(@), !.view = @ \cup {v.bound}]
    OBVIOUS
  <2>2. \/ Halt(locked, 0, rowid) \subseteq Insert(v, d)
        \/ Halt(written, 1, v.bound) \subseteq Insert(v, d)
        \/ \E o : o \in Insert(v, d)
    BY <2>1, Zenon DEF Insert
  <2>3. Insert(v, d) # {}
    BY <2>2, HaltHappens
  <2>4. QED
    BY <1>2, <2>3, HaltHappens DEF StepOf, Inserting
<1>3. CASE v.sql # "select" /\ ~ Inserting(v.sql)
  <2>1. v.sql \in {"begin", "commit", "rollback"}
    BY <1>3, KindsAssumption DEF Stepped, Inserting
  <2>2. /\ SqlBegin(d, "deferred") # {} /\ SqlCommit(d) # {} /\ SqlRollback(d) # {}
    BY DEF SqlBegin, SqlCommit, SqlRollback, EndByCommit
  <2>3. Transact(v.sql, d) # {}
    BY <2>1, <2>2 DEF Transact
  <2>4. QED
    BY <1>3, <2>3 DEF StepOf
<1>4. QED
  BY <1>1, <1>2, <1>3

\* A call that runs can go on: sqlite3_step and sqlite3_reset always have an
\* outcome, so Step is enabled while the call wants one, and Finish when not.
THEOREM CallsGoOn ==
    Spec => [](Calling => IF WantsStep
                          THEN StepOf(stmts[call.stmt], db, ClearInterrupt) # {}
                          ELSE ResetOf(stmts[call.stmt], db) # {})
<1>1. ASSUME CallInv, Calling, WantsStep
      PROVE  StepOf(stmts[call.stmt], db, ClearInterrupt) # {}
  <2>1. ~ ClearInterrupt /\ Stepped(stmts[call.stmt], db)
    BY <1>1, NotInterrupted
  <2>2. ClearInterrupt = FALSE
    BY <1>1, <2>1 DEF ClearInterrupt, CallInv, TypeOK
  <2>3. QED
    BY <2>1, <2>2, StepHappens
<1>2. ResetOf(stmts[call.stmt], db) # {}
  BY HaltHappens DEF ResetOf
<1>3. CallInv => (Calling => IF WantsStep
                             THEN StepOf(stmts[call.stmt], db, ClearInterrupt) # {}
                             ELSE ResetOf(stmts[call.stmt], db) # {})
  BY <1>1, <1>2
<1>4. QED
  BY <1>3, Invariance, PTL

----------------------------------------------------------------------------
(* When the two promises hold that the code breaks.                         *)

\* The rows a query has read and those it has yet to read are those that were
\* there when it was called.
Yielded ==
    Calling => LET v == stmts[call.stmt] IN v.sql = "select"
        => /\ call.last = "start" => call.got = {} /\ call.before = db
           /\ call.last = "row"   => v.todo \cup call.got = call.before.view
           /\ call.last = "done"  => call.got = call.before.view
           /\ call.last # "error"

\* A SELECT that nothing disturbs yields one of its rows, or has none left.
LEMMA SelectYields ==
    ASSUME Faults \cap {"busy", "special"} = {}, NEW d, NEW v, NEW o \in Select(v, d)
    PROVE  LET todo == IF v.state = "run" THEN v.todo ELSE d.view IN
           \/ o.last = "row" /\ o.row \in todo /\ o.todo = todo \ {o.row}
           \/ o.last = "done" /\ o.row = NoRow /\ todo = {}
<1>1. PICK todo : todo = IF v.state = "run" THEN v.todo ELSE d.view
  OBVIOUS
<1>2. o \in IF todo = {} THEN {Outcome(d, "done", NoRow, {}, changes, rowid)}
            ELSE {Outcome(d, "row", row, todo \ {row}, changes, rowid) : row \in todo}
  BY <1>1 DEF Select
<1>3. CASE todo = {}
  BY <1>1, <1>2, <1>3, OutcomeFields
<1>4. CASE todo # {}
  <2>1. PICK row \in todo : o = Outcome(d, "row", row, todo \ {row}, changes, rowid)
    BY <1>2, <1>4
  <2>2. o.last = "row" /\ o.row = row /\ o.todo = todo \ {row}
    BY <2>1, OutcomeFields
  <2>3. QED
    BY <1>1, <2>1, <2>2
<1>5. QED
  BY <1>3, <1>4

\* Every step keeps it.
LEMMA NextYielded ==
    ASSUME Faults \cap {"busy", "special"} = {}, CallInv, Yielded, [Next]_vars
    PROVE  Yielded'
<1>1. ASSUME NEW s, NEW v, NEW api, NEW params, Begin(s, v, api, params),
             ~ Calling, db' = db
      PROVE  Yielded'
  <2>1. CASE call' = call
    BY <1>1, <2>1 DEF Yielded, Calling
  <2>2. CASE call' = [stmt |-> s, api |-> api, params |-> params,
                      before |-> db, got |-> {}, last |-> "start"]
    <3>1. call'.last = "start" /\ call'.got = {} /\ call'.before = db'
      BY <1>1, <2>2
    <3>2. QED
      BY <3>1 DEF Yielded
  <2>3. QED
    BY <1>1, <2>1, <2>2 DEF Begin
<1>2. CASE Step
  <2> DEFINE c == call.stmt
             v == stmts[c]
  <2>1. Calling /\ WantsStep /\ TypeOK /\ Current(v)
    BY <1>2 DEF Step, CallInv
  <2>2. ~ ClearInterrupt /\ c \in AllStatements /\ Stepped(v, db)
    BY <2>1, NotInterrupted
  <2>3. PICK o \in StepOf(v, db, FALSE) :
          /\ stmts' = [stmts EXCEPT ![c].todo = o.todo,
                ![c].state = IF o.last = "row" THEN "run" ELSE "halt"]
          /\ call' = [call EXCEPT !.last = o.last,
                                  !.got = @ \cup ({o.row} \ {NoRow})]
    BY <1>2, <2>2 DEF Step, ClearInterrupt
  <2>4. /\ call'.stmt = c /\ call'.before = call.before /\ call'.last = o.last
        /\ call'.got = call.got \cup ({o.row} \ {NoRow})
    BY <2>1, <2>3 DEF TypeOK, Call
  <2>5. stmts'[c].sql = v.sql /\ stmts'[c].todo = o.todo
    BY <2>1, <2>2, <2>3 DEF TypeOK, Vdbe
  <2>6. CASE v.sql # "select"
    BY <2>4, <2>5, <2>6 DEF Yielded
  <2>7. CASE v.sql = "select"
    <3>1. Sound(db) /\ o \in Select(v, db)
      BY <2>2, <2>7 DEF StepOf, Stepped, Inserting
    <3>2. PICK todo : todo = IF v.state = "run" THEN v.todo ELSE db.view
      OBVIOUS
    <3>3. todo \cup call.got = call.before.view
      <4>1. CASE call.last = "start"
        BY <2>1, <2>7, <3>2, <4>1 DEF Current, Yielded
      <4>2. CASE call.last = "row"
        BY <2>1, <2>7, <3>2, <4>2 DEF Current, Yielded
      <4>3. QED
        BY <2>1, <4>1, <4>2 DEF WantsStep
    <3>4. todo \subseteq Rows
      BY <2>2, <3>1, <3>2, ValuesAssumption DEF Stepped, Vdbe, Sound, Db, Rows
    <3>5. \/ o.last = "row" /\ o.row \in todo /\ o.todo = todo \ {o.row}
          \/ o.last = "done" /\ o.row = NoRow /\ todo = {}
      BY <3>1, <3>2, SelectYields
    <3>6. CASE o.last = "row"
      <4>1. o.row \in Rows /\ o.row # NoRow
        BY <3>4, <3>5, <3>6 DEF Rows, NoRow
      <4>2. o.todo \cup call'.got = call'.before.view
        BY <2>4, <3>3, <3>5, <3>6, <4>1
      <4>3. QED
        BY <2>4, <2>5, <3>6, <4>2 DEF Yielded
    <3>7. CASE o.last = "done"
      <4>1. call'.got = call'.before.view
        BY <2>4, <3>3, <3>5, <3>7
      <4>2. QED
        BY <2>4, <3>7, <4>1 DEF Yielded
    <3>8. QED
      BY <3>5, <3>6, <3>7
  <2>8. QED
    BY <2>6, <2>7
<1>3. CASE Finish
  BY <1>3 DEF Finish, NoCall, Yielded, Calling
<1>4. CASE UNCHANGED vars
  BY <1>4 DEF vars, Yielded, Calling
<1>5. CASE ~ Calling /\ call' = call
  BY <1>5 DEF Yielded, Calling
<1>6. QED
  BY <1>1, <1>2, <1>3, <1>4, <1>5
  DEF Next, prepare, clear_bindings, finalize, interrupt, StatementCall, ConnectionCall

\* query() of a SELECT returns every row that was there, if no file is busy and no
\* statement fails: only an error of a step that SQLite reports makes it lose rows.
THEOREM QueryIsComplete ==
    ASSUME Faults \cap {"busy", "special"} = {}
    PROVE  Spec => QueryReturnsEveryRow
<1> DEFINE A == Finish /\ call.api = "query" /\ stmts[call.stmt].sql = "select"
                       /\ result' = "return"
                => call.got = call.before.view
<1>1. ASSUME CallInv, Yielded, Finish, call.api = "query",
             stmts[call.stmt].sql = "select"
      PROVE  call.got = call.before.view
  <2>1. Calling /\ ~ WantsStep /\ Current(stmts[call.stmt]) /\ TypeOK
    BY <1>1 DEF Finish, CallInv
  <2>2. call.last = "done"
    BY <1>1, <2>1 DEF WantsStep, Current, Yielded, TypeOK, Call
  <2>3. QED
    BY <1>1, <2>1, <2>2 DEF Yielded
<1>2. Init => Yielded
  BY DEF Init, NoCall, Yielded, Calling
<1>3. CallInv /\ Yielded /\ [Next]_vars => Yielded'
  BY NextYielded
<1>4. CallInv /\ Yielded /\ [Next]_vars => [A]_vars
  BY <1>1
<1>5. QED
  BY <1>2, <1>3, <1>4, Invariance, PTL DEF Spec, QueryReturnsEveryRow

\* queryRow() of an INSERT returns only when its row is in the database, if the
\* commit in the reset cannot fail: no file is busy, no write fails, and no row
\* violates a deferred foreign key.
THEOREM QueryRowIsDone ==
    ASSUME Faults \cap {"busy", "io"} = {}, Parameters \cap BadWrites = {}
    PROVE  Spec => QueryRowMeansDone
<1> DEFINE A == Finish /\ result' = "return" /\ call.api = "query_row" => RowIsThere
<1>1. ASSUME CallInv, Effects, Pending, Finish, result' = "return",
             call.api = "query_row",
             stmts[call.stmt].sql \in {"insert", "insert returning"}
      PROVE  call.params \in Seen(db)'
  <2> DEFINE v == stmts[call.stmt]
  <2>1. call.last = "row" /\ Calling /\ Current(v) /\ Engine /\ TypeOK
    BY <1>1 DEF Finish, Returns, CallInv
  <2>2. v.state = "run" /\ Inserting(v.sql) /\ Haltable(db)
    BY <1>1, <2>1 DEF Current, Engine, Inserting
  <2>3. call.params \in db.view
    BY <1>1, <2>1 DEF Effects, RowAdded
  <2>4. PICK o \in Halt(db, 1, rowid) : db' = o.db
    BY <1>1, <2>2 DEF Finish, ResetOf
  <2>5. CASE ~ db.autocommit
    <3>1. db' = db
      BY <2>4, <2>5, HaltEffect
    <3>2. QED
      BY <2>3, <2>5, <3>1 DEF Seen
  <2>6. CASE db.autocommit
    <3>1. db.view \subseteq db.disk \cup {call.params} /\ ~ DeferredViolation(db.disk)
          /\ db.view \subseteq Writes
      BY <1>1, <2>2, <2>6, HaltableIdle DEF Pending, Haltable, Written, Db
    <3>2. call.params \in Parameters \cup {<<>>} /\ call.params \in Rows
      BY <2>1, <2>3, <3>1, ValuesAssumption DEF TypeOK, Call, Rows
    <3>3. call.params \in Parameters
      BY <3>2 DEF Rows
    <3>4. ~ DeferredViolation(db.view)
      BY <3>1, <3>3 DEF DeferredViolation
    <3>5. EndByCommit(db, Idle(db.disk)) = {Ok(Idle(db.view))}
      BY <3>4 DEF EndByCommit
    <3>6. o.last = "done"
      BY <2>4, <2>6, <3>5, OutcomeFields DEF Halt, Ok
    <3>7. db' = Idle(db.view)
      BY <2>4, <2>6, <3>6, HaltEffect
    <3>8. QED
      BY <2>3, <3>7 DEF Seen, Idle
  <2>7. QED
    BY <2>5, <2>6
<1>2. CallInv /\ Effects /\ Pending /\ [Next]_vars => [A]_vars
  BY <1>1 DEF RowIsThere, Seen
<1>3. QED
  BY <1>2, Invariance, EffectsInvariance, PendingInvariance, PTL
  DEF Spec, QueryRowMeansDone
=============================================================================
