---------------------------- MODULE SavepointProofs ----------------------------
(***************************************************************************)
(* Theorems about savepoint calls, for programs that send no transaction     *)
(* SQL as text, where the file is never busy and never fails; a statement   *)
(* may fail with an error that rolls the whole transaction back.            *)
(***************************************************************************)
EXTENDS DisciplineProofs

FileObeys == ~ RawSql /\ Faults \subseteq {"special"}

\* The savepoints are those of the innermost running calls: a call has lost
\* its savepoint only if all outer ones have, too.
SInv == IInv /\ Aligned(db, frames)

\* While a call is running that found no transaction, the transaction is one
\* that a savepoint opened, and has no savepoints of outer calls.
Opened ==
    \A i \in 1..Len(frames) :
        frames[i].outermost /\ ~ db.autocommit =>
            db.root /\ Len(db.savepoints) <= Len(frames) - i + 1

\* A connection without savepoints, or with the same ones, stays aligned.
SameOrNone(d, e) == e.savepoints = d.savepoints \/ e.savepoints = <<>>

LEMMA SameOrNoneAligned ==
    ASSUME NEW d, NEW fs \in Seq(Frame), Aligned(d, fs), NEW e, SameOrNone(d, e)
    PROVE  Aligned(e, fs)
<1>1. CASE e.savepoints = d.savepoints
  BY <1>1 DEF Aligned
<1>2. CASE e.savepoints = <<>>
  <2>1. Len(e.savepoints) = 0 /\ Len(fs) \in Nat
    BY <1>2
  <2>2. Len(e.savepoints) <= Len(fs) /\ 1..Len(e.savepoints) = {}
    BY <2>1
  <2>3. QED
    BY <2>2 DEF Aligned
<1>3. QED
  BY <1>1, <1>2 DEF SameOrNone

----------------------------------------------------------------------------
(* The end of a savepoint call.                                             *)

\* The last savepoint of a transaction that a savepoint opened: the call ends
\* the transaction, and if it rolls back, with the rows from before the call.
LEMMA LastReturn ==
    ASSUME FileObeys, NEW d, Sound(d), ~ Nested(d), NEW fs \in Seq(Frame),
           fs # <<>>, Aligned(d, fs), NEW n, n = fs[Len(fs)].name,
           NEW r \in SavepointCommit(d, n) \cup SavepointRollback(d, n)
    PROVE  /\ r.db.autocommit /\ r.db.savepoints = <<>>
           /\ r \in SavepointRollback(d, n) => r.db.view = fs[Len(fs)].entry
<1> DEFINE entry == fs[Len(fs)].entry
           d1 == [d EXCEPT !.view = entry]
<1>1. d \in Db /\ d.root /\ Len(d.savepoints) = 1
  BY DEF Nested, Sound
<1>2. Matching(d, n) # {} /\ Find(d, n) = 1 /\ d.savepoints[1].saved = entry
  BY <1>1, TopFound
<1>3. entry = d.disk /\ ~ DeferredViolation(d.disk)
  BY <1>1, <1>2 DEF Sound, EngineOK
<1>4. SqlRollbackTo(d, n) = {Ok(d1)}
  <2>1. SqlRollbackTo(d, n) = IF Len(d.savepoints) = 0 THEN {Err(d)} ELSE {Ok(d1)}
    BY TopRollbackTo
  <2> HIDE DEF d1
  <2>2. QED
    BY <1>1, <2>1
<1>5. /\ Ok(d1).db = d1 /\ Ok(d1).ok = TRUE
      /\ d1.view = entry /\ d1.savepoints = d.savepoints /\ d1.root = d.root
  BY <1>1 DEF Ok, Db
<1>6. \A q \in SqlRollbackTo(d, n) : Sound(q.db)
  BY RollbackToFollows DEF Follows
<1> HIDE DEF d1
<1>7. Sound(d1) /\ Aligned(d1, fs)
  BY <1>4, <1>5, <1>6 DEF Aligned
<1>8. Matching(d1, n) # {} /\ Find(d1, n) = 1
  <2>1. \/ Len(d1.savepoints) = 0 /\ Matching(d1, n) = {}
        \/ Matching(d1, n) # {} /\ Find(d1, n) = Len(d1.savepoints)
    BY <1>7, TopFound
  <2>2. Len(d1.savepoints) = 1
    BY <1>1, <1>5
  <2>3. QED
    BY <2>1, <2>2
<1>9. ASSUME NEW e, NEW broken
      PROVE  EndByCommit(e, broken) = IF DeferredViolation(e.view) THEN {Err(e)}
                                      ELSE {Ok(Idle(e.view))}
  BY DEF FileObeys, EndByCommit
<1>10. SqlRelease(d1, n) = {Ok(Idle(entry))}
  BY <1>1, <1>3, <1>5, <1>8, <1>9 DEF SqlRelease
<1>11. \A rows : /\ Ok(Idle(rows)).db = Idle(rows) /\ Ok(Idle(rows)).ok = TRUE
                 /\ Idle(rows).autocommit = TRUE /\ Idle(rows).savepoints = <<>>
                 /\ Idle(rows).view = rows
  BY DEF Ok, Idle
<1>12. DropSavepoint(d, n) = {Idle(entry)}
  BY <1>4, <1>5, <1>10, <1>11 DEF DropSavepoint
<1>13. DropSavepoint(d1, n) = {Idle(entry)}
  <2>1. SqlRollbackTo(d1, n) = {Ok([d1 EXCEPT !.view = entry])}
    <3>1. SqlRollbackTo(d1, n) = IF Len(d1.savepoints) = 0 THEN {Err(d1)}
                                 ELSE {Ok([d1 EXCEPT !.view = entry])}
      BY <1>7, TopRollbackTo
    <3>2. Len(d1.savepoints) = 1
      BY <1>1, <1>5
    <3>3. QED
      BY <3>1, <3>2
  <2>2. [d1 EXCEPT !.view = entry] = d1
    BY <1>5, <1>7 DEF Sound, Db
  <2>3. QED
    BY <1>5, <1>10, <1>11, <2>1, <2>2 DEF DropSavepoint
<1>14. ASSUME r \in SavepointRollback(d, n) PROVE r.db = Idle(entry)
  <2>1. PICK q \in SqlRollbackTo(d, n) :
          \E e \in DropSavepoint(q.db, n) : r = [db |-> e, ok |-> q.ok]
    BY <1>14 DEF SavepointRollback
  <2>2. r = [db |-> Idle(entry), ok |-> q.ok]
    BY <1>4, <1>5, <1>13, <2>1
  <2>3. QED
    BY <2>2
<1>15. ASSUME r \in SavepointCommit(d, n) PROVE \E rows : r.db = Idle(rows)
  <2>1. PICK q \in SqlRelease(d, n) :
          r \in IF q.ok THEN {q} ELSE {Err(e) : e \in DropSavepoint(q.db, n)}
    BY <1>15 DEF SavepointCommit
  <2>2. q = Err(d) \/ q = Ok(Idle(d.view))
    BY <1>1, <1>2, <1>9, <2>1 DEF SqlRelease
  <2>3. CASE q = Err(d)
    <3>1. q.db = d /\ q.ok = FALSE
      BY <2>3 DEF Err
    <3>2. r = Err(Idle(entry))
      BY <1>12, <2>1, <3>1
    <3>3. QED
      BY <3>2 DEF Err
  <2>4. CASE q = Ok(Idle(d.view))
    <3>1. r = q
      BY <1>11, <2>1, <2>4
    <3>2. QED
      BY <1>11, <2>4, <3>1
  <2>5. QED
    BY <2>2, <2>3, <2>4
<1>16. QED
  BY <1>11, <1>14, <1>15

\* Whatever the savepoint is, the call leaves its caller's savepoints.
LEMMA ReturnAligned ==
    ASSUME FileObeys, NEW d, Sound(d), NEW fs \in Seq(Frame), fs # <<>>,
           Aligned(d, fs), NEW n, n = fs[Len(fs)].name,
           NEW r \in SavepointCommit(d, n) \cup SavepointRollback(d, n)
    PROVE  /\ Aligned(r.db, SubSeq(fs, 1, Len(fs) - 1))
           /\ r \in SavepointRollback(d, n) /\ r.ok => r.db.view = fs[Len(fs)].entry
<1>1. CASE Nested(d)
  BY <1>1, NestedReturn
<1>2. CASE ~ Nested(d)
  <2>1. /\ r.db.autocommit /\ r.db.savepoints = <<>>
        /\ r \in SavepointRollback(d, n) => r.db.view = fs[Len(fs)].entry
    BY <1>2, LastReturn
  <2>2. Len(fs) - 1 \in 0..Len(fs)
    OBVIOUS
  <2>3. SubSeq(fs, 1, Len(fs) - 1) \in Seq(Frame)
    BY <2>2
  <2>4. Len(r.db.savepoints) = 0 /\ Len(SubSeq(fs, 1, Len(fs) - 1)) \in Nat
    BY <2>1, <2>3
  <2>5. Aligned(r.db, SubSeq(fs, 1, Len(fs) - 1))
    <3> DEFINE gs == SubSeq(fs, 1, Len(fs) - 1)
    <3>1. Len(gs) \in Nat /\ Len(r.db.savepoints) = 0
      BY <2>4
    <3> HIDE DEF gs
    <3>2. Len(r.db.savepoints) <= Len(gs) /\ 1..Len(r.db.savepoints) = {}
      BY <3>1
    <3>3. Aligned(r.db, gs)
      BY <3>2 DEF Aligned
    <3>4. QED
      BY <3>3 DEF gs
  <2>6. QED
    BY <2>1, <2>5
<1>3. QED
  BY <1>1, <1>2

----------------------------------------------------------------------------
(* The other statements, and what they do to the savepoints.                *)

\* COMMIT and ROLLBACK take all savepoints or none,
LEMMA EndsSameOrNone ==
    ASSUME NEW d
    PROVE  \A r \in SqlCommit(d) \cup SqlRollback(d) : SameOrNone(d, r.db)
BY DEF SqlCommit, SqlRollback, EndByCommit, Ok, Err, Idle, SameOrNone

\* also in the finalizer;
LEMMA CommitElseRollbackSameOrNone ==
    ASSUME NEW d, NEW r \in CommitElseRollback(d)
    PROVE  SameOrNone(d, r.db)
<1>1. PICK q \in SqlCommit(d) :
        r \in IF q.ok THEN {q} ELSE {Err(s.db) : s \in SqlRollback(q.db)}
  BY DEF CommitElseRollback
<1>2. SameOrNone(d, q.db)
  BY EndsSameOrNone
<1>3. CASE r = q
  BY <1>2, <1>3
<1>4. CASE \E s \in SqlRollback(q.db) : r = Err(s.db)
  <2>1. PICK s \in SqlRollback(q.db) : r = Err(s.db)
    BY <1>4
  <2>2. r.db = s.db
    BY <2>1 DEF Err
  <2>3. SameOrNone(q.db, s.db)
    BY EndsSameOrNone
  <2>4. QED
    BY <1>2, <2>2, <2>3 DEF SameOrNone
<1>5. QED
  BY <1>1, <1>3, <1>4

\* an INSERT too, and it ends the transaction or stays in it.
LEMMA InsertSameOrNone ==
    ASSUME NEW d, Sound(d), NEW w, NEW r \in SqlInsert(d, w)
    PROVE  /\ SameOrNone(d, r.db)
           /\ \/ r.db.autocommit
              \/ /\ r.db.autocommit = d.autocommit /\ r.db.root = d.root
                 /\ r.db.savepoints = d.savepoints
<1>1. d \in Db
  BY DEF Sound
<1>2. CASE \E rows : r = Ok(Idle(rows)) \/ r = Err(Idle(rows))
  <2>1. PICK rows : r = Ok(Idle(rows)) \/ r = Err(Idle(rows))
    BY <1>2
  <2>2. r.db = Idle(rows)
    BY <2>1 DEF Ok, Err
  <2>3. QED
    BY <2>2 DEF Idle, SameOrNone
<1>3. CASE r = Err(d)
  BY <1>3 DEF Err, SameOrNone
<1>4. CASE r = Ok([d EXCEPT !.view = @ \cup {w}, !.lock = Dirtied(@)])
  BY <1>1, <1>4 DEF Ok, Db, SameOrNone
<1>5. CASE \E l : r = Err([d EXCEPT !.lock = l])
  BY <1>1, <1>5 DEF Err, Db, SameOrNone
<1>6. QED
  BY <1>2, <1>3, <1>4, <1>5 DEF SqlInsert

\* SAVEPOINT opens a transaction that is its own, or leaves the open one.
LEMMA SavepointRoot ==
    ASSUME NEW d, Sound(d), NEW n, NEW r \in SqlSavepoint(d, n)
    PROVE  r.db.root = (d.root \/ d.autocommit)
<1>1. r.db = [d EXCEPT !.autocommit = FALSE, !.root = d.root \/ d.autocommit,
                       !.savepoints = Append(@, [name |-> n, saved |-> d.view])]
  BY DEF SqlSavepoint, Ok
<1>2. QED
  BY <1>1 DEF Sound, Db

----------------------------------------------------------------------------
(* SInv is an invariant.                                                    *)

\* A savepoint call returns to savepoints that are aligned.
LEMMA SavepointReturnAligned ==
    ASSUME FileObeys, SInv, NEW threw \in BOOLEAN, SavepointReturn(threw)
    PROVE  /\ Aligned(db', frames')
           /\ threw /\ result' = "return" => db'.view = TopFrame.entry
<1> DEFINE n == frames[Len(frames)].name
<1>1. Sound(db) /\ frames \in Seq(Frame) /\ frames # <<>> /\ Aligned(db, frames)
  BY DEF SInv, IInv, TypeOK, EngineInv, Sound, SavepointReturn
<1>2. frames' = SubSeq(frames, 1, Len(frames) - 1)
  BY DEF SavepointReturn
<1>3. PICK r \in IF threw THEN SavepointRollback(db, n) ELSE SavepointCommit(db, n) :
        db' = r.db /\ Returned(r)
  BY DEF SavepointReturn, Run, TopFrame
<1>4. /\ r \in SavepointCommit(db, n) \cup SavepointRollback(db, n)
      /\ threw => r \in SavepointRollback(db, n)
  BY <1>3
<1>5. /\ Aligned(r.db, SubSeq(frames, 1, Len(frames) - 1))
      /\ r \in SavepointRollback(db, n) /\ r.ok => r.db.view = frames[Len(frames)].entry
  BY <1>1, <1>4, ReturnAligned
<1>6. result' = "return" => r.ok
  BY <1>3 DEF Returned
<1>7. QED
  BY <1>2, <1>3, <1>4, <1>5, <1>6 DEF TopFrame

\* A savepoint call enters its callback.
LEMMA savepoint_with_nameAligned ==
    ASSUME SInv, NEW n \in Names, savepoint_with_name(n)
    PROVE  Aligned(db', frames')
<1> DEFINE f == [name |-> n, entry |-> db.view, outermost |-> db.autocommit]
<1>1. Sound(db) /\ frames \in Seq(Frame) /\ Aligned(db, frames) /\ db \in Db
  BY DEF SInv, IInv, TypeOK, EngineInv, Sound
<1>2. PICK r \in SqlSavepoint(db, n) : db' = r.db
  BY DEF savepoint_with_name, Run
<1>3. db'.savepoints = Append(db.savepoints, [name |-> n, saved |-> db.view])
  BY <1>1, <1>2, SavepointStays
<1>4. f \in Frame /\ f.name = n /\ f.entry = db.view
  BY <1>1 DEF Frame, Db
<1>5. frames' = Append(frames, f) /\ db.savepoints \in Seq(Savepoint)
  BY <1>1 DEF savepoint_with_name, Db
<1> HIDE DEF f
<1>6. QED
  BY <1>1, <1>3, <1>4, <1>5, AlignedPush

\* Every other step takes all savepoints or none.
LEMMA StepAligned ==
    ASSUME FileObeys, SInv, [Next]_vars
    PROVE  Aligned(db', frames')
<1>1. Sound(db) /\ frames \in Seq(Frame) /\ Aligned(db, frames)
  BY DEF SInv, IInv, TypeOK, EngineInv, Sound
<1>2. ASSUME frames' = frames, SameOrNone(db, db') PROVE Aligned(db', frames')
  BY <1>1, <1>2, SameOrNoneAligned
<1>3. ASSUME frames' = frames, db' = db PROVE Aligned(db', frames')
  BY <1>1, <1>3
<1>4. ASSUME NEW t \in Handles, NEW option, NEW drop, transaction(t, option, drop)
      PROVE  Aligned(db', frames')
  <2>1. \A b : \A r \in SqlBegin(db, b) : r.db.savepoints = db.savepoints
    BY <1>1, BeginDoes
  <2>2. frames' = frames /\ db'.savepoints = db.savepoints
    BY <1>4, <2>1 DEF transaction, Run
  <2>3. QED
    BY <1>2, <2>2 DEF SameOrNone
<1>5. ASSUME NEW t \in Handles, commit(t) \/ rollback(t) \/ dispose(t)
      PROVE  Aligned(db', frames')
  <2>1. \/ db' = db
        \/ Run(SqlCommit(db)) \/ Run(SqlRollback(db)) \/ Run({Ok(db)})
    BY <1>5 DEF commit, rollback, dispose, Finish, AlreadyFinished
  <2>2. db' = db \/ SameOrNone(db, db')
    BY <2>1, EndsSameOrNone DEF Run, Ok
  <2>3. QED
    BY <1>2, <1>3, <1>5, <2>2 DEF commit, rollback, dispose
<1>6. ASSUME NEW t \in Handles, finalize(t) PROVE Aligned(db', frames')
  <2>1. \/ db' = db
        \/ \E r \in SqlRollback(db) : db' = r.db
        \/ \E r \in CommitElseRollback(db) : db' = r.db
    BY <1>6 DEF finalize
  <2>2. db' = db \/ SameOrNone(db, db')
    BY <2>1, EndsSameOrNone, CommitElseRollbackSameOrNone
  <2>3. QED
    BY <1>2, <1>3, <1>6, <2>2 DEF finalize
<1>7. ASSUME Restarted PROVE Aligned(db', frames')
  <2>1. frames' = <<>> /\ db'.savepoints = <<>>
    BY <1>7 DEF Restarted, Idle
  <2>2. QED
    BY <2>1 DEF Aligned
<1>8. ASSUME NEW w \in Writes, NEW via, execute(w, via) PROVE Aligned(db', frames')
  <2>1. frames' = frames /\ SameOrNone(db, db')
    BY <1>1, <1>8, InsertSameOrNone DEF execute, Run
  <2>2. QED
    BY <1>2, <2>1
<1>9. ASSUME NEW n \in Names, savepoint_with_name(n) PROVE Aligned(db', frames')
  BY <1>9, savepoint_with_nameAligned
<1>10. ASSUME NEW threw \in BOOLEAN, SavepointReturn(threw) PROVE Aligned(db', frames')
  BY <1>10, SavepointReturnAligned
<1>11. ASSUME \/ \E t \in Handles, drop \in Drops : set_drop_behavior(t, drop)
              \/ \E b \in Defaults : set_transaction_behavior(b)
              \/ UNCHANGED vars
       PROVE  Aligned(db', frames')
  BY <1>3, <1>11 DEF set_drop_behavior, set_transaction_behavior, vars
<1>12. ~ execute_batch
  BY DEF execute_batch, FileObeys
<1>13. QED
  BY <1>4, <1>5, <1>6, <1>7, <1>8, <1>9, <1>10, <1>11, <1>12
     DEF Next, Restart, finalize_panic

\* When the connection is opened there is nothing to align.
LEMMA InitSInv == Init => SInv
<1>1. Init => Aligned(db, frames)
  BY DEF Init, Idle, Aligned
<1>2. QED
  BY <1>1, InitIInv DEF SInv

\* SInv is inductive.
THEOREM SavepointInvariance ==
    ASSUME FileObeys PROVE Spec => []SInv
<1>1. SInv /\ [Next]_vars => SInv'
  BY StepAligned, StepKeeps DEF SInv
<1>2. QED
  BY <1>1, InitSInv, PTL DEF Spec

\* A savepoint call whose callback threw and which returned has undone exactly
\* what happened since it began, however deep calls are nested, whatever names
\* they have, and although callbacks end transactions or statements in them
\* roll the whole transaction back.
THEOREM ThrownRestores ==
    ASSUME FileObeys PROVE Spec => ThrownSavepointRestores
<1> DEFINE A == SavepointReturn(TRUE) /\ result' = "return" => db'.view = TopFrame.entry
<1>1. SInv /\ [Next]_vars => [A]_vars
  <2>1. ASSUME SInv, SavepointReturn(TRUE), result' = "return"
        PROVE  db'.view = TopFrame.entry
    BY <2>1, SavepointReturnAligned
  <2>2. QED
    BY <2>1
<1>2. QED
  BY <1>1, SavepointInvariance, PTL DEF Spec, ThrownSavepointRestores

----------------------------------------------------------------------------
(* Where callbacks begin and end no transactions, Opened is one, too.       *)

\* A callback enters: a call that found no transaction has opened its own.
LEMMA savepoint_with_nameOpened ==
    ASSUME SInv, Opened, NEW n \in Names, savepoint_with_name(n)
    PROVE  Opened'
<1> DEFINE m == Len(db.savepoints)
           k == Len(frames)
           p == Len(db'.savepoints)
           q == Len(frames')
<1>1. Sound(db) /\ frames \in Seq(Frame) /\ db \in Db /\ m \in Nat /\ k \in Nat
  BY DEF SInv, IInv, TypeOK, EngineInv, Sound, Db
<1>2. PICK r \in SqlSavepoint(db, n) : db' = r.db
  BY DEF savepoint_with_name, Run
<1>3. /\ db'.savepoints = Append(db.savepoints, [name |-> n, saved |-> db.view])
      /\ db'.root = (db.root \/ db.autocommit)
  BY <1>1, <1>2, SavepointStays, SavepointRoot
<1>4. p = m + 1
  BY <1>1, <1>3 DEF Db
<1>5. /\ q = k + 1 /\ frames'[k + 1].outermost = db.autocommit
      /\ \A i \in 1..k : frames'[i] = frames[i]
  BY <1>1 DEF savepoint_with_name
<1>6. db.autocommit => m = 0
  BY <1>1 DEF Sound, EngineOK, Idle
<1> HIDE DEF m, k, p, q
<1>7. ASSUME NEW i \in 1..q, frames'[i].outermost
      PROVE  db'.root /\ p <= q - i + 1
  <2>1. CASE db.autocommit
    <3>1. p <= q - i + 1
      BY <1>1, <1>4, <1>5, <1>6, <2>1
    <3>2. QED
      BY <1>3, <2>1, <3>1
  <2>2. CASE ~ db.autocommit /\ i \in 1..k
    <3>1. frames[i].outermost
      BY <1>5, <1>7, <2>2
    <3>2. db.root /\ m <= k - i + 1
      BY <2>2, <3>1 DEF Opened, m, k
    <3>3. p <= q - i + 1
      BY <1>1, <1>4, <1>5, <2>2, <3>2
    <3>4. QED
      BY <1>3, <3>2, <3>3
  <2>3. CASE ~ db.autocommit /\ i = k + 1
    BY <1>5, <1>7, <2>3
  <2>4. i \in 1..k \/ i = k + 1
    BY <1>1, <1>5
  <2>5. QED
    BY <2>1, <2>2, <2>3, <2>4
<1>8. QED
  BY <1>7 DEF Opened, p, q

\* The end of a call made outside any transaction leaves none open; that of
\* an inner call leaves the outermost its savepoint.
LEMMA SavepointReturnOpened ==
    ASSUME FileObeys, SInv, Opened, NEW threw \in BOOLEAN, SavepointReturn(threw)
    PROVE  Opened' /\ (TopFrame.outermost => db'.autocommit)
<1> DEFINE n == frames[Len(frames)].name
           m == Len(db.savepoints)
           k == Len(frames)
<1>1. /\ Sound(db) /\ frames \in Seq(Frame) /\ frames # <<>> /\ Aligned(db, frames)
      /\ m \in Nat /\ k \in Nat \ {0} /\ db.savepoints \in Seq(Savepoint)
  BY DEF SInv, IInv, TypeOK, EngineInv, Sound, SavepointReturn, Db
<1>2. PICK r \in SavepointCommit(db, n) \cup SavepointRollback(db, n) : db' = r.db
  BY DEF SavepointReturn, Run, TopFrame
<1>3. db.autocommit => m = 0
  BY <1>1 DEF Sound, EngineOK, Idle
<1>4. db.root => m # 0
  BY <1>1 DEF Sound, EngineOK
<1>5. CASE ~ Nested(db)
  <2>1. db'.autocommit
    BY <1>1, <1>2, <1>5, LastReturn
  <2>2. QED
    BY <2>1 DEF Opened
<1>6. CASE Nested(db)
  <2>1. IF m = 0 THEN db' = db
        ELSE /\ db'.autocommit = db.autocommit /\ db'.root = db.root
             /\ db'.savepoints = SubSeq(db.savepoints, 1, m - 1)
    BY <1>1, <1>2, <1>6, NestedReturn
  <2>2. m # 0 => Len(db'.savepoints) = m - 1
    BY <1>1, <2>1
  <2>3. frames' = SubSeq(frames, 1, k - 1)
    BY DEF SavepointReturn
  <2>4. Len(frames') = k - 1 /\ \A i \in 1..(k - 1) : frames'[i] = frames[i]
    <3>1. \A i \in 1..(k - 1) : frames[i] \in Frame
      BY <1>1
    <3>2. /\ Len(frames') = IF 1 <= k - 1 THEN k - 1 - 1 + 1 ELSE 0
          /\ \A i \in 1..(k - 1 - 1 + 1) : frames'[i] = frames[1 + i - 1]
      BY <1>1, <2>3, <3>1, SubSeqProperties
    <3> HIDE DEF k
    <3>3. Len(frames') = k - 1 /\ k - 1 - 1 + 1 = k - 1
          /\ \A i \in 1..(k - 1) : 1 + i - 1 = i
      BY <1>1, <3>2
    <3>4. QED
      BY <3>2, <3>3
  <2> HIDE DEF m, k
  <2>5. ASSUME NEW i \in 1..k, frames[i].outermost, ~ db.autocommit
        PROVE  /\ db.root /\ m <= k - i + 1 /\ m # 0
               /\ i # k
    <3>1. db.root /\ m <= k - i + 1 /\ m # 0
      BY <1>4, <2>5 DEF Opened, m, k
    <3>2. m # 1
      BY <1>6, <3>1 DEF Nested, m
    <3>3. QED
      BY <1>1, <3>1, <3>2
  <2>6. ASSUME NEW i \in 1..(k - 1), frames[i].outermost, ~ db'.autocommit
        PROVE  db'.root /\ Len(db'.savepoints) <= k - 1 - i + 1
    <3>1. i \in 1..k /\ ~ db.autocommit
      BY <1>1, <2>1, <2>6
    <3>2. db.root /\ m <= k - i + 1 /\ m # 0
      BY <2>5, <2>6, <3>1
    <3>3. db'.root /\ Len(db'.savepoints) = m - 1
      BY <2>1, <2>2, <3>2
    <3>4. QED
      BY <1>1, <3>2, <3>3
  <2>7. Opened'
    BY <2>4, <2>6 DEF Opened
  <2>8. ASSUME TopFrame.outermost PROVE db'.autocommit
    <3>1. k \in 1..k /\ frames[k].outermost
      BY <1>1, <2>8 DEF TopFrame, k
    <3>2. db.autocommit
      BY <2>5, <3>1
    <3>3. QED
      BY <1>3, <2>1, <3>2
  <2>9. QED
    BY <2>7, <2>8
<1>7. QED
  BY <1>5, <1>6

\* Every step keeps Opened, and leaves no transaction open behind the
\* outermost call.
LEMMA StepOpened ==
    ASSUME FileObeys, ~ TclInCallback, SInv, Opened, [Next]_vars
    PROVE  /\ Opened'
           /\ Len(frames') < Len(frames) /\ frames # <<>> /\ TopFrame.outermost
                => db'.autocommit
<1>1. Sound(db) /\ frames \in Seq(Frame) /\ Len(frames) \in Nat
  BY DEF SInv, IInv, TypeOK, EngineInv, Sound
<1>2. ASSUME frames' = frames,
             \/ db'.autocommit
             \/ /\ db'.autocommit = db.autocommit /\ db'.root = db.root
                /\ db'.savepoints = db.savepoints
      PROVE  Opened' /\ ~ (Len(frames') < Len(frames))
  BY <1>1, <1>2 DEF Opened
<1>3. ASSUME frames' = frames, frames = <<>> PROVE Opened' /\ ~ (Len(frames') < Len(frames))
  <2>1. Len(frames) = 0 /\ Len(frames') = 0
    BY <1>3
  <2>2. QED
    BY <2>1 DEF Opened
<1>4. ASSUME NEW t \in Handles,
             \/ \E option, drop : transaction(t, option, drop)
             \/ commit(t) \/ rollback(t) \/ dispose(t) \/ finalize(t)
      PROVE  Opened' /\ ~ (Len(frames') < Len(frames))
  BY <1>3, <1>4 DEF transaction, commit, rollback, dispose, finalize, TclAllowed
<1>5. ASSUME Restarted PROVE Opened' /\ db'.autocommit
  BY <1>5 DEF Restarted, Idle, Opened
<1>6. ASSUME NEW w \in Writes, NEW via, execute(w, via)
      PROVE  Opened' /\ ~ (Len(frames') < Len(frames))
  <2>1. PICK r \in SqlInsert(db, w) : db' = r.db
    BY <1>6 DEF execute, Run
  <2>2. \/ db'.autocommit
        \/ /\ db'.autocommit = db.autocommit /\ db'.root = db.root
           /\ db'.savepoints = db.savepoints
    BY <1>1, <2>1, InsertSameOrNone
  <2>3. QED
    BY <1>2, <1>6, <2>2 DEF execute
<1>7. ASSUME NEW n \in Names, savepoint_with_name(n)
      PROVE  Opened' /\ ~ (Len(frames') < Len(frames))
  <2>1. Len(frames') = Len(frames) + 1
    BY <1>1, <1>7 DEF savepoint_with_name
  <2>2. QED
    BY <1>1, <1>7, <2>1, savepoint_with_nameOpened
<1>8. ASSUME NEW threw \in BOOLEAN, SavepointReturn(threw)
      PROVE  Opened' /\ (TopFrame.outermost => db'.autocommit)
  BY <1>8, SavepointReturnOpened
<1>9. ASSUME \/ \E t \in Handles, drop \in Drops : set_drop_behavior(t, drop)
             \/ \E b \in Defaults : set_transaction_behavior(b)
             \/ UNCHANGED vars
      PROVE  Opened' /\ ~ (Len(frames') < Len(frames))
  BY <1>2, <1>9 DEF set_drop_behavior, set_transaction_behavior, vars
<1>10. ~ execute_batch
  BY DEF execute_batch, FileObeys
<1>11. QED
  BY <1>4, <1>5, <1>6, <1>7, <1>8, <1>9, <1>10 DEF Next, Restart, finalize_panic

\* A savepoint call made outside any transaction leaves none open, whether its
\* callback returned or threw, and whether the release succeeded or a deferred
\* foreign key stopped it.
THEOREM LeavesNoTransaction ==
    ASSUME FileObeys, ~ TclInCallback PROVE Spec => SavepointLeavesNoTransaction
<1> DEFINE A == Len(frames') < Len(frames) /\ frames # <<>> /\ TopFrame.outermost
                  => db'.autocommit
<1>1. Init => Opened
  BY DEF Init, Opened
<1>2. SInv /\ Opened /\ [Next]_vars => Opened'
  BY StepOpened
<1>3. SInv /\ Opened /\ [Next]_vars => [A]_vars
  BY StepOpened
<1>4. QED
  BY <1>1, <1>2, <1>3, SavepointInvariance, PTL DEF Spec, SavepointLeavesNoTransaction
=============================================================================
