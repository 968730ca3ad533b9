--------------------------- MODULE SqliteTxnProofs ---------------------------
(***************************************************************************)
(* What every SQL statement of SqliteTxn keeps: the type of the connection, *)
(* the engine's own asserts (EngineOK), and the committed rows; and that it *)
(* is one step of AtomicStore or none.                                      *)
(***************************************************************************)
EXTENDS SqliteTxn, TLAPS, WellFoundedInduction, SequenceTheorems

Sound(d) == d \in Db /\ EngineOK(d)

\* A result that leaves a sound connection and takes no committed row back.
Follows(d, r) == r \in Result /\ Sound(r.db) /\ d.disk \subseteq r.db.disk

----------------------------------------------------------------------------
(* The savepoint a name stands for.                                         *)

\* A non-empty set of positions has a largest one, which Find chooses.
LEMMA LargestElement ==
    ASSUME NEW n \in Nat, NEW S \in SUBSET (1..n), S # {}
    PROVE  \E i \in S : \A j \in S : j <= i
<1> DEFINE T == {n - i : i \in S}
<1>1. T \subseteq Nat /\ T # {}
  <2>1. \A i \in S : i \in 1..n /\ n - i \in Nat
    OBVIOUS
  <2>2. T \subseteq Nat
    BY <2>1
  <2>3. PICK i \in S : TRUE
    OBVIOUS
  <2>4. n - i \in T
    OBVIOUS
  <2>5. QED
    BY <2>2, <2>4
<1>2. \E x \in T : \A y \in T : ~ (y < x)
  <2>1. \E x \in T : \A y \in T : ~ (<<y, x>> \in OpToRel(<, Nat))
    BY <1>1, WFMin, NatLessThanWellFounded
  <2>2. QED
    BY <1>1, <2>1 DEF OpToRel
<1>3. PICK x \in T : \A y \in T : ~ (y < x)
  BY <1>2
<1>4. PICK i \in S : x = n - i
  OBVIOUS
<1>5. ASSUME NEW j \in S PROVE j <= i
  <2>1. n - j \in T
    OBVIOUS
  <2>2. ~ (n - j < n - i)
    BY <1>3, <1>4, <2>1
  <2>3. QED
    BY <2>2
<1>6. QED
  BY <1>5

\* A name that matches stands for the newest savepoint that has it.
LEMMA FindNewest ==
    ASSUME NEW d \in Db, NEW name, Matching(d, name) # {}
    PROVE  /\ Find(d, name) \in 1..Len(d.savepoints)
           /\ d.savepoints[Find(d, name)].name = name
           /\ \A j \in Matching(d, name) : j <= Find(d, name)
<1>1. Len(d.savepoints) \in Nat
  BY DEF Db
<1>2. \E i \in Matching(d, name) : \A j \in Matching(d, name) : j <= i
  BY <1>1, LargestElement DEF Matching
<1>3. /\ Find(d, name) \in Matching(d, name)
      /\ \A j \in Matching(d, name) : j <= Find(d, name)
  BY <1>2 DEF Find
<1>4. QED
  BY <1>3 DEF Matching

----------------------------------------------------------------------------
(* One lemma per statement.                                                 *)

\* A connection outside a transaction is sound.
LEMMA IdleSound ==
    ASSUME NEW rows \in SUBSET Writes, ~ DeferredViolation(rows)
    PROVE  Sound(Idle(rows))
<1>1. Idle(rows) \in Db
  BY DEF Idle, Db, Locks
<1>2. EngineOK(Idle(rows))
  BY DEF EngineOK, Idle
<1>3. QED
  BY <1>1, <1>2 DEF Sound

\* Ending a transaction with more rows on disk than before.
LEMMA IdleFollows ==
    ASSUME NEW d, Sound(d), NEW rows \in SUBSET Writes, d.disk \subseteq rows,
           ~ DeferredViolation(rows), NEW ok \in BOOLEAN
    PROVE  Follows(d, [db |-> Idle(rows), ok |-> ok])
<1>1. Sound(Idle(rows)) /\ Idle(rows).disk = rows
  BY IdleSound DEF Idle
<1>2. QED
  BY <1>1 DEF Follows, Result, Sound

\* BEGIN, also when it fails and keeps its lock.
LEMMA BeginFollows ==
    ASSUME NEW d, Sound(d), NEW b \in Behaviors, NEW r \in SqlBegin(d, b)
    PROVE  Follows(d, r) /\ r.db.disk = d.disk
<1> DEFINE lock == LockFor(d.lock, b)
           locked == [d EXCEPT !.lock = lock]
           begun == [locked EXCEPT !.autocommit = FALSE]
<1>1. lock \in Locks
  BY DEF LockFor, Locks, Sound, Db, Behaviors
<1>2. CASE d.autocommit /\ r = Ok(begun)
  <2>1. begun \in Db /\ begun.disk = d.disk
    BY <1>1 DEF Sound, Db
  <2>2. EngineOK(begun)
    BY <1>1, <1>2 DEF Sound, Db, EngineOK, Idle
  <2>3. QED
    BY <1>2, <2>1, <2>2 DEF Follows, Sound, Result, Ok
<1>3. CASE ~ d.autocommit /\ r = Err(locked)
  <2>1. locked \in Db /\ locked.disk = d.disk
    BY <1>1 DEF Sound, Db
  <2>2. EngineOK(locked)
    BY <1>1, <1>3 DEF Sound, Db, EngineOK
  <2>3. QED
    BY <1>3, <2>1, <2>2 DEF Follows, Sound, Result, Err
<1>4. CASE r = Err(d)
  BY <1>4 DEF Follows, Sound, Result, Err
<1>5. QED
  BY <1>2, <1>3, <1>4 DEF SqlBegin

\* The end of a transaction, given that what a failed write leaves is sound.
LEMMA EndByCommitFollows ==
    ASSUME NEW d, Sound(d), NEW broken, Sound(broken), broken.disk = d.disk,
           NEW r \in EndByCommit(d, broken)
    PROVE  Follows(d, r)
<1>1. CASE r = Err(d)
  BY <1>1 DEF Follows, Sound, Result, Err
<1>2. CASE ~ DeferredViolation(d.view) /\ r = Ok(Idle(d.view))
  <2>1. d.view \in SUBSET Writes /\ d.disk \subseteq d.view
    BY DEF Sound, Db, EngineOK
  <2>2. QED
    BY <1>2, <2>1, IdleFollows DEF Ok
<1>3. CASE r = Err(broken)
  BY <1>3 DEF Follows, Sound, Result, Err
<1>4. QED
  BY <1>1, <1>2, <1>3 DEF EndByCommit

\* What a rollback of the whole transaction leaves.
LEMMA IdleDisk ==
    ASSUME NEW d, Sound(d)
    PROVE  /\ d.disk \in SUBSET Writes
           /\ ~ DeferredViolation(d.disk)
           /\ Sound(Idle(d.disk))
           /\ Idle(d.disk).disk = d.disk
BY IdleSound DEF Sound, Db, EngineOK, Idle

\* COMMIT, also when it is busy or its write fails.
LEMMA CommitFollows ==
    ASSUME NEW d, Sound(d), NEW r \in SqlCommit(d)
    PROVE  Follows(d, r)
<1>1. CASE r = Err(d)
  BY <1>1 DEF Follows, Sound, Result, Err
<1>2. CASE r \in EndByCommit(d, Idle(d.disk))
  BY <1>2, IdleDisk, EndByCommitFollows
<1>3. QED
  BY <1>1, <1>2 DEF SqlCommit

\* ROLLBACK.
LEMMA RollbackFollows ==
    ASSUME NEW d, Sound(d), NEW r \in SqlRollback(d)
    PROVE  Follows(d, r) /\ r.db.disk = d.disk
<1>1. CASE r = Err(d)
  BY <1>1 DEF Follows, Sound, Result, Err
<1>2. CASE r = Ok(Idle(d.disk))
  BY <1>2, IdleDisk DEF Follows, Result, Ok, Sound
<1>3. QED
  BY <1>1, <1>2 DEF SqlRollback

\* SAVEPOINT, which may open the transaction.
LEMMA SavepointFollows ==
    ASSUME NEW d, Sound(d), NEW n \in Names, NEW r \in SqlSavepoint(d, n)
    PROVE  Follows(d, r) /\ r.db.disk = d.disk
<1> DEFINE new == [name |-> n, saved |-> d.view]
           list == Append(d.savepoints, new)
           e == [d EXCEPT !.autocommit = FALSE,
                          !.root = d.root \/ d.autocommit,
                          !.savepoints = list]
<1>1. r = Ok(e)
  BY DEF SqlSavepoint
<1>2. d.savepoints \in Seq(Savepoint) /\ new \in Savepoint
  BY DEF Sound, Db, Savepoint
<1>3. /\ list \in Seq(Savepoint)
      /\ Len(list) = Len(d.savepoints) + 1
      /\ \A i \in 1..Len(d.savepoints) : list[i] = d.savepoints[i]
      /\ list[Len(d.savepoints) + 1] = new
  BY <1>2
<1>4. (d.root \/ d.autocommit) \in BOOLEAN
  OBVIOUS
<1>5. e \in Db
  BY <1>3, <1>4 DEF Sound, Db
<1> HIDE DEF list
<1>6. /\ e.disk = d.disk /\ e.view = d.view /\ ~ e.autocommit
      /\ e.root = (d.root \/ d.autocommit) /\ e.savepoints = list
  BY DEF Sound, Db
<1>7. ASSUME NEW i \in 1..Len(list)
      PROVE  /\ d.disk \subseteq list[i].saved
             /\ list[i].saved \subseteq d.view
             /\ \A j \in 1..i : list[j].saved \subseteq list[i].saved
  <2>1. CASE i \in 1..Len(d.savepoints)
    <3>1. \A j \in 1..i : j \in 1..Len(d.savepoints)
      BY <1>2, <2>1
    <3>2. QED
      BY <1>3, <2>1, <3>1 DEF Sound, EngineOK
  <2>2. CASE i = Len(d.savepoints) + 1
    <3>1. list[i].saved = d.view
      BY <1>3, <2>2
    <3>2. \A j \in 1..i : j = i \/ j \in 1..Len(d.savepoints)
      BY <1>2, <2>2
    <3>3. ASSUME NEW j \in 1..i PROVE list[j].saved \subseteq d.view
      BY <1>3, <3>1, <3>2 DEF Sound, EngineOK
    <3>4. QED
      BY <3>1, <3>3 DEF Sound, EngineOK
  <2>3. QED
    BY <1>2, <1>3, <2>1, <2>2
<1>8. ASSUME e.root PROVE list # <<>> /\ list[1].saved = d.disk
  <2>1. list # <<>>
    BY <1>2, <1>3
  <2>2. CASE d.root
    <3>1. 1 \in 1..Len(d.savepoints)
      BY <1>2, <2>2 DEF Sound, EngineOK
    <3>2. QED
      BY <1>3, <2>1, <2>2, <3>1 DEF Sound, EngineOK
  <2>3. CASE d.autocommit
    <3>1. Len(d.savepoints) = 0 /\ d.view = d.disk
      BY <2>3 DEF Sound, EngineOK, Idle
    <3>2. QED
      BY <1>3, <2>1, <3>1
  <2>4. QED
    BY <1>6, <1>8, <2>2, <2>3
<1>9. EngineOK(e)
  BY <1>6, <1>7, <1>8 DEF EngineOK, Sound
<1>10. QED
  BY <1>1, <1>5, <1>6, <1>9 DEF Follows, Sound, Result, Ok

\* Dropping the newest savepoints, and restoring the newest one kept or not.
LEMMA TruncatedSound ==
    ASSUME NEW d, Sound(d), ~ d.autocommit, NEW k \in 0..Len(d.savepoints),
           d.root => k >= 1, NEW view \in SUBSET Writes, d.disk \subseteq view,
           \A i \in 1..k : d.savepoints[i].saved \subseteq view
    PROVE  Sound([d EXCEPT !.view = view,
                           !.savepoints = SubSeq(d.savepoints, 1, k)])
<1> DEFINE list == SubSeq(d.savepoints, 1, k)
           e == [d EXCEPT !.view = view, !.savepoints = list]
<1>1. d.savepoints \in Seq(Savepoint) /\ k \in Nat
  BY DEF Sound, Db
<1>2. /\ list \in Seq(Savepoint)
      /\ Len(list) = k
      /\ \A i \in 1..k : list[i] = d.savepoints[i]
  BY <1>1
<1> HIDE DEF list
<1>3. e \in Db
  BY <1>2 DEF Sound, Db
<1>4. /\ e.disk = d.disk /\ e.view = view /\ e.autocommit = d.autocommit
      /\ e.root = d.root /\ e.savepoints = list
  BY DEF Sound, Db
<1>5. ASSUME NEW i \in 1..k
      PROVE  /\ d.disk \subseteq list[i].saved
             /\ list[i].saved \subseteq view
             /\ \A j \in 1..i : list[j].saved \subseteq list[i].saved
  <2>1. i \in 1..Len(d.savepoints) /\ \A j \in 1..i : j \in 1..k
    BY <1>1
  <2>2. QED
    BY <1>2, <2>1 DEF Sound, EngineOK
<1>6. ASSUME d.root PROVE list # <<>> /\ list[1].saved = d.disk
  <2>1. 1 \in 1..k
    BY <1>1, <1>6
  <2>2. QED
    BY <1>2, <1>6, <2>1 DEF Sound, EngineOK
<1>7. EngineOK(e)
  BY <1>2, <1>4, <1>5, <1>6 DEF EngineOK, Sound
<1>8. QED
  BY <1>3, <1>7 DEF Sound, list

\* A name that is found is that of an open savepoint, so a transaction is open.
LEMMA MatchIsOpen ==
    ASSUME NEW d, Sound(d), NEW n, Matching(d, n) # {}
    PROVE  /\ Find(d, n) \in 1..Len(d.savepoints)
           /\ Len(d.savepoints) \in Nat
           /\ ~ d.autocommit
<1>1. d \in Db /\ Len(d.savepoints) \in Nat
  BY DEF Sound, Db
<1>2. Find(d, n) \in 1..Len(d.savepoints)
  BY <1>1, FindNewest
<1>3. ASSUME d.autocommit PROVE FALSE
  <2>1. Len(d.savepoints) = 0
    BY <1>3 DEF Sound, EngineOK, Idle
  <2>2. QED
    BY <1>2, <2>1
<1>4. QED
  BY <1>1, <1>2, <1>3

\* The savepoints over a transaction that is already rolled back are sound.
LEMMA BrokenReleaseSound ==
    ASSUME NEW d, Sound(d), ~ d.autocommit
    PROVE  Sound(BrokenRelease(d)) /\ BrokenRelease(d).disk = d.disk
<1> DEFINE list == [i \in 1..Len(d.savepoints) |->
                      [d.savepoints[i] EXCEPT !.saved = d.disk]]
           e == BrokenRelease(d)
<1>1. /\ d.savepoints \in Seq(Savepoint) /\ Len(d.savepoints) \in Nat
      /\ d.disk \in SUBSET Writes
  BY DEF Sound, Db
<1>2. ASSUME NEW i \in 1..Len(d.savepoints)
      PROVE  list[i] \in Savepoint /\ list[i].saved = d.disk
  <2>1. d.savepoints[i] \in Savepoint
    BY <1>1
  <2>2. list[i] = [d.savepoints[i] EXCEPT !.saved = d.disk]
    OBVIOUS
  <2>3. QED
    BY <1>1, <2>1, <2>2 DEF Savepoint
<1>3. list \in Seq(Savepoint) /\ Len(list) = Len(d.savepoints)
  <2>1. list \in [1..Len(d.savepoints) -> Savepoint]
    BY <1>2
  <2>2. QED
    BY <1>1, <2>1
<1>4. /\ e.disk = d.disk /\ e.view = d.disk /\ ~ e.autocommit
      /\ e.root = d.root /\ e.savepoints = list /\ e.lock = "none"
  BY DEF BrokenRelease, Sound, Db
<1>5. e \in Db
  BY <1>1, <1>3 DEF BrokenRelease, Sound, Db, Locks
<1> HIDE DEF list
<1>6. ASSUME NEW i \in 1..Len(list)
      PROVE  list[i].saved = d.disk /\ \A j \in 1..i : list[j].saved = d.disk
  <2>1. \A j \in 1..i : j \in 1..Len(d.savepoints)
    BY <1>1, <1>3
  <2>2. QED
    BY <1>2, <1>3, <2>1 DEF list
<1>7. ASSUME d.root PROVE list # <<>> /\ list[1].saved = d.disk
  <2>1. d.savepoints # <<>>
    BY <1>7 DEF Sound, EngineOK
  <2>2. 1 \in 1..Len(list)
    BY <1>1, <1>3, <2>1
  <2>3. QED
    BY <1>3, <1>6, <2>2
<1>8. EngineOK(e)
  BY <1>4, <1>6, <1>7 DEF EngineOK, Sound
<1>9. QED
  BY <1>4, <1>5, <1>8 DEF Sound

\* RELEASE, also when it commits and fails.
LEMMA ReleaseFollows ==
    ASSUME NEW d, Sound(d), NEW n, NEW r \in SqlRelease(d, n)
    PROVE  Follows(d, r)
<1> DEFINE k == Find(d, n)
           e == [d EXCEPT !.savepoints = SubSeq(d.savepoints, 1, k - 1)]
<1>1. CASE r = Err(d)
  BY <1>1 DEF Follows, Sound, Result, Err
<1>2. CASE Matching(d, n) # {} /\ r \in EndByCommit(d, BrokenRelease(d))
  BY <1>2, MatchIsOpen, BrokenReleaseSound, EndByCommitFollows
<1>3. CASE Matching(d, n) # {} /\ ~ (d.root /\ k = 1) /\ r = Ok(e)
  <2>1. /\ k \in 1..Len(d.savepoints) /\ Len(d.savepoints) \in Nat
        /\ ~ d.autocommit
    BY <1>3, MatchIsOpen
  <2>2. k - 1 \in 0..Len(d.savepoints) /\ (d.root => k - 1 >= 1)
    BY <1>3, <2>1
  <2>3. /\ d.view \in SUBSET Writes /\ d.disk \subseteq d.view
        /\ \A i \in 1..(k - 1) : d.savepoints[i].saved \subseteq d.view
    BY <2>1 DEF Sound, Db, EngineOK
  <2> HIDE DEF k
  <2>4. Sound([d EXCEPT !.view = d.view,
                        !.savepoints = SubSeq(d.savepoints, 1, k - 1)])
    BY <2>1, <2>2, <2>3, TruncatedSound
  <2>5. [d EXCEPT !.view = d.view,
                  !.savepoints = SubSeq(d.savepoints, 1, k - 1)] = e
    BY DEF Sound, Db
  <2>6. Sound(e) /\ e.disk = d.disk
    BY <2>4, <2>5 DEF Sound, Db
  <2>7. QED
    BY <1>3, <2>6 DEF Follows, Sound, Result, Ok
<1>4. QED
  BY <1>1, <1>2, <1>3 DEF SqlRelease

\* ROLLBACK TO.
LEMMA RollbackToFollows ==
    ASSUME NEW d, Sound(d), NEW n, NEW r \in SqlRollbackTo(d, n)
    PROVE  Follows(d, r) /\ r.db.disk = d.disk
<1> DEFINE k == Find(d, n)
           view == d.savepoints[k].saved
           e == [d EXCEPT !.view = view,
                          !.savepoints = SubSeq(d.savepoints, 1, k)]
<1>1. CASE r = Err(d)
  BY <1>1 DEF Follows, Sound, Result, Err
<1>2. CASE Matching(d, n) # {} /\ r = Ok(e)
  <2>1. /\ k \in 1..Len(d.savepoints) /\ Len(d.savepoints) \in Nat
        /\ ~ d.autocommit
    BY <1>2, MatchIsOpen
  <2>2. k \in 0..Len(d.savepoints) /\ k >= 1
    BY <2>1
  <2>3. d.savepoints[k] \in Savepoint
    BY <2>1 DEF Sound, Db
  <2>4. /\ view \in SUBSET Writes /\ d.disk \subseteq view
        /\ \A i \in 1..k : d.savepoints[i].saved \subseteq view
    BY <2>1, <2>3 DEF Sound, EngineOK, Savepoint
  <2> HIDE DEF k, view
  <2>5. Sound(e)
    BY <2>1, <2>2, <2>4, TruncatedSound
  <2>6. e.disk = d.disk
    BY DEF Sound, Db
  <2>7. QED
    BY <1>2, <2>5, <2>6 DEF Follows, Sound, Result, Ok
<1>3. QED
  BY <1>1, <1>2 DEF SqlRollbackTo

\* A write in an open transaction.
LEMMA DirtiedFollows ==
    ASSUME NEW d, Sound(d), ~ d.autocommit, NEW lock \in Locks,
           NEW view \in SUBSET Writes, d.view \subseteq view, NEW ok \in BOOLEAN
    PROVE  Follows(d, [db |-> [d EXCEPT !.view = view, !.lock = lock], ok |-> ok])
<1> DEFINE e == [d EXCEPT !.view = view, !.lock = lock]
<1>1. e \in Db
  BY DEF Sound, Db
<1>2. /\ e.disk = d.disk /\ e.view = view /\ ~ e.autocommit
      /\ e.root = d.root /\ e.savepoints = d.savepoints
  BY DEF Sound, Db
<1>3. EngineOK(e)
  BY <1>2 DEF EngineOK, Sound
<1>4. QED
  BY <1>1, <1>2, <1>3 DEF Follows, Sound, Result

\* An INSERT, also when it fails or rolls the transaction back.
LEMMA InsertFollows ==
    ASSUME NEW d, Sound(d), NEW w \in Writes, NEW r \in SqlInsert(d, w)
    PROVE  Follows(d, r)
<1>1. d.view \cup {w} \in SUBSET Writes /\ d.disk \subseteq d.view \cup {w}
  BY DEF Sound, Db, EngineOK
<1>2. /\ d.lock \in Locks
      /\ LockFor(d.lock, "immediate") \in Locks
      /\ Dirtied(d.lock) \in Locks
  BY DEF Sound, Db, Locks, LockFor, Dirtied
<1>3. CASE r = Err(d)
  BY <1>3 DEF Follows, Sound, Result, Err
<1>4. CASE r = Err(Idle(d.disk))
  BY <1>4, IdleDisk DEF Follows, Result, Err, Sound
<1>5. CASE ~ DeferredViolation(d.view \cup {w}) /\ r = Ok(Idle(d.view \cup {w}))
  BY <1>1, <1>5, IdleFollows DEF Ok
<1>6. CASE /\ ~ d.autocommit
           /\ r = Ok([d EXCEPT !.view = d.view \cup {w}, !.lock = Dirtied(d.lock)])
  BY <1>1, <1>2, <1>6, DirtiedFollows DEF Ok
<1>7. ASSUME NEW lock \in Locks, ~ d.autocommit,
             r = Err([d EXCEPT !.lock = lock])
      PROVE  Follows(d, r)
  <2>1. [d EXCEPT !.lock = lock] = [d EXCEPT !.view = d.view, !.lock = lock]
    BY DEF Sound, Db
  <2>2. d.view \in SUBSET Writes
    BY DEF Sound, Db
  <2>3. QED
    BY <1>7, <2>1, <2>2, DirtiedFollows DEF Err
<1>8. QED
  BY <1>2, <1>3, <1>4, <1>5, <1>6, <1>7 DEF SqlInsert

----------------------------------------------------------------------------
(* Each statement is one step of AtomicStore, or none.                      *)

\* The connection d becomes e in one step of the store, or in none.
Alike(d, e)   == e.disk = d.disk /\ e.view = d.view /\ e.autocommit = d.autocommit
Begins(d, e)  == d.autocommit /\ ~ e.autocommit /\ e.disk = d.disk /\ e.view = d.view
Adds(d, e)    == \E w \in Writes :
                    /\ e.view = d.view \cup {w} /\ e.autocommit = d.autocommit
                    /\ \/ ~ d.autocommit /\ e.disk = d.disk
                       \/ d.autocommit /\ w \notin BadWrites /\ e.disk = d.disk \cup {w}
Undoes(d, e)  == /\ ~ d.autocommit /\ ~ e.autocommit /\ e.disk = d.disk
                 /\ d.disk \subseteq e.view /\ e.view \subseteq d.view
Commits(d, e) == /\ ~ d.autocommit /\ e.autocommit
                 /\ d.view \cap BadWrites = {} /\ e.disk = d.view /\ e.view = d.view
Aborts(d, e)  == ~ d.autocommit /\ e.autocommit /\ e.disk = d.disk /\ e.view = d.disk

\* A step that takes rows back or none, and may end the transaction so.
TakesBack(d, e) == Alike(d, e) \/ Undoes(d, e) \/ Aborts(d, e)

StoreStep(d, e) == TakesBack(d, e) \/ Begins(d, e) \/ Adds(d, e) \/ Commits(d, e)

\* Two steps that take rows back are one.
LEMMA TakesBackTrans ==
    ASSUME NEW d, Sound(d), NEW e, Sound(e), NEW f, TakesBack(d, e), TakesBack(e, f)
    PROVE  TakesBack(d, f)
<1>1. /\ d.autocommit \in BOOLEAN /\ e.autocommit \in BOOLEAN
      /\ d.disk \subseteq d.view /\ e.disk \subseteq e.view
      /\ d.autocommit => d.view = d.disk
  BY DEF Sound, Db, EngineOK, Idle
<1>2. QED
  BY <1>1 DEF TakesBack, Alike, Undoes, Aborts

\* BEGIN begins, or fails.
LEMMA BeginSteps ==
    ASSUME NEW d, Sound(d), NEW b, NEW r \in SqlBegin(d, b)
    PROVE  StoreStep(d, r.db)
<1> DEFINE locked == [d EXCEPT !.lock = LockFor(d.lock, b)]
<1>1. d \in Db
  BY DEF Sound
<1>2. \/ d.autocommit /\ r = Ok([locked EXCEPT !.autocommit = FALSE])
      \/ r = Err(locked)
      \/ r = Err(d)
  BY DEF SqlBegin
<1>3. CASE d.autocommit /\ r = Ok([locked EXCEPT !.autocommit = FALSE])
  <2>1. r.db.view = d.view /\ r.db.disk = d.disk /\ r.db.autocommit = FALSE
    BY <1>1, <1>3 DEF Ok, Db
  <2>2. QED
    BY <1>3, <2>1 DEF StoreStep, Begins
<1>4. CASE r = Err(locked) \/ r = Err(d)
  <2>1. r.db.view = d.view /\ r.db.disk = d.disk /\ r.db.autocommit = d.autocommit
    BY <1>1, <1>4 DEF Err, Db
  <2>2. QED
    BY <2>1 DEF StoreStep, TakesBack, Alike
<1>5. QED
  BY <1>2, <1>3, <1>4

\* Writing the view commits, fails, or leaves `broken' behind.
LEMMA EndByCommitSteps ==
    ASSUME NEW d, Sound(d), ~ d.autocommit, NEW broken, TakesBack(d, broken),
           NEW r \in EndByCommit(d, broken)
    PROVE  StoreStep(d, r.db)
<1>1. CASE r = Err(d)
  <2>1. r.db = d
    BY <1>1 DEF Err
  <2>2. QED
    BY <2>1 DEF StoreStep, TakesBack, Alike
<1>2. CASE ~ DeferredViolation(d.view) /\ r = Ok(Idle(d.view))
  <2>1. r.db.view = d.view /\ r.db.disk = d.view /\ r.db.autocommit = TRUE
    BY <1>2 DEF Ok, Idle
  <2>2. QED
    BY <1>2, <2>1 DEF StoreStep, Commits, DeferredViolation
<1>3. CASE r = Err(broken)
  <2>1. r.db = broken
    BY <1>3 DEF Err
  <2>2. QED
    BY <2>1 DEF StoreStep
<1>4. QED
  BY <1>1, <1>2, <1>3 DEF EndByCommit

\* The connection falls back to what is committed.
LEMMA IdleAborts ==
    ASSUME NEW d, ~ d.autocommit
    PROVE  TakesBack(d, Idle(d.disk))
BY DEF Idle, TakesBack, Aborts

\* COMMIT commits or takes rows back.
LEMMA CommitSteps ==
    ASSUME NEW d, Sound(d), NEW r \in SqlCommit(d)
    PROVE  StoreStep(d, r.db) /\ (~ r.ok => TakesBack(d, r.db))
<1>1. CASE d.autocommit
  <2>1. r.db = d
    BY <1>1 DEF SqlCommit, Err
  <2>2. QED
    BY <2>1 DEF StoreStep, TakesBack, Alike
<1>2. CASE ~ d.autocommit
  <2>1. StoreStep(d, r.db)
    BY <1>2, IdleAborts, EndByCommitSteps DEF SqlCommit
  <2>2. CASE r = Err(d)
    <3>1. r.db = d
      BY <2>2 DEF Err
    <3>2. QED
      BY <2>1, <3>1 DEF TakesBack, Alike
  <2>3. CASE r = Err(Idle(d.disk))
    <3>1. r.db = Idle(d.disk)
      BY <2>3 DEF Err
    <3>2. QED
      BY <1>2, <2>1, <3>1, IdleAborts
  <2>4. CASE r = Ok(Idle(d.view))
    BY <2>1, <2>4 DEF Ok
  <2>5. QED
    BY <1>2, <2>2, <2>3, <2>4 DEF SqlCommit, EndByCommit
<1>3. QED
  BY <1>1, <1>2

\* ROLLBACK takes rows back.
LEMMA RollbackSteps ==
    ASSUME NEW d, Sound(d), NEW r \in SqlRollback(d)
    PROVE  TakesBack(d, r.db)
<1>1. CASE d.autocommit
  <2>1. r.db = d
    BY <1>1 DEF SqlRollback, Err
  <2>2. QED
    BY <2>1 DEF TakesBack, Alike
<1>2. CASE ~ d.autocommit
  <2>1. r.db = Idle(d.disk)
    BY <1>2 DEF SqlRollback, Ok
  <2>2. QED
    BY <1>2, <2>1, IdleAborts
<1>3. QED
  BY <1>1, <1>2

\* SAVEPOINT begins a transaction if there is none.
LEMMA SavepointSteps ==
    ASSUME NEW d, Sound(d), NEW n, NEW r \in SqlSavepoint(d, n)
    PROVE  StoreStep(d, r.db)
<1>1. r.db.view = d.view /\ r.db.disk = d.disk /\ r.db.autocommit = FALSE
  <2>1. r.db = [d EXCEPT !.autocommit = FALSE, !.root = d.root \/ d.autocommit,
                         !.savepoints = Append(@, [name |-> n, saved |-> d.view])]
    BY DEF SqlSavepoint, Ok
  <2>2. QED
    BY <2>1 DEF Sound, Db
<1>2. CASE d.autocommit
  BY <1>1, <1>2 DEF StoreStep, Begins
<1>3. CASE ~ d.autocommit
  <2>1. d.disk \subseteq d.view
    BY DEF Sound, EngineOK
  <2>2. QED
    BY <1>1, <1>3, <2>1 DEF StoreStep, TakesBack, Undoes
<1>4. QED
  BY <1>2, <1>3

\* ROLLBACK TO takes rows back.
LEMMA RollbackToSteps ==
    ASSUME NEW d, Sound(d), NEW n, NEW r \in SqlRollbackTo(d, n)
    PROVE  TakesBack(d, r.db)
<1>1. d \in Db
  BY DEF Sound
<1>2. CASE r = Err(d)
  <2>1. r.db = d
    BY <1>2 DEF Err
  <2>2. QED
    BY <2>1 DEF TakesBack, Alike
<1>3. CASE /\ Matching(d, n) # {}
           /\ r = Ok([d EXCEPT !.view = d.savepoints[Find(d, n)].saved,
                               !.savepoints = SubSeq(@, 1, Find(d, n))])
  <2>1. /\ ~ d.autocommit
        /\ d.disk \subseteq d.savepoints[Find(d, n)].saved
        /\ d.savepoints[Find(d, n)].saved \subseteq d.view
    BY <1>3, MatchIsOpen DEF Sound, EngineOK
  <2>2. /\ r.db.view = d.savepoints[Find(d, n)].saved /\ r.db.disk = d.disk
        /\ r.db.autocommit = d.autocommit
    BY <1>1, <1>3 DEF Db, Ok
  <2>3. QED
    BY <2>1, <2>2 DEF TakesBack, Undoes
<1>4. QED
  BY <1>2, <1>3 DEF SqlRollbackTo

\* RELEASE changes no row, or it commits, and then only the oldest savepoint.
LEMMA ReleaseSteps ==
    ASSUME NEW d, Sound(d), NEW n, NEW r \in SqlRelease(d, n)
    PROVE  \/ TakesBack(d, r.db)
           \/ /\ Commits(d, r.db) /\ r.ok = TRUE
              /\ d.root /\ Matching(d, n) # {} /\ Find(d, n) = 1
<1>1. d \in Db
  BY DEF Sound
<1>2. CASE r = Err(d)
  <2>1. r.db = d
    BY <1>2 DEF Err
  <2>2. QED
    BY <2>1 DEF TakesBack, Alike
<1>3. CASE /\ Matching(d, n) # {} /\ d.root /\ Find(d, n) = 1
           /\ r \in EndByCommit(d, BrokenRelease(d))
  <2>1. ~ d.autocommit
    BY <1>3, MatchIsOpen
  <2>2. BrokenRelease(d).view = d.disk /\ BrokenRelease(d).disk = d.disk
        /\ BrokenRelease(d).autocommit = d.autocommit
    BY <1>1 DEF BrokenRelease, Db
  <2>3. TakesBack(d, BrokenRelease(d))
    BY <2>1, <2>2 DEF TakesBack, Undoes, Sound, EngineOK
  <2>4. CASE r = Err(BrokenRelease(d))
    <3>1. r.db = BrokenRelease(d)
      BY <2>4 DEF Err
    <3>2. QED
      BY <2>3, <3>1
  <2>5. CASE ~ DeferredViolation(d.view) /\ r = Ok(Idle(d.view))
    <3>1. /\ r.db.view = d.view /\ r.db.disk = d.view /\ r.db.autocommit = TRUE
          /\ r.ok = TRUE
      BY <2>5 DEF Ok, Idle
    <3>2. Commits(d, r.db)
      BY <2>1, <2>5, <3>1 DEF Commits, DeferredViolation
    <3>3. QED
      BY <1>3, <3>1, <3>2
  <2>6. QED
    BY <1>2, <1>3, <2>4, <2>5 DEF EndByCommit
<1>4. CASE r = Ok([d EXCEPT !.savepoints = SubSeq(@, 1, Find(d, n) - 1)])
  <2>1. r.db.view = d.view /\ r.db.disk = d.disk /\ r.db.autocommit = d.autocommit
    BY <1>1, <1>4 DEF Db, Ok
  <2>2. QED
    BY <2>1 DEF TakesBack, Alike
<1>5. QED
  BY <1>2, <1>3, <1>4 DEF SqlRelease

\* An INSERT adds its row, fails, or ends the transaction.
LEMMA InsertSteps ==
    ASSUME NEW d, Sound(d), NEW w \in Writes, NEW r \in SqlInsert(d, w)
    PROVE  StoreStep(d, r.db)
<1>1. d \in Db
  BY DEF Sound
<1>2. CASE d.autocommit
  <2>1. CASE r = Err(d)
    <3>1. r.db = d
      BY <2>1 DEF Err
    <3>2. QED
      BY <3>1 DEF StoreStep, TakesBack, Alike
  <2>2. CASE ~ DeferredViolation(d.view \cup {w}) /\ r = Ok(Idle(d.view \cup {w}))
    <3>1. r.db.view = d.view \cup {w} /\ r.db.disk = d.view \cup {w}
          /\ r.db.autocommit = TRUE
      BY <2>2 DEF Ok, Idle
    <3>2. d.view = d.disk /\ w \notin BadWrites
      BY <1>2, <2>2 DEF Sound, EngineOK, Idle, DeferredViolation
    <3>3. Adds(d, r.db)
      BY <1>2, <3>1, <3>2 DEF Adds
    <3>4. QED
      BY <3>3 DEF StoreStep
  <2>3. QED
    BY <1>2, <2>1, <2>2 DEF SqlInsert
<1>3. CASE ~ d.autocommit
  <2>1. CASE r = Ok([d EXCEPT !.view = @ \cup {w}, !.lock = Dirtied(@)])
    <3>1. r.db.view = d.view \cup {w} /\ r.db.disk = d.disk
          /\ r.db.autocommit = d.autocommit
      BY <1>1, <2>1 DEF Ok, Db
    <3>2. Adds(d, r.db)
      BY <1>3, <3>1 DEF Adds
    <3>3. QED
      BY <3>2 DEF StoreStep
  <2>2. CASE \E l : r = Err([d EXCEPT !.lock = l])
    <3>1. r.db.view = d.view /\ r.db.disk = d.disk /\ r.db.autocommit = d.autocommit
      BY <1>1, <2>2 DEF Err, Db
    <3>2. QED
      BY <3>1 DEF StoreStep, TakesBack, Alike
  <2>3. CASE r = Err(Idle(d.disk))
    <3>1. r.db = Idle(d.disk)
      BY <2>3 DEF Err
    <3>2. QED
      BY <1>3, <3>1, IdleAborts DEF StoreStep
  <2>4. QED
    BY <1>3, <2>1, <2>2, <2>3 DEF SqlInsert
<1>4. QED
  BY <1>2, <1>3

\* What leaves the connection alone.
LEMMA StutterSteps ==
    ASSUME NEW d
    PROVE  StoreStep(d, d)
BY DEF StoreStep, TakesBack, Alike
=============================================================================
