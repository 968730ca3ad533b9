----------------------- MODULE NodeTransactionProofs -----------------------
(***************************************************************************)
(* Theorems about NodeTransaction that hold for every program and every     *)
(* fault: no assumption is made on RawSql, TclInCallback or Faults.         *)
(***************************************************************************)
EXTENDS NodeTransaction, SqliteTxnProofs

----------------------------------------------------------------------------
(* The compound calls keep what the statements they are made of keep.       *)

\* A call made of two statements follows if both do.
LEMMA FollowsTrans ==
    ASSUME NEW d, NEW r, NEW s, Follows(d, r), Follows(r.db, s)
    PROVE  Follows(d, s)
BY DEF Follows

\* What it means to follow.
LEMMA FollowsSound ==
    ASSUME NEW d, NEW r, Follows(d, r)
    PROVE  Sound(r.db) /\ r.db \in Db /\ r.ok \in BOOLEAN /\ d.disk \subseteq r.db.disk
BY DEF Follows, Sound, Result

\* The savepoint is dropped: ROLLBACK TO and RELEASE, errors discarded.
LEMMA DropSavepointFollows ==
    ASSUME NEW d, Sound(d), NEW n, NEW e \in DropSavepoint(d, n), NEW ok \in BOOLEAN
    PROVE  Follows(d, [db |-> e, ok |-> ok])
<1>1. PICK r \in SqlRollbackTo(d, n) :
        e \in IF r.ok THEN {s.db : s \in SqlRelease(r.db, n)} ELSE {r.db}
  BY DEF DropSavepoint
<1>2. Follows(d, r)
  BY RollbackToFollows
<1>3. CASE \E s \in SqlRelease(r.db, n) : e = s.db
  <2>1. PICK s \in SqlRelease(r.db, n) : e = s.db
    BY <1>3
  <2>2. Follows(r.db, s)
    BY <1>2, FollowsSound, ReleaseFollows
  <2>3. Follows(d, s)
    BY <1>2, <2>2, FollowsTrans
  <2>4. QED
    BY <2>1, <2>3 DEF Follows, Sound, Result
<1>4. CASE e = r.db
  BY <1>2, <1>4 DEF Follows, Sound, Result
<1>5. QED
  BY <1>1, <1>3, <1>4

\* The callback returned: RELEASE, and the savepoint is dropped if that fails.
LEMMA SavepointCommitFollows ==
    ASSUME NEW d, Sound(d), NEW n, NEW s \in SavepointCommit(d, n)
    PROVE  Follows(d, s)
<1>1. PICK r \in SqlRelease(d, n) :
        s \in IF r.ok THEN {r} ELSE {Err(e) : e \in DropSavepoint(r.db, n)}
  BY DEF SavepointCommit
<1>2. Follows(d, r)
  BY ReleaseFollows
<1>3. CASE s = r
  BY <1>2, <1>3
<1>4. CASE \E e \in DropSavepoint(r.db, n) : s = Err(e)
  <2>1. PICK e \in DropSavepoint(r.db, n) : s = Err(e)
    BY <1>4
  <2>2. Follows(r.db, s)
    BY <1>2, <2>1, FollowsSound, DropSavepointFollows DEF Err
  <2>3. QED
    BY <1>2, <2>2, FollowsTrans
<1>5. QED
  BY <1>1, <1>3, <1>4

\* The callback threw: ROLLBACK TO and RELEASE.
LEMMA SavepointRollbackFollows ==
    ASSUME NEW d, Sound(d), NEW n, NEW s \in SavepointRollback(d, n)
    PROVE  Follows(d, s)
<1>1. PICK r \in SqlRollbackTo(d, n) :
        \E e \in DropSavepoint(r.db, n) : s = [db |-> e, ok |-> r.ok]
  BY DEF SavepointRollback
<1>2. PICK e \in DropSavepoint(r.db, n) : s = [db |-> e, ok |-> r.ok]
  BY <1>1
<1>3. Follows(d, r)
  BY RollbackToFollows
<1>4. Follows(r.db, s)
  BY <1>2, <1>3, FollowsSound, DropSavepointFollows
<1>5. QED
  BY <1>3, <1>4, FollowsTrans

\* COMMIT, and ROLLBACK if that fails.
LEMMA CommitElseRollbackFollows ==
    ASSUME NEW d, Sound(d), NEW s \in CommitElseRollback(d)
    PROVE  Follows(d, s)
<1>1. PICK r \in SqlCommit(d) :
        s \in IF r.ok THEN {r} ELSE {Err(q.db) : q \in SqlRollback(r.db)}
  BY DEF CommitElseRollback
<1>2. Follows(d, r)
  BY CommitFollows
<1>3. CASE s = r
  BY <1>2, <1>3
<1>4. CASE \E q \in SqlRollback(r.db) : s = Err(q.db)
  <2>1. PICK q \in SqlRollback(r.db) : s = Err(q.db)
    BY <1>4
  <2>2. Follows(r.db, q)
    BY <1>2, FollowsSound, RollbackFollows
  <2>3. Follows(d, q)
    BY <1>2, <2>2, FollowsTrans
  <2>4. QED
    BY <2>1, <2>3 DEF Follows, Result, Err, Sound
<1>5. QED
  BY <1>1, <1>3, <1>4

\* A call that does nothing follows.
LEMMA OkFollows ==
    ASSUME NEW d, Sound(d), NEW r \in {Ok(d)}
    PROVE  Follows(d, r)
<1>1. r.db = d /\ r.ok = TRUE /\ r = [db |-> d, ok |-> TRUE]
  BY DEF Ok
<1>2. r \in Result
  BY <1>1 DEF Sound, Result
<1>3. QED
  BY <1>1, <1>2 DEF Follows

----------------------------------------------------------------------------
(* Every step keeps the types, the engine's asserts and the committed rows. *)

IInv == TypeOK /\ EngineInv

\* What a call's statement leaves behind.
Kept == Sound(db') /\ db.disk \subseteq db'.disk

\* Running statements that follow keeps the engine.
LEMMA RunKeeps ==
    ASSUME NEW results, \A r \in results : Follows(db, r), Run(results)
    PROVE  Kept /\ result' \in {"return", "throw"}
<1>1. PICK r \in results : db' = r.db /\ Returned(r)
  BY DEF Run
<1>2. QED
  BY <1>1, FollowsSound DEF Returned, Kept

\* The owner of the open transaction stays a handle or nobody.
LEMMA OwnerKept ==
    ASSUME owner \in Handles \cup {Nobody}, KeepOwner
    PROVE  owner' \in Handles \cup {Nobody}
BY DEF KeepOwner

\* A call that may end the handle's transaction keeps the invariant's parts.
LEMMA FinishKeeps ==
    ASSUME IInv, NEW t \in Handles, NEW fate \in Fates,
           NEW results, \A r \in results : Follows(db, r),
           Finish(t, results, fate)
    PROVE  /\ Kept
           /\ result' \in {"return", "throw"}
           /\ handle' \in [Handles -> Handle]
           /\ told' \in [Handles -> Fates]
           /\ owner' \in Handles \cup {Nobody}
<1>1. Run(results) /\ KeepOwner
  BY DEF Finish
<1>2. Kept /\ result' \in {"return", "throw"} /\ owner' \in Handles \cup {Nobody}
  BY <1>1, RunKeeps, OwnerKept DEF IInv, TypeOK
<1>3. handle' \in [Handles -> Handle] /\ told' \in [Handles -> Fates]
  <2>1. [handle[t] EXCEPT !.finished = TRUE] \in Handle
    BY DEF IInv, TypeOK, Handle
  <2>2. [handle EXCEPT ![t].finished = TRUE] \in [Handles -> Handle]
    BY <2>1 DEF IInv, TypeOK
  <2>3. [told EXCEPT ![t] = fate] \in [Handles -> Fates]
    BY DEF IInv, TypeOK
  <2>4. QED
    BY <2>2, <2>3 DEF Finish, IInv, TypeOK
<1>4. QED
  BY <1>2, <1>3

\* So does a call on a finished handle, which throws.
LEMMA AlreadyFinishedKeeps ==
    ASSUME IInv, NEW t \in Handles, AlreadyFinished(t)
    PROVE  /\ Kept
           /\ result' \in {"return", "throw"}
           /\ handle' \in [Handles -> Handle]
           /\ told' \in [Handles -> Fates]
           /\ owner' \in Handles \cup {Nobody}
BY DEF AlreadyFinished, IInv, TypeOK, EngineInv, Kept, Sound

\* After the process ends and starts again only the committed rows are left.
LEMMA RestartedKeeps ==
    ASSUME IInv, Restarted
    PROVE  IInv' /\ Kept
<1>1. Kept
  BY IdleDisk DEF Restarted, Kept, IInv, TypeOK, EngineInv, Sound, Idle
<1>2. handle' \in [Handles -> Handle]
  <2>1. ASSUME NEW t \in Handles
        PROVE  [handle[t] EXCEPT !.state = "freed"] \in Handle /\ handle[t] \in Handle
    BY DEF IInv, TypeOK, Handle
  <2>2. QED
    BY <2>1 DEF Restarted
<1>3. frames' \in Seq(Frame)
  BY DEF Restarted
<1>4. QED
  BY <1>1, <1>2, <1>3 DEF Restarted, Kept, Sound, IInv, TypeOK, EngineInv, Behaviors

\* Puts a step together.
LEMMA Together ==
    ASSUME Kept,
           handle' \in [Handles -> Handle],
           frames' \in Seq(Frame),
           behavior' \in Behaviors,
           result' \in {"return", "throw"},
           used' \subseteq Writes,
           owner' \in Handles \cup {Nobody},
           acked' \in [Handles -> SUBSET Writes],
           told' \in [Handles -> Fates]
    PROVE  IInv' /\ Kept
BY DEF Kept, Sound, IInv, TypeOK, EngineInv

\* One lemma per action: transaction() keeps the invariant and the committed rows,
LEMMA transactionKeeps ==
    ASSUME IInv, NEW t \in Handles, NEW option \in Options,
           NEW drop \in Drops \cup {"default"}, transaction(t, option, drop)
    PROVE  IInv' /\ Kept
<1> DEFINE b == IF option = "default" THEN "deferred" ELSE option
<1>1. b \in Behaviors
  BY ChoicesAssumption DEF Behaviors
<1>2. Sound(db) /\ Run(SqlBegin(db, b))
  BY DEF IInv, TypeOK, EngineInv, Sound, transaction
<1>3. \A r \in SqlBegin(db, b) : Follows(db, r)
  BY <1>1, <1>2, BeginFollows
<1> HIDE DEF b
<1>4. Kept /\ result' \in {"return", "throw"}
  BY <1>2, <1>3, RunKeeps
<1>5. DropOf(drop) \in DropBehaviors
  BY ChoicesAssumption DEF DropOf, DropBehaviors
<1>6. handle' \in [Handles -> Handle] /\ owner' \in Handles \cup {Nobody}
  <2>1. [state |-> "live", finished |-> FALSE,
         drop_behavior |-> DropOf(drop)] \in Handle
    BY <1>5 DEF Handle
  <2>2. QED
    BY <2>1 DEF transaction, IInv, TypeOK
<1>7. QED
  BY <1>4, <1>6, Together DEF transaction, IInv, TypeOK

\* commit() does,
LEMMA commitKeeps ==
    ASSUME IInv, NEW t \in Handles, commit(t)
    PROVE  IInv' /\ Kept
<1>1. \A r \in SqlCommit(db) : Follows(db, r)
  BY CommitFollows DEF IInv, TypeOK, EngineInv, Sound
<1>2. AlreadyFinished(t) \/ Finish(t, SqlCommit(db), "committed")
  BY DEF commit
<1>3. /\ Kept
      /\ result' \in {"return", "throw"}
      /\ handle' \in [Handles -> Handle]
      /\ told' \in [Handles -> Fates]
      /\ owner' \in Handles \cup {Nobody}
  BY <1>1, <1>2, FinishKeeps, AlreadyFinishedKeeps DEF Fates
<1>4. QED
  BY <1>3, Together DEF commit, IInv, TypeOK

\* rollback() does,
LEMMA rollbackKeeps ==
    ASSUME IInv, NEW t \in Handles, rollback(t)
    PROVE  IInv' /\ Kept
<1>1. \A r \in SqlRollback(db) : Follows(db, r)
  BY RollbackFollows DEF IInv, TypeOK, EngineInv, Sound
<1>2. AlreadyFinished(t) \/ Finish(t, SqlRollback(db), "rolledback")
  BY DEF rollback
<1>3. /\ Kept
      /\ result' \in {"return", "throw"}
      /\ handle' \in [Handles -> Handle]
      /\ told' \in [Handles -> Fates]
      /\ owner' \in Handles \cup {Nobody}
  BY <1>1, <1>2, FinishKeeps, AlreadyFinishedKeeps DEF Fates
<1>4. QED
  BY <1>3, Together DEF rollback, IInv, TypeOK

\* setDropBehavior() does,
LEMMA set_drop_behaviorKeeps ==
    ASSUME IInv, NEW t \in Handles, NEW drop \in Drops, set_drop_behavior(t, drop)
    PROVE  IInv' /\ Kept
<1>1. handle' \in [Handles -> Handle]
  <2>1. drop \in DropBehaviors
    BY ChoicesAssumption DEF DropBehaviors
  <2>2. [handle[t] EXCEPT !.drop_behavior = drop] \in Handle
    BY <2>1 DEF IInv, TypeOK, Handle
  <2>3. QED
    BY <2>2 DEF set_drop_behavior, IInv, TypeOK
<1>2. QED
  BY <1>1, Together
     DEF set_drop_behavior, history, Kept, IInv, TypeOK, EngineInv, Sound

\* setTransactionBehavior() does,
LEMMA set_transaction_behaviorKeeps ==
    ASSUME IInv, NEW b \in Defaults, set_transaction_behavior(b)
    PROVE  IInv' /\ Kept
BY ChoicesAssumption, Together
   DEF set_transaction_behavior, history, Behaviors, Kept, IInv, TypeOK, EngineInv,
       Sound

\* dispose() does, with any drop behavior,
LEMMA disposeKeeps ==
    ASSUME IInv, NEW t \in Handles, dispose(t)
    PROVE  IInv' /\ Kept
<1>1. Sound(db)
  BY DEF IInv, TypeOK, EngineInv, Sound
<1>2. /\ \A r \in SqlCommit(db) : Follows(db, r)
      /\ \A r \in SqlRollback(db) : Follows(db, r)
      /\ \A r \in {Ok(db)} : Follows(db, r)
  BY <1>1, CommitFollows, RollbackFollows, OkFollows
<1>3. \/ Finish(t, SqlCommit(db), "committed")
      \/ Finish(t, SqlRollback(db), "rolledback")
      \/ Finish(t, {Ok(db)}, "ignored")
      \/ /\ UNCHANGED <<db, handle, owner, told>>
         /\ result' \in {"return", "throw"}
  BY DEF dispose
<1>4. /\ Kept
      /\ result' \in {"return", "throw"}
      /\ handle' \in [Handles -> Handle]
      /\ told' \in [Handles -> Fates]
      /\ owner' \in Handles \cup {Nobody}
  BY <1>2, <1>3, FinishKeeps DEF Fates, IInv, TypeOK, EngineInv, Kept, Sound
<1>5. QED
  BY <1>4, Together DEF dispose, IInv, TypeOK

\* execute() does, on the connection and on a handle,
LEMMA executeKeeps ==
    ASSUME IInv, NEW w \in Writes, NEW via \in Handles \cup {Conn}, execute(w, via)
    PROVE  IInv' /\ Kept
<1>1. Sound(db) /\ Run(SqlInsert(db, w)) /\ KeepOwner
  BY DEF IInv, TypeOK, EngineInv, Sound, execute
<1>2. \A r \in SqlInsert(db, w) : Follows(db, r)
  BY <1>1, InsertFollows
<1>3. Kept /\ result' \in {"return", "throw"} /\ owner' \in Handles \cup {Nobody}
  BY <1>1, <1>2, RunKeeps, OwnerKept DEF IInv, TypeOK
<1>4. used' \subseteq Writes
  BY DEF execute, IInv, TypeOK
<1>5. acked' \in [Handles -> SUBSET Writes]
  <2>1. \A t \in Handles :
          [acked EXCEPT ![t] = @ \cup {w}] \in [Handles -> SUBSET Writes]
    BY DEF IInv, TypeOK
  <2>2. QED
    BY <2>1 DEF execute, IInv, TypeOK
<1>6. QED
  BY <1>3, <1>4, <1>5, Together DEF execute, IInv, TypeOK

\* executeBatch() of a transaction statement does,
LEMMA execute_batchKeeps ==
    ASSUME IInv, execute_batch
    PROVE  IInv' /\ Kept
<1>1. Sound(db) /\ KeepOwner
  BY DEF IInv, TypeOK, EngineInv, Sound, execute_batch
<1>2. \/ \E b \in Behaviors : Run(SqlBegin(db, b))
      \/ Run(SqlCommit(db))
      \/ Run(SqlRollback(db))
      \/ \E n \in Names : Run(SqlSavepoint(db, n))
      \/ \E n \in Names : Run(SqlRelease(db, n))
      \/ \E n \in Names : Run(SqlRollbackTo(db, n))
  BY DEF execute_batch
<1>3. \A b \in Behaviors : \A r \in SqlBegin(db, b) : Follows(db, r)
  BY <1>1, BeginFollows
<1>4. \A r \in SqlCommit(db) \cup SqlRollback(db) : Follows(db, r)
  BY <1>1, CommitFollows, RollbackFollows
<1>5. \A n \in Names :
        \A r \in SqlSavepoint(db, n) \cup SqlRelease(db, n) \cup SqlRollbackTo(db, n) :
           Follows(db, r)
  BY <1>1, SavepointFollows, ReleaseFollows, RollbackToFollows
<1>6. Kept /\ result' \in {"return", "throw"}
  BY <1>2, <1>3, <1>4, <1>5, RunKeeps
<1>7. QED
  BY <1>1, <1>6, OwnerKept, Together DEF execute_batch, IInv, TypeOK

\* a savepoint call does when it enters its callback,
LEMMA savepoint_with_nameKeeps ==
    ASSUME IInv, NEW n \in Names, savepoint_with_name(n)
    PROVE  IInv' /\ Kept
<1>1. Sound(db) /\ Run(SqlSavepoint(db, n)) /\ KeepOwner
  BY DEF IInv, TypeOK, EngineInv, Sound, savepoint_with_name
<1>2. \A r \in SqlSavepoint(db, n) : Follows(db, r)
  BY <1>1, SavepointFollows
<1>3. Kept /\ result' \in {"return", "throw"} /\ owner' \in Handles \cup {Nobody}
  BY <1>1, <1>2, RunKeeps, OwnerKept DEF IInv, TypeOK
<1>4. [name |-> n, entry |-> db.view, outermost |-> db.autocommit] \in Frame
  BY DEF Frame, IInv, TypeOK, Db
<1>5. frames' \in Seq(Frame)
  BY <1>4 DEF savepoint_with_name, IInv, TypeOK
<1>6. QED
  BY <1>3, <1>5, Together DEF savepoint_with_name, IInv, TypeOK

\* and when the callback returns or throws,
LEMMA SavepointReturnKeeps ==
    ASSUME IInv, NEW threw \in BOOLEAN, SavepointReturn(threw)
    PROVE  IInv' /\ Kept
<1> DEFINE n == TopFrame.name
<1>1. Sound(db) /\ KeepOwner
  BY DEF IInv, TypeOK, EngineInv, Sound, SavepointReturn
<1>2. Run(SavepointRollback(db, n)) \/ Run(SavepointCommit(db, n))
  BY DEF SavepointReturn
<1> HIDE DEF n
<1>3. /\ \A r \in SavepointRollback(db, n) : Follows(db, r)
      /\ \A r \in SavepointCommit(db, n) : Follows(db, r)
  BY <1>1, SavepointRollbackFollows, SavepointCommitFollows
<1>4. Kept /\ result' \in {"return", "throw"} /\ owner' \in Handles \cup {Nobody}
  BY <1>1, <1>2, <1>3, RunKeeps, OwnerKept DEF IInv, TypeOK
<1>5. frames' \in Seq(Frame)
  <2>1. Len(frames) \in Nat /\ Len(frames) - 1 \in 0..Len(frames)
    BY DEF SavepointReturn, IInv, TypeOK
  <2>2. QED
    BY <2>1 DEF SavepointReturn, IInv, TypeOK
<1>6. acked' \in [Handles -> SUBSET Writes]
  <2>1. \A t \in Handles : acked[t] \in SUBSET Writes
                           /\ acked[t] \cap TopFrame.entry \in SUBSET Writes
    BY DEF IInv, TypeOK
  <2>2. [t \in Handles |-> IF Open(t) \/ owner = t THEN acked[t] \cap TopFrame.entry
                                      ELSE acked[t]] \in [Handles -> SUBSET Writes]
    BY <2>1
  <2>3. QED
    BY <2>2 DEF SavepointReturn, IInv, TypeOK
<1>7. QED
  BY <1>4, <1>5, <1>6, Together DEF SavepointReturn, IInv, TypeOK

\* and the finalizer of a handle does.
LEMMA finalizeKeeps ==
    ASSUME IInv, NEW t \in Handles, finalize(t)
    PROVE  IInv' /\ Kept
<1>1. Sound(db) /\ KeepOwner
  BY DEF IInv, TypeOK, EngineInv, Sound, finalize
<1>2. Kept
  <2>1. CASE db' = db
    BY <1>1, <2>1 DEF Kept
  <2>2. CASE \E r \in CommitElseRollback(db) : db' = r.db
    BY <1>1, <2>2, CommitElseRollbackFollows, FollowsSound DEF Kept
  <2>3. CASE \E r \in SqlRollback(db) : db' = r.db
    BY <1>1, <2>3, RollbackFollows, FollowsSound DEF Kept
  <2>4. QED
    BY <2>1, <2>2, <2>3 DEF finalize
<1>3. handle' \in [Handles -> Handle]
  BY DEF finalize, IInv, TypeOK, Handle
<1>4. told' \in [Handles -> Fates]
  <2>1. \A fate \in Fates : [told EXCEPT ![t] = fate] \in [Handles -> Fates]
    BY DEF IInv, TypeOK
  <2>2. told' = told \/ \E fate \in Fates : told' = [told EXCEPT ![t] = fate]
    BY DEF finalize, Fates
  <2>3. QED
    BY <2>1, <2>2 DEF IInv, TypeOK
<1>5. frames' = frames /\ behavior' = behavior /\ UNCHANGED <<result, used, acked>>
  BY DEF finalize
<1>6. QED
  BY <1>1, <1>2, <1>3, <1>4, <1>5, OwnerKept, Together DEF IInv, TypeOK

\* The invariant holds when the connection is opened.
LEMMA InitIInv == Init => IInv
<1> SUFFICES ASSUME Init PROVE IInv
  OBVIOUS
<1>1. {} \in SUBSET Writes /\ ~ DeferredViolation({})
  BY DEF DeferredViolation
<1>2. Sound(db)
  BY <1>1, IdleSound DEF Init
<1>3. handle \in [Handles -> Handle]
  BY DEF Init, Handle, DropBehaviors
<1>4. /\ frames \in Seq(Frame)
      /\ told \in [Handles -> Fates]
      /\ acked \in [Handles -> SUBSET Writes]
      /\ behavior \in Behaviors
  BY DEF Init, Fates, Behaviors
<1>5. QED
  BY <1>2, <1>3, <1>4 DEF Init, IInv, TypeOK, EngineInv, Sound

\* Every step keeps the invariant and the committed rows.
LEMMA StepKeeps ==
    ASSUME IInv, [Next]_vars
    PROVE  IInv' /\ Kept
<1>1. ASSUME NEW t \in Handles, NEW option \in Options,
             NEW drop \in Drops \cup {"default"}, transaction(t, option, drop)
      PROVE  IInv' /\ Kept
  BY <1>1, transactionKeeps
<1>2. ASSUME NEW t \in Handles, commit(t) PROVE IInv' /\ Kept
  BY <1>2, commitKeeps
<1>3. ASSUME NEW t \in Handles, rollback(t) PROVE IInv' /\ Kept
  BY <1>3, rollbackKeeps
<1>4. ASSUME NEW t \in Handles, dispose(t) PROVE IInv' /\ Kept
  BY <1>4, disposeKeeps
<1>5. ASSUME NEW t \in Handles, NEW drop \in Drops, set_drop_behavior(t, drop)
      PROVE  IInv' /\ Kept
  BY <1>5, set_drop_behaviorKeeps
<1>6. ASSUME NEW t \in Handles, finalize(t) PROVE IInv' /\ Kept
  BY <1>6, finalizeKeeps
<1>7. ASSUME NEW t \in Handles, finalize_panic(t) PROVE IInv' /\ Kept
  BY <1>7, RestartedKeeps DEF finalize_panic
<1>8. ASSUME NEW b \in Defaults, set_transaction_behavior(b) PROVE IInv' /\ Kept
  BY <1>8, set_transaction_behaviorKeeps
<1>9. ASSUME NEW w \in Writes, NEW via \in Handles \cup {Conn}, execute(w, via)
      PROVE  IInv' /\ Kept
  BY <1>9, executeKeeps
<1>10. ASSUME execute_batch PROVE IInv' /\ Kept
  BY <1>10, execute_batchKeeps
<1>11. ASSUME NEW n \in Names, savepoint_with_name(n) PROVE IInv' /\ Kept
  BY <1>11, savepoint_with_nameKeeps
<1>12. ASSUME NEW threw \in BOOLEAN, SavepointReturn(threw) PROVE IInv' /\ Kept
  BY <1>12, SavepointReturnKeeps
<1>13. ASSUME Restart PROVE IInv' /\ Kept
  BY <1>13, RestartedKeeps DEF Restart
<1>14. ASSUME UNCHANGED vars PROVE IInv' /\ Kept
  BY <1>14 DEF vars, IInv, TypeOK, EngineInv, Kept, Sound
<1>15. QED
  BY <1>1, <1>2, <1>3, <1>4, <1>5, <1>6, <1>7, <1>8, <1>9, <1>10, <1>11, <1>12,
     <1>13, <1>14 DEF Next

----------------------------------------------------------------------------
\* IInv is the inductive invariant of NodeTransaction.
THEOREM Invariance == Spec => []IInv
<1>1. Init => IInv
  BY InitIInv
<1>2. IInv /\ [Next]_vars => IInv'
  BY StepKeeps
<1>3. QED
  BY <1>1, <1>2, PTL DEF Spec

\* Every variable keeps its type: in particular every call leaves a database
\* whose savepoints and locks are ones the engine has.
THEOREM TypeCorrect == Spec => []TypeOK
<1>1. IInv => TypeOK
  BY DEF IInv
<1>2. QED
  BY <1>1, Invariance, PTL

\* The engine's asserts on autocommit, the transaction savepoint and the order
\* of snapshots hold after every call and every finalizer, for any number of
\* handles, nested callbacks and faults.
THEOREM EngineCorrect == Spec => []EngineInv
<1>1. IInv => EngineInv
  BY DEF IInv
<1>2. QED
  BY <1>1, Invariance, PTL

\* No call, error path, finalizer or restart takes back a committed row.
THEOREM CommitsFinal == Spec => CommitsAreFinal
<1>1. IInv /\ [Next]_vars => [db.disk \subseteq db'.disk]_vars
  BY StepKeeps DEF Kept
<1>2. QED
  BY <1>1, Invariance, PTL DEF Spec, CommitsAreFinal

----------------------------------------------------------------------------
(* NoOrphanTransaction: inductive once the types are known.                  *)

\* COMMIT that succeeds leaves no transaction open, nor does any ROLLBACK.
LEMMA OkEnds ==
    ASSUME NEW d
    PROVE  /\ \A r \in SqlCommit(d) : r.ok => r.db.autocommit
           /\ \A r \in SqlRollback(d) : r.db.autocommit
           /\ \A r \in CommitElseRollback(d) : r.db.autocommit
<1>1. \A e : \A r \in SqlRollback(e) : r.db.autocommit
  BY DEF SqlRollback, Ok, Err, Idle
<1>2. \A r \in SqlCommit(d) : r.ok => r.db.autocommit
  BY DEF SqlCommit, EndByCommit, Ok, Err, Idle
<1>3. ASSUME NEW r \in CommitElseRollback(d) PROVE r.db.autocommit
  <2>1. PICK q \in SqlCommit(d) :
          r \in IF q.ok THEN {q} ELSE {Err(s.db) : s \in SqlRollback(q.db)}
    BY DEF CommitElseRollback
  <2>2. CASE q.ok
    BY <1>2, <2>1, <2>2
  <2>3. CASE ~ q.ok
    <3>1. PICK s \in SqlRollback(q.db) : r = Err(s.db)
      BY <2>1, <2>3
    <3>2. r.db = s.db
      BY <3>1 DEF Err
    <3>3. QED
      BY <1>1, <3>2
  <2>4. QED
    BY <2>2, <2>3
<1>4. QED
  BY <1>1, <1>2, <1>3

\* What a step may do to one handle t without leaving a transaction behind: end
\* the transaction, ignore it, or touch neither t nor what it was told.
LEMMA HandleReleases ==
    ASSUME TypeOK, NoOrphanTransaction, NEW t \in Handles,
           \A u \in Handles \ {t} : (Open(u) => Open(u)') /\ told'[u] = told[u],
           owner' = owner \/ owner' = Nobody,
           \/ owner' = Nobody
           \/ told'[t] = "ignored"
           \/ (Open(t) => Open(t)') /\ told'[t] = told[t]
    PROVE  NoOrphanTransaction'
<1> SUFFICES ASSUME owner' # Nobody
             PROVE  (Open(owner) \/ told[owner] = "ignored")'
  BY DEF NoOrphanTransaction
<1>1. owner' = owner /\ owner \in Handles
  BY DEF TypeOK
<1>2. Open(owner) \/ told[owner] = "ignored"
  BY <1>1, HandlesAssumption DEF NoOrphanTransaction
<1>3. CASE owner = t
  BY <1>1, <1>2, <1>3
<1>4. CASE owner # t
  BY <1>1, <1>2, <1>4
<1>5. QED
  BY <1>3, <1>4

\* A call that finishes a handle ended the transaction, or was told to ignore it.
LEMMA FinishReleases ==
    ASSUME TypeOK, NoOrphanTransaction, NEW t \in Handles, NEW results, NEW fate,
           \/ results \subseteq SqlCommit(db) \cup SqlRollback(db)
           \/ fate = "ignored",
           Finish(t, results, fate)
    PROVE  NoOrphanTransaction'
<1>1. owner' = Nobody \/ owner' = owner
  BY DEF Finish, KeepOwner
<1>2. CASE result' = "return"
  <2>1. /\ handle' = [handle EXCEPT ![t].finished = TRUE]
        /\ told' = [told EXCEPT ![t] = fate]
    BY <1>2 DEF Finish
  <2>2. owner' = Nobody \/ fate = "ignored"
    <3>1. PICK r \in results : db' = r.db /\ Returned(r)
      BY DEF Finish, Run
    <3>2. r.ok
      BY <1>2, <3>1 DEF Returned
    <3>3. CASE results \subseteq SqlCommit(db) \cup SqlRollback(db)
      <4>1. db'.autocommit
        BY <3>1, <3>2, <3>3, OkEnds
      <4>2. QED
        BY <4>1 DEF Finish, KeepOwner
    <3>4. QED
      BY <3>3
  <2>3. told'[t] = fate
    BY <2>1 DEF TypeOK
  <2>4. ASSUME NEW u \in Handles \ {t}
        PROVE  (Open(u) => Open(u)') /\ told'[u] = told[u]
    BY <2>1 DEF TypeOK, Open, Live
  <2>5. QED
    BY <1>1, <2>2, <2>3, <2>4, HandleReleases
<1>3. CASE result' # "return"
  <2>1. UNCHANGED <<handle, told>>
    BY <1>3 DEF Finish
  <2>2. \A u \in Handles : (Open(u) => Open(u)') /\ told'[u] = told[u]
    BY <2>1 DEF Open, Live
  <2>3. QED
    BY <1>1, <2>2, HandleReleases
<1>4. QED
  BY <1>2, <1>3

\* A step that leaves the handles alone leaves no transaction behind.
LEMMA SameHandlesRelease ==
    ASSUME NoOrphanTransaction, UNCHANGED <<handle, told>>,
           owner' = owner \/ owner' = Nobody
    PROVE  NoOrphanTransaction'
BY DEF NoOrphanTransaction, Open, Live

\* transaction() makes the handle it creates the owner.
LEMMA transactionReleases ==
    ASSUME TypeOK, NoOrphanTransaction, NEW t \in Handles, NEW option, NEW drop,
           transaction(t, option, drop)
    PROVE  NoOrphanTransaction'
<1>1. CASE result' = "return"
  <2>1. /\ owner' = t
        /\ handle' = [handle EXCEPT ![t] = [state |-> "live", finished |-> FALSE,
                                            drop_behavior |-> DropOf(drop)]]
    BY <1>1 DEF transaction
  <2>2. Open(t)'
    BY <2>1 DEF TypeOK, Open, Live
  <2>3. QED
    BY <2>1, <2>2 DEF NoOrphanTransaction
<1>2. CASE result' # "return"
  BY <1>2, SameHandlesRelease DEF transaction
<1>3. QED
  BY <1>1, <1>2

\* dispose() finishes its handle only when the transaction is over or ignored.
LEMMA disposeReleases ==
    ASSUME TypeOK, NoOrphanTransaction, NEW t \in Handles, dispose(t)
    PROVE  NoOrphanTransaction'
<1>1. CASE UNCHANGED <<handle, owner, told>>
  BY <1>1, SameHandlesRelease
<1>2. CASE Finish(t, SqlCommit(db), "committed")
  BY <1>2, FinishReleases
<1>3. CASE Finish(t, SqlRollback(db), "rolledback")
  BY <1>3, FinishReleases
<1>4. CASE Finish(t, {Ok(db)}, "ignored")
  BY <1>4, FinishReleases
<1>5. QED
  BY <1>1, <1>2, <1>3, <1>4 DEF dispose

\* A finalizer ends the open transaction, ignores it, or has found none that
\* its handle could have.
LEMMA finalizeReleases ==
    ASSUME TypeOK, NoOrphanTransaction, NEW t \in Handles, finalize(t)
    PROVE  NoOrphanTransaction'
<1>1. owner' = IF db'.autocommit THEN Nobody ELSE owner
  BY DEF finalize, KeepOwner
<1>2. handle' = [handle EXCEPT ![t].state = "freed"]
  BY DEF finalize
<1>3. \A u \in Handles \ {t} : Open(u) => Open(u)'
  BY <1>2 DEF TypeOK, Open, Live
<1>4. CASE handle[t].finished \/ db.autocommit
  <2>1. db' = db /\ told' = told
    BY <1>4 DEF finalize
  <2>2. owner' = Nobody \/ ~ Open(t)
    BY <1>1, <1>4, <2>1 DEF Open
  <2>3. QED
    BY <1>1, <1>3, <2>1, <2>2, HandleReleases
<1>5. CASE ~ handle[t].finished /\ ~ db.autocommit
  <2>1. \/ /\ \E r \in CommitElseRollback(db) \cup SqlRollback(db) : db' = r.db
           /\ \E fate : told' = [told EXCEPT ![t] = fate]
        \/ told' = [told EXCEPT ![t] = "ignored"]
    BY <1>5 DEF finalize
  <2>2. owner' = Nobody \/ told'[t] = "ignored"
    BY <1>1, <2>1, OkEnds DEF TypeOK
  <2>3. \A u \in Handles \ {t} : told'[u] = told[u]
    BY <2>1 DEF TypeOK
  <2>4. QED
    BY <1>1, <1>3, <2>2, <2>3, HandleReleases
<1>6. QED
  BY <1>4, <1>5

\* Every step keeps NoOrphanTransaction.
LEMMA StepReleases ==
    ASSUME TypeOK, NoOrphanTransaction, [Next]_vars
    PROVE  NoOrphanTransaction'
<1>1. ASSUME NEW t \in Handles, NEW option \in Options,
             NEW drop \in Drops \cup {"default"}, transaction(t, option, drop)
      PROVE  NoOrphanTransaction'
  BY <1>1, transactionReleases
<1>2. ASSUME NEW t \in Handles, commit(t) \/ rollback(t)
      PROVE  NoOrphanTransaction'
  <2>1. CASE AlreadyFinished(t)
    BY <2>1, SameHandlesRelease DEF AlreadyFinished
  <2>2. CASE Finish(t, SqlCommit(db), "committed")
    BY <2>2, FinishReleases
  <2>3. CASE Finish(t, SqlRollback(db), "rolledback")
    BY <2>3, FinishReleases
  <2>4. QED
    BY <1>2, <2>1, <2>2, <2>3 DEF commit, rollback
<1>3. ASSUME NEW t \in Handles, dispose(t) PROVE NoOrphanTransaction'
  BY <1>3, disposeReleases
<1>4. ASSUME NEW t \in Handles, NEW drop \in Drops, set_drop_behavior(t, drop)
      PROVE  NoOrphanTransaction'
  <2>1. ASSUME NEW u \in Handles PROVE Open(u) => Open(u)'
    BY <1>4 DEF set_drop_behavior, TypeOK, Handle, Open, Live
  <2>2. UNCHANGED <<owner, told>>
    BY <1>4 DEF set_drop_behavior, history
  <2>3. QED
    BY <2>1, <2>2, HandleReleases
<1>5. ASSUME NEW t \in Handles, finalize(t) PROVE NoOrphanTransaction'
  BY <1>5, finalizeReleases
<1>6. ASSUME Restarted PROVE NoOrphanTransaction'
  BY <1>6 DEF Restarted, NoOrphanTransaction
<1>7. ASSUME NEW b \in Defaults, set_transaction_behavior(b)
      PROVE  NoOrphanTransaction'
  BY <1>7, SameHandlesRelease DEF set_transaction_behavior, history
<1>8. ASSUME UNCHANGED <<handle, told>>, KeepOwner PROVE NoOrphanTransaction'
  BY <1>8, SameHandlesRelease DEF KeepOwner
<1>9. ASSUME NEW w \in Writes, NEW via \in Handles \cup {Conn}, execute(w, via)
      PROVE  NoOrphanTransaction'
  BY <1>8, <1>9 DEF execute
<1>10. ASSUME execute_batch PROVE NoOrphanTransaction'
  BY <1>8, <1>10 DEF execute_batch
<1>11. ASSUME NEW n \in Names, savepoint_with_name(n) PROVE NoOrphanTransaction'
  BY <1>8, <1>11 DEF savepoint_with_name
<1>12. ASSUME NEW threw \in BOOLEAN, SavepointReturn(threw) PROVE NoOrphanTransaction'
  BY <1>8, <1>12 DEF SavepointReturn
<1>13. ASSUME UNCHANGED vars PROVE NoOrphanTransaction'
  BY <1>13, SameHandlesRelease DEF vars
<1>14. QED
  BY <1>1, <1>2, <1>3, <1>4, <1>5, <1>6, <1>7, <1>9, <1>10, <1>11, <1>12, <1>13
     DEF Next, Restart, finalize_panic

\* An open transaction that a handle began still has that handle, neither
\* finished nor collected, unless it was told to ignore the transaction,
\* whichever statement failed on the way.
THEOREM Released == Spec => []NoOrphanTransaction
<1>1. Init => NoOrphanTransaction
  BY DEF Init, NoOrphanTransaction
<1>2. TypeOK /\ NoOrphanTransaction /\ [Next]_vars => NoOrphanTransaction'
  BY StepReleases
<1>3. QED
  BY <1>1, <1>2, TypeCorrect, PTL DEF Spec

----------------------------------------------------------------------------
(* The refinement of AtomicStore: whatever the program does and whatever     *)
(* fails, each call is one step of the store or none, also if it is made of *)
(* several statements.                                                      *)

\* After ROLLBACK TO, a RELEASE that commits has nothing to commit.
LEMMA ReleaseAfterRollbackTo ==
    ASSUME NEW d, Sound(d), NEW n, NEW r \in SqlRollbackTo(d, n),
           Matching(r.db, n) # {}, Find(r.db, n) = 1, r.db.root
    PROVE  r.db.view = r.db.disk
<1> DEFINE k == Find(d, n)
<1>1. d \in Db /\ Sound(r.db) /\ r.db \in Db
  BY RollbackToFollows DEF Follows, Sound
<1>2. CASE Matching(d, n) = {}
  <2>1. r.db = d
    BY <1>2 DEF SqlRollbackTo, Err
  <2>2. QED
    BY <1>2, <2>1
<1>3. CASE Matching(d, n) # {}
  <2>1. k \in 1..Len(d.savepoints) /\ Len(d.savepoints) \in Nat
        /\ d.savepoints[k].name = n
    BY <1>1, <1>3, MatchIsOpen, FindNewest
  <2>2. r.db = [d EXCEPT !.view = d.savepoints[k].saved,
                         !.savepoints = SubSeq(@, 1, k)]
    BY <1>3 DEF SqlRollbackTo, Ok
  <2>3. /\ r.db.view = d.savepoints[k].saved /\ r.db.disk = d.disk
        /\ r.db.root = d.root /\ r.db.savepoints = SubSeq(d.savepoints, 1, k)
    BY <1>1, <2>2 DEF Db
  <2>4. Len(r.db.savepoints) = k /\ r.db.savepoints[k] = d.savepoints[k]
    BY <1>1, <2>1, <2>3 DEF Db
  <2>5. k \in Matching(r.db, n)
    BY <2>1, <2>4 DEF Matching
  <2>6. k <= 1
    BY <1>1, <2>5, FindNewest
  <2>7. k = 1
    BY <2>1, <2>6
  <2> HIDE DEF k
  <2>8. d.savepoints[1].saved = d.disk
    BY <2>3 DEF Sound, EngineOK
  <2>9. QED
    BY <2>3, <2>7, <2>8
<1>4. QED
  BY <1>2, <1>3

\* Dropping a savepoint takes rows back.
LEMMA DropSavepointSteps ==
    ASSUME NEW d, Sound(d), NEW n, NEW e \in DropSavepoint(d, n)
    PROVE  TakesBack(d, e)
<1>1. PICK r \in SqlRollbackTo(d, n) :
        e \in IF r.ok THEN {s.db : s \in SqlRelease(r.db, n)} ELSE {r.db}
  BY DEF DropSavepoint
<1>2. TakesBack(d, r.db) /\ Sound(r.db)
  BY RollbackToSteps, RollbackToFollows DEF Follows
<1>3. CASE \E s \in SqlRelease(r.db, n) : e = s.db
  <2>1. PICK s \in SqlRelease(r.db, n) : e = s.db
    BY <1>3
  <2>2. CASE TakesBack(r.db, s.db)
    BY <1>2, <2>1, <2>2, TakesBackTrans
  <2>3. CASE /\ Commits(r.db, s.db)
             /\ r.db.root /\ Matching(r.db, n) # {} /\ Find(r.db, n) = 1
    <3>1. r.db.view = r.db.disk
      BY <1>1, <2>3, ReleaseAfterRollbackTo
    <3>2. TakesBack(r.db, s.db)
      BY <2>3, <3>1 DEF Commits, TakesBack, Aborts
    <3>3. QED
      BY <1>2, <2>1, <3>2, TakesBackTrans
  <2>4. QED
    BY <1>2, <2>1, <2>2, <2>3, ReleaseSteps
<1>4. CASE e = r.db
  BY <1>2, <1>4
<1>5. QED
  BY <1>1, <1>3, <1>4

\* The end of a savepoint call.
LEMMA ReturnSteps ==
    ASSUME NEW d, Sound(d), NEW n,
           NEW r \in SavepointCommit(d, n) \cup SavepointRollback(d, n)
    PROVE  StoreStep(d, r.db)
<1>1. CASE r \in SavepointCommit(d, n)
  <2>1. PICK q \in SqlRelease(d, n) :
          r \in IF q.ok THEN {q} ELSE {Err(e) : e \in DropSavepoint(q.db, n)}
    BY <1>1 DEF SavepointCommit
  <2>2. Sound(q.db) /\ StoreStep(d, q.db) /\ (~ q.ok => TakesBack(d, q.db))
    BY ReleaseSteps, ReleaseFollows DEF Follows, StoreStep
  <2>3. CASE r = q
    BY <2>2, <2>3
  <2>4. CASE ~ q.ok /\ \E e \in DropSavepoint(q.db, n) : r = Err(e)
    <3>1. PICK e \in DropSavepoint(q.db, n) : r = Err(e)
      BY <2>4
    <3>2. r.db = e
      BY <3>1 DEF Err
    <3>3. TakesBack(q.db, e)
      BY <2>2, DropSavepointSteps
    <3>4. Sound(e)
      BY <2>2, DropSavepointFollows DEF Follows
    <3>5. TakesBack(d, e)
      BY <2>2, <2>4, <3>3, TakesBackTrans
    <3>6. QED
      BY <3>2, <3>5 DEF StoreStep
  <2>5. QED
    BY <2>1, <2>3, <2>4
<1>2. CASE r \in SavepointRollback(d, n)
  <2>1. PICK q \in SqlRollbackTo(d, n) :
          \E e \in DropSavepoint(q.db, n) : r = [db |-> e, ok |-> q.ok]
    BY <1>2 DEF SavepointRollback
  <2>2. PICK e \in DropSavepoint(q.db, n) : r = [db |-> e, ok |-> q.ok]
    BY <2>1
  <2>3. r.db = e
    BY <2>2
  <2>4. TakesBack(d, q.db) /\ Sound(q.db)
    BY RollbackToSteps, RollbackToFollows DEF Follows
  <2>5. TakesBack(q.db, e)
    BY <2>4, DropSavepointSteps
  <2>6. TakesBack(d, e)
    BY <2>4, <2>5, TakesBackTrans
  <2>7. QED
    BY <2>3, <2>6 DEF StoreStep
<1>3. QED
  BY <1>1, <1>2

\* COMMIT, and ROLLBACK if that fails.
LEMMA CommitElseRollbackSteps ==
    ASSUME NEW d, Sound(d), NEW r \in CommitElseRollback(d)
    PROVE  StoreStep(d, r.db)
<1>1. PICK q \in SqlCommit(d) :
        r \in IF q.ok THEN {q} ELSE {Err(s.db) : s \in SqlRollback(q.db)}
  BY DEF CommitElseRollback
<1>2. StoreStep(d, q.db) /\ (~ q.ok => TakesBack(d, q.db)) /\ Sound(q.db)
  BY CommitSteps, CommitFollows DEF Follows
<1>3. CASE r = q
  BY <1>2, <1>3
<1>4. CASE ~ q.ok /\ \E s \in SqlRollback(q.db) : r = Err(s.db)
  <2>1. PICK s \in SqlRollback(q.db) : r = Err(s.db)
    BY <1>4
  <2>2. r.db = s.db
    BY <2>1 DEF Err
  <2>3. TakesBack(q.db, s.db)
    BY <1>2, RollbackSteps
  <2>4. TakesBack(d, s.db)
    BY <1>2, <1>4, <2>3, TakesBackTrans
  <2>5. QED
    BY <2>2, <2>4 DEF StoreStep
<1>5. QED
  BY <1>1, <1>3, <1>4

----------------------------------------------------------------------------
(* Each action is such a step.                                              *)

\* Running statements that are such steps.
LEMMA RunSteps ==
    ASSUME NEW results, \A r \in results : StoreStep(db, r.db), Run(results)
    PROVE  StoreStep(db, db')
BY DEF Run

\* Every step of the program is a step of the store or none.
LEMMA EveryStep ==
    ASSUME IInv, [Next]_vars
    PROVE  StoreStep(db, db')
<1>1. Sound(db)
  BY DEF IInv, TypeOK, EngineInv, Sound
<1>2. /\ \A r \in SqlCommit(db) : StoreStep(db, r.db)
      /\ \A r \in SqlRollback(db) : StoreStep(db, r.db)
      /\ \A r \in {Ok(db)} : StoreStep(db, r.db)
  BY <1>1, CommitSteps, RollbackSteps, StutterSteps DEF StoreStep, Ok
<1>3. \A n : /\ \A r \in SqlSavepoint(db, n) : StoreStep(db, r.db)
             /\ \A r \in SqlRelease(db, n) : StoreStep(db, r.db)
             /\ \A r \in SqlRollbackTo(db, n) : StoreStep(db, r.db)
             /\ \A r \in SavepointCommit(db, n) : StoreStep(db, r.db)
             /\ \A r \in SavepointRollback(db, n) : StoreStep(db, r.db)
  BY <1>1, SavepointSteps, ReleaseSteps, RollbackToSteps, ReturnSteps DEF StoreStep
<1>4. \A b : \A r \in SqlBegin(db, b) : StoreStep(db, r.db)
  BY <1>1, BeginSteps
<1>5. CASE db' = db
  BY <1>5, StutterSteps
<1>6. CASE \E b : Run(SqlBegin(db, b))
  BY <1>4, <1>6, RunSteps
<1>7. CASE Run(SqlCommit(db)) \/ Run(SqlRollback(db)) \/ Run({Ok(db)})
  BY <1>2, <1>7, RunSteps
<1>8. CASE \E n : \/ Run(SqlSavepoint(db, n)) \/ Run(SqlRelease(db, n))
                  \/ Run(SqlRollbackTo(db, n))
                  \/ Run(SavepointCommit(db, n)) \/ Run(SavepointRollback(db, n))
  BY <1>3, <1>8, RunSteps
<1>9. CASE \E w \in Writes : Run(SqlInsert(db, w))
  BY <1>1, <1>9, InsertSteps, RunSteps
<1>10. ASSUME NEW t \in Handles, finalize(t) PROVE StoreStep(db, db')
  <2>1. \A r \in CommitElseRollback(db) : StoreStep(db, r.db)
    BY <1>1, CommitElseRollbackSteps
  <2>2. QED
    BY <1>2, <1>5, <1>10, <2>1 DEF finalize
<1>11. CASE Restarted
  <2>1. CASE db.autocommit
    BY <1>1, <1>5, <1>11, <2>1 DEF Restarted, Sound, EngineOK
  <2>2. CASE ~ db.autocommit
    BY <1>11, <2>2, IdleAborts DEF Restarted, StoreStep
  <2>3. QED
    BY <2>1, <2>2
<1>12. ASSUME NEW t \in Handles, commit(t) \/ rollback(t) \/ dispose(t)
       PROVE  StoreStep(db, db')
  BY <1>5, <1>7, <1>12 DEF commit, rollback, dispose, Finish, AlreadyFinished
<1>13. ASSUME execute_batch PROVE StoreStep(db, db')
  BY <1>6, <1>7, <1>8, <1>13 DEF execute_batch
<1>14. ASSUME NEW threw \in BOOLEAN, SavepointReturn(threw) PROVE StoreStep(db, db')
  BY <1>8, <1>14 DEF SavepointReturn
<1>15. ASSUME NEW t \in Handles, NEW option, NEW drop, transaction(t, option, drop)
       PROVE  StoreStep(db, db')
  BY <1>6, <1>15 DEF transaction
<1>16. ASSUME NEW n \in Names, savepoint_with_name(n) PROVE StoreStep(db, db')
  BY <1>8, <1>16 DEF savepoint_with_name
<1>17. ASSUME NEW w \in Writes, NEW via, execute(w, via) PROVE StoreStep(db, db')
  BY <1>9, <1>17 DEF execute
<1>18. ASSUME \/ \E t \in Handles, drop \in Drops : set_drop_behavior(t, drop)
              \/ \E b \in Defaults : set_transaction_behavior(b)
              \/ UNCHANGED vars
       PROVE  StoreStep(db, db')
  BY <1>5, <1>18 DEF set_drop_behavior, set_transaction_behavior, vars
<1>19. QED
  BY <1>10, <1>11, <1>12, <1>13, <1>14, <1>15, <1>16, <1>17, <1>18
     DEF Next, Restart, finalize_panic

\* The steps are those of AtomicStore.
LEMMA StepRefines ==
    ASSUME IInv, IInv', StoreStep(db, db')
    PROVE  [Store!ANext]_(Store!avars)
<1>1. db.autocommit \in BOOLEAN /\ db'.autocommit \in BOOLEAN
  BY DEF IInv, TypeOK, Db
<1>2. CASE Alike(db, db')
  BY <1>2 DEF Alike, Store!avars
<1>3. CASE Begins(db, db')
  <2>1. Store!Begin
    BY <1>3 DEF Begins, Store!Begin
  <2>2. QED
    BY <2>1 DEF Store!ANext
<1>4. CASE Adds(db, db')
  <2>1. PICK w \in Writes :
          /\ db'.view = db.view \cup {w} /\ db'.autocommit = db.autocommit
          /\ \/ ~ db.autocommit /\ db'.disk = db.disk
             \/ db.autocommit /\ w \notin BadWrites /\ db'.disk = db.disk \cup {w}
    BY <1>4 DEF Adds
  <2>2. Store!Insert(w) \/ Store!InsertAndCommit(w)
    BY <2>1 DEF Store!Insert, Store!InsertAndCommit
  <2>3. QED
    BY <2>2 DEF Store!ANext
<1>5. CASE Undoes(db, db')
  <2>1. Store!Undo(db'.view) /\ db'.view \in SUBSET db.view
    BY <1>5 DEF Undoes, Store!Undo
  <2>2. QED
    BY <2>1 DEF Store!ANext
<1>6. CASE Commits(db, db')
  <2>1. Store!Commit
    BY <1>6 DEF Commits, Store!Commit
  <2>2. QED
    BY <2>1 DEF Store!ANext
<1>7. CASE Aborts(db, db')
  <2>1. Store!Abort
    BY <1>7 DEF Aborts, Store!Abort
  <2>2. QED
    BY <2>1 DEF Store!ANext
<1>8. QED
  BY <1>2, <1>3, <1>4, <1>5, <1>6, <1>7 DEF StoreStep, TakesBack

----------------------------------------------------------------------------
\* The connection implements AtomicStore for every program and every fault:
\* a call made of several statements, some of which fail, or one cut short by
\* the end of the process, is one atomic step of the store or none.
THEOREM Implements == Spec => ImplementsStore
<1>1. Init => Store!AInit
  BY DEF Init, Idle, Store!AInit
<1>2. IInv /\ [Next]_vars => [Store!ANext]_(Store!avars)
  BY StepKeeps, EveryStep, StepRefines
<1>3. QED
  BY <1>1, <1>2, Invariance, PTL DEF Spec, ImplementsStore, Store!ASpec
=============================================================================
