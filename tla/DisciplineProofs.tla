--------------------------- MODULE DisciplineProofs ---------------------------
(***************************************************************************)
(* Theorems about NodeTransaction for disciplined programs: they send no    *)
(* transaction SQL as text, and nothing fails but locks and constraints.    *)
(* Savepoint callbacks may do whatever they want.                           *)
(***************************************************************************)
EXTENDS NodeTransactionProofs

Disciplined == ~ RawSql /\ Faults \subseteq {"busy"}

\* In a transaction that BEGIN opened, which a handle stands for.
Inside(d) == ~ d.autocommit /\ ~ d.root

\* The savepoints are those of the innermost calls in `fs': a savepoint call
\* that is still running in the transaction has its own, and nobody else has.
Aligned(d, fs) ==
    /\ Len(d.savepoints) <= Len(fs)
    /\ \A i \in 1..Len(d.savepoints) :
          LET f == fs[Len(fs) - Len(d.savepoints) + i]
          IN  d.savepoints[i] = [name |-> f.name, saved |-> f.entry]

\* What a handle's user may rely on.
HandleOK(t) ==
    /\ handle[t].state = "unborn" =>
          ~ handle[t].finished /\ told[t] = "open" /\ acked[t] = {}
    /\ Open(t) =>
          owner = t /\ Inside(db) /\ told[t] = "open" /\ acked[t] \subseteq db.view
    /\ owner = t => Inside(db) /\ (Open(t) \/ told[t] = "ignored")
    /\ told[t] # "committed" =>
          /\ acked[t] \cap db.disk = {}
          /\ owner # t => acked[t] \cap db.view = {}
    /\ told[t] = "committed" => acked[t] \subseteq db.disk
    /\ acked[t] \subseteq used

DInv ==
    /\ IInv
    /\ db.view \subseteq used
    /\ db.autocommit => owner = Nobody
    /\ Inside(db) => Aligned(db, frames)
    /\ \A t \in Handles : HandleOK(t)

(***************************************************************************)
(* The statements, when nothing fails but locks and constraints.            *)
(***************************************************************************)

\* A statement that neither adds a row but those of W, nor makes a transaction
\* one that a handle stands for; inside one it stays, and commits nothing.
Stays(d, e, W) ==
    /\ e.view \subseteq d.view \cup W
    /\ ~ Inside(d) => ~ Inside(e)
    /\ Inside(d) => Inside(e) /\ e.disk = d.disk

\* Two such statements in a row are one.
LEMMA StaysTrans ==
    ASSUME NEW d, NEW e, NEW f, Stays(d, e, {}), Stays(e, f, {})
    PROVE  Stays(d, f, {})
BY DEF Stays

\* SAVEPOINT.
LEMMA SavepointStays ==
    ASSUME NEW d, Sound(d), NEW n \in Names, NEW r \in SqlSavepoint(d, n)
    PROVE  /\ Stays(d, r.db, {}) /\ r.db.view = d.view /\ r.ok
           /\ r.db.savepoints = Append(d.savepoints, [name |-> n, saved |-> d.view])
  <1>1. /\ r.db = [d EXCEPT !.autocommit = FALSE, !.root = d.root \/ d.autocommit,
                            !.savepoints = Append(@, [name |-> n, saved |-> d.view])]
        /\ r.ok = TRUE
    BY DEF SqlSavepoint, Ok
  <1>2. d \in Db
    BY DEF Sound
  <1>3. /\ r.db.view = d.view /\ r.db.disk = d.disk /\ r.db.autocommit = FALSE
        /\ r.db.root = (d.root \/ d.autocommit)
        /\ r.db.savepoints = Append(d.savepoints, [name |-> n, saved |-> d.view])
    BY <1>1, <1>2 DEF Db
  <1>4. CASE d.autocommit
    <2>1. r.db.root
      BY <1>3, <1>4
    <2>2. QED  BY <1>1, <1>3, <1>4, <2>1 DEF Stays, Inside
  <1>5. CASE ~ d.autocommit
    <2>1. r.db.root <=> d.root
      BY <1>2, <1>3, <1>5 DEF Db
    <2>2. QED  BY <1>1, <1>3, <1>5, <2>1 DEF Stays, Inside
  <1>6. QED  BY <1>4, <1>5

\* An INSERT, which adds its row or not.
LEMMA InsertStays ==
    ASSUME Disciplined, NEW d, Sound(d), NEW w \in Writes, NEW r \in SqlInsert(d, w)
    PROVE  /\ Stays(d, r.db, {w}) /\ r.ok \in BOOLEAN
           /\ ~ d.autocommit =>
                 /\ r.db.autocommit = d.autocommit /\ r.db.root = d.root
                 /\ r.db.savepoints = d.savepoints
                 /\ r.db.view = IF r.ok THEN d.view \cup {w} ELSE d.view
  <1>1. d \in Db
    BY DEF Sound
  <1>2. CASE d.autocommit
    <2>1. r = Err(d) \/ r = Ok(Idle(d.view \cup {w}))
      BY <1>2 DEF SqlInsert
    <2>2. CASE r = Err(d)
      <3>1. r.db = d /\ r.ok = FALSE
        BY <2>2 DEF Err
      <3>2. QED  BY <1>2, <3>1 DEF Stays, Inside
    <2>3. CASE r = Ok(Idle(d.view \cup {w}))
      <3>1. r.db.view = d.view \cup {w} /\ r.db.autocommit = TRUE /\ r.ok = TRUE
        BY <2>3 DEF Ok, Idle
      <3>2. QED  BY <1>2, <3>1 DEF Stays, Inside
    <2>4. QED  BY <2>1, <2>2, <2>3
  <1>3. CASE ~ d.autocommit
    <2>1. \/ r = Ok([d EXCEPT !.view = @ \cup {w}, !.lock = Dirtied(@)])
          \/ \E l \in Locks : r = Err([d EXCEPT !.lock = l])
      <3>1. d.lock \in Locks /\ LockFor(d.lock, "immediate") \in Locks /\ Dirtied(d.lock) \in Locks
        BY <1>1 DEF Db, Locks, LockFor, Dirtied
      <3>2. "special" \notin Faults
        BY DEF Disciplined
      <3>3. QED  BY <1>3, <3>1, <3>2 DEF SqlInsert
    <2>2. CASE r = Ok([d EXCEPT !.view = @ \cup {w}, !.lock = Dirtied(@)])
      <3>1. /\ r.db.view = d.view \cup {w} /\ r.db.disk = d.disk /\ r.ok = TRUE
            /\ r.db.autocommit = d.autocommit /\ r.db.root = d.root
            /\ r.db.savepoints = d.savepoints
        BY <1>1, <2>2 DEF Db, Ok
      <3>2. QED  BY <3>1 DEF Stays, Inside
    <2>3. CASE \E l \in Locks : r = Err([d EXCEPT !.lock = l])
      <3>1. PICK l \in Locks : r = Err([d EXCEPT !.lock = l])
        BY <2>3
      <3>2. /\ r.db.view = d.view /\ r.db.disk = d.disk /\ r.ok = FALSE
            /\ r.db.autocommit = d.autocommit /\ r.db.root = d.root
            /\ r.db.savepoints = d.savepoints
        BY <1>1, <3>1 DEF Db, Err
      <3>3. QED  BY <3>2 DEF Stays, Inside
    <2>4. QED  BY <2>1, <2>2, <2>3
  <1>4. QED  BY <1>2, <1>3

\* A COMMIT writes the view or fails and changes nothing.
LEMMA EndByCommitDoes ==
    ASSUME Disciplined, NEW d, NEW broken, NEW r \in EndByCommit(d, broken)
    PROVE  r = Err(d) \/ r = Ok(Idle(d.view))
  <1>1. "io" \notin Faults
    BY DEF Disciplined
  <1>2. QED  BY <1>1 DEF EndByCommit

\* RELEASE.
LEMMA ReleaseStays ==
    ASSUME Disciplined, NEW d, Sound(d), NEW n, NEW r \in SqlRelease(d, n)
    PROVE  Stays(d, r.db, {})
  <1>1. d \in Db
    BY DEF Sound
  <1>2. CASE r = Err(d)
    BY <1>2 DEF Err, Stays
  <1>3. CASE d.root /\ r = Ok(Idle(d.view))
    BY <1>3 DEF Ok, Idle, Stays, Inside
  <1>4. CASE r = Ok([d EXCEPT !.savepoints = SubSeq(@, 1, Find(d, n) - 1)])
    <2>1. /\ r.db.view = d.view /\ r.db.disk = d.disk
          /\ r.db.autocommit = d.autocommit /\ r.db.root = d.root
      BY <1>1, <1>4 DEF Db, Ok
    <2>2. QED  BY <2>1 DEF Stays, Inside
  <1>5. QED
    BY <1>2, <1>3, <1>4, EndByCommitDoes DEF SqlRelease

\* ROLLBACK TO.
LEMMA RollbackToStays ==
    ASSUME NEW d, Sound(d), NEW n, NEW r \in SqlRollbackTo(d, n)
    PROVE  Stays(d, r.db, {})
  <1>1. d \in Db
    BY DEF Sound
  <1>2. CASE r = Err(d)
    BY <1>2 DEF Err, Stays
  <1>3. CASE /\ Matching(d, n) # {}
             /\ r = Ok([d EXCEPT !.view = d.savepoints[Find(d, n)].saved,
                                 !.savepoints = SubSeq(@, 1, Find(d, n))])
    <2>1. d.savepoints[Find(d, n)].saved \subseteq d.view
      BY <1>3, MatchIsOpen DEF Sound, EngineOK
    <2>2. /\ r.db.view = d.savepoints[Find(d, n)].saved /\ r.db.disk = d.disk
          /\ r.db.autocommit = d.autocommit /\ r.db.root = d.root
      BY <1>1, <1>3 DEF Db, Ok
    <2>3. QED  BY <2>1, <2>2 DEF Stays, Inside
  <1>4. QED  BY <1>2, <1>3 DEF SqlRollbackTo

\* Dropping a savepoint.
LEMMA DropSavepointStays ==
    ASSUME Disciplined, NEW d, Sound(d), NEW n, NEW e \in DropSavepoint(d, n)
    PROVE  Stays(d, e, {})
  <1>1. PICK r \in SqlRollbackTo(d, n) :
          e \in IF r.ok THEN {s.db : s \in SqlRelease(r.db, n)} ELSE {r.db}
    BY DEF DropSavepoint
  <1>2. Stays(d, r.db, {}) /\ Sound(r.db)
    BY RollbackToStays, RollbackToFollows DEF Follows
  <1>3. CASE \E s \in SqlRelease(r.db, n) : e = s.db
    BY <1>2, <1>3, ReleaseStays, StaysTrans
  <1>4. CASE e = r.db
    BY <1>2, <1>4
  <1>5. QED  BY <1>1, <1>3, <1>4

\* The end of a savepoint call.
LEMMA ReturnStays ==
    ASSUME Disciplined, NEW d, Sound(d), NEW n,
           NEW r \in SavepointCommit(d, n) \cup SavepointRollback(d, n)
    PROVE  Stays(d, r.db, {})
  <1>1. CASE r \in SavepointCommit(d, n)
    <2>1. PICK q \in SqlRelease(d, n) :
            r \in IF q.ok THEN {q} ELSE {Err(e) : e \in DropSavepoint(q.db, n)}
      BY <1>1 DEF SavepointCommit
    <2>2. Stays(d, q.db, {}) /\ Sound(q.db)
      BY ReleaseStays, ReleaseFollows DEF Follows
    <2>3. CASE r = q
      BY <2>2, <2>3
    <2>4. CASE \E e \in DropSavepoint(q.db, n) : r = Err(e)
      <3>1. PICK e \in DropSavepoint(q.db, n) : r = Err(e)
        BY <2>4
      <3>2. r.db = e
        BY <3>1 DEF Err
      <3>3. QED  BY <2>2, <3>1, <3>2, DropSavepointStays, StaysTrans
    <2>5. QED  BY <2>1, <2>3, <2>4
  <1>2. CASE r \in SavepointRollback(d, n)
    <2>1. PICK q \in SqlRollbackTo(d, n) :
            \E e \in DropSavepoint(q.db, n) : r = [db |-> e, ok |-> q.ok]
      BY <1>2 DEF SavepointRollback
    <2>2. PICK e \in DropSavepoint(q.db, n) : r = [db |-> e, ok |-> q.ok]
      BY <2>1
    <2>3. r.db = e
      BY <2>2
    <2>4. Stays(d, q.db, {}) /\ Sound(q.db)
      BY RollbackToStays, RollbackToFollows DEF Follows
    <2>5. QED  BY <2>2, <2>3, <2>4, DropSavepointStays, StaysTrans
  <1>3. QED  BY <1>1, <1>2
(***************************************************************************)
(* Savepoint calls.                                                         *)
(***************************************************************************)

\* Releasing the newest savepoint does not end the transaction.
Nested(d) == ~ (d.root /\ Len(d.savepoints) = 1)

\* The name of the innermost call stands for its own savepoint, if that is
\* still there.
LEMMA TopFound ==
    ASSUME NEW d, Sound(d), NEW fs \in Seq(Frame), fs # <<>>,
           Aligned(d, fs), NEW n, n = fs[Len(fs)].name
    PROVE  LET m == Len(d.savepoints) IN
           \/ m = 0 /\ Matching(d, n) = {}
           \/ /\ m \in Nat \ {0} /\ Matching(d, n) # {} /\ Find(d, n) = m
              /\ d.savepoints[m].saved = fs[Len(fs)].entry
  <1> DEFINE m == Len(d.savepoints)
  <1>1. d \in Db /\ m \in Nat
    BY DEF Sound, Db
  <1>2. CASE m = 0
    BY <1>2 DEF Matching
  <1>3. CASE m # 0
    <2>1. Len(fs) \in Nat /\ m \in 1..m /\ Len(fs) - m + m = Len(fs)
      BY <1>1, <1>3
    <2>2. d.savepoints[m] = [name |-> n, saved |-> fs[Len(fs)].entry]
      BY <2>1 DEF Aligned
    <2>3. m \in Matching(d, n)
      BY <2>1, <2>2 DEF Matching
    <2>4. Find(d, n) \in 1..m /\ m <= Find(d, n)
      BY <1>1, <2>3, FindNewest
    <2>5. Find(d, n) = m
      BY <1>1, <2>4
    <2>6. QED  BY <1>1, <1>3, <2>2, <2>3, <2>5
  <1>4. QED  BY <1>2, <1>3

\* So ROLLBACK TO acts on it,
LEMMA TopRollbackTo ==
    ASSUME NEW d, Sound(d), NEW fs \in Seq(Frame), fs # <<>>,
           Aligned(d, fs), NEW n, n = fs[Len(fs)].name
    PROVE  SqlRollbackTo(d, n) = IF Len(d.savepoints) = 0 THEN {Err(d)}
                                 ELSE {Ok([d EXCEPT !.view = fs[Len(fs)].entry])}
  <1> DEFINE m == Len(d.savepoints)
  <1>1. d \in Db /\ d.savepoints \in Seq(Savepoint)
    BY DEF Sound, Db
  <1>2. CASE m = 0 /\ Matching(d, n) = {}
    BY <1>2 DEF SqlRollbackTo
  <1>3. CASE /\ m \in Nat \ {0} /\ Matching(d, n) # {} /\ Find(d, n) = m
             /\ d.savepoints[m].saved = fs[Len(fs)].entry
    <2>1. SubSeq(d.savepoints, 1, m) = d.savepoints
      BY <1>1, <1>3
    <2>2. SqlRollbackTo(d, n) = {Ok([d EXCEPT !.view = d.savepoints[m].saved,
                                              !.savepoints = SubSeq(@, 1, m)])}
      BY <1>3 DEF SqlRollbackTo
    <2>3. [d EXCEPT !.view = fs[Len(fs)].entry, !.savepoints = d.savepoints]
            = [d EXCEPT !.view = fs[Len(fs)].entry]
      BY <1>1 DEF Db
    <2>4. QED  BY <1>3, <2>1, <2>2, <2>3
  <1>4. QED  BY <1>2, <1>3, TopFound

\* and so does RELEASE.
LEMMA AlignedTop ==
    ASSUME NEW d, Sound(d), Nested(d), NEW fs \in Seq(Frame), fs # <<>>,
           Aligned(d, fs), NEW n, n = fs[Len(fs)].name
    PROVE  LET m == Len(d.savepoints) IN
           \/ /\ m = 0
              /\ SqlRelease(d, n) = {Err(d)} /\ SqlRollbackTo(d, n) = {Err(d)}
           \/ /\ m \in Nat \ {0}
              /\ SqlRelease(d, n) = {Ok([d EXCEPT !.savepoints = SubSeq(@, 1, m - 1)])}
              /\ SqlRollbackTo(d, n) = {Ok([d EXCEPT !.view = fs[Len(fs)].entry])}
  <1> DEFINE m == Len(d.savepoints)
  <1>1. CASE m = 0 /\ Matching(d, n) = {}
    BY <1>1, TopRollbackTo DEF SqlRelease
  <1>2. CASE m \in Nat \ {0} /\ Matching(d, n) # {} /\ Find(d, n) = m
    <2>1. SqlRelease(d, n) = {Ok([d EXCEPT !.savepoints = SubSeq(@, 1, m - 1)])}
      BY <1>2 DEF SqlRelease, Nested
    <2>2. QED  BY <1>2, <2>1, TopRollbackTo
  <1>3. QED  BY <1>1, <1>2, TopFound

\* The innermost call returns and its savepoint, if it is still there, goes.
LEMMA AlignedPop ==
    ASSUME NEW d, d.savepoints \in Seq(Savepoint), NEW fs \in Seq(Frame), fs # <<>>,
           Aligned(d, fs), NEW e,
           e.savepoints = IF Len(d.savepoints) = 0 THEN d.savepoints
                          ELSE SubSeq(d.savepoints, 1, Len(d.savepoints) - 1)
    PROVE  Aligned(e, SubSeq(fs, 1, Len(fs) - 1))
  <1> DEFINE m == Len(d.savepoints)
             n == Len(fs)
             gs == SubSeq(fs, 1, Len(fs) - 1)
             p == Len(gs)
             q == Len(e.savepoints)
  <1>1. m \in Nat /\ n \in Nat \ {0} /\ m <= n
    BY DEF Aligned
  <1>2. p = n - 1 /\ \A j \in 1..(n - 1) : gs[j] = fs[j]
    <2>1. \A i \in 1..(n - 1) : fs[i] \in Frame
      OBVIOUS
    <2>2. /\ Len(gs) = IF 1 <= n - 1 THEN n - 1 - 1 + 1 ELSE 0
          /\ \A i \in 1..(n - 1 - 1 + 1) : gs[i] = fs[1 + i - 1]
      BY <1>1, <2>1, SubSeqProperties
    <2> HIDE DEF gs, n
    <2>3. Len(gs) = n - 1 /\ n - 1 - 1 + 1 = n - 1 /\ \A i \in 1..(n - 1) : 1 + i - 1 = i
      BY <1>1, <2>2
    <2>4. QED  BY <2>2, <2>3 DEF p
  <1>3. \A i \in 1..m : LET f == fs[n - m + i]
                        IN  d.savepoints[i] = [name |-> f.name, saved |-> f.entry]
    BY DEF Aligned
  <1>4. CASE m = 0
    <2>1. q = 0
      BY <1>4
    <2> HIDE DEF gs, m, n, p, q
    <2>2. q <= p /\ 1..q = {}
      BY <1>1, <1>2, <2>1
    <2>3. QED  BY <2>2 DEF Aligned, gs, p, q
  <1>5. CASE m # 0
    <2>1. q = m - 1 /\ \A j \in 1..(m - 1) : e.savepoints[j] = d.savepoints[j]
      BY <1>1, <1>5
    <2> HIDE DEF gs, m, n, p, q
    <2>2. q <= p
      BY <1>1, <1>2, <2>1
    <2>3. ASSUME NEW i \in 1..q
          PROVE  LET f == gs[p - q + i]
                 IN  e.savepoints[i] = [name |-> f.name, saved |-> f.entry]
      <3>1. p - q + i = n - m + i /\ n - m + i \in 1..(n - 1)
        BY <1>1, <1>2, <2>1
      <3>2. i \in 1..m /\ i \in 1..(m - 1)
        BY <1>1, <2>1
      <3>3. gs[n - m + i] = fs[n - m + i]
        BY <1>2, <3>1
      <3>4. QED  BY <1>3, <2>1, <3>1, <3>2, <3>3
    <2>4. QED  BY <2>2, <2>3 DEF Aligned, gs, p, q
  <1>6. QED  BY <1>4, <1>5

\* A call begins and its savepoint is the newest.
LEMMA AlignedPush ==
    ASSUME NEW d, d.savepoints \in Seq(Savepoint), NEW fs \in Seq(Frame), Aligned(d, fs),
           NEW e, NEW f \in Frame,
           e.savepoints = Append(d.savepoints, [name |-> f.name, saved |-> f.entry])
    PROVE  Aligned(e, Append(fs, f))
  <1> DEFINE m == Len(d.savepoints)
             n == Len(fs)
             gs == Append(fs, f)
             p == Len(gs)
             q == Len(e.savepoints)
  <1>1. m \in Nat /\ n \in Nat /\ m <= n
    BY DEF Aligned
  <1>2. p = n + 1 /\ gs[n + 1] = f /\ \A j \in 1..n : gs[j] = fs[j]
    OBVIOUS
  <1>3. /\ q = m + 1
        /\ e.savepoints[m + 1] = [name |-> f.name, saved |-> f.entry]
        /\ \A j \in 1..m : e.savepoints[j] = d.savepoints[j]
    OBVIOUS
  <1>4. \A i \in 1..m : LET g == fs[n - m + i]
                        IN  d.savepoints[i] = [name |-> g.name, saved |-> g.entry]
    BY DEF Aligned
  <1> HIDE DEF gs, m, n, p, q
  <1>5. ASSUME NEW i \in 1..q
        PROVE  LET g == gs[p - q + i]
               IN  e.savepoints[i] = [name |-> g.name, saved |-> g.entry]
    <2>1. p - q + i = n - m + i /\ i \in 1..(m + 1)
      BY <1>1, <1>2, <1>3
    <2>2. CASE i = m + 1
      <3>1. n - m + i = n + 1
        BY <1>1, <2>2
      <3>2. QED  BY <1>2, <1>3, <2>1, <2>2, <3>1
    <2>3. CASE i # m + 1
      <3>1. i \in 1..m /\ n - m + i \in 1..n
        BY <1>1, <2>1, <2>3
      <3>2. gs[n - m + i] = fs[n - m + i]
        BY <1>2, <3>1
      <3>3. QED  BY <1>3, <1>4, <2>1, <3>1, <3>2
    <2>4. QED  BY <2>2, <2>3
  <1>6. q <= p
    BY <1>1, <1>2, <1>3
  <1>7. QED  BY <1>5, <1>6 DEF Aligned, gs, p, q

\* The innermost call returns: its savepoint goes, and the rows are those from
\* before the call if it was rolled back, and otherwise the same.
LEMMA NestedReturn ==
    ASSUME NEW d, Sound(d), Nested(d), NEW fs \in Seq(Frame), fs # <<>>,
           Aligned(d, fs), NEW n, n = fs[Len(fs)].name,
           NEW r \in SavepointCommit(d, n) \cup SavepointRollback(d, n)
    PROVE  /\ Aligned(r.db, SubSeq(fs, 1, Len(fs) - 1))
           /\ r \in SavepointCommit(d, n) \/ ~ r.ok => r.db.view = d.view
           /\ r \in SavepointRollback(d, n) /\ r.ok => r.db.view = fs[Len(fs)].entry
           /\ IF Len(d.savepoints) = 0 THEN r.db = d
              ELSE /\ r.db.autocommit = d.autocommit /\ r.db.root = d.root
                   /\ r.db.savepoints = SubSeq(d.savepoints, 1, Len(d.savepoints) - 1)
  <1> DEFINE m == Len(d.savepoints)
             entry == fs[Len(fs)].entry
             gone == SubSeq(d.savepoints, 1, m - 1)
             d1 == [d EXCEPT !.view = entry]
             e0 == [d EXCEPT !.savepoints = gone]
             e1 == [d1 EXCEPT !.savepoints = gone]
  <1>1. d \in Db /\ d.savepoints \in Seq(Savepoint)
    BY DEF Sound, Db
  <1>2. CASE m = 0
    <2>1. SqlRelease(d, n) = {Err(d)} /\ SqlRollbackTo(d, n) = {Err(d)}
      BY <1>2, AlignedTop
    <2>2. Err(d).db = d /\ Err(d).ok = FALSE
      BY DEF Err
    <2>3. DropSavepoint(d, n) = {d}
      BY <2>1, <2>2 DEF DropSavepoint
    <2>4. r.db = d /\ r.ok = FALSE
      <3>1. CASE r \in SavepointCommit(d, n)
        BY <2>1, <2>2, <2>3, <3>1 DEF SavepointCommit
      <3>2. CASE r \in SavepointRollback(d, n)
        <4>1. PICK q \in SqlRollbackTo(d, n) :
                \E e \in DropSavepoint(q.db, n) : r = [db |-> e, ok |-> q.ok]
          BY <3>2 DEF SavepointRollback
        <4>2. q.db = d /\ q.ok = FALSE
          BY <2>1, <2>2, <4>1
        <4>3. r = [db |-> d, ok |-> FALSE]
          BY <2>3, <4>1, <4>2
        <4>4. QED  BY <4>3
      <3>3. QED  BY <3>1, <3>2
    <2>5. Aligned(r.db, SubSeq(fs, 1, Len(fs) - 1))
      BY <1>1, <1>2, <2>4, AlignedPop
    <2>6. QED  BY <1>2, <2>4, <2>5
  <1>3. CASE m # 0
    <2>1. /\ SqlRelease(d, n) = {Ok(e0)}
          /\ SqlRollbackTo(d, n) = {Ok(d1)}
      BY <1>3, AlignedTop
    <2>2. /\ Ok(e0).db = e0 /\ Ok(e0).ok = TRUE
          /\ Ok(d1).db = d1 /\ Ok(d1).ok = TRUE
          /\ Ok(e1).db = e1 /\ Ok(e1).ok = TRUE
      BY DEF Ok
    <2>3. /\ e0.view = d.view /\ e0.savepoints = gone
          /\ e0.autocommit = d.autocommit /\ e0.root = d.root
          /\ d1.view = entry /\ d1.savepoints = d.savepoints
          /\ d1.autocommit = d.autocommit /\ d1.root = d.root
      BY <1>1 DEF Db
    <2>4. Sound(d1)
      <3>1. \A q \in SqlRollbackTo(d, n) : Sound(q.db)
        BY RollbackToFollows DEF Follows
      <3> HIDE DEF d1, e0, e1
      <3>2. QED  BY <2>1, <2>2, <3>1
    <2>5. Nested(d1) /\ Aligned(d1, fs)
      BY <2>3 DEF Nested, Aligned
    <2>6. d1 \in Db
      BY <2>4 DEF Sound
    <2>7. /\ e1.view = entry /\ e1.savepoints = gone
          /\ e1.autocommit = d.autocommit /\ e1.root = d.root
      BY <2>3, <2>6 DEF Db
    <2>8. [d1 EXCEPT !.view = entry] = d1
      BY <2>3, <2>6 DEF Db
    <2>9. /\ Len(d1.savepoints) # 0
          /\ SubSeq(d1.savepoints, 1, Len(d1.savepoints) - 1) = gone
      BY <1>3, <2>3
    <2> HIDE DEF e0, e1, d1, gone, entry
    <2>10. SqlRelease(d1, n) = {Ok(e1)} /\ SqlRollbackTo(d1, n) = {Ok(d1)}
      <3>1. /\ SqlRelease(d1, n) =
                 {Ok([d1 EXCEPT !.savepoints = SubSeq(@, 1, Len(d1.savepoints) - 1)])}
            /\ SqlRollbackTo(d1, n) = {Ok([d1 EXCEPT !.view = entry])}
        BY <2>4, <2>5, <2>9, AlignedTop DEF entry
      <3>2. QED  BY <2>8, <2>9, <3>1 DEF e1
    <2>11. DropSavepoint(d1, n) = {e1}
      BY <2>2, <2>10 DEF DropSavepoint
    <2>12. r \in SavepointCommit(d, n) => r = Ok(e0)
      BY <2>1, <2>2 DEF SavepointCommit
    <2>13. r \in SavepointRollback(d, n) => r.db = e1 /\ r.ok = TRUE
      <3>1. ASSUME r \in SavepointRollback(d, n) PROVE r.db = e1 /\ r.ok = TRUE
        <4>1. PICK q \in SqlRollbackTo(d, n) :
                \E e \in DropSavepoint(q.db, n) : r = [db |-> e, ok |-> q.ok]
          BY <3>1 DEF SavepointRollback
        <4>2. q.db = d1 /\ q.ok = TRUE
          BY <2>1, <2>2, <4>1
        <4>3. r = [db |-> e1, ok |-> TRUE]
          BY <2>11, <4>1, <4>2
        <4>4. QED  BY <4>3
      <3>2. QED  BY <3>1
    <2>14. /\ r.db = e0 \/ r.db = e1
           /\ r.ok = TRUE
           /\ r.db.savepoints = gone
           /\ r.db.autocommit = d.autocommit /\ r.db.root = d.root
      BY <2>2, <2>3, <2>7, <2>12, <2>13
    <2>15. Aligned(r.db, SubSeq(fs, 1, Len(fs) - 1))
      BY <1>1, <1>3, <2>14, AlignedPop DEF gone
    <2>16. r \in SavepointCommit(d, n) => r.db.view = d.view
      BY <2>2, <2>3, <2>12
    <2>17. r \in SavepointRollback(d, n) => r.db.view = entry
      BY <2>7, <2>13
    <2>18. QED  BY <1>3, <2>14, <2>15, <2>16, <2>17 DEF entry, gone
  <1>4. QED  BY <1>2, <1>3
(***************************************************************************)
(* What a step must do to keep DInv.                                        *)
(***************************************************************************)

\* A handle without a transaction, and that gets none, keeps its promises as
\* long as no row appears but new ones.
LEMMA ClosedStays ==
    ASSUME DInv, Kept, NEW W, W \cap used = {}, db'.view \subseteq db.view \cup W,
           used \subseteq used',
           NEW u \in Handles, ~ Open(u), ~ Open(u)', owner # u, owner' # u,
           handle'[u].state = "unborn" => handle[u].state = "unborn",
           handle'[u].finished = handle[u].finished,
           told'[u] = told[u], acked'[u] = acked[u]
    PROVE  HandleOK(u)'
  <1>1. HandleOK(u)
    BY DEF DInv
  <1>2. acked[u] \subseteq used /\ db.disk \subseteq db'.disk /\ db'.disk \subseteq db'.view
    BY <1>1 DEF HandleOK, Kept, Sound, EngineOK
  <1>3. told[u] # "committed" => acked[u] \cap db'.view = {}
    BY <1>1, <1>2 DEF HandleOK
  <1>4. told'[u] # "committed" =>
          acked'[u] \cap db'.disk = {} /\ acked'[u] \cap db'.view = {}
    BY <1>2, <1>3
  <1>5. told'[u] = "committed" => acked'[u] \subseteq db'.disk
    BY <1>1, <1>2 DEF HandleOK
  <1>6. handle'[u].state = "unborn" =>
          ~ handle'[u].finished /\ told'[u] = "open" /\ acked'[u] = {}
    BY <1>1 DEF HandleOK
  <1>7. QED  BY <1>2, <1>4, <1>5, <1>6 DEF HandleOK

\* The handle whose transaction is open keeps its promises through statements
\* that stay in the transaction, if its rows are still there; one that ignored
\* it need not have them.
LEMMA OwnerStays ==
    ASSUME DInv, Kept, NEW W, W \cap used = {}, used' = used \cup W,
           Stays(db, db', W), KeepOwner,
           NEW t \in Handles, owner = t, handle'[t].state = handle[t].state,
           handle'[t].finished = handle[t].finished, told'[t] = told[t],
           acked'[t] \subseteq acked[t] \cup W, Open(t) => acked'[t] \subseteq db'.view
    PROVE  HandleOK(t)'
  <1>1. HandleOK(t) /\ db.view \subseteq used /\ IInv
    BY DEF DInv
  <1>2. /\ Inside(db) /\ (Open(t) \/ told[t] = "ignored")
        /\ told[t] # "committed" /\ acked[t] \cap db.disk = {}
        /\ acked[t] \subseteq used /\ (Open(t) => told[t] = "open")
    BY <1>1 DEF HandleOK
  <1>3. Inside(db') /\ db'.disk = db.disk /\ owner' = t
    BY <1>2 DEF Stays, KeepOwner, Inside
  <1>4. db.disk \subseteq used
    BY <1>1 DEF IInv, EngineInv, EngineOK
  <1>5. acked'[t] \cap db'.disk = {} /\ acked'[t] \subseteq used'
    BY <1>2, <1>3, <1>4
  <1>6. Open(t)' = Open(t)
    BY DEF Open, Live
  <1>7. handle[t].state # "unborn"
    BY <1>1, <1>2 DEF HandleOK, Open, Live
  <1>8. QED  BY <1>2, <1>3, <1>5, <1>6, <1>7 DEF HandleOK

\* Statements that leave the handles alone.
LEMMA StatementKeeps ==
    ASSUME DInv, IInv', Kept, NEW W, W \cap used = {}, used' = used \cup W,
           Stays(db, db', W), KeepOwner,
           UNCHANGED <<handle, told>>,
           \A t \in Handles : owner # t => acked'[t] = acked[t],
           \A t \in Handles : owner = t => acked'[t] \subseteq acked[t] \cup W,
           \A t \in Handles : Open(t) => acked'[t] \subseteq db'.view,
           Inside(db') => Aligned(db', frames')
    PROVE  DInv'
  <1>1. ASSUME NEW t \in Handles PROVE HandleOK(t)'
    <2>1. CASE owner = t
      BY <2>1, OwnerStays
    <2>2. CASE owner # t
      <3>1. ~ Open(t)
        BY <2>2 DEF DInv, HandleOK
      <3>2. ~ Open(t)' /\ owner' # t
        BY <2>2, <3>1, HandlesAssumption DEF Open, Live, KeepOwner
      <3>3. QED  BY <2>2, <3>1, <3>2, ClosedStays DEF Stays
    <2>3. QED  BY <2>1, <2>2
  <1>2. db'.view \subseteq used'
    BY DEF DInv, Stays
  <1>3. QED  BY <1>1, <1>2 DEF DInv, KeepOwner

\* The step that ends the open handle's transaction.
LEMMA EndKeeps ==
    ASSUME DInv, IInv', Kept, NEW t \in Handles, Open(t), ~ Open(t)',
           handle'[t].state # "unborn",
           \A u \in Handles \ {t} : handle'[u] = handle[u] /\ told'[u] = told[u],
           UNCHANGED <<acked, used, frames>>, KeepOwner,
           \/ told'[t] = "committed" /\ db' = Idle(db.view)
           \/ told'[t] = "rolledback" /\ db' = Idle(db.disk)
           \/ told'[t] = "ignored" /\ db' = db
    PROVE  DInv'
  <1>1. HandleOK(t) /\ db.view \subseteq used /\ db.disk \subseteq db.view
    BY DEF DInv, IInv, EngineInv, EngineOK
  <1>2. owner = t /\ Inside(db) /\ acked[t] \subseteq db.view
        /\ acked[t] \cap db.disk = {} /\ acked[t] \subseteq used
    BY <1>1 DEF HandleOK
  <1>3. db'.view \subseteq db.view /\ (Inside(db') => db' = db)
    BY <1>1 DEF Idle, Inside
  <1>4. HandleOK(t)'
    <2>1. CASE told'[t] = "committed" /\ db' = Idle(db.view)
      <3>1. owner' = Nobody /\ Nobody # t
        BY <2>1, HandlesAssumption DEF KeepOwner, Idle
      <3>2. QED  BY <1>2, <2>1, <3>1 DEF HandleOK, Idle
    <2>2. CASE told'[t] = "rolledback" /\ db' = Idle(db.disk)
      <3>1. owner' = Nobody /\ Nobody # t
        BY <2>2, HandlesAssumption DEF KeepOwner, Idle
      <3>2. QED  BY <1>2, <2>2, <3>1 DEF HandleOK, Idle
    <2>3. CASE told'[t] = "ignored" /\ db' = db
      <3>1. owner' = t /\ Inside(db')
        BY <1>2, <2>3 DEF KeepOwner, Inside
      <3>2. QED  BY <1>2, <2>3, <3>1 DEF HandleOK
    <2>4. QED  BY <2>1, <2>2, <2>3
  <1>5. ASSUME NEW u \in Handles, u # t PROVE HandleOK(u)'
    <2>1. ~ Open(u)
      BY <1>2, <1>5 DEF DInv, HandleOK
    <2>2. handle'[u] = handle[u] /\ told'[u] = told[u]
      BY <1>5
    <2>3. ~ Open(u)'
      BY <2>1, <2>2 DEF Open, Live
    <2>4. {} \cap used = {} /\ db'.view \subseteq db.view \cup {}
      BY <1>3
    <2>5. owner # u /\ owner' # u
      BY <1>2, <1>5, HandlesAssumption DEF KeepOwner
    <2>6. QED  BY <2>1, <2>2, <2>3, <2>4, <2>5, ClosedStays
  <1>6. Inside(db') => Aligned(db', frames')
    BY <1>3 DEF DInv
  <1>7. db'.view \subseteq used' /\ (db'.autocommit => owner' = Nobody)
    BY <1>1, <1>3 DEF KeepOwner
  <1>8. QED  BY <1>4, <1>5, <1>6, <1>7 DEF DInv

\* Nothing happens that DInv looks at.
LEMMA NothingKeeps ==
    ASSUME DInv, IInv', UNCHANGED <<db, frames, used, owner, acked, told>>,
           \A u \in Handles : /\ handle'[u].state = handle[u].state
                              /\ handle'[u].finished = handle[u].finished
    PROVE  DInv'
  <1>1. ASSUME NEW u \in Handles PROVE HandleOK(u)'
    <2>1. HandleOK(u) /\ Open(u)' = Open(u)
      BY DEF DInv, Open, Live
    <2>2. QED  BY <2>1 DEF HandleOK
  <1>2. QED  BY <1>1 DEF DInv
(***************************************************************************)
(* One lemma per action.                                                    *)
(***************************************************************************)

\* BEGIN succeeds outside a transaction only, and changes no rows.
LEMMA BeginDoes ==
    ASSUME NEW d, Sound(d), NEW b, NEW r \in SqlBegin(d, b)
    PROVE  /\ r.db.view = d.view /\ r.db.disk = d.disk
           /\ r.db.root = d.root /\ r.db.savepoints = d.savepoints
           /\ \/ r.ok = TRUE /\ d.autocommit /\ r.db.autocommit = FALSE
              \/ r.ok = FALSE /\ r.db.autocommit = d.autocommit
  <1> DEFINE locked == [d EXCEPT !.lock = LockFor(d.lock, b)]
  <1>1. d \in Db
    BY DEF Sound
  <1>2. \/ d.autocommit /\ r = Ok([locked EXCEPT !.autocommit = FALSE])
        \/ r = Err(locked)
        \/ r = Err(d)
    BY DEF SqlBegin
  <1>3. CASE d.autocommit /\ r = Ok([locked EXCEPT !.autocommit = FALSE])
    BY <1>1, <1>3 DEF Ok, Db
  <1>4. CASE r = Err(locked)
    BY <1>1, <1>4 DEF Err, Db
  <1>5. CASE r = Err(d)
    BY <1>5 DEF Err
  <1>6. QED  BY <1>2, <1>3, <1>4, <1>5

\* A transaction() that throws changes nothing a handle's user sees.
LEMMA transactionThrows ==
    ASSUME DInv, IInv', Kept, NEW t \in Handles, NEW option, NEW drop,
           transaction(t, option, drop), result' # "return"
    PROVE  DInv'
  <1>1. Sound(db)
    BY DEF DInv, IInv, TypeOK, EngineInv, Sound
  <1>2. PICK r \in SqlBegin(db, IF option = "default" THEN "deferred" ELSE option) :
          db' = r.db /\ Returned(r)
    BY DEF transaction, Run
  <1>3. r.ok # TRUE
    BY <1>2 DEF Returned
  <1>4. /\ db'.view = db.view /\ db'.disk = db.disk /\ db'.root = db.root
        /\ db'.savepoints = db.savepoints /\ db'.autocommit = db.autocommit
    BY <1>1, <1>2, <1>3, BeginDoes
  <1>5. UNCHANGED <<handle, owner, frames, used, acked, told>>
    BY DEF transaction
  <1>6. ASSUME NEW u \in Handles PROVE HandleOK(u)'
    <2>1. HandleOK(u) /\ Open(u)' = Open(u) /\ Inside(db') = Inside(db)
      BY <1>4, <1>5 DEF DInv, Open, Live, Inside
    <2>2. QED  BY <1>4, <1>5, <2>1 DEF HandleOK
  <1>7. Inside(db') => Aligned(db', frames')
    BY <1>4, <1>5 DEF DInv, Inside, Aligned
  <1>8. QED  BY <1>4, <1>5, <1>6, <1>7 DEF DInv

\* One that returns makes the handle the owner of a transaction without
\* savepoints.
LEMMA transactionReturns ==
    ASSUME DInv, IInv', Kept, NEW t \in Handles, NEW option, NEW drop,
           transaction(t, option, drop), result' = "return"
    PROVE  DInv'
  <1>1. Sound(db) /\ TypeOK
    BY DEF DInv, IInv, TypeOK, EngineInv, Sound
  <1>2. PICK r \in SqlBegin(db, IF option = "default" THEN "deferred" ELSE option) :
          db' = r.db /\ Returned(r)
    BY DEF transaction, Run
  <1>3. r.ok # FALSE
    BY <1>2 DEF Returned
  <1>4. /\ db'.view = db.view /\ db'.root = db.root
        /\ db'.savepoints = db.savepoints
        /\ db.autocommit /\ db'.autocommit = FALSE
    <2>1. /\ r.db.view = db.view /\ r.db.root = db.root
          /\ r.db.savepoints = db.savepoints
          /\ \/ r.ok = TRUE /\ db.autocommit /\ r.db.autocommit = FALSE
             \/ r.ok = FALSE /\ r.db.autocommit = db.autocommit
      BY <1>1, <1>2, BeginDoes
    <2>2. db.autocommit /\ r.db.autocommit = FALSE
      BY <1>3, <2>1, Zenon
    <2>3. db' = r.db
      BY <1>2
    <2>4. QED  BY <2>1, <2>2, <2>3
  <1>5. db.root = FALSE /\ db.savepoints = <<>>
    BY <1>1, <1>4 DEF Sound, EngineOK, Idle
  <1>6. Inside(db') /\ Aligned(db', frames')
    <2>1. frames' = frames /\ frames \in Seq(Frame)
      BY <1>1 DEF transaction, TypeOK
    <2>2. Len(frames') \in Nat /\ Len(db'.savepoints) = 0
      BY <1>4, <1>5, <2>1
    <2>3. Len(db'.savepoints) <= Len(frames') /\ 1..Len(db'.savepoints) = {}
      BY <2>2
    <2>4. QED  BY <1>4, <1>5, <2>3 DEF Inside, Aligned
  <1>7. /\ owner' = t /\ UNCHANGED <<frames, used, acked, told>>
        /\ handle' = [handle EXCEPT ![t] = [state |-> "live", finished |-> FALSE,
                                            drop_behavior |-> DropOf(drop)]]
        /\ handle[t].state = "unborn"
    BY DEF transaction
  <1>8. handle'[t].state = "live" /\ handle'[t].finished = FALSE
    BY <1>1, <1>7 DEF TypeOK
  <1>9. HandleOK(t)'
    <2>1. HandleOK(t)
      BY DEF DInv
    <2>2. told[t] = "open" /\ acked[t] = {}
      BY <1>7, <2>1 DEF HandleOK
    <2>3. Open(t)'
      BY <1>8 DEF Open, Live
    <2>4. owner' = t /\ told'[t] = "open" /\ acked'[t] = {}
      BY <1>7, <2>2
    <2>5. QED  BY <1>6, <1>8, <2>3, <2>4 DEF HandleOK, Inside
  <1>10. ASSUME NEW u \in Handles, u # t PROVE HandleOK(u)'
    <2>1. handle'[u] = handle[u]
      BY <1>1, <1>7, <1>10 DEF TypeOK
    <2>2. ~ Open(u)
      BY <1>4 DEF DInv, HandleOK, Inside
    <2>3. ~ Open(u)'
      BY <2>1, <2>2 DEF Open, Live
    <2>4. {} \cap used = {} /\ db'.view \subseteq db.view \cup {}
      BY <1>4
    <2>5. owner # u /\ owner' # u
      BY <1>4, <1>7, <1>10, HandlesAssumption DEF DInv
    <2>6. QED  BY <1>7, <2>1, <2>2, <2>3, <2>4, <2>5, ClosedStays
  <1>11. QED  BY <1>4, <1>6, <1>7, <1>9, <1>10 DEF DInv

\* COMMIT and ROLLBACK, without I/O errors.
LEMMA EndsDo ==
    ASSUME Disciplined, NEW d
    PROVE  /\ \A r \in SqlCommit(d) : r = Err(d) \/ r = Ok(Idle(d.view))
           /\ \A r \in SqlRollback(d) : r = Err(d) \/ r = Ok(Idle(d.disk))
           /\ ~ d.autocommit => SqlRollback(d) = {Ok(Idle(d.disk))}
  <1>1. \A r \in SqlCommit(d) : r = Err(d) \/ r = Ok(Idle(d.view))
    BY EndByCommitDoes DEF SqlCommit
  <1>2. QED  BY <1>1 DEF SqlRollback

\* commit(), rollback() or dispose() on an open handle.
LEMMA FinishOk ==
    ASSUME DInv, IInv', Kept, NEW t \in Handles, Open(t), NEW results, NEW fate,
           Finish(t, results, fate), UNCHANGED <<frames, used, acked>>,
           \/ fate = "committed" /\ \A r \in results : r = Err(db) \/ r = Ok(Idle(db.view))
           \/ fate = "rolledback" /\ \A r \in results : r = Err(db) \/ r = Ok(Idle(db.disk))
           \/ fate = "ignored" /\ results = {Ok(db)}
    PROVE  DInv'
  <1>1. PICK r \in results : db' = r.db /\ Returned(r)
    BY DEF Finish, Run
  <1>2. TypeOK /\ KeepOwner
    BY DEF DInv, IInv, Finish
  <1>3. CASE result' # "return"
    <2>1. r # Ok(Idle(db.view)) /\ r # Ok(Idle(db.disk)) /\ r # Ok(db)
      BY <1>1, <1>3 DEF Returned, Ok
    <2>2. r = Err(db)
      BY <2>1
    <2>3. db' = db
      BY <1>1, <2>2 DEF Err
    <2>4. UNCHANGED <<handle, told>> /\ owner' = owner
      BY <1>2, <1>3, <2>3 DEF Finish, KeepOwner, DInv
    <2>5. QED  BY <2>3, <2>4, NothingKeeps
  <1>4. CASE result' = "return"
    <2>1. r # Err(db)
      BY <1>1, <1>4 DEF Returned, Err
    <2>2. /\ Ok(Idle(db.view)).db = Idle(db.view)
          /\ Ok(Idle(db.disk)).db = Idle(db.disk)
          /\ Ok(db).db = db
      BY DEF Ok
    <2>3. /\ handle' = [handle EXCEPT ![t].finished = TRUE]
          /\ told' = [told EXCEPT ![t] = fate]
      BY <1>4 DEF Finish
    <2>4. /\ handle'[t].finished = TRUE /\ handle'[t].state = handle[t].state
          /\ told'[t] = fate
          /\ \A u \in Handles \ {t} : handle'[u] = handle[u] /\ told'[u] = told[u]
      BY <1>2, <2>3 DEF TypeOK, Handle
    <2>5. ~ Open(t)' /\ handle'[t].state # "unborn"
      BY <2>4 DEF Open, Live
    <2>6. \/ told'[t] = "committed" /\ db' = Idle(db.view)
          \/ told'[t] = "rolledback" /\ db' = Idle(db.disk)
          \/ told'[t] = "ignored" /\ db' = db
      BY <1>1, <2>1, <2>2, <2>4
    <2>7. QED  BY <1>2, <2>4, <2>5, <2>6, EndKeeps
  <1>5. QED  BY <1>3, <1>4

\* The three calls that end a transaction.
LEMMA EndCallsKeep ==
    ASSUME Disciplined, DInv, IInv', Kept, NEW t \in Handles,
           commit(t) \/ rollback(t) \/ dispose(t)
    PROVE  DInv'
  <1>1. Live(t) /\ UNCHANGED <<frames, used, acked>>
    BY DEF commit, rollback, dispose
  <1>2. \/ UNCHANGED <<db, handle, owner, told>>
        \/ ~ handle[t].finished /\ Finish(t, SqlCommit(db), "committed")
        \/ ~ handle[t].finished /\ Finish(t, SqlRollback(db), "rolledback")
        \/ ~ handle[t].finished /\ Finish(t, {Ok(db)}, "ignored")
    BY DEF commit, rollback, dispose, AlreadyFinished, Open
  <1>3. CASE UNCHANGED <<db, handle, owner, told>>
    BY <1>1, <1>3, NothingKeeps
  <1>4. CASE ~ handle[t].finished /\ Finish(t, SqlCommit(db), "committed")
    BY <1>1, <1>4, EndsDo, FinishOk DEF Open
  <1>5. CASE ~ handle[t].finished /\ Finish(t, SqlRollback(db), "rolledback")
    BY <1>1, <1>5, EndsDo, FinishOk DEF Open
  <1>6. CASE ~ handle[t].finished /\ Finish(t, {Ok(db)}, "ignored")
    BY <1>1, <1>6, FinishOk DEF Open
  <1>7. QED  BY <1>2, <1>3, <1>4, <1>5, <1>6

\* setDropBehavior() and setTransactionBehavior() touch nothing of this.
LEMMA SettersKeep ==
    ASSUME DInv, IInv',
           \/ \E t \in Handles, drop \in Drops : set_drop_behavior(t, drop)
           \/ \E b \in Defaults : set_transaction_behavior(b)
    PROVE  DInv'
  <1>1. UNCHANGED <<db, frames, used, owner, acked, told>>
    BY DEF set_drop_behavior, set_transaction_behavior, history
  <1>2. handle' = handle \/ \E t \in Handles, drop \in Drops :
                               handle' = [handle EXCEPT ![t].drop_behavior = drop]
    BY DEF set_drop_behavior, set_transaction_behavior
  <1>3. \A u \in Handles : /\ handle'[u].state = handle[u].state
                           /\ handle'[u].finished = handle[u].finished
    BY <1>2 DEF DInv, IInv, TypeOK, Handle
  <1>4. QED  BY <1>1, <1>3, NothingKeeps

\* execute(): the new row counts for the handle whose transaction is open, and
\* for an open handle only if it is there.
LEMMA executeStays ==
    ASSUME Disciplined, DInv, IInv', Kept, NEW w \in Writes,
           NEW via \in Handles \cup {Conn}, execute(w, via)
    PROVE  DInv'
  <1>1. Sound(db) /\ TypeOK
    BY DEF DInv, IInv, TypeOK, EngineInv, Sound
  <1>2. PICK r \in SqlInsert(db, w) : db' = r.db /\ Returned(r)
    BY DEF execute, Run
  <1>3. /\ Stays(db, r.db, {w})
        /\ Inside(db) => /\ r.db.savepoints = db.savepoints
                         /\ r.db.view = IF r.ok THEN db.view \cup {w} ELSE db.view
    BY <1>1, <1>2, InsertStays DEF Inside
  <1>4. {w} \cap used = {} /\ used' = used \cup {w}
    BY DEF execute
  <1>5. Inside(db') => Aligned(db', frames')
    <2>1. frames' = frames
      BY DEF execute
    <2>2. Inside(db') => Inside(db)
      BY <1>2, <1>3 DEF Stays
    <2>3. QED  BY <1>2, <1>3, <2>1, <2>2 DEF DInv, Aligned
  <1>6. \/ acked' = acked
        \/ result' = "return" /\ acked' = [acked EXCEPT ![owner] = @ \cup {w}]
    <2>1. via \in Handles /\ Open(via) => owner = via
      BY DEF DInv, HandleOK
    <2>2. QED  BY <2>1 DEF execute
  <1>7. ASSUME NEW t \in Handles
        PROVE  /\ owner # t => acked'[t] = acked[t]
               /\ \/ acked'[t] = acked[t]
                  \/ result' = "return" /\ acked'[t] = acked[t] \cup {w}
    BY <1>1, <1>6 DEF TypeOK
  <1>8. ASSUME NEW t \in Handles, Open(t) PROVE acked'[t] \subseteq db'.view
    <2>1. Inside(db) /\ acked[t] \subseteq db.view
      BY <1>8 DEF DInv, HandleOK
    <2>2. acked'[t] = acked[t] \/ (result' = "return" /\ acked'[t] = acked[t] \cup {w})
      BY <1>7
    <2>3. result' = "return" => r.ok
      BY <1>2 DEF Returned
    <2>4. QED  BY <1>2, <1>3, <2>1, <2>2, <2>3
  <1>9. UNCHANGED <<handle, told>> /\ KeepOwner /\ Stays(db, db', {w})
    BY <1>2, <1>3 DEF execute
  <1>10. /\ \A t \in Handles : owner # t => acked'[t] = acked[t]
         /\ \A t \in Handles : owner = t => acked'[t] \subseteq acked[t] \cup {w}
    BY <1>7
  <1>11. QED  BY <1>4, <1>5, <1>8, <1>9, <1>10, StatementKeeps

\* A savepoint call enters its callback.
LEMMA savepoint_with_nameStays ==
    ASSUME DInv, IInv', Kept, NEW n \in Names, savepoint_with_name(n)
    PROVE  DInv'
  <1> DEFINE f == [name |-> n, entry |-> db.view, outermost |-> db.autocommit]
  <1>1. Sound(db) /\ TypeOK
    BY DEF DInv, IInv, TypeOK, EngineInv, Sound
  <1>2. PICK r \in SqlSavepoint(db, n) : db' = r.db
    BY DEF savepoint_with_name, Run
  <1>3. /\ Stays(db, db', {}) /\ db'.view = db.view
        /\ db'.savepoints = Append(db.savepoints, [name |-> n, saved |-> db.view])
    BY <1>1, <1>2, SavepointStays
  <1>4. Inside(db') => Aligned(db', frames')
    <2>1. f \in Frame /\ f.name = n /\ f.entry = db.view
      BY <1>1 DEF Frame, TypeOK, Db
    <2>2. frames' = Append(frames, f) /\ frames \in Seq(Frame)
          /\ db.savepoints \in Seq(Savepoint)
      BY <1>1 DEF savepoint_with_name, TypeOK, Db
    <2>3. Inside(db') => Aligned(db, frames)
      BY <1>3 DEF Stays, DInv
    <2> HIDE DEF f
    <2>4. QED  BY <1>3, <2>1, <2>2, <2>3, AlignedPush
  <1>5. UNCHANGED <<handle, told, acked, used>> /\ KeepOwner
    BY DEF savepoint_with_name
  <1>6. \A t \in Handles : Open(t) => acked'[t] \subseteq db'.view
    BY <1>3, <1>5 DEF DInv, HandleOK
  <1>7. {} \cap used = {} /\ used' = used \cup {}
    BY <1>5
  <1>8. QED  BY <1>3, <1>4, <1>5, <1>6, <1>7, StatementKeeps

\* It returns, and takes back the rows its user counts as undone.
LEMMA SavepointReturnStays ==
    ASSUME Disciplined, DInv, IInv', Kept, NEW threw \in BOOLEAN, SavepointReturn(threw)
    PROVE  DInv'
  <1> DEFINE n == frames[Len(frames)].name
             entry == frames[Len(frames)].entry
  <1>1. Sound(db) /\ TypeOK /\ frames \in Seq(Frame) /\ frames # <<>>
    BY DEF DInv, IInv, TypeOK, EngineInv, Sound, SavepointReturn
  <1>2. /\ frames' = SubSeq(frames, 1, Len(frames) - 1)
        /\ UNCHANGED <<handle, told, used>> /\ KeepOwner
    BY DEF SavepointReturn
  <1>3. PICK r \in IF threw THEN SavepointRollback(db, n) ELSE SavepointCommit(db, n) :
          db' = r.db /\ Returned(r)
    BY DEF SavepointReturn, Run, TopFrame
  <1>4. /\ r \in SavepointCommit(db, n) \cup SavepointRollback(db, n)
        /\ threw => r \in SavepointRollback(db, n)
        /\ ~ threw => r \in SavepointCommit(db, n)
    BY <1>3
  <1>5. Stays(db, db', {})
    BY <1>1, <1>3, <1>4, ReturnStays
  <1>6. Inside(db) =>
          /\ Aligned(r.db, SubSeq(frames, 1, Len(frames) - 1))
          /\ ~ threw \/ ~ r.ok => r.db.view = db.view
          /\ threw /\ r.ok => r.db.view = entry
    <2>1. Inside(db) => Aligned(db, frames)
      BY DEF DInv
    <2>2. Inside(db) => Nested(db)
      BY DEF Inside, Nested
    <2>3. QED  BY <1>1, <1>4, <2>1, <2>2, NestedReturn
  <1>7. Inside(db') => Aligned(db', frames')
    BY <1>2, <1>3, <1>5, <1>6 DEF Stays
  <1>8. ASSUME NEW t \in Handles
        PROVE  /\ owner # t => acked'[t] = acked[t]
               /\ acked'[t] \subseteq acked[t] \cup {}
    <2>1. owner # t => ~ Open(t)
      BY DEF DInv, HandleOK
    <2>2. QED  BY <1>1, <2>1 DEF SavepointReturn, TypeOK
  <1>9. ASSUME NEW t \in Handles, Open(t)
        PROVE  acked'[t] \subseteq db'.view
    <2>1. Inside(db) /\ acked[t] \subseteq db.view
      BY <1>9 DEF DInv, HandleOK
    <2>2. acked'[t] = IF threw = (result' = "return") THEN acked[t] \cap entry ELSE acked[t]
      BY <1>1, <1>9 DEF SavepointReturn, TypeOK, TopFrame
    <2>3. (result' = "return") <=> r.ok
      BY <1>3 DEF Returned
    <2> HIDE DEF n, entry
    <2>4. CASE threw /\ r.ok
      BY <1>3, <1>6, <2>1, <2>2, <2>3, <2>4
    <2>5. CASE ~ threw \/ ~ r.ok
      <3>1. db'.view = db.view
        BY <1>3, <1>6, <2>1, <2>5
      <3>2. acked'[t] \subseteq acked[t]
        BY <2>2
      <3>3. QED  BY <2>1, <3>1, <3>2
    <2>6. QED  BY <2>4, <2>5
  <1>10. {} \cap used = {} /\ used' = used \cup {}
    BY <1>2
  <1>11. QED  BY <1>2, <1>5, <1>7, <1>8, <1>9, <1>10, StatementKeeps

\* The process ends and starts again.
LEMMA RestartedStays ==
    ASSUME DInv, IInv', Kept, Restarted
    PROVE  DInv'
  <1>1. /\ db'.view = db.disk /\ db'.disk = db.disk /\ db'.autocommit = TRUE
        /\ db.disk \subseteq db.view
    BY DEF Restarted, Idle, DInv, IInv, EngineInv, EngineOK
  <1>2. owner' = Nobody /\ UNCHANGED <<used, acked, told>>
    BY DEF Restarted
  <1>3. ASSUME NEW u \in Handles PROVE HandleOK(u)'
    <2>1. HandleOK(u)
      BY DEF DInv
    <2>2. IF handle[u].state = "unborn" THEN handle'[u] = handle[u]
                                       ELSE handle'[u].state = "freed"
      BY DEF Restarted, DInv, IInv, TypeOK, Handle
    <2>3. ~ Open(u)'
      BY <2>2 DEF Open, Live
    <2>4. owner' # u
      BY <1>2, HandlesAssumption
    <2>5. QED  BY <1>1, <1>2, <2>1, <2>2, <2>3, <2>4 DEF HandleOK
  <1>4. QED  BY <1>1, <1>2, <1>3 DEF DInv, Inside

\* What the finalizer of an open handle does to the transaction.
LEMMA finalizeEnds ==
    ASSUME Disciplined, TypeOK, NEW t \in Handles, ~ handle[t].finished, ~ db.autocommit,
           finalize(t)
    PROVE  \/ told'[t] = "committed" /\ db' = Idle(db.view)
           \/ told'[t] = "rolledback" /\ db' = Idle(db.disk)
           \/ told'[t] = "ignored" /\ db' = db
  <1>1. \A fate : told' = [told EXCEPT ![t] = fate] => told'[t] = fate
    BY DEF TypeOK
  <1>2. SqlRollback(db) = {Ok(Idle(db.disk))}
    BY EndsDo
  <1>3. CASE \E r \in SqlRollback(db) : db' = r.db /\ told' = [told EXCEPT ![t] = "rolledback"]
    <2>1. db' = Ok(Idle(db.disk)).db
      BY <1>2, <1>3
    <2>2. db' = Idle(db.disk)
      BY <2>1 DEF Ok
    <2>3. QED  BY <1>1, <1>3, <2>2
  <1>4. CASE db' = db /\ told' = [told EXCEPT ![t] = "ignored"]
    BY <1>1, <1>4
  <1>5. CASE \E r \in CommitElseRollback(db) :
               /\ db' = r.db
               /\ told' = [told EXCEPT ![t] = IF r.ok THEN "committed" ELSE "rolledback"]
    <2>1. PICK r \in CommitElseRollback(db) :
               /\ db' = r.db
               /\ told' = [told EXCEPT ![t] = IF r.ok THEN "committed" ELSE "rolledback"]
      BY <1>5
    <2>2. PICK q \in SqlCommit(db) :
            r \in IF q.ok THEN {q} ELSE {Err(s.db) : s \in SqlRollback(q.db)}
      BY <2>1 DEF CommitElseRollback
    <2>3. CASE q = Err(db)
      <3>1. q.db = db /\ q.ok = FALSE
        BY <2>3 DEF Err
      <3>2. r = Err(Idle(db.disk))
        BY <1>2, <2>2, <3>1 DEF Ok
      <3>3. r.db = Idle(db.disk) /\ r.ok = FALSE
        BY <3>2 DEF Err
      <3>4. QED  BY <1>1, <2>1, <3>3
    <2>4. CASE q = Ok(Idle(db.view))
      <3>1. r = q /\ r.db = Idle(db.view) /\ r.ok = TRUE
        BY <2>2, <2>4 DEF Ok
      <3>2. QED  BY <1>1, <2>1, <3>1
    <2>5. QED  BY <2>2, <2>3, <2>4, EndsDo
  <1>6. QED  BY <1>3, <1>4, <1>5 DEF finalize

\* The finalizer of a handle.
LEMMA finalizeStays ==
    ASSUME Disciplined, DInv, IInv', Kept, NEW t \in Handles, finalize(t)
    PROVE  DInv'
  <1>1. TypeOK /\ KeepOwner /\ UNCHANGED <<frames, used, acked>>
        /\ handle' = [handle EXCEPT ![t].state = "freed"] /\ Live(t)
    BY DEF finalize, DInv, IInv
  <1>2. /\ handle'[t].state = "freed" /\ handle'[t].finished = handle[t].finished
        /\ \A u \in Handles \ {t} : handle'[u] = handle[u]
    BY <1>1 DEF TypeOK, Handle
  <1>3. ~ Open(t)' /\ handle'[t].state # "unborn"
    BY <1>2 DEF Open, Live
  <1>4. CASE handle[t].finished \/ db.autocommit
    <2>1. db' = db /\ told' = told
      BY <1>4 DEF finalize
    <2>2. owner' = owner
      BY <1>1, <2>1 DEF KeepOwner, DInv
    <2>3. ~ Open(t)
      BY <1>4 DEF DInv, HandleOK, Inside, Open
    <2>4. ASSUME NEW u \in Handles, u # t PROVE HandleOK(u)'
      <3>1. HandleOK(u) /\ Open(u)' = Open(u) /\ handle'[u] = handle[u]
        BY <1>2, <2>4 DEF DInv, Open, Live
      <3>2. QED  BY <1>1, <2>1, <2>2, <3>1 DEF HandleOK
    <2>5. HandleOK(t)'
      <3>1. HandleOK(t)
        BY DEF DInv
      <3>2. QED  BY <1>1, <1>3, <2>1, <2>2, <2>3, <3>1 DEF HandleOK
    <2>6. QED  BY <1>1, <2>1, <2>2, <2>4, <2>5 DEF DInv
  <1>5. CASE ~ handle[t].finished /\ ~ db.autocommit
    <2>1. \A u \in Handles \ {t} : told'[u] = told[u]
      BY <1>1 DEF finalize, TypeOK
    <2>2. \/ told'[t] = "committed" /\ db' = Idle(db.view)
          \/ told'[t] = "rolledback" /\ db' = Idle(db.disk)
          \/ told'[t] = "ignored" /\ db' = db
      BY <1>1, <1>5, finalizeEnds
    <2>3. Open(t)
      BY <1>1, <1>5 DEF Open
    <2>4. QED  BY <1>1, <1>2, <1>3, <2>1, <2>2, <2>3, EndKeeps
  <1>6. QED  BY <1>4, <1>5

\* Every step of a disciplined program keeps DInv.
LEMMA StepStays ==
    ASSUME Disciplined, DInv, [Next]_vars
    PROVE  DInv'
  <1>1. IInv' /\ Kept
    BY StepKeeps DEF DInv
  <1>2. ASSUME NEW t \in Handles, NEW option \in Options,
               NEW drop \in Drops \cup {"default"}, transaction(t, option, drop)
        PROVE  DInv'
    BY <1>1, <1>2, transactionThrows, transactionReturns
  <1>3. ASSUME NEW t \in Handles, commit(t) \/ rollback(t) \/ dispose(t) PROVE DInv'
    BY <1>1, <1>3, EndCallsKeep
  <1>4. ASSUME NEW t \in Handles, NEW drop \in Drops, set_drop_behavior(t, drop)
        PROVE  DInv'
    BY <1>1, <1>4, SettersKeep
  <1>5. ASSUME NEW b \in Defaults, set_transaction_behavior(b) PROVE DInv'
    BY <1>1, <1>5, SettersKeep
  <1>6. ASSUME NEW t \in Handles, finalize(t) PROVE DInv'
    BY <1>1, <1>6, finalizeStays
  <1>7. ASSUME Restarted PROVE DInv'
    BY <1>1, <1>7, RestartedStays
  <1>8. ASSUME NEW w \in Writes, NEW via \in Handles \cup {Conn}, execute(w, via)
        PROVE  DInv'
    BY <1>1, <1>8, executeStays
  <1>9. ASSUME execute_batch PROVE DInv'
    BY <1>9 DEF execute_batch, Disciplined
  <1>10. ASSUME NEW n \in Names, savepoint_with_name(n) PROVE DInv'
    BY <1>1, <1>10, savepoint_with_nameStays
  <1>11. ASSUME NEW threw \in BOOLEAN, SavepointReturn(threw) PROVE DInv'
    BY <1>1, <1>11, SavepointReturnStays
  <1>12. ASSUME UNCHANGED vars PROVE DInv'
    BY <1>1, <1>12, NothingKeeps DEF vars
  <1>13. QED
    BY <1>2, <1>3, <1>4, <1>5, <1>6, <1>7, <1>8, <1>9, <1>10, <1>11, <1>12
       DEF Next, Restart, finalize_panic

\* DInv holds when the connection is opened.
LEMMA InitDInv == Init => DInv
  <1> SUFFICES ASSUME Init PROVE DInv
    OBVIOUS
  <1>1. IInv
    BY InitIInv
  <1>2. db.view = {} /\ db.disk = {} /\ db.autocommit = TRUE /\ owner = Nobody
    BY DEF Init, Idle
  <1>3. ASSUME NEW t \in Handles PROVE HandleOK(t)
    BY <1>2, HandlesAssumption DEF Init, HandleOK, Open, Live
  <1>4. QED  BY <1>1, <1>2, <1>3 DEF DInv, Inside

(***************************************************************************)
(* Savepoint calls made outside any transaction.                            *)
(***************************************************************************)

\* While such a call is running, the transaction it opened is still open and
\* has exactly the savepoints of this call and of those in its callback.
OuterOK ==
    \A i \in 1..Len(frames) :
        frames[i].outermost =>
            /\ ~ db.autocommit /\ db.root /\ Aligned(db, frames)
            /\ Len(db.savepoints) = Len(frames) - i + 1

\* The end of the call: if it throws, the connection and the file are as they
\* were when it began, also when the RELEASE of the dropped savepoint fails.
LEMMA LastFails ==
    ASSUME Disciplined, NEW d, Sound(d), d.root, Len(d.savepoints) = 1,
           NEW fs \in Seq(Frame), fs # <<>>, Aligned(d, fs),
           NEW n, n = fs[Len(fs)].name,
           NEW r \in SavepointCommit(d, n) \cup SavepointRollback(d, n), ~ r.ok
    PROVE  r.db.view = fs[Len(fs)].entry /\ r.db.disk = fs[Len(fs)].entry
  <1> DEFINE entry == fs[Len(fs)].entry
             d1 == [d EXCEPT !.view = entry]
  <1>1. d \in Db /\ Len(d.savepoints) = 1
    BY DEF Sound
  <1>2. Matching(d, n) # {} /\ Find(d, n) = 1 /\ d.savepoints[1].saved = entry
    <2>1. \/ Len(d.savepoints) = 0
          \/ /\ Matching(d, n) # {} /\ Find(d, n) = Len(d.savepoints)
             /\ d.savepoints[Len(d.savepoints)].saved = entry
      BY TopFound
    <2> HIDE DEF entry
    <2>2. QED  BY <1>1, <2>1
  <1>3. entry = d.disk
    BY <1>2 DEF Sound, EngineOK
  <1>4. SqlRollbackTo(d, n) = {Ok(d1)}
    <2>1. SqlRollbackTo(d, n) = IF Len(d.savepoints) = 0 THEN {Err(d)} ELSE {Ok(d1)}
      BY TopRollbackTo
    <2> HIDE DEF d1
    <2>2. QED  BY <1>1, <2>1
  <1>5. /\ d1.view = entry /\ d1.disk = entry
        /\ Ok(d1).db = d1 /\ Ok(d1).ok = TRUE /\ Err(d1).db = d1
        /\ Ok(Idle(entry)).db = Idle(entry)
        /\ Idle(entry).view = entry /\ Idle(entry).disk = entry
    BY <1>1, <1>3 DEF Ok, Err, Idle, Db
  <1>6. d1.root = d.root /\ d1.savepoints = d.savepoints
    BY <1>1 DEF Db
  <1>7. Matching(d1, n) # {} /\ Find(d1, n) = 1
    <2>1. Sound(d1) /\ Aligned(d1, fs)
      <3>1. \A q \in SqlRollbackTo(d, n) : Sound(q.db)
        BY RollbackToFollows DEF Follows
      <3>2. Aligned(d1, fs)
        BY <1>6 DEF Aligned
      <3> HIDE DEF d1
      <3>3. QED  BY <1>4, <1>5, <3>1, <3>2
    <2>2. \/ Len(d1.savepoints) = 0
          \/ Matching(d1, n) # {} /\ Find(d1, n) = Len(d1.savepoints)
      BY <2>1, TopFound
    <2>3. Len(d1.savepoints) = 1
      BY <1>1, <1>6
    <2> HIDE DEF d1
    <2>4. QED  BY <2>2, <2>3
  <1> HIDE DEF d1, entry
  <1>8. ASSUME NEW e \in DropSavepoint(d, n) PROVE e.view = entry /\ e.disk = entry
    <2>1. PICK s \in SqlRelease(d1, n) : e = s.db
      BY <1>4, <1>5 DEF DropSavepoint
    <2>2. s \in EndByCommit(d1, BrokenRelease(d1))
      BY <1>6, <1>7, <2>1 DEF SqlRelease
    <2>3. s = Err(d1) \/ s = Ok(Idle(d1.view))
      BY <2>2, EndByCommitDoes
    <2>4. QED  BY <1>5, <2>1, <2>3
  <1>9. r \notin SavepointRollback(d, n)
    <2>1. SUFFICES ASSUME r \in SavepointRollback(d, n) PROVE FALSE
      OBVIOUS
    <2>2. PICK q \in SqlRollbackTo(d, n) :
            \E e \in DropSavepoint(q.db, n) : r = [db |-> e, ok |-> q.ok]
      BY <2>1 DEF SavepointRollback
    <2>3. q.ok = TRUE
      BY <1>4, <1>5, <2>2
    <2>4. r.ok = q.ok
      BY <2>2
    <2>5. QED  BY <2>3, <2>4
  <1>10. PICK q \in SqlRelease(d, n) :
           r \in IF q.ok THEN {q} ELSE {Err(e) : e \in DropSavepoint(q.db, n)}
    BY <1>9 DEF SavepointCommit
  <1>11. q = Err(d) \/ q = Ok(Idle(d.view))
    <2>1. q \in EndByCommit(d, BrokenRelease(d))
      BY <1>2, <1>10 DEF SqlRelease
    <2>2. QED  BY <2>1, EndByCommitDoes
  <1>12. ~ q.ok /\ q.db = d
    <2>1. CASE q = Err(d)
      BY <2>1 DEF Err
    <2>2. CASE q = Ok(Idle(d.view))
      <3>1. q.ok = TRUE
        BY <2>2 DEF Ok
      <3>2. r = q
        BY <1>10, <3>1
      <3>3. QED  BY <3>1, <3>2
    <2>3. QED  BY <1>11, <2>1, <2>2
  <1>13. PICK e \in DropSavepoint(d, n) : r = Err(e)
    BY <1>10, <1>12
  <1>14. r.db = e
    BY <1>13 DEF Err
  <1>15. QED  BY <1>8, <1>13, <1>14 DEF entry

\* A savepoint call enters its callback.
LEMMA savepoint_with_nameOuter ==
    ASSUME IInv, OuterOK, NEW n \in Names, savepoint_with_name(n)
    PROVE  OuterOK'
  <1> DEFINE f == [name |-> n, entry |-> db.view, outermost |-> db.autocommit]
             m == Len(db.savepoints)
             k == Len(frames)
             p == Len(db'.savepoints)
             q == Len(frames')
  <1>1. /\ Sound(db) /\ frames \in Seq(Frame) /\ db \in Db
        /\ db.savepoints \in Seq(Savepoint) /\ m \in Nat /\ k \in Nat
    BY DEF IInv, TypeOK, EngineInv, Sound, Db
  <1>2. PICK r \in SqlSavepoint(db, n) : db' = r.db
    BY DEF savepoint_with_name, Run
  <1>3. /\ db'.savepoints = Append(db.savepoints, [name |-> n, saved |-> db.view])
        /\ db'.autocommit = FALSE
        /\ db'.root = (db.root \/ db.autocommit)
    <2>1. db' = [db EXCEPT !.autocommit = FALSE, !.root = db.root \/ db.autocommit,
                           !.savepoints = Append(@, [name |-> n, saved |-> db.view])]
      BY <1>2 DEF SqlSavepoint, Ok
    <2>2. QED  BY <1>1, <2>1 DEF Db
  <1>4. frames' = Append(frames, f)
    BY DEF savepoint_with_name
  <1>5. f \in Frame /\ f.name = n /\ f.entry = db.view /\ f.outermost = db.autocommit
    BY <1>1 DEF Frame, Db
  <1> HIDE DEF f
  <1>6. Aligned(db, frames) => Aligned(db', frames')
    BY <1>1, <1>3, <1>4, <1>5, AlignedPush
  <1>7. p = m + 1 /\ q = k + 1 /\ frames'[k + 1] = f /\ \A i \in 1..k : frames'[i] = frames[i]
    BY <1>1, <1>3, <1>4
  <1>8. db.autocommit => db.savepoints = <<>> /\ m = 0
    BY <1>1 DEF Sound, EngineOK, Idle
  <1>9. db.autocommit => Aligned(db, frames)
    <2>1. m = 0 => m <= k /\ 1..m = {}
      BY <1>1
    <2>2. QED  BY <1>8, <2>1 DEF Aligned
  <1> HIDE DEF m, k, p, q
  <1>10. ASSUME NEW i \in 1..q, frames'[i].outermost
         PROVE  ~ db'.autocommit /\ db'.root /\ Aligned(db', frames') /\ p = q - i + 1
    <2>1. i \in 1..k \/ i = k + 1
      BY <1>1, <1>7
    <2>2. CASE i \in 1..k
      <3>1. db.root /\ Aligned(db, frames) /\ m = k - i + 1
        BY <1>7, <1>10, <2>2 DEF OuterOK, m, k
      <3>2. p = q - i + 1
        BY <1>1, <1>7, <2>2, <3>1
      <3>3. db'.root /\ ~ db'.autocommit /\ Aligned(db', frames')
        BY <1>3, <1>6, <3>1
      <3>4. QED  BY <3>2, <3>3
    <2>3. CASE i = k + 1
      <3>1. db.autocommit
        BY <1>5, <1>7, <1>10, <2>3
      <3>2. p = q - i + 1
        BY <1>1, <1>7, <1>8, <2>3, <3>1
      <3>3. QED  BY <1>3, <1>6, <1>9, <3>1, <3>2
    <2>4. QED  BY <2>1, <2>2, <2>3
  <1>11. QED  BY <1>10 DEF OuterOK, p, q

\* A savepoint call ends, an inner one or the outermost.
LEMMA SavepointReturnOuter ==
    ASSUME Disciplined, IInv, OuterOK, NEW threw \in BOOLEAN, SavepointReturn(threw)
    PROVE  /\ OuterOK'
           /\ TopFrame.outermost /\ result' = "throw" =>
                 db'.view = TopFrame.entry /\ db'.disk = TopFrame.entry
  <1> DEFINE n == frames[Len(frames)].name
             m == Len(db.savepoints)
             k == Len(frames)
  <1>1. /\ Sound(db) /\ frames \in Seq(Frame) /\ frames # <<>>
        /\ db.savepoints \in Seq(Savepoint) /\ m \in Nat /\ k \in Nat \ {0}
    BY DEF IInv, TypeOK, EngineInv, Sound, SavepointReturn, Db
  <1>2. PICK r \in SavepointCommit(db, n) \cup SavepointRollback(db, n) :
          db' = r.db /\ Returned(r)
    BY DEF SavepointReturn, Run, TopFrame
  <1>3. frames' = SubSeq(frames, 1, k - 1)
    BY DEF SavepointReturn
  <1>4. Len(frames') = k - 1 /\ \A i \in 1..(k - 1) : frames'[i] = frames[i]
    <2>1. \A i \in 1..(k - 1) : frames[i] \in Frame
      BY <1>1
    <2>2. /\ Len(frames') = IF 1 <= k - 1 THEN k - 1 - 1 + 1 ELSE 0
          /\ \A i \in 1..(k - 1 - 1 + 1) : frames'[i] = frames[1 + i - 1]
      BY <1>1, <1>3, <2>1, SubSeqProperties
    <2> HIDE DEF k
    <2>3. Len(frames') = k - 1 /\ k - 1 - 1 + 1 = k - 1 /\ \A i \in 1..(k - 1) : 1 + i - 1 = i
      BY <1>1, <2>2
    <2>4. QED  BY <2>2, <2>3
  <1>5. ASSUME NEW i \in 1..(k - 1), frames[i].outermost
        PROVE  /\ ~ db'.autocommit /\ db'.root /\ Aligned(db', frames')
               /\ Len(db'.savepoints) = k - 1 - i + 1
    <2>1. i \in 1..k
      BY <1>1
    <2>2. ~ db.autocommit /\ db.root /\ Aligned(db, frames) /\ m = k - i + 1
      BY <1>5, <2>1 DEF OuterOK
    <2>3. m # 1 /\ m # 0
      <3> HIDE DEF k, m
      <3>1. QED  BY <1>1, <1>5, <2>2
    <2>4. Nested(db)
      BY <2>3 DEF Nested
    <2>5. Aligned(db, frames) /\ r \in SavepointCommit(db, n) \cup SavepointRollback(db, n)
      BY <1>2, <2>2
    <2>6. /\ Aligned(r.db, SubSeq(frames, 1, Len(frames) - 1))
          /\ IF m = 0 THEN r.db = db
             ELSE /\ r.db.autocommit = db.autocommit /\ r.db.root = db.root
                  /\ r.db.savepoints = SubSeq(db.savepoints, 1, m - 1)
      BY <1>1, <2>4, <2>5, NestedReturn
    <2>7. /\ Aligned(db', frames') /\ db'.autocommit = db.autocommit /\ db'.root = db.root
          /\ db'.savepoints = SubSeq(db.savepoints, 1, m - 1)
      BY <1>2, <1>3, <2>3, <2>6
    <2> HIDE DEF k
    <2>8. Len(db'.savepoints) = m - 1
      BY <1>1, <2>3, <2>7
    <2>9. QED  BY <1>1, <2>2, <2>7, <2>8
  <1>6. ASSUME frames[k].outermost, result' = "throw"
        PROVE  db'.view = frames[k].entry /\ db'.disk = frames[k].entry
    <2>1. k \in 1..k /\ k - k + 1 = 1
      BY <1>1
    <2>2. db.root /\ Aligned(db, frames) /\ m = 1
      BY <1>6, <2>1 DEF OuterOK
    <2>3. ~ r.ok
      BY <1>2, <1>6 DEF Returned
    <2>4. /\ Aligned(db, frames) /\ db.root /\ Len(db.savepoints) = 1 /\ frames # <<>>
          /\ Sound(db) /\ frames \in Seq(Frame)
          /\ r \in SavepointCommit(db, n) \cup SavepointRollback(db, n)
      BY <1>1, <1>2, <2>2
    <2>5. /\ r.db.view = frames[Len(frames)].entry
          /\ r.db.disk = frames[Len(frames)].entry
      BY <2>3, <2>4, LastFails
    <2>6. QED  BY <1>2, <2>5
  <1>7. OuterOK'
    BY <1>4, <1>5 DEF OuterOK
  <1>8. QED  BY <1>6, <1>7 DEF TopFrame

\* No other step ends the transaction or touches its savepoints.
LEMMA StepOuter ==
    ASSUME Disciplined, DInv, OuterOK, [Next]_vars
    PROVE  /\ OuterOK'
           /\ Len(frames') < Len(frames) /\ TopFrame.outermost /\ result' = "throw" =>
                 db'.view = TopFrame.entry /\ db'.disk = TopFrame.entry
  <1>1. IInv /\ Sound(db) /\ frames \in Seq(Frame) /\ Len(frames) \in Nat
    BY DEF DInv, IInv, TypeOK, EngineInv, Sound
  <1>2. ASSUME frames' = frames,
               db.autocommit \/ ~ db.root \/
               /\ db'.autocommit = db.autocommit /\ db'.root = db.root
               /\ db'.savepoints = db.savepoints
        PROVE  OuterOK' /\ ~ (Len(frames') < Len(frames))
    <2>1. ~ (Len(frames') < Len(frames))
      BY <1>1, <1>2
    <2>2. ASSUME NEW i \in 1..Len(frames), frames[i].outermost
          PROVE  /\ ~ db'.autocommit /\ db'.root /\ Aligned(db', frames')
                 /\ Len(db'.savepoints) = Len(frames) - i + 1
      <3>1. /\ ~ db.autocommit /\ db.root /\ Aligned(db, frames)
            /\ Len(db.savepoints) = Len(frames) - i + 1
        BY <2>2 DEF OuterOK
      <3>2. /\ db'.autocommit = db.autocommit /\ db'.root = db.root
            /\ db'.savepoints = db.savepoints
        BY <1>2, <3>1
      <3>3. Aligned(db', frames')
        BY <1>2, <3>1, <3>2 DEF Aligned
      <3>4. QED  BY <3>1, <3>2, <3>3
    <2>3. QED  BY <1>2, <2>1, <2>2 DEF OuterOK
  <1>3. ASSUME NEW t \in Handles, NEW option, NEW drop, transaction(t, option, drop)
        PROVE  OuterOK' /\ ~ (Len(frames') < Len(frames))
    <2>1. \A b : \A r \in SqlBegin(db, b) :
            /\ r.db.root = db.root /\ r.db.savepoints = db.savepoints
            /\ db.autocommit \/ r.db.autocommit = db.autocommit
      BY <1>1, BeginDoes
    <2>2. QED  BY <1>2, <1>3, <2>1 DEF transaction, Run
  <1>4. ASSUME NEW t \in Handles, commit(t) \/ rollback(t) \/ dispose(t)
        PROVE  OuterOK' /\ ~ (Len(frames') < Len(frames))
    <2>1. db' = db \/ Open(t)
      BY <1>4 DEF commit, rollback, dispose, AlreadyFinished, Open
    <2>2. Open(t) => ~ db.root
      BY DEF DInv, HandleOK, Inside
    <2>3. frames' = frames
      BY <1>4 DEF commit, rollback, dispose
    <2>4. QED  BY <1>2, <2>1, <2>2, <2>3
  <1>5. ASSUME NEW t \in Handles, finalize(t)
        PROVE  OuterOK' /\ ~ (Len(frames') < Len(frames))
    <2>1. Len(frames) = 0 /\ frames' = frames
      BY <1>5 DEF finalize
    <2>2. QED  BY <2>1 DEF OuterOK
  <1>6. ASSUME Restarted PROVE OuterOK' /\ result' = "return"
    <2>1. Len(frames') = 0 /\ result' = "return"
      BY <1>6 DEF Restarted
    <2>2. QED  BY <2>1 DEF OuterOK
  <1>7. ASSUME NEW w \in Writes, NEW via, execute(w, via)
        PROVE  OuterOK' /\ ~ (Len(frames') < Len(frames))
    <2>1. PICK r \in SqlInsert(db, w) : db' = r.db
      BY <1>7 DEF execute, Run
    <2>2. ~ db.autocommit => /\ db'.autocommit = db.autocommit /\ db'.root = db.root
                             /\ db'.savepoints = db.savepoints
      BY <1>1, <2>1, InsertStays
    <2>3. QED  BY <1>2, <1>7, <2>2 DEF execute
  <1>8. ASSUME NEW n \in Names, savepoint_with_name(n)
        PROVE  OuterOK' /\ ~ (Len(frames') < Len(frames))
    <2>1. Len(frames') = Len(frames) + 1
      BY <1>1, <1>8 DEF savepoint_with_name
    <2>2. QED  BY <1>1, <1>8, <2>1, savepoint_with_nameOuter
  <1>9. ASSUME NEW threw \in BOOLEAN, SavepointReturn(threw)
        PROVE  /\ OuterOK'
               /\ TopFrame.outermost /\ result' = "throw" =>
                     db'.view = TopFrame.entry /\ db'.disk = TopFrame.entry
    BY <1>1, <1>9, SavepointReturnOuter
  <1>10. ASSUME \/ \E t \in Handles, drop \in Drops : set_drop_behavior(t, drop)
                \/ \E b \in Defaults : set_transaction_behavior(b)
                \/ UNCHANGED vars
         PROVE  OuterOK' /\ ~ (Len(frames') < Len(frames))
    BY <1>2, <1>10 DEF set_drop_behavior, set_transaction_behavior, vars
  <1>11. ~ execute_batch
    BY DEF execute_batch, Disciplined
  <1>12. QED
    BY <1>3, <1>4, <1>5, <1>6, <1>7, <1>8, <1>9, <1>10, <1>11
       DEF Next, Restart, finalize_panic

(***************************************************************************)
(* The theorems.                                                            *)
(***************************************************************************)

\* DInv is the inductive invariant of disciplined programs.
THEOREM DisciplineInvariance ==
    ASSUME Disciplined PROVE Spec => []DInv
  <1>1. Init => DInv
    BY InitDInv
  <1>2. DInv /\ [Next]_vars => DInv'
    BY StepStays
  <1>3. QED  BY <1>1, <1>2, PTL DEF Spec

\* While a handle is open, the connection is in the transaction its own
\* transaction() began: savepoint callbacks that begin or end transactions,
\* failed commits, drops and finalizers of other handles never put it into
\* another one, so its commit() and rollback() act on its own.
THEOREM OpenOwns ==
    ASSUME Disciplined PROVE Spec => []OpenOwnsTransaction
  <1>1. DInv => OpenOwnsTransaction
    BY DEF DInv, HandleOK, Inside, OpenOwnsTransaction
  <1>2. QED  BY <1>1, DisciplineInvariance, PTL

\* No row that its user was told is in a handle's transaction reaches the file
\* before that handle's commit, nor after its rollback, nor ever when the handle
\* ignored the transaction, through any nesting of savepoint calls, any failed
\* statement and any restart.
THEOREM NothingDurable ==
    ASSUME Disciplined PROVE Spec => []NothingDurableBeforeCommit
  <1>1. DInv => NothingDurableBeforeCommit
    BY DEF DInv, HandleOK, NothingDurableBeforeCommit
  <1>2. QED  BY <1>1, DisciplineInvariance, PTL

\* Once commit(), dispose() or the finalizer committed a handle, every row its
\* user was told is in it is in the file, and stays there.
THEOREM CommitsPersist ==
    ASSUME Disciplined PROVE Spec => []CommitPersists
  <1>1. DInv => CommitPersists
    BY DEF DInv, HandleOK, CommitPersists
  <1>2. QED  BY <1>1, DisciplineInvariance, PTL

\* commit(), rollback(), dispose() and the finalizer of a handle end no
\* transaction but the one the handle began.
THEOREM EndsOwn ==
    ASSUME Disciplined PROVE Spec => HandleEndsOwnTransaction
  <1> DEFINE A == \A t \in Handles : commit(t) \/ rollback(t) \/ dispose(t) \/ finalize(t)
                    => owner \in {t, Nobody} \/ owner' = owner
  <1>1. ASSUME DInv, NEW t \in Handles,
               commit(t) \/ rollback(t) \/ dispose(t) \/ finalize(t)
        PROVE  owner \in {t, Nobody} \/ owner' = owner
    <2>1. CASE Open(t)
      <3>1. HandleOK(t)
        BY <1>1 DEF DInv
      <3>2. QED  BY <2>1, <3>1 DEF HandleOK
    <2>2. CASE ~ Open(t)
      <3>1. handle[t].finished
        BY <1>1, <2>2 DEF commit, rollback, dispose, finalize, Open
      <3>2. owner' = owner \/ (db' = db /\ KeepOwner)
        BY <1>1, <3>1 DEF commit, rollback, dispose, finalize, AlreadyFinished, Open
      <3>3. QED  BY <1>1, <3>2 DEF KeepOwner, DInv
    <2>3. QED  BY <2>1, <2>2
  <1>2. DInv /\ [Next]_vars => [A]_vars
    BY <1>1
  <1>3. QED
    BY <1>2, DisciplineInvariance, PTL DEF Spec, HandleEndsOwnTransaction

\* A savepoint call made outside a transaction that throws has left nothing, in
\* the connection or in the file: whatever its callback and the calls nested in
\* it did, the RELEASE that timed out or met a violated foreign key is followed
\* by a ROLLBACK TO back to the rows of before the call, and what the second
\* RELEASE may commit is those.
THEOREM FailedUndone ==
    ASSUME Disciplined PROVE Spec => FailedSavepointUndone
  <1> DEFINE A == Len(frames') < Len(frames) /\ TopFrame.outermost /\ result' = "throw" =>
                    db'.view = TopFrame.entry /\ db'.disk = TopFrame.entry
  <1>1. Init => OuterOK
    BY DEF Init, OuterOK
  <1>2. DInv /\ OuterOK /\ [Next]_vars => OuterOK' /\ [A]_vars
    BY StepOuter
  <1>3. QED
    BY <1>1, <1>2, DisciplineInvariance, PTL DEF Spec, FailedSavepointUndone
=============================================================================
