------------------------- MODULE UnlockNotifyProofs -------------------------
(* Proofs about UnlockNotify, for all connections, threads, tables and SQL. *)
EXTENDS UnlockNotify, TLAPS

\* The locks of a connection after a step, none of which was lowered.
Raises(k, l) ==
    \A t \in AllTables : l[t] # k[t] => k[t] = "none" \/ l[t] = "write"

\* Two such steps are one.
LEMMA RaisesTrans ==
    ASSUME NEW k, NEW l, NEW m, Raises(k, l), Raises(l, m)
    PROVE  Raises(k, m)
  BY DEF Raises

(***************************************************************************)
(* The table locks.                                                         *)
(***************************************************************************)

\* Ending the transaction of c touches nobody else's.
LEMMA EndType ==
    ASSUME NEW b \in Cache, NEW c \in Conns
    PROVE  /\ EndTransaction(b, c) \in Cache
           /\ EndTransaction(b, c).txn = [b.txn EXCEPT ![c] = "none"]
           /\ \A d \in Conns \ {c} : EndTransaction(b, c).locks[d] = b.locks[d]
  <1>1. CASE b.txn[c] = "none"
    BY <1>1 DEF EndTransaction, Cache
  <1>2. CASE b.txn[c] # "none"
    <2> DEFINE f == EndTransaction(b, c).flags
    <2>1. f \in SUBSET {"pending", "exclusive"}
      BY <1>2 DEF EndTransaction, Cache
    <2>2. QED
      BY <1>2, <2>1 DEF EndTransaction, Cache, LockKinds
  <1>3. QED  BY <1>1, <1>2

\* The locks stay sound when c ends its transaction.
LEMMA EndOK ==
    ASSUME NEW b \in Cache, NEW c \in Conns, CacheOK(b)
    PROVE  CacheOK(EndTransaction(b, c))
  <1>1. CASE b.txn[c] = "none"
    BY <1>1 DEF EndTransaction
  <1>2. CASE b.txn[c] # "none"
    <2> DEFINE e == EndTransaction(b, c)
    <2>1. /\ e \in Cache
          /\ e.txn = [b.txn EXCEPT ![c] = "none"]
          /\ e.locks = [b.locks EXCEPT ![c] = [t \in AllTables |-> "none"]]
          /\ e.writer = IF b.writer = c THEN NoConn ELSE b.writer
          /\ e.flags = IF b.writer = c THEN {}
                       ELSE IF \E d \in Conns \ {c} : Open(b) = {c, d}
                       THEN b.flags \ {"pending"} ELSE b.flags
      BY <1>2, EndType DEF EndTransaction, Cache
    <2> HIDE DEF e
    <2>2. \A d \in Conns : e.txn[d] = (IF d = c THEN "none" ELSE b.txn[d])
      BY <2>1 DEF Cache
    <2>3. \A d \in Conns, t \in AllTables :
              e.locks[d][t] = (IF d = c THEN "none" ELSE b.locks[d][t])
      BY <2>1 DEF Cache
    <2>4. Open(e) = Open(b) \ {c}
      BY <2>2 DEF Open
    <2>5. Schema \in AllTables /\ NoConn \notin Conns
      BY NoConnAssumption DEF AllTables
    <2>6. \A d \in Conns : e.writer = d <=> e.txn[d] = "write"
      <3> SUFFICES ASSUME NEW d \in Conns PROVE e.writer = d <=> e.txn[d] = "write"
        OBVIOUS
      <3>1. CASE d = c
        BY <2>1, <2>2, <2>5, <3>1
      <3>2. CASE d # c
        <4>1. b.writer = d <=> b.txn[d] = "write"
          BY DEF CacheOK
        <4>2. e.txn[d] = b.txn[d]
          BY <2>2, <3>2
        <4>3. QED  BY <2>1, <2>5, <3>2, <4>1, <4>2
      <3>3. QED  BY <3>1, <3>2
    <2>7. e.flags # {} => e.writer # NoConn
      BY <2>1, <2>5 DEF CacheOK
    <2>8. ASSUME "exclusive" \in e.flags PROVE Open(e) = {e.writer}
      <3>1. b.writer # c /\ "exclusive" \in b.flags
        BY <2>1, <2>8
      <3>2. c \in Open(b) /\ Open(b) = {b.writer}
        BY <1>2, <3>1 DEF Open, CacheOK
      <3>3. QED  BY <3>1, <3>2
    <2>9. ASSUME "pending" \in e.flags PROVE Open(e) # {e.writer}
      <3>1. b.writer # c /\ e.writer = b.writer /\ "pending" \in b.flags
        BY <2>1, <2>9
      <3>2. ~ \E d \in Conns \ {c} : Open(b) = {c, d}
        BY <2>1, <2>9
      <3>3. b.writer \in Conns \ {c}
        BY <3>1 DEF CacheOK, Cache
      <3>4. c \in Open(b)
        BY <1>2 DEF Open
      <3>5. ASSUME Open(e) = {b.writer} PROVE FALSE
        <4>1. Open(b) = {c, b.writer}
          BY <3>4, <3>5, <2>4
        <4>2. QED  BY <4>1, <3>2, <3>3
      <3>6. QED  BY <3>1, <3>5
    <2>10. QED
      <3>1. \A x, d \in Conns, t \in AllTables :
              x # d /\ e.locks[x][t] = "write" => e.locks[d][t] = "none"
        BY <2>3 DEF CacheOK
      <3>2. \A x \in Conns :
              /\ e.txn[x] = "none" <=> e.locks[x][Schema] = "none"
              /\ \A t \in AllTables : e.locks[x][t] = "write" => e.writer = x
              /\ e.txn[x] = "none" => \A t \in AllTables : e.locks[x][t] = "none"
        BY <2>1, <2>2, <2>3, <2>5 DEF CacheOK
      <3>3. QED
        BY <2>6, <2>7, <2>8, <2>9, <3>1, <3>2 DEF CacheOK, e
  <1>3. QED  BY <1>1, <1>2

\* Whoever keeps c from a lock is another connection with a transaction.
LEMMA QueryLockBlockers ==
    ASSUME NEW b \in Cache, CacheOK(b), NEW c \in Conns, NEW t \in AllTables,
           NEW kind, NEW d \in QueryLock(b, c, t, kind)
    PROVE  d \in Conns \ {c} /\ b.txn[d] # "none"
  <1>1. CASE "exclusive" \in b.flags /\ b.writer # c
    <2>1. d = b.writer /\ b.writer \in Conns
      BY <1>1 DEF QueryLock, CacheOK, Cache
    <2>2. QED  BY <1>1, <2>1 DEF CacheOK
  <1>2. CASE ~ ("exclusive" \in b.flags /\ b.writer # c)
    BY <1>2 DEF QueryLock, CacheOK
  <1>3. QED  BY <1>1, <1>2

\* Whoever keeps c from beginning is another connection with a transaction.
LEMMA BeginBlockersBlock ==
    ASSUME NEW b \in Cache, CacheOK(b), NEW c \in Conns, NEW kind,
           NEW d \in BeginBlockers(b, c, kind)
    PROVE  d \in Conns \ {c} /\ b.txn[d] # "none"
  <1> Schema \in AllTables
    BY DEF AllTables
  <1>1. ~ Begun(b, c, kind)
    BY DEF BeginBlockers
  <1>2. b.writer # c
    BY <1>1 DEF Begun, CacheOK
  <1>3. CASE "pending" \in b.flags \/ (kind # "read" /\ b.writer # NoConn)
    <2>1. d = b.writer /\ b.writer \in Conns
      BY <1>1, <1>3 DEF BeginBlockers, CacheOK, Cache
    <2>2. QED  BY <1>2, <2>1 DEF CacheOK
  <1>4. CASE ~ ("pending" \in b.flags \/ (kind # "read" /\ b.writer # NoConn))
    <2> DEFINE holders == {x \in Conns \ {c} : \E t \in AllTables : b.locks[x][t] # "none"}
    <2>1. CASE kind = "exclusive" /\ holders # {}
      BY <1>1, <1>4, <2>1 DEF BeginBlockers, CacheOK
    <2>2. CASE ~ (kind = "exclusive" /\ holders # {})
      <3>1. d \in QueryLock(b, c, Schema, "read")
        BY <1>1, <1>4, <2>2 DEF BeginBlockers
      <3>2. QED  BY <3>1, QueryLockBlockers
    <2>3. QED  BY <2>1, <2>2
  <1>5. QED  BY <1>3, <1>4

\* A connection that nobody keeps from beginning begins.
LEMMA BeginType ==
    ASSUME NEW b \in Cache, CacheOK(b), NEW c \in Conns,
           NEW kind \in {"read", "write", "exclusive"}, BeginBlockers(b, c, kind) = {}
    PROVE  LET g == BeginTrans(b, c, kind) IN
           /\ g \in Cache
           /\ g.txn[c] # "none" /\ (kind # "read" => g.txn[c] = "write")
           /\ \A d \in Conns \ {c} : g.txn[d] = b.txn[d] /\ g.locks[d] = b.locks[d]
           /\ Raises(b.locks[c], g.locks[c])
  <1>1. CASE Begun(b, c, kind)
    BY <1>1 DEF BeginTrans, Begun, Cache, Raises
  <1>2. CASE ~ Begun(b, c, kind)
    <2> Schema \in AllTables
      BY DEF AllTables
    <2> DEFINE g == BeginTrans(b, c, kind)
               x == IF kind = "read" THEN "read" ELSE "write"
    <2>1. /\ g.txn = [b.txn EXCEPT ![c] = x]
          /\ g.locks = [b.locks EXCEPT ![c][Schema] = IF @ = "none" THEN "read" ELSE @]
          /\ g.writer = (IF kind = "read" THEN b.writer ELSE c)
          /\ g.flags \in SUBSET {"pending", "exclusive"}
          /\ g = [txn |-> g.txn, locks |-> g.locks, writer |-> g.writer, flags |-> g.flags]
      BY <1>2 DEF BeginTrans, Cache
    <2> HIDE DEF g
    <2>2. g.txn \in [Conns -> LockKinds] /\ g.writer \in Conns \cup {NoConn}
      BY <2>1 DEF Cache, LockKinds
    <2>3. g.locks \in [Conns -> [AllTables -> LockKinds]]
      BY <2>1 DEF Cache, LockKinds
    <2>4. g \in Cache
      BY <2>1, <2>2, <2>3 DEF Cache
    <2>5. /\ \A d \in Conns \ {c} : g.locks[d] = b.locks[d]
          /\ \A t \in AllTables : g.locks[c][t] = IF t = Schema /\ b.locks[c][t] = "none"
                                                 THEN "read" ELSE b.locks[c][t]
      BY <2>1 DEF Cache
    <2>6. Raises(b.locks[c], g.locks[c])
      BY <2>5 DEF Raises
    <2>7. QED  BY <2>1, <2>4, <2>5, <2>6 DEF Cache, g
  <1>3. QED  BY <1>1, <1>2

\* The locks stay sound when c begins, or becomes the writer.
LEMMA BeginOK ==
    ASSUME NEW b \in Cache, CacheOK(b), NEW c \in Conns,
           NEW kind \in {"read", "write", "exclusive"}, BeginBlockers(b, c, kind) = {}
    PROVE  CacheOK(BeginTrans(b, c, kind))
  <1>1. CASE Begun(b, c, kind)
    BY <1>1 DEF BeginTrans
  <1>2. CASE ~ Begun(b, c, kind)
    <2> DEFINE g == BeginTrans(b, c, kind)
               x == IF kind = "read" THEN "read" ELSE "write"
    <2>1. Schema \in AllTables /\ NoConn \notin Conns
      BY NoConnAssumption DEF AllTables
    <2>2. /\ \A d \in Conns : g.txn[d] = IF d = c THEN x ELSE b.txn[d]
          /\ \A d \in Conns, t \in AllTables :
                g.locks[d][t] = IF d = c /\ t = Schema /\ b.locks[c][Schema] = "none"
                                THEN "read" ELSE b.locks[d][t]
          /\ g.writer = (IF kind = "read" THEN b.writer ELSE c)
          /\ g.flags = IF kind = "read" THEN b.flags
                       ELSE {f \in {"exclusive"} : kind = "exclusive"}
      BY <1>2, <2>1 DEF BeginTrans, Cache
    <2> HIDE DEF g
    <2>3. /\ "pending" \notin b.flags
          /\ kind # "read" => b.writer = NoConn
          /\ kind = "exclusive" => \A d \in Conns \ {c} : b.txn[d] = "none"
      <3> DEFINE holders == {d \in Conns \ {c} : \E t \in AllTables : b.locks[d][t] # "none"}
      <3>1. "pending" \notin b.flags /\ (kind # "read" => b.writer = NoConn)
        BY <1>2 DEF BeginBlockers
      <3>2. kind = "exclusive" => holders = {}
        BY <1>2, <3>1 DEF BeginBlockers
      <3>3. QED  BY <2>1, <3>1, <3>2 DEF CacheOK
    <2>4. QueryLock(b, c, Schema, "read") = {}
      BY <1>2, <2>3 DEF BeginBlockers
    <2>5. b.writer # c /\ b.txn[c] # "write"
      BY <1>2 DEF Begun, CacheOK
    <2>6. "exclusive" \notin b.flags
      BY <2>4, <2>5 DEF QueryLock
    <2>7. \A d \in Conns \ {c} : b.locks[d][Schema] \in {"none", "read"}
      BY <2>1, <2>4, <2>6 DEF QueryLock, Cache, LockKinds
    <2>8. \A d, e \in Conns, t \in AllTables :
            d # e /\ g.locks[d][t] = "write" => g.locks[e][t] = "none"
      BY <2>2, <2>7 DEF CacheOK
    <2>9. \A d \in Conns : g.writer = d <=> g.txn[d] = "write"
      <3>1. CASE kind = "read"
        <4>1. x = "read" /\ g.writer = b.writer
          BY <2>2, <3>1
        <4>2. \A d \in Conns : b.writer = d <=> b.txn[d] = "write"
          BY DEF CacheOK
        <4>3. \A d \in Conns : g.txn[d] = "write" <=> b.txn[d] = "write"
          BY <2>2, <2>5, <4>1
        <4>4. QED  BY <4>1, <4>2, <4>3
      <3>2. CASE kind # "read"
        <4>1. x = "write" /\ g.writer = c /\ b.writer = NoConn
          BY <2>2, <2>3, <3>2
        <4>2. \A d \in Conns : b.txn[d] # "write"
          BY <2>1, <4>1 DEF CacheOK
        <4>3. QED  BY <2>2, <4>1, <4>2
      <3>3. QED  BY <3>1, <3>2
    <2>10. \A d \in Conns :
            /\ g.txn[d] = "none" <=> g.locks[d][Schema] = "none"
            /\ g.txn[d] = "none" => \A t \in AllTables : g.locks[d][t] = "none"
      <3> SUFFICES ASSUME NEW d \in Conns
                   PROVE  /\ g.txn[d] = "none" <=> g.locks[d][Schema] = "none"
                          /\ g.txn[d] = "none" => \A t \in AllTables : g.locks[d][t] = "none"
        OBVIOUS
      <3>1. /\ b.txn[d] = "none" <=> b.locks[d][Schema] = "none"
            /\ b.txn[d] = "none" => \A t \in AllTables : b.locks[d][t] = "none"
        BY DEF CacheOK
      <3>2. CASE d = c
        <4>1. g.txn[d] # "none"
          BY <2>2, <3>2
        <4>2. g.locks[d][Schema] # "none"
          BY <2>1, <2>2, <3>2
        <4>3. QED  BY <4>1, <4>2
      <3>3. CASE d # c
        BY <2>1, <2>2, <3>1, <3>3
      <3>4. QED  BY <3>2, <3>3
    <2>11. \A d \in Conns, t \in AllTables : g.locks[d][t] = "write" => g.writer = d
      <3>1. \A d \in Conns, t \in AllTables :
              g.locks[d][t] = "write" => b.locks[d][t] = "write"
        BY <2>2
      <3>2. \A d \in Conns, t \in AllTables : b.locks[d][t] = "write" => b.writer = d
        BY DEF CacheOK
      <3>3. QED  BY <2>1, <2>2, <2>3, <3>1, <3>2
    <2>12. g.flags # {} => g.writer # NoConn
      BY <2>1, <2>2 DEF CacheOK
    <2>13. "exclusive" \in g.flags => Open(g) = {g.writer}
      <3>1. "exclusive" \in g.flags => kind = "exclusive"
        BY <2>2, <2>6
      <3>2. kind = "exclusive" => Open(g) = {c} /\ g.writer = c
        BY <2>2, <2>3 DEF Open
      <3>3. QED  BY <3>1, <3>2
    <2>14. "pending" \notin g.flags
      BY <2>2, <2>3
    <2>15. QED
      BY <2>8, <2>9, <2>10, <2>11, <2>12, <2>13, <2>14 DEF CacheOK, g
  <1>3. QED  BY <1>1, <1>2

\* A lock that nobody keeps from c.
LEMMA LockType ==
    ASSUME NEW b \in Cache, NEW c \in Conns, NEW t \in AllTables,
           NEW kind \in {"read", "write"}
    PROVE  LET g == LockTable(b, c, t, kind) IN
           /\ g \in Cache /\ g.txn = b.txn
           /\ \A d \in Conns \ {c} : g.locks[d] = b.locks[d]
           /\ Raises(b.locks[c], g.locks[c])
  <1>1. LockTable(b, c, t, kind).locks \in [Conns -> [AllTables -> LockKinds]]
    BY DEF LockTable, Cache, LockKinds
  <1>2. \A d \in Conns, u \in AllTables :
            LockTable(b, c, t, kind).locks[d][u] =
                IF d = c /\ u = t /\ b.locks[c][t] # "write" THEN kind ELSE b.locks[d][u]
    BY DEF LockTable, Cache
  <1>3. \A u \in AllTables : LockTable(b, c, t, kind).locks[c][u] # b.locks[c][u]
            => b.locks[c][u] = "none" \/ LockTable(b, c, t, kind).locks[c][u] = "write"
    BY <1>2 DEF Cache, LockKinds
  <1>4. \A d \in Conns \ {c} : LockTable(b, c, t, kind).locks[d] = b.locks[d]
    BY DEF LockTable, Cache
  <1>5. QED  BY <1>1, <1>3, <1>4 DEF LockTable, Cache, Raises

\* The locks stay sound when c gets it.
LEMMA LockOK ==
    ASSUME NEW b \in Cache, CacheOK(b), NEW c \in Conns, NEW t \in AllTables,
           NEW kind \in {"read", "write"}, b.txn[c] # "none",
           kind = "write" => b.txn[c] = "write", QueryLock(b, c, t, kind) = {}
    PROVE  CacheOK(LockTable(b, c, t, kind))
  <1> DEFINE g == LockTable(b, c, t, kind)
  <1>1. Schema \in AllTables
    BY DEF AllTables
  <1>2. /\ g.txn = b.txn /\ g.writer = b.writer /\ g.flags = b.flags
        /\ \A d \in Conns, u \in AllTables :
              g.locks[d][u] = IF d = c /\ u = t /\ b.locks[c][t] # "write"
                              THEN kind ELSE b.locks[d][u]
    BY DEF LockTable, Cache
  <1> HIDE DEF g
  <1>3. \A d \in Conns \ {c} : b.locks[d][t] \in {"none", kind}
    BY DEF QueryLock, CacheOK
  <1>4. kind = "write" => b.writer = c
    BY DEF CacheOK
  <1>5. \A d \in Conns \ {c} : b.locks[d][t] # "write" \/ kind = "read"
    BY <1>4 DEF CacheOK
  <1>6. \A d, e \in Conns, u \in AllTables :
          d # e /\ g.locks[d][u] = "write" => g.locks[e][u] = "none"
    <2> SUFFICES ASSUME NEW d \in Conns, NEW e \in Conns, NEW u \in AllTables,
                        d # e, g.locks[d][u] = "write"
                 PROVE  g.locks[e][u] = "none"
      OBVIOUS
    <2>1. CASE u # t \/ b.locks[c][t] = "write"
      BY <1>2, <2>1 DEF CacheOK
    <2>2. CASE u = t /\ b.locks[c][t] # "write" /\ d = c
      BY <1>2, <1>3, <1>5, <2>2
    <2>3. CASE u = t /\ b.locks[c][t] # "write" /\ d # c
      BY <1>2, <1>3, <1>5, <2>3
    <2>4. QED  BY <2>1, <2>2, <2>3
  <1>7. \A d \in Conns : g.txn[d] = "none" <=> g.locks[d][Schema] = "none"
    <2> SUFFICES ASSUME NEW d \in Conns
                 PROVE  g.txn[d] = "none" <=> g.locks[d][Schema] = "none"
      OBVIOUS
    <2>1. b.txn[d] = "none" <=> b.locks[d][Schema] = "none"
      BY DEF CacheOK
    <2>2. CASE d = c
      <3>1. g.locks[d][Schema] # "none" /\ g.txn[d] # "none"
        BY <1>1, <1>2, <2>1, <2>2
      <3>2. QED  BY <3>1
    <2>3. CASE d # c
      BY <1>1, <1>2, <2>1, <2>3
    <2>4. QED  BY <2>2, <2>3
  <1>8. \A d \in Conns, u \in AllTables : g.locks[d][u] = "write" => g.writer = d
    BY <1>2, <1>4 DEF CacheOK
  <1>9. \A d \in Conns : g.txn[d] = "none" => \A u \in AllTables : g.locks[d][u] = "none"
    BY <1>2 DEF CacheOK
  <1>10. Open(g) = Open(b)
    BY <1>2 DEF Open
  <1>11. QED
    BY <1>2, <1>6, <1>7, <1>8, <1>9, <1>10 DEF CacheOK, g

\* A lock that c is refused leaves the locks sound.
LEMMA RefusedOK ==
    ASSUME NEW b \in Cache, CacheOK(b), NEW c \in Conns, NEW t \in AllTables, NEW kind,
           kind = "write" => b.txn[c] = "write", QueryLock(b, c, t, kind) # {}
    PROVE  /\ Refused(b, kind) \in Cache /\ Refused(b, kind).txn = b.txn
           /\ Refused(b, kind).locks = b.locks /\ CacheOK(Refused(b, kind))
  <1> DEFINE g == Refused(b, kind)
  <1>1. g \in Cache
    BY DEF Refused, Cache
  <1>2. /\ g.txn = b.txn /\ g.writer = b.writer /\ g.locks = b.locks
        /\ g.flags = IF kind = "write" THEN b.flags \cup {"pending"} ELSE b.flags
    BY DEF Refused, Cache
  <1> HIDE DEF g
  <1>3. kind = "write" => b.writer = c
    BY DEF CacheOK
  <1>4. PICK d \in Conns \ {c} : b.txn[d] # "none"
    BY QueryLockBlockers
  <1>5. Open(g) = Open(b) /\ (kind = "write" => Open(g) # {g.writer})
    BY <1>2, <1>3, <1>4 DEF Open
  <1>6. g.flags # {} => g.writer # NoConn
    BY <1>2, <1>3, NoConnAssumption DEF CacheOK
  <1>7. "exclusive" \in g.flags => Open(g) = {g.writer}
    BY <1>2, <1>5 DEF CacheOK
  <1>8. "pending" \in g.flags => Open(g) # {g.writer}
    BY <1>2, <1>5 DEF CacheOK
  <1>9. CacheOK(g)
    BY <1>2, <1>6, <1>7, <1>8 DEF CacheOK
  <1>10. QED  BY <1>1, <1>2, <1>9 DEF g

(***************************************************************************)
(* The inductive invariant.                                                 *)
(***************************************************************************)

\* Who is referred to has a transaction, or has yet to tell its waiters.
TellOK ==
    \A c, d \in Conns :
        blocking[c] = d \/ unlock[c] = d => cache.txn[d] # "none" \/ Telling(d)

\* Registered and waiting are the same; flags are down outside of waits.
WaitOK ==
    \A c \in Conns :
        /\ unlock[c] # NoConn <=> Waiting(c)
        /\ calls[c].at \notin {"wait", "asleep"} => ~ fired[c]

\* Waiters are told when the locks are gone, and a connection is closed when
\* it holds nothing and does nothing.
CloseOK ==
    \A c \in Conns :
        /\ Telling(c) => cache.txn[c] = "none"
        /\ handle[c] = "closed" =>
              calls[c].at = "idle" /\ cache.txn[c] = "none" /\ blocking[c] = NoConn

ListOK == listed = {c \in Conns : blocking[c] # NoConn \/ unlock[c] # NoConn}

Acyclic == \A S \in SUBSET Conns : (\A c \in S : unlock[c] \in S) => S = {}

IInv == TypeOK /\ LocksOK /\ TellOK /\ WaitOK /\ CloseOK /\ ListOK /\ Acyclic

\* The invariant holds at first.
LEMMA InitInv == Init => IInv
  <1> SUFFICES ASSUME Init PROVE IInv
    OBVIOUS
  <1> USE NoConnAssumption
  <1>1. NoCall \in Call
    BY DEF NoCall, Call, NoOp, Sqls, AllTables
  <1>2. cache \in Cache
    BY DEF Init, Cache, LockKinds
  <1>3. TypeOK
    BY <1>1, <1>2 DEF Init, TypeOK
  <1>4. LocksOK
    BY DEF Init, LocksOK, CacheOK, Open, AllTables
  <1>5. TellOK /\ CloseOK /\ ListOK
    BY DEF Init, TellOK, CloseOK, ListOK, NoCall, Telling
  <1>6. WaitOK
    BY DEF Init, WaitOK, Waiting, NoCall
  <1>7. Acyclic
    BY DEF Init, Acyclic
  <1>8. QED  BY <1>3, <1>4, <1>5, <1>6, <1>7 DEF IInv

\* A step of c that ends its transaction and leaves the waiters to be told ...
Releases(c) == Telling(c)' /\ cache'.txn[c] = "none"

\* ... and one that may begin a transaction and lock more.
Locks(c) == ~ Telling(c)' /\ Raises(cache.locks[c], cache'.locks[c])

\* A section of a call that neither waits nor tells, and may find that somebody
\* is in its way.
Runs(c) ==
    /\ calls[c].at \in {"idle", "prepare", "step", "row"} /\ handle[c] # "closed"
    /\ cache' \in Cache /\ CacheOK(cache')
    /\ \A d \in Conns \ {c} :
          /\ cache'.txn[d] = cache.txn[d] /\ cache'.locks[d] = cache.locks[d]
          /\ calls'[d] = calls[d]
    /\ autocommit' \in [Conns -> BOOLEAN]
    /\ calls' \in [Conns -> Call]
    /\ kept' \in SUBSET Conns
    /\ calls'[c].at \notin {"wait", "asleep"}
    /\ Releases(c) \/ Locks(c)
    /\ handle' \in [Conns -> {"open", "closed", "leaked"}]
    /\ \A d \in Conns : handle'[d] = "closed" => handle[d] = "closed"
    /\ \/ UNCHANGED <<blocking, listed>>
       \/ \E d \in Conns \ {c} : ConnectionBlocked(c, d) /\ cache'.txn[d] # "none"
    /\ UNCHANGED <<unlock, fired>>

\* A connection that lowers no lock keeps its transaction.
LEMMA KeepsTransaction ==
    ASSUME LocksOK, LocksOK', NEW c \in Conns, Locks(c), cache.txn[c] # "none"
    PROVE  cache'.txn[c] # "none"
  <1>1. Schema \in AllTables
    BY DEF AllTables
  <1>2. cache.locks[c][Schema] # "none"
    BY DEF LocksOK, CacheOK
  <1>3. cache'.locks[c][Schema] # "none"
    BY <1>1, <1>2 DEF Locks, Raises
  <1>4. QED  BY <1>3 DEF LocksOK, CacheOK

\* Such a section keeps the invariant.
LEMMA RunsKeepsInv ==
    ASSUME IInv, NEW c \in Conns, Runs(c)
    PROVE  IInv'
  <1> USE NoConnAssumption
  <1>1. \A x \in Conns : blocking'[x] = blocking[x]
                         \/ (x = c /\ blocking'[x] \in Conns /\ cache'.txn[blocking'[x]] # "none")
    BY DEF Runs, ConnectionBlocked, IInv, TypeOK
  <1>2. blocking' \in [Conns -> Conns \cup {NoConn}] /\ listed' \in SUBSET Conns
    BY DEF Runs, ConnectionBlocked, IInv, TypeOK
  <1>3. TypeOK'
    BY <1>2 DEF Runs, IInv, TypeOK
  <1>4. LocksOK'
    BY DEF Runs, LocksOK
  <1>5. ASSUME NEW d \in Conns, cache.txn[d] # "none" \/ Telling(d)
        PROVE  cache'.txn[d] # "none" \/ Telling(d)'
    <2>1. CASE d # c
      BY <1>5, <2>1 DEF Runs, Telling
    <2>2. CASE d = c
      BY <1>4, <1>5, <2>2, KeepsTransaction DEF Runs, Releases, Telling, IInv
    <2>3. QED  BY <2>1, <2>2
  <1>6. TellOK'
    <2> SUFFICES ASSUME NEW x \in Conns, NEW d \in Conns,
                        blocking'[x] = d \/ unlock'[x] = d
                 PROVE  cache'.txn[d] # "none" \/ Telling(d)'
      BY DEF TellOK
    <2>1. CASE blocking[x] = d \/ unlock[x] = d
      BY <1>5, <2>1 DEF IInv, TellOK
    <2>2. CASE ~ (blocking[x] = d \/ unlock[x] = d)
      BY <1>1, <2>2 DEF Runs
    <2>3. QED  BY <2>1, <2>2
  <1>7. WaitOK'
    BY DEF Runs, IInv, WaitOK, Waiting
  <1>8. CloseOK'
    <2> SUFFICES ASSUME NEW d \in Conns
                 PROVE  /\ Telling(d)' => cache'.txn[d] = "none"
                        /\ handle'[d] = "closed" =>
                              calls'[d].at = "idle" /\ cache'.txn[d] = "none" /\ blocking'[d] = NoConn
      BY DEF CloseOK
    <2>1. CASE d = c
      BY <2>1 DEF Runs, Releases, Locks
    <2>2. CASE d # c
      BY <1>1, <2>2 DEF Runs, IInv, CloseOK, Telling
    <2>3. QED  BY <2>1, <2>2
  <1>9. ListOK'
    BY <1>2 DEF Runs, ConnectionBlocked, IInv, ListOK, TypeOK
  <1>10. Acyclic'
    BY DEF Runs, IInv, Acyclic
  <1>11. QED  BY <1>3, <1>4, <1>6, <1>7, <1>8, <1>9, <1>10 DEF IInv

\* A connection without a call.
LEMMA NoCallType == NoCall \in Call /\ NoCall.at = "idle"
  BY DEF NoCall, Call, NoOp, Sqls, AllTables

\* A call that goes on at another place.
LEMMA GoesType ==
    ASSUME calls \in [Conns -> Call], NEW c \in Conns,
           NEW at \in {"idle", "prepare", "step", "row", "locked", "wait", "asleep",
                       "halting", "resetting", "closing"},
           calls' = Goes(c, at)
    PROVE  /\ calls' \in [Conns -> Call]
           /\ \A d \in Conns \ {c} : calls'[d] = calls[d]
           /\ calls'[c].at = at
  <1>1. [calls[c] EXCEPT !.at = at] \in Call /\ [calls[c] EXCEPT !.at = at].at = at
    BY DEF Call
  <1>2. QED  BY <1>1 DEF Goes

\* What Halt does to the locks and the calls.
HaltsWell(c) ==
    /\ cache' \in Cache /\ CacheOK(cache')
    /\ \A d \in Conns \ {c} :
          /\ cache'.txn[d] = cache.txn[d] /\ cache'.locks[d] = cache.locks[d]
          /\ calls'[d] = calls[d]
    /\ autocommit' \in [Conns -> BOOLEAN]
    /\ calls' \in [Conns -> Call]
    /\ calls'[c].at \in {"halting", "resetting", "idle", "locked"}
    /\ Releases(c) \/ Locks(c)

\* Halting in autocommit mode ends the transaction and leaves the waiters to be
\* told, otherwise it changes no lock.
LEMMA HaltEffect ==
    ASSUME IInv, NEW c \in Conns, NEW b \in Cache, CacheOK(b), NEW auto \in BOOLEAN,
           NEW place \in {"halting", "resetting"}, NEW then \in {"idle", "locked"},
           \A d \in Conns \ {c} : b.txn[d] = cache.txn[d] /\ b.locks[d] = cache.locks[d],
           Raises(cache.locks[c], b.locks[c]),
           Halt(c, b, auto, place, then)
    PROVE  HaltsWell(c)
  <1>1. /\ cache' \in Cache /\ CacheOK(cache')
        /\ \A d \in Conns \ {c} : cache'.txn[d] = b.txn[d] /\ cache'.locks[d] = b.locks[d]
        /\ auto => cache'.txn[c] = "none"
        /\ ~ auto => cache'.locks[c] = b.locks[c]
    <2>1. CASE auto
      <3>1. cache' = EndTransaction(b, c)
        BY <2>1 DEF Halt
      <3>2. /\ EndTransaction(b, c) \in Cache /\ CacheOK(EndTransaction(b, c))
            /\ EndTransaction(b, c).txn = [b.txn EXCEPT ![c] = "none"]
            /\ \A d \in Conns \ {c} : EndTransaction(b, c).locks[d] = b.locks[d]
        BY EndType, EndOK
      <3>3. b.txn \in [Conns -> LockKinds]
        BY DEF Cache
      <3>4. QED  BY <2>1, <3>1, <3>2, <3>3
    <2>2. CASE ~ auto
      <3>1. cache' = b
        BY <2>2 DEF Halt
      <3>2. QED  BY <2>2, <3>1
    <2>3. QED  BY <2>1, <2>2
  <1>2. autocommit' \in [Conns -> BOOLEAN]
    BY DEF Halt, IInv, TypeOK
  <1>3. /\ calls' \in [Conns -> Call]
        /\ \A d \in Conns \ {c} : calls'[d] = calls[d]
        /\ calls'[c].at \in {"halting", "resetting", "idle", "locked"}
        /\ auto => calls'[c].at \in {"halting", "resetting"}
        /\ ~ auto => calls'[c].at \in {"idle", "locked"}
    <2> calls \in [Conns -> Call]
      BY DEF IInv, TypeOK
    <2>1. CASE auto
      <3>1. calls' = [calls EXCEPT ![c] = [@ EXCEPT !.at = place, !.then = then]]
        BY <2>1 DEF Halt
      <3>2. /\ [calls[c] EXCEPT !.at = place, !.then = then] \in Call
            /\ [calls[c] EXCEPT !.at = place, !.then = then].at = place
        BY DEF Call
      <3>3. QED  BY <2>1, <3>1, <3>2
    <2>2. CASE ~ auto /\ then = "idle"
      <3>1. calls' = [calls EXCEPT ![c] = NoCall]
        BY <2>2 DEF Halt
      <3>2. QED  BY <2>2, <3>1, NoCallType
    <2>3. CASE ~ auto /\ then = "locked"
      <3>1. calls' = Goes(c, "locked")
        BY <2>3 DEF Halt
      <3>2. QED  BY <2>3, <3>1, GoesType
    <2>4. QED  BY <2>1, <2>2, <2>3
  <1>4. Releases(c) \/ Locks(c)
    <2>1. CASE auto
      BY <1>1, <1>3, <2>1 DEF Releases, Telling
    <2>2. CASE ~ auto
      BY <1>1, <1>3, <2>2 DEF Locks, Telling
    <2>3. QED  BY <2>1, <2>2
  <1>5. QED  BY <1>1, <1>2, <1>3, <1>4 DEF HaltsWell

(***************************************************************************)
(* The sections of a call.                                                  *)
(***************************************************************************)

\* Starting a call.
LEMMA BeginRuns ==
    ASSUME IInv, NEW c \in Conns, NEW op \in [sql : Sqls, table : AllTables], Begin(c, op)
    PROVE  Runs(c)
  <1>1. calls[c].at = "idle" /\ handle[c] = "open"
    BY DEF Begin, ThreadIdle
  <1>2. PICK api \in {"prepare", "step"} :
          calls' = [calls EXCEPT ![c] = [at |-> api, api |-> api, then |-> "idle", op |-> op]]
    BY DEF Begin
  <1>3. [at |-> api, api |-> api, then |-> "idle", op |-> op] \in Call
    BY DEF Call
  <1>4. calls' \in [Conns -> Call] /\ calls'[c].at = api
    BY <1>2, <1>3 DEF IInv, TypeOK
  <1>5. \A d \in Conns \ {c} : calls'[d] = calls[d]
    BY <1>2 DEF IInv, TypeOK
  <1>6. Locks(c) /\ UNCHANGED cache
    BY <1>4 DEF Begin, Locks, Raises, Telling
  <1>7. QED
    BY <1>1, <1>4, <1>5, <1>6 DEF Runs, Begin, notifyVars, IInv, TypeOK, LocksOK

\* sqlite3_prepare.
LEMMA PrepareRuns ==
    ASSUME IInv, NEW c \in Conns, Prepare(c)
    PROVE  Runs(c)
  <1> Schema \in AllTables
    BY DEF AllTables
  <1>1. calls[c].at = "prepare" /\ handle[c] # "closed" /\ cache' = cache
    BY DEF Prepare, IInv, CloseOK
  <1>2. /\ calls' \in [Conns -> Call] /\ kept' \in SUBSET Conns
        /\ \A d \in Conns \ {c} : calls'[d] = calls[d]
        /\ calls'[c].at \in {"idle", "step", "locked"}
    <2> calls \in [Conns -> Call] /\ kept \in SUBSET Conns
      BY DEF IInv, TypeOK
    <2>1. CASE kept' = kept \cup {c} /\ calls' = [calls EXCEPT ![c] = NoCall]
      BY <2>1, NoCallType
    <2>2. CASE kept' = kept /\ calls' = [calls EXCEPT ![c].at = "step", ![c].api = "step"]
      <3>1. [calls[c] EXCEPT !.at = "step", !.api = "step"] \in Call
        BY DEF Call
      <3>2. [calls[c] EXCEPT !.at = "step", !.api = "step"].at = "step"
        BY DEF Call
      <3>3. calls' = [calls EXCEPT ![c] = [calls[c] EXCEPT !.at = "step", !.api = "step"]]
        BY <2>2
      <3>4. QED  BY <2>2, <3>1, <3>2, <3>3
    <2>3. CASE kept' = kept /\ calls' = Goes(c, "locked")
      BY <2>3, GoesType
    <2>4. QED  BY <2>1, <2>2, <2>3 DEF Prepare
  <1>3. \/ UNCHANGED <<blocking, listed>>
        \/ \E d \in Conns \ {c} : ConnectionBlocked(c, d) /\ cache'.txn[d] # "none"
    BY <1>1, QueryLockBlockers DEF Prepare, IInv, TypeOK, LocksOK
  <1>4. Locks(c)
    BY <1>1, <1>2 DEF Locks, Raises, Telling
  <1>5. QED
    BY <1>1, <1>2, <1>3, <1>4 DEF Runs, Prepare, IInv, TypeOK, LocksOK

\* sqlite3_reset.
LEMMA ResetRuns ==
    ASSUME IInv, NEW c \in Conns, Reset(c)
    PROVE  Runs(c)
  <1>1. /\ calls[c].at = "row" /\ handle[c] # "closed"
        /\ Halt(c, cache, autocommit[c], "resetting", "idle")
        /\ UNCHANGED <<handle, kept, notifyVars>>
    BY DEF Reset, IInv, CloseOK
  <1>2. cache \in Cache /\ CacheOK(cache) /\ autocommit[c] \in BOOLEAN
    BY DEF IInv, TypeOK, LocksOK
  <1>3. HaltsWell(c)
    BY <1>1, <1>2, HaltEffect DEF Raises
  <1>4. QED
    BY <1>1, <1>3 DEF HaltsWell, Runs, notifyVars, IInv, TypeOK

\* sqlite3_step of BEGIN, COMMIT and ROLLBACK.
LEMMA AutoCommitRuns ==
    ASSUME IInv, NEW c \in Conns, Step(c), AutoCommit(c)
    PROVE  Runs(c)
  <1>1. /\ calls[c].at = "step" /\ handle[c] # "closed"
        /\ UNCHANGED <<blocking, listed, handle, kept, unlock, fired>>
    BY DEF Step, AutoCommit, IInv, CloseOK
  <1>2. cache \in Cache /\ CacheOK(cache)
    BY DEF IInv, TypeOK, LocksOK
  <1>3. PICK auto \in BOOLEAN : Halt(c, cache, auto, "resetting", "idle")
    BY DEF AutoCommit
  <1>4. HaltsWell(c)
    BY <1>2, <1>3, HaltEffect DEF Raises
  <1>5. QED
    BY <1>1, <1>4 DEF HaltsWell, Runs, IInv, TypeOK

\* sqlite3_step of a statement that reads or writes.
LEMMA AccessRuns ==
    ASSUME IInv, NEW c \in Conns, Step(c), Access(c)
    PROVE  Runs(c)
  <1> DEFINE op       == calls[c].op
             kind     == Wanted(op.sql)
             blockers == BeginBlockers(cache, c, kind)
             begun    == BeginTrans(cache, c, kind)
             owners   == IF op.sql \in {"read", "write"}
                         THEN QueryLock(begun, c, op.table, kind) ELSE {}
             after    == LockTable(begun, c, op.table, kind)
  <1>1. calls[c].at = "step" /\ handle[c] # "closed" /\ UNCHANGED <<handle, kept, unlock, fired>>
    BY DEF Step, IInv, CloseOK
  <1>2. /\ cache \in Cache /\ CacheOK(cache) /\ autocommit[c] \in BOOLEAN
        /\ op.table \in AllTables
    BY DEF IInv, TypeOK, LocksOK, Call
  <1>3. /\ kind \in {"read", "write", "exclusive"}
        /\ op.sql \in {"read", "write"} => kind = op.sql
    BY DEF Wanted
  <1>4. blockers = {} =>
          /\ begun \in Cache /\ CacheOK(begun)
          /\ begun.txn[c] # "none" /\ (kind # "read" => begun.txn[c] = "write")
          /\ \A d \in Conns \ {c} : begun.txn[d] = cache.txn[d] /\ begun.locks[d] = cache.locks[d]
          /\ Raises(cache.locks[c], begun.locks[c])
    BY <1>2, <1>3, BeginType, BeginOK
  <1>5. /\ \A d \in blockers : d \in Conns \ {c} /\ cache.txn[d] # "none"
        /\ blockers = {} => \A d \in owners : d \in Conns \ {c} /\ begun.txn[d] # "none"
    BY <1>2, <1>4, BeginBlockersBlock, QueryLockBlockers
  <1> HIDE DEF op, kind, blockers, begun, owners, after
  <1>6. /\ cache' \in Cache /\ CacheOK(cache')
        /\ \A d \in Conns \ {c} :
              /\ cache'.txn[d] = cache.txn[d] /\ cache'.locks[d] = cache.locks[d]
              /\ calls'[d] = calls[d]
        /\ autocommit' \in [Conns -> BOOLEAN]
        /\ calls' \in [Conns -> Call]
        /\ calls'[c].at \in {"halting", "resetting", "idle", "locked", "row"}
        /\ Releases(c) \/ Locks(c)
        /\ \/ UNCHANGED <<blocking, listed>>
           \/ \E d \in Conns \ {c} : ConnectionBlocked(c, d) /\ cache'.txn[d] # "none"
    <2>1. CASE /\ \E d \in blockers : ConnectionBlocked(c, d)
               /\ Halt(c, cache, autocommit[c], "halting", "locked")
      <3>1. HaltsWell(c)
        BY <1>2, <2>1, HaltEffect DEF Raises
      <3>2. PICK d \in blockers : ConnectionBlocked(c, d)
        BY <2>1
      <3>3. d \in Conns \ {c} /\ cache'.txn[d] # "none"
        BY <1>5, <3>1 DEF HaltsWell
      <3>4. QED  BY <3>1, <3>2, <3>3 DEF HaltsWell
    <2>2. CASE /\ blockers = {}
               /\ \E d \in owners : ConnectionBlocked(c, d)
               /\ Halt(c, Refused(begun, kind), autocommit[c], "halting", "locked")
      <3>1. PICK d \in owners : ConnectionBlocked(c, d)
        BY <2>2
      <3>2. d \in Conns \ {c} /\ cache.txn[d] # "none"
        BY <1>4, <1>5, <2>2
      <3>3. QueryLock(begun, c, op.table, kind) # {}
        BY <3>1 DEF owners
      <3>4. /\ Refused(begun, kind) \in Cache /\ Refused(begun, kind).txn = begun.txn
            /\ Refused(begun, kind).locks = begun.locks /\ CacheOK(Refused(begun, kind))
        BY <1>2, <1>4, <2>2, <3>3, RefusedOK
      <3>5. HaltsWell(c)
        BY <1>2, <1>4, <2>2, <3>4, HaltEffect
      <3>6. QED  BY <3>1, <3>2, <3>5 DEF HaltsWell
    <2>3. CASE blockers = {} /\ owners = {} /\ UNCHANGED <<blocking, listed>>
               /\ Halt(c, begun, FALSE, "halting", "idle")
      <3>1. HaltsWell(c)
        BY <1>2, <1>4, <2>3, HaltEffect
      <3>2. QED  BY <2>3, <3>1 DEF HaltsWell
    <2>4. CASE /\ blockers = {} /\ owners = {} /\ UNCHANGED <<blocking, listed>>
               /\ op.sql \in {"read", "write"}
               /\ \/ Halt(c, after, autocommit[c], "halting", "idle")
                  \/ /\ op.sql = "read" \/ op.table # Schema
                     /\ cache' = after
                     /\ calls' = Goes(c, "row")
                     /\ UNCHANGED autocommit
      <3>1. QueryLock(begun, c, op.table, kind) = {}
        BY <2>4 DEF owners
      <3>2. kind \in {"read", "write"}
        BY <1>3, <2>4
      <3>3. /\ after \in Cache /\ CacheOK(after) /\ after.txn = begun.txn
            /\ \A d \in Conns \ {c} : after.locks[d] = begun.locks[d]
            /\ Raises(begun.locks[c], after.locks[c])
        BY <1>2, <1>4, <2>4, <3>1, <3>2, LockType, LockOK DEF after
      <3>4. Raises(cache.locks[c], after.locks[c])
        BY <1>4, <2>4, <3>3, RaisesTrans
      <3>5. CASE Halt(c, after, autocommit[c], "halting", "idle")
        <4>1. HaltsWell(c)
          BY <1>2, <1>4, <2>4, <3>3, <3>5, <3>4, HaltEffect
        <4>2. QED  BY <2>4, <4>1 DEF HaltsWell
      <3>6. CASE cache' = after /\ calls' = Goes(c, "row") /\ UNCHANGED autocommit
        <4>1. /\ calls' \in [Conns -> Call] /\ calls'[c].at = "row"
              /\ \A d \in Conns \ {c} : calls'[d] = calls[d]
          BY <3>6, GoesType DEF IInv, TypeOK
        <4>2. Locks(c)
          BY <3>6, <3>4, <4>1 DEF Locks, Telling
        <4>3. QED  BY <1>4, <2>4, <3>3, <3>6, <4>1, <4>2 DEF IInv, TypeOK
      <3>7. QED  BY <2>4, <3>5, <3>6
    <2>5. QED
      BY <2>1, <2>2, <2>3, <2>4 DEF Access, op, kind, blockers, begun, owners, after
  <1>7. QED
    BY <1>1, <1>6 DEF Runs, IInv, TypeOK

\* ObjectFinalize for Connection.
LEMMA FinalizeRuns ==
    ASSUME IInv, NEW c \in Conns, finalize_connection(c)
    PROVE  Runs(c)
  <1>1. calls[c].at = "idle" /\ handle[c] = "open" /\ UNCHANGED <<kept, notifyVars>>
    BY DEF finalize_connection, ThreadIdle
  <1>2. CASE handle' = [handle EXCEPT ![c] = "leaked"] /\ UNCHANGED <<cache, autocommit, calls>>
    <2>1. Locks(c)
      BY <1>1, <1>2 DEF Locks, Raises, Telling
    <2>2. QED  BY <1>1, <1>2, <2>1 DEF Runs, notifyVars, IInv, TypeOK, LocksOK
  <1>3. CASE /\ cache' = EndTransaction(cache, c)
             /\ autocommit' = [autocommit EXCEPT ![c] = TRUE]
             /\ calls' = Goes(c, "closing")
             /\ UNCHANGED handle
    <2>1. /\ cache' \in Cache /\ CacheOK(cache')
          /\ cache'.txn = [cache.txn EXCEPT ![c] = "none"]
          /\ \A d \in Conns \ {c} : cache'.locks[d] = cache.locks[d]
      BY <1>3, EndType, EndOK DEF IInv, TypeOK, LocksOK
    <2>2. cache.txn \in [Conns -> LockKinds]
      BY DEF IInv, TypeOK, Cache
    <2>3. /\ calls' \in [Conns -> Call] /\ calls'[c].at = "closing"
          /\ \A d \in Conns \ {c} : calls'[d] = calls[d]
      BY <1>3, GoesType DEF IInv, TypeOK
    <2>4. Releases(c)
      BY <2>1, <2>2, <2>3 DEF Releases, Telling
    <2>5. QED
      BY <1>1, <1>3, <2>1, <2>2, <2>3, <2>4 DEF Runs, notifyVars, IInv, TypeOK
  <1>4. QED  BY <1>2, <1>3 DEF finalize_connection

(***************************************************************************)
(* notify.c                                                                 *)
(***************************************************************************)

\* What Unlocked and ConnectionClosed do to the waiters of c.
Tells(c) ==
    /\ Telling(c)
    /\ blocking' \in [Conns -> Conns \cup {NoConn}]
    /\ \A d \in Conns \ {c} : blocking'[d] = StillBlocking(c)[d]
    /\ blocking'[c] \in {StillBlocking(c)[c], NoConn}
    /\ unlock' = StillRegistered(c)
    /\ listed' = {d \in Conns : blocking'[d] # NoConn \/ unlock'[d] # NoConn}
    /\ fired' = [d \in Conns |-> fired[d] \/ d \in Hits(c)]
    /\ calls' \in [Conns -> Call]
    /\ \A d \in Conns \ {c} : calls'[d] = Told(c)[d]
    /\ calls'[c].at \in {"idle", "locked"}
    /\ handle' \in [Conns -> {"open", "closed", "leaked"}]
    /\ \A d \in Conns : handle'[d] = "closed" =>
          \/ handle[d] = "closed"
          \/ d = c /\ calls'[c].at = "idle" /\ cache.txn[c] = "none" /\ blocking'[c] = NoConn
    /\ UNCHANGED <<cache, autocommit, kept>>

\* Nobody is registered with c, or told twice, when c itself is not waiting.
LEMMA TellingIsRegistered ==
    ASSUME IInv, NEW c \in Conns, Telling(c)
    PROVE  /\ unlock[c] = NoConn /\ ~ fired[c] /\ StillRegistered(c)[c] = NoConn
           /\ c \notin Hits(c) /\ \A d \in Hits(c) : d \in Conns /\ Waiting(d)
  <1> USE NoConnAssumption
  <1>1. unlock[c] = NoConn /\ ~ fired[c]
    BY DEF IInv, WaitOK, Waiting, Telling
  <1>2. \A d \in Hits(c) : d \in Conns /\ Waiting(d)
    BY DEF IInv, WaitOK, Hits
  <1>3. QED  BY <1>1, <1>2 DEF Hits, StillRegistered

\* A call that is told only leaves its sleep.
LEMMA ToldType ==
    ASSUME IInv, NEW c \in Conns
    PROVE  /\ Told(c) \in [Conns -> Call]
           /\ \A d \in Conns : Told(c)[d].at = IF d \in Hits(c) /\ calls[d].at = "asleep"
                                               THEN "wait" ELSE calls[d].at
  <1>1. calls \in [Conns -> Call]
    BY DEF IInv, TypeOK
  <1>2. \A d \in Conns : [calls[d] EXCEPT !.at = "wait"] \in Call
                         /\ [calls[d] EXCEPT !.at = "wait"].at = "wait"
    BY <1>1 DEF Call
  <1>3. QED  BY <1>1, <1>2 DEF Told

\* Telling the waiters keeps the invariant.
LEMMA TellsKeepsInv ==
    ASSUME IInv, NEW c \in Conns, Tells(c)
    PROVE  IInv'
  <1> USE NoConnAssumption
  <1>1. /\ unlock[c] = NoConn /\ ~ fired[c] /\ StillRegistered(c)[c] = NoConn
        /\ c \notin Hits(c) /\ \A d \in Hits(c) : d \in Conns /\ Waiting(d)
    BY TellingIsRegistered DEF Tells
  <1>2. \A d \in Conns \ {c} : calls'[d].at = IF d \in Hits(c) /\ calls[d].at = "asleep"
                                             THEN "wait" ELSE calls[d].at
    BY ToldType DEF Tells
  <1>3. /\ unlock' \in [Conns -> Conns \cup {NoConn}]
        /\ \A d \in Conns : unlock'[d] = IF unlock[d] = c THEN NoConn ELSE unlock[d]
        /\ \A d \in Conns : blocking'[d] # NoConn => blocking[d] = blocking'[d] /\ blocking[d] # c
    BY DEF Tells, StillRegistered, StillBlocking, IInv, TypeOK
  <1>4. fired' \in [Conns -> BOOLEAN] /\ \A d \in Conns : fired'[d] = (fired[d] \/ d \in Hits(c))
    BY DEF Tells
  <1>5. TypeOK'
    <2>1. listed' \in SUBSET Conns
      BY DEF Tells
    <2>2. QED  BY <1>3, <1>4, <2>1 DEF Tells, IInv, TypeOK
  <1>6. LocksOK'
    BY DEF Tells, IInv, LocksOK, CacheOK, Open
  <1>7. TellOK'
    <2> SUFFICES ASSUME NEW x \in Conns, NEW d \in Conns,
                        blocking'[x] = d \/ unlock'[x] = d
                 PROVE  cache'.txn[d] # "none" \/ Telling(d)'
      BY DEF TellOK
    <2>1. (blocking[x] = d \/ unlock[x] = d) /\ d # c
      BY <1>3
    <2>2. cache.txn[d] # "none" \/ Telling(d)
      BY <2>1 DEF IInv, TellOK
    <2>3. QED  BY <1>2, <2>1, <2>2 DEF Tells, Telling
  <1>8. WaitOK'
    <2> SUFFICES ASSUME NEW d \in Conns
                 PROVE  /\ unlock'[d] # NoConn <=> Waiting(d)'
                        /\ calls'[d].at \notin {"wait", "asleep"} => ~ fired'[d]
      BY DEF WaitOK
    <2>1. CASE d = c
      BY <1>1, <1>3, <1>4, <2>1 DEF Tells, Waiting
    <2>2. CASE d # c /\ unlock[d] = c
      <3>1. d \in Hits(c) /\ Waiting(d)
        BY <1>1, <2>2 DEF Hits
      <3>2. calls'[d].at = "wait" /\ fired'[d] /\ unlock'[d] = NoConn
        BY <1>2, <1>3, <1>4, <2>2, <3>1 DEF Waiting
      <3>3. QED  BY <3>2 DEF Waiting
    <2>3. CASE d # c /\ unlock[d] # c
      <3>1. d \notin Hits(c)
        BY <2>3 DEF Hits
      <3>2. calls'[d].at = calls[d].at /\ fired'[d] = fired[d] /\ unlock'[d] = unlock[d]
        BY <1>2, <1>3, <1>4, <2>3, <3>1 DEF IInv, TypeOK
      <3>3. QED  BY <3>2 DEF IInv, WaitOK, Waiting
    <2>4. QED  BY <2>1, <2>2, <2>3
  <1>9. CloseOK'
    <2> SUFFICES ASSUME NEW d \in Conns
                 PROVE  /\ Telling(d)' => cache'.txn[d] = "none"
                        /\ handle'[d] = "closed" =>
                              calls'[d].at = "idle" /\ cache'.txn[d] = "none" /\ blocking'[d] = NoConn
      BY DEF CloseOK
    <2>1. CASE d = c
      BY <2>1 DEF Tells, IInv, CloseOK, Telling
    <2>2. CASE d # c
      <3>1. Telling(d)' => Telling(d)
        BY <1>2, <2>2 DEF Telling
      <3>2. handle[d] = "closed" => calls'[d].at = "idle"
        BY <1>2, <2>2 DEF IInv, CloseOK
      <3>3. QED  BY <1>3, <2>2, <3>1, <3>2 DEF Tells, IInv, CloseOK
    <2>3. QED  BY <2>1, <2>2
  <1>10. ListOK'
    BY DEF Tells, ListOK
  <1>11. Acyclic'
    BY <1>3 DEF IInv, Acyclic
  <1>12. QED
    BY <1>5, <1>6, <1>7, <1>8, <1>9, <1>10, <1>11 DEF IInv

\* sqlite3ConnectionUnlocked.
LEMMA UnlockedTells ==
    ASSUME IInv, NEW c \in Conns, Unlocked(c)
    PROVE  Tells(c)
  <1> USE NoConnAssumption
  <1>1. Telling(c)
    BY DEF Unlocked, Telling
  <1>2. Told(c) \in [Conns -> Call]
    BY <1>1, ToldType
  <1>3. /\ calls' \in [Conns -> Call]
        /\ \A d \in Conns \ {c} : calls'[d] = Told(c)[d]
        /\ calls'[c].at \in {"idle", "locked"}
    <2> DEFINE k == [Told(c)[c] EXCEPT !.at = "locked", !.then = "idle"]
    <2>1. k \in Call /\ k.at = "locked"
      BY <1>2 DEF Call
    <2>2. calls' = [Told(c) EXCEPT ![c] = IF Told(c)[c].then = "idle" THEN NoCall ELSE k]
      BY <1>2 DEF Unlocked
    <2> HIDE DEF k
    <2>3. QED  BY <1>2, <2>1, <2>2, NoCallType
  <1>4. listed' = {d \in Conns : blocking'[d] # NoConn \/ unlock'[d] # NoConn}
    BY DEF Unlocked, IInv, ListOK, StillListed, StillBlocking, StillRegistered
  <1>5. blocking' \in [Conns -> Conns \cup {NoConn}]
    BY DEF Unlocked, StillBlocking, IInv, TypeOK
  <1>6. \A d \in Conns : blocking'[d] = StillBlocking(c)[d]
    BY DEF Unlocked
  <1>7. QED
    BY <1>1, <1>3, <1>4, <1>5, <1>6 DEF Tells, Unlocked, IInv, TypeOK

\* sqlite3ConnectionClosed.
LEMMA ClosedTells ==
    ASSUME IInv, NEW c \in Conns, ConnectionClosed(c)
    PROVE  Tells(c)
  <1> USE NoConnAssumption
  <1>1. Telling(c) /\ cache.txn[c] = "none"
    BY DEF ConnectionClosed, IInv, CloseOK, Telling
  <1>2. StillRegistered(c)[c] = NoConn
    BY <1>1, TellingIsRegistered
  <1>3. unlock' = StillRegistered(c)
    BY <1>2 DEF ConnectionClosed, StillRegistered
  <1>4. /\ blocking' \in [Conns -> Conns \cup {NoConn}]
        /\ \A d \in Conns \ {c} : blocking'[d] = StillBlocking(c)[d]
        /\ blocking'[c] = NoConn
    BY DEF ConnectionClosed, StillBlocking, IInv, TypeOK
  <1>5. /\ calls' \in [Conns -> Call]
        /\ \A d \in Conns \ {c} : calls'[d] = Told(c)[d]
        /\ calls'[c].at = "idle"
    BY <1>1, ToldType, NoCallType DEF ConnectionClosed
  <1>6. listed' = {d \in Conns : blocking'[d] # NoConn \/ unlock'[d] # NoConn}
    <2>1. listed' = StillListed(c) \ {c}
      BY DEF ConnectionClosed
    <2>2. \A d \in Conns \ {c} : d \in StillListed(c)
                               <=> blocking'[d] # NoConn \/ unlock'[d] # NoConn
      BY <1>3, <1>4 DEF StillListed, StillBlocking, StillRegistered, IInv, ListOK
    <2>3. unlock'[c] = NoConn /\ blocking'[c] = NoConn /\ StillListed(c) \subseteq Conns
      BY <1>2, <1>3, <1>4 DEF StillListed, IInv, TypeOK
    <2>4. QED  BY <2>1, <2>2, <2>3
  <1>7. handle' \in [Conns -> {"open", "closed", "leaked"}]
    BY DEF ConnectionClosed, IInv, TypeOK
  <1>8. \A d \in Conns \ {c} : handle'[d] = handle[d]
    BY DEF ConnectionClosed, IInv, TypeOK
  <1>9. QED
    BY <1>1, <1>3, <1>4, <1>5, <1>6, <1>7, <1>8 DEF Tells, ConnectionClosed

(***************************************************************************)
(* unlock_notify.rs                                                         *)
(***************************************************************************)

\* A section that only moves the call of c, which tells nobody.
LEMMA MovedTellOK ==
    ASSUME IInv, NEW c \in Conns, ~ Telling(c), cache' = cache,
           \A d \in Conns \ {c} : calls'[d] = calls[d],
           blocking' = blocking,
           \A x \in Conns : unlock'[x] = unlock[x] \/ unlock'[x] = blocking[x]
    PROVE  TellOK'
  <1> SUFFICES ASSUME NEW x \in Conns, NEW d \in Conns,
                      blocking'[x] = d \/ unlock'[x] = d
               PROVE  cache'.txn[d] # "none" \/ Telling(d)'
    BY DEF TellOK
  <1>1. cache.txn[d] # "none" \/ Telling(d)
    BY DEF IInv, TellOK
  <1>2. Telling(d) => Telling(d)'
    BY DEF Telling
  <1>3. QED  BY <1>1, <1>2

\* A connection that is not in the chain of the one it registers with closes
\* no circle.
LEMMA RegisterAcyclic ==
    ASSUME Acyclic, unlock \in [Conns -> Conns \cup {NoConn}],
           NEW c \in Conns, blocking[c] \in Conns, ~ Deadlocked(c),
           unlock' = [unlock EXCEPT ![c] = blocking[c]]
    PROVE  Acyclic'
  <1> USE NoConnAssumption
  <1>1. PICK T \in SUBSET Conns :
          /\ blocking[c] \in T /\ c \notin T
          /\ \A x \in T : unlock[x] \in Conns => unlock[x] \in T
    BY DEF Deadlocked, Chain
  <1>2. SUFFICES ASSUME NEW S \in SUBSET Conns, \A x \in S : unlock'[x] \in S
                 PROVE  S = {}
    BY DEF Acyclic
  <1>3. CASE c \notin S
    BY <1>2, <1>3 DEF Acyclic
  <1>4. CASE c \in S
    <2>1. blocking[c] \in S \cap T
      BY <1>1, <1>2, <1>4
    <2>2. \A x \in S \cap T : unlock[x] \in S \cap T
      BY <1>1, <1>2
    <2>3. S \cap T = {}
      BY <2>2 DEF Acyclic
    <2>4. QED  BY <2>1, <2>3
  <1>5. QED  BY <1>3, <1>4

\* Registering keeps the invariant: c waits for a connection that will tell it.
LEMMA RegisterKeepsInv ==
    ASSUME IInv, NEW c \in Conns, Register(c)
    PROVE  IInv'
  <1> USE NoConnAssumption
  <1>1. /\ calls[c].at = "locked" /\ ~ Telling(c) /\ ~ fired[c] /\ unlock[c] = NoConn
        /\ UNCHANGED <<cache, autocommit, handle, kept, blocking>>
    BY DEF Register, Telling, IInv, WaitOK, Waiting
  <1>2. /\ calls' \in [Conns -> Call] /\ calls'[c].at \in {"wait", "idle"}
        /\ \A d \in Conns \ {c} : calls'[d] = calls[d]
        /\ blocking[c] = NoConn \/ ~ Deadlocked(c) => calls'[c].at = "wait"
        /\ blocking[c] # NoConn /\ Deadlocked(c) => calls'[c].at = "idle"
    <2> calls \in [Conns -> Call]
      BY DEF IInv, TypeOK
    <2>1. CASE calls' = Goes(c, "wait") /\ ~ (blocking[c] # NoConn /\ Deadlocked(c))
      BY <2>1, GoesType
    <2>2. CASE calls' = [calls EXCEPT ![c] = NoCall] /\ blocking[c] # NoConn /\ Deadlocked(c)
      BY <2>2, NoCallType
    <2>3. QED  BY <2>1, <2>2 DEF Register
  <1>3. /\ fired' \in [Conns -> BOOLEAN]
        /\ \A d \in Conns \ {c} : fired'[d] = fired[d]
        /\ blocking[c] = NoConn => fired'[c]
        /\ blocking[c] # NoConn => ~ fired'[c]
    BY <1>1 DEF Register, IInv, TypeOK
  <1>4. /\ unlock' = IF blocking[c] # NoConn /\ ~ Deadlocked(c)
                     THEN [unlock EXCEPT ![c] = blocking[c]] ELSE unlock
        /\ listed' = IF blocking[c] # NoConn /\ ~ Deadlocked(c)
                     THEN listed \cup {c} ELSE listed
    BY DEF Register
  <1>5. /\ unlock \in [Conns -> Conns \cup {NoConn}]
        /\ blocking \in [Conns -> Conns \cup {NoConn}] /\ listed \in SUBSET Conns
    BY DEF IInv, TypeOK
  <1>6. /\ \A d \in Conns \ {c} : unlock'[d] = unlock[d]
        /\ unlock'[c] = IF blocking[c] # NoConn /\ ~ Deadlocked(c)
                        THEN blocking[c] ELSE NoConn
    BY <1>1, <1>4, <1>5
  <1>7. TypeOK'
    <2>1. unlock' \in [Conns -> Conns \cup {NoConn}] /\ listed' \in SUBSET Conns
      BY <1>4, <1>5
    <2>2. QED  BY <1>1, <1>2, <1>3, <2>1 DEF IInv, TypeOK
  <1>8. LocksOK'
    BY <1>1 DEF IInv, LocksOK, CacheOK, Open
  <1>9. TellOK'
    BY <1>1, <1>2, <1>6, MovedTellOK
  <1>10. WaitOK'
    <2> SUFFICES ASSUME NEW d \in Conns
                 PROVE  /\ unlock'[d] # NoConn <=> Waiting(d)'
                        /\ calls'[d].at \notin {"wait", "asleep"} => ~ fired'[d]
      BY DEF WaitOK
    <2>1. CASE d # c
      BY <1>2, <1>3, <1>6, <2>1 DEF IInv, WaitOK, Waiting
    <2>2. CASE d = c /\ blocking[c] = NoConn
      <3>1. unlock'[c] = NoConn /\ fired'[c] /\ calls'[c].at = "wait"
        BY <1>2, <1>3, <1>6, <2>2
      <3>2. QED  BY <2>2, <3>1 DEF Waiting
    <2>3. CASE d = c /\ blocking[c] # NoConn /\ Deadlocked(c)
      <3>1. unlock'[c] = NoConn /\ ~ fired'[c] /\ calls'[c].at = "idle"
        BY <1>2, <1>3, <1>6, <2>3
      <3>2. QED  BY <2>3, <3>1 DEF Waiting
    <2>4. CASE d = c /\ blocking[c] # NoConn /\ ~ Deadlocked(c)
      <3>1. unlock'[c] # NoConn /\ ~ fired'[c] /\ calls'[c].at = "wait"
        BY <1>2, <1>3, <1>6, <2>4
      <3>2. QED  BY <2>4, <3>1 DEF Waiting
    <2>5. QED  BY <2>1, <2>2, <2>3, <2>4
  <1>11. CloseOK'
    <2>1. handle[c] # "closed"
      BY <1>1 DEF IInv, CloseOK
    <2>2. QED  BY <1>1, <1>2, <2>1 DEF IInv, CloseOK, Telling
  <1>12. ListOK'
    <2>1. blocking' = blocking /\ listed = {d \in Conns : blocking[d] # NoConn \/ unlock[d] # NoConn}
      BY <1>1 DEF IInv, ListOK
    <2>2. CASE blocking[c] # NoConn /\ ~ Deadlocked(c)
      BY <1>4, <1>6, <2>1, <2>2 DEF ListOK
    <2>3. CASE ~ (blocking[c] # NoConn /\ ~ Deadlocked(c))
      BY <1>4, <2>1, <2>3 DEF ListOK
    <2>4. QED  BY <2>2, <2>3
  <1>13. Acyclic'
    <2>1. CASE blocking[c] # NoConn /\ ~ Deadlocked(c)
      BY <1>4, <1>5, <2>1, RegisterAcyclic DEF IInv
    <2>2. CASE ~ (blocking[c] # NoConn /\ ~ Deadlocked(c))
      BY <1>4, <2>2 DEF IInv, Acyclic
    <2>3. QED  BY <2>1, <2>2
  <1>14. QED
    BY <1>7, <1>8, <1>9, <1>10, <1>11, <1>12, <1>13 DEF IInv

\* Looking at the flag, and waking up, keep the invariant.
LEMMA WaitKeepsInv ==
    ASSUME IInv, NEW c \in Conns, Wait(c) \/ SpuriousWake(c)
    PROVE  IInv'
  <1> USE NoConnAssumption
  <1>1. /\ calls[c].at \in {"wait", "asleep"} /\ ~ Telling(c)
        /\ UNCHANGED <<cache, autocommit, handle, kept, blocking, unlock, listed>>
    BY DEF Wait, SpuriousWake, Telling, notifyVars
  <1>2. /\ calls' \in [Conns -> Call]
        /\ \A d \in Conns \ {c} : calls'[d] = calls[d]
        /\ calls'[c].at \in {"prepare", "step", "asleep", "wait"}
    <2> calls \in [Conns -> Call]
      BY DEF IInv, TypeOK
    <2>1. calls[c].api \in {"prepare", "step"}
      BY DEF Call
    <2>2. PICK at \in {"prepare", "step", "asleep", "wait"} : calls' = Goes(c, at)
      BY <2>1 DEF Wait, SpuriousWake
    <2>3. QED  BY <2>2, GoesType
  <1>3. fired' \in [Conns -> BOOLEAN] /\ \A d \in Conns \ {c} : fired'[d] = fired[d]
    BY DEF Wait, SpuriousWake, notifyVars, IInv, TypeOK
  <1>4. /\ Waiting(c)' <=> Waiting(c)
        /\ calls'[c].at \notin {"wait", "asleep"} => ~ fired'[c]
    <2> calls \in [Conns -> Call] /\ fired \in [Conns -> BOOLEAN]
      BY DEF IInv, TypeOK
    <2>1. CASE Wait(c) /\ fired[c]
      <3>1. calls' = Goes(c, calls[c].api) /\ ~ fired'[c]
        BY <2>1 DEF Wait
      <3>2. calls[c].api \in {"prepare", "step"}
        BY DEF Call
      <3>3. calls'[c].at \in {"prepare", "step"}
        BY <3>1, <3>2, GoesType
      <3>4. ~ Waiting(c) /\ ~ Waiting(c)'
        BY <2>1, <3>3 DEF Waiting
      <3>5. QED  BY <3>1, <3>4
    <2>2. CASE Wait(c) /\ ~ fired[c]
      <3>1. calls' = Goes(c, "asleep") /\ ~ fired'[c] /\ calls[c].at = "wait"
        BY <2>2 DEF Wait
      <3>2. calls'[c].at = "asleep"
        BY <3>1, GoesType
      <3>3. QED  BY <2>2, <3>1, <3>2 DEF Waiting
    <2>3. CASE SpuriousWake(c)
      <3>1. calls' = Goes(c, "wait") /\ fired' = fired /\ calls[c].at = "asleep"
        BY <2>3 DEF SpuriousWake, notifyVars
      <3>2. calls'[c].at = "wait"
        BY <3>1, GoesType
      <3>3. QED  BY <3>1, <3>2 DEF Waiting
    <2>4. QED  BY <2>1, <2>2, <2>3
  <1>5. TypeOK'
    BY <1>1, <1>2, <1>3 DEF IInv, TypeOK
  <1>6. LocksOK'
    BY <1>1 DEF IInv, LocksOK, CacheOK, Open
  <1>7. TellOK'
    BY <1>1, <1>2, MovedTellOK
  <1>8. WaitOK'
    <2> SUFFICES ASSUME NEW d \in Conns
                 PROVE  /\ unlock'[d] # NoConn <=> Waiting(d)'
                        /\ calls'[d].at \notin {"wait", "asleep"} => ~ fired'[d]
      BY DEF WaitOK
    <2>1. CASE d = c
      BY <1>1, <1>4, <2>1 DEF IInv, WaitOK
    <2>2. CASE d # c
      BY <1>1, <1>2, <1>3, <2>2 DEF IInv, WaitOK, Waiting
    <2>3. QED  BY <2>1, <2>2
  <1>9. CloseOK'
    BY <1>1, <1>2 DEF IInv, CloseOK, Telling
  <1>10. ListOK' /\ Acyclic'
    BY <1>1 DEF IInv, ListOK, Acyclic
  <1>11. QED
    BY <1>5, <1>6, <1>7, <1>8, <1>9, <1>10 DEF IInv

\* Opening a connection and finalizing a statement.
LEMMA OpenKeepsInv ==
    ASSUME IInv, NEW c \in Conns, open(c) \/ finalize_statement(c)
    PROVE  IInv'
  <1>1. /\ UNCHANGED <<cache, autocommit, calls, blocking, unlock, listed, fired>>
        /\ handle' \in [Conns -> {"open", "closed", "leaked"}]
        /\ kept' \in SUBSET Conns
        /\ \A d \in Conns : handle'[d] = "closed" => handle[d] = "closed"
    BY DEF open, finalize_statement, notifyVars, IInv, TypeOK
  <1>2. TypeOK' /\ LocksOK'
    BY <1>1 DEF IInv, TypeOK, LocksOK, CacheOK, Open
  <1>3. TellOK' /\ WaitOK'
    BY <1>1 DEF IInv, TellOK, WaitOK, Telling, Waiting
  <1>4. CloseOK' /\ ListOK' /\ Acyclic'
    BY <1>1 DEF IInv, CloseOK, ListOK, Acyclic, Telling
  <1>5. QED  BY <1>2, <1>3, <1>4 DEF IInv

(***************************************************************************)
(* The theorems.                                                            *)
(***************************************************************************)

\* Every step keeps the invariant.
LEMMA NextKeepsInv == IInv /\ [Next]_vars => IInv'
  <1> SUFFICES ASSUME IInv, [Next]_vars PROVE IInv'
    OBVIOUS
  <1>1. CASE UNCHANGED vars
    <2>1. UNCHANGED <<cache, autocommit, calls, handle, kept, blocking, unlock, listed, fired>>
      BY <1>1 DEF vars, notifyVars
    <2>2. TypeOK' /\ LocksOK'
      BY <2>1 DEF IInv, TypeOK, LocksOK, CacheOK, Open
    <2>3. TellOK' /\ WaitOK'
      BY <2>1 DEF IInv, TellOK, WaitOK, Telling, Waiting
    <2>4. CloseOK' /\ ListOK' /\ Acyclic'
      BY <2>1 DEF IInv, CloseOK, ListOK, Acyclic, Telling
    <2>5. QED  BY <2>2, <2>3, <2>4 DEF IInv
  <1>2. ASSUME NEW c \in Conns, NEW op \in Ops, Begin(c, op) PROVE IInv'
    BY <1>2, OpsAssumption, BeginRuns, RunsKeepsInv
  <1>3. ASSUME NEW c \in Conns, Prepare(c) PROVE IInv'
    BY <1>3, PrepareRuns, RunsKeepsInv
  <1>4. ASSUME NEW c \in Conns, Step(c) PROVE IInv'
    <2>1. AutoCommit(c) \/ Access(c)
      BY <1>4 DEF Step
    <2>2. QED  BY <1>4, <2>1, AutoCommitRuns, AccessRuns, RunsKeepsInv
  <1>5. ASSUME NEW c \in Conns, Reset(c) PROVE IInv'
    BY <1>5, ResetRuns, RunsKeepsInv
  <1>6. ASSUME NEW c \in Conns, Unlocked(c) PROVE IInv'
    BY <1>6, UnlockedTells, TellsKeepsInv
  <1>7. ASSUME NEW c \in Conns, Register(c) PROVE IInv'
    BY <1>7, RegisterKeepsInv
  <1>8. ASSUME NEW c \in Conns, Wait(c) \/ SpuriousWake(c) PROVE IInv'
    BY <1>8, WaitKeepsInv
  <1>9. ASSUME NEW c \in Conns, ConnectionClosed(c) PROVE IInv'
    BY <1>9, ClosedTells, TellsKeepsInv
  <1>10. ASSUME NEW c \in Conns, finalize_connection(c) PROVE IInv'
    BY <1>10, FinalizeRuns, RunsKeepsInv
  <1>11. ASSUME NEW c \in Conns, open(c) \/ finalize_statement(c) PROVE IInv'
    BY <1>11, OpenKeepsInv
  <1>12. QED
    BY <1>1, <1>2, <1>3, <1>4, <1>5, <1>6, <1>7, <1>8, <1>9, <1>10, <1>11
    DEF Next, Native

\* The inductive invariant holds in every reachable state.
LEMMA InvHolds == Spec => []IInv
  <1>1. QED  BY InitInv, NextKeepsInv, PTL DEF Spec

\* How LockManager sees the connections.
Active == {c \in Conns : cache.txn[c] # "none" \/ Telling(c)}
Waits == [c \in Conns |-> IF Waiting(c) THEN {unlock[c]} ELSE {}]

\* A step that the lock manager does not see.
Unseen == cache'.locks = cache.locks /\ Active' = Active /\ Waits' = Waits

\* Before and after a step, whom a connection waits for is whom it is
\* registered with.
LEMMA WaitsAreUnlocks ==
    ASSUME IInv, IInv', NEW c \in Conns
    PROVE  /\ Waits[c] = {d \in Conns : unlock[c] = d}
           /\ Waits'[c] = {d \in Conns : unlock'[c] = d}
  <1> USE NoConnAssumption
  <1>1. unlock[c] \in Conns \cup {NoConn} /\ unlock'[c] \in Conns \cup {NoConn}
    BY DEF IInv, TypeOK
  <1>2. (unlock[c] # NoConn <=> Waiting(c)) /\ (unlock'[c] # NoConn <=> Waiting(c)')
    BY DEF IInv, WaitOK
  <1>3. QED  BY <1>1, <1>2 DEF Waits

\* Where no transaction begins or ends, locks stay and waits stay, the lock
\* manager sees nothing.
LEMMA SameUnseen ==
    ASSUME IInv, IInv', cache' = cache, unlock' = unlock,
           \A d \in Conns : Telling(d)' <=> Telling(d)
    PROVE  Unseen
  <1>1. \A c \in Conns : Waits'[c] = Waits[c]
    BY DEF Waits, IInv, WaitOK
  <1>2. Waits' = Waits
    BY <1>1 DEF Waits
  <1>3. QED  BY <1>2 DEF Unseen, Active

\* A section that runs grows locks, releases all of them, or is not seen.
LEMMA RunsRefines ==
    ASSUME IInv, IInv', NEW c \in Conns, Runs(c)
    PROVE  Unseen \/ Manager!Grow(c) \/ Manager!Release(c)
  <1> USE NoConnAssumption
  <1>1. Waits' = Waits /\ Waits[c] = {}
    <2>1. \A d \in Conns : Waiting(d)' <=> Waiting(d)
      BY DEF Runs, IInv, WaitOK
    <2>2. ~ Waiting(c)
      BY DEF Runs, Waiting
    <2>3. QED  BY <2>1, <2>2 DEF Waits, Runs
  <1>2. /\ cache.locks \in [Conns -> [AllTables -> LockKinds]]
        /\ cache'.locks \in [Conns -> [AllTables -> LockKinds]]
        /\ cache'.locks = [cache.locks EXCEPT ![c] = cache'.locks[c]]
    BY DEF Runs, IInv, TypeOK, Cache
  <1>3. \A d \in Conns \ {c} : d \in Active' <=> d \in Active
    BY DEF Runs, Active, Telling
  <1>4. CASE Releases(c)
    <2>1. cache'.locks[c] = Manager!Nothing
      BY <1>2, <1>4 DEF Releases, IInv, LocksOK, CacheOK, Manager!Nothing
    <2>2. Active' = Active \cup {c}
      BY <1>3, <1>4 DEF Releases, Active
    <2>3. Manager!Release(c)
      BY <1>1, <1>2, <2>1, <2>2 DEF Manager!Release, Active, Waits
    <2>4. QED  BY <2>3
  <1>5. CASE Locks(c) /\ cache'.txn[c] = "none"
    <2>1. cache.txn[c] = "none" /\ ~ Telling(c) /\ ~ Telling(c)'
      BY <1>5, KeepsTransaction DEF Locks, IInv, Runs, Telling
    <2>2. cache'.locks[c] = cache.locks[c]
      BY <1>2, <1>5, <2>1 DEF IInv, LocksOK, CacheOK
    <2>3. Active' = Active
      BY <1>3, <1>5, <2>1 DEF Active
    <2>4. QED  BY <1>1, <1>2, <2>2, <2>3 DEF Unseen
  <1>6. CASE Locks(c) /\ cache'.txn[c] # "none"
    <2> DEFINE l == cache'.locks[c]
    <2>1. l # Manager!Nothing
      BY <1>6 DEF IInv, LocksOK, CacheOK, Manager!Nothing, AllTables
    <2>2. Manager!Raises(cache.locks[c], l)
      BY <1>6 DEF Locks, Raises, Manager!Raises
    <2>3. Manager!Compatible(cache'.locks)
      BY DEF IInv, LocksOK, CacheOK, Manager!Compatible
    <2>4. Active' = Active \cup {c}
      BY <1>3, <1>6 DEF Active
    <2>5. l \in [AllTables -> {"none", "read", "write"}]
      BY <1>2 DEF LockKinds
    <2>6. Manager!Grow(c)
      BY <1>1, <1>2, <2>1, <2>2, <2>3, <2>4, <2>5 DEF Manager!Grow, Active, Waits
    <2>7. QED  BY <2>6
  <1>7. QED  BY <1>4, <1>5, <1>6 DEF Runs

\* Telling the waiters ends all waits for c in one step.
LEMMA TellsRefines ==
    ASSUME IInv, IInv', NEW c \in Conns, Tells(c)
    PROVE  Manager!Tell(c)
  <1> USE NoConnAssumption
  <1>1. c \in Active /\ cache.locks[c] = Manager!Nothing /\ cache'.locks = cache.locks
    BY DEF Tells, Active, IInv, CloseOK, LocksOK, CacheOK, TypeOK, Cache, Manager!Nothing
  <1>2. \A d \in Conns \ {c} : Telling(d)' <=> Telling(d)
    BY ToldType DEF Tells, Telling
  <1>3. Active' = Active \ {c}
    BY <1>2 DEF Tells, Active, IInv, CloseOK, Telling
  <1>4. \A d \in Conns : Waits'[d] = Waits[d] \ {c}
    BY WaitsAreUnlocks DEF Tells, StillRegistered, IInv, TypeOK
  <1>5. Waits' = [d \in Conns |-> Waits[d] \ {c}]
    BY <1>4 DEF Waits
  <1>6. QED
    BY <1>1, <1>3, <1>5 DEF Manager!Tell, Active, Waits

\* A connection that registers begins to wait for the one in its way, which is
\* active and does not wait for it, or does not wait.
LEMMA RegisterRefines ==
    ASSUME IInv, IInv', NEW c \in Conns, Register(c)
    PROVE  Unseen \/ \E d \in Conns : Manager!Wait(c, d)
  <1> USE NoConnAssumption
  <1>1. /\ calls[c].at = "locked" /\ unlock[c] = NoConn /\ cache' = cache
        /\ unlock \in [Conns -> Conns \cup {NoConn}]
        /\ blocking \in [Conns -> Conns \cup {NoConn}]
    BY DEF Register, IInv, TypeOK, WaitOK, Waiting
  <1>2. \A d \in Conns : Telling(d)' <=> Telling(d)
    <2> calls \in [Conns -> Call]
      BY DEF IInv, TypeOK
    <2>1. PICK at \in {"wait", "idle"} :
            calls' = Goes(c, at) \/ (calls' = [calls EXCEPT ![c] = NoCall] /\ at = "idle")
      BY DEF Register
    <2>2. calls'[c].at = at /\ \A d \in Conns \ {c} : calls'[d] = calls[d]
      BY <2>1, GoesType, NoCallType
    <2>3. QED  BY <1>1, <2>2 DEF Telling
  <1>3. CASE unlock' = unlock
    BY <1>1, <1>2, <1>3, SameUnseen
  <1>4. CASE /\ blocking[c] # NoConn /\ ~ Deadlocked(c)
             /\ unlock' = [unlock EXCEPT ![c] = blocking[c]]
    <2>1. PICK d \in Conns : d = blocking[c] /\ d \in Active
      BY <1>1, <1>4 DEF Active, IInv, TellOK
    <2>2. PICK T \in SUBSET Conns :
            d \in T /\ c \notin T /\ \A x \in T : unlock[x] \in Conns => unlock[x] \in T
      BY <1>4, <2>1 DEF Deadlocked, Chain
    <2>3. \A q \in T : Waits[q] \subseteq T
      BY <2>2, WaitsAreUnlocks
    <2>4. Waits[c] = {}
      BY <1>1, WaitsAreUnlocks
    <2>5. Waits' = [Waits EXCEPT ![c] = {d}]
      <3>1. \A x \in Conns : Waits'[x] = IF x = c THEN {d} ELSE Waits[x]
        <4> TAKE x \in Conns
        <4>1. CASE x = c
          <5>1. unlock'[c] = d
            BY <1>1, <1>4, <2>1
          <5>2. Waits'[c] = {e \in Conns : unlock'[c] = e}
            BY WaitsAreUnlocks
          <5>3. QED  BY <2>1, <4>1, <5>1, <5>2
        <4>2. CASE x # c
          BY <1>1, <1>4, <4>2, WaitsAreUnlocks
        <4>3. QED  BY <4>1, <4>2
      <3>2. QED  BY <3>1 DEF Waits
    <2>6. cache'.locks = cache.locks /\ Active' = Active
      BY <1>1, <1>2 DEF Active
    <2>7. Manager!Apart(c, d)
      BY <2>2, <2>3 DEF Manager!Apart, Waits
    <2>8. Manager!Wait(c, d)
      BY <2>1, <2>4, <2>5, <2>6, <2>7 DEF Manager!Wait, Active, Waits
    <2>9. QED  BY <2>1, <2>8
  <1>5. QED  BY <1>3, <1>4 DEF Register

\* The other steps are not seen.
LEMMA OthersUnseen ==
    ASSUME IInv, IInv',
           \/ UNCHANGED vars
           \/ \E c \in Conns : Wait(c) \/ SpuriousWake(c) \/ open(c) \/ finalize_statement(c)
    PROVE  Unseen
  <1>1. UNCHANGED <<cache, unlock>>
    BY DEF vars, Wait, SpuriousWake, open, finalize_statement, notifyVars
  <1>2. \A d \in Conns : Telling(d)' <=> Telling(d)
    <2> calls \in [Conns -> Call]
      BY DEF IInv, TypeOK
    <2>1. CASE calls' = calls
      BY <2>1 DEF Telling
    <2>2. ASSUME NEW c \in Conns, Wait(c) \/ SpuriousWake(c)
          PROVE  \A d \in Conns : Telling(d)' <=> Telling(d)
      <3>1. calls[c].at \in {"wait", "asleep"} /\ calls[c].api \in {"prepare", "step"}
        BY <2>2 DEF Wait, SpuriousWake, Call
      <3>2. PICK at \in {"prepare", "step", "asleep", "wait"} : calls' = Goes(c, at)
        BY <2>2, <3>1 DEF Wait, SpuriousWake
      <3>3. calls'[c].at = at /\ \A d \in Conns \ {c} : calls'[d] = calls[d]
        BY <3>2, GoesType
      <3>4. QED  BY <3>1, <3>3 DEF Telling
    <2>3. QED  BY <2>1, <2>2 DEF vars, open, finalize_statement
  <1>3. QED  BY <1>1, <1>2, SameUnseen

\* Every step is a step of the lock manager or none.
LEMMA NextRefines ==
    ASSUME IInv, IInv', [Next]_vars
    PROVE  [Manager!LNext]_(Manager!lvars)
  <1>1. CASE Unseen
    BY <1>1 DEF Unseen, Active, Waits, Manager!lvars
  <1>2. ASSUME NEW c \in Conns, Runs(c) PROVE [Manager!LNext]_(Manager!lvars)
    BY <1>1, <1>2, RunsRefines DEF Manager!LNext
  <1>3. ASSUME NEW c \in Conns, Tells(c) PROVE [Manager!LNext]_(Manager!lvars)
    BY <1>3, TellsRefines DEF Manager!LNext
  <1>4. ASSUME NEW c \in Conns, NEW op \in Ops, Begin(c, op) PROVE [Manager!LNext]_(Manager!lvars)
    BY <1>2, <1>4, OpsAssumption, BeginRuns
  <1>5. ASSUME NEW c \in Conns, Prepare(c) \/ Reset(c) PROVE [Manager!LNext]_(Manager!lvars)
    BY <1>2, <1>5, PrepareRuns, ResetRuns
  <1>6. ASSUME NEW c \in Conns, Step(c) PROVE [Manager!LNext]_(Manager!lvars)
    <2>1. AutoCommit(c) \/ Access(c)
      BY <1>6 DEF Step
    <2>2. QED  BY <1>2, <1>6, <2>1, AutoCommitRuns, AccessRuns
  <1>7. ASSUME NEW c \in Conns, Unlocked(c) \/ ConnectionClosed(c)
        PROVE  [Manager!LNext]_(Manager!lvars)
    BY <1>3, <1>7, UnlockedTells, ClosedTells
  <1>8. ASSUME NEW c \in Conns, Register(c) PROVE [Manager!LNext]_(Manager!lvars)
    BY <1>1, <1>8, RegisterRefines DEF Manager!LNext
  <1>9. ASSUME NEW c \in Conns, finalize_connection(c) PROVE [Manager!LNext]_(Manager!lvars)
    BY <1>2, <1>9, FinalizeRuns
  <1>10. CASE \/ UNCHANGED vars
              \/ \E c \in Conns : Wait(c) \/ SpuriousWake(c) \/ open(c) \/ finalize_statement(c)
    BY <1>1, <1>10, OthersUnseen
  <1>11. QED
    BY <1>4, <1>5, <1>6, <1>7, <1>8, <1>9, <1>10 DEF Next, Native

\* Every variable keeps its type, whatever connections, threads and SQL there are.
THEOREM TypeCorrect == Spec => []TypeOK
  <1>1. IInv => TypeOK
    BY DEF IInv
  <1>2. QED  BY <1>1, InvHolds, PTL

\* The table locks exclude writers from each other and from readers, and new
\* transactions are kept out only for a writer that others hold up (btree.c).
THEOREM LocksExclude == Spec => []LocksOK
  <1>1. IInv => LocksOK
    BY DEF IInv
  <1>2. QED  BY <1>1, InvHolds, PTL

\* The list of notify.c is what checkListProperties says, and nothing in it
\* refers to a connection that sqlite3_close has freed.
THEOREM ListRefersToLive == Spec => []ListProperties
  <1>1. IInv => ListProperties
    <2> SUFFICES ASSUME IInv PROVE ListProperties
      OBVIOUS
    <2> USE NoConnAssumption
    <2>1. \A c \in Conns : handle[c] = "closed" => blocking[c] = NoConn /\ unlock[c] = NoConn
      BY DEF IInv, CloseOK, WaitOK, Waiting
    <2>2. \A c, d \in Conns : handle[c] = "closed" => blocking[d] # c /\ unlock[d] # c
      BY DEF IInv, CloseOK, TellOK, Telling
    <2>3. QED  BY <2>1, <2>2 DEF IInv, ListOK, ListProperties
  <1>2. QED  BY <1>1, InvHolds, PTL

\* A waiting thread is registered with a connection that has yet to tell it:
\* no interleaving of a wait with an unlock loses the wakeup.
THEOREM WakeupsAreNotLost == Spec => []NoLostWakeup
  <1>1. IInv => NoLostWakeup
    <2> SUFFICES ASSUME IInv, NEW c \in Conns, Waiting(c)
                 PROVE  /\ unlock[c] # NoConn
                        /\ cache.txn[unlock[c]] # "none" \/ Telling(unlock[c])
      BY DEF NoLostWakeup
    <2>1. unlock[c] # NoConn /\ unlock[c] \in Conns
      BY DEF IInv, WaitOK, TypeOK
    <2>2. QED  BY <2>1 DEF IInv, TellOK
  <1>2. QED  BY <1>1, InvHolds, PTL

\* unlock_notify_cb is never given the address of a call that has returned.
THEOREM CallbackArgumentLives == Spec => []CallbackArgument
  <1>1. IInv => CallbackArgument
    BY DEF IInv, WaitOK, CallbackArgument
  <1>2. QED  BY <1>1, InvHolds, PTL

\* The check of sqlite3_unlock_notify keeps connections from waiting for each
\* other in a circle, however long.
THEOREM NoCircle == Spec => []NoWaitCycle
  <1>1. IInv => NoWaitCycle
    BY DEF IInv, Acyclic, NoWaitCycle
  <1>2. QED  BY <1>1, InvHolds, PTL

\* Whoever waits, waits in the end for a connection that does not wait and has
\* yet to end its transaction or to tell its waiters: the chain from c, that is
\* each set T that holds c and whom its members wait for, reaches one.
THEOREM EveryChainEnds ==
    Spec => [](\A c \in Conns, T \in SUBSET Conns :
                  /\ Waiting(c) /\ c \in T
                  /\ \A d \in T : Waiting(d) => unlock[d] \in T
                  => \E d \in T : ~ Waiting(d) /\ (cache.txn[d] # "none" \/ Telling(d)))
<1> DEFINE A == \A c \in Conns, T \in SUBSET Conns :
                  /\ Waiting(c) /\ c \in T
                  /\ \A d \in T : Waiting(d) => unlock[d] \in T
                  => \E d \in T : ~ Waiting(d) /\ (cache.txn[d] # "none" \/ Telling(d))
<1>1. ASSUME NoWaitCycle, NoLostWakeup, NEW c \in Conns, NEW T \in SUBSET Conns,
             Waiting(c), c \in T, \A d \in T : Waiting(d) => unlock[d] \in T
      PROVE  \E d \in T : ~ Waiting(d) /\ (cache.txn[d] # "none" \/ Telling(d))
  <2>1. PICK S \in SUBSET T : S = {d \in T : Waiting(d)}
    OBVIOUS
  <2>2. c \in S /\ S \in SUBSET Conns
    BY <1>1, <2>1
  <2>3. PICK d \in S : ~ (Waiting(d) /\ unlock[d] \in S)
    BY <1>1, <2>2 DEF NoWaitCycle
  <2>4. unlock[d] \in T /\ ~ Waiting(unlock[d])
    BY <1>1, <2>1, <2>3
  <2>5. cache.txn[unlock[d]] # "none" \/ Telling(unlock[d])
    BY <1>1, <2>1, <2>2, <2>3 DEF NoLostWakeup
  <2>6. QED
    BY <2>4, <2>5
<1>2. NoWaitCycle /\ NoLostWakeup => A
  BY <1>1
<1>3. QED
  BY <1>2, NoCircle, WakeupsAreNotLost, PTL

\* The connections are a lock manager: whatever they run and however it
\* interleaves, each step grows the locks of one connection, gives all of them
\* up, tells all its waiters at once, lets it wait without closing a circle, or
\* changes neither locks nor waits.
THEOREM ConnectionsManageLocks == Spec => ImplementsLockManager
  <1>1. Init => Manager!LInit
    <2> SUFFICES ASSUME Init PROVE Manager!LInit
      OBVIOUS
    <2>1. cache.locks = [c \in Conns |-> Manager!Nothing]
      BY DEF Init, Manager!Nothing
    <2>2. \A c \in Conns : cache.txn[c] = "none" /\ calls[c].at = "idle"
      BY DEF Init, NoCall
    <2>3. Active = {} /\ Waits = [c \in Conns |-> {}]
      BY <2>2 DEF Active, Telling, Waits, Waiting
    <2>4. QED  BY <2>1, <2>3 DEF Manager!LInit, Active, Waits
  <1>2. IInv /\ IInv' /\ [Next]_vars => [Manager!LNext]_(Manager!lvars)
    BY NextRefines
  <1>3. QED
    BY <1>1, <1>2, InvHolds, PTL DEF Spec, ImplementsLockManager, Manager!LSpec

\* Where no thread uses two connections, no thread waits for itself: the
\* circles that sqlite3_unlock_notify cannot see all go through a thread with
\* several connections.
THEOREM SeparateThreadsNotStuck ==
    ASSUME \A c, d \in Conns : Thread[c] = Thread[d] => c = d
    PROVE  Spec => []ThreadsNotStuck
  <1>1. IInv => ThreadsNotStuck
    <2> SUFFICES ASSUME IInv, NEW S \in SUBSET {Thread[c] : c \in Conns},
                        \A th \in S : \E c \in Conns :
                            Thread[c] = th /\ Waiting(c) /\ Thread[unlock[c]] \in S
                 PROVE  S = {}
      BY DEF ThreadsNotStuck
    <2> DEFINE T == {c \in Conns : Thread[c] \in S}
    <2>1. ASSUME NEW c \in T PROVE unlock[c] \in T
      <3>1. PICK d \in Conns : Thread[d] = Thread[c] /\ Waiting(d) /\ Thread[unlock[d]] \in S
        OBVIOUS
      <3>2. d = c
        BY <3>1
      <3>3. unlock[d] \in Conns
        BY <3>1 DEF IInv, WaitOK, TypeOK
      <3>4. QED  BY <3>1, <3>2, <3>3
    <2>2. T = {}
      BY <2>1 DEF IInv, Acyclic
    <2>3. QED  BY <2>2
  <1>2. QED  BY <1>1, InvHolds, PTL

----------------------------------------------------------------------------
(* Programs that keep no prepared statement.                                *)

\* The call on c does not prepare a statement to keep.
Spends(c) == calls[c].at \notin {"idle", "closing"} => calls[c].op.sql # "prepare"

\* No statement is kept, so no connection is lost with its locks.
NoneKept ==
    /\ kept = {} /\ \A c \in Conns : handle[c] # "leaked"
    /\ \A c \in Conns : Spends(c)

\* A call keeps its SQL while it lasts.
LEMMA SameOp ==
    ASSUME calls \in [Conns -> Call], NEW c \in Conns, NEW k,
           calls' = [calls EXCEPT ![c] = k],
           \/ k.op = calls[c].op /\ calls[c].at \notin {"idle", "closing"}
           \/ k.at = "idle",
           \A d \in Conns : Spends(d)
    PROVE  \A d \in Conns : Spends(d)'
  BY DEF Spends

\* Halting keeps it too.
LEMMA HaltSameOp ==
    ASSUME calls \in [Conns -> Call], NEW c \in Conns, NEW b, NEW auto, NEW place, NEW then,
           Halt(c, b, auto, place, then), calls[c].at \notin {"idle", "closing"},
           \A d \in Conns : Spends(d)
    PROVE  \A d \in Conns : Spends(d)'
  <1>1. PICK k : calls' = [calls EXCEPT ![c] = k] /\ (k.op = calls[c].op \/ k.at = "idle")
    <2>1. CASE calls' = [calls EXCEPT ![c].at = place, ![c].then = then]
      <3>1. [calls[c] EXCEPT !.at = place, !.then = then].op = calls[c].op
        BY DEF Call
      <3>2. calls' = [calls EXCEPT ![c] = [calls[c] EXCEPT !.at = place, !.then = then]]
        BY <2>1
      <3>3. QED  BY <3>1, <3>2
    <2>2. CASE calls' = [calls EXCEPT ![c] = NoCall]
      BY <2>2, NoCallType
    <2>3. CASE calls' = Goes(c, then)
      <3>1. [calls[c] EXCEPT !.at = then].op = calls[c].op
        BY DEF Call
      <3>2. calls' = [calls EXCEPT ![c] = [calls[c] EXCEPT !.at = then]]
        BY <2>3 DEF Goes
      <3>3. QED  BY <3>1, <3>2
    <2>4. QED  BY <2>1, <2>2, <2>3 DEF Halt
  <1>2. QED  BY <1>1, SameOp

\* A call that moves keeps it.
LEMMA GoesSameOp ==
    ASSUME calls \in [Conns -> Call], NEW c \in Conns, NEW at,
           calls' = Goes(c, at) \/ calls' = [calls EXCEPT ![c] = NoCall],
           calls[c].at \notin {"idle", "closing"}, \A d \in Conns : Spends(d)
    PROVE  \A d \in Conns : Spends(d)'
  <1>1. CASE calls' = Goes(c, at)
    <2>1. [calls[c] EXCEPT !.at = at].op = calls[c].op
      BY DEF Call
    <2>2. calls' = [calls EXCEPT ![c] = [calls[c] EXCEPT !.at = at]]
      BY <1>1 DEF Goes
    <2>3. QED  BY <2>1, <2>2, SameOp
  <1>2. CASE calls' = [calls EXCEPT ![c] = NoCall]
    BY <1>2, NoCallType, SameOp
  <1>3. QED  BY <1>1, <1>2

\* So does telling the waiters.
LEMMA ToldSameOp ==
    ASSUME IInv, NEW c \in Conns, Unlocked(c) \/ ConnectionClosed(c), \A d \in Conns : Spends(d)
    PROVE  \A d \in Conns : Spends(d)'
  <1>1. calls \in [Conns -> Call] /\ Told(c) \in [Conns -> Call]
    BY ToldType DEF IInv, TypeOK
  <1>2. c \notin Hits(c)
    BY TellingIsRegistered DEF Unlocked, ConnectionClosed, Telling
  <1>3. \A d \in Conns : /\ Told(c)[d].op = calls[d].op
                         /\ Told(c)[d].at \in {calls[d].at, "wait"}
                         /\ Told(c)[d].at # calls[d].at => calls[d].at = "asleep"
    <2>1. \A d \in Conns : Told(c)[d].op = calls[d].op
      BY <1>1 DEF Told, Call
    <2>2. \A d \in Conns : Told(c)[d].at = IF d \in Hits(c) /\ calls[d].at = "asleep"
                                           THEN "wait" ELSE calls[d].at
      BY ToldType
    <2>3. QED  BY <2>1, <2>2
  <1>4. \A d \in Conns \ {c} : calls'[d] = Told(c)[d]
    BY <1>1 DEF Unlocked, ConnectionClosed
  <1>5. ASSUME NEW d \in Conns \ {c} PROVE Spends(d)'
    <2>1. calls'[d].op = calls[d].op /\ (calls[d].at \in {"idle", "closing"} => calls'[d].at = calls[d].at)
      BY <1>3, <1>4
    <2>2. QED  BY <2>1 DEF Spends
  <1>6. Spends(c)'
    <2>1. CASE calls'[c] = NoCall
      BY <2>1, NoCallType DEF Spends
    <2>2. CASE Unlocked(c) /\ calls'[c] = [Told(c)[c] EXCEPT !.at = "locked", !.then = "idle"]
      <3>1. calls'[c].op = Told(c)[c].op
        BY <1>1, <2>2 DEF Call
      <3>2. calls[c].at \notin {"idle", "closing"}
        BY <2>2 DEF Unlocked
      <3>3. QED  BY <1>3, <3>1, <3>2 DEF Spends
    <2>3. QED  BY <1>1, <2>1, <2>2 DEF Unlocked, ConnectionClosed
  <1>7. QED  BY <1>5, <1>6

\* Every step of such a program keeps no statement.
LEMMA NextKeepsNone ==
    ASSUME \A op \in Ops : op.sql # "prepare", IInv, IInv', NoneKept, [Next]_vars
    PROVE  NoneKept'
  <1> USE DEF NoneKept
  <1>1. calls \in [Conns -> Call] /\ handle \in [Conns -> {"open", "closed", "leaked"}]
    BY DEF IInv, TypeOK
  <1>2. CASE UNCHANGED <<calls, handle, kept>>
    BY <1>2 DEF Spends
  <1>3. ASSUME NEW c \in Conns, NEW op \in Ops, Begin(c, op) PROVE NoneKept'
    <2>1. PICK api : calls' = [calls EXCEPT ![c] = [at |-> api, api |-> api,
                                                   then |-> "idle", op |-> op]]
      BY <1>3 DEF Begin
    <2>2. calls'[c].op = op /\ \A d \in Conns \ {c} : calls'[d] = calls[d]
      BY <1>1, <2>1
    <2>3. \A d \in Conns : Spends(d)'
      BY <2>2, OpsAssumption DEF Spends
    <2>4. QED  BY <1>3, <2>3 DEF Begin
  <1>4. ASSUME NEW c \in Conns, Prepare(c) PROVE NoneKept'
    <2>1. calls[c].at = "prepare" /\ calls[c].op.sql # "prepare"
      BY <1>4 DEF Prepare, Spends
    <2>2. CASE calls' = [calls EXCEPT ![c].at = "step", ![c].api = "step"] /\ kept' = kept
      <3>1. [calls[c] EXCEPT !.at = "step", !.api = "step"].op = calls[c].op
        BY <1>1 DEF Call
      <3>2. calls' = [calls EXCEPT ![c] = [calls[c] EXCEPT !.at = "step", !.api = "step"]]
        BY <2>2
      <3>3. \A d \in Conns : Spends(d)'
        BY <1>1, <2>1, <3>1, <3>2, SameOp
      <3>4. QED  BY <1>4, <2>2, <3>3 DEF Prepare
    <2>3. CASE calls' = Goes(c, "locked") /\ kept' = kept
      <3>1. \A d \in Conns : Spends(d)'
        BY <1>1, <2>1, <2>3, GoesSameOp
      <3>2. QED  BY <1>4, <2>3, <3>1 DEF Prepare
    <2>4. QED  BY <1>4, <2>1, <2>2, <2>3 DEF Prepare
  <1>5. ASSUME NEW c \in Conns, Step(c) \/ Reset(c) PROVE NoneKept'
    <2>1. calls[c].at \notin {"idle", "closing"} /\ UNCHANGED <<handle, kept>>
      BY <1>5 DEF Step, Reset
    <2>2. \/ \E b, auto, place, then : Halt(c, b, auto, place, then)
          \/ calls' = Goes(c, "row")
      BY <1>5 DEF Step, Reset, AutoCommit, Access
    <2>3. QED  BY <1>1, <2>1, <2>2, HaltSameOp, GoesSameOp
  <1>6. ASSUME NEW c \in Conns, Unlocked(c) \/ ConnectionClosed(c) PROVE NoneKept'
    <2>1. \A d \in Conns : Spends(d)'
      BY <1>6, ToldSameOp
    <2>2. kept' = kept /\ \A d \in Conns : handle'[d] # "leaked"
      BY <1>1, <1>6 DEF Unlocked, ConnectionClosed
    <2>3. QED  BY <2>1, <2>2
  <1>7. ASSUME NEW c \in Conns, Register(c) \/ Wait(c) \/ SpuriousWake(c) PROVE NoneKept'
    <2>1. calls[c].at \notin {"idle", "closing"} /\ UNCHANGED <<handle, kept>>
      BY <1>7 DEF Register, Wait, SpuriousWake
    <2>2. (\E at : calls' = Goes(c, at)) \/ calls' = [calls EXCEPT ![c] = NoCall]
      BY <1>7 DEF Register, Wait, SpuriousWake
    <2>3. QED  BY <1>1, <2>1, <2>2, GoesSameOp
  <1>8. ASSUME NEW c \in Conns, finalize_connection(c) PROVE NoneKept'
    <2>1. calls' = Goes(c, "closing") /\ UNCHANGED <<handle, kept>>
      BY <1>8 DEF finalize_connection
    <2>2. calls'[c].at = "closing" /\ \A d \in Conns \ {c} : calls'[d] = calls[d]
      BY <1>1, <2>1, GoesType
    <2>3. QED  BY <2>1, <2>2 DEF Spends
  <1>9. ASSUME NEW c \in Conns, open(c) \/ finalize_statement(c) PROVE NoneKept'
    BY <1>1, <1>9 DEF open, finalize_statement, Spends
  <1>10. QED
    BY <1>2, <1>3, <1>4, <1>5, <1>6, <1>7, <1>8, <1>9 DEF Next, Native, vars

\* When programs keep no prepared statement, a connection whose object was
\* finalized holds no lock: it is only lost with them when sqlite3_close finds
\* a statement that is alive.
THEOREM FinalizedWithoutStatements ==
    ASSUME \A op \in Ops : op.sql # "prepare"
    PROVE  Spec => []FinalizedHoldsNothing
  <1>1. Init => NoneKept
    BY DEF Init, NoneKept, Spends, NoCall
  <1>2. IInv /\ IInv' /\ NoneKept /\ [Next]_vars => NoneKept'
    BY NextKeepsNone
  <1>3. IInv /\ NoneKept => FinalizedHoldsNothing
    BY DEF IInv, TypeOK, CloseOK, NoneKept, FinalizedHoldsNothing
  <1>4. QED  BY <1>1, <1>2, <1>3, InvHolds, PTL DEF Spec
=============================================================================
