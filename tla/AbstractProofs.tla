--------------------------- MODULE AbstractProofs ---------------------------
(***************************************************************************)
(* What the abstract specifications promise, whatever implements them: for  *)
(* all rows (AtomicStore), and for all owners and objects (LockManager).    *)
(***************************************************************************)
EXTENDS AtomicStore, LockManager, TLAPS

----------------------------------------------------------------------------
(* AtomicStore.                                                             *)

\* What can be read contains what is committed, and no committed row violates a
\* foreign key, although an open transaction may hold such rows.
THEOREM StoreConsistent == ASpec => []Consistent
<1>1. AInit => Consistent
  BY DEF AInit, Consistent
<1>2. ASSUME Consistent, [ANext]_avars PROVE Consistent'
  <2>1. CASE UNCHANGED avars
    BY <1>2, <2>1 DEF Consistent, avars
  <2>2. CASE Begin
    BY <1>2, <2>2 DEF Consistent, Begin
  <2>3. CASE Commit
    BY <1>2, <2>3 DEF Consistent, Commit
  <2>4. CASE Abort
    BY <1>2, <2>4 DEF Consistent, Abort
  <2>5. ASSUME NEW w \in Row, InsertAndCommit(w) PROVE Consistent'
    BY <1>2, <2>5 DEF Consistent, InsertAndCommit
  <2>6. ASSUME NEW w \in Row, Insert(w) PROVE Consistent'
    BY <1>2, <2>6 DEF Consistent, Insert
  <2>7. ASSUME NEW rows \in SUBSET view, Undo(rows) PROVE Consistent'
    BY <1>2, <2>7 DEF Consistent, Undo
  <2>8. QED
    BY <1>2, <2>1, <2>2, <2>3, <2>4, <2>5, <2>6, <2>7 DEF ANext
<1>3. QED
  BY <1>1, <1>2, PTL DEF ASpec

\* A committed row is never taken back, and a transaction is committed as a whole.
THEOREM StoreDurable == ASpec => Durable
<1> DEFINE A == /\ committed \subseteq committed'
                /\ \/ committed' = committed
                   \/ open /\ committed' = view
                   \/ ~ open /\ \E w \in Row : committed' = committed \cup {w}
<1>1. ASSUME Consistent, ANext PROVE A
  <2>1. CASE \/ Begin \/ Abort \/ \E w \in Row : Insert(w)
             \/ \E rows \in SUBSET view : Undo(rows)
    BY <2>1 DEF Begin, Abort, Insert, Undo
  <2>2. CASE Commit
    BY <1>1, <2>2 DEF Commit, Consistent
  <2>3. CASE \E w \in Row : InsertAndCommit(w)
    BY <2>3 DEF InsertAndCommit
  <2>4. QED
    BY <1>1, <2>1, <2>2, <2>3 DEF ANext
<1>2. Consistent /\ [ANext]_avars => [A]_avars
  BY <1>1
<1>3. QED
  BY <1>2, StoreConsistent, PTL DEF ASpec, Durable

----------------------------------------------------------------------------
(* LockManager.                                                             *)

LType ==
    /\ access \in [Owners -> [Objects -> {"none", "read", "write"}]]
    /\ waits \in [Owners -> SUBSET Owners]

LInv == LType /\ Safe /\ WaitsMakeSense

\* A lock is given or given up.
LEMMA AccessKeeps ==
    ASSUME LInv, NEW o \in Owners, Grow(o) \/ Release(o)
    PROVE  LInv'
<1>1. PICK l \in [Objects -> {"none", "read", "write"}] :
        access' = [access EXCEPT ![o] = l] /\ (l # Nothing => Compatible(access'))
  BY DEF Grow, Release, Nothing
<1>2. active' = active \cup {o} /\ waits' = waits
  BY DEF Grow, Release
<1>3. LType'
  BY <1>1, <1>2 DEF LInv, LType
<1>4. access'[o] = l /\ \A p \in Owners : p # o => access'[p] = access[p]
  BY <1>1 DEF LInv, LType
<1>5. Compatible(access')
  <2>1. CASE l = Nothing
    BY <1>4, <2>1 DEF LInv, Safe, Compatible, Nothing
  <2>2. QED
    BY <1>1, <2>1
<1>6. Safe'
  BY <1>2, <1>4, <1>5 DEF LInv, Safe, Compatible, Nothing
<1>7. WaitsMakeSense'
  BY <1>2 DEF LInv, WaitsMakeSense
<1>8. QED
  BY <1>3, <1>6, <1>7 DEF LInv

\* An owner tells who waits for it.
LEMMA TellKeeps ==
    ASSUME LInv, NEW o \in Owners, Tell(o)
    PROVE  LInv'
<1>1. /\ active' = active \ {o} /\ access' = access /\ access[o] = Nothing
      /\ waits' = [p \in Owners |-> waits[p] \ {o}]
  BY DEF Tell
<1>2. \A p \in Owners : waits'[p] \subseteq waits[p] /\ o \notin waits'[p]
  BY <1>1
<1>3. LType'
  BY <1>1 DEF LInv, LType
<1>4. Safe'
  BY <1>1 DEF LInv, Safe, Compatible, Nothing
<1>5. WaitsMakeSense'
  <2>1. ASSUME NEW p \in Owners PROVE waits'[p] \subseteq active'
    BY <1>1, <1>2 DEF LInv, WaitsMakeSense
  <2>2. ASSUME NEW S \in SUBSET Owners, \A p \in S : waits'[p] \cap S # {}
        PROVE  S = {}
    <3>1. \A p \in S : waits[p] \cap S # {}
      BY <1>2, <2>2
    <3>2. QED
      BY <3>1 DEF LInv, WaitsMakeSense
  <2>3. QED
    BY <2>1, <2>2 DEF WaitsMakeSense
<1>6. QED
  BY <1>3, <1>4, <1>5 DEF LInv

\* An owner comes to wait for another one: that closes no circle, since a circle
\* through the new wait would leave the closed set that the guard speaks of.
LEMMA WaitKeeps ==
    ASSUME LInv, NEW o \in Owners, NEW p \in Owners, Wait(o, p)
    PROVE  LInv'
<1>1. /\ p \in active /\ waits' = [waits EXCEPT ![o] = {p}]
      /\ access' = access /\ active' = active
  BY DEF Wait
<1>2. PICK T \in SUBSET Owners :
        p \in T /\ o \notin T /\ \A q \in T : waits[q] \subseteq T
  BY DEF Wait, Apart
<1>3. waits'[o] = {p} /\ \A q \in Owners : q # o => waits'[q] = waits[q]
  BY <1>1 DEF LInv, LType
<1>4. LType'
  BY <1>1 DEF LInv, LType
<1>5. Safe'
  BY <1>1 DEF LInv, Safe, Compatible, Nothing
<1>6. ASSUME NEW S \in SUBSET Owners, \A q \in S : waits'[q] \cap S # {}
      PROVE  S = {}
  <2>1. CASE o \notin S
    <3>1. \A q \in S : waits[q] \cap S # {}
      BY <1>3, <1>6, <2>1
    <3>2. QED
      BY <3>1 DEF LInv, WaitsMakeSense
  <2>2. CASE o \in S
    <3>1. p \in S \cap T
      BY <1>2, <1>3, <1>6, <2>2
    <3>2. ASSUME NEW q \in S \cap T PROVE waits[q] \cap (S \cap T) # {}
      BY <1>2, <1>3, <1>6, <3>2
    <3>3. S \cap T \in SUBSET Owners
      OBVIOUS
    <3>4. S \cap T = {}
      BY <3>2, <3>3 DEF LInv, WaitsMakeSense
    <3>5. QED
      BY <3>1, <3>4
  <2>3. QED
    BY <2>1, <2>2
<1>7. WaitsMakeSense'
  <2>1. \A q \in Owners : waits'[q] \subseteq active'
    BY <1>1, <1>3 DEF LInv, WaitsMakeSense
  <2>2. QED
    BY <1>6, <2>1 DEF WaitsMakeSense
<1>8. QED
  BY <1>4, <1>5, <1>7 DEF LInv

\* The invariant holds of every reachable state.
LEMMA LInvariance == LSpec => []LInv
<1>1. LInit => LInv
  BY DEF LInit, LInv, LType, Safe, Compatible, WaitsMakeSense, Nothing
<1>2. LInv /\ [LNext]_lvars => LInv'
  <2>1. CASE UNCHANGED lvars
    BY <2>1 DEF lvars, LInv, LType, Safe, Compatible, WaitsMakeSense, Nothing
  <2>2. QED
    BY <2>1, AccessKeeps, TellKeeps, WaitKeeps DEF LNext
<1>3. QED
  BY <1>1, <1>2, PTL DEF LSpec

\* Locks exclude each other, and whoever holds one has yet to tell.
THEOREM LocksSafe == LSpec => []Safe
BY LInvariance, PTL DEF LInv

\* Whoever is waited for has yet to tell, and nobody waits in a circle.
THEOREM WaitsSensible == LSpec => []WaitsMakeSense
BY LInvariance, PTL DEF LInv

\* Only the owner waited for ends a wait, without locks and for good.
THEOREM WaitsKept == LSpec => WaitsAreKept
<1> DEFINE A == \A o \in Owners : waits[o] # {} =>
                  /\ access'[o] = access[o]
                  /\ waits'[o] # waits[o] =>
                       \E p \in waits[o] : /\ waits'[o] = waits[o] \ {p}
                                           /\ p \notin active' /\ access[p] = Nothing
<1>1. ASSUME LType, LNext, NEW o \in Owners, waits[o] # {}
      PROVE  /\ access'[o] = access[o]
             /\ waits'[o] # waits[o] =>
                  \E p \in waits[o] : /\ waits'[o] = waits[o] \ {p}
                                      /\ p \notin active' /\ access[p] = Nothing
  <2>1. PICK q \in Owners : \/ Grow(q) \/ Release(q) \/ Tell(q)
                            \/ \E p \in Owners : Wait(q, p)
    BY <1>1 DEF LNext
  <2>2. CASE Grow(q) \/ Release(q)
    BY <1>1, <2>2 DEF Grow, Release, LType
  <2>3. CASE Tell(q)
    BY <1>1, <2>3 DEF Tell
  <2>4. CASE \E p \in Owners : Wait(q, p)
    BY <1>1, <2>4 DEF Wait, LType
  <2>5. QED
    BY <2>1, <2>2, <2>3, <2>4
<1>2. LInv /\ [LNext]_lvars => [A]_lvars
  BY <1>1 DEF LInv
<1>3. QED
  BY <1>2, LInvariance, PTL DEF LSpec, WaitsAreKept
=============================================================================
