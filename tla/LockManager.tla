---------------------------- MODULE LockManager ----------------------------
(***************************************************************************)
(* What table locks and their notification promise together, without saying *)
(* how.  Owners lock objects for reading and for writing.  Locks only grow, *)
(* until the owner gives all of them up in one step; later, in one step, it *)
(* tells everybody who waits for it, and is inactive.  An owner that waits  *)
(* does nothing else, and waits for an active one that does not wait for    *)
(* it, directly or through others.                                          *)
(***************************************************************************)
CONSTANTS Owners, Objects

VARIABLES
    access,  \* what each owner may do to each object
    active,  \* owners that hold locks, or have yet to tell who waits for them
    waits    \* whom each owner waits for

lvars == <<access, active, waits>>

Nothing == [x \in Objects |-> "none"]

LInit ==
    /\ access = [o \in Owners |-> Nothing]
    /\ active = {}
    /\ waits = [o \in Owners |-> {}]

\* Nobody reads or writes what another owner writes.
Compatible(a) ==
    \A o, p \in Owners, x \in Objects :
        o # p /\ a[o][x] = "write" => a[p][x] = "none"

\* A lock is never lowered.
Raises(k, l) ==
    \A x \in Objects : k[x] # l[x] => k[x] = "none" \/ l[x] = "write"

Grow(o) ==
    /\ waits[o] = {}
    /\ \E l \in [Objects -> {"none", "read", "write"}] :
          /\ l # Nothing /\ Raises(access[o], l)
          /\ access' = [access EXCEPT ![o] = l]
    /\ Compatible(access')
    /\ active' = active \cup {o}
    /\ UNCHANGED waits

Release(o) ==
    /\ waits[o] = {}
    /\ access' = [access EXCEPT ![o] = Nothing]
    /\ active' = active \cup {o}
    /\ UNCHANGED waits

Tell(o) ==
    /\ o \in active /\ access[o] = Nothing
    /\ active' = active \ {o}
    /\ waits' = [p \in Owners |-> waits[p] \ {o}]
    /\ UNCHANGED access

\* Some owners, p among them and o not, wait for each other only.
Apart(o, p) ==
    \E T \in SUBSET Owners :
        p \in T /\ o \notin T /\ \A q \in T : waits[q] \subseteq T

Wait(o, p) ==
    /\ waits[o] = {}
    /\ p \in active /\ Apart(o, p)
    /\ waits' = [waits EXCEPT ![o] = {p}]
    /\ UNCHANGED <<access, active>>

LNext ==
    \E o \in Owners :
        \/ Grow(o) \/ Release(o) \/ Tell(o)
        \/ \E p \in Owners : Wait(o, p)

LSpec == LInit /\ [][LNext]_lvars

----------------------------------------------------------------------------
(* What follows for whoever implements it.                                  *)

Safe ==
    /\ Compatible(access)
    /\ \A o \in Owners : access[o] # Nothing => o \in active

\* Nobody waits for an owner that has nothing more to tell, and each set of
\* owners has one that waits for none of them.
WaitsMakeSense ==
    /\ \A o \in Owners : waits[o] \subseteq active
    /\ \A S \in SUBSET Owners :
          (\A o \in S : waits[o] \cap S # {}) => S = {}

\* A wait ends only when the owner waited for tells, and an owner that waits
\* keeps its locks as they are.
WaitsAreKept ==
    [][\A o \in Owners : waits[o] # {} =>
          /\ access'[o] = access[o]
          /\ waits'[o] # waits[o] =>
                \E p \in waits[o] : /\ waits'[o] = waits[o] \ {p}
                                    /\ p \notin active' /\ access[p] = Nothing]_lvars
=============================================================================
