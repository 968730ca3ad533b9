---------------------------- MODULE AtomicStore ----------------------------
(***************************************************************************)
(* What a connection promises, without saying how: a set of committed rows, *)
(* a view of them, and at most one open transaction.  Outside a transaction *)
(* a row is committed as it is inserted.  Inside one the view may grow by a *)
(* row, fall back to something between the committed rows and itself, and   *)
(* in the end becomes the committed rows in one step, or is dropped in one  *)
(* step.  A transaction that violates a deferred foreign key is not         *)
(* committed.                                                               *)
(***************************************************************************)
CONSTANTS Row, BadRow

VARIABLES committed, view, open

avars == <<committed, view, open>>

AInit == committed = {} /\ view = {} /\ open = FALSE

Begin == ~ open /\ open' = TRUE /\ UNCHANGED <<committed, view>>

InsertAndCommit(w) ==
    /\ ~ open
    /\ w \notin BadRow
    /\ committed' = committed \cup {w}
    /\ view' = view \cup {w}
    /\ UNCHANGED open

Insert(w) ==
    /\ open
    /\ view' = view \cup {w}
    /\ UNCHANGED <<committed, open>>

Undo(rows) ==
    /\ open
    /\ committed \subseteq rows /\ rows \subseteq view
    /\ view' = rows
    /\ UNCHANGED <<committed, open>>

Commit ==
    /\ open
    /\ view \cap BadRow = {}
    /\ committed' = view
    /\ open' = FALSE
    /\ UNCHANGED view

Abort ==
    /\ open
    /\ view' = committed
    /\ open' = FALSE
    /\ UNCHANGED committed

ANext ==
    \/ Begin \/ Commit \/ Abort
    \/ \E w \in Row : InsertAndCommit(w) \/ Insert(w)
    \/ \E rows \in SUBSET view : Undo(rows)

ASpec == AInit /\ [][ANext]_avars

----------------------------------------------------------------------------
(* What follows for whoever implements it.                                  *)

\* The committed rows can be read and violate no foreign key, and outside a
\* transaction there are no others.
Consistent ==
    /\ committed \subseteq view
    /\ committed \cap BadRow = {}
    /\ ~ open => view = committed

\* What is committed stays, and what becomes committed was read just before:
\* either all of the view of an open transaction, or one new row.
Durable ==
    [][/\ committed \subseteq committed'
       /\ \/ committed' = committed
          \/ open /\ committed' = view
          \/ ~ open /\ \E w \in Row : committed' = committed \cup {w}]_avars
=============================================================================
