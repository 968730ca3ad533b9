------------------------- MODULE MCNodeTransaction -------------------------
(* Instances of NodeTransaction for TLC.                                    *)
EXTENDS NodeTransaction, TLC

CONSTANTS t1, t2, w1, w2, w3, fk

TwoHandles == {t1, t2}
GoodWrites == {w1, w2}
ThreeWrites == {w1, w2, w3}
WritesAndBad == {w1, w2, fk}
OneAndBad == {w1, fk}
OnlyFk == {fk}
NoWrites == {}

\* Handles and rows without deferred violations are interchangeable.
Interchangeable == Permutations({t1, t2}) \cup Permutations({w1, w2})
InterchangeableHandles == Permutations({t1, t2})

AllOptions == {"default", "deferred", "immediate", "exclusive"}
SomeOptions == {"default", "exclusive"}
AllDrops == {"rollback", "commit", "ignore", "panic"}
=============================================================================
