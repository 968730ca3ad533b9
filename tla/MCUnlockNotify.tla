--------------------------- MODULE MCUnlockNotify ---------------------------
(* Instances of UnlockNotify for TLC.                                       *)
EXTENDS UnlockNotify, TLC

CONSTANTS c1, c2, c3, main, t1, sch

OwnThread == c1 :> c1 @@ c2 :> c2 @@ c3 :> c3
SharedThread == c1 :> main @@ c2 :> main @@ c3 :> c3

Sql(sqls, tables) == [sql : sqls, table : tables]

\* Readers and writers, in and outside of transactions, one of them exclusive.
ThreeWay == Sql({"begin", "begin exclusive", "rollback"}, {sch})
              \cup Sql({"read", "write"}, {t1})

\* Every way to begin and end, a change of the schema, statements that are kept.
TwoWay == Sql({"begin", "begin immediate", "commit", "rollback", "prepare"}, {sch})
            \cup Sql({"read", "write"}, {t1}) \cup Sql({"write"}, {sch})

ConnSymmetry == Permutations(Conns)
=============================================================================
