-------------------------- MODULE MCStatementCalls --------------------------
(* Instances of StatementCalls for TLC.                                     *)
EXTENDS StatementCalls, TLC

CONSTANTS a, b

TwoValues == {a, b, Null}

\* The rows the CHECK allows; <<b, b>> violates a deferred foreign key, and a
\* row with a NULL is refused.
AllowedRows == {<<a, a>>, <<a, b>>, <<b, b>>}
OrphanRows == {<<b, b>>}

\* Parameter arrays: none, too few, too many, one too long, and good ones.
SomeParameters ==
    {<<>>, <<b>>, <<b, Huge>>, <<a, Null>>, <<a, a>>, <<a, b>>, <<b, b>>, <<a, b, a>>}
FewParameters == {<<>>, <<a, a>>, <<a, b>>, <<b, b>>}
=============================================================================
