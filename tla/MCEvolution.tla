---------------------------- MODULE MCEvolution ----------------------------
\* A small instance of Evolution for TLC: fields that are kept, changed,
\* invalid, or new with an id above or not above the old ones.
EXTENDS Evolution, TLC

CONSTANTS p1, p2, n1, n2

Procs2   == {p1, p2}
Names1   == {n1}
Names2   == {n1, n2}
Columns1 == {"a", ""}

Fld(i, c, tr, x) == [id |-> i, source |-> c, transform |-> tr, param |-> x]

Identity == 0
Bucket   == 5
Truncate == 6
Unknown  == 9

First  == Fld(1, "a", Identity, 0)
Second == Fld(2, "a", Truncate, 1)

Below  == Fld(0, "a", Unknown, 0)

\* What no table accepts: an id twice, no field, no column, a parameter that is
\* missing or too many.
Refused == { {First, Second, Fld(2, "a", Identity, 0)}, {}, {Fld(1, "", Identity, 0)},
             {Fld(2, "a", Bucket, 0)}, {Fld(1, "a", Identity, 1)} }

\* Add a field, or add one below, with a transform that the enum does not have
\* (which only a missing table accepts).
FewProposals == { {First, Second}, {First, Below} } \cup Refused

\* And keep all, add the field with another parameter, drop one.
AllProposals == FewProposals \cup { {First}, {First, [Second EXCEPT !.param = 2]}, {Second} }

Symmetry == Permutations(Procs) \cup Permutations(Names)
=============================================================================
