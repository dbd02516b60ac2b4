------------------------------ MODULE MCReads ------------------------------
\* Small instance of Reads: one writer, one reader.
EXTENDS Reads

CONSTANTS w1, r1, A, B

MCProcs    == {w1, r1}
MCReaders  == {r1}
NoReaders  == {}
Names1     == {A}
Names2     == {A, B}
Keys1      == {1}
Keys2      == {0, 1}
CurrentOr1 == {0, 1}
Current    == {0}
RenameAB   == {<<A, B>>}
NoRename   == {}

MCRowCount  == [f \in Keys \X SnapIds |-> 3 + f[1] + 2 * f[2]]
MCSizeBytes == [f \in Keys \X SnapIds |-> 5 + 2 * f[1] + f[2]]

\* The files that the first snapshot adds have no lower bound in column 1 and
\* list column 2 not at all; later ones have both columns.
MCFileStats ==
    [f \in Keys \X SnapIds |->
        IF f[2] = 1
        THEN <<[col |-> 1, nulls |-> 1, nans |-> 0, values |-> 3, min |-> 0, max |-> 2]>>
        ELSE <<[col |-> 1, nulls |-> 2, nans |-> 1, values |-> 4, min |-> 1, max |-> 3],
               [col |-> 2, nulls |-> 0, nans |-> 0, values |-> 4, min |-> 2, max |-> 0]>>]
=============================================================================
