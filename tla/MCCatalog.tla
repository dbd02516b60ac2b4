----------------------------- MODULE MCCatalog -----------------------------
\* Small instances of Catalog for TLC.
EXTENDS Catalog, TLC

CONSTANTS p1, p2, p3, A, B, k1, k2

Procs2 == {p1, p2}
Procs3 == {p1, p2, p3}
Names1 == {A}
Names2 == {A, B}
Keys1  == {k1}
Keys2  == {k1, k2}

Current     == {0}
CurrentOr1  == {0, 1}
Only1       == {1}

NoRename    == {}
RenameAB    == {<<A, B>>}
RenameBoth  == {<<A, B>>, <<B, A>>}

SymProcs  == Permutations(Procs)
SymAll    == Permutations(Procs) \cup Permutations(Keys)
=============================================================================
