--------------------------- MODULE MCTransactions ---------------------------
\* A small instance of Transactions for TLC.
EXTENDS Transactions, TLC

CONSTANTS p1, p2

Procs2 == {p1, p2}
=============================================================================
