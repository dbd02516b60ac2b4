---------------------------- MODULE Transactions ----------------------------
(***************************************************************************)
(* Transactions of IceCore: MVCCManager (the transactions active in memory *)
(* and the counts that pin their snapshots), the rows of the transactions  *)
(* relation, the handlers BeginTransaction, CommitTransaction and          *)
(* AbortTransaction, and the ticker that removes expired transactions.     *)
(*                                                                         *)
(* A method of MVCCManager is atomic (its mutex), and so is a statement of *)
(* the database; a handler is the sequence of the two. Clients name a      *)
(* transaction by an id that BeginTransaction has returned, and may name   *)
(* it again and again, from several connections. Isolation levels, client  *)
(* ids and timestamps of the rows are left out: nothing reads them.        *)
(***************************************************************************)
EXTENDS Integers, FiniteSets

CONSTANTS
    Procs,      \* goroutines of the gRPC server
    MaxTxns,    \* bound on the txn_id sequence
    MaxSnaps,   \* bound on the table's snapshots
    Timeout     \* txnTimeout, in ticks of the clock

ASSUME TransactionsAssumption ==
    /\ MaxTxns \in Nat
    /\ MaxSnaps \in Nat
    /\ Timeout \in Nat

VARIABLES
    current,   \* current_snapshot_id of the table the transactions read
    txnSeq,    \* last value of the txn_id sequence
    status,    \* txn_id -> status of its row ("none": there is no row)
    active,    \* ids in activeTransactions
    readSnap,  \* txn_id -> ReadSnapshotID it was registered with
    age,       \* txn_id -> time since StartedAt, up to "more than txnTimeout"
    pinned,    \* pinnedSnapshots: snapshot -> count (0: no entry)
    known,     \* ids that clients have been given
    op         \* process -> the RPC it serves

memory == <<active, readSnap, age, pinned>>
rows   == <<txnSeq, status>>
vars   == <<current, txnSeq, status, active, readSnap, age, pinned, known, op>>

TxnIds == 1 .. MaxTxns
Snaps  == 0 .. MaxSnaps
Ages   == 0 .. Timeout + 1

Op == [at : {"idle", "begin_insert", "begin_register", "commit_row", "abort_row"},
       txn : 0 .. MaxTxns, snap : Snaps]

Idle == [at |-> "idle", txn |-> 0, snap |-> 0]

Return(p) == op' = [op EXCEPT ![p] = Idle]

-----------------------------------------------------------------------------
(* MVCCManager *)

Expired(t) == age[t] > Timeout

\* The entry of a snapshot after n of its transactions are unpinned.
Unpinned(count, n) == IF count <= n THEN 0 ELSE count - n

\* Removes the transactions of set T from memory, unpinning each one's snapshot.
Remove(T) ==
    /\ active' = active \ T
    /\ pinned' = [s \in Snaps |->
          Unpinned(pinned[s], Cardinality({ t \in T : readSnap[t] = s }))]
    /\ UNCHANGED <<readSnap, age>>

RegisterTransaction(t, s) ==
    /\ active' = active \cup {t}
    /\ readSnap' = [readSnap EXCEPT ![t] = s]
    /\ age' = [age EXCEPT ![t] = 0]
    /\ pinned' = [pinned EXCEPT ![s] = @ + 1]

-----------------------------------------------------------------------------
(* BeginTransaction *)

\* Mutant: the transaction reads at the snapshot after the current one.
BeginAtNext(p) ==
    /\ op[p].at = "idle"
    /\ op' = [op EXCEPT ![p] = [at |-> "begin_insert", txn |-> 0, snap |-> current + 1]]
    /\ UNCHANGED <<current, rows, memory, known>>

\* Reads the table's row, and with it the snapshot the transaction reads at.
BeginTransaction(p) ==
    /\ op[p].at = "idle"
    /\ op' = [op EXCEPT ![p] = [at |-> "begin_insert", txn |-> 0, snap |-> current]]
    /\ UNCHANGED <<current, rows, memory, known>>

BeginInsert(p) ==
    /\ op[p].at = "begin_insert"
    /\ txnSeq < MaxTxns
    /\ txnSeq' = txnSeq + 1
    /\ status' = [status EXCEPT ![txnSeq + 1] = "active"]
    /\ op' = [op EXCEPT ![p] = [at |-> "begin_register", txn |-> txnSeq + 1,
                                snap |-> op[p].snap]]
    /\ UNCHANGED <<current, memory, known>>

\* INSERT fails.
BeginFail(p) ==
    /\ op[p].at = "begin_insert"
    /\ Return(p)
    /\ UNCHANGED <<current, rows, memory, known>>

\* INSERT inserts the row, but its answer is lost: the row stays active.
BeginLost(p) ==
    /\ op[p].at = "begin_insert"
    /\ txnSeq < MaxTxns
    /\ txnSeq' = txnSeq + 1
    /\ status' = [status EXCEPT ![txnSeq + 1] = "active"]
    /\ Return(p)
    /\ UNCHANGED <<current, memory, known>>

BeginRegister(p) ==
    /\ op[p].at = "begin_register"
    /\ RegisterTransaction(op[p].txn, op[p].snap)
    /\ known' = known \cup {op[p].txn}
    /\ Return(p)
    /\ UNCHANGED <<current, rows>>

-----------------------------------------------------------------------------
(* CommitTransaction *)

\* Mutants: the transaction stays in memory, or its timeout is not looked at.
CommitKeepsActive(p, t) ==
    /\ op[p].at = "idle"
    /\ t \in active
    /\ ~ Expired(t)
    /\ op' = [op EXCEPT ![p] = [Idle EXCEPT !.at = "commit_row", !.txn = t]]
    /\ UNCHANGED <<current, rows, memory, known>>

CommitAnyTime(p, t) ==
    /\ op[p].at = "idle"
    /\ t \in active
    /\ Remove({t})
    /\ op' = [op EXCEPT ![p] = [Idle EXCEPT !.at = "commit_row", !.txn = t]]
    /\ UNCHANGED <<current, rows, known>>

\* A transaction that is active and in time leaves the memory, and its row is
\* to be updated; an expired one leaves the memory and is refused.
CommitTransaction(p, t) ==
    /\ op[p].at = "idle"
    /\ t \in active
    /\ Remove({t})
    /\ IF Expired(t)
       THEN UNCHANGED op
       ELSE op' = [op EXCEPT ![p] = [Idle EXCEPT !.at = "commit_row", !.txn = t]]
    /\ UNCHANGED <<current, rows, known>>

CommitRow(p) ==
    /\ op[p].at = "commit_row"
    /\ status' = [status EXCEPT ![op[p].txn] = "committed"]
    /\ Return(p)
    /\ UNCHANGED <<current, txnSeq, memory, known>>

-----------------------------------------------------------------------------
(* AbortTransaction: the row is updated whether or not it was active *)

\* Mutant: unpins without asking whether the transaction is active.
AbortUnpins(p, t) ==
    /\ op[p].at = "idle"
    /\ Remove({t})
    /\ op' = [op EXCEPT ![p] = [Idle EXCEPT !.at = "abort_row", !.txn = t]]
    /\ UNCHANGED <<current, rows, known>>

AbortTransaction(p, t) ==
    /\ op[p].at = "idle"
    /\ IF t \in active THEN Remove({t}) ELSE UNCHANGED memory
    /\ op' = [op EXCEPT ![p] = [Idle EXCEPT !.at = "abort_row", !.txn = t]]
    /\ UNCHANGED <<current, rows, known>>

AbortRow(p) ==
    /\ op[p].at = "abort_row"
    /\ status' = [status EXCEPT ![op[p].txn] = "aborted"]
    /\ Return(p)
    /\ UNCHANGED <<current, txnSeq, memory, known>>

\* The UPDATE of a commit or an abort fails.
RowFail(p) ==
    /\ op[p].at \in {"commit_row", "abort_row"}
    /\ Return(p)
    /\ UNCHANGED <<current, rows, memory, known>>

-----------------------------------------------------------------------------
\* Mutant: the comparison with the timeout is the wrong way round.
CleanupInTime ==
    /\ \E t \in active : Expired(t)
    /\ Remove({ t \in active : ~ Expired(t) })
    /\ UNCHANGED <<current, rows, known, op>>

\* The ticker of the server.
CleanupExpiredTransactions ==
    /\ \E t \in active : Expired(t)
    /\ Remove({ t \in active : Expired(t) })
    /\ UNCHANGED <<current, rows, known, op>>

\* Time passes.
Tick ==
    /\ \E t \in active : ~ Expired(t)
    /\ age' = [t \in TxnIds |-> IF t \in active /\ ~ Expired(t) THEN age[t] + 1 ELSE age[t]]
    /\ UNCHANGED <<current, rows, active, readSnap, pinned, known, op>>

\* A CommitSnapshot moves the table's pointer.
CommitSnapshot ==
    /\ current < MaxSnaps
    /\ current' = current + 1
    /\ UNCHANGED <<rows, memory, known, op>>

\* The server stops and restarts with an empty MVCCManager.
Restart ==
    /\ active' = {}
    /\ pinned' = [s \in Snaps |-> 0]
    /\ op' = [p \in Procs |-> Idle]
    /\ UNCHANGED <<current, rows, readSnap, age, known>>

Init ==
    /\ current = 0
    /\ txnSeq = 0
    /\ status = [t \in TxnIds |-> "none"]
    /\ active = {}
    /\ readSnap = [t \in TxnIds |-> 0]
    /\ age = [t \in TxnIds |-> 0]
    /\ pinned = [s \in Snaps |-> 0]
    /\ known = {}
    /\ op = [p \in Procs |-> Idle]

Next ==
    \/ \E p \in Procs :
          \/ BeginTransaction(p)
          \/ BeginInsert(p)
          \/ BeginFail(p)
          \/ BeginLost(p)
          \/ BeginRegister(p)
          \/ \E t \in known : CommitTransaction(p, t)
          \/ CommitRow(p)
          \/ \E t \in known : AbortTransaction(p, t)
          \/ AbortRow(p)
          \/ RowFail(p)
    \/ CleanupExpiredTransactions
    \/ Tick
    \/ CommitSnapshot
    \/ Restart

Spec == Init /\ [][Next]_vars

\* The clock and the ticker never stop; nobody has to end a transaction.
FairSpec == Spec /\ WF_vars(Tick) /\ WF_vars(CleanupExpiredTransactions)

-----------------------------------------------------------------------------
(* Properties *)

\* Every variable holds values of the shapes above.
TypeOK ==
    /\ current \in Snaps
    /\ txnSeq \in 0 .. MaxTxns
    /\ status \in [TxnIds -> {"none", "active", "committed", "aborted"}]
    /\ active \subseteq TxnIds
    /\ readSnap \in [TxnIds -> Snaps]
    /\ age \in [TxnIds -> Ages]
    /\ pinned \in [Snaps -> Nat]
    /\ known \subseteq TxnIds
    /\ op \in [Procs -> Op]

Readers(s) == { t \in active : readSnap[t] = s }

(***************************************************************************)
(* A snapshot is pinned exactly as often as active transactions read it:   *)
(* commits, aborts, expiry and the ticker, racing for the same transaction *)
(* and repeated at will, never unpin it twice and never leave a pin behind.*)
(***************************************************************************)
PinsMatch == \A s \in Snaps : pinned[s] = Cardinality(Readers(s))

(***************************************************************************)
(* A transaction in memory is undecided: its row is active, and no handler *)
(* is on the way to write the outcome. So whoever removes it decides it    *)
(* alone: two CommitTransaction calls cannot both succeed.                 *)
(***************************************************************************)
ActiveMeansUndecided ==
    /\ \A t \in active : status[t] = "active"
    /\ \A p \in Procs : op[p].at \in {"commit_row", "abort_row"} => op[p].txn \notin active
    /\ \A p, q \in Procs : p # q /\ op[p].at = "commit_row" /\ op[q].at = "commit_row"
          => op[p].txn # op[q].txn

(***************************************************************************)
(* A transaction that left the memory after its timeout is never committed *)
(* (age stops when the transaction leaves the memory).                     *)
(***************************************************************************)
NoLateCommit == \A t \in TxnIds : status[t] = "committed" => ~ Expired(t)

(***************************************************************************)
(* A pin is temporary: every active transaction leaves the memory, even    *)
(* when its client never calls again.                                      *)
(***************************************************************************)
Released == \A t \in TxnIds : t \in active ~> t \notin active

=============================================================================
