------------------------- MODULE TransactionsProofs -------------------------
(***************************************************************************)
(* Proofs about Transactions, for every number of processes, transactions  *)
(* and snapshots and every timeout: pins are counted right, a transaction  *)
(* is decided once, and never committed after its timeout.                 *)
(***************************************************************************)
EXTENDS Transactions, FiniteSetTheorems, TLAPS

-----------------------------------------------------------------------------
(* The inductive invariant *)

Deciding == {"commit_row", "abort_row"}

\* Ids are drawn once: the one a handler is about to register is in no
\* other handler, nor in memory, nor with a client, and its row is active.
\* Clients and memory hold ids that have been drawn.
IdInv ==
    /\ known \subseteq 1 .. txnSeq
    /\ active \subseteq known
    /\ \A p \in Procs : op[p].at \in Deciding => op[p].txn \in known
    /\ \A p \in Procs : op[p].at = "begin_register" =>
          /\ op[p].txn \in 1 .. txnSeq
          /\ op[p].txn \notin known
          /\ status[op[p].txn] = "active"
          /\ \A q \in Procs : q # p /\ op[q].at = "begin_register" => op[q].txn # op[p].txn

\* A commit under way was in time.
InTimeInv == \A p \in Procs : op[p].at = "commit_row" => ~ Expired(op[p].txn)

IInv ==
    TypeOK /\ IdInv /\ PinsMatch /\ ActiveMeansUndecided /\ InTimeInv /\ NoLateCommit

-----------------------------------------------------------------------------
(* MVCCManager *)

\* The active readers of a snapshot are finitely many.
LEMMA ReadersFinite ==
    ASSUME TypeOK, NEW T \in SUBSET active
    PROVE  IsFiniteSet(T)
  <1>1. IsFiniteSet(TxnIds)
    BY TransactionsAssumption, FS_Interval DEF TxnIds
  <1>2. T \in SUBSET TxnIds
    BY DEF TypeOK
  <1> QED
    BY <1>1, <1>2, FS_Subset

\* Removing active transactions takes away exactly their pins.
LEMMA RemovePins ==
    ASSUME TypeOK, PinsMatch, NEW T \in SUBSET active, Remove(T)
    PROVE  PinsMatch' /\ pinned' \in [Snaps -> Nat]
  <1>1. ASSUME NEW s \in Snaps
        PROVE  pinned'[s] = Cardinality(Readers(s)') /\ pinned'[s] \in Nat
    <2> DEFINE gone == { t \in T : readSnap[t] = s }
    <2>1. Readers(s)' = Readers(s) \ gone
      BY DEF Readers, Remove
    <2>2. Readers(s) \cap gone = gone
      BY DEF Readers
    <2>3. IsFiniteSet(Readers(s))
      BY ReadersFinite DEF Readers
    <2>4. /\ Cardinality(Readers(s)') = Cardinality(Readers(s)) - Cardinality(gone)
          /\ IsFiniteSet(Readers(s)')
      <3>1. /\ Cardinality(Readers(s) \ gone)
                  = Cardinality(Readers(s)) - Cardinality(Readers(s) \cap gone)
            /\ IsFiniteSet(Readers(s) \ gone)
        BY <2>3, FS_Difference, Zenon
      <3> QED
        BY <2>1, <2>2, <3>1
    <2>5. gone \in SUBSET Readers(s)
      BY <2>2
    <2>6. /\ Cardinality(gone) \in Nat /\ Cardinality(Readers(s)) \in Nat
          /\ Cardinality(gone) <= Cardinality(Readers(s))
      BY <2>3, <2>5, FS_Subset, FS_CardinalityType
    <2>7. pinned'[s] = Unpinned(Cardinality(Readers(s)), Cardinality(gone))
      BY DEF Remove, PinsMatch
    <2> HIDE DEF gone
    <2> QED
      BY <2>4, <2>6, <2>7 DEF Unpinned
  <1>2. pinned' = [s \in Snaps |-> pinned'[s]]
    BY DEF Remove
  <1> QED
    BY <1>1, <1>2 DEF PinsMatch

\* Registering a new transaction pins its snapshot once more.
LEMMA RegisterPins ==
    ASSUME TypeOK, PinsMatch, NEW t \in TxnIds, t \notin active, NEW s \in Snaps,
           RegisterTransaction(t, s)
    PROVE  PinsMatch' /\ pinned' \in [Snaps -> Nat]
  <1>1. pinned' \in [Snaps -> Nat]
    BY DEF RegisterTransaction, TypeOK
  <1>2. ASSUME NEW r \in Snaps
        PROVE  pinned'[r] = Cardinality(Readers(r)')
    <2>1. CASE r = s
      <3>1. Readers(r)' = Readers(r) \cup {t} /\ t \notin Readers(r)
        BY <2>1 DEF Readers, RegisterTransaction, TypeOK
      <3>2. IsFiniteSet(Readers(r))
        BY ReadersFinite DEF Readers
      <3>3. Cardinality(Readers(r)') = Cardinality(Readers(r)) + 1
        BY <3>1, <3>2, FS_AddElement
      <3> QED
        BY <2>1, <3>3 DEF RegisterTransaction, PinsMatch, TypeOK
    <2>2. CASE r # s
      <3>1. Readers(r)' = Readers(r)
        BY <2>2 DEF Readers, RegisterTransaction, TypeOK
      <3> QED
        BY <2>2, <3>1 DEF RegisterTransaction, PinsMatch, TypeOK
    <2> QED
      BY <2>1, <2>2
  <1> QED
    BY <1>1, <1>2 DEF PinsMatch

-----------------------------------------------------------------------------
(* Steps *)

\* A step that leaves memory and rows alone keeps what is said of them.
LEMMA QuietPins ==
    ASSUME PinsMatch, UNCHANGED memory
    PROVE  PinsMatch'
  BY DEF PinsMatch, Readers, memory

\* Every step keeps the invariant.
LEMMA Step ==
    ASSUME IInv, [Next]_vars
    PROVE  IInv'
  <1> USE TransactionsAssumption DEF IInv
  <1>a. Idle \in Op
    BY DEF Idle, Op, Snaps
  <1>1. ASSUME NEW p \in Procs, BeginTransaction(p)
        PROVE  IInv'
    <2>1. PinsMatch'
      BY <1>1, QuietPins DEF BeginTransaction
    <2>2. TypeOK'
      BY <1>1 DEF BeginTransaction, TypeOK, Op, rows, memory
    <2> QED
      BY <1>1, <2>1, <2>2 DEF BeginTransaction, TypeOK, Op, IdInv, ActiveMeansUndecided,
            InTimeInv, NoLateCommit, Expired, Deciding, rows, memory
  <1>2. ASSUME NEW p \in Procs, BeginInsert(p) \/ BeginLost(p)
        PROVE  IInv'
    <2> DEFINE t == txnSeq + 1
    <2>1. PinsMatch'
      BY <1>2, QuietPins DEF BeginInsert, BeginLost
    <2>2. /\ t \in TxnIds /\ txnSeq' = t
          /\ status' = [status EXCEPT ![t] = "active"]
          /\ UNCHANGED <<current, active, readSnap, age, pinned, known>>
      BY <1>2 DEF BeginInsert, BeginLost, TypeOK, TxnIds, memory
    <2>3. [at |-> "begin_register", txn |-> t, snap |-> op[p].snap] \in Op
      BY <2>2 DEF TypeOK, Op, TxnIds
    <2>4. TypeOK'
      <3>1. op' \in [Procs -> Op]
        BY <1>2, <1>a, <2>3 DEF BeginInsert, BeginLost, Return, TypeOK
      <3> QED
        BY <2>2, <3>1 DEF TypeOK, TxnIds
    <2>5. /\ \A q \in Procs \ {p} : op'[q] = op[q]
          /\ \/ op'[p].at = "idle"
             \/ op'[p].at = "begin_register" /\ op'[p].txn = t
      BY <1>2 DEF BeginInsert, BeginLost, Return, Idle, TypeOK
    <2>6. /\ \A x \in 1 .. txnSeq : x # t /\ x \in 1 .. t /\ status'[x] = status[x]
          /\ t \in 1 .. t /\ t \notin 1 .. txnSeq /\ status'[t] = "active"
          /\ \A x \in TxnIds : status'[x] = "committed" => status[x] = "committed"
      BY <2>2 DEF TypeOK, TxnIds
    <2> HIDE DEF t
    <2>7. IdInv'
      <3>1. known' \subseteq 1 .. t /\ active' \subseteq known'
        BY <2>2, <2>6 DEF IdInv
      <3>2. \A q \in Procs : op'[q].at = "begin_register" =>
               /\ op'[q].txn \in 1 .. t /\ op'[q].txn \notin known
               /\ status'[op'[q].txn] = "active"
        BY <2>5, <2>6 DEF IdInv
      <3>3. \A q, r \in Procs : /\ q # r
                                /\ op'[q].at = "begin_register"
                                /\ op'[r].at = "begin_register"
                                => op'[q].txn # op'[r].txn
        BY <2>5, <2>6 DEF IdInv
      <3>4. \A q \in Procs : op'[q].at \in Deciding => op'[q].txn \in known
        BY <2>5 DEF IdInv, Deciding
      <3> QED
        BY <2>2, <3>1, <3>2, <3>3, <3>4 DEF IdInv
    <2>8. ActiveMeansUndecided'
      BY <2>2, <2>5, <2>6 DEF ActiveMeansUndecided, IdInv
    <2>9. InTimeInv' /\ NoLateCommit'
      BY <2>2, <2>5, <2>6 DEF InTimeInv, NoLateCommit, Expired
    <2> QED
      BY <2>1, <2>4, <2>7, <2>8, <2>9
  <1>3. ASSUME NEW p \in Procs, BeginFail(p) \/ RowFail(p)
        PROVE  IInv'
    <2>1. PinsMatch'
      BY <1>3, QuietPins DEF BeginFail, RowFail
    <2>2. /\ UNCHANGED <<current, txnSeq, status, active, readSnap, age, pinned, known>>
          /\ op' = [op EXCEPT ![p] = Idle]
      BY <1>3 DEF BeginFail, RowFail, Return, rows, memory
    <2>3. op'[p].at = "idle" /\ \A q \in Procs \ {p} : op'[q] = op[q]
      BY <2>2 DEF TypeOK, Idle
    <2>4. TypeOK'
      BY <1>a, <2>2 DEF TypeOK
    <2>5. IdInv'
      BY <2>2, <2>3 DEF IdInv, Deciding
    <2>6. ActiveMeansUndecided' /\ InTimeInv' /\ NoLateCommit'
      BY <2>2, <2>3 DEF ActiveMeansUndecided, InTimeInv, NoLateCommit, Expired
    <2> QED
      BY <2>1, <2>4, <2>5, <2>6
  <1>4. ASSUME NEW p \in Procs, BeginRegister(p)
        PROVE  IInv'
    <2> DEFINE t == op[p].txn
    <2>1. /\ op[p].at = "begin_register" /\ t \in TxnIds /\ t \in 1 .. txnSeq
          /\ t \notin known /\ t \notin active /\ status[t] = "active" /\ op[p].snap \in Snaps
      BY <1>4 DEF BeginRegister, IdInv, TypeOK, TxnIds, Op
    <2>2. PinsMatch' /\ pinned' \in [Snaps -> Nat]
      BY <1>4, <2>1, RegisterPins DEF BeginRegister
    <2>3. /\ active' = active \cup {t} /\ known' = known \cup {t}
          /\ readSnap' = [readSnap EXCEPT ![t] = op[p].snap] /\ age' = [age EXCEPT ![t] = 0]
          /\ UNCHANGED <<current, txnSeq, status>>
          /\ op' = [op EXCEPT ![p] = Idle]
      BY <1>4 DEF BeginRegister, RegisterTransaction, Return, rows
    <2>4. TypeOK'
      BY <1>a, <2>1, <2>2, <2>3 DEF TypeOK, Ages
    <2>5. op'[p].at = "idle" /\ \A q \in Procs \ {p} : op'[q] = op[q]
      BY <2>3 DEF TypeOK, Idle
    <2> HIDE DEF t
    <2>6. IdInv'
      <3>1. \A q \in Procs \ {p} : op[q].at = "begin_register" => op[q].txn # t
        BY <2>1 DEF IdInv, t
      <3> QED
        BY <2>1, <2>3, <2>5, <3>1 DEF IdInv, Deciding
    <2>7. ActiveMeansUndecided' /\ InTimeInv' /\ NoLateCommit'
      BY <2>1, <2>3, <2>5 DEF IdInv, ActiveMeansUndecided, InTimeInv, NoLateCommit,
            Expired, Deciding, TypeOK, Ages
    <2> QED
      BY <2>2, <2>4, <2>6, <2>7
  <1>5. ASSUME NEW p \in Procs, NEW t \in known, CommitTransaction(p, t)
        PROVE  IInv'
    <2>1. PinsMatch' /\ pinned' \in [Snaps -> Nat]
      BY <1>5, RemovePins DEF CommitTransaction
    <2>2. /\ active' = active \ {t} /\ t \in active /\ t \in TxnIds
          /\ UNCHANGED <<current, txnSeq, status, readSnap, age, known>>
      BY <1>5 DEF CommitTransaction, Remove, rows, TypeOK
    <2>3. CASE UNCHANGED op
      BY <2>1, <2>2, <2>3 DEF TypeOK, IdInv, ActiveMeansUndecided, InTimeInv,
            NoLateCommit, Expired, Deciding
    <2>4. CASE /\ ~ Expired(t)
               /\ op' = [op EXCEPT ![p] = [Idle EXCEPT !.at = "commit_row", !.txn = t]]
      <3>1. /\ op'[p].at = "commit_row" /\ op'[p].txn = t
            /\ \A q \in Procs \ {p} : op'[q] = op[q]
        BY <2>4 DEF TypeOK, Idle
      <3>2. op' \in [Procs -> Op]
        <4>0. t \in 0 .. MaxTxns
          BY <2>2 DEF TxnIds
        <4>1. [Idle EXCEPT !.at = "commit_row", !.txn = t] \in Op
          BY <1>a, <4>0 DEF Op
        <4> QED
          BY <2>4, <4>1 DEF TypeOK
      <3>3. TypeOK' /\ IdInv'
        BY <2>1, <2>2, <3>1, <3>2 DEF TypeOK, IdInv, Deciding
      <3> QED
        BY <2>1, <2>2, <2>4, <3>1, <3>3 DEF ActiveMeansUndecided, InTimeInv,
              NoLateCommit, Expired, Deciding
    <2> QED
      BY <1>5, <2>3, <2>4 DEF CommitTransaction
  <1>6. ASSUME NEW p \in Procs, CommitRow(p) \/ AbortRow(p)
        PROVE  IInv'
    <2> DEFINE t == op[p].txn
    <2>1. PinsMatch'
      BY <1>6, QuietPins DEF CommitRow, AbortRow
    <2>2. /\ op[p].at \in Deciding /\ t \in known /\ t \in TxnIds /\ t \notin active
          /\ op' = [op EXCEPT ![p] = Idle]
          /\ UNCHANGED <<current, txnSeq, active, readSnap, age, pinned, known>>
          /\ \/ status' = [status EXCEPT ![t] = "committed"] /\ ~ Expired(t)
             \/ status' = [status EXCEPT ![t] = "aborted"]
      BY <1>6 DEF CommitRow, AbortRow, Return, memory, Deciding, IdInv, TypeOK, InTimeInv,
                  ActiveMeansUndecided
    <2>3. op'[p].at = "idle" /\ \A q \in Procs \ {p} : op'[q] = op[q]
      BY <2>2 DEF TypeOK, Idle
    <2>4. TypeOK'
      BY <1>a, <2>2 DEF TypeOK
    <2> HIDE DEF t
    <2>5. IdInv'
      <3>1. \A x \in TxnIds : x \notin known => status'[x] = status[x]
        BY <2>2 DEF TypeOK
      <3>2. \A q \in Procs : op'[q].at = "begin_register" =>
               /\ op[q].at = "begin_register" /\ op'[q] = op[q]
               /\ status'[op[q].txn] = status[op[q].txn]
        <4>1. \A x \in 1 .. txnSeq : x \in TxnIds
          BY DEF TypeOK, TxnIds
        <4> QED
          BY <2>3, <3>1, <4>1 DEF IdInv
      <3> QED
        BY <2>2, <2>3, <3>2 DEF IdInv, Deciding
    <2>6. ActiveMeansUndecided' /\ InTimeInv' /\ NoLateCommit'
      BY <2>2, <2>3 DEF ActiveMeansUndecided, InTimeInv, NoLateCommit, Expired, TypeOK,
            Deciding
    <2> QED
      BY <2>1, <2>4, <2>5, <2>6
  <1>7. ASSUME NEW p \in Procs, NEW t \in known, AbortTransaction(p, t)
        PROVE  IInv'
    <2>1. PinsMatch' /\ pinned' \in [Snaps -> Nat]
      <3>1. CASE t \in active
        BY <1>7, <3>1, RemovePins DEF AbortTransaction
      <3>2. CASE t \notin active
        BY <1>7, <3>2, QuietPins DEF AbortTransaction, TypeOK, memory
      <3> QED
        BY <3>1, <3>2
    <2>2. /\ active' = active \ {t} /\ t \in TxnIds /\ op[p].at = "idle"
          /\ UNCHANGED <<current, txnSeq, status, readSnap, age, known>>
          /\ op' = [op EXCEPT ![p] = [Idle EXCEPT !.at = "abort_row", !.txn = t]]
      BY <1>7 DEF AbortTransaction, Remove, rows, memory, TypeOK
    <2>3. /\ op'[p].at = "abort_row" /\ op'[p].txn = t
          /\ \A q \in Procs \ {p} : op'[q] = op[q]
      BY <2>2 DEF TypeOK, Idle
    <2>4. op' \in [Procs -> Op]
      <3>0. t \in 0 .. MaxTxns
        BY <2>2 DEF TxnIds
      <3>1. [Idle EXCEPT !.at = "abort_row", !.txn = t] \in Op
        BY <1>a, <3>0 DEF Op
      <3> QED
        BY <2>2, <3>1 DEF TypeOK
    <2>5. TypeOK' /\ IdInv'
      BY <2>1, <2>2, <2>3, <2>4 DEF TypeOK, IdInv, Deciding
    <2> QED
      BY <2>1, <2>2, <2>3, <2>5 DEF ActiveMeansUndecided, InTimeInv, NoLateCommit,
            Expired, Deciding
  <1>8. CASE CleanupExpiredTransactions
    <2>1. PinsMatch' /\ pinned' \in [Snaps -> Nat]
      BY <1>8, RemovePins DEF CleanupExpiredTransactions
    <2>2. /\ active' \subseteq active
          /\ UNCHANGED <<current, txnSeq, status, readSnap, age, known, op>>
      BY <1>8 DEF CleanupExpiredTransactions, Remove, rows
    <2> QED
      BY <2>1, <2>2 DEF TypeOK, IdInv, ActiveMeansUndecided, InTimeInv, NoLateCommit,
            Expired, Deciding
  <1>9. CASE Tick
    <2>1. PinsMatch'
      BY <1>9 DEF Tick, PinsMatch, Readers
    <2>2. age' \in [TxnIds -> Ages]
      BY <1>9 DEF Tick, TypeOK, Ages, Expired
    <2>3. \A t \in TxnIds \ active : age'[t] = age[t]
      BY <1>9 DEF Tick
    <2>4. UNCHANGED <<current, txnSeq, status, active, readSnap, pinned, known, op>>
      BY <1>9 DEF Tick, rows
    <2>5. TypeOK' /\ IdInv' /\ ActiveMeansUndecided'
      BY <2>2, <2>4 DEF TypeOK, IdInv, ActiveMeansUndecided
    <2>6. InTimeInv' /\ NoLateCommit'
      BY <2>3, <2>4 DEF InTimeInv, NoLateCommit, Expired, ActiveMeansUndecided, IdInv,
            TypeOK, Deciding
    <2> QED
      BY <2>1, <2>5, <2>6
  <1>10. CASE CommitSnapshot \/ UNCHANGED vars
    <2>1. PinsMatch'
      BY <1>10, QuietPins DEF CommitSnapshot, vars, memory
    <2>2. /\ UNCHANGED <<txnSeq, status, active, readSnap, age, pinned, known, op>>
          /\ current' \in Snaps
      BY <1>10 DEF CommitSnapshot, vars, rows, memory, TypeOK, Snaps
    <2> QED
      BY <2>1, <2>2 DEF TypeOK, IdInv, ActiveMeansUndecided, InTimeInv, NoLateCommit,
            Expired
  <1>11. CASE Restart
    <2>1. PinsMatch'
      <3>1. \A s \in Snaps : Readers(s)' = {}
        BY <1>11 DEF Restart, Readers
      <3> QED
        BY <1>11, <3>1, FS_EmptySet DEF Restart, PinsMatch
    <2>2. TypeOK'
      BY <1>11, <1>a DEF Restart, TypeOK, rows
    <2> QED
      BY <1>11, <2>1, <2>2 DEF Restart, Idle, TypeOK, IdInv, ActiveMeansUndecided,
            InTimeInv, NoLateCommit, Expired, Deciding, rows
  <1> QED
    BY <1>1, <1>2, <1>3, <1>4, <1>5, <1>6, <1>7, <1>8, <1>9, <1>10, <1>11 DEF Next

-----------------------------------------------------------------------------
(* Theorems *)

\* The inductive invariant holds.
THEOREM Inductive == Spec => []IInv
  <1>1. Init => IInv
    <2> SUFFICES ASSUME Init PROVE IInv
      OBVIOUS
    <2>1. PinsMatch
      <3>1. \A s \in Snaps : Readers(s) = {}
        BY DEF Init, Readers
      <3> QED
        BY <3>1, FS_EmptySet DEF Init, PinsMatch
    <2>2. TypeOK
      BY TransactionsAssumption DEF Init, TypeOK, Idle, Op, Snaps, Ages
    <2> QED
      BY <2>1, <2>2 DEF Init, IInv, IdInv, ActiveMeansUndecided, InTimeInv, NoLateCommit,
            Expired, Idle, Deciding
  <1> QED
    BY <1>1, Step, PTL DEF Spec

\* Every variable keeps its type.
THEOREM TypeCorrect == Spec => []TypeOK
  <1>1. IInv => TypeOK
    BY DEF IInv
  <1> QED
    BY <1>1, Inductive, PTL

\* Every snapshot is pinned exactly as often as active transactions read it.
THEOREM Pins == Spec => []PinsMatch
  <1>1. IInv => PinsMatch
    BY DEF IInv
  <1> QED
    BY <1>1, Inductive, PTL

\* A transaction in memory is undecided, and one handler decides it.
THEOREM DecidedOnce == Spec => []ActiveMeansUndecided
  <1>1. IInv => ActiveMeansUndecided
    BY DEF IInv
  <1> QED
    BY <1>1, Inductive, PTL

\* No transaction is committed that left the memory after its timeout.
THEOREM InTime == Spec => []NoLateCommit
  <1>1. IInv => NoLateCommit
    BY DEF IInv
  <1> QED
    BY <1>1, Inductive, PTL

=============================================================================
