--------------------------- MODULE CatalogProofs ---------------------------
(***************************************************************************)
(* Proofs about Catalog, for every set of processes, names and keys and    *)
(* every bound: type correctness, the one chain of snapshots per table,    *)
(* the immutability of committed snapshots, and the coherence of the       *)
(* partition cache up to invalidations in flight.                          *)
(***************************************************************************)
EXTENDS Catalog, TLAPS

-----------------------------------------------------------------------------
(* The inductive invariant *)

Committing == {"commit_read", "commit_insert", "commit_tx", "commit_inval"}
Renaming   == {"rename_new", "rename_exec"}
Reading    == {"get_query", "get_put", "get_done"}

\* Which locks a handler holds at each of its steps, and that an exclusive
\* lock excludes the shared ones.
LockInv ==
    /\ \A p \in Procs :
          /\ op[p].at # "idle" => op[p].name \in Names
          /\ op[p].at \in Committing \cup Renaming => xlock[op[p].name] = p
          /\ op[p].at \in Renaming \cup {"rename_inval_old", "rename_inval_new"} =>
                op[p].to \in Names
          /\ op[p].at = "rename_exec" => xlock[op[p].to] = p
          /\ op[p].at \in Reading => p \in slock[op[p].name]
    /\ \A n \in Names : xlock[n] # None => slock[n] = {}

\* The unique index on table_name, and ids that are not (or no more) in use.
NameInv ==
    /\ \A t, u \in TableIds :
          /\ tables[t].state \in {"live", "dropped"}
          /\ tables[u].state \in {"live", "dropped"}
          /\ tables[t].name = tables[u].name
          => t = u
    /\ \A t \in TableIds :
          tables[t].state \in {"none", "purged"} => tables[t].current = 0

\* The snapshot that a handler or an unanswered transaction is committing is
\* newer than the current one of a table that is live under the handler's name.
CommitInv ==
    /\ \A t \in TableIds : tables[t].current <= snapSeq
    /\ \A p \in Procs : op[p].at = "commit_tx" =>
          /\ op[p].tid \in TableIds
          /\ IsLive(op[p].tid, op[p].name)
          /\ tables[op[p].tid].current < op[p].snap
          /\ op[p].snap <= snapSeq
          /\ \A w \in limbo : w.table = op[p].tid => w.id < op[p].snap
    /\ \A w \in limbo :
          /\ tables[w.table].state = "live"
          /\ tables[w.table].current < w.id
          /\ w.id <= snapSeq
          /\ \A v \in limbo : v.table = w.table => v = w

\* The parent that CommitRead has compared with the current snapshot is
\* still the current one when the transaction commits.
BaseInv ==
    /\ limbo = {}
    /\ \A p \in Procs :
          /\ op[p].at = "commit_insert" => op[p].base = GetCurrentSnapshot(op[p].name)
          /\ op[p].at = "commit_tx" => op[p].base = tables[op[p].tid].current

IInv == TypeOK /\ LockInv /\ NameInv /\ CommitInv

-----------------------------------------------------------------------------
(* Lemmas about the operators *)

\* What the lookup of a table by name returns.
LEMMA GetTableIDFacts ==
    ASSUME NEW n
    PROVE  /\ GetTableID(n) \in 0 .. MaxTables
           /\ GetTableID(n) # 0 =>
                 GetTableID(n) \in TableIds /\ IsLive(GetTableID(n), n)
  <1>1. CASE \E t \in TableIds : IsLive(t, n)
    <2>1. GetTableID(n) \in TableIds /\ IsLive(GetTableID(n), n)
      BY <1>1, Zenon DEF GetTableID
    <2> QED
      BY <2>1, CatalogAssumption DEF TableIds
  <1>2. CASE ~ \E t \in TableIds : IsLive(t, n)
    BY <1>2, CatalogAssumption DEF GetTableID
  <1> QED
    BY <1>1, <1>2

\* With the unique index the lookup finds the live table of the name.
LEMMA GetTableIDUnique ==
    ASSUME NameInv, NEW n, NEW t \in TableIds, IsLive(t, n)
    PROVE  GetTableID(n) = t
  <1>1. GetTableID(n) \in TableIds /\ IsLive(GetTableID(n), n)
    BY Zenon DEF GetTableID
  <1> QED
    BY <1>1 DEF NameInv, IsLive

\* The current snapshot of a name is a snapshot id.
LEMMA GetCurrentSnapshotType ==
    ASSUME TypeOK, NEW n
    PROVE  GetCurrentSnapshot(n) \in SnapIds
  BY GetTableIDFacts, CatalogAssumption
     DEF GetCurrentSnapshot, TypeOK, TableRow, SnapIds

\* A query returns file rows.
LEMMA VisibleType ==
    ASSUME TypeOK, NEW t, NEW s
    PROVE  Visible(t, s) \subseteq FileRow
  BY DEF Visible, TypeOK, PartitionRow, FileRow

\* A handler's next step, with its locals unchanged, is well typed.
LEMMA GotoType ==
    ASSUME TypeOK, NEW p \in Procs, NEW at \in Steps, Goto(p, at)
    PROVE  op' \in [Procs -> Op]
  <1>1. [op[p] EXCEPT !.at = at] \in Op
    BY DEF TypeOK, Op
  <1>2. op' = [op EXCEPT ![p] = [op[p] EXCEPT !.at = at]]
    BY DEF Goto
  <1> QED
    BY <1>1, <1>2 DEF TypeOK

\* The snapshot a commit writes is a snapshot row.
LEMMA NewSnapshotType ==
    ASSUME TypeOK, NEW p \in Procs, op[p].tid \in TableIds,
           NEW add \in SUBSET Keys, NEW del \in SUBSET Keys
    PROVE  NewSnapshot(p, add, del) \in SnapshotRow
  <1>1. Manifests(add, del) \subseteq Manifest
    BY DEF Manifests, Manifest
  <1> QED
    BY <1>1 DEF NewSnapshot, SnapshotRow, TypeOK, Op

\* The writes of a commit keep the types of the rows.
LEMMA ApplyType ==
    ASSUME TypeOK, NEW w \in SnapshotRow, Apply(w)
    PROVE  /\ tables' \in [TableIds -> TableRow]
           /\ snapshots' \subseteq SnapshotRow
           /\ partitions' \subseteq PartitionRow
  <1>1. tables' \in [TableIds -> TableRow]
    BY DEF Apply, TypeOK, TableRow, SnapshotRow
  <1>2. snapshots' \subseteq SnapshotRow
    BY DEF Apply, TypeOK
  <1>3. InsertPartitions(partitions, w.table, w.added, w.id) \subseteq PartitionRow
    BY CatalogAssumption
       DEF InsertPartitions, TypeOK, PartitionRow, SnapshotRow, SnapIds
  <1>4. partitions' \subseteq PartitionRow
    BY <1>3 DEF Apply, MarkPartitionDeleted, PartitionRow, SnapshotRow
  <1> QED
    BY <1>1, <1>2, <1>4

\* The writes of a commit leave older snapshots and other tables as they are:
\* its rows are too new to be seen, and a row it marks was seen before it.
LEMMA ApplyKeepsOlder ==
    ASSUME TypeOK, NEW w \in SnapshotRow, Apply(w),
           NEW t \in TableIds, NEW s \in SnapIds, t # w.table \/ s < w.id
    PROVE  Visible(t, s)' = Visible(t, s)
  <1> DEFINE ins  == InsertPartitions(partitions, w.table, w.added, w.id)
             F(r) == [table |-> r.table, snap |-> r.snap, key |-> r.key]
             M(r) == IF r.table = w.table /\ r.key \in w.deleted /\ r.del = 0
                     THEN [r EXCEPT !.del = w.id] ELSE r
  <1>1. partitions' = { M(r) : r \in ins }
    BY DEF Apply, MarkPartitionDeleted
  <1>2. ins \subseteq PartitionRow
    BY CatalogAssumption
       DEF InsertPartitions, TypeOK, PartitionRow, SnapshotRow, SnapIds
  <1>3. ASSUME NEW r \in ins
        PROVE  /\ F(M(r)) = F(r)
               /\ M(r).table = t /\ VisibleAt(M(r), s) <=> r.table = t /\ VisibleAt(r, s)
    BY <1>2, <1>3, CatalogAssumption DEF VisibleAt, PartitionRow, SnapIds, SnapshotRow
  <1>4. ASSUME NEW r \in ins, r.table = t, VisibleAt(r, s)
        PROVE  r \in partitions
    BY <1>4, CatalogAssumption DEF InsertPartitions, VisibleAt, SnapIds, SnapshotRow
  <1>5. partitions \subseteq ins
    BY DEF InsertPartitions
  <1> HIDE DEF ins, F, M
  <1>6. Visible(t, s) = { F(r) : r \in { q \in partitions : q.table = t /\ VisibleAt(q, s) } }
    BY DEF Visible, F
  <1>7. Visible(t, s)' = { F(r) : r \in { q \in partitions' : q.table = t /\ VisibleAt(q, s) } }
    BY DEF Visible, F, VisibleAt
  <1>8. Visible(t, s)' = { F(r) : r \in { q \in ins : q.table = t /\ VisibleAt(q, s) } }
    BY <1>1, <1>3, <1>7
  <1> QED
    BY <1>4, <1>5, <1>6, <1>8

-----------------------------------------------------------------------------
(* Steps *)

\* The steps that write tables, snapshots or partitions.
LEMMA WritingSteps ==
    ASSUME [Next]_vars
    PROVE  \/ UNCHANGED <<tables, snapshots, partitions>>
           \/ \E p \in Procs, n \in Names : CreateTable(p, n)
           \/ \E p \in Procs, n \in Names : DropTable(p, n)
           \/ \E p \in Procs : RenameExec(p)
           \/ \E p \in Procs, add, del \in SUBSET Keys : CommitTx(p, add, del)
           \/ \E w \in limbo : Resolve(w)
  <1>1. CASE UNCHANGED vars
    BY <1>1 DEF vars
  <1>2. ASSUME NEW p \in Procs, Accept(p)
        PROVE  \/ UNCHANGED <<tables, snapshots, partitions>>
               \/ \E n \in Names : CreateTable(p, n)
               \/ \E n \in Names : DropTable(p, n)
    BY <1>2 DEF Accept, RenameLockOld, AlterTable, CommitLock, GetPartitions,
                GetLookup, GetTableMetadata, db
  <1>3. ASSUME NEW p \in Procs, Continue(p)
        PROVE  \/ UNCHANGED <<tables, snapshots, partitions>>
               \/ RenameExec(p)
               \/ \E add, del \in SUBSET Keys : CommitTx(p, add, del)
    BY <1>3 DEF Continue, DropInvalidate, RenameLockNew, RenameInvalidateOld,
                RenameInvalidateNew, CommitRead, CommitInsert, CommitFail,
                CommitTxLost, CommitInvalidate, GetQuery, GetFail, GetPut,
                GetReturn, MetaGetPartitions, GetLookup, MetaReply, db
  <1>4. CASE Restart
    BY <1>4 DEF Restart, db
  <1> QED
    BY <1>1, <1>2, <1>3, <1>4 DEF Next

\* Every step keeps the types.
LEMMA TypeStep ==
    ASSUME IInv, [Next]_vars
    PROVE  TypeOK'
  <1> USE DEF IInv
  <1>a. Idle \in Op
    BY CatalogAssumption DEF Idle, Op, SnapIds, Steps
  <1>b. NoTable \in TableRow
    BY CatalogAssumption DEF NoTable, TableRow, SnapIds
  <1>1. ASSUME NEW p \in Procs, NEW n \in Names, CreateTable(p, n)
        PROVE  TypeOK'
    BY <1>1, CatalogAssumption DEF CreateTable, TypeOK, TableRow, SnapIds, lock
  <1>2. ASSUME NEW p \in Procs, NEW n \in Names, DropTable(p, n)
        PROVE  TypeOK'
    <2>1. GetTableID(n) \in TableIds
      BY <1>2, GetTableIDFacts DEF DropTable
    <2>2. /\ tables' \in [TableIds -> TableRow]
          /\ snapshots' \subseteq SnapshotRow
          /\ partitions' \subseteq PartitionRow
      BY <1>2, <1>b, <2>1 DEF DropTable, SoftDelete, Purge, TypeOK, TableRow, NoTable
    <2>3. [Idle EXCEPT !.at = "drop_inval", !.name = n] \in Op
      BY <1>a DEF Op, Steps
    <2>4. op' \in [Procs -> Op]
      BY <1>2, <2>3 DEF DropTable, TypeOK
    <2> QED
      BY <1>2, <2>2, <2>4 DEF DropTable, TypeOK, lock
  <1>3. ASSUME NEW p \in Procs, DropInvalidate(p)
        PROVE  TypeOK'
    BY <1>3, <1>a DEF DropInvalidate, InvalidateTableCache, Return, TypeOK, db, lock
  <1>4. ASSUME NEW p \in Procs, NEW old \in Names, NEW new \in Names,
               RenameLockOld(p, old, new)
        PROVE  TypeOK'
    <2>1. op' \in [Procs -> Op]
      BY <1>4, <1>a DEF RenameLockOld, TypeOK, Op, Idle, Steps
    <2> QED
      BY <1>4, <2>1 DEF RenameLockOld, Lock, TypeOK, db
  <1>5. ASSUME NEW p \in Procs, RenameLockNew(p)
        PROVE  TypeOK'
    <2>1. op' \in [Procs -> Op]
      BY <1>5, GotoType DEF RenameLockNew, Steps
    <2> QED
      BY <1>5, <2>1 DEF RenameLockNew, Lock, TypeOK, db
  <1>6. ASSUME NEW p \in Procs, RenameExec(p)
        PROVE  TypeOK'
    <2>1. op' \in [Procs -> Op]
      BY <1>6, GotoType DEF RenameExec, Steps
    <2>2. tables' \in [TableIds -> TableRow]
      BY <1>6 DEF RenameExec, LockInv, Renaming, TypeOK, TableRow
    <2> QED
      BY <1>6, <2>1, <2>2 DEF RenameExec, TypeOK
  <1>7. ASSUME NEW p \in Procs, RenameInvalidateOld(p)
        PROVE  TypeOK'
    <2>1. op' \in [Procs -> Op]
      BY <1>7, GotoType DEF RenameInvalidateOld, Steps
    <2> QED
      BY <1>7, <2>1 DEF RenameInvalidateOld, InvalidateTableCache, TypeOK, db, lock
  <1>8. ASSUME NEW p \in Procs, RenameInvalidateNew(p)
        PROVE  TypeOK'
    BY <1>8, <1>a DEF RenameInvalidateNew, InvalidateTableCache, Return, TypeOK, db, lock
  <1>9. ASSUME NEW p \in Procs, NEW n \in Names, AlterTable(p, n)
        PROVE  TypeOK'
    BY <1>9 DEF AlterTable, InvalidateTableCache, TypeOK, db, lock
  <1>10. ASSUME NEW p \in Procs, NEW n \in Names, CommitLock(p, n)
         PROVE  TypeOK'
    <2>1. op' \in [Procs -> Op]
      BY <1>10, <1>a DEF CommitLock, TypeOK, Op, Idle, Steps
    <2> QED
      BY <1>10, <2>1 DEF CommitLock, Lock, TypeOK, db
  <1>11. ASSUME NEW p \in Procs, CommitRead(p)
         PROVE  TypeOK'
    <2>1. PICK parent \in SnapIds :
             op' = [op EXCEPT ![p].at = "commit_insert", ![p].base = parent]
      BY <1>11 DEF CommitRead
    <2>2. [op[p] EXCEPT !.at = "commit_insert", !.base = parent] \in Op
      BY DEF TypeOK, Op, Steps
    <2>3. op' = [op EXCEPT ![p] = [op[p] EXCEPT !.at = "commit_insert", !.base = parent]]
      BY <2>1 DEF TypeOK
    <2>4. op' \in [Procs -> Op]
      BY <2>2, <2>3 DEF TypeOK
    <2> QED
      BY <1>11, <2>4 DEF CommitRead, TypeOK, db, lock
  <1>12. ASSUME NEW p \in Procs, CommitInsert(p)
         PROVE  TypeOK'
    <2>1. snapSeq' \in SnapIds
      BY <1>12, CatalogAssumption DEF CommitInsert, TypeOK, SnapIds
    <2> DEFINE r == [op[p] EXCEPT !.at = "commit_tx", !.snap = snapSeq + 1,
                                  !.tid = GetTableID(op[p].name)]
    <2>2. r \in Op
      BY <1>12, <2>1, GetTableIDFacts DEF CommitInsert, TypeOK, Op, Steps
    <2>3. op' = [op EXCEPT ![p] = r]
      BY <1>12 DEF CommitInsert, TypeOK
    <2>4. op' \in [Procs -> Op]
      BY <2>2, <2>3 DEF TypeOK
    <2> QED
      BY <1>12, <2>1, <2>4 DEF CommitInsert, TypeOK, lock
  <1>13. ASSUME NEW p \in Procs, CommitFail(p)
         PROVE  TypeOK'
    BY <1>13, <1>a DEF CommitFail, Unlock, Return, TypeOK, db
  <1>14. ASSUME NEW p \in Procs, NEW add \in SUBSET Keys, NEW del \in SUBSET Keys,
                CommitTx(p, add, del)
         PROVE  TypeOK'
    <2>1. NewSnapshot(p, add, del) \in SnapshotRow
      BY <1>14, NewSnapshotType DEF CommitTx, CommitInv
    <2>2. op' \in [Procs -> Op]
      BY <1>14, GotoType DEF CommitTx, Steps
    <2> QED
      BY <1>14, <2>1, <2>2, ApplyType DEF CommitTx, TypeOK, lock
  <1>15. ASSUME NEW p \in Procs, NEW add \in SUBSET Keys, NEW del \in SUBSET Keys,
                CommitTxLost(p, add, del)
         PROVE  TypeOK'
    <2>1. NewSnapshot(p, add, del) \in SnapshotRow
      BY <1>15, NewSnapshotType DEF CommitTxLost, CommitInv
    <2> QED
      BY <1>15, <1>a, <2>1 DEF CommitTxLost, Unlock, Return, TypeOK
  <1>16. ASSUME NEW w \in limbo, Resolve(w)
         PROVE  TypeOK'
    BY <1>16, ApplyType DEF Resolve, TypeOK, lock
  <1>17. ASSUME NEW p \in Procs, CommitInvalidate(p)
         PROVE  TypeOK'
    BY <1>17, <1>a
       DEF CommitInvalidate, InvalidateTableCache, Unlock, Return, TypeOK, db
  <1>18. ASSUME NEW p \in Procs, NEW o \in Op, NEW n \in Names, NEW s \in SnapIds,
                GetLookup(p, o, n, s)
         PROVE  TypeOK'
    <2> DEFINE snap == IF s # 0 THEN s ELSE GetCurrentSnapshot(n)
               here == [o EXCEPT !.name = n, !.snap = snap]
    <2>1. here \in Op
      BY GetCurrentSnapshotType DEF Op
    <2>2. [here EXCEPT !.at = "get_query"] \in Op
      BY <2>1 DEF Op, Steps
    <2>3. \A e \in cache : [here EXCEPT !.at = "get_done", !.rows = e.rows] \in Op
      BY <2>1 DEF Op, Steps, TypeOK, CacheEntry
    <2>4. op' \in [Procs -> Op]
      BY <1>18, <2>2, <2>3 DEF GetLookup, TypeOK
    <2> QED
      BY <1>18, <2>4 DEF GetLookup, RLock, TypeOK, db
  <1>19. ASSUME NEW p \in Procs, GetQuery(p)
         PROVE  TypeOK'
    <2>1. op' \in [Procs -> Op]
      BY <1>19, VisibleType DEF GetQuery, TypeOK, Op, Steps
    <2> QED
      BY <1>19, <2>1 DEF GetQuery, TypeOK, db, lock
  <1>20. ASSUME NEW p \in Procs, GetFail(p)
         PROVE  TypeOK'
    BY <1>20, <1>a DEF GetFail, RUnlock, Return, TypeOK, db
  <1>21. ASSUME NEW p \in Procs, GetPut(p)
         PROVE  TypeOK'
    <2>1. [name |-> op[p].name, snap |-> op[p].snap, rows |-> op[p].rows] \in CacheEntry
      BY <1>21 DEF GetPut, LockInv, TypeOK, Op, CacheEntry
    <2>2. cache' \subseteq CacheEntry
      BY <1>21, <2>1 DEF GetPut, CachePut, TypeOK
    <2>3. op' \in [Procs -> Op]
      BY <1>21, GotoType DEF GetPut, Steps
    <2> QED
      BY <1>21, <2>2, <2>3 DEF GetPut, TypeOK, db, lock
  <1>22. ASSUME NEW p \in Procs, GetReturn(p)
         PROVE  TypeOK'
    <2>1. op' \in [Procs -> Op]
      BY <1>22, <1>a, GotoType DEF GetReturn, Return, TypeOK, Steps
    <2> QED
      BY <1>22, <2>1 DEF GetReturn, RUnlock, TypeOK, db
  <1>23. ASSUME NEW p \in Procs, NEW n \in Names, NEW s \in SnapIds,
                GetTableMetadata(p, n, s)
         PROVE  TypeOK'
    <2>1. op' \in [Procs -> Op]
      BY <1>23, <1>a, GetTableIDFacts DEF GetTableMetadata, TypeOK, Op, Idle, TableRow, Steps
    <2> QED
      BY <1>23, <2>1 DEF GetTableMetadata, TypeOK, db, lock
  <1>24. ASSUME NEW p \in Procs, MetaReply(p)
         PROVE  TypeOK'
    BY <1>24, <1>a DEF MetaReply, Return, TypeOK, db, lock
  <1>25. CASE Restart
    BY <1>25, <1>a DEF Restart, TypeOK, db
  <1>26. CASE UNCHANGED vars
    BY <1>26 DEF vars, TypeOK
  <1>27. ASSUME NEW p \in Procs, Accept(p)
         PROVE  TypeOK'
    BY <1>1, <1>2, <1>4, <1>9, <1>10, <1>18, <1>23, <1>27, <1>a, CatalogAssumption
       DEF Accept, GetPartitions, SnapIds
  <1>28. ASSUME NEW p \in Procs, MetaGetPartitions(p)
         PROVE  TypeOK'
    BY <1>18, <1>28 DEF MetaGetPartitions, LockInv, TypeOK, Op
  <1> QED
    BY <1>3, <1>5, <1>6, <1>7, <1>8, <1>11, <1>12, <1>13, <1>14, <1>15, <1>16, <1>17,
       <1>19, <1>20, <1>21, <1>22, <1>24, <1>25, <1>26, <1>27, <1>28
       DEF Next, Continue

\* Every step keeps the lock discipline.
LEMMA LockStep ==
    ASSUME IInv, [Next]_vars
    PROVE  LockInv'
  <1> USE CatalogAssumption DEF IInv, LockInv, Committing, Renaming, Reading
  <1>a. op \in [Procs -> Op] /\ xlock \in [Names -> Procs \cup {None}]
                             /\ slock \in [Names -> SUBSET Procs]
    BY DEF TypeOK
  <1>1. ASSUME NEW p \in Procs, NEW n \in Names, CreateTable(p, n)
        PROVE  LockInv'
    BY <1>1 DEF CreateTable, lock
  <1>2. ASSUME NEW p \in Procs, NEW n \in Names, DropTable(p, n)
        PROVE  LockInv'
    <2>1. CASE UNCHANGED op
      BY <1>2, <2>1 DEF DropTable, lock
    <2>2. CASE op' = [op EXCEPT ![p] = [Idle EXCEPT !.at = "drop_inval", !.name = n]]
      <3>1. op'[p].at = "drop_inval" /\ op'[p].name = n
        BY <1>a, <2>2 DEF Idle
      <3> QED
        BY <1>2, <1>a, <2>2, <3>1 DEF DropTable, lock
    <2> QED
      BY <1>2, <2>1, <2>2 DEF DropTable
  <1>3. ASSUME NEW p \in Procs, NEW old \in Names, NEW new \in Names,
               RenameLockOld(p, old, new)
        PROVE  LockInv'
    BY <1>3, <1>a DEF RenameLockOld, CanLock, Lock, Op, Idle
  <1>4. ASSUME NEW p \in Procs, NEW n \in Names, AlterTable(p, n)
        PROVE  LockInv'
    BY <1>4 DEF AlterTable, lock
  <1>5. ASSUME NEW p \in Procs, NEW n \in Names, CommitLock(p, n)
        PROVE  LockInv'
    BY <1>5, <1>a DEF CommitLock, CanLock, Lock, Op, Idle
  <1>6. ASSUME NEW p \in Procs, NEW add \in SUBSET Keys, NEW del \in SUBSET Keys,
               CommitTx(p, add, del)
        PROVE  LockInv'
    BY <1>6, <1>a DEF CommitTx, Goto, Op, lock
  <1>7. ASSUME NEW p \in Procs, NEW add \in SUBSET Keys, NEW del \in SUBSET Keys,
               CommitTxLost(p, add, del)
        PROVE  LockInv'
    BY <1>7, <1>a DEF CommitTxLost, Unlock, Return, Op, Idle
  <1>8. ASSUME NEW w \in limbo, Resolve(w)
        PROVE  LockInv'
    BY <1>8 DEF Resolve, lock
  <1>9. ASSUME NEW p \in Procs, NEW o \in Op, NEW n \in Names, NEW s \in SnapIds,
               op[p].at \in {"idle", "meta_get"}, GetLookup(p, o, n, s)
        PROVE  LockInv'
    <2> DEFINE snap == IF s # 0 THEN s ELSE GetCurrentSnapshot(n)
               here == [o EXCEPT !.name = n, !.snap = snap]
    <2>1. \/ op' = [op EXCEPT ![p] = [here EXCEPT !.at = "get_query"]]
          \/ \E e \in cache :
                op' = [op EXCEPT ![p] = [here EXCEPT !.at = "get_done", !.rows = e.rows]]
      BY <1>9 DEF GetLookup
    <2>2. /\ \A q \in Procs \ {p} : op'[q] = op[q]
          /\ op'[p].at \in {"get_query", "get_done"}
          /\ op'[p].name = n
      <3>1. here.name = n /\ here \in [at : Steps, name : {n}, to : Names \cup {None},
                 tid : 0 .. MaxTables, base : SnapIds, snap : {snap}, rows : SUBSET FileRow]
        BY DEF Op
      <3>2. CASE op' = [op EXCEPT ![p] = [here EXCEPT !.at = "get_query"]]
        <4>1. op'[p] = [here EXCEPT !.at = "get_query"]
          BY <1>a, <3>2, Zenon
        <4>2. op'[p].at = "get_query" /\ op'[p].name = n
          BY <3>1, <4>1
        <4> QED
          BY <1>a, <3>2, <4>2
      <3>3. ASSUME NEW e \in cache,
                   op' = [op EXCEPT ![p] = [here EXCEPT !.at = "get_done", !.rows = e.rows]]
            PROVE  /\ \A q \in Procs \ {p} : op'[q] = op[q]
                   /\ op'[p].at = "get_done" /\ op'[p].name = n
        <4>1. op'[p] = [here EXCEPT !.at = "get_done", !.rows = e.rows]
          BY <1>a, <3>3, Zenon
        <4>2. op'[p].at = "get_done" /\ op'[p].name = n
          BY <3>1, <4>1
        <4> QED
          BY <1>a, <3>3, <4>2
      <3> QED
        BY <2>1, <3>2, <3>3
    <2>3. xlock[n] = None /\ xlock' = xlock /\ slock' = [slock EXCEPT ![n] = @ \cup {p}]
      BY <1>9 DEF GetLookup, CanRLock, RLock
    <2> QED
      BY <1>a, <2>2, <2>3
  <1>10. ASSUME NEW p \in Procs, NEW n \in Names, NEW s \in SnapIds,
                GetTableMetadata(p, n, s)
         PROVE  LockInv'
    BY <1>10, <1>a DEF GetTableMetadata, Op, Idle, lock
  <1>11. CASE Restart
    BY <1>11 DEF Restart, Idle
  <1>12. CASE UNCHANGED vars
    BY <1>12 DEF vars
  <1>13. ASSUME NEW p \in Procs, DropInvalidate(p)
         PROVE  LockInv'
    BY <1>13, <1>a DEF DropInvalidate, InvalidateTableCache, Return, Idle, lock, Op
  <1>14. ASSUME NEW p \in Procs, RenameLockNew(p)
         PROVE  LockInv'
    BY <1>14, <1>a DEF RenameLockNew, CanLock, Lock, Goto, Op
  <1>15. ASSUME NEW p \in Procs, RenameExec(p)
         PROVE  LockInv'
    BY <1>15, <1>a DEF RenameExec, Goto, Op
  <1>16. ASSUME NEW p \in Procs, RenameInvalidateOld(p)
         PROVE  LockInv'
    BY <1>16, <1>a DEF RenameInvalidateOld, Goto, lock, Op
  <1>17. ASSUME NEW p \in Procs, RenameInvalidateNew(p)
         PROVE  LockInv'
    BY <1>17, <1>a DEF RenameInvalidateNew, Return, Idle, lock, Op
  <1>18. ASSUME NEW p \in Procs, CommitRead(p)
         PROVE  LockInv'
    BY <1>18, <1>a DEF CommitRead, lock, Op
  <1>19. ASSUME NEW p \in Procs, CommitInsert(p)
         PROVE  LockInv'
    BY <1>19, <1>a DEF CommitInsert, lock, Op
  <1>20. ASSUME NEW p \in Procs, CommitFail(p)
         PROVE  LockInv'
    BY <1>20, <1>a DEF CommitFail, Unlock, Return, Idle, Op
  <1>21. ASSUME NEW p \in Procs, CommitInvalidate(p)
         PROVE  LockInv'
    BY <1>21, <1>a DEF CommitInvalidate, Unlock, Return, Idle, Op
  <1>22. ASSUME NEW p \in Procs, GetQuery(p)
         PROVE  LockInv'
    BY <1>22, <1>a DEF GetQuery, lock, Op
  <1>23. ASSUME NEW p \in Procs, GetFail(p)
         PROVE  LockInv'
    BY <1>23, <1>a DEF GetFail, RUnlock, Return, Idle, Op
  <1>24. ASSUME NEW p \in Procs, GetPut(p)
         PROVE  LockInv'
    BY <1>24, <1>a DEF GetPut, Goto, lock, Op
  <1>25. ASSUME NEW p \in Procs, GetReturn(p)
         PROVE  LockInv'
    BY <1>25, <1>a DEF GetReturn, RUnlock, Return, Goto, Idle, Op
  <1>26. ASSUME NEW p \in Procs, MetaReply(p)
         PROVE  LockInv'
    BY <1>26, <1>a DEF MetaReply, Return, Idle, lock, Op
  <1>27. ASSUME NEW p \in Procs, Accept(p)
         PROVE  LockInv'
    <2>1. Idle \in Op
      BY DEF Idle, Op, SnapIds, Steps
    <2> QED
      BY <1>1, <1>2, <1>3, <1>4, <1>5, <1>9, <1>10, <1>27, <2>1
         DEF Accept, GetPartitions, SnapIds
  <1>28. ASSUME NEW p \in Procs, MetaGetPartitions(p)
         PROVE  LockInv'
    BY <1>9, <1>28, <1>a DEF MetaGetPartitions, Op
  <1> QED
    BY <1>6, <1>7, <1>8, <1>11, <1>12, <1>13, <1>14, <1>15, <1>16, <1>17,
       <1>18, <1>19, <1>20, <1>21, <1>22, <1>23, <1>24, <1>25, <1>26, <1>27, <1>28
       DEF Next, Continue

\* Every step keeps the names of tables unique.
LEMMA NameStep ==
    ASSUME IInv, [Next]_vars
    PROVE  NameInv'
  <1> USE DEF IInv
  <1>a. tables \in [TableIds -> TableRow]
    BY DEF TypeOK
  <1>1. CASE UNCHANGED <<tables, snapshots, partitions>>
    BY <1>1 DEF NameInv
  <1>2. ASSUME NEW p \in Procs, NEW n \in Names, CreateTable(p, n)
        PROVE  NameInv'
    BY <1>2, <1>a DEF CreateTable, NameTaken, NameInv, TableRow
  <1>3. ASSUME NEW p \in Procs, NEW n \in Names, DropTable(p, n)
        PROVE  NameInv'
    BY <1>3, <1>a, GetTableIDFacts
       DEF DropTable, SoftDelete, Purge, NoTable, IsLive, NameInv, TableRow
  <1>4. ASSUME NEW p \in Procs, RenameExec(p)
        PROVE  NameInv'
    BY <1>4, <1>a, GetTableIDFacts DEF RenameExec, NameTaken, IsLive, NameInv, TableRow
  <1>5. ASSUME NEW w \in SnapshotRow, tables[w.table].state = "live", Apply(w)
        PROVE  NameInv'
    BY <1>5, <1>a DEF Apply, NameInv, TableRow
  <1>6. ASSUME NEW p \in Procs, NEW add \in SUBSET Keys, NEW del \in SUBSET Keys,
               CommitTx(p, add, del)
        PROVE  NameInv'
    <2>1. op[p].tid \in TableIds /\ tables[op[p].tid].state = "live"
      BY <1>6 DEF CommitTx, CommitInv, IsLive
    <2>2. NewSnapshot(p, add, del).table = op[p].tid
      BY DEF NewSnapshot
    <2> QED
      BY <1>5, <1>6, <2>1, <2>2, NewSnapshotType DEF CommitTx
  <1>7. ASSUME NEW w \in limbo, Resolve(w)
        PROVE  NameInv'
    BY <1>1, <1>5, <1>7 DEF Resolve, TypeOK, CommitInv
  <1> QED
    BY <1>1, <1>2, <1>3, <1>4, <1>6, <1>7, WritingSteps

\* Two handlers at the COMMIT of the same table are one.
LEMMA OneCommitter ==
    ASSUME IInv, NEW p \in Procs, NEW q \in Procs, NEW n \in Names,
           op[p].at = "commit_tx", IsLive(op[p].tid, n), xlock[n] = q \/ xlock[n] = None
    PROVE  xlock[n] = p
  <1>1. op[p].name = n
    BY DEF IInv, CommitInv, IsLive
  <1> QED
    BY <1>1 DEF IInv, LockInv, Committing

\* A step that changes neither a table nor an unanswered transaction, and
\* takes no handler to its COMMIT, keeps CommitInv.
LEMMA QuietStep ==
    ASSUME IInv, UNCHANGED <<tables, limbo, snapSeq>>,
           \A q \in Procs : op'[q].at = "commit_tx" => op'[q] = op[q]
    PROVE  CommitInv'
  BY DEF IInv, CommitInv, IsLive

\* Every step keeps the facts about commits under way.
LEMMA CommitStep ==
    ASSUME IInv, [Next]_vars
    PROVE  CommitInv'
  <1> USE DEF IInv
  <1>a. /\ tables \in [TableIds -> TableRow] /\ op \in [Procs -> Op]
        /\ limbo \subseteq SnapshotRow /\ snapSeq \in SnapIds
    BY DEF TypeOK
  <1>1. ASSUME NEW p \in Procs, NEW n \in Names, CreateTable(p, n)
        PROVE  CommitInv'
    BY <1>1, <1>a, CatalogAssumption
       DEF CreateTable, CommitInv, IsLive, TableRow, SnapshotRow, SnapIds
  <1>2. ASSUME NEW p \in Procs, NEW n \in Names, DropTable(p, n)
        PROVE  CommitInv'
    <2> DEFINE t == GetTableID(n)
    <2>1. t \in TableIds /\ IsLive(t, n) /\ xlock[n] = None /\ RowFree(t)
      BY <1>2, GetTableIDFacts DEF DropTable, CanLock
    <2>2. \A q \in Procs : op[q].at = "commit_tx" => op[q].tid # t
      BY <2>1, OneCommitter, CatalogAssumption
    <2>3. /\ \A u \in TableIds \ {t} : tables'[u] = tables[u]
          /\ tables'[t].current <= snapSeq
      BY <1>2, <1>a, <2>1, CatalogAssumption
         DEF DropTable, SoftDelete, Purge, NoTable, CommitInv, TableRow, SnapIds
    <2>4. \A q \in Procs : op'[q].at = "commit_tx" => op'[q] = op[q]
      BY <1>2, <1>a DEF DropTable, Idle
    <2> HIDE DEF t
    <2> QED
      BY <1>2, <1>a, <2>1, <2>2, <2>3, <2>4
         DEF DropTable, CommitInv, IsLive, RowFree, SnapshotRow
  <1>3. ASSUME NEW p \in Procs, RenameExec(p)
        PROVE  CommitInv'
    <2> DEFINE t == GetTableID(op[p].name)
    <2>0. \A q \in Procs : op'[q].at = "commit_tx" => op'[q] = op[q]
      BY <1>3, <1>a DEF RenameExec, Goto, Op
    <2>1. CASE UNCHANGED tables
      BY <1>3, <2>0, <2>1, QuietStep DEF RenameExec
    <2>2. CASE tables' # tables
      <3>1. /\ t \in TableIds /\ IsLive(t, op[p].name) /\ RowFree(t)
            /\ tables' = [tables EXCEPT ![t].name = op[p].to]
        BY <1>3, <2>2, GetTableIDFacts DEF RenameExec
      <3>2. op[p].name \in Names /\ xlock[op[p].name] = p /\ op[p].at = "rename_exec"
        BY <1>3 DEF RenameExec, LockInv, Renaming
      <3>3. \A q \in Procs : op[q].at = "commit_tx" => op[q].tid # t
        BY <3>1, <3>2, OneCommitter
      <3>4. \A u \in TableIds :
               /\ tables'[u].current = tables[u].current
               /\ tables'[u].state = tables[u].state
               /\ u # t => tables'[u].name = tables[u].name
        BY <1>a, <3>1 DEF TableRow
      <3> HIDE DEF t
      <3> QED
        BY <1>3, <1>a, <2>0, <3>1, <3>3, <3>4
           DEF RenameExec, CommitInv, IsLive, RowFree, SnapshotRow
    <2> QED
      BY <2>1, <2>2
  <1>4. ASSUME NEW p \in Procs, CommitInsert(p)
        PROVE  CommitInv'
    <2> DEFINE t == GetTableID(op[p].name)
    <2>1. t \in TableIds /\ IsLive(t, op[p].name)
      BY <1>4, GetTableIDFacts DEF CommitInsert
    <2>2. /\ op'[p].tid = t /\ op'[p].snap = snapSeq + 1 /\ op'[p].name = op[p].name
          /\ \A q \in Procs \ {p} : op'[q] = op[q]
      BY <1>4, <1>a DEF CommitInsert, Op
    <2>3. /\ tables' = tables /\ limbo' = limbo /\ snapSeq' = snapSeq + 1
      BY <1>4 DEF CommitInsert
    <2> HIDE DEF t
    <2>4. \A u \in TableIds : tables[u].current \in Int /\ tables[u].current <= snapSeq
      BY <1>a DEF CommitInv, TableRow, SnapIds
    <2>5. snapSeq \in Int /\ \A w \in limbo : w.id \in Int /\ w.table \in TableIds
      BY <1>a DEF SnapshotRow, SnapIds
    <2>6. \A q \in Procs : op[q].snap \in Int
      BY <1>a DEF Op, SnapIds
    <2> QED
      BY <2>1, <2>2, <2>3, <2>4, <2>5, <2>6 DEF CommitInv, IsLive
  <1>5. ASSUME NEW p \in Procs, NEW add \in SUBSET Keys, NEW del \in SUBSET Keys,
               CommitTx(p, add, del) \/ CommitTxLost(p, add, del)
        PROVE  CommitInv'
    <2> DEFINE t == op[p].tid
               w == NewSnapshot(p, add, del)
    <2>1. /\ op[p].at = "commit_tx" /\ RowFree(t) /\ snapSeq' = snapSeq
          /\ op'[p].at # "commit_tx" /\ \A q \in Procs \ {p} : op'[q] = op[q]
      BY <1>5, <1>a DEF CommitTx, CommitTxLost, Goto, Return, Idle, Op
    <2>2. /\ w.table = t /\ w.id = op[p].snap /\ w \in SnapshotRow
          /\ t \in TableIds /\ tables[t].state = "live"
          /\ tables[t].current < w.id /\ w.id <= snapSeq
      BY <2>1, NewSnapshotType DEF NewSnapshot, CommitInv, IsLive
    <2>3. \A q \in Procs \ {p} : op[q].at = "commit_tx" => op[q].tid # t
      <3>1. op[p].name \in Names /\ xlock[op[p].name] = p /\ IsLive(t, op[p].name)
        BY <2>1 DEF LockInv, Committing, CommitInv
      <3> QED
        BY <3>1, OneCommitter
    <2>4. CASE CommitTx(p, add, del)
      <3>1. /\ \A u \in TableIds \ {t} : tables'[u] = tables[u]
            /\ tables'[t].current = w.id
        BY <1>a, <2>2, <2>4 DEF CommitTx, Apply, TableRow
      <3>2. limbo' = limbo
        BY <2>4 DEF CommitTx
      <3> HIDE DEF w, t
      <3> QED
        BY <1>a, <2>1, <2>2, <2>3, <3>1, <3>2
           DEF CommitInv, IsLive, RowFree, SnapshotRow
    <2>5. CASE CommitTxLost(p, add, del)
      <3>1. limbo' = limbo \cup {w} /\ tables' = tables
        BY <2>5 DEF CommitTxLost
      <3> HIDE DEF w, t
      <3> QED
        BY <1>a, <2>1, <2>2, <2>3, <3>1 DEF CommitInv, IsLive, RowFree, SnapshotRow
    <2> QED
      BY <1>5, <2>4, <2>5
  <1>6. ASSUME NEW w \in limbo, Resolve(w)
        PROVE  CommitInv'
    <2>1. CASE UNCHANGED tables
      BY <1>6, <2>1 DEF Resolve, CommitInv, IsLive
    <2>2. CASE Apply(w)
      <3>1. /\ \A u \in TableIds \ {w.table} : tables'[u] = tables[u]
            /\ w.table \in TableIds
            /\ tables'[w.table].current = w.id
            /\ tables'[w.table].name = tables[w.table].name
            /\ tables'[w.table].state = tables[w.table].state
        BY <1>a, <2>2 DEF Apply, TableRow, SnapshotRow
      <3> QED
        BY <1>6, <1>a, <3>1 DEF Resolve, CommitInv, IsLive, SnapshotRow
    <2> QED
      BY <1>6, <2>1, <2>2 DEF Resolve
  <1>7. ASSUME NEW p \in Procs, Accept(p)
        PROVE  CommitInv'
    <2>1. ASSUME UNCHANGED <<tables, limbo, snapSeq>>,
                 \A q \in Procs : op'[q].at = "commit_tx" => op'[q] = op[q]
          PROVE  CommitInv'
      BY <2>1, QuietStep
    <2>2. ASSUME NEW n \in Names, NEW new \in Names, RenameLockOld(p, n, new)
          PROVE  CommitInv'
      BY <1>a, <2>1, <2>2 DEF RenameLockOld, db, Idle
    <2>3. ASSUME NEW n \in Names, AlterTable(p, n)
          PROVE  CommitInv'
      BY <2>1, <2>3 DEF AlterTable, db
    <2>4. ASSUME NEW n \in Names, CommitLock(p, n)
          PROVE  CommitInv'
      BY <1>a, <2>1, <2>4 DEF CommitLock, db, Idle
    <2>5. ASSUME NEW n \in Names, NEW s \in ReadAt, GetPartitions(p, n, s)
          PROVE  CommitInv'
      BY <1>a, <2>1, <2>5 DEF GetPartitions, GetLookup, db, Idle
    <2>6. ASSUME NEW n \in Names, NEW s \in ReadAt, GetTableMetadata(p, n, s)
          PROVE  CommitInv'
      BY <1>a, <2>1, <2>6 DEF GetTableMetadata, db, Idle
    <2> QED
      BY <1>1, <1>2, <1>7, <2>2, <2>3, <2>4, <2>5, <2>6 DEF Accept
  <1>8. ASSUME NEW p \in Procs, Continue(p), ~ RenameExec(p), ~ CommitInsert(p),
               \A add, del \in SUBSET Keys :
                  ~ CommitTx(p, add, del) /\ ~ CommitTxLost(p, add, del)
        PROVE  CommitInv'
    <2>1. UNCHANGED <<tables, limbo, snapSeq>>
      BY <1>8 DEF Continue, DropInvalidate, RenameLockNew, RenameInvalidateOld,
                  RenameInvalidateNew, CommitRead, CommitFail, CommitInvalidate,
                  GetQuery, GetFail, GetPut, GetReturn, MetaGetPartitions, GetLookup,
                  MetaReply, db
    <2>2. (\A q \in Procs \ {p} : op'[q] = op[q]) /\ op'[p].at # "commit_tx"
      <3>1. CASE \/ DropInvalidate(p) \/ RenameInvalidateNew(p) \/ CommitFail(p)
                 \/ CommitInvalidate(p) \/ GetFail(p) \/ MetaReply(p)
        BY <1>a, <3>1 DEF DropInvalidate, RenameInvalidateNew, CommitFail,
                          CommitInvalidate, GetFail, MetaReply, Return, Idle
      <3>2. CASE RenameLockNew(p) \/ RenameInvalidateOld(p) \/ GetPut(p)
        BY <1>a, <3>2 DEF RenameLockNew, RenameInvalidateOld, GetPut, Goto, Op
      <3>3. CASE CommitRead(p)
        BY <1>a, <3>3 DEF CommitRead, Op
      <3>4. CASE GetQuery(p)
        BY <1>a, <3>4 DEF GetQuery, Op
      <3>5. CASE GetReturn(p)
        BY <1>a, <3>5 DEF GetReturn, Goto, Return, Idle, Op
      <3>6. CASE MetaGetPartitions(p)
        BY <1>a, <3>6 DEF MetaGetPartitions, GetLookup, Op
      <3> QED
        BY <1>8, <3>1, <3>2, <3>3, <3>4, <3>5, <3>6 DEF Continue
    <2> QED
      BY <2>1, <2>2, QuietStep
  <1>9. CASE Restart
    BY <1>9, QuietStep DEF Restart, db, Idle
  <1>10. CASE UNCHANGED vars
    BY <1>10, QuietStep DEF vars
  <1> QED
    BY <1>3, <1>4, <1>5, <1>6, <1>7, <1>8, <1>9, <1>10 DEF Next

-----------------------------------------------------------------------------
(* Theorems *)

\* The inductive invariant holds.
THEOREM Inductive == Spec => []IInv
  <1>1. Init => IInv
    <2> SUFFICES ASSUME Init PROVE IInv
      OBVIOUS
    <2>1. TypeOK
      BY CatalogAssumption DEF Init, TypeOK, NoTable, TableRow, Idle, Op, Steps, SnapIds
    <2>2. LockInv
      BY DEF Init, LockInv, Idle, Committing, Renaming, Reading
    <2>3. NameInv
      BY DEF Init, NameInv, NoTable
    <2>4. CommitInv
      BY DEF Init, CommitInv, NoTable, Idle
    <2> QED
      BY <2>1, <2>2, <2>3, <2>4 DEF IInv
  <1>2. IInv /\ [Next]_vars => IInv'
    BY TypeStep, LockStep, NameStep, CommitStep DEF IInv
  <1> QED
    BY <1>1, <1>2, PTL DEF Spec

\* Every reachable state has rows, cache entries and locals of their shapes.
THEOREM TypeCorrect == Spec => []TypeOK
  <1>1. IInv => TypeOK
    BY DEF IInv
  <1> QED
    BY <1>1, Inductive, PTL

\* No step changes what a read at a committed snapshot returns, as long as the
\* table is not purged.
LEMMA KeepStep ==
    ASSUME IInv, [Next]_vars
    PROVE  \A t \in TableIds : tables'[t].state # "purged" =>
              \A s \in 0 .. tables[t].current : Visible(t, s)' = Visible(t, s)
  <1> DEFINE Keep == \A t \in TableIds : tables'[t].state # "purged" =>
                        \A s \in 0 .. tables[t].current : Visible(t, s)' = Visible(t, s)
  <1> SUFFICES Keep
    OBVIOUS
  <1> USE DEF IInv
  <1>a. \A t \in TableIds : tables[t].current \in SnapIds
    BY DEF TypeOK, TableRow
  <1>1. CASE UNCHANGED partitions
    BY <1>1 DEF Visible, VisibleAt
  <1>2. ASSUME NEW p \in Procs, NEW n \in Names, DropTable(p, n)
        PROVE  Keep
    <2> DEFINE d == GetTableID(n)
    <2>1. d \in TableIds
      BY <1>2, GetTableIDFacts DEF DropTable
    <2>2. CASE SoftDelete(d)
      BY <1>1, <2>2 DEF SoftDelete
    <2>3. CASE Purge(d)
      <3>1. tables'[d].state = "purged"
        BY <2>1, <2>3 DEF Purge, NoTable, TypeOK
      <3>2. ASSUME NEW t \in TableIds, t # d, NEW s
            PROVE  Visible(t, s)' = Visible(t, s)
        <4>1. { q \in partitions' : q.table = t /\ VisibleAt(q, s) }
                 = { q \in partitions : q.table = t /\ VisibleAt(q, s) }
          BY <2>3, <3>2 DEF Purge
        <4> QED
          BY <4>1 DEF Visible, VisibleAt
      <3> QED
        BY <3>1, <3>2
    <2> QED
      BY <1>2, <2>2, <2>3 DEF DropTable
  <1>3. ASSUME NEW w \in SnapshotRow, tables[w.table].current < w.id, Apply(w)
        PROVE  Keep
    <2> SUFFICES ASSUME NEW t \in TableIds, NEW s \in 0 .. tables[t].current
                 PROVE  Visible(t, s)' = Visible(t, s)
      OBVIOUS
    <2>1. s \in SnapIds /\ (t # w.table \/ s < w.id)
      BY <1>3, <1>a, CatalogAssumption DEF SnapIds, SnapshotRow
    <2> QED
      BY <1>3, <2>1, ApplyKeepsOlder
  <1>4. ASSUME NEW p \in Procs, NEW add \in SUBSET Keys, NEW del \in SUBSET Keys,
               CommitTx(p, add, del)
        PROVE  Keep
    <2>1. /\ NewSnapshot(p, add, del) \in SnapshotRow
          /\ NewSnapshot(p, add, del).table = op[p].tid
          /\ NewSnapshot(p, add, del).id = op[p].snap
      BY <1>4, NewSnapshotType DEF CommitTx, CommitInv, NewSnapshot
    <2> QED
      BY <1>3, <1>4, <2>1 DEF CommitTx, CommitInv
  <1>5. ASSUME NEW w \in limbo, Resolve(w)
        PROVE  Keep
    BY <1>1, <1>3, <1>5 DEF Resolve, CommitInv, TypeOK
  <1>6. ASSUME NEW p \in Procs, NEW n \in Names, CreateTable(p, n)
        PROVE  Keep
    BY <1>1, <1>6 DEF CreateTable
  <1>7. ASSUME NEW p \in Procs, RenameExec(p)
        PROVE  Keep
    BY <1>1, <1>7 DEF RenameExec
  <1> HIDE DEF Keep
  <1> QED
    BY <1>1, <1>2, <1>4, <1>5, <1>6, <1>7, WritingSteps

\* No step changes what a read at a committed snapshot returns, whatever
\* happens to acknowledgements (AckLoss may be TRUE).
THEOREM Immutable == Spec => SnapshotImmutable
  <1>1. IInv /\ [Next]_vars =>
           [\A t \in TableIds : tables'[t].state # "purged" =>
               \A s \in 0 .. tables[t].current : Visible(t, s)' = Visible(t, s)]_vars
    BY KeepStep
  <1> QED
    BY <1>1, Inductive, PTL DEF Spec, SnapshotImmutable

-----------------------------------------------------------------------------
(* One chain of snapshots per table, when every COMMIT is answered *)

\* Only CommitRead and CommitInsert take a handler to the steps in which it
\* relies on the parent it has compared, and only GetQuery to the one in which
\* it stores what it has read.
LEMMA StepsInto ==
    ASSUME IInv, [Next]_vars, NEW q \in Procs
    PROVE  /\ op'[q].at = "commit_insert" => op'[q] = op[q] \/ CommitRead(q)
           /\ op'[q].at = "commit_tx" => op'[q] = op[q] \/ CommitInsert(q)
           /\ op'[q].at = "get_put" => op'[q] = op[q] \/ GetQuery(q)
  <1> DEFINE Goal == /\ op'[q].at = "commit_insert" => op'[q] = op[q] \/ CommitRead(q)
                     /\ op'[q].at = "commit_tx" => op'[q] = op[q] \/ CommitInsert(q)
                     /\ op'[q].at = "get_put" => op'[q] = op[q] \/ GetQuery(q)
  <1>a. op \in [Procs -> Op]
    BY DEF IInv, TypeOK
  <1>1. ASSUME NEW p \in Procs, Accept(p)
        PROVE  Goal
    <2>1. CASE \E n \in Names : CreateTable(p, n) \/ AlterTable(p, n)
      BY <2>1 DEF CreateTable, AlterTable
    <2>2. CASE \E n \in Names : DropTable(p, n) \/ CommitLock(p, n)
      BY <1>a, <2>2 DEF DropTable, CommitLock, Idle
    <2>3. CASE \E n, new \in Names : RenameLockOld(p, n, new)
      BY <1>a, <2>3 DEF RenameLockOld, Idle
    <2>4. ASSUME NEW n \in Names, NEW s \in ReadAt, GetPartitions(p, n, s)
          PROVE  Goal
      BY <1>a, <2>4 DEF GetPartitions, GetLookup, Idle
    <2>5. CASE \E n \in Names, s \in ReadAt : GetTableMetadata(p, n, s)
      BY <1>a, <2>5 DEF GetTableMetadata, Idle
    <2> QED
      BY <1>1, <2>1, <2>2, <2>3, <2>4, <2>5 DEF Accept
  <1>2. ASSUME NEW p \in Procs, Continue(p)
        PROVE  Goal
    <2>1. CASE \/ DropInvalidate(p) \/ RenameInvalidateNew(p) \/ CommitFail(p)
               \/ CommitInvalidate(p) \/ GetFail(p) \/ MetaReply(p)
               \/ \E add, del \in SUBSET Keys : CommitTxLost(p, add, del)
      BY <1>a, <2>1 DEF DropInvalidate, RenameInvalidateNew, CommitFail, CommitTxLost,
                        CommitInvalidate, GetFail, MetaReply, Return, Idle
    <2>2. CASE \/ RenameLockNew(p) \/ RenameExec(p) \/ RenameInvalidateOld(p) \/ GetPut(p)
               \/ \E add, del \in SUBSET Keys : CommitTx(p, add, del)
      BY <1>a, <2>2
         DEF RenameLockNew, RenameExec, RenameInvalidateOld, GetPut, CommitTx, Goto, Op
    <2>3. CASE CommitRead(p)
      BY <1>a, <2>3 DEF CommitRead, Op
    <2>4. CASE CommitInsert(p)
      BY <1>a, <2>4 DEF CommitInsert, Op
    <2>5. CASE GetQuery(p)
      BY <1>a, <2>5 DEF GetQuery, Op
    <2>6. CASE GetReturn(p)
      BY <1>a, <2>6 DEF GetReturn, Goto, Return, Idle, Op
    <2>7. CASE MetaGetPartitions(p)
      BY <1>a, <2>7 DEF MetaGetPartitions, GetLookup, Op
    <2> QED
      BY <1>2, <2>1, <2>2, <2>3, <2>4, <2>5, <2>6, <2>7 DEF Continue
  <1>3. CASE Restart
    BY <1>3 DEF Restart, Idle
  <1>4. CASE (\E w \in limbo : Resolve(w)) \/ UNCHANGED vars
    BY <1>4 DEF Resolve, vars
  <1> QED
    BY <1>1, <1>2, <1>3, <1>4 DEF Next

\* While a handler commits to a table, no step of another one changes which
\* table has the name, nor its current snapshot.
LEMMA HeldName ==
    ASSUME IInv, [Next]_vars, limbo = {}, NEW q \in Procs,
           op[q].at \in {"commit_insert", "commit_tx"}, op'[q] = op[q],
           NEW n, n = op[q].name, NEW t \in TableIds
    PROVE  /\ tables'[t].state = "live" /\ tables'[t].name = n <=> IsLive(t, n)
           /\ IsLive(t, n) => tables'[t].current = tables[t].current
  <1> DEFINE Goal == /\ tables'[t].state = "live" /\ tables'[t].name = n <=> IsLive(t, n)
                     /\ IsLive(t, n) => tables'[t].current = tables[t].current
  <1> USE DEF IInv
  <1>a. /\ tables \in [TableIds -> TableRow] /\ op \in [Procs -> Op]
        /\ n \in Names /\ xlock[n] = q /\ q # None
    BY CatalogAssumption DEF TypeOK, LockInv, Committing
  <1>1. CASE UNCHANGED <<tables, snapshots, partitions>>
    BY <1>1 DEF IsLive
  <1>2. ASSUME NEW p \in Procs, NEW m \in Names, CreateTable(p, m)
        PROVE  Goal
    BY <1>2, <1>a DEF CreateTable, CanLock, IsLive, TableRow
  <1>3. ASSUME NEW p \in Procs, NEW m \in Names, DropTable(p, m)
        PROVE  Goal
    <2>1. GetTableID(m) \in TableIds /\ IsLive(GetTableID(m), m) /\ m # n
      BY <1>3, <1>a, GetTableIDFacts DEF DropTable, CanLock
    <2> QED
      BY <1>3, <1>a, <2>1
         DEF DropTable, SoftDelete, Purge, NoTable, IsLive, TableRow
  <1>4. ASSUME NEW p \in Procs, RenameExec(p)
        PROVE  Goal
    <2>1. xlock[op[p].name] = p /\ xlock[op[p].to] = p /\ p # q
      BY <1>4, <1>a DEF RenameExec, LockInv, Renaming, Committing
    <2> QED
      BY <1>4, <1>a, <2>1, GetTableIDFacts DEF RenameExec, IsLive, TableRow
  <1>5. ASSUME NEW p \in Procs, NEW add \in SUBSET Keys, NEW del \in SUBSET Keys,
               CommitTx(p, add, del)
        PROVE  Goal
    <2>1. p # q
      BY <1>5, <1>a DEF CommitTx, Goto, Op
    <2>2. op[p].tid \in TableIds /\ IsLive(op[p].tid, op[p].name) /\ op[p].name # n
      BY <1>5, <1>a, <2>1 DEF CommitTx, CommitInv, LockInv, Committing
    <2>3. tables' = [tables EXCEPT ![op[p].tid].current = op[p].snap]
      BY <1>5 DEF CommitTx, Apply, NewSnapshot
    <2> QED
      BY <1>a, <2>2, <2>3 DEF IsLive, TableRow
  <1> QED
    BY <1>1, <1>2, <1>3, <1>4, <1>5, WritingSteps DEF IsLive

\* The lookup of a name finds the same table when the same one is live.
LEMMA LookupSame ==
    ASSUME NameInv, NEW n,
           \A t \in TableIds : tables'[t].state = "live" /\ tables'[t].name = n <=> IsLive(t, n)
    PROVE  GetTableID(n)' = GetTableID(n)
  <1> DEFINE Live(t) == tables'[t].state = "live" /\ tables'[t].name = n
  <1>0. GetTableID(n)' = IF \E t \in TableIds : Live(t)
                         THEN CHOOSE t \in TableIds : Live(t) ELSE 0
    BY DEF GetTableID, IsLive
  <1>1. CASE \E t \in TableIds : IsLive(t, n)
    <2>1. GetTableID(n) \in TableIds /\ IsLive(GetTableID(n), n)
      BY <1>1, Zenon DEF GetTableID
    <2>2. PICK u : u = CHOOSE t \in TableIds : Live(t)
      OBVIOUS
    <2>3. u \in TableIds /\ Live(u)
      <3>1. \E t \in TableIds : Live(t)
        BY <1>1
      <3> HIDE DEF Live
      <3> QED
        BY <2>2, <3>1, Zenon
    <2>4. u = GetTableID(n)
      BY <2>1, <2>3 DEF NameInv, IsLive
    <2> QED
      BY <1>0, <2>2, <2>3, <2>4
  <1>2. CASE ~ \E t \in TableIds : IsLive(t, n)
    BY <1>0, <1>2 DEF GetTableID
  <1> QED
    BY <1>1, <1>2

\* The current snapshot of a name, when the live table of the name and its
\* pointer stay as they are.
LEMMA LookupFrame ==
    ASSUME NameInv, NEW n,
           \A t \in TableIds :
              /\ tables'[t].state = "live" /\ tables'[t].name = n <=> IsLive(t, n)
              /\ IsLive(t, n) => tables'[t].current = tables[t].current
    PROVE  GetCurrentSnapshot(n)' = GetCurrentSnapshot(n)
  <1>1. GetTableID(n)' = GetTableID(n)
    BY LookupSame
  <1>2. GetTableID(n) # 0 => tables'[GetTableID(n)].current = tables[GetTableID(n)].current
    BY GetTableIDFacts
  <1> QED
    BY <1>1, <1>2 DEF GetCurrentSnapshot

LinearInv == BaseInv /\ LinearHistory

\* Without lost answers no transaction is left unanswered.
LEMMA LimboStep ==
    ASSUME ~ AckLoss, limbo = {}, [Next]_vars
    PROVE  limbo' = {}
  <1>1. ASSUME NEW p \in Procs, Accept(p)
        PROVE  limbo' = limbo
    BY <1>1 DEF Accept, CreateTable, DropTable, RenameLockOld, AlterTable, CommitLock,
                GetPartitions, GetLookup, GetTableMetadata, db
  <1>2. ASSUME NEW p \in Procs, Continue(p)
        PROVE  limbo' = limbo
    BY <1>2 DEF Continue, DropInvalidate, RenameLockNew, RenameExec,
                RenameInvalidateOld, RenameInvalidateNew, CommitRead, CommitInsert,
                CommitFail, CommitTx, CommitTxLost, CommitInvalidate, GetQuery,
                GetFail, GetPut, GetReturn, MetaGetPartitions, GetLookup, MetaReply, db
  <1> QED
    BY <1>1, <1>2 DEF Next, Restart, vars, db

\* The compared parent stays the current snapshot until the commit.
LEMMA BaseStep ==
    ASSUME IInv, LinearInv, [Next]_vars, limbo' = {}
    PROVE  BaseInv'
  <1> USE DEF IInv, LinearInv
  <1>a. op \in [Procs -> Op] /\ limbo = {}
    BY DEF TypeOK, BaseInv
  <1>2. ASSUME NEW q \in Procs, op'[q].at = "commit_insert"
        PROVE  (op[q].base = GetCurrentSnapshot(op[q].name))'
    <2>1. CASE op'[q] = op[q]
      <3>1. PICK n : n = op[q].name
        OBVIOUS
      <3>2. GetCurrentSnapshot(n)' = GetCurrentSnapshot(n)
        BY <1>2, <1>a, <2>1, <3>1, HeldName, LookupFrame
      <3> QED
        BY <1>2, <2>1, <3>1, <3>2 DEF BaseInv
    <2>2. CASE CommitRead(q)
      <3>1. op'[q].base = GetCurrentSnapshot(op[q].name) /\ op'[q].name = op[q].name
        BY <1>a, <2>2 DEF CommitRead, ValidateParentSnapshot, Op
      <3>2. PICK n : n = op[q].name
        OBVIOUS
      <3>3. GetCurrentSnapshot(n)' = GetCurrentSnapshot(n)
        BY <2>2, LookupFrame DEF CommitRead, db, IsLive
      <3> QED
        BY <3>1, <3>2, <3>3
    <2> QED
      BY <1>2, <2>1, <2>2, StepsInto
  <1>3. ASSUME NEW q \in Procs, op'[q].at = "commit_tx"
        PROVE  (op[q].base = tables[op[q].tid].current)'
    <2>1. CASE op'[q] = op[q]
      <3>1. op[q].tid \in TableIds /\ IsLive(op[q].tid, op[q].name)
        BY <1>3, <2>1 DEF CommitInv
      <3> QED
        BY <1>3, <1>a, <2>1, <3>1, HeldName DEF BaseInv
    <2>2. CASE CommitInsert(q)
      <3>1. op'[q].base = op[q].base /\ op'[q].tid = GetTableID(op[q].name)
        BY <1>a, <2>2 DEF CommitInsert, Op
      <3> QED
        BY <2>2, <3>1 DEF CommitInsert, BaseInv, GetCurrentSnapshot
    <2> QED
      BY <1>3, <2>1, <2>2, StepsInto
  <1> QED
    BY <1>2, <1>3 DEF BaseInv

\* A commit whose parent is the current snapshot extends the chain.
LEMMA LinearStep ==
    ASSUME IInv, LinearInv, [Next]_vars
    PROVE  LinearHistory'
  <1> USE DEF IInv, LinearInv
  <1>a. tables \in [TableIds -> TableRow] /\ snapshots \subseteq SnapshotRow
    BY DEF TypeOK
  <1>1. ASSUME \A t \in TableIds : tables'[t].current = tables[t].current,
               UNCHANGED snapshots
        PROVE  LinearHistory'
    BY <1>1 DEF LinearHistory, SnapshotsOf
  <1>2. ASSUME NEW p \in Procs, NEW n \in Names, CreateTable(p, n)
        PROVE  LinearHistory'
    BY <1>1, <1>2, <1>a DEF CreateTable, NameInv
  <1>3. ASSUME NEW p \in Procs, NEW n \in Names, DropTable(p, n)
        PROVE  LinearHistory'
    <2>1. PICK d \in TableIds : SoftDelete(d) \/ Purge(d)
      BY <1>3, GetTableIDFacts DEF DropTable
    <2>2. CASE SoftDelete(d)
      BY <1>1, <1>a, <2>1, <2>2 DEF SoftDelete, TableRow
    <2>3. CASE Purge(d)
      <3>1. tables'[d].current = 0 /\ \A t \in TableIds \ {d} : tables'[t] = tables[t]
        BY <1>a, <2>1, <2>3 DEF Purge, NoTable
      <3>2. SnapshotsOf(d)' = {} /\ \A t \in TableIds \ {d} : SnapshotsOf(t)' = SnapshotsOf(t)
        BY <2>3 DEF Purge, SnapshotsOf
      <3> QED
        BY <3>1, <3>2 DEF LinearHistory
    <2> QED
      BY <2>1, <2>2, <2>3
  <1>4. ASSUME NEW p \in Procs, RenameExec(p)
        PROVE  LinearHistory'
    BY <1>1, <1>4, <1>a DEF RenameExec, TableRow
  <1>5. ASSUME NEW p \in Procs, NEW add \in SUBSET Keys, NEW del \in SUBSET Keys,
               CommitTx(p, add, del)
        PROVE  LinearHistory'
    <2>0. PICK t, w : t = op[p].tid /\ w = NewSnapshot(p, add, del)
      OBVIOUS
    <2>1. /\ t \in TableIds /\ tables[t].current < op[p].snap
          /\ op[p].base = tables[t].current
      BY <1>5, <2>0 DEF CommitTx, CommitInv, BaseInv
    <2>2. w \in SnapshotRow /\ w.id = op[p].snap /\ w.table = t /\ w.parent = op[p].base
      BY <1>5, <2>0, <2>1, NewSnapshotType DEF NewSnapshot
    <2>3. /\ snapshots' = snapshots \cup {w}
          /\ tables'[t].current = w.id
          /\ \A u \in TableIds \ {t} : tables'[u] = tables[u]
      BY <1>5, <1>a, <2>0, <2>1, <2>2 DEF CommitTx, Apply, TableRow
    <2>4. /\ SnapshotsOf(t)' = SnapshotsOf(t) \cup {w}
          /\ \A u \in TableIds \ {t} : SnapshotsOf(u)' = SnapshotsOf(u)
      BY <2>2, <2>3 DEF SnapshotsOf
    <2>5. /\ \A s \in SnapshotsOf(t) : s.id \in Nat /\ s.parent \in Nat /\ s \in SnapshotRow
          /\ w.id \in Nat /\ w.parent \in Nat /\ tables[t].current \in Nat
      BY <1>a, <2>1, <2>2 DEF SnapshotsOf, SnapshotRow, SnapIds, TableRow
    <2>6. ASSUME NEW s \in SnapshotsOf(t)
          PROVE  s.parent < s.id /\ s.id <= tables[t].current /\ s.parent # w.parent
      BY <2>1, <2>2, <2>5, <2>6 DEF LinearHistory
    <2>7. \A s \in SnapshotsOf(t)' :
             /\ s.parent < s.id
             /\ s.id <= tables'[t].current
             /\ s.parent # 0 => \E r \in SnapshotsOf(t)' : r.id = s.parent
      BY <2>1, <2>2, <2>3, <2>4, <2>5, <2>6 DEF LinearHistory
    <2>8. \A s1, s2 \in SnapshotsOf(t)' : s1.parent = s2.parent => s1 = s2
      BY <2>1, <2>4, <2>6 DEF LinearHistory
    <2>9. \E s \in SnapshotsOf(t)' : s.id = tables'[t].current
      BY <2>3, <2>4
    <2> QED
      BY <2>3, <2>4, <2>7, <2>8, <2>9 DEF LinearHistory
  <1> QED
    BY <1>1, <1>2, <1>3, <1>4, <1>5, WritingSteps DEF BaseInv

\* When every COMMIT is answered, the snapshots of every table form one chain
\* that ends at its current snapshot: no commit is lost or overwritten.
THEOREM Linear == ~ AckLoss => (Spec => []LinearHistory)
  <1> SUFFICES ASSUME ~ AckLoss
               PROVE  Spec => []LinearHistory
    OBVIOUS
  <1>1. Init => LinearInv
    BY DEF Init, LinearInv, BaseInv, LinearHistory, SnapshotsOf, NoTable, Idle
  <1>2. IInv /\ LinearInv /\ [Next]_vars => LinearInv'
    BY LimboStep, BaseStep, LinearStep DEF LinearInv, BaseInv
  <1>3. LinearInv => LinearHistory
    BY DEF LinearInv
  <1> QED
    BY <1>1, <1>2, <1>3, Inductive, PTL DEF Spec

-----------------------------------------------------------------------------
(* The partition cache *)

\* What a reader is about to store is still what the database holds.
PutInv ==
    \A p \in Procs : op[p].at = "get_put" =>
        /\ GetTableID(op[p].name) # 0
        /\ op[p].rows = Visible(GetTableID(op[p].name), op[p].snap)

CacheInv == PutInv /\ StaleMeansInvalidating

-----------------------------------------------------------------------------
(* Names that a step does not touch *)

\* The step writes no table that is, or is going to be, called n.
Untouched(n) ==
    /\ \A p \in Procs : ~ CreateTable(p, n) /\ ~ DropTable(p, n)
    /\ \A p \in Procs : RenameExec(p) => op[p].name # n /\ op[p].to # n
    /\ \A p \in Procs, add, del \in SUBSET Keys : CommitTx(p, add, del) => op[p].name # n

\* Such a step leaves the table of the name, and all that is visible in it.
LEMMA UntouchedFrame ==
    ASSUME IInv, [Next]_vars, limbo = {}, NEW n \in Names, Untouched(n),
           NEW t \in TableIds
    PROVE  /\ tables'[t].state = "live" /\ tables'[t].name = n <=> IsLive(t, n)
           /\ IsLive(t, n) => \A s \in SnapIds : Visible(t, s)' = Visible(t, s)
  <1> DEFINE Goal ==
         /\ tables'[t].state = "live" /\ tables'[t].name = n <=> IsLive(t, n)
         /\ IsLive(t, n) => \A s \in SnapIds : Visible(t, s)' = Visible(t, s)
  <1> USE DEF IInv
  <1>a. tables \in [TableIds -> TableRow]
    BY DEF TypeOK
  <1>b. ASSUME UNCHANGED partitions
        PROVE  \A s \in SnapIds : Visible(t, s)' = Visible(t, s)
    BY <1>b DEF Visible, VisibleAt
  <1>1. CASE UNCHANGED <<tables, snapshots, partitions>>
    BY <1>1, <1>b DEF IsLive
  <1>2. ASSUME NEW p \in Procs, NEW m \in Names, CreateTable(p, m)
        PROVE  Goal
    <2>1. m # n
      BY <1>2 DEF Untouched
    <2> QED
      BY <1>2, <1>a, <1>b, <2>1 DEF CreateTable, IsLive, TableRow
  <1>3. ASSUME NEW p \in Procs, NEW m \in Names, DropTable(p, m)
        PROVE  Goal
    <2>1. m # n
      BY <1>3 DEF Untouched
    <2>2. PICK d \in TableIds : IsLive(d, m) /\ (SoftDelete(d) \/ Purge(d))
      BY <1>3, GetTableIDFacts DEF DropTable
    <2>3. tables'[t].state = "live" /\ tables'[t].name = n <=> IsLive(t, n)
      BY <1>a, <2>1, <2>2 DEF SoftDelete, Purge, NoTable, IsLive, TableRow
    <2>4. CASE SoftDelete(d)
      BY <1>b, <2>3, <2>4 DEF SoftDelete
    <2>5. ASSUME Purge(d), IsLive(t, n), NEW s \in SnapIds
          PROVE  Visible(t, s)' = Visible(t, s)
      <3>1. t # d
        BY <2>1, <2>2, <2>5 DEF IsLive
      <3>2. { q \in partitions' : q.table = t /\ VisibleAt(q, s) }
               = { q \in partitions : q.table = t /\ VisibleAt(q, s) }
        BY <2>5, <3>1 DEF Purge
      <3> QED
        BY <3>2 DEF Visible, VisibleAt
    <2> QED
      BY <2>2, <2>3, <2>4, <2>5
  <1>4. ASSUME NEW p \in Procs, RenameExec(p)
        PROVE  Goal
    <2>1. op[p].name # n /\ op[p].to # n
      BY <1>4 DEF Untouched
    <2> QED
      BY <1>4, <1>a, <1>b, <2>1, GetTableIDFacts DEF RenameExec, IsLive, TableRow
  <1>5. ASSUME NEW p \in Procs, NEW add \in SUBSET Keys, NEW del \in SUBSET Keys,
               CommitTx(p, add, del)
        PROVE  Goal
    <2>1. PICK w : w = NewSnapshot(p, add, del)
      OBVIOUS
    <2>2. op[p].tid \in TableIds /\ IsLive(op[p].tid, op[p].name) /\ op[p].name # n
      BY <1>5 DEF CommitTx, CommitInv, Untouched
    <2>3. w \in SnapshotRow /\ w.table = op[p].tid /\ Apply(w)
      BY <1>5, <2>1, <2>2, NewSnapshotType DEF CommitTx, NewSnapshot
    <2>4. tables'[t].state = "live" /\ tables'[t].name = n <=> IsLive(t, n)
      BY <1>a, <2>2, <2>3 DEF Apply, IsLive, TableRow
    <2>5. IsLive(t, n) => t # w.table
      BY <2>2, <2>3 DEF IsLive
    <2> QED
      BY <2>3, <2>4, <2>5, ApplyKeepsOlder
  <1> QED
    BY <1>1, <1>2, <1>3, <1>4, <1>5, WritingSteps

\* What was read of the name before the step is what would be read after it.
LEMMA FreshFrame ==
    ASSUME IInv, [Next]_vars, limbo = {}, NEW n \in Names, Untouched(n),
           NEW s \in SnapIds, NEW rows,
           GetTableID(n) # 0, rows = Visible(GetTableID(n), s)
    PROVE  (GetTableID(n) # 0 /\ rows = Visible(GetTableID(n), s))'
  <1>1. PICK t \in TableIds : t = GetTableID(n) /\ IsLive(t, n)
    BY GetTableIDFacts
  <1>2. GetTableID(n)' = t
    BY <1>1, UntouchedFrame, LookupSame DEF IInv
  <1>3. Visible(t, s)' = Visible(t, s)
    BY <1>1, UntouchedFrame
  <1>4. t # 0
    BY <1>1
  <1> QED
    BY <1>1, <1>2, <1>3, <1>4

\* Nothing touches the name of a table while a reader has it locked.
LEMMA ReaderUntouched ==
    ASSUME IInv, NEW q \in Procs, op[q].at \in Reading
    PROVE  op[q].name \in Names /\ Untouched(op[q].name)
  <1>1. /\ op[q].name \in Names /\ q \in slock[op[q].name]
        /\ xlock[op[q].name] = None
    BY DEF IInv, LockInv, Reading, TypeOK
  <1>2. ASSUME NEW p \in Procs
        PROVE  ~ CreateTable(p, op[q].name) /\ ~ DropTable(p, op[q].name)
    BY <1>1 DEF CreateTable, DropTable, CanLock
  <1>3. ASSUME NEW p \in Procs, op[p].at \in {"commit_tx", "rename_exec"}
        PROVE  /\ op[p].name # op[q].name
               /\ op[p].at = "rename_exec" => op[p].to # op[q].name
    BY <1>1, <1>3, CatalogAssumption DEF IInv, LockInv, Committing, Renaming
  <1> QED
    BY <1>1, <1>2, <1>3 DEF Untouched, RenameExec, CommitTx

-----------------------------------------------------------------------------
(* Steps *)

\* Entries get into the cache by GetPut only.
LEMMA CacheSteps ==
    ASSUME [Next]_vars, NEW e \in cache'
    PROVE  \/ e \in cache
           \/ \E p \in Procs :
                 /\ GetPut(p)
                 /\ e = [name |-> op[p].name, snap |-> op[p].snap, rows |-> op[p].rows]
  <1>1. ASSUME NEW p \in Procs, Accept(p)
        PROVE  e \in cache
    BY <1>1 DEF Accept, CreateTable, DropTable, RenameLockOld, AlterTable, CommitLock,
                GetPartitions, GetLookup, GetTableMetadata, InvalidateTableCache
  <1>2. ASSUME NEW p \in Procs, Continue(p), ~ GetPut(p)
        PROVE  e \in cache
    BY <1>2 DEF Continue, DropInvalidate, RenameLockNew, RenameExec, RenameInvalidateOld,
                RenameInvalidateNew, CommitRead, CommitInsert, CommitFail, CommitTx,
                CommitTxLost, CommitInvalidate, GetQuery, GetFail, GetReturn,
                MetaGetPartitions, GetLookup, MetaReply, InvalidateTableCache
  <1>3. ASSUME NEW p \in Procs, GetPut(p)
        PROVE  \/ e \in cache
               \/ e = [name |-> op[p].name, snap |-> op[p].snap, rows |-> op[p].rows]
    BY <1>3 DEF GetPut, CachePut
  <1>4. CASE (\E w \in limbo : Resolve(w)) \/ UNCHANGED vars \/ Restart
    BY <1>4 DEF Resolve, vars, Restart
  <1> QED
    BY <1>1, <1>2, <1>3, <1>4 DEF Next

\* A handler that has still to invalidate does that next, unless the server
\* stops.
LEMMA StepsOfInvalidating ==
    ASSUME IInv, [Next]_vars, NEW q \in Procs,
           op[q].at \in {"commit_inval", "drop_inval", "rename_inval_old", "rename_inval_new"}
    PROVE  \/ op'[q] = op[q]
           \/ CommitInvalidate(q) \/ DropInvalidate(q)
           \/ RenameInvalidateOld(q) \/ RenameInvalidateNew(q)
           \/ Restart
  <1> DEFINE Goal == \/ op'[q] = op[q]
                     \/ CommitInvalidate(q) \/ DropInvalidate(q)
                     \/ RenameInvalidateOld(q) \/ RenameInvalidateNew(q)
                     \/ Restart
  <1>a. op \in [Procs -> Op]
    BY DEF IInv, TypeOK
  <1>1. ASSUME NEW p \in Procs, Accept(p)
        PROVE  Goal
    <2>1. op[p].at = "idle"
      BY <1>1 DEF Accept, CreateTable, DropTable, RenameLockOld, AlterTable, CommitLock,
                  GetPartitions, GetTableMetadata
    <2>2. p # q
      BY <2>1
    <2> QED
      BY <1>1, <1>a, <2>2
         DEF Accept, CreateTable, DropTable, RenameLockOld, AlterTable, CommitLock,
             GetPartitions, GetLookup, GetTableMetadata
  <1>2. ASSUME NEW p \in Procs, Continue(p), p # q
        PROVE  op'[q] = op[q]
    BY <1>2, <1>a
       DEF Continue, DropInvalidate, RenameLockNew, RenameExec, RenameInvalidateOld,
           RenameInvalidateNew, CommitRead, CommitInsert, CommitFail, CommitTx,
           CommitTxLost, CommitInvalidate, GetQuery, GetFail, GetPut, GetReturn,
           MetaGetPartitions, GetLookup, MetaReply, Goto, Return
  <1>3. ASSUME Continue(q)
        PROVE  Goal
    BY <1>3 DEF Continue, RenameLockNew, RenameExec, CommitRead, CommitInsert, CommitFail,
                CommitTx, CommitTxLost, GetQuery, GetFail, GetPut, GetReturn,
                MetaGetPartitions, MetaReply
  <1>4. CASE (\E w \in limbo : Resolve(w)) \/ UNCHANGED vars \/ Restart
    BY <1>4 DEF Resolve, vars
  <1> QED
    BY <1>1, <1>2, <1>3, <1>4 DEF Next

\* An invalidation in flight stays so as long as there is an entry to remove.
LEMMA StillInvalidating ==
    ASSUME IInv, [Next]_vars, NEW e \in cache', NEW n, n = e.name, Invalidating(n)
    PROVE  Invalidating(n)'
  <1>a. op \in [Procs -> Op]
    BY DEF IInv, TypeOK
  <1>1. PICK p \in Procs :
           \/ /\ op[p].at \in {"commit_inval", "drop_inval", "rename_inval_old"}
              /\ op[p].name = n
           \/ /\ op[p].at \in {"rename_inval_old", "rename_inval_new"}
              /\ op[p].to = n
    BY DEF Invalidating
  <1>2. CASE op'[p] = op[p]
    BY <1>1, <1>2 DEF Invalidating
  <1>3. CASE CommitInvalidate(p) \/ DropInvalidate(p)
    BY <1>1, <1>3 DEF CommitInvalidate, DropInvalidate, InvalidateTableCache
  <1>4. CASE RenameInvalidateOld(p)
    <2>1. op[p].to = n
      BY <1>1, <1>4 DEF RenameInvalidateOld, InvalidateTableCache
    <2>2. op'[p].at = "rename_inval_new" /\ op'[p].to = op[p].to
      BY <1>4, <1>a DEF RenameInvalidateOld, Goto, Op
    <2> QED
      BY <2>1, <2>2 DEF Invalidating
  <1>5. CASE RenameInvalidateNew(p)
    BY <1>1, <1>5 DEF RenameInvalidateNew, InvalidateTableCache
  <1>6. CASE Restart
    BY <1>6 DEF Restart
  <1> QED
    BY <1>1, <1>2, <1>3, <1>4, <1>5, <1>6, StepsOfInvalidating

\* A step that touches a name that has a table leaves the handler about to
\* invalidate the name.
LEMMA TouchInvalidates ==
    ASSUME ~ AckLoss, IInv, [Next]_vars, NEW n, ~ Untouched(n), GetTableID(n) # 0
    PROVE  Invalidating(n)'
  <1>a. op \in [Procs -> Op]
    BY DEF IInv, TypeOK
  <1>1. ASSUME NEW p \in Procs, CreateTable(p, n)
        PROVE  FALSE
    BY <1>1, GetTableIDFacts DEF CreateTable, NameTaken, IsLive
  <1>2. ASSUME NEW p \in Procs, DropTable(p, n)
        PROVE  Invalidating(n)'
    <2>1. op'[p].at = "drop_inval" /\ op'[p].name = n
      BY <1>2, <1>a DEF DropTable, Idle
    <2> QED
      BY <2>1 DEF Invalidating
  <1>3. ASSUME NEW p \in Procs, RenameExec(p), op[p].name = n \/ op[p].to = n
        PROVE  Invalidating(n)'
    <2>1. /\ op'[p].at = "rename_inval_old"
          /\ op'[p].name = op[p].name /\ op'[p].to = op[p].to
      BY <1>3, <1>a DEF RenameExec, Goto, Op
    <2> QED
      BY <1>3, <2>1 DEF Invalidating
  <1>4. ASSUME NEW p \in Procs, NEW add \in SUBSET Keys, NEW del \in SUBSET Keys,
               CommitTx(p, add, del), op[p].name = n
        PROVE  Invalidating(n)'
    <2>1. op'[p].at = "commit_inval" /\ op'[p].name = op[p].name
      BY <1>4, <1>a DEF CommitTx, Goto, Op
    <2> QED
      BY <1>4, <2>1 DEF Invalidating
  <1> QED
    BY <1>1, <1>2, <1>3, <1>4 DEF Untouched

\* Readers' rows stay what the database holds until they are stored.
LEMMA PutStep ==
    ASSUME IInv, limbo = {}, PutInv, [Next]_vars
    PROVE  PutInv'
  <1> SUFFICES ASSUME NEW q \in Procs, op'[q].at = "get_put"
               PROVE  (/\ GetTableID(op[q].name) # 0
                       /\ op[q].rows = Visible(GetTableID(op[q].name), op[q].snap))'
    BY DEF PutInv
  <1>a. op \in [Procs -> Op]
    BY DEF IInv, TypeOK
  <1>1. PICK n, s, rows : n = op'[q].name /\ s = op'[q].snap /\ rows = op'[q].rows
    OBVIOUS
  <1>2. /\ op[q].at \in Reading /\ n = op[q].name /\ s = op[q].snap
        /\ GetTableID(n) # 0 /\ rows = Visible(GetTableID(n), s)
    <2>1. CASE op'[q] = op[q]
      BY <1>1, <2>1 DEF PutInv, Reading
    <2>2. CASE GetQuery(q)
      <3>1. op'[q].name = op[q].name /\ op'[q].snap = op[q].snap
        BY <1>a, <2>2 DEF GetQuery, Op
      <3>2. /\ op[q].at = "get_query" /\ GetTableID(op[q].name) # 0
            /\ op'[q].rows = Visible(GetTableID(op[q].name), op[q].snap)
        BY <1>a, <2>2 DEF GetQuery, Op
      <3> QED
        BY <1>1, <3>1, <3>2 DEF Reading
    <2> QED
      BY <2>1, <2>2, StepsInto
  <1>3. n \in Names /\ Untouched(n) /\ s \in SnapIds
    BY <1>2, <1>a, ReaderUntouched DEF Op
  <1>4. (GetTableID(n) # 0 /\ rows = Visible(GetTableID(n), s))'
    BY <1>2, <1>3, FreshFrame
  <1> QED
    BY <1>1, <1>4

\* An entry is fresh after the step, or about to be invalidated.
LEMMA StaleStep ==
    ASSUME ~ AckLoss, IInv, limbo = {}, CacheInv, [Next]_vars
    PROVE  StaleMeansInvalidating'
  <1> SUFFICES ASSUME NEW e \in cache'
               PROVE  (Fresh(e) \/ Invalidating(e.name))'
    BY DEF StaleMeansInvalidating
  <1>1. PICK n, s, rows : n = e.name /\ s = e.snap /\ rows = e.rows
    OBVIOUS
  <1>2. e \in CacheEntry
    BY TypeStep DEF TypeOK
  <1>3. CASE Invalidating(n)
    BY <1>1, <1>3, StillInvalidating
  <1>4. CASE ~ Invalidating(n)
    <2>1. GetTableID(n) # 0 /\ rows = Visible(GetTableID(n), s)
      <3>1. CASE e \in cache
        BY <1>1, <1>4, <3>1 DEF CacheInv, StaleMeansInvalidating, Fresh
      <3>2. ASSUME NEW p \in Procs, GetPut(p),
                   e = [name |-> op[p].name, snap |-> op[p].snap, rows |-> op[p].rows]
            PROVE  GetTableID(n) # 0 /\ rows = Visible(GetTableID(n), s)
        BY <1>1, <3>2 DEF CacheInv, PutInv, GetPut
      <3> QED
        BY <3>1, <3>2, CacheSteps
    <2>2. CASE Untouched(n)
      <3>1. (GetTableID(n) # 0 /\ rows = Visible(GetTableID(n), s))'
        BY <1>1, <1>2, <2>1, <2>2, FreshFrame DEF CacheEntry
      <3> QED
        BY <1>1, <3>1 DEF Fresh
    <2>3. CASE ~ Untouched(n)
      BY <1>1, <2>1, <2>3, TouchInvalidates
    <2> QED
      BY <2>2, <2>3
  <1> QED
    BY <1>3, <1>4

\* When every COMMIT is answered, an entry of the cache that differs from the
\* database has a handler under way that will remove it: no reader puts back
\* what an invalidation has removed, and no writer leaves an entry behind.
THEOREM Coherent == ~ AckLoss => (Spec => []StaleMeansInvalidating)
  <1> SUFFICES ASSUME ~ AckLoss
               PROVE  Spec => []StaleMeansInvalidating
    OBVIOUS
  <1>1. Init => LinearInv /\ CacheInv
    BY DEF Init, LinearInv, BaseInv, LinearHistory, SnapshotsOf, NoTable, Idle,
           CacheInv, PutInv, StaleMeansInvalidating
  <1>2. IInv /\ LinearInv /\ CacheInv /\ [Next]_vars => (LinearInv /\ CacheInv)'
    BY LimboStep, BaseStep, LinearStep, PutStep, StaleStep DEF LinearInv, BaseInv, CacheInv
  <1>3. CacheInv => StaleMeansInvalidating
    BY DEF CacheInv
  <1> QED
    BY <1>1, <1>2, <1>3, Inductive, PTL DEF Spec

=============================================================================
