----------------------------- MODULE LogProofs -----------------------------
(***************************************************************************)
(* Catalog implements SnapshotLog, for every set of processes, names and   *)
(* keys and every bound, when every COMMIT is answered.                    *)
(***************************************************************************)
EXTENDS CatalogProofs

-----------------------------------------------------------------------------
(* The refinement mapping, by name *)

NameOf == [t \in TableIds |-> tables[t].name]
LiveOf == { t \in TableIds : tables[t].state = "live" }
SpentOf == { t \in TableIds : tables[t].state = "purged" }
HeadOf == [t \in TableIds |-> tables[t].current]
LogMap == [t \in TableIds |-> LogOf(t)]

mapped == <<NameOf, LiveOf, SpentOf, HeadOf, LogMap>>

\* No row or mark of a table is newer than its current snapshot, tables that
\* are not (or no more) in use have no rows, and only they have no name.
RowInv ==
    /\ \A r \in partitions :
          /\ 0 < r.snap /\ r.snap <= tables[r.table].current
          /\ r.del <= tables[r.table].current
    /\ \A t \in TableIds :
          tables[t].name = None <=> tables[t].state \in {"none", "purged"}

-----------------------------------------------------------------------------
(* The operations of the log *)

\* Equality of the mapped state is a stutter of the log.
LEMMA LogStutter ==
    ASSUME UNCHANGED mapped
    PROVE  UNCHANGED Log!vars
  BY DEF mapped, NameOf, LiveOf, SpentOf, HeadOf, LogMap, Log!vars

\* The log's Create.
LEMMA LogCreate ==
    ASSUME NEW t \in TableIds, NEW n \in Names,
           NameOf[t] = None, t \notin SpentOf, \A u \in TableIds : NameOf[u] # n,
           NameOf' = [NameOf EXCEPT ![t] = n], LiveOf' = LiveOf \cup {t},
           UNCHANGED <<SpentOf, HeadOf, LogMap>>
    PROVE  Log!Create(t, n)
  BY DEF Log!Create, Log!Taken, Log!TableIds, TableIds,
         NameOf, LiveOf, SpentOf, HeadOf, LogMap

\* The log's Rename.
LEMMA LogRename ==
    ASSUME NEW t \in TableIds, NEW n \in Names,
           t \in LiveOf, \A u \in TableIds : NameOf[u] # n,
           NameOf' = [NameOf EXCEPT ![t] = n],
           UNCHANGED <<LiveOf, SpentOf, HeadOf, LogMap>>
    PROVE  Log!Rename(t, n)
  BY DEF Log!Rename, Log!Taken, Log!TableIds, TableIds,
         NameOf, LiveOf, SpentOf, HeadOf, LogMap

\* The log's Drop.
LEMMA LogDrop ==
    ASSUME NEW t \in TableIds, t \in LiveOf, LiveOf' = LiveOf \ {t},
           UNCHANGED <<NameOf, SpentOf, HeadOf, LogMap>>
    PROVE  Log!Drop(t)
  BY DEF Log!Drop, NameOf, LiveOf, SpentOf, HeadOf, LogMap

\* The log's Purge.
LEMMA LogPurge ==
    ASSUME NEW t \in TableIds, t \in LiveOf,
           NameOf' = [NameOf EXCEPT ![t] = None], LiveOf' = LiveOf \ {t},
           SpentOf' = SpentOf \cup {t}, HeadOf' = [HeadOf EXCEPT ![t] = 0],
           LogMap' = [LogMap EXCEPT ![t] = {}]
    PROVE  Log!Purge(t)
  BY DEF Log!Purge, NameOf, LiveOf, SpentOf, HeadOf, LogMap

\* The files of the head in the log.
HeadFilesOf(t) == UNION { s.files : s \in { r \in LogMap[t] : r.id = HeadOf[t] } }

\* The log's Commit.
LEMMA LogCommit ==
    ASSUME NEW t \in TableIds, NEW id, NEW add, NEW del, NEW files,
           t \in LiveOf, id > HeadOf[t],
           files = { f \in HeadFilesOf(t) \cup
                        { [table |-> t, snap |-> id, key |-> k] : k \in add } : f.key \notin del },
           HeadOf' = [HeadOf EXCEPT ![t] = id],
           LogMap' = [LogMap EXCEPT ![t] =
                        @ \cup {[id |-> id, parent |-> HeadOf[t], files |-> files]}],
           UNCHANGED <<NameOf, LiveOf, SpentOf>>
    PROVE  Log!Commit(t, id, add, del)
  BY DEF Log!Commit, Log!HeadFiles, HeadFilesOf, NameOf, LiveOf, SpentOf, HeadOf, LogMap


-----------------------------------------------------------------------------
(* What a commit makes visible *)

\* A read at the new snapshot returns the files of the last one and the new
\* ones, without the keys that the commit deletes.
LEMMA CommitVisible ==
    ASSUME TypeOK, RowInv, NEW w \in SnapshotRow, Apply(w),
           NEW c, c = tables[w.table].current, c < w.id
    PROVE  Visible(w.table, w.id)' =
              { f \in Visible(w.table, c) \cup
                   { [table |-> w.table, snap |-> w.id, key |-> k] : k \in w.added } :
                f.key \notin w.deleted }
  <1> DEFINE t    == w.table
             new  == { [table |-> t, snap |-> w.id, key |-> k, del |-> 0] : k \in w.added }
             ins  == partitions \cup new
             F(r) == [table |-> r.table, snap |-> r.snap, key |-> r.key]
             M(r) == IF r.table = t /\ r.key \in w.deleted /\ r.del = 0
                     THEN [r EXCEPT !.del = w.id] ELSE r
             D    == { r \in ins : r.table = t /\ r.del = 0 /\ r.key \notin w.deleted }
  <1>a. /\ c \in Nat /\ w.id \in Nat /\ w.added \subseteq Keys /\ t \in TableIds
        /\ partitions \subseteq PartitionRow
    BY DEF TypeOK, TableRow, SnapshotRow, SnapIds
  <1>1. partitions' = { M(r) : r \in ins }
    BY DEF Apply, MarkPartitionDeleted, InsertPartitions
  <1>2. ASSUME NEW r \in ins
        PROVE  /\ r.snap \in Nat /\ r.del \in Nat
               /\ r \in [table : TableIds, snap : Nat, key : Keys, del : Nat]
    BY <1>a DEF PartitionRow, SnapIds
  <1>3. ASSUME NEW r \in ins, r.table = t
        PROVE  r.snap <= w.id /\ r.del <= c
    BY <1>2, <1>3, <1>a DEF RowInv
  <1>4. ASSUME NEW r \in ins
        PROVE  /\ F(M(r)) = F(r)
               /\ M(r).table = t /\ VisibleAt(M(r), w.id) <=> r \in D
    <2>1. M(r).table = r.table /\ M(r).snap = r.snap /\ M(r).key = r.key
      BY <1>2
    <2>2. CASE r.table # t
      BY <2>1, <2>2
    <2>3. CASE r.table = t /\ r.key \in w.deleted /\ r.del = 0
      <3>1. M(r).del = w.id
        BY <1>2, <2>3
      <3> QED
        BY <1>a, <2>1, <2>3, <3>1 DEF VisibleAt
    <2>4. CASE r.table = t /\ ~ (r.key \in w.deleted /\ r.del = 0)
      <3>1. M(r) = r
        BY <2>4
      <3> QED
        BY <1>a, <1>2, <1>3, <2>4, <3>1 DEF VisibleAt
    <2> QED
      BY <2>2, <2>3, <2>4
  <1>5. ASSUME NEW r \in partitions, r.table = t
        PROVE  VisibleAt(r, c) <=> r.del = 0
    BY <1>5, <1>2, <1>a DEF RowInv, VisibleAt
  <1>6. { F(r) : r \in D } =
           { f \in Visible(t, c) \cup { F(r) : r \in new } : f.key \notin w.deleted }
    <2>1. Visible(t, c) = { F(r) : r \in { q \in partitions : q.table = t /\ VisibleAt(q, c) } }
      BY DEF Visible
    <2>2. Visible(t, c) = { F(r) : r \in { q \in partitions : q.table = t /\ q.del = 0 } }
      BY <1>5, <2>1
    <2>3. \A r \in new : r.table = t /\ r.del = 0
      OBVIOUS
    <2>4. \A r : F(r).key = r.key
      OBVIOUS
    <2> HIDE DEF new, F, t
    <2> QED
      BY <2>2, <2>3, <2>4
  <1>7. { F(r) : r \in new } = { [table |-> t, snap |-> w.id, key |-> k] : k \in w.added }
    <2> DEFINE R(k) == [table |-> t, snap |-> w.id, key |-> k, del |-> 0]
    <2>1. \A k : F(R(k)) = [table |-> t, snap |-> w.id, key |-> k]
      OBVIOUS
    <2>2. new = { R(k) : k \in w.added }
      OBVIOUS
    <2> HIDE DEF R, F, new
    <2> QED
      BY <2>1, <2>2
  <1> HIDE DEF new, ins, F, M, D
  <1>8. Visible(t, w.id)' = { F(r) : r \in { q \in partitions' : q.table = t /\ VisibleAt(q, w.id) } }
    BY DEF Visible, F, VisibleAt
  <1>9. Visible(t, w.id)' = { F(r) : r \in { q \in ins : q \in D } }
    BY <1>1, <1>4, <1>8
  <1>10. { q \in ins : q \in D } = D
    BY DEF D
  <1> QED
    BY <1>6, <1>7, <1>9, <1>10

\* The files of the head are those that a read at the current snapshot returns.
LEMMA HeadVisible ==
    ASSUME TypeOK, RowInv, LinearHistory, NEW t \in TableIds
    PROVE  HeadFilesOf(t) = Visible(t, tables[t].current)
  <1>1. \A r \in LogOf(t) : r.id = tables[t].current => r.files = Visible(t, tables[t].current)
    BY DEF LogOf
  <1>2. HeadFilesOf(t) = UNION { s.files : s \in { r \in LogOf(t) : r.id = tables[t].current } }
    BY DEF HeadFilesOf, LogMap, HeadOf
  <1>3. CASE tables[t].current = 0
    <2>1. \A s \in SnapshotsOf(t) : s.id # 0
      BY DEF LinearHistory, SnapshotsOf, TypeOK, SnapshotRow, SnapIds
    <2>2. { r \in LogOf(t) : r.id = tables[t].current } = {}
      BY <1>3, <2>1 DEF LogOf
    <2>3. Visible(t, tables[t].current) = {}
      BY <1>3 DEF Visible, VisibleAt, RowInv, TypeOK, PartitionRow, SnapIds
    <2> QED
      BY <1>2, <2>2, <2>3
  <1>4. CASE tables[t].current # 0
    <2>1. \E r \in LogOf(t) : r.id = tables[t].current
      <3>1. PICK s \in SnapshotsOf(t) : s.id = tables[t].current
        BY <1>4 DEF LinearHistory
      <3>2. [id |-> s.id, parent |-> s.parent, files |-> Visible(t, s.id)] \in LogOf(t)
        BY DEF LogOf
      <3> QED
        BY <3>1, <3>2
    <2> QED
      BY <1>1, <1>2, <2>1
  <1> QED
    BY <1>3, <1>4

-----------------------------------------------------------------------------
(* Steps *)

\* What the lookup and the transaction of a commit say of its snapshot.
LEMMA CommitFacts ==
    ASSUME IInv, LinearInv, NEW p \in Procs, NEW add \in SUBSET Keys,
           NEW del \in SUBSET Keys, CommitTx(p, add, del),
           NEW w, w = NewSnapshot(p, add, del)
    PROVE  /\ w \in SnapshotRow /\ Apply(w) /\ w.added = add /\ w.deleted = del
           /\ w.table \in TableIds /\ tables[w.table].state = "live"
           /\ w.parent = tables[w.table].current
           /\ tables[w.table].current < w.id
  <1>1. /\ op[p].tid \in TableIds /\ tables[op[p].tid].state = "live"
        /\ tables[op[p].tid].current < op[p].snap
        /\ op[p].base = tables[op[p].tid].current
    BY DEF CommitTx, IInv, CommitInv, LinearInv, BaseInv, IsLive
  <1>2. w \in SnapshotRow
    BY <1>1, NewSnapshotType DEF IInv
  <1>3. /\ w.id = op[p].snap /\ w.table = op[p].tid /\ w.parent = op[p].base
        /\ w.added = add /\ w.deleted = del
    BY DEF NewSnapshot
  <1> QED
    BY <1>1, <1>2, <1>3 DEF CommitTx

\* Every step keeps the bounds of the rows.
LEMMA RowStep ==
    ASSUME IInv, LinearInv, RowInv, [Next]_vars
    PROVE  RowInv'
  <1> USE DEF IInv
  <1>a. /\ tables \in [TableIds -> TableRow] /\ partitions \subseteq PartitionRow
        /\ None \notin Names
    BY CatalogAssumption DEF TypeOK
  <1>1. CASE UNCHANGED <<tables, snapshots, partitions>>
    BY <1>1 DEF RowInv
  <1>2. ASSUME NEW p \in Procs, NEW n \in Names, CreateTable(p, n)
        PROVE  RowInv'
    <2>1. PICK t \in TableIds :
             /\ tables[t].state = "none"
             /\ tables' = [tables EXCEPT ![t] = [name |-> n, current |-> 0, state |-> "live"]]
      BY <1>2 DEF CreateTable
    <2>2. \A u \in TableIds : tables'[u].current = tables[u].current
      BY <1>a, <2>1 DEF NameInv
    <2>3. \A u \in TableIds : tables'[u].name = None <=> tables'[u].state \in {"none", "purged"}
      BY <1>a, <2>1 DEF RowInv
    <2> QED
      BY <1>2, <1>a, <2>2, <2>3 DEF CreateTable, RowInv, PartitionRow
  <1>3. ASSUME NEW p \in Procs, NEW n \in Names, DropTable(p, n)
        PROVE  RowInv'
    <2>1. PICK d \in TableIds : tables[d].state = "live" /\ (SoftDelete(d) \/ Purge(d))
      BY <1>3, GetTableIDFacts DEF DropTable, IsLive
    <2>2. CASE SoftDelete(d)
      BY <1>a, <2>1, <2>2 DEF SoftDelete, RowInv, TableRow, PartitionRow
    <2>3. CASE Purge(d)
      <3>1. /\ \A u \in TableIds \ {d} : tables'[u] = tables[u]
            /\ tables'[d].name = None /\ tables'[d].state = "purged"
        BY <1>a, <2>3 DEF Purge, NoTable
      <3>2. \A r \in partitions' : r \in partitions /\ r.table # d
        BY <2>3 DEF Purge
      <3> QED
        BY <1>a, <3>1, <3>2 DEF RowInv, PartitionRow
    <2> QED
      BY <2>1, <2>2, <2>3
  <1>4. ASSUME NEW p \in Procs, RenameExec(p)
        PROVE  RowInv'
    <2>1. op[p].to \in Names
      BY <1>4 DEF RenameExec, LockInv, Renaming
    <2>2. \/ UNCHANGED tables
          \/ \E t \in TableIds : /\ tables[t].state = "live"
                                 /\ tables' = [tables EXCEPT ![t].name = op[p].to]
      BY <1>4, GetTableIDFacts DEF RenameExec, IsLive
    <2>3. \A u \in TableIds :
             /\ tables'[u].current = tables[u].current
             /\ tables'[u].name = None <=> tables'[u].state \in {"none", "purged"}
      BY <1>a, <2>1, <2>2 DEF RowInv, TableRow
    <2> QED
      BY <1>4, <1>a, <2>3 DEF RenameExec, RowInv, PartitionRow
  <1>5. ASSUME NEW p \in Procs, NEW add \in SUBSET Keys, NEW del \in SUBSET Keys,
               CommitTx(p, add, del)
        PROVE  RowInv'
    <2>1. PICK w : w = NewSnapshot(p, add, del)
      OBVIOUS
    <2>2. /\ w \in SnapshotRow /\ Apply(w) /\ w.table \in TableIds
          /\ tables[w.table].current < w.id
      BY <1>5, <2>1, CommitFacts
    <2>3. /\ \A u \in TableIds \ {w.table} : tables'[u] = tables[u]
          /\ tables'[w.table].current = w.id
          /\ tables'[w.table].name = tables[w.table].name
          /\ tables'[w.table].state = tables[w.table].state
      BY <1>a, <2>2 DEF Apply, TableRow
    <2>4. \A u \in TableIds :
             /\ tables[u].current \in Nat /\ tables'[u].current \in Nat
             /\ tables[u].current <= tables'[u].current
      BY <1>a, <2>2, <2>3 DEF TableRow, SnapIds, SnapshotRow
    <2> DEFINE ins == InsertPartitions(partitions, w.table, w.added, w.id)
    <2>5. ASSUME NEW r \in ins
          PROVE  /\ r \in PartitionRow
                 /\ 0 < r.snap /\ r.snap <= tables'[r.table].current
                 /\ r.del <= tables'[r.table].current
      <3>1. CASE r \in partitions
        BY <1>a, <2>4, <3>1 DEF RowInv, PartitionRow, SnapIds
      <3>2. CASE r \notin partitions
        BY <1>a, <2>2, <2>3, <2>4, <2>5, <3>2, CatalogAssumption
           DEF InsertPartitions, PartitionRow, SnapIds, SnapshotRow
      <3> QED
        BY <3>1, <3>2
    <2>6. ASSUME NEW q \in partitions'
          PROVE  /\ 0 < q.snap /\ q.snap <= tables'[q.table].current
                 /\ q.del <= tables'[q.table].current
      <3>1. PICK r \in ins : q = IF r.table = w.table /\ r.key \in w.deleted /\ r.del = 0
                                 THEN [r EXCEPT !.del = w.id] ELSE r
        BY <2>2 DEF Apply, MarkPartitionDeleted
      <3>2. r \in PartitionRow
        BY <2>5
      <3>3. /\ q.snap = r.snap /\ q.table = r.table
            /\ q.del = r.del \/ (q.del = w.id /\ r.table = w.table)
        <4>1. CASE r.table = w.table /\ r.key \in w.deleted /\ r.del = 0
          <5>1. q = [r EXCEPT !.del = w.id]
            BY <3>1, <4>1
          <5> QED
            BY <3>2, <4>1, <5>1 DEF PartitionRow
        <4>2. CASE ~ (r.table = w.table /\ r.key \in w.deleted /\ r.del = 0)
          BY <3>1, <4>2
        <4> QED
          BY <4>1, <4>2
      <3> QED
        BY <2>2, <2>3, <2>4, <2>5, <3>3 DEF SnapshotRow, SnapIds
    <2>7. \A u \in TableIds : tables'[u].name = None <=> tables'[u].state \in {"none", "purged"}
      BY <2>3 DEF RowInv
    <2> QED
      BY <2>6, <2>7 DEF RowInv
  <1> QED
    BY <1>1, <1>2, <1>3, <1>4, <1>5, WritingSteps DEF LinearInv, BaseInv

\* Every step is one operation of the log, or none.
LEMMA LogStep ==
    ASSUME IInv, LinearInv, RowInv, [Next]_vars
    PROVE  Log!Next \/ UNCHANGED Log!vars
  <1> DEFINE Goal == Log!Next \/ UNCHANGED Log!vars
  <1> USE DEF IInv
  <1>a. /\ tables \in [TableIds -> TableRow] /\ partitions \subseteq PartitionRow
        /\ snapshots \subseteq SnapshotRow /\ None \notin Names
    BY CatalogAssumption DEF TypeOK
  <1>b. ASSUME NEW t \in TableIds, NEW n \in Names,
               Log!Create(t, n) \/ Log!Rename(t, n) \/ Log!Drop(t) \/ Log!Purge(t)
        PROVE  Log!Next
    BY <1>b DEF Log!Next, Log!TableIds, TableIds
  <1>c. ASSUME UNCHANGED <<snapshots, partitions>>
        PROVE  UNCHANGED LogMap
    BY <1>c DEF LogMap, LogOf, SnapshotsOf, Visible, VisibleAt
  <1>d. ASSUME NEW n \in Names, ~ NameTaken(n)
        PROVE  \A u \in TableIds : NameOf[u] # n
    BY <1>a, <1>d DEF NameTaken, NameOf, RowInv, TableRow
  <1>1. CASE UNCHANGED <<tables, snapshots, partitions>>
    BY <1>1, <1>c, LogStutter DEF mapped, NameOf, LiveOf, SpentOf, HeadOf
  <1>2. ASSUME NEW p \in Procs, NEW n \in Names, CreateTable(p, n)
        PROVE  Goal
    <2>1. PICK t \in TableIds :
             /\ tables[t].state = "none"
             /\ tables' = [tables EXCEPT ![t] = [name |-> n, current |-> 0, state |-> "live"]]
      BY <1>2 DEF CreateTable
    <2>2. NameOf[t] = None /\ t \notin SpentOf
      BY <2>1 DEF NameOf, SpentOf, RowInv
    <2>3. NameOf' = [NameOf EXCEPT ![t] = n]
      BY <1>a, <2>1 DEF NameOf
    <2>4. LiveOf' = LiveOf \cup {t} /\ SpentOf' = SpentOf
      BY <1>a, <2>1 DEF LiveOf, SpentOf
    <2>5. HeadOf' = HeadOf
      <3>1. \A u \in TableIds : tables'[u].current = tables[u].current
        BY <1>a, <2>1 DEF NameInv
      <3> QED
        BY <3>1 DEF HeadOf
    <2>6. LogMap' = LogMap
      BY <1>2, <1>c DEF CreateTable
    <2>7. \A u \in TableIds : NameOf[u] # n
      BY <1>2, <1>d DEF CreateTable
    <2> QED
      BY <1>b, <2>2, <2>3, <2>4, <2>5, <2>6, <2>7, LogCreate
  <1>3. ASSUME NEW p \in Procs, NEW n \in Names, DropTable(p, n)
        PROVE  Goal
    <2>1. PICK d \in TableIds : tables[d].state = "live" /\ (SoftDelete(d) \/ Purge(d))
      BY <1>3, GetTableIDFacts DEF DropTable, IsLive
    <2>2. d \in LiveOf
      BY <2>1 DEF LiveOf
    <2>3. CASE SoftDelete(d)
      <3>1. tables' = [tables EXCEPT ![d].state = "dropped"]
        BY <2>3 DEF SoftDelete
      <3>2. LiveOf' = LiveOf \ {d} /\ SpentOf' = SpentOf
        BY <1>a, <2>1, <3>1 DEF LiveOf, SpentOf, TableRow
      <3>3. NameOf' = NameOf /\ HeadOf' = HeadOf
        BY <1>a, <3>1 DEF NameOf, HeadOf, TableRow
      <3>4. LogMap' = LogMap
        BY <1>c, <2>3 DEF SoftDelete
      <3> QED
        BY <1>3, <1>b, <2>2, <3>2, <3>3, <3>4, LogDrop
    <2>4. CASE Purge(d)
      <3>1. tables' = [tables EXCEPT ![d] = [NoTable EXCEPT !.state = "purged"]]
        BY <2>4 DEF Purge
      <3>2. /\ tables'[d].name = None /\ tables'[d].current = 0 /\ tables'[d].state = "purged"
            /\ \A u \in TableIds \ {d} : tables'[u] = tables[u]
        BY <1>a, <3>1 DEF NoTable
      <3>3. LiveOf' = LiveOf \ {d} /\ SpentOf' = SpentOf \cup {d}
        BY <3>2 DEF LiveOf, SpentOf
      <3>4. NameOf' = [NameOf EXCEPT ![d] = None] /\ HeadOf' = [HeadOf EXCEPT ![d] = 0]
        BY <3>2 DEF NameOf, HeadOf
      <3>5. LogOf(d)' = {}
        BY <2>4 DEF Purge, LogOf, SnapshotsOf
      <3>6. ASSUME NEW u \in TableIds \ {d}
            PROVE  LogOf(u)' = LogOf(u)
        <4>1. SnapshotsOf(u)' = SnapshotsOf(u)
          BY <2>4 DEF Purge, SnapshotsOf
        <4>2. ASSUME NEW s
              PROVE  Visible(u, s)' = Visible(u, s)
          <5>1. { q \in partitions' : q.table = u /\ VisibleAt(q, s) }
                   = { q \in partitions : q.table = u /\ VisibleAt(q, s) }
            BY <2>4, <3>6 DEF Purge
          <5> QED
            BY <5>1 DEF Visible, VisibleAt
        <4> QED
          BY <4>1, <4>2 DEF LogOf
      <3>7. LogMap' = [LogMap EXCEPT ![d] = {}]
        BY <3>5, <3>6 DEF LogMap
      <3> QED
        BY <1>3, <1>b, <2>2, <3>3, <3>4, <3>7, LogPurge
    <2> QED
      BY <2>1, <2>3, <2>4
  <1>4. ASSUME NEW p \in Procs, RenameExec(p)
        PROVE  Goal
    <2>1. PICK n \in Names : n = op[p].to
      BY <1>4 DEF RenameExec, LockInv, Renaming
    <2>2. CASE UNCHANGED tables
      BY <1>1, <1>4, <2>2 DEF RenameExec
    <2>3. ASSUME NEW t \in TableIds, tables[t].state = "live", ~ NameTaken(n),
                 tables' = [tables EXCEPT ![t].name = n]
          PROVE  Goal
      <3>1. t \in LiveOf
        BY <2>3 DEF LiveOf
      <3>2. NameOf' = [NameOf EXCEPT ![t] = n]
        BY <1>a, <2>3 DEF NameOf, TableRow
      <3>3. LiveOf' = LiveOf /\ SpentOf' = SpentOf /\ HeadOf' = HeadOf
        BY <1>a, <2>3 DEF LiveOf, SpentOf, HeadOf, TableRow
      <3>4. LogMap' = LogMap
        BY <1>4, <1>c DEF RenameExec
      <3> QED
        BY <1>b, <1>d, <2>3, <3>1, <3>2, <3>3, <3>4, LogRename
    <2> QED
      BY <1>4, <2>1, <2>2, <2>3, GetTableIDFacts DEF RenameExec, IsLive
  <1>5. ASSUME NEW p \in Procs, NEW add \in SUBSET Keys, NEW del \in SUBSET Keys,
               CommitTx(p, add, del)
        PROVE  Goal
    <2>1. PICK w : w = NewSnapshot(p, add, del)
      OBVIOUS
    <2>2. PICK t : t = w.table
      OBVIOUS
    <2>3. /\ w \in SnapshotRow /\ Apply(w) /\ w.added = add /\ w.deleted = del
          /\ t \in TableIds /\ tables[t].state = "live"
          /\ w.parent = tables[t].current /\ tables[t].current < w.id
      BY <1>5, <2>1, <2>2, CommitFacts
    <2>4. /\ tables' = [tables EXCEPT ![t].current = w.id]
          /\ snapshots' = snapshots \cup {w}
      BY <2>2, <2>3 DEF Apply
    <2>5. NameOf' = NameOf /\ LiveOf' = LiveOf /\ SpentOf' = SpentOf
      BY <1>a, <2>4 DEF NameOf, LiveOf, SpentOf, TableRow
    <2>6. HeadOf' = [HeadOf EXCEPT ![t] = w.id] /\ HeadOf[t] = tables[t].current
      BY <1>a, <2>3, <2>4 DEF HeadOf, TableRow
    <2>7. PICK files : files = Visible(t, w.id)'
      OBVIOUS
    <2>8. files = { f \in HeadFilesOf(t) \cup
                       { [table |-> t, snap |-> w.id, key |-> k] : k \in add } : f.key \notin del }
      BY <2>2, <2>3, <2>7, CommitVisible, HeadVisible DEF LinearInv
    <2>9. ASSUME NEW u \in TableIds \ {t}
          PROVE  LogOf(u)' = LogOf(u)
      <3>1. SnapshotsOf(u)' = SnapshotsOf(u)
        BY <2>2, <2>4, <2>9 DEF SnapshotsOf
      <3>2. \A s \in SnapshotsOf(u) : Visible(u, s.id)' = Visible(u, s.id)
        BY <1>a, <2>2, <2>3, <2>9, ApplyKeepsOlder DEF SnapshotsOf, SnapshotRow
      <3> QED
        BY <3>1, <3>2 DEF LogOf
    <2>10. LogOf(t)' = LogOf(t) \cup {[id |-> w.id, parent |-> w.parent, files |-> files]}
      <3>1. SnapshotsOf(t)' = SnapshotsOf(t) \cup {w}
        BY <2>2, <2>4 DEF SnapshotsOf
      <3>2. ASSUME NEW s \in SnapshotsOf(t)
            PROVE  Visible(t, s.id)' = Visible(t, s.id)
        <4>1. s.id \in SnapIds /\ s.id <= tables[t].current
          BY <1>a, <2>3, <3>2 DEF SnapshotsOf, SnapshotRow, LinearInv, LinearHistory
        <4>2. s.id < w.id
          BY <1>a, <2>3, <4>1 DEF SnapshotRow, SnapIds, TableRow
        <4> QED
          BY <2>2, <2>3, <4>1, <4>2, ApplyKeepsOlder
      <3>3. LogOf(t)' = { [id |-> s.id, parent |-> s.parent, files |-> Visible(t, s.id)'] :
                             s \in SnapshotsOf(t) \cup {w} }
        BY <3>1 DEF LogOf
      <3> QED
        BY <2>7, <3>2, <3>3 DEF LogOf
    <2>11. LogMap' = [LogMap EXCEPT ![t] =
                        @ \cup {[id |-> w.id, parent |-> HeadOf[t], files |-> files]}]
      BY <2>3, <2>6, <2>9, <2>10 DEF LogMap
    <2>12. t \in LiveOf /\ w.id > HeadOf[t]
      BY <1>a, <2>3, <2>6 DEF LiveOf, SnapshotRow, SnapIds, TableRow
    <2>13. Log!Commit(t, w.id, add, del)
      BY <2>3, <2>5, <2>6, <2>8, <2>11, <2>12, LogCommit
    <2> QED
      BY <2>3, <2>13 DEF Log!Next, Log!TableIds, TableIds, Log!SnapIds, SnapIds, SnapshotRow
  <1> QED
    BY <1>1, <1>2, <1>3, <1>4, <1>5, WritingSteps DEF LinearInv, BaseInv

-----------------------------------------------------------------------------
(* The theorem *)

\* When every COMMIT is answered the catalog implements the log of snapshots:
\* whatever the interleaving, each step changes names and snapshots as one
\* operation of SnapshotLog, or leaves them alone.
THEOREM Implements == ~ AckLoss => (Spec => ImplementsLog)
  <1> SUFFICES ASSUME ~ AckLoss
               PROVE  Spec => ImplementsLog
    OBVIOUS
  <1>1. Init => LinearInv /\ RowInv
    BY DEF Init, LinearInv, BaseInv, LinearHistory, SnapshotsOf, NoTable, Idle, RowInv
  <1>2. IInv /\ LinearInv /\ RowInv /\ [Next]_vars => (LinearInv /\ RowInv)'
    BY LimboStep, BaseStep, LinearStep, RowStep DEF LinearInv, BaseInv
  <1>3. Init => Log!Init
    BY DEF Init, Log!Init, NoTable, LogOf, SnapshotsOf, Log!TableIds, TableIds
  <1>4. IInv /\ LinearInv /\ RowInv /\ [Next]_vars => [Log!Next]_(Log!vars)
    BY LogStep
  <1> QED
    BY <1>1, <1>2, <1>3, <1>4, Inductive, PTL DEF Spec, ImplementsLog, Log!Spec

=============================================================================
