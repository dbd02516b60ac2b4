---------------------------- MODULE ReadsProofs ----------------------------
(***************************************************************************)
(* Proofs about Reads, for every number of readers, writers, tables, keys  *)
(* and snapshots: what the answers that take several queries say, although *)
(* commits, renames and drops come between the queries.                    *)
(***************************************************************************)
EXTENDS Reads, CatalogProofs, FiniteSetTheorems, WellFoundedInduction

-----------------------------------------------------------------------------
(* Rows in an order, and pages of them *)

\* The number of members of S that come before x in the order w.
Before(S, w, x) == Cardinality({ y \in S : w[y] < w[x] })

\* OFFSET off LIMIT n of S in the order w.
Page(S, w, off, n) == { x \in S : off <= Before(S, w, x) /\ Before(S, w, x) < off + n }

\* A set of naturals has a least member.
LEMMA LeastNat ==
    ASSUME NEW T \in SUBSET Nat, T # {}
    PROVE  \E m \in T : \A y \in T : m <= y
  <1>1. PICK m \in T : \A y \in T : <<y, m>> \notin OpToRel(<, Nat)
    BY WFMin, NatLessThanWellFounded
  <1>2. ASSUME NEW y \in T PROVE m <= y
    <2>1. <<y, m>> \in Nat \X Nat /\ <<y, m>> \notin { ss \in Nat \X Nat : ss[1] < ss[2] }
      BY <1>1 DEF OpToRel
    <2>2. ~ (y < m)
      BY <2>1
    <2> QED
      BY <2>2
  <1> QED
    BY <1>2

\* Counting is monotone in the order.
LEMMA BeforeMono ==
    ASSUME NEW S, IsFiniteSet(S), NEW w \in [S -> Int], NEW x \in S, NEW y \in S
    PROVE  /\ Before(S, w, x) \in Nat
           /\ w[x] <= w[y] => Before(S, w, x) <= Before(S, w, y)
           /\ w[x] < w[y] => Before(S, w, x) < Before(S, w, y)
  <1> DEFINE X == { z \in S : w[z] < w[x] }
             Y == { z \in S : w[z] < w[y] }
  <1>1. /\ IsFiniteSet(X) /\ IsFiniteSet(Y)
        /\ Cardinality(X) \in Nat /\ Cardinality(Y) \in Nat
    BY FS_Subset, FS_CardinalityType
  <1>2. w[x] <= w[y] => X \in SUBSET Y
    OBVIOUS
  <1>3. w[x] < w[y] => X # Y
    OBVIOUS
  <1>4. Before(S, w, x) = Cardinality(X) /\ Before(S, w, y) = Cardinality(Y)
    BY DEF Before
  <1> HIDE DEF X, Y
  <1>5. w[x] <= w[y] => Cardinality(X) <= Cardinality(Y)
    BY <1>1, <1>2, FS_Subset
  <1>6. w[x] < w[y] => Cardinality(X) <= Cardinality(Y) /\ Cardinality(X) # Cardinality(Y)
    BY <1>1, <1>2, <1>3, FS_Subset
  <1> QED
    BY <1>1, <1>4, <1>5, <1>6

\* A finite ordered set has a first member.
LEMMA FirstOf ==
    ASSUME NEW S, IsFiniteSet(S), NEW w \in [S -> Int], NEW T \in SUBSET S, T # {}
    PROVE  \E m \in T : \A y \in T : w[m] <= w[y]
  <1> DEFINE N == { Before(S, w, x) : x \in T }
  <1>1. N \in SUBSET Nat /\ N # {}
    BY BeforeMono
  <1>2. PICK k \in N : \A j \in N : k <= j
    BY <1>1, LeastNat
  <1>3. PICK m \in T : k = Before(S, w, m)
    OBVIOUS
  <1>4. ASSUME NEW y \in T, w[y] < w[m]
        PROVE  FALSE
    <2>1. Before(S, w, y) < Before(S, w, m) /\ Before(S, w, y) \in Nat /\ Before(S, w, m) \in Nat
      BY <1>4, BeforeMono
    <2> QED
      BY <1>2, <1>3, <2>1
  <1> QED
    BY <1>4

\* ... and a last one.
LEMMA LastOf ==
    ASSUME NEW S, IsFiniteSet(S), NEW w \in [S -> Int], NEW T \in SUBSET S, T # {}
    PROVE  \E m \in T : \A y \in T : w[y] <= w[m]
  <1>1. PICK v : v = [x \in S |-> -w[x]]
    OBVIOUS
  <1>2. v \in [S -> Int] /\ \A x \in S : v[x] = -w[x]
    BY <1>1
  <1>3. PICK m \in T : \A y \in T : v[m] <= v[y]
    BY <1>2, FirstOf
  <1> QED
    BY <1>2, <1>3

\* Fewer than k members have fewer than k others before them, and a page has
\* no more than its size.
LEMMA PageBounds ==
    ASSUME NEW S, IsFiniteSet(S), NEW w \in [S -> Int],
           \A x, y \in S : w[x] = w[y] => x = y,
           NEW off \in Nat, NEW n \in Nat
    PROVE  /\ IsFiniteSet(Page(S, w, off, n))
           /\ Cardinality(Page(S, w, off, n)) \in Nat
           /\ Cardinality(Page(S, w, off, n)) <= n
  <1> DEFINE P == Page(S, w, off, n)
             f == [x \in P |-> Before(S, w, x)]
  <1>1. P \in SUBSET S
    BY DEF Page
  <1>2. \A x \in P : Before(S, w, x) \in off .. (off + n - 1)
    BY BeforeMono DEF Page
  <1>3. \A x, y \in P : Before(S, w, x) = Before(S, w, y) => x = y
    <2> SUFFICES ASSUME NEW x \in P, NEW y \in P, x # y
                 PROVE  Before(S, w, x) # Before(S, w, y)
      OBVIOUS
    <2>1. x \in S /\ y \in S /\ (w[x] < w[y] \/ w[y] < w[x])
      BY <1>1
    <2>2. Before(S, w, x) \in Nat /\ Before(S, w, y) \in Nat
      BY <2>1, BeforeMono
    <2> QED
      BY <2>1, <2>2, BeforeMono
  <1> HIDE DEF P
  <1>4. f \in Injection(P, off .. (off + n - 1))
    BY <1>2, <1>3 DEF Injection, IsInjective
  <1>5. IsFiniteSet(off .. (off + n - 1)) /\ Cardinality(off .. (off + n - 1)) <= n
    BY FS_Interval
  <1>6. /\ IsFiniteSet(P) /\ Cardinality(P) \in Nat
        /\ Cardinality(P) <= Cardinality(off .. (off + n - 1))
    BY <1>4, <1>5, FS_Injection, FS_CardinalityType
  <1>7. Cardinality(off .. (off + n - 1)) \in Nat
    BY <1>5, FS_CardinalityType
  <1> QED
    BY <1>5, <1>6, <1>7 DEF P

\* A member all of whose predecessors are in the page or before it comes no
\* later than right after the page.
LEMMA PageFills ==
    ASSUME NEW S, IsFiniteSet(S), NEW w \in [S -> Int],
           \A x, y \in S : w[x] = w[y] => x = y,
           NEW off \in Nat, NEW n \in Nat, NEW x \in S,
           \A y \in S : w[y] < w[x] => Before(S, w, y) < off + n
    PROVE  /\ Before(S, w, x) <= off + Cardinality(Page(S, w, off, n))
           /\ x \in Page(S, w, off, n) => Before(S, w, x) < off + Cardinality(Page(S, w, off, n))
  <1> DEFINE B == { y \in S : w[y] < w[x] }
             P == Page(S, w, off, n)
             L == Page(S, w, 0, off)
  <1>1. /\ IsFiniteSet(P) /\ Cardinality(P) \in Nat
        /\ IsFiniteSet(L) /\ Cardinality(L) \in Nat /\ Cardinality(L) <= off
    BY PageBounds
  <1>2. ASSUME NEW y \in B
        PROVE  y \in L \cup (P \ {x})
    <2>1. y \in S /\ y # x /\ Before(S, w, y) < off + n /\ Before(S, w, y) \in Nat
      BY BeforeMono
    <2>2. CASE Before(S, w, y) < off
      BY <2>1, <2>2 DEF Page
    <2>3. CASE off <= Before(S, w, y)
      BY <2>1, <2>3 DEF Page
    <2>4. Before(S, w, y) < off \/ off <= Before(S, w, y)
      BY <2>1
    <2> QED
      BY <2>2, <2>3, <2>4
  <1>3. Before(S, w, x) \in Nat /\ Before(S, w, x) = Cardinality(B)
    <2>1. Before(S, w, x) \in Nat
      BY BeforeMono
    <2> QED
      BY <2>1 DEF Before
  <1> HIDE DEF B, P, L
  <1>4. ASSUME NEW Q, IsFiniteSet(Q), B \subseteq L \cup Q
        PROVE  Cardinality(B) <= off + Cardinality(Q)
    <2>1. /\ IsFiniteSet(L \cup Q) /\ Cardinality(L \cup Q) \in Nat /\ Cardinality(Q) \in Nat
          /\ Cardinality(L \cap Q) \in Nat
          /\ Cardinality(L \cup Q) = Cardinality(L) + Cardinality(Q) - Cardinality(L \cap Q)
      BY <1>1, <1>4, FS_Union, FS_Intersection, FS_CardinalityType
    <2>2. Cardinality(B) <= Cardinality(L \cup Q)
      BY <1>4, <2>1, FS_Subset
    <2> QED
      BY <1>1, <1>3, <2>1, <2>2
  <1>5. IsFiniteSet(P \ {x}) /\ (x \in P => Cardinality(P \ {x}) = Cardinality(P) - 1)
    BY <1>1, FS_RemoveElement
  <1>6. Cardinality(B) <= off + Cardinality(P)
    BY <1>1, <1>2, <1>4
  <1>7. x \in P => Cardinality(B) <= off + (Cardinality(P) - 1)
    BY <1>2, <1>4, <1>5
  <1> QED
    BY <1>1, <1>3, <1>6, <1>7 DEF P

\* A page that is not full has everything beyond its offset.
LEMMA PageShort ==
    ASSUME NEW S, IsFiniteSet(S), NEW w \in [S -> Int],
           \A x, y \in S : w[x] = w[y] => x = y,
           NEW off \in Nat, NEW n \in Nat, Cardinality(Page(S, w, off, n)) < n,
           NEW x \in S, off <= Before(S, w, x)
    PROVE  x \in Page(S, w, off, n)
  <1> DEFINE R == { y \in S : ~ (Before(S, w, y) < off + n) }
  <1> SUFFICES ASSUME R # {} PROVE FALSE
    BY DEF Page
  <1>1. PICK m \in R : \A y \in R : w[m] <= w[y]
    BY FirstOf
  <1>2. \A y \in S : w[y] < w[m] => Before(S, w, y) < off + n
    BY <1>1
  <1>3. Before(S, w, m) <= off + Cardinality(Page(S, w, off, n))
    BY <1>2, PageFills
  <1>4. Before(S, w, m) \in Nat /\ Cardinality(Page(S, w, off, n)) \in Nat
    BY BeforeMono, PageBounds
  <1> QED
    BY <1>3, <1>4

\* The maximum of a finite set of naturals.
LEMMA MaxOf ==
    ASSUME NEW T \in SUBSET Nat, IsFiniteSet(T), T # {}
    PROVE  Max(T) \in T /\ \A y \in T : y <= Max(T)
  <1>1. PICK w : w = [x \in T |-> x]
    OBVIOUS
  <1>2. w \in [T -> Int] /\ \A x \in T : w[x] = x
    BY <1>1
  <1>3. \E m \in T : \A y \in T : w[y] <= w[m]
    BY <1>2, LastOf
  <1>4. \E m \in T : \A y \in T : m >= y
    BY <1>2, <1>3
  <1>5. Max(T) \in T /\ \A y \in T : Max(T) >= y
    BY <1>4, Zenon DEF Max
  <1> QED
    BY <1>5
-----------------------------------------------------------------------------
(* The rows that the writers leave behind *)

\* Snapshot ids are used once, over all tables; a snapshot comes with its
\* manifests; nothing is older than a snapshot of a table and newer than its
\* parent; and no partition belongs to snapshot 0.
DbInv ==
    /\ IsFiniteSet(snapshots)
    /\ \A s \in snapshots : s.id <= snapSeq /\ s.manifests = Manifests(s.added, s.deleted)
    /\ \A s, q \in snapshots : s.id = q.id => s = q
    /\ \A s, q \in snapshots : s.table = q.table /\ q.id < s.id => q.id <= s.parent
    /\ \A p \in Procs : op[p].at = "commit_tx" =>
          /\ \A s \in snapshots : s.id # op[p].snap
          /\ \A q \in Procs : op[q].at = "commit_tx" /\ op[q].snap = op[p].snap => q = p
    /\ \A f \in partitions : f.snap > 0

\* Only the INSERT of a commit draws a snapshot id.
LEMMA SnapSeqStep ==
    ASSUME [Next]_vars
    PROVE  UNCHANGED snapSeq \/ \E p \in Procs : CommitInsert(p)
  <1>1. ASSUME NEW p \in Procs, Accept(p)
        PROVE  UNCHANGED snapSeq
    BY <1>1 DEF Accept, CreateTable, DropTable, RenameLockOld, AlterTable, CommitLock,
                GetPartitions, GetLookup, GetTableMetadata, db
  <1>2. ASSUME NEW p \in Procs, Continue(p)
        PROVE  UNCHANGED snapSeq \/ CommitInsert(p)
    BY <1>2 DEF Continue, DropInvalidate, RenameLockNew, RenameExec,
                RenameInvalidateOld, RenameInvalidateNew, CommitRead,
                CommitFail, CommitTx, CommitTxLost, CommitInvalidate, GetQuery,
                GetFail, GetPut, GetReturn, MetaGetPartitions, GetLookup, MetaReply, db
  <1> QED
    BY <1>1, <1>2 DEF Next, Restart, Resolve, vars, db

\* A commit adds one snapshot, under a new id.
LEMMA CommitRows ==
    ASSUME IInv, LinearInv, DbInv, NEW p \in Procs, NEW add \in SUBSET Keys,
           NEW del \in SUBSET Keys, CommitTx(p, add, del)
    PROVE  \E w \in SnapshotRow :
              /\ Apply(w) /\ w.id = op[p].snap /\ w.table = op[p].tid
              /\ w.id <= snapSeq /\ w.id > tables[w.table].current
              /\ w.parent = tables[w.table].current
              /\ w.manifests = Manifests(w.added, w.deleted)
              /\ \A s \in snapshots : s.id # w.id
              /\ \A q \in Procs : op[q].at = "commit_tx" /\ op[q].snap = w.id => q = p
  <1>1. op[p].at = "commit_tx" /\ op[p].tid \in TableIds
    BY DEF CommitTx, IInv, CommitInv
  <1>2. PICK w : w = NewSnapshot(p, add, del)
    OBVIOUS
  <1>3. w \in SnapshotRow
    BY <1>1, <1>2, NewSnapshotType DEF IInv
  <1>4. /\ w.id = op[p].snap /\ w.table = op[p].tid /\ w.parent = op[p].base
        /\ w.manifests = Manifests(w.added, w.deleted)
    BY <1>2 DEF NewSnapshot
  <1>5. Apply(w)
    BY <1>2 DEF CommitTx
  <1>6. /\ op[p].snap <= snapSeq /\ tables[op[p].tid].current < op[p].snap
        /\ op[p].base = tables[op[p].tid].current
    BY <1>1 DEF IInv, CommitInv, LinearInv, BaseInv
  <1>7. op[p].snap > tables[op[p].tid].current
    BY <1>1, <1>6 DEF IInv, TypeOK, Op, TableRow, SnapIds
  <1> QED
    BY <1>1, <1>3, <1>4, <1>5, <1>6, <1>7 DEF DbInv

\* Every step of the catalog keeps them.
LEMMA DbStep ==
    ASSUME IInv, LinearInv, DbInv, [Next]_vars
    PROVE  DbInv'
  <1>a. /\ tables \in [TableIds -> TableRow] /\ snapshots \subseteq SnapshotRow
        /\ partitions \subseteq PartitionRow /\ snapSeq \in SnapIds /\ op \in [Procs -> Op]
        /\ limbo = {}
    BY DEF IInv, TypeOK, LinearInv, BaseInv
  <1>b. \A s \in snapshots : s.id \in Nat /\ s.parent \in Nat /\ s.table \in TableIds
    BY <1>a DEF SnapshotRow, SnapIds
  <1>c. snapSeq \in Nat /\ snapSeq' \in Nat /\ snapSeq <= snapSeq'
    <2>1. snapSeq' = snapSeq \/ snapSeq' = snapSeq + 1
      BY SnapSeqStep, Zenon DEF CommitInsert
    <2> QED
      BY <1>a, <2>1 DEF SnapIds
  <1>d. \A q \in Procs : op'[q].at = "commit_tx" => op'[q] = op[q] \/ CommitInsert(q)
    BY StepsInto
  \* The ids that handlers have drawn.
  <1>e. ASSUME NEW p \in Procs, op'[p].at = "commit_tx", NEW q \in Procs,
               op'[q].at = "commit_tx", op'[p].snap = op'[q].snap
        PROVE  p = q
    <2>1. ASSUME NEW x \in Procs, CommitInsert(x)
          PROVE  op'[x].snap = snapSeq + 1 /\ \A y \in Procs \ {x} : op'[y] = op[y]
      BY <2>1, <1>a DEF CommitInsert, Op
    <2>2. \A x \in Procs : op[x].at = "commit_tx" => op[x].snap \in Nat /\ op[x].snap <= snapSeq
      BY <1>a DEF IInv, CommitInv, Op, SnapIds
    <2>3. CASE op'[p] = op[p] /\ op'[q] = op[q]
      BY <1>e, <2>3 DEF DbInv
    <2>4. CASE CommitInsert(p) /\ p # q
      BY <1>c, <1>e, <2>1, <2>2, <2>4
    <2>5. CASE CommitInsert(q) /\ p # q
      BY <1>c, <1>e, <2>1, <2>2, <2>5
    <2> QED
      BY <1>d, <1>e, <2>3, <2>4, <2>5
  <1>f. ASSUME NEW p \in Procs, op'[p].at = "commit_tx", NEW s \in snapshots
        PROVE  s.id # op'[p].snap
    <2>1. CASE op'[p] = op[p]
      BY <1>f, <2>1 DEF DbInv
    <2>2. CASE CommitInsert(p)
      <3>1. op'[p].snap = snapSeq + 1
        BY <2>2, <1>a DEF CommitInsert, Op
      <3> QED
        BY <3>1, <1>b, <1>c DEF DbInv
    <2> QED
      BY <1>d, <1>f, <2>1, <2>2
  <1>1. ASSUME snapshots' \subseteq snapshots, partitions' \subseteq partitions
        PROVE  DbInv'
    <2>1. IsFiniteSet(snapshots')
      BY <1>1, FS_Subset DEF DbInv
    <2>2. \A s \in snapshots' :
             s.id <= snapSeq' /\ s.manifests = Manifests(s.added, s.deleted)
      BY <1>1, <1>b, <1>c DEF DbInv
    <2> QED
      BY <1>1, <1>e, <1>f, <2>1, <2>2 DEF DbInv, Manifests
  <1>2. ASSUME NEW p \in Procs, NEW add \in SUBSET Keys, NEW del \in SUBSET Keys,
               CommitTx(p, add, del)
        PROVE  DbInv'
    <2>1. PICK w \in SnapshotRow :
              /\ Apply(w) /\ w.id = op[p].snap /\ w.table = op[p].tid
              /\ w.id <= snapSeq /\ w.id > tables[w.table].current
              /\ w.parent = tables[w.table].current
              /\ w.manifests = Manifests(w.added, w.deleted)
              /\ \A s \in snapshots : s.id # w.id
              /\ \A q \in Procs : op[q].at = "commit_tx" /\ op[q].snap = w.id => q = p
      BY <1>2, CommitRows
    <2>2. snapshots' = snapshots \cup {w}
      BY <2>1 DEF Apply
    <2>3. w.id \in Nat /\ w.parent \in Nat /\ w.table \in TableIds /\ tables[w.table].current \in Nat
      BY <1>a, <2>1 DEF SnapshotRow, SnapIds, TableRow
    <2>4. \A s \in snapshots : s.table = w.table => s.id <= w.parent
      BY <2>1 DEF LinearInv, LinearHistory, SnapshotsOf, SnapshotRow
    <2>5. IsFiniteSet(snapshots')
      BY <2>2, FS_AddElement DEF DbInv
    <2>6. \A s \in snapshots' :
             s.id <= snapSeq' /\ s.manifests = Manifests(s.added, s.deleted)
      BY <1>b, <1>c, <2>1, <2>2, <2>3 DEF DbInv
    <2>7. \A s, q \in snapshots' : s.id = q.id => s = q
      BY <2>1, <2>2 DEF DbInv
    <2>8. \A s, q \in snapshots' : s.table = q.table /\ q.id < s.id => q.id <= s.parent
      <3> SUFFICES ASSUME NEW s \in snapshots', NEW q \in snapshots',
                          s.table = q.table, q.id < s.id
                   PROVE  q.id <= s.parent
        OBVIOUS
      <3>1. CASE s \in snapshots /\ q \in snapshots
        BY <3>1 DEF DbInv
      <3>2. CASE s = w /\ q \in snapshots
        BY <2>4, <3>2
      <3>3. CASE q = w /\ s \in snapshots
        <4>1. s.id <= w.parent /\ w.parent < w.id
          BY <2>1, <2>3, <2>4, <3>3
        <4> QED
          BY <1>b, <2>3, <3>3, <4>1
      <3>4. CASE s = w /\ q = w
        BY <2>3, <3>4
      <3> QED
        BY <2>2, <3>1, <3>2, <3>3, <3>4
    <2>9. ASSUME NEW x \in Procs, op'[x].at = "commit_tx", NEW s \in snapshots'
          PROVE  s.id # op'[x].snap
      <3>1. x # p /\ op'[x] = op[x]
        BY <1>2, <1>a, <2>9 DEF CommitTx, Goto, Op
      <3> QED
        BY <1>f, <2>1, <2>2, <2>9, <3>1
    <2>10. ASSUME NEW f \in partitions' PROVE f.snap > 0
      <3> DEFINE ins == InsertPartitions(partitions, w.table, w.added, w.id)
      <3>1. \A r \in ins : r \in PartitionRow /\ r.snap > 0
        BY <1>a, <2>1, <2>3, CatalogAssumption
           DEF InsertPartitions, PartitionRow, SnapshotRow, SnapIds, DbInv
      <3>2. PICK r \in ins : f = IF r.table = w.table /\ r.key \in w.deleted /\ r.del = 0
                                 THEN [r EXCEPT !.del = w.id] ELSE r
        BY <2>1, <2>10 DEF Apply, MarkPartitionDeleted
      <3> HIDE DEF ins
      <3> QED
        BY <3>1, <3>2 DEF PartitionRow
    <2> QED
      BY <1>e, <2>5, <2>6, <2>7, <2>8, <2>9, <2>10 DEF DbInv, Manifests
  <1>3. ASSUME NEW p \in Procs, NEW n \in Names, DropTable(p, n)
        PROVE  DbInv'
    BY <1>1, <1>3 DEF DropTable, SoftDelete, Purge
  <1>4. ASSUME NEW p \in Procs, NEW n \in Names, CreateTable(p, n)
        PROVE  DbInv'
    BY <1>1, <1>4 DEF CreateTable
  <1>5. ASSUME NEW p \in Procs, RenameExec(p)
        PROVE  DbInv'
    BY <1>1, <1>5 DEF RenameExec
  <1> QED
    BY <1>1, <1>2, <1>3, <1>4, <1>5, <1>a, WritingSteps

-----------------------------------------------------------------------------
(* Listings and requests: their shapes, and the locks of a reader *)

\* A row of ListTables, and a row of the query for manifest files.
Listed == [tid : TableIds, name : Names \cup {None}, current : SnapIds, count : Nat]

ManifestRow == [snap : SnapIds, manifest : Manifest]

ListingTables == {"tables_next", "tables_count"}

Holding == {"page_query", "stats_query"}

CallSteps == {"idle", "page_query", "stats_query", "columns_table", "columns_query",
              "snapshot_query", "history_query", "manifests_list", "manifests_files"}
             \cup ListingTables \cup Replies

CallRow == [at : CallSteps, name : Names \cup {None}, tid : 0 .. MaxTables, snap : Nat,
            rows : SUBSET (FileRow \cup SnapshotRow \cup Listed \cup ManifestRow), count : Nat]

ScanRow == [kind : {"none", "files", "tables"}, name : Names \cup {None}, ask : SnapIds,
            size : Nat, token : Nat, got : SUBSET (FileRow \cup TableIds), again : BOOLEAN,
            done : BOOLEAN, tids : SUBSET TableIds, first : Nat, last : Nat]

WatchRow == [kept : SUBSET TableIds, head : SnapIds, lost : BOOLEAN]

\* How the listing of a reader and the request that it has going fit together.
Serving(r) ==
    /\ scan[r].kind = "none" => scan[r] = NoScan
    /\ scan[r].kind = "files" =>
          scan[r].name \in Names /\ scan[r].got \subseteq FileRow /\ call[r].at \in {"idle", "page_query"}
    /\ scan[r].kind = "tables" =>
          /\ scan[r].name = None /\ scan[r].got \subseteq TableIds
          /\ call[r].at \in {"idle"} \cup ListingTables
    /\ call[r].at = "page_query" => scan[r].kind = "files" /\ call[r].name = scan[r].name
    /\ call[r].at \in ListingTables =>
          /\ scan[r].kind = "tables" /\ call[r].name = None /\ call[r].rows \subseteq Listed
          /\ \A x, y \in call[r].rows : x.tid = y.tid => x = y
    /\ call[r].at = "idle" => call[r] = NoCall
    /\ call[r].at \notin {"idle"} \cup ListingTables => call[r].name \in Names

ShapeInv ==
    /\ scan \in [Readers -> ScanRow]
    /\ call \in [Readers -> CallRow]
    /\ watch \in [Readers -> WatchRow]
    /\ \A r \in Readers : op[r] = Idle /\ Serving(r)

\* A reader holds the shared lock of the name it asks for, and no other.
HoldingInv ==
    \A r \in Readers : \A n \in Names :
        r \in slock[n] <=> call[r].at \in Holding /\ call[r].name = n

BasicInv == IInv /\ LinearInv /\ DbInv /\ ShapeInv /\ HoldingInv

\* A writer's step is a step of the catalog; it takes no shared lock and leaves
\* the other processes alone.
LEMMA WriteStep ==
    ASSUME IInv, NEW p \in Writers, Write(p)
    PROVE  /\ p \in Procs /\ Next
           /\ slock' = slock /\ limbo' = limbo
           /\ \A r \in Readers : op'[r] = op[r]
  <1>a. p \in Procs /\ p \notin Readers /\ Readers \subseteq Procs /\ op \in [Procs -> Op]
    BY ReadsAssumption DEF Writers, IInv, TypeOK
  <1>1. Accept(p) \/ Continue(p)
    BY DEF Write, Accept, Continue
  <1>2. slock' = slock /\ limbo' = limbo
    BY DEF Write, CreateTable, DropTable, CommitLock, RenameLockOld, DropInvalidate,
           RenameLockNew, RenameExec, RenameInvalidateOld, RenameInvalidateNew, CommitRead,
           CommitInsert, CommitFail, CommitTx, CommitInvalidate, db, lock
  <1>3. \A q \in Procs \ {p} : op'[q] = op[q]
    <2>1. CASE \E n \in Names : CreateTable(p, n) \/ DropTable(p, n) \/ CommitLock(p, n)
      BY <1>a, <2>1 DEF CreateTable, DropTable, CommitLock
    <2>2. CASE \E n, new \in Names : RenameLockOld(p, n, new)
      BY <1>a, <2>2 DEF RenameLockOld
    <2>3. CASE \/ DropInvalidate(p) \/ RenameInvalidateNew(p) \/ CommitFail(p) \/ CommitInvalidate(p)
      BY <1>a, <2>3 DEF DropInvalidate, RenameInvalidateNew, CommitFail, CommitInvalidate, Return
    <2>4. CASE \/ RenameLockNew(p) \/ RenameExec(p) \/ RenameInvalidateOld(p)
               \/ \E add, del \in SUBSET Keys : CommitTx(p, add, del)
      BY <1>a, <2>4 DEF RenameLockNew, RenameExec, RenameInvalidateOld, CommitTx, Goto
    <2>5. CASE CommitRead(p) \/ CommitInsert(p)
      BY <1>a, <2>5 DEF CommitRead, CommitInsert
    <2> QED
      BY <2>1, <2>2, <2>3, <2>4, <2>5 DEF Write
  <1> QED
    BY <1>a, <1>1, <1>2, <1>3 DEF Next

\* A reader's step changes nothing but its own listing, request and history
\* and its own hold on a lock that no writer has.
LEMMA ReadFrame ==
    ASSUME IInv, ShapeInv, NEW r \in Readers, Read(r)
    PROVE  /\ UNCHANGED <<tables, snapshots, partitions, limbo, snapSeq, xlock, cache, op>>
           /\ \A q \in Readers \ {r} :
                 scan'[q] = scan[q] /\ call'[q] = call[q] /\ watch'[q] = watch[q]
           /\ scan' = [q \in Readers |-> scan'[q]] /\ call' = [q \in Readers |-> call'[q]]
           /\ watch' = [q \in Readers |-> watch'[q]]
           /\ slock' \in [Names -> SUBSET Procs]
           /\ \A n \in Names : /\ \A q \in Procs \ {r} : q \in slock'[n] <=> q \in slock[n]
                               /\ r \in slock'[n] => r \in slock[n] \/ xlock[n] = None
  <1> DEFINE Goal ==
           /\ UNCHANGED <<tables, snapshots, partitions, limbo, snapSeq, xlock, cache, op>>
           /\ \A q \in Readers \ {r} :
                 scan'[q] = scan[q] /\ call'[q] = call[q] /\ watch'[q] = watch[q]
           /\ scan' = [q \in Readers |-> scan'[q]] /\ call' = [q \in Readers |-> call'[q]]
           /\ watch' = [q \in Readers |-> watch'[q]]
           /\ slock' \in [Names -> SUBSET Procs]
           /\ \A n \in Names : /\ \A q \in Procs \ {r} : q \in slock'[n] <=> q \in slock[n]
                               /\ r \in slock'[n] => r \in slock[n] \/ xlock[n] = None
  <1> SUFFICES Goal
    OBVIOUS
  <1>a. /\ slock \in [Names -> SUBSET Procs] /\ r \in Procs /\ AskedFor \subseteq Names
        /\ scan \in [Readers -> ScanRow] /\ call \in [Readers -> CallRow]
        /\ watch \in [Readers -> WatchRow]
    BY ReadsAssumption DEF IInv, TypeOK, ShapeInv
  <1>b. ASSUME slock' = slock
        PROVE  /\ slock' \in [Names -> SUBSET Procs]
               /\ \A n \in Names : /\ \A q \in Procs \ {r} : q \in slock'[n] <=> q \in slock[n]
                                   /\ r \in slock'[n] => r \in slock[n] \/ xlock[n] = None
    BY <1>a, <1>b
  <1>1. ASSUME NEW n \in AskedFor, NEW s \in ReadAt, GetPartitionsPaged(r, n, s)
        PROVE  Goal
    BY <1>1, <1>a DEF GetPartitionsPaged, db, RLock, CanRLock, Begin
  <1>2. CASE PageQuery(r)
    BY <1>2, <1>a DEF PageQuery, db, RUnlock, End, Answered
  <1>3. ASSUME NEW size \in {0, PageSize}, ListTables(r, size)
        PROVE  Goal
    BY <1>3, <1>a, <1>b DEF ListTables, catalogVars, vars, BeginAll
  <1>4. CASE CountTable(r) \/ CountPartitions(r)
    BY <1>4, <1>a, <1>b DEF CountTable, CountPartitions, catalogVars, vars
  <1>5. CASE TablesReply(r) \/ ScanEnd(r)
    BY <1>5, <1>a, <1>b DEF TablesReply, ScanEnd, Answered, End, catalogVars, vars
  <1>6. ASSUME NEW n \in AskedFor, GetPartitionStats(r, n)
        PROVE  Goal
    BY <1>6, <1>a DEF GetPartitionStats, Request, db, RLock, CanRLock, Begin
  <1>7. CASE StatsQuery(r)
    BY <1>7, <1>a DEF StatsQuery, db, RUnlock
  <1>8. ASSUME NEW n \in AskedFor, NEW s \in ReadAt,
               GetColumnStatsCall(r, n, s) \/ GetSnapshot(r, n, s) \/ GetManifestList(r, n, s)
        PROVE  Goal
    BY <1>8, <1>a, <1>b DEF GetColumnStatsCall, GetSnapshot, GetManifestList,
                            Request, Begin, catalogVars, vars
  <1>13. ASSUME NEW n \in AskedFor, NEW limit \in {0, Limit}, ListSnapshots(r, n, limit)
         PROVE  Goal
    BY <1>13, <1>a, <1>b DEF ListSnapshots, Request, Begin, catalogVars, vars
  <1>9. CASE ColumnsTable(r) \/ ManifestListQuery(r)
    BY <1>9, <1>a, <1>b
       DEF ColumnsTable, ManifestListQuery, Answered, End, catalogVars, vars
  <1>10. CASE ColumnsQuery(r) \/ SnapshotQuery(r) \/ HistoryQuery(r) \/ ManifestFilesQuery(r)
    BY <1>10, <1>a, <1>b DEF ColumnsQuery, SnapshotQuery, HistoryQuery, ManifestFilesQuery,
                             ReadRows, catalogVars, vars
  <1>11. CASE GetManifest(r) \/ Reply(r)
    BY <1>11, <1>a, <1>b DEF GetManifest, Reply, Answered, End, catalogVars, vars
  <1>12. CASE ReadFail(r)
    BY <1>12, <1>a DEF ReadFail, Answered, End, db
  <1> HIDE DEF Goal
  <1> QED
    BY <1>1, <1>2, <1>3, <1>4, <1>5, <1>6, <1>7, <1>8, <1>9, <1>10, <1>11, <1>12, <1>13 DEF Read

\* Partition keys are numbers below the stride.
LEMMA StrideFacts == Stride \in Nat /\ Keys \subseteq 0 .. Stride - 1
  BY ReadsAssumption, Zenon

\* There are finitely many files.
LEMMA FilesFinite == IsFiniteSet(FileRow)
  <1>1. IsFiniteSet(Keys)
    <2>1. 0 \in Int /\ Stride - 1 \in Int
      BY StrideFacts
    <2>2. IsFiniteSet(0 .. Stride - 1)
      BY <2>1, FS_Interval
    <2> QED
      BY <2>2, StrideFacts, FS_Subset
  <1>2. IsFiniteSet(TableIds) /\ IsFiniteSet(SnapIds)
    BY CatalogAssumption, FS_Interval DEF TableIds, SnapIds
  <1> DEFINE D == TableIds \X (SnapIds \X Keys)
             f == [d \in D |-> [table |-> d[1], snap |-> d[2][1], key |-> d[2][2]]]
  <1>3. IsFiniteSet(D)
    BY <1>1, <1>2, FS_Product
  <1>4. f \in [D -> FileRow]
    BY DEF FileRow
  <1>5. ASSUME NEW x \in FileRow
        PROVE  \E d \in D : f[d] = x
    <2>1. <<x.table, <<x.snap, x.key>>>> \in D
      BY DEF FileRow
    <2>2. f[<<x.table, <<x.snap, x.key>>>>] = x
      BY <2>1 DEF FileRow
    <2> QED
      BY <2>1, <2>2
  <1> HIDE DEF D, f
  <1>6. f \in Surjection(D, FileRow)
    BY <1>4, <1>5 DEF Surjection
  <1> QED
    BY <1>3, <1>6, FS_Surjection

\* A query returns finitely many file rows.
LEMMA VisibleFinite ==
    ASSUME TypeOK, NEW t, NEW s
    PROVE  /\ Visible(t, s) \subseteq FileRow /\ IsFiniteSet(Visible(t, s))
           /\ Cardinality(Visible(t, s)) \in Nat
  BY VisibleType, FilesFinite, FS_Subset, FS_CardinalityType

\* The fields of a file row are numbers.
LEMMA FileFields ==
    ASSUME NEW f \in FileRow
    PROVE  f.key \in 0 .. Stride - 1 /\ f.snap \in Nat
  <1>1. f.key \in Keys /\ f.snap \in 0 .. MaxSnaps
    BY DEF FileRow, SnapIds
  <1>2. f.key \in 0 .. Stride - 1
    BY <1>1, StrideFacts, Zenon
  <1> QED
    BY <1>1, <1>2

\* The order of partition rows.
LEMMA PartitionOrder ==
    ASSUME NEW f \in FileRow
    PROVE  /\ PartitionID(f) \in Nat
           /\ f.snap > 0 => PartitionID(f) > 0
           /\ \A g \in FileRow : f.table = g.table /\ PartitionID(f) = PartitionID(g) => f = g
  <1> DEFINE S == Stride
  <1>1. f.key \in 0 .. S - 1 /\ f.snap \in Nat /\ S \in Nat
    BY StrideFacts, FileFields
  <1>2. f.snap * S \in Nat /\ (f.snap > 0 => f.snap * S >= S)
    <2>1. ASSUME NEW a \in Nat PROVE a * S \in Nat /\ (a > 0 => a * S >= S)
      <3>1. a * S \in Nat
        BY <1>1
      <3>2. CASE a > 0
        <4>1. (a - 1) * S \in Nat
          BY <1>1, <3>2
        <4>2. a * S = (a - 1) * S + S
          BY <1>1, <3>2
        <4> QED
          BY <1>1, <3>1, <4>1, <4>2
      <3> QED
        BY <3>1, <3>2
    <2> QED
      BY <1>1, <2>1
  <1>3. ASSUME NEW g \in FileRow, f.table = g.table, PartitionID(f) = PartitionID(g)
        PROVE  f = g
    <2>1. g.key \in 0 .. S - 1 /\ g.snap \in Nat
      BY StrideFacts, FileFields
    <2>2. f.snap * S + f.key = g.snap * S + g.key
      BY <1>3 DEF PartitionID
    <2>3. ASSUME NEW a \in Nat, NEW b \in Nat, NEW j \in 0 .. S - 1, NEW k \in 0 .. S - 1,
                 a * S + j = b * S + k
          PROVE  ~ (a < b)
      <3> SUFFICES ASSUME a < b PROVE FALSE
        OBVIOUS
      <3>1. PICK c \in Nat : b = a + 1 + c
        <4>1. b - a - 1 \in Nat /\ b = a + 1 + (b - a - 1)
          OBVIOUS
        <4> QED
          BY <4>1
      <3>2. b * S = a * S + S + c * S /\ c * S \in Nat /\ a * S \in Nat
        BY <1>1, <3>1
      <3> QED
        BY <1>1, <2>3, <3>2
    <2>4. f.snap = g.snap
      <3>1. ~ (f.snap < g.snap)
        BY <1>1, <2>1, <2>2, <2>3, Zenon
      <3>2. ~ (g.snap < f.snap)
        BY <1>1, <2>1, <2>2, <2>3, Zenon
      <3> QED
        BY <1>1, <2>1, <3>1, <3>2
    <2>5. f.key = g.key
      BY <1>1, <1>2, <2>1, <2>2, <2>4
    <2> QED
      BY <1>3, <2>4, <2>5 DEF FileRow
  <1> QED
    BY <1>1, <1>2, <1>3 DEF PartitionID

\* The manifests of a snapshot can be counted.
LEMMA ManifestsFinite ==
    ASSUME DbInv, NEW s \in snapshots
    PROVE  IsFiniteSet(s.manifests) /\ Cardinality(s.manifests) \in Nat
  <1> DEFINE a == [added |-> s.added, deleted |-> {}]
             d == [added |-> {}, deleted |-> s.deleted]
  <1>1. s.manifests \in SUBSET ({a} \cup {d})
    BY DEF DbInv, Manifests
  <1> HIDE DEF a, d
  <1>2. IsFiniteSet({a} \cup {d})
    BY FS_Singleton, FS_AddElement
  <1> QED
    BY <1>1, <1>2, FS_Subset, FS_CardinalityType

\* The rows of a page of ListTables are as many as its tables.
LEMMA ListedRows ==
    ASSUME NEW rows \in SUBSET Listed, \A x, y \in rows : x.tid = y.tid => x = y
    PROVE  /\ IsFiniteSet(rows) /\ Cardinality(rows) \in Nat
           /\ Cardinality({ x.tid : x \in rows }) = Cardinality(rows)
  <1> DEFINE T == { x.tid : x \in rows }
             f == [x \in rows |-> x.tid]
  <1>1. T \in SUBSET TableIds
    BY DEF Listed
  <1>2. IsFiniteSet(TableIds)
    BY CatalogAssumption, FS_Interval DEF TableIds
  <1>3. IsFiniteSet(T)
    BY <1>1, <1>2, FS_Subset
  <1>4. f \in Injection(rows, T) /\ f \in Surjection(rows, T)
    BY DEF Injection, Surjection, IsInjective
  <1> HIDE DEF T, f
  <1>5. IsFiniteSet(rows) /\ Cardinality(rows) = Cardinality(T)
    BY <1>3, <1>4, FS_Injection
  <1> QED
    BY <1>5, FS_CardinalityType DEF T

\* Constants of this module.
LEMMA ReadsConstants ==
    /\ Readers \subseteq Procs /\ AskedFor \subseteq Names
    /\ PageSize \in Nat \ {0} /\ NoPageSize \in Nat \ {0}
    /\ Limit \in Nat \ {0} /\ NoLimit \in Nat \ {0}
  BY ReadsAssumption, Zenon

\* The empty values have their shapes.
LEMMA EmptyShapes == NoScan \in ScanRow /\ NoCall \in CallRow /\ NoWatch \in WatchRow
  BY CatalogAssumption
     DEF NoScan, ScanRow, NoCall, CallRow, CallSteps, Replies, NoWatch, WatchRow, SnapIds

\* A snapshot that a request resolves is a snapshot id.
LEMMA ResolveType ==
    ASSUME TypeOK, NEW n, NEW s \in ReadAt
    PROVE  /\ s \in SnapIds /\ ResolveSnapshot(n, s) \in SnapIds /\ ResolveSnapshot(n, s) \in Nat
           /\ GetCurrentSnapshot(n) \in SnapIds /\ GetCurrentSnapshot(n) \in Nat
  BY GetCurrentSnapshotType, CatalogAssumption DEF ResolveSnapshot, SnapIds

\* The history of a reader that begins.
LEMMA BeginType ==
    ASSUME TypeOK, watch \in [Readers -> WatchRow], NEW r \in Readers
    PROVE  /\ End(r) => watch'[r] = NoWatch /\ watch'[r] \in WatchRow
           /\ \A n : Begin(r, n) => /\ watch'[r] \in WatchRow
                                    /\ watch'[r].kept = { t \in TableIds : IsLive(t, n) }
                                    /\ watch'[r].head = GetCurrentSnapshot(n)
           /\ BeginAll(r) => /\ watch'[r] \in WatchRow
                             /\ watch'[r].kept = LiveTables /\ watch'[r].head = 0
                             /\ ~ watch'[r].lost
  <1>1. End(r) => watch'[r] = NoWatch /\ watch'[r] \in WatchRow
    BY EmptyShapes DEF End
  <1>2. ASSUME NEW n, Begin(r, n)
        PROVE  /\ watch'[r] \in WatchRow
               /\ watch'[r].kept = { t \in TableIds : IsLive(t, n) }
               /\ watch'[r].head = GetCurrentSnapshot(n)
    BY <1>2, GetCurrentSnapshotType DEF Begin, WatchRow
  <1>3. ASSUME BeginAll(r)
        PROVE  /\ watch'[r] \in WatchRow
               /\ watch'[r].kept = LiveTables /\ watch'[r].head = 0
               /\ ~ watch'[r].lost
    <2>1. watch'[r] = [kept |-> LiveTables, head |-> 0, lost |-> FALSE]
      BY <1>3 DEF BeginAll, NoWatch
    <2>2. LiveTables \subseteq TableIds /\ 0 \in SnapIds
      BY CatalogAssumption DEF LiveTables, SnapIds
    <2> QED
      BY <2>1, <2>2 DEF WatchRow
  <1> QED
    BY <1>1, <1>2, <1>3

\* A page of files is part of what is visible; a token is a row number.
LEMMA PageType ==
    ASSUME TypeOK, NEW t, NEW s, NEW last
    PROVE  LET page == QueryPartitionsPaged(t, s, last)
           IN  /\ page \subseteq Visible(t, s) /\ page \subseteq FileRow
               /\ \A f \in page : PartitionID(f) \in Nat /\ PartitionID(f) > last
               /\ page # {} => /\ Max({ PartitionID(f) : f \in page }) \in Nat
                               /\ \E f \in page : PartitionID(f) = Max({ PartitionID(g) : g \in page })
                               /\ \A f \in page : PartitionID(f) <= Max({ PartitionID(g) : g \in page })
  <1>1. PICK page : page = QueryPartitionsPaged(t, s, last)
    OBVIOUS
  <1>2. page \subseteq { f \in Visible(t, s) : PartitionID(f) > last }
    BY <1>1 DEF QueryPartitionsPaged, Window
  <1>3. page \subseteq Visible(t, s) /\ page \subseteq FileRow /\ IsFiniteSet(page)
    BY <1>2, VisibleFinite, FS_Subset
  <1>4. \A f \in page : PartitionID(f) \in Nat /\ PartitionID(f) > last
    BY <1>2, <1>3, PartitionOrder
  <1>5. ASSUME page # {}
        PROVE  /\ Max({ PartitionID(f) : f \in page }) \in Nat
               /\ \E f \in page : PartitionID(f) = Max({ PartitionID(g) : g \in page })
               /\ \A f \in page : PartitionID(f) <= Max({ PartitionID(g) : g \in page })
    <2> DEFINE T == { PartitionID(f) : f \in page }
               h == [f \in page |-> PartitionID(f)]
    <2>1. T \in SUBSET Nat /\ T # {}
      BY <1>4, <1>5
    <2>2. h \in Surjection(page, T)
      BY DEF Surjection
    <2>3. IsFiniteSet(T)
      <3> HIDE DEF T, h
      <3> QED
        BY <1>3, <2>2, FS_Surjection
    <2>4. Max(T) \in T /\ \A y \in T : y <= Max(T)
      <3> HIDE DEF T
      <3> QED
        BY <2>1, <2>3, MaxOf
    <2> QED
      BY <2>1, <2>4
  <1> QED
    BY <1>1, <1>3, <1>4, <1>5

\* A reader's step leaves its listing, request and history in shape.
LEMMA ReaderShape ==
    ASSUME BasicInv, NEW r \in Readers, Read(r)
    PROVE  /\ scan'[r] \in ScanRow /\ call'[r] \in CallRow /\ watch'[r] \in WatchRow
           /\ Serving(r)'
  <1> DEFINE Goal == /\ scan'[r] \in ScanRow /\ call'[r] \in CallRow /\ watch'[r] \in WatchRow
                     /\ Serving(r)'
  <1> SUFFICES Goal
    OBVIOUS
  <1>a. /\ TypeOK /\ r \in Procs /\ AskedFor \subseteq Names
        /\ scan \in [Readers -> ScanRow] /\ scan[r] \in ScanRow
        /\ call \in [Readers -> CallRow] /\ call[r] \in CallRow
        /\ watch \in [Readers -> WatchRow] /\ watch[r] \in WatchRow
        /\ Serving(r)
    BY ReadsConstants DEF BasicInv, IInv, ShapeInv
  <1>b. None \notin Names
    BY CatalogAssumption
  <1>1. ASSUME NEW n \in AskedFor, NEW s \in ReadAt, GetPartitionsPaged(r, n, s)
        PROVE  Goal
    <2>1. watch'[r] \in WatchRow
      BY <1>1, <1>a, BeginType DEF GetPartitionsPaged
    <2>2. /\ scan'[r] = [scan[r] EXCEPT !.kind = "files", !.name = n, !.ask = s]
          /\ call'[r] = [NoCall EXCEPT !.at = "page_query", !.name = n, !.snap = ResolveSnapshot(n, s)]
      BY <1>1, <1>a DEF GetPartitionsPaged
    <2>3. scan[r].got \subseteq FileRow
      BY <1>1, <1>a DEF GetPartitionsPaged, NoScan, Serving
    <2>4. scan'[r] \in ScanRow
      BY <1>a, <2>2, ResolveType DEF ScanRow
    <2>5. call'[r] \in CallRow
      <3>1. ResolveSnapshot(n, s) \in Nat /\ n \in Names
        BY <1>a, ResolveType
      <3>2. "page_query" \in CallSteps
        BY DEF CallSteps
      <3> QED
        BY <2>2, <3>1, <3>2, EmptyShapes DEF CallRow
    <2>6. scan'[r].kind = "files" /\ scan'[r].name = n /\ scan'[r].got = scan[r].got
      BY <1>a, <2>2 DEF ScanRow
    <2>7. call'[r].at = "page_query" /\ call'[r].name = n
      BY <2>2 DEF NoCall
    <2> QED
      BY <1>a, <2>1, <2>3, <2>4, <2>5, <2>6, <2>7 DEF Serving, ListingTables
  <1>2. CASE PageQuery(r)
    <2>1. call'[r] = NoCall
      BY <1>2, <1>a DEF PageQuery, Answered
    <2>2. CASE GetTableID(call[r].name) = 0
      <3>1. scan'[r] = NoScan /\ watch'[r] = NoWatch
        BY <1>2, <1>a, <2>2 DEF PageQuery, End
      <3> QED
        BY <2>1, <3>1, EmptyShapes DEF Serving, NoScan, NoCall, ListingTables
    <2>3. CASE GetTableID(call[r].name) # 0
      <3>1. PICK t, s, page : /\ t = GetTableID(call[r].name) /\ s = call[r].snap
                              /\ page = QueryPartitionsPaged(t, s, scan[r].token)
        OBVIOUS
      <3>2. scan'[r] = NextPage(scan[r], t, s, page) /\ watch'[r] = watch[r]
        BY <1>2, <1>a, <2>3, <3>1 DEF PageQuery
      <3>3. t \in TableIds /\ s \in Nat
        BY <1>a, <2>3, <3>1, GetTableIDFacts DEF CallRow
      <3>4. /\ page \subseteq FileRow
            /\ page # {} => Max({ PartitionID(f) : f \in page }) \in Nat
        BY <1>a, <3>1, PageType
      <3>5. /\ scan[r].kind = "files" /\ scan[r].name \in Names /\ scan[r].got \subseteq FileRow
        BY <1>2, <1>a DEF PageQuery, Serving
      <3>6. scan'[r] \in ScanRow
        <4>1. PICK a \in BOOLEAN, d \in BOOLEAN, k \in Nat, first \in Nat :
                  /\ a = (scan[r].again \/ scan[r].got \cap page # {})
                  /\ d = (page = {})
                  /\ k = IF page = {} THEN scan[r].token ELSE Max({ PartitionID(f) : f \in page })
                  /\ first = IF scan[r].tids = {} THEN s ELSE scan[r].first
          <5>1. (scan[r].again \/ scan[r].got \cap page # {}) \in BOOLEAN /\ (page = {}) \in BOOLEAN
            OBVIOUS
          <5>2. (IF page = {} THEN scan[r].token ELSE Max({ PartitionID(f) : f \in page })) \in Nat
            BY <1>a, <3>4 DEF ScanRow
          <5>3. (IF scan[r].tids = {} THEN s ELSE scan[r].first) \in Nat
            BY <1>a, <3>3 DEF ScanRow
          <5> QED
            BY <5>1, <5>2, <5>3
        <4>2. scan'[r] = [scan[r] EXCEPT !.got = scan[r].got \cup page, !.again = a, !.token = k,
                             !.done = d, !.tids = scan[r].tids \cup {t}, !.first = first, !.last = s]
          BY <1>a, <3>2, <4>1 DEF NextPage
        <4>3. /\ scan[r].got \cup page \in SUBSET (FileRow \cup TableIds)
              /\ scan[r].tids \cup {t} \in SUBSET TableIds
          BY <1>a, <3>3, <3>4 DEF ScanRow
        <4> QED
          BY <1>a, <3>3, <4>2, <4>3 DEF ScanRow
      <3>7. /\ scan'[r].kind = "files" /\ scan'[r].name = scan[r].name
            /\ scan'[r].got = scan[r].got \cup page
        BY <1>a, <3>2, <3>5 DEF ScanRow, NextPage
      <3> QED
        BY <1>a, <2>1, <3>2, <3>4, <3>5, <3>6, <3>7, EmptyShapes DEF Serving, NoCall, ListingTables
    <2> QED
      BY <2>2, <2>3
  <1>3. ASSUME NEW size \in {0, PageSize}, ListTables(r, size)
        PROVE  Goal
    <2>1. watch'[r] \in WatchRow
      BY <1>3, <1>a, BeginType DEF ListTables
    <2>2. PICK page : page = ListTablesRows(scan[r].token, IF size > 0 THEN size ELSE NoPageSize)
      OBVIOUS
    <2>3. page \subseteq TableIds
      BY <2>2 DEF ListTablesRows, Window, LiveTables
    <2>4. /\ scan'[r] = [scan[r] EXCEPT !.kind = "tables", !.size = size]
          /\ call'[r] = [NoCall EXCEPT !.at = "tables_next", !.rows = { Summary(t) : t \in page }]
      BY <1>3, <1>a, <2>2 DEF ListTables
    <2>5. \A t \in page : Summary(t) \in Listed /\ Summary(t).tid = t
      BY <1>a, <2>3 DEF Summary, Listed, TypeOK, TableRow
    <2>6. scan'[r] \in ScanRow
      <3>1. size \in Nat
        BY ReadsConstants
      <3> QED
        BY <1>a, <2>4, <3>1 DEF ScanRow
    <2>7. call'[r] \in CallRow
      <3>1. "tables_next" \in CallSteps
        BY DEF CallSteps, ListingTables
      <3>2. { Summary(t) : t \in page } \in SUBSET Listed
        BY <2>5
      <3> QED
        BY <2>4, <3>1, <3>2, EmptyShapes DEF CallRow
    <2>8. scan[r].name = None /\ scan[r].got \subseteq TableIds
      BY <1>3, <1>a DEF ListTables, NoScan, Serving
    <2>9. scan'[r].kind = "tables" /\ scan'[r].name = scan[r].name /\ scan'[r].got = scan[r].got
      BY <1>a, <2>4 DEF ScanRow
    <2>10. /\ call'[r].at = "tables_next" /\ call'[r].name = None
           /\ call'[r].rows = { Summary(t) : t \in page }
      BY <2>4 DEF NoCall
    <2>11. /\ call'[r].rows \subseteq Listed
           /\ \A x, y \in call'[r].rows : x.tid = y.tid => x = y
      BY <2>5, <2>10
    <2> QED
      BY <2>1, <2>6, <2>7, <2>8, <2>9, <2>10, <2>11 DEF Serving, ListingTables
  <1>4. CASE CountTable(r)
    <2>1. PICK x \in Uncounted(r) :
              call' = [call EXCEPT ![r].at = "tables_count", ![r].count = x.tid,
                                   ![r].tid = GetTableID(x.name), ![r].snap = x.current]
      BY <1>4 DEF CountTable
    <2>2. x \in Listed
      BY <1>4, <1>a, <2>1 DEF Uncounted, CountTable, Serving, ListingTables
    <2>3. /\ call'[r] = [call[r] EXCEPT !.at = "tables_count", !.count = x.tid,
                                        !.tid = GetTableID(x.name), !.snap = x.current]
          /\ scan'[r] = scan[r] /\ watch'[r] = watch[r]
      BY <1>4, <1>a, <2>1 DEF CountTable
    <2>4. x.tid \in Nat /\ x.current \in Nat
      BY <2>2 DEF Listed, TableIds, SnapIds
    <2>5. call'[r] \in CallRow
      <3>1. "tables_count" \in CallSteps
        BY DEF CallSteps, ListingTables
      <3>2. GetTableID(x.name) \in 0 .. MaxTables
        BY GetTableIDFacts
      <3> QED
        BY <1>a, <2>3, <2>4, <3>1, <3>2 DEF CallRow
    <2>6. call'[r].at = "tables_count" /\ call'[r].name = call[r].name /\ call'[r].rows = call[r].rows
      BY <1>a, <2>3 DEF CallRow
    <2> QED
      BY <1>4, <1>a, <2>3, <2>5, <2>6 DEF CountTable, Serving, ListingTables
  <1>5. CASE CountPartitions(r)
    <2>1. PICK k : k = Cardinality(Visible(call[r].tid, call[r].snap))
      OBVIOUS
    <2>2. k \in Nat
      BY <1>a, <2>1, VisibleFinite
    <2> DEFINE F(x) == IF x.tid # call[r].count THEN x ELSE [x EXCEPT !.count = k]
    <2>3. /\ call'[r] = [call[r] EXCEPT !.at = "tables_next", !.rows = { F(x) : x \in call[r].rows }]
          /\ scan'[r] = scan[r] /\ watch'[r] = watch[r]
      BY <1>5, <1>a, <2>1 DEF CountPartitions
    <2>4. call[r].rows \subseteq Listed
      BY <1>5, <1>a DEF CountPartitions, Serving, ListingTables
    <2>5. \A x \in call[r].rows : F(x) \in Listed /\ F(x).tid = x.tid
      BY <2>2, <2>4 DEF Listed
    <2>6. \A x, y \in call[r].rows : x.tid = y.tid => x = y
      BY <1>5, <1>a DEF CountPartitions, Serving, ListingTables
    <2> HIDE DEF F
    <2>7. call'[r] \in CallRow
      <3>1. "tables_next" \in CallSteps
        BY DEF CallSteps, ListingTables
      <3>2. { F(x) : x \in call[r].rows } \in SUBSET Listed
        BY <2>5
      <3> QED
        BY <1>a, <2>3, <3>1, <3>2 DEF CallRow
    <2>8. /\ call'[r].at = "tables_next" /\ call'[r].name = call[r].name
          /\ call'[r].rows = { F(x) : x \in call[r].rows }
      BY <1>a, <2>3 DEF CallRow
    <2>9. call'[r].rows \subseteq Listed /\ \A x, y \in call'[r].rows : x.tid = y.tid => x = y
      BY <2>5, <2>6, <2>8
    <2> QED
      BY <1>5, <1>a, <2>3, <2>7, <2>8, <2>9 DEF CountPartitions, Serving, ListingTables
  <1>6. CASE TablesReply(r)
    <2>1. /\ call[r].rows \subseteq Listed /\ \A x, y \in call[r].rows : x.tid = y.tid => x = y
          /\ scan[r].kind = "tables" /\ scan[r].name = None /\ scan[r].got \subseteq TableIds
      BY <1>6, <1>a DEF TablesReply, Serving, ListingTables
    <2>2. PICK k, T : k = Cardinality(call[r].rows) /\ T = { x.tid : x \in call[r].rows }
      OBVIOUS
    <2>3. k \in Nat
      BY <2>1, <2>2, ListedRows
    <2>4. T \subseteq TableIds
      BY <2>1, <2>2 DEF Listed
    <2>5. /\ scan'[r] = [scan[r] EXCEPT !.got = @ \cup T, !.again = @ \/ scan[r].got \cap T # {},
                                        !.token = @ + k,
                                        !.done = scan[r].size = 0 \/ k # scan[r].size]
          /\ call'[r] = NoCall /\ watch'[r] = watch[r]
      BY <1>6, <1>a, <2>2 DEF TablesReply, Answered
    <2>6. scan'[r] \in ScanRow
      <3>1. PICK a \in BOOLEAN, d \in BOOLEAN : /\ a = (scan[r].again \/ scan[r].got \cap T # {})
                                               /\ d = (scan[r].size = 0 \/ k # scan[r].size)
        OBVIOUS
      <3>2. scan'[r] = [scan[r] EXCEPT !.got = scan[r].got \cup T, !.again = a,
                                       !.token = scan[r].token + k, !.done = d]
        BY <2>5, <3>1
      <3>3. scan[r].token + k \in Nat /\ scan[r].got \cup T \in SUBSET (FileRow \cup TableIds)
        BY <1>a, <2>3, <2>4 DEF ScanRow
      <3> QED
        BY <1>a, <3>2, <3>3 DEF ScanRow
    <2>7. scan'[r].kind = "tables" /\ scan'[r].name = None /\ scan'[r].got = scan[r].got \cup T
      BY <1>a, <2>1, <2>5 DEF ScanRow
    <2> QED
      BY <1>a, <2>1, <2>4, <2>5, <2>6, <2>7, EmptyShapes DEF Serving, NoCall, ListingTables
  <1>7. CASE ScanEnd(r)
    <2>1. scan'[r] = NoScan /\ watch'[r] = NoWatch /\ call'[r] = NoCall
      BY <1>7, <1>a DEF ScanEnd, End, Serving
    <2> QED
      BY <2>1, EmptyShapes DEF Serving, NoScan, NoCall, ListingTables
  <1>8. ASSUME NEW at \in CallSteps \ ({"idle", "page_query"} \cup ListingTables),
               NEW n \in AskedFor, NEW t \in 0 .. MaxTables, NEW s \in Nat,
               Request(r, at, n, t, s), UNCHANGED scan
        PROVE  Goal
    <2>1. /\ call'[r] = [NoCall EXCEPT !.at = at, !.name = n, !.tid = t, !.snap = s]
          /\ scan'[r] = NoScan /\ watch'[r] \in WatchRow
      BY <1>8, <1>a, BeginType DEF Request
    <2>2. call'[r] \in CallRow
      BY <1>8, <1>a, <2>1, EmptyShapes DEF CallRow, NoCall
    <2>3. call'[r].at = at /\ call'[r].name = n
      BY <2>1 DEF NoCall
    <2> QED
      BY <1>8, <1>a, <2>1, <2>2, <2>3, EmptyShapes DEF Serving, NoScan
  <1>9. ASSUME NEW n \in AskedFor, GetPartitionStats(r, n)
        PROVE  Goal
    BY <1>8, <1>9, <1>a, GetCurrentSnapshotType, CatalogAssumption
       DEF GetPartitionStats, CallSteps, ListingTables, SnapIds
  <1>10. ASSUME NEW n \in AskedFor, NEW s \in ReadAt,
                GetColumnStatsCall(r, n, s) \/ GetSnapshot(r, n, s) \/ GetManifestList(r, n, s)
         PROVE  Goal
    <2>1. s \in Nat /\ ResolveSnapshot(n, s) \in Nat /\ 0 \in 0 .. MaxTables
      BY <1>a, ResolveType, CatalogAssumption
    <2>2. GetTableID(n) \in 0 .. MaxTables
      BY GetTableIDFacts
    <2> QED
      BY <1>8, <1>10, <2>1, <2>2
         DEF GetColumnStatsCall, GetSnapshot, GetManifestList, CallSteps, ListingTables
  <1>11. ASSUME NEW n \in AskedFor, NEW limit \in {0, Limit}, ListSnapshots(r, n, limit)
         PROVE  Goal
    <2>1. GetTableID(n) \in 0 .. MaxTables
      BY GetTableIDFacts
    <2> QED
      BY <1>8, <1>11, <2>1, ReadsConstants DEF ListSnapshots, CallSteps, ListingTables
  <1>c. ASSUME NEW c \in CallRow, call'[r] = c, c.name = call[r].name,
               call[r].at \notin {"idle", "page_query"} \cup ListingTables,
               c.at \notin {"idle", "page_query"} \cup ListingTables,
               scan'[r] = scan[r], watch'[r] = watch[r]
        PROVE  Goal
    BY <1>a, <1>c DEF Serving
  <1>d. ASSUME call'[r] = NoCall, scan'[r] = scan[r], watch'[r] \in {watch[r], NoWatch}
        PROVE  Goal
    BY <1>a, <1>d, EmptyShapes DEF Serving, NoCall, ListingTables
  <1>12. CASE StatsQuery(r)
    <2>1. PICK t, rows : t = GetTableID(call[r].name) /\ rows = IF t = 0 THEN {} ELSE Visible(t, call[r].snap)
      OBVIOUS
    <2>2. /\ call'[r] = [call[r] EXCEPT !.at = "stats_reply", !.tid = t, !.rows = rows]
          /\ scan'[r] = scan[r] /\ watch'[r] = watch[r] /\ call[r].at = "stats_query"
      BY <1>12, <1>a, <2>1 DEF StatsQuery
    <2>3. t \in 0 .. MaxTables /\ rows \subseteq FileRow
      BY <1>a, <2>1, GetTableIDFacts, VisibleFinite
    <2>4. call'[r] \in CallRow /\ call'[r].name = call[r].name /\ call'[r].at = "stats_reply"
      BY <1>a, <2>2, <2>3 DEF CallRow, CallSteps, Replies
    <2> QED
      BY <1>c, <2>2, <2>4 DEF ListingTables
  <1>13. CASE ColumnsTable(r)
    <2>1. CASE GetTableID(call[r].name) = 0
      BY <1>13, <1>a, <1>d, <2>1 DEF ColumnsTable, Answered, End
    <2>2. CASE GetTableID(call[r].name) # 0
      <3>1. PICK t \in 0 .. MaxTables : t = GetTableID(call[r].name)
        BY GetTableIDFacts
      <3>2. /\ call'[r] = [call[r] EXCEPT !.at = "columns_query", !.tid = t]
            /\ scan'[r] = scan[r] /\ watch'[r] = watch[r] /\ call[r].at = "columns_table"
        BY <1>13, <1>a, <2>2, <3>1 DEF ColumnsTable
      <3>3. call'[r] \in CallRow /\ call'[r].name = call[r].name /\ call'[r].at = "columns_query"
        BY <1>a, <3>2 DEF CallRow, CallSteps
      <3> QED
        BY <1>c, <3>2, <3>3 DEF ListingTables
    <2> QED
      BY <2>1, <2>2
  <1>14. ASSUME NEW from \in CallSteps \ ({"idle", "page_query"} \cup ListingTables),
                NEW to \in CallSteps \ ({"idle", "page_query"} \cup ListingTables),
                NEW rows \in SUBSET (FileRow \cup SnapshotRow \cup Listed \cup ManifestRow),
                ReadRows(r, from, to, rows)
         PROVE  Goal
    <2>1. /\ call'[r] = [call[r] EXCEPT !.at = to, !.rows = rows]
          /\ scan'[r] = scan[r] /\ watch'[r] = watch[r] /\ call[r].at = from
      BY <1>14, <1>a DEF ReadRows
    <2>2. call'[r] \in CallRow /\ call'[r].name = call[r].name /\ call'[r].at = to
      BY <1>14, <1>a, <2>1 DEF CallRow
    <2> QED
      BY <1>c, <1>14, <2>1, <2>2
  <1>e. /\ snapshots \subseteq SnapshotRow
        /\ \A t : SnapshotsOf(t) \subseteq SnapshotRow
    BY <1>a DEF TypeOK, SnapshotsOf
  <1>15. CASE ColumnsQuery(r) \/ SnapshotQuery(r) \/ HistoryQuery(r)
    <2>1. Visible(call[r].tid, call[r].snap) \subseteq FileRow
      BY <1>a, VisibleFinite
    <2>2. ListSnapshotRows(call[r].tid, call[r].snap) \subseteq SnapshotRow
      BY <1>e DEF ListSnapshotRows, Window
    <2>3. { s \in SnapshotsOf(call[r].tid) : s.id = call[r].snap } \subseteq SnapshotRow
      BY <1>e
    <2> QED
      BY <1>14, <1>15, <2>1, <2>2, <2>3
         DEF ColumnsQuery, SnapshotQuery, HistoryQuery, CallSteps, Replies, ListingTables
  <1>16. CASE ManifestFilesQuery(r)
    <2>1. ManifestFiles(call[r].snap) \subseteq ManifestRow
      BY <1>e DEF ManifestFiles, ManifestRow, SnapshotRow
    <2> QED
      BY <1>14, <1>16, <2>1 DEF ManifestFilesQuery, CallSteps, Replies, ListingTables
  <1>17. CASE ManifestListQuery(r)
    <2> DEFINE found == { s \in SnapshotsOf(call[r].tid) : s.id = call[r].snap }
    <2>1. CASE found = {}
      BY <1>17, <1>a, <1>d, <2>1 DEF ManifestListQuery, Answered, End
    <2>2. CASE found # {}
      <3>1. PICK s \in found :
                call' = [call EXCEPT ![r].at = "manifests_files", ![r].count = Cardinality(s.manifests)]
        BY <1>17, <2>2 DEF ManifestListQuery
      <3>2. PICK k : k = Cardinality(s.manifests)
        OBVIOUS
      <3>3. k \in Nat
        BY <3>1, <3>2, ManifestsFinite DEF SnapshotsOf, BasicInv
      <3>4. /\ call'[r] = [call[r] EXCEPT !.at = "manifests_files", !.count = k]
            /\ scan'[r] = scan[r] /\ watch'[r] = watch[r] /\ call[r].at = "manifests_list"
        BY <1>17, <1>a, <2>2, <3>1, <3>2 DEF ManifestListQuery
      <3>5. call'[r] \in CallRow /\ call'[r].name = call[r].name /\ call'[r].at = "manifests_files"
        BY <1>a, <3>3, <3>4 DEF CallRow, CallSteps
      <3> QED
        BY <1>c, <3>4, <3>5 DEF ListingTables
    <2> QED
      BY <2>1, <2>2
  <1>18. CASE GetManifest(r)
    <2>1. PICK m \in call[r].rows :
              call' = [call EXCEPT ![r].at = "manifest_reply",
                                   ![r].rows = GetManifestFile(call[r].name, m)]
      BY <1>18 DEF GetManifest
    <2>2. PICK rows : rows = GetManifestFile(call[r].name, m)
      OBVIOUS
    <2>3. /\ call'[r] = [call[r] EXCEPT !.at = "manifest_reply", !.rows = rows]
          /\ scan'[r] = scan[r] /\ watch'[r] = watch[r] /\ call[r].at = "manifests_reply"
      BY <1>18, <1>a, <2>1, <2>2 DEF GetManifest
    <2>4. rows \subseteq {m} /\ rows \subseteq call[r].rows
      BY <2>1, <2>2 DEF GetManifestFile
    <2>5. call'[r] \in CallRow /\ call'[r].name = call[r].name /\ call'[r].at = "manifest_reply"
      BY <1>a, <2>3, <2>4 DEF CallRow, CallSteps, Replies
    <2> QED
      BY <1>c, <2>3, <2>5 DEF ListingTables
  <1>19. CASE Reply(r)
    BY <1>19, <1>a, <1>d DEF Reply, Answered, End
  <1>20. CASE ReadFail(r)
    BY <1>20, <1>a, <1>d DEF ReadFail, Answered, End
  <1> HIDE DEF Goal
  <1> QED
    BY <1>1, <1>2, <1>3, <1>4, <1>5, <1>6, <1>7, <1>9, <1>10, <1>11, <1>12, <1>13,
       <1>15, <1>16, <1>17, <1>18, <1>19, <1>20 DEF Read

\* A reader takes the lock when it begins to serve a request that needs one
\* and gives it back on every way out.
LEMMA ReaderHolds ==
    ASSUME BasicInv, NEW r \in Readers, Read(r), NEW n \in Names
    PROVE  r \in slock'[n] <=> call'[r].at \in Holding /\ call'[r].name = n
  <1> DEFINE Goal == r \in slock'[n] <=> call'[r].at \in Holding /\ call'[r].name = n
  <1>a. /\ slock \in [Names -> SUBSET Procs] /\ r \in Procs /\ AskedFor \subseteq Names
        /\ call \in [Readers -> CallRow] /\ call[r] \in CallRow
        /\ r \in slock[n] <=> call[r].at \in Holding /\ call[r].name = n
        /\ Serving(r)
    BY ReadsConstants DEF BasicInv, IInv, TypeOK, ShapeInv, HoldingInv
  <1>1. ASSUME slock' = slock, call[r].at \notin Holding, call'[r].at \notin Holding
        PROVE  Goal
    BY <1>a, <1>1
  <1>2. ASSUME NEW m \in AskedFor, NEW s \in ReadAt, GetPartitionsPaged(r, m, s)
        PROVE  Goal
    BY <1>2, <1>a DEF GetPartitionsPaged, RLock, NoCall, Holding
  <1>3. ASSUME NEW m \in AskedFor, GetPartitionStats(r, m)
        PROVE  Goal
    BY <1>3, <1>a DEF GetPartitionStats, Request, RLock, NoCall, Holding
  <1>4. CASE PageQuery(r)
    <2>1. call[r].name \in Names
      BY <1>4, <1>a DEF PageQuery, Serving, ListingTables
    <2> QED
      BY <1>4, <1>a, <2>1 DEF PageQuery, RUnlock, Answered, NoCall, Holding
  <1>5. CASE StatsQuery(r)
    <2>1. call[r].name \in Names
      BY <1>5, <1>a DEF StatsQuery, Serving, ListingTables
    <2>2. call'[r].at = "stats_reply"
      BY <1>5, <1>a DEF StatsQuery, CallRow
    <2> QED
      BY <1>5, <1>a, <2>1, <2>2 DEF StatsQuery, RUnlock, Holding
  <1>6. CASE ReadFail(r)
    BY <1>6, <1>a DEF ReadFail, Answered, NoCall, Holding
  <1>7. ASSUME NEW size \in {0, PageSize}, ListTables(r, size)
        PROVE  Goal
    BY <1>1, <1>7, <1>a DEF ListTables, NoCall, Holding, catalogVars, vars
  <1>8. CASE CountTable(r) \/ CountPartitions(r)
    <2>1. call'[r].at \in ListingTables
      <3>1. CASE CountTable(r)
        BY <3>1, <1>a DEF CountTable, CallRow, ListingTables
      <3>2. CASE CountPartitions(r)
        BY <3>2, <1>a DEF CountPartitions, CallRow, ListingTables
      <3> QED
        BY <1>8, <3>1, <3>2
    <2> QED
      BY <1>1, <1>8, <2>1 DEF CountTable, CountPartitions, Holding, ListingTables, catalogVars, vars
  <1>9. CASE TablesReply(r) \/ ScanEnd(r) \/ Reply(r)
    <2>1. call'[r].at = "idle" /\ call[r].at \notin Holding
      <3>1. CASE TablesReply(r)
        BY <3>1, <1>a DEF TablesReply, Answered, NoCall, Holding
      <3>2. CASE ScanEnd(r)
        BY <3>2, <1>a DEF ScanEnd, Holding
      <3>3. CASE Reply(r)
        BY <3>3, <1>a DEF Reply, Answered, NoCall, Holding, Replies
      <3> QED
        BY <1>9, <3>1, <3>2, <3>3
    <2> QED
      BY <1>1, <1>9, <2>1 DEF TablesReply, ScanEnd, Reply, Holding, catalogVars, vars
  <1>10. ASSUME NEW at, NEW m, NEW t, NEW s, Request(r, at, m, t, s), at \notin Holding, slock' = slock
         PROVE  Goal
    BY <1>1, <1>10, <1>a DEF Request, NoCall, Holding
  <1>11. ASSUME NEW m \in AskedFor, NEW s \in ReadAt,
                GetColumnStatsCall(r, m, s) \/ GetSnapshot(r, m, s) \/ GetManifestList(r, m, s)
         PROVE  Goal
    BY <1>10, <1>11 DEF GetColumnStatsCall, GetSnapshot, GetManifestList, Holding, catalogVars, vars
  <1>12. ASSUME NEW m \in AskedFor, NEW limit \in {0, Limit}, ListSnapshots(r, m, limit)
         PROVE  Goal
    BY <1>10, <1>12 DEF ListSnapshots, Holding, catalogVars, vars
  <1>13. CASE ColumnsTable(r)
    <2>1. call'[r].at \in {"idle", "columns_query"} /\ call[r].at = "columns_table"
      BY <1>13, <1>a DEF ColumnsTable, Answered, NoCall, CallRow
    <2> QED
      BY <1>1, <1>13, <2>1 DEF ColumnsTable, Holding, catalogVars, vars
  <1>14. ASSUME NEW from, NEW to, NEW rows, ReadRows(r, from, to, rows),
                from \notin Holding, to \notin Holding
         PROVE  Goal
    <2>1. call'[r].at = to /\ call[r].at = from
      BY <1>14, <1>a DEF ReadRows, CallRow
    <2> QED
      BY <1>1, <1>14, <2>1 DEF ReadRows, catalogVars, vars
  <1>15. CASE ColumnsQuery(r) \/ SnapshotQuery(r) \/ HistoryQuery(r) \/ ManifestFilesQuery(r)
    BY <1>14, <1>15 DEF ColumnsQuery, SnapshotQuery, HistoryQuery, ManifestFilesQuery, Holding
  <1>16. CASE ManifestListQuery(r)
    <2>1. call'[r].at \in {"idle", "manifests_files"} /\ call[r].at = "manifests_list"
      BY <1>16, <1>a DEF ManifestListQuery, Answered, NoCall, CallRow
    <2> QED
      BY <1>1, <1>16, <2>1 DEF ManifestListQuery, Holding, catalogVars, vars
  <1>17. CASE GetManifest(r)
    <2>1. call'[r].at = "manifest_reply" /\ call[r].at = "manifests_reply"
      BY <1>17, <1>a DEF GetManifest, CallRow
    <2> QED
      BY <1>1, <1>17, <2>1 DEF GetManifest, Holding, catalogVars, vars
  <1> QED
    BY <1>2, <1>3, <1>4, <1>5, <1>6, <1>7, <1>8, <1>9, <1>11, <1>12, <1>13, <1>15,
       <1>16, <1>17 DEF Read

\* A step that changes no variable of the catalog but the shared locks keeps
\* what is known of the catalog.
LEMMA CatalogFrame ==
    ASSUME IInv, LinearInv, DbInv,
           UNCHANGED <<tables, snapshots, partitions, limbo, snapSeq, xlock, cache, op>>
    PROVE  /\ TypeOK' <=> slock' \in [Names -> SUBSET Procs]
           /\ NameInv' /\ CommitInv' /\ LinearInv' /\ DbInv'
  <1>1. TypeOK' <=> slock' \in [Names -> SUBSET Procs]
    BY DEF IInv, TypeOK
  <1>2. NameInv'
    BY DEF IInv, NameInv
  <1>3. CommitInv'
    BY DEF IInv, CommitInv, IsLive
  <1>4. LinearInv'
    BY DEF LinearInv, BaseInv, LinearHistory, SnapshotsOf, GetCurrentSnapshot, GetTableID, IsLive
  <1>5. DbInv'
    BY DEF DbInv, Manifests
  <1> QED
    BY <1>1, <1>2, <1>3, <1>4, <1>5

\* Every step keeps all that.
LEMMA BasicStep ==
    ASSUME BasicInv, [ReadsNext]_<<vars, readVars>>
    PROVE  BasicInv'
  <1>a. /\ IInv /\ LinearInv /\ DbInv /\ ShapeInv /\ HoldingInv /\ Readers \subseteq Procs
        /\ limbo = {}
    BY ReadsConstants DEF BasicInv, LinearInv, BaseInv
  <1>b. ASSUME [Next]_vars, limbo' = {}
        PROVE  IInv' /\ LinearInv' /\ DbInv'
    BY <1>a, <1>b, TypeStep, LockStep, NameStep, CommitStep, BaseStep, LinearStep, DbStep
       DEF IInv, LinearInv
  <1>1. ASSUME NEW p \in Writers, Write(p), Watch, UNCHANGED <<scan, call>>
        PROVE  BasicInv'
    <2>1. Next /\ slock' = slock /\ limbo' = {} /\ \A r \in Readers : op'[r] = op[r]
      BY <1>1, <1>a, WriteStep
    <2>2. watch' \in [Readers -> WatchRow]
      <3>1. ASSUME NEW r \in Readers
            PROVE  watch'[r] \in WatchRow
        <4>1. watch[r] \in WatchRow
          BY <1>a DEF ShapeInv
        <4>2. PICK k \in SUBSET TableIds, l \in BOOLEAN :
                  watch'[r] = [watch[r] EXCEPT !.kept = k, !.lost = l]
          <5>1. PICK k, l : /\ k = { t \in watch[r].kept : tables'[t].state = "live"
                                                          /\ tables'[t].name = tables[t].name }
                            /\ l = (\/ watch[r].lost
                                    \/ /\ scan[r].kind = "tables"
                                       /\ \E t \in LiveTables : tables'[t].state # "live")
            OBVIOUS
          <5>2. watch'[r] = [watch[r] EXCEPT !.kept = k, !.lost = l]
            BY <1>1, <5>1 DEF Watch
          <5>3. k \in SUBSET TableIds /\ l \in BOOLEAN
            BY <4>1, <5>1 DEF WatchRow
          <5> QED
            BY <5>2, <5>3
        <4> QED
          BY <4>1, <4>2 DEF WatchRow
      <3>2. watch' = [r \in Readers |-> watch'[r]]
        BY <1>1 DEF Watch
      <3> QED
        BY <3>1, <3>2
    <2>3. ShapeInv'
      BY <1>1, <1>a, <2>1, <2>2 DEF ShapeInv, Serving
    <2>4. HoldingInv'
      BY <1>1, <1>a, <2>1 DEF HoldingInv
    <2> QED
      BY <1>b, <2>1, <2>3, <2>4 DEF BasicInv
  <1>2. ASSUME NEW r \in Readers, Read(r)
        PROVE  BasicInv'
    <2>1. /\ UNCHANGED <<tables, snapshots, partitions, limbo, snapSeq, xlock, cache, op>>
          /\ \A q \in Readers \ {r} :
                scan'[q] = scan[q] /\ call'[q] = call[q] /\ watch'[q] = watch[q]
          /\ scan' = [q \in Readers |-> scan'[q]] /\ call' = [q \in Readers |-> call'[q]]
          /\ watch' = [q \in Readers |-> watch'[q]]
          /\ slock' \in [Names -> SUBSET Procs]
          /\ \A n \in Names : /\ \A q \in Procs \ {r} : q \in slock'[n] <=> q \in slock[n]
                              /\ r \in slock'[n] => r \in slock[n] \/ xlock[n] = None
      BY <1>2, <1>a, ReadFrame
    <2>2. TypeOK' /\ NameInv' /\ CommitInv' /\ LinearInv' /\ DbInv'
      BY <1>a, <2>1, CatalogFrame
    <2>3. LockInv'
      <3>1. op[r].at = "idle" /\ xlock' = xlock /\ op' = op
        BY <1>2, <1>a, <2>1 DEF ShapeInv, Idle
      <3>2. \A p \in Procs : op[p].at \in Reading => op[p].name \in Names /\ p \in slock'[op[p].name]
        BY <1>2, <1>a, <2>1, <3>1 DEF IInv, LockInv, Reading
      <3>3. ASSUME NEW n \in Names, xlock[n] # None
            PROVE  slock'[n] = {}
        <4>1. slock[n] = {} /\ slock'[n] \subseteq Procs
          BY <1>a, <2>1, <3>3 DEF IInv, LockInv
        <4> QED
          BY <2>1, <3>3, <4>1
      <3> QED
        BY <1>a, <3>1, <3>2, <3>3 DEF IInv, LockInv
    <2>4. ShapeInv'
      <3>1. /\ scan'[r] \in ScanRow /\ call'[r] \in CallRow /\ watch'[r] \in WatchRow
            /\ Serving(r)'
        BY <1>2, ReaderShape
      <3>2. ASSUME NEW q \in Readers \ {r}
            PROVE  /\ scan'[q] \in ScanRow /\ call'[q] \in CallRow /\ watch'[q] \in WatchRow
                   /\ Serving(q)'
        BY <1>a, <2>1, <3>2 DEF ShapeInv, Serving
      <3>3. \A q \in Readers : op'[q] = Idle
        BY <1>a, <2>1 DEF ShapeInv
      <3>4. /\ scan' \in [Readers -> ScanRow] /\ call' \in [Readers -> CallRow]
            /\ watch' \in [Readers -> WatchRow]
        BY <2>1, <3>1, <3>2
      <3> QED
        BY <3>1, <3>2, <3>3, <3>4 DEF ShapeInv
    <2>5. HoldingInv'
      <3>1. ASSUME NEW q \in Readers, NEW n \in Names
            PROVE  q \in slock'[n] <=> call'[q].at \in Holding /\ call'[q].name = n
        <4>1. CASE q = r
          BY <1>2, <4>1, ReaderHolds
        <4>2. CASE q # r
          BY <1>a, <2>1, <4>2 DEF HoldingInv
        <4> QED
          BY <4>1, <4>2
      <3> QED
        BY <3>1 DEF HoldingInv
    <2> QED
      BY <2>2, <2>3, <2>4, <2>5 DEF BasicInv, IInv
  <1>3. CASE ReadRestart
    <2>1. Next /\ limbo' = {}
      BY <1>3, <1>a DEF ReadRestart, Next, Restart, db
    <2>2. ShapeInv'
      <3>1. /\ call' = [r \in Readers |-> NoCall] /\ scan' = scan
            /\ watch' = [r \in Readers |-> IF scan[r] = NoScan THEN NoWatch ELSE watch[r]]
            /\ \A r \in Readers : op'[r] = Idle
        BY <1>3, <1>a DEF ReadRestart, Restart
      <3>2. \A r \in Readers : Serving(r)'
        BY <1>a, <3>1 DEF ShapeInv, Serving, NoCall, ListingTables
      <3> QED
        BY <1>a, <3>1, <3>2, EmptyShapes DEF ShapeInv
    <2>3. HoldingInv'
      BY <1>3 DEF ReadRestart, Restart, HoldingInv, Holding, NoCall
    <2> QED
      BY <1>b, <2>1, <2>2, <2>3 DEF BasicInv
  <1>4. CASE UNCHANGED <<vars, readVars>>
    <2>1. UNCHANGED vars /\ slock' = slock /\ limbo' = {} /\ op' = op
          /\ scan' = scan /\ call' = call /\ watch' = watch
      BY <1>4, <1>a DEF vars, readVars
    <2>2. ShapeInv' /\ HoldingInv'
      BY <1>a, <2>1 DEF ShapeInv, Serving, HoldingInv
    <2> QED
      BY <1>b, <2>1, <2>2 DEF BasicInv
  <1> QED
    BY <1>1, <1>2, <1>3, <1>4 DEF ReadsNext

\* The catalog keeps its invariants with the readers next to it, and they keep
\* their shapes and their locks.
THEOREM ReadsInductive == ReadsSpec => []BasicInv
  <1>1. ReadsInit => BasicInv
    <2> SUFFICES ASSUME ReadsInit PROVE BasicInv
      OBVIOUS
    <2>1. TypeOK
      BY CatalogAssumption DEF ReadsInit, Init, TypeOK, NoTable, TableRow, Idle, Op, Steps, SnapIds
    <2>2. LockInv
      BY DEF ReadsInit, Init, LockInv, Idle, Committing, Renaming, Reading
    <2>3. NameInv /\ CommitInv
      BY DEF ReadsInit, Init, NameInv, CommitInv, NoTable, Idle
    <2>4. LinearInv
      BY DEF ReadsInit, Init, LinearInv, BaseInv, LinearHistory, SnapshotsOf, NoTable, Idle
    <2>5. DbInv
      BY FS_EmptySet DEF ReadsInit, Init, DbInv, Idle
    <2>6. \A r \in Readers : op[r] = Idle
      BY ReadsConstants DEF ReadsInit, Init
    <2>7. ShapeInv
      BY <2>6, EmptyShapes
         DEF ReadsInit, ShapeInv, Serving, NoScan, NoCall, ListingTables
    <2>8. HoldingInv
      BY DEF ReadsInit, Init, HoldingInv, Holding, NoCall
    <2> QED
      BY <2>1, <2>2, <2>3, <2>4, <2>5, <2>7, <2>8 DEF BasicInv, IInv
  <1>2. BasicInv /\ [ReadsNext]_<<vars, readVars>> => BasicInv'
    BY BasicStep
  <1> QED
    BY <1>1, <1>2, PTL DEF ReadsSpec

\* Listings and requests have their shapes, and a reader holds a shared lock
\* exactly while it serves a request that takes one.
THEOREM ReadsTypeCorrect == ReadsSpec => []ReadsTypeOK
  <1>1. BasicInv => ReadsTypeOK
    <2> SUFFICES ASSUME BasicInv, NEW r \in Readers
                 PROVE  /\ scan[r].got \subseteq IF scan[r].kind = "tables" THEN TableIds ELSE FileRow
                        /\ scan[r].token \in Nat
                        /\ call[r].snap \in Nat /\ call[r].tid \in 0 .. MaxTables
                        /\ Kept(r) \subseteq TableIds
                        /\ { n \in Names : r \in slock[n] } =
                              IF call[r].at \in {"page_query", "stats_query"}
                              THEN {call[r].name} ELSE {}
      BY DEF ReadsTypeOK
    <2>1. scan[r] \in ScanRow /\ call[r] \in CallRow /\ watch[r] \in WatchRow /\ Serving(r)
      BY DEF BasicInv, ShapeInv
    <2>2. scan[r].got \subseteq IF scan[r].kind = "tables" THEN TableIds ELSE FileRow
      BY <2>1 DEF Serving, ScanRow, NoScan
    <2>3. /\ scan[r].token \in Nat /\ call[r].snap \in Nat /\ call[r].tid \in 0 .. MaxTables
          /\ Kept(r) \subseteq TableIds
      BY <2>1 DEF ScanRow, CallRow, WatchRow, Kept
    <2>4. \A n \in Names : r \in slock[n] <=> call[r].at \in Holding /\ call[r].name = n
      BY DEF BasicInv, HoldingInv
    <2>5. call[r].at \in Holding => call[r].name \in Names
      BY <2>1 DEF Serving, Holding, ListingTables
    <2> QED
      BY <2>2, <2>3, <2>4, <2>5 DEF Holding
  <1> QED
    BY <1>1, ReadsInductive, PTL

-----------------------------------------------------------------------------
(* Steps, as one reader sees them *)

\* A table that has been live under one name since the reader began is the one
\* that its request is about, and the snapshot that was current then is still
\* there.
KeptInv(r) ==
    \A t \in Kept(r) :
        /\ tables[t].state = "live"
        /\ call[r].name # None => tables[t].name = call[r].name
        /\ scan[r].name # None => tables[t].name = scan[r].name
        /\ watch[r].head <= tables[t].current
        /\ watch[r].head # 0 => \E s \in SnapshotsOf(t) : s.id = watch[r].head

\* What a reader may rely on while others are at work.
Calm(r) ==
    \A t \in Kept(r)' :
        /\ t \in Kept(r) /\ watch'[r].head = watch[r].head
        /\ tables'[t].state = tables[t].state /\ tables'[t].name = tables[t].name
        /\ tables[t].current <= tables'[t].current
        /\ \A s \in 0 .. tables[t].current : Visible(t, s)' = Visible(t, s)
        /\ SnapshotsOf(t) \subseteq SnapshotsOf(t)'

\* A table that stays live only gains snapshots.
LEMMA LiveGrows ==
    ASSUME IInv, LinearInv, DbInv, [Next]_vars, NEW t \in TableIds,
           tables[t].state = "live", tables'[t].state = "live"
    PROVE  tables[t].current <= tables'[t].current /\ SnapshotsOf(t) \subseteq SnapshotsOf(t)'
  <1> DEFINE Goal == tables[t].current <= tables'[t].current /\ SnapshotsOf(t) \subseteq SnapshotsOf(t)'
  <1>a. /\ tables \in [TableIds -> TableRow] /\ tables[t].current \in Nat /\ limbo = {}
    BY DEF IInv, TypeOK, TableRow, SnapIds, LinearInv, BaseInv
  <1>1. CASE UNCHANGED <<tables, snapshots, partitions>>
    BY <1>1, <1>a DEF SnapshotsOf
  <1>2. ASSUME NEW p \in Procs, NEW n \in Names, CreateTable(p, n)
        PROVE  Goal
    BY <1>2, <1>a DEF CreateTable, SnapshotsOf
  <1>3. ASSUME NEW p \in Procs, NEW n \in Names, DropTable(p, n)
        PROVE  Goal
    <2>1. PICK d \in TableIds : SoftDelete(d) \/ Purge(d)
      BY <1>3, GetTableIDFacts DEF DropTable
    <2>2. d # t /\ tables'[t] = tables[t]
      BY <1>a, <2>1 DEF SoftDelete, Purge, NoTable, TableRow
    <2> QED
      BY <1>a, <2>1, <2>2 DEF SoftDelete, Purge, SnapshotsOf
  <1>4. ASSUME NEW p \in Procs, RenameExec(p)
        PROVE  Goal
    BY <1>4, <1>a DEF RenameExec, SnapshotsOf, TableRow
  <1>5. ASSUME NEW p \in Procs, NEW add \in SUBSET Keys, NEW del \in SUBSET Keys,
               CommitTx(p, add, del)
        PROVE  Goal
    <2>1. PICK w \in SnapshotRow : Apply(w) /\ w.id > tables[w.table].current
      BY <1>5, CommitRows
    <2>2. tables'[t].current = tables[t].current \/ (w.table = t /\ tables'[t].current = w.id)
      BY <1>a, <2>1 DEF Apply, TableRow
    <2>3. w.id \in Nat
      BY DEF SnapshotRow, SnapIds
    <2> QED
      BY <1>a, <2>1, <2>2, <2>3 DEF Apply, SnapshotsOf
  <1> QED
    BY <1>1, <1>2, <1>3, <1>4, <1>5, <1>a, WritingSteps

\* A step is calm for a reader, and leaves it alone or ends its request, or it
\* is a step of the reader.
LEMMA OthersCalm ==
    ASSUME BasicInv, [ReadsNext]_<<vars, readVars>>, NEW r \in Readers, KeptInv(r)
    PROVE  \/ /\ Calm(r) /\ scan'[r] = scan[r]
              /\ call'[r] = call[r] \/ call'[r] = NoCall
           \/ Read(r) /\ UNCHANGED <<tables, snapshots, partitions>>
  <1> DEFINE Goal == \/ /\ Calm(r) /\ scan'[r] = scan[r]
                        /\ call'[r] = call[r] \/ call'[r] = NoCall
                     \/ Read(r) /\ UNCHANGED <<tables, snapshots, partitions>>
  <1> SUFFICES Goal
    OBVIOUS
  <1>a. /\ IInv /\ LinearInv /\ DbInv /\ ShapeInv
        /\ watch[r] \in WatchRow /\ Kept(r) \subseteq TableIds /\ watch[r].head \in Nat
        /\ \A t \in TableIds : tables[t].current \in Nat
    BY DEF BasicInv, ShapeInv, WatchRow, Kept, SnapIds, IInv, TypeOK, TableRow
  <1>1. ASSUME NEW p \in Writers, Write(p), Watch, UNCHANGED <<scan, call>>
        PROVE  Goal
    <2>1. Next
      BY <1>1, <1>a, WriteStep
    <2>2. ASSUME NEW t \in Kept(r)'
          PROVE  /\ t \in Kept(r) /\ watch'[r].head = watch[r].head
                 /\ tables'[t].state = "live" /\ tables'[t].name = tables[t].name
      BY <1>1, <1>a, <2>2 DEF Watch, Kept, WatchRow
    <2>3. ASSUME NEW t \in Kept(r)'
          PROVE  /\ tables'[t].state = tables[t].state
                 /\ tables[t].current <= tables'[t].current
                 /\ \A s \in 0 .. tables[t].current : Visible(t, s)' = Visible(t, s)
                 /\ SnapshotsOf(t) \subseteq SnapshotsOf(t)'
      <3>1. t \in TableIds /\ tables[t].state = "live" /\ tables'[t].state = "live"
        BY <1>a, <2>2, <2>3 DEF KeptInv
      <3> QED
        BY <1>a, <2>1, <3>1, LiveGrows, KeepStep
    <2> QED
      BY <1>1, <2>2, <2>3 DEF Calm
  <1>b. ASSUME UNCHANGED <<tables, snapshots, partitions>>,
               Kept(r)' \subseteq Kept(r), Kept(r)' # {} => watch'[r].head = watch[r].head
        PROVE  Calm(r)
    <2>1. \A t, s : Visible(t, s)' = Visible(t, s) /\ SnapshotsOf(t)' = SnapshotsOf(t)
      BY <1>b DEF Visible, VisibleAt, SnapshotsOf
    <2> QED
      BY <1>a, <1>b, <2>1 DEF Calm
  <1>2. ASSUME NEW q \in Readers, Read(q)
        PROVE  Goal
    <2>1. /\ UNCHANGED <<tables, snapshots, partitions>>
          /\ q # r => scan'[r] = scan[r] /\ call'[r] = call[r] /\ watch'[r] = watch[r]
      BY <1>2, <1>a, ReadFrame
    <2> QED
      BY <1>2, <1>b, <2>1 DEF Kept
  <1>3. CASE ReadRestart
    <2>1. /\ UNCHANGED <<tables, snapshots, partitions>> /\ scan' = scan /\ call'[r] = NoCall
          /\ watch'[r] = NoWatch \/ watch'[r] = watch[r]
      BY <1>3 DEF ReadRestart, Restart, db
    <2> QED
      BY <1>b, <2>1 DEF Kept, NoWatch
  <1>4. CASE UNCHANGED <<vars, readVars>>
    BY <1>4, <1>b DEF vars, readVars, Kept
  <1> HIDE DEF Goal
  <1> QED
    BY <1>1, <1>2, <1>3, <1>4 DEF ReadsNext

\* The step of a reader that leads to each of its program points.
LEMMA ReadInto ==
    ASSUME BasicInv, NEW r \in Readers, Read(r)
    PROVE  LET at == call'[r].at
           IN  /\ at = "page_query" =>
                     \E n \in AskedFor, s \in ReadAt : GetPartitionsPaged(r, n, s)
               /\ at = "tables_next" =>
                     (\E size \in {0, PageSize} : ListTables(r, size)) \/ CountPartitions(r)
               /\ at = "tables_count" => CountTable(r)
               /\ at = "stats_query" => \E n \in AskedFor : GetPartitionStats(r, n)
               /\ at = "stats_reply" => StatsQuery(r)
               /\ at = "columns_table" =>
                     \E n \in AskedFor, s \in ReadAt : GetColumnStatsCall(r, n, s)
               /\ at = "columns_query" => ColumnsTable(r)
               /\ at = "columns_reply" => ColumnsQuery(r)
               /\ at = "snapshot_query" =>
                     \E n \in AskedFor, s \in ReadAt : GetSnapshot(r, n, s)
               /\ at = "snapshot_reply" => SnapshotQuery(r)
               /\ at = "history_query" =>
                     \E n \in AskedFor, limit \in {0, Limit} : ListSnapshots(r, n, limit)
               /\ at = "history_reply" => HistoryQuery(r)
               /\ at = "manifests_list" =>
                     \E n \in AskedFor, s \in ReadAt : GetManifestList(r, n, s)
               /\ at = "manifests_files" => ManifestListQuery(r)
               /\ at = "manifests_reply" => ManifestFilesQuery(r)
               /\ at = "manifest_reply" => GetManifest(r)
  <1>a. /\ call \in [Readers -> CallRow] /\ call[r] \in CallRow /\ Serving(r)
    BY DEF BasicInv, ShapeInv
  <1>b. PICK at : at = call'[r].at
    OBVIOUS
  <1>1. ASSUME NEW n, NEW s, GetPartitionsPaged(r, n, s) PROVE at = "page_query"
    BY <1>1, <1>a, <1>b DEF GetPartitionsPaged, NoCall
  <1>2. ASSUME NEW size, ListTables(r, size) PROVE at = "tables_next"
    BY <1>2, <1>a, <1>b DEF ListTables, NoCall
  <1>3. ASSUME CountPartitions(r) PROVE at = "tables_next"
    BY <1>3, <1>a, <1>b DEF CountPartitions, CallRow
  <1>4. ASSUME CountTable(r) PROVE at = "tables_count"
    BY <1>4, <1>a, <1>b DEF CountTable, CallRow
  <1>5. ASSUME NEW n, GetPartitionStats(r, n) PROVE at = "stats_query"
    BY <1>5, <1>a, <1>b DEF GetPartitionStats, Request, NoCall
  <1>6. ASSUME StatsQuery(r) PROVE at = "stats_reply"
    BY <1>6, <1>a, <1>b DEF StatsQuery, CallRow
  <1>7. ASSUME NEW n, NEW s, GetColumnStatsCall(r, n, s) PROVE at = "columns_table"
    BY <1>7, <1>a, <1>b DEF GetColumnStatsCall, Request, NoCall
  <1>8. ASSUME ColumnsTable(r) PROVE at \in {"idle", "columns_query"}
    BY <1>8, <1>a, <1>b DEF ColumnsTable, Answered, NoCall, CallRow
  <1>9. ASSUME NEW n, NEW s, GetSnapshot(r, n, s) PROVE at = "snapshot_query"
    BY <1>9, <1>a, <1>b DEF GetSnapshot, Request, NoCall
  <1>10. ASSUME NEW n, NEW limit, ListSnapshots(r, n, limit) PROVE at = "history_query"
    BY <1>10, <1>a, <1>b DEF ListSnapshots, Request, NoCall
  <1>11. ASSUME NEW n, NEW s, GetManifestList(r, n, s) PROVE at = "manifests_list"
    BY <1>11, <1>a, <1>b DEF GetManifestList, Request, NoCall
  <1>12. ASSUME ManifestListQuery(r) PROVE at \in {"idle", "manifests_files"}
    BY <1>12, <1>a, <1>b DEF ManifestListQuery, Answered, NoCall, CallRow
  <1>13. ASSUME NEW from, NEW to, NEW rows, ReadRows(r, from, to, rows) PROVE at = to
    BY <1>13, <1>a, <1>b DEF ReadRows, CallRow
  <1>14. /\ ColumnsQuery(r) => at = "columns_reply"
         /\ SnapshotQuery(r) => at = "snapshot_reply"
         /\ HistoryQuery(r) => at = "history_reply"
         /\ ManifestFilesQuery(r) => at = "manifests_reply"
    BY <1>13 DEF ColumnsQuery, SnapshotQuery, HistoryQuery, ManifestFilesQuery
  <1>15. ASSUME GetManifest(r) PROVE at = "manifest_reply"
    BY <1>15, <1>a, <1>b DEF GetManifest, CallRow
  <1>16. ASSUME PageQuery(r) \/ TablesReply(r) \/ Reply(r) \/ ReadFail(r) PROVE at = "idle"
    <2>1. Answered(r)
      BY <1>16 DEF PageQuery, TablesReply, Reply, ReadFail
    <2> QED
      BY <2>1, <1>a, <1>b DEF Answered, NoCall
  <1>17. ASSUME ScanEnd(r) PROVE at = "idle"
    BY <1>17, <1>a, <1>b DEF ScanEnd
  <1> QED
    BY <1>b, <1>1, <1>2, <1>3, <1>4, <1>5, <1>6, <1>7, <1>8, <1>9, <1>10, <1>11, <1>12,
       <1>14, <1>15, <1>16, <1>17 DEF Read

\* How a reader's step changes its history and the names that it works with.
LEMMA ReadWatch ==
    ASSUME BasicInv, NEW r \in Readers, Read(r)
    PROVE  \/ \E n \in Names : Begin(r, n) /\ call'[r].name = n /\ scan'[r].name \in {n, None}
           \/ BeginAll(r) /\ call'[r].name = None /\ scan'[r].name = None
           \/ watch'[r] = NoWatch
           \/ /\ watch'[r] = watch[r]
              /\ call'[r].name \in {call[r].name, scan[r].name, None}
              /\ scan'[r].name \in {scan[r].name, None}
  <1> DEFINE Same == /\ watch'[r] = watch[r]
                     /\ call'[r].name \in {call[r].name, scan[r].name, None}
                     /\ scan'[r].name \in {scan[r].name, None}
             Goal == \/ \E n \in Names : Begin(r, n) /\ call'[r].name = n /\ scan'[r].name \in {n, None}
                     \/ BeginAll(r) /\ call'[r].name = None /\ scan'[r].name = None
                     \/ watch'[r] = NoWatch
                     \/ Same
  <1> SUFFICES Goal
    OBVIOUS
  <1>a. /\ call \in [Readers -> CallRow] /\ call[r] \in CallRow /\ Serving(r)
        /\ scan \in [Readers -> ScanRow] /\ scan[r] \in ScanRow
        /\ watch \in [Readers -> WatchRow] /\ AskedFor \subseteq Names
    BY ReadsConstants DEF BasicInv, ShapeInv
  <1>1. ASSUME NEW n \in AskedFor, NEW s \in ReadAt, GetPartitionsPaged(r, n, s)
        PROVE  Goal
    <2>1. call'[r].name = n /\ scan'[r].name = n
      BY <1>1, <1>a DEF GetPartitionsPaged, NoCall, ScanRow
    <2>2. CASE Begin(r, n)
      BY <1>a, <2>1, <2>2
    <2>3. CASE scan[r].name = n /\ UNCHANGED watch
      BY <2>1, <2>3
    <2> QED
      BY <1>1, <2>2, <2>3 DEF GetPartitionsPaged
  <1>2. ASSUME NEW size \in {0, PageSize}, ListTables(r, size)
        PROVE  Goal
    <2>1. call'[r].name = None /\ scan'[r].name = scan[r].name
      BY <1>2, <1>a DEF ListTables, NoCall, ScanRow
    <2>2. CASE scan[r] = NoScan /\ BeginAll(r)
      BY <2>1, <2>2 DEF NoScan
    <2>3. CASE UNCHANGED watch
      BY <2>1, <2>3
    <2> QED
      BY <1>2, <2>2, <2>3 DEF ListTables
  <1>3. ASSUME NEW at, NEW n \in AskedFor, NEW t, NEW s, Request(r, at, n, t, s), UNCHANGED scan
        PROVE  Goal
    <2>1. call'[r].name = n /\ scan'[r] = NoScan /\ Begin(r, n)
      BY <1>3, <1>a DEF Request, NoCall
    <2> QED
      BY <1>a, <2>1 DEF NoScan
  <1>4. ASSUME NEW n \in AskedFor, NEW s \in ReadAt,
               GetColumnStatsCall(r, n, s) \/ GetSnapshot(r, n, s) \/ GetManifestList(r, n, s)
        PROVE  Goal
    BY <1>3, <1>4 DEF GetColumnStatsCall, GetSnapshot, GetManifestList
  <1>5. ASSUME NEW n \in AskedFor, NEW limit \in {0, Limit}, ListSnapshots(r, n, limit)
        PROVE  Goal
    BY <1>3, <1>5 DEF ListSnapshots
  <1>6. ASSUME NEW n \in AskedFor, GetPartitionStats(r, n)
        PROVE  Goal
    BY <1>3, <1>6 DEF GetPartitionStats
  <1>7. CASE PageQuery(r)
    <2>1. call'[r].name = None
      BY <1>7, <1>a DEF PageQuery, Answered, NoCall
    <2>2. CASE GetTableID(call[r].name) = 0
      BY <1>7, <1>a, <2>2 DEF PageQuery, End
    <2>3. CASE GetTableID(call[r].name) # 0
      <3>1. PICK t, s, page : scan'[r] = NextPage(scan[r], t, s, page) /\ UNCHANGED watch
        BY <1>7, <1>a, <2>3 DEF PageQuery
      <3>2. scan'[r].name = scan[r].name
        BY <1>a, <3>1 DEF NextPage, ScanRow
      <3> QED
        BY <2>1, <3>1, <3>2
    <2> QED
      BY <2>2, <2>3
  <1>b. ASSUME call'[r].name = call[r].name, UNCHANGED <<scan, watch>>
        PROVE  Goal
    BY <1>b
  <1>8. CASE CountTable(r)
    <2>1. call'[r].name = call[r].name
      BY <1>8, <1>a DEF CountTable, CallRow
    <2> QED
      BY <1>8, <1>b, <2>1 DEF CountTable
  <1>9. CASE CountPartitions(r)
    <2>1. call'[r].name = call[r].name
      BY <1>9, <1>a DEF CountPartitions, CallRow
    <2> QED
      BY <1>9, <1>b, <2>1 DEF CountPartitions
  <1>10. CASE TablesReply(r)
    <2>1. call'[r].name = None /\ scan'[r].name = scan[r].name /\ UNCHANGED watch
      BY <1>10, <1>a DEF TablesReply, Answered, NoCall, ScanRow
    <2> QED
      BY <2>1
  <1>11. CASE ScanEnd(r) \/ Reply(r)
    BY <1>11, <1>a DEF ScanEnd, Reply, End
  <1>12. CASE StatsQuery(r)
    <2>1. call'[r].name = call[r].name
      BY <1>12, <1>a DEF StatsQuery, CallRow
    <2> QED
      BY <1>12, <1>b, <2>1 DEF StatsQuery
  <1>13. CASE ColumnsTable(r)
    <2>1. watch'[r] = NoWatch \/ (UNCHANGED <<scan, watch>> /\ call'[r].name = call[r].name)
      BY <1>13, <1>a DEF ColumnsTable, End, CallRow
    <2> QED
      BY <1>b, <2>1
  <1>14. ASSUME NEW from, NEW to, NEW rows, ReadRows(r, from, to, rows)
         PROVE  Goal
    <2>1. call'[r].name = call[r].name
      BY <1>14, <1>a DEF ReadRows, CallRow
    <2> QED
      BY <1>14, <1>b, <2>1 DEF ReadRows
  <1>15. CASE ColumnsQuery(r) \/ SnapshotQuery(r) \/ HistoryQuery(r) \/ ManifestFilesQuery(r)
    BY <1>14, <1>15 DEF ColumnsQuery, SnapshotQuery, HistoryQuery, ManifestFilesQuery
  <1>16. CASE ManifestListQuery(r)
    <2>1. watch'[r] = NoWatch \/ (UNCHANGED <<scan, watch>> /\ call'[r].name = call[r].name)
      BY <1>16, <1>a DEF ManifestListQuery, End, CallRow
    <2> QED
      BY <1>b, <2>1
  <1>17. CASE GetManifest(r)
    <2>1. call'[r].name = call[r].name
      BY <1>17, <1>a DEF GetManifest, CallRow
    <2> QED
      BY <1>17, <1>b, <2>1 DEF GetManifest
  <1>18. CASE ReadFail(r)
    <2>1. call'[r].name = None /\ UNCHANGED scan /\ (watch'[r] = NoWatch \/ UNCHANGED watch)
      BY <1>18, <1>a DEF ReadFail, Answered, End, NoCall
    <2> QED
      BY <2>1
  <1> HIDE DEF Goal
  <1> QED
    BY <1>1, <1>2, <1>4, <1>5, <1>6, <1>7, <1>8, <1>9, <1>10, <1>11, <1>12, <1>13,
       <1>15, <1>16, <1>17, <1>18 DEF Read

\* Every step keeps what is known of the kept tables.
LEMMA KeptStep ==
    ASSUME BasicInv, [ReadsNext]_<<vars, readVars>>, NEW r \in Readers, KeptInv(r)
    PROVE  KeptInv(r)'
  <1>a. /\ TypeOK /\ LinearHistory /\ NameInv
        /\ watch \in [Readers -> WatchRow] /\ Kept(r) \subseteq TableIds /\ watch[r].head \in Nat
        /\ scan[r] \in ScanRow /\ call[r] \in CallRow /\ Serving(r)
    BY DEF BasicInv, IInv, LinearInv, ShapeInv, WatchRow, Kept, SnapIds
  <1>b. BasicInv'
    BY BasicStep
  <1>c. /\ \A t \in TableIds : tables[t].current \in Nat /\ tables'[t].current \in Nat
    BY <1>a, <1>b DEF BasicInv, IInv, TypeOK, TableRow, SnapIds
  <1>1. CASE /\ Calm(r) /\ scan'[r] = scan[r]
             /\ call'[r] = call[r] \/ call'[r] = NoCall
    <2> SUFFICES ASSUME NEW t \in Kept(r)'
                 PROVE  /\ tables'[t].state = "live"
                        /\ call'[r].name # None => tables'[t].name = call'[r].name
                        /\ scan'[r].name # None => tables'[t].name = scan'[r].name
                        /\ watch'[r].head <= tables'[t].current
                        /\ watch'[r].head # 0 => \E s \in SnapshotsOf(t)' : s.id = watch'[r].head
      BY DEF KeptInv
    <2>1. /\ t \in Kept(r) /\ t \in TableIds /\ watch'[r].head = watch[r].head
          /\ tables'[t].state = tables[t].state /\ tables'[t].name = tables[t].name
          /\ tables[t].current <= tables'[t].current
          /\ SnapshotsOf(t) \subseteq SnapshotsOf(t)'
      BY <1>1, <1>a DEF Calm
    <2>2. watch'[r].head <= tables'[t].current
      BY <1>a, <1>c, <2>1 DEF KeptInv
    <2> QED
      BY <1>1, <2>1, <2>2 DEF KeptInv, NoCall
  <1>2. CASE Read(r) /\ UNCHANGED <<tables, snapshots, partitions>>
    <2>1. \A t : SnapshotsOf(t)' = SnapshotsOf(t)
      BY <1>2 DEF SnapshotsOf
    <2>2. ASSUME NEW n \in Names, Begin(r, n), call'[r].name = n, scan'[r].name \in {n, None}
          PROVE  KeptInv(r)'
      <3>1. Kept(r)' = { t \in TableIds : IsLive(t, n) } /\ watch'[r].head = GetCurrentSnapshot(n)
        BY <1>a, <2>2, BeginType DEF Kept
      <3>2. ASSUME NEW t \in TableIds, IsLive(t, n)
            PROVE  /\ GetCurrentSnapshot(n) = tables[t].current
                   /\ tables[t].current # 0 => \E s \in SnapshotsOf(t) : s.id = tables[t].current
        <4>1. GetTableID(n) = t
          BY <1>a, <3>2, GetTableIDUnique
        <4>2. t # 0
          BY DEF TableIds
        <4> QED
          BY <1>a, <4>1, <4>2 DEF GetCurrentSnapshot, LinearHistory
      <3> QED
        BY <1>2, <1>c, <2>1, <2>2, <3>1, <3>2 DEF KeptInv, IsLive
    <2>3. CASE BeginAll(r) /\ call'[r].name = None /\ scan'[r].name = None
      <3>1. Kept(r)' = LiveTables /\ watch'[r].head = 0
        BY <1>a, <2>3, BeginType DEF Kept
      <3> QED
        BY <1>2, <1>c, <2>3, <3>1 DEF KeptInv, LiveTables
    <2>4. CASE watch'[r] = NoWatch
      BY <2>4 DEF KeptInv, Kept, NoWatch
    <2>5. CASE /\ watch'[r] = watch[r]
               /\ call'[r].name \in {call[r].name, scan[r].name, None}
               /\ scan'[r].name \in {scan[r].name, None}
      BY <1>2, <2>1, <2>5 DEF KeptInv, Kept
    <2> QED
      BY <1>2, <2>2, <2>3, <2>4, <2>5, ReadWatch
  <1> QED
    BY <1>1, <1>2, OthersCalm

=============================================================================
