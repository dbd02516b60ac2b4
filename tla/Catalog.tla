------------------------------ MODULE Catalog ------------------------------
(***************************************************************************)
(* The catalog core of IceCore: the table, snapshot and partition rows in  *)
(* PostgreSQL, the per-name reader/writer locks, the partition cache, and  *)
(* the RPC handlers that work on them (CreateTable, RenameTable,           *)
(* DropTable, CommitSnapshot, GetPartitions, GetTableMetadata).            *)
(*                                                                         *)
(* A process is a goroutine serving one RPC at a time. A handler is cut    *)
(* into one action per point at which another goroutine can interfere: a   *)
(* lock acquisition, a statement or transaction of the database, a         *)
(* critical section of the cache. The statements of one database           *)
(* transaction become visible together, in the action of its COMMIT.       *)
(*                                                                         *)
(* Abstracted: schemas, partition specs and transactions rows (modules of  *)
(* their own), file paths, row counts and statistics, which eviction       *)
(* victim the LRU list picks, and the queueing inside sync.RWMutex.        *)
(***************************************************************************)
EXTENDS Integers, FiniteSets

CONSTANTS
    Procs,          \* goroutines of the gRPC server
    Names,          \* table names
    Keys,           \* partition keys
    None,           \* "no process" and "no name"
    MaxTables,      \* bound on the table_id sequence
    MaxSnaps,       \* bound on the snapshot_id sequence
    CacheCapacity,  \* capacity of the partition cache
    ReadAt,         \* snapshot ids that clients ask to read at, 0 for the current
    Renames,        \* the <<old, new>> pairs that clients ask to rename
    AckLoss         \* may a COMMIT be sent and its outcome not be seen?

ASSUME CatalogAssumption ==
    /\ None \notin Procs
    /\ None \notin Names
    /\ MaxTables \in Nat
    /\ MaxSnaps \in Nat
    /\ CacheCapacity \in Nat \ {0}
    /\ ReadAt \subseteq 0 .. MaxSnaps
    /\ Renames \subseteq Names \X Names
    /\ AckLoss \in BOOLEAN

VARIABLES
    tables,      \* table_id -> row of the tables relation
    snapshots,   \* rows of snapshots, each with its manifest rows
    partitions,  \* rows of partitions
    limbo,       \* CommitSnapshot transactions whose COMMIT went unanswered
    snapSeq,     \* last value of the snapshot_id sequence (never rolled back)
    xlock,       \* name -> process holding the name's RWMutex exclusively
    slock,       \* name -> processes holding it shared
    cache,       \* entries of the partition cache
    op           \* process -> the RPC it serves: where it is, and its locals

db   == <<tables, snapshots, partitions, limbo, snapSeq>>
lock == <<xlock, slock>>
vars == <<tables, snapshots, partitions, limbo, snapSeq, xlock, slock, cache, op>>

TableIds == 1 .. MaxTables
SnapIds  == 0 .. MaxSnaps

TableRow == [name : Names \cup {None}, current : SnapIds,
             state : {"none", "live", "dropped", "purged"}]

\* del = 0 stands for is_deleted = false, any other value for
\* is_deleted = true with that deleted_snapshot_id.
PartitionRow == [table : TableIds, snap : SnapIds, key : Keys, del : SnapIds]

\* What a query returns of a partition row.
FileRow == [table : TableIds, snap : SnapIds, key : Keys]

\* A manifest file lists the keys it adds or the keys it deletes.
Manifest == [added : SUBSET Keys, deleted : SUBSET Keys]

SnapshotRow == [id : SnapIds, table : TableIds, parent : SnapIds,
                added : SUBSET Keys, deleted : SUBSET Keys,
                manifests : SUBSET Manifest]

CacheEntry == [name : Names, snap : SnapIds, rows : SUBSET FileRow]

(***************************************************************************)
(* The locals of a handler: name is the table it was called with, to the   *)
(* new name of a rename, tid a table id it has read (0 is none), base the  *)
(* parent of a commit or the snapshot GetTableMetadata reports, snap the   *)
(* snapshot read at or the id of the snapshot being committed, and rows    *)
(* the partitions a query or the cache has returned.                       *)
(***************************************************************************)
Steps == {"idle", "commit_read", "commit_insert", "commit_tx", "commit_inval",
          "rename_new", "rename_exec", "rename_inval_old", "rename_inval_new",
          "drop_inval", "get_query", "get_put", "get_done", "meta_get",
          "meta_reply"}

Op == [at : Steps, name : Names \cup {None}, to : Names \cup {None},
       tid : 0 .. MaxTables, base : SnapIds, snap : SnapIds,
       rows : SUBSET FileRow]

Idle == [at |-> "idle", name |-> None, to |-> None, tid |-> 0,
         base |-> 0, snap |-> 0, rows |-> {}]

NoTable == [name |-> None, current |-> 0, state |-> "none"]

-----------------------------------------------------------------------------
(* Database access *)

IsLive(t, n) == tables[t].state = "live" /\ tables[t].name = n

\* SELECT table_id ... WHERE table_name = n AND is_deleted = false
GetTableID(n) ==
    IF \E t \in TableIds : IsLive(t, n)
    THEN CHOOSE t \in TableIds : IsLive(t, n)
    ELSE 0

\* A missing table reads as snapshot 0, like a table without snapshots.
GetCurrentSnapshot(n) ==
    IF GetTableID(n) = 0 THEN 0 ELSE tables[GetTableID(n)].current

\* The unique index on table_name covers soft-deleted rows too.
NameTaken(n) ==
    \E t \in TableIds : tables[t].state \in {"live", "dropped"} /\ tables[t].name = n

\* An unanswered transaction holds the lock on the row it has updated: a
\* statement that updates the row waits for its end.
RowFree(t) == \A w \in limbo : w.table # t

\* Mutant: a deleted partition is hidden from every snapshot.
VisibleUndeleted(r, s) == r.snap <= s /\ r.del = 0

VisibleAt(r, s) == r.snap <= s /\ (r.del = 0 \/ r.del > s)

Visible(t, s) ==
    { [table |-> r.table, snap |-> r.snap, key |-> r.key] :
        r \in { q \in partitions : q.table = t /\ VisibleAt(q, s) } }

-----------------------------------------------------------------------------
(* Locks, cache *)

CanLock(n)   == xlock[n] = None /\ slock[n] = {}
CanRLock(n)  == xlock[n] = None
Lock(p, n)   == xlock' = [xlock EXCEPT ![n] = p]
Unlock(n)    == xlock' = [xlock EXCEPT ![n] = None]
RLock(p, n)  == slock' = [slock EXCEPT ![n] = @ \cup {p}]
RUnlock(p, n) == slock' = [slock EXCEPT ![n] = @ \ {p}]

\* Removes every entry whose key has the prefix "n:".
InvalidateTableCache(n) == cache' = { e \in cache : e.name # n }

\* Put replaces an entry of the same key, and at capacity evicts one other.
CachePut(n, s, rows) ==
    LET new  == [name |-> n, snap |-> s, rows |-> rows]
        same == { e \in cache : e.name = n /\ e.snap = s }
    IN  IF same # {} \/ Cardinality(cache) < CacheCapacity
        THEN cache' = (cache \ same) \cup {new}
        ELSE \E victim \in cache : cache' = (cache \ {victim}) \cup {new}

Goto(p, at) == op' = [op EXCEPT ![p].at = at]
Return(p)   == op' = [op EXCEPT ![p] = Idle]

-----------------------------------------------------------------------------
(* CreateTable: one transaction under the exclusive lock *)

CreateTable(p, n) ==
    /\ op[p].at = "idle"
    /\ CanLock(n)
    /\ ~NameTaken(n)
    /\ \E t \in TableIds :
          /\ tables[t].state = "none"
          /\ \A u \in TableIds : u < t => tables[u].state # "none"
          /\ tables' = [tables EXCEPT ![t] =
                           [name |-> n, current |-> 0, state |-> "live"]]
    /\ UNCHANGED <<snapshots, partitions, limbo, snapSeq, lock, cache, op>>

-----------------------------------------------------------------------------
(* DropTable: one transaction under the exclusive lock, then, with the     *)
(* lock released, the invalidation if the transaction reported success.    *)

SoftDelete(t) ==
    /\ tables' = [tables EXCEPT ![t].state = "dropped"]
    /\ UNCHANGED <<snapshots, partitions>>

\* The rows of the table go; its id is never used again.
Purge(t) ==
    /\ tables' = [tables EXCEPT ![t] = [NoTable EXCEPT !.state = "purged"]]
    /\ snapshots' = { s \in snapshots : s.table # t }
    /\ partitions' = { r \in partitions : r.table # t }

\* With AckLoss its COMMIT may go unanswered: it then takes effect here, with no
\* invalidation, or not at all. One that takes effect after the lock is released
\* is not modelled.
DropTable(p, n) ==
    /\ op[p].at = "idle"
    /\ CanLock(n)
    /\ GetTableID(n) # 0
    /\ RowFree(GetTableID(n))
    /\ SoftDelete(GetTableID(n)) \/ Purge(GetTableID(n))
    /\ \/ op' = [op EXCEPT ![p] = [Idle EXCEPT !.at = "drop_inval", !.name = n]]
       \/ AckLoss /\ UNCHANGED op
    /\ UNCHANGED <<limbo, snapSeq, lock, cache>>

\* Mutant: the invalidation is forgotten.
DropReturn(p) ==
    /\ op[p].at = "drop_inval"
    /\ Return(p)
    /\ UNCHANGED <<db, lock, cache>>

DropInvalidate(p) ==
    /\ op[p].at = "drop_inval"
    /\ InvalidateTableCache(op[p].name)
    /\ Return(p)
    /\ UNCHANGED <<db, lock>>

-----------------------------------------------------------------------------
(* RenameTable: both exclusive locks, the old name's first; one UPDATE;    *)
(* both locks released; then both names invalidated, whatever the outcome. *)

RenameLockOld(p, old, new) ==
    /\ op[p].at = "idle"
    /\ <<old, new>> \in Renames
    /\ CanLock(old)
    /\ Lock(p, old)
    /\ op' = [op EXCEPT ![p] = [Idle EXCEPT !.at = "rename_new",
                                            !.name = old, !.to = new]]
    /\ UNCHANGED <<db, slock, cache>>

RenameLockNew(p) ==
    /\ op[p].at = "rename_new"
    /\ CanLock(op[p].to)
    /\ Lock(p, op[p].to)
    /\ Goto(p, "rename_exec")
    /\ UNCHANGED <<db, slock, cache>>

RenameExec(p) ==
    LET old == op[p].name
        new == op[p].to
        t   == GetTableID(old)
    IN  /\ op[p].at = "rename_exec"
        /\ \/ /\ t # 0 /\ ~NameTaken(new) /\ RowFree(t)
              /\ tables' = [tables EXCEPT ![t].name = new]
           \/ UNCHANGED tables
        /\ xlock' = [xlock EXCEPT ![old] = None, ![new] = None]
        /\ Goto(p, "rename_inval_old")
        /\ UNCHANGED <<snapshots, partitions, limbo, snapSeq, slock, cache>>

RenameInvalidateOld(p) ==
    /\ op[p].at = "rename_inval_old"
    /\ InvalidateTableCache(op[p].name)
    /\ Goto(p, "rename_inval_new")
    /\ UNCHANGED <<db, lock>>

RenameInvalidateNew(p) ==
    /\ op[p].at = "rename_inval_new"
    /\ InvalidateTableCache(op[p].to)
    /\ Return(p)
    /\ UNCHANGED <<db, lock>>

-----------------------------------------------------------------------------
\* AlterTable with a new schema or partition spec: the rows it writes under
\* the lock are not of this module, the invalidation after it is.
AlterTable(p, n) ==
    /\ op[p].at = "idle"
    /\ InvalidateTableCache(n)
    /\ UNCHANGED <<db, lock, op>>

-----------------------------------------------------------------------------
(* CommitSnapshot: everything under the exclusive lock *)

CommitLock(p, n) ==
    /\ op[p].at = "idle"
    /\ CanLock(n)
    /\ Lock(p, n)
    /\ op' = [op EXCEPT ![p] = [Idle EXCEPT !.at = "commit_read", !.name = n]]
    /\ UNCHANGED <<db, slock, cache>>

\* Mutant: an older parent passes.
ParentNotNewer(parent, current) == parent <= current

ValidateParentSnapshot(parent, current) == parent = current

\* Reads the current snapshot and compares the request's parent with it.
CommitRead(p) ==
    /\ op[p].at = "commit_read"
    /\ \E parent \in SnapIds :
          /\ ValidateParentSnapshot(parent, GetCurrentSnapshot(op[p].name))
          /\ op' = [op EXCEPT ![p].at = "commit_insert", ![p].base = parent]
    /\ UNCHANGED <<db, lock, cache>>

\* BEGIN and the INSERT into snapshots, which draws the snapshot's id.
CommitInsert(p) ==
    /\ op[p].at = "commit_insert"
    /\ GetTableID(op[p].name) # 0
    /\ snapSeq < MaxSnaps
    /\ snapSeq' = snapSeq + 1
    /\ op' = [op EXCEPT ![p].at = "commit_tx", ![p].snap = snapSeq + 1,
                        ![p].tid = GetTableID(op[p].name)]
    /\ UNCHANGED <<tables, snapshots, partitions, limbo, lock, cache>>

\* Mutant: an early return without the unlock.
CommitFailLocked(p) ==
    /\ op[p].at \in {"commit_read", "commit_insert", "commit_tx"}
    /\ Return(p)
    /\ UNCHANGED <<db, lock, cache>>

\* A stale parent, a missing table or an error of the database.
CommitFail(p) ==
    /\ op[p].at \in {"commit_read", "commit_insert", "commit_tx"}
    /\ Unlock(op[p].name)
    /\ Return(p)
    /\ UNCHANGED <<db, slock, cache>>

\* Mutants: the mark carries the id of the next snapshot, or of the last one.
MarkDeletedNext(rows, t, del, s) ==
    { IF r.table = t /\ r.key \in del /\ r.del = 0
      THEN [r EXCEPT !.del = s + 1] ELSE r : r \in rows }

MarkDeletedLast(rows, t, del, s) ==
    { IF r.table = t /\ r.key \in del /\ r.del = 0
      THEN [r EXCEPT !.del = s - 1] ELSE r : r \in rows }

\* The new rows first, then the mark on every undeleted row of a deleted key.
MarkPartitionDeleted(rows, t, del, s) ==
    { IF r.table = t /\ r.key \in del /\ r.del = 0
      THEN [r EXCEPT !.del = s] ELSE r : r \in rows }

InsertPartitions(rows, t, add, s) ==
    rows \cup { [table |-> t, snap |-> s, key |-> k, del |-> 0] : k \in add }

Manifests(add, del) ==
    { m \in { [added |-> add, deleted |-> {}], [added |-> {}, deleted |-> del] } :
        m.added # {} \/ m.deleted # {} }

\* The snapshot of the commit that p runs, with the manifests it writes.
NewSnapshot(p, add, del) ==
    [id |-> op[p].snap, table |-> op[p].tid, parent |-> op[p].base,
     added |-> add, deleted |-> del, manifests |-> Manifests(add, del)]

\* What the transaction that commits snapshot w writes. An unanswered commit
\* writes it all when it takes effect (Resolve), though its UPDATE of the deleted
\* keys ran earlier. No other transaction that ends meanwhile changes the table's
\* rows, as all of them wait for its row of tables (RowFree). A commit that waits
\* there after its own UPDATE might not mark the rows that Resolve brings, and
\* here it does: no property checked with AckLoss depends on these marks.
Apply(w) ==
    /\ snapshots' = snapshots \cup {w}
    /\ partitions' = MarkPartitionDeleted(
          InsertPartitions(partitions, w.table, w.added, w.id),
          w.table, w.deleted, w.id)
    /\ tables' = [tables EXCEPT ![w.table].current = w.id]

CommitTx(p, add, del) ==
    /\ op[p].at = "commit_tx"
    /\ RowFree(op[p].tid)
    /\ Apply(NewSnapshot(p, add, del))
    /\ Goto(p, "commit_inval")
    /\ UNCHANGED <<limbo, snapSeq, lock, cache>>

\* tx.Commit returns an error while the database may still be at work on the
\* COMMIT (the client has gone, or the connection is lost).
CommitTxLost(p, add, del) ==
    /\ AckLoss
    /\ op[p].at = "commit_tx"
    /\ RowFree(op[p].tid)
    /\ limbo' = limbo \cup {NewSnapshot(p, add, del)}
    /\ Unlock(op[p].name)
    /\ Return(p)
    /\ UNCHANGED <<tables, snapshots, partitions, snapSeq, slock, cache>>

\* The database ends an unanswered transaction, one way or the other.
Resolve(w) ==
    /\ w \in limbo
    /\ limbo' = limbo \ {w}
    /\ Apply(w) \/ UNCHANGED <<tables, snapshots, partitions>>
    /\ UNCHANGED <<snapSeq, lock, cache, op>>

CommitInvalidate(p) ==
    /\ op[p].at = "commit_inval"
    /\ InvalidateTableCache(op[p].name)
    /\ Unlock(op[p].name)
    /\ Return(p)
    /\ UNCHANGED <<db, slock>>

-----------------------------------------------------------------------------
(* GetPartitions, under the shared lock, called by its own RPC (tid = 0)   *)
(* and by GetTableMetadata, which has read the table's row before (tid).   *)

\* Lock, resolve the snapshot, look into the cache.
GetLookup(p, o, n, s) ==
    LET snap == IF s # 0 THEN s ELSE GetCurrentSnapshot(n)
        hits == { e \in cache : e.name = n /\ e.snap = snap }
        here == [o EXCEPT !.name = n, !.snap = snap]
    IN  /\ CanRLock(n)
        /\ RLock(p, n)
        /\ \/ /\ hits = {}
              /\ op' = [op EXCEPT ![p] = [here EXCEPT !.at = "get_query"]]
           \/ \E e \in hits :
                 op' = [op EXCEPT ![p] = [here EXCEPT !.at = "get_done",
                                                      !.rows = e.rows]]
        /\ UNCHANGED <<db, xlock, cache>>

GetPartitions(p, n, s) == op[p].at = "idle" /\ GetLookup(p, Idle, n, s)

\* A missing table is not cached; GetTableMetadata takes it as no partitions.
GetQuery(p) ==
    LET t == GetTableID(op[p].name)
    IN  /\ op[p].at = "get_query"
        /\ IF t = 0
           THEN op' = [op EXCEPT ![p].at = "get_done"]
           ELSE op' = [op EXCEPT ![p].at = "get_put",
                                 ![p].rows = Visible(t, op[p].snap)]
        /\ UNCHANGED <<db, lock, cache>>

\* An error of the database, in either RPC.
GetFail(p) ==
    /\ op[p].at = "get_query"
    /\ RUnlock(p, op[p].name)
    /\ Return(p)
    /\ UNCHANGED <<db, xlock, cache>>

GetPut(p) ==
    /\ op[p].at = "get_put"
    /\ CachePut(op[p].name, op[p].snap, op[p].rows)
    /\ Goto(p, "get_done")
    /\ UNCHANGED <<db, lock>>

GetReturn(p) ==
    /\ op[p].at = "get_done"
    /\ RUnlock(p, op[p].name)
    /\ IF op[p].tid = 0 THEN Return(p) ELSE Goto(p, "meta_reply")
    /\ UNCHANGED <<db, xlock, cache>>

-----------------------------------------------------------------------------
(* GetTableMetadata: the table's row under a shared lock of its own, then  *)
(* GetPartitions at the snapshot requested, or at the row's current one.   *)

GetTableMetadata(p, n, s) ==
    LET t == GetTableID(n)
    IN  /\ op[p].at = "idle"
        /\ CanRLock(n)
        /\ t # 0
        /\ op' = [op EXCEPT ![p] =
              [Idle EXCEPT !.at = "meta_get", !.name = n, !.tid = t,
                           !.base = IF s # 0 THEN s ELSE tables[t].current]]
        /\ UNCHANGED <<db, lock, cache>>

MetaGetPartitions(p) ==
    /\ op[p].at = "meta_get"
    /\ GetLookup(p, op[p], op[p].name, op[p].base)

MetaReply(p) ==
    /\ op[p].at = "meta_reply"
    /\ Return(p)
    /\ UNCHANGED <<db, lock, cache>>

-----------------------------------------------------------------------------
\* The server stops and restarts: only the database survives, and with it
\* the transactions whose COMMIT it has received.
Restart ==
    /\ xlock' = [n \in Names |-> None]
    /\ slock' = [n \in Names |-> {}]
    /\ cache' = {}
    /\ op' = [p \in Procs |-> Idle]
    /\ UNCHANGED db

Init ==
    /\ tables = [t \in TableIds |-> NoTable]
    /\ snapshots = {}
    /\ partitions = {}
    /\ limbo = {}
    /\ snapSeq = 0
    /\ xlock = [n \in Names |-> None]
    /\ slock = [n \in Names |-> {}]
    /\ cache = {}
    /\ op = [p \in Procs |-> Idle]

\* A goroutine takes up a new request.
Accept(p) ==
    \E n \in Names :
        \/ CreateTable(p, n)
        \/ DropTable(p, n)
        \/ \E new \in Names : RenameLockOld(p, n, new)
        \/ AlterTable(p, n)
        \/ CommitLock(p, n)
        \/ \E s \in ReadAt : GetPartitions(p, n, s)
        \/ \E s \in ReadAt : GetTableMetadata(p, n, s)

\* A goroutine takes the next step of the request it serves.
Continue(p) ==
    \/ DropInvalidate(p)
    \/ RenameLockNew(p)
    \/ RenameExec(p)
    \/ RenameInvalidateOld(p)
    \/ RenameInvalidateNew(p)
    \/ CommitRead(p)
    \/ CommitInsert(p)
    \/ CommitFail(p)
    \/ \E add, del \in SUBSET Keys : CommitTx(p, add, del)
    \/ \E add, del \in SUBSET Keys : CommitTxLost(p, add, del)
    \/ CommitInvalidate(p)
    \/ GetQuery(p)
    \/ GetFail(p)
    \/ GetPut(p)
    \/ GetReturn(p)
    \/ MetaGetPartitions(p)
    \/ MetaReply(p)

Next ==
    \/ \E p \in Procs : Accept(p) \/ Continue(p)
    \/ \E w \in limbo : Resolve(w)
    \/ Restart

Spec == Init /\ [][Next]_vars

(***************************************************************************)
(* Fairness: the Go scheduler runs every runnable goroutine, and a         *)
(* goroutine waiting for an RWMutex is not overtaken for ever (Unlock lets *)
(* all waiting readers in before the next writer, a waiting writer holds   *)
(* back new readers, and sync.Mutex hands over to a starving waiter). The  *)
(* database ends every transaction. Clients need not send anything, and    *)
(* the server need not crash.                                              *)
(***************************************************************************)
FairSpec ==
    /\ Spec
    /\ \A p \in Procs :
          /\ WF_vars(Continue(p))
          /\ SF_vars(RenameLockNew(p))
          /\ SF_vars(MetaGetPartitions(p))
    /\ WF_vars(\E w \in limbo : Resolve(w))

-----------------------------------------------------------------------------
(* Properties *)

\* Every variable holds rows, entries and locals of the shapes above.
TypeOK ==
    /\ tables \in [TableIds -> TableRow]
    /\ snapshots \subseteq SnapshotRow
    /\ partitions \subseteq PartitionRow
    /\ limbo \subseteq SnapshotRow
    /\ snapSeq \in SnapIds
    /\ xlock \in [Names -> Procs \cup {None}]
    /\ slock \in [Names -> SUBSET Procs]
    /\ cache \subseteq CacheEntry
    /\ op \in [Procs -> Op]

SnapshotsOf(t) == { s \in snapshots : s.table = t }

(***************************************************************************)
(* Stale-parent conflict detection works: however commits, renames, drops  *)
(* and failures interleave, the snapshots of a table form one chain that   *)
(* ends at current_snapshot_id. No two snapshots have the same parent (no  *)
(* commit overwrites another), every parent is an older snapshot of the    *)
(* same table or 0, and the current pointer is the newest snapshot.        *)
(***************************************************************************)
LinearHistory ==
    \A t \in TableIds :
        /\ \A s \in SnapshotsOf(t) :
              /\ s.parent < s.id
              /\ s.id <= tables[t].current
              /\ s.parent # 0 => \E r \in SnapshotsOf(t) : r.id = s.parent
        /\ tables[t].current # 0 =>
              \E s \in SnapshotsOf(t) : s.id = tables[t].current
        /\ \A s1, s2 \in SnapshotsOf(t) : s1.parent = s2.parent => s1 = s2

(***************************************************************************)
(* Snapshots are immutable: until its table is purged, what a point-in-    *)
(* time read at a committed snapshot returns is never changed by a later   *)
(* commit (not by the rows it adds nor by the ones it marks deleted), a    *)
(* rename, a soft drop or a restart.                                       *)
(***************************************************************************)
SnapshotImmutable ==
    [][\A t \in TableIds : tables'[t].state # "purged" =>
          \A s \in 0 .. tables[t].current : Visible(t, s)' = Visible(t, s)]_vars

\* The snapshots of a table, each with the files that a read at it returns.
LogOf(t) ==
    { [id |-> s.id, parent |-> s.parent, files |-> Visible(t, s.id)] :
        s \in SnapshotsOf(t) }

Log == INSTANCE SnapshotLog WITH
          name  <- [t \in TableIds |-> tables[t].name],
          live  <- { t \in TableIds : tables[t].state = "live" },
          spent <- { t \in TableIds : tables[t].state = "purged" },
          head  <- [t \in TableIds |-> tables[t].current],
          log   <- [t \in TableIds |-> LogOf(t)]

(***************************************************************************)
(* The catalog implements the log of snapshots when every COMMIT is        *)
(* answered: with all the locks, failures, restarts and rows that are only *)
(* marked deleted, every step changes names and snapshots as one operation *)
(* of SnapshotLog or not at all, so a commit takes effect at once, on the  *)
(* newest snapshot, with exactly the files of it that it does not delete   *)
(* and the ones it adds.                                                   *)
(***************************************************************************)
ImplementsLog == Log!Spec

\* What GetPartitions would read from the database now.
Fresh(e) ==
    /\ GetTableID(e.name) # 0
    /\ e.rows = Visible(GetTableID(e.name), e.snap)

\* Some handler has still to invalidate the entries of name n.
Invalidating(n) ==
    \E p \in Procs :
        \/ op[p].at \in {"commit_inval", "drop_inval", "rename_inval_old"} /\ op[p].name = n
        \/ op[p].at \in {"rename_inval_old", "rename_inval_new"} /\ op[p].to = n

(***************************************************************************)
(* The cache is coherent up to invalidations in flight: an entry that      *)
(* differs from the database (other rows, or no such table any more)       *)
(* belongs to a name that a running CommitSnapshot, DropTable or           *)
(* RenameTable is about to invalidate. In particular no reader puts back   *)
(* what an invalidation has removed.                                       *)
(***************************************************************************)
StaleMeansInvalidating == \A e \in cache : Fresh(e) \/ Invalidating(e.name)

(***************************************************************************)
(* Every request is answered: no handler waits for ever for a lock.        *)
(***************************************************************************)
RequestsFinish == \A p \in Procs : op[p].at # "idle" ~> op[p].at = "idle"

(***************************************************************************)
(* A partition that a successful CommitSnapshot has added is read back at  *)
(* that snapshot.                                                          *)
(***************************************************************************)
AddedVisible ==
    \A s \in snapshots : \A k \in s.added :
        [table |-> s.table, snap |-> s.id, key |-> k] \in Visible(s.table, s.id)

(***************************************************************************)
(* The response of GetTableMetadata is a point-in-time read: its           *)
(* partitions are those of its table at the snapshot id it reports.        *)
(***************************************************************************)
MetadataAtSnapshot ==
    \A p \in Procs :
        op[p].at = "meta_reply" /\ tables[op[p].tid].state = "live" =>
            op[p].rows = Visible(op[p].tid, op[p].base)

=============================================================================
