# IceCore in TLA+

IceCore is a gRPC metadata service for lakehouse tables. It keeps tables,
schemas, partition specs, snapshots, partition files and transactions in
PostgreSQL, guards each table name with a reader/writer lock, caches partition
lists in an LRU cache and counts the transactions that read a snapshot. This
directory models the parts of it in which concurrency, failure and order matter,
checks them with TLC and proves the central properties with TLAPS.

Contents: [inventory](#inventory), [modules](#modules), [runs](#runs),
[findings](#findings), [fairness](#fairness), [proofs](#proofs),
[what is left out](#what-is-left-out), [plan](#plan).

## Inventory

| Part (source) | State | Operations | What makes it correct |
|---|---|---|---|
| CatalogManager (`internal/catalog/catalog_manager.go`) | rows of `tables`, `schema_history`, `partition_specs` | CreateTable, RenameTable, DropTable, AlterTableSchema, AlterTablePartitionSpec, GetTable, ListTables | names are unique, versions are contiguous, no lock is kept or waited for for ever |
| PartitionRegistry (`partition_registry.go`) | rows of `snapshots`, `partitions`, `manifest_files`, `manifest_lists`; the cache | CommitSnapshot, GetPartitions, InvalidateTableCache, paged reads, statistics | one chain of snapshots per table, snapshots never change, the cache agrees with the database, pages neither repeat nor lose a file |
| SchemaStore, PartitionSpecStore (`schema_store.go`, `partition_spec_store.go`, `partition_spec.go`) | none | current and old versions, validation of a change | field ids stay stable, a version never changes its meaning |
| Lock manager (`internal/lock`) | one `sync.RWMutex` per name, never removed | LockShared, LockExclusive | mutual exclusion, no deadlock |
| ManifestStore (`manifest_store.go`) | none | GetManifestList, GetManifest | a list is complete and every manifest of it can be fetched |
| LRU cache (`internal/cache`) | a map and a list, at most `capacity` entries | Get, Put, Invalidate, InvalidateIf, Clear | map and list agree, bounded, the victim is the oldest, never serves a removed entry |
| Column statistics (`internal/db/pg_client.go`, `metadata_server.go`) | none | GetPartitionStats, GetColumnStats | the totals and bounds of one snapshot |
| MVCCManager (`internal/transaction`) | active transactions, pin counts | register, commit, abort, cleanup, parent check | exact pins, one outcome per transaction |
| MetadataServer (`internal/server`) | none | the RPC handlers: they call the parts above one after the other, and invalidate the cache | a response describes one state |
| PGClient (`internal/db`), DDL (`scripts/init_db.sql`) | the relations and sequences | one statement or transaction per call | |
| Server process (`cmd/server`) | | cleanup ticker, shutdown | expired transactions are removed |

A handler interacts with the others through the locks (by table *name*, not by
table id), the database (transactions commit atomically, row locks last until
their end), the cache (its own mutex; it is invalidated by a prefix of the key)
and MVCCManager (its own mutex).

The hard behaviours are listed as `hazards` in `PROJECT.json`. In short: two
locks taken in no common order; caches invalidated after the locks are released;
rows read under one lock and used under the next; validation before the lock
that protects the change; a COMMIT that is sent and never answered; answers put
together from several queries without a lock; listings whose pages are separate
requests; memory and database updated in two steps; a restart that loses the memory; timeouts and a
ticker that race with commits and aborts.

## Modules

| Module | Models |
|---|---|
| `Catalog` | tables, snapshots, partitions, locks, cache, and the handlers CreateTable, DropTable, RenameTable, CommitSnapshot, GetPartitions, GetTableMetadata; AlterTable with a schema or spec only through its cache invalidation |
| `SnapshotLog` | abstract: what the catalog promises of its tables; `Catalog!ImplementsLog` is the refinement |
| `Reads` (extends `Catalog`, `ColumnStats`) | the reads past the cache, together with the writers of `Catalog`: paged GetPartitions, ListTables, GetPartitionStats, GetColumnStats, GetSnapshot, ListSnapshots, GetManifestList, GetManifest |
| `ColumnStats` | operators: the totals and column bounds as the code's loops compute them, and as they should be |
| `LRU` | the cache's map and list, with Get, Put, Invalidate, InvalidateIf and Clear |
| `BoundedCache` | abstract: the set of entries that `Catalog` assumes; `LRU!ImplementsBoundedCache` is the refinement |
| `Transactions` | MVCCManager, the rows of `transactions`, BeginTransaction, CommitTransaction, AbortTransaction, the cleanup ticker, time |
| `Evolution` | AlterTable with a schema or a partition spec, racing with itself, with commits and with tables that are created, renamed and dropped; the conversions of specs, the histories and their reads, the spec id on manifests |
| `MCCatalog`, `MCReads`, `MCLRU`, `MCTransactions`, `MCEvolution` | instances for TLC |
| `CatalogProofs`, `LogProofs` | proofs about `Catalog`: its invariants and the cache, the refinement of `SnapshotLog` |
| `ReadsProofs`, `AnswersProofs`, `StatsProofs` | proofs about `Reads` and `ColumnStats`: locks and shapes, what the answers say, what the statistics add up to |
| `LRUProofs`, `TransactionsProofs`, `EvolutionProofs` | proofs about the modules they are named after |

### Catalog

A process is a goroutine that serves one request at a time; `op[p]` is where it
is in its handler and the handler's locals. A handler is cut where another
goroutine can interfere: at each lock, each statement or transaction of the
database and each critical section of the cache. What a handler does under a
lock between two such points is one action when nothing it reads or writes can
be changed by others meanwhile.

| State | Code |
|---|---|
| `tables[t]` | row of `tables`: name, `current_snapshot_id`, `is_deleted`; a purged id is never used again |
| `snapshots` | rows of `snapshots` with the manifests written for them |
| `partitions` | rows of `partitions`; `del = 0` is `is_deleted = false` |
| `snapSeq` | the `snapshot_id` sequence; a rolled-back commit leaves a gap |
| `limbo` | CommitSnapshot transactions whose COMMIT was sent and not answered |
| `xlock`, `slock` | the RWMutex of each name |
| `cache` | entries `name:snapshot`; at capacity any entry may be the victim |

CommitSnapshot is CommitLock, CommitRead (read the current snapshot, compare the
parent), CommitInsert (draw the id), CommitTx (all the rows, the pointer,
COMMIT) and CommitInvalidate; CommitFail is any of its error returns. With
`AckLoss` a COMMIT may go unanswered (CommitTxLost): the handler returns an
error and releases the lock, and the database ends the transaction later, one
way or the other (Resolve); until then the updated row of `tables` is locked.
RenameTable takes two locks, executes, releases both and then invalidates both
names. GetTableMetadata reads the row, then calls GetPartitions. Restart empties
everything but the database.

A process holds a lock exactly in the steps in which the Go code holds it;
CreateTable, DropTable and the row read of GetTableMetadata hold theirs for one
action only, and so are guarded by the lock being free.

### SnapshotLog

A table is a name and a log of snapshots, each with the complete set of its
files; a commit appends one snapshot, made from the newest, in one step. The
mapping reads the log off the rows: the files of a snapshot are the partition
rows *visible* at it. So the refinement says that marking rows deleted instead
of copying them, with all the locks and failures around it, is an
implementation of complete snapshots. A key that one commit both adds and
deletes is deleted in the log too; that this surprises a client is the finding
`overwrite_hidden`.

### Reads

A reader is a client with one listing or one request going, and the goroutine
that serves it. `scan[r]` is the listing (token, what the pages brought, the
snapshot of the first and of the last page), `call[r]` the request being served
with the handler's locals, and `watch[r]` a history variable: which of the
tables the reader asked for have kept their name since it began, their snapshot
then, and whether a table was dropped since. The properties need it to say what
an answer may still be expected to show.

GetPartitions in pages and GetPartitionStats hold the shared lock; the other
reads hold none, and are cut between any two queries. `QueryPartitionsPaged` is
the keyset query (`partition_id > last ORDER BY partition_id LIMIT n`): rows get
their ids in the order of insertion, snapshot by snapshot (`PartitionID`).
`ListTablesRows` goes by offset, and the page's counts are queried table by
table afterwards, by name. Each page resolves the current snapshot anew. Without
a page size ListTables takes a default limit and sends no token
(`NoPageSize`, 100 in the code); ListSnapshots has a default limit too
(`NoLimit`, 50). ReadFail is any error of the database; in a listing the client
may ask for the page again. The writers' steps are those of `Catalog`, with
answered COMMITs (an unanswered one breaks the chain that ListSnapshots shows,
see `lost_ack`).

### ColumnStats

`GetStats` and `GetColumnStats` are the loops of the code over the files in the
order of the query (`InOrder` of `Reads`). A loop is a recursive function of the
number of rounds: `Totalled(files)[i]` are the totals after `i` files,
`WithFile(byCol, stats)[j]` and `WithFiles(files)[i]` the map of aggregates after
`j` statistics of one file and after `i` files. `TrueStats` and `TrueBounds` say
what they should give, without an order: a sum is a count of pairs (`SumOver`),
and the statistics of a column are those at some of the `Places` <<file, place in
its list>>. Bounds are strings compared byte by byte, of which only the order
matters: a string is its rank, 0 the empty string of a file without a bound. The
comparison runs inside `Reads`, on every set of files that a read can return.

### LRU

`items` is the map's keys, `list` the list's entries, front first; each call
holds the cache's mutex throughout and is one action. Elements leave the list by
`Keep`, which gives the list at a set of indices, in order: what any number of
`list.Remove` calls leave, in whatever order the map is walked. `touched` is a
history variable, the keys used so far in the order of their last use, against
which the victim of an eviction is judged. `BoundedCache` forgets the order: a Put replaces the entry of
its key, or at capacity costs some other entry. That is `CachePut` of `Catalog`,
where every entry may be the victim, so what `Catalog` shows holds for the list
as well.

### Transactions

`active`, `readSnap`, `age` and `pinned` are the fields of MVCCManager,
`status` the rows, `known` the ids that clients have been given. `age` counts
ticks up to "past the timeout". A method of MVCCManager is one action; the
UPDATE of the row follows in its own action and may fail.

### Evolution

Several names, whose tables are created, renamed, dropped softly (the row keeps
its name for good) and purged. An AlterTable is three actions: AlterSpecValidate
or AlterSchemaValidate, the read of the current version with the validation;
AlterSpecRead or AlterSchemaRead, which takes the exclusive lock and reads the
row; AlterTablePartitionSpec or AlterTableSchema, the transaction that works with
what was read (`row`) and then unlocks. CommitSnapshot is CommitRead, which reads
the spec version under the lock, and CommitManifests, which stamps it. So the
lock is state (`xlock`) and that it suffices is checked: the statements find the
table by name or by id just as in the code (the spec is updated by name, its
history row inserted by id, subject to the unique index and the reference to the
table), and if any of the three reads happens without the lock a property fails
(these are the mutants of HistoryComplete, VersionsStable and ManifestSpecKnown).
Fail is any error return. A proposal is a message: a set of fields with id, column, transform and
parameter. `ProtoToPartitionSpec` and `PartitionSpecToProto` convert it to the
stored spec and back, with the seven transforms and what becomes of a number that
the enum does not have (0 is a missing parameter); `ValidateSpecChange` has all
the conditions of the code. GetPartitionSpec and ListPartitionSpecs (and their
schema counterparts) are operators on the rows: they change nothing and read one
statement's state. A schema is a non-empty JSON object, other JSON or no JSON.

## Runs

| Run | Shows | Bounds |
|---|---|---|
| `catalog_safety` | LinearHistory, SnapshotImmutable, StaleMeansInvalidating, ImplementsLog | 2 goroutines, 2 names, 2 tables, 2 snapshots, 1 key, cache of 1, reads at snapshot 1 (before, while and after it is current), rename A to B; COMMITs are answered |
| `catalog_live` | RequestsFinish under fairness | 2 goroutines, 2 names, 1 table, 1 snapshot, renames in one direction; COMMITs may go unanswered |
| `reads` | NothingTwice, FilesListed, TablesListed, SummaryExact, StatsExact, ColumnsExact, HistoryIsChain, ManifestsExact | 1 writer, 1 reader, 2 names of which one is read, 2 tables, 2 snapshots, 1 key, pages of 1, limits 1 and 2 |
| `lru` | MapMatchesList, EvictsOldest, ImplementsBoundedCache | capacities -1 to 3 asked for, 4 keys, 2 values |
| `transactions` | PinsMatch, ActiveMeansUndecided, NoLateCommit, Released | 2 goroutines, 2 transactions, 2 snapshots, timeout of 1 tick |
| `evolution` | HistoryComplete, ManifestSpecKnown, SpecResendable, EvolutionKeepsFields, VersionsStable | 2 goroutines, 2 names, 2 tables, 2 spec versions, 2 schema versions, 7 proposals (`spec_race` and `spec_param`: 1 name, 3 spec versions, 10 proposals) |

What the properties of the reads say, and what they leave open because the code
does not give it:

* a listing of files never repeats a file and, at the end, has every file that
  is visible at the first and at the last page's snapshot. With a snapshot id
  both are the same, so the listing is the snapshot. Without one it may mix the
  files of successive snapshots;
* a listing of tables has every table that was there throughout, *unless* a table
  was dropped in between (the offset then skips one) or no page size was given
  and there are more tables than the default limit;
* answers put together from several queries are those of one snapshot as long as
  the table keeps its name; a purge or a rename in between can empty them.

Why the bounds are enough: every race in these properties is between two
handlers (a reader and a writer, two writers, a handler and the ticker); two
snapshots give a conflict of parents and a read at an old snapshot, two table
ids a purge with re-creation and a rename onto a free name, a cache of one entry
an eviction by every other Put. In `reads` two snapshots of one key each, in
pages of one, give a listing with a commit before, between and after its pages,
two tables in pages of one give a listing with a creation or a drop in between,
and the files of the first snapshot have no lower bound, so that aggregates
with and without bounds both occur. Four keys are one more than the largest
capacity in `lru`. The proposals of `evolution` add a field, and break each rule
of a valid spec once; those of `spec_race` and `spec_param` also keep, drop and
change fields. Two names give a table that is renamed away, or replaced by
another, between the steps of an alteration; two versions are enough for two
alterations to write the same one. Goroutines and keys are interchangeable in
`catalog_safety`, goroutines and names in the runs of `Evolution`, so these runs
use symmetry. All the safety properties of the passing runs, both refinements
included, are also proved without these bounds.

StaleMeansInvalidating, LinearHistory and ImplementsLog assume answered COMMITs:
an unanswered one that takes effect leaves the cache as it was, and may be
based on an older snapshot, see the finding below. SnapshotImmutable holds with
unanswered COMMITs too, by proof.

## Findings

Each is a run that TLC ends with a counterexample.

* `rename_deadlock`: RenameTable locks the old name, then the new one. Two
  renames in opposite directions wait for each other for ever; so does a rename
  of a table to its own name, which the run leaves out.
* `overwrite_hidden`: a commit that deletes and adds the same key marks the rows
  it has just inserted as deleted.
* `metadata_torn`: GetTableMetadata can report one snapshot (or table) with the
  partitions of another.
* `lost_ack`: an unanswered COMMIT that succeeds late gives two snapshots with
  the same parent.
* `spec_race`: partition specs are validated outside the lock, so a field id can
  be dropped or redefined.
* `spec_param`: the validation of a new spec does not compare the parameters of
  existing fields, so a bucket count or truncation width can change under the
  same field id, though the comment above it says that every existing field is
  preserved unchanged.

## Fairness

* `Catalog!FairSpec`: weak fairness of each goroutine's next step (the Go
  scheduler, and statements of the database return); strong fairness of the two
  steps that wait for a lock in mid-handler, because `sync.RWMutex` does not let
  a waiter be overtaken for ever (a waiting writer holds back new readers, an
  Unlock lets the waiting readers in, a starving waiter is handed the mutex);
  weak fairness of Resolve (PostgreSQL ends every transaction). No client has to
  send a request.
* `Transactions!FairSpec`: time passes and the ticker runs. Clients need not
  commit or abort.

## Proofs

All theorems hold for every set of goroutines, names, keys, proposals, readers,
page sizes, limits and capacities, and every bound. The only assumptions are the
`ASSUME`s of the modules (`None` is no process and no name, bounds are naturals,
capacities are integers, proposals are sets of fields), which TLC evaluates on
every run.

* `CatalogProofs`. TypeOK and the safety properties are not inductive alone.
  `IInv` adds: which locks a handler holds at each step (`LockInv`), the unique
  names (`NameInv`), and that a snapshot being committed, by a handler or in
  `limbo`, is newer than the current one of a live table (`CommitInv`).
  `Immutable` follows: a commit writes rows and marks only with an id above the
  current snapshot, so that nothing changes at or below it; this holds with
  unanswered COMMITs too. `Linear` (for `~AckLoss`) adds `BaseInv`: under the
  exclusive lock the parent that CommitRead compared is still the current
  snapshot when the transaction commits. `Coherent` (for `~AckLoss`) is about the
  cache. `PutInv` says that what a reader is about to store is still what the
  database holds: it has the shared lock, so no step touches the name
  (`ReaderUntouched`). A step either leaves a name untouched, and all that a read
  of it returns (`UntouchedFrame`), or its handler invalidates the name next
  (`TouchInvalidates`), and goes on to do so as long as there is an entry to
  remove (`StillInvalidating`).
* `LogProofs` (for `~AckLoss`). The refinement needs `RowInv`: no partition row and
  no mark of a table is newer than its current snapshot. Then a mark with the id
  of the commit hides a row from the new snapshot and from no older one, and the
  files visible at the new snapshot are those of the last one and the added ones
  without the deleted keys (`CommitVisible`), while `ApplyKeepsOlder` leaves the
  rest of the log. `LinearHistory` says that the head of the log is the current
  snapshot and `BaseInv` that the commit's parent is. One step per writing action
  then shows an operation of the log.
* `TransactionsProofs`. `IInv` adds that ids in memory and in handlers have been
  drawn, that a handler about to register has an undecided one of its own, and
  that a commit under way was in time; the pin counts go by cardinalities of
  finite sets.
* `EvolutionProofs`. `IInv` adds that ids not yet drawn have no rows and that no
  two names have the same table (`IdInv`), that a handler about to run its
  transaction holds the lock of its name (`LockInv`), that what it has read under
  it is still so (`ReadInv`), and that a waiting proposal has passed the
  validation against its base. The pivot is `LockedUnchanged`: a step of another
  process leaves the table of a locked name alone, because it holds the lock of
  another name, which has another table. So the transaction meets the row it has
  read (`SpecEffect`, `SchemaEffect`, `CommitEffect`): the update by name and the
  insert by id concern one table, and the version is the next one. A row of the
  next version extends a contiguous history (`ContiguousExtend`). `Resendable` rests
  on lemmas about the two conversions: a stored spec survives the way to a
  message and back. `Stable` follows from the contiguous histories: an alteration
  adds a row only under a version that no row has.
* `ReadsProofs`. `BasicInv` is inductive for readers and writers together: the
  shapes of listings, requests and histories, which locks readers and writers
  hold, what the rows of the database look like (`DbInv`), and the snapshot chain
  of `CatalogProofs`, which holds without a further hypothesis because the writers
  of `Reads` have answered COMMITs. ReadsTypeOK follows.
* `AnswersProofs`. `AnswerInv` says, for each kind of request and each step of its
  handler, what the locals still have to do with the database; it holds together
  with `BasicInv`. The pivot is what a table that *kept its name* since the request
  began (`KeptInv`) still guarantees: its snapshots up to the one that was current
  then are there and what is visible at them has not changed. From this:
  `SnapshotFilesInv` and `SummaryInv` (rows read later, without a lock, are those
  of the snapshot resolved earlier), `ManifestsInv` (the two queries of a manifest
  list), `HistoryInv` (the limit cuts a chain at one end only). The listings need
  counting. For files, `SpanInv` orders the snapshots of the pages and `ListedInv`
  says that every file up to the token which the first and the last of them have
  is listed: such a file is visible at all snapshots in between, so it came with
  an earlier page, or its id lies in the window of the page that comes in. For tables, the offset is compared with
  the `Rank` of a table, the number of live tables before it: a new table comes
  behind all others, so ranks do not change unless a table is dropped, and a page
  brings those whose rank is between two offsets (`TablesInv`). `TwiceInv` is the
  same argument read the other way: what has come has a rank, or an id, below the
  next token, even if tables were dropped. `AddsUpOneSnapshot` is the part of
  StatsExact and ColumnsExact that commits could break: the rows that are added up
  are exactly the files of one snapshot.
* `StatsProofs`. The other part: what the loops compute, for every list of files.
  Induction over a loop is done with the least round at which it would differ
  from what is claimed of it (`SameRounds`, from `LeastNat` and the library's
  `WFMin`, which takes a set and no operator). `TotalledRounds`, `WithFileRounds`
  and `WithFilesRounds` say of each loop that whatever starts like it and goes on
  round by round like it ends like it. What goes on like it is the reference over
  the files so far: one more member adds its number to a sum (`SumMore`, by
  counting), and changes the least or greatest bound only if it has one that is
  smaller or greater (`LeastMore`, `GreatestMore`), which is what Merge does, with
  `hasMin` set exactly when some bound is (`AggMore`, `AggStep`). So TotalsExact
  and BoundsExact hold for all files and all their orders. `RowsInOrder` shows that
  the query has a row at each place of its order (as many ranks as rows, none
  twice), and with `AddsUpOneSnapshot` StatsExact and ColumnsExact follow.
* `LRUProofs`. `IInv` ties map, list and history together: no key twice in the
  list, the map's keys are the list's, the length is within the capacity, and the
  list has its keys in the order of the history (`InStep`). That order is what
  makes EvictsOldest inductive: the last entry was used before every other one.
  `NthFacts` and `KeepFacts` say that removing elements keeps the rest in order
  (the j-th index of a finite set of naturals exists and grows with j);
  `FrontStep` covers every call that puts an entry in front, hit or miss. For the
  refinement, the list has as many entries as places (`CountFacts`), so a full
  list is a full set and its last entry is the victim.

Only model-checked:

* RequestsFinish and Released: liveness under fairness is beyond the prover;
* the violations, of course: they are counterexamples on small instances.

## What is left out

* Not modelled at all: the generated gRPC code, the configuration (environment
  variables read once), the benchmark and the test support; opening and closing
  the connection pool; the JSON encoding of column statistics.
* `disableCache`, a configuration in which every read goes to the database.
* File paths, properties, timestamps, isolation levels, the cache's hit, miss and
  eviction counters; counts and sizes appear only where a read adds them up.
* The foreign key from `transactions` to `tables`: it makes a purge of a table
  with transactions fail, and a failing DropTable changes nothing.
* Unanswered COMMITs of AlterTable and of RenameTable. DropTable's are in
  `Catalog` as ones that take effect at once, or not at all; one that takes effect
  after the lock is released is not. Of an unanswered CommitSnapshot all the rows
  and marks appear when it takes effect; a commit that waited behind it might in
  PostgreSQL miss its rows when it marks deleted keys. No property checked with
  unanswered COMMITs depends on those marks.
* RequestsFinish is about waits inside a handler: a request that waits for its
  first lock has not begun in the model.
* FilesListed speaks of a first page that was served from the snapshot current
  when the listing began, or from an older one. A first page that failed and was
  asked for again after a commit is not held to anything.
* A row of `transactions` that stays `active` for good, because its UPDATE failed
  after the memory had been changed or because a restart lost the memory, is
  reachable. The code has nothing that would repair it, so no property forbids it.
* Snapshots are listed by `committed_at`; the model takes their ids for it. The
  commits of a table are serialised by its lock, so the two orders agree as long
  as the clock does not step back.
* Negative row counts and sizes, which the code does not refuse; the division of
  an average would round them differently.
* Reads through the cache together with the reads of `Reads`: they share no state
  but the database and the locks, so each is composed with the writers alone.
* Requests that the handlers refuse at once (an empty name, a missing table).

## Plan

1. Done: Catalog, Transactions, Evolution with their runs and first theorems.
2. Done: the LRU list and the bounded set it implements; the log of snapshots
   and Catalog as its implementation; the reads without the cache, in pages and
   in several queries, racing with writers; the aggregation of statistics; the
   conversions and reads of partition specs.
3. Done: the refinement of `SnapshotLog` and the coherence of the cache; what the
   reads promise (listings, histories, manifests, counts); the LRU list, its order
   and its refinement of `BoundedCache`.
4. Done: that the loops of `ColumnStats` compute sums and bounds, and with it
   StatsExact and ColumnsExact. No safety property of a passing run is left
   unproved; the two liveness properties stay with TLC.
5. Done: `Evolution` with the lock as state, renames and soft drops, and its
   proofs anew: that the exclusive lock keeps what an alteration or a commit has
   read is now a lemma instead of an action's atomicity.
