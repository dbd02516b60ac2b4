------------------------------- MODULE Reads -------------------------------
(***************************************************************************)
(* The read RPCs of IceCore that do not go through the partition cache,    *)
(* composed with the writers of Catalog: GetPartitions in pages,           *)
(* ListTables, GetPartitionStats, GetColumnStats, GetSnapshot,             *)
(* ListSnapshots, GetManifestList and GetManifest.                         *)
(*                                                                         *)
(* Most of them take no lock and put their answer together from several    *)
(* queries, and the pages of a listing are requests of their own, so       *)
(* commits, renames and drops come in between. A reader is a client that   *)
(* has one listing or one request going, and the goroutine that serves it. *)
(* What the database can do to a reader depends on the tables only, so the *)
(* history variable watch notes, for each reader, which tables have kept   *)
(* their name since it began.                                              *)
(***************************************************************************)
EXTENDS Catalog, ColumnStats

CONSTANTS
    Readers,       \* the processes that serve these reads
    AskedFor,      \* names of the tables that the requests ask for
    Stride,        \* partition_id: see PartitionID
    PageSize,      \* page_size of the paged requests
    NoPageSize,    \* the limit ListTables takes without a page size (100)
    Limit,         \* limit of ListSnapshots
    NoLimit,       \* the limit it takes without one (50)
    RowCount,      \* <<key, snapshot>> -> rows of the file added there
    SizeBytes,     \* <<key, snapshot>> -> bytes of the file
    FileStats      \* <<key, snapshot>> -> column statistics of the file

\* Counts and sizes are those of real files, never negative. The code does not
\* refuse negative ones; for these its division would round towards 0, and \div
\* rounds down.
ASSUME ReadsAssumption ==
    /\ Readers \subseteq Procs /\ AskedFor \subseteq Names
    /\ Stride \in Nat /\ Keys \subseteq 0 .. Stride - 1
    /\ {PageSize, NoPageSize, Limit, NoLimit} \subseteq Nat \ {0}
    /\ RowCount \in [Keys \X SnapIds -> Nat] /\ SizeBytes \in [Keys \X SnapIds -> Nat]
    /\ FileStats \in [Keys \X SnapIds -> Seq(ColumnStat)]

VARIABLES
    scan,    \* reader -> the listing that the client reads page by page
    call,    \* reader -> the request being served
    watch    \* reader -> history of the tables since the reader began

catalogVars == vars
readVars    == <<scan, call, watch>>

Writers == Procs \ Readers

LiveTables == { t \in TableIds : tables[t].state = "live" }

(***************************************************************************)
(* A listing of files (of name, at snapshot ask) or of tables. token is    *)
(* the page token, got what the pages have brought so far, again whether   *)
(* one of them brought something a second time; tids, first and last are   *)
(* the tables that the pages came from and the snapshots of the first and  *)
(* of the last page.                                                       *)
(***************************************************************************)
NoScan == [kind |-> "none", name |-> None, ask |-> 0, size |-> 0, token |-> 0, got |-> {},
           again |-> FALSE, done |-> FALSE, tids |-> {}, first |-> 0, last |-> 0]

NoCall == [at |-> "idle", name |-> None, tid |-> 0, snap |-> 0, rows |-> {}, count |-> 0]

\* kept: of the tables that the reader asked for, the ones that have been
\* live under one name since it began; head: the current snapshot then of the
\* table it asked for by name; lost: whether a table has been dropped since.
NoWatch == [kept |-> {}, head |-> 0, lost |-> FALSE]

Kept(r) == watch[r].kept

\* The reader begins with table n, or with all tables.
Begin(r, n) ==
    watch' = [watch EXCEPT ![r] =
        [kept |-> { t \in TableIds : IsLive(t, n) }, head |-> GetCurrentSnapshot(n), lost |-> FALSE]]

BeginAll(r) == watch' = [watch EXCEPT ![r] = [NoWatch EXCEPT !.kept = LiveTables]]

End(r) == watch' = [watch EXCEPT ![r] = NoWatch]

Answered(r) == call' = [call EXCEPT ![r] = NoCall]

-----------------------------------------------------------------------------
(* Queries *)

\* snapshot_id 0 is the current snapshot.
ResolveSnapshot(n, s) == IF s # 0 THEN s ELSE GetCurrentSnapshot(n)

\* Sequence numbers of partition rows: the commits of a table insert their
\* rows one after the other, each in the order of its request.
PartitionID(f) == f.snap * Stride + f.key

\* OFFSET off LIMIT n of the rows S, which the query orders by rank.
Window(S, off, n, rank(_)) ==
    { x \in S : LET before == Cardinality({ y \in S : rank(y) < rank(x) })
                IN  off <= before /\ before < off + n }

\* Mutant: the last row of a page comes again on the next one.
PagedFromLast(t, s, last) ==
    Window({ f \in Visible(t, s) : PartitionID(f) >= last }, 0, PageSize, PartitionID)

\* Mutant: a page after the first one starts one row late.
PagedSkipping(t, s, last) ==
    Window({ f \in Visible(t, s) : PartitionID(f) > last }, IF last = 0 THEN 0 ELSE 1,
           PageSize, PartitionID)

QueryPartitionsPaged(t, s, last) ==
    Window({ f \in Visible(t, s) : PartitionID(f) > last }, 0, PageSize, PartitionID)

\* The rows of a query in its order.
InOrder(rows) ==
    [i \in 1 .. Cardinality(rows) |->
        CHOOSE f \in rows :
            Cardinality({ g \in rows : PartitionID(g) < PartitionID(f) }) = i - 1]

\* Mutant: oldest first.
OldestSnapshotRows(t, limit) == Window(SnapshotsOf(t), 0, limit, LAMBDA s : s.id)

\* ORDER BY committed_at DESC: the commits of a table are in the order of
\* their snapshot ids.
ListSnapshotRows(t, limit) == Window(SnapshotsOf(t), 0, limit, LAMBDA s : -s.id)

\* Mutant: the next page skips a row.
SkippingRows(off, n) ==
    Window(LiveTables, IF off = 0 THEN 0 ELSE off + 1, n, LAMBDA t : t)

ListTablesRows(off, n) == Window(LiveTables, off, n, LAMBDA t : t)

Summary(t) == [tid |-> t, name |-> tables[t].name, current |-> tables[t].current, count |-> 0]

-----------------------------------------------------------------------------
(* GetPartitions with a page size: each page under the shared lock *)

GetPartitionsPaged(r, n, s) ==
    /\ call[r].at = "idle"
    /\ \/ scan[r] = NoScan /\ Begin(r, n)
       \/ /\ scan[r].kind = "files" /\ scan[r].name = n /\ scan[r].ask = s
          /\ ~scan[r].done
          /\ UNCHANGED watch
    /\ CanRLock(n)
    /\ RLock(r, n)
    /\ scan' = [scan EXCEPT ![r].kind = "files", ![r].name = n, ![r].ask = s]
    /\ call' = [call EXCEPT ![r] = [NoCall EXCEPT !.at = "page_query", !.name = n,
                                                  !.snap = ResolveSnapshot(n, s)]]
    /\ UNCHANGED <<db, xlock, cache, op>>

\* What a page adds to the listing; without rows there is no next token.
NextPage(sc, t, s, page) ==
    [sc EXCEPT !.got   = @ \cup page,
               !.again = @ \/ sc.got \cap page # {},
               !.token = IF page = {} THEN @ ELSE Max({ PartitionID(f) : f \in page }),
               !.done  = page = {},
               !.tids  = @ \cup {t},
               !.first = IF sc.tids = {} THEN s ELSE @,
               !.last  = s]

PageQuery(r) ==
    LET t == GetTableID(call[r].name)
        s == call[r].snap
    IN  /\ call[r].at = "page_query"
        /\ IF t = 0
           THEN scan' = [scan EXCEPT ![r] = NoScan] /\ End(r)
           ELSE /\ scan' = [scan EXCEPT ![r] =
                      NextPage(@, t, s, QueryPartitionsPaged(t, s, scan[r].token))]
                /\ UNCHANGED watch
        /\ RUnlock(r, call[r].name)
        /\ Answered(r)
        /\ UNCHANGED <<db, xlock, cache, op>>

-----------------------------------------------------------------------------
(* ListTables: the tables of a page in one query, without a lock, then the *)
(* partition count of each one that has a snapshot, by name, in two.       *)

ListTables(r, size) ==
    LET n    == IF size > 0 THEN size ELSE NoPageSize
        page == ListTablesRows(scan[r].token, n)
    IN  /\ call[r].at = "idle"
        /\ \/ scan[r] = NoScan /\ BeginAll(r)
           \/ /\ scan[r].kind = "tables" /\ scan[r].size = size /\ ~scan[r].done
              /\ UNCHANGED watch
        /\ scan' = [scan EXCEPT ![r].kind = "tables", ![r].size = size]
        /\ call' = [call EXCEPT ![r] = [NoCall EXCEPT !.at = "tables_next",
                                          !.rows = { Summary(t) : t \in page }]]
        /\ UNCHANGED catalogVars

Uncounted(r) == { x \in call[r].rows : x.current > 0 /\ x.tid > call[r].count }

\* GetVisiblePartitionCount of the next table: its id by name ...
CountTable(r) ==
    /\ call[r].at = "tables_next"
    /\ \E x \in Uncounted(r) :
          /\ \A y \in Uncounted(r) : x.tid <= y.tid
          /\ call' = [call EXCEPT ![r].at = "tables_count", ![r].count = x.tid,
                                  ![r].tid = GetTableID(x.name), ![r].snap = x.current]
    /\ UNCHANGED <<catalogVars, scan, watch>>

\* Mutant: counted at the snapshot that is current by now.
CountCurrent(r) ==
    /\ call[r].at = "tables_count"
    /\ call' = [call EXCEPT ![r].at = "tables_next",
                  ![r].rows = { IF x.tid # call[r].count THEN x
                                ELSE [x EXCEPT !.count =
                                        Cardinality(Visible(call[r].tid, tables[x.tid].current))]
                                : x \in @ }]
    /\ UNCHANGED <<catalogVars, scan, watch>>

\* ... and the rows of that id.
CountPartitions(r) ==
    /\ call[r].at = "tables_count"
    /\ call' = [call EXCEPT ![r].at = "tables_next",
                  ![r].rows = { IF x.tid # call[r].count THEN x
                                ELSE [x EXCEPT !.count = Cardinality(Visible(call[r].tid, call[r].snap))]
                                : x \in @ }]
    /\ UNCHANGED <<catalogVars, scan, watch>>

\* A full page has a next token, if a page size was asked for.
TablesReply(r) ==
    /\ call[r].at = "tables_next"
    /\ Uncounted(r) = {}
    /\ scan' = [scan EXCEPT ![r].got = @ \cup { x.tid : x \in call[r].rows },
                            ![r].again = @ \/ scan[r].got \cap { x.tid : x \in call[r].rows } # {},
                            ![r].token = @ + Cardinality(call[r].rows),
                            ![r].done = scan[r].size = 0 \/ Cardinality(call[r].rows) # scan[r].size]
    /\ Answered(r)
    /\ UNCHANGED <<catalogVars, watch>>

\* The client has the whole listing, or gives it up.
ScanEnd(r) ==
    /\ scan[r].kind # "none" /\ call[r].at = "idle"
    /\ scan' = [scan EXCEPT ![r] = NoScan]
    /\ End(r)
    /\ UNCHANGED <<catalogVars, call>>

-----------------------------------------------------------------------------
(* Requests of one answer. The ones without a lock look the table up by    *)
(* name in one query and read its rows by id in the next.                  *)

\* A client sends a request; its first query finds table t (0 is none) or
\* resolves snapshot s, and step at is next.
Request(r, at, n, t, s) ==
    /\ call[r].at = "idle" /\ scan[r] = NoScan
    /\ Begin(r, n)
    /\ call' = [call EXCEPT ![r] = [NoCall EXCEPT !.at = at, !.name = n, !.tid = t, !.snap = s]]

\* GetPartitionStats resolves the current snapshot under the shared lock.
GetPartitionStats(r, n) ==
    /\ CanRLock(n)
    /\ RLock(r, n)
    /\ Request(r, "stats_query", n, 0, GetCurrentSnapshot(n))
    /\ UNCHANGED <<db, xlock, cache, op, scan>>

\* Mutant: the answer goes out with the lock held.
StatsQueryLocked(r) ==
    LET t == GetTableID(call[r].name)
    IN  /\ call[r].at = "stats_query"
        /\ call' = [call EXCEPT ![r].at = "stats_reply", ![r].tid = t,
                                ![r].rows = IF t = 0 THEN {} ELSE Visible(t, call[r].snap)]
        /\ UNCHANGED <<catalogVars, scan, watch>>

StatsQuery(r) ==
    LET t == GetTableID(call[r].name)
    IN  /\ call[r].at = "stats_query"
        /\ call' = [call EXCEPT ![r].at = "stats_reply", ![r].tid = t,
                                ![r].rows = IF t = 0 THEN {} ELSE Visible(t, call[r].snap)]
        /\ RUnlock(r, call[r].name)
        /\ UNCHANGED <<db, xlock, cache, op, scan, watch>>

\* GetColumnStats: a table without snapshots is not found.
GetColumnStatsCall(r, n, s) ==
    /\ ResolveSnapshot(n, s) # 0
    /\ Request(r, "columns_table", n, 0, ResolveSnapshot(n, s))
    /\ UNCHANGED <<catalogVars, scan>>

ColumnsTable(r) ==
    LET t == GetTableID(call[r].name)
    IN  /\ call[r].at = "columns_table"
        /\ IF t = 0
           THEN Answered(r) /\ End(r)
           ELSE call' = [call EXCEPT ![r].at = "columns_query", ![r].tid = t] /\ UNCHANGED watch
        /\ UNCHANGED <<catalogVars, scan>>

\* The others look the table up first; a missing table ends the request.
GetSnapshot(r, n, s) ==
    /\ GetTableID(n) # 0
    /\ Request(r, "snapshot_query", n, GetTableID(n), s)
    /\ UNCHANGED <<catalogVars, scan>>

\* The limit stays with the call, in its snap.
ListSnapshots(r, n, limit) ==
    /\ GetTableID(n) # 0
    /\ Request(r, "history_query", n, GetTableID(n), IF limit > 0 THEN limit ELSE NoLimit)
    /\ UNCHANGED <<catalogVars, scan>>

\* snapshot_id is required.
GetManifestList(r, n, s) ==
    /\ s # 0 /\ GetTableID(n) # 0
    /\ Request(r, "manifests_list", n, GetTableID(n), s)
    /\ UNCHANGED <<catalogVars, scan>>

\* The query that the reply is made of.
ReadRows(r, from, to, rows) ==
    /\ call[r].at = from
    /\ call' = [call EXCEPT ![r].at = to, ![r].rows = rows]
    /\ UNCHANGED <<catalogVars, scan, watch>>

ColumnsQuery(r) ==
    ReadRows(r, "columns_query", "columns_reply", Visible(call[r].tid, call[r].snap))

SnapshotQuery(r) ==
    ReadRows(r, "snapshot_query", "snapshot_reply",
             { s \in SnapshotsOf(call[r].tid) : s.id = call[r].snap })

HistoryQuery(r) ==
    ReadRows(r, "history_query", "history_reply", ListSnapshotRows(call[r].tid, call[r].snap))

\* The row of manifest_lists, if there is one.
ManifestListQuery(r) ==
    LET found == { s \in SnapshotsOf(call[r].tid) : s.id = call[r].snap }
    IN  /\ call[r].at = "manifests_list"
        /\ IF found = {}
           THEN Answered(r) /\ End(r)
           ELSE /\ \E s \in found :
                      call' = [call EXCEPT ![r].at = "manifests_files",
                                           ![r].count = Cardinality(s.manifests)]
                /\ UNCHANGED watch
        /\ UNCHANGED <<catalogVars, scan>>

\* Mutant: the condition on the snapshot is missing.
ManifestFilesAll(s) ==
    UNION { { [snap |-> x.id, manifest |-> m] : m \in x.manifests } : x \in snapshots }

\* The manifest files of a snapshot are looked up by its id alone.
ManifestFiles(s) ==
    UNION { { [snap |-> x.id, manifest |-> m] : m \in x.manifests } :
              x \in { y \in snapshots : y.id = s } }

ManifestFilesQuery(r) ==
    ReadRows(r, "manifests_files", "manifests_reply", ManifestFiles(call[r].snap))

\* A join with the live table of the name.
GetManifestFile(n, m) ==
    { f \in {m} : \E x \in snapshots : x.id = f.snap /\ IsLive(x.table, n) }

\* The client goes on to GetManifest for one manifest of the list.
GetManifest(r) ==
    /\ call[r].at = "manifests_reply"
    /\ \E m \in call[r].rows :
          call' = [call EXCEPT ![r].at = "manifest_reply",
                               ![r].rows = GetManifestFile(call[r].name, m)]
    /\ UNCHANGED <<catalogVars, scan, watch>>

Replies == {"stats_reply", "columns_reply", "snapshot_reply", "history_reply",
            "manifests_reply", "manifest_reply"}

Reply(r) ==
    /\ call[r].at \in Replies
    /\ Answered(r)
    /\ End(r)
    /\ UNCHANGED <<catalogVars, scan>>

\* An error of the database ends the request; the client may ask for the
\* page again.
ReadFail(r) ==
    /\ call[r].at \notin Replies \cup {"idle"}
    /\ slock' = [n \in Names |-> slock[n] \ {r}]
    /\ Answered(r)
    /\ IF scan[r] = NoScan THEN End(r) ELSE UNCHANGED watch
    /\ UNCHANGED <<db, xlock, cache, op, scan>>

-----------------------------------------------------------------------------
\* What a step of the catalog means for the readers.
Watch ==
    watch' = [r \in Readers |->
        [watch[r] EXCEPT
            !.kept = { t \in @ : tables'[t].state = "live" /\ tables'[t].name = tables[t].name },
            !.lost = \/ @
                     \/ /\ scan[r].kind = "tables"
                        /\ \E t \in LiveTables : tables'[t].state # "live"]]

\* Catalog's operations that write, with answered COMMITs; its cached reads are
\* not of this module.
Write(p) ==
    \/ \E n \in Names : CreateTable(p, n) \/ DropTable(p, n) \/ CommitLock(p, n)
    \/ \E n, new \in Names : RenameLockOld(p, n, new)
    \/ DropInvalidate(p)
    \/ RenameLockNew(p)
    \/ RenameExec(p)
    \/ RenameInvalidateOld(p)
    \/ RenameInvalidateNew(p)
    \/ CommitRead(p)
    \/ CommitInsert(p)
    \/ CommitFail(p)
    \/ \E add, del \in SUBSET Keys : CommitTx(p, add, del)
    \/ CommitInvalidate(p)

\* The clients' listings survive a restart of the server.
ReadRestart ==
    /\ Restart
    /\ call' = [r \in Readers |-> NoCall]
    /\ watch' = [r \in Readers |-> IF scan[r] = NoScan THEN NoWatch ELSE watch[r]]
    /\ UNCHANGED scan

Read(r) ==
    \/ \E n \in AskedFor, s \in ReadAt : GetPartitionsPaged(r, n, s)
    \/ PageQuery(r)
    \/ \E size \in {0, PageSize} : ListTables(r, size)
    \/ CountTable(r)
    \/ CountPartitions(r)
    \/ TablesReply(r)
    \/ ScanEnd(r)
    \/ \E n \in AskedFor : GetPartitionStats(r, n)
    \/ StatsQuery(r)
    \/ \E n \in AskedFor, s \in ReadAt : GetColumnStatsCall(r, n, s)
    \/ ColumnsTable(r)
    \/ ColumnsQuery(r)
    \/ \E n \in AskedFor, s \in ReadAt : GetSnapshot(r, n, s)
    \/ SnapshotQuery(r)
    \/ \E n \in AskedFor, limit \in {0, Limit} : ListSnapshots(r, n, limit)
    \/ HistoryQuery(r)
    \/ \E n \in AskedFor, s \in ReadAt : GetManifestList(r, n, s)
    \/ ManifestListQuery(r)
    \/ ManifestFilesQuery(r)
    \/ GetManifest(r)
    \/ Reply(r)
    \/ ReadFail(r)

ReadsInit ==
    /\ Init
    /\ scan = [r \in Readers |-> NoScan]
    /\ call = [r \in Readers |-> NoCall]
    /\ watch = [r \in Readers |-> NoWatch]

ReadsNext ==
    \/ \E p \in Writers : Write(p) /\ Watch /\ UNCHANGED <<scan, call>>
    \/ \E r \in Readers : Read(r)
    \/ ReadRestart

ReadsSpec == ReadsInit /\ [][ReadsNext]_<<vars, readVars>>

-----------------------------------------------------------------------------
(* Properties *)

(***************************************************************************)
(* Listings, requests and histories have their shapes, and a reader holds  *)
(* a shared lock exactly while it serves a request that takes one: no path *)
(* out of a handler leaves the lock behind.                                *)
(***************************************************************************)
ReadsTypeOK ==
    \A r \in Readers :
        /\ scan[r].got \subseteq IF scan[r].kind = "tables" THEN TableIds ELSE FileRow
        /\ scan[r].token \in Nat
        /\ call[r].snap \in Nat /\ call[r].tid \in 0 .. MaxTables
        /\ Kept(r) \subseteq TableIds
        /\ { n \in Names : r \in slock[n] } =
              IF call[r].at \in {"page_query", "stats_query"} THEN {call[r].name} ELSE {}

(***************************************************************************)
(* No listing brings a row twice, whatever is committed, created or        *)
(* dropped between its pages.                                              *)
(***************************************************************************)
NothingTwice == \A r \in Readers : ~scan[r].again

(***************************************************************************)
(* A complete listing of files misses nothing: it has every file that is   *)
(* visible at the snapshot of its first page and at that of its last one,  *)
(* and no file that is visible at none from one to the other. A listing at *)
(* a committed snapshot is therefore exactly that snapshot, and one of the *)
(* current snapshot, whose pages may come from several, is off by nothing  *)
(* but the files added or deleted in the meantime.                         *)
(***************************************************************************)
FilesListed ==
    \A r \in Readers : \A t \in scan[r].tids \cap Kept(r) :
        scan[r].done /\ scan[r].first <= watch[r].head =>
            /\ Visible(t, scan[r].first) \cap Visible(t, scan[r].last) \subseteq scan[r].got
            /\ scan[r].got \subseteq
                  UNION { Visible(t, s) : s \in scan[r].first .. scan[r].last }

(***************************************************************************)
(* A complete listing of tables has every table that was there from its    *)
(* first page on, unless a table was dropped (the rows behind it move up,  *)
(* past the offset of the next page) or no page size was given and there   *)
(* are more tables than the default limit (no next token is sent then).    *)
(***************************************************************************)
TablesListed ==
    \A r \in Readers :
        /\ scan[r].kind = "tables" /\ scan[r].done /\ ~watch[r].lost
        /\ scan[r].size > 0 \/ Cardinality(LiveTables) <= NoPageSize
        => Kept(r) \subseteq scan[r].got

(***************************************************************************)
(* ListTables counts at the snapshot it reports: the partition count of a  *)
(* table that kept its name is that of the current_snapshot_id next to it, *)
(* though it is counted later, by name and without a lock.                 *)
(***************************************************************************)
SummaryExact ==
    \A r \in Readers : call[r].at = "tables_next" =>
        \A x \in call[r].rows \ Uncounted(r) : x.tid \in Kept(r) =>
            x.count = Cardinality(Visible(x.tid, x.current))

Totals(rows) ==
    LET files == InOrder(rows)
    IN  [i \in DOMAIN files |-> [rows  |-> RowCount[files[i].key, files[i].snap],
                                 bytes |-> SizeBytes[files[i].key, files[i].snap]]]

Stats(rows) ==
    LET files == InOrder(rows) IN [i \in DOMAIN files |-> FileStats[files[i].key, files[i].snap]]

(***************************************************************************)
(* The totals of GetPartitionStats are the true totals of one committed    *)
(* snapshot of the table.                                                  *)
(***************************************************************************)
StatsExact ==
    \A r \in Readers : call[r].at = "stats_reply" /\ call[r].tid \in Kept(r) =>
        GetStats(Totals(call[r].rows)) = TrueStats(Totals(Visible(call[r].tid, call[r].snap)))

(***************************************************************************)
(* GetColumnStats reports the true bounds, in string order, of the files   *)
(* that are visible at the snapshot id it reports, for a snapshot that was *)
(* committed when it was asked; files without a bound do not count.        *)
(***************************************************************************)
ColumnsExact ==
    \A r \in Readers :
        /\ call[r].at = "columns_reply" /\ call[r].tid \in Kept(r)
        /\ call[r].snap <= watch[r].head
        => GetColumnStats(Stats(call[r].rows))
              = TrueBounds(Stats(Visible(call[r].tid, call[r].snap)))

(***************************************************************************)
(* ListSnapshots returns a stretch of the table's history without gaps,    *)
(* from a snapshot no older than the current one when it was asked; it     *)
(* goes back to the first snapshot unless the limit cuts it off. And the   *)
(* snapshot that was current then can be fetched.                          *)
(***************************************************************************)
HistoryIsChain ==
    \A r \in Readers :
        LET rows == call[r].rows
            head == watch[r].head
        IN  call[r].tid \in Kept(r) =>
              /\ call[r].at = "history_reply" =>
                    /\ head # 0 => \E s \in rows : s.id >= head
                    /\ \A s \in rows :
                          \/ s.parent \in { q.id : q \in rows }
                          \/ \A q \in rows : s.id <= q.id
                    /\ Cardinality(rows) < call[r].snap => \A s \in rows :
                          s.parent = 0 \/ s.parent \in { q.id : q \in rows }
              /\ call[r].at = "snapshot_reply" /\ call[r].snap = head /\ head # 0 =>
                    \E s \in rows : s.id = head

(***************************************************************************)
(* A manifest list is complete: unless the table is dropped or renamed     *)
(* between the queries, GetManifestList returns as many manifests as it    *)
(* says, they are those of the one snapshot and account for every          *)
(* partition key that its commit added or deleted, and each of them can be *)
(* fetched by GetManifest.                                                 *)
(***************************************************************************)
ManifestsExact ==
    \A r \in Readers : call[r].tid \in Kept(r) =>
        /\ call[r].at = "manifests_reply" =>
              /\ Cardinality(call[r].rows) = call[r].count
              /\ \E s \in SnapshotsOf(call[r].tid) :
                    /\ s.id = call[r].snap
                    /\ s.added = UNION { m.manifest.added : m \in call[r].rows }
                    /\ s.deleted = UNION { m.manifest.deleted : m \in call[r].rows }
        /\ call[r].at = "manifest_reply" => call[r].rows # {}

=============================================================================
