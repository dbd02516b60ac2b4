--------------------------- MODULE AnswersProofs ---------------------------
(***************************************************************************)
(* What the answers of Reads say, for every number of readers, writers,    *)
(* tables, keys and snapshots, although commits, renames and drops come    *)
(* between the queries that an answer is made of and between the pages of  *)
(* a listing.                                                              *)
(***************************************************************************)
EXTENDS ReadsProofs

-----------------------------------------------------------------------------
(* The answers of one request *)

\* The newest n snapshots of a table are a stretch of its history.
LEMMA HistoryRows ==
    ASSUME BasicInv, NEW t \in TableIds, NEW n \in Nat, n > 0,
           NEW rows, rows = ListSnapshotRows(t, n)
    PROVE  /\ tables[t].current # 0 => \E s \in rows : s.id = tables[t].current
           /\ \A s \in rows : s.parent \in { q.id : q \in rows } \/ \A q \in rows : s.id <= q.id
           /\ Cardinality(rows) < n => \A s \in rows :
                 s.parent = 0 \/ s.parent \in { q.id : q \in rows }
  <1>1. PICK S, w : S = SnapshotsOf(t) /\ w = [s \in S |-> -s.id]
    OBVIOUS
  <1>2. /\ S \subseteq snapshots /\ S \subseteq SnapshotRow
        /\ \A s \in S : s.id \in Nat /\ s.parent \in Nat /\ s.table = t /\ w[s] = -s.id
        /\ w \in [S -> Int]
    BY <1>1 DEF BasicInv, IInv, TypeOK, SnapshotsOf, SnapshotRow, SnapIds
  <1>3. IsFiniteSet(S)
    BY <1>2, FS_Subset DEF BasicInv, DbInv
  <1>4. \A x, y \in S : w[x] = w[y] => x = y
    BY <1>2 DEF BasicInv, DbInv
  <1>5. rows = Page(S, w, 0, n)
    <2>1. \A x \in S : { y \in S : -y.id < -x.id } = { y \in S : w[y] < w[x] }
      BY <1>2
    <2>2. rows = { x \in S : LET before == Cardinality({ y \in S : -y.id < -x.id })
                             IN  0 <= before /\ before < 0 + n }
      BY <1>1 DEF ListSnapshotRows, Window
    <2> QED
      BY <2>1, <2>2 DEF Page, Before
  <1>6. ASSUME NEW x \in S, NEW y \in rows, y.id <= x.id
        PROVE  x \in rows
    <2>1. y \in S /\ Before(S, w, y) < 0 + n /\ w[x] <= w[y]
      BY <1>2, <1>5, <1>6 DEF Page
    <2>2. Before(S, w, x) \in Nat /\ Before(S, w, y) \in Nat /\ Before(S, w, x) <= Before(S, w, y)
      BY <1>2, <1>3, <2>1, BeforeMono
    <2> QED
      BY <1>5, <2>1, <2>2 DEF Page
  <1>7. rows \subseteq S
    BY <1>5 DEF Page
  <1>8. /\ \A s \in S : s.id <= tables[t].current /\ (s.parent # 0 => \E q \in S : q.id = s.parent)
        /\ tables[t].current # 0 => \E s \in S : s.id = tables[t].current
    BY <1>1 DEF BasicInv, LinearInv, LinearHistory
  <1>9. tables[t].current # 0 => \E s \in rows : s.id = tables[t].current
    <2> SUFFICES ASSUME NEW s \in S, s.id = tables[t].current
                 PROVE  s \in rows
      BY <1>8
    <2>1. { y \in S : w[y] < w[s] } = {}
      BY <1>2, <1>8
    <2>2. Before(S, w, s) = 0
      BY <2>1, FS_EmptySet DEF Before
    <2> QED
      BY <1>5, <2>2 DEF Page
  <1>10. ASSUME NEW s \in rows, NEW q \in rows, ~ (s.id <= q.id)
         PROVE  s.parent \in { x.id : x \in rows }
    <2>1. s \in S /\ q \in S /\ s.id \in Nat /\ q.id \in Nat /\ s.parent \in Nat
      BY <1>2, <1>7
    <2>2. q.id <= s.parent
      BY <1>2, <1>10, <2>1 DEF BasicInv, DbInv
    <2>3. CASE s.parent = 0
      BY <2>1, <2>2, <2>3
    <2>4. CASE s.parent # 0
      <3>1. PICK x \in S : x.id = s.parent
        BY <1>8, <2>1, <2>4
      <3>2. x \in rows
        BY <1>6, <2>2, <3>1
      <3> QED
        BY <3>1, <3>2
    <2> QED
      BY <2>3, <2>4
  <1>11. ASSUME Cardinality(rows) < n, NEW s \in rows, s.parent # 0
         PROVE  s.parent \in { x.id : x \in rows }
    <2>1. PICK x \in S : x.id = s.parent
      BY <1>7, <1>8, <1>11
    <2>2. 0 <= Before(S, w, x)
      BY <1>2, <1>3, BeforeMono
    <2>3. x \in Page(S, w, 0, n)
      BY <1>2, <1>3, <1>4, <1>5, <1>11, <2>2, PageShort
    <2> QED
      BY <1>5, <2>1, <2>3
  <1> QED
    BY <1>9, <1>10, <1>11

\* The query that an answer is made of.
LEMMA ReadRowsCall ==
    ASSUME BasicInv, NEW r \in Readers, NEW from, NEW to, NEW rows, ReadRows(r, from, to, rows)
    PROVE  /\ call[r].at = from /\ call'[r].at = to /\ call'[r].rows = rows
           /\ call'[r].name = call[r].name /\ call'[r].tid = call[r].tid
           /\ call'[r].snap = call[r].snap /\ call'[r].count = call[r].count
           /\ watch' = watch
  <1>1. call \in [Readers -> CallRow]
    BY DEF BasicInv, ShapeInv
  <1>2. call'[r] = [call[r] EXCEPT !.at = to, !.rows = rows]
    BY <1>1 DEF ReadRows
  <1>3. call[r] \in CallRow
    BY <1>1
  <1> QED
    BY <1>2, <1>3 DEF ReadRows, CallRow

\* The stretch of history that ListSnapshots has read, and the snapshot that
\* GetSnapshot has read.
HistoryInv(r) ==
    /\ call[r].at = "history_query" => call[r].snap > 0
    /\ call[r].tid \in Kept(r) =>
          /\ call[r].at = "history_reply" =>
                /\ watch[r].head # 0 => \E s \in call[r].rows : s.id >= watch[r].head
                /\ \A s \in call[r].rows :
                      \/ s.parent \in { q.id : q \in call[r].rows }
                      \/ \A q \in call[r].rows : s.id <= q.id
                /\ Cardinality(call[r].rows) < call[r].snap => \A s \in call[r].rows :
                      s.parent = 0 \/ s.parent \in { q.id : q \in call[r].rows }
          /\ call[r].at = "snapshot_reply" /\ call[r].snap = watch[r].head /\ watch[r].head # 0 =>
                \E s \in call[r].rows : s.id = watch[r].head

\* Every step keeps what HistoryInv says of ListSnapshots and GetSnapshot.
LEMMA HistoryStep ==
    ASSUME BasicInv, [ReadsNext]_<<vars, readVars>>, NEW r \in Readers, KeptInv(r), HistoryInv(r)
    PROVE  HistoryInv(r)'
  <1>a. /\ call \in [Readers -> CallRow] /\ call[r] \in CallRow /\ Kept(r) \subseteq TableIds
        /\ call[r].snap \in Nat /\ watch[r].head \in Nat
        /\ \A t \in TableIds : tables[t].current \in Nat
    BY DEF BasicInv, ShapeInv, WatchRow, Kept, CallRow, SnapIds, IInv, TypeOK, TableRow
  <1>1. CASE Calm(r) /\ (call'[r] = call[r] \/ call'[r] = NoCall)
    BY <1>1 DEF Calm, HistoryInv, NoCall
  <1>2. CASE Read(r)
    <2>1. ASSUME call'[r].at = "history_query"
          PROVE  call'[r].snap > 0
      <3>1. PICK n \in AskedFor, limit \in {0, Limit} : ListSnapshots(r, n, limit)
        BY <1>2, <2>1, ReadInto
      <3> QED
        BY <1>a, <3>1, ReadsConstants DEF ListSnapshots, Request, NoCall
    <2>2. CASE call'[r].at = "history_reply"
      <3>1. HistoryQuery(r)
        BY <1>2, <2>2, ReadInto
      <3>2. /\ call[r].at = "history_query" /\ call'[r].at = "history_reply"
            /\ call'[r].rows = ListSnapshotRows(call[r].tid, call[r].snap)
            /\ call'[r].tid = call[r].tid /\ call'[r].snap = call[r].snap /\ watch' = watch
        BY <3>1, ReadRowsCall DEF HistoryQuery
      <3> SUFFICES ASSUME call[r].tid \in Kept(r)
                   PROVE  HistoryInv(r)'
        BY <3>2 DEF HistoryInv, Kept
      <3> DEFINE t == call[r].tid
                 rows == call'[r].rows
      <3>3. t \in TableIds /\ call[r].snap \in Nat /\ call[r].snap > 0
            /\ watch[r].head <= tables[t].current
        BY <1>a, <3>2 DEF HistoryInv, KeptInv
      <3>4. /\ tables[t].current # 0 => \E s \in rows : s.id = tables[t].current
            /\ \A s \in rows : s.parent \in { q.id : q \in rows } \/ \A q \in rows : s.id <= q.id
            /\ Cardinality(rows) < call[r].snap => \A s \in rows :
                  s.parent = 0 \/ s.parent \in { q.id : q \in rows }
        BY <3>2, <3>3, HistoryRows
      <3>5. watch[r].head # 0 => \E s \in rows : s.id >= watch[r].head
        BY <1>a, <3>3, <3>4
      <3> HIDE DEF rows
      <3> QED
        BY <3>2, <3>4, <3>5 DEF HistoryInv, rows
    <2>3. CASE call'[r].at = "snapshot_reply"
      <3>1. SnapshotQuery(r)
        BY <1>2, <2>3, ReadInto
      <3>2. /\ call'[r].rows = { s \in SnapshotsOf(call[r].tid) : s.id = call[r].snap }
            /\ call'[r].tid = call[r].tid /\ call'[r].snap = call[r].snap /\ watch' = watch
        BY <3>1, ReadRowsCall DEF SnapshotQuery
      <3> QED
        BY <2>3, <3>2 DEF HistoryInv, KeptInv, Kept
    <2> QED
      BY <2>1, <2>2, <2>3 DEF HistoryInv
  <1> QED
    BY <1>1, <1>2, OthersCalm

\* GetPartitionStats and GetColumnStats have the files of one committed
\* snapshot.
SnapshotFilesInv(r) ==
    \A t \in Kept(r) :
        /\ call[r].at \in {"stats_query", "stats_reply"} => call[r].snap = watch[r].head
        /\ call[r].at = "stats_reply" /\ call[r].tid = t => call[r].rows = Visible(t, call[r].snap)
        /\ call[r].at = "columns_reply" /\ call[r].tid = t /\ call[r].snap <= watch[r].head =>
              call[r].rows = Visible(t, call[r].snap)

\* Every step keeps what SnapshotFilesInv says of the two statistics.
LEMMA SnapshotFilesStep ==
    ASSUME BasicInv, [ReadsNext]_<<vars, readVars>>, NEW r \in Readers, KeptInv(r),
           SnapshotFilesInv(r)
    PROVE  SnapshotFilesInv(r)'
  <1>a. /\ call \in [Readers -> CallRow] /\ call[r] \in CallRow /\ Kept(r) \subseteq TableIds
        /\ call[r].snap \in Nat /\ watch[r].head \in Nat /\ TypeOK
        /\ watch \in [Readers -> WatchRow]
        /\ \A t \in TableIds : tables[t].current \in Nat
    BY DEF BasicInv, ShapeInv, WatchRow, Kept, CallRow, SnapIds, IInv, TypeOK, TableRow
  <1>1. CASE Calm(r) /\ (call'[r] = call[r] \/ call'[r] = NoCall)
    <2>1. CASE call'[r] = NoCall
      BY <2>1 DEF SnapshotFilesInv, NoCall
    <2>2. CASE call'[r] = call[r]
      <3> SUFFICES ASSUME NEW t \in Kept(r)'
                   PROVE  /\ call[r].at \in {"stats_query", "stats_reply"} =>
                                call[r].snap = watch'[r].head
                          /\ call[r].at = "stats_reply" /\ call[r].tid = t =>
                                call[r].rows = Visible(t, call[r].snap)'
                          /\ /\ call[r].at = "columns_reply" /\ call[r].tid = t
                             /\ call[r].snap <= watch'[r].head
                             => call[r].rows = Visible(t, call[r].snap)'
        BY <2>2 DEF SnapshotFilesInv, Visible
      <3>1. /\ t \in Kept(r) /\ t \in TableIds /\ watch'[r].head = watch[r].head
            /\ \A s \in 0 .. tables[t].current : Visible(t, s)' = Visible(t, s)
            /\ watch[r].head <= tables[t].current
        BY <1>1, <1>a DEF Calm, KeptInv
      <3> QED
        BY <1>a, <2>2, <3>1 DEF SnapshotFilesInv
    <2> QED
      BY <1>1, <2>1, <2>2
  <1>2. CASE Read(r) /\ UNCHANGED <<tables, snapshots, partitions>>
    <2>a. \A t, s : Visible(t, s)' = Visible(t, s)
      BY <1>2 DEF Visible, VisibleAt
    <2>1. CASE call'[r].at = "stats_query"
      <3>1. PICK n \in AskedFor : GetPartitionStats(r, n)
        BY <1>2, <2>1, ReadInto
      <3>2. Begin(r, n) /\ call'[r].snap = GetCurrentSnapshot(n)
        BY <1>a, <3>1 DEF GetPartitionStats, Request, NoCall
      <3>3. watch'[r].head = GetCurrentSnapshot(n)
        BY <1>a, <3>2, BeginType
      <3> QED
        BY <2>1, <3>2, <3>3 DEF SnapshotFilesInv
    <2>2. CASE call'[r].at = "stats_reply"
      <3>1. StatsQuery(r)
        BY <1>2, <2>2, ReadInto
      <3>2. /\ call[r].at = "stats_query" /\ call'[r].snap = call[r].snap /\ watch' = watch
            /\ call'[r].tid = GetTableID(call[r].name)
            /\ call'[r].tid # 0 => call'[r].rows = Visible(call'[r].tid, call[r].snap)
        BY <1>a, <3>1 DEF StatsQuery, CallRow
      <3>3. 0 \notin Kept(r)
        BY <1>a DEF TableIds
      <3> QED
        BY <2>2, <2>a, <3>2, <3>3 DEF SnapshotFilesInv, Kept
    <2>3. CASE call'[r].at = "columns_reply"
      <3>1. ColumnsQuery(r)
        BY <1>2, <2>3, ReadInto
      <3>2. /\ call'[r].rows = Visible(call[r].tid, call[r].snap)
            /\ call'[r].tid = call[r].tid /\ call'[r].snap = call[r].snap /\ watch' = watch
        BY <3>1, ReadRowsCall DEF ColumnsQuery
      <3> QED
        BY <2>3, <2>a, <3>2 DEF SnapshotFilesInv
    <2> QED
      BY <2>1, <2>2, <2>3 DEF SnapshotFilesInv
  <1> QED
    BY <1>1, <1>2, OthersCalm

\* The manifest list and the manifests that GetManifestList has read.
ManifestsInv(r) ==
    call[r].tid \in Kept(r) =>
        /\ call[r].at = "manifests_files" => \E s \in SnapshotsOf(call[r].tid) :
              s.id = call[r].snap /\ call[r].count = Cardinality(s.manifests)
        /\ call[r].at = "manifests_reply" => \E s \in SnapshotsOf(call[r].tid) :
              /\ s.id = call[r].snap /\ call[r].count = Cardinality(s.manifests)
              /\ call[r].rows = { [snap |-> s.id, manifest |-> m] : m \in s.manifests }
        /\ call[r].at = "manifest_reply" => call[r].rows # {}

\* Every step keeps what ManifestsInv says of GetManifestList and GetManifest.
LEMMA ManifestsStep ==
    ASSUME BasicInv, [ReadsNext]_<<vars, readVars>>, NEW r \in Readers, KeptInv(r), ManifestsInv(r)
    PROVE  ManifestsInv(r)'
  <1>a. /\ call \in [Readers -> CallRow] /\ call[r] \in CallRow /\ Kept(r) \subseteq TableIds
        /\ watch \in [Readers -> WatchRow]
    BY DEF BasicInv, ShapeInv, WatchRow, Kept, CallRow
  <1>1. CASE Calm(r) /\ (call'[r] = call[r] \/ call'[r] = NoCall)
    <2>1. CASE call'[r] = NoCall
      BY <2>1 DEF ManifestsInv, NoCall
    <2>2. CASE call'[r] = call[r]
      <3> SUFFICES ASSUME call[r].tid \in Kept(r)'
                   PROVE  ManifestsInv(r)'
        BY <2>2 DEF ManifestsInv
      <3>1. PICK t : t = call[r].tid
        OBVIOUS
      <3>2. t \in Kept(r) /\ SnapshotsOf(t) \subseteq SnapshotsOf(t)'
        BY <1>1, <3>1 DEF Calm
      <3>3. SnapshotsOf(call[r].tid)' = SnapshotsOf(t)'
        BY <2>2, <3>1 DEF SnapshotsOf
      <3> QED
        BY <2>2, <3>1, <3>2, <3>3 DEF ManifestsInv
    <2> QED
      BY <1>1, <2>1, <2>2
  <1>2. CASE Read(r) /\ UNCHANGED <<tables, snapshots, partitions>>
    <2>a. \A t : SnapshotsOf(t)' = SnapshotsOf(t)
      BY <1>2 DEF SnapshotsOf
    <2>1. CASE call'[r].at = "manifests_files"
      <3>1. ManifestListQuery(r)
        BY <1>2, <2>1, ReadInto
      <3>2. { s \in SnapshotsOf(call[r].tid) : s.id = call[r].snap } # {}
        BY <1>a, <2>1, <3>1 DEF ManifestListQuery, Answered, NoCall
      <3>3. PICK s \in SnapshotsOf(call[r].tid) :
                /\ s.id = call[r].snap
                /\ call'[r] = [call[r] EXCEPT !.at = "manifests_files",
                                              !.count = Cardinality(s.manifests)]
        BY <1>a, <3>1, <3>2 DEF ManifestListQuery
      <3>4. /\ call'[r].tid = call[r].tid /\ call'[r].snap = call[r].snap
            /\ call'[r].count = Cardinality(s.manifests)
        BY <1>a, <3>3 DEF CallRow
      <3> QED
        BY <2>1, <2>a, <3>3, <3>4 DEF ManifestsInv
    <2>2. CASE call'[r].at = "manifests_reply"
      <3>1. ManifestFilesQuery(r)
        BY <1>2, <2>2, ReadInto
      <3>2. /\ call[r].at = "manifests_files" /\ call'[r].rows = ManifestFiles(call[r].snap)
            /\ call'[r].tid = call[r].tid /\ call'[r].snap = call[r].snap
            /\ call'[r].count = call[r].count /\ watch' = watch
        BY <3>1, ReadRowsCall DEF ManifestFilesQuery
      <3> SUFFICES ASSUME call[r].tid \in Kept(r)
                   PROVE  ManifestsInv(r)'
        BY <3>2 DEF ManifestsInv, Kept
      <3>3. PICK s \in SnapshotsOf(call[r].tid) :
                s.id = call[r].snap /\ call[r].count = Cardinality(s.manifests)
        BY <3>2 DEF ManifestsInv
      <3>4. { y \in snapshots : y.id = call[r].snap } = {s}
        BY <3>3 DEF BasicInv, DbInv, SnapshotsOf
      <3>5. ManifestFiles(call[r].snap) = { [snap |-> s.id, manifest |-> m] : m \in s.manifests }
        BY <3>4 DEF ManifestFiles
      <3> QED
        BY <2>2, <2>a, <3>2, <3>3, <3>5 DEF ManifestsInv
    <2>3. CASE call'[r].at = "manifest_reply"
      <3>1. GetManifest(r)
        BY <1>2, <2>3, ReadInto
      <3>2. PICK m \in call[r].rows :
                /\ call[r].at = "manifests_reply" /\ watch' = watch
                /\ call'[r] = [call[r] EXCEPT !.at = "manifest_reply",
                                              !.rows = GetManifestFile(call[r].name, m)]
        BY <1>a, <3>1 DEF GetManifest
      <3>3. call'[r].tid = call[r].tid /\ call'[r].rows = GetManifestFile(call[r].name, m)
        BY <1>a, <3>2 DEF CallRow
      <3> SUFFICES ASSUME call[r].tid \in Kept(r)
                   PROVE  m \in GetManifestFile(call[r].name, m)
        BY <2>3, <3>2, <3>3 DEF ManifestsInv, Kept
      <3>4. PICK s \in SnapshotsOf(call[r].tid) :
                call[r].rows = { [snap |-> s.id, manifest |-> x] : x \in s.manifests }
        BY <3>2 DEF ManifestsInv
      <3>5. m.snap = s.id /\ s \in snapshots /\ s.table = call[r].tid
        BY <3>2, <3>4 DEF SnapshotsOf
      <3>6. call[r].name # None
        BY <3>2, CatalogAssumption DEF BasicInv, ShapeInv, Serving, ListingTables
      <3>7. IsLive(s.table, call[r].name)
        BY <3>5, <3>6 DEF KeptInv, IsLive
      <3> QED
        BY <3>5, <3>7 DEF GetManifestFile
    <2> QED
      BY <2>1, <2>2, <2>3 DEF ManifestsInv
  <1> QED
    BY <1>1, <1>2, OthersCalm

\* The rows that ListTables has read: those counted so far have the number of
\* files of the snapshot next to it, and the table that is counted now is the
\* one of the row.
SummaryInv(r) ==
    call[r].at \in ListingTables => \A x \in call[r].rows : x.tid \in Kept(r) =>
        /\ x.name = tables[x.tid].name /\ x.current <= tables[x.tid].current
        /\ \/ x.current = 0 \/ x.tid < call[r].count
           \/ (x.tid = call[r].count /\ call[r].at = "tables_next")
           => x.count = Cardinality(Visible(x.tid, x.current))
        /\ call[r].at = "tables_count" /\ x.tid = call[r].count =>
              call[r].tid = x.tid /\ call[r].snap = x.current

\* No file is visible at snapshot 0.
LEMMA NothingAtZero ==
    ASSUME BasicInv, NEW t
    PROVE  Cardinality(Visible(t, 0)) = 0
  <1>1. \A f \in partitions : f.snap \in Nat /\ f.snap > 0
    BY DEF BasicInv, DbInv, IInv, TypeOK, PartitionRow, SnapIds
  <1>2. Visible(t, 0) = {}
    BY <1>1 DEF Visible, VisibleAt
  <1> QED
    BY <1>2, FS_EmptySet

\* Every step keeps what SummaryInv says of the counts of ListTables.
LEMMA SummaryStep ==
    ASSUME BasicInv, [ReadsNext]_<<vars, readVars>>, NEW r \in Readers, KeptInv(r), SummaryInv(r)
    PROVE  SummaryInv(r)'
  <1>a. /\ call \in [Readers -> CallRow] /\ call[r] \in CallRow /\ Kept(r) \subseteq TableIds
        /\ call[r].count \in Nat /\ TypeOK /\ NameInv
        /\ \A t \in TableIds : tables[t].current \in Nat
    BY DEF BasicInv, ShapeInv, WatchRow, Kept, CallRow, SnapIds, IInv, TypeOK, TableRow
  <1>b. call[r].at \in ListingTables =>
            /\ \A x \in call[r].rows : x.tid \in TableIds /\ x.tid \in Nat /\ x.current \in Nat
            /\ call[r].rows \subseteq Listed
            /\ \A x, y \in call[r].rows : x.tid = y.tid => x = y
    BY DEF BasicInv, ShapeInv, Serving, Listed, TableIds, SnapIds
  <1>1. CASE Calm(r) /\ (call'[r] = call[r] \/ call'[r] = NoCall)
    <2>1. CASE call'[r] = NoCall
      BY <2>1 DEF SummaryInv, NoCall, ListingTables
    <2>2. CASE call'[r] = call[r]
      <3> SUFFICES ASSUME call[r].at \in ListingTables, NEW x \in call[r].rows, x.tid \in Kept(r)'
                   PROVE  /\ x.name = tables'[x.tid].name /\ x.current <= tables'[x.tid].current
                          /\ \/ x.current = 0 \/ x.tid < call[r].count
                             \/ (x.tid = call[r].count /\ call[r].at = "tables_next")
                             => x.count = Cardinality(Visible(x.tid, x.current)')
                          /\ call[r].at = "tables_count" /\ x.tid = call[r].count =>
                                call[r].tid = x.tid /\ call[r].snap = x.current
        BY <2>2 DEF SummaryInv, Visible
      <3>1. /\ x.tid \in Kept(r) /\ tables'[x.tid].name = tables[x.tid].name
            /\ tables[x.tid].current <= tables'[x.tid].current
            /\ \A s \in 0 .. tables[x.tid].current : Visible(x.tid, s)' = Visible(x.tid, s)
        BY <1>1 DEF Calm
      <3>2. x.name = tables[x.tid].name /\ x.current <= tables[x.tid].current
        BY <3>1 DEF SummaryInv
      <3>3. Visible(x.tid, x.current)' = Visible(x.tid, x.current)
        BY <1>a, <1>b, <3>1, <3>2
      <3>4. tables'[x.tid].current \in Nat
        BY <1>a, <3>1, BasicStep DEF BasicInv, IInv, TypeOK, TableRow, SnapIds
      <3>5. x.current <= tables'[x.tid].current
        BY <1>a, <1>b, <3>1, <3>2, <3>4
      <3> QED
        BY <3>1, <3>2, <3>3, <3>5 DEF SummaryInv
    <2> QED
      BY <1>1, <2>1, <2>2
  <1>2. CASE Read(r) /\ UNCHANGED <<tables, snapshots, partitions>>
    <2>a. \A t, s : Visible(t, s)' = Visible(t, s)
      BY <1>2 DEF Visible, VisibleAt
    <2>1. ASSUME NEW size \in {0, PageSize}, ListTables(r, size)
          PROVE  SummaryInv(r)'
      <3>1. PICK page \in SUBSET TableIds :
                call'[r] = [NoCall EXCEPT !.at = "tables_next", !.rows = { Summary(t) : t \in page }]
        <4>1. \A off, n : ListTablesRows(off, n) \in SUBSET TableIds
          BY DEF ListTablesRows, Window, LiveTables
        <4> QED
          BY <1>a, <2>1, <4>1 DEF ListTables
      <3>2. call'[r].rows = { Summary(t) : t \in page } /\ call'[r].count = 0 /\ call'[r].at = "tables_next"
        BY <3>1 DEF NoCall
      <3> SUFFICES ASSUME NEW x \in call'[r].rows
                   PROVE  /\ x.name = tables[x.tid].name /\ x.current <= tables[x.tid].current
                          /\ x.current = 0 \/ x.tid < 0 \/ x.tid = 0 =>
                                x.count = Cardinality(Visible(x.tid, x.current))
        BY <1>2, <2>a, <3>2 DEF SummaryInv
      <3>3. PICK t \in page : x = Summary(t)
        BY <3>2
      <3>4. /\ x.tid = t /\ x.name = tables[t].name /\ x.current = tables[t].current /\ x.count = 0
            /\ t \in TableIds /\ t \in Nat /\ t # 0
        BY <3>3 DEF Summary, TableIds
      <3> QED
        BY <1>a, <3>4, NothingAtZero
    <2>2. CASE CountTable(r)
      <3>1. PICK x \in Uncounted(r) :
                /\ call[r].at = "tables_next" /\ \A y \in Uncounted(r) : x.tid <= y.tid
                /\ call'[r] = [call[r] EXCEPT !.at = "tables_count", !.count = x.tid,
                                              !.tid = GetTableID(x.name), !.snap = x.current]
                /\ watch' = watch
        BY <1>a, <2>2 DEF CountTable
      <3>2. /\ call'[r].rows = call[r].rows /\ call'[r].at = "tables_count" /\ call'[r].count = x.tid
            /\ call'[r].tid = GetTableID(x.name) /\ call'[r].snap = x.current
        BY <1>a, <3>1 DEF CallRow
      <3>3. call[r].at \in ListingTables /\ x \in call[r].rows
        BY <3>1 DEF ListingTables, Uncounted
      <3> SUFFICES ASSUME NEW y \in call[r].rows, y.tid \in Kept(r)
                   PROVE  /\ y.name = tables[y.tid].name /\ y.current <= tables[y.tid].current
                          /\ y.current = 0 \/ y.tid < x.tid =>
                                y.count = Cardinality(Visible(y.tid, y.current))
                          /\ y.tid = x.tid => GetTableID(x.name) = y.tid /\ x.current = y.current
        BY <1>2, <2>a, <3>1, <3>2 DEF SummaryInv, Kept
      <3>4. y.name = tables[y.tid].name /\ y.current <= tables[y.tid].current
        BY <3>3 DEF SummaryInv
      <3>5. ASSUME y.current = 0 \/ y.tid < x.tid
            PROVE  y.count = Cardinality(Visible(y.tid, y.current))
        <4>1. y \in Uncounted(r) => x.tid <= y.tid
          BY <3>1
        <4>2. y.current = 0 \/ y.tid <= call[r].count
          BY <1>a, <1>b, <3>3, <3>5, <4>1 DEF Uncounted
        <4>3. y.current = 0 \/ y.tid < call[r].count \/ (y.tid = call[r].count /\ call[r].at = "tables_next")
          BY <1>a, <1>b, <3>1, <3>3, <4>2
        <4> QED
          BY <3>3, <4>3 DEF SummaryInv
      <3>6. ASSUME y.tid = x.tid
            PROVE  GetTableID(x.name) = y.tid /\ x.current = y.current
        <4>1. y = x /\ IsLive(y.tid, x.name)
          BY <1>b, <3>3, <3>4, <3>6 DEF KeptInv, IsLive
        <4> QED
          BY <1>a, <4>1, GetTableIDUnique
      <3> QED
        BY <3>4, <3>5, <3>6
    <2>3. CASE CountPartitions(r)
      <3>1. PICK n : n = Cardinality(Visible(call[r].tid, call[r].snap))
        OBVIOUS
      <3>2. /\ call[r].at = "tables_count" /\ watch' = watch /\ call[r].at \in ListingTables
            /\ call'[r] = [call[r] EXCEPT !.at = "tables_next",
                              !.rows = { IF x.tid # call[r].count THEN x ELSE [x EXCEPT !.count = n]
                                         : x \in @ }]
        BY <1>a, <2>3, <3>1 DEF CountPartitions, ListingTables
      <3>3. /\ call'[r].at = "tables_next" /\ call'[r].count = call[r].count
            /\ call'[r].rows = { IF x.tid # call[r].count THEN x ELSE [x EXCEPT !.count = n]
                                 : x \in call[r].rows }
        BY <1>a, <3>2 DEF CallRow
      <3> SUFFICES ASSUME NEW y \in call'[r].rows, y.tid \in Kept(r)
                   PROVE  /\ y.name = tables[y.tid].name /\ y.current <= tables[y.tid].current
                          /\ y.current = 0 \/ y.tid < call[r].count \/ y.tid = call[r].count =>
                                y.count = Cardinality(Visible(y.tid, y.current))
        BY <1>2, <2>a, <3>2, <3>3 DEF SummaryInv, Kept
      <3>4. PICK x \in call[r].rows : y = IF x.tid # call[r].count THEN x ELSE [x EXCEPT !.count = n]
        BY <3>3
      <3>5. /\ y.tid = x.tid /\ y.name = x.name /\ y.current = x.current
            /\ x.tid # call[r].count => y = x
            /\ x.tid = call[r].count => y.count = n
        BY <1>b, <3>2, <3>4 DEF Listed
      <3>6. x.name = tables[x.tid].name /\ x.current <= tables[x.tid].current
        BY <3>2, <3>5 DEF SummaryInv
      <3>7. CASE x.tid # call[r].count
        BY <3>2, <3>5, <3>6, <3>7 DEF SummaryInv
      <3>8. CASE x.tid = call[r].count
        BY <3>1, <3>2, <3>5, <3>6, <3>8 DEF SummaryInv
      <3> QED
        BY <3>7, <3>8
    <2>4. call'[r].at \in ListingTables =>
              (\E size \in {0, PageSize} : ListTables(r, size)) \/ CountPartitions(r) \/ CountTable(r)
      BY <1>2, ReadInto DEF ListingTables
    <2> QED
      BY <2>1, <2>2, <2>3, <2>4 DEF SummaryInv
  <1> QED
    BY <1>1, <1>2, OthersCalm

-----------------------------------------------------------------------------
(* The tables that a listing walks through *)

\* The ids of tables are handed out in their order.
UsedInv ==
    \A t, u \in TableIds : u < t /\ tables[t].state # "none" => tables[u].state # "none"

\* The row that ListTables has table t in.
Rank(t) == Cardinality({ u \in LiveTables : u < t })

\* The order of ListTables is the order of the table ids.
LEMMA RankIsBefore ==
    ASSUME NEW w, w = [t \in LiveTables |-> t]
    PROVE  /\ IsFiniteSet(LiveTables) /\ w \in [LiveTables -> Int]
           /\ \A t, u \in LiveTables : w[t] = w[u] => t = u
           /\ \A t \in LiveTables : w[t] = t /\ Rank(t) = Before(LiveTables, w, t) /\ Rank(t) \in Nat
           /\ \A off \in Nat, n \in Nat : ListTablesRows(off, n) = Page(LiveTables, w, off, n)
  <1>1. LiveTables \subseteq TableIds /\ TableIds \subseteq Int /\ IsFiniteSet(TableIds)
    BY CatalogAssumption, FS_Interval DEF LiveTables, TableIds
  <1>2. IsFiniteSet(LiveTables)
    BY <1>1, FS_Subset
  <1>3. w \in [LiveTables -> Int] /\ \A t \in LiveTables : w[t] = t
    BY <1>1
  <1>4. ASSUME NEW t \in LiveTables
        PROVE  Rank(t) = Before(LiveTables, w, t) /\ Rank(t) \in Nat
    <2>1. { u \in LiveTables : u < t } = { u \in LiveTables : w[u] < w[t] }
      BY <1>3
    <2>2. Rank(t) = Before(LiveTables, w, t)
      BY <2>1 DEF Rank, Before
    <2> QED
      BY <1>2, <1>3, <2>2, BeforeMono
  <1>5. ASSUME NEW off \in Nat, NEW n \in Nat
        PROVE  ListTablesRows(off, n) = Page(LiveTables, w, off, n)
    <2>1. ListTablesRows(off, n) = { t \in LiveTables : off <= Rank(t) /\ Rank(t) < off + n }
      BY DEF ListTablesRows, Window, Rank
    <2> QED
      BY <1>4, <2>1 DEF Page
  <1> QED
    BY <1>2, <1>3, <1>4, <1>5

\* A table in the listing is not the last but among as many as there are.
LEMMA RankBelow ==
    ASSUME NEW t \in LiveTables
    PROVE  Rank(t) \in Nat /\ Cardinality(LiveTables) \in Nat /\ Rank(t) < Cardinality(LiveTables)
  <1>1. IsFiniteSet(LiveTables) /\ Cardinality(LiveTables) \in Nat /\ Rank(t) \in Nat
    BY RankIsBefore, FS_CardinalityType
  <1> DEFINE B == { u \in LiveTables : u < t }
  <1>2. B \in SUBSET LiveTables /\ t \notin B
    BY DEF LiveTables, TableIds
  <1>3. Rank(t) = Cardinality(B)
    BY DEF Rank
  <1> HIDE DEF B
  <1> QED
    BY <1>1, <1>2, <1>3, FS_Subset

\* Tables come up behind the others, and none comes back.
LEMMA LiveStep ==
    ASSUME IInv, LinearInv, DbInv, UsedInv, [Next]_vars \/ UNCHANGED tables
    PROVE  /\ UsedInv'
           /\ \A t \in TableIds : tables[t].state # "none" => tables'[t].state # "none"
           /\ \A t \in LiveTables' : t \in LiveTables \/ tables[t].state = "none"
           /\ \A t \in LiveTables', u \in TableIds :
                 t \notin LiveTables /\ tables[u].state # "none" => u < t
  <1> DEFINE Goal == /\ UsedInv'
                     /\ \A t \in TableIds : tables[t].state # "none" => tables'[t].state # "none"
                     /\ \A t \in LiveTables' : t \in LiveTables \/ tables[t].state = "none"
                     /\ \A t \in LiveTables', u \in TableIds :
                           t \notin LiveTables /\ tables[u].state # "none" => u < t
  <1> SUFFICES Goal
    OBVIOUS
  <1>a. tables \in [TableIds -> TableRow] /\ limbo = {} /\ TableIds \subseteq Nat
    BY DEF IInv, TypeOK, LinearInv, BaseInv, TableIds
  <1>b. ASSUME \A t \in TableIds : tables'[t].state = tables[t].state
                                   \/ (tables[t].state = "live" /\ tables'[t].state \in {"dropped", "purged"})
        PROVE  Goal
    BY <1>b DEF UsedInv, LiveTables
  <1>1. CASE UNCHANGED tables
    BY <1>1, <1>b
  <1>2. ASSUME NEW p \in Procs, NEW n \in Names, CreateTable(p, n)
        PROVE  Goal
    <2>1. PICK t \in TableIds :
              /\ tables[t].state = "none"
              /\ \A u \in TableIds : u < t => tables[u].state # "none"
              /\ tables' = [tables EXCEPT ![t] = [name |-> n, current |-> 0, state |-> "live"]]
      BY <1>2 DEF CreateTable
    <2>2. tables'[t].state = "live" /\ \A u \in TableIds \ {t} : tables'[u] = tables[u]
      BY <1>a, <2>1
    <2>3. \A u \in TableIds : tables[u].state # "none" => u < t
      <3> SUFFICES ASSUME NEW u \in TableIds, tables[u].state # "none", ~ (u < t)
                   PROVE  FALSE
        OBVIOUS
      <3>1. u # t /\ t < u
        BY <1>a, <2>1
      <3> QED
        BY <2>1, <3>1 DEF UsedInv
    <2>4. UsedInv'
      <3> SUFFICES ASSUME NEW v \in TableIds, NEW u \in TableIds, u < v, tables'[v].state # "none"
                   PROVE  tables'[u].state # "none"
        BY DEF UsedInv
      <3>1. CASE v = t
        BY <1>a, <2>1, <2>2, <3>1
      <3>2. CASE v # t
        BY <2>2, <3>2 DEF UsedInv
      <3> QED
        BY <3>1, <3>2
    <2> QED
      BY <2>1, <2>2, <2>3, <2>4 DEF LiveTables
  <1>3. ASSUME NEW p \in Procs, NEW n \in Names, DropTable(p, n)
        PROVE  Goal
    <2>1. PICK d \in TableIds : (SoftDelete(d) \/ Purge(d)) /\ tables[d].state = "live"
      BY <1>3, GetTableIDFacts DEF DropTable, IsLive
    <2>2. tables'[d].state \in {"dropped", "purged"} /\ \A u \in TableIds \ {d} : tables'[u] = tables[u]
      BY <1>a, <2>1 DEF SoftDelete, Purge, NoTable, TableRow
    <2> QED
      BY <1>b, <2>1, <2>2
  <1>4. ASSUME NEW p \in Procs, RenameExec(p)
        PROVE  Goal
    <2>1. \A t \in TableIds : tables'[t].state = tables[t].state
      BY <1>4, <1>a DEF RenameExec, TableRow
    <2> QED
      BY <1>b, <2>1
  <1>5. ASSUME NEW p \in Procs, NEW add \in SUBSET Keys, NEW del \in SUBSET Keys,
               CommitTx(p, add, del)
        PROVE  Goal
    <2>1. PICK w : tables' = [tables EXCEPT ![w.table].current = w.id]
      BY <1>5 DEF CommitTx, Apply
    <2>2. \A t \in TableIds : tables'[t].state = tables[t].state
      BY <1>a, <2>1 DEF TableRow
    <2> QED
      BY <1>b, <2>2
  <1> HIDE DEF Goal
  <1> QED
    BY <1>1, <1>2, <1>3, <1>4, <1>5, <1>a, WritingSteps

\* A table's row only moves up, and only when a table is dropped.
LEMMA RankStep ==
    ASSUME IInv, LinearInv, DbInv, UsedInv, [Next]_vars \/ UNCHANGED tables, NEW t \in LiveTables, t \in LiveTables'
    PROVE  /\ Rank(t) \in Nat /\ Rank(t)' \in Nat /\ Rank(t)' <= Rank(t)
           /\ LiveTables \subseteq LiveTables' => Rank(t)' = Rank(t)
  <1> DEFINE A == { u \in LiveTables : u < t }
             B == { u \in LiveTables' : u < t }
  <1>0. IsFiniteSet(LiveTables)
    BY RankIsBefore
  <1>1. /\ TableIds \subseteq Nat /\ LiveTables \subseteq TableIds /\ LiveTables' \subseteq TableIds
        /\ tables[t].state # "none"
    BY DEF LiveTables, TableIds
  <1>2. ASSUME NEW u \in B
        PROVE  u \in A
    <2>1. u \notin LiveTables => t < u
      BY <1>1, LiveStep
    <2>2. u \in Nat /\ t \in Nat /\ u < t /\ u \in LiveTables'
      BY <1>1
    <2>3. u \in LiveTables
      BY <2>1, <2>2
    <2> QED
      BY <2>2, <2>3
  <1>3. Rank(t) = Cardinality(A) /\ Rank(t)' = Cardinality(B)
    BY DEF Rank
  <1>4. LiveTables \subseteq LiveTables' => A = B
    BY <1>2
  <1>5. IsFiniteSet(A)
    BY <1>0, FS_Subset
  <1> HIDE DEF A, B
  <1>6. IsFiniteSet(B) /\ Cardinality(B) <= Cardinality(A) /\ Cardinality(A) \in Nat /\ Cardinality(B) \in Nat
    BY <1>2, <1>5, FS_Subset, FS_CardinalityType
  <1> QED
    BY <1>3, <1>4, <1>6

\* The tables of the page that is being put together.
RowIds(r) == IF call[r].at \in ListingTables THEN { x.tid : x \in call[r].rows } ELSE {}

\* A reader's steps, as its listing sees them.
LEMMA ScanSteps ==
    ASSUME BasicInv, NEW r \in Readers, Read(r)
    PROVE  \/ \E n \in AskedFor, s \in ReadAt : GetPartitionsPaged(r, n, s)
           \/ PageQuery(r)
           \/ \E size \in {0, PageSize} : ListTables(r, size)
           \/ TablesReply(r)
           \/ scan'[r] = NoScan /\ call'[r].at \notin ListingTables
           \/ /\ scan'[r] = scan[r] /\ watch'[r] = watch[r] /\ RowIds(r)' = RowIds(r)
              /\ call'[r].at \in ListingTables /\ call[r].at \in ListingTables
           \/ scan'[r] = scan[r] /\ watch'[r] = watch[r] /\ call'[r] = NoCall
  <1> DEFINE Goal == \/ \E n \in AskedFor, s \in ReadAt : GetPartitionsPaged(r, n, s)
                     \/ PageQuery(r)
                     \/ \E size \in {0, PageSize} : ListTables(r, size)
                     \/ TablesReply(r)
                     \/ scan'[r] = NoScan /\ call'[r].at \notin ListingTables
                     \/ /\ scan'[r] = scan[r] /\ watch'[r] = watch[r] /\ RowIds(r)' = RowIds(r)
                        /\ call'[r].at \in ListingTables /\ call[r].at \in ListingTables
                     \/ scan'[r] = scan[r] /\ watch'[r] = watch[r] /\ call'[r] = NoCall
  <1> SUFFICES Goal
    OBVIOUS
  <1>a. /\ call \in [Readers -> CallRow] /\ call[r] \in CallRow /\ Serving(r)
        /\ scan \in [Readers -> ScanRow] /\ scan[r] \in ScanRow
    BY DEF BasicInv, ShapeInv
  <1>1. CASE CountTable(r)
    <2>1. /\ call[r].at = "tables_next" /\ call'[r].at = "tables_count" /\ call'[r].rows = call[r].rows
          /\ scan' = scan /\ watch' = watch
      BY <1>1, <1>a DEF CountTable, CallRow
    <2> QED
      BY <2>1 DEF RowIds, ListingTables
  <1>2. CASE CountPartitions(r)
    <2>1. PICK n : n = Cardinality(Visible(call[r].tid, call[r].snap))
      OBVIOUS
    <2>2. /\ call[r].at = "tables_count" /\ call[r].at \in ListingTables
          /\ scan' = scan /\ watch' = watch
          /\ call'[r] = [call[r] EXCEPT !.at = "tables_next",
                            !.rows = { IF x.tid # call[r].count THEN x ELSE [x EXCEPT !.count = n]
                                       : x \in @ }]
      BY <1>2, <1>a, <2>1 DEF CountPartitions, ListingTables
    <2>3. /\ call'[r].at = "tables_next"
          /\ call'[r].rows = { IF x.tid # call[r].count THEN x ELSE [x EXCEPT !.count = n]
                               : x \in call[r].rows }
      BY <1>a, <2>2 DEF CallRow
    <2>4. PICK F : F = [x \in call[r].rows |->
                          IF x.tid # call[r].count THEN x ELSE [x EXCEPT !.count = n]]
      OBVIOUS
    <2>5. call'[r].rows = { F[x] : x \in call[r].rows }
      BY <2>3, <2>4
    <2>6. call[r].rows \subseteq Listed
      BY <1>a, <2>2 DEF Serving
    <2>7. \A x \in call[r].rows : F[x].tid = x.tid
      BY <2>4, <2>6 DEF Listed
    <2>8. { x.tid : x \in call'[r].rows } = { x.tid : x \in call[r].rows }
      BY <2>5, <2>7
    <2> QED
      BY <2>2, <2>3, <2>8 DEF RowIds, ListingTables
  <1>3. CASE ScanEnd(r)
    BY <1>3, <1>a DEF ScanEnd, ListingTables
  <1>4. ASSUME scan[r] = NoScan, UNCHANGED scan, call'[r].at \notin ListingTables
        PROVE  Goal
    BY <1>4
  <1>5. ASSUME NEW at, NEW n, NEW t, NEW s, Request(r, at, n, t, s), UNCHANGED scan,
               at \notin ListingTables
        PROVE  Goal
    BY <1>4, <1>5, <1>a DEF Request, NoCall
  <1>6. ASSUME NEW n \in AskedFor, NEW s \in ReadAt,
               GetColumnStatsCall(r, n, s) \/ GetSnapshot(r, n, s) \/ GetManifestList(r, n, s)
        PROVE  Goal
    BY <1>5, <1>6 DEF GetColumnStatsCall, GetSnapshot, GetManifestList, ListingTables
  <1>7. ASSUME NEW n \in AskedFor, NEW limit \in {0, Limit}, ListSnapshots(r, n, limit)
        PROVE  Goal
    BY <1>5, <1>7 DEF ListSnapshots, ListingTables
  <1>8. ASSUME NEW n \in AskedFor, GetPartitionStats(r, n)
        PROVE  Goal
    BY <1>5, <1>8 DEF GetPartitionStats, ListingTables
  <1>b. ASSUME call[r].at \notin {"idle", "page_query"} \cup ListingTables
        PROVE  scan[r] = NoScan
    BY <1>a, <1>b DEF Serving, ScanRow
  <1>9. CASE StatsQuery(r)
    <2>1. call[r].at = "stats_query" /\ call'[r].at = "stats_reply" /\ UNCHANGED scan
      BY <1>9, <1>a DEF StatsQuery, CallRow
    <2> QED
      BY <1>b, <1>4, <2>1 DEF ListingTables
  <1>10. CASE ColumnsTable(r)
    <2>1. call[r].at = "columns_table" /\ call'[r].at \in {"idle", "columns_query"} /\ UNCHANGED scan
      BY <1>10, <1>a DEF ColumnsTable, CallRow, Answered, NoCall
    <2> QED
      BY <1>b, <1>4, <2>1 DEF ListingTables
  <1>11. ASSUME NEW from, NEW to, NEW rows, ReadRows(r, from, to, rows),
                from \notin {"idle", "page_query"} \cup ListingTables, to \notin ListingTables
         PROVE  Goal
    <2>1. call[r].at = from /\ call'[r].at = to /\ UNCHANGED scan
      BY <1>11, <1>a DEF ReadRows, CallRow
    <2> QED
      BY <1>11, <1>b, <1>4, <2>1
  <1>12. CASE ColumnsQuery(r) \/ SnapshotQuery(r) \/ HistoryQuery(r) \/ ManifestFilesQuery(r)
    BY <1>11, <1>12 DEF ColumnsQuery, SnapshotQuery, HistoryQuery, ManifestFilesQuery, ListingTables
  <1>13. CASE ManifestListQuery(r)
    <2>1. call[r].at = "manifests_list" /\ call'[r].at \in {"idle", "manifests_files"} /\ UNCHANGED scan
      BY <1>13, <1>a DEF ManifestListQuery, CallRow, Answered, NoCall
    <2> QED
      BY <1>b, <1>4, <2>1 DEF ListingTables
  <1>14. CASE GetManifest(r)
    <2>1. call[r].at = "manifests_reply" /\ call'[r].at = "manifest_reply" /\ UNCHANGED scan
      BY <1>14, <1>a DEF GetManifest, CallRow
    <2> QED
      BY <1>b, <1>4, <2>1 DEF ListingTables
  <1>15. CASE Reply(r)
    <2>1. call[r].at \in Replies /\ call'[r].at = "idle" /\ UNCHANGED scan
      BY <1>15, <1>a DEF Reply, Answered, NoCall
    <2> QED
      BY <1>b, <1>4, <2>1 DEF ListingTables, Replies
  <1>16. CASE ReadFail(r)
    <2>1. /\ call'[r] = NoCall /\ UNCHANGED scan
          /\ scan[r] = NoScan \/ UNCHANGED watch
      BY <1>16, <1>a DEF ReadFail, Answered
    <2> QED
      BY <1>4, <2>1 DEF ListingTables, NoCall
  <1>17. \/ \E n \in AskedFor, s \in ReadAt : GetPartitionsPaged(r, n, s)
         \/ PageQuery(r)
         \/ \E size \in {0, PageSize} : ListTables(r, size)
         \/ TablesReply(r)
         => Goal
    OBVIOUS
  <1> HIDE DEF Goal
  <1> QED
    BY <1>1, <1>2, <1>3, <1>6, <1>7, <1>8, <1>9, <1>10, <1>12, <1>13, <1>14, <1>15, <1>16, <1>17
       DEF Read

\* A step is one of the reader, or what it does to a listing of tables is
\* noted in the reader's history.
LEMMA OthersTables ==
    ASSUME BasicInv, [ReadsNext]_<<vars, readVars>>, NEW r \in Readers
    PROVE  \/ Read(r) /\ UNCHANGED <<tables, snapshots, partitions>>
           \/ /\ [Next]_vars \/ UNCHANGED tables
              /\ scan'[r] = scan[r] /\ (call'[r] = call[r] \/ call'[r] = NoCall)
              /\ scan[r].kind = "tables" =>
                    /\ Kept(r)' \subseteq Kept(r)
                    /\ ~ watch'[r].lost => ~ watch[r].lost /\ LiveTables \subseteq LiveTables'
  <1> DEFINE Other == /\ [Next]_vars \/ UNCHANGED tables
                      /\ scan'[r] = scan[r] /\ (call'[r] = call[r] \/ call'[r] = NoCall)
                      /\ scan[r].kind = "tables" =>
                            /\ Kept(r)' \subseteq Kept(r)
                            /\ ~ watch'[r].lost => ~ watch[r].lost /\ LiveTables \subseteq LiveTables'
  <1>a. /\ IInv /\ ShapeInv /\ watch[r] \in WatchRow /\ watch[r].kept \subseteq TableIds
    BY DEF BasicInv, ShapeInv, WatchRow
  <1>b. ASSUME UNCHANGED tables, watch'[r] = watch[r]
        PROVE  /\ Kept(r)' = Kept(r)
               /\ ~ watch'[r].lost => ~ watch[r].lost /\ LiveTables \subseteq LiveTables'
    BY <1>b DEF Kept, LiveTables
  <1>1. ASSUME NEW p \in Writers, Write(p), Watch, UNCHANGED <<scan, call>>
        PROVE  Other
    <2>1. Next
      BY <1>1, <1>a, WriteStep
    <2>2. PICK k, l : /\ k = { t \in watch[r].kept : tables'[t].state = "live"
                                                    /\ tables'[t].name = tables[t].name }
                      /\ l = (\/ watch[r].lost
                              \/ /\ scan[r].kind = "tables"
                                 /\ \E t \in LiveTables : tables'[t].state # "live")
      OBVIOUS
    <2>3. watch'[r] = [watch[r] EXCEPT !.kept = k, !.lost = l]
      BY <1>1, <2>2 DEF Watch
    <2>4. watch'[r].kept = k /\ watch'[r].lost = l
      BY <1>a, <2>3 DEF WatchRow
    <2>5. Kept(r)' \subseteq Kept(r)
      BY <1>a, <2>2, <2>4 DEF Kept
    <2>6. scan[r].kind = "tables" /\ ~ l => ~ watch[r].lost /\ \A t \in LiveTables : tables'[t].state = "live"
      BY <2>2
    <2>7. scan[r].kind = "tables" /\ ~ l => LiveTables \subseteq LiveTables'
      BY <2>6 DEF LiveTables
    <2>8. scan[r].kind = "tables" /\ ~ watch'[r].lost => ~ watch[r].lost /\ LiveTables \subseteq LiveTables'
      BY <2>4, <2>6, <2>7, Zenon
    <2> QED
      BY <1>1, <2>1, <2>5, <2>8
  <1>2. ASSUME NEW q \in Readers, Read(q), q # r
        PROVE  Other
    <2>1. /\ UNCHANGED <<tables, snapshots, partitions, limbo, snapSeq, xlock, cache, op>>
          /\ scan'[r] = scan[r] /\ call'[r] = call[r] /\ watch'[r] = watch[r]
      BY <1>2, <1>a, ReadFrame
    <2> QED
      BY <1>b, <2>1
  <1>3. ASSUME Read(r)
        PROVE  UNCHANGED <<tables, snapshots, partitions>>
    BY <1>3, <1>a, ReadFrame
  <1>4. CASE ReadRestart
    <2>1. /\ Next /\ UNCHANGED tables /\ scan' = scan /\ call'[r] = NoCall
          /\ scan[r].kind = "tables" => watch'[r] = watch[r]
      BY <1>4 DEF ReadRestart, Restart, db, Next, NoScan
    <2> QED
      BY <1>b, <2>1
  <1>5. CASE UNCHANGED <<vars, readVars>>
    <2>1. UNCHANGED <<vars, tables, scan, call, watch>>
      BY <1>5 DEF vars, readVars
    <2> QED
      BY <1>b, <2>1
  <1> QED
    BY <1>1, <1>2, <1>3, <1>4, <1>5 DEF ReadsNext

\* A page of ListTables.
LEMMA TablesPage ==
    ASSUME NEW off \in Nat, NEW n \in Nat, NEW page, page = ListTablesRows(off, n)
    PROVE  /\ page \subseteq LiveTables /\ Cardinality(page) \in Nat /\ Cardinality(page) <= n
           /\ \A t \in page : off <= Rank(t) /\ Rank(t) < off + Cardinality(page)
           /\ \A t \in LiveTables : off <= Rank(t) /\ Rank(t) < off + n => t \in page
           /\ Cardinality(page) < n => \A t \in LiveTables : off <= Rank(t) => t \in page
  <1>1. PICK S, w : S = LiveTables /\ w = [t \in LiveTables |-> t]
    OBVIOUS
  <1>2. /\ IsFiniteSet(S) /\ w \in [S -> Int]
        /\ \A t, u \in S : w[t] = w[u] => t = u
        /\ \A t \in S : w[t] = t /\ Rank(t) = Before(S, w, t) /\ Rank(t) \in Nat
        /\ page = Page(S, w, off, n)
    BY <1>1, RankIsBefore
  <1>3. Cardinality(page) \in Nat /\ Cardinality(page) <= n
    BY <1>2, PageBounds
  <1>4. /\ page \subseteq S /\ \A t \in page : off <= Rank(t)
        /\ \A t \in S : off <= Rank(t) /\ Rank(t) < off + n => t \in page
    BY <1>2 DEF Page
  <1>5. ASSUME NEW t \in page
        PROVE  Rank(t) < off + Cardinality(page)
    <2>1. t \in S /\ Before(S, w, t) < off + n
      BY <1>2 DEF Page
    <2>2. ASSUME NEW y \in S, w[y] < w[t]
          PROVE  Before(S, w, y) < off + n
      <3>1. /\ Before(S, w, y) \in Nat /\ Before(S, w, t) \in Nat
            /\ Before(S, w, y) < Before(S, w, t)
        BY <1>2, <2>1, <2>2, BeforeMono
      <3> QED
        BY <2>1, <3>1
    <2>3. Before(S, w, t) < off + Cardinality(page)
      BY <1>2, <2>1, <2>2, PageFills
    <2> QED
      BY <1>2, <2>1, <2>3
  <1>6. ASSUME Cardinality(page) < n, NEW t \in S, off <= Rank(t)
        PROVE  t \in page
    BY <1>2, <1>6, PageShort
  <1> QED
    BY <1>1, <1>3, <1>4, <1>5, <1>6

\* The query of ListTables, as the listing sees it.
LEMMA ListTablesScan ==
    ASSUME BasicInv, NEW r \in Readers, NEW size \in {0, PageSize}, ListTables(r, size)
    PROVE  /\ scan'[r].kind = "tables" /\ scan'[r].size = size
           /\ scan'[r].got = scan[r].got /\ scan'[r].token = scan[r].token
           /\ scan'[r].again = scan[r].again /\ scan'[r].done = scan[r].done /\ ~ scan[r].done
           /\ scan'[r].tids = scan[r].tids
           /\ call'[r].at = "tables_next" /\ call[r].at = "idle"
           /\ RowIds(r)' = ListTablesRows(scan[r].token, IF size > 0 THEN size ELSE NoPageSize)
           /\ \/ scan[r] = NoScan /\ BeginAll(r)
              \/ scan[r].kind = "tables" /\ scan[r].size = size /\ watch' = watch
  <1>a. /\ call \in [Readers -> CallRow] /\ scan \in [Readers -> ScanRow] /\ scan[r] \in ScanRow
    BY DEF BasicInv, ShapeInv
  <1>1. PICK page : page = ListTablesRows(scan[r].token, IF size > 0 THEN size ELSE NoPageSize)
    OBVIOUS
  <1>2. /\ scan'[r] = [scan[r] EXCEPT !.kind = "tables", !.size = size]
        /\ call'[r] = [NoCall EXCEPT !.at = "tables_next", !.rows = { Summary(t) : t \in page }]
        /\ call[r].at = "idle"
        /\ \/ scan[r] = NoScan /\ BeginAll(r)
           \/ scan[r].kind = "tables" /\ scan[r].size = size /\ ~ scan[r].done /\ watch' = watch
    BY <1>a, <1>1 DEF ListTables
  <1>3. call'[r].at = "tables_next" /\ call'[r].rows = { Summary(t) : t \in page }
    BY <1>2 DEF NoCall
  <1>4. { x.tid : x \in call'[r].rows } = page
    <2>1. PICK F : F = [t \in page |-> Summary(t)]
      OBVIOUS
    <2>2. call'[r].rows = { F[t] : t \in page } /\ \A t \in page : F[t].tid = t
      BY <1>3, <2>1 DEF Summary
    <2> QED
      BY <2>2
  <1>5. RowIds(r)' = page
    BY <1>3, <1>4 DEF RowIds, ListingTables
  <1>6. ~ scan[r].done
    BY <1>2 DEF NoScan
  <1>7. /\ scan'[r].kind = "tables" /\ scan'[r].size = size
        /\ scan'[r].got = scan[r].got /\ scan'[r].token = scan[r].token
        /\ scan'[r].again = scan[r].again /\ scan'[r].done = scan[r].done
        /\ scan'[r].tids = scan[r].tids
    BY <1>a, <1>2 DEF ScanRow
  <1> QED
    BY <1>1, <1>2, <1>3, <1>5, <1>6, <1>7

\* The end of a page of ListTables.
LEMMA TablesReplyScan ==
    ASSUME BasicInv, NEW r \in Readers, TablesReply(r)
    PROVE  /\ scan[r].kind = "tables" /\ scan'[r].kind = "tables" /\ scan'[r].size = scan[r].size
           /\ scan'[r].tids = scan[r].tids
           /\ call[r].at \in ListingTables /\ call'[r] = NoCall /\ watch' = watch
           /\ scan'[r].got = scan[r].got \cup RowIds(r)
           /\ scan'[r].again <=> scan[r].again \/ scan[r].got \cap RowIds(r) # {}
           /\ Cardinality(RowIds(r)) \in Nat
           /\ scan'[r].token = scan[r].token + Cardinality(RowIds(r))
           /\ scan'[r].done <=> scan[r].size = 0 \/ Cardinality(RowIds(r)) # scan[r].size
  <1>a. /\ call \in [Readers -> CallRow] /\ scan \in [Readers -> ScanRow] /\ scan[r] \in ScanRow
        /\ Serving(r)
    BY DEF BasicInv, ShapeInv
  <1>1. call[r].at = "tables_next" /\ call[r].at \in ListingTables /\ call'[r] = NoCall /\ watch' = watch
    BY <1>a DEF TablesReply, Answered, ListingTables
  <1>2. RowIds(r) = { x.tid : x \in call[r].rows } /\ scan[r].kind = "tables"
    BY <1>a, <1>1 DEF RowIds, Serving
  <1>3. call[r].rows \in SUBSET Listed /\ \A x, y \in call[r].rows : x.tid = y.tid => x = y
    BY <1>a, <1>1 DEF Serving
  <1>4. Cardinality(RowIds(r)) = Cardinality(call[r].rows) /\ Cardinality(RowIds(r)) \in Nat
    BY <1>2, <1>3, ListedRows
  <1>5. PICK a, d : /\ a = (scan[r].again \/ scan[r].got \cap { x.tid : x \in call[r].rows } # {})
                    /\ d = (scan[r].size = 0 \/ Cardinality(call[r].rows) # scan[r].size)
    OBVIOUS
  <1>b. a \in BOOLEAN /\ d \in BOOLEAN
    BY <1>a, <1>5 DEF ScanRow
  <1>c. scan'[r] = [scan[r] EXCEPT !.got = @ \cup { x.tid : x \in call[r].rows }, !.again = a,
                                   !.token = @ + Cardinality(call[r].rows), !.done = d]
    BY <1>a, <1>5 DEF TablesReply
  <1>6. /\ scan'[r].kind = scan[r].kind /\ scan'[r].size = scan[r].size
        /\ scan'[r].got = scan[r].got \cup RowIds(r)
        /\ scan'[r].token = scan[r].token + Cardinality(RowIds(r))
        /\ scan'[r].again = a /\ scan'[r].done = d /\ scan'[r].tids = scan[r].tids
    BY <1>a, <1>b, <1>c, <1>2, <1>4 DEF ScanRow
  <1>7. scan'[r].again <=> scan[r].again \/ scan[r].got \cap RowIds(r) # {}
    BY <1>2, <1>5, <1>6, Zenon
  <1>8. scan'[r].done <=> scan[r].size = 0 \/ Cardinality(RowIds(r)) # scan[r].size
    BY <1>4, <1>5, <1>6, Zenon
  <1> QED
    BY <1>1, <1>2, <1>4, <1>6, <1>7, <1>8

\* A page of GetPartitions is asked for.
LEMMA PagedScan ==
    ASSUME BasicInv, NEW r \in Readers, NEW n, NEW s, GetPartitionsPaged(r, n, s)
    PROVE  /\ scan'[r].kind = "files" /\ scan'[r].name = n /\ scan'[r].ask = s
           /\ scan'[r].got = scan[r].got /\ scan'[r].token = scan[r].token
           /\ scan'[r].again = scan[r].again /\ scan'[r].done = scan[r].done /\ ~ scan[r].done
           /\ scan'[r].tids = scan[r].tids /\ scan'[r].first = scan[r].first
           /\ scan'[r].last = scan[r].last
           /\ call'[r].at = "page_query" /\ call'[r].name = n
           /\ call'[r].snap = ResolveSnapshot(n, s)
           /\ \/ scan[r] = NoScan /\ Begin(r, n)
              \/ scan[r].kind = "files" /\ scan[r].name = n /\ scan[r].ask = s /\ watch' = watch
  <1>a. /\ call \in [Readers -> CallRow] /\ scan \in [Readers -> ScanRow] /\ scan[r] \in ScanRow
    BY DEF BasicInv, ShapeInv
  <1>1. /\ scan'[r] = [scan[r] EXCEPT !.kind = "files", !.name = n, !.ask = s]
        /\ call'[r] = [NoCall EXCEPT !.at = "page_query", !.name = n, !.snap = ResolveSnapshot(n, s)]
        /\ \/ scan[r] = NoScan /\ Begin(r, n)
           \/ /\ scan[r].kind = "files" /\ scan[r].name = n /\ scan[r].ask = s
              /\ ~ scan[r].done /\ watch' = watch
    BY <1>a DEF GetPartitionsPaged
  <1>2. ~ scan[r].done
    BY <1>1 DEF NoScan
  <1>3. /\ scan'[r].kind = "files" /\ scan'[r].name = n /\ scan'[r].ask = s
        /\ scan'[r].got = scan[r].got /\ scan'[r].token = scan[r].token
        /\ scan'[r].again = scan[r].again /\ scan'[r].done = scan[r].done
        /\ scan'[r].tids = scan[r].tids /\ scan'[r].first = scan[r].first
        /\ scan'[r].last = scan[r].last
    BY <1>a, <1>1 DEF ScanRow
  <1>4. call'[r].at = "page_query" /\ call'[r].name = n /\ call'[r].snap = ResolveSnapshot(n, s)
    BY <1>1 DEF NoCall
  <1> QED
    BY <1>1, <1>2, <1>3, <1>4

\* The token that a page of files ends with.
LastID(page) == Max({ PartitionID(f) : f \in page })

\* A page of files lies beyond the token, and ends with its last file.
LEMMA LastOfPage ==
    ASSUME TypeOK, NEW t, NEW s, NEW last, NEW page, page = QueryPartitionsPaged(t, s, last)
    PROVE  /\ page \subseteq Visible(t, s) /\ page \subseteq FileRow
           /\ \A f \in page : PartitionID(f) \in Nat /\ PartitionID(f) > last
           /\ page # {} => /\ LastID(page) \in Nat
                           /\ \E f \in page : PartitionID(f) = LastID(page)
                           /\ \A f \in page : PartitionID(f) <= LastID(page)
  BY PageType DEF LastID

\* A page of GetPartitions comes in.
LEMMA PageQueryScan ==
    ASSUME BasicInv, NEW r \in Readers, PageQuery(r)
    PROVE  \E t, page :
           /\ t = GetTableID(call[r].name)
           /\ page = QueryPartitionsPaged(t, call[r].snap, scan[r].token)
           /\ call[r].at = "page_query" /\ call'[r] = NoCall /\ scan[r].kind = "files"
           /\ \/ t = 0 /\ scan'[r] = NoScan
              \/ /\ t # 0 /\ t \in TableIds /\ watch' = watch
                 /\ scan'[r].kind = "files" /\ scan'[r].name = scan[r].name
                 /\ scan'[r].ask = scan[r].ask /\ scan'[r].got = scan[r].got \cup page
                 /\ scan'[r].again <=> scan[r].again \/ scan[r].got \cap page # {}
                 /\ page = {} => scan'[r].token = scan[r].token
                 /\ page # {} => scan'[r].token = LastID(page)
                 /\ scan'[r].done <=> page = {}
                 /\ scan'[r].tids = scan[r].tids \cup {t}
                 /\ scan[r].tids = {} => scan'[r].first = call[r].snap
                 /\ scan[r].tids # {} => scan'[r].first = scan[r].first
                 /\ scan'[r].last = call[r].snap
  <1>0. PICK t, page : /\ t = GetTableID(call[r].name)
                       /\ page = QueryPartitionsPaged(t, call[r].snap, scan[r].token)
    OBVIOUS
  <1>a. /\ call \in [Readers -> CallRow] /\ scan \in [Readers -> ScanRow] /\ scan[r] \in ScanRow
        /\ Serving(r)
    BY DEF BasicInv, ShapeInv
  <1>1. call[r].at = "page_query" /\ call'[r] = NoCall /\ scan[r].kind = "files"
    BY <1>a DEF PageQuery, Answered, Serving
  <1>2. CASE t = 0
    BY <1>a, <1>0, <1>1, <1>2 DEF PageQuery
  <1>3. CASE t # 0
    <2>1. t \in TableIds
      BY <1>0, <1>3, GetTableIDFacts
    <2>2. scan'[r] = NextPage(scan[r], t, call[r].snap, page) /\ watch' = watch
      BY <1>a, <1>0, <1>3 DEF PageQuery
    <2>3. PICK a, d : a = (scan[r].again \/ scan[r].got \cap page # {}) /\ d = (page = {})
      OBVIOUS
    <2>4. scan'[r] = [scan[r] EXCEPT
              !.got   = @ \cup page,
              !.again = a,
              !.token = IF page = {} THEN @ ELSE Max({ PartitionID(f) : f \in page }),
              !.done  = d,
              !.tids  = @ \cup {t},
              !.first = IF scan[r].tids = {} THEN call[r].snap ELSE @,
              !.last  = call[r].snap]
      BY <2>2, <2>3 DEF NextPage
    <2>5. /\ scan'[r].kind = "files" /\ scan'[r].name = scan[r].name
          /\ scan'[r].ask = scan[r].ask /\ scan'[r].got = scan[r].got \cup page
          /\ scan'[r].again = a /\ scan'[r].done = d
          /\ page = {} => scan'[r].token = scan[r].token
          /\ page # {} => scan'[r].token = LastID(page)
          /\ scan'[r].tids = scan[r].tids \cup {t}
          /\ scan[r].tids = {} => scan'[r].first = call[r].snap
          /\ scan[r].tids # {} => scan'[r].first = scan[r].first
          /\ scan'[r].last = call[r].snap
      BY <1>a, <1>1, <2>4 DEF ScanRow, LastID
    <2>6. /\ scan'[r].again <=> scan[r].again \/ scan[r].got \cap page # {}
          /\ scan'[r].done <=> page = {}
      BY <2>3, <2>5, Zenon
    <2> QED
      BY <1>0, <1>1, <1>3, <2>1, <2>2, <2>5, <2>6
  <1> QED
    BY <1>2, <1>3

\* What a listing has brought lies before its token: the files have smaller
\* partition ids, and of the tables that are still there fewer than token come
\* before each.
TwiceInv(r) ==
    /\ ~ scan[r].again
    /\ scan[r].kind = "files" => \A f \in scan[r].got : PartitionID(f) <= scan[r].token
    /\ scan[r].kind = "tables" =>
          /\ scan[r].got \cup RowIds(r) \subseteq { t \in TableIds : tables[t].state # "none" }
          /\ scan[r].got \cap RowIds(r) = {}
          /\ \A t \in LiveTables \cap scan[r].got : Rank(t) < scan[r].token
          /\ \A t \in LiveTables \cap RowIds(r) :
                Rank(t) < scan[r].token + Cardinality(RowIds(r))

\* The tables of the page that is being put together are table ids.
LEMMA RowIdsType ==
    ASSUME BasicInv, NEW r \in Readers
    PROVE  RowIds(r) \subseteq TableIds /\ Cardinality(RowIds(r)) \in Nat
  <1>1. RowIds(r) \subseteq TableIds
    BY DEF BasicInv, ShapeInv, Serving, RowIds, Listed
  <1>2. IsFiniteSet(TableIds)
    BY CatalogAssumption, FS_Interval DEF TableIds
  <1> QED
    BY <1>1, <1>2, FS_Subset, FS_CardinalityType

\* Every step keeps what a listing has brought before its token.
LEMMA TwiceStep ==
    ASSUME BasicInv, UsedInv, [ReadsNext]_<<vars, readVars>>, NEW r \in Readers, TwiceInv(r)
    PROVE  TwiceInv(r)'
  <1>a. /\ IInv /\ LinearInv /\ DbInv /\ TypeOK
        /\ scan[r].token \in Nat /\ scan[r].kind \in {"none", "files", "tables"}
        /\ Serving(r) /\ RowIds(r) \subseteq TableIds /\ Cardinality(RowIds(r)) \in Nat
        /\ PageSize \in Nat /\ NoPageSize \in Nat
    BY RowIdsType, ReadsConstants DEF BasicInv, ShapeInv, ScanRow, IInv
  <1>b. ASSUME scan'[r] = NoScan
        PROVE  TwiceInv(r)'
    BY <1>b DEF TwiceInv, NoScan
  <1>1. CASE /\ [Next]_vars \/ UNCHANGED tables
             /\ scan'[r] = scan[r] /\ (RowIds(r)' = RowIds(r) \/ RowIds(r)' = {})
    <2> SUFFICES ASSUME scan[r].kind = "tables"
                 PROVE  /\ \A t \in scan[r].got \cup RowIds(r) : tables'[t].state # "none"
                        /\ \A t \in LiveTables' \cap scan[r].got : Rank(t)' < scan[r].token
                        /\ \A t \in LiveTables' \cap RowIds(r) :
                              Rank(t)' < scan[r].token + Cardinality(RowIds(r))
      BY <1>1 DEF TwiceInv
    <2>1. \A t \in scan[r].got \cup RowIds(r) : t \in TableIds /\ tables[t].state # "none"
      BY DEF TwiceInv
    <2>2. \A t \in scan[r].got \cup RowIds(r) :
              tables'[t].state # "none" /\ (t \in LiveTables' => t \in LiveTables)
      BY <1>1, <1>a, <2>1, LiveStep
    <2>3. ASSUME NEW t \in scan[r].got \cup RowIds(r), t \in LiveTables'
          PROVE  t \in LiveTables /\ Rank(t) \in Nat /\ Rank(t)' \in Nat /\ Rank(t)' <= Rank(t)
      BY <1>1, <1>a, <2>2, <2>3, RankStep
    <2> QED
      BY <1>a, <2>2, <2>3 DEF TwiceInv
  <1>2. CASE Read(r) /\ UNCHANGED <<tables, snapshots, partitions>>
    <2>a. LiveTables' = LiveTables /\ \A t : Rank(t)' = Rank(t)
      BY <1>2 DEF LiveTables, Rank
    <2>1. ASSUME NEW n \in AskedFor, NEW s \in ReadAt, GetPartitionsPaged(r, n, s)
          PROVE  TwiceInv(r)'
      <3>1. /\ scan'[r].kind = "files" /\ scan'[r].got = scan[r].got
            /\ scan'[r].token = scan[r].token /\ scan'[r].again = scan[r].again
            /\ scan[r] = NoScan \/ scan[r].kind = "files"
        BY <2>1, PagedScan
      <3> QED
        BY <3>1 DEF TwiceInv, NoScan
    <2>2. CASE PageQuery(r)
      <3>1. PICK t, page :
                /\ page = QueryPartitionsPaged(t, call[r].snap, scan[r].token)
                /\ scan[r].kind = "files"
                /\ \/ scan'[r] = NoScan
                   \/ /\ scan'[r].kind = "files" /\ scan'[r].got = scan[r].got \cup page
                      /\ scan'[r].again <=> scan[r].again \/ scan[r].got \cap page # {}
                      /\ page = {} => scan'[r].token = scan[r].token
                      /\ page # {} => scan'[r].token = LastID(page)
        BY <2>2, PageQueryScan
      <3>2. CASE scan'[r] = NoScan
        BY <1>b, <3>2
      <3>3. CASE /\ scan'[r].kind = "files" /\ scan'[r].got = scan[r].got \cup page
                 /\ scan'[r].again <=> scan[r].again \/ scan[r].got \cap page # {}
                 /\ page = {} => scan'[r].token = scan[r].token
                 /\ page # {} => scan'[r].token = LastID(page)
                 /\ scan[r].kind = "files"
        <4>1. /\ page \subseteq FileRow
              /\ \A f \in page : PartitionID(f) \in Nat /\ PartitionID(f) > scan[r].token
              /\ page # {} => /\ LastID(page) \in Nat /\ LastID(page) > scan[r].token
                              /\ \A f \in page : PartitionID(f) <= LastID(page)
          BY <1>a, <3>1, LastOfPage
        <4>2. \A f \in scan[r].got : PartitionID(f) \in Nat /\ PartitionID(f) <= scan[r].token
          BY <1>a, <3>3, PartitionOrder DEF TwiceInv, Serving
        <4>3. scan[r].got \cap page = {} /\ ~ scan'[r].again
          BY <1>a, <3>3, <4>1, <4>2 DEF TwiceInv
        <4>4. \A f \in scan'[r].got : PartitionID(f) <= scan'[r].token
          <5>1. CASE page = {}
            BY <3>3, <4>2, <5>1
          <5>2. CASE page # {}
            BY <1>a, <3>3, <4>1, <4>2, <5>2
          <5> QED
            BY <5>1, <5>2
        <4> QED
          BY <3>3, <4>3, <4>4 DEF TwiceInv
      <3> QED
        BY <3>1, <3>2, <3>3, Zenon
    <2>3. ASSUME NEW size \in {0, PageSize}, ListTables(r, size)
          PROVE  TwiceInv(r)'
      <3>0. PICK n : n = IF size > 0 THEN size ELSE NoPageSize
        OBVIOUS
      <3>1. PICK page : page = ListTablesRows(scan[r].token, n) /\ RowIds(r)' = page /\ n \in Nat
        BY <1>a, <2>3, <3>0, ListTablesScan
      <3>2. /\ scan'[r].kind = "tables" /\ scan'[r].got = scan[r].got
            /\ scan'[r].token = scan[r].token /\ scan'[r].again = scan[r].again
            /\ scan[r] = NoScan \/ scan[r].kind = "tables"
        BY <2>3, ListTablesScan
      <3>3. /\ scan[r].got \subseteq { t \in TableIds : tables[t].state # "none" }
            /\ \A t \in LiveTables \cap scan[r].got : Rank(t) < scan[r].token
        BY <3>2 DEF TwiceInv, NoScan
      <3>4. /\ page \subseteq LiveTables
            /\ \A t \in page : scan[r].token <= Rank(t) /\ Rank(t) < scan[r].token + Cardinality(page)
        BY <1>a, <3>1, TablesPage
      <3>5. scan[r].got \cap page = {}
        <4> SUFFICES ASSUME NEW t \in page, t \in scan[r].got
                     PROVE  FALSE
          OBVIOUS
        <4>1. Rank(t) \in Nat
          BY <3>4, RankBelow
        <4> QED
          BY <1>a, <3>3, <3>4, <4>1
      <3>6. page \subseteq { t \in TableIds : tables[t].state # "none" }
        BY <3>4 DEF LiveTables
      <3>7. ~ scan'[r].again
        BY <3>2 DEF TwiceInv
      <3> QED
        BY <1>2, <2>a, <3>1, <3>2, <3>3, <3>4, <3>5, <3>6, <3>7 DEF TwiceInv
    <2>4. CASE TablesReply(r)
      <3>1. /\ scan[r].kind = "tables" /\ scan'[r].kind = "tables" /\ call'[r] = NoCall
            /\ scan'[r].got = scan[r].got \cup RowIds(r)
            /\ scan'[r].again <=> scan[r].again \/ scan[r].got \cap RowIds(r) # {}
            /\ scan'[r].token = scan[r].token + Cardinality(RowIds(r))
        BY <2>4, TablesReplyScan
      <3>2. RowIds(r)' = {} /\ ~ scan'[r].again
        BY <3>1 DEF RowIds, NoCall, ListingTables, TwiceInv
      <3>3. \A t \in LiveTables \cap scan'[r].got : Rank(t) < scan'[r].token
        <4> SUFFICES ASSUME NEW t \in LiveTables, t \in scan[r].got \/ t \in RowIds(r)
                     PROVE  Rank(t) < scan[r].token + Cardinality(RowIds(r))
          BY <3>1
        <4>1. Rank(t) \in Nat
          BY RankBelow
        <4> QED
          BY <1>a, <3>1, <4>1 DEF TwiceInv
      <3> QED
        BY <1>2, <2>a, <3>1, <3>2, <3>3 DEF TwiceInv
    <2>5. CASE scan'[r] = scan[r] /\ call'[r] = NoCall
      <3>1. RowIds(r)' = {}
        BY <2>5 DEF RowIds, NoCall, ListingTables
      <3> QED
        BY <1>1, <1>2, <2>5, <3>1
    <2>6. CASE scan'[r] = scan[r] /\ RowIds(r)' = RowIds(r)
      BY <1>1, <1>2, <2>6
    <2> QED
      BY <1>2, <1>b, <2>1, <2>2, <2>3, <2>4, <2>5, <2>6, ScanSteps
  <1>3. ASSUME call'[r] = call[r] \/ call'[r] = NoCall
        PROVE  RowIds(r)' = RowIds(r) \/ RowIds(r)' = {}
    <2>1. call'[r] = NoCall => RowIds(r)' = {}
      BY DEF RowIds, NoCall, ListingTables
    <2>2. call'[r] = call[r] => RowIds(r)' = RowIds(r)
      BY DEF RowIds
    <2> QED
      BY <1>3, <2>1, <2>2
  <1> QED
    BY <1>1, <1>2, <1>3, OthersTables

\* The limit of a page of tables.
PageLimit(r) == IF scan[r].size > 0 THEN scan[r].size ELSE NoPageSize

\* Unless a table was dropped, a listing of tables has the kept tables up to its
\* token, and the page that is being put together those of its window.
TablesInv(r) ==
    scan[r].kind = "tables" /\ ~ watch[r].lost =>
        /\ \A t \in Kept(r) : Rank(t) < scan[r].token => t \in scan[r].got
        /\ scan[r].size = 0 /\ ~ scan[r].done => scan[r].token = 0
        /\ scan[r].done => \A t \in Kept(r) :
              scan[r].size > 0 \/ Rank(t) < NoPageSize => t \in scan[r].got
        /\ call[r].at \in ListingTables =>
              /\ ~ scan[r].done /\ Cardinality(RowIds(r)) <= PageLimit(r)
              /\ \A t \in Kept(r) :
                    \/ Rank(t) < scan[r].token + PageLimit(r)
                    \/ Cardinality(RowIds(r)) < PageLimit(r)
                    => t \in scan[r].got \cup RowIds(r)

\* Every step keeps what TablesInv says of a listing of tables.
LEMMA TablesStep ==
    ASSUME BasicInv, UsedInv, [ReadsNext]_<<vars, readVars>>, NEW r \in Readers, KeptInv(r),
           TablesInv(r)
    PROVE  TablesInv(r)'
  <1>a. /\ IInv /\ LinearInv /\ DbInv /\ watch \in [Readers -> WatchRow] /\ TypeOK
        /\ scan[r].token \in Nat /\ scan[r].size \in Nat
        /\ Cardinality(RowIds(r)) \in Nat /\ Kept(r) \subseteq TableIds
        /\ PageSize \in Nat \ {0} /\ NoPageSize \in Nat \ {0}
    BY RowIdsType, ReadsConstants DEF BasicInv, ShapeInv, ScanRow, WatchRow, Kept, IInv
  <1>b. BasicInv' /\ KeptInv(r)'
    BY BasicStep, KeptStep
  <1>c. /\ \A t \in Kept(r) : t \in LiveTables /\ Rank(t) \in Nat
        /\ \A t \in Kept(r)' : t \in LiveTables'
    <2>1. \A t \in Kept(r) : t \in LiveTables
      BY <1>a DEF KeptInv, LiveTables
    <2>2. \A t \in Kept(r)' : t \in LiveTables'
      BY <1>b DEF KeptInv, LiveTables, BasicInv, ShapeInv, WatchRow, Kept
    <2> QED
      BY <2>1, <2>2, RankBelow
  <1>1. CASE /\ [Next]_vars \/ UNCHANGED tables
             /\ scan'[r] = scan[r] /\ (call'[r] = call[r] \/ call'[r] = NoCall)
             /\ scan[r].kind = "tables" =>
                   /\ Kept(r)' \subseteq Kept(r)
                   /\ ~ watch'[r].lost => ~ watch[r].lost /\ LiveTables \subseteq LiveTables'
    <2> SUFFICES ASSUME scan[r].kind = "tables", ~ watch'[r].lost
                 PROVE  TablesInv(r)'
      BY <1>1 DEF TablesInv
    <2>1. ~ watch[r].lost /\ \A t \in Kept(r)' : t \in Kept(r) /\ Rank(t)' = Rank(t)
      BY <1>1, <1>a, <1>c, RankStep
    <2>2. CASE call'[r] = call[r]
      <3>1. RowIds(r)' = RowIds(r) /\ PageLimit(r)' = PageLimit(r)
        BY <1>1, <2>2 DEF RowIds, PageLimit
      <3> QED
        BY <1>1, <2>1, <2>2, <3>1 DEF TablesInv
    <2>3. CASE call'[r] = NoCall
      BY <1>1, <2>1, <2>3 DEF TablesInv, NoCall, ListingTables
    <2> QED
      BY <1>1, <2>2, <2>3
  <1>2. CASE Read(r) /\ UNCHANGED <<tables, snapshots, partitions>>
    <2>a. LiveTables' = LiveTables /\ \A t : Rank(t)' = Rank(t)
      BY <1>2 DEF LiveTables, Rank
    <2>1. ASSUME NEW n \in AskedFor, NEW s \in ReadAt, GetPartitionsPaged(r, n, s)
          PROVE  TablesInv(r)'
      BY <2>1, PagedScan DEF TablesInv
    <2>2. CASE PageQuery(r)
      <3>1. scan'[r].kind = "files" \/ scan'[r] = NoScan
        BY <2>2, PageQueryScan
      <3> QED
        BY <3>1 DEF TablesInv, NoScan
    <2>3. ASSUME NEW size \in {0, PageSize}, ListTables(r, size)
          PROVE  TablesInv(r)'
      <3>1. PICK n : n = IF size > 0 THEN size ELSE NoPageSize
        OBVIOUS
      <3>2. PICK page : page = ListTablesRows(scan[r].token, n)
        OBVIOUS
      <3>3. /\ scan'[r].kind = "tables" /\ scan'[r].size = size
            /\ scan'[r].got = scan[r].got /\ scan'[r].token = scan[r].token
            /\ ~ scan'[r].done /\ ~ scan[r].done /\ RowIds(r)' = page
            /\ \/ scan[r] = NoScan /\ BeginAll(r)
               \/ scan[r].kind = "tables" /\ scan[r].size = size /\ watch' = watch
        BY <2>3, <3>1, <3>2, ListTablesScan
      <3>4. n \in Nat /\ PageLimit(r)' = n
        BY <1>a, <3>1, <3>3 DEF PageLimit
      <3>5. /\ Cardinality(page) <= n
            /\ \A t \in LiveTables : scan[r].token <= Rank(t) /\ Rank(t) < scan[r].token + n => t \in page
            /\ Cardinality(page) < n => \A t \in LiveTables : scan[r].token <= Rank(t) => t \in page
        <4>1. scan[r].token \in Nat /\ n \in Nat
          BY <1>a, <3>4
        <4>2. PICK off \in Nat : off = scan[r].token /\ page = ListTablesRows(off, n)
          BY <3>2, <4>1
        <4>3. Cardinality(page) <= n
          BY <4>1, <4>2, TablesPage
        <4>4. \A t \in LiveTables : off <= Rank(t) /\ Rank(t) < off + n => t \in page
          BY <4>1, <4>2, TablesPage
        <4>5. ASSUME Cardinality(page) < n
              PROVE  \A t \in LiveTables : off <= Rank(t) => t \in page
          BY <4>1, <4>2, <4>5, TablesPage
        <4> QED
          BY <4>2, <4>3, <4>4, <4>5
      <3> SUFFICES ASSUME ~ watch'[r].lost
                   PROVE  TablesInv(r)'
        BY DEF TablesInv
      <3>6. /\ \A t \in Kept(r)' : t \in LiveTables /\ Rank(t) \in Nat
                                  /\ (Rank(t) < scan[r].token => t \in scan[r].got)
            /\ size = 0 => scan[r].token = 0
        <4>1. CASE scan[r] = NoScan /\ BeginAll(r)
          <5>1. Kept(r)' = LiveTables /\ scan[r].token = 0
            BY <1>a, <4>1, BeginType DEF Kept, NoScan
          <5>2. \A t \in LiveTables : Rank(t) \in Nat
            BY RankBelow
          <5> QED
            BY <5>1, <5>2
        <4>2. CASE scan[r].kind = "tables" /\ scan[r].size = size /\ watch' = watch
          <5>1. Kept(r)' = Kept(r) /\ ~ watch[r].lost
            BY <4>2 DEF Kept
          <5> QED
            BY <1>c, <3>3, <4>2, <5>1 DEF TablesInv
        <4> QED
          BY <3>3, <4>1, <4>2
      <3>7. ASSUME NEW t \in Kept(r)', Rank(t) < scan[r].token + n \/ Cardinality(page) < n
            PROVE  t \in scan[r].got \cup page
        <4>1. CASE Rank(t) < scan[r].token
          BY <3>6, <4>1
        <4>2. CASE ~ (Rank(t) < scan[r].token)
          <5>1. t \in LiveTables /\ scan[r].token <= Rank(t)
            BY <1>a, <3>6, <4>2
          <5> QED
            BY <3>5, <3>7, <5>1
        <4> QED
          BY <4>1, <4>2
      <3> QED
        BY <2>a, <3>3, <3>4, <3>5, <3>6, <3>7 DEF TablesInv
    <2>4. CASE TablesReply(r)
      <3>1. /\ scan[r].kind = "tables" /\ scan'[r].kind = "tables" /\ call'[r] = NoCall
            /\ watch' = watch /\ scan'[r].size = scan[r].size
            /\ call[r].at \in ListingTables
            /\ scan'[r].got = scan[r].got \cup RowIds(r)
            /\ scan'[r].token = scan[r].token + Cardinality(RowIds(r))
            /\ scan'[r].done <=> scan[r].size = 0 \/ Cardinality(RowIds(r)) # scan[r].size
        BY <2>4, TablesReplyScan
      <3> SUFFICES ASSUME ~ watch[r].lost
                   PROVE  TablesInv(r)'
        BY <3>1 DEF TablesInv
      <3>2. Kept(r)' = Kept(r)
        BY <3>1 DEF Kept
      <3>3. /\ Cardinality(RowIds(r)) <= PageLimit(r) /\ ~ scan[r].done
            /\ \A t \in Kept(r) :
                  \/ Rank(t) < scan[r].token + PageLimit(r)
                  \/ Cardinality(RowIds(r)) < PageLimit(r)
                  => t \in scan[r].got \cup RowIds(r)
        BY <3>1 DEF TablesInv
      <3>4. PageLimit(r) \in Nat
        BY <1>a DEF PageLimit
      <3>5. ASSUME NEW t \in Kept(r), Rank(t) < scan'[r].token
            PROVE  t \in scan'[r].got
        BY <1>a, <1>c, <3>1, <3>3, <3>4, <3>5
      <3>6. ASSUME scan'[r].done, NEW t \in Kept(r), scan[r].size > 0 \/ Rank(t) < NoPageSize
            PROVE  t \in scan'[r].got
        <4>1. CASE scan[r].size > 0
          <5>1. PageLimit(r) = scan[r].size /\ Cardinality(RowIds(r)) # scan[r].size
            BY <1>a, <3>1, <3>6, <4>1 DEF PageLimit
          <5>2. Cardinality(RowIds(r)) < PageLimit(r)
            BY <1>a, <3>3, <3>4, <5>1
          <5> QED
            BY <3>1, <3>3, <5>2
        <4>2. CASE ~ (scan[r].size > 0)
          <5>1. PageLimit(r) = NoPageSize /\ scan[r].token = 0
            BY <1>a, <3>1, <3>3, <4>2 DEF PageLimit, TablesInv
          <5>2. Rank(t) < scan[r].token + PageLimit(r)
            BY <1>a, <1>c, <3>6, <4>2, <5>1
          <5> QED
            BY <3>1, <3>3, <5>2
        <4> QED
          BY <4>1, <4>2
      <3>7. scan'[r].size = 0 => scan'[r].done
        BY <3>1
      <3>8. call'[r].at \notin ListingTables
        BY <3>1 DEF NoCall, ListingTables
      <3> QED
        BY <2>a, <3>1, <3>2, <3>5, <3>6, <3>7, <3>8 DEF TablesInv
    <2>5. CASE scan'[r] = NoScan
      BY <2>5 DEF TablesInv, NoScan
    <2>6. CASE /\ scan'[r] = scan[r] /\ watch'[r] = watch[r] /\ RowIds(r)' = RowIds(r)
               /\ call'[r].at \in ListingTables /\ call[r].at \in ListingTables
      <3>1. Kept(r)' = Kept(r) /\ PageLimit(r)' = PageLimit(r)
        BY <2>6 DEF Kept, PageLimit
      <3> QED
        BY <2>a, <2>6, <3>1 DEF TablesInv
    <2>7. CASE scan'[r] = scan[r] /\ watch'[r] = watch[r] /\ call'[r] = NoCall
      <3>1. Kept(r)' = Kept(r)
        BY <2>7 DEF Kept
      <3> QED
        BY <2>a, <2>7, <3>1 DEF TablesInv, NoCall, ListingTables
    <2> QED
      BY <1>2, <2>1, <2>2, <2>3, <2>4, <2>5, <2>6, <2>7, ScanSteps
  <1> QED
    BY <1>1, <1>2, OthersTables

-----------------------------------------------------------------------------
(* The listing of files *)

\* A file that is visible at a snapshot was visible at every earlier one, back
\* to the one that added it.
LEMMA VisibleBetween ==
    ASSUME TypeOK, NEW t, NEW f, NEW a \in Nat, NEW b \in Nat, NEW c \in Nat, a <= b, b <= c,
           f \in Visible(t, a), f \in Visible(t, c)
    PROVE  f \in Visible(t, b)
  <1>1. PICK p \in partitions : p.table = t /\ VisibleAt(p, a)
                                /\ f = [table |-> p.table, snap |-> p.snap, key |-> p.key]
    BY DEF Visible
  <1>2. PICK q \in partitions : q.table = t /\ VisibleAt(q, c)
                                /\ f = [table |-> q.table, snap |-> q.snap, key |-> q.key]
    BY DEF Visible
  <1>3. p.snap = q.snap /\ q.snap \in Nat /\ q.del \in Nat
    BY <1>1, <1>2 DEF TypeOK, PartitionRow, SnapIds
  <1>4. VisibleAt(q, b)
    BY <1>1, <1>2, <1>3 DEF VisibleAt
  <1> QED
    BY <1>2, <1>4 DEF Visible

\* A file of a table, and its place in the order.
LEMMA VisibleFile ==
    ASSUME BasicInv, NEW t, NEW s, NEW f \in Visible(t, s)
    PROVE  f \in FileRow /\ f.table = t /\ PartitionID(f) \in Nat /\ PartitionID(f) > 0
  <1>1. PICK p \in partitions : p.table = t
                                /\ f = [table |-> p.table, snap |-> p.snap, key |-> p.key]
    BY DEF Visible
  <1>2. f.table = t /\ f.snap > 0
    BY <1>1 DEF BasicInv, DbInv
  <1>3. f \in FileRow
    BY VisibleType DEF BasicInv, IInv
  <1> QED
    BY <1>2, <1>3, PartitionOrder

\* A page of files has every file from its token up to its last one, and an
\* empty page means that there are no more.
LEMMA FilesWindow ==
    ASSUME BasicInv, NEW t, NEW s, NEW last \in Nat, NEW page,
           page = QueryPartitionsPaged(t, s, last), NEW f \in Visible(t, s), PartitionID(f) > last
    PROVE  page # {} /\ (PartitionID(f) <= LastID(page) => f \in page)
  <1>1. PICK S, w : /\ S = { g \in Visible(t, s) : PartitionID(g) > last }
                    /\ w = [g \in S |-> PartitionID(g)]
    OBVIOUS
  <1>2. /\ \A g \in S : g \in FileRow /\ g.table = t /\ PartitionID(g) \in Nat
        /\ \A g \in S : w[g] = PartitionID(g)
        /\ f \in S
    BY <1>1, VisibleFile
  <1>3. w \in [S -> Int]
    BY <1>1, <1>2
  <1>4. IsFiniteSet(S)
    BY <1>1, VisibleFinite, FS_Subset DEF BasicInv, IInv
  <1>5. \A g, h \in S : w[g] = w[h] => g = h
    BY <1>2, PartitionOrder
  <1>6. page = Page(S, w, 0, PageSize)
    <2>1. \A x \in S : { y \in S : PartitionID(y) < PartitionID(x) } = { y \in S : w[y] < w[x] }
      BY <1>2
    <2>2. page = { x \in S : LET before == Cardinality({ y \in S : PartitionID(y) < PartitionID(x) })
                             IN  0 <= before /\ before < 0 + PageSize }
      BY <1>1 DEF QueryPartitionsPaged, Window
    <2> QED
      BY <2>1, <2>2 DEF Page, Before
  <1>7. PageSize \in Nat /\ PageSize > 0
    BY ReadsConstants
  <1>8. page # {}
    <2> SUFFICES ASSUME page = {} PROVE FALSE
      OBVIOUS
    <2>1. Cardinality(Page(S, w, 0, PageSize)) < PageSize
      BY <1>6, <1>7, FS_EmptySet
    <2>2. 0 <= Before(S, w, f)
      BY <1>2, <1>3, <1>4, BeforeMono
    <2>3. f \in Page(S, w, 0, PageSize)
      BY <1>2, <1>3, <1>4, <1>5, <1>7, <2>1, <2>2, PageShort
    <2> QED
      BY <1>6, <2>3
  <1>9. ASSUME PartitionID(f) <= LastID(page)
        PROVE  f \in page
    <2>1. PICK g \in page : PartitionID(g) = LastID(page)
      BY <1>8, LastOfPage DEF BasicInv, IInv
    <2>2. g \in S /\ Before(S, w, g) < 0 + PageSize /\ w[f] <= w[g]
      BY <1>2, <1>6, <1>9, <2>1 DEF Page
    <2>3. Before(S, w, f) \in Nat /\ Before(S, w, g) \in Nat /\ Before(S, w, f) <= Before(S, w, g)
      BY <1>2, <1>3, <1>4, <2>2, BeforeMono
    <2> QED
      BY <1>2, <1>6, <1>7, <2>2, <2>3 DEF Page
  <1> QED
    BY <1>8, <1>9

\* The current snapshot of a live table, by its name.
LEMMA CurrentOf ==
    ASSUME BasicInv, NEW n, NEW t \in TableIds, IsLive(t, n)
    PROVE  GetTableID(n) = t /\ GetCurrentSnapshot(n) = tables[t].current
  <1>1. GetTableID(n) = t
    BY GetTableIDUnique DEF BasicInv, IInv
  <1> QED
    BY <1>1, CatalogAssumption DEF GetCurrentSnapshot, TableIds

\* The snapshots of a listing: the one it asks for, or one after the other up
\* to the current one; nothing is listed before the first page.
SpanInv(r, t) ==
    /\ scan[r].tids \subseteq {t}
    /\ scan[r].ask # 0 =>
          /\ call[r].at = "page_query" => call[r].snap = scan[r].ask
          /\ scan[r].tids # {} => scan[r].first = scan[r].ask /\ scan[r].last = scan[r].ask
    /\ scan[r].ask = 0 =>
          /\ scan[r].first <= scan[r].last /\ scan[r].last <= tables[t].current
          /\ call[r].at = "page_query" =>
                scan[r].last <= call[r].snap /\ call[r].snap <= tables[t].current
    /\ scan[r].tids = {} => scan[r].got = {} /\ scan[r].token = 0 /\ ~ scan[r].done

\* A listing has the files up to its token that all its snapshots have, it has
\* a file only if one of them does, and it is done when no file is left.
ListedInv(r, t) ==
    scan[r].tids # {} /\ (scan[r].ask = 0 \/ scan[r].ask <= watch[r].head) =>
        /\ \A f \in Visible(t, scan[r].first) \cap Visible(t, scan[r].last) :
              PartitionID(f) <= scan[r].token => f \in scan[r].got
        /\ \A f \in scan[r].got : \E s \in scan[r].first .. scan[r].last : f \in Visible(t, s)
        /\ scan[r].done => \A f \in Visible(t, scan[r].last) : PartitionID(f) <= scan[r].token

FilesInv(r) ==
    /\ scan[r].kind = "files" => \A t \in Kept(r) : SpanInv(r, t) /\ ListedInv(r, t)
    /\ scan[r].kind # "files" => scan[r].tids = {}

\* A page comes in: the snapshots of the listing go on from the last one to the
\* one of the page.
LEMMA PageListed ==
    ASSUME BasicInv, NEW r \in Readers, NEW t \in Kept(r), KeptInv(r),
           scan[r].kind = "files", SpanInv(r, t), ListedInv(r, t),
           UNCHANGED <<tables, snapshots, partitions>>, PageQuery(r), scan'[r] # NoScan
    PROVE  SpanInv(r, t)' /\ ListedInv(r, t)'
  <1>a. /\ t \in TableIds /\ call[r].snap \in Nat /\ watch[r].head \in Nat /\ TypeOK
        /\ tables[t].current \in Nat /\ scan[r].ask \in Nat /\ scan[r].token \in Nat
        /\ scan[r].first \in Nat /\ scan[r].last \in Nat /\ Serving(r)
    BY DEF BasicInv, ShapeInv, WatchRow, Kept, CallRow, ScanRow, SnapIds, IInv, TypeOK, TableRow
  <1>b. \A u, s : Visible(u, s)' = Visible(u, s)
    BY DEF Visible, VisibleAt
  <1>1. PICK u, page :
           /\ u = GetTableID(call[r].name)
           /\ page = QueryPartitionsPaged(u, call[r].snap, scan[r].token)
           /\ call[r].at = "page_query" /\ call'[r] = NoCall
           /\ u # 0 /\ watch' = watch
           /\ scan'[r].ask = scan[r].ask /\ scan'[r].got = scan[r].got \cup page
           /\ page = {} => scan'[r].token = scan[r].token
           /\ page # {} => scan'[r].token = LastID(page)
           /\ scan'[r].done <=> page = {}
           /\ scan'[r].tids = scan[r].tids \cup {u}
           /\ scan[r].tids = {} => scan'[r].first = call[r].snap
           /\ scan[r].tids # {} => scan'[r].first = scan[r].first
           /\ scan'[r].last = call[r].snap
    BY PageQueryScan
  <1>2. u = t
    <2>1. call[r].name \in Names /\ call[r].name # None
      BY <1>a, <1>1, CatalogAssumption DEF Serving, ListingTables
    <2>2. IsLive(t, call[r].name)
      BY <2>1 DEF KeptInv, IsLive
    <2> QED
      BY <1>a, <1>1, <2>2, CurrentOf
  <1>3. scan'[r].tids = {t} /\ scan'[r].tids # {}
    BY <1>1, <1>2 DEF SpanInv
  <1>4. /\ scan[r].ask # 0 => scan'[r].first = scan[r].ask /\ scan'[r].last = scan[r].ask
        /\ scan[r].ask = 0 => scan'[r].first <= scan'[r].last /\ scan'[r].last <= tables[t].current
    BY <1>a, <1>1 DEF SpanInv
  <1>5. SpanInv(r, t)'
    BY <1>1, <1>3, <1>4 DEF SpanInv, NoCall
  <1>6. ASSUME scan[r].ask = 0 \/ scan[r].ask <= watch[r].head
        PROVE  /\ \A f \in Visible(t, scan'[r].first) \cap Visible(t, scan'[r].last) :
                     PartitionID(f) <= scan'[r].token => f \in scan'[r].got
               /\ \A f \in scan'[r].got :
                     \E s \in scan'[r].first .. scan'[r].last : f \in Visible(t, s)
               /\ scan'[r].done => \A f \in Visible(t, scan'[r].last) : PartitionID(f) <= scan'[r].token
    <2>a. /\ scan'[r].first \in Nat /\ scan'[r].last \in Nat /\ scan'[r].first <= scan'[r].last
      BY <1>a, <1>1, <1>4
    <2>1. ASSUME NEW f \in Visible(t, scan'[r].last), PartitionID(f) > scan[r].token
          PROVE  page # {} /\ (PartitionID(f) <= LastID(page) => f \in page)
      BY <1>a, <1>1, <1>2, <2>1, FilesWindow
    <2>2. \A f \in Visible(t, scan'[r].last) : PartitionID(f) \in Nat /\ PartitionID(f) > 0
      BY VisibleFile
    <2>3. scan'[r].done => \A f \in Visible(t, scan'[r].last) : PartitionID(f) <= scan'[r].token
      BY <1>a, <1>1, <2>1, <2>2
    <2>4. ASSUME NEW f \in Visible(t, scan'[r].first), f \in Visible(t, scan'[r].last),
                 PartitionID(f) <= scan'[r].token
          PROVE  f \in scan'[r].got
      <3>1. CASE PartitionID(f) > scan[r].token
        BY <1>1, <2>1, <2>4, <3>1
      <3>2. CASE ~ (PartitionID(f) > scan[r].token)
        <4>1. scan[r].tids # {}
          BY <1>a, <2>2, <2>4, <3>2 DEF SpanInv
        <4>2. f \in Visible(t, scan[r].first) /\ scan'[r].first = scan[r].first
          BY <1>1, <2>4, <4>1
        <4>3. scan[r].first <= scan[r].last /\ scan[r].last <= scan'[r].last
          BY <1>a, <1>1, <4>1 DEF SpanInv
        <4>4. f \in Visible(t, scan[r].last)
          BY <1>a, <2>a, <2>4, <4>2, <4>3, VisibleBetween
        <4>5. PartitionID(f) <= scan[r].token
          BY <1>a, <2>2, <2>4, <3>2
        <4> QED
          BY <1>1, <1>6, <4>1, <4>2, <4>4, <4>5 DEF ListedInv
      <3> QED
        BY <3>1, <3>2
    <2>5. ASSUME NEW f \in scan'[r].got
          PROVE  \E s \in scan'[r].first .. scan'[r].last : f \in Visible(t, s)
      <3>1. CASE f \in page
        <4>1. page \subseteq Visible(t, scan'[r].last)
          BY <1>a, <1>1, <1>2, LastOfPage
        <4> QED
          BY <2>a, <3>1, <4>1
      <3>2. CASE f \in scan[r].got
        <4>1. scan[r].tids # {}
          BY <3>2 DEF SpanInv
        <4>2. scan'[r].first = scan[r].first /\ scan[r].last <= scan'[r].last
          BY <1>a, <1>1, <4>1 DEF SpanInv
        <4>3. PICK s \in scan[r].first .. scan[r].last : f \in Visible(t, s)
          BY <1>6, <3>2, <4>1 DEF ListedInv
        <4>4. s \in scan'[r].first .. scan'[r].last
          BY <1>a, <2>a, <4>2
        <4> QED
          BY <4>3, <4>4
      <3> QED
        BY <1>1, <2>5, <3>1, <3>2
    <2> QED
      BY <2>3, <2>4, <2>5
  <1>7. ListedInv(r, t)'
    BY <1>b, <1>1, <1>6 DEF ListedInv
  <1> QED
    BY <1>5, <1>7

\* The listing of files keeps what FilesInv says of it.
LEMMA FilesStep ==
    ASSUME BasicInv, [ReadsNext]_<<vars, readVars>>, NEW r \in Readers, KeptInv(r), FilesInv(r)
    PROVE  FilesInv(r)'
  <1>a. /\ call \in [Readers -> CallRow] /\ call[r] \in CallRow /\ Kept(r) \subseteq TableIds
        /\ watch \in [Readers -> WatchRow] /\ scan[r] \in ScanRow
        /\ call[r].snap \in Nat /\ watch[r].head \in Nat /\ TypeOK
        /\ scan[r].ask \in Nat /\ scan[r].first \in Nat /\ scan[r].last \in Nat
        /\ \A t \in TableIds : tables[t].current \in Nat
    BY DEF BasicInv, ShapeInv, WatchRow, Kept, CallRow, ScanRow, SnapIds, IInv, TypeOK, TableRow
  <1>1. CASE Calm(r) /\ scan'[r] = scan[r] /\ (call'[r] = call[r] \/ call'[r] = NoCall)
    <2> SUFFICES ASSUME scan[r].kind = "files", NEW t \in Kept(r)'
                 PROVE  SpanInv(r, t)' /\ ListedInv(r, t)'
      BY <1>1 DEF FilesInv
    <2>1. /\ t \in Kept(r) /\ watch'[r].head = watch[r].head
          /\ tables[t].current <= tables'[t].current
          /\ \A s \in 0 .. tables[t].current : Visible(t, s)' = Visible(t, s)
      BY <1>1 DEF Calm
    <2>2. SpanInv(r, t) /\ ListedInv(r, t) /\ t \in TableIds /\ watch[r].head <= tables[t].current
      BY <1>a, <2>1 DEF FilesInv, KeptInv
    <2>3. tables'[t].current \in Nat
      BY <2>2, BasicStep DEF BasicInv, IInv, TypeOK, TableRow, SnapIds
    <2>4. SpanInv(r, t)'
      <3>1. CASE call'[r] = call[r]
        BY <1>1, <1>a, <2>1, <2>2, <2>3, <3>1 DEF SpanInv
      <3>2. CASE call'[r] = NoCall
        BY <1>1, <1>a, <2>1, <2>2, <2>3, <3>2 DEF SpanInv, NoCall
      <3> QED
        BY <1>1, <3>1, <3>2
    <2>5. ListedInv(r, t)'
      <3> SUFFICES ASSUME scan[r].tids # {}, scan[r].ask = 0 \/ scan[r].ask <= watch[r].head
                   PROVE  ListedInv(r, t)'
        BY <1>1, <2>1 DEF ListedInv
      <3>1. scan[r].first \in 0 .. tables[t].current /\ scan[r].last \in 0 .. tables[t].current
        BY <1>a, <2>2 DEF SpanInv
      <3>2. \A s \in scan[r].first .. scan[r].last : Visible(t, s)' = Visible(t, s)
        BY <1>a, <2>1, <2>2, <3>1
      <3>3. /\ Visible(t, scan[r].first)' = Visible(t, scan[r].first)
            /\ Visible(t, scan[r].last)' = Visible(t, scan[r].last)
        BY <1>1, <2>1, <3>1 DEF Visible
      <3> QED
        BY <1>1, <2>1, <2>2, <3>2, <3>3 DEF ListedInv
    <2> QED
      BY <2>4, <2>5
  <1>2. CASE Read(r) /\ UNCHANGED <<tables, snapshots, partitions>>
    <2>a. \A t, s : Visible(t, s)' = Visible(t, s)
      BY <1>2 DEF Visible, VisibleAt
    <2>1. ASSUME NEW n \in AskedFor, NEW s \in ReadAt, GetPartitionsPaged(r, n, s)
          PROVE  FilesInv(r)'
      <3>1. /\ scan'[r].ask = s /\ scan'[r].kind = "files"
            /\ scan'[r].got = scan[r].got /\ scan'[r].token = scan[r].token
            /\ scan'[r].done = scan[r].done /\ ~ scan[r].done
            /\ scan'[r].tids = scan[r].tids /\ scan'[r].first = scan[r].first
            /\ scan'[r].last = scan[r].last
            /\ call'[r].at = "page_query" /\ call'[r].snap = ResolveSnapshot(n, s)
            /\ \/ scan[r] = NoScan /\ Begin(r, n)
               \/ scan[r].kind = "files" /\ scan[r].name = n /\ scan[r].ask = s /\ watch' = watch
        BY <2>1, PagedScan
      <3> SUFFICES ASSUME NEW t \in Kept(r)'
                   PROVE  SpanInv(r, t)' /\ ListedInv(r, t)'
        BY <3>1 DEF FilesInv
      <3>2. CASE scan[r] = NoScan /\ Begin(r, n)
        <4>1. t \in TableIds /\ IsLive(t, n)
          BY <1>a, <3>2, BeginType DEF Kept
        <4>2. GetCurrentSnapshot(n) = tables[t].current /\ tables[t].current \in Nat
          BY <1>a, <4>1, CurrentOf
        <4>3. /\ scan'[r].tids = {} /\ scan'[r].got = {} /\ scan'[r].token = 0
              /\ scan'[r].first = 0 /\ scan'[r].last = 0 /\ ~ scan'[r].done
          BY <3>1, <3>2 DEF NoScan
        <4> QED
          BY <1>2, <3>1, <4>2, <4>3 DEF SpanInv, ListedInv, ResolveSnapshot
      <3>3. CASE scan[r].kind = "files" /\ scan[r].name = n /\ scan[r].ask = s /\ watch' = watch
        <4>1. t \in Kept(r) /\ t \in TableIds /\ SpanInv(r, t) /\ ListedInv(r, t)
          BY <1>a, <3>3 DEF FilesInv, Kept
        <4>2. n # None
          BY ReadsConstants, CatalogAssumption
        <4>3. IsLive(t, n)
          BY <3>3, <4>1, <4>2 DEF KeptInv, IsLive
        <4>4. GetCurrentSnapshot(n) = tables[t].current /\ tables[t].current \in Nat
          BY <1>a, <4>1, <4>3, CurrentOf
        <4>5. SpanInv(r, t)'
          BY <1>2, <1>a, <3>1, <3>3, <4>1, <4>4 DEF SpanInv, ResolveSnapshot
        <4>6. ListedInv(r, t)'
          BY <2>a, <3>1, <3>3, <4>1 DEF ListedInv
        <4> QED
          BY <4>5, <4>6
      <3> QED
        BY <3>1, <3>2, <3>3
    <2>2. CASE PageQuery(r)
      <3>1. /\ scan[r].kind = "files"
            /\ scan'[r] = NoScan \/ (scan'[r].kind = "files" /\ watch' = watch)
        BY <2>2, PageQueryScan
      <3> SUFFICES ASSUME scan'[r] # NoScan, NEW t \in Kept(r)'
                   PROVE  SpanInv(r, t)' /\ ListedInv(r, t)'
        BY <3>1 DEF FilesInv, NoScan
      <3>2. t \in Kept(r) /\ SpanInv(r, t) /\ ListedInv(r, t)
        BY <3>1 DEF FilesInv, Kept
      <3> QED
        BY <1>2, <2>2, <3>1, <3>2, PageListed
    <2>3. ASSUME NEW size \in {0, PageSize}, ListTables(r, size)
          PROVE  FilesInv(r)'
      <3>1. /\ scan'[r].kind = "tables" /\ scan'[r].tids = scan[r].tids
            /\ scan[r] = NoScan \/ scan[r].kind = "tables"
        BY <2>3, ListTablesScan
      <3> QED
        BY <3>1 DEF FilesInv, NoScan
    <2>4. CASE TablesReply(r)
      <3>1. scan'[r].kind = "tables" /\ scan[r].kind = "tables" /\ scan'[r].tids = scan[r].tids
        BY <2>4, TablesReplyScan
      <3> QED
        BY <3>1 DEF FilesInv
    <2>5. CASE scan'[r] = NoScan
      BY <2>5 DEF FilesInv, NoScan
    <2>6. CASE /\ scan'[r] = scan[r] /\ watch'[r] = watch[r] /\ RowIds(r)' = RowIds(r)
               /\ call'[r].at \in ListingTables /\ call[r].at \in ListingTables
      <3>1. scan[r].kind = "tables"
        BY <2>6 DEF BasicInv, ShapeInv, Serving
      <3> QED
        BY <2>6, <3>1 DEF FilesInv
    <2>7. CASE scan'[r] = scan[r] /\ watch'[r] = watch[r] /\ call'[r] = NoCall
      <3> SUFFICES ASSUME scan[r].kind = "files", NEW t \in Kept(r)'
                   PROVE  SpanInv(r, t)' /\ ListedInv(r, t)'
        BY <2>7 DEF FilesInv
      <3>1. t \in Kept(r) /\ SpanInv(r, t) /\ ListedInv(r, t)
        BY <2>7 DEF FilesInv, Kept
      <3>2. SpanInv(r, t)'
        BY <1>2, <2>7, <3>1 DEF SpanInv, NoCall
      <3>3. ListedInv(r, t)'
        BY <2>a, <2>7, <3>1 DEF ListedInv
      <3> QED
        BY <3>2, <3>3
    <2> QED
      BY <1>2, <2>1, <2>2, <2>3, <2>4, <2>5, <2>6, <2>7, ScanSteps
  <1> QED
    BY <1>1, <1>2, OthersCalm

-----------------------------------------------------------------------------
(* Theorems *)

\* What holds of a reader.
ReaderInv(r) ==
    /\ KeptInv(r) /\ HistoryInv(r) /\ SnapshotFilesInv(r) /\ ManifestsInv(r) /\ SummaryInv(r)
    /\ TwiceInv(r) /\ TablesInv(r) /\ FilesInv(r)

AnswerInv == UsedInv /\ \A r \in Readers : ReaderInv(r)

\* No reader has anything at first.
LEMMA AnswerInit ==
    ASSUME ReadsInit
    PROVE  AnswerInv
  <1>1. UsedInv
    BY DEF ReadsInit, Init, UsedInv, NoTable
  <1>2. ASSUME NEW r \in Readers
        PROVE  ReaderInv(r)
    <2>1. scan[r] = NoScan /\ call[r] = NoCall /\ watch[r] = NoWatch /\ Kept(r) = {}
      BY DEF ReadsInit, Kept, NoWatch
    <2>2. call[r].at = "idle" /\ scan[r].kind = "none" /\ ~ scan[r].again
      BY <2>1 DEF NoCall, NoScan
    <2>3. KeptInv(r) /\ HistoryInv(r) /\ SnapshotFilesInv(r)
      BY <2>1, <2>2 DEF KeptInv, HistoryInv, SnapshotFilesInv
    <2>4. ManifestsInv(r) /\ SummaryInv(r)
      BY <2>1, <2>2 DEF ManifestsInv, SummaryInv, ListingTables
    <2>5. TwiceInv(r) /\ TablesInv(r) /\ FilesInv(r)
      BY <2>1, <2>2 DEF TwiceInv, TablesInv, FilesInv, NoScan
    <2> QED
      BY <2>3, <2>4, <2>5 DEF ReaderInv
  <1> QED
    BY <1>1, <1>2 DEF AnswerInv

\* The step lemmas together.
LEMMA AnswerStep ==
    ASSUME BasicInv, AnswerInv, [ReadsNext]_<<vars, readVars>>
    PROVE  AnswerInv'
  <1>1. UsedInv'
    <2>1. [Next]_vars \/ UNCHANGED tables
      <3>1. CASE Readers = {}
        <4>1. ASSUME NEW p \in Writers, Write(p)
              PROVE  Next
          BY <4>1, WriteStep DEF BasicInv
        <4>2. CASE ReadRestart
          BY <4>2 DEF ReadRestart, Next
        <4>3. CASE UNCHANGED <<vars, readVars>>
          BY <4>3
        <4> QED
          BY <3>1, <4>1, <4>2, <4>3 DEF ReadsNext
      <3>2. CASE Readers # {}
        BY <3>2, OthersTables
      <3> QED
        BY <3>1, <3>2
    <2> QED
      BY <2>1, LiveStep DEF BasicInv, AnswerInv
  <1>2. ASSUME NEW r \in Readers
        PROVE  ReaderInv(r)'
    <2>1. /\ KeptInv(r) /\ HistoryInv(r) /\ SnapshotFilesInv(r) /\ ManifestsInv(r) /\ SummaryInv(r)
          /\ TwiceInv(r) /\ TablesInv(r) /\ FilesInv(r) /\ UsedInv
      BY DEF AnswerInv, ReaderInv
    <2>2. KeptInv(r)' /\ HistoryInv(r)' /\ SnapshotFilesInv(r)'
      BY <2>1, KeptStep, HistoryStep, SnapshotFilesStep
    <2>3. ManifestsInv(r)' /\ SummaryInv(r)'
      BY <2>1, ManifestsStep, SummaryStep
    <2>4. TwiceInv(r)' /\ TablesInv(r)'
      BY <2>1, TwiceStep, TablesStep
    <2>5. FilesInv(r)'
      BY <2>1, FilesStep
    <2> QED
      BY <2>2, <2>3, <2>4, <2>5 DEF ReaderInv
  <1> QED
    BY <1>1, <1>2 DEF AnswerInv

\* The invariant that the answers rest on, next to BasicInv.
THEOREM AnswersInductive == ReadsSpec => [](BasicInv /\ AnswerInv)
  <1>1. ReadsInit => AnswerInv
    BY AnswerInit
  <1>2. BasicInv /\ AnswerInv /\ [ReadsNext]_<<vars, readVars>> => AnswerInv'
    BY AnswerStep
  <1> QED
    BY <1>1, <1>2, ReadsInductive, PTL DEF ReadsSpec

\* NothingTwice: no listing of GetPartitions or ListTables brings a row twice,
\* whatever is committed, created or dropped between its pages.
THEOREM ListsNothingTwice == ReadsSpec => []NothingTwice
  <1>1. AnswerInv => NothingTwice
    BY DEF AnswerInv, ReaderInv, TwiceInv, NothingTwice
  <1> QED
    BY <1>1, AnswersInductive, PTL

\* FilesListed: a complete listing of GetPartitions has the files of its
\* snapshot, or what the snapshots of its first and last page have in common.
THEOREM ListsAllFiles == ReadsSpec => []FilesListed
  <1>1. BasicInv /\ AnswerInv => FilesListed
    <2> SUFFICES ASSUME BasicInv, AnswerInv, NEW r \in Readers, NEW t \in scan[r].tids \cap Kept(r),
                        scan[r].done, scan[r].first <= watch[r].head
                 PROVE  /\ Visible(t, scan[r].first) \cap Visible(t, scan[r].last) \subseteq scan[r].got
                        /\ scan[r].got \subseteq
                              UNION { Visible(t, s) : s \in scan[r].first .. scan[r].last }
      BY DEF FilesListed
    <2>1. scan[r].kind = "files" /\ scan[r].tids # {} /\ t \in Kept(r)
      <3>1. scan[r].kind = "files"
        BY DEF AnswerInv, ReaderInv, FilesInv
      <3> QED
        BY <3>1
    <2>2. SpanInv(r, t) /\ ListedInv(r, t)
      BY <2>1 DEF AnswerInv, ReaderInv, FilesInv
    <2>3. scan[r].ask = 0 \/ scan[r].ask <= watch[r].head
      BY <2>1, <2>2 DEF SpanInv
    <2> QED
      BY <2>1, <2>2, <2>3 DEF ListedInv
  <1> QED
    BY <1>1, AnswersInductive, PTL

\* TablesListed: a complete listing of ListTables has every table that was there
\* from its first page on, unless one was dropped.
THEOREM ListsAllTables == ReadsSpec => []TablesListed
  <1>1. BasicInv /\ AnswerInv => TablesListed
    <2> SUFFICES ASSUME BasicInv, AnswerInv, NEW r \in Readers,
                        scan[r].kind = "tables", scan[r].done, ~ watch[r].lost,
                        scan[r].size > 0 \/ Cardinality(LiveTables) <= NoPageSize,
                        NEW t \in Kept(r)
                 PROVE  t \in scan[r].got
      BY DEF TablesListed
    <2>1. scan[r].size > 0 \/ Rank(t) < NoPageSize => t \in scan[r].got
      BY DEF AnswerInv, ReaderInv, TablesInv
    <2>2. t \in LiveTables
      BY DEF AnswerInv, ReaderInv, KeptInv, LiveTables, BasicInv, ShapeInv, WatchRow, Kept
    <2>3. Rank(t) \in Nat /\ Cardinality(LiveTables) \in Nat /\ Rank(t) < Cardinality(LiveTables)
      BY <2>2, RankBelow
    <2>4. NoPageSize \in Nat
      BY ReadsConstants
    <2> QED
      BY <2>1, <2>3, <2>4
  <1> QED
    BY <1>1, AnswersInductive, PTL

\* SummaryExact: ListTables counts the partitions of a table at the snapshot
\* that it reports next to the count.
THEOREM CountsAtSnapshot == ReadsSpec => []SummaryExact
  <1>1. BasicInv /\ AnswerInv => SummaryExact
    <2> SUFFICES ASSUME BasicInv, AnswerInv, NEW r \in Readers, call[r].at = "tables_next",
                        NEW x \in call[r].rows \ Uncounted(r), x.tid \in Kept(r)
                 PROVE  x.count = Cardinality(Visible(x.tid, x.current))
      BY DEF SummaryExact
    <2>1. x \in Listed /\ call[r].count \in Nat
      BY DEF BasicInv, ShapeInv, Serving, ListingTables, CallRow
    <2>2. x.current = 0 \/ x.tid < call[r].count \/ x.tid = call[r].count
      BY <2>1 DEF Uncounted, Listed, TableIds, SnapIds
    <2> QED
      BY <2>2 DEF AnswerInv, ReaderInv, SummaryInv, ListingTables
  <1> QED
    BY <1>1, AnswersInductive, PTL

\* HistoryIsChain: ListSnapshots returns a stretch of the table's history
\* without gaps, and GetSnapshot finds the snapshot that was current.
THEOREM HistoryChain == ReadsSpec => []HistoryIsChain
  <1>1. AnswerInv => HistoryIsChain
    BY DEF AnswerInv, ReaderInv, HistoryInv, HistoryIsChain
  <1> QED
    BY <1>1, AnswersInductive, PTL

\* ManifestsExact: GetManifestList returns the manifests of the one snapshot, as
\* many as it says, and each of them can be fetched.
THEOREM ManifestListExact == ReadsSpec => []ManifestsExact
  <1>1. BasicInv /\ AnswerInv => ManifestsExact
    <2> SUFFICES ASSUME BasicInv, AnswerInv, NEW r \in Readers, call[r].tid \in Kept(r)
                 PROVE  /\ call[r].at = "manifests_reply" =>
                              /\ Cardinality(call[r].rows) = call[r].count
                              /\ \E s \in SnapshotsOf(call[r].tid) :
                                    /\ s.id = call[r].snap
                                    /\ s.added = UNION { m.manifest.added : m \in call[r].rows }
                                    /\ s.deleted = UNION { m.manifest.deleted : m \in call[r].rows }
                        /\ call[r].at = "manifest_reply" => call[r].rows # {}
      BY DEF ManifestsExact
    <2>1. ManifestsInv(r)
      BY DEF AnswerInv, ReaderInv
    <2>2. ASSUME call[r].at = "manifests_reply"
          PROVE  /\ Cardinality(call[r].rows) = call[r].count
                 /\ \E s \in SnapshotsOf(call[r].tid) :
                       /\ s.id = call[r].snap
                       /\ s.added = UNION { m.manifest.added : m \in call[r].rows }
                       /\ s.deleted = UNION { m.manifest.deleted : m \in call[r].rows }
      <3>1. PICK s \in SnapshotsOf(call[r].tid) :
                /\ s.id = call[r].snap /\ call[r].count = Cardinality(s.manifests)
                /\ call[r].rows = { [snap |-> s.id, manifest |-> m] : m \in s.manifests }
        BY <2>1, <2>2 DEF ManifestsInv
      <3>2. s \in snapshots /\ s.manifests = Manifests(s.added, s.deleted)
        BY DEF SnapshotsOf, BasicInv, DbInv
      <3>3. IsFiniteSet(s.manifests)
        BY <3>2, ManifestsFinite DEF BasicInv
      <3>4. PICK R, F : R = call[r].rows /\ F = [m \in s.manifests |-> [snap |-> s.id, manifest |-> m]]
        OBVIOUS
      <3>5. R = { F[m] : m \in s.manifests } /\ \A m \in s.manifests : F[m].manifest = m
        BY <3>1, <3>4
      <3>6. F \in Injection(s.manifests, R) /\ F \in Surjection(s.manifests, R)
        BY <3>4, <3>5 DEF Injection, Surjection, IsInjective
      <3>7. Cardinality(R) = Cardinality(s.manifests)
        BY <3>3, <3>6, FS_Surjection, FS_Injection
      <3>8. s.added = UNION { m.manifest.added : m \in R }
            /\ s.deleted = UNION { m.manifest.deleted : m \in R }
        <4>1. /\ UNION { m.added : m \in s.manifests } = s.added
              /\ UNION { m.deleted : m \in s.manifests } = s.deleted
          <5>1. PICK a, d : a = [added |-> s.added, deleted |-> {}]
                            /\ d = [added |-> {}, deleted |-> s.deleted]
            OBVIOUS
          <5>2. /\ \A m \in s.manifests : m \in {a, d}
                /\ s.added # {} => a \in s.manifests
                /\ s.deleted # {} => d \in s.manifests
            BY <3>2, <5>1 DEF Manifests
          <5>3. a.added = s.added /\ a.deleted = {} /\ d.added = {} /\ d.deleted = s.deleted
            BY <5>1
          <5> QED
            BY <5>2, <5>3
        <4>2. /\ { m.manifest.added : m \in R } = { m.added : m \in s.manifests }
              /\ { m.manifest.deleted : m \in R } = { m.deleted : m \in s.manifests }
          BY <3>5
        <4> QED
          BY <4>1, <4>2
      <3> QED
        BY <3>1, <3>4, <3>7, <3>8
    <2> QED
      BY <2>1, <2>2 DEF ManifestsInv
  <1> QED
    BY <1>1, AnswersInductive, PTL

\* The rows that GetPartitionStats and GetColumnStats add up are the files of
\* one snapshot.
OneSnapshot ==
    \A r \in Readers : call[r].tid \in Kept(r) =>
        /\ call[r].at = "stats_reply" =>
              /\ call[r].snap = watch[r].head
              /\ call[r].rows = Visible(call[r].tid, call[r].snap)
        /\ call[r].at = "columns_reply" /\ call[r].snap <= watch[r].head =>
              call[r].rows = Visible(call[r].tid, call[r].snap)

\* The rows that GetPartitionStats adds up are those of the snapshot that was
\* current when it was asked, the ones of GetColumnStats those of the committed
\* snapshot it reports, although no lock keeps commits out between its queries.
THEOREM AddsUpOneSnapshot == ReadsSpec => []OneSnapshot
  <1>1. AnswerInv => OneSnapshot
    BY DEF AnswerInv, ReaderInv, SnapshotFilesInv, OneSnapshot
  <1> QED
    BY <1>1, AnswersInductive, PTL

=============================================================================
