----------------------------- MODULE Evolution -----------------------------
(***************************************************************************)
(* Schema and partition-spec evolution of IceCore: AlterTable with a new   *)
(* schema or a new partition spec, the history rows that it writes, the    *)
(* reads of specs and schemas, current ones and old ones, and the spec id  *)
(* that CommitSnapshot stamps on the manifests it writes.                  *)
(*                                                                         *)
(* Tables are created, renamed, purged and dropped softly (the row keeps   *)
(* its name). Handlers that read a row and then write hold the exclusive lock *)
(* of the name in between; what follows from the lock is proved, not taken *)
(* for granted: the read and the transaction are two actions, and the      *)
(* transaction works with what was read. Between the validation (shared    *)
(* lock) and the change of an AlterTable the name is unlocked, and         *)
(* anything can happen. A handler with one transaction or one query is one *)
(* action guarded by the lock, and a read is an operator. Renames that     *)
(* wait with one lock in hand are in Catalog.                              *)
(*                                                                         *)
(* A spec is the set of its fields (their order is left out, and so are    *)
(* proposals that list a field twice, which are refused); a schema is told *)
(* apart by what ValidateSchemaChange and the jsonb cast say of it. The    *)
(* commits of an alteration are answered.                                  *)
(***************************************************************************)
EXTENDS Integers

CONSTANTS
    Procs,         \* goroutines of the gRPC server
    Names,         \* table names
    None,          \* the owner of a free lock, and the name of no request
    Columns,       \* source column names, "" among them or not
    Proposals,     \* the partition specs that clients propose, as messages
    MaxTables,     \* bound on the table_id sequence
    MaxSpecs,      \* bound on spec versions
    MaxSchemas     \* bound on schema versions

Transforms == {"identity", "year", "month", "day", "hour", "bucket", "truncate"}

\* Params 0 is the nil pointer: protoToPartitionSpec drops a zero.
Field == [id : Int, source : Columns, transform : Transforms, param : Int]

\* A field of a message; its transform is the number of an enum, or another.
ProtoField == [id : Int, source : Columns, transform : Int, param : Int]

ASSUME EvolutionAssumption ==
    /\ None \notin Procs
    /\ Proposals \subseteq SUBSET ProtoField
    /\ MaxTables \in Nat
    /\ MaxSpecs \in Nat
    /\ MaxSchemas \in Nat

\* A non-empty JSON object, other JSON, and no JSON at all.
Schemas == {"object", "other", "invalid"}

VARIABLES
    lastTable,      \* last value of the table_id sequence
    named,          \* name -> id of its live table, 0 if there is none
    taken,          \* names of rows with is_deleted, which are never free again
    spec,           \* table_id -> partition_spec
    specVersion,    \* table_id -> partition_spec_version
    specHistory,    \* table_id -> rows of partition_specs
    schema,         \* table_id -> schema_json
    schemaVersion,  \* table_id -> schema_version
    schemaHistory,  \* table_id -> rows of schema_history
    manifests,      \* rows of manifest_files: table and partition_spec_id
    xlock,          \* name -> process that holds its exclusive lock
    op,             \* process -> the AlterTable or CommitSnapshot it serves
    row             \* process -> what it has read under the lock

tableVars  == <<lastTable, named, taken>>
specVars   == <<spec, specVersion, specHistory>>
schemaVars == <<schema, schemaVersion, schemaHistory>>
reqVars    == <<xlock, op, row>>
vars == <<lastTable, named, taken, spec, specVersion, specHistory, schema,
          schemaVersion, schemaHistory, manifests, xlock, op, row>>

TableIds == 1 .. MaxTables

\* No table has this spec: it stands for the spec of a missing table.
NoSpec == {}

Steps == {"idle", "alter_spec", "alter_spec_tx", "alter_schema", "alter_schema_tx",
          "commit_tx"}

\* base is the spec a proposal was validated against.
Op == [at : Steps, name : Names \cup {None},
       base : SUBSET Field, spec : SUBSET Field, schema : Schemas]

Idle == [at |-> "idle", name |-> None,
         base |-> NoSpec, spec |-> NoSpec, schema |-> "invalid"]

\* The version to write, and the table that it was read from.
Row   == [table : 0 .. MaxTables, version : Nat]
NoRow == [table |-> 0, version |-> 0]

Free(n) == xlock[n] = None

\* The handler ends, and its deferred unlock runs if it holds the lock.
Return(p) ==
    /\ op' = [op EXCEPT ![p] = Idle]
    /\ row' = [row EXCEPT ![p] = NoRow]
    /\ xlock' = [n \in Names |-> IF xlock[n] = p THEN None ELSE xlock[n]]

-----------------------------------------------------------------------------
(* Messages to specs and back *)

ProtoTransformToString(n) ==
    CASE n = 1 -> "year"
      [] n = 2 -> "month"
      [] n = 3 -> "day"
      [] n = 4 -> "hour"
      [] n = 5 -> "bucket"
      [] n = 6 -> "truncate"
      [] OTHER -> "identity"

\* Mutant: a case of the switch is missing.
StringTransformNoTruncate(tr) ==
    CASE tr = "year"   -> 1
      [] tr = "month"  -> 2
      [] tr = "day"    -> 3
      [] tr = "hour"   -> 4
      [] tr = "bucket" -> 5
      [] OTHER -> 0

StringTransformToProto(tr) ==
    CASE tr = "year"     -> 1
      [] tr = "month"    -> 2
      [] tr = "day"      -> 3
      [] tr = "hour"     -> 4
      [] tr = "bucket"   -> 5
      [] tr = "truncate" -> 6
      [] OTHER -> 0

ProtoToPartitionSpec(q) ==
    { [id |-> f.id, source |-> f.source,
       transform |-> ProtoTransformToString(f.transform), param |-> f.param] : f \in q }

PartitionSpecToProto(s) ==
    { [id |-> f.id, source |-> f.source,
       transform |-> StringTransformToProto(f.transform), param |-> f.param] : f \in s }

\* The specs that AlterTable makes of what clients propose.
ProposedSpecs == { ProtoToPartitionSpec(q) : q \in Proposals }

-----------------------------------------------------------------------------
(* Validation *)

ParamRequired(tr) == tr \in {"bucket", "truncate"}

ValidField(f) ==
    /\ f.source # ""
    /\ ParamRequired(f.transform) => f.param > 0
    /\ ~ ParamRequired(f.transform) => f.param = 0

ValidSpec(s) ==
    /\ s # {}
    /\ \A f \in s : ValidField(f)
    /\ \A f, g \in s : f.id = g.id => f = g

\* Mutant: fields that the proposal leaves out are not missed.
ValidateKeptFields(current, proposed) ==
    /\ ValidSpec(proposed)
    /\ \A c \in current, f \in proposed :
          f.id = c.id => f.source = c.source /\ f.transform = c.transform

\* Old field ids keep column and transform; a new one is above every old one
\* (and above 0, where the search for the maximum starts).
ValidateSpecChange(current, proposed) ==
    /\ ValidSpec(proposed)
    /\ current # NoSpec =>
          /\ \A c \in current : \E f \in proposed :
                f.id = c.id /\ f.source = c.source /\ f.transform = c.transform
          /\ \A f \in proposed :
                \/ \E c \in current : c.id = f.id
                \/ f.id > 0 /\ \A c \in current : f.id > c.id

ValidateSchemaChange(s) == s = "object"

\* The cast to jsonb in the statement that stores the schema.
IsJSON(s) == s # "invalid"

-----------------------------------------------------------------------------
(* Tables come and go *)

\* Mutant: the field is written without its transform.
InitialSpecBare(c) == {[id |-> 1, source |-> c, transform |-> "", param |-> 0]}

\* The spec string of the request becomes one identity field with id 1.
InitialSpec(c) == {[id |-> 1, source |-> c, transform |-> "identity", param |-> 0]}

CreateTable(n, c, s) ==
    LET t == lastTable + 1
    IN  /\ Free(n)
        /\ named[n] = 0 /\ n \notin taken
        /\ lastTable < MaxTables
        /\ c # "" /\ IsJSON(s)
        /\ lastTable' = t
        /\ named' = [named EXCEPT ![n] = t]
        /\ spec' = [spec EXCEPT ![t] = InitialSpec(c)]
        /\ specVersion' = [specVersion EXCEPT ![t] = 1]
        /\ specHistory' = [specHistory EXCEPT ![t] =
                              {[version |-> 1, spec |-> InitialSpec(c)]}]
        /\ schema' = [schema EXCEPT ![t] = s]
        /\ schemaVersion' = [schemaVersion EXCEPT ![t] = 1]
        /\ UNCHANGED <<taken, schemaHistory, manifests, reqVars>>

\* DropTable with purge deletes the table's rows and its history.
PurgeTable(n) ==
    LET t == named[n]
    IN  /\ Free(n)
        /\ t # 0
        /\ named' = [named EXCEPT ![n] = 0]
        /\ spec' = [spec EXCEPT ![t] = NoSpec]
        /\ specVersion' = [specVersion EXCEPT ![t] = 0]
        /\ specHistory' = [specHistory EXCEPT ![t] = {}]
        /\ schema' = [schema EXCEPT ![t] = "invalid"]
        /\ schemaVersion' = [schemaVersion EXCEPT ![t] = 0]
        /\ schemaHistory' = [schemaHistory EXCEPT ![t] = {}]
        /\ manifests' = { m \in manifests : m.table # t }
        /\ UNCHANGED <<lastTable, taken, reqVars>>

\* DropTable without purge sets is_deleted; the row stays under its name.
SoftDropTable(n) ==
    /\ Free(n)
    /\ named[n] # 0
    /\ named' = [named EXCEPT ![n] = 0]
    /\ taken' = taken \cup {n}
    /\ UNCHANGED <<lastTable, specVars, schemaVars, manifests, reqVars>>

\* The unique index on table_name refuses a name that a row has.
RenameTable(n, m) ==
    /\ n # m /\ Free(n) /\ Free(m)
    /\ named[n] # 0
    /\ named[m] = 0 /\ m \notin taken
    /\ named' = [named EXCEPT ![m] = named[n], ![n] = 0]
    /\ UNCHANGED <<lastTable, taken, specVars, schemaVars, manifests, reqVars>>

-----------------------------------------------------------------------------
(* AlterTable with a partition spec *)

\* GetCurrentSpec, then ValidateSpecChange with the lock released.
AlterSpecValidate(p, n, s) ==
    LET current == IF named[n] = 0 THEN NoSpec ELSE spec[named[n]]
    IN  /\ op[p].at = "idle"
        /\ Free(n)
        /\ ValidateSpecChange(current, s)
        /\ op' = [op EXCEPT ![p] = [Idle EXCEPT !.at = "alter_spec", !.name = n,
                                                  !.base = current, !.spec = s]]
        /\ UNCHANGED <<tableVars, specVars, schemaVars, manifests, xlock, row>>

\* Mutant: the row is read without the lock.
AlterSpecReadUnlocked(p) ==
    LET t == named[op[p].name]
    IN  /\ op[p].at = "alter_spec"
        /\ t # 0
        /\ specVersion[t] < MaxSpecs
        /\ op' = [op EXCEPT ![p].at = "alter_spec_tx"]
        /\ row' = [row EXCEPT ![p] = [table |-> t, version |-> specVersion[t] + 1]]
        /\ UNCHANGED <<tableVars, specVars, schemaVars, manifests, xlock>>

\* AlterTablePartitionSpec: the lock, and the row that gives table_id and
\* version.
AlterSpecRead(p) ==
    LET n == op[p].name
        t == named[n]
    IN  /\ op[p].at = "alter_spec"
        /\ Free(n)
        /\ t # 0
        /\ specVersion[t] < MaxSpecs
        /\ xlock' = [xlock EXCEPT ![n] = p]
        /\ op' = [op EXCEPT ![p].at = "alter_spec_tx"]
        /\ row' = [row EXCEPT ![p] = [table |-> t, version |-> specVersion[t] + 1]]
        /\ UNCHANGED <<tableVars, specVars, schemaVars, manifests>>

\* The two statements of its transaction: an update by name, which may find
\* no row, and an insert by id, which the unique index on table and version
\* and the reference to the table's row may refuse.
UpdateTablePartitionSpec(n, s, v) ==
    LET t == named[n]
    IN  /\ spec' = [u \in TableIds |-> IF u = t THEN s ELSE spec[u]]
        /\ specVersion' = [u \in TableIds |-> IF u = t THEN v ELSE specVersion[u]]

InsertPartitionSpec(t, s, v) ==
    /\ specVersion[t] # 0
    /\ \A r \in specHistory[t] : r.version # v
    /\ specHistory' = [specHistory EXCEPT ![t] = @ \cup {[version |-> v, spec |-> s]}]

AlterTablePartitionSpec(p) ==
    /\ op[p].at = "alter_spec_tx"
    /\ UpdateTablePartitionSpec(op[p].name, op[p].spec, row[p].version)
    /\ InsertPartitionSpec(row[p].table, op[p].spec, row[p].version)
    /\ Return(p)
    /\ UNCHANGED <<tableVars, schemaVars, manifests>>

-----------------------------------------------------------------------------
(* AlterTable with a schema *)

\* GetCurrentSchema, then ValidateSchemaChange if there is a table.
AlterSchemaValidate(p, n, s) ==
    /\ op[p].at = "idle"
    /\ Free(n)
    /\ named[n] # 0 => ValidateSchemaChange(s)
    /\ op' = [op EXCEPT ![p] = [Idle EXCEPT !.at = "alter_schema", !.name = n, !.schema = s]]
    /\ UNCHANGED <<tableVars, specVars, schemaVars, manifests, xlock, row>>

\* Mutant: the row is read without the lock.
AlterSchemaReadUnlocked(p) ==
    LET t == named[op[p].name]
    IN  /\ op[p].at = "alter_schema"
        /\ t # 0
        /\ schemaVersion[t] < MaxSchemas
        /\ op' = [op EXCEPT ![p].at = "alter_schema_tx"]
        /\ row' = [row EXCEPT ![p] = [table |-> t, version |-> schemaVersion[t] + 1]]
        /\ UNCHANGED <<tableVars, specVars, schemaVars, manifests, xlock>>

AlterSchemaRead(p) ==
    LET n == op[p].name
        t == named[n]
    IN  /\ op[p].at = "alter_schema"
        /\ Free(n)
        /\ t # 0
        /\ schemaVersion[t] < MaxSchemas
        /\ xlock' = [xlock EXCEPT ![n] = p]
        /\ op' = [op EXCEPT ![p].at = "alter_schema_tx"]
        /\ row' = [row EXCEPT ![p] = [table |-> t, version |-> schemaVersion[t] + 1]]
        /\ UNCHANGED <<tableVars, specVars, schemaVars, manifests>>

\* Row and history, both by name; no index keeps a version unique.
UpdateTableSchema(n, s, v) ==
    LET t == named[n]
    IN  /\ IsJSON(s)
        /\ t # 0
        /\ schema' = [schema EXCEPT ![t] = s]
        /\ schemaVersion' = [schemaVersion EXCEPT ![t] = v]
        /\ schemaHistory' = [schemaHistory EXCEPT ![t] =
                                @ \cup {[version |-> v, schema |-> s]}]

AlterTableSchema(p) ==
    /\ op[p].at = "alter_schema_tx"
    /\ UpdateTableSchema(op[p].name, op[p].schema, row[p].version)
    /\ Return(p)
    /\ UNCHANGED <<tableVars, specVars, manifests>>

-----------------------------------------------------------------------------
(* CommitSnapshot, as far as the spec id of its manifests is concerned *)

GetTableSpecVersion(n) == IF named[n] = 0 THEN 0 ELSE specVersion[named[n]]

\* Mutant: the version is read without the lock.
CommitReadUnlocked(p, n) ==
    /\ op[p].at = "idle"
    /\ op' = [op EXCEPT ![p] = [Idle EXCEPT !.at = "commit_tx", !.name = n]]
    /\ row' = [row EXCEPT ![p] = [table |-> 0, version |-> GetTableSpecVersion(n)]]
    /\ UNCHANGED <<tableVars, specVars, schemaVars, manifests, xlock>>

CommitRead(p, n) ==
    /\ op[p].at = "idle"
    /\ Free(n)
    /\ xlock' = [xlock EXCEPT ![n] = p]
    /\ op' = [op EXCEPT ![p] = [Idle EXCEPT !.at = "commit_tx", !.name = n]]
    /\ row' = [row EXCEPT ![p] = [table |-> 0, version |-> GetTableSpecVersion(n)]]
    /\ UNCHANGED <<tableVars, specVars, schemaVars, manifests>>

\* The transaction finds the table by name; it stamps the version read before.
CommitManifests(p) ==
    LET t == named[op[p].name]
    IN  /\ op[p].at = "commit_tx"
        /\ t # 0
        /\ manifests' = manifests \cup {[table |-> t, specId |-> row[p].version]}
        /\ Return(p)
        /\ UNCHANGED <<tableVars, specVars, schemaVars>>

\* The table is gone, a version is taken or the parent snapshot is not current,
\* or a query, a statement or the commit fails: the transaction rolls back.
Fail(p) ==
    /\ op[p].at # "idle"
    /\ Return(p)
    /\ UNCHANGED <<tableVars, specVars, schemaVars, manifests>>

-----------------------------------------------------------------------------
(* Reads, by name: the set of the rows found, or of the one row. The order *)
(* of the lists (newest first) is left out.                                *)

RowsOf(history, n) == IF named[n] = 0 THEN {} ELSE history[named[n]]

AtVersion(rows, v) == { r \in rows : r.version = v }

GetCurrentSchema(n) ==
    IF named[n] = 0 THEN {}
    ELSE {[version |-> schemaVersion[named[n]], schema |-> schema[named[n]]]}

\* Version 1 is in no history: CreateTable writes none.
GetSchemaAtVersion(n, v) == AtVersion(RowsOf(schemaHistory, n), v)
ListSchemaHistory(n)     == RowsOf(schemaHistory, n)

GetCurrentSpec(n) ==
    IF named[n] = 0 THEN {}
    ELSE {[version |-> specVersion[named[n]], spec |-> spec[named[n]]]}

GetSpecAtVersion(n, v) == AtVersion(RowsOf(specHistory, n), v)
ListSpecHistory(n)     == RowsOf(specHistory, n)

Reply(rows) == { [r EXCEPT !.spec = PartitionSpecToProto(@)] : r \in rows }

\* spec_version 0 asks for the current spec.
GetPartitionSpec(n, v) == Reply(IF v = 0 THEN GetCurrentSpec(n) ELSE GetSpecAtVersion(n, v))
ListPartitionSpecs(n)  == Reply(ListSpecHistory(n))

-----------------------------------------------------------------------------
Init ==
    /\ lastTable = 0
    /\ named = [n \in Names |-> 0]
    /\ taken = {}
    /\ spec = [t \in TableIds |-> NoSpec]
    /\ specVersion = [t \in TableIds |-> 0]
    /\ specHistory = [t \in TableIds |-> {}]
    /\ schema = [t \in TableIds |-> "invalid"]
    /\ schemaVersion = [t \in TableIds |-> 0]
    /\ schemaHistory = [t \in TableIds |-> {}]
    /\ manifests = {}
    /\ xlock = [n \in Names |-> None]
    /\ op = [p \in Procs |-> Idle]
    /\ row = [p \in Procs |-> NoRow]

Next ==
    \/ \E n \in Names :
          \/ \E c \in Columns, s \in Schemas : CreateTable(n, c, s)
          \/ PurgeTable(n)
          \/ SoftDropTable(n)
          \/ \E m \in Names : RenameTable(n, m)
    \/ \E p \in Procs :
          \/ \E n \in Names, s \in ProposedSpecs : AlterSpecValidate(p, n, s)
          \/ AlterSpecRead(p)
          \/ AlterTablePartitionSpec(p)
          \/ \E n \in Names, s \in Schemas : AlterSchemaValidate(p, n, s)
          \/ AlterSchemaRead(p)
          \/ AlterTableSchema(p)
          \/ \E n \in Names : CommitRead(p, n)
          \/ CommitManifests(p)
          \/ Fail(p)

Spec == Init /\ [][Next]_vars

-----------------------------------------------------------------------------
(* Properties *)

\* Every variable holds values of its shape.
TypeOK ==
    /\ lastTable \in 0 .. MaxTables
    /\ named \in [Names -> 0 .. MaxTables]
    /\ taken \subseteq Names
    /\ spec \in [TableIds -> SUBSET Field]
    /\ specVersion \in [TableIds -> Nat]
    /\ schema \in [TableIds -> Schemas]
    /\ schemaVersion \in [TableIds -> Nat]
    /\ specHistory \in [TableIds -> SUBSET [version : Nat, spec : SUBSET Field]]
    /\ schemaHistory \in [TableIds -> SUBSET [version : Nat, schema : Schemas]]
    /\ manifests \subseteq [table : TableIds, specId : Nat]
    /\ xlock \in [Names -> Procs \cup {None}]
    /\ op \in [Procs -> Op]
    /\ row \in [Procs -> Row]

\* The versions lo .. hi, each once.
Contiguous(history, lo, hi) ==
    /\ { r.version : r \in history } = lo .. hi
    /\ \A r1, r2 \in history : r1.version = r2.version => r1 = r2

(***************************************************************************)
(* However AlterTable calls race with each other and with drop, purge,     *)
(* rename and re-creation of the table: the spec history holds every       *)
(* version from 1 to the current one once, the schema history every        *)
(* version from 2, and the newest row of each is what the table's row      *)
(* says. The row is read, updated by name and recorded by id in steps, so  *)
(* this rests on the exclusive lock: the version read must still be the    *)
(* current one, and the name the same table's, when they are written.      *)
(***************************************************************************)
HistoryComplete ==
    \A t \in TableIds :
        /\ Contiguous(specHistory[t], 1, specVersion[t])
        /\ specVersion[t] > 0 =>
              [version |-> specVersion[t], spec |-> spec[t]] \in specHistory[t]
        /\ Contiguous(schemaHistory[t], 2, schemaVersion[t])
        /\ schemaVersion[t] > 1 =>
              [version |-> schemaVersion[t], schema |-> schema[t]] \in schemaHistory[t]

(***************************************************************************)
(* Every manifest names a spec version that its table's history holds, so  *)
(* the layout of its files can always be looked up. The version is read    *)
(* before the transaction that writes the manifests, under the same lock.  *)
(***************************************************************************)
ManifestSpecKnown ==
    \A m \in manifests : \E r \in specHistory[m.table] : r.version = m.specId

\* The fields of old, up to their parameter, are fields of new.
Keeps(old, new) ==
    \A c \in old : \E f \in new :
        f.id = c.id /\ f.source = c.source /\ f.transform = c.transform

(***************************************************************************)
(* Evolution keeps field ids: when a spec replaces the very spec that it   *)
(* was validated against, no field id is dropped, given another column or  *)
(* transform, or (being new) put below an old one, and ids are unique.     *)
(***************************************************************************)
EvolutionKeepsFields ==
    [][\A p \in Procs, t \in TableIds :
          op[p].at = "alter_spec_tx" /\ op[p].base = spec[t] /\ spec[t] # NoSpec
             /\ specVersion'[t] > specVersion[t] /\ op'[p].at = "idle" =>
                /\ Keeps(spec[t], spec'[t])
                /\ \A f, g \in spec'[t] : f.id = g.id => f = g
                /\ \A f \in spec'[t], c \in spec[t] :
                      f.id <= c.id => \E d \in spec[t] : d.id = f.id]_vars

(***************************************************************************)
(* What GetPartitionSpec returns can be worked with: the current spec is   *)
(* found under its version too and is in the list, and a client may send   *)
(* it back: converted to a message and back, it passes ValidateSpecChange. *)
(***************************************************************************)
SpecResendable ==
    \A n \in Names : \A r \in GetPartitionSpec(n, 0) :
        /\ GetPartitionSpec(n, r.version) = {r}
        /\ r \in ListPartitionSpecs(n)
        /\ ValidateSpecChange(spec[named[n]], ProtoToPartitionSpec(r.spec))

(***************************************************************************)
(* Versions are immutable: as long as a table is there, what a version of  *)
(* its spec or of its schema has once been read as it is always read as,   *)
(* whatever alterations and renames follow.                                *)
(***************************************************************************)
VersionsStable ==
    [][\A n, m \in Names : named[n] # 0 /\ named'[m] = named[n] =>
          /\ \A r \in ListSpecHistory(n) : GetSpecAtVersion(m, r.version)' = {r}
          /\ \A r \in ListSchemaHistory(n) : GetSchemaAtVersion(m, r.version)' = {r}]_vars

(***************************************************************************)
(* "Every existing field must be preserved unchanged": so says the comment *)
(* on the check of the fields of the current spec in ValidateSpecChange.   *)
(***************************************************************************)
FieldsUnchanged == \A p \in Procs : op[p].at = "alter_spec" => op[p].base \subseteq op[p].spec

(***************************************************************************)
(* Field ids are stable: a later spec of a table keeps the fields of every *)
(* earlier one.                                                            *)
(***************************************************************************)
FieldIDStable ==
    \A t \in TableIds : \A r1, r2 \in specHistory[t] :
        r1.version < r2.version => Keeps(r1.spec, r2.spec)

=============================================================================
