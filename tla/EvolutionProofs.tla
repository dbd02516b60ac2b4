-------------------------- MODULE EvolutionProofs --------------------------
(***************************************************************************)
(* Proofs about Evolution, for every set of proposals, any number of       *)
(* goroutines and names, and every bound: type correctness, complete       *)
(* histories, the manifests' spec ids, that a spec which replaces the one  *)
(* it was validated against keeps its fields, and that what is read of     *)
(* specs and schemas stays as it is and can be sent back.                  *)
(*                                                                         *)
(* The heart of it is what the exclusive lock is for: a name keeps its     *)
(* table, and the table its versions, while a handler holds the name's     *)
(* lock, so what the handler has read is still true when it writes.        *)
(***************************************************************************)
EXTENDS Evolution, TLAPS

-----------------------------------------------------------------------------
(* The inductive invariant *)

\* Ids that the sequence has not given out are not in use, and the names are
\* bound to ids that it has, no two of them to the same one.
IdInv ==
    /\ \A n \in Names : /\ named[n] <= lastTable
                        /\ named[n] # 0 => /\ specVersion[named[n]] >= 1
                                           /\ schemaVersion[named[n]] >= 1
    /\ \A n, m \in Names : named[n] = named[m] /\ named[n] # 0 => n = m
    /\ \A t \in TableIds : t > lastTable =>
          /\ specHistory[t] = {} /\ schemaHistory[t] = {}
          /\ \A m \in manifests : m.table # t

TxSteps == {"alter_spec_tx", "alter_schema_tx", "commit_tx"}

\* A handler between its read and its transaction holds the lock of the name.
LockInv ==
    \A p \in Procs :
        /\ op[p].at # "idle" => op[p].name \in Names
        /\ op[p].at \in TxSteps => xlock[op[p].name] = p

\* The table that a request is about.
Target(p) == named[op[p].name]

\* What a handler has read under the lock is still so.
ReadBy(p) ==
    /\ op[p].at = "alter_spec_tx" =>
          Target(p) # 0 /\ row[p].table = Target(p)
             /\ row[p].version = specVersion[Target(p)] + 1
    /\ op[p].at = "alter_schema_tx" =>
          Target(p) # 0 /\ row[p].version = schemaVersion[Target(p)] + 1
    /\ op[p].at = "commit_tx" /\ Target(p) # 0 =>
          row[p].version = specVersion[Target(p)]

ReadInv == \A p \in Procs : ReadBy(p)

\* A proposal that waits for the exclusive lock, or has it, has passed the
\* validation against the spec that was read before.
ValidatedInv ==
    \A p \in Procs : op[p].at \in {"alter_spec", "alter_spec_tx"} =>
        /\ op[p].spec \in ProposedSpecs
        /\ ValidateSpecChange(op[p].base, op[p].spec)

\* The spec of a table is one that ValidateSpecChange can have accepted.
ValidInv == \A n \in Names : named[n] # 0 => ValidSpec(spec[named[n]])

IInv == /\ TypeOK /\ IdInv /\ LockInv /\ ReadInv /\ ValidatedInv /\ ValidInv
        /\ HistoryComplete /\ ManifestSpecKnown

SpecRow   == [version : Nat, spec : SUBSET Field]
SchemaRow == [version : Nat, schema : Schemas]

-----------------------------------------------------------------------------
(* Types of the parts *)

\* A message becomes a spec whose transforms are known, whatever its numbers.
LEMMA ProposedType == \A s \in ProposedSpecs : s \in SUBSET Field
<1> SUFFICES ASSUME NEW q \in Proposals PROVE ProtoToPartitionSpec(q) \in SUBSET Field
  BY DEF ProposedSpecs
<1>1. q \in SUBSET ProtoField
  BY EvolutionAssumption
<1>2. ASSUME NEW f \in q
      PROVE  [id |-> f.id, source |-> f.source,
              transform |-> ProtoTransformToString(f.transform), param |-> f.param] \in Field
  <2>1. f.id \in Int /\ f.source \in Columns /\ f.param \in Int
    BY <1>1 DEF ProtoField
  <2>2. ProtoTransformToString(f.transform) \in Transforms
    BY DEF ProtoTransformToString, Transforms
  <2> QED
    BY <2>1, <2>2 DEF Field
<1> QED
  BY <1>2 DEF ProtoToPartitionSpec

\* The constants of the actions have their types.
LEMMA SmallTypes ==
    /\ Idle \in Op
    /\ NoRow \in Row
    /\ NoSpec \in SUBSET Field
    /\ "invalid" \in Schemas
    /\ \A c \in Columns : InitialSpec(c) \in SUBSET Field
    /\ MaxTables \in Nat
    /\ \A s \in ProposedSpecs : s \in SUBSET Field
<1>1. NoSpec \in SUBSET Field /\ "invalid" \in Schemas
  BY DEF NoSpec, Schemas
<1>2. Idle \in Op
  BY <1>1 DEF Idle, Op, Steps
<1>3. ASSUME NEW c \in Columns PROVE InitialSpec(c) \in SUBSET Field
  BY DEF InitialSpec, Field, Transforms
<1>4. NoRow \in Row
  BY EvolutionAssumption DEF NoRow, Row
<1> QED
  BY <1>1, <1>2, <1>3, <1>4, ProposedType, EvolutionAssumption

\* What TypeOK says of one table.
LEMMA RowTypes ==
    ASSUME TypeOK, NEW t \in TableIds
    PROVE  /\ spec[t] \in SUBSET Field
           /\ specVersion[t] \in Nat
           /\ specHistory[t] \in SUBSET SpecRow
           /\ schema[t] \in Schemas
           /\ schemaVersion[t] \in Nat
           /\ schemaHistory[t] \in SUBSET SchemaRow
BY DEF TypeOK, SpecRow, SchemaRow

\* The id that a name is bound to is one of a table.
LEMMA NamedType ==
    ASSUME TypeOK, NEW n \in Names
    PROVE  named[n] \in 0 .. MaxTables /\ (named[n] # 0 => named[n] \in TableIds)
<1>1. named[n] \in 0 .. MaxTables
  BY DEF TypeOK
<1> QED
  BY <1>1, SmallTypes DEF TableIds

\* The id that CreateTable draws.
LEMMA NewId ==
    ASSUME TypeOK, lastTable < MaxTables
    PROVE  lastTable + 1 \in TableIds /\ lastTable \in Nat
<1>1. lastTable \in 0 .. MaxTables
  BY DEF TypeOK
<1> QED
  BY <1>1, SmallTypes DEF TableIds

\* A handler's end keeps the types of what belongs to requests.
LEMMA ReturnType ==
    ASSUME TypeOK, NEW p \in Procs, Return(p)
    PROVE  /\ op' \in [Procs -> Op]
           /\ row' \in [Procs -> Row]
           /\ xlock' \in [Names -> Procs \cup {None}]
BY SmallTypes DEF TypeOK, Return

\* So does a read under the lock.
LEMMA StepType ==
    ASSUME TypeOK, NEW p \in Procs, NEW a \in Steps
    PROVE  [op EXCEPT ![p].at = a] \in [Procs -> Op]
<1>1. op[p] \in Op
  BY DEF TypeOK
<1>2. [op[p] EXCEPT !.at = a] \in Op
  BY <1>1 DEF Op
<1> QED
  BY <1>2 DEF TypeOK

-----------------------------------------------------------------------------
(* What the transactions do, given that the lock has kept what was read *)

\* An alteration gives the table of the name the version after its current one.
LEMMA SpecEffect ==
    ASSUME IInv, NEW p \in Procs, AlterTablePartitionSpec(p)
    PROVE  /\ op[p].at = "alter_spec_tx" /\ op[p].name \in Names /\ xlock[op[p].name] = p
           /\ Target(p) \in TableIds /\ Target(p) <= lastTable
           /\ spec' = [spec EXCEPT ![Target(p)] = op[p].spec]
           /\ specVersion' = [specVersion EXCEPT ![Target(p)] = specVersion[Target(p)] + 1]
           /\ specHistory' = [specHistory EXCEPT ![Target(p)] =
                 specHistory[Target(p)] \cup
                    {[version |-> specVersion[Target(p)] + 1, spec |-> op[p].spec]}]
           /\ UNCHANGED <<lastTable, named, taken, schema, schemaVersion, schemaHistory,
                          manifests>>
           /\ Return(p)
<1>0. TypeOK /\ IdInv
  BY DEF IInv
<1>1. op[p].at = "alter_spec_tx"
  BY DEF AlterTablePartitionSpec
<1>2. op[p].name \in Names /\ xlock[op[p].name] = p
  BY <1>1 DEF IInv, LockInv, TxSteps
<1>3. /\ Target(p) # 0 /\ row[p].table = Target(p)
      /\ row[p].version = specVersion[Target(p)] + 1
  BY <1>1 DEF IInv, ReadInv, ReadBy
<1>4. Target(p) \in TableIds /\ Target(p) <= lastTable
  BY <1>0, <1>2, <1>3, NamedType DEF Target, IdInv
<1>5. /\ spec' = [u \in TableIds |-> IF u = Target(p) THEN op[p].spec ELSE spec[u]]
      /\ specVersion' = [u \in TableIds |->
                            IF u = Target(p) THEN specVersion[Target(p)] + 1 ELSE specVersion[u]]
  BY <1>3 DEF AlterTablePartitionSpec, UpdateTablePartitionSpec, Target
<1>6. /\ spec' = [spec EXCEPT ![Target(p)] = op[p].spec]
      /\ specVersion' = [specVersion EXCEPT ![Target(p)] = specVersion[Target(p)] + 1]
  BY <1>0, <1>4, <1>5 DEF TypeOK
<1>7. specHistory' = [specHistory EXCEPT ![Target(p)] =
                 specHistory[Target(p)] \cup
                    {[version |-> specVersion[Target(p)] + 1, spec |-> op[p].spec]}]
  BY <1>0, <1>3, <1>4 DEF AlterTablePartitionSpec, InsertPartitionSpec, TypeOK
<1> QED
  BY <1>1, <1>2, <1>4, <1>6, <1>7 DEF AlterTablePartitionSpec, tableVars, schemaVars

\* The same for a schema.
LEMMA SchemaEffect ==
    ASSUME IInv, NEW p \in Procs, AlterTableSchema(p)
    PROVE  /\ op[p].at = "alter_schema_tx" /\ op[p].name \in Names /\ xlock[op[p].name] = p
           /\ Target(p) # 0 /\ Target(p) \in TableIds /\ Target(p) <= lastTable
           /\ schema' = [schema EXCEPT ![Target(p)] = op[p].schema]
           /\ schemaVersion' = [schemaVersion EXCEPT ![Target(p)] =
                                   schemaVersion[Target(p)] + 1]
           /\ schemaHistory' = [schemaHistory EXCEPT ![Target(p)] =
                 schemaHistory[Target(p)] \cup
                    {[version |-> schemaVersion[Target(p)] + 1, schema |-> op[p].schema]}]
           /\ UNCHANGED <<lastTable, named, taken, spec, specVersion, specHistory, manifests>>
           /\ Return(p)
<1>0. TypeOK /\ IdInv
  BY DEF IInv
<1>1. op[p].at = "alter_schema_tx"
  BY DEF AlterTableSchema
<1>2. op[p].name \in Names /\ xlock[op[p].name] = p
  BY <1>1 DEF IInv, LockInv, TxSteps
<1>3. Target(p) # 0 /\ row[p].version = schemaVersion[Target(p)] + 1
  BY <1>1 DEF IInv, ReadInv, ReadBy
<1>4. Target(p) \in TableIds /\ Target(p) <= lastTable
  BY <1>0, <1>2, <1>3, NamedType DEF Target, IdInv
<1>5. /\ schema' = [schema EXCEPT ![Target(p)] = op[p].schema]
      /\ schemaVersion' = [schemaVersion EXCEPT ![Target(p)] = schemaVersion[Target(p)] + 1]
      /\ schemaHistory' = [schemaHistory EXCEPT ![Target(p)] =
                 schemaHistory[Target(p)] \cup
                    {[version |-> schemaVersion[Target(p)] + 1, schema |-> op[p].schema]}]
  BY <1>0, <1>3, <1>4 DEF AlterTableSchema, UpdateTableSchema, Target, TypeOK
<1> QED
  BY <1>1, <1>2, <1>3, <1>4, <1>5 DEF AlterTableSchema, tableVars, specVars

\* A commit stamps the version that is current when it writes.
LEMMA CommitEffect ==
    ASSUME IInv, NEW p \in Procs, CommitManifests(p)
    PROVE  /\ Target(p) \in TableIds /\ Target(p) <= lastTable
           /\ specVersion[Target(p)] \in Nat /\ specVersion[Target(p)] >= 1
           /\ manifests' = manifests \cup
                 {[table |-> Target(p), specId |-> specVersion[Target(p)]]}
           /\ UNCHANGED <<lastTable, named, taken, specVars, schemaVars>>
           /\ Return(p)
<1>0. TypeOK /\ IdInv
  BY DEF IInv
<1>1. op[p].at = "commit_tx" /\ Target(p) # 0
  BY DEF CommitManifests, Target
<1>2. op[p].name \in Names
  BY <1>1 DEF IInv, LockInv
<1>3. row[p].version = specVersion[Target(p)]
  BY <1>1 DEF IInv, ReadInv, ReadBy
<1>4. /\ Target(p) \in TableIds /\ Target(p) <= lastTable
      /\ specVersion[Target(p)] >= 1
  BY <1>0, <1>1, <1>2, NamedType DEF Target, IdInv
<1>5. specVersion[Target(p)] \in Nat
  BY <1>0, <1>4, RowTypes
<1> QED
  BY <1>3, <1>4, <1>5 DEF CommitManifests, Target, tableVars

-----------------------------------------------------------------------------
(* Type correctness *)

\* Every action of the handlers preserves the types.
LEMMA TypeStep == IInv /\ [Next]_vars => TypeOK'
<1> SUFFICES ASSUME IInv, [Next]_vars PROVE TypeOK'
    OBVIOUS
<1>0. TypeOK
  BY DEF IInv
<1>1. ASSUME NEW n \in Names, NEW c \in Columns, NEW s \in Schemas, CreateTable(n, c, s)
      PROVE  TypeOK'
  <2>1. PICK t : t = lastTable + 1
    OBVIOUS
  <2>2. t \in TableIds /\ t \in 0 .. MaxTables
    <3>1. lastTable < MaxTables
      BY <1>1 DEF CreateTable
    <3> QED
      BY <1>0, <2>1, <3>1, NewId, SmallTypes DEF TableIds
  <2>3. PICK init : init = InitialSpec(c) /\ init \in SUBSET Field
    BY SmallTypes
  <2>4. {[version |-> 1, spec |-> init]} \in SUBSET SpecRow
    BY <2>3 DEF SpecRow
  <2>5. /\ lastTable' = t
        /\ named' = [named EXCEPT ![n] = t]
        /\ spec' = [spec EXCEPT ![t] = init]
        /\ specVersion' = [specVersion EXCEPT ![t] = 1]
        /\ specHistory' = [specHistory EXCEPT ![t] = {[version |-> 1, spec |-> init]}]
        /\ schema' = [schema EXCEPT ![t] = s]
        /\ schemaVersion' = [schemaVersion EXCEPT ![t] = 1]
        /\ UNCHANGED <<taken, schemaHistory, manifests, xlock, op, row>>
    BY <1>1, <2>1, <2>3 DEF CreateTable, reqVars
  <2> QED
    BY <1>0, <2>2, <2>3, <2>4, <2>5 DEF TypeOK, SpecRow
<1>2. ASSUME NEW n \in Names, PurgeTable(n) PROVE TypeOK'
  <2>1. PICK t : t = named[n] /\ t \in TableIds
    BY <1>0, <1>2, NamedType DEF PurgeTable
  <2> QED
    BY <1>0, <1>2, <2>1, SmallTypes DEF PurgeTable, TypeOK, reqVars
<1>3. ASSUME NEW n \in Names, SoftDropTable(n) PROVE TypeOK'
  BY <1>0, <1>3, SmallTypes DEF SoftDropTable, TypeOK, specVars, schemaVars, reqVars
<1>4. ASSUME NEW n \in Names, NEW m \in Names, RenameTable(n, m) PROVE TypeOK'
  <2>1. named[n] \in 0 .. MaxTables
    BY <1>0, NamedType
  <2>2. named' \in [Names -> 0 .. MaxTables]
    BY <1>0, <1>4, <2>1, SmallTypes DEF RenameTable, TypeOK
  <2> QED
    BY <1>0, <1>4, <2>2 DEF RenameTable, TypeOK, specVars, schemaVars, reqVars
<1>5. ASSUME NEW p \in Procs, NEW n \in Names, NEW s \in ProposedSpecs,
             AlterSpecValidate(p, n, s)
      PROVE  TypeOK'
  <2>1. PICK c : c = (IF named[n] = 0 THEN NoSpec ELSE spec[named[n]])
    OBVIOUS
  <2>2. c \in SUBSET Field
    BY <1>0, <2>1, NamedType, RowTypes, SmallTypes
  <2>3. [Idle EXCEPT !.at = "alter_spec", !.name = n, !.base = c, !.spec = s] \in Op
    BY <2>2, SmallTypes DEF Op, Steps
  <2>4. op' = [op EXCEPT ![p] =
                  [Idle EXCEPT !.at = "alter_spec", !.name = n, !.base = c, !.spec = s]]
    BY <1>5, <2>1 DEF AlterSpecValidate
  <2> QED
    BY <1>0, <1>5, <2>3, <2>4 DEF AlterSpecValidate, tableVars, specVars, schemaVars, TypeOK
<1>6. ASSUME NEW p \in Procs, NEW n \in Names, NEW s \in Schemas, AlterSchemaValidate(p, n, s)
      PROVE  TypeOK'
  <2>1. [Idle EXCEPT !.at = "alter_schema", !.name = n, !.schema = s] \in Op
    BY SmallTypes DEF Op, Steps
  <2> QED
    BY <1>0, <1>6, <2>1 DEF AlterSchemaValidate, tableVars, specVars, schemaVars, TypeOK
<1>7. ASSUME NEW p \in Procs, AlterSpecRead(p) PROVE TypeOK'
  <2>1. op[p].name \in Names
    BY <1>7 DEF AlterSpecRead, IInv, LockInv
  <2>2. PICK t : t = named[op[p].name] /\ t \in TableIds /\ t \in 0 .. MaxTables
    BY <1>0, <1>7, <2>1, NamedType DEF AlterSpecRead
  <2>3. [table |-> t, version |-> specVersion[t] + 1] \in Row
    BY <1>0, <2>2, RowTypes DEF Row
  <2>4. op' \in [Procs -> Op]
    BY <1>0, <1>7, StepType DEF AlterSpecRead, Steps
  <2> QED
    BY <1>0, <1>7, <2>1, <2>2, <2>3, <2>4
       DEF AlterSpecRead, tableVars, specVars, schemaVars, TypeOK
<1>8. ASSUME NEW p \in Procs, AlterSchemaRead(p) PROVE TypeOK'
  <2>1. op[p].name \in Names
    BY <1>8 DEF AlterSchemaRead, IInv, LockInv
  <2>2. PICK t : t = named[op[p].name] /\ t \in TableIds /\ t \in 0 .. MaxTables
    BY <1>0, <1>8, <2>1, NamedType DEF AlterSchemaRead
  <2>3. [table |-> t, version |-> schemaVersion[t] + 1] \in Row
    BY <1>0, <2>2, RowTypes DEF Row
  <2>4. op' \in [Procs -> Op]
    BY <1>0, <1>8, StepType DEF AlterSchemaRead, Steps
  <2> QED
    BY <1>0, <1>8, <2>1, <2>2, <2>3, <2>4
       DEF AlterSchemaRead, tableVars, specVars, schemaVars, TypeOK
<1>9. ASSUME NEW p \in Procs, NEW n \in Names, CommitRead(p, n) PROVE TypeOK'
  <2>1. PICK v : v = GetTableSpecVersion(n)
    OBVIOUS
  <2>2. v \in Nat
    BY <1>0, <2>1, NamedType, RowTypes DEF GetTableSpecVersion
  <2>3. [table |-> 0, version |-> v] \in Row
    BY <2>2, SmallTypes DEF Row
  <2>4. [Idle EXCEPT !.at = "commit_tx", !.name = n] \in Op
    BY SmallTypes DEF Op, Steps
  <2> QED
    BY <1>0, <1>9, <2>1, <2>3, <2>4
       DEF CommitRead, tableVars, specVars, schemaVars, TypeOK
<1>10. ASSUME NEW p \in Procs, AlterTablePartitionSpec(p) PROVE TypeOK'
  <2>1. PICK t : t = Target(p)
    OBVIOUS
  <2>2. PICK new : new = op[p].spec /\ new \in SUBSET Field
    BY <1>0 DEF TypeOK, Op
  <2>3. t \in TableIds
    BY <1>10, <2>1, SpecEffect
  <2>4. PICK v : v = specVersion[t] + 1 /\ v \in Nat
    BY <1>0, <2>3, RowTypes
  <2>5. specHistory[t] \cup {[version |-> v, spec |-> new]} \in SUBSET SpecRow
    BY <1>0, <2>2, <2>3, <2>4, RowTypes DEF SpecRow
  <2>6. /\ spec' = [spec EXCEPT ![t] = new]
        /\ specVersion' = [specVersion EXCEPT ![t] = v]
        /\ specHistory' = [specHistory EXCEPT ![t] =
                              specHistory[t] \cup {[version |-> v, spec |-> new]}]
        /\ UNCHANGED <<lastTable, named, taken, schema, schemaVersion, schemaHistory,
                       manifests>>
        /\ Return(p)
    BY <1>10, <2>1, <2>2, <2>4, SpecEffect
  <2>7. /\ op' \in [Procs -> Op] /\ row' \in [Procs -> Row]
        /\ xlock' \in [Names -> Procs \cup {None}]
    BY <1>0, <2>6, ReturnType
  <2> QED
    BY <1>0, <2>2, <2>3, <2>4, <2>5, <2>6, <2>7 DEF TypeOK, SpecRow
<1>11. ASSUME NEW p \in Procs, AlterTableSchema(p) PROVE TypeOK'
  <2>1. PICK t : t = Target(p)
    OBVIOUS
  <2>2. PICK new : new = op[p].schema /\ new \in Schemas
    BY <1>0 DEF TypeOK, Op
  <2>3. t \in TableIds
    BY <1>11, <2>1, SchemaEffect
  <2>4. PICK v : v = schemaVersion[t] + 1 /\ v \in Nat
    BY <1>0, <2>3, RowTypes
  <2>5. schemaHistory[t] \cup {[version |-> v, schema |-> new]} \in SUBSET SchemaRow
    BY <1>0, <2>2, <2>3, <2>4, RowTypes DEF SchemaRow
  <2>6. /\ schema' = [schema EXCEPT ![t] = new]
        /\ schemaVersion' = [schemaVersion EXCEPT ![t] = v]
        /\ schemaHistory' = [schemaHistory EXCEPT ![t] =
                                schemaHistory[t] \cup {[version |-> v, schema |-> new]}]
        /\ UNCHANGED <<lastTable, named, taken, spec, specVersion, specHistory, manifests>>
        /\ Return(p)
    BY <1>11, <2>1, <2>2, <2>4, SchemaEffect
  <2>7. /\ op' \in [Procs -> Op] /\ row' \in [Procs -> Row]
        /\ xlock' \in [Names -> Procs \cup {None}]
    BY <1>0, <2>6, ReturnType
  <2> QED
    BY <1>0, <2>2, <2>3, <2>4, <2>5, <2>6, <2>7 DEF TypeOK, SchemaRow
<1>12. ASSUME NEW p \in Procs, CommitManifests(p) PROVE TypeOK'
  <2>1. /\ op' \in [Procs -> Op] /\ row' \in [Procs -> Row]
        /\ xlock' \in [Names -> Procs \cup {None}]
    BY <1>0, <1>12, CommitEffect, ReturnType
  <2> QED
    BY <1>0, <1>12, <2>1, CommitEffect DEF TypeOK, specVars, schemaVars
<1>13. ASSUME NEW p \in Procs, Fail(p) PROVE TypeOK'
  <2>1. /\ op' \in [Procs -> Op] /\ row' \in [Procs -> Row]
        /\ xlock' \in [Names -> Procs \cup {None}]
    BY <1>0, <1>13, ReturnType DEF Fail
  <2> QED
    BY <1>0, <1>13, <2>1 DEF Fail, tableVars, specVars, schemaVars, TypeOK
<1>14. CASE UNCHANGED vars
  BY <1>0, <1>14 DEF vars, TypeOK
<1> QED
  BY <1>1, <1>2, <1>3, <1>4, <1>5, <1>6, <1>7, <1>8, <1>9, <1>10, <1>11, <1>12, <1>13, <1>14
     DEF Next

-----------------------------------------------------------------------------
(* Histories *)

\* No rows are the history of no versions.
LEMMA ContiguousEmpty ==
    ASSUME NEW lo \in Int, NEW hi \in Int, hi < lo
    PROVE  Contiguous({}, lo, hi)
BY DEF Contiguous

\* A row of the next version extends a contiguous history.
LEMMA ContiguousExtend ==
    ASSUME NEW h, NEW lo \in Int, NEW hi \in Int, hi + 1 >= lo,
           Contiguous(h, lo, hi), NEW rec, rec.version = hi + 1
    PROVE  Contiguous(h \cup {rec}, lo, hi + 1)
<1>1. { r.version : r \in h } = lo .. hi
  BY DEF Contiguous
<1>2. { r.version : r \in h \cup {rec} } = (lo .. hi) \cup {hi + 1}
  BY <1>1
<1>3. (lo .. hi) \cup {hi + 1} = lo .. (hi + 1)
  OBVIOUS
<1>4. ASSUME NEW r \in h PROVE r.version # rec.version
  BY <1>1, r.version \in lo .. hi
<1>5. \A r1, r2 \in h \cup {rec} : r1.version = r2.version => r1 = r2
  BY <1>4 DEF Contiguous
<1> QED
  BY <1>2, <1>3, <1>5 DEF Contiguous

\* HistoryComplete for one table.
SpecHistoryOf(t) ==
    /\ Contiguous(specHistory[t], 1, specVersion[t])
    /\ specVersion[t] > 0 =>
          [version |-> specVersion[t], spec |-> spec[t]] \in specHistory[t]

SchemaHistoryOf(t) ==
    /\ Contiguous(schemaHistory[t], 2, schemaVersion[t])
    /\ schemaVersion[t] > 1 =>
          [version |-> schemaVersion[t], schema |-> schema[t]] \in schemaHistory[t]

\* HistoryComplete speaks of each table on its own.
LEMMA HistoryPerTable ==
    HistoryComplete <=> \A t \in TableIds : SpecHistoryOf(t) /\ SchemaHistoryOf(t)
BY DEF HistoryComplete, SpecHistoryOf, SchemaHistoryOf

\* A creation starts the histories, a purge ends them, an alteration adds a row.
LEMMA HistoryStep == IInv /\ [Next]_vars => HistoryComplete'
<1> SUFFICES ASSUME IInv, [Next]_vars, NEW u \in TableIds
             PROVE  SpecHistoryOf(u)' /\ SchemaHistoryOf(u)'
  BY DEF HistoryComplete, SpecHistoryOf, SchemaHistoryOf
<1>0. TypeOK /\ SpecHistoryOf(u) /\ SchemaHistoryOf(u)
  BY HistoryPerTable DEF IInv
<1>f. ASSUME UNCHANGED <<spec[u], specVersion[u], specHistory[u]>>
      PROVE  SpecHistoryOf(u)'
  BY <1>0, <1>f DEF SpecHistoryOf
<1>g. ASSUME UNCHANGED <<schema[u], schemaVersion[u], schemaHistory[u]>>
      PROVE  SchemaHistoryOf(u)'
  BY <1>0, <1>g DEF SchemaHistoryOf
<1>1. ASSUME NEW n \in Names, NEW c \in Columns, NEW s \in Schemas, CreateTable(n, c, s)
      PROVE  SpecHistoryOf(u)' /\ SchemaHistoryOf(u)'
  <2>1. CASE u # lastTable + 1
    BY <1>0, <1>1, <1>f, <1>g, <2>1 DEF CreateTable, TypeOK
  <2>2. CASE u = lastTable + 1
    <3>1. schemaHistory[u] = {}
      <4>1. lastTable \in Nat
        BY <1>0, SmallTypes DEF TypeOK
      <4>2. u > lastTable
        BY <2>2, <4>1
      <4> QED
        BY <4>2 DEF IInv, IdInv
    <3>2. PICK rec : rec = [version |-> 1, spec |-> InitialSpec(c)]
      OBVIOUS
    <3>3. Contiguous({rec}, 1, 1)
      <4>1. Contiguous({}, 1, 0)
        BY ContiguousEmpty
      <4> QED
        BY <3>2, <4>1, ContiguousExtend, {} \cup {rec} = {rec}, 0 + 1 = 1, rec.version = 1
    <3>4. /\ specVersion'[u] = 1 /\ spec'[u] = InitialSpec(c)
          /\ specHistory'[u] = {rec}
          /\ schemaVersion'[u] = 1 /\ schemaHistory'[u] = {}
      BY <1>0, <1>1, <2>2, <3>1, <3>2 DEF CreateTable, TypeOK
    <3>5. Contiguous({}, 2, 1)
      BY ContiguousEmpty
    <3> QED
      BY <3>2, <3>3, <3>4, <3>5 DEF SpecHistoryOf, SchemaHistoryOf
  <2> QED
    BY <2>1, <2>2
<1>2. ASSUME NEW n \in Names, PurgeTable(n)
      PROVE  SpecHistoryOf(u)' /\ SchemaHistoryOf(u)'
  <2>1. CASE u # named[n]
    BY <1>0, <1>2, <1>f, <1>g, <2>1 DEF PurgeTable, TypeOK
  <2>2. CASE u = named[n]
    <3>1. /\ specVersion'[u] = 0 /\ specHistory'[u] = {}
          /\ schemaVersion'[u] = 0 /\ schemaHistory'[u] = {}
      BY <1>0, <1>2, <2>2 DEF PurgeTable, TypeOK
    <3>2. Contiguous({}, 1, 0) /\ Contiguous({}, 2, 0)
      BY ContiguousEmpty
    <3> QED
      BY <3>1, <3>2 DEF SpecHistoryOf, SchemaHistoryOf
  <2> QED
    BY <2>1, <2>2
<1>3. ASSUME NEW p \in Procs, AlterTablePartitionSpec(p)
      PROVE  SpecHistoryOf(u)' /\ SchemaHistoryOf(u)'
  <2>0. SchemaHistoryOf(u)'
    BY <1>3, <1>g, SpecEffect
  <2>1. CASE u # Target(p)
    BY <1>0, <1>3, <1>f, <2>0, <2>1, SpecEffect DEF TypeOK
  <2>2. CASE u = Target(p)
    <3>1. PICK v : v = specVersion[u] + 1
      OBVIOUS
    <3>2. PICK rec : rec = [version |-> v, spec |-> op[p].spec]
      OBVIOUS
    <3>3. /\ specVersion'[u] = v /\ spec'[u] = op[p].spec
          /\ specHistory'[u] = specHistory[u] \cup {rec}
      BY <1>0, <1>3, <2>2, <3>1, <3>2, SpecEffect DEF TypeOK
    <3>4. Contiguous(specHistory[u] \cup {rec}, 1, v)
      <4>1. specVersion[u] \in Nat
        BY <1>0, RowTypes
      <4>2. Contiguous(specHistory[u], 1, specVersion[u])
        BY <1>0 DEF SpecHistoryOf
      <4> QED
        BY <3>1, <3>2, <4>1, <4>2, ContiguousExtend, rec.version = v
    <3> QED
      BY <2>0, <3>2, <3>3, <3>4 DEF SpecHistoryOf
  <2> QED
    BY <2>1, <2>2
<1>4. ASSUME NEW p \in Procs, AlterTableSchema(p)
      PROVE  SpecHistoryOf(u)' /\ SchemaHistoryOf(u)'
  <2>0. SpecHistoryOf(u)'
    BY <1>4, <1>f, SchemaEffect
  <2>1. CASE u # Target(p)
    BY <1>0, <1>4, <1>g, <2>0, <2>1, SchemaEffect DEF TypeOK
  <2>2. CASE u = Target(p)
    <3>1. PICK v : v = schemaVersion[u] + 1
      OBVIOUS
    <3>2. PICK rec : rec = [version |-> v, schema |-> op[p].schema]
      OBVIOUS
    <3>3. /\ schemaVersion'[u] = v /\ schema'[u] = op[p].schema
          /\ schemaHistory'[u] = schemaHistory[u] \cup {rec}
      BY <1>0, <1>4, <2>2, <3>1, <3>2, SchemaEffect DEF TypeOK
    <3>4. Contiguous(schemaHistory[u] \cup {rec}, 2, v)
      <4>1. schemaVersion[u] \in Nat /\ schemaVersion[u] >= 1
        BY <1>0, <1>4, <2>2, RowTypes, SchemaEffect DEF Target, IInv, IdInv
      <4>2. Contiguous(schemaHistory[u], 2, schemaVersion[u])
        BY <1>0 DEF SchemaHistoryOf
      <4> QED
        BY <3>1, <3>2, <4>1, <4>2, ContiguousExtend, rec.version = v
    <3> QED
      BY <2>0, <3>2, <3>3, <3>4 DEF SchemaHistoryOf
  <2> QED
    BY <2>1, <2>2
<1>5. CASE UNCHANGED <<specVars, schemaVars>>
  BY <1>5, <1>f, <1>g DEF specVars, schemaVars
<1> QED
  BY <1>1, <1>2, <1>3, <1>4, <1>5
     DEF Next, vars, SoftDropTable, RenameTable, AlterSpecValidate, AlterSpecRead,
         AlterSchemaValidate, AlterSchemaRead, CommitRead, CommitManifests, Fail,
         specVars, schemaVars

-----------------------------------------------------------------------------
(* Ids and names *)

\* Only CreateTable draws an id, and only it and RenameTable give a name one,
\* which no other name has then.
LEMMA IdStep == IInv /\ [Next]_vars => IdInv'
<1> SUFFICES ASSUME IInv, [Next]_vars PROVE IdInv'
    OBVIOUS
<1>0. /\ TypeOK /\ lastTable \in Nat /\ IdInv
      /\ named \in [Names -> 0 .. MaxTables] /\ MaxTables \in Nat
  BY SmallTypes DEF IInv, TypeOK
<1>1. ASSUME NEW n \in Names, NEW c \in Columns, NEW s \in Schemas, CreateTable(n, c, s)
      PROVE  IdInv'
  <2>1. PICK t : t = lastTable + 1
    OBVIOUS
  <2>2. t \in TableIds /\ t \in Nat /\ t > lastTable
    <3>1. lastTable < MaxTables
      BY <1>1 DEF CreateTable
    <3> QED
      BY <1>0, <2>1, <3>1, NewId
  <2>3. /\ lastTable' = t /\ named' = [named EXCEPT ![n] = t]
        /\ specVersion' = [specVersion EXCEPT ![t] = 1]
        /\ schemaVersion' = [schemaVersion EXCEPT ![t] = 1]
        /\ \A u \in TableIds : u # t => specHistory'[u] = specHistory[u]
        /\ schemaHistory' = schemaHistory /\ manifests' = manifests
    BY <1>0, <1>1, <2>1, <2>2 DEF CreateTable, TypeOK
  <2>4. \A u \in TableIds : u > t => u > lastTable /\ u # t
    BY <1>0, <2>1 DEF TableIds
  <2>5. \A m \in Names : named[m] # t /\ named[m] <= t
    BY <1>0, <2>1 DEF IdInv
  <2>6. \A m \in Names : named'[m] = IF m = n THEN t ELSE named[m]
    BY <1>0, <2>3
  <2>7. \A m \in Names : named'[m] <= lastTable'
    BY <1>0, <2>2, <2>3, <2>5, <2>6
  <2>8. ASSUME NEW m \in Names, named'[m] # 0
        PROVE  specVersion'[named'[m]] >= 1 /\ schemaVersion'[named'[m]] >= 1
    <3>1. CASE m = n
      BY <1>0, <2>2, <2>3, <2>6, <3>1 DEF TypeOK
    <3>2. CASE m # n
      <4>1. named'[m] = named[m] /\ named[m] # t /\ named[m] \in TableIds
        BY <1>0, <2>5, <2>6, <2>8, <3>2, NamedType
      <4>2. specVersion[named[m]] >= 1 /\ schemaVersion[named[m]] >= 1
        BY <1>0, <2>8, <4>1 DEF IdInv
      <4> QED
        BY <1>0, <2>3, <4>1, <4>2 DEF TypeOK
    <3> QED
      BY <3>1, <3>2
  <2>9. \A m1, m2 \in Names : named'[m1] = named'[m2] /\ named'[m1] # 0 => m1 = m2
    BY <1>0, <2>5, <2>6 DEF IdInv
  <2> QED
    BY <1>0, <2>3, <2>4, <2>7, <2>8, <2>9 DEF IdInv
<1>2. ASSUME NEW n \in Names, PurgeTable(n) PROVE IdInv'
  <2>1. /\ named' = [named EXCEPT ![n] = 0] /\ lastTable' = lastTable
        /\ manifests' \subseteq manifests
        /\ \A u \in TableIds : /\ specHistory'[u] \subseteq specHistory[u]
                               /\ schemaHistory'[u] \subseteq schemaHistory[u]
        /\ \A u \in TableIds : u # named[n] => /\ specVersion'[u] = specVersion[u]
                                               /\ schemaVersion'[u] = schemaVersion[u]
    BY <1>0, <1>2 DEF PurgeTable, TypeOK
  <2>2. \A m \in Names : named'[m] = IF m = n THEN 0 ELSE named[m]
    BY <1>0, <2>1
  <2>3. ASSUME NEW m \in Names, named'[m] # 0
        PROVE  specVersion'[named'[m]] >= 1 /\ schemaVersion'[named'[m]] >= 1
    <3>1. m # n /\ named'[m] = named[m] /\ named[m] \in TableIds
      BY <1>0, <2>2, <2>3, NamedType
    <3>2. named[m] # named[n]
      BY <1>0, <2>3, <3>1 DEF IdInv
    <3>3. specVersion[named[m]] >= 1 /\ schemaVersion[named[m]] >= 1
      BY <1>0, <2>3, <3>1 DEF IdInv
    <3> QED
      BY <2>1, <3>1, <3>2, <3>3
  <2> QED
    BY <1>0, <2>1, <2>2, <2>3 DEF IdInv
<1>3. ASSUME NEW n \in Names, SoftDropTable(n) PROVE IdInv'
  <2>1. \A m \in Names : named'[m] = IF m = n THEN 0 ELSE named[m]
    BY <1>0, <1>3 DEF SoftDropTable
  <2> QED
    BY <1>0, <1>3, <2>1 DEF SoftDropTable, IdInv, specVars, schemaVars
<1>4. ASSUME NEW n \in Names, NEW m \in Names, RenameTable(n, m) PROVE IdInv'
  <2>1. \A k \in Names : named'[k] = IF k = n THEN 0 ELSE IF k = m THEN named[n] ELSE named[k]
    BY <1>0, <1>4 DEF RenameTable
  <2>2. named[m] = 0 /\ n # m
    BY <1>4 DEF RenameTable
  <2>3. \A k1, k2 \in Names : named'[k1] = named'[k2] /\ named'[k1] # 0 => k1 = k2
    BY <1>0, <2>1, <2>2 DEF IdInv
  <2> QED
    BY <1>0, <1>4, <2>1, <2>3 DEF RenameTable, IdInv, specVars, schemaVars
<1>5. ASSUME NEW p \in Procs, CommitManifests(p) PROVE IdInv'
  <2>1. \A m \in manifests' : m \in manifests \/ m.table = Target(p)
    BY <1>5, CommitEffect
  <2>2. \A u \in TableIds : u > lastTable => u # Target(p)
    BY <1>0, <1>5, CommitEffect DEF TableIds
  <2> QED
    BY <1>0, <1>5, <2>1, <2>2, CommitEffect DEF IdInv, specVars, schemaVars
<1>6. ASSUME NEW p \in Procs, AlterTablePartitionSpec(p) PROVE IdInv'
  <2>1. PICK t : t = Target(p)
    OBVIOUS
  <2>2. t \in TableIds /\ t <= lastTable /\ specVersion[t] \in Nat
    BY <1>0, <1>6, <2>1, SpecEffect, RowTypes
  <2>3. /\ \A u \in TableIds : u # t => /\ specHistory'[u] = specHistory[u]
                                        /\ specVersion'[u] = specVersion[u]
        /\ specVersion'[t] = specVersion[t] + 1
        /\ UNCHANGED <<lastTable, named, schemaVersion, schemaHistory, manifests>>
    BY <1>0, <1>6, <2>1, <2>2, SpecEffect DEF TypeOK
  <2>4. \A u \in TableIds : u > lastTable => u # t
    BY <1>0, <2>2 DEF TableIds
  <2>5. specVersion'[t] >= 1
    BY <2>2, <2>3
  <2>6. \A n \in Names : named[n] # 0 => specVersion'[named[n]] >= 1
    BY <1>0, <2>3, <2>5, NamedType DEF IdInv
  <2> QED
    BY <1>0, <2>3, <2>4, <2>6 DEF IdInv
<1>7. ASSUME NEW p \in Procs, AlterTableSchema(p) PROVE IdInv'
  <2>1. PICK t : t = Target(p)
    OBVIOUS
  <2>2. t \in TableIds /\ t <= lastTable /\ schemaVersion[t] \in Nat
    BY <1>0, <1>7, <2>1, SchemaEffect, RowTypes
  <2>3. /\ \A u \in TableIds : u # t => /\ schemaHistory'[u] = schemaHistory[u]
                                        /\ schemaVersion'[u] = schemaVersion[u]
        /\ schemaVersion'[t] = schemaVersion[t] + 1
        /\ UNCHANGED <<lastTable, named, specVersion, specHistory, manifests>>
    BY <1>0, <1>7, <2>1, <2>2, SchemaEffect DEF TypeOK
  <2>4. \A u \in TableIds : u > lastTable => u # t
    BY <1>0, <2>2 DEF TableIds
  <2>5. schemaVersion'[t] >= 1
    BY <2>2, <2>3
  <2>6. \A n \in Names : named[n] # 0 => schemaVersion'[named[n]] >= 1
    BY <1>0, <2>3, <2>5, NamedType DEF IdInv
  <2> QED
    BY <1>0, <2>3, <2>4, <2>6 DEF IdInv
<1>8. CASE UNCHANGED <<tableVars, specVars, schemaVars, manifests>>
  BY <1>0, <1>8 DEF IdInv, tableVars, specVars, schemaVars
<1> QED
  BY <1>1, <1>2, <1>3, <1>4, <1>5, <1>6, <1>7, <1>8
     DEF Next, vars, AlterSpecValidate, AlterSpecRead, AlterSchemaValidate, AlterSchemaRead,
         CommitRead, Fail, tableVars, specVars, schemaVars

-----------------------------------------------------------------------------
(* The exclusive lock *)

\* Locks are taken when they are free and given back by their holder.
LEMMA LockStep == IInv /\ [Next]_vars => LockInv'
<1> SUFFICES ASSUME IInv, [Next]_vars, NEW q \in Procs
             PROVE  /\ op'[q].at # "idle" => op'[q].name \in Names
                    /\ op'[q].at \in TxSteps => xlock'[op'[q].name] = q
  BY DEF LockInv
<1>0. /\ op \in [Procs -> Op] /\ xlock \in [Names -> Procs \cup {None}] /\ LockInv
      /\ None \notin Procs
  BY EvolutionAssumption DEF IInv, TypeOK
<1> DEFINE Goal == /\ op'[q].at # "idle" => op'[q].name \in Names
                   /\ op'[q].at \in TxSteps => xlock'[op'[q].name] = q
<1>1. ASSUME op'[q] = op[q],
             \A n \in Names : xlock[n] = q => xlock'[n] = q
      PROVE  Goal
  BY <1>0, <1>1 DEF LockInv, TxSteps
<1>2. ASSUME NEW p \in Procs, Return(p) PROVE Goal
  <2>1. CASE p = q
    <3>1. op'[q].at = "idle"
      BY <1>0, <1>2, <2>1 DEF Return, Idle
    <3> QED
      BY <3>1 DEF TxSteps
  <2>2. CASE p # q
    <3>1. op'[q] = op[q]
      BY <1>0, <1>2, <2>2 DEF Return
    <3>2. \A n \in Names : xlock[n] = q => xlock'[n] = q
      BY <1>2, <2>2 DEF Return
    <3> QED
      BY <1>1, <3>1, <3>2
  <2> QED
    BY <2>1, <2>2
<1>3. ASSUME NEW p \in Procs, NEW n \in Names, NEW s \in ProposedSpecs,
             AlterSpecValidate(p, n, s)
      PROVE  Goal
  <2>1. CASE p = q
    <3>1. op'[q].at = "alter_spec" /\ op'[q].name = n
      BY <1>0, <1>3, <2>1 DEF AlterSpecValidate, Idle
    <3> QED
      BY <3>1 DEF TxSteps
  <2>2. CASE p # q
    BY <1>0, <1>1, <1>3, <2>2 DEF AlterSpecValidate
  <2> QED
    BY <2>1, <2>2
<1>4. ASSUME NEW p \in Procs, NEW n \in Names, NEW s \in Schemas, AlterSchemaValidate(p, n, s)
      PROVE  Goal
  <2>1. CASE p = q
    <3>1. op'[q].at = "alter_schema" /\ op'[q].name = n
      BY <1>0, <1>4, <2>1 DEF AlterSchemaValidate, Idle
    <3> QED
      BY <3>1 DEF TxSteps
  <2>2. CASE p # q
    BY <1>0, <1>1, <1>4, <2>2 DEF AlterSchemaValidate
  <2> QED
    BY <2>1, <2>2
<1>5. ASSUME NEW p \in Procs, NEW a \in TxSteps, op[p].at # "idle", Free(op[p].name),
             op' = [op EXCEPT ![p].at = a], xlock' = [xlock EXCEPT ![op[p].name] = p]
      PROVE  Goal
  <2>1. op[p].name \in Names
    BY <1>0, <1>5 DEF LockInv
  <2>2. CASE p = q
    <3>1. op'[q].name = op[q].name
      BY <1>0, <1>5, <2>2 DEF Op
    <3> QED
      BY <1>0, <1>5, <2>1, <2>2, <3>1
  <2>3. CASE p # q
    <3>1. op'[q] = op[q]
      BY <1>0, <1>5, <2>3
    <3>2. \A n \in Names : xlock[n] = q => xlock'[n] = q
      BY <1>0, <1>5, <2>1 DEF Free
    <3> QED
      BY <1>1, <3>1, <3>2
  <2> QED
    BY <2>2, <2>3
<1>6. ASSUME NEW p \in Procs, AlterSpecRead(p) PROVE Goal
  BY <1>5, <1>6 DEF AlterSpecRead, TxSteps
<1>7. ASSUME NEW p \in Procs, AlterSchemaRead(p) PROVE Goal
  BY <1>5, <1>7 DEF AlterSchemaRead, TxSteps
<1>8. ASSUME NEW p \in Procs, NEW n \in Names, CommitRead(p, n) PROVE Goal
  <2>1. CASE p = q
    <3>1. op'[q].name = n
      BY <1>0, <1>8, <2>1 DEF CommitRead, Idle
    <3>2. xlock'[n] = q
      BY <1>0, <1>8, <2>1 DEF CommitRead
    <3> QED
      BY <3>1, <3>2
  <2>2. CASE p # q
    <3>1. op'[q] = op[q]
      BY <1>0, <1>8, <2>2 DEF CommitRead
    <3>2. \A m \in Names : xlock[m] = q => xlock'[m] = q
      BY <1>0, <1>8 DEF CommitRead, Free
    <3> QED
      BY <1>1, <3>1, <3>2
  <2> QED
    BY <2>1, <2>2
<1>9. CASE UNCHANGED reqVars
  BY <1>0, <1>1, <1>9 DEF reqVars
<1> QED
  BY <1>2, <1>3, <1>4, <1>6, <1>7, <1>8, <1>9
     DEF Next, vars, CreateTable, PurgeTable, SoftDropTable, RenameTable,
         AlterTablePartitionSpec, AlterTableSchema, CommitManifests, Fail, reqVars

\* While a handler is between its read and its transaction, no other one gives
\* the name another table, or that table another version.
LEMMA LockedUnchanged ==
    ASSUME IInv, [Next]_vars, NEW q \in Procs, op[q].at \in TxSteps, op'[q] = op[q]
    PROVE  /\ Target(q)' = Target(q)
           /\ Target(q) # 0 => /\ specVersion'[Target(q)] = specVersion[Target(q)]
                               /\ schemaVersion'[Target(q)] = schemaVersion[Target(q)]
<1>0. /\ TypeOK /\ IdInv /\ LockInv /\ None \notin Procs
      /\ named \in [Names -> 0 .. MaxTables] /\ op \in [Procs -> Op]
  BY EvolutionAssumption DEF IInv, TypeOK
<1>1. PICK n \in Names : n = op[q].name /\ xlock[n] = q
  BY <1>0 DEF LockInv, TxSteps
<1>2. ~ Free(n) /\ Target(q) = named[n] /\ Target(q)' = named'[n]
  BY <1>0, <1>1 DEF Free, Target
<1>3. named[n] # 0 => named[n] \in TableIds
  BY <1>0, NamedType
<1> DEFINE Kept == /\ named'[n] = named[n]
                   /\ named[n] # 0 => /\ specVersion'[named[n]] = specVersion[named[n]]
                                      /\ schemaVersion'[named[n]] = schemaVersion[named[n]]
<1> SUFFICES Kept
  BY <1>2
<1>4. ASSUME NEW m \in Names, NEW c \in Columns, NEW s \in Schemas, CreateTable(m, c, s)
      PROVE  Kept
  <2>1. m # n
    BY <1>2, <1>4 DEF CreateTable
  <2>2. named[n] # lastTable + 1
    <3>1. lastTable \in Nat /\ named[n] <= lastTable
      BY <1>0, SmallTypes DEF TypeOK, IdInv
    <3>2. named[n] \in Nat
      BY <1>0, SmallTypes
    <3> QED
      BY <3>1, <3>2
  <2> QED
    BY <1>0, <1>3, <1>4, <2>1, <2>2 DEF CreateTable, TypeOK
<1>5. ASSUME NEW m \in Names, PurgeTable(m) PROVE Kept
  <2>1. m # n
    BY <1>2, <1>5 DEF PurgeTable
  <2>2. named[n] # 0 => named[n] # named[m]
    BY <1>0, <2>1 DEF IdInv
  <2> QED
    BY <1>0, <1>3, <1>5, <2>1, <2>2 DEF PurgeTable, TypeOK
<1>6. ASSUME NEW m \in Names, SoftDropTable(m) PROVE Kept
  BY <1>0, <1>2, <1>6 DEF SoftDropTable, specVars, schemaVars
<1>7. ASSUME NEW m \in Names, NEW k \in Names, RenameTable(m, k) PROVE Kept
  <2>1. m # n /\ k # n
    BY <1>2, <1>7 DEF RenameTable
  <2> QED
    BY <1>0, <1>7, <2>1 DEF RenameTable, specVars, schemaVars
<1>8. ASSUME NEW p \in Procs, Return(p), op[p].name \in Names, xlock[op[p].name] = p,
             Target(p) # 0, named[n] # 0
      PROVE  named[n] # Target(p)
  <2>1. p # q
    <3>1. Idle.at \notin TxSteps
      BY DEF Idle, TxSteps
    <3> QED
      BY <1>0, <1>8, <3>1 DEF Return
  <2>2. op[p].name # n
    BY <1>1, <1>8, <2>1
  <2> QED
    BY <1>0, <1>8, <2>2 DEF IdInv, Target
<1>9. ASSUME NEW p \in Procs, AlterTablePartitionSpec(p) PROVE Kept
  <2>1. Target(p) # 0
    BY <1>9, SpecEffect, SmallTypes DEF TableIds
  <2>2. named[n] # 0 => named[n] # Target(p)
    BY <1>8, <1>9, <2>1, SpecEffect
  <2> QED
    BY <1>0, <1>3, <1>9, <2>2, SpecEffect DEF TypeOK
<1>10. ASSUME NEW p \in Procs, AlterTableSchema(p) PROVE Kept
  <2>1. named[n] # 0 => named[n] # Target(p)
    BY <1>8, <1>10, SchemaEffect
  <2> QED
    BY <1>0, <1>3, <1>10, <2>1, SchemaEffect DEF TypeOK
<1>11. CASE UNCHANGED <<named, specVersion, schemaVersion>>
  BY <1>11
<1> QED
  BY <1>4, <1>5, <1>6, <1>7, <1>9, <1>10, <1>11
     DEF Next, vars, AlterSpecValidate, AlterSpecRead, AlterSchemaValidate, AlterSchemaRead,
         CommitRead, CommitManifests, Fail, tableVars, specVars, schemaVars

\* What has been read under the lock stays so until the transaction.
LEMMA ReadStep == IInv /\ [Next]_vars => ReadInv'
<1> SUFFICES ASSUME IInv, [Next]_vars, NEW q \in Procs PROVE ReadBy(q)'
  BY DEF ReadInv
<1>0. /\ TypeOK /\ ReadBy(q) /\ LockInv
      /\ op \in [Procs -> Op] /\ row \in [Procs -> Row]
  BY DEF IInv, TypeOK, ReadInv
<1>1. ASSUME op'[q] = op[q], row'[q] = row[q] PROVE ReadBy(q)'
  <2>1. CASE op[q].at \notin TxSteps
    BY <1>1, <2>1 DEF ReadBy, TxSteps
  <2>2. CASE op[q].at \in TxSteps
    BY <1>0, <1>1, <2>2, LockedUnchanged DEF ReadBy
  <2> QED
    BY <2>1, <2>2
<1>2. ASSUME op'[q].at \notin TxSteps PROVE ReadBy(q)'
  BY <1>2 DEF ReadBy, TxSteps
<1>3. ASSUME NEW p \in Procs, Return(p) PROVE ReadBy(q)'
  <2>1. CASE p = q
    <3>1. op'[q] = Idle
      BY <1>0, <1>3, <2>1 DEF Return
    <3> QED
      BY <1>2, <3>1 DEF Idle, TxSteps
  <2>2. CASE p # q
    BY <1>0, <1>1, <1>3, <2>2 DEF Return
  <2> QED
    BY <2>1, <2>2
<1>4. ASSUME NEW p \in Procs, NEW n \in Names, NEW s \in ProposedSpecs,
             AlterSpecValidate(p, n, s)
      PROVE  ReadBy(q)'
  <2>1. p = q => op'[q].at = "alter_spec"
    BY <1>0, <1>4 DEF AlterSpecValidate, Idle
  <2>2. p # q => op'[q] = op[q] /\ row'[q] = row[q]
    BY <1>0, <1>4 DEF AlterSpecValidate
  <2> QED
    BY <1>1, <1>2, <2>1, <2>2 DEF TxSteps
<1>5. ASSUME NEW p \in Procs, NEW n \in Names, NEW s \in Schemas, AlterSchemaValidate(p, n, s)
      PROVE  ReadBy(q)'
  <2>1. p = q => op'[q].at = "alter_schema"
    BY <1>0, <1>5 DEF AlterSchemaValidate, Idle
  <2>2. p # q => op'[q] = op[q] /\ row'[q] = row[q]
    BY <1>0, <1>5 DEF AlterSchemaValidate
  <2> QED
    BY <1>1, <1>2, <2>1, <2>2 DEF TxSteps
<1>6. ASSUME NEW p \in Procs, AlterSpecRead(p) PROVE ReadBy(q)'
  <2>1. CASE p # q
    BY <1>0, <1>1, <1>6, <2>1 DEF AlterSpecRead
  <2>2. CASE p = q
    <3>1. op'[q].at = "alter_spec_tx" /\ op'[q].name = op[q].name
      BY <1>0, <1>6, <2>2 DEF AlterSpecRead, Op
    <3>2. /\ Target(q)' = Target(q) /\ Target(q) # 0
          /\ row'[q] = [table |-> Target(q), version |-> specVersion[Target(q)] + 1]
          /\ specVersion' = specVersion
      BY <1>0, <1>6, <2>2, <3>1 DEF AlterSpecRead, Target, tableVars, specVars
    <3> QED
      BY <3>1, <3>2 DEF ReadBy
  <2> QED
    BY <2>1, <2>2
<1>7. ASSUME NEW p \in Procs, AlterSchemaRead(p) PROVE ReadBy(q)'
  <2>1. CASE p # q
    BY <1>0, <1>1, <1>7, <2>1 DEF AlterSchemaRead
  <2>2. CASE p = q
    <3>1. op'[q].at = "alter_schema_tx" /\ op'[q].name = op[q].name
      BY <1>0, <1>7, <2>2 DEF AlterSchemaRead, Op
    <3>2. /\ Target(q)' = Target(q) /\ Target(q) # 0
          /\ row'[q] = [table |-> Target(q), version |-> schemaVersion[Target(q)] + 1]
          /\ schemaVersion' = schemaVersion
      BY <1>0, <1>7, <2>2, <3>1 DEF AlterSchemaRead, Target, tableVars, schemaVars
    <3> QED
      BY <3>1, <3>2 DEF ReadBy
  <2> QED
    BY <2>1, <2>2
<1>8. ASSUME NEW p \in Procs, NEW n \in Names, CommitRead(p, n) PROVE ReadBy(q)'
  <2>1. CASE p # q
    BY <1>0, <1>1, <1>8, <2>1 DEF CommitRead
  <2>2. CASE p = q
    <3>1. op'[q].at = "commit_tx" /\ op'[q].name = n
      BY <1>0, <1>8, <2>2 DEF CommitRead, Idle
    <3>2. /\ row'[q].version = GetTableSpecVersion(n)
          /\ named' = named /\ specVersion' = specVersion
      BY <1>0, <1>8, <2>2 DEF CommitRead, tableVars, specVars
    <3>3. Target(q)' = named[n]
      BY <3>1, <3>2 DEF Target
    <3> QED
      BY <3>1, <3>2, <3>3 DEF ReadBy, GetTableSpecVersion
  <2> QED
    BY <2>1, <2>2
<1>9. CASE UNCHANGED reqVars
  BY <1>1, <1>9 DEF reqVars
<1> QED
  BY <1>3, <1>4, <1>5, <1>6, <1>7, <1>8, <1>9
     DEF Next, vars, CreateTable, PurgeTable, SoftDropTable, RenameTable,
         AlterTablePartitionSpec, AlterTableSchema, CommitManifests, Fail, reqVars

-----------------------------------------------------------------------------
(* Validated proposals, manifests *)

\* Only AlterSpecValidate lets a proposal wait for the lock.
LEMMA ValidatedStep == IInv /\ [Next]_vars => ValidatedInv'
<1> DEFINE Waits(o) == o.at \in {"alter_spec", "alter_spec_tx"}
<1> SUFFICES ASSUME IInv, [Next]_vars, NEW q \in Procs, Waits(op'[q])
             PROVE  /\ op'[q].spec \in ProposedSpecs
                    /\ ValidateSpecChange(op'[q].base, op'[q].spec)
  BY DEF ValidatedInv, ValidateSpecChange, ValidSpec, ValidField, ParamRequired, NoSpec
<1>0. op \in [Procs -> Op] /\ ValidatedInv
  BY DEF IInv, TypeOK
<1> DEFINE Same == Waits(op[q]) /\ op'[q].spec = op[q].spec /\ op'[q].base = op[q].base
<1>1. ASSUME Same
      PROVE  /\ op'[q].spec \in ProposedSpecs
             /\ ValidateSpecChange(op'[q].base, op'[q].spec)
  BY <1>0, <1>1 DEF ValidatedInv
<1>2. ASSUME NEW n \in Names, NEW s \in ProposedSpecs, AlterSpecValidate(q, n, s)
      PROVE  /\ op'[q].spec \in ProposedSpecs
             /\ ValidateSpecChange(op'[q].base, op'[q].spec)
  BY <1>0, <1>2 DEF AlterSpecValidate, Idle
<1>3. ASSUME NEW p \in Procs, Return(p) PROVE Same
  BY <1>0, <1>3 DEF Return, Idle
<1>4. ASSUME NEW p \in Procs, NEW n \in Names, NEW s \in ProposedSpecs,
             AlterSpecValidate(p, n, s), p # q
      PROVE  Same
  BY <1>0, <1>4 DEF AlterSpecValidate
<1>5. ASSUME NEW p \in Procs, NEW n \in Names, NEW s \in Schemas, AlterSchemaValidate(p, n, s)
      PROVE  Same
  BY <1>0, <1>5 DEF AlterSchemaValidate, Idle
<1>6. ASSUME NEW p \in Procs, AlterSpecRead(p) PROVE Same
  <2>1. op[p].at = "alter_spec" /\ op' = [op EXCEPT ![p].at = "alter_spec_tx"]
    BY <1>6 DEF AlterSpecRead
  <2> QED
    BY <1>0, <2>1 DEF Op
<1>7. ASSUME NEW p \in Procs, AlterSchemaRead(p) PROVE Same
  <2>1. op[p].at = "alter_schema" /\ op' = [op EXCEPT ![p].at = "alter_schema_tx"]
    BY <1>7 DEF AlterSchemaRead
  <2> QED
    BY <1>0, <2>1 DEF Op
<1>8. ASSUME NEW p \in Procs, NEW n \in Names, CommitRead(p, n) PROVE Same
  BY <1>0, <1>8 DEF CommitRead, Idle
<1>9. CASE UNCHANGED reqVars
  BY <1>1, <1>9 DEF reqVars
<1> QED
  BY <1>1, <1>2, <1>3, <1>4, <1>5, <1>6, <1>7, <1>8, <1>9
     DEF Next, vars, CreateTable, PurgeTable, SoftDropTable, RenameTable,
         AlterTablePartitionSpec, AlterTableSchema, CommitManifests, Fail, reqVars

\* A table begins with a valid spec and gets another one only after validation.
LEMMA ValidStep == IInv /\ [Next]_vars => ValidInv'
<1> SUFFICES ASSUME IInv, [Next]_vars, NEW k \in Names, named'[k] # 0
             PROVE  ValidSpec(spec'[named'[k]])
  BY DEF ValidInv, ValidSpec, ValidField, ParamRequired
<1>0. /\ TypeOK /\ ValidatedInv /\ ValidInv /\ IdInv
      /\ spec \in [TableIds -> SUBSET Field] /\ named \in [Names -> 0 .. MaxTables]
  BY DEF IInv, TypeOK
<1>a. ASSUME named'[k] = named[k], spec'[named[k]] = spec[named[k]]
      PROVE  ValidSpec(spec'[named'[k]])
  BY <1>0, <1>a DEF ValidInv
<1>1. ASSUME NEW n \in Names, NEW c \in Columns, NEW s \in Schemas, CreateTable(n, c, s)
      PROVE  ValidSpec(spec'[named'[k]])
  <2>1. ValidSpec(InitialSpec(c))
    <3>1. PICK f : f = [id |-> 1, source |-> c, transform |-> "identity", param |-> 0]
      OBVIOUS
    <3>2. f.source = c /\ f.transform = "identity" /\ f.param = 0
      BY <3>1
    <3>3. c # ""
      BY <1>1 DEF CreateTable
    <3>4. ValidField(f)
      BY <3>2, <3>3 DEF ValidField, ParamRequired
    <3>5. InitialSpec(c) = {f}
      BY <3>1 DEF InitialSpec
    <3> QED
      BY <3>4, <3>5 DEF ValidSpec
  <2>2. lastTable < MaxTables
    BY <1>1 DEF CreateTable
  <2>3. lastTable + 1 \in TableIds /\ lastTable \in Nat
    BY <1>0, <2>2, NewId
  <2>4. CASE k = n
    <3>1. spec'[named'[k]] = InitialSpec(c)
      BY <1>0, <1>1, <2>3, <2>4 DEF CreateTable
    <3> QED
      BY <2>1, <3>1
  <2>5. CASE k # n
    <3>1. named'[k] = named[k]
      BY <1>0, <1>1, <2>5 DEF CreateTable
    <3>2. named[k] # lastTable + 1
      <4>1. named[k] \in Nat /\ named[k] <= lastTable
        BY <1>0, SmallTypes DEF IdInv
      <4> QED
        BY <2>3, <4>1
    <3>3. spec'[named[k]] = spec[named[k]]
      BY <1>0, <1>1, <3>1, <3>2, NamedType DEF CreateTable
    <3> QED
      BY <1>a, <3>1, <3>3
  <2> QED
    BY <2>4, <2>5
<1>2. ASSUME NEW p \in Procs, AlterTablePartitionSpec(p) PROVE ValidSpec(spec'[named'[k]])
  <2>1. ValidSpec(op[p].spec)
    BY <1>0, <1>2, SpecEffect DEF ValidatedInv, ValidateSpecChange
  <2>2. named' = named /\ spec' = [spec EXCEPT ![Target(p)] = op[p].spec]
    BY <1>2, SpecEffect
  <2>3. named[k] \in TableIds
    BY <1>0, <2>2, NamedType
  <2>4. CASE named[k] = Target(p)
    BY <1>0, <2>1, <2>2, <2>3, <2>4
  <2>5. CASE named[k] # Target(p)
    BY <1>0, <1>a, <2>2, <2>3, <2>5
  <2> QED
    BY <2>4, <2>5
<1>3. ASSUME NEW n \in Names, PurgeTable(n) PROVE ValidSpec(spec'[named'[k]])
  <2>1. k # n /\ named'[k] = named[k]
    BY <1>0, <1>3 DEF PurgeTable
  <2>2. named[k] # named[n] /\ named[k] \in TableIds
    BY <1>0, <2>1, NamedType DEF IdInv
  <2>3. spec'[named[k]] = spec[named[k]]
    BY <1>0, <1>3, <2>2 DEF PurgeTable
  <2> QED
    BY <1>a, <2>1, <2>3
<1>4. ASSUME NEW n \in Names, SoftDropTable(n) PROVE ValidSpec(spec'[named'[k]])
  BY <1>0, <1>4, <1>a DEF SoftDropTable, specVars
<1>5. ASSUME NEW n \in Names, NEW m \in Names, RenameTable(n, m)
      PROVE  ValidSpec(spec'[named'[k]])
  <2>1. PICK j \in Names : named'[k] = named[j]
    BY <1>0, <1>5 DEF RenameTable
  <2>2. spec' = spec
    BY <1>5 DEF RenameTable, specVars
  <2> QED
    BY <1>0, <2>1, <2>2 DEF ValidInv
<1>6. CASE UNCHANGED <<named, spec>>
  BY <1>a, <1>6
<1> QED
  BY <1>1, <1>2, <1>3, <1>4, <1>5, <1>6, SchemaEffect
     DEF Next, vars, AlterSpecValidate, AlterSpecRead, AlterSchemaValidate, AlterSchemaRead,
         CommitRead, CommitManifests, Fail, tableVars, specVars

\* CommitManifests stamps the current version, whose row no action but a purge
\* removes.
LEMMA ManifestStep == IInv /\ [Next]_vars => ManifestSpecKnown'
<1> SUFFICES ASSUME IInv, [Next]_vars, NEW m \in manifests'
             PROVE  \E r \in specHistory'[m.table] : r.version = m.specId
  BY DEF ManifestSpecKnown
<1>0. TypeOK /\ IdInv /\ ManifestSpecKnown
  BY DEF IInv
<1>1. ASSUME m \in manifests, specHistory[m.table] \subseteq specHistory'[m.table]
      PROVE  \E r \in specHistory'[m.table] : r.version = m.specId
  BY <1>0, <1>1 DEF ManifestSpecKnown
<1>2. m \in manifests => m.table \in TableIds
  BY <1>0 DEF TypeOK
<1>3. ASSUME NEW n \in Names, NEW c \in Columns, NEW s \in Schemas, CreateTable(n, c, s)
      PROVE  m \in manifests /\ specHistory[m.table] \subseteq specHistory'[m.table]
  <2>1. m \in manifests
    BY <1>3 DEF CreateTable
  <2>2. m.table # lastTable + 1
    <3>1. lastTable \in Nat
      BY <1>0, SmallTypes DEF TypeOK
    <3> QED
      BY <1>0, <1>2, <2>1, <3>1 DEF IdInv, TableIds
  <2> QED
    BY <1>0, <1>2, <1>3, <2>1, <2>2 DEF CreateTable, TypeOK
<1>4. ASSUME NEW n \in Names, PurgeTable(n)
      PROVE  m \in manifests /\ specHistory[m.table] \subseteq specHistory'[m.table]
  BY <1>0, <1>2, <1>4 DEF PurgeTable, TypeOK
<1>5. ASSUME NEW p \in Procs, CommitManifests(p)
      PROVE  \E r \in specHistory'[m.table] : r.version = m.specId
  <2>0. specHistory' = specHistory
    BY <1>5, CommitEffect DEF specVars
  <2>1. CASE m \in manifests
    BY <1>1, <2>0, <2>1
  <2>2. CASE m \notin manifests
    <3>1. m.table = Target(p) /\ m.specId = specVersion[Target(p)]
      BY <1>5, <2>2, CommitEffect
    <3>2. /\ Target(p) \in TableIds /\ specVersion[Target(p)] \in Nat
          /\ specVersion[Target(p)] >= 1
      BY <1>5, CommitEffect
    <3>3. SpecHistoryOf(Target(p))
      BY <3>2, HistoryPerTable DEF IInv
    <3>4. [version |-> specVersion[Target(p)], spec |-> spec[Target(p)]]
             \in specHistory[Target(p)]
      BY <3>2, <3>3 DEF SpecHistoryOf
    <3> QED
      BY <2>0, <3>1, <3>4
  <2> QED
    BY <2>1, <2>2
<1>6. ASSUME NEW p \in Procs, AlterTablePartitionSpec(p)
      PROVE  m \in manifests /\ specHistory[m.table] \subseteq specHistory'[m.table]
  BY <1>0, <1>2, <1>6, SpecEffect DEF TypeOK
<1>7. CASE UNCHANGED <<specHistory, manifests>>
  BY <1>1, <1>7
<1> QED
  BY <1>1, <1>3, <1>4, <1>5, <1>6, <1>7
     DEF Next, vars, SoftDropTable, RenameTable, AlterTableSchema, AlterSpecValidate,
         AlterSpecRead, AlterSchemaValidate, AlterSchemaRead, CommitRead, Fail, specVars

-----------------------------------------------------------------------------
(* The theorems *)

(***************************************************************************)
(* The inductive invariant holds in every reachable state: types, ids,     *)
(* locks, what is read under them, validated proposals, histories and      *)
(* manifests.                                                              *)
(***************************************************************************)
THEOREM Inductive == Spec => []IInv
<1>1. Init => IInv
  <2> SUFFICES ASSUME Init PROVE IInv
    OBVIOUS
  <2>1. TypeOK
    BY SmallTypes DEF Init, TypeOK
  <2>2. IdInv /\ ManifestSpecKnown
    BY DEF Init, IdInv, ManifestSpecKnown
  <2>5. LockInv /\ ReadInv
    BY DEF Init, LockInv, ReadInv, ReadBy, TxSteps, Idle
  <2>3. ValidatedInv
    BY DEF Init, ValidatedInv, Idle
  <2>4. HistoryComplete
    <3>1. Contiguous({}, 1, 0) /\ Contiguous({}, 2, 0)
      BY ContiguousEmpty
    <3> QED
      BY <3>1 DEF Init, HistoryComplete
  <2> QED
    BY <2>1, <2>2, <2>3, <2>4, <2>5 DEF IInv, ValidInv, Init, ManifestSpecKnown
<1>2. IInv /\ [Next]_vars => IInv'
  BY TypeStep, IdStep, LockStep, ReadStep, ValidatedStep, ValidStep, HistoryStep,
     ManifestStep
     DEF IInv
<1> QED
  BY <1>1, <1>2, PTL DEF Spec

(***************************************************************************)
(* Every variable keeps its shape.                                         *)
(***************************************************************************)
THEOREM TypeCorrect == Spec => []TypeOK
<1>1. IInv => TypeOK
  BY DEF IInv
<1> QED
  BY <1>1, Inductive, PTL

(***************************************************************************)
(* Whatever AlterTable calls race, the spec history of a table has every   *)
(* version from 1 and its schema history every version from 2, once, up to *)
(* the version in the table's row.                                         *)
(***************************************************************************)
THEOREM Histories == Spec => []HistoryComplete
<1>1. IInv => HistoryComplete
  BY DEF IInv
<1> QED
  BY <1>1, Inductive, PTL

(***************************************************************************)
(* The spec id that CommitSnapshot has stamped on a manifest can be looked *)
(* up in the history of the manifest's table.                              *)
(***************************************************************************)
THEOREM ManifestSpecs == Spec => []ManifestSpecKnown
<1>1. IInv => ManifestSpecKnown
  BY DEF IInv
<1> QED
  BY <1>1, Inductive, PTL

(***************************************************************************)
(* A spec that replaces the one it was validated against keeps every field *)
(* id with its column and transform, has unique ids, and puts new ids      *)
(* above the old ones.                                                     *)
(***************************************************************************)
THEOREM KeepsFields == Spec => EvolutionKeepsFields
<1> DEFINE Kept(old, new) ==
      /\ Keeps(old, new)
      /\ \A f, g \in new : f.id = g.id => f = g
      /\ \A f \in new, c \in old : f.id <= c.id => \E d \in old : d.id = f.id
<1> DEFINE Replaced(p, t) ==
      /\ op[p].at = "alter_spec_tx" /\ op[p].base = spec[t] /\ spec[t] # NoSpec
      /\ specVersion'[t] > specVersion[t] /\ op'[p].at = "idle"
<1>1. ASSUME NEW old \in SUBSET Field, NEW new \in SUBSET Field, old # NoSpec,
             ValidateSpecChange(old, new)
      PROVE  Kept(old, new)
  <2>1. Keeps(old, new)
    BY <1>1 DEF ValidateSpecChange, Keeps
  <2>2. \A f, g \in new : f.id = g.id => f = g
    BY <1>1 DEF ValidateSpecChange, ValidSpec
  <2>3. ASSUME NEW f \in new, NEW c \in old, f.id <= c.id
        PROVE  \E d \in old : d.id = f.id
    <3>1. f.id \in Int /\ c.id \in Int
      BY DEF Field
    <3> QED
      BY <1>1, <2>3, <3>1 DEF ValidateSpecChange
  <2> QED
    BY <2>1, <2>2, <2>3
<1>2. ASSUME IInv, [Next]_vars, NEW p \in Procs, NEW t \in TableIds, Replaced(p, t)
      PROVE  Kept(spec[t], spec'[t])
  <2>0. /\ op \in [Procs -> Op] /\ spec \in [TableIds -> SUBSET Field]
        /\ specVersion \in [TableIds -> Nat]
    BY <1>2 DEF IInv, TypeOK
  <2>1. specVersion'[t] # specVersion[t]
    BY <1>2, <2>0
  <2>2. op' # op
    BY <1>2
  <2>3. ASSUME NEW q \in Procs, AlterTablePartitionSpec(q)
        PROVE  spec'[t] = op[p].spec
    <3>1. q = p
      <4>1. op' = [op EXCEPT ![q] = Idle]
        BY <1>2, <2>3, SpecEffect DEF Return
      <4> QED
        BY <1>2, <2>0, <4>1
    <3>2. t = Target(q)
      BY <1>2, <2>0, <2>1, <2>3, SpecEffect
    <3> QED
      BY <1>2, <2>0, <2>3, <3>1, <3>2, SpecEffect
  <2>7. ASSUME NEW q \in Procs, AlterTableSchema(q) PROVE specVersion' = specVersion
    BY <1>2, <2>7, SchemaEffect
  <2>4. spec'[t] = op[p].spec
    BY <1>2, <2>1, <2>2, <2>3, <2>7
       DEF Next, vars, CreateTable, PurgeTable, SoftDropTable, RenameTable, CommitRead,
           CommitManifests, AlterSpecRead, AlterSchemaRead,
           AlterSpecValidate, AlterSchemaValidate, Fail, specVars, reqVars
  <2>5. ValidateSpecChange(spec[t], op[p].spec)
    BY <1>2 DEF IInv, ValidatedInv
  <2>6. spec[t] \in SUBSET Field /\ op[p].spec \in SUBSET Field
    BY <2>0 DEF Op
  <2> QED
    BY <1>1, <1>2, <2>4, <2>5, <2>6
<1>3. IInv /\ [Next]_vars =>
      [\A p \in Procs, t \in TableIds :
          op[p].at = "alter_spec_tx" /\ op[p].base = spec[t] /\ spec[t] # NoSpec
             /\ specVersion'[t] > specVersion[t] /\ op'[p].at = "idle" =>
                /\ Keeps(spec[t], spec'[t])
                /\ \A f, g \in spec'[t] : f.id = g.id => f = g
                /\ \A f \in spec'[t], c \in spec[t] :
                      f.id <= c.id => \E d \in spec[t] : d.id = f.id]_vars
  BY <1>2
<1> QED
  BY <1>3, Inductive, PTL DEF Spec, EvolutionKeepsFields

-----------------------------------------------------------------------------
(* Reads *)

\* A stored spec survives the way to a client and back.
LEMMA RoundTrip ==
    ASSUME NEW s \in SUBSET Field
    PROVE  ProtoToPartitionSpec(PartitionSpecToProto(s)) = s
<1> DEFINE Sent(f) == [id |-> f.id, source |-> f.source,
                       transform |-> StringTransformToProto(f.transform), param |-> f.param]
<1> DEFINE Got(f) == [id |-> f.id, source |-> f.source,
                      transform |-> ProtoTransformToString(f.transform), param |-> f.param]
<1>1. ASSUME NEW tr \in Transforms
      PROVE  ProtoTransformToString(StringTransformToProto(tr)) = tr
  BY DEF Transforms, StringTransformToProto, ProtoTransformToString
<1>2. ASSUME NEW f \in s PROVE Got(Sent(f)) = f
  <2>1. f \in Field
    OBVIOUS
  <2>2. f = [id |-> f.id, source |-> f.source, transform |-> f.transform, param |-> f.param]
    BY <2>1 DEF Field
  <2>3. f.transform \in Transforms
    BY <2>1 DEF Field
  <2> QED
    BY <1>1, <2>2, <2>3
<1>3. ProtoToPartitionSpec(PartitionSpecToProto(s)) = { Got(Sent(f)) : f \in s }
  BY DEF ProtoToPartitionSpec, PartitionSpecToProto
<1> QED
  BY <1>2, <1>3

(***************************************************************************)
(* What GetPartitionSpec returns as the current spec is found under its    *)
(* version and in the list, and passes the validation when it is sent back *)
(* unchanged.                                                              *)
(***************************************************************************)
THEOREM Resendable == Spec => []SpecResendable
<1>1. IInv => SpecResendable
  <2> SUFFICES ASSUME IInv, NEW n \in Names, NEW r \in GetPartitionSpec(n, 0)
               PROVE  /\ GetPartitionSpec(n, r.version) = {r}
                      /\ r \in ListPartitionSpecs(n)
                      /\ ValidateSpecChange(spec[named[n]], ProtoToPartitionSpec(r.spec))
    BY DEF SpecResendable
  <2>0. named[n] # 0
    BY DEF GetPartitionSpec, GetCurrentSpec, Reply
  <2>1. PICK t : t = named[n] /\ t \in TableIds
    BY <2>0, NamedType DEF IInv
  <2>2. PICK cur : cur = [version |-> specVersion[t], spec |-> spec[t]]
    OBVIOUS
  <2>3. /\ spec[t] \in SUBSET Field
        /\ specVersion[t] \in Nat
        /\ specHistory[t] \in SUBSET SpecRow
    BY <2>1, RowTypes DEF IInv
  <2>4. specVersion[t] >= 1
    BY <2>0, <2>1 DEF IInv, IdInv
  <2>5. /\ cur \in specHistory[t]
        /\ \A r1, r2 \in specHistory[t] : r1.version = r2.version => r1 = r2
    <3>1. Contiguous(specHistory[t], 1, specVersion[t])
      BY <2>1 DEF IInv, HistoryComplete
    <3>2. specVersion[t] > 0
      BY <2>3, <2>4
    <3>3. [version |-> specVersion[t], spec |-> spec[t]] \in specHistory[t]
      BY <2>1, <3>2 DEF IInv, HistoryComplete
    <3> QED
      BY <2>2, <3>1, <3>3 DEF Contiguous
  <2>6. GetCurrentSpec(n) = {cur} /\ cur.version = specVersion[t] /\ cur.spec = spec[t]
    BY <2>0, <2>1, <2>2 DEF GetCurrentSpec
  <2>7. GetSpecAtVersion(n, cur.version) = {cur} /\ cur \in ListSpecHistory(n)
    BY <2>0, <2>1, <2>5 DEF GetSpecAtVersion, AtVersion, RowsOf, ListSpecHistory
  <2>8. PICK msg : msg = [cur EXCEPT !.spec = PartitionSpecToProto(spec[t])]
    OBVIOUS
  <2>9. msg.version = cur.version /\ msg.spec = PartitionSpecToProto(spec[t])
    BY <2>2, <2>8
  <2>10. Reply({cur}) = {msg}
    BY <2>6, <2>8 DEF Reply
  <2>11. GetPartitionSpec(n, 0) = {msg}
    BY <2>6, <2>10 DEF GetPartitionSpec
  <2>12. GetPartitionSpec(n, msg.version) = {msg}
    BY <2>3, <2>4, <2>6, <2>7, <2>9, <2>10 DEF GetPartitionSpec
  <2>13. msg \in ListPartitionSpecs(n)
    BY <2>6, <2>7, <2>8 DEF ListPartitionSpecs, Reply
  <2>14. ValidateSpecChange(spec[t], ProtoToPartitionSpec(msg.spec))
    <3>1. ProtoToPartitionSpec(msg.spec) = spec[t]
      BY <2>3, <2>9, RoundTrip
    <3>2. ValidSpec(spec[t])
      BY <2>0, <2>1 DEF IInv, ValidInv
    <3>3. ValidateSpecChange(spec[t], spec[t])
      BY <3>2 DEF ValidateSpecChange
    <3> QED
      BY <3>1, <3>3
  <2>15. r = msg
    BY <2>11
  <2> QED
    BY <2>1, <2>12, <2>13, <2>14, <2>15
<1> QED
  BY <1>1, Inductive, PTL

\* A table that stays under a name, the same or another, only gains rows.
LEMMA HistoryGrows ==
    ASSUME IInv, [Next]_vars, NEW n \in Names, NEW m \in Names,
           named[n] # 0, named'[m] = named[n]
    PROVE  /\ specHistory[named[n]] \subseteq specHistory'[named[n]]
           /\ schemaHistory[named[n]] \subseteq schemaHistory'[named[n]]
<1>1. /\ TypeOK /\ IdInv /\ named[n] \in TableIds
      /\ named \in [Names -> 0 .. MaxTables]
      /\ specHistory \in [TableIds -> SUBSET SpecRow]
      /\ schemaHistory \in [TableIds -> SUBSET SchemaRow]
  BY NamedType DEF IInv, TypeOK, SpecRow, SchemaRow
<1>2. ASSUME NEW p \in Procs, AlterTablePartitionSpec(p)
      PROVE  /\ specHistory[named[n]] \subseteq specHistory'[named[n]]
             /\ schemaHistory' = schemaHistory
  BY <1>1, <1>2, SpecEffect
<1>3. ASSUME NEW p \in Procs, AlterTableSchema(p)
      PROVE  /\ schemaHistory[named[n]] \subseteq schemaHistory'[named[n]]
             /\ specHistory' = specHistory
  BY <1>1, <1>3, SchemaEffect
<1>4. ASSUME NEW k \in Names, NEW c \in Columns, NEW s \in Schemas, CreateTable(k, c, s)
      PROVE  /\ specHistory[named[n]] \subseteq specHistory'[named[n]]
             /\ schemaHistory' = schemaHistory
  <2>1. lastTable \in Nat /\ named[n] \in Nat /\ named[n] <= lastTable
    BY <1>1, SmallTypes DEF TypeOK, IdInv
  <2>2. named[n] # lastTable + 1
    BY <2>1
  <2> QED
    BY <1>1, <1>4, <2>2 DEF CreateTable
<1>5. ASSUME NEW k \in Names, PurgeTable(k)
      PROVE  /\ specHistory[named[n]] \subseteq specHistory'[named[n]]
             /\ schemaHistory[named[n]] \subseteq schemaHistory'[named[n]]
  <2>1. named' = [named EXCEPT ![k] = 0]
    BY <1>5 DEF PurgeTable
  <2>2. m # k /\ named[m] = named[n]
    BY <1>1, <2>1
  <2>3. named[k] # named[n]
    BY <1>1, <2>2 DEF IdInv
  <2> QED
    BY <1>1, <1>5, <2>3 DEF PurgeTable
<1>6. CASE UNCHANGED <<specHistory, schemaHistory>>
  BY <1>6
<1> QED
  BY <1>2, <1>3, <1>4, <1>5, <1>6
     DEF Next, vars, SoftDropTable, RenameTable, CommitRead, CommitManifests,
         AlterSpecValidate, AlterSpecRead, AlterSchemaValidate, AlterSchemaRead, Fail,
         specVars, schemaVars

(***************************************************************************)
(* What a version of a table's spec or schema reads as does not change as  *)
(* long as the table is there, whatever its name.                          *)
(***************************************************************************)
THEOREM Stable == Spec => VersionsStable
<1> DEFINE Unique(rows) == \A r1, r2 \in rows : r1.version = r2.version => r1 = r2
<1>1. ASSUME IInv, IInv', [Next]_vars, NEW n \in Names, NEW m \in Names,
             named[n] # 0, named'[m] = named[n]
      PROVE  /\ \A r \in ListSpecHistory(n) : GetSpecAtVersion(m, r.version)' = {r}
             /\ \A r \in ListSchemaHistory(n) : GetSchemaAtVersion(m, r.version)' = {r}
  <2>1. PICK t : t = named[n] /\ t \in TableIds
    BY <1>1, NamedType DEF IInv
  <2>2. Unique(specHistory'[t]) /\ Unique(schemaHistory'[t])
    BY <1>1, <2>1 DEF IInv, HistoryComplete, Contiguous
  <2>3. ASSUME NEW r \in specHistory[t] PROVE GetSpecAtVersion(m, r.version)' = {r}
    <3>1. r \in specHistory'[t]
      BY <1>1, <2>1, HistoryGrows
    <3> QED
      BY <1>1, <2>1, <2>2, <3>1 DEF GetSpecAtVersion, AtVersion, RowsOf
  <2>4. ASSUME NEW r \in schemaHistory[t] PROVE GetSchemaAtVersion(m, r.version)' = {r}
    <3>1. r \in schemaHistory'[t]
      BY <1>1, <2>1, HistoryGrows
    <3> QED
      BY <1>1, <2>1, <2>2, <3>1 DEF GetSchemaAtVersion, AtVersion, RowsOf
  <2> QED
    BY <1>1, <2>1, <2>3, <2>4 DEF ListSpecHistory, ListSchemaHistory, RowsOf
<1>2. IInv /\ IInv' /\ [Next]_vars =>
      [\A n, m \in Names : named[n] # 0 /\ named'[m] = named[n] =>
          /\ \A r \in ListSpecHistory(n) : GetSpecAtVersion(m, r.version)' = {r}
          /\ \A r \in ListSchemaHistory(n) : GetSchemaAtVersion(m, r.version)' = {r}]_vars
  BY <1>1
<1> QED
  BY <1>2, Inductive, PTL DEF Spec, VersionsStable

=============================================================================
