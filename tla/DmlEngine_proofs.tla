---------------------------- MODULE DmlEngine_proofs ---------------------------
(***************************************************************************)
(* What holds of DmlEngine for every schema, every set of SObjects,        *)
(* requests and triggers, and every bound.  The stack alternates           *)
(* statements and code, so that a frame, its checkpoint and what it may    *)
(* touch are found by its height; each part of the invariant says of every *)
(* frame what the frames above it, which end first, must leave alone.      *)
(***************************************************************************)
EXTENDS DmlEngine, SequenceTheorems, FiniteSetTheorems, WellFoundedInduction, TLAPS

-----------------------------------------------------------------------------
(* Types                                                                   *)

Tables == UNION {[S -> StoredRecords] : S \in SUBSET Ids}
Databases == [live : Tables, bin : Tables, sequence : [Objects -> Nat]]

GroupOps == {"insert", "update", "delete", "undelete"}
OpenStages == {"before", "write", "after", "settle", "failed"}
GroupStages == {"attempt"} \cup OpenStages
Stages == {"preflight", "choose", "failing"} \cup GroupStages

\* What is known of some of the SObjects, and of some of the rows.
SomeImages == UNION {[S -> Images] : S \in SUBSET Handles}
RowStatuses == Statuses \cup {"MISSING_ARGUMENT", "DUPLICATE_EXTERNAL_ID",
                                "CANNOT_INSERT_UPDATE_ACTIVATE_ENTITY"}
SomeStatuses == UNION {[S -> RowStatuses] : S \in SUBSET Nat}
Preparations == [status : {"OK"}, op : GroupOps, new : Images \cup {NoImage}]
SomePreparations == UNION {[S -> Preparations] : S \in SUBSET Nat}

EntryFrames == [kind : {"entry"}]
TriggerFrames == [kind : {"trigger"}, phase : Phases, context : SUBSET Handles,
                  saved : SUBSET Handles, left : Nat]
StatementFrames ==
    [kind : {"statement"}, stage : Stages, op : Operations, atomic : BOOLEAN,
     inputs : Seq(Handles \cup {Null}), originals : SomeImages, outcomes : SomeStatuses,
     ready : SomePreparations, pending : Seq(GroupOps), group : SUBSET Nat,
     attempt : Nat, held : SomeImages, results : SomeStatuses,
     start : [db : Databases, queries : Nat]]
Frames == EntryFrames \cup TriggerFrames \cup StatementFrames

DmlTypes ==
    /\ db \in Databases /\ checkpoints \in Seq(Databases)
    /\ image \in [Handles -> Images]
    /\ readOnly \in SUBSET Handles /\ depth \in Int
    /\ stack \in Seq(Frames)
    /\ queries \in Nat /\ baselines \in Seq(Nat) /\ fuel \in Nat

-----------------------------------------------------------------------------
(* What a frame is, by itself and on those below it                        *)

Elements(s) == {s[i] : i \in 1..Len(s)}

\* The handles of the group in progress.
GroupOf(f) == {f.inputs[i] : i \in f.group}

\* The operations whose groups are still to come.
Awaited(f) == IF f.stage \in GroupStages THEN Tail(f.pending) ELSE f.pending

\* A statement keeps the rows of one SObject in one group, and every row is
\* settled, in the group in progress, or in one to come.
IsOrderly(f) ==
    /\ DOMAIN f.originals = {f.inputs[i] : i \in Given(f)}
    /\ DOMAIN f.outcomes \subseteq DOMAIN f.inputs
    /\ DOMAIN f.ready \subseteq Given(f) /\ f.group \subseteq DOMAIN f.ready
    /\ \A i, j \in DOMAIN f.ready : f.inputs[i] = f.inputs[j] => f.ready[i] = f.ready[j]
    /\ \A i, j \in 1..Len(f.pending) : f.pending[i] = f.pending[j] => i = j
    /\ \A i \in DOMAIN f.outcomes : f.outcomes[i] = "OK" =>
           i \in DOMAIN f.ready /\ f.ready[i].op \notin Elements(f.pending)
    /\ f.stage = "preflight" => f.pending = <<>> /\ DOMAIN f.ready = {}
           /\ DOMAIN f.inputs \subseteq DOMAIN f.outcomes \cup Given(f)
    /\ IF f.stage \in GroupStages
       THEN f.pending # <<>> /\ \A i \in f.group : f.ready[i].op = Head(f.pending)
       ELSE f.group = {}
    /\ f.stage \notin {"preflight", "failing"} =>
           DOMAIN f.inputs \subseteq DOMAIN f.outcomes \cup f.group
               \cup {i \in DOMAIN f.ready : f.ready[i].op \in Elements(Awaited(f))}
    /\ DOMAIN f.held \subseteq GroupOf(f)
    /\ f.stage \in OpenStages => DOMAIN f.held = GroupOf(f)
    /\ f.stage \in {"after", "settle"} => DOMAIN f.results = f.group

\* The SObjects of the after triggers among the first n frames of s.
ReadOnlyOf(s, n) ==
    UNION {s[i].context : i \in {j \in 1..n : s[j].kind = "trigger" /\ s[j].phase = "after"}}

IsNested(s, m) ==
    /\ s[m].kind = "entry" <=> m = 1
    /\ s[m].kind = "statement" => s[m - 1].kind # "statement"
    /\ s[m].kind = "trigger" =>
           /\ s[m - 1].kind = "statement" /\ s[m - 1].stage = s[m].phase
           /\ s[m].context \subseteq GroupOf(s[m - 1])
           /\ s[m].saved = ReadOnlyOf(s, m - 1)

StackIsOrderly(s) ==
    \A m \in 1..Len(s) : IsNested(s, m) /\ (s[m].kind = "statement" => IsOrderly(s[m]))

\* The checkpoint of a statement is the database it began with, and is the one
\* at its own height; that of its attempt is the next one.
CheckpointsFollow(s, copies) ==
    /\ Len(copies) = Len(s) + (IF s # <<>> /\ HasOpenAttempt(s[Len(s)]) THEN 1 ELSE 0)
    /\ \A m \in 1..Len(s) : s[m].kind = "statement" => copies[m] = s[m].start.db

\* The baseline of a retry scope is the count its group began with.
Scopes(s, n) == {i \in 1..n : HasOpenScope(s[i])}

HasBaseline(s, bases, m) ==
    HasOpenScope(s[m]) => bases[Cardinality(Scopes(s, m))] = s[m].start.queries

BaselinesFollow(s, bases) == \A m \in 1..Len(s) : HasBaseline(s, bases, m)

\* How many frames of a stack are of some kind.
Count(s, K) == Cardinality({i \in 1..Len(s) : s[i] \in K})

AllStatements == {f \in Frames : IsStatement(f)}
OpenAttempts == {f \in Frames : HasOpenAttempt(f)}
OpenScopes == {f \in Frames : HasOpenScope(f)}
Bodies == {f \in Frames : IsTriggerBody(f)}

IsCounted(s, copies, bases, d, ro) ==
    /\ Len(copies) = (IF s = <<>> THEN 0 ELSE 1) + Count(s, AllStatements) + Count(s, OpenAttempts)
    /\ Len(bases) = Count(s, OpenScopes)
    /\ d = Count(s, Bodies)
    /\ ro = ReadOnlyOf(s, Len(s))

IsStructured(s, copies, bases, d, ro) ==
    /\ s \in Seq(Frames) /\ copies \in Seq(Databases) /\ bases \in Seq(Nat)
    /\ StackIsOrderly(s)
    /\ CheckpointsFollow(s, copies)
    /\ BaselinesFollow(s, bases)
    /\ IsCounted(s, copies, bases, d, ro)

DmlStructure ==
    /\ DmlTypes
    /\ IsStructured(stack, checkpoints, baselines, depth, readOnly)
    /\ At("attempt") => queries = Top.start.queries

-----------------------------------------------------------------------------
(* What success means                                                      *)

Known(d) == DOMAIN d.live \cup DOMAIN d.bin

\* The databases one can go back to, the present one last.
CopyAt(copies, now, k) == IF k <= Len(copies) THEN copies[k] ELSE now

\* No Id is forgotten that one could not go back to.
IdsGrow(copies, now) ==
    \A k \in 1..(Len(copies) + 1) : \A j \in 1..k :
        Known(CopyAt(copies, now, j)) \subseteq Known(CopyAt(copies, now, k))

\* The rows reported as written, and those the attempt in progress has written.
Reported(f) ==
    IF f.stage = "failing" THEN {} ELSE {i \in DOMAIN f.outcomes : f.outcomes[i] = "OK"}
Wrote(f) == IF f.stage \in {"after", "settle"} THEN {i \in DOMAIN f.results : f.results[i] = "OK"}
            ELSE {}

\* The rows an attempt is about to write that were prepared to have an Id.
Aimed(f) == IF f.stage \in {"before", "write"} THEN {i \in f.group : f.ready[i].new.id # Null}
            ELSE {}

\* The rows whose SObjects keep their Ids whatever goes on above.
Fixed(f) == Reported(f) \cup Wrote(f) \cup Aimed(f)

WritesAreIn(f, img, settled, attempted) ==
    /\ \A i \in Reported(f) : img[f.inputs[i]].id \in Known(settled)
    /\ \A i \in Wrote(f) : img[f.inputs[i]].id \in Known(attempted)
    /\ \A i \in Aimed(f) : img[f.inputs[i]].id = f.ready[i].new.id

\* The database a statement would leave, and the one its attempt would.
WrittenRowsAreKnown ==
    \A m \in 1..Len(stack) : stack[m].kind = "statement" =>
        WritesAreIn(stack[m], image, CopyAt(checkpoints, db, m + 1),
                                     CopyAt(checkpoints, db, m + 2))

\* What the statement remembers of the SObject has its Id.
Remembers(f, h, id) ==
    /\ h \in DOMAIN f.originals => f.originals[h].id = id
    /\ h \in DOMAIN f.held => f.held[h].id = id
    /\ \A j \in DOMAIN f.ready :
           f.inputs[j] = h /\ f.ready[j].new # NoImage => f.ready[j].new.id = id

RemembersWrites(f, g, img) ==
    \A i \in Fixed(g) : Remembers(f, g.inputs[i], img[g.inputs[i]].id)

WrittenRowsAreRemembered ==
    \A m \in 1..Len(stack) : \A k \in (m + 1)..Len(stack) :
        stack[m].kind = "statement" /\ stack[k].kind = "statement" =>
            RemembersWrites(stack[k], stack[m], image)

DmlTruth ==
    /\ IdsGrow(checkpoints, db)
    /\ WrittenRowsAreKnown
    /\ WrittenRowsAreRemembered

-----------------------------------------------------------------------------
(* What failure leaves                                                     *)

\* The SObjects a frame is about.
Subjects(f) ==
    IF f.kind = "statement" THEN {f.inputs[i] : i \in Given(f)}
    ELSE IF f.kind = "trigger" THEN f.context ELSE Handles

FramesAreConfined ==
    \A m \in 1..Len(stack) : \A k \in (m + 1)..Len(stack) :
        stack[m].kind = "statement" => Subjects(stack[k]) \subseteq GroupOf(stack[m]) \cup Globals

IsUnsettled(f, i) == i \in DOMAIN f.outcomes => f.outcomes[i] # "OK"

\* A statement remembers, or has in place, what such a row's SObject was.
KeepsOriginals(f, img) ==
    f.stage # "failing" => \A i \in Given(f) :
        IsAlone(f, i) /\ IsUnsettled(f, i) =>
            f.originals[f.inputs[i]] =
                IF f.stage \in OpenStages /\ i \in f.group THEN f.held[f.inputs[i]]
                ELSE img[f.inputs[i]]

OriginalsAreKept ==
    \A m \in 1..Len(stack) : stack[m].kind = "statement" => KeepsOriginals(stack[m], image)

DmlKeeping ==
    /\ FramesAreConfined
    /\ OriginalsAreKept

-----------------------------------------------------------------------------
(* Rows                                                                    *)

LEMMA PutInTable ==
    ASSUME NEW t \in Tables, NEW id \in Ids, NEW r \in StoredRecords
    PROVE  Put(t, id, r) \in Tables /\ DOMAIN Put(t, id, r) = DOMAIN t \cup {id}
<1>1. PICK S \in SUBSET Ids : t \in [S -> StoredRecords]
  BY DEF Tables
<1>2. Put(t, id, r) \in [S \cup {id} -> StoredRecords] /\ S \cup {id} \in SUBSET Ids
  BY <1>1 DEF Put
<1> QED
  BY <1>1, <1>2 DEF Tables, Put

LEMMA DropFromTable ==
    ASSUME NEW t \in Tables, NEW id
    PROVE  Drop(t, id) \in Tables /\ DOMAIN Drop(t, id) = DOMAIN t \ {id}
<1>1. PICK S \in SUBSET Ids : t \in [S -> StoredRecords]
  BY DEF Tables
<1>2. Drop(t, id) \in [S \ {id} -> StoredRecords] /\ S \ {id} \in SUBSET Ids
  BY <1>1 DEF Drop, Restrict
<1> QED
  BY <1>1, <1>2 DEF Tables, Drop, Restrict

LEMMA InTable ==
    ASSUME NEW t \in Tables, NEW id \in DOMAIN t
    PROVE  id \in Ids /\ t[id] \in StoredRecords
BY DEF Tables

\* Overwriting a stored record with carried fields; a stored record carries all.
LEMMA MergedRecord ==
    ASSUME NEW stored \in StoredRecords, NEW carried \in CarriedFields
    PROVE  Merge(stored, carried) \in StoredRecords
BY DEF Merge, StoredRecords, CarriedFields

LEMMA StoredAreCarried == StoredRecords \subseteq CarriedFields
BY DEF StoredRecords, CarriedFields

LEMMA BlankIsStored == Blank \in StoredRecords
BY DEF Blank, StoredRecords

LEMMA DatabaseParts ==
    ASSUME NEW d \in Databases
    PROVE  /\ d.live \in Tables /\ d.bin \in Tables /\ d.sequence \in [Objects -> Nat]
           /\ \A t \in Tables :
                  /\ [d EXCEPT !.live = t] \in Databases
                  /\ [d EXCEPT !.live = t].live = t /\ [d EXCEPT !.live = t].bin = d.bin
                  /\ [d EXCEPT !.bin = t] \in Databases
                  /\ [d EXCEPT !.bin = t].bin = t /\ [d EXCEPT !.bin = t].live = d.live
           /\ Known(d) \subseteq Ids
BY InTable DEF Databases, Known

\* A row of an SObject.
IsRow(row) == row.object = object /\ row.id \in Ids \cup {Null} /\ row.fields \in CarriedFields

\* What one row does to a database d: no Id is forgotten, and a row that is
\* written has one of those known, its own if it had one.
Keeps(d, row, result) ==
    /\ result.db \in Databases /\ Known(d) \subseteq Known(result.db)
    /\ result.status \in RowStatuses
    /\ result.status = "OK" =>
           result.id \in Known(result.db) /\ (row.id # Null => result.id = row.id)

LEMMA Refused ==
    ASSUME NEW d \in Databases, NEW e \in Databases, Known(d) \subseteq Known(e), NEW row,
           NEW status \in RowStatuses, status # "OK"
    PROVE  Keeps(d, row, Failure(e, status)) /\ Failure(e, status).status # "OK"
BY DEF Keeps, Failure

\* d is the database before the row, e the one the record is written over.
LEMMA Validated ==
    ASSUME NEW d \in Databases, NEW e \in Databases, NEW refused \in Databases, NEW row,
           NEW id \in Ids, NEW r \in StoredRecords,
           Known(d) \subseteq Known(refused), Known(d) \subseteq Known(e) \cup {id},
           row.id # Null => row.id = id
    PROVE  LET result == ValidateAndWrite(e, refused, id, r)
           IN  /\ Keeps(d, row, result)
               /\ result.status = "OK" => result.id \in DOMAIN result.db.live
<1>1. CASE MissingRequired(r)
  <2>1. ValidateAndWrite(e, refused, id, r) = Failure(refused, "REQUIRED_FIELD_MISSING")
    BY <1>1 DEF ValidateAndWrite
  <2> QED
    BY <2>1, Refused DEF RowStatuses, Statuses
<1>2. CASE ~MissingRequired(r) /\ Duplicate(e, id, r)
  <2>1. ValidateAndWrite(e, refused, id, r) = Failure(refused, "DUPLICATE_VALUE")
    BY <1>2 DEF ValidateAndWrite
  <2> QED
    BY <2>1, Refused DEF RowStatuses, Statuses
<1>3. CASE ~MissingRequired(r) /\ ~Duplicate(e, id, r)
  <2> DEFINE f == [e EXCEPT !.live = Put(e.live, id, r)]
  <2>1. ValidateAndWrite(e, refused, id, r) = Success(f, id)
    BY <1>3 DEF ValidateAndWrite
  <2>2. Put(e.live, id, r) \in Tables /\ DOMAIN Put(e.live, id, r) = DOMAIN e.live \cup {id}
    BY PutInTable, DatabaseParts
  <2>3. f \in Databases /\ f.live = Put(e.live, id, r) /\ f.bin = e.bin
    <3> DEFINE live == Put(e.live, id, r)
    <3>1. live \in Tables
      BY <2>2
    <3> HIDE DEF live
    <3>2. LET g == [e EXCEPT !.live = live]
          IN  g \in Databases /\ g.live = live /\ g.bin = e.bin
      BY <3>1, DatabaseParts, ZenonT(60)
    <3> QED
      BY <3>2 DEF live
  <2> HIDE DEF f
  <2>4. Known(d) \subseteq Known(f) /\ id \in DOMAIN f.live /\ id \in Known(f)
    BY <2>2, <2>3 DEF Known
  <2> QED
    BY <2>1, <2>3, <2>4 DEF Success, Keeps, RowStatuses, Statuses
<1> QED
  BY <1>1, <1>2, <1>3

LEMMA RowKeeps ==
    ASSUME NEW d \in Databases, NEW row, IsRow(row), NEW op \in GroupOps,
           DrawsId(op, row) => CanDraw(d, object)
    PROVE  LET result == RowResult(d, op, row)
           IN  /\ Keeps(d, row, result)
               /\ result.status = "OK" /\ op \in {"update", "undelete"} =>
                      result.id \in DOMAIN result.db.live
<1> USE DEF IsRow
<1>1. CASE op = "insert"
  <2>1. CASE row.id # Null
    <3>1. RowResult(d, op, row) = Failure(d, "INVALID_FIELD_FOR_INSERT_UPDATE")
      BY <1>1, <2>1 DEF RowResult, InsertRow
    <3> QED
      BY <3>1, Refused DEF RowStatuses, Statuses
  <2>2. CASE row.id = Null
    <3> DEFINE n == NextNumber(d, object)
               e == [d EXCEPT !.sequence[object] = n]
    <3>1. n \in 1..MaxSequence
      BY <1>1, <2>2 DEF DrawsId, CanDraw, NextNumber
    <3>2. n \in Nat /\ object \in Objects
      BY <3>1, RecordsAssumption, DmlEngineAssumption
    <3>3. e \in Databases /\ e.live = d.live /\ e.bin = d.bin /\ <<object, n>> \in Ids
      BY <3>2 DEF Databases, Ids
    <3>4. Merge(Blank, row.fields) \in StoredRecords
      BY BlankIsStored, MergedRecord
    <3>5. RowResult(d, op, row) = ValidateAndWrite(e, e, <<object, n>>, Merge(Blank, row.fields))
      BY <1>1, <2>2 DEF RowResult, InsertRow, InsertNew
    <3> HIDE DEF e, n
    <3>6. Known(e) = Known(d)
      BY <3>3 DEF Known
    <3>7. Keeps(d, row, ValidateAndWrite(e, e, <<object, n>>, Merge(Blank, row.fields)))
      BY <2>2, <3>3, <3>4, <3>6, Validated
    <3> QED
      BY <1>1, <3>5, <3>7
  <2> QED
    BY <2>1, <2>2
<1>2. CASE op = "update"
  <2>1. CASE row.id \notin DOMAIN d.live
    <3>1. RowResult(d, op, row) = Failure(d, "INVALID_CROSS_REFERENCE_KEY")
      BY <1>2, <2>1 DEF RowResult, UpdateRow
    <3> QED
      BY <3>1, Refused DEF RowStatuses, Statuses
  <2>2. CASE row.id \in DOMAIN d.live
    <3>1. row.id \in Ids /\ d.live[row.id] \in StoredRecords
      BY <2>2, InTable, DatabaseParts
    <3>2. Merge(d.live[row.id], row.fields) \in StoredRecords
      BY <3>1, MergedRecord
    <3>3. RowResult(d, op, row)
            = ValidateAndWrite(d, d, row.id, Merge(d.live[row.id], row.fields))
      BY <1>2, <2>2 DEF RowResult, UpdateRow
    <3> QED
      BY <3>1, <3>2, <3>3, Validated
  <2> QED
    BY <2>1, <2>2
<1>3. CASE op = "delete"
  <2>1. CASE row.id \notin DOMAIN d.live
    <3>1. RowResult(d, op, row) = Failure(d, "INVALID_CROSS_REFERENCE_KEY")
      BY <1>3, <2>1 DEF RowResult, DeleteRow
    <3> QED
      BY <3>1, Refused DEF RowStatuses, Statuses
  <2>2. CASE row.id \in DOMAIN d.live
    <3> DEFINE live == Drop(d.live, row.id)
               bin == Put(d.bin, row.id, d.live[row.id])
               e == [d EXCEPT !.live = live, !.bin = bin]
    <3>1. row.id \in Ids /\ d.live[row.id] \in StoredRecords
      BY <2>2, InTable, DatabaseParts
    <3>2. live \in Tables /\ DOMAIN live = DOMAIN d.live \ {row.id}
      BY DropFromTable, DatabaseParts
    <3>3. bin \in Tables /\ DOMAIN bin = DOMAIN d.bin \cup {row.id}
      BY <3>1, PutInTable, DatabaseParts, ZenonT(60)
    <3> HIDE DEF live, bin
    <3>4. e \in Databases /\ e.live = live /\ e.bin = bin
      BY <3>2, <3>3 DEF Databases
    <3>5. RowResult(d, op, row) = Success(e, row.id)
      BY <1>3, <2>2 DEF RowResult, DeleteRow, live, bin
    <3> HIDE DEF e
    <3> QED
      BY <1>3, <3>2, <3>3, <3>4, <3>5 DEF Keeps, Known, Success, RowStatuses, Statuses
  <2> QED
    BY <2>1, <2>2
<1>4. CASE op = "undelete"
  <2>1. CASE row.id \notin DOMAIN d.bin
    <3>1. RowResult(d, op, row) = Failure(d, "INVALID_CROSS_REFERENCE_KEY")
      BY <1>4, <2>1 DEF RowResult, UndeleteRow
    <3> QED
      BY <3>1, Refused DEF RowStatuses, Statuses
  <2>2. CASE row.id \in DOMAIN d.bin
    <3> DEFINE bin == Drop(d.bin, row.id)
               e == [d EXCEPT !.bin = bin]
    <3>1. row.id \in Ids /\ d.bin[row.id] \in StoredRecords
      BY <2>2, InTable, DatabaseParts
    <3>2. Merge(d.bin[row.id], row.fields) \in StoredRecords
      BY <3>1, MergedRecord
    <3>3. bin \in Tables /\ DOMAIN bin = DOMAIN d.bin \ {row.id}
      BY DropFromTable, DatabaseParts
    <3>4. RowResult(d, op, row)
            = ValidateAndWrite(e, d, row.id, Merge(d.bin[row.id], row.fields))
      BY <1>4, <2>2 DEF RowResult, UndeleteRow
    <3> HIDE DEF bin
    <3>5. e \in Databases /\ e.live = d.live /\ e.bin = bin
      BY <3>3, DatabaseParts, ZenonT(60)
    <3> HIDE DEF e
    <3>6. Known(d) \subseteq Known(e) \cup {row.id}
      BY <3>3, <3>5 DEF Known
    <3> QED
      BY <3>1, <3>2, <3>4, <3>5, <3>6, Validated
  <2> QED
    BY <2>1, <2>2
<1> QED
  BY <1>1, <1>2, <1>3, <1>4 DEF GroupOps

\* A row that passes its preflight has an operation, and keeps the Id it has.
LEMMA PreparedRow ==
    ASSUME NEW d \in Databases, NEW row, IsRow(row), NEW op \in Operations,
           PrepareRow(d, op, ExternalId, row).status = "OK"
    PROVE  LET ready == PrepareRow(d, op, ExternalId, row)
           IN  /\ ready \in Preparations
               /\ row.id # Null /\ ready.new # NoImage => ready.new.id = row.id
<1> USE DEF IsRow
<1>1. \A status : status # "OK" => Denied(status).status # "OK"
  BY DEF Denied
<1>2. /\ PrepareInsert(row) \in Preparations
      /\ PrepareInsert(row).new.id = row.id
  BY DEF PrepareInsert, Ready, Preparations, GroupOps, Images
<1>3. ASSUME NEW id \in DOMAIN d.live
      PROVE  /\ PrepareUpdate(d, id, row) \in Preparations
             /\ row.id # Null => PrepareUpdate(d, id, row).new.id = row.id
  <2>1. id \in Ids /\ Merge(d.live[id], row.fields) \in CarriedFields
    BY <1>3, InTable, DatabaseParts, MergedRecord, StoredAreCarried
  <2>2. [id |-> IF row.id = Null THEN id ELSE row.id, fields |-> Merge(d.live[id], row.fields)]
            \in Images
    BY <2>1 DEF Images
  <2> QED
    BY <2>2 DEF PrepareUpdate, Ready, Preparations, GroupOps
<1>4. CASE op = "insert"
  BY <1>1, <1>2, <1>4 DEF PrepareRow
<1>5. CASE op = "update"
  BY <1>1, <1>3, <1>5 DEF PrepareRow
<1>6. CASE op = "upsert" /\ ExternalId # Null
  <2> DEFINE matches == Matches(d, ExternalId, row)
  <2>1. matches \subseteq DOMAIN d.live
    BY DEF Matches
  <2>2. PrepareRow(d, op, ExternalId, row) = PrepareUpsertByKey(d, ExternalId, row)
    BY <1>6 DEF PrepareRow
  <2>3. ~(ExternalId \notin DOMAIN row.fields \/ row.fields[ExternalId] = Null)
    BY <1>1, <2>2 DEF PrepareUpsertByKey
  <2>4. CASE matches = {}
    BY <1>2, <2>2, <2>3, <2>4 DEF PrepareUpsertByKey
  <2>5. CASE matches # {}
    <3>1. (CHOOSE id \in matches : TRUE) \in DOMAIN d.live
      BY <2>1, <2>5
    <3>2. OneMatch(matches)
      BY <1>1, <2>2, <2>3, <2>5 DEF PrepareUpsertByKey
    <3>3. PrepareRow(d, op, ExternalId, row)
            = PrepareUpdate(d, CHOOSE id \in matches : TRUE, row)
      BY <2>2, <2>3, <2>5, <3>2 DEF PrepareUpsertByKey
    <3> QED
      BY <1>3, <3>1, <3>3
  <2> QED
    BY <2>4, <2>5
<1>7. CASE op = "upsert" /\ ExternalId = Null
  BY <1>2, <1>3, <1>7 DEF PrepareRow
<1>8. CASE op = "delete"
  BY <1>1, <1>8 DEF PrepareRow, Ready, Preparations, GroupOps
<1>9. CASE op = "undelete"
  <2>1. row.id \in DOMAIN d.bin
    BY <1>1, <1>9 DEF PrepareRow
  <2>2. row.id \in Ids /\ d.bin[row.id] \in CarriedFields
    BY <2>1, InTable, DatabaseParts, StoredAreCarried
  <2>3. [id |-> row.id, fields |-> d.bin[row.id]] \in Images
    BY <2>2 DEF Images
  <2> QED
    BY <1>9, <2>1, <2>3 DEF PrepareRow, Ready, Preparations, GroupOps
<1> QED
  BY <1>4, <1>5, <1>6, <1>7, <1>8, <1>9 DEF Operations
-----------------------------------------------------------------------------
(* The stack and what is counted on it                                     *)

LEMMA FrontProperties ==
    ASSUME NEW S, NEW s \in Seq(S), s # <<>>
    PROVE  /\ Len(s) \in Nat \ {0} /\ s[Len(s)] \in S
           /\ Front(s) \in Seq(S) /\ Len(Front(s)) = Len(s) - 1
           /\ \A i \in 1..(Len(s) - 1) : Front(s)[i] = s[i]
<1>1. Len(s) \in Nat \ {0} /\ \A i \in 1..Len(s) : s[i] \in S
  BY ElementOfSeq, EmptySeq
<1> DEFINE n == Len(s) - 1
<1>2. n \in Nat /\ \A i \in 1..n : s[i] \in S
  BY <1>1
<1> HIDE DEF n
<1>3. /\ SubSeq(s, 1, n) \in Seq(S) /\ Len(SubSeq(s, 1, n)) = n
      /\ \A i \in 1..n : SubSeq(s, 1, n)[i] = s[i]
  BY <1>2, SubSeqProperties
<1> QED
  BY <1>1, <1>3 DEF Front, n

LEMMA Appended ==
    ASSUME NEW S, NEW s \in Seq(S), NEW f \in S
    PROVE  /\ Len(s) \in Nat
           /\ Append(s, f) \in Seq(S) /\ Len(Append(s, f)) = Len(s) + 1
           /\ \A i \in 1..Len(s) : Append(s, f)[i] = s[i]
           /\ Append(s, f)[Len(s) + 1] = f
           /\ Append(s, f) # <<>>
BY LenProperties, AppendProperties, EmptySeq

LEMMA Shortened ==
    ASSUME NEW S, NEW s \in Seq(S), NEW n \in Nat, Len(s) = n + 1
    PROVE  /\ Front(s) \in Seq(S) /\ Len(Front(s)) = n
           /\ \A i \in 1..n : Front(s)[i] = s[i]
<1>1. s # <<>> /\ Len(s) - 1 = n
  BY EmptySeq
<1> QED
  BY <1>1, FrontProperties

\* A nonempty stack is what is below its top, and its top.
LEMMA TopAndBelow ==
    ASSUME NEW S, NEW s \in Seq(S), s # <<>>
    PROVE  s = Append(Front(s), s[Len(s)])
<1>1. /\ Len(s) \in Nat \ {0} /\ s[Len(s)] \in S
      /\ Front(s) \in Seq(S) /\ Len(Front(s)) = Len(s) - 1
      /\ \A i \in 1..(Len(s) - 1) : Front(s)[i] = s[i]
  BY FrontProperties
<1>2. \A i \in 1..Len(s) : s[i] = Append(Front(s), s[Len(s)])[i]
  BY <1>1, Appended
<1> QED
  BY <1>1, <1>2, Appended, SeqEqual

LEMMA CountAppend ==
    ASSUME NEW s \in Seq(Frames), NEW f \in Frames, NEW K
    PROVE  /\ Count(s, K) \in Nat
           /\ Count(Append(s, f), K) = Count(s, K) + (IF f \in K THEN 1 ELSE 0)
<1> DEFINE C(t) == {i \in 1..Len(t) : t[i] \in K}
<1>1. /\ Len(s) \in Nat /\ Len(Append(s, f)) = Len(s) + 1
      /\ \A i \in 1..Len(s) : Append(s, f)[i] = s[i]
      /\ Append(s, f)[Len(s) + 1] = f
  BY Appended
<1>2. Count(s, K) = Cardinality(C(s)) /\ Count(Append(s, f), K) = Cardinality(C(Append(s, f)))
  BY DEF Count
<1>3. IsFiniteSet(C(s))
  <2>1. IsFiniteSet(1..Len(s))
    BY <1>1, FS_Interval
  <2> QED
    BY <2>1, FS_Subset
<1>4. Cardinality(C(s)) \in Nat
  BY <1>3, FS_CardinalityType
<1>5. CASE f \in K
  <2>1. C(Append(s, f)) = C(s) \cup {Len(s) + 1}
    BY <1>1, <1>5
  <2>2. Len(s) + 1 \notin C(s)
    BY <1>1
  <2> HIDE DEF C
  <2>3. Cardinality(C(Append(s, f))) = Cardinality(C(s)) + 1
    BY <1>3, <2>1, <2>2, FS_AddElement
  <2> QED
    BY <1>2, <1>4, <1>5, <2>3
<1>6. CASE f \notin K
  <2>1. C(Append(s, f)) = C(s)
    BY <1>1, <1>6
  <2> HIDE DEF C
  <2> QED
    BY <1>2, <1>4, <1>6, <2>1
<1> QED
  BY <1>5, <1>6

LEMMA CountEmpty == ASSUME NEW K PROVE Count(<<>>, K) = 0
<1>1. {i \in 1..Len(<<>>) : <<>>[i] \in K} = {}
  OBVIOUS
<1> QED
  BY <1>1, FS_EmptySet DEF Count

\* The counts of the property are those of the kinds of frames.
LEMMA CountedKinds ==
    ASSUME NEW s \in Seq(Frames)
    PROVE  /\ Cardinality({i \in DOMAIN s : IsStatement(s[i])}) = Count(s, AllStatements)
           /\ Cardinality({i \in DOMAIN s : HasOpenAttempt(s[i])}) = Count(s, OpenAttempts)
           /\ Cardinality({i \in DOMAIN s : HasOpenScope(s[i])}) = Count(s, OpenScopes)
           /\ Cardinality({i \in DOMAIN s : IsTriggerBody(s[i])}) = Count(s, Bodies)
           /\ UNION {s[i].context : i \in {j \in DOMAIN s :
                         IsTriggerBody(s[j]) /\ s[j].phase = "after"}} = ReadOnlyOf(s, Len(s))
<1>1. DOMAIN s = 1..Len(s) /\ \A i \in 1..Len(s) : s[i] \in Frames
  BY LenProperties, ElementOfSeq
<1>2. /\ {i \in DOMAIN s : IsStatement(s[i])} = {i \in 1..Len(s) : s[i] \in AllStatements}
      /\ {i \in DOMAIN s : HasOpenAttempt(s[i])} = {i \in 1..Len(s) : s[i] \in OpenAttempts}
      /\ {i \in DOMAIN s : HasOpenScope(s[i])} = {i \in 1..Len(s) : s[i] \in OpenScopes}
      /\ {i \in DOMAIN s : IsTriggerBody(s[i])} = {i \in 1..Len(s) : s[i] \in Bodies}
  BY <1>1 DEF AllStatements, OpenAttempts, OpenScopes, Bodies
<1>3. {j \in DOMAIN s : IsTriggerBody(s[j]) /\ s[j].phase = "after"}
        = {j \in 1..Len(s) : s[j].kind = "trigger" /\ s[j].phase = "after"}
  BY <1>1 DEF IsTriggerBody
<1> QED
  BY <1>2, <1>3 DEF Count, ReadOnlyOf

LEMMA StructureGivesHost == DmlStructure => HostFollowsStack
<1> SUFFICES ASSUME DmlStructure PROVE HostFollowsStack
  OBVIOUS
<1>1. stack \in Seq(Frames)
  BY DEF DmlStructure, DmlTypes
<1> QED
  BY <1>1, CountedKinds DEF DmlStructure, IsStructured, IsCounted, HostFollowsStack, FramesThat

\* What is said of the frame at a height is said of those up to it.
LEMMA Agreement ==
    ASSUME NEW s, NEW t, NEW m \in Nat, \A i \in 1..m : s[i] = t[i]
    PROVE  /\ Scopes(s, m) = Scopes(t, m)
           /\ ReadOnlyOf(s, m) = ReadOnlyOf(t, m)
           /\ m > 0 => (IsNested(s, m) <=> IsNested(t, m))
<1>1. ASSUME NEW n \in 0..m PROVE ReadOnlyOf(s, n) = ReadOnlyOf(t, n)
  BY DEF ReadOnlyOf
<1>2. Scopes(s, m) = Scopes(t, m)
  BY DEF Scopes
<1>3. ASSUME m > 0 PROVE IsNested(s, m) <=> IsNested(t, m)
  <2>1. s[m] = t[m] /\ ReadOnlyOf(s, m - 1) = ReadOnlyOf(t, m - 1)
    BY <1>1, <1>3
  <2>2. CASE m = 1
    <3>1. s[1] = t[1] /\ m - 1 = 0
      BY <2>1, <2>2
    <3> QED
      BY <2>1, <2>2, <3>1 DEF IsNested
  <2>3. CASE m > 1
    <3>1. s[m - 1] = t[m - 1]
      BY <2>3
    <3> QED
      BY <2>1, <3>1 DEF IsNested
  <2> QED
    BY <1>3, <2>2, <2>3
<1> QED
  BY <1>1, <1>2, <1>3
-----------------------------------------------------------------------------
(* What a step does to the stack, and to what follows it                   *)

LEMMA KindsOfFrames ==
    ASSUME NEW f \in Frames
    PROVE  /\ f.kind \in {"entry", "statement", "trigger"}
           /\ f.kind = "statement" => f \in StatementFrames
           /\ f.kind = "trigger" => f \in TriggerFrames
BY DEF Frames, EntryFrames, StatementFrames, TriggerFrames

\* The frame on top, and the stack without it.
LEMMA TopFrame ==
    ASSUME DmlTypes, stack # <<>>
    PROVE  /\ Len(stack) \in Nat \ {0} /\ Top \in Frames /\ Top = stack[Len(stack)]
           /\ Below \in Seq(Frames) /\ Len(Below) = Len(stack) - 1
           /\ \A i \in 1..(Len(stack) - 1) : Below[i] = stack[i]
           /\ stack = Append(Below, Top)
           /\ Top.kind = "statement" => Top \in StatementFrames
           /\ Top.kind = "trigger" => Top \in TriggerFrames
<1>1. stack \in Seq(Frames)
  BY DEF DmlTypes
<1> QED
  BY <1>1, FrontProperties, TopAndBelow, KindsOfFrames DEF Top, Below

\* The scopes below a height are at most those of the stack, and the scope of a
\* frame is one of those up to it.
LEMMA ScopesAreCounted ==
    ASSUME NEW s \in Seq(Frames), NEW m \in 1..Len(s)
    PROVE  /\ Cardinality(Scopes(s, m)) \in Nat
           /\ Cardinality(Scopes(s, m)) <= Count(s, OpenScopes)
           /\ HasOpenScope(s[m]) => Cardinality(Scopes(s, m)) > 0
           /\ Cardinality(Scopes(s, Len(s))) = Count(s, OpenScopes)
<1>1. Len(s) \in Nat /\ \A i \in 1..Len(s) : s[i] \in Frames
  BY LenProperties, ElementOfSeq
<1>2. IsFiniteSet(1..Len(s))
  BY <1>1, FS_Interval
<1>3. Scopes(s, Len(s)) = {i \in 1..Len(s) : s[i] \in OpenScopes}
  BY <1>1 DEF Scopes, OpenScopes
<1>4. Scopes(s, m) \subseteq Scopes(s, Len(s)) /\ Scopes(s, Len(s)) \subseteq 1..Len(s)
  BY <1>1 DEF Scopes
<1>5. IsFiniteSet(Scopes(s, Len(s))) /\ IsFiniteSet(Scopes(s, m))
  BY <1>2, <1>4, FS_Subset
<1>6. /\ Cardinality(Scopes(s, m)) \in Nat
      /\ Cardinality(Scopes(s, m)) <= Cardinality(Scopes(s, Len(s)))
  BY <1>4, <1>5, FS_Subset, FS_CardinalityType
<1>7. HasOpenScope(s[m]) => Scopes(s, m) # {}
  <2>1. m \in 1..m
    BY <1>1
  <2> QED
    BY <2>1 DEF Scopes
<1>8. Cardinality(Scopes(s, m)) = 0 <=> Scopes(s, m) = {}
  BY <1>5, FS_EmptySet
<1> QED
  BY <1>3, <1>6, <1>7, <1>8 DEF Count

\* One frame more keeps what is said of those below it.
LEMMA OneMore ==
    ASSUME NEW s \in Seq(Frames), NEW f \in Frames, NEW t, t = Append(s, f)
    PROVE  /\ Len(s) \in Nat /\ t \in Seq(Frames) /\ Len(t) = Len(s) + 1 /\ t # <<>>
           /\ t[Len(s) + 1] = f
           /\ \A m \in 1..Len(s) :
                  /\ t[m] = s[m]
                  /\ IsNested(t, m) <=> IsNested(s, m)
                  /\ Scopes(t, m) = Scopes(s, m)
           /\ ReadOnlyOf(t, Len(s)) = ReadOnlyOf(s, Len(s))
<1>1. /\ Len(s) \in Nat /\ t \in Seq(Frames) /\ Len(t) = Len(s) + 1 /\ t # <<>>
      /\ t[Len(s) + 1] = f /\ \A i \in 1..Len(s) : t[i] = s[i]
  BY Appended
<1>2. ASSUME NEW m \in 1..Len(s)
      PROVE  (IsNested(t, m) <=> IsNested(s, m)) /\ Scopes(t, m) = Scopes(s, m)
  <2>1. m \in Nat /\ m > 0 /\ \A i \in 1..m : t[i] = s[i]
    BY <1>1
  <2> QED
    BY <2>1, Agreement
<1>3. ReadOnlyOf(t, Len(s)) = ReadOnlyOf(s, Len(s))
  BY <1>1, Agreement, ZenonT(60)
<1> QED
  BY <1>1, <1>2, <1>3

\* Where a frame may stand.
StandsOn(s, f) ==
    /\ f.kind = "entry" <=> Len(s) = 0
    /\ f.kind = "statement" => s[Len(s)].kind # "statement"
    /\ f.kind = "trigger" =>
           /\ s[Len(s)].kind = "statement" /\ s[Len(s)].stage = f.phase
           /\ f.context \subseteq GroupOf(s[Len(s)])
           /\ f.saved = ReadOnlyOf(s, Len(s))

LEMMA NestedTop ==
    ASSUME NEW s \in Seq(Frames), NEW f \in Frames
    PROVE  IsNested(Append(s, f), Len(s) + 1) <=> StandsOn(s, f)
<1> DEFINE n == Len(s)
           t == Append(s, f)
<1>1. /\ n \in Nat /\ t[n + 1] = f /\ \A m \in 1..n : t[m] = s[m]
      /\ ReadOnlyOf(t, n) = ReadOnlyOf(s, n)
  BY OneMore
<1> HIDE DEF n, t
<1>2. n + 1 - 1 = n /\ (n + 1 = 1 <=> n = 0)
  BY <1>1
<1>3. IsNested(t, n + 1) <=>
         /\ f.kind = "entry" <=> n = 0
         /\ f.kind = "statement" => t[n].kind # "statement"
         /\ f.kind = "trigger" =>
                /\ t[n].kind = "statement" /\ t[n].stage = f.phase
                /\ f.context \subseteq GroupOf(t[n])
                /\ f.saved = ReadOnlyOf(s, n)
  BY <1>1, <1>2 DEF IsNested
<1>4. n # 0 => t[n] = s[n]
  BY <1>1
<1>5. IsNested(t, n + 1) <=> StandsOn(s, f)
  <2>1. CASE n = 0
    BY <1>3, <2>1 DEF StandsOn, n
  <2>2. CASE n # 0
    BY <1>3, <1>4, <2>2 DEF StandsOn, n
  <2> QED
    BY <2>1, <2>2
<1> QED
  BY <1>5 DEF n, t

\* What must hold of the frames below, whatever is on top: copies and bases
\* are at least as long as these frames need.
Carries(s, copies, bases) ==
    /\ s \in Seq(Frames) /\ copies \in Seq(Databases) /\ bases \in Seq(Nat)
    /\ StackIsOrderly(s)
    /\ \A m \in 1..Len(s) : s[m].kind = "statement" => copies[m] = s[m].start.db
    /\ BaselinesFollow(s, bases)

\* What the frame on top adds.
AddsTo(s, f, copies, bases, d, ro) ==
    /\ IsNested(Append(s, f), Len(s) + 1) /\ (f.kind = "statement" => IsOrderly(f))
    /\ Len(copies) = Len(s) + 1 + (IF HasOpenAttempt(f) THEN 1 ELSE 0)
    /\ f.kind = "statement" => copies[Len(s) + 1] = f.start.db
    /\ Count(s, AllStatements) + Count(s, OpenAttempts)
         + (IF f.kind = "statement" THEN 1 ELSE 0) = Len(s)
    /\ Len(bases) = Count(s, OpenScopes) + (IF HasOpenScope(f) THEN 1 ELSE 0)
    /\ HasOpenScope(f) => bases[Count(s, OpenScopes) + 1] = f.start.queries
    /\ d = Count(s, Bodies) + (IF f.kind = "trigger" THEN 1 ELSE 0)
    /\ ro = ReadOnlyOf(s, Len(s)) \cup
              (IF f.kind = "trigger" /\ f.phase = "after" THEN f.context ELSE {})

LEMMA CountTop ==
    ASSUME NEW s \in Seq(Frames), NEW f \in Frames
    PROVE  /\ Count(s, AllStatements) \in Nat /\ Count(s, OpenAttempts) \in Nat
           /\ Count(s, OpenScopes) \in Nat /\ Count(s, Bodies) \in Nat
           /\ Count(Append(s, f), AllStatements)
                = Count(s, AllStatements) + (IF f.kind = "statement" THEN 1 ELSE 0)
           /\ Count(Append(s, f), OpenAttempts)
                = Count(s, OpenAttempts) + (IF HasOpenAttempt(f) THEN 1 ELSE 0)
           /\ Count(Append(s, f), OpenScopes)
                = Count(s, OpenScopes) + (IF HasOpenScope(f) THEN 1 ELSE 0)
           /\ Count(Append(s, f), Bodies)
                = Count(s, Bodies) + (IF f.kind = "trigger" THEN 1 ELSE 0)
<1>1. /\ f \in AllStatements <=> f.kind = "statement"
      /\ f \in OpenAttempts <=> HasOpenAttempt(f)
      /\ f \in OpenScopes <=> HasOpenScope(f)
      /\ f \in Bodies <=> f.kind = "trigger"
  BY DEF AllStatements, OpenAttempts, OpenScopes, Bodies, IsStatement, IsTriggerBody
<1> QED
  BY <1>1, CountAppend

LEMMA ReadOnlyTop ==
    ASSUME NEW s \in Seq(Frames), NEW f \in Frames
    PROVE  ReadOnlyOf(Append(s, f), Len(s) + 1) = ReadOnlyOf(s, Len(s)) \cup
              (IF f.kind = "trigger" /\ f.phase = "after" THEN f.context ELSE {})
<1>1. /\ Len(s) \in Nat /\ Append(s, f)[Len(s) + 1] = f
      /\ \A m \in 1..Len(s) : Append(s, f)[m] = s[m]
  BY OneMore
<1>2. 1..(Len(s) + 1) = (1..Len(s)) \cup {Len(s) + 1}
  BY <1>1
<1> QED
  BY <1>1, <1>2 DEF ReadOnlyOf

\* The checkpoints, baselines and counts of a stack are the sum of what its
\* frames have.
LEMMA Composed ==
    ASSUME NEW s \in Seq(Frames), NEW f \in Frames, NEW copies, NEW bases, NEW d, NEW ro
    PROVE  IsStructured(Append(s, f), copies, bases, d, ro)
             <=> Carries(s, copies, bases) /\ AddsTo(s, f, copies, bases, d, ro)
<1> DEFINE t == Append(s, f)
           n == Len(s)
<1>1. /\ n \in Nat /\ t \in Seq(Frames) /\ Len(t) = n + 1 /\ t # <<>>
      /\ t[n + 1] = f
      /\ \A m \in 1..n : /\ t[m] = s[m]
                         /\ IsNested(t, m) <=> IsNested(s, m)
                         /\ Scopes(t, m) = Scopes(s, m)
  BY OneMore
<1>2. 1..(n + 1) = (1..n) \cup {n + 1}
  BY <1>1
<1> HIDE DEF t, n
<1>3. StackIsOrderly(t) <=>
         /\ StackIsOrderly(s)
         /\ IsNested(t, n + 1) /\ (f.kind = "statement" => IsOrderly(f))
  BY <1>1, <1>2 DEF StackIsOrderly, n
<1>4. ASSUME NEW m \in 1..n PROVE HasBaseline(t, bases, m) <=> HasBaseline(s, bases, m)
  BY <1>1 DEF HasBaseline
<1>5. Cardinality(Scopes(t, n + 1)) = Count(t, OpenScopes)
  BY <1>1, ScopesAreCounted
<1>6. BaselinesFollow(t, bases) <=>
         /\ BaselinesFollow(s, bases)
         /\ HasOpenScope(f) => bases[Count(t, OpenScopes)] = f.start.queries
  BY <1>1, <1>2, <1>4, <1>5 DEF BaselinesFollow, HasBaseline, n
<1>7. CheckpointsFollow(t, copies) <=>
         /\ Len(copies) = n + 1 + (IF HasOpenAttempt(f) THEN 1 ELSE 0)
         /\ \A m \in 1..n : s[m].kind = "statement" => copies[m] = s[m].start.db
         /\ f.kind = "statement" => copies[n + 1] = f.start.db
  BY <1>1, <1>2 DEF CheckpointsFollow
<1> DEFINE a == Count(s, AllStatements)
           b == Count(s, OpenAttempts)
           c == Count(s, OpenScopes)
           e == Count(s, Bodies)
<1>8. /\ a \in Nat /\ b \in Nat /\ c \in Nat /\ e \in Nat
      /\ Count(t, AllStatements) = a + (IF f.kind = "statement" THEN 1 ELSE 0)
      /\ Count(t, OpenAttempts) = b + (IF HasOpenAttempt(f) THEN 1 ELSE 0)
      /\ Count(t, OpenScopes) = c + (IF HasOpenScope(f) THEN 1 ELSE 0)
      /\ Count(t, Bodies) = e + (IF f.kind = "trigger" THEN 1 ELSE 0)
  BY CountTop DEF t
<1>9. ReadOnlyOf(t, n + 1) = ReadOnlyOf(s, n) \cup
              (IF f.kind = "trigger" /\ f.phase = "after" THEN f.context ELSE {})
  BY ReadOnlyTop DEF t, n
<1> HIDE DEF a, b, c, e
<1>10. ASSUME Len(copies) = n + 1 + (IF HasOpenAttempt(f) THEN 1 ELSE 0)
       PROVE  Len(copies) = 1 + Count(t, AllStatements) + Count(t, OpenAttempts)
                <=> a + b + (IF f.kind = "statement" THEN 1 ELSE 0) = n
  BY <1>1, <1>8, <1>10
<1>11. AddsTo(s, f, copies, bases, d, ro) <=>
         /\ IsNested(t, n + 1) /\ (f.kind = "statement" => IsOrderly(f))
         /\ Len(copies) = n + 1 + (IF HasOpenAttempt(f) THEN 1 ELSE 0)
         /\ f.kind = "statement" => copies[n + 1] = f.start.db
         /\ a + b + (IF f.kind = "statement" THEN 1 ELSE 0) = n
         /\ Len(bases) = Count(t, OpenScopes)
         /\ HasOpenScope(f) => bases[Count(t, OpenScopes)] = f.start.queries
         /\ d = Count(t, Bodies)
         /\ ro = ReadOnlyOf(t, n + 1)
  BY <1>8, <1>9 DEF AddsTo, t, n, a, b, c, e
<1>12. IsCounted(t, copies, bases, d, ro) <=>
         /\ Len(copies) = 1 + Count(t, AllStatements) + Count(t, OpenAttempts)
         /\ Len(bases) = Count(t, OpenScopes)
         /\ d = Count(t, Bodies)
         /\ ro = ReadOnlyOf(t, n + 1)
  BY <1>1 DEF IsCounted
<1>13. IsStructured(t, copies, bases, d, ro)
          <=> Carries(s, copies, bases) /\ AddsTo(s, f, copies, bases, d, ro)
  BY <1>1, <1>3, <1>6, <1>7, <1>10, <1>11, <1>12 DEF IsStructured, Carries, n
<1> QED
  BY <1>13 DEF t

\* The frames below keep what they have while their checkpoints and baselines do.
LEMMA CarriesMore ==
    ASSUME NEW s, NEW copies, NEW bases, Carries(s, copies, bases),
           NEW more \in Seq(Databases), \A m \in 1..Len(s) : more[m] = copies[m],
           NEW others \in Seq(Nat), \A i \in 1..Count(s, OpenScopes) : others[i] = bases[i]
    PROVE  Carries(s, more, others)
<1>1. s \in Seq(Frames) /\ Len(s) \in Nat
  BY LenProperties DEF Carries
<1>2. ASSUME NEW m \in 1..Len(s), HasBaseline(s, bases, m) PROVE HasBaseline(s, others, m)
  <2>1. HasOpenScope(s[m]) => Cardinality(Scopes(s, m)) \in 1..Count(s, OpenScopes)
    <3>1. Count(s, OpenScopes) \in Nat
      <4>1. s # <<>>
        BY <1>1
      <4>2. s[Len(s)] \in Frames
        BY <1>1, <4>1, FrontProperties
      <4> QED
        BY <1>1, <4>2, CountTop
    <3> QED
      BY <1>1, <3>1, ScopesAreCounted
  <2> QED
    BY <1>2, <2>1 DEF HasBaseline
<1>3. BaselinesFollow(s, others)
  BY <1>2 DEF Carries, BaselinesFollow
<1> QED
  BY <1>3 DEF Carries

\* The statement on top becomes f: its attempt and its retry scope open and
\* close with the checkpoint and the baseline that are theirs.
LEMMA Becoming ==
    ASSUME NEW s \in Seq(Frames), NEW g \in Frames, NEW f \in Frames,
           NEW copies, NEW bases, NEW d, NEW ro,
           IsStructured(Append(s, g), copies, bases, d, ro),
           g.kind = "statement", f.kind = "statement",
           IsOrderly(f), f.start.db = g.start.db,
           NEW now \in Databases, NEW more, NEW others, NEW count \in Nat, count = f.start.queries,
           \/ (HasOpenAttempt(f) <=> HasOpenAttempt(g)) /\ more = copies
           \/ HasOpenAttempt(f) /\ ~HasOpenAttempt(g) /\ more = Append(copies, now)
           \/ ~HasOpenAttempt(f) /\ HasOpenAttempt(g) /\ more = Front(copies),
           \/ /\ (HasOpenScope(f) <=> HasOpenScope(g)) /\ others = bases
              /\ HasOpenScope(f) => count = g.start.queries
           \/ HasOpenScope(f) /\ ~HasOpenScope(g) /\ others = Append(bases, count)
           \/ ~HasOpenScope(f) /\ HasOpenScope(g) /\ others = Front(bases)
    PROVE  IsStructured(Append(s, f), more, others, d, ro)
<1> DEFINE n == Len(s)
           c == Count(s, OpenScopes)
<1>1. Carries(s, copies, bases) /\ AddsTo(s, g, copies, bases, d, ro)
  BY Composed
<1>2. copies \in Seq(Databases) /\ bases \in Seq(Nat)
  BY <1>1 DEF Carries
<1>3. n \in Nat /\ c \in Nat
  BY CountTop, LenProperties
<1>4. /\ Len(copies) = n + 1 + (IF HasOpenAttempt(g) THEN 1 ELSE 0)
      /\ copies[n + 1] = g.start.db
      /\ Len(bases) = c + (IF HasOpenScope(g) THEN 1 ELSE 0)
      /\ HasOpenScope(g) => bases[c + 1] = g.start.queries
      /\ IsNested(Append(s, g), n + 1)
  BY <1>1 DEF AddsTo
<1> HIDE DEF n, c
<1>5. /\ more \in Seq(Databases)
      /\ Len(more) = n + 1 + (IF HasOpenAttempt(f) THEN 1 ELSE 0)
      /\ \A m \in 1..(n + 1) : more[m] = copies[m]
  <2>1. CASE (HasOpenAttempt(f) <=> HasOpenAttempt(g)) /\ more = copies
    BY <1>2, <1>4, <2>1
  <2>2. CASE HasOpenAttempt(f) /\ ~HasOpenAttempt(g) /\ more = Append(copies, now)
    BY <1>2, <1>3, <1>4, <2>2, Appended
  <2>3. CASE ~HasOpenAttempt(f) /\ HasOpenAttempt(g) /\ more = Front(copies)
    <3>1. n + 1 \in Nat /\ Len(copies) = (n + 1) + 1
      BY <1>3, <1>4, <2>3
    <3>2. /\ Front(copies) \in Seq(Databases) /\ Len(Front(copies)) = n + 1
          /\ \A m \in 1..(n + 1) : Front(copies)[m] = copies[m]
      BY <1>2, <3>1, Shortened
    <3> QED
      BY <1>3, <2>3, <3>2
  <2> QED
    BY <2>1, <2>2, <2>3
<1>6. /\ others \in Seq(Nat)
      /\ Len(others) = c + (IF HasOpenScope(f) THEN 1 ELSE 0)
      /\ \A i \in 1..c : others[i] = bases[i]
      /\ HasOpenScope(f) => others[c + 1] = f.start.queries
  <2>1. CASE /\ (HasOpenScope(f) <=> HasOpenScope(g)) /\ others = bases
             /\ HasOpenScope(f) => count = g.start.queries
    BY <1>2, <1>4, <2>1
  <2>2. CASE HasOpenScope(f) /\ ~HasOpenScope(g) /\ others = Append(bases, count)
    BY <1>2, <1>3, <1>4, <2>2, Appended
  <2>3. CASE ~HasOpenScope(f) /\ HasOpenScope(g) /\ others = Front(bases)
    <3>1. /\ Front(bases) \in Seq(Nat) /\ Len(Front(bases)) = c
          /\ \A i \in 1..c : Front(bases)[i] = bases[i]
      BY <1>2, <1>3, <1>4, <2>3, Shortened
    <3> QED
      BY <1>3, <2>3, <3>1
  <2> QED
    BY <2>1, <2>2, <2>3
<1>7. Carries(s, more, others)
  <2>1. \A m \in 1..n : more[m] = copies[m]
    BY <1>3, <1>5
  <2>2. /\ \A m \in 1..Len(s) : more[m] = copies[m]
        /\ \A i \in 1..Count(s, OpenScopes) : others[i] = bases[i]
    BY <1>6, <2>1 DEF n, c
  <2> QED
    BY <1>1, <1>5, <1>6, <2>2, CarriesMore
<1>8. IsNested(Append(s, f), n + 1)
  <2>1. StandsOn(s, g)
    BY <1>4, NestedTop DEF n
  <2>2. StandsOn(s, f)
    BY <2>1 DEF StandsOn
  <2> QED
    BY <2>2, NestedTop DEF n
<1>9. AddsTo(s, f, more, others, d, ro)
  BY <1>1, <1>3, <1>4, <1>5, <1>6, <1>8 DEF AddsTo, n, c
<1> QED
  BY <1>7, <1>9, Composed

\* A frame is entered: a statement takes a checkpoint, a trigger body stands on
\* the open attempt of a statement.
LEMMA Pushing ==
    ASSUME NEW s \in Seq(Frames), s # <<>>, NEW f \in Frames,
           NEW copies, NEW bases, NEW d, NEW ro, IsStructured(s, copies, bases, d, ro),
           StandsOn(s, f), ~HasOpenAttempt(f), ~HasOpenScope(f),
           NEW more, NEW depths, NEW only,
           \/ /\ f.kind = "statement" /\ IsOrderly(f) /\ f.start.db \in Databases
              /\ ~HasOpenAttempt(s[Len(s)]) /\ more = Append(copies, f.start.db)
              /\ depths = d /\ only = ro
           \/ /\ f.kind = "trigger" /\ HasOpenAttempt(s[Len(s)]) /\ more = copies
              /\ depths = d + 1
              /\ only = ro \cup (IF f.phase = "after" THEN f.context ELSE {})
    PROVE  IsStructured(Append(s, f), more, bases, depths, only)
<1> DEFINE n == Len(s)
           open == HasOpenAttempt(s[Len(s)])
           a == Count(s, AllStatements)
           b == Count(s, OpenAttempts)
<1>1. /\ copies \in Seq(Databases) /\ bases \in Seq(Nat)
      /\ StackIsOrderly(s) /\ BaselinesFollow(s, bases)
      /\ \A m \in 1..n : s[m].kind = "statement" => copies[m] = s[m].start.db
      /\ Len(copies) = n + (IF open THEN 1 ELSE 0)
      /\ Len(copies) = 1 + a + b
      /\ Len(bases) = Count(s, OpenScopes) /\ d = Count(s, Bodies) /\ ro = ReadOnlyOf(s, n)
  BY DEF IsStructured, CheckpointsFollow, IsCounted
<1>2. n \in Nat /\ a \in Nat /\ b \in Nat
  BY CountTop, LenProperties
<1>3. IsNested(Append(s, f), n + 1)
  BY NestedTop
<1> HIDE DEF n, a, b, open
<1>4. /\ more \in Seq(Databases) /\ Len(more) = n + 1
      /\ \A m \in 1..n : more[m] = copies[m]
      /\ f.kind = "statement" => more[n + 1] = f.start.db
      /\ a + b + (IF f.kind = "statement" THEN 1 ELSE 0) = n
  <2>1. CASE f.kind = "statement"
    <3>1. /\ f.start.db \in Databases /\ ~open /\ more = Append(copies, f.start.db)
      BY <2>1 DEF open
    <3>2. Len(copies) = n
      BY <1>1, <1>2, <3>1
    <3> QED
      BY <1>1, <1>2, <2>1, <3>1, <3>2, Appended
  <2>2. CASE f.kind = "trigger"
    <3>1. open /\ more = copies
      BY <2>2 DEF open
    <3> QED
      BY <1>1, <1>2, <2>2, <3>1
  <2> QED
    BY <2>1, <2>2
<1>5. Carries(s, copies, bases)
  BY <1>1 DEF Carries, n
<1>6. Carries(s, more, bases)
  BY <1>1, <1>4, <1>5, CarriesMore DEF n
<1>7. /\ depths = d + (IF f.kind = "trigger" THEN 1 ELSE 0)
      /\ only = ro \cup (IF f.kind = "trigger" /\ f.phase = "after" THEN f.context ELSE {})
      /\ f.kind = "statement" => IsOrderly(f)
  <2>1. d \in Nat
    BY <1>1, CountTop
  <2> QED
    BY <2>1
<1>8. AddsTo(s, f, more, bases, depths, only)
  <2>1. /\ Len(more) = n + 1 + (IF HasOpenAttempt(f) THEN 1 ELSE 0)
        /\ Len(bases) = Count(s, OpenScopes) + (IF HasOpenScope(f) THEN 1 ELSE 0)
    BY <1>1, <1>2, <1>4, CountTop
  <2> QED
    BY <1>1, <1>3, <1>4, <1>7, <2>1 DEF AddsTo, n, a, b
<1> QED
  BY <1>6, <1>8, Composed

\* A frame is left: a statement gives its checkpoint up, a trigger body gives
\* back the depth and the read-only set it found.
LEMMA Popping ==
    ASSUME NEW s \in Seq(Frames), s # <<>>, NEW f \in Frames,
           NEW copies, NEW bases, NEW d, NEW ro,
           IsStructured(Append(s, f), copies, bases, d, ro),
           ~HasOpenAttempt(f), ~HasOpenScope(f),
           NEW fewer, NEW depths, NEW only,
           \/ /\ f.kind = "statement" /\ fewer = Front(copies)
              /\ depths = d /\ only = ro
           \/ /\ f.kind = "trigger" /\ fewer = copies
              /\ depths = d - 1 /\ only = f.saved
    PROVE  IsStructured(s, fewer, bases, depths, only)
<1> DEFINE n == Len(s)
           open == HasOpenAttempt(s[Len(s)])
           a == Count(s, AllStatements)
           b == Count(s, OpenAttempts)
<1>1. Carries(s, copies, bases) /\ AddsTo(s, f, copies, bases, d, ro)
  BY Composed
<1>2. StandsOn(s, f)
  BY <1>1, NestedTop DEF AddsTo
<1>3. /\ n \in Nat \ {0} /\ s[n] \in Frames /\ a \in Nat /\ b \in Nat
      /\ Count(s, Bodies) \in Nat /\ Count(s, OpenScopes) \in Nat
  BY CountTop, FrontProperties
<1>4. /\ copies \in Seq(Databases) /\ bases \in Seq(Nat)
      /\ StackIsOrderly(s) /\ BaselinesFollow(s, bases)
      /\ \A m \in 1..n : s[m].kind = "statement" => copies[m] = s[m].start.db
  BY <1>1 DEF Carries
<1>5. /\ Len(copies) = n + 1
      /\ a + b + (IF f.kind = "statement" THEN 1 ELSE 0) = n
      /\ Len(bases) = Count(s, OpenScopes)
      /\ d = Count(s, Bodies) + (IF f.kind = "trigger" THEN 1 ELSE 0)
      /\ ro = ReadOnlyOf(s, n) \cup
              (IF f.kind = "trigger" /\ f.phase = "after" THEN f.context ELSE {})
  BY <1>1, <1>3 DEF AddsTo
<1>6. /\ f.kind = "statement" => ~open
      /\ f.kind = "trigger" => f.saved = ReadOnlyOf(s, n) /\ s[n].kind = "statement"
                                  /\ s[n].stage = f.phase
  BY <1>2 DEF StandsOn, HasOpenAttempt, IsStatement
<1>7. f.kind = "trigger" => open
  <2>1. f.kind = "trigger" => f.phase \in {"before", "after"}
    BY KindsOfFrames DEF TriggerFrames, Phases
  <2> QED
    BY <1>6, <2>1 DEF HasOpenAttempt, IsStatement
<1> HIDE DEF n, a, b, open
<1>8. /\ fewer \in Seq(Databases) /\ Len(fewer) = n + (IF open THEN 1 ELSE 0)
      /\ Len(fewer) = 1 + a + b
      /\ \A m \in 1..n : fewer[m] = copies[m]
  <2>1. CASE f.kind = "statement"
    <3>1. fewer = Front(copies) /\ ~open
      BY <1>6, <2>1
    <3>2. Front(copies) \in Seq(Databases) /\ Len(Front(copies)) = n
          /\ \A m \in 1..n : Front(copies)[m] = copies[m]
      BY <1>3, <1>4, <1>5, Shortened
    <3> QED
      BY <1>3, <1>5, <2>1, <3>1, <3>2
  <2>2. CASE f.kind = "trigger"
    BY <1>3, <1>4, <1>5, <1>7, <2>2
  <2> QED
    BY <2>1, <2>2
<1>9. CheckpointsFollow(s, fewer)
  BY <1>4, <1>8 DEF CheckpointsFollow, n, open
<1>10. depths = Count(s, Bodies) /\ only = ReadOnlyOf(s, n)
  <2>1. CASE f.kind = "statement"
    <3>1. depths = d /\ only = ro
      BY <2>1
    <3>2. d = Count(s, Bodies) /\ ro = ReadOnlyOf(s, n)
      BY <1>3, <1>5, <2>1
    <3> QED
      BY <3>1, <3>2
  <2>2. CASE f.kind = "trigger"
    <3>1. depths = d - 1 /\ only = f.saved
      BY <2>2
    <3> QED
      BY <1>3, <1>5, <1>6, <2>2, <3>1
  <2> QED
    BY <2>1, <2>2
<1>11. IsCounted(s, fewer, bases, depths, only)
  BY <1>5, <1>8, <1>10 DEF IsCounted, n, a, b
<1> QED
  BY <1>4, <1>8, <1>9, <1>11 DEF IsStructured

-----------------------------------------------------------------------------
(* The parts of a statement                                                *)

LEMMA StatementTypes ==
    ASSUME NEW f \in StatementFrames
    PROVE  /\ f.kind = "statement" /\ f.stage \in Stages /\ f.op \in Operations /\ f.atomic \in BOOLEAN
           /\ f.inputs \in Seq(Handles \cup {Null}) /\ f.originals \in SomeImages
           /\ f.outcomes \in SomeStatuses /\ f.ready \in SomePreparations
           /\ f.pending \in Seq(GroupOps) /\ f.group \in SUBSET Nat /\ f.attempt \in Nat
           /\ f.held \in SomeImages /\ f.results \in SomeStatuses
           /\ f.start.db \in Databases /\ f.start.queries \in Nat
           /\ DOMAIN f.inputs = 1..Len(f.inputs) /\ Len(f.inputs) \in Nat
           /\ \A i \in Given(f) : f.inputs[i] \in Handles
<1>1. /\ f.kind = "statement" /\ f.stage \in Stages /\ f.op \in Operations /\ f.atomic \in BOOLEAN
      /\ f.inputs \in Seq(Handles \cup {Null}) /\ f.originals \in SomeImages
      /\ f.outcomes \in SomeStatuses /\ f.ready \in SomePreparations
      /\ f.pending \in Seq(GroupOps) /\ f.group \in SUBSET Nat /\ f.attempt \in Nat
      /\ f.held \in SomeImages /\ f.results \in SomeStatuses
      /\ f.start.db \in Databases /\ f.start.queries \in Nat
  BY DEF StatementFrames
<1>2. /\ DOMAIN f.inputs = 1..Len(f.inputs) /\ Len(f.inputs) \in Nat
      /\ \A i \in 1..Len(f.inputs) : f.inputs[i] \in Handles \cup {Null}
  BY <1>1, LenProperties, ElementOfSeq
<1> QED
  BY <1>1, <1>2 DEF Given

\* Outcomes laid over others are those of both.
LEMMA OverStatuses ==
    ASSUME NEW f \in SomeStatuses, NEW g \in SomeStatuses
    PROVE  /\ Over(f, g) \in SomeStatuses
           /\ DOMAIN Over(f, g) = DOMAIN f \cup DOMAIN g
           /\ \A x \in DOMAIN f : Over(f, g)[x] = f[x]
           /\ \A x \in DOMAIN g \ DOMAIN f : Over(f, g)[x] = g[x]
<1>1. PICK S \in SUBSET Nat : f \in [S -> RowStatuses]
  BY DEF SomeStatuses
<1>2. PICK T \in SUBSET Nat : g \in [T -> RowStatuses]
  BY DEF SomeStatuses
<1>3. Over(f, g) \in [S \cup T -> RowStatuses] /\ S \cup T \in SUBSET Nat
  BY <1>1, <1>2 DEF Over
<1> QED
  BY <1>3 DEF Over, SomeStatuses

\* Images laid over those of all the SObjects.
LEMMA OverImages ==
    ASSUME NEW f \in SomeImages, NEW all \in [Handles -> Images]
    PROVE  /\ Over(f, all) \in [Handles -> Images]
           /\ \A h \in Handles : Over(f, all)[h] = IF h \in DOMAIN f THEN f[h] ELSE all[h]
<1>1. PICK S \in SUBSET Handles : f \in [S -> Images]
  BY DEF SomeImages
<1> QED
  BY <1>1 DEF Over

LEMMA RestrictImages ==
    ASSUME NEW all \in [Handles -> Images], NEW S \in SUBSET Handles
    PROVE  /\ Restrict(all, S) \in SomeImages /\ DOMAIN Restrict(all, S) = S
           /\ \A h \in S : Restrict(all, S)[h] = all[h]
<1>1. Restrict(all, S) \in [S -> Images]
  BY DEF Restrict
<1> QED
  BY <1>1 DEF SomeImages, Restrict

LEMMA RestrictStatuses ==
    ASSUME NEW f \in SomeStatuses, NEW S \in SUBSET DOMAIN f
    PROVE  /\ Restrict(f, S) \in SomeStatuses /\ DOMAIN Restrict(f, S) = S
           /\ \A i \in S : Restrict(f, S)[i] = f[i]
<1>1. PICK T \in SUBSET Nat : f \in [T -> RowStatuses]
  BY DEF SomeStatuses
<1>2. Restrict(f, S) \in [S -> RowStatuses] /\ S \in SUBSET Nat
  BY <1>1 DEF Restrict
<1> QED
  BY <1>2 DEF SomeStatuses, Restrict

LEMMA SomeOfNothing ==
    /\ <<>> \in SomeStatuses /\ <<>> \in SomeImages /\ <<>> \in SomePreparations
    /\ DOMAIN <<>> = {}
<1>1. DOMAIN <<>> = {} /\ <<>> = [x \in {} |-> x]
  OBVIOUS
<1>2. <<>> \in [{} -> RowStatuses] /\ <<>> \in [{} -> Images] /\ <<>> \in [{} -> Preparations]
  BY <1>1
<1>3. {} \in SUBSET Nat /\ {} \in SUBSET Handles
  OBVIOUS
<1> QED
  BY <1>1, <1>2, <1>3 DEF SomeStatuses, SomeImages, SomePreparations

LEMMA SomeParts ==
    /\ \A f \in SomeStatuses : DOMAIN f \subseteq Nat /\ \A i \in DOMAIN f : f[i] \in RowStatuses
    /\ \A f \in SomeImages : DOMAIN f \subseteq Handles /\ \A h \in DOMAIN f : f[h] \in Images
    /\ \A f \in SomePreparations : DOMAIN f \subseteq Nat /\ \A i \in DOMAIN f : f[i] \in Preparations
BY DEF SomeStatuses, SomeImages, SomePreparations

LEMMA PreparationParts ==
    ASSUME NEW p \in Preparations
    PROVE  p.status = "OK" /\ p.op \in GroupOps /\ (p.new # NoImage => p.new \in Images)
BY DEF Preparations

-----------------------------------------------------------------------------
(* One step of the structure                                               *)

LEMMA StatementOnTop ==
    ASSUME DmlStructure, stack # <<>>, IsStatement(Top)
    PROVE  /\ Top \in StatementFrames /\ IsOrderly(Top) /\ Below \in Seq(Frames)
           /\ IsStructured(Append(Below, Top), checkpoints, baselines, depth, readOnly)
           /\ StandsOn(Below, Top) /\ Below # <<>>
           /\ Len(checkpoints) = Len(stack) + (IF HasOpenAttempt(Top) THEN 1 ELSE 0)
           /\ checkpoints[Len(stack)] = Top.start.db
           /\ HasOpenScope(Top) => baselines # <<>> /\ Last(baselines) = Top.start.queries
<1>1. /\ Len(stack) \in Nat \ {0} /\ Top \in StatementFrames /\ Top \in Frames
      /\ Below \in Seq(Frames) /\ Len(Below) = Len(stack) - 1
      /\ stack = Append(Below, Top)
  BY TopFrame DEF DmlStructure, IsStatement
<1>2. IsStructured(Append(Below, Top), checkpoints, baselines, depth, readOnly)
  BY <1>1 DEF DmlStructure
<1>3. AddsTo(Below, Top, checkpoints, baselines, depth, readOnly)
  BY <1>1, <1>2, Composed
<1>4. Top.kind = "statement" /\ Len(Below) + 1 = Len(stack)
  BY <1>1 DEF IsStatement
<1>5. /\ IsOrderly(Top) /\ IsNested(Append(Below, Top), Len(Below) + 1)
      /\ Len(checkpoints) = Len(stack) + (IF HasOpenAttempt(Top) THEN 1 ELSE 0)
      /\ checkpoints[Len(stack)] = Top.start.db
      /\ Len(baselines) = Count(Below, OpenScopes) + (IF HasOpenScope(Top) THEN 1 ELSE 0)
      /\ HasOpenScope(Top) => baselines[Count(Below, OpenScopes) + 1] = Top.start.queries
  BY <1>3, <1>4 DEF AddsTo
<1>6. StandsOn(Below, Top)
  BY <1>1, <1>5, NestedTop
<1>7. Below # <<>>
  BY <1>4, <1>6 DEF StandsOn
<1>8. HasOpenScope(Top) => baselines # <<>> /\ Last(baselines) = Top.start.queries
  <2>1. baselines \in Seq(Nat) /\ Count(Below, OpenScopes) \in Nat
    BY <1>1, CountTop DEF DmlStructure, DmlTypes
  <2> QED
    BY <1>5, <2>1 DEF Last
<1> QED
  BY <1>1, <1>2, <1>5, <1>6, <1>7, <1>8

\* The host's units keep its databases.
LEMMA UnitTypes ==
    ASSUME DmlTypes
    PROVE  /\ BeginUnit => checkpoints' \in Seq(Databases)
           /\ checkpoints # <<>> /\ (CommitUnit \/ RollbackUnit) => db' \in Databases
<1>1. checkpoints \in Seq(Databases) /\ db \in Databases
  BY DEF DmlTypes
<1>2. BeginUnit => checkpoints' \in Seq(Databases)
  BY <1>1, Appended DEF BeginUnit
<1>3. checkpoints # <<>> => checkpoints[Len(checkpoints)] \in Databases
  BY <1>1, FrontProperties
<1> QED
  BY <1>1, <1>2, <1>3 DEF CommitUnit, RollbackUnit, Last

LEMMA BecomeStep ==
    ASSUME DmlStructure, stack # <<>>, IsStatement(Top), NEW f \in StatementFrames,
           stack' = Become(f), IsOrderly(f), f.start.db = Top.start.db,
           f.stage = "attempt" => queries' = f.start.queries,
           \/ (HasOpenAttempt(f) <=> HasOpenAttempt(Top)) /\ UNCHANGED <<checkpoints, db>>
           \/ (HasOpenAttempt(f) <=> HasOpenAttempt(Top)) /\ UNCHANGED checkpoints /\ db' \in Databases
           \/ HasOpenAttempt(f) /\ ~HasOpenAttempt(Top) /\ BeginUnit /\ UNCHANGED db
           \/ ~HasOpenAttempt(f) /\ HasOpenAttempt(Top) /\ (CommitUnit \/ RollbackUnit),
           \/ /\ (HasOpenScope(f) <=> HasOpenScope(Top)) /\ UNCHANGED baselines
              /\ HasOpenScope(f) => f.start.queries = Top.start.queries
           \/ HasOpenScope(f) /\ ~HasOpenScope(Top)
                  /\ baselines' = Append(baselines, f.start.queries)
           \/ ~HasOpenScope(f) /\ HasOpenScope(Top) /\ baselines' = Front(baselines),
           UNCHANGED <<depth, readOnly, fuel>>,
           image' \in [Handles -> Images], queries' \in Nat
    PROVE  DmlStructure'
<1>1. DmlTypes
  BY DEF DmlStructure
<1>2. /\ Top \in StatementFrames /\ Below \in Seq(Frames)
      /\ IsStructured(Append(Below, Top), checkpoints, baselines, depth, readOnly)
      /\ Len(stack) \in Nat \ {0}
      /\ Len(checkpoints) = Len(stack) + (IF HasOpenAttempt(Top) THEN 1 ELSE 0)
  BY <1>1, StatementOnTop, TopFrame
<1>3. /\ Top \in Frames /\ f \in Frames /\ Top.kind = "statement" /\ f.kind = "statement"
      /\ f.start.queries \in Nat
  BY <1>2 DEF Frames, StatementFrames
<1>4. db \in Databases /\ checkpoints # <<>>
  BY <1>1, <1>2 DEF DmlTypes
<1>5. db' \in Databases
  BY <1>1, <1>4, UnitTypes
<1>6. \/ (HasOpenAttempt(f) <=> HasOpenAttempt(Top)) /\ checkpoints' = checkpoints
      \/ HasOpenAttempt(f) /\ ~HasOpenAttempt(Top) /\ checkpoints' = Append(checkpoints, db)
      \/ ~HasOpenAttempt(f) /\ HasOpenAttempt(Top) /\ checkpoints' = Front(checkpoints)
  BY DEF BeginUnit, CommitUnit, RollbackUnit
<1>7. IsStructured(Append(Below, f), checkpoints', baselines', depth, readOnly)
  BY <1>2, <1>3, <1>4, <1>6, Becoming
<1>8. IsStructured(stack', checkpoints', baselines', depth', readOnly')
  BY <1>7 DEF Become
<1>9. Top' = f
  <2>1. Len(Append(Below, f)) = Len(Below) + 1 /\ Append(Below, f)[Len(Below) + 1] = f
    BY <1>2, <1>3, Appended
  <2> QED
    BY <2>1 DEF Become, Top
<1>10. DmlTypes'
  BY <1>1, <1>5, <1>8 DEF DmlTypes, IsStructured
<1> QED
  BY <1>8, <1>9, <1>10 DEF DmlStructure, At

-----------------------------------------------------------------------------
(* Apex code                                                               *)

LEMMA InitStructure == Init => DmlStructure
<1> SUFFICES ASSUME Init PROVE DmlStructure
  OBVIOUS
<1> DEFINE entry == [kind |-> "entry"]
<1>1. entry \in Frames /\ entry.kind = "entry"
  BY DEF Frames, EntryFrames
<1>2. <<>> \in Seq(Frames) /\ stack = Append(<<>>, entry) /\ Len(<<>>) = 0
  BY EmptySeq DEF Init
<1> HIDE DEF entry
<1>3. /\ [id \in {} |-> Blank] \in Tables /\ Fixture \in Tables
      /\ [o \in Objects |-> 0] \in [Objects -> Nat]
  <2>1. [id \in {} |-> Blank] \in [{} -> StoredRecords] /\ {} \in SUBSET Ids
    OBVIOUS
  <2>2. Fixture \in [DOMAIN Fixture -> StoredRecords] /\ DOMAIN Fixture \in SUBSET Ids
    BY DmlEngineAssumption DEF IsTable
  <2> QED
    BY <2>1, <2>2 DEF Tables
<1>4. db \in Databases
  BY <1>3 DEF Init, Databases
<1>5. checkpoints \in Seq(Databases) /\ Len(checkpoints) = 1 /\ baselines \in Seq(Nat)
      /\ Len(baselines) = 0
  BY <1>4, EmptySeq DEF Init
<1>6. image \in [Handles -> Images]
  BY DmlEngineAssumption DEF Init
<1>7. /\ ~HasOpenAttempt(entry) /\ ~HasOpenScope(entry)
  BY <1>1 DEF HasOpenAttempt, HasOpenScope, IsStatement
<1>8. ReadOnlyOf(<<>>, 0) = {}
  BY DEF ReadOnlyOf
<1>9. Carries(<<>>, checkpoints, baselines)
  BY <1>2, <1>5 DEF Carries, StackIsOrderly, BaselinesFollow
<1>10. IsNested(Append(<<>>, entry), 0 + 1)
  <2>1. StandsOn(<<>>, entry)
    BY <1>1, <1>2 DEF StandsOn
  <2> QED
    BY <1>1, <1>2, <2>1, NestedTop
<1>11. AddsTo(<<>>, entry, checkpoints, baselines, 0, {})
  BY <1>1, <1>2, <1>5, <1>7, <1>8, <1>10, CountEmpty DEF AddsTo
<1>12. IsStructured(stack, checkpoints, baselines, 0, {})
  BY <1>1, <1>2, <1>9, <1>11, Composed
<1>13. Top = entry /\ stack \in Seq(Frames)
  BY <1>1, <1>2, Appended DEF Top
<1>14. DmlTypes
  BY <1>4, <1>5, <1>6, <1>13, DmlEngineAssumption DEF DmlTypes, Init
<1> QED
  BY <1>1, <1>12, <1>13, <1>14 DEF DmlStructure, At, Init

LEMMA CodeOnTop ==
    ASSUME DmlStructure, CodeRuns
    PROVE  /\ ~HasOpenAttempt(Top) /\ ~HasOpenScope(Top) /\ Reach \subseteq Handles
           /\ ~IsStatement(Top) /\ stack # <<>>
<1>1. Top \in Frames /\ Top.kind \in {"entry", "trigger"} /\ stack # <<>>
  BY TopFrame DEF CodeRuns, DmlStructure
<1>2. Top.kind = "trigger" => Top.context \subseteq Handles
  BY <1>1, KindsOfFrames DEF TriggerFrames
<1> QED
  BY <1>1, <1>2, DmlEngineAssumption
  DEF HasOpenAttempt, HasOpenScope, IsStatement, Reach, TriggerNew

\* Writing a field keeps the images images.
LEMMA FieldIsCarried ==
    ASSUME NEW fields \in CarriedFields, NEW f \in Fields, NEW v \in Values \cup {Null}
    PROVE  Put(fields, f, v) \in CarriedFields
<1>1. PICK F \in SUBSET Fields : fields \in [F -> Values \cup {Null}]
  BY DEF CarriedFields
<1>2. Put(fields, f, v) \in [F \cup {f} -> Values \cup {Null}] /\ F \cup {f} \in SUBSET Fields
  BY <1>1 DEF Put
<1> QED
  BY <1>2 DEF CarriedFields

LEMMA SetFieldImage ==
    ASSUME DmlStructure, NEW h \in Handles, NEW f \in Fields, NEW v \in Values \cup {Null},
           image' = [image EXCEPT ![h].fields = Put(@, f, v)]
    PROVE  /\ image' \in [Handles -> Images] /\ image'[h].id = image[h].id
           /\ \A g \in Handles \ {h} : image'[g] = image[g]
<1>1. image \in [Handles -> Images]
  BY DEF DmlStructure, DmlTypes
<1>2. image[h].id \in Ids \cup {Null} /\ Put(image[h].fields, f, v) \in CarriedFields
      /\ DOMAIN image[h] = {"id", "fields"}
  BY <1>1, FieldIsCarried DEF Images
<1> DEFINE new == [image[h] EXCEPT !.fields = Put(@, f, v)]
<1>3. new \in Images /\ new.id = image[h].id
  <2> DEFINE fields == Put(image[h].fields, f, v)
  <2>1. new = [image[h] EXCEPT !.fields = fields] /\ fields \in CarriedFields
    BY <1>2
  <2> HIDE DEF fields, new
  <2>2. image[h] \in Images
    BY <1>1
  <2> QED
    BY <2>1, <2>2 DEF Images
<1>4. image' = [image EXCEPT ![h] = new]
  OBVIOUS
<1> HIDE DEF new
<1> QED
  BY <1>1, <1>3, <1>4

LEMMA CodeStep ==
    ASSUME DmlStructure, CodeRuns, image' \in [Handles -> Images], queries' \in Nat, fuel' \in Nat,
           UNCHANGED <<db, checkpoints, readOnly, depth, stack, baselines>>
    PROVE  DmlStructure'
<1>1. ~IsStatement(Top)
  BY CodeOnTop
<1> QED
  BY <1>1 DEF DmlStructure, DmlTypes, At, Top, IsStatement

LEMMA SpendFuel == ASSUME DmlTypes, Spend PROVE fuel' \in Nat
BY DEF DmlTypes, Spend

LEMMA SetFieldStep == ASSUME DmlStructure, SetField PROVE DmlStructure'
<1>1. PICK h \in Reach \ readOnly, f \in Fields, v \in Values \cup {Null} :
          image' = [image EXCEPT ![h].fields = Put(@, f, v)]
  BY DEF SetField
<1>2. CodeRuns /\ fuel' \in Nat
  BY SpendFuel DEF SetField, Spend, DmlStructure
<1>3. h \in Handles
  BY <1>1, <1>2, CodeOnTop
<1>4. image' \in [Handles -> Images]
  BY <1>1, <1>3, SetFieldImage
<1> QED
  BY <1>2, <1>4, CodeStep DEF SetField, DmlStructure, DmlTypes

LEMMA RunQueryStep == ASSUME DmlStructure, RunQuery PROVE DmlStructure'
<1>1. CodeRuns /\ fuel' \in Nat
  BY SpendFuel DEF RunQuery, Spend, DmlStructure
<1> QED
  BY <1>1, CodeStep DEF RunQuery, DmlStructure, DmlTypes

\* A statement begins with nothing settled but its null rows.
LEMMA IssueFrame ==
    ASSUME DmlStructure, IssueDml
    PROVE  \E f \in StatementFrames :
               /\ stack' = Push(f) /\ IsOrderly(f) /\ f.kind = "statement" /\ f.stage = "preflight"
               /\ f.start.db = db /\ f.group = {} /\ DOMAIN f.held = {} /\ DOMAIN f.ready = {}
               /\ {f.inputs[i] : i \in Given(f)} \subseteq Reach
               /\ \A h \in DOMAIN f.originals : f.originals[h] = image[h]
               /\ \A i \in DOMAIN f.outcomes : f.outcomes[i] # "OK"
<1>1. PICK inputs \in Requests, op \in RequestOps, atomic \in BOOLEAN :
          LET given == {i \in DOMAIN inputs : inputs[i] # Null}
          IN  /\ \A i \in given : inputs[i] \in Reach
              /\ stack' = Push(
                    [kind      |-> "statement",
                     stage     |-> "preflight",
                     op        |-> op,
                     atomic    |-> atomic,
                     inputs    |-> inputs,
                     originals |-> Restrict(image, {inputs[i] : i \in given}),
                     outcomes  |-> [i \in DOMAIN inputs \ given |-> "MISSING_ARGUMENT"],
                     ready     |-> <<>>,
                     pending   |-> <<>>,
                     group     |-> {},
                     attempt   |-> 0,
                     held      |-> <<>>,
                     results   |-> <<>>,
                     start     |-> [db |-> db, queries |-> queries]])
  BY DEF IssueDml
<1> DEFINE given == {i \in DOMAIN inputs : inputs[i] # Null}
           originals == Restrict(image, {inputs[i] : i \in given})
           outcomes == [i \in DOMAIN inputs \ given |-> "MISSING_ARGUMENT"]
           start == [db |-> db, queries |-> queries]
           f == [kind |-> "statement", stage |-> "preflight", op |-> op, atomic |-> atomic,
                 inputs |-> inputs, originals |-> originals, outcomes |-> outcomes,
                 ready |-> <<>>, pending |-> <<>>, group |-> {}, attempt |-> 0,
                 held |-> <<>>, results |-> <<>>, start |-> start]
<1>2. CodeRuns
  BY DEF IssueDml, Spend
<1>3. /\ ~HasOpenAttempt(Top) /\ ~HasOpenScope(Top) /\ Reach \subseteq Handles
      /\ ~IsStatement(Top) /\ stack # <<>>
  BY <1>2, CodeOnTop
<1>4. inputs \in Seq(Handles \cup {Null}) /\ op \in Operations
  BY DmlEngineAssumption
<1>5. DOMAIN inputs = 1..Len(inputs) /\ Len(inputs) \in Nat
  BY <1>4, LenProperties
<1>6. /\ originals \in SomeImages /\ DOMAIN originals = {inputs[i] : i \in given}
      /\ \A h \in DOMAIN originals : originals[h] = image[h]
  <2>1. image \in [Handles -> Images] /\ {inputs[i] : i \in given} \in SUBSET Handles
    BY <1>1, <1>3 DEF DmlStructure, DmlTypes
  <2> QED
    BY <2>1, RestrictImages
<1>7. outcomes \in SomeStatuses /\ DOMAIN outcomes = DOMAIN inputs \ given
      /\ \A i \in DOMAIN outcomes : outcomes[i] # "OK"
  <2>1. outcomes \in [DOMAIN inputs \ given -> RowStatuses]
    BY DEF RowStatuses
  <2>2. DOMAIN inputs \ given \in SUBSET Nat
    BY <1>5
  <2> QED
    BY <2>1, <2>2 DEF SomeStatuses
<1>8. start \in [db : Databases, queries : Nat] /\ start.db = db
  BY DEF DmlStructure, DmlTypes
<1>9. stack' = Push(f)
  BY <1>1
<1>10. /\ f.kind = "statement" /\ f.stage = "preflight" /\ f.inputs = inputs
       /\ f.originals = originals /\ f.outcomes = outcomes /\ f.ready = <<>> /\ f.pending = <<>>
       /\ f.group = {} /\ f.held = <<>> /\ f.start = start
  OBVIOUS
<1>11. f \in StatementFrames
  <2>1. <<>> \in Seq(GroupOps) /\ "preflight" \in Stages
    BY EmptySeq DEF Stages
  <2> HIDE DEF given, originals, outcomes, start
  <2> QED
    BY <1>4, <1>6, <1>7, <1>8, <2>1, SomeOfNothing DEF StatementFrames
<1>12. Given(f) = given
  BY <1>10 DEF Given
<1> HIDE DEF f, originals, outcomes, start
<1>13. IsOrderly(f)
  <2>1. Len(<<>>) = 0 /\ DOMAIN <<>> = {}
    BY SomeOfNothing
  <2>2. f.stage \notin GroupStages /\ f.stage \notin OpenStages
    BY <1>10 DEF GroupStages, OpenStages
  <2> QED
    BY <1>6, <1>7, <1>10, <1>12, <2>1, <2>2 DEF IsOrderly, Elements
<1>14. f.start.db = db /\ DOMAIN f.held = {} /\ DOMAIN f.ready = {}
  BY <1>8, <1>10, SomeOfNothing
<1>15. {f.inputs[i] : i \in Given(f)} \subseteq Reach
  BY <1>1, <1>10, <1>12
<1> QED
  BY <1>6, <1>7, <1>9, <1>10, <1>11, <1>13, <1>14, <1>15

LEMMA IssueDmlStep == ASSUME DmlStructure, IssueDml PROVE DmlStructure'
<1>1. PICK f \in StatementFrames :
          /\ stack' = Push(f) /\ IsOrderly(f) /\ f.kind = "statement" /\ f.stage = "preflight"
          /\ f.start.db = db
  BY IssueFrame
<1>2. CodeRuns /\ fuel' \in Nat /\ BeginUnit
      /\ UNCHANGED <<db, image, readOnly, depth, queries, baselines>>
  BY SpendFuel DEF IssueDml, Spend, DmlStructure
<1>3. /\ ~HasOpenAttempt(Top) /\ ~HasOpenScope(Top) /\ ~IsStatement(Top) /\ stack # <<>>
  BY <1>2, CodeOnTop
<1>4. f \in Frames /\ ~HasOpenAttempt(f) /\ ~HasOpenScope(f)
  BY <1>1 DEF Frames, HasOpenAttempt, HasOpenScope
<1>5. /\ stack \in Seq(Frames) /\ Top = stack[Len(stack)] /\ Len(stack) # 0
      /\ db \in Databases
  BY <1>3, TopFrame DEF DmlStructure, DmlTypes
<1>6. StandsOn(stack, f)
  BY <1>1, <1>3, <1>5 DEF StandsOn, IsStatement
<1>7. IsStructured(stack', checkpoints', baselines', depth', readOnly')
  <2>1. IsStructured(stack, checkpoints, baselines, depth, readOnly)
    BY DEF DmlStructure
  <2>2. checkpoints' = Append(checkpoints, f.start.db)
    BY <1>1, <1>2 DEF BeginUnit
  <2>3. IsStructured(Append(stack, f), checkpoints', baselines, depth, readOnly)
    BY <1>1, <1>3, <1>4, <1>5, <1>6, <2>1, <2>2, Pushing
  <2> QED
    BY <1>1, <1>2, <2>3 DEF Push
<1>8. Top' = f
  BY <1>1, <1>4, <1>5, Appended DEF Push, Top
<1>9. DmlTypes'
  BY <1>2, <1>7 DEF DmlTypes, DmlStructure, IsStructured
<1> QED
  BY <1>1, <1>7, <1>8, <1>9 DEF DmlStructure, At

\* The entry point leaves an empty stack and gives its checkpoint up.
LEMMA FinishEntryStep == ASSUME DmlStructure, FinishEntry PROVE DmlStructure'
<1>1. /\ Len(stack) = 1 /\ CodeRuns /\ stack' = <<>>
      /\ UNCHANGED <<image, readOnly, depth, queries, baselines, fuel>>
      /\ CommitUnit \/ RollbackUnit
  BY DEF FinishEntry
<1>2. ~HasOpenAttempt(Top) /\ ~HasOpenScope(Top) /\ stack # <<>>
  BY <1>1, CodeOnTop
<1>3. /\ Below \in Seq(Frames) /\ Len(Below) = 0 /\ Top \in Frames
      /\ stack = Append(Below, Top)
  BY <1>1, <1>2, TopFrame DEF DmlStructure
<1>4. Below = <<>>
  BY <1>3, EmptySeq
<1>5. Carries(Below, checkpoints, baselines) /\ AddsTo(Below, Top, checkpoints, baselines, depth, readOnly)
  <2>1. IsStructured(Append(Below, Top), checkpoints, baselines, depth, readOnly)
    BY <1>3 DEF DmlStructure
  <2> QED
    BY <1>3, <2>1, Composed
<1>6. IsNested(Append(Below, Top), Len(Below) + 1)
  BY <1>5 DEF AddsTo
<1>7. Top.kind = "entry"
  BY <1>3, <1>6, NestedTop DEF StandsOn
<1>8. /\ Len(checkpoints) = 1 /\ Len(baselines) = 0 /\ depth = 0
      /\ readOnly = ReadOnlyOf(<<>>, 0) /\ checkpoints \in Seq(Databases)
      /\ baselines \in Seq(Nat)
  BY <1>2, <1>3, <1>4, <1>5, <1>7, CountEmpty DEF AddsTo, Carries
<1>9. checkpoints' \in Seq(Databases) /\ Len(checkpoints') = 0 /\ db' \in Databases
  <2>1. checkpoints # <<>>
    BY <1>8
  <2>2. db' \in Databases
    BY <1>1, <2>1, UnitTypes DEF DmlStructure
  <2>3. 0 \in Nat /\ Len(checkpoints) = 0 + 1
    BY <1>8
  <2>4. Front(checkpoints) \in Seq(Databases) /\ Len(Front(checkpoints)) = 0
    BY <1>8, <2>3, Shortened, ZenonT(60)
  <2> QED
    BY <1>1, <2>2, <2>4 DEF CommitUnit, RollbackUnit
<1>10. <<>> \in Seq(Frames) /\ Len(<<>>) = 0
  BY EmptySeq
<1>11. IsStructured(<<>>, checkpoints', baselines, depth, readOnly)
  <2>1. StackIsOrderly(<<>>) /\ BaselinesFollow(<<>>, baselines) /\ CheckpointsFollow(<<>>, checkpoints')
    BY <1>9, <1>10 DEF StackIsOrderly, BaselinesFollow, CheckpointsFollow
  <2>2. IsCounted(<<>>, checkpoints', baselines, depth, readOnly)
    BY <1>8, <1>9, <1>10, CountEmpty DEF IsCounted
  <2> QED
    BY <1>8, <1>9, <1>10, <2>1, <2>2 DEF IsStructured
<1> QED
  BY <1>1, <1>9, <1>10, <1>11 DEF DmlStructure, DmlTypes, At, IsStructured

-----------------------------------------------------------------------------
(* A statement up to its attempts                                          *)

LEMMA PreparedStatus ==
    ASSUME NEW d, NEW row, NEW op \in Operations
    PROVE  PrepareRow(d, op, ExternalId, row).status \in RowStatuses
<1>1. \A status \in RowStatuses : Denied(status).status \in RowStatuses
  BY DEF Denied
<1>2. \A o, new : Ready(o, new).status \in RowStatuses
  BY DEF Ready, RowStatuses, Statuses
<1>3. /\ "MISSING_ARGUMENT" \in RowStatuses /\ "DUPLICATE_EXTERNAL_ID" \in RowStatuses
      /\ "INVALID_FIELD_FOR_INSERT_UPDATE" \in RowStatuses
      /\ "INVALID_CROSS_REFERENCE_KEY" \in RowStatuses
  BY DEF RowStatuses, Statuses
<1>4. PrepareInsert(row).status \in RowStatuses
      /\ \A id : PrepareUpdate(d, id, row).status \in RowStatuses
  BY <1>2 DEF PrepareInsert, PrepareUpdate
<1>5. PrepareUpsertByKey(d, ExternalId, row).status \in RowStatuses
  BY <1>1, <1>3, <1>4 DEF PrepareUpsertByKey
<1>6. CASE op = "insert"
  BY <1>1, <1>3, <1>4, <1>6 DEF PrepareRow
<1>7. CASE op = "update"
  BY <1>1, <1>3, <1>4, <1>7 DEF PrepareRow
<1>8. CASE op = "upsert" /\ ExternalId # Null
  BY <1>5, <1>8 DEF PrepareRow
<1>9. CASE op = "upsert" /\ ExternalId = Null
  BY <1>4, <1>9 DEF PrepareRow
<1>10. CASE op = "delete"
  BY <1>1, <1>2, <1>3, <1>10 DEF PrepareRow
<1>11. CASE op = "undelete"
  BY <1>1, <1>2, <1>3, <1>11 DEF PrepareRow
<1> QED
  BY <1>6, <1>7, <1>8, <1>9, <1>10, <1>11 DEF Operations

LEMMA RowOfHandle ==
    ASSUME DmlTypes, NEW h \in Handles
    PROVE  IsRow(RowOf(h)) /\ RowOf(h).id = image[h].id
BY DEF DmlTypes, RowOf, IsRow, Images

LEMMA AtStatement ==
    ASSUME DmlStructure, NEW stage, At(stage)
    PROVE  /\ stack # <<>> /\ IsStatement(Top) /\ Top.stage = stage
           /\ Top \in StatementFrames /\ IsOrderly(Top)
           /\ DmlTypes
BY StatementOnTop DEF At, IsStatement, DmlStructure

\* The preparations of the rows: those denied become outcomes, the others ready.
Prepared(i) == PrepareRow(db, Top.op, ExternalId, RowOf(Top.inputs[i]))

LEMMA PreflightRows ==
    ASSUME DmlStructure, At("preflight"), NEW i \in Given(Top)
    PROVE  /\ Top.inputs[i] \in Handles /\ i \in Nat
           /\ Prepared(i).status \in RowStatuses
           /\ Prepared(i).status = "OK" => Prepared(i) \in Preparations
           /\ Prepared(i).status = "OK" /\ image[Top.inputs[i]].id # Null
                  /\ Prepared(i).new # NoImage =>
                  Prepared(i).new.id = image[Top.inputs[i]].id
<1>1. Top \in StatementFrames /\ DmlTypes
  BY AtStatement
<1>2. Top.inputs[i] \in Handles /\ Top.op \in Operations /\ i \in 1..Len(Top.inputs)
      /\ Len(Top.inputs) \in Nat
  BY <1>1, StatementTypes DEF Given
<1>3. IsRow(RowOf(Top.inputs[i])) /\ RowOf(Top.inputs[i]).id = image[Top.inputs[i]].id
  BY <1>1, <1>2, RowOfHandle
<1>4. db \in Databases
  BY <1>1 DEF DmlTypes
<1> QED
  BY <1>2, <1>3, <1>4, PreparedStatus, PreparedRow DEF Prepared

\* What the statement becomes: it fails, or the rows that passed are ready.
LEMMA PreflightFrame ==
    ASSUME DmlStructure, Preflight
    PROVE  \E f \in StatementFrames :
               /\ stack' = Become(f) /\ IsOrderly(f) /\ f.start = Top.start
               /\ f.inputs = Top.inputs /\ f.originals = Top.originals /\ f.held = Top.held
               /\ f.group = {} /\ f.kind = "statement" /\ f.op = Top.op
               /\ \/ f.stage = "failing" /\ f.outcomes = Top.outcomes /\ DOMAIN f.ready = {}
                  \/ /\ f.stage = "choose"
                     /\ DOMAIN f.ready = {i \in Given(Top) : Prepared(i).status = "OK"}
                     /\ \A i \in DOMAIN f.ready : f.ready[i] = Prepared(i)
                     /\ \A i \in DOMAIN f.outcomes : f.outcomes[i] # "OK"
<1> DEFINE prepared == [i \in Given(Top) |-> Prepared(i)]
           denied == {i \in Given(Top) : prepared[i].status # "OK"}
           extra == [i \in denied |-> prepared[i].status]
           outcomes == Settled(Top, extra)
           ready == Restrict(prepared, Given(Top) \ denied)
           all == <<"insert", "update", "delete", "undelete">>
<1>1. /\ Top \in StatementFrames /\ IsOrderly(Top) /\ DmlTypes /\ Top.stage = "preflight"
      /\ At("preflight")
  BY AtStatement DEF Preflight
<1>2. \A i \in Given(Top) :
         /\ Top.inputs[i] \in Handles /\ i \in Nat
         /\ Prepared(i).status \in RowStatuses
         /\ Prepared(i).status = "OK" => Prepared(i) \in Preparations
  BY <1>1, PreflightRows
<1>3. /\ DOMAIN Top.ready = {} /\ Top.pending = <<>> /\ Top.group = {}
      /\ \A i \in DOMAIN Top.outcomes : Top.outcomes[i] # "OK"
      /\ DOMAIN Top.inputs \subseteq DOMAIN Top.outcomes \cup Given(Top)
      /\ DOMAIN Top.originals = {Top.inputs[i] : i \in Given(Top)}
      /\ DOMAIN Top.outcomes \subseteq DOMAIN Top.inputs /\ Given(Top) \subseteq DOMAIN Top.inputs
      /\ DOMAIN Top.held \subseteq GroupOf(Top)
  <2>1. "preflight" \notin GroupStages
    BY DEF GroupStages, OpenStages
  <2> QED
    BY <1>1, <2>1 DEF IsOrderly, Given
<1>4. extra \in SomeStatuses /\ DOMAIN extra = denied
      /\ \A i \in denied : extra[i] # "OK"
  <2>1. extra \in [denied -> RowStatuses] /\ denied \in SUBSET Nat
    BY <1>2
  <2> QED
    BY <2>1 DEF SomeStatuses
<1>5. Top.outcomes \in SomeStatuses
  BY <1>1, StatementTypes
<1> HIDE DEF extra
<1>6. /\ outcomes \in SomeStatuses /\ DOMAIN outcomes = DOMAIN Top.outcomes \cup denied
      /\ \A i \in DOMAIN outcomes : outcomes[i] # "OK"
  <2>1. /\ outcomes \in SomeStatuses /\ DOMAIN outcomes = DOMAIN extra \cup DOMAIN Top.outcomes
        /\ \A x \in DOMAIN extra : outcomes[x] = extra[x]
        /\ \A x \in DOMAIN Top.outcomes \ DOMAIN extra : outcomes[x] = Top.outcomes[x]
    BY <1>4, <1>5, OverStatuses DEF Settled
  <2> HIDE DEF outcomes
  <2> QED
    BY <1>3, <1>4, <2>1
<1>7. /\ ready \in SomePreparations /\ DOMAIN ready = Given(Top) \ denied
      /\ \A i \in DOMAIN ready : ready[i] = Prepared(i)
  <2>1. ready \in [Given(Top) \ denied -> Preparations] /\ Given(Top) \ denied \in SUBSET Nat
    BY <1>2 DEF Restrict
  <2>2. \A i \in Given(Top) \ denied : ready[i] = Prepared(i)
    BY DEF Restrict
  <2> QED
    BY <2>1, <2>2 DEF SomePreparations
<1>8. all \in Seq(GroupOps) /\ Len(all) = 4 /\ Elements(all) = GroupOps
      /\ \A i, j \in 1..Len(all) : all[i] = all[j] => i = j
  BY DEF GroupOps, Elements
<1>9. denied = {i \in Given(Top) : Prepared(i).status # "OK"}
  OBVIOUS
<1>10. stack' = Become(
          IF Top.atomic /\ denied # {} THEN [Top EXCEPT !.stage = "failing"]
          ELSE [Top EXCEPT !.stage = "choose", !.outcomes = outcomes, !.ready = ready,
                           !.pending = all])
  BY DEF Preflight, Prepared, extra
<1> HIDE DEF outcomes, ready, all, denied, prepared
<1>11. CASE Top.atomic /\ denied # {}
  <2> DEFINE f == [Top EXCEPT !.stage = "failing"]
  <2>1. /\ f \in StatementFrames /\ f.stage = "failing" /\ f.inputs = Top.inputs
        /\ f.originals = Top.originals /\ f.outcomes = Top.outcomes /\ f.ready = Top.ready
        /\ f.pending = Top.pending /\ f.group = Top.group /\ f.held = Top.held
        /\ f.start = Top.start /\ f.kind = "statement" /\ f.op = Top.op
        /\ f.results = Top.results
    BY <1>1 DEF StatementFrames, Stages
  <2>2. stack' = Become(f)
    BY <1>10, <1>11
  <2> HIDE DEF f
  <2>3. IsOrderly(f)
    <3>1. "failing" \notin GroupStages /\ "failing" \notin OpenStages
      BY DEF GroupStages, OpenStages
    <3>2. Given(f) = Given(Top) /\ GroupOf(f) = GroupOf(Top)
      BY <2>1 DEF Given, GroupOf
    <3>3. Len(<<>>) = 0 /\ Top.group \subseteq DOMAIN Top.ready
      BY <1>3
    <3> QED
      BY <1>3, <2>1, <3>1, <3>2, <3>3 DEF IsOrderly
  <2> QED
    BY <1>3, <2>1, <2>2, <2>3
<1>12. CASE ~(Top.atomic /\ denied # {})
  <2> DEFINE f == [Top EXCEPT !.stage = "choose", !.outcomes = outcomes, !.ready = ready,
                              !.pending = all]
  <2>1. /\ f \in StatementFrames /\ f.stage = "choose" /\ f.inputs = Top.inputs
        /\ f.originals = Top.originals /\ f.outcomes = outcomes /\ f.ready = ready
        /\ f.pending = all /\ f.group = Top.group /\ f.held = Top.held
        /\ f.start = Top.start /\ f.kind = "statement" /\ f.op = Top.op
        /\ f.results = Top.results
    BY <1>1, <1>6, <1>7, <1>8 DEF StatementFrames, Stages
  <2>2. stack' = Become(f)
    BY <1>10, <1>12
  <2> HIDE DEF f
  <2>3. IsOrderly(f)
    <3>1. "choose" \notin GroupStages /\ "choose" \notin OpenStages
      BY DEF GroupStages, OpenStages
    <3>2. Given(f) = Given(Top) /\ GroupOf(f) = GroupOf(Top)
      BY <2>1 DEF Given, GroupOf
    <3>3. \A i, j \in DOMAIN ready : Top.inputs[i] = Top.inputs[j] => ready[i] = ready[j]
      BY <1>7 DEF Prepared
    <3>4. \A i \in DOMAIN ready : ready[i].op \in Elements(all)
      BY <1>7, <1>8, SomeParts, PreparationParts
    <3>5. Awaited(f) = all
      BY <2>1, <3>1 DEF Awaited
    <3>6. DOMAIN Top.inputs \subseteq DOMAIN outcomes \cup DOMAIN ready
      BY <1>3, <1>6, <1>7
    <3>7. DOMAIN outcomes \subseteq DOMAIN Top.inputs /\ DOMAIN ready \subseteq Given(Top)
      BY <1>3, <1>6, <1>7, <1>9
    <3>8. /\ DOMAIN f.originals = {f.inputs[i] : i \in Given(f)}
          /\ DOMAIN f.outcomes \subseteq DOMAIN f.inputs
          /\ DOMAIN f.ready \subseteq Given(f) /\ f.group = {}
          /\ \A i \in DOMAIN f.outcomes : f.outcomes[i] # "OK"
          /\ DOMAIN f.held \subseteq GroupOf(f) /\ f.stage = "choose"
      BY <1>3, <1>6, <2>1, <3>2, <3>7
    <3>9. /\ \A i, j \in DOMAIN f.ready : f.inputs[i] = f.inputs[j] => f.ready[i] = f.ready[j]
          /\ \A i, j \in 1..Len(f.pending) : f.pending[i] = f.pending[j] => i = j
      <4>1. f.ready = ready /\ f.inputs = Top.inputs /\ f.pending = all
        BY <2>1
      <4>2. \A i, j \in 1..Len(all) : all[i] = all[j] => i = j
        BY <1>8
      <4> QED
        BY <3>3, <4>1, <4>2
    <3>10. \A i \in DOMAIN f.inputs \ DOMAIN f.outcomes :
              i \in DOMAIN f.ready /\ f.ready[i].op \in Elements(Awaited(f))
      BY <2>1, <3>4, <3>5, <3>6
    <3> QED
      BY <3>1, <3>8, <3>9, <3>10 DEF IsOrderly
  <2>4. DOMAIN ready = {i \in Given(Top) : Prepared(i).status = "OK"}
    BY <1>7, <1>9
  <2> QED
    BY <1>3, <1>6, <1>7, <2>1, <2>2, <2>3, <2>4
<1> QED
  BY <1>11, <1>12

\* The distinct operations still to come, and those after the first of them.
LEMMA PendingTail ==
    ASSUME NEW p \in Seq(GroupOps), p # <<>>, \A i, j \in 1..Len(p) : p[i] = p[j] => i = j
    PROVE  /\ Head(p) \in GroupOps /\ Tail(p) \in Seq(GroupOps)
           /\ \A i, j \in 1..Len(Tail(p)) : Tail(p)[i] = Tail(p)[j] => i = j
           /\ Elements(p) = {Head(p)} \cup Elements(Tail(p))
           /\ Head(p) \notin Elements(Tail(p))
<1>1. /\ Len(p) \in Nat \ {0} /\ Head(p) = p[1] /\ Head(p) \in GroupOps
      /\ Tail(p) \in Seq(GroupOps) /\ Len(Tail(p)) = Len(p) - 1
      /\ \A i \in 1..(Len(p) - 1) : Tail(p)[i] = p[i + 1]
  BY HeadTailProperties, EmptySeq
<1>2. \A i, j \in 1..Len(Tail(p)) : Tail(p)[i] = Tail(p)[j] => i = j
  <2> TAKE i, j \in 1..Len(Tail(p))
  <2>1. i + 1 \in 1..Len(p) /\ j + 1 \in 1..Len(p) /\ i \in Nat /\ j \in Nat
    BY <1>1
  <2>2. Tail(p)[i] = p[i + 1] /\ Tail(p)[j] = p[j + 1]
    BY <1>1
  <2>3. p[i + 1] = p[j + 1] => i + 1 = j + 1
    BY <2>1
  <2> QED
    BY <2>1, <2>2, <2>3
<1>3. Elements(p) \subseteq {Head(p)} \cup Elements(Tail(p))
  <2> SUFFICES ASSUME NEW k \in 1..Len(p), k # 1 PROVE p[k] \in Elements(Tail(p))
    BY <1>1 DEF Elements
  <2>1. k - 1 \in 1..(Len(p) - 1) /\ k - 1 + 1 = k
    BY <1>1
  <2>2. Tail(p)[k - 1] = p[k]
    BY <1>1, <2>1
  <2> QED
    BY <1>1, <2>1, <2>2 DEF Elements
<1>4. \A k \in 1..Len(Tail(p)) : Tail(p)[k] \in Elements(p) /\ Tail(p)[k] # Head(p)
  <2> TAKE k \in 1..Len(Tail(p))
  <2>1. Tail(p)[k] = p[k + 1] /\ k + 1 \in 1..Len(p) /\ 1 \in 1..Len(p) /\ k + 1 # 1
    BY <1>1
  <2>2. p[k + 1] # p[1]
    BY <2>1
  <2> QED
    BY <1>1, <2>1, <2>2 DEF Elements
<1>5. Head(p) \in Elements(p)
  BY <1>1 DEF Elements
<1>6. Elements(Tail(p)) \subseteq Elements(p) /\ Head(p) \notin Elements(Tail(p))
  BY <1>4 DEF Elements
<1> QED
  BY <1>1, <1>2, <1>3, <1>5, <1>6

\* What an orderly statement in a group is, said in parts.
LEMMA InGroup ==
    ASSUME NEW g \in StatementFrames, IsOrderly(g), g.stage \in GroupStages
    PROVE  /\ DOMAIN g.originals = {g.inputs[i] : i \in Given(g)}
           /\ DOMAIN g.outcomes \subseteq DOMAIN g.inputs
           /\ DOMAIN g.ready \subseteq Given(g) /\ g.group \subseteq DOMAIN g.ready
           /\ Given(g) \subseteq DOMAIN g.inputs
           /\ \A i, j \in DOMAIN g.ready : g.inputs[i] = g.inputs[j] => g.ready[i] = g.ready[j]
           /\ \A i, j \in 1..Len(g.pending) : g.pending[i] = g.pending[j] => i = j
           /\ \A i \in DOMAIN g.outcomes : g.outcomes[i] = "OK" =>
                  i \in DOMAIN g.ready /\ g.ready[i].op \notin Elements(g.pending)
           /\ g.pending \in Seq(GroupOps) /\ g.pending # <<>>
           /\ \A i \in g.group : g.ready[i].op = Head(g.pending)
           /\ \A i \in DOMAIN g.inputs \ (DOMAIN g.outcomes \cup g.group) :
                  i \in DOMAIN g.ready /\ g.ready[i].op \in Elements(Tail(g.pending))
           /\ DOMAIN g.held \subseteq GroupOf(g)
           /\ GroupOf(g) \subseteq Handles
           /\ g.stage \in OpenStages => DOMAIN g.held = GroupOf(g)
           /\ g.stage \in {"after", "settle"} => DOMAIN g.results = g.group
<1>1. g.stage \notin {"preflight", "failing"} /\ Awaited(g) = Tail(g.pending)
  BY DEF GroupStages, OpenStages, Awaited
<1>2. g.pending \in Seq(GroupOps) /\ Given(g) \subseteq DOMAIN g.inputs
      /\ \A i \in Given(g) : g.inputs[i] \in Handles
  BY StatementTypes DEF Given
<1>3. g.group \subseteq Given(g)
  BY DEF IsOrderly
<1>4. GroupOf(g) \subseteq Handles
  BY <1>2, <1>3 DEF GroupOf
<1> QED
  BY <1>1, <1>2, <1>4 DEF IsOrderly

\* A statement stays in its group: some rows may leave it with an outcome.
LEMMA StaysInGroup ==
    ASSUME NEW g \in StatementFrames, IsOrderly(g), g.stage \in GroupStages,
           NEW f \in StatementFrames, f.stage \in GroupStages,
           f.inputs = g.inputs, f.originals = g.originals, f.ready = g.ready, f.pending = g.pending,
           f.group \subseteq g.group, DOMAIN f.outcomes = DOMAIN g.outcomes \cup (g.group \ f.group),
           \A i \in DOMAIN f.outcomes : f.outcomes[i] = "OK" =>
               i \in DOMAIN g.outcomes /\ g.outcomes[i] = "OK",
           IF f.stage = "attempt" THEN DOMAIN f.held = {} ELSE DOMAIN f.held = GroupOf(f),
           f.stage \in {"after", "settle"} => DOMAIN f.results = f.group
    PROVE  IsOrderly(f)
<1>1. /\ f.stage \notin {"preflight", "failing"} /\ Awaited(f) = Tail(f.pending)
      /\ f.stage \in OpenStages => f.stage # "attempt"
  BY DEF GroupStages, OpenStages, Awaited
<1>2. Given(f) = Given(g)
  BY DEF Given
<1>3. /\ DOMAIN f.originals = {f.inputs[i] : i \in Given(f)}
      /\ DOMAIN f.outcomes \subseteq DOMAIN f.inputs
      /\ DOMAIN f.ready \subseteq Given(f) /\ f.group \subseteq DOMAIN f.ready
  BY <1>2, InGroup
<1>4. /\ \A i, j \in DOMAIN f.ready : f.inputs[i] = f.inputs[j] => f.ready[i] = f.ready[j]
      /\ \A i, j \in 1..Len(f.pending) : f.pending[i] = f.pending[j] => i = j
      /\ f.pending # <<>> /\ \A i \in f.group : f.ready[i].op = Head(f.pending)
  BY InGroup
<1>5. \A i \in DOMAIN f.outcomes : f.outcomes[i] = "OK" =>
          i \in DOMAIN f.ready /\ f.ready[i].op \notin Elements(f.pending)
  BY InGroup
<1>6. \A i \in DOMAIN f.inputs \ (DOMAIN f.outcomes \cup f.group) :
          i \in DOMAIN f.ready /\ f.ready[i].op \in Elements(Tail(f.pending))
  BY InGroup
<1>7. DOMAIN f.held \subseteq GroupOf(f) /\ (f.stage \in OpenStages => DOMAIN f.held = GroupOf(f))
  BY <1>1
<1>8. f.stage \notin {"preflight"} /\ f.stage \in GroupStages
  BY <1>1
<1> QED
  BY <1>1, <1>3, <1>4, <1>5, <1>6, <1>7, <1>8 DEF IsOrderly

\* A group ends: every row of it has an outcome, and the next may be chosen.
LEMMA LeavesGroup ==
    ASSUME NEW g \in StatementFrames, IsOrderly(g), g.stage \in GroupStages,
           NEW f \in StatementFrames, f.stage = "choose",
           f.inputs = g.inputs, f.originals = g.originals, f.ready = g.ready,
           f.pending = Tail(g.pending), f.group = {}, DOMAIN f.held = {},
           DOMAIN f.outcomes = DOMAIN g.outcomes \cup g.group,
           \A i \in DOMAIN f.outcomes : f.outcomes[i] = "OK" =>
               i \in g.group \/ (i \in DOMAIN g.outcomes /\ g.outcomes[i] = "OK")
    PROVE  IsOrderly(f)
<1>1. f.stage \notin GroupStages /\ f.stage \notin OpenStages /\ Awaited(f) = f.pending
      /\ f.stage \notin {"after", "settle"}
  BY DEF GroupStages, OpenStages, Awaited
<1>2. Given(f) = Given(g)
  BY DEF Given
<1>3. /\ Elements(g.pending) = {Head(g.pending)} \cup Elements(Tail(g.pending))
      /\ Head(g.pending) \notin Elements(Tail(g.pending))
      /\ \A i, j \in 1..Len(f.pending) : f.pending[i] = f.pending[j] => i = j
  BY InGroup, PendingTail
<1>4. /\ DOMAIN f.originals = {f.inputs[i] : i \in Given(f)}
      /\ DOMAIN f.outcomes \subseteq DOMAIN f.inputs
      /\ DOMAIN f.ready \subseteq Given(f)
  BY <1>2, InGroup
<1>5. \A i, j \in DOMAIN f.ready : f.inputs[i] = f.inputs[j] => f.ready[i] = f.ready[j]
  BY InGroup
<1>6. \A i \in DOMAIN f.outcomes : f.outcomes[i] = "OK" =>
          i \in DOMAIN f.ready /\ f.ready[i].op \notin Elements(f.pending)
  <2> TAKE i \in DOMAIN f.outcomes
  <2> HAVE f.outcomes[i] = "OK"
  <2>1. CASE i \in g.group
    <3>1. i \in DOMAIN g.ready /\ g.ready[i].op = Head(g.pending)
      BY <2>1, InGroup
    <3> QED
      BY <1>3, <3>1
  <2>2. CASE i \in DOMAIN g.outcomes /\ g.outcomes[i] = "OK"
    <3>1. i \in DOMAIN g.ready /\ g.ready[i].op \notin Elements(g.pending)
      BY <2>2, InGroup
    <3> QED
      BY <1>3, <3>1
  <2> QED
    BY <2>1, <2>2
<1>7. \A i \in DOMAIN f.inputs \ DOMAIN f.outcomes :
          i \in DOMAIN f.ready /\ f.ready[i].op \in Elements(Awaited(f))
  BY <1>1, InGroup
<1> QED
  BY <1>1, <1>3, <1>4, <1>5, <1>6, <1>7 DEF IsOrderly

\* A statement gives up.
LEMMA GivesUp ==
    ASSUME NEW g \in StatementFrames, IsOrderly(g), g.stage \in GroupStages,
           NEW f \in StatementFrames, f.stage = "failing",
           f.inputs = g.inputs, f.originals = g.originals, f.ready = g.ready,
           f.pending = g.pending, f.group = {}, DOMAIN f.held = {},
           f.outcomes = g.outcomes
    PROVE  IsOrderly(f)
<1>1. f.stage \notin GroupStages /\ f.stage \notin OpenStages
      /\ f.stage \notin {"after", "settle"}
  BY DEF GroupStages, OpenStages
<1>2. Given(f) = Given(g)
  BY DEF Given
<1>3. /\ DOMAIN f.originals = {f.inputs[i] : i \in Given(f)}
      /\ DOMAIN f.outcomes \subseteq DOMAIN f.inputs
      /\ DOMAIN f.ready \subseteq Given(f)
  BY <1>2, InGroup
<1>4. /\ \A i, j \in DOMAIN f.ready : f.inputs[i] = f.inputs[j] => f.ready[i] = f.ready[j]
      /\ \A i, j \in 1..Len(f.pending) : f.pending[i] = f.pending[j] => i = j
      /\ \A i \in DOMAIN f.outcomes : f.outcomes[i] = "OK" =>
             i \in DOMAIN f.ready /\ f.ready[i].op \notin Elements(f.pending)
  BY InGroup
<1> QED
  BY <1>1, <1>3, <1>4 DEF IsOrderly

-----------------------------------------------------------------------------
(* The steps of a statement                                                *)

LEMMA OpenFlags ==
    ASSUME NEW f, f.kind = "statement"
    PROVE  /\ HasOpenAttempt(f) <=> f.stage \in OpenStages
           /\ HasOpenScope(f) <=> ~f.atomic /\ f.stage \in GroupStages
           /\ f.stage = "choose" => ~HasOpenAttempt(f) /\ ~HasOpenScope(f)
           /\ f.stage = "preflight" => ~HasOpenAttempt(f) /\ ~HasOpenScope(f)
           /\ f.stage = "failing" => ~HasOpenAttempt(f) /\ ~HasOpenScope(f)
           /\ f.stage = "attempt" => ~HasOpenAttempt(f) /\ (HasOpenScope(f) <=> ~f.atomic)
           /\ f.stage \in OpenStages => (HasOpenScope(f) <=> ~f.atomic)
BY DEF HasOpenAttempt, HasOpenScope, IsStatement, OpenStages, GroupStages

LEMMA StageNames ==
    /\ OpenStages \subseteq GroupStages /\ GroupStages \subseteq Stages
    /\ "attempt" \in GroupStages /\ "attempt" \notin OpenStages
    /\ {"before", "write", "after", "settle", "failed"} = OpenStages
    /\ "choose" \in Stages /\ "failing" \in Stages
    /\ "choose" \notin GroupStages /\ "failing" \notin GroupStages
BY DEF OpenStages, GroupStages, Stages

\* What the steps of a statement leave of it.
SameStatement(f) ==
    /\ f.kind = "statement" /\ f.op = Top.op /\ f.atomic = Top.atomic
    /\ f.inputs = Top.inputs /\ f.originals = Top.originals /\ f.start.db = Top.start.db

SameRows(f) == SameStatement(f) /\ f.ready = Top.ready

LEMMA PreflightStep == ASSUME DmlStructure, Preflight PROVE DmlStructure'
<1>1. PICK f \in StatementFrames :
          /\ stack' = Become(f) /\ IsOrderly(f) /\ f.start = Top.start /\ f.kind = "statement"
          /\ f.stage \in {"failing", "choose"}
  BY PreflightFrame
<1>2. stack # <<>> /\ IsStatement(Top) /\ Top.stage = "preflight"
  BY AtStatement DEF Preflight
<1>3. /\ ~HasOpenAttempt(f) /\ ~HasOpenScope(f) /\ ~HasOpenAttempt(Top) /\ ~HasOpenScope(Top)
  BY <1>1, <1>2, OpenFlags DEF IsStatement
<1>4. f.stage # "attempt" /\ f.start.db = Top.start.db
  BY <1>1
<1>5. UNCHANGED <<db, checkpoints, image, readOnly, depth, queries, baselines, fuel>>
  BY DEF Preflight
<1>6. image' \in [Handles -> Images] /\ queries' \in Nat
  BY <1>5 DEF DmlStructure, DmlTypes
<1> QED
  BY <1>1, <1>2, <1>3, <1>4, <1>5, <1>6, BecomeStep

LEMMA ChooseGroupFrame ==
    ASSUME DmlStructure, ChooseGroup
    PROVE  \E f \in StatementFrames :
               /\ stack' = Become(f) /\ IsOrderly(f) /\ SameRows(f)
               /\ f.outcomes = Top.outcomes /\ DOMAIN f.held = {}
               /\ \/ f.stage = "choose" /\ f.group = {} /\ UNCHANGED baselines
                  \/ /\ f.stage = "attempt" /\ f.start.queries = queries
                     /\ baselines' = IF f.atomic THEN baselines ELSE Append(baselines, queries)
<1> DEFINE rows == RowsFor(Top, GroupOp)
           p == Top.pending
<1>1. /\ Top \in StatementFrames /\ IsOrderly(Top) /\ DmlTypes /\ Top.stage = "choose"
      /\ p # <<>>
  BY AtStatement DEF ChooseGroup
<1>2. Top.stage \notin GroupStages /\ Top.stage \notin {"preflight", "failing"} /\ Awaited(Top) = p
  BY <1>1, StageNames DEF Awaited
<1>3. /\ DOMAIN Top.originals = {Top.inputs[i] : i \in Given(Top)}
      /\ DOMAIN Top.outcomes \subseteq DOMAIN Top.inputs
      /\ DOMAIN Top.ready \subseteq Given(Top) /\ Top.group = {}
      /\ \A i, j \in DOMAIN Top.ready : Top.inputs[i] = Top.inputs[j] => Top.ready[i] = Top.ready[j]
      /\ \A i, j \in 1..Len(p) : p[i] = p[j] => i = j
      /\ DOMAIN Top.held \subseteq GroupOf(Top)
  BY <1>1, <1>2 DEF IsOrderly
<1>4. \A i \in DOMAIN Top.outcomes : Top.outcomes[i] = "OK" =>
          i \in DOMAIN Top.ready /\ Top.ready[i].op \notin Elements(p)
  BY <1>1 DEF IsOrderly
<1>5. \A i \in DOMAIN Top.inputs \ DOMAIN Top.outcomes :
          i \in DOMAIN Top.ready /\ Top.ready[i].op \in Elements(p)
  BY <1>1, <1>2, <1>3 DEF IsOrderly
<1>6. DOMAIN Top.held = {}
  BY <1>3 DEF GroupOf
<1>7. p \in Seq(GroupOps) /\ Top.ready \in SomePreparations
  BY <1>1, StatementTypes
<1>8. /\ GroupOp = Head(p) /\ GroupOp \in GroupOps /\ Tail(p) \in Seq(GroupOps)
      /\ \A i, j \in 1..Len(Tail(p)) : Tail(p)[i] = Tail(p)[j] => i = j
      /\ Elements(p) = {GroupOp} \cup Elements(Tail(p))
  BY <1>1, <1>3, <1>7, PendingTail DEF GroupOp
<1>9. rows = {i \in DOMAIN Top.ready : Top.ready[i].op = GroupOp} /\ rows \in SUBSET Nat
  BY <1>7, SomeParts DEF RowsFor
<1>10. IF rows = {}
       THEN /\ stack' = Become([Top EXCEPT !.pending = Tail(p)])
            /\ UNCHANGED baselines
       ELSE /\ stack' = Become([Top EXCEPT !.stage = "attempt", !.group = rows,
                                          !.attempt = 1, !.start.queries = queries])
            /\ baselines' = IF Top.atomic THEN baselines ELSE Append(baselines, queries)
  BY DEF ChooseGroup
<1> HIDE DEF rows, p
<1>11. CASE rows = {}
  <2> DEFINE f == [Top EXCEPT !.pending = Tail(p)]
  <2>1. /\ f \in StatementFrames /\ SameRows(f) /\ f.outcomes = Top.outcomes /\ f.held = Top.held
        /\ f.stage = "choose" /\ f.group = {} /\ f.pending = Tail(p)
    BY <1>1, <1>3, <1>8 DEF StatementFrames, SameRows, SameStatement
  <2>2. stack' = Become(f) /\ UNCHANGED baselines
    BY <1>10, <1>11
  <2> HIDE DEF f
  <2>3. IsOrderly(f)
    <3>1. Given(f) = Given(Top)
      BY <2>1 DEF Given, SameRows, SameStatement
    <3>2. /\ f.stage \notin GroupStages /\ f.stage \notin OpenStages /\ f.stage # "preflight"
          /\ f.stage \notin {"after", "settle"} /\ Awaited(f) = Tail(p)
      BY <2>1, StageNames DEF Awaited
    <3>3. /\ f.inputs = Top.inputs /\ f.originals = Top.originals /\ f.ready = Top.ready
          /\ f.outcomes = Top.outcomes
      BY <2>1 DEF SameRows, SameStatement
    <3>4. /\ DOMAIN f.originals = {f.inputs[i] : i \in Given(f)}
          /\ DOMAIN f.outcomes \subseteq DOMAIN f.inputs
          /\ DOMAIN f.ready \subseteq Given(f)
      BY <1>3, <3>1, <3>3
    <3>5. /\ \A i, j \in DOMAIN f.ready : f.inputs[i] = f.inputs[j] => f.ready[i] = f.ready[j]
          /\ \A i, j \in 1..Len(f.pending) : f.pending[i] = f.pending[j] => i = j
      BY <1>3, <1>8, <2>1, <3>3
    <3>6. \A i \in DOMAIN f.outcomes : f.outcomes[i] = "OK" =>
              i \in DOMAIN f.ready /\ f.ready[i].op \notin Elements(f.pending)
      BY <1>4, <1>8, <2>1, <3>3
    <3>7. \A i \in DOMAIN f.inputs \ DOMAIN f.outcomes :
              i \in DOMAIN f.ready /\ f.ready[i].op \in Elements(Awaited(f))
      BY <1>5, <1>8, <1>9, <1>11, <3>2, <3>3
    <3>8. f.group = {} /\ DOMAIN f.held \subseteq GroupOf(f)
      BY <1>6, <2>1
    <3> QED
      BY <3>2, <3>4, <3>5, <3>6, <3>7, <3>8 DEF IsOrderly
  <2> QED
    BY <1>6, <2>1, <2>2, <2>3
<1>12. CASE rows # {}
  <2> DEFINE f == [Top EXCEPT !.stage = "attempt", !.group = rows,
                              !.attempt = 1, !.start.queries = queries]
  <2>1. /\ f \in StatementFrames /\ SameRows(f) /\ f.outcomes = Top.outcomes /\ f.held = Top.held
        /\ f.stage = "attempt" /\ f.group = rows /\ f.pending = p /\ f.start.queries = queries
    <3> DEFINE begun == [Top EXCEPT !.stage = "attempt", !.group = rows, !.attempt = 1]
               start == [Top.start EXCEPT !.queries = queries]
    <3>1. queries \in Nat /\ "attempt" \in Stages
      BY <1>1, StageNames DEF DmlTypes
    <3>0. begun \in StatementFrames
      <4>1. rows \in SUBSET Nat /\ 1 \in Nat
        BY <1>9
      <4> QED
        BY <1>1, <3>1, <4>1 DEF StatementFrames
    <3>2. /\ begun \in StatementFrames /\ begun.start = Top.start /\ begun.kind = "statement"
          /\ begun.op = Top.op /\ begun.atomic = Top.atomic /\ begun.inputs = Top.inputs
          /\ begun.originals = Top.originals /\ begun.ready = Top.ready
          /\ begun.outcomes = Top.outcomes /\ begun.held = Top.held
          /\ begun.stage = "attempt" /\ begun.group = rows /\ begun.pending = p
      <4>1. Top \in StatementFrames
        BY <1>1
      <4> HIDE DEF rows
      <4> QED
        BY <3>0, <4>1 DEF StatementFrames, p
    <3>3. /\ start \in [db : Databases, queries : Nat] /\ start.db = Top.start.db
          /\ start.queries = queries
      BY <1>1, <3>1 DEF StatementFrames
    <3>4. f = [begun EXCEPT !.start = [begun.start EXCEPT !.queries = queries]]
      OBVIOUS
    <3>5. f = [begun EXCEPT !.start = start]
      <4> HIDE DEF begun, f
      <4> QED
        BY <3>2, <3>4
    <3> HIDE DEF begun, start, f
    <3> QED
      BY <3>2, <3>3, <3>5 DEF StatementFrames, SameRows, SameStatement
  <2>2. /\ stack' = Become(f)
        /\ baselines' = IF Top.atomic THEN baselines ELSE Append(baselines, queries)
    BY <1>10, <1>12
  <2> HIDE DEF f
  <2>3. IsOrderly(f)
    <3>1. Given(f) = Given(Top)
      BY <2>1 DEF Given, SameRows, SameStatement
    <3>2. /\ f.stage \in GroupStages /\ f.stage \notin OpenStages /\ f.stage # "preflight"
          /\ f.stage \notin {"after", "settle"} /\ Awaited(f) = Tail(p)
      BY <2>1, StageNames DEF Awaited
    <3>3. /\ f.inputs = Top.inputs /\ f.originals = Top.originals /\ f.ready = Top.ready
          /\ f.outcomes = Top.outcomes
      BY <2>1 DEF SameRows, SameStatement
    <3>4. /\ DOMAIN f.originals = {f.inputs[i] : i \in Given(f)}
          /\ DOMAIN f.outcomes \subseteq DOMAIN f.inputs
          /\ DOMAIN f.ready \subseteq Given(f) /\ f.group \subseteq DOMAIN f.ready
      BY <1>3, <1>9, <2>1, <3>1, <3>3
    <3>5. /\ \A i, j \in DOMAIN f.ready : f.inputs[i] = f.inputs[j] => f.ready[i] = f.ready[j]
          /\ \A i, j \in 1..Len(f.pending) : f.pending[i] = f.pending[j] => i = j
      BY <1>3, <2>1, <3>3
    <3>6. \A i \in DOMAIN f.outcomes : f.outcomes[i] = "OK" =>
              i \in DOMAIN f.ready /\ f.ready[i].op \notin Elements(f.pending)
      BY <1>4, <2>1, <3>3
    <3>7. \A i \in DOMAIN f.inputs \ (DOMAIN f.outcomes \cup f.group) :
              i \in DOMAIN f.ready /\ f.ready[i].op \in Elements(Awaited(f))
      BY <1>5, <1>8, <1>9, <2>1, <3>2, <3>3
    <3>8. DOMAIN f.held \subseteq GroupOf(f)
      BY <1>6, <2>1
    <3>9. f.pending # <<>> /\ \A i \in f.group : f.ready[i].op = Head(f.pending)
      BY <1>1, <1>8, <1>9, <2>1, <3>3 DEF p
    <3> QED
      BY <3>2, <3>4, <3>5, <3>6, <3>7, <3>8, <3>9 DEF IsOrderly
  <2>4. f.atomic = Top.atomic
    BY <2>1 DEF SameRows, SameStatement
  <2> QED
    BY <1>6, <2>1, <2>2, <2>3, <2>4
<1> QED
  BY <1>11, <1>12

LEMMA ChooseGroupStep == ASSUME DmlStructure, ChooseGroup PROVE DmlStructure'
<1>1. PICK f \in StatementFrames :
          /\ stack' = Become(f) /\ IsOrderly(f) /\ SameRows(f)
          /\ \/ f.stage = "choose" /\ f.group = {} /\ UNCHANGED baselines
             \/ /\ f.stage = "attempt" /\ f.start.queries = queries
                /\ baselines' = IF f.atomic THEN baselines ELSE Append(baselines, queries)
  BY ChooseGroupFrame
<1>2. stack # <<>> /\ IsStatement(Top) /\ Top.stage = "choose"
  BY AtStatement DEF ChooseGroup
<1>3. f.kind = "statement" /\ f.start.db = Top.start.db /\ f.atomic = Top.atomic
      /\ f.atomic \in BOOLEAN
  BY <1>1, StatementTypes DEF SameRows, SameStatement
<1>4. UNCHANGED <<db, checkpoints, image, readOnly, depth, queries, fuel>>
  BY DEF ChooseGroup
<1>5. image' \in [Handles -> Images] /\ queries' \in Nat
  BY <1>4 DEF DmlStructure, DmlTypes
<1>6. ~HasOpenAttempt(Top) /\ ~HasOpenScope(Top) /\ ~HasOpenAttempt(f)
  BY <1>1, <1>2, <1>3, OpenFlags DEF IsStatement
<1>7. f.stage = "attempt" => queries' = f.start.queries
  BY <1>1, <1>4
<1>8. \/ ~HasOpenScope(f) /\ UNCHANGED baselines
      \/ HasOpenScope(f) /\ baselines' = Append(baselines, f.start.queries)
  BY <1>1, <1>3, OpenFlags
<1> QED
  BY <1>1, <1>2, <1>3, <1>4, <1>5, <1>6, <1>7, <1>8, BecomeStep

Less == OpToRel(<, Nat)

LEMMA LessIsWellFounded == IsWellFoundedOn(Less, Nat)
BY NatLessThanWellFounded DEF Less

LEMMA LessIsLess == \A m, n \in Nat : <<m, n>> \in Less <=> m < n
BY DEF OpToRel, Less

\* Induction up to N over a set of numbers: the least one it lacked would have a
\* predecessor in it.
LEMMA RowInduction ==
    ASSUME NEW N \in Nat, NEW T, 0 \in T, \A n \in 0..(N - 1) : n \in T => n + 1 \in T
    PROVE  0..N \subseteq T
<1> DEFINE rest == (0..N) \ T
<1>1. rest \subseteq Nat
  OBVIOUS
<1> HIDE DEF rest
<1>2. ASSUME rest # {} PROVE FALSE
  <2>1. PICK x \in rest : \A y \in rest : ~(<<y, x>> \in Less)
    BY <1>1, <1>2, LessIsWellFounded, WFMin
  <2>2. x \in 0..N /\ x \notin T /\ x # 0
    BY <2>1 DEF rest
  <2>3. x - 1 \in 0..(N - 1) /\ x - 1 \in 0..N /\ x - 1 \in Nat /\ (x - 1) + 1 = x /\ x \in Nat
    BY <2>2
  <2>4. <<x - 1, x>> \in Less
    BY <2>3, LessIsLess
  <2>5. x - 1 \in T
    BY <2>1, <2>3, <2>4 DEF rest
  <2> QED
    BY <2>2, <2>3, <2>5
<1> QED
  BY <1>2 DEF rest

\* The last of some rows of a request is one of them.
LEMMA LastRow ==
    ASSUME NEW n \in Nat, NEW S \in SUBSET (0..n), S # {}
    PROVE  Max(S) \in S
<1> DEFINE Bounds == {b \in Nat : \A i \in S : b >= i}
<1>1. n \in Bounds /\ Bounds \subseteq Nat
  OBVIOUS
<1>2. \A b \in Bounds, i \in S : b >= i
  OBVIOUS
<1>3. \A b \in Nat : (\A i \in S : b >= i) => b \in Bounds
  OBVIOUS
<1> HIDE DEF Bounds
<1>4. PICK b \in Bounds : \A c \in Bounds : ~(<<c, b>> \in Less)
  BY <1>1, LessIsWellFounded, WFMin
<1>5. ASSUME b \notin S PROVE FALSE
  <2>1. b \in Nat /\ \A i \in S : i \in Nat /\ b >= i /\ b # i
    BY <1>1, <1>2, <1>4, <1>5
  <2>2. PICK i \in S : TRUE
    OBVIOUS
  <2>3. b - 1 \in Nat /\ \A j \in S : b - 1 >= j
    BY <2>1, <2>2
  <2>4. b - 1 \in Bounds /\ <<b - 1, b>> \in Less
    BY <1>3, <2>1, <2>3, LessIsLess
  <2> QED
    BY <1>4, <2>4
<1>6. \E x \in S : \A y \in S : x >= y
  BY <1>2, <1>4, <1>5
<1> QED
  BY <1>6 DEF Max

\* An attempt writes to an SObject what one of its rows was prepared to hold.
LEMMA ImageOfAttempt ==
    ASSUME DmlStructure, At("attempt"), NEW h \in Handles
    PROVE  /\ \/ PreparedImage(h) = image[h]
              \/ \E i \in Top.group : /\ Top.inputs[i] = h /\ Top.ready[i].new # NoImage
                                      /\ PreparedImage(h) = Top.ready[i].new
           /\ PreparedImage(h) \in Images
<1> DEFINE rows == {i \in Top.group : Top.inputs[i] = h /\ Top.ready[i].new # NoImage}
<1>1. Top \in StatementFrames /\ IsOrderly(Top) /\ DmlTypes /\ Top.stage \in GroupStages
  BY AtStatement, StageNames
<1>2. Top.group \subseteq DOMAIN Top.ready /\ DOMAIN Top.ready \subseteq DOMAIN Top.inputs
  BY <1>1, InGroup
<1>3. Top.ready \in SomePreparations /\ DOMAIN Top.inputs = 1..Len(Top.inputs)
      /\ Len(Top.inputs) \in Nat
  BY <1>1, StatementTypes
<1>4. PreparedImage(h) = IF rows = {} THEN image[h] ELSE Top.ready[Max(rows)].new
  BY DEF PreparedImage
<1>5. image[h] \in Images
  BY <1>1 DEF DmlTypes
<1>6. rows \subseteq 0..Len(Top.inputs)
  BY <1>2, <1>3
<1>7. rows # {} => Max(rows) \in rows
  <2> HIDE DEF rows
  <2> QED
    BY <1>3, <1>6, LastRow
<1>8. \A i \in rows : Top.ready[i].new \in Images
  BY <1>2, <1>3, SomeParts, PreparationParts
<1> QED
  BY <1>4, <1>5, <1>7, <1>8

LEMMA BeginAttemptFrame ==
    ASSUME DmlStructure, BeginAttempt
    PROVE  /\ \E f \in StatementFrames :
                  /\ stack' = Become(f) /\ IsOrderly(f) /\ SameRows(f) /\ f.stage = "before"
                  /\ f.outcomes = Top.outcomes /\ f.group = Top.group /\ f.start = Top.start
                  /\ f.pending = Top.pending /\ DOMAIN f.held = GroupOf(f)
                  /\ \A h \in DOMAIN f.held : f.held[h] = image[h]
           /\ image' \in [Handles -> Images]
           /\ GroupOf(Top) \subseteq Handles
           /\ \A h \in Handles :
                  image'[h] = IF h \in GroupOf(Top) THEN PreparedImage(h) ELSE image[h]
<1> DEFINE held == Restrict(image, GroupHandles)
           f == [Top EXCEPT !.stage = "before", !.results = <<>>, !.held = held]
<1>1. /\ Top \in StatementFrames /\ IsOrderly(Top) /\ DmlTypes /\ Top.stage = "attempt"
      /\ Top.stage \in GroupStages /\ At("attempt")
  BY AtStatement, StageNames DEF BeginAttempt
<1>2. GroupHandles = GroupOf(Top) /\ GroupOf(Top) \subseteq Handles
  BY <1>1, InGroup DEF GroupHandles, GroupOf
<1>3. image \in [Handles -> Images]
  BY <1>1 DEF DmlTypes
<1>4. image' = [h \in Handles |-> IF h \in GroupHandles THEN PreparedImage(h) ELSE image[h]]
      /\ stack' = Become(f)
  BY DEF BeginAttempt
<1>5. /\ image' \in [Handles -> Images]
      /\ \A h \in Handles : image'[h] = IF h \in GroupOf(Top) THEN PreparedImage(h) ELSE image[h]
  <2>1. \A h \in Handles : PreparedImage(h) \in Images
    BY <1>1, ImageOfAttempt
  <2> QED
    BY <1>2, <1>3, <1>4, <2>1
<1>6. held \in SomeImages /\ DOMAIN held = GroupOf(Top) /\ \A h \in DOMAIN held : held[h] = image[h]
  BY <1>2, <1>3, RestrictImages
<1> HIDE DEF held
<1>7. "before" \in Stages /\ "before" \in OpenStages
  BY DEF Stages, GroupStages, OpenStages
<1>8. f \in StatementFrames
  BY <1>1, <1>6, <1>7, SomeOfNothing DEF StatementFrames
<1>9. /\ f.kind = "statement" /\ f.op = Top.op /\ f.atomic = Top.atomic
      /\ f.inputs = Top.inputs /\ f.originals = Top.originals /\ f.start = Top.start
      /\ f.ready = Top.ready /\ f.pending = Top.pending /\ f.group = Top.group
      /\ f.outcomes = Top.outcomes /\ f.stage = "before" /\ f.held = held
  BY <1>1 DEF StatementFrames
<1> HIDE DEF f
<1>10. GroupOf(f) = GroupOf(Top)
  BY <1>9 DEF GroupOf
<1>11. DOMAIN f.held = GroupOf(f) /\ \A h \in DOMAIN f.held : f.held[h] = image[h]
  BY <1>6, <1>9, <1>10
<1>12. SameRows(f)
  BY <1>9 DEF SameRows, SameStatement
<1>13. \A i \in DOMAIN f.outcomes : f.outcomes[i] = "OK" => i \in DOMAIN Top.outcomes /\ Top.outcomes[i] = "OK"
  BY <1>9
<1>14. f.group \subseteq Top.group /\ DOMAIN f.outcomes = DOMAIN Top.outcomes \cup (Top.group \ f.group)
       /\ f.stage \in GroupStages /\ f.stage # "attempt" /\ f.stage \notin {"after", "settle"}
  BY <1>7, <1>9, StageNames
<1>15. IsOrderly(f)
  BY <1>1, <1>8, <1>9, <1>11, <1>13, <1>14, StaysInGroup
<1> QED
  BY <1>2, <1>4, <1>5, <1>8, <1>9, <1>11, <1>12, <1>15

LEMMA BeginAttemptStep == ASSUME DmlStructure, BeginAttempt PROVE DmlStructure'
<1>1. PICK f \in StatementFrames :
          /\ stack' = Become(f) /\ IsOrderly(f) /\ SameRows(f) /\ f.stage = "before"
          /\ f.start = Top.start
  BY BeginAttemptFrame
<1>2. image' \in [Handles -> Images]
  BY BeginAttemptFrame
<1>3. stack # <<>> /\ IsStatement(Top) /\ Top.stage = "attempt"
  BY AtStatement DEF BeginAttempt
<1>4. f.kind = "statement" /\ f.start.db = Top.start.db /\ f.atomic = Top.atomic
      /\ f.start.queries = Top.start.queries /\ f.stage # "attempt"
  BY <1>1 DEF SameRows, SameStatement
<1>5. /\ BeginUnit /\ UNCHANGED db /\ UNCHANGED <<depth, readOnly, fuel>> /\ UNCHANGED baselines
      /\ UNCHANGED queries
  BY DEF BeginAttempt
<1>6. queries' \in Nat
  BY <1>5 DEF DmlStructure, DmlTypes
<1>7. ~HasOpenAttempt(Top) /\ HasOpenAttempt(f) /\ (HasOpenScope(f) <=> HasOpenScope(Top))
  BY <1>1, <1>3, <1>4, OpenFlags, StageNames DEF IsStatement
<1> QED
  BY <1>1, <1>2, <1>3, <1>4, <1>5, <1>6, <1>7, BecomeStep

-----------------------------------------------------------------------------
(* The steps of triggers                                                   *)

\* An open attempt moves on to another of its stages.
LEMMA StageMoves ==
    ASSUME NEW g \in StatementFrames, IsOrderly(g), g.stage \in OpenStages,
           NEW stage \in OpenStages,
           stage \in {"after", "settle"} => g.stage \in {"after", "settle"}
    PROVE  LET f == [g EXCEPT !.stage = stage]
           IN  /\ f \in StatementFrames /\ IsOrderly(f) /\ f.stage = stage
               /\ f.kind = "statement" /\ f.op = g.op /\ f.atomic = g.atomic /\ f.inputs = g.inputs
               /\ f.originals = g.originals /\ f.outcomes = g.outcomes /\ f.ready = g.ready
               /\ f.pending = g.pending /\ f.group = g.group /\ f.attempt = g.attempt
               /\ f.held = g.held /\ f.results = g.results /\ f.start = g.start
<1> DEFINE f == [g EXCEPT !.stage = stage]
<1>1. stage \in Stages /\ g.stage \in GroupStages /\ stage \in GroupStages /\ stage # "attempt"
  BY StageNames
<1>2. f \in StatementFrames
  BY <1>1 DEF StatementFrames
<1>3. /\ f.stage = stage
      /\ f.kind = "statement" /\ f.op = g.op /\ f.atomic = g.atomic /\ f.inputs = g.inputs
      /\ f.originals = g.originals /\ f.outcomes = g.outcomes /\ f.ready = g.ready
      /\ f.pending = g.pending /\ f.group = g.group /\ f.attempt = g.attempt
      /\ f.held = g.held /\ f.results = g.results /\ f.start = g.start
  BY DEF StatementFrames
<1> HIDE DEF f
<1>4. GroupOf(f) = GroupOf(g)
  BY <1>3 DEF GroupOf
<1>5. DOMAIN f.held = GroupOf(f)
  BY <1>1, <1>3, <1>4, InGroup
<1>6. f.stage \in {"after", "settle"} => DOMAIN f.results = f.group
  BY <1>1, <1>3, InGroup
<1>7. f.group \subseteq g.group /\ DOMAIN f.outcomes = DOMAIN g.outcomes \cup (g.group \ f.group)
      /\ f.stage \in GroupStages /\ f.stage # "attempt"
  BY <1>1, <1>3
<1>8. \A i \in DOMAIN f.outcomes : f.outcomes[i] = "OK" => i \in DOMAIN g.outcomes /\ g.outcomes[i] = "OK"
  BY <1>3
<1>9. IsOrderly(f)
  BY <1>1, <1>2, <1>3, <1>5, <1>6, <1>7, <1>8, StaysInGroup
<1> QED
  BY <1>2, <1>3, <1>9 DEF f

LEMMA NextStages ==
    /\ NextStage("before") = "write" /\ NextStage("after") = "settle"
    /\ {"before", "write", "after", "settle", "failed"} \subseteq OpenStages
BY DEF NextStage, OpenStages

\* SkipTriggers and HostFails only move the statement on.
LEMMA MovedFrame ==
    ASSUME DmlStructure, SkipTriggers \/ HostFails
    PROVE  /\ stack # <<>> /\ IsStatement(Top) /\ Top.stage \in OpenStages
           /\ \E f \in StatementFrames :
                  /\ stack' = Become(f) /\ IsOrderly(f) /\ SameRows(f) /\ f.stage \in OpenStages
                  /\ f.outcomes = Top.outcomes /\ f.group = Top.group /\ f.start = Top.start
                  /\ f.held = Top.held /\ f.results = Top.results
                  /\ f.stage \in {"after", "settle"} => Top.stage \in {"after", "settle"}
                  /\ f.stage \in {"before", "write"} => Top.stage = "before"
<1>1. ASSUME NEW stage \in OpenStages, NEW next \in OpenStages, At(stage),
             next \in {"after", "settle"} => stage \in {"after", "settle"},
             next \in {"before", "write"} => stage = "before",
             stack' = Become([Top EXCEPT !.stage = next])
      PROVE  /\ stack # <<>> /\ IsStatement(Top) /\ Top.stage \in OpenStages
             /\ \E f \in StatementFrames :
                  /\ stack' = Become(f) /\ IsOrderly(f) /\ SameRows(f) /\ f.stage \in OpenStages
                  /\ f.outcomes = Top.outcomes /\ f.group = Top.group /\ f.start = Top.start
                  /\ f.held = Top.held /\ f.results = Top.results
                  /\ f.stage \in {"after", "settle"} => Top.stage \in {"after", "settle"}
                  /\ f.stage \in {"before", "write"} => Top.stage = "before"
  <2> DEFINE f == [Top EXCEPT !.stage = next]
  <2>1. /\ Top \in StatementFrames /\ IsOrderly(Top) /\ Top.stage = stage /\ stack # <<>>
        /\ IsStatement(Top)
    BY <1>1, AtStatement
  <2>2. /\ f \in StatementFrames /\ IsOrderly(f) /\ f.stage = next
        /\ f.kind = "statement" /\ f.op = Top.op /\ f.atomic = Top.atomic /\ f.inputs = Top.inputs
        /\ f.originals = Top.originals /\ f.outcomes = Top.outcomes /\ f.ready = Top.ready
        /\ f.group = Top.group /\ f.held = Top.held /\ f.results = Top.results
        /\ f.start = Top.start
    BY <1>1, <2>1, StageMoves
  <2>3. stack' = Become(f)
    BY <1>1
  <2> HIDE DEF f
  <2> QED
    BY <1>1, <2>1, <2>2, <2>3 DEF SameRows, SameStatement
<1>2. CASE SkipTriggers
  <2>1. PICK phase \in Phases :
            At(phase) /\ stack' = Become([Top EXCEPT !.stage = NextStage(phase)])
    BY <1>2 DEF SkipTriggers
  <2>2. CASE phase = "before"
    <3>1. "before" \in OpenStages /\ "write" \in OpenStages /\ NextStage(phase) = "write"
      BY <2>2, NextStages
    <3> QED
      BY <1>1, <2>1, <2>2, <3>1
  <2>3. CASE phase = "after"
    <3>1. "after" \in OpenStages /\ "settle" \in OpenStages /\ NextStage(phase) = "settle"
      BY <2>3, NextStages
    <3> QED
      BY <1>1, <2>1, <2>3, <3>1
  <2> QED
    BY <2>2, <2>3 DEF Phases
<1>3. CASE HostFails
  <2>1. At("write") /\ stack' = Become([Top EXCEPT !.stage = "failed"])
    BY <1>3 DEF HostFails
  <2>2. "write" \in OpenStages /\ "failed" \in OpenStages
    BY NextStages
  <2> QED
    BY <1>1, <2>1, <2>2
<1> QED
  BY <1>2, <1>3

LEMMA MovedStep == ASSUME DmlStructure, SkipTriggers \/ HostFails PROVE DmlStructure'
<1>1. stack # <<>> /\ IsStatement(Top) /\ Top.stage \in OpenStages
  BY MovedFrame
<1>2. PICK f \in StatementFrames :
          /\ stack' = Become(f) /\ IsOrderly(f) /\ SameRows(f) /\ f.stage \in OpenStages
          /\ f.start = Top.start
  BY MovedFrame
<1>3. f.kind = "statement" /\ f.atomic = Top.atomic /\ f.start.db = Top.start.db
      /\ f.start.queries = Top.start.queries /\ f.stage # "attempt"
  BY <1>2, StageNames DEF SameRows, SameStatement
<1>4. UNCHANGED <<db, checkpoints, image, readOnly, depth, queries, baselines, fuel>>
  BY DEF SkipTriggers, HostFails
<1>5. image' \in [Handles -> Images] /\ queries' \in Nat
  BY <1>4 DEF DmlStructure, DmlTypes
<1>6. HasOpenAttempt(Top) /\ HasOpenAttempt(f) /\ (HasOpenScope(f) <=> HasOpenScope(Top))
  BY <1>1, <1>2, <1>3, OpenFlags DEF IsStatement
<1> QED
  BY <1>1, <1>2, <1>3, <1>4, <1>5, <1>6, BecomeStep

\* What a trigger body is given: SObjects of its group.
LEMMA EnteredFrame ==
    ASSUME DmlStructure, EnterTriggers
    PROVE  \E f \in TriggerFrames :
               /\ stack' = Push(f) /\ StandsOn(stack, f) /\ f.kind = "trigger"
               /\ f.context \subseteq GroupOf(Top) /\ At(f.phase) /\ f.phase \in Phases
               /\ f.saved = readOnly /\ readOnly' = ReadOnlyIn(f.phase, f.context, f.saved)
<1>1. PICK phase \in Phases :
          /\ At(phase)
          /\ TriggerCount[<<GroupOp, phase>>] > 0
          /\ stack' = Push(Entered(phase, PhaseHandles(phase), readOnly,
                                   TriggerCount[<<GroupOp, phase>>] - 1))
          /\ readOnly' = ReadOnlyIn(phase, PhaseHandles(phase), readOnly)
  BY DEF EnterTriggers
<1> DEFINE context == PhaseHandles(phase)
           left == TriggerCount[<<GroupOp, phase>>] - 1
           f == Entered(phase, context, readOnly, left)
<1>2. /\ Top \in StatementFrames /\ IsOrderly(Top) /\ Top.stage = phase /\ stack # <<>>
      /\ IsStatement(Top) /\ DmlTypes
  BY <1>1, AtStatement
<1>3. Top.stage \in GroupStages
  BY <1>2, StageNames, NextStages DEF Phases
<1>4. Top.pending \in Seq(GroupOps) /\ Top.pending # <<>> /\ GroupOf(Top) \subseteq Handles
      /\ \A i, j \in 1..Len(Top.pending) : Top.pending[i] = Top.pending[j] => i = j
  BY <1>2, <1>3, InGroup
<1>5. GroupOp \in Operations
  <2>1. GroupOp \in GroupOps
    BY <1>4, PendingTail DEF GroupOp
  <2> QED
    BY <2>1 DEF GroupOps, Operations
<1>6. left \in Nat
  <2>1. TriggerCount[<<GroupOp, phase>>] \in Nat
    BY <1>5, DmlEngineAssumption
  <2> QED
    BY <1>1, <2>1
<1>7. context \subseteq GroupOf(Top)
  <2>1. phase = "after" => DOMAIN Top.results = Top.group
    BY <1>2, <1>3, InGroup
  <2>2. phase = "after" => {Top.inputs[i] : i \in Succeeded(Top)} \subseteq GroupOf(Top)
    BY <2>1 DEF Succeeded, GroupOf
  <2>3. GroupHandles = GroupOf(Top)
    BY DEF GroupHandles, GroupOf
  <2> QED
    BY <2>2, <2>3 DEF PhaseHandles, Phases
<1>8. readOnly \in SUBSET Handles /\ readOnly = ReadOnlyOf(stack, Len(stack))
  BY <1>2 DEF DmlTypes, DmlStructure, IsStructured, IsCounted
<1> HIDE DEF context, left
<1>9. /\ f.kind = "trigger" /\ f.phase = phase /\ f.context = context /\ f.saved = readOnly
      /\ f.left = left
  BY DEF Entered
<1>10. f \in TriggerFrames
  BY <1>4, <1>6, <1>7, <1>8 DEF Entered, TriggerFrames
<1>11. stack' = Push(f) /\ readOnly' = ReadOnlyIn(f.phase, f.context, f.saved)
  BY <1>1, <1>9 DEF context, left
<1> HIDE DEF f
<1>12. Top = stack[Len(stack)] /\ Len(stack) # 0
  BY <1>2, TopFrame
<1>13. StandsOn(stack, f)
  BY <1>2, <1>7, <1>8, <1>9, <1>12 DEF StandsOn, IsStatement
<1> QED
  BY <1>1, <1>7, <1>9, <1>10, <1>11, <1>13

LEMMA TriggerIsCode ==
    ASSUME NEW f \in TriggerFrames
    PROVE  /\ f \in Frames /\ f.kind = "trigger" /\ ~HasOpenAttempt(f) /\ ~HasOpenScope(f)
           /\ f.phase \in Phases /\ f.context \in SUBSET Handles /\ f.saved \in SUBSET Handles
           /\ ReadOnlyIn(f.phase, f.context, f.saved)
                = f.saved \cup (IF f.phase = "after" THEN f.context ELSE {})
           /\ ReadOnlyIn(f.phase, f.context, f.saved) \in SUBSET Handles
<1>1. f \in Frames /\ f.kind = "trigger" /\ f.phase \in Phases /\ f.context \in SUBSET Handles
      /\ f.saved \in SUBSET Handles
  BY DEF Frames, TriggerFrames
<1>2. ~HasOpenAttempt(f) /\ ~HasOpenScope(f)
  BY <1>1 DEF HasOpenAttempt, HasOpenScope, IsStatement
<1> QED
  BY <1>1, <1>2 DEF ReadOnlyIn

\* A step to a stack whose structure is kept.
LEMMA StructuredStep ==
    ASSUME DmlTypes,
           IsStructured(stack', checkpoints', baselines', depth', readOnly'),
           stack' # <<>> => Top'.kind # "statement" \/ Top'.stage # "attempt",
           db' \in Databases, image' \in [Handles -> Images], readOnly' \in SUBSET Handles,
           depth' \in Int, UNCHANGED <<queries, fuel>>
    PROVE  DmlStructure'
BY DEF DmlStructure, DmlTypes, IsStructured, At

LEMMA EnterTriggersStep == ASSUME DmlStructure, EnterTriggers PROVE DmlStructure'
<1>1. PICK f \in TriggerFrames :
          /\ stack' = Push(f) /\ StandsOn(stack, f) /\ f.kind = "trigger"
          /\ At(f.phase) /\ f.phase \in Phases
          /\ f.saved = readOnly /\ readOnly' = ReadOnlyIn(f.phase, f.context, f.saved)
  BY EnteredFrame
<1>2. /\ f \in Frames /\ f.kind = "trigger" /\ ~HasOpenAttempt(f) /\ ~HasOpenScope(f)
      /\ readOnly' = readOnly \cup (IF f.phase = "after" THEN f.context ELSE {})
      /\ readOnly' \in SUBSET Handles
  BY <1>1, TriggerIsCode
<1>3. depth' = depth + 1 /\ UNCHANGED <<db, checkpoints, image, queries, baselines, fuel>>
  BY DEF EnterTriggers
<1>4. /\ stack # <<>> /\ IsStatement(Top) /\ Top.stage = f.phase /\ DmlTypes
  BY <1>1, AtStatement
<1>5. stack \in Seq(Frames) /\ Top = stack[Len(stack)] /\ depth \in Int
  BY <1>4 DEF DmlTypes, Top
<1>6. HasOpenAttempt(stack[Len(stack)])
  BY <1>1, <1>4, <1>5, OpenFlags, NextStages DEF IsStatement, Phases
<1>7. IsStructured(stack, checkpoints, baselines, depth, readOnly)
  BY DEF DmlStructure
<1>8. IsStructured(Append(stack, f), checkpoints, baselines, depth', readOnly')
  BY <1>1, <1>2, <1>3, <1>4, <1>5, <1>6, <1>7, Pushing
<1>9. stack' = Append(stack, f) /\ Top' = f
  BY <1>1, <1>2, <1>5, Appended DEF Push, Top
<1>10. IsStructured(stack', checkpoints', baselines', depth', readOnly')
  BY <1>3, <1>8, <1>9
<1>11. db' \in Databases /\ image' \in [Handles -> Images] /\ depth' \in Int
  BY <1>3, <1>4, <1>5 DEF DmlTypes
<1> QED
  BY <1>2, <1>3, <1>4, <1>9, <1>10, <1>11, StructuredStep

\* A trigger body stands on the open attempt that runs it.
LEMMA TriggerOnTop ==
    ASSUME DmlStructure, InTrigger
    PROVE  /\ Top \in TriggerFrames /\ Top \in Frames /\ Top.kind = "trigger"
           /\ Below \in Seq(Frames) /\ Below # <<>> /\ StandsOn(Below, Top)
           /\ IsStructured(Append(Below, Top), checkpoints, baselines, depth, readOnly)
           /\ IsStructured(Below, checkpoints, baselines, depth - 1, Top.saved)
           /\ Last(Below) = Below[Len(Below)] /\ Last(Below) \in StatementFrames
           /\ Last(Below).kind = "statement" /\ IsOrderly(Last(Below))
           /\ Last(Below).stage = Top.phase /\ Top.phase \in Phases
           /\ Last(Below).stage \in OpenStages /\ HasOpenAttempt(Last(Below))
           /\ Top.context \subseteq GroupOf(Last(Below))
           /\ Front(Below) \in Seq(Frames) /\ Below = Append(Front(Below), Last(Below))
<1>1. /\ Len(stack) \in Nat \ {0} /\ Top \in TriggerFrames /\ Top \in Frames
      /\ Top.kind = "trigger" /\ Below \in Seq(Frames) /\ stack = Append(Below, Top)
  BY TopFrame DEF InTrigger, DmlStructure
<1>2. IsStructured(Append(Below, Top), checkpoints, baselines, depth, readOnly)
  BY <1>1 DEF DmlStructure
<1>3. Carries(Below, checkpoints, baselines) /\ StandsOn(Below, Top)
  <2>1. Carries(Below, checkpoints, baselines)
         /\ AddsTo(Below, Top, checkpoints, baselines, depth, readOnly)
    BY <1>1, <1>2, Composed
  <2> QED
    BY <1>1, <2>1, NestedTop DEF AddsTo
<1>4. Below # <<>>
  BY <1>1, <1>3 DEF StandsOn
<1>5. Last(Below) = Below[Len(Below)] /\ Len(Below) \in 1..Len(Below) /\ Last(Below) \in Frames
      /\ Front(Below) \in Seq(Frames) /\ Below = Append(Front(Below), Last(Below))
  BY <1>1, <1>4, FrontProperties, TopAndBelow DEF Last
<1>6. /\ Last(Below).kind = "statement" /\ Last(Below).stage = Top.phase
      /\ Top.context \subseteq GroupOf(Last(Below))
  BY <1>1, <1>3, <1>5 DEF StandsOn
<1>7. Last(Below) \in StatementFrames /\ IsOrderly(Last(Below))
  BY <1>3, <1>5, <1>6, KindsOfFrames DEF Carries, StackIsOrderly
<1>8. Top.phase \in Phases /\ ~HasOpenAttempt(Top) /\ ~HasOpenScope(Top)
  BY <1>1, TriggerIsCode
<1>9. Last(Below).stage \in OpenStages /\ HasOpenAttempt(Last(Below))
  BY <1>6, <1>8, OpenFlags, NextStages DEF Phases
<1>10. IsStructured(Below, checkpoints, baselines, depth - 1, Top.saved)
  BY <1>1, <1>2, <1>4, <1>8, Popping
<1> QED
  BY <1>1, <1>2, <1>3, <1>4, <1>5, <1>6, <1>7, <1>8, <1>9, <1>10

LEMMA NextTriggerStep == ASSUME DmlStructure, NextTrigger PROVE DmlStructure'
<1> DEFINE f == [Top EXCEPT !.left = Top.left - 1]
<1>1. /\ InTrigger /\ Top.left > 0 /\ stack' = Become(f)
      /\ readOnly' = ReadOnlyIn(Top.phase, Top.context, Top.saved)
      /\ UNCHANGED <<db, checkpoints, image, depth, queries, baselines, fuel>>
  BY DEF NextTrigger
<1>2. /\ Top \in TriggerFrames /\ Below \in Seq(Frames) /\ Below # <<>> /\ StandsOn(Below, Top)
      /\ IsStructured(Below, checkpoints, baselines, depth - 1, Top.saved)
      /\ Last(Below) = Below[Len(Below)] /\ HasOpenAttempt(Last(Below))
  BY <1>1, TriggerOnTop
<1>3. /\ f \in TriggerFrames /\ f.kind = Top.kind /\ f.phase = Top.phase
      /\ f.context = Top.context /\ f.saved = Top.saved
  BY <1>1, <1>2 DEF TriggerFrames
<1> HIDE DEF f
<1>4. /\ f \in Frames /\ f.kind = "trigger" /\ ~HasOpenAttempt(f) /\ ~HasOpenScope(f)
      /\ readOnly' = Top.saved \cup (IF f.phase = "after" THEN f.context ELSE {})
      /\ readOnly' \in SUBSET Handles
  BY <1>1, <1>3, TriggerIsCode
<1>5. StandsOn(Below, f)
  BY <1>2, <1>3 DEF StandsOn
<1>6. depth \in Int /\ DmlTypes
  BY DEF DmlStructure, DmlTypes
<1>7. depth' = (depth - 1) + 1
  BY <1>1, <1>6
<1>8. IsStructured(Append(Below, f), checkpoints, baselines, depth', readOnly')
  BY <1>2, <1>4, <1>5, <1>7, Pushing
<1>9. stack' = Append(Below, f) /\ Top' = f
  BY <1>1, <1>2, <1>4, Appended DEF Become, Top
<1>10. IsStructured(stack', checkpoints', baselines', depth', readOnly')
  BY <1>1, <1>8, <1>9
<1>11. db' \in Databases /\ image' \in [Handles -> Images] /\ depth' \in Int
  BY <1>1, <1>6 DEF DmlTypes
<1> QED
  BY <1>1, <1>4, <1>6, <1>9, <1>10, <1>11, StructuredStep

\* A body ends, normally or not: the statement it ran for moves on.
LEMMA LeftFrame ==
    ASSUME DmlStructure, ReturnFromTrigger \/ ThrowInTrigger
    PROVE  /\ InTrigger
           /\ \E f \in StatementFrames :
                  /\ stack' = Append(Front(Below), f) /\ IsOrderly(f) /\ f.stage \in OpenStages
                  /\ f.kind = "statement" /\ f.op = Last(Below).op /\ f.atomic = Last(Below).atomic
                  /\ f.inputs = Last(Below).inputs /\ f.originals = Last(Below).originals
                  /\ f.outcomes = Last(Below).outcomes /\ f.ready = Last(Below).ready
                  /\ f.group = Last(Below).group /\ f.start = Last(Below).start
                  /\ f.held = Last(Below).held /\ f.results = Last(Below).results
                  /\ f.stage \in {"after", "settle"} => Last(Below).stage \in {"after", "settle"}
                  /\ f.stage \in {"before", "write"} => Last(Below).stage = "before"
           /\ depth' = depth - 1 /\ readOnly' = Top.saved
           /\ UNCHANGED <<db, checkpoints, image, queries, baselines, fuel>>
<1> DEFINE g == Last(Below)
<1>1. InTrigger
  BY DEF ReturnFromTrigger, ThrowInTrigger
<1>2. g \in StatementFrames /\ IsOrderly(g) /\ g.stage = Top.phase /\ Top.phase \in Phases
      /\ g.stage \in OpenStages
  BY <1>1, TriggerOnTop
<1>3. \E next \in OpenStages :
          /\ stack' = Append(Front(Below), [g EXCEPT !.stage = next])
          /\ next \in {"after", "settle"} => g.stage \in {"after", "settle"}
          /\ next \in {"before", "write"} => g.stage = "before"
  <2>1. CASE ReturnFromTrigger
    <3>1. stack' = Append(Front(Below), [g EXCEPT !.stage = NextStage(Top.phase)])
      BY <2>1 DEF ReturnFromTrigger, LeaveTrigger
    <3>2. NextStage(Top.phase) \in OpenStages
          /\ (NextStage(Top.phase) \in {"after", "settle"} => g.stage \in {"after", "settle"})
          /\ (NextStage(Top.phase) \in {"before", "write"} => g.stage = "before")
      BY <1>2, NextStages DEF Phases
    <3> QED
      BY <3>1, <3>2
  <2>2. CASE ThrowInTrigger
    <3>1. stack' = Append(Front(Below), [g EXCEPT !.stage = "failed"])
      BY <2>2 DEF ThrowInTrigger, LeaveTrigger
    <3>2. "failed" \in OpenStages /\ "failed" \notin {"after", "settle", "before", "write"}
      BY NextStages
    <3> QED
      BY <3>1, <3>2
  <2> QED
    BY <2>1, <2>2
<1>4. PICK next \in OpenStages :
          /\ stack' = Append(Front(Below), [g EXCEPT !.stage = next])
          /\ next \in {"after", "settle"} => g.stage \in {"after", "settle"}
          /\ next \in {"before", "write"} => g.stage = "before"
  BY <1>3
<1> DEFINE f == [g EXCEPT !.stage = next]
<1> HIDE DEF g
<1>5. /\ f \in StatementFrames /\ IsOrderly(f) /\ f.stage = next
      /\ f.kind = "statement" /\ f.op = g.op /\ f.atomic = g.atomic /\ f.inputs = g.inputs
      /\ f.originals = g.originals /\ f.outcomes = g.outcomes /\ f.ready = g.ready
      /\ f.group = g.group /\ f.held = g.held /\ f.results = g.results /\ f.start = g.start
  BY <1>2, <1>4, StageMoves
<1>6. stack' = Append(Front(Below), f)
  BY <1>4
<1> HIDE DEF f
<1>7. depth' = depth - 1 /\ readOnly' = Top.saved
      /\ UNCHANGED <<db, checkpoints, image, queries, baselines, fuel>>
  BY DEF ReturnFromTrigger, ThrowInTrigger, SavedReadOnly
<1> QED
  BY <1>1, <1>4, <1>5, <1>6, <1>7 DEF g

LEMMA LeftStep == ASSUME DmlStructure, ReturnFromTrigger \/ ThrowInTrigger PROVE DmlStructure'
<1> DEFINE g == Last(Below)
           s == Front(Below)
<1>1. PICK f \in StatementFrames :
          /\ stack' = Append(s, f) /\ IsOrderly(f) /\ f.stage \in OpenStages
          /\ f.kind = "statement" /\ f.atomic = g.atomic /\ f.start = g.start
  BY LeftFrame
<1>2. /\ InTrigger /\ depth' = depth - 1 /\ readOnly' = Top.saved
      /\ UNCHANGED <<db, checkpoints, image, queries, baselines, fuel>>
  BY LeftFrame
<1>3. /\ Top \in TriggerFrames /\ IsStructured(Below, checkpoints, baselines, depth - 1, Top.saved)
      /\ g \in StatementFrames /\ g.kind = "statement" /\ g.stage \in OpenStages
      /\ s \in Seq(Frames) /\ Below = Append(s, g)
  BY <1>2, TriggerOnTop
<1> HIDE DEF g, s
<1>4. f \in Frames /\ g \in Frames /\ f.start.queries \in Nat /\ Top.saved \in SUBSET Handles
      /\ f.start.db = g.start.db
  BY <1>1, <1>3, StatementTypes, TriggerIsCode DEF Frames
<1>5. HasOpenAttempt(f) /\ HasOpenAttempt(g) /\ (HasOpenScope(f) <=> HasOpenScope(g))
      /\ f.stage # "attempt"
  BY <1>1, <1>3, OpenFlags, StageNames
<1>6. DmlTypes /\ db \in Databases
  BY DEF DmlStructure, DmlTypes
<1>7. IsStructured(Append(s, g), checkpoints, baselines, depth - 1, Top.saved)
  BY <1>3
<1>8. IsStructured(Append(s, f), checkpoints, baselines, depth - 1, Top.saved)
  BY <1>1, <1>3, <1>4, <1>5, <1>6, <1>7, Becoming
<1>9. IsStructured(stack', checkpoints', baselines', depth', readOnly')
  BY <1>1, <1>2, <1>8
<1>10. Top' = f
  BY <1>1, <1>3, <1>4, Appended DEF Top
<1>11. db' \in Databases /\ image' \in [Handles -> Images] /\ depth' \in Int /\ readOnly' \in SUBSET Handles
  BY <1>2, <1>4, <1>6 DEF DmlTypes
<1> QED
  BY <1>2, <1>5, <1>6, <1>9, <1>10, <1>11, StructuredStep

-----------------------------------------------------------------------------
(* The write                                                               *)

Unwritten == [db |-> db, statuses |-> <<>>, images |-> <<>>]

Ran(before, i) == IF i \in Top.group THEN RunRow(before, i) ELSE before

\* The rows of a request run one after another: what is done up to a row extends
\* what is done up to the one before.
LEMMA RowsRun ==
    ASSUME Len(Top.inputs) \in Nat
    PROVE  /\ Done = [i \in 0..Len(Top.inputs) |->
                         IF i = 0 THEN Unwritten ELSE Ran(Done[i - 1], i)]
           /\ Done[0] = Unwritten
           /\ \A n \in 0..(Len(Top.inputs) - 1) : Done[n + 1] = Ran(Done[n], n + 1)
<1> DEFINE N == Len(Top.inputs)
           IsDone(r, n) == r = [i \in 0..n |-> IF i = 0 THEN Unwritten ELSE Ran(r[i - 1], i)]
           T == {n \in 0..N : \E r : IsDone(r, n)}
<1>1. 0 \in T
  <2> DEFINE r == [i \in 0..0 |-> Unwritten]
  <2>1. r[0] = Unwritten /\ \A i \in 0..0 : i = 0
    OBVIOUS
  <2>2. r = [i \in 0..0 |-> IF i = 0 THEN Unwritten ELSE Ran(r[i - 1], i)]
    BY <2>1
  <2> HIDE DEF r
  <2>3. IsDone(r, 0) /\ 0 \in 0..N
    BY <2>2
  <2> QED
    BY <2>3
<1>2. ASSUME NEW n \in 0..(N - 1), n \in T PROVE n + 1 \in T
  <2>1. PICK r : IsDone(r, n)
    BY <1>2
  <2> DEFINE s == [i \in 0..(n + 1) |-> IF i \in 0..n THEN r[i] ELSE Ran(r[n], n + 1)]
  <2>2. n \in Nat /\ (n + 1) - 1 = n /\ n + 1 # 0 /\ n + 1 \in 0..N /\ n + 1 \notin 0..n
    OBVIOUS
  <2>3. \A i \in 0..n : s[i] = r[i] /\ r[i] = IF i = 0 THEN Unwritten ELSE Ran(r[i - 1], i)
    BY <2>1
  <2>4. s[n + 1] = Ran(r[n], n + 1) /\ s[n] = r[n]
    BY <2>2
  <2>5. \A i \in 0..(n + 1) : s[i] = IF i = 0 THEN Unwritten ELSE Ran(s[i - 1], i)
    <3> TAKE i \in 0..(n + 1)
    <3>1. CASE i = n + 1
      BY <2>2, <2>4, <3>1
    <3>2. CASE i \in 0..n
      <4>1. i # 0 => i - 1 \in 0..n
        BY <3>2
      <4> QED
        BY <2>3, <3>2, <4>1
    <3> QED
      BY <2>2, <3>1, <3>2
  <2> HIDE DEF s
  <2>6. s = [i \in 0..(n + 1) |-> s[i]]
    BY DEF s
  <2>7. IsDone(s, n + 1)
    BY <2>5, <2>6
  <2> QED
    BY <2>2, <2>7
<1> HIDE DEF T
<1>3. N \in T
  <2>1. N \in Nat
    OBVIOUS
  <2> HIDE DEF N
  <2>2. 0..N \subseteq T
    BY <1>1, <1>2, <2>1, RowInduction
  <2> QED
    BY <2>1, <2>2
<1>4. \E r : IsDone(r, N)
  BY <1>3 DEF T
<1>5. IsDone(Done, N)
  BY <1>4 DEF Done, Ran, Unwritten
<1>6. Done[0] = Unwritten
  BY <1>5
<1>7. ASSUME NEW n \in 0..(N - 1) PROVE Done[n + 1] = Ran(Done[n], n + 1)
  <2>1. n + 1 \in 0..N /\ n + 1 # 0 /\ (n + 1) - 1 = n
    OBVIOUS
  <2> QED
    BY <1>5, <2>1
<1> QED
  BY <1>5, <1>6, <1>7

LEMMA PutStatus ==
    ASSUME NEW f \in SomeStatuses, NEW i \in Nat, NEW s \in RowStatuses
    PROVE  /\ Put(f, i, s) \in SomeStatuses /\ DOMAIN Put(f, i, s) = DOMAIN f \cup {i}
           /\ \A j \in DOMAIN f \cup {i} : Put(f, i, s)[j] = IF j = i THEN s ELSE f[j]
<1>1. PICK S \in SUBSET Nat : f \in [S -> RowStatuses]
  BY DEF SomeStatuses
<1>2. Put(f, i, s) \in [S \cup {i} -> RowStatuses] /\ S \cup {i} \in SUBSET Nat
  BY <1>1 DEF Put
<1>3. Put(f, i, s) \in SomeStatuses
  BY <1>2 DEF SomeStatuses
<1> QED
  BY <1>3 DEF Put

LEMMA PutImage ==
    ASSUME NEW f \in SomeImages, NEW h \in Handles, NEW m \in Images
    PROVE  /\ Put(f, h, m) \in SomeImages /\ DOMAIN Put(f, h, m) = DOMAIN f \cup {h}
           /\ Put(f, h, m)[h] = m
           /\ \A g \in DOMAIN f \ {h} : Put(f, h, m)[g] = f[g]
<1>1. PICK S \in SUBSET Handles : f \in [S -> Images]
  BY DEF SomeImages
<1>2. Put(f, h, m) \in [S \cup {h} -> Images] /\ S \cup {h} \in SUBSET Handles
  BY <1>1 DEF Put
<1>3. Put(f, h, m) \in SomeImages
  BY <1>2 DEF SomeImages
<1> QED
  BY <1>3 DEF Put

\* The rows written by then.
WrittenRows(done) == {i \in DOMAIN done.statuses : done.statuses[i] = "OK"}

\* What the rows up to n have done: the SObject of a row that was written has
\* an Id that is known, the one it had if it had one.
IsWritten(done, n) ==
    /\ done.db \in Databases /\ Known(db) \subseteq Known(done.db)
    /\ done.statuses \in SomeStatuses /\ DOMAIN done.statuses = Top.group \cap (1..n)
    /\ done.images \in SomeImages
    /\ DOMAIN done.images = {Top.inputs[i] : i \in WrittenRows(done)}
    /\ \A h \in DOMAIN done.images :
           /\ done.images[h].id \in Known(done.db)
           /\ image[h].id # Null => done.images[h].id = image[h].id

LEMMA RowIsRun ==
    ASSUME DmlStructure, At("write"), NEW n \in Nat, n + 1 \in Top.group,
           NEW done, IsWritten(done, n),
           DrawsId(GroupOp, RowOf(Top.inputs[n + 1])) => CanDraw(done.db, object)
    PROVE  IsWritten(RunRow(done, n + 1), n + 1)
<1> DEFINE i == n + 1
           h == Top.inputs[i]
           row == RowOf(h)
           result == RowResult(done.db, GroupOp, row)
           after == RunRow(done, i)
<1>1. /\ Top \in StatementFrames /\ IsOrderly(Top) /\ DmlTypes /\ Top.stage \in GroupStages
  BY AtStatement, StageNames, NextStages
<1>2. /\ GroupOf(Top) \subseteq Handles /\ Top.pending \in Seq(GroupOps) /\ Top.pending # <<>>
      /\ \A p, q \in 1..Len(Top.pending) : Top.pending[p] = Top.pending[q] => p = q
  BY <1>1, InGroup
<1>3. GroupOp \in GroupOps /\ h \in Handles
  BY <1>2, PendingTail DEF GroupOp, GroupOf
<1>4. IsRow(row) /\ row.id = image[h].id /\ row.fields \in CarriedFields
  BY <1>1, <1>3, RowOfHandle DEF IsRow
<1>5. done.db \in Databases
  BY DEF IsWritten
<1>6. /\ Keeps(done.db, row, result)
      /\ result.status = "OK" /\ GroupOp \in {"update", "undelete"} =>
             result.id \in DOMAIN result.db.live
  BY <1>3, <1>4, <1>5, RowKeeps
<1>7. /\ result.db \in Databases /\ Known(done.db) \subseteq Known(result.db)
      /\ result.status \in RowStatuses
      /\ result.status = "OK" =>
             result.id \in Known(result.db) /\ (image[h].id # Null => result.id = image[h].id)
  BY <1>4, <1>6 DEF Keeps
<1> DEFINE new == Written(result, row)
<1>8. result.status = "OK" => new \in Images /\ new.id = result.id
  <2> SUFFICES ASSUME result.status = "OK" PROVE new \in Images /\ new.id = result.id
    OBVIOUS
  <2>1. result.id \in Ids
    BY <1>7, DatabaseParts
  <2>2. GroupOp \in {"update", "undelete"} => result.db.live[result.id] \in CarriedFields
    BY <1>6, <1>7, InTable, DatabaseParts, StoredAreCarried
  <2>3. new = [id |-> result.id,
               fields |-> IF GroupOp \in {"update", "undelete"}
                          THEN result.db.live[result.id] ELSE row.fields]
    BY DEF Written
  <2> QED
    BY <1>4, <2>1, <2>2, <2>3 DEF Images
<1>9. /\ after.db = result.db
      /\ after.statuses = Put(done.statuses, i, result.status)
      /\ after.images = IF result.status = "OK" THEN Put(done.images, h, new) ELSE done.images
  BY DEF RunRow
<1> HIDE DEF result, row, new, after
<1>10. Known(db) \subseteq Known(after.db) /\ after.db \in Databases
  BY <1>7, <1>9 DEF IsWritten
<1>11. /\ after.statuses \in SomeStatuses /\ DOMAIN after.statuses = DOMAIN done.statuses \cup {i}
       /\ \A j \in DOMAIN done.statuses \cup {i} :
              after.statuses[j] = IF j = i THEN result.status ELSE done.statuses[j]
  <2> HIDE DEF i
  <2>1. done.statuses \in SomeStatuses /\ i \in Nat /\ result.status \in RowStatuses
    BY <1>7 DEF IsWritten, i
  <2> DEFINE statuses == Put(done.statuses, i, result.status)
  <2>2. /\ statuses \in SomeStatuses /\ DOMAIN statuses = DOMAIN done.statuses \cup {i}
        /\ \A j \in DOMAIN done.statuses \cup {i} :
               statuses[j] = IF j = i THEN result.status ELSE done.statuses[j]
    BY <2>1, PutStatus, ZenonT(60)
  <2>3. after.statuses = statuses
    BY <1>9
  <2> QED
    BY <2>2, <2>3
<1>12. DOMAIN after.statuses = Top.group \cap (1..i)
  <2>1. 1..i = (1..n) \cup {i}
    OBVIOUS
  <2> QED
    BY <1>11, <2>1 DEF IsWritten
<1>13. i \notin DOMAIN done.statuses
  BY DEF IsWritten
<1>14. WrittenRows(after) = WrittenRows(done) \cup (IF result.status = "OK" THEN {i} ELSE {})
  BY <1>11, <1>13 DEF WrittenRows
<1>15. /\ done.images \in SomeImages
       /\ DOMAIN done.images = {Top.inputs[j] : j \in WrittenRows(done)}
       /\ \A g \in DOMAIN done.images :
           /\ done.images[g].id \in Known(done.db)
           /\ image[g].id # Null => done.images[g].id = image[g].id
  BY DEF IsWritten
<1>16. /\ after.images \in SomeImages
       /\ DOMAIN after.images = {Top.inputs[j] : j \in WrittenRows(after)}
       /\ \A g \in DOMAIN after.images :
           /\ after.images[g].id \in Known(after.db)
           /\ image[g].id # Null => after.images[g].id = image[g].id
  <2>1. CASE result.status = "OK"
    <3>1. /\ after.images \in SomeImages /\ DOMAIN after.images = DOMAIN done.images \cup {h}
          /\ after.images[h] = new
          /\ \A g \in DOMAIN done.images \ {h} : after.images[g] = done.images[g]
      <4> HIDE DEF h
      <4>1. done.images \in SomeImages /\ h \in Handles /\ new \in Images
        BY <1>3, <1>8, <1>15, <2>1
      <4> DEFINE put == Put(done.images, h, new)
      <4>2. /\ put \in SomeImages /\ DOMAIN put = DOMAIN done.images \cup {h}
            /\ put[h] = new /\ \A g \in DOMAIN done.images \ {h} : put[g] = done.images[g]
        BY <4>1, PutImage, ZenonT(60)
      <4>3. after.images = put
        BY <1>9, <2>1
      <4> QED
        BY <4>2, <4>3
    <3>2. DOMAIN after.images = {Top.inputs[j] : j \in WrittenRows(after)}
      BY <1>14, <1>15, <2>1, <3>1
    <3> QED
      BY <1>7, <1>8, <1>9, <1>15, <2>1, <3>1, <3>2
  <2>2. CASE result.status # "OK"
    <3>1. after.images = done.images /\ WrittenRows(after) = WrittenRows(done)
          /\ Known(done.db) \subseteq Known(after.db)
      BY <1>7, <1>9, <1>14, <2>2
    <3> QED
      BY <1>15, <3>1
  <2> QED
    BY <2>1, <2>2
<1>17. IsWritten(after, i)
  BY <1>10, <1>11, <1>12, <1>16 DEF IsWritten
<1> QED
  BY <1>17 DEF after

LEMMA AllRowsRun ==
    ASSUME DmlStructure, Write
    PROVE  IsWritten(Done[Len(Top.inputs)], Len(Top.inputs))
<1> DEFINE N == Len(Top.inputs)
           T == {n \in 0..N : IsWritten(Done[n], n)}
<1>1. At("write") /\ Top \in StatementFrames /\ DmlTypes /\ MayDraw
  BY AtStatement DEF Write
<1>2. N \in Nat
  BY <1>1, StatementTypes
<1>3. Done[0] = Unwritten /\ \A n \in 0..(N - 1) : Done[n + 1] = Ran(Done[n], n + 1)
  BY <1>2, RowsRun
<1>4. 0 \in T
  <2>1. /\ Unwritten.db = db /\ Unwritten.statuses = <<>> /\ Unwritten.images = <<>>
    BY DEF Unwritten
  <2>2. db \in Databases
    BY <1>1 DEF DmlTypes
  <2>3. WrittenRows(Unwritten) = {} /\ 1..0 = {}
    BY <2>1, SomeOfNothing DEF WrittenRows
  <2>4. IsWritten(Unwritten, 0)
    BY <2>1, <2>2, <2>3, SomeOfNothing DEF IsWritten
  <2> QED
    BY <1>2, <1>3, <2>4
<1>5. ASSUME NEW n \in 0..(N - 1), n \in T PROVE n + 1 \in T
  <2>1. n \in Nat /\ n + 1 \in 0..N /\ IsWritten(Done[n], n) /\ (n + 1) - 1 = n
        /\ Done[n + 1] = Ran(Done[n], n + 1)
    BY <1>2, <1>3, <1>5
  <2>2. CASE n + 1 \in Top.group
    <3>1. DrawsId(GroupOp, RowOf(Top.inputs[n + 1])) => CanDraw(Done[n].db, object)
      BY <1>1, <2>1, <2>2 DEF MayDraw
    <3>2. IsWritten(RunRow(Done[n], n + 1), n + 1)
      BY <1>1, <2>1, <2>2, <3>1, RowIsRun
    <3> QED
      BY <2>1, <2>2, <3>2 DEF Ran
  <2>3. CASE n + 1 \notin Top.group
    <3>1. Top.group \cap (1..(n + 1)) = Top.group \cap (1..n)
      BY <2>1, <2>3
    <3>2. Done[n + 1] = Done[n]
      BY <2>1, <2>3 DEF Ran
    <3>3. IsWritten(Done[n + 1], n + 1)
      BY <2>1, <3>1, <3>2 DEF IsWritten
    <3> QED
      BY <2>1, <3>3
  <2> QED
    BY <2>2, <2>3
<1> HIDE DEF T
<1>6. N \in T
  <2> HIDE DEF N
  <2>1. 0..N \subseteq T
    BY <1>2, <1>4, <1>5, RowInduction
  <2> QED
    BY <1>2, <2>1
<1> QED
  BY <1>6 DEF T

LEMMA WriteFrame ==
    ASSUME DmlStructure, Write
    PROVE  LET run == Done[Len(Top.inputs)]
           IN  /\ IsWritten(run, Len(Top.inputs)) /\ DOMAIN run.statuses = Top.group
               /\ db' = run.db /\ db' \in Databases
               /\ image' \in [Handles -> Images]
               /\ \A h \in Handles :
                      image'[h] = IF h \in DOMAIN run.images THEN run.images[h] ELSE image[h]
               /\ \E f \in StatementFrames :
                      /\ stack' = Become(f) /\ IsOrderly(f) /\ SameRows(f) /\ f.stage = "after"
                      /\ f.outcomes = Top.outcomes /\ f.group = Top.group /\ f.start = Top.start
                      /\ f.held = Top.held /\ f.results = run.statuses
<1> DEFINE run == Done[Len(Top.inputs)]
           f == [Top EXCEPT !.stage = "after", !.results = run.statuses]
<1>1. /\ Top \in StatementFrames /\ IsOrderly(Top) /\ DmlTypes /\ Top.stage = "write"
      /\ Top.stage \in GroupStages /\ Top.stage \in OpenStages
  BY AtStatement, StageNames, NextStages DEF Write
<1>2. IsWritten(run, Len(Top.inputs))
  BY AllRowsRun
<1>3. db' = run.db /\ image' = Over(run.images, image) /\ stack' = Become(f)
  BY DEF Write
<1> HIDE DEF run
<1>4. /\ run.db \in Databases /\ run.images \in SomeImages /\ run.statuses \in SomeStatuses
      /\ DOMAIN run.statuses = Top.group \cap (1..Len(Top.inputs))
  BY <1>2 DEF IsWritten
<1>5. Top.group \subseteq 1..Len(Top.inputs)
  <2>1. Top.group \subseteq DOMAIN Top.inputs
    BY <1>1, InGroup
  <2> QED
    BY <1>1, <2>1, StatementTypes
<1>6. DOMAIN run.statuses = Top.group
  BY <1>4, <1>5
<1>7. /\ image' \in [Handles -> Images]
      /\ \A h \in Handles :
             image'[h] = IF h \in DOMAIN run.images THEN run.images[h] ELSE image[h]
  BY <1>1, <1>3, <1>4, OverImages DEF DmlTypes
<1>8. "after" \in OpenStages /\ "after" \in Stages
  BY NextStages, StageNames
<1>9. f \in StatementFrames
  BY <1>1, <1>4, <1>8 DEF StatementFrames
<1>10. /\ f.kind = "statement" /\ f.op = Top.op /\ f.atomic = Top.atomic
      /\ f.inputs = Top.inputs /\ f.originals = Top.originals /\ f.start = Top.start
      /\ f.ready = Top.ready /\ f.pending = Top.pending /\ f.group = Top.group
      /\ f.outcomes = Top.outcomes /\ f.stage = "after" /\ f.held = Top.held
      /\ f.results = run.statuses
  BY <1>1 DEF StatementFrames
<1> HIDE DEF f
<1>11. SameRows(f)
  BY <1>10 DEF SameRows, SameStatement
<1>12. IsOrderly(f)
  <2>1. GroupOf(f) = GroupOf(Top)
    BY <1>10 DEF GroupOf
  <2>2. DOMAIN f.held = GroupOf(f)
    BY <1>1, <1>10, <2>1, InGroup
  <2>3. f.group \subseteq Top.group /\ DOMAIN f.outcomes = DOMAIN Top.outcomes \cup (Top.group \ f.group)
        /\ f.stage \in GroupStages /\ f.stage # "attempt"
    BY <1>8, <1>10, StageNames
  <2>4. \A i \in DOMAIN f.outcomes : f.outcomes[i] = "OK" => i \in DOMAIN Top.outcomes /\ Top.outcomes[i] = "OK"
    BY <1>10
  <2>5. DOMAIN f.results = f.group
    BY <1>6, <1>10
  <2> QED
    BY <1>1, <1>9, <1>10, <2>2, <2>3, <2>4, <2>5, StaysInGroup
<1>13. SameRows(f) /\ IsOrderly(f) /\ stack' = Become(f)
  BY <1>3, <1>11, <1>12
<1> QED
  BY <1>2, <1>3, <1>4, <1>6, <1>7, <1>9, <1>10, <1>13 DEF run

LEMMA WriteStep == ASSUME DmlStructure, Write PROVE DmlStructure'
<1>1. PICK f \in StatementFrames :
          /\ stack' = Become(f) /\ IsOrderly(f) /\ SameRows(f) /\ f.stage = "after"
          /\ f.start = Top.start
  BY WriteFrame
<1>2. db' \in Databases /\ image' \in [Handles -> Images]
  BY WriteFrame
<1>3. stack # <<>> /\ IsStatement(Top) /\ Top.stage = "write"
  BY AtStatement DEF Write
<1>4. f.kind = "statement" /\ f.start.db = Top.start.db /\ f.atomic = Top.atomic
      /\ f.start.queries = Top.start.queries /\ f.stage # "attempt"
  BY <1>1 DEF SameRows, SameStatement
<1>5. UNCHANGED <<checkpoints, readOnly, depth, queries, baselines, fuel>>
  BY DEF Write
<1>6. queries' \in Nat
  BY <1>5 DEF DmlStructure, DmlTypes
<1>7. (HasOpenAttempt(f) <=> HasOpenAttempt(Top)) /\ (HasOpenScope(f) <=> HasOpenScope(Top))
  BY <1>1, <1>3, <1>4, OpenFlags, NextStages DEF IsStatement
<1> QED
  BY <1>1, <1>2, <1>3, <1>4, <1>5, <1>6, <1>7, BecomeStep

-----------------------------------------------------------------------------
(* The ends of an attempt and of a statement                               *)

\* Every row of the group has an outcome: the statement goes on to the next group.
LEMMA GroupDoneFrame ==
    ASSUME DmlStructure, stack # <<>>, IsStatement(Top), Top.stage \in OpenStages,
           NEW extra \in SomeStatuses, DOMAIN extra = Top.group
    PROVE  LET f == GroupDone(extra)
           IN  /\ f \in StatementFrames /\ IsOrderly(f) /\ SameRows(f) /\ f.start = Top.start
               /\ f.stage = "choose" /\ f.group = {} /\ DOMAIN f.held = {}
               /\ DOMAIN f.outcomes = DOMAIN Top.outcomes \cup Top.group
               /\ \A i \in Top.group : f.outcomes[i] = extra[i]
               /\ \A i \in DOMAIN Top.outcomes \ Top.group : f.outcomes[i] = Top.outcomes[i]
<1> DEFINE outcomes == Settled(Top, extra)
           f == [Top EXCEPT !.stage = "choose", !.pending = Tail(Top.pending), !.group = {},
                            !.results = <<>>, !.held = <<>>, !.attempt = 0, !.outcomes = outcomes]
<1>1. Top \in StatementFrames /\ IsOrderly(Top) /\ Top.stage \in GroupStages
  BY StatementOnTop, StageNames
<1>2. Top.outcomes \in SomeStatuses
  BY <1>1, StatementTypes
<1>3. /\ outcomes \in SomeStatuses /\ DOMAIN outcomes = Top.group \cup DOMAIN Top.outcomes
      /\ \A i \in Top.group : outcomes[i] = extra[i]
      /\ \A i \in DOMAIN Top.outcomes \ Top.group : outcomes[i] = Top.outcomes[i]
  <2>1. /\ outcomes \in SomeStatuses /\ DOMAIN outcomes = DOMAIN extra \cup DOMAIN Top.outcomes
        /\ \A x \in DOMAIN extra : outcomes[x] = extra[x]
        /\ \A x \in DOMAIN Top.outcomes \ DOMAIN extra : outcomes[x] = Top.outcomes[x]
    BY <1>2, OverStatuses DEF Settled
  <2> HIDE DEF outcomes
  <2> QED
    BY <2>1
<1>4. Top.pending \in Seq(GroupOps) /\ Top.pending # <<>>
      /\ \A i, j \in 1..Len(Top.pending) : Top.pending[i] = Top.pending[j] => i = j
  BY <1>1, InGroup
<1>5. Tail(Top.pending) \in Seq(GroupOps)
  BY <1>4, PendingTail
<1>6. GroupDone(extra) = f
  BY DEF GroupDone
<1> HIDE DEF outcomes
<1>7. "choose" \in Stages /\ {} \in SUBSET Nat /\ 0 \in Nat
  BY StageNames
<1>8. f \in StatementFrames
  BY <1>1, <1>3, <1>5, <1>7, SomeOfNothing DEF StatementFrames
<1>9. /\ f.kind = "statement" /\ f.op = Top.op /\ f.atomic = Top.atomic
      /\ f.inputs = Top.inputs /\ f.originals = Top.originals /\ f.start = Top.start
      /\ f.ready = Top.ready /\ f.pending = Tail(Top.pending) /\ f.group = {}
      /\ f.outcomes = outcomes /\ f.stage = "choose" /\ f.held = <<>>
  BY <1>1 DEF StatementFrames
<1> HIDE DEF f
<1>10. DOMAIN f.held = {} /\ DOMAIN f.outcomes = DOMAIN Top.outcomes \cup Top.group
  BY <1>3, <1>9, SomeOfNothing
<1>11. \A i \in DOMAIN f.outcomes : f.outcomes[i] = "OK" =>
           i \in Top.group \/ (i \in DOMAIN Top.outcomes /\ Top.outcomes[i] = "OK")
  BY <1>3, <1>9
<1>12. IsOrderly(f)
  BY <1>1, <1>8, <1>9, <1>10, <1>11, LeavesGroup
<1>13. SameRows(f)
  BY <1>9 DEF SameRows, SameStatement
<1>14. /\ \A i \in Top.group : f.outcomes[i] = extra[i]
       /\ \A i \in DOMAIN Top.outcomes \ Top.group : f.outcomes[i] = Top.outcomes[i]
  BY <1>3, <1>9
<1> QED
  BY <1>6, <1>8, <1>9, <1>10, <1>12, <1>13, <1>14

LEMMA FailsFrame ==
    ASSUME DmlStructure, stack # <<>>, IsStatement(Top), Top.stage \in OpenStages
    PROVE  /\ Fails \in StatementFrames /\ IsOrderly(Fails) /\ SameRows(Fails)
           /\ Fails.start = Top.start /\ Fails.stage = "failing" /\ Fails.group = {}
           /\ DOMAIN Fails.held = {} /\ Fails.outcomes = Top.outcomes
<1> DEFINE f == [Top EXCEPT !.stage = "failing", !.group = {}, !.results = <<>>, !.held = <<>>]
<1>1. Top \in StatementFrames /\ IsOrderly(Top) /\ Top.stage \in GroupStages
  BY StatementOnTop, StageNames
<1>2. Fails = f
  BY DEF Fails
<1>3. "failing" \in Stages /\ {} \in SUBSET Nat
  BY StageNames
<1>4. f \in StatementFrames
  BY <1>1, <1>3, SomeOfNothing DEF StatementFrames
<1>5. /\ f.kind = "statement" /\ f.op = Top.op /\ f.atomic = Top.atomic
      /\ f.inputs = Top.inputs /\ f.originals = Top.originals /\ f.start = Top.start
      /\ f.ready = Top.ready /\ f.pending = Top.pending /\ f.group = {}
      /\ f.outcomes = Top.outcomes /\ f.stage = "failing" /\ f.held = <<>>
  BY <1>1 DEF StatementFrames
<1> HIDE DEF f
<1>6. DOMAIN f.held = {}
  BY <1>5, SomeOfNothing
<1>7. IsOrderly(f)
  BY <1>1, <1>4, <1>5, <1>6, GivesUp
<1>8. SameRows(f)
  BY <1>5 DEF SameRows, SameStatement
<1> QED
  BY <1>2, <1>4, <1>5, <1>6, <1>7, <1>8

LEMMA RetryFrame ==
    ASSUME DmlStructure, At("settle")
    PROVE  LET f == [Top EXCEPT !.stage = "attempt", !.attempt = Top.attempt + 1,
                                !.group = Survivors, !.held = <<>>, !.results = <<>>,
                                !.outcomes = Settled(Top, KeptOutcomes)]
           IN  /\ f \in StatementFrames /\ IsOrderly(f) /\ SameRows(f) /\ f.start = Top.start
               /\ f.stage = "attempt" /\ f.group = Survivors /\ DOMAIN f.held = {}
               /\ DOMAIN f.outcomes = DOMAIN Top.outcomes \cup (Top.group \ Survivors)
               /\ \A i \in Top.group \ Survivors : f.outcomes[i] # "OK"
               /\ \A i \in DOMAIN Top.outcomes \ (Top.group \ Survivors) :
                      f.outcomes[i] = Top.outcomes[i]
<1> DEFINE outcomes == Settled(Top, KeptOutcomes)
           f == [Top EXCEPT !.stage = "attempt", !.attempt = Top.attempt + 1,
                            !.group = Survivors, !.held = <<>>, !.results = <<>>,
                            !.outcomes = outcomes]
<1>1. Top \in StatementFrames /\ IsOrderly(Top) /\ Top.stage \in GroupStages /\ Top.stage = "settle"
  BY AtStatement, StageNames, NextStages
<1>2. Top.outcomes \in SomeStatuses /\ Top.results \in SomeStatuses /\ DOMAIN Top.results = Top.group
      /\ Top.attempt \in Nat /\ Top.group \in SUBSET Nat
  BY <1>1, StatementTypes, InGroup
<1>3. /\ Survivors \subseteq Top.group
      /\ \A i \in Top.group \ Survivors : Top.results[i] # "OK"
  BY <1>2 DEF Survivors, Succeeded
<1>4. /\ KeptOutcomes \in SomeStatuses /\ DOMAIN KeptOutcomes = Top.group \ Survivors
      /\ \A i \in Top.group \ Survivors : KeptOutcomes[i] = Top.results[i]
  BY <1>2, RestrictStatuses DEF KeptOutcomes
<1>5. /\ outcomes \in SomeStatuses
      /\ DOMAIN outcomes = (Top.group \ Survivors) \cup DOMAIN Top.outcomes
      /\ \A i \in Top.group \ Survivors : outcomes[i] = KeptOutcomes[i]
      /\ \A i \in DOMAIN Top.outcomes \ (Top.group \ Survivors) : outcomes[i] = Top.outcomes[i]
  <2>1. /\ outcomes \in SomeStatuses
        /\ DOMAIN outcomes = DOMAIN KeptOutcomes \cup DOMAIN Top.outcomes
        /\ \A x \in DOMAIN KeptOutcomes : outcomes[x] = KeptOutcomes[x]
        /\ \A x \in DOMAIN Top.outcomes \ DOMAIN KeptOutcomes : outcomes[x] = Top.outcomes[x]
    BY <1>2, <1>4, OverStatuses DEF Settled
  <2> HIDE DEF outcomes
  <2> QED
    BY <1>4, <2>1
<1> HIDE DEF outcomes
<1>6. "attempt" \in Stages /\ Survivors \in SUBSET Nat /\ Top.attempt + 1 \in Nat
  BY <1>2, <1>3, StageNames
<1>7. f \in StatementFrames
  BY <1>1, <1>5, <1>6, SomeOfNothing DEF StatementFrames
<1>8. /\ f.kind = "statement" /\ f.op = Top.op /\ f.atomic = Top.atomic
      /\ f.inputs = Top.inputs /\ f.originals = Top.originals /\ f.start = Top.start
      /\ f.ready = Top.ready /\ f.pending = Top.pending /\ f.group = Survivors
      /\ f.outcomes = outcomes /\ f.stage = "attempt" /\ f.held = <<>>
  BY <1>1 DEF StatementFrames
<1> HIDE DEF f
<1>9. /\ DOMAIN f.held = {} /\ f.group \subseteq Top.group
      /\ DOMAIN f.outcomes = DOMAIN Top.outcomes \cup (Top.group \ f.group)
      /\ f.stage \in GroupStages /\ f.stage \notin {"after", "settle"}
  BY <1>3, <1>5, <1>8, SomeOfNothing, StageNames
<1>10. \A i \in Top.group \ Survivors : f.outcomes[i] # "OK"
  BY <1>3, <1>4, <1>5, <1>8
<1>11. \A i \in DOMAIN Top.outcomes \ (Top.group \ Survivors) : f.outcomes[i] = Top.outcomes[i]
  BY <1>5, <1>8
<1>12. \A i \in DOMAIN f.outcomes : f.outcomes[i] = "OK" =>
           i \in DOMAIN Top.outcomes /\ Top.outcomes[i] = "OK"
  BY <1>8, <1>9, <1>10, <1>11
<1>13. IsOrderly(f)
  BY <1>1, <1>7, <1>8, <1>9, <1>12, StaysInGroup
<1>14. SameRows(f)
  BY <1>8 DEF SameRows, SameStatement
<1>15. /\ f.start = Top.start /\ f.stage = "attempt" /\ f.group = Survivors
       /\ DOMAIN f.outcomes = DOMAIN Top.outcomes \cup (Top.group \ Survivors)
  BY <1>8, <1>9
<1> QED
  BY <1>7, <1>9, <1>10, <1>11, <1>13, <1>14, <1>15 DEF f, outcomes

LEMMA CannotIsStatus ==
    LET extra == [i \in Top.group |-> "CANNOT_INSERT_UPDATE_ACTIVATE_ENTITY"]
    IN  Top.group \in SUBSET Nat => extra \in SomeStatuses
<1>1. "CANNOT_INSERT_UPDATE_ACTIVATE_ENTITY" \in RowStatuses
  BY DEF RowStatuses
<1> QED
  BY <1>1 DEF SomeStatuses

\* The steps that end an attempt.
Ends == SettleAtomic \/ SettlePartial \/ RetrySurvivors \/ FailAttempt

\* What the statement becomes at the end of an attempt.
EndsAs(f) ==
    /\ stack' = Become(f) /\ IsOrderly(f) /\ SameRows(f) /\ f.start = Top.start
    /\ DOMAIN f.held = {} /\ f.group \subseteq Top.group
    /\ f.stage \in {"choose", "failing", "attempt"}
    /\ IF f.stage = "attempt"
       THEN ~Top.atomic /\ UNCHANGED baselines /\ queries' = Last(baselines)
       ELSE f.group = {} /\ UNCHANGED queries
                /\ baselines' = IF Top.atomic THEN baselines ELSE Front(baselines)
    /\ \A i \in DOMAIN Top.inputs \ Top.group :
           /\ i \in DOMAIN f.outcomes <=> i \in DOMAIN Top.outcomes
           /\ i \in DOMAIN f.outcomes => f.outcomes[i] = Top.outcomes[i]

\* An attempt is kept when all its rows were written, or undone.
IsKept(f) ==
    /\ CommitUnit /\ UNCHANGED image /\ Top.stage = "settle" /\ f.stage # "attempt"
    /\ f.stage = "choose" => \A i \in Top.group :
           i \in DOMAIN f.outcomes /\ f.outcomes[i] = "OK" /\ Top.results[i] = "OK"

IsUndone(f) ==
    /\ RollbackUnit /\ image' = RestoredImages
    /\ \A i \in Top.group \cap DOMAIN f.outcomes : f.outcomes[i] # "OK"

\* A row in a group is not among those written before.
LEMMA GroupIsUnsettled ==
    ASSUME NEW g \in StatementFrames, IsOrderly(g), g.stage \in GroupStages, NEW i \in g.group
    PROVE  i \in DOMAIN g.outcomes => g.outcomes[i] # "OK"
<1>1. g.ready[i].op = Head(g.pending)
  BY InGroup
<1>2. Head(g.pending) \in Elements(g.pending)
  BY InGroup, PendingTail
<1>3. i \in DOMAIN g.outcomes /\ g.outcomes[i] = "OK" => g.ready[i].op \notin Elements(g.pending)
  BY InGroup
<1> QED
  BY <1>1, <1>2, <1>3

LEMMA SettledFrame ==
    ASSUME DmlStructure, SettleAtomic \/ SettlePartial
    PROVE  \E f \in StatementFrames : EndsAs(f) /\ IsKept(f)
<1>1. /\ At("settle") /\ CommitUnit /\ UNCHANGED <<image, queries>>
      /\ baselines' = IF Top.atomic THEN baselines ELSE Front(baselines)
      /\ stack' = Become(IF AllSucceeded THEN GroupDone(Top.results) ELSE Fails)
  BY DEF SettleAtomic, SettlePartial
<1>2. /\ stack # <<>> /\ IsStatement(Top) /\ Top.stage = "settle" /\ Top \in StatementFrames
      /\ Top.stage \in OpenStages /\ Top.stage \in GroupStages /\ IsOrderly(Top)
  BY <1>1, AtStatement, NextStages, StageNames
<1>3. DOMAIN Top.results = Top.group /\ Top.results \in SomeStatuses
  BY <1>2, InGroup, StatementTypes
<1>4. CASE AllSucceeded
  <2> DEFINE f == GroupDone(Top.results)
  <2>1. /\ f \in StatementFrames /\ IsOrderly(f) /\ SameRows(f) /\ f.start = Top.start
        /\ f.stage = "choose" /\ f.group = {} /\ DOMAIN f.held = {}
        /\ DOMAIN f.outcomes = DOMAIN Top.outcomes \cup Top.group
        /\ \A i \in Top.group : f.outcomes[i] = Top.results[i]
        /\ \A i \in DOMAIN Top.outcomes \ Top.group : f.outcomes[i] = Top.outcomes[i]
    BY <1>2, <1>3, GroupDoneFrame
  <2>2. stack' = Become(f)
    BY <1>1, <1>4
  <2> HIDE DEF f
  <2>3. \A i \in Top.group : Top.results[i] = "OK"
    BY <1>3, <1>4 DEF AllSucceeded, Succeeded
  <2>4. EndsAs(f)
    BY <1>1, <2>1, <2>2 DEF EndsAs
  <2>5. IsKept(f)
    BY <1>1, <1>2, <2>1, <2>3 DEF IsKept
  <2> QED
    BY <2>1, <2>4, <2>5
<1>5. CASE ~AllSucceeded
  <2> DEFINE f == Fails
  <2>1. /\ f \in StatementFrames /\ IsOrderly(f) /\ SameRows(f) /\ f.start = Top.start
        /\ f.stage = "failing" /\ f.group = {} /\ DOMAIN f.held = {} /\ f.outcomes = Top.outcomes
    BY <1>2, FailsFrame
  <2>2. stack' = Become(f)
    BY <1>1, <1>5
  <2> HIDE DEF f
  <2>3. EndsAs(f)
    BY <1>1, <2>1, <2>2 DEF EndsAs
  <2>4. IsKept(f)
    BY <1>1, <1>2, <2>1 DEF IsKept
  <2> QED
    BY <2>1, <2>3, <2>4
<1> QED
  BY <1>4, <1>5

LEMMA UndoneFrame ==
    ASSUME DmlStructure, RetrySurvivors \/ FailAttempt
    PROVE  \E f \in StatementFrames : EndsAs(f) /\ IsUndone(f)
<1>1. /\ stack # <<>> /\ IsStatement(Top) /\ Top \in StatementFrames
      /\ Top.stage \in OpenStages /\ Top.stage \in GroupStages /\ IsOrderly(Top)
      /\ RollbackUnit /\ image' = RestoredImages
  <2>1. At("settle") \/ At("failed")
    BY DEF RetrySurvivors, FailAttempt
  <2> QED
    BY <2>1, AtStatement, NextStages, StageNames DEF RetrySurvivors, FailAttempt
<1>2. \A i \in Top.group : i \in DOMAIN Top.outcomes => Top.outcomes[i] # "OK"
  BY <1>1, GroupIsUnsettled
<1>3. Top.group \in SUBSET Nat /\ Top.results \in SomeStatuses
  BY <1>1, StatementTypes
\* the group is given up
<1>4. ASSUME NEW extra \in SomeStatuses, DOMAIN extra = Top.group,
             \A i \in Top.group : extra[i] # "OK",
             stack' = Become(GroupDone(extra)), ~Top.atomic,
             baselines' = Front(baselines), UNCHANGED queries
      PROVE  \E f \in StatementFrames : EndsAs(f) /\ IsUndone(f)
  <2> DEFINE f == GroupDone(extra)
  <2>1. /\ f \in StatementFrames /\ IsOrderly(f) /\ SameRows(f) /\ f.start = Top.start
        /\ f.stage = "choose" /\ f.group = {} /\ DOMAIN f.held = {}
        /\ DOMAIN f.outcomes = DOMAIN Top.outcomes \cup Top.group
        /\ \A i \in Top.group : f.outcomes[i] = extra[i]
        /\ \A i \in DOMAIN Top.outcomes \ Top.group : f.outcomes[i] = Top.outcomes[i]
    BY <1>1, <1>4, GroupDoneFrame
  <2>2. stack' = Become(f)
    BY <1>4
  <2> HIDE DEF f
  <2>3. EndsAs(f)
    BY <1>4, <2>1, <2>2 DEF EndsAs
  <2>4. IsUndone(f)
    BY <1>1, <1>4, <2>1 DEF IsUndone
  <2> QED
    BY <2>1, <2>3, <2>4
\* the statement fails
<1>5. ASSUME stack' = Become(Fails), UNCHANGED queries,
             baselines' = IF Top.atomic THEN baselines ELSE Front(baselines)
      PROVE  \E f \in StatementFrames : EndsAs(f) /\ IsUndone(f)
  <2> DEFINE f == Fails
  <2>1. /\ f \in StatementFrames /\ IsOrderly(f) /\ SameRows(f) /\ f.start = Top.start
        /\ f.stage = "failing" /\ f.group = {} /\ DOMAIN f.held = {} /\ f.outcomes = Top.outcomes
    BY <1>1, FailsFrame
  <2>2. stack' = Become(f)
    BY <1>5
  <2> HIDE DEF f
  <2>3. EndsAs(f)
    BY <1>5, <2>1, <2>2 DEF EndsAs
  <2>4. IsUndone(f)
    BY <1>1, <1>2, <2>1 DEF IsUndone
  <2> QED
    BY <2>1, <2>3, <2>4
<1>6. CASE RetrySurvivors
  <2>1. At("settle") /\ ~Top.atomic
    BY <1>6 DEF RetrySurvivors
  <2>2. /\ \/ stack' = Become(Fails) /\ UNCHANGED queries /\ baselines' = Front(baselines)
           \/ /\ Survivors = {} /\ UNCHANGED queries /\ baselines' = Front(baselines)
              /\ stack' = Become(GroupDone(KeptOutcomes))
           \/ /\ queries' = Last(baselines) /\ UNCHANGED baselines
              /\ stack' = Become([Top EXCEPT !.stage = "attempt", !.attempt = Top.attempt + 1,
                                             !.group = Survivors, !.held = <<>>, !.results = <<>>,
                                             !.outcomes = Settled(Top, KeptOutcomes)])
    BY <1>6 DEF RetrySurvivors, ResetCount
  <2>3. CASE stack' = Become(Fails) /\ UNCHANGED queries /\ baselines' = Front(baselines)
    BY <1>5, <2>1, <2>3
  <2>4. CASE /\ Survivors = {} /\ UNCHANGED queries /\ baselines' = Front(baselines)
             /\ stack' = Become(GroupDone(KeptOutcomes))
    <3>1. DOMAIN Top.results = Top.group
      BY <1>1, <2>1, InGroup DEF At
    <3>2. /\ KeptOutcomes \in SomeStatuses /\ DOMAIN KeptOutcomes = Top.group
          /\ \A i \in Top.group : KeptOutcomes[i] = Top.results[i]
      <4>1. DOMAIN Top.results \ Survivors = Top.group
        BY <2>4, <3>1
      <4>2. DOMAIN Top.results \ Survivors \in SUBSET DOMAIN Top.results
        OBVIOUS
      <4> QED
        BY <1>3, <4>1, <4>2, RestrictStatuses, SMTT(40) DEF KeptOutcomes
    <3>3. \A i \in Top.group : Top.results[i] # "OK"
      BY <2>4, <3>1 DEF Survivors, Succeeded
    <3> QED
      BY <1>4, <2>1, <2>4, <3>2, <3>3
  <2>5. CASE /\ queries' = Last(baselines) /\ UNCHANGED baselines
             /\ stack' = Become([Top EXCEPT !.stage = "attempt", !.attempt = Top.attempt + 1,
                                            !.group = Survivors, !.held = <<>>, !.results = <<>>,
                                            !.outcomes = Settled(Top, KeptOutcomes)])
    <3> DEFINE f == [Top EXCEPT !.stage = "attempt", !.attempt = Top.attempt + 1,
                                !.group = Survivors, !.held = <<>>, !.results = <<>>,
                                !.outcomes = Settled(Top, KeptOutcomes)]
    <3>1. /\ f \in StatementFrames /\ IsOrderly(f) /\ SameRows(f) /\ f.start = Top.start
          /\ f.stage = "attempt" /\ f.group = Survivors /\ DOMAIN f.held = {}
          /\ DOMAIN f.outcomes = DOMAIN Top.outcomes \cup (Top.group \ Survivors)
          /\ \A i \in Top.group \ Survivors : f.outcomes[i] # "OK"
          /\ \A i \in DOMAIN Top.outcomes \ (Top.group \ Survivors) :
                 f.outcomes[i] = Top.outcomes[i]
      BY <2>1, RetryFrame
    <3>2. stack' = Become(f)
      BY <2>5
    <3> HIDE DEF f
    <3>3. Survivors \subseteq Top.group
      <4>1. DOMAIN Top.results = Top.group
        BY <1>1, <2>1, InGroup DEF At
      <4> QED
        BY <4>1 DEF Survivors, Succeeded
    <3>4. EndsAs(f)
      BY <2>1, <2>5, <3>1, <3>2, <3>3 DEF EndsAs
    <3>5. IsUndone(f)
      BY <1>1, <1>2, <3>1, <3>3 DEF IsUndone
    <3> QED
      BY <3>1, <3>4, <3>5
  <2> QED
    BY <2>2, <2>3, <2>4, <2>5
<1>7. CASE FailAttempt
  <2> DEFINE extra == [i \in Top.group |-> "CANNOT_INSERT_UPDATE_ACTIVATE_ENTITY"]
  <2>1. /\ UNCHANGED queries
        /\ \/ Top.atomic /\ stack' = Become(Fails) /\ UNCHANGED baselines
           \/ ~Top.atomic /\ stack' = Become(Fails) /\ baselines' = Front(baselines)
           \/ ~Top.atomic /\ stack' = Become(GroupDone(extra)) /\ baselines' = Front(baselines)
    BY <1>7 DEF FailAttempt
  <2>2. extra \in SomeStatuses /\ DOMAIN extra = Top.group /\ \A i \in Top.group : extra[i] # "OK"
    BY <1>3, CannotIsStatus
  <2> HIDE DEF extra
  <2>3. CASE Top.atomic /\ stack' = Become(Fails) /\ UNCHANGED baselines
    BY <1>5, <2>1, <2>3
  <2>4. CASE ~Top.atomic /\ stack' = Become(Fails) /\ baselines' = Front(baselines)
    BY <1>5, <2>1, <2>4
  <2>5. CASE ~Top.atomic /\ stack' = Become(GroupDone(extra)) /\ baselines' = Front(baselines)
    BY <1>4, <2>1, <2>2, <2>5
  <2> QED
    BY <2>1, <2>3, <2>4, <2>5
<1> QED
  BY <1>6, <1>7

\* The images of the group's SObjects are put back.
LEMMA ImagesAreRestored ==
    ASSUME DmlStructure, stack # <<>>, IsStatement(Top)
    PROVE  /\ RestoredImages \in [Handles -> Images]
           /\ \A h \in Handles :
                  RestoredImages[h] = IF h \in DOMAIN Top.held THEN Top.held[h] ELSE image[h]
           /\ RestoredOriginals \in [Handles -> Images]
           /\ \A h \in Handles :
                  RestoredOriginals[h] =
                      IF h \in DOMAIN Top.originals THEN Top.originals[h] ELSE image[h]
<1>1. image \in [Handles -> Images] /\ Top.held \in SomeImages /\ Top.originals \in SomeImages
  BY StatementOnTop, StatementTypes DEF DmlStructure, DmlTypes
<1> QED
  BY <1>1, OverImages DEF RestoredImages, RestoredOriginals

LEMMA EndStep == ASSUME DmlStructure, Ends PROVE DmlStructure'
<1>1. PICK f \in StatementFrames : EndsAs(f)
  BY SettledFrame, UndoneFrame DEF Ends
<1>2. /\ stack # <<>> /\ IsStatement(Top) /\ Top.stage \in OpenStages /\ Top \in StatementFrames
      /\ DmlTypes /\ IsOrderly(Top)
  <2>1. At("settle") \/ At("failed")
    BY DEF Ends, SettleAtomic, SettlePartial, RetrySurvivors, FailAttempt
  <2> QED
    BY <2>1, AtStatement, NextStages
<1>3. /\ CommitUnit \/ RollbackUnit
      /\ UNCHANGED image \/ image' = RestoredImages
      /\ UNCHANGED <<readOnly, depth, fuel>>
  BY DEF Ends, SettleAtomic, SettlePartial, RetrySurvivors, FailAttempt
<1>4. image' \in [Handles -> Images]
  BY <1>2, <1>3, ImagesAreRestored DEF DmlTypes
<1>5. /\ stack' = Become(f) /\ IsOrderly(f) /\ f.start.db = Top.start.db /\ f.kind = "statement"
      /\ f.start.queries = Top.start.queries /\ f.atomic = Top.atomic
      /\ f.stage \in {"choose", "failing", "attempt"}
  BY <1>1 DEF EndsAs, SameRows, SameStatement
<1>6. /\ ~HasOpenAttempt(f) /\ HasOpenAttempt(Top) /\ (HasOpenScope(Top) <=> ~Top.atomic)
      /\ HasOpenScope(f) <=> ~Top.atomic /\ f.stage = "attempt"
  BY <1>2, <1>5, OpenFlags DEF IsStatement
<1>7. HasOpenScope(Top) => baselines # <<>> /\ Last(baselines) = Top.start.queries
  BY <1>2, StatementOnTop
<1>8. Top.start.queries \in Nat /\ queries \in Nat
  BY <1>2, StatementTypes DEF DmlTypes
<1>9. /\ f.stage = "attempt" => queries' = f.start.queries
      /\ queries' \in Nat
  BY <1>1, <1>5, <1>6, <1>7, <1>8 DEF EndsAs
<1>10. \/ (HasOpenScope(f) <=> HasOpenScope(Top)) /\ UNCHANGED baselines
       \/ ~HasOpenScope(f) /\ HasOpenScope(Top) /\ baselines' = Front(baselines)
  BY <1>1, <1>6 DEF EndsAs
<1> QED
  BY <1>2, <1>3, <1>4, <1>5, <1>6, <1>9, <1>10, BecomeStep

\* A statement ends: its frame and its checkpoint go.
Leaves == CompleteStatement \/ FailStatement

LEMMA LeavesFrame ==
    ASSUME DmlStructure, Leaves
    PROVE  /\ stack # <<>> /\ IsStatement(Top) /\ Top.stage \in {"choose", "failing"}
           /\ ~HasOpenAttempt(Top) /\ ~HasOpenScope(Top)
           /\ stack' = Below /\ UNCHANGED <<readOnly, depth, queries, baselines, fuel>>
           /\ \/ CompleteStatement /\ Top.stage = "choose" /\ CommitUnit /\ UNCHANGED image
              \/ /\ FailStatement /\ Top.stage = "failing" /\ RollbackUnit
                 /\ image' = RestoredOriginals
           /\ Len(checkpoints) = Len(stack) /\ Last(checkpoints) = Top.start.db
<1>1. At("choose") \/ At("failing")
  BY DEF Leaves, CompleteStatement, FailStatement
<1>2. stack # <<>> /\ IsStatement(Top) /\ Top.stage \in {"choose", "failing"}
      /\ Top \in StatementFrames
  BY <1>1, AtStatement
<1>3. ~HasOpenAttempt(Top) /\ ~HasOpenScope(Top)
  BY <1>2, OpenFlags DEF IsStatement
<1>4. Len(stack) \in Nat
  BY <1>2, TopFrame DEF DmlStructure
<1>5. Len(checkpoints) = Len(stack) /\ checkpoints[Len(stack)] = Top.start.db
  BY <1>2, <1>3, <1>4, StatementOnTop
<1> QED
  BY <1>2, <1>3, <1>5 DEF Leaves, CompleteStatement, FailStatement, At, Last

LEMMA LeavesStep == ASSUME DmlStructure, Leaves PROVE DmlStructure'
<1>1. /\ stack # <<>> /\ IsStatement(Top) /\ ~HasOpenAttempt(Top) /\ ~HasOpenScope(Top)
      /\ stack' = Below /\ UNCHANGED <<readOnly, depth, queries, baselines, fuel>>
      /\ CommitUnit \/ RollbackUnit
      /\ UNCHANGED image \/ image' = RestoredOriginals
      /\ Len(checkpoints) = Len(stack)
  BY LeavesFrame
<1>2. /\ Top \in StatementFrames /\ Below \in Seq(Frames) /\ Below # <<>>
      /\ StandsOn(Below, Top)
      /\ IsStructured(Append(Below, Top), checkpoints, baselines, depth, readOnly)
  BY <1>1, StatementOnTop
<1>3. Top \in Frames /\ Top.kind = "statement" /\ DmlTypes
  BY <1>1, <1>2 DEF Frames, IsStatement, DmlStructure
<1>4. checkpoints' = Front(checkpoints)
  BY <1>1 DEF CommitUnit, RollbackUnit
<1>5. IsStructured(Below, checkpoints', baselines, depth, readOnly)
  BY <1>1, <1>2, <1>3, <1>4, Popping
<1>6. IsStructured(stack', checkpoints', baselines', depth', readOnly')
  BY <1>1, <1>5
<1>7. Top'.kind # "statement"
  <2>1. Below[Len(Below)].kind # "statement"
    BY <1>2, <1>3 DEF StandsOn
  <2> QED
    BY <1>1, <2>1 DEF Top
<1>8. image' \in [Handles -> Images]
  BY <1>1, <1>3, ImagesAreRestored DEF DmlTypes
<1>9. db' \in Databases
  <2>1. checkpoints # <<>>
    <3>1. Len(stack) \in Nat \ {0}
      BY <1>1, <1>3, TopFrame
    <3> QED
      BY <1>1, <3>1
  <2> QED
    BY <1>1, <1>3, <2>1, UnitTypes
<1>10. readOnly' \in SUBSET Handles /\ depth' \in Int
  BY <1>1, <1>3 DEF DmlTypes
<1> QED
  BY <1>1, <1>3, <1>6, <1>7, <1>8, <1>9, <1>10, StructuredStep

-----------------------------------------------------------------------------
(* The structure is kept                                                   *)

LEMMA StructureIsKept == DmlStructure /\ [Next]_vars => DmlStructure'
<1> SUFFICES ASSUME DmlStructure, [Next]_vars PROVE DmlStructure'
  OBVIOUS
<1>1. CASE SetField \/ RunQuery \/ IssueDml \/ FinishEntry
  BY <1>1, SetFieldStep, RunQueryStep, IssueDmlStep, FinishEntryStep
<1>2. CASE Preflight \/ ChooseGroup \/ BeginAttempt
  BY <1>2, PreflightStep, ChooseGroupStep, BeginAttemptStep
<1>3. CASE SkipTriggers \/ HostFails
  BY <1>3, MovedStep
<1>4. CASE EnterTriggers \/ NextTrigger
  BY <1>4, EnterTriggersStep, NextTriggerStep
<1>5. CASE ReturnFromTrigger \/ ThrowInTrigger
  BY <1>5, LeftStep
<1>6. CASE Write
  BY <1>6, WriteStep
<1>7. CASE SettleAtomic \/ SettlePartial \/ RetrySurvivors \/ FailAttempt
  BY <1>7, EndStep DEF Ends
<1>8. CASE CompleteStatement \/ FailStatement
  BY <1>8, LeavesStep DEF Leaves
<1>9. CASE UNCHANGED vars
  BY <1>9 DEF vars, DmlStructure, DmlTypes, At, Top
<1> QED
  BY <1>1, <1>2, <1>3, <1>4, <1>5, <1>6, <1>7, <1>8, <1>9 DEF Next, Terminated

\* The stack is orderly, and the host's checkpoints, retry scopes, depth and
\* read-only set are its, whatever the requests, the triggers and the bounds.
THEOREM DmlEngineIsStructured == Spec => []DmlStructure
<1>1. Init => DmlStructure
  BY InitStructure
<1>2. DmlStructure /\ [Next]_vars => DmlStructure'
  BY StructureIsKept
<1> QED
  BY <1>1, <1>2, PTL DEF Spec

\* However requests, triggers, retries and exceptions nest, the host's units and
\* retry scopes are those of the statements and attempts on the stack.
THEOREM DmlEngineKeepsHostInStep == Spec => []HostFollowsStack
BY DmlEngineIsStructured, StructureGivesHost, PTL

\* Only the ends of frames make the stack shorter.
LEMMA WhatPops ==
    ASSUME DmlStructure, [Next]_vars, Popped("statement")
    PROVE  Leaves
<1>1. /\ stack # <<>> /\ Len(stack') < Len(stack) /\ IsStatement(Top) /\ DmlTypes
  BY DEF Popped, IsStatement, DmlStructure
<1>2. /\ Below \in Seq(Frames) /\ Len(Below) = Len(stack) - 1 /\ Len(stack) \in Nat \ {0}
  BY <1>1, TopFrame
<1>3. \A f \in Frames : Len(Become(f)) = Len(stack) /\ Len(Push(f)) = Len(stack) + 1
  BY <1>1, <1>2, Appended DEF Become, Push, DmlTypes
<1>4. StatementFrames \subseteq Frames
  BY DEF Frames
<1>5. ~(\E f \in Frames : stack' = Become(f))
  BY <1>1, <1>2, <1>3
<1>6. ~CodeRuns /\ ~InTrigger
  BY <1>1 DEF CodeRuns, InTrigger, IsStatement
<1>7. ~(SetField \/ RunQuery \/ IssueDml \/ FinishEntry \/ NextTrigger \/ ReturnFromTrigger \/ ThrowInTrigger)
  BY <1>6 DEF SetField, RunQuery, IssueDml, FinishEntry, Spend, NextTrigger, ReturnFromTrigger,
              ThrowInTrigger
<1>8. ~(Preflight \/ ChooseGroup \/ BeginAttempt)
  BY <1>4, <1>5, PreflightFrame, ChooseGroupFrame, BeginAttemptFrame
<1>9. ~(SkipTriggers \/ HostFails \/ Write)
  BY <1>4, <1>5, MovedFrame, WriteFrame
<1>10. ~(SettleAtomic \/ SettlePartial \/ RetrySurvivors \/ FailAttempt)
  BY <1>4, <1>5, SettledFrame, UndoneFrame DEF EndsAs
<1>11. ~EnterTriggers
  <2> SUFFICES ASSUME EnterTriggers PROVE FALSE
    OBVIOUS
  <2>1. PICK f \in TriggerFrames : stack' = Push(f)
    BY EnteredFrame
  <2> QED
    BY <1>1, <1>2, <1>3, <2>1 DEF Frames
<1>12. ~(UNCHANGED vars)
  BY <1>1, <1>2 DEF vars
<1> QED
  BY <1>7, <1>8, <1>9, <1>10, <1>11, <1>12 DEF Next, Terminated, Leaves

\* A DML statement that throws puts back the database it began with, which is
\* still the host's last checkpoint, and the SObjects of its request.
THEOREM FailedStatementsAreUndone == Spec => FailedStatementsLeaveNoTrace
<1> DEFINE LeavesNoTrace ==
        Popped("statement") /\ Top.stage = "failing" =>
           /\ db' = Top.start.db
           /\ Restrict(image', DOMAIN Top.originals) = Top.originals
<1>1. DmlStructure /\ [Next]_vars => [LeavesNoTrace]_vars
  <2> SUFFICES ASSUME DmlStructure, [Next]_vars, Popped("statement"), Top.stage = "failing"
               PROVE  /\ db' = Top.start.db
                      /\ Restrict(image', DOMAIN Top.originals) = Top.originals
    OBVIOUS
  <2>1. Leaves
    BY WhatPops
  <2>2. /\ stack # <<>> /\ IsStatement(Top) /\ RollbackUnit /\ image' = RestoredOriginals
        /\ Last(checkpoints) = Top.start.db
    BY <2>1, LeavesFrame
  <2>3. db' = Top.start.db
    BY <2>2 DEF RollbackUnit
  <2>4. Top.originals \in SomeImages
    BY <2>2, StatementOnTop, StatementTypes
  <2>5. Restrict(image', DOMAIN Top.originals) = Top.originals
    <3>1. PICK S \in SUBSET Handles : Top.originals \in [S -> Images]
      BY <2>4 DEF SomeImages
    <3>2. \A h \in S : image'[h] = Top.originals[h]
      BY <2>2, <3>1, ImagesAreRestored
    <3> QED
      BY <3>1, <3>2 DEF Restrict
  <2> QED
    BY <2>3, <2>5
<1> QED
  BY <1>1, DmlEngineIsStructured, PTL DEF Spec, FailedStatementsLeaveNoTrace

-----------------------------------------------------------------------------
(* How a step changes the stack, and the SObjects below it                 *)

\* The stacks agree up to a height, and the new one has at most one frame more.
Retains(n) ==
    /\ n \in Nat /\ n <= Len(stack) /\ Len(stack') \in {n, n + 1}
    /\ \A m \in 1..n : stack'[m] = stack[m]

LEMMA Reshaping ==
    ASSUME DmlTypes, stack # <<>>
    PROVE  /\ \A f \in Frames : stack' = Become(f) =>
                  Retains(Len(stack) - 1) /\ Len(stack') = Len(stack) /\ stack'[Len(stack)] = f
           /\ \A f \in Frames : stack' = Push(f) =>
                  /\ Retains(Len(stack)) /\ Len(stack') = Len(stack) + 1
                  /\ stack'[Len(stack) + 1] = f
           /\ stack' = Below => Retains(Len(stack) - 1) /\ Len(stack') = Len(stack) - 1
           /\ \A f \in Frames : Below # <<>> /\ stack' = Append(Front(Below), f) =>
                  /\ Retains(Len(stack) - 2) /\ Len(stack') = Len(stack) - 1
                  /\ stack'[Len(stack) - 1] = f
           /\ stack' = stack => Retains(Len(stack)) /\ Len(stack') = Len(stack)
           /\ stack' = <<>> => Retains(0) /\ Len(stack') = 0
<1>1. /\ stack \in Seq(Frames) /\ Len(stack) \in Nat \ {0}
      /\ Below \in Seq(Frames) /\ Len(Below) = Len(stack) - 1
      /\ \A i \in 1..(Len(stack) - 1) : Below[i] = stack[i]
  BY TopFrame DEF DmlTypes
<1>2. ASSUME NEW f \in Frames, stack' = Become(f)
      PROVE  Retains(Len(stack) - 1) /\ Len(stack') = Len(stack) /\ stack'[Len(stack)] = f
  BY <1>1, <1>2, Appended DEF Become, Retains
<1>3. ASSUME NEW f \in Frames, stack' = Push(f)
      PROVE  /\ Retains(Len(stack)) /\ Len(stack') = Len(stack) + 1
             /\ stack'[Len(stack) + 1] = f
  BY <1>1, <1>3, Appended DEF Push, Retains
<1>4. stack' = Below => Retains(Len(stack) - 1) /\ Len(stack') = Len(stack) - 1
  BY <1>1 DEF Retains
<1>5. ASSUME NEW f \in Frames, Below # <<>>, stack' = Append(Front(Below), f)
      PROVE  /\ Retains(Len(stack) - 2) /\ Len(stack') = Len(stack) - 1
             /\ stack'[Len(stack) - 1] = f
  <2>1. /\ Front(Below) \in Seq(Frames) /\ Len(Front(Below)) = Len(Below) - 1
        /\ Len(Below) \in Nat \ {0}
        /\ \A i \in 1..(Len(Below) - 1) : Front(Below)[i] = Below[i]
    BY <1>1, <1>5, FrontProperties
  <2>2. /\ Len(stack') = Len(Front(Below)) + 1 /\ stack'[Len(Front(Below)) + 1] = f
        /\ \A i \in 1..Len(Front(Below)) : stack'[i] = Front(Below)[i]
    BY <1>5, <2>1, Appended
  <2>3. Len(Front(Below)) = Len(stack) - 2 /\ Len(stack) - 2 \in Nat
        /\ (Len(stack) - 2) + 1 = Len(stack) - 1
    BY <1>1, <2>1
  <2>4. \A i \in 1..(Len(stack) - 2) : stack'[i] = stack[i]
    BY <1>1, <2>1, <2>2, <2>3
  <2> QED
    BY <1>1, <2>2, <2>3, <2>4 DEF Retains
<1>6. stack' = stack => Retains(Len(stack)) /\ Len(stack') = Len(stack)
  BY <1>1 DEF Retains
<1>7. stack' = <<>> => Retains(0) /\ Len(stack') = 0
  BY <1>1, EmptySeq DEF Retains
<1> QED
  BY <1>2, <1>3, <1>4, <1>5, <1>6, <1>7

\* A statement that is not on top runs a trigger of its group.
LEMMA FrameBelow ==
    ASSUME DmlStructure, NEW m \in 1..Len(stack), stack[m].kind = "statement"
    PROVE  /\ stack[m] \in StatementFrames /\ IsOrderly(stack[m])
           /\ m < Len(stack) => stack[m].stage \in {"before", "after"} /\ stack[m].stage \in OpenStages
<1>1. /\ stack \in Seq(Frames) /\ StackIsOrderly(stack) /\ Len(stack) \in Nat
      /\ \A k \in 1..Len(stack) : stack[k] \in Frames
  BY ElementOfSeq, LenProperties DEF DmlStructure, IsStructured
<1>2. stack[m] \in StatementFrames /\ IsOrderly(stack[m])
  BY <1>1, KindsOfFrames DEF StackIsOrderly
<1>3. ASSUME m < Len(stack)
      PROVE  stack[m].stage \in {"before", "after"}
  <2>1. m + 1 \in 1..Len(stack) /\ m + 1 # 1 /\ (m + 1) - 1 = m
    BY <1>1, <1>3
  <2>2. IsNested(stack, m + 1) /\ stack[m + 1] \in Frames
    BY <1>1, <2>1 DEF StackIsOrderly
  <2>3. stack[m + 1].kind = "trigger"
    BY <2>1, <2>2, KindsOfFrames DEF IsNested
  <2>4. stack[m + 1].phase \in Phases
    BY <2>2, <2>3, KindsOfFrames DEF TriggerFrames
  <2> QED
    BY <2>1, <2>2, <2>3, <2>4 DEF IsNested, Phases
<1> QED
  BY <1>2, <1>3, NextStages

-----------------------------------------------------------------------------
(* Failed rows keep their state                                            *)

\* No row of the group has the SObject of a row that is alone and not in it.
LEMMA AloneOutside ==
    ASSUME NEW g \in StatementFrames, IsOrderly(g), NEW i \in Given(g), IsAlone(g, i),
           i \notin g.group
    PROVE  g.inputs[i] \notin GroupOf(g) \cup Globals
<1>1. g.group \subseteq Given(g)
  BY DEF IsOrderly
<1> QED
  BY <1>1 DEF IsAlone, GroupOf

LEMMA KeepingStep ==
    ASSUME DmlStructure, DmlKeeping, NEW n, Retains(n), NEW W,
           \A h \in Handles \ W : image'[h] = image[h],
           \A m \in 1..n : stack[m].kind = "statement" =>
               W = {} \/ (stack[m].stage \in OpenStages /\ W \subseteq GroupOf(stack[m]) \cup Globals),
           Len(stack') = n + 1 =>
               /\ \A m \in 1..n : stack[m].kind = "statement" =>
                      Subjects(stack'[n + 1]) \subseteq GroupOf(stack[m]) \cup Globals
               /\ stack'[n + 1].kind = "statement" => KeepsOriginals(stack'[n + 1], image')
    PROVE  DmlKeeping'
<1>1. /\ n \in Nat /\ Len(stack) \in Nat /\ n <= Len(stack) /\ Len(stack') \in {n, n + 1}
      /\ \A m \in 1..n : stack'[m] = stack[m]
  BY LenProperties DEF Retains, DmlStructure, DmlTypes
<1>2. \A m \in 1..Len(stack') : m \in 1..n \/ (m = n + 1 /\ Len(stack') = n + 1)
  BY <1>1
<1>3. FramesAreConfined'
  <2> SUFFICES ASSUME NEW m \in 1..Len(stack'), NEW k \in (m + 1)..Len(stack'),
                      stack'[m].kind = "statement"
               PROVE  Subjects(stack'[k]) \subseteq GroupOf(stack'[m]) \cup Globals
    BY DEF FramesAreConfined
  <2>1. m \in 1..n /\ stack'[m] = stack[m] /\ k \in 1..Len(stack')
    BY <1>1
  <2>2. CASE k \in 1..n
    <3>1. m \in 1..Len(stack) /\ k \in (m + 1)..Len(stack) /\ stack'[k] = stack[k]
      BY <1>1, <2>1, <2>2
    <3> QED
      BY <2>1, <3>1 DEF DmlKeeping, FramesAreConfined
  <2>3. CASE k = n + 1 /\ Len(stack') = n + 1
    BY <2>1, <2>3
  <2> QED
    BY <1>2, <2>1, <2>2, <2>3
<1>4. ASSUME NEW m \in 1..n, stack[m].kind = "statement"
      PROVE  KeepsOriginals(stack[m], image')
  <2> DEFINE g == stack[m]
  <2>1. m \in 1..Len(stack) /\ KeepsOriginals(g, image)
    BY <1>1, <1>4 DEF DmlKeeping, OriginalsAreKept
  <2>2. g \in StatementFrames /\ IsOrderly(g)
    BY <1>4, <2>1, FrameBelow
  <2>3. W = {} \/ (g.stage \in OpenStages /\ W \subseteq GroupOf(g) \cup Globals)
    BY <1>4
  <2> HIDE DEF g
  <2>4. ASSUME NEW i \in Given(g), IsAlone(g, i), ~(g.stage \in OpenStages /\ i \in g.group)
        PROVE  image'[g.inputs[i]] = image[g.inputs[i]]
    <3>1. g.inputs[i] \in Handles
      BY <2>4 DEF IsAlone
    <3>2. g.inputs[i] \notin W
      BY <2>2, <2>3, <2>4, AloneOutside
    <3> QED
      BY <3>1, <3>2
  <2>5. KeepsOriginals(g, image')
    BY <2>1, <2>4 DEF KeepsOriginals
  <2> QED
    BY <2>5 DEF g
<1>5. OriginalsAreKept'
  <2> SUFFICES ASSUME NEW m \in 1..Len(stack'), stack'[m].kind = "statement"
               PROVE  KeepsOriginals(stack'[m], image')
    BY DEF OriginalsAreKept
  <2> QED
    BY <1>1, <1>2, <1>4
<1> QED
  BY <1>3, <1>5 DEF DmlKeeping

\* What the frame on top is about, those below have in their groups.
LEMMA TopIsConfined ==
    ASSUME DmlStructure, DmlKeeping, NEW m \in 1..(Len(stack) - 1), stack[m].kind = "statement"
    PROVE  /\ stack[m].stage \in OpenStages
           /\ Subjects(Top) \subseteq GroupOf(stack[m]) \cup Globals
<1>1. Len(stack) \in Nat
  BY LenProperties DEF DmlStructure, DmlTypes
<1>2. m \in 1..Len(stack) /\ m < Len(stack) /\ Len(stack) \in (m + 1)..Len(stack)
  BY <1>1
<1> QED
  BY <1>2, FrameBelow DEF DmlKeeping, FramesAreConfined, Top

\* A step of the statement on top, or its end, that writes to its SObjects only.
LEMMA BecomeKeeps ==
    ASSUME DmlStructure, DmlKeeping, stack # <<>>, IsStatement(Top),
           \A h \in Handles \ Subjects(Top) : image'[h] = image[h],
           \/ stack' = Below
           \/ \E f \in StatementFrames :
                  /\ stack' = Become(f) /\ f.inputs = Top.inputs /\ KeepsOriginals(f, image')
    PROVE  DmlKeeping'
<1>1. /\ DmlTypes /\ Len(stack) \in Nat \ {0}
      /\ (Len(stack) - 1) + 1 = Len(stack) /\ Len(stack) - 1 # Len(stack)
  BY TopFrame DEF DmlStructure
<1>2. \A m \in 1..(Len(stack) - 1) : stack[m].kind = "statement" =>
          stack[m].stage \in OpenStages /\ Subjects(Top) \subseteq GroupOf(stack[m]) \cup Globals
  BY TopIsConfined
<1>3. Retains(Len(stack) - 1)
      /\ (Len(stack') = Len(stack) =>
             /\ Subjects(stack'[Len(stack)]) = Subjects(Top)
             /\ KeepsOriginals(stack'[Len(stack)], image'))
  <2>1. CASE stack' = Below
    <3>1. Retains(Len(stack) - 1) /\ Len(stack') = Len(stack) - 1
      BY <1>1, <2>1, Reshaping
    <3> QED
      BY <1>1, <3>1
  <2>2. CASE \E f \in StatementFrames :
                  stack' = Become(f) /\ f.inputs = Top.inputs /\ KeepsOriginals(f, image')
    <3>1. PICK f \in StatementFrames :
                  stack' = Become(f) /\ f.inputs = Top.inputs /\ KeepsOriginals(f, image')
      BY <2>2
    <3>2. f \in Frames /\ f.kind = "statement" /\ Top.kind = "statement"
      BY <3>1, StatementTypes DEF Frames, IsStatement
    <3>3. Subjects(f) = Subjects(Top)
      BY <3>1, <3>2 DEF Subjects, Given
    <3> QED
      BY <1>1, <3>1, <3>2, <3>3, Reshaping
  <2> QED
    BY <2>1, <2>2
<1> DEFINE n == Len(stack) - 1
<1>4. n + 1 = Len(stack) /\ Retains(n) /\ \A m \in 1..n : stack[m].kind = "statement" =>
          stack[m].stage \in OpenStages /\ Subjects(Top) \subseteq GroupOf(stack[m]) \cup Globals
  BY <1>1, <1>2, <1>3
<1> HIDE DEF n
<1>5. Len(stack') = n + 1 =>
          /\ \A m \in 1..n : stack[m].kind = "statement" =>
                 Subjects(stack'[n + 1]) \subseteq GroupOf(stack[m]) \cup Globals
          /\ stack'[n + 1].kind = "statement" => KeepsOriginals(stack'[n + 1], image')
  BY <1>3, <1>4
<1> QED
  BY <1>4, <1>5, KeepingStep

LEMMA OwnFrameKeeps ==
    ASSUME DmlStructure, DmlKeeping, stack # <<>>, IsStatement(Top)
    PROVE  /\ KeepsOriginals(Top, image) /\ Top \in StatementFrames /\ IsOrderly(Top)
           /\ Subjects(Top) = {Top.inputs[i] : i \in Given(Top)}
           /\ GroupOf(Top) \subseteq Subjects(Top)
<1>1. Len(stack) \in 1..Len(stack) /\ Top \in StatementFrames /\ IsOrderly(Top)
  BY StatementOnTop, TopFrame DEF DmlStructure
<1>2. Top.kind = "statement" /\ Top.group \subseteq Given(Top)
  BY <1>1 DEF IsStatement, IsOrderly
<1> QED
  BY <1>1, <1>2 DEF DmlKeeping, OriginalsAreKept, Top, Subjects, GroupOf

LEMMA KeepingStarts == Init => DmlKeeping
<1> SUFFICES ASSUME Init PROVE DmlKeeping
  OBVIOUS
<1>1. stack = <<[kind |-> "entry"]>>
  BY DEF Init
<1>2. Len(stack) = 1 /\ stack[1].kind = "entry"
  BY <1>1
<1> QED
  BY <1>2 DEF DmlKeeping, FramesAreConfined, OriginalsAreKept

LEMMA CodeKeeps ==
    ASSUME DmlStructure, DmlKeeping, SetField \/ RunQuery \/ IssueDml \/ FinishEntry
    PROVE  DmlKeeping'
<1>1. CodeRuns /\ DmlTypes
  BY DEF SetField, RunQuery, IssueDml, FinishEntry, Spend, DmlStructure
<1>2. /\ stack # <<>> /\ ~IsStatement(Top) /\ Reach \subseteq Handles
      /\ Len(stack) \in Nat \ {0} /\ Top \in Frames /\ Top = stack[Len(stack)]
  BY <1>1, CodeOnTop, TopFrame
<1>3. ASSUME NEW m \in 1..Len(stack), stack[m].kind = "statement"
      PROVE  stack[m].stage \in OpenStages /\ Reach \subseteq GroupOf(stack[m]) \cup Globals
  <2>1. m \in 1..(Len(stack) - 1)
    BY <1>2, <1>3 DEF IsStatement
  <2>2. stack[m].stage \in OpenStages /\ Subjects(Top) \subseteq GroupOf(stack[m]) \cup Globals
    BY <1>3, <2>1, TopIsConfined
  <2>3. Top.kind = "trigger"
    <3>1. Top.kind # "entry"
      <4>1. IsNested(stack, Len(stack)) /\ Len(stack) # 1
        BY <1>2, <2>1 DEF DmlStructure, IsStructured, StackIsOrderly
      <4> QED
        BY <1>2, <4>1 DEF IsNested
    <3> QED
      BY <1>1, <3>1 DEF CodeRuns
  <2>4. Reach \subseteq Subjects(Top) \cup Globals
    BY <2>3 DEF Reach, TriggerNew, Subjects
  <2> QED
    BY <2>2, <2>4
<1>4. CASE SetField
  <2>1. PICK h \in Reach \ readOnly, f \in Fields, v \in Values \cup {Null} :
            image' = [image EXCEPT ![h].fields = Put(@, f, v)]
    BY <1>4 DEF SetField
  <2>2. \A g \in Handles \ {h} : image'[g] = image[g]
    BY <1>2, <2>1, SetFieldImage
  <2>3. Retains(Len(stack)) /\ Len(stack') = Len(stack)
    BY <1>1, <1>2, <1>4, Reshaping DEF SetField
  <2>4. \A m \in 1..Len(stack) : stack[m].kind = "statement" =>
            stack[m].stage \in OpenStages /\ {h} \subseteq GroupOf(stack[m]) \cup Globals
    BY <1>3
  <2>5. Len(stack') # Len(stack) + 1
    BY <1>2, <2>3
  <2> QED
    BY <2>2, <2>3, <2>4, <2>5, KeepingStep
<1>5. CASE RunQuery
  <2>1. image' = image /\ Retains(Len(stack)) /\ Len(stack') = Len(stack)
    BY <1>1, <1>2, <1>5, Reshaping DEF RunQuery
  <2>2. Len(stack') # Len(stack) + 1 /\ \A g \in Handles \ {} : image'[g] = image[g]
    BY <1>2, <2>1
  <2> QED
    BY <2>1, <2>2, KeepingStep
<1>6. CASE IssueDml
  <2>1. PICK f \in StatementFrames :
          /\ stack' = Push(f) /\ f.kind = "statement" /\ f.stage = "preflight" /\ IsOrderly(f)
          /\ {f.inputs[i] : i \in Given(f)} \subseteq Reach
          /\ \A h \in DOMAIN f.originals : f.originals[h] = image[h]
    BY <1>6, IssueFrame
  <2>2. image' = image /\ f \in Frames
    BY <1>6 DEF IssueDml, Frames
  <2>3. Retains(Len(stack)) /\ stack'[Len(stack) + 1] = f
    BY <1>1, <1>2, <2>1, <2>2, Reshaping
  <2>4. Subjects(f) \subseteq Reach
    BY <2>1 DEF Subjects
  <2>5. f.stage \notin OpenStages /\ DOMAIN f.originals = {f.inputs[i] : i \in Given(f)}
    BY <2>1 DEF OpenStages, IsOrderly
  <2>6. KeepsOriginals(f, image')
    BY <2>1, <2>2, <2>5 DEF KeepsOriginals
  <2>7. \A m \in 1..Len(stack) : stack[m].kind = "statement" =>
            Subjects(f) \subseteq GroupOf(stack[m]) \cup Globals
    BY <1>3, <2>4
  <2>8. \A g \in Handles \ {} : image'[g] = image[g]
    BY <2>2
  <2> QED
    BY <2>3, <2>6, <2>7, <2>8, KeepingStep
<1>7. CASE FinishEntry
  <2>1. image' = image /\ Retains(0) /\ Len(stack') # 0 + 1
    BY <1>1, <1>2, <1>7, Reshaping DEF FinishEntry
  <2>2. \A g \in Handles \ {} : image'[g] = image[g]
    BY <2>1
  <2> QED
    BY <2>1, <2>2, KeepingStep
<1> QED
  BY <1>4, <1>5, <1>6, <1>7

\* The rows of a group are settled together: those outside keep what they had.
LEMMA EndKeeps == ASSUME DmlStructure, DmlKeeping, Ends PROVE DmlKeeping'
<1>1. PICK f \in StatementFrames : EndsAs(f) /\ (IsKept(f) \/ IsUndone(f))
  BY SettledFrame, UndoneFrame DEF Ends
<1>2. /\ stack # <<>> /\ IsStatement(Top) /\ Top.stage \in OpenStages
  <2>1. At("settle") \/ At("failed")
    BY DEF Ends, SettleAtomic, SettlePartial, RetrySurvivors, FailAttempt
  <2> QED
    BY <2>1, AtStatement, NextStages
<1>3. /\ KeepsOriginals(Top, image) /\ Top \in StatementFrames /\ IsOrderly(Top)
      /\ Subjects(Top) = {Top.inputs[i] : i \in Given(Top)} /\ GroupOf(Top) \subseteq Subjects(Top)
      /\ Top.stage \in GroupStages /\ Top.stage # "failing" /\ DOMAIN Top.held = GroupOf(Top)
  <2>1. Top.stage \in GroupStages /\ Top.stage # "failing"
    BY <1>2, StageNames DEF OpenStages
  <2> QED
    BY <1>2, <2>1, OwnFrameKeeps, InGroup
<1>4. /\ stack' = Become(f) /\ f.inputs = Top.inputs /\ f.originals = Top.originals
      /\ f.stage \in {"choose", "failing", "attempt"} /\ f.stage \notin OpenStages
      /\ \A i \in DOMAIN Top.inputs \ Top.group : IsUnsettled(f, i) => IsUnsettled(Top, i)
  <2>1. f.stage \in {"choose", "failing", "attempt"}
    BY <1>1 DEF EndsAs
  <2>2. f.stage \notin OpenStages
    BY <2>1 DEF OpenStages
  <2> QED
    BY <1>1, <2>1, <2>2 DEF EndsAs, SameRows, SameStatement, IsUnsettled
<1>5. \A i \in Top.group : IsUnsettled(Top, i)
  BY <1>3, GroupIsUnsettled DEF IsUnsettled
<1>6. ASSUME NEW i \in Given(f), IsAlone(f, i), IsUnsettled(f, i), f.stage # "failing"
      PROVE  f.originals[f.inputs[i]] = image'[f.inputs[i]]
  <2> DEFINE h == f.inputs[i]
  <2>1. i \in Given(Top) /\ IsAlone(Top, i) /\ h = Top.inputs[i] /\ h \in Handles
        /\ i \in DOMAIN Top.inputs
    BY <1>4, <1>6 DEF Given, IsAlone
  <2>2. CASE i \in Top.group
    <3>1. Top.originals[h] = Top.held[h]
      BY <1>2, <1>3, <1>5, <2>1, <2>2 DEF KeepsOriginals
    <3>2. ~IsKept(f)
      BY <1>1, <1>4, <1>6, <2>2 DEF IsKept, IsUnsettled
    <3>3. image' = RestoredImages /\ h \in GroupOf(Top)
      BY <1>1, <2>1, <2>2, <3>2 DEF IsUndone, GroupOf
    <3> QED
      BY <1>2, <1>3, <1>4, <2>1, <3>1, <3>3, ImagesAreRestored
  <2>3. CASE i \notin Top.group
    <3>1. IsUnsettled(Top, i)
      BY <1>4, <1>6, <2>1, <2>3
    <3>2. Top.originals[h] = image[h]
      BY <1>3, <2>1, <2>3, <3>1 DEF KeepsOriginals
    <3>3. h \notin GroupOf(Top)
      BY <1>3, <2>1, <2>3, AloneOutside
    <3>4. image'[h] = image[h]
      <4>1. CASE IsKept(f)
        BY <4>1 DEF IsKept
      <4>2. CASE IsUndone(f)
        BY <1>2, <1>3, <2>1, <3>3, <4>2, ImagesAreRestored DEF IsUndone
      <4> QED
        BY <1>1, <4>1, <4>2
    <3> QED
      BY <1>4, <3>2, <3>4
  <2> QED
    BY <2>2, <2>3
<1>7. KeepsOriginals(f, image')
  BY <1>4, <1>6 DEF KeepsOriginals
<1>8. \A h \in Handles \ Subjects(Top) : image'[h] = image[h]
  <2>1. CASE IsKept(f)
    BY <2>1 DEF IsKept
  <2>2. CASE IsUndone(f)
    BY <1>2, <1>3, <2>2, ImagesAreRestored DEF IsUndone
  <2> QED
    BY <1>1, <2>1, <2>2
<1> QED
  BY <1>2, <1>4, <1>7, <1>8, BecomeKeeps

LEMMA LeavesKeeps == ASSUME DmlStructure, DmlKeeping, Leaves PROVE DmlKeeping'
<1>1. /\ stack # <<>> /\ IsStatement(Top) /\ stack' = Below
      /\ UNCHANGED image \/ image' = RestoredOriginals
  BY LeavesFrame
<1>2. Subjects(Top) = DOMAIN Top.originals
  BY <1>1, OwnFrameKeeps DEF IsOrderly
<1>3. \A h \in Handles \ Subjects(Top) : image'[h] = image[h]
  BY <1>1, <1>2, ImagesAreRestored
<1> QED
  BY <1>1, <1>3, BecomeKeeps

LEMMA PreflightKeeps == ASSUME DmlStructure, DmlKeeping, Preflight PROVE DmlKeeping'
<1>1. PICK f \in StatementFrames :
          /\ stack' = Become(f) /\ f.inputs = Top.inputs /\ f.originals = Top.originals
          /\ f.stage \in {"failing", "choose"}
  BY PreflightFrame
<1>2. /\ stack # <<>> /\ IsStatement(Top) /\ Top.stage = "preflight" /\ image' = image
  BY AtStatement DEF Preflight
<1>3. KeepsOriginals(Top, image) /\ IsOrderly(Top)
  BY <1>2, OwnFrameKeeps
<1>4. \A i \in Given(Top) : IsUnsettled(Top, i)
  BY <1>2, <1>3 DEF IsOrderly, IsUnsettled
<1>5. f.stage \notin OpenStages /\ Top.stage \notin OpenStages /\ Top.stage # "failing"
  BY <1>1, <1>2 DEF OpenStages
<1>6. Given(f) = Given(Top) /\ \A i \in Given(f) : IsAlone(f, i) => IsAlone(Top, i)
  BY <1>1 DEF Given, IsAlone
<1>7. KeepsOriginals(f, image')
  BY <1>1, <1>2, <1>3, <1>4, <1>5, <1>6 DEF KeepsOriginals
<1> QED
  BY <1>1, <1>2, <1>7, BecomeKeeps

LEMMA ChooseGroupKeeps == ASSUME DmlStructure, DmlKeeping, ChooseGroup PROVE DmlKeeping'
<1>1. PICK f \in StatementFrames :
          /\ stack' = Become(f) /\ SameRows(f) /\ f.outcomes = Top.outcomes
          /\ f.stage \in {"choose", "attempt"}
  BY ChooseGroupFrame
<1>2. /\ stack # <<>> /\ IsStatement(Top) /\ Top.stage = "choose" /\ image' = image
  BY AtStatement DEF ChooseGroup
<1>3. KeepsOriginals(Top, image)
  BY <1>2, OwnFrameKeeps
<1>4. f.stage \notin OpenStages /\ Top.stage \notin OpenStages /\ Top.stage # "failing"
  BY <1>1, <1>2 DEF OpenStages
<1>5. /\ f.inputs = Top.inputs /\ f.originals = Top.originals
      /\ Given(f) = Given(Top) /\ \A i \in Given(f) : IsAlone(f, i) => IsAlone(Top, i)
      /\ \A i \in Given(f) : IsUnsettled(f, i) => IsUnsettled(Top, i)
  BY <1>1 DEF SameRows, SameStatement, Given, IsAlone, IsUnsettled
<1>6. KeepsOriginals(f, image')
  BY <1>2, <1>3, <1>4, <1>5 DEF KeepsOriginals
<1> QED
  BY <1>1, <1>2, <1>5, <1>6, BecomeKeeps

LEMMA BeginAttemptKeeps == ASSUME DmlStructure, DmlKeeping, BeginAttempt PROVE DmlKeeping'
<1>1. PICK f \in StatementFrames :
          /\ stack' = Become(f) /\ SameRows(f) /\ f.stage = "before"
          /\ f.outcomes = Top.outcomes /\ f.group = Top.group
          /\ DOMAIN f.held = GroupOf(f) /\ \A h \in DOMAIN f.held : f.held[h] = image[h]
  BY BeginAttemptFrame
<1>2. \A h \in Handles : h \notin GroupOf(Top) => image'[h] = image[h]
  BY BeginAttemptFrame
<1>3. /\ stack # <<>> /\ IsStatement(Top) /\ Top.stage = "attempt"
  BY AtStatement DEF BeginAttempt
<1>4. /\ KeepsOriginals(Top, image) /\ Top \in StatementFrames /\ IsOrderly(Top)
      /\ GroupOf(Top) \subseteq Subjects(Top)
  BY <1>3, OwnFrameKeeps
<1>5. Top.stage \notin OpenStages /\ Top.stage # "failing"
  BY <1>3 DEF OpenStages
<1>6. f.inputs = Top.inputs /\ f.originals = Top.originals /\ GroupOf(f) = GroupOf(Top)
  BY <1>1 DEF SameRows, SameStatement, GroupOf
<1>7. ASSUME NEW i \in Given(f), IsAlone(f, i), IsUnsettled(f, i)
      PROVE  f.originals[f.inputs[i]] = IF i \in f.group THEN f.held[f.inputs[i]]
                                        ELSE image'[f.inputs[i]]
  <2>1. i \in Given(Top) /\ IsAlone(Top, i) /\ IsUnsettled(Top, i) /\ Top.inputs[i] \in Handles
    BY <1>1, <1>6, <1>7 DEF Given, IsAlone, IsUnsettled
  <2>2. Top.originals[Top.inputs[i]] = image[Top.inputs[i]]
    BY <1>4, <1>5, <2>1 DEF KeepsOriginals
  <2>3. CASE i \in f.group
    BY <1>1, <1>6, <2>2, <2>3 DEF GroupOf
  <2>4. CASE i \notin f.group
    <3>1. Top.inputs[i] \notin GroupOf(Top)
      BY <1>1, <1>4, <2>1, <2>4, AloneOutside
    <3> QED
      BY <1>2, <1>6, <2>1, <2>2, <2>4, <3>1
  <2> QED
    BY <2>3, <2>4
<1>8. KeepsOriginals(f, image')
  BY <1>1, <1>7, NextStages DEF KeepsOriginals
<1>9. \A h \in Handles \ Subjects(Top) : image'[h] = image[h]
  BY <1>2, <1>4
<1> QED
  BY <1>1, <1>3, <1>6, <1>8, <1>9, BecomeKeeps

\* An attempt goes on, and writes to the SObjects of its group only.
LEMMA OpenFrameKeeps ==
    ASSUME NEW f \in StatementFrames, NEW g \in StatementFrames, NEW old, NEW new,
           f.stage \in OpenStages, g.stage \in OpenStages, IsOrderly(g),
           f.inputs = g.inputs, f.originals = g.originals, f.outcomes = g.outcomes,
           f.group = g.group, f.held = g.held,
           \A h \in Handles : h \notin GroupOf(g) => new[h] = old[h],
           KeepsOriginals(g, old)
    PROVE  KeepsOriginals(f, new)
<1>1. g.stage # "failing"
  BY DEF OpenStages
<1>2. ASSUME NEW i \in Given(f), IsAlone(f, i), IsUnsettled(f, i)
      PROVE  f.originals[f.inputs[i]] = IF i \in f.group THEN f.held[f.inputs[i]]
                                        ELSE new[f.inputs[i]]
  <2>1. i \in Given(g) /\ IsAlone(g, i) /\ IsUnsettled(g, i) /\ g.inputs[i] \in Handles
    BY <1>2 DEF Given, IsAlone, IsUnsettled
  <2>2. g.originals[g.inputs[i]] = IF i \in g.group THEN g.held[g.inputs[i]]
                                   ELSE old[g.inputs[i]]
    BY <1>1, <2>1 DEF KeepsOriginals
  <2>3. i \notin g.group => g.inputs[i] \notin GroupOf(g)
    BY <2>1, AloneOutside
  <2> QED
    BY <2>1, <2>2, <2>3
<1> QED
  BY <1>2 DEF KeepsOriginals

LEMMA OpenStepKeeps ==
    ASSUME DmlStructure, DmlKeeping, SkipTriggers \/ HostFails \/ Write
    PROVE  DmlKeeping'
<1>1. /\ stack # <<>> /\ IsStatement(Top) /\ Top.stage \in OpenStages
      /\ \E f \in StatementFrames :
             /\ stack' = Become(f) /\ SameRows(f) /\ f.stage \in OpenStages
             /\ f.outcomes = Top.outcomes /\ f.group = Top.group /\ f.held = Top.held
      /\ \A h \in Handles : h \notin GroupOf(Top) => image'[h] = image[h]
  <2>1. CASE SkipTriggers \/ HostFails
    <3>1. image' = image
      BY <2>1 DEF SkipTriggers, HostFails
    <3> QED
      BY <2>1, <3>1, MovedFrame
  <2>2. CASE Write
    <3>1. stack # <<>> /\ IsStatement(Top) /\ Top.stage \in OpenStages
      BY <2>2, AtStatement, NextStages DEF Write
    <3> DEFINE run == Done[Len(Top.inputs)]
    <3>2. /\ IsWritten(run, Len(Top.inputs)) /\ DOMAIN run.statuses = Top.group
          /\ \A h \in Handles :
                 image'[h] = IF h \in DOMAIN run.images THEN run.images[h] ELSE image[h]
      BY <2>2, WriteFrame
    <3>3. PICK f \in StatementFrames :
             /\ stack' = Become(f) /\ SameRows(f) /\ f.stage = "after"
             /\ f.outcomes = Top.outcomes /\ f.group = Top.group /\ f.held = Top.held
      BY <2>2, WriteFrame
    <3> HIDE DEF run
    <3>4. DOMAIN run.images \subseteq GroupOf(Top)
      BY <3>2 DEF IsWritten, WrittenRows, GroupOf
    <3> QED
      BY <3>1, <3>2, <3>3, <3>4, NextStages
  <2> QED
    BY <2>1, <2>2
<1>2. PICK f \in StatementFrames :
             /\ stack' = Become(f) /\ SameRows(f) /\ f.stage \in OpenStages
             /\ f.outcomes = Top.outcomes /\ f.group = Top.group /\ f.held = Top.held
  BY <1>1
<1>3. /\ KeepsOriginals(Top, image) /\ Top \in StatementFrames /\ IsOrderly(Top)
      /\ GroupOf(Top) \subseteq Subjects(Top)
  BY <1>1, OwnFrameKeeps
<1>4. f.inputs = Top.inputs /\ f.originals = Top.originals
  BY <1>2 DEF SameRows, SameStatement
<1>5. KeepsOriginals(f, image')
  BY <1>1, <1>2, <1>3, <1>4, OpenFrameKeeps
<1>6. \A h \in Handles \ Subjects(Top) : image'[h] = image[h]
  BY <1>1, <1>3
<1> QED
  BY <1>1, <1>2, <1>4, <1>5, <1>6, BecomeKeeps

LEMMA EnterKeeps == ASSUME DmlStructure, DmlKeeping, EnterTriggers PROVE DmlKeeping'
<1>1. PICK f \in TriggerFrames :
          stack' = Push(f) /\ f.kind = "trigger" /\ f.context \subseteq GroupOf(Top) /\ At(f.phase)
  BY EnteredFrame
<1>2. /\ DmlTypes /\ stack # <<>> /\ IsStatement(Top) /\ image' = image
  BY <1>1, AtStatement DEF EnterTriggers
<1>3. /\ Len(stack) \in Nat \ {0} /\ Top = stack[Len(stack)]
  BY <1>2, TopFrame
<1>4. Retains(Len(stack)) /\ stack'[Len(stack) + 1] = f
  BY <1>1, <1>2, TriggerIsCode, Reshaping
<1>5. Subjects(f) \subseteq GroupOf(Top) /\ GroupOf(Top) \subseteq Subjects(Top)
  BY <1>1, <1>2, OwnFrameKeeps DEF Subjects
<1>6. ASSUME NEW m \in 1..Len(stack), stack[m].kind = "statement"
      PROVE  Subjects(f) \subseteq GroupOf(stack[m]) \cup Globals
  <2>1. CASE m = Len(stack)
    BY <1>3, <1>5, <2>1
  <2>2. CASE m # Len(stack)
    <3>1. m \in 1..(Len(stack) - 1)
      BY <1>3, <2>2
    <3> QED
      BY <1>5, <1>6, <3>1, TopIsConfined
  <2> QED
    BY <2>1, <2>2
<1>7. \A h \in Handles \ {} : image'[h] = image[h]
  BY <1>2
<1> QED
  BY <1>1, <1>4, <1>6, <1>7, KeepingStep

LEMMA NextTriggerKeeps == ASSUME DmlStructure, DmlKeeping, NextTrigger PROVE DmlKeeping'
<1> DEFINE f == [Top EXCEPT !.left = Top.left - 1]
           n == Len(stack) - 1
<1>1. /\ InTrigger /\ Top.left > 0 /\ stack' = Become(f) /\ image' = image
  BY DEF NextTrigger
<1>2. Top \in TriggerFrames /\ Top.kind = "trigger" /\ stack # <<>> /\ DmlTypes
  BY <1>1, TriggerOnTop DEF InTrigger, DmlStructure
<1>3. f \in TriggerFrames /\ f.kind = "trigger" /\ f.context = Top.context
  BY <1>1, <1>2 DEF TriggerFrames
<1> HIDE DEF f
<1>4. Subjects(f) = Subjects(Top)
  BY <1>2, <1>3 DEF Subjects
<1>5. Len(stack) \in Nat \ {0} /\ n + 1 = Len(stack)
  BY <1>2, TopFrame
<1>6. Retains(n) /\ stack'[n + 1] = f
  BY <1>1, <1>2, <1>3, <1>5, TriggerIsCode, Reshaping
<1>7. \A m \in 1..n : stack[m].kind = "statement" =>
          Subjects(f) \subseteq GroupOf(stack[m]) \cup Globals
  BY <1>4, TopIsConfined
<1>8. \A h \in Handles \ {} : image'[h] = image[h]
  BY <1>1
<1> HIDE DEF n
<1> QED
  BY <1>3, <1>6, <1>7, <1>8, KeepingStep

LEMMA LeftKeeps ==
    ASSUME DmlStructure, DmlKeeping, ReturnFromTrigger \/ ThrowInTrigger
    PROVE  DmlKeeping'
<1>1. PICK f \in StatementFrames :
          /\ stack' = Append(Front(Below), f) /\ f.stage \in OpenStages
          /\ f.inputs = Last(Below).inputs /\ f.originals = Last(Below).originals
          /\ f.outcomes = Last(Below).outcomes /\ f.group = Last(Below).group
          /\ f.held = Last(Below).held
  BY LeftFrame
<1>2. InTrigger /\ image' = image
  BY LeftFrame
<1>3. /\ Below # <<>> /\ Below \in Seq(Frames) /\ Last(Below) = Below[Len(Below)]
      /\ Last(Below) \in StatementFrames /\ IsOrderly(Last(Below))
      /\ Last(Below).stage \in OpenStages /\ Last(Below).kind = "statement"
  BY <1>2, TriggerOnTop
<1>4. stack # <<>> /\ DmlTypes
  BY <1>2 DEF InTrigger, DmlStructure
<1>5. /\ Len(stack) \in Nat \ {0} /\ Len(Below) = Len(stack) - 1 /\ Len(Below) \in Nat \ {0}
      /\ \A m \in 1..(Len(stack) - 1) : Below[m] = stack[m]
  BY <1>3, <1>4, TopFrame, FrontProperties
<1> DEFINE g == Last(Below)
           n == Len(stack) - 2
<1>6. n + 1 = Len(stack) - 1 /\ n + 1 \in 1..Len(stack) /\ n \in Nat /\ g = stack[n + 1]
  BY <1>3, <1>5
<1>7. f \in Frames /\ f.kind = "statement"
  BY StatementTypes DEF Frames
<1>8. Retains(n) /\ stack'[n + 1] = f
  BY <1>1, <1>3, <1>4, <1>6, <1>7, Reshaping
<1>9. Subjects(f) = Subjects(g)
  BY <1>1, <1>3, <1>7 DEF Subjects, Given
<1> HIDE DEF n, g
<1>10. \A m \in 1..n : stack[m].kind = "statement" =>
           Subjects(f) \subseteq GroupOf(stack[m]) \cup Globals
  <2>1. \A m \in 1..n : m \in 1..Len(stack) /\ n + 1 \in (m + 1)..Len(stack)
    BY <1>6
  <2> QED
    BY <1>6, <1>9, <2>1 DEF DmlKeeping, FramesAreConfined
<1>11. KeepsOriginals(g, image)
  BY <1>3, <1>6 DEF DmlKeeping, OriginalsAreKept, g
<1>12. \A h \in Handles \ {} : image'[h] = image[h]
  BY <1>2
<1>13. KeepsOriginals(f, image')
  BY <1>1, <1>3, <1>11, <1>12, OpenFrameKeeps DEF g
<1> QED
  BY <1>8, <1>10, <1>12, <1>13, KeepingStep

LEMMA KeepingIsKept == DmlStructure /\ DmlKeeping /\ [Next]_vars => DmlKeeping'
<1> SUFFICES ASSUME DmlStructure, DmlKeeping, [Next]_vars PROVE DmlKeeping'
  OBVIOUS
<1>1. CASE SetField \/ RunQuery \/ IssueDml \/ FinishEntry
  BY <1>1, CodeKeeps
<1>2. CASE Preflight \/ ChooseGroup \/ BeginAttempt
  BY <1>2, PreflightKeeps, ChooseGroupKeeps, BeginAttemptKeeps
<1>3. CASE SkipTriggers \/ HostFails \/ Write
  BY <1>3, OpenStepKeeps
<1>4. CASE EnterTriggers \/ NextTrigger
  BY <1>4, EnterKeeps, NextTriggerKeeps
<1>5. CASE ReturnFromTrigger \/ ThrowInTrigger
  BY <1>5, LeftKeeps
<1>6. CASE SettleAtomic \/ SettlePartial \/ RetrySurvivors \/ FailAttempt
  BY <1>6, EndKeeps DEF Ends
<1>7. CASE CompleteStatement \/ FailStatement
  BY <1>7, LeavesKeeps DEF Leaves
<1>8. CASE UNCHANGED vars
  BY <1>8 DEF vars, DmlKeeping, FramesAreConfined, OriginalsAreKept
<1> QED
  BY <1>1, <1>2, <1>3, <1>4, <1>5, <1>6, <1>7, <1>8 DEF Next, Terminated

\* Frames are about SObjects of the groups below them, and what a row that is
\* not written was is still remembered or in place.
THEOREM OriginalsStayKept == Spec => []DmlKeeping
<1>1. Init => DmlKeeping
  BY KeepingStarts
<1>2. DmlStructure /\ DmlKeeping /\ [Next]_vars => DmlKeeping'
  BY KeepingIsKept
<1> QED
  BY <1>1, <1>2, DmlEngineIsStructured, PTL DEF Spec

\* A row of a partial request that fails leaves its SObject as it was, whatever
\* attempts wrote it, were undone and were made again without it.
THEOREM FailedRowsAlwaysKeepTheirState == Spec => FailedRowsKeepTheirState
<1> DEFINE KeepTheirState ==
        Popped("statement") /\ Top.stage # "failing" =>
           \A i \in Given(Top) : IsAlone(Top, i) /\ Top.outcomes[i] # "OK" =>
               image'[Top.inputs[i]] = Top.originals[Top.inputs[i]]
<1>1. DmlStructure /\ DmlKeeping /\ [Next]_vars => [KeepTheirState]_vars
  <2> SUFFICES ASSUME DmlStructure, DmlKeeping, [Next]_vars, Popped("statement"),
                      Top.stage # "failing", NEW i \in Given(Top), IsAlone(Top, i),
                      Top.outcomes[i] # "OK"
               PROVE  image'[Top.inputs[i]] = Top.originals[Top.inputs[i]]
    OBVIOUS
  <2>1. Leaves
    BY WhatPops
  <2>2. /\ stack # <<>> /\ IsStatement(Top) /\ Top.stage = "choose" /\ image' = image
    BY <2>1, LeavesFrame
  <2>3. KeepsOriginals(Top, image)
    BY <2>2, OwnFrameKeeps
  <2>4. Top.stage \notin OpenStages
    BY <2>2 DEF OpenStages
  <2> QED
    BY <2>2, <2>3, <2>4 DEF KeepsOriginals, IsUnsettled
<1> QED
  BY <1>1, OriginalsStayKept, DmlEngineIsStructured, PTL DEF Spec, FailedRowsKeepTheirState

-----------------------------------------------------------------------------
(* Reported rows are in the database                                        *)

LEMMA NullIsUnknown == ASSUME NEW d \in Databases PROVE Null \notin Known(d)
<1>1. Known(d) \subseteq Ids
  BY DatabaseParts
<1> QED
  BY <1>1, RecordsAssumption DEF Ids

LEMMA CopiesAreDatabases ==
    ASSUME NEW copies \in Seq(Databases), NEW now \in Databases, NEW k \in Nat \ {0}
    PROVE  CopyAt(copies, now, k) \in Databases
<1>1. Len(copies) \in Nat /\ \A j \in 1..Len(copies) : copies[j] \in Databases
  BY LenProperties, ElementOfSeq
<1> QED
  BY <1>1 DEF CopyAt

\* The host's units and a write forget no Id one could not go back to.
LEMMA UnitsKeepKnown ==
    ASSUME NEW copies \in Seq(Databases), NEW now \in Databases, IdsGrow(copies, now),
           NEW more, NEW later,
           \/ more = copies /\ Known(now) \subseteq Known(later)
           \/ more = Append(copies, now) /\ later = now
           \/ copies # <<>> /\ more = Front(copies) /\ later = now
           \/ copies # <<>> /\ more = Front(copies) /\ later = copies[Len(copies)]
    PROVE  /\ IdsGrow(more, later)
           /\ \A k \in 1..Len(copies) :
                  Known(CopyAt(copies, now, k)) \subseteq Known(CopyAt(more, later, k))
           /\ Len(more) >= Len(copies) => \A k \in Nat \ {0} :
                  Known(CopyAt(copies, now, k)) \subseteq Known(CopyAt(more, later, k))
<1>1. Len(copies) \in Nat
  BY LenProperties
<1>2. \A k \in 1..(Len(copies) + 1) : \A j \in 1..k :
          Known(CopyAt(copies, now, j)) \subseteq Known(CopyAt(copies, now, k))
  BY DEF IdsGrow
<1>3. CASE more = copies /\ Known(now) \subseteq Known(later)
  <2>1. \A k \in Nat \ {0} :
            CopyAt(more, later, k) = IF k <= Len(copies) THEN CopyAt(copies, now, k) ELSE later
    BY <1>3 DEF CopyAt
  <2>2. CopyAt(copies, now, Len(copies) + 1) = now
    BY <1>1 DEF CopyAt
  <2>3. \A k \in Nat \ {0} : k > Len(copies) => CopyAt(copies, now, k) = now
    BY <1>1 DEF CopyAt
  <2>4. \A k \in Nat \ {0} :
            Known(CopyAt(copies, now, k)) \subseteq Known(CopyAt(more, later, k))
    BY <1>1, <1>3, <2>1, <2>3
  <2>5. ASSUME NEW k \in 1..(Len(copies) + 1), NEW j \in 1..k
        PROVE  Known(CopyAt(more, later, j)) \subseteq Known(CopyAt(more, later, k))
    <3>1. CASE k <= Len(copies)
      <4>1. CopyAt(more, later, j) = CopyAt(copies, now, j)
            /\ CopyAt(more, later, k) = CopyAt(copies, now, k)
        BY <1>1, <2>1, <3>1
      <4> QED
        BY <1>2, <4>1
    <3>2. CASE k = Len(copies) + 1 /\ j = k
      BY <3>2
    <3>3. CASE k = Len(copies) + 1 /\ j # k
      <4>1. CopyAt(more, later, j) = CopyAt(copies, now, j) /\ CopyAt(more, later, k) = later
        BY <1>1, <2>1, <3>3
      <4>2. Known(CopyAt(copies, now, j)) \subseteq Known(now)
        BY <1>2, <2>2, <3>3
      <4> QED
        BY <1>3, <4>1, <4>2
    <3> QED
      BY <1>1, <3>1, <3>2, <3>3
  <2> QED
    BY <1>1, <1>3, <2>4, <2>5 DEF IdsGrow
<1>4. CASE more = Append(copies, now) /\ later = now
  <2>1. Len(more) = Len(copies) + 1 /\ more[Len(copies) + 1] = now
        /\ \A k \in 1..Len(copies) : more[k] = copies[k]
    BY <1>4, Appended
  <2>2. \A k \in Nat \ {0} : CopyAt(more, later, k) = CopyAt(copies, now, k)
    BY <1>1, <1>4, <2>1 DEF CopyAt
  <2>3. \A k \in 1..(Len(more) + 1) : \A j \in 1..k :
            Known(CopyAt(copies, now, j)) \subseteq Known(CopyAt(copies, now, k))
    <3>1. CopyAt(copies, now, Len(copies) + 2) = CopyAt(copies, now, Len(copies) + 1)
      BY <1>1 DEF CopyAt
    <3> TAKE k \in 1..(Len(more) + 1)
    <3> TAKE j \in 1..k
    <3>2. k \in 1..(Len(copies) + 1) \/ k = Len(copies) + 2
      BY <1>1, <2>1
    <3>3. j \in 1..(Len(copies) + 1) \/ j = Len(copies) + 2
      BY <1>1, <2>1
    <3>4. Len(copies) + 1 \in 1..(Len(copies) + 1)
      BY <1>1
    <3> QED
      BY <1>2, <3>1, <3>2, <3>3, <3>4
  <2>4. IdsGrow(more, later)
    <3>1. \A k \in 1..(Len(more) + 1) : \A j \in 1..k : k \in Nat \ {0} /\ j \in Nat \ {0}
      BY <1>1, <2>1
    <3> QED
      BY <2>2, <2>3, <3>1 DEF IdsGrow
  <2> QED
    BY <1>1, <2>2, <2>4
<1>5. CASE copies # <<>> /\ more = Front(copies) /\ later \in {now, copies[Len(copies)]}
  <2> DEFINE n == Len(copies)
  <2>1. n \in Nat \ {0} /\ Len(more) = n - 1 /\ \A k \in 1..(n - 1) : more[k] = copies[k]
    BY <1>5, FrontProperties
  <2>2. \A k \in 1..(n - 1) : CopyAt(more, later, k) = CopyAt(copies, now, k)
    BY <2>1 DEF CopyAt
  <2>3. CopyAt(more, later, n) = later
    BY <2>1 DEF CopyAt
  <2>4. CopyAt(copies, now, n) = copies[n] /\ CopyAt(copies, now, n + 1) = now
    BY <2>1 DEF CopyAt
  <2>5. later = CopyAt(copies, now, n) \/ later = CopyAt(copies, now, n + 1)
    BY <1>5, <2>4
  <2> HIDE DEF n
  <2>6. \A k \in 1..(n + 1) : \A j \in 1..k :
            Known(CopyAt(copies, now, j)) \subseteq Known(CopyAt(copies, now, k))
    BY <1>2 DEF n
  <2>7. \A j \in 1..n : Known(CopyAt(copies, now, j)) \subseteq Known(later)
    <3>1. \A j \in 1..n : n \in 1..(n + 1) /\ n + 1 \in 1..(n + 1) /\ j \in 1..(n + 1)
      BY <2>1
    <3> QED
      BY <2>5, <2>6, <3>1
  <2>8. \A k \in 1..n : Known(CopyAt(copies, now, k)) \subseteq Known(CopyAt(more, later, k))
    <3>1. \A k \in 1..n : k \in 1..(n - 1) \/ k = n
      BY <2>1
    <3> QED
      BY <2>2, <2>3, <2>7, <3>1
  <2>9. ASSUME NEW k \in 1..n, NEW j \in 1..k
        PROVE  Known(CopyAt(more, later, j)) \subseteq Known(CopyAt(more, later, k))
    <3>1. CASE k # n
      <4>1. k \in 1..(n - 1) /\ j \in 1..(n - 1) /\ k \in 1..(n + 1)
        BY <2>1, <3>1
      <4> QED
        BY <2>2, <2>6, <4>1
    <3>2. CASE k = n /\ j # n
      <4>1. j \in 1..(n - 1) /\ j \in 1..n
        BY <2>1, <3>2
      <4> QED
        BY <2>2, <2>3, <2>7, <3>2, <4>1
    <3>3. CASE j = n /\ k = n
      BY <3>3
    <3> QED
      BY <2>1, <3>1, <3>2, <3>3
  <2>10. IdsGrow(more, later)
    <3>1. Len(more) + 1 = n
      BY <2>1
    <3> QED
      BY <2>9, <3>1 DEF IdsGrow
  <2> QED
    BY <2>1, <2>8, <2>10 DEF n
<1> QED
  BY <1>3, <1>4, <1>5

\* The rows written are ready rows; those reported are not in a group's SObjects.
LEMMA WrittenRowsAreGiven ==
    ASSUME NEW f \in StatementFrames, IsOrderly(f), NEW i \in Fixed(f)
    PROVE  /\ i \in DOMAIN f.ready /\ f.inputs[i] \in Handles
           /\ i \in Reported(f) /\ f.stage \in GroupStages => f.inputs[i] \notin GroupOf(f)
<1>1. DOMAIN f.ready \subseteq Given(f) /\ f.group \subseteq DOMAIN f.ready
      /\ \A j, k \in DOMAIN f.ready : f.inputs[j] = f.inputs[k] => f.ready[j] = f.ready[k]
  BY DEF IsOrderly
<1>2. i \in DOMAIN f.ready
  BY <1>1 DEF Fixed, Reported, Wrote, Aimed, IsOrderly
<1>3. f.inputs[i] \in Handles
  BY <1>1, <1>2, StatementTypes
<1>4. ASSUME i \in Reported(f), f.stage \in GroupStages, f.inputs[i] \in GroupOf(f)
      PROVE  FALSE
  <2>1. PICK j \in f.group : f.inputs[i] = f.inputs[j]
    BY <1>4 DEF GroupOf
  <2>2. f.ready[i].op = Head(f.pending)
    BY <1>1, <1>2, <1>4, <2>1, InGroup
  <2>3. f.ready[i].op \notin Elements(f.pending)
    BY <1>4 DEF Reported, IsOrderly
  <2>4. Head(f.pending) \in Elements(f.pending)
    <3>1. /\ f.pending \in Seq(GroupOps) /\ f.pending # <<>>
          /\ \A k, l \in 1..Len(f.pending) : f.pending[k] = f.pending[l] => k = l
      BY <1>4, InGroup
    <3>2. Elements(f.pending) = {Head(f.pending)} \cup Elements(Tail(f.pending))
      BY <3>1, PendingTail
    <3> QED
      BY <3>2
  <2> QED
    BY <2>2, <2>3, <2>4
<1> QED
  BY <1>2, <1>3, <1>4

\* Between two statements of the stack is a trigger body.
LEMMA StatementsApart ==
    ASSUME DmlStructure, NEW m \in 1..Len(stack), NEW k \in (m + 1)..Len(stack),
           stack[m].kind = "statement", stack[k].kind = "statement"
    PROVE  m + 2 <= k
<1>1. Len(stack) \in Nat
  BY LenProperties DEF DmlStructure, DmlTypes
<1>2. k \in 1..Len(stack)
  BY <1>1
<1>3. stack[k - 1].kind # "statement"
  BY <1>2 DEF DmlStructure, IsStructured, StackIsOrderly, IsNested
<1>4. k - 1 # m
  BY <1>3
<1> QED
  BY <1>1, <1>4

\* The SObject of a written row has an Id.
LEMMA WrittenRowsHaveIds ==
    ASSUME DmlStructure, DmlTruth, NEW m \in 1..Len(stack), stack[m].kind = "statement",
           NEW i \in Fixed(stack[m])
    PROVE  stack[m].inputs[i] \in Handles /\ image[stack[m].inputs[i]].id # Null
<1>1. /\ checkpoints \in Seq(Databases) /\ db \in Databases
      /\ m + 1 \in Nat \ {0} /\ m + 2 \in Nat \ {0}
  BY DEF DmlStructure, DmlTypes
<1>2. Null \notin Known(CopyAt(checkpoints, db, m + 1)) /\ Null \notin Known(CopyAt(checkpoints, db, m + 2))
  BY <1>1, CopiesAreDatabases, NullIsUnknown
<1>3. stack[m] \in StatementFrames /\ IsOrderly(stack[m])
  BY FrameBelow
<1>4. stack[m].inputs[i] \in Handles
  BY <1>3, WrittenRowsAreGiven
<1>5. WritesAreIn(stack[m], image, CopyAt(checkpoints, db, m + 1), CopyAt(checkpoints, db, m + 2))
  BY DEF DmlTruth, WrittenRowsAreKnown
<1> QED
  BY <1>2, <1>4, <1>5 DEF WritesAreIn, Fixed, Aimed

LEMMA TruthStep ==
    ASSUME DmlStructure, DmlTruth, NEW n, Retains(n), IdsGrow(checkpoints', db'),
           \A m \in 1..n : stack[m].kind = "statement" =>
               /\ Known(CopyAt(checkpoints, db, m + 1))
                      \subseteq Known(CopyAt(checkpoints', db', m + 1))
               /\ Known(CopyAt(checkpoints, db, m + 2))
                      \subseteq Known(CopyAt(checkpoints', db', m + 2))
               /\ \A i \in Fixed(stack[m]) :
                      image'[stack[m].inputs[i]].id = image[stack[m].inputs[i]].id,
           Len(stack') = n + 1 /\ stack'[n + 1].kind = "statement" =>
               /\ WritesAreIn(stack'[n + 1], image', CopyAt(checkpoints', db', (n + 1) + 1),
                                                     CopyAt(checkpoints', db', (n + 1) + 2))
               /\ \A m \in 1..n : stack[m].kind = "statement" =>
                      RemembersWrites(stack'[n + 1], stack[m], image)
    PROVE  DmlTruth'
<1>1. /\ n \in Nat /\ Len(stack) \in Nat /\ n <= Len(stack) /\ Len(stack') \in {n, n + 1}
      /\ \A m \in 1..n : stack'[m] = stack[m]
  BY LenProperties DEF Retains, DmlStructure, DmlTypes
<1>2. \A m \in 1..Len(stack') : m \in 1..n \/ (m = n + 1 /\ Len(stack') = n + 1)
  BY <1>1
<1>3. WrittenRowsAreKnown'
  <2> SUFFICES ASSUME NEW m \in 1..Len(stack'), stack'[m].kind = "statement"
               PROVE  WritesAreIn(stack'[m], image', CopyAt(checkpoints', db', m + 1),
                                                     CopyAt(checkpoints', db', m + 2))
    BY DEF WrittenRowsAreKnown
  <2>1. CASE m \in 1..n
    <3>1. m \in 1..Len(stack) /\ stack'[m] = stack[m] /\ stack[m].kind = "statement"
      BY <1>1, <2>1
    <3>2. WritesAreIn(stack[m], image, CopyAt(checkpoints, db, m + 1), CopyAt(checkpoints, db, m + 2))
      BY <3>1 DEF DmlTruth, WrittenRowsAreKnown
    <3> QED
      BY <2>1, <3>1, <3>2 DEF WritesAreIn, Fixed
  <2>2. CASE m = n + 1 /\ Len(stack') = n + 1
    BY <2>2
  <2> QED
    BY <1>2, <2>1, <2>2
<1>4. WrittenRowsAreRemembered'
  <2> SUFFICES ASSUME NEW m \in 1..Len(stack'), NEW k \in (m + 1)..Len(stack'),
                      stack'[m].kind = "statement", stack'[k].kind = "statement"
               PROVE  RemembersWrites(stack'[k], stack'[m], image')
    BY DEF WrittenRowsAreRemembered
  <2>1. m \in 1..n /\ stack'[m] = stack[m] /\ k \in 1..Len(stack') /\ stack[m].kind = "statement"
    BY <1>1
  <2>2. RemembersWrites(stack'[k], stack[m], image)
    <3>1. CASE k \in 1..n
      <4>1. m \in 1..Len(stack) /\ k \in (m + 1)..Len(stack) /\ stack'[k] = stack[k]
        BY <1>1, <2>1, <3>1
      <4> QED
        BY <2>1, <4>1 DEF DmlTruth, WrittenRowsAreRemembered
    <3>2. CASE k = n + 1 /\ Len(stack') = n + 1
      BY <2>1, <3>2
    <3> QED
      BY <1>2, <2>1, <3>1, <3>2
  <2> QED
    BY <2>1, <2>2 DEF RemembersWrites
<1> QED
  BY <1>3, <1>4 DEF DmlTruth

\* A step that changes neither the databases nor the Ids, and no statement.
LEMMA QuietStep ==
    ASSUME DmlStructure, DmlTruth, NEW n, Retains(n), UNCHANGED <<checkpoints, db>>,
           \A h \in Handles : image'[h].id = image[h].id,
           Len(stack') = n + 1 /\ stack'[n + 1].kind = "statement" =>
               /\ WritesAreIn(stack'[n + 1], image, CopyAt(checkpoints, db, (n + 1) + 1),
                                                    CopyAt(checkpoints, db, (n + 1) + 2))
               /\ \A m \in 1..n : stack[m].kind = "statement" =>
                      RemembersWrites(stack'[n + 1], stack[m], image),
           Len(stack') = n + 1 /\ stack'[n + 1].kind = "statement" =>
               stack'[n + 1] \in StatementFrames /\ IsOrderly(stack'[n + 1])
    PROVE  DmlTruth'
<1>1. IdsGrow(checkpoints', db') /\ checkpoints' = checkpoints /\ db' = db
  BY DEF DmlTruth
<1>2. \A m \in 1..n : m \in 1..Len(stack)
  BY LenProperties DEF Retains, DmlStructure, DmlTypes
<1>3. \A m \in 1..n : stack[m].kind = "statement" =>
          \A i \in Fixed(stack[m]) :
              image'[stack[m].inputs[i]].id = image[stack[m].inputs[i]].id
  BY <1>2, WrittenRowsHaveIds
<1>4. Len(stack') = n + 1 /\ stack'[n + 1].kind = "statement" =>
          WritesAreIn(stack'[n + 1], image', CopyAt(checkpoints, db, (n + 1) + 1),
                                             CopyAt(checkpoints, db, (n + 1) + 2))
  BY WrittenRowsAreGiven DEF WritesAreIn, Fixed
<1> QED
  BY <1>1, <1>3, <1>4, TruthStep

\* A step of the statement on top, or its end: what it remembers of an SObject
\* with an Id is what it leaves, and what it still remembers.
LEMMA BecomeTruth ==
    ASSUME DmlStructure, DmlTruth, stack # <<>>, IsStatement(Top), IdsGrow(checkpoints', db'),
           \A k \in 1..Len(stack) :
               Known(CopyAt(checkpoints, db, k)) \subseteq Known(CopyAt(checkpoints', db', k)),
           \A h \in Handles : image[h].id # Null /\ Remembers(Top, h, image[h].id) =>
               image'[h].id = image[h].id,
           \/ stack' = Below
           \/ \E f \in StatementFrames :
                  /\ stack' = Become(f)
                  /\ \A h \in Handles : image[h].id # Null /\ Remembers(Top, h, image[h].id) =>
                         Remembers(f, h, image[h].id)
                  /\ WritesAreIn(f, image', CopyAt(checkpoints', db', Len(stack) + 1),
                                            CopyAt(checkpoints', db', Len(stack) + 2))
    PROVE  DmlTruth'
<1>1. /\ DmlTypes /\ Len(stack) \in Nat \ {0} /\ Top = stack[Len(stack)]
      /\ (Len(stack) - 1) + 1 = Len(stack) /\ Len(stack) - 1 # Len(stack)
  BY TopFrame DEF DmlStructure
<1>2. ASSUME NEW m \in 1..(Len(stack) - 1), stack[m].kind = "statement"
      PROVE  /\ m + 1 \in 1..Len(stack) /\ m + 2 \in 1..Len(stack)
             /\ \A i \in Fixed(stack[m]) :
                    /\ stack[m].inputs[i] \in Handles /\ image[stack[m].inputs[i]].id # Null
                    /\ Remembers(Top, stack[m].inputs[i], image[stack[m].inputs[i]].id)
  <2>1. Len(stack) \in Nat \ {0}
    BY <1>1
  <2>2. m \in 1..Len(stack) /\ Len(stack) \in (m + 1)..Len(stack)
    BY <2>1
  <2>3. Top.kind = "statement"
    BY DEF IsStatement
  <2>4. RemembersWrites(Top, stack[m], image)
    BY <1>1, <1>2, <2>2, <2>3 DEF DmlTruth, WrittenRowsAreRemembered
  <2>5. m + 2 <= Len(stack)
    BY <1>1, <1>2, <2>2, <2>3, StatementsApart
  <2>6. m + 1 \in 1..Len(stack) /\ m + 2 \in 1..Len(stack)
    BY <2>1, <2>5
  <2>7. \A i \in Fixed(stack[m]) :
            stack[m].inputs[i] \in Handles /\ image[stack[m].inputs[i]].id # Null
    BY <1>2, <2>2, WrittenRowsHaveIds
  <2> QED
    BY <2>4, <2>6, <2>7 DEF RemembersWrites
<1> DEFINE n == Len(stack) - 1
<1>3. n + 1 = Len(stack) /\ n # Len(stack)
  BY <1>1
<1>4. \A m \in 1..n : stack[m].kind = "statement" =>
          /\ Known(CopyAt(checkpoints, db, m + 1)) \subseteq Known(CopyAt(checkpoints', db', m + 1))
          /\ Known(CopyAt(checkpoints, db, m + 2)) \subseteq Known(CopyAt(checkpoints', db', m + 2))
          /\ \A i \in Fixed(stack[m]) :
                 image'[stack[m].inputs[i]].id = image[stack[m].inputs[i]].id
  BY <1>2
<1>5. CASE stack' = Below
  <2>1. Retains(n) /\ Len(stack') = n
    BY <1>1, <1>5, Reshaping
  <2> HIDE DEF n
  <2>2. Len(stack') # n + 1
    BY <1>3, <2>1
  <2> QED
    BY <1>4, <2>1, <2>2, TruthStep
<1>6. CASE stack' # Below
  <2>1. PICK f \in StatementFrames :
            /\ stack' = Become(f)
            /\ \A h \in Handles : image[h].id # Null /\ Remembers(Top, h, image[h].id) =>
                   Remembers(f, h, image[h].id)
            /\ WritesAreIn(f, image', CopyAt(checkpoints', db', Len(stack) + 1),
                                      CopyAt(checkpoints', db', Len(stack) + 2))
    BY <1>6
  <2>2. f \in Frames
    BY DEF Frames
  <2>3. Retains(n) /\ stack'[Len(stack)] = f
    BY <1>1, <2>1, <2>2, Reshaping
  <2>4. \A m \in 1..n : stack[m].kind = "statement" => RemembersWrites(f, stack[m], image)
    BY <1>2, <2>1 DEF RemembersWrites
  <2> HIDE DEF n
  <2> QED
    BY <1>3, <1>4, <2>1, <2>3, <2>4, TruthStep
<1> QED
  BY <1>5, <1>6

LEMMA TruthStarts == Init => DmlTruth
<1> SUFFICES ASSUME Init PROVE DmlTruth
  OBVIOUS
<1>1. Len(stack) = 1 /\ stack[1].kind = "entry" /\ checkpoints = <<db>>
  BY DEF Init
<1>2. Len(checkpoints) = 1 /\ checkpoints[1] = db
  BY <1>1
<1>3. \A k \in 1..2 : CopyAt(checkpoints, db, k) = db
  BY <1>2 DEF CopyAt
<1>4. IdsGrow(checkpoints, db)
  BY <1>2, <1>3 DEF IdsGrow
<1> QED
  BY <1>1, <1>4 DEF DmlTruth, WrittenRowsAreKnown, WrittenRowsAreRemembered

LEMMA CodeIsTrue ==
    ASSUME DmlStructure, DmlTruth, SetField \/ RunQuery \/ IssueDml \/ FinishEntry
    PROVE  DmlTruth'
<1>1. CodeRuns /\ DmlTypes
  BY DEF SetField, RunQuery, IssueDml, FinishEntry, Spend, DmlStructure
<1>2. /\ stack # <<>> /\ ~IsStatement(Top) /\ Reach \subseteq Handles
      /\ Len(stack) \in Nat \ {0} /\ Top = stack[Len(stack)]
      /\ checkpoints \in Seq(Databases) /\ db \in Databases /\ Len(checkpoints) \in Nat
      /\ IdsGrow(checkpoints, db)
  BY <1>1, CodeOnTop, TopFrame, LenProperties DEF DmlTypes, DmlTruth
<1>3. CASE SetField \/ RunQuery
  <2>1. \A h \in Handles : image'[h].id = image[h].id
    <3>1. CASE SetField
      <4>1. PICK h \in Reach \ readOnly, f \in Fields, v \in Values \cup {Null} :
                image' = [image EXCEPT ![h].fields = Put(@, f, v)]
        BY <3>1 DEF SetField
      <4>2. h \in Handles
        BY <1>2
      <4>3. image'[h].id = image[h].id /\ \A g \in Handles \ {h} : image'[g] = image[g]
        BY <4>1, <4>2, SetFieldImage
      <4> QED
        BY <4>3
    <3>2. CASE RunQuery
      BY <3>2 DEF RunQuery
    <3> QED
      BY <1>3, <3>1, <3>2
  <2>2. stack' = stack /\ UNCHANGED <<checkpoints, db>>
    BY <1>3 DEF SetField, RunQuery
  <2>3. Retains(Len(stack)) /\ Len(stack') # Len(stack) + 1
    BY <1>1, <1>2, <2>2, Reshaping
  <2> QED
    BY <2>1, <2>2, <2>3, QuietStep
<1>4. CASE IssueDml
  <2>1. PICK f \in StatementFrames :
          /\ stack' = Push(f) /\ f.kind = "statement" /\ f.stage = "preflight" /\ IsOrderly(f)
          /\ DOMAIN f.held = {} /\ DOMAIN f.ready = {}
          /\ \A h \in DOMAIN f.originals : f.originals[h] = image[h]
          /\ \A i \in DOMAIN f.outcomes : f.outcomes[i] # "OK"
    BY <1>4, IssueFrame
  <2>2. image' = image /\ f \in Frames /\ checkpoints' = Append(checkpoints, db) /\ db' = db
    BY <1>4 DEF IssueDml, BeginUnit, Frames
  <2>3. Retains(Len(stack)) /\ stack'[Len(stack) + 1] = f
    BY <1>1, <1>2, <2>1, <2>2, Reshaping
  <2>4. Reported(f) = {} /\ Wrote(f) = {} /\ Aimed(f) = {}
    BY <2>1 DEF Reported, Wrote, Aimed
  <2>5. \A h : Remembers(f, h, image[h].id)
    BY <2>1 DEF Remembers
  <2>6. /\ IdsGrow(checkpoints', db')
        /\ Len(checkpoints') >= Len(checkpoints) => \A k \in Nat \ {0} :
               Known(CopyAt(checkpoints, db, k)) \subseteq Known(CopyAt(checkpoints', db', k))
    BY <1>2, <2>2, UnitsKeepKnown
  <2>7. Len(checkpoints') >= Len(checkpoints)
    BY <1>2, <2>2, Appended
  <2>8. \A m \in 1..Len(stack) : m + 1 \in Nat \ {0} /\ m + 2 \in Nat \ {0}
    OBVIOUS
  <2>9. WritesAreIn(f, image', CopyAt(checkpoints', db', (Len(stack) + 1) + 1),
                               CopyAt(checkpoints', db', (Len(stack) + 1) + 2))
    BY <2>4 DEF WritesAreIn
  <2>10. \A m \in 1..Len(stack) : RemembersWrites(f, stack[m], image)
    BY <2>5 DEF RemembersWrites
  <2> QED
    BY <2>2, <2>3, <2>6, <2>7, <2>8, <2>9, <2>10, TruthStep
<1>5. CASE FinishEntry
  <2>1. image' = image /\ Retains(0) /\ Len(stack') # 0 + 1
    BY <1>1, <1>2, <1>5, Reshaping DEF FinishEntry
  <2>2. checkpoints # <<>>
    <3>1. Len(checkpoints) # 0
      <4>1. Len(checkpoints) = Len(stack) + (IF HasOpenAttempt(Top) THEN 1 ELSE 0)
        BY <1>2 DEF DmlStructure, IsStructured, CheckpointsFollow
      <4> QED
        BY <1>2, <4>1
    <3> QED
      BY <3>1
  <2>3. \/ checkpoints' = Front(checkpoints) /\ db' = db
        \/ checkpoints' = Front(checkpoints) /\ db' = checkpoints[Len(checkpoints)]
    BY <1>5 DEF FinishEntry, CommitUnit, RollbackUnit, Last
  <2>4. IdsGrow(checkpoints', db')
    BY <1>2, <2>2, <2>3, UnitsKeepKnown
  <2>5. \A m \in 1..0 : FALSE
    OBVIOUS
  <2> QED
    BY <2>1, <2>4, <2>5, TruthStep
<1> QED
  BY <1>3, <1>4, <1>5

\* The statement on top, which is at the height of its checkpoint.
LEMMA TopIsTrue ==
    ASSUME DmlStructure, DmlTruth, stack # <<>>, IsStatement(Top)
    PROVE  /\ Top \in StatementFrames /\ IsOrderly(Top) /\ Len(stack) \in Nat \ {0}
           /\ WritesAreIn(Top, image, CopyAt(checkpoints, db, Len(stack) + 1),
                                      CopyAt(checkpoints, db, Len(stack) + 2))
           /\ checkpoints \in Seq(Databases) /\ db \in Databases /\ checkpoints # <<>>
           /\ IdsGrow(checkpoints, db)
           /\ Len(checkpoints) = Len(stack) + (IF Top.stage \in OpenStages THEN 1 ELSE 0)
           /\ \A i \in Fixed(Top) :
                  Top.inputs[i] \in Handles /\ image[Top.inputs[i]].id # Null
<1>1. /\ Top \in StatementFrames /\ IsOrderly(Top) /\ Len(stack) \in Nat \ {0}
      /\ Len(checkpoints) = Len(stack) + (IF HasOpenAttempt(Top) THEN 1 ELSE 0)
      /\ Top = stack[Len(stack)] /\ Top.kind = "statement"
  BY StatementOnTop, TopFrame DEF DmlStructure, IsStatement
<1>2. Len(stack) \in 1..Len(stack) /\ stack[Len(stack)].kind = "statement"
  BY <1>1
<1>3. HasOpenAttempt(Top) <=> Top.stage \in OpenStages
  BY <1>1, OpenFlags
<1>4. Len(checkpoints) # 0
  BY <1>1
<1>5. checkpoints # <<>>
  BY <1>4
<1>6. \A i \in Fixed(Top) :
          Top.inputs[i] \in Handles /\ image[Top.inputs[i]].id # Null
  BY <1>1, <1>2, WrittenRowsHaveIds
<1> QED
  BY <1>1, <1>2, <1>3, <1>5, <1>6 DEF DmlTruth, WrittenRowsAreKnown, DmlStructure, DmlTypes

\* A step of the statement that begins and ends no attempt, and reports no more.
LEMMA QuietBecome ==
    ASSUME DmlStructure, DmlTruth, stack # <<>>, IsStatement(Top),
           UNCHANGED <<checkpoints, db, image>>, NEW f \in StatementFrames, stack' = Become(f),
           f.inputs = Top.inputs,
           Reported(f) \subseteq Reported(Top), Wrote(f) \subseteq Wrote(Top),
           Aimed(f) \subseteq Aimed(Top), Aimed(f) # {} => f.ready = Top.ready,
           \A h \in Handles : image[h].id # Null /\ Remembers(Top, h, image[h].id) =>
               Remembers(f, h, image[h].id)
    PROVE  DmlTruth'
<1>1. /\ IdsGrow(checkpoints', db') /\ checkpoints' = checkpoints /\ db' = db /\ image' = image
      /\ WritesAreIn(Top, image, CopyAt(checkpoints, db, Len(stack) + 1),
                                 CopyAt(checkpoints, db, Len(stack) + 2))
  BY TopIsTrue
<1>2. WritesAreIn(f, image', CopyAt(checkpoints', db', Len(stack) + 1),
                             CopyAt(checkpoints', db', Len(stack) + 2))
  BY <1>1 DEF WritesAreIn
<1> QED
  BY <1>1, <1>2, BecomeTruth

\* A statement that has the rows it had, and no other images, remembers as much.
LEMMA SameRowsRemember ==
    ASSUME NEW f, SameRows(f), DOMAIN f.held = {} \/ f.held = Top.held, NEW h, NEW id,
           Remembers(Top, h, id)
    PROVE  Remembers(f, h, id)
BY DEF SameRows, SameStatement, Remembers

LEMMA PreflightIsTrue == ASSUME DmlStructure, DmlTruth, Preflight PROVE DmlTruth'
<1>1. PICK f \in StatementFrames :
          /\ stack' = Become(f) /\ f.inputs = Top.inputs /\ f.originals = Top.originals
          /\ f.held = Top.held
          /\ \/ f.stage = "failing" /\ f.outcomes = Top.outcomes /\ DOMAIN f.ready = {}
             \/ /\ f.stage = "choose"
                /\ DOMAIN f.ready = {i \in Given(Top) : Prepared(i).status = "OK"}
                /\ \A i \in DOMAIN f.ready : f.ready[i] = Prepared(i)
                /\ \A i \in DOMAIN f.outcomes : f.outcomes[i] # "OK"
  BY PreflightFrame
<1>2. /\ stack # <<>> /\ IsStatement(Top) /\ At("preflight")
      /\ UNCHANGED <<checkpoints, db, image>>
  BY AtStatement DEF Preflight
<1>3. Reported(f) = {} /\ Wrote(f) = {} /\ Aimed(f) = {}
  BY <1>1 DEF Reported, Wrote, Aimed
<1>4. ASSUME NEW h \in Handles, image[h].id # Null, Remembers(Top, h, image[h].id)
      PROVE  Remembers(f, h, image[h].id)
  <2>1. ASSUME NEW j \in DOMAIN f.ready, f.inputs[j] = h, f.ready[j].new # NoImage
        PROVE  f.ready[j].new.id = image[h].id
    <3>1. j \in Given(Top) /\ Prepared(j).status = "OK" /\ f.ready[j] = Prepared(j)
      BY <1>1, <2>1
    <3>2. Top.inputs[j] = h
      BY <1>1, <2>1
    <3> QED
      BY <1>2, <1>4, <2>1, <3>1, <3>2, PreflightRows
  <2> QED
    BY <1>1, <1>4, <2>1 DEF Remembers
<1> QED
  BY <1>1, <1>2, <1>3, <1>4, QuietBecome

LEMMA ChooseGroupIsTrue == ASSUME DmlStructure, DmlTruth, ChooseGroup PROVE DmlTruth'
<1>1. PICK f \in StatementFrames :
          /\ stack' = Become(f) /\ SameRows(f) /\ f.outcomes = Top.outcomes /\ DOMAIN f.held = {}
          /\ f.stage \in {"choose", "attempt"}
  BY ChooseGroupFrame
<1>2. /\ stack # <<>> /\ IsStatement(Top) /\ Top.stage = "choose"
      /\ UNCHANGED <<checkpoints, db, image>>
  BY AtStatement DEF ChooseGroup
<1>3. Reported(f) = Reported(Top) /\ Wrote(f) = {} /\ Aimed(f) = {}
  BY <1>1, <1>2 DEF Reported, Wrote, Aimed
<1>4. f.inputs = Top.inputs
  BY <1>1 DEF SameRows, SameStatement
<1> QED
  BY <1>1, <1>2, <1>3, <1>4, SameRowsRemember, QuietBecome

LEMMA MovedIsTrue == ASSUME DmlStructure, DmlTruth, SkipTriggers \/ HostFails PROVE DmlTruth'
<1>1. /\ stack # <<>> /\ IsStatement(Top) /\ Top.stage \in OpenStages
  BY MovedFrame
<1>2. PICK f \in StatementFrames :
          /\ stack' = Become(f) /\ SameRows(f) /\ f.stage \in OpenStages
          /\ f.outcomes = Top.outcomes /\ f.held = Top.held /\ f.results = Top.results
          /\ f.group = Top.group
          /\ f.stage \in {"after", "settle"} => Top.stage \in {"after", "settle"}
          /\ f.stage \in {"before", "write"} => Top.stage = "before"
  BY MovedFrame
<1>3. UNCHANGED <<checkpoints, db, image>>
  BY DEF SkipTriggers, HostFails
<1>4. f.stage # "failing" /\ Top.stage # "failing"
  BY <1>1, <1>2 DEF OpenStages
<1>5. /\ Reported(f) = Reported(Top) /\ Wrote(f) \subseteq Wrote(Top)
      /\ f.ready = Top.ready /\ Aimed(f) \subseteq Aimed(Top)
  BY <1>2, <1>4 DEF Reported, Wrote, Aimed, SameRows
<1>6. f.inputs = Top.inputs
  BY <1>2 DEF SameRows, SameStatement
<1> QED
  BY <1>1, <1>2, <1>3, <1>5, <1>6, SameRowsRemember, QuietBecome

\* An SObject that a row of the group was prepared for takes its image.
LEMMA RowsArePrepared ==
    ASSUME Top \in StatementFrames, IsOrderly(Top), NEW i \in Top.group,
           Top.ready[i].new # NoImage
    PROVE  \E j \in Top.group : /\ Top.inputs[j] = Top.inputs[i]
                                /\ PreparedImage(Top.inputs[i]) = Top.ready[j].new
<1> DEFINE rows == {j \in Top.group : Top.inputs[j] = Top.inputs[i] /\ Top.ready[j].new # NoImage}
<1>1. PreparedImage(Top.inputs[i]) = Top.ready[Max(rows)].new /\ rows # {}
  BY DEF PreparedImage
<1>2. Len(Top.inputs) \in Nat /\ rows \subseteq 0..Len(Top.inputs)
  BY StatementTypes DEF IsOrderly, Given
<1> HIDE DEF rows
<1>3. Max(rows) \in rows
  BY <1>1, <1>2, LastRow
<1> QED
  BY <1>1, <1>3 DEF rows

\* An attempt is prepared: its SObjects take the Ids their rows have.
LEMMA BeginAttemptIsTrue == ASSUME DmlStructure, DmlTruth, BeginAttempt PROVE DmlTruth'
<1>1. PICK f \in StatementFrames :
          /\ stack' = Become(f) /\ SameRows(f) /\ f.stage = "before"
          /\ f.outcomes = Top.outcomes /\ f.group = Top.group
          /\ DOMAIN f.held = GroupOf(f) /\ \A h \in DOMAIN f.held : f.held[h] = image[h]
  BY BeginAttemptFrame
<1>2. \A h \in Handles :
          image'[h] = IF h \in GroupOf(Top) THEN PreparedImage(h) ELSE image[h]
  BY BeginAttemptFrame
<1>3. /\ stack # <<>> /\ IsStatement(Top) /\ At("attempt") /\ Top.stage = "attempt"
      /\ checkpoints' = Append(checkpoints, db) /\ db' = db
  BY AtStatement DEF BeginAttempt, BeginUnit
<1>4. /\ Top \in StatementFrames /\ IsOrderly(Top) /\ Len(stack) \in Nat \ {0}
      /\ WritesAreIn(Top, image, CopyAt(checkpoints, db, Len(stack) + 1),
                                 CopyAt(checkpoints, db, Len(stack) + 2))
      /\ checkpoints \in Seq(Databases) /\ db \in Databases /\ IdsGrow(checkpoints, db)
      /\ Len(checkpoints) \in Nat
      /\ Len(checkpoints) = Len(stack) + (IF Top.stage \in OpenStages THEN 1 ELSE 0)
  BY <1>3, TopIsTrue, LenProperties
<1>5. f.inputs = Top.inputs
  BY <1>1 DEF SameRows, SameStatement
<1>6. /\ IdsGrow(checkpoints', db')
      /\ \A k \in Nat \ {0} :
             Known(CopyAt(checkpoints, db, k)) \subseteq Known(CopyAt(checkpoints', db', k))
      /\ \A k \in 1..Len(stack) : k \in Nat \ {0}
  <2>1. Len(checkpoints') >= Len(checkpoints)
    <3>1. Len(checkpoints') = Len(checkpoints) + 1
      BY <1>3, <1>4, Appended
    <3> QED
      BY <1>4, <3>1
  <2>2. /\ IdsGrow(checkpoints', db')
        /\ Len(checkpoints') >= Len(checkpoints) => \A k \in Nat \ {0} :
               Known(CopyAt(checkpoints, db, k)) \subseteq Known(CopyAt(checkpoints', db', k))
    BY <1>3, <1>4, UnitsKeepKnown
  <2>3. \A k \in 1..Len(stack) : k \in Nat \ {0}
    OBVIOUS
  <2> QED
    BY <2>1, <2>2, <2>3
<1>7. ASSUME NEW h \in Handles, image[h].id # Null, Remembers(Top, h, image[h].id)
      PROVE  image'[h].id = image[h].id /\ Remembers(f, h, image[h].id)
  <2>1. \/ PreparedImage(h) = image[h]
        \/ \E i \in Top.group : /\ Top.inputs[i] = h /\ Top.ready[i].new # NoImage
                                /\ PreparedImage(h) = Top.ready[i].new
    BY <1>3, ImageOfAttempt
  <2>2. Top.group \subseteq DOMAIN Top.ready
    BY <1>4 DEF IsOrderly
  <2>3. PreparedImage(h).id = image[h].id
    BY <1>7, <2>1, <2>2 DEF Remembers
  <2>4. Remembers(f, h, image[h].id)
    BY <1>1, <1>7 DEF Remembers, SameRows, SameStatement
  <2> QED
    BY <1>2, <2>3, <2>4
<1>8. Reported(f) = Reported(Top) /\ Wrote(f) = {}
  BY <1>1, <1>3 DEF Reported, Wrote
<1>11. ASSUME NEW i \in Aimed(f) PROVE image'[f.inputs[i]].id = f.ready[i].new.id
  <2> DEFINE h == f.inputs[i]
  <2>1. /\ i \in Top.group /\ f.ready = Top.ready /\ Top.ready[i].new.id # Null
        /\ h = Top.inputs[i] /\ h \in GroupOf(Top) /\ h \in Handles
    BY <1>1, <1>5, <1>11, BeginAttemptFrame DEF Aimed, SameRows, GroupOf
  <2> HIDE DEF h
  <2>2. Top.ready[i].new # NoImage
    BY <2>1 DEF NoImage
  <2>3. PICK j \in Top.group : Top.inputs[j] = h /\ PreparedImage(h) = Top.ready[j].new
    BY <1>4, <2>1, <2>2, RowsArePrepared
  <2>4. Top.ready[j] = Top.ready[i]
    BY <1>4, <2>1, <2>3 DEF IsOrderly
  <2> QED
    BY <1>2, <2>1, <2>3, <2>4 DEF h
<1>9. \A i \in Reported(Top) : image'[Top.inputs[i]] = image[Top.inputs[i]]
  <2>1. Top.stage \in GroupStages
    BY <1>3, StageNames
  <2> QED
    BY <1>2, <1>4, <2>1, WrittenRowsAreGiven DEF Fixed
<1>10. WritesAreIn(f, image', CopyAt(checkpoints', db', Len(stack) + 1),
                              CopyAt(checkpoints', db', Len(stack) + 2))
  <2>1. Len(stack) + 1 \in Nat \ {0}
    BY <1>4
  <2> QED
    BY <1>4, <1>5, <1>6, <1>8, <1>9, <1>11, <2>1 DEF WritesAreIn
<1> QED
  BY <1>1, <1>3, <1>6, <1>7, <1>10, BecomeTruth

\* The rows of an attempt are written, each under the Id it had or a new one.
LEMMA WriteIsTrue == ASSUME DmlStructure, DmlTruth, Write PROVE DmlTruth'
<1> DEFINE run == Done[Len(Top.inputs)]
<1>1. /\ IsWritten(run, Len(Top.inputs)) /\ DOMAIN run.statuses = Top.group /\ db' = run.db
      /\ \A h \in Handles :
             image'[h] = IF h \in DOMAIN run.images THEN run.images[h] ELSE image[h]
  BY WriteFrame
<1>2. PICK f \in StatementFrames :
          /\ stack' = Become(f) /\ SameRows(f) /\ f.stage = "after"
          /\ f.outcomes = Top.outcomes /\ f.group = Top.group
          /\ f.held = Top.held /\ f.results = run.statuses
  BY WriteFrame
<1> HIDE DEF run
<1>3. /\ stack # <<>> /\ IsStatement(Top) /\ Top.stage = "write" /\ checkpoints' = checkpoints
  BY AtStatement DEF Write
<1>4. Top.stage \in OpenStages /\ Top.stage \in GroupStages
  BY <1>3, StageNames
<1>5. /\ Top \in StatementFrames /\ IsOrderly(Top) /\ Len(stack) \in Nat \ {0}
      /\ WritesAreIn(Top, image, CopyAt(checkpoints, db, Len(stack) + 1),
                                 CopyAt(checkpoints, db, Len(stack) + 2))
      /\ checkpoints \in Seq(Databases) /\ db \in Databases /\ IdsGrow(checkpoints, db)
      /\ Len(checkpoints) = Len(stack) + 1
  BY <1>3, <1>4, TopIsTrue
<1>6. /\ Known(db) \subseteq Known(db')
      /\ DOMAIN run.images = {Top.inputs[i] : i \in WrittenRows(run)}
      /\ \A h \in DOMAIN run.images :
             /\ run.images[h].id \in Known(db')
             /\ image[h].id # Null => run.images[h].id = image[h].id
  BY <1>1 DEF IsWritten
<1>7. /\ IdsGrow(checkpoints', db')
      /\ \A k \in 1..Len(checkpoints) :
             Known(CopyAt(checkpoints, db, k)) \subseteq Known(CopyAt(checkpoints', db', k))
  BY <1>3, <1>5, <1>6, UnitsKeepKnown
<1>8. \A k \in 1..Len(stack) : k \in 1..Len(checkpoints)
  BY <1>5
<1>9. \A h \in Handles : image[h].id # Null => image'[h].id = image[h].id
  BY <1>1, <1>6
<1>10. f.inputs = Top.inputs /\ f.ready = Top.ready
  BY <1>2 DEF SameRows, SameStatement
<1>11. WritesAreIn(f, image', CopyAt(checkpoints', db', Len(stack) + 1),
                              CopyAt(checkpoints', db', Len(stack) + 2))
  <2>1. ASSUME NEW i \in Reported(f)
        PROVE  image'[f.inputs[i]].id \in Known(CopyAt(checkpoints', db', Len(stack) + 1))
    <3>1. i \in Reported(Top)
      BY <1>2, <1>3, <2>1 DEF Reported
    <3>2. Top.inputs[i] \in Handles /\ Top.inputs[i] \notin GroupOf(Top)
      BY <1>4, <1>5, <3>1, WrittenRowsAreGiven DEF Fixed
    <3>3. Top.inputs[i] \notin DOMAIN run.images
      BY <1>1, <1>6, <3>2 DEF WrittenRows, GroupOf
    <3>4. image'[Top.inputs[i]] = image[Top.inputs[i]]
      BY <1>1, <3>2, <3>3
    <3>5. Len(stack) + 1 \in 1..Len(checkpoints)
      BY <1>5
    <3> QED
      BY <1>5, <1>7, <1>10, <3>1, <3>4, <3>5 DEF WritesAreIn
  <2>2. ASSUME NEW i \in Wrote(f)
        PROVE  image'[f.inputs[i]].id \in Known(CopyAt(checkpoints', db', Len(stack) + 2))
    <3>1. i \in WrittenRows(run)
      BY <1>2, <2>2 DEF Wrote, WrittenRows
    <3>2. Top.inputs[i] \in DOMAIN run.images /\ Top.inputs[i] \in Handles
      <4>1. i \in Top.group
        BY <1>1, <3>1 DEF WrittenRows
      <4>2. GroupOf(Top) \subseteq Handles
        BY <1>4, <1>5, InGroup
      <4> QED
        BY <1>6, <3>1, <4>1, <4>2 DEF GroupOf
    <3>3. CopyAt(checkpoints', db', Len(stack) + 2) = db'
      BY <1>3, <1>5 DEF CopyAt
    <3> QED
      BY <1>1, <1>6, <1>10, <3>2, <3>3
  <2>3. Aimed(f) = {}
    BY <1>2 DEF Aimed
  <2> QED
    BY <2>1, <2>2, <2>3 DEF WritesAreIn
<1> QED
  BY <1>2, <1>3, <1>7, <1>8, <1>9, <1>11, SameRowsRemember, BecomeTruth

LEMMA TriggersAreTrue ==
    ASSUME DmlStructure, DmlTruth, EnterTriggers \/ NextTrigger
    PROVE  DmlTruth'
<1>1. UNCHANGED <<checkpoints, db, image>>
  BY DEF EnterTriggers, NextTrigger
<1>2. \A h \in Handles : image'[h].id = image[h].id
  BY <1>1
<1>3. CASE EnterTriggers
  <2>1. PICK f \in TriggerFrames : stack' = Push(f) /\ f.kind = "trigger" /\ At(f.phase)
    BY <1>3, EnteredFrame
  <2>2. DmlTypes /\ stack # <<>>
    BY <2>1, AtStatement
  <2>3. Retains(Len(stack)) /\ stack'[Len(stack) + 1] = f
    BY <2>1, <2>2, TriggerIsCode, Reshaping
  <2> QED
    BY <1>1, <1>2, <2>1, <2>3, QuietStep
<1>4. CASE NextTrigger
  <2> DEFINE f == [Top EXCEPT !.left = Top.left - 1]
             n == Len(stack) - 1
  <2>1. InTrigger /\ Top.left > 0 /\ stack' = Become(f)
    BY <1>4 DEF NextTrigger
  <2>2. Top \in TriggerFrames /\ stack # <<>> /\ DmlTypes
    BY <2>1, TriggerOnTop DEF InTrigger, DmlStructure
  <2>3. f \in TriggerFrames /\ f.kind = "trigger"
    BY <2>1, <2>2 DEF TriggerFrames
  <2> HIDE DEF f
  <2>4. Len(stack) \in Nat \ {0} /\ n + 1 = Len(stack)
    BY <2>2, TopFrame
  <2>5. Retains(n) /\ stack'[n + 1] = f
    BY <2>1, <2>2, <2>3, <2>4, TriggerIsCode, Reshaping
  <2> HIDE DEF n
  <2> QED
    BY <1>1, <1>2, <2>3, <2>5, QuietStep
<1> QED
  BY <1>3, <1>4

LEMMA LeftIsTrue ==
    ASSUME DmlStructure, DmlTruth, ReturnFromTrigger \/ ThrowInTrigger
    PROVE  DmlTruth'
<1>1. PICK f \in StatementFrames :
          /\ stack' = Append(Front(Below), f) /\ IsOrderly(f) /\ f.stage \in OpenStages
          /\ f.inputs = Last(Below).inputs /\ f.originals = Last(Below).originals
          /\ f.outcomes = Last(Below).outcomes /\ f.ready = Last(Below).ready
          /\ f.held = Last(Below).held /\ f.results = Last(Below).results
          /\ f.group = Last(Below).group
          /\ f.stage \in {"after", "settle"} => Last(Below).stage \in {"after", "settle"}
          /\ f.stage \in {"before", "write"} => Last(Below).stage = "before"
  BY LeftFrame
<1>2. InTrigger /\ UNCHANGED <<db, checkpoints, image>>
  BY LeftFrame
<1>3. /\ Below # <<>> /\ Below \in Seq(Frames) /\ Last(Below) = Below[Len(Below)]
      /\ Last(Below) \in StatementFrames
      /\ Last(Below).stage \in OpenStages /\ Last(Below).kind = "statement"
  BY <1>2, TriggerOnTop
<1>4. stack # <<>> /\ DmlTypes
  BY <1>2 DEF InTrigger, DmlStructure
<1>5. /\ Len(stack) \in Nat \ {0} /\ Len(Below) = Len(stack) - 1 /\ Len(Below) \in Nat \ {0}
      /\ \A m \in 1..(Len(stack) - 1) : Below[m] = stack[m]
  BY <1>3, <1>4, TopFrame, FrontProperties
<1> DEFINE g == Last(Below)
           n == Len(stack) - 2
<1>6. n + 1 = Len(stack) - 1 /\ n + 1 \in 1..Len(stack) /\ n \in Nat /\ g = stack[n + 1]
  BY <1>3, <1>5
<1>7. f \in Frames
  BY DEF Frames
<1>8. Retains(n) /\ stack'[n + 1] = f
  BY <1>1, <1>3, <1>4, <1>6, <1>7, Reshaping
<1> HIDE DEF n
<1>9. g.stage # "failing" /\ f.stage # "failing"
  BY <1>1, <1>3 DEF OpenStages
<1>10. Reported(f) = Reported(g) /\ Wrote(f) \subseteq Wrote(g) /\ Aimed(f) \subseteq Aimed(g)
  BY <1>1, <1>9 DEF Reported, Wrote, Aimed
<1>11. WritesAreIn(g, image, CopyAt(checkpoints, db, (n + 1) + 1),
                             CopyAt(checkpoints, db, (n + 1) + 2))
  BY <1>3, <1>6 DEF DmlTruth, WrittenRowsAreKnown
<1>12. ASSUME NEW m \in 1..n, stack[m].kind = "statement"
       PROVE  RemembersWrites(f, stack[m], image)
  <2>1. m \in 1..Len(stack) /\ n + 1 \in (m + 1)..Len(stack)
    BY <1>6
  <2>2. RemembersWrites(g, stack[m], image)
    BY <1>3, <1>6, <1>12, <2>1 DEF DmlTruth, WrittenRowsAreRemembered
  <2> QED
    BY <1>1, <2>2 DEF RemembersWrites, Remembers
<1>13. WritesAreIn(f, image, CopyAt(checkpoints, db, (n + 1) + 1),
                             CopyAt(checkpoints, db, (n + 1) + 2))
  BY <1>1, <1>10, <1>11 DEF WritesAreIn
<1>14. \A h \in Handles : image'[h].id = image[h].id
  BY <1>2
<1> QED
  BY <1>1, <1>2, <1>8, <1>12, <1>13, <1>14, QuietStep

\* A commit or rollback of the statement on top, with the images it puts back.
LEMMA UnitEnds ==
    ASSUME DmlStructure, DmlTruth, stack # <<>>, IsStatement(Top), CommitUnit \/ RollbackUnit
    PROVE  /\ IdsGrow(checkpoints', db')
           /\ \A k \in 1..Len(checkpoints) :
                  Known(CopyAt(checkpoints, db, k)) \subseteq Known(CopyAt(checkpoints', db', k))
           /\ \A k \in 1..Len(stack) : k \in 1..Len(checkpoints)
           /\ CopyAt(checkpoints', db', Len(checkpoints)) = db'
<1>1. /\ checkpoints \in Seq(Databases) /\ db \in Databases /\ checkpoints # <<>>
      /\ IdsGrow(checkpoints, db) /\ Len(stack) \in Nat \ {0}
      /\ Len(checkpoints) = Len(stack) + (IF Top.stage \in OpenStages THEN 1 ELSE 0)
  BY TopIsTrue
<1>2. \/ checkpoints' = Front(checkpoints) /\ db' = db
      \/ checkpoints' = Front(checkpoints) /\ db' = checkpoints[Len(checkpoints)]
  BY DEF CommitUnit, RollbackUnit, Last
<1>3. /\ IdsGrow(checkpoints', db')
      /\ \A k \in 1..Len(checkpoints) :
             Known(CopyAt(checkpoints, db, k)) \subseteq Known(CopyAt(checkpoints', db', k))
  BY <1>1, <1>2, UnitsKeepKnown
<1>4. Len(checkpoints') = Len(checkpoints) - 1 /\ Len(checkpoints) \in Nat
  BY <1>1, <1>2, FrontProperties
<1>5. CopyAt(checkpoints', db', Len(checkpoints)) = db'
  BY <1>4 DEF CopyAt
<1>6. \A k \in 1..Len(stack) : k \in 1..Len(checkpoints)
  BY <1>1
<1> QED
  BY <1>3, <1>5, <1>6

LEMMA EndIsTrue == ASSUME DmlStructure, DmlTruth, Ends PROVE DmlTruth'
<1>1. PICK f \in StatementFrames : EndsAs(f) /\ (IsKept(f) \/ IsUndone(f))
  BY SettledFrame, UndoneFrame DEF Ends
<1>2. /\ stack # <<>> /\ IsStatement(Top) /\ Top.stage \in OpenStages
  <2>1. At("settle") \/ At("failed")
    BY DEF Ends, SettleAtomic, SettlePartial, RetrySurvivors, FailAttempt
  <2> QED
    BY <2>1, AtStatement, NextStages
<1>3. /\ Top \in StatementFrames /\ IsOrderly(Top) /\ Len(stack) \in Nat \ {0}
      /\ WritesAreIn(Top, image, CopyAt(checkpoints, db, Len(stack) + 1),
                                 CopyAt(checkpoints, db, Len(stack) + 2))
      /\ checkpoints \in Seq(Databases) /\ db \in Databases
      /\ Len(checkpoints) = Len(stack) + 1
  BY <1>2, TopIsTrue
<1>4. Top.stage \in GroupStages /\ DOMAIN Top.held = GroupOf(Top) /\ Top.stage # "failing"
  BY <1>2, <1>3, StageNames, InGroup DEF OpenStages
<1>5. /\ stack' = Become(f) /\ SameRows(f) /\ DOMAIN f.held = {}
      /\ f.inputs = Top.inputs /\ f.stage \in {"choose", "failing", "attempt"}
      /\ CommitUnit \/ RollbackUnit
  BY <1>1 DEF EndsAs, SameRows, SameStatement, IsKept, IsUndone
<1>6. /\ IdsGrow(checkpoints', db')
      /\ \A k \in 1..Len(checkpoints) :
             Known(CopyAt(checkpoints, db, k)) \subseteq Known(CopyAt(checkpoints', db', k))
      /\ \A k \in 1..Len(stack) : k \in 1..Len(checkpoints)
      /\ CopyAt(checkpoints', db', Len(checkpoints)) = db'
  BY <1>2, <1>5, UnitEnds
<1>7. \A h \in Handles :
          image'[h] = image[h] \/ (h \in GroupOf(Top) /\ IsUndone(f) /\ image'[h] = Top.held[h])
  <2>1. CASE IsKept(f)
    BY <2>1 DEF IsKept
  <2>2. CASE IsUndone(f)
    BY <1>2, <1>4, <2>2, ImagesAreRestored DEF IsUndone
  <2> QED
    BY <1>1, <2>1, <2>2
<1>8. \A h \in Handles : Remembers(Top, h, image[h].id) => image'[h].id = image[h].id
  BY <1>4, <1>7 DEF Remembers
<1>9. WritesAreIn(f, image', CopyAt(checkpoints', db', Len(stack) + 1),
                             CopyAt(checkpoints', db', Len(stack) + 2))
  <2>1. Wrote(f) = {} /\ Aimed(f) = {}
    BY <1>5 DEF Wrote, Aimed
  <2>2. ASSUME NEW i \in Reported(f)
        PROVE  image'[f.inputs[i]].id \in Known(CopyAt(checkpoints', db', Len(stack) + 1))
    <3>1. f.stage # "failing" /\ i \in DOMAIN f.outcomes /\ f.outcomes[i] = "OK"
      BY <2>2 DEF Reported
    <3>2. CASE i \in Top.group
      <4>1. IsKept(f)
        BY <1>1, <3>1, <3>2 DEF IsUndone
      <4>2. /\ Top.stage = "settle" /\ Top.results[i] = "OK" /\ CommitUnit /\ image' = image
        BY <1>5, <3>1, <3>2, <4>1 DEF IsKept
      <4>3. DOMAIN Top.results = Top.group
        BY <1>3, <1>4, <4>2, InGroup
      <4>4. i \in Wrote(Top)
        BY <3>2, <4>2, <4>3 DEF Wrote
      <4>5. CopyAt(checkpoints, db, Len(stack) + 2) = db
        BY <1>3 DEF CopyAt
      <4>6. db' = db /\ CopyAt(checkpoints', db', Len(stack) + 1) = db'
        BY <1>3, <1>6, <4>2 DEF CommitUnit
      <4> QED
        BY <1>3, <1>5, <4>2, <4>4, <4>5, <4>6 DEF WritesAreIn
    <3>3. CASE i \notin Top.group
      <4>1. IsOrderly(f)
        BY <1>1 DEF EndsAs
      <4>2. i \in DOMAIN Top.inputs
        BY <1>5, <3>1, <4>1 DEF IsOrderly
      <4>3. i \in DOMAIN Top.outcomes /\ Top.outcomes[i] = "OK"
        BY <1>1, <3>1, <3>3, <4>2 DEF EndsAs
      <4>4. i \in Reported(Top)
        BY <1>4, <4>3 DEF Reported
      <4>5. Top.inputs[i] \in Handles /\ Top.inputs[i] \notin GroupOf(Top)
        BY <1>3, <1>4, <4>4, WrittenRowsAreGiven DEF Fixed
      <4>6. image'[Top.inputs[i]] = image[Top.inputs[i]]
        BY <1>7, <4>5
      <4>7. Len(stack) + 1 \in 1..Len(checkpoints)
        BY <1>3
      <4> QED
        BY <1>3, <1>5, <1>6, <4>4, <4>6, <4>7 DEF WritesAreIn
    <3> QED
      BY <3>2, <3>3
  <2> QED
    BY <2>1, <2>2 DEF WritesAreIn
<1> QED
  BY <1>2, <1>5, <1>6, <1>8, <1>9, SameRowsRemember, BecomeTruth

LEMMA LeavesIsTrue == ASSUME DmlStructure, DmlTruth, Leaves PROVE DmlTruth'
<1>1. /\ stack # <<>> /\ IsStatement(Top) /\ stack' = Below /\ (CommitUnit \/ RollbackUnit)
      /\ image' = image \/ image' = RestoredOriginals
  BY LeavesFrame
<1>2. /\ IdsGrow(checkpoints', db')
      /\ \A k \in 1..Len(stack) :
             Known(CopyAt(checkpoints, db, k)) \subseteq Known(CopyAt(checkpoints', db', k))
  BY <1>1, UnitEnds
<1>3. \A h \in Handles : Remembers(Top, h, image[h].id) => image'[h].id = image[h].id
  BY <1>1, ImagesAreRestored DEF Remembers
<1> QED
  BY <1>1, <1>2, <1>3, BecomeTruth

LEMMA TruthIsKept == DmlStructure /\ DmlTruth /\ [Next]_vars => DmlTruth'
<1> SUFFICES ASSUME DmlStructure, DmlTruth, [Next]_vars PROVE DmlTruth'
  OBVIOUS
<1>1. CASE SetField \/ RunQuery \/ IssueDml \/ FinishEntry
  BY <1>1, CodeIsTrue
<1>2. CASE Preflight \/ ChooseGroup \/ BeginAttempt
  BY <1>2, PreflightIsTrue, ChooseGroupIsTrue, BeginAttemptIsTrue
<1>3. CASE SkipTriggers \/ HostFails
  BY <1>3, MovedIsTrue
<1>4. CASE Write
  BY <1>4, WriteIsTrue
<1>5. CASE EnterTriggers \/ NextTrigger
  BY <1>5, TriggersAreTrue
<1>6. CASE ReturnFromTrigger \/ ThrowInTrigger
  BY <1>6, LeftIsTrue
<1>7. CASE SettleAtomic \/ SettlePartial \/ RetrySurvivors \/ FailAttempt
  BY <1>7, EndIsTrue DEF Ends
<1>8. CASE CompleteStatement \/ FailStatement
  BY <1>8, LeavesIsTrue DEF Leaves
<1>9. CASE UNCHANGED vars
  BY <1>9 DEF vars, DmlTruth, WrittenRowsAreKnown, WrittenRowsAreRemembered
<1> QED
  BY <1>1, <1>2, <1>3, <1>4, <1>5, <1>6, <1>7, <1>8, <1>9 DEF Next, Terminated

\* Rows reported as written have Ids that the database a statement would leave
\* knows, and that whatever is undone above it puts back as they are.
THEOREM WrittenRowsStayKnown == Spec => []DmlTruth
<1>1. Init => DmlTruth
  BY TruthStarts
<1>2. DmlStructure /\ DmlTruth /\ [Next]_vars => DmlTruth'
  BY TruthIsKept
<1> QED
  BY <1>1, <1>2, DmlEngineIsStructured, PTL DEF Spec

\* A statement that returns has an outcome for every row, and those it reports
\* as written are in the database, under the Ids its SObjects have.
THEOREM OutcomesAreAlwaysTrue == Spec => OutcomesAreTrue
<1> DEFINE AreTrue ==
        Popped("statement") /\ Top.stage # "failing" =>
           /\ DOMAIN Top.outcomes = DOMAIN Top.inputs
           /\ \A i \in DOMAIN Top.outcomes : Top.outcomes[i] = "OK" =>
                  image'[Top.inputs[i]].id \in DOMAIN db'.live \cup DOMAIN db'.bin
<1>1. DmlStructure /\ DmlTruth /\ [Next]_vars => [AreTrue]_vars
  <2> SUFFICES ASSUME DmlStructure, DmlTruth, [Next]_vars, Popped("statement"),
                      Top.stage # "failing"
               PROVE  /\ DOMAIN Top.outcomes = DOMAIN Top.inputs
                      /\ \A i \in DOMAIN Top.outcomes : Top.outcomes[i] = "OK" =>
                             image'[Top.inputs[i]].id \in Known(db')
    BY DEF Known
  <2>1. Leaves
    BY WhatPops
  <2>2. /\ stack # <<>> /\ IsStatement(Top) /\ Top.stage = "choose" /\ image' = image
        /\ CompleteStatement /\ db' = db
    BY <2>1, LeavesFrame DEF CommitUnit
  <2>3. /\ IsOrderly(Top) /\ Len(stack) \in Nat \ {0}
        /\ WritesAreIn(Top, image, CopyAt(checkpoints, db, Len(stack) + 1),
                                   CopyAt(checkpoints, db, Len(stack) + 2))
        /\ Len(checkpoints) = Len(stack) + (IF Top.stage \in OpenStages THEN 1 ELSE 0)
    BY <2>2, TopIsTrue
  <2>4. Top.stage \notin OpenStages /\ Top.stage \notin GroupStages
    BY <2>2, StageNames DEF OpenStages
  <2>5. DOMAIN Top.outcomes = DOMAIN Top.inputs
    <3>1. Elements(Awaited(Top)) = {} /\ Top.group = {}
      BY <2>2, <2>3, <2>4 DEF CompleteStatement, Awaited, Elements, IsOrderly
    <3> QED
      BY <2>2, <2>3, <3>1 DEF IsOrderly
  <2>6. CopyAt(checkpoints, db, Len(stack) + 1) = db
    BY <2>3, <2>4 DEF CopyAt
  <2>7. \A i \in DOMAIN Top.outcomes : Top.outcomes[i] = "OK" => i \in Reported(Top)
    BY DEF Reported
  <2> QED
    BY <2>2, <2>3, <2>5, <2>6, <2>7 DEF WritesAreIn
<1> QED
  BY <1>1, WrittenRowsStayKnown, DmlEngineIsStructured, PTL DEF Spec, OutcomesAreTrue

-----------------------------------------------------------------------------
(* What upserts are about                                                  *)

\* The rows of an external-Id upsert are inserted or updated, under the Id of the
\* record they were about when the statement began if there was one.
IsAimed(f) ==
    f.op = "upsert" /\ ExternalId # Null => \A i \in DOMAIN f.ready :
        /\ f.ready[i].op \in {"insert", "update"}
        /\ AimsOf(f, i) = IF f.ready[i].new.id = Null THEN {} ELSE {f.ready[i].new.id}
        /\ f.ready[i].op = "update" => f.ready[i].new.id # Null

\* Nothing has changed since the statement was issued.
IsFresh(f, now, img) ==
    f.stage = "preflight" =>
        f.start.db = now /\ \A h \in DOMAIN f.originals : f.originals[h] = img[h]

DmlAims ==
    /\ \A m \in 1..Len(stack) : stack[m].kind = "statement" => IsAimed(stack[m])
    /\ stack # <<>> /\ IsStatement(Top) => IsFresh(Top, db, image)

\* What a frame is aimed at depends on the request and on its rows.
LEMMA SameAims ==
    ASSUME NEW f, NEW g, IsAimed(f), g.op = f.op, g.inputs = f.inputs, g.ready = f.ready,
           g.originals = f.originals, g.start.db = f.start.db
    PROVE  IsAimed(g)
<1>1. \A i : AimsOf(g, i) = AimsOf(f, i)
  BY DEF AimsOf
<1> QED
  BY <1>1 DEF IsAimed

\* At most one frame is new; those below are unchanged, and one uncovered runs a
\* trigger.
LEMMA AimsStep ==
    ASSUME DmlStructure, DmlTypes', DmlAims, NEW n, Retains(n),
           n = Len(stack) /\ Len(stack') = n => ~IsStatement(Top) \/ UNCHANGED <<db, image>>,
           Len(stack') = n + 1 /\ stack'[n + 1].kind = "statement" =>
               IsAimed(stack'[n + 1]) /\ IsFresh(stack'[n + 1], db', image')
    PROVE  DmlAims'
<1>1. /\ n \in Nat /\ Len(stack) \in Nat /\ n <= Len(stack) /\ Len(stack') \in {n, n + 1}
      /\ \A m \in 1..n : stack'[m] = stack[m]
  BY LenProperties DEF Retains, DmlStructure, DmlTypes
<1>2. \A m \in 1..Len(stack') : m \in 1..n \/ (m = n + 1 /\ Len(stack') = n + 1)
  BY <1>1
<1>3. \A m \in 1..Len(stack') : stack'[m].kind = "statement" => IsAimed(stack'[m])
  BY <1>1, <1>2 DEF DmlAims
<1>4. ASSUME stack'[Len(stack')].kind = "statement", Len(stack') # 0
      PROVE  IsFresh(stack'[Len(stack')], db', image')
  <2>1. CASE Len(stack') = n + 1
    BY <1>4, <2>1
  <2>2. CASE Len(stack') = n /\ n < Len(stack)
    <3>1. n \in 1..Len(stack) /\ stack'[n] = stack[n] /\ stack[n].kind = "statement"
      BY <1>1, <1>4, <2>2
    <3>2. stack[n].stage \in {"before", "after"}
      BY <2>2, <3>1, FrameBelow
    <3> QED
      BY <2>2, <3>1, <3>2 DEF IsFresh
  <2>3. CASE Len(stack') = n /\ n = Len(stack)
    <3>1. stack'[n] = stack[n] /\ IsStatement(Top) /\ stack'[n] = Top /\ stack # <<>>
      BY <1>1, <1>4, <2>3, EmptySeq DEF IsStatement, Top
    <3>2. UNCHANGED <<db, image>> /\ IsFresh(Top, db, image)
      BY <2>3, <3>1 DEF DmlAims
    <3> QED
      BY <2>3, <3>1, <3>2
  <2> QED
    BY <1>1, <2>1, <2>2, <2>3
<1>5. Len(stack') = 0 => stack' = <<>>
  BY EmptySeq DEF DmlTypes
<1> QED
  BY <1>3, <1>4, <1>5 DEF DmlAims, IsStatement, Top

\* The preparation of a row aims it at the record it is about.
LEMMA PreparedAims ==
    ASSUME DmlStructure, At("preflight"), IsFresh(Top, db, image),
           Top.op = "upsert", ExternalId # Null,
           NEW i \in Given(Top), Prepared(i).status = "OK"
    PROVE  /\ Prepared(i).op \in {"insert", "update"}
           /\ AimsOf(Top, i) = IF Prepared(i).new.id = Null THEN {} ELSE {Prepared(i).new.id}
           /\ Prepared(i).op = "update" => Prepared(i).new.id # Null
<1> DEFINE h == Top.inputs[i]
           row == RowOf(h)
           matches == Matches(db, ExternalId, row)
<1>1. /\ Top \in StatementFrames /\ IsOrderly(Top) /\ DmlTypes /\ Top.stage = "preflight"
  BY AtStatement
<1>2. Top.start.db = db /\ h \in Handles /\ Top.originals[h] = image[h]
  BY <1>1, PreflightRows DEF IsFresh, IsOrderly
<1>3. AimsOf(Top, i) = IF row.id # Null THEN {row.id} ELSE matches
  BY <1>2 DEF AimsOf, RowOf
<1>4. /\ Prepared(i) = PrepareUpsertByKey(db, ExternalId, row)
      /\ db \in Databases /\ IsRow(row)
  BY <1>1, <1>2, RowOfHandle DEF Prepared, PrepareRow, DmlTypes
<1> HIDE DEF row
<1>5. ~(ExternalId \notin DOMAIN row.fields \/ row.fields[ExternalId] = Null)
  BY <1>4 DEF PrepareUpsertByKey, Denied
<1>6. CASE matches = {}
  <2>1. Prepared(i) = PrepareInsert(row)
    BY <1>4, <1>5, <1>6 DEF PrepareUpsertByKey
  <2> QED
    BY <1>3, <1>6, <2>1 DEF PrepareInsert, Ready
<1>7. CASE matches # {}
  <2> DEFINE id == CHOOSE m \in matches : TRUE
  <2>1. OneMatch(matches)
    BY <1>4, <1>5, <1>7 DEF PrepareUpsertByKey, Denied
  <2>2. Prepared(i) = PrepareUpdate(db, id, row)
    BY <1>4, <1>5, <1>7, <2>1 DEF PrepareUpsertByKey
  <2>3. matches = {id} /\ id \in DOMAIN db.live
    BY <1>7, <2>1 DEF OneMatch, Matches
  <2>4. id \in Ids /\ id # Null
    BY <1>4, <2>3, InTable, DatabaseParts, RecordsAssumption DEF Ids
  <2> HIDE DEF id
  <2> QED
    BY <1>3, <2>2, <2>3, <2>4 DEF PrepareUpdate, Ready
<1> QED
  BY <1>6, <1>7

LEMMA AimsStart == Init => DmlAims
<1> SUFFICES ASSUME Init PROVE DmlAims
  OBVIOUS
<1>1. stack = <<[kind |-> "entry"]>>
  BY DEF Init
<1>2. Len(stack) = 1 /\ stack[1].kind = "entry"
  BY <1>1
<1> QED
  BY <1>2 DEF DmlAims, IsStatement, Top

LEMMA AimsAreKept == DmlStructure /\ DmlAims /\ [Next]_vars => DmlAims'
<1> SUFFICES ASSUME DmlStructure, DmlAims, [Next]_vars PROVE DmlAims'
  OBVIOUS
<1>1. DmlTypes /\ DmlTypes'
  BY StructureIsKept DEF DmlStructure
<1>2. stack # <<>> => Len(stack) \in Nat \ {0} /\ Top = stack[Len(stack)]
  BY <1>1, TopFrame
<1>3. IsStatement(Top) /\ stack # <<>> => IsAimed(Top) /\ IsFresh(Top, db, image)
  BY <1>2 DEF DmlAims, IsStatement
<1>4. ASSUME stack # <<>>, NEW f \in Frames, stack' = Become(f),
             f.kind = "statement" => IsAimed(f) /\ f.stage # "preflight"
      PROVE  DmlAims'
  <2>1. Retains(Len(stack) - 1) /\ Len(stack') = Len(stack) /\ stack'[Len(stack)] = f
    BY <1>1, <1>4, Reshaping
  <2>2. (Len(stack) - 1) + 1 = Len(stack) /\ Len(stack) - 1 # Len(stack)
    BY <1>2, <1>4
  <2> QED
    BY <1>1, <1>4, <2>1, <2>2, AimsStep DEF IsFresh
<1>5. ASSUME stack # <<>>, NEW f \in Frames, stack' = Push(f),
             f.kind = "statement" => IsAimed(f) /\ IsFresh(f, db', image')
      PROVE  DmlAims'
  <2>1. Retains(Len(stack)) /\ Len(stack') = Len(stack) + 1 /\ stack'[Len(stack) + 1] = f
    BY <1>1, <1>5, Reshaping
  <2> QED
    BY <1>1, <1>2, <1>5, <2>1, AimsStep
<1>6. ASSUME NEW f \in StatementFrames, SameRows(f), f.stage # "preflight",
             stack # <<>>, IsStatement(Top), stack' = Become(f)
      PROVE  DmlAims'
  <2>1. IsAimed(f) /\ f \in Frames
    BY <1>3, <1>6, SameAims DEF SameRows, SameStatement, Frames
  <2> QED
    BY <1>4, <1>6, <2>1
<1>7. CASE SetField \/ RunQuery
  <2>1. stack' = stack /\ CodeRuns
    BY <1>7 DEF SetField, RunQuery, Spend
  <2>2. stack # <<>> /\ ~IsStatement(Top)
    BY <2>1 DEF CodeRuns, IsStatement
  <2>3. Retains(Len(stack)) /\ Len(stack') # Len(stack) + 1
    BY <1>1, <1>2, <2>1, <2>2, Reshaping
  <2> QED
    BY <1>1, <2>2, <2>3, AimsStep
<1>8. CASE IssueDml
  <2>1. PICK f \in StatementFrames :
            /\ stack' = Push(f) /\ f.start.db = db /\ DOMAIN f.ready = {}
            /\ \A h \in DOMAIN f.originals : f.originals[h] = image[h]
    BY <1>8, IssueFrame
  <2>2. UNCHANGED <<db, image>> /\ stack # <<>>
    BY <1>8 DEF IssueDml, Spend, CodeRuns
  <2>3. IsAimed(f) /\ IsFresh(f, db', image') /\ f \in Frames
    BY <2>1, <2>2 DEF IsAimed, IsFresh, Frames
  <2> QED
    BY <1>5, <2>1, <2>2, <2>3
<1>9. CASE FinishEntry
  <2>1. stack # <<>> /\ stack' = <<>> /\ Retains(0) /\ Len(stack') = 0
    BY <1>1, <1>9, Reshaping DEF FinishEntry, CodeRuns
  <2> QED
    BY <1>1, <1>2, <2>1, AimsStep
<1>10. CASE Preflight
  <2>1. PICK f \in StatementFrames :
          /\ stack' = Become(f) /\ f.start = Top.start /\ f.inputs = Top.inputs
          /\ f.originals = Top.originals /\ f.op = Top.op /\ f.stage \in {"failing", "choose"}
          /\ \/ DOMAIN f.ready = {}
             \/ /\ DOMAIN f.ready = {i \in Given(Top) : Prepared(i).status = "OK"}
                /\ \A i \in DOMAIN f.ready : f.ready[i] = Prepared(i)
    BY <1>10, PreflightFrame
  <2>2. stack # <<>> /\ IsStatement(Top) /\ At("preflight")
    BY <1>10, AtStatement DEF Preflight
  <2>3. \A i : AimsOf(f, i) = AimsOf(Top, i)
    BY <2>1 DEF AimsOf
  <2>4. ASSUME f.op = "upsert", ExternalId # Null, NEW i \in DOMAIN f.ready
        PROVE  /\ f.ready[i].op \in {"insert", "update"}
               /\ AimsOf(f, i) = IF f.ready[i].new.id = Null THEN {} ELSE {f.ready[i].new.id}
               /\ f.ready[i].op = "update" => f.ready[i].new.id # Null
    <3>1. i \in Given(Top) /\ Prepared(i).status = "OK" /\ f.ready[i] = Prepared(i)
      BY <2>1, <2>4
    <3> QED
      BY <1>3, <2>1, <2>2, <2>3, <2>4, <3>1, PreparedAims
  <2>5. IsAimed(f) /\ f.stage # "preflight" /\ f \in Frames
    BY <2>1, <2>4 DEF IsAimed, Frames
  <2> QED
    BY <1>4, <2>1, <2>2, <2>5
<1>11. CASE ChooseGroup
  BY <1>6, <1>11, ChooseGroupFrame, AtStatement DEF ChooseGroup
<1>12. CASE BeginAttempt
  BY <1>6, <1>12, BeginAttemptFrame, AtStatement DEF BeginAttempt
<1>13. CASE SkipTriggers \/ HostFails
  <2>1. "preflight" \notin OpenStages
    BY DEF OpenStages
  <2> QED
    BY <1>6, <1>13, <2>1, MovedFrame
<1>14. CASE Write
  BY <1>6, <1>14, WriteFrame, AtStatement DEF Write
<1>15. CASE EnterTriggers
  <2>1. PICK f \in TriggerFrames : stack' = Push(f) /\ f.kind = "trigger" /\ At(f.phase)
    BY <1>15, EnteredFrame
  <2>2. f \in Frames /\ stack # <<>>
    BY <2>1 DEF Frames, At
  <2> QED
    BY <1>5, <2>1, <2>2
<1>16. CASE NextTrigger
  <2> DEFINE f == [Top EXCEPT !.left = Top.left - 1]
  <2>1. InTrigger /\ Top.left > 0 /\ stack' = Become(f) /\ Top \in TriggerFrames
    BY <1>16, TriggerOnTop DEF NextTrigger
  <2>2. f \in TriggerFrames /\ f.kind = "trigger"
    BY <2>1 DEF TriggerFrames
  <2> HIDE DEF f
  <2>3. f \in Frames /\ stack # <<>>
    BY <2>1, <2>2 DEF Frames, InTrigger
  <2> QED
    BY <1>4, <2>1, <2>2, <2>3
<1>17. CASE ReturnFromTrigger \/ ThrowInTrigger
  <2> DEFINE g == Last(Below)
  <2>1. PICK f \in StatementFrames :
            /\ stack' = Append(Front(Below), f) /\ f.stage \in OpenStages
            /\ f.op = g.op /\ f.inputs = g.inputs /\ f.originals = g.originals
            /\ f.ready = g.ready /\ f.start = g.start
    BY <1>17, LeftFrame
  <2>2. /\ InTrigger /\ stack # <<>> /\ Below # <<>> /\ Below \in Seq(Frames)
        /\ g = Below[Len(Below)] /\ g.kind = "statement"
    <3>1. InTrigger
      BY <1>17, LeftFrame
    <3> QED
      BY <3>1, TriggerOnTop DEF InTrigger
  <2>3. Retains(Len(stack) - 2) /\ Len(stack') = Len(stack) - 1 /\ stack'[Len(stack) - 1] = f
    BY <1>1, <2>1, <2>2, Reshaping DEF Frames
  <2>4. IsAimed(g)
    <3>1. /\ Len(Below) = Len(stack) - 1 /\ Len(stack) - 1 \in 1..Len(stack)
          /\ Below[Len(stack) - 1] = stack[Len(stack) - 1]
      BY <1>1, <2>2, TopFrame, EmptySeq, LenProperties
    <3> QED
      BY <2>2, <3>1 DEF DmlAims
  <2>5. IsAimed(f) /\ f.stage # "preflight"
    BY <2>1, <2>4, SameAims DEF OpenStages
  <2>6. (Len(stack) - 2) + 1 = Len(stack) - 1 /\ Len(stack) - 2 # Len(stack)
    BY <1>2, <2>2
  <2> QED
    BY <1>1, <2>3, <2>5, <2>6, AimsStep DEF IsFresh
<1>18. CASE Ends
  <2>1. PICK f \in StatementFrames : EndsAs(f)
    BY <1>18, SettledFrame, UndoneFrame DEF Ends
  <2>2. SameRows(f) /\ f.stage # "preflight" /\ stack' = Become(f)
    BY <2>1 DEF EndsAs
  <2>3. At("settle") \/ At("failed")
    BY <1>18 DEF Ends, SettleAtomic, SettlePartial, RetrySurvivors, FailAttempt
  <2> QED
    BY <1>6, <2>2, <2>3, AtStatement
<1>19. CASE Leaves
  <2>1. stack # <<>> /\ stack' = Below
    BY <1>19, LeavesFrame
  <2>2. Retains(Len(stack) - 1) /\ Len(stack') = Len(stack) - 1
    BY <1>1, <2>1, Reshaping
  <2>3. Len(stack) - 1 # Len(stack) /\ Len(stack') # (Len(stack) - 1) + 1
    BY <1>2, <2>1, <2>2
  <2> QED
    BY <1>1, <2>2, <2>3, AimsStep
<1>20. CASE UNCHANGED vars
  BY <1>20 DEF vars, DmlAims, IsStatement, Top
<1> QED
  BY <1>7, <1>8, <1>9, <1>10, <1>11, <1>12, <1>13, <1>14, <1>15, <1>16, <1>17, <1>18, <1>19, <1>20
     DEF Next, Terminated, Ends, Leaves

\* The rows of every external-Id upsert keep aiming at the records they were about
\* when it was issued.
THEOREM UpsertsStayAimed == Spec => []DmlAims
<1>1. Init => DmlAims
  BY AimsStart
<1>2. DmlStructure /\ DmlAims /\ [Next]_vars => DmlAims'
  BY AimsAreKept
<1> QED
  BY <1>1, <1>2, DmlEngineIsStructured, PTL DEF Spec

-----------------------------------------------------------------------------
(* What inserts and updates do to the Ids there are                        *)

\* A record is written or the database is left as refused.
LEMMA WritesOne ==
    ASSUME NEW e \in Databases, NEW refused \in Databases, refused.live = e.live,
           NEW id \in Ids, NEW r \in StoredRecords
    PROVE  LET result == ValidateAndWrite(e, refused, id, r)
           IN  IF result.status = "OK"
               THEN result.id = id /\ DOMAIN result.db.live = DOMAIN e.live \cup {id}
               ELSE DOMAIN result.db.live = DOMAIN e.live
<1>1. CASE MissingRequired(r)
  BY <1>1 DEF ValidateAndWrite, Failure
<1>2. CASE ~MissingRequired(r) /\ Duplicate(e, id, r)
  BY <1>2 DEF ValidateAndWrite, Failure
<1>3. CASE ~MissingRequired(r) /\ ~Duplicate(e, id, r)
  <2> DEFINE live == Put(e.live, id, r)
             f == [e EXCEPT !.live = live]
  <2>1. ValidateAndWrite(e, refused, id, r) = Success(f, id)
    BY <1>3 DEF ValidateAndWrite
  <2>2. live \in Tables /\ DOMAIN live = DOMAIN e.live \cup {id}
    BY PutInTable, DatabaseParts
  <2> HIDE DEF live
  <2>3. f.live = live
    BY <2>2, DatabaseParts, ZenonT(60)
  <2> HIDE DEF f
  <2> QED
    BY <2>1, <2>2, <2>3 DEF Success
<1> QED
  BY <1>1, <1>2, <1>3

\* An update writes the record its row names; an insert a record that was not there.
LEMMA RowAims ==
    ASSUME NEW d \in Databases, NEW row, IsRow(row), NEW op \in {"insert", "update"},
           DrawsId(op, row) => CanDraw(d, object)
    PROVE  LET result == RowResult(d, op, row)
           IN  /\ DOMAIN d.live \subseteq DOMAIN result.db.live
               /\ op = "update" => DOMAIN result.db.live = DOMAIN d.live
               /\ result.status = "OK" =>
                      IF op = "update" THEN row.id \in DOMAIN d.live /\ result.id = row.id
                      ELSE row.id = Null /\ result.id \notin DOMAIN d.live
<1> USE DEF IsRow
<1>1. \A status : status # "OK" =>
         Failure(d, status).db = d /\ Failure(d, status).status # "OK"
  BY DEF Failure
<1>2. CASE op = "insert" /\ row.id # Null
  BY <1>1, <1>2 DEF RowResult, InsertRow
<1>3. CASE op = "insert" /\ row.id = Null
  <2> DEFINE n == NextNumber(d, object)
             e == [d EXCEPT !.sequence[object] = n]
             r == Merge(Blank, row.fields)
  <2>1. n \in 1..MaxSequence /\ IsNextNumber(d, object, n)
    BY <1>3 DEF DrawsId, CanDraw, NextNumber
  <2>2. n \in Nat /\ object \in Objects /\ <<object, n>> \notin DOMAIN d.live
    BY <2>1, RecordsAssumption, DmlEngineAssumption DEF IsNextNumber
  <2>3. e \in Databases /\ e.live = d.live /\ <<object, n>> \in Ids
    BY <2>2 DEF Databases, Ids
  <2>4. r \in StoredRecords
    BY BlankIsStored, MergedRecord
  <2>5. RowResult(d, op, row) = ValidateAndWrite(e, e, <<object, n>>, r)
    BY <1>3 DEF RowResult, InsertRow, InsertNew
  <2> HIDE DEF e, n, r
  <2> QED
    BY <1>3, <2>2, <2>3, <2>4, <2>5, WritesOne
<1>4. CASE op = "update" /\ row.id \notin DOMAIN d.live
  BY <1>1, <1>4 DEF RowResult, UpdateRow
<1>5. CASE op = "update" /\ row.id \in DOMAIN d.live
  <2> DEFINE r == Merge(d.live[row.id], row.fields)
  <2>1. row.id \in Ids /\ d.live[row.id] \in StoredRecords
    BY <1>5, InTable, DatabaseParts
  <2>2. r \in StoredRecords
    BY <2>1, MergedRecord
  <2>3. RowResult(d, op, row) = ValidateAndWrite(d, d, row.id, r)
    BY <1>5 DEF RowResult, UpdateRow
  <2> DEFINE result == ValidateAndWrite(d, d, row.id, r)
  <2>4. IF result.status = "OK"
        THEN result.id = row.id /\ DOMAIN result.db.live = DOMAIN d.live \cup {row.id}
        ELSE DOMAIN result.db.live = DOMAIN d.live
    <3> HIDE DEF r
    <3> QED
      BY <2>1, <2>2, WritesOne
  <2> HIDE DEF result
  <2>5. RowResult(d, op, row) = result
    BY <2>3 DEF result
  <2> QED
    BY <1>5, <2>4, <2>5
<1> QED
  BY <1>2, <1>3, <1>4, <1>5

\* What the rows up to some have done to the Ids there were.
IsOnTarget(done) ==
    /\ DOMAIN db.live \subseteq DOMAIN done.db.live
    /\ GroupOp = "update" => DOMAIN done.db.live = DOMAIN db.live
    /\ \A i \in WrittenRows(done) :
           LET h == Top.inputs[i]
           IN  IF GroupOp = "update" THEN image[h].id \in DOMAIN db.live
               ELSE image[h].id = Null /\ done.images[h].id \notin DOMAIN db.live

LEMMA RowIsOnTarget ==
    ASSUME DmlStructure, At("write"), GroupOp \in {"insert", "update"},
           NEW n \in Nat, n + 1 \in Top.group,
           NEW done, IsWritten(done, n), IsOnTarget(done),
           DrawsId(GroupOp, RowOf(Top.inputs[n + 1])) => CanDraw(done.db, object)
    PROVE  IsOnTarget(RunRow(done, n + 1))
<1> DEFINE i == n + 1
           h == Top.inputs[i]
           row == RowOf(h)
           result == RowResult(done.db, GroupOp, row)
           after == RunRow(done, i)
           new == Written(result, row)
<1>1. /\ Top \in StatementFrames /\ IsOrderly(Top) /\ DmlTypes /\ Top.stage \in GroupStages
  BY AtStatement, StageNames, NextStages
<1>2. h \in Handles
  BY <1>1, InGroup DEF GroupOf
<1>3. IsRow(row) /\ row.id = image[h].id /\ done.db \in Databases
  BY <1>1, <1>2, RowOfHandle DEF IsWritten
<1>4. /\ DOMAIN done.db.live \subseteq DOMAIN result.db.live
      /\ GroupOp = "update" => DOMAIN result.db.live = DOMAIN done.db.live
      /\ result.status = "OK" =>
             IF GroupOp = "update" THEN row.id \in DOMAIN done.db.live /\ result.id = row.id
             ELSE row.id = Null /\ result.id \notin DOMAIN done.db.live
  BY <1>3, RowAims
<1>5. result.status = "OK" => new.id = result.id
  BY DEF Written
<1>6. /\ after.db = result.db
      /\ after.statuses = Put(done.statuses, i, result.status)
      /\ after.images = IF result.status = "OK" THEN Put(done.images, h, new) ELSE done.images
  BY DEF RunRow
<1>7. /\ done.images \in SomeImages /\ DOMAIN done.statuses = Top.group \cap (1..n)
      /\ DOMAIN done.images = {Top.inputs[j] : j \in WrittenRows(done)}
  BY DEF IsWritten
<1> HIDE DEF result, row, new, after
<1>8. WrittenRows(after) = WrittenRows(done) \cup (IF result.status = "OK" THEN {i} ELSE {})
  <2>1. i \notin DOMAIN done.statuses
    BY <1>7
  <2> HIDE DEF i
  <2> QED
    BY <1>6, <2>1 DEF WrittenRows, Put
<1>9. \A g : after.images[g] = IF result.status = "OK" /\ g = h THEN new
                               ELSE IF g \in DOMAIN done.images THEN done.images[g]
                               ELSE after.images[g]
  BY <1>6 DEF Put
<1>10. ASSUME NEW j \in WrittenRows(after), GroupOp = "update"
       PROVE  image[Top.inputs[j]].id \in DOMAIN db.live
  BY <1>3, <1>4, <1>8, <1>10 DEF IsOnTarget
<1>11. ASSUME NEW j \in WrittenRows(after), GroupOp = "insert"
       PROVE  /\ image[Top.inputs[j]].id = Null
              /\ after.images[Top.inputs[j]].id \notin DOMAIN db.live
  <2>1. CASE Top.inputs[j] = h /\ result.status = "OK"
    BY <1>3, <1>4, <1>5, <1>9, <1>11, <2>1 DEF IsOnTarget
  <2>2. CASE ~(Top.inputs[j] = h /\ result.status = "OK")
    <3>1. j \in WrittenRows(done) /\ Top.inputs[j] \in DOMAIN done.images
      BY <1>7, <1>8, <2>2
    <3>2. after.images[Top.inputs[j]] = done.images[Top.inputs[j]]
      BY <1>9, <2>2, <3>1
    <3> QED
      BY <1>11, <3>1, <3>2 DEF IsOnTarget
  <2> QED
    BY <2>1, <2>2
<1>12. IsOnTarget(after)
  BY <1>4, <1>6, <1>10, <1>11 DEF IsOnTarget
<1> QED
  BY <1>12 DEF after

LEMMA AllRowsAreOnTarget ==
    ASSUME DmlStructure, Write, GroupOp \in {"insert", "update"}
    PROVE  IsOnTarget(Done[Len(Top.inputs)])
<1> DEFINE N == Len(Top.inputs)
           T == {n \in 0..N : IsWritten(Done[n], n) /\ IsOnTarget(Done[n])}
<1>1. At("write") /\ Top \in StatementFrames /\ DmlTypes /\ MayDraw
  BY AtStatement DEF Write
<1>2. N \in Nat
  BY <1>1, StatementTypes
<1>3. Done[0] = Unwritten /\ \A n \in 0..(N - 1) : Done[n + 1] = Ran(Done[n], n + 1)
  BY <1>2, RowsRun
<1>4. 0 \in T
  <2>1. /\ Unwritten.db = db /\ Unwritten.statuses = <<>> /\ Unwritten.images = <<>>
    BY DEF Unwritten
  <2>2. db \in Databases
    BY <1>1 DEF DmlTypes
  <2>3. WrittenRows(Unwritten) = {} /\ 1..0 = {}
    BY <2>1, SomeOfNothing DEF WrittenRows
  <2>4. IsWritten(Unwritten, 0) /\ IsOnTarget(Unwritten)
    BY <2>1, <2>2, <2>3, SomeOfNothing DEF IsWritten, IsOnTarget
  <2> QED
    BY <1>2, <1>3, <2>4
<1>5. ASSUME NEW n \in 0..(N - 1), n \in T PROVE n + 1 \in T
  <2>1. n \in Nat /\ n + 1 \in 0..N /\ IsWritten(Done[n], n) /\ IsOnTarget(Done[n])
        /\ (n + 1) - 1 = n /\ Done[n + 1] = Ran(Done[n], n + 1)
    BY <1>2, <1>3, <1>5
  <2>2. CASE n + 1 \in Top.group
    <3>1. DrawsId(GroupOp, RowOf(Top.inputs[n + 1])) => CanDraw(Done[n].db, object)
      BY <1>1, <2>1, <2>2 DEF MayDraw
    <3>2. IsWritten(RunRow(Done[n], n + 1), n + 1) /\ IsOnTarget(RunRow(Done[n], n + 1))
      BY <1>1, <2>1, <2>2, <3>1, RowIsRun, RowIsOnTarget
    <3> QED
      BY <2>1, <2>2, <3>2 DEF Ran
  <2>3. CASE n + 1 \notin Top.group
    <3>1. Top.group \cap (1..(n + 1)) = Top.group \cap (1..n)
      BY <2>1, <2>3
    <3>2. Done[n + 1] = Done[n]
      BY <2>1, <2>3 DEF Ran
    <3>3. IsWritten(Done[n + 1], n + 1)
      BY <2>1, <3>1, <3>2 DEF IsWritten
    <3> QED
      BY <2>1, <3>2, <3>3
  <2> QED
    BY <2>2, <2>3
<1> HIDE DEF T
<1>6. N \in T
  <2> HIDE DEF N
  <2>1. 0..N \subseteq T
    BY <1>2, <1>4, <1>5, RowInduction
  <2> QED
    BY <1>2, <2>1
<1> QED
  BY <1>6 DEF T

\* The write of an external-Id upsert goes to the records it matched when it was
\* issued, and to no other, whatever its triggers and the DML they ran have changed.
THEOREM UpsertsAlwaysWriteTheirMatches == Spec => UpsertsWriteTheirMatches
<1> DEFINE AreTheirs ==
        At("write") /\ Last(stack').stage = "after" /\ Top.op = "upsert" /\ ExternalId # Null =>
           \A i \in Succeeded(Last(stack')) :
               LET id == image'[Top.inputs[i]].id
               IN  AimsOf(Top, i) = IF id \in DOMAIN db.live THEN {id} ELSE {}
<1>1. DmlStructure /\ DmlTruth /\ DmlAims /\ [Next]_vars => [AreTheirs]_vars
  <2> SUFFICES ASSUME DmlStructure, DmlTruth, DmlAims, [Next]_vars, At("write"),
                      Last(stack').stage = "after", Top.op = "upsert", ExternalId # Null,
                      ~(UNCHANGED vars), NEW i \in Succeeded(Last(stack'))
               PROVE  LET id == image'[Top.inputs[i]].id
                      IN  AimsOf(Top, i) = IF id \in DOMAIN db.live THEN {id} ELSE {}
    BY DEF vars
  <2>1. /\ stack # <<>> /\ IsStatement(Top) /\ Top.stage = "write" /\ DmlTypes
        /\ Top \in StatementFrames /\ IsOrderly(Top) /\ Top.stage \in GroupStages
    BY AtStatement, StageNames, NextStages
  <2>2. \A f \in Frames : stack' = Become(f) => Last(stack') = f
    <3>1. Below \in Seq(Frames)
      BY <2>1, TopFrame
    <3> QED
      BY <3>1, Appended DEF Become, Last
  <2>3. Write
    <3>1. ~CodeRuns /\ ~InTrigger
      BY <2>1 DEF CodeRuns, InTrigger, IsStatement
    <3>2. ~(SetField \/ RunQuery \/ IssueDml \/ FinishEntry \/ NextTrigger \/ ReturnFromTrigger
              \/ ThrowInTrigger)
      BY <3>1 DEF SetField, RunQuery, IssueDml, FinishEntry, Spend, NextTrigger,
                  ReturnFromTrigger, ThrowInTrigger
    <3>3. ~(Preflight \/ ChooseGroup \/ BeginAttempt \/ SkipTriggers \/ EnterTriggers
              \/ SettleAtomic \/ SettlePartial \/ RetrySurvivors \/ FailAttempt
              \/ CompleteStatement \/ FailStatement)
      BY <2>1 DEF Preflight, ChooseGroup, BeginAttempt, SkipTriggers, EnterTriggers,
                SettleAtomic, SettlePartial, RetrySurvivors, FailAttempt,
                CompleteStatement, FailStatement, Phases, At
    <3>4. ~HostFails
      <4> SUFFICES ASSUME HostFails PROVE FALSE
        OBVIOUS
      <4> DEFINE f == [Top EXCEPT !.stage = "failed"]
      <4>1. stack' = Become(f) /\ f \in StatementFrames /\ f.stage = "failed"
        BY <2>1, NextStages, StageNames DEF HostFails, StatementFrames
      <4> HIDE DEF f
      <4> QED
        BY <2>2, <4>1 DEF Frames
    <3> QED
      BY <2>1, <3>2, <3>3, <3>4 DEF Next, Terminated
  <2> DEFINE run == Done[Len(Top.inputs)]
             h == Top.inputs[i]
             aim == Top.ready[i].new.id
  <2>4. /\ IsWritten(run, Len(Top.inputs)) /\ DOMAIN run.statuses = Top.group
        /\ \A g \in Handles :
               image'[g] = IF g \in DOMAIN run.images THEN run.images[g] ELSE image[g]
        /\ \E f \in StatementFrames : stack' = Become(f) /\ f.results = run.statuses
    BY <2>3, WriteFrame
  <2>5. i \in WrittenRows(run) /\ i \in Top.group /\ h \in Handles
    <3> HIDE DEF run
    <3>1. i \in WrittenRows(run)
      BY <2>2, <2>4 DEF Succeeded, WrittenRows, Frames
    <3> QED
      BY <2>1, <2>4, <3>1, InGroup DEF WrittenRows, GroupOf
  <2>6. h \in DOMAIN run.images /\ image'[h] = run.images[h]
        /\ (image[h].id # Null => image'[h].id = image[h].id)
    <3> HIDE DEF run
    <3> QED
      BY <2>4, <2>5 DEF IsWritten
  <2>7. /\ i \in DOMAIN Top.ready /\ Top.ready[i].op = GroupOp /\ GroupOp \in {"insert", "update"}
        /\ AimsOf(Top, i) = (IF aim = Null THEN {} ELSE {aim})
        /\ GroupOp = "update" => aim # Null
    <3>1. i \in DOMAIN Top.ready /\ Top.ready[i].op = GroupOp
      BY <2>1, <2>5 DEF IsOrderly, GroupOp
    <3>2. IsAimed(Top)
      BY <2>1, TopFrame DEF DmlAims, IsStatement
    <3> QED
      BY <3>1, <3>2 DEF IsAimed
  <2>8. aim # Null => image[h].id = aim
    BY <2>1, <2>5, TopIsTrue DEF WritesAreIn, Aimed
  <2>9. IsOnTarget(run)
    BY <2>3, <2>7, AllRowsAreOnTarget
  <2> HIDE DEF run
  <2> QED
    BY <2>5, <2>6, <2>7, <2>8, <2>9 DEF IsOnTarget
<1> QED
  BY <1>1, DmlEngineIsStructured, WrittenRowsStayKnown, UpsertsStayAimed, PTL
     DEF Spec, UpsertsWriteTheirMatches
=====
