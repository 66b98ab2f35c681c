------------------------------ MODULE Records ------------------------------
(***************************************************************************)
(* The row rules of the local database: what one input row of a DML call   *)
(* does to the stored records, the recycle bin and the Id sequences, and   *)
(* what the preflight of that row promises to the trigger engine.          *)
(*                                                                         *)
(* A database is a record with three parts, the fields of LocalDatabase:   *)
(*   live      the stored records, a function from Ids to field values     *)
(*   bin       the recycle bin, of the same shape                          *)
(*   sequence  the last number drawn for each object                       *)
(*                                                                         *)
(* An Id is <<object, number>>.  RecordId::generate prints the object's    *)
(* key prefix (unique in a schema) and the number, so the pair says all    *)
(* that the code can tell apart; number 0 stands for the Ids of fixture    *)
(* records that no sequence number prints.                                 *)
(***************************************************************************)
EXTENDS Integers, Functions

CONSTANTS
    Objects,         \* SObject types of the schema
    Fields,          \* their fields other than Id
    RequiredFields,  \* fields that are not nullable
    UniqueFields,    \* external-Id fields marked unique
    Values,          \* field values
    Fold,            \* the case folding under which values are compared
    Null,            \* DataValue::Null, and the Id of a record not inserted
    MaxSequence      \* bound: numbers a sequence may draw

ASSUME RecordsAssumption ==
    /\ RequiredFields \subseteq Fields
    /\ UniqueFields \subseteq Fields
    /\ Fold \in [Values -> Values]
    /\ Null \notin Values
    /\ Null \notin Objects \X Nat
    /\ MaxSequence \in Nat

Ids == Objects \X Nat

\* A stored record: a value, or Null, for every field.
StoredRecords == [Fields -> Values \cup {Null}]

\* The fields an SObject carries; a field it does not carry is left alone.
CarriedFields == UNION {[F -> Values \cup {Null}] : F \in SUBSET Fields}

\* A row of a DML call.  An Id printed with another object's prefix is an Id
\* this object does not store, so rows with their own object's Ids say it all.
Rows == {row \in [object : Objects, id : (Objects \X (0..MaxSequence)) \cup {Null},
                  fields : CarriedFields] :
            row.id # Null => row.id[1] = row.object}

\* A set of records keyed by Id.
IsTable(t) == DOMAIN t \subseteq Ids /\ t \in [DOMAIN t -> StoredRecords]

IsDatabase(d) ==
    /\ d = [live |-> d.live, bin |-> d.bin, sequence |-> d.sequence]
    /\ IsTable(d.live)
    /\ IsTable(d.bin)
    /\ d.sequence \in [Objects -> Nat]

Statuses == {"OK", "INVALID_FIELD_FOR_INSERT_UPDATE", "INVALID_CROSS_REFERENCE_KEY",
             "REQUIRED_FIELD_MISSING", "DUPLICATE_VALUE"}

-----------------------------------------------------------------------------

Put(f, id, r) == [i \in DOMAIN f \cup {id} |-> IF i = id THEN r ELSE f[i]]

Drop(f, id) == Restrict(f, DOMAIN f \ {id})

Blank == [f \in Fields |-> Null]

\* The stored fields overwritten by the ones the row carries.
Merge(stored, carried) ==
    [f \in Fields |-> IF f \in DOMAIN carried THEN carried[f] ELSE stored[f]]

SameValue(v, w) == v # Null /\ w # Null /\ Fold[v] = Fold[w]

MissingRequired(r) == \E f \in RequiredFields : r[f] = Null

\* Some other live record of the same object holds one of r's unique values.
Duplicate(db, id, r) ==
    \E other \in DOMAIN db.live :
        /\ other # id
        /\ other[1] = id[1]
        /\ \E f \in UniqueFields : SameValue(r[f], db.live[other][f])

\* Mutant: the lowest number no live record has.
IsUnusedNumber(db, object, n) ==
    /\ <<object, n>> \notin DOMAIN db.live
    /\ \A m \in 1..(n - 1) : <<object, m>> \in DOMAIN db.live

\* n is the first number after the last one drawn whose Id no live record
\* has.  The recycle bin is not consulted.
IsNextNumber(db, object, n) ==
    /\ n > db.sequence[object]
    /\ <<object, n>> \notin DOMAIN db.live
    /\ \A m \in (db.sequence[object] + 1)..(n - 1) :
           <<object, m>> \in DOMAIN db.live

NextNumber(db, object) ==
    CHOOSE n \in 1..MaxSequence : IsNextNumber(db, object, n)

\* The sequences are capped for checking only: a row that would draw beyond
\* the bound is not attempted.
CanDraw(db, object) == \E n \in 1..MaxSequence : IsNextNumber(db, object, n)

-----------------------------------------------------------------------------

Success(db, id) == [db |-> db, status |-> "OK", id |-> id]

Failure(db, status) == [db |-> db, status |-> status, id |-> Null]

\* Validate r, then write it over whatever is stored under id; when it is
\* refused the database left behind is `refused'.
ValidateAndWrite(db, refused, id, r) ==
    IF MissingRequired(r) THEN Failure(refused, "REQUIRED_FIELD_MISSING")
    ELSE IF Duplicate(db, id, r) THEN Failure(refused, "DUPLICATE_VALUE")
    ELSE Success([db EXCEPT !.live = Put(db.live, id, r)], id)

\* A refused insert keeps the number it drew.
InsertNew(db, row) ==
    LET n     == NextNumber(db, row.object)
        drawn == [db EXCEPT !.sequence[row.object] = n]
    IN  ValidateAndWrite(drawn, drawn, <<row.object, n>>, Merge(Blank, row.fields))

InsertRow(db, row) ==
    IF row.id # Null THEN Failure(db, "INVALID_FIELD_FOR_INSERT_UPDATE")
    ELSE InsertNew(db, row)

UpdateRow(db, row) ==
    IF row.id \notin DOMAIN db.live THEN Failure(db, "INVALID_CROSS_REFERENCE_KEY")
    ELSE ValidateAndWrite(db, db, row.id, Merge(db.live[row.id], row.fields))

UpsertRow(db, row) ==
    IF row.id = Null THEN InsertNew(db, row) ELSE UpdateRow(db, row)

\* The stored record, not the caller's image of it, goes to the recycle bin.
DeleteRow(db, row) ==
    IF row.id \notin DOMAIN db.live THEN Failure(db, "INVALID_CROSS_REFERENCE_KEY")
    ELSE Success([db EXCEPT !.live = Drop(db.live, row.id),
                            !.bin = Put(db.bin, row.id, db.live[row.id])], row.id)

\* Mutants: the record is written unvalidated, or does not return to the bin.
UndeleteUnchecked(db, row) ==
    IF row.id \notin DOMAIN db.bin THEN Failure(db, "INVALID_CROSS_REFERENCE_KEY")
    ELSE Success([db EXCEPT !.bin = Drop(db.bin, row.id),
                            !.live = Put(db.live, row.id, db.bin[row.id])], row.id)

UndeleteUnreturned(db, row) ==
    IF row.id \notin DOMAIN db.bin THEN Failure(db, "INVALID_CROSS_REFERENCE_KEY")
    ELSE LET taken == [db EXCEPT !.bin = Drop(db.bin, row.id)]
         IN  ValidateAndWrite(taken, taken, row.id, Merge(db.bin[row.id], row.fields))

\* The record leaves the bin first and returns to it when it is refused.
UndeleteRow(db, row) ==
    IF row.id \notin DOMAIN db.bin THEN Failure(db, "INVALID_CROSS_REFERENCE_KEY")
    ELSE ValidateAndWrite([db EXCEPT !.bin = Drop(db.bin, row.id)], db,
                          row.id, Merge(db.bin[row.id], row.fields))

RowResult(db, op, row) ==
    CASE op = "insert"   -> InsertRow(db, row)
      [] op = "update"   -> UpdateRow(db, row)
      [] op = "upsert"   -> UpsertRow(db, row)
      [] op = "delete"   -> DeleteRow(db, row)
      [] op = "undelete" -> UndeleteRow(db, row)

DrawsId(op, row) == row.id = Null /\ op \in {"insert", "upsert"}

Operations == {"insert", "update", "upsert", "delete", "undelete"}

-----------------------------------------------------------------------------
(* The preflight of one row, before any trigger runs: the concrete         *)
(* operation it will be and the image the caller's SObject takes meanwhile *)
(* (NoImage when it keeps its own).  key is the external-Id field of an    *)
(* upsert, or Null.                                                        *)

NoImage == [id |-> Null, fields |-> Null]

Ready(operation, image) == [status |-> "OK", op |-> operation, new |-> image]

Denied(status) == [status |-> status, op |-> "none", new |-> NoImage]

Matches(db, key, row) ==
    {id \in DOMAIN db.live :
        id[1] = row.object /\ SameValue(db.live[id][key], row.fields[key])}

PrepareInsert(row) == Ready("insert", [id |-> row.id, fields |-> row.fields])

\* The image is the stored record overwritten by all the row carries, its Id
\* included.
PrepareUpdate(db, id, row) ==
    Ready("update", [id     |-> IF row.id = Null THEN id ELSE row.id,
                     fields |-> Merge(db.live[id], row.fields)])

\* The match of an external value, when there is one only.
OneMatch(matches) == \E id \in matches : matches = {id}

PrepareUpsertByKey(db, key, row) ==
    IF key \notin DOMAIN row.fields \/ row.fields[key] = Null
    THEN Denied("MISSING_ARGUMENT")
    ELSE LET matches == Matches(db, key, row)
         IN  IF matches = {} THEN PrepareInsert(row)
             ELSE IF OneMatch(matches)
             THEN PrepareUpdate(db, CHOOSE id \in matches : TRUE, row)
             ELSE Denied("DUPLICATE_EXTERNAL_ID")

PrepareRow(db, op, key, row) ==
    CASE op = "insert" ->
            IF row.id = Null THEN PrepareInsert(row)
            ELSE Denied("INVALID_FIELD_FOR_INSERT_UPDATE")
      [] op = "update" ->
            IF row.id \in DOMAIN db.live THEN PrepareUpdate(db, row.id, row)
            ELSE Denied("INVALID_CROSS_REFERENCE_KEY")
      [] op = "upsert" /\ key # Null -> PrepareUpsertByKey(db, key, row)
      [] op = "upsert" /\ key = Null ->
            IF row.id \in DOMAIN db.live THEN PrepareUpdate(db, row.id, row)
            ELSE PrepareInsert(row)
      [] op = "delete" ->
            IF row.id \in DOMAIN db.live THEN Ready("delete", NoImage)
            ELSE Denied("INVALID_CROSS_REFERENCE_KEY")
      [] op = "undelete" ->
            IF row.id \in DOMAIN db.bin
            THEN Ready("undelete", [id |-> row.id, fields |-> db.bin[row.id]])
            ELSE Denied("INVALID_CROSS_REFERENCE_KEY")

=============================================================================
