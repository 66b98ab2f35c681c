------------------------ MODULE LocalDatabase_proofs ------------------------
(***************************************************************************)
(* What holds of LocalDatabase for every schema, every set of fixtures of  *)
(* the stated kind and every bound.  A row step changes one database and   *)
(* every other step moves databases about, so each invariant is proved of  *)
(* RowResult once and carried to every view by ViewsStep.                  *)
(***************************************************************************)
EXTENDS LocalDatabase, SequenceTheorems, TLAPS

\* The fixture records satisfy the row rules themselves.
FixturesAreValid ==
    \A fixture \in Fixtures : HasValidRecords(fixture)

\* No fixture record has an Id that a sequence will print.
FixturesAreForeign ==
    \A fixture \in Fixtures : \A id \in DOMAIN fixture : id[2] = 0

-----------------------------------------------------------------------------

\* Writing a record under an Id of the schema keeps a table a table.
LEMMA PutTable ==
    ASSUME NEW t, IsTable(t), NEW id \in Ids, NEW r \in StoredRecords
    PROVE  IsTable(Put(t, id, r)) /\ DOMAIN Put(t, id, r) = DOMAIN t \cup {id}
BY DEF IsTable, Put

\* Removing a record keeps a table a table.
LEMMA DropTable ==
    ASSUME NEW t, IsTable(t), NEW id
    PROVE  IsTable(Drop(t, id)) /\ DOMAIN Drop(t, id) = DOMAIN t \ {id}
BY DEF IsTable, Drop, Restrict

\* Overwriting a stored record with carried fields gives a stored record.
LEMMA MergeType ==
    ASSUME NEW stored \in StoredRecords, NEW carried \in CarriedFields
    PROVE  Merge(stored, carried) \in StoredRecords
BY DEF Merge, StoredRecords, CarriedFields

\* A record with no values is a stored record.
LEMMA BlankType == Blank \in StoredRecords
BY DEF Blank, StoredRecords

\* assign_generated_id finds a number whenever one may be drawn.
LEMMA NextNumberIsNext ==
    ASSUME NEW d, NEW object, CanDraw(d, object)
    PROVE  /\ NextNumber(d, object) \in 1..MaxSequence
           /\ IsNextNumber(d, object, NextNumber(d, object))
BY DEF CanDraw, NextNumber

\* The rows TLC enumerates are rows with proper Ids.
LEMMA RowType ==
    ASSUME NEW row \in Rows
    PROVE  /\ row.object \in Objects
           /\ row.id # Null => row.id \in Ids
           /\ row.fields \in CarriedFields
BY RecordsAssumption DEF Rows, Ids

-----------------------------------------------------------------------------
(* The five things a row can do to a database d, leaving e.                *)

\* A value that validate_and_write lets through under an Id of d.
IsAdmitted(d, id, r) ==
    /\ id \in Ids
    /\ r \in StoredRecords
    /\ ~MissingRequired(r)
    /\ ~Duplicate(d, id, r)

Draws(d, e) ==
    \E o \in Objects, n \in Nat :
        n > d.sequence[o] /\ e = [d EXCEPT !.sequence[o] = n]

Inserts(d, e) ==
    \E o \in Objects, n \in Nat, r \in StoredRecords :
        /\ n > d.sequence[o]
        /\ IsAdmitted(d, <<o, n>>, r)
        /\ e = [d EXCEPT !.sequence[o] = n, !.live = Put(d.live, <<o, n>>, r)]

Updates(d, e) ==
    \E id \in DOMAIN d.live, r \in StoredRecords :
        IsAdmitted(d, id, r) /\ e = [d EXCEPT !.live = Put(d.live, id, r)]

Deletes(d, e) ==
    \E id \in DOMAIN d.live :
        e = [d EXCEPT !.live = Drop(d.live, id), !.bin = Put(d.bin, id, d.live[id])]

Undeletes(d, e) ==
    \E id \in DOMAIN d.bin, r \in StoredRecords :
        /\ IsAdmitted(d, id, r)
        /\ e = [d EXCEPT !.bin = Drop(d.bin, id), !.live = Put(d.live, id, r)]

IsRefusal(d, e) == e = d \/ Draws(d, e)

RowEffect(d, e) ==
    e = d \/ Draws(d, e) \/ Inserts(d, e) \/ Updates(d, e) \/ Deletes(d, e) \/ Undeletes(d, e)

\* execute_insert_row draws a number, or also inserts a valid record under it.
LEMMA InsertEffect ==
    ASSUME NEW d, IsDatabase(d), NEW row \in Rows, CanDraw(d, row.object)
    PROVE  /\ RowEffect(d, InsertNew(d, row).db)
           /\ InsertNew(d, row).status \in Statuses
           /\ InsertNew(d, row).status # "OK" => IsRefusal(d, InsertNew(d, row).db)
<1> DEFINE n  == NextNumber(d, row.object)
           r  == Merge(Blank, row.fields)
           id == <<row.object, n>>
           e  == [d EXCEPT !.sequence[row.object] = n]
<1>1. n \in Nat /\ n > d.sequence[row.object]
  <2>1. n \in 1..MaxSequence /\ IsNextNumber(d, row.object, n)
    BY NextNumberIsNext
  <2>2. d.sequence[row.object] \in Nat
    BY RowType DEF IsDatabase
  <2> QED
    BY <2>1, <2>2, RecordsAssumption DEF IsNextNumber
<1>2. row.object \in Objects /\ id \in Ids
  BY <1>1, RowType DEF Ids
<1>3. r \in StoredRecords
  BY MergeType, BlankType, RowType
<1>4. e.live = d.live
  BY DEF IsDatabase
<1>5. Duplicate(e, id, r) <=> Duplicate(d, id, r)
  BY <1>4 DEF Duplicate
<1>6. InsertNew(d, row) = ValidateAndWrite(e, e, id, r)
  BY DEF InsertNew
<1>7. Draws(d, e)
  BY <1>1, <1>2 DEF Draws
<1>8. CASE MissingRequired(r) \/ Duplicate(e, id, r)
  BY <1>6, <1>7, <1>8 DEF ValidateAndWrite, Failure, RowEffect, IsRefusal, Statuses
<1>9. CASE ~MissingRequired(r) /\ ~Duplicate(e, id, r)
  <2>1. InsertNew(d, row) = Success([e EXCEPT !.live = Put(e.live, id, r)], id)
    BY <1>6, <1>9 DEF ValidateAndWrite
  <2>2. [e EXCEPT !.live = Put(e.live, id, r)]
            = [d EXCEPT !.sequence[row.object] = n, !.live = Put(d.live, id, r)]
    BY <1>4 DEF IsDatabase
  <2>3. IsAdmitted(d, id, r)
    BY <1>2, <1>3, <1>5, <1>9 DEF IsAdmitted
  <2>4. Inserts(d, [e EXCEPT !.live = Put(e.live, id, r)])
    BY <1>1, <1>2, <1>3, <2>2, <2>3 DEF Inserts
  <2> QED
    BY <2>1, <2>4 DEF Success, RowEffect, IsRefusal, Statuses
<1> QED
  BY <1>8, <1>9

\* execute_update_row changes nothing, or overwrites one live record validly.
LEMMA UpdateEffect ==
    ASSUME NEW d, IsDatabase(d), NEW row \in Rows
    PROVE  /\ RowEffect(d, UpdateRow(d, row).db)
           /\ UpdateRow(d, row).status \in Statuses
           /\ UpdateRow(d, row).status # "OK" => IsRefusal(d, UpdateRow(d, row).db)
<1> DEFINE r == Merge(d.live[row.id], row.fields)
<1>1. CASE row.id \notin DOMAIN d.live
  BY <1>1 DEF UpdateRow, Failure, RowEffect, IsRefusal, Statuses
<1>2. CASE row.id \in DOMAIN d.live
  <2>1. row.id \in Ids /\ d.live[row.id] \in StoredRecords
    BY <1>2 DEF IsDatabase, IsTable
  <2>2. r \in StoredRecords
    BY <2>1, MergeType, RowType
  <2>3. UpdateRow(d, row) = ValidateAndWrite(d, d, row.id, r)
    BY <1>2 DEF UpdateRow
  <2>4. CASE MissingRequired(r) \/ Duplicate(d, row.id, r)
    BY <2>3, <2>4 DEF ValidateAndWrite, Failure, RowEffect, IsRefusal, Statuses
  <2>5. CASE ~MissingRequired(r) /\ ~Duplicate(d, row.id, r)
    BY <1>2, <2>1, <2>2, <2>3, <2>5
       DEF ValidateAndWrite, Success, RowEffect, Updates, IsAdmitted, IsRefusal, Statuses
  <2> QED
    BY <2>4, <2>5
<1> QED
  BY <1>1, <1>2

\* execute_delete_row changes nothing, or moves one record to the bin.
LEMMA DeleteEffect ==
    ASSUME NEW d, IsDatabase(d), NEW row \in Rows
    PROVE  /\ RowEffect(d, DeleteRow(d, row).db)
           /\ DeleteRow(d, row).status \in Statuses
           /\ DeleteRow(d, row).status # "OK" => IsRefusal(d, DeleteRow(d, row).db)
BY DEF DeleteRow, Failure, Success, RowEffect, Deletes, IsRefusal, Statuses

\* execute_undelete_row changes nothing, or moves one valid record back.
LEMMA UndeleteEffect ==
    ASSUME NEW d, IsDatabase(d), NEW row \in Rows
    PROVE  /\ RowEffect(d, UndeleteRow(d, row).db)
           /\ UndeleteRow(d, row).status \in Statuses
           /\ UndeleteRow(d, row).status # "OK" => IsRefusal(d, UndeleteRow(d, row).db)
<1> DEFINE r == Merge(d.bin[row.id], row.fields)
           e == [d EXCEPT !.bin = Drop(d.bin, row.id)]
<1>1. CASE row.id \notin DOMAIN d.bin
  BY <1>1 DEF UndeleteRow, Failure, RowEffect, IsRefusal, Statuses
<1>2. CASE row.id \in DOMAIN d.bin
  <2>1. row.id \in Ids /\ d.bin[row.id] \in StoredRecords
    BY <1>2 DEF IsDatabase, IsTable
  <2>2. r \in StoredRecords
    BY <2>1, MergeType, RowType
  <2>3. UndeleteRow(d, row) = ValidateAndWrite(e, d, row.id, r)
    BY <1>2 DEF UndeleteRow
  <2>4. e.live = d.live
    BY DEF IsDatabase
  <2>5. Duplicate(e, row.id, r) <=> Duplicate(d, row.id, r)
    BY <2>4 DEF Duplicate
  <2>6. CASE MissingRequired(r) \/ Duplicate(e, row.id, r)
    BY <2>3, <2>6 DEF ValidateAndWrite, Failure, RowEffect, IsRefusal, Statuses
  <2>7. CASE ~MissingRequired(r) /\ ~Duplicate(e, row.id, r)
    <3>1. UndeleteRow(d, row) = Success([e EXCEPT !.live = Put(e.live, row.id, r)], row.id)
      BY <2>3, <2>7 DEF ValidateAndWrite
    <3>2. IsAdmitted(d, row.id, r)
      BY <2>1, <2>2, <2>5, <2>7 DEF IsAdmitted
    <3>3. [e EXCEPT !.live = Put(e.live, row.id, r)]
              = [d EXCEPT !.bin = Drop(d.bin, row.id), !.live = Put(d.live, row.id, r)]
      BY <2>4 DEF IsDatabase
    <3>4. Undeletes(d, [e EXCEPT !.live = Put(e.live, row.id, r)])
      BY <1>2, <2>2, <3>2, <3>3 DEF Undeletes
    <3> QED
      BY <3>1, <3>4 DEF Success, RowEffect, IsRefusal, Statuses
  <2> QED
    BY <2>6, <2>7
<1> QED
  BY <1>1, <1>2

\* Whatever the operation, one row has one of these effects.
LEMMA RowResultEffect ==
    ASSUME NEW d, IsDatabase(d), NEW row \in Rows, NEW o \in Operations,
           DrawsId(o, row) => CanDraw(d, row.object)
    PROVE  /\ RowEffect(d, RowResult(d, o, row).db)
           /\ RowResult(d, o, row).status \in Statuses
           /\ RowResult(d, o, row).status # "OK" => IsRefusal(d, RowResult(d, o, row).db)
<1>1. CASE o = "insert"
  <2>1. CASE row.id # Null
    BY <1>1, <2>1 DEF RowResult, InsertRow, Failure, RowEffect, IsRefusal, Statuses
  <2>2. CASE row.id = Null
    <3>1. RowResult(d, o, row) = InsertNew(d, row)
      BY <1>1, <2>2 DEF RowResult, InsertRow
    <3> QED
      BY <1>1, <2>2, <3>1, InsertEffect DEF DrawsId
  <2> QED
    BY <2>1, <2>2
<1>2. CASE o = "update"
  BY <1>2, UpdateEffect DEF RowResult
<1>3. CASE o = "upsert"
  <2>1. CASE row.id = Null
    BY <1>3, <2>1, InsertEffect DEF RowResult, UpsertRow, DrawsId
  <2>2. CASE row.id # Null
    BY <1>3, <2>2, UpdateEffect DEF RowResult, UpsertRow
  <2> QED
    BY <2>1, <2>2
<1>4. CASE o = "delete"
  BY <1>4, DeleteEffect DEF RowResult
<1>5. CASE o = "undelete"
  BY <1>5, UndeleteEffect DEF RowResult
<1> QED
  BY <1>1, <1>2, <1>3, <1>4, <1>5 DEF Operations

-----------------------------------------------------------------------------
(* What a row keeps of a database.                                         *)

\* The effect of a row keeps a database a database.
LEMMA EffectKeepsType ==
    ASSUME NEW d, NEW e, IsDatabase(d), RowEffect(d, e)
    PROVE  IsDatabase(e)
<1>1. CASE Draws(d, e)
  BY <1>1 DEF IsDatabase, Draws
<1>2. CASE Inserts(d, e)
  <2>1. PICK o \in Objects, n \in Nat, r \in StoredRecords :
            e = [d EXCEPT !.sequence[o] = n, !.live = Put(d.live, <<o, n>>, r)]
    BY <1>2 DEF Inserts
  <2>2. IsTable(Put(d.live, <<o, n>>, r))
    BY PutTable DEF IsDatabase, Ids
  <2> QED
    BY <2>1, <2>2 DEF IsDatabase
<1>3. CASE Updates(d, e)
  BY <1>3, PutTable DEF IsDatabase, Updates, IsAdmitted
<1>4. CASE Deletes(d, e)
  <2>1. PICK id \in DOMAIN d.live :
            e = [d EXCEPT !.live = Drop(d.live, id), !.bin = Put(d.bin, id, d.live[id])]
    BY <1>4 DEF Deletes
  <2>2. IsTable(Drop(d.live, id))
    BY DropTable DEF IsDatabase
  <2>3. id \in Ids /\ d.live[id] \in StoredRecords
    BY DEF IsDatabase, IsTable
  <2>4. IsTable(Put(d.bin, id, d.live[id]))
    BY <2>3, PutTable DEF IsDatabase
  <2> QED
    BY <2>1, <2>2, <2>4 DEF IsDatabase
<1>5. CASE Undeletes(d, e)
  <2>1. PICK id \in DOMAIN d.bin, r \in StoredRecords :
            e = [d EXCEPT !.bin = Drop(d.bin, id), !.live = Put(d.live, id, r)]
    BY <1>5 DEF Undeletes
  <2>2. IsTable(Drop(d.bin, id))
    BY DropTable DEF IsDatabase
  <2>3. IsTable(Put(d.live, id, r))
    BY PutTable DEF IsDatabase, IsTable
  <2> QED
    BY <2>1, <2>2, <2>3 DEF IsDatabase
<1> QED
  BY <1>1, <1>2, <1>3, <1>4, <1>5 DEF RowEffect

\* A draw only raises a sequence, so what was drawn before stays drawn.
LEMMA EffectKeepsDrawnIds ==
    ASSUME NEW d, NEW e, IsDatabase(d), RowEffect(d, e), HasDrawnIds(d)
    PROVE  HasDrawnIds(e)
<1> USE DEF HasDrawnIds
<1>1. \A id \in DOMAIN d.live \cup DOMAIN d.bin :
          id[1] \in Objects /\ id[2] \in Nat /\ d.sequence[id[1]] \in Nat
  BY DEF IsDatabase, IsTable, Ids
<1>2. CASE Draws(d, e)
  <2>1. PICK o \in Objects, n \in Nat :
            n > d.sequence[o] /\ e = [d EXCEPT !.sequence[o] = n]
    BY <1>2 DEF Draws
  <2>2. e.live = d.live /\ e.bin = d.bin /\ e.sequence = [d.sequence EXCEPT ![o] = n]
    BY <2>1 DEF IsDatabase
  <2> QED
    BY <1>1, <2>1, <2>2 DEF IsDatabase
<1>3. CASE Inserts(d, e)
  <2>1. PICK o \in Objects, n \in Nat, r \in StoredRecords :
            /\ n > d.sequence[o]
            /\ e = [d EXCEPT !.sequence[o] = n, !.live = Put(d.live, <<o, n>>, r)]
    BY <1>3 DEF Inserts
  <2>2. e.bin = d.bin /\ e.sequence = [d.sequence EXCEPT ![o] = n]
    BY <2>1 DEF IsDatabase
  <2>3. DOMAIN e.live = DOMAIN d.live \cup {<<o, n>>}
    BY <2>1, PutTable DEF IsDatabase, Ids
  <2> QED
    BY <1>1, <2>1, <2>2, <2>3 DEF IsDatabase
<1>4. CASE Updates(d, e) \/ Deletes(d, e) \/ Undeletes(d, e)
  <2>1. e.sequence = d.sequence
    BY <1>4 DEF Updates, Deletes, Undeletes, IsDatabase
  <2>2. DOMAIN e.live \cup DOMAIN e.bin \subseteq DOMAIN d.live \cup DOMAIN d.bin
    BY <1>4 DEF Updates, Deletes, Undeletes, IsDatabase, Put, Drop, Restrict
  <2> QED
    BY <2>1, <2>2
<1> QED
  BY <1>2, <1>3, <1>4 DEF RowEffect

\* The Id of a new record was never drawn, hence is not in the bin either.
LEMMA EffectKeepsDisjointIds ==
    ASSUME NEW d, NEW e, IsDatabase(d), RowEffect(d, e), HasDrawnIds(d), HasDisjointIds(d)
    PROVE  HasDisjointIds(e)
<1> USE DEF HasDisjointIds
<1>1. CASE Draws(d, e)
  BY <1>1 DEF Draws, IsDatabase
<1>2. CASE Inserts(d, e)
  <2>1. PICK o \in Objects, n \in Nat, r \in StoredRecords :
            /\ n > d.sequence[o]
            /\ e = [d EXCEPT !.sequence[o] = n, !.live = Put(d.live, <<o, n>>, r)]
    BY <1>2 DEF Inserts
  <2>2. <<o, n>> \notin DOMAIN d.bin
    BY <2>1 DEF HasDrawnIds, IsDatabase
  <2>3. e.bin = d.bin /\ DOMAIN e.live = DOMAIN d.live \cup {<<o, n>>}
    BY <2>1, PutTable DEF IsDatabase, Ids
  <2> QED
    BY <2>2, <2>3
<1>3. CASE Updates(d, e) \/ Deletes(d, e) \/ Undeletes(d, e)
  BY <1>3 DEF Updates, Deletes, Undeletes, IsDatabase, Put, Drop, Restrict
<1> QED
  BY <1>1, <1>2, <1>3 DEF RowEffect

\* A record that passed validate_and_write joins or replaces a live one safely.
LEMMA WriteKeepsValidRecords ==
    ASSUME NEW d, HasValidRecords(d.live), NEW id, NEW r,
           ~MissingRequired(r), ~Duplicate(d, id, r)
    PROVE  HasValidRecords(Put(d.live, id, r))
<1> DEFINE t == Put(d.live, id, r)
<1>1. /\ DOMAIN t = DOMAIN d.live \cup {id}
      /\ t[id] = r
      /\ \A i \in DOMAIN t : i # id => i \in DOMAIN d.live /\ t[i] = d.live[i]
  BY DEF Put
<1> HIDE DEF t
<1>2. HasRequiredFields(t)
  BY <1>1 DEF HasValidRecords, HasRequiredFields
<1>3. ASSUME NEW i \in DOMAIN t, NEW j \in DOMAIN t, NEW f \in UniqueFields,
             i # j, i[1] = j[1]
      PROVE  ~SameValue(t[i][f], t[j][f])
  <2>1. CASE i = id
    BY <1>1, <1>3, <2>1 DEF Duplicate
  <2>2. CASE j = id
    BY <1>1, <1>3, <2>2 DEF Duplicate, SameValue
  <2>3. CASE i # id /\ j # id
    BY <1>1, <1>3, <2>3 DEF HasValidRecords, HasDistinctUniqueValues
  <2> QED
    BY <2>1, <2>2, <2>3
<1>4. HasValidRecords(t)
  BY <1>2, <1>3 DEF HasValidRecords, HasDistinctUniqueValues
<1> QED
  BY <1>4 DEF t

\* The effect of a row keeps the live records valid.
LEMMA EffectKeepsValidRecords ==
    ASSUME NEW d, NEW e, IsDatabase(d), RowEffect(d, e), HasValidRecords(d.live)
    PROVE  HasValidRecords(e.live)
<1>1. CASE Draws(d, e)
  BY <1>1 DEF Draws, IsDatabase
<1>2. CASE Inserts(d, e) \/ Updates(d, e) \/ Undeletes(d, e)
  <2>1. PICK id \in Ids, r \in StoredRecords :
            IsAdmitted(d, id, r) /\ e.live = Put(d.live, id, r)
    BY <1>2 DEF Inserts, Updates, Undeletes, IsAdmitted, IsDatabase
  <2> QED
    BY <2>1, WriteKeepsValidRecords DEF IsAdmitted
<1>3. CASE Deletes(d, e)
  <2>1. DOMAIN e.live \subseteq DOMAIN d.live /\ \A i \in DOMAIN e.live : e.live[i] = d.live[i]
    BY <1>3 DEF Deletes, IsDatabase, Drop, Restrict
  <2> QED
    BY <2>1 DEF HasValidRecords, HasDistinctUniqueValues, HasRequiredFields
<1> QED
  BY <1>1, <1>2, <1>3 DEF RowEffect

-----------------------------------------------------------------------------
(* Every view after a step was a view before it, or is what one row made   *)
(* of one.                                                                 *)

\* A step shows no database that was not there or made by one row from one.
LEMMA ViewsStep ==
    ASSUME TypeOK, [Next]_vars, NEW v \in Views'
    PROVE  v \in Views \/ \E u \in Views : RowEffect(u, v)
<1> USE DEF Views, Range
<1>1. CASE UNCHANGED vars
  BY <1>1 DEF vars
<1>2. CASE BeginDml
  BY <1>2 DEF BeginDml
<1>3. CASE ExecuteRow
  <2>1. PICK row \in Rows :
            /\ DrawsId(op, row) => CanDraw(work, row.object)
            /\ work' = RowResult(work, op, row).db
    BY <1>3 DEF ExecuteRow
  <2>2. op \in Operations /\ IsDatabase(work)
    BY <1>3 DEF ExecuteRow, TypeOK
  <2>3. RowEffect(work, work')
    BY <2>1, <2>2, RowResultEffect
  <2> QED
    BY <1>3, <2>3 DEF ExecuteRow
<1>4. CASE CommitDml
  BY <1>4 DEF CommitDml
<1>5. CASE FailDml
  BY <1>5 DEF FailDml
<1>6. CASE BeginUnit
  <2>1. \A i \in DOMAIN checkpoints' : checkpoints'[i] \in Range(checkpoints) \cup {db}
    BY <1>6 DEF BeginUnit, TypeOK
  <2> QED
    BY <1>6, <2>1 DEF BeginUnit
<1>7. CASE CommitUnit
  <2>1. \A i \in DOMAIN checkpoints' : checkpoints'[i] \in Range(checkpoints)
    BY <1>7 DEF CommitUnit, Enclosing, TypeOK
  <2> QED
    BY <1>7, <2>1 DEF CommitUnit
<1>8. CASE RollbackUnit
  <2>1. \A i \in DOMAIN checkpoints' : checkpoints'[i] \in Range(checkpoints)
    BY <1>8 DEF RollbackUnit, Enclosing, TypeOK
  <2>2. db' \in Range(checkpoints)
    BY <1>8 DEF RollbackUnit, TypeOK
  <2> QED
    BY <1>8, <2>1, <2>2 DEF RollbackUnit
<1> QED
  BY <1>1, <1>2, <1>3, <1>4, <1>5, <1>6, <1>7, <1>8 DEF Next

-----------------------------------------------------------------------------
(* The theorems.                                                           *)

\* At the start every view is the fixture, with nothing recycled or drawn.
LEMMA InitView ==
    ASSUME Init
    PROVE  /\ Views = {db}
           /\ db.live \in Fixtures
           /\ DOMAIN db.bin = {}
           /\ db.sequence = [o \in Objects |-> 0]
BY DEF Init, Views, Range

\* The initial states have the right types.
LEMMA TypeInit == Init => TypeOK
<1> SUFFICES ASSUME Init PROVE TypeOK
  OBVIOUS
<1>1. IsDatabase(db)
  BY FixturesAssumption, BlankType DEF Init, IsDatabase, IsTable
<1>2. checkpoints \in Seq(Range(checkpoints)) /\ outcomes \in Seq(Statuses)
  BY DEF Init, Range
<1> QED
  BY <1>1, <1>2 DEF Init, TypeOK, Range

\* Every step keeps the types.
LEMMA TypeStep == TypeOK /\ [Next]_vars => TypeOK'
<1> SUFFICES ASSUME TypeOK, [Next]_vars PROVE TypeOK'
  OBVIOUS
<1>1. \A v \in Views : IsDatabase(v)
  BY DEF TypeOK, Views
<1>2. \A v \in Views' : IsDatabase(v)
  BY <1>1, ViewsStep, EffectKeepsType
<1>3. checkpoints' \in Seq(Range(checkpoints'))
  <2> DEFINE S == Range(checkpoints) \cup {db}
  <2>1. checkpoints \in Seq(S)
    <3>1. checkpoints \in Seq(Range(checkpoints)) /\ Range(checkpoints) \subseteq S
      BY DEF TypeOK
    <3> HIDE DEF S
    <3> QED
      BY <3>1, SeqMonotonic
  <2>2. CASE BeginUnit
    <3>1. checkpoints' = Append(checkpoints, db) /\ db \in S
      BY <2>2 DEF BeginUnit
    <3>2. checkpoints' \in Seq(S)
      BY <2>1, <3>1, AppendProperties
    <3> QED
      BY <3>2, SeqOfRange
  <2>3. CASE CommitUnit \/ RollbackUnit
    <3>1. checkpoints' = SubSeq(checkpoints, 1, Len(checkpoints) - 1) /\ checkpoints # <<>>
      BY <2>3 DEF CommitUnit, RollbackUnit, Enclosing
    <3>2. checkpoints' \in Seq(S)
      BY <2>1, <3>1
    <3> QED
      BY <3>2, SeqOfRange
  <2>4. CASE UNCHANGED checkpoints
    BY <2>4 DEF TypeOK, Range
  <2> QED
    BY <2>2, <2>3, <2>4 DEF Next, vars, BeginDml, ExecuteRow, CommitDml, FailDml
<1>4. op' \in Operations \cup {"none"} /\ (op' = "none" => work' = db')
  BY DEF TypeOK, Next, vars, BeginDml, ExecuteRow, CommitDml, FailDml,
         BeginUnit, CommitUnit, RollbackUnit
<1>5. outcomes' \in Seq(Statuses)
  <2>1. CASE ExecuteRow
    <3>1. PICK row \in Rows :
              /\ DrawsId(op, row) => CanDraw(work, row.object)
              /\ outcomes' = Append(outcomes, RowResult(work, op, row).status)
      BY <2>1 DEF ExecuteRow
    <3>2. op \in Operations /\ IsDatabase(work)
      BY <2>1 DEF ExecuteRow, TypeOK
    <3>3. RowResult(work, op, row).status \in Statuses
      BY <3>1, <3>2, RowResultEffect
    <3> QED
      BY <3>1, <3>3 DEF TypeOK
  <2>2. CASE ~ExecuteRow
    <3>1. outcomes' = outcomes \/ outcomes' = <<>>
      BY <2>2 DEF Next, vars, BeginDml, CommitDml, FailDml,
                  BeginUnit, CommitUnit, RollbackUnit
    <3>2. outcomes \in Seq(Statuses) /\ <<>> \in Seq(Statuses)
      BY EmptySeq DEF TypeOK
    <3> QED
      BY <3>1, <3>2
  <2> QED
    BY <2>1, <2>2
<1> QED
  BY <1>2, <1>3, <1>4, <1>5 DEF TypeOK, Views

\* The database, its working copy and its snapshots keep their shape.
THEOREM TypeCorrect == Spec => []TypeOK
BY TypeInit, TypeStep, PTL DEF Spec

\* With valid fixtures no DML call and no rollback ever shows two records of
\* an object sharing a unique value, or a record without a required field.
THEOREM RecordsStayValid ==
    ASSUME FixturesAreValid
    PROVE  Spec => []LiveRecordsAreValid
<1>1. Init => LiveRecordsAreValid
  BY InitView DEF LiveRecordsAreValid, FixturesAreValid
<1>2. TypeOK /\ LiveRecordsAreValid /\ [Next]_vars => LiveRecordsAreValid'
  <2> SUFFICES ASSUME TypeOK, LiveRecordsAreValid, [Next]_vars, NEW v \in Views'
               PROVE  HasValidRecords(v.live)
    BY DEF LiveRecordsAreValid
  <2>1. \A u \in Views : IsDatabase(u) /\ HasValidRecords(u.live)
    BY DEF TypeOK, Views, LiveRecordsAreValid
  <2> QED
    BY <2>1, ViewsStep, EffectKeepsValidRecords
<1> QED
  BY <1>1, <1>2, TypeCorrect, PTL DEF Spec

IdInvariant == TypeOK /\ IdsAreDrawn /\ LiveAndRecycledAreDisjoint

\* With fixtures under foreign Ids, every Id in use has been drawn, and hence
\* no Id is ever live and recycled at once, in any view.
THEOREM IdsStayDisjoint ==
    ASSUME FixturesAreForeign
    PROVE  Spec => [](IdsAreDrawn /\ LiveAndRecycledAreDisjoint)
<1>1. Init => IdsAreDrawn /\ LiveAndRecycledAreDisjoint
  <2> SUFFICES ASSUME Init PROVE HasDrawnIds(db) /\ HasDisjointIds(db)
    BY InitView DEF IdsAreDrawn, LiveAndRecycledAreDisjoint
  <2>1. \A id \in DOMAIN db.live : id[2] = 0 /\ id[1] \in Objects
    BY InitView, TypeInit DEF FixturesAreForeign, TypeOK, IsDatabase, IsTable, Ids
  <2> QED
    BY <2>1, InitView DEF HasDrawnIds, HasDisjointIds
<1>2. IdInvariant /\ [Next]_vars => IdsAreDrawn' /\ LiveAndRecycledAreDisjoint'
  <2> SUFFICES ASSUME IdInvariant, [Next]_vars, NEW v \in Views'
               PROVE  HasDrawnIds(v) /\ HasDisjointIds(v)
    BY DEF IdsAreDrawn, LiveAndRecycledAreDisjoint
  <2>1. \A u \in Views : IsDatabase(u) /\ HasDrawnIds(u) /\ HasDisjointIds(u)
    BY DEF IdInvariant, TypeOK, Views, IdsAreDrawn, LiveAndRecycledAreDisjoint
  <2>2. v \in Views \/ \E u \in Views : RowEffect(u, v)
    BY ViewsStep DEF IdInvariant
  <2> QED
    BY <2>1, <2>2, EffectKeepsDrawnIds, EffectKeepsDisjointIds
<1> QED
  BY <1>1, <1>2, TypeCorrect, PTL DEF Spec, IdInvariant

\* A row that fails changes no stored and no recycled record.
THEOREM FailedRowsAreHarmless == Spec => FailedRowsLeaveNoRecord
<1>1. ASSUME TypeOK, [Next]_vars, RowStep, outcomes'[Len(outcomes')] # "OK"
      PROVE  work'.live = work.live /\ work'.bin = work.bin
  <2>1. CASE ExecuteRow
    <3>1. PICK row \in Rows :
              /\ DrawsId(op, row) => CanDraw(work, row.object)
              /\ work' = RowResult(work, op, row).db
              /\ outcomes' = Append(outcomes, RowResult(work, op, row).status)
      BY <2>1 DEF ExecuteRow
    <3>2. op \in Operations /\ IsDatabase(work) /\ outcomes \in Seq(Statuses)
      BY <1>1 DEF RowStep, TypeOK
    <3>3. RowResult(work, op, row).status \in Statuses
      BY <3>1, <3>2, RowResultEffect
    <3>4. RowResult(work, op, row).status # "OK"
      BY <1>1, <3>1, <3>2, <3>3
    <3>5. work' = work \/ Draws(work, work')
      BY <3>1, <3>2, <3>4, RowResultEffect DEF IsRefusal
    <3> QED
      BY <3>2, <3>5 DEF Draws, IsDatabase
  <2>2. CASE ~ExecuteRow
    BY <1>1, <2>2 DEF RowStep, Next, vars, BeginDml, CommitDml, FailDml,
                      BeginUnit, CommitUnit, RollbackUnit
  <2> QED
    BY <2>1, <2>2
<1>2. TypeOK /\ [Next]_vars
          => [RowStep /\ outcomes'[Len(outcomes')] # "OK" =>
                  work'.live = work.live /\ work'.bin = work.bin]_vars
  BY <1>1
<1> QED
  BY <1>2, TypeCorrect, PTL DEF Spec, FailedRowsLeaveNoRecord

\* With fixtures under foreign Ids a row takes a record out of the bin only to
\* make it live, and never overwrites one that stays there.
THEOREM RecycledRecordsAreKept ==
    ASSUME FixturesAreForeign
    PROVE  Spec => RecycledRecordsAreRetained
<1> DEFINE Kept(id) == \/ id \in DOMAIN work'.bin /\ work'.bin[id] = work.bin[id]
                       \/ id \in DOMAIN work'.live \ DOMAIN work.live
<1>1. ASSUME TypeOK, LiveAndRecycledAreDisjoint, [Next]_vars, RowStep,
             NEW id \in DOMAIN work.bin
      PROVE  Kept(id)
  <2>1. IsDatabase(work) /\ HasDisjointIds(work)
    BY <1>1 DEF TypeOK, LiveAndRecycledAreDisjoint, Views
  <2>2. CASE ExecuteRow
    <3>1. RowEffect(work, work')
      BY <1>1, <2>1, <2>2, RowResultEffect DEF ExecuteRow, TypeOK
    <3>2. CASE IsRefusal(work, work') \/ Inserts(work, work') \/ Updates(work, work')
      BY <2>1, <3>2 DEF IsRefusal, Draws, Inserts, Updates, IsDatabase
    <3>3. CASE Deletes(work, work')
      BY <2>1, <3>3 DEF Deletes, HasDisjointIds, IsDatabase, Put
    <3>4. CASE Undeletes(work, work')
      BY <2>1, <3>4 DEF Undeletes, HasDisjointIds, IsDatabase, Put, Drop, Restrict
    <3> QED
      BY <3>1, <3>2, <3>3, <3>4 DEF RowEffect, IsRefusal
  <2>3. CASE ~ExecuteRow
    BY <1>1, <2>3 DEF RowStep, Next, vars, BeginDml, CommitDml, FailDml,
                      BeginUnit, CommitUnit, RollbackUnit
  <2> QED
    BY <2>2, <2>3
<1>2. TypeOK /\ LiveAndRecycledAreDisjoint /\ [Next]_vars
          => [RowStep => \A id \in DOMAIN work.bin : Kept(id)]_vars
  BY <1>1
<1> QED
  BY <1>2, TypeCorrect, IdsStayDisjoint, PTL DEF Spec, RecycledRecordsAreRetained

-----------------------------------------------------------------------------
(* Snapshots implement private copies.                                     *)

\* A sequence is its front and its last element.
LEMMA AppendFrontLast ==
    ASSUME NEW S, NEW s \in Seq(S), s # <<>>
    PROVE  Append(SubSeq(s, 1, Len(s) - 1), s[Len(s)]) = s
OBVIOUS

\* Appending leaves the earlier part of a sequence alone.
LEMMA FrontOfAppend ==
    ASSUME NEW S, NEW s \in Seq(S), NEW x \in S, NEW n \in 0..Len(s)
    PROVE  SubSeq(Append(s, x), 1, n) = SubSeq(s, 1, n)
OBVIOUS

\* The whole of a sequence, as a subsequence.
LEMMA SubSeqAll ==
    ASSUME NEW S, NEW s \in Seq(S)
    PROVE  SubSeq(s, 1, Len(s)) = s
OBVIOUS

\* begin_unit, commit_unit and rollback_unit, with snapshots of one database,
\* behave as units of work that each have a copy of their own.
THEOREM SnapshotsImplementUnits == Spec => ImplementsUnitsOfWork
<1> DEFINE copies == Append(checkpoints, db)
<1>1. Init => Units!Init
  BY DEF Init, Units!Init
<1>2. ASSUME TypeOK, [Next]_vars
      PROVE  Units!Next \/ UNCHANGED copies
  <2> DEFINE S == Range(checkpoints) \cup {db, db'}
             n == Len(checkpoints)
  <2>1. checkpoints \in Seq(S) /\ db \in S /\ db' \in S
    <3>1. checkpoints \in Seq(Range(checkpoints)) /\ Range(checkpoints) \subseteq S
      BY <1>2 DEF TypeOK
    <3>2. db \in S /\ db' \in S
      OBVIOUS
    <3> HIDE DEF S
    <3> QED
      BY <3>1, <3>2, SeqMonotonic
  <2> HIDE DEF S
  <2>2. /\ copies \in Seq(S)
        /\ Len(copies) = n + 1
        /\ copies[n + 1] = db
        /\ SubSeq(copies, 1, n) = checkpoints
    BY <2>1, AppendProperties, FrontOfAppend, SubSeqAll
  <2>3. CASE BeginDml \/ ExecuteRow \/ FailDml \/ UNCHANGED vars
    BY <2>3 DEF BeginDml, ExecuteRow, FailDml, vars
  <2>4. CASE CommitDml
    <3>1. copies' = Append(checkpoints, db')
      BY <2>4 DEF CommitDml
    <3>2. Len(copies') = n + 1 /\ SubSeq(copies', 1, n) = checkpoints
      BY <2>1, <3>1, AppendProperties, FrontOfAppend, SubSeqAll
    <3> QED
      BY <2>2, <3>2 DEF Units!Next, Units!Work, Units!Outer
  <2>5. CASE BeginUnit
    BY <2>2, <2>5 DEF BeginUnit, Units!Next, Units!Begin
  <2>6. CASE CommitUnit
    <3>1. n > 0 /\ copies' = Append(SubSeq(checkpoints, 1, n - 1), db)
      BY <2>1, <2>6 DEF CommitUnit, Enclosing
    <3>2. SubSeq(copies, 1, n - 1) = SubSeq(checkpoints, 1, n - 1)
      BY <2>1, <3>1, FrontOfAppend
    <3> QED
      BY <2>1, <2>2, <3>1, <3>2 DEF Units!Next, Units!Commit
  <2>7. CASE RollbackUnit
    <3>1. n > 0 /\ copies' = Append(SubSeq(checkpoints, 1, n - 1), checkpoints[n])
      BY <2>1, <2>7 DEF RollbackUnit, Enclosing
    <3>2. copies' = checkpoints
      BY <2>1, <3>1, AppendFrontLast
    <3>3. Len(copies) - 1 = n /\ Len(copies) > 1
      BY <2>1, <2>2, <3>1
    <3>4. Units!Outer = checkpoints
      BY <2>2, <3>3 DEF Units!Outer
    <3> QED
      BY <3>2, <3>3, <3>4 DEF Units!Next, Units!Rollback
  <2> QED
    BY <1>2, <2>3, <2>4, <2>5, <2>6, <2>7 DEF Next
<1> QED
  BY <1>1, <1>2, TypeCorrect, PTL DEF Spec, ImplementsUnitsOfWork, Units!Spec

=============================================================================
