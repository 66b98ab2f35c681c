------------------------------ MODULE Queries ------------------------------
(***************************************************************************)
(* The execution of checked SOQL and SOSL plans by platform/database.rs:    *)
(* rows are scanned, hydrated with the parent records their paths need,     *)
(* filtered, ordered, cut to a window or grouped.                           *)
(*                                                                         *)
(* A data value is [kind, is], where is is a sequence of numbers: nothing,  *)
(* one number, or the letters of a string, capitals negated. A field path   *)
(* is [via, field]: the reference fields to follow and the field to read. A *)
(* database maps record Ids to [object, fields].                            *)
(***************************************************************************)
EXTENDS Integers, FiniteSets, Sequences, SequencesExt, FiniteSetsExt, TLC

CONSTANTS
    None,          \* an absent clause
    References,    \* for each object, its reference fields
    DayLength,     \* the length of a day (86 400 000 ms)
    MonthStart     \* the first day of the months from 1969 on (external: chrono)

Kinds == <<"Null", "Boolean", "Integer", "Date", "Datetime", "String", "Id">>
Data(kind, is) == [kind |-> kind, is |-> is]
Null == Data("Null", <<>>)

-----------------------------------------------------------------------------
(* Comparison of values.                                                    *)

Lower(text) == [i \in DOMAIN text |-> IF text[i] < 0 THEN -text[i] ELSE text[i]]

ValuesEqual(l, r) ==
    IF l.kind = "String" /\ r.kind = "String" THEN Lower(l.is) = Lower(r.is)
    ELSE l.is = r.is /\ (l.kind = r.kind \/ {l.kind, r.kind} = {"Id", "String"})

Sign(n) == IF n < 0 THEN -1 ELSE IF n > 0 THEN 1 ELSE 0

\* The order of texts, letter by letter, and of single numbers.
CompareTexts(l, r) ==
    LET differ == {i \in DOMAIN l \cap DOMAIN r : l[i] # r[i]}
    IN  IF differ = {} THEN Sign(Len(l) - Len(r)) ELSE Sign(l[Min(differ)] - r[Min(differ)])

CompareValues(l, r) ==
    LET rank(v) == SelectInSeq(Kinds, LAMBDA k : k = v.kind)
    IN  CASE l.kind = "String" /\ r.kind = "String" -> CompareTexts(Lower(l.is), Lower(r.is))
          [] l.kind = r.kind \/ {l.kind, r.kind} = {"Id", "String"} -> CompareTexts(l.is, r.is)
          [] OTHER -> Sign(rank(l) - rank(r))

\* The rows of `like`: which prefixes of the pattern match what was read of
\* the value. "%" and "_" are 0 and 99.
AnyText == 0
AnyLetter == 99

Like(value, pattern) ==
    LET p == Lower(pattern)
        Start[i \in 0 .. Len(p)] == i = 0 \/ (Start[i - 1] /\ p[i] = AnyText)
        Read(row, letter) ==
            LET Step[i \in 0 .. Len(p)] ==
                    IF i = 0 THEN FALSE
                    ELSE CASE p[i] = AnyText   -> Step[i - 1] \/ row[i]
                           [] p[i] = AnyLetter -> row[i - 1]
                           [] OTHER            -> row[i - 1] /\ p[i] = letter
            IN  Step
    IN  FoldLeft(Read, Start, Lower(value))[Len(p)]

-----------------------------------------------------------------------------
(* Relative date literals: half-open ranges of instants.                    *)

MonthOf(day) == Max({m \in DOMAIN MonthStart : MonthStart[m] <= day})
Weekday(day) == (day + 4) % 7   \* 0 on a Sunday; the day 0 was a Thursday

\* The first day of a literal's range and the first day after it.
DateRange(literal, now) ==
    LET today == now \div DayLength
        sunday == today - Weekday(today)
        month == MonthOf(today)
        january == month - (month % 12)
        n == literal.amount
    IN  CASE literal.of = "YESTERDAY"   -> <<today - 1, today>>
          [] literal.of = "TODAY"       -> <<today, today + 1>>
          [] literal.of = "TOMORROW"    -> <<today + 1, today + 2>>
          [] literal.of = "LAST_N_DAYS" -> <<today - n, today + 1>>
          [] literal.of = "NEXT_N_DAYS" -> <<today + 1, today + n + 1>>
          [] literal.of = "THIS_WEEK"   -> <<sunday, sunday + 7>>
          [] literal.of = "LAST_WEEK"   -> <<sunday - 7, sunday>>
          [] literal.of = "NEXT_WEEK"   -> <<sunday + 7, sunday + 14>>
          [] literal.of = "THIS_MONTH"  -> <<MonthStart[month], MonthStart[month + 1]>>
          [] literal.of = "LAST_MONTH"  -> <<MonthStart[month - 1], MonthStart[month]>>
          [] literal.of = "NEXT_MONTH"  -> <<MonthStart[month + 1], MonthStart[month + 2]>>
          [] literal.of = "THIS_YEAR"   -> <<MonthStart[january], MonthStart[january + 12]>>
          [] literal.of = "LAST_YEAR"   -> <<MonthStart[january - 12], MonthStart[january]>>
          [] literal.of = "NEXT_YEAR"   -> <<MonthStart[january + 12], MonthStart[january + 24]>>

CompareInstant(at, range, op) ==
    LET start == range[1] * DayLength
        end == range[2] * DayLength
    IN  CASE op = "="  -> at >= start /\ at < end
          [] op = "!=" -> at < start \/ at >= end
          [] op = "<"  -> at < start
          [] op = "<=" -> at < end
          [] op = ">"  -> at >= end
          [] op = ">=" -> at >= start
          [] op = "like" -> FALSE

CompareDate(value, literal, op, now) ==
    /\ value.kind \in {"Date", "Datetime"}
    /\ CompareInstant(IF value.kind = "Date" THEN value.is[1] * DayLength ELSE value.is[1], DateRange(literal, now), op)

Compare(l, r, op, now) ==
    IF r.kind = "Literal" THEN CompareDate(l, r.is, op, now)
    ELSE CASE op = "="    -> ValuesEqual(l, r)
           [] op = "!="   -> ~ ValuesEqual(l, r)
           [] op = "like" -> l.kind = "String" /\ r.kind = "String" /\ Like(l.is, r.is)
           [] op = "<"    -> CompareValues(l, r) < 0
           [] op = "<="   -> CompareValues(l, r) <= 0
           [] op = ">"    -> CompareValues(l, r) > 0
           [] op = ">="   -> CompareValues(l, r) >= 0

-----------------------------------------------------------------------------
(* Rows: a record with the parent records that were read along with it.     *)

FieldOf(record, field) == IF field \in DOMAIN record.fields THEN record.fields[field] ELSE Null

RECURSIVE Hydrated(_, _, _)
Hydrated(db, id, depth) ==
    LET record == db[id]
        follows == {f \in References[record.object] :
                        FieldOf(record, f).kind = "Id" /\ FieldOf(record, f).is[1] \in DOMAIN db}
    IN  [id |-> id,
         fields |-> record.fields @@ ("Id" :> Data("Id", <<id>>)),
         related |-> [f \in IF depth > 0 THEN follows ELSE {} |->
                        Hydrated(db, record.fields[f].is[1], depth - 1)],
         children |-> <<>>]

RECURSIVE FieldValue(_, _)
FieldValue(row, path) ==
    CASE path.via = <<>>                     -> FieldOf(row, path.field)
      [] Head(path.via) \in DOMAIN row.related ->
            FieldValue(row.related[Head(path.via)], [path EXCEPT !.via = Tail(@)])
      [] OTHER                               -> Null

\* A condition is [op, path, right, args] over the values `Read` finds.
RECURSIVE Holds(_, _, _)
Holds(condition, Read(_), now) ==
    LET Arg(i) == Holds(condition.args[i], Read, now)
        isIn == condition.op \in {"in", "not in"}
        found == \E v \in IF isIn THEN condition.right ELSE {condition.right} :
                    Compare(Read(condition.path), v, IF isIn THEN "=" ELSE condition.op, now)
    IN  CASE condition.op = "and"    -> Arg(1) /\ Arg(2)
          [] condition.op = "or"     -> Arg(1) \/ Arg(2)
          [] condition.op = "not"    -> ~ Arg(1)
          [] OTHER                   -> found # (condition.op = "not in")

Satisfies(condition, row, now) ==
    condition = None \/ Holds(condition, LAMBDA path : FieldValue(row, path), now)

-----------------------------------------------------------------------------
(* Order and window. An ordering is [path, descending, nulls].              *)

NullsFirst(ordering) ==
    IF ordering.nulls = None THEN ~ ordering.descending ELSE ordering.nulls = "first"

CompareBy(ordering, l, r) ==
    CASE l = Null /\ r = Null -> 0
      [] l = Null             -> IF NullsFirst(ordering) THEN -1 ELSE 1
      [] r = Null             -> IF NullsFirst(ordering) THEN 1 ELSE -1
      [] OTHER                -> IF ordering.descending THEN -CompareValues(l, r) ELSE CompareValues(l, r)

\* The sign of the first ordering that tells two rows apart, else of Last.
FirstDifference(orderBy, Cmp(_), last) ==
    LET differ == {i \in DOMAIN orderBy : Cmp(orderBy[i]) # 0}
    IN  IF differ = {} THEN last ELSE Cmp(orderBy[Min(differ)])

SortRows(rows, orderBy) ==
    LET Before(l, r) ==
            FirstDifference(orderBy,
                LAMBDA o : CompareBy(o, FieldValue(l, o.path), FieldValue(r, o.path)), Sign(l.id - r.id)) < 0
    IN  SortSeq(rows, Before)

Window(rows, request) ==
    LET from == IF request.offset < Len(rows) THEN request.offset ELSE Len(rows)
        kept == Len(rows) - from
        count == IF request.limit = None \/ request.limit > kept THEN kept ELSE request.limit
    IN  SubSeq(rows, from + 1, from + count)

ApplyRowWindow(rows, request) == Window(SortRows(rows, request.orderBy), request)

-----------------------------------------------------------------------------
(* Aggregates.                                                              *)

AggregateValue(rows, function, path) ==
    LET values == [i \in DOMAIN rows |-> FieldValue(rows[i], path)]
        known == SelectSeq(values, LAMBDA v : v # Null)
        Better(l, r) == IF function = "min" THEN CompareValues(r, l) < 0 ELSE CompareValues(r, l) > 0
        Pick(l, r) == IF Better(l, r) THEN r ELSE l
    IN  CASE function = "count" -> Data("Integer", <<IF path = None THEN Len(rows) ELSE Len(known)>>)
          [] function = "sum"   -> Data("Integer", <<FoldLeft(LAMBDA n, v : n + v.is[1], 0, known)>>)
          [] known = <<>>       -> Null
          [] OTHER              -> FoldLeft(Pick, Head(known), Tail(known))

GroupKey(row, request) == [i \in DOMAIN request.groupBy |-> FieldValue(row, request.groupBy[i])]

\* The order of the groups, which the code takes from their printed keys, is
\* left to SetToSeq.
AggregateRows(rows, request) ==
    LET keys == IF request.groupBy = <<>> THEN {<<>>} ELSE {GroupKey(r, request) : r \in Range(rows)}
        OfKey(k) == SelectSeq(rows, LAMBDA r : GroupKey(r, request) = k)
        Of(item, group) == IF item.function # None THEN AggregateValue(group, item.function, item.path)
                           ELSE IF group = <<>> THEN Null ELSE FieldValue(Head(group), item.path)
        Result(group) == FoldLeft(LAMBDA row, item : (item.name :> Of(item, group)) @@ row, <<>>, request.select)
        ordered == SetToSeq(keys)
    IN  [i \in DOMAIN ordered |-> Result(OfKey(ordered[i]))]

\* A row of aggregates maps aliases and field names to values.
Named(row, path) == IF path.field \in DOMAIN row THEN row[path.field] ELSE Null

\* Null placement is not looked at: null is the least value.
SortAggregates(rows, orderBy) ==
    LET indexed == [i \in DOMAIN rows |-> [at |-> i, row |-> rows[i]]]
        Cmp(o, l, r) == LET c == CompareValues(Named(l.row, o.path), Named(r.row, o.path))
                        IN  IF o.descending THEN -c ELSE c
        Before(l, r) == FirstDifference(orderBy, LAMBDA o : Cmp(o, l, r), Sign(l.at - r.at)) < 0
        sorted == SortSeq(indexed, Before)
    IN  [i \in DOMAIN sorted |-> sorted[i].row]

Aggregates(rows, request) ==
    LET Having(row) == request.having = None
                       \/ Holds(request.having, LAMBDA path : Named(row, path), request.now)
        having == SelectSeq(AggregateRows(rows, request), Having)
    IN  Window(SortAggregates(having, request.orderBy), request)

-----------------------------------------------------------------------------
(* Requests. select is a sequence of [path, function, query, name]: a field, *)
(* an aggregate of a field or of all rows, or a query of the children that  *)
(* refer to the row by the field path.                                      *)

RECURSIVE PathsOf(_)
PathsOf(condition) ==
    IF condition = None THEN {}
    ELSE IF condition.op \in {"and", "or", "not"}
    THEN UNION {PathsOf(condition.args[i]) : i \in DOMAIN condition.args}
    ELSE {condition.path}

SelectedPaths(request) ==
    {request.select[i].path : i \in {j \in DOMAIN request.select : request.select[j].query = None}} \ {None}

OrderPaths(request) == {request.orderBy[i].path : i \in DOMAIN request.orderBy}

Deepest(paths) ==
    Max({0} \cup {Len(p.via) : p \in paths})

\* A slip: the fields of ORDER BY are not hydrated.
ParentDepthWithoutOrder(request) ==
    Deepest(SelectedPaths(request) \cup Range(request.groupBy)
            \cup PathsOf(request.condition) \cup PathsOf(request.having))

RequestedParentDepth(request) ==
    Deepest(SelectedPaths(request) \cup Range(request.groupBy) \cup OrderPaths(request)
            \cup PathsOf(request.condition) \cup PathsOf(request.having))

IdsOf(db, object) ==
    SelectSeq([id \in 1 .. Max(DOMAIN db) |-> id], LAMBDA id : id \in DOMAIN db /\ db[id].object = object)

FilteredRows(db, request, ids, now) ==
    LET rows == [i \in DOMAIN ids |-> Hydrated(db, ids[i], RequestedParentDepth(request))]
    IN  SelectSeq(rows, LAMBDA row : Satisfies(request.condition, row, now))

\* The rows of a child query, which are grouped by parent before their window.
ChildRows(db, item, parent, now) ==
    LET children == FilteredRows(db, item.query, IdsOf(db, item.query.object), now)
        IsChild(row) == FieldValue(row, item.path) = Data("Id", <<parent>>)
    IN  ApplyRowWindow(SelectSeq(children, IsChild), item.query)

\* Of two queries of one relationship the later stands.
WithChildren(db, row, request, now) ==
    LET queries == SelectSeq(request.select, LAMBDA item : item.query # None)
        Add(children, item) == (item.name :> ChildRows(db, item, row.id, now)) @@ children
    IN  [row EXCEPT !.children = FoldLeft(Add, <<>>, queries)]

IsAggregate(request) == \E i \in DOMAIN request.select : request.select[i].function # None

Answered(db, windowed, request) ==
    IF request.count THEN <<Len(windowed)>>
    ELSE [i \in DOMAIN windowed |-> WithChildren(db, windowed[i], request, request.now)]

ExecuteSoql(db, request) ==
    LET scanned == IdsOf(db, request.object)
        ids == SelectSeq(scanned, LAMBDA id : request.visible = None \/ id \in request.visible)
        Finished(rows) == IF IsAggregate(request) /\ ~ request.count THEN Aggregates(rows, request)
                          ELSE Answered(db, ApplyRowWindow(rows, request), request)
    IN  Finished(FilteredRows(db, request, ids, request.now))

-----------------------------------------------------------------------------
(* SOSL.                                                                    *)

Occurs(needle, text) ==
    \E i \in 0 .. Len(text) - Len(needle) : SubSeq(Lower(text), i + 1, i + Len(needle)) = Lower(needle)

\* A RETURNING clause hydrates what its fields need, and its dates are
\* compared at the instant 0.
SearchRows(db, search, clause) ==
    LET ids == IdsOf(db, clause.object)
        rows == [i \in DOMAIN ids |-> Hydrated(db, ids[i], Deepest(SelectedPaths(clause)))]
        Found(row) == \E f \in DOMAIN row.fields :
                        /\ row.fields[f].kind = "String" /\ Occurs(search.needle, row.fields[f].is)
                        /\ search.nameFieldsOnly => f = "name"
        found == SelectSeq(rows, LAMBDA row : Found(row) /\ Satisfies(clause.condition, row, 0))
    IN  ApplyRowWindow(found, clause)

ExecuteSosl(db, search) ==
    [i \in DOMAIN search.returning |-> SearchRows(db, search, search.returning[i])]
=============================================================================
