----------------------------- MODULE MCQueries -----------------------------
(***************************************************************************)
(* Queries over small databases, and what they denote: the records that     *)
(* satisfy the condition when every path is followed through the database,  *)
(* in the order asked for, from the offset on and up to the limit.          *)
(***************************************************************************)
EXTENDS Subjects, Queries

Path(via, field) == [via |-> via, field |-> field]
Name == Path(<<>>, "name")
Age == Path(<<>>, "age")
Seen == Path(<<>>, "seen")
Account == Path(<<>>, "account")
AccountName == Path(<<"account">>, "name")
ParentName == Path(<<"account", "parent">>, "name")

Text(letters) == Data("String", letters)
Number(n) == Data("Integer", <<n>>)
Ref(id) == Data("Id", <<id>>)

\* Contacts 1, 2 and 3, and the accounts 4 and 5, each the parent of the other
\* where 4 has a parent at all.
Databases ==
    {1 :> [object |-> "contact", fields |-> "name" :> Text(<<1>>) @@ "age" :> age[1] @@ "account" :> account[1] @@ "seen" :> Data("Date", <<410>>)] @@
     2 :> [object |-> "contact", fields |-> "name" :> Text(<<-1>>) @@ "age" :> age[2] @@ "account" :> account[2] @@ "seen" :> Null] @@
     3 :> [object |-> "contact", fields |-> "name" :> Text(<<2, 1>>) @@ "age" :> Number(1) @@ "account" :> Ref(4) @@ "seen" :> Data("Date", <<395>>)] @@
     4 :> [object |-> "account", fields |-> "name" :> Text(<<1>>) @@ "parent" :> parent] @@
     5 :> [object |-> "account", fields |-> "name" :> Text(<<2>>) @@ "parent" :> Ref(4)] :
        age \in {Null, Number(1), Number(2)} \X {Null, Number(1)}, account \in {<<Ref(4), Null>>, <<Ref(4), Ref(5)>>, <<Ref(5), Ref(5)>>},
        parent \in {Null, Ref(5)}}

Condition(op, path, right) == [op |-> op, path |-> path, right |-> right, args |-> <<>>]
Both(op, conditions) == [op |-> op, path |-> None, right |-> None, args |-> conditions]
Ordering(path, descending, nulls) == [path |-> path, descending |-> descending, nulls |-> nulls]
Item(path) == [path |-> path, function |-> None, query |-> None, name |-> path.field]
Total(function, path, name) == [path |-> path, function |-> function, query |-> None, name |-> name]
Children(query, path) == [path |-> path, function |-> None, query |-> query, name |-> "children"]

Query(object, select) ==
    [object |-> object, select |-> select, condition |-> None, groupBy |-> <<>>, having |-> None, orderBy |-> <<>>,
     limit |-> None, offset |-> 0, count |-> FALSE, visible |-> None, now |-> 0]

OnAge == Condition("<", Age, Number(2))
OnAccount == Condition("=", AccountName, Text(<<-1>>))
Conditions ==
    {None, OnAge, OnAccount, Condition("!=", Age, Number(1)), Condition("in", AccountName, {Text(<<2>>), Null}),
     Condition("like", Name, Text(<<AnyText, 1>>)), Both("not", <<OnAccount>>), Both("or", <<OnAge, OnAccount>>),
     Both("and", <<OnAge, Condition(">=", ParentName, Text(<<1>>))>>)}
Orders ==
    {<<>>, <<Ordering(ParentName, FALSE, None)>>, <<Ordering(Age, TRUE, None), Ordering(AccountName, FALSE, None)>>} \cup
    {<<Ordering(Age, d, nulls), Ordering(Name, TRUE, None)>> : d \in BOOLEAN, nulls \in {"first", "last"}}
Windows == {[limit |-> None, offset |-> 0], [limit |-> 1, offset |-> 1], [limit |-> 2, offset |-> 0], [limit |-> 1, offset |-> 5]}

Contacts ==
    {[Query("contact", select) EXCEPT !.condition = condition, !.orderBy = orderBy, !.limit = window.limit, !.offset = window.offset] :
        select \in {<<Item(Name)>>, <<Item(ParentName), Item(Age)>>}, condition \in Conditions, orderBy \in Orders, window \in Windows}
Counts == {[q EXCEPT !.count = TRUE, !.visible = {1, 3}] : q \in {p \in Contacts : Len(p.select) = 1 /\ Len(p.orderBy) < 2}}
Parents ==
    {[Query("account", <<Item(Name), Children([Query("contact", <<Item(Age)>>)
        EXCEPT !.condition = condition, !.orderBy = orderBy, !.limit = limit], Account)>>) EXCEPT !.visible = visible] :
        condition \in {None, OnAge, OnAccount}, orderBy \in Orders, limit \in {None, 1}, visible \in {None, {4}}}
Totals == <<Total("count", None, "rows"), Total("count", Age, "known"), Total("sum", Age, "sum"), Total("max", Age, "most")>>
Groups ==
    {[Query("contact", IF groupBy = <<>> THEN Totals ELSE <<Item(groupBy[1])>> \o Totals)
        EXCEPT !.groupBy = groupBy, !.condition = condition, !.having = having, !.orderBy = orderBy, !.limit = limit] :
        groupBy \in {<<>>, <<Age>>, <<Name>>, <<AccountName>>}, condition \in {None, OnAccount},
        having \in {None, Condition(">", Path(<<>>, "rows"), Number(1))},
        orderBy \in {<<>>, <<Ordering(Path(<<>>, "sum"), TRUE, None)>>}, limit \in {None, 1}}

\* Every relative date literal against days around the ends of the periods.
Literals ==
    {[of |-> of, amount |-> 0] : of \in
        {"YESTERDAY", "TODAY", "TOMORROW"} \cup {when \o period : when \in {"THIS_", "LAST_", "NEXT_"}, period \in {"WEEK", "MONTH", "YEAR"}}} \cup
    {[of |-> of, amount |-> n] : of \in {"LAST_N_DAYS", "NEXT_N_DAYS"}, n \in {1, 20}}
Dated ==
    {[Query("contact", <<Item(Name)>>) EXCEPT !.condition = Condition(op, Seen, Data("Literal", literal)), !.now = now] :
        op \in {"=", "!=", "<", "<=", ">", ">="}, literal \in Literals, now \in {DayLength * 396, DayLength * 410 + 1, DayLength * 730 - 1}}
DatedDatabases ==
    {1 :> [object |-> "contact", fields |-> "name" :> Text(<<1>>) @@ "seen" :> Data("Date", <<day>>)] @@
     2 :> [object |-> "contact", fields |-> "name" :> Text(<<1>>) @@ "seen" :> Data("Datetime", <<DayLength * day + 1>>)] :
        day \in {365, 388, 389, 390, 394, 395, 396, 397, 402, 403, 408, 409, 410, 411, 424, 425, 729, 730}}

QueryInit ==
    \/ \E db \in Databases, request \in Contacts \cup Counts \cup Parents \cup Groups :
          Poses("query", [db |-> db, request |-> request])
    \/ \E db \in DatedDatabases, request \in Dated : Poses("query", [db |-> db, request |-> request])

AnswerQuery == Answers("query", <<ExecuteSoql(Given.db, Given.request)>>)

SearchInit ==
    \E db \in Databases \cup DatedDatabases, orderBy \in Orders, limit \in {None, 1},
       condition \in {None, OnAge} \cup
            IF "searches" \in Divergences THEN {OnAccount, Condition("=", Seen, Data("Literal", [of |-> "TODAY", amount |-> 0]))} ELSE {} :
        Poses("search",
            [db |-> db, request |-> [needle |-> <<1>>, nameFieldsOnly |-> TRUE, now |-> DayLength * 410, returning |->
                <<[Query("contact", <<Item(ParentName)>>) EXCEPT !.condition = condition, !.orderBy = orderBy, !.limit = limit]>>]])

AnswerSearch == Answers("search", ExecuteSosl(Given.db, Given.request))

-----------------------------------------------------------------------------
(* What a query denotes.                                                    *)

\* The value of a path, followed record by record.
Value(db, id, path) ==
    LET Step(at, reference) ==
            IF at \notin DOMAIN db THEN at
            ELSE LET v == FieldOf(db[at], reference) IN IF v.kind = "Id" THEN v.is[1] ELSE 0
        end == FoldLeft(Step, id, path.via)
    IN  IF end \notin DOMAIN db THEN Null ELSE IF path.field = "Id" THEN Ref(end) ELSE FieldOf(db[end], path.field)

Matches(value, pattern) ==
    LET Match[i \in 0 .. Len(value), j \in 0 .. Len(pattern)] ==
            IF j = 0 THEN i = 0
            ELSE IF pattern[j] = AnyText THEN \E k \in 0 .. i : Match[k, j - 1]
            ELSE i > 0 /\ pattern[j] \in {AnyLetter, value[i]} /\ Match[i - 1, j - 1]
    IN  Match[Len(value), Len(pattern)]

\* The number of the day, week, month or year a day is in.
Period(unit, day) ==
    CASE unit = "DAY" -> day [] unit = "WEEK" -> (day + 4) \div 7
      [] unit = "MONTH" -> MonthOf(day) [] unit = "YEAR" -> MonthOf(day) \div 12

\* The periods a literal names, counted from the one of today.
Span(literal) ==
    LET n == literal.amount IN
    CASE literal.of = "YESTERDAY" -> <<"DAY", -1, -1>> [] literal.of = "TODAY" -> <<"DAY", 0, 0>>
      [] literal.of = "TOMORROW" -> <<"DAY", 1, 1>>    [] literal.of = "LAST_N_DAYS" -> <<"DAY", -n, 0>>
      [] literal.of = "NEXT_N_DAYS" -> <<"DAY", 1, n>>
      [] OTHER -> LET when == CHOOSE w \in {"THIS_", "LAST_", "NEXT_"} : \E u \in {"WEEK", "MONTH", "YEAR"} : w \o u = literal.of
                      unit == CHOOSE u \in {"WEEK", "MONTH", "YEAR"} : when \o u = literal.of
                      at == CASE when = "THIS_" -> 0 [] when = "LAST_" -> -1 [] when = "NEXT_" -> 1
                  IN  <<unit, at, at>>

Relates(value, op, right, now) ==
    LET span == Span(right.is)
        day == IF value.kind = "Date" THEN value.is[1] ELSE value.is[1] \div DayLength
        distance == Period(span[1], day) - Period(span[1], now \div DayLength)
    IN  IF right.kind = "Literal" /\ value = Null THEN FALSE
        ELSE IF op = "like" THEN Null \notin {value, right} /\ Matches(Lower(value.is), Lower(right.is))
        ELSE IF right.kind # "Literal" THEN Compare(value, right, op, now)
        ELSE CASE op = "=" -> span[2] <= distance /\ distance <= span[3]
               [] op = "!=" -> distance < span[2] \/ span[3] < distance
               [] op = "<" -> distance < span[2] [] op = "<=" -> distance <= span[3]
               [] op = ">" -> distance > span[3] [] op = ">=" -> distance >= span[2]

RECURSIVE Denotes(_, _, _, _)
Denotes(db, id, condition, now) ==
    LET Arg(i) == Denotes(db, id, condition.args[i], now)
    IN  CASE condition = None      -> TRUE
          [] condition.op = "and"  -> Arg(1) /\ Arg(2)
          [] condition.op = "or"   -> Arg(1) \/ Arg(2)
          [] condition.op = "not"  -> ~ Arg(1)
          [] condition.op = "in"   -> \E v \in condition.right : ValuesEqual(Value(db, id, condition.path), v)
          [] condition.op = "not in" -> ~ \E v \in condition.right : ValuesEqual(Value(db, id, condition.path), v)
          [] OTHER                 -> Relates(Value(db, id, condition.path), condition.op, condition.right, now)

Precedes(db, orderBy, l, r) ==
    LET By(i) == CompareBy(orderBy[i], Value(db, l, orderBy[i].path), Value(db, r, orderBy[i].path))
        tied(n) == \A i \in 1 .. n - 1 : By(i) = 0
    IN  \/ \E i \in DOMAIN orderBy : tied(i) /\ By(i) < 0
        \/ tied(Len(orderBy) + 1) /\ l < r

Qualifying(db, request, Also(_)) ==
    {id \in DOMAIN db : db[id].object = request.object /\ Also(id)
                        /\ Denotes(db, id, request.condition, Given.request.now)}

\* The Ids a query of the records with Also answers with, in order.
Answer(db, request, Also(_)) ==
    LET IsIn(i) == request.offset < i /\ (request.limit = None \/ i <= request.offset + request.limit)
        Cut(sorted) == [i \in 1 .. Cardinality({j \in DOMAIN sorted : IsIn(j)}) |-> sorted[request.offset + i]]
    IN  Cut(SetToSortSeq(Qualifying(db, request, Also), LAMBDA l, r : Precedes(db, request.orderBy, l, r)))

Visible(request, id) == request.visible = None \/ id \in request.visible

\* Rows are the records of the answer, with the value of every selected path
\* and the answers of their child queries.
IsAnswer(db, request, rows, Also(_)) ==
    /\ [i \in DOMAIN rows |-> rows[i].id] = Answer(db, request, Also)
    /\ \A i \in DOMAIN rows, path \in SelectedPaths(request) : FieldValue(rows[i], path) = Value(db, rows[i].id, path)

HasItsChildren(db, request, row) ==
    LET queries == SelectSeq(request.select, LAMBDA item : item.query # None)
    IN  \A i \in DOMAIN queries :
            IsAnswer(db, queries[i].query, row.children[queries[i].name], LAMBDA id : Value(db, id, queries[i].path) = Ref(row.id))

\* What an aggregate is over a set of records.
OfRecords(db, ids, function, path) ==
    LET known == {id \in ids : path = None \/ Value(db, id, path) # Null}
        of(id) == Value(db, id, path).is[1]
    IN  CASE function = "count" -> Number(Cardinality(known))
          [] function = "sum"   -> Number(MapThenSumSet(of, known))
          [] known = {}         -> Null
          [] function = "max"   -> Number(Max({of(id) : id \in known}))

\* Rows are one per group of the qualifying records that passes, in the order
\* asked for, none left out by the limit before one it keeps.
AreItsGroups(db, request, rows, Passes(_)) ==
    LET Key(id) == [i \in DOMAIN request.groupBy |-> Value(db, id, request.groupBy[i])]
        Members(ids) == IF request.groupBy = <<>> THEN {ids} ELSE {{id \in ids : Key(id) = Key(i)} : i \in ids}
        names == {request.select[i].name : i \in DOMAIN request.select}
        item(name) == request.select[CHOOSE i \in DOMAIN request.select : request.select[i].name = name]
        Cell(group, name) ==
            IF item(name).function = None THEN Value(db, Min(group), item(name).path)
            ELSE OfRecords(db, group, item(name).function, item(name).path)
        Wanted(members) == {[name \in names |-> Cell(group, name)] : group \in {m \in members : Passes(m)}}
        Before(l, r) ==
            \E i \in DOMAIN request.orderBy :
                LET field == request.orderBy[i].path.field
                    c == CompareValues(l[field], r[field])
                IN  IF request.orderBy[i].descending THEN c > 0 ELSE c < 0
        AreTheFirst(wanted) ==
            /\ Range(rows) \subseteq wanted /\ IsInjective(rows)
            /\ Len(rows) = IF request.limit = None \/ request.limit > Cardinality(wanted)
                           THEN Cardinality(wanted) ELSE request.limit
            /\ \A i \in DOMAIN rows : \A row \in wanted \ Range(SubSeq(rows, 1, i)) : ~ Before(row, rows[i])
    IN  AreTheFirst(Wanted(Members(Qualifying(db, request, LAMBDA id : Visible(request, id)))))

\* The requests ask for groups of more than so many records.
HasEnough(request, group) ==
    request.having = None \/ Relates(Number(Cardinality(group)), request.having.op, request.having.right, 0)

AnswersQuery(db, request, rows) ==
    LET Also(id) == Visible(request, id)
    IN  CASE request.count        -> rows = <<Len(Answer(db, request, Also))>>
          [] IsAggregate(request) -> AreItsGroups(db, request, rows, LAMBDA group : HasEnough(request, group))
          [] OTHER                -> /\ IsAnswer(db, request, rows, Also)
                                     /\ \A i \in DOMAIN rows : HasItsChildren(db, request, rows[i])

\* A query answers with exactly what it denotes, however its rows were
\* hydrated, filtered, ordered, cut, counted or grouped; a search with the
\* records whose name holds the needle and which a query with the same clauses
\* would answer with.
QueriesMatchReference ==
    /\ About("query") => AnswersQuery(Given.db, Given.request, outcome[1])
    /\ About("search") =>
          \A i \in DOMAIN outcome :
              LET NameHolds(id) == Occurs(Given.request.needle, Value(Given.db, id, Name).is)
              IN  IsAnswer(Given.db, Given.request.returning[i], outcome[i], NameHolds)
=============================================================================
