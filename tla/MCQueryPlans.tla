---------------------------- MODULE MCQueryPlans ----------------------------
(***************************************************************************)
(* Queries as they are written, good and bad, from where they are accepted  *)
(* to the value they answer with.                                           *)
(***************************************************************************)
EXTENDS MCQueries, QueryPlans

Field(type, target, children) == [type |-> type, target |-> target, children |-> children]
MCFields ==
    [contact |-> [Id |-> Field("Id", None, None), name |-> Field("String", None, None),
                  age |-> Field("Integer", None, None), seen |-> Field("Date", None, None),
                  account |-> Field("Reference", "account", "contacts")],
     account |-> [Id |-> Field("Id", None, None), name |-> Field("String", None, None),
                  parent |-> Field("Reference", "account", "subs")]]

Literal(data) == [of |-> "literal", type |-> <<>>, is |-> <<data>>]
Variable(type, is) == [of |-> "variable", type |-> type, is |-> is]
Computation(type, is) == [of |-> "expression", type |-> type, is |-> is]
List(type, is) == Variable(<<"List", type>>, is)

Compares(path, op, right) == [op |-> op, path |-> path, function |-> None, right |-> right, args |-> <<>>]
Judges(function, path, op, right) == [op |-> op, path |-> path, function |-> function, right |-> right, args |-> <<>>]
All(op, conditions) == [op |-> op, path |-> None, function |-> None, right |-> None, args |-> conditions]
Selects(path) == [path |-> path, function |-> None, query |-> None, name |-> None]
Computes(function, path, alias) == [path |-> path, function |-> function, query |-> None, name |-> alias]
ChildrenOf(query) == [path |-> None, function |-> None, query |-> query, name |-> None]

Soql(from, select) ==
    [from |-> from, select |-> select, where |-> None, groupBy |-> <<>>, having |-> None, orderBy |-> <<>>,
     limit |-> None, offset |-> None]

\* Up the accounts that are each other's parents.
Up(n) == Path(<<"account">> \o [i \in 1 .. n |-> "parent"], "name")
Identity == Path(<<>>, "Id")
Today == Literal(Data("Literal", [of |-> "TODAY", amount |-> 0]))

ByName == Compares(Name, "=", Literal(Text(<<1>>)))
ByAge == Compares(Age, ">=", Variable(<<"Integer">>, <<Number(1)>>))
WhereClauses ==
    {None, ByName, ByAge, All("and", <<ByName, ByAge>>), All("or", <<ByName, All("not", <<ByAge>>)>>)} \cup
    {Compares(path, op, right) :
        path \in {Name, Age, Seen, Account, Identity, Up(0), Up(4), Up(5), Path(<<"name">>, "name")}, op \in {"=", "<", "like"},
        right \in {Literal(Text(<<1>>)), Literal(Number(1)), Literal(Null), Today, Computation(<<"Null">>, <<Null>>),
                   Variable(<<"Date">>, <<Data("Date", <<410>>)>>), Variable(<<"Long">>, <<Data("Long", <<1>>)>>)}} \cup
    {Compares(path, op, right) :
        path \in {Name, Age, Account}, op \in {"in", "not in"},
        right \in {[Literal(Null) EXCEPT !.is = <<Text(<<1>>), Null>>], [Literal(Null) EXCEPT !.is = <<>>],
                   Computation(<<"Set", "String">>, <<Text(<<2, 1>>), Text(<<4>>)>>), List("Integer", <<Number(2), Null>>),
                   List("String", None), List("Decimal", <<>>)}} \cup
    {Judges("count", None, ">", Literal(Number(0)))}

WindowsOf(query) ==
    {[query EXCEPT !.limit = limit, !.offset = offset] :
        limit \in {None, Literal(Number(1)), Literal(Number(-1)), Literal(Null), Literal(Text(<<1>>)), Computation(<<"Integer">>, <<Number(0)>>)},
        offset \in {None, Variable(<<"Integer">>, <<Number(1)>>)}}

Filtered ==
    {[Soql("contact", <<Selects(Name)>>) EXCEPT !.where = where] : where \in WhereClauses} \cup
    UNION {WindowsOf([Soql(from, <<Selects(Name)>>) EXCEPT !.where = where]) : from \in {"account", "contact"}, where \in {None, ByName}}

WithSubqueries ==
    {Soql("account", <<Selects(Name), ChildrenOf(child)>> \o more) :
        child \in {[Soql("contacts", select) EXCEPT !.where = where, !.limit = limit] :
                    select \in {<<Selects(Up(0)), Selects(Age)>>, <<Computes("count", None, None)>>, <<ChildrenOf(Soql("contacts", <<Selects(Name)>>))>>},
                    where \in {None, ByAge}, limit \in {None, Literal(Number(1)), Literal(Number(-1))}},
        more \in {<<>>, <<ChildrenOf(Soql("subs", <<Selects(Path(<<"parent">>, "name"))>>))>>,
                  <<ChildrenOf(Soql("contact", <<Selects(Name)>>))>>, <<Computes("count", None, None)>>}}

Havings ==
    {None, Judges("count", None, ">", Literal(Number(1))), Judges("count", Age, "=", Literal(Number(1))),
     Judges("max", Age, ">", Variable(<<"Integer">>, <<Number(1)>>)), Judges("count", Age, "like", Literal(Text(<<1>>))),
     All("or", <<Judges("count", None, "<", Literal(Number(2))), Compares(Age, "=", Literal(Number(2)))>>),
     Compares(Name, "in", List("String", <<Text(<<1>>), Text(<<2, 1>>)>>)),
     All("not", <<Compares(Name, "like", Literal(Text(<<AnyText, 1>>)))>>)}
Grouped ==
    {[Soql("contact", IF selected THEN [i \in DOMAIN groupBy |-> Selects(groupBy[i])] \o totals ELSE totals)
        EXCEPT !.groupBy = groupBy, !.having = having, !.limit = limit,
               !.orderBy = IF ordered /\ Age \in Range(groupBy) THEN <<Ordering(Age, TRUE, None)>> ELSE <<>>] :
        totals \in {<<Computes("count", Age, None), Computes("count", None, "all")>>, <<Computes("count", None, None)>>,
                    <<Computes("sum", Age, "sum"), Computes("max", Age, None)>>, <<Computes("sum", Name, None)>>, <<>>},
        groupBy \in {<<>>, <<Age>>, <<Age, Name>>, <<Up(0)>>}, having \in Havings, limit \in {None, Literal(Number(1))},
        ordered \in BOOLEAN, selected \in {TRUE} \cup IF "having" \in Divergences THEN {FALSE} ELSE {}}

\* COUNT() with a HAVING is left to the divergences.
Plans ==
    {query \in Filtered \cup WithSubqueries \cup Grouped :
        "having" \in Divergences \/ query.having = None \/ ResultKind(query, None) # "Count"}

PlanDatabases ==
    {db \in Databases : FieldOf(db[1], "account") = Ref(4) /\ FieldOf(db[2], "age") = Null /\ FieldOf(db[4], "parent") = Ref(5)}

Asked == {"static", "nullAware", "query", "countQuery", "getQueryLocator"}

\* The type that is wanted of a query: none, a record or a list of its records
\* or, where the divergence is looked for, of others.
PlanInit ==
    \/ \E db \in PlanDatabases, query \in Plans, as \in Asked,
          expected \in {None, "contact"} \cup IF "retagged" \in Divergences THEN {"account"} ELSE {} :
        /\ as # "static" => HasAggregate(query) \/ query \in Filtered
        /\ as \in {"countQuery", "getQueryLocator"} => expected = None
        /\ as = "nullAware" => expected = query.from
        /\ as = "query" => expected \in {None, query.from} \/ "retagged" \in Divergences
        /\ Poses("plan", [db |-> db, query |-> query, as |-> as, expected |-> expected])
    \/ \E db \in PlanDatabases, needle \in {Literal(Text(<<1>>)), Literal(Number(1)), Variable(<<"String">>, <<Null>>)},
          clause \in WindowsOf(Soql("contact", <<Selects(Up(1))>>)) \cup {Soql("account", <<>>), Soql("other", <<>>)} :
        Poses("find", [db |-> db, search |-> [needle |-> needle, nameFieldsOnly |-> TRUE, returning |-> <<clause, Soql("account", <<>>)>>]])

IsStatic == Given.as \in {"static", "nullAware"}
Now == DayLength * 410
Wanted == IF Given.expected = None THEN <<>> ELSE <<Given.expected>>

Judged(value) ==
    IF ~ IsStatic THEN EvaluateDatabaseQuery(value, Given.query, Given.as, Given.expected)
    ELSE IF QueryAccepted(Given.query) THEN value ELSE None

AnswerPlan ==
    Answers("plan", <<Judged(EvaluateSoql(Given.db, Given.query, ResultKind(Given.query, IF IsStatic THEN Wanted ELSE <<>>),
                                          Given.as = "nullAware", Now))>>)

AnswerFind ==
    Answers("find", IF SearchAccepted(Given.search) THEN <<EvaluateSosl(Given.db, Given.search)>> ELSE <<None>>)

-----------------------------------------------------------------------------
(* What a query that was accepted promises.                                 *)

\* A record is of its object, as are the parents and the children it holds.
RECURSIVE IsRecordOf(_, _, _)
IsRecordOf(db, object, record) ==
    /\ record.object = object /\ db[record.id].object = object
    /\ \A f \in DOMAIN record.related : IsRecordOf(db, MCFields[object][f].target, record.related[f])
    /\ \A name \in DOMAIN record.children :
          LET child == record.children[name].type[2]
          IN  \A i \in DOMAIN record.children[name].rows :
                /\ IsRecordOf(db, child, record.children[name].rows[i])
                /\ \E f \in DOMAIN MCFields[child] :
                      MCFields[child][f].children = name /\ Value(db, record.children[name].rows[i].id, Path(<<>>, f)) = Ref(record.id)

\* A value is of the static type: an empty list may be one of SObjects, and a
\* list of SObjects one of an object's records.
IsOfType(db, value, type) ==
    /\ \/ value.type = type
       \/ value.type = <<"List", "SObject">> /\ value.rows = <<>>
       \/ type = <<"List", "SObject">> /\ value.type[1] = "List" /\ value.type[2] \in DOMAIN MCFields
    /\ value.type[Len(value.type)] \in DOMAIN MCFields =>
          \A i \in DOMAIN value.rows : IsRecordOf(db, value.type[Len(value.type)], value.rows[i])
    /\ type = <<"Integer">> => value.rows[1] \in Nat

\* Whether a group of records satisfies a HAVING clause as it is written.
RECURSIVE Satisfied(_, _, _)
Satisfied(db, having, group) ==
    LET left == IF having.function # None THEN OfRecords(db, group, having.function, having.path)
                ELSE Value(db, Min(group), having.path)
        Arg(i) == Satisfied(db, having.args[i], group)
    IN  CASE having = None     -> TRUE
          [] having.op = "and" -> Arg(1) /\ Arg(2)
          [] having.op = "or"  -> Arg(1) \/ Arg(2)
          [] having.op = "not" -> ~ Arg(1)
          [] having.op = "in"  -> \E i \in DOMAIN having.right.is : ValuesEqual(left, having.right.is[i])
          [] OTHER             -> Relates(left, having.op, having.right.is[1], Now)

\* Values of two kinds the comparison of values tells apart by kind alone are
\* not compared.
RECURSIVE ComparesAlike(_, _)
ComparesAlike(object, condition) ==
    LET type == FieldType(object, condition.path)
        alike(kind) == \/ kind \in {"Null", type} \/ {kind, type} \subseteq {"String", "Id", "Reference"}
                       \/ kind = "Literal" /\ type \in {"Date", "Datetime"}
    IN  IF condition = None THEN TRUE
        ELSE IF condition.op \in Connectives THEN \A i \in DOMAIN condition.args : ComparesAlike(object, condition.args[i])
        ELSE condition.function # None \/ \A i \in DOMAIN condition.right.is : alike(condition.right.is[i].kind)

\* A query raises for a window that is not a count, for a collection that is
\* null, for a single record where there is none or are several, and text also
\* for what would not have been accepted.
HasCause(query, kind) ==
    \/ ~ Evaluates(query)
    \/ kind = "RecordSingle" /\ Len(Answer(Given.db, SoqlRequest(query, Now), LAMBDA id : TRUE)) # 1

KeepsItsPromise(db, query, kind, type, value) ==
    IF value = Raised THEN HasCause(query, kind)
    ELSE /\ kind = "RecordSingle" /\ value.type = <<"Null">> =>
                Given.as = "nullAware" /\ Answer(db, SoqlRequest(query, Now), LAMBDA id : TRUE) = <<>>
         /\ value.type # <<"Null">> => IsOfType(db, value, type)
         /\ ComparesAlike(query.from, query.where) /\ ComparesAlike(query.from, query.having)
         /\ kind = "Aggregates" =>
                AreItsGroups(db, SoqlRequest(query, Now), value.rows, LAMBDA group : Satisfied(db, query.having, group))

\* A query that was accepted answers with a value of its static type, whose
\* records are of the objects its type says and whose groups satisfy HAVING as
\* written, or raises for a cause (semantic/queries.rs, runtime/database.rs).
AcceptedQueriesAnswerTheirType ==
    /\ About("plan") /\ outcome[1] # None =>
          LET query == Given.query
              kind == ResultKind(query, IF IsStatic THEN Wanted ELSE <<>>)
              type == IF IsStatic THEN QueryType(query, Wanted) ELSE DatabaseQueryType(Given.as, Given.expected)
          IN  \/ ~ IsStatic /\ ~ DynamicAccepted(query, Given.as) /\ outcome[1] = Raised
              \/ KeepsItsPromise(Given.db, query, kind, type, outcome[1])
    /\ About("find") /\ outcome[1] # None =>
          IF outcome[1] = Raised
          THEN Given.search.needle.is[1] = Null \/ ~ Evaluates(Given.search.returning[1])
          ELSE \A i \in DOMAIN Given.search.returning : \A j \in DOMAIN outcome[1].rows[i] :
                  IsRecordOf(Given.db, Given.search.returning[i].from, outcome[1].rows[i][j])
=============================================================================
