----------------------------- MODULE QueryPlans -----------------------------
(***************************************************************************)
(* SOQL and SOSL as they are written: which queries semantic/queries.rs     *)
(* accepts and with which type, the request runtime/database.rs builds of   *)
(* one, and the value it makes of the rows.                                 *)
(*                                                                         *)
(* A query is [from, select, where, groupBy, having, orderBy, limit,        *)
(* offset], over the paths, select items and orderings of Queries; the name *)
(* of a select item is its alias, the from of a child query the name of its *)
(* relationship. A comparison is [op, path, function, right, args], an      *)
(* aggregate of the path where function is not None. A value is             *)
(* [of, type, is]: literals, a variable or another expression, its static   *)
(* type, and what it evaluates to: a sequence, of one but for the values of *)
(* IN, or None for no collection. Relationship names are the names of their *)
(* reference fields.                                                        *)
(***************************************************************************)
EXTENDS Queries

CONSTANT Fields   \* for each object and field: [type, target, children]

Connectives == {"and", "or", "not"}

-----------------------------------------------------------------------------
(* Paths and values.                                                        *)

Reaches(object, via) ==
    LET Step(at, field) ==
            IF at # None /\ field \in DOMAIN Fields[at] /\ Fields[at][field].type = "Reference"
            THEN Fields[at][field].target ELSE None
    IN  FoldLeft(Step, object, via)

PathAccepted(object, path) ==
    /\ Len(path.via) <= 5
    /\ Reaches(object, path.via) # None
    /\ path.field \in DOMAIN Fields[Reaches(object, path.via)]

FieldType(object, path) == Fields[Reaches(object, path.via)][path.field].type

ApexFieldType(type) == IF type \in {"Id", "Reference"} THEN "String" ELSE type

LiteralFits(literal, type) ==
    CASE literal.kind = "Null"    -> TRUE
      [] literal.kind = "String"  -> ApexFieldType(type) = "String"
      [] literal.kind = "Literal" -> type \in {"Date", "Datetime"}
      [] OTHER                    -> literal.kind = type

LiteralsFit(value, type) == \A i \in DOMAIN value.is : LiteralFits(value.is[i], type)

ValueAccepted(value, type) ==
    IF value.of = "literal" THEN LiteralsFit(value, type)
    ELSE value.type \in {<<ApexFieldType(type)>>, <<"Null">>}

InAccepted(value, type) ==
    IF value.of = "literal" THEN LiteralsFit(value, type)
    ELSE value.type \in {"List", "Set"} \X {ApexFieldType(type)}

-----------------------------------------------------------------------------
(* Conditions.                                                              *)

\* A slip: another field's aggregate will do.
SelectedAsFunction(select, function, path) ==
    {i \in DOMAIN select : select[i].function = function}

\* The select items that are the aggregate `function` of `path`.
SelectedAs(select, function, path) ==
    {i \in DOMAIN select : select[i].function = function /\ select[i].path = path}

\* Which aggregate expressions a condition may have is up to `select`, None
\* outside of HAVING.
AggregateAccepted(object, condition, select) ==
    /\ select # None
    /\ condition.path = None \/ PathAccepted(object, condition.path)
    /\ SelectedAs(select, condition.function, condition.path) # {}
    /\ condition.op # "like"
    /\ ValueAccepted(condition.right, "Integer")

ComparisonAccepted(object, condition) ==
    /\ PathAccepted(object, condition.path)
    /\ LET type == FieldType(object, condition.path)
       IN  IF condition.op \in {"in", "not in"} THEN InAccepted(condition.right, type)
           ELSE /\ condition.op = "like" => type = "String"
                /\ ValueAccepted(condition.right, type)

RECURSIVE ConditionAccepted(_, _, _)
ConditionAccepted(object, condition, select) ==
    CASE condition = None            -> TRUE
      [] condition.op \in Connectives ->
            \A i \in DOMAIN condition.args : ConditionAccepted(object, condition.args[i], select)
      [] condition.function # None   -> AggregateAccepted(object, condition, select)
      [] OTHER                       -> ComparisonAccepted(object, condition)

\* The plain fields of a condition.
RECURSIVE FieldsOf(_)
FieldsOf(condition) ==
    CASE condition = None             -> {}
      [] condition.op \in Connectives -> UNION {FieldsOf(condition.args[i]) : i \in DOMAIN condition.args}
      [] condition.function # None    -> {}
      [] OTHER                        -> {condition.path}

-----------------------------------------------------------------------------
(* Queries.                                                                 *)

HasAggregate(query) == \E i \in DOMAIN query.select : query.select[i].function # None

\* The reference fields of other objects that make up a child relationship.
ChildRelationship(object, name) ==
    {<<child, field>> \in UNION {{o} \X DOMAIN Fields[o] : o \in DOMAIN Fields} :
        LET of == Fields[child][field]
        IN  of.type = "Reference" /\ of.target = object /\ of.children = name}

OfChild(object, query) ==
    LET relationship == CHOOSE r \in ChildRelationship(object, query.from) : TRUE
    IN  [query EXCEPT !.from = relationship[1]]

ResultKind(query, expected) ==
    LET count == Len(query.select) = 1 /\ query.select[1].function = "count" /\ query.select[1].path = None
    IN  CASE count /\ query.groupBy = <<>> -> "Count"
          [] HasAggregate(query)           -> "Aggregates"
          [] expected = <<query.from>>     -> "RecordSingle"
          [] OTHER                         -> "Records"

\* The clauses a query and a RETURNING clause have in common.
ClausesAccepted(query) ==
    /\ ConditionAccepted(query.from, query.where, None)
    /\ \A i \in DOMAIN query.orderBy : PathAccepted(query.from, query.orderBy[i].path)
    /\ \A value \in {query.limit, query.offset} : value = None \/ ValueAccepted(value, "Integer")

GroupingAccepted(query) ==
    /\ \A path \in Range(query.groupBy) : PathAccepted(query.from, path)
    /\ IF HasAggregate(query)
       THEN \A i \in DOMAIN query.select :
                query.select[i].function = None => query.select[i].path \in Range(query.groupBy)
       ELSE query.groupBy = <<>>

HavingAccepted(query) ==
    /\ ConditionAccepted(query.from, query.having, query.select)
    /\ query.having # None => HasAggregate(query)
    /\ FieldsOf(query.having) \subseteq Range(query.groupBy)

ItemAccepted(object, item) ==
    /\ item.path # None => PathAccepted(object, item.path)
    /\ item.function \in {"sum", "min", "max"} => item.path # None /\ FieldType(object, item.path) = "Integer"

RECURSIVE QueryAccepted(_)
QueryAccepted(query) ==
    LET items == Range(query.select)
        children == {item \in items : item.query # None}
        ChildAccepted(child) ==
            /\ \A i \in DOMAIN child.select : child.select[i].query = None
            /\ Cardinality(ChildRelationship(query.from, child.from)) = 1
            /\ QueryAccepted(OfChild(query.from, child))
            /\ ResultKind(OfChild(query.from, child), None) = "Records"
    IN  /\ query.from \in DOMAIN Fields /\ items # {}
        /\ \A item \in items \ children : ItemAccepted(query.from, item)
        /\ \A item \in children : ChildAccepted(item.query)
        /\ HasAggregate(query) => children = {}
        /\ GroupingAccepted(query) /\ HavingAccepted(query) /\ ClausesAccepted(query)

QueryType(query, expected) ==
    CASE ResultKind(query, expected) = "Count"      -> <<"Integer">>
      [] ResultKind(query, expected) = "Aggregates" -> <<"List", "AggregateResult">>
      [] ResultKind(query, expected) = "Records"    -> <<"List", query.from>>
      [] OTHER                                      -> <<query.from>>

SearchAccepted(search) ==
    /\ ValueAccepted(search.needle, "String")
    /\ \A i \in DOMAIN search.returning :
          LET clause == search.returning[i]
          IN  /\ clause.from \in DOMAIN Fields /\ ClausesAccepted(clause)
              /\ \A j \in DOMAIN clause.select : PathAccepted(clause.from, clause.select[j].path)

-----------------------------------------------------------------------------
(* Requests: the values of a query are evaluated once.                      *)

IsCount(value) == value = None \/ (value.is[1].kind = "Integer" /\ value.is[1].is[1] >= 0)

RECURSIVE HasCollections(_)
HasCollections(condition) ==
    CASE condition = None             -> TRUE
      [] condition.op \in Connectives -> \A i \in DOMAIN condition.args : HasCollections(condition.args[i])
      [] OTHER                        -> condition.right.is # None

\* What has to be for a request to come of a query and of its child queries.
Evaluates(query) ==
    LET Sound(q) == HasCollections(q.where) /\ HasCollections(q.having) /\ IsCount(q.limit) /\ IsCount(q.offset)
    IN  Sound(query)
        /\ \A i \in DOMAIN query.select : query.select[i].query # None => Sound(query.select[i].query)

AliasOf(select, i) ==
    IF select[i].name # None THEN select[i].name ELSE "expr" \o ToString(i - 1)

RECURSIVE QueryCondition(_, _)
QueryCondition(condition, select) ==
    LET Request(path, right) == [op |-> condition.op, path |-> path, right |-> right, args |-> <<>>]
    IN  CASE condition = None             -> None
          [] condition.op \in Connectives ->
                [op |-> condition.op, path |-> None, right |-> None,
                 args |-> [i \in DOMAIN condition.args |-> QueryCondition(condition.args[i], select)]]
          [] condition.op \in {"in", "not in"} -> Request(condition.path, Range(condition.right.is))
          [] condition.function # None    ->
                Request([via |-> <<>>, field |-> AliasOf(select, Min(SelectedAs(select, condition.function, condition.path)))],
                        condition.right.is[1])
          [] OTHER                        -> Request(condition.path, condition.right.is[1])

QueryUsize(value, absent) == IF value = None THEN absent ELSE value.is[1].is[1]

RECURSIVE SoqlRequest(_, _)
SoqlRequest(query, now) ==
    LET Child(item) ==
            LET reference == CHOOSE r \in ChildRelationship(query.from, item.query.from) : TRUE
            IN  [path |-> [via |-> <<>>, field |-> reference[2]], function |-> None,
                 query |-> SoqlRequest(OfChild(query.from, item.query), now), name |-> item.query.from]
        Item(i) ==
            CASE query.select[i].query # None    -> Child(query.select[i])
              [] query.select[i].function # None -> [query.select[i] EXCEPT !.name = AliasOf(query.select, i)]
              [] OTHER                           -> [query.select[i] EXCEPT !.name = query.select[i].path.field]
    IN  [object |-> query.from, select |-> [i \in DOMAIN query.select |-> Item(i)],
         condition |-> QueryCondition(query.where, query.select), groupBy |-> query.groupBy,
         having |-> QueryCondition(query.having, query.select), orderBy |-> query.orderBy,
         limit |-> QueryUsize(query.limit, None), offset |-> QueryUsize(query.offset, 0),
         count |-> ResultKind(query, None) = "Count", visible |-> None, now |-> now]

-----------------------------------------------------------------------------
(* Values: [type, rows], the rows of records with the records and lists of  *)
(* children they hold.                                                      *)

Raised == [type |-> <<"QueryException">>, rows |-> <<>>]

RECURSIVE AllocateQueryRecord(_, _)
AllocateQueryRecord(db, row) ==
    LET object == db[row.id].object
        Children(name) ==
            [type |-> <<"List", (CHOOSE r \in ChildRelationship(object, name) : TRUE)[1]>>,
             rows |-> [i \in DOMAIN row.children[name] |-> AllocateQueryRecord(db, row.children[name][i])]]
    IN  [id |-> row.id, object |-> object, fields |-> row.fields,
         related |-> [f \in DOMAIN row.related |-> AllocateQueryRecord(db, row.related[f])],
         children |-> [name \in DOMAIN row.children |-> Children(name)]]

Records(db, rows) == [i \in DOMAIN rows |-> AllocateQueryRecord(db, rows[i])]

\* The value of a request of a query whose result is of the given kind.
ValueOfRecords(records, kind, nullAware) ==
    LET element == IF records = <<>> THEN "SObject" ELSE records[1].object
    IN  CASE kind = "Records"     -> [type |-> <<"List", element>>, rows |-> records]
          [] Len(records) = 1     -> [type |-> <<element>>, rows |-> records]
          [] records = <<>> /\ nullAware -> [type |-> <<"Null">>, rows |-> <<>>]
          [] OTHER                -> Raised

ValueOfRows(db, rows, kind, nullAware) ==
    CASE kind = "Count"      -> [type |-> <<"Integer">>, rows |-> rows]
      [] kind = "Aggregates" -> [type |-> <<"List", "AggregateResult">>, rows |-> rows]
      [] OTHER               -> ValueOfRecords(Records(db, rows), kind, nullAware)

EvaluateSoql(db, query, kind, nullAware, now) ==
    IF Evaluates(query) THEN ValueOfRows(db, ExecuteSoql(db, SoqlRequest(query, now)), kind, nullAware) ELSE Raised

RECURSIVE BindsAreVariables(_)
BindsAreVariables(condition) ==
    CASE condition = None             -> TRUE
      [] condition.op \in Connectives -> \A i \in DOMAIN condition.args : BindsAreVariables(condition.args[i])
      [] OTHER                        -> condition.right.of # "expression"

DynamicAccepted(query, method) ==
    /\ QueryAccepted(query)
    /\ BindsAreVariables(query.where) /\ BindsAreVariables(query.having)
    /\ \A value \in {query.limit, query.offset} : value = None \/ value.of # "expression"
    /\ ResultKind(query, None) = IF method = "countQuery" THEN "Count" ELSE "Records"

\* The type of a call of a method of Database where `expected` is wanted.
DatabaseQueryType(method, expected) ==
    CASE method = "countQuery"      -> <<"Integer">>
      [] method = "getQueryLocator" -> <<"QueryLocator">>
      [] OTHER                      -> <<"List", IF expected = None THEN "SObject" ELSE expected>>

\* Its value: the text is checked as it is evaluated, and a list of records is
\* given the type that was wanted.
Retyped(value, method, expected) ==
    CASE value = Raised                           -> Raised
      [] method = "getQueryLocator"               -> [value EXCEPT !.type = <<"QueryLocator">>]
      [] method = "query" /\ expected # None      -> [value EXCEPT !.type = <<"List", expected>>]
      [] OTHER                                    -> value

EvaluateDatabaseQuery(value, query, method, expected) ==
    IF DynamicAccepted(query, method) THEN Retyped(value, method, expected) ELSE Raised

EvaluateSosl(db, search) ==
    LET clauses == search.returning
        Request(clause) == SoqlRequest(clause, 0)
        Lists(groups) == [type |-> <<"List", "List", "SObject">>, rows |-> [i \in DOMAIN groups |-> Records(db, groups[i])]]
    IN  IF search.needle.is[1].kind # "String" \/ \E i \in DOMAIN clauses : ~ Evaluates(clauses[i]) THEN Raised
        ELSE Lists(ExecuteSosl(db, [needle |-> search.needle.is[1].is, nameFieldsOnly |-> search.nameFieldsOnly,
                                    returning |-> [i \in DOMAIN clauses |-> Request(clauses[i])]]))
=============================================================================
