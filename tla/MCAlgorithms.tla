---------------------------- MODULE MCAlgorithms ----------------------------
(***************************************************************************)
(* Every pure algorithm of the chosen topics on every input of its module.  *)
(***************************************************************************)
EXTENDS MCIntrinsics, MCQueryPlans, MCValueGraphs, MCParser

CONSTANT Topics   \* the algorithms to run

MCNames ==
    {"a", "b", "A", "B", "Integer", "String", "Exception", "List", "Set", "Map"} \cup
    {"select", "from", "where", "with", "group", "having", "order", "by", "limit", "offset", "asc", "desc", "nulls",
     "first", "last", "and", "or", "not", "in", "like", "find", "fields", "returning", "all", "name", "today",
     "last_n_days", "count", "sum", "user_mode"} \cup
    {"this", "super", "System", "runAs", "as", "user", "insert", "update", "upsert", "delete", "undelete", "on", "get",
     "set", "enum", "sharing", "trigger", "before", "after", "future", "IsTest", "SeeAllData"}

MCReferences == [contact |-> {"account"}, account |-> {"parent"}]

\* The months of 1969 to 1973, counted in days from the first of 1970.
MCMonthStart ==
    LET days == <<31, 28, 31, 30, 31, 30, 31, 31, 30, 31, 30, 31>>
        First[m \in 0 .. 60] ==
            IF m = 0 THEN -365 ELSE First[m - 1] + days[((m - 1) % 12) + 1] + IF m - 1 = 37 THEN 1 ELSE 0
    IN  First

Init ==
    /\ outcome = Pending
    /\ \/ "hierarchy" \in Topics /\ (ProgramInit \/ OverloadInit)
       \/ "typing" \in Topics /\ (ExpressionInit \/ BodyInit)
       \/ "methods" \in Topics /\ (CallInit \/ StringInit)
       \/ "queries" \in Topics /\ (QueryInit \/ SearchInit)
       \/ "plans" \in Topics /\ PlanInit
       \/ "sources" \in Topics /\ TextInit
       \/ "values" \in Topics /\ (EqualityInit \/ RenderInit)

Next ==
    /\ outcome = Pending
    /\ \/ CheckProgram \/ SelectOverload \/ EvaluateExpression \/ CheckAndRunBody \/ RunCall \/ CallText
       \/ AnswerQuery \/ AnswerSearch \/ AnswerPlan \/ AnswerFind \/ CompareGraphs \/ RenderGraph \/ ReadText
    /\ UNCHANGED subject

Spec == Init /\ [][Next]_vars
=============================================================================
