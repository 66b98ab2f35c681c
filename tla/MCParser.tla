------------------------------ MODULE MCParser ------------------------------
(***************************************************************************)
(* The parser on the text of every tree of a bounded size. The writer below *)
(* is the grammar the language documents, read the other way: precedence    *)
(* and associativity say where parentheses are, and only there.             *)
(***************************************************************************)
EXTENDS Subjects, Naturals

CONSTANTS Names, Builtins, Constructed   \* the words of source texts

Source == INSTANCE Parser

Node(op, name, args) == Source!Node(op, name, args)
L(nodes) == Source!List(nodes)
Absent == L(<<>>)
Word(word) == Node("name", <<word>>, <<>>)

RECURSIVE Joined(_, _), Concat(_)
Concat(texts) == IF texts = <<>> THEN <<>> ELSE Head(texts) \o Concat(Tail(texts))
Joined(texts, separator) ==
    IF Len(texts) <= 1 THEN Concat(texts) ELSE Head(texts) \o <<separator>> \o Joined(Tail(texts), separator)

-----------------------------------------------------------------------------
(* Where parentheses are: the rank of a construct, loosest first.           *)

Rank(e) ==
    CASE e.op = "assign"                           -> 0
      [] e.op = "conditional"                      -> 1
      [] e.op = "binary"                           -> 1 + (CHOOSE l \in DOMAIN Source!Levels : e.name[1] \in Source!Levels[l])
      [] e.op \in {"unary", "cast"}                -> 13
      [] e.op \in {"postfix", "index", "member", "method"} -> 14
      [] e.op = "or"                               -> 1
      [] e.op = "and"                              -> 2
      [] e.op = "not"                              -> 3
      [] OTHER                                     -> 15

\* The navigation that the rest of a chain takes over.
RECURSIVE Navigation(_), Spelled(_), IsOpen(_)
Navigation(e) ==
    CASE e.op \in {"member", "method"} -> e.name[1]
      [] e.op = "postfix"              -> Navigation(e.args[1])
      [] OTHER                         -> "."

\* > characters that follow one another are one token.
RECURSIVE Fused(_)
Fused(ts) ==
    CASE Len(ts) >= 3 /\ SubSeq(ts, 1, 3) = <<">", ">", ">">> -> <<">>>">> \o Fused(SubSeq(ts, 4, Len(ts)))
      [] Len(ts) >= 2 /\ SubSeq(ts, 1, 2) = <<">", ">">>      -> <<">>">> \o Fused(SubSeq(ts, 3, Len(ts)))
      [] ts = <<>> -> ts
      [] OTHER     -> <<Head(ts)>> \o Fused(Tail(ts))

\* An else belongs to the nearest if: the then-branch must not end in another.
IsOpen(s) ==
    CASE s.op = "if"                             -> s.args[3] = Absent \/ IsOpen(s.args[3].args[1])
      [] s.op \in {"while", "for", "foreach"}    -> IsOpen(s.args[Len(s.args)])
      [] OTHER                                   -> FALSE

Spelled(e) ==
    LET W(i) == Spelled(e.args[i])
        Paren(x) == <<"(">> \o Spelled(x) \o <<")">>
        Operand(i, least) == IF Rank(e.args[i]) < least THEN Paren(e.args[i]) ELSE W(i)
        Receiver(nav) == IF Rank(e.args[1]) < 14 \/ (Navigation(e.args[1]) = "?." /\ nav = "") THEN Paren(e.args[1]) ELSE W(1)
        Nav == IF Navigation(e.args[1]) = "?." /\ e.name[1] = "?." THEN "." ELSE e.name[1]
        Commas(i) == Joined([k \in DOMAIN e.args[i].args |-> Spelled(e.args[i].args[k])], ",")
        All(i) == Concat([k \in DOMAIN e.args[i].args |-> Spelled(e.args[i].args[k])])
        IfAny(i, words) == IF e.args[i] = Absent THEN <<>> ELSE words
        Clause(i, words) == IfAny(i, words \o All(i))
        Listed(i, words) == IfAny(i, words \o Joined([k \in DOMAIN e.args[i].args[1].args |-> Spelled(e.args[i].args[1].args[k])], ","))
        Prefix == All(1) \o All(2)
    IN  CASE e.op \in {"list", "event"} -> IF e.op = "list" THEN Concat([i \in DOMAIN e.args |-> W(i)]) ELSE e.name
          [] e.op \in {"literal", "variable", "name"} -> e.name
          [] e.op = "type" -> Joined([i \in DOMAIN e.name |-> <<e.name[i]>>], ".") \o
                              (IF e.args = <<>> THEN <<>>
                               ELSE Fused(<<"<">> \o Joined([i \in DOMAIN e.args |-> W(i)], ",") \o <<">">>))
          [] e.op = "path" -> Joined([i \in DOMAIN e.name |-> <<e.name[i]>>], ".")
          \* expressions
          [] e.op = "group"       -> Paren(e.args[1])
          [] e.op = "assign"      -> W(1) \o e.name \o W(2)
          [] e.op = "conditional" -> Operand(1, 2) \o <<"?">> \o W(2) \o <<":">> \o Operand(3, 1)
          [] e.op = "binary"      -> (IF e.name = <<"<">> /\ e.args[1].name = <<"instanceof">> THEN Paren(e.args[1])
                                      ELSE Operand(1, Rank(e))) \o e.name \o
                                     (IF e.name = <<"instanceof">> THEN W(2) ELSE Operand(2, Rank(e) + 1))
          [] e.op = "unary"       -> e.name \o Operand(1, 13)
          [] e.op = "cast"        -> LET operand == Operand(2, 13)
                                         isSigned == Head(operand) \in {"+", "-", "++", "--"}
                                         isNumeric == e.args[1].name = <<"Integer">>
                                     IN  Paren(e.args[1]) \o
                                         (IF isSigned /\ ~ isNumeric THEN <<"(">> \o operand \o <<")">> ELSE operand)
          [] e.op = "postfix"     -> Operand(1, 14) \o e.name
          [] e.op = "index"       -> Receiver("") \o <<"[">> \o W(2) \o <<"]">>
          [] e.op = "member"      -> Receiver(IF e.name[1] = "." THEN "" ELSE "?.") \o <<Nav, e.name[2]>>
          [] e.op = "method"      -> Receiver(IF e.name[1] = "." THEN "" ELSE "?.") \o <<Nav, e.name[2], "(">> \o Listed(2, <<>>) \o <<")">>
          [] e.op = "function"    -> e.name \o <<"(">> \o Listed(1, <<>>) \o <<")">>
          [] e.op = "class" /\ e.name = <<>> -> W(1) \o <<".", "class">>
          [] e.op = "new"         -> CASE e.name = <<"size">> -> <<"new">> \o Spelled(e.args[1].args[1]) \o <<"[">> \o All(2) \o <<"]">>
                                       [] e.name = <<"arguments">> -> <<"new">> \o W(1) \o <<"(">> \o Listed(2, <<>>) \o <<")">>
                                       [] OTHER -> <<"new">> \o W(1) \o <<"{">> \o Listed(2, <<>>) \o <<"}">>
          [] e.op = "entry"       -> W(1) \o <<"=>">> \o W(2)
          \* queries
          [] e.op = "query"       -> <<"[">> \o W(1) \o <<"]">>
          [] e.op = "soql"        -> <<"select">> \o Commas(1) \o <<"from">> \o W(2) \o Clause(3, <<"where">>) \o W(4) \o
                                     Listed(5, <<"group", "by">>) \o Clause(6, <<"having">>) \o Listed(7, <<"order", "by">>) \o
                                     Clause(8, <<"limit">>) \o Clause(9, <<"offset">>)
          [] e.op = "sosl"        -> <<"find">> \o W(1) \o <<"in">> \o W(2) \o <<"fields", "returning">> \o Commas(3)
          [] e.op = "returning"   -> W(1) \o <<"(">> \o Commas(2) \o Clause(3, <<"where">>) \o Listed(4, <<"order", "by">>) \o
                                     Clause(5, <<"limit">>) \o <<")">>
          [] e.op = "access"      -> IF e.name = <<"default">> THEN <<>> ELSE <<"with">> \o e.name
          [] e.op = "scope"       -> e.name
          [] e.op = "child"       -> Paren(e.args[1])
          [] e.op = "aggregate"   -> e.name \o <<"(">> \o All(1) \o <<")">>
          [] e.op = "alias"       -> W(1) \o e.name
          [] e.op \in {"or", "and"} -> Operand(1, Rank(e)) \o <<e.op>> \o Operand(2, Rank(e) + 1)
          [] e.op = "not"         -> <<"not">> \o Operand(1, 3)
          [] e.op = "compare"     -> W(1) \o e.name \o W(2)
          [] e.op \in {"in", "not in"} -> W(1) \o (IF e.op = "in" THEN <<"in">> ELSE <<"not", "in">>) \o
                                     (IF e.args[2].op = "bind" THEN W(2) ELSE <<"(">> \o Listed(2, <<>>) \o <<")">>)
          [] e.op = "date"        -> e.name \o <<":", "1">>
          [] e.op = "bind"        -> <<":">> \o W(1)
          [] e.op = "ordering"    -> W(1) \o <<e.name[1]>> \o (IF Len(e.name) = 1 THEN <<>> ELSE <<"nulls", e.name[2]>>)
          \* statements
          [] e.op \in {"break", "continue"} -> <<e.op, ";">>
          [] e.op = "evaluate"    -> W(1) \o <<";">>
          [] e.op = "declare"     -> All(1) \o W(2) \o Commas(3) \o <<";">>
          [] e.op = "declarator"  -> W(1) \o Clause(2, <<"=">>)
          [] e.op = "block"       -> <<"{">> \o All(1) \o <<"}">>
          [] e.op = "if"          -> <<"if">> \o Paren(e.args[1]) \o W(2) \o Clause(3, <<"else">>)
          [] e.op = "while"       -> <<"while">> \o Paren(e.args[1]) \o W(2)
          [] e.op = "do"          -> <<"do">> \o W(1) \o <<"while">> \o Paren(e.args[2]) \o <<";">>
          [] e.op = "for"         -> <<"for", "(">> \o
                                     (CASE e.args[1] = Absent -> <<";">>
                                        [] e.args[1].args[1].op = "declare" -> All(1)
                                        [] OTHER -> Listed(1, <<>>) \o <<";">>) \o
                                     All(2) \o <<";">> \o Listed(3, <<>>) \o <<")">> \o W(4)
          [] e.op = "foreach"     -> <<"for", "(">> \o W(1) \o W(2) \o <<":">> \o W(3) \o <<")">> \o W(4)
          [] e.op = "switch"      -> <<"switch", "on">> \o W(1) \o <<"{">> \o All(2) \o <<"}">>
          [] e.op = "when"        -> <<"when">> \o Commas(1) \o W(2)
          [] e.op = "else"        -> <<"when", "else">> \o W(1)
          [] e.op = "try"         -> <<"try">> \o W(1) \o All(2) \o Clause(3, <<"finally">>)
          [] e.op = "catch"       -> <<"catch", "(">> \o W(1) \o W(2) \o <<")">> \o W(3)
          [] e.op \in {"throw", "return"} -> <<e.op>> \o (IF e.op = "throw" THEN W(1) ELSE All(1)) \o <<";">>
          [] e.op = "runAs"       -> <<"System", ".", "runAs">> \o Paren(e.args[1]) \o W(2)
          [] e.op = "dml"         -> e.name \o W(1) \o W(2) \o (IF e.name = <<"upsert">> THEN W(3) ELSE <<>>) \o <<";">>
          [] e.op = "mode"        -> IF e.name = <<"default">> THEN <<>> ELSE <<"as">> \o e.name
          \* declarations
          [] e.op = "annotation"  -> <<"@">> \o e.name \o (IF e.args = <<>> THEN <<>> ELSE <<"(">> \o Concat([i \in DOMAIN e.args |-> W(i)]) \o <<")">>)
          [] e.op = "argument"    -> (IF e.name = <<>> THEN <<>> ELSE e.name \o <<"=">>) \o W(1)
          [] e.op \in {"with", "inherited"} -> <<e.op, "sharing">>
          [] e.op \in Source!SimpleModifiers -> <<e.op>>
          [] e.op = "parameter"   -> W(1) \o W(2)
          [] e.op = "field"       -> Prefix \o W(3) \o Commas(4) \o <<";">>
          [] e.op = "property"    -> Prefix \o W(3) \o e.name \o <<"{">> \o All(4) \o <<"}">>
          [] e.op = "accessor"    -> Tail(e.name) \o <<Head(e.name)>> \o (IF e.args[1] = Absent THEN <<";">> ELSE W(1))
          [] e.op = "initializer" -> e.name \o W(1)
          [] e.op = "methodDeclaration" -> Prefix \o W(3) \o e.name \o <<"(">> \o Listed(4, <<>>) \o <<")">> \o
                                     (IF e.args[5] = Absent THEN <<";">> ELSE W(5))
          [] e.op = "constructor" -> Prefix \o e.name \o <<"(">> \o Listed(3, <<>>) \o <<")", "{">> \o
                                     Clause(4, <<>>) \o IfAny(4, <<";">>) \o Concat([i \in DOMAIN e.args[5].args[1].args |-> Spelled(e.args[5].args[1].args[i])]) \o <<"}">>
          [] e.op = "trigger"     -> <<"trigger">> \o W(1) \o <<"on">> \o W(2) \o <<"(">> \o Commas(3) \o <<")">> \o W(4)
          [] e.op = "routine" -> W(1) \o W(2) \o <<"(">> \o Listed(3, <<>>) \o <<")">> \o W(4)
          \* e.args: annotations, modifiers, extends, implements, constants, members, nested types
          [] e.op \in {"class", "interface", "enum"} ->
                Prefix \o <<e.op, e.name[Len(e.name)]>> \o Clause(3, <<"extends">>) \o Listed(4, <<"implements">>) \o
                <<"{">> \o Commas(5) \o (IF e.op = "enum" /\ <<e.args[6], e.args[7]>> # <<Absent, Absent>> THEN <<";">> ELSE <<>>) \o All(6) \o All(7) \o <<"}">>

-----------------------------------------------------------------------------
(* Expressions: every construct in every place of another.                  *)

Var(word) == Node("variable", <<word>>, <<>>)
One == Node("literal", <<"1">>, <<>>)
Type(word) == Node("type", <<word>>, <<>>)
Of(word, types) == Node("type", <<word>>, types)
Arguments(nodes) == IF nodes = <<>> THEN Absent ELSE L(<<L(nodes)>>)
Call(nodes) == Node("function", <<"b">>, <<Arguments(nodes)>>)

Infixes == {"??", "||", "&&", "|", "^", "&", "==", "<", ">", ">>", "+", "-", "*"}

OverOne(e) ==
    {Node("unary", <<op>>, <<e>>) : op \in {"-", "!", "++"}} \cup
    {Node("cast", <<>>, <<type, e>>) : type \in {Type("Integer"), Type("A")}} \cup
    {Node("member", <<nav, "b">>, <<e>>) : nav \in {".", "?."}} \cup
    {Node("postfix", <<"++">>, <<e>>), Node("index", <<>>, <<e, One>>),
     Node("method", <<"?.", "b">>, <<e, Arguments(<<One>>)>>), Node("binary", <<"instanceof">>, <<e, Type("A")>>),
     Call(<<e>>)}

OverTwo(l, r) ==
    {Node("binary", <<op>>, <<l, r>>) : op \in Infixes} \cup
    {Node("conditional", <<>>, <<One, l, r>>), Node("conditional", <<>>, <<l, r, One>>),
     Node("index", <<>>, <<l, r>>)} \cup
    {Node("assign", <<op>>, <<l, r>>) : op \in IF l.op \in {"variable", "index"} THEN {"=", ">>="} ELSE {}}

\* Nodes that wrap a group are written with it; the tree does not keep it.
Group(e) == Node("group", <<>>, <<e>>)
RECURSIVE Ungrouped(_)
Ungrouped(e) ==
    IF e.op = "group" THEN Ungrouped(e.args[1]) ELSE [e EXCEPT !.args = [i \in DOMAIN @ |-> Ungrouped(@[i])]]

Primaries == {Var("a"), One, Group(Var("a")), Node("class", <<>>, <<Of("List", <<Of("List", <<Type("A")>>)>>)>>),
          Node("new", <<"arguments">>, <<Type("A"), Absent>>),
          Node("new", <<"size">>, <<Of("List", <<Type("A")>>), L(<<One>>)>>),
          Node("new", <<"elements">>, <<Of("Set", <<Of("List", <<Type("String")>>)>>), Arguments(<<One, One>>)>>),
          Node("new", <<"entries">>, <<Of("Map", <<Type("A"), Of("Map", <<Type("A"), Of("Set", <<Type("A")>>)>>)>>),
                                       Arguments(<<Node("entry", <<>>, <<Var("a"), One>>)>>)>>)}

Deeper == UNION {OverOne(e) : e \in Primaries} \cup OverTwo(Var("a"), One) \cup OverTwo(Group(Var("a")), Var("b"))

TreeIs(what, e) == Poses("source", [what |-> what, tree |-> e])

TextExpressionInit ==
    \/ \E e \in Primaries \cup Deeper : TreeIs("expression", e)
    \/ \E e \in Deeper : \E f \in OverOne(e) : TreeIs("expression", f)
    \/ \E e \in OverOne(Var("a")) \cup OverTwo(Var("a"), One) : \E f \in OverOne(e) : \E g \in OverOne(f) : TreeIs("expression", g)
    \/ \E e \in Deeper : \E f \in OverTwo(e, Var("a")) \cup OverTwo(Var("a"), e) : TreeIs("expression", f)
    \/ \E e, f \in OverTwo(Var("a"), One) : \E g \in OverTwo(e, f) : TreeIs("expression", g)

-----------------------------------------------------------------------------
(* Queries: a clause of each kind at a time, and conditions up to three deep. *)

PathTree(names) == Node("path", names, <<>>)
Bind == Node("bind", <<>>, <<Var("b")>>)
Comparing(op, value) == Node("compare", <<op>>, <<PathTree(<<"a">>), value>>)

Predicates ==
    {Comparing("=", One), Comparing("like", Bind), Comparing("<", Node("date", <<"last_n_days">>, <<>>)),
     Node("not in", <<>>, <<PathTree(<<"a", "b">>), Bind>>), Node("in", <<>>, <<PathTree(<<"a">>), Arguments(<<One, One>>)>>)}

OverCondition(l, r) == {Node("not", <<>>, <<l>>)} \cup {Node(op, <<>>, <<l, r>>) : op \in {"and", "or"}}

WhereTrees ==
    LET two == UNION {OverCondition(p, Comparing("=", One)) : p \in Predicates}
    IN  Predicates \cup two \cup UNION {OverCondition(c, d) : c \in two, d \in two}

SoqlTree(items, where, access, group, having, order, limit, offset) ==
    Node("soql", <<>>, <<L(items), Word("A"), where, Node("access", <<access>>, <<>>), group, having, order, limit, offset>>)

Simply(items) == SoqlTree(items, Absent, "default", Absent, Absent, Absent, Absent, Absent)
Count == Node("aggregate", <<"count">>, <<Absent>>)
Sum == Node("aggregate", <<"sum">>, <<L(<<PathTree(<<"b">>)>>)>>)
Orderings == {<<"asc">>, <<"desc">>, <<"asc", "first">>, <<"desc", "last">>}
Ordered(way) == Arguments(<<Node("ordering", way, <<PathTree(<<"a", "b">>)>>), Node("ordering", <<"asc">>, <<PathTree(<<"b">>)>>)>>)
Find(returned) == Node("sosl", <<>>, <<Bind, Node("scope", <<"all">>, <<>>), L(returned)>>)
Returned(where, order, limit) == Node("returning", <<>>, <<Word("A"), L(<<PathTree(<<"a">>), PathTree(<<"b">>)>>), where, order, limit>>)

Queries ==
    {Simply(<<PathTree(<<"a">>), PathTree(<<"a", "b">>), Node("child", <<>>, <<Simply(<<PathTree(<<"b">>)>>)>>)>>),
     Simply(<<Count>>), Simply(<<Node("alias", <<"all">>, <<Sum>>), Count>>),
     SoqlTree(<<PathTree(<<"a">>), Sum>>, L(<<Comparing("=", Bind)>>), "user_mode", Arguments(<<PathTree(<<"a">>), PathTree(<<"b">>)>>),
          L(<<Node("and", <<>>, <<Node("compare", <<">">>, <<Sum, One>>), Node("compare", <<"<">>, <<Count, Bind>>)>>)>>),
          Ordered(<<"desc">>), L(<<One>>), L(<<Bind>>))} \cup
    {SoqlTree(<<PathTree(<<"a">>)>>, L(<<c>>), "default", Absent, Absent, Absent, Absent, Absent) : c \in WhereTrees} \cup
    {SoqlTree(<<PathTree(<<"a">>)>>, Absent, access, Absent, Absent, Ordered(way), limit, Absent) :
        access \in {"default", "user_mode"}, way \in Orderings, limit \in {Absent, L(<<Bind>>)}} \cup
    {Find(<<Returned(Absent, Absent, Absent), Returned(where, Ordered(way), L(<<One>>))>>) :
        where \in {Absent, L(<<Comparing("=", One)>>)}, way \in Orderings}

TextQueryInit ==
    \E q \in Queries :
        LET query == Node("query", <<>>, <<q>>)
        IN  \/ TreeIs("expression", query)
            \/ TreeIs("expression", Node("cast", <<>>, <<Of("List", <<Type("A")>>), query>>))
            \/ TreeIs("expression", Node("member", <<".", "a">>, <<Node("index", <<>>, <<query, One>>)>>))

-----------------------------------------------------------------------------
(* Statements, up to three deep.                                            *)

Block(statements) == Node("block", <<>>, <<L(statements)>>)
Assign == Node("assign", <<"=">>, <<Var("a"), Node("cast", <<>>, <<Type("A"), Var("b")>>)>>)
Evaluate == Node("evaluate", <<>>, <<Assign>>)
Declare(modifiers, type, initials) ==
    Node("declare", <<>>, <<L(modifiers), type, L([i \in DOMAIN initials |-> Node("declarator", <<>>, <<Word("a"), initials[i]>>)])>>)

DeclareTrees ==
    {Declare(<<>>, Type("A"), <<L(<<Var("b")>>)>>),
     Declare(<<Node("final", <<>>, <<>>)>>, Of("Map", <<Type("A"), Of("List", <<Type("A")>>)>>), <<Absent, L(<<One>>)>>)}

Dml(word, mode, id) ==
    Node("dml", <<word>>, <<Node("mode", <<mode>>, <<>>), Var("a")>> \o (IF word = "upsert" THEN <<id>> ELSE <<>>))

SimpleStatements ==
    DeclareTrees \cup
    {Evaluate, Node("break", <<>>, <<>>), Node("return", <<>>, <<Absent>>), Node("return", <<>>, <<L(<<Assign>>)>>),
     Node("throw", <<>>, <<Var("a")>>), Block(<<>>)} \cup
    {Dml(word, mode, id) : word \in {"insert", "upsert"}, mode \in {"default", "user"}, id \in {Absent, Word("b")}}

When(statement) == Node("when", <<>>, <<L(<<One, Var("a")>>), Block(<<statement>>)>>)
Catch(statement) == Node("catch", <<>>, <<Type("Exception"), Word("b"), Block(<<statement>>)>>)
Else(statement) == Node("else", <<>>, <<Block(<<statement>>)>>)

OverStatement(s, t) ==
    {Block(<<s, t>>), Node("if", <<>>, <<Var("a"), s, Absent>>), Node("if", <<>>, <<Var("a"), s, L(<<t>>)>>),
     Node("while", <<>>, <<Var("a"), s>>), Node("do", <<>>, <<s, Var("a")>>),
     Node("switch", <<>>, <<Var("a"), L(<<When(s), Else(t)>>)>>), Node("switch", <<>>, <<Call(<<>>), L(<<When(s), When(t)>>)>>),
     Node("foreach", <<>>, <<Of("List", <<Type("A")>>), Word("a"), Var("b"), s>>),
     Node("for", <<>>, <<Absent, Absent, Absent, s>>),
     Node("for", <<>>, <<L(<<L(<<Assign, Assign>>)>>), L(<<Var("a")>>), Arguments(<<Assign, Assign>>), s>>),
     Node("try", <<>>, <<Block(<<s>>), L(<<Catch(t), Catch(s)>>), L(<<Block(<<t>>)>>)>>),
     Node("try", <<>>, <<Block(<<s>>), L(<<Catch(t)>>), Absent>>), Node("try", <<>>, <<Block(<<s>>), Absent, L(<<Block(<<t>>)>>)>>),
     Node("runAs", <<>>, <<Var("a"), Block(<<s>>)>>)} \cup
    {Node("for", <<>>, <<L(<<d>>), Absent, Absent, s>>) : d \in DeclareTrees}

RECURSIVE CanBeWritten(_)
CanBeWritten(s) ==
    /\ s.op = "if" /\ s.args[3] # Absent => ~ IsOpen(s.args[2])
    /\ \A i \in DOMAIN s.args : CanBeWritten(s.args[i])

TextStatementInit ==
    LET deeper == OverStatement(Evaluate, Block(<<>>)) IN
    \/ \E s \in SimpleStatements : TreeIs("statement", s) \/ \E t \in OverStatement(s, Evaluate) : TreeIs("statement", t)
    \/ \E s, t \in deeper : \E u \in OverStatement(s, t) : CanBeWritten(u) /\ TreeIs("statement", u)

-----------------------------------------------------------------------------
(* Declarations, and programs of up to three units.                         *)

Is(word) == Node(word, <<>>, <<>>)
Annotation(word, given) == Node("annotation", <<word>>, given)
SeeAllData == Annotation("IsTest", <<Node("argument", <<"SeeAllData">>, <<Node("literal", <<"true">>, <<>>)>>)>>)
Parameter(type, word) == Node("parameter", <<>>, <<type, Word(word)>>)
OneParameter == Arguments(<<Parameter(Of("List", <<Type("A")>>), "a")>>)

Member(op, name, annotations, modifiers, parts) == Node(op, <<name>>, <<L(annotations), L(modifiers)>> \o parts)
MethodTree(annotations, modifiers, returns, parameters, body) ==
    Member("methodDeclaration", "a", annotations, modifiers, <<returns, parameters, body>>)

Members(class) ==
    {MethodTree(annotations, <<Is("public"), Is("static")>>, returns, parameters, body) :
        annotations \in {<<>>, <<SeeAllData>>, <<Annotation("future", <<>>), Annotation("b", <<>>)>>},
        returns \in {Type("void"), Of("List", <<Type("A")>>)}, parameters \in {Absent, OneParameter},
        body \in {Absent, Block(<<Evaluate>>)}} \cup
    {Member("constructor", class, <<>>, <<Is("public")>>,
            <<OneParameter, IF word = "" THEN Absent ELSE L(<<Node("function", <<word>>, <<Arguments(<<One>>)>>)>>), Block(<<Evaluate>>)>>) :
        word \in {"", "this", "super"}} \cup
    {Member("property", "a", <<>>, <<Is("virtual")>>, <<Type("A"),
            L(<<Node("accessor", <<"get">>, <<Absent>>), Node("accessor", <<"set", "private">>, <<body>>)>>)>>) :
        body \in {Absent, Block(<<Evaluate>>)}} \cup
    {Node("field", <<>>, <<Absent, L(<<Is("transient")>>), Of("Map", <<Type("A"), Of("List", <<Type("A")>>)>>),
            L(<<Node("declarator", <<>>, <<Word("get"), initial>>), Node("declarator", <<>>, <<Word("b"), Absent>>)>>)>>) :
        initial \in {Absent, L(<<One>>)}} \cup
    {Node("initializer", words, <<Block(<<Evaluate>>)>>) : words \in {<<>>, <<"static">>}}

TypeTree(kind, path, modifiers, super, interfaces, constants, members, nested) ==
    Node(kind, path, <<Absent, L(modifiers), super, interfaces, constants, L(members), L(nested)>>)

Inner(outer, kind, members, nested) ==
    TypeTree(kind, outer, <<Is("private")>>, Absent, Absent, IF kind = "enum" THEN L(<<Word("a"), Word("b")>>) ELSE Absent, members, nested)

\* Nested types come before the type they are declared in, which comes first.
RECURSIVE Flat(_)
Flat(c) ==
    Append(Concat([i \in DOMAIN c.args[7].args |-> Flat(c.args[7].args[i])]), [c EXCEPT !.args = SubSeq(@, 1, 6)])

ClassTrees ==
    {TypeTree("class", <<"A">>, modifiers, super, interfaces, Absent, <<m>>, <<>>) :
        modifiers \in {<<>>, <<Is("public"), Is("with"), Is("abstract")>>},
        super \in {Absent, L(<<Of("B", <<Of("List", <<Type("A")>>)>>)>>)},
        interfaces \in {Absent, Arguments(<<Type("B"), Of("a", <<Type("A")>>)>>)}, m \in Members("A")} \cup
    {TypeTree("class", <<"A">>, <<>>, Absent, Absent, Absent, <<n>>,
            <<Inner(<<"A", "B">>, kind, <<>>, <<>>),
              Inner(<<"A", "a">>, "class", <<n>>, <<Inner(<<"A", "a", "b">>, "enum", <<m>>, <<>>)>>)>>) :
        kind \in {"class", "interface", "enum"},
        <<m, n>> \in {pair \in Members("b") \X {k \in Members("a") : k.op # "constructor"} :
                        pair[1].op = "initializer" \/ pair[2].op \in {"field", "property"}}} \cup
    {TypeTree("interface", <<"A">>, <<Is("global")>>, super, Absent, Absent, <<MethodTree(<<>>, <<>>, Type("A"), Absent, Absent)>>, <<>>) :
        super \in {Absent, L(<<Type("B")>>)}}

Trigger ==
    Node("trigger", <<>>, <<Word("a"), Type("A"), L(<<Node("event", <<"before", "insert">>, <<>>), Node("event", <<"after", "undelete">>, <<>>)>>),
                            Block(<<Evaluate>>)>>)
Routine == Node("routine", <<>>, <<Type("void"), Word("a"), OneParameter, Block(<<Evaluate>>)>>)
Nested == TypeTree("class", <<"A">>, <<>>, Absent, Absent, Absent, <<>>, <<Inner(<<"A", "B">>, "enum", <<>>, <<>>)>>)

Units ==
    {Trigger, Routine, Nested, Evaluate, Dml("insert", "default", Absent)} \cup DeclareTrees \cup
    (IF "topLevelDml" \in Divergences
     THEN {Node("dml", <<"insert">>, <<Node("mode", <<"default">>, <<>>), Call(<<>>)>>)} ELSE {})

TextDeclarationInit ==
    \/ \E c \in ClassTrees : TreeIs("program", <<c>>)
    \/ \E n \in 0 .. 3 : \E units \in [1 .. n -> Units] : TreeIs("program", units)

-----------------------------------------------------------------------------
TextInit == TextExpressionInit \/ TextStatementInit \/ TextQueryInit \/ TextDeclarationInit

\* What the units of a program are, sorted by their kind.
Sorted(units) ==
    LET Flattened(c) == LET types == Flat(c) IN <<types[Len(types)]>> \o SubSeq(types, 1, Len(types) - 1)
        OfKinds(ops) == SelectSeq(units, LAMBDA u : u.op \in ops)
        types == OfKinds({"class", "interface", "enum"})
        others == {"class", "interface", "enum", "trigger", "routine"}
    IN  [classes |-> Concat([i \in DOMAIN types |-> Flattened(types[i])]), triggers |-> OfKinds({"trigger"}),
         methods |-> OfKinds({"routine"}), statements |-> SelectSeq(units, LAMBDA u : u.op \notin others)]

AsWritten == IF Given.what = "program" THEN Concat([i \in DOMAIN Given.tree |-> Spelled(Given.tree[i])]) ELSE Spelled(Given.tree)
AsRead(result) == IF result.ok THEN <<result.node, result.rest>> ELSE <<"error">>

ReadText == Answers("source", AsRead(Source!ParseText(Given.what, AsWritten)))

\* Text written from a tree by the documented precedences and lookahead rules
\* reads back as that tree, to the last token (parser.rs, parser/).
ParsesWhatIsWritten ==
    About("source") =>
        outcome = <<IF Given.what = "program" THEN Sorted(Given.tree) ELSE Ungrouped(Given.tree), <<>>>>
=============================================================================
