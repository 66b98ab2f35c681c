------------------------------- MODULE Parser -------------------------------
(***************************************************************************)
(* The recursive-descent parser (parser.rs and parser/).                    *)
(*                                                                         *)
(* A token is a string; the tokens of Names are the identifiers, the words  *)
(* that are keywords in queries only among them. A tree is                  *)
(* [op, name, args]: the construct, the words it is written with, and its   *)
(* parts. A function Parse...(ts) reads a tree from the front of the tokens *)
(* and says which are left; the parser's cursor is what is left, and a      *)
(* lookahead is a parse whose result is looked at and dropped.              *)
(***************************************************************************)
EXTENDS Naturals, Sequences, SequencesExt

CONSTANTS
    Names,        \* the identifiers
    Builtins,     \* the names of built-in types that take no type arguments
    Constructed   \* the built-in types made by a constructor: exceptions, Http

Node(op, name, args) == [op |-> op, name |-> name, args |-> args]
List(nodes) == Node("list", <<>>, nodes)
Nothing == List(<<>>)

Parsed(node, rest) == [ok |-> TRUE, node |-> node, rest |-> rest]
Failed == [ok |-> FALSE]

Then(result, Next(_, _)) == IF result.ok THEN Next(result.node, result.rest) ELSE Failed
Peek(ts, offset) == IF offset < Len(ts) THEN ts[offset + 1] ELSE "end"
After(ts, count) == SubSeq(ts, count + 1, Len(ts))

QueryLiterals == {"1", "true", "text", "null"}
Literals == QueryLiterals \cup {"1L", "1.5"}

-----------------------------------------------------------------------------
(* Productions: what a function of the parser that only expects tokens and  *)
(* calls others in a fixed order does. The result lists the trees it reads. *)

Symbol(is, token, symbols) == [is |-> is, token |-> token, symbols |-> symbols]
Token(token) == Symbol("token", token, <<>>)
Tree(what) == Symbol("one", what, <<>>)
CommaList(what) == Symbol("list", what, <<>>)
Until(token, what) == Symbol("until", {token}, <<Tree(what)>>)      \* trees up to a token
While(tokens, what) == Symbol("while", tokens, <<Tree(what)>>)      \* trees that start with one
Optional(symbols) == Symbol("optional", Head(symbols).token, symbols)
Unless(token, symbols) == Symbol("unless", token, symbols)

RECURSIVE Parse(_, _), ParseItems(_, _), ParseRepeated(_, _), ParseAll(_, _)

ParseItems(what, ts) ==
    Then(Parse(what, ts), LAMBDA item, r :
        IF Peek(r, 0) = "," THEN Then(ParseItems(what, Tail(r)), LAMBDA items, s : Parsed(<<item>> \o items, s))
        ELSE Parsed(<<item>>, r))

ParseRepeated(symbol, ts) ==
    IF ts = <<>> \/ (Peek(ts, 0) \in symbol.token) = (symbol.is = "until") THEN Parsed(<<>>, ts)
    ELSE Then(Parse(symbol.symbols[1].token, ts), LAMBDA item, r :
            Then(ParseRepeated(symbol, r), LAMBDA items, s : Parsed(<<item>> \o items, s)))

ParseAll(symbols, ts) ==
    IF symbols = <<>> THEN Parsed(<<>>, ts)
    ELSE LET symbol == Head(symbols)
             isNext == Peek(ts, 0) = symbol.token
             Go(nodes, r) == Then(ParseAll(Tail(symbols), r), LAMBDA more, s : Parsed(nodes \o more, s))
             Listed(nodes, r) == Go(<<List(nodes)>>, r)
         IN  CASE symbol.is = "token" -> IF isNext THEN Go(<<>>, Tail(ts)) ELSE Failed
               [] symbol.is = "one"   -> Then(Parse(symbol.token, ts), LAMBDA node, r : Go(<<node>>, r))
               [] symbol.is = "list"  -> Then(ParseItems(symbol.token, ts), Listed)
               [] symbol.is \in {"until", "while"} -> Then(ParseRepeated(symbol, ts), Listed)
               [] (symbol.is = "optional") # isNext -> Listed(<<>>, ts)
               [] OTHER -> Then(ParseAll(symbol.symbols, ts), Listed)

Production(op, name, symbols, ts) ==
    Then(ParseAll(symbols, ts), LAMBDA nodes, r : Parsed(Node(op, name, nodes), r))
Rule(op, symbols, ts) == Production(op, <<>>, symbols, ts)

\* What the production reads between its tokens.
Inside(symbols, ts) == Then(ParseAll(symbols, ts), LAMBDA nodes, r : Parsed(nodes[1], r))

ParseName(ts) == IF Peek(ts, 0) \in Names THEN Parsed(Node("name", <<Head(ts)>>, <<>>), Tail(ts)) ELSE Failed

ParseArguments(ts) ==
    Inside(<<Token("("), Unless(")", <<CommaList("expression")>>), Token(")")>>, ts)

-----------------------------------------------------------------------------
(* Types. A reference is read whole before its arguments are counted.        *)

RECURSIVE ParseSegments(_), ArraySuffixes(_), IsType(_), TypeOf(_)

ParseSegments(ts) ==
    Then(ParseName(ts), LAMBDA node, r :
        IF Peek(r, 0) = "." /\ Peek(r, 1) \in Names
        THEN Then(ParseSegments(Tail(r)), LAMBDA names, s : Parsed(node.name \o names, s))
        ELSE Parsed(node.name, r))

ArraySuffixes(ts) == IF Peek(ts, 0) = "[" /\ Peek(ts, 1) = "]" THEN 1 + ArraySuffixes(After(ts, 2)) ELSE 0

\* expect_type_greater takes the first > of a token and leaves the rest of it.
Closers == (">" :> <<>>) @@ (">>" :> <<">">>) @@ (">>>" :> <<">>">>) @@
           (">=" :> <<"=">>) @@ (">>=" :> <<">=">>) @@ (">>>=" :> <<">>=">>)

ParseRef(ts) ==
    Then(ParseSegments(ts), LAMBDA names, r :
        LET Whole(args, s) ==
                LET count == ArraySuffixes(s)
                IN  Parsed([name |-> names, args |-> args, suffixes |-> count], After(s, 2 * count))
            Closed(args, s) ==
                IF Peek(s, 0) \in DOMAIN Closers THEN Whole(args, Closers[Head(s)] \o Tail(s)) ELSE Failed
        IN  IF Peek(r, 0) = "<" THEN Then(ParseItems("ref", Tail(r)), Closed) ELSE Whole(<<>>, r))

Arity == [List |-> 1, Set |-> 1, Iterable |-> 1, Map |-> 2]

IsType(ref) ==
    /\ ref.suffixes <= 1
    /\ Len(ref.name) = 1 /\ ref.name[1] \in DOMAIN Arity => Len(ref.args) = Arity[ref.name[1]]
    /\ Len(ref.name) = 1 /\ ref.name[1] \in Builtins => ref.args = <<>>
    /\ \A i \in DOMAIN ref.args : IsType(ref.args[i])

TypeOf(ref) ==
    LET type == Node("type", ref.name, [i \in DOMAIN ref.args |-> TypeOf(ref.args[i])])
    IN  IF ref.suffixes = 0 THEN type ELSE Node("type", <<"List">>, <<type>>)

ParseType(ts) ==
    Then(ParseRef(ts), LAMBDA ref, r : IF IsType(ref) THEN Parsed(TypeOf(ref), r) ELSE Failed)

-----------------------------------------------------------------------------
(* Expressions.                                                             *)

Assignments == {"=", "+=", "-=", "*=", "/=", "%=", "&=", "|=", "^=", "<<=", ">>=", ">>>="}

\* The left-associative operators, loosest first. instanceof takes a type.
Levels == <<{"??"}, {"||"}, {"&&"}, {"|"}, {"^"}, {"&"}, {"==", "!="},
            {"<", "<=", ">", ">=", "instanceof"}, {"<<", ">>", ">>>"}, {"+", "-"}, {"*", "/", "%"}>>

PrefixOperators == {"+", "-", "!", "~", "++", "--"}
UnaryStarts == Names \cup Literals \cup PrefixOperators \cup {"new", "[", "("}
NumericScalars == {"Integer", "Long", "Decimal"}

IsTarget(e) == e.op \in {"variable", "index"} \/ (e.op = "member" /\ e.name[1] = ".")

ParseAssignment(ts) ==
    Then(Parse("conditional", ts), LAMBDA target, r :
        IF Peek(r, 0) \notin Assignments THEN Parsed(target, r)
        ELSE Then(Parse("expression", Tail(r)), LAMBDA value, s :
                IF IsTarget(target) THEN Parsed(Node("assign", <<Head(r)>>, <<target, value>>), s) ELSE Failed))

RECURSIVE ParseLevel(_, _), Continue(_, _, _), Postfixes(_, _, _)

ParseLevel(level, ts) ==
    IF level > Len(Levels) THEN Parse("unary", ts)
    ELSE Then(ParseLevel(level + 1, ts), LAMBDA left, r : Continue(level, left, r))

\* A slip: the right operand takes the operators of its own level as well.
RightAssociative(level, left, ts) ==
    LET op == Peek(ts, 0) IN
    IF op \notin Levels[level] THEN Parsed(left, ts)
    ELSE Then(IF op = "instanceof" THEN ParseType(Tail(ts)) ELSE ParseLevel(level, Tail(ts)),
              LAMBDA right, r : Parsed(Node("binary", <<op>>, <<left, right>>), r))

Continue(level, left, ts) ==
    LET op == Peek(ts, 0) IN
    IF op \notin Levels[level] THEN Parsed(left, ts)
    ELSE Then(IF op = "instanceof" THEN ParseType(Tail(ts)) ELSE ParseLevel(level + 1, Tail(ts)),
              LAMBDA right, r : Continue(level, Node("binary", <<op>>, <<left, right>>), r))

ParseConditional(ts) ==
    Then(ParseLevel(1, ts), LAMBDA condition, r :
        IF Peek(r, 0) # "?" THEN Parsed(condition, r)
        ELSE Then(ParseAll(<<Token("?"), Tree("expression"), Token(":"), Tree("conditional")>>, r),
                  LAMBDA arms, s : Parsed(Node("conditional", <<>>, <<condition>> \o arms), s)))

ParseUnary(ts) ==
    LET op == Peek(ts, 0) IN
    IF op \in PrefixOperators THEN Production("unary", <<op>>, <<Token(op), Tree("unary")>>, ts)
    ELSE Then(Parse("primary", ts), LAMBDA e, r : Postfixes(e, ".", r))

\* From the first ?. of a chain on, every access of it is a safe one.
Postfixes(e, chain, ts) ==
    LET token == Peek(ts, 0)
        navigation == IF token = "?." THEN "?." ELSE chain
        member == Peek(ts, 1)
    IN  CASE token = "[" /\ chain = "." ->
                Then(Inside(<<Token("["), Tree("expression"), Token("]")>>, ts), LAMBDA index, r :
                    Postfixes(Node("index", <<>>, <<e, index>>), chain, r))
          [] token \in {".", "?."} /\ member \in Names \cup {"new"} ->
                IF Peek(ts, 2) = "("
                THEN Then(ParseArguments(After(ts, 2)), LAMBDA args, r :
                        Postfixes(Node("method", <<navigation, member>>, <<e, args>>), navigation, r))
                ELSE Postfixes(Node("member", <<navigation, member>>, <<e>>), navigation, After(ts, 2))
          [] token \in {"++", "--"} -> Postfixes(Node("postfix", <<token>>, <<e>>), chain, Tail(ts))
          [] token \in {"[", ".", "?."} -> Failed
          [] OTHER -> Parsed(e, ts)

\* Whether a parenthesis opens a cast, from the type inside and what follows.
IsCastStart(ts) ==
    LET type == ParseType(Tail(ts))
        r == Tail(type.rest)
        isNumeric == type.node \in {Node("type", <<t>>, <<>>) : t \in NumericScalars}
    IN  /\ type.ok /\ Peek(type.rest, 0) = ")"
        /\ CASE Peek(r, 0) \in {"+", "-"}   -> isNumeric
             [] Peek(r, 0) \in {"++", "--"} -> isNumeric /\ Peek(r, 1) \in UnaryStarts
             [] Peek(r, 0) = "["            -> Peek(r, 1) \in {"select", "find"}
             [] OTHER                       -> Peek(r, 0) \in UnaryStarts

ParseNamed(ts) ==
    LET type == ParseType(ts)
        name == <<Head(ts)>>
    IN  CASE type.ok /\ Peek(type.rest, 0) = "." /\ Peek(type.rest, 1) = "class" ->
                Parsed(Node("class", <<>>, <<type.node>>), After(type.rest, 2))
          [] Peek(ts, 1) = "(" -> Production("function", name, <<Tree("arguments")>>, Tail(ts))
          [] OTHER -> Parsed(Node("variable", name, <<>>), Tail(ts))

ParseEntry(ts) == Rule("entry", <<Tree("expression"), Token("=>"), Tree("expression")>>, ts)

\* A map is written with entries, other collections with elements; an array
\* is a list that is given its elements or its size.
ParseNew(ts) ==
    Then(Inside(<<Token("new"), Tree("type")>>, ts), LAMBDA type, r :
        LET Made(kind, t, open, item, close) ==
                Then(Inside(<<Token(open), Unless(close, <<CommaList(item)>>), Token(close)>>, r),
                     LAMBDA parts, s : Parsed(Node("new", <<kind>>, <<t, parts>>), s))
            isConstructed == type.name \notin {<<t>> : t \in (Builtins \ Constructed) \cup DOMAIN Arity}
        IN  CASE Peek(r, 0) = "[" -> Then(Inside(<<Token("["), Tree("expression"), Token("]")>>, r), LAMBDA size, s :
                    Parsed(Node("new", <<"size">>, <<Node("type", <<"List">>, <<type>>), List(<<size>>)>>), s))
              [] Peek(r, 0) = "(" -> Made("arguments", type, "(", "expression", ")")
              [] Peek(r, 0) = "{" /\ ~ isConstructed ->
                    IF type.name = <<"Map">> THEN Made("entries", type, "{", "entry", "}")
                    ELSE Made("elements", type, "{", "expression", "}")
              [] OTHER -> Failed)

ParsePrimary(ts) ==
    LET token == Peek(ts, 0) IN
    CASE token \in Literals -> Parsed(Node("literal", <<token>>, <<>>), Tail(ts))
      [] token \in Names    -> ParseNamed(ts)
      [] token = "new"      -> ParseNew(ts)
      [] token = "["        -> Parse("query", ts)
      [] token = "("        -> IF IsCastStart(ts)
                               THEN Rule("cast", <<Token("("), Tree("type"), Token(")"), Tree("unary")>>, ts)
                               ELSE Inside(<<Token("("), Tree("expression"), Token(")")>>, ts)
      [] OTHER              -> Failed

-----------------------------------------------------------------------------
(* Queries.                                                                 *)

Aggregates == {"count", "sum", "min", "max"}
Clauses == {"from", "where", "with", "group", "having", "order", "limit", "offset", "asc", "desc", "nulls", "and", "or"}
Comparisons == {"=", "!=", "<", "<=", ">", ">=", "like"}
Dates == {"today", "this_week"}          \* and eleven others that take no amount
RelativeDates == {"last_n_days", "next_n_days"}
Accesses == {"security_enforced", "user_mode", "system_mode"}

RECURSIVE ParsePath(_), Chained(_, _, _, _)

ParsePath(ts) ==
    Then(ParseName(ts), LAMBDA node, r :
        IF Peek(r, 0) # "." THEN Parsed(Node("path", node.name, <<>>), r)
        ELSE Then(ParsePath(Tail(r)), LAMBDA path, s : Parsed(Node("path", node.name \o path.name, <<>>), s)))

ParseAccess(ts) ==
    CASE Peek(ts, 0) # "with"       -> Parsed(Node("access", <<"default">>, <<>>), ts)
      [] Peek(ts, 1) \in Accesses   -> Parsed(Node("access", <<ts[2]>>, <<>>), After(ts, 2))
      [] OTHER                      -> Failed

OrderClause == Optional(<<Token("order"), Token("by"), CommaList("ordering")>>)
ValueClause(word) == Optional(<<Token(word), Tree("value")>>)
ConditionClause(word) == Optional(<<Token(word), Tree("or")>>)

ParseSoqlBody(ts) ==
    Rule("soql", <<Token("select"), CommaList("item"), Token("from"), Tree("name"), ConditionClause("where"), Tree("access"),
                   Optional(<<Token("group"), Token("by"), CommaList("path")>>), ConditionClause("having"),
                   OrderClause, ValueClause("limit"), ValueClause("offset")>>, ts)

ParseSoslBody(ts) ==
    Rule("sosl", <<Token("find"), Tree("value"), Token("in"), Tree("scope"), Token("fields"),
                   Token("returning"), CommaList("returning")>>, ts)

ParseReturning(ts) ==
    Rule("returning", <<Tree("name"), Token("("), CommaList("path"), ConditionClause("where"), OrderClause,
                        ValueClause("limit"), Token(")")>>, ts)

ParseScope(ts) ==
    IF Peek(ts, 0) \in {"all", "name"} THEN Parsed(Node("scope", <<Head(ts)>>, <<>>), Tail(ts)) ELSE Failed

ParseQuery(ts) ==
    Rule("query", <<Token("["), Tree(IF Peek(ts, 1) = "find" THEN "sosl" ELSE "soql"), Token("]")>>, ts)

IsAggregate(ts) == Peek(ts, 0) \in Aggregates /\ Peek(ts, 1) = "("

ParseAggregate(ts) ==
    Production("aggregate", <<Head(ts)>>, <<Token("("), Unless(")", <<Tree("path")>>), Token(")")>>, Tail(ts))

ParseItem(ts) ==
    CASE Peek(ts, 0) = "typeof" -> Failed
      [] Peek(ts, 0) = "("      -> Rule("child", <<Token("("), Tree("soql"), Token(")")>>, ts)
      [] IsAggregate(ts) -> Then(ParseAggregate(ts), LAMBDA e, r :
            IF Peek(r, 0) \in Names \ Clauses THEN Parsed(Node("alias", <<Head(r)>>, <<e>>), Tail(r)) ELSE Parsed(e, r))
      [] OTHER -> ParsePath(ts)

Chained(op, operand, left, ts) ==
    IF Peek(ts, 0) # op THEN Parsed(left, ts)
    ELSE Then(Parse(operand, Tail(ts)), LAMBDA right, r : Chained(op, operand, Node(op, <<>>, <<left, right>>), r))

ParseChain(op, operand, ts) == Then(Parse(operand, ts), LAMBDA left, r : Chained(op, operand, left, r))

ParseComparison(left, ts) ==
    LET op == Peek(ts, 0) IN
    IF op \in Comparisons
    THEN Then(Parse("value", Tail(ts)), LAMBDA right, r : Parsed(Node("compare", <<op>>, <<left, right>>), r))
    ELSE Failed

ParseIn(op, field, ts) ==
    LET Tested(values, r) == Parsed(Node(op, <<>>, <<field, values>>), r) IN
    IF Peek(ts, 0) = ":" THEN Then(Parse("value", ts), Tested)
    ELSE Then(Inside(<<Token("("), Unless(")", <<CommaList("value")>>), Token(")")>>, ts), Tested)

ParsePredicate(ts) ==
    IF IsAggregate(ts) THEN Then(ParseAggregate(ts), ParseComparison)
    ELSE Then(ParsePath(ts), LAMBDA field, r :
            CASE Peek(r, 0) = "not" /\ Peek(r, 1) = "in" -> ParseIn("not in", field, After(r, 2))
              [] Peek(r, 0) = "in"                       -> ParseIn("in", field, Tail(r))
              [] OTHER                                   -> ParseComparison(field, r))

ParseNot(ts) ==
    CASE Peek(ts, 0) = "not" -> Rule("not", <<Token("not"), Tree("not")>>, ts)
      [] Peek(ts, 0) = "("   -> Inside(<<Token("("), Tree("or"), Token(")")>>, ts)
      [] OTHER               -> ParsePredicate(ts)

ParseValue(ts) ==
    LET token == Peek(ts, 0) IN
    CASE token \in QueryLiterals \cup Dates -> Parsed(Node("literal", <<token>>, <<>>), Tail(ts))
      [] token \in RelativeDates            -> Production("date", <<token>>, <<Token(":"), Token("1")>>, Tail(ts))
      [] token = ":"                        -> Rule("bind", <<Token(":"), Tree("expression")>>, ts)
      [] OTHER                              -> Failed

ParseOrdering(ts) ==
    Then(ParsePath(ts), LAMBDA field, r :
        LET way == IF Peek(r, 0) = "desc" THEN "desc" ELSE "asc"
            s == IF Peek(r, 0) \in {"asc", "desc"} THEN Tail(r) ELSE r
        IN  CASE Peek(s, 0) # "nulls" -> Parsed(Node("ordering", <<way>>, <<field>>), s)
              [] Peek(s, 1) \in {"first", "last"} -> Parsed(Node("ordering", <<way, s[2]>>, <<field>>), After(s, 2))
              [] OTHER -> Failed)

-----------------------------------------------------------------------------
(* Statements.                                                              *)

DmlWords == {"insert", "update", "upsert", "delete", "undelete"}

\* A type and a name open a declaration, whatever else they could be.
RECURSIVE IsDeclarationStart(_)
IsDeclarationStart(ts) ==
    LET type == ParseType(ts) IN
    IF Peek(ts, 0) \in {"final", "transient"} THEN IsDeclarationStart(Tail(ts))
    ELSE type.ok /\ Peek(type.rest, 0) \in Names

IsForEachStart(ts) ==
    LET type == ParseType(ts) IN type.ok /\ Peek(type.rest, 0) \in Names /\ Peek(type.rest, 1) = ":"

ParseDeclarator(ts) == Rule("declarator", <<Tree("name"), Optional(<<Token("="), Tree("expression")>>)>>, ts)
Declaration == <<While({"final", "transient"}, "modifier"), Tree("type"), CommaList("declarator")>>
Guarded(word, statement) == <<Token(word), Token("("), Tree("expression"), Token(")"), Tree(statement)>>

ParseDml(ts) ==
    Production("dml", <<Head(ts)>>,
        <<Tree("mode"), Tree("expression")>> \o (IF Head(ts) = "upsert" THEN <<Tree("externalId")>> ELSE <<>>) \o <<Token(";")>>,
        Tail(ts))

ParseMode(ts) ==
    CASE Peek(ts, 0) # "as"                 -> Parsed(Node("mode", <<"default">>, <<>>), ts)
      [] Peek(ts, 1) \in {"user", "system"} -> Parsed(Node("mode", <<ts[2]>>, <<>>), After(ts, 2))
      [] OTHER                              -> Failed

ParseExternalId(ts) == IF Peek(ts, 0) \in Names THEN ParseName(ts) ELSE Parsed(Nothing, ts)

ParseFor(ts) ==
    IF IsForEachStart(After(ts, 2))
    THEN Rule("foreach", <<Token("for"), Token("("), Tree("type"), Tree("name"), Token(":"), Tree("expression"), Token(")"),
                           Tree("statement")>>, ts)
    ELSE Rule("for", <<Token("for"), Token("("), Unless(";", <<Tree("start")>>), Token(";"),
                       Unless(";", <<Tree("expression")>>), Token(";"), Unless(")", <<CommaList("expression")>>), Token(")"),
                       Tree("statement")>>, ts)

ParseStart(ts) ==
    IF IsDeclarationStart(ts) THEN Rule("declare", Declaration, ts) ELSE Inside(<<CommaList("expression")>>, ts)

\* when else is the last arm of a switch, and there is an arm.
RECURSIVE ParseArms(_)
ParseArms(ts) ==
    LET isElse == Peek(ts, 1) = "else"
        arm == IF isElse THEN Rule("else", <<Token("when"), Token("else"), Tree("block")>>, ts)
               ELSE Rule("when", <<Token("when"), CommaList("expression"), Tree("block")>>, ts)
    IN  Then(arm, LAMBDA one, r :
            CASE Peek(r, 0) # "when" -> Parsed(List(<<one>>), r)
              [] isElse              -> Failed
              [] OTHER -> Then(ParseArms(r), LAMBDA more, s : Parsed(List(<<one>> \o more.args), s)))

ParseCatch(ts) == Rule("catch", <<Token("catch"), Token("("), Tree("type"), Tree("name"), Token(")"), Tree("block")>>, ts)

ParseTry(ts) ==
    LET try == Rule("try", <<Token("try"), Tree("block"), While({"catch"}, "catch"),
                             Optional(<<Token("finally"), Tree("block")>>)>>, ts)
    IN  IF try.ok /\ try.node.args[2] = Nothing /\ try.node.args[3] = Nothing THEN Failed ELSE try

ParseBlock(ts) == Rule("block", <<Token("{"), Until("}", "statement"), Token("}")>>, ts)
ParseIf(ts) == Rule("if", Guarded("if", "statement") \o <<Optional(<<Token("else"), Tree("statement")>>)>>, ts)
ParseWhile(ts) == Rule("while", Guarded("while", "statement"), ts)
ParseDoWhile(ts) ==
    Rule("do", <<Token("do"), Tree("statement"), Token("while"), Token("("), Tree("expression"), Token(")"), Token(";")>>, ts)
ParseSwitch(ts) == Rule("switch", <<Token("switch"), Token("on"), Tree("expression"), Token("{"), Tree("arms"), Token("}")>>, ts)
ParseJump(ts) == Rule(Head(ts), <<Token(Head(ts)), Token(";")>>, ts)
ParseThrow(ts) == Rule("throw", <<Token("throw"), Tree("expression"), Token(";")>>, ts)
ParseReturn(ts) == Rule("return", <<Token("return"), Unless(";", <<Tree("expression")>>), Token(";")>>, ts)
ParseExpressionStatement(ts) == Rule("evaluate", <<Tree("expression"), Token(";")>>, ts)

IsRunAsStart(ts) == Len(ts) >= 4 /\ SubSeq(ts, 1, 4) = <<"System", ".", "runAs", "(">>
ParseRunAs(ts) == Rule("runAs", Guarded("runAs", "block"), After(ts, 2))

ParseStatement(ts) ==
    LET token == Peek(ts, 0) IN
    CASE token = "{"               -> ParseBlock(ts)
      [] token = "if"              -> ParseIf(ts)
      [] token = "while"           -> ParseWhile(ts)
      [] token = "do"              -> ParseDoWhile(ts)
      [] token = "switch"          -> ParseSwitch(ts)
      [] token = "for"             -> ParseFor(ts)
      [] token \in {"break", "continue"} -> ParseJump(ts)
      [] token = "try"             -> ParseTry(ts)
      [] token = "throw"           -> ParseThrow(ts)
      [] token = "return"          -> ParseReturn(ts)
      [] IsRunAsStart(ts)          -> ParseRunAs(ts)
      [] token \in DmlWords        -> ParseDml(ts)
      [] IsDeclarationStart(ts)    -> Rule("declare", Declaration \o <<Token(";")>>, ts)
      [] OTHER                     -> ParseExpressionStatement(ts)

-----------------------------------------------------------------------------
(* Declarations.                                                            *)

SimpleModifiers == {"public", "private", "protected", "global", "static", "virtual", "abstract", "override", "final", "transient"}
AccessWords == {"public", "private", "protected", "global"}

RECURSIVE ParseModifiers(_), AfterParens(_, _), AfterAnnotations(_), ParseConstants(_), ParseGiven(_)
RECURSIVE ParseTypeDeclaration(_, _), ParseMembers(_, _)

ParseModifiers(ts) ==
    LET Go(word, r) == Then(ParseModifiers(r), LAMBDA more, s : Parsed(List(<<Node(word, <<>>, <<>>)>> \o more.args), s)) IN
    CASE Peek(ts, 0) \in SimpleModifiers -> Go(Head(ts), Tail(ts))
      [] Peek(ts, 0) \in {"with", "without", "inherited"} /\ Peek(ts, 1) = "sharing" -> Go(Head(ts), After(ts, 2))
      [] OTHER -> Parsed(Nothing, ts)

\* annotation_prefix_end_at: the tokens after the annotations, counting parentheses.
AfterParens(ts, depth) ==
    LET inside == CASE Peek(ts, 0) = "(" -> depth + 1 [] Peek(ts, 0) = ")" -> depth - 1 [] OTHER -> depth IN
    IF ts = <<>> THEN ts ELSE IF inside = 0 THEN Tail(ts) ELSE AfterParens(Tail(ts), inside)

AfterAnnotations(ts) ==
    CASE Peek(ts, 0) # "@"        -> ts
      [] Peek(ts, 1) \notin Names -> Tail(ts)
      [] Peek(ts, 2) = "("        -> AfterAnnotations(AfterParens(After(ts, 2), 0))
      [] OTHER                    -> AfterAnnotations(After(ts, 2))

IsClassStart(ts) == Peek(ParseModifiers(AfterAnnotations(ts)).rest, 0) \in {"class", "interface", "enum"}

\* The arguments of an annotation; a comma between two named ones may be missing.
ParseGiven(ts) ==
    IF Peek(ts, 0) = ")" THEN Parsed(Nothing, Tail(ts))
    ELSE Then(Parse("argument", ts), LAMBDA one, r :
            LET Go(s) == Then(ParseGiven(s), LAMBDA more, t : Parsed(List(<<one>> \o more.args), t)) IN
            CASE Peek(r, 0) = ","                         -> Go(Tail(r))
              [] Peek(r, 0) \in Names /\ Peek(r, 1) = "=" -> Go(r)
              [] Peek(r, 0) = ")"                         -> Go(r)
              [] OTHER                                    -> Failed)

ParseArgument(ts) ==
    IF Peek(ts, 0) \in Names /\ Peek(ts, 1) = "="
    THEN Production("argument", <<Head(ts)>>, <<Tree("expression")>>, After(ts, 2))
    ELSE Rule("argument", <<Tree("expression")>>, ts)

AnnotationAccepted(name, given, hasParens) ==
    CASE name = "IsTest" /\ hasParens ->
            /\ Len(given.args) = 1
            /\ given.args[1].name = <<"SeeAllData">>
            /\ given.args[1].args[1] = Node("literal", <<"true">>, <<>>)
      [] name \in {"TestSetup", "future"} -> ~ hasParens
      [] OTHER -> TRUE

ParseAnnotation(ts) ==
    LET hasParens == Peek(ts, 2) = "(" IN
    IF Peek(ts, 1) \notin Names THEN Failed
    ELSE Then(IF hasParens THEN ParseGiven(After(ts, 3)) ELSE Parsed(Nothing, After(ts, 2)), LAMBDA given, r :
            IF AnnotationAccepted(ts[2], given, hasParens) THEN Parsed(Node("annotation", <<ts[2]>>, given.args), r)
            ELSE Failed)

\* A type in a hierarchy: what its arguments count to is looked at, it is not.
ParseNamedType(ts) ==
    Then(ParseRef(ts), LAMBDA ref, r :
        IF ref.suffixes = 0 /\ \A i \in DOMAIN ref.args : IsType(ref.args[i]) THEN Parsed(TypeOf(ref), r) ELSE Failed)

ParseReturns(ts) ==
    IF Peek(ts, 0) = "void" THEN Parsed(Node("type", <<"void">>, <<>>), Tail(ts)) ELSE ParseType(ts)

ParseParameter(ts) == Rule("parameter", <<Tree("type"), Tree("name")>>, ts)
Parameters == <<Token("("), Unless(")", <<CommaList("parameter")>>), Token(")")>>

IsMethodStart(ts) ==
    LET type == ParseReturns(ts) IN type.ok /\ Peek(type.rest, 0) \in Names /\ Peek(type.rest, 1) = "("

\* this(...) or super(...) as the first statement is taken out of the body.
Delegating(block) ==
    LET statements == block.args[1].args
        first == statements[1]
        delegates == /\ statements # <<>> /\ first.op = "evaluate"
                     /\ first.args[1].op = "function" /\ first.args[1].name[1] \in {"this", "super"}
    IN  IF delegates THEN <<List(<<first.args[1]>>), Node("block", <<>>, <<List(Tail(statements))>>)>>
        ELSE <<Nothing, block>>

ParseConstructor(prefix, ts) ==
    Then(ParseAll(Parameters \o <<Tree("block")>>, Tail(ts)), LAMBDA parts, r :
        Parsed(Node("constructor", <<Head(ts)>>, prefix \o <<parts[1]>> \o Delegating(parts[2])), r))

ParseBody(ts) == IF Peek(ts, 0) = ";" THEN Parsed(Nothing, Tail(ts)) ELSE ParseBlock(ts)

\* What is left of a member once its modifiers, type and name are read.
ParseMethod(prefix, typed, ts) ==
    Then(ParseAll(Parameters \o <<Tree("body")>>, ts), LAMBDA parts, r :
        Parsed(Node("methodDeclaration", typed[2].name, prefix \o <<typed[1]>> \o parts), r))

ParseProperty(prefix, typed, ts) ==
    Then(Inside(<<Token("{"), Until("}", "accessor"), Token("}")>>, ts), LAMBDA accessors, r :
        Parsed(Node("property", typed[2].name, prefix \o <<typed[1], accessors>>), r))

ParseFields(prefix, typed, ts) ==
    Then(Inside(<<CommaList("declarator"), Token(";")>>, typed[2].name \o ts), LAMBDA fields, r :
        Parsed(Node("field", <<>>, prefix \o <<typed[1], fields>>), r))

ParseMember(class, ts) ==
    Then(ParseAll(<<While({"@"}, "annotation"), Tree("modifiers")>>, ts), LAMBDA prefix, r :
        IF Peek(r, 0) = class /\ Peek(r, 1) = "(" THEN ParseConstructor(prefix, r)
        ELSE Then(ParseAll(<<Tree("returns"), Tree("name")>>, r), LAMBDA typed, s :
                CASE Peek(s, 0) = "("             -> ParseMethod(prefix, typed, s)
                  [] typed[1].name = <<"void">>   -> Failed
                  [] Peek(s, 0) = "{"             -> ParseProperty(prefix, typed, s)
                  [] OTHER                        -> ParseFields(prefix, typed, s)))

ParseAccessor(ts) ==
    LET access == IF Peek(ts, 0) \in AccessWords THEN <<Head(ts)>> ELSE <<>>
        r == After(ts, Len(access))
    IN  IF Peek(r, 0) \in {"get", "set"} THEN Production("accessor", <<Head(r)>> \o access, <<Tree("body")>>, Tail(r)) ELSE Failed

\* The constants of an enum, and the semicolon that ends them before members.
ParseConstants(ts) ==
    CASE Peek(ts, 0) = "}" -> Parsed(Nothing, ts)
      [] Peek(ts, 0) = ";" -> Parsed(Nothing, Tail(ts))
      [] OTHER -> Then(ParseName(ts), LAMBDA one, r :
            IF Peek(r, 0) \in {",", ";", "}"}
            THEN Then(ParseConstants(IF Peek(r, 0) = "," THEN Tail(r) ELSE r), LAMBDA more, s :
                    Parsed(List(<<one>> \o more.args), s))
            ELSE Failed)

IsInitializerStart(ts) == Peek(ts, 0) = "{" \/ (Peek(ts, 0) = "static" /\ Peek(ts, 1) = "{")

ParseInitializer(ts) ==
    IF Peek(ts, 0) = "{" THEN Rule("initializer", <<Tree("block")>>, ts)
    ELSE Production("initializer", <<"static">>, <<Tree("block")>>, Tail(ts))

\* The members of the type of this path; nested types go to a list of their own.
ParseMembers(path, ts) ==
    CASE Peek(ts, 0) \in {"}", "end"} -> Parsed([members |-> <<>>, nested |-> <<>>], ts)
      [] IsClassStart(ts) -> Then(ParseTypeDeclaration(path, ts), LAMBDA types, r :
            Then(ParseMembers(path, r), LAMBDA more, s : Parsed([more EXCEPT !.nested = types \o @], s)))
      [] OTHER -> Then(IF IsInitializerStart(ts) THEN ParseInitializer(ts) ELSE ParseMember(Last(path), ts), LAMBDA member, r :
            Then(ParseMembers(path, r), LAMBDA more, s : Parsed([more EXCEPT !.members = <<member>> \o @], s)))

HierarchyEdges ==
    <<Optional(<<Token("extends"), Tree("named")>>), Optional(<<Token("implements"), CommaList("named")>>)>>

\* The nested types of a declaration, innermost first, and then itself.
ParseTypeDeclaration(outer, ts) ==
    Then(ParseAll(<<While({"@"}, "annotation"), Tree("modifiers"), Tree("kind"), Tree("name")>> \o HierarchyEdges \o
                    <<Token("{")>>, ts), LAMBDA head, r :
        LET kind == head[3].name[1]
            path == Append(outer, head[4].name[1])
            Body(constants, s) ==
                Then(ParseMembers(path, s), LAMBDA body, t :
                    IF Peek(t, 0) # "}" THEN Failed
                    ELSE Parsed(Append(body.nested,
                            Node(kind, path, <<head[1], head[2], head[5], head[6], constants, List(body.members)>>)), Tail(t)))
        IN  CASE \E i \in DOMAIN head[1].args : head[1].args[i].name = <<"future">> -> Failed
              [] kind = "interface" /\ head[6] # Nothing -> Failed
              [] kind = "enum" -> Then(ParseConstants(r), Body)
              [] OTHER         -> Body(Nothing, r))

ParseKind(ts) ==
    IF Peek(ts, 0) \in {"class", "interface", "enum"} THEN Parsed(Node("kind", <<Head(ts)>>, <<>>), Tail(ts)) ELSE Failed

ParseEvent(ts) ==
    IF Peek(ts, 0) \in {"before", "after"} /\ Peek(ts, 1) \in DmlWords \ {"upsert"}
    THEN Parsed(Node("event", <<ts[1], ts[2]>>, <<>>), After(ts, 2))
    ELSE Failed

ParseTrigger(ts) ==
    Rule("trigger", <<Token("trigger"), Tree("name"), Token("on"), Tree("named"), Token("("), CommaList("event"), Token(")"),
                      Tree("block")>>, ts)

ParseMethodDeclaration(ts) == Rule("routine", <<Tree("returns"), Tree("name")>> \o Parameters \o <<Tree("block")>>, ts)

EmptyProgram == [classes |-> <<>>, triggers |-> <<>>, methods |-> <<>>, statements |-> <<>>]

ParseProgram(ts) ==
    LET Take(result, Put(_, _)) ==
            Then(result, LAMBDA unit, r : Then(Parse("program", r), LAMBDA more, s : Parsed(Put(more, unit), s)))
    IN  CASE ts = <<>> -> Parsed(EmptyProgram, ts)
          [] Peek(ts, 0) = "trigger" -> Take(ParseTrigger(ts), LAMBDA p, t : [p EXCEPT !.triggers = <<t>> \o @])
          [] IsClassStart(ts) -> Take(ParseTypeDeclaration(<<>>, ts),
                LAMBDA p, types : [p EXCEPT !.classes = <<Last(types)>> \o Front(types) \o @])
          [] IsMethodStart(ts) -> Take(ParseMethodDeclaration(ts),
                LAMBDA p, m : [p EXCEPT !.methods = <<m>> \o @])
          [] OTHER -> Take(Parse("statement", ts), LAMBDA p, s : [p EXCEPT !.statements = <<s>> \o @])

-----------------------------------------------------------------------------
(* The functions by the name of what they read.                             *)

Parse(what, ts) ==
    CASE what = "program"     -> ParseProgram(ts)
      [] what = "expression"  -> ParseAssignment(ts)
      [] what = "unary"       -> ParseUnary(ts)
      [] what = "primary"     -> ParsePrimary(ts)
      [] what = "conditional" -> ParseConditional(ts)
      [] what = "statement"   -> ParseStatement(ts)
      [] what = "type"        -> ParseType(ts)
      [] what = "ref"         -> ParseRef(ts)
      [] what = "name"        -> ParseName(ts)
      [] what = "block"       -> ParseBlock(ts)
      [] what = "arguments"   -> ParseArguments(ts)
      [] what = "declarator"  -> ParseDeclarator(ts)
      [] what = "entry"       -> ParseEntry(ts)
      [] what = "query"       -> ParseQuery(ts)
      [] what = "soql"        -> ParseSoqlBody(ts)
      [] what = "sosl"        -> ParseSoslBody(ts)
      [] what = "returning"   -> ParseReturning(ts)
      [] what = "scope"       -> ParseScope(ts)
      [] what = "access"      -> ParseAccess(ts)
      [] what = "item"        -> ParseItem(ts)
      [] what = "path"        -> ParsePath(ts)
      [] what = "or"          -> ParseChain("or", "and", ts)
      [] what = "and"         -> ParseChain("and", "not", ts)
      [] what = "not"         -> ParseNot(ts)
      [] what = "value"       -> ParseValue(ts)
      [] what = "ordering"    -> ParseOrdering(ts)
      [] what = "mode"        -> ParseMode(ts)
      [] what = "externalId"  -> ParseExternalId(ts)
      [] what = "start"       -> ParseStart(ts)
      [] what = "arms"        -> ParseArms(ts)
      [] what = "catch"       -> ParseCatch(ts)
      [] what = "annotation"  -> ParseAnnotation(ts)
      [] what = "argument"    -> ParseArgument(ts)
      [] what = "modifiers"   -> ParseModifiers(ts)
      [] what = "kind"        -> ParseKind(ts)
      [] what = "named"       -> ParseNamedType(ts)
      [] what = "returns"     -> ParseReturns(ts)
      [] what = "parameter"   -> ParseParameter(ts)
      [] what = "accessor"    -> ParseAccessor(ts)
      [] what = "body"        -> ParseBody(ts)
      [] what = "event"       -> ParseEvent(ts)
      [] what = "modifier"    -> Rule(Head(ts), <<Token(Head(ts))>>, ts)

\* The way in: a whole text, be it a program, a query or a part of one.
ParseText(what, ts) == Parse(what, ts)
=============================================================================
