----------------------------- MODULE MCLanguage -----------------------------
(***************************************************************************)
(* The language's rules over every input of a bounded size: the programs,   *)
(* hierarchies, calls, expressions and method bodies the checker is given,  *)
(* and what the interpreter makes of those it accepts.                      *)
(***************************************************************************)
EXTENDS Subjects, ClassHierarchy, Integers

CONSTANTS
    A, B, C, I, J   \* classes C below B below A, interfaces J below I

-----------------------------------------------------------------------------
(* Class hierarchies: every combination of the declarations of one method.  *)

Method(modifiers, access, returns, body) ==
    [modifiers |-> modifiers, access |-> access, returns |-> returns, body |-> body]

ClassMethods(modifierSets) ==
    {NoMethod} \cup
    {Method(m, a, r, "abstract" \notin m) :
        m \in modifierSets, a \in {1, 2}, r \in {"Integer", "String"}}

InterfaceMethods == {NoMethod, Method({}, 0, "Integer", FALSE)}

\* Who implements what: nobody, A or B the interface I, or C its extension J.
Implementations == {<<NoClass, I>>, <<A, I>>, <<B, I>>, <<C, J>>}

Program(a, b, implementation, ma, mb, mc, mi) ==
    [kind |-> [c \in Classes |-> IF c \in {I, J} THEN "interface" ELSE "class"],
     modifiers |-> [c \in Classes |-> CASE c = A -> {a} [] c = B -> {b} [] OTHER -> {}],
     superclass |-> [c \in Classes |-> CASE c = C -> B [] c = B -> A [] c = J -> I [] OTHER -> NoClass],
     interfaces |-> [c \in Classes |-> IF c = implementation[1] THEN <<implementation[2]>> ELSE <<>>],
     method |-> [c \in Classes |-> CASE c = A -> ma [] c = B -> mb [] c = C -> mc [] c = I -> mi
                                     [] OTHER -> NoMethod]]

\* What the checker lets through although a call can then go wrong: a static
\* method beside an instance method of its signature, and an abstract method
\* that stands in for one an interface declares otherwise.
MixesStatic(p) ==
    \E c, d \in {k \in Classes : Declares(p, k)} : Has(p, c, "static") /\ ~ Has(p, d, "static")

ShadowsInterface(p) ==
    \E c \in {A, B, C}, i \in {I, J} :
        /\ Declares(p, c) /\ ~ p.method[c].body /\ Declares(p, i) /\ IsOrInherits(p, c, i)
        /\ ~ IsImplementation(p, c, i) /\ (p.method[c].returns # p.method[i].returns \/ AccessRank(p, c) < AccessRank(p, i))

ProgramInit ==
    \E a, b \in {"virtual", "abstract"}, implementation \in Implementations,
       ma \in ClassMethods({{}, {"static"}, {"virtual"}, {"abstract"}}),
       mb \in ClassMethods({{}, {"static"}, {"virtual"}, {"abstract"}, {"override"}, {"abstract", "override"}}),
       mc \in ClassMethods({{}, {"static"}, {"override"}}), mi \in InterfaceMethods :
        LET p == Program(a, b, implementation, ma, mb, mc, mi) IN
        /\ MixesStatic(p) => "statics" \in Divergences
        /\ ShadowsInterface(p) => "interfaces" \in Divergences
        /\ Poses("program", p)

CheckProgram == Answers("program", <<Accepted(Given)>>)

-----------------------------------------------------------------------------
(* Overloads: two or three candidates of two parameters over a hierarchy.    *)

Family == Program("virtual", "virtual", <<B, J>>, NoMethod, NoMethod, NoMethod, NoMethod)

ParameterTypes == <<"Integer", "Long", "Object", A, B, J>>
Signature(n) == <<ParameterTypes[(n \div 6) + 1], ParameterTypes[(n % 6) + 1]>>

OverloadInit ==
    \E one \in 0 .. 34 : \E two \in one + 1 .. 35 : \E three \in two .. 35,
       arguments \in {"Integer", "Null", C} \X {"Long", B, "Null"} :
        Poses("overload", [candidates |-> {Signature(n) : n \in {one, two, three}}, arguments |-> arguments])

SelectOverload == Answers("overload", <<Selected(Family, Given.candidates, Given.arguments)>>)

-----------------------------------------------------------------------------
(* Expressions over the types of a program whose class B extends A and       *)
(* implements I.                                                             *)

Typed == INSTANCE Intrinsics WITH
            Width <- 3, LongWidth <- 5,
            Hierarchy <- Program("virtual", "virtual", <<B, I>>, NoMethod, NoMethod, NoMethod, NoMethod)

Expression(op, type, value, args) == [op |-> op, type |-> type, value |-> value, args |-> args]
Leaf(type, is, n) == Expression("leaf", type, Typed!Outcome(is, n), <<>>)
Beyond(type, n) == Expression("beyond", type, Typed!Outcome(type, n), <<>>)

Types == {"Integer", "Long", "Decimal", "Boolean", "String", "Object", A, B, I}

Leaves ==
    {Leaf("Integer", "Integer", n) : n \in {-4, -1, 0, 2, 3}} \cup
    {Leaf("Long", "Long", n) : n \in {-16, -1, 0, 3, 15}} \cup
    {Leaf("Decimal", "Decimal", n) : n \in {0, 1}} \cup
    {Leaf("Boolean", "Boolean", n) : n \in {0, 1}} \cup
    {Leaf(type, "Null", 0) : type \in {"Null", "Integer", "Boolean", "Object", A}} \cup
    {Leaf("String", "String", 0), Leaf("Object", "Integer", 3), Leaf("Object", "String", 0),
     Leaf("Object", B, 0), Leaf(A, A, 0), Leaf(A, B, 0), Leaf(I, B, 0), Leaf(B, B, 0)}

FewLeaves ==
    {Leaf("Integer", "Integer", 3), Leaf("Long", "Long", -16), Leaf("Decimal", "Decimal", 1),
     Leaf("Boolean", "Boolean", 1), Leaf("Boolean", "Null", 0), Leaf("Null", "Null", 0),
     Leaf("String", "String", 0), Leaf("Object", "Integer", 3), Leaf(A, B, 0)}

LeastLiterals == {Expression("-", "", "", <<e>>) : e \in {Beyond("Integer", 4), Beyond("Long", 16)}}

UnaryOps == {"+", "-", "~", "!"}
BinaryOps == Typed!Arithmetic \cup Typed!Ordering \cup Typed!Bits \cup Typed!Shifts \cup {"==", "&&", "||", "??"}

IsPlace(e) == e.op = "leaf" /\ e.type # "Null"

Over(Is(_), ls, rs) ==
    \/ \E op \in UnaryOps, l \in ls : Is(Expression(op, "", "", <<l>>))
    \/ \E op \in {"cast", "instanceof", "="}, type \in Types, l \in ls : Is(Expression(op, type, "", <<l>>))
    \/ \E l \in {k \in ls : IsPlace(k)} : Is(Expression("++", "", "", <<l>>))
    \/ \E op \in BinaryOps, l \in ls, r \in rs :
          Is(Expression(op, "", "", <<l, r>>)) \/ Is(Expression(op, "", "", <<r, l>>))
    \/ \E n \in {0, 1}, l \in ls, r \in rs : Is(Expression("?", "", "", <<Leaf("Boolean", "Boolean", n), l, r>>))
    \/ \E op \in BinaryOps \ {"==", "&&", "||", "??"}, l \in {k \in ls : IsPlace(k)}, r \in rs :
          Is(Expression("compound", l.type, op, <<l, r>>))

Simple == LET all == UNION {
              {Expression(op, "", "", <<l>>) : op \in UnaryOps, l \in FewLeaves},
              {Expression(op, type, "", <<l>>) : op \in {"cast", "="}, type \in Types, l \in FewLeaves},
              {Expression(op, "", "", <<l, r>>) : op \in {"+", "%", ">>", "==", "&&", "??"}, l \in FewLeaves, r \in FewLeaves},
              {Expression("?", "", "", <<Leaf("Boolean", "Boolean", 1), l, r>>) : l \in FewLeaves, r \in FewLeaves}}
          IN {e \in all : Typed!TypeOf(e) # Typed!Rejected}

\* The absolute value of the least Integer is no Integer.
Calls(Is(_)) ==
    \/ \E l \in Leaves \cup LeastLiterals :
          /\ Typed!Outcome("Integer", -4) \in Typed!Evaluate(l) => "abs" \in Divergences
          /\ Is(Expression("abs", "", "", <<l>>))
    \/ \E op \in {"max", "min", "mod"}, l \in Leaves, r \in Leaves : Is(Expression(op, "", "", <<l, r>>))

ExpressionInit ==
    LET Is(e) == Poses("expression", e)
    IN  \/ Calls(Is)
        \/ Over(Is, Leaves, Leaves)
        \/ Over(Is, Simple, FewLeaves)
        \/ \E e \in LeastLiterals : Is(e) \/ Over(Is, {e}, Leaves)
        \/ "literals" \in Divergences /\ Over(Is, {Beyond("Integer", 4)}, FewLeaves)

EvaluateExpression ==
    Answers("expression", <<Typed!TypeOf(Given), Typed!Evaluate(Given)>>)

-----------------------------------------------------------------------------
(* Bodies of value-returning methods, up to four statements deep.           *)

Flow == INSTANCE Statements WITH Absent <- NoMethod

Statement(op, args, catches) == [op |-> op, args |-> args, catches |-> catches]

Atoms == {Statement(op, <<>>, "") : op \in Flow!Jumps \cup {"expression"}}
Optional(statements) == statements \cup {NoMethod}

\* A statement made of one of `parts` and others of `others`.
Nests(Is(_), parts, others) ==
    \E p \in parts :
        \/ \E op \in {"while", "dowhile"} : Is(Statement(op, <<p>>, ""))
        \/ \E q \in others :
            \/ \E pair \in {<<p, q>>, <<q, p>>} :
                  \/ Is(Statement("block", pair, ""))
                  \/ Is(Statement("try", <<pair[1], NoMethod, pair[2]>>, ""))
                  \/ \E catches \in {"some", "all"} :
                        Is(Statement("try", <<pair[1], pair[2], NoMethod>>, catches))
            \/ \E r \in Optional(others), catches \in {"some", "all"} :
                  Is(Statement("try", <<p, q, r>>, catches))
        \/ \E q \in Optional(others) : Is(Statement("if", <<p, q>>, ""))

Shallow ==
    {Statement(op, <<p, q>>, "") : op \in {"block", "if"}, p \in Atoms, q \in Atoms} \cup
        {Statement(op, <<p>>, "") : op \in {"while", "dowhile"}, p \in Atoms} \cup
        {Statement("if", <<p, NoMethod>>, "") : p \in Atoms} \cup
        {Statement("try", <<p, q, r>>, c) : p \in Atoms, q \in Atoms, r \in Optional(Atoms), c \in {"some", "all"}} \cup
        {Statement("try", <<p, NoMethod, q>>, "") : p \in Atoms, q \in Atoms} \cup
        {Statement("runAs", <<p>>, "") : p \in
            IF "runAs" \in Divergences THEN Atoms ELSE {s \in Atoms : s.op \notin {"break", "continue"}}}

BodyInit ==
    LET Is(s) == Poses("body", s)
        InLoop(s) == \E t \in Atoms : Is(Statement("dowhile", <<Statement("block", <<s, t>>, "")>>, ""))
    IN  Nests(Is, Shallow, Atoms) \/ Nests(InLoop, Shallow, {t \in Atoms : t.op # "expression"})

CheckAndRunBody ==
    Answers("body", <<Flow!MethodAccepted(Given), Flow!Outcomes(Given)>>)

-----------------------------------------------------------------------------

\* In a program the checker accepts, a call through any type of an object runs a
\* body: of an instance method that returns what the declaration the call was
\* checked against returns and is no less accessible. No override, implementation
\* or redeclaration, in whatever order it is inherited, gets in between.
VirtualCallsReachTheirDeclaration ==
    About("program") /\ outcome = <<TRUE>> =>
        \A c \in {k \in Classes : IsConcrete(Given, k)} : \A type \in {k \in Classes : IsOrInherits(Given, c, k)} :
            LET p == Given
                declared == CheckedTarget(p, NoClass, type)
                target == VirtualTarget(p, c, declared)
            IN  declared # NoClass =>
                    /\ p.method[target].body
                    /\ ~ Has(p, target, "static")
                    /\ p.method[target].returns = p.method[declared].returns
                    /\ AccessRank(p, target) >= AccessRank(p, declared)

\* The overload a call is bound to takes its arguments and is at least as
\* specific, parameter by parameter, as every other that takes them; a call is
\* refused only when no overload is.
OverloadsAreMostSpecific ==
    About("overload") =>
        LET Below(l, r) == \A i \in DOMAIN l : l[i] = r[i] \/ IsSubtype(Family, l[i], r[i])
            takes == {c \in Given.candidates : \A i \in DOMAIN c :
                            Given.arguments[i] = "Null" \/ Below(<<Given.arguments[i]>>, <<c[i]>>)}
        IN  outcome[1] = {c \in takes : \A d \in takes : Below(c, d)}

\* A call runs what it was checked against: the checker binds it to the most
\* specific overload, and whatever the object is, its class has a body for it.
CallsReachTheirDeclaration == VirtualCallsReachTheirDeclaration /\ OverloadsAreMostSpecific

\* A value whose type promises more than its slot: a narrower number.
WidensTo(o, type) ==
    \/ Typed!HasType(o, type)
    \/ Typed!IsNumeric(o.is) /\ Typed!IsNumeric(type) /\ Typed!Rank(o.is) <= Typed!Rank(type)

\* An expression the checker accepts gives null, a value of its static type or a
\* narrower number, or raises an exception a program can catch: the interpreter
\* never meets an operand it has no case for. What is stored has its type.
ValuesKeepTheirType ==
    About("expression") /\ outcome[1] # Typed!Rejected =>
        \A o \in outcome[2] :
            /\ o # Typed!Internal
            /\ Typed!IsValue(o) /\ o # Typed!NullValue => WidensTo(o, outcome[1])
            /\ Typed!IsIntegral(o.is) => Typed!Fits(o.is, o.n)
            /\ Given.op \in {"=", "compound", "++", "cast"} /\ Typed!IsValue(o) /\ o # Typed!NullValue =>
                  Typed!HasType(o, outcome[1])

IsWord(e) == e.op = "leaf" /\ Typed!IsIntegral(e.value.is)
OnWords(e) == e.op \in Typed!Arithmetic \cup {"max", "min", "mod"} /\ Len(e.args) = 2 /\ \A i \in {1, 2} : IsWord(e.args[i])

\* The integers that r goes into l with this quotient, or leaves: at most one.
Abs(n) == Typed!Magnitude(n)
Quotients(l, r) == {q \in -16 .. 16 : Abs(l - q * r) < Abs(r) /\ Abs(q * r) <= Abs(l)}
Exact(op, l, r) ==
    CASE op = "+" -> {l + r}
      [] op = "-" -> {l - r}
      [] op = "*" -> {l * r}
      [] op = "/" -> Quotients(l, r)
      [] op \in {"%", "mod"} -> {l - q * r : q \in Quotients(l, r)}
      [] op = "max" -> {n \in {l, r} : l <= n /\ r <= n}
      [] op = "min" -> {n \in {l, r} : l >= n /\ r >= n}

\* Checked arithmetic on words is exact or raises: it gives the integer the
\* operation denotes, with the quotient cut towards zero, and raises exactly
\* when that integer, or the quotient a remainder is taken of, does not exist or
\* is beyond the width of its type.
ArithmeticIsExact ==
    About("expression") /\ OnWords(Given) /\ outcome[1] # Typed!Rejected =>
        LET type == outcome[1]
            l == Given.args[1].value.n
            r == Given.args[2].value.n
            wide == Exact(IF Given.op = "%" THEN "/" ELSE Given.op, l, r)
        IN  outcome[2] = IF \E n \in wide : Typed!Fits(type, n)
                         THEN {Typed!Outcome(type, n) : n \in Exact(Given.op, l, r)}
                         ELSE {Typed!Raised("MathException")}

\* The body of a method the checker accepts ends by returning a value or by an
\* exception, whatever its conditions decide and wherever an expression raises:
\* through nested loops, handlers and finally blocks that override one another.
AcceptedMethodsReturn ==
    About("body") /\ outcome[1] => outcome[2] \subseteq {"return", "throw"}
=============================================================================
