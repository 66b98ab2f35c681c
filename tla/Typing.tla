------------------------------- MODULE Typing -------------------------------
(***************************************************************************)
(* The static types semantic.rs gives to expressions, and the values        *)
(* runtime.rs and runtime/numeric.rs compute for those it accepts.          *)
(*                                                                         *)
(* An expression is [op, type, value, args]: op names the construct, type   *)
(* is the type it writes (of a cast, a test, a variable), value the value   *)
(* of a leaf, args its operands. An outcome is [is, n]: a value of a type,  *)
(* "Null", the class of a raised exception, or "Internal", the diagnostic   *)
(* of an operand the checker should have kept out. Booleans are 0 and 1.    *)
(* A Decimal is known only to be zero (0) or not (1), so an operation on    *)
(* Decimals has several outcomes.                                           *)
(***************************************************************************)
EXTENDS ClassHierarchy, Integers
LOCAL INSTANCE Bitwise

CONSTANTS
    Width,       \* bits of an Integer (32 in the code)
    LongWidth,   \* bits of a Long (64)
    Hierarchy    \* the program whose classes the expressions name

Rejected == "Rejected"   \* the type of an expression the checker refuses

Outcome(is, n) == [is |-> is, n |-> n]
NullValue == Outcome("Null", 0)
Internal == Outcome("Internal", 0)
Raised(class) == Outcome(class, 0)
Truth(b) == Outcome("Boolean", IF b THEN 1 ELSE 0)

Exceptions ==
    {"NullPointerException", "MathException", "TypeException", "ListException", "FinalException", "StringException"}
IsValue(o) == o.is \notin Exceptions \cup {"Internal"}

Arithmetic == {"+", "-", "*", "/", "%"}
Ordering == {"<", ">="}
Bits == {"&", "|", "^"}
Shifts == {"<<", ">>", ">>>"}
MathMethods == {"abs", "max", "min", "mod"}

-----------------------------------------------------------------------------
(* Static types.                                                            *)

Rank(type) == SelectInSeq(Numeric, LAMBDA t : t = type)   \* 0 for the others
IsNumeric(type) == Rank(type) > 0
IsIntegral(type) == Rank(type) \in {1, 2}
Promoted(l, r) == IF Rank(l) > Rank(r) THEN l ELSE r

Below(actual, expected) == IsSubtype(Hierarchy, actual, expected)
Assignable(expected, actual) ==
    actual # Rejected /\ IsAssignable(Hierarchy, expected, actual)

UnaryType(op, type) ==
    CASE op \in {"+", "-"} /\ IsNumeric(type) -> type
      [] op = "~" /\ IsIntegral(type)         -> type
      [] op = "!" /\ type = "Boolean"         -> type
      [] OTHER                                -> Rejected

BinaryType(op, l, r) ==
    CASE op \in Arithmetic /\ IsNumeric(l) /\ IsNumeric(r) -> Promoted(l, r)
      [] op = "+" /\ "String" \in {l, r}                   -> "String"
      [] op \in Ordering /\ IsNumeric(l) /\ IsNumeric(r)   -> "Boolean"
      [] op = "==" /\ (l = r \/ "Null" \in {l, r} \/ (IsNumeric(l) /\ IsNumeric(r))) -> "Boolean"
      [] op \in Bits \cup {"&&", "||"} /\ l = "Boolean" /\ r = "Boolean" -> "Boolean"
      [] op \in Bits /\ IsIntegral(l) /\ IsIntegral(r)     -> Promoted(l, r)
      [] op \in Shifts /\ IsIntegral(l) /\ r = "Integer"   -> l
      [] OTHER                                             -> Rejected

\* The type of a conditional or null-coalescing expression.
Joined(l, r) ==
    CASE l = "Null"  -> r
      [] r = "Null"  -> l
      [] Below(l, r) -> r
      [] Below(r, l) -> l
      [] OTHER       -> "Object"

CastType(target, source) ==
    IF \/ source \in {"Null", "Object", target} \/ target = "Object"
       \/ IsIntegral(source) /\ IsIntegral(target)
       \/ Below(source, target) \/ Below(target, source)
    THEN target
    ELSE Rejected

\* The relation of run-time types: Below without the widening of numbers.
IsRuntimeSubtype(actual, expected) ==
    Below(actual, expected) /\ (IsNumeric(actual) => expected \in {actual, "Object"})

CanOverlap(declared, target) ==
    \/ IsRuntimeSubtype(target, declared)
    \/ /\ {declared, target} \subseteq Classes
       /\ LET open(c) == Hierarchy.modifiers[c] \cap {"virtual", "abstract"} # {}
              faces == {c \in {declared, target} : IsInterface(Hierarchy, c)}
          IN  faces # {} /\ \A c \in {declared, target} \ faces : open(c)

InstanceofType(target, actual) ==
    IF actual = "Null" \/ (~ IsRuntimeSubtype(actual, target) /\ CanOverlap(actual, target))
    THEN "Boolean"
    ELSE Rejected

\* Math works on Integers alone, with one or two arguments.
MathType(types) == IF \A i \in DOMAIN types : Assignable("Integer", types[i]) THEN "Integer" ELSE Rejected

IsStrictType(e, types) ==
    CASE e.op \in MathMethods -> MathType(types)
      [] e.op = "cast"       -> CastType(e.type, types[1])
      [] e.op = "instanceof" -> InstanceofType(e.type, types[1])
      [] e.op = "="          -> IF Assignable(e.type, types[1]) THEN e.type ELSE Rejected
      [] e.op = "?"          -> IF types[1] = "Boolean" THEN Joined(types[2], types[3]) ELSE Rejected
      [] e.op = "??"         -> Joined(types[1], types[2])
      [] Len(types) = 1      -> UnaryType(e.op, types[1])
      [] OTHER               -> BinaryType(e.op, types[1], types[2])

\* -2147483648 is a minus sign and a literal that no Integer can hold.
IsLeastLiteral(e) == e.op = "-" /\ Len(e.args) = 1 /\ e.args[1].op = "beyond"

RECURSIVE TypeOf(_)
TypeOf(e) ==
    LET types == [i \in DOMAIN e.args |-> TypeOf(e.args[i])]
        compound == BinaryType(e.value, e.type, types[2])   \* left = right in place
    IN  CASE e.op = "leaf"     -> e.type
          [] e.op = "beyond"   -> IF e.type = "Integer" THEN "Long" ELSE Rejected
          [] IsLeastLiteral(e) -> e.args[1].type
          [] e.op = "++"       -> IF IsIntegral(types[1]) THEN types[1] ELSE Rejected
          [] Rejected \in Range(types) -> Rejected
          [] e.op = "compound" -> IF Assignable(e.type, compound) THEN e.type ELSE Rejected
          [] OTHER             -> IsStrictType(e, types)

-----------------------------------------------------------------------------
(* Words.                                                                   *)

Bound(type) == 2 ^ ((IF type = "Integer" THEN Width ELSE LongWidth) - 1)
Fits(type, n) == -Bound(type) <= n /\ n < Bound(type)
Unsigned(type, n) == n % (2 * Bound(type))
Signed(type, n) == LET u == Unsigned(type, n) IN IF u < Bound(type) THEN u ELSE u - 2 * Bound(type)

Checked(type, n) == IF Fits(type, n) THEN Outcome(type, n) ELSE Raised("MathException")

Magnitude(n) == IF n < 0 THEN -n ELSE n
Quotient(l, r) ==
    LET q == Magnitude(l) \div Magnitude(r) IN IF (l < 0) = (r < 0) THEN q ELSE -q

ApplyInteger(op, type, l, r) ==
    CASE op = "+" -> Checked(type, l + r)
      [] op = "-" -> Checked(type, l - r)
      [] op = "*" -> Checked(type, l * r)
      [] op \in {"/", "%"} /\ r = 0 -> Raised("MathException")
      [] op = "/" -> Checked(type, Quotient(l, r))
      [] op = "%" -> IF Fits(type, Quotient(l, r))
                     THEN Outcome(type, l - r * Quotient(l, r))
                     ELSE Raised("MathException")

ApplyBits(op, l, r) ==
    CASE op = "&" -> l & r
      [] op = "|" -> l | r
      [] op = "^" -> l ^^ r

ApplyShift(op, type, l, r) ==
    LET distance == r % (IF type = "Integer" THEN Width ELSE LongWidth) IN
    Signed(type, CASE op = "<<"  -> l * 2 ^ distance
                   [] op = ">>"  -> l \div 2 ^ distance
                   [] op = ">>>" -> Unsigned(type, l) \div 2 ^ distance)

-----------------------------------------------------------------------------
(* Values.                                                                  *)

\* integer, long and decimal of numeric.rs: what an operand may be.
Readable(type, o) == IsNumeric(o.is) /\ Rank(o.is) <= Rank(type)
InRange(type, o) == type = "Integer" => Fits(type, o.n)

AnyDecimal == {Outcome("Decimal", 0), Outcome("Decimal", 1)}
AsDecimal(o) == Outcome("Decimal", IF o.n = 0 THEN 0 ELSE 1)

NumericOutcomes(op, type, l, r) ==
    IF type # "Decimal" THEN {ApplyInteger(op, type, l.n, r.n)}
    ELSE IF op \in {"/", "%"} /\ r.n = 0 THEN {Raised("MathException")}
    ELSE AnyDecimal \cup {Raised("MathException")}

BinaryOutcomes(op, type, l, r) ==
    CASE NullValue \in {l, r} -> {Raised("NullPointerException")}
      [] op \in Bits /\ type = "Boolean" -> {Outcome("Boolean", ApplyBits(op, l.n, r.n))}
      [] ~ Readable(type, l) \/ ~ InRange(type, l) -> {Internal}
      [] op \in Shifts -> IF r.is # "Integer" THEN {Internal}
                          ELSE {Outcome(type, ApplyShift(op, type, l.n, r.n))}
      [] ~ Readable(type, r) \/ ~ InRange(type, r) -> {Internal}
      [] op \in Bits -> {Outcome(type, Signed(type,
                            ApplyBits(op, Unsigned(type, l.n), Unsigned(type, r.n))))}
      [] OTHER -> NumericOutcomes(op, type, l, r)

\* Ordering and equality read both operands as they are.
Compared(op, l, r) ==
    LET known == IF "Decimal" \in {l.is, r.is} THEN {FALSE, TRUE}
                 ELSE {CASE op = "<" -> l.n < r.n [] op = ">=" -> l.n >= r.n [] OTHER -> l.n = r.n}
    IN  CASE op = "==" /\ l.is # r.is /\ ~ (IsNumeric(l.is) /\ IsNumeric(r.is)) -> {Truth(FALSE)}
          [] op = "==" -> {Truth(b) : b \in known}
          [] NullValue \in {l, r} -> {Raised("NullPointerException")}
          [] IsNumeric(l.is) /\ IsNumeric(r.is) -> {Truth(b) : b \in known}
          [] OTHER -> {Internal}

UnaryOutcomes(op, type, o) ==
    CASE o = NullValue -> {Raised("NullPointerException")}
      [] op = "!" -> IF o.is = "Boolean" THEN {Truth(o.n = 0)} ELSE {Internal}
      [] ~ Readable(type, o) -> {Internal}
      [] type = "Decimal" -> {AsDecimal(o)}
      [] op = "-" -> {IF Fits(type, o.n) THEN Checked(type, -o.n) ELSE Raised("MathException")}
      [] ~ InRange(type, o) -> {Internal}
      [] op = "+" -> {Outcome(type, o.n)}
      [] op = "~" -> {Outcome(type, -o.n - 1)}

\* value_has_type, and typed_value, which converts what a slot receives.
HasType(o, type) ==
    \/ type = "Object"
    \/ o.is = type
    \/ {o.is, type} \subseteq Classes /\ Below(o.is, type)

\* A slip: a slot keeps the number it is given.
UnconvertedValue(o, type) == o

TypedValue(o, type) ==
    CASE o.is = "Integer" /\ type = "Long"    -> Outcome("Long", o.n)
      [] IsIntegral(o.is) /\ type = "Decimal" -> AsDecimal(o)
      [] OTHER                                -> o

CastOutcome(o, type) ==
    CASE o = NullValue                        -> NullValue
      [] o.is = "Integer" /\ type = "Long"    -> Outcome("Long", o.n)
      [] o.is = "Long" /\ type = "Integer"    -> IF Fits(type, o.n) THEN Outcome(type, o.n)
                                                 ELSE Raised("TypeException")
      [] HasType(o, type)                     -> o
      [] OTHER                                -> Raised("TypeException")

\* What call_math makes of Integers that are not null. The absolute value is
\* checked at 64 bits and may be none of Integer.
MathOutcome(method, l, r) ==
    CASE method = "abs" -> Outcome("Integer", Magnitude(l))
      [] method = "max" -> Outcome("Integer", IF l > r THEN l ELSE r)
      [] method = "min" -> Outcome("Integer", IF l < r THEN l ELSE r)
      [] method = "mod" -> IF r = 0 THEN Raised("MathException") ELSE Outcome("Integer", l - r * Quotient(l, r))

ExpectInteger(o) ==
    CASE o = NullValue -> Raised("NullPointerException")
      [] o.is = "Integer" -> o
      [] OTHER -> Internal

\* Evaluation goes on with the values and stops at the failures of a set.
Then(outcomes, Next(_)) ==
    UNION {IF IsValue(o) THEN Next(o) ELSE {o} : o \in outcomes}

\* evaluate_boolean
Condition(outcomes, Next(_)) ==
    Then(outcomes, LAMBDA o : CASE o = NullValue -> {Raised("NullPointerException")}
                                [] o.is = "Boolean" -> Next(o.n = 1)
                                [] OTHER -> {Internal})

\* What an expression gives of what its operands give.
Applied(e, types, operand) ==
    LET Operands(Next(_, _)) == Then(operand[1], LAMBDA l : Then(operand[2], LAMBDA r : Next(l, r)))
    IN  CASE e.op \in {"leaf", "beyond"} -> {e.value}
          [] IsLeastLiteral(e) -> {Outcome(e.args[1].type, -Bound(e.args[1].type))}
          [] e.op = "&&" -> Condition(operand[1], LAMBDA b :
                IF b THEN Condition(operand[2], LAMBDA c : {Truth(c)}) ELSE {Truth(FALSE)})
          [] e.op = "||" -> Condition(operand[1], LAMBDA b :
                IF b THEN {Truth(TRUE)} ELSE Condition(operand[2], LAMBDA c : {Truth(c)}))
          [] e.op = "?"  -> Condition(operand[1], LAMBDA b : IF b THEN operand[2] ELSE operand[3])
          [] e.op = "??" -> Then(operand[1], LAMBDA o : IF o = NullValue THEN operand[2] ELSE {o})
          [] e.op = "cast" -> Then(operand[1], LAMBDA o : {CastOutcome(o, e.type)})
          [] e.op = "instanceof" -> Then(operand[1], LAMBDA o : {Truth(o # NullValue /\ HasType(o, e.type))})
          [] e.op = "=" -> Then(operand[1], LAMBDA o : {TypedValue(o, e.type)})
          [] e.op = "++" -> Then(operand[1], LAMBDA o :
                IF o = NullValue THEN {Raised("NullPointerException")}
                ELSE BinaryOutcomes("+", o.is, o, Outcome(o.is, 1)))
          [] e.op = "compound" -> Operands(LAMBDA l, r :
                LET type == BinaryType(e.value, e.type, types[2]) IN
                IF type = "String" THEN {Outcome("String", 0)}
                ELSE Then(BinaryOutcomes(e.value, type, l, r), LAMBDA o : {TypedValue(o, e.type)}))
          [] e.op \in MathMethods -> Then(operand[1], LAMBDA o : Then(operand[Len(e.args)], LAMBDA p :
                Then({ExpectInteger(o)}, LAMBDA l : Then({ExpectInteger(p)}, LAMBDA r : {MathOutcome(e.op, l.n, r.n)}))))
          [] Len(e.args) = 1 -> Then(operand[1], LAMBDA o : UnaryOutcomes(e.op, types[1], o))
          [] e.op \in Ordering \cup {"=="} -> Operands(LAMBDA l, r : Compared(e.op, l, r))
          [] OTHER -> Operands(LAMBDA l, r :
                LET type == BinaryType(e.op, types[1], types[2]) IN
                IF type = "String" THEN {Outcome("String", 0)} ELSE BinaryOutcomes(e.op, type, l, r))

RECURSIVE Evaluate(_)
Evaluate(e) ==
    Applied(e, [i \in DOMAIN e.args |-> TypeOf(e.args[i])], [i \in DOMAIN e.args |-> Evaluate(e.args[i])])
=============================================================================
