--------------------------- MODULE ClassHierarchy ---------------------------
(***************************************************************************)
(* What semantic.rs checks of a set of classes before any of them runs, and *)
(* what the interpreter then relies on when it dispatches a call.           *)
(*                                                                         *)
(* A program p is a record of functions over the class names:              *)
(*   kind, modifiers, superclass (a class or NoClass), interfaces (a       *)
(*   sequence), and method: the declaration of ONE signature, or NoMethod. *)
(* Methods of other names or parameters never meet in these rules, so one  *)
(* signature is enough; overloads are ranked by Selected below.            *)
(* A method has modifiers, an access rank, a return type and perhaps a     *)
(* body.                                                                   *)
(***************************************************************************)
EXTENDS Naturals, FiniteSets, SequencesExt

CONSTANTS Classes, NoClass, NoMethod

Declares(p, c) == p.method[c] # NoMethod

Has(p, c, modifier) == modifier \in p.method[c].modifiers

IsInterface(p, c) == p.kind[c] = "interface"

-----------------------------------------------------------------------------
(* Hierarchy edges and their cycles.                                        *)

Edges(p, c) ==
    (IF p.superclass[c] = NoClass THEN <<>> ELSE <<p.superclass[c]>>) \o p.interfaces[c]

SuperclassAccepted(p, c) ==
    LET parent == p.superclass[c] IN
    parent # NoClass =>
        /\ p.kind[c] = p.kind[parent]
        /\ "final" \notin p.modifiers[parent]
        /\ IsInterface(p, c) \/ p.modifiers[parent] \cap {"virtual", "abstract"} # {}

InterfacesAccepted(p, c) ==
    /\ IsInjective(p.interfaces[c])
    /\ \A i \in Range(p.interfaces[c]) : IsInterface(p, i)
    /\ IsInterface(p, c) => p.interfaces[c] = <<>>

HeaderAccepted(p, c) ==
    /\ ~ {"abstract", "final"} \subseteq p.modifiers[c]
    /\ SuperclassAccepted(p, c)
    /\ InterfacesAccepted(p, c)

Cyclic == <<>>   \* the visits of a search that met a class being visited

RECURSIVE VisitFrom(_, _, _)
VisitFrom(p, visits, node) ==
    LET Follow(v, target) ==
            CASE v = Cyclic                -> Cyclic
              [] v[target] = "visiting"    -> Cyclic
              [] v[target] = "complete"    -> v
              [] v[target] = "unvisited"   -> VisitFrom(p, v, target)
        after == FoldLeft(Follow, [visits EXCEPT ![node] = "visiting"], Edges(p, node))
    IN  IF after = Cyclic THEN Cyclic ELSE [after EXCEPT ![node] = "complete"]

\* The classes as they are declared, in any order.
Declared == SetToSeq(Classes)

\* The depth-first search from every class that no earlier search reached.
Acyclic(p) ==
    LET Search(visits, root) ==
            IF visits # Cyclic /\ visits[root] = "unvisited"
            THEN VisitFrom(p, visits, root)
            ELSE visits
    IN  FoldLeft(Search, [c \in Classes |-> "unvisited"], Declared) # Cyclic

-----------------------------------------------------------------------------
(* Lookup.                                                                  *)

\* A class and its superclasses, nearest first.
RECURSIVE Chain(_, _)
Chain(p, c) == IF c = NoClass THEN <<>> ELSE <<c>> \o Chain(p, p.superclass[c])

\* class_is_or_inherits follows superclasses and interfaces alike.
IsOrInherits(p, actual, expected) ==
    \E c \in Range(Chain(p, actual)) :
        c = expected \/ \E i \in Range(p.interfaces[c]) : Contains(Chain(p, i), expected)

Declaring(p, chain) == LET D(c) == Declares(p, c) IN SelectSeq(chain, D)

FirstOrNone(chain) == IF chain = <<>> THEN NoClass ELSE Head(chain)

\* class_methods_named keeps the nearest declaration of a signature.
Found(p, c) == IF c = NoClass THEN NoClass ELSE FirstOrNone(Declaring(p, Chain(p, c)))

AccessRank(p, c) ==
    IF IsInterface(p, c) /\ p.method[c].access = 0 THEN 2 ELSE p.method[c].access

-----------------------------------------------------------------------------
(* Member declarations and contracts.                                       *)

MethodAccepted(p, c) ==
    LET m == p.method[c]
        isAbstract == "abstract" \in m.modifiers \/ IsInterface(p, c)
    IN  /\ "static" \in m.modifiers =>
               m.modifiers \cap {"virtual", "abstract", "override"} = {}
        /\ "final" \in m.modifiers => m.modifiers \cap {"virtual", "abstract"} = {}
        /\ m.body = ~ isAbstract
        /\ IsInterface(p, c) => "static" \notin m.modifiers /\ m.access \in {0, 2, 3}

\* A slip: the return types are not compared.
OverrideWithoutReturn(p, c, base) ==
    /\ base # NoClass
    /\ ~ Has(p, base, "static")
    /\ Has(p, base, "virtual") \/ Has(p, base, "abstract") \/ IsInterface(p, base)
    /\ p.method[c].access >= p.method[base].access

OverrideAccepted(p, c, base) ==
    /\ base # NoClass
    /\ ~ Has(p, base, "static")
    /\ Has(p, base, "virtual") \/ Has(p, base, "abstract") \/ IsInterface(p, base)
    /\ p.method[c].returns = p.method[base].returns
    /\ p.method[c].access >= p.method[base].access

\* A static method that redeclares an inherited signature is not looked at.
RedeclarationAccepted(p, c) ==
    LET base == Found(p, p.superclass[c]) IN
    IF Has(p, c, "override")
    THEN OverrideAccepted(p, c, base)
    ELSE base = NoClass \/ Has(p, c, "static") \/ IsInterface(p, c)

\* The declarations a class owes an implementation of, in the order they are
\* met. push_unique_signature keeps the first one of a signature only.
Obligations(p, c) ==
    LET Own(k) == IF Declares(p, k) /\ ~ p.method[k].body THEN <<k>> ELSE <<>>
        OfInterface(i) == Declaring(p, Chain(p, i))
        Met(met, k) == met \o Own(k) \o FlattenSeq([n \in DOMAIN p.interfaces[k] |->
                                                        OfInterface(p.interfaces[k][n])])
    IN  FoldLeft(Met, <<>>, Chain(p, c))

Required(p, c) == FirstOrNone(Obligations(p, c))

IsImplementation(p, found, required) ==
    /\ found # NoClass
    /\ p.method[found].returns = p.method[required].returns
    /\ p.method[found].body
    /\ AccessRank(p, found) >= AccessRank(p, required)

IsConcrete(p, c) == ~ IsInterface(p, c) /\ "abstract" \notin p.modifiers[c]

RequirementsAccepted(p, c) ==
    IsConcrete(p, c) /\ Required(p, c) # NoClass =>
        IsImplementation(p, Found(p, c), Required(p, c))

\* Interfaces that reach one class agree on the return type of a signature.
InterfaceReturnsAccepted(p, c) ==
    \A i, j \in {k \in Classes : IsInterface(p, k) /\ Declares(p, k) /\ IsOrInherits(p, c, k)} :
        p.method[i].returns = p.method[j].returns

ClassAccepted(p, c) ==
    /\ Declares(p, c) => MethodAccepted(p, c) /\ RedeclarationAccepted(p, c)
    /\ InterfaceReturnsAccepted(p, c)
    /\ RequirementsAccepted(p, c)

\* validate_class_hierarchy, then check_class of every class.
Accepted(p) ==
    /\ \A c \in Classes : HeaderAccepted(p, c)
    /\ Acyclic(p)
    /\ \A c \in Classes : ClassAccepted(p, c)

-----------------------------------------------------------------------------
(* Calls.                                                                   *)

MemberAccessible(p, accessing, target) ==
    LET rank == AccessRank(p, target) IN
    \/ accessing = target
    \/ rank >= 2
    \/ rank = 1 /\ accessing # NoClass /\ IsOrInherits(p, accessing, target)

\* The declaration an instance call on a value of static type `type` is
\* checked against, or NoClass where the call is rejected.
CheckedTarget(p, accessing, type) ==
    LET found == Found(p, type) IN
    IF found # NoClass /\ ~ Has(p, found, "static") /\ MemberAccessible(p, accessing, found)
    THEN found
    ELSE NoClass

\* The declaration an object of class c runs for a checked target: the nearest
\* one with a body between c and the target, whatever its modifiers.
VirtualTarget(p, c, declared) ==
    LET chain == Chain(p, c)
        within == IF Contains(chain, declared)
                  THEN SubSeq(chain, 1, SelectInSeq(chain, LAMBDA k : k = declared))
                  ELSE chain
        HasBody(k) == Declares(p, k) /\ p.method[k].body
        target == FirstOrNone(SelectSeq(within, HasBody))
    IN  IF target = NoClass THEN declared ELSE target

-----------------------------------------------------------------------------
(* Overloads. Types are the builtin ones below and classes of p; an argument *)
(* may be Null. A candidate is the sequence of its parameter types.          *)

Numeric == <<"Integer", "Long", "Decimal">>

IsSubtype(p, actual, expected) ==
    \/ actual = expected
    \/ expected = "Object"
    \/ \E i, j \in DOMAIN Numeric : i < j /\ actual = Numeric[i] /\ expected = Numeric[j]
    \/ {actual, expected} \subseteq Classes /\ IsOrInherits(p, actual, expected)

IsAssignable(p, expected, actual) == actual = "Null" \/ IsSubtype(p, actual, expected)

MoreSpecific(p, left, right) ==
    /\ \A i \in DOMAIN left : left[i] = right[i] \/ IsSubtype(p, left[i], right[i])
    /\ \E i \in DOMAIN left : left[i] # right[i]

Applicable(p, candidates, arguments) ==
    {c \in candidates : Len(c) = Len(arguments)
        /\ \A i \in DOMAIN c : IsAssignable(p, c[i], arguments[i])}

Undominated(p, applicable) ==
    {c \in applicable : ~ \E other \in applicable \ {c} : MoreSpecific(p, other, c)}

\* The one undominated candidate, as a set: empty when there is none or more.
Selected(p, candidates, arguments) ==
    LET best == Undominated(p, Applicable(p, candidates, arguments))
    IN  IF Cardinality(best) = 1 THEN best ELSE {}

=============================================================================
