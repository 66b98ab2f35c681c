----------------------------- MODULE Intrinsics -----------------------------
(***************************************************************************)
(* The methods of List, Set, Map and String, the constructors of            *)
(* collections and list indexes: which uses semantic/intrinsics.rs and      *)
(* semantic.rs accept with which type, and what runtime/intrinsics.rs and   *)
(* runtime.rs make of those.                                                *)
(*                                                                         *)
(* A type is a tuple of names, <<"Integer">> or <<"Map", "String", "Long">>. *)
(* A store is a sequence of collections [type, elements, frozen]: the        *)
(* elements of a map are pairs, and a frozen collection is one that is being *)
(* iterated or belongs to a trigger. A collection is referred to by its      *)
(* place in the store: its value is Outcome("Collection", place).           *)
(***************************************************************************)
EXTENDS Typing
LOCAL INSTANCE TLC

Void == <<"Void">>
Of(type) == <<type>>
Integer == Of("Integer")
Boolean == Of("Boolean")
Source(type) == <<"Source", type>>     \* a parameter that takes a List or a Set
Exactly(type) == <<"Exactly", type>>   \* an operand that is not converted

-----------------------------------------------------------------------------
(* Static types.                                                            *)

Takes(parameter, actual) ==
    CASE parameter[1] = "Exactly" -> actual = Of(parameter[2])
      [] parameter[1] = "Source" -> actual \in {Of("Null"), <<"List", parameter[2]>>, <<"Set", parameter[2]>>}
      [] Len(parameter) = 1 /\ Len(actual) = 1 -> Assignable(parameter[1], actual[1])
      [] OTHER -> actual = parameter \/ actual = Of("Null") \/ parameter = Of("Object")

Signature(method, takes, gives) == [method |-> method, takes |-> takes, gives |-> gives]

CommonMethods(self) ==
    {Signature("clear", <<>>, Void), Signature("clone", <<>>, self), Signature("isEmpty", <<>>, Boolean),
     Signature("size", <<>>, Integer)}

ListMethods(element) ==
    LET e == Of(element) IN
    {Signature("add", <<e>>, Void), Signature("add", <<Integer, e>>, Void),
     Signature("addAll", <<Source(element)>>, Void), Signature("contains", <<e>>, Boolean),
     Signature("get", <<Integer>>, e), Signature("[]", <<Exactly("Integer")>>, e), Signature("indexOf", <<e>>, Integer),
     Signature("remove", <<Integer>>, e), Signature("set", <<Integer, e>>, Void)} \cup
    (IF element \in {"String", "Integer", "Long"} THEN {Signature("sort", <<>>, Void)} ELSE {})

SetMethods(element) ==
    {Signature(method, <<Of(element)>>, Boolean) : method \in {"add", "contains", "remove"}} \cup
    {Signature(method, <<Source(element)>>, Boolean) :
        method \in {"addAll", "containsAll", "removeAll", "retainAll"}}

MapMethods(key, value) ==
    {Signature("containsKey", <<Of(key)>>, Boolean), Signature("get", <<Of(key)>>, Of(value)),
     Signature("keySet", <<>>, <<"Set", key>>), Signature("put", <<Of(key), Of(value)>>, Of(value)),
     Signature("putAll", <<<<"Map", key, value>>>>, Void), Signature("remove", <<Of(key)>>, Of(value)),
     Signature("values", <<>>, <<"List", value>>)}

StringMethods ==
    LET s == Of("String") IN
    {Signature("length", <<>>, Integer), Signature("indexOf", <<s>>, Integer),
     Signature("substring", <<Integer>>, s), Signature("substring", <<Integer, Integer>>, s),
     Signature("replace", <<s, s>>, s)} \cup
    {Signature(method, <<s>>, Boolean) :
        method \in {"contains", "startsWith", "endsWith", "equals", "equalsIgnoreCase"}} \cup
    {Signature(method, <<>>, s) : method \in {"trim", "toLowerCase", "toUpperCase"}}

StaticStringMethods ==
    {Signature(method, <<Of("String")>>, Boolean) : method \in {"isBlank", "isNotBlank", "isEmpty", "isNotEmpty"}}

Methods(type) ==
    CASE type[1] = "List"        -> ListMethods(type[2]) \cup CommonMethods(type)
      [] type[1] = "Set"         -> SetMethods(type[2]) \cup CommonMethods(type)
      [] type[1] = "Map"         -> MapMethods(type[2], type[3]) \cup CommonMethods(type)
      [] type = Of("String")     -> StringMethods
      [] type = <<"class String">> -> StaticStringMethods

Refuse == Of(Rejected)

\* A method has at most one signature of a length.
MethodType(receiver, method, types) ==
    LET fits == {s \in Methods(receiver) :
                    /\ s.method = method /\ Len(s.takes) = Len(types)
                    /\ \A i \in DOMAIN types : Takes(s.takes[i], types[i])}
    IN  IF fits = {} THEN Refuse ELSE (CHOOSE s \in fits : TRUE).gives

\* new_collection_type: "copy" has at most one argument, "entries" lists a key
\* and a value for each entry.
IsConstructor(type, how, types) ==
    CASE how = "copy"     -> \/ types = <<>>
                             \/ Len(types) = 1 /\ Takes(IF type[1] = "Map" THEN type ELSE Source(type[2]), types[1])
      [] how = "elements" -> type[1] # "Map" /\ \A i \in DOMAIN types : Takes(Of(type[2]), types[i])
      [] how = "entries"  -> type[1] = "Map" /\ \A i \in DOMAIN types : Takes(Of(type[3 - (i % 2)]), types[i])
      [] how = "size"     -> type[1] = "List" /\ types[1] \in {Integer, Of("Long")}

NewType(type, how, types) == IF IsConstructor(type, how, types) THEN type ELSE Refuse

-----------------------------------------------------------------------------
(* Collections.                                                             *)

Collection(type, elements) == [type |-> type, elements |-> elements, frozen |-> FALSE]
Result(store, value) == [store |-> store, value |-> value]
Done == Outcome("Void", 0)
Number(n) == Outcome("Integer", n)

Allocated(store, type, elements) ==
    Result(Append(store, Collection(type, elements)), Outcome("Collection", Len(store) + 1))

\* The first of the faults ends the call; "" is none.
Unless(store, faults, result) ==
    LET found == SelectSeq(faults, LAMBDA fault : fault # "")
    IN  IF found = <<>> THEN result ELSE Result(store, Outcome(Head(found), 0))

IsNull(value) == value.is = "Null"
NullFault(value) == IF IsNull(value) THEN "NullPointerException" ELSE ""
FrozenFault(collection) == IF collection.frozen THEN "FinalException" ELSE ""
IndexFault(index, limit) ==
    CASE IsNull(index) -> "NullPointerException"
      [] index.is # "Integer" -> "Internal"
      [] index.n < 0 \/ index.n >= limit -> "ListException"
      [] OTHER -> ""

Changed(store, id, faults, elements, value) ==
    Unless(store, faults, Result([store EXCEPT ![id].elements = elements], value))

\* values_equal: numbers by what they denote, texts with their case.
ValuesEqual(l, r) == (l.is = r.is \/ (IsIntegral(l.is) /\ IsIntegral(r.is))) /\ l.n = r.n

Position(elements, value) == SelectInSeq(elements, LAMBDA e : ValuesEqual(e, value))   \* 0 where there is none
Includes(elements, value) == Position(elements, value) > 0
Typed(elements, type) == [i \in DOMAIN elements |-> TypedValue(elements[i], type)]

\* A slip: an element is added whether the set has it or not.
WithAny(elements, value, type) == Append(elements, TypedValue(value, type))

With(elements, value, type) ==
    LET typed == TypedValue(value, type) IN IF Includes(elements, typed) THEN elements ELSE Append(elements, typed)

WithAll(elements, values, type) == FoldLeft(LAMBDA all, v : With(all, v, type), elements, values)

\* Nulls first; the checker keeps other values out.
SortsBefore(l, r) == ~ IsNull(r) /\ (IsNull(l) \/ l.n < r.n)
IsSortable(v) == v.is \in {"String", "Integer", "Long", "Null"}

CallList(store, id, method, args) ==
    LET list == store[id].elements
        type == store[id].type[2]
        frozen == FrozenFault(store[id])
        from == args[1].n + 1
    IN  CASE method = "add" /\ Len(args) = 1 ->
                Changed(store, id, <<frozen>>, Append(list, TypedValue(args[1], type)), Done)
          [] method = "add" /\ Len(args) = 2 ->
                Changed(store, id, <<frozen, IndexFault(args[1], Len(list) + 1)>>,
                        InsertAt(list, from, TypedValue(args[2], type)), Done)
          [] method = "addAll" ->
                Changed(store, id, <<NullFault(args[1]), frozen>>,
                        list \o Typed(store[args[1].n].elements, type), Done)
          [] method = "clear"    -> Changed(store, id, <<frozen>>, <<>>, Done)
          [] method = "clone"    -> Allocated(store, store[id].type, list)
          [] method = "contains" -> Result(store, Truth(Includes(list, args[1])))
          [] method \in {"get", "[]"} -> Unless(store, <<IndexFault(args[1], Len(list))>>, Result(store, list[from]))
          [] method = "indexOf"  -> Result(store, Number(Position(list, args[1]) - 1))
          [] method = "isEmpty"  -> Result(store, Truth(list = <<>>))
          [] method = "remove"   ->
                Changed(store, id, <<frozen, IndexFault(args[1], Len(list))>>, RemoveAt(list, from), list[from])
          [] method = "set"      ->
                Changed(store, id, <<frozen, IndexFault(args[1], Len(list))>>,
                        ReplaceAt(list, from, TypedValue(args[2], type)), Done)
          [] method = "size"     -> Result(store, Number(Len(list)))
          [] method = "sort"     ->
                Changed(store, id, <<frozen, IF \A i \in DOMAIN list : IsSortable(list[i]) THEN "" ELSE "TypeException">>,
                        SortSeq(list, SortsBefore), Done)

CallSet(store, id, method, args) ==
    LET set == store[id].elements
        type == store[id].type[2]
        frozen == FrozenFault(store[id])
        source == store[args[1].n].elements
        Becomes(faults, elements) == Changed(store, id, faults, elements, Truth(Len(elements) # Len(set)))
    IN  CASE method = "add"      -> Becomes(<<frozen>>, With(set, args[1], type))
          [] method = "addAll"   -> Becomes(<<NullFault(args[1]), frozen>>, WithAll(set, source, type))
          [] method = "clear"    -> Changed(store, id, <<frozen>>, <<>>, Done)
          [] method = "clone"    -> Allocated(store, store[id].type, set)
          [] method = "contains" -> Result(store, Truth(Includes(set, args[1])))
          [] method = "containsAll" ->
                Unless(store, <<NullFault(args[1])>>,
                       Result(store, Truth(\A i \in DOMAIN source : Includes(set, source[i]))))
          [] method = "isEmpty"  -> Result(store, Truth(set = <<>>))
          [] method = "remove"   ->
                Becomes(<<frozen>>, IF Includes(set, args[1]) THEN RemoveAt(set, Position(set, args[1])) ELSE set)
          [] method \in {"removeAll", "retainAll"} ->
                Becomes(<<NullFault(args[1]), frozen>>,
                        SelectSeq(set, LAMBDA v : Includes(source, v) = (method = "retainAll")))
          [] method = "size"     -> Result(store, Number(Len(set)))

Keys(entries) == [i \in DOMAIN entries |-> entries[i][1]]
Values(entries) == [i \in DOMAIN entries |-> entries[i][2]]

\* map_put: an equal key gives way to the new one, in its place.
Put(entries, type, key, value) ==
    LET entry == <<TypedValue(key, type[2]), TypedValue(value, type[3])>>
        at == Position(Keys(entries), entry[1])
    IN  IF at > 0 THEN ReplaceAt(entries, at, entry) ELSE Append(entries, entry)

PutAll(entries, type, more) == FoldLeft(LAMBDA all, entry : Put(all, type, entry[1], entry[2]), entries, more)

CallMap(store, id, method, args) ==
    LET map == store[id].elements
        type == store[id].type
        frozen == FrozenFault(store[id])
        at == Position(Keys(map), args[1])
        Held(i) == IF i > 0 THEN map[i][2] ELSE NullValue
    IN  CASE method = "clear"   -> Changed(store, id, <<frozen>>, <<>>, Done)
          [] method = "clone"   -> Allocated(store, type, map)
          [] method = "containsKey" -> Result(store, Truth(at > 0))
          [] method = "get"     -> Result(store, Held(at))
          [] method = "isEmpty" -> Result(store, Truth(map = <<>>))
          [] method = "keySet"  -> Allocated(store, <<"Set", type[2]>>, Keys(map))
          [] method = "put"     ->
                Changed(store, id, <<frozen>>, Put(map, type, args[1], args[2]),
                        Held(Position(Keys(map), TypedValue(args[1], type[2]))))
          [] method = "putAll"  ->
                Changed(store, id, <<NullFault(args[1]), frozen>>,
                        PutAll(map, type, store[args[1].n].elements), Done)
          [] method = "remove"  ->
                Changed(store, id, <<frozen>>, IF at > 0 THEN RemoveAt(map, at) ELSE map, Held(at))
          [] method = "size"    -> Result(store, Number(Len(map)))
          [] method = "values"  -> Allocated(store, <<"List", type[3]>>, Values(map))

CallCollection(store, receiver, method, args) ==
    Unless(store, <<NullFault(receiver)>>,
           CASE store[receiver.n].type[1] = "List" -> CallList(store, receiver.n, method, args)
             [] store[receiver.n].type[1] = "Set"  -> CallSet(store, receiver.n, method, args)
             [] store[receiver.n].type[1] = "Map"  -> CallMap(store, receiver.n, method, args))

\* evaluate_new_collection. A copy of a map takes its entries as they are.
New(store, type, how, args) ==
    LET Sequence(values) ==
            Allocated(store, type, IF type[1] = "Set" THEN WithAll(<<>>, values, type[2]) ELSE Typed(values, type[2]))
        pairs == [i \in 1 .. Len(args) \div 2 |-> <<args[2 * i - 1], args[2 * i]>>]
    IN  CASE how = "copy" /\ args = <<>> -> Allocated(store, type, <<>>)
          [] how = "copy" /\ args # <<>> ->
                Unless(store, <<NullFault(args[1])>>,
                       IF type[1] = "Map" THEN Allocated(store, type, store[args[1].n].elements)
                       ELSE Sequence(store[args[1].n].elements))
          [] how = "elements" -> Sequence(args)
          [] how = "entries"  -> Allocated(store, type, PutAll(<<>>, type, pairs))
          [] how = "size"     ->
                Unless(store, <<NullFault(args[1]), IF args[1].n < 0 THEN "ListException" ELSE "">>,
                       Allocated(store, type, [i \in 1 .. args[1].n |-> NullValue]))

-----------------------------------------------------------------------------
(* Strings: sequences of characters. A position counts UTF-16 units, of     *)
(* which the wide character has two.                                        *)

Wide == "W"
Text(characters) == Outcome("String", characters)
UnitsOf(character) == IF character = Wide THEN 2 ELSE 1
LengthOf(text) == FoldLeft(LAMBDA n, c : n + UnitsOf(c), 0, text)

\* A slip: positions count characters.
CharactersUpTo(text, unit) == IF unit <= Len(text) THEN unit ELSE -1

\* utf16_byte_index: the number of characters before a unit, -1 inside one.
CharactersBefore(text, unit) ==
    LET at == {n \in 0 .. Len(text) : LengthOf(SubSeq(text, 1, n)) = unit}
    IN  IF at = {} THEN -1 ELSE CHOOSE n \in at : TRUE

UnitFault(index) ==
    CASE IsNull(index) -> "NullPointerException"
      [] index.is # "Integer" -> "Internal"
      [] index.n < 0 -> "StringException"
      [] OTHER -> ""

Substring(text, start, end) ==
    LET from == CharactersBefore(text, start)
        to == CharactersBefore(text, end)
    IN  IF start > end \/ end > LengthOf(text) \/ from = -1 \/ to = -1 THEN Raised("StringException")
        ELSE Text(SubSeq(text, from + 1, to))

\* The characters before the first occurrence, -1 where there is none.
Find(text, part) ==
    LET at == {n \in 0 .. Len(text) - Len(part) : SubSeq(text, n + 1, n + Len(part)) = part}
    IN  IF at = {} THEN -1 ELSE CHOOSE n \in at : \A m \in at : n <= m

\* From left to right without overlaps; nothing is found before every
\* character and at the end.
RECURSIVE Replaced(_, _, _)
Replaced(text, part, by) ==
    LET at == Find(text, part)
        rest == SubSeq(text, at + Len(part) + 1, Len(text))
    IN  CASE at = -1 -> text
          [] part = <<>> /\ text = <<>> -> by
          [] part = <<>> /\ text # <<>> -> by \o <<Head(text)>> \o Replaced(Tail(text), part, by)
          [] OTHER -> SubSeq(text, 1, at) \o by \o Replaced(rest, part, by)

RECURSIVE Trimmed(_)
Trimmed(text) ==
    CASE text # <<>> /\ text[1] = " "         -> Trimmed(Tail(text))
      [] text # <<>> /\ text[Len(text)] = " " -> Trimmed(Front(text))
      [] OTHER -> text

Cased(text, from, to) == [i \in DOMAIN text |-> IF text[i] = from THEN to ELSE text[i]]
Lower(text) == Cased(text, "A", "a")
Upper(text) == Cased(text, "a", "A")

StringOutcome(text, method, args) ==
    LET part == args[1].n IN
    CASE method = "length"      -> Number(LengthOf(text))
      [] method = "contains"    -> Truth(Find(text, part) # -1)
      [] method = "startsWith"  -> Truth(IsPrefix(part, text))
      [] method = "endsWith"    -> Truth(IsSuffix(part, text))
      [] method = "equals"      -> Truth(~ IsNull(args[1]) /\ part = text)
      [] method = "equalsIgnoreCase" -> Truth(~ IsNull(args[1]) /\ Lower(part) = Lower(text))
      [] method = "indexOf"     -> Number(IF Find(text, part) = -1 THEN -1
                                          ELSE LengthOf(SubSeq(text, 1, Find(text, part))))
      [] method = "substring"   -> Substring(text, args[1].n, IF Len(args) = 2 THEN args[2].n ELSE LengthOf(text))
      [] method = "trim"        -> Text(Trimmed(text))
      [] method = "toLowerCase" -> Text(Lower(text))
      [] method = "toUpperCase" -> Text(Upper(text))
      [] method = "replace"     -> Text(Replaced(text, part, args[2].n))

CallString(receiver, method, args) ==
    LET Fault(value) == CASE method = "substring" -> UnitFault(value)
                          [] method \in {"equals", "equalsIgnoreCase"} -> ""
                          [] OTHER -> NullFault(value)
        faults == SelectSeq(<<NullFault(receiver)>> \o [i \in DOMAIN args |-> Fault(args[i])], LAMBDA f : f # "")
    IN  IF faults = <<>> THEN StringOutcome(receiver.n, method, args) ELSE Outcome(Head(faults), 0)

CallStaticString(method, value) ==
    LET empty == IsNull(value) \/ value.n = <<>>
        blank == empty \/ Trimmed(value.n) = <<>>
    IN  Truth(CASE method = "isEmpty"    -> empty
                [] method = "isNotEmpty" -> ~ empty
                [] method = "isBlank"    -> blank
                [] method = "isNotBlank" -> ~ blank)
=============================================================================
