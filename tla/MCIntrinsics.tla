---------------------------- MODULE MCIntrinsics ----------------------------
(***************************************************************************)
(* Calls on lists, sets, maps and strings of a few elements, and the        *)
(* sequences, sets, functions and UTF-16 texts they stand for.              *)
(***************************************************************************)
EXTENDS MCLanguage, FiniteSets

Whole(n) == Typed!Outcome("Integer", n)
LongOf(n) == Typed!Outcome("Long", n)
WordOf(n) == Typed!Outcome("String", n)
RefersTo(place) == Typed!Outcome("Collection", place)

-----------------------------------------------------------------------------
(* Collections: the store of a call has its receiver first.                 *)

ElementsOf(type) ==
    CASE type = "Integer" -> {Whole(1), Whole(2), Typed!NullValue}
      [] type = "Long"    -> {LongOf(1), LongOf(2), Typed!NullValue}
      [] type = "Object"  -> {Whole(1), LongOf(1), WordOf(1), Typed!NullValue}
      [] type = "String"  -> {WordOf(1), WordOf(2), Typed!NullValue}

SequencesOf(type, length) == UNION {[1 .. n -> ElementsOf(type)] : n \in 0 .. length}
SetsOf(type, length) ==
    {s \in SequencesOf(type, length) : \A i, j \in DOMAIN s : i # j => ~ Typed!ValuesEqual(s[i], s[j])}
EntriesOf(key, value) ==
    UNION {{[i \in DOMAIN keys |-> <<keys[i], values[i]>>] :
               values \in [DOMAIN keys -> {v \in ElementsOf(value) : v.n < 2}]} : keys \in SetsOf(key, 2)}

ContentsOf(type) ==
    CASE type[1] = "List" -> SequencesOf(type[2], IF type[2] = "String" THEN 3 ELSE 2)
      [] type[1] = "Set"  -> SetsOf(type[2], 3)
      [] type[1] = "Map"  -> EntriesOf(type[2], type[3])

ReceiverTypes ==
    {<<kind, element>> : kind \in {"List", "Set"}, element \in {"Integer", "Long", "Object"}} \cup
    {<<"List", "String">>, <<"Map", "Integer", "Long">>, <<"Map", "Long", "Integer">>, <<"Map", "Object", "Integer">>}

\* Beside the receiver are what a call may copy from, a list and a set of its
\* type or a map, and a list that is of no receiver's type.
Beside(type) ==
    LET some == CHOOSE s \in SetsOf(type[2], 2) : Len(s) = 2 /\ s[1].is # "Null" /\ s[2].is # "Null"
        other == Typed!Collection(<<"List", "Boolean">>, <<>>)
    IN  IF type[1] = "Map"
        THEN <<Typed!Collection(type, CHOOSE e \in ContentsOf(type) : Typed!Keys(e) = some /\ e[1][2] # e[2][2]), other>>
        ELSE <<Typed!Collection(<<"List", type[2]>>, <<some[2], some[1], some[2]>>),
               Typed!Collection(<<"Set", type[2]>>, some), other>>

StoresOf(type) ==
    LET beside == Beside(type)
    IN  {<<[type |-> type, elements |-> elements, frozen |-> frozen]>> \o beside :
            elements \in ContentsOf(type), frozen \in BOOLEAN}

\* What may be written for an argument: its type and its value.
FewScalars ==
    {<<Typed!Integer, Whole(1)>>, <<<<"Long">>, LongOf(1)>>, <<<<"Null">>, Typed!NullValue>>, <<<<"String">>, WordOf(1)>>}
Scalars == FewScalars \cup {<<Typed!Integer, v>> : v \in {Whole(-1), Whole(0), Whole(2), Whole(3), Typed!NullValue}}
Referring(store) ==
    {<<store[i].type, RefersTo(i)>> : i \in DOMAIN store} \cup {<<store[2].type, Typed!NullValue>>}

PosesCall(what, store, type, receiver, method, arguments) ==
    Poses(what, [store |-> store, type |-> type, receiver |-> receiver, method |-> method,
                 types |-> [i \in DOMAIN arguments |-> arguments[i][1]],
                 args |-> [i \in DOMAIN arguments |-> arguments[i][2]]])

Taking(type, arity) == {s.method : s \in {t \in Typed!Methods(type) : Len(t.takes) = arity}}

CallsOn(store, type, receiver) ==
    LET Is(method, arguments) == PosesCall("call", store, type, receiver, method, arguments) IN
    \/ \E method \in Taking(type, 0) : Is(method, <<>>)
    \/ \E method \in Taking(type, 1), a \in Scalars \cup Referring(store) : Is(method, <<a>>)
    \/ \E method \in Taking(type, 2), a \in Scalars, b \in FewScalars : Is(method, <<a, b>>)

\* A constructor writes its type, and how it is filled where a method is named.
Constructors(store, type) ==
    LET Is(how, arguments) == PosesCall("new", store, type, Typed!NullValue, how, arguments) IN
    \/ Is("copy", <<>>)
    \/ \E a \in Referring(store) : Is("copy", <<a>>)
    \/ \E how \in {"elements", "entries"}, a \in FewScalars, b \in Scalars :
          Is(how, <<a, b>>) \/ \E c \in FewScalars : Is(how, <<a, b, b, c>>)
    \/ \E a \in Scalars : Is("size", <<a>>)

CallInit ==
    \E type \in ReceiverTypes : \E store \in StoresOf(type) :
        /\ store[1].frozen => Len(store[1].elements) = 1
        /\ \/ CallsOn(store, type, RefersTo(1))
           \/ store[1].elements = <<>> /\ (CallsOn(store, type, Typed!NullValue) \/ Constructors(store, type))

Judge(type, result) == <<type, IF type = Typed!Refuse THEN type ELSE result>>

RunCall ==
    \/ Answers("call", Judge(Typed!MethodType(Given.type, Given.method, Given.types),
                             Typed!CallCollection(Given.store, Given.receiver, Given.method, Given.args)))
    \/ Answers("new", Judge(Typed!NewType(Given.type, Given.method, Given.types),
                            Typed!New(Given.store, Given.type, Given.method, Given.args)))

-----------------------------------------------------------------------------
(* Strings.                                                                 *)

TextsOf(characters, length) == UNION {[1 .. n -> characters] : n \in 0 .. length}
Receivers == TextsOf({"a", "A", " ", Typed!Wide}, 2) \cup [1 .. 3 -> {"a", Typed!Wide}]
Parts == TextsOf({"a", "A", Typed!Wide}, 2)

ManyTexts(Is(_, _)) ==
    LET word == Typed!Of("String")
        none == <<word, Typed!NullValue>>
    IN  \/ \E method \in Taking(word, 0) : Is(method, <<>>)
        \/ \E method \in Taking(word, 1) : Is(method, <<none>>) \/ \E p \in Parts : Is(method, <<<<word, Typed!Text(p)>>>>)
        \/ \E p \in Parts : Is("replace", <<<<word, Typed!Text(p)>>, none>>) \/ Is("replace", <<none, <<word, Typed!Text(p)>>>>)
        \/ \E p \in Parts, by \in {<<>>, <<"A">>, <<"A", "a">>} :
              Is("replace", <<<<word, Typed!Text(p)>>, <<word, Typed!Text(by)>>>>)
        \/ \E a \in {<<Typed!Integer, Whole(n)>> : n \in -1 .. 7} \cup Scalars :
              Is("substring", <<a>>) \/ \E n \in -1 .. 7 : Is("substring", <<a, <<Typed!Integer, Whole(n)>>>>)

TextInput(type, receiver, method, arguments) == PosesCall("string", <<>>, type, receiver, method, arguments)

StringInit ==
    LET word == Typed!Of("String") IN
    \/ ManyTexts(LAMBDA method, arguments : TextInput(word, Typed!NullValue, method, arguments))
    \/ \E method \in Taking(<<"class String">>, 1) :
          TextInput(<<"class String">>, Typed!NullValue, method, <<<<word, Typed!NullValue>>>>)
    \/ \E text \in Receivers :
          \/ ManyTexts(LAMBDA method, arguments : TextInput(word, Typed!Text(text), method, arguments))
          \/ \E method \in Taking(<<"class String">>, 1) :
                TextInput(<<"class String">>, Typed!NullValue, method, <<<<word, Typed!Text(text)>>>>)

CallText ==
    Answers("string", Judge(Typed!MethodType(Given.type, Given.method, Given.types),
                          IF Given.type = <<"class String">> THEN Typed!CallStaticString(Given.method, Given.args[1])
                          ELSE Typed!CallString(Given.receiver, Given.method, Given.args)))

-----------------------------------------------------------------------------

IsJudged(whats) == outcome # Pending /\ subject.what \in whats /\ outcome[1] # Typed!Refuse
Returns(value) == value.is \notin Typed!Exceptions

\* Equal values have one meaning: a number, whichever its width, or a word.
Meaning(value) == IF Typed!IsIntegral(value.is) THEN <<"number", value.n>> ELSE <<value.is, value.n>>
Meanings(values) == [i \in DOMAIN values |-> Meaning(values[i])]
AsFunction(entries) ==
    [k \in {Meaning(entries[i][1]) : i \in DOMAIN entries} |->
        CHOOSE v \in {Meaning(entries[i][2]) : i \in DOMAIN entries} :
            \E i \in DOMAIN entries : <<k, v>> = <<Meaning(entries[i][1]), Meaning(entries[i][2])>>]

KeepsType(value, type) == value.is = "Null" \/ Typed!HasType(value, type)
AreDistinct(values) == Cardinality(Range(Meanings(values))) = Len(values)
IsSound(c) ==
    CASE c.type[1] = "List" -> \A i \in DOMAIN c.elements : KeepsType(c.elements[i], c.type[2])
      [] c.type[1] = "Set"  -> /\ \A i \in DOMAIN c.elements : KeepsType(c.elements[i], c.type[2])
                               /\ AreDistinct(c.elements)
      [] c.type[1] = "Map"  -> /\ \A i \in DOMAIN c.elements : /\ KeepsType(c.elements[i][1], c.type[2])
                                                               /\ KeepsType(c.elements[i][2], c.type[3])
                               /\ AreDistinct(Typed!Keys(c.elements))

\* A call the checker accepts gives a value of its static type or raises, and a
\* call that raises changes nothing. It changes its receiver alone, and that
\* only while nothing iterates over it; what it makes is a collection apart.
\* Every collection goes on to have what its type says: elements converted to
\* it, no element or key of a set or map twice. A collection may be copied
\* into itself.
CallsKeepTypes ==
    IsJudged({"call", "new"}) =>
        LET before == Given.store
            after == outcome[2].store
            value == outcome[2].value
            type == outcome[1]
        IN  /\ value.is \notin {"Internal", "TypeException"}
            /\ Returns(value) =>
                  CASE type = Typed!Void   -> value = Typed!Done
                    [] value.is = "Collection" -> value.n > Len(before) /\ after[value.n].type = type
                    [] OTHER               -> KeepsType(value, type[1])
            /\ \A i \in DOMAIN before : after[i] # before[i] =>
                  Returns(value) /\ subject.what = "call" /\ i = 1 /\ ~ before[i].frozen
            /\ \A i \in DOMAIN after : IsSound(after[i])

ListStandsFor(method, before, after, args, value) ==
    CASE method = "add" /\ Len(args) = 2 -> after[args[1].n + 1] = Meaning(args[2]) /\ RemoveAt(after, args[1].n + 1) = before
      [] method = "remove"  -> Meaning(value) = before[args[1].n + 1] /\ InsertAt(after, args[1].n + 1, Meaning(value)) = before
      [] method = "indexOf" -> IF value.n = -1 THEN Meaning(args[1]) \notin Range(before)
                               ELSE SelectInSeq(before, LAMBDA v : v = Meaning(args[1])) = value.n + 1
      [] method = "sort"    -> /\ \A v \in Range(before) \cup Range(after) :
                                     Cardinality({i \in DOMAIN before : before[i] = v}) = Cardinality({i \in DOMAIN after : after[i] = v})
                               /\ \A i, j \in DOMAIN after : i < j => after[i][1] = "Null" \/ (after[j][1] # "Null" /\ after[i][2] <= after[j][2])
      [] OTHER -> TRUE

SetStandsFor(method, before, after, argument, source, value) ==
    LET had == Range(before)
        has == CASE method = "add"       -> had \cup {argument}
               [] method = "addAll"    -> had \cup source
               [] method = "remove"    -> had \ {argument}
               [] method = "removeAll" -> had \ source
               [] method = "retainAll" -> had \cap source
               [] method = "clear"     -> {}
               [] OTHER                -> had
    IN  /\ Range(after) = has
        /\ IsPrefix(SelectSeq(before, LAMBDA v : v \in has), after)
        /\ value.is = "Boolean" =>
              (value.n = 1 <=> CASE method = "contains"    -> argument \in had
                                 [] method = "containsAll" -> source \subseteq had
                                 [] method = "isEmpty"     -> had = {}
                                 [] OTHER                  -> has # had)

MapStandsFor(method, before, after, args, source, value) ==
    LET key == Meaning(args[1])
        absent == Meaning(Typed!NullValue)
    IN  /\ after = CASE method = "put"    -> (key :> Meaning(args[2])) @@ before
                     [] method = "putAll" -> source @@ before
                     [] method = "remove" -> [k \in DOMAIN before \ {key} |-> before[k]]
                     [] method = "clear"  -> <<>>
                     [] OTHER             -> before
        /\ method \in {"get", "put", "remove"} =>
              Meaning(value) = IF key \in DOMAIN before THEN before[key] ELSE absent
        /\ method = "containsKey" => (value.n = 1 <=> key \in DOMAIN before)

\* Lists, sets and maps are sequences, sets and functions: numbers of different
\* widths are one element and one key, a call on a set says whether it changed
\* it, and elements and keys stay in the order in which they came.
CollectionsStandForTheirMeaning ==
    IsJudged({"call"}) /\ Returns(outcome[2].value) =>
        LET before == Given.store[1].elements
            after == outcome[2].store[1].elements
            value == outcome[2].value
            more == Given.store[Given.args[1].n].elements
        IN  CASE Given.type[1] = "List" -> ListStandsFor(Given.method, Meanings(before), Meanings(after), Given.args, value)
              [] Given.type[1] = "Set"  ->
                    SetStandsFor(Given.method, Meanings(before), Meanings(after), Meaning(Given.args[1]), Range(Meanings(more)), value)
              [] Given.type[1] = "Map"  ->
                    MapStandsFor(Given.method, AsFunction(before), AsFunction(after), Given.args, AsFunction(more), value)

CodeUnits(text) ==
    FoldLeft(LAMBDA units, c : units \o (IF c = Typed!Wide THEN <<"high", "low">> ELSE <<c>>), <<>>, text)

IsAt(units, part, n) == n >= 0 /\ n + Len(part) <= Len(units) /\ SubSeq(units, n + 1, n + Len(part)) = part
Occurrences(units, part) == {n \in 0 .. Len(units) : IsAt(units, part, n)}
Splits(units, n) == n < Len(units) /\ units[n + 1] = "low"

\* "String `length`, `indexOf`, and `substring` use UTF-16 code-unit positions":
\* a text is its units. A substring is the units between its bounds, and raises
\* exactly when they are out of range or inside a pair; a search finds the first
\* occurrence, a replacement the most that do not overlap.
TextsAreTheirUnits ==
    IsJudged({"string"}) =>
        LET units == CodeUnits(Given.receiver.n)
            part == CodeUnits(Given.args[1].n)
            value == outcome[2]
            start == Given.args[1].n
            end == IF Len(Given.args) = 2 THEN Given.args[2].n ELSE Len(units)
            hasNull == \E v \in {Given.receiver.is} \cup {Given.args[i].is : i \in DOMAIN Given.args} : v = "Null"
            Apart(ns) == \A m, n \in ns : m < n => m + Len(part) <= n
        IN  /\ value.is \in {"NullPointerException", "StringException"} \/ KeepsType(value, outcome[1][1])
            /\ Given.type = Typed!Of("String") /\ ~ hasNull =>
                  CASE Given.method = "length"     -> value.n = Len(units)
                    [] Given.method = "indexOf"    ->
                          value.n = IF Occurrences(units, part) = {} THEN -1 ELSE Min(Occurrences(units, part))
                    [] Given.method = "contains"   -> value.n = 1 <=> Occurrences(units, part) # {}
                    [] Given.method = "startsWith" -> value.n = 1 <=> 0 \in Occurrences(units, part)
                    [] Given.method = "endsWith"   -> value.n = 1 <=> Len(units) - Len(part) \in Occurrences(units, part)
                    [] Given.method = "substring"  ->
                          IF 0 <= start /\ start <= end /\ end <= Len(units) /\ ~ Splits(units, start) /\ ~ Splits(units, end)
                          THEN Returns(value) /\ CodeUnits(value.n) = SubSeq(units, start + 1, end)
                          ELSE value.is = "StringException"
                    [] Given.method = "replace" /\ part # <<>> ->
                          Len(CodeUnits(value.n)) - Len(units) =
                              (Len(Given.args[2].n) - Len(part)) *
                                  Max({Cardinality(ns) : ns \in {s \in SUBSET Occurrences(units, part) : Apart(s)}})
                    [] OTHER -> TRUE

\* An expression the checker accepts means what its type says: its value has
\* the type, within its width, and a number is the one its operation denotes;
\* a call leaves every collection sound and gives what the sequence, set,
\* function or text it stands for gives.
AcceptedExpressionsKeepTheirType ==
    /\ ValuesKeepTheirType /\ ArithmeticIsExact
    /\ CallsKeepTypes /\ CollectionsStandForTheirMeaning /\ TextsAreTheirUnits
=============================================================================
