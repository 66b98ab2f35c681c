--------------------------- MODULE MCValueGraphs ---------------------------
(***************************************************************************)
(* Texts, JSON and equality of every graph of a few nodes, and what they    *)
(* ought to be.                                                             *)
(***************************************************************************)
EXTENDS Subjects, ValueGraphs, FiniteSets, TLC

\* A number among the leaves; the nodes "a" and "b" are a list or set of up to
\* two values or a map of up to two, "c" is what they may have in common.
LeafValues == Strings \cup {"7"}
Values == LeafValues \cup {"a", "b", "c"}

Sequences(kind) == {[kind |-> kind, entries |-> s] : s \in UNION {[1 .. n -> {<<v>> : v \in Values}] : n \in 0 .. 2}}
Maps ==
    {[kind |-> "Map", entries |-> <<<<k, v>>>>] : k \in {"text", "c"}, v \in Values} \cup
    {[kind |-> "Map", entries |-> <<<<keys[1], v>>, <<keys[2], w>>>>] :
        keys \in {<<"text", "7">>, <<"7", "text">>, <<"c", "text">>}, v \in Values \ Strings, w \in {"7", "a", "b"}}
Thirds ==
    {[kind |-> "List", entries |-> s] : s \in {<<>>, <<<<"a">>>>, <<<<"b">>>>, <<<<"7">>>>}} \cup
    {[kind |-> "SObject", entries |-> <<<<"a">>>>], [kind |-> "Object", entries |-> <<>>]}
Graphs == [{"a", "b"} -> Sequences("List") \cup Sequences("Set") \cup Maps]
GraphOf(two, third) == [n \in {"a", "b", "c"} |-> IF n = "c" THEN third ELSE two[n]]

\* Two sets of two lists, or two maps that have them as keys: candidates that
\* are tried and given up, and met again.
Lists == {[kind |-> "List", entries |-> s] : s \in {<<>>} \cup {<<<<v>>>> : v \in {"7", "c", "d", "e", "f"}}}
Holding(x, y, kind) == IF kind = "Set" THEN <<<<x>>, <<y>>>> ELSE <<<<x, "7">>, <<y, x>>>>
Pairs ==
    {lists @@ ("a" :> [kind |-> kind, entries |-> Holding("c", "d", kind)])
           @@ ("b" :> [kind |-> kind, entries |-> Holding("e", "f", kind)]) :
        lists \in [{"c", "d", "e", "f"} -> Lists], kind \in {"Set", "Map"}}

Ample == [depth |-> 9, nodes |-> 60, elements |-> 60]
Tight == [depth |-> 2, nodes |-> 5, elements |-> 3]

EqualityInit ==
    \/ \E graph \in Pairs : Poses("equality", [graph |-> graph])
    \/ \E two \in Graphs, third \in Thirds : Poses("equality", [graph |-> GraphOf(two, third)])
CompareGraphs == Answers("equality", <<GraphsEqual(Given.graph, "a", "b")>>)

RenderInit ==
    \E two \in Graphs, third \in Thirds, limits \in {Ample, Tight}, build \in Builds, as \in {"text", "json"} :
        /\ two["b"].kind # "Set" /\ (third.kind = "List" => third.entries # <<<<"b">>>>)
        /\ as = "json" => limits = Ample
        /\ Poses(as, [graph |-> GraphOf(two, third), limits |-> limits, build |-> build])
RenderGraph ==
    \/ Answers("text", <<StringifyValue(Given.graph, "a", Given.limits, Given.build)>>)
    \/ Answers("json", <<SerializeValue(Given.graph, "a", Given.limits, Given.build)>>)

-----------------------------------------------------------------------------
(* The greatest relation under which related values have related parts.     *)

Agrees(graph, related, l, r) ==
    LET left == graph[l].entries
        right == graph[r].entries
        Alike(a, b) == \A i \in DOMAIN a : <<a[i], b[i]>> \in related
    IN  IF ~ (IsCollection(graph, l) /\ IsCollection(graph, r)) \/ l = r THEN l = r
        ELSE /\ graph[l].kind = graph[r].kind /\ Len(left) = Len(right)
             /\ IF graph[l].kind = "List" THEN \A i \in DOMAIN left : Alike(left[i], right[i])
                ELSE /\ \A i \in DOMAIN left : \E j \in DOMAIN right : Alike(left[i], right[j])
                     /\ \A j \in DOMAIN right : \E i \in DOMAIN left : Alike(left[i], right[j])

RECURSIVE Greatest(_, _)
Greatest(graph, related) ==
    LET kept == {pair \in related : Agrees(graph, related, pair[1], pair[2])}
    IN  IF kept = related THEN related ELSE Greatest(graph, kept)

Bisimilarity(graph) == Greatest(graph, (LeafValues \cup DOMAIN graph) \X (LeafValues \cup DOMAIN graph))

\* No two elements of a set, nor keys of a map, are equal: so they are kept
\* until one of them is changed inside. A set or a key inside itself is a
\* divergence: while the engine takes two sets for equal, elements that are
\* these sets are told apart no longer, and {a, b} = {"x", b}, where a and b
\* are the two sets themselves, is true and its converse false.
Reach(graph, from) ==
    LET Step(nodes, n) == nodes \cup (UNION {Range(entry) : entry \in UNION {Range(graph[m].entries) : m \in nodes}} \cap DOMAIN graph)
    IN  FoldLeft(Step, {from} \cap DOMAIN graph, [i \in 1 .. Cardinality(DOMAIN graph) |-> i])

HasProperSets(graph, same) ==
    \A n \in DOMAIN graph : graph[n].kind \in {"Set", "Map"} =>
        LET entries == graph[n].entries
        IN  \A i \in DOMAIN entries :
                /\ "cyclicSets" \in Divergences \/ n \notin Reach(graph, entries[i][1])
                /\ \A j \in DOMAIN entries \ {i} : <<entries[i][1], entries[j][1]>> \notin same

\* Two values are equal when nothing tells them apart, whatever cycles they
\* are in and however often a candidate of a set or a map was tried and given
\* up: the verdict does not rest on a pair that was only taken for equal.
EqualityIsBisimilarity ==
    About("equality") =>
        LET same == Bisimilarity(Given.graph)
        IN  HasProperSets(Given.graph, same) => (outcome[1] <=> <<"a", "b">> \in same)

-----------------------------------------------------------------------------
(* A value written out, a node inside itself as a cycle.                    *)

RECURSIVE Unfolded(_, _, _)
Unfolded(graph, value, inside) ==
    LET Part(v) == Unfolded(graph, v, inside \cup {value})
        Entry(entry) == IF Len(entry) = 1 THEN Part(entry[1]) ELSE Part(entry[1]) \o <<"=">> \o Part(entry[2])
    IN  CASE value \notin DOMAIN graph      -> <<value>>
          [] value \in inside               -> <<"cycle">>
          [] graph[value].kind = "Object"   -> <<value>>
          [] OTHER -> <<graph[value].kind>> \o FlattenSeq([i \in DOMAIN graph[value].entries |->
                                                              Entry(graph[value].entries[i])]) \o <<"end">>

\* The nodes JSON gets to, and whether one of them has a key it cannot write.
RECURSIVE Written(_, _)
Written(graph, nodes) ==
    LET more == nodes \cup (UNION {{graph[n].entries[i][Len(graph[n].entries[i])] : i \in DOMAIN graph[n].entries} :
                                      n \in nodes} \cap DOMAIN graph)
    IN  IF more = nodes THEN nodes ELSE Written(graph, more)

HasKeysJsonCannotWrite(graph) ==
    \E n \in Written(graph, {"a"}) :
        graph[n].kind = "Map" /\ \E i \in DOMAIN graph[n].entries : graph[n].entries[i][1] \notin Strings

\* "mark cycles as `<cycle>`": a text marks a node only where it is inside
\* itself, and is the value written out up to where it was cut short; JSON
\* fails on cycles and on keys that are no String, and on nothing else.
OnlyCyclesAreMarked ==
    LET graph == Given.graph
        unfolded == Unfolded(graph, "a", {})
        t == outcome[1]
    IN  /\ About("text") =>
              IF t.truncated
              THEN /\ Given.limits = Tight
                   /\ IsPrefix(SubSeq(t.out, 1, SelectInSeq(t.out, LAMBDA x : x = "more") - 1), unfolded)
              ELSE t.out = unfolded
        /\ About("json") =>
              /\ t.failed <=> (HasKeysJsonCannotWrite(graph) \/ "cycle" \in Range(unfolded))
              /\ t.failed \/ t.out = unfolded
=============================================================================
