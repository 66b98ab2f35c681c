---------------------------- MODULE ValueGraphs ----------------------------
(***************************************************************************)
(* The traversals of runtime values, which may refer to each other in       *)
(* cycles: texts, JSON and equality (runtime/value_graph.rs and             *)
(* platform_intrinsics.rs).                                                 *)
(*                                                                         *)
(* A graph maps nodes to [kind, entries]: a List or a Set has entries       *)
(* <<element>>, a Map <<key, value>>, an SObject <<field value>>, an Object *)
(* none that are looked at. What is not a node is a leaf, and a text is a   *)
(* sequence of tokens.                                                      *)
(***************************************************************************)
EXTENDS Integers, Sequences, SequencesExt

CONSTANTS
    Builds,    \* the ways the program was compiled: "debug", "release"
    Strings    \* the leaves that are Strings

Collections == {"List", "Set", "Map"}

-----------------------------------------------------------------------------
(* The traversal: its limits, the nodes it is inside of, what it visited,   *)
(* the text so far, and whether it was cut short or failed.                 *)

Traversal(limits, build, marks) ==
    [limits |-> limits, build |-> build, marks |-> marks, active |-> {}, nodes |-> 0, elements |-> 0,
     out |-> <<>>, truncated |-> FALSE, failed |-> FALSE]

Write(t, token) == [t EXCEPT !.out = Append(@, token)]

\* A step that was refused: the text is marked once, JSON fails.
Refused(t) ==
    CASE ~ t.marks   -> [t EXCEPT !.failed = TRUE]
      [] t.truncated -> t
      [] OTHER       -> [Write(t, "more") EXCEPT !.truncated = TRUE]

MayVisitNode(t, depth) == depth <= t.limits.depth /\ t.nodes < t.limits.nodes
VisitNode(t) == [t EXCEPT !.nodes = @ + 1]

MayVisitElement(t) == t.elements < t.limits.elements
VisitElement(t) == [t EXCEPT !.elements = @ + 1]

Cycle(t) == IF t.marks THEN Write(t, "cycle") ELSE [t EXCEPT !.failed = TRUE]
Enter(t, node) == [t EXCEPT !.active = @ \cup {node}]

\* A slip: an identity is never left.
NeverLeft(t, node) == t

\* The removal is the argument of a debug assertion, which a release build
\* does not evaluate.
LeaveIdentity(t, node) ==
    IF t.build = "debug" THEN [t EXCEPT !.active = @ \ {node}] ELSE t

\* The entries one after the other, until the traversal stops or no more
\* elements are allowed.
Entries(t, node, Step(_, _)) ==
    LET Visit(s, entry) ==
            IF s.stopped \/ s.t.truncated \/ s.t.failed THEN s
            ELSE IF MayVisitElement(s.t) THEN [s EXCEPT !.t = Step(VisitElement(s.t), entry)]
            ELSE [t |-> Refused(s.t), stopped |-> TRUE]
    IN  FoldLeft(Visit, [t |-> t, stopped |-> FALSE], node.entries).t

Close(t, token) == IF t.truncated \/ t.failed THEN t ELSE Write(t, token)

RECURSIVE RenderValue(_, _, _, _)
RenderValue(graph, value, depth, t) ==
    LET visited == VisitNode(t)
        Values(s, entry) ==
            LET Next(u, i) ==
                    IF u.failed THEN u
                    ELSE RenderValue(graph, entry[i], depth + 1, IF i = 2 THEN Write(u, "=") ELSE u)
            IN  FoldLeft(Next, s, [i \in DOMAIN entry |-> i])
    IN  CASE ~ MayVisitNode(t, depth)       -> Refused(t)
          [] value \notin DOMAIN graph      -> Write(visited, value)
          [] value \in t.active             -> Cycle(visited)
          [] graph[value].kind = "Object"   -> LeaveIdentity(Write(Enter(visited, value), value), value)
          [] OTHER ->
                LET open == Write(Enter(visited, value), graph[value].kind)
                IN  LeaveIdentity(Close(Entries(open, graph[value], Values), "end"), value)

RECURSIVE ValueToJson(_, _, _, _)
ValueToJson(graph, value, depth, t) ==
    LET visited == VisitNode(t)
        Member(s, entry) ==
            CASE Len(entry) = 1              -> ValueToJson(graph, entry[1], depth + 1, s)
              [] ~ MayVisitNode(s, depth + 1) \/ entry[1] \notin Strings -> [s EXCEPT !.failed = TRUE]
              [] OTHER -> ValueToJson(graph, entry[2], depth + 1, Write(Write(VisitNode(s), entry[1]), "="))
    IN  CASE value \in DOMAIN graph /\ graph[value].kind \notin Collections -> RenderValue(graph, value, depth, t)
          [] ~ MayVisitNode(t, depth)  -> Refused(t)
          [] value \notin DOMAIN graph -> Write(visited, value)
          [] value \in t.active        -> Cycle(visited)
          [] OTHER ->
                LET open == Write(Enter(visited, value), graph[value].kind)
                IN  LeaveIdentity(Close(Entries(open, graph[value], Member), "end"), value)

StringifyValue(graph, value, limits, build) == RenderValue(graph, value, 0, Traversal(limits, build, TRUE))
SerializeValue(graph, value, limits, build) == ValueToJson(graph, value, 0, Traversal(limits, build, FALSE))

-----------------------------------------------------------------------------
(* Equality: a stack of tasks, the trail of pairs taken for equal on the    *)
(* way, and the last verdict. The pairs visited are those of the trail.     *)

Task(kind, left, right, i, j, checkpoint) ==
    [kind |-> kind, left |-> left, right |-> right, i |-> i, j |-> j, checkpoint |-> checkpoint]
CompareTask(l, r) == Task("Compare", l, r, 0, 0, 0)

Push(e, tasks) == [e EXCEPT !.tasks = tasks \o @]
Verdict(e, equal) == [e EXCEPT !.last = equal]
Rollback(e, checkpoint) == [e EXCEPT !.trail = SubSeq(@, 1, checkpoint)]

TrySet(e, graph, l, r, i, j) ==
    Push(e, <<CompareTask(graph[l].entries[i][1], graph[r].entries[j][1]), Task("SetAfterCandidate", l, r, i, j, 0)>>)
TryMap(e, graph, l, r, i, j) ==
    Push(e, <<CompareTask(graph[l].entries[i][1], graph[r].entries[j][1]),
              Task("MapAfterKey", l, r, i, j, Len(e.trail))>>)
TryNextMap(e, graph, task) ==
    IF task.j < Len(graph[task.right].entries) THEN TryMap(e, graph, task.left, task.right, task.i, task.j + 1)
    ELSE Verdict(e, FALSE)

StartCollection(e, graph, l, r) ==
    LET left == graph[l]
        right == graph[r]
        started == Push([e EXCEPT !.trail = Append(@, <<l, r>>)], <<Task("FinishPair", l, r, 0, 0, Len(e.trail))>>)
    IN  CASE l = r \/ <<l, r>> \in Range(e.trail) -> Verdict(e, TRUE)
          [] left.kind # right.kind \/ Len(left.entries) # Len(right.entries) -> Verdict(e, FALSE)
          [] left.entries = <<>>  -> Verdict(started, TRUE)
          [] left.kind = "List"   -> Push(started, <<CompareTask(left.entries[1][1], right.entries[1][1]),
                                                     Task("ListAfter", l, r, 2, 2, 0)>>)
          [] left.kind = "Set"    -> TrySet(started, graph, l, r, 1, 1)
          [] left.kind = "Map"    -> TryMap(started, graph, l, r, 1, 1)

IsCollection(graph, v) == v \in DOMAIN graph /\ graph[v].kind \in Collections

CompareNodes(e, graph, task) ==
    IF IsCollection(graph, task.left) /\ IsCollection(graph, task.right)
    THEN StartCollection(e, graph, task.left, task.right)
    ELSE Verdict(e, task.left = task.right)

\* A slip: the pairs of a comparison that failed stay taken for equal.
FinishPairWithoutRollback(e, task) == e

FinishPair(e, task) == IF e.last THEN e ELSE Rollback(e, task.checkpoint)

AfterList(e, graph, task) ==
    LET l == graph[task.left].entries
    IN  IF ~ e.last \/ task.i > Len(l) THEN e
        ELSE Push(e, <<CompareTask(l[task.i][1], graph[task.right].entries[task.i][1]),
                       [task EXCEPT !.i = @ + 1, !.j = @ + 1]>>)

AfterSetCandidate(e, graph, task) ==
    CASE e.last /\ task.i < Len(graph[task.left].entries) -> TrySet(e, graph, task.left, task.right, task.i + 1, 1)
      [] ~ e.last /\ task.j < Len(graph[task.right].entries) ->
            TrySet(e, graph, task.left, task.right, task.i, task.j + 1)
      [] OTHER -> e

AfterMapKey(e, graph, task) ==
    IF e.last
    THEN Push(e, <<CompareTask(graph[task.left].entries[task.i][2], graph[task.right].entries[task.j][2]),
                   [task EXCEPT !.kind = "MapAfterValue"]>>)
    ELSE TryNextMap(Rollback(e, task.checkpoint), graph, task)

AfterMapValue(e, graph, task) ==
    CASE ~ e.last -> TryNextMap(Rollback(e, task.checkpoint), graph, task)
      [] e.last /\ task.i < Len(graph[task.left].entries) -> TryMap(e, graph, task.left, task.right, task.i + 1, 1)
      [] OTHER -> e

RECURSIVE Run(_, _)
Run(e, graph) ==
    IF e.tasks = <<>> THEN e.last
    ELSE LET task == Head(e.tasks)
             rest == [e EXCEPT !.tasks = Tail(@)]
         IN  Run(CASE task.kind = "Compare"           -> CompareNodes(rest, graph, task)
                   [] task.kind = "FinishPair"        -> FinishPair(rest, task)
                   [] task.kind = "ListAfter"         -> AfterList(rest, graph, task)
                   [] task.kind = "SetAfterCandidate" -> AfterSetCandidate(rest, graph, task)
                   [] task.kind = "MapAfterKey"       -> AfterMapKey(rest, graph, task)
                   [] task.kind = "MapAfterValue"     -> AfterMapValue(rest, graph, task), graph)

GraphsEqual(graph, l, r) == Run([tasks |-> <<CompareTask(l, r)>>, trail |-> <<>>, last |-> FALSE], graph)
=============================================================================
