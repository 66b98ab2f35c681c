----------------------------- MODULE Dependents -----------------------------
(* The reverse closure of a dependency graph (src/project/dependency.rs).  *)
EXTENDS Naturals, FiniteSets

\* The changed paths and, round by round, the files that depend on them.
DependentClosure(changed, graph) ==
    LET round[n \in 0 .. Cardinality(DOMAIN graph)] ==
            IF n = 0
            THEN changed
            ELSE LET before == round[n - 1]
                 IN  before \cup {f \in DOMAIN graph : graph[f] \cap before # {}}
    IN  round[Cardinality(DOMAIN graph)]

=============================================================================
