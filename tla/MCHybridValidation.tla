------------------------- MODULE MCHybridValidation -------------------------
(* An instance of HybridValidation for TLC: a folder with two classes and  *)
(* a sidecar, a test class that uses the first of them and a trigger that  *)
(* uses the second, an object, a layout and a file no component owns.      *)
EXTENDS HybridValidation

OwnerOf ==
    [f \in Paths |-> CASE f \in {"service", "serviceMeta", "util"} -> "Services"
                       [] f = "serviceTest" -> "ServiceTest"
                       [] f = "trigger" -> "Trigger"
                       [] f = "account" -> "Account"
                       [] f = "layout" -> "Layout"
                       [] OTHER -> None]

References ==
    [f \in Sources |-> CASE f = "serviceTest" -> {"service"} [] f = "trigger" -> {"util"}
                         [] OTHER -> {}]
Tests == [f \in Sources |-> IF f = "serviceTest" THEN {"t1"} ELSE {}]
Categories ==
    [c \in Components |-> CASE c = "Account" -> "schema" [] c = "Layout" -> "configuration"
                            [] OTHER -> "code"]
Types ==
    [c \in Components |-> IF c \in {"Services", "ServiceTest"} THEN "ApexClass" ELSE c]
Order ==
    [f \in Paths |-> CASE f = "service" -> 1 [] f = "serviceMeta" -> 2 [] f = "serviceTest" -> 3
                       [] f = "util" -> 4 [] f = "trigger" -> 5 [] f = "account" -> 6
                       [] f = "layout" -> 7 [] OTHER -> 8]

Base == [f \in Paths |-> 1]
With(f, version) == [Base EXCEPT ![f] = version]

\* An edit may delete the second class with its user.
ProjectStates == {Base, Restrict(Base, Paths \ {"util", "trigger"})}
OrgStates ==
    {Base, With("account", 2), Restrict(Base, Paths \ {"layout"})}
Changes == {{}, {"service", "util"}, {"account", "trigger"}}

=============================================================================
