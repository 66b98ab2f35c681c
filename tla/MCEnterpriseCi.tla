--------------------------- MODULE MCEnterpriseCi ---------------------------
(* An instance of EnterpriseCi for TLC: class service, class caller that   *)
(* uses it, class callerTest with two tests that use the caller only,      *)
(* class otherTest with one test that uses neither, a trigger.             *)
EXTENDS EnterpriseCi, TLC

CONSTANTS service, caller, callerTest, otherTest, trigger,
          w1, w2, current, account, open, closed,
          sealed, broken, secured,
          plain, usesAccount, onService, onCaller, alone, fires

Positions ==
    caller :> 1 @@ callerTest :> 2 @@ otherTest :> 3 @@ service :> 4 @@ trigger :> 5

TextOf(names, objects, tests) ==
    [parses |-> TRUE, names |-> names, needs |-> names, objects |-> objects,
     profiles |-> {current}, tests |-> tests]

Shapes ==
    plain       :> TextOf({}, {}, {}) @@
    usesAccount :> TextOf({}, {account}, {}) @@
    onService   :> TextOf({service}, {}, {}) @@
    onCaller    :> TextOf({caller}, {}, {1, 3}) @@
    alone       :> TextOf({}, {}, {2}) @@
    fires       :> TextOf({service}, {}, {})

ProjectWith(serviceText, security) ==
    [sources |-> [f \in Files |->
        [profile |-> current,
         text |-> CASE f = service -> serviceText
                    [] f = caller -> onService
                    [] f = callerTest -> onCaller
                    [] f = otherTest -> alone
                    [] f = trigger -> fires]],
     objects |-> {}, local |-> {}, security |-> security]

Contents ==
    sealed  :> ProjectWith(plain, open) @@
    broken  :> ProjectWith(usesAccount, open) @@
    secured :> ProjectWith(plain, closed)

Changes == {{service}, {service, trigger}}

Symmetry == Permutations(Workers)

=============================================================================
