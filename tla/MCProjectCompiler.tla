------------------------- MODULE MCProjectCompiler --------------------------
(* An instance of ProjectCompiler for TLC: class a refers to class b, with *)
(* or without needing it, and trigger t refers to a.                       *)
EXTENDS ProjectCompiler, TLC

CONSTANTS a, b, t, old, new, account, open,
          needsB, mentionsB, plain, usesAccount, broken, onA

Positions == a :> 1 @@ b :> 2 @@ t :> 3

TextOf(names, needs, objects, profiles, parses) ==
    [parses |-> parses, names |-> names, needs |-> needs, objects |-> objects,
     profiles |-> profiles, tests |-> {}]

Shapes ==
    needsB      :> TextOf({b}, {b}, {}, {old, new}, TRUE) @@
    mentionsB   :> TextOf({b}, {}, {}, {new}, TRUE) @@
    plain       :> TextOf({}, {}, {}, {old, new}, TRUE) @@
    usesAccount :> TextOf({}, {}, {account}, {old, new}, TRUE) @@
    broken      :> TextOf({}, {}, {}, {}, FALSE) @@
    onA         :> TextOf({a}, {a}, {account}, {old, new}, TRUE)

At(text, profile) == [text |-> text, profile |-> profile]

Written ==
    a :> {At(needsB, new), At(needsB, old), At(mentionsB, new), At(broken, new)} @@
    b :> {At(plain, new), At(usesAccount, new), At(broken, new)} @@
    t :> {At(onA, new)}

Started ==
    {[sources |-> a :> At(needsB, new) @@ b :> At(plain, new) @@ t :> At(onA, new),
      objects |-> {account}, local |-> {}, security |-> open]}

=============================================================================
