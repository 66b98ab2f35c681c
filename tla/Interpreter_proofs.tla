-------------------------- MODULE Interpreter_proofs -------------------------
(***************************************************************************)
(* Proofs about Interpreter.  Every action takes the top frame off the     *)
(* stack, puts one on it, or both, so that what a stack requires is stated *)
(* frame by frame (IsSound), and what the registers and counters have to   *)
(* be is a function of the frames (RegistersOf, IterationsOf, DueOf) that  *)
(* each frame changes in its own way (After, IterationsAfter, DueBy).      *)
(***************************************************************************)
EXTENDS Interpreter, ClassInitialization, FiniteSetTheorems, SequenceTheorems, WellFoundedInduction, TLAPS

-----------------------------------------------------------------------------
(* Types                                                                   *)

Registers == [scopes: Int, calls: Int, owner: Int, user: Int]
Ctors == {"this", "super", "implicit"}
Steps == {"begin", "arguments", "delegated", "initialize", "fields", "body", "done"}

BlockFrames == [kind: {"block"}]
LoopFrames == [kind: {"loop"}, scoped: BOOLEAN]
ForEachFrames == [kind: {"foreach"}, list: Lists, left: Nat, size: Nat]
TryFrames == [kind: {"try"}, catches: BOOLEAN, finally: BOOLEAN,
              phase: {"body", "catch", "finally"}, pending: Outcomes]
RunAsFrames == [kind: {"runAs"}, saved: Int]
CallFrames == [kind: {"call"}, returns: BOOLEAN, method: BOOLEAN, saved: Registers]
AssignFrames == [kind: {"assign"}, list: Lists, index: Nat]
ConstructFrames == [kind: {"construct"}, class: {1, 2}, ctor: Ctors, step: Steps,
                    saved: Registers, initialized: SUBSET {1, 2}, log: Seq({1, 2}),
                    nested: BOOLEAN]

Frames == BlockFrames \cup LoopFrames \cup ForEachFrames \cup TryFrames \cup RunAsFrames
              \cup CallFrames \cup AssignFrames \cup ConstructFrames

-----------------------------------------------------------------------------
(* What a stack means                                                      *)

Calls(s) == {i \in 1 .. Len(s) : IsCall(s[i])}
Owners(s) == {i \in 1 .. Len(s) : OwnsRegisters(s[i])}
Switches(s) == {i \in 1 .. Len(s) : SwitchesUser(s[i])}
Replacers(s) == {i \in 1 .. Len(s) : ReplacesScopes(s[i])}
Pushers(s) == {i \in 1 .. Len(s) : PushesScope(s[i])}
Iterators(s, l) == {i \in 1 .. Len(s) : s[i].kind = "foreach" /\ s[i].list = l}
OwesFinally(f) == f.kind = "try" /\ f.finally /\ f.phase # "finally"
Debts(s) == {i \in 1 .. Len(s) : OwesFinally(s[i])}

Open(s) == {i \in Pushers(s) : i > Topmost(Replacers(s))}

RegistersOf(s) ==
    [scopes |-> 1 + Cardinality(Open(s)), calls |-> Cardinality(Calls(s)),
     owner |-> Topmost(Owners(s)), user |-> Topmost(Switches(s))]
IterationsOf(s) == [l \in Lists |-> Cardinality(Iterators(s, l))]
DueOf(s) == Cardinality(Debts(s))

\* What a frame at a position makes of the registers and counters of those below.
After(regs, f, position) ==
    [scopes |-> IF ReplacesScopes(f) THEN 1
                ELSE regs.scopes + (IF PushesScope(f) THEN 1 ELSE 0),
     calls |-> regs.calls + (IF IsCall(f) THEN 1 ELSE 0),
     owner |-> IF OwnsRegisters(f) THEN position ELSE regs.owner,
     user |-> IF SwitchesUser(f) THEN position ELSE regs.user]
IterationsAfter(counts, f) ==
    [l \in Lists |-> counts[l] + (IF f.kind = "foreach" /\ f.list = l THEN 1 ELSE 0)]
DueBy(f) == IF OwesFinally(f) THEN 1 ELSE 0

-----------------------------------------------------------------------------
(* What a frame requires of those below it                                 *)

\* The initializers that have run when a constructor is at a step.
Progress(f) ==
    /\ f.initialized = 1 .. Len(f.log)
    /\ f.step \in {"begin", "arguments", "delegated"} => f.log = <<>>
    /\ f.step = "initialize" =>
        IF f.class = 1 THEN f.log \in {<<>>, <<1>>} ELSE f.log \in {<<1>>, <<1, 2>>}
    /\ f.step \in {"fields", "body", "done"} =>
        f.log = IF f.class = 1 THEN <<1>> ELSE <<1, 2>>

\* Only a derived class delegates to its base.
Delegates(f) ==
    /\ f.ctor = "super" => f.class = 2
    /\ f.step = "arguments" => f.ctor # "implicit"
    /\ f.step = "delegated" /\ f.ctor # "this" => f.class = 2

\* A constructor another one delegated to, which waits below it.
AnswersTo(f, parent) ==
    /\ parent.kind = "construct" /\ parent.step = "delegated"
    /\ f.class = IF parent.ctor = "this" THEN parent.class ELSE 1

IsSound(f, s, sizes) ==
    /\ f.kind \in {"call", "construct"} => f.saved = RegistersOf(s)
    /\ f.kind = "runAs" => f.saved = RegistersOf(s).user
    /\ f.kind = "foreach" => sizes[f.list] = f.size
    /\ f.kind = "construct" =>
        /\ Progress(f) /\ Delegates(f)
        /\ f.nested => s # <<>> /\ AnswersTo(f, s[Len(s)])

AllSound(s, sizes) == \A i \in 1 .. Len(s) : IsSound(s[i], SubSeq(s, 1, i - 1), sizes)

-----------------------------------------------------------------------------
(* Frames                                                                  *)

\* The fields of each kind of frame.
LEMMA FrameKinds ==
    ASSUME NEW f \in Frames
    PROVE  /\ f.kind \in {"block", "loop", "foreach", "try", "runAs", "call", "assign", "construct"}
           /\ f.kind = "block" => f \in BlockFrames
           /\ f.kind = "loop" => f \in LoopFrames
           /\ f.kind = "foreach" => f \in ForEachFrames
           /\ f.kind = "try" => f \in TryFrames
           /\ f.kind = "runAs" => f \in RunAsFrames
           /\ f.kind = "call" => f \in CallFrames
           /\ f.kind = "assign" => f \in AssignFrames
           /\ f.kind = "construct" => f \in ConstructFrames
BY DEF Frames, BlockFrames, LoopFrames, ForEachFrames, TryFrames, RunAsFrames, CallFrames,
       AssignFrames, ConstructFrames

LEMMA Prefixes ==
    ASSUME NEW S, NEW s \in Seq(S), NEW n \in Nat, n <= Len(s)
    PROVE  /\ SubSeq(s, 1, n) \in Seq(S) /\ Len(SubSeq(s, 1, n)) = n
           /\ \A i \in 1 .. n : SubSeq(s, 1, n)[i] = s[i]
<1>1. \A i \in 1 .. n : s[i] \in S
  BY ElementOfSeq
<1> QED
  BY <1>1, SubSeqProperties

\* A stack is what is below its top, and the top.
LEMMA TopAndBelow ==
    ASSUME NEW s \in Seq(Frames), s # <<>>
    PROVE  LET below == SubSeq(s, 1, Len(s) - 1)
           IN  /\ below \in Seq(Frames) /\ s[Len(s)] \in Frames
               /\ Len(s) \in Nat /\ Len(s) >= 1 /\ Len(below) = Len(s) - 1
               /\ s = Append(below, s[Len(s)])
<1>1. Len(s) \in Nat /\ Len(s) > 0 /\ s[Len(s)] \in Frames
  BY EmptySeq
<1> DEFINE below == SubSeq(s, 1, Len(s) - 1)
<1>2. below \in Seq(Frames) /\ Len(below) = Len(s) - 1 /\ \A i \in 1 .. Len(s) - 1 : below[i] = s[i]
  <2>1. Len(s) - 1 \in Nat /\ Len(s) - 1 <= Len(s)
    BY <1>1
  <2> QED
    BY <2>1, Prefixes
<1>3. s = Append(below, s[Len(s)])
  BY <1>1, <1>2, SeqEqual, AppendProperties
<1> QED
  BY <1>1, <1>2, <1>3

\* The same of an append, piece by piece.
LEMMA OfAppend ==
    ASSUME NEW s \in Seq(Frames), NEW f \in Frames
    PROVE  /\ Append(s, f) \in Seq(Frames) /\ Append(s, f) # <<>>
           /\ Len(s) \in Nat /\ Len(Append(s, f)) = Len(s) + 1
           /\ Append(s, f)[Len(s) + 1] = f
           /\ \A i \in 1 .. Len(s) : Append(s, f)[i] = s[i]
           /\ SubSeq(Append(s, f), 1, Len(s)) = s
           /\ \A n \in Nat : n <= Len(s) => SubSeq(Append(s, f), 1, n) = SubSeq(s, 1, n)
<1> DEFINE t == Append(s, f)
<1>1. /\ t \in Seq(Frames) /\ t # <<>> /\ Len(s) \in Nat /\ Len(t) = Len(s) + 1
      /\ t[Len(s) + 1] = f /\ \A i \in 1 .. Len(s) : t[i] = s[i]
  BY AppendProperties
<1> HIDE DEF t
<1>2. \A n \in Nat : n <= Len(s) => SubSeq(t, 1, n) = SubSeq(s, 1, n)
  <2> TAKE n \in Nat
  <2> HAVE n <= Len(s)
  <2>1. /\ SubSeq(s, 1, n) \in Seq(Frames) /\ Len(SubSeq(s, 1, n)) = n
        /\ \A i \in 1 .. n : SubSeq(s, 1, n)[i] = s[i]
    BY Prefixes
  <2>2. /\ SubSeq(t, 1, n) \in Seq(Frames) /\ Len(SubSeq(t, 1, n)) = n
        /\ \A i \in 1 .. n : SubSeq(t, 1, n)[i] = t[i]
    BY <1>1, Prefixes
  <2> QED
    BY <1>1, <2>1, <2>2, SeqEqual
<1>3. SubSeq(s, 1, Len(s)) = s
  BY SubSeqFull
<1> QED
  BY <1>1, <1>2, <1>3 DEF t

-----------------------------------------------------------------------------
(* Counting frames                                                         *)

LEMMA OneMore ==
    ASSUME NEW n \in Nat, NEW S \in SUBSET (1 .. n)
    PROVE  /\ Cardinality(S) \in Nat /\ IsFiniteSet(S)
           /\ Cardinality(S \cup {n + 1}) = Cardinality(S) + 1
<1>1. IsFiniteSet(1 .. n)
  BY FS_Interval
<1>2. IsFiniteSet(S)
  BY <1>1, FS_Subset
<1>3. n + 1 \notin S
  OBVIOUS
<1> QED
  BY <1>2, <1>3, FS_AddElement, FS_CardinalityType

\* The topmost of some positions is one of them, and it is one that is added above.
LEMMA TopmostPosition ==
    ASSUME NEW n \in Nat, NEW S \in SUBSET (1 .. n)
    PROVE  Topmost(S) \in 0 .. n /\ Topmost(S \cup {n + 1}) = n + 1
<1>1. Topmost(S \cup {n + 1}) = n + 1
  <2> DEFINE T == S \cup {n + 1}
  <2>1. T # {} /\ n + 1 \in T /\ \A j \in T : j \in Int /\ j <= n + 1
    OBVIOUS
  <2> HIDE DEF T
  <2>2. Topmost(T) = CHOOSE i \in T : \A j \in T : j <= i
    BY <2>1 DEF Topmost
  <2>3. Topmost(T) \in T /\ \A j \in T : j <= Topmost(T)
    BY <2>1, <2>2
  <2>4. Topmost(T) \in Int /\ n + 1 \in Int
    BY <2>1, <2>3
  <2>5. Topmost(T) <= n + 1 /\ n + 1 <= Topmost(T)
    BY <2>1, <2>3
  <2> QED
    BY <2>4, <2>5 DEF T
<1>2. CASE S = {}
  BY <1>1, <1>2 DEF Topmost
<1>3. CASE S # {}
  <2> DEFINE Bounds == {b \in Nat : \A i \in S : i <= b}
  <2>1. n \in Bounds
    OBVIOUS
  <2>2. PICK b \in Bounds : \A c \in Bounds : ~(<<c, b>> \in OpToRel(<, Nat))
    BY <2>1, NatLessThanWellFounded, WFMin
  <2>3. \A c \in Bounds : ~(c < b)
    BY <2>2 DEF OpToRel
  <2>4. b \in S
    <3> SUFFICES ASSUME b \notin S PROVE FALSE
      OBVIOUS
    <3>1. \A i \in S : i <= b - 1
      OBVIOUS
    <3>2. PICK i \in S : TRUE
      BY <1>3
    <3>3. b - 1 \in Nat
      BY <3>1, <3>2
    <3> QED
      BY <2>3, <3>1, <3>3
  <2>5. \E i \in S : \A j \in S : j <= i
    BY <2>4
  <2>6. Topmost(S) \in S
    BY <1>3, <2>5 DEF Topmost
  <2>7. 1 .. n \subseteq 0 .. n
    OBVIOUS
  <2>8. Topmost(S) \in 0 .. n
    BY <2>6, <2>7
  <2> QED
    BY <1>1, <2>8
<1> QED
  BY <1>2, <1>3

LEMMA PositionsOfAppend ==
    ASSUME NEW s \in Seq(Frames), NEW f \in Frames
    PROVE  LET t == Append(s, f)
               n == Len(s)
           IN  /\ Calls(t) = Calls(s) \cup (IF IsCall(f) THEN {n + 1} ELSE {})
               /\ Owners(t) = Owners(s) \cup (IF OwnsRegisters(f) THEN {n + 1} ELSE {})
               /\ Switches(t) = Switches(s) \cup (IF SwitchesUser(f) THEN {n + 1} ELSE {})
               /\ Replacers(t) = Replacers(s) \cup (IF ReplacesScopes(f) THEN {n + 1} ELSE {})
               /\ Pushers(t) = Pushers(s) \cup (IF PushesScope(f) THEN {n + 1} ELSE {})
               /\ Debts(t) = Debts(s) \cup (IF OwesFinally(f) THEN {n + 1} ELSE {})
               /\ \A l : Iterators(t, l) = Iterators(s, l)
                            \cup (IF f.kind = "foreach" /\ f.list = l THEN {n + 1} ELSE {})
<1> DEFINE t == Append(s, f)
           n == Len(s)
<1>1. n \in Nat /\ Len(t) = n + 1 /\ t[n + 1] = f /\ \A i \in 1 .. n : t[i] = s[i]
  BY OfAppend
<1>2. 1 .. Len(t) = (1 .. n) \cup {n + 1}
  BY <1>1
<1> HIDE DEF t, n
<1>3. Len(s) = n
  BY DEF n
<1>4. Calls(t) = Calls(s) \cup (IF IsCall(f) THEN {n + 1} ELSE {})
  BY <1>1, <1>2, <1>3 DEF Calls
<1>5. Owners(t) = Owners(s) \cup (IF OwnsRegisters(f) THEN {n + 1} ELSE {})
  BY <1>1, <1>2, <1>3 DEF Owners
<1>6. Switches(t) = Switches(s) \cup (IF SwitchesUser(f) THEN {n + 1} ELSE {})
  BY <1>1, <1>2, <1>3 DEF Switches
<1>7. Replacers(t) = Replacers(s) \cup (IF ReplacesScopes(f) THEN {n + 1} ELSE {})
  BY <1>1, <1>2, <1>3 DEF Replacers
<1>8. Pushers(t) = Pushers(s) \cup (IF PushesScope(f) THEN {n + 1} ELSE {})
  BY <1>1, <1>2, <1>3 DEF Pushers
<1>9. Debts(t) = Debts(s) \cup (IF OwesFinally(f) THEN {n + 1} ELSE {})
  BY <1>1, <1>2, <1>3 DEF Debts
<1>10. \A l : Iterators(t, l) = Iterators(s, l)
                \cup (IF f.kind = "foreach" /\ f.list = l THEN {n + 1} ELSE {})
  BY <1>1, <1>2, <1>3 DEF Iterators
<1> QED
  BY <1>4, <1>5, <1>6, <1>7, <1>8, <1>9, <1>10 DEF t, n

LEMMA PositionsInStack ==
    ASSUME NEW s \in Seq(Frames)
    PROVE  /\ Len(s) \in Nat
           /\ Calls(s) \in SUBSET (1 .. Len(s)) /\ Owners(s) \in SUBSET (1 .. Len(s))
           /\ Switches(s) \in SUBSET (1 .. Len(s)) /\ Replacers(s) \in SUBSET (1 .. Len(s))
           /\ Pushers(s) \in SUBSET (1 .. Len(s)) /\ Debts(s) \in SUBSET (1 .. Len(s))
           /\ Open(s) \in SUBSET (1 .. Len(s))
           /\ \A l : Iterators(s, l) \in SUBSET (1 .. Len(s))
BY DEF Calls, Owners, Switches, Replacers, Pushers, Debts, Open, Iterators

LEMMA RegistersType ==
    ASSUME NEW s \in Seq(Frames)
    PROVE  /\ RegistersOf(s) \in Registers /\ DueOf(s) \in Nat
           /\ IterationsOf(s) \in [Lists -> Nat]
<1> DEFINE n == Len(s)
<1>1. \A S \in SUBSET (1 .. n) : Cardinality(S) \in Nat /\ Topmost(S) \in 0 .. n
  BY PositionsInStack, OneMore, TopmostPosition
<1>2. \A S \in SUBSET (1 .. n) : Cardinality(S) \in Int /\ Topmost(S) \in Int /\ 1 + Cardinality(S) \in Int
  BY <1>1, PositionsInStack
<1>3. RegistersOf(s) \in Registers
  BY <1>2, PositionsInStack DEF RegistersOf, Registers
<1> QED
  BY <1>1, <1>3, PositionsInStack DEF DueOf, IterationsOf

\* A frame pushed on a stack changes what its registers have to be in its own way.
LEMMA RegistersOfAppend ==
    ASSUME NEW s \in Seq(Frames), NEW f \in Frames
    PROVE  RegistersOf(Append(s, f)) = After(RegistersOf(s), f, Len(s) + 1)
<1> DEFINE t == Append(s, f)
           n == Len(s)
<1>1. /\ n \in Nat /\ Calls(s) \in SUBSET (1 .. n) /\ Owners(s) \in SUBSET (1 .. n)
      /\ Switches(s) \in SUBSET (1 .. n) /\ Replacers(s) \in SUBSET (1 .. n)
      /\ Pushers(s) \in SUBSET (1 .. n) /\ Open(s) \in SUBSET (1 .. n)
  BY PositionsInStack
<1>2. /\ Calls(t) = Calls(s) \cup (IF IsCall(f) THEN {n + 1} ELSE {})
      /\ Owners(t) = Owners(s) \cup (IF OwnsRegisters(f) THEN {n + 1} ELSE {})
      /\ Switches(t) = Switches(s) \cup (IF SwitchesUser(f) THEN {n + 1} ELSE {})
      /\ Replacers(t) = Replacers(s) \cup (IF ReplacesScopes(f) THEN {n + 1} ELSE {})
      /\ Pushers(t) = Pushers(s) \cup (IF PushesScope(f) THEN {n + 1} ELSE {})
  BY PositionsOfAppend
<1> HIDE DEF t, n
<1>3. \A S \in SUBSET (1 .. n) :
        /\ Cardinality(S) \in Nat /\ Cardinality(S \cup {n + 1}) = Cardinality(S) + 1
        /\ Topmost(S) \in 0 .. n /\ Topmost(S \cup {n + 1}) = n + 1
  BY <1>1, OneMore, TopmostPosition
<1>4. Cardinality(Calls(t)) = Cardinality(Calls(s)) + (IF IsCall(f) THEN 1 ELSE 0)
  <2>1. CASE IsCall(f)
    BY <1>1, <1>2, <1>3, <2>1
  <2>2. CASE ~IsCall(f)
    <3>1. Calls(t) = Calls(s) /\ Cardinality(Calls(s)) \in Nat
      BY <1>1, <1>2, <1>3, <2>2
    <3> QED
      BY <2>2, <3>1
  <2> QED
    BY <2>1, <2>2
<1>5. Topmost(Owners(t)) = IF OwnsRegisters(f) THEN n + 1 ELSE Topmost(Owners(s))
  BY <1>1, <1>2, <1>3
<1>6. Topmost(Switches(t)) = IF SwitchesUser(f) THEN n + 1 ELSE Topmost(Switches(s))
  BY <1>1, <1>2, <1>3
<1>7. Cardinality(Open(t)) = IF ReplacesScopes(f) THEN 0
                             ELSE Cardinality(Open(s)) + (IF PushesScope(f) THEN 1 ELSE 0)
  <2>1. CASE ReplacesScopes(f)
    <3>1. Topmost(Replacers(t)) = n + 1
      BY <1>1, <1>2, <1>3, <2>1
    <3>2. Pushers(t) \subseteq Pushers(s) \cup {n + 1}
      BY <1>2
    <3>3. \A i \in Pushers(t) : ~(i > n + 1)
      BY <1>1, <3>2
    <3>4. Open(t) = {}
      BY <3>1, <3>3 DEF Open
    <3> QED
      BY <2>1, <3>4, FS_EmptySet
  <2>2. CASE ~ReplacesScopes(f) /\ PushesScope(f)
    <3>1. Topmost(Replacers(t)) = Topmost(Replacers(s)) /\ Topmost(Replacers(s)) \in 0 .. n
      BY <1>1, <1>2, <1>3, <2>2
    <3>2. Pushers(t) = Pushers(s) \cup {n + 1}
      BY <1>2, <2>2
    <3>3. Open(t) = Open(s) \cup {n + 1}
      BY <1>1, <3>1, <3>2 DEF Open
    <3> QED
      BY <1>1, <1>3, <2>2, <3>3
  <2>3. CASE ~ReplacesScopes(f) /\ ~PushesScope(f)
    <3>1. Topmost(Replacers(t)) = Topmost(Replacers(s)) /\ Pushers(t) = Pushers(s)
      BY <1>2, <2>3
    <3>2. Open(t) = Open(s) /\ Cardinality(Open(s)) \in Nat
      BY <1>1, <1>3, <3>1 DEF Open
    <3> QED
      BY <2>3, <3>2
  <2> QED
    BY <2>1, <2>2, <2>3
<1>8. 1 + Cardinality(Open(t)) = IF ReplacesScopes(f) THEN 1
          ELSE (1 + Cardinality(Open(s))) + (IF PushesScope(f) THEN 1 ELSE 0)
  <2>1. Cardinality(Open(s)) \in Nat
    BY <1>1, <1>3
  <2>2. CASE ReplacesScopes(f)
    BY <1>7, <2>2
  <2>3. CASE ~ReplacesScopes(f) /\ PushesScope(f)
    BY <1>7, <2>1, <2>3
  <2>4. CASE ~ReplacesScopes(f) /\ ~PushesScope(f)
    BY <1>7, <2>1, <2>4
  <2> QED
    BY <2>2, <2>3, <2>4
<1>9. RegistersOf(t) = After(RegistersOf(s), f, n + 1)
  BY <1>4, <1>5, <1>6, <1>8 DEF RegistersOf, After
<1> QED
  BY <1>9 DEF t, n

LEMMA CountersOfAppend ==
    ASSUME NEW s \in Seq(Frames), NEW f \in Frames
    PROVE  /\ IterationsOf(Append(s, f)) = IterationsAfter(IterationsOf(s), f)
           /\ DueOf(Append(s, f)) = DueOf(s) + DueBy(f)
<1> DEFINE t == Append(s, f)
           n == Len(s)
<1>1. /\ n \in Nat /\ Debts(s) \in SUBSET (1 .. n) /\ \A l : Iterators(s, l) \in SUBSET (1 .. n)
  BY PositionsInStack
<1>2. /\ Debts(t) = Debts(s) \cup (IF OwesFinally(f) THEN {n + 1} ELSE {})
      /\ \A l : Iterators(t, l) = Iterators(s, l)
                   \cup (IF f.kind = "foreach" /\ f.list = l THEN {n + 1} ELSE {})
  BY PositionsOfAppend
<1> HIDE DEF t, n
<1>3. \A S \in SUBSET (1 .. n) :
        Cardinality(S) \in Nat /\ Cardinality(S \cup {n + 1}) = Cardinality(S) + 1
  BY <1>1, OneMore
<1>4. DueOf(t) = DueOf(s) + DueBy(f)
  <2>1. CASE OwesFinally(f)
    BY <1>1, <1>2, <1>3, <2>1 DEF DueOf, DueBy
  <2>2. CASE ~OwesFinally(f)
    <3>1. Debts(t) = Debts(s) /\ Cardinality(Debts(s)) \in Nat
      BY <1>1, <1>2, <1>3, <2>2
    <3> QED
      BY <2>2, <3>1 DEF DueOf, DueBy
  <2> QED
    BY <2>1, <2>2
<1>5. \A l \in Lists : Cardinality(Iterators(t, l)) =
        Cardinality(Iterators(s, l)) + (IF f.kind = "foreach" /\ f.list = l THEN 1 ELSE 0)
  <2> TAKE l \in Lists
  <2>1. CASE f.kind = "foreach" /\ f.list = l
    BY <1>1, <1>2, <1>3, <2>1
  <2>2. CASE ~(f.kind = "foreach" /\ f.list = l)
    <3>1. Iterators(t, l) = Iterators(s, l) /\ Cardinality(Iterators(s, l)) \in Nat
      BY <1>1, <1>2, <1>3, <2>2
    <3> QED
      BY <2>2, <3>1
  <2> QED
    BY <2>1, <2>2
<1>6. IterationsOf(t) = IterationsAfter(IterationsOf(s), f)
  BY <1>5 DEF IterationsOf, IterationsAfter
<1> QED
  BY <1>4, <1>6 DEF t

-----------------------------------------------------------------------------
(* Frames come and go                                                      *)

\* The invariant, of any stack, registers and counters.
Stands(s, sizes, regs, counts, owed) ==
    /\ s \in Seq(Frames) /\ AllSound(s, sizes)
    /\ regs = RegistersOf(s) /\ counts = IterationsOf(s) /\ owed = DueOf(s)

ControlInvariant ==
    /\ Stands(stack, length, registers, iterating, due)
    /\ signal \in Outcomes \cup {"run", "panic"}
    /\ length \in [Lists -> Nat]

\* What is known of the top frame f, and what the stack below it requires.
IsTop(f, below, sizes, regs, counts, owed) ==
    /\ f \in Frames /\ IsSound(f, below, sizes)
    /\ Stands(below, sizes, RegistersOf(below), IterationsOf(below), DueOf(below))
    /\ regs = After(RegistersOf(below), f, Len(below) + 1)
    /\ counts = IterationsAfter(IterationsOf(below), f)
    /\ owed = DueOf(below) + DueBy(f)

LEMMA SoundAppend ==
    ASSUME NEW s \in Seq(Frames), NEW f \in Frames, NEW sizes
    PROVE  AllSound(Append(s, f), sizes) <=> AllSound(s, sizes) /\ IsSound(f, s, sizes)
<1> DEFINE t == Append(s, f)
           n == Len(s)
<1>1. /\ n \in Nat /\ Len(t) = n + 1 /\ t[n + 1] = f /\ \A i \in 1 .. n : t[i] = s[i]
      /\ SubSeq(t, 1, n) = s
      /\ \A m \in Nat : m <= n => SubSeq(t, 1, m) = SubSeq(s, 1, m)
  BY OfAppend
<1> HIDE DEF t, n
<1>2. Len(s) = n
  BY DEF n
<1>3. \A i \in 1 .. n : t[i] = s[i] /\ SubSeq(t, 1, i - 1) = SubSeq(s, 1, i - 1)
  <2> TAKE i \in 1 .. n
  <2>1. i - 1 \in Nat /\ i - 1 <= n
    BY <1>1
  <2> QED
    BY <1>1, <2>1
<1>4. SubSeq(t, 1, (n + 1) - 1) = s
  BY <1>1
<1>5. 1 .. Len(t) = (1 .. n) \cup {n + 1}
  BY <1>1
<1>6. AllSound(t, sizes) <=> /\ \A i \in 1 .. n : IsSound(t[i], SubSeq(t, 1, i - 1), sizes)
                             /\ IsSound(t[n + 1], SubSeq(t, 1, (n + 1) - 1), sizes)
  BY <1>5 DEF AllSound
<1>7. AllSound(t, sizes) <=> /\ \A i \in 1 .. n : IsSound(s[i], SubSeq(s, 1, i - 1), sizes)
                             /\ IsSound(f, s, sizes)
  BY <1>1, <1>3, <1>4, <1>6
<1> QED
  BY <1>2, <1>7 DEF AllSound, t

LEMMA PushKeeps ==
    ASSUME NEW s, NEW sizes, NEW regs, NEW counts, NEW owed, Stands(s, sizes, regs, counts, owed),
           NEW f \in Frames, IsSound(f, s, sizes)
    PROVE  Stands(Append(s, f), sizes, After(regs, f, Len(s) + 1),
                  IterationsAfter(counts, f), owed + DueBy(f))
<1>1. s \in Seq(Frames) /\ AllSound(s, sizes)
  BY DEF Stands
<1>2. Append(s, f) \in Seq(Frames)
  BY <1>1, OfAppend
<1>3. AllSound(Append(s, f), sizes)
  BY <1>1, SoundAppend
<1>4. RegistersOf(Append(s, f)) = After(regs, f, Len(s) + 1)
  BY <1>1, RegistersOfAppend DEF Stands
<1>5. /\ IterationsOf(Append(s, f)) = IterationsAfter(counts, f)
      /\ DueOf(Append(s, f)) = owed + DueBy(f)
  BY <1>1, CountersOfAppend DEF Stands
<1> QED
  BY <1>2, <1>3, <1>4, <1>5 DEF Stands

LEMMA TopIsKnown ==
    ASSUME NEW s, NEW sizes, NEW regs, NEW counts, NEW owed, Stands(s, sizes, regs, counts, owed),
           s # <<>>
    PROVE  LET below == SubSeq(s, 1, Len(s) - 1)
           IN  /\ Len(s) \in Nat /\ Len(s) >= 1 /\ Len(below) = Len(s) - 1
               /\ s = Append(below, s[Len(s)]) /\ below \in Seq(Frames)
               /\ IsTop(s[Len(s)], below, sizes, regs, counts, owed)
<1> DEFINE below == SubSeq(s, 1, Len(s) - 1)
           f == s[Len(s)]
<1>1. s \in Seq(Frames) /\ AllSound(s, sizes)
  BY DEF Stands
<1>2. /\ below \in Seq(Frames) /\ f \in Frames
      /\ Len(s) \in Nat /\ Len(s) >= 1 /\ Len(below) = Len(s) - 1 /\ s = Append(below, f)
  BY <1>1, TopAndBelow
<1> HIDE DEF below, f
<1>3. AllSound(below, sizes) /\ IsSound(f, below, sizes)
  BY <1>1, <1>2, SoundAppend
<1>4. regs = After(RegistersOf(below), f, Len(below) + 1)
  BY <1>2, RegistersOfAppend DEF Stands
<1>5. /\ counts = IterationsAfter(IterationsOf(below), f)
      /\ owed = DueOf(below) + DueBy(f)
  BY <1>2, CountersOfAppend DEF Stands
<1>6. IsTop(f, below, sizes, regs, counts, owed)
  BY <1>2, <1>3, <1>4, <1>5 DEF IsTop, Stands
<1> QED
  BY <1>2, <1>6 DEF below, f

-----------------------------------------------------------------------------
(* What each kind of frame changes                                         *)

LEMMA UncountedFrames ==
    ASSUME NEW f, f.kind # "foreach", NEW counts \in [Lists -> Nat]
    PROVE  IterationsAfter(counts, f) = counts
BY DEF IterationsAfter

LEMMA DebtlessFrames ==
    ASSUME NEW f, ~OwesFinally(f), NEW owed \in Nat
    PROVE  owed + DueBy(f) = owed
BY DEF DueBy

LEMMA OnlyTryOwes == ASSUME NEW f, f.kind # "try" PROVE ~OwesFinally(f)
BY DEF OwesFinally

LEMMA OfBlock ==
    ASSUME NEW f, NEW regs \in Registers, NEW p \in Nat, f.kind \in {"block", "foreach"}
    PROVE  After(regs, f, p) = [regs EXCEPT !.scopes = @ + 1]
BY DEF Registers, After, ReplacesScopes, PushesScope, IsCall, OwnsRegisters, SwitchesUser

LEMMA OfLoop ==
    ASSUME NEW f, NEW regs \in Registers, NEW p \in Nat, f.kind = "loop"
    PROVE  After(regs, f, p) = [regs EXCEPT !.scopes = @ + (IF f.scoped THEN 1 ELSE 0)]
BY DEF Registers, After, ReplacesScopes, PushesScope, IsCall, OwnsRegisters, SwitchesUser

LEMMA OfTry ==
    ASSUME NEW f, NEW regs \in Registers, NEW p \in Nat, f.kind = "try"
    PROVE  After(regs, f, p) = [regs EXCEPT !.scopes = @ + (IF f.phase = "catch" THEN 1 ELSE 0)]
BY DEF Registers, After, ReplacesScopes, PushesScope, IsCall, OwnsRegisters, SwitchesUser

LEMMA OfRunAs ==
    ASSUME NEW f, NEW regs \in Registers, NEW p \in Nat, f.kind = "runAs"
    PROVE  After(regs, f, p) = [regs EXCEPT !.user = p]
BY DEF Registers, After, ReplacesScopes, PushesScope, IsCall, OwnsRegisters, SwitchesUser

LEMMA OfCall ==
    ASSUME NEW f, NEW regs \in Registers, NEW p \in Nat, f.kind = "call"
    PROVE  After(regs, f, p) = [scopes |-> 1, calls |-> regs.calls + 1,
                               owner |-> IF f.method THEN p ELSE regs.owner, user |-> regs.user]
BY DEF Registers, After, ReplacesScopes, PushesScope, IsCall, OwnsRegisters, SwitchesUser

LEMMA OfAssignment ==
    ASSUME NEW f, NEW regs \in Registers, NEW p \in Nat, f.kind = "assign"
    PROVE  After(regs, f, p) = regs
BY DEF Registers, After, ReplacesScopes, PushesScope, IsCall, OwnsRegisters, SwitchesUser

LEMMA OfArguments ==
    ASSUME NEW f, NEW regs \in Registers, NEW p \in Nat, f.kind = "construct", f.step = "arguments"
    PROVE  After(regs, f, p) = [scopes |-> 1, calls |-> regs.calls, owner |-> p,
                               user |-> regs.user]
BY DEF Registers, After, ReplacesScopes, PushesScope, IsCall, OwnsRegisters, SwitchesUser

LEMMA OfFields ==
    ASSUME NEW f, NEW regs \in Registers, NEW p \in Nat, f.kind = "construct", f.step = "fields"
    PROVE  After(regs, f, p) = [regs EXCEPT !.owner = p]
BY DEF Registers, After, ReplacesScopes, PushesScope, IsCall, OwnsRegisters, SwitchesUser

LEMMA OfConstruction ==
    ASSUME NEW f, NEW regs \in Registers, NEW p \in Nat, f.kind = "construct", f.step \notin {"arguments", "fields"}
    PROVE  After(regs, f, p) = regs
BY DEF Registers, After, ReplacesScopes, PushesScope, IsCall, OwnsRegisters, SwitchesUser

-----------------------------------------------------------------------------
(* Steps                                                                   *)

LEMMA ControlTypes ==
    ASSUME ControlInvariant
    PROVE  /\ stack \in Seq(Frames) /\ Len(stack) \in Nat /\ registers \in Registers
           /\ iterating \in [Lists -> Nat] /\ due \in Nat /\ length \in [Lists -> Nat]
           /\ registers = RegistersOf(stack) /\ Len(stack) + 1 \in Nat
BY RegistersType DEF ControlInvariant, Stands

LEMMA ControlOfTop ==
    ASSUME ControlInvariant, stack # <<>>
    PROVE  /\ Len(stack) \in Nat /\ Len(stack) >= 1 /\ Len(Below) = Len(stack) - 1
           /\ Len(Below) \in Nat /\ Len(Below) + 1 = Len(stack)
           /\ Below \in Seq(Frames) /\ Top \in Frames /\ stack = Append(Below, Top)
           /\ IsTop(Top, Below, length, registers, iterating, due)
           /\ RegistersOf(Below) \in Registers /\ IterationsOf(Below) \in [Lists -> Nat]
           /\ DueOf(Below) \in Nat
<1>1. /\ Len(stack) \in Nat /\ Len(stack) >= 1 /\ Len(Below) = Len(stack) - 1
      /\ Below \in Seq(Frames) /\ stack = Append(Below, Top)
      /\ IsTop(Top, Below, length, registers, iterating, due)
  BY TopIsKnown DEF ControlInvariant, Below, Top
<1>2. /\ RegistersOf(Below) \in Registers /\ IterationsOf(Below) \in [Lists -> Nat]
      /\ DueOf(Below) \in Nat
  BY <1>1, RegistersType
<1> QED
  BY <1>1, <1>2 DEF IsTop

\* A frame is put on the stack.
LEMMA Entering ==
    ASSUME ControlInvariant, NEW f \in Frames, IsSound(f, stack, length),
           stack' = Append(stack, f), registers' = After(registers, f, Len(stack) + 1),
           iterating' = IterationsAfter(iterating, f), due' = due + DueBy(f), length' = length,
           signal' \in Outcomes \cup {"run", "panic"}
    PROVE  ControlInvariant'
<1>1. Stands(Append(stack, f), length, After(registers, f, Len(stack) + 1),
             IterationsAfter(iterating, f), due + DueBy(f))
  BY PushKeeps DEF ControlInvariant
<1>2. Stands(stack', length', registers', iterating', due')
  BY <1>1
<1> QED
  BY <1>2 DEF ControlInvariant

\* The top frame is taken off the stack.
LEMMA Leaving ==
    ASSUME ControlInvariant, stack # <<>>, stack' = Below, registers' = RegistersOf(Below),
           iterating' = IterationsOf(Below), due' = DueOf(Below), length' = length,
           signal' \in Outcomes \cup {"run", "panic"}
    PROVE  ControlInvariant'
<1>1. Stands(Below, length, RegistersOf(Below), IterationsOf(Below), DueOf(Below))
  BY ControlOfTop DEF IsTop
<1>2. Stands(stack', length', registers', iterating', due')
  BY <1>1
<1> QED
  BY <1>2 DEF ControlInvariant

\* The top frame changes.
LEMMA Changing ==
    ASSUME ControlInvariant, stack # <<>>, NEW f \in Frames, IsSound(f, Below, length),
           stack' = Append(Below, f),
           registers' = After(RegistersOf(Below), f, Len(stack)),
           iterating' = IterationsAfter(IterationsOf(Below), f), due' = DueOf(Below) + DueBy(f),
           length' = length, signal' \in Outcomes \cup {"run", "panic"}
    PROVE  ControlInvariant'
<1>1. Stands(Below, length, RegistersOf(Below), IterationsOf(Below), DueOf(Below))
  BY ControlOfTop DEF IsTop
<1>2. Len(Below) + 1 = Len(stack)
  BY ControlOfTop
<1>3. Stands(Append(Below, f), length, After(RegistersOf(Below), f, Len(stack)),
             IterationsAfter(IterationsOf(Below), f), DueOf(Below) + DueBy(f))
  BY <1>1, <1>2, PushKeeps
<1>4. Stands(stack', length', registers', iterating', due')
  BY <1>3
<1> QED
  BY <1>4 DEF ControlInvariant

\* The top frame changes and another is put on it.
LEMMA ChangingAndEntering ==
    ASSUME ControlInvariant, stack # <<>>, NEW f \in Frames, IsSound(f, Below, length),
           NEW g \in Frames, IsSound(g, Append(Below, f), length),
           stack' = Append(Append(Below, f), g),
           registers' = After(After(RegistersOf(Below), f, Len(stack)), g, Len(stack) + 1),
           iterating' = IterationsAfter(IterationsAfter(IterationsOf(Below), f), g),
           due' = DueOf(Below) + DueBy(f) + DueBy(g),
           length' = length, signal' \in Outcomes \cup {"run", "panic"}
    PROVE  ControlInvariant'
<1>1. Stands(Below, length, RegistersOf(Below), IterationsOf(Below), DueOf(Below))
  BY ControlOfTop DEF IsTop
<1>2. Len(Below) + 1 = Len(stack) /\ Below \in Seq(Frames)
  BY ControlOfTop
<1>3. Stands(Append(Below, f), length, After(RegistersOf(Below), f, Len(stack)),
             IterationsAfter(IterationsOf(Below), f), DueOf(Below) + DueBy(f))
  BY <1>1, <1>2, PushKeeps
<1>4. Len(Append(Below, f)) = Len(stack)
  BY <1>2, OfAppend
<1>5. Stands(Append(Append(Below, f), g), length,
             After(After(RegistersOf(Below), f, Len(stack)), g, Len(stack) + 1),
             IterationsAfter(IterationsAfter(IterationsOf(Below), f), g),
             DueOf(Below) + DueBy(f) + DueBy(g))
  BY <1>3, <1>4, PushKeeps
<1>6. Stands(stack', length', registers', iterating', due')
  BY <1>5
<1> QED
  BY <1>6 DEF ControlInvariant

-----------------------------------------------------------------------------
(* Entering                                                                *)

LEMMA EnterBlockStep == ASSUME ControlInvariant, EnterBlock PROVE ControlInvariant'
<1> DEFINE f == [kind |-> "block"]
<1>1. f \in Frames /\ f.kind = "block"
  BY DEF Frames, BlockFrames
<1>2. stack' = Append(stack, f) /\ registers' = [registers EXCEPT !.scopes = @ + 1]
      /\ UNCHANGED <<signal, length, iterating, due>>
  BY DEF EnterBlock, Push
<1> HIDE DEF f
<1>3. /\ registers' = After(registers, f, Len(stack) + 1)
      /\ iterating' = IterationsAfter(iterating, f) /\ due' = due + DueBy(f)
  BY <1>1, <1>2, ControlTypes, OfBlock, UncountedFrames, DebtlessFrames,
       OnlyTryOwes
<1>4. IsSound(f, stack, length)
  BY <1>1 DEF IsSound
<1> QED
  BY <1>1, <1>2, <1>3, <1>4, Entering DEF ControlInvariant

LEMMA EnterLoopStep ==
    ASSUME ControlInvariant, NEW scoped \in BOOLEAN, EnterLoop(scoped)
    PROVE  ControlInvariant'
<1> DEFINE f == [kind |-> "loop", scoped |-> scoped]
<1>1. f \in Frames /\ f.kind = "loop" /\ f.scoped = scoped
  BY DEF Frames, LoopFrames
<1>2. /\ stack' = Append(stack, f)
      /\ registers' = [registers EXCEPT !.scopes = @ + (IF scoped THEN 1 ELSE 0)]
      /\ UNCHANGED <<signal, length, iterating, due>>
  BY DEF EnterLoop, Push
<1> HIDE DEF f
<1>3. /\ registers' = After(registers, f, Len(stack) + 1)
      /\ iterating' = IterationsAfter(iterating, f) /\ due' = due + DueBy(f)
  BY <1>1, <1>2, ControlTypes, OfLoop, UncountedFrames, DebtlessFrames,
       OnlyTryOwes
<1>4. IsSound(f, stack, length)
  BY <1>1 DEF IsSound
<1> QED
  BY <1>1, <1>2, <1>3, <1>4, Entering DEF ControlInvariant

LEMMA EnterForEachStep ==
    ASSUME ControlInvariant, NEW l \in Lists, EnterForEach(l)
    PROVE  ControlInvariant'
<1> DEFINE f == [kind |-> "foreach", list |-> l, left |-> length[l], size |-> length[l]]
<1>1. f \in Frames /\ f.kind = "foreach" /\ f.list = l /\ f.size = length[l]
  BY ControlTypes DEF Frames, ForEachFrames
<1>2. /\ stack' = Append(stack, f) /\ registers' = [registers EXCEPT !.scopes = @ + 1]
      /\ iterating' = [iterating EXCEPT ![l] = @ + 1] /\ signal' = "continue"
      /\ UNCHANGED <<length, due>>
  BY DEF EnterForEach, Push
<1> HIDE DEF f
<1>3. registers' = After(registers, f, Len(stack) + 1)
  <2>1. registers \in Registers /\ Len(stack) + 1 \in Nat
    BY ControlTypes
  <2>2. After(registers, f, Len(stack) + 1) = [registers EXCEPT !.scopes = @ + 1]
    BY <1>1, <2>1, OfBlock
  <2> QED
    BY <1>2, <2>2
<1>6. due' = due + DueBy(f)
  BY <1>1, <1>2, ControlTypes, DebtlessFrames, OnlyTryOwes
<1>4. iterating' = IterationsAfter(iterating, f)
  <2>1. \A m \in Lists : iterating'[m] = iterating[m] + (IF f.kind = "foreach" /\ f.list = m THEN 1 ELSE 0)
    BY <1>1, <1>2, ControlTypes
  <2>2. iterating' = [m \in Lists |-> iterating'[m]]
    BY <1>2, ControlTypes
  <2> QED
    BY <2>1, <2>2 DEF IterationsAfter
<1>5. IsSound(f, stack, length)
  BY <1>1 DEF IsSound
<1> QED
  BY <1>1, <1>2, <1>3, <1>4, <1>5, <1>6, Entering DEF Outcomes, Flows

LEMMA EnterTryStep ==
    ASSUME ControlInvariant, NEW catches \in BOOLEAN, NEW finally \in BOOLEAN,
           EnterTry(catches, finally)
    PROVE  ControlInvariant'
<1> DEFINE f == [kind |-> "try", catches |-> catches, finally |-> finally,
                 phase |-> "body", pending |-> "normal"]
<1>1. f \in Frames /\ f.kind = "try" /\ f.phase = "body" /\ f.finally = finally
  BY DEF Frames, TryFrames, Outcomes, Flows
<1>2. /\ stack' = Append(stack, f) /\ due' = due + (IF finally THEN 1 ELSE 0)
      /\ UNCHANGED <<signal, registers, length, iterating>>
  BY DEF EnterTry, Push
<1> HIDE DEF f
<1>3. /\ registers' = After(registers, f, Len(stack) + 1)
      /\ iterating' = IterationsAfter(iterating, f)
  <2>1. registers' = [registers EXCEPT !.scopes = @ + 0]
    BY <1>2, ControlTypes DEF Registers
  <2>2. After(registers, f, Len(stack) + 1) =
            [registers EXCEPT !.scopes = @ + (IF f.phase = "catch" THEN 1 ELSE 0)]
    <3>1. registers \in Registers /\ Len(stack) + 1 \in Nat
      BY ControlTypes
    <3> QED
      BY <1>1, <3>1, OfTry
  <2>3. iterating' = IterationsAfter(iterating, f)
    BY <1>1, <1>2, ControlTypes, UncountedFrames
  <2> QED
    BY <1>1, <2>1, <2>2, <2>3
<1>4. due' = due + DueBy(f)
  BY <1>1, <1>2 DEF DueBy, OwesFinally
<1>5. IsSound(f, stack, length)
  BY <1>1 DEF IsSound
<1> QED
  BY <1>1, <1>2, <1>3, <1>4, <1>5, Entering DEF ControlInvariant

LEMMA EnterRunAsStep == ASSUME ControlInvariant, EnterRunAs PROVE ControlInvariant'
<1> DEFINE f == [kind |-> "runAs", saved |-> registers.user]
<1>1. f \in Frames /\ f.kind = "runAs" /\ f.saved = registers.user
  BY ControlTypes DEF Frames, RunAsFrames, Registers
<1>2. /\ stack' = Append(stack, f) /\ registers' = [registers EXCEPT !.user = Len(stack) + 1]
      /\ UNCHANGED <<signal, length, iterating, due>>
  BY DEF EnterRunAs, Push, Here
<1> HIDE DEF f
<1>3. registers' = After(registers, f, Len(stack) + 1)
  <2>1. registers \in Registers /\ Len(stack) + 1 \in Nat
    BY ControlTypes
  <2>2. After(registers, f, Len(stack) + 1) = [registers EXCEPT !.user = Len(stack) + 1]
    BY <1>1, <2>1, OfRunAs
  <2> QED
    BY <1>2, <2>2
<1>4. iterating' = IterationsAfter(iterating, f) /\ due' = due + DueBy(f)
  BY <1>1, <1>2, ControlTypes, UncountedFrames, DebtlessFrames, OnlyTryOwes
<1>5. IsSound(f, stack, length)
  BY <1>1, ControlTypes DEF IsSound
<1> QED
  BY <1>1, <1>2, <1>3, <1>4, <1>5, Entering DEF ControlInvariant

LEMMA EnterCallStep ==
    ASSUME ControlInvariant, NEW returns \in BOOLEAN, NEW method \in BOOLEAN,
           EnterCall(returns, method)
    PROVE  ControlInvariant'
<1> DEFINE f == CallFrame(returns, method)
<1>1. f \in Frames /\ f.kind = "call" /\ f.method = method /\ f.saved = registers
  BY ControlTypes DEF Frames, CallFrames, CallFrame
<1>2. /\ stack' = Append(stack, f)
      /\ registers' = [scopes |-> 1, calls |-> registers.calls + 1,
                       owner |-> IF f.method THEN Len(stack) + 1 ELSE registers.owner,
                       user |-> registers.user]
      /\ UNCHANGED <<signal, length, iterating, due>>
  BY <1>1 DEF EnterCall, Push, Here, Called, Scoped
<1> HIDE DEF f
<1>3. /\ registers' = After(registers, f, Len(stack) + 1)
      /\ iterating' = IterationsAfter(iterating, f) /\ due' = due + DueBy(f)
  BY <1>1, <1>2, ControlTypes, OfCall, UncountedFrames, DebtlessFrames,
       OnlyTryOwes
<1>4. IsSound(f, stack, length)
  BY <1>1, ControlTypes DEF IsSound
<1> QED
  BY <1>1, <1>2, <1>3, <1>4, Entering DEF ControlInvariant

LEMMA EnterAssignmentStep ==
    ASSUME ControlInvariant, NEW l \in Lists, NEW index \in Nat, EnterAssignment(l, index)
    PROVE  ControlInvariant'
<1> DEFINE f == [kind |-> "assign", list |-> l, index |-> index]
<1>1. f \in Frames /\ f.kind = "assign"
  BY DEF Frames, AssignFrames
<1>2. stack' = Append(stack, f) /\ UNCHANGED <<signal, registers, length, iterating, due>>
  BY DEF EnterAssignment, Push
<1> HIDE DEF f
<1>3. /\ registers' = After(registers, f, Len(stack) + 1)
      /\ iterating' = IterationsAfter(iterating, f) /\ due' = due + DueBy(f)
  BY <1>1, <1>2, ControlTypes, OfAssignment, UncountedFrames, DebtlessFrames,
       OnlyTryOwes
<1>4. IsSound(f, stack, length)
  BY <1>1 DEF IsSound
<1> QED
  BY <1>1, <1>2, <1>3, <1>4, Entering DEF ControlInvariant

LEMMA EnterConstructionStep ==
    ASSUME ControlInvariant, NEW class \in {1, 2}, NEW ctor \in Ctors,
           ctor = "super" => class = 2, EnterConstruction(class, ctor)
    PROVE  ControlInvariant'
<1> DEFINE f == [kind |-> "construct", class |-> class, ctor |-> ctor, step |-> "begin",
                 saved |-> registers, initialized |-> {}, log |-> <<>>, nested |-> FALSE]
<1>1. /\ f \in Frames /\ f.kind = "construct" /\ f.step = "begin" /\ f.saved = registers
      /\ f.initialized = {} /\ f.log = <<>> /\ ~f.nested /\ f.ctor = ctor /\ f.class = class
  <2>1. <<>> \in Seq({1, 2})
    BY EmptySeq
  <2> QED
    BY <2>1, ControlTypes DEF Frames, ConstructFrames, Steps
<1>2. stack' = Append(stack, f) /\ UNCHANGED <<signal, registers, length, iterating, due>>
  BY DEF EnterConstruction, Push
<1> HIDE DEF f
<1>3. /\ registers' = After(registers, f, Len(stack) + 1)
      /\ iterating' = IterationsAfter(iterating, f) /\ due' = due + DueBy(f)
  BY <1>1, <1>2, ControlTypes, OfConstruction, UncountedFrames, DebtlessFrames,
       OnlyTryOwes
<1>4. Progress(f) /\ Delegates(f)
  <2>1. Len(f.log) = 0 /\ 1 .. 0 = {}
    BY <1>1
  <2> QED
    BY <1>1, <2>1 DEF Progress, Delegates
<1>5. IsSound(f, stack, length)
  BY <1>1, <1>4, ControlTypes DEF IsSound
<1> QED
  BY <1>1, <1>2, <1>3, <1>5, Entering DEF ControlInvariant

-----------------------------------------------------------------------------
(* Leaving                                                                 *)

\* What the registers and counters were below a frame, by what it added to them.
LEMMA BelowTop ==
    ASSUME ControlInvariant, stack # <<>>
    PROVE  /\ Top \in Frames /\ IsSound(Top, Below, length)
           /\ RegistersOf(Below) \in Registers /\ Len(stack) \in Nat
           /\ registers = After(RegistersOf(Below), Top, Len(stack))
           /\ iterating = IterationsAfter(IterationsOf(Below), Top)
           /\ due = DueOf(Below) + DueBy(Top)
BY ControlOfTop DEF IsTop

LEMMA ScopesAreTakenBack ==
    ASSUME NEW r \in Registers, NEW q, NEW d \in Int, q = [r EXCEPT !.scopes = @ + d]
    PROVE  [q EXCEPT !.scopes = @ - d] = r
<1>1. /\ DOMAIN r = {"scopes", "calls", "owner", "user"} /\ r.scopes \in Int
      /\ r = [k \in {"scopes", "calls", "owner", "user"} |-> r[k]]
  BY DEF Registers
<1>2. q.scopes = r.scopes + d /\ q.scopes - d = r.scopes
  BY <1>1
<1> QED
  BY <1>1, <1>2

LEMMA UserIsPutBack ==
    ASSUME NEW r \in Registers, NEW q, NEW p, q = [r EXCEPT !.user = p]
    PROVE  [q EXCEPT !.user = r.user] = r
<1>1. /\ DOMAIN r = {"scopes", "calls", "owner", "user"}
      /\ r = [k \in {"scopes", "calls", "owner", "user"} |-> r[k]]
  BY DEF Registers
<1> QED
  BY <1>1

LEMMA UncountedTop ==
    ASSUME ControlInvariant, stack # <<>>
    PROVE  /\ Top.kind # "foreach" => iterating = IterationsOf(Below)
           /\ ~OwesFinally(Top) => due = DueOf(Below)
<1>1. IterationsOf(Below) \in [Lists -> Nat] /\ DueOf(Below) \in Nat
  BY ControlOfTop
<1>2. /\ iterating = IterationsAfter(IterationsOf(Below), Top)
      /\ due = DueOf(Below) + DueBy(Top)
  BY BelowTop
<1>3. Top.kind # "foreach" => iterating = IterationsOf(Below)
  BY <1>1, <1>2, UncountedFrames
<1>4. ~OwesFinally(Top) => due = DueOf(Below)
  BY <1>1, <1>2, DebtlessFrames
<1> QED
  BY <1>3, <1>4

LEMMA LeaveBlockStep == ASSUME ControlInvariant, LeaveBlock PROVE ControlInvariant'
<1>1. /\ stack # <<>> /\ signal \in Outcomes /\ Top.kind = "block" /\ stack' = Below
      /\ signal' \in Outcomes \cup {"run", "panic"}
      /\ registers' = [registers EXCEPT !.scopes = @ - 1] /\ UNCHANGED <<length, iterating, due>>
  BY DEF LeaveBlock, Passing, Pop
<1>2. registers = [RegistersOf(Below) EXCEPT !.scopes = @ + 1]
  BY <1>1, BelowTop, OfBlock
<1>3. registers' = RegistersOf(Below)
  <2>1. RegistersOf(Below) \in Registers /\ 1 \in Int
    BY <1>1, BelowTop
  <2>2. [registers EXCEPT !.scopes = @ - 1] = RegistersOf(Below)
    BY <1>2, <2>1, ScopesAreTakenBack
  <2> QED
    BY <1>1, <2>2
<1> QED
  BY <1>1, <1>3, UncountedTop, OnlyTryOwes, Leaving

LEMMA LeaveLoopStep ==
    ASSUME ControlInvariant, NEW outcome, LeaveLoop(outcome)
    PROVE  ControlInvariant'
<1>1. /\ stack # <<>> /\ signal \in Outcomes /\ Top.kind = "loop" /\ stack' = Below
      /\ registers' = [registers EXCEPT !.scopes = @ - (IF Top.scoped THEN 1 ELSE 0)]
      /\ UNCHANGED <<length, iterating, due>>
  BY DEF LeaveLoop, Passing, Pop
<1>2. signal' \in Outcomes \cup {"run", "panic"}
  <2>1. outcome \in LoopOutcomes /\ signal' = IF outcome = "normal" THEN "run" ELSE outcome
    BY DEF LeaveLoop, Pop
  <2>2. LoopOutcomes \subseteq Outcomes
    BY <1>1 DEF LoopOutcomes, Outcomes, Flows, Errors
  <2> QED
    BY <2>1, <2>2
<1>3. registers = [RegistersOf(Below) EXCEPT !.scopes = @ + (IF Top.scoped THEN 1 ELSE 0)]
  BY <1>1, BelowTop, OfLoop
<1>4. registers' = RegistersOf(Below)
  <2>1. (IF Top.scoped THEN 1 ELSE 0) \in Int
    OBVIOUS
  <2> QED
    BY <1>1, <1>3, <2>1, BelowTop, ScopesAreTakenBack
<1> QED
  BY <1>1, <1>2, <1>4, UncountedTop, OnlyTryOwes, Leaving

LEMMA LeaveForEachStep == ASSUME ControlInvariant, LeaveForEach PROVE ControlInvariant'
<1>1. /\ stack # <<>> /\ signal \in Outcomes /\ Top.kind = "foreach" /\ stack' = Below
      /\ signal' \in Outcomes \cup {"run", "panic"}
      /\ registers' = [registers EXCEPT !.scopes = @ - 1]
      /\ iterating' = [iterating EXCEPT ![Top.list] = @ - 1] /\ UNCHANGED <<length, due>>
  BY DEF LeaveForEach, Passing, Pop, Uncount
<1>2. registers = [RegistersOf(Below) EXCEPT !.scopes = @ + 1]
  BY <1>1, BelowTop, OfBlock
<1>3. registers' = RegistersOf(Below)
  <2>1. RegistersOf(Below) \in Registers /\ 1 \in Int
    BY <1>1, BelowTop
  <2>2. [registers EXCEPT !.scopes = @ - 1] = RegistersOf(Below)
    BY <1>2, <2>1, ScopesAreTakenBack
  <2> QED
    BY <1>1, <2>2
<1>4. Top.list \in Lists
  BY <1>1, BelowTop, FrameKinds DEF ForEachFrames
<1>5. iterating' = IterationsOf(Below)
  <2> DEFINE counts == IterationsOf(Below)
  <2>1. counts \in [Lists -> Nat] /\ iterating \in [Lists -> Nat]
    BY ControlOfTop, <1>1, ControlTypes
  <2>2. \A l \in Lists : iterating[l] = counts[l] + (IF Top.list = l THEN 1 ELSE 0)
    BY <1>1, BelowTop DEF IterationsAfter
  <2> HIDE DEF counts
  <2>3. \A l \in Lists : iterating'[l] = counts[l]
    <3> TAKE l \in Lists
    <3>1. CASE l = Top.list
      BY <1>1, <1>4, <2>1, <2>2, <3>1
    <3>2. CASE l # Top.list
      BY <1>1, <1>4, <2>1, <2>2, <3>2
    <3> QED
      BY <3>1, <3>2
  <2>4. iterating' = [l \in Lists |-> iterating'[l]]
    BY <1>1, <2>1
  <2>5. counts = [l \in Lists |-> counts[l]]
    BY <2>1
  <2>6. iterating' = counts
    BY <2>3, <2>4, <2>5
  <2> QED
    BY <2>6 DEF counts
<1> QED
  BY <1>1, <1>3, <1>5, UncountedTop, OnlyTryOwes, Leaving

LEMMA LeaveRunAsStep == ASSUME ControlInvariant, LeaveRunAs PROVE ControlInvariant'
<1>1. /\ stack # <<>> /\ signal \in Outcomes /\ Top.kind = "runAs" /\ stack' = Below
      /\ signal' \in Outcomes \cup {"run", "panic"}
      /\ registers' = [registers EXCEPT !.user = Top.saved] /\ UNCHANGED <<length, iterating, due>>
  BY DEF LeaveRunAs, Passing, Pop
<1>2. registers = [RegistersOf(Below) EXCEPT !.user = Len(stack)]
  BY <1>1, BelowTop, OfRunAs
<1>3. Top.saved = RegistersOf(Below).user
  BY <1>1, BelowTop DEF IsSound
<1>4. registers' = RegistersOf(Below)
  BY <1>1, <1>2, <1>3, BelowTop, UserIsPutBack
<1> QED
  BY <1>1, <1>4, UncountedTop, OnlyTryOwes, Leaving

LEMMA LeaveCallStep == ASSUME ControlInvariant, LeaveCall PROVE ControlInvariant'
<1>1. /\ stack # <<>> /\ signal \in Outcomes /\ Top.kind = "call" /\ stack' = Below
      /\ registers' = [registers EXCEPT !.scopes = Top.saved.scopes, !.calls = @ - 1,
                                        !.owner = IF Top.method THEN Top.saved.owner ELSE @]
      /\ UNCHANGED <<length, iterating, due>>
  BY DEF LeaveCall, Passing, Pop, Saved
<1>2. signal' \in Outcomes \cup {"run", "panic"}
  BY <1>1 DEF LeaveCall, Pop, Outcomes, Errors
<1>3. RegistersOf(Below) \in Registers /\ Top.saved = RegistersOf(Below)
  BY <1>1, BelowTop DEF IsSound
<1>4. registers = [scopes |-> 1, calls |-> RegistersOf(Below).calls + 1,
                   owner |-> IF Top.method THEN Len(stack) ELSE RegistersOf(Below).owner,
                   user |-> RegistersOf(Below).user]
  BY <1>1, BelowTop, OfCall
<1>5. registers' = RegistersOf(Below)
  <2> DEFINE regs == RegistersOf(Below)
  <2> HIDE DEF regs
  <2>1. regs \in Registers /\ Top.saved = regs
    BY <1>3 DEF regs
  <2>2. registers = [scopes |-> 1, calls |-> regs.calls + 1,
                     owner |-> IF Top.method THEN Len(stack) ELSE regs.owner, user |-> regs.user]
    BY <1>4 DEF regs
  <2>3. regs.calls \in Int
    BY <2>1 DEF Registers
  <2>4. registers' = [scopes |-> regs.scopes, calls |-> regs.calls, owner |-> regs.owner,
                      user |-> regs.user]
    <3>1. /\ registers.calls = regs.calls + 1 /\ registers.user = regs.user
          /\ ~Top.method => registers.owner = regs.owner
      BY <2>2
    <3>2. registers' = [scopes |-> regs.scopes, calls |-> registers.calls - 1,
                        owner |-> IF Top.method THEN regs.owner ELSE registers.owner,
                        user |-> registers.user]
      BY <1>1, <2>1, <2>2
    <3>3. registers.calls - 1 = regs.calls
      BY <2>3, <3>1
    <3>4. (IF Top.method THEN regs.owner ELSE registers.owner) = regs.owner
      BY <3>1, Zenon
    <3> QED
      BY <3>1, <3>2, <3>3, <3>4, Zenon
  <2>5. registers' = regs
    BY <2>1, <2>4 DEF Registers
  <2> QED
    BY <2>5 DEF regs
<1> QED
  BY <1>1, <1>2, <1>5, UncountedTop, OnlyTryOwes, Leaving

LEMMA LeaveFinallyStep == ASSUME ControlInvariant, LeaveFinally PROVE ControlInvariant'
<1>1. /\ stack # <<>> /\ signal \in Outcomes /\ Top.kind = "try" /\ Top.phase = "finally"
      /\ stack' = Below /\ UNCHANGED <<registers, length, iterating, due>>
  BY DEF LeaveFinally, Passing, Pop
<1>2. signal' \in Outcomes \cup {"run", "panic"}
  <2>1. Top.pending \in Outcomes
    BY <1>1, BelowTop, FrameKinds DEF TryFrames
  <2> QED
    BY <1>1, <2>1 DEF LeaveFinally, Pop
<1>3. registers = RegistersOf(Below)
  <2>1. registers = [RegistersOf(Below) EXCEPT !.scopes = @ + (IF Top.phase = "catch" THEN 1 ELSE 0)]
    <3>1. /\ RegistersOf(Below) \in Registers /\ Len(stack) \in Nat
          /\ registers = After(RegistersOf(Below), Top, Len(stack))
      BY <1>1, BelowTop
    <3> QED
      BY <1>1, <3>1, OfTry
  <2>2. registers = [RegistersOf(Below) EXCEPT !.scopes = @ + 0]
    BY <1>1, <2>1
  <2>3. RegistersOf(Below) \in Registers
    BY <1>1, BelowTop
  <2>4. RegistersOf(Below).scopes + 0 = RegistersOf(Below).scopes
    BY <2>3 DEF Registers
  <2> QED
    BY <2>2, <2>3, <2>4 DEF Registers
<1>4. ~OwesFinally(Top)
  BY <1>1 DEF OwesFinally
<1> QED
  BY <1>1, <1>2, <1>3, <1>4, UncountedTop, Leaving

LEMMA AssignStep == ASSUME ControlInvariant, Assign PROVE ControlInvariant'
<1>1. /\ stack # <<>> /\ signal \in Outcomes /\ Top.kind = "assign"
      /\ UNCHANGED <<registers, length, iterating, due>>
  BY DEF Assign, Passing
<1>2. CASE signal' = "panic" /\ stack' = stack
  BY <1>1, <1>2 DEF ControlInvariant
<1>3. CASE Pop(signal)
  <2>1. stack' = Below /\ signal' \in Outcomes \cup {"run", "panic"}
    BY <1>1, <1>3 DEF Pop
  <2>2. registers = RegistersOf(Below)
    BY <1>1, BelowTop, OfAssignment
  <2> QED
    BY <1>1, <2>1, <2>2, UncountedTop, OnlyTryOwes, Leaving
<1> QED
  BY <1>2, <1>3 DEF Assign

-----------------------------------------------------------------------------
(* Going on                                                                *)

LEMMA NothingIsAdded ==
    ASSUME NEW r \in Registers
    PROVE  [r EXCEPT !.scopes = @ + 0] = r
<1>1. r.scopes + 0 = r.scopes
  BY DEF Registers
<1> QED
  BY <1>1 DEF Registers

LEMMA SignalStep ==
    ASSUME ControlInvariant, UNCHANGED <<stack, registers, length, iterating, due>>,
           signal' \in Outcomes \cup {"run", "panic"}
    PROVE  ControlInvariant'
BY DEF ControlInvariant

LEMMA NextElementStep == ASSUME ControlInvariant, NextElement PROVE ControlInvariant'
<1> DEFINE f == [Top EXCEPT !.left = @ - 1]
<1>1. /\ stack # <<>> /\ Top.kind = "foreach" /\ Top.left > 0 /\ stack' = Append(Below, f)
      /\ signal' = "run" /\ UNCHANGED <<registers, length, iterating, due>>
  BY DEF NextElement, Passing
<1>2. Top \in ForEachFrames
  BY <1>1, BelowTop, FrameKinds
<1>3. f \in ForEachFrames /\ f.kind = "foreach" /\ f.list = Top.list /\ f.size = Top.size
  BY <1>1, <1>2 DEF ForEachFrames
<1> HIDE DEF f
<1>4. f \in Frames
  BY <1>3 DEF Frames
<1>5. IsSound(f, Below, length)
  BY <1>1, <1>3, BelowTop DEF IsSound
<1>6. registers' = After(RegistersOf(Below), f, Len(stack))
  <2>1. /\ RegistersOf(Below) \in Registers /\ Len(stack) \in Nat
        /\ registers = After(RegistersOf(Below), Top, Len(stack))
    BY <1>1, BelowTop
  <2>2. After(RegistersOf(Below), f, Len(stack)) = After(RegistersOf(Below), Top, Len(stack))
    <3>1. After(RegistersOf(Below), f, Len(stack)) = [RegistersOf(Below) EXCEPT !.scopes = @ + 1]
      BY <1>3, <2>1, OfBlock
    <3>2. After(RegistersOf(Below), Top, Len(stack)) = [RegistersOf(Below) EXCEPT !.scopes = @ + 1]
      BY <1>1, <2>1, OfBlock
    <3> QED
      BY <3>1, <3>2
  <2> QED
    BY <1>1, <2>1, <2>2
<1>7. iterating' = IterationsAfter(IterationsOf(Below), f)
  BY <1>1, <1>3, BelowTop DEF IterationsAfter
<1>8. due' = DueOf(Below) + DueBy(f)
  BY <1>1, <1>3, BelowTop DEF DueBy, OwesFinally
<1> QED
  BY <1>1, <1>4, <1>5, <1>6, <1>7, <1>8, Changing

\* The registers in each part of a try.
LEMMA InTry ==
    ASSUME ControlInvariant, stack # <<>>, Top.kind = "try"
    PROVE  registers = IF Top.phase = "catch"
                       THEN [RegistersOf(Below) EXCEPT !.scopes = @ + 1]
                       ELSE RegistersOf(Below)
<1>1. /\ RegistersOf(Below) \in Registers /\ Len(stack) \in Nat
      /\ registers = After(RegistersOf(Below), Top, Len(stack))
  BY BelowTop
<1>2. registers = [RegistersOf(Below) EXCEPT !.scopes = @ + (IF Top.phase = "catch" THEN 1 ELSE 0)]
  BY <1>1, OfTry
<1> QED
  BY <1>1, <1>2, NothingIsAdded

LEMMA CatchStep == ASSUME ControlInvariant, Catch PROVE ControlInvariant'
<1> DEFINE f == [Top EXCEPT !.phase = "catch"]
<1>1. /\ stack # <<>> /\ Top.kind = "try" /\ Top.phase = "body" /\ stack' = Append(Below, f)
      /\ signal' = "run" /\ registers' = [registers EXCEPT !.scopes = @ + 1]
      /\ UNCHANGED <<length, iterating, due>>
  BY DEF Catch, Passing
<1>2. Top \in TryFrames
  BY <1>1, BelowTop, FrameKinds
<1>3. f \in TryFrames /\ f.kind = "try" /\ f.finally = Top.finally /\ f.phase = "catch"
  BY <1>1, <1>2 DEF TryFrames
<1> HIDE DEF f
<1>4. f \in Frames
  BY <1>3 DEF Frames
<1>5. IsSound(f, Below, length)
  BY <1>3 DEF IsSound
<1>6. registers' = After(RegistersOf(Below), f, Len(stack))
  <2>1. RegistersOf(Below) \in Registers /\ Len(stack) \in Nat
    BY <1>1, BelowTop
  <2>2. registers = RegistersOf(Below)
    BY <1>1, InTry
  <2>3. After(RegistersOf(Below), f, Len(stack)) =
            [RegistersOf(Below) EXCEPT !.scopes = @ + (IF f.phase = "catch" THEN 1 ELSE 0)]
    BY <1>3, <2>1, OfTry
  <2> QED
    BY <1>1, <1>3, <2>2, <2>3
<1>7. iterating' = IterationsAfter(IterationsOf(Below), f)
  BY <1>1, <1>3, BelowTop DEF IterationsAfter
<1>8. due' = DueOf(Below) + DueBy(f)
  <2>1. OwesFinally(f) <=> OwesFinally(Top)
    BY <1>1, <1>3 DEF OwesFinally
  <2> QED
    BY <1>1, <2>1, BelowTop DEF DueBy
<1> QED
  BY <1>1, <1>4, <1>5, <1>6, <1>7, <1>8, Changing

LEMMA EndTryPartStep == ASSUME ControlInvariant, EndTryPart PROVE ControlInvariant'
<1>1. /\ stack # <<>> /\ signal \in Outcomes /\ Top.kind = "try" /\ Top.phase # "finally"
      /\ registers' = [registers EXCEPT !.scopes = @ - (IF Top.phase = "catch" THEN 1 ELSE 0)]
      /\ UNCHANGED <<length, iterating>>
  BY DEF EndTryPart, Passing
<1>2. Top \in TryFrames
  BY <1>1, BelowTop, FrameKinds
<1>3. registers' = RegistersOf(Below)
  <2>1. /\ RegistersOf(Below) \in Registers /\ Len(stack) \in Nat
        /\ registers = After(RegistersOf(Below), Top, Len(stack))
    BY <1>1, BelowTop
  <2>2. registers = [RegistersOf(Below) EXCEPT !.scopes = @ + (IF Top.phase = "catch" THEN 1 ELSE 0)]
    BY <1>1, <2>1, OfTry
  <2>3. (IF Top.phase = "catch" THEN 1 ELSE 0) \in Int
    OBVIOUS
  <2> QED
    BY <1>1, <2>1, <2>2, <2>3, ScopesAreTakenBack
<1>4. CASE ReachesFinally(signal)
  <2> DEFINE f == [Top EXCEPT !.phase = "finally", !.pending = signal]
  <2>1. /\ stack' = Append(Below, f) /\ signal' = "run" /\ due' = due - 1 /\ Top.finally
    BY <1>4 DEF EndTryPart, ReachesFinally
  <2>2. f \in TryFrames /\ f.kind = "try" /\ f.phase = "finally"
    BY <1>1, <1>2 DEF TryFrames
  <2> HIDE DEF f
  <2>3. f \in Frames
    BY <2>2 DEF Frames
  <2>4. IsSound(f, Below, length)
    BY <2>2 DEF IsSound
  <2>5. registers' = After(RegistersOf(Below), f, Len(stack))
    <3>1. RegistersOf(Below) \in Registers /\ Len(stack) \in Nat
      BY <1>1, BelowTop
    <3>2. After(RegistersOf(Below), f, Len(stack)) =
              [RegistersOf(Below) EXCEPT !.scopes = @ + (IF f.phase = "catch" THEN 1 ELSE 0)]
      BY <2>2, <3>1, OfTry
    <3> QED
      BY <1>3, <2>2, <3>1, <3>2, NothingIsAdded
  <2>6. iterating' = IterationsAfter(IterationsOf(Below), f)
    BY <1>1, <2>2, BelowTop DEF IterationsAfter
  <2>7. due' = DueOf(Below) + DueBy(f)
    <3>1. DueBy(Top) = 1 /\ DueBy(f) = 0
      BY <1>1, <2>1, <2>2 DEF DueBy, OwesFinally
    <3>2. due = DueOf(Below) + DueBy(Top) /\ DueOf(Below) \in Nat
      BY <1>1, BelowTop, ControlOfTop
    <3> QED
      BY <2>1, <3>1, <3>2
  <2> QED
    BY <1>1, <2>1, <2>3, <2>4, <2>5, <2>6, <2>7, Changing
<1>5. CASE ~ReachesFinally(signal)
  <2>1. stack' = Below /\ signal' \in Outcomes \cup {"run", "panic"} /\ due' = due
    BY <1>1, <1>5 DEF EndTryPart, Pop
  <2>2. ~OwesFinally(Top)
    BY <1>1, <1>5 DEF OwesFinally, ReachesFinally
  <2> QED
    BY <1>1, <1>3, <2>1, <2>2, UncountedTop, Leaving
<1> QED
  BY <1>4, <1>5

\* A list that no loop iterates over has no loop on the stack.
LEMMA ResizeStep ==
    ASSUME ControlInvariant, NEW l \in Lists, NEW n \in Nat, Resize(l, n)
    PROVE  ControlInvariant'
<1>1. CASE iterating[l] # 0
  BY <1>1, SignalStep DEF Resize, Outcomes, Errors
<1>2. CASE iterating[l] = 0
  <2>1. /\ length' = [length EXCEPT ![l] = n]
        /\ UNCHANGED <<stack, signal, registers, iterating, due>>
    BY <1>2 DEF Resize
  <2>2. Iterators(stack, l) = {}
    <3>1. Cardinality(Iterators(stack, l)) = 0
      BY <1>2 DEF ControlInvariant, Stands, IterationsOf
    <3>2. IsFiniteSet(Iterators(stack, l))
      BY ControlTypes, PositionsInStack, OneMore
    <3> QED
      BY <3>1, <3>2, FS_EmptySet
  <2>3. \A i \in 1 .. Len(stack) : stack[i].kind = "foreach" => stack[i].list # l
    BY <2>2 DEF Iterators
  <2>4. \A i \in 1 .. Len(stack) : stack[i].kind = "foreach" => stack[i].list \in Lists
    BY ControlTypes, FrameKinds DEF ForEachFrames
  <2>5. \A i \in 1 .. Len(stack) : stack[i].kind = "foreach" =>
            length'[stack[i].list] = length[stack[i].list]
    BY <2>1, <2>3, <2>4, ControlTypes
  <2>6. AllSound(stack, length)
    BY DEF ControlInvariant, Stands
  <2>7. AllSound(stack, length')
    <3> SUFFICES ASSUME NEW i \in 1 .. Len(stack)
                 PROVE  IsSound(stack[i], SubSeq(stack, 1, i - 1), length')
      BY DEF AllSound
    <3>1. IsSound(stack[i], SubSeq(stack, 1, i - 1), length)
      BY <2>6 DEF AllSound
    <3> QED
      BY <2>5, <3>1 DEF IsSound
  <2>8. length' \in [Lists -> Nat]
    BY <2>1, ControlTypes
  <2> QED
    BY <2>1, <2>7, <2>8 DEF ControlInvariant, Stands
<1> QED
  BY <1>1, <1>2

-----------------------------------------------------------------------------
(* Construction                                                            *)

\* What is known of a constructor on top of the stack.
LEMMA ConstructorOnTop ==
    ASSUME ControlInvariant, stack # <<>>, Top.kind = "construct"
    PROVE  /\ Top \in ConstructFrames /\ Progress(Top) /\ Delegates(Top)
           /\ Top.saved = RegistersOf(Below)
           /\ Top.nested => Below # <<>> /\ AnswersTo(Top, Below[Len(Below)])
           /\ iterating = IterationsOf(Below) /\ due = DueOf(Below)
           /\ Top.step \notin {"arguments", "fields"} => registers = RegistersOf(Below)
<1>1. Top \in Frames /\ IsSound(Top, Below, length)
  BY BelowTop
<1>2. Top \in ConstructFrames
  BY <1>1, FrameKinds
<1>3. iterating = IterationsOf(Below) /\ due = DueOf(Below)
  BY UncountedTop, OnlyTryOwes
<1>4. Top.step \notin {"arguments", "fields"} => registers = RegistersOf(Below)
  BY BelowTop, OfConstruction
<1> QED
  BY <1>1, <1>2, <1>3, <1>4 DEF IsSound

\* The top constructor goes on to another step.
LEMMA ConstructorGoesOn ==
    ASSUME ControlInvariant, stack # <<>>, Top.kind = "construct",
           NEW f \in ConstructFrames, f.class = Top.class, f.saved = Top.saved,
           f.nested = Top.nested, Progress(f), Delegates(f)
    PROVE  /\ f \in Frames /\ f.kind = "construct" /\ IsSound(f, Below, length)
           /\ iterating = IterationsAfter(IterationsOf(Below), f)
           /\ due = DueOf(Below) + DueBy(f)
<1>1. f \in Frames /\ f.kind = "construct"
  BY DEF Frames, ConstructFrames
<1>2. IsSound(f, Below, length)
  BY <1>1, ConstructorOnTop DEF IsSound, AnswersTo
<1>3. IterationsOf(Below) \in [Lists -> Nat] /\ DueOf(Below) \in Nat
  BY ControlOfTop
<1>4. iterating = IterationsAfter(IterationsOf(Below), f)
  BY <1>1, <1>3, ConstructorOnTop, UncountedFrames
<1>5. due = DueOf(Below) + DueBy(f)
  BY <1>1, <1>3, ConstructorOnTop, DebtlessFrames, OnlyTryOwes
<1> QED
  BY <1>1, <1>2, <1>4, <1>5

LEMMA NoInitializerYet ==
    ASSUME NEW f, f.step \in {"begin", "arguments", "delegated"}, Progress(f)
    PROVE  f.log = <<>> /\ f.initialized = {}
<1>1. f.log = <<>> /\ Len(f.log) = 0
  BY DEF Progress
<1>2. 1 .. 0 = {}
  OBVIOUS
<1> QED
  BY <1>1, <1>2 DEF Progress

LEMMA BeginDelegationStep == ASSUME ControlInvariant, BeginDelegation PROVE ControlInvariant'
<1> DEFINE f == [Top EXCEPT !.step = "arguments"]
<1>1. /\ stack # <<>> /\ Top.kind = "construct" /\ Top.step = "begin"
      /\ Top.ctor \in {"this", "super"} /\ stack' = Append(Below, f)
      /\ registers' = [scopes |-> 1, calls |-> registers.calls, owner |-> Len(stack),
                       user |-> registers.user]
      /\ UNCHANGED <<signal, length, iterating, due>>
  BY DEF BeginDelegation, Constructing, Scoped
<1>2. Top \in ConstructFrames /\ Progress(Top) /\ Delegates(Top)
  BY <1>1, ConstructorOnTop
<1>3. /\ f \in ConstructFrames /\ f.class = Top.class /\ f.saved = Top.saved
      /\ f.nested = Top.nested /\ f.step = "arguments" /\ f.log = Top.log
      /\ f.initialized = Top.initialized /\ f.ctor = Top.ctor
  BY <1>1, <1>2 DEF ConstructFrames, Steps
<1> HIDE DEF f
<1>4. Progress(f) /\ Delegates(f)
  BY <1>1, <1>2, <1>3 DEF Progress, Delegates
<1>5. /\ f \in Frames /\ f.kind = "construct" /\ IsSound(f, Below, length)
      /\ iterating = IterationsAfter(IterationsOf(Below), f)
      /\ due = DueOf(Below) + DueBy(f)
  BY <1>1, <1>3, <1>4, ConstructorGoesOn
<1>6. registers' = After(RegistersOf(Below), f, Len(stack))
  <2>1. RegistersOf(Below) \in Registers /\ Len(stack) \in Nat
    BY <1>1, BelowTop
  <2>2. registers = RegistersOf(Below)
    BY <1>1, ConstructorOnTop
  <2>3. After(RegistersOf(Below), f, Len(stack)) =
            [scopes |-> 1, calls |-> RegistersOf(Below).calls, owner |-> Len(stack),
             user |-> RegistersOf(Below).user]
    BY <1>3, <1>5, <2>1, OfArguments
  <2> QED
    BY <1>1, <2>2, <2>3
<1> QED
  BY <1>1, <1>5, <1>6, Changing DEF ControlInvariant

\* The top constructor waits for the one it delegates to.
LEMMA DelegationStep ==
    ASSUME ControlInvariant, stack # <<>>, Top.kind = "construct",
           Top.step \in {"begin", "arguments"}, Top.ctor # "this" => Top.class = 2,
           NEW g \in ConstructFrames, g.step = "begin", g.log = Top.log,
           g.initialized = Top.initialized, g.saved = Top.saved, g.nested,
           g.class = IF Top.ctor = "this" THEN Top.class ELSE 1,
           g.ctor = "super" => g.class = 2,
           stack' = Append(Append(Below, [Top EXCEPT !.step = "delegated"]), g),
           registers' = Top.saved, UNCHANGED <<length, iterating, due>>,
           signal' \in Outcomes \cup {"run", "panic"}
    PROVE  ControlInvariant'
<1> DEFINE f == [Top EXCEPT !.step = "delegated"]
<1>1. Top \in ConstructFrames /\ Progress(Top) /\ Delegates(Top)
  BY ConstructorOnTop
<1>2. /\ f \in ConstructFrames /\ f.class = Top.class /\ f.saved = Top.saved
      /\ f.nested = Top.nested /\ f.step = "delegated" /\ f.log = Top.log
      /\ f.initialized = Top.initialized /\ f.ctor = Top.ctor
  BY <1>1 DEF ConstructFrames, Steps
<1>3. stack' = Append(Append(Below, f), g)
  OBVIOUS
<1> HIDE DEF f
<1>4. Progress(f) /\ Delegates(f) /\ Progress(g) /\ Delegates(g)
  <2>1. Top.log = <<>> /\ Top.initialized = {} /\ Len(<<>>) = 0 /\ 1 .. 0 = {}
    BY <1>1, NoInitializerYet
  <2> QED
    BY <1>1, <1>2, <2>1 DEF Progress, Delegates
<1>5. /\ f \in Frames /\ f.kind = "construct" /\ IsSound(f, Below, length)
      /\ iterating = IterationsAfter(IterationsOf(Below), f)
      /\ due = DueOf(Below) + DueBy(f)
  BY <1>2, <1>4, ConstructorGoesOn
<1>6. g \in Frames /\ g.kind = "construct"
  BY DEF Frames, ConstructFrames
<1>7. /\ RegistersOf(Below) \in Registers /\ Len(stack) \in Nat /\ Len(stack) + 1 \in Nat
      /\ Top.saved = RegistersOf(Below) /\ Below \in Seq(Frames) /\ Len(Below) + 1 = Len(stack)
  BY BelowTop, ControlTypes, ConstructorOnTop, ControlOfTop
<1>8. After(RegistersOf(Below), f, Len(stack)) = RegistersOf(Below)
  BY <1>2, <1>5, <1>7, OfConstruction
<1>9. After(RegistersOf(Below), g, Len(stack) + 1) = RegistersOf(Below)
  BY <1>6, <1>7, OfConstruction
<1>10. IsSound(g, Append(Below, f), length)
  <2>1. /\ Append(Below, f) # <<>> /\ Len(Append(Below, f)) = Len(stack)
        /\ Append(Below, f)[Len(stack)] = f
    BY <1>5, <1>7, OfAppend
  <2>2. RegistersOf(Append(Below, f)) = RegistersOf(Below)
    BY <1>5, <1>7, <1>8, RegistersOfAppend
  <2>3. AnswersTo(g, f)
    BY <1>2, <1>5 DEF AnswersTo
  <2> QED
    BY <1>4, <1>6, <1>7, <2>1, <2>2, <2>3 DEF IsSound
<1>11. /\ iterating = IterationsAfter(IterationsAfter(IterationsOf(Below), f), g)
       /\ due = DueOf(Below) + DueBy(f) + DueBy(g)
  <2>1. iterating \in [Lists -> Nat] /\ due \in Nat
    BY ControlTypes
  <2> QED
    BY <1>5, <1>6, <2>1, UncountedFrames, DebtlessFrames, OnlyTryOwes
<1> QED
  BY <1>3, <1>5, <1>6, <1>7, <1>8, <1>9, <1>10, <1>11, ChangingAndEntering

LEMMA DelegateStep == ASSUME ControlInvariant, Delegate PROVE ControlInvariant'
<1>1. /\ stack # <<>> /\ Top.kind = "construct" /\ Top.step = "begin" /\ Top.ctor = "implicit"
      /\ signal' = signal /\ UNCHANGED <<registers, length, iterating, due>>
  BY DEF Delegate, Constructing
<1>2. /\ Top \in ConstructFrames /\ Progress(Top) /\ Delegates(Top)
      /\ Top.saved = RegistersOf(Below) /\ registers = RegistersOf(Below)
      /\ RegistersOf(Below) \in Registers /\ Len(stack) \in Nat
  BY <1>1, ConstructorOnTop, BelowTop
<1>3. Top.log = <<>> /\ Top.initialized = {}
  BY <1>1, <1>2, NoInitializerYet
<1>4. CASE Top.class = 1
  <2> DEFINE f == [Top EXCEPT !.step = "initialize"]
  <2>1. stack' = Append(Below, f)
    BY <1>4 DEF Delegate
  <2>2. /\ f \in ConstructFrames /\ f.class = Top.class /\ f.saved = Top.saved
        /\ f.nested = Top.nested /\ f.step = "initialize" /\ f.log = Top.log
        /\ f.initialized = Top.initialized /\ f.ctor = Top.ctor
    BY <1>2 DEF ConstructFrames, Steps
  <2> HIDE DEF f
  <2>3. Progress(f) /\ Delegates(f)
    BY <1>1, <1>2, <1>3, <1>4, <2>2 DEF Progress, Delegates
  <2>4. /\ f \in Frames /\ f.kind = "construct" /\ IsSound(f, Below, length)
        /\ iterating = IterationsAfter(IterationsOf(Below), f)
        /\ due = DueOf(Below) + DueBy(f)
    BY <1>1, <2>2, <2>3, ConstructorGoesOn
  <2>5. After(RegistersOf(Below), f, Len(stack)) = RegistersOf(Below)
    BY <1>2, <2>2, <2>4, OfConstruction
  <2> QED
    BY <1>1, <1>2, <2>1, <2>4, <2>5, Changing DEF ControlInvariant
<1>5. CASE Top.class = 2
  <2> DEFINE g == Delegated(1, "implicit")
  <2>1. stack' = Append(Append(Below, [Top EXCEPT !.step = "delegated"]), g)
    BY <1>5 DEF Delegate
  <2>2. /\ g \in ConstructFrames /\ g.step = "begin" /\ g.log = Top.log
        /\ g.initialized = Top.initialized /\ g.saved = Top.saved /\ g.nested
        /\ g.class = 1 /\ g.ctor = "implicit"
    BY <1>2 DEF Delegated, ConstructFrames, Steps, Ctors
  <2> HIDE DEF g
  <2>3. signal' \in Outcomes \cup {"run", "panic"}
    BY <1>1 DEF ControlInvariant
  <2>4. registers' = Top.saved
    BY <1>1, <1>2
  <2>5. g.class = IF Top.ctor = "this" THEN Top.class ELSE 1
    BY <1>1, <2>2
  <2>6. UNCHANGED <<length, iterating, due>>
    BY <1>1
  <2> QED
    BY <1>1, <1>5, <2>1, <2>2, <2>3, <2>4, <2>5, <2>6, DelegationStep
<1> QED
  BY <1>2, <1>4, <1>5 DEF ConstructFrames

\* A constructor leaves by an outcome other than its end.
LEMMA ConstructorFails ==
    ASSUME ControlInvariant, stack # <<>>, Top.kind = "construct", stack' = Below,
           registers' = RegistersOf(Below), UNCHANGED <<length, iterating, due>>,
           signal' \in Outcomes \cup {"run", "panic"}
    PROVE  ControlInvariant'
BY ConstructorOnTop, Leaving

LEMMA EndArgumentsStep ==
    ASSUME ControlInvariant, NEW ctor \in {"super", "implicit"}, EndArguments(ctor)
    PROVE  ControlInvariant'
<1>1. /\ stack # <<>> /\ signal \in Outcomes /\ Top.kind = "construct" /\ Top.step = "arguments"
      /\ registers' = Top.saved /\ UNCHANGED <<length, iterating, due>>
  BY DEF EndArguments, Passing
<1>2. /\ Top \in ConstructFrames /\ Progress(Top) /\ Delegates(Top)
      /\ Top.saved = RegistersOf(Below) /\ RegistersOf(Below) \in Registers
  BY <1>1, ConstructorOnTop, BelowTop
<1>3. CASE signal \in Errors
  <2>1. stack' = Below /\ signal' \in Outcomes \cup {"run", "panic"}
    BY <1>1, <1>3 DEF EndArguments, Pop
  <2> QED
    BY <1>1, <1>2, <2>1, ConstructorFails
<1>4. CASE signal \notin Errors
  <2> DEFINE h == Delegated(IF Top.ctor = "this" THEN Top.class ELSE 1, ctor)
             g == [h EXCEPT !.saved = Top.saved]
  <2>1. /\ ctor = "super" => Top.ctor = "this" /\ Top.class = 2
        /\ stack' = Append(Append(Below, [Top EXCEPT !.step = "delegated"]), g)
        /\ signal' = "run"
    BY <1>4 DEF EndArguments
  <2>2. /\ h \in ConstructFrames /\ h.step = "begin" /\ h.log = Top.log
        /\ h.initialized = Top.initialized /\ h.nested
        /\ h.class = (IF Top.ctor = "this" THEN Top.class ELSE 1) /\ h.ctor = ctor
    <3>1. registers \in Registers
      BY ControlTypes
    <3>2. (IF Top.ctor = "this" THEN Top.class ELSE 1) \in {1, 2}
      BY <1>2 DEF ConstructFrames
    <3> QED
      BY <1>2, <3>1, <3>2 DEF Delegated, ConstructFrames, Steps, Ctors
  <2> HIDE DEF h
  <2>3. /\ g \in ConstructFrames /\ g.step = "begin" /\ g.log = Top.log
        /\ g.initialized = Top.initialized /\ g.saved = Top.saved /\ g.nested
        /\ g.class = (IF Top.ctor = "this" THEN Top.class ELSE 1) /\ g.ctor = ctor
    BY <1>2, <2>2 DEF ConstructFrames
  <2> HIDE DEF g
  <2>4. g.ctor = "super" => g.class = 2
    BY <2>1, <2>3
  <2>5. Top.ctor # "this" => Top.class = 2
    BY <1>1, <1>2 DEF Delegates, ConstructFrames, Ctors
  <2>6. UNCHANGED <<length, iterating, due>> /\ Top.step \in {"begin", "arguments"}
    BY <1>1
  <2>7. signal' \in Outcomes \cup {"run", "panic"}
    BY <2>1
  <2> QED
    BY <1>1, <2>1, <2>3, <2>4, <2>5, <2>6, <2>7, DelegationStep
<1> QED
  BY <1>3, <1>4

LEMMA BeginFieldsStep == ASSUME ControlInvariant, BeginFields PROVE ControlInvariant'
<1>1. /\ stack # <<>> /\ Top.kind = "construct" /\ Top.step = "initialize"
      /\ signal' = signal /\ UNCHANGED <<length, iterating, due>>
  BY DEF BeginFields, Constructing
<1>2. /\ Top \in ConstructFrames /\ Progress(Top) /\ Delegates(Top)
      /\ registers = RegistersOf(Below)
      /\ RegistersOf(Below) \in Registers /\ Len(stack) \in Nat
  BY <1>1, ConstructorOnTop, BelowTop
<1>3. /\ Top.initialized = 1 .. Len(Top.log) /\ Top.class \in {1, 2}
      /\ Top.class = 1 => Top.log \in {<<>>, <<1>>}
      /\ Top.class = 2 => Top.log \in {<<1>>, <<1, 2>>}
      /\ Top.initialized \subseteq {1, 2} /\ Top.log \in Seq({1, 2})
  <2>1. /\ Top.class \in {1, 2} /\ Top.initialized \subseteq {1, 2} /\ Top.log \in Seq({1, 2})
    BY <1>2 DEF ConstructFrames
  <2>2. /\ Top.initialized = 1 .. Len(Top.log)
        /\ IF Top.class = 1 THEN Top.log \in {<<>>, <<1>>} ELSE Top.log \in {<<1>>, <<1, 2>>}
    BY <1>1, <1>2 DEF Progress
  <2>3. 1 # 2
    OBVIOUS
  <2> QED
    BY <2>1, <2>2, <2>3
<1>4. /\ Len(<<>>) = 0 /\ Len(<<1>>) = 1 /\ Len(<<1, 2>>) = 2
      /\ 1 .. 0 = {} /\ 1 .. 1 = {1} /\ 1 .. 2 = {1, 2} /\ 2 \notin {1}
  OBVIOUS
<1>7. Append(<<>>, 1) = <<1>> /\ Append(<<1>>, 2) = <<1, 2>>
  <2>1. /\ <<>> \in Seq(Nat) /\ Len(<<>>) = 0
        /\ <<1>> \in Seq(Nat) /\ Len(<<1>>) = 1 /\ <<1>>[1] = 1
        /\ <<1, 2>> \in Seq(Nat) /\ Len(<<1, 2>>) = 2 /\ <<1, 2>>[1] = 1 /\ <<1, 2>>[2] = 2
    OBVIOUS
  <2>2. /\ Append(<<>>, 1) \in Seq(Nat) /\ Len(Append(<<>>, 1)) = 1 /\ Append(<<>>, 1)[1] = 1
    BY <2>1, AppendProperties
  <2>3. /\ Append(<<1>>, 2) \in Seq(Nat) /\ Len(Append(<<1>>, 2)) = 2
        /\ Append(<<1>>, 2)[1] = 1 /\ Append(<<1>>, 2)[2] = 2
    BY <2>1, AppendProperties
  <2>4. Append(<<>>, 1) = <<1>>
    BY <2>1, <2>2, SeqEqual
  <2>5. Append(<<1>>, 2) = <<1, 2>>
    <3> DEFINE a == Append(<<1>>, 2)
               b == <<1, 2>>
    <3>1. a \in Seq(Nat) /\ b \in Seq(Nat) /\ Len(a) = 2 /\ Len(b) = 2 /\ a[1] = b[1] /\ a[2] = b[2]
      BY <2>1, <2>3
    <3> HIDE DEF a, b
    <3>2. \A i \in 1 .. Len(a) : a[i] = b[i]
      <4>1. \A i \in 1 .. Len(a) : i = 1 \/ i = 2
        BY <3>1
      <4> QED
        BY <3>1, <4>1
    <3>3. a = b
      BY <3>1, <3>2, SeqEqual
    <3> QED
      BY <3>3 DEF a, b
  <2> QED
    BY <2>4, <2>5
<1>5. CASE Initializes
  <2> DEFINE f == [Top EXCEPT !.step = "fields", !.initialized = @ \cup {Top.class},
                              !.log = Append(@, Top.class)]
  <2>1. stack' = Append(Below, f) /\ registers' = [registers EXCEPT !.owner = Len(stack)]
    BY <1>5 DEF BeginFields
  <2>2. /\ f.class = Top.class /\ f.saved = Top.saved /\ f.nested = Top.nested
        /\ f.step = "fields" /\ f.log = Append(Top.log, Top.class) /\ f.ctor = Top.ctor
        /\ f.initialized = Top.initialized \cup {Top.class}
    BY <1>2 DEF ConstructFrames
  <2>3. f \in ConstructFrames
    <3>1. Append(Top.log, Top.class) \in Seq({1, 2}) /\ Top.initialized \cup {Top.class} \subseteq {1, 2}
      BY <1>3
    <3> QED
      BY <1>2, <3>1 DEF ConstructFrames, Steps
  <2> HIDE DEF f
  <2>4. Progress(f) /\ Delegates(f)
    <3>1. Top.class = 1 => Top.log = <<>>
      BY <1>3, <1>4, <1>5 DEF Initializes
    <3>2. Top.class = 2 => Top.log = <<1>>
      BY <1>3, <1>4, <1>5 DEF Initializes
    <3>3. Top.class = 1 => f.log = <<1>> /\ f.initialized = 1 .. 1
      <4>1. Top.class = 1 => f.log = <<1>>
        BY <1>7, <2>2, <3>1
      <4>2. Top.class = 1 => f.initialized = {} \cup {1}
        BY <1>3, <1>4, <2>2, <3>1
      <4> QED
        BY <1>4, <4>1, <4>2
    <3>4. Top.class = 2 => f.log = <<1, 2>> /\ f.initialized = 1 .. 2
      <4>1. Top.class = 2 => f.log = <<1, 2>>
        BY <1>7, <2>2, <3>2
      <4>2. Top.class = 2 => f.initialized = {1} \cup {2}
        BY <1>3, <1>4, <2>2, <3>2
      <4> QED
        BY <1>4, <4>1, <4>2
    <3>5. f.initialized = 1 .. Len(f.log)
      BY <1>3, <1>4, <3>3, <3>4
    <3>6. f.log = IF f.class = 1 THEN <<1>> ELSE <<1, 2>>
      BY <1>3, <2>2, <3>3, <3>4
    <3> QED
      BY <1>2, <2>2, <3>5, <3>6 DEF Progress, Delegates
  <2>5. /\ f \in Frames /\ f.kind = "construct" /\ IsSound(f, Below, length)
        /\ iterating = IterationsAfter(IterationsOf(Below), f)
        /\ due = DueOf(Below) + DueBy(f)
    BY <1>1, <2>2, <2>3, <2>4, ConstructorGoesOn
  <2>6. registers' = After(RegistersOf(Below), f, Len(stack))
    BY <1>2, <2>1, <2>2, <2>5, OfFields
  <2> QED
    BY <1>1, <2>1, <2>5, <2>6, Changing DEF ControlInvariant
<1>6. CASE ~Initializes
  <2> DEFINE f == [Top EXCEPT !.step = "body"]
  <2>1. stack' = Append(Below, f) /\ registers' = registers
    BY <1>6 DEF BeginFields
  <2>2. /\ f \in ConstructFrames /\ f.class = Top.class /\ f.saved = Top.saved
        /\ f.nested = Top.nested /\ f.step = "body" /\ f.log = Top.log
        /\ f.initialized = Top.initialized /\ f.ctor = Top.ctor
    BY <1>2 DEF ConstructFrames, Steps
  <2> HIDE DEF f
  <2>3. Progress(f) /\ Delegates(f)
    <3>1. Top.class = 1 => Top.log = <<1>>
      BY <1>3, <1>4, <1>6 DEF Initializes
    <3>2. Top.class = 2 => Top.log = <<1, 2>>
      <4>1. Top.log = <<1>> => Top.initialized = {1}
        BY <1>3, <1>4
      <4> QED
        BY <1>3, <1>4, <1>6, <4>1 DEF Initializes
    <3> QED
      BY <1>2, <1>3, <2>2, <3>1, <3>2 DEF Progress, Delegates
  <2>4. /\ f \in Frames /\ f.kind = "construct" /\ IsSound(f, Below, length)
        /\ iterating = IterationsAfter(IterationsOf(Below), f)
        /\ due = DueOf(Below) + DueBy(f)
    BY <1>1, <2>2, <2>3, ConstructorGoesOn
  <2>5. After(RegistersOf(Below), f, Len(stack)) = RegistersOf(Below)
    BY <1>2, <2>2, <2>4, OfConstruction
  <2> QED
    BY <1>1, <1>2, <2>1, <2>4, <2>5, Changing DEF ControlInvariant
<1> QED
  BY <1>5, <1>6

LEMMA EndFieldsStep == ASSUME ControlInvariant, EndFields PROVE ControlInvariant'
<1>1. /\ stack # <<>> /\ signal \in Outcomes /\ Top.kind = "construct" /\ Top.step = "fields"
      /\ registers' = Top.saved /\ UNCHANGED <<length, iterating, due>>
  BY DEF EndFields, Passing
<1>2. /\ Top \in ConstructFrames /\ Progress(Top) /\ Delegates(Top)
      /\ Top.saved = RegistersOf(Below)
      /\ RegistersOf(Below) \in Registers /\ Len(stack) \in Nat
  BY <1>1, ConstructorOnTop, BelowTop
<1>3. CASE signal = "normal"
  <2> DEFINE f == [Top EXCEPT !.step = "body"]
  <2>1. stack' = Append(Below, f) /\ signal' = "run"
    BY <1>3 DEF EndFields
  <2>2. /\ f \in ConstructFrames /\ f.class = Top.class /\ f.saved = Top.saved
        /\ f.nested = Top.nested /\ f.step = "body" /\ f.log = Top.log
        /\ f.initialized = Top.initialized /\ f.ctor = Top.ctor
    BY <1>2 DEF ConstructFrames, Steps
  <2> HIDE DEF f
  <2>3. Progress(f) /\ Delegates(f)
    BY <1>1, <1>2, <2>2 DEF Progress, Delegates
  <2>4. /\ f \in Frames /\ f.kind = "construct" /\ IsSound(f, Below, length)
        /\ iterating = IterationsAfter(IterationsOf(Below), f)
        /\ due = DueOf(Below) + DueBy(f)
    BY <1>1, <2>2, <2>3, ConstructorGoesOn
  <2>5. After(RegistersOf(Below), f, Len(stack)) = RegistersOf(Below)
    BY <1>2, <2>2, <2>4, OfConstruction
  <2> QED
    BY <1>1, <1>2, <2>1, <2>4, <2>5, Changing
<1>4. CASE signal # "normal"
  <2>1. stack' = Below /\ signal' \in Outcomes \cup {"run", "panic"}
    BY <1>1, <1>4 DEF EndFields, Pop, Outcomes, Errors
  <2> QED
    BY <1>1, <1>2, <2>1, ConstructorFails
<1> QED
  BY <1>3, <1>4

LEMMA ConstructorBodyStep == ASSUME ControlInvariant, ConstructorBody PROVE ControlInvariant'
<1> DEFINE f == [Top EXCEPT !.step = "done"]
           g == CallFrame(FALSE, TRUE)
<1>1. /\ stack # <<>> /\ Top.kind = "construct" /\ Top.step = "body"
      /\ stack' = Append(Append(Below, f), g)
      /\ registers' = [scopes |-> 1, calls |-> registers.calls + 1, owner |-> Len(stack) + 1,
                       user |-> registers.user]
      /\ signal' = signal /\ UNCHANGED <<length, iterating, due>>
  BY DEF ConstructorBody, Constructing, Called, Scoped, Here
<1>2. /\ Top \in ConstructFrames /\ Progress(Top) /\ Delegates(Top)
      /\ registers = RegistersOf(Below)
  BY <1>1, ConstructorOnTop
<1>3. /\ f \in ConstructFrames /\ f.class = Top.class /\ f.saved = Top.saved
      /\ f.nested = Top.nested /\ f.step = "done" /\ f.log = Top.log
      /\ f.initialized = Top.initialized /\ f.ctor = Top.ctor
  BY <1>2 DEF ConstructFrames, Steps
<1>4. g \in Frames /\ g.kind = "call" /\ g.method /\ g.saved = registers
  BY ControlTypes DEF Frames, CallFrames, CallFrame
<1> HIDE DEF f, g
<1>5. Progress(f) /\ Delegates(f)
  BY <1>1, <1>2, <1>3 DEF Progress, Delegates
<1>6. /\ f \in Frames /\ f.kind = "construct" /\ IsSound(f, Below, length)
      /\ iterating = IterationsAfter(IterationsOf(Below), f)
      /\ due = DueOf(Below) + DueBy(f)
  BY <1>1, <1>3, <1>5, ConstructorGoesOn
<1>7. /\ RegistersOf(Below) \in Registers /\ Len(stack) \in Nat /\ Len(stack) + 1 \in Nat
      /\ Below \in Seq(Frames) /\ Len(Below) + 1 = Len(stack)
  BY <1>1, BelowTop, ControlTypes, ControlOfTop
<1>8. After(RegistersOf(Below), f, Len(stack)) = RegistersOf(Below)
  BY <1>3, <1>6, <1>7, OfConstruction
<1>9. After(RegistersOf(Below), g, Len(stack) + 1) = registers'
  <2>1. After(RegistersOf(Below), g, Len(stack) + 1) =
            [scopes |-> 1, calls |-> RegistersOf(Below).calls + 1, owner |-> Len(stack) + 1,
             user |-> RegistersOf(Below).user]
    BY <1>4, <1>7, OfCall
  <2> QED
    BY <1>1, <1>2, <2>1
<1>10. IsSound(g, Append(Below, f), length)
  <2>1. RegistersOf(Append(Below, f)) = RegistersOf(Below)
    BY <1>6, <1>7, <1>8, RegistersOfAppend
  <2> QED
    BY <1>2, <1>4, <2>1 DEF IsSound
<1>11. /\ iterating = IterationsAfter(IterationsAfter(IterationsOf(Below), f), g)
       /\ due = DueOf(Below) + DueBy(f) + DueBy(g)
  <2>1. iterating \in [Lists -> Nat] /\ due \in Nat
    BY ControlTypes
  <2> QED
    BY <1>4, <1>6, <2>1, UncountedFrames, DebtlessFrames, OnlyTryOwes
<1>12. signal' \in Outcomes \cup {"run", "panic"}
  BY <1>1 DEF ControlInvariant
<1> QED
  BY <1>1, <1>4, <1>6, <1>8, <1>9, <1>10, <1>11, <1>12, ChangingAndEntering

LEMMA FailConstructionStep == ASSUME ControlInvariant, FailConstruction PROVE ControlInvariant'
<1>1. /\ stack # <<>> /\ signal \in Outcomes /\ Top.kind = "construct"
      /\ Top.step \in {"done", "delegated"} /\ stack' = Below
      /\ signal' \in Outcomes \cup {"run", "panic"}
      /\ UNCHANGED <<registers, length, iterating, due>>
  BY DEF FailConstruction, Passing, Pop
<1>2. registers = RegistersOf(Below)
  BY <1>1, ConstructorOnTop
<1> QED
  BY <1>1, <1>2, ConstructorFails

\* The constructor that delegated takes over the initialized classes.
LEMMA ReturnToParent ==
    ASSUME ControlInvariant, EndConstruction, Top.nested
    PROVE  ControlInvariant'
<1> DEFINE parent == Below[Len(Below)]
           below == SubSeq(Below, 1, Len(Below) - 1)
           f == [parent EXCEPT !.step = "initialize", !.log = Top.log,
                               !.initialized = Top.initialized]
<1>1. /\ stack # <<>> /\ Top.kind = "construct" /\ Top.step = "done"
      /\ stack' = Append(below, f)
      /\ UNCHANGED <<signal, registers, length, iterating, due>>
  BY DEF EndConstruction, Constructing
<1>2. /\ Top \in ConstructFrames /\ Progress(Top)
      /\ Below # <<>> /\ AnswersTo(Top, parent)
      /\ registers = RegistersOf(Below) /\ iterating = IterationsOf(Below) /\ due = DueOf(Below)
  BY <1>1, ConstructorOnTop
<1>3. Stands(Below, length, registers, iterating, due)
  BY <1>1, <1>2, ControlOfTop DEF IsTop
<1>4. /\ Len(Below) \in Nat /\ Len(below) = Len(Below) - 1 /\ below \in Seq(Frames)
      /\ IsTop(parent, below, length, registers, iterating, due)
  BY <1>2, <1>3, TopIsKnown
<1>5. parent \in ConstructFrames /\ parent.kind = "construct" /\ parent.step = "delegated"
  BY <1>2, <1>4, FrameKinds DEF IsTop, AnswersTo
<1>6. /\ f.class = parent.class /\ f.saved = parent.saved /\ f.nested = parent.nested
      /\ f.step = "initialize" /\ f.log = Top.log /\ f.ctor = parent.ctor
      /\ f.initialized = Top.initialized
  BY <1>5 DEF ConstructFrames
<1>7. f \in ConstructFrames
  <2>1. Top.log \in Seq({1, 2}) /\ Top.initialized \in SUBSET {1, 2}
    BY <1>2 DEF ConstructFrames
  <2> QED
    BY <1>5, <2>1 DEF ConstructFrames, Steps
<1> HIDE DEF f, parent, below
<1>8. f \in Frames /\ f.kind = "construct"
  BY <1>7 DEF Frames, ConstructFrames
<1>9. /\ IsSound(parent, below, length)
      /\ Stands(below, length, RegistersOf(below), IterationsOf(below), DueOf(below))
      /\ registers = After(RegistersOf(below), parent, Len(below) + 1)
      /\ iterating = IterationsAfter(IterationsOf(below), parent)
      /\ due = DueOf(below) + DueBy(parent)
  BY <1>4 DEF IsTop
<1>10. Progress(f) /\ Delegates(f)
  <2>1. Delegates(parent) /\ parent.class \in {1, 2}
    BY <1>5, <1>9 DEF IsSound, ConstructFrames
  <2>2. Top.class = IF parent.ctor = "this" THEN parent.class ELSE 1
    BY <1>2 DEF AnswersTo
  <2>3. parent.ctor # "this" => parent.class = 2
    BY <1>5, <2>1 DEF Delegates
  <2>4. /\ Top.initialized = 1 .. Len(Top.log)
        /\ Top.log = IF Top.class = 1 THEN <<1>> ELSE <<1, 2>>
    BY <1>1, <1>2 DEF Progress
  <2>5. IF parent.class = 1 THEN Top.log \in {<<>>, <<1>>} ELSE Top.log \in {<<1>>, <<1, 2>>}
    BY <2>1, <2>2, <2>3, <2>4
  <2>6. Progress(f)
    BY <1>6, <2>4, <2>5 DEF Progress
  <2>7. Delegates(f)
    BY <1>6, <2>1 DEF Delegates
  <2> QED
    BY <2>6, <2>7
<1>11. IsSound(f, below, length)
  <2>1. /\ f.saved = RegistersOf(below)
        /\ f.nested => below # <<>> /\ AnswersTo(f, below[Len(below)])
    BY <1>5, <1>6, <1>9 DEF IsSound, AnswersTo
  <2> QED
    BY <1>8, <1>10, <2>1 DEF IsSound
<1>12. registers = After(RegistersOf(below), f, Len(below) + 1)
  <2>1. RegistersOf(below) \in Registers /\ Len(below) + 1 \in Nat
    BY <1>4, RegistersType
  <2>2. After(RegistersOf(below), f, Len(below) + 1) = RegistersOf(below)
    BY <1>6, <1>8, <2>1, OfConstruction
  <2>3. After(RegistersOf(below), parent, Len(below) + 1) = RegistersOf(below)
    BY <1>5, <2>1, OfConstruction
  <2> QED
    BY <1>9, <2>2, <2>3
<1>13. iterating = IterationsAfter(IterationsOf(below), f)
  BY <1>5, <1>8, <1>9 DEF IterationsAfter
<1>14. due = DueOf(below) + DueBy(f)
  BY <1>5, <1>8, <1>9 DEF DueBy, OwesFinally
<1>15. Stands(Append(below, f), length, registers, iterating, due)
  BY <1>8, <1>9, <1>11, <1>12, <1>13, <1>14, PushKeeps
<1>16. Stands(stack', length', registers', iterating', due')
  BY <1>1, <1>15
<1> QED
  BY <1>1, <1>16 DEF ControlInvariant

LEMMA EndConstructionStep == ASSUME ControlInvariant, EndConstruction PROVE ControlInvariant'
<1>1. CASE Top.nested
  BY <1>1, ReturnToParent
<1>2. CASE ~Top.nested
  <2>1. /\ stack # <<>> /\ Top.kind = "construct" /\ Top.step = "done" /\ stack' = Below
        /\ UNCHANGED <<signal, registers, length, iterating, due>>
    BY <1>2 DEF EndConstruction, Constructing
  <2>2. registers = RegistersOf(Below)
    BY <2>1, ConstructorOnTop
  <2>3. signal' \in Outcomes \cup {"run", "panic"}
    BY <2>1 DEF ControlInvariant
  <2> QED
    BY <2>1, <2>2, <2>3, ConstructorFails
<1> QED
  BY <1>1, <1>2

-----------------------------------------------------------------------------
(* The invariant                                                           *)

LEMMA InitControl == ASSUME Init PROVE ControlInvariant
<1> DEFINE f == [kind |-> "block"]
<1>1. f \in Frames /\ f.kind = "block"
  BY DEF Frames, BlockFrames
<1>2. stack = Append(<<>>, f)
  <2>1. stack = <<f>>
    BY DEF Init
  <2>2. /\ <<f>> \in Seq({f}) /\ Len(<<f>>) = 1 /\ <<f>>[1] = f /\ <<>> \in Seq({f}) /\ Len(<<>>) = 0
    OBVIOUS
  <2> HIDE DEF f
  <2>3. Append(<<>>, f) \in Seq({f}) /\ Len(Append(<<>>, f)) = 1 /\ Append(<<>>, f)[1] = f
    BY <2>2, AppendProperties
  <2>4. Append(<<>>, f) = <<f>>
    BY <2>2, <2>3, SeqEqual
  <2> QED
    BY <2>1, <2>4
<1> HIDE DEF f
<1> DEFINE none == [l \in Lists |-> 0]
           start == [scopes |-> 1, calls |-> 0, owner |-> 0, user |-> 0]
           empty == <<>>
<1>3. empty \in Seq(Frames) /\ Len(empty) = 0 /\ 1 .. Len(empty) = {}
  BY EmptySeq
<1> HIDE DEF empty
<1>4. /\ Calls(empty) = {} /\ Owners(empty) = {} /\ Switches(empty) = {} /\ Pushers(empty) = {}
      /\ Debts(empty) = {} /\ \A l : Iterators(empty, l) = {}
  BY <1>3 DEF Calls, Owners, Switches, Pushers, Debts, Iterators
<1>5. Open(empty) = {}
  BY <1>4 DEF Open
<1>6. Cardinality({}) = 0
  BY FS_EmptySet
<1>7. RegistersOf(empty) = start
  BY <1>4, <1>5, <1>6 DEF RegistersOf, Topmost
<1>8. IterationsOf(empty) = none /\ DueOf(empty) = 0
  BY <1>4, <1>6 DEF IterationsOf, DueOf
<1>9. AllSound(empty, length)
  BY <1>3 DEF AllSound
<1>10. Stands(empty, length, start, none, 0)
  BY <1>3, <1>7, <1>8, <1>9 DEF Stands
<1>11. IsSound(f, empty, length)
  BY <1>1 DEF IsSound
<1>12. Stands(Append(empty, f), length, After(start, f, Len(empty) + 1),
              IterationsAfter(none, f), 0 + DueBy(f))
  BY <1>1, <1>10, <1>11, PushKeeps
<1>13. After(start, f, Len(empty) + 1) = [scopes |-> 2, calls |-> 0, owner |-> 0, user |-> 0]
  <2>1. start \in Registers /\ Len(empty) + 1 \in Nat
    BY <1>3 DEF Registers
  <2>2. After(start, f, Len(empty) + 1) = [start EXCEPT !.scopes = @ + 1]
    BY <1>1, <2>1, OfBlock
  <2> QED
    BY <2>2
<1>14. IterationsAfter(none, f) = none /\ 0 + DueBy(f) = 0
  BY <1>1, UncountedFrames, DebtlessFrames, OnlyTryOwes
<1>15. Stands(stack, length, registers, iterating, due)
  BY <1>2, <1>12, <1>13, <1>14 DEF Init, empty
<1>16. length \in [Lists -> Nat]
  BY InterpreterAssumption DEF Init
<1> QED
  BY <1>15, <1>16 DEF ControlInvariant, Init

LEMMA NextControl == ASSUME ControlInvariant, [Next]_vars PROVE ControlInvariant'
<1>1. CASE UNCHANGED vars
  BY <1>1 DEF vars, ControlInvariant
<1>2. CASE EnterBlock \/ EnterRunAs
  BY <1>2, EnterBlockStep, EnterRunAsStep
<1>3. CASE \E scoped \in BOOLEAN : EnterLoop(scoped)
  BY <1>3, EnterLoopStep
<1>4. CASE \E l \in Lists : EnterForEach(l)
  BY <1>4, EnterForEachStep
<1>5. CASE \E catches, finally \in BOOLEAN : EnterTry(catches, finally)
  BY <1>5, EnterTryStep
<1>6. CASE \E returns, method \in BOOLEAN : EnterCall(returns, method)
  BY <1>6, EnterCallStep
<1>7. CASE \E l \in Lists, index \in 0 .. MaxLength - 1 : EnterAssignment(l, index)
  <2>1. PICK l \in Lists, index \in 0 .. MaxLength - 1 : EnterAssignment(l, index)
    BY <1>7
  <2>2. index \in Nat
    BY <2>1
  <2> QED
    BY <2>1, <2>2, EnterAssignmentStep
<1>8. CASE \E class \in {1, 2}, ctor \in {"this", "super", "implicit"} :
              (ctor = "super" => class = 2) /\ EnterConstruction(class, ctor)
  BY <1>8, EnterConstructionStep DEF Ctors
<1>9. CASE \E l \in Lists, n \in 0 .. MaxLength : Resize(l, n)
  <2>1. PICK l \in Lists, n \in 0 .. MaxLength : Resize(l, n)
    BY <1>9
  <2>2. n \in Nat
    BY <2>1
  <2> QED
    BY <2>1, <2>2, ResizeStep
<1>10. CASE \E outcome \in Outcomes : Signal(outcome) \/ LeaveLoop(outcome)
  BY <1>10, SignalStep, LeaveLoopStep DEF Signal
<1>11. CASE RepeatLoop
  BY <1>11, SignalStep DEF RepeatLoop
<1>12. CASE LeaveBlock \/ NextElement \/ LeaveForEach \/ Catch \/ EndTryPart \/ LeaveFinally
  BY <1>12, LeaveBlockStep, NextElementStep, LeaveForEachStep, CatchStep, EndTryPartStep,
     LeaveFinallyStep
<1>13. CASE LeaveRunAs \/ LeaveCall \/ Assign
  BY <1>13, LeaveRunAsStep, LeaveCallStep, AssignStep
<1>14. CASE BeginDelegation \/ Delegate \/ BeginFields \/ EndFields
  BY <1>14, BeginDelegationStep, DelegateStep, BeginFieldsStep, EndFieldsStep
<1>15. CASE \E ctor \in {"super", "implicit"} : EndArguments(ctor)
  BY <1>15, EndArgumentsStep
<1>16. CASE ConstructorBody \/ EndConstruction \/ FailConstruction
  BY <1>16, ConstructorBodyStep, EndConstructionStep, FailConstructionStep
<1>17. CASE Terminated
  BY <1>17 DEF Terminated, vars, ControlInvariant
<1> QED
  BY <1>1, <1>2, <1>3, <1>4, <1>5, <1>6, <1>7, <1>8, <1>9, <1>10, <1>11, <1>12, <1>13, <1>14,
     <1>15, <1>16, <1>17 DEF Next

\* Every frame of the interpreter is sound about those below it, and the registers
\* and counters are those the frames add up to: what every early return, error
\* path and closure of src/runtime.rs has to put back.
THEOREM ControlFollowsStack == Spec => []ControlInvariant
<1>1. Init => ControlInvariant
  BY InitControl
<1>2. ControlInvariant /\ [Next]_vars => ControlInvariant'
  BY NextControl
<1> QED
  BY <1>1, <1>2, PTL DEF Spec

-----------------------------------------------------------------------------
(* What follows from it                                                    *)

\* Whatever returned, broke out, threw or failed, scopes, call stack, receiver,
\* context, user and iteration depths are those of the frames still open.
THEOREM RegistersAlwaysFollowStack == Spec => []RegistersFollowStack
<1>1. ControlInvariant => RegistersFollowStack
  BY DEF ControlInvariant, Stands, RegistersFollowStack, RegistersOf, IterationsOf, Positions,
         Calls, Owners, Switches, Replacers, Pushers, Iterators, Open
<1> QED
  BY <1>1, ControlFollowsStack, PTL

\* Each try that was entered and left has run its finally block exactly once.
THEOREM FinallyBlocksAlwaysRunOnce == Spec => []FinallyBlocksRunOnce
<1>1. ControlInvariant => FinallyBlocksRunOnce
  BY DEF ControlInvariant, Stands, FinallyBlocksRunOnce, DueOf, Debts, OwesFinally
<1> QED
  BY <1>1, ControlFollowsStack, PTL

\* A list keeps its length while any loop, however deep below it calls go, iterates
\* over it.
THEOREM IteratedListsStayStable == Spec => []IteratedListsAreStable
<1>1. ControlInvariant => IteratedListsAreStable
  BY DEF ControlInvariant, Stands, AllSound, IsSound, IteratedListsAreStable
<1> QED
  BY <1>1, ControlFollowsStack, PTL

\* The initializers of an object's classes run once each, the base's first, and
\* before the body of any of their constructors, over every delegation.
THEOREM FieldsAlwaysInitializeBaseFirst == Spec => []FieldsInitializeBaseFirst
<1>1. ControlInvariant => FieldsInitializeBaseFirst
  <2> SUFFICES ASSUME ControlInvariant, NEW i \in 1 .. Len(stack), stack[i].kind = "construct"
               PROVE  /\ stack[i].log \in {<<>>, <<1>>, <<1, 2>>}
                      /\ stack[i].step \in {"body", "done"} => stack[i].class \in stack[i].initialized
    BY DEF FieldsInitializeBaseFirst
  <2> DEFINE f == stack[i]
  <2>1. f \in ConstructFrames /\ Progress(f)
    <3>1. f \in Frames
      BY ControlTypes
    <3> QED
      BY <3>1, FrameKinds DEF ControlInvariant, Stands, AllSound, IsSound
  <2> HIDE DEF f
  <2>2. /\ f.class \in {1, 2} /\ f.step \in Steps
        /\ Len(<<1>>) = 1 /\ Len(<<1, 2>>) = 2 /\ 1 \in 1 .. 1 /\ 2 \in 1 .. 2
    BY <2>1 DEF ConstructFrames
  <2>3. f.log \in {<<>>, <<1>>, <<1, 2>>}
    BY <2>1, <2>2 DEF Progress, Steps
  <2>4. f.step \in {"body", "done"} => f.class \in f.initialized
    BY <2>1, <2>2 DEF Progress
  <2> QED
    BY <2>3, <2>4 DEF f
<1> QED
  BY <1>1, ControlFollowsStack, PTL


-----------------------------------------------------------------------------
(***************************************************************************)
(* Class initialization: what holds of ClassInitialization for every class *)
(* hierarchy, every use of classes by initializers and every depth bound.  *)
(* The control stack is the entry point, then for each running initializer *)
(* the access that started it and the initializer itself, then perhaps one *)
(* more access: access number k is the frame 2k, made by the code in the   *)
(* frame 2k - 1.                                                           *)
(***************************************************************************)

EnsureFrames == [kind : {"ensure"}, class : Classes, todo : Seq(Classes)]
InitFrames == [kind : {"init"}, class : Classes]
ClassFrames == {EntryFrame} \cup EnsureFrames \cup InitFrames

ClassTypes ==
    /\ state \in [Classes -> States]
    /\ active \in Seq(Classes)
    /\ control \in Seq(ClassFrames)
    /\ thrown \in BOOLEAN

\* The frames alternate, and the initializers on the stack are the active classes.
StackAlternates ==
    /\ Len(control) \in {2 * Len(active) + 1, 2 * Len(active) + 2}
    /\ control[1] = EntryFrame
    /\ \A k \in 1..Len(active) : control[2 * k + 1] = InitFrame(active[k])
    /\ \A k \in 1..(Len(active) + 1) : 2 * k <= Len(control) => control[2 * k] \in EnsureFrames

\* A class is initializing exactly as long as its initializer is on the stack,
\* which it is once.
ActiveClassesInitialize ==
    /\ \A k \in 1..Len(active) : state[active[k]] = "initializing"
    /\ \A c \in Classes : state[c] = "initializing" => \E k \in 1..Len(active) : active[k] = c
    /\ \A j, k \in 1..Len(active) : active[j] = active[k] => j = k

\* The frame's todo is what is left of the lineage behind the first n classes.
HasPassed(frame, n) ==
    /\ n + Len(frame.todo) = Len(Lineage[frame.class])
    /\ \A i \in 1..Len(frame.todo) : frame.todo[i] = Lineage[frame.class][n + i]

\* An access has passed only classes that are initialized, or initialized by
\* the code that makes it; while an initializer it started runs, it waits for it.
AccessIsOrderly(k) ==
    \E n \in 0..Len(Lineage[control[2 * k].class]) :
        /\ HasPassed(control[2 * k], n)
        /\ \A i \in 1..n :
               \/ state[Lineage[control[2 * k].class][i]] = "initialized"
               \/ k > 1 /\ Lineage[control[2 * k].class][i] = active[k - 1]
        /\ k <= Len(active) =>
               n < Len(Lineage[control[2 * k].class])
               /\ Lineage[control[2 * k].class][n + 1] = active[k]

AccessesAreOrderly ==
    \A k \in 1..(Len(active) + 1) : 2 * k <= Len(control) => AccessIsOrderly(k)

\* A class is started after its bases.
BasesStartFirst ==
    \A c \in Classes : \A b \in Elements(Lineage[c]) :
        state[c] # "uninitialized" => state[b] # "uninitialized"

ClassInvariant ==
    /\ ClassTypes
    /\ StackAlternates
    /\ ActiveClassesInitialize
    /\ AccessesAreOrderly
    /\ BasesStartFirst

-----------------------------------------------------------------------------
(* Lineages and the stack                                                  *)

\* A lineage is a sequence of classes, and the classes of a lineage up to one
\* of them are the lineage of that class.
LEMMA Lineages ==
    ASSUME NEW c \in Classes
    PROVE  /\ Lineage[c] \in Seq(Classes) /\ Len(Lineage[c]) \in Nat
           /\ \A i \in 1..Len(Lineage[c]) :
                  /\ Lineage[c][i] \in Classes
                  /\ Len(Lineage[Lineage[c][i]]) = i
                  /\ \A j \in 1..i : Lineage[Lineage[c][i]][j] = Lineage[c][j]
<1>1. Lineage[c] \in Seq(Classes)
  BY ClassesAssumption
<1>2. Len(Lineage[c]) \in Nat /\ DOMAIN Lineage[c] = 1..Len(Lineage[c])
  BY <1>1, LenProperties
<1>3. ASSUME NEW i \in 1..Len(Lineage[c])
      PROVE  /\ Lineage[c][i] \in Classes
             /\ Len(Lineage[Lineage[c][i]]) = i
             /\ \A j \in 1..i : Lineage[Lineage[c][i]][j] = Lineage[c][j]
  <2>1. \A j \in 1..i : Lineage[c][j] \in Classes
    BY <1>1, <1>2, ElementOfSeq
  <2>2. Lineage[Lineage[c][i]] = SubSeq(Lineage[c], 1, i)
    BY <1>2, ClassesAssumption
  <2> QED
    BY <2>1, <2>2, SubSeqProperties
<1> QED
  BY <1>1, <1>2, <1>3

\* A prefix of a sequence.
LEMMA Prefix ==
    ASSUME NEW S, NEW s \in Seq(S), NEW n \in 0..Len(s)
    PROVE  /\ SubSeq(s, 1, n) \in Seq(S)
           /\ Len(SubSeq(s, 1, n)) = n
           /\ \A i \in 1..n : SubSeq(s, 1, n)[i] = s[i]
<1>1. Len(s) \in Nat /\ \A i \in 1..n : s[i] \in S
  BY ElementOfSeq, LenProperties
<1> QED
  BY <1>1, SubSeqProperties

\* What the frame on top says of the height of the stack.
LEMMA Heights ==
    ASSUME ClassInvariant
    PROVE  /\ Len(active) \in Nat /\ Len(control) \in Nat /\ Len(control) >= 1
           /\ ControlTop.kind = "ensure" =>
                  Len(control) = 2 * Len(active) + 2 /\ ControlTop \in EnsureFrames
           /\ ControlTop.kind # "ensure" => Len(control) = 2 * Len(active) + 1
           /\ ControlTop.kind = "init" =>
                  Len(active) >= 1 /\ ControlTop = InitFrame(active[Len(active)])
<1> USE DEF ClassInvariant, ClassTypes, StackAlternates
<1>1. Len(active) \in Nat /\ Len(control) \in Nat
  BY LenProperties
<1>2. CASE Len(control) = 2 * Len(active) + 2
  <2>1. PICK k \in 1..(Len(active) + 1) : 2 * k = Len(control)
    BY <1>1, <1>2
  <2>2. control[Len(control)] \in EnsureFrames
    BY <1>1, <1>2, <2>1
  <2> QED
    BY <1>1, <1>2, <2>2 DEF ControlTop, EnsureFrames
<1>3. CASE Len(control) = 2 * Len(active) + 1 /\ Len(active) = 0
  BY <1>1, <1>3 DEF ControlTop, EntryFrame
<1>4. CASE Len(control) = 2 * Len(active) + 1 /\ Len(active) >= 1
  <2>1. control[2 * Len(active) + 1] = InitFrame(active[Len(active)])
    BY <1>1, <1>4
  <2> QED
    BY <1>1, <1>4, <2>1 DEF ControlTop, InitFrame
<1> QED
  BY <1>1, <1>2, <1>3, <1>4

\* An access that stays where it is stays orderly while classes only get
\* initialized and the initializers around it stay.
LEMMA OrderlyAccessKept ==
    ASSUME NEW k \in Nat, AccessIsOrderly(k),
           control'[2 * k] = control[2 * k],
           \A c : state[c] = "initialized" => state'[c] = "initialized",
           k > 1 => active'[k - 1] = active[k - 1],
           k <= Len(active') => k <= Len(active) /\ active'[k] = active[k]
    PROVE  AccessIsOrderly(k)'
BY DEF AccessIsOrderly, HasPassed

-----------------------------------------------------------------------------
(* One step                                                                *)

LEMMA InitClassInvariant == ClassesInit => ClassInvariant
<1> SUFFICES ASSUME ClassesInit PROVE ClassInvariant
  OBVIOUS
<1>1. ClassTypes
  <2>1. EntryFrame \in ClassFrames
    BY DEF ClassFrames
  <2>2. <<EntryFrame>> \in Seq(ClassFrames)
    BY <2>1
  <2>3. active \in Seq(Classes)
    BY EmptySeq DEF ClassesInit
  <2> QED
    BY <2>2, <2>3 DEF ClassesInit, ClassTypes, States
<1>2. StackAlternates /\ ActiveClassesInitialize /\ AccessesAreOrderly
  BY DEF ClassesInit, StackAlternates, ActiveClassesInitialize, AccessesAreOrderly
<1>3. BasesStartFirst
  <2>1. \A c \in Classes : \A b \in Elements(Lineage[c]) : b \in Classes
    BY Lineages, LenProperties DEF Elements
  <2> QED
    BY <2>1 DEF ClassesInit, BasesStartFirst
<1> QED
  BY <1>1, <1>2, <1>3 DEF ClassInvariant

\* An access pushes a frame that has passed nothing yet.
LEMMA AccessStep == ASSUME ClassInvariant, Access PROVE ClassInvariant'
<1> USE DEF ClassInvariant
<1>1. PICK c \in Classes : control' = Append(control, EnsureFrame(c, Lineage[c]))
  <2>1. Accessible \subseteq Classes
    BY Heights, ClassesAssumption DEF Accessible, Access, CodeRuns, ClassTypes, InitFrame
  <2> QED
    BY <2>1 DEF Access
<1>2. Len(control) = 2 * Len(active) + 1 /\ Len(active) \in Nat
  BY Heights DEF Access, CodeRuns
<1>3. EnsureFrame(c, Lineage[c]) \in EnsureFrames
  BY Lineages DEF EnsureFrame, EnsureFrames
<1>4. /\ control' \in Seq(ClassFrames)
      /\ Len(control') = Len(control) + 1
      /\ \A i \in 1..Len(control) : control'[i] = control[i]
      /\ control'[Len(control) + 1] = EnsureFrame(c, Lineage[c])
  BY <1>1, <1>3, AppendProperties DEF ClassTypes, ClassFrames
<1>5. UNCHANGED <<state, active>>
  BY DEF Access
<1>6. ClassTypes'
  BY <1>4, <1>5 DEF Access, ClassTypes
<1>7. StackAlternates'
  <2>1. \A k \in 1..Len(active) : control'[2 * k + 1] = InitFrame(active[k])
    BY <1>2, <1>4 DEF StackAlternates
  <2>2. ASSUME NEW k \in 1..(Len(active) + 1) PROVE control'[2 * k] \in EnsureFrames
    <3>1. CASE 2 * k <= Len(control)
      BY <1>2, <1>4, <3>1 DEF StackAlternates
    <3>2. CASE 2 * k = Len(control) + 1
      BY <1>3, <1>4, <3>2
    <3> QED
      BY <1>2, <3>1, <3>2
  <2>3. control'[1] = EntryFrame
    BY <1>2, <1>4 DEF StackAlternates
  <2> QED
    BY <1>2, <1>4, <1>5, <2>1, <2>2, <2>3 DEF StackAlternates
<1>8. ActiveClassesInitialize' /\ BasesStartFirst'
  BY <1>5 DEF ActiveClassesInitialize, BasesStartFirst
<1>9. ASSUME NEW k \in 1..(Len(active) + 1)
      PROVE  AccessIsOrderly(k)'
  <2>1. CASE 2 * k <= Len(control)
    <3>1. k \in Nat /\ AccessIsOrderly(k)
      BY <1>2, <2>1 DEF AccessesAreOrderly
    <3>2. control'[2 * k] = control[2 * k]
      BY <1>2, <1>4, <2>1
    <3> QED
      BY <1>5, <3>1, <3>2, OrderlyAccessKept
  <2>2. CASE k = Len(active) + 1
    <3>1. control'[2 * k] = EnsureFrame(c, Lineage[c])
      BY <1>2, <1>4, <2>2
    <3>2. HasPassed(control'[2 * k], 0) /\ control'[2 * k].class = c
      BY <3>1, Lineages DEF HasPassed, EnsureFrame
    <3>3. /\ 0 \in 0..Len(Lineage[control'[2 * k].class])
          /\ \A i \in 1..0 : FALSE
          /\ ~(k <= Len(active'))
      BY <1>2, <1>5, <2>2, <3>2, Lineages
    <3> QED
      BY <3>2, <3>3 DEF AccessIsOrderly, HasPassed
  <2> QED
    BY <1>2, <2>1, <2>2
<1> QED
  BY <1>5, <1>6, <1>7, <1>8, <1>9 DEF AccessesAreOrderly

\* A ready class is passed: it is initialized, or initialized by the accessing code.
LEMMA PassReadyClassStep == ASSUME ClassInvariant, PassReadyClass PROVE ClassInvariant'
<1> USE DEF ClassInvariant
<1> DEFINE depth == Len(active) + 1
           passed == EnsureFrame(ControlTop.class, Tail(ControlTop.todo))
<1>1. /\ Len(active) \in Nat /\ Len(control) = 2 * depth
      /\ ControlTop \in EnsureFrames /\ ControlTop.todo # <<>>
  BY Heights DEF PassReadyClass, Ensuring
<1>2. /\ passed \in EnsureFrames /\ passed.class = ControlTop.class
      /\ Len(passed.todo) = Len(ControlTop.todo) - 1
      /\ \A i \in 1..Len(passed.todo) : passed.todo[i] = ControlTop.todo[i + 1]
      /\ Len(ControlTop.todo) \in Nat \ {0} /\ Head(ControlTop.todo) = ControlTop.todo[1]
  BY <1>1, HeadTailProperties, EmptySeq DEF EnsureFrame, EnsureFrames
<1>3. /\ control' \in Seq(ClassFrames)
      /\ Len(control') = Len(control)
      /\ \A i \in 1..(Len(control) - 1) : control'[i] = control[i]
      /\ control'[2 * depth] = passed
  <2>1. Len(control) - 1 \in 0..Len(control)
    BY <1>1
  <2>2. /\ ControlBelow \in Seq(ClassFrames) /\ Len(ControlBelow) = Len(control) - 1
        /\ \A i \in 1..(Len(control) - 1) : ControlBelow[i] = control[i]
    BY <2>1, Prefix DEF ControlBelow, ClassTypes
  <2>3. passed \in ClassFrames
    BY <1>2 DEF ClassFrames
  <2>4. control' = Append(ControlBelow, passed)
    BY DEF PassReadyClass
  <2> HIDE DEF passed
  <2> QED
    BY <1>1, <2>2, <2>3, <2>4, AppendProperties
<1>4. UNCHANGED <<state, active>>
  BY DEF PassReadyClass
<1>5. ClassTypes'
  BY <1>3, <1>4 DEF PassReadyClass, ClassTypes
<1> HIDE DEF passed
<1>6. StackAlternates'
  <2>1. \A k \in 1..Len(active) : control'[2 * k + 1] = InitFrame(active[k])
    BY <1>1, <1>3 DEF StackAlternates
  <2>2. ASSUME NEW k \in 1..depth PROVE control'[2 * k] \in EnsureFrames
    <3>1. CASE k < depth
      BY <1>1, <1>3, <3>1 DEF StackAlternates
    <3>2. CASE k = depth
      BY <1>2, <1>3, <3>2
    <3> QED
      BY <1>1, <3>1, <3>2
  <2>3. control'[1] = EntryFrame
    BY <1>1, <1>3 DEF StackAlternates
  <2> QED
    BY <1>1, <1>3, <1>4, <2>1, <2>2, <2>3 DEF StackAlternates
<1>7. ActiveClassesInitialize' /\ BasesStartFirst'
  BY <1>4 DEF ActiveClassesInitialize, BasesStartFirst
<1>8. ASSUME NEW k \in 1..depth
      PROVE  AccessIsOrderly(k)'
  <2>1. CASE k < depth
    BY <1>1, <1>3, <1>4, <2>1, OrderlyAccessKept DEF AccessesAreOrderly
  <2>2. CASE k = depth
    <3>1. PICK n \in 0..Len(Lineage[ControlTop.class]) :
             /\ HasPassed(ControlTop, n)
             /\ \A i \in 1..n :
                    \/ state[Lineage[ControlTop.class][i]] = "initialized"
                    \/ depth > 1 /\ Lineage[ControlTop.class][i] = active[depth - 1]
      <4>1. AccessIsOrderly(depth) /\ control[2 * depth] = ControlTop
        BY <1>1, <2>2 DEF AccessesAreOrderly, ControlTop
      <4> QED
        BY <4>1 DEF AccessIsOrderly
    <3>2. Lineage[ControlTop.class][n + 1] = Head(ControlTop.todo)
      BY <1>2, <3>1 DEF HasPassed
    <3>3. \/ state[Head(ControlTop.todo)] = "initialized"
          \/ depth > 1 /\ Head(ControlTop.todo) = active[depth - 1]
      BY <1>1, EmptySeq DEF PassReadyClass, IsReady, IsRunning, Class, ClassTypes
    <3>4. Len(Lineage[ControlTop.class]) \in Nat
      BY <1>1, Lineages DEF EnsureFrames
    <3>5. n + 1 \in 0..Len(Lineage[ControlTop.class]) /\ HasPassed(passed, n + 1)
      <4>1. n + Len(ControlTop.todo) = Len(Lineage[ControlTop.class])
        BY <3>1 DEF HasPassed
      <4>2. n + 1 \in 0..Len(Lineage[ControlTop.class])
        BY <1>2, <3>4, <4>1
      <4>3. ASSUME NEW i \in 1..Len(passed.todo)
            PROVE  passed.todo[i] = Lineage[ControlTop.class][(n + 1) + i]
        <5>1. i + 1 \in 1..Len(ControlTop.todo) /\ n + (i + 1) = (n + 1) + i
          BY <1>2, <4>3
        <5> QED
          BY <1>2, <3>1, <5>1 DEF HasPassed
      <4>4. (n + 1) + Len(passed.todo) = Len(Lineage[ControlTop.class])
        <5>1. Len(passed.todo) = Len(ControlTop.todo) - 1 /\ Len(ControlTop.todo) \in Nat /\ n \in Nat
          BY <1>2, <3>4
        <5>2. \A p, q, m : m \in Nat /\ q \in Nat /\ p = q - 1 => (m + 1) + p = m + q
          OBVIOUS
        <5> QED
          BY <4>1, <5>1, <5>2
      <4> QED
        BY <1>2, <4>2, <4>3, <4>4 DEF HasPassed
    <3>6. \A i \in 1..(n + 1) :
             \/ state[Lineage[ControlTop.class][i]] = "initialized"
             \/ depth > 1 /\ Lineage[ControlTop.class][i] = active[depth - 1]
      BY <3>1, <3>2, <3>3
    <3>7. control'[2 * k] = passed /\ passed.class = ControlTop.class
      BY <1>2, <1>3, <2>2
    <3>8. ~(k <= Len(active'))
      BY <1>1, <1>4, <2>2
    <3>9. HasPassed(control'[2 * k], n + 1)
      BY <3>5, <3>7
    <3> DEFINE count == n + 1
    <3>10. /\ count \in 0..Len(Lineage[control'[2 * k].class])
           /\ HasPassed(control'[2 * k], count)
           /\ \A i \in 1..count :
                  \/ state'[Lineage[control'[2 * k].class][i]] = "initialized"
                  \/ k > 1 /\ Lineage[control'[2 * k].class][i] = active'[k - 1]
      BY <1>4, <2>2, <3>5, <3>6, <3>7, <3>9
    <3> HIDE DEF count
    <3> QED
      BY <3>8, <3>10 DEF AccessIsOrderly, HasPassed
  <2> QED
    BY <1>1, <2>1, <2>2
<1> QED
  BY <1>1, <1>3, <1>4, <1>5, <1>6, <1>7, <1>8 DEF AccessesAreOrderly

\* An access that is made, or refused, leaves the stack.
LEMMA LeaveAccess ==
    ASSUME ClassInvariant, ControlTop.kind = "ensure", control' = ControlBelow,
           UNCHANGED <<state, active>>, thrown' \in BOOLEAN
    PROVE  ClassInvariant'
<1> USE DEF ClassInvariant
<1>1. Len(active) \in Nat /\ Len(control) = 2 * Len(active) + 2
  BY Heights
<1>2. /\ control' \in Seq(ClassFrames) /\ Len(control') = Len(control) - 1
      /\ \A i \in 1..(Len(control) - 1) : control'[i] = control[i]
  BY <1>1, Prefix DEF ControlBelow, ClassTypes
<1>3. ClassTypes'
  BY <1>2 DEF ClassTypes
<1>4. StackAlternates'
  <2>1. \A k \in 1..Len(active) : control'[2 * k + 1] = InitFrame(active[k])
    BY <1>1, <1>2 DEF StackAlternates
  <2>2. ASSUME NEW k \in 1..(Len(active) + 1), 2 * k <= Len(control')
        PROVE  control'[2 * k] \in EnsureFrames
    BY <1>1, <1>2, <2>2 DEF StackAlternates
  <2>3. control'[1] = EntryFrame
    BY <1>1, <1>2 DEF StackAlternates
  <2> QED
    BY <1>1, <1>2, <2>1, <2>2, <2>3 DEF StackAlternates
<1>5. ActiveClassesInitialize' /\ BasesStartFirst'
  BY DEF ActiveClassesInitialize, BasesStartFirst
<1>6. ASSUME NEW k \in 1..(Len(active) + 1), 2 * k <= Len(control')
      PROVE  AccessIsOrderly(k)'
  BY <1>1, <1>2, <1>6, OrderlyAccessKept DEF AccessesAreOrderly
<1> QED
  BY <1>3, <1>4, <1>5, <1>6 DEF AccessesAreOrderly

\* The looked at class is a class of the accessed one's lineage, whose bases
\* the access has passed.
LEMMA AwaitedClass ==
    ASSUME ClassInvariant, Ensuring
    PROVE  \E n \in Nat :
               /\ n + 1 <= Len(Lineage[ControlTop.class])
               /\ ControlTop.class \in Classes /\ Class \in Classes
               /\ Lineage[ControlTop.class][n + 1] = Class
               /\ Len(Lineage[Class]) = n + 1
               /\ \A i \in 1..n :
                      /\ Lineage[Class][i] = Lineage[ControlTop.class][i]
                      /\ \/ state[Lineage[Class][i]] = "initialized"
                         \/ Len(active) > 0 /\ Lineage[Class][i] = active[Len(active)]
               /\ HasPassed(ControlTop, n)
<1> USE DEF ClassInvariant
<1>1. /\ Len(active) \in Nat /\ Len(control) = 2 * (Len(active) + 1)
      /\ ControlTop \in EnsureFrames /\ ControlTop.todo # <<>>
  BY Heights DEF Ensuring
<1>2. AccessIsOrderly(Len(active) + 1) /\ control[2 * (Len(active) + 1)] = ControlTop
  BY <1>1 DEF AccessesAreOrderly, ControlTop
<1>3. PICK n \in 0..Len(Lineage[ControlTop.class]) :
         /\ HasPassed(ControlTop, n)
         /\ \A i \in 1..n :
                \/ state[Lineage[ControlTop.class][i]] = "initialized"
                \/ Len(active) + 1 > 1 /\ Lineage[ControlTop.class][i] = active[(Len(active) + 1) - 1]
  BY <1>2 DEF AccessIsOrderly
<1>4. ControlTop.class \in Classes /\ Len(Lineage[ControlTop.class]) \in Nat
  BY <1>1, Lineages DEF EnsureFrames
<1>5. Len(ControlTop.todo) \in Nat \ {0} /\ Class = ControlTop.todo[1]
  BY <1>1, EmptySeq DEF EnsureFrames, Class
<1>6. n + 1 \in 1..Len(Lineage[ControlTop.class]) /\ Lineage[ControlTop.class][n + 1] = Class
  BY <1>3, <1>4, <1>5 DEF HasPassed
<1>7. /\ Class \in Classes /\ Len(Lineage[Class]) = n + 1
      /\ \A i \in 1..(n + 1) : Lineage[Class][i] = Lineage[ControlTop.class][i]
  BY <1>4, <1>6, Lineages
<1> QED
  BY <1>1, <1>3, <1>4, <1>6, <1>7

\* The initializer of a class starts when its bases have been passed.
LEMMA StartInitializerStep == ASSUME ClassInvariant, StartInitializer PROVE ClassInvariant'
<1> USE DEF ClassInvariant
<1> DEFINE depth == Len(active) + 1
<1>1. /\ Len(active) \in Nat /\ Len(control) = 2 * depth /\ ControlTop \in EnsureFrames
  BY Heights DEF StartInitializer, Ensuring
<1>2. PICK n \in Nat :
         /\ n + 1 <= Len(Lineage[ControlTop.class])
         /\ ControlTop.class \in Classes /\ Class \in Classes
         /\ Lineage[ControlTop.class][n + 1] = Class
         /\ Len(Lineage[Class]) = n + 1
         /\ \A i \in 1..n :
                /\ Lineage[Class][i] = Lineage[ControlTop.class][i]
                /\ \/ state[Lineage[Class][i]] = "initialized"
                   \/ Len(active) > 0 /\ Lineage[Class][i] = active[Len(active)]
         /\ HasPassed(ControlTop, n)
  BY AwaitedClass DEF StartInitializer
<1>3. /\ Class \in Classes /\ state[Class] = "uninitialized"
      /\ state' = [state EXCEPT ![Class] = "initializing"]
      /\ active' = Append(active, Class)
      /\ control' = Append(control, InitFrame(Class))
  BY <1>2 DEF StartInitializer
<1>4. /\ active' \in Seq(Classes) /\ Len(active') = depth
      /\ \A k \in 1..Len(active) : active'[k] = active[k]
      /\ active'[depth] = Class
  BY <1>3, AppendProperties DEF ClassTypes
<1>5. /\ control' \in Seq(ClassFrames) /\ Len(control') = Len(control) + 1
      /\ \A i \in 1..Len(control) : control'[i] = control[i]
      /\ control'[2 * depth + 1] = InitFrame(Class)
  <2>1. InitFrame(Class) \in ClassFrames
    BY <1>3 DEF InitFrame, InitFrames, ClassFrames
  <2> QED
    BY <1>1, <1>3, <2>1, AppendProperties DEF ClassTypes
<1>6. ClassTypes'
  BY <1>3, <1>4, <1>5 DEF StartInitializer, ClassTypes, States
<1>7. StackAlternates'
  <2>1. ASSUME NEW k \in 1..depth PROVE control'[2 * k + 1] = InitFrame(active'[k])
    <3>1. CASE k \in 1..Len(active)
      <4>1. control[2 * k + 1] = InitFrame(active[k])
        BY <3>1 DEF StackAlternates
      <4>2. 2 * k + 1 \in 1..Len(control)
        BY <1>1, <3>1
      <4> QED
        BY <1>4, <1>5, <3>1, <4>1, <4>2
    <3>2. CASE k = depth
      BY <1>4, <1>5, <3>2
    <3> QED
      BY <1>1, <3>1, <3>2
  <2>2. ASSUME NEW k \in 1..(Len(active') + 1), 2 * k <= Len(control')
        PROVE  control'[2 * k] \in EnsureFrames
    BY <1>1, <1>4, <1>5, <2>2 DEF StackAlternates
  <2>3. control'[1] = EntryFrame
    BY <1>1, <1>5 DEF StackAlternates
  <2> QED
    BY <1>1, <1>4, <1>5, <2>1, <2>2, <2>3 DEF StackAlternates
<1>8. ActiveClassesInitialize'
  <2>1. \A k \in 1..Len(active) : active[k] \in Classes /\ active[k] # Class
    BY <1>3, ElementOfSeq DEF ClassTypes, ActiveClassesInitialize
  <2>2. ASSUME NEW k \in 1..depth PROVE state'[active'[k]] = "initializing"
    BY <1>1, <1>3, <1>4, <2>1 DEF ClassTypes, ActiveClassesInitialize
  <2>3. ASSUME NEW c \in Classes, state'[c] = "initializing"
        PROVE  \E k \in 1..depth : active'[k] = c
    BY <1>1, <1>3, <1>4, <2>3 DEF ClassTypes, ActiveClassesInitialize
  <2>4. ASSUME NEW j \in 1..depth, NEW k \in 1..depth, active'[j] = active'[k]
        PROVE  j = k
    BY <1>1, <1>4, <2>1, <2>4 DEF ActiveClassesInitialize
  <2> QED
    BY <1>4, <2>2, <2>3, <2>4 DEF ActiveClassesInitialize
<1>9. BasesStartFirst'
  <2>1. \A c \in Classes : state'[c] = IF c = Class THEN "initializing" ELSE state[c]
    BY <1>3 DEF ClassTypes
  <2>2. ASSUME NEW i \in 1..(n + 1) PROVE state'[Lineage[Class][i]] # "uninitialized"
    <3>1. Lineage[Class][i] \in Classes
      BY <1>2, <1>3, Lineages
    <3>2. CASE i = n + 1
      <4>1. Lineage[Class][n + 1] = Class
        BY <1>2, ClassesAssumption
      <4> QED
        BY <1>2, <2>1, <3>2, <4>1
    <3>3. CASE i \in 1..n
      <4>1. Len(active) > 0 => state[active[Len(active)]] = "initializing"
        BY <1>1 DEF ActiveClassesInitialize
      <4>2. state[Lineage[Class][i]] \in {"initialized", "initializing"}
        BY <1>2, <3>3, <4>1
      <4> QED
        BY <2>1, <3>1, <4>2
    <3> QED
      BY <1>2, <3>2, <3>3
  <2>3. \A c \in Classes : \A b \in Elements(Lineage[c]) : b \in Classes
    BY Lineages, LenProperties DEF Elements
  <2>4. \A b \in Elements(Lineage[Class]) : state'[b] # "uninitialized"
    BY <1>2, <1>3, <2>2, Lineages, LenProperties DEF Elements
  <2> QED
    BY <2>1, <2>3, <2>4 DEF BasesStartFirst
<1>10. ASSUME NEW k \in 1..(depth + 1), 2 * k <= Len(control')
       PROVE  AccessIsOrderly(k)'
  <2>1. \A c : state[c] = "initialized" => state'[c] = "initialized"
    BY <1>3 DEF ClassTypes
  <2>2. CASE k \in 1..Len(active)
    <3>1. AccessIsOrderly(k) /\ control'[2 * k] = control[2 * k]
      BY <1>1, <1>5, <2>2 DEF AccessesAreOrderly
    <3>2. active'[k] = active[k] /\ (k > 1 => active'[k - 1] = active[k - 1])
      BY <1>1, <1>4, <2>2
    <3> QED
      BY <2>1, <2>2, <3>1, <3>2, OrderlyAccessKept
  <2>3. CASE k = depth
    <3>1. control'[2 * k] = ControlTop /\ active'[k] = Class
      BY <1>1, <1>4, <1>5, <2>3 DEF ControlTop
    <3>2. ASSUME NEW i \in 1..n
          PROVE  \/ state'[Lineage[ControlTop.class][i]] = "initialized"
                 \/ k > 1 /\ Lineage[ControlTop.class][i] = active'[k - 1]
      <4>1. Len(active) > 0 => k > 1 /\ active'[k - 1] = active[Len(active)]
        BY <1>1, <1>4, <2>3
      <4> QED
        BY <1>2, <2>1, <4>1
    <3>3. n \in 0..Len(Lineage[ControlTop.class]) /\ n < Len(Lineage[ControlTop.class])
      BY <1>2, Lineages
    <3> QED
      BY <1>2, <3>1, <3>2, <3>3 DEF AccessIsOrderly, HasPassed
  <2> QED
    BY <1>1, <1>5, <1>10, <2>2, <2>3
<1> QED
  BY <1>4, <1>6, <1>7, <1>8, <1>9, <1>10 DEF AccessesAreOrderly

\* An initializer that ends, and the accesses in it with it: the class is no
\* longer initializing; the accesses below stay as they are.
LEMMA LeaveInitializer ==
    ASSUME ClassInvariant, InInitializer, NEW ended \in {"initialized", "failed"},
           state' = [state EXCEPT ![ControlTop.class] = ended], Deactivate,
           control' \in {ControlBelow, Caller}, thrown' \in BOOLEAN
    PROVE  ClassInvariant'
<1> USE DEF ClassInvariant
<1> DEFINE depth == Len(active) - 1
<1>1. /\ Len(active) \in Nat \ {0} /\ Len(control) = 2 * depth + 3
      /\ ControlTop = InitFrame(active[depth + 1]) /\ ControlTop.class = active[depth + 1]
  BY Heights DEF InInitializer, InitFrame
<1>2. /\ ControlTop.class \in Classes /\ state[ControlTop.class] = "initializing"
      /\ \A k \in 1..depth : active[k] # ControlTop.class /\ active[k] \in Classes
  BY <1>1, ElementOfSeq DEF ClassTypes, ActiveClassesInitialize
<1>3. /\ active' \in Seq(Classes) /\ Len(active') = depth
      /\ \A k \in 1..depth : active'[k] = active[k]
  <2>1. Len(active) - 1 \in 0..Len(active) /\ active \in Seq(Classes)
    BY <1>1 DEF ClassTypes
  <2> QED
    BY <2>1, Prefix DEF Deactivate
<1>4. /\ control' \in Seq(ClassFrames) /\ Len(control') \in {2 * depth + 1, 2 * depth + 2}
      /\ \A i \in 1..Len(control') : control'[i] = control[i]
  <2>1. Len(control) - 1 \in 0..Len(control) /\ Len(control) - 2 \in 0..Len(control)
    BY <1>1
  <2>2. CASE control' = ControlBelow
    BY <1>1, <2>1, <2>2, Prefix DEF ControlBelow, ClassTypes
  <2>3. CASE control' = Caller
    BY <1>1, <2>1, <2>3, Prefix DEF Caller, ClassTypes
  <2> QED
    BY <2>2, <2>3
<1>5. \A c \in Classes : state'[c] = IF c = ControlTop.class THEN ended ELSE state[c]
  BY DEF ClassTypes
<1>6. ClassTypes'
  BY <1>3, <1>4 DEF ClassTypes, States
<1>7. StackAlternates'
  <2>1. ASSUME NEW k \in 1..depth PROVE control'[2 * k + 1] = InitFrame(active'[k])
    <3>1. control[2 * k + 1] = InitFrame(active[k])
      BY <1>1 DEF StackAlternates
    <3>2. 2 * k + 1 \in 1..Len(control')
      BY <1>1, <1>4
    <3> QED
      BY <1>3, <1>4, <3>1, <3>2
  <2>2. ASSUME NEW k \in 1..(depth + 1), 2 * k <= Len(control')
        PROVE  control'[2 * k] \in EnsureFrames
    BY <1>1, <1>4, <2>2 DEF StackAlternates
  <2>3. control'[1] = EntryFrame
    <3>1. 1 \in 1..Len(control')
      BY <1>1, <1>4
    <3> QED
      BY <1>4, <3>1 DEF StackAlternates
  <2> QED
    BY <1>1, <1>3, <1>4, <2>1, <2>2, <2>3 DEF StackAlternates
<1>8. ActiveClassesInitialize'
  <2>1. ASSUME NEW k \in 1..depth PROVE state'[active'[k]] = "initializing"
    BY <1>1, <1>2, <1>3, <1>5 DEF ActiveClassesInitialize
  <2>2. ASSUME NEW c \in Classes, state'[c] = "initializing"
        PROVE  \E k \in 1..depth : active'[k] = c
    <3>1. c # ControlTop.class /\ state[c] = "initializing"
      BY <1>5, <2>2
    <3>2. PICK k \in 1..Len(active) : active[k] = c
      BY <3>1 DEF ActiveClassesInitialize
    <3>3. k \in 1..depth
      BY <1>1, <3>1, <3>2
    <3> QED
      BY <1>3, <3>2, <3>3
  <2>3. ASSUME NEW j \in 1..depth, NEW k \in 1..depth, active'[j] = active'[k]
        PROVE  j = k
    BY <1>1, <1>3, <2>3 DEF ActiveClassesInitialize
  <2> QED
    BY <1>3, <2>1, <2>2, <2>3 DEF ActiveClassesInitialize
<1>9. BasesStartFirst'
  <2>1. \A c \in Classes : \A b \in Elements(Lineage[c]) : b \in Classes
    BY Lineages, LenProperties DEF Elements
  <2> QED
    BY <1>2, <1>5, <2>1 DEF BasesStartFirst
<1>10. ASSUME NEW k \in 1..(depth + 1), 2 * k <= Len(control')
       PROVE  AccessIsOrderly(k)'
  <2>1. \A c : state[c] = "initialized" => state'[c] = "initialized"
    BY <1>2 DEF ClassTypes
  <2>2. AccessIsOrderly(k) /\ control'[2 * k] = control[2 * k]
    BY <1>1, <1>4, <1>10 DEF AccessesAreOrderly
  <2>3. /\ k > 1 => active'[k - 1] = active[k - 1]
        /\ k <= Len(active') => k <= Len(active) /\ active'[k] = active[k]
    <3>1. depth \in Nat /\ Len(active) = depth + 1 /\ Len(active') = depth
      BY <1>1, <1>3
    <3>2. \A i \in 1..depth : active'[i] = active[i]
      BY <1>3
    <3> HIDE DEF depth
    <3>3. (k > 1 => k - 1 \in 1..depth) /\ (k <= depth => k \in 1..depth)
      BY <3>1
    <3> QED
      BY <3>1, <3>2, <3>3
  <2> QED
    BY <2>1, <2>2, <2>3, OrderlyAccessKept
<1> QED
  BY <1>3, <1>6, <1>7, <1>8, <1>9, <1>10 DEF AccessesAreOrderly

LEMMA NextClassInvariant == ClassInvariant /\ [ClassesNext]_classesVars => ClassInvariant'
<1> SUFFICES ASSUME ClassInvariant, [ClassesNext]_classesVars PROVE ClassInvariant'
  OBVIOUS
<1>1. CASE Access
  BY <1>1, AccessStep
<1>2. CASE PassReadyClass
  BY <1>2, PassReadyClassStep
<1>3. CASE RaiseAtAccess
  BY <1>3, LeaveAccess DEF RaiseAtAccess, Ensuring
<1>4. CASE StartInitializer
  BY <1>4, StartInitializerStep
<1>5. CASE FinishInitializer
  BY <1>5, LeaveInitializer DEF FinishInitializer
<1>6. CASE FailInitializer
  BY <1>6, LeaveInitializer DEF FailInitializer, FailureState
<1>7. CASE CompleteAccess
  BY <1>7, LeaveAccess DEF CompleteAccess, ClassInvariant, ClassTypes
<1>8. CASE UNCHANGED classesVars
  <2>1. ClassTypes' /\ StackAlternates' /\ ActiveClassesInitialize' /\ BasesStartFirst'
    BY <1>8 DEF classesVars, ClassInvariant, ClassTypes, StackAlternates, ActiveClassesInitialize,
                BasesStartFirst
  <2>2. AccessesAreOrderly'
    BY <1>8 DEF classesVars, ClassInvariant, AccessesAreOrderly, AccessIsOrderly, HasPassed
  <2> QED
    BY <2>1, <2>2 DEF ClassInvariant
<1> QED
  BY <1>1, <1>2, <1>3, <1>4, <1>5, <1>6, <1>7, <1>8 DEF ClassesNext

-----------------------------------------------------------------------------

\* The invariant: the stack alternates, the classes it initializes are the ones
\* marked so, and every access on it goes through its lineage in order.
THEOREM AccessesGoBaseFirst == ClassesSpec => []ClassInvariant
BY InitClassInvariant, NextClassInvariant, PTL DEF ClassesSpec

\* No class gets ahead of its bases, for every hierarchy, every use of classes
\* by initializers, failures caught or not, and every depth bound.
THEOREM BasesAlwaysComeFirst == ClassesSpec => []BasesComeFirst
<1>1. ClassInvariant => BasesComeFirst
  <2> SUFFICES ASSUME ClassInvariant, NEW c \in Classes, NEW b \in Elements(Lineage[c])
               PROVE  /\ state[c] # "uninitialized" => state[b] # "uninitialized"
                      /\ state[c] = "initializing" => state[b] \in {"initializing", "initialized"}
    BY DEF BasesComeFirst
  <2> USE DEF ClassInvariant
  <2>1. state[c] # "uninitialized" => state[b] # "uninitialized"
    BY DEF BasesStartFirst
  <2>2. ASSUME state[c] = "initializing"
        PROVE  state[b] \in {"initializing", "initialized"}
    <3>1. PICK k \in 1..Len(active) : active[k] = c
      BY <2>2 DEF ActiveClassesInitialize
    <3>2. Len(active) \in Nat /\ 2 * k <= Len(control) /\ control[2 * k] \in EnsureFrames
      BY Heights, <3>1 DEF StackAlternates
    <3>3. AccessIsOrderly(k)
      BY <3>2 DEF AccessesAreOrderly
    <3> DEFINE accessed == control[2 * k].class
    <3>4. PICK n \in 0..Len(Lineage[accessed]) :
             /\ \A i \in 1..n :
                    \/ state[Lineage[accessed][i]] = "initialized"
                    \/ k > 1 /\ Lineage[accessed][i] = active[k - 1]
             /\ n < Len(Lineage[accessed]) /\ Lineage[accessed][n + 1] = c
      BY <3>1, <3>2, <3>3 DEF AccessIsOrderly
    <3>5. accessed \in Classes /\ Len(Lineage[accessed]) \in Nat
      BY <3>2, Lineages DEF EnsureFrames
    <3> HIDE DEF accessed
    <3>6. Len(Lineage[c]) = n + 1 /\ \A i \in 1..(n + 1) : Lineage[c][i] = Lineage[accessed][i]
      <4>1. n + 1 \in 1..Len(Lineage[accessed])
        BY <3>4, <3>5
      <4> QED
        BY <3>4, <3>5, <4>1, Lineages
    <3>7. PICK i \in 1..(n + 1) : b = Lineage[accessed][i]
      <4>1. DOMAIN Lineage[c] = 1..(n + 1)
        BY <3>6, Lineages, LenProperties
      <4> QED
        BY <3>6, <4>1 DEF Elements
    <3>8. CASE i = n + 1
      BY <2>2, <3>4, <3>7, <3>8
    <3>9. CASE i \in 1..n
      <4>1. k > 1 => state[active[k - 1]] = "initializing"
        BY <3>2 DEF ActiveClassesInitialize
      <4> QED
        BY <3>4, <3>7, <3>9, <4>1
    <3> QED
      BY <3>4, <3>5, <3>7, <3>8, <3>9
  <2> QED
    BY <2>1, <2>2
<1> QED
  BY <1>1, AccessesGoBaseFirst, PTL

\* An access is made only when the lineage is initialized, or is being
\* initialized by the very code that makes the access.
THEOREM AccessesAlwaysSeeReadyClasses == ClassesSpec => []AccessesSeeReadyClasses
<1>1. ClassInvariant => AccessesSeeReadyClasses
  <2> SUFFICES ASSUME ClassInvariant, ControlTop.kind = "ensure", ControlTop.todo = <<>>,
                      NEW b \in Elements(Lineage[ControlTop.class])
               PROVE  state[b] = "initialized" \/ ControlBelow[Len(ControlBelow)] = InitFrame(b)
    BY DEF AccessesSeeReadyClasses
  <2> USE DEF ClassInvariant
  <2> DEFINE depth == Len(active) + 1
  <2>1. Len(active) \in Nat /\ Len(control) = 2 * depth /\ ControlTop \in EnsureFrames
    BY Heights
  <2>2. AccessIsOrderly(depth) /\ control[2 * depth] = ControlTop
    BY <2>1 DEF AccessesAreOrderly, ControlTop
  <2>3. PICK n \in 0..Len(Lineage[ControlTop.class]) :
           /\ HasPassed(ControlTop, n)
           /\ \A i \in 1..n :
                  \/ state[Lineage[ControlTop.class][i]] = "initialized"
                  \/ depth > 1 /\ Lineage[ControlTop.class][i] = active[depth - 1]
    BY <2>2 DEF AccessIsOrderly
  <2>4. Len(Lineage[ControlTop.class]) \in Nat /\ ControlTop.class \in Classes
    BY <2>1, Lineages DEF EnsureFrames
  <2>5. n = Len(Lineage[ControlTop.class])
    BY <2>3, <2>4, EmptySeq DEF HasPassed
  <2>6. PICK i \in 1..n : b = Lineage[ControlTop.class][i]
    BY <2>4, <2>5, Lineages, LenProperties DEF Elements
  <2>7. depth > 1 => ControlBelow[Len(ControlBelow)] = InitFrame(active[depth - 1])
    <3>1. Len(ControlBelow) = 2 * depth - 1 /\ ControlBelow[2 * depth - 1] = control[2 * depth - 1]
      BY <2>1, Prefix DEF ControlBelow, ClassTypes
    <3>2. ASSUME depth > 1 PROVE control[2 * Len(active) + 1] = InitFrame(active[Len(active)])
      BY <2>1, <3>2 DEF StackAlternates
    <3> QED
      BY <2>1, <3>1, <3>2
  <2> QED
    BY <2>3, <2>6, <2>7
<1> QED
  BY <1>1, AccessesGoBaseFirst, PTL

=============================================================================
