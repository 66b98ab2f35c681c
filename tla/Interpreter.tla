---------------------------- MODULE Interpreter -----------------------------
(***************************************************************************)
(* The control of the interpreter (src/runtime.rs): statements, calls,     *)
(* constructors, System.runAs, try, loops and assignments as a stack of    *)
(* frames through which outcomes are passed, with the registers and the    *)
(* iteration depths every path out of a frame has to put back.  The        *)
(* program is whatever the checker admits: each step picks what comes next.*)
(*                                                                         *)
(* Values are left out but for the lengths of lists.  A register holds the *)
(* position of the frame that set it: the receiver, declaring class and    *)
(* context of a call (owner), the user of a System.runAs block (user).     *)
(* DmlEngine, AsyncRuntime and ClassInitialization model what statements   *)
(* and accesses do beyond that.                                            *)
(***************************************************************************)
EXTENDS Integers, Sequences, FiniteSets

CONSTANTS
    Lists,
    MaxLength,   \* bounds of the exploration
    MaxFrames

ASSUME InterpreterAssumption == MaxLength \in Nat /\ MaxFrames \in Nat

VARIABLES
    stack,      \* the frames of the Rust call stack, innermost last
    signal,     \* "run" inside the top frame, or the outcome passed to it
    registers,
    length,     \* the number of elements of each list
    iterating,  \* iteration_depth of each list
    due         \* for properties: the finally blocks that have still to run

vars == <<stack, signal, registers, length, iterating, due>>

\* Flow, and the two kinds of Diagnostic: those with an exception type, which
\* catch clauses may match, and the others.
Flows == {"normal", "break", "continue", "return"}
Errors == {"throw", "fatal"}
Outcomes == Flows \cup Errors

Top == stack[Len(stack)]
Below == SubSeq(stack, 1, Len(stack) - 1)

Init ==
    /\ stack = <<[kind |-> "block"]>> /\ signal = "run"
    /\ registers = [scopes |-> 2, calls |-> 0, owner |-> 0, user |-> 0]
    /\ length \in [Lists -> 0 .. MaxLength]
    /\ iterating = [l \in Lists |-> 0]
    /\ due = 0

-----------------------------------------------------------------------------
(* Entering                                                                *)

\* Where statements are executed: not in an assignment, whose right-hand side is an
\* expression, and of the steps of a constructor in initializer blocks only.
InStatements ==
    /\ stack # <<>> /\ signal = "run" /\ Len(stack) < MaxFrames
    /\ Top.kind # "assign" /\ (Top.kind = "construct" => Top.step = "fields")

\* Expressions are evaluated everywhere statements are, in assignments, and in
\* field initializers and delegation arguments.
InExpressions ==
    /\ stack # <<>> /\ signal = "run" /\ Len(stack) < MaxFrames
    /\ Top.kind = "construct" => Top.step \in {"arguments", "fields"}

Push(frame) == stack' = Append(stack, frame)
Here == Len(stack) + 1

EnterBlock ==
    /\ InStatements
    /\ Push([kind |-> "block"])
    /\ registers' = [registers EXCEPT !.scopes = @ + 1]
    /\ UNCHANGED <<signal, length, iterating, due>>

\* while, do and for; only for has a scope of its own.
EnterLoop(scoped) ==
    /\ InStatements
    /\ Push([kind |-> "loop", scoped |-> scoped])
    /\ registers' = [registers EXCEPT !.scopes = @ + (IF scoped THEN 1 ELSE 0)]
    /\ UNCHANGED <<signal, length, iterating, due>>

\* The elements are copied and the depth of the list goes up; an empty list is
\* left at once (NextElement).
EnterForEach(l) ==
    /\ InStatements
    /\ Push([kind |-> "foreach", list |-> l, left |-> length[l], size |-> length[l]])
    /\ registers' = [registers EXCEPT !.scopes = @ + 1]
    /\ iterating' = [iterating EXCEPT ![l] = @ + 1]
    /\ signal' = "continue"
    /\ UNCHANGED <<length, due>>

EnterTry(catches, finally) ==
    /\ InStatements /\ (catches \/ finally)
    /\ Push([kind |-> "try", catches |-> catches, finally |-> finally,
             phase |-> "body", pending |-> "normal"])
    /\ due' = due + (IF finally THEN 1 ELSE 0)
    /\ UNCHANGED <<signal, registers, length, iterating>>

EnterRunAs ==
    /\ InStatements
    /\ Push([kind |-> "runAs", saved |-> registers.user])
    /\ registers' = [registers EXCEPT !.user = Here]
    /\ UNCHANGED <<signal, length, iterating, due>>

\* A call replaces the scopes by one with the parameters.  Static, instance and super
\* methods, accessors and constructor bodies (method) replace receiver, declaring class
\* and context as well; a top-level function leaves those of the code that calls it.
CallFrame(returns, method) ==
    [kind |-> "call", returns |-> returns, method |-> method, saved |-> registers]
Scoped(calls, owner) ==
    [scopes |-> 1, calls |-> calls, owner |-> owner, user |-> registers.user]
Called(method) == Scoped(registers.calls + 1, IF method THEN Here ELSE registers.owner)

EnterCall(returns, method) ==
    /\ InExpressions
    /\ Push(CallFrame(returns, method))
    /\ registers' = Called(method)
    /\ UNCHANGED <<signal, length, iterating, due>>

\* Receiver and index are evaluated and checked before the right-hand side is.
EnterAssignment(l, index) ==
    /\ InExpressions /\ Top.kind # "assign"
    /\ index < length[l] /\ iterating[l] = 0
    /\ Push([kind |-> "assign", list |-> l, index |-> index])
    /\ UNCHANGED <<signal, registers, length, iterating, due>>

\* new: of a derived class, by a constructor that delegates to this or to super.
EnterConstruction(class, ctor) ==
    /\ InExpressions
    /\ Push([kind |-> "construct", class |-> class, ctor |-> ctor, step |-> "begin",
             saved |-> registers, initialized |-> {}, log |-> <<>>, nested |-> FALSE])
    /\ UNCHANGED <<signal, registers, length, iterating, due>>

\* List and Set methods that add, remove or reorder elements.
Resize(l, n) ==
    /\ InExpressions /\ n # length[l]
    /\ IF iterating[l] = 0
       THEN length' = [length EXCEPT ![l] = n] /\ UNCHANGED signal
       ELSE signal' = "throw" /\ UNCHANGED length
    /\ UNCHANGED <<stack, registers, iterating, due>>

-----------------------------------------------------------------------------
(* Outcomes of statements and expressions                                  *)

\* Some frame above the innermost call is a loop; the checker admits break and
\* continue nowhere else.  A loop around a constructor's step does not count.
InLoop ==
    \E i \in 1 .. Len(stack) :
        /\ stack[i].kind \in {"loop", "foreach"}
        /\ \A j \in i .. Len(stack) : stack[j].kind \notin {"call", "construct", "assign"}

InCallable ==
    \E i \in 1 .. Len(stack) :
        /\ stack[i].kind = "call"
        /\ \A j \in i .. Len(stack) : stack[j].kind \notin {"construct", "assign"}

Signal(outcome) ==
    /\ stack # <<>> /\ signal = "run"
    /\ outcome \in {"break", "continue"} => InLoop
    /\ outcome = "return" => InCallable
    /\ Top.kind = "construct" => Top.step \in {"arguments", "fields"}
    /\ signal' = outcome
    /\ UNCHANGED <<stack, registers, length, iterating, due>>

-----------------------------------------------------------------------------
(* Leaving                                                                 *)

\* The frame ends: its parent goes on, or is passed the outcome.
Pop(outcome) ==
    /\ stack' = Below
    /\ signal' = IF outcome = "normal" THEN "run" ELSE outcome

Passing(kind) == stack # <<>> /\ signal \in Outcomes /\ Top.kind = kind

LeaveBlock ==
    /\ Passing("block")
    /\ Pop(signal)
    /\ registers' = [registers EXCEPT !.scopes = @ - 1]
    /\ UNCHANGED <<length, iterating, due>>

\* The body runs again, or the loop ends by its condition, a break, or an outcome
\* that is not its own.  Evaluation of the condition or update may fail.
RepeatLoop ==
    /\ Passing("loop") /\ signal \in {"normal", "continue"}
    /\ signal' = "run"
    /\ UNCHANGED <<stack, registers, length, iterating, due>>

LoopOutcomes ==
    CASE signal \in {"normal", "continue"} -> {"normal", "throw", "fatal"}
      [] signal = "break" -> {"normal"}
      [] OTHER -> {signal}

LeaveLoop(outcome) ==
    /\ Passing("loop") /\ outcome \in LoopOutcomes
    /\ Pop(outcome)
    /\ registers' = [registers EXCEPT !.scopes = @ - (IF Top.scoped THEN 1 ELSE 0)]
    /\ UNCHANGED <<length, iterating, due>>

NextElement ==
    /\ Passing("foreach") /\ signal \in {"normal", "continue"} /\ Top.left > 0
    /\ stack' = Append(Below, [Top EXCEPT !.left = @ - 1])
    /\ signal' = "run"
    /\ UNCHANGED <<registers, length, iterating, due>>

\* Mutant: the list is marked as not iterated.
Unmark(l) == [iterating EXCEPT ![l] = 0]
Uncount(l) == [iterating EXCEPT ![l] = @ - 1]

LeaveForEach ==
    /\ Passing("foreach") /\ (signal \in {"normal", "continue"} => Top.left = 0)
    /\ Pop(IF signal \in {"continue", "break"} THEN "normal" ELSE signal)
    /\ registers' = [registers EXCEPT !.scopes = @ - 1]
    /\ iterating' = Uncount(Top.list)
    /\ UNCHANGED <<length, due>>

\* A clause matches: its body runs in a scope with the exception.
Catch ==
    /\ Passing("try") /\ signal = "throw" /\ Top.phase = "body" /\ Top.catches
    /\ stack' = Append(Below, [Top EXCEPT !.phase = "catch"])
    /\ signal' = "run"
    /\ registers' = [registers EXCEPT !.scopes = @ + 1]
    /\ UNCHANGED <<length, iterating, due>>

\* The outcome of the body, if no clause matched it, or of the clause.
\* Mutant: an error no clause can match leaves at once.
OnlyFlowsReachFinally(outcome) == Top.finally /\ outcome # "fatal"
ReachesFinally(outcome) == Top.finally /\ outcome \in Outcomes

EndTryPart ==
    /\ Passing("try") /\ Top.phase # "finally"
    /\ registers' = [registers EXCEPT !.scopes = @ - (IF Top.phase = "catch" THEN 1 ELSE 0)]
    /\ IF ReachesFinally(signal)
       THEN /\ stack' = Append(Below, [Top EXCEPT !.phase = "finally", !.pending = signal])
            /\ signal' = "run" /\ due' = due - 1
       ELSE /\ Pop(signal) /\ UNCHANGED due
    /\ UNCHANGED <<length, iterating>>

\* An abrupt finally block replaces the pending outcome.
LeaveFinally ==
    /\ Passing("try") /\ Top.phase = "finally"
    /\ Pop(IF signal = "normal" THEN Top.pending ELSE signal)
    /\ UNCHANGED <<registers, length, iterating, due>>

LeaveRunAs ==
    /\ Passing("runAs")
    /\ Pop(signal)
    /\ registers' = [registers EXCEPT !.user = Top.saved]
    /\ UNCHANGED <<length, iterating, due>>

\* What the call replaced comes back; the rest stays as the body leaves it.
\* Mutant: an error leaves the scopes of the method behind.
SavedUnlessThrown ==
    [registers EXCEPT !.scopes = IF signal \in Errors THEN @ ELSE Top.saved.scopes,
                      !.calls = @ - 1,
                      !.owner = IF Top.method THEN Top.saved.owner ELSE @]
Saved ==
    [registers EXCEPT !.scopes = Top.saved.scopes,
                      !.calls = @ - 1,
                      !.owner = IF Top.method THEN Top.saved.owner ELSE @]

LeaveCall ==
    /\ Passing("call") /\ signal \in {"normal", "return"} \cup Errors
    /\ Pop(CASE signal = "return" -> "normal"
             [] signal = "normal" /\ Top.returns -> "fatal"
             [] OTHER -> signal)
    /\ registers' = Saved
    /\ UNCHANGED <<length, iterating, due>>

\* write_place uses the index as it was checked: elements[*index].
Assign ==
    /\ Passing("assign")
    /\ IF signal = "normal" /\ Top.index >= length[Top.list]
       THEN signal' = "panic" /\ UNCHANGED stack
       ELSE Pop(signal)
    /\ UNCHANGED <<registers, length, iterating, due>>

-----------------------------------------------------------------------------
(* Construction: execute_constructor_chain                                 *)

Constructing(step) ==
    stack # <<>> /\ signal = "run" /\ Top.kind = "construct" /\ Top.step = step

\* The arguments of a delegation are evaluated in a scope of the parameters.
BeginDelegation ==
    /\ Constructing("begin") /\ Top.ctor \in {"this", "super"}
    /\ stack' = Append(Below, [Top EXCEPT !.step = "arguments"])
    /\ registers' = Scoped(registers.calls, Len(stack))
    /\ UNCHANGED <<signal, length, iterating, due>>

\* The chain goes on in another constructor of the class, or in one of its base,
\* with the object's set of initialized classes.
Delegated(class, ctor) ==
    [kind |-> "construct", class |-> class, ctor |-> ctor, step |-> "begin",
     saved |-> registers, initialized |-> Top.initialized, log |-> Top.log, nested |-> TRUE]

\* Of the classes, 1 is the base of 2; ctor "implicit" has no delegation.
Delegate ==
    /\ Constructing("begin") /\ Top.ctor = "implicit"
    /\ stack' = IF Top.class = 1
                THEN Append(Below, [Top EXCEPT !.step = "initialize"])
                ELSE Append(Append(Below, [Top EXCEPT !.step = "delegated"]),
                            Delegated(1, "implicit"))
    /\ UNCHANGED <<signal, registers, length, iterating, due>>

EndArguments(ctor) ==
    /\ Passing("construct") /\ Top.step = "arguments"
    /\ registers' = Top.saved
    /\ IF signal \in Errors
       THEN Pop(signal)
       ELSE /\ ctor = "super" => Top.ctor = "this" /\ Top.class = 2
            /\ stack' = Append(Append(Below, [Top EXCEPT !.step = "delegated"]),
                               [Delegated(IF Top.ctor = "this" THEN Top.class ELSE 1, ctor)
                                   EXCEPT !.saved = Top.saved])
            /\ signal' = "run"
    /\ UNCHANGED <<length, iterating, due>>

\* Field initializers and blocks run once for each class of the object.
\* Mutant: every constructor of the chain runs them.
AlwaysInitializes == TRUE
Initializes == Top.class \notin Top.initialized

BeginFields ==
    /\ Constructing("initialize")
    /\ IF Initializes
       THEN /\ stack' = Append(Below, [Top EXCEPT !.step = "fields",
                                                  !.initialized = @ \cup {Top.class},
                                                  !.log = Append(@, Top.class)])
            /\ registers' = [registers EXCEPT !.owner = Len(stack)]
       ELSE stack' = Append(Below, [Top EXCEPT !.step = "body"]) /\ UNCHANGED registers
    /\ UNCHANGED <<signal, length, iterating, due>>

EndFields ==
    /\ Passing("construct") /\ Top.step = "fields"
    /\ registers' = Top.saved
    /\ IF signal = "normal"
       THEN stack' = Append(Below, [Top EXCEPT !.step = "body"]) /\ signal' = "run"
       ELSE Pop(IF signal \in Errors THEN signal ELSE "fatal")
    /\ UNCHANGED <<length, iterating, due>>

ConstructorBody ==
    /\ Constructing("body")
    /\ stack' = Append(Append(Below, [Top EXCEPT !.step = "done"]), CallFrame(FALSE, TRUE))
    /\ registers' = Called(TRUE)
    /\ UNCHANGED <<signal, length, iterating, due>>

\* The end of the chain: the constructor that delegated takes over the set.
EndConstruction ==
    /\ Constructing("done")
    /\ stack' = IF Top.nested
                THEN LET parent == Below[Len(Below)]
                     IN  Append(SubSeq(Below, 1, Len(Below) - 1),
                                [parent EXCEPT !.step = "initialize", !.log = Top.log,
                                               !.initialized = Top.initialized])
                ELSE Below
    /\ UNCHANGED <<signal, registers, length, iterating, due>>

FailConstruction ==
    /\ Passing("construct") /\ Top.step \in {"done", "delegated"} /\ signal \in Errors
    /\ Pop(signal)
    /\ UNCHANGED <<registers, length, iterating, due>>

Terminated == (stack = <<>> \/ signal = "panic") /\ UNCHANGED vars

Next ==
    \/ EnterBlock \/ EnterRunAs
    \/ \E scoped \in BOOLEAN : EnterLoop(scoped)
    \/ \E l \in Lists : EnterForEach(l)
    \/ \E catches, finally \in BOOLEAN : EnterTry(catches, finally)
    \/ \E returns, method \in BOOLEAN : EnterCall(returns, method)
    \/ \E l \in Lists, index \in 0 .. MaxLength - 1 : EnterAssignment(l, index)
    \/ \E class \in {1, 2}, ctor \in {"this", "super", "implicit"} :
        (ctor = "super" => class = 2) /\ EnterConstruction(class, ctor)
    \/ \E l \in Lists, n \in 0 .. MaxLength : Resize(l, n)
    \/ \E outcome \in Outcomes : Signal(outcome) \/ LeaveLoop(outcome)
    \/ LeaveBlock \/ RepeatLoop \/ NextElement \/ LeaveForEach
    \/ Catch \/ EndTryPart \/ LeaveFinally \/ LeaveRunAs \/ LeaveCall \/ Assign
    \/ BeginDelegation \/ Delegate \/ BeginFields \/ EndFields
    \/ \E ctor \in {"super", "implicit"} : EndArguments(ctor)
    \/ ConstructorBody \/ EndConstruction \/ FailConstruction
    \/ Terminated

Spec == Init /\ [][Next]_vars

-----------------------------------------------------------------------------
(* Properties                                                              *)

Positions(P(_)) == {i \in 1 .. Len(stack) : P(stack[i])}
Topmost(S) == IF S = {} THEN 0 ELSE CHOOSE i \in S : \A j \in S : j <= i

PushesScope(f) ==
    \/ f.kind \in {"block", "foreach"}
    \/ f.kind = "loop" /\ f.scoped
    \/ f.kind = "try" /\ f.phase = "catch"
IsCall(f) == f.kind = "call"
ReplacesScopes(f) == IsCall(f) \/ (f.kind = "construct" /\ f.step = "arguments")
OwnsRegisters(f) ==
    \/ IsCall(f) /\ f.method
    \/ f.kind = "construct" /\ f.step \in {"arguments", "fields"}
SwitchesUser(f) == f.kind = "runAs"

\* Whatever returned, broke out, threw or failed: scopes, call stack, receiver,
\* context, user and iteration depths are those of the frames still open.
RegistersFollowStack ==
    /\ registers.calls = Cardinality(Positions(IsCall))
    /\ registers.owner = Topmost(Positions(OwnsRegisters))
    /\ registers.user = Topmost(Positions(SwitchesUser))
    /\ registers.scopes = 1 + Cardinality({i \in Positions(PushesScope) :
                                              i > Topmost(Positions(ReplacesScopes))})
    /\ \A l \in Lists : iterating[l] =
        Cardinality({i \in 1 .. Len(stack) : stack[i].kind = "foreach" /\ stack[i].list = l})

\* While some loop iterates over a list, however deep below it calls go, the list
\* keeps its length.
IteratedListsAreStable ==
    \A i \in 1 .. Len(stack) :
        stack[i].kind = "foreach" => length[stack[i].list] = stack[i].size

\* Each try that was entered and left has run its finally block exactly once,
\* for whatever outcome.
FinallyBlocksRunOnce ==
    due = Cardinality({i \in 1 .. Len(stack) :
        stack[i].kind = "try" /\ stack[i].finally /\ stack[i].phase # "finally"})

\* The initializers of an object's classes run once each, the base's first, and
\* before the body of any of their constructors.
FieldsInitializeBaseFirst ==
    \A i \in 1 .. Len(stack) : stack[i].kind = "construct" =>
        /\ stack[i].log \in {<<>>, <<1>>, <<1, 2>>}
        /\ stack[i].step \in {"body", "done"} => stack[i].class \in stack[i].initialized

\* execution-semantics.md: "invalid List positions and sizes raise ListException".
InvalidPositionsRaise == signal # "panic"

=============================================================================
