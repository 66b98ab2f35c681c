------------------------ MODULE ClassInitialization ------------------------
(***************************************************************************)
(* Lazy static initialization (src/runtime.rs, ensure_class_initialized    *)
(* and initialize_one_class; src/runtime/class_initialization.rs).  Every  *)
(* access to a member of a class first initializes the class and its       *)
(* bases, base first; initializers are Apex code that accesses classes in  *)
(* turn; outcomes are cached; cycles and deep chains raise exceptions that *)
(* the accessing code may catch.                                           *)
(*                                                                         *)
(* `stack' is the interpreter's control stack, innermost last: the entry   *)
(* point, then alternately an "ensure" frame with the classes still to be  *)
(* looked at and an "init" frame, the initializer of one class.            *)
(***************************************************************************)
EXTENDS Integers, Sequences

CONSTANTS
    Classes,
    Lineage,          \* lineage_base_first of every class
    Uses,             \* the classes the initializer of each class may access
    EntryUses,        \* the classes the entry point may access
    Throwing,         \* the classes whose initializer may throw of its own
    MaxDepth          \* MAX_CLASS_INITIALIZATION_DEPTH, 32 in the code

Elements(s) == {s[i] : i \in DOMAIN s}

\* A lineage ends in the class itself; its parts are the lineages of the bases.
ASSUME ClassesAssumption ==
    /\ Lineage \in [Classes -> Seq(Classes)]
    /\ \A c \in Classes :
           /\ Lineage[c] # <<>> /\ Lineage[c][Len(Lineage[c])] = c
           /\ \A i \in DOMAIN Lineage[c] : Lineage[Lineage[c][i]] = SubSeq(Lineage[c], 1, i)
    /\ Uses \in [Classes -> SUBSET Classes]
    /\ EntryUses \subseteq Classes
    /\ Throwing \subseteq Classes
    /\ MaxDepth \in Nat

VARIABLES
    state,    \* class_initialization of every class
    active,   \* initialization_stack
    control,  \* the control stack
    thrown    \* an exception has just reached the code on top

classesVars == <<state, active, control, thrown>>

States == {"uninitialized", "initializing", "initialized", "failed"}

EntryFrame == [kind |-> "entry"]
EnsureFrame(c, todo) == [kind |-> "ensure", class |-> c, todo |-> todo]
InitFrame(c) == [kind |-> "init", class |-> c]

ControlTop == control[Len(control)]
ControlBelow == SubSeq(control, 1, Len(control) - 1)

ClassesInit ==
    /\ state = [c \in Classes |-> "uninitialized"]
    /\ active = <<>>
    /\ control = <<EntryFrame>>
    /\ thrown = FALSE

-----------------------------------------------------------------------------

CodeRuns == ControlTop.kind \in {"entry", "init"}

Accessible == IF ControlTop.kind = "entry" THEN EntryUses ELSE Uses[ControlTop.class]

\* A member of c is read, written or called, or an object of c constructed.
Access ==
    /\ CodeRuns
    /\ \E c \in Accessible : control' = Append(control, EnsureFrame(c, Lineage[c]))
    /\ thrown' = FALSE
    /\ UNCHANGED <<state, active>>

Ensuring == ControlTop.kind = "ensure" /\ ControlTop.todo # <<>>

\* Mutant: the accessed class is initialized before its bases.
AccessedClass == ControlTop.class

\* The class an ensure frame looks at.
Class == Head(ControlTop.todo)

\* Mutant: any active class counts as the running one.
IsActive(c) == c \in Elements(active)
IsRunning(c) == active # <<>> /\ active[Len(active)] = c

\* The class is ready, or it is its own initializer that accesses it.
IsReady(c) ==
    \/ state[c] = "initialized"
    \/ state[c] = "initializing" /\ IsRunning(c)

PassReadyClass ==
    /\ Ensuring /\ IsReady(Class)
    /\ control' = Append(ControlBelow, EnsureFrame(ControlTop.class, Tail(ControlTop.todo)))
    /\ UNCHANGED <<state, active, thrown>>

TooDeep == Len(active) >= MaxDepth

IsRefused(c) ==
    \/ state[c] = "failed"
    \/ state[c] = "initializing" /\ ~IsRunning(c)
    \/ state[c] = "uninitialized" /\ TooDeep

\* The cached failure, a cycle or the depth bound is raised at the access.
RaiseAtAccess ==
    /\ Ensuring /\ IsRefused(Class)
    /\ control' = ControlBelow
    /\ thrown' = TRUE
    /\ UNCHANGED <<state, active>>

StartInitializer ==
    /\ Ensuring /\ state[Class] = "uninitialized" /\ ~TooDeep
    /\ state' = [state EXCEPT ![Class] = "initializing"]
    /\ active' = Append(active, Class)
    /\ control' = Append(control, InitFrame(Class))
    /\ thrown' = FALSE

InInitializer == ControlTop.kind = "init"

Deactivate == active' = SubSeq(active, 1, Len(active) - 1)

FinishInitializer ==
    /\ InInitializer
    /\ state' = [state EXCEPT ![ControlTop.class] = "initialized"]
    /\ Deactivate
    /\ control' = ControlBelow
    /\ thrown' = FALSE

FailureState == "failed"

\* The code whose access started the initializer.
Caller == SubSeq(control, 1, Len(control) - 2)

\* The initializer throws, or does not catch what an access in it threw: the
\* failure is cached and raised at the access that started the initializer.
FailInitializer ==
    /\ InInitializer
    /\ thrown \/ ControlTop.class \in Throwing
    /\ state' = [state EXCEPT ![ControlTop.class] = FailureState]
    /\ Deactivate
    /\ control' = Caller
    /\ thrown' = TRUE

\* Every class of the lineage is ready: the access is made.
CompleteAccess ==
    /\ ControlTop.kind = "ensure" /\ ControlTop.todo = <<>>
    /\ control' = ControlBelow
    /\ UNCHANGED <<state, active, thrown>>

ClassesNext ==
    \/ Access \/ PassReadyClass \/ RaiseAtAccess \/ StartInitializer
    \/ FinishInitializer \/ FailInitializer \/ CompleteAccess

ClassesSpec == ClassesInit /\ [][ClassesNext]_classesVars

-----------------------------------------------------------------------------
(* Properties                                                              *)

\* No class gets ahead of its bases: they have been started when it has, and
\* none has failed while it initializes.
BasesComeFirst ==
    \A c \in Classes : \A b \in Elements(Lineage[c]) :
        /\ state[c] # "uninitialized" => state[b] # "uninitialized"
        /\ state[c] = "initializing" => state[b] \in {"initializing", "initialized"}

\* When an access is made, the classes of the lineage have been initialized,
\* or are being initialized by the very code that makes the access: a class
\* half initialized further down the stack is never seen.
AccessesSeeReadyClasses ==
    ControlTop.kind = "ensure" /\ ControlTop.todo = <<>> =>
        \A b \in Elements(Lineage[ControlTop.class]) :
            state[b] = "initialized" \/ ControlBelow[Len(ControlBelow)] = InitFrame(b)

=============================================================================
