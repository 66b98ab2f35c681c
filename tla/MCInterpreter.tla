--------------------------- MODULE MCInterpreter ----------------------------
(***************************************************************************)
(* The two stack machines of src/runtime.rs, class initialization and      *)
(* statements with their frames, each run while the other rests.           *)
(***************************************************************************)
EXTENDS MCClassInitialization, Interpreter

MCInit == ClassesInit /\ Init

\* Each machine rests as at the start while the other runs.
ClassesRest == control = <<EntryFrame>> /\ \A c \in Classes : state[c] = "uninitialized"
FramesRest == Len(stack) = 1 /\ signal = "run" /\ \A l \in Lists : length[l] = 0

MCNext ==
    \/ ClassesNext /\ FramesRest /\ UNCHANGED vars
    \/ Next /\ ClassesRest /\ UNCHANGED classesVars

MCSpec == MCInit /\ [][MCNext]_<<vars, classesVars>>

=============================================================================
