------------------------------ MODULE Subjects ------------------------------
(***************************************************************************)
(* The frame in which the pure algorithms are run: a behaviour chooses an   *)
(* algorithm and an input and takes one step, which gives the outcome the   *)
(* code computes.                                                           *)
(***************************************************************************)
EXTENDS Sequences

CONSTANT
    Divergences   \* the inputs to include on which the code breaks its rules

VARIABLES
    subject,   \* [what, given]: the algorithm and its input
    outcome    \* what the program made of it, once it has: a sequence

vars == <<subject, outcome>>

Pending == <<>>
Given == subject.given
About(what) == subject.what = what /\ outcome # Pending
Poses(what, given) == subject = [what |-> what, given |-> given]
Answers(what, result) == subject.what = what /\ outcome' = result
=============================================================================
