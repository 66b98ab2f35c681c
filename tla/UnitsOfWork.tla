---------------------------- MODULE UnitsOfWork ----------------------------
(***************************************************************************)
(* What the checkpoints of the host promise, stated without snapshots: a   *)
(* stack of nested units of work, each with a private copy of the data.    *)
(* Work touches the innermost copy only; committing a unit hands its copy  *)
(* to the unit around it; rolling it back throws the copy away, and the    *)
(* unit around it is exactly as it was when the inner one began.           *)
(***************************************************************************)
EXTENDS Integers, Sequences

VARIABLE copies   \* copies[1] is the data outside all units; the last is in use

Outer == SubSeq(copies, 1, Len(copies) - 1)

Init == copies = <<copies[1]>>

Work ==
    /\ Len(copies') = Len(copies)
    /\ SubSeq(copies', 1, Len(copies) - 1) = Outer

Begin == copies' = Append(copies, copies[Len(copies)])

Commit ==
    /\ Len(copies) > 1
    /\ copies' = Append(SubSeq(copies, 1, Len(copies) - 2), copies[Len(copies)])

Rollback == Len(copies) > 1 /\ copies' = Outer

Next == Work \/ Begin \/ Commit \/ Rollback

Spec == Init /\ [][Next]_copies

=============================================================================
