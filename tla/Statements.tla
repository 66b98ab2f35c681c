----------------------------- MODULE Statements -----------------------------
(***************************************************************************)
(* The control-flow check of a value-returning method (semantic.rs,         *)
(* semantic/flow.rs) and the ways in which the interpreter can leave the    *)
(* statements it accepts (runtime.rs).                                      *)
(*                                                                         *)
(* A statement is [op, args, catches]. The args of a "try" are its block,   *)
(* the body of its handler and its finally block, either of them Absent;    *)
(* catches says whether the handler is for Exception ("all") or for one of  *)
(* its subclasses ("some"). Ways to leave a statement: "normal", "return",  *)
(* "throw", "break", "continue". Conditions and exceptions are left open.   *)
(***************************************************************************)
EXTENDS Sequences, SequencesExt

CONSTANT Absent

InOrder(first, second) ==
    (first \ {"normal"}) \cup (IF "normal" \in first THEN second ELSE {})

Loops == {"while", "for", "foreach", "dowhile"}
Jumps == {"return", "throw", "break", "continue"}

-----------------------------------------------------------------------------
(* flow.rs: how the checker says a statement may complete.                  *)

\* A slip: a round ended by continue is not one that ends.
OfLoopWithoutContinue(op, body) ==
    (body \cap {"return", "throw"}) \cup
    (IF op # "dowhile" \/ body \cap {"normal", "break"} # {} THEN {"normal"} ELSE {})

OfLoop(op, body) ==
    (body \cap {"return", "throw"}) \cup
    (IF op # "dowhile" \/ body \cap {"normal", "break", "continue"} # {} THEN {"normal"} ELSE {})

OfTry(block, handler, catches) ==
    IF handler = {} THEN block
    ELSE (block \ {"throw"}) \cup handler \cup (IF catches = "all" THEN {} ELSE {"throw"})

OfFinally(pending, finally) ==
    (finally \ {"normal"}) \cup (IF "normal" \in finally THEN pending ELSE {})

RECURSIVE Completions(_)
Completions(s) ==
    LET Part(i) == IF s.args[i] = Absent THEN {} ELSE Completions(s.args[i]) IN
    CASE s.op \in Jumps -> {s.op}
      [] s.op = "block" -> FoldLeft(LAMBDA done, part : InOrder(done, Completions(part)), {"normal"}, s.args)
      [] s.op = "if"    -> Part(1) \cup (IF s.args[2] = Absent THEN {"normal"} ELSE Part(2))
      [] s.op \in Loops -> OfLoop(s.op, Part(1))
      [] s.op = "try"   ->
            LET pending == OfTry(Part(1), Part(2), s.catches)
            IN  IF s.args[3] = Absent THEN pending ELSE OfFinally(pending, Part(3))
      [] OTHER -> {"normal"}   \* expressions, declarations, DML and runAs

DefinitelyReturnsOrThrows(s) ==
    Completions(s) # {} /\ Completions(s) \subseteq {"return", "throw"}

\* check_statement, as far as the loop depth goes.
RECURSIVE JumpsAccepted(_, _)
JumpsAccepted(s, inLoop) ==
    /\ s.op \in {"break", "continue"} => inLoop
    /\ \A i \in DOMAIN s.args : s.args[i] # Absent =>
           JumpsAccepted(s.args[i], inLoop \/ s.op \in Loops)

MethodAccepted(body) == JumpsAccepted(body, FALSE) /\ DefinitelyReturnsOrThrows(body)

-----------------------------------------------------------------------------
(* runtime.rs: how a statement does complete. Every expression may raise.   *)

\* One round of a loop whose body has run: it goes on, or it is left.
Rounds(body) ==
    (body \cap {"return", "throw"}) \cup
    (IF body \cap {"normal", "continue", "break"} # {} THEN {"normal"} ELSE {})

Caught(block, handler, catches) ==
    IF handler = {} \/ "throw" \notin block THEN block
    ELSE (IF catches = "all" THEN block \ {"throw"} ELSE block) \cup handler

RECURSIVE Outcomes(_)
Outcomes(s) ==
    LET Part(i) == IF s.args[i] = Absent THEN {} ELSE Outcomes(s.args[i]) IN
    CASE s.op = "return"   -> {"return", "throw"}
      [] s.op \in Jumps    -> {s.op}
      [] s.op = "block"    -> FoldLeft(LAMBDA done, part : InOrder(done, Outcomes(part)), {"normal"}, s.args)
      [] s.op = "if"       -> {"throw"} \cup Part(1) \cup (IF s.args[2] = Absent THEN {"normal"} ELSE Part(2))
      [] s.op = "dowhile"  -> Rounds(Part(1)) \cup
                              (IF Part(1) \cap {"normal", "continue"} # {} THEN {"throw"} ELSE {})
      [] s.op \in Loops    -> Rounds(Part(1)) \cup {"normal", "throw"}
      [] s.op = "runAs"    -> Part(1) \cup {"throw"}
      [] s.op = "try"      ->
            LET pending == Caught(Part(1), Part(2), s.catches)
            IN  IF s.args[3] = Absent THEN pending ELSE OfFinally(pending, Part(3))
      [] OTHER             -> {"normal", "throw"}
=============================================================================
