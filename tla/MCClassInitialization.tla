----------------------- MODULE MCClassInitialization -----------------------
(* Instances of ClassInitialization for TLC.                               *)
EXTENDS ClassInitialization

CONSTANTS Base, Sub, Leaf, Other, Last

\* Leaf extends Sub extends Base; Other and Last stand alone; all access all.
FiveClasses == {Base, Sub, Leaf, Other, Last}
FiveLineages == [c \in FiveClasses |->
    CASE c = Leaf -> <<Base, Sub, Leaf>>
      [] c = Sub  -> <<Base, Sub>>
      [] OTHER    -> <<c>>]
AllUses == [c \in FiveClasses |-> FiveClasses]

=============================================================================
