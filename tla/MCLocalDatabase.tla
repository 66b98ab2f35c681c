-------------------------- MODULE MCLocalDatabase --------------------------
(* Instances of LocalDatabase for TLC.                                     *)
EXTENDS LocalDatabase

CONSTANTS account, contact, name, key, lower, upper

\* lower and upper are two spellings of one string.
MCFold == [v \in Values |-> IF v = upper THEN lower ELSE v]

NoFixture == {[id \in {} |-> Blank]}

\* Fixture records under Ids that no sequence draws, or none.
ForeignFixture == NoFixture \cup {[id \in {<<account, 0>>} |-> [f \in Fields |-> lower]]}

=============================================================================
