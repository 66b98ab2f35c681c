---------------------------- MODULE MCDmlEngine ----------------------------
(* Instances of DmlEngine for TLC.                                         *)
EXTENDS DmlEngine

CONSTANTS account, key, red, blue, first, second, third, left, right

MCFold == [v \in Values |-> v]

\* Stored records, under Ids that no sequence draws.
StoredId == <<account, 0>>
StoredRed == StoredId :> [f \in Fields |-> red]
ThreeStored ==
    StoredRed @@ <<account, 11>> :> [f \in Fields |-> blue]
              @@ <<account, 10>> :> [f \in Fields |-> blue]

NewRow(v) == [id |-> Null, fields |-> key :> v]
StoredRow(v) == [id |-> StoredId, fields |-> key :> v]

NewOrStored == {NewRow(red), StoredRow(blue)}
NewOrKeyedStored == {NewRow(red), StoredRow(red)}

\* Requests of one and of two distinct SObjects, in either order.
DistinctRows == {<<left>>, <<right>>, <<left, right>>}

\* Requests of one, two and three, and one with a null row.
MixedRows == {<<first>>, <<first, Null>>, <<second, first>>, <<first, second, third>>}

\* One trigger for each of the events, none for the others.
Triggers(events) == [e \in Operations \X Phases |-> IF e \in events THEN 1 ELSE 0]

InsertTriggers == Triggers({<<"insert", "before">>, <<"insert", "after">>})

ManyTriggers == [e \in Operations \X Phases |->
    CASE e = <<"update", "before">> -> 2
      [] e \in {<<"delete", "after">>, <<"undelete", "after">>} -> 1
      [] OTHER -> 0]

-----------------------------------------------------------------------------
(* The run has two scenarios over the same variables.  "statements" has the *)
(* constants of the cfg: inserts, updates and deletes under a unique field.  *)
(* "upserts" has upserts by an external-Id field that is not unique, adds    *)
(* undeletes, a host that may refuse a write, and SObjects of its own, which *)
(* trigger bodies share.                                                     *)

VARIABLE scenario

Upserting == INSTANCE DmlEngine WITH
    Handles <- {left, right}, Globals <- {left, right}, UniqueFields <- {},
    InitialImages <- NewOrKeyedStored, Fixture <- ThreeStored, Requests <- DistinctRows,
    RequestOps <- {"upsert", "delete", "undelete"}, TriggerCount <- ManyTriggers,
    HostMayFail <- TRUE, MaxFuel <- 3

Statements == scenario = "statements" /\ Next /\ UNCHANGED scenario
Upserts == scenario = "upserts" /\ Upserting!Next /\ UNCHANGED scenario

MCSpec ==
    /\ \/ scenario = "statements" /\ Init
       \/ scenario = "upserts" /\ Upserting!Init
    /\ [][Statements \/ Upserts]_<<vars, scenario>>

=============================================================================
