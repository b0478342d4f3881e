------------------------------- MODULE MCLane -------------------------------
(***************************************************************************)
(* Small instances of InferenceLane for TLC.                               *)
(***************************************************************************)
EXTENDS LaneRefinement

MCOneChore == <<"Titling", "LongTaskStep">>

MCTwoChores == <<"Consolidation", "Titling", "LongTaskStep">>

\* A long task is due at once and after the shortest quiet; a chore waits for both.
MCFloor == [j \in Jobs |-> IF j = "LongTaskStep" THEN 0 ELSE 1]
MCQuiet == [j \in Jobs |-> IF j = "LongTaskStep" THEN 1 ELSE 2]
=============================================================================
