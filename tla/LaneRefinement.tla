--------------------------- MODULE LaneRefinement ---------------------------
(***************************************************************************)
(* The lane's mutex, its published holder and its token implement          *)
(* LaneSlot: a job has the slot for as long as GET /lane shows it.         *)
(***************************************************************************)
EXTENDS InferenceLane

Slot == INSTANCE LaneSlot WITH owner <- holder,
                               asked <- holder # NoJob /\ cancelled

\* However acquires, drops, preempts and the household's turns interleave, what is shown is one
\* job at a time from its start to its end, no late drop wipes a later job's place, no stop asked
\* of one job is inherited by the next, and the slot is always given back.
ImplementsSlot == Slot!Spec
=============================================================================
