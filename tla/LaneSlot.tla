------------------------------ MODULE LaneSlot ------------------------------
(***************************************************************************)
(* What the inference lane promises the household and its background jobs, *)
(* with no cadences, registrations or locks in sight: at most one job has  *)
(* the slot, a job starts with nobody having asked it to stop, only the    *)
(* job that has the slot gives it back, and every job does.                *)
(***************************************************************************)
CONSTANTS Jobs, NoJob

VARIABLES owner, \* the job that has the slot
          asked  \* whether it was asked to stop

vars == <<owner, asked>>

Init == owner = NoJob /\ asked = FALSE

Start(j) ==
    /\ owner = NoJob
    /\ owner' = j /\ asked' = FALSE

AskToStop ==
    /\ owner # NoJob
    /\ asked' = TRUE
    /\ UNCHANGED owner

GiveBack ==
    /\ owner # NoJob
    /\ owner' = NoJob /\ asked' = FALSE

Next == (\E j \in Jobs : Start(j)) \/ AskToStop \/ GiveBack

Spec == Init /\ [][Next]_vars /\ WF_vars(GiveBack)
=============================================================================
