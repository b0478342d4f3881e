----------------------------- MODULE MCLongTasks -----------------------------
(***************************************************************************)
(* Small instances of LongTasks for TLC.                                   *)
(***************************************************************************)
EXTENDS TaskRefinement

D(k, waits, check) == [key |-> k, waits |-> waits, check |-> check]

\* What planners write, sound or not: nothing new; one step that is checked; a chain; a step that
\* waits for one it may not have; a circle.
MCDrafts ==
    {<<>>,
     <<D("a", {}, TRUE)>>,
     <<D("a", {}, FALSE), D("b", {"a"}, FALSE)>>,
     <<D("b", {"a"}, FALSE)>>,
     <<D("a", {"b"}, FALSE), D("b", {"a"}, FALSE)>>}

\* A follow-up's planner has one plan to write.
MCOneDraft == {<<D("a", {}, FALSE)>>}
=============================================================================
