--------------------------- MODULE TaskRefinement ---------------------------
(***************************************************************************)
(* The ledger, its openers and its runner implement TaskLife: what of      *)
(* their state the promise is about.                                       *)
(***************************************************************************)
EXTENDS LongTasks

\* Paused, planning, running and parked tasks are all open.
LifeOf(t) ==
    CASE tstate[t] = "Absent"         -> "none"
      [] tstate[t] = "Deleted"        -> "deleted"
      [] tstate[t] \in TerminalStates -> tstate[t]
      [] OTHER                        -> "open"

DoneOf(t) == {k \in Keys : plan[t][k].state = "Completed"}

\* From the pick to the end of the runner's loop.
InHand == IF pc \in {"down", "idle"} THEN 0 ELSE cur

Life == INSTANCE TaskLife WITH life  <- [t \in Tasks |-> LifeOf(t)],
                               done  <- [t \in Tasks |-> DoneOf(t)],
                               hands <- InHand

\* Openers, members, the planner's late writes, errors and restarts together keep the promise:
\* advance_long_task writes results only to the task it took while it was open, ends only that
\* one, and neither a cancel read earlier nor a recovery gives a task a second ending.
ImplementsLife == Life!Spec
=============================================================================
