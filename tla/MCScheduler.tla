----------------------------- MODULE MCScheduler -----------------------------
(* Files made before instant 1, with a morning brief that asks about missed  *)
(* runs, a timer for instant 2 or a rule, and the calls that meet there.     *)
EXTENDS CronScheduler, TLC

Made(at, ask) == [fireAt |-> at, paused |-> FALSE, ask |-> ask, missed |-> 0, asked |-> 0,
                  last |-> 0, made |-> 0]
Brief == "brief" :> Made(0, TRUE)
Timer == "timer" :> Made(2, FALSE)
Rule  == "rule" :> Made(0, FALSE)

Files == {Brief @@ Timer, Rule}

EveryCall ==
    {<<op, "brief">> : op \in {"create", "delete", "pause", "resume", "update", "answer"}}
        \cup {<<"pause", "timer">>, <<"run", "rule">>}

AnyOrder == Permutations(Procs)

=============================================================================
