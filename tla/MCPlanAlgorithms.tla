-------------------------- MODULE MCPlanAlgorithms --------------------------
(***************************************************************************)
(* Every plan over a few keys.  The search reads no state and              *)
(* blocked_steps only the waits of Pending steps, so a step in any other   *)
(* state is given none.                                                    *)
(***************************************************************************)
EXTENDS PlanAlgorithms

Row(state, waits) ==
    [state    |-> state,
     attempts |-> IF state = "Failed" THEN MaxAttempts ELSE 0,
     waits    |-> waits,
     ordinal  |-> 0,
     check    |-> FALSE]

Rows ==
    {NoStep} \cup {Row("Pending", waits) : waits \in SUBSET Keys}
             \cup {Row(state, {}) : state \in StepStates \ {"Pending"}}

MCInputs == [Keys -> Rows]
=============================================================================
