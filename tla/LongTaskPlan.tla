---------------------------- MODULE LongTaskPlan ----------------------------
(***************************************************************************)
(* The pure rules of a long task: which moves a task and a step may make,  *)
(* how a planner's drafts become a plan, and the one decision the runner   *)
(* takes per slot (pond-core: domain/long_task.rs and                      *)
(* services/long_task_runner.rs).                                          *)
(*                                                                         *)
(* A plan is a function from step keys to steps; a key that names no row   *)
(* of the ledger has state "Absent".  A step keeps what control depends    *)
(* on: its state, the attempts begun, the keys it waits for, its ordinal   *)
(* and whether it carries an acceptance sentence for the verifier.         *)
(***************************************************************************)
EXTENDS Naturals, Sequences, FiniteSets

CONSTANTS Keys,          \* step keys a plan may use
          MaxAttempts,   \* MAX_STEP_ATTEMPTS
          MaxFruitless   \* MAX_FRUITLESS_PLANS

ASSUME PlanAssumption ==
    /\ IsFiniteSet(Keys)
    /\ MaxAttempts \in Nat \ {0}
    /\ MaxFruitless \in Nat \ {0}

-----------------------------------------------------------------------------
(* Task and step states, and the only moves they may make.                 *)

OpenStates     == {"Planning", "Running"}
TerminalStates == {"Completed", "Failed", "Cancelled"}
TaskStates     == OpenStates \cup {"AwaitingApproval", "Paused"} \cup TerminalStates

TaskCanBecome(from, to) ==
    \/ from = "Planning" /\ to \in {"Running", "Paused"} \cup TerminalStates
    \/ /\ from = "Running"
       /\ to \in {"Planning", "AwaitingApproval", "Paused"} \cup TerminalStates
    \/ /\ from = "AwaitingApproval"
       /\ to \in {"Planning", "Running", "Paused", "Failed", "Cancelled"}
    \/ /\ from = "Paused"
       /\ to \in {"Planning", "Running", "AwaitingApproval", "Failed", "Cancelled"}

StepStates == {"Pending", "Running", "Completed", "Failed", "Skipped", "AwaitingApproval"}

StepCanBecome(from, to) ==
    \/ from = "Pending" /\ to \in {"Running", "AwaitingApproval", "Skipped"}
    \/ from = "Running" /\ to \in {"Completed", "Failed", "AwaitingApproval", "Pending"}
    \/ from \in {"Failed", "AwaitingApproval"} /\ to \in {"Running", "Skipped"}

\* A replan keeps Completed and Running steps as they are.
SurvivesReplan(state) == state \in {"Completed", "Running"}

Step == [state    : StepStates \cup {"Absent"},
         attempts : Nat,
         waits    : SUBSET Keys,
         ordinal  : Nat,
         check    : BOOLEAN]

Plan == [Keys -> Step]

NoStep == [state |-> "Absent", attempts |-> 0, waits |-> {}, ordinal |-> 0, check |-> FALSE]

NoPlan == [k \in Keys |-> NoStep]

\* PlanStep::start and PlanStep::preempt; a pre-emption hands its attempt back.
Started(step)   == [step EXCEPT !.state = "Running", !.attempts = step.attempts + 1]

Preempted(step) == [step EXCEPT !.state = "Pending",
                                !.attempts = IF step.attempts = 0 THEN 0 ELSE step.attempts - 1]

\* PlanStep::record and PlanStep::fail, by the state they end in.
Settled(step, to) == [step EXCEPT !.state = to]

-----------------------------------------------------------------------------
(* Reading a plan.                                                         *)

Present(plan)  == {k \in Keys : plan[k].state # "Absent"}

Kept(plan)     == {k \in Keys : SurvivesReplan(plan[k].state)}

\* Fault: a wait counts as met as soon as its step has begun.
ReadyWhenBegun(plan) ==
    {k \in Keys : /\ plan[k].state = "Pending"
                  /\ \A d \in plan[k].waits :
                        plan[d].state \in {"Running", "Completed", "AwaitingApproval"}}

\* next_ready_step: the Pending steps whose every wait is Completed.
Ready(plan) ==
    {k \in Keys : /\ plan[k].state = "Pending"
                  /\ \A d \in plan[k].waits : plan[d].state = "Completed"}

\* Fault: one try too many.
RetryableOnceMore(plan) ==
    {k \in Keys : plan[k].state = "Failed" /\ plan[k].attempts <= MaxAttempts}

\* The first filter of next_run: failed steps with a try left.
Retryable(plan) ==
    {k \in Keys : plan[k].state = "Failed" /\ plan[k].attempts < MaxAttempts}

\* The step of lowest ordinal in a non-empty set of keys.
First(plan, among) == CHOOSE k \in among : \A j \in among : plan[k].ordinal <= plan[j].ordinal

\* Fault: a wait for a step that is gone does not block.
NewlyBlockedIfPresent(plan, blocked) ==
    {k \in Keys : /\ plan[k].state = "Pending"
                  /\ \E d \in plan[k].waits :
                        plan[d].state \in {"Failed", "Skipped"} \/ d \in blocked}

\* What one round of blocked_steps finds blocked, given what is blocked already.
NewlyBlocked(plan, blocked) ==
    {k \in Keys : /\ plan[k].state = "Pending"
                  /\ \E d \in plan[k].waits :
                        \/ plan[d].state \in {"Absent", "Failed", "Skipped"}
                        \/ d \in blocked}

\* blocked_steps loops NewlyBlocked from nothing until it adds no step: the least set closed
\* under it.
BlockedClosed(plan, blocked) == NewlyBlocked(plan, blocked) \subseteq blocked

Blocked(plan) ==
    {k \in Keys : \A b \in SUBSET Keys : BlockedClosed(plan, b) => k \in b}

-----------------------------------------------------------------------------
(* The runner's one decision per slot.                                     *)

\* Fault: a failed step out of tries counts as settled.
SettledOrFailed(plan) ==
    \A k \in Present(plan) : plan[k].state \in {"Completed", "Skipped", "Failed"}

AllSettled(plan) == \A k \in Present(plan) : plan[k].state \in {"Completed", "Skipped"}

\* Fault: the deadline is not looked at.
NextRunWithoutDeadline(state, plan, fruitless, late) ==
    IF state \notin OpenStates                               THEN "Wait"
    ELSE IF fruitless >= MaxFruitless                        THEN "GiveUp"
    ELSE IF state = "Planning" \/ Present(plan) = {}         THEN "Plan"
    ELSE IF Retryable(plan) # {}                             THEN "Do"
    ELSE IF Blocked(plan) # {}                               THEN "Plan"
    ELSE IF Ready(plan) # {}                                 THEN "Do"
    ELSE IF AllSettled(plan)                                 THEN "Finish"
    ELSE IF \E k \in Keys : plan[k].state = "Failed"         THEN "Plan"
    ELSE                                                          "Wait"

\* Fault: a failed step nothing waits for is not planned again.
NextRunWithoutRepair(state, plan, fruitless, late) ==
    IF state \notin OpenStates                               THEN "Wait"
    ELSE IF late \/ fruitless >= MaxFruitless                THEN "GiveUp"
    ELSE IF state = "Planning" \/ Present(plan) = {}         THEN "Plan"
    ELSE IF Retryable(plan) # {}                             THEN "Do"
    ELSE IF Blocked(plan) # {}                               THEN "Plan"
    ELSE IF Ready(plan) # {}                                 THEN "Do"
    ELSE IF AllSettled(plan)                                 THEN "Finish"
    ELSE                                                          "Wait"

NextRun(state, plan, fruitless, late) ==
    IF state \notin OpenStates                               THEN "Wait"
    ELSE IF late \/ fruitless >= MaxFruitless                THEN "GiveUp"
    ELSE IF state = "Planning" \/ Present(plan) = {}         THEN "Plan"
    ELSE IF Retryable(plan) # {}                             THEN "Do"
    ELSE IF Blocked(plan) # {}                               THEN "Plan"
    ELSE IF Ready(plan) # {}                                 THEN "Do"
    ELSE IF AllSettled(plan)                                 THEN "Finish"
    ELSE IF \E k \in Keys : plan[k].state = "Failed"         THEN "Plan"
    ELSE                                                          "Wait"

\* The step a "Do" runs: a retry comes before a fresh step.
StepToDo(plan) ==
    First(plan, IF Retryable(plan) # {} THEN Retryable(plan) ELSE Ready(plan))

-----------------------------------------------------------------------------
(* validate_plan: a planner's drafts against the steps the task has now.   *)

Draft == [key : Keys, waits : SUBSET Keys, check : BOOLEAN]

DraftKeys(drafts) == {drafts[i].key : i \in DOMAIN drafts}

\* Open steps left out of the new plan are deleted, so only these can be waited for.
Known(plan, drafts) == Kept(plan) \cup DraftKeys(drafts)

\* Fault: a wait for a step the plan does not have is stored as it is.
DraftWaitsUnchecked(plan, drafts, i) == drafts[i].waits

\* A wait for a step the plan does not have becomes a wait for every draft before it.
DraftWaits(plan, drafts, i) ==
    (drafts[i].waits \cap Known(plan, drafts))
        \cup (IF drafts[i].waits \subseteq Known(plan, drafts)
              THEN {}
              ELSE {drafts[j].key : j \in 1..(i - 1)})

LastOrdinal(plan, among) ==
    IF among = {} THEN 0
    ELSE plan[CHOOSE k \in among : \A j \in among : plan[j].ordinal <= plan[k].ordinal].ordinal

DraftIndex(drafts, k) == CHOOSE i \in DOMAIN drafts : drafts[i].key = k

DraftStep(plan, drafts, i) ==
    [state    |-> "Pending",
     attempts |-> 0,
     waits    |-> DraftWaits(plan, drafts, i),
     ordinal  |-> LastOrdinal(plan, Kept(plan)) + i,
     check    |-> drafts[i].check]

\* The plan once replace_open_steps has deleted the open steps and inserted the new ones.
Replanned(plan, drafts) ==
    [k \in Keys |-> IF k \in Kept(plan) THEN plan[k]
                    ELSE IF k \in DraftKeys(drafts)
                         THEN DraftStep(plan, drafts, DraftIndex(drafts, k))
                         ELSE NoStep]

\* No set of steps in which each one waits for another: what find_cycle returning None means.
Acyclic(plan, among) ==
    \A s \in SUBSET among : s # {} => \E k \in s : plan[k].waits \cap s = {}

PlanAccepted(state, plan, drafts, cap) ==
    /\ state \notin TerminalStates
    /\ drafts # <<>> \/ Kept(plan) # {}
    /\ Cardinality(Kept(plan)) + Len(drafts) <= cap
    /\ DraftKeys(drafts) \cap Kept(plan) = {}
    /\ \A i, j \in DOMAIN drafts : drafts[i].key = drafts[j].key => i = j
    /\ Acyclic(Replanned(plan, drafts), DraftKeys(drafts))

\* Fault: the write trusts the keys as they were when the plan was checked.
CheckCurrentKeptOnly(plan, kept, newKeys) == kept \subseteq Kept(plan)

\* ValidatedPlan::check_current, inside the write: the kept steps are still kept and no new key
\* names a step that has started or finished since the plan was checked.
CheckCurrent(plan, kept, newKeys) ==
    /\ kept \subseteq Kept(plan)
    /\ newKeys \cap Kept(plan) = {}

\* replace_open_steps for a plan checked earlier: delete the open rows, insert its new steps.
Replaced(plan, fresh, newKeys) ==
    [k \in Keys |-> IF k \in newKeys THEN fresh[k]
                    ELSE IF k \in Kept(plan) THEN plan[k]
                    ELSE NoStep]

-----------------------------------------------------------------------------
(* validate_appended_step: a hand-off keeps every step and adds one.       *)

AppendAccepted(state, plan, k, source, cap) ==
    /\ state \notin TerminalStates
    /\ Cardinality(Present(plan)) + 1 <= cap
    /\ k \notin Present(plan)
    /\ source \in Present(plan)

Appended(plan, k, source) ==
    [plan EXCEPT ![k] = [state    |-> "Pending",
                         attempts |-> 0,
                         waits    |-> {source},
                         ordinal  |-> LastOrdinal(plan, Present(plan)) + 1,
                         check    |-> FALSE]]
=============================================================================
