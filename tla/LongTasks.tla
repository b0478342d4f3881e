------------------------------ MODULE LongTasks ------------------------------
(***************************************************************************)
(* The long-task ledger and everyone who writes it: the openers (a member, *)
(* an agent's activation, a finished step's follow-up), the member who     *)
(* cancels, the admin who deletes, the planner's plan_write call, and the  *)
(* one runner that takes the task at the front of the line, asks for a     *)
(* lane slot, and plans it, does its next step, or ends it                 *)
(* (pond-server: run_long_task_runner and advance_long_task).              *)
(*                                                                         *)
(* The ledger (tstate, tkind, plan, late) is SQLite and survives a crash.  *)
(* Everything else is one process's memory.  A ledger call is one step;    *)
(* an await between two ledger calls is a place where others may act.      *)
(* A call of the runner's own set_task_state or update_step, which reads   *)
(* the row and then writes it only if its state still is what was read, is *)
(* one step: a row that moves in between makes the call fail, as it does   *)
(* when the row had moved before.  A member's cancel keeps both steps.     *)
(***************************************************************************)
EXTENDS LongTaskPlan

CONSTANTS MaxTasks,      \* bound: tasks ever opened
          Kinds,         \* the kinds of task opened from outside the runner
          Drafts,        \* the plans a planner may write
          FirstKey,      \* the one step of a short answer or of an activation
          HandOffKeys,   \* the keys hand_off_key makes
          MaxHandOffs,   \* MAX_HAND_OFFS_PER_TASK
          MaxSteps,      \* DEFAULT_LONG_TASK_STEPS
          MaxShortSteps, \* MAX_SHORT_STEPS
          MaxOverruns,   \* bound: plan_write calls that outlive their planner's run
          MaxFaults,     \* bound: ledger or orchestrator errors
          MaxCrashes     \* bound: restarts of the process

ASSUME TaskAssumption ==
    /\ MaxTasks \in Nat \ {0}
    /\ Kinds \subseteq {"planned", "quick", "activation"}
    /\ Drafts \subseteq Seq(Draft)
    /\ FirstKey \in Keys
    /\ HandOffKeys \subseteq Keys
    /\ {MaxHandOffs, MaxSteps, MaxShortSteps, MaxOverruns, MaxFaults, MaxCrashes} \subseteq Nat
    /\ MaxSteps >= 1

VARIABLES
    tstate,     \* tstate[t]: the state column of task t
    tkind,      \* tkind[t]: how task t was opened, which its id and its answer column keep
    plan,       \* plan[t]: its step rows
    late,       \* tasks whose deadline has passed
    opening,    \* opening[t]: how far the opener of t has got
    cancelling, \* cancelling[t]: the state a member's cancel has read of t
    fruitless,  \* fruitless[t]: plans in a row that left nothing to run
    pc,         \* where the runner is
    cur,        \* the task it took
    seen,       \* the state that task had when the runner read it
    key,        \* the step it runs
    step,       \* its own copy of that step
    call,       \* the plan_write between its read of the steps and its write
    overruns,   \* plan_write calls left behind so far
    faults,     \* errors so far
    crashes     \* restarts so far

ledger   == <<tstate, tkind, plan, late>>
openers  == <<opening, cancelling>>
runner   == <<pc, cur, seen, key, step>>
failures == <<overruns, faults, crashes>>
vars     == <<ledger, openers, fruitless, runner, call, failures>>

Tasks == 1..MaxTasks

TaskKinds == {"none", "planned", "quick", "activation", "followup"}

RunnerStates ==
    {"down", "idle", "picked", "givingUp", "finishing", "planning", "starting", "working",
     "checking", "afterHooks", "handing", "parking"}

NoCall == [task |-> 0, kept |-> {}, fresh |-> NoPlan, new |-> {}]

Call == [task : Tasks \cup {0}, kept : SUBSET Keys, fresh : Plan, new : SUBSET Keys]

\* A row exists.
Stored(t)   == tstate[t] \in TaskStates

Live(t)     == tstate[t] \in TaskStates \ TerminalStates

IsActivation(t) == tkind[t] = "activation"

\* The budget's max_steps.
Cap(t) == IF IsActivation(t) THEN 1 + MaxHandOffs ELSE MaxSteps

Init ==
    /\ tstate = [t \in Tasks |-> "Absent"]
    /\ tkind = [t \in Tasks |-> "none"]
    /\ plan = [t \in Tasks |-> NoPlan]
    /\ late = {}
    /\ opening = [t \in Tasks |-> "none"]
    /\ cancelling = [t \in Tasks |-> "none"]
    /\ fruitless = [t \in Tasks |-> 0]
    /\ pc = "down"
    /\ cur = 1
    /\ seen = "Absent"
    /\ key = FirstKey
    /\ step = NoStep
    /\ call = NoCall
    /\ overruns = 0
    /\ faults = 0
    /\ crashes = 0

-----------------------------------------------------------------------------
(* What a ledger call does to the rows.                                    *)

\* set_task_state: Refused is the error it returns; a deleted task is no error and no change.
Refused(t, to) == Stored(t) /\ ~TaskCanBecome(tstate[t], to)

SetTaskState(t, to) ==
    tstate' = IF Stored(t) /\ TaskCanBecome(tstate[t], to)
              THEN [tstate EXCEPT ![t] = to]
              ELSE tstate

\* update_step: the row takes the copy's state and attempts, whatever the task's state is.
StepRefused(t, k, copy) == ~StepCanBecome(plan[t][k].state, copy.state)

UpdateStep(t, k, copy) ==
    plan' = IF StepRefused(t, k, copy)
            THEN plan
            ELSE [plan EXCEPT ![t][k].state = copy.state, ![t][k].attempts = copy.attempts]

\* replace_open_steps refuses a finished task and a plan the steps have moved past.
ReplaceAccepted(t, kept, new) == Live(t) /\ CheckCurrent(plan[t], kept, new)

\* create_task, with the next free id: ids follow created_at.
Create(t, kind, state) ==
    /\ tstate[t] = "Absent"
    /\ \A u \in Tasks : u < t => tstate[u] # "Absent"
    /\ tstate' = [tstate EXCEPT ![t] = state]
    /\ tkind' = [tkind EXCEPT ![t] = kind]

-----------------------------------------------------------------------------
(* Opening, cancelling and deleting a task.                                *)

\* open_task with no chosen short answer: the planner will be asked for the steps.
OpenPlanned(t) ==
    /\ "planned" \in Kinds
    /\ Create(t, "planned", "Planning")
    /\ UNCHANGED <<plan, late, openers, fruitless, runner, call, failures>>

\* Fault: opened Running, before its step is stored.
OpenRunning(t) ==
    /\ \E kind \in Kinds \ {"planned"} :
          /\ kind = "activation" => \A u \in Tasks : ~(IsActivation(u) /\ Live(u))
          /\ Create(t, kind, "Running")
    /\ opening' = [opening EXCEPT ![t] = "created"]
    /\ UNCHANGED <<plan, late, cancelling, fruitless, runner, call, failures>>

\* open_task for a short answer, and queue for a firing agent: stored Paused, without its step.  An
\* agent with an unfinished activation task is not fired again.
OpenPaused(t) ==
    /\ \E kind \in Kinds \ {"planned"} :
          /\ kind = "activation" => \A u \in Tasks : ~(IsActivation(u) /\ Live(u))
          /\ Create(t, kind, "Paused")
    /\ opening' = [opening EXCEPT ![t] = "created"]
    /\ UNCHANGED <<plan, late, cancelling, fruitless, runner, call, failures>>

OneStep == <<[key |-> FirstKey, waits |-> {}, check |-> FALSE]>>

\* The opener gives up: it cancels the task, and ignores a refusal.
OpenerCancels(t) ==
    /\ SetTaskState(t, "Cancelled")
    /\ opening' = [opening EXCEPT ![t] = "none"]

\* Its one step is stored, or an error cancels it; but an error of the short answer's brief, which
\* comes before, returns as it is.
StoreFirstStep(t) ==
    /\ opening[t] = "created"
    /\ \/ /\ ReplaceAccepted(t, {}, {FirstKey})
          /\ plan' = [plan EXCEPT ![t] = Replaced(plan[t], Replanned(NoPlan, OneStep), {FirstKey})]
          /\ opening' = [opening EXCEPT ![t] = "stored"]
          /\ UNCHANGED <<tstate, faults>>
       \/ /\ ~ReplaceAccepted(t, {}, {FirstKey})
          /\ OpenerCancels(t)
          /\ UNCHANGED <<plan, faults>>
       \/ /\ faults < MaxFaults
          /\ faults' = faults + 1
          /\ OpenerCancels(t)
          /\ UNCHANGED plan
       \/ /\ tkind[t] = "quick" /\ faults < MaxFaults
          /\ faults' = faults + 1
          /\ opening' = [opening EXCEPT ![t] = "none"]
          /\ UNCHANGED <<tstate, plan>>
    /\ UNCHANGED <<tkind, late, cancelling, fruitless, runner, call, overruns, crashes>>

\* Paused to Running; refused when a member cancelled it meanwhile.
SetOpenedRunning(t) ==
    /\ opening[t] = "stored"
    /\ \/ SetTaskState(t, "Running") /\ UNCHANGED faults
       \/ /\ faults < MaxFaults
          /\ faults' = faults + 1
          /\ SetTaskState(t, "Cancelled")
    /\ opening' = [opening EXCEPT ![t] = "none"]
    /\ UNCHANGED <<tkind, plan, late, cancelling, fruitless, runner, call, overruns, crashes>>

\* Fault: any task, there or not, can be cancelled.
CancelReadAny(t) ==
    /\ cancelling[t] = "none"
    /\ cancelling' = [cancelling EXCEPT ![t] = tstate[t]]
    /\ UNCHANGED <<ledger, opening, fruitless, runner, call, failures>>

\* cancel_long_task and task_cancel read the task, which refuses a finished one, ...
CancelRead(t) ==
    /\ cancelling[t] = "none"
    /\ Live(t)
    /\ cancelling' = [cancelling EXCEPT ![t] = tstate[t]]
    /\ UNCHANGED <<ledger, opening, fruitless, runner, call, failures>>

\* Fault: written whatever the task has become.
CancelWriteBlind(t) ==
    /\ cancelling[t] # "none"
    /\ tstate' = [tstate EXCEPT ![t] = "Cancelled"]
    /\ cancelling' = [cancelling EXCEPT ![t] = "none"]
    /\ UNCHANGED <<tkind, plan, late, opening, fruitless, runner, call, failures>>

\* ... and write Cancelled if it still is in the state they read.
CancelWrite(t) ==
    /\ cancelling[t] # "none"
    /\ tstate' = IF tstate[t] = cancelling[t] THEN [tstate EXCEPT ![t] = "Cancelled"] ELSE tstate
    /\ cancelling' = [cancelling EXCEPT ![t] = "none"]
    /\ UNCHANGED <<tkind, plan, late, opening, fruitless, runner, call, failures>>

\* The admin's delete_task: only a finished task, and its steps go with it.
Delete(t) ==
    /\ tstate[t] \in TerminalStates
    /\ tstate' = [tstate EXCEPT ![t] = "Deleted"]
    /\ plan' = [plan EXCEPT ![t] = NoPlan]
    /\ UNCHANGED <<tkind, late, openers, fruitless, runner, call, failures>>

\* Only an activation has a deadline (ACTIVATION_DEADLINE).
DeadlinePasses(t) ==
    /\ IsActivation(t) /\ Live(t) /\ t \notin late
    /\ late' = late \cup {t}
    /\ UNCHANGED <<tstate, tkind, plan, openers, fruitless, runner, call, failures>>

-----------------------------------------------------------------------------
(* The runner takes a task, asks for the lane slot and decides.            *)

\* run_order: members' tasks before activations, then the order they were asked for in.
Before(t, u) == IF IsActivation(t) = IsActivation(u) THEN t < u ELSE ~IsActivation(t)

IsFront(t) ==
    /\ tstate[t] \in OpenStates
    /\ \A u \in Tasks \ {t} : tstate[u] \in OpenStates => Before(t, u)

\* The runner's loop starts over; what it held in memory is dropped.
Rest ==
    /\ pc' = "idle"
    /\ cur' = 1
    /\ seen' = "Absent"
    /\ key' = FirstKey
    /\ step' = NoStep

MoveTo(next) == pc' = next /\ UNCHANGED <<cur, seen, key, step>>

Pick(t) ==
    /\ pc = "idle"
    /\ IsFront(t)
    /\ pc' = "picked"
    /\ cur' = t
    /\ seen' = tstate[t]
    /\ UNCHANGED <<ledger, openers, fruitless, key, step, call, failures>>

\* The lane gave the slot to nobody, or to another job.
SlotRefused ==
    /\ pc = "picked"
    /\ Rest
    /\ UNCHANGED <<ledger, openers, fruitless, call, failures>>

\* advance_long_task reads the steps and decides, with the task as the loop read it.  Planning an
\* activation fails it, which is what giving up does too.
Advance ==
    /\ pc = "picked"
    /\ LET next == NextRun(seen, plan[cur], fruitless[cur], cur \in late)
       IN  \/ /\ next = "Wait"
              /\ Rest
           \/ /\ next = "GiveUp" \/ (next = "Plan" /\ IsActivation(cur))
              /\ MoveTo("givingUp")
           \/ /\ next = "Finish"
              /\ MoveTo("finishing")
           \/ /\ next = "Plan" /\ ~IsActivation(cur)
              /\ MoveTo("planning")
           \/ /\ next = "Do"
              /\ pc' = "starting"
              /\ key' = StepToDo(plan[cur])
              /\ step' = Started(plan[cur][StepToDo(plan[cur])])
              /\ UNCHANGED <<cur, seen>>
    /\ UNCHANGED <<ledger, openers, fruitless, call, failures>>

\* NextRun::GiveUp and NextRun::Finish: a refused move leaves the count of fruitless plans.
EndTask(from, to) ==
    /\ pc = from
    /\ SetTaskState(cur, to)
    /\ fruitless' = IF Refused(cur, to) THEN fruitless ELSE [fruitless EXCEPT ![cur] = 0]
    /\ Rest
    /\ UNCHANGED <<tkind, plan, late, openers, call, failures>>

GiveUp == EndTask("givingUp", "Failed")

Finish == EndTask("finishing", "Completed")

-----------------------------------------------------------------------------
(* The planner's run, and the plan_write call it makes.                    *)

\* plan_write reads the task and its steps and checks the drafts against them.
PlanRead ==
    /\ pc = "planning"
    /\ call = NoCall
    /\ Stored(cur)
    /\ \E drafts \in Drafts :
          /\ tkind[cur] = "quick" => Len(drafts) <= MaxShortSteps
          /\ PlanAccepted(tstate[cur], plan[cur], drafts, Cap(cur))
          /\ call' = [task  |-> cur,
                      kept  |-> Kept(plan[cur]),
                      fresh |-> Replanned(plan[cur], drafts),
                      new   |-> DraftKeys(drafts)]
    /\ UNCHANGED <<ledger, openers, fruitless, runner, failures>>

\* Its write; refused, it leaves the steps as they are.
PlanWrite ==
    /\ call # NoCall
    /\ LET t == call.task
       IN  plan' = IF ReplaceAccepted(t, call.kept, call.new)
                   THEN [plan EXCEPT ![t] = Replaced(plan[t], call.fresh, call.new)]
                   ELSE plan
    /\ call' = NoCall
    /\ UNCHANGED <<tstate, tkind, late, openers, fruitless, runner, failures>>

\* The planner's run ends; the tool call it was making, served by a task of its own, may go on.
PlannerEnds ==
    /\ pc = "planning"
    /\ \/ call = NoCall /\ UNCHANGED overruns
       \/ call # NoCall /\ overruns < MaxOverruns /\ overruns' = overruns + 1
    /\ Rest
    /\ UNCHANGED <<call, faults, crashes>>

\* A household turn stopped the run, or the orchestrator refused it.
PlannerStopped ==
    /\ PlannerEnds
    /\ UNCHANGED <<ledger, openers, fruitless>>

\* The run came back: the runner reads the steps again, lets a planned task run, and counts a
\* plan that leaves nothing to run.
PlannerReturned ==
    /\ PlannerEnds
    /\ LET planned == seen = "Planning" /\ Present(plan[cur]) # {}
           next    == NextRun(seen, plan[cur], 0, cur \in late)
       IN  /\ IF planned THEN SetTaskState(cur, "Running") ELSE UNCHANGED tstate
           /\ fruitless' =
                 IF planned /\ Refused(cur, "Running") THEN fruitless
                 ELSE [fruitless EXCEPT ![cur] =
                          IF planned \/ next \in {"Do", "Finish"} THEN 0
                          ELSE fruitless[cur] + 1]
    /\ UNCHANGED <<tkind, plan, late, openers>>

-----------------------------------------------------------------------------
(* A step's run, its check, and what follows it.                           *)

\* The attempt is in the ledger before the helper starts.
StartStep ==
    /\ pc = "starting"
    /\ UpdateStep(cur, key, step)
    /\ IF StepRefused(cur, key, step) THEN Rest ELSE MoveTo("working")
    /\ UNCHANGED <<tstate, tkind, late, openers, fruitless, call, failures>>

\* Write the settled copy and go on; a refused write ends the run with an error.
Settle(copy, next) ==
    /\ UpdateStep(cur, key, copy)
    /\ IF next = "idle" \/ StepRefused(cur, key, copy) THEN Rest ELSE MoveTo(next)
    /\ UNCHANGED <<tstate, tkind, late, openers, fruitless, call, failures>>

\* Fault: a stopped worker's step is left as it is.
WorkerStoppedUnwritten ==
    /\ pc = "working"
    /\ Rest
    /\ UNCHANGED <<ledger, openers, fruitless, call, failures>>

\* The worker was stopped by a household turn: its attempt is given back.
WorkerStopped ==
    /\ pc = "working"
    /\ Settle(Preempted(step), "idle")

\* It failed, ended with nothing, could not be started, or its role is gone.
WorkerFailed ==
    /\ pc = "working"
    /\ Settle(Settled(step, "Failed"), "idle")

WorkerAsks ==
    /\ pc = "working"
    /\ Settle(Settled(step, "AwaitingApproval"), "parking")

WorkerDone ==
    /\ pc = "working"
    /\ ~step.check
    /\ Settle(Settled(step, "Completed"), "afterHooks")

\* A step with an acceptance sentence is checked by a helper of its own first.
WorkerDoneToCheck ==
    /\ pc = "working"
    /\ step.check
    /\ MoveTo("checking")
    /\ UNCHANGED <<ledger, openers, fruitless, call, failures>>

VerifierStopped ==
    /\ pc = "checking"
    /\ Settle(Preempted(step), "idle")

VerifierFails ==
    /\ pc = "checking"
    /\ Settle(Settled(step, "Failed"), "idle")

VerifierPasses ==
    /\ pc = "checking"
    /\ Settle(Settled(step, "Completed"), "afterHooks")

\* AfterAction::StartTask, or no such hook; a follow-up's steps start no other.
FollowUp ==
    /\ pc = "afterHooks"
    /\ \/ /\ tkind[cur] # "followup"
          /\ \E t \in Tasks : Create(t, "followup", "Planning")
       \/ UNCHANGED <<tstate, tkind>>
    /\ MoveTo("handing")
    /\ UNCHANGED <<plan, late, openers, fruitless, call, failures>>

\* AfterAction::HandTo: one more step, waiting for the one just done; or none, or refused.  Its
\* read of the steps and its write are one step here: while the runner is in its after hooks only
\* a plan_write that outlived its run could come between them.
HandOn ==
    /\ pc = "handing"
    /\ \/ \E k \in HandOffKeys :
             /\ AppendAccepted(seen, plan[cur], k, key, Cap(cur))
             /\ Cardinality(Present(plan[cur]) \cap HandOffKeys) < MaxHandOffs
             /\ Live(cur)
             /\ plan' = [plan EXCEPT ![cur] = Appended(plan[cur], k, key)]
       \/ UNCHANGED plan
    /\ Rest
    /\ UNCHANGED <<tstate, tkind, late, openers, fruitless, call, failures>>

\* The step asked for approval, so its task waits too.
Park ==
    /\ pc = "parking"
    /\ SetTaskState(cur, "AwaitingApproval")
    /\ Rest
    /\ UNCHANGED <<tkind, plan, late, openers, fruitless, call, failures>>

-----------------------------------------------------------------------------
(* Errors and restarts.                                                    *)

\* A ledger call, or the verifier's run, comes back with an error: advance_long_task returns it
\* and the loop goes on to its next tick.  At startup the recovery is left out.
Error ==
    /\ pc \notin {"idle", "planning", "afterHooks", "handing"}
    /\ faults < MaxFaults
    /\ faults' = faults + 1
    /\ Rest
    /\ UNCHANGED <<ledger, openers, fruitless, call, overruns, crashes>>

\* Only the ledger is left.
Crash ==
    /\ crashes < MaxCrashes
    /\ crashes' = crashes + 1
    /\ pc' = "down"
    /\ cur' = 1
    /\ seen' = "Absent"
    /\ key' = FirstKey
    /\ step' = NoStep
    /\ opening' = [t \in Tasks |-> "none"]
    /\ cancelling' = [t \in Tasks |-> "none"]
    /\ fruitless' = [t \in Tasks |-> 0]
    /\ call' = NoCall
    /\ UNCHANGED <<ledger, overruns, faults>>

\* Fault: a step a crash left running is taken for done.
RecoveredAsDone(t) ==
    [k \in Keys |-> IF Live(t) /\ plan[t][k].state = "Running"
                    THEN [plan[t][k] EXCEPT !.state = "Completed"]
                    ELSE plan[t][k]]

\* The runner's start: a step a crash left running reruns, and its attempt is given back.
Recovered(t) ==
    [k \in Keys |-> IF Live(t) /\ plan[t][k].state = "Running"
                    THEN Preempted(plan[t][k])
                    ELSE plan[t][k]]

Recover ==
    /\ pc = "down"
    /\ plan' = [t \in Tasks |-> Recovered(t)]
    /\ Rest
    /\ UNCHANGED <<tstate, tkind, late, openers, fruitless, call, failures>>

-----------------------------------------------------------------------------

RunnerStep ==
    \/ \E t \in Tasks : Pick(t)
    \/ SlotRefused \/ Advance \/ GiveUp \/ Finish
    \/ PlannerStopped \/ PlannerReturned
    \/ StartStep
    \/ WorkerStopped \/ WorkerFailed \/ WorkerAsks \/ WorkerDone \/ WorkerDoneToCheck
    \/ VerifierStopped \/ VerifierFails \/ VerifierPasses
    \/ FollowUp \/ HandOn \/ Park
    \/ Recover

PlannerCall == PlanRead \/ PlanWrite

OpenerStep == \E t \in Tasks : StoreFirstStep(t) \/ SetOpenedRunning(t)

MemberStep ==
    \E t \in Tasks : OpenPlanned(t) \/ OpenPaused(t) \/ CancelRead(t) \/ CancelWrite(t) \/ Delete(t)

Clock == \E t \in Tasks : DeadlinePasses(t)

Next == RunnerStep \/ PlannerCall \/ OpenerStep \/ MemberStep \/ Clock \/ Error \/ Crash

Spec == Init /\ [][Next]_vars

\* The loop is a task of its own and each helper run ends (a turn budget bounds it); clocks advance;
\* an opener finishes what it began.  Nothing is assumed of members, of the household, of errors or
\* of the lane, which may refuse the runner for ever.
Fairness ==
    /\ WF_vars(RunnerStep)
    /\ WF_vars(PlanWrite)
    /\ WF_vars(OpenerStep)
    /\ \A t \in Tasks : WF_vars(DeadlinePasses(t))

FairSpec == Spec /\ Fairness

-----------------------------------------------------------------------------
(* Safety.                                                                 *)

\* Every variable has its type.
TypeOK ==
    /\ tstate \in [Tasks -> TaskStates \cup {"Absent", "Deleted"}]
    /\ tkind \in [Tasks -> TaskKinds]
    /\ plan \in [Tasks -> Plan]
    /\ late \subseteq Tasks
    /\ opening \in [Tasks -> {"none", "created", "stored"}]
    /\ cancelling \in [Tasks -> TaskStates \cup {"none"}]
    /\ fruitless \in [Tasks -> Nat]
    /\ pc \in RunnerStates
    /\ cur \in Tasks
    /\ seen \in TaskStates \cup {"Absent"}
    /\ key \in Keys
    /\ step \in Step
    /\ call \in Call
    /\ overruns \in 0..MaxOverruns
    /\ faults \in 0..MaxFaults
    /\ crashes \in 0..MaxCrashes

\* The count of attempts a step row keeps never passes MAX_STEP_ATTEMPTS, however its runs are
\* stopped, retried and recovered, and a step waiting to run always has a try left.  A stop and a
\* recovery give an attempt back, so it bounds the tries that failed, not how often a step begins.
AttemptsBounded ==
    \A t \in Tasks, k \in Keys :
        /\ plan[t][k].attempts <= MaxAttempts
        /\ plan[t][k].state = "Pending" => plan[t][k].attempts < MaxAttempts

\* A step that has ever been begun and is still in the ledger had every wait completed: no replan,
\* hand-off, retry or restart takes a finished input away from under it (as long as no plan_write
\* outlived its run, which can change a step's waits between the runner's read and its start).
Begun(s) == s.state \in {"Running", "Completed", "Failed", "AwaitingApproval"}

DepsDone ==
    overruns = 0 =>
        \A t \in Tasks, k \in Keys :
            Begun(plan[t][k]) => \A d \in plan[t][k].waits : plan[t][d].state = "Completed"

\* Every plan in the ledger can be walked: each wait is for a step that is there, no steps wait in
\* a circle, the order is unambiguous and the step budget is kept, through every sequence of
\* replans and hand-offs (as long as no plan_write outlived its run).
WaitsPresent(p) == \A k \in Present(p) : p[k].waits \subseteq Present(p)

PlanSound ==
    overruns = 0 =>
        \A t \in Tasks :
            /\ WaitsPresent(plan[t])
            /\ Acyclic(plan[t], Present(plan[t]))
            /\ Cardinality(Present(plan[t])) <= Cap(t)
            /\ \A j, k \in Present(plan[t]) : plan[t][j].ordinal = plan[t][k].ordinal => j = k

\* Between runs, with no error and no crash so far, an open task always has something to do: the
\* runner's Wait is only ever for a task that is paused, parked or over.
NeverStuck ==
    (pc = "idle" /\ overruns = 0 /\ faults = 0 /\ crashes = 0) =>
        \A t \in Tasks :
            tstate[t] \in OpenStates =>
                NextRun(tstate[t], plan[t], fruitless[t], t \in late) # "Wait"

\* A step the ledger calls Running is the one the runner is working on: one at a time, and none
\* left behind by a stop, a cancel or a restart once the runner is up (with no ledger error).
RunningHasARunner ==
    (faults = 0 /\ pc # "down") =>
        \A t \in Tasks, k \in Keys :
            (plan[t][k].state = "Running" /\ Live(t)) =>
                pc \in {"working", "checking"} /\ cur = t /\ key = k

\* A task is told done only when every step it has is completed or skipped, although the runner
\* decides it from one read of the steps and writes it in a later call (as long as no plan_write
\* outlived its run).
CompletedMeansSettled ==
    overruns = 0 =>
        \A t \in Tasks, k \in Keys :
            tstate[t] = "Completed" => plan[t][k].state \in {"Absent", "Completed", "Skipped"}

\* A short answer or an activation the runner can see has its step, so the planner is never asked
\* to plan it from nothing.
OpenedWithItsStep ==
    \A t \in Tasks :
        (tkind[t] \in {"quick", "activation"} /\ tstate[t] \in OpenStates) => Present(plan[t]) # {}

-----------------------------------------------------------------------------
(* What a step may never do.                                               *)

\* A finished task never moves again, whatever was decided from an older read of it; it can only
\* be deleted.
FinishedStays ==
    \A t \in Tasks :
        tstate[t] \in TerminalStates => tstate'[t] \in {tstate[t], "Deleted"}

FinishedForever == [][FinishedStays]_vars

\* A completed step is never rewritten or dropped, by a replan checked against older steps, a
\* recovery or a late update, unless its task is deleted.
CompletedStays ==
    \A t \in Tasks, k \in Keys :
        plan[t][k].state = "Completed" => plan'[t][k] = plan[t][k] \/ tstate'[t] = "Deleted"

HistoryKept == [][CompletedStays]_vars

-----------------------------------------------------------------------------
(* Liveness.                                                               *)

\* The lane that refuses the runner again and again also grants it again and again.
LaneKeepsGranting == []<><<SlotRefused>>_vars => []<><<Advance>>_vars

\* As long as the lane keeps granting, an activation that runs ends or parks, unless a member's task
\* is ahead of it: its deadline ends what preemptions, errors and stuck steps would keep open.
ActivationEnds ==
    LaneKeepsGranting =>
        \A t \in Tasks :
            (IsActivation(t) /\ tstate[t] = "Running") ~>
                \/ tstate[t] \notin OpenStates
                \/ \E u \in Tasks : tstate[u] \in OpenStates /\ ~IsActivation(u)

-----------------------------------------------------------------------------
(* What comments and replies of the program say, and the code does not do. *)

\* task_cancel's reply, "Nothing more will run for it.": no step of a cancelled task is begun.
CancelledStartsNothing ==
    \A t \in Tasks, k \in Keys :
        (tstate[t] = "Cancelled" /\ plan[t][k].state # "Running") => plan'[t][k].state # "Running"

NothingMoreRuns == [][CancelledStartsNothing]_vars

\* NextRun::Wait, "Nothing to run until somebody acts (paused, awaiting approval, or finished).":
\* an open task never waits between runs.
WaitIsExplained ==
    pc = "idle" =>
        \A t \in Tasks :
            tstate[t] \in OpenStates =>
                NextRun(tstate[t], plan[t], fruitless[t], t \in late) # "Wait"

\* queue, "Paused until its step is stored, so the runner never plans it; cancelled if that
\* fails.": a paused task has an opener that is about to move it on.
PausedIsOpening == \A t \in Tasks : tstate[t] = "Paused" => opening[t] # "none"
=============================================================================
