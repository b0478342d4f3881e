-------------------------- MODULE LongTasksProofs --------------------------
(***************************************************************************)
(* Theorems about LongTasks, for every number of tasks, set of keys, set   *)
(* of plans a planner may write and number of errors and crashes.          *)
(***************************************************************************)
EXTENDS TaskRefinement, LongTaskPlanProofs

-----------------------------------------------------------------------------
(* What the ledger calls and the runner's moves do to the types.           *)

\* set_task_state leaves every task in a state.
LEMMA SetTaskStateType ==
  ASSUME TypeOK, NEW t \in Tasks, NEW to \in TaskStates, SetTaskState(t, to)
  PROVE  tstate' \in [Tasks -> TaskStates \cup {"Absent", "Deleted"}]
BY DEF TypeOK, SetTaskState

\* update_step leaves a plan a plan.
LEMMA UpdateStepType ==
  ASSUME TypeOK, NEW t \in Tasks, NEW k \in Keys, NEW copy \in Step, UpdateStep(t, k, copy)
  PROVE  plan' \in [Tasks -> Plan]
<1>1. plan[t] \in Plan /\ plan[t][k] \in Step
  BY DEF TypeOK, Plan
<1>2. copy.state \in StepStates \cup {"Absent"} /\ copy.attempts \in Nat
  BY DEF Step
<1>3. [plan[t][k] EXCEPT !.state = copy.state, !.attempts = copy.attempts] \in Step
  BY <1>1, <1>2 DEF Step
<1>4. [plan EXCEPT ![t][k].state = copy.state, ![t][k].attempts = copy.attempts]
        \in [Tasks -> Plan]
  BY <1>1, <1>3 DEF TypeOK, Plan
<1> QED
  BY <1>4 DEF TypeOK, UpdateStep

\* The loop's start is a state of the runner.
LEMMA RestType ==
  ASSUME Rest
  PROVE  /\ pc' \in RunnerStates
         /\ cur' \in Tasks
         /\ seen' \in TaskStates \cup {"Absent"}
         /\ key' \in Keys
         /\ step' \in Step
BY TaskAssumption DEF Rest, RunnerStates, Tasks, NoStep, Step, StepStates

\* A move within advance_long_task keeps what the runner holds.
LEMMA MoveToType ==
  ASSUME TypeOK, NEW next \in RunnerStates, MoveTo(next)
  PROVE  /\ pc' \in RunnerStates
         /\ cur' \in Tasks
         /\ seen' \in TaskStates \cup {"Absent"}
         /\ key' \in Keys
         /\ step' \in Step
BY DEF TypeOK, MoveTo

\* No plan_write under way is a value of call.
LEMMA NoCallType == NoCall \in Call
BY NoPlanType DEF NoCall, Call

\* create_task gives its row a state and a kind.
LEMMA CreateType ==
  ASSUME TypeOK, NEW t \in Tasks, NEW kind \in TaskKinds, NEW state \in TaskStates,
         Create(t, kind, state)
  PROVE  /\ tstate' \in [Tasks -> TaskStates \cup {"Absent", "Deleted"}]
         /\ tkind' \in [Tasks -> TaskKinds]
BY DEF TypeOK, Create

\* The one-step plan of a short answer or an activation is a plan.
LEMMA OneStepType == OneStep \in Seq(Draft) /\ Replanned(NoPlan, OneStep) \in Plan
<1>1. [key |-> FirstKey, waits |-> {}, check |-> FALSE] \in Draft
  BY TaskAssumption DEF Draft
<1>2. OneStep \in Seq(Draft)
  BY <1>1 DEF OneStep
<1> QED
  BY <1>2, NoPlanType, ReplannedType

\* Types in the initial state.
LEMMA TypeInit == Init => TypeOK
BY NoPlanType, NoCallType, TaskAssumption
   DEF Init, TypeOK, Tasks, TaskKinds, RunnerStates, NoStep, Step, StepStates

-----------------------------------------------------------------------------
(* Types are kept by every step.                                           *)

\* Opening, cancelling and deleting keep the types.
LEMMA TypeMembers ==
  ASSUME TypeOK, MemberStep
  PROVE  TypeOK'
<1>1. PICK t \in Tasks :
         OpenPlanned(t) \/ OpenPaused(t) \/ CancelRead(t) \/ CancelWrite(t) \/ Delete(t)
  BY DEF MemberStep
<1>2. CASE OpenPlanned(t)
  BY <1>2, CreateType
     DEF OpenPlanned, TypeOK, TaskKinds, TaskStates, OpenStates, openers, runner, failures
<1>3. CASE OpenPaused(t)
  <2>1. PICK kind \in Kinds \ {"planned"} : Create(t, kind, "Paused")
    BY <1>3 DEF OpenPaused
  <2>2. kind \in TaskKinds /\ "Paused" \in TaskStates
    BY TaskAssumption DEF TaskKinds, TaskStates
  <2>3. /\ tstate' \in [Tasks -> TaskStates \cup {"Absent", "Deleted"}]
        /\ tkind' \in [Tasks -> TaskKinds]
    BY <2>1, <2>2, CreateType
  <2> QED
    BY <1>3, <2>3 DEF OpenPaused, TypeOK, runner, failures
<1>4. CASE CancelRead(t)
  BY <1>4 DEF CancelRead, Live, TypeOK, ledger, runner, failures
<1>5. CASE CancelWrite(t)
  BY <1>5 DEF CancelWrite, TypeOK, TaskStates, TerminalStates, runner, failures
<1>6. CASE Delete(t)
  BY <1>6, NoPlanType DEF Delete, TypeOK, openers, runner, failures
<1> QED
  BY <1>1, <1>2, <1>3, <1>4, <1>5, <1>6

\* So do an opener's store of its step and its move to Running.
LEMMA TypeOpeners ==
  ASSUME TypeOK, OpenerStep
  PROVE  TypeOK'
<1>1. PICK t \in Tasks : StoreFirstStep(t) \/ SetOpenedRunning(t)
  BY DEF OpenerStep
<1>2. "Cancelled" \in TaskStates /\ "Running" \in TaskStates
  BY DEF TaskStates, TerminalStates, OpenStates
<1>3. CASE StoreFirstStep(t)
  <2>1. tstate' \in [Tasks -> TaskStates \cup {"Absent", "Deleted"}]
    <3>1. CASE OpenerCancels(t)
      BY <1>2, <3>1, SetTaskStateType DEF OpenerCancels
    <3>2. CASE UNCHANGED tstate
      BY <3>2 DEF TypeOK
    <3> QED
      BY <1>3, <3>1, <3>2 DEF StoreFirstStep
  <2>2. plan' \in [Tasks -> Plan]
    <3>1. plan[t] \in Plan
      BY DEF TypeOK
    <3>2. Replaced(plan[t], Replanned(NoPlan, OneStep), {FirstKey}) \in Plan
      BY <3>1, OneStepType, ReplacedType
    <3> QED
      BY <1>3, <3>2 DEF StoreFirstStep, TypeOK
  <2>3. opening' \in [Tasks -> {"none", "created", "stored"}]
    BY <1>3 DEF StoreFirstStep, OpenerCancels, TypeOK
  <2>4. faults' \in 0..MaxFaults
    BY <1>3, TaskAssumption DEF StoreFirstStep, TypeOK
  <2> QED
    BY <1>3, <2>1, <2>2, <2>3, <2>4 DEF StoreFirstStep, TypeOK, runner
<1>4. CASE SetOpenedRunning(t)
  <2>1. tstate' \in [Tasks -> TaskStates \cup {"Absent", "Deleted"}]
    BY <1>2, <1>4, SetTaskStateType DEF SetOpenedRunning
  <2>2. faults' \in 0..MaxFaults
    BY <1>4, TaskAssumption DEF SetOpenedRunning, TypeOK
  <2> QED
    BY <1>4, <2>1, <2>2 DEF SetOpenedRunning, TypeOK, runner
<1> QED
  BY <1>1, <1>3, <1>4

\* So do plan_write's read and its write.
LEMMA TypePlannerCall ==
  ASSUME TypeOK, PlannerCall
  PROVE  TypeOK'
<1>1. cur \in Tasks /\ plan[cur] \in Plan
  BY DEF TypeOK
<1>2. CASE PlanRead
  <2>1. PICK drafts \in Drafts :
           call' = [task |-> cur, kept |-> Kept(plan[cur]),
                    fresh |-> Replanned(plan[cur], drafts), new |-> DraftKeys(drafts)]
    BY <1>2 DEF PlanRead
  <2>2. drafts \in Seq(Draft)
    BY TaskAssumption
  <2>3. Replanned(plan[cur], drafts) \in Plan
    BY <1>1, <2>2, ReplannedType
  <2>4. DraftKeys(drafts) \subseteq Keys
    <3>1. \A j \in 1..Len(drafts) : drafts[j] \in Draft
      BY <2>2
    <3> QED
      BY <2>2, <3>1 DEF DraftKeys, Draft
  <2>5. Kept(plan[cur]) \subseteq Keys
    BY DEF Kept
  <2>6. call' \in Call
    BY <1>1, <2>1, <2>3, <2>4, <2>5 DEF Call
  <2> QED
    BY <1>2, <2>6 DEF PlanRead, TypeOK, ledger, openers, runner, failures
<1>3. CASE PlanWrite
  <2> DEFINE t == call.task
  <2>1. call.fresh \in Plan /\ call.task \in Tasks \cup {0}
    BY DEF TypeOK, Call
  <2>2. ASSUME ReplaceAccepted(t, call.kept, call.new)
        PROVE  plan' \in [Tasks -> Plan]
    <3>1. CASE t \in Tasks
      <4>1. plan[t] \in Plan
        BY <3>1 DEF TypeOK
      <4>2. Replaced(plan[t], call.fresh, call.new) \in Plan
        BY <2>1, <4>1, ReplacedType
      <4> QED
        BY <1>3, <2>2, <3>1, <4>2 DEF PlanWrite, TypeOK
    <3>2. CASE t \notin Tasks
      BY <1>3, <2>2, <3>2 DEF PlanWrite, TypeOK
    <3> QED
      BY <3>1, <3>2
  <2>3. plan' \in [Tasks -> Plan]
    BY <1>3, <2>2 DEF PlanWrite, TypeOK
  <2>4. call' \in Call
    BY <1>3, NoCallType DEF PlanWrite
  <2> QED
    BY <1>3, <2>3, <2>4 DEF PlanWrite, TypeOK, openers, runner, failures
<1> QED
  BY <1>2, <1>3 DEF PlannerCall

\* A step's run that ends by writing the runner's copy and going on.
LEMMA TypeSettle ==
  ASSUME TypeOK, NEW copy \in Step, NEW next \in RunnerStates, Settle(copy, next)
  PROVE  TypeOK'
<1>1. plan' \in [Tasks -> Plan]
  BY UpdateStepType DEF Settle, TypeOK
<1>2. /\ pc' \in RunnerStates
      /\ cur' \in Tasks
      /\ seen' \in TaskStates \cup {"Absent"}
      /\ key' \in Keys
      /\ step' \in Step
  BY RestType, MoveToType DEF Settle
<1> QED
  BY <1>1, <1>2 DEF Settle, TypeOK, openers, failures

\* So does every step of the runner's loop.
LEMMA TypeRunner ==
  ASSUME TypeOK, RunnerStep
  PROVE  TypeOK'
<1>0. /\ cur \in Tasks
      /\ plan[cur] \in Plan
      /\ step \in Step
      /\ {"Completed", "Failed", "AwaitingApproval"} \subseteq StepStates
      /\ {"Completed", "Failed", "AwaitingApproval", "Running", "Planning"} \subseteq TaskStates
      /\ {"idle", "parking", "afterHooks", "checking", "working", "handing"} \subseteq RunnerStates
  BY DEF TypeOK, StepStates, TaskStates, TerminalStates, OpenStates, RunnerStates
<1>1. ASSUME NEW t \in Tasks, Pick(t) PROVE TypeOK'
  BY <1>1 DEF Pick, IsFront, TypeOK, TaskStates, RunnerStates, ledger, openers, failures
<1>2. CASE SlotRefused
  BY <1>2, RestType DEF SlotRefused, TypeOK, ledger, openers, failures
<1>3. CASE Advance
  <2>1. /\ pc' \in RunnerStates
        /\ cur' \in Tasks
        /\ seen' \in TaskStates \cup {"Absent"}
        /\ key' \in Keys
        /\ step' \in Step
    <3> DEFINE next == NextRun(seen, plan[cur], fruitless[cur], cur \in late)
               todo == StepToDo(plan[cur])
    <3>1. CASE Rest
      BY <3>1, RestType
    <3>2. CASE MoveTo("givingUp") \/ MoveTo("finishing") \/ MoveTo("planning")
      BY <3>2, MoveToType DEF RunnerStates
    <3>3. CASE /\ next = "Do"
               /\ pc' = "starting"
               /\ key' = todo
               /\ step' = Started(plan[cur][todo])
               /\ UNCHANGED <<cur, seen>>
      <4>1. todo \in Keys
        <5>1. todo \in Retryable(plan[cur]) \cup Ready(plan[cur])
          BY <1>0, <3>3, StepToDoIsRunnable
        <5> QED
          BY <5>1 DEF Retryable, Ready
      <4>2. Started(plan[cur][todo]) \in Step
        BY <1>0, <4>1, StartedType DEF Plan
      <4> QED
        BY <3>3, <4>1, <4>2 DEF TypeOK, RunnerStates
    <3> QED
      BY <1>3, <3>1, <3>2, <3>3 DEF Advance
  <2> QED
    BY <1>3, <2>1 DEF Advance, TypeOK, ledger, openers, failures
<1>4. ASSUME NEW from, NEW to \in TaskStates, EndTask(from, to) PROVE TypeOK'
  <2>1. tstate' \in [Tasks -> TaskStates \cup {"Absent", "Deleted"}]
    BY <1>0, <1>4, SetTaskStateType DEF EndTask
  <2>2. fruitless' \in [Tasks -> Nat]
    BY <1>4 DEF EndTask, TypeOK
  <2> QED
    BY <1>4, <2>1, <2>2, RestType DEF EndTask, TypeOK, openers, failures
<1>5. CASE GiveUp \/ Finish
  BY <1>0, <1>4, <1>5 DEF GiveUp, Finish
<1>6. ASSUME PlannerEnds
      PROVE  overruns' \in 0..MaxOverruns
  BY <1>6, TaskAssumption DEF PlannerEnds, TypeOK
<1>7. CASE PlannerStopped
  BY <1>6, <1>7, RestType DEF PlannerStopped, PlannerEnds, TypeOK, ledger, openers
<1>8. CASE PlannerReturned
  <2>1. tstate' \in [Tasks -> TaskStates \cup {"Absent", "Deleted"}]
    <3>1. CASE SetTaskState(cur, "Running")
      BY <1>0, <3>1, SetTaskStateType
    <3>2. CASE UNCHANGED tstate
      BY <3>2 DEF TypeOK
    <3> QED
      BY <1>8, <3>1, <3>2 DEF PlannerReturned
  <2>2. fruitless' \in [Tasks -> Nat]
    <3>1. fruitless[cur] + 1 \in Nat
      BY <1>0 DEF TypeOK
    <3>2. fruitless' = fruitless \/ \E n \in Nat : fruitless' = [fruitless EXCEPT ![cur] = n]
      BY <1>8, <3>1 DEF PlannerReturned
    <3> QED
      BY <3>2 DEF TypeOK
  <2> QED
    BY <1>6, <1>8, <2>1, <2>2, RestType DEF PlannerReturned, PlannerEnds, TypeOK, openers
<1>9. CASE StartStep
  <2>1. plan' \in [Tasks -> Plan]
    BY <1>0, <1>9, UpdateStepType DEF StartStep, TypeOK
  <2>2. /\ pc' \in RunnerStates
        /\ cur' \in Tasks
        /\ seen' \in TaskStates \cup {"Absent"}
        /\ key' \in Keys
        /\ step' \in Step
    BY <1>0, <1>9, RestType, MoveToType DEF StartStep
  <2> QED
    BY <1>9, <2>1, <2>2 DEF StartStep, TypeOK, openers, failures
<1>10. CASE WorkerStopped \/ VerifierStopped
  BY <1>0, <1>10, PreemptedType, TypeSettle DEF WorkerStopped, VerifierStopped
<1>11. CASE WorkerFailed \/ VerifierFails
  BY <1>0, <1>11, SettledType, TypeSettle DEF WorkerFailed, VerifierFails
<1>12. CASE WorkerAsks
  BY <1>0, <1>12, SettledType, TypeSettle DEF WorkerAsks
<1>13. CASE WorkerDone \/ VerifierPasses
  BY <1>0, <1>13, SettledType, TypeSettle DEF WorkerDone, VerifierPasses
<1>14. CASE WorkerDoneToCheck
  BY <1>0, <1>14, MoveToType DEF WorkerDoneToCheck, TypeOK, ledger, openers, failures
<1>15. CASE FollowUp
  <2>1. /\ tstate' \in [Tasks -> TaskStates \cup {"Absent", "Deleted"}]
        /\ tkind' \in [Tasks -> TaskKinds]
    <3>1. CASE \E t \in Tasks : Create(t, "followup", "Planning")
      BY <1>0, <3>1, CreateType DEF TaskKinds
    <3>2. CASE UNCHANGED <<tstate, tkind>>
      BY <3>2 DEF TypeOK
    <3> QED
      BY <1>15, <3>1, <3>2 DEF FollowUp
  <2>2. /\ pc' \in RunnerStates
        /\ cur' \in Tasks
        /\ seen' \in TaskStates \cup {"Absent"}
        /\ key' \in Keys
        /\ step' \in Step
    BY <1>0, <1>15, MoveToType DEF FollowUp
  <2> QED
    BY <1>15, <2>1, <2>2 DEF FollowUp, TypeOK, openers, failures
<1>16. CASE HandOn
  <2>1. plan' \in [Tasks -> Plan]
    <3>1. ASSUME NEW k \in HandOffKeys, plan' = [plan EXCEPT ![cur] = Appended(plan[cur], k, key)]
          PROVE  plan' \in [Tasks -> Plan]
      <4>1. k \in Keys /\ key \in Keys
        BY TaskAssumption DEF TypeOK
      <4>2. Appended(plan[cur], k, key) \in Plan
        BY <1>0, <4>1, AppendedType
      <4> QED
        BY <3>1, <4>2 DEF TypeOK
    <3>2. CASE UNCHANGED plan
      BY <3>2 DEF TypeOK
    <3> QED
      BY <1>16, <3>1, <3>2 DEF HandOn
  <2> QED
    BY <1>16, <2>1, RestType DEF HandOn, TypeOK, openers, failures
<1>17. CASE Park
  <2>1. tstate' \in [Tasks -> TaskStates \cup {"Absent", "Deleted"}]
    BY <1>0, <1>17, SetTaskStateType DEF Park
  <2> QED
    BY <1>17, <2>1, RestType DEF Park, TypeOK, openers, failures
<1>18. CASE Recover
  <2>1. ASSUME NEW t \in Tasks PROVE Recovered(t) \in Plan
    <3>1. \A k \in Keys : plan[t][k] \in Step
      BY DEF TypeOK, Plan
    <3> QED
      BY <3>1, PreemptedType DEF Recovered, Plan
  <2>2. plan' \in [Tasks -> Plan]
    BY <1>18, <2>1 DEF Recover
  <2> QED
    BY <1>18, <2>2, RestType DEF Recover, TypeOK, openers, failures
<1> QED
  BY <1>1, <1>2, <1>3, <1>5, <1>7, <1>8, <1>9, <1>10, <1>11, <1>12, <1>13, <1>14, <1>15, <1>16,
     <1>17, <1>18 DEF RunnerStep

\* So do a deadline, an error and a crash.
LEMMA TypeFailures ==
  ASSUME TypeOK, Clock \/ Error \/ Crash
  PROVE  TypeOK'
<1>1. CASE Clock
  BY <1>1 DEF Clock, DeadlinePasses, TypeOK, openers, runner, failures
<1>2. CASE Error
  <2>1. faults' \in 0..MaxFaults
    BY <1>2, TaskAssumption DEF Error, TypeOK
  <2> QED
    BY <1>2, <2>1, RestType DEF Error, TypeOK, ledger, openers
<1>3. CASE Crash
  <2>1. crashes' \in 0..MaxCrashes
    BY <1>3, TaskAssumption DEF Crash, TypeOK
  <2>2. NoStep \in Step /\ 1 \in Tasks
    BY TaskAssumption DEF NoStep, Step, StepStates, Tasks
  <2> QED
    BY <1>3, <2>1, <2>2, NoCallType, TaskAssumption DEF Crash, TypeOK, ledger, RunnerStates
<1> QED
  BY <1>1, <1>2, <1>3

\* TypeOK is inductive.
LEMMA TypeNext ==
  ASSUME TypeOK, [Next]_vars
  PROVE  TypeOK'
<1>1. CASE UNCHANGED vars
  BY <1>1 DEF vars, ledger, openers, runner, failures, TypeOK
<1> QED
  BY <1>1, TypeMembers, TypeOpeners, TypePlannerCall, TypeRunner, TypeFailures DEF Next

\* Every variable keeps its type, in every behaviour of the ledger, the runner and their failures.
THEOREM TypesHold == Spec => []TypeOK
BY TypeInit, TypeNext, PTL DEF Spec

-----------------------------------------------------------------------------
(* Who writes the step rows, and the task rows.                            *)

\* The runner's copy of a step when its run has ended.
RunEnds ==
  /\ pc \in {"working", "checking"}
  /\ \E copy \in {Preempted(step), Settled(step, "Failed"), Settled(step, "AwaitingApproval"),
                  Settled(step, "Completed")} :
        \E next \in {"idle", "parking", "afterHooks"} : Settle(copy, next)

\* The operations that write step rows; every other step leaves them alone.
LEMMA WhoWritesSteps ==
  ASSUME [Next]_vars
  PROVE  \/ UNCHANGED plan
         \/ \E t \in Tasks : StoreFirstStep(t)
         \/ \E t \in Tasks : Delete(t)
         \/ PlanWrite
         \/ StartStep
         \/ RunEnds
         \/ HandOn
         \/ Recover
<1>1. CASE UNCHANGED vars
  BY <1>1 DEF vars, ledger
<1>2. CASE MemberStep
  BY <1>2 DEF MemberStep, OpenPlanned, OpenPaused, CancelRead, CancelWrite, ledger
<1>3. CASE OpenerStep
  BY <1>3 DEF OpenerStep, SetOpenedRunning
<1>4. CASE PlannerCall
  BY <1>4 DEF PlannerCall, PlanRead, ledger
<1>5. CASE Clock \/ Error \/ Crash
  BY <1>5 DEF Clock, DeadlinePasses, Error, Crash, ledger
<1>6. CASE RunnerStep
  <2>2. CASE \/ WorkerStopped \/ WorkerFailed \/ WorkerAsks \/ WorkerDone
             \/ VerifierStopped \/ VerifierFails \/ VerifierPasses
    BY <2>2 DEF RunEnds, WorkerStopped, WorkerFailed, WorkerAsks, WorkerDone, VerifierStopped,
                VerifierFails, VerifierPasses
  <2>3. CASE \/ \E t \in Tasks : Pick(t)
             \/ SlotRefused \/ Advance \/ GiveUp \/ Finish \/ PlannerStopped \/ PlannerReturned
             \/ WorkerDoneToCheck \/ FollowUp \/ Park
    BY <2>3 DEF Pick, SlotRefused, Advance, GiveUp, Finish, EndTask, PlannerStopped,
                PlannerReturned, WorkerDoneToCheck, FollowUp, Park, ledger
  <2> QED
    BY <1>6, <2>2, <2>3 DEF RunnerStep
<1> QED
  BY <1>1, <1>2, <1>3, <1>4, <1>5, <1>6 DEF Next

\* Who moves the runner.
LEMMA RunnerMoves ==
  ASSUME [Next]_vars
  PROVE  \/ UNCHANGED <<pc, cur, key, step>>
         \/ \E t \in Tasks : Pick(t)
         \/ Rest
         \/ Advance \/ StartStep \/ RunEnds \/ WorkerDoneToCheck \/ FollowUp \/ Crash
<1>1. CASE RunnerStep
  <2>2. CASE \/ WorkerStopped \/ WorkerFailed \/ WorkerAsks \/ WorkerDone
             \/ VerifierStopped \/ VerifierFails \/ VerifierPasses
    BY <2>2 DEF RunEnds, WorkerStopped, WorkerFailed, WorkerAsks, WorkerDone, VerifierStopped,
                VerifierFails, VerifierPasses
  <2>3. CASE \/ SlotRefused \/ GiveUp \/ Finish \/ PlannerStopped \/ PlannerReturned \/ HandOn
             \/ Park \/ Recover
    BY <2>3 DEF SlotRefused, GiveUp, Finish, EndTask, PlannerStopped, PlannerReturned,
                PlannerEnds, HandOn, Park, Recover
  <2> QED
    BY <1>1, <2>2, <2>3 DEF RunnerStep
<1>2. CASE MemberStep \/ OpenerStep \/ PlannerCall \/ Clock \/ UNCHANGED vars
  BY <1>2 DEF MemberStep, OpenPlanned, OpenPaused, CancelRead, CancelWrite, Delete, OpenerStep,
              StoreFirstStep, SetOpenedRunning, PlannerCall, PlanRead, PlanWrite, Clock,
              DeadlinePasses, vars, runner
<1>3. CASE Error \/ Crash
  BY <1>3 DEF Error
<1> QED
  BY <1>1, <1>2, <1>3 DEF Next

\* Task rows: everyone but the member, the admin and create_task goes through set_task_state.
LEMMA WhoWritesTasks ==
  ASSUME TypeOK, [Next]_vars
  PROVE  \/ UNCHANGED tstate
         \/ \E t \in Tasks, to \in TaskStates : SetTaskState(t, to)
         \/ \E t \in Tasks, kind \in TaskKinds, state \in TaskStates : Create(t, kind, state)
         \/ \E t \in Tasks : CancelWrite(t)
         \/ \E t \in Tasks : Delete(t)
<1>0. TaskStates = {"Planning", "Running", "AwaitingApproval", "Paused", "Completed", "Failed",
                    "Cancelled"}
  BY DEF TaskStates, OpenStates, TerminalStates
<1>1. CASE UNCHANGED vars
  BY <1>1 DEF vars, ledger
<1>2. CASE MemberStep
  <2>1. Kinds \subseteq TaskKinds /\ "planned" \in TaskKinds
    BY TaskAssumption DEF TaskKinds
  <2> QED
    BY <1>0, <1>2, <2>1 DEF MemberStep, OpenPlanned, OpenPaused, CancelRead, ledger
<1>3. CASE OpenerStep
  BY <1>0, <1>3 DEF OpenerStep, StoreFirstStep, SetOpenedRunning, OpenerCancels
<1>4. CASE PlannerCall
  BY <1>4 DEF PlannerCall, PlanRead, PlanWrite, ledger
<1>5. CASE Clock \/ Error \/ Crash
  BY <1>5 DEF Clock, DeadlinePasses, Error, Crash, ledger
<1>6. CASE RunnerStep
  <2>1. CASE GiveUp \/ Finish \/ PlannerReturned \/ Park
    BY <1>0, <2>1 DEF GiveUp, Finish, EndTask, PlannerReturned, Park, TypeOK
  <2>2. CASE FollowUp
    BY <1>0, <2>2 DEF FollowUp, TaskKinds
  <2>3. CASE \/ \E t \in Tasks : Pick(t)
             \/ SlotRefused \/ Advance \/ PlannerStopped \/ StartStep \/ WorkerDoneToCheck
             \/ HandOn \/ Recover
    BY <2>3 DEF Pick, SlotRefused, Advance, PlannerStopped, StartStep, WorkerDoneToCheck, HandOn,
                Recover, ledger
  <2>4. CASE \/ WorkerStopped \/ WorkerFailed \/ WorkerAsks \/ WorkerDone
             \/ VerifierStopped \/ VerifierFails \/ VerifierPasses
    BY <2>4 DEF WorkerStopped, WorkerFailed, WorkerAsks, WorkerDone, VerifierStopped,
                VerifierFails, VerifierPasses, Settle
  <2> QED
    BY <1>6, <2>1, <2>2, <2>3, <2>4 DEF RunnerStep
<1> QED
  BY <1>1, <1>2, <1>3, <1>4, <1>5, <1>6 DEF Next

-----------------------------------------------------------------------------
(* A finished task stays finished.                                         *)

\* A cancel under way has read a task that was not finished.
CancelsLiveTasks == \A t \in Tasks : cancelling[t] \notin TerminalStates

\* cancel reads only tasks that are not finished.
LEMMA CancelsLiveTasksNext ==
  ASSUME TypeOK, CancelsLiveTasks, [Next]_vars
  PROVE  CancelsLiveTasks'
<1>1. \/ UNCHANGED cancelling
      \/ \E t \in Tasks : CancelRead(t) \/ CancelWrite(t)
      \/ Crash
  BY DEF Next, vars, MemberStep, OpenerStep, PlannerCall, RunnerStep, Clock, Error, openers,
         OpenPlanned, OpenPaused, Delete, StoreFirstStep, SetOpenedRunning, PlanRead, PlanWrite,
         DeadlinePasses, Pick, SlotRefused, Advance, GiveUp, Finish, EndTask, PlannerStopped,
         PlannerReturned, StartStep, Settle, WorkerStopped, WorkerFailed, WorkerAsks, WorkerDone,
         WorkerDoneToCheck, VerifierStopped, VerifierFails, VerifierPasses, FollowUp, HandOn, Park,
         Recover
<1>2. CASE UNCHANGED cancelling
  BY <1>2 DEF CancelsLiveTasks
<1>3. ASSUME NEW t \in Tasks, CancelRead(t) PROVE CancelsLiveTasks'
  BY <1>3 DEF CancelRead, Live, CancelsLiveTasks, TypeOK
<1>4. ASSUME NEW t \in Tasks, CancelWrite(t) PROVE CancelsLiveTasks'
  BY <1>4 DEF CancelWrite, CancelsLiveTasks, TypeOK, TerminalStates
<1>5. CASE Crash
  BY <1>5 DEF Crash, CancelsLiveTasks, TerminalStates
<1> QED
  BY <1>1, <1>2, <1>3, <1>4, <1>5

\* No operation moves a finished task, except to delete it.
LEMMA FinishedStaysNext ==
  ASSUME TypeOK, CancelsLiveTasks, [Next]_vars
  PROVE  FinishedStays
<1>1. CASE UNCHANGED tstate
  BY <1>1 DEF FinishedStays
<1>2. ASSUME NEW t \in Tasks, NEW to \in TaskStates, SetTaskState(t, to) PROVE FinishedStays
  BY <1>2 DEF SetTaskState, FinishedStays, TaskCanBecome, TerminalStates, TypeOK
<1>3. ASSUME NEW t \in Tasks, NEW kind, NEW state, Create(t, kind, state) PROVE FinishedStays
  BY <1>3 DEF Create, FinishedStays, TerminalStates, TypeOK
<1>4. ASSUME NEW t \in Tasks, CancelWrite(t) PROVE FinishedStays
  BY <1>4 DEF CancelWrite, FinishedStays, CancelsLiveTasks, TypeOK
<1>5. ASSUME NEW t \in Tasks, Delete(t) PROVE FinishedStays
  BY <1>5 DEF Delete, FinishedStays, TypeOK
<1> QED
  BY <1>1, <1>2, <1>3, <1>4, <1>5, WhoWritesTasks

\* A finished task never moves again: the opener, the member, the planner's return, the runner's
\* give-up, finish and parking all write through a check of the state the row has then, so a
\* decision made from an older read cannot revive a task or change how it ended.
THEOREM FinishedIsForever == Spec => FinishedForever
<1>1. Init => TypeOK /\ CancelsLiveTasks
  BY TypeInit DEF Init, CancelsLiveTasks, TerminalStates
<1>2. TypeOK /\ CancelsLiveTasks /\ [Next]_vars => TypeOK' /\ CancelsLiveTasks'
  BY TypeNext, CancelsLiveTasksNext
<1>3. TypeOK /\ CancelsLiveTasks /\ [Next]_vars => [FinishedStays]_vars
  BY FinishedStaysNext
<1> QED
  BY <1>1, <1>2, <1>3, PTL DEF Spec, FinishedForever

-----------------------------------------------------------------------------
(* What has been done stays done.                                          *)

\* Every write of step rows but the admin's delete leaves completed rows as they are.
CompletedUntouched ==
  \A t \in Tasks, k \in Keys : plan[t][k].state = "Completed" => plan'[t][k] = plan[t][k]

\* update_step refuses to move a completed row.
LEMMA UpdateKeepsCompleted ==
  ASSUME TypeOK, NEW t \in Tasks, NEW k \in Keys, NEW copy, UpdateStep(t, k, copy)
  PROVE  CompletedUntouched
<1>1. plan[t][k].state = "Completed" => StepRefused(t, k, copy)
  BY DEF StepRefused, StepCanBecome
<1> QED
  BY <1>1 DEF UpdateStep, CompletedUntouched, TypeOK, Plan

\* replace_open_steps refuses a plan that would overwrite a completed row.
LEMMA ReplaceKeepsCompleted ==
  ASSUME TypeOK, NEW t, NEW kept, NEW new, NEW fresh, ReplaceAccepted(t, kept, new),
         plan' = [plan EXCEPT ![t] = Replaced(plan[t], fresh, new)]
  PROVE  CompletedUntouched
<1>1. ASSUME NEW k \in Keys, t \in Tasks, plan[t][k].state = "Completed"
      PROVE  plan'[t][k] = plan[t][k]
  <2>1. k \in Kept(plan[t])
    BY <1>1 DEF Kept, SurvivesReplan
  <2>2. k \notin new
    BY <2>1 DEF ReplaceAccepted, CheckCurrent
  <2> QED
    BY <1>1, <2>1, <2>2 DEF Replaced, TypeOK
<1> QED
  BY <1>1 DEF CompletedUntouched, TypeOK

\* No operation but delete_task touches a completed row.
LEMMA CompletedUntouchedNext ==
  ASSUME TypeOK, [Next]_vars
  PROVE  CompletedUntouched \/ \E t \in Tasks : Delete(t)
<1>1. cur \in Tasks /\ key \in Keys
  BY DEF TypeOK
<1>2. CASE UNCHANGED plan
  BY <1>2 DEF CompletedUntouched
<1>3. ASSUME NEW t \in Tasks, StoreFirstStep(t) PROVE CompletedUntouched
  <2>1. CASE UNCHANGED plan
    BY <2>1 DEF CompletedUntouched
  <2>2. CASE /\ ReplaceAccepted(t, {}, {FirstKey})
             /\ plan' = [plan EXCEPT ![t] =
                            Replaced(plan[t], Replanned(NoPlan, OneStep), {FirstKey})]
    BY <2>2, ReplaceKeepsCompleted
  <2> QED
    BY <1>3, <2>1, <2>2 DEF StoreFirstStep
<1>4. CASE PlanWrite
  <2>1. CASE UNCHANGED plan
    BY <2>1 DEF CompletedUntouched
  <2>2. CASE /\ ReplaceAccepted(call.task, call.kept, call.new)
             /\ plan' = [plan EXCEPT ![call.task] =
                            Replaced(plan[call.task], call.fresh, call.new)]
    BY <2>2, ReplaceKeepsCompleted
  <2> QED
    BY <1>4, <2>1, <2>2 DEF PlanWrite
<1>5. CASE StartStep
  BY <1>1, <1>5, UpdateKeepsCompleted DEF StartStep
<1>6. CASE RunEnds
  BY <1>1, <1>6, UpdateKeepsCompleted DEF RunEnds, Settle
<1>7. CASE HandOn
  <2>1. CASE UNCHANGED plan
    BY <2>1 DEF CompletedUntouched
  <2>2. ASSUME NEW k \in HandOffKeys,
               AppendAccepted(seen, plan[cur], k, key, Cap(cur)),
               plan' = [plan EXCEPT ![cur] = Appended(plan[cur], k, key)]
        PROVE  CompletedUntouched
    <3>1. k \in Keys /\ plan[cur][k].state = "Absent"
      BY <2>2, TaskAssumption DEF AppendAccepted, Present
    <3>2. \A j \in Keys : j # k => Appended(plan[cur], k, key)[j] = plan[cur][j]
      BY <1>1 DEF Appended, TypeOK, Plan
    <3> QED
      BY <1>1, <2>2, <3>1, <3>2 DEF CompletedUntouched, TypeOK
  <2> QED
    BY <1>7, <2>1, <2>2 DEF HandOn
<1>8. CASE Recover
  BY <1>8 DEF Recover, Recovered, CompletedUntouched
<1> QED
  BY <1>2, <1>3, <1>4, <1>5, <1>6, <1>7, <1>8, WhoWritesSteps

\* A completed step is never rewritten or dropped, unless its task is deleted: a plan_write that
\* was checked before the step completed, even one that outlives its run, is refused by
\* check_current; a stale update is refused by the row's own state; recovery passes it by.
THEOREM HistoryIsKept == Spec => HistoryKept
<1>1. ASSUME TypeOK, [Next]_vars PROVE CompletedStays
  <2>1. CASE CompletedUntouched
    BY <2>1 DEF CompletedUntouched, CompletedStays
  <2>2. ASSUME NEW t \in Tasks, Delete(t) PROVE CompletedStays
    BY <1>1, <2>2 DEF Delete, CompletedStays, TypeOK
  <2> QED
    BY <1>1, <2>1, <2>2, CompletedUntouchedNext
<1>2. TypeOK /\ [Next]_vars => [CompletedStays]_vars
  BY <1>1
<1> QED
  BY <1>2, TypeInit, TypeNext, PTL DEF Spec, HistoryKept

-----------------------------------------------------------------------------
(* Attempts.                                                               *)

\* A row within its tries.
WithinTries(s) == s.attempts <= MaxAttempts /\ (s.state = "Pending" => s.attempts < MaxAttempts)

RowsWithinTries == \A t \in Tasks, k \in Keys : WithinTries(plan[t][k])

\* The steps a plan_write is about to insert are pending and not begun.
CallIsFresh ==
  \A k \in call.new : call.fresh[k].state = "Pending" /\ call.fresh[k].attempts = 0

\* The attempt under way is one of those allowed.
AttemptAllowed ==
  pc \in {"starting", "working", "checking"} =>
      step.state = "Running" /\ step.attempts \in 1..MaxAttempts

\* The inductive invariant behind AttemptsBounded: the runner's copy, which is written over the
\* row whatever the row's own count is, and the steps a plan_write holds are within bounds too.
AttemptsInv == TypeOK /\ RowsWithinTries /\ CallIsFresh /\ AttemptAllowed

\* plan_write holds new steps only.
LEMMA CallIsFreshNext ==
  ASSUME TypeOK, CallIsFresh, [Next]_vars
  PROVE  CallIsFresh'
<1>1. \/ UNCHANGED call
      \/ PlanRead
      \/ call' = NoCall
  BY DEF Next, vars, MemberStep, OpenerStep, PlannerCall, RunnerStep, Clock, Error, Crash,
         OpenPlanned, OpenPaused, CancelRead, CancelWrite, Delete, StoreFirstStep,
         SetOpenedRunning, PlanWrite, DeadlinePasses, Pick, SlotRefused, Advance, GiveUp, Finish,
         EndTask, PlannerStopped, PlannerReturned, PlannerEnds, StartStep, Settle, WorkerStopped,
         WorkerFailed, WorkerAsks, WorkerDone, WorkerDoneToCheck, VerifierStopped, VerifierFails,
         VerifierPasses, FollowUp, HandOn, Park, Recover
<1>2. CASE UNCHANGED call
  BY <1>2 DEF CallIsFresh
<1>3. CASE PlanRead
  <2>1. PICK drafts \in Drafts :
           /\ PlanAccepted(tstate[cur], plan[cur], drafts, Cap(cur))
           /\ call' = [task |-> cur, kept |-> Kept(plan[cur]),
                       fresh |-> Replanned(plan[cur], drafts), new |-> DraftKeys(drafts)]
    BY <1>3 DEF PlanRead
  <2>2. drafts \in Seq(Draft) /\ plan[cur] \in Plan
    BY TaskAssumption DEF TypeOK
  <2>3. DraftKeys(drafts) \cap Kept(plan[cur]) = {}
    BY <2>1 DEF PlanAccepted
  <2> QED
    BY <2>1, <2>2, <2>3, ReplannedType DEF CallIsFresh
<1>4. CASE call' = NoCall
  BY <1>4 DEF CallIsFresh, NoCall
<1> QED
  BY <1>1, <1>2, <1>3, <1>4

\* update_step with a copy within its tries keeps every row within its tries.
LEMMA UpdateWithinTries ==
  ASSUME TypeOK, RowsWithinTries, NEW t \in Tasks, NEW k \in Keys, NEW copy \in Step,
         WithinTries(copy), UpdateStep(t, k, copy)
  PROVE  RowsWithinTries'
<1>1. plan[t] \in Plan /\ plan[t][k] \in Step
  BY DEF TypeOK, Plan
<1>2. ASSUME ~StepRefused(t, k, copy)
      PROVE  /\ plan'[t][k].state = copy.state
             /\ plan'[t][k].attempts = copy.attempts
             /\ \A u \in Tasks, j \in Keys : (u # t \/ j # k) => plan'[u][j] = plan[u][j]
  BY <1>1, <1>2 DEF UpdateStep, TypeOK, Plan, Step
<1> QED
  BY <1>2 DEF UpdateStep, RowsWithinTries, WithinTries

\* So does replace_open_steps with steps not begun.
LEMMA ReplaceWithinTries ==
  ASSUME TypeOK, RowsWithinTries, NEW t, NEW fresh, NEW new \in SUBSET Keys,
         \A k \in new : fresh[k].state = "Pending" /\ fresh[k].attempts = 0,
         plan' = [plan EXCEPT ![t] = Replaced(plan[t], fresh, new)]
  PROVE  RowsWithinTries'
<1>1. 0 < MaxAttempts /\ MaxAttempts \in Nat
  BY PlanAssumption
<1>2. WithinTries(NoStep)
  BY <1>1 DEF WithinTries, NoStep
<1>3. \A k \in new : WithinTries(fresh[k])
  BY <1>1 DEF WithinTries
<1>4. ASSUME t \in Tasks, NEW k \in Keys PROVE WithinTries(Replaced(plan[t], fresh, new)[k])
  BY <1>2, <1>3, <1>4 DEF Replaced, RowsWithinTries
<1> QED
  BY <1>4 DEF RowsWithinTries, TypeOK

\* Every operation keeps the rows within their tries.
LEMMA RowsWithinTriesNext ==
  ASSUME AttemptsInv, [Next]_vars
  PROVE  RowsWithinTries'
<1>0. /\ TypeOK /\ RowsWithinTries
      /\ cur \in Tasks /\ key \in Keys /\ step \in Step
      /\ MaxAttempts \in Nat /\ 0 < MaxAttempts
  BY PlanAssumption DEF AttemptsInv, TypeOK
<1>1. CASE UNCHANGED plan
  BY <1>0, <1>1 DEF RowsWithinTries
<1>2. ASSUME NEW t \in Tasks, StoreFirstStep(t) PROVE RowsWithinTries'
  <2>1. CASE UNCHANGED plan
    BY <1>1, <2>1
  <2>2. CASE plan' = [plan EXCEPT ![t] =
                         Replaced(plan[t], Replanned(NoPlan, OneStep), {FirstKey})]
    <3>1. DraftKeys(OneStep) = {FirstKey}
      BY DEF DraftKeys, OneStep
    <3>2. Kept(NoPlan) = {}
      BY DEF Kept, NoPlan, NoStep, SurvivesReplan
    <3>3. \A k \in {FirstKey} : /\ Replanned(NoPlan, OneStep)[k].state = "Pending"
                                /\ Replanned(NoPlan, OneStep)[k].attempts = 0
      BY <3>1, <3>2, OneStepType, NoPlanType, ReplannedType
    <3>4. {FirstKey} \in SUBSET Keys
      BY TaskAssumption
    <3> QED
      BY <1>0, <2>2, <3>3, <3>4, ReplaceWithinTries
  <2> QED
    BY <1>2, <2>1, <2>2 DEF StoreFirstStep
<1>3. ASSUME NEW t \in Tasks, Delete(t) PROVE RowsWithinTries'
  <2>1. \A k \in Keys : WithinTries(NoPlan[k])
    BY <1>0 DEF WithinTries, NoPlan, NoStep
  <2> QED
    BY <1>0, <1>3, <2>1 DEF Delete, RowsWithinTries, TypeOK
<1>4. CASE PlanWrite
  <2>1. CASE UNCHANGED plan
    BY <1>1, <2>1
  <2>2. CASE plan' = [plan EXCEPT ![call.task] =
                         Replaced(plan[call.task], call.fresh, call.new)]
    <3>1. call.new \in SUBSET Keys
      BY <1>0 DEF TypeOK, Call
    <3> QED
      BY <1>0, <2>2, <3>1, ReplaceWithinTries DEF AttemptsInv, CallIsFresh
  <2> QED
    BY <1>4, <2>1, <2>2 DEF PlanWrite
<1>5. CASE StartStep
  <2>1. step.state = "Running" /\ step.attempts \in 1..MaxAttempts
    BY <1>5 DEF AttemptsInv, AttemptAllowed, StartStep
  <2>2. WithinTries(step)
    BY <1>0, <2>1 DEF WithinTries
  <2> QED
    BY <1>0, <1>5, <2>2, UpdateWithinTries DEF StartStep
<1>6. CASE RunEnds
  <2>1. step.attempts \in 1..MaxAttempts
    BY <1>6 DEF AttemptsInv, AttemptAllowed, RunEnds
  <2>2. Preempted(step) \in Step /\ WithinTries(Preempted(step))
    BY <1>0, <2>1, PreemptedType DEF WithinTries
  <2>3. ASSUME NEW to \in {"Failed", "AwaitingApproval", "Completed"}
        PROVE  Settled(step, to) \in Step /\ WithinTries(Settled(step, to))
    <3>1. to \in StepStates
      BY DEF StepStates
    <3> QED
      BY <1>0, <2>1, <3>1, SettledType DEF WithinTries
  <2> QED
    BY <1>0, <1>6, <2>2, <2>3, UpdateWithinTries DEF RunEnds, Settle
<1>7. CASE HandOn
  <2>1. CASE UNCHANGED plan
    BY <1>1, <2>1
  <2>2. ASSUME NEW k \in HandOffKeys, plan' = [plan EXCEPT ![cur] = Appended(plan[cur], k, key)]
        PROVE  RowsWithinTries'
    <3>1. k \in Keys
      BY TaskAssumption
    <3>2. plan[cur] \in Plan
      BY <1>0 DEF TypeOK
    <3>3. /\ Appended(plan[cur], k, key)[k].state = "Pending"
          /\ Appended(plan[cur], k, key)[k].attempts = 0
          /\ \A j \in Keys : j # k => Appended(plan[cur], k, key)[j] = plan[cur][j]
      BY <3>1, <3>2 DEF Appended, Plan
    <3>4. \A j \in Keys : WithinTries(Appended(plan[cur], k, key)[j])
      BY <1>0, <3>3 DEF RowsWithinTries, WithinTries
    <3> QED
      BY <1>0, <2>2, <3>4 DEF RowsWithinTries, TypeOK
  <2> QED
    BY <1>7, <2>1, <2>2 DEF HandOn
<1>8. CASE Recover
  <2>1. ASSUME NEW t \in Tasks, NEW k \in Keys PROVE WithinTries(Recovered(t)[k])
    <3>1. plan[t][k] \in Step /\ WithinTries(plan[t][k])
      BY <1>0 DEF TypeOK, Plan, RowsWithinTries
    <3>2. WithinTries(Preempted(plan[t][k]))
      <4>1. plan[t][k].attempts \in Nat
        BY <3>1 DEF Step
      <4> QED
        BY <1>0, <3>1, <4>1, PreemptedType DEF WithinTries
    <3> QED
      BY <3>1, <3>2 DEF Recovered
  <2> QED
    BY <1>8, <2>1 DEF Recover, RowsWithinTries
<1> QED
  BY <1>1, <1>2, <1>3, <1>4, <1>5, <1>6, <1>7, <1>8, WhoWritesSteps

\* next_run begins only an attempt that is allowed, and its copy keeps the count.
LEMMA AttemptAllowedNext ==
  ASSUME AttemptsInv, [Next]_vars
  PROVE  AttemptAllowed'
<1>0. /\ TypeOK /\ RowsWithinTries /\ AttemptAllowed
      /\ cur \in Tasks /\ plan[cur] \in Plan
      /\ MaxAttempts \in Nat /\ 0 < MaxAttempts
  BY PlanAssumption DEF AttemptsInv, TypeOK
<1>1. CASE Rest
  BY <1>1 DEF Rest, AttemptAllowed
<1>2. CASE UNCHANGED <<pc, step>>
  BY <1>0, <1>2 DEF AttemptAllowed
<1>3. CASE pc' = "down"
  BY <1>3 DEF AttemptAllowed
<1>4. ASSUME NEW t \in Tasks, Pick(t) PROVE AttemptAllowed'
  BY <1>4 DEF Pick, AttemptAllowed
<1>5. CASE Advance
  <2> DEFINE todo == StepToDo(plan[cur])
  <2>1. CASE pc' \in {"givingUp", "finishing", "planning"}
    BY <2>1 DEF AttemptAllowed
  <2>2. CASE /\ NextRun(seen, plan[cur], fruitless[cur], cur \in late) = "Do"
             /\ step' = Started(plan[cur][todo])
    <3>1. todo \in Retryable(plan[cur]) \cup Ready(plan[cur])
      BY <1>0, <2>2, StepToDoIsRunnable
    <3>2. todo \in Keys /\ plan[cur][todo] \in Step
      BY <1>0, <3>1 DEF Retryable, Ready, Plan
    <3>3. plan[cur][todo].attempts \in Nat /\ plan[cur][todo].attempts < MaxAttempts
      BY <1>0, <3>1, <3>2 DEF Retryable, Ready, RowsWithinTries, WithinTries, Step
    <3> HIDE DEF todo
    <3>4. /\ Started(plan[cur][todo]).state = "Running"
          /\ Started(plan[cur][todo]).attempts = plan[cur][todo].attempts + 1
      BY <3>2, StartedType
    <3> QED
      BY <1>0, <2>2, <3>3, <3>4 DEF AttemptAllowed
  <2> QED
    BY <1>1, <1>5, <2>1, <2>2 DEF Advance, MoveTo
<1>6. CASE StartStep
  BY <1>0, <1>1, <1>6 DEF StartStep, MoveTo, AttemptAllowed
<1>7. CASE RunEnds
  BY <1>0, <1>1, <1>7 DEF RunEnds, Settle, MoveTo, AttemptAllowed
<1>8. CASE WorkerDoneToCheck
  BY <1>0, <1>8 DEF WorkerDoneToCheck, MoveTo, AttemptAllowed
<1>9. CASE FollowUp
  BY <1>9 DEF FollowUp, MoveTo, AttemptAllowed
<1> QED
  BY <1>1, <1>2, <1>3, <1>4, <1>5, <1>6, <1>7, <1>8, <1>9, RunnerMoves DEF Crash

\* AttemptsInv is inductive.
LEMMA AttemptsInvHolds ==
  /\ Init => AttemptsInv
  /\ AttemptsInv /\ [Next]_vars => AttemptsInv'
<1>1. Init => AttemptsInv
  <2> SUFFICES ASSUME Init PROVE AttemptsInv
    OBVIOUS
  <2>1. MaxAttempts \in Nat /\ 0 < MaxAttempts
    BY PlanAssumption
  <2>2. RowsWithinTries
    BY <2>1 DEF Init, RowsWithinTries, WithinTries, NoPlan, NoStep
  <2>3. CallIsFresh /\ AttemptAllowed
    BY DEF Init, CallIsFresh, NoCall, AttemptAllowed
  <2> QED
    BY <2>2, <2>3, TypeInit DEF AttemptsInv
<1>2. AttemptsInv /\ [Next]_vars => AttemptsInv'
  BY TypeNext, RowsWithinTriesNext, CallIsFreshNext, AttemptAllowedNext DEF AttemptsInv
<1> QED
  BY <1>1, <1>2

\* The count of attempts a step's row stores never passes MAX_STEP_ATTEMPTS, through any number of
\* household turns, failures, replans, hand-offs, errors and crashes, and a step left to run has a
\* try left; a stop and a recovery give a try back, so it may be begun more often than that.
THEOREM AttemptsAreBounded == Spec => []AttemptsBounded
<1>1. AttemptsInv => AttemptsBounded
  BY DEF AttemptsInv, RowsWithinTries, WithinTries, AttemptsBounded
<1> QED
  BY <1>1, AttemptsInvHolds, PTL DEF Spec

-----------------------------------------------------------------------------
(* A begun step's inputs are done.                                         *)

WaitsDone(t, k) == \A d \in plan[t][k].waits : plan[t][d].state = "Completed"

BegunAfterWaits == \A t \in Tasks, k \in Keys : Begun(plan[t][k]) => WaitsDone(t, k)

\* A plan_write that has not outlived its run is under way only while the planner runs, for the
\* task the runner holds.
CallWithinRun == call # NoCall => pc = "planning" /\ call.task = cur

\* The step the runner has chosen still has its waits done, until the run is settled.
InputsReady == pc \in {"starting", "working", "checking"} => WaitsDone(cur, key)

\* The inductive invariant behind DepsDone.
DepsInv ==
  /\ TypeOK /\ CallIsFresh
  /\ overruns = 0 => BegunAfterWaits /\ CallWithinRun /\ InputsReady

\* update_step on a row whose waits are done takes no input from any begun step.
LEMMA UpdateKeepsDeps ==
  ASSUME TypeOK, BegunAfterWaits, NEW t \in Tasks, NEW k \in Keys, NEW copy \in Step,
         WaitsDone(t, k), UpdateStep(t, k, copy)
  PROVE  /\ BegunAfterWaits'
         /\ \A u \in Tasks, j \in Keys : WaitsDone(u, j) => WaitsDone(u, j)'
<1>1. \A u \in Tasks, j \in Keys : plan[u][j] \in Step /\ plan[u][j].waits \subseteq Keys
  BY DEF TypeOK, Plan, Step
<1>2. \A u \in Tasks, j \in Keys :
         /\ plan'[u][j].waits = plan[u][j].waits
         /\ (u # t \/ j # k) => plan'[u][j] = plan[u][j]
  BY <1>1 DEF UpdateStep, TypeOK, Plan, Step
<1>3. CompletedUntouched
  BY UpdateKeepsCompleted
<1>4. ASSUME NEW u \in Tasks, NEW j \in Keys, WaitsDone(u, j) PROVE WaitsDone(u, j)'
  BY <1>1, <1>2, <1>3, <1>4 DEF WaitsDone, CompletedUntouched
<1>5. ASSUME NEW u \in Tasks, NEW j \in Keys, Begun(plan[u][j])' PROVE WaitsDone(u, j)
  <2>1. CASE u = t /\ j = k
    BY <2>1
  <2>2. CASE u # t \/ j # k
    BY <1>2, <1>5, <2>2 DEF BegunAfterWaits
  <2> QED
    BY <2>1, <2>2
<1> QED
  BY <1>4, <1>5 DEF BegunAfterWaits

\* replace_open_steps keeps completed rows, so begun steps keep their inputs.
LEMMA ReplaceKeepsDeps ==
  ASSUME TypeOK, BegunAfterWaits, NEW t \in Tasks, NEW kept, NEW fresh, NEW new \in SUBSET Keys,
         ReplaceAccepted(t, kept, new),
         \A k \in new : fresh[k].state = "Pending",
         plan' = [plan EXCEPT ![t] = Replaced(plan[t], fresh, new)]
  PROVE  BegunAfterWaits'
<1>1. \A u \in Tasks, j \in Keys : plan[u][j].waits \subseteq Keys
  BY DEF TypeOK, Plan, Step
<1>2. CompletedUntouched
  BY ReplaceKeepsCompleted
<1>3. ASSUME NEW u \in Tasks, NEW j \in Keys, Begun(plan[u][j])' PROVE WaitsDone(u, j)'
  <2>1. plan'[u][j] = plan[u][j]
    <3>1. CASE u = t
      <4>1. plan'[u][j] = Replaced(plan[t], fresh, new)[j]
        BY <3>1 DEF TypeOK
      <4>2. j \notin new
        BY <1>3, <4>1 DEF Replaced, Begun
      <4>3. j \in Kept(plan[t])
        BY <1>3, <4>1, <4>2 DEF Replaced, Begun, NoStep
      <4> QED
        BY <3>1, <4>1, <4>2, <4>3 DEF Replaced
    <3>2. CASE u # t
      BY <3>2 DEF TypeOK
    <3> QED
      BY <3>1, <3>2
  <2>2. WaitsDone(u, j)
    BY <1>3, <2>1 DEF BegunAfterWaits
  <2> QED
    BY <1>1, <1>2, <2>1, <2>2 DEF WaitsDone, CompletedUntouched
<1> QED
  BY <1>3 DEF BegunAfterWaits

\* The opener's one step waits for nothing.
LEMMA FirstStepIsFree ==
  /\ Replanned(NoPlan, OneStep)[FirstKey].state = "Pending"
  /\ Replanned(NoPlan, OneStep)[FirstKey].waits = {}
<1>1. FirstKey \in Keys /\ FirstKey \in DraftKeys(OneStep) /\ Kept(NoPlan) = {}
  BY TaskAssumption DEF DraftKeys, OneStep, Kept, NoPlan, NoStep, SurvivesReplan
<1>2. DraftIndex(OneStep, FirstKey) = 1
  BY DEF DraftIndex, OneStep
<1>3. Replanned(NoPlan, OneStep)[FirstKey] = DraftStep(NoPlan, OneStep, 1)
  BY <1>1, <1>2 DEF Replanned
<1>4. DraftWaits(NoPlan, OneStep, 1) = {}
  BY DEF DraftWaits, OneStep
<1> QED
  BY <1>3, <1>4 DEF DraftStep

\* Every operation leaves begun steps with their waits done.
LEMMA DepsKept ==
  ASSUME DepsInv, [Next]_vars, overruns = 0
  PROVE  BegunAfterWaits'
<1>0. /\ TypeOK /\ CallIsFresh /\ BegunAfterWaits /\ CallWithinRun /\ InputsReady
      /\ cur \in Tasks /\ key \in Keys /\ step \in Step
  BY DEF DepsInv, TypeOK
<1>1. CASE UNCHANGED plan
  BY <1>0, <1>1 DEF BegunAfterWaits, WaitsDone
<1>2. ASSUME NEW t \in Tasks, StoreFirstStep(t) PROVE BegunAfterWaits'
  <2>1. CASE /\ ReplaceAccepted(t, {}, {FirstKey})
             /\ plan' = [plan EXCEPT ![t] =
                            Replaced(plan[t], Replanned(NoPlan, OneStep), {FirstKey})]
    <3>1. {FirstKey} \in SUBSET Keys
      BY TaskAssumption
    <3> QED
      BY <1>0, <2>1, <3>1, FirstStepIsFree, ReplaceKeepsDeps
  <2> QED
    BY <1>1, <1>2, <2>1 DEF StoreFirstStep
<1>3. ASSUME NEW t \in Tasks, Delete(t) PROVE BegunAfterWaits'
  <2>1. \A k \in Keys : ~Begun(NoPlan[k])
    BY DEF Begun, NoPlan, NoStep
  <2>2. ASSUME NEW u \in Tasks, u # t PROVE plan'[u] = plan[u]
    BY <1>0, <1>3, <2>2 DEF Delete, TypeOK
  <2>3. plan'[t] = NoPlan
    BY <1>0, <1>3 DEF Delete, TypeOK
  <2> QED
    BY <1>0, <2>1, <2>2, <2>3 DEF BegunAfterWaits, WaitsDone
<1>4. CASE PlanWrite
  <2>1. CASE /\ ReplaceAccepted(call.task, call.kept, call.new)
             /\ plan' = [plan EXCEPT ![call.task] =
                            Replaced(plan[call.task], call.fresh, call.new)]
    <3>1. call.new \in SUBSET Keys
      BY <1>0 DEF TypeOK, Call
    <3>2. CASE call.task \in Tasks
      BY <1>0, <2>1, <3>1, <3>2, ReplaceKeepsDeps DEF CallIsFresh
    <3>3. CASE call.task \notin Tasks
      <4>1. UNCHANGED plan
        BY <1>0, <2>1, <3>3 DEF TypeOK
      <4> QED
        BY <1>1, <4>1
    <3> QED
      BY <3>2, <3>3
  <2> QED
    BY <1>1, <1>4, <2>1 DEF PlanWrite
<1>5. CASE StartStep
  BY <1>0, <1>5, UpdateKeepsDeps DEF StartStep, InputsReady
<1>6. CASE RunEnds
  <2>1. \A to \in {"Failed", "AwaitingApproval", "Completed"} : Settled(step, to) \in Step
    BY <1>0, SettledType DEF StepStates
  <2>2. Preempted(step) \in Step
    BY <1>0, PreemptedType
  <2>3. WaitsDone(cur, key)
    BY <1>0, <1>6 DEF RunEnds, InputsReady
  <2> QED
    BY <1>0, <1>6, <2>1, <2>2, <2>3, UpdateKeepsDeps DEF RunEnds, Settle
<1>7. CASE HandOn
  <2>1. ASSUME NEW k \in HandOffKeys,
               AppendAccepted(seen, plan[cur], k, key, Cap(cur)),
               plan' = [plan EXCEPT ![cur] = Appended(plan[cur], k, key)]
        PROVE  BegunAfterWaits'
    <3>1. k \in Keys /\ plan[cur][k].state = "Absent" /\ plan[cur] \in Plan
      BY <1>0, <2>1, TaskAssumption DEF AppendAccepted, Present, TypeOK
    <3>2. /\ ~Begun(Appended(plan[cur], k, key)[k])
          /\ \A j \in Keys : j # k => Appended(plan[cur], k, key)[j] = plan[cur][j]
      BY <3>1 DEF Appended, Plan, Begun
    <3>3. \A u \in Tasks, j \in Keys : (u # cur \/ j # k) => plan'[u][j] = plan[u][j]
      BY <1>0, <2>1, <3>2 DEF TypeOK
    <3>4. ~Begun(plan'[cur][k])
      BY <1>0, <2>1, <3>2 DEF TypeOK
    <3>5. \A u \in Tasks, j \in Keys : plan[u][j].waits \subseteq Keys
      BY <1>0 DEF TypeOK, Plan, Step
    <3>6. ASSUME NEW u \in Tasks, NEW j \in Keys, Begun(plan'[u][j]) PROVE WaitsDone(u, j)'
      BY <1>0, <3>1, <3>3, <3>4, <3>5, <3>6 DEF BegunAfterWaits, WaitsDone
    <3> QED
      BY <3>6 DEF BegunAfterWaits
  <2> QED
    BY <1>1, <1>7, <2>1 DEF HandOn
<1>8. CASE Recover
  <2>1. \A t \in Tasks, k \in Keys : plan[t][k] \in Step /\ plan[t][k].waits \subseteq Keys
    BY <1>0 DEF TypeOK, Plan, Step
  <2>2. \A t \in Tasks, k \in Keys :
           /\ plan'[t][k].waits = plan[t][k].waits
           /\ Begun(plan'[t][k]) => Begun(plan[t][k])
           /\ plan[t][k].state = "Completed" => plan'[t][k].state = "Completed"
    BY <1>8, <2>1, PreemptedType DEF Recover, Recovered, Begun
  <2> QED
    BY <1>0, <2>1, <2>2 DEF BegunAfterWaits, WaitsDone
<1> QED
  BY <1>1, <1>2, <1>3, <1>4, <1>5, <1>6, <1>7, <1>8, WhoWritesSteps

\* The step the runner has chosen keeps its inputs until its run is settled.
LEMMA InputsKept ==
  ASSUME DepsInv, [Next]_vars, overruns = 0
  PROVE  InputsReady'
<1>0. /\ TypeOK /\ BegunAfterWaits /\ CallWithinRun /\ InputsReady
      /\ cur \in Tasks /\ key \in Keys /\ step \in Step /\ plan[cur] \in Plan
      /\ plan[cur][key].waits \subseteq Keys
  BY DEF DepsInv, TypeOK, Plan, Step
<1>1. CASE UNCHANGED <<pc, cur, key, step>>
  <2> SUFFICES ASSUME pc \in {"starting", "working", "checking"}
               PROVE  WaitsDone(cur, key)'
    BY <1>1 DEF InputsReady
  <2>1. WaitsDone(cur, key)
    BY <1>0 DEF InputsReady
  <2>2. CASE UNCHANGED plan
    BY <1>1, <2>1, <2>2 DEF WaitsDone
  <2>3. ASSUME NEW t \in Tasks, StoreFirstStep(t), ~UNCHANGED plan PROVE WaitsDone(cur, key)'
    <3>1. /\ ReplaceAccepted(t, {}, {FirstKey})
          /\ plan' = [plan EXCEPT ![t] =
                         Replaced(plan[t], Replanned(NoPlan, OneStep), {FirstKey})]
      BY <2>3 DEF StoreFirstStep
    <3>2. CompletedUntouched
      BY <1>0, <3>1, ReplaceKeepsCompleted
    <3>3. plan'[cur][key] = plan[cur][key] \/ plan'[cur][key].waits = {}
      BY <1>0, <3>1, FirstStepIsFree DEF Replaced, TypeOK, NoStep
    <3> QED
      BY <1>0, <1>1, <2>1, <3>2, <3>3 DEF WaitsDone, CompletedUntouched
  <2>4. ASSUME NEW t \in Tasks, Delete(t) PROVE WaitsDone(cur, key)'
    <3>1. plan'[cur] = plan[cur] \/ plan'[cur][key].waits = {}
      BY <1>0, <2>4 DEF Delete, TypeOK, NoPlan, NoStep
    <3> QED
      BY <1>1, <2>1, <3>1 DEF WaitsDone
  <2>5. ~PlanWrite /\ ~HandOn /\ ~Recover
    BY <1>0 DEF PlanWrite, CallWithinRun, HandOn, Recover
  <2>6. CASE StartStep
    BY <1>1, <2>6, <2>2 DEF StartStep, Rest, MoveTo, UpdateStep
  <2>7. CASE RunEnds
    <3>1. PICK copy \in Step : UpdateStep(cur, key, copy)
      <4>1. \A to \in {"Failed", "AwaitingApproval", "Completed"} : Settled(step, to) \in Step
        BY <1>0, SettledType DEF StepStates
      <4> QED
        BY <1>0, <2>7, <4>1, PreemptedType DEF RunEnds, Settle
    <3> QED
      BY <1>0, <1>1, <2>1, <3>1, UpdateKeepsDeps
  <2> QED
    BY <2>2, <2>3, <2>4, <2>5, <2>6, <2>7, WhoWritesSteps
<1>2. CASE Rest
  BY <1>2 DEF Rest, InputsReady
<1>3. ASSUME NEW t \in Tasks, Pick(t) PROVE InputsReady'
  BY <1>3 DEF Pick, InputsReady
<1>4. CASE Advance
  <2> DEFINE todo == StepToDo(plan[cur])
  <2>1. CASE pc' \in {"givingUp", "finishing", "planning"}
    BY <2>1 DEF InputsReady
  <2>2. CASE /\ NextRun(seen, plan[cur], fruitless[cur], cur \in late) = "Do"
             /\ key' = todo
             /\ UNCHANGED <<cur, seen>>
    <3>1. todo \in Retryable(plan[cur]) \cup Ready(plan[cur])
      BY <1>0, <2>2, StepToDoIsRunnable
    <3>2. todo \in Keys
      BY <3>1 DEF Retryable, Ready
    <3>3. WaitsDone(cur, todo)
      BY <1>0, <3>1, <3>2 DEF Retryable, Ready, BegunAfterWaits, Begun, WaitsDone
    <3> HIDE DEF todo
    <3>4. UNCHANGED plan
      BY <1>4 DEF Advance, ledger
    <3> QED
      BY <2>2, <3>3, <3>4 DEF InputsReady, WaitsDone
  <2> QED
    BY <1>2, <1>4, <2>1, <2>2 DEF Advance, MoveTo
<1>5. CASE StartStep
  <2>1. WaitsDone(cur, key)
    BY <1>0, <1>5 DEF StartStep, InputsReady
  <2>2. CASE MoveTo("working")
    <3>1. \A u \in Tasks, j \in Keys : WaitsDone(u, j) => WaitsDone(u, j)'
      BY <1>0, <1>5, <2>1, UpdateKeepsDeps DEF StartStep
    <3>2. UNCHANGED <<cur, key>>
      BY <2>2 DEF MoveTo
    <3> QED
      BY <1>0, <2>1, <3>1, <3>2 DEF InputsReady, WaitsDone
  <2> QED
    BY <1>2, <1>5, <2>2 DEF StartStep
<1>6. CASE RunEnds
  BY <1>2, <1>6 DEF RunEnds, Settle, MoveTo, InputsReady
<1>7. CASE WorkerDoneToCheck
  BY <1>0, <1>7 DEF WorkerDoneToCheck, MoveTo, ledger, InputsReady, WaitsDone
<1>8. CASE FollowUp \/ Crash
  BY <1>8 DEF FollowUp, Crash, MoveTo, InputsReady
<1> QED
  BY <1>1, <1>2, <1>3, <1>4, <1>5, <1>6, <1>7, <1>8, RunnerMoves

\* A plan_write under way belongs to the planner's run.
LEMMA CallsKept ==
  ASSUME DepsInv, [Next]_vars, overruns = 0, overruns' = 0
  PROVE  CallWithinRun'
<1>0. CallWithinRun
  BY DEF DepsInv
<1>1. CASE call' = NoCall
  BY <1>1 DEF CallWithinRun
<1>2. CASE call' # NoCall /\ UNCHANGED <<call, pc, cur>>
  BY <1>0, <1>2 DEF CallWithinRun
<1>3. CASE PlanRead
  <2>1. call'.task = cur
    BY <1>3 DEF PlanRead
  <2> QED
    BY <1>3, <2>1 DEF PlanRead, CallWithinRun, runner
<1>4. CASE MemberStep \/ OpenerStep \/ PlannerCall \/ Clock \/ UNCHANGED vars
  BY <1>1, <1>2, <1>3, <1>4
     DEF MemberStep, OpenPlanned, OpenPaused, CancelRead, CancelWrite, Delete, OpenerStep,
         StoreFirstStep, SetOpenedRunning, PlannerCall, PlanWrite, Clock, DeadlinePasses, vars,
         runner
<1>5. CASE Error \/ Crash
  BY <1>0, <1>1, <1>5 DEF Error, Crash, CallWithinRun
<1>6. CASE RunnerStep
  <2>1. CASE PlannerStopped \/ PlannerReturned
    BY <1>1, <2>1 DEF PlannerStopped, PlannerReturned, PlannerEnds
  <2>2. CASE pc # "planning" /\ UNCHANGED call
    BY <1>0, <1>1, <2>2 DEF CallWithinRun
  <2> QED
    BY <1>6, <2>1, <2>2
       DEF RunnerStep, Pick, SlotRefused, Advance, GiveUp, Finish, EndTask, StartStep, Settle,
           WorkerStopped, WorkerFailed, WorkerAsks, WorkerDone, WorkerDoneToCheck,
           VerifierStopped, VerifierFails, VerifierPasses, FollowUp, HandOn, Park, Recover
<1> QED
  BY <1>4, <1>5, <1>6 DEF Next

\* Plan_write calls left behind are only ever counted up.
LEMMA OverrunsGrow ==
  ASSUME TypeOK, [Next]_vars, overruns' = 0
  PROVE  overruns = 0
<1>1. overruns \in Nat
  BY TaskAssumption DEF TypeOK
<1>2. UNCHANGED overruns \/ overruns' = overruns + 1
  BY DEF Next, vars, MemberStep, OpenerStep, PlannerCall, RunnerStep, Clock, Error, Crash,
         OpenPlanned, OpenPaused, CancelRead, CancelWrite, Delete, StoreFirstStep,
         SetOpenedRunning, PlanRead, PlanWrite, DeadlinePasses, Pick, SlotRefused, Advance, GiveUp,
         Finish, EndTask, PlannerStopped, PlannerReturned, PlannerEnds, StartStep, Settle,
         WorkerStopped, WorkerFailed, WorkerAsks, WorkerDone, WorkerDoneToCheck, VerifierStopped,
         VerifierFails, VerifierPasses, FollowUp, HandOn, Park, Recover, failures
<1> QED
  BY <1>1, <1>2

\* DepsInv is inductive.
LEMMA DepsInvHolds ==
  /\ Init => DepsInv
  /\ DepsInv /\ [Next]_vars => DepsInv'
<1>1. Init => DepsInv
  <2> SUFFICES ASSUME Init PROVE DepsInv
    OBVIOUS
  <2>1. BegunAfterWaits
    BY DEF Init, BegunAfterWaits, Begun, NoPlan, NoStep
  <2>2. CallIsFresh /\ CallWithinRun /\ InputsReady
    BY DEF Init, CallIsFresh, NoCall, CallWithinRun, InputsReady
  <2> QED
    BY <2>1, <2>2, TypeInit DEF DepsInv
<1>2. ASSUME DepsInv, [Next]_vars PROVE DepsInv'
  <2>1. TypeOK' /\ CallIsFresh'
    BY <1>2, TypeNext, CallIsFreshNext DEF DepsInv
  <2>2. ASSUME overruns' = 0 PROVE BegunAfterWaits' /\ CallWithinRun' /\ InputsReady'
    <3>1. overruns = 0
      BY <1>2, <2>2, OverrunsGrow DEF DepsInv
    <3> QED
      BY <1>2, <2>2, <3>1, DepsKept, InputsKept, CallsKept
  <2> QED
    BY <2>1, <2>2 DEF DepsInv
<1> QED
  BY <1>1, <1>2

\* A step is begun only after everything it waits for is completed, and nothing takes those inputs
\* away again: not a replan that drops open steps, nor a hand-off, a retry, a stop, an error or a
\* restart.  It rests on the runner being the only writer of its task's steps while it works,
\* which a plan_write that outlives its run breaks; hence the bound on overruns in DepsDone.
THEOREM DepsAreDone == Spec => []DepsDone
<1>1. DepsInv => DepsDone
  BY DEF DepsInv, BegunAfterWaits, WaitsDone, DepsDone
<1> QED
  BY <1>1, DepsInvHolds, PTL DEF Spec

-----------------------------------------------------------------------------
(* The task the runner holds, the openers' tasks and the rows of no task.  *)

\* From the pick to the end of the loop nobody moves the task the runner holds, except to cancel
\* it and delete it; no opener is still at work on it.
HeldTask ==
  pc \notin {"down", "idle"} =>
      /\ seen \in OpenStates
      /\ tstate[cur] \in {seen, "Cancelled", "Deleted"}
      /\ opening[cur] = "none"

\* A task with its opener at work is paused or over.
OpeningIsPaused ==
  \A t \in Tasks : opening[t] # "none" => tstate[t] \in {"Paused", "Deleted"} \cup TerminalStates

\* A task that is not there has no step rows.
RowsHaveTheirTask == \A t \in Tasks : tstate[t] \in {"Absent", "Deleted"} => plan[t] = NoPlan

\* Only a running task's steps are run.
RunsAreOfRunningTasks ==
  pc \in {"starting", "working", "checking", "afterHooks", "handing", "parking"} =>
      seen = "Running"

\* What every later argument needs to know of the ledger and of the runner's hold on it.
LedgerInv ==
  /\ TypeOK /\ CancelsLiveTasks
  /\ HeldTask /\ OpeningIsPaused /\ RowsHaveTheirTask /\ RunsAreOfRunningTasks

\* set_task_state writes one row, from a state that may become the new one.
LEMMA SetTaskStateRow ==
  ASSUME TypeOK, NEW t \in Tasks, NEW to, SetTaskState(t, to)
  PROVE  /\ \A u \in Tasks : u # t => tstate'[u] = tstate[u]
         /\ tstate'[t] = tstate[t] \/ (TaskCanBecome(tstate[t], to) /\ tstate'[t] = to)
         /\ Stored(t) /\ TaskCanBecome(tstate[t], to) => tstate'[t] = to
         /\ tstate[t] \in TerminalStates \cup {"Absent", "Deleted"} => tstate'[t] = tstate[t]
BY DEF TypeOK, SetTaskState, TaskCanBecome, TerminalStates

\* What each operation may do to the state of a task: it is created, it is finished by a cancel, the
\* opener or the runner, it is deleted, it is let run, or it is parked.
TaskMoves(t) ==
  \/ tstate'[t] = tstate[t]
  \/ /\ tstate[t] = "Absent" /\ tstate'[t] \in {"Planning", "Paused"}
     /\ tstate'[t] = "Paused" <=> opening'[t] # "none"
  \/ tstate[t] \in TaskStates \ TerminalStates /\ tstate'[t] = "Cancelled"
  \/ tstate[t] \in TerminalStates /\ tstate'[t] = "Deleted" /\ plan'[t] = NoPlan
  \/ tstate[t] = "Paused" /\ tstate'[t] = "Running" /\ opening[t] = "stored" /\ opening'[t] = "none"
  \/ /\ t = cur /\ tstate[t] \in OpenStates /\ pc' = "idle"
     /\ \/ pc = "givingUp" /\ tstate'[t] = "Failed"
        \/ pc = "finishing" /\ tstate'[t] = "Completed"
        \/ pc = "planning" /\ tstate'[t] = "Running" /\ Present(plan[t]) # {}
        \/ pc = "parking" /\ tstate'[t] = "AwaitingApproval"

\* Only an opener's own steps, and a crash, change how far it has got.
OpenerMoves(t) ==
  \/ opening'[t] = opening[t]
  \/ opening'[t] = "none"
  \/ tstate[t] = "Absent" /\ tstate'[t] = "Paused" /\ opening'[t] = "created"
  \/ opening[t] = "created" /\ opening'[t] = "stored" /\ tstate'[t] = tstate[t]

\* create_task writes the row of a task that was not there.
LEMMA CreateMoves ==
  ASSUME LedgerInv, NEW t \in Tasks, NEW kind, NEW state \in {"Planning", "Paused"},
         Create(t, kind, state),
         opening' = IF state = "Paused" THEN [opening EXCEPT ![t] = "created"] ELSE opening
  PROVE  \A u \in Tasks : TaskMoves(u) /\ OpenerMoves(u)
<1>1. /\ \A u \in Tasks : u # t => tstate'[u] = tstate[u] /\ opening'[u] = opening[u]
      /\ tstate[t] = "Absent" /\ tstate'[t] = state
      /\ opening[t] = "none"
  BY DEF LedgerInv, TypeOK, Create, OpeningIsPaused, TerminalStates
<1>2. opening'[t] = IF state = "Paused" THEN "created" ELSE "none"
  BY <1>1 DEF LedgerInv, TypeOK
<1> QED
  BY <1>1, <1>2 DEF TaskMoves, OpenerMoves

\* Every operation moves tasks and openers in these ways only.
LEMMA TasksAndOpenersMove ==
  ASSUME LedgerInv, [Next]_vars
  PROVE  \A t \in Tasks : TaskMoves(t) /\ OpenerMoves(t)
<1>0. TypeOK /\ CancelsLiveTasks /\ HeldTask /\ OpeningIsPaused /\ cur \in Tasks
  BY DEF LedgerInv, TypeOK
<1>1. CASE UNCHANGED <<tstate, opening>>
  BY <1>1 DEF TaskMoves, OpenerMoves
<1>2. ASSUME NEW t \in Tasks, OpenPlanned(t) PROVE \A u \in Tasks : TaskMoves(u) /\ OpenerMoves(u)
  BY <1>2, CreateMoves DEF OpenPlanned, openers
<1>3. ASSUME NEW t \in Tasks, OpenPaused(t) PROVE \A u \in Tasks : TaskMoves(u) /\ OpenerMoves(u)
  BY <1>3, CreateMoves DEF OpenPaused
<1>4. ASSUME NEW t \in Tasks, CancelWrite(t) PROVE \A u \in Tasks : TaskMoves(u) /\ OpenerMoves(u)
  <2>1. /\ UNCHANGED opening
        /\ \A u \in Tasks : u # t => tstate'[u] = tstate[u]
        /\ tstate'[t] = tstate[t]
              \/ (tstate[t] \in TaskStates \ TerminalStates /\ tstate'[t] = "Cancelled")
    BY <1>0, <1>4 DEF CancelWrite, CancelsLiveTasks, TypeOK
  <2> QED
    BY <2>1 DEF TaskMoves, OpenerMoves
<1>5. ASSUME NEW t \in Tasks, Delete(t) PROVE \A u \in Tasks : TaskMoves(u) /\ OpenerMoves(u)
  <2>1. /\ UNCHANGED opening
        /\ \A u \in Tasks : u # t => tstate'[u] = tstate[u]
        /\ tstate[t] \in TerminalStates /\ tstate'[t] = "Deleted" /\ plan'[t] = NoPlan
    BY <1>0, <1>5 DEF Delete, TypeOK, openers
  <2> QED
    BY <2>1 DEF TaskMoves, OpenerMoves
<1>6. ASSUME NEW t \in Tasks, SetTaskState(t, "Cancelled"), opening' = [opening EXCEPT ![t] = "none"]
      PROVE  \A u \in Tasks : TaskMoves(u) /\ OpenerMoves(u)
  <2>1. /\ \A u \in Tasks : u # t => tstate'[u] = tstate[u] /\ opening'[u] = opening[u]
        /\ opening'[t] = "none"
        /\ tstate'[t] = tstate[t]
              \/ (tstate[t] \in TaskStates \ TerminalStates /\ tstate'[t] = "Cancelled")
    BY <1>0, <1>6, SetTaskStateRow DEF TypeOK, TaskCanBecome, TaskStates, OpenStates, TerminalStates
  <2> QED
    BY <2>1 DEF TaskMoves, OpenerMoves
<1>7. ASSUME NEW t \in Tasks, StoreFirstStep(t) PROVE \A u \in Tasks : TaskMoves(u) /\ OpenerMoves(u)
  <2>1. CASE OpenerCancels(t)
    BY <1>6, <2>1 DEF OpenerCancels
  <2>2. CASE UNCHANGED tstate /\ opening' = [opening EXCEPT ![t] = "stored"]
    <3>1. /\ \A u \in Tasks : u # t => opening'[u] = opening[u]
          /\ opening[t] = "created" /\ opening'[t] = "stored"
      BY <1>0, <1>7, <2>2 DEF StoreFirstStep, TypeOK
    <3> QED
      BY <2>2, <3>1 DEF TaskMoves, OpenerMoves
  <2>3. CASE UNCHANGED tstate /\ opening' = [opening EXCEPT ![t] = "none"]
    <3>1. /\ \A u \in Tasks : u # t => opening'[u] = opening[u]
          /\ opening'[t] = "none"
      BY <1>0, <1>7, <2>3 DEF StoreFirstStep, TypeOK
    <3> QED
      BY <2>3, <3>1 DEF TaskMoves, OpenerMoves
  <2> QED
    BY <1>7, <2>1, <2>2, <2>3 DEF StoreFirstStep
<1>8. ASSUME NEW t \in Tasks, SetOpenedRunning(t)
      PROVE  \A u \in Tasks : TaskMoves(u) /\ OpenerMoves(u)
  <2>1. CASE SetTaskState(t, "Cancelled")
    BY <1>6, <1>8, <2>1 DEF SetOpenedRunning
  <2>2. CASE SetTaskState(t, "Running")
    <3>1. /\ \A u \in Tasks : u # t => tstate'[u] = tstate[u] /\ opening'[u] = opening[u]
          /\ opening[t] = "stored" /\ opening'[t] = "none"
      BY <1>0, <1>8, <2>2, SetTaskStateRow DEF SetOpenedRunning, TypeOK
    <3>2. tstate'[t] = tstate[t] \/ (tstate[t] = "Paused" /\ tstate'[t] = "Running")
      BY <1>0, <2>2, <3>1, SetTaskStateRow DEF OpeningIsPaused
    <3> QED
      BY <3>1, <3>2 DEF TaskMoves, OpenerMoves
  <2> QED
    BY <1>8, <2>1, <2>2 DEF SetOpenedRunning
<1>9. ASSUME NEW to, SetTaskState(cur, to), UNCHANGED opening, pc' = "idle",
             pc \notin {"down", "idle"},
             \/ pc = "givingUp" /\ to = "Failed"
             \/ pc = "finishing" /\ to = "Completed"
             \/ pc = "planning" /\ to = "Running" /\ Present(plan[cur]) # {}
             \/ pc = "parking" /\ to = "AwaitingApproval"
      PROVE  \A u \in Tasks : TaskMoves(u) /\ OpenerMoves(u)
  <2>1. /\ \A u \in Tasks : u # cur => tstate'[u] = tstate[u]
        /\ tstate'[cur] = tstate[cur] \/ (tstate[cur] \in OpenStates /\ tstate'[cur] = to)
    BY <1>0, <1>9, SetTaskStateRow DEF HeldTask, TerminalStates
  <2> QED
    BY <1>9, <2>1 DEF TaskMoves, OpenerMoves
<1>10. CASE GiveUp \/ Finish \/ Park
  BY <1>9, <1>10 DEF GiveUp, Finish, EndTask, Park, Rest, openers
<1>11. CASE PlannerReturned
  <2>1. CASE Present(plan[cur]) # {} /\ SetTaskState(cur, "Running")
    BY <1>9, <1>11, <2>1 DEF PlannerReturned, PlannerEnds, Rest, openers
  <2>2. CASE UNCHANGED tstate
    BY <1>1, <1>11, <2>2 DEF PlannerReturned, openers
  <2> QED
    BY <1>11, <2>1, <2>2 DEF PlannerReturned
<1>12. CASE FollowUp
  BY <1>1, <1>12, CreateMoves DEF FollowUp, openers
<1>13. CASE Crash
  BY <1>13 DEF Crash, ledger, TaskMoves, OpenerMoves
<1>14. CASE MemberStep \/ OpenerStep \/ PlannerCall \/ Clock \/ Error \/ UNCHANGED vars
  BY <1>1, <1>2, <1>3, <1>4, <1>5, <1>7, <1>8, <1>14
     DEF MemberStep, CancelRead, OpenerStep, PlannerCall, PlanRead, PlanWrite, Clock,
         DeadlinePasses, Error, vars, ledger, openers
<1>15. CASE RunnerStep
  BY <1>1, <1>10, <1>11, <1>12, <1>15
     DEF RunnerStep, Pick, SlotRefused, Advance, PlannerStopped, StartStep, Settle, WorkerStopped,
         WorkerFailed, WorkerAsks, WorkerDone, WorkerDoneToCheck, VerifierStopped, VerifierFails,
         VerifierPasses, HandOn, Recover, ledger, openers
<1> QED
  BY <1>13, <1>14, <1>15 DEF Next

\* A task that is not there gets no rows.
LEMMA RowsHaveTheirTaskNext ==
  ASSUME LedgerInv, [Next]_vars
  PROVE  RowsHaveTheirTask'
<1> SUFFICES ASSUME NEW t \in Tasks, tstate'[t] \in {"Absent", "Deleted"} PROVE plan'[t] = NoPlan
  BY DEF RowsHaveTheirTask
<1>0. TypeOK /\ RowsHaveTheirTask /\ cur \in Tasks /\ key \in Keys /\ TaskMoves(t)
  BY TasksAndOpenersMove DEF LedgerInv, TypeOK
<1>1. CASE plan'[t] = NoPlan
  BY <1>1
<1>2. CASE tstate'[t] = tstate[t]
  <2>1. plan[t] = NoPlan /\ ~Live(t) /\ tstate[t] \notin TerminalStates
    BY <1>0, <1>2 DEF RowsHaveTheirTask, Live, TaskStates, OpenStates, TerminalStates
  <2>2. CASE UNCHANGED plan
    BY <2>1, <2>2
  <2>3. ASSUME NEW u \in Tasks, StoreFirstStep(u) PROVE plan'[t] = NoPlan
    BY <1>0, <2>1, <2>3 DEF StoreFirstStep, ReplaceAccepted, TypeOK
  <2>4. ASSUME NEW u \in Tasks, Delete(u) PROVE plan'[t] = NoPlan
    BY <1>0, <2>1, <2>4 DEF Delete, TypeOK
  <2>5. CASE PlanWrite
    BY <1>0, <2>1, <2>5 DEF PlanWrite, ReplaceAccepted, TypeOK
  <2>6. ASSUME NEW copy, UpdateStep(cur, key, copy) PROVE plan'[t] = NoPlan
    <3>1. cur = t => StepRefused(cur, key, copy)
      BY <1>0, <2>1 DEF StepRefused, StepCanBecome, NoPlan, NoStep
    <3> QED
      BY <1>0, <2>1, <2>6, <3>1 DEF UpdateStep, TypeOK
  <2>7. CASE StartStep \/ RunEnds
    BY <2>6, <2>7 DEF StartStep, RunEnds, Settle
  <2>8. CASE HandOn
    BY <1>0, <2>1, <2>8 DEF HandOn, TypeOK
  <2>9. CASE Recover
    BY <2>1, <2>9 DEF Recover, Recovered, NoPlan, NoStep
  <2> QED
    BY <2>2, <2>3, <2>4, <2>5, <2>7, <2>8, <2>9, WhoWritesSteps
<1> QED
  BY <1>0, <1>1, <1>2 DEF TaskMoves, OpenStates

\* The runner's hold.
LEMMA HeldTaskNext ==
  ASSUME LedgerInv, [Next]_vars
  PROVE  HeldTask' /\ RunsAreOfRunningTasks'
<1>0. /\ TypeOK /\ HeldTask /\ OpeningIsPaused /\ RunsAreOfRunningTasks /\ cur \in Tasks
      /\ TaskMoves(cur) /\ OpenerMoves(cur)
      /\ RunnerStates = {"down", "idle", "picked", "givingUp", "finishing", "planning", "starting",
                         "working", "checking", "afterHooks", "handing", "parking"}
  BY TasksAndOpenersMove DEF LedgerInv, TypeOK, RunnerStates
<1>1. CASE Rest
  BY <1>1 DEF Rest, HeldTask, RunsAreOfRunningTasks
<1>2. CASE Crash
  BY <1>2 DEF Crash, HeldTask, RunsAreOfRunningTasks
<1>3. ASSUME NEW t \in Tasks, Pick(t) PROVE HeldTask' /\ RunsAreOfRunningTasks'
  <2>1. tstate[t] \in OpenStates /\ opening[t] = "none"
    BY <1>0, <1>3 DEF Pick, IsFront, OpeningIsPaused, OpenStates, TerminalStates
  <2> QED
    BY <1>3, <2>1 DEF Pick, ledger, openers, HeldTask, RunsAreOfRunningTasks
<1>4. ASSUME pc \notin {"down", "idle"}, pc' # "idle", UNCHANGED <<cur, seen>>
      PROVE  HeldTask'
  <2>1. tstate[cur] \in {seen, "Cancelled", "Deleted"} /\ opening[cur] = "none"
        /\ seen \in OpenStates
    BY <1>0, <1>4 DEF HeldTask
  <2>2. tstate'[cur] \in {tstate[cur], "Cancelled", "Deleted"} /\ opening'[cur] = "none"
    BY <1>0, <1>4, <2>1 DEF TaskMoves, OpenerMoves, OpenStates, TerminalStates
  <2> QED
    BY <1>4, <2>1, <2>2 DEF HeldTask
<1>5. CASE UNCHANGED <<pc, cur, seen>>
  <2>1. CASE pc \in {"down", "idle"}
    BY <1>5, <2>1 DEF HeldTask, RunsAreOfRunningTasks
  <2>2. CASE pc \notin {"down", "idle"}
    BY <1>0, <1>4, <1>5, <2>2 DEF RunsAreOfRunningTasks
  <2> QED
    BY <2>1, <2>2
<1>6. CASE Advance
  <2>1. CASE \E next \in {"givingUp", "finishing", "planning"} : MoveTo(next)
    BY <1>4, <1>6, <2>1 DEF Advance, MoveTo, RunsAreOfRunningTasks
  <2>2. CASE /\ NextRun(seen, plan[cur], fruitless[cur], cur \in late) = "Do"
             /\ pc' = "starting"
             /\ UNCHANGED <<cur, seen>>
    <3>1. seen = "Running"
      BY <2>2 DEF NextRun, OpenStates
    <3> QED
      BY <1>4, <1>6, <2>2, <3>1 DEF Advance, RunsAreOfRunningTasks
  <2> QED
    BY <1>1, <1>6, <2>1, <2>2 DEF Advance
<1>7. ASSUME pc \in {"starting", "working", "checking", "afterHooks"},
             NEW next \in {"working", "checking", "afterHooks", "handing", "parking"}, MoveTo(next)
      PROVE  HeldTask' /\ RunsAreOfRunningTasks'
  BY <1>0, <1>4, <1>7 DEF MoveTo, RunsAreOfRunningTasks
<1>8. CASE StartStep \/ WorkerDoneToCheck \/ FollowUp
  BY <1>1, <1>7, <1>8 DEF StartStep, WorkerDoneToCheck, FollowUp
<1>9. CASE RunEnds
  <2>1. PICK next \in {"idle", "parking", "afterHooks"} :
            Rest \/ (next # "idle" /\ MoveTo(next))
    BY <1>9 DEF RunEnds, Settle
  <2> QED
    BY <1>1, <1>7, <1>9, <2>1 DEF RunEnds
<1>10. CASE RunnerStep
  <2>1. CASE \/ SlotRefused \/ GiveUp \/ Finish \/ PlannerStopped \/ PlannerReturned \/ HandOn
             \/ Park \/ Recover
    BY <1>1, <2>1 DEF SlotRefused, GiveUp, Finish, EndTask, PlannerStopped, PlannerReturned,
                      PlannerEnds, HandOn, Park, Recover
  <2>2. CASE \/ WorkerStopped \/ WorkerFailed \/ WorkerAsks \/ WorkerDone
             \/ VerifierStopped \/ VerifierFails \/ VerifierPasses
    <3>1. RunEnds
      BY <2>2 DEF RunEnds, WorkerStopped, WorkerFailed, WorkerAsks, WorkerDone, VerifierStopped,
                  VerifierFails, VerifierPasses
    <3> QED
      BY <1>9, <3>1
  <2> QED
    BY <1>3, <1>6, <1>8, <1>10, <2>1, <2>2 DEF RunnerStep
<1>11. CASE MemberStep \/ OpenerStep \/ PlannerCall \/ Clock \/ UNCHANGED vars
  BY <1>5, <1>11
     DEF MemberStep, OpenPlanned, OpenPaused, CancelRead, CancelWrite, Delete, OpenerStep,
         StoreFirstStep, SetOpenedRunning, PlannerCall, PlanRead, PlanWrite, Clock,
         DeadlinePasses, vars, runner
<1>12. CASE Error
  BY <1>1, <1>12 DEF Error
<1> QED
  BY <1>2, <1>10, <1>11, <1>12 DEF Next

\* The ledger's invariant is inductive.
LEMMA LedgerInvHolds ==
  /\ Init => LedgerInv
  /\ LedgerInv /\ [Next]_vars => LedgerInv'
<1>1. Init => LedgerInv
  BY TypeInit DEF Init, LedgerInv, CancelsLiveTasks, HeldTask, OpeningIsPaused, RowsHaveTheirTask,
                  RunsAreOfRunningTasks, TerminalStates
<1>2. ASSUME LedgerInv, [Next]_vars PROVE LedgerInv'
  <2>1. TypeOK' /\ CancelsLiveTasks'
    BY <1>2, TypeNext, CancelsLiveTasksNext DEF LedgerInv
  <2>2. OpeningIsPaused'
    <3> SUFFICES ASSUME NEW t \in Tasks, opening'[t] # "none"
                 PROVE  tstate'[t] \in {"Paused", "Deleted"} \cup TerminalStates
      BY DEF OpeningIsPaused
    <3>1. TaskMoves(t) /\ OpenerMoves(t)
      BY <1>2, TasksAndOpenersMove
    <3>2. opening[t] # "none" => tstate[t] \in {"Paused", "Deleted"} \cup TerminalStates
      BY <1>2 DEF LedgerInv, OpeningIsPaused
    <3> QED
      BY <3>1, <3>2 DEF TaskMoves, OpenerMoves, TerminalStates, OpenStates
  <2> QED
    BY <1>2, <2>1, <2>2, HeldTaskNext, RowsHaveTheirTaskNext DEF LedgerInv
<1> QED
  BY <1>1, <1>2

\* A task that is not live now does not become live, unless it is created.
LEMMA NobodyRevives ==
  ASSUME LedgerInv, [Next]_vars, NEW t \in Tasks, Live(t)'
  PROVE  Live(t) \/ (tstate[t] = "Absent" /\ plan[t] = NoPlan)
<1>1. TaskMoves(t)
  BY TasksAndOpenersMove
<1> QED
  BY <1>1 DEF TaskMoves, Live, LedgerInv, RowsHaveTheirTask, TaskStates, OpenStates, TerminalStates

-----------------------------------------------------------------------------
(* How a step row moves.                                                   *)

\* A plan_write under way leaves the task with steps: the ones it keeps, or new ones.
CallHasSteps == call # NoCall => call.new # {} \/ call.kept # {}

\* The ledger, the attempts, the waits and the plan_write together.
WorkInv == LedgerInv /\ AttemptsInv /\ DepsInv /\ CallHasSteps

\* Who may rewrite the open steps of t: its opener, or a plan_write.
Replanner(t) ==
  \/ opening[t] = "created" /\ opening'[t] = "stored"
  \/ call # NoCall /\ t = call.task /\ call' = NoCall

\* What each operation may do to a row: replan it, delete it with its task, start it, settle the
\* run of it, add it as a hand-off, or recover it.
RowMoves(t, k) ==
  \/ plan'[t][k] = plan[t][k]
  \/ /\ Replanner(t) /\ Live(t) /\ UNCHANGED tstate
     /\ plan[t][k].state \notin {"Running", "Completed"}
     /\ plan'[t][k].state \in {"Absent", "Pending"}
     /\ \E j \in Keys : plan'[t][j].state # "Absent"
  \/ tstate'[t] = "Deleted" /\ plan'[t] = NoPlan
  \/ /\ t = cur /\ k = key /\ pc = "starting" /\ UNCHANGED <<cur, key>> /\ pc' = "working"
     /\ plan[t][k].state \in {"Pending", "Failed", "AwaitingApproval"}
     /\ plan'[t][k].state = "Running"
  \/ /\ t = cur /\ k = key /\ pc \in {"working", "checking"}
     /\ plan[t][k].state \in {"Running", "Pending"}
     /\ plan'[t][k].state \in {"Pending", "Failed", "AwaitingApproval", "Completed"}
     /\ plan'[t][k].state = "AwaitingApproval" => pc' = "parking" /\ cur' = cur
     /\ plan'[t][k].state = "Completed" => plan[t][k].state = "Running"
  \/ /\ t = cur /\ pc = "handing" /\ Live(t)
     /\ plan[t][k].state = "Absent" /\ plan'[t][k].state = "Pending"
  \/ /\ pc = "down" /\ Live(t)
     /\ plan[t][k].state = "Running" /\ plan'[t][k].state = "Pending"

\* update_step writes one row, and leaves its waits and its ordinal.
LEMMA UpdateStepRow ==
  ASSUME TypeOK, NEW t \in Tasks, NEW k \in Keys, NEW copy \in Step, UpdateStep(t, k, copy)
  PROVE  /\ \A u \in Tasks, j \in Keys : u # t \/ j # k => plan'[u][j] = plan[u][j]
         /\ StepRefused(t, k, copy) => UNCHANGED plan
         /\ ~StepRefused(t, k, copy) => plan'[t][k].state = copy.state
         /\ plan'[t][k].waits = plan[t][k].waits
         /\ plan'[t][k].ordinal = plan[t][k].ordinal
<1>1. plan[t] \in Plan /\ plan[t][k] \in Step
  BY DEF TypeOK, Plan
<1> QED
  BY <1>1 DEF UpdateStep, TypeOK, Plan, Step

\* replace_open_steps keeps what is done or running and has only pending steps besides.
LEMMA ReplaceRow ==
  ASSUME TypeOK, NEW t \in Tasks, NEW kept \in SUBSET Keys, NEW fresh, NEW new \in SUBSET Keys,
         ReplaceAccepted(t, kept, new), Replanner(t), UNCHANGED tstate,
         new # {} \/ kept # {},
         \A k \in new : fresh[k].state = "Pending",
         plan' = [plan EXCEPT ![t] = Replaced(plan[t], fresh, new)]
  PROVE  \A u \in Tasks, j \in Keys : RowMoves(u, j)
<1>1. ASSUME NEW j \in Keys
      PROVE  plan'[t][j] = IF j \in new THEN fresh[j]
                           ELSE IF j \in Kept(plan[t]) THEN plan[t][j] ELSE NoStep
  BY <1>1 DEF TypeOK, Replaced
<1>2. \E j \in Keys : plan'[t][j].state # "Absent"
  <2>1. CASE new # {}
    <3>1. PICK j \in new : TRUE
      BY <2>1
    <3>2. j \in Keys /\ plan'[t][j] = fresh[j] /\ fresh[j].state = "Pending"
      BY <1>1, <3>1
    <3> QED
      BY <3>2
  <2>2. CASE kept # {}
    <3>1. PICK j \in kept : TRUE
      BY <2>2
    <3>2. j \in Kept(plan[t]) /\ j \notin new /\ j \in Keys
      BY <3>1 DEF ReplaceAccepted, CheckCurrent
    <3> QED
      BY <1>1, <3>2 DEF Kept, SurvivesReplan
  <2> QED
    BY <2>1, <2>2
<1>3. ASSUME NEW j \in Keys PROVE RowMoves(t, j)
  <2>1. CASE j \in Kept(plan[t])
    <3>1. j \notin new
      BY <2>1 DEF ReplaceAccepted, CheckCurrent
    <3> QED
      BY <1>1, <2>1, <3>1 DEF RowMoves
  <2>2. CASE j \notin Kept(plan[t])
    <3>1. plan[t][j].state \notin {"Running", "Completed"}
      BY <2>2 DEF Kept, SurvivesReplan
    <3>2. plan'[t][j].state \in {"Absent", "Pending"}
      BY <1>1, <2>2 DEF NoStep
    <3>3. Live(t)
      BY DEF ReplaceAccepted
    <3> QED
      BY <1>2, <3>1, <3>2, <3>3 DEF RowMoves
  <2> QED
    BY <2>1, <2>2
<1>4. ASSUME NEW u \in Tasks, u # t, NEW j \in Keys PROVE RowMoves(u, j)
  BY <1>4 DEF RowMoves, TypeOK
<1> QED
  BY <1>3, <1>4

\* Every operation moves rows in these ways only.
LEMMA RowsMove ==
  ASSUME WorkInv, [Next]_vars
  PROVE  \A t \in Tasks, k \in Keys : RowMoves(t, k)
<1>0. /\ TypeOK /\ LedgerInv /\ CallIsFresh /\ CallHasSteps /\ AttemptAllowed
      /\ cur \in Tasks /\ key \in Keys /\ step \in Step
  BY DEF WorkInv, LedgerInv, AttemptsInv, TypeOK
<1>1. CASE UNCHANGED plan
  BY <1>1 DEF RowMoves
<1>2. ASSUME NEW t \in Tasks, StoreFirstStep(t) PROVE \A u \in Tasks, j \in Keys : RowMoves(u, j)
  <2>1. CASE UNCHANGED plan
    BY <1>1, <2>1
  <2>2. CASE /\ ReplaceAccepted(t, {}, {FirstKey}) /\ UNCHANGED tstate
             /\ plan' = [plan EXCEPT ![t] =
                            Replaced(plan[t], Replanned(NoPlan, OneStep), {FirstKey})]
             /\ opening' = [opening EXCEPT ![t] = "stored"]
    <3>1. {FirstKey} \in SUBSET Keys /\ {FirstKey} # {} /\ {} \in SUBSET Keys
      BY TaskAssumption
    <3>2. Replanner(t)
      BY <1>0, <1>2, <2>2 DEF StoreFirstStep, Replanner, TypeOK
    <3>3. \A k \in {FirstKey} : Replanned(NoPlan, OneStep)[k].state = "Pending"
      BY FirstStepIsFree
    <3> QED
      BY <1>0, <2>2, <3>1, <3>2, <3>3, ReplaceRow
  <2> QED
    BY <1>2, <2>1, <2>2 DEF StoreFirstStep
<1>3. ASSUME NEW t \in Tasks, Delete(t) PROVE \A u \in Tasks, j \in Keys : RowMoves(u, j)
  <2>1. /\ tstate'[t] = "Deleted" /\ plan'[t] = NoPlan
        /\ \A u \in Tasks : u # t => plan'[u] = plan[u]
    BY <1>0, <1>3 DEF Delete, TypeOK
  <2> QED
    BY <2>1 DEF RowMoves
<1>4. CASE PlanWrite
  <2>1. CASE UNCHANGED plan
    BY <1>1, <2>1
  <2>2. CASE /\ ReplaceAccepted(call.task, call.kept, call.new)
             /\ plan' = [plan EXCEPT ![call.task] =
                            Replaced(plan[call.task], call.fresh, call.new)]
    <3>1. call.new \in SUBSET Keys /\ call.kept \in SUBSET Keys /\ call # NoCall
      BY <1>0, <1>4 DEF TypeOK, Call, PlanWrite
    <3>2. CASE call.task \in Tasks
      <4>1. Replanner(call.task) /\ (call.new # {} \/ call.kept # {}) /\ UNCHANGED tstate
        BY <1>0, <1>4, <3>1 DEF Replanner, CallHasSteps, PlanWrite
      <4>2. \A k \in call.new : call.fresh[k].state = "Pending"
        BY <1>0 DEF CallIsFresh
      <4> QED
        BY <1>0, <2>2, <3>1, <3>2, <4>1, <4>2, ReplaceRow
    <3>3. CASE call.task \notin Tasks
      <4>1. UNCHANGED plan
        BY <1>0, <2>2, <3>3 DEF TypeOK
      <4> QED
        BY <1>1, <4>1
    <3> QED
      BY <3>2, <3>3
  <2> QED
    BY <1>4, <2>1, <2>2 DEF PlanWrite
<1>5. CASE StartStep
  <2>1. CASE StepRefused(cur, key, step)
    BY <1>1, <1>5, <2>1 DEF StartStep, UpdateStep
  <2>2. CASE ~StepRefused(cur, key, step)
    <3>1. step.state = "Running"
      BY <1>0, <1>5 DEF AttemptAllowed, StartStep
    <3>2. /\ \A u \in Tasks, j \in Keys : u # cur \/ j # key => plan'[u][j] = plan[u][j]
          /\ plan'[cur][key].state = "Running"
      BY <1>0, <1>5, <2>2, <3>1, UpdateStepRow DEF StartStep
    <3>3. plan[cur][key].state \in {"Pending", "Failed", "AwaitingApproval"}
      BY <2>2, <3>1 DEF StepRefused, StepCanBecome
    <3>4. pc = "starting" /\ pc' = "working" /\ UNCHANGED <<cur, key>>
      BY <1>5, <2>2 DEF StartStep, MoveTo
    <3> QED
      BY <3>2, <3>3, <3>4 DEF RowMoves
  <2> QED
    BY <2>1, <2>2
<1>6. ASSUME pc \in {"working", "checking"},
             NEW copy \in Step, NEW next, Settle(copy, next),
             copy.state \in {"Pending", "Failed", "AwaitingApproval", "Completed"},
             copy.state = "AwaitingApproval" => next = "parking"
      PROVE  \A u \in Tasks, j \in Keys : RowMoves(u, j)
  <2>1. CASE StepRefused(cur, key, copy)
    BY <1>1, <1>6, <2>1 DEF Settle, UpdateStep
  <2>2. CASE ~StepRefused(cur, key, copy)
    <3>1. /\ \A u \in Tasks, j \in Keys : u # cur \/ j # key => plan'[u][j] = plan[u][j]
          /\ plan'[cur][key].state = copy.state
      BY <1>0, <1>6, <2>2, UpdateStepRow DEF Settle
    <3>2. /\ plan[cur][key].state \in {"Running", "Pending"}
          /\ copy.state = "Completed" => plan[cur][key].state = "Running"
      BY <1>6, <2>2 DEF StepRefused, StepCanBecome
    <3>3. copy.state = "AwaitingApproval" => pc' = "parking" /\ cur' = cur
      BY <1>6, <2>2 DEF Settle, MoveTo
    <3> QED
      BY <1>6, <3>1, <3>2, <3>3 DEF RowMoves
  <2> QED
    BY <2>1, <2>2
<1>7. CASE HandOn
  <2>1. ASSUME NEW k \in HandOffKeys,
               AppendAccepted(seen, plan[cur], k, key, Cap(cur)), Live(cur),
               plan' = [plan EXCEPT ![cur] = Appended(plan[cur], k, key)]
        PROVE  \A u \in Tasks, j \in Keys : RowMoves(u, j)
    <3>1. k \in Keys /\ plan[cur][k].state = "Absent" /\ plan[cur] \in Plan
      BY <1>0, <2>1, TaskAssumption DEF AppendAccepted, Present, TypeOK
    <3>2. /\ plan'[cur][k].state = "Pending"
          /\ \A u \in Tasks, j \in Keys : u # cur \/ j # k => plan'[u][j] = plan[u][j]
      BY <1>0, <2>1, <3>1 DEF Appended, TypeOK, Plan
    <3> QED
      BY <1>7, <2>1, <3>1, <3>2 DEF RowMoves, HandOn
  <2> QED
    BY <1>1, <1>7, <2>1 DEF HandOn
<1>8. CASE Recover
  <2>1. ASSUME NEW t \in Tasks, NEW k \in Keys PROVE RowMoves(t, k)
    <3>1. plan[t][k] \in Step
      BY <1>0 DEF TypeOK, Plan
    <3>2. plan'[t][k] = IF Live(t) /\ plan[t][k].state = "Running"
                        THEN Preempted(plan[t][k]) ELSE plan[t][k]
      BY <1>8 DEF Recover, Recovered
    <3> QED
      BY <1>8, <3>1, <3>2, PreemptedType DEF RowMoves, Recover
  <2> QED
    BY <2>1
<1>9. CASE \/ WorkerStopped \/ WorkerFailed \/ WorkerAsks \/ WorkerDone
           \/ VerifierStopped \/ VerifierFails \/ VerifierPasses
  <2>1. ASSUME NEW to \in {"Failed", "AwaitingApproval", "Completed"}
        PROVE  Settled(step, to) \in Step /\ Settled(step, to).state = to
    BY <1>0, <2>1, SettledType DEF StepStates
  <2>2. Preempted(step) \in Step /\ Preempted(step).state = "Pending"
    BY <1>0, PreemptedType
  <2>3. CASE WorkerStopped \/ VerifierStopped
    BY <1>6, <2>2, <2>3 DEF WorkerStopped, VerifierStopped
  <2>4. CASE WorkerFailed \/ VerifierFails
    BY <1>6, <2>1, <2>4 DEF WorkerFailed, VerifierFails
  <2>5. CASE WorkerAsks
    BY <1>6, <2>1, <2>5 DEF WorkerAsks
  <2>6. CASE WorkerDone \/ VerifierPasses
    BY <1>6, <2>1, <2>6 DEF WorkerDone, VerifierPasses
  <2> QED
    BY <1>9, <2>3, <2>4, <2>5, <2>6
<1>10. \/ UNCHANGED plan
       \/ \E t \in Tasks : StoreFirstStep(t) \/ Delete(t)
       \/ PlanWrite \/ StartStep \/ HandOn \/ Recover
       \/ WorkerStopped \/ WorkerFailed \/ WorkerAsks \/ WorkerDone
       \/ VerifierStopped \/ VerifierFails \/ VerifierPasses
  BY DEF Next, vars, ledger, MemberStep, OpenPlanned, OpenPaused, CancelRead, CancelWrite,
         OpenerStep, SetOpenedRunning, PlannerCall, PlanRead, Clock, DeadlinePasses, Error, Crash,
         RunnerStep, Pick, SlotRefused, Advance, GiveUp, Finish, EndTask, PlannerStopped,
         PlannerReturned, WorkerDoneToCheck, FollowUp, Park
<1> QED
  BY <1>1, <1>2, <1>3, <1>4, <1>5, <1>7, <1>8, <1>9, <1>10

\* plan_write always leaves the task with steps.
LEMMA CallHasStepsNext ==
  ASSUME TypeOK, CallHasSteps, [Next]_vars
  PROVE  CallHasSteps'
<1>1. \/ UNCHANGED call
      \/ PlanRead
      \/ call' = NoCall
  BY DEF Next, vars, MemberStep, OpenerStep, PlannerCall, RunnerStep, Clock, Error, Crash,
         OpenPlanned, OpenPaused, CancelRead, CancelWrite, Delete, StoreFirstStep,
         SetOpenedRunning, PlanWrite, DeadlinePasses, Pick, SlotRefused, Advance, GiveUp, Finish,
         EndTask, PlannerStopped, PlannerReturned, PlannerEnds, StartStep, Settle, WorkerStopped,
         WorkerFailed, WorkerAsks, WorkerDone, WorkerDoneToCheck, VerifierStopped, VerifierFails,
         VerifierPasses, FollowUp, HandOn, Park, Recover
<1>2. CASE PlanRead
  <2>1. PICK drafts \in Drafts :
           /\ PlanAccepted(tstate[cur], plan[cur], drafts, Cap(cur))
           /\ call' = [task |-> cur, kept |-> Kept(plan[cur]),
                       fresh |-> Replanned(plan[cur], drafts), new |-> DraftKeys(drafts)]
    BY <1>2 DEF PlanRead
  <2>2. drafts \in Seq(Draft)
    BY TaskAssumption
  <2>3. ASSUME drafts # <<>> PROVE DraftKeys(drafts) # {}
    <3>1. 1 \in DOMAIN drafts
      BY <2>2, <2>3
    <3> QED
      BY <3>1 DEF DraftKeys
  <2> QED
    BY <2>1, <2>3 DEF CallHasSteps, PlanAccepted
<1> QED
  BY <1>1, <1>2 DEF CallHasSteps

\* The four together are inductive.
LEMMA WorkInvHolds ==
  /\ Init => WorkInv
  /\ WorkInv /\ [Next]_vars => WorkInv'
<1>1. Init => CallHasSteps
  BY DEF Init, CallHasSteps
<1>2. WorkInv /\ [Next]_vars => CallHasSteps'
  BY CallHasStepsNext DEF WorkInv, LedgerInv
<1> QED
  BY <1>1, <1>2, LedgerInvHolds, AttemptsInvHolds, DepsInvHolds DEF WorkInv

-----------------------------------------------------------------------------
(* A short answer and an activation are seen with their step.              *)

\* A task's kind is given to it when it is created, and only a paused one is left to an opener.
LEMMA KindsStay ==
  ASSUME TypeOK, [Next]_vars, NEW t \in Tasks
  PROVE  \/ tkind'[t] = tkind[t]
         \/ /\ tstate[t] = "Absent" /\ tstate'[t] # "Absent"
            /\ tstate'[t] # "Paused" => tkind'[t] \in {"planned", "followup"}
<1>1. ASSUME NEW u \in Tasks, NEW kind, NEW state \in {"Planning", "Paused"}, Create(u, kind, state),
             state = "Paused" \/ kind \in {"planned", "followup"}
      PROVE  \/ tkind'[t] = tkind[t]
             \/ /\ tstate[t] = "Absent" /\ tstate'[t] # "Absent"
                /\ tstate'[t] # "Paused" => tkind'[t] \in {"planned", "followup"}
  BY <1>1 DEF Create, TypeOK
<1>2. \/ UNCHANGED tkind
      \/ \E u \in Tasks : OpenPlanned(u) \/ OpenPaused(u)
      \/ \E u \in Tasks : Create(u, "followup", "Planning")
  BY DEF Next, vars, ledger, MemberStep, CancelRead, CancelWrite, Delete, OpenerStep,
         StoreFirstStep, SetOpenedRunning, PlannerCall, PlanRead, PlanWrite, Clock, DeadlinePasses,
         Error, Crash, RunnerStep, Pick, SlotRefused, Advance, GiveUp, Finish, EndTask,
         PlannerStopped, PlannerReturned, StartStep, Settle, WorkerStopped, WorkerFailed,
         WorkerAsks, WorkerDone, WorkerDoneToCheck, VerifierStopped, VerifierFails,
         VerifierPasses, FollowUp, HandOn, Park, Recover
<1> QED
  BY <1>1, <1>2 DEF OpenPlanned, OpenPaused

\* An absent task has no kind yet.
AbsentHasNoKind == \A t \in Tasks : tstate[t] = "Absent" => tkind[t] = "none"

\* A short answer or an activation that an opener has let run, or may let run next, has its step.
OpenersLeaveAStep ==
  \A t \in Tasks :
      /\ opening[t] = "stored" /\ Live(t) => Present(plan[t]) # {}
      /\ /\ tkind[t] \in {"quick", "activation"}
         /\ tstate[t] \in OpenStates
         => Present(plan[t]) # {}

\* A task keeps having steps until it is deleted.
LEMMA StepsStay ==
  ASSUME WorkInv, [Next]_vars, NEW t \in Tasks, Present(plan[t]) # {}, tstate'[t] # "Deleted"
  PROVE  Present(plan[t])' # {}
<1>1. PICK k \in Keys : plan[t][k].state # "Absent"
  BY DEF Present
<1>2. RowMoves(t, k)
  BY RowsMove
<1> QED
  BY <1>1, <1>2 DEF RowMoves, Present

\* A first step is stored only together with the row of it.
LEMMA StoringStores ==
  ASSUME WorkInv, [Next]_vars, NEW t \in Tasks, opening[t] # "stored", opening'[t] = "stored"
  PROVE  Present(plan[t])' # {}
<1>0. TypeOK
  BY DEF WorkInv, LedgerInv
<1>1. \/ UNCHANGED opening
      \/ \E u \in Tasks : OpenPaused(u) \/ StoreFirstStep(u) \/ SetOpenedRunning(u)
      \/ Crash
  BY DEF Next, vars, openers, MemberStep, OpenPlanned, CancelRead, CancelWrite, Delete, OpenerStep,
         PlannerCall, PlanRead, PlanWrite, Clock, DeadlinePasses,
         Error, RunnerStep, Pick, SlotRefused, Advance, GiveUp, Finish, EndTask,
         PlannerStopped, PlannerReturned, StartStep, Settle, WorkerStopped, WorkerFailed,
         WorkerAsks, WorkerDone, WorkerDoneToCheck, VerifierStopped, VerifierFails,
         VerifierPasses, FollowUp, HandOn, Park, Recover
<1>2. StoreFirstStep(t)
  BY <1>0, <1>1 DEF OpenPaused, StoreFirstStep, OpenerCancels, SetOpenedRunning, Crash, TypeOK
<1>3. plan' = [plan EXCEPT ![t] = Replaced(plan[t], Replanned(NoPlan, OneStep), {FirstKey})]
  BY <1>0, <1>2 DEF StoreFirstStep, OpenerCancels, TypeOK
<1>4. FirstKey \in Keys /\ plan'[t][FirstKey] = Replanned(NoPlan, OneStep)[FirstKey]
  BY <1>0, <1>3, TaskAssumption DEF TypeOK, Replaced
<1>5. plan'[t][FirstKey].state # "Absent"
  BY <1>4, FirstStepIsFree
<1> QED
  BY <1>4, <1>5 DEF Present

\* Every operation keeps it so.
LEMMA OpenersLeaveAStepNext ==
  ASSUME WorkInv, AbsentHasNoKind, OpenersLeaveAStep, [Next]_vars
  PROVE  AbsentHasNoKind' /\ OpenersLeaveAStep'
<1>0. TypeOK /\ LedgerInv
  BY DEF WorkInv, LedgerInv
<1>1. ASSUME NEW t \in Tasks, tstate'[t] = "Absent" PROVE tkind'[t] = "none"
  <2>1. tstate[t] = "Absent"
    BY <1>0, <1>1, TasksAndOpenersMove DEF TaskMoves
  <2>2. tkind'[t] = tkind[t]
    BY <1>0, <1>1, KindsStay
  <2> QED
    BY <2>1, <2>2 DEF AbsentHasNoKind
<1>2. ASSUME NEW t \in Tasks, opening'[t] = "stored", Live(t)' PROVE Present(plan[t])' # {}
  <2>1. tstate'[t] # "Deleted"
    BY <1>2 DEF Live, TaskStates, OpenStates, TerminalStates
  <2>2. CASE opening[t] = "stored"
    <3>1. Live(t)
      <4>1. tstate[t] # "Absent"
        BY <1>0, <2>2 DEF LedgerInv, OpeningIsPaused, TerminalStates
      <4> QED
        BY <1>0, <1>2, <4>1, NobodyRevives
    <3> QED
      BY <2>1, <2>2, <3>1, StepsStay DEF OpenersLeaveAStep
  <2>3. CASE opening[t] # "stored"
    BY <1>2, <2>3, StoringStores
  <2> QED
    BY <2>2, <2>3
<1>3. ASSUME NEW t \in Tasks, tkind'[t] \in {"quick", "activation"}, tstate'[t] \in OpenStates
      PROVE  Present(plan[t])' # {}
  <2>1. tkind'[t] = tkind[t] /\ tstate[t] # "Absent"
    <3>1. tstate'[t] # "Paused"
      BY <1>3 DEF OpenStates
    <3>2. tkind'[t] = tkind[t]
      BY <1>0, <1>3, <3>1, KindsStay
    <3> QED
      BY <1>3, <3>2 DEF AbsentHasNoKind
  <2>2. TaskMoves(t)
    BY <1>0, TasksAndOpenersMove
  <2>3. tstate'[t] # "Deleted"
    BY <1>3 DEF OpenStates
  <2>4. Present(plan[t]) # {}
    <3>1. CASE tstate[t] \in OpenStates
      BY <1>3, <2>1, <3>1 DEF OpenersLeaveAStep
    <3>2. CASE opening[t] = "stored" /\ tstate[t] = "Paused"
      BY <3>2 DEF OpenersLeaveAStep, Live, TaskStates, OpenStates, TerminalStates
    <3> QED
      BY <1>3, <2>1, <2>2, <3>1, <3>2 DEF TaskMoves, OpenStates
  <2> QED
    BY <2>3, <2>4, StepsStay
<1> QED
  BY <1>1, <1>2, <1>3 DEF AbsentHasNoKind, OpenersLeaveAStep

\* A short answer or an activation that the runner can see has its step: it is created paused, let
\* run only after its step is stored, and no replan takes all its steps away.  The planner is never
\* asked to plan it from nothing, through any interleaving with cancels, deletes, plan_write calls
\* that outlived their run, errors and crashes between the opener's three calls.
THEOREM OpenedHasItsStep == Spec => []OpenedWithItsStep
<1> DEFINE Inv == WorkInv /\ AbsentHasNoKind /\ OpenersLeaveAStep
<1>1. Init => Inv
  <2>1. Init => AbsentHasNoKind /\ OpenersLeaveAStep
    BY DEF Init, AbsentHasNoKind, OpenersLeaveAStep, OpenStates
  <2> QED
    BY <2>1, WorkInvHolds
<1>2. Inv /\ [Next]_vars => Inv'
  BY WorkInvHolds, OpenersLeaveAStepNext
<1>3. Inv => OpenedWithItsStep
  BY DEF OpenersLeaveAStep, OpenedWithItsStep
<1> QED
  BY <1>1, <1>2, <1>3, PTL DEF Spec

-----------------------------------------------------------------------------
(* A running step has its runner.                                          *)

\* Errors and restarts are only ever counted up.
LEMMA FailuresGrow ==
  ASSUME TypeOK, [Next]_vars
  PROVE  (faults' = 0 => faults = 0) /\ (crashes' = 0 => crashes = 0)
<1>1. faults \in Nat /\ crashes \in Nat
  BY TaskAssumption DEF TypeOK
<1>2. /\ UNCHANGED faults \/ faults' = faults + 1
      /\ UNCHANGED crashes \/ crashes' = crashes + 1
  BY DEF Next, vars, MemberStep, OpenerStep, PlannerCall, RunnerStep, Clock, Error, Crash,
         OpenPlanned, OpenPaused, CancelRead, CancelWrite, Delete, StoreFirstStep,
         SetOpenedRunning, PlanRead, PlanWrite, DeadlinePasses, Pick, SlotRefused, Advance, GiveUp,
         Finish, EndTask, PlannerStopped, PlannerReturned, PlannerEnds, StartStep, Settle,
         WorkerStopped, WorkerFailed, WorkerAsks, WorkerDone, WorkerDoneToCheck, VerifierStopped,
         VerifierFails, VerifierPasses, FollowUp, HandOn, Park, Recover, failures
<1> QED
  BY <1>1, <1>2

\* Without an error and without a crash, the runner leaves a helper's run by settling its step, a
\* parking by parking, and its start by the recovery.
LEMMA RunnerLeaves ==
  ASSUME TypeOK, [Next]_vars, faults' = 0, pc' # "down"
  PROVE  /\ pc \in {"working", "checking"} =>
                \/ pc' \in {"working", "checking"} /\ UNCHANGED <<cur, key>>
                \/ RunEnds
         /\ pc = "parking" => (pc' = "parking" /\ UNCHANGED cur) \/ Park
         /\ pc = "down" => Recover
<1>1. ~Error /\ ~Crash
  BY TaskAssumption DEF Error, Crash, TypeOK
<1>2. CASE MemberStep \/ OpenerStep \/ PlannerCall \/ Clock \/ UNCHANGED vars
  BY <1>2 DEF MemberStep, OpenPlanned, OpenPaused, CancelRead, CancelWrite, Delete, OpenerStep,
              StoreFirstStep, SetOpenedRunning, PlannerCall, PlanRead, PlanWrite, Clock,
              DeadlinePasses, vars, runner
<1>3. CASE RunnerStep
  <2>1. CASE \/ WorkerStopped \/ WorkerFailed \/ WorkerAsks \/ WorkerDone
             \/ VerifierStopped \/ VerifierFails \/ VerifierPasses
    <3>1. RunEnds
      BY <2>1 DEF RunEnds, WorkerStopped, WorkerFailed, WorkerAsks, WorkerDone, VerifierStopped,
                  VerifierFails, VerifierPasses
    <3> QED
      BY <3>1 DEF RunEnds
  <2>2. CASE WorkerDoneToCheck
    BY <2>2 DEF WorkerDoneToCheck, MoveTo
  <2>3. CASE Park \/ Recover
    BY <2>3 DEF Park, Recover
  <2>4. CASE pc \notin {"working", "checking", "parking", "down"}
    BY <2>4
  <2> QED
    BY <1>3, <2>1, <2>2, <2>3, <2>4
       DEF RunnerStep, Pick, SlotRefused, Advance, GiveUp, Finish, EndTask, PlannerStopped,
           PlannerReturned, PlannerEnds, StartStep, FollowUp, HandOn
<1> QED
  BY <1>1, <1>2, <1>3 DEF Next

\* A run that has ended leaves its row not running.
LEMMA SettledIsNotRunning ==
  ASSUME TypeOK, RunEnds
  PROVE  plan'[cur][key].state # "Running"
<1>0. cur \in Tasks /\ key \in Keys /\ step \in Step
  BY DEF TypeOK
<1>1. PICK copy \in Step :
         /\ UpdateStep(cur, key, copy)
         /\ copy.state \in {"Pending", "Failed", "AwaitingApproval", "Completed"}
  <2>1. \A to \in {"Failed", "AwaitingApproval", "Completed"} :
           Settled(step, to) \in Step /\ Settled(step, to).state = to
    BY <1>0, SettledType DEF StepStates
  <2>2. Preempted(step) \in Step /\ Preempted(step).state = "Pending"
    BY <1>0, PreemptedType
  <2> QED
    BY <2>1, <2>2 DEF RunEnds, Settle
<1>2. StepRefused(cur, key, copy) => plan[cur][key].state # "Running"
  BY <1>1 DEF StepRefused, StepCanBecome
<1> QED
  BY <1>0, <1>1, <1>2, UpdateStepRow

\* Every operation keeps RunningHasARunner.
LEMMA RunningHasARunnerNext ==
  ASSUME WorkInv, RunningHasARunner, [Next]_vars
  PROVE  RunningHasARunner'
<1> SUFFICES ASSUME faults' = 0, pc' # "down", NEW t \in Tasks, NEW k \in Keys,
                    plan'[t][k].state = "Running", Live(t)'
             PROVE  pc' \in {"working", "checking"} /\ cur' = t /\ key' = k
  BY DEF RunningHasARunner, Live
<1>0. TypeOK /\ LedgerInv /\ cur \in Tasks /\ key \in Keys /\ faults = 0
  BY FailuresGrow DEF WorkInv, LedgerInv, TypeOK
<1>1. RowMoves(t, k)
  BY RowsMove
<1>2. CASE plan'[t][k] = plan[t][k]
  <2>1. Live(t)
    BY <1>0, <1>2, NobodyRevives DEF NoPlan, NoStep
  <2>2. CASE pc = "down"
    <3>1. Recover
      BY <1>0, <2>2, RunnerLeaves
    <3>2. plan[t][k] \in Step
      BY <1>0 DEF TypeOK, Plan
    <3>3. plan'[t][k] = Preempted(plan[t][k])
      BY <1>2, <2>1, <3>1 DEF Recover, Recovered
    <3> QED
      BY <3>2, <3>3, PreemptedType
  <2>3. CASE pc # "down"
    <3>1. pc \in {"working", "checking"} /\ cur = t /\ key = k
      BY <1>0, <1>2, <2>1, <2>3 DEF RunningHasARunner
    <3>2. ~RunEnds
      BY <1>0, <3>1, SettledIsNotRunning
    <3> QED
      BY <1>0, <3>1, <3>2, RunnerLeaves
  <2> QED
    BY <2>2, <2>3
<1>3. CASE tstate'[t] = "Deleted"
  BY <1>3 DEF Live, TaskStates, OpenStates, TerminalStates
<1> QED
  BY <1>1, <1>2, <1>3 DEF RowMoves

\* A step the ledger calls Running is the one the runner works on, as long as no ledger call has
\* failed: every helper's run is settled before the runner looks at anything else, a cancel leaves
\* the row to the runner that holds it, and a restart takes up what a crash left running.
THEOREM RunningStepsHaveTheirRunner == Spec => []RunningHasARunner
<1>1. Init => RunningHasARunner
  BY DEF Init, RunningHasARunner
<1> QED
  BY <1>1, WorkInvHolds, RunningHasARunnerNext, PTL DEF Spec

-----------------------------------------------------------------------------
(* Told done means done.                                                   *)

\* The decision to finish still holds when it is written.
FinishHolds ==
  overruns = 0 =>
      (pc = "finishing" /\ tstate[cur] \in OpenStates => AllSettled(plan[cur]))

\* Nobody else writes the rows of the task the runner holds, as long as no plan_write outlived its
\* run.
LEMMA HeldPlanIsTheRunners ==
  ASSUME WorkInv, overruns = 0, pc \notin {"down", "idle", "planning"}
  PROVE  ~Replanner(cur)
<1>1. call = NoCall
  BY DEF WorkInv, DepsInv, CallWithinRun
<1> QED
  BY <1>1 DEF WorkInv, LedgerInv, HeldTask, Replanner

\* The steps a task is finished for stay settled until it is.
LEMMA FinishHoldsNext ==
  ASSUME WorkInv, FinishHolds, [Next]_vars
  PROVE  FinishHolds'
<1> SUFFICES ASSUME overruns' = 0, pc' = "finishing", tstate'[cur'] \in OpenStates
             PROVE  AllSettled(plan[cur])'
  BY DEF FinishHolds
<1>0. TypeOK /\ LedgerInv /\ HeldTask /\ overruns = 0 /\ cur \in Tasks
  BY OverrunsGrow DEF WorkInv, LedgerInv, TypeOK
<1>1. Advance \/ (pc = "finishing" /\ UNCHANGED cur)
  BY RunnerMoves DEF Pick, Rest, StartStep, RunEnds, Settle, WorkerDoneToCheck, FollowUp, Crash,
                     MoveTo
<1>2. CASE Advance
  <2>1. NextRun(seen, plan[cur], fruitless[cur], cur \in late) = "Finish" /\ UNCHANGED <<plan, cur>>
    BY <1>2 DEF Advance, Rest, MoveTo, ledger
  <2>2. AllSettled(plan[cur])
    BY <2>1 DEF NextRun
  <2> QED
    BY <2>1, <2>2 DEF AllSettled, Present
<1>3. CASE pc = "finishing" /\ UNCHANGED cur
  <2>1. tstate[cur] \in OpenStates
    <3>1. TaskMoves(cur)
      BY <1>0, TasksAndOpenersMove
    <3> QED
      BY <1>0, <1>3, <3>1 DEF HeldTask, TaskMoves, OpenStates
  <2>2. AllSettled(plan[cur])
    BY <1>0, <1>3, <2>1 DEF FinishHolds
  <2>3. ASSUME NEW k \in Keys PROVE plan'[cur][k] = plan[cur][k]
    <3>1. RowMoves(cur, k) /\ ~Replanner(cur)
      BY <1>0, <1>3, RowsMove, HeldPlanIsTheRunners
    <3>2. tstate'[cur] # "Deleted"
      BY <1>3 DEF OpenStates
    <3> QED
      BY <1>3, <3>1, <3>2 DEF RowMoves
  <2> QED
    BY <1>3, <2>2, <2>3 DEF AllSettled, Present
<1> QED
  BY <1>1, <1>2, <1>3

\* Every operation keeps CompletedMeansSettled.
LEMMA CompletedMeansSettledNext ==
  ASSUME WorkInv, FinishHolds, CompletedMeansSettled, [Next]_vars
  PROVE  CompletedMeansSettled'
<1> SUFFICES ASSUME overruns' = 0, NEW t \in Tasks, NEW k \in Keys, tstate'[t] = "Completed"
             PROVE  plan'[t][k].state \in {"Absent", "Completed", "Skipped"}
  BY DEF CompletedMeansSettled
<1>0. /\ TypeOK /\ LedgerInv /\ HeldTask /\ overruns = 0 /\ cur \in Tasks
      /\ TaskMoves(t) /\ RowMoves(t, k)
  BY OverrunsGrow, TasksAndOpenersMove, RowsMove DEF WorkInv, LedgerInv, TypeOK
<1>1. CASE tstate[t] = "Completed"
  <2>1. ~Live(t)
    BY <1>1 DEF Live, TerminalStates
  <2>2. pc \notin {"down", "idle"} => t # cur
    BY <1>0, <1>1 DEF HeldTask, OpenStates
  <2>3. plan'[t][k] = plan[t][k]
    BY <1>0, <2>1, <2>2 DEF RowMoves
  <2> QED
    BY <1>0, <1>1, <2>3 DEF CompletedMeansSettled
<1>2. CASE t = cur /\ tstate[t] \in OpenStates /\ pc = "finishing"
  <2>1. AllSettled(plan[t])
    BY <1>0, <1>2 DEF FinishHolds
  <2>2. plan'[t][k] = plan[t][k]
    <3>1. ~Replanner(t)
      BY <1>0, <1>2, HeldPlanIsTheRunners
    <3> QED
      BY <1>0, <1>2, <3>1 DEF RowMoves
  <2>3. plan[t][k] \in Step
    BY <1>0 DEF TypeOK, Plan
  <2> QED
    BY <2>1, <2>2, <2>3 DEF AllSettled, Present
<1> QED
  BY <1>0, <1>1, <1>2 DEF TaskMoves

\* A task is told done only when every step it has is completed or skipped, although the runner
\* decides so from one read of the steps and writes it in a later call: while it holds the task
\* nobody else writes its rows, and a cancel that comes between makes the write a refusal.
THEOREM CompletedIsSettled == Spec => []CompletedMeansSettled
<1>1. Init => FinishHolds /\ CompletedMeansSettled
  BY DEF Init, FinishHolds, CompletedMeansSettled
<1>2. WorkInv /\ FinishHolds /\ CompletedMeansSettled /\ [Next]_vars
        => FinishHolds' /\ CompletedMeansSettled'
  BY FinishHoldsNext, CompletedMeansSettledNext
<1> QED
  BY <1>1, <1>2, WorkInvHolds, PTL DEF Spec

-----------------------------------------------------------------------------
(* Plans that can be walked.                                               *)

\* The steps of a plan have ordinals of their own.
OrderedSteps(p) == \A j, k \in Present(p) : p[j].ordinal = p[k].ordinal => j = k

\* A plan that can be walked, within a budget of steps: PlanSound of one task.
Walkable(p, cap) ==
  /\ WaitsPresent(p)
  /\ Acyclic(p, Present(p))
  /\ Cardinality(Present(p)) <= cap
  /\ OrderedSteps(p)

\* A plan with the same rows, waits and ordinals is as good.
LEMMA WalkableSame ==
  ASSUME NEW p, NEW q, NEW cap, Walkable(p, cap),
         \A k \in Keys : /\ (p[k].state = "Absent") <=> (q[k].state = "Absent")
                         /\ q[k].waits = p[k].waits
                         /\ q[k].ordinal = p[k].ordinal
  PROVE  Walkable(q, cap)
<1>1. Present(q) = Present(p)
  BY DEF Present
<1>2. \A k \in Present(p) : q[k].waits = p[k].waits /\ q[k].ordinal = p[k].ordinal
  BY DEF Present
<1>3. WaitsPresent(q) /\ OrderedSteps(q)
  BY <1>1, <1>2 DEF Walkable, WaitsPresent, OrderedSteps
<1>4. Acyclic(q, Present(q))
  BY <1>1, <1>2 DEF Walkable, Acyclic
<1> QED
  BY <1>1, <1>3, <1>4 DEF Walkable

\* No steps at all are a plan that can be walked.
LEMMA NothingIsWalkable ==
  ASSUME NEW p, Present(p) = {}, NEW cap \in Nat
  PROVE  Walkable(p, cap)
BY FS_EmptySet DEF Walkable, WaitsPresent, Acyclic, OrderedSteps

\* One step that waits for nothing is one too.
LEMMA OneStepIsWalkable ==
  ASSUME NEW p, NEW k \in Keys, Present(p) = {k}, p[k].waits = {}, NEW cap \in Nat, 1 <= cap
  PROVE  Walkable(p, cap)
<1>1. Cardinality(Present(p)) = 1
  BY FS_Singleton
<1>2. Acyclic(p, {k})
  BY DEF Acyclic
<1> QED
  BY <1>1, <1>2 DEF Walkable, WaitsPresent, OrderedSteps

\* There are no more keys among the drafts than drafts.
LEMMA DraftKeysCounted ==
  ASSUME NEW drafts \in Seq(Draft)
  PROVE  /\ DraftKeys(drafts) \subseteq Keys
         /\ Cardinality(DraftKeys(drafts)) <= Len(drafts)
<1>1. \A j \in 1..Len(drafts) : drafts[j] \in Draft
  OBVIOUS
<1>2. DraftKeys(drafts) = {drafts[j].key : j \in 1..Len(drafts)}
  BY DEF DraftKeys
<1>3. DraftKeys(drafts) \subseteq Keys
  BY <1>1, <1>2 DEF Draft
<1> DEFINE f == [j \in 1..Len(drafts) |-> drafts[j].key]
<1>4. f \in Surjection(1..Len(drafts), DraftKeys(drafts))
  BY <1>2 DEF Surjection
<1>5. Len(drafts) \in Nat
  OBVIOUS
<1>6. IsFiniteSet(1..Len(drafts)) /\ Cardinality(1..Len(drafts)) = Len(drafts)
  BY <1>5, FS_Interval
<1> HIDE DEF f
<1> QED
  BY <1>3, <1>4, <1>6, FS_Surjection

\* What plan_write's checks ensure: written to the steps it was checked against, the plan can be
\* walked.  The kept steps wait only for completed ones, so they depend on nothing new.
LEMMA AcceptedIsWalkable ==
  ASSUME NEW p \in Plan, NEW drafts \in Seq(Draft), NEW state, NEW cap \in Nat,
         Walkable(p, cap), PlanAccepted(state, p, drafts, cap),
         \A k \in Keys : Begun(p[k]) => \A d \in p[k].waits : p[d].state = "Completed"
  PROVE  Walkable(Replaced(p, Replanned(p, drafts), DraftKeys(drafts)), cap)
<1> DEFINE new == DraftKeys(drafts)
           r   == Replanned(p, drafts)
           q   == Replaced(p, r, new)
           kept == Kept(p)
           At(k) == DraftIndex(drafts, k)
           last  == LastOrdinal(p, kept)
<1>0. \A i : /\ DraftStep(p, drafts, i).state = "Pending"
             /\ DraftStep(p, drafts, i).waits = DraftWaits(p, drafts, i)
             /\ DraftStep(p, drafts, i).ordinal = last + i
  BY DEF DraftStep
<1>1. new \subseteq Keys /\ kept \subseteq Keys /\ new \cap kept = {}
  BY DraftKeysCounted DEF PlanAccepted, Kept
<1>2. ASSUME NEW k \in new
      PROVE  /\ At(k) \in 1..Len(drafts) /\ drafts[At(k)].key = k
             /\ q[k] = r[k]
             /\ q[k].state = "Pending"
             /\ q[k].waits = DraftWaits(p, drafts, At(k))
             /\ q[k].ordinal = last + At(k)
  <2>1. At(k) \in DOMAIN drafts /\ drafts[At(k)].key = k
    BY <1>2 DEF DraftIndex, DraftKeys
  <2>2. k \in Keys /\ k \notin kept
    BY <1>1, <1>2
  <2>3. r[k] = DraftStep(p, drafts, At(k))
    BY <2>2, <1>2 DEF Replanned
  <2>4. q[k] = r[k]
    BY <2>2, <1>2 DEF Replaced
  <2>5. At(k) \in 1..Len(drafts)
    BY <2>1
  <2> HIDE DEF q, r, new, kept, last, At
  <2> QED
    BY <1>0, <2>1, <2>3, <2>4, <2>5
<1>3. ASSUME NEW k \in kept PROVE q[k] = p[k] /\ p[k].state \in {"Completed", "Running"}
  BY <1>1, <1>3 DEF Replaced, Kept, SurvivesReplan
<1>4. Present(q) = kept \cup new
  <2>1. \A k \in Keys : k \notin kept \cup new => q[k] = NoStep
    BY DEF Replaced
  <2> HIDE DEF q, r, new, kept, last, At
  <2>2. \A k \in new : q[k].state = "Pending"
    BY <1>2
  <2> QED
    BY <1>1, <1>3, <2>1, <2>2 DEF Present, NoStep
<1>5. ASSUME NEW k \in kept PROVE p[k].waits \subseteq kept
  <2>1. k \in Keys /\ Begun(p[k]) /\ p[k].waits \subseteq Keys
    BY <1>1, <1>3, <1>5 DEF Begun, Plan, Step
  <2> QED
    BY <2>1 DEF Kept, SurvivesReplan
<1>6. WaitsPresent(q)
  <2>1. ASSUME NEW k \in new PROVE q[k].waits \subseteq kept \cup new
    <3>1. q[k].waits = DraftWaits(p, drafts, At(k))
      <4> HIDE DEF q, r, new, kept, last, At
      <4> QED
        BY <1>2, <2>1
    <3>2. {drafts[j].key : j \in 1..(At(k) - 1)} \subseteq new
      <4>1. At(k) \in 1..Len(drafts)
        BY <1>2, <2>1
      <4>2. \A j \in 1..(At(k) - 1) : j \in DOMAIN drafts
        BY <4>1
      <4> QED
        BY <4>2 DEF DraftKeys
    <3> QED
      BY <3>1, <3>2 DEF DraftWaits, Known
  <2> HIDE DEF q, new, kept
  <2> QED
    BY <1>3, <1>4, <1>5, <2>1 DEF WaitsPresent
<1>7. Acyclic(q, Present(q))
  <2> SUFFICES ASSUME NEW s \in SUBSET (kept \cup new), s # {}
               PROVE  \E k \in s : q[k].waits \cap s = {}
    BY <1>4 DEF Acyclic
  <2>1. CASE s \cap kept # {}
    <3>1. s \cap kept \in SUBSET Present(p)
      BY <1>1, <1>3 DEF Present
    <3>2. PICK k \in s \cap kept : p[k].waits \cap (s \cap kept) = {}
      BY <2>1, <3>1 DEF Walkable, Acyclic
    <3>3. q[k].waits = p[k].waits /\ p[k].waits \subseteq kept
      BY <1>3, <1>5, <3>2
    <3> HIDE DEF q, new, kept
    <3> QED
      BY <3>2, <3>3
  <2>2. CASE s \cap kept = {}
    <3>1. s \in SUBSET new
      BY <2>2
    <3>2. PICK k \in s : r[k].waits \cap s = {}
      BY <3>1 DEF PlanAccepted, Acyclic
    <3>3. q[k] = r[k]
      BY <1>2, <3>1
    <3> HIDE DEF q, new, kept, r
    <3> QED
      BY <3>2, <3>3
  <2> QED
    BY <2>1, <2>2
<1>8. Cardinality(Present(q)) <= cap
  <2>1. IsFiniteSet(new) /\ IsFiniteSet(kept)
    BY <1>1, KeysAreFinite
  <2>2. /\ Cardinality(new) \in Nat /\ Cardinality(kept) \in Nat
        /\ Cardinality(kept \cup new)
             = Cardinality(kept) + Cardinality(new) - Cardinality(kept \cap new)
        /\ Cardinality(kept \cap new) = 0
    <3>1. kept \cap new = {}
      BY <1>1
    <3> HIDE DEF new, kept
    <3> QED
      BY <2>1, <3>1, FS_CardinalityType, FS_Union, FS_EmptySet
  <2>3. Cardinality(new) <= Len(drafts) /\ Len(drafts) \in Nat
    BY DraftKeysCounted
  <2>4. Cardinality(kept) + Len(drafts) <= cap
    BY DEF PlanAccepted
  <2> HIDE DEF new, kept, q
  <2> QED
    BY <1>4, <2>2, <2>3, <2>4
<1>9. OrderedSteps(q)
  <2>1. last \in Nat /\ \A k \in kept : p[k].ordinal <= last
    <3>1. IsFiniteSet(kept)
      BY <1>1, KeysAreFinite
    <3> QED
      BY <1>1, <3>1, LastOrdinalBounds
  <2>2. \A k \in kept : p[k].ordinal \in Nat /\ k \in Present(p)
    BY <1>1, <1>3 DEF Plan, Step, Present
  <2>5. \A j, k \in kept : p[j].ordinal = p[k].ordinal => j = k
    BY <2>2 DEF Walkable, OrderedSteps
  <2>6. Len(drafts) \in Nat
    OBVIOUS
  <2> HIDE DEF q, r, new, kept, last, At
  <2>3. \A k \in new : q[k].ordinal = last + At(k) /\ At(k) \in 1..Len(drafts)
    BY <1>2
  <2>4. \A j, k \in new : At(j) = At(k) => j = k
    BY <1>2
  <2>7. ASSUME NEW j \in kept, NEW k \in new PROVE q[j].ordinal # q[k].ordinal
    <3>1. q[j].ordinal = p[j].ordinal /\ p[j].ordinal \in Nat /\ p[j].ordinal <= last
      BY <1>3, <2>1, <2>2
    <3>2. q[k].ordinal = last + At(k) /\ At(k) \in 1..Len(drafts)
      BY <2>3
    <3> QED
      BY <2>1, <2>6, <3>1, <3>2
  <2>8. ASSUME NEW j \in new, NEW k \in new, q[j].ordinal = q[k].ordinal PROVE j = k
    <3>1. last + At(j) = last + At(k) /\ At(j) \in Nat /\ At(k) \in Nat
      BY <2>3, <2>6, <2>8
    <3>2. At(j) = At(k)
      BY <2>1, <3>1
    <3> QED
      BY <2>4, <3>2
  <2>9. ASSUME NEW j \in kept, NEW k \in kept, q[j].ordinal = q[k].ordinal PROVE j = k
    BY <1>3, <2>5, <2>9
  <2> QED
    BY <1>4, <2>7, <2>8, <2>9 DEF OrderedSteps
<1> QED
  BY <1>6, <1>7, <1>8, <1>9 DEF Walkable

\* A hand-off that validate_appended_step accepts leaves a plan that can be walked.
LEMMA AppendedIsWalkable ==
  ASSUME NEW p \in Plan, NEW k \in Keys, NEW source \in Keys, NEW state, NEW cap \in Nat,
         Walkable(p, cap), AppendAccepted(state, p, k, source, cap)
  PROVE  Walkable(Appended(p, k, source), cap)
<1> DEFINE q == Appended(p, k, source)
           last == LastOrdinal(p, Present(p))
<1>1. k \notin Present(p) /\ source \in Present(p) /\ Cardinality(Present(p)) + 1 <= cap
  BY DEF AppendAccepted
<1>2. /\ q[k].state = "Pending" /\ q[k].waits = {source} /\ q[k].ordinal = last + 1
      /\ \A j \in Keys : j # k => q[j] = p[j]
  BY DEF Appended, Plan
<1>3. Present(q) = Present(p) \cup {k}
  <2> HIDE DEF q
  <2> QED
    BY <1>2 DEF Present
<1>4. \A j \in Present(p) : q[j] = p[j] /\ j \in Keys /\ j # k /\ p[j].waits \subseteq Present(p)
  BY <1>1, <1>2 DEF Present, Walkable, WaitsPresent
<1>5. last \in Nat /\ \A j \in Present(p) : p[j].ordinal \in Nat /\ p[j].ordinal <= last
  <2>1. Present(p) \subseteq Keys
    BY DEF Present
  <2>2. IsFiniteSet(Present(p))
    BY <2>1, KeysAreFinite
  <2> QED
    BY <2>1, <2>2, LastOrdinalBounds DEF Plan, Step
<1> HIDE DEF q, last
<1>6. WaitsPresent(q)
  BY <1>1, <1>2, <1>3, <1>4 DEF WaitsPresent
<1>7. Acyclic(q, Present(q))
  <2> SUFFICES ASSUME NEW s \in SUBSET (Present(p) \cup {k}), s # {}
               PROVE  \E j \in s : q[j].waits \cap s = {}
    BY <1>3 DEF Acyclic
  <2>1. CASE s \ {k} # {}
    <3>1. s \ {k} \in SUBSET Present(p)
      OBVIOUS
    <3>2. PICK j \in s \ {k} : p[j].waits \cap (s \ {k}) = {}
      BY <2>1, <3>1 DEF Walkable, Acyclic
    <3>3. q[j].waits = p[j].waits /\ k \notin p[j].waits
      BY <1>1, <1>4, <3>1, <3>2
    <3> QED
      BY <3>2, <3>3
  <2>2. CASE s \ {k} = {}
    BY <1>1, <1>2, <2>2
  <2> QED
    BY <2>1, <2>2
<1>8. Cardinality(Present(q)) <= cap
  <2>1. IsFiniteSet(Present(p))
    BY KeysAreFinite DEF Present
  <2> QED
    BY <1>1, <1>3, <2>1, FS_AddElement
<1>9. OrderedSteps(q)
  <2>1. \A i, j \in Present(p) : p[i].ordinal = p[j].ordinal => i = j
    BY DEF Walkable, OrderedSteps
  <2>2. \A j \in Present(p) : q[j].ordinal # q[k].ordinal
    BY <1>2, <1>4, <1>5
  <2> QED
    BY <1>3, <1>4, <2>1, <2>2 DEF OrderedSteps
<1> QED
  BY <1>6, <1>7, <1>8, <1>9 DEF Walkable, q

\* The budget of a task is a number of steps, at least one, and does not change once it is created.
LEMMA CapStays ==
  ASSUME TypeOK, [Next]_vars, NEW t \in Tasks
  PROVE  /\ Cap(t) \in Nat /\ 1 <= Cap(t)
         /\ Cap(t)' \in Nat /\ 1 <= Cap(t)'
         /\ tstate[t] # "Absent" => Cap(t)' = Cap(t)
<1>1. MaxSteps \in Nat /\ 1 <= MaxSteps /\ MaxHandOffs \in Nat
  BY TaskAssumption
<1>2. tstate[t] # "Absent" => tkind'[t] = tkind[t]
  BY KindsStay
<1> QED
  BY <1>1, <1>2 DEF Cap, IsActivation

AllWalkable == \A t \in Tasks : Walkable(plan[t], Cap(t))

\* An opener that has created its task finds no steps there.
CreatedIsEmpty == \A t \in Tasks : opening[t] = "created" => Present(plan[t]) = {}

\* A plan_write under way has been checked against the steps the task still has.
CallIsWalkable ==
  call # NoCall /\ Live(cur) => Walkable(Replaced(plan[cur], call.fresh, call.new), Cap(cur))

\* The inductive invariant behind PlanSound: the plans are sound together with the waits of the
\* steps begun, and the checked plan is sound for as long as it is on its way.
PlansInv == WorkInv /\ (overruns = 0 => AllWalkable /\ CreatedIsEmpty /\ CallIsWalkable)

\* A budget is set only while there are no steps.
LEMMA WalkableWithin ==
  ASSUME LedgerInv, AllWalkable, [Next]_vars, NEW t \in Tasks
  PROVE  Walkable(plan[t], Cap(t)')
<1>1. TypeOK /\ Cap(t)' \in Nat
  BY CapStays DEF LedgerInv
<1>2. CASE tstate[t] = "Absent"
  <2>1. Present(plan[t]) = {}
    BY <1>2 DEF LedgerInv, RowsHaveTheirTask, Present, NoPlan, NoStep
  <2> QED
    BY <1>1, <2>1, NothingIsWalkable
<1>3. CASE tstate[t] # "Absent"
  BY <1>1, <1>3, CapStays DEF AllWalkable
<1> QED
  BY <1>2, <1>3

\* Every operation leaves plans that can be walked.
LEMMA AllWalkableNext ==
  ASSUME PlansInv, [Next]_vars, overruns = 0
  PROVE  AllWalkable'
<1>0. /\ WorkInv /\ LedgerInv /\ TypeOK /\ TypeOK' /\ HeldTask /\ CallWithinRun
      /\ AllWalkable /\ CreatedIsEmpty /\ CallIsWalkable
      /\ cur \in Tasks /\ key \in Keys /\ step \in Step
  BY TypeNext DEF PlansInv, WorkInv, LedgerInv, DepsInv, TypeOK
<1>1. ASSUME NEW t \in Tasks, plan'[t] = plan[t] PROVE Walkable(plan'[t], Cap(t)')
  BY <1>0, <1>1, WalkableWithin
<1>2. CASE UNCHANGED plan
  BY <1>1, <1>2 DEF AllWalkable
<1>3. ASSUME NEW u \in Tasks, StoreFirstStep(u) PROVE AllWalkable'
  <2>1. CASE /\ ReplaceAccepted(u, {}, {FirstKey})
             /\ plan' = [plan EXCEPT ![u] =
                            Replaced(plan[u], Replanned(NoPlan, OneStep), {FirstKey})]
    <3>1. Present(plan[u]) = {} /\ FirstKey \in Keys
      BY <1>0, <1>3, TaskAssumption DEF CreatedIsEmpty, StoreFirstStep
    <3>2. Kept(plan[u]) = {}
      BY <3>1 DEF Present, Kept, SurvivesReplan
    <3>3. \A k \in Keys : plan'[u][k] = IF k = FirstKey THEN Replanned(NoPlan, OneStep)[FirstKey]
                                        ELSE NoStep
      BY <1>0, <2>1, <3>2 DEF TypeOK, Replaced
    <3>4. plan'[u][FirstKey].state = "Pending" /\ plan'[u][FirstKey].waits = {}
      BY <3>1, <3>3, FirstStepIsFree
    <3>5. Present(plan'[u]) = {FirstKey}
      BY <3>1, <3>3, <3>4 DEF Present, NoStep
    <3>6. Walkable(plan'[u], Cap(u)')
      <4>1. Cap(u)' \in Nat /\ 1 <= Cap(u)'
        BY <1>0, CapStays
      <4> QED
        BY <3>1, <3>4, <3>5, <4>1, OneStepIsWalkable
    <3>7. \A t \in Tasks : t # u => plan'[t] = plan[t]
      BY <1>0, <2>1 DEF TypeOK
    <3> QED
      BY <1>1, <3>6, <3>7 DEF AllWalkable
  <2> QED
    BY <1>2, <1>3, <2>1 DEF StoreFirstStep
<1>4. ASSUME NEW u \in Tasks, Delete(u) PROVE AllWalkable'
  <2>1. plan'[u] = NoPlan /\ \A t \in Tasks : t # u => plan'[t] = plan[t]
    BY <1>0, <1>4 DEF Delete, TypeOK
  <2>2. Walkable(plan'[u], Cap(u)')
    <3>1. Present(plan'[u]) = {}
      BY <2>1 DEF Present, NoPlan, NoStep
    <3>2. Cap(u)' \in Nat
      BY <1>0, CapStays
    <3> QED
      BY <3>1, <3>2, NothingIsWalkable
  <2> QED
    BY <1>1, <2>1, <2>2 DEF AllWalkable
<1>5. CASE PlanWrite
  <2>1. call.task = cur /\ call # NoCall /\ pc = "planning"
    BY <1>0, <1>5 DEF PlanWrite, CallWithinRun
  <2>2. CASE /\ ReplaceAccepted(cur, call.kept, call.new)
             /\ plan' = [plan EXCEPT ![cur] = Replaced(plan[cur], call.fresh, call.new)]
    <3>1. Live(cur) /\ tstate[cur] # "Absent"
      BY <2>2 DEF ReplaceAccepted, Live, TaskStates, OpenStates, TerminalStates
    <3>2. /\ plan'[cur] = Replaced(plan[cur], call.fresh, call.new)
          /\ \A t \in Tasks : t # cur => plan'[t] = plan[t]
      BY <1>0, <2>2 DEF TypeOK
    <3>3. Walkable(plan'[cur], Cap(cur))
      BY <1>0, <2>1, <3>1, <3>2 DEF CallIsWalkable
    <3>4. UNCHANGED tkind
      BY <1>5 DEF PlanWrite
    <3>5. ASSUME NEW t \in Tasks PROVE Walkable(plan'[t], Cap(t)')
      <4>1. CASE t = cur
        <5>1. Cap(t)' = Cap(t)
          BY <1>0, <3>1, <4>1, CapStays
        <5> QED
          BY <3>3, <4>1, <5>1
      <4> QED
        BY <1>1, <3>2, <4>1
    <3> QED
      BY <3>5 DEF AllWalkable
  <2> QED
    BY <1>2, <1>5, <2>1, <2>2 DEF PlanWrite
<1>6. ASSUME \A t \in Tasks, k \in Keys :
                /\ (plan[t][k].state = "Absent") <=> (plan'[t][k].state = "Absent")
                /\ plan'[t][k].waits = plan[t][k].waits
                /\ plan'[t][k].ordinal = plan[t][k].ordinal
      PROVE  AllWalkable'
  <2>1. ASSUME NEW t \in Tasks PROVE Walkable(plan'[t], Cap(t)')
    <3>1. Walkable(plan[t], Cap(t)')
      BY <1>0, WalkableWithin
    <3> QED
      BY <1>6, <3>1, WalkableSame
  <2> QED
    BY <2>1 DEF AllWalkable
<1>7. ASSUME NEW copy \in Step, UpdateStep(cur, key, copy) PROVE AllWalkable'
  <2>1. CASE StepRefused(cur, key, copy)
    BY <1>2, <1>7, <2>1 DEF UpdateStep
  <2>2. CASE ~StepRefused(cur, key, copy)
    <3>1. plan[cur][key].state # "Absent" /\ copy.state # "Absent"
      BY <2>2 DEF StepRefused, StepCanBecome
    <3> QED
      BY <1>0, <1>6, <1>7, <2>2, <3>1, UpdateStepRow
  <2> QED
    BY <2>1, <2>2
<1>8. CASE StartStep
  BY <1>0, <1>7, <1>8 DEF StartStep
<1>9. CASE RunEnds
  <2>1. \A to \in {"Failed", "AwaitingApproval", "Completed"} : Settled(step, to) \in Step
    BY <1>0, SettledType DEF StepStates
  <2>2. Preempted(step) \in Step
    BY <1>0, PreemptedType
  <2> QED
    BY <1>7, <1>9, <2>1, <2>2 DEF RunEnds, Settle
<1>10. CASE HandOn
  <2>1. ASSUME NEW k \in HandOffKeys,
               AppendAccepted(seen, plan[cur], k, key, Cap(cur)),
               plan' = [plan EXCEPT ![cur] = Appended(plan[cur], k, key)]
        PROVE  AllWalkable'
    <3>1. k \in Keys /\ plan[cur] \in Plan /\ Cap(cur) \in Nat /\ Walkable(plan[cur], Cap(cur))
      BY <1>0, CapStays, TaskAssumption DEF TypeOK, AllWalkable
    <3>2. Walkable(Appended(plan[cur], k, key), Cap(cur))
      BY <1>0, <2>1, <3>1, AppendedIsWalkable
    <3>3. /\ plan'[cur] = Appended(plan[cur], k, key)
          /\ \A t \in Tasks : t # cur => plan'[t] = plan[t]
      BY <1>0, <2>1 DEF TypeOK
    <3>4. ASSUME NEW t \in Tasks PROVE Walkable(plan'[t], Cap(t)')
      <4>1. CASE t = cur
        <5>1. Cap(t)' = Cap(t)
          BY <1>10 DEF HandOn, Cap, IsActivation
        <5> QED
          BY <3>2, <3>3, <4>1, <5>1
      <4> QED
        BY <1>1, <3>3, <4>1
    <3> QED
      BY <3>4 DEF AllWalkable
  <2> QED
    BY <1>2, <1>10, <2>1 DEF HandOn
<1>11. CASE Recover
  <2>1. ASSUME NEW t \in Tasks, NEW k \in Keys
        PROVE  /\ (plan[t][k].state = "Absent") <=> (plan'[t][k].state = "Absent")
               /\ plan'[t][k].waits = plan[t][k].waits
               /\ plan'[t][k].ordinal = plan[t][k].ordinal
    <3>1. plan[t][k] \in Step
      BY <1>0 DEF TypeOK, Plan
    <3>2. /\ Preempted(plan[t][k]).state = "Pending"
          /\ Preempted(plan[t][k]).waits = plan[t][k].waits
          /\ Preempted(plan[t][k]).ordinal = plan[t][k].ordinal
      BY <3>1, PreemptedType
    <3>3. plan'[t][k] = IF Live(t) /\ plan[t][k].state = "Running"
                        THEN Preempted(plan[t][k]) ELSE plan[t][k]
      BY <1>11 DEF Recover, Recovered
    <3> QED
      BY <3>2, <3>3
  <2> QED
    BY <1>6, <2>1
<1> QED
  BY <1>2, <1>3, <1>4, <1>5, <1>8, <1>9, <1>10, <1>11, WhoWritesSteps

\* An opener still finds no steps when it stores the first.
LEMMA CreatedIsEmptyNext ==
  ASSUME PlansInv, [Next]_vars, overruns = 0
  PROVE  CreatedIsEmpty'
<1> SUFFICES ASSUME NEW t \in Tasks, opening'[t] = "created", NEW k \in Keys
             PROVE  plan'[t][k].state = "Absent"
  BY DEF CreatedIsEmpty, Present
<1>0. /\ WorkInv /\ LedgerInv /\ TypeOK /\ HeldTask /\ CallWithinRun /\ CreatedIsEmpty
      /\ TaskMoves(t) /\ OpenerMoves(t) /\ RowMoves(t, k) /\ cur \in Tasks
  BY TasksAndOpenersMove, RowsMove DEF PlansInv, WorkInv, LedgerInv, DepsInv, TypeOK
<1>1. plan[t][k].state = "Absent" /\ (opening[t] = "created" \/ tstate[t] = "Absent")
  <2>1. CASE opening[t] = "created"
    BY <1>0, <2>1 DEF CreatedIsEmpty, Present
  <2>2. CASE tstate[t] = "Absent"
    BY <1>0, <2>2 DEF LedgerInv, RowsHaveTheirTask, NoPlan, NoStep
  <2> QED
    BY <1>0, <2>1, <2>2 DEF OpenerMoves
<1>2. pc \notin {"down", "idle"} => t # cur
  BY <1>0, <1>1 DEF HeldTask, OpenStates
<1>3. ~Replanner(t)
  BY <1>0, <1>2 DEF Replanner, CallWithinRun
<1> QED
  BY <1>0, <1>1, <1>2, <1>3 DEF RowMoves, NoPlan, NoStep

\* The steps plan_write was checked against stay as they are until it writes.
LEMMA CallIsWalkableNext ==
  ASSUME PlansInv, [Next]_vars, overruns = 0, overruns' = 0
  PROVE  CallIsWalkable'
<1> SUFFICES ASSUME call' # NoCall, Live(cur)'
             PROVE  Walkable(Replaced(plan[cur], call.fresh, call.new), Cap(cur))'
  BY DEF CallIsWalkable
<1>0. /\ WorkInv /\ LedgerInv /\ TypeOK /\ TypeOK' /\ HeldTask /\ CallWithinRun /\ CallWithinRun'
      /\ AllWalkable /\ CallIsWalkable /\ BegunAfterWaits
      /\ cur \in Tasks /\ plan[cur] \in Plan /\ Cap(cur) \in Nat
  BY TypeNext, CallsKept, CapStays DEF PlansInv, WorkInv, LedgerInv, DepsInv, TypeOK
<1>1. \/ UNCHANGED call
      \/ PlanRead
      \/ call' = NoCall
  BY DEF Next, vars, MemberStep, OpenerStep, PlannerCall, RunnerStep, Clock, Error, Crash,
         OpenPlanned, OpenPaused, CancelRead, CancelWrite, Delete, StoreFirstStep,
         SetOpenedRunning, PlanWrite, DeadlinePasses, Pick, SlotRefused, Advance, GiveUp, Finish,
         EndTask, PlannerStopped, PlannerReturned, PlannerEnds, StartStep, Settle, WorkerStopped,
         WorkerFailed, WorkerAsks, WorkerDone, WorkerDoneToCheck, VerifierStopped, VerifierFails,
         VerifierPasses, FollowUp, HandOn, Park, Recover
<1>2. CASE PlanRead
  <2>1. PICK drafts \in Drafts :
           /\ PlanAccepted(tstate[cur], plan[cur], drafts, Cap(cur))
           /\ call' = [task |-> cur, kept |-> Kept(plan[cur]),
                       fresh |-> Replanned(plan[cur], drafts), new |-> DraftKeys(drafts)]
    BY <1>2 DEF PlanRead
  <2>2. drafts \in Seq(Draft)
    BY TaskAssumption
  <2>3. Walkable(Replaced(plan[cur], Replanned(plan[cur], drafts), DraftKeys(drafts)), Cap(cur))
    <3>1. \A k \in Keys : Begun(plan[cur][k]) =>
             \A d \in plan[cur][k].waits : plan[cur][d].state = "Completed"
      BY <1>0 DEF BegunAfterWaits, WaitsDone
    <3>2. Walkable(plan[cur], Cap(cur))
      BY <1>0 DEF AllWalkable
    <3> QED
      BY <1>0, <2>1, <2>2, <3>1, <3>2, AcceptedIsWalkable
  <2>4. UNCHANGED <<plan, cur>> /\ Cap(cur)' = Cap(cur)
    BY <1>2 DEF PlanRead, ledger, runner, Cap, IsActivation
  <2>5. call'.fresh = Replanned(plan[cur], drafts) /\ call'.new = DraftKeys(drafts)
    BY <2>1
  <2> QED
    BY <2>3, <2>4, <2>5
<1>3. CASE UNCHANGED call
  <2>1. pc = "planning" /\ pc' = "planning" /\ UNCHANGED cur
    BY <1>0, <1>3 DEF CallWithinRun
  <2>2. tstate[cur] # "Absent" /\ opening[cur] = "none"
    BY <1>0, <2>1 DEF HeldTask, OpenStates
  <2>3. Live(cur) /\ Cap(cur)' = Cap(cur) /\ tstate'[cur] # "Deleted"
    <3>1. Live(cur)
      BY <1>0, <2>1, <2>2, NobodyRevives DEF Live
    <3>2. tstate'[cur] # "Deleted"
      BY <2>1 DEF Live, TaskStates, OpenStates, TerminalStates
    <3>3. Cap(cur)' = Cap(cur)
      BY <1>0, <2>1, <2>2, CapStays DEF Cap, IsActivation
    <3> QED
      BY <3>1, <3>2, <3>3
  <2>4. ASSUME NEW k \in Keys PROVE plan'[cur][k] = plan[cur][k]
    <3>1. RowMoves(cur, k)
      BY <1>0, RowsMove
    <3>2. ~Replanner(cur)
      BY <1>3, <2>2 DEF Replanner
    <3> QED
      BY <2>1, <2>3, <3>1, <3>2 DEF RowMoves
  <2>5. plan'[cur] = plan[cur]
    BY <1>0, <2>1, <2>4 DEF TypeOK, Plan
  <2>6. Walkable(Replaced(plan[cur], call.fresh, call.new), Cap(cur))
    BY <1>0, <1>3, <2>3 DEF CallIsWalkable
  <2> QED
    BY <1>3, <2>1, <2>3, <2>5, <2>6
<1> QED
  BY <1>1, <1>2, <1>3

\* PlansInv is inductive.
LEMMA PlansInvHolds ==
  /\ Init => PlansInv
  /\ PlansInv /\ [Next]_vars => PlansInv'
<1>1. ASSUME Init PROVE PlansInv
  <2>1. AllWalkable
    <3>1. ASSUME NEW t \in Tasks PROVE Walkable(plan[t], Cap(t))
      <4>1. Present(plan[t]) = {}
        BY <1>1 DEF Init, Present, NoPlan, NoStep
      <4>2. Cap(t) \in Nat
        BY TaskAssumption DEF Cap
      <4> QED
        BY <4>1, <4>2, NothingIsWalkable
    <3> QED
      BY <3>1 DEF AllWalkable
  <2>2. CreatedIsEmpty /\ CallIsWalkable
    BY <1>1 DEF Init, CreatedIsEmpty, CallIsWalkable
  <2> QED
    BY <1>1, <2>1, <2>2, WorkInvHolds DEF PlansInv
<1>2. ASSUME PlansInv, [Next]_vars PROVE PlansInv'
  <2>1. WorkInv'
    BY <1>2, WorkInvHolds DEF PlansInv
  <2>2. ASSUME overruns' = 0 PROVE AllWalkable' /\ CreatedIsEmpty' /\ CallIsWalkable'
    <3>1. overruns = 0
      BY <1>2, <2>2, OverrunsGrow DEF PlansInv, WorkInv, LedgerInv
    <3> QED
      BY <1>2, <2>2, <3>1, AllWalkableNext, CreatedIsEmptyNext, CallIsWalkableNext
  <2> QED
    BY <2>1, <2>2 DEF PlansInv
<1> QED
  BY <1>1, <1>2

\* Every plan in the ledger can be walked: each wait is for a step that is there, no steps wait in
\* a circle, the order is unambiguous and the budget is kept, for any sequence of replans,
\* hand-offs, retries and restarts.  validate_plan looks for circles among the new steps alone;
\* that is enough because a kept step has been begun, so everything it waits for is completed and
\* kept too (DepsInv), and because nobody changes the steps between the check and the write.
THEOREM PlansAreSound == Spec => []PlanSound
<1>1. PlansInv => PlanSound
  BY DEF PlansInv, AllWalkable, Walkable, OrderedSteps, PlanSound
<1> QED
  BY <1>1, PlansInvHolds, PTL DEF Spec

-----------------------------------------------------------------------------
(* Waiting is explained.                                                   *)

\* A step that asked for approval is in a task that was parked for it, or is being parked; a crash
\* or an error between the two ledger calls breaks that, hence the bounds.
ParkedOrParking ==
  (faults = 0 /\ crashes = 0) =>
      \A t \in Tasks, k \in Keys :
          /\ plan[t][k].state = "AwaitingApproval"
          /\ tstate[t] \in OpenStates \cup {"Paused"}
          => pc = "parking" /\ cur = t

\* Every operation keeps it so.
LEMMA ParkedOrParkingNext ==
  ASSUME WorkInv, ParkedOrParking, [Next]_vars
  PROVE  ParkedOrParking'
<1> SUFFICES ASSUME faults' = 0, crashes' = 0, NEW t \in Tasks, NEW k \in Keys,
                    plan'[t][k].state = "AwaitingApproval",
                    tstate'[t] \in OpenStates \cup {"Paused"}
             PROVE  pc' = "parking" /\ cur' = t
  BY DEF ParkedOrParking
<1>0. /\ TypeOK /\ LedgerInv /\ HeldTask /\ RunsAreOfRunningTasks /\ faults = 0 /\ crashes = 0
      /\ TaskMoves(t) /\ RowMoves(t, k) /\ cur \in Tasks
  BY FailuresGrow, TasksAndOpenersMove, RowsMove DEF WorkInv, LedgerInv, TypeOK
<1>1. CASE plan'[t][k] = plan[t][k]
  <2>1. tstate[t] # "Absent"
    BY <1>0, <1>1 DEF LedgerInv, RowsHaveTheirTask, NoPlan, NoStep
  <2>2. tstate[t] \in OpenStates \cup {"Paused"}
    BY <1>0, <2>1 DEF TaskMoves, OpenStates
  <2>3. pc = "parking" /\ cur = t
    BY <1>0, <1>1, <2>2 DEF ParkedOrParking
  <2>4. ~Park
    <3>1. tstate[cur] = "Running"
      BY <1>0, <2>2, <2>3 DEF HeldTask, RunsAreOfRunningTasks, OpenStates
    <3>2. ASSUME Park PROVE FALSE
      <4>1. tstate'[cur] = "AwaitingApproval"
        BY <1>0, <3>1, <3>2, SetTaskStateRow DEF Park, Stored, TaskStates, OpenStates, TaskCanBecome
      <4> QED
        BY <2>3, <4>1 DEF OpenStates
    <3> QED
      BY <3>2
  <2>5. pc' # "down"
    <3>1. crashes \in Nat
      BY <1>0, TaskAssumption DEF TypeOK
    <3>2. ~Crash
      BY <1>0, <3>1 DEF Crash
    <3> QED
      BY <2>3, <3>2, RunnerMoves DEF Pick, Rest, Advance, StartStep, RunEnds, Settle,
                                     WorkerDoneToCheck, FollowUp, MoveTo
  <2> QED
    BY <1>0, <2>3, <2>4, <2>5, RunnerLeaves
<1>2. CASE tstate'[t] = "Deleted" \/ plan'[t] = NoPlan
  BY <1>2 DEF OpenStates, NoPlan, NoStep
<1> QED
  BY <1>0, <1>1, <1>2 DEF RowMoves

\* Between runs, with no error, no crash and no plan_write left behind, an open task always has
\* something to do.  By WaitNeedsAStepInFlight a wait needs a step running or awaiting approval;
\* a running step has its runner at work, so the runner is not idle, and a step that awaits
\* approval has parked its task, so the task is not open.
THEOREM NobodyIsStuck == Spec => []NeverStuck
<1> DEFINE Inv == PlansInv /\ RunningHasARunner /\ ParkedOrParking
<1>1. Init => Inv
  BY PlansInvHolds DEF Init, RunningHasARunner, ParkedOrParking, NoPlan, NoStep
<1>2. Inv /\ [Next]_vars => Inv'
  BY PlansInvHolds, RunningHasARunnerNext, ParkedOrParkingNext DEF PlansInv
<1>3. ASSUME Inv PROVE NeverStuck
  <2> SUFFICES ASSUME pc = "idle", overruns = 0, faults = 0, crashes = 0,
                      NEW t \in Tasks, tstate[t] \in OpenStates,
                      NextRun(tstate[t], plan[t], fruitless[t], t \in late) = "Wait"
               PROVE  FALSE
    BY DEF NeverStuck
  <2>1. TypeOK /\ plan[t] \in Plan /\ fruitless[t] \in Nat
    BY <1>3 DEF PlansInv, WorkInv, LedgerInv, TypeOK
  <2>2. Acyclic(plan[t], Present(plan[t]))
    BY <1>3 DEF PlansInv, AllWalkable, Walkable
  <2>3. PICK k \in Keys : plan[t][k].state \in {"Running", "AwaitingApproval"}
    <3>1. (t \in late) \in BOOLEAN
      OBVIOUS
    <3> QED
      BY <2>1, <2>2, <3>1, WaitNeedsAStepInFlight
  <2>4. CASE plan[t][k].state = "Running"
    BY <1>3, <2>4 DEF RunningHasARunner, Live, TaskStates, OpenStates, TerminalStates
  <2>5. CASE plan[t][k].state = "AwaitingApproval"
    BY <1>3, <2>5 DEF ParkedOrParking
  <2> QED
    BY <2>3, <2>4, <2>5
<1> QED
  BY <1>1, <1>2, <1>3, PTL DEF Spec

-----------------------------------------------------------------------------
(* The ledger, its openers and its runner implement TaskLife.              *)

\* What TaskLife sees of a task's state and of its steps.
LEMMA WhatIsSeen ==
  ASSUME TypeOK, TypeOK', NEW t \in Tasks
  PROVE  /\ tstate'[t] = tstate[t] => LifeOf(t)' = LifeOf(t)
         /\ LifeOf(t) = "none" <=> tstate[t] = "Absent"
         /\ LifeOf(t) = "open" <=> Live(t)
         /\ tstate[t] \in TerminalStates => LifeOf(t) = tstate[t]
         /\ Live(t)' => LifeOf(t)' = "open"
         /\ tstate'[t] \in TerminalStates => LifeOf(t)' = tstate'[t]
         /\ tstate'[t] = "Deleted" => LifeOf(t)' = "deleted"
BY DEF TypeOK, LifeOf, Live, TaskStates, OpenStates, TerminalStates

\* The results of every task stay, except for the one the runner settles and for deleted tasks.
LEMMA ResultsStay ==
  ASSUME WorkInv, [Next]_vars, NEW t \in Tasks, tstate'[t] # "Deleted" \/ tstate[t] = "Deleted"
  PROVE  \/ DoneOf(t)' = DoneOf(t)
         \/ /\ pc \in {"working", "checking"} /\ t = cur
            /\ key \notin DoneOf(t) /\ DoneOf(t)' = DoneOf(t) \cup {key}
            /\ LifeOf(t) \in {"open", "Cancelled"}
<1>0. TypeOK /\ TypeOK' /\ LedgerInv /\ HeldTask /\ RowsHaveTheirTask /\ key \in Keys
  BY TypeNext DEF WorkInv, LedgerInv, TypeOK
<1> DEFINE Settles == /\ pc \in {"working", "checking"} /\ t = cur
                      /\ plan[t][key].state = "Running" /\ plan'[t][key].state = "Completed"
<1>1. ASSUME NEW k \in Keys
      PROVE  \/ (plan'[t][k].state = "Completed") <=> (plan[t][k].state = "Completed")
             \/ k = key /\ Settles
  <2>1. RowMoves(t, k)
    BY RowsMove
  <2>2. CASE tstate'[t] = "Deleted" /\ plan'[t] = NoPlan
    BY <1>0, <2>2 DEF RowsHaveTheirTask, NoPlan, NoStep
  <2> QED
    BY <2>1, <2>2 DEF RowMoves
<1>2. CASE Settles
  <2>1. tstate[t] # "Deleted"
    BY <1>0, <1>2 DEF RowsHaveTheirTask, NoPlan, NoStep
  <2>2. LifeOf(t) \in {"open", "Cancelled"}
    BY <1>0, <1>2, <2>1, WhatIsSeen DEF HeldTask, Live, OpenStates, TaskStates, TerminalStates
  <2>3. key \notin DoneOf(t) /\ DoneOf(t)' = DoneOf(t) \cup {key}
    BY <1>0, <1>1, <1>2 DEF DoneOf
  <2> QED
    BY <1>2, <2>2, <2>3
<1>3. CASE ~Settles
  BY <1>1, <1>3 DEF DoneOf
<1> QED
  BY <1>2, <1>3

\* The runner keeps what it has in hand, puts it down, or takes a task from the line.
LEMMA HandsMove ==
  ASSUME TypeOK, [Next]_vars
  PROVE  \/ InHand' = InHand
         \/ InHand' = 0
         \/ \E t \in Tasks : Pick(t)
<1>1. CASE UNCHANGED <<pc, cur>> \/ Rest \/ Crash
  BY <1>1 DEF InHand, Rest, Crash
<1>2. CASE \/ Advance \/ StartStep \/ RunEnds \/ WorkerDoneToCheck \/ FollowUp
  <2>1. pc \notin {"down", "idle"} /\ (Rest \/ (pc' \notin {"down", "idle"} /\ UNCHANGED cur))
    BY <1>2 DEF Advance, StartStep, RunEnds, Settle, WorkerDoneToCheck, FollowUp, MoveTo
  <2> QED
    BY <2>1 DEF InHand, Rest
<1> QED
  BY <1>1, <1>2, RunnerMoves

\* A step that ends, opens and cancels nothing: it is not seen, puts the task down, takes one, or
\* writes one result.
LEMMA QuietStepRefines ==
  ASSUME WorkInv, [Next]_vars,
         \A t \in Tasks : LifeOf(t)' = LifeOf(t) /\ (tstate'[t] # "Deleted" \/ tstate[t] = "Deleted")
  PROVE  [Life!Next]_(Life!vars)
<1>0. /\ TypeOK /\ TypeOK' /\ cur \in Tasks /\ key \in Keys
      /\ Tasks \subseteq Nat \ {0}
  BY TypeNext DEF WorkInv, LedgerInv, TypeOK, Tasks
<1>1. [t \in Tasks |-> LifeOf(t)]' = [t \in Tasks |-> LifeOf(t)]
  OBVIOUS
<1>2. CASE \A t \in Tasks : DoneOf(t)' = DoneOf(t)
  <2>1. [t \in Tasks |-> DoneOf(t)]' = [t \in Tasks |-> DoneOf(t)]
    BY <1>2
  <2>2. CASE InHand' = InHand
    BY <1>1, <2>1, <2>2 DEF Life!vars
  <2>3. CASE InHand' = 0 /\ InHand # 0
    BY <1>1, <2>1, <2>3 DEF Life!Next, Life!PutDown
  <2>4. ASSUME NEW t \in Tasks, Pick(t) PROVE Life!Take(t)
    <3>1. InHand = 0 /\ InHand' = t
      BY <2>4 DEF Pick, InHand
    <3>2. LifeOf(t) = "open"
      BY <1>0, <2>4, WhatIsSeen DEF Pick, IsFront, Live, OpenStates, TaskStates, TerminalStates
    <3> QED
      BY <1>1, <2>1, <3>1, <3>2 DEF Life!Take
  <2> QED
    BY <1>0, <2>2, <2>3, <2>4, HandsMove DEF Life!Next
<1>3. CASE ~(\A t \in Tasks : DoneOf(t)' = DoneOf(t))
  <2>1. PICK t \in Tasks :
           /\ pc \in {"working", "checking"} /\ t = cur
           /\ key \notin DoneOf(t) /\ DoneOf(t)' = DoneOf(t) \cup {key}
           /\ LifeOf(t) \in {"open", "Cancelled"}
    BY <1>3, ResultsStay
  <2>2. \A u \in Tasks : u # t => DoneOf(u)' = DoneOf(u)
    BY <2>1, ResultsStay
  <2>3. [u \in Tasks |-> DoneOf(u)]'
          = [[u \in Tasks |-> DoneOf(u)] EXCEPT ![t] = @ \cup {key}]
    BY <2>1, <2>2
  <2>4. InHand = t /\ InHand' \in {t, 0}
    <3>1. ~\E u \in Tasks : Pick(u)
      BY <2>1 DEF Pick
    <3> QED
      BY <1>0, <2>1, <3>1, HandsMove DEF InHand
  <2>5. Life!Do(t, key)
    BY <1>1, <2>1, <2>3, <2>4 DEF Life!Do, Life!Endings
  <2> QED
    BY <1>0, <2>5 DEF Life!Next
<1> QED
  BY <1>2, <1>3

\* A step that moves one task and writes no step row.
LEMMA OneTaskRefines ==
  ASSUME TypeOK, TypeOK', UNCHANGED plan, NEW t \in Tasks,
         \A u \in Tasks : u # t => tstate'[u] = tstate[u]
  PROVE  /\ (InHand' = InHand /\ tstate[t] = "Absent" /\ Live(t)') => Life!Open(t)
         /\ (InHand' = InHand /\ Live(t) /\ tstate'[t] = "Cancelled") => Life!Cancel(t)
         /\ \A how \in {"Completed", "Failed"} :
              (InHand = t /\ InHand' = 0 /\ Live(t) /\ tstate'[t] = how) => Life!End(t, how)
<1>1. [u \in Tasks |-> DoneOf(u)]' = [u \in Tasks |-> DoneOf(u)]
  BY DEF DoneOf
<1>2. \A u \in Tasks : u # t => LifeOf(u)' = LifeOf(u)
  BY WhatIsSeen
<1>3. ASSUME NEW to, LifeOf(t)' = to
      PROVE  [u \in Tasks |-> LifeOf(u)]' = [[u \in Tasks |-> LifeOf(u)] EXCEPT ![t] = to]
  BY <1>2, <1>3
<1>4. /\ LifeOf(t) = "none" <=> tstate[t] = "Absent"
      /\ LifeOf(t) = "open" <=> Live(t)
      /\ Live(t)' => LifeOf(t)' = "open"
      /\ tstate'[t] \in {"Completed", "Failed", "Cancelled"} => LifeOf(t)' = tstate'[t]
  BY WhatIsSeen DEF TerminalStates
<1>5. ASSUME InHand' = InHand, tstate[t] = "Absent", Live(t)' PROVE Life!Open(t)
  BY <1>1, <1>3, <1>4, <1>5 DEF Life!Open
<1>6. ASSUME InHand' = InHand, Live(t), tstate'[t] = "Cancelled" PROVE Life!Cancel(t)
  BY <1>1, <1>3, <1>4, <1>6 DEF Life!Cancel
<1>7. ASSUME NEW how \in {"Completed", "Failed"}, InHand = t, InHand' = 0, Live(t), tstate'[t] = how
      PROVE  Life!End(t, how)
  BY <1>1, <1>3, <1>4, <1>7 DEF Life!End
<1> QED
  BY <1>5, <1>6, <1>7

\* The admin's delete is TaskLife's.
LEMMA DeleteRefines ==
  ASSUME TypeOK, TypeOK', NEW t \in Tasks, Delete(t)
  PROVE  Life!Delete(t)
<1>1. /\ tstate[t] \in TerminalStates /\ tstate'[t] = "Deleted" /\ plan'[t] = NoPlan
      /\ \A u \in Tasks : u # t => tstate'[u] = tstate[u] /\ plan'[u] = plan[u]
      /\ InHand' = InHand
  BY DEF Delete, TypeOK, runner, InHand
<1>2. \A u \in Tasks : u # t => LifeOf(u)' = LifeOf(u) /\ DoneOf(u)' = DoneOf(u)
  BY <1>1, WhatIsSeen DEF DoneOf
<1>3. LifeOf(t) \in TerminalStates /\ LifeOf(t)' = "deleted" /\ DoneOf(t)' = {}
  BY <1>1, WhatIsSeen DEF DoneOf, NoPlan, NoStep
<1> QED
  BY <1>1, <1>2, <1>3 DEF Life!Delete, Life!Endings, TerminalStates

\* Every step of every actor is a step of TaskLife, or is not seen there.
LEMMA StepsRefine ==
  ASSUME WorkInv, [Next]_vars
  PROVE  [Life!Next]_(Life!vars)
<1>0. TypeOK /\ TypeOK' /\ LedgerInv /\ HeldTask /\ CancelsLiveTasks /\ cur \in Tasks
  BY TypeNext DEF WorkInv, LedgerInv, TypeOK
<1>1. CASE UNCHANGED tstate
  BY <1>0, <1>1, WhatIsSeen, QuietStepRefines
<1>2. ASSUME NEW t \in Tasks, NEW kind, NEW state \in {"Planning", "Paused"},
             Create(t, kind, state), UNCHANGED plan, InHand' = InHand
      PROVE  [Life!Next]_(Life!vars)
  <2>1. /\ tstate[t] = "Absent" /\ tstate'[t] = state
        /\ \A u \in Tasks : u # t => tstate'[u] = tstate[u]
    BY <1>0, <1>2 DEF Create, TypeOK
  <2>2. Live(t)'
    BY <2>1 DEF Live, TaskStates, OpenStates, TerminalStates
  <2>3. Life!Open(t)
    BY <1>0, <1>2, <2>1, <2>2, OneTaskRefines
  <2> QED
    BY <2>3 DEF Life!Next
<1>3. ASSUME NEW t \in Tasks, \A u \in Tasks : u # t => tstate'[u] = tstate[u],
             tstate'[t] = tstate[t] \/ (Live(t) /\ tstate'[t] = "Cancelled"),
             UNCHANGED plan, InHand' = InHand
      PROVE  [Life!Next]_(Life!vars)
  <2>1. CASE tstate'[t] = tstate[t]
    BY <1>0, <1>1, <1>3, <2>1 DEF TypeOK
  <2>2. CASE Live(t) /\ tstate'[t] = "Cancelled"
    <3>1. Life!Cancel(t)
      BY <1>0, <1>3, <2>2, OneTaskRefines
    <3> QED
      BY <3>1 DEF Life!Next
  <2> QED
    BY <1>3, <2>1, <2>2
<1>4. ASSUME NEW t \in Tasks, OpenPlanned(t) \/ OpenPaused(t) PROVE [Life!Next]_(Life!vars)
  BY <1>2, <1>4 DEF OpenPlanned, OpenPaused, runner, InHand
<1>5. ASSUME NEW t \in Tasks, CancelWrite(t) PROVE [Life!Next]_(Life!vars)
  <2>1. /\ \A u \in Tasks : u # t => tstate'[u] = tstate[u]
        /\ tstate'[t] = tstate[t] \/ (Live(t) /\ tstate'[t] = "Cancelled")
        /\ UNCHANGED plan /\ InHand' = InHand
    BY <1>0, <1>5 DEF CancelWrite, CancelsLiveTasks, TypeOK, Live, runner, InHand
  <2> QED
    BY <1>3, <2>1
<1>6. ASSUME NEW t \in Tasks, Delete(t) PROVE [Life!Next]_(Life!vars)
  BY <1>0, <1>6, DeleteRefines DEF Life!Next
<1>7. ASSUME NEW t \in Tasks, SetTaskState(t, "Cancelled"), UNCHANGED <<plan, runner>>
      PROVE  [Life!Next]_(Life!vars)
  <2>1. /\ \A u \in Tasks : u # t => tstate'[u] = tstate[u]
        /\ tstate'[t] = tstate[t] \/ (Live(t) /\ tstate'[t] = "Cancelled")
    BY <1>0, <1>7, SetTaskStateRow DEF TaskCanBecome, Live, TaskStates, OpenStates, TerminalStates
  <2>2. UNCHANGED plan /\ InHand' = InHand
    BY <1>7 DEF runner, InHand
  <2> QED
    BY <1>3, <2>1, <2>2
<1>8. ASSUME NEW t \in Tasks, StoreFirstStep(t) PROVE [Life!Next]_(Life!vars)
  BY <1>1, <1>7, <1>8 DEF StoreFirstStep, OpenerCancels
<1>9. ASSUME NEW t \in Tasks, NEW to \in {"Running", "AwaitingApproval"}, SetTaskState(t, to)
      PROVE  [Life!Next]_(Life!vars)
  <2>1. \A u \in Tasks : tstate'[u] = tstate[u] \/ (Live(u) /\ Live(u)')
    BY <1>0, <1>9, SetTaskStateRow DEF TaskCanBecome, Live, TaskStates, OpenStates, TerminalStates
  <2>2. \A u \in Tasks : LifeOf(u)' = LifeOf(u)
    BY <1>0, <2>1, WhatIsSeen
  <2>3. \A u \in Tasks : tstate'[u] # "Deleted" \/ tstate[u] = "Deleted"
    BY <2>1 DEF Live, TaskStates, OpenStates, TerminalStates
  <2> QED
    BY <2>2, <2>3, QuietStepRefines
<1>10. ASSUME NEW t \in Tasks, SetOpenedRunning(t) PROVE [Life!Next]_(Life!vars)
  BY <1>7, <1>9, <1>10 DEF SetOpenedRunning
<1>11. ASSUME NEW from \in {"givingUp", "finishing"}, NEW how \in {"Completed", "Failed"},
              EndTask(from, how)
       PROVE  [Life!Next]_(Life!vars)
  <2>1. PICK t \in Tasks : t = cur
    BY <1>0
  <2>2. /\ \A u \in Tasks : u # t => tstate'[u] = tstate[u]
        /\ tstate'[t] = tstate[t] \/ (Live(t) /\ tstate'[t] = how)
    BY <1>0, <1>11, <2>1, SetTaskStateRow
       DEF EndTask, TaskCanBecome, Live, TaskStates, OpenStates, TerminalStates
  <2>3. CASE tstate'[t] = tstate[t]
    BY <1>0, <1>1, <2>2, <2>3 DEF TypeOK
  <2>4. CASE Live(t) /\ tstate'[t] = how
    <3>1. UNCHANGED plan /\ InHand = t /\ InHand' = 0
      BY <1>11, <2>1 DEF EndTask, Rest, InHand
    <3>2. Life!End(t, how)
      BY <1>0, <2>2, <2>4, <3>1, OneTaskRefines
    <3> QED
      BY <3>2 DEF Life!Next
  <2> QED
    BY <2>2, <2>3, <2>4
<1>12. CASE GiveUp \/ Finish
  BY <1>11, <1>12 DEF GiveUp, Finish
<1>13. CASE PlannerReturned \/ Park
  BY <1>0, <1>1, <1>9, <1>13 DEF PlannerReturned, Park
<1>14. CASE FollowUp
  <2>1. InHand' = InHand /\ UNCHANGED plan
    BY <1>14 DEF FollowUp, MoveTo, InHand
  <2> QED
    BY <1>1, <1>2, <1>14, <2>1 DEF FollowUp
<1>15. CASE MemberStep \/ OpenerStep \/ PlannerCall \/ Clock \/ Error \/ Crash \/ UNCHANGED vars
  BY <1>1, <1>4, <1>5, <1>6, <1>8, <1>10, <1>15
     DEF MemberStep, CancelRead, OpenerStep, PlannerCall, PlanRead, PlanWrite, Clock,
         DeadlinePasses, Error, Crash, vars, ledger
<1>16. CASE RunnerStep
  BY <1>1, <1>12, <1>13, <1>14, <1>16
     DEF RunnerStep, Pick, SlotRefused, Advance, PlannerStopped, StartStep, Settle, WorkerStopped,
         WorkerFailed, WorkerAsks, WorkerDone, WorkerDoneToCheck, VerifierStopped, VerifierFails,
         VerifierPasses, HandOn, Recover, ledger
<1> QED
  BY <1>15, <1>16 DEF Next

\* The long-task system keeps its promise: a task is opened once and ends once, results are written
\* one at a time by the one runner to a task it took while it was open, only the runner completes
\* or fails a task, and nothing is taken back; for any number of tasks, steps, plan_write calls
\* that outlive their run, errors and crashes.
THEOREM TasksKeepTheirPromise == Spec => ImplementsLife
<1>1. Init => Life!Init
  <2> SUFFICES ASSUME Init PROVE Life!Init
    OBVIOUS
  <2>1. \A t \in Tasks : LifeOf(t) = "none" /\ DoneOf(t) = {}
    BY DEF Init, LifeOf, DoneOf, NoPlan, NoStep, TerminalStates
  <2>2. InHand = 0
    BY DEF Init, InHand
  <2> QED
    BY <2>1, <2>2 DEF Life!Init
<1> QED
  BY <1>1, StepsRefine, WorkInvHolds, PTL DEF Spec, ImplementsLife, Life!Spec
=============================================================================
