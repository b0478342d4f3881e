# Goose in a Pond: a TLA+ verification project

The repository is a home assistant ("a pond"): a Rust server (`crates/`) with a
SQLite store, an agent engine, a household of members, cameras and microphones,
and background work that shares one resident model with the people in the room.
This directory models the parts of it where several actors work on the same
state, checks them with TLC and proves what matters most with TLAPS.

- [The system](#the-system)
- [What is modelled](#what-is-modelled)
- [The runs](#the-runs)
- [What the code does that its comments do not say](#what-the-code-does-that-its-comments-do-not-say)
- [What is proved](#what-is-proved)
- [What is only model-checked](#what-is-only-model-checked)
- [What is not modelled, and the plan](#what-is-not-modelled-and-the-plan)

## The system

| Part | State it keeps | Operations | Interacts through |
|---|---|---|---|
| Long-task rules (`pond-core` `domain/long_task.rs`, `services/long_task_runner.rs`) | none: pure functions over a task and its steps | which moves are legal, `validate_plan`, `validate_appended_step`, `check_current`, `next_run` | called by the ledger, the tools and the runner |
| Long-task ledger (`pond-infra` `sqlite_long_task.rs`) | `long_tasks`, `long_task_steps` rows | `create_task`, `set_task_state`, `replace_open_steps`, `update_step`, `delete_task` | shared by everyone below; compare-and-set on the state column |
| Long-task runner (`pond-server` `main.rs`) | the task it took, its copy of a step, the count of fruitless plans | recover, pick, plan, do, check, finish, give up | one loop; asks the inference lane; spawns helpers |
| Openers and members (`open_task`, `task_start`, `task_cancel`, routes) | none | open, cancel, delete | the ledger, concurrently with the runner |
| Agent activations (`agent_activations.rs`) | a book of firings | queue a one-step task, follow-ups, hand-offs | the ledger |
| Planner's tool (`plan_write`) | the plan it has checked and not yet written | read, check, write | its own task, may outlive the planner's run |
| Inference lane (`inference_lane.rs`, `inference_lane_runner.rs`) | slot mutex, holder, cancellation token, registrations, last runs | `acquire`, drop, `preempt` | every background loop; turns; presence |
| Turn supervision (`pond-api` `runs.rs`) | turns in flight, the preempt hook | `turn_started`, drop | the lane, the quiet pass |
| Resumable runs (`runs.rs` `RunHandle`, `RunRegistry`; `routes.rs`) | per run: a ring of frames, a broadcast channel, its readers, a cancel token; the registry by id and by session, permits | push, finish, attach, reattach, cancel, insert, sweep | the turn's task, any number of client streams, later requests |
| Quiet compaction (`quiet_pass.rs`, `run_quiet_compaction`) | the running pass, who told it to stop, which turns wait for it | begin, `turn_arrives`, the watcher, end | turns, the lane's token |
| Pairing (`sqlite_handshake.rs`, `setup_claim.rs`) | codes, budgets, pending runs, the claim, session tokens | issue, start and finish a run by one of five methods, refresh, revoke, re-arm | several phones, two issuers, the clock, restarts |
| Scheduler and rules engine (`pond-infra-scheduler`) | the task map, its timer jobs, `schedules.json`, missed-run questions, cooldowns | create, edit, pause, resume, delete, answer, run now, fire, rehydrate | the timer, the API, the event bus, restarts |
| Admin elevation, mesh settlement, embedder slot, memory extraction, turn authority | their own rows or maps | see the plan | the same store and lane |
| Everything else (engines, audio, vision, clients of outside services, user interface) | - | I/O and numerical code | - |

What is hard here is listed with its line under "hazards" in `PROJECT.json`. In
short: the runner decides from a task and from steps it read earlier, while
members, openers and a planner's tool write the same rows; the process can stop
between any two of those writes and only the rows survive; a helper's run is
stopped by every household turn and must neither lose nor spend its try; and the
lane's jobs each decide for all of them from their own view of the house. Streams
copy a ring and follow a channel that move on in between; a turn is counted, preempts
and checks in under three different locks while a pass announces itself under a
fourth; pairing reads, proves and writes in separate statements; and the scheduler
reads its map under one lock and writes its file under another.

The list names one place for each hazard. Met again elsewhere and not listed a second time:
the tick that announces a quiet pass after it looked for turns (`main.rs:6553`), two issuers
of pairing codes (`sqlite_handshake.rs:1283`), a stream that has been sent its terminal frame
(`routes.rs:3885`), a draft that waits for a step its own replan deletes
(`domain/long_task.rs:1423`), two answers to one missed-run question
(`cron_scheduler.rs:1198`) and a cooldown stamp that lags behind its run
(`rules_engine.rs:39`). All six are in the models. Nine listed hazards have no property;
their notes say why. Four of them (a step begun after a cancel, a task left Paused, a step left
Running by an error, a turn that panics) are what the code does: the models have them, and the
definitions that deny them are in the table of the section on comments.

What makes each part correct:

- *rules*: exactly the plans that can be walked are accepted, and an open task
  with no step in flight always has something to do next;
- *ledger, runner, members, openers*: a finished task stays finished; a completed
  step stays completed; a step starts after what it waits for; a failing step
  is not retried for ever;
  one step runs at a time and none is left running by a stop or a restart; a task
  is told done only when it is; an activation ends;
- *lane*: one holder, and the one that is shown and preempted; chores do not
  starve; a member's work is not held back by what holds back chores;
- *runs*: a client's transcript has no hole it was not told of, however it lags, drops
  and returns, and is sent the end; a turn with a permit finds room, and its session finds it;
- *quiet pass*: a turn that meets a pass reaches the model after it, and soon; a pass that
  begins beside an answer yields to it;
- *pairing*: a budget bounds the CPace tags checked of a code, across restarts; a proof, a card and a
  refresh token each buy one thing once;
- *scheduler*: an acknowledged change is in the file, and only a refused one may be missing; an occurrence runs at most once;
  a cooldown survives a restart.

## What is modelled

### `LongTaskPlan` (pure) and `PlanAlgorithms`

A plan is a function from step keys to steps (`Absent` for a key with no row). A
step keeps its state, the attempts begun, the keys it waits for, its ordinal and
whether it has an acceptance sentence. Titles, briefs, roles and artifact texts
are left out: no decision modelled here reads them.

| Definition | Code |
|---|---|
| `TaskCanBecome`, `StepCanBecome`, `SurvivesReplan` | the enums' `can_become`, `survives_replan` |
| `Started`, `Preempted`, `Settled` | `PlanStep::start`, `preempt`, `record` / `fail` |
| `Ready`, `Retryable`, `Blocked`, `NextRun`, `StepToDo` | `next_ready_step`, `blocked_steps`, `next_run` |
| `DraftWaits`, `Replanned`, `PlanAccepted` | `validate_plan` |
| `CheckCurrent`, `Replaced` | `ValidatedPlan::check_current`, `replace_open_steps` |
| `AppendAccepted`, `Appended` | `validate_appended_step` |

`Acyclic` and `Blocked` say what the two graph algorithms mean (no set of steps
each waiting for another of the set; the least closed set). `PlanAlgorithms` has
the algorithms as the code runs them, one step per call of `visit` and per round, and
shows that they compute just that. The recursion is its stack: `path` with, for each step on
it, the waits still to be followed (`unseen`). The code takes steps and waits in the order of
two lists; here they come in any order.

| Action | Code |
|---|---|
| `SearchInit` | `find_cycle` up to its first call of `visit` |
| `VisitDone`, `VisitNew`, `VisitOnPath` | a call of `visit`, by the mark of its step |
| `Leave` | `visit` returns `None`: the path is popped, the step marked Done |
| `Round` | one round of the loop in `blocked_steps` |
| `Returned` | both have returned: the model's own stuttering, so that TLC's deadlock check sees a search or a loop that stops too soon |

### `LongTasks`

State: the ledger (`tstate`, `tkind`, `plan`, `late`), which survives a crash, and
memory: how far each opener and each cancel has got, the runner (`pc`, `cur`,
`seen`, `key`, `step`), the fruitless counts, and a `plan_write` between its read
and its write (`call`).

A ledger call is one step and an await between two calls is a place where anyone
may act. `set_task_state` and `update_step` read the row and write it only if its
state is still the one read; a row that moves in between makes them fail exactly
as if it had moved before, so the runner's calls are one step. A member's cancel
keeps its two steps. Two handlers are one step although they make several calls. A hand-off's
read of the steps and its write: between them only a `plan_write` that outlived its run could
act. And recovery at start, which the code does with a call for each open task and each of its
Running steps and gives up at the first error (`main.rs:7093`): the runner is the only writer
of these steps and has not begun, a crash in it is a crash before it for the steps not reached,
and an error is the recovery skipped altogether (`Error`).

Storing the first step can fail in two ways: `replace_open_steps` refuses, and the opener
cancels the task, or the artifact after it cannot be inserted (`long_task_open.rs:56`), and the
task is left Paused.

| Actions | Code |
|---|---|
| `OpenPlanned`, `OpenPaused`, `StoreFirstStep`, `SetOpenedRunning` | `task_start` / `open_task`, and `queue` for a firing agent |
| `CancelRead`, `CancelWrite`, `Delete` | `task_cancel`, `cancel_long_task`; the admin's `delete_task` |
| `Pick`, `SlotRefused`, `Advance` | the loop of `run_long_task_runner`, the first lines of `advance_long_task` |
| `GiveUp`, `Finish`, `PlannerStopped`, `PlannerReturned`, `StartStep`, `Worker...`, `Verifier...`, `Park` | the arms of `advance_long_task`, cut at each ledger call |
| `FollowUp`, `HandOn` | `apply_after_actions`, `hand_on` |
| `PlanRead`, `PlanWrite` | `plan_write`; `overruns` counts the calls that outlive their run |
| `Error` | a `?` that leaves `advance_long_task`, or the skipped recovery at start |
| `Crash`, `Recover` | a restart: memory is lost, Running steps of open tasks are handed back |
| `DeadlinePasses` | the clock against `ACTIVATION_DEADLINE` |

A helper's run is its outcome: stopped, failed, asking for approval, or done.
`settle_run` decides which; every outcome is possible in every run. Which drafts a
planner writes is the constant `Drafts`, and which agent fires is abstracted to
one agent (one activation open at a time). Approval has no resume path in the code
yet, so a parked task stays parked until it is cancelled.

### `LaneRules` (pure) and `InferenceLane`

`LaneRules` has `should_run`, `precedence` and the single pass of `select_next`
as a fold in declaration order; `Never` is the `Duration::MAX` of a job that never
ran. `InferenceLane` has a loop per job (`Ask`, `Decide`, `TakeSlot`, `Publish` for the holder
and `PublishToken` for the token, which are under two locks, then the four steps of the slot's
drop), a household turn (`TurnArrives`,
`TurnPreempts`, `TurnCounts`, `TurnEnds`: activity is noted, the hook cancels, and
only then the turn is counted) and a person in view. A loop may poll at any time,
which covers its timer, its bells and the nudge of a losing asker. "Run now" is
the `waived` tick. A restart is covered by the initial waits (`FirstSince`), which
are what the restored run log gives.

The long task's `SlotRefused` in `LongTasks` is the lane seen from the runner.

### Abstract specifications: `TaskLife`, `LaneSlot`

`TaskLife` is what a member is promised: a task opens once and ends once, results come
one at a time from the one runner to a task it took while it was open, and stay.
`TaskRefinement` maps the ledger and the runner to it (`ImplementsLife`). It allows a
result after a cancel for the task in hand, because the code does. `LaneSlot` is one
slot that is taken, asked for and given back, with weak fairness of giving back;
`LaneRefinement` maps the published holder and token to it (`ImplementsSlot`), so the
order of the four steps of a drop is a matter of the refinement.

### `RunStream` and `RunRegistry`

`RunStream` is one turn and its readers. Pushing is two steps, since `push` releases the
ring's lock before it sends; `Replay` and `Receive` are `attach_sse`'s two loops,
`Lagged` its re-read. Frames are their numbers and sizes; the channel is the numbers sent
so far and `Oldest` what of them it still holds. `drive_turn` is cut at the places
where its outcome is decided (`LoopEnds`, `TailEnds`, `SayCancelled`, `SayDone`). The task is
spawned before its client is attached (`Open`), and it may panic at any place (`TurnPanics`):
then `finish` is skipped, nothing more is pushed and the state stays Running.
`RunRegistry` is many runs without their frames: permits, `insert` with its sweep and
replacement, look-ups, retention, and a turn that panics.

### `QuietCompaction`

A turn is stamped, preempts the lane, is counted and checks in; `met` is the newest pass it
found begun then. The pass's loop looks for turns and for what is due (`Tick`), reads the clock
(`ReadClock`), is granted the lane or refused, publishes its token, announces each pass,
compacts and releases. `due` is what the tick found, with whether each one's turn waits. How
long the quiet has lasted (`idle_for`) is not counted: the lane may grant or refuse whatever it
is, which covers every length and the ticks asked for by hand, which waive it. The watcher and
the select's arms are `PassStopped`.

### `Pairing`

Tables survive `Crash`; the plaintext codes, budgets and runs do not. A run's `pc` is
where it awaits. Methods: CPace and the older mac with a code, the loopback's single
step, the printed card, and a device that resumes. Whether a proof verifies is free.
`checks` counts the CPace tags checked of each code, whatever has become of it; the mac's and
the loopback's checks have no budget in the code, so none is stated for them. `forgotten` is a
history variable: the codes whose count `complete_pairing` has removed, from where on a verify
that had already read the code as live finds a fresh budget (`TagsWithinBudget` below).
`RetireCodes` and `Consume` each change the row, the cache and the count in one step, where the
code has an await after the row: a run in between finds a code that is no longer live in the
table and is refused there, before it could look at the other two, or, past that look already,
acts as it would have before the row changed.
Cryptography, the throttles in front of it and who a device belongs to are left out.

### `CronScheduler`

`tasks` holds a record and a job id per schedule, `jobs` the timer's jobs, `disk` the file.
A call or run in flight is a `proc` with a `pc` for each lock it takes and each write it
makes; `Save`, `Stamp` and `RemoveSpent` copy the map, `Publish` writes a copy unless a
later ticket is on disk. Time counts a recurring schedule's occurrences, which makes
`next_occurrence` and `missed_occurrence` exact: an operation at instant n is at or after
n and before n + 1; a clock that is read and then waits for the map's lock is taken as read
under it. A job id is any that nothing refers to (`FreshJob`). Tickets count up in `nextSeq`;
only their order matters, so they are numbered from 1 again once nobody else holds one
(`Published`), which keeps the instance finite and is part of what is proved. `Boot` is
`rehydrate`, one step since nothing runs beside it and a crash in it is a crash before it.

`update_task` changes what is not the shape under its first lock (`Edit`), remembers whether
the entry was armed, and arms the new shape under the next (`Rearm`) or only stores it
(`Restate`). It can be refused at both (`UpdateRefused`, `RearmRefused`: a cron that cannot be
read, no next occurrence), and removing a job can fail (`UnjobFails`; an update ignores that, a
delete and a pause return it): such a call ends without a save and leaves in the map what it
had changed. A refusal before anything is changed is a step the call does not take.

Three history variables name the windows in which the properties are not promised by the
code: `overtook` (finding 3 below); `unsaved`, from a call that was refused after it had changed
the map to the next copy of the map; and `unwritten`, a fire whose stamp is kept from a file
that still asks, or from a copy on its way there, because an edit or delete that did away with
it is not saved yet; a crash in that window asks about a run that happened. The cooldown is
promised to rules that keep their entry (`KeptRules`): one deleted and made again under its id
starts afresh.

## The runs

All bounds are named in the modules and set in the `.cfg` files.

| Run | Instance | Shows |
|---|---|---|
| `plan_rules` | every plan over 3 keys, a key being absent, Pending with any of 8 sets of waits, or in another state; both algorithms on each, in every order of the calls | the search refuses exactly the circular plans and reports a real circle; the rounds find exactly the blocked steps; a wait has a cause; both end |
| `tasks` | 1 task of any kind, 3 keys, 5 drafts (empty, checked, a chain, a wait that may be missing, a circle), 2 tries, 2 fruitless plans, 1 overrun, 1 error, 2 restarts | the ten properties of `LongTasks`, and that it implements `TaskLife` |
| `activations` | 2 tasks, 1 key, 1 error, 1 restart, fairness | every activation ends, as long as the lane keeps granting |
| `lane` | one chore and the long task, patience 2, waits up to 4, quiet up to 2, fairness | the slot is consistent, a preempt is heard, the chore is served, `LaneSlot` is implemented |
| `stream` | ring of 3 frames and 4 bytes, channel of 2, frames of size 1 and 5, 3 pushes, 2 returns, fairness | no silent hole, the end is kept and sent unless the turn panicked, an interrupted run says so |
| `registry` | 4 runs, 2 sessions, 2 permits, retention 2, panics | a permit means room but for what panicked turns hold, the index is exact |
| `quiet` | 2 turns, 2 conversations, 2 ticks, fairness | a met pass has ended, a stop is kept and seen, a pass beside an answer yields |
| `pairing` | 2 runs, 2 devices, 2 codes, budget 1, 3 tokens, 1 re-arming, 2 restarts | the six properties of `Pairing` |
| `scheduler` | a schedule that asks with a one-shot, or a rule; 2 calls, 2 in flight, 2 instants, 1 restart | the file follows the map but for what refused calls left unsaved, an occurrence runs once, the cooldown holds |
| `lane_view`, `quiet_stopped`, `scheduler_oneshot` | the smallest instances that show them | see the next section |

Why the bounds are enough: three keys give chains, forks, circles through two and
three steps and a hand-off after a plan of two; two tries is the code's own number;
one error and two restarts reach a restart during the recovery of another; a single
task meets every writer, and tasks touch each other only through the order of the
line and the one-activation rule, which `activations` covers. In the lane, one
chore and one long task are the two sides of `precedence`; a second chore matters
only for the order among chores (`StarvedChoreGoesFirst`). Waits saturate below
`Never`, which makes all long waits equal: with two chores their order would then
be lost for ever, an artefact, so the liveness run has one. Three frames overflow the
channel and, by size, the ring; two returns allow a return after the end. Two permits and
four runs fill the registry twice over. Two turns are the one a pass works for and another.
Two runs are a race; two codes a retired one and its successor; a budget of one makes every
second try one too many; two restarts a code that outlives one and is met after another. The
scheduler starts from a file whose schedule was missed at the first boot, so two instants hold
a question, its answer, the next fire and a restart after it; two in flight is every pair of
calls, runs or a call and a run; `Requests` leaves out calls that repeat another's steps.

`CHECK_DEADLOCK FALSE` is set where everything may be finished and all bounds used up.
The lane never stops and its runs check deadlock; `plan_rules` checks it too, since an
algorithm on its way always has a next step.

Fairness. `LongTasks`: the runner's loop is a task of its own that always polls
again, and each helper run ends because its turns are budgeted (weak fairness of
`RunnerStep`); openers and a started `plan_write` go on; clocks advance. Nothing is
assumed of members, turns, errors or of the lane. That a lane which refuses the runner again
and again also grants it again and again (`LaneKeepsGranting`) is the antecedent of
`ActivationEnds`, not an assumption: `lane_view` shows a household in which it fails.
`InferenceLane`: every loop polls on its own timer and every job ends; time passes; nothing is
assumed of the household. `RunStream`: the turn's task goes on unless it panics, every stream
that is read goes on, and the agent's events end (its turns are budgeted and silence times
out); nothing of clients, cancels or panics. `QuietCompaction`: turns check in, the loop goes
on and the watcher polls; of a compaction and of an answer nothing, which is the point.
`PlanAlgorithms`: an algorithm that has a next step takes it.

Each property of a passing run has a fault beside the code it is about (the
definitions commented "Fault:"), and TLC finds the property violated with it: a
plausible bug in that place is caught.

## What the code does that its comments do not say

Three are runs in which TLC finds the quoted sentence violated; the traces are short.

1. `lane_view`: "a person in view suppresses only unasked background chores, never a
   long task" (`inference_lane_runner.rs:347`). With a starved chore, each defers to the
   other while the person stays.
2. `quiet_stopped`: "that turn waits for it rather than stopping it ... Only a turn for
   another conversation stops it." (`main.rs:6503`). Counting that very turn cancels the
   lane's token, which is an arm of the pass's select.
3. `scheduler_oneshot`: "in ticket (content) order, so a slow writer can't publish older
   state over newer" (`cron_scheduler.rs`, `SnapshotWriter`). A fired one-shot copies the
   map under the lock and takes its ticket after it: an acknowledged change saved in
   between is overwritten by the older copy and gone after a restart.

The others are stated as definitions beside the code's model and kept out of the runs; TLC
violates each when it is put, alone, into a copy of the named configuration.

| Definition | In a copy of | The sentence, and what happens |
|---|---|---|
| `NothingMoreRuns` | `MCLongTasks.cfg` | "Nothing more will run for it." (`pond-mcp-server/src/long_task.rs:554`): a cancel between the runner's read and its `update_step` does not stop the step |
| `WaitIsExplained` | `MCLongTasks.cfg` | "Nothing to run until somebody acts" (`long_task_runner.rs:121`): an error of the verifier's run leaves the step Running with nobody running it, and the line behind it waits until a restart |
| `PausedIsOpening` | `MCLongTasks.cfg` | "Paused until its step is stored ...; cancelled if that fails." (`agent_activations.rs:283`): a stop between the two writes, or an artifact that cannot be stored, leaves the task Paused for good |
| `StarvedChoreGoesFirst` | `MCLane.cfg` with two chores, one that never ran | "goes before the long task once" (`inference_lane.rs:138`): the relation is not transitive when a chore never ran |
| `LaggedIsInTheRing` | `RunStream.cfg` | "whatever a lagging subscriber misses is still in the ring" (`runs.rs:21`): not when the reader is slower than the ring is long; `attach_sse` then sends a `replay_gap` |
| `EvictionIsTold` | `RunStream.cfg` | "say so rather than go silent" (`routes.rs:3885`): the stream itself keeps the sender alive, so the arm cannot run |
| `CancelStopsTheRun` | `RunStream.cfg` | "stop the run" (`docs/api.md:903`): a cancel in the tail is accepted and not looked at |
| `CapsWorkInFlightOnly` | `RunRegistry.cfg` | "Cap work in flight only" (`runs.rs:326`): a panicked turn is counted for ever |
| `SessionRunsOneTurn` | `RunRegistry.cfg` | "A session runs one turn at a time" (`runs.rs:315`): nothing refuses the second |
| `NeverDuringItsTurn` | `QuietCompaction.cfg` | "Never during a turn, even by hand" (`main.rs:6551`): a turn that checks in between the tick's look and the pass's announcement |
| `OneCodeWorks` | `MCPairing.cfg` with two issuers | "The code on screen is the only one that works" (`sqlite_handshake.rs:1282`): two issuers read before either writes |
| `TagsWithinBudget` | `MCPairing.cfg` | "concurrent verifies cannot check more tags than the budget allows" and "must not find a fresh budget" (`sqlite_handshake.rs:932`, `337`): `complete_pairing` removes the count (`658`), so a verify past its look at the row starts a new one |
| `CodeIsSingleUse` | `MCPairing.cfg` | "issues a fresh single-use code" (`docs/api.md:731`): two loopback handshakes match before either marks |
| `RefusedEditLeavesNoTrace` | `MCScheduler.cfg` | "The schedule must be untouched by the failed attempt." (`cron_scheduler.rs:1957`): zone, kind and asking are changed in the map before the cron is looked at; the listing shows them and a restart undoes them |

Two more were seen and are no definitions: `PlanStep.attempts` says "a crash does not" give
its attempt back (`domain/long_task.rs:1031`), and recovery gives it back (`main.rs:7093`,
whose own comment says so); and `RecurringJob::fire` says "the run below saves the cleared
question", which it does only while the schedule still asks.

## What is proved

For every value of the constants, from one named assumption per module (`PlanAssumption`,
`InputsAssumption`, `TaskAssumption`, `LaneAssumption`, `CadenceAssumption`, `RegistryAssumption`,
`StreamAssumption`, `QuietAssumption`, `PairingAssumption`, `SchedulerAssumption`: finite sets,
bounds that are numbers, drafts that are drafts, `"none"` not the name of a device, a first file
with nothing of the future in it), which TLC evaluates in every run. Every theorem but `WaitNeedsAStepInFlight` and
`LeadIsTransitive` is about the whole specification, with every actor, error and restart of its module.

| Theorem | Says | Along |
|---|---|---|
| `WaitNeedsAStepInFlight` | `next_run` leaves an open task waiting only if a step is Running or AwaitingApproval, for every acyclic plan | an acyclic set of pending steps has one that waits for none of them, which is then ready or blocked |
| `SearchFindsTheCycles`, `RoundsFindBlocked`, `WaitsHaveACause` | `FindsExactlyTheCycles`, `RoundsFindTheBlocked`, `WaitHasACause` of `PlanAlgorithms`, for any plans, any number of keys and any order of the calls | `SearchInv`: each step of `path` waits for the next and no step is on it twice (`PathOK`), what a call has left and has been through (`LoopsOK`), and, the reason why shared marks lose no circle, the steps that are Done wait only for Done steps and no set of them is circular (`DoneOK`); the blocked set is always within the least closed set (`BlockedOK`), and closed when a round adds nothing. Neither needs an induction over plans: a step is left when all it waits for is Done, so adding it makes no circle; and the steps of a reported circle are themselves a set each waiting for another of it |
| `RecursionStaysBounded` | `RecursionIsBounded`: `visit` is never deeper in its own calls than the plan has steps (`domain/long_task.rs:1595`) | `PathOK`: the path is an injection into the steps |
| `SearchRunsOut` | `StepsRunOut`: each step of the search and of the rounds uses up a start, a wait, a step not done, a step not blocked or the answer, and none gives anything back, so both algorithms end on every plan | `CallUsesUp`: a call takes what the innermost loop had left, and the step it enters has just its own waits |
| `TypesHold` | `TypeOK` of `LongTasks` | one step per action |
| `FinishedIsForever` | `FinishedForever` | `CancelsLiveTasks`: what a cancel has read is not a finished state; the other writers are guarded by `TaskCanBecome` |
| `HistoryIsKept` | `HistoryKept` | every write to `plan` leaves Completed rows: `CheckCurrent` for the two replacing ones, `StepCanBecome` for updates |
| `AttemptsAreBounded` | `AttemptsBounded`: a bound on the count that is stored, which a stop and a recovery take back, not on how often a step is begun | `AttemptsInv`: also the runner's own copy, which overwrites the row's count, is within bounds (`AttemptAllowed`), and a pending `plan_write` holds only unbegun steps (`CallIsFresh`) |
| `DepsAreDone` | `DepsDone` | `DepsInv`: also the step the runner is starting or running has its waits completed (`InputsReady`), and a `plan_write` is pending only while its planner runs (`CallWithinRun`); a replan keeps Completed steps, so a wait once met stays met |
| `OpenedHasItsStep` | `OpenedWithItsStep` | `OpenersLeaveAStep`: an opener past its second call has stored its step; no replan empties a plan (`CallHasSteps`) |
| `RunningStepsHaveTheirRunner` | `RunningHasARunner` | `LedgerInv`, and `RowMoves`: the few ways in which any step moves a row, shown once for all actions |
| `CompletedIsSettled` | `CompletedMeansSettled` | `FinishHolds`: from the runner's look to its ending nobody adds an unsettled step, since the only writer left is the planner's, whose run is over |
| `PlansAreSound` | `PlanSound` | `PlansInv`: also the plan a `plan_write` has checked and not yet written is walkable over what is then stored (`CallIsWalkable`); the lemmas `AcceptedIsWalkable` and `AppendedIsWalkable` say that `validate_plan` and `validate_appended_step` keep a plan walkable |
| `NobodyIsStuck` | `NeverStuck` | from `PlansInv`, `RunningHasARunner`, `ParkedOrParking` (a step awaits approval only in a task that is parked or being parked) and `WaitNeedsAStepInFlight` |
| `TasksKeepTheirPromise` | `ImplementsLife`: `LongTasks` implements `TaskLife` | from `WorkInv`; `HandsMove`, `ResultsStay`, `OneTaskRefines`: each step takes or puts down a task, writes one result, or moves one task, never two of these except a result with which the task is put down |
| `LeadIsTransitive` | among jobs that all have run, the lead `select_next` keeps is transitive | cases on the three kinds of job; the hypothesis is what a chore that never ran violates |
| `LaneTypesHold`, `SlotHolds`, `PreemptIsHeard` | `TypeOK` (a part of `SlotIsConsistent`), `SlotIsConsistent`, `PreemptReachesTheJob` of `InferenceLane` | `SlotInv`: the mutex belongs to the one loop in an owning position, and each drop step leaves exactly what is still published |
| `LaneImplementsSlot` | every step of `InferenceLane` is one of `LaneSlot` or not seen there (`SlotSafety`, `LaneSlot` without its fairness) | from `SlotInv` |
| `IndexStaysExact`, `PermitsMeanRoom` | `IndexIsExact`, `PermitMeansRoom` of `RunRegistry` | `RegistryInv`: a Running run's task still runs or panicked (`TaskDrivesRun`), both maps name registered runs of the right session (`MapsAgree`), and the permits count the tasks (`PermitsHold`) |
| `RingStaysSound`, `NothingIsMissed`, `EndingsAgree` | `RingIsSound`, `NoSilentHole`, `InterruptedAgrees` of `RunStream` | `StreamInv`: the channel is at most one frame behind the ring (`RingOK`), what the turn's task knows of its ending at each place (`TurnOK`), and for each stream that what it sends next goes on from its transcript or from a gap it has announced, and its receiver has missed nothing the ring does not yet give it (`Follows`) |
| `PassStaysSound`, `TurnWaitsForItsPass` | `PassIsSound`, `MetPassHasEnded` of `QuietCompaction` | `QuietInv`: passes are numbered as they begin, so no turn waits for one yet to come (`Numbered`) |
| `PairingIsSound` and, from it, `BudgetsHold`, `ProvedCodePairsOnce`, `DeviceHasOnePair`, `CardAdmitsOne`, `ClaimComesFirst`, `RefreshTokenBuysOnce` | `PairingInv` is inductive; the six properties of `Pairing` | `Typed` (which places each method passes and what a run names there), `Ledger` (promised codes belong to one issuer, a run names an issued code, one that went through has consumed it), `ChecksCounted` (the budget in memory bounds the checks of a code that can still be checked; a restart forgets it and orphans every code, `complete_pairing` removes it), `CardHeld`, `ClaimFirst`, `OnePair` |
| `StateIsSound` | `BaseInv` and `TypeOK` of `CronScheduler` | each action is of one of a few kinds (`Steady`, `Idles`, a crash, a boot), shown once and used by the next three |
| `FileIsFaithful` | `FileFollowsTheMap` | `FileInv`: while no edit is still to be saved and no refused call's change is left over, the copy with the latest ticket that has not lost to the file, or the file, agrees with the map (`NewestAgrees`), but for a question that a run about to be stamped has closed |
| `OccurrencesRunOnce` | `OccurrenceRunsOnce` | `RunsInv`: of an occurrence that ran, or whose run is past its stamp or its answer's save, no copy that may still reach the file asks (`RanOK`, `RunOK`); a timer's run and its named job are for occurrences later than any question (`ChainOK`, `JobsOK`); no two runs in flight are of one occurrence (`Distinct`) |
| `CooldownIsKept` | `CooldownHolds` | `CooldownInv`: every copy that counts has the stamps of the rule's runs (`Stamps`), and runs made and to be made are its cooldown apart (`Spaced`) |

The invariants as stated are not inductive: `AttemptsBounded` says nothing of the
copy the runner will write, `DepsDone` nothing of the step between `Advance` and
`StartStep`, `SlotIsConsistent` nothing of a half-finished drop, `PlanSound` nothing of a plan
checked before and written after another, `NoSilentHole` nothing of frames still in a channel,
`BudgetHolds` nothing of runs on their way to the check when the budget is forgotten,
`OccurrenceRunsOnce` nothing of older copies of the map still to be written. Each
strengthening was checked by TLC on the run's instance before it was proved, and so were
`RecursionIsBounded` and `StepsRunOut`, which no run lists.

## What is only model-checked

- Liveness (`ActivationEnds`, `ChoresAreServed`, `FollowerSeesTheEnd`, `StoppedPassReleases`,
  `PassYields`, `AlgorithmsEnd` and the fairness of `LaneSlot`): out of the prover's reach.
- That an algorithm of `PlanAlgorithms` always has a next step until it has returned (the
  deadlock check of `plan_rules`): `ENABLED`. That it cannot go on for ever is proved.

## What is not modelled, and the plan

Left out of the modelled parts: the embedding slot and compaction's varying quiet in
the lane, its snapshot and tallies; the book of firings; notifications and artifacts; who may
read a run; pairing's throttles; the history file of scheduled runs, and a disk that fails.
`PROJECT.json` lists every other part and why it is not modelled: engines, audio, vision,
outside services, user interface and vendored code, most of the repository's lines, are I/O
or numerical.

Modules still worth writing:

1. `ActivationBook`: one firing per due time, composed with `LongTasks`' openers;
2. the embedding slot beside the lane, and `QuietCompaction` composed with `InferenceLane`;
3. `Settlement` of the mesh: credits under retries and lost answers;
4. `TurnAuthority` and child sessions: a tool reaches only its own run's task;
5. the Hugging Face cache: two downloads of one file.

Every invariant and action property the passing runs check is a theorem.
Theorems next: that the abstract slot and the life of a task, as their users see them, imply
what those users rely on, and the invariants of the modules above as they are written.
