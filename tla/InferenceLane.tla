---------------------------- MODULE InferenceLane ----------------------------
(***************************************************************************)
(* The one slot every background job that spends inference goes through    *)
(* (pond-server: inference_lane_runner.rs), with the loops that ask for    *)
(* it, the household turns that take it back, and a person in view of the  *)
(* camera.                                                                 *)
(*                                                                         *)
(* Each loop is a task of its own.  acquire is cut where another task can  *)
(* come in between: after it has read the household and registered, after  *)
(* it has decided, after it has taken the slot, and between the locks      *)
(* under which it publishes the holder and the token.  Dropping the slot   *)
(* is cut at each lock it takes.  A nudge to the winner only brings its    *)
(* next poll forward; in the model a loop may poll at any time.            *)
(***************************************************************************)
EXTENDS LaneRules

CONSTANTS Floor,      \* Floor[j], Quiet[j]: the cadence each loop asks with
          Quiet,
          Exempt,     \* the jobs that may run before anything has happened
          ByHand,     \* the jobs somebody may press Run now for
          FirstSince, \* the waits a restored run log may hold at boot
          HasCamera,  \* whether anything watches for a person in view
          MaxIdle     \* bound: quiet is told apart up to here

ASSUME CadenceAssumption ==
    /\ Floor \in [Jobs -> Nat] /\ Quiet \in [Jobs -> Nat]
    /\ Exempt \subseteq Jobs /\ ByHand \subseteq Jobs
    /\ FirstSince \subseteq 0..Never
    /\ HasCamera \in BOOLEAN
    /\ MaxIdle \in Nat

VARIABLES
    idle,      \* time since the household was last active
    saw,       \* whether it has been active since boot
    turn,      \* how far a household turn has got
    person,    \* whether a person is in view
    reg,       \* reg[j]: what j registered at its last tick
    since,     \* since[j]: time since j's last recorded run
    jpc,       \* jpc[j]: where the loop of j is
    quietSeen, \* quietSeen[j]: the quiet j's acquire counts with
    waived,    \* waived[j]: whether this tick of j was asked for by hand
    guard,     \* who holds the slot's mutex
    holder,    \* who is published as holding it
    active,    \* whose cancellation token is published
    cancelled  \* whether that of the slot's owner is cancelled

household == <<idle, saw, turn, person>>
lane      == <<reg, since, guard, holder, active, cancelled>>
loops     == <<jpc, quietSeen, waived>>
vars      == <<household, lane, loops>>

LoopStates ==
    {"asleep", "asked", "won", "taken", "shown", "running", "dropping", "recorded", "cleared"}

\* The states in which a loop holds the mutex.
Owning == {"taken", "shown", "running", "dropping", "recorded", "cleared"}

Init ==
    /\ idle = 0 /\ saw = FALSE /\ turn = "none" /\ person = FALSE
    /\ reg = [j \in Jobs |-> "none"]
    /\ since \in [Jobs -> FirstSince]
    /\ jpc = [j \in Jobs |-> "asleep"]
    /\ quietSeen = [j \in Jobs |-> 0]
    /\ waived = [j \in Jobs |-> FALSE]
    /\ guard = NoJob /\ holder = NoJob /\ active = NoJob
    /\ cancelled = FALSE

-----------------------------------------------------------------------------
(* A tick of one job: wait_for_tick, then acquire.                         *)

\* acquire counts no quiet during a turn, nor for a chore while a person is in view; then it
\* registers what the job wants now.
Ask(j) ==
    /\ jpc[j] = "asleep"
    /\ \E enabled \in BOOLEAN, byHand \in BOOLEAN :
          /\ byHand => j \in ByHand
          /\ reg' = [reg EXCEPT ![j] = IF enabled THEN "on" ELSE "off"]
          /\ waived' = [waived EXCEPT ![j] = byHand]
    /\ quietSeen' = [quietSeen EXCEPT ![j] =
                        IF turn = "running" \/ (j \in Chores /\ person) THEN 0 ELSE idle]
    /\ jpc' = [jpc EXCEPT ![j] = "asked"]
    /\ UNCHANGED <<household, since, guard, holder, active, cancelled>>

\* job_states as the tick of asker sees it: a waiver stays on the asker's own copy.
JobStates(asker) ==
    [j \in Jobs |->
        LET waive == waived[asker] /\ j = asker
        IN  [enabled |-> reg[j] = "on",
             since   |-> since[j],
             floor   |-> IF waive THEN 0 ELSE Floor[j],
             quiet   |-> IF waive THEN 0 ELSE Quiet[j],
             exempt  |-> waive \/ j \in Exempt]]

GoToSleep(j) ==
    /\ jpc' = [jpc EXCEPT ![j] = "asleep"]
    /\ quietSeen' = [quietSeen EXCEPT ![j] = 0]
    /\ waived' = [waived EXCEPT ![j] = FALSE]

MoveOn(j, next) ==
    /\ jpc' = [jpc EXCEPT ![j] = next]
    /\ UNCHANGED <<quietSeen, waived>>

Decide(j) ==
    /\ jpc[j] = "asked"
    /\ IF SelectNext(JobStates(j), saw, quietSeen[j], j) = j THEN MoveOn(j, "won") ELSE GoToSleep(j)
    /\ UNCHANGED <<household, lane>>

\* try_lock: a busy slot is not waited for.
TakeSlot(j) ==
    /\ jpc[j] = "won"
    /\ \/ guard = NoJob /\ guard' = j /\ MoveOn(j, "taken")
       \/ guard # NoJob /\ GoToSleep(j) /\ UNCHANGED guard
    /\ UNCHANGED <<household, reg, since, holder, active, cancelled>>

\* Fault: the token of the job before is used again.
PublishOldToken(j) ==
    /\ jpc[j] = "taken"
    /\ holder' = j
    /\ MoveOn(j, "shown")
    /\ UNCHANGED <<household, reg, since, guard, active, cancelled>>

\* The holder is published; the token made for it is new and known to nobody yet.
Publish(j) ==
    /\ jpc[j] = "taken"
    /\ holder' = j
    /\ cancelled' = FALSE
    /\ MoveOn(j, "shown")
    /\ UNCHANGED <<household, reg, since, guard, active>>

\* Fault: the token is never published.
PublishNoToken(j) ==
    /\ jpc[j] = "shown"
    /\ MoveOn(j, "running")
    /\ UNCHANGED <<household, reg, since, guard, holder, active, cancelled>>

\* The token is published, under a lock of its own, and the job runs.
PublishToken(j) ==
    /\ jpc[j] = "shown"
    /\ active' = j
    /\ MoveOn(j, "running")
    /\ UNCHANGED <<household, reg, since, guard, holder, cancelled>>

-----------------------------------------------------------------------------
(* The job ends, by itself or because its token was cancelled: LaneSlot's  *)
(* Drop, and last the mutex guard inside it.                               *)

\* Fault: the mutex is freed before what was published is cleared.
DropGuardFirst(j) ==
    /\ jpc[j] = "running"
    /\ active' = NoJob
    /\ guard' = NoJob
    /\ MoveOn(j, "dropping")
    /\ UNCHANGED <<household, reg, since, holder, cancelled>>

DropToken(j) ==
    /\ jpc[j] = "running"
    /\ active' = NoJob
    /\ MoveOn(j, "dropping")
    /\ UNCHANGED <<household, reg, since, guard, holder, cancelled>>

RecordRun(j) ==
    /\ jpc[j] = "dropping"
    /\ since' = [since EXCEPT ![j] = 0]
    /\ MoveOn(j, "recorded")
    /\ UNCHANGED <<household, reg, guard, holder, active, cancelled>>

ClearHolder(j) ==
    /\ jpc[j] = "recorded"
    /\ holder' = NoJob
    /\ MoveOn(j, "cleared")
    /\ UNCHANGED <<household, reg, since, guard, active, cancelled>>

Release(j) ==
    /\ jpc[j] = "cleared"
    /\ guard' = NoJob
    /\ GoToSleep(j)
    /\ UNCHANGED <<household, reg, since, holder, active, cancelled>>

-----------------------------------------------------------------------------
(* The household.                                                          *)

\* note_user_activity, the first thing a turn does.
TurnArrives ==
    /\ turn = "none"
    /\ turn' = "arrived"
    /\ idle' = 0
    /\ saw' = TRUE
    /\ UNCHANGED <<person, lane, loops>>

\* turn_started calls the preempt hook ...
TurnPreempts ==
    /\ turn = "arrived"
    /\ turn' = "preempted"
    /\ cancelled' = (cancelled \/ active # NoJob)
    /\ UNCHANGED <<idle, saw, person, reg, since, guard, holder, active, loops>>

\* ... and then counts the turn.
TurnCounts ==
    /\ turn = "preempted"
    /\ turn' = "running"
    /\ UNCHANGED <<idle, saw, person, lane, loops>>

\* Its answer is stored, which is activity too.
TurnEnds ==
    /\ turn = "running"
    /\ turn' = "none"
    /\ idle' = 0
    /\ UNCHANGED <<saw, person, lane, loops>>

PersonMoves ==
    /\ HasCamera
    /\ person' = ~person
    /\ UNCHANGED <<idle, saw, turn, lane, loops>>

\* Longer waits than the bounds are told apart from Never and from nothing else.
TimePasses ==
    /\ idle' = IF idle < MaxIdle THEN idle + 1 ELSE idle
    /\ since' = [j \in Jobs |-> IF since[j] + 1 < Never THEN since[j] + 1 ELSE since[j]]
    /\ UNCHANGED <<saw, turn, person, reg, guard, holder, active, cancelled, loops>>

-----------------------------------------------------------------------------

JobStep(j) ==
    \/ Ask(j) \/ Decide(j) \/ TakeSlot(j) \/ Publish(j) \/ PublishToken(j)
    \/ DropToken(j) \/ RecordRun(j) \/ ClearHolder(j) \/ Release(j)

Household == TurnArrives \/ TurnPreempts \/ TurnCounts \/ TurnEnds \/ PersonMoves

Next == (\E j \in Jobs : JobStep(j)) \/ Household \/ TimePasses

Spec == Init /\ [][Next]_vars

\* Every loop polls on a timer of its own and every job ends; time passes.  Nothing is assumed of
\* the household.
Fairness == (\A j \in Jobs : WF_vars(JobStep(j))) /\ WF_vars(TimePasses)

FairSpec == Spec /\ Fairness

-----------------------------------------------------------------------------
(* Safety.                                                                 *)

\* Every variable has its type.
TypeOK ==
    /\ idle \in 0..MaxIdle
    /\ saw \in BOOLEAN
    /\ turn \in {"none", "arrived", "preempted", "running"}
    /\ person \in BOOLEAN
    /\ reg \in [Jobs -> {"none", "on", "off"}]
    /\ since \in [Jobs -> 0..Never]
    /\ jpc \in [Jobs -> LoopStates]
    /\ quietSeen \in [Jobs -> 0..MaxIdle]
    /\ waived \in [Jobs -> BOOLEAN]
    /\ {guard, holder, active} \subseteq Jobs \cup {NoJob}
    /\ cancelled \in BOOLEAN

\* Whoever runs owns the slot alone, is the one GET /lane shows, and is the one a preempt reaches:
\* no drop of an earlier run, however late, wipes what a later one has published.
SlotIsConsistent ==
    /\ TypeOK
    /\ \A j \in Jobs : jpc[j] \in Owning <=> guard = j
    /\ \A j \in Jobs : jpc[j] = "running" => holder = j /\ active = j
    /\ holder # NoJob => guard = holder
    /\ active # NoJob => jpc[active] = "running"

\* The preempt a starting turn sends cancels every job that is running then.
PreemptHeard ==
    (turn = "arrived" /\ turn' = "preempted") => \A j \in Jobs : jpc[j] = "running" => cancelled'

PreemptReachesTheJob == [][PreemptHeard]_vars

\* precedence, "A chore that has waited CHORE_PATIENCE since it last ran goes before the long task
\* once, so a long line of tasks never starves it.": a long task wins no tick in which such a
\* chore may run.
LongTaskGivesWay ==
    LET st == JobStates("LongTaskStep")
    IN  ( /\ "LongTaskStep" \in Jobs
          /\ jpc["LongTaskStep"] = "asked"
          /\ jpc'["LongTaskStep"] = "won" ) =>
            \A c \in Chores :
                ~(ShouldRun(st[c], saw, quietSeen["LongTaskStep"]) /\ Starved(st[c]))

StarvedChoreGoesFirst == [][LongTaskGivesWay]_vars

-----------------------------------------------------------------------------
(* Liveness.                                                               *)

QuietHousehold == turn = "none" /\ saw

\* A chore that has run before and keeps asking, in a quiet house with nobody in view, runs again
\* and again, however long the line of tasks is and however the two loops' ticks fall.
ChoresAreServed ==
    \A c \in Chores :
        <>[](QuietHousehold /\ ~person /\ reg[c] = "on") => []<>(guard = c)

\* acquire, "a person in view suppresses only unasked background chores, never a long task or
\* compaction the member is waiting on": with somebody in view and nobody speaking, a long task
\* that keeps asking runs again and again.
PresenceHoldsBackChoresOnly ==
    <>[](QuietHousehold /\ person /\ reg["LongTaskStep"] = "on") => []<>(guard = "LongTaskStep")
=============================================================================
