----------------------------- MODULE LaneRules -----------------------------
(***************************************************************************)
(* The pure rules of the inference lane: when a background job may run,    *)
(* and which of the jobs that may run goes first (pond-core:               *)
(* consolidation_schedule.rs and inference_lane.rs).                       *)
(*                                                                         *)
(* Durations are small natural numbers; Never is the Duration::MAX that    *)
(* select_next takes for the wait of a job with no recorded run.           *)
(***************************************************************************)
EXTENDS Naturals, SequencesExt

CONSTANTS JobOrder,   \* the lane's jobs in declaration order, a part of LaneJob::ALL
          Patience,   \* CHORE_PATIENCE
          Never       \* longer than any wait

Jobs == {JobOrder[i] : i \in DOMAIN JobOrder}

NoJob == "none"

ASSUME LaneAssumption ==
    /\ JobOrder \in Seq(STRING)
    /\ NoJob \notin Jobs
    /\ Patience \in Nat /\ Never \in Nat
    /\ 0 < Patience /\ Patience < Never

\* What a member is waiting on; every other job is a chore of the pond's own.
Awaited == {"Compaction", "LongTaskStep"}

Chores == Jobs \ Awaited

\* One job's readiness, as job_states hands it to select_next.
JobState == [enabled : BOOLEAN, since : 0..Never, floor : Nat, quiet : Nat, exempt : BOOLEAN]

\* should_run: enabled, something has happened since boot, quiet for long enough, and its last run
\* long enough ago.
ShouldRun(state, saw, idle) ==
    /\ state.enabled
    /\ saw \/ state.exempt
    /\ idle >= state.quiet
    /\ state.since = Never \/ state.since >= state.floor

\* A job that never ran is not "starved" to precedence.
Starved(state) == state.since # Never /\ state.since >= Patience

\* Fault: a chore's patience is not looked at.
PrecedesAlways(st, a, b) ==
    \/ a = "Compaction" /\ b # "Compaction"
    \/ a = "LongTaskStep" /\ b \in Chores

\* precedence(a, b) = Less: a compaction, then a long task, then the chores; but a starved chore
\* goes before the long task.
Precedes(st, a, b) ==
    \/ a = "Compaction" /\ b # "Compaction"
    \/ a = "LongTaskStep" /\ b \in Chores /\ ~Starved(st[b])
    \/ a \in Chores /\ b = "LongTaskStep" /\ Starved(st[a])

\* Whether a takes the lead from b: by precedence, then by the longer wait, then by asking.
Wins(st, a, b, asking) ==
    \/ Precedes(st, a, b)
    \/ /\ ~Precedes(st, b, a)
       /\ \/ st[a].since > st[b].since
          \/ st[a].since = st[b].since /\ a = asking

\* select_next: one pass over the jobs in declaration order, keeping the leader.
SelectNext(st, saw, idle, asking) ==
    LET Leader(best, j) ==
            IF ShouldRun(st[j], saw, idle) /\ (best = NoJob \/ Wins(st, j, best, asking))
            THEN j ELSE best
    IN  FoldLeft(Leader, NoJob, JobOrder)
=============================================================================
