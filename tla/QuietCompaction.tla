--------------------------- MODULE QuietCompaction ---------------------------
(***************************************************************************)
(* The quiet-time compaction pass and the turns that arrive around it      *)
(* (pond-api: quiet_pass.rs, runs.rs turn_started; pond-server: main.rs    *)
(* run_quiet_compaction; the lane's slot as the pass sees it).             *)
(*                                                                         *)
(* A turn is counted, which also cancels whatever holds the lane, and then *)
(* checks in with the pass before it reaches the model.  The pass's loop   *)
(* looks at the turns, asks the lane and only then announces itself; all   *)
(* of these are different locks and tasks.  A pass is watched every 100 ms *)
(* and ended by its compaction, by the slot's token, by a turn that told   *)
(* it to stop or by a turn in flight.  The grace a turn has to announce    *)
(* itself is taken to be longer than a turn needs to.                      *)
(***************************************************************************)
EXTENDS Naturals, Sequences, FiniteSets

CONSTANTS Sessions,
          Turns,    \* household turns; each happens at most once
          MaxTicks  \* bound: ticks of the pass's loop that find something due

ASSUME QuietAssumption == IsFiniteSet(Turns) /\ MaxTicks \in Nat

VARIABLES
    session,   \* session[t]: the conversation of turn t
    turn,      \* turn[t]: how far turn t has got
    met,       \* met[t]: the newest pass begun when turn t checked in, which it waits for if it runs
    loop,      \* where run_quiet_compaction is
    due,       \* the passes this tick will make: conversation, and whether its turn waits
    ticks,     \* ticks that found something due
    active,    \* whether somebody has been active since the tick read the clock
    published, \* whether the slot's token can be cancelled by a turn
    cancelled, \* whether it has been
    running,   \* QuietPasses::running: the pass that has announced itself
    passes     \* passes begun so far (next_id)

household == <<session, turn, met>>
slot      == <<published, cancelled>>
vars      == <<household, loop, due, ticks, active, slot, running, passes>>

Pass == [id : Nat, session : Sessions, waits : BOOLEAN, stop : BOOLEAN]

InFlight == {t \in Turns : turn[t] \in {"counted", "waiting", "answering"}}
Waiting  == {t \in Turns : turn[t] = "waiting"}

Init ==
    /\ session \in [Turns -> Sessions]
    /\ turn = [t \in Turns |-> "none"]
    /\ met = [t \in Turns |-> 0]
    /\ loop = "asleep" /\ due = <<>> /\ ticks = 0 /\ active = FALSE
    /\ published = FALSE /\ cancelled = FALSE
    /\ running = {} /\ passes = 0

-----------------------------------------------------------------------------
(* A turn: note_user_activity, turn_started (the hook, then the count),    *)
(* turn_arrives, the model, the end.                                       *)

TurnStarts(t) ==
    /\ turn[t] = "none"
    /\ turn' = [turn EXCEPT ![t] = "stamped"]
    /\ active' = TRUE
    /\ UNCHANGED <<session, met, loop, due, ticks, slot, running, passes>>

\* preempt cancels whatever holds the lane.
TurnPreempts(t) ==
    /\ turn[t] = "stamped"
    /\ turn' = [turn EXCEPT ![t] = "preempted"]
    /\ cancelled' = (cancelled \/ published)
    /\ UNCHANGED <<session, met, loop, due, ticks, active, published, running, passes>>

TurnCounts(t) ==
    /\ turn[t] = "preempted"
    /\ turn' = [turn EXCEPT ![t] = "counted"]
    /\ UNCHANGED <<session, met, loop, due, ticks, active, slot, running, passes>>

\* Fault: a turn that stops a pass does not wait for it to end.
ArrivesAndGoesOn(t) ==
    /\ turn[t] = "counted"
    /\ \E p \in running :
          /\ met' = [met EXCEPT ![t] = p.id]
          /\ IF p.waits /\ p.session = session[t]
             THEN turn' = [turn EXCEPT ![t] = "waiting"] /\ UNCHANGED running
             ELSE turn' = [turn EXCEPT ![t] = "answering"] /\ running' = {[p EXCEPT !.stop = TRUE]}
    /\ UNCHANGED <<session, loop, due, ticks, active, slot, passes>>

\* Fault: each turn sets the flag anew.
MeetsPassLast(t) ==
    /\ turn[t] = "counted"
    /\ \E p \in running :
          /\ running' = {[p EXCEPT !.stop = ~(p.waits /\ p.session = session[t])]}
          /\ met' = [met EXCEPT ![t] = p.id]
    /\ turn' = [turn EXCEPT ![t] = "waiting"]
    /\ UNCHANGED <<session, loop, due, ticks, active, slot, passes>>

\* turn_arrives while a pass runs: it is told to stop unless this turn would repeat its work.
TurnMeetsPass(t) ==
    /\ turn[t] = "counted"
    /\ \E p \in running :
          /\ running' = {[p EXCEPT !.stop = @ \/ ~(p.waits /\ p.session = session[t])]}
          /\ met' = [met EXCEPT ![t] = p.id]
    /\ turn' = [turn EXCEPT ![t] = "waiting"]
    /\ UNCHANGED <<session, loop, due, ticks, active, slot, passes>>

\* turn_arrives with no pass: the turn goes on to the model.
TurnMeetsNoPass(t) ==
    /\ turn[t] = "counted" /\ running = {}
    /\ turn' = [turn EXCEPT ![t] = "answering"]
    /\ met' = [met EXCEPT ![t] = passes]
    /\ UNCHANGED <<session, loop, due, ticks, active, slot, running, passes>>

\* until_the_pass_ends: the pass it met has dropped its sender.
TurnReleased(t) ==
    /\ turn[t] = "waiting"
    /\ \A p \in running : p.id # met[t]
    /\ turn' = [turn EXCEPT ![t] = "answering"]
    /\ UNCHANGED <<session, met, loop, due, ticks, active, slot, running, passes>>

\* The reply is done; activity is stamped again before the turn stops counting.
TurnEnds(t) ==
    /\ turn[t] = "answering"
    /\ turn' = [turn EXCEPT ![t] = "done"]
    /\ active' = TRUE
    /\ UNCHANGED <<session, met, loop, due, ticks, slot, running, passes>>

-----------------------------------------------------------------------------
(* run_quiet_compaction.                                                   *)

\* A tick with no turn in flight finds conversations due: the ones whose quiet has come, or all.
Tick ==
    /\ loop = "asleep" /\ ticks < MaxTicks /\ InFlight = {}
    /\ due' \in {<<a>> : a \in [session : Sessions, waits : BOOLEAN]}
                \cup {<<a, b>> : a, b \in [session : Sessions, waits : BOOLEAN]}
    /\ loop' = "looked" /\ ticks' = ticks + 1
    /\ UNCHANGED <<household, active, slot, running, passes>>

\* idle_for: how long the household has been quiet, read after other awaits.
ReadClock ==
    /\ loop = "looked"
    /\ loop' = "due" /\ active' = FALSE
    /\ UNCHANGED <<household, due, ticks, slot, running, passes>>

\* acquire grants.  The lane counts no quiet during a turn, but a tick asked for by hand waives the
\* quiet, so a turn that came since the look may be in flight.
Granted ==
    /\ loop = "due"
    /\ loop' = "taken"
    /\ UNCHANGED <<household, due, ticks, active, slot, running, passes>>

\* acquire refuses: a turn, too short a quiet, or another job.
Refused ==
    /\ loop = "due"
    /\ loop' = "asleep" /\ due' = <<>>
    /\ UNCHANGED <<household, ticks, active, slot, running, passes>>

Publish ==
    /\ loop = "taken"
    /\ published' = TRUE /\ cancelled' = FALSE
    /\ loop' = "next"
    /\ UNCHANGED <<household, due, ticks, active, running, passes>>

\* begin for the next conversation due.
Begin ==
    /\ loop = "next" /\ due # <<>>
    /\ passes' = passes + 1
    /\ running' = {[id |-> passes + 1, session |-> Head(due).session,
                    waits |-> Head(due).waits, stop |-> FALSE]}
    /\ due' = Tail(due)
    /\ loop' = "compacting"
    /\ UNCHANGED <<household, ticks, active, slot>>

\* The pass is dropped, which releases every turn waiting on it.
Ended(next) == loop' = next /\ running' = {}

\* compact_session returns, whatever it found.
CompactionEnds ==
    /\ loop = "compacting"
    /\ Ended("next")
    /\ UNCHANGED <<household, due, ticks, active, slot, passes>>

\* Fault: a pass its turn waits for does not look at the stop flag.
SomeoneBackUnlessWaits ==
    \E p \in running :
        IF p.waits THEN Cardinality({t \in InFlight : turn[t] # "counted"}) > Cardinality(Waiting)
                   ELSE p.stop \/ active \/ InFlight # {}

\* Fault: the watcher of a pass its turn waits for looks only at the stop flag.
SomeoneBackWhenTold ==
    \E p \in running : p.stop \/ (~p.waits /\ (active \/ InFlight # {}))

\* The watcher's reasons to end a pass: told to; a turn in flight that did not announce itself; or,
\* for a pass nobody waits for, anybody back.
SomeoneBack ==
    \E p \in running :
        \/ p.stop
        \/ p.waits /\ Cardinality({t \in InFlight : turn[t] # "counted"}) > Cardinality(Waiting)
        \/ ~p.waits /\ (active \/ InFlight # {})

\* The slot's token or the watcher stops the pass, and the tick with it.
PassStopped ==
    /\ loop = "compacting"
    /\ cancelled \/ SomeoneBack
    /\ Ended("releasing")
    /\ due' = <<>>
    /\ UNCHANGED <<household, ticks, active, slot, passes>>

Release ==
    /\ loop = "releasing" \/ (loop = "next" /\ due = <<>>)
    /\ published' = FALSE /\ cancelled' = FALSE
    /\ loop' = "asleep"
    /\ UNCHANGED <<household, due, ticks, active, running, passes>>

TurnStep(t) == TurnPreempts(t) \/ TurnCounts(t) \/ TurnMeetsPass(t) \/ TurnMeetsNoPass(t)
               \/ TurnReleased(t)

LoopStep == ReadClock \/ Granted \/ Refused \/ Publish \/ Begin \/ Release

Next ==
    \/ \E t \in Turns : TurnStarts(t) \/ TurnStep(t) \/ TurnEnds(t)
    \/ Tick \/ LoopStep \/ CompactionEnds \/ PassStopped

Spec == Init /\ [][Next]_vars

\* Tasks go on; the watcher polls every 100 ms.  Of a compaction and of an answer nothing is
\* assumed: each is a model call and may take as long as it likes.
FairSpec ==
    /\ Spec
    /\ \A t \in Turns : WF_vars(TurnStep(t))
    /\ WF_vars(LoopStep) /\ WF_vars(PassStopped)

-----------------------------------------------------------------------------
TypeOK ==
    /\ session \in [Turns -> Sessions]
    /\ turn \in [Turns -> {"none", "stamped", "preempted", "counted", "waiting", "answering", "done"}]
    /\ met \in [Turns -> Nat]
    /\ loop \in {"asleep", "looked", "due", "taken", "next", "compacting", "releasing"}
    /\ due \in Seq([session : Sessions, waits : BOOLEAN])
    /\ ticks \in 0..MaxTicks /\ passes \in Nat
    /\ {active, published, cancelled} \subseteq BOOLEAN
    /\ running \subseteq Pass /\ Cardinality(running) <= 1
    /\ (running # {}) <=> (loop = "compacting")

\* A turn that is at the model has outlived every pass begun before it checked in, whoever stopped
\* whom and however it waited: the only pass it can share the model with began afterwards.
MetPassHasEnded ==
    \A t \in Turns : turn[t] = "answering" => \A p \in running : p.id > met[t]

\* While a turn waits for a pass that is not doing that turn's work, the pass stays told to stop,
\* whichever turns arrive after it.
StopIsKept ==
    \A t \in Waiting : \A p \in running :
        met[t] = p.id /\ ~(p.waits /\ p.session = session[t]) => p.stop

\* One pass at a time, running exactly while the loop compacts, and a stop once asked for is kept.
PassIsSound == TypeOK /\ StopIsKept

\* Liveness: a turn that has to stop a pass is not held up by it, however long the compaction
\* would take: the stop is seen at the next poll.
StoppedPassReleases ==
    \A t \in Turns :
        (turn[t] = "waiting" /\ \E p \in running : p.stop) ~> (turn[t] # "waiting")

\* Liveness: a pass that began beside an answering turn (asked for by hand, or the turn came between
\* the tick's look and begin) gives the model back, however long the answer and the compaction
\* would take.
PassYields ==
    \A t \in Turns :
        (turn[t] = "answering" /\ running # {}) ~> (running = {} \/ turn[t] # "answering")

\* run_quiet_compaction: "that turn waits for it rather than stopping it ... Only a turn for
\* another conversation stops it."
OnlyAnotherStopsIt ==
    [][\A p \in running :
          loop = "compacting" /\ loop' = "releasing" /\ p.waits =>
              \E t \in Turns : turn[t] \notin {"none", "done"} /\ session[t] # p.session]_vars

\* run_quiet_compaction: "Never during a turn, even by hand: ... this pass rewrites the history a
\* turn is answering in."
NeverDuringItsTurn ==
    \A p \in running : \A t \in Turns : session[t] = p.session => turn[t] # "answering"
=============================================================================
