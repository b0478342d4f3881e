----------------------------- MODULE LaneProofs -----------------------------
(***************************************************************************)
(* Theorems about the inference lane, for every list of jobs, cadence and  *)
(* restored run log.                                                       *)
(***************************************************************************)
EXTENDS LaneRefinement, TLAPS

\* Once every job has a recorded run, "takes the lead from" is transitive, so select_next's one
\* pass cannot be led round a circle by the order of declaration.
THEOREM LeadIsTransitive ==
  ASSUME NEW st \in [Jobs -> JobState], NEW asking,
         NEW a \in Jobs, NEW b \in Jobs, NEW c \in Jobs,
         \A j \in Jobs : st[j].since # Never,
         a # b, b # c, a # c,
         Wins(st, a, b, asking), Wins(st, b, c, asking)
  PROVE  Wins(st, a, c, asking)
<1>1. /\ st[a].since \in Nat /\ st[b].since \in Nat /\ st[c].since \in Nat
      /\ Patience \in Nat
  BY LaneAssumption DEF JobState
<1>2. \A j \in Jobs : Starved(st[j]) <=> st[j].since >= Patience
  BY DEF Starved
<1>3. \A j \in Jobs : j \in Chores <=> j # "Compaction" /\ j # "LongTaskStep"
  BY DEF Chores, Awaited
<1>4. CASE Precedes(st, a, b)
  BY <1>1, <1>2, <1>3, <1>4 DEF Wins, Precedes
<1>5. CASE ~Precedes(st, a, b)
  BY <1>1, <1>2, <1>3, <1>5 DEF Wins, Precedes
<1> QED
  BY <1>4, <1>5

-----------------------------------------------------------------------------
(* Types.                                                                  *)

\* acquire and drop move one loop and keep the rest.
LEMMA LoopTypes ==
  ASSUME TypeOK, NEW j \in Jobs
  PROVE  /\ GoToSleep(j) => /\ jpc' \in [Jobs -> LoopStates]
                            /\ quietSeen' \in [Jobs -> 0..MaxIdle]
                            /\ waived' \in [Jobs -> BOOLEAN]
         /\ \A next \in LoopStates : MoveOn(j, next) => jpc' \in [Jobs -> LoopStates]
<1>1. jpc \in [Jobs -> LoopStates] /\ "asleep" \in LoopStates
  BY DEF TypeOK, LoopStates
<1>2. quietSeen \in [Jobs -> 0..MaxIdle] /\ 0 \in 0..MaxIdle
  BY CadenceAssumption DEF TypeOK
<1>3. waived \in [Jobs -> BOOLEAN]
  BY DEF TypeOK
<1>4. ASSUME GoToSleep(j) PROVE waived' \in [Jobs -> BOOLEAN]
  BY <1>3, <1>4, Zenon DEF GoToSleep
<1>5. ASSUME GoToSleep(j)
      PROVE  jpc' \in [Jobs -> LoopStates] /\ quietSeen' \in [Jobs -> 0..MaxIdle]
  BY <1>1, <1>2, <1>5 DEF GoToSleep
<1>6. ASSUME NEW next \in LoopStates, MoveOn(j, next) PROVE jpc' \in [Jobs -> LoopStates]
  BY <1>1, <1>6 DEF MoveOn
<1> QED
  BY <1>4, <1>5, <1>6

\* The lane starts with every variable of its type.
LEMMA LaneTypeInit == Init => TypeOK
<1> SUFFICES ASSUME Init PROVE TypeOK
  OBVIOUS
<1>1. saw \in BOOLEAN /\ person \in BOOLEAN /\ cancelled \in BOOLEAN
  BY Zenon DEF Init
<1>2. waived \in [Jobs -> BOOLEAN]
  BY Zenon DEF Init
<1>3. since \in [Jobs -> 0..Never]
  BY CadenceAssumption DEF Init
<1>4. /\ idle \in 0..MaxIdle
      /\ quietSeen \in [Jobs -> 0..MaxIdle]
  BY CadenceAssumption DEF Init
<1>5. /\ turn = "none"
      /\ reg \in [Jobs -> {"none", "on", "off"}]
      /\ jpc \in [Jobs -> LoopStates]
      /\ {guard, holder, active} \subseteq Jobs \cup {NoJob}
  BY DEF Init, LoopStates
<1> QED
  BY <1>1, <1>2, <1>3, <1>4, <1>5 DEF TypeOK

\* A tick of a job keeps the types.
LEMMA JobStepType ==
  ASSUME TypeOK, NEW j \in Jobs, JobStep(j)
  PROVE  TypeOK'
<1> USE DEF household, lane, loops
<1>1. ASSUME Ask(j) PROVE TypeOK'
  BY <1>1, CadenceAssumption DEF Ask, TypeOK, LoopStates
<1>2. ASSUME Decide(j) PROVE TypeOK'
  BY <1>2, LoopTypes DEF Decide, MoveOn, TypeOK, LoopStates
<1>3. ASSUME TakeSlot(j) PROVE TypeOK'
  BY <1>3, LoopTypes DEF TakeSlot, MoveOn, TypeOK, LoopStates
<1>4. ASSUME Publish(j) PROVE TypeOK'
  BY <1>4, LoopTypes DEF Publish, MoveOn, TypeOK, LoopStates
<1>9. ASSUME PublishToken(j) PROVE TypeOK'
  BY <1>9, LoopTypes DEF PublishToken, MoveOn, TypeOK, LoopStates
<1>5. ASSUME DropToken(j) PROVE TypeOK'
  BY <1>5, LoopTypes DEF DropToken, MoveOn, TypeOK, LoopStates
<1>6. ASSUME RecordRun(j) PROVE TypeOK'
  <2>1. since' \in [Jobs -> 0..Never]
    BY <1>6, LaneAssumption DEF RecordRun, TypeOK
  <2> QED
    BY <1>6, <2>1, LoopTypes DEF RecordRun, MoveOn, TypeOK, LoopStates
<1>7. ASSUME ClearHolder(j) PROVE TypeOK'
  BY <1>7, LoopTypes DEF ClearHolder, MoveOn, TypeOK, LoopStates
<1>8. ASSUME Release(j) PROVE TypeOK'
  BY <1>8, LoopTypes DEF Release, TypeOK, LoopStates
<1> QED
  BY <1>1, <1>2, <1>3, <1>4, <1>5, <1>6, <1>7, <1>8, <1>9 DEF JobStep

\* TypeOK is inductive.
LEMMA LaneTypeNext == TypeOK /\ [Next]_vars => TypeOK'
<1> SUFFICES ASSUME TypeOK, [Next]_vars PROVE TypeOK'
  OBVIOUS
<1> USE DEF household, lane, loops
<1>1. CASE UNCHANGED vars
  BY <1>1 DEF vars, TypeOK
<1>2. CASE \E j \in Jobs : JobStep(j)
  BY <1>2, JobStepType
<1>3. CASE Household
  <2>1. CASE TurnArrives \/ TurnCounts \/ TurnEnds
    <3>1. saw' \in BOOLEAN
      BY <2>1, Zenon DEF TurnArrives, TurnCounts, TurnEnds, TypeOK
    <3> QED
      BY <2>1, <3>1, CadenceAssumption DEF TurnArrives, TurnCounts, TurnEnds, TypeOK
  <2>2. CASE TurnPreempts
    <3>1. cancelled' \in BOOLEAN
      BY <2>2, Zenon DEF TurnPreempts
    <3> QED
      BY <2>2, <3>1 DEF TurnPreempts, TypeOK
  <2>3. CASE PersonMoves
    <3>1. person' \in BOOLEAN
      BY <2>3, Zenon DEF PersonMoves
    <3> QED
      BY <2>3, <3>1 DEF PersonMoves, TypeOK
  <2> QED
    BY <1>3, <2>1, <2>2, <2>3 DEF Household
<1>4. CASE TimePasses
  <2>1. idle' \in 0..MaxIdle
    BY <1>4, CadenceAssumption DEF TimePasses, TypeOK
  <2>2. since' \in [Jobs -> 0..Never]
    BY <1>4, LaneAssumption DEF TimePasses, TypeOK
  <2> QED
    BY <1>4, <2>1, <2>2 DEF TimePasses, TypeOK
<1> QED
  BY <1>1, <1>2, <1>3, <1>4 DEF Next

\* Every reachable state of the lane is well typed.
THEOREM LaneTypesHold == Spec => []TypeOK
BY LaneTypeInit, LaneTypeNext, PTL DEF Spec

-----------------------------------------------------------------------------
(* The slot, what is published about it, and the token.                    *)

\* SlotIsConsistent with what holds while the slot is being taken or dropped: what a drop has
\* still to clear is its own.
SlotInv ==
  /\ \A j \in Jobs : jpc[j] \in Owning <=> guard = j
  /\ \A j \in Jobs : active = j <=> jpc[j] = "running"
  /\ \A j \in Jobs : holder = j <=> jpc[j] \in {"shown", "running", "dropping", "recorded"}

\* No tick of a job, and no stage of its drop, touches what another job has published.
LEMMA SlotStep ==
  ASSUME TypeOK, SlotInv, NEW j \in Jobs, JobStep(j)
  PROVE  SlotInv'
<1> USE DEF household, lane, loops
<1>0. /\ jpc \in [Jobs -> LoopStates]
      /\ guard \in Jobs \cup {NoJob} /\ holder \in Jobs \cup {NoJob}
      /\ active \in Jobs \cup {NoJob}
      /\ NoJob \notin Jobs
  BY LaneAssumption DEF TypeOK
<1>1. ASSUME Ask(j) PROVE SlotInv'
  BY <1>0, <1>1 DEF Ask, SlotInv, Owning
<1>2. ASSUME Decide(j) PROVE SlotInv'
  BY <1>0, <1>2 DEF Decide, MoveOn, GoToSleep, SlotInv, Owning
<1>3. ASSUME TakeSlot(j) PROVE SlotInv'
  BY <1>0, <1>3 DEF TakeSlot, MoveOn, GoToSleep, SlotInv, Owning
<1>4. ASSUME Publish(j) \/ PublishToken(j) PROVE SlotInv'
  BY <1>0, <1>4 DEF Publish, PublishToken, MoveOn, SlotInv, Owning
<1>5. ASSUME DropToken(j) PROVE SlotInv'
  BY <1>0, <1>5 DEF DropToken, MoveOn, SlotInv, Owning
<1>6. ASSUME RecordRun(j) PROVE SlotInv'
  BY <1>0, <1>6 DEF RecordRun, MoveOn, SlotInv, Owning
<1>7. ASSUME ClearHolder(j) PROVE SlotInv'
  BY <1>0, <1>7 DEF ClearHolder, MoveOn, SlotInv, Owning
<1>8. ASSUME Release(j) PROVE SlotInv'
  BY <1>0, <1>8 DEF Release, GoToSleep, SlotInv, Owning
<1> QED
  BY <1>1, <1>2, <1>3, <1>4, <1>5, <1>6, <1>7, <1>8 DEF JobStep

\* SlotInv is inductive.
LEMMA SlotNext == TypeOK /\ SlotInv /\ [Next]_vars => SlotInv'
<1> SUFFICES ASSUME TypeOK, SlotInv, [Next]_vars PROVE SlotInv'
  OBVIOUS
<1>1. CASE \E j \in Jobs : JobStep(j)
  BY <1>1, SlotStep
<1>2. CASE UNCHANGED vars \/ Household \/ TimePasses
  <2>1. UNCHANGED <<guard, holder, active, jpc>>
    BY <1>2 DEF vars, household, lane, loops, Household, TurnArrives, TurnPreempts, TurnCounts,
                TurnEnds, PersonMoves, TimePasses
  <2> QED
    BY <2>1 DEF SlotInv
<1> QED
  BY <1>1, <1>2 DEF Next

\* The lane starts with a free slot.
LEMMA SlotInit == Init => SlotInv
BY LaneAssumption DEF Init, SlotInv, Owning

\* What follows for a reader of the lane.
LEMMA SlotImplies == TypeOK /\ SlotInv => SlotIsConsistent
BY LaneAssumption DEF TypeOK, SlotInv, SlotIsConsistent, Owning

\* However many jobs ask and however late a drop's stages come, at most one owns the slot, and
\* the holder GET /lane shows and the token a preempt cancels are its own.
THEOREM SlotHolds == Spec => []SlotIsConsistent
BY SlotInit, SlotNext, SlotImplies, LaneTypeInit, LaneTypeNext, PTL DEF Spec

\* A starting turn's preempt cancels the job that is running then.
THEOREM PreemptIsHeard == Spec => PreemptReachesTheJob
<1>1. TypeOK /\ SlotInv /\ [Next]_vars => [PreemptHeard]_vars
  <2> SUFFICES ASSUME TypeOK, SlotInv, Next, turn = "arrived", turn' = "preempted",
                      NEW j \in Jobs, jpc[j] = "running"
               PROVE  cancelled'
    BY DEF PreemptHeard
  <2>1. active = j /\ j # NoJob
    BY LaneAssumption DEF SlotInv
  <2>2. TurnPreempts
    BY DEF Next, JobStep, Ask, Decide, TakeSlot, Publish, PublishToken, DropToken, RecordRun, ClearHolder,
           Release, Household, TurnArrives, TurnCounts, TurnEnds, PersonMoves, TimePasses, household
  <2> QED
    BY <2>1, <2>2 DEF TurnPreempts, TypeOK
<1> QED
  BY <1>1, SlotInit, SlotNext, LaneTypeInit, LaneTypeNext, PTL DEF Spec, PreemptReachesTheJob
-----------------------------------------------------------------------------
(* The lane implements LaneSlot.                                           *)

\* The safety of ImplementsSlot: all of LaneSlot but the promise that every job ends.
SlotSafety == Slot!Init /\ [][Slot!Next]_(Slot!vars)

\* A tick of a job starts it, gives the slot back, or is not seen.
LEMMA JobStepRefines ==
  ASSUME TypeOK, SlotInv, NEW j \in Jobs, JobStep(j)
  PROVE  [Slot!Next]_(Slot!vars)
<1> USE DEF household, lane, loops, Slot!vars
<1>0. NoJob \notin Jobs /\ holder \in Jobs \cup {NoJob}
  BY LaneAssumption DEF TypeOK
<1>1. ASSUME Publish(j) PROVE Slot!Start(j)
  <2>1. holder = NoJob
    BY <1>0, <1>1 DEF Publish, SlotInv, Owning
  <2> QED
    BY <1>1, <2>1 DEF Publish, Slot!Start
<1>2. ASSUME ClearHolder(j) PROVE Slot!GiveBack
  <2>1. holder = j
    BY <1>2 DEF ClearHolder, SlotInv
  <2> QED
    BY <1>0, <1>2, <2>1 DEF ClearHolder, Slot!GiveBack
<1>3. CASE Ask(j) \/ Decide(j) \/ TakeSlot(j) \/ PublishToken(j) \/ DropToken(j) \/ RecordRun(j) \/ Release(j)
  <2>1. UNCHANGED <<holder, cancelled>>
    BY <1>3 DEF Ask, Decide, TakeSlot, PublishToken, DropToken, RecordRun, Release
  <2> QED
    BY <2>1
<1> QED
  BY <1>1, <1>2, <1>3 DEF JobStep, Slot!Next

\* A preempt asks the job that is shown to stop, unless its token is not published yet or is gone
\* already; nothing else the household does is seen.
LEMMA HouseholdRefines ==
  ASSUME TypeOK, SlotInv, UNCHANGED vars \/ Household \/ TimePasses
  PROVE  [Slot!Next]_(Slot!vars)
<1> USE DEF household, lane, loops, Slot!vars
<1>1. CASE TurnPreempts
  <2>1. holder' = holder /\ cancelled' = (cancelled \/ active # NoJob)
    BY <1>1 DEF TurnPreempts
  <2>2. CASE holder # NoJob /\ active # NoJob
    BY <2>1, <2>2 DEF Slot!Next, Slot!AskToStop
  <2>3. CASE holder = NoJob \/ active = NoJob
    BY <2>1, <2>3 DEF TypeOK
  <2> QED
    BY <2>2, <2>3
<1>2. CASE UNCHANGED vars \/ TurnArrives \/ TurnCounts \/ TurnEnds \/ PersonMoves \/ TimePasses
  <2>1. UNCHANGED <<holder, cancelled>>
    BY <1>2 DEF vars, TurnArrives, TurnCounts, TurnEnds, PersonMoves, TimePasses
  <2> QED
    BY <2>1
<1> QED
  BY <1>1, <1>2 DEF Household

\* Acquires, drops, preempts and turns, however they interleave, are seen as one job at a time
\* from its start to its end, and no stop asked of one job is inherited by the next: the lane
\* implements the safety of LaneSlot for every list of jobs.
THEOREM LaneImplementsSlot == Spec => SlotSafety
<1>1. Init => Slot!Init
  BY DEF Init, Slot!Init
<1>2. TypeOK /\ SlotInv /\ [Next]_vars => [Slot!Next]_(Slot!vars)
  BY JobStepRefines, HouseholdRefines DEF Next
<1> QED
  BY <1>1, <1>2, SlotInit, SlotNext, LaneTypeInit, LaneTypeNext, PTL DEF Spec, SlotSafety
=============================================================================
