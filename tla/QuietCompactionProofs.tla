------------------------ MODULE QuietCompactionProofs ------------------------
(***************************************************************************)
(* Theorems about QuietCompaction, for every set of conversations, every   *)
(* finite set of turns and every number of ticks.                          *)
(***************************************************************************)
EXTENDS QuietCompaction, SequenceTheorems, FiniteSetTheorems, TLAPS

Due == [session : Sessions, waits : BOOLEAN]

\* The types proper: the flags one by one, and one pass at a time without counting.
Types ==
  /\ session \in [Turns -> Sessions]
  /\ turn \in [Turns -> {"none", "stamped", "preempted", "counted", "waiting", "answering", "done"}]
  /\ met \in [Turns -> Nat]
  /\ loop \in {"asleep", "looked", "due", "taken", "next", "compacting", "releasing"}
  /\ due \in Seq(Due)
  /\ ticks \in 0..MaxTicks /\ passes \in Nat
  /\ running \subseteq Pass

Flags == active \in BOOLEAN /\ published \in BOOLEAN /\ cancelled \in BOOLEAN

OnePass ==
  /\ \A p, q \in running : p = q
  /\ (running # {}) <=> (loop = "compacting")

\* Passes are numbered as they begin: the one that runs is the newest, and no turn has met a pass
\* yet to come.
Numbered ==
  /\ \A p \in running : p.id = passes
  /\ \A t \in Turns : met[t] <= passes

QuietInv == Types /\ Flags /\ OnePass /\ Numbered /\ StopIsKept /\ MetPassHasEnded

LEMMA InvInit == Init => QuietInv
<1> SUFFICES ASSUME Init PROVE QuietInv
  OBVIOUS
<1>1. Types
  BY QuietAssumption DEF Init, Types
<1>2. Flags
  BY Zenon DEF Init, Flags
<1>3. OnePass /\ Numbered /\ StopIsKept /\ MetPassHasEnded
  BY DEF Init, OnePass, Numbered, StopIsKept, MetPassHasEnded
<1> QED
  BY <1>1, <1>2, <1>3 DEF QuietInv

\* The steps of a turn.
LEMMA TurnKeepsInv ==
  ASSUME QuietInv, NEW t \in Turns, TurnStarts(t) \/ TurnStep(t) \/ TurnEnds(t)
  PROVE  QuietInv'
<1>1. CASE TurnStarts(t)
  <2>1. Types' /\ OnePass' /\ Numbered'
    BY <1>1 DEF TurnStarts, QuietInv, Types, OnePass, Numbered, slot
  <2>2. Flags'
    BY <1>1, Zenon DEF TurnStarts, QuietInv, Flags, slot
  <2>3. StopIsKept'
    BY <1>1 DEF TurnStarts, QuietInv, Types, StopIsKept, Waiting
  <2>4. MetPassHasEnded'
    BY <1>1 DEF TurnStarts, QuietInv, Types, MetPassHasEnded, Numbered, Pass
  <2> QED
    BY <2>1, <2>2, <2>3, <2>4 DEF QuietInv
<1>2. CASE TurnPreempts(t)
  <2>1. Types' /\ OnePass' /\ Numbered'
    BY <1>2 DEF TurnPreempts, QuietInv, Types, OnePass, Numbered
  <2>2. Flags'
    BY <1>2, Zenon DEF TurnPreempts, QuietInv, Flags
  <2>3. StopIsKept'
    BY <1>2 DEF TurnPreempts, QuietInv, Types, StopIsKept, Waiting
  <2>4. MetPassHasEnded'
    BY <1>2 DEF TurnPreempts, QuietInv, Types, MetPassHasEnded, Numbered, Pass
  <2> QED
    BY <2>1, <2>2, <2>3, <2>4 DEF QuietInv
<1>3. CASE TurnCounts(t)
  <2>1. Types' /\ OnePass' /\ Numbered'
    BY <1>3 DEF TurnCounts, QuietInv, Types, OnePass, Numbered, slot
  <2>2. Flags'
    BY <1>3, Zenon DEF TurnCounts, QuietInv, Flags, slot
  <2>3. StopIsKept'
    BY <1>3 DEF TurnCounts, QuietInv, Types, StopIsKept, Waiting
  <2>4. MetPassHasEnded'
    BY <1>3 DEF TurnCounts, QuietInv, Types, MetPassHasEnded, Numbered, Pass
  <2> QED
    BY <2>1, <2>2, <2>3, <2>4 DEF QuietInv
<1>4. CASE TurnMeetsPass(t)
  <2>1. PICK p \in running :
           /\ running' = {[p EXCEPT !.stop = @ \/ ~(p.waits /\ p.session = session[t])]}
           /\ met' = [met EXCEPT ![t] = p.id]
    BY <1>4 DEF TurnMeetsPass
  <2> DEFINE told == p.stop \/ ~(p.waits /\ p.session = session[t])
             q    == [p EXCEPT !.stop = told]
  <2>2. p \in Pass /\ told \in BOOLEAN
    <3>1. p \in Pass
      BY DEF QuietInv, Types
    <3>2. p.stop \in BOOLEAN
      BY <3>1 DEF Pass
    <3>3. told \in BOOLEAN
      BY <3>2, Zenon
    <3> QED
      BY <3>1, <3>3
  <2>3. /\ q \in Pass /\ q.id = p.id /\ q.waits = p.waits /\ q.session = p.session /\ q.stop = told
        /\ running' = {q}
    <3> HIDE DEF told
    <3>1. /\ q \in Pass /\ q.id = p.id /\ q.waits = p.waits /\ q.session = p.session /\ q.stop = told
      BY <2>2 DEF Pass
    <3>2. running' = {q}
      BY <2>1 DEF told
    <3> QED
      BY <3>1, <3>2
  <2> HIDE DEF told, q
  <2>4. Types' /\ OnePass' /\ Numbered'
    BY <1>4, <2>1, <2>2, <2>3 DEF TurnMeetsPass, QuietInv, Types, Pass, OnePass, Numbered
  <2>5. Flags'
    BY <1>4, Zenon DEF TurnMeetsPass, QuietInv, Flags, slot
  <2>6. StopIsKept'
    <3> SUFFICES ASSUME NEW u \in Turns, turn'[u] = "waiting", met'[u] = q.id,
                        ~(q.waits /\ q.session = session[u])
                 PROVE  q.stop
      BY <1>4, <2>3 DEF StopIsKept, Waiting, TurnMeetsPass
    <3>1. CASE u = t
      BY <2>3, <3>1 DEF told
    <3>2. CASE u # t
      <4>1. u \in Waiting /\ met[u] = p.id /\ ~(p.waits /\ p.session = session[u])
        BY <1>4, <2>1, <2>3, <3>2 DEF TurnMeetsPass, Waiting, QuietInv, Types
      <4>2. p.stop
        BY <4>1 DEF QuietInv, StopIsKept
      <4> QED
        BY <2>3, <4>2 DEF told
    <3> QED
      BY <3>1, <3>2
  <2>7. MetPassHasEnded'
    BY <1>4, <2>1, <2>3 DEF TurnMeetsPass, QuietInv, Types, MetPassHasEnded
  <2> QED
    BY <2>4, <2>5, <2>6, <2>7 DEF QuietInv
<1>5. CASE TurnMeetsNoPass(t)
  <2>1. Types' /\ OnePass' /\ Numbered'
    BY <1>5 DEF TurnMeetsNoPass, QuietInv, Types, OnePass, Numbered, slot
  <2>2. Flags'
    BY <1>5, Zenon DEF TurnMeetsNoPass, QuietInv, Flags, slot
  <2>3. StopIsKept'
    BY <1>5 DEF TurnMeetsNoPass, QuietInv, Types, StopIsKept, Waiting
  <2>4. MetPassHasEnded'
    BY <1>5 DEF TurnMeetsNoPass, QuietInv, Types, MetPassHasEnded, Numbered, Pass
  <2> QED
    BY <2>1, <2>2, <2>3, <2>4 DEF QuietInv
<1>6. CASE TurnReleased(t)
  <2>1. Types' /\ OnePass' /\ Numbered'
    BY <1>6 DEF TurnReleased, QuietInv, Types, OnePass, Numbered, slot
  <2>2. Flags'
    BY <1>6, Zenon DEF TurnReleased, QuietInv, Flags, slot
  <2>3. StopIsKept'
    BY <1>6 DEF TurnReleased, QuietInv, Types, StopIsKept, Waiting
  <2>4. MetPassHasEnded'
    BY <1>6 DEF TurnReleased, QuietInv, Types, MetPassHasEnded, Numbered, Pass
  <2> QED
    BY <2>1, <2>2, <2>3, <2>4 DEF QuietInv
<1>7. CASE TurnEnds(t)
  <2>1. Types' /\ OnePass' /\ Numbered'
    BY <1>7 DEF TurnEnds, QuietInv, Types, OnePass, Numbered, slot
  <2>2. Flags'
    BY <1>7, Zenon DEF TurnEnds, QuietInv, Flags, slot
  <2>3. StopIsKept'
    BY <1>7 DEF TurnEnds, QuietInv, Types, StopIsKept, Waiting
  <2>4. MetPassHasEnded'
    BY <1>7 DEF TurnEnds, QuietInv, Types, MetPassHasEnded, Numbered, Pass
  <2> QED
    BY <2>1, <2>2, <2>3, <2>4 DEF QuietInv
<1> QED
  BY <1>1, <1>2, <1>3, <1>4, <1>5, <1>6, <1>7 DEF TurnStep

\* The steps of the pass's loop.
LEMMA LoopKeepsInv ==
  ASSUME QuietInv, Tick \/ LoopStep \/ CompactionEnds \/ PassStopped
  PROVE  QuietInv'
<1>1. ASSUME UNCHANGED <<running, passes, household>>, loop # "compacting", loop' # "compacting"
      PROVE  OnePass' /\ Numbered' /\ StopIsKept' /\ MetPassHasEnded'
  BY <1>1 DEF QuietInv, OnePass, Numbered, StopIsKept, MetPassHasEnded, Waiting, household
<1>2. CASE Tick
  <2>1. due' \in Seq(Due)
    <3>1. ASSUME NEW a \in Due PROVE <<a>> \in Seq(Due)
      BY <3>1
    <3>2. ASSUME NEW a \in Due, NEW b \in Due PROVE <<a, b>> \in Seq(Due)
      BY <3>2
    <3>3. \/ \E a \in Due : due' = <<a>>
          \/ \E a, b \in Due : due' = <<a, b>>
      <4>1. due' \in {<<a>> : a \in Due} \cup {<<a, b>> : a, b \in Due}
        BY <1>2 DEF Tick, Due
      <4>2. due' \in {<<a>> : a \in Due} => \E a \in Due : due' = <<a>>
        OBVIOUS
      <4>3. due' \in {<<a, b>> : a, b \in Due} => \E a, b \in Due : due' = <<a, b>>
        OBVIOUS
      <4> QED
        BY <4>1, <4>2, <4>3
    <3> QED
      BY <3>1, <3>2, <3>3
  <2>2. Types'
    BY <1>2, <2>1, QuietAssumption DEF Tick, QuietInv, Types, household
  <2>3. Flags'
    BY <1>2, Zenon DEF Tick, QuietInv, Flags, slot
  <2> QED
    BY <1>1, <1>2, <2>2, <2>3 DEF Tick, QuietInv
<1>3. CASE ReadClock \/ Granted \/ Refused
  <2>1. Types'
    BY <1>3, EmptySeq DEF ReadClock, Granted, Refused, QuietInv, Types, household
  <2>2. Flags'
    BY <1>3, Zenon DEF ReadClock, Granted, Refused, QuietInv, Flags, slot
  <2> QED
    BY <1>1, <1>3, <2>1, <2>2 DEF ReadClock, Granted, Refused, QuietInv
<1>4. CASE Publish
  <2>1. Types'
    BY <1>4 DEF Publish, QuietInv, Types, household
  <2>2. Flags'
    BY <1>4, Zenon DEF Publish, QuietInv, Flags
  <2> QED
    BY <1>1, <1>4, <2>1, <2>2 DEF Publish, QuietInv
<1>5. CASE Begin
  <2> DEFINE p == [id |-> passes + 1, session |-> Head(due).session,
                   waits |-> Head(due).waits, stop |-> FALSE]
  <2>1. Head(due) \in Due /\ Tail(due) \in Seq(Due)
    BY <1>5, HeadTailProperties DEF Begin, QuietInv, Types
  <2>2. p \in Pass /\ p.id = passes + 1
    BY <2>1 DEF Pass, Due, QuietInv, Types
  <2>3. Types'
    BY <1>5, <2>1, <2>2 DEF Begin, QuietInv, Types, household
  <2>4. Flags'
    BY <1>5, Zenon DEF Begin, QuietInv, Flags, slot
  <2>5. OnePass'
    BY <1>5 DEF Begin, OnePass
  <2>6. Numbered'
    BY <1>5, <2>2 DEF Begin, QuietInv, Types, Numbered, household
  <2>7. StopIsKept'
    <3>1. running' = {p} /\ \A t \in Turns : met'[t] = met[t] /\ met[t] < p.id
      BY <1>5, <2>2 DEF Begin, QuietInv, Types, Numbered, household
    <3> HIDE DEF p
    <3>2. \A t \in Turns : met'[t] # p.id
      BY <2>2, <3>1 DEF QuietInv, Types, Pass
    <3> QED
      BY <3>1, <3>2 DEF StopIsKept, Waiting
  <2>8. MetPassHasEnded'
    BY <1>5, <2>2 DEF Begin, QuietInv, Types, Numbered, MetPassHasEnded, household
  <2> QED
    BY <2>3, <2>4, <2>5, <2>6, <2>7, <2>8 DEF QuietInv
<1>6. CASE Release
  <2>1. Types'
    BY <1>6 DEF Release, QuietInv, Types, household
  <2>2. Flags'
    BY <1>6, Zenon DEF Release, QuietInv, Flags
  <2> QED
    BY <1>1, <1>6, <2>1, <2>2 DEF Release, QuietInv
<1>7. CASE CompactionEnds \/ PassStopped
  <2>1. Types'
    BY <1>7, EmptySeq DEF CompactionEnds, PassStopped, Ended, QuietInv, Types, household
  <2>2. Flags'
    BY <1>7, Zenon DEF CompactionEnds, PassStopped, QuietInv, Flags, slot
  <2>3. OnePass' /\ Numbered' /\ StopIsKept' /\ MetPassHasEnded'
    BY <1>7 DEF CompactionEnds, PassStopped, Ended, QuietInv, OnePass, Numbered, StopIsKept,
                MetPassHasEnded, household
  <2> QED
    BY <2>1, <2>2, <2>3 DEF QuietInv
<1> QED
  BY <1>2, <1>3, <1>4, <1>5, <1>6, <1>7 DEF LoopStep

\* QuietInv is inductive.
LEMMA QuietInvHolds == Spec => []QuietInv
<1>1. QuietInv /\ [Next]_vars => QuietInv'
  <2> SUFFICES ASSUME QuietInv, [Next]_vars PROVE QuietInv'
    OBVIOUS
  <2>1. CASE UNCHANGED vars
    <3>1. Types' /\ OnePass' /\ Numbered' /\ StopIsKept' /\ MetPassHasEnded'
      BY <2>1 DEF vars, household, slot, QuietInv, Types, OnePass, Numbered, StopIsKept, Waiting,
                  MetPassHasEnded
    <3>2. Flags'
      BY <2>1, Zenon DEF vars, slot, QuietInv, Flags
    <3> QED
      BY <3>1, <3>2 DEF QuietInv
  <2> QED
    BY <2>1, TurnKeepsInv, LoopKeepsInv DEF Next
<1> QED
  BY <1>1, InvInit, PTL DEF Spec

\* One pass runs at a time and only while the loop compacts; whichever turns arrive, a pass told to
\* stop for one of them stays told.
THEOREM PassStaysSound == Spec => []PassIsSound
<1>1. QuietInv => PassIsSound
  <2> SUFFICES ASSUME QuietInv PROVE TypeOK /\ StopIsKept
    BY DEF PassIsSound
  <2>1. Cardinality(running) <= 1
    <3>1. CASE running = {}
      BY <3>1, FS_EmptySet
    <3>2. ASSUME NEW p \in running PROVE Cardinality(running) <= 1
      <4>1. running = {p} /\ Cardinality({p}) = 1
        BY <3>2, FS_Singleton DEF QuietInv, OnePass
      <4> QED
        BY <4>1
    <3> QED
      BY <3>1, <3>2
  <2>2. {active, published, cancelled} \subseteq BOOLEAN
    BY Zenon DEF QuietInv, Flags
  <2> QED
    BY <2>1, <2>2 DEF QuietInv, Types, Due, OnePass, TypeOK
<1> QED
  BY <1>1, QuietInvHolds, PTL

\* A turn at the model has outlived every pass begun before it checked in: the one it met has ended
\* before the turn went on.
THEOREM TurnWaitsForItsPass == Spec => []MetPassHasEnded
<1>1. QuietInv => MetPassHasEnded
  BY DEF QuietInv
<1> QED
  BY <1>1, QuietInvHolds, PTL
=============================================================================
