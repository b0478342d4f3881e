------------------------- MODULE LongTaskPlanProofs -------------------------
(***************************************************************************)
(* Facts about the rules of LongTaskPlan, for every set of keys: what a    *)
(* replan, a hand-off and the runner's choice of a step return, and that   *)
(* the two graph algorithms compute what the rules take them to mean.      *)
(***************************************************************************)
EXTENDS PlanAlgorithms, FiniteSetTheorems, SequenceTheorems, WellFoundedInduction, TLAPS

-----------------------------------------------------------------------------
(* Least and greatest elements: the ordinals of a plan are naturals.       *)

\* A set of naturals that is not empty has a least element.
LEMMA LeastNatural ==
  ASSUME NEW T, T \subseteq Nat, T # {}
  PROVE  \E m \in T : \A n \in T : m <= n
<1>1. PICK m \in T : \A n \in T : ~(<<n, m>> \in OpToRel(<, Nat))
  BY WFMin, NatLessThanWellFounded
<1>2. ASSUME NEW n \in T PROVE m <= n
  <2>1. m \in Nat /\ n \in Nat
    OBVIOUS
  <2>2. ~(n < m)
    BY <1>1, <2>1 DEF OpToRel
  <2> QED
    BY <2>1, <2>2
<1> QED
  BY <1>2

\* A finite row of naturals has an upper bound.  By the least prefix that has none.
LEMMA RowBounded ==
  ASSUME NEW N \in Nat, NEW f \in [1..N -> Nat]
  PROVE  \E b \in Nat : \A i \in 1..N : f[i] <= b
<1> DEFINE Unbounded == {n \in 0..N : \A b \in Nat : \E i \in 1..n : ~(f[i] <= b)}
<1>1. ASSUME Unbounded # {} PROVE FALSE
  <2>1. Unbounded \subseteq Nat
    OBVIOUS
  <2>2. PICK m \in Unbounded : \A n \in Unbounded : m <= n
    <3> HIDE DEF Unbounded
    <3> QED
      BY <1>1, <2>1, LeastNatural
  <2>3. m \in 1..N /\ m - 1 \in 0..N
    BY <2>2
  <2>4. m - 1 \notin Unbounded
    <3>1. ~(m <= m - 1)
      BY <2>3
    <3> HIDE DEF Unbounded
    <3> QED
      BY <2>2, <3>1
  <2>5. PICK b \in Nat : \A i \in 1..(m - 1) : f[i] <= b
    BY <2>3, <2>4
  <2>6. f[m] \in Nat
    BY <2>3
  <2>7. b + f[m] \in Nat
    BY <2>6
  <2>8. \A i \in 1..m : f[i] <= b + f[m]
    BY <2>3, <2>5, <2>6
  <2> QED
    BY <2>2, <2>7, <2>8
<1>2. N \notin Unbounded
  BY <1>1
<1> QED
  BY <1>2

\* A finite set of steps has an upper bound on its ordinals.
LEMMA OrdinalsBounded ==
  ASSUME NEW p \in Plan, NEW among, among \subseteq Keys, IsFiniteSet(among)
  PROVE  \E b \in Nat : \A k \in among : p[k].ordinal <= b
<1>1. PICK s \in Seq(among) : \A k \in among : \E n \in 1..Len(s) : s[n] = k
  BY DEF IsFiniteSet
<1> DEFINE f == [i \in 1..Len(s) |-> p[s[i]].ordinal]
<1>2. \A i \in 1..Len(s) : s[i] \in Keys
  OBVIOUS
<1>3. f \in [1..Len(s) -> Nat]
  BY <1>2 DEF Plan, Step
<1>4. PICK b \in Nat : \A i \in 1..Len(s) : f[i] <= b
  <2>1. Len(s) \in Nat
    OBVIOUS
  <2> HIDE DEF f
  <2> QED
    BY <1>3, <2>1, RowBounded
<1> QED
  BY <1>1, <1>4

\* next_run and next_ready_step choose one of the steps they look at.
LEMMA FirstIsAmong ==
  ASSUME NEW p \in Plan, NEW among, among \subseteq Keys, among # {}
  PROVE  First(p, among) \in among
<1> DEFINE Ordinals == {p[k].ordinal : k \in among}
<1>1. Ordinals \subseteq Nat /\ Ordinals # {}
  BY DEF Plan, Step
<1>2. PICK m \in Ordinals : \A n \in Ordinals : m <= n
  BY <1>1, LeastNatural
<1>3. PICK k \in among : m = p[k].ordinal
  BY <1>2
<1>4. \A j \in among : p[k].ordinal <= p[j].ordinal
  BY <1>2, <1>3
<1> QED
  BY <1>4 DEF First

\* The ordinal after which new steps are numbered is a natural and no step of the set is past it.
LEMMA LastOrdinalBounds ==
  ASSUME NEW p \in Plan, NEW among, among \subseteq Keys, IsFiniteSet(among)
  PROVE  /\ LastOrdinal(p, among) \in Nat
         /\ \A k \in among : p[k].ordinal <= LastOrdinal(p, among)
<1> DEFINE Ord(k) == p[k].ordinal
<1>1. \A k \in Keys : Ord(k) \in Nat
  BY DEF Plan, Step
<1>2. CASE among = {}
  BY <1>2 DEF LastOrdinal
<1>3. CASE among # {}
  <2> DEFINE Bounds == {b \in Nat : \A k \in among : Ord(k) <= b}
  <2>1. Bounds # {}
    BY OrdinalsBounded
  <2>2. PICK u \in Bounds : \A b \in Bounds : u <= b
    BY <2>1, LeastNatural
  <2>3. \E k \in among : Ord(k) = u
    <3>1. SUFFICES ASSUME \A k \in among : Ord(k) # u PROVE FALSE
      OBVIOUS
    <3>2. \A k \in among : Ord(k) \in Nat /\ Ord(k) < u
      BY <1>1, <2>2, <3>1
    <3>3. u # 0
      BY <1>3, <3>2
    <3>4. u - 1 \in Nat
      BY <2>2, <3>3
    <3>5. \A k \in among : Ord(k) <= u - 1
      BY <3>2, <3>4
    <3>6. u - 1 \in Bounds
      BY <3>4, <3>5
    <3> QED
      BY <2>2, <3>6
  <2>4. PICK k \in among : Ord(k) = u
    BY <2>3
  <2>5. \A j \in among : p[j].ordinal <= p[k].ordinal
    BY <2>2, <2>4
  <2> DEFINE top == CHOOSE i \in among : \A j \in among : p[j].ordinal <= p[i].ordinal
  <2>6. top \in among /\ \A j \in among : p[j].ordinal <= p[top].ordinal
    BY <2>5
  <2>7. LastOrdinal(p, among) = p[top].ordinal
    BY <1>3 DEF LastOrdinal
  <2> QED
    BY <1>1, <2>6, <2>7
<1> QED
  BY <1>2, <1>3

-----------------------------------------------------------------------------
(* What the rules return is a plan.                                        *)

\* A set of step keys is finite.
LEMMA KeysAreFinite ==
  ASSUME NEW s, s \subseteq Keys
  PROVE  IsFiniteSet(s)
BY PlanAssumption, FS_Subset

\* A task without steps has a plan.
LEMMA NoPlanType == NoPlan \in Plan
BY DEF NoPlan, NoStep, Plan, Step, StepStates

\* PlanStep::preempt returns a step, with no more attempts than before.
LEMMA PreemptedType ==
  ASSUME NEW s \in Step
  PROVE  /\ Preempted(s) \in Step
         /\ Preempted(s).state = "Pending"
         /\ Preempted(s).attempts \in Nat
         /\ Preempted(s).attempts <= s.attempts
         /\ s.attempts > 0 => Preempted(s).attempts < s.attempts
         /\ Preempted(s).waits = s.waits
         /\ Preempted(s).ordinal = s.ordinal
<1> DEFINE n == IF s.attempts = 0 THEN 0 ELSE s.attempts - 1
<1>1. s.attempts \in Nat
  BY DEF Step
<1>2. n \in Nat /\ n <= s.attempts /\ (s.attempts > 0 => n < s.attempts)
  BY <1>1
<1>3. Preempted(s) = [s EXCEPT !.state = "Pending", !.attempts = n]
  BY DEF Preempted
<1> HIDE DEF n
<1>4. Preempted(s) \in Step
  BY <1>2, <1>3 DEF Step, StepStates
<1>5. /\ Preempted(s).state = "Pending"
      /\ Preempted(s).attempts = n
      /\ Preempted(s).waits = s.waits
      /\ Preempted(s).ordinal = s.ordinal
  BY <1>3 DEF Step
<1> QED
  BY <1>2, <1>4, <1>5

\* PlanStep::start returns a running step with one more attempt.
LEMMA StartedType ==
  ASSUME NEW s \in Step
  PROVE  /\ Started(s) \in Step
         /\ Started(s).state = "Running"
         /\ Started(s).attempts = s.attempts + 1
<1> DEFINE n == s.attempts + 1
<1>1. n \in Nat
  BY DEF Step
<1>2. Started(s) = [s EXCEPT !.state = "Running", !.attempts = n]
  BY DEF Started
<1> HIDE DEF n
<1>3. Started(s) \in Step /\ Started(s).state = "Running" /\ Started(s).attempts = n
  BY <1>1, <1>2 DEF Step, StepStates
<1> QED
  BY <1>3 DEF n

\* PlanStep::record and fail return a step.
LEMMA SettledType ==
  ASSUME NEW s \in Step, NEW to \in StepStates
  PROVE  /\ Settled(s, to) \in Step
         /\ Settled(s, to).state = to
         /\ Settled(s, to).attempts = s.attempts
BY DEF Settled, Step, StepStates

\* A draft becomes a pending step that has not been begun.
LEMMA DraftStepType ==
  ASSUME NEW p \in Plan, NEW drafts \in Seq(Draft), NEW k \in DraftKeys(drafts)
  PROVE  LET new == DraftStep(p, drafts, DraftIndex(drafts, k))
         IN  new \in Step /\ new.state = "Pending" /\ new.attempts = 0
<1> DEFINE i == DraftIndex(drafts, k)
<1>1. i \in DOMAIN drafts /\ drafts[i].key = k
  BY DEF DraftIndex, DraftKeys
<1>2. i \in Nat /\ i \in 1..Len(drafts)
  BY <1>1
<1>3. \A j \in 1..Len(drafts) : drafts[j] \in Draft
  OBVIOUS
<1>4. Kept(p) \subseteq Keys
  BY DEF Kept
<1>5. LastOrdinal(p, Kept(p)) \in Nat
  BY <1>4, KeysAreFinite, LastOrdinalBounds
<1>6. DraftWaits(p, drafts, i) \subseteq Keys
  <2>1. drafts[i].waits \subseteq Keys
    BY <1>2, <1>3 DEF Draft
  <2>2. {drafts[j].key : j \in 1..(i - 1)} \subseteq Keys
    BY <1>2, <1>3 DEF Draft
  <2> QED
    BY <2>1, <2>2 DEF DraftWaits
<1>7. drafts[i].check \in BOOLEAN
  BY <1>2, <1>3 DEF Draft
<1>8. LastOrdinal(p, Kept(p)) + i \in Nat
  BY <1>2, <1>5
<1> HIDE DEF i
<1> QED
  BY <1>6, <1>7, <1>8 DEF DraftStep, Step, StepStates, i

\* A replan keeps the steps that survive it, and its new steps are pending and not begun.
LEMMA ReplannedType ==
  ASSUME NEW p \in Plan, NEW drafts \in Seq(Draft)
  PROVE  /\ Replanned(p, drafts) \in Plan
         /\ \A k \in DraftKeys(drafts) \ Kept(p) :
               Replanned(p, drafts)[k].state = "Pending" /\ Replanned(p, drafts)[k].attempts = 0
<1>1. \A k \in Keys : p[k] \in Step
  BY DEF Plan
<1>2. NoStep \in Step
  BY DEF NoStep, Step, StepStates
<1>3. ASSUME NEW k \in Keys PROVE Replanned(p, drafts)[k] \in Step
  BY <1>1, <1>2, <1>3, DraftStepType DEF Replanned
<1>4. ASSUME NEW k \in DraftKeys(drafts) \ Kept(p)
      PROVE  Replanned(p, drafts)[k].state = "Pending" /\ Replanned(p, drafts)[k].attempts = 0
  <2>1. k \in Keys
    <3>1. \A j \in 1..Len(drafts) : drafts[j] \in Draft
      OBVIOUS
    <3> QED
      BY <3>1 DEF DraftKeys, Draft
  <2>2. Replanned(p, drafts)[k] = DraftStep(p, drafts, DraftIndex(drafts, k))
    BY <2>1, <1>4 DEF Replanned
  <2> QED
    BY <2>2, <1>4, DraftStepType
<1>5. Replanned(p, drafts) = [k \in Keys |-> Replanned(p, drafts)[k]]
  BY DEF Replanned
<1>6. Replanned(p, drafts) \in Plan
  BY <1>3, <1>5 DEF Plan
<1> QED
  BY <1>4, <1>6

\* replace_open_steps leaves a plan.
LEMMA ReplacedType ==
  ASSUME NEW p \in Plan, NEW fresh \in Plan, NEW new
  PROVE  Replaced(p, fresh, new) \in Plan
<1>1. NoStep \in Step
  BY DEF NoStep, Step, StepStates
<1> QED
  BY <1>1 DEF Replaced, Plan

\* An appended hand-off step leaves a plan.
LEMMA AppendedType ==
  ASSUME NEW p \in Plan, NEW k \in Keys, NEW source \in Keys
  PROVE  Appended(p, k, source) \in Plan
<1>1. Present(p) \subseteq Keys
  BY DEF Present
<1>2. LastOrdinal(p, Present(p)) \in Nat
  BY <1>1, KeysAreFinite, LastOrdinalBounds
<1> DEFINE last == LastOrdinal(p, Present(p)) + 1
           new  == [state |-> "Pending", attempts |-> 0, waits |-> {source},
                    ordinal |-> last, check |-> FALSE]
<1>3. last \in Nat
  BY <1>2
<1> HIDE DEF last
<1>4. new \in Step
  BY <1>3 DEF Step, StepStates
<1> HIDE DEF new
<1> QED
  BY <1>4 DEF Appended, Plan, new, last

\* When next_run says Do, there is a step to do, and it is one that may start: a failed one with a
\* try left, or a pending one whose every wait is completed.
LEMMA StepToDoIsRunnable ==
  ASSUME NEW p \in Plan, NEW state, NEW fruitless, NEW late,
         NextRun(state, p, fruitless, late) = "Do"
  PROVE  StepToDo(p) \in Retryable(p) \cup Ready(p)
<1>1. Retryable(p) # {} \/ Ready(p) # {}
  BY DEF NextRun
<1>2. Retryable(p) \subseteq Keys /\ Ready(p) \subseteq Keys
  BY DEF Retryable, Ready
<1>3. CASE Retryable(p) # {}
  BY <1>2, <1>3, FirstIsAmong DEF StepToDo
<1>4. CASE Retryable(p) = {}
  <2>1. Ready(p) # {}
    BY <1>1, <1>4
  <2> QED
    BY <1>2, <1>4, <2>1, FirstIsAmong DEF StepToDo
<1> QED
  BY <1>3, <1>4

-----------------------------------------------------------------------------
(* The decision.                                                           *)

\* next_run answers Wait for an open task only when a step of it is running or parked, as long as
\* no steps wait in a circle: whatever else failed, was skipped, was deleted or is left over, there
\* is a run to make.  blocked_steps is what makes it so.
THEOREM WaitNeedsAStepInFlight ==
  ASSUME NEW p \in Plan, NEW state \in OpenStates, NEW fruitless \in Nat, NEW late \in BOOLEAN,
         Acyclic(p, Present(p)),
         NextRun(state, p, fruitless, late) = "Wait"
  PROVE  \E k \in Keys : p[k].state \in {"Running", "AwaitingApproval"}
<1>1. SUFFICES ASSUME \A k \in Keys : p[k].state \notin {"Running", "AwaitingApproval"}
               PROVE  FALSE
  OBVIOUS
<1>2. /\ Blocked(p) = {}
      /\ Ready(p) = {}
      /\ ~AllSettled(p)
      /\ \A k \in Keys : p[k].state # "Failed"
  BY DEF NextRun
<1> DEFINE pending == {k \in Present(p) : p[k].state = "Pending"}
<1>3. \A k \in Keys : p[k].state \in StepStates \cup {"Absent"} /\ p[k].waits \subseteq Keys
  BY DEF Plan, Step
<1>4. pending # {}
  BY <1>1, <1>2, <1>3 DEF AllSettled, Present, StepStates
<1>5. PICK k \in pending : p[k].waits \cap pending = {}
  <2>1. pending \in SUBSET Present(p)
    OBVIOUS
  <2> HIDE DEF pending
  <2> QED
    BY <1>4, <2>1 DEF Acyclic
<1>6. k \in Keys /\ p[k].state = "Pending"
  BY <1>5 DEF Present
<1>7. PICK d \in p[k].waits : p[d].state # "Completed"
  BY <1>2, <1>6 DEF Ready
<1>8. p[d].state \in {"Absent", "Skipped"}
  <2>1. d \in Keys
    BY <1>3, <1>6
  <2>2. p[d].state # "Pending"
    BY <1>5, <2>1 DEF Present
  <2> QED
    BY <1>1, <1>2, <1>3, <1>7, <2>1, <2>2 DEF StepStates
<1>9. \A b \in SUBSET Keys : BlockedClosed(p, b) => k \in b
  BY <1>6, <1>7, <1>8 DEF BlockedClosed, NewlyBlocked
<1>10. k \in Blocked(p)
  BY <1>6, <1>9 DEF Blocked
<1> QED
  BY <1>2, <1>10

-----------------------------------------------------------------------------
(* The search.                                                             *)

DoneKeys == {k \in Keys : marks[k] = "Done"}

SearchTypes ==
  /\ given \in Plan /\ marks \in [Keys -> Marks] /\ path \in Seq(Keys)
  /\ starts \subseteq Index /\ unseen \in [Keys -> SUBSET Keys]
  /\ \A k \in Keys : unseen[k] \subseteq given[k].waits \cap Index

\* The path is the steps marked so, each waiting for the next.
PathOK ==
  /\ \A i \in 1..Len(path) : path[i] \in Index /\ marks[path[i]] = "OnPath"
  /\ \A i, j \in 1..Len(path) : path[i] = path[j] => i = j
  /\ \A k \in Keys : marks[k] = "OnPath" => \E i \in 1..Len(path) : path[i] = k
  /\ \A i \in 1..(Len(path) - 1) : path[i + 1] \in given[path[i]].waits

\* Every loop has dealt with what it no longer has before it, but for the call it is in.
CallAt(n) == IF n \in 1..Len(path) THEN {path[n]} ELSE {}
LoopsOK ==
  /\ Index \subseteq starts \cup DoneKeys \cup CallAt(1)
  /\ \A i \in 1..Len(path) : given[path[i]].waits \cap Index \subseteq unseen[path[i]] \cup DoneKeys \cup CallAt(i + 1)

\* What is done waits for what is done, and not in a circle.
DoneOK ==
  /\ \A k \in DoneKeys : given[k].waits \cap Index \subseteq DoneKeys
  /\ Acyclic(given, DoneKeys)

CycleOK == cycle \in Seq(Keys) /\ (cycle # <<>> => IsCycle(cycle))

\* Nothing is found that is not blocked, and a last round leaves nothing to find.
BlockedOK ==
  /\ blocked \subseteq Blocked(given) /\ looping \in BOOLEAN
  /\ ~looping => Searched /\ BlockedClosed(given, blocked)

SearchInv == SearchTypes /\ PathOK /\ LoopsOK /\ DoneOK /\ CycleOK /\ BlockedOK

\* The search, while it goes on.
Sound == SearchTypes /\ PathOK /\ LoopsOK /\ DoneOK

\* The invariant holds before the first call.
LEMMA SearchStarts ==
  ASSUME SearchInit
  PROVE  SearchInv
<1>1. /\ given \in Plan /\ marks = [k \in Keys |-> "Unvisited"] /\ path = <<>> /\ starts = Index
      /\ unseen = [k \in Keys |-> {}] /\ cycle = <<>> /\ blocked = {} /\ looping = TRUE
  BY InputsAssumption DEF SearchInit
<1>2. Len(path) = 0 /\ path \in Seq(Keys)
  BY <1>1
<1>3. DoneKeys = {}
  BY <1>1 DEF DoneKeys
<1>4. SearchTypes
  BY <1>1, <1>2 DEF SearchTypes, Marks
<1>5. PathOK
  BY <1>1, <1>2 DEF PathOK
<1>6. LoopsOK
  BY <1>1, <1>2 DEF LoopsOK
<1>7. DoneOK
  BY <1>3 DEF DoneOK, Acyclic
<1> QED
  BY <1>1, <1>4, <1>5, <1>6, <1>7 DEF SearchInv, CycleOK, BlockedOK

\* Done steps stay apart from a circle when one is added that waits only for done ones.
LEMMA DoneGrows ==
  ASSUME NEW p, NEW D, NEW k, Acyclic(p, D), p[k].waits \cap (D \cup {k}) \subseteq D,
         \A d \in D : k \notin p[d].waits
  PROVE  Acyclic(p, D \cup {k})
<1> SUFFICES ASSUME NEW s \in SUBSET (D \cup {k}), s # {} PROVE \E j \in s : p[j].waits \cap s = {}
  BY DEF Acyclic
<1>1. CASE s \cap D = {}
  <2>1. s = {k} /\ k \notin D
    BY <1>1
  <2> QED
    BY <1>1, <2>1
<1>2. CASE s \cap D # {}
  <2>1. s \cap D \in SUBSET D
    OBVIOUS
  <2>2. PICK j \in s \cap D : p[j].waits \cap (s \cap D) = {}
    BY <1>2, <2>1 DEF Acyclic
  <2> QED
    BY <2>2
<1> QED
  BY <1>1, <1>2

\* What is left of a sequence without its last element.
LEMMA AllButTheLast ==
  ASSUME NEW S, NEW s \in Seq(S), s # <<>>
  PROVE  /\ SubSeq(s, 1, Len(s) - 1) \in Seq(S) /\ Len(SubSeq(s, 1, Len(s) - 1)) = Len(s) - 1
         /\ \A i \in 1..(Len(s) - 1) : SubSeq(s, 1, Len(s) - 1)[i] = s[i]
<1> DEFINE n == Len(s) - 1
<1>1. n \in Nat /\ \A i \in 1..n : s[i] \in S
  OBVIOUS
<1> HIDE DEF n
<1>2. n \in Int /\ 1 \in Int /\ n - 1 + 1 = n /\ (~(1 <= n) => n = 0)
  BY <1>1
<1>3. \A i \in 1..n : 1 + i - 1 = i
  BY <1>1
<1>4. /\ SubSeq(s, 1, n) \in Seq(S) /\ Len(SubSeq(s, 1, n)) = n
      /\ \A i \in 1..n : SubSeq(s, 1, n)[i] = s[1 + i - 1]
  BY <1>1, <1>2, SubSeqProperties
<1> QED
  BY <1>3, <1>4 DEF n

\* A step that has followed all its waits may be marked done: they are all done, and it is none of them.
LEMMA LeaveSound ==
  ASSUME Sound, Leave
  PROVE  Sound'
<1> DEFINE n == Len(path)
           k == path[Len(path)]
<1>1. /\ path # <<>> /\ path \in Seq(Keys) /\ given \in Plan /\ unseen[k] = {}
      /\ marks' = [marks EXCEPT ![k] = "Done"] /\ path' = SubSeq(path, 1, n - 1)
      /\ UNCHANGED <<given, starts, unseen, blocked, looping>> /\ marks \in [Keys -> Marks]
  BY DEF Leave, Innermost, Sound, SearchTypes
<1>2. n \in Nat \ {0} /\ k \in Keys /\ k \in Index /\ marks[k] = "OnPath"
  BY <1>1 DEF Sound, PathOK
<1>3. path' \in Seq(Keys) /\ Len(path') = n - 1 /\ \A i \in 1..(n - 1) : path'[i] = path[i]
  BY <1>1, AllButTheLast
<1>4. Index' = Index /\ DoneKeys' = DoneKeys \cup {k} /\ k \notin DoneKeys
  BY <1>1, <1>2 DEF Index, DoneKeys
<1>5. given[k].waits \cap Index \subseteq DoneKeys
  BY <1>1, <1>2 DEF Sound, LoopsOK, CallAt
<1>6. SearchTypes'
  BY <1>1, <1>3, <1>4 DEF Sound, SearchTypes, Marks
<1>7. PathOK'
  <2>1. \A i \in 1..(n - 1) : path[i] # k
    BY <1>2 DEF Sound, PathOK
  <2>2. \A j \in Keys : marks'[j] = "OnPath" => marks[j] = "OnPath" /\ j # k
    BY <1>1, <1>2
  <2>3. \A i \in 1..(n - 1) : marks'[path[i]] = "OnPath"
    BY <1>1, <1>2, <2>1 DEF Sound, PathOK
  <2>4. \A j \in Keys : marks'[j] = "OnPath" => \E i \in 1..(n - 1) : path[i] = j
    BY <1>2, <2>2 DEF Sound, PathOK
  <2> HIDE DEF n, k
  <2> QED
    BY <1>1, <1>2, <1>3, <1>4, <2>3, <2>4 DEF Sound, PathOK, n
<1>8. LoopsOK'
  <2>1. \A i \in 1..n : CallAt(i) \subseteq CallAt(i)' \cup {k}
    BY <1>2, <1>3 DEF CallAt
  <2> HIDE DEF k
  <2>2. Index \subseteq starts \cup DoneKeys \cup CallAt(1)' \cup {k}
    BY <1>2, <2>1 DEF Sound, LoopsOK
  <2>3. ASSUME NEW i \in 1..(n - 1)
        PROVE  given[path[i]].waits \cap Index \subseteq unseen[path[i]] \cup DoneKeys \cup {k} \cup CallAt(i + 1)'
    <3>1. i \in 1..n /\ i + 1 \in 1..n
      BY <1>2
    <3> QED
      BY <2>1, <3>1 DEF Sound, LoopsOK
  <2> HIDE DEF n
  <2> QED
    BY <1>1, <1>3, <1>4, <2>2, <2>3 DEF LoopsOK
<1>9. DoneOK'
  <2>1. Acyclic(given, DoneKeys) /\ \A d \in DoneKeys : k \notin given[d].waits
    BY <1>2, <1>4 DEF Sound, DoneOK
  <2>2. given[k].waits \cap (DoneKeys \cup {k}) \subseteq DoneKeys
    BY <1>2, <1>5
  <2> HIDE DEF k
  <2>3. Acyclic(given, DoneKeys \cup {k})
    BY <2>1, <2>2, DoneGrows
  <2> QED
    BY <1>1, <1>4, <1>5, <2>3 DEF Sound, DoneOK
<1> QED
  BY <1>6, <1>7, <1>8, <1>9 DEF Sound

\* Skipping a step that is done leaves nothing unseen.
LEMMA VisitDoneSound ==
  ASSUME Sound, NEW k \in Keys, VisitDone(k)
  PROVE  Sound'
<1>1. /\ UNCHANGED <<given, marks, path, blocked, looping>> /\ marks[k] = "Done"
      /\ starts' = StartsAfter(k) /\ unseen' = UnseenAfter(k)
  BY DEF VisitDone
<1>2. Index' = Index /\ DoneKeys' = DoneKeys /\ k \in DoneKeys /\ \A i \in Nat : CallAt(i)' = CallAt(i)
  BY <1>1 DEF Index, DoneKeys, CallAt
<1>3. starts' \subseteq starts /\ starts \subseteq starts' \cup {k}
  BY <1>1 DEF StartsAfter
<1>4. /\ unseen' \in [Keys -> SUBSET Keys]
      /\ \A j \in Keys : unseen'[j] \subseteq unseen[j] /\ unseen[j] \subseteq unseen'[j] \cup {k}
  BY <1>1 DEF UnseenAfter, Sound, SearchTypes
<1>5. SearchTypes'
  BY <1>1, <1>2, <1>3, <1>4 DEF Sound, SearchTypes
<1>6. PathOK' /\ DoneOK'
  BY <1>1, <1>2 DEF Sound, PathOK, DoneOK
<1>7. LoopsOK'
  <2>1. Index \subseteq starts' \cup DoneKeys \cup CallAt(1)
    BY <1>2, <1>3 DEF Sound, LoopsOK
  <2>2. ASSUME NEW i \in 1..Len(path)
        PROVE  given[path[i]].waits \cap Index \subseteq unseen'[path[i]] \cup DoneKeys \cup CallAt(i + 1)
    <3>1. path[i] \in Keys
      BY DEF Sound, SearchTypes
    <3> QED
      BY <1>2, <1>4, <3>1 DEF Sound, LoopsOK
  <2> QED
    BY <1>1, <1>2, <2>1, <2>2 DEF LoopsOK
<1> QED
  BY <1>5, <1>6, <1>7 DEF Sound

\* Entering a step makes it the call its caller is in.
LEMMA VisitNewSound ==
  ASSUME Sound, NEW k \in Keys, VisitNew(k)
  PROVE  Sound'
<1> DEFINE n == Len(path)
<1>1. /\ UNCHANGED <<given, blocked, looping>> /\ marks[k] = "Unvisited" /\ k \in ToVisit
      /\ marks' = [marks EXCEPT ![k] = "OnPath"] /\ path' = Append(path, k)
      /\ starts' = StartsAfter(k) /\ unseen' = [UnseenAfter(k) EXCEPT ![k] = given[k].waits \cap Index]
  BY DEF VisitNew, Calls
<1>2. /\ given \in Plan /\ path \in Seq(Keys) /\ marks \in [Keys -> Marks] /\ given[k].waits \subseteq Keys
      /\ starts \subseteq Index /\ unseen \in [Keys -> SUBSET Keys]
  BY DEF Sound, SearchTypes, Plan, Step
<1>3. /\ path' \in Seq(Keys) /\ n \in Nat /\ Len(path') = n + 1 /\ path'[n + 1] = k
      /\ \A i \in 1..n : path'[i] = path[i] /\ path[i] \in Keys /\ path[i] # k
  <2>1. \A i \in 1..n : path[i] # k
    BY <1>1 DEF Sound, PathOK
  <2> QED
    BY <1>1, <1>2, <2>1
<1>4. Index' = Index /\ DoneKeys' = DoneKeys
  BY <1>1, <1>2 DEF Index, DoneKeys
<1>5. /\ k \in Index /\ (n > 0 => k \in given[path[n]].waits)
      /\ n = 0 <=> path = <<>>
  <2>1. n = 0 <=> path = <<>>
    BY <1>2
  <2>2. CASE n = 0
    BY <1>1, <1>2, <2>1, <2>2 DEF ToVisit
  <2>3. CASE n > 0
    <3>1. k \in unseen[path[n]] /\ path[n] \in Keys
      BY <1>1, <1>3, <2>1, <2>3 DEF ToVisit, Innermost
    <3> QED
      BY <2>3, <3>1 DEF Sound, SearchTypes
  <2> QED
    BY <1>3, <2>1, <2>2, <2>3
<1>6. starts' \subseteq starts /\ starts \subseteq starts' \cup {k} /\ (n > 0 => starts' = starts)
  BY <1>1, <1>5 DEF StartsAfter
<1>7. /\ unseen' \in [Keys -> SUBSET Keys] /\ unseen'[k] = given[k].waits \cap Index
      /\ \A j \in Keys \ {k} : unseen'[j] \subseteq unseen[j]
      /\ \A j \in Keys \ {k} : unseen[j] \subseteq unseen'[j] \cup {k}
      /\ \A i \in 1..(n - 1) : unseen'[path[i]] = unseen[path[i]]
  <2>1. CASE n = 0
    BY <1>1, <1>2, <1>5, <2>1 DEF UnseenAfter
  <2>2. CASE n > 0
    <3>1. unseen' = [[unseen EXCEPT ![path[n]] = @ \ {k}] EXCEPT ![k] = given[k].waits \cap Index]
      <4>1. UnseenAfter(k) = [unseen EXCEPT ![path[n]] = @ \ {k}]
        BY <1>3, <1>5, <2>2 DEF UnseenAfter, Innermost
      <4> QED
        BY <1>1, <4>1
    <3>2. path[n] \in Keys \ {k} /\ \A i \in 1..(n - 1) : path[i] \in Keys \ {k} /\ path[i] # path[n]
      BY <1>3, <2>2 DEF Sound, PathOK
    <3> HIDE DEF n
    <3> QED
      BY <1>2, <3>1, <3>2
  <2> QED
    BY <1>3, <2>1, <2>2
<1>8. SearchTypes'
  <2>1. \A j \in Keys : unseen'[j] \subseteq given[j].waits \cap Index
    BY <1>7 DEF Sound, SearchTypes
  <2>2. marks' \in [Keys -> Marks]
    BY <1>1, <1>2 DEF Marks
  <2> QED
    BY <1>1, <1>2, <1>3, <1>4, <1>6, <1>7, <2>1, <2>2 DEF Sound, SearchTypes
<1>9. PathOK'
  <2>1. \A i \in 1..(n + 1) : path'[i] \in Index /\ marks'[path'[i]] = "OnPath"
    BY <1>1, <1>2, <1>3, <1>5 DEF Sound, PathOK
  <2>2. \A i, j \in 1..(n + 1) : path'[i] = path'[j] => i = j
    BY <1>3 DEF Sound, PathOK
  <2>3. \A j \in Keys : marks'[j] = "OnPath" => \E i \in 1..(n + 1) : path'[i] = j
    <3> TAKE j \in Keys
    <3> HAVE marks'[j] = "OnPath"
    <3>1. CASE j = k
      BY <1>3, <3>1
    <3>2. CASE j # k
      <4>1. PICK i \in 1..n : path[i] = j
        BY <1>1, <1>2, <3>2 DEF Sound, PathOK
      <4> QED
        BY <1>3, <4>1
    <3> QED
      BY <3>1, <3>2
  <2>4. \A i \in 1..n : path'[i + 1] \in given[path'[i]].waits
    <3> TAKE i \in 1..n
    <3>1. CASE i = n
      BY <1>3, <1>5, <3>1
    <3>2. CASE i # n
      BY <1>3, <3>2 DEF Sound, PathOK
    <3> QED
      BY <3>1, <3>2
  <2> HIDE DEF n
  <2>5. n + 1 - 1 = n
    BY <1>3
  <2> QED
    BY <1>1, <1>3, <1>4, <2>1, <2>2, <2>3, <2>4, <2>5 DEF PathOK
<1>10. LoopsOK'
  <2>1. /\ \A i \in 1..n : CallAt(i)' = CallAt(i)
        /\ \A i \in {n + 1} : CallAt(i)' = {k} /\ CallAt(i) = {}
    BY <1>3 DEF CallAt
  <2>2. Index \subseteq starts' \cup DoneKeys \cup CallAt(1)'
    <3>1. CASE n = 0
      <4>1. 1 \in {n + 1}
        BY <3>1
      <4> HIDE DEF n
      <4> QED
        BY <1>6, <2>1, <4>1 DEF Sound, LoopsOK
    <3>2. CASE n > 0
      BY <1>3, <1>6, <2>1, <3>2 DEF Sound, LoopsOK
    <3> QED
      BY <1>3, <3>1, <3>2
  <2>3. ASSUME NEW i \in 1..(n + 1)
        PROVE  given[path'[i]].waits \cap Index \subseteq unseen'[path'[i]] \cup DoneKeys \cup CallAt(i + 1)'
    <3>1. CASE i = n + 1
      BY <1>3, <1>7, <3>1
    <3>2. CASE i = n
      <4>1. i \in 1..n /\ i + 1 \in {n + 1} /\ path'[i] = path[i] /\ path[i] \in Keys \ {k}
        BY <1>3, <3>2
      <4>2. unseen[path[i]] \subseteq unseen'[path[i]] \cup {k}
        BY <1>7, <4>1
      <4>3. given[path[i]].waits \cap Index \subseteq unseen[path[i]] \cup DoneKeys \cup CallAt(i + 1)
        BY <4>1 DEF Sound, LoopsOK
      <4> HIDE DEF n
      <4> QED
        BY <2>1, <4>1, <4>2, <4>3
    <3>3. CASE i < n
      <4>1. i \in 1..n /\ i \in 1..(n - 1) /\ i + 1 \in 1..n
        BY <1>3, <3>3
      <4> HIDE DEF n
      <4> QED
        BY <1>3, <1>7, <2>1, <4>1 DEF Sound, LoopsOK, n
    <3> QED
      BY <1>3, <3>1, <3>2, <3>3
  <2> HIDE DEF n
  <2> QED
    BY <1>1, <1>3, <1>4, <2>2, <2>3 DEF LoopsOK
<1>11. DoneOK'
  BY <1>1, <1>4 DEF Sound, DoneOK
<1> QED
  BY <1>8, <1>9, <1>10, <1>11 DEF Sound

\* From where a step is on the path, the path leads round to it.
LEMMA CycleIsOne ==
  ASSUME Sound, NEW k \in Keys, VisitOnPath(k)
  PROVE  IsCycle(cycle') /\ cycle' \in Seq(Keys)
<1> DEFINE n == Len(path)
           m == CHOOSE i \in DOMAIN path : path[i] = k
           s == SubSeq(path, m, n)
<1>1. /\ path \in Seq(Keys) /\ n \in Nat /\ marks[k] = "OnPath" /\ k \in ToVisit /\ cycle' = Append(s, k)
      /\ DOMAIN path = 1..n /\ \A i \in 1..n : path[i] \in Keys /\ path[i] \in Index
  BY DEF VisitOnPath, Calls, CycleFrom, Sound, SearchTypes, PathOK
<1>2. m \in 1..n /\ path[m] = k
  <2>1. \E i \in DOMAIN path : path[i] = k
    BY <1>1 DEF Sound, PathOK
  <2> QED
    BY <1>1, <2>1
<1>3. path # <<>> /\ k \in given[path[n]].waits
  <2>1. path # <<>> /\ path[n] \in Keys
    BY <1>1, <1>2
  <2> QED
    BY <1>1, <2>1 DEF ToVisit, Innermost, Sound, SearchTypes
<1> HIDE DEF m
<1>4. /\ s \in Seq(Keys) /\ Len(s) = n - m + 1
      /\ \A i \in 1..(n - m + 1) : s[i] = path[m + i - 1]
  <2>1. m \in Int /\ n \in Int /\ m <= n /\ \A i \in m..n : path[i] \in Keys
    BY <1>1, <1>2
  <2> HIDE DEF n
  <2> QED
    BY <2>1, SubSeqProperties
<1> HIDE DEF s
<1> DEFINE l == n - m + 1
<1>5. /\ l \in Nat \ {0} /\ Len(cycle') = l + 1 /\ cycle'[l + 1] = k
      /\ \A i \in 1..l : cycle'[i] = path[m + i - 1] /\ m + i - 1 \in 1..n
  <2> HIDE DEF n
  <2>1. l \in Nat \ {0} /\ \A i \in 1..l : m + i - 1 \in 1..n
    BY <1>1, <1>2
  <2> HIDE DEF l
  <2>2. Len(s) = l /\ \A i \in 1..l : s[i] = path[m + i - 1]
    BY <1>4 DEF l
  <2>3. Len(cycle') = l + 1 /\ cycle'[l + 1] = k /\ \A i \in 1..l : cycle'[i] = s[i]
    BY <1>1, <1>4, <2>1, <2>2
  <2> QED
    BY <2>1, <2>2, <2>3
<1> HIDE DEF n
<1>6. cycle'[1] = k
  BY <1>2, <1>5
<1>7. ASSUME NEW i \in 1..l
      PROVE  cycle'[i] \in Index /\ cycle'[i + 1] \in given[cycle'[i]].waits
  <2>1. CASE i = l
    <3>1. cycle'[i] = path[n] /\ cycle'[i + 1] = k /\ n \in 1..n
      <4>1. m + i - 1 = n /\ n \in 1..n
        BY <1>1, <1>2, <2>1
      <4> HIDE DEF l
      <4> QED
        BY <1>5, <2>1, <4>1
    <3> QED
      BY <1>1, <1>3, <3>1 DEF n
  <2>2. CASE i # l
    <3>1. i + 1 \in 1..l /\ m + (i + 1) - 1 = (m + i - 1) + 1 /\ m + i - 1 \in 1..(n - 1)
      <4>1. m \in Nat /\ n \in Nat /\ m >= 1 /\ m <= n /\ i \in Nat /\ i >= 1 /\ i < n - m + 1
        BY <1>1, <1>2, <1>5, <2>2
      <4> QED
        BY <4>1
    <3>2. cycle'[i] = path[m + i - 1] /\ cycle'[i + 1] = path[(m + i - 1) + 1]
      BY <1>5, <3>1
    <3>3. path[(m + i - 1) + 1] \in given[path[m + i - 1]].waits
      BY <3>1 DEF Sound, PathOK, n
    <3> QED
      BY <1>1, <1>5, <3>2, <3>3
  <2> QED
    BY <2>1, <2>2
<1>8. Len(cycle') > 1 /\ Len(cycle') - 1 = l
  BY <1>5
<1> HIDE DEF l
<1>9. cycle' \in Seq(Keys)
  BY <1>1, <1>4
<1>10. cycle'[1] = cycle'[Len(cycle')]
  BY <1>5, <1>6
<1> QED
  BY <1>7, <1>8, <1>9, <1>10 DEF IsCycle

\* A circle is a set of steps in which each waits for another.
LEMMA CycleIsNoPlan ==
  ASSUME NEW c \in Seq(Keys), IsCycle(c)
  PROVE  ~Acyclic(given, Index)
<1> DEFINE n == Len(c) - 1
           s == {c[i] : i \in 1..n}
<1>1. n \in Nat \ {0} /\ c[1] = c[n + 1] /\ \A i \in 1..n : c[i] \in Index /\ c[i + 1] \in given[c[i]].waits
  BY DEF IsCycle
<1> HIDE DEF n
<1>2. s \in SUBSET Index /\ s # {}
  BY <1>1
<1>3. ASSUME NEW k \in s PROVE given[k].waits \cap s # {}
  <2>1. PICK i \in 1..n : k = c[i]
    OBVIOUS
  <2>2. c[i + 1] \in s
    <3>1. CASE i = n
      BY <1>1, <3>1
    <3>2. CASE i # n
      BY <1>1, <3>2
    <3> QED
      BY <3>1, <3>2
  <2> QED
    BY <1>1, <2>1, <2>2
<1> HIDE DEF s
<1> QED
  BY <1>2, <1>3 DEF Acyclic

\* A round started within the least closed set stays within it.
LEMMA BlockedTakesRounds ==
  ASSUME NEW p, NEW b, b \subseteq Blocked(p)
  PROVE  NewlyBlocked(p, b) \subseteq Blocked(p)
<1> SUFFICES ASSUME NEW k \in NewlyBlocked(p, b), NEW c \in SUBSET Keys, BlockedClosed(p, c) PROVE k \in c
  BY DEF NewlyBlocked, Blocked
<1>1. b \subseteq c
  BY DEF Blocked
<1> QED
  BY <1>1 DEF NewlyBlocked, BlockedClosed

\* Every call and every round keeps the invariant.
LEMMA SearchGoesOn ==
  ASSUME SearchInv, [SearchNext]_searchVars
  PROVE  SearchInv'
<1>1. Sound
  BY DEF SearchInv, Sound
<1>2. ASSUME Sound', cycle' = cycle, given' = given, UNCHANGED <<blocked, looping>>, ~Searched PROVE SearchInv'
  <2>1. looping /\ cycle = <<>>
    BY <1>2 DEF SearchInv, BlockedOK, Searched
  <2>2. CycleOK' /\ BlockedOK'
    BY <1>2, <2>1 DEF SearchInv, CycleOK, BlockedOK
  <2> QED
    BY <1>2, <2>2 DEF Sound, SearchInv
<1>3. ASSUME NEW k \in Keys, VisitDone(k) PROVE SearchInv'
  BY <1>1, <1>2, <1>3, VisitDoneSound DEF VisitDone, Calls
<1>4. ASSUME NEW k \in Keys, VisitNew(k) PROVE SearchInv'
  BY <1>1, <1>2, <1>4, VisitNewSound DEF VisitNew, Calls
<1>5. CASE Leave
  BY <1>1, <1>2, <1>5, LeaveSound DEF Leave
<1>6. ASSUME UNCHANGED <<given, marks, path, starts, unseen>> PROVE Sound' /\ (\A c : IsCycle(c)' <=> IsCycle(c))
  <2>1. Index' = Index /\ DoneKeys' = DoneKeys /\ \A i \in Nat : CallAt(i)' = CallAt(i)
    BY <1>6 DEF Index, DoneKeys, CallAt
  <2>2. Acyclic(given, DoneKeys)' <=> Acyclic(given, DoneKeys)
    BY <1>6, <2>1 DEF Acyclic
  <2>3. SearchTypes' /\ PathOK' /\ DoneOK'
    BY <1>1, <1>6, <2>1, <2>2 DEF Sound, SearchTypes, PathOK, DoneOK
  <2>4. LoopsOK'
    BY <1>1, <1>6, <2>1 DEF Sound, LoopsOK, SearchTypes
  <2>5. \A c : IsCycle(c)' <=> IsCycle(c)
    BY <1>6, <2>1 DEF IsCycle
  <2> QED
    BY <2>3, <2>4, <2>5 DEF Sound
<1>7. ASSUME NEW k \in Keys, VisitOnPath(k) PROVE SearchInv'
  <2>1. UNCHANGED <<given, marks, path, starts, unseen, blocked, looping>> /\ ~Searched
    BY <1>7 DEF VisitOnPath, Calls
  <2>2. IsCycle(cycle') /\ cycle' \in Seq(Keys) /\ Index' = Index
    BY <1>1, <1>7, <2>1, CycleIsOne DEF Index
  <2> QED
    BY <1>6, <2>1, <2>2 DEF Sound, SearchInv, CycleOK, BlockedOK, IsCycle, SearchTypes
<1>8. CASE Round
  <2> DEFINE newly == NewlyBlocked(given, blocked) \ blocked
  <2>1. /\ UNCHANGED <<given, marks, path, starts, unseen, cycle>> /\ Searched
        /\ blocked' = blocked \cup newly /\ looping' = (newly # {})
    BY <1>8 DEF Round
  <2>2. NewlyBlocked(given, blocked) \subseteq Blocked(given)
    BY BlockedTakesRounds DEF SearchInv, BlockedOK
  <2>3. newly = {} => BlockedClosed(given, blocked')
    BY <2>1 DEF BlockedClosed
  <2>4. Searched' /\ (cycle' # <<>> => IsCycle(cycle'))
    BY <2>1 DEF Searched, SearchInv, CycleOK
  <2>5. BlockedOK'
    BY <2>1, <2>2, <2>3, <2>4 DEF SearchInv, BlockedOK
  <2>6. CycleOK'
    BY <1>6, <2>1 DEF SearchInv, CycleOK
  <2> QED
    BY <1>6, <2>1, <2>5, <2>6 DEF Sound, SearchInv
<1>9. CASE UNCHANGED searchVars
  <2>1. UNCHANGED <<given, marks, path, starts, unseen, cycle, blocked, looping>>
    BY <1>9 DEF searchVars
  <2> QED
    BY <1>6, <2>1 DEF Sound, SearchInv, CycleOK, BlockedOK, Searched, IsCycle, Index
<1> QED
  BY <1>3, <1>4, <1>5, <1>7, <1>8, <1>9 DEF SearchNext, Returned

\* So it always holds.
LEMMA SearchIsSound == SearchSpec => []SearchInv
BY SearchStarts, SearchGoesOn, PTL DEF SearchSpec

\* What the search says once it has returned.
LEMMA AnswerIsRight ==
  ASSUME SearchInv, Searched
  PROVE  IF Acyclic(given, Index) THEN cycle = <<>> ELSE IsCycle(cycle)
<1>1. CASE cycle # <<>>
  <2>1. IsCycle(cycle) /\ cycle \in Seq(Keys)
    BY <1>1 DEF SearchInv, CycleOK
  <2> QED
    BY <1>1, <2>1, CycleIsNoPlan
<1>2. CASE cycle = <<>>
  <2>1. path = <<>> /\ starts = {}
    BY <1>2 DEF Searched
  <2>2. Index \subseteq DoneKeys
    BY <2>1 DEF SearchInv, LoopsOK, CallAt
  <2>3. Acyclic(given, Index)
    BY <2>2 DEF SearchInv, DoneOK, Acyclic
  <2> QED
    BY <1>2, <2>3
<1> QED
  BY <1>1, <1>2

\* find_cycle answers None exactly for the plans whose steps can be walked, and otherwise a circle
\* of them, for every plan and in whatever order it starts and follows waits.
THEOREM SearchFindsTheCycles == SearchSpec => []FindsExactlyTheCycles
<1>1. SearchInv => FindsExactlyTheCycles
  BY AnswerIsRight DEF FindsExactlyTheCycles
<1> QED
  BY <1>1, SearchIsSound, PTL

\* The loop of blocked_steps ends with the steps that can never become ready, no more and no fewer.
THEOREM RoundsFindBlocked == SearchSpec => []RoundsFindTheBlocked
<1>1. SearchInv => RoundsFindTheBlocked
  <2> SUFFICES ASSUME SearchInv, ~looping PROVE blocked = Blocked(given)
    BY DEF RoundsFindTheBlocked
  <2>1. blocked \subseteq Blocked(given) /\ BlockedClosed(given, blocked) /\ blocked \subseteq Keys
    BY DEF SearchInv, BlockedOK, Blocked
  <2>2. Blocked(given) \subseteq blocked
    BY <2>1 DEF Blocked
  <2> QED
    BY <2>1, <2>2
<1> QED
  BY <1>1, SearchIsSound, PTL

\* A plan that find_cycle let through never leaves next_run waiting with nothing in flight.
THEOREM WaitsHaveACause == SearchSpec => []WaitHasACause
<1>1. SearchInv => WaitHasACause
  <2> SUFFICES ASSUME SearchInv, Searched, cycle = <<>>, NextRun("Running", given, 0, FALSE) = "Wait"
               PROVE  \E k \in Keys : given[k].state \in {"Running", "AwaitingApproval"}
    BY DEF WaitHasACause
  <2>1. Acyclic(given, Present(given)) /\ given \in Plan
    <3>1. ~IsCycle(<<>>)
      BY DEF IsCycle
    <3> QED
      BY <3>1, AnswerIsRight DEF Index, SearchInv, SearchTypes
  <2>2. "Running" \in OpenStates /\ 0 \in Nat /\ FALSE \in BOOLEAN
    BY DEF OpenStates
  <2> QED
    BY <2>1, <2>2, WaitNeedsAStepInFlight
<1> QED
  BY <1>1, SearchIsSound, PTL

\* The path names no step twice, so it is no longer than the plan has steps.
THEOREM RecursionStaysBounded == SearchSpec => []RecursionIsBounded
<1>1. SearchInv => RecursionIsBounded
  <2> SUFFICES ASSUME SearchInv PROVE Len(path) <= Cardinality(Index)
    BY DEF RecursionIsBounded
  <2>1. Len(path) \in Nat /\ path \in [1..Len(path) -> Index]
    BY DEF SearchInv, SearchTypes, PathOK
  <2>2. path \in Injection(1..Len(path), Index)
    BY <2>1 DEF Injection, IsInjective, SearchInv, PathOK
  <2>3. IsFiniteSet(Index)
    BY PlanAssumption, FS_Subset DEF Index, Present
  <2>4. Cardinality(1..Len(path)) <= Cardinality(Index)
    BY <2>2, <2>3, FS_Injection
  <2>5. Cardinality(1..Len(path)) = Len(path)
    BY <2>1, FS_Interval
  <2> QED
    BY <2>4, <2>5
<1> QED
  BY <1>1, SearchIsSound, PTL

\* A call of visit takes a start or a wait that was left, and gives none back.
LEMMA CallUsesUp ==
  ASSUME Sound, NEW k \in Keys, Calls(k)
  PROVE  /\ StartsAfter(k) \subseteq starts
         /\ UnseenAfter(k) \in [Keys -> SUBSET Keys]
         /\ \A j \in Keys : UnseenAfter(k)[j] \subseteq unseen[j]
         /\ \/ StartsAfter(k) # starts
            \/ \E j \in Keys : marks[j] = "OnPath" /\ UnseenAfter(k)[j] # unseen[j]
<1>1. unseen \in [Keys -> SUBSET Keys] /\ k \in ToVisit /\ path \in Seq(Keys)
  BY DEF Sound, SearchTypes, Calls
<1>2. CASE path = <<>>
  BY <1>1, <1>2 DEF ToVisit, StartsAfter, UnseenAfter
<1>3. CASE path # <<>>
  <2>1. Innermost \in Keys /\ marks[Innermost] = "OnPath"
    BY <1>1, <1>3 DEF Innermost, Sound, PathOK
  <2>2. UnseenAfter(k) = [unseen EXCEPT ![Innermost] = @ \ {k}] /\ StartsAfter(k) = starts /\ k \in unseen[Innermost]
    BY <1>1, <1>3 DEF UnseenAfter, StartsAfter, ToVisit
  <2> QED
    BY <1>1, <2>1, <2>2
<1> QED
  BY <1>2, <1>3

\* The search and the rounds use up what they have before them.
THEOREM SearchRunsOut == SearchSpec => StepsRunOut
<1>1. ASSUME SearchInv, SearchNext, searchVars' # searchVars PROVE GivesNothingBack /\ UsesUp
  <2>1. Sound
    BY <1>1 DEF SearchInv, Sound
  <2>2. marks \in [Keys -> Marks] /\ given \in Plan /\ unseen \in [Keys -> SUBSET Keys]
    BY <2>1 DEF Sound, SearchTypes
  <2>3. ASSUME given' = given PROVE Index' = Index
    BY <2>3 DEF Index
  <2>4. ASSUME NEW k \in Keys, VisitDone(k) PROVE GivesNothingBack /\ UsesUp
    <3>1. UNCHANGED <<given, marks, path, cycle, blocked, looping>> /\ Calls(k) /\ starts' = StartsAfter(k) /\ unseen' = UnseenAfter(k)
      BY <2>4 DEF VisitDone
    <3>2. \A j \in Keys : WaitsLeft(j)' = IF marks[j] = "Unvisited" THEN given[j].waits \cap Index ELSE unseen'[j]
      BY <2>3, <3>1 DEF WaitsLeft
    <3> QED
      BY <2>1, <3>1, <3>2, CallUsesUp DEF WaitsLeft, GivesNothingBack, UsesUp
  <2>5. ASSUME NEW k \in Keys, VisitNew(k) PROVE GivesNothingBack /\ UsesUp
    <3>1. /\ UNCHANGED <<given, cycle, blocked, looping>> /\ Calls(k) /\ marks[k] = "Unvisited"
          /\ marks' = [marks EXCEPT ![k] = "OnPath"] /\ starts' = StartsAfter(k)
          /\ unseen' = [UnseenAfter(k) EXCEPT ![k] = given[k].waits \cap Index]
      BY <2>5 DEF VisitNew
    <3>2. UnseenAfter(k) \in [Keys -> SUBSET Keys]
      BY <2>1, <3>1, CallUsesUp
    <3>3. WaitsLeft(k)' = WaitsLeft(k)
      BY <2>2, <2>3, <3>1, <3>2 DEF WaitsLeft
    <3>4. \A j \in Keys \ {k} : WaitsLeft(j)' = IF marks[j] = "Unvisited" THEN given[j].waits \cap Index ELSE UnseenAfter(k)[j]
      BY <2>2, <2>3, <3>1, <3>2 DEF WaitsLeft
    <3>5. \A j \in Keys : WaitsLeft(j)' \subseteq WaitsLeft(j)
      BY <2>1, <3>1, <3>3, <3>4, CallUsesUp DEF WaitsLeft
    <3>6. starts' # starts \/ \E j \in Keys : WaitsLeft(j)' # WaitsLeft(j)
      BY <2>1, <3>1, <3>4, CallUsesUp DEF WaitsLeft
    <3>7. \A j \in Keys : marks[j] = "Done" => marks'[j] = "Done"
      BY <2>2, <3>1
    <3> QED
      BY <2>1, <3>1, <3>5, <3>6, <3>7, CallUsesUp DEF GivesNothingBack, UsesUp
  <2>6. ASSUME NEW k \in Keys, VisitOnPath(k) PROVE GivesNothingBack /\ UsesUp
    <3>1. UNCHANGED <<given, marks, path, starts, unseen, blocked, looping>> /\ cycle = <<>>
      BY <2>6 DEF VisitOnPath, Calls, Searched
    <3>2. \A j \in Keys : WaitsLeft(j)' = WaitsLeft(j)
      BY <2>3, <3>1 DEF WaitsLeft
    <3>3. cycle' # cycle
      BY <1>1, <3>1 DEF searchVars
    <3> QED
      BY <3>1, <3>2, <3>3 DEF GivesNothingBack, UsesUp
  <2>7. CASE Leave
    <3>1. /\ UNCHANGED <<given, starts, unseen, cycle, blocked, looping>>
          /\ path # <<>> /\ marks' = [marks EXCEPT ![Innermost] = "Done"]
      BY <2>7 DEF Leave
    <3>2. Innermost \in Keys /\ marks[Innermost] = "OnPath"
      BY <2>1, <3>1 DEF Innermost, Sound, SearchTypes, PathOK
    <3>3. \A j \in Keys : WaitsLeft(j)' = WaitsLeft(j)
      BY <2>2, <2>3, <3>1, <3>2 DEF WaitsLeft
    <3>4. marks'[Innermost] = "Done" /\ \A j \in Keys : marks[j] = "Done" => marks'[j] = "Done"
      BY <2>2, <3>1, <3>2
    <3> QED
      BY <3>1, <3>2, <3>3, <3>4 DEF GivesNothingBack, UsesUp
  <2>8. CASE Round
    <3>1. UNCHANGED <<given, marks, path, starts, unseen, cycle>> /\ looping /\ blocked \subseteq blocked'
      BY <2>8 DEF Round
    <3>2. \A j \in Keys : WaitsLeft(j)' = WaitsLeft(j)
      BY <2>3, <3>1 DEF WaitsLeft
    <3>3. blocked' # blocked \/ looping' # looping
      BY <1>1, <3>1 DEF searchVars
    <3> QED
      BY <3>1, <3>2, <3>3 DEF GivesNothingBack, UsesUp
  <2> QED
    BY <1>1, <2>4, <2>5, <2>6, <2>7, <2>8 DEF SearchNext, Returned
<1>2. SearchInv /\ [SearchNext]_searchVars => [GivesNothingBack /\ UsesUp]_searchVars
  BY <1>1
<1> QED
  BY <1>2, SearchIsSound, PTL DEF SearchSpec, StepsRunOut
=============================================================================
