-------------------------- MODULE RunRegistryProofs --------------------------
(***************************************************************************)
(* Theorems about RunRegistry, for every set of sessions and runs, every   *)
(* cap and every retention.                                                *)
(***************************************************************************)
EXTENDS RunRegistry, FiniteSetTheorems, TLAPS

\* What one element more, one element less or a part makes of a count of runs.
LEMMA RunCounts ==
  ASSUME NEW S \in SUBSET RunIds
  PROVE  /\ IsFiniteSet(S) /\ Cardinality(S) \in Nat
         /\ \A T \in SUBSET S : Cardinality(T) <= Cardinality(S)
         /\ \A r \in RunIds \ S : Cardinality(S \cup {r}) = Cardinality(S) + 1
         /\ \A r \in S : Cardinality(S \ {r}) = Cardinality(S) - 1
<1>1. IsFiniteSet(S)
  BY RegistryAssumption, FS_Subset
<1> QED
  BY <1>1, FS_CardinalityType, FS_Subset, FS_AddElement, FS_RemoveElement

-----------------------------------------------------------------------------
(* The inductive invariant.                                                *)

\* The types proper, without the count of permits.
Types ==
  /\ runs \subseteq RunIds
  /\ bySession \in [Sessions -> RunIds \cup {NoRun}]
  /\ session \in [RunIds -> Sessions]
  /\ newest \in [Sessions -> RunIds \cup {NoRun}]
  /\ state \in [RunIds -> {"none", "Running", "ended"}]
  /\ age \in [RunIds -> 0..Retention]
  /\ task \in [RunIds -> {"none", "permitted", "running", "gone", "panicked", "refused"}]

\* Permits are counted by what the turns' tasks are doing.
PermitsHold == Cardinality(Holding) <= MaxRuns

\* A run has a state from the moment it is registered; while it is Running its task still runs,
\* or has panicked.
TaskDrivesRun ==
  \A r \in RunIds :
    /\ task[r] \in {"none", "permitted", "refused"} => state[r] = "none"
    /\ state[r] = "Running" => task[r] \in {"running", "panicked"}

\* Registered runs have a state, and whatever either map names for a session was registered for it.
MapsAgree ==
  /\ \A r \in runs : state[r] # "none"
  /\ \A s \in Sessions : bySession[s] # NoRun =>
        session[bySession[s]] = s /\ state[bySession[s]] # "none"
  /\ \A s \in Sessions : newest[s] # NoRun => state[newest[s]] # "none"

RegistryInv ==
  Types /\ PermitsHold /\ TaskDrivesRun /\ MapsAgree /\ NewestIsFound /\ IndexIsLive

\* The registry counts no run that does not hold a permit, but for the panicked ones, and a run
\* that waits to be registered holds one more.
LEMMA RoomForPermit ==
  ASSUME Types, PermitsHold, TaskDrivesRun,
         NEW r \in RunIds, task[r] = "permitted"
  PROVE  Cardinality(Active \ Panicked) < MaxRuns
<1>1. Active \ Panicked \subseteq Holding \ {r} /\ r \in Holding
  BY DEF Types, TaskDrivesRun, Active, Holding, Panicked
<1>2. Holding \in SUBSET RunIds
  BY DEF Holding
<1>3. Cardinality(Holding \ {r}) = Cardinality(Holding) - 1 /\ Cardinality(Holding) \in Nat
  BY <1>1, <1>2, RunCounts
<1>4. /\ Cardinality(Active \ Panicked) <= Cardinality(Holding \ {r})
      /\ Cardinality(Active \ Panicked) \in Nat
  BY <1>1, <1>2, RunCounts
<1> QED
  BY <1>3, <1>4, RegistryAssumption DEF PermitsHold

-----------------------------------------------------------------------------
(* Every step keeps it.                                                    *)

\* The process starts with no runs.
LEMMA RegistryInit == Init => RegistryInv
<1> SUFFICES ASSUME Init PROVE RegistryInv
  OBVIOUS
<1>1. Types
  BY RegistryAssumption DEF Init, Types
<1>2. Holding = {}
  BY DEF Init, Holding
<1>3. PermitsHold
  BY <1>2, FS_EmptySet, RegistryAssumption DEF PermitsHold
<1>4. TaskDrivesRun /\ MapsAgree
  BY DEF Init, TaskDrivesRun, MapsAgree
<1>5. NewestIsFound /\ IndexIsLive
  BY RegistryAssumption DEF Init, NewestIsFound, IndexIsLive
<1> QED
  BY <1>1, <1>3, <1>4, <1>5 DEF RegistryInv

\* A step after which no more tasks hold a permit keeps the count.
LEMMA FewerPermits ==
  ASSUME PermitsHold, Holding' \subseteq Holding
  PROVE  PermitsHold'
<1>1. Holding \in SUBSET RunIds
  BY DEF Holding
<1>2. Cardinality(Holding') <= Cardinality(Holding)
        /\ Cardinality(Holding) \in Nat /\ Cardinality(Holding') \in Nat
  BY <1>1, RunCounts
<1> QED
  BY <1>2, RegistryAssumption DEF PermitsHold

\* insert keeps both maps in step: what it drops is over, and what it indexes it registers.
LEMMA InsertKeeps ==
  ASSUME RegistryInv, NEW r \in RunIds, Insert(r)
  PROVE  RegistryInv'
<1> DEFINE index == IndexWithout(Expired)
           kept  == (runs \ Expired) \ Superseded(r, index)
           busy  == {q \in kept : state[q] = "Running"}
<1>0. /\ Types /\ PermitsHold /\ TaskDrivesRun /\ MapsAgree /\ NewestIsFound /\ IndexIsLive
      /\ NoRun \notin RunIds
  BY RegistryAssumption DEF RegistryInv
<1>1. /\ task[r] = "permitted" /\ state[r] = "none" /\ r \notin runs
      /\ UNCHANGED <<session, age>>
  BY <1>0 DEF Insert, TaskDrivesRun, MapsAgree
<1>2. /\ kept \subseteq runs
      /\ index \in [Sessions -> RunIds \cup {NoRun}]
      /\ \A s \in Sessions : index[s] = NoRun \/ (index[s] = bySession[s] /\ index[s] \notin Expired)
      /\ \A s \in Sessions : bySession[s] \in kept => index[s] = bySession[s]
  BY <1>0 DEF Types, IndexWithout, Expired
<1>3. CASE Cardinality(busy) >= MaxRuns
  <2>1. /\ task' = [task EXCEPT ![r] = "refused"]
        /\ runs' = kept /\ bySession' = index
        /\ UNCHANGED <<newest, state>>
    BY <1>3 DEF Insert
  <2>2. Types'
    BY <1>0, <1>1, <1>2, <2>1 DEF Types
  <2>3. PermitsHold'
    <3>1. Holding' \subseteq Holding
      BY <1>0, <2>1 DEF Types, Holding
    <3> QED
      BY <3>1, <1>0, FewerPermits
  <2>4. TaskDrivesRun' /\ MapsAgree'
    BY <1>0, <1>1, <1>2, <2>1 DEF Types, TaskDrivesRun, MapsAgree
  <2>5. NewestIsFound'
    BY <1>0, <1>2, <2>1 DEF NewestIsFound
  <2>6. IndexIsLive'
    <3>1. Panicked # {}
      <4> SUFFICES ASSUME Panicked = {} PROVE FALSE
        OBVIOUS
      <4>1. Cardinality(Active) < MaxRuns
        <5>1. Active \ Panicked = Active
          OBVIOUS
        <5> QED
          BY <1>0, <1>1, <5>1, RoomForPermit
      <4>2. Active \in SUBSET RunIds /\ busy \in SUBSET Active
        BY <1>0, <1>2 DEF Types, Active
      <4>3. Cardinality(busy) <= Cardinality(Active) /\ Cardinality(Active) \in Nat
              /\ Cardinality(busy) \in Nat
        BY <4>2, RunCounts
      <4> QED
        BY <4>1, <4>3, <1>3, RegistryAssumption
    <3>2. Panicked \subseteq Panicked'
      BY <1>0, <1>1, <2>1 DEF Types, Panicked
    <3> QED
      BY <3>1, <3>2 DEF IndexIsLive
  <2> QED
    BY <2>2, <2>3, <2>4, <2>5, <2>6 DEF RegistryInv
<1>4. CASE ~(Cardinality(busy) >= MaxRuns)
  <2>1. /\ task' = [task EXCEPT ![r] = "running"]
        /\ runs' = kept \cup {r}
        /\ bySession' = [index EXCEPT ![session[r]] = r]
        /\ newest' = [newest EXCEPT ![session[r]] = r]
        /\ state' = [state EXCEPT ![r] = "Running"]
    BY <1>4 DEF Insert
  <2>2. Types'
    BY <1>0, <1>1, <1>2, <2>1 DEF Types
  <2>3. PermitsHold'
    <3>1. Holding' \subseteq Holding
      BY <1>0, <1>1, <2>1 DEF Types, Holding
    <3> QED
      BY <3>1, <1>0, FewerPermits
  <2>4. TaskDrivesRun'
    BY <1>0, <1>1, <2>1 DEF Types, TaskDrivesRun
  <2>5. MapsAgree'
    <3>1. session[r] \in Sessions
      BY <1>0 DEF Types
    <3>2. \A q \in RunIds : state[q] # "none" => state'[q] # "none"
      BY <1>0, <2>1 DEF Types
    <3>3. \A q \in runs' : state'[q] # "none"
      BY <1>0, <1>2, <2>1, <3>2 DEF Types, MapsAgree
    <3>4. \A s \in Sessions : bySession'[s] # NoRun =>
             session'[bySession'[s]] = s /\ state'[bySession'[s]] # "none"
      BY <1>0, <1>1, <1>2, <2>1, <3>1, <3>2 DEF Types, MapsAgree
    <3>5. \A s \in Sessions : newest'[s] # NoRun => state'[newest'[s]] # "none"
      BY <1>0, <1>1, <2>1, <3>1, <3>2 DEF Types, MapsAgree
    <3> QED
      BY <3>3, <3>4, <3>5 DEF MapsAgree
  <2>6. NewestIsFound'
    BY <1>0, <1>1, <1>2, <2>1 DEF Types, MapsAgree, NewestIsFound
  <2>7. IndexIsLive'
    <3> SUFFICES ASSUME Panicked' = {}, NEW s \in Sessions, bySession'[s] # NoRun
                 PROVE  bySession'[s] \in runs'
      BY DEF IndexIsLive
    <3>1. Panicked = {}
      BY <1>0, <1>1, <2>1 DEF Types, Panicked
    <3>2. CASE s = session[r]
      BY <1>0, <1>2, <2>1, <3>2 DEF Types
    <3>3. CASE s # session[r]
      <4>1. bySession'[s] = index[s]
        BY <1>2, <2>1, <3>3
      <4>2. index[s] = bySession[s] /\ index[s] \in runs \ Expired /\ session[index[s]] = s
        BY <1>0, <1>2, <3>1, <4>1 DEF IndexIsLive, MapsAgree
      <4>3. index[s] \notin Superseded(r, index)
        BY <1>0, <1>2, <4>2, <3>3 DEF Superseded, MapsAgree, Types
      <4> QED
        BY <4>1, <4>2, <4>3, <2>1
    <3> QED
      BY <3>2, <3>3
  <2> QED
    BY <2>2, <2>3, <2>4, <2>5, <2>6, <2>7 DEF RegistryInv
<1> QED
  BY <1>3, <1>4

\* Requests, turns, look-ups and time keep it too.
LEMMA RegistryNext == RegistryInv /\ [Next]_vars => RegistryInv'
<1> SUFFICES ASSUME RegistryInv, [Next]_vars PROVE RegistryInv'
  OBVIOUS
<1> USE DEF RegistryInv
<1>0. NoRun \notin RunIds /\ MaxRuns \in Nat /\ Retention \in Nat
  BY RegistryAssumption
<1>1. ASSUME NEW r \in RunIds, TakePermit(r) PROVE RegistryInv'
  <2>1. Types' /\ TaskDrivesRun' /\ MapsAgree' /\ NewestIsFound'
    BY <1>1 DEF TakePermit, Types, TaskDrivesRun, MapsAgree, NewestIsFound
  <2>2. PermitsHold'
    <3>1. Holding' = Holding \cup {r} /\ r \notin Holding /\ Holding \in SUBSET RunIds
      BY <1>1 DEF TakePermit, Holding, Types
    <3>2. Cardinality(Holding') = Cardinality(Holding) + 1 /\ Cardinality(Holding) \in Nat
      BY <3>1, RunCounts
    <3> QED
      BY <1>0, <1>1, <3>2 DEF TakePermit, PermitsHold
  <2>3. IndexIsLive'
    BY <1>1 DEF TakePermit, Types, IndexIsLive, Panicked
  <2> QED
    BY <2>1, <2>2, <2>3
<1>2. ASSUME NEW r \in RunIds, Finish(r) PROVE RegistryInv'
  BY <1>2 DEF Finish, Types, PermitsHold, Holding, TaskDrivesRun, MapsAgree, NewestIsFound,
              IndexIsLive, Panicked
<1>3. ASSUME NEW r \in RunIds, TaskEnds(r) \/ Panic(r) PROVE RegistryInv'
  <2>1. Types' /\ TaskDrivesRun' /\ MapsAgree' /\ NewestIsFound'
    BY <1>3 DEF TaskEnds, Panic, Types, TaskDrivesRun, MapsAgree, NewestIsFound
  <2>2. Holding' \subseteq Holding
    BY <1>3 DEF TaskEnds, Panic, Types, Holding
  <2>3. IndexIsLive'
    BY <1>3 DEF TaskEnds, Panic, Types, IndexIsLive, Panicked
  <2> QED
    BY <2>1, <2>2, <2>3, FewerPermits
<1>4. CASE Lookup
  <2>1. Types' /\ PermitsHold' /\ TaskDrivesRun'
    BY <1>4 DEF Lookup, IndexWithout, Types, PermitsHold, Holding, TaskDrivesRun
  <2>2. MapsAgree' /\ NewestIsFound' /\ IndexIsLive'
    BY <1>0, <1>4 DEF Lookup, IndexWithout, Types, MapsAgree, NewestIsFound, IndexIsLive, Panicked
  <2> QED
    BY <2>1, <2>2
<1>5. CASE Tick
  <2>1. age' \in [RunIds -> 0..Retention]
    BY <1>0, <1>5 DEF Tick, Types
  <2> QED
    BY <1>5, <2>1 DEF Tick, Types, PermitsHold, Holding, TaskDrivesRun, MapsAgree, NewestIsFound,
                      IndexIsLive, Panicked
<1>6. CASE UNCHANGED vars
  BY <1>6 DEF vars, Types, PermitsHold, Holding, TaskDrivesRun, MapsAgree, NewestIsFound,
              IndexIsLive, Panicked
<1> QED
  BY <1>1, <1>2, <1>3, <1>4, <1>5, <1>6, InsertKeeps DEF Next

-----------------------------------------------------------------------------
(* What follows.                                                           *)

\* However requests, turns, look-ups and expiries interleave, a session finds its newest run, and
\* what it finds is there; RegistryInner's two maps agree.
THEOREM IndexStaysExact == Spec => []IndexIsExact
<1>1. RegistryInv => IndexIsExact
  BY DEF RegistryInv, IndexIsExact, Types, PermitsHold, TypeOK
<1> QED
  BY <1>1, RegistryInit, RegistryNext, PTL DEF Spec

\* Whatever comes between a request's permit and its registration, the registry has room for it but
\* for the runs that a panic left Running.
THEOREM PermitsMeanRoom == Spec => []PermitMeansRoom
<1>1. RegistryInv => PermitMeansRoom
  BY RoomForPermit DEF RegistryInv, PermitMeansRoom
<1> QED
  BY <1>1, RegistryInit, RegistryNext, PTL DEF Spec
=============================================================================
