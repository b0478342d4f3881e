----------------------------- MODULE RunRegistry -----------------------------
(***************************************************************************)
(* Every run the process is driving or recently finished (pond-api:        *)
(* runs.rs RunRegistry and RunSupervisor, routes.rs chat_stream, run_turn):*)
(* the permits that bound the runs in flight, the registry and its index   *)
(* by session, and the retention of finished runs.                         *)
(*                                                                         *)
(* A request takes a permit and then registers its run; the two are        *)
(* different locks, so other requests and turns come in between.  Each     *)
(* registry call holds the registry's one lock throughout.  What a run     *)
(* says to its readers is in RunStream.                                    *)
(***************************************************************************)
EXTENDS Naturals, FiniteSets

CONSTANTS Sessions,
          RunIds,    \* run ids, each used once; bounds the requests
          NoRun,     \* no run
          MaxRuns,   \* max_runs: permits, and the registry's cap
          Retention, \* retention, in ticks of the clock
          MayPanic   \* whether a turn's task may panic

ASSUME RegistryAssumption ==
    /\ NoRun \notin RunIds /\ IsFiniteSet(RunIds)
    /\ MaxRuns \in Nat \ {0} /\ Retention \in Nat \ {0}
    /\ MayPanic \in BOOLEAN

VARIABLES
    runs,      \* RegistryInner::runs: the ids registered
    bySession, \* RegistryInner::by_session
    session,   \* session[r]: the session of run r
    newest,    \* newest[s]: the run of s registered last (history)
    state,     \* state[r]: none yet, Running or ended
    age,       \* age[r]: time since run r ended
    task       \* task[r]: none, holding its permit, its turn running, ended, panicked, refused

vars == <<runs, bySession, session, newest, state, age, task>>

Init ==
    /\ runs = {}
    /\ bySession = [s \in Sessions |-> NoRun]
    /\ session \in [RunIds -> Sessions]
    /\ newest = [s \in Sessions |-> NoRun]
    /\ state = [r \in RunIds |-> "none"]
    /\ age = [r \in RunIds |-> 0]
    /\ task = [r \in RunIds |-> "none"]

\* A permit is held from the request until the turn's task is gone.
Holding == {r \in RunIds : task[r] \in {"permitted", "running"}}

-----------------------------------------------------------------------------
(* The registry.                                                           *)

Expired == {r \in runs : state[r] = "ended" /\ age[r] >= Retention}

\* Fault: an expired run stays in the index.
IndexUnswept(gone) == bySession

\* sweep_locked: a newer turn on the same session may already own the index.
IndexWithout(gone) ==
    [s \in Sessions |-> IF bySession[s] \in gone THEN NoRun ELSE bySession[s]]

\* A new turn replaces its session's finished one.
Superseded(r, index) == {q \in runs : q = index[session[r]] /\ state[q] = "ended"}

\* insert: sweep, replace, then refuse or register.
Insert(r) ==
    /\ task[r] = "permitted"
    /\ LET index == IndexWithout(Expired)
           kept  == (runs \ Expired) \ Superseded(r, index)
       IN  IF Cardinality({q \in kept : state[q] = "Running"}) >= MaxRuns
           THEN /\ task' = [task EXCEPT ![r] = "refused"]
                /\ runs' = kept
                /\ bySession' = index
                /\ UNCHANGED <<newest, state>>
           ELSE /\ task' = [task EXCEPT ![r] = "running"]
                /\ runs' = kept \cup {r}
                /\ bySession' = [index EXCEPT ![session[r]] = r]
                /\ newest' = [newest EXCEPT ![session[r]] = r]
                /\ state' = [state EXCEPT ![r] = "Running"]
    /\ UNCHANGED <<session, age>>

\* get, for_session and sweep evict what has expired before they answer.
Lookup ==
    /\ Expired # {}
    /\ runs' = runs \ Expired
    /\ bySession' = IndexWithout(Expired)
    /\ UNCHANGED <<session, newest, state, age, task>>

-----------------------------------------------------------------------------
(* Requests and turns.                                                     *)

\* try_acquire_owned on the permits; a request without one is answered 503 and changes nothing.
TakePermit(r) ==
    /\ task[r] = "none"
    /\ Cardinality(Holding) < MaxRuns
    /\ task' = [task EXCEPT ![r] = "permitted"]
    /\ UNCHANGED <<runs, bySession, session, newest, state, age>>

\* finish, by whatever ending came first.
Finish(r) ==
    /\ task[r] = "running" /\ state[r] = "Running"
    /\ state' = [state EXCEPT ![r] = "ended"]
    /\ UNCHANGED <<runs, bySession, session, newest, age, task>>

\* Fault: the permit goes back before the run is marked over.
TaskEndsFirst(r) ==
    /\ task[r] = "running"
    /\ task' = [task EXCEPT ![r] = "gone"]
    /\ UNCHANGED <<runs, bySession, session, newest, state, age>>

\* run_turn returns after finish, and only then is its permit dropped.
TaskEnds(r) ==
    /\ task[r] = "running" /\ state[r] = "ended"
    /\ task' = [task EXCEPT ![r] = "gone"]
    /\ UNCHANGED <<runs, bySession, session, newest, state, age>>

\* A panic unwinds the task: the permit is dropped, nobody calls finish.
Panic(r) ==
    /\ MayPanic /\ task[r] = "running" /\ state[r] = "Running"
    /\ task' = [task EXCEPT ![r] = "panicked"]
    /\ UNCHANGED <<runs, bySession, session, newest, state, age>>

Tick ==
    /\ \E r \in runs : state[r] = "ended" /\ age[r] < Retention
    /\ age' = [r \in RunIds |-> IF state[r] = "ended" /\ age[r] < Retention THEN age[r] + 1 ELSE age[r]]
    /\ UNCHANGED <<runs, bySession, session, newest, state, task>>

Next ==
    \/ \E r \in RunIds : TakePermit(r) \/ Insert(r) \/ Finish(r) \/ TaskEnds(r)
    \/ \E r \in RunIds : Panic(r)
    \/ Lookup
    \/ Tick

Spec == Init /\ [][Next]_vars

-----------------------------------------------------------------------------
TypeOK ==
    /\ runs \subseteq RunIds
    /\ bySession \in [Sessions -> RunIds \cup {NoRun}]
    /\ session \in [RunIds -> Sessions]
    /\ newest \in [Sessions -> RunIds \cup {NoRun}]
    /\ state \in [RunIds -> {"none", "Running", "ended"}]
    /\ age \in [RunIds -> 0..Retention]
    /\ task \in [RunIds -> {"none", "permitted", "running", "gone", "panicked", "refused"}]
    /\ Cardinality(Holding) <= MaxRuns

Active == {r \in runs : state[r] = "Running"}

Panicked == {r \in RunIds : task[r] = "panicked"}

\* Permits and registry are two counts of the same thing kept under two locks: a run is over
\* before its permit is, so for a request that got a permit the registry has room, whatever came
\* between, but for the runs left Running by a panic; only those can make it refuse.
PermitMeansRoom ==
    \A r \in RunIds : task[r] = "permitted" => Cardinality(Active \ Panicked) < MaxRuns

\* insert: "Cap work in flight only; retained runs are history for reconnecting clients."
CapsWorkInFlightOnly == \A r \in RunIds : task[r] = "permitted" => Cardinality(Active) < MaxRuns

\* A session's latest run, for as long as it is kept, is the one its session finds: neither the
\* expiry of an older run nor its replacement takes the index away.
NewestIsFound ==
    \A s \in Sessions : newest[s] \in runs => bySession[s] = newest[s]

\* What the index names is there to be found, unless a panic made the registry refuse a turn
\* after it had dropped the one before it.
IndexIsLive ==
    Panicked = {} => \A s \in Sessions : bySession[s] # NoRun => bySession[s] \in runs

\* RunRegistry's two maps agree: what a session finds is its newest run, and is there.
IndexIsExact == TypeOK /\ NewestIsFound /\ IndexIsLive

\* insert: "A session runs one turn at a time, so a new turn supersedes its finished one."
SessionRunsOneTurn ==
    \A q, r \in Active : session[q] = session[r] => q = r
=============================================================================
